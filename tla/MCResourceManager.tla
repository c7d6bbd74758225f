-------------------------- MODULE MCResourceManager --------------------------
(* Instances of ResourceManager for TLC. *)
EXTENDS ResourceManager, TLC

\* What a pack says of a name.
Says(ref, svg, broken) ==
    [ref |-> ref, svg |-> svg, broken |-> broken]

MCIncludes ==
    "main" :> <<"base", "skin">> @@ "base" :> << >> @@ "skin" :> << >>
    @@ "partial" :> <<"skin", "missing", "base">>

\* The skin replaces the part of a texture by an SVG image, in main a
\* cursor is described, the description of which is broken in the skin.
MCDescribed ==
    "main" :> ("cursor" :> Says("image", FALSE, FALSE))
    @@ "base" :> ("image" :> Says("texture", FALSE, FALSE)
                  @@ "texture" :> Says(None, FALSE, FALSE)
                  @@ "patch" :> Says(None, TRUE, FALSE))
    @@ "skin" :> ("image" :> Says(None, TRUE, FALSE)
                  @@ "cursor" :> Says("image", FALSE, TRUE))
    @@ "partial" :> ("texture" :> Says(None, FALSE, FALSE))

MCTypeOf == "cursor" :> "cursor" @@ "image" :> "image"
            @@ "texture" :> "texture" @@ "patch" :> "ninepatch"

MCSizeAt == <<1, 1>>
=============================================================================
