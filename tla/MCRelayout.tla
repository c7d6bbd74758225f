----------------------------- MODULE MCRelayout -----------------------------
(* Instances of Relayout for TLC. *)
EXTENDS Relayout, TLC

CONSTANTS root, window, label, box, text, word, longer, red

\* root > window > label, box > text
MCHome == (window :> root) @@ (label :> window) @@ (box :> window) @@ (text :> box)
MCAbove == (root :> {}) @@ (window :> {root})
    @@ (label :> {root, window}) @@ (box :> {root, window})
    @@ (text :> {root, window, box})
MCContents == (label :> {word, longer}) @@ (text :> {word, red})
MCWidth == (word :> 1) @@ (longer :> 2) @@ (red :> 1)
=============================================================================
