----------------------------- MODULE MCInflater -----------------------------
(* Instances of Inflater for TLC: a widget, one it holds, two templates. *)
EXTENDS Inflater, TLC

CONSTANTS root, kid, one, two, v, w

MCVariables == {v, w}
MCValues == 1 .. 6 \cup MCVariables
MCBuilds == "Box" :> "all" @@ "Select" :> "first" @@ "List" :> "none"

Nothing == << >>
MCNode(id, names, props, kids, names_, defs) ==
    {[id |-> id, name |-> name, props |-> p, kids |-> k, templates |-> t,
      twice |-> FALSE, defs |-> d] :
        name \in names, p \in props, k \in kids, t \in names_, d \in defs}

\* 4 and 6 are the capitals.
MCScripts ==
    {root :> r @@ kid :> k @@ one :> a @@ two :> b :
        r \in MCNode(root, {"Box", "T"}, {"p" :> <<v>>, "p" :> Removed},
                     {<<kid>>}, {Nothing, "T" :> two},
                     {Nothing, v :> <<1>>, v :> <<w>>})
              \cup MCNode(root, {"Box"}, {"p" :> <<v>>}, {<<kid>>},
                         {"T" :> one}, {v :> <<1>>}),
        k \in MCNode(kid, {"List", "T", "U"}, {"q" :> <<v>>}, {Nothing},
                     {Nothing, "U" :> two},
                     {Nothing, v :> <<2>> @@ w :> <<2>>}),
        a \in MCNode(one, {"U"}, {"q" :> <<3>> @@ "p" :> <<w>>,
                                  "q" :> <<6>>, "p" :> Removed},
                     {Nothing}, {Nothing, "U" :> two}, {Nothing})
              \cup MCNode(one, {"Box", "Select"}, {"p" :> <<3>>}, {<<kid>>},
                         {Nothing}, {Nothing})
              \cup MCNode(one, {"Box"}, {"p" :> <<w, 3>>}, {Nothing},
                         {Nothing}, {Nothing}),
        b \in UNION {MCNode(two, {"Box", "T"}, {"q" :> <<x>>}, {Nothing},
                            {Nothing}, {w :> <<x>>}) : x \in {3, 4}}}

MCChain(t, d, r) == [templates |-> t, twice |-> FALSE, defs |-> d, root |-> r]
MCCalls == {MCChain(Nothing, Nothing, root),
            MCChain("U" :> two, w :> <<5>>, root),
            MCChain("T" :> one, w :> <<v>>, None)}
MCInnerCalls == {MCChain(Nothing, Nothing, kid)}
=============================================================================
