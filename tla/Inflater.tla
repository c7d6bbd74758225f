------------------------------ MODULE Inflater ------------------------------
(***************************************************************************)
(* The inflater: inflate(), the stacks of templates and of variables it    *)
(* pushes and pops, the merging of a description with the template it      *)
(* names, and the constructors of widgets, which call inflate() again for  *)
(* what they hold.                                                         *)
(*                                                                         *)
(* A node of a script describes a widget: the name, the properties, the    *)
(* widgets it holds, the templates and the variables it declares.  A       *)
(* property or a variable has a list of values, each of them a text or a   *)
(* reference to a variable; a property without values is a removed one.    *)
(* Of the text of a value it matters whether it begins with a capital, as  *)
(* the names of widgets do: merging takes it for one.  Properties within   *)
(* properties are taken for properties of their own; where a template      *)
(* extends another one, that is how they are merged.  The newest layer of  *)
(* a stack is the last one.                                                *)
(***************************************************************************)
EXTENDS Naturals, Sequences, FiniteSetsExt, SequencesExt

CONSTANTS
    Nodes,          \* the nodes of scripts that describe widgets
    Scripts,        \* what the scripts may say: functions on Nodes
    Calls,          \* the chains the program calls inflate() with
    InnerCalls,     \* those a constructor of the program calls it with
    Values,         \* those of properties and variables
    Variables,      \* as a value: a reference, @{variable}
    Capitals,       \* the values that begin with a capital letter
    Factories,      \* the names that addWidget() has registered
    Builds,         \* which of its nodes a constructor inflates at once
    None,           \* no node, no template
    SeveralValues, BadDeclaration, NoFactory, UserError,    \* exceptions
    MaxDepth,       \* the most calls of inflate() in progress
    MaxGlobals      \* the most layers the program declares at top level

Removed == << >>    \* as the values of a property

Exceptions == {SeveralValues, BadDeclaration, NoFactory, UserError}

Size(n) == Cardinality(DOMAIN n.props) + Len(n.kids)
           + (IF DOMAIN n.templates = {} THEN 0 ELSE 1)
           + (IF DOMAIN n.defs = {} THEN 0 ELSE 1)

\* What a node says, and the templates that are declared, are nodes again.  A
\* variable has a value, and a template says something: the code asserts that
\* of those that others extend.
ASSUME InflaterAssumption ==
    /\ None \notin Nodes /\ None \notin Exceptions
    /\ \A s \in Scripts : \A n \in Nodes :
           /\ s[n] = [id |-> n, name |-> s[n].name, props |-> s[n].props,
                      kids |-> s[n].kids, templates |-> s[n].templates,
                      twice |-> s[n].twice, defs |-> s[n].defs]
           /\ IsFiniteSet(DOMAIN s[n].props)
           /\ \A p \in DOMAIN s[n].props : s[n].props[p] \in Seq(Values)
           /\ s[n].kids \in Seq(Nodes)
           /\ s[n].templates \in [DOMAIN s[n].templates -> Nodes]
           /\ \A t \in DOMAIN s[n].templates : Size(s[s[n].templates[t]]) # 0
           /\ \A v \in DOMAIN s[n].defs :
                  s[n].defs[v] \in Seq(Values) \ {<< >>}
    /\ \A chain \in Calls \cup InnerCalls :
           /\ chain.root \in Nodes \cup {None}
           /\ chain.templates \in [DOMAIN chain.templates -> Nodes]
           /\ \A s \in Scripts, t \in DOMAIN chain.templates :
                  Size(s[chain.templates[t]]) # 0
           /\ \A v \in DOMAIN chain.defs :
                  chain.defs[v] \in Seq(Values) \ {<< >>}
    /\ Variables \cap Capitals = {}
    /\ Builds \in [Factories -> {"all", "first", "none"}]
    /\ MaxDepth \in Nat /\ MaxGlobals \in Nat

VARIABLES
    script,         \* of each node, what it says
    templates,      \* layers of templates
    variables,      \* layers of variables
    frames,         \* the calls of inflate() whose constructor is running
    exception,      \* the exception that is on its way, or None
    kept,           \* the nodes lists and selectors keep to inflate later
    globals         \* history: the layers declared at top level

scopeVars == <<templates, variables>>
vars == <<script, scopeVars, frames, exception, kept, globals>>

Scope == [templates |-> templates, variables |-> variables]
Top == frames[Len(frames)]
Callers == SubSeq(frames, 1, Len(frames) - 1)

-----------------------------------------------------------------------------
(* Templates and variables *)

Outermost(stack, name) ==       \* mutant: the search starts at the wrong end
    LET knowing == {i \in DOMAIN stack : name \in DOMAIN stack[i]}
    IN IF knowing = {} THEN None ELSE stack[Min(knowing)][name]

Knowing(stack, name) == {i \in DOMAIN stack : name \in DOMAIN stack[i]}

\* What the innermost layer that knows the name says of it.
Find(stack, name) ==
    IF Knowing(stack, name) = {} THEN None
    ELSE stack[Max(Knowing(stack, name))][name]

Joined(f, g) ==     \* f, and what only g has
    [x \in DOMAIN f \cup DOMAIN g |-> IF x \in DOMAIN f THEN f[x] ELSE g[x]]

HoldsRemoved(n) == \E p \in DOMAIN n.props : n.props[p] = Removed

Capital(values) ==
    values # << >> /\ \A k \in DOMAIN values : values[k] \in Capitals

BaseWins(far, near) ==      \* mutant: the value of the template wins
    IF near = Removed THEN near ELSE far

\* The values that a template and its use give the same property.  Those of
\* the template are dropped, but capitals are kept, before those of the use.
MergedValues(far, near) ==
    IF near = Removed THEN near
    ELSE IF Capital(far) THEN far \o near
    ELSE IF Len(far) = 1 THEN near
    ELSE SeveralValues

Merged(far, near) ==
    [x \in DOMAIN far \cup DOMAIN near |->
        IF x \notin DOMAIN near THEN far[x]
        ELSE IF x \notin DOMAIN far THEN near[x]
        ELSE MergedValues(far[x], near[x])]

\* The kids of the template come first.  A name that is in the lists of
\* templates twice is found when the list is pushed.
Both(from, to) ==
    [to EXCEPT !.name = from.name,
               !.props = Merged(from.props, to.props),
               !.kids = from.kids \o to.kids,
               !.templates = Joined(to.templates, from.templates),
               !.twice = from.twice \/ to.twice \/
                         DOMAIN to.templates \cap DOMAIN from.templates # {},
               !.defs = Merged(from.defs, to.defs)]

\* The template from, with what node to says.  A property of the template
\* that has no children is taken for a value, which must be alone.
Merge(from, to) ==
    IF Size(to) = 0
    THEN [from EXCEPT !.id = to.id]
    ELSE IF HoldsRemoved(from)
    THEN IF Size(from) = 1 THEN [to EXCEPT !.name = from.name]
         ELSE SeveralValues
    ELSE IF SeveralValues \in Range(Merged(from.props, to.props))
                              \cup Range(Merged(from.defs, to.defs))
    THEN SeveralValues
    ELSE Both(from, to)

WithBase(layers, n) ==
    IF Knowing(layers, n.name) = {} THEN n ELSE Merge(Find(layers, n.name), n)

\* The layers with one more: templates are merged with those of the layers
\* that are there already, not with each other.
PushTemplates(layers, names, twice) ==
    LET layer == [t \in DOMAIN names |-> WithBase(layers, script[names[t]])]
    IN IF twice
       THEN BadDeclaration
       ELSE IF \E t \in DOMAIN names : layer[t] = SeveralValues
       THEN SeveralValues
       ELSE Append(layers, layer)

Resolve(layers, x) == IF x \in Variables THEN Find(layers, x) ELSE x

\* A variable has one value, which may refer to a variable of the layers that
\* are there already.
PushVariables(layers, defs) ==
    IF \E v \in DOMAIN defs :
           Len(defs[v]) > 1 \/ Resolve(layers, defs[v][1]) = None
    THEN BadDeclaration
    ELSE Append(layers, [v \in DOMAIN defs |-> Resolve(layers, defs[v][1])])

\* A reference is replaced if it is the first value, and must be the only one.
Misplaced(props) ==
    \E p \in DOMAIN props : Len(props[p]) > 1 /\ props[p][1] \in Variables

\* What the constructor gets: references are replaced where the variable is
\* known.  Removed properties have no value.
Substituted(layers, props) ==
    [p \in {q \in DOMAIN props : props[q] # Removed} |->
        LET x == Resolve(layers, props[p][1])
        IN IF Len(props[p]) > 1 \/ x = None THEN props[p] ELSE <<x>>]

-----------------------------------------------------------------------------
(* inflate() *)

\* The exception e leaves inflate(), for the constructor that called it.
Throw(e, callers) == exception' = e /\ frames' = callers

\* Node id is inflated in the given scope, for the given callers, up to the
\* call of the constructor.  ScopeExit pops what the node has pushed when the
\* variables it declares are wrong.
InflateNode(id, layers, values, callers) ==
    LET n == WithBase(layers, script[id])
        own == DOMAIN n.templates # {}
        ownVariables == DOMAIN n.defs # {}
        inner == IF own THEN PushTemplates(layers, n.templates, n.twice)
                 ELSE layers
        innerValues == IF ownVariables THEN PushVariables(values, n.defs)
                       ELSE values
        e == IF n = SeveralValues THEN SeveralValues
             ELSE IF n.name \notin Factories THEN NoFactory
             ELSE IF inner \in Exceptions THEN inner
             ELSE IF innerValues \in Exceptions THEN innerValues
             ELSE IF Misplaced(n.props) THEN SeveralValues
             ELSE None
    IN IF e # None
       THEN /\ Throw(e, callers)
            /\ templates' = layers /\ variables' = values
       ELSE /\ templates' = inner /\ variables' = innerValues
            /\ frames' = Append(callers,
                   [id |-> id, widget |-> n.name, kids |-> n.kids, next |-> 1,
                    given |-> Substituted(innerValues, n.props),
                    popTemplates |-> own, popVariables |-> ownVariables,
                    called |-> FALSE,
                    outer |-> [templates |-> layers, variables |-> values],
                    inside |-> [templates |-> inner,
                                variables |-> innerValues]])
            /\ exception' = None

\* inflate(chain): what is declared before the first widget is pushed, and
\* stays.  Templates that are wrong leave no layer; variables that are wrong
\* leave that of the templates.
Inflate(chain, callers) ==
    LET layers == IF DOMAIN chain.templates = {} THEN templates
                  ELSE PushTemplates(templates, chain.templates, chain.twice)
        values == IF DOMAIN chain.defs = {} THEN variables
                  ELSE PushVariables(variables, chain.defs)
    IN IF layers \in Exceptions
       THEN Throw(layers, callers) /\ UNCHANGED scopeVars
       ELSE IF values \in Exceptions
       THEN /\ Throw(values, callers)
            /\ templates' = layers
            /\ UNCHANGED variables
       ELSE IF chain.root = None
       THEN /\ templates' = layers /\ variables' = values
            /\ frames' = callers /\ exception' = None
       ELSE InflateNode(chain.root, layers, values, callers)

\* The program, or a constructor, lives on with what is pushed before a node.
Running == exception = None
Idle == Running /\ frames = << >>
InConstructor == Running /\ frames # << >>

\* The layers at the outermost level once the chain is handled.
GlobalsAfter(chain) ==
    LET layers == IF DOMAIN chain.templates = {} THEN templates
                  ELSE PushTemplates(templates, chain.templates, chain.twice)
        values == IF DOMAIN chain.defs = {} THEN variables
                  ELSE PushVariables(variables, chain.defs)
    IN IF layers \in Exceptions THEN globals
       ELSE [templates |-> layers,
             variables |-> IF values \in Exceptions THEN variables ELSE values]

CallInflate(chain) ==
    /\ Idle
    /\ DOMAIN chain.templates \cup DOMAIN chain.defs # {} =>
           Len(templates) + Len(variables) < MaxGlobals
    /\ Inflate(chain, << >>)
    /\ globals' = GlobalsAfter(chain)
    /\ UNCHANGED <<script, kept>>

\* A list or a selector inflates one of its items, some time later.
GetWidget(id) ==
    /\ Idle
    /\ id \in kept
    /\ InflateNode(id, templates, variables, << >>)
    /\ UNCHANGED <<script, kept, globals>>

-----------------------------------------------------------------------------
(* Constructors *)

Left(f) == IF Builds[f.widget] = "all" THEN f.next <= Len(f.kids)
           ELSE IF Builds[f.widget] = "first" THEN f.next = 1 /\ f.kids # << >>
           ELSE FALSE

\* The constructor of a container inflates the next widget it holds.
AddChild ==
    /\ InConstructor /\ Left(Top)
    /\ Len(frames) < MaxDepth
    /\ InflateNode(Top.kids[Top.next], templates, variables,
                   [frames EXCEPT ![Len(frames)].next = @ + 1])
    /\ UNCHANGED <<script, kept, globals>>

\* A constructor inflates a chain of its own.
InflateInside(chain) ==
    /\ InConstructor /\ ~Top.called
    /\ Len(frames) < MaxDepth
    /\ Inflate(chain, [frames EXCEPT ![Len(frames)].called = TRUE])
    /\ UNCHANGED <<script, kept, globals>>

NewestLeft(flag, layers) == IF flag THEN Front(layers) ELSE layers

LeaveDirty(f) ==        \* mutant: the variables are popped with templates only
    /\ templates' = NewestLeft(f.popTemplates, templates)
    /\ variables' = NewestLeft(f.popTemplates /\ f.popVariables, variables)
    /\ frames' = Callers

\* The call of the innermost constructor ends: ScopeExit pops its layers.
Leave(f) ==
    /\ templates' = NewestLeft(f.popTemplates, templates)
    /\ variables' = NewestLeft(f.popVariables, variables)
    /\ frames' = Callers

Return ==
    /\ InConstructor /\ ~Left(Top)
    /\ Leave(Top)
    /\ kept' = IF Builds[Top.widget] = "all" THEN kept
               ELSE kept \cup Range(Top.kids)
    /\ UNCHANGED <<script, exception, globals>>

\* A constructor throws.
Fail ==
    /\ InConstructor
    /\ exception' = UserError
    /\ UNCHANGED <<script, scopeVars, frames, kept, globals>>

\* An exception leaves the innermost constructor.
Unwind ==
    /\ ~Running /\ frames # << >>
    /\ Leave(Top)
    /\ UNCHANGED <<script, exception, kept, globals>>

\* A constructor, or the program, handles it.
Catch ==
    /\ ~Running
    /\ exception' = None
    /\ UNCHANGED <<script, scopeVars, frames, kept, globals>>

-----------------------------------------------------------------------------
(* The specification *)

Init ==
    /\ script \in Scripts
    /\ templates = << >> /\ variables = << >>
    /\ frames = << >> /\ exception = None /\ kept = {}
    /\ globals = Scope

Next ==
    \/ \E chain \in Calls : CallInflate(chain)
    \/ \E id \in Nodes : GetWidget(id)
    \/ AddChild
    \/ \E chain \in InnerCalls : InflateInside(chain)
    \/ Return \/ Fail \/ Unwind \/ Catch

Spec == Init /\ [][Next]_vars

-----------------------------------------------------------------------------
(* The definitions a widget is made of, found in the scripts *)

Depth(i) == Len(globals.templates) + i

\* Of each level and node: the node and the definitions it extends, the
\* nearest one first.  A template is looked up from the innermost level
\* outwards; what it extends, outside of the level that declares it.
Definitions ==
    LET G == Len(globals.templates)
        D[x \in (0 .. G + Len(frames)) \X Nodes] ==
            LET Declares(j) ==
                    IF j <= G
                    THEN [t \in DOMAIN globals.templates[j] |->
                             globals.templates[j][t].id]
                    ELSE LET ds == D[<<j - 1, frames[j - G].id>>]
                         IN [t \in UNION {DOMAIN script[ds[k]].templates :
                                          k \in DOMAIN ds} |->
                                script[ds[Min({k \in DOMAIN ds :
                                    t \in DOMAIN script[ds[k]].templates})]]
                                    .templates[t]]
                name == script[x[2]].name
                levels == {j \in 1 .. x[1] : name \in DOMAIN Declares(j)}
                level == Max(levels)
            IN IF levels = {} THEN <<x[2]>>
               ELSE <<x[2]>> \o D[<<level - 1, Declares(level)[name]>>]
    IN D

DefinitionsOf(i) == Definitions[<<Depth(i) - 1, frames[i].id>>]

\* What the nearest definition that has it says of x, a member of the field.
Nearest(ds, field, x) ==
    script[ds[Min({k \in DOMAIN ds : x \in DOMAIN script[ds[k]][field]})]]
        [field][x]

\* What that definition overrides: what the next one says that has it.
Overridden(ds, field, x) ==
    LET saying == {k \in DOMAIN ds : x \in DOMAIN script[ds[k]][field]}
        others == saying \ {Min(saying)}
    IN IF others = {} THEN << >> ELSE script[ds[Min(others)]][field][x]

Saying(ds, field) == UNION {DOMAIN script[ds[k]][field] : k \in DOMAIN ds}

\* What a variable is, for those inside of frame i: the innermost frame that
\* declares it decides, in terms of what it is outside of that frame.
Meaning ==
    LET V[x \in (0 .. Len(frames)) \X Variables] ==
            IF x[1] = 0 THEN Find(globals.variables, x[2])
            ELSE LET ds == DefinitionsOf(x[1])
                     value == Nearest(ds, "defs", x[2])[1]
                 IN IF x[2] \notin Saying(ds, "defs")
                    THEN V[<<x[1] - 1, x[2]>>]
                    ELSE IF value \in Variables THEN V[<<x[1] - 1, value>>]
                    ELSE value
    IN V

-----------------------------------------------------------------------------
(* Properties *)

Declarations(chain) == DOMAIN chain.templates \cup DOMAIN chain.defs

\* The scope is as the innermost constructor found it, a nested call found
\* what its caller has, and the outermost one what the program declared:
\* whatever calls return, throw, or are wrong half way through.  That is what
\* the pops of inflate() rely on, which pop the newest layer, whosever it is.
ScopesNest ==
    /\ Scope = IF frames = << >> THEN globals ELSE Top.inside
    /\ \A i \in DOMAIN frames :
           frames[i].outer = IF i = 1 THEN globals ELSE frames[i - 1].inside

\* A constructor gets what the definitions of its widget say, which pushing,
\* merging at two times and the search through the layers come to: the widget
\* of the last one, the properties the nearest one has, unless that removes
\* it, and the widgets all of them hold, those of the last one first.
TakesAfterDefinitions ==
    \A i \in DOMAIN frames :
        LET f == frames[i]
            ds == DefinitionsOf(i)
        IN /\ f.widget = script[Last(ds)].name
           /\ DOMAIN f.given = {p \in Saying(ds, "props") :
                                   Nearest(ds, "props", p) # Removed}
           /\ f.kids = FlattenSeq(Reverse([k \in DOMAIN ds |->
                                               script[ds[k]].kids]))

Behind(values, said) ==     \* the values are those said, after capitals
    LET n == Len(values) - Len(said)
    IN /\ n > 0
       /\ \A k \in 1 .. n : values[k] \in Capitals
       /\ \A k \in 1 .. Len(said) : values[n + k] = said[k]

\* A property has what its nearest definition says, and if that is a reference
\* the value of the innermost variable with that name: it stays a reference
\* when there is none.  But where the definition overrides capitals, those come
\* before what it says, are what a constructor that takes one value reads, and
\* leave a reference as it is.
ReadsInnermost ==
    \A i \in DOMAIN frames :
        \A p \in DOMAIN frames[i].given :
            LET ds == DefinitionsOf(i)
                said == Nearest(ds, "props", p)
                value == Meaning[<<i, said[1]>>]
                given == frames[i].given[p]
            IN IF Capital(Overridden(ds, "props", p))
               THEN Behind(given, said)
               ELSE given = IF /\ Len(said) = 1 /\ said[1] \in Variables
                               /\ value # None
                            THEN <<value>> ELSE said

=============================================================================
