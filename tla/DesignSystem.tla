---------------------------- MODULE DesignSystem ----------------------------
(***************************************************************************)
(* What query.rs and vars.rs answer about a file's design system: which    *)
(* nodes instance a component, use a style or bind a variable, what a      *)
(* style's and a variable's values are, and how much of each there is.     *)
(*                                                                         *)
(* Instances, uses and the counts of styles come from the indexes the      *)
(* pipeline maintains, variables and statistics from a scan of all         *)
(* records.  A file lists the components and styles its nodes mention; the *)
(* tables of the mirror follow it as the nodes do.                         *)
(***************************************************************************)
EXTENDS FileTree

CONSTANTS
    Component,  \* component -> its key, name and set
    SetName,    \* component set -> its name
    Style,      \* style -> its type, and its definition
    Variables,  \* ids of variables
    Imported,   \* those that were imported, each with an authoritative record
    IdOrder     \* all ids of nodes, as strings sort

ASSUME DesignAssumption ==
    /\ \A c, d \in DOMAIN Component :
          /\ Component[c].set \in DOMAIN SetName \cup {None}
          /\ Component[c].key \notin DOMAIN Component
          /\ Component[c].key = Component[d].key => c = d
    /\ \A look \in Looks :
          /\ look.component \in DOMAIN Component \cup {None}
          /\ \A u \in look.styles : u[2] \in DOMAIN Style
          /\ \A b \in look.bound : b[2] \in Variables
    /\ Imported \subseteq Variables
    /\ Variables \cap DOMAIN Style = {}
    /\ IdOrder \in Seq(Ids) /\ IsInjective(IdOrder) /\ ToSet(IdOrder) = Ids

\* The components and the styles of the file response, which the tables hold
\* after the pull that swept the others.
Components ==
    IF synced = None THEN {}
    ELSE {n \in DOMAIN Component : n \in Live(synced) /\ Type(synced, n) = "COMPONENT"}
         \cup ({Look(synced, n).component : n \in Live(synced)} \ {None})

ComponentSets == {Component[c].set : c \in Components} \ {None}

Styles ==
    IF synced = None THEN {}
    ELSE {u[2] : u \in UNION {Look(synced, n).styles : n \in Live(synced)}}

-----------------------------------------------------------------------------
(* query.rs *)

Named(name) == {c \in Components : Component[c].name = name}
InSets(sets) == {c \in Components : Component[c].set \in sets}

\* Mutant: names are tried before sets.
ResolveNamesFirst(target) ==
    LET sets == {s \in ComponentSets : SetName[s] = target}
    IN  IF target \in Components THEN {target}
        ELSE IF Named(target) # {} THEN Named(target) ELSE InSets(sets)

\* A node id, a component key, the name of a set, the name of components.
ResolveComponentIds(target) ==
    LET keyed == {c \in Components : Component[c].key = target}
        sets  == {s \in ComponentSets : SetName[s] = target}
    IN  IF target \in Components THEN {target}
        ELSE IF keyed # {} THEN keyed
        ELSE IF sets # {} THEN InSets(sets)
        ELSE Named(target)

Instances(target) ==
    Present \cap UNION {Found("instances_of", c) : c \in ResolveComponentIds(target)}

\* components: every set with its variants, and what is in no set.
Inventory ==
    [sets |-> [s \in ComponentSets |-> InSets({s})], components |-> InSets({None})]

\* uses: a style, or else a variable.
Uses(id) ==
    LET styled == Found("styled_by", id)
    IN  Present \cap (IF styled = {} THEN Found("bound_to", id) ELSE styled)

At(raw, pointer) == IF pointer \in DOMAIN raw THEN {raw[pointer]} ELSE {}

\* vars.rs: where a node that uses a style of the type may have its definition.
StyleValuePointer == [TEXT |-> "/style", FILL |-> "/fills",
                      EFFECT |-> "/effects", GRID |-> "/layoutGrids"]

\* styles --values: of the first consumer.
Consumers(s) == Chosen(IdOrder, Found("styled_by", s))
StyleValue(s) ==
    IF Consumers(s) = <<>> THEN {}
    ELSE At(store.nodes[Consumers(s)[1]].look.raw, StyleValuePointer[Style[s].type])

StyleRow(s) == [uses |-> Len(Consumers(s)), value |-> StyleValue(s)]

\* vars.rs infer_from_nodes: every binding of every record, with the value
\* beside it.
Sites(v) ==
    UNION {{[id |-> n, pointer |-> b[1]] : b \in {x \in store.nodes[n].look.bound : x[2] = v}} :
              n \in Present}

Observed(v) == UNION {At(store.nodes[b.id].look.raw, b.pointer) : b \in Sites(v)}

\* vars: what is imported, and what is bound.
VarRows ==
    [v \in {w \in Variables : Sites(w) # {}} \cup Imported |->
        [source |-> IF v \in Imported THEN "imported" ELSE "inferred",
         sites |-> Sites(v), observed |-> Observed(v)]]

\* where: the nodes whose JSON has the value at the pointer, or any for None.
Where(pointer, value, page, under) ==
    {n \in Present \cap Scope(under) :
        /\ InPage(n, page)
        /\ \E v \in At(store.nodes[n].look.raw, pointer) : value \in {v, None}}

\* stats: what is counted over the records.
ByType == [t \in {store.nodes[n].look.type : n \in Present} |->
              Cardinality({n \in Present : store.nodes[n].look.type = t})]

Contents == {n \in Present : store.nodes[n].look.type \notin {"DOCUMENT", "CANVAS"}}

ByPage == [p \in {store.nodes[n].page : n \in Contents} |->
              Cardinality({n \in Contents : store.nodes[n].page = p})]

MaxDepth == Max({0} \cup {DepthOf(n) : n \in Present})

-----------------------------------------------------------------------------
(* Properties *)

\* instances, uses and the counts of styles, which read indexes, name exactly
\* the nodes of the file that have the reference, whatever was restyled, moved
\* or deleted between pulls and by whatever name a component is asked for; and
\* every component is listed once (query.rs instances, uses, components).
ReferencesFound ==
    synced # None =>
        /\ \A c \in Components :
              LET named == {d \in Components : Component[d].name = Component[c].name}
                  handles == Components \cup {Component[d].key : d \in Components}
                  users(ids) == {n \in Live(synced) : Look(synced, n).component \in ids}
              IN  /\ Instances(c) = users({c})
                  /\ Instances(Component[c].key) = users({c})
                  /\ Component[c].name \notin handles \cup Range(SetName)
                        => Instances(Component[c].name) = users(named)
                  /\ Component[c].set # None /\ SetName[Component[c].set] \notin handles
                        => users({c}) \subseteq Instances(SetName[Component[c].set])
        /\ Components = UNION (Range(Inventory.sets) \cup {Inventory.components})
        /\ \A s \in DOMAIN Style :
              LET users == {n \in Live(synced) : \E u \in Look(synced, n).styles : u[2] = s}
              IN  Uses(s) = users /\ StyleRow(s).uses = Cardinality(users)

\* vars, which scans the records, and uses, which reads the index, agree on
\* where a variable is bound, and the values observed are those the file has
\* there; the statistics of the two kinds agree as well (vars.rs
\* infer_from_nodes, query.rs vars, uses, where_, stats).
ScansAgree ==
    synced # None =>
        /\ \A v \in Variables :
              /\ Uses(v) = {b.id : b \in Sites(v)}
              /\ Uses(v) # {} => v \in DOMAIN VarRows
              /\ \A b \in Sites(v) : \A value \in At(Look(synced, b.id).raw, b.pointer) :
                    value \in VarRows[v].observed /\ b.id \in Where(b.pointer, value, None, b.id)
        /\ \A t \in DOMAIN ByType : ByType[t] = Cardinality(Find(t, None, None))
        /\ \A p \in DOMAIN ByPage : ByPage[p] = Cardinality(ScopeIds(p)) - 1
        /\ MaxDepth < Cardinality(Present)

\* The value listed for a style is its definition (SPEC 7, build design 6a:
\* "derives each style's value from its styled_by consumers").
StyleValueIsDefinition ==
    synced # None => \A s \in Styles : StyleRow(s).value \subseteq {Style[s].value}
=============================================================================
