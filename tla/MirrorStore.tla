---------------------------- MODULE MirrorStore ----------------------------
(***************************************************************************)
(* The contents of one mirror's store and the operations of store.rs,      *)
(* cache.rs and images.rs on them, as functions from contents to contents. *)
(*                                                                         *)
(* A file version is a number.  Doc[v] says which nodes, components,       *)
(* component sets and styles (all of them "Nodes" here: the sweep treats   *)
(* the four tables alike) the Figma file has at version v and with which   *)
(* body; VarDoc[v] says which variables and collections ("Vars") it has.   *)
(***************************************************************************)
EXTENDS Naturals, FiniteSets

CONSTANTS
    Nodes,       \* ids that flatten_file can produce
    Vars,        \* ids of variables and variable collections
    Calls,       \* cacheable proxied calls: a (tool, canonical args) pair
    Images,      \* image renders and fills: a (kind, subject, format, scale)
    Bodies,      \* what the API says about a node, without its geometry
    MaxVersion,  \* the last version the file reaches
    Doc,         \* version -> node -> body, or Absent
    VarDoc,      \* version -> the variables of the file
    Absent,      \* "no such record"
    NoVersion,   \* "no meta row"
    Imported     \* the body of a manually imported variable

Versions == 0..MaxVersion
VersionOrNone == Versions \cup {NoVersion}
Ids == Nodes \cup Vars
Items == Calls \cup Images

(***************************************************************************)
(* Rec: a record is its body plus whether its raw JSON carries vector      *)
(* geometry.  A variable's body is the version of the export it came from. *)
(***************************************************************************)
NodeRec == [body: Bodies, geom: BOOLEAN]
VarRec  == [body: Versions \cup {Imported}, geom: {FALSE}]

ASSUME StoreAssumption ==
    /\ MaxVersion \in Nat
    /\ Doc \in [Versions -> [Nodes -> Bodies \cup {Absent}]]
    /\ VarDoc \in [Versions -> SUBSET Vars]
    /\ Nodes \cap Vars = {} /\ IsFiniteSet(Ids)
    /\ Absent \notin Bodies \cup NodeRec \cup VarRec
    /\ NoVersion \notin Nat
    /\ Imported \notin Versions

\* A proxy_cache or images row: the version it is tagged with, and the
\* version of the file its bytes really show.
Row == [tag: VersionOrNone, content: Versions]

Recs == {r \in [Ids -> NodeRec \cup VarRec \cup {Absent}] :
            /\ \A n \in Nodes : r[n] \in NodeRec \cup {Absent}
            /\ \A x \in Vars : r[x] \in VarRec \cup {Absent}}

Contents == [meta: VersionOrNone,
             recs: Recs,
             rows: [Items -> Row \cup {Absent}],
             geometry: BOOLEAN]

EmptyStore == [meta |-> NoVersion,
               recs |-> [i \in Ids |-> Absent],
               rows |-> [i \in Items |-> Absent],
               geometry |-> FALSE]

-----------------------------------------------------------------------------
(* flatten_file and parse_variables_export: the live records of a response. *)

LiveNodes(v) == {n \in Nodes : Doc[v][n] # Absent}

\* Mutant: a record for every id ever seen, not only for those of the response.
FlattenAll(v, g) == [n \in Nodes |-> [body |-> Doc[v][n], geom |-> g]]

FlattenFile(v, g) == [n \in LiveNodes(v) |-> [body |-> Doc[v][n], geom |-> g]]

ParseVariables(v) == [x \in VarDoc[v] |-> [body |-> v, geom |-> FALSE]]

ImportRecs(X) == [x \in X |-> [body |-> Imported, geom |-> FALSE]]

\* Vec::extend over disjoint ids; ev = NoVersion when there was no export.
Flattened(v, g, ev) ==
    LET f == FlattenFile(v, g)
        e == IF ev = NoVersion THEN ImportRecs({}) ELSE ParseVariables(ev)
    IN  [i \in DOMAIN f \cup DOMAIN e |-> IF i \in DOMAIN f THEN f[i] ELSE e[i]]

-----------------------------------------------------------------------------
(* store.rs *)

Stored(recs, S) == {i \in S : recs[i] # Absent}

CollectSweepable(c) == Stored(c.recs, Nodes)
CollectVariableIds(c) == Stored(c.recs, Vars)

\* Mutant: the sweep is forgotten.
UpsertOnly(recs, prior, live) ==
    [i \in Ids |-> IF i \in DOMAIN live THEN live[i] ELSE recs[i]]

\* tx.upsert of every live record, then tx.remove of what vanished.
SyncRecs(recs, prior, live) ==
    [i \in Ids |-> CASE i \in DOMAIN live             -> live[i]
                     [] i \in prior \ DOMAIN live     -> Absent
                     [] OTHER                         -> recs[i]]

\* Mutant: the meta row is not upserted with the records.
SyncForgetsMeta(c, prior, live, v) == [c EXCEPT !.recs = SyncRecs(c.recs, prior, live)]

Sync(c, prior, live, v) ==
    [c EXCEPT !.recs = SyncRecs(c.recs, prior, live), !.meta = v]

\* Mutant: every upsert of a record already there counts as a change.
ChurnUncompared(c, prior, live) ==
    [added     |-> Cardinality({i \in DOMAIN live : c.recs[i] = Absent}),
     changed   |-> Cardinality({i \in DOMAIN live : c.recs[i] # Absent}),
     unchanged |-> 0,
     removed   |-> Cardinality({i \in prior \ DOMAIN live : c.recs[i] # Absent})]

\* The counts sync returns.
Churn(c, prior, live) ==
    [added     |-> Cardinality({i \in DOMAIN live : c.recs[i] = Absent}),
     changed   |-> Cardinality({i \in DOMAIN live : c.recs[i] \notin {Absent, live[i]}}),
     unchanged |-> Cardinality({i \in DOMAIN live : c.recs[i] = live[i]}),
     removed   |-> Cardinality({i \in prior \ DOMAIN live : c.recs[i] # Absent})]

StaleRows(c, v) == {i \in Items : c.rows[i] # Absent /\ c.rows[i].tag # v}

\* Mutant: stale_image_ids is not joined to the eviction.
EvictCallsOnly(c, v) ==
    [c EXCEPT !.rows = [i \in Items |-> IF i \in StaleRows(c, v) \cap Calls THEN Absent
                                                                          ELSE c.rows[i]]]

EvictStale(c, v) ==
    [c EXCEPT !.rows = [i \in Items |-> IF i \in StaleRows(c, v) THEN Absent
                                                                 ELSE c.rows[i]]]

EffectiveGeometry(flag, stored) == flag \/ stored

UpsertVariables(c, X) == [c EXCEPT !.recs = SyncRecs(c.recs, {}, ImportRecs(X))]

-----------------------------------------------------------------------------
(* cache.rs lookup and images.rs scan *)

\* Mutant: the version tag is not compared.
HitAny(c, i) == c.rows[i] # Absent

\* A proxied call never hits before the first pull (its version is None);
\* an image's version is "" then, and "" equals "".
Hit(c, i) ==
    /\ c.rows[i] # Absent
    /\ c.rows[i].tag = c.meta
    /\ i \in Calls => c.meta # NoVersion

\* proxy_call stores only under Some(version), resolve under any.
Cacheable(i, tag) == i \in Images \/ tag # NoVersion

StoreRow(c, i, tag, content) ==
    IF Cacheable(i, tag)
    THEN [c EXCEPT !.rows[i] = [tag |-> tag, content |-> content]]
    ELSE c
=============================================================================
