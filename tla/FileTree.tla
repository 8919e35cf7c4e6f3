------------------------------ MODULE FileTree ------------------------------
(***************************************************************************)
(* The document tree: how flatten.rs takes it apart into node records, how *)
(* the pipeline of store.rs keeps its indexes in step with them, and how   *)
(* query.rs puts it together again.                                        *)
(*                                                                         *)
(* A record knows its parent, its place among its siblings and its page,   *)
(* so moving one layer changes the records of others: every later sibling, *)
(* every descendant.  The file is edited in any way between two pulls.     *)
(* That a pull is one transaction over one version is in Mirror.           *)
(***************************************************************************)
EXTENDS Lists

CONSTANTS
    Root,     \* the DOCUMENT node
    Pages,    \* ids of CANVAS nodes
    Layers,   \* ids of all other nodes
    LooksOf,  \* layer -> what it can be
    Rank,     \* the nodes a text search matches, best first
    None      \* no parent, no page, no record, no pull

Ids == {Root} \cup Pages \cup Layers
Looks == UNION {LooksOf[n] : n \in Layers}
LayerTypes == {look.type : look \in Looks}

\* What a node is, its place apart: its type, the component it instances, the
\* styles it uses and for what, the variables it binds and where, and the
\* values its JSON has at pointers.
Bare(type) == [type |-> type, component |-> None, styles |-> {}, bound |-> {}, raw |-> <<>>]

\* A file, and the records a pull may hold of one.
Files == {f \in [kids: [Ids -> Seq(Ids)], look: [Layers -> Looks]] :
             \A n \in Layers : f.look[n] \in LooksOf[n]}

NodeRecs == [id: Ids, parent: Ids \cup {None}, index: Nat, page: Ids,
             look: Looks \cup {Bare("DOCUMENT"), Bare("CANVAS")}]

ASSUME TreeAssumption ==
    /\ Root \notin Pages \cup Layers /\ Pages \cap Layers = {}
    /\ IsFiniteSet(Pages \cup Layers)
    /\ DOMAIN LooksOf = Layers /\ \A n \in Layers : LooksOf[n] # {}
    /\ \A look \in Looks : DOMAIN look = DOMAIN Bare("FRAME")
    /\ LayerTypes \cap {"DOCUMENT", "CANVAS"} = {}
    /\ Rank \in Seq(Ids) /\ IsInjective(Rank)
    /\ None \notin Ids /\ None \notin Files /\ None \notin NodeRecs

VARIABLES
    file,    \* the file at api.figma.com: kids and look of each node
    synced,  \* the file as last pulled
    store    \* the nodes table and the indexes derived from it

vars == <<file, synced, store>>

Look(f, n) == IF n = Root THEN Bare("DOCUMENT")
              ELSE IF n \in Pages THEN Bare("CANVAS") ELSE f.look[n]
Type(f, n) == Look(f, n).type

\* What a search finds that starts at n and goes on wherever next leads: no
\* id is new after as many rounds as there are ids.
Reach(next, n) ==
    LET found[k \in 0..Cardinality(Ids)] ==
          IF k = 0 THEN {n}
          ELSE LET known == found[k - 1]
               IN  known \cup UNION {next[m] : m \in known}
    IN  found[Cardinality(Ids)]

Descendants(f, n) == Reach([m \in Ids |-> ToSet(f.kids[m])], n)

Live(f) == Descendants(f, Root)

Indexes == {"children", "by_type", "instances_of", "styled_by", "bound_to"}
NoEdges == [x \in Indexes |-> {}]

TypeOK ==
    /\ file \in Files
    /\ synced \in Files \cup {None}
    /\ store.nodes \in [Ids -> NodeRecs \cup {None}]
    /\ \A n \in Ids : store.nodes[n] # None => store.nodes[n].id = n
    /\ DOMAIN store.index = Indexes
    /\ store.index["children"] \subseteq [of: Ids, at: Nat, id: Ids]

Init ==
    /\ file = [kids |-> [n \in Ids |-> <<>>],
               look |-> [n \in Layers |-> CHOOSE look \in LooksOf[n] : TRUE]]
    /\ synced = None
    /\ store = [nodes |-> [n \in Ids |-> None], index |-> NoEdges]

-----------------------------------------------------------------------------
(* flatten.rs walk: depth first, parents before children *)

\* Mutant: a page takes the page above it, the document.
PageInherited(f, n, page) == IF page = None THEN n ELSE page

\* The document and the pages carry their own id, what is below a page its.
PageOf(f, n, page) ==
    IF Type(f, n) \in {"DOCUMENT", "CANVAS"} \/ page = None THEN n ELSE page

\* The call of walk for one node: what it pushes.
NodeRec(f, n, parent, index, page) ==
    [id |-> n, parent |-> parent, index |-> index, page |-> PageOf(f, n, page),
     look |-> Look(f, n)]

KidRecs(f, rec) ==
    [k \in DOMAIN f.kids[rec.id] |->
        NodeRec(f, f.kids[rec.id][k], rec.id, k - 1, rec.page)]

\* What has been pushed, and the calls that are still to be made.
Visit(f, w) ==
    IF w.calls = <<>> THEN w
    ELSE [out   |-> Append(w.out, Head(w.calls)),
          calls |-> KidRecs(f, Head(w.calls)) \o Tail(w.calls)]

Walk(f) ==
    LET walk[k \in 0..Cardinality(Ids)] ==
          IF k = 0 THEN [out |-> <<>>, calls |-> <<NodeRec(f, Root, None, 0, None)>>]
          ELSE Visit(f, walk[k - 1])
    IN  walk[Cardinality(Ids)].out

-----------------------------------------------------------------------------
(* store.rs: the pipeline retracts what an old record contributed to every *)
(* index before it adds what the new one does.                             *)

\* child_edge: the document contributes none.
ChildEdge(rec) ==
    IF rec.parent = None THEN {}
    ELSE {[of |-> rec.parent, at |-> rec.index, id |-> rec.id]}

Edges(rec, terms) == {[of |-> t, id |-> rec.id] : t \in terms}

\* What a record contributes to each index: a style used twice, or a variable
\* bound twice, counts once.
Contributes(rec) ==
    [children     |-> ChildEdge(rec),
     by_type      |-> Edges(rec, {rec.look.type}),
     instances_of |-> Edges(rec, {rec.look.component} \ {None}),
     styled_by    |-> Edges(rec, {u[2] : u \in rec.look.styles}),
     bound_to     |-> Edges(rec, {b[2] : b \in rec.look.bound})]

Old(s, n) == IF s.nodes[n] = None THEN NoEdges ELSE Contributes(s.nodes[n])

Retract(s, ids) ==
    [nodes |-> [n \in Ids |-> IF n \in ids THEN None ELSE s.nodes[n]],
     index |-> [x \in Indexes |-> s.index[x] \ UNION {Old(s, n)[x] : n \in ids}]]

Add(s, rec) ==
    [nodes |-> [s.nodes EXCEPT ![rec.id] = rec],
     index |-> [x \in Indexes |-> s.index[x] \cup Contributes(rec)[x]]]

\* Mutant: an upsert retracts the old record's place and nothing else.
UpsertMovesOnly(s, rec) ==
    Add([s EXCEPT !.index["children"] = @ \ Old(s, rec.id)["children"]], rec)

Upsert(s, rec) == Add(Retract(s, {rec.id}), rec)

\* sync: upsert every record, then remove the stored ids that vanished.
SyncTree(s, recs) ==
    LET prior == {n \in Ids : s.nodes[n] # None}
        live  == {recs[k].id : k \in DOMAIN recs}
    IN  Retract(FoldLeft(Upsert, s, recs), prior \ live)

-----------------------------------------------------------------------------
(* query.rs *)

Present == {n \in Ids : store.nodes[n] # None}

\* Mutant: the edges come in the order of the ids' first insertion.
KidsUnsorted(n) ==
    SetToSeq({e.id : e \in {x \in store.index["children"] : x.of = n}} \cap Present)

\* edges.sort: by the place, whatever the order of the ids.
InOrder(edges) ==
    CHOOSE s \in [1..Cardinality(edges) -> edges] :
        IsInjective(s) /\ \A i, j \in DOMAIN s : i < j => s[i].at <= s[j].at

\* children.get, edges.sort, nodes.get.
Kids(n) ==
    LET edges == InOrder({e \in store.index["children"] : e.of = n})
    IN  Chosen([k \in DOMAIN edges |-> edges[k].id], Present)

\* What build_tree and build_subtree make of a node's kids, level by level.
\* Depth None is unlimited: there are no more levels than nodes.
Outline(kids, n, depth) ==
    LET tree[d \in 0..Cardinality(Ids), m \in Ids] ==
          [id   |-> m,
           kids |-> IF d = 0 THEN <<>>
                    ELSE [k \in DOMAIN kids[m] |-> tree[d - 1, kids[m][k]]]]
    IN  tree[IF depth = None THEN Cardinality(Ids) ELSE depth, n]

BuildTree(n, depth) == Outline([m \in Ids |-> Kids(m)], n, depth)

\* scope_ids: everything the children index reaches, root included.
ScopeIds(n) ==
    Reach([m \in Ids |-> {e.id : e \in {x \in store.index["children"] : x.of = m}}], n)

\* path and depth_of go up the parents until there is none, the table does not
\* have it, or they have been there.
Stops(chain) ==
    \/ Head(chain) \notin Present \/ Contains(Tail(chain), Head(chain))
    \/ store.nodes[Head(chain)].parent = None

Climb(n) ==
    LET up[k \in 0..Cardinality(Ids)] ==
          IF k = 0 THEN <<n>>
          ELSE LET chain == up[k - 1]
               IN  IF Stops(chain) THEN chain
                   ELSE <<store.nodes[Head(chain)].parent>> \o chain
    IN  up[Cardinality(Ids)]

\* A cycle or a gap is an error.
Path(n) ==
    LET top == Head(Climb(n))
    IN  IF top \in Present /\ store.nodes[top].parent = None THEN Climb(n) ELSE <<>>

DepthOf(n) == Len(Climb(n)) - 1

\* search of an inverted index.
Found(index, term) == {e.id : e \in {x \in store.index[index] : x.of = term}}

InPage(n, page) == page = None \/ store.nodes[n].page = page

\* resolve_under, once for a query.
Scope(under) == IF under = None THEN Ids ELSE ScopeIds(under)

\* find, and text for the type TEXT: both filters apply.
Find(type, page, under) ==
    {n \in Present \cap Found("by_type", type) \cap Scope(under) : InPage(n, page)}

\* pages: the CANVAS nodes by child index.
PageList ==
    LET pages == InOrder({[at |-> store.nodes[n].index, id |-> n] :
                             n \in Present \cap Found("by_type", "CANVAS")})
    IN  [k \in DOMAIN pages |-> pages[k].id]

\* Mutant: the best hits are taken before the scope filter.
SearchTopFirst(limit, under) ==
    LET hits == Chosen(Rank, Present)
    IN  Chosen(SubSeq(hits, 1, IF Len(hits) < limit THEN Len(hits) ELSE limit),
               Scope(under))

\* search: a scoped search ranks everything before it takes the best.
Search(limit, under) ==
    LET hits == Chosen(Rank, Present \cap Scope(under))
    IN  IF Len(hits) <= limit THEN hits ELSE SubSeq(hits, 1, limit)

-----------------------------------------------------------------------------
(* Edits of the file, and pulls *)

Parents(n) == IF n \in Pages THEN {Root} ELSE Pages \cup Layers

Insert(f, n, p, k) == [f EXCEPT !.kids[p] = InsertAt(@, k, n)]
Detach(f, n) == [f EXCEPT !.kids = [m \in Ids |-> Chosen(@[m], Ids \ {n})]]

Create(n, p, k) ==
    /\ p \in Parents(n) /\ k \in 1..Len(file.kids[p]) + 1
    /\ n \notin Live(file) /\ p \in Live(file)
    /\ file' = Insert(file, n, p, k)
    /\ UNCHANGED <<synced, store>>

Delete(n) ==
    /\ n \in Live(file)
    /\ file' = [Detach(file, n) EXCEPT !.kids =
                  [m \in Ids |-> IF m \in Descendants(file, n) THEN <<>> ELSE @[m]]]
    /\ UNCHANGED <<synced, store>>

Move(n, p, k) ==
    /\ p \in Parents(n)
    /\ LET f == Detach(file, n)
       IN  k \in 1..Len(f.kids[p]) + 1 /\ file' = Insert(f, n, p, k)
    /\ n \in Live(file) /\ p \in Live(file) \ Descendants(file, n)
    /\ UNCHANGED <<synced, store>>

Restyle(n, look) ==
    /\ n \in Live(file) /\ look \in LooksOf[n]
    /\ file' = [file EXCEPT !.look[n] = look]
    /\ UNCHANGED <<synced, store>>

Pull ==
    /\ synced' = file
    /\ store' = SyncTree(store, Walk(file))
    /\ UNCHANGED file

Next ==
    \/ \E n \in Pages \cup Layers, p \in Ids, k \in 1..Cardinality(Ids) :
          Create(n, p, k) \/ Move(n, p, k)
    \/ \E n \in Pages \cup Layers : Delete(n)
    \/ \E n \in Layers : \E look \in LooksOf[n] : Restyle(n, look)
    \/ Pull

Spec == Init /\ [][Next]_vars

-----------------------------------------------------------------------------
(* Properties *)

\* The outline and the dump of any node, to any depth, and the list of pages
\* are the file's, in the designer's order, whatever was moved between pulls
\* (query.rs build_tree, pages).
TreeFaithful ==
    synced # None =>
        /\ \A n \in Live(synced), depth \in {None, 0, 1} :
              BuildTree(n, depth) = Outline(synced.kids, n, depth)
        /\ PageList = synced.kids[Root]

\* Where a query is to look: everywhere, or below a node of the file.
Within(f, n) == IF n = None THEN Live(f) ELSE Live(f) \cap Descendants(f, n)

\* --under, which goes down the children index, path and stats, which go up
\* the parents, and --page, which reads the page a record carries, agree with
\* the file on what lies where, and so do find and text, which combine them
\* with the type (query.rs).
ScopesAgree ==
    /\ \A n \in Present :
          /\ Present \cap ScopeIds(n) = {m \in Present : Contains(Path(m), n)}
          /\ DepthOf(n) = Len(Path(n)) - 1
    /\ synced # None =>
          \A type \in LayerTypes \cup {"CANVAS"},
             page \in Pages \cup {None}, under \in Live(synced) \cup {None} :
              Find(type, page, under) =
                  {n \in Within(synced, page) \cap Within(synced, under) :
                      Type(synced, n) = type}

\* A better hit elsewhere does not crowd a hit of the scope out of the answer
\* of a search (query.rs search).
SearchFillsLimit ==
    synced # None =>
        \A under \in Live(synced), limit \in 1..2 :
            LET all  == ToSet(Rank) \cap Descendants(synced, under)
                hits == ToSet(Search(limit, under))
            IN  hits \subseteq all /\ (hits = all \/ Cardinality(hits) = limit)
=============================================================================
