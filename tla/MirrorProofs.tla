---------------------------- MODULE MirrorProofs ----------------------------
(***************************************************************************)
(* What holds of every mirror, whatever the file's history, the number of  *)
(* command-line processes, of crashes and of wipes.                        *)
(*                                                                         *)
(* The invariants come in layers, each proved from the one before:         *)
(* TypeInv, then LockInv (two holders never share a directory), then       *)
(* SnapInv (a sweep set collected under the lock is still the stored set   *)
(* when the sync transaction runs, so that sync installs a whole version), *)
(* and on these ServeInv, RowInv, PullSees with RowsFit, and SweepVars.    *)
(***************************************************************************)
EXTENDS Mirror, FiniteSetTheorems, TLAPS

-----------------------------------------------------------------------------
(* The operations of MirrorStore: what they return for any history and store *)

\* The node records a reader finds right after version v was synced with
\* geometry flag g (the abstract mirror's view of v).
SnapshotNode(v, g, n) == IF n \in LiveNodes(v) THEN FlattenFile(v, g)[n] ELSE Absent

\* flatten_file yields a well-formed record for each live node and no other.
LEMMA FlattenFileRecords ==
    ASSUME NEW v \in Versions, NEW g \in BOOLEAN
    PROVE  /\ DOMAIN FlattenFile(v, g) = LiveNodes(v)
           /\ LiveNodes(v) \subseteq Nodes
           /\ \A n \in LiveNodes(v) : FlattenFile(v, g)[n] \in NodeRec
BY StoreAssumption DEF FlattenFile, LiveNodes, NodeRec

\* The variables part of a response yields only variable records.
LEMMA ParsedRecords ==
    ASSUME NEW v \in Versions
    PROVE  /\ DOMAIN ParseVariables(v) \subseteq Vars
           /\ \A x \in DOMAIN ParseVariables(v) : ParseVariables(v)[x] \in VarRec
BY StoreAssumption DEF ParseVariables, VarRec

LEMMA ImportedRecords ==
    ASSUME NEW X \in SUBSET Vars
    PROVE  /\ DOMAIN ImportRecs(X) = X
           /\ \A x \in X : ImportRecs(X)[x] \in VarRec
BY DEF ImportRecs, VarRec

\* What a pull hands to sync: the nodes of the response, untouched by the
\* variables joined to them, and well-formed variables.
LEMMA FlattenedRecords ==
    ASSUME NEW v \in Versions, NEW g \in BOOLEAN, NEW ev \in VersionOrNone
    PROVE  LET live == Flattened(v, g, ev)
           IN  /\ DOMAIN live \subseteq Ids
               /\ DOMAIN live \cap Nodes = LiveNodes(v)
               /\ \A n \in LiveNodes(v) : live[n] = FlattenFile(v, g)[n]
               /\ \A n \in DOMAIN live \cap Nodes : live[n] \in NodeRec
               /\ \A x \in DOMAIN live \cap Vars : live[x] \in VarRec
<1> DEFINE f == FlattenFile(v, g)
           e == IF ev = NoVersion THEN ImportRecs({}) ELSE ParseVariables(ev)
<1>1. /\ DOMAIN f = LiveNodes(v) /\ LiveNodes(v) \subseteq Nodes
      /\ \A n \in LiveNodes(v) : f[n] \in NodeRec
  BY FlattenFileRecords
<1>2. DOMAIN e \subseteq Vars /\ \A x \in DOMAIN e : e[x] \in VarRec
  <2>1. CASE ev = NoVersion
    BY <2>1, ImportedRecords
  <2>2. CASE ev # NoVersion
    <3>1. ev \in Versions
      BY <2>2 DEF VersionOrNone
    <3>2. QED
      BY <2>2, <3>1, ParsedRecords
  <2>3. QED
    BY <2>1, <2>2
<1>3. Nodes \cap Vars = {}
  BY StoreAssumption
<1> HIDE DEF f, e
<1>4. Flattened(v, g, ev) =
        [i \in DOMAIN f \cup DOMAIN e |-> IF i \in DOMAIN f THEN f[i] ELSE e[i]]
  BY DEF Flattened, f, e
<1>5. QED
  BY <1>1, <1>2, <1>3, <1>4 DEF Ids, f

\* sync keeps the store well formed.
LEMMA SyncContents ==
    ASSUME NEW c \in Contents, NEW prior \in SUBSET Ids,
           NEW v \in Versions, NEW g \in BOOLEAN, NEW ev \in VersionOrNone
    PROVE  Sync(c, prior, Flattened(v, g, ev), v) \in Contents
<1> DEFINE live == Flattened(v, g, ev)
<1>1. /\ \A n \in DOMAIN live \cap Nodes : live[n] \in NodeRec
      /\ \A x \in DOMAIN live \cap Vars : live[x] \in VarRec
  BY FlattenedRecords
<1> HIDE DEF live
<1>2. c.recs \in Recs
  BY DEF Contents
<1>3. SyncRecs(c.recs, prior, live) \in Recs
  BY <1>1, <1>2 DEF SyncRecs, Recs, Ids
<1>4. QED
  BY <1>3 DEF Sync, Contents, live, VersionOrNone

\* A sweep set that covers the stored nodes makes sync install exactly the
\* nodes of the version it is given: none missing and none left over.
LEMMA SyncInstalls ==
    ASSUME NEW c \in Contents, NEW prior \in SUBSET Ids,
           NEW v \in Versions, NEW g \in BOOLEAN, NEW ev \in VersionOrNone,
           CollectSweepable(c) \subseteq prior
    PROVE  /\ Sync(c, prior, Flattened(v, g, ev), v).meta = v
           /\ \A n \in Nodes :
                 Sync(c, prior, Flattened(v, g, ev), v).recs[n] = SnapshotNode(v, g, n)
<1> DEFINE live == Flattened(v, g, ev)
<1>1. /\ DOMAIN live \cap Nodes = LiveNodes(v)
      /\ \A n \in LiveNodes(v) : live[n] = FlattenFile(v, g)[n]
  BY FlattenedRecords
<1> HIDE DEF live
<1>2. /\ Sync(c, prior, live, v).meta = v
      /\ Sync(c, prior, live, v).recs = SyncRecs(c.recs, prior, live)
  BY DEF Sync, Contents
<1>3. ASSUME NEW n \in Nodes
      PROVE  SyncRecs(c.recs, prior, live)[n] = SnapshotNode(v, g, n)
  <2>1. CASE n \in LiveNodes(v)
    BY <1>1, <2>1 DEF SyncRecs, SnapshotNode, Ids
  <2>2. CASE n \notin LiveNodes(v)
    <3>1. n \in prior \/ c.recs[n] = Absent
      BY DEF CollectSweepable, Stored
    <3>2. n \notin DOMAIN live
      BY <1>1, <2>2
    <3>3. QED
      BY <2>2, <3>1, <3>2 DEF SyncRecs, SnapshotNode, Ids
  <2>3. QED
    BY <2>1, <2>2
<1>4. QED
  BY <1>2, <1>3 DEF live

\* The other write transactions keep the store well formed and leave its
\* version and its nodes alone.
LEMMA EvictStaleContents ==
    ASSUME NEW c \in Contents, NEW v
    PROVE  /\ EvictStale(c, v) \in Contents
           /\ EvictStale(c, v).meta = c.meta
           /\ EvictStale(c, v).recs = c.recs
           /\ EvictStale(c, v).geometry = c.geometry
<1>1. c.rows \in [Items -> Row \cup {Absent}]
  BY DEF Contents
<1>2. [i \in Items |-> IF i \in StaleRows(c, v) THEN Absent ELSE c.rows[i]]
         \in [Items -> Row \cup {Absent}]
  BY <1>1
<1>3. QED
  BY <1>2 DEF EvictStale, Contents

LEMMA StoreRowContents ==
    ASSUME NEW c \in Contents, NEW i, NEW tag \in VersionOrNone,
           NEW content \in Versions
    PROVE  /\ StoreRow(c, i, tag, content) \in Contents
           /\ StoreRow(c, i, tag, content).meta = c.meta
           /\ StoreRow(c, i, tag, content).recs = c.recs
           /\ StoreRow(c, i, tag, content).geometry = c.geometry
<1> DEFINE d == [c EXCEPT !.rows[i] = [tag |-> tag, content |-> content]]
<1>1. [c.rows EXCEPT ![i] = [tag |-> tag, content |-> content]]
         \in [Items -> Row \cup {Absent}]
  BY DEF Contents, Row
<1>2. d \in Contents /\ d.meta = c.meta /\ d.recs = c.recs /\ d.geometry = c.geometry
  BY <1>1 DEF Contents
<1>3. StoreRow(c, i, tag, content) = d \/ StoreRow(c, i, tag, content) = c
  BY DEF StoreRow
<1>4. QED
  BY <1>2, <1>3

LEMMA UpsertVariablesContents ==
    ASSUME NEW c \in Contents, NEW X \in SUBSET Vars
    PROVE  /\ UpsertVariables(c, X) \in Contents
           /\ UpsertVariables(c, X).meta = c.meta
           /\ \A n \in Nodes : UpsertVariables(c, X).recs[n] = c.recs[n]
           /\ UpsertVariables(c, X).geometry = c.geometry
<1> DEFINE live == ImportRecs(X)
<1>1. DOMAIN live = X /\ \A x \in X : live[x] \in VarRec
  BY ImportedRecords
<1> HIDE DEF live
<1>2. c.recs \in Recs
  BY DEF Contents
<1>3. \A n \in Nodes : n \notin X
  BY StoreAssumption
<1>4. SyncRecs(c.recs, {}, live) \in Recs
  BY <1>1, <1>2, <1>3 DEF SyncRecs, Recs, Ids
<1>5. \A n \in Nodes : SyncRecs(c.recs, {}, live)[n] = c.recs[n]
  BY <1>1, <1>3 DEF SyncRecs, Ids
<1>6. UpsertVariables(c, X) = [c EXCEPT !.recs = SyncRecs(c.recs, {}, live)]
  BY DEF UpsertVariables, live
<1>7. QED
  BY <1>4, <1>5, <1>6 DEF Contents

LEMMA EmptyContents == EmptyStore \in Contents
<1>1. [i \in Ids |-> Absent] \in Recs
  BY DEF Recs, Ids
<1>2. QED
  BY <1>1 DEF EmptyStore, Contents, VersionOrNone

\* What the write transactions do to the cache rows.
LEMMA RowsAfter ==
    ASSUME NEW c \in Contents
    PROVE  /\ \A prior, live, v : /\ Sync(c, prior, live, v).rows = c.rows
                                  /\ Sync(c, prior, live, v).meta = v
           /\ \A X : UpsertVariables(c, X).rows = c.rows
           /\ \A v : \A i \in Items :
                 EvictStale(c, v).rows[i] = IF i \in StaleRows(c, v) THEN Absent ELSE c.rows[i]
           /\ \A i, tag, content : \A j \in Items :
                 LET row == StoreRow(c, i, tag, content).rows[j]
                 IN  row = c.rows[j] \/ row = [tag |-> tag, content |-> content]
<1>1. \A prior, live, v : /\ Sync(c, prior, live, v).rows = c.rows
                          /\ Sync(c, prior, live, v).meta = v
  BY DEF Sync, Contents
<1>2. \A X : UpsertVariables(c, X).rows = c.rows
  BY DEF UpsertVariables, Contents
<1>3. ASSUME NEW v, NEW i \in Items
      PROVE  EvictStale(c, v).rows[i] = IF i \in StaleRows(c, v) THEN Absent ELSE c.rows[i]
  BY DEF EvictStale, Contents
<1>4. ASSUME NEW i, NEW tag, NEW content, NEW j \in Items
      PROVE  LET row == StoreRow(c, i, tag, content).rows[j]
             IN  row = c.rows[j] \/ row = [tag |-> tag, content |-> content]
  <2> DEFINE rows == [c.rows EXCEPT ![i] = [tag |-> tag, content |-> content]]
  <2>1. c.rows \in [Items -> Row \cup {Absent}]
    BY DEF Contents
  <2>2. rows[j] = c.rows[j] \/ rows[j] = [tag |-> tag, content |-> content]
    BY <2>1
  <2>3. StoreRow(c, i, tag, content) = c \/ StoreRow(c, i, tag, content).rows = rows
    BY DEF StoreRow, Contents
  <2>4. QED
    BY <2>2, <2>3
<1>5. QED
  BY <1>1, <1>2, <1>3, <1>4

\* What a pull does to a variable: it is the export's; it is swept, if the pull
\* swept it; or it is as it was.
LEMMA SyncVariables ==
    ASSUME NEW c \in Contents, NEW prior \in SUBSET Ids,
           NEW v \in Versions, NEW g \in BOOLEAN, NEW ev \in VersionOrNone, NEW x \in Vars
    PROVE  Sync(c, prior, Flattened(v, g, ev), v).recs[x] =
              IF ev # NoVersion /\ x \in VarDoc[ev] THEN [body |-> ev, geom |-> FALSE]
              ELSE IF x \in prior THEN Absent ELSE c.recs[x]
<1> DEFINE f == FlattenFile(v, g)
           e == IF ev = NoVersion THEN ImportRecs({}) ELSE ParseVariables(ev)
           live == Flattened(v, g, ev)
<1>1. x \notin DOMAIN f /\ x \in Ids
  BY FlattenFileRecords, StoreAssumption DEF Ids
<1>2. /\ x \in DOMAIN e <=> ev # NoVersion /\ x \in VarDoc[ev]
      /\ x \in DOMAIN e => e[x] = [body |-> ev, geom |-> FALSE]
  BY DEF ImportRecs, ParseVariables
<1>3. /\ DOMAIN live = DOMAIN f \cup DOMAIN e
      /\ x \in DOMAIN e => live[x] = e[x]
  BY <1>1 DEF Flattened
<1> HIDE DEF live, f, e
<1>4. Sync(c, prior, live, v).recs = SyncRecs(c.recs, prior, live)
  BY DEF Sync, Contents
<1>5. SyncRecs(c.recs, prior, live)[x] =
        IF x \in DOMAIN live THEN live[x] ELSE IF x \in prior THEN Absent ELSE c.recs[x]
  BY <1>1 DEF SyncRecs
<1>6. QED
  BY <1>1, <1>2, <1>3, <1>4, <1>5 DEF live

LEMMA ImportedVariables ==
    ASSUME NEW c \in Contents, NEW X \in SUBSET Vars
    PROVE  /\ \A x \in X : UpsertVariables(c, X).recs[x] = [body |-> Imported, geom |-> FALSE]
           /\ \A x \in Vars \ X : UpsertVariables(c, X).recs[x] = c.recs[x]
<1>1. UpsertVariables(c, X).recs = SyncRecs(c.recs, {}, ImportRecs(X))
  BY DEF UpsertVariables, Contents
<1>2. QED
  BY <1>1 DEF SyncRecs, ImportRecs, Ids

-----------------------------------------------------------------------------
(* Program points *)

\* Program points of a pull that has its response.
FetchedPcs == {"vars", "wipe", "open", "collect", "sync", "evict", "config"}

\* A response shows a version the file has had.
Fetched == \A p \in Procs : pc[p] \in FetchedPcs => job[p].ver \in 0..cloud

\* serve opens its store once, not in every pull.
ServePath == pc[Serve] \notin {"wipe", "open"}

Typed == TypeOK /\ Fetched

TypeInv == Typed /\ ServePath

-----------------------------------------------------------------------------
(* Typing *)

LEMMA NoJobType == NoJob \in Jobs
BY DEF NoJob, Jobs, VersionOrNone

LEMMA NoCallType == NoCall \in CallSlots
BY DEF NoCall, CallSlots, VersionOrNone

LEMMA VersionsOrder ==
    ASSUME NEW v \in Versions
    PROVE  v \in Nat /\ v <= MaxVersion /\ \A w \in 0..v : w \in Versions
BY StoreAssumption DEF Versions

\* Finish and Drop leave the locals empty.
LEMMA FinishType ==
    ASSUME TypeOK, NEW p \in Procs, Finish(p)
    PROVE  /\ pc' \in [Procs -> PCs]
           /\ job' \in [Procs -> Jobs]
           /\ call' \in [Procs -> CallSlots]
           /\ gen' \in [Procs -> Gens]
           /\ pc' = [pc EXCEPT ![p] = Rest(p)]
           /\ \A q \in Procs : q # p => job'[q] = job[q] /\ gen'[q] = gen[q]
           /\ p = Serve => gen'[p] = gen[p]
<1>1. Rest(p) \in PCs
  BY DEF Rest, PCs, HoldingPcs
<1>2. 0 \in Gens
  BY MirrorAssumption DEF Gens
<1>3. QED
  BY <1>1, <1>2, NoJobType, NoCallType DEF Finish, Drop, Goto, TypeOK

LEMMA TypeInvInit == Init => TypeInv
<1>1. 0 \in Versions /\ 0 \in Gens /\ 0 \in 0..MaxCrash
  BY StoreAssumption, MirrorAssumption DEF Versions, Gens
<1>2. "out" \in PCs /\ "out" \notin FetchedPcs
  BY DEF PCs, FetchedPcs
<1>3. QED
  BY <1>1, <1>2, EmptyContents, NoJobType, NoCallType
     DEF Init, TypeInv, Typed, TypeOK, Fetched, ServePath, Procs

\* Every action keeps every variable in its type and records
\* only versions the file has reached.
LEMMA TypedNext == Typed /\ [Next]_vars => Typed'
<1> SUFFICES ASSUME Typed, [Next]_vars PROVE Typed'
  OBVIOUS
<1> USE DEF Typed, TypeOK, Fetched, FetchedPcs
<1>0. /\ \A v \in Versions : v \in Nat /\ \A w \in 0..v : w \in Versions
      /\ cloud \in Versions /\ cur \in Gens /\ 0 \in Gens
      /\ Serve \in Procs /\ Clis \subseteq Procs /\ Serve \notin Clis
  BY VersionsOrder, MirrorAssumption DEF Gens, Procs
<1>1. CASE Edit
  <2>1. cloud' \in Versions /\ \A v \in 0..cloud : v \in 0..cloud'
    BY <1>0, <1>1, StoreAssumption DEF Edit, Versions
  <2>2. QED
    BY <1>1, <2>1 DEF Edit
<1>2. CASE OpenSession
  BY <1>0, <1>2 DEF OpenSession, Goto, PCs, HoldingPcs
<1>3. ASSUME NEW override \in BOOLEAN, SessionPull(override) PROVE Typed'
  <2>1. My(Serve).geometry \in BOOLEAN
    BY <1>0 DEF My, Contents
  <2>2. job'[Serve] \in Jobs /\ job' = [job EXCEPT ![Serve] = job'[Serve]]
    BY <1>0, <1>3, <2>1, NoJobType DEF SessionPull, EffectiveGeometry, Jobs
  <2>3. QED
    BY <1>0, <1>3, <2>2 DEF SessionPull, Goto, PCs, NetworkPcs
<1>4. CASE Exit
  BY <1>0, <1>4 DEF Exit, Goto, PCs
<1>5. ASSUME NEW p \in Clis, NEW flag \in BOOLEAN, NEW fresh \in BOOLEAN,
             CliPull(p, flag, fresh)
      PROVE  Typed'
  <2>1. Peek(fresh) \in BOOLEAN
    BY DEF Peek, Contents
  <2>2. job'[p] \in Jobs /\ job' = [job EXCEPT ![p] = job'[p]]
    BY <1>0, <1>5, <2>1, NoJobType DEF CliPull, EffectiveGeometry, Jobs
  <2>3. QED
    BY <1>0, <1>5, <2>2 DEF CliPull, Goto, PCs, NetworkPcs
<1>6. ASSUME NEW p \in Clis, NEW flag \in BOOLEAN, NEW fresh \in BOOLEAN,
             NEW g \in BOOLEAN, NEW v \in Saved, CliPullFromFile(p, flag, fresh, v, g)
      PROVE  Typed'
  <2>1. v \in Versions /\ v \in 0..cloud
    BY <1>0, <1>6, MirrorAssumption DEF CliPullFromFile
  <2>2. /\ job'[p] \in Jobs /\ job' = [job EXCEPT ![p] = job'[p]]
        /\ job'[p].ver = v
    BY <1>0, <1>6, <2>1, NoJobType DEF CliPullFromFile, Jobs, NoJob, VersionOrNone
  <2>3. pc' \in [Procs -> PCs] /\ \A q \in Procs : q # p => pc'[q] = pc[q]
    BY <1>0, <1>6 DEF CliPullFromFile, Goto, PCs
  <2>4. QED
    BY <1>0, <1>6, <2>1, <2>2, <2>3 DEF CliPullFromFile
<1>7. ASSUME NEW p \in Clis, NEW X \in SUBSET Vars, ImportVariables(p, X)
      PROVE  Typed'
  <2>1. UpsertVariables(disk[cur], X) \in Contents
    BY <1>0, UpsertVariablesContents
  <2>2. QED
    BY <1>0, <1>7, <2>1 DEF ImportVariables
<1>8. ASSUME NEW p \in Clis, Wipe(p) PROVE Typed'
  <2>1. disk' \in [Gens -> Contents] /\ cur' \in Gens
    BY <1>0, <1>8, EmptyContents, MirrorAssumption DEF Wipe, Gens
  <2>2. QED
    BY <1>0, <1>8, <2>1 DEF Wipe, Goto, PCs
<1>9. ASSUME NEW p \in Clis, Open(p) PROVE Typed'
  BY <1>0, <1>9 DEF Open, Goto, PCs, HoldingPcs
<1>10. ASSUME NEW p \in Procs, FetchFile(p) PROVE Typed'
  <2>1. /\ job'[p] \in Jobs /\ job' = [job EXCEPT ![p] = job'[p]]
        /\ job'[p].ver = cloud
    <3> DEFINE j == [job[p] EXCEPT !.ver = cloud, !.geom = job[p].request]
    <3>1. job[p] \in Jobs /\ cloud \in VersionOrNone
      BY <1>0 DEF VersionOrNone
    <3>2. j \in Jobs /\ j.ver = cloud
      BY <3>1 DEF Jobs
    <3>3. job' = [job EXCEPT ![p] = j]
      BY <1>10 DEF FetchFile
    <3> HIDE DEF j
    <3>4. QED
      BY <3>2, <3>3
  <2>2. cloud \in 0..cloud
    BY <1>0
  <2>3. QED
    BY <1>10, <2>1, <2>2 DEF FetchFile, Goto, PCs, NetworkPcs
<1>11. ASSUME NEW p \in Procs, FetchVariables(p) PROVE Typed'
  <2> PICK ev \in {cloud, NoVersion} : job' = [job EXCEPT ![p].export = ev]
    BY <1>11 DEF FetchVariables
  <2>1. /\ job'[p] \in Jobs /\ job' = [job EXCEPT ![p] = job'[p]]
        /\ job'[p].ver = job[p].ver
    <3>1. ev \in VersionOrNone
      BY <1>0 DEF VersionOrNone
    <3>2. QED
      BY <3>1 DEF Jobs
  <2>2. AfterNetwork(p) \in PCs
    BY DEF AfterNetwork, PCs, HoldingPcs
  <2>3. QED
    BY <1>11, <2>1, <2>2 DEF FetchVariables, Goto
<1>12. ASSUME NEW p \in Procs, Fail(p) PROVE Typed'
  BY <1>12, FinishType DEF Fail, Rest
<1>13. ASSUME NEW p \in Procs, Collect(p) PROVE Typed'
  <2>1. CollectSweepable(My(p)) \subseteq Ids /\ CollectVariableIds(My(p)) \subseteq Ids
    BY DEF CollectSweepable, CollectVariableIds, Stored, Ids
  <2>2. My(p).meta \in VersionOrNone
    BY DEF My, Contents
  <2>3. /\ job'[p] \in Jobs /\ job' = [job EXCEPT ![p] = job'[p]]
        /\ job'[p].ver = job[p].ver
    <3> DEFINE ids == CollectSweepable(My(p)) \cup
                      (IF job[p].export = NoVersion THEN {} ELSE CollectVariableIds(My(p)))
               j == [job[p] EXCEPT !.prior = ids, !.before = My(p).meta]
    <3>1. job' = [job EXCEPT ![p] = j]
      BY <1>13 DEF Collect
    <3>2. job[p] \in Jobs /\ ids \in SUBSET Ids
      BY <2>1
    <3> HIDE DEF ids
    <3>3. j \in Jobs /\ j.ver = job[p].ver
      BY <2>2, <3>2 DEF Jobs
    <3> HIDE DEF j
    <3>4. QED
      BY <3>1, <3>2, <3>3
  <2>4. QED
    BY <1>13, <2>3 DEF Collect, Goto, PCs, HoldingPcs
<1>14. ASSUME NEW p \in Procs, SyncTx(p) PROVE Typed'
  <2>1. /\ job[p].ver \in Versions /\ job[p].geom \in BOOLEAN
        /\ job[p].export \in VersionOrNone /\ job[p].prior \in SUBSET Ids
    BY <1>0, <1>14 DEF SyncTx, Jobs
  <2>2. Sync(My(p), job[p].prior, Live(p), job[p].ver) \in Contents
    BY <2>1, SyncContents DEF Live, My
  <2>3. QED
    BY <1>14, <2>2 DEF SyncTx, Goto, PCs, HoldingPcs, My
<1>15. ASSUME NEW p \in Procs, EvictTx(p) PROVE Typed'
  <2>1. disk' \in [Gens -> Contents]
    BY <1>15, EvictStaleContents DEF EvictTx
  <2>2. QED
    BY <1>15, <2>1 DEF EvictTx, Goto, PCs, HoldingPcs
<1>16. ASSUME NEW p \in Procs, ConfigTx(p) PROVE Typed'
  <2>1. PersistedGeometry(p) \in BOOLEAN
    BY DEF PersistedGeometry, EffectiveGeometry, Jobs, My, Contents
  <2>2. disk' \in [Gens -> Contents]
    BY <1>16, <2>1 DEF ConfigTx, Contents
  <2>3. QED
    BY <1>16, <2>2, FinishType DEF ConfigTx, Rest
<1>17. ASSUME NEW p \in Procs, NEW i \in Items, Miss(p, i) PROVE Typed'
  <2> DEFINE g == IF p = Serve THEN gen[p] ELSE cur
  <2>1. g \in Gens
    BY <1>0
  <2>2. [item |-> i, tag |-> disk[g].meta] \in CallSlots
    BY <2>1 DEF CallSlots, Contents
  <2>3. QED
    BY <1>17, <2>1, <2>2 DEF Miss, Goto, PCs, HoldingPcs
<1>18. ASSUME NEW p \in Procs, Answer(p) PROVE Typed'
  <2>1. call[p].tag \in VersionOrNone
    BY DEF CallSlots
  <2>2. StoreRow(disk[gen[p]], call[p].item, call[p].tag, cloud) \in Contents
    BY <1>0, <2>1, StoreRowContents
  <2>3. Finish(p) /\ UNCHANGED <<cloud, cur, crashes>> /\ disk' \in [Gens -> Contents]
    BY <1>18, <2>2 DEF Answer
  <2>4. QED
    BY <2>3, FinishType DEF Rest
<1>19. ASSUME NEW p \in Procs, AnswerError(p) PROVE Typed'
  BY <1>19, FinishType DEF AnswerError, Rest
<1>20. ASSUME NEW p \in Procs, Crash(p) PROVE Typed'
  <2>1. crashes' \in 0..MaxCrash
    BY <1>20, MirrorAssumption DEF Crash
  <2>2. QED
    BY <1>0, <1>20, <2>1, NoJobType, NoCallType DEF Crash, Goto, Drop, PCs
<1>21. CASE UNCHANGED vars
  BY <1>21 DEF vars
<1>22. QED
  BY <1>1, <1>2, <1>3, <1>4, <1>5, <1>6, <1>7, <1>8, <1>9, <1>10, <1>11, <1>12,
     <1>13, <1>14, <1>15, <1>16, <1>17, <1>18, <1>19, <1>20, <1>21
     DEF Next, ServeStep, CliStep, PullStep, ItemStep

LEMMA TypeInvNext == TypeInv /\ [Next]_vars => TypeInv'
<1> SUFFICES ASSUME TypeInv, [Next]_vars PROVE ServePath'
  BY TypedNext DEF TypeInv
<1> USE DEF TypeInv, Typed, TypeOK, ServePath
<1>1. Serve \in Procs /\ Serve \notin Clis
  BY MirrorAssumption DEF Procs
<1>2. CASE Edit \/ UNCHANGED vars
  BY <1>2 DEF Edit, vars
<1>3. CASE ServeStep
  BY <1>1, <1>3 DEF ServeStep, OpenSession, SessionPull, Exit, Goto
<1>4. ASSUME NEW p \in Clis, CliStep(p) PROVE ServePath'
  BY <1>1, <1>4 DEF CliStep, CliPull, CliPullFromFile, ImportVariables, Wipe, Open, Goto, Procs
<1>5. ASSUME NEW p \in Procs, PullStep(p) PROVE ServePath'
  BY <1>1, <1>5 DEF PullStep, FetchFile, FetchVariables, AfterNetwork, Fail, Collect,
                    SyncTx, EvictTx, ConfigTx, Finish, Rest, Goto
<1>6. ASSUME NEW p \in Procs, ItemStep(p) \/ Crash(p) PROVE ServePath'
  BY <1>1, <1>6 DEF ItemStep, Miss, Answer, AnswerError, Crash, Finish, Rest, Goto
<1>7. QED
  BY <1>2, <1>3, <1>4, <1>5, <1>6 DEF Next

\* Type correctness, for every instance (Mirror!TypeOK).
THEOREM TypeCorrect == Spec => []TypeOK
<1>1. TypeInv => TypeOK
  BY DEF TypeInv, Typed
<1>2. QED
  BY <1>1, TypeInvInit, TypeInvNext, PTL DEF Spec

-----------------------------------------------------------------------------
(* The lock *)

\* Two processes that have a store of this mirror open have different
\* directories open.
Mutex == \A p, q \in Procs : p # q /\ Holds(p) /\ Holds(q) => gen[p] # gen[q]

\* Nobody is ahead of the path, and nothing is there yet.
FreshDirs ==
    /\ \A p \in Procs : Holds(p) => gen[p] <= cur
    /\ \A g \in Gens : g > cur => disk[g] = EmptyStore

LockInv == Mutex /\ FreshDirs

\* What any step of process p does to the lock, to the sweep sets and to
\* the directories, and what it leaves alone.
Acts(p) ==
    /\ \A q \in Procs \ {p} : pc'[q] = pc[q] /\ gen'[q] = gen[q] /\ job'[q] = job[q]
    /\ pc'[p] = "sync" => Collect(p)
    /\ Holds(p)' => \/ Holds(p) /\ gen'[p] = gen[p]
                    \/ ~Locked(cur) /\ gen'[p] = cur
    /\ \A g \in Gens : disk'[g] # disk[g] =>
          \/ Holds(p) /\ g = gen[p]
          \/ ~Locked(cur) /\ g = cur
    /\ cur' \in Gens /\ cur <= cur'

Idle == UNCHANGED <<disk, cur, pc, gen, job>>

\* The steps process p takes.
Does(p) ==
    \/ p = Serve /\ ServeStep
    \/ p \in Clis /\ CliStep(p)
    \/ PullStep(p) \/ ItemStep(p) \/ Crash(p)

LEMMA ActorStep ==
    ASSUME TypeInv, [Next]_vars
    PROVE  Idle \/ \E p \in Procs : Does(p) /\ Acts(p)
<1> USE DEF TypeInv, Typed, TypeOK
<1>0. Serve \in Procs /\ Clis \subseteq Procs /\ Serve \notin Clis /\ cur \in Nat
  BY MirrorAssumption DEF Procs, Gens
<1>1. CASE Edit \/ UNCHANGED vars
  BY <1>1 DEF Edit, vars, Idle
<1>2. ASSUME OpenSession PROVE Acts(Serve)
  BY <1>0, <1>2 DEF OpenSession, Goto, Acts
<1>3. ASSUME NEW override \in BOOLEAN, SessionPull(override)
      PROVE  Acts(Serve)
  BY <1>0, <1>3 DEF SessionPull, Goto, Acts, Holds, HoldingPcs
<1>4. ASSUME Exit PROVE Acts(Serve)
  BY <1>0, <1>4 DEF Exit, Goto, Acts, Holds, HoldingPcs, NetworkPcs
<1>5. ASSUME NEW p \in Clis, NEW flag \in BOOLEAN, NEW fresh \in BOOLEAN,
             CliPull(p, flag, fresh)
      PROVE  Acts(p)
  BY <1>0, <1>5 DEF CliPull, Goto, Acts, Holds, HoldingPcs
<1>6. ASSUME NEW p \in Clis, NEW flag \in BOOLEAN, NEW fresh \in BOOLEAN,
             NEW g \in BOOLEAN, NEW v \in Saved, CliPullFromFile(p, flag, fresh, v, g)
      PROVE  Acts(p)
  BY <1>0, <1>6 DEF CliPullFromFile, Goto, Acts, Holds, HoldingPcs
<1>7. ASSUME NEW p \in Clis, NEW X \in SUBSET Vars, ImportVariables(p, X)
      PROVE  Acts(p)
  BY <1>0, <1>7 DEF ImportVariables, Acts, Holds, HoldingPcs, Collect
<1>8. ASSUME NEW p \in Clis, Wipe(p) PROVE Acts(p)
  <2>1. cur' \in Gens /\ cur <= cur'
    BY <1>0, <1>8, MirrorAssumption DEF Wipe, Gens
  <2>2. \A g \in Gens : disk'[g] # disk[g] => ~Locked(cur) /\ g = cur
    BY <1>8 DEF Wipe
  <2>3. pc'[p] = "open" /\ \A q \in Procs \ {p} : pc'[q] = pc[q]
    BY <1>0, <1>8 DEF Wipe, Goto
  <2>4. QED
    BY <1>0, <1>8, <2>1, <2>2, <2>3 DEF Wipe, Acts, Holds, HoldingPcs
<1>9. ASSUME NEW p \in Clis, Open(p) PROVE Acts(p)
  BY <1>0, <1>9 DEF Open, Goto, Acts, Holds, HoldingPcs
<1>10. ASSUME NEW p \in Procs, FetchFile(p) PROVE Acts(p)
  BY <1>0, <1>10 DEF FetchFile, Goto, Acts, Holds, HoldingPcs, NetworkPcs
<1>11. ASSUME NEW p \in Procs, FetchVariables(p) PROVE Acts(p)
  BY <1>0, <1>11 DEF FetchVariables, AfterNetwork, Goto, Acts, Holds, HoldingPcs, NetworkPcs
<1>12. ASSUME NEW p \in Procs, Finish(p),
              Holds(p) \/ (p # Serve /\ disk' = disk), cur' = cur,
              \A g \in Gens : disk'[g] # disk[g] => g = gen[p]
       PROVE  Acts(p)
  <2>1. /\ pc' = [pc EXCEPT ![p] = Rest(p)]
        /\ \A q \in Procs : q # p => job'[q] = job[q] /\ gen'[q] = gen[q]
        /\ p = Serve => gen'[p] = gen[p]
    BY <1>12, FinishType
  <2>2. QED
    BY <1>0, <1>12, <2>1 DEF Rest, Acts, Holds, HoldingPcs, NetworkPcs
<1>13. ASSUME NEW p \in Procs, Fail(p) PROVE Acts(p)
  BY <1>12, <1>13 DEF Fail, Holds, HoldingPcs, NetworkPcs, ServePath
<1>14. ASSUME NEW p \in Procs, Collect(p) PROVE Acts(p)
  BY <1>0, <1>14 DEF Collect, Goto, Acts, Holds, HoldingPcs
<1>15. ASSUME NEW p \in Procs, SyncTx(p) \/ EvictTx(p) PROVE Acts(p)
  BY <1>0, <1>15 DEF SyncTx, EvictTx, Goto, Acts, Holds, HoldingPcs
<1>16. ASSUME NEW p \in Procs, ConfigTx(p) \/ Answer(p) \/ AnswerError(p) PROVE Acts(p)
  <2>1. Holds(p)
    BY <1>16 DEF ConfigTx, Answer, AnswerError, Holds, HoldingPcs
  <2>2. Finish(p) /\ cur' = cur /\ \A g \in Gens : disk'[g] # disk[g] => g = gen[p]
    BY <1>16 DEF ConfigTx, Answer, AnswerError
  <2>3. QED
    BY <1>12, <2>1, <2>2
<1>17. ASSUME NEW p \in Procs, NEW i \in Items, Miss(p, i) PROVE Acts(p)
  BY <1>0, <1>17 DEF Miss, Rest, Goto, Acts, Holds, HoldingPcs
<1>18. ASSUME NEW p \in Procs, Crash(p) PROVE Acts(p)
  BY <1>0, <1>18 DEF Crash, Drop, Goto, Acts, Holds, HoldingPcs, NetworkPcs
<1>19. ASSUME NEW p \in Procs, Does(p) PROVE Acts(p)
  <2>1. CASE p = Serve /\ ServeStep
    BY <1>2, <1>3, <1>4, <2>1 DEF ServeStep
  <2>2. CASE p \in Clis /\ CliStep(p)
    BY <1>5, <1>6, <1>7, <1>8, <1>9, <2>2 DEF CliStep
  <2>3. CASE PullStep(p)
    BY <1>10, <1>11, <1>13, <1>14, <1>15, <1>16, <2>3 DEF PullStep
  <2>4. CASE ItemStep(p) \/ Crash(p)
    BY <1>16, <1>17, <1>18, <2>4 DEF ItemStep
  <2>5. QED
    BY <1>19, <2>1, <2>2, <2>3, <2>4 DEF Does
<1>20. Idle \/ \E p \in Procs : Does(p)
  BY <1>0, <1>1 DEF Next, Does
<1>21. QED
  BY <1>19, <1>20

LEMMA LockInvInit == Init => LockInv
<1> SUFFICES ASSUME Init PROVE LockInv
  OBVIOUS
<1>1. ASSUME NEW p \in Procs PROVE ~Holds(p)
  <2>1. pc[p] = "out"
    BY DEF Init
  <2>2. QED
    BY <2>1 DEF Holds, HoldingPcs, NetworkPcs
<1>2. QED
  BY <1>1 DEF Init, LockInv, Mutex, FreshDirs

\* The actor of a step is the only process whose hold changes, and it takes
\* a directory only while the lock there is free.
LEMMA LockInvNext == TypeInv /\ LockInv /\ [Next]_vars => LockInv'
<1> SUFFICES ASSUME TypeInv, LockInv, [Next]_vars PROVE LockInv'
  OBVIOUS
<1>1. cur \in Nat /\ gen \in [Procs -> Gens] /\ Gens \subseteq Nat
  BY DEF TypeInv, Typed, TypeOK, Gens
<1>2. CASE Idle
  BY <1>2 DEF Idle, LockInv, Mutex, FreshDirs, Holds
<1>3. ASSUME NEW p \in Procs, Acts(p) PROVE LockInv'
  <2>1. \A q \in Procs \ {p} : (Holds(q)' <=> Holds(q)) /\ gen'[q] = gen[q]
    BY <1>3 DEF Acts, Holds
  <2>2. \A q \in Procs : ~Locked(cur) /\ Holds(q) => gen[q] # cur
    BY DEF Locked
  <2>3. Mutex'
    BY <1>3, <2>1, <2>2 DEF Acts, LockInv, Mutex
  <2>4. cur' \in Nat /\ cur <= cur'
    BY <1>1, <1>3 DEF Acts
  <2>5. \A q \in Procs : Holds(q)' => gen'[q] <= cur'
    <3>1. SUFFICES ASSUME NEW q \in Procs, Holds(q)' PROVE gen'[q] <= cur'
      OBVIOUS
    <3>2. gen'[q] = cur \/ (gen'[q] = gen[q] /\ gen[q] <= cur)
      BY <1>3, <2>1, <3>1 DEF Acts, LockInv, FreshDirs
    <3>3. gen[q] \in Nat
      BY <1>1
    <3>4. QED
      BY <1>1, <2>4, <3>2, <3>3
  <2>6. \A g \in Gens : g > cur' => disk'[g] = EmptyStore
    <3>1. SUFFICES ASSUME NEW g \in Gens, g > cur' PROVE disk'[g] = EmptyStore
      OBVIOUS
    <3>2. g > cur /\ g # cur /\ disk[g] = EmptyStore
      BY <1>1, <2>4, <3>1 DEF LockInv, FreshDirs
    <3>3. ~(Holds(p) /\ g = gen[p])
      BY <1>1, <3>2 DEF LockInv, FreshDirs
    <3>4. QED
      BY <1>3, <3>2, <3>3 DEF Acts
  <2>7. QED
    BY <2>3, <2>5, <2>6 DEF LockInv, FreshDirs
<1>4. QED
  BY <1>2, <1>3, ActorStep

-----------------------------------------------------------------------------
(* Sweep sets and snapshots *)

\* A sweep set read before the sync transaction still names every node that
\* is stored when the transaction runs.
SweepCurrent ==
    \A p \in Procs : pc[p] = "sync" => CollectSweepable(My(p)) \subseteq job[p].prior

SnapInv == SweepCurrent /\ SnapshotConsistent

\* Only its holder changes a directory that is held.
LEMMA HeldByOthers ==
    ASSUME TypeInv, LockInv, NEW p \in Procs, Acts(p),
           NEW q \in Procs, q # p, Holds(q)
    PROVE  disk'[gen[q]] = disk[gen[q]]
<1>1. gen[q] \in Gens
  BY DEF TypeInv, Typed, TypeOK
<1>2. ~(Holds(p) /\ gen[q] = gen[p])
  BY DEF LockInv, Mutex
<1>3. ~(~Locked(cur) /\ gen[q] = cur)
  BY DEF Locked
<1>4. QED
  BY <1>1, <1>2, <1>3 DEF Acts

LEMMA SweepCurrentNext ==
    TypeInv /\ LockInv /\ SweepCurrent /\ [Next]_vars => SweepCurrent'
<1> SUFFICES ASSUME TypeInv, LockInv, SweepCurrent, [Next]_vars,
                    NEW q \in Procs, pc'[q] = "sync"
             PROVE  CollectSweepable(My(q))' \subseteq job'[q].prior
  BY DEF SweepCurrent
<1> USE DEF TypeInv, Typed, TypeOK
<1>1. CASE Idle
  BY <1>1 DEF Idle, SweepCurrent, My, CollectSweepable, Stored
<1>2. ASSUME NEW p \in Procs, Acts(p), q # p
      PROVE  CollectSweepable(My(q))' \subseteq job'[q].prior
  <2>1. pc[q] = "sync" /\ gen'[q] = gen[q] /\ job'[q] = job[q]
    BY <1>2 DEF Acts
  <2>2. disk'[gen[q]] = disk[gen[q]]
    BY <1>2, <2>1, HeldByOthers DEF Holds, HoldingPcs
  <2>3. QED
    BY <2>1, <2>2 DEF SweepCurrent, My, CollectSweepable, Stored
<1>3. ASSUME Acts(q)
      PROVE  CollectSweepable(My(q))' \subseteq job'[q].prior
  <2>1. Collect(q)
    BY <1>3 DEF Acts
  <2>2. My(q)' = My(q)
    BY <2>1 DEF Collect, My
  <2>3. CollectSweepable(My(q)) \subseteq job'[q].prior
    BY <2>1 DEF Collect, Jobs
  <2>4. QED
    BY <2>2, <2>3 DEF CollectSweepable, Stored
<1>4. QED
  BY <1>1, <1>2, <1>3, ActorStep

\* What a reader of a directory sees.
SameView(c, d) == d.meta = c.meta /\ \A n \in Nodes : d.recs[n] = c.recs[n]

Installs(d, v, g) == d.meta = v /\ \A n \in Nodes : d.recs[n] = SnapshotNode(v, g, n)

\* What a step can do to one: nothing, a whole version, or nothing left.
Replaces(c, d) ==
    \/ SameView(c, d)
    \/ \E v \in 0..cloud, g \in BOOLEAN : Installs(d, v, g)
    \/ d = EmptyStore

LEMMA SyncReplaces ==
    ASSUME TypeInv, SweepCurrent, NEW p \in Procs, SyncTx(p)
    PROVE  \A g \in Gens : Replaces(disk[g], disk'[g])
<1> USE DEF TypeInv, Typed, TypeOK
<1>1. /\ job[p].ver \in 0..cloud /\ job[p].ver \in Versions
      /\ job[p].geom \in BOOLEAN
      /\ job[p].export \in VersionOrNone /\ job[p].prior \in SUBSET Ids
  BY VersionsOrder DEF SyncTx, Jobs, Fetched, FetchedPcs
<1>2. gen[p] \in Gens /\ My(p) \in Contents
  BY DEF My
<1>3. CollectSweepable(My(p)) \subseteq job[p].prior
  BY DEF SweepCurrent, SyncTx
<1>4. Installs(Sync(My(p), job[p].prior, Live(p), job[p].ver), job[p].ver, job[p].geom)
  <2>1. ASSUME NEW c \in Contents, NEW prior \in SUBSET Ids, NEW v \in Versions,
               NEW g \in BOOLEAN, NEW ev \in VersionOrNone,
               CollectSweepable(c) \subseteq prior
        PROVE  Installs(Sync(c, prior, Flattened(v, g, ev), v), v, g)
    BY <2>1, SyncInstalls DEF Installs
  <2>2. QED
    BY <1>1, <1>2, <1>3, <2>1 DEF Live
<1>5. disk'[gen[p]] = Sync(My(p), job[p].prior, Live(p), job[p].ver)
  BY <1>2 DEF SyncTx, My
<1>6. \A g \in Gens : g # gen[p] => disk'[g] = disk[g]
  BY DEF SyncTx
<1>7. QED
  BY <1>1, <1>4, <1>5, <1>6 DEF Replaces, SameView

LEMMA StepReplaces ==
    ASSUME TypeInv, SweepCurrent, [Next]_vars
    PROVE  \A g \in Gens : Replaces(disk[g], disk'[g])
<1> USE DEF TypeInv, Typed, TypeOK
<1>0. cur \in Gens /\ \A p \in Procs : gen[p] \in Gens
  OBVIOUS
<1>1. CASE disk' = disk
  BY <1>1 DEF Replaces, SameView
<1>2. ASSUME NEW p \in Procs, SyncTx(p)
      PROVE  \A g \in Gens : Replaces(disk[g], disk'[g])
  BY <1>2, SyncReplaces
<1>3. ASSUME NEW p \in Procs, EvictTx(p)
      PROVE  \A g \in Gens : Replaces(disk[g], disk'[g])
  <2>1. SameView(disk[gen[p]], EvictStale(disk[gen[p]], job[p].ver))
    BY <1>0, EvictStaleContents DEF SameView
  <2>2. QED
    BY <1>0, <1>3, <2>1 DEF EvictTx, Replaces, SameView
<1>4. ASSUME NEW p \in Procs, ConfigTx(p)
      PROVE  \A g \in Gens : Replaces(disk[g], disk'[g])
  <2>1. disk[gen[p]] \in Contents
    BY <1>0
  <2>2. SameView(disk[gen[p]], [disk[gen[p]] EXCEPT !.geometry = PersistedGeometry(p)])
    BY <2>1 DEF SameView, Contents
  <2>3. QED
    BY <1>0, <1>4, <2>2 DEF ConfigTx, Replaces, SameView
<1>5. ASSUME NEW p \in Clis, NEW X \in SUBSET Vars, ImportVariables(p, X)
      PROVE  \A g \in Gens : Replaces(disk[g], disk'[g])
  <2>1. SameView(disk[cur], UpsertVariables(disk[cur], X))
    BY <1>0, UpsertVariablesContents DEF SameView
  <2>2. QED
    BY <1>0, <1>5, <2>1 DEF ImportVariables, Replaces, SameView
<1>6. ASSUME NEW p \in Clis, Wipe(p)
      PROVE  \A g \in Gens : Replaces(disk[g], disk'[g])
  BY <1>6 DEF Wipe, Replaces, SameView
<1>7. ASSUME NEW p \in Procs, Answer(p)
      PROVE  \A g \in Gens : Replaces(disk[g], disk'[g])
  <2>1. call[p].tag \in VersionOrNone /\ cloud \in Versions
    BY DEF CallSlots
  <2>2. SameView(disk[gen[p]], StoreRow(disk[gen[p]], call[p].item, call[p].tag, cloud))
    BY <1>0, <2>1, StoreRowContents DEF SameView
  <2>3. QED
    BY <1>0, <1>7, <2>2 DEF Answer, Replaces, SameView
<1>8. QED
  BY <1>1, <1>2, <1>3, <1>4, <1>5, <1>6, <1>7
     DEF Next, ServeStep, CliStep, PullStep, ItemStep, Edit, OpenSession, SessionPull,
         Exit, CliPull, CliPullFromFile, Open, FetchFile, FetchVariables, Fail, Collect,
         Miss, AnswerError, Crash, vars

\* A directory that holds one whole version, or nothing, holds one whole
\* version, or nothing, after it was replaced.
ConsistentDir(c) ==
    IF c.meta = NoVersion THEN \A n \in Nodes : c.recs[n] = Absent
                          ELSE IsSnapshot(c, c.meta)

LEMMA ReplacesConsistent ==
    ASSUME TypeInv, NEW c, NEW d, ConsistentDir(c), Replaces(c, d)
    PROVE  ConsistentDir(d)
<1>1. CASE SameView(c, d)
  BY <1>1 DEF SameView, ConsistentDir, IsSnapshot
<1>2. ASSUME NEW v \in 0..cloud, NEW g \in BOOLEAN, Installs(d, v, g)
      PROVE  ConsistentDir(d)
  <2>1. v # NoVersion
    BY StoreAssumption
  <2>2. QED
    BY <1>2, <2>1 DEF Installs, ConsistentDir, IsSnapshot, SnapshotNode
<1>3. CASE d = EmptyStore
  BY <1>3 DEF EmptyStore, ConsistentDir, Ids
<1>4. QED
  BY <1>1, <1>2, <1>3 DEF Replaces

LEMMA SnapInvInit == Init => SnapInv
BY DEF Init, SnapInv, SweepCurrent, SnapshotConsistent, EmptyStore, Ids

LEMMA SnapInvNext == TypeInv /\ LockInv /\ SnapInv /\ [Next]_vars => SnapInv'
<1> SUFFICES ASSUME TypeInv, LockInv, SnapInv, [Next]_vars PROVE SnapInv'
  OBVIOUS
<1>1. SweepCurrent'
  BY SweepCurrentNext DEF SnapInv
<1>2. \A g \in Gens : ConsistentDir(disk[g])
  BY DEF SnapInv, SnapshotConsistent, ConsistentDir
<1>3. \A g \in Gens : ConsistentDir(disk'[g])
  BY <1>2, StepReplaces, ReplacesConsistent DEF SnapInv
<1>4. QED
  BY <1>1, <1>3 DEF SnapInv, SnapshotConsistent, ConsistentDir, IsSnapshot

IInv == TypeInv /\ LockInv /\ SnapInv

THEOREM Invariance == Spec => []IInv
<1>1. Init => IInv
  BY TypeInvInit, LockInvInit, SnapInvInit DEF IInv
<1>2. IInv /\ [Next]_vars => IInv'
  BY TypeInvNext, LockInvNext, SnapInvNext DEF IInv
<1>3. QED
  BY <1>1, <1>2, PTL DEF Spec

\* A reader of a mirror finds one published version of the file, whole, or
\* nothing, whoever pulled, crashed or wiped in between.
THEOREM Consistency == Spec => []SnapshotConsistent
<1>1. IInv => SnapshotConsistent
  BY DEF IInv, SnapInv
<1>2. QED
  BY <1>1, Invariance, PTL

-----------------------------------------------------------------------------
(* serve's pulls: the flag they request and the version they bring *)

\* While serve pulls, what it requested covers what its store says.
GeomRequested ==
    /\ pc[Serve] \in {"fetch", "vars", "collect", "sync", "evict", "config"}
    /\ My(Serve).geometry
    => job[Serve].request

\* Every stored version is one the file has had.
MetaPublished == \A g \in Gens : disk[g].meta = NoVersion \/ disk[g].meta \in 0..cloud

\* What serve has fetched is not older than what it holds.
ServeAhead ==
    pc[Serve] \in {"vars", "collect", "sync"}
    => My(Serve).meta = NoVersion \/ My(Serve).meta <= job[Serve].ver

ServeInv == GeomRequested /\ MetaPublished /\ ServeAhead

\* Only the config transaction and a wipe change a stored geometry flag.
LEMMA GeometryStep ==
    ASSUME TypeInv, [Next]_vars, cur' = cur
    PROVE  \A g \in Gens : \/ disk'[g].geometry = disk[g].geometry
                           \/ \E p \in Procs : ConfigTx(p) /\ g = gen[p]
<1> USE DEF TypeInv, Typed, TypeOK
<1> DEFINE Kept == \A g \in Gens : disk'[g].geometry = disk[g].geometry
<1>0. cur \in Gens /\ \A p \in Procs : gen[p] \in Gens
  OBVIOUS
<1>1. CASE disk' = disk
  BY <1>1
<1>2. ASSUME NEW p \in Procs, SyncTx(p) PROVE Kept
  <2>1. disk[gen[p]] \in Contents
    BY <1>0
  <2>2. Sync(disk[gen[p]], job[p].prior, Live(p), job[p].ver).geometry = disk[gen[p]].geometry
    BY <2>1 DEF Sync, Contents
  <2>3. QED
    BY <1>0, <1>2, <2>2 DEF SyncTx
<1>3. ASSUME NEW p \in Procs, EvictTx(p) PROVE Kept
  <2>1. EvictStale(disk[gen[p]], job[p].ver).geometry = disk[gen[p]].geometry
    BY <1>0, EvictStaleContents
  <2>2. QED
    BY <1>0, <1>3, <2>1 DEF EvictTx
<1>4. ASSUME NEW p \in Procs, ConfigTx(p)
      PROVE  \A g \in Gens : disk'[g].geometry = disk[g].geometry \/ g = gen[p]
  BY <1>4 DEF ConfigTx
<1>5. ASSUME NEW p \in Clis, NEW X \in SUBSET Vars, ImportVariables(p, X) PROVE Kept
  <2>1. UpsertVariables(disk[cur], X).geometry = disk[cur].geometry
    BY <1>0, UpsertVariablesContents
  <2>2. QED
    BY <1>0, <1>5, <2>1 DEF ImportVariables
<1>6. ASSUME NEW p \in Clis, Wipe(p) PROVE disk' = disk
  <2>1. cur \in Nat /\ cur' # cur + 1
    BY <1>0 DEF Gens
  <2>2. QED
    BY <1>6, <2>1 DEF Wipe
<1>7. ASSUME NEW p \in Procs, Answer(p) PROVE Kept
  <2>1. call[p].tag \in VersionOrNone /\ cloud \in Versions
    BY DEF CallSlots
  <2>2. StoreRow(disk[gen[p]], call[p].item, call[p].tag, cloud).geometry
           = disk[gen[p]].geometry
    BY <1>0, <2>1, StoreRowContents
  <2>3. QED
    BY <1>0, <1>7, <2>2 DEF Answer
<1>8. QED
  BY <1>1, <1>2, <1>3, <1>4, <1>5, <1>6, <1>7
     DEF Next, ServeStep, CliStep, PullStep, ItemStep, Edit, OpenSession, SessionPull,
         Exit, CliPull, CliPullFromFile, Open, FetchFile, FetchVariables, Fail, Collect,
         Miss, AnswerError, Crash, vars

\* While serve holds its store, either serve takes the step or the step
\* leaves serve and its store alone.
LEMMA ServeActs ==
    ASSUME TypeInv, LockInv, [Next]_vars, Holds(Serve)
    PROVE  \/ /\ pc'[Serve] = pc[Serve] /\ gen'[Serve] = gen[Serve]
              /\ job'[Serve] = job[Serve] /\ disk'[gen[Serve]] = disk[gen[Serve]]
           \/ Does(Serve)
<1>1. Serve \in Procs
  BY DEF Procs
<1>2. CASE Idle
  BY <1>2 DEF Idle
<1>3. ASSUME NEW p \in Procs, Acts(p), p # Serve
      PROVE  /\ pc'[Serve] = pc[Serve] /\ gen'[Serve] = gen[Serve]
             /\ job'[Serve] = job[Serve] /\ disk'[gen[Serve]] = disk[gen[Serve]]
  BY <1>1, <1>3, HeldByOthers DEF Acts
<1>4. QED
  BY <1>2, <1>3, ActorStep

LEMMA ServeInvInit == Init => ServeInv
<1> SUFFICES ASSUME Init PROVE ServeInv
  OBVIOUS
<1>1. pc[Serve] = "out"
  BY DEF Init, Procs
<1>2. QED
  BY <1>1 DEF Init, ServeInv, GeomRequested, MetaPublished, ServeAhead, EmptyStore

\* The file's versions only go up.
LEMMA CloudGrows ==
    ASSUME TypeInv, [Next]_vars
    PROVE  cloud \in Nat /\ cloud' \in Nat /\ cloud <= cloud'
<1>1. cloud \in Nat
  BY VersionsOrder DEF TypeInv, Typed, TypeOK
<1>2. cloud' = cloud \/ cloud' = cloud + 1
  BY DEF Next, ServeStep, CliStep, PullStep, ItemStep, Edit, OpenSession, SessionPull,
         Exit, CliPull, CliPullFromFile, ImportVariables, Wipe, Open, FetchFile,
         FetchVariables, Fail, Collect, SyncTx, EvictTx, ConfigTx, Miss, Answer,
         AnswerError, Crash, vars
<1>3. QED
  BY <1>1, <1>2

LEMMA MetaPublishedNext ==
    ASSUME IInv, MetaPublished, [Next]_vars
    PROVE  MetaPublished'
<1>1. cloud \in Nat /\ cloud' \in Nat /\ cloud <= cloud'
  BY CloudGrows DEF IInv
<1>2. SUFFICES ASSUME NEW g \in Gens
               PROVE  disk'[g].meta = NoVersion \/ disk'[g].meta \in 0..cloud'
  BY DEF MetaPublished
<1>3. Replaces(disk[g], disk'[g])
  BY StepReplaces DEF IInv, SnapInv
<1>4. disk'[g].meta = NoVersion \/ disk'[g].meta \in 0..cloud
  BY <1>3 DEF Replaces, SameView, Installs, EmptyStore, MetaPublished
<1>5. QED
  BY <1>1, <1>4

LEMMA GeomRequestedNext ==
    ASSUME IInv, GeomRequested, [Next]_vars
    PROVE  GeomRequested'
<1> USE DEF IInv, TypeInv, Typed, TypeOK
<1>1. Serve \in Procs /\ Serve \notin Clis /\ gen[Serve] \in Gens /\ My(Serve) \in Contents
  BY MirrorAssumption DEF Procs, My
<1> SUFFICES ASSUME pc'[Serve] \in {"fetch", "vars", "collect", "sync", "evict", "config"},
                    My(Serve)'.geometry
             PROVE  job'[Serve].request
  BY DEF GeomRequested
<1>2. Holds(Serve)
  <2>1. CASE Idle
    BY <2>1 DEF Idle, Holds, HoldingPcs, NetworkPcs
  <2>2. ASSUME NEW p \in Procs, Acts(p), p # Serve PROVE Holds(Serve)
    BY <1>1, <2>2 DEF Acts, Holds, HoldingPcs, NetworkPcs
  <2>3. ASSUME Does(Serve) PROVE Holds(Serve)
    BY <1>1, <2>3 DEF Does, ServeStep, PullStep, ItemStep, OpenSession, SessionPull, Exit,
         FetchFile, FetchVariables, Fail, Collect, SyncTx, EvictTx, ConfigTx, Miss, Answer,
         AnswerError, Crash, Finish, Rest, Goto, Holds, HoldingPcs, NetworkPcs
  <2>4. QED
    BY <2>1, <2>2, <2>3, ActorStep
<1>3. CASE /\ pc'[Serve] = pc[Serve] /\ gen'[Serve] = gen[Serve]
           /\ job'[Serve] = job[Serve] /\ disk'[gen[Serve]] = disk[gen[Serve]]
  BY <1>3 DEF GeomRequested, My
<1>4. ASSUME NEW override \in BOOLEAN, SessionPull(override)
      PROVE  job'[Serve].request
  <2>1. job'[Serve].request = EffectiveGeometry(override, My(Serve).geometry)
    BY <1>1, <1>4 DEF SessionPull, NoJob
  <2>2. My(Serve)' = My(Serve)
    BY <1>4 DEF SessionPull, My
  <2>3. QED
    BY <2>1, <2>2 DEF EffectiveGeometry
<1>5. ASSUME FetchFile(Serve) \/ FetchVariables(Serve) \/ Collect(Serve)
      PROVE  job'[Serve].request
  <2>1. job'[Serve].request = job[Serve].request
    BY <1>1, <1>5 DEF FetchFile, FetchVariables, Collect, Jobs
  <2>2. My(Serve)' = My(Serve)
    BY <1>5 DEF FetchFile, FetchVariables, Collect, My
  <2>3. QED
    BY <1>5, <2>1, <2>2 DEF FetchFile, FetchVariables, Collect, GeomRequested
<1>6. ASSUME SyncTx(Serve) \/ EvictTx(Serve) PROVE job'[Serve].request
  <2>1. gen' = gen /\ job' = job /\ cur' = cur /\ pc[Serve] \in {"sync", "evict"}
    BY <1>6 DEF SyncTx, EvictTx
  <2>2. \A p \in Procs : ~ConfigTx(p)
    BY <1>1, <1>6 DEF SyncTx, EvictTx, ConfigTx, Finish, Goto, Rest
  <2>3. disk'[gen[Serve]].geometry = disk[gen[Serve]].geometry
    BY <1>1, <2>1, <2>2, GeometryStep
  <2>4. QED
    BY <2>1, <2>3 DEF GeomRequested, My
<1>7. CASE \/ OpenSession \/ Exit \/ Fail(Serve) \/ ConfigTx(Serve)
           \/ ItemStep(Serve) \/ Crash(Serve)
  BY <1>1, <1>7 DEF OpenSession, Exit, Fail, ConfigTx, ItemStep, Miss, Answer, AnswerError,
                    Crash, Finish, Rest, Goto
<1>8. QED
  BY <1>1, <1>2, <1>3, <1>4, <1>5, <1>6, <1>7, ServeActs
     DEF Does, ServeStep, PullStep

LEMMA ServeAheadNext ==
    ASSUME IInv, MetaPublished, ServeAhead, [Next]_vars
    PROVE  ServeAhead'
<1> USE DEF IInv, TypeInv, Typed, TypeOK
<1>1. Serve \in Procs /\ Serve \notin Clis /\ gen[Serve] \in Gens
  BY MirrorAssumption DEF Procs
<1> SUFFICES ASSUME pc'[Serve] \in {"vars", "collect", "sync"}
             PROVE  My(Serve)'.meta = NoVersion \/ My(Serve)'.meta <= job'[Serve].ver
  BY DEF ServeAhead
<1>2. Holds(Serve)
  <2>1. CASE Idle
    BY <2>1 DEF Idle, Holds, HoldingPcs, NetworkPcs
  <2>2. ASSUME NEW p \in Procs, Acts(p), p # Serve PROVE Holds(Serve)
    BY <1>1, <2>2 DEF Acts, Holds, HoldingPcs, NetworkPcs
  <2>3. ASSUME Does(Serve) PROVE Holds(Serve)
    BY <1>1, <2>3 DEF Does, ServeStep, PullStep, ItemStep, OpenSession, SessionPull, Exit,
         FetchFile, FetchVariables, Fail, Collect, SyncTx, EvictTx, ConfigTx, Miss, Answer,
         AnswerError, Crash, Finish, Rest, Goto, Holds, HoldingPcs, NetworkPcs
  <2>4. QED
    BY <2>1, <2>2, <2>3, ActorStep
<1>3. CASE /\ pc'[Serve] = pc[Serve] /\ gen'[Serve] = gen[Serve]
           /\ job'[Serve] = job[Serve] /\ disk'[gen[Serve]] = disk[gen[Serve]]
  BY <1>3 DEF ServeAhead, My
<1>4. ASSUME FetchFile(Serve)
      PROVE  My(Serve)'.meta = NoVersion \/ My(Serve)'.meta <= job'[Serve].ver
  <2>1. job'[Serve].ver = cloud /\ My(Serve)' = disk[gen[Serve]]
    BY <1>1, <1>4 DEF FetchFile, Jobs, My
  <2>2. disk[gen[Serve]].meta = NoVersion \/ disk[gen[Serve]].meta \in 0..cloud
    BY <1>1 DEF MetaPublished
  <2>3. QED
    BY <2>1, <2>2
<1>5. ASSUME FetchVariables(Serve) \/ Collect(Serve)
      PROVE  My(Serve)'.meta = NoVersion \/ My(Serve)'.meta <= job'[Serve].ver
  <2>1. job'[Serve].ver = job[Serve].ver /\ My(Serve)' = My(Serve)
    BY <1>1, <1>5 DEF FetchVariables, Collect, Jobs, My
  <2>2. QED
    BY <1>5, <2>1 DEF FetchVariables, Collect, ServeAhead
<1>6. CASE \/ ServeStep \/ Fail(Serve) \/ SyncTx(Serve) \/ EvictTx(Serve)
           \/ ConfigTx(Serve) \/ ItemStep(Serve) \/ Crash(Serve)
  BY <1>1, <1>6 DEF ServeStep, OpenSession, SessionPull, Exit, Fail, SyncTx, EvictTx,
                    ConfigTx, ItemStep, Miss, Answer, AnswerError, Crash, Finish, Rest, Goto
<1>7. QED
  BY <1>1, <1>2, <1>3, <1>4, <1>5, <1>6, ServeActs DEF Does, PullStep

THEOREM ServeInvariance == Spec => []ServeInv
<1>1. Init => ServeInv
  BY ServeInvInit
<1>2. IInv /\ ServeInv /\ [Next]_vars => ServeInv'
  BY MetaPublishedNext, GeomRequestedNext, ServeAheadNext DEF ServeInv
<1>3. QED
  BY <1>1, <1>2, Invariance, PTL DEF Spec

\* Geometry, once on, stays on until a wipe.
THEOREM GeometryStaysOn == Spec => GeometrySticky
<1>1. ASSUME IInv, ServeInv, [Next]_vars, cur' = cur, NEW g \in Gens, disk[g].geometry
      PROVE  disk'[g].geometry
  <2>1. CASE disk'[g].geometry = disk[g].geometry
    BY <1>1, <2>1
  <2>2. ASSUME NEW p \in Procs, ConfigTx(p), g = gen[p]
        PROVE  disk'[g].geometry
    <3>1. disk[g] \in Contents /\ disk \in [Gens -> Contents]
      BY <1>1 DEF IInv, TypeInv, Typed, TypeOK
    <3>2. disk'[g].geometry = PersistedGeometry(p)
      BY <1>1, <2>2, <3>1 DEF ConfigTx, Contents
    <3>3. PersistedGeometry(p)
      BY <1>1, <2>2 DEF PersistedGeometry, EffectiveGeometry, ServeInv, GeomRequested,
                        My, ConfigTx
    <3>4. QED
      BY <3>2, <3>3
  <2>3. QED
    BY <1>1, <2>1, <2>2, GeometryStep DEF IInv
<1>2. IInv /\ ServeInv /\ [Next]_vars
        => [cur' = cur => \A g \in Gens : disk[g].geometry => disk'[g].geometry]_vars
  BY <1>1
<1>3. QED
  BY <1>2, Invariance, ServeInvariance, PTL DEF Spec, GeometrySticky

\* serve's sync never replaces a version by an older one.
THEOREM ServeAdvances == Spec => ServeNeverRegresses
<1>1. ASSUME IInv, ServeInv, [Next]_vars, pc[Serve] = "sync", pc'[Serve] = "evict"
      PROVE  \/ My(Serve).meta = NoVersion
             \/ My(Serve).meta <= disk'[gen[Serve]].meta
  <2> USE DEF IInv, TypeInv, Typed, TypeOK
  <2>1. Serve \in Procs /\ gen[Serve] \in Gens /\ Holds(Serve)
    <3>1. Serve \in Procs
      BY DEF Procs
    <3>2. gen[Serve] \in Gens
      BY <1>1, <3>1
    <3>3. Holds(Serve)
      BY <1>1 DEF Holds, HoldingPcs
    <3>4. QED
      BY <3>1, <3>2, <3>3
  <2>2. SyncTx(Serve)
    <3>1. Does(Serve)
      BY <1>1, <2>1, ServeActs
    <3>2. Serve \notin Clis
      BY MirrorAssumption
    <3>3. QED
      BY <1>1, <2>1, <3>1, <3>2 DEF Does, ServeStep, PullStep, ItemStep, OpenSession, SessionPull,
       Exit, FetchFile, FetchVariables, Fail, Collect, EvictTx, ConfigTx, Miss, Answer,
       AnswerError, Crash, Finish, Rest, Goto
  <2>3. disk'[gen[Serve]].meta = job[Serve].ver
    BY <1>1, <2>1, <2>2 DEF SyncTx, Sync, Contents
  <2>4. QED
    BY <1>1, <2>3 DEF ServeInv, ServeAhead
<1>2. IInv /\ ServeInv /\ [Next]_vars
        => [pc[Serve] = "sync" /\ pc'[Serve] = "evict"
               => \/ My(Serve).meta = NoVersion
                  \/ My(Serve).meta <= disk'[gen[Serve]].meta]_vars
  BY <1>1
<1>3. QED
  BY <1>2, Invariance, ServeInvariance, PTL DEF Spec, ServeNeverRegresses

-----------------------------------------------------------------------------
(* Cache rows *)

\* A write transaction on a directory, and which one.
LEMMA DirectorySteps ==
    ASSUME TypeInv, [Next]_vars, NEW g \in Gens
    PROVE  \/ disk'[g] = disk[g]
           \/ \E p \in Procs :
                 /\ g = gen[p]
                 /\ \/ SyncTx(p) /\ disk'[g] = Sync(disk[g], job[p].prior, Live(p), job[p].ver)
                    \/ EvictTx(p) /\ disk'[g] = EvictStale(disk[g], job[p].ver)
                    \/ ConfigTx(p) /\ disk'[g] = [disk[g] EXCEPT !.geometry = PersistedGeometry(p)]
                    \/ Answer(p) /\ disk'[g] = StoreRow(disk[g], call[p].item, call[p].tag, cloud)
           \/ \E p \in Clis, X \in SUBSET Vars :
                 /\ ImportVariables(p, X) /\ ~Locked(cur) /\ g = cur
                 /\ disk'[g] = UpsertVariables(disk[g], X)
           \/ (\E p \in Clis : Wipe(p)) /\ disk'[g] = EmptyStore /\ cur' # cur
<1> USE DEF TypeInv, Typed, TypeOK
<1>0. cur \in Gens /\ cur \in Nat /\ \A p \in Procs : gen[p] \in Gens
  BY DEF Gens
<1>1. CASE disk' = disk
  BY <1>1
<1>2. ASSUME NEW p \in Procs, SyncTx(p)
      PROVE  \/ disk'[g] = disk[g]
             \/ g = gen[p] /\ disk'[g] = Sync(disk[g], job[p].prior, Live(p), job[p].ver)
  BY <1>0, <1>2 DEF SyncTx
<1>3. ASSUME NEW p \in Procs, EvictTx(p)
      PROVE  \/ disk'[g] = disk[g]
             \/ g = gen[p] /\ disk'[g] = EvictStale(disk[g], job[p].ver)
  BY <1>0, <1>3 DEF EvictTx
<1>4. ASSUME NEW p \in Procs, ConfigTx(p)
      PROVE  \/ disk'[g] = disk[g]
             \/ g = gen[p] /\ disk'[g] = [disk[g] EXCEPT !.geometry = PersistedGeometry(p)]
  BY <1>0, <1>4 DEF ConfigTx
<1>5. ASSUME NEW p \in Procs, Answer(p)
      PROVE  \/ disk'[g] = disk[g]
             \/ g = gen[p] /\ disk'[g] = StoreRow(disk[g], call[p].item, call[p].tag, cloud)
  BY <1>0, <1>5 DEF Answer
<1>6. ASSUME NEW p \in Clis, NEW X \in SUBSET Vars, ImportVariables(p, X)
      PROVE  \/ disk'[g] = disk[g]
             \/ ~Locked(cur) /\ g = cur /\ disk'[g] = UpsertVariables(disk[g], X)
  BY <1>0, <1>6 DEF ImportVariables
<1>7. ASSUME NEW p \in Clis, Wipe(p)
      PROVE  \/ disk'[g] = disk[g]
             \/ disk'[g] = EmptyStore /\ cur' # cur
  BY <1>0, <1>7 DEF Wipe
<1>8. QED
  BY <1>1, <1>2, <1>3, <1>4, <1>5, <1>6, <1>7
     DEF Next, ServeStep, CliStep, PullStep, ItemStep, Edit, OpenSession, SessionPull,
         Exit, CliPull, CliPullFromFile, Open, FetchFile, FetchVariables, Fail, Collect,
         Miss, AnswerError, Crash, vars

\* A row that names a version shows that version or a later one.
RowsNotOlder ==
    \A g \in Gens, i \in Items :
        LET row == disk[g].rows[i]
        IN  row # Absent /\ row.tag # NoVersion => row.tag <= row.content

\* What a miss was made under is a version the file has had.
CallTags == \A p \in Procs : call[p].tag = NoVersion \/ call[p].tag <= cloud

RowInv == RowsNotOlder /\ CallTags

LEMMA CallTagsNext ==
    ASSUME IInv, MetaPublished, CallTags, [Next]_vars
    PROVE  CallTags'
<1> USE DEF IInv, TypeInv, Typed, TypeOK
<1>1. cloud \in Nat /\ cloud' \in Nat /\ cloud <= cloud'
  BY CloudGrows
<1>2. \A p \in Procs : call[p].tag = NoVersion \/ call[p].tag \in Nat
  BY VersionsOrder DEF CallSlots, VersionOrNone
<1>3. ASSUME \A p \in Procs : call'[p] = call[p] \/ call'[p] = NoCall
      PROVE  CallTags'
  BY <1>1, <1>2, <1>3 DEF CallTags, NoCall
<1>4. ASSUME NEW p \in Procs, NEW i \in Items, Miss(p, i) PROVE CallTags'
  <2> DEFINE g == IF p = Serve THEN gen[p] ELSE cur
  <2>1. g \in Gens /\ call' = [call EXCEPT ![p] = [item |-> i, tag |-> disk[g].meta]]
    BY <1>4 DEF Miss
  <2>2. disk[g].meta = NoVersion \/ disk[g].meta \in 0..cloud
    BY <2>1 DEF MetaPublished
  <2> HIDE DEF g
  <2>3. call'[p].tag = disk[g].meta /\ \A q \in Procs : q # p => call'[q] = call[q]
    BY <2>1
  <2>4. QED
    BY <1>1, <1>2, <2>2, <2>3 DEF CallTags
<1>5. QED
  BY <1>3, <1>4
     DEF Next, ServeStep, CliStep, PullStep, ItemStep, Edit, OpenSession, SessionPull,
         Exit, CliPull, CliPullFromFile, ImportVariables, Wipe, Open, FetchFile,
         FetchVariables, Fail, Collect, SyncTx, EvictTx, ConfigTx, Answer,
         AnswerError, Crash, Finish, Drop, vars

LEMMA RowsNotOlderNext ==
    ASSUME IInv, RowInv, [Next]_vars
    PROVE  RowsNotOlder'
<1> SUFFICES ASSUME NEW g \in Gens, NEW i \in Items
             PROVE  LET row == disk'[g].rows[i]
                    IN  row # Absent /\ row.tag # NoVersion => row.tag <= row.content
  BY DEF RowsNotOlder
<1>0. disk[g] \in Contents /\ TypeInv /\ cloud \in Nat
  BY CloudGrows DEF IInv, TypeInv, Typed, TypeOK
<1>1. CASE disk'[g].rows[i] = disk[g].rows[i] \/ disk'[g].rows[i] = Absent
  BY <1>1 DEF RowInv, RowsNotOlder
<1>2. ASSUME NEW p \in Procs, disk'[g].rows[i] = [tag |-> call[p].tag, content |-> cloud]
      PROVE  LET row == disk'[g].rows[i] IN row.tag # NoVersion => row.tag <= row.content
  BY <1>2 DEF RowInv, CallTags
<1>3. \/ disk'[g].rows[i] = disk[g].rows[i] \/ disk'[g].rows[i] = Absent
      \/ \E p \in Procs : disk'[g].rows[i] = [tag |-> call[p].tag, content |-> cloud]
  <2>1. CASE disk'[g] = disk[g]
    BY <2>1
  <2>2. ASSUME NEW p \in Procs, disk'[g] = Sync(disk[g], job[p].prior, Live(p), job[p].ver)
        PROVE  disk'[g].rows[i] = disk[g].rows[i]
    BY <1>0, <2>2, RowsAfter
  <2>3. ASSUME NEW p \in Procs, disk'[g] = EvictStale(disk[g], job[p].ver)
        PROVE  disk'[g].rows[i] = disk[g].rows[i] \/ disk'[g].rows[i] = Absent
    BY <1>0, <2>3, RowsAfter
  <2>4. ASSUME NEW p \in Procs, disk'[g] = [disk[g] EXCEPT !.geometry = PersistedGeometry(p)]
        PROVE  disk'[g].rows[i] = disk[g].rows[i]
    BY <1>0, <2>4 DEF Contents
  <2>5. ASSUME NEW p \in Procs,
               disk'[g] = StoreRow(disk[g], call[p].item, call[p].tag, cloud)
        PROVE  \/ disk'[g].rows[i] = disk[g].rows[i]
               \/ disk'[g].rows[i] = [tag |-> call[p].tag, content |-> cloud]
    BY <1>0, <2>5, RowsAfter
  <2>6. ASSUME NEW X, disk'[g] = UpsertVariables(disk[g], X)
        PROVE  disk'[g].rows[i] = disk[g].rows[i]
    BY <1>0, <2>6, RowsAfter
  <2>7. CASE disk'[g] = EmptyStore
    BY <2>7 DEF EmptyStore
  <2>8. QED
    BY <1>0, <2>1, <2>2, <2>3, <2>4, <2>5, <2>6, <2>7, DirectorySteps
<1>4. QED
  BY <1>1, <1>2, <1>3

\* cache::lookup, images::lookup: what a cache answers is not older than the
\* nodes it is served beside, whoever died between a sync and its eviction, and
\* whoever pulled or wiped while the answer was on its way.
THEOREM HitsAreNotOlder == Spec => []HitNotOlder
<1>1. Init => RowInv
  BY DEF Init, RowInv, RowsNotOlder, CallTags, NoCall, EmptyStore
<1>2. IInv /\ ServeInv /\ RowInv /\ [Next]_vars => RowInv'
  BY CallTagsNext, RowsNotOlderNext DEF RowInv, ServeInv
<1>3. RowInv => HitNotOlder
  <2> SUFFICES ASSUME RowInv, NEW g \in Gens, NEW i \in Items,
                      Hit(disk[g], i), disk[g].meta # NoVersion
               PROVE  disk[g].rows[i].content >= disk[g].meta
    BY DEF HitNotOlder
  <2>1. disk[g].rows[i].tag <= disk[g].rows[i].content /\ disk[g].rows[i].tag = disk[g].meta
    BY DEF Hit, RowInv, RowsNotOlder
  <2>2. QED
    BY <2>1
<1>4. QED
  BY <1>1, <1>2, <1>3, Invariance, ServeInvariance, PTL DEF Spec

-----------------------------------------------------------------------------
(* Stale rows *)

\* While a pull or a fetch has the store, what it has read of the version is
\* what the store says.
PullSees ==
    \A p \in Procs :
        /\ pc[p] = "sync" => job[p].before = My(p).meta
        /\ pc[p] = "evict" => My(p).meta = job[p].ver
        /\ pc[p] = "upstream" => call[p].tag = My(p).meta

\* The pulls that have yet to evict from directory g: none or one.
Evicting(g) == {p \in Procs : pc[p] = "evict" /\ gen[p] = g}

\* The rows of a directory carry its version, or, between a sync and its
\* eviction, the version before.
Fit(g) ==
    /\ Evicting(g) = {} => StaleRows(disk[g], disk[g].meta) = {}
    /\ \A p \in Evicting(g) : StaleRows(disk[g], job[p].before) = {}

RowsFit == crashes = 0 => \A g \in Gens : Fit(g)

\* The one way into each of the three points, and that others leave them alone.
LEMMA WaysIn ==
    ASSUME TypeInv, [Next]_vars, NEW q \in Procs
    PROVE  /\ pc'[q] = "evict" => \/ SyncTx(q)
                                  \/ pc[q] = "evict" /\ gen'[q] = gen[q] /\ job'[q] = job[q]
           /\ pc'[q] = "sync" => \/ Collect(q)
                                 \/ pc[q] = "sync" /\ gen'[q] = gen[q] /\ job'[q] = job[q]
           /\ pc'[q] = "upstream" => \/ \E i \in Items : Miss(q, i)
                                     \/ /\ pc[q] = "upstream" /\ gen'[q] = gen[q]
                                        /\ call'[q] = call[q]
           /\ pc[q] = "evict" => \/ EvictTx(q) \/ Crash(q)
                                 \/ pc'[q] = "evict" /\ gen'[q] = gen[q] /\ job'[q] = job[q]
<1> USE DEF TypeInv, Typed, TypeOK
<1> DEFINE Ways ==
        /\ pc'[q] = "evict" => \/ SyncTx(q)
                               \/ pc[q] = "evict" /\ gen'[q] = gen[q] /\ job'[q] = job[q]
        /\ pc'[q] = "sync" => \/ Collect(q)
                              \/ pc[q] = "sync" /\ gen'[q] = gen[q] /\ job'[q] = job[q]
        /\ pc'[q] = "upstream" => \/ \E i \in Items : Miss(q, i)
                                  \/ /\ pc[q] = "upstream" /\ gen'[q] = gen[q]
                                     /\ call'[q] = call[q]
        /\ pc[q] = "evict" => \/ EvictTx(q) \/ Crash(q)
                              \/ pc'[q] = "evict" /\ gen'[q] = gen[q] /\ job'[q] = job[q]
<1>1. Serve \in Procs /\ Clis \subseteq Procs /\ Serve \notin Clis
  BY MirrorAssumption DEF Procs
<1>2. CASE Edit \/ UNCHANGED vars
  BY <1>2 DEF Edit, vars
<1>3. CASE ServeStep
  BY <1>1, <1>3 DEF ServeStep, OpenSession, SessionPull, Exit, Goto
<1>4. ASSUME NEW p \in Clis, CliStep(p) PROVE Ways
  BY <1>1, <1>4 DEF CliStep, CliPull, CliPullFromFile, ImportVariables, Wipe, Open, Goto
<1>5. ASSUME NEW p \in Procs, FetchFile(p) \/ FetchVariables(p) PROVE Ways
  BY <1>1, <1>5 DEF FetchFile, FetchVariables, AfterNetwork, Goto
<1>6. ASSUME NEW p \in Procs, Finish(p), q = p => pc[q] # "evict" \/ EvictTx(q) PROVE Ways
  BY <1>1, <1>6 DEF Finish, Drop, Rest, Goto
<1>7. ASSUME NEW p \in Procs, Collect(p) \/ SyncTx(p) \/ EvictTx(p) PROVE Ways
  BY <1>1, <1>7 DEF Collect, SyncTx, EvictTx, Goto
<1>8. ASSUME NEW p \in Procs, NEW i \in Items, Miss(p, i) PROVE Ways
  BY <1>1, <1>8 DEF Miss, Rest, Goto
<1>9. ASSUME NEW p \in Procs, Crash(p) PROVE Ways
  BY <1>1, <1>9 DEF Crash, Drop, Goto
<1>10. ASSUME NEW p \in Procs, Fail(p) \/ ConfigTx(p) \/ Answer(p) \/ AnswerError(p) PROVE Ways
  BY <1>6, <1>10 DEF Fail, ConfigTx, Answer, AnswerError
<1>11. QED
  BY <1>2, <1>3, <1>4, <1>5, <1>7, <1>8, <1>9, <1>10 DEF Next, PullStep, ItemStep

\* A held directory does not change under its holder's feet.
LEMMA StaysPut ==
    ASSUME TypeInv, LockInv, [Next]_vars, NEW q \in Procs, Holds(q),
           pc'[q] = pc[q], pc[q] \in {"sync", "evict", "upstream"}
    PROVE  disk'[gen[q]] = disk[gen[q]]
<1>1. ASSUME NEW p \in Procs, Acts(p), p # q PROVE disk'[gen[q]] = disk[gen[q]]
  BY <1>1, HeldByOthers
<1>2. ASSUME Does(q) PROVE FALSE
  BY <1>2, MirrorAssumption
     DEF Does, ServeStep, CliStep, PullStep, ItemStep, OpenSession, SessionPull, Exit, CliPull,
         CliPullFromFile, ImportVariables, Wipe, Open, FetchFile, FetchVariables, Fail, Collect,
         SyncTx, EvictTx, ConfigTx, Miss, Answer, AnswerError, Crash, Finish, Rest, Goto,
         TypeInv, Typed, TypeOK, AfterNetwork
<1>3. QED
  BY <1>1, <1>2, ActorStep DEF Idle

LEMMA PullSeesNext ==
    ASSUME IInv, PullSees, [Next]_vars
    PROVE  PullSees'
<1> SUFFICES ASSUME NEW q \in Procs
             PROVE  /\ pc'[q] = "sync" => job'[q].before = disk'[gen'[q]].meta
                    /\ pc'[q] = "evict" => disk'[gen'[q]].meta = job'[q].ver
                    /\ pc'[q] = "upstream" => call'[q].tag = disk'[gen'[q]].meta
  BY DEF PullSees, My
<1> USE DEF IInv, TypeInv, Typed, TypeOK
<1>1. ASSUME Collect(q) PROVE job'[q].before = disk'[gen'[q]].meta
  BY <1>1 DEF Collect, My, Jobs
<1>2. ASSUME SyncTx(q) PROVE disk'[gen'[q]].meta = job'[q].ver
  <2>1. disk[gen[q]] \in Contents /\ gen[q] \in Gens
    OBVIOUS
  <2>2. disk'[gen[q]] = Sync(disk[gen[q]], job[q].prior, Live(q), job[q].ver)
    BY <1>2, <2>1 DEF SyncTx
  <2>3. QED
    BY <1>2, <2>1, <2>2, RowsAfter DEF SyncTx
<1>3. ASSUME NEW i \in Items, Miss(q, i) PROVE call'[q].tag = disk'[gen'[q]].meta
  <2> DEFINE h == IF q = Serve THEN gen[q] ELSE cur
  <2>1. /\ call' = [call EXCEPT ![q] = [item |-> i, tag |-> disk[h].meta]]
        /\ gen' = [gen EXCEPT ![q] = h] /\ disk' = disk
    BY <1>3 DEF Miss
  <2> HIDE DEF h
  <2>2. call'[q] = [item |-> i, tag |-> disk[h].meta] /\ gen'[q] = h
    BY <2>1
  <2>3. call'[q].tag = disk[h].meta
    BY <2>2
  <2>4. QED
    BY <2>1, <2>2, <2>3
<1>4. ASSUME pc'[q] = pc[q], pc[q] \in {"sync", "evict", "upstream"}
      PROVE  disk'[gen[q]] = disk[gen[q]]
  BY <1>4, StaysPut DEF Holds, HoldingPcs
<1>5. QED
  BY <1>1, <1>2, <1>3, <1>4, WaysIn DEF PullSees, My

LEMMA FitNext ==
    ASSUME IInv, PullSees, [Next]_vars, NEW g \in Gens, Fit(g),
           \A p \in Procs : ~Crash(p)
    PROVE  Fit(g)'
<1> USE DEF IInv, TypeInv, Typed, TypeOK
<1>0. disk[g] \in Contents
  OBVIOUS
<1>1. ASSUME \A p \in Procs : (SyncTx(p) \/ EvictTx(p)) => gen[p] # g
      PROVE  Evicting(g)' = Evicting(g) /\ \A p \in Evicting(g) : job'[p] = job[p]
  <2>1. ASSUME NEW p \in Procs, pc'[p] = "evict", gen'[p] = g
        PROVE  pc[p] = "evict" /\ gen[p] = g /\ job'[p] = job[p]
    BY <1>1, <2>1, WaysIn DEF SyncTx
  <2>2. ASSUME NEW p \in Procs, pc[p] = "evict", gen[p] = g
        PROVE  pc'[p] = "evict" /\ gen'[p] = g /\ job'[p] = job[p]
    BY <1>1, <2>2, WaysIn
  <2>3. QED
    BY <2>1, <2>2 DEF Evicting
<1>2. ASSUME disk'[g].rows = disk[g].rows, disk'[g].meta = disk[g].meta,
             \A p \in Procs : (SyncTx(p) \/ EvictTx(p)) => gen[p] # g
      PROVE  Fit(g)'
  BY <1>1, <1>2 DEF Fit, StaleRows
<1>3. ASSUME NEW p \in Procs, SyncTx(p), gen[p] = g PROVE Fit(g)'
  <2>1. Evicting(g) = {}
    BY <1>3 DEF SyncTx, Evicting, LockInv, Mutex, Holds, HoldingPcs
  <2>2. Evicting(g)' = {p}
    BY <1>3, <2>1 DEF SyncTx, Goto, Evicting
  <2>3. job' = job /\ disk'[g].rows = disk[g].rows
    BY <1>0, <1>3, RowsAfter DEF SyncTx
  <2>4. job[p].before = disk[g].meta
    BY <1>3 DEF PullSees, SyncTx, My
  <2>5. QED
    BY <2>1, <2>2, <2>3, <2>4 DEF Fit, StaleRows
<1>4. ASSUME NEW p \in Procs, EvictTx(p), gen[p] = g PROVE Fit(g)'
  <2>1. p \in Evicting(g) /\ \A q \in Evicting(g) : q = p
    BY <1>4 DEF EvictTx, Evicting, LockInv, Mutex, Holds, HoldingPcs
  <2>2. Evicting(g)' = {}
    BY <1>4, <2>1 DEF EvictTx, Goto, Evicting
  <2>3. disk[g].meta = job[p].ver /\ StaleRows(disk[g], job[p].before) = {}
    BY <1>4, <2>1 DEF PullSees, EvictTx, My, Fit
  <2>4. CASE disk'[g] = disk[g] /\ job[p].before = job[p].ver
    BY <2>2, <2>3, <2>4 DEF Fit
  <2>5. CASE disk'[g] = EvictStale(disk[g], job[p].ver)
    <3>1. disk'[g].meta = job[p].ver
      BY <1>0, <2>3, <2>5, EvictStaleContents
    <3>2. \A i \in Items : disk'[g].rows[i] =
             IF i \in StaleRows(disk[g], job[p].ver) THEN Absent ELSE disk[g].rows[i]
      BY <1>0, <2>5, RowsAfter
    <3>3. StaleRows(disk'[g], disk'[g].meta) = {}
      BY <3>1, <3>2 DEF StaleRows
    <3>4. QED
      BY <2>2, <3>3 DEF Fit
  <2>6. QED
    BY <1>4, <2>4, <2>5 DEF EvictTx
<1>5. ASSUME NEW p \in Procs, Answer(p), gen[p] = g,
             disk'[g] = StoreRow(disk[g], call[p].item, call[p].tag, cloud),
             \A q \in Procs : (SyncTx(q) \/ EvictTx(q)) => gen[q] # g
      PROVE  Fit(g)'
  <2>1. Evicting(g) = {}
    BY <1>5 DEF Answer, Evicting, LockInv, Mutex, Holds, HoldingPcs
  <2>2. call[p].tag = disk[g].meta /\ StaleRows(disk[g], disk[g].meta) = {}
    BY <1>5, <2>1 DEF PullSees, Answer, My, Fit
  <2>3. disk'[g].meta = disk[g].meta
    <3>1. call[p].tag \in VersionOrNone /\ cloud \in Versions
      BY DEF CallSlots
    <3>2. QED
      BY <1>0, <1>5, <3>1, StoreRowContents
  <2>4. \A j \in Items : \/ disk'[g].rows[j] = disk[g].rows[j]
                         \/ disk'[g].rows[j] = [tag |-> call[p].tag, content |-> cloud]
    BY <1>0, <1>5, RowsAfter
  <2>5. \A j \in Items : disk'[g].rows[j] = disk[g].rows[j]
                           \/ disk'[g].rows[j].tag = disk[g].meta
    BY <2>2, <2>4
  <2>6. StaleRows(disk'[g], disk'[g].meta) = {}
    BY <2>2, <2>3, <2>5 DEF StaleRows
  <2>7. QED
    BY <1>1, <1>5, <2>1, <2>6 DEF Fit
<1>6. ASSUME disk'[g] = EmptyStore,
             \A p \in Procs : (SyncTx(p) \/ EvictTx(p)) => gen[p] # g
      PROVE  Fit(g)'
  BY <1>6 DEF Fit, StaleRows, EmptyStore
<1>7. ASSUME \A p \in Procs : (SyncTx(p) \/ EvictTx(p)) => gen[p] # g PROVE Fit(g)'
  <2>1. CASE disk'[g] = disk[g]
    BY <1>2, <1>7, <2>1
  <2>2. ASSUME NEW p \in Procs,
               disk'[g] = [disk[g] EXCEPT !.geometry = PersistedGeometry(p)]
        PROVE  Fit(g)'
    BY <1>0, <1>2, <1>7, <2>2 DEF Contents
  <2>3. ASSUME NEW X \in SUBSET Vars, disk'[g] = UpsertVariables(disk[g], X) PROVE Fit(g)'
    BY <1>0, <1>2, <1>7, <2>3, RowsAfter, UpsertVariablesContents
  <2>4. QED
    BY <1>5, <1>6, <1>7, <2>1, <2>2, <2>3, DirectorySteps
<1>8. QED
  BY <1>3, <1>4, <1>7

LEMMA RowsFitNext ==
    ASSUME IInv, PullSees, RowsFit, [Next]_vars
    PROVE  RowsFit'
<1>1. crashes \in Nat /\ (crashes' = crashes \/ \E p \in Procs : Crash(p))
  <2>1. crashes \in Nat
    BY MirrorAssumption DEF IInv, TypeInv, Typed, TypeOK
  <2>2. ASSUME NEW p \in Procs, PullStep(p) \/ ItemStep(p) PROVE crashes' = crashes
    BY <2>2 DEF PullStep, ItemStep, FetchFile, FetchVariables, Fail, Collect, SyncTx, EvictTx,
                ConfigTx, Miss, Answer, AnswerError
  <2>3. ASSUME NEW p \in Clis, CliStep(p) PROVE crashes' = crashes
    BY <2>3 DEF CliStep, CliPull, CliPullFromFile, ImportVariables, Wipe, Open
  <2>4. CASE Edit \/ ServeStep \/ UNCHANGED vars
    BY <2>1, <2>4 DEF Edit, ServeStep, OpenSession, SessionPull, Exit, vars
  <2>5. QED
    BY <2>1, <2>2, <2>3, <2>4 DEF Next
<1>2. ASSUME NEW p \in Procs, Crash(p) PROVE crashes' # 0
  BY <1>1, <1>2 DEF Crash
<1>3. QED
  BY <1>1, <1>2, FitNext DEF RowsFit

\* store::evict_stale_cache: while nothing crashes, no pull leaves a row of an
\* older version behind, and the eviction the CLI skips had nothing to do.
THEOREM NoneLeftStale == Spec => []NoStaleRowKept
<1>1. Init => PullSees /\ RowsFit
  BY DEF Init, PullSees, RowsFit, Fit, Evicting, StaleRows, EmptyStore
<1>2. IInv /\ PullSees /\ RowsFit /\ [Next]_vars => PullSees' /\ RowsFit'
  BY PullSeesNext, RowsFitNext
<1>3. PullSees /\ RowsFit => NoStaleRowKept
  BY DEF RowsFit, Fit, Evicting, NoStaleRowKept, Holds, HoldingPcs
<1>4. QED
  BY <1>1, <1>2, <1>3, Invariance, PTL DEF Spec

-----------------------------------------------------------------------------
(* Variables *)

\* A pull without an export sweeps no variable; a pull with one sweeps every
\* variable still stored when its transaction runs.
SweepVars ==
    \A p \in Procs : pc[p] = "sync" =>
        IF job[p].export = NoVersion THEN job[p].prior \cap Vars = {}
                                     ELSE CollectVariableIds(My(p)) \subseteq job[p].prior

LEMMA SweepVarsNext ==
    ASSUME IInv, SweepVars, [Next]_vars
    PROVE  SweepVars'
<1> SUFFICES ASSUME NEW q \in Procs, pc'[q] = "sync"
             PROVE  IF job'[q].export = NoVersion THEN job'[q].prior \cap Vars = {}
                    ELSE CollectVariableIds(disk'[gen'[q]]) \subseteq job'[q].prior
  BY DEF SweepVars, My, CollectVariableIds, Stored
<1> USE DEF IInv, TypeInv, Typed, TypeOK
<1>1. CASE Collect(q)
  <2> DEFINE swept == CollectSweepable(My(q)) \cup
                      (IF job[q].export = NoVersion THEN {} ELSE CollectVariableIds(My(q)))
  <2>1. disk' = disk /\ gen' = gen
    BY <1>1 DEF Collect
  <2>2. job'[q].prior = swept /\ job'[q].export = job[q].export
    BY <1>1 DEF Collect, Jobs
  <2>3. CollectSweepable(My(q)) \cap Vars = {}
    BY StoreAssumption DEF CollectSweepable, Stored
  <2>4. QED
    BY <2>1, <2>2, <2>3 DEF My
<1>2. CASE pc[q] = "sync" /\ gen'[q] = gen[q] /\ job'[q] = job[q]
  <2>1. disk'[gen[q]] = disk[gen[q]]
    BY <1>2, StaysPut DEF Holds, HoldingPcs
  <2>2. QED
    BY <1>2, <2>1 DEF SweepVars, My
<1>3. QED
  BY <1>1, <1>2, WaysIn

\* What a step does to a variable of a directory.
LEMMA VariableSteps ==
    ASSUME IInv, SweepVars, [Next]_vars, NEW g \in Gens
    PROVE  \/ \E p \in Procs :
                 /\ pc[p] = "sync" /\ gen[p] = g /\ job[p].export # NoVersion
                 /\ \A x \in Vars :
                       \/ disk'[g].recs[x] = Absent
                       \/ disk'[g].recs[x] = [body |-> job[p].export, geom |-> FALSE]
           \/ \A x \in Vars :
                 \/ disk'[g].recs[x] = disk[g].recs[x]
                 \/ disk'[g].recs[x] = [body |-> Imported, geom |-> FALSE]
                 \/ disk'[g].recs[x] = Absent /\ cur' # cur
<1> USE DEF IInv, TypeInv, Typed, TypeOK
<1>0. disk[g] \in Contents
  OBVIOUS
<1>1. CASE disk'[g].recs = disk[g].recs
  BY <1>1
<1>2. ASSUME NEW p \in Procs, SyncTx(p), gen[p] = g,
             disk'[g] = Sync(disk[g], job[p].prior, Live(p), job[p].ver)
      PROVE  IF job[p].export = NoVersion
             THEN \A x \in Vars : disk'[g].recs[x] = disk[g].recs[x]
             ELSE \A x \in Vars :
                     \/ disk'[g].recs[x] = Absent
                     \/ disk'[g].recs[x] = [body |-> job[p].export, geom |-> FALSE]
  <2>1. /\ job[p].ver \in Versions /\ job[p].geom \in BOOLEAN
        /\ job[p].export \in VersionOrNone /\ job[p].prior \in SUBSET Ids
    BY <1>2, VersionsOrder DEF SyncTx, Jobs, Fetched, FetchedPcs
  <2>2. \A x \in Vars : disk'[g].recs[x] =
           IF job[p].export # NoVersion /\ x \in VarDoc[job[p].export]
           THEN [body |-> job[p].export, geom |-> FALSE]
           ELSE IF x \in job[p].prior THEN Absent ELSE disk[g].recs[x]
    BY <1>0, <1>2, <2>1, SyncVariables DEF Live
  <2>3. IF job[p].export = NoVersion THEN job[p].prior \cap Vars = {}
        ELSE \A x \in Vars : x \notin job[p].prior => disk[g].recs[x] = Absent
    BY <1>2 DEF SyncTx, SweepVars, CollectVariableIds, Stored, My
  <2>4. QED
    BY <2>2, <2>3
<1>3. ASSUME NEW p \in Procs, disk'[g] = EvictStale(disk[g], job[p].ver)
      PROVE  disk'[g].recs = disk[g].recs
  BY <1>0, <1>3, EvictStaleContents
<1>4. ASSUME NEW p \in Procs,
             disk'[g] = [disk[g] EXCEPT !.geometry = PersistedGeometry(p)]
      PROVE  disk'[g].recs = disk[g].recs
  BY <1>0, <1>4 DEF Contents
<1>5. ASSUME NEW p \in Procs, disk'[g] = StoreRow(disk[g], call[p].item, call[p].tag, cloud)
      PROVE  disk'[g].recs = disk[g].recs
  <2>1. call[p].tag \in VersionOrNone /\ cloud \in Versions
    BY DEF CallSlots
  <2>2. QED
    BY <1>0, <1>5, <2>1, StoreRowContents
<1>6. ASSUME NEW X \in SUBSET Vars, disk'[g] = UpsertVariables(disk[g], X)
      PROVE  \A x \in Vars : \/ disk'[g].recs[x] = disk[g].recs[x]
                             \/ disk'[g].recs[x] = [body |-> Imported, geom |-> FALSE]
  <2>1. /\ \A x \in X : UpsertVariables(disk[g], X).recs[x] = [body |-> Imported, geom |-> FALSE]
        /\ \A x \in Vars \ X : UpsertVariables(disk[g], X).recs[x] = disk[g].recs[x]
    BY <1>0, ImportedVariables
  <2>2. QED
    BY <1>6, <2>1
<1>7. ASSUME disk'[g] = EmptyStore
      PROVE  \A x \in Vars : disk'[g].recs[x] = Absent
  BY <1>7 DEF EmptyStore, Ids
<1>8. ASSUME NEW p \in Procs, SyncTx(p), gen[p] = g,
             disk'[g] = Sync(disk[g], job[p].prior, Live(p), job[p].ver)
      PROVE  \/ \E q \in Procs :
                 /\ pc[q] = "sync" /\ gen[q] = g /\ job[q].export # NoVersion
                 /\ \A x \in Vars :
                       \/ disk'[g].recs[x] = Absent
                       \/ disk'[g].recs[x] = [body |-> job[q].export, geom |-> FALSE]
             \/ \A x \in Vars : disk'[g].recs[x] = disk[g].recs[x]
  <2>1. pc[p] = "sync"
    BY <1>8 DEF SyncTx
  <2>2. QED
    BY <1>2, <1>8, <2>1
<1>9. QED
  BY <1>1, <1>3, <1>4, <1>5, <1>6, <1>7, <1>8, DirectorySteps

\* store::collect_variable_ids joined to the sweep set: the variables of two
\* Enterprise exports never stand side by side.
THEOREM ExportsStayWhole == Spec => []ExportWhole
<1>1. Init => SweepVars /\ ExportWhole
  BY DEF Init, SweepVars, ExportWhole, EmptyStore, Stored, Ids
<1>2. ASSUME IInv, SweepVars, ExportWhole, [Next]_vars
      PROVE  ExportWhole'
  <2> SUFFICES ASSUME NEW g \in Gens, NEW x \in Vars, NEW y \in Vars,
                      disk'[g].recs[x] # Absent, disk'[g].recs[y] # Absent
               PROVE  LET bodies == {disk'[g].recs[x].body, disk'[g].recs[y].body}
                      IN  Imported \in bodies \/ disk'[g].recs[x] = disk'[g].recs[y]
    BY DEF ExportWhole, Stored
  <2>1. CASE \E p \in Procs : \A z \in Vars :
                \/ disk'[g].recs[z] = Absent
                \/ disk'[g].recs[z] = [body |-> job[p].export, geom |-> FALSE]
    <3>1. disk'[g].recs[x] = disk'[g].recs[y]
      BY <2>1
    <3>2. QED
      BY <3>1
  <2>2. CASE disk'[g].recs[x] = [body |-> Imported, geom |-> FALSE]
    <3>1. disk'[g].recs[x].body = Imported
      BY <2>2
    <3>2. QED
      BY <3>1
  <2>3. CASE disk'[g].recs[y] = [body |-> Imported, geom |-> FALSE]
    <3>1. disk'[g].recs[y].body = Imported
      BY <2>3
    <3>2. QED
      BY <3>1
  <2>4. CASE disk'[g].recs[x] = disk[g].recs[x] /\ disk'[g].recs[y] = disk[g].recs[y]
    BY <1>2, <2>4 DEF ExportWhole, Stored
  <2>5. QED
    BY <1>2, <2>1, <2>2, <2>3, <2>4, VariableSteps
<1>3. IInv /\ SweepVars /\ ExportWhole /\ [Next]_vars => SweepVars' /\ ExportWhole'
  BY <1>2, SweepVarsNext
<1>4. QED
  BY <1>1, <1>3, Invariance, PTL DEF Spec

\* SPEC 9.3: a pull that has no export leaves what was imported by hand alone.
THEOREM ImportsStay == Spec => ImportSurvives
<1>1. Init => SweepVars
  BY DEF Init, SweepVars
<1>2. ASSUME IInv, SweepVars, [Next]_vars, NEW g \in Gens, NEW x \in Vars,
             disk[g].recs[x] # Absent, disk[g].recs[x].body = Imported,
             cur' = cur, disk'[g].recs[x] # disk[g].recs[x]
      PROVE  \E p \in Procs : pc[p] = "sync" /\ gen[p] = g /\ job[p].export # NoVersion
  <2>1. disk[g].recs[x] = [body |-> Imported, geom |-> FALSE]
    <3>1. disk[g].recs[x] \in VarRec
      BY <1>2 DEF IInv, TypeInv, Typed, TypeOK, Contents, Recs
    <3>2. QED
      BY <1>2, <3>1 DEF VarRec
  <2>2. QED
    BY <1>2, <2>1, VariableSteps
<1>3. IInv /\ SweepVars /\ [Next]_vars
        => [\A g \in Gens, x \in Vars :
              /\ disk[g].recs[x] # Absent
              /\ disk[g].recs[x].body = Imported
              /\ cur' = cur
              /\ disk'[g].recs[x] # disk[g].recs[x]
              => \E p \in Procs : /\ pc[p] = "sync" /\ gen[p] = g
                                  /\ job[p].export # NoVersion]_vars
  BY <1>2
<1>4. IInv /\ SweepVars /\ [Next]_vars => SweepVars'
  BY SweepVarsNext
<1>5. QED
  BY <1>1, <1>3, <1>4, Invariance, PTL DEF Spec, ImportSurvives

-----------------------------------------------------------------------------
(* What a pull reports *)

LEMMA LiveRecords ==
    ASSUME NEW v \in Versions, NEW g \in BOOLEAN, NEW ev \in VersionOrNone
    PROVE  /\ DOMAIN Flattened(v, g, ev) \subseteq Ids
           /\ \A i \in DOMAIN Flattened(v, g, ev) : Flattened(v, g, ev)[i] # Absent
<1>1. PICK live : live = Flattened(v, g, ev)
  OBVIOUS
<1>2. /\ DOMAIN live \subseteq Ids
      /\ \A n \in DOMAIN live \cap Nodes : live[n] \in NodeRec
      /\ \A x \in DOMAIN live \cap Vars : live[x] \in VarRec
  BY <1>1, FlattenedRecords
<1>3. QED
  BY <1>1, <1>2, StoreAssumption DEF Ids

\* The counts of sync add up, whatever it is given to store and to sweep.
LEMMA ChurnAddsUp ==
    ASSUME NEW c \in Contents, NEW prior \in SUBSET Ids, NEW live,
           DOMAIN live \subseteq Ids, \A i \in DOMAIN live : live[i] # Absent
    PROVE  LET churn  == Churn(c, prior, live)
               before == Stored(c.recs, Ids)
               after  == Stored(SyncRecs(c.recs, prior, live), Ids)
           IN  /\ Cardinality(after) + churn.removed = Cardinality(before) + churn.added
               /\ churn.added + churn.changed + churn.removed = 0
                     <=> c.recs = SyncRecs(c.recs, prior, live)
<1> DEFINE before == Stored(c.recs, Ids)
           after == Stored(SyncRecs(c.recs, prior, live), Ids)
           added == {i \in DOMAIN live : c.recs[i] = Absent}
           changed == {i \in DOMAIN live : c.recs[i] \notin {Absent, live[i]}}
           removed == {i \in prior \ DOMAIN live : c.recs[i] # Absent}
<1>1. /\ Churn(c, prior, live).added = Cardinality(added)
      /\ Churn(c, prior, live).changed = Cardinality(changed)
      /\ Churn(c, prior, live).removed = Cardinality(removed)
  BY DEF Churn
<1>2. /\ before \in SUBSET Ids /\ after \in SUBSET Ids /\ added \in SUBSET Ids
      /\ changed \in SUBSET Ids /\ removed \in SUBSET Ids
  BY DEF Stored
<1>3. /\ after = (before \ removed) \cup added
      /\ before \cap removed = removed /\ (before \ removed) \cap added = {}
  BY DEF Stored, SyncRecs
<1>4. c.recs = SyncRecs(c.recs, prior, live) <=> added = {} /\ changed = {} /\ removed = {}
  <2>1. c.recs = [i \in Ids |-> c.recs[i]]
    BY DEF Contents, Recs
  <2>2. c.recs = SyncRecs(c.recs, prior, live)
          <=> \A i \in Ids : c.recs[i] = SyncRecs(c.recs, prior, live)[i]
    BY <2>1 DEF SyncRecs
  <2>3. ASSUME NEW i \in Ids
        PROVE  c.recs[i] = SyncRecs(c.recs, prior, live)[i]
                 <=> i \notin added /\ i \notin changed /\ i \notin removed
    BY DEF SyncRecs
  <2>4. QED
    BY <1>2, <2>2, <2>3
<1> HIDE DEF before, after, added, changed, removed
<1>5. /\ IsFiniteSet(before) /\ IsFiniteSet(added) /\ IsFiniteSet(changed)
      /\ IsFiniteSet(removed)
  BY <1>2, FS_Subset, StoreAssumption
<1>6. /\ Cardinality(before) \in Nat /\ Cardinality(added) \in Nat
      /\ Cardinality(changed) \in Nat /\ Cardinality(removed) \in Nat
  BY <1>5, FS_CardinalityType
<1>7. Cardinality(after) + Cardinality(removed) = Cardinality(before) + Cardinality(added)
  <2>1. /\ IsFiniteSet(before \ removed)
        /\ Cardinality(before \ removed) = Cardinality(before) - Cardinality(removed)
    <3>1. before \cap removed = removed
      BY <1>3
    <3>2. QED
      BY <1>5, <3>1, FS_Difference
  <2>2. Cardinality(after)
          = Cardinality(before \ removed) + Cardinality(added) - Cardinality({})
    BY <1>3, <1>5, <2>1, FS_Union
  <2>3. QED
    BY <1>6, <2>1, <2>2, FS_EmptySet
<1>8. /\ Cardinality(added) = 0 <=> added = {}
      /\ Cardinality(changed) = 0 <=> changed = {}
      /\ Cardinality(removed) = 0 <=> removed = {}
  BY <1>5, FS_EmptySet
<1>9. Cardinality(added) + Cardinality(changed) + Cardinality(removed) = 0
        <=> c.recs = SyncRecs(c.recs, prior, live)
  BY <1>4, <1>6, <1>8
<1>10. QED
  BY <1>1, <1>7, <1>9 DEF before, after

LEMMA SyncingStep ==
    ASSUME IInv, [Next]_vars, NEW p \in Procs, pc[p] = "sync", pc'[p] = "evict"
    PROVE  SyncTx(p)
<1> USE DEF IInv, TypeInv, Typed, TypeOK
<1>1. pc'[p] # pc[p]
  OBVIOUS
<1>2. PICK q \in Procs : Does(q) /\ Acts(q)
  BY <1>1, ActorStep DEF Idle
<1>3. q = p
  BY <1>1, <1>2 DEF Acts
<1>4. QED
  BY <1>2, <1>3 DEF Does, ServeStep, CliStep, CliPull, CliPullFromFile, ImportVariables, Wipe,
     Open, PullStep, ItemStep, OpenSession, SessionPull, Exit, FetchFile, FetchVariables, Fail,
     Collect, EvictTx, ConfigTx, Miss, Answer, AnswerError, Crash, Finish, Rest, Goto

\* store::sync: the counts a pull reports account for what it did to the store,
\* and a pull of what is there already reports no change.
THEOREM CountsAddUp == Spec => ChurnBalances
<1>1. ASSUME IInv, [Next]_vars, NEW p \in Procs, pc[p] = "sync", pc'[p] = "evict"
      PROVE  LET churn  == Churn(My(p), job[p].prior, Live(p))
                 before == Stored(My(p).recs, Ids)
                 after  == Stored(disk'[gen[p]].recs, Ids)
             IN  /\ Cardinality(after) + churn.removed = Cardinality(before) + churn.added
                 /\ churn.added + churn.changed + churn.removed = 0
                       <=> My(p).recs = disk'[gen[p]].recs
  <2>1. SyncTx(p)
    BY <1>1, SyncingStep
  <2>2. /\ My(p) \in Contents /\ job[p].prior \in SUBSET Ids
        /\ job[p].ver \in Versions /\ job[p].geom \in BOOLEAN /\ job[p].export \in VersionOrNone
    <3>1. TypeOK /\ cloud \in Versions /\ job[p].ver \in 0..cloud
      BY <1>1 DEF IInv, TypeInv, Typed, TypeOK, Fetched, FetchedPcs
    <3>2. job[p] \in Jobs /\ disk[gen[p]] \in Contents
      BY <3>1 DEF TypeOK
    <3>3. job[p].prior \in SUBSET Ids /\ job[p].geom \in BOOLEAN /\ job[p].export \in VersionOrNone
      BY <3>2 DEF Jobs
    <3>4. job[p].ver \in Versions
      BY <3>1, VersionsOrder
    <3>5. QED
      BY <3>2, <3>3, <3>4 DEF My
  <2>3. /\ DOMAIN Live(p) \subseteq Ids
        /\ \A i \in DOMAIN Live(p) : Live(p)[i] # Absent
    BY <2>2, LiveRecords DEF Live
  <2>4. disk'[gen[p]].recs = SyncRecs(My(p).recs, job[p].prior, Live(p))
    <3>1. disk'[gen[p]] = Sync(My(p), job[p].prior, Live(p), job[p].ver)
      BY <1>1, <2>1 DEF SyncTx, My, IInv, TypeInv, Typed, TypeOK
    <3>2. QED
      BY <2>2, <3>1 DEF Sync, Contents
  <2>5. QED
    BY <2>2, <2>3, <2>4, ChurnAddsUp
<1>2. IInv /\ [Next]_vars
        => [\A p \in Procs : pc[p] = "sync" /\ pc'[p] = "evict" =>
              LET churn  == Churn(My(p), job[p].prior, Live(p))
                  before == Stored(My(p).recs, Ids)
                  after  == Stored(disk'[gen[p]].recs, Ids)
              IN  /\ Cardinality(after) + churn.removed = Cardinality(before) + churn.added
                  /\ churn.added + churn.changed + churn.removed = 0
                        <=> My(p).recs = disk'[gen[p]].recs]_vars
  BY <1>1
<1>3. QED
  BY <1>2, Invariance, PTL DEF Spec, ChurnBalances

-----------------------------------------------------------------------------
(* Refinement *)

LEMMA SnapshotView ==
    ASSUME NEW v \in Versions, NEW g \in BOOLEAN
    PROVE  Atomic!View(v, g) = [ver |-> v, nodes |-> [n \in Nodes |-> SnapshotNode(v, g, n)]]
<1>1. Atomic!LiveNodes(v) = LiveNodes(v)
  BY DEF Atomic!LiveNodes, LiveNodes
<1>2. Atomic!FlattenFile(v, g) = FlattenFile(v, g)
  BY <1>1 DEF Atomic!FlattenFile, FlattenFile
<1>3. [n \in Nodes |-> IF n \in Atomic!LiveNodes(v) THEN Atomic!FlattenFile(v, g)[n]
                                                   ELSE Absent]
        = [n \in Nodes |-> SnapshotNode(v, g, n)]
  BY <1>1, <1>2 DEF SnapshotNode
<1>4. QED
  BY <1>3 DEF Atomic!View

LEMMA AtomicInit == Init => Atomic!Init
<1> SUFFICES ASSUME Init PROVE Atomic!Init
  OBVIOUS
<1>1. disk[cur] = EmptyStore
  BY MirrorAssumption DEF Init, Gens
<1>2. PathView = Atomic!Empty
  BY <1>1 DEF PathView, EmptyStore, Ids, Atomic!Empty
<1>3. QED
  BY <1>2 DEF Init, Atomic!Init

\* Every step of every process is an edit, an installation of one whole
\* version, a wipe, or nothing a reader can see.
LEMMA AtomicStep ==
    ASSUME IInv, [Next]_vars
    PROVE  [Atomic!Next]_<<cloud, PathView>>
<1> USE DEF IInv, TypeInv, Typed, TypeOK
<1>1. cur \in Gens /\ cloud \in Versions
  OBVIOUS
<1>2. CASE Edit
  BY <1>2 DEF Edit, PathView, Atomic!Next, Atomic!Publish
<1>3. ASSUME NEW p \in Clis, Wipe(p), cur' # cur
      PROVE  Atomic!Clear
  <2>1. cur' = cur + 1 /\ cur' \in Gens /\ cur' > cur
    BY <1>1, <1>3, MirrorAssumption DEF Wipe, Gens
  <2>2. disk[cur'] = EmptyStore
    BY <2>1 DEF LockInv, FreshDirs
  <2>3. disk'[cur'] = EmptyStore
    BY <1>3, <2>1, <2>2 DEF Wipe
  <2>4. PathView' = Atomic!Empty
    BY <2>3 DEF PathView, EmptyStore, Atomic!Empty, Ids
  <2>5. QED
    BY <1>3, <2>4 DEF Wipe, Atomic!Clear
<1>4. ASSUME cur' = cur, cloud' = cloud
      PROVE  [Atomic!Next]_<<cloud, PathView>>
  <2>1. Replaces(disk[cur], disk'[cur])
    BY <1>1, StepReplaces DEF SnapInv
  <2>2. CASE SameView(disk[cur], disk'[cur])
    BY <1>4, <2>2 DEF SameView, PathView
  <2>3. ASSUME NEW v \in 0..cloud, NEW g \in BOOLEAN, Installs(disk'[cur], v, g)
        PROVE  Atomic!Install
    <3>1. PathView' = [ver |-> v, nodes |-> [n \in Nodes |-> SnapshotNode(v, g, n)]]
      BY <1>4, <2>3 DEF PathView, Installs
    <3>2. v \in Versions
      BY <1>1, VersionsOrder
    <3>3. PathView' = Atomic!View(v, g)
      BY <3>1, <3>2, SnapshotView
    <3>4. QED
      BY <1>4, <3>3 DEF Atomic!Install
  <2>4. CASE disk'[cur] = EmptyStore
    BY <1>4, <2>4 DEF PathView, EmptyStore, Ids, Atomic!Clear, Atomic!Empty, Atomic!Next
  <2>5. QED
    BY <2>1, <2>2, <2>3, <2>4 DEF Replaces, Atomic!Next
<1>5. \/ Edit \/ (cur' = cur /\ cloud' = cloud)
      \/ \E p \in Clis : Wipe(p) /\ cur' # cur
  BY DEF Next, ServeStep, CliStep, PullStep, ItemStep, OpenSession, SessionPull, Exit,
         CliPull, CliPullFromFile, ImportVariables, Wipe, Open, FetchFile, FetchVariables,
         Fail, Collect, SyncTx, EvictTx, ConfigTx, Miss, Answer, AnswerError, Crash, vars
<1>6. QED
  BY <1>2, <1>3, <1>4, <1>5 DEF Atomic!Next

\* The store at the mirror's path implements the atomic mirror.
THEOREM Refinement == Spec => ImplementsAtomicMirror
<1>1. QED
  BY AtomicInit, AtomicStep, Invariance, PTL
     DEF Spec, ImplementsAtomicMirror, Atomic!Spec
=============================================================================
