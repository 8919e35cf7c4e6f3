------------------------------- MODULE Mirror -------------------------------
(***************************************************************************)
(* One mirror, `<root>/<key>/db`, and every process that touches it: the   *)
(* `figmog serve` that owns it (sessions.rs) and CLI processes that open   *)
(* the store directly (cli/pull.rs, cli/call.rs, cli/images.rs).           *)
(*                                                                         *)
(* A pull is not atomic.  It is a chain of network requests, of read       *)
(* transactions and of three write transactions (sync, eviction, config);  *)
(* the process may die between any two of them, and other processes run    *)
(* in between.  Only a write transaction of the store is one step.         *)
(*                                                                         *)
(* `pull --fresh` removes the directory, lock file included, whoever has   *)
(* it open.  The directories that have been at the path are numbered:      *)
(* `cur` is the one there now, disk[g] the contents of directory g, which  *)
(* an earlier holder keeps reading and writing through its open handle.    *)
(***************************************************************************)
EXTENDS MirrorStore

CONSTANTS
    Serve,     \* the long-lived server process
    Clis,      \* command-line processes
    Saved,     \* the versions someone has saved a response of, for --from-file
    MaxGen,    \* bound on the number of `pull --fresh` wipes
    MaxCrash   \* bound on the number of crashes

Procs == {Serve} \cup Clis
Gens == 0..MaxGen

ASSUME MirrorAssumption ==
    /\ Serve \notin Clis
    /\ Saved \subseteq Versions
    /\ MaxGen \in Nat
    /\ MaxCrash \in Nat

VARIABLES
    cloud,    \* the file's version at api.figma.com
    disk,     \* directory -> store contents
    cur,      \* the directory at the mirror's path
    pc,       \* what each process is about to do
    gen,      \* the directory a process's store handle is open on
    job,      \* the locals of a process's pull
    call,     \* the cache miss a process is fetching
    crashes   \* crashes so far

vars == <<cloud, disk, cur, pc, gen, job, call, crashes>>

\* Program points at which a process has the store open.
HoldingPcs == {"ready", "collect", "sync", "evict", "config", "upstream"}
\* serve holds its handle across the network part of a pull, the CLI does not.
NetworkPcs == {"fetch", "vars"}
PCs == HoldingPcs \cup NetworkPcs \cup {"out", "wipe", "open"}

\* Mutant: serve opens the store after the network part, as the CLI does.
HoldsLate(p) == pc[p] \in HoldingPcs

Holds(p) == pc[p] \in HoldingPcs \/ (p = Serve /\ pc[p] \in NetworkPcs)

\* The lock file of directory g is taken.
Locked(g) == \E p \in Procs : Holds(p) /\ gen[p] = g

Jobs == [flag: BOOLEAN,         \* this pull's own --geometry
         fresh: BOOLEAN,        \* --fresh
         request: BOOLEAN,      \* request_geometry
         ver: VersionOrNone,    \* version of the response
         geom: BOOLEAN,         \* the response carries geometry
         export: VersionOrNone, \* version of the variables export, if any
         prior: SUBSET Ids,     \* prior_sweepable
         before: VersionOrNone] \* prior_version

NoJob == [flag |-> FALSE, fresh |-> FALSE, request |-> FALSE,
          ver |-> NoVersion, geom |-> FALSE, export |-> NoVersion,
          prior |-> {}, before |-> NoVersion]

\* NoCall has the shape of a miss; its item is never read.
CallSlots == [item: Items \cup {Absent}, tag: VersionOrNone]
NoCall == [item |-> Absent, tag |-> NoVersion]

TypeOK ==
    /\ cloud \in Versions
    /\ disk \in [Gens -> Contents]
    /\ cur \in Gens
    /\ pc \in [Procs -> PCs]
    /\ gen \in [Procs -> Gens]
    /\ job \in [Procs -> Jobs]
    /\ call \in [Procs -> CallSlots]
    /\ crashes \in 0..MaxCrash

Init ==
    /\ cloud = 0
    /\ disk = [g \in Gens |-> EmptyStore]
    /\ cur = 0
    /\ pc = [p \in Procs |-> "out"]
    /\ gen = [p \in Procs |-> 0]
    /\ job = [p \in Procs |-> NoJob]
    /\ call = [p \in Procs |-> NoCall]
    /\ crashes = 0

-----------------------------------------------------------------------------
Goto(p, l) == pc' = [pc EXCEPT ![p] = l]

\* Where an operation ends: serve goes back to its loop with the store open,
\* a CLI process exits and drops its handle (its gen is then 0).
Rest(p) == IF p = Serve THEN "ready" ELSE "out"

Drop(p) ==
    /\ job' = [job EXCEPT ![p] = NoJob]
    /\ call' = [call EXCEPT ![p] = NoCall]

Finish(p) ==
    /\ Goto(p, Rest(p))
    /\ Drop(p)
    /\ gen' = IF p = Serve THEN gen ELSE [gen EXCEPT ![p] = 0]

My(p) == disk[gen[p]]

\* Someone edits the file on figma.com.  MaxVersion bounds the edits.
Edit ==
    /\ cloud < MaxVersion
    /\ cloud' = cloud + 1
    /\ UNCHANGED <<disk, cur, pc, gen, job, call, crashes>>

\* open_session: serve opens the store and keeps it open.
OpenSession ==
    /\ pc[Serve] = "out"
    /\ ~Locked(cur)
    /\ gen' = [gen EXCEPT ![Serve] = cur]
    /\ Goto(Serve, "ready")
    /\ UNCHANGED <<cloud, disk, cur, job, call, crashes>>

\* The pull closure of a session, from its start to the first request.  The
\* override is figmog_open's `geometry`, false for every other caller.
SessionPull(override) ==
    /\ pc[Serve] = "ready"
    /\ job' = [job EXCEPT ![Serve] = [NoJob EXCEPT
                  !.flag = override,
                  !.request = EffectiveGeometry(override, My(Serve).geometry)]]
    /\ Goto(Serve, "fetch")
    /\ UNCHANGED <<cloud, disk, cur, gen, call, crashes>>

\* cli do_pull from the network: peek at the stored flag through a handle
\* dropped at once; a locked store peeks as false.
Peek(fresh) == ~fresh /\ ~Locked(cur) /\ disk[cur].geometry

CliPull(p, flag, fresh) ==
    /\ pc[p] = "out"
    /\ job' = [job EXCEPT ![p] = [NoJob EXCEPT
                  !.flag = flag, !.fresh = fresh,
                  !.request = EffectiveGeometry(flag, Peek(fresh))]]
    /\ Goto(p, "fetch")
    /\ UNCHANGED <<cloud, disk, cur, gen, call, crashes>>

\* Only the CLI opens the store after the network part, and only it can wipe.
AfterNetwork(p) == IF p = Serve THEN "collect"
                   ELSE IF job[p].fresh THEN "wipe" ELSE "open"

\* cli do_pull --from-file: a saved response of some version, with or
\* without geometry; no request is made and no export is read.
CliPullFromFile(p, flag, fresh, v, g) ==
    /\ pc[p] = "out"
    /\ v <= cloud
    /\ job' = [job EXCEPT ![p] = [NoJob EXCEPT
                  !.flag = flag, !.fresh = fresh, !.ver = v, !.geom = g]]
    /\ Goto(p, IF fresh THEN "wipe" ELSE "open")
    /\ UNCHANGED <<cloud, disk, cur, gen, call, crashes>>

\* api.file
FetchFile(p) ==
    /\ pc[p] = "fetch"
    /\ job' = [job EXCEPT ![p].ver = cloud, ![p].geom = job[p].request]
    /\ Goto(p, "vars")
    /\ UNCHANGED <<cloud, disk, cur, gen, call, crashes>>

\* api.variables_local: an export on Enterprise, None on 403 and 404.
FetchVariables(p) ==
    /\ pc[p] = "vars"
    /\ \E ev \in {cloud, NoVersion} : job' = [job EXCEPT ![p].export = ev]
    /\ Goto(p, AfterNetwork(p))
    /\ UNCHANGED <<cloud, disk, cur, gen, call, crashes>>

\* remove_dir_all(..).ok(): the failure to remove is ignored.  A directory
\* nobody has open is gone for good.
Wipe(p) ==
    /\ pc[p] = "wipe"
    /\ \/ /\ cur < MaxGen
          /\ cur' = cur + 1
          /\ disk' = IF Locked(cur) THEN disk ELSE [disk EXCEPT ![cur] = EmptyStore]
       \/ UNCHANGED <<cur, disk>>
    /\ Goto(p, "open")
    /\ UNCHANGED <<cloud, gen, job, call, crashes>>

\* open_store_checked
Open(p) ==
    /\ pc[p] = "open"
    /\ ~Locked(cur)
    /\ gen' = [gen EXCEPT ![p] = cur]
    /\ Goto(p, "collect")
    /\ UNCHANGED <<cloud, disk, cur, job, call, crashes>>

\* Every `?` before the first write: a request that fails, a response that
\* does not flatten, a store that is locked, an export that does not parse.
Fail(p) ==
    /\ pc[p] \in {"fetch", "vars", "open", "collect"}
    /\ Finish(p)
    /\ UNCHANGED <<cloud, disk, cur, crashes>>

\* Mutants: the stored variables never join the sweep set, or always do.
CollectNoVariables(p) ==
    /\ pc[p] = "collect"
    /\ job' = [job EXCEPT ![p].prior = CollectSweepable(My(p)),
                          ![p].before = My(p).meta]
    /\ Goto(p, "sync")
    /\ UNCHANGED <<cloud, disk, cur, gen, call, crashes>>

CollectAllVariables(p) ==
    /\ pc[p] = "collect"
    /\ job' = [job EXCEPT ![p].prior = CollectSweepable(My(p)) \cup CollectVariableIds(My(p)),
                          ![p].before = My(p).meta]
    /\ Goto(p, "sync")
    /\ UNCHANGED <<cloud, disk, cur, gen, call, crashes>>

\* The read transactions: prior, the stored variables, the prior version.
Collect(p) ==
    /\ pc[p] = "collect"
    /\ job' = [job EXCEPT
          ![p].prior = CollectSweepable(My(p)) \cup
                       (IF job[p].export = NoVersion THEN {}
                        ELSE CollectVariableIds(My(p))),
          ![p].before = My(p).meta]
    /\ Goto(p, "sync")
    /\ UNCHANGED <<cloud, disk, cur, gen, call, crashes>>

Live(p) == Flattened(job[p].ver, job[p].geom, job[p].export)

\* store::sync, one write transaction
SyncTx(p) ==
    /\ pc[p] = "sync"
    /\ disk' = [disk EXCEPT ![gen[p]] = Sync(@, job[p].prior, Live(p), job[p].ver)]
    /\ Goto(p, "evict")
    /\ UNCHANGED <<cloud, cur, gen, job, call, crashes>>

\* store::evict_stale_cache, a transaction of its own.  The CLI skips it
\* when the version did not move, serve never does.
EvictTx(p) ==
    /\ pc[p] = "evict"
    /\ IF p = Serve \/ job[p].before # job[p].ver
       THEN disk' = [disk EXCEPT ![gen[p]] = EvictStale(@, job[p].ver)]
       ELSE UNCHANGED disk
    /\ Goto(p, "config")
    /\ UNCHANGED <<cloud, cur, gen, job, call, crashes>>

\* Mutant: the flag is written without what is stored.
PersistedOverride(p) == job[p].flag

\* store::upsert_mirror_config: serve writes what it requested, the CLI its
\* own flag combined with what is stored now.
PersistedGeometry(p) ==
    IF p = Serve THEN job[p].request
    ELSE EffectiveGeometry(job[p].flag, My(p).geometry)

ConfigTx(p) ==
    /\ pc[p] = "config"
    /\ disk' = [disk EXCEPT ![gen[p]].geometry = PersistedGeometry(p)]
    /\ Finish(p)
    /\ UNCHANGED <<cloud, cur, crashes>>

\* figmog import-variables: open, one write transaction, exit.
ImportVariables(p, X) ==
    /\ pc[p] = "out"
    /\ ~Locked(cur)
    /\ disk' = [disk EXCEPT ![cur] = UpsertVariables(@, X)]
    /\ UNCHANGED <<cloud, cur, pc, gen, job, call, crashes>>

\* A cacheable proxied call, or one image, that the cache does not answer:
\* the version is read before the request and kept across it.
Miss(p, i) ==
    LET g == IF p = Serve THEN gen[p] ELSE cur
    IN  /\ pc[p] = Rest(p)
        /\ p = Serve \/ ~Locked(cur)
        /\ ~Hit(disk[g], i)
        /\ call' = [call EXCEPT ![p] = [item |-> i, tag |-> disk[g].meta]]
        /\ gen' = [gen EXCEPT ![p] = g]
        /\ Goto(p, "upstream")
        /\ UNCHANGED <<cloud, disk, cur, job, crashes>>

\* The answer shows the file as it is now; it is stored under the kept tag.
Answer(p) ==
    /\ pc[p] = "upstream"
    /\ disk' = [disk EXCEPT ![gen[p]] =
                  StoreRow(@, call[p].item, call[p].tag, cloud)]
    /\ Finish(p)
    /\ UNCHANGED <<cloud, cur, crashes>>

\* An isError result, or a request that fails, is not cached.
AnswerError(p) ==
    /\ pc[p] = "upstream"
    /\ Finish(p)
    /\ UNCHANGED <<cloud, disk, cur, crashes>>

\* A process dies.  What its transactions committed stays.
Crash(p) ==
    /\ pc[p] # "out"
    /\ crashes < MaxCrash
    /\ crashes' = crashes + 1
    /\ Goto(p, "out")
    /\ Drop(p)
    /\ gen' = [gen EXCEPT ![p] = 0]
    /\ UNCHANGED <<cloud, disk, cur>>

\* serve's client closes stdin and serve exits in good order.
Exit ==
    /\ pc[Serve] = "ready"
    /\ Goto(Serve, "out")
    /\ gen' = [gen EXCEPT ![Serve] = 0]
    /\ UNCHANGED <<cloud, disk, cur, job, call, crashes>>

ServeStep ==
    \/ OpenSession
    \/ \E override \in BOOLEAN : SessionPull(override)
    \/ Exit

CliStep(p) ==
    \/ \E flag, fresh \in BOOLEAN : CliPull(p, flag, fresh)
    \/ \E flag, fresh, g \in BOOLEAN, v \in Saved :
          CliPullFromFile(p, flag, fresh, v, g)
    \/ \E X \in SUBSET Vars \ {{}} : ImportVariables(p, X)
    \/ Wipe(p)
    \/ Open(p)

PullStep(p) ==
    \/ FetchFile(p)
    \/ FetchVariables(p)
    \/ Fail(p)
    \/ Collect(p)
    \/ SyncTx(p)
    \/ EvictTx(p)
    \/ ConfigTx(p)

ItemStep(p) ==
    \/ \E i \in Items : Miss(p, i)
    \/ Answer(p)
    \/ AnswerError(p)

Next ==
    \/ Edit
    \/ ServeStep
    \/ \E p \in Clis : CliStep(p)
    \/ \E p \in Procs : PullStep(p) \/ ItemStep(p) \/ Crash(p)

Spec == Init /\ [][Next]_vars

-----------------------------------------------------------------------------
(* Properties *)

\* The nodes of contents c are exactly those of version v: none missing,
\* none left over, all fetched with the same geometry flag.
IsSnapshot(c, v) ==
    \E g \in BOOLEAN :
        \A n \in Nodes :
            c.recs[n] = IF n \in LiveNodes(v) THEN FlattenFile(v, g)[n] ELSE Absent

\* What a reader finds in a store is one published version of the file,
\* whole, or nothing: never a mix of two pulls, whoever pulled, crashed or
\* wiped in between (store.rs sync and the sweep set its callers collect).
SnapshotConsistent ==
    \A g \in Gens :
        IF disk[g].meta = NoVersion
        THEN \A n \in Nodes : disk[g].recs[n] = Absent
        ELSE IsSnapshot(disk[g], disk[g].meta)

\* Variables that came from Enterprise exports all come from the same one:
\* a pull that has an export sweeps what the export no longer names
\* (collect_variable_ids joined to the sweep set).
ExportWhole ==
    \A g \in Gens : \A x, y \in Stored(disk[g].recs, Vars) :
        LET bodies == {disk[g].recs[x].body, disk[g].recs[y].body}
        IN  Imported \in bodies \/ disk[g].recs[x] = disk[g].recs[y]

\* A cached response or image is never older than the nodes it is served
\* beside, even when a crash separated the sync from the eviction
\* (cache.rs lookup, images.rs scan, store.rs evict_stale_cache).
HitNotOlder ==
    \A g \in Gens, i \in Items :
        Hit(disk[g], i) /\ disk[g].meta # NoVersion
            => disk[g].rows[i].content >= disk[g].meta

\* Without crashes no row outlives its version once the pull that moved the
\* version is past its eviction: the CLI may skip the eviction of a pull
\* that finds the version unchanged (cli/pull.rs do_pull).
NoStaleRowKept ==
    crashes = 0 =>
        \A g \in Gens :
            \/ \E p \in Procs : Holds(p) /\ gen[p] = g /\ pc[p] = "evict"
            \/ StaleRows(disk[g], disk[g].meta) = {}

\* Geometry, once on in a store, stays on until the store is wiped, whatever
\* overrides the pulls pass and whoever runs them (effective_geometry).
GeometrySticky ==
    [][cur' = cur => \A g \in Gens : disk[g].geometry => disk'[g].geometry]_vars

\* A manually imported variable is changed only by another import or by a
\* pull that brings an Enterprise export, or lost in a wipe (SPEC 9.3, collect_variable_ids).
ImportSurvives ==
    [][\A g \in Gens, x \in Vars :
          /\ disk[g].recs[x] # Absent
          /\ disk[g].recs[x].body = Imported
          /\ cur' = cur
          /\ disk'[g].recs[x] # disk[g].recs[x]
          => \E p \in Procs : /\ pc[p] = "sync" /\ gen[p] = g
                              /\ job[p].export # NoVersion]_vars

\* serve never replaces a version by an older one: it holds the store from
\* before it fetches until after it syncs (open_session_at's pull closure).
ServeNeverRegresses ==
    [][pc[Serve] = "sync" /\ pc'[Serve] = "evict"
          => \/ My(Serve).meta = NoVersion
             \/ My(Serve).meta <= disk'[gen[Serve]].meta]_vars

\* The counts a pull reports account for what it did to the store, and a
\* pull of what is already there reports no change (store.rs Churn, SPEC 5).
ChurnBalances ==
    [][\A p \in Procs : pc[p] = "sync" /\ pc'[p] = "evict" =>
          LET churn  == Churn(My(p), job[p].prior, Live(p))
              before == Stored(My(p).recs, Ids)
              after  == Stored(disk'[gen[p]].recs, Ids)
          IN  /\ Cardinality(after) + churn.removed = Cardinality(before) + churn.added
              /\ churn.added + churn.changed + churn.removed = 0
                    <=> My(p).recs = disk'[gen[p]].recs]_vars

\* The store at the mirror's path, seen by a reader, implements the atomic
\* mirror: every step is the installation of one version, a wipe, an edit of
\* the file, or nothing a reader can see.
PathView ==
    [ver |-> disk[cur].meta, nodes |-> [n \in Nodes |-> disk[cur].recs[n]]]

Atomic == INSTANCE AtomicMirror WITH file <- cloud, view <- PathView

ImplementsAtomicMirror == Atomic!Spec

-----------------------------------------------------------------------------
(* What the documentation says and the code does not do *)

\* "One process may open a store at a time" (README, Limitations; SPEC 10):
\* at most one process has a store of this mirror open.
OneProcessHasTheStore ==
    \A p, q \in Procs : Holds(p) /\ Holds(q) => p = q

\* "the records never churn from flag drift" (SPEC 14): re-pulling a version
\* with no new override and no wipe leaves every record as it was.
NoFlagDrift ==
    [][\A p \in Procs :
          /\ pc[p] = "sync" /\ pc'[p] = "evict"
          /\ ~job[p].flag /\ job[p].before = job[p].ver
          => \A n \in Nodes : My(p).recs[n] = disk'[gen[p]].recs[n]]_vars
=============================================================================
