# figmog in TLA+

A verification development for figmog (`src/src/`): TLA+ models of its mirror,
its server and its command line, the TLC runs that check them on small
instances, and TLAPS proofs of what they check of safety for every instance.
`PROJECT.json` lists the components, the runs, the source lines behind every
definition, the hazards and the theorems; this file explains them.

## 1. The system

figmog keeps a local copy ("mirror") of Figma files and answers MCP tools and
commands from it. One file has one store, `.figmog/<key>/db` (fjall, one process
at a time). One long-lived `figmog serve` may own a root directory; commands reach
it over `<root>/serve.sock`, or open the store themselves when there is no serve.

| Part (source) | State it keeps | Operations | Interacts with |
|---|---|---|---|
| store (`store.rs`, `model.rs`) | records, meta row, cache and image rows, geometry flag, edge indexes | `sync` with sweep and churn, `upsert_variables`, `evict_stale_cache`, config | one write transaction per operation; read transactions anywhere |
| pull (`cli/pull.rs`, `sessions.rs`) | locals between steps | peek, fetch, wipe, open, sync, evict, config | api, store, lock, `.figmog/current` |
| flatten, vars (`flatten.rs`, `vars.rs`) | none | document or export to records | called by pull |
| cache and proxy (`cache.rs`, `proxy.rs`) | `proxy_cache` rows | `lookup`, forward, store, `merge_registry` | store, upstream |
| upstream (`upstream.rs`) | session id, protocol version, tools | `initialize`, `call` | the desktop app, over HTTP |
| mcp (`mcp.rs`) | none | a frame to a reply | serve loop, proxy |
| images (`images.rs`, `cli/images.rs`) | `images` rows | `scan`, `resolve`, relay of bytes | store, api, socket |
| query (`query.rs`) | none | pages, tree, find, search, path, instances, styles, uses, vars, stats ... | records and indexes |
| sessions (`sessions.rs`) | open files in order, default, watchers, backoffs | `open`, `resolve`, `do_pull`, bookkeeping | pull, store, lock |
| serve loop (`serve.rs`, `watch.rs`) | one deadline, round-robin index | startup, watch tick, tool calls | channel, sessions, api, upstream |
| control plane (`serve.rs`, `cli/socket.rs`) | socket file, guard, connection registry, channel | bind, accept, read frames, answer, unlink | threads, other processes, clients |
| routing (`cli/mod.rs`, `cli/call.rs`, `cli/socket.rs`) | `.figmog/current` | socket or direct, injected `file` | serve, store |
| api, dispatch, ident, cli/read | none that lasts | HTTP, tool table, parsing, arguments | the parts above |

**What makes it hard.** Serve's loop is one thread, but around it run the accept
thread, one reader thread per connection, other figmog processes, and edits at
Figma. A pull is a chain of network requests and three write transactions, and
the process may die between any two. `pull --fresh` removes a directory others
may have open. The socket file outlives killed processes and is found by name.
The desktop app behind proxied calls forgets its sessions when it is restarted and may
carry out what figmog has given up on.
Serve waits on one channel and one deadline for all of its files. `.figmog/current`,
the default session and the mirror's version are read at one moment and used at a
later one. The `hazards` of PROJECT.json give each of these its source line.

**What correct means, per component.** A mirror shows one fetched version whole.
A cached answer is not older than the mirror. What serve remembers of a file
agrees with its store, so that no edit is absorbed without a pull. The socket
file is the owner's, a request is carried out at most once, and a client waits for ever only
on a loop that has stalled or a response that could not be written. An image is answered with
the bytes filed for it and not paid for twice. The indexes
answer as the document would, and as a scan of all records does. A proxied call is
carried out at most once and answered with its own or an equal call's result. A command is answered for the file that was
current when it was invoked.

## 2. The modules

| Module | Models | Checked through |
|---|---|---|
| `MirrorStore` | contents of one store, and the store's operations as functions on contents | used by `Mirror` |
| `AtomicMirror` | what a mirror promises: it moves from one whole version to another in one step | refined by `Mirror` |
| `Mirror` | serve and command lines pulling into one mirror, step by step | `MCMirror` |
| `MirrorProofs` | theorems about the three above | TLAPS |
| `Serve` | one serve process: sessions, watch loop, tool calls | `MCServe` |
| `ControlPlane` | serve processes and clients around one socket path | `MCControlPlane` |
| `Frames` | one connection's bytes becoming frames | `MCFrames` |
| `Images` | image requests against the images table | `MCImages` |
| `FileTree` | tree, flattening, indexes, tree queries | `MCFileTree`, through `DesignSystem` |
| `DesignSystem` | components, styles, variables and statistics over `FileTree` | `MCFileTree` |
| `ToolCalls` | what a caller of proxied tools is promised | refined by `Desktop` |
| `Desktop` | MCP frames, registry, response cache, the HTTP client and the desktop app | `MCDesktop` |
| `Routing` | which mirror answers a command | `MCRouting` |
| `Lists` | `Chosen`, the loop over a sequence that keeps some of it | used by `Images`, `FileTree` |
| `ServeProofs`, `ImagesProofs`, `RoutingProofs`, `DesktopProofs` | theorems about the module they are named after, and `DesktopProofs` those about `ToolCalls` | TLAPS |
| `SocketProofs` | theorems about `ControlPlane` and `Frames` | TLAPS |
| `FileTreeProofs` | theorems about `FileTree` and `DesignSystem` | TLAPS |
| `FoldLemmas` | induction, folds and loops over sequences, for `SocketProofs`, `ImagesProofs` and `FileTreeProofs` | TLAPS |

How they compose: `Mirror` extends `MirrorStore` and implements `AtomicMirror`
(`INSTANCE AtomicMirror WITH file <- cloud, view <- PathView`). That result is what
allows `Serve` and `Routing` to treat a pull as the replacement of a version in one
step, `FileTree` to install a document at once and `Desktop` to treat a mirror as a
version. `ControlPlane` delivers requests, `Frames` cuts them out of the stream, `Serve` and
`Routing` say what they do, `Desktop` what becomes of those that are passed on: it implements
`ToolCalls` (`INSTANCE ToolCalls WITH asked <- Asked, runs <- ran, answers <- Answers`).
`DesignSystem` extends `FileTree`: the same edits and pulls, more queries.

Definitions whose comment begins with "Mutant" are no part of a model: each is a
plausible bug in the definition that follows, put in its place to see that a
property notices.

### MirrorStore, Mirror, AtomicMirror

A version is a number, `Doc[v]` the nodes of the file at that version and
`VarDoc[v]` its variables. A store is a record: the meta row's version, a record
(body, has geometry) or `Absent` for every id, the cache rows with the version they are
tagged with and the version their bytes really show, and the geometry flag.
`Sync`, `EvictStale`, `UpsertVariables`, `StoreRow`, `Hit`, `Churn` are store.rs',
cache.rs' and images.rs' operations on it.

`Mirror` has `disk[g]`, the contents of the g-th directory that has been at the
path, `cur`, the one there now, and per process a program counter, the
directory its handle is open on and the locals of its pull. Every network answer,
read transaction and write transaction is one action: `SessionPull`, `CliPull`,
`CliPullFromFile`, `FetchFile`, `FetchVariables`, `Wipe`, `Open`, `Collect`, `SyncTx`,
`EvictTx`, `ConfigTx`, `ImportVariables`, `Miss`, `Answer`, `Fail`, `Crash`. Serve
holds its store from `OpenSession` on; a command line opens it after the
network part. Holding a handle is the lock on that directory.

### Serve

`sessions`, `default`, `nextIdx` and `due` are SessionManager's and run_serve's
variables; `session[k]` has the watcher's watermark, the two backoffs and `mirrored`.
A pull is a `task` begun by one step and ended by `PullOk`, `PullError` or
`PullRateLimited`, so that edits come in between; nothing else of the loop does, as in
the code. `TickDue` says when `recv_timeout` times out: nothing in the channel
and nothing left of the deadline. `Stall` is a request to the API that is never answered, or a
stdout that nobody reads: the loop stands still until it is killed. `asked`, `since` and `overwritten` are history variables,
for the properties only. `Exit` and `Restart` keep the stores and `.figmog/current`.

### ControlPlane, Frames

Every system call of `bind_socket`, `SocketGuard::new` and its `drop` is a step, so two
processes interleave inside them. A socket file is named after the process that
bound it, which is what (dev, ino) tells. A request goes from the listen backlog to
a reader thread, to the channel, to the loop; `Accept`, `Forward`, `Take`, `Respond`
are those hops, `Unregister` the end of the reader thread, `GiveUp` the client's
timeout, `Crash` a kill. `AcceptFails` is the accept thread dropping a connection it cannot set
up, `ResponseLost` a response that could not be written, which leaves the connection open, and
`Stall` a loop that stands still while the other threads go on. With `Overlap = FALSE`, a process
starts only while no other one is binding or leaving.
`Frames` is `read_bounded_line`: the BufReader's chunk, the frame so far, the cap. Its
specification is `ReaderSpec`, as `SocketProofs` extends both modules.

### Images, FileTree, DesignSystem, Routing

`Images`: `Scan` is the read transaction (normalised ids, fills, hits), `AskUrls` the
one request per kind, `Download`, `DownloadFails` and `BatchDone` the rest;
`Reply` and `Relayed` the manifest and the blocks beside it. The API is asked for the scale as it
came, the table files it in thousandths (`Filing`); a row is found by `KeyOf`, a hash of what is
filed. An SVG travels through from_utf8_lossy (`Encoded`).
`FileTree`: `Walk` is flatten's, with the calls still to be made as a list (`Visit`); `Upsert`
and `Retract` keep five indexes as the store's pipeline does, an index as the set of its
edges; `BuildTree`, `Find`, `PageList`, `Path`, `DepthOf`, `ScopeIds`, `Search` are query.rs'.
The code's recursions over a tree are functions of the number of rounds or levels, of which
as many as there are ids are enough (`Reach`, `Outline`, `Climb`). Edits are `Create`, `Delete`, `Move`,
`Restyle`; a layer's look is its type, component, styles, bindings and values.
`DesignSystem` has one operator per query: `ResolveComponentIds`, `Instances`, `Inventory`,
`Uses`, `StyleRow`, `VarRows`, `Where` and the parts of stats. The components and styles of a
file are those its nodes mention. That the tables follow them is `SyncInstalls`.
`Routing`: `Ask` reads `.figmog/current`, `Send` makes the frame, the `Handle...`
actions are handle_tool_call by case, the `Direct...` actions the commands without serve.
`StartServe` is a startup that succeeds, `StartFails` one that stops at a locked store or a failed
pull, with the files before that pulled. A startup is one step: a request that arrives during it
waits in the channel and is handled after it.

### ToolCalls, Desktop

A process, serve or one-shot, is `proc`: the stage of its handshake or of the frame it
handles. `http` is HttpUpstream's state, `wire` the one exchange under way. The app is
external, modelled as upstream.rs meets it: `AppOpens`, `AppNotes`, `AppLists` and
`AppRuns` serve the four methods, `AppRefuses` any of them, `AppStops` forgets all
sessions. An answer comes alone, behind a notification, before text that is no JSON,
before a notification, or breaks off (`Bodies`). `Unreachable` is a refused connection and the agent's timeout alike:
in the second case the request may stay in `late` and be served after all.
`ReceiveInitialize`, `ReceiveInitialized`, `ReceiveList` and `ReceiveCall` take the
answers, `HandlePlain`, `HandleUnrouted`, `HandleLocal`, `HandleHit` and `Forward` are
handle_message and proxy_call by case. `Tick` is a turn of the round robin, with the pull a
change leads to. `wrote` and `excused` are history variables.
`ToolCalls` has the calls asked, the results of those the app has carried out, and the answers.
Its `Run(n)` has no regard to whether figmog still waits, its `Answer(n)` demands an answer of
figmog's own or one the cacheable call may get.

## 3. The runs

A run takes its constants from its `.cfg`; section 6 has what is proved without bounds.

| Run | Question | Bounds |
|---|---|---|
| `mirror_pull` | does any interleaving of pulls, edits, wipes and a crash show a mixed or older mirror, lose the geometry flag, or break `AtomicMirror`? | 2 nodes of which version 1 edits one and drops the other, serve and one command line, 1 wipe, 1 crash, saved responses of both versions; 1.1M states |
| `mirror_items` | the same for variables, cache rows and images | 1 node, 2 variables, 1 call, 1 image, 2 versions, 1 crash, no wipe; 1.9M states |
| `serve_calls` | do the session books agree with the stores after any calls and failures, are polls as far apart as promised, and do mirrors catch up unless the loop stalls? | 2 files, none or both of them at startup, 1 edit per file, 2 failed requests, 1 client; interval and floor 2, Retry-After 3; 2.0M states |
| `control_root` | who owns the root, and what becomes of requests? | 2 serves, 2 clients, perhaps a leftover file, 1 removal, starts not overlapping; 1.2M states |
| `frames_split` | do frames depend on how bytes arrive? | streams of up to 9 bytes over newline, CR, non-UTF-8 and other, cap 3, reads of up to 3 |
| `images_requests` | partial failures, collisions, scales that round alike, restarts | 2 nodes, 2 refs, 3 formats of which two are within a thousandth, one hash collision, one oversized render, one SVG that is no UTF-8, requests of 2 ids, 2 versions; 2.6M states |
| `tree_queries` | do the indexes follow any edits, and do queries over indexes and over records agree? | 2 pages, 2 layers, every tree over them; one layer is a frame or a component, the other a frame in two styles or an instance of either component; 2 components, 1 set, 1 style, 2 variables; 0.07M states |
| `routing_root` | for which file is a command answered, and at what price? | 2 files, 1 client, 10 kinds of command, 4 ways to start serve; 0.2M states |
| `desktop_calls` | what do callers of proxied tools get, whatever the app does? | 2 frames, 2 reads that share a hash, 1 write, 1 local tool, 1 edit or write, 2 sessions, 1 file open; 1.2M states |

Why the bounds are enough. A sweep error needs one node that stays and one that
goes; an order error needs two pulls, which serve and a command line give; a
stale handle needs one wipe; recovery needs one crash and a pull after it. The
theorems of section 6 lift the bounds for every safety property of the runs that pass. The watch loop's
round robin and its shared deadline need two files. Times are small numbers with
their order kept: floor <= interval < Retry-After <= cap. Ownership errors need
two processes, response errors two clients. `Frames` has streams longer than
the cap and the chunk together. A tree of two pages and two layers has
moves across pages, across depths and among siblings. A hash collision, a cached read and a
write each need two frames; a session lost and opened again needs two sessions. In
`MCFileTree` the name of a set is also the name of a component outside it, and one node uses a
style and a variable twice.

Type invariants are part of `mirror_pull` and `control_root`, whose theorems start from them.
`Serve`, `Frames`, `Images`, `FileTree`, `Routing` and `Desktop` have a `TypeOK` as well, which documents
their state; TLC confirms each under the configuration of its run with `TypeOK` added.

Deadlock is not checked where the system may stop: command lines end, a serve
process and a client run once, edits run out. `routing_root` checks it.

The runs that expect a violation, each a disagreement of the code with what it says:

| Run | Shows |
|---|---|
| `control_overlap` | two serves started together both own the root: one probes, is refused because the other has bound but does not listen yet, and unlinks its file; `OneServe` |
| `serve_retry` | after a rate limit, a proxied write, or a failure of another call, overwrites the one deadline, and the file is asked for again before its Retry-After is over; `RetryAfterHonored` |
| `routing_text` | over the socket the text of every result is parsed as JSON, so a proxied answer in plain text becomes an error; `ProxiedAnswersArrive` |

## 4. Disagreements met while modelling

Beside those three runs, these configurations state what the documentation or a
comment says and TLC refutes each in seconds with
`tlc -config X.cfg <module>`. They are kept for whoever settles the question.

| Configuration | Statement | What happens |
|---|---|---|
| `MCMirrorFresh` | `OneProcessHasTheStore` (repository README: "One process may open a store at a time") | `pull --fresh` removes the directory before it tries the lock; serve goes on with the old one |
| `MCMirrorDrift` | `NoFlagDrift` (SPEC 14: "the records never churn from flag drift") | the geometry peek reads a locked store as `false`; a second pull stores records without geometry |
| `MCMirrorDriftCrash` | the same, for one crash | a crash between the sync transaction and the one that stores the flag leaves records with geometry under a flag without |
| `MCServeStall` | `RunningCatchesUp` ("A change shows up within one interval") | requests to the API have no read timeout (api.rs 179), so one that is never answered stops the loop while the process runs on |
| `MCServeBusy` | `MirrorsCatchUp` ("A change shows up within one interval") | a channel that is never empty lets no tick happen; the interval stands for "eventually" here |
| `MCServeDefault` | `SingleMirroredIsDefault` (sessions.rs comment) | the rule counts sessions, mirrored or not |
| `MCServeProxy` | `ProxyCacheIsDefaults` (SPEC 8) | the cache is that of the first session opened |
| `MCServeFloor` | `PollsSpaced` with a Retry-After of less than two seconds (SPEC 8: the poll spend "stays bounded (≤ 30 Tier-3 requests/min)") | the deadline after a rate-limited poll is exactly the Retry-After, without the floor every other deadline has |
| `MCControlPlaneGuard` | `ExitKeepsOthers` under overlapping starts (serve.rs comment) | the guard stats the path after bind, and drop compares and removes in two steps |
| `MCControlPlaneHalfClose` | `NoLostResponse` for a client that shuts down its sending side | the reader thread drops the write half at end of input |
| `MCImagesScale` | `ExactBytes` (images.rs 186: "a colliding row must read as a miss, not get served as a different item's bytes") | the API is asked for the scale as given, the row is filed under it in thousandths, and the identity check compares those |
| `MCRoutingFile` | `CallHonorsFile` (cli/call.rs comment) | a direct call answers from the current mirror |
| `MCRoutingTools` | `EveryToolReachable` (SPEC 10) | figmog_files, figmog_open, figmog_images are unknown to a direct call |
| `MCRoutingCache` | `FileIgnoredByProxy` (SPEC 8) | the injected `file` is part of the cache key |
| `MCRoutingLock` | `NoSelfLock` for serve over `--db` without FILE | the session's key is the path, so the routed key opens the same store again |
| `MCDesktopTurns` | `WritesSeenAfterPoll` with two files (SPEC 8: a write "schedules an immediate meta-poll", "so the mirror catches up promptly") | the poll goes to the file whose turn it is; the written one may wait for a whole round |
| `MCFileTreeStyle` | `StyleValueIsDefinition` (build design 6: `styles --values` "derives each style's value from its `styled_by` consumers") | the value is read at the pointer of the style's type from the first consumer, even one that uses a fill style for its stroke |

## 5. Fairness

Neither the requests to the API (api.rs 179 and 230) nor a write to stdout (serve.rs 642) has a
timeout once it is under way, so the code does not guarantee that the loop goes on. The models do
not assume it away: `Stall` may happen whenever the loop runs, it is for good, and the properties
say what they exempt.

`Serve`: weak fairness of the loop as a whole (`Startup`, `PullEnds`, `WatchTick` and
`HandleMessage` are one thread, whose next step is always one of them) and of time. What the
fairness says is that a request which does not stall ends, with an answer or an error, and that
`recv_timeout` returns. Nothing is assumed of clients, edits, stalls, exits and restarts.
`MirrorsCatchUpWhenQuiet` exempts a loop that has stalled (`MCServeStall` shows that this is
needed) and assumes in its statement that the channel is empty from some time on; `MCServeBusy`
shows that this cannot be dropped, even with strong fairness of the tick (`GenerousSpec`).

`ControlPlane`: weak fairness of a process that has started (its binding, its loop, its exit) and
of the accept thread and the readers. A response that is begun is written or lost (`Respond`,
`ResponseLost`), as its write has a timeout; which of the two is free. No process has to start,
crash, stall or leave and no client has to give up. `WaitEnds` exempts by name the clients of a
stalled loop and those whose response was lost (`LeftWaiting`): only they depend on their
own timeout.

`Desktop` states safety only. That a frame is answered at all rests on the ten seconds of
the HTTP agent, which `Unreachable` may stand for at any time.

## 6. What is proved

Every safety invariant, action property and refinement of a run that passes is a theorem, for
any value of the constants. The assumptions on constants are
the `ASSUME`s of the models, which TLC evaluates in every run, and where a theorem needs
more its statement says so. These theorems do, and TLC shows that each property fails without,
in the run or configuration named:

| Theorem | Hypothesis | Why it is the code's |
|---|---|---|
| those about ownership in `SocketProofs` | `Overlap = FALSE`: no start while another process binds or leaves | it is not enforced, an operator has to see to it; without it the code breaks `OwnerReachable` in `control_overlap`'s way and `ExitKeepsOthers` in `MCControlPlaneGuard` |
| `WaitsAreKept` | `HalfClosers = {}` | figmog's own commands keep both directions open; `MCControlPlaneHalfClose` |
| `PollsApart` | no backoff and no Retry-After below the floor | `BACKOFF_START` is 5 s and the floor 2 s; a Retry-After may be less: `MCServeFloor` |
| `PollShowsWrites` | `OtherFiles = 0` | with more files the poll may be another's: `MCDesktopTurns` |
| `NoOwnLock` | with `--db` a FILE is given, and it is the file of that store | serve takes the key on trust: `MCRoutingLock` |
| `ReadsAreFree` | a FILE given with `--db` is the file of that store | as above; with `db = a` and `files = <<b>>` a read of `b` is answered from a pull into `a` |

### Mirror

| Theorem | Says |
|---|---|
| `TypeCorrect`, `Invariance` | `TypeOK` and the inductive invariant `IInv` |
| `Consistency` | `SnapshotConsistent`: every directory holds one version whole, or nothing |
| `GeometryStaysOn` | `GeometrySticky`: only a wipe takes the geometry flag back |
| `ServeInvariance`, `ServeAdvances` | `ServeNeverRegresses`: serve never replaces a version by an older one |
| `HitsAreNotOlder` | `HitNotOlder`: a cache hit is not older than the mirror |
| `NoneLeftStale` | `NoStaleRowKept`: without crashes no row of an older version stays |
| `ExportsStayWhole`, `ImportsStay` | `ExportWhole`, `ImportSurvives` |
| `CountsAddUp` | `ChurnBalances` |
| `Refinement` | `ImplementsAtomicMirror` |

The first lemmas are about the store's operations: what `Flattened` returns, that every operation keeps
contents well formed, and `SyncInstalls`: a sync whose sweep set covers what is stored
leaves exactly the records of its version. `SnapshotConsistent` is not inductive, as a sync
is right only if the sweep set read in an earlier transaction still covers what is stored. So:

1. `TypeInv`: types, what has been fetched is a version the file has had, and
   serve is never on the command line's path (`TypeInvNext`, one step per action).
2. `LockInv`: two processes that hold a store hold different directories, and
   nothing is stored in a directory that does not exist yet. `ActorStep` says once what a
   step of one process leaves alone of the others.
3. `SweepCurrent`: while a process is about to sync, its sweep set covers the
   nodes of its directory; nobody else writes it, by 2 (`HeldByOthers`).
4. `StepReplaces`: every step leaves the nodes of a directory alone, empties it,
   or replaces them by one version whole (`SyncInstalls` with 3). Hence `SnapInv`.
5. `ServeInv`: the flag serve requested covers the stored one, stored versions
   are published ones, and what serve has fetched is not older than what it holds. These
   give the two action properties; both fail for the command line, which
   fetches before it has the lock.
6. `RowInv`: a row, stored or on its way, shows a version not older than its tag. Only the
   comparison of tags at a hit makes that enough, as rows outlive crashes.
7. `PullSees` and `RowsFit`: a pull knows the version it replaces, and rows of another version
   exist only while that pull has still to evict. `SweepVars` is 3 for variables.
8. `AtomicStep`: by 1-4 every step is a step of `AtomicMirror` or stutters on it.

`CountsAddUp` needs that a file has finitely many ids, which `StoreAssumption` says.

### Serve

`TypeCorrect`; `BooksKept` (`BooksMatchStores`, inductive with types alone, as a step either
ends a pull or begins one); `OnePull` (`OnePullPerCall`: a pull by `figmog_sync` is begun only
by a call whose resolve did not pull); `RetriesKept` (`RetryAfterKept`, by `RetryInv`: as
long as nobody overwrote it, the deadline is at least what is left of the latest Retry-After);
`PollsApart` (`PollsSpaced`, by `SpacedInv`: the deadline covers what is missing to
the floor, unless a write has moved it).

### Control plane, frames

| Theorem | Says |
|---|---|
| `TypeCorrect` | `TypeOK` |
| `RequestsOnce` | `CarriedOutOnce`: crashes, time-outs and overlapping starts included |
| `WaitsAreKept` | `NoLostResponse` |
| `OrderlyExitsUnlink` | `CleanExitUnlinks`: overlapping starts included |
| `Ownership`, `OwnerStaysReachable`, `LeaversRemoveTheirOwn` | `OwnInv`, and from it `OwnerReachable`, `ExitKeepsOthers` |

That one process serves a root (`OneServe`) is not proved: it is false of the code, by the overlapping
starts it would have to exclude. The three ownership theorems are about what comes later: crashes,
leftover files, and a process that leaves while its successor starts or runs.

`OwnInv`: one process at most is in `bind_socket` (`OneBinder`), so between its unlink and
its bind the path is free (`BindsFree`) and what it unlinks belongs to a dead process
(`UnlinksDead`); a guard names its own process (`GuardsOwn`); and nobody is at bind(2)
while another process removes its file (`NoRival`), which holds because `Unlink` fails when
the file is already gone. `CleanExitUnlinks` needs none of that: a process whose guard is of
another's file has lost its own for good (`FileGuarded`), whoever it then unlinks. `ReqInv`: a request that is in a channel is there once, in the
channel of the process its client reached, and has not been carried out (`QueuedOnce`, `NotYet`).

Of `Frames` there are `ReaderTyped`, `WholeLinesForwarded` (`FramesAreLines`) and
`OnlyBadLinesCut` (`OnlyBadLinesRefused`), for any stream, cap and buffer. The invariant compares what serve holds
with the lines of the prefix it has consumed, `Split(sent)[Taken]`: every line but the last
is a frame, and the bytes kept are the last (`InStep`), or the connection was cut over
that last line (`Cut`). The lemmas say what a longer prefix does to the lines:
`PartLines` (bytes without a newline), `LineRead` (up to a newline), `Persists` (ended lines stay).

### Images

`BytesAreOwn`, `TableHasAnswers`, `PaidOnce`, `RelayKeepsFiles` and `TypeCorrect`, from one
invariant, `AnswerInv`: which items a request asks for (`Asked`), that bytes answered and bytes
filed are of an item filed alike (`Own`, `RowsOwn`), what each stage of resolve has left to do
(`Staged`), and that what is answered is in the table and what was paid for stays in it while the
version lasts (`InTable`, `Paid`). Two scales that round to one thousandth are filed alike, and
nothing tells them apart afterwards: that an item never gets the other's bytes (`ExactBytes`) is
false of the code and not proved. Within one request, which has one scale, no two items are filed
alike (`FiledApart`). Collisions of the hash are not excluded: `TableHasAnswers` and `PaidOnce` hold
for an item that has its key for itself, `BytesAreOwn` for all. What the loops return comes from
`ChosenRounds` and `NormalizeRounds`, which unfold `FoldLeft`.

### The document tree

| Theorem | Says |
|---|---|
| `TypeCorrect`, `Invariance` | `TypeOK` and the inductive invariant `IInv` |
| `OutlinesAreTheFiles` | `TreeFaithful` |
| `ScopesAreTheFiles` | `ScopesAgree` |
| `SearchesFillLimit` | `SearchFillsLimit` |
| `ReferencesAreFound` | `ReferencesFound` |
| `ScansAgreeAlways` | `ScansAgree` |

`IInv` says of the file that it is a tree (`Forest`: no node in two places; `Rooted`: what is
not live has no kids), of the store that every index is exactly what the records contribute
(`IndexExact`), and of both that the records are the live nodes of the file as last pulled
and say what each is and where it lies (`Mirrors`). None of the five properties is inductive
without it: a pull upserts over whatever the earlier pulls left. The argument:

1. Edits leave a tree: `CreateShaped`, `DeleteShaped`, `MoveShaped`, `RestyleShaped`. That a
   move does not put a node below itself is the guard of `Move`; Figma's editor has it too.
2. `ReachLeast`: a search in rounds finds the least set closed under its steps. Each round but
   the last finds an id more, so as many rounds as there are ids are enough.
3. `Walked`: flatten's walk pushes one record for every live node and none for another, and
   a record names the parent, the place and the page. `WalkInv` is the invariant of its loop:
   whatever is called for is the kid of one node that has been pushed.
4. `Upserted`, `Retracted`: both keep every index exact, as what a record contributes is told by
   its id from what others do (`OldEntries`). `SyncedTables`: after a sync the table has the
   records it was given, whatever it had before.
5. `KidsFaithful`: the edges of a node, sorted by their places, are its kids in the designer's
   order (`InOrderOf`). Hence outlines; `PagesListed` is the same for the pages.
6. `ScopedBelow`: the children index reaches the descendants. `Climbed`: the way up ends at the
   document, as it cannot stay among the same nodes (`NoLoop`); `UpIsBelow`: a node is below
   those on its way up and below no other. `PagesOf`, `PageIsScope`: the page a record
   carries is the one it lies below. Hence `ScopesAgree`, and the counts per page.
7. `FoundInstances`, `FoundStyled`, `FoundBound`: a lookup of an index finds the nodes that have
   the reference. Hence `ReferencesFound` and `ScansAgree`.

`TreeAssumption` and `DesignAssumption` ask of the constants what Figma guarantees of ids and
keys: that document, pages and layers differ, that a type names one kind, that keys are unique
and no component's id, that styles and variables have different ids.

### Routing

`CurrentAnswers` (`AnswersForCurrent`) rests on `Framed`: a frame under way says what its
client asked and which file was current then. `ReadsAreFree` (`MirroredReadsAreFree`) adds
`Keyed`: a session that goes by a file's key is over that file's store. `NoOwnLock`
(`NoSelfLock`) rests on `Named`, the same of every session.

### Desktop

| Theorem | Says |
|---|---|
| `TypeCorrect` | `TypeOK` |
| `AnswersReachClient` | `AnswersArrive` |
| `AttachedIsWhole` | `HandshakeWhole` |
| `KeepsPromise` | `ImplementsToolCalls` |
| `PollShowsWrites` | `WritesSeenAfterPoll` |

`AnswersReachClient` says when a client gets the app's result: exactly if it is the last JSON message
of a body that arrived whole (`OutcomeOfBody`). A notification after it costs the answer.
`OnceInv`: a request on the wire or in `late` is of a frame that has not been carried out, and
there is no second one of it. `HandInv` adds what the session of each stage of the handshake is
known to be. `AnsweredInv` adds `RowsFiled`: a row is the app's successful answer to
the call it is filed under, whatever else has the same hash. With it every step is one
of `ToolCalls` or a stutter (`StepRefines`). `VersionInv` adds the versions: what a row of the
mirror's version shows was read at that version or later (`Fresh`).

### How induction is done, and what stays with TLC

The induction theorems of the library take an operator as a parameter, which the provers
cannot instantiate. `FoldLemmas` goes around them: that `<` is well founded on Nat is a theorem
without a parameter, so every set of numbers has a least element (`LeastOfSome`), a set closed
under successor is Nat (`AllNumbers`), and what `FoldLeft` iterates exists (`FoldExists`).
What has to hold of every number is then a set of numbers.

A function that is defined by recursion over a range of numbers is handled alike: that it
exists is `RoundsExist`, and what holds of each of its values is again a set of numbers
(`ReachRounds`, `WalkRounds`, `ClimbRounds`, `ChosenRounds`).

Only model-checked: liveness (`MirrorsCatchUpWhenQuiet`, `WaitEnds`), which is out of the
prover's reach, and the violations of section 3, which are counterexamples.

## 7. What is not modelled

- `ident.rs`: string parsing; which file a reference names is an input of `Routing`.
- The HTTP part of `api.rs`. Requests succeed, fail, are rate limited or are never
  answered, and that is all the models see.
- `cli/read.rs`, `main.rs`, `lib.rs`: arguments and module declarations.
- `query.rs`' get and at, which look one record up or filter by geometry, and the
  annotation of `--resolve-vars`; names, bounds and text content of a node; the modes and
  values of imported variables.
- `dispatch.rs`' argument schemas; JSON-RPC ids and the wording of errors in `mcp.rs`.
- The desktop app beyond what a client can observe: it serves requests one at a time, never
  repeats one, and what it has been given late it either serves or loses. A handshake request
  given up on is not served later, as it would open a session that nobody uses. A write of the
  app is at api.figma.com at once; if it took longer, the poll it triggers could miss it and
  the next one would not.
- Whether `last_touched_at` and `lastModified` of Figma's two endpoints agree: the
  models have one version for both.
- Threads inside fjall: a write transaction is atomic and durable, as fold promises.

## 8. What is left

Every part with state is modelled, and what the runs check of safety is proved. Open is a
composition of `Serve` with `ControlPlane`, for the answers of calls across exits.
