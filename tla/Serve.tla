------------------------------- MODULE Serve --------------------------------
(***************************************************************************)
(* One `figmog serve` process: its sessions, its poll loop and its tool    *)
(* calls (serve.rs, sessions.rs, watch.rs).                                *)
(*                                                                         *)
(* The loop is single-threaded: between two iterations it waits for a      *)
(* message or for next_deadline.  A pull takes place inside an iteration,  *)
(* but the file may change while it is under way, so it is a task begun by *)
(* one step and ended by another.  A mirror is reduced to the version it   *)
(* holds, which one step replaces: the promise AtomicMirror states and     *)
(* Mirror keeps.                                                           *)
(*                                                                         *)
(* Time is counted in units.  Durations and the timers left to run are     *)
(* numbers; a timer at 0 has expired.                                      *)
(***************************************************************************)
EXTENDS Naturals, Sequences, FiniteSetsExt

CONSTANTS
    Keys,          \* Figma file keys
    StartFiles,    \* the FILE arguments a start may have, in order
    None,          \* no key, no version
    Watch,         \* FALSE under --no-watch
    Upstream,      \* a desktop server answered the startup probe
    Interval,      \* --interval, clamped
    MinTick,       \* MIN_TICK_DEADLINE
    BackoffStart, BackoffCap,
    RetryAfters,   \* the Retry-After values the API answers with
    MaxVersion,    \* bound on the edits of a file
    MaxFaults,     \* bound on the failed API requests
    MaxInbox       \* clients, each with one request outstanding at most

Versions == 0..MaxVersion

ASSUME ServeAssumption ==
    /\ StartFiles \subseteq Seq(Keys) /\ StartFiles # {}
    /\ {Watch, Upstream} \subseteq BOOLEAN
    /\ {Interval, MinTick, BackoffStart, BackoffCap,
        MaxVersion, MaxFaults, MaxInbox} \subseteq Nat
    /\ RetryAfters \subseteq Nat
    /\ BackoffStart <= BackoffCap
    /\ None \notin Keys \cup Nat

VARIABLES
    cloud,        \* the version of each file at api.figma.com
    stored,       \* the version each mirror holds, None when empty
    sessions,     \* SessionManager.sessions, the keys in open order
    default,      \* SessionManager.default_key
    session,      \* per key: last_seen, the two backoffs, mirrored
    phase,        \* "startup", "serving", "stuck" for good, or "exited"
    todo,         \* the startup files not opened yet
    nextIdx,      \* next_session_idx
    due,          \* time left until next_deadline
    task,         \* the pull under way
    inbox,        \* messages in the channel
    current,      \* .figmog/current
    asked,        \* per key: time left of the last Retry-After
    since,        \* time since the last watch poll, up to MinTick; as good as
                  \* MinTick once a write has asked for the next one
    overwritten,  \* with a Retry-After running, a call has set next_deadline
    faults        \* failed requests so far

vars == <<cloud, stored, sessions, default, session, phase, todo, nextIdx,
          due, task, inbox, current, asked, since, overwritten, faults>>

FileSession == [seen: Versions \cup {None}, pollBackoff: Nat,
                pullBackoff: Nat, mirrored: BOOLEAN]

\* A pull: which call site began it, whether a figmog_sync is behind an
\* auto-open, and how many pulls its tool call has begun.
Kinds == {"startup", "watch", "open", "auto", "sync"}
Tasks == [kind: Kinds, key: Keys, sync: BOOLEAN, spent: 1..2]
NoTask == [kind |-> "none", key |-> None, sync |-> FALSE, spent |-> 0]
Task(kind, k, sync, spent) ==
    [kind |-> kind, key |-> k, sync |-> sync, spent |-> spent]

Opened == {sessions[i] : i \in 1..Len(sessions)}
OpenedOnce == \A i, j \in 1..Len(sessions) : sessions[i] = sessions[j] => i = j

TypeOK ==
    /\ cloud \in [Keys -> Versions]
    /\ stored \in [Keys -> Versions \cup {None}]
    /\ sessions \in Seq(Keys) /\ OpenedOnce
    /\ default \in Opened \cup {None}
    /\ session \in [Keys -> FileSession]
    /\ phase \in {"startup", "serving", "stuck", "exited"}
    /\ todo \in Seq(Keys)
    /\ nextIdx \in Nat
    /\ due \in Nat
    /\ task \in Tasks \cup {NoTask}
    /\ inbox \in 0..MaxInbox
    /\ current \in Keys \cup {None}
    /\ asked \in [Keys -> Nat]
    /\ since \in 0..MinTick /\ overwritten \in BOOLEAN
    /\ faults \in 0..MaxFaults

-----------------------------------------------------------------------------
(* Helpers of the code *)

\* Mutant: no floor.
TickDeadlineUnfloored(n) == IF n = 0 THEN Interval ELSE Interval \div n

\* The full interval split evenly over the sessions, floored.
TickDeadline(n) ==
    IF n = 0 THEN Interval ELSE Max({Interval \div n, MinTick})

Doubled(backoff) == Min({backoff * 2, BackoffCap})

\* A session over a store that holds `version`: Watcher::new(watermark), both
\* backoffs at their start.  open_session_at and note_pull_success build it.
NewSession(version) ==
    [seen |-> version, pollBackoff |-> BackoffStart,
     pullBackoff |-> BackoffStart, mirrored |-> version # None]

\* default_key if one was set, else the only session.
EffectiveDefault ==
    IF default # None THEN default
    ELSE IF Len(sessions) = 1 THEN sessions[1] ELSE None

\* The session whose proxy_cache a proxied call reads and writes.
ProxyCacheSession == IF sessions = <<>> THEN None ELSE sessions[1]

\* SessionManager::open: get or create, deduplicated by key; never pulls.
Open(k) ==
    IF k \in Opened THEN UNCHANGED <<sessions, session>>
    ELSE /\ sessions' = Append(sessions, k)
         /\ session' = [session EXCEPT ![k] = NewSession(stored[k])]

\* Whether the session of k, opened if need be, has a mirror to read.
Mirrored(k) == IF k \in Opened THEN session[k].mirrored ELSE stored[k] # None

\* refresh_current: only for the default session.
RefreshCurrent(k) == current' = IF EffectiveDefault = k THEN k ELSE current

\* History: a file has answered with a Retry-After that is not over.
Refused == \E k \in Keys : asked[k] > 0

Fault == faults < MaxFaults /\ faults' = faults + 1

-----------------------------------------------------------------------------
(* Startup: build_sessions *)

\* Mirrors of earlier runs may be on disk.
Init ==
    /\ cloud = [k \in Keys |-> 0]
    /\ stored \in [Keys -> {0, None}]
    /\ sessions = <<>>
    /\ default = None
    /\ session = [k \in Keys |-> NewSession(None)]
    /\ phase = "startup"
    /\ todo \in StartFiles
    /\ nextIdx = 0
    /\ due = 0
    /\ task = NoTask
    /\ inbox = 0
    /\ asked = [k \in Keys |-> 0]
    /\ since = MinTick /\ overwritten = FALSE
    /\ current = None
    /\ faults = 0

\* Open the next startup file; under watch, pull it unless it is mirrored.
\* The first file becomes the default.
StartFile ==
    /\ phase = "startup" /\ task = NoTask /\ todo # <<>>
    /\ LET k == Head(todo)
       IN  /\ Open(k)
           /\ default' = IF default = None THEN k ELSE default
           /\ task' = IF Watch /\ ~Mirrored(k) THEN Task("startup", k, FALSE, 1)
                                               ELSE NoTask
    /\ todo' = Tail(todo)
    /\ UNCHANGED <<cloud, stored, phase, nextIdx, due, inbox, current, asked,
                   since, overwritten, faults>>

StartLoop ==
    /\ phase = "startup" /\ task = NoTask /\ todo = <<>>
    /\ phase' = "serving"
    /\ due' = TickDeadline(Len(sessions))
    /\ UNCHANGED <<cloud, stored, sessions, default, session, todo, nextIdx,
                   task, inbox, current, asked, since, overwritten, faults>>

\* A request to the API that is never answered, as no read of UreqApi has a
\* timeout, or an answer to a call on a stdout that nobody reads.
Stall ==
    /\ phase \in {"startup", "serving"}
    /\ phase' = "stuck"
    /\ UNCHANGED <<cloud, stored, sessions, default, session, todo, nextIdx, due,
                   task, inbox, current, asked, since, overwritten, faults>>

\* Stdin closes, a startup pull fails, or the process is killed.
Exit ==
    /\ phase # "exited"
    /\ phase' = "exited"
    /\ task' = NoTask
    /\ UNCHANGED <<cloud, stored, sessions, default, session, todo, nextIdx,
                   due, inbox, current, asked, since, overwritten, faults>>

Restart ==
    /\ phase = "exited"
    /\ sessions' = <<>>
    /\ default' = None
    /\ session' = [k \in Keys |-> NewSession(None)]
    /\ phase' = "startup"
    /\ todo' \in StartFiles
    /\ nextIdx' = 0
    /\ due' = 0
    /\ task' = NoTask
    /\ inbox' = 0
    /\ asked' = [k \in Keys |-> 0]
    /\ since' = MinTick /\ overwritten' = FALSE
    /\ UNCHANGED <<cloud, stored, current, faults>>

-----------------------------------------------------------------------------
(* The pull under way: do_pull, then what its call site does with the result *)

\* Only the watch tick moves next_deadline on success; an auto-open for a
\* read does not refresh .figmog/current, every other call site does.
AfterSuccess(t) ==
    /\ IF t.kind = "watch" THEN due' = TickDeadline(Len(sessions)) ELSE UNCHANGED due
    /\ IF t.kind = "auto" /\ ~t.sync THEN UNCHANGED current ELSE RefreshCurrent(t.key)

\* Mutant: the just-pulled guard is dropped.
SyncAlwaysPulls(justPulled) == TRUE

\* figmog_sync pulls unless resolve has just pulled for the same call.
SyncPulls(justPulled) == ~justPulled

Pulling == task # NoTask /\ phase # "stuck"

PullOk ==
    /\ Pulling
    /\ LET k == task.key
       IN  /\ stored' = [stored EXCEPT ![k] = cloud[k]]
           /\ session' = [session EXCEPT ![k] = NewSession(cloud[k])]
    /\ AfterSuccess(task)
    /\ task' = IF task.kind = "auto" /\ task.sync /\ SyncPulls(TRUE)
               THEN Task("sync", task.key, FALSE, task.spent + 1) ELSE NoTask
    /\ UNCHANGED <<cloud, sessions, default, phase, todo, nextIdx, inbox,
                   asked, since, overwritten, faults>>

\* Mutants: the watcher is not reseeded; .figmog/current is written first.
PullFailedUnseeded(k, wait, backoff) ==
    /\ Fault
    /\ session' = [session EXCEPT ![k].pullBackoff = backoff]
    /\ IF task.kind = "startup" THEN phase' = "exited" /\ UNCHANGED due
                                ELSE due' = wait /\ UNCHANGED phase
    /\ overwritten' = (overwritten \/ (task.kind # "watch" /\ Refused))
    /\ task' = NoTask
    /\ UNCHANGED <<cloud, stored, sessions, default, todo, nextIdx, inbox,
                   current, since>>

PullFailedNamed(k, wait, backoff) ==
    /\ Fault
    /\ RefreshCurrent(k)
    /\ session' = [session EXCEPT ![k].seen = stored[k],
                                  ![k].pollBackoff = BackoffStart,
                                  ![k].pullBackoff = backoff]
    /\ IF task.kind = "startup" THEN phase' = "exited" /\ UNCHANGED due
                                ELSE due' = wait /\ UNCHANGED phase
    /\ overwritten' = (overwritten \/ (task.kind # "watch" /\ Refused))
    /\ task' = NoTask
    /\ UNCHANGED <<cloud, stored, sessions, default, todo, nextIdx, inbox, since>>

\* do_pull's failure arm: the watcher is reseeded from the store.  A failed
\* startup pull ends the process, any other pushes next_deadline.
PullFailed(k, wait, backoff) ==
    /\ Fault
    /\ session' = [session EXCEPT ![k].seen = stored[k],
                                  ![k].pollBackoff = BackoffStart,
                                  ![k].pullBackoff = backoff]
    /\ IF task.kind = "startup" THEN phase' = "exited" /\ UNCHANGED due
                                ELSE due' = wait /\ UNCHANGED phase
    /\ overwritten' = (overwritten \/ (task.kind # "watch" /\ Refused))
    /\ task' = NoTask
    /\ UNCHANGED <<cloud, stored, sessions, default, todo, nextIdx, inbox,
                   current, since>>

\* pull_failure_wait, rate limited: at least the interval; no backoff.
PullRateLimited(r) ==
    /\ Pulling
    /\ PullFailed(task.key, Max({Interval, r}), session[task.key].pullBackoff)
    /\ asked' = [asked EXCEPT ![task.key] = r]

\* pull_failure_wait, anything else: exponential.
PullError ==
    /\ Pulling
    /\ LET backoff == session[task.key].pullBackoff
       IN  PullFailed(task.key, backoff, Doubled(backoff))
    /\ UNCHANGED asked

-----------------------------------------------------------------------------
(* The loop.  recv_timeout hands out a message whenever there is one, so a   *)
(* watch tick takes place only at an expired deadline with an empty channel. *)

TickDue == phase = "serving" /\ Watch /\ task = NoTask /\ inbox = 0 /\ due = 0

Polled == sessions[(nextIdx % Len(sessions)) + 1]

IdleTick ==
    /\ TickDue /\ sessions = <<>>
    /\ due' = Interval
    /\ UNCHANGED <<cloud, stored, sessions, default, session, phase, todo,
                   nextIdx, task, inbox, current, asked, since, overwritten, faults>>

\* Round robin: the next session is polled whatever this poll answers.
Poll ==
    /\ TickDue /\ sessions # <<>>
    /\ nextIdx' = (nextIdx + 1) % Len(sessions)
    /\ since' = 0
    /\ UNCHANGED <<cloud, stored, sessions, default, phase, todo, inbox, current,
                   overwritten>>

PollUnchanged ==
    /\ Poll
    /\ session[Polled].seen = cloud[Polled]
    /\ session' = [session EXCEPT ![Polled].pollBackoff = BackoffStart]
    /\ due' = TickDeadline(Len(sessions))
    /\ UNCHANGED <<task, asked, faults>>

\* The new watermark is absorbed before the pull that it calls for.
PollChanged ==
    /\ Poll
    /\ session[Polled].seen # cloud[Polled]
    /\ session' = [session EXCEPT ![Polled].pollBackoff = BackoffStart,
                                  ![Polled].seen = cloud[Polled]]
    /\ task' = Task("watch", Polled, FALSE, 1)
    /\ UNCHANGED <<due, asked, faults>>

\* Mutant: the refusal is answered like any other poll.
PollRetried(r) ==
    /\ Poll
    /\ Fault
    /\ due' = TickDeadline(Len(sessions))
    /\ asked' = [asked EXCEPT ![Polled] = r]
    /\ UNCHANGED <<session, task>>

PollRateLimited(r) ==
    /\ Poll
    /\ Fault
    /\ due' = r
    /\ asked' = [asked EXCEPT ![Polled] = r]
    /\ UNCHANGED <<session, task>>

PollError ==
    /\ Poll
    /\ Fault
    /\ due' = session[Polled].pollBackoff
    /\ session' = [session EXCEPT ![Polled].pollBackoff = Doubled(@)]
    /\ UNCHANGED <<task, asked>>

-----------------------------------------------------------------------------
(* Messages: stdin or the control socket puts one in, handle_tool_call       *)
(* answers it.                                                               *)

Arrive ==
    /\ phase = "serving" /\ inbox < MaxInbox
    /\ inbox' = inbox + 1
    /\ UNCHANGED <<cloud, stored, sessions, default, session, phase, todo,
                   nextIdx, due, task, current, asked, since, overwritten, faults>>

Receive ==
    /\ phase = "serving" /\ task = NoTask /\ inbox > 0
    /\ inbox' = inbox - 1
    /\ UNCHANGED <<cloud, stored, default, phase, todo, nextIdx, current,
                   asked, faults>>

\* figmog_files, tools/list, initialize, a read of the default file or of a
\* mirrored one already open, a proxied read: nothing here changes.
CallNoEffect ==
    /\ Receive
    /\ UNCHANGED <<sessions, session, due, task, since, overwritten>>

\* figmog_open: open, then always pull.
CallOpen(k) ==
    /\ Receive
    /\ Open(k)
    /\ task' = Task("open", k, FALSE, 1)
    /\ UNCHANGED <<due, since, overwritten>>

\* A local tool with an explicit `file`, or a node URL that names one:
\* resolve opens it, and pulls it if it has never been mirrored.
CallExplicit(k, sync) ==
    /\ Receive
    /\ Open(k)
    /\ task' = IF ~Mirrored(k) THEN Task("auto", k, sync, 1)
               ELSE IF sync /\ SyncPulls(FALSE) THEN Task("sync", k, FALSE, 1)
               ELSE NoTask
    /\ UNCHANGED <<due, since, overwritten>>

\* figmog_sync of the default file.
CallSyncDefault ==
    /\ Receive
    /\ EffectiveDefault # None
    /\ task' = Task("sync", EffectiveDefault, FALSE, 1)
    /\ UNCHANGED <<sessions, session, due, since, overwritten>>

\* A proxied call that is not get_* or list_* succeeded: poll at once.
CallProxiedWrite ==
    /\ Receive
    /\ Upstream /\ Watch /\ sessions # <<>>
    /\ due' = 0
    /\ since' = MinTick
    /\ overwritten' = (overwritten \/ Refused)
    /\ UNCHANGED <<sessions, session, task>>

-----------------------------------------------------------------------------
(* The environment *)

Edit(k) ==
    /\ cloud[k] < MaxVersion
    /\ cloud' = [cloud EXCEPT ![k] = @ + 1]
    /\ UNCHANGED <<stored, sessions, default, session, phase, todo, nextIdx,
                   due, task, inbox, current, asked, since, overwritten, faults>>

Less(t) == IF t = 0 THEN 0 ELSE t - 1

Elapse ==
    /\ phase = "serving"
    /\ due' = Less(due)
    /\ asked' = [k \in Keys |-> Less(asked[k])]
    /\ since' = Min({since + 1, MinTick})
    /\ overwritten' = (overwritten /\ \E k \in Keys : asked[k] > 1)
    /\ UNCHANGED <<cloud, stored, sessions, default, session, phase, todo,
                   nextIdx, task, inbox, current, faults>>

-----------------------------------------------------------------------------
Startup == StartFile \/ StartLoop

PullEnds == PullOk \/ PullError \/ \E r \in RetryAfters : PullRateLimited(r)

WatchTick ==
    \/ IdleTick \/ PollUnchanged \/ PollChanged \/ PollError
    \/ \E r \in RetryAfters : PollRateLimited(r)

HandleMessage ==
    \/ CallNoEffect \/ CallSyncDefault \/ CallProxiedWrite
    \/ \E k \in Keys : CallOpen(k) \/ \E sync \in BOOLEAN : CallExplicit(k, sync)

Next ==
    \/ Startup \/ PullEnds \/ WatchTick \/ HandleMessage
    \/ Stall \/ Exit \/ Restart
    \/ Arrive \/ Elapse \/ \E k \in Keys : Edit(k)

Spec == Init /\ [][Next]_vars

\* The one thread of the loop goes on, unless it stalls, and time passes: a
\* request to the API that does not end is a Stall.  Nothing is assumed of
\* stalls, of clients, of edits, or of exits.
Fairness ==
    /\ WF_vars(Startup \/ PullEnds \/ WatchTick \/ HandleMessage)
    /\ WF_vars(Elapse)

FairSpec == Spec /\ Fairness

\* The tick's own share of the loop, more than the code gives it.
GenerousSpec == FairSpec /\ SF_vars(WatchTick)

-----------------------------------------------------------------------------
(* Properties *)

\* What serve remembers agrees with the stores: between pulls, what a watcher
\* last saw is what its mirror holds, a session counts as mirrored exactly when
\* its store has something, and .figmog/current names a mirror.  So no change
\* is absorbed without being pulled, and no command is sent to nothing, after
\* any failure at any call site (do_pull, note_pull_success, refresh_current).
BooksMatchStores ==
    /\ phase # "exited" => \A k \in Opened :
          /\ session[k].mirrored <=> stored[k] # None
          /\ session[k].seen = stored[k] \/ (task.key = k /\ task.kind = "watch")
    /\ current # None => stored[current] # None

\* No tool call spends two Tier-1 pulls: a figmog_sync whose auto-open has
\* pulled does not pull again (handle_tool_call).
OnePullPerCall == task.spent <= 1

WatchPoll == PollUnchanged \/ PollChanged \/ PollError
             \/ \E r \in RetryAfters : PollRateLimited(r)

\* The watch loop does not ask again for a file before the Retry-After of
\* that file's last refusal is over (handle_tool_call, pull_failure_wait).
RetryAfterHonored == [][WatchPoll => asked[Polled] = 0]_vars

\* Nothing but a tool call that fails to pull, or a proxied write, makes the
\* watch loop ask again for a file before its Retry-After is over: neither the
\* other files' polls nor their number do (watch_tick, tick_deadline).
RetryAfterKept == [][WatchPoll => asked[Polled] = 0 \/ overwritten]_vars

\* Two watch polls are at least MIN_TICK_DEADLINE apart, however many files
\* are mirrored and whatever calls fail, but for one poll that each proxied
\* write buys (tick_deadline; SPEC 6: at most 30 Tier-3 requests/min).
PollsSpaced == [][WatchPoll => since = MinTick]_vars

CatchUpOr(phases) ==
    \A k \in Keys : (k \in Opened /\ phase = "serving" /\ stored[k] # cloud[k])
                    ~> (stored[k] = cloud[k] \/ phase \in phases)

\* The mirror of an open file reaches the file's version once edits and
\* failures stop (the bounds see to that), unless the loop stalls.
MirrorsCatchUp == CatchUpOr({"stuck", "exited"})

\* The same under the assumption that clients eventually pause.
MirrorsCatchUpWhenQuiet == <>[](inbox = 0) => MirrorsCatchUp

\* The same of a loop that may stall: it reaches it as long as the process runs.
RunningCatchesUp == CatchUpOr({"exited"})

\* A proxied call's cache is the default session's (SPEC 8, serve.rs).
ProxyCacheIsDefaults ==
    phase = "serving" /\ task = NoTask => ProxyCacheSession = EffectiveDefault

\* With no startup file and exactly one mirrored file, that one is the
\* default (sessions.rs: "the single mirrored file if exactly one exists").
SingleMirroredIsDefault ==
    \A k \in Opened :
        /\ phase = "serving" /\ task = NoTask /\ default = None
        /\ \A j \in Opened : session[j].mirrored <=> j = k
        => EffectiveDefault = k
=============================================================================
