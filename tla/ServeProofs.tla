----------------------------- MODULE ServeProofs -----------------------------
(***************************************************************************)
(* What holds for any number of files, any interval, any edits, failures   *)
(* and calls: the books serve keeps of its mirrors, the pulls a call may   *)
(* spend, and when the watch loop may poll again.                          *)
(***************************************************************************)
EXTENDS Serve, TLAPS

-----------------------------------------------------------------------------
(* Helpers *)

LEMMA ConstantTypes ==
    /\ Interval \in Nat /\ MinTick \in Nat
    /\ BackoffStart \in Nat /\ BackoffCap \in Nat /\ BackoffStart <= BackoffCap
    /\ MaxVersion \in Nat /\ MaxFaults \in Nat /\ MaxInbox \in Nat
    /\ RetryAfters \subseteq Nat
    /\ StartFiles \subseteq Seq(Keys)
    /\ None \notin Keys /\ None \notin Nat
BY ServeAssumption

LEMMA MaxOfTwo ==
    ASSUME NEW a \in Nat, NEW b \in Nat
    PROVE  /\ Max({a, b}) \in Nat
           /\ Max({a, b}) >= a /\ Max({a, b}) >= b
<1>1. \E x \in {a, b} : \A y \in {a, b} : x >= y
  OBVIOUS
<1>2. QED
  BY <1>1 DEF Max

LEMMA MinOfTwo ==
    ASSUME NEW a \in Nat, NEW b \in Nat
    PROVE  /\ Min({a, b}) \in {a, b} /\ Min({a, b}) \in Nat
           /\ Min({a, b}) <= a /\ Min({a, b}) <= b
<1>1. \E x \in {a, b} : \A y \in {a, b} : x =< y
  OBVIOUS
<1>2. QED
  BY <1>1 DEF Min

\* The interval split over the sessions is a time, and never below the floor.
LEMMA TickDeadlineFloored ==
    ASSUME NEW n \in Nat
    PROVE  /\ TickDeadline(n) \in Nat
           /\ n # 0 => TickDeadline(n) >= MinTick
<1>1. CASE n = 0
  BY <1>1, ConstantTypes DEF TickDeadline
<1>2. CASE n # 0
  <2>1. Interval \div n \in Nat
    BY <1>2, ConstantTypes
  <2>2. QED
    BY <1>2, <2>1, ConstantTypes, MaxOfTwo DEF TickDeadline
<1>3. QED
  BY <1>1, <1>2

LEMMA NextTick ==
    ASSUME TypeOK
    PROVE  /\ TickDeadline(Len(sessions)) \in Nat
           /\ sessions # <<>> => TickDeadline(Len(sessions)) >= MinTick
<1>1. Len(sessions) \in Nat /\ (sessions # <<>> => Len(sessions) # 0)
  BY DEF TypeOK
<1>2. QED
  BY <1>1, TickDeadlineFloored

LEMMA DoubledGrows ==
    ASSUME NEW backoff \in Nat
    PROVE  /\ Doubled(backoff) \in Nat
           /\ backoff >= BackoffStart => Doubled(backoff) >= BackoffStart
BY ConstantTypes, MinOfTwo DEF Doubled

\* A session over a store, as FileSession has it.
LEMMA NewSessionTyped ==
    ASSUME NEW version \in Versions \cup {None}
    PROVE  NewSession(version) \in FileSession
BY ConstantTypes DEF NewSession, FileSession, Versions

\* Opening a file adds it, once, and disturbs no other.
LEMMA OpenAdds ==
    ASSUME TypeOK, NEW k \in Keys, Open(k)
    PROVE  /\ sessions' \in Seq(Keys) /\ sessions' # <<>>
           /\ OpenedOnce'
           /\ session' \in [Keys -> FileSession]
           /\ Opened' = Opened \cup {k}
           /\ session' = IF k \in Opened THEN session
                         ELSE [session EXCEPT ![k] = NewSession(stored[k])]
<1>1. CASE k \in Opened
  BY <1>1 DEF Open, Opened, OpenedOnce, TypeOK
<1>2. CASE k \notin Opened
  <2>1. /\ sessions \in Seq(Keys)
        /\ sessions' = Append(sessions, k)
        /\ session' = [session EXCEPT ![k] = NewSession(stored[k])]
        /\ \A i \in 1..Len(sessions) : sessions[i] # k
    BY <1>2 DEF Open, Opened, TypeOK
  <2>2. /\ Len(sessions') = Len(sessions) + 1
        /\ sessions'[Len(sessions) + 1] = k
        /\ \A i \in 1..Len(sessions) : sessions'[i] = sessions[i]
        /\ sessions' \in Seq(Keys) /\ Len(sessions) \in Nat
    BY <2>1
  <2>3. OpenedOnce'
    BY <2>1, <2>2 DEF TypeOK, OpenedOnce
  <2>4. Opened' = Opened \cup {k}
    BY <2>2 DEF Opened
  <2>5. session' \in [Keys -> FileSession]
    BY <2>1, NewSessionTyped DEF TypeOK
  <2>6. QED
    BY <1>2, <2>1, <2>2, <2>3, <2>4, <2>5
<1>3. QED
  BY <1>1, <1>2

LEMMA SessionsKept ==
    ASSUME sessions' = sessions
    PROVE  Opened' = Opened /\ (OpenedOnce <=> OpenedOnce')
BY DEF Opened, OpenedOnce

\* The default, and the file polled next, are open files.
LEMMA DefaultOpen ==
    ASSUME TypeOK
    PROVE  EffectiveDefault \in Opened \cup {None}
BY DEF TypeOK, EffectiveDefault, Opened

LEMMA OpenedKeys == TypeOK => Opened \subseteq Keys
BY DEF TypeOK, Opened

LEMMA PolledOpen ==
    ASSUME TypeOK, sessions # <<>>
    PROVE  /\ Polled \in Opened /\ Polled \in Keys
           /\ Len(sessions) \in Nat \ {0}
           /\ (nextIdx + 1) % Len(sessions) \in Nat
<1>1. Len(sessions) \in Nat \ {0} /\ nextIdx \in Nat
  BY DEF TypeOK
<1>2. (nextIdx % Len(sessions)) + 1 \in 1..Len(sessions)
  BY <1>1
<1>3. (nextIdx + 1) % Len(sessions) \in Nat
  BY <1>1
<1>4. QED
  BY <1>1, <1>2, <1>3 DEF Polled, Opened, TypeOK

-----------------------------------------------------------------------------
(* Types *)

LEMMA TypesInit == Init => TypeOK
<1> SUFFICES ASSUME Init PROVE TypeOK
  OBVIOUS
<1>1. session \in [Keys -> FileSession]
  BY NewSessionTyped DEF Init
<1>2. overwritten \in BOOLEAN
  BY Zenon DEF Init
<1>3. QED
  BY <1>1, <1>2, ConstantTypes DEF Init, TypeOK, Versions, Opened, OpenedOnce

LEMMA OverwrittenNext ==
    ASSUME overwritten \in BOOLEAN, [Next]_vars
    PROVE  overwritten' \in BOOLEAN
<1>1. \/ overwritten' = overwritten
      \/ overwritten' = FALSE
      \/ overwritten' = (overwritten \/ (task.kind # "watch" /\ Refused))
      \/ overwritten' = (overwritten \/ Refused)
      \/ overwritten' = (overwritten /\ \E k \in Keys : asked[k] > 1)
  BY DEF Next, vars, Startup, PullEnds, WatchTick, HandleMessage, StartFile,
         StartLoop, Stall, Exit, Restart, PullOk, PullError, PullRateLimited, PullFailed,
         IdleTick, PollUnchanged, PollChanged, PollError, PollRateLimited, Poll,
         CallNoEffect, CallSyncDefault, CallProxiedWrite, CallOpen, CallExplicit,
         Arrive, Elapse, Edit
<1>2. QED
  BY <1>1, Zenon

\* A pull task that a step begins.
LEMMA TaskTyped ==
    ASSUME NEW kind \in Kinds, NEW k \in Keys, NEW sync \in BOOLEAN
    PROVE  Task(kind, k, sync, 1) \in Tasks /\ Task(kind, k, FALSE, 1) \in Tasks
<1>1. FALSE \in BOOLEAN /\ 1 \in 1..2
  OBVIOUS
<1>2. QED
  BY <1>1, Zenon DEF Task, Tasks

\* The bounded counters.
LEMMA CountersTyped ==
    ASSUME faults \in 0..MaxFaults, since \in 0..MinTick
    PROVE  /\ Fault => faults' \in 0..MaxFaults
           /\ Min({since + 1, MinTick}) \in 0..MinTick
<1>1. since + 1 \in Nat /\ MinTick \in Nat /\ MaxFaults \in Nat
  BY ConstantTypes
<1>2. Fault => faults' \in 0..MaxFaults
  BY <1>1 DEF Fault
<1>3. QED
  BY <1>1, <1>2, MinOfTwo

LEMMA TypesNext ==
    ASSUME TypeOK, [Next]_vars
    PROVE  TypeOK'
<1> USE ConstantTypes, SessionsKept
<1> USE DEF TypeOK
<1>o. overwritten' \in BOOLEAN
  BY OverwrittenNext
<1>1. CASE UNCHANGED vars
  BY <1>1 DEF vars
<1>2. CASE StartFile
  <2>1. Head(todo) \in Keys /\ Tail(todo) \in Seq(Keys) /\ Open(Head(todo))
    BY <1>2 DEF StartFile
  <2>2. task' \in Tasks \cup {NoTask}
    BY <1>2, <2>1, TaskTyped DEF StartFile, Kinds
  <2>3. /\ sessions' \in Seq(Keys) /\ OpenedOnce' /\ Opened' = Opened \cup {Head(todo)}
        /\ session' \in [Keys -> FileSession]
    BY <2>1, OpenAdds
  <2>4. default' \in Opened' \cup {None} /\ todo' \in Seq(Keys)
    BY <1>2, <2>1, <2>3 DEF StartFile
  <2>5. QED
    BY <1>2, <1>o, <2>2, <2>3, <2>4 DEF StartFile
<1>3. CASE StartLoop
  BY <1>3, NextTick DEF StartLoop
<1>4. CASE Stall \/ Exit
  BY <1>4 DEF Stall, Exit
<1>5. CASE Restart
  <2>1. session' \in [Keys -> FileSession]
    BY <1>5, NewSessionTyped DEF Restart
  <2>2. QED
    BY <1>5, <1>o, <2>1 DEF Restart, OpenedOnce
<1>6. CASE PullOk
  <2>1. task.key \in Keys /\ cloud[task.key] \in Versions
    BY <1>6 DEF PullOk, Tasks, Pulling
  <2>2. session' \in [Keys -> FileSession] /\ stored' \in [Keys -> Versions \cup {None}]
    BY <1>6, <2>1, NewSessionTyped DEF PullOk
  <2>3. task' = NoTask
    BY <1>6 DEF PullOk, SyncPulls
  <2>4. due' \in Nat /\ current' \in Keys \cup {None}
    BY <1>6, <2>1, NextTick DEF PullOk, AfterSuccess, RefreshCurrent
  <2>5. QED
    BY <1>6, <2>2, <2>3, <2>4 DEF PullOk
<1>7. ASSUME NEW k \in Keys, NEW wait \in Nat, NEW backoff \in Nat,
             task # NoTask, PullFailed(k, wait, backoff), asked' \in [Keys -> Nat]
      PROVE  TypeOK'
  <2>1. session' \in [Keys -> FileSession]
    <3>1. session[k] \in FileSession /\ stored[k] \in Versions \cup {None}
      OBVIOUS
    <3>2. QED
      BY <1>7, <3>1 DEF PullFailed, FileSession
  <2>2. faults' \in 0..MaxFaults
    BY <1>7, CountersTyped DEF PullFailed
  <2>3. due' \in Nat /\ phase' \in {"startup", "serving", "stuck", "exited"}
    BY <1>7 DEF PullFailed
  <2>4. QED
    BY <1>7, <1>o, <2>1, <2>2, <2>3 DEF PullFailed
<1>8. CASE PullError
  <2>1. task.key \in Keys /\ session[task.key].pullBackoff \in Nat
    BY <1>8 DEF PullError, Tasks, FileSession, Pulling
  <2>2. QED
    BY <1>7, <1>8, <2>1, DoubledGrows DEF PullError, Pulling
<1>9. ASSUME NEW r \in RetryAfters, PullRateLimited(r) PROVE TypeOK'
  <2>1. task.key \in Keys /\ session[task.key].pullBackoff \in Nat
    BY <1>9 DEF PullRateLimited, Tasks, FileSession, Pulling
  <2>2. QED
    BY <1>7, <1>9, <2>1, MaxOfTwo DEF PullRateLimited, Pulling
<1>p. ASSUME Poll PROVE since' \in 0..MinTick /\ nextIdx' \in Nat
  <2>1. since' \in 0..MinTick
    BY <1>p DEF Poll
  <2>2. QED
    BY <1>p, <2>1, PolledOpen DEF Poll
<1>r. ASSUME Receive PROVE inbox' \in 0..MaxInbox
  BY <1>r DEF Receive
<1>10. CASE IdleTick
  BY <1>10 DEF IdleTick
<1>11. CASE PollUnchanged
  <2>1. session' \in [Keys -> FileSession]
    BY <1>11, PolledOpen DEF PollUnchanged, Poll, FileSession
  <2>2. QED
    BY <1>11, <1>p, <2>1, NextTick DEF PollUnchanged, Poll
<1>12. CASE PollChanged
  <2>0. Polled \in Keys /\ cloud[Polled] \in Versions
    BY <1>12, PolledOpen DEF PollChanged, Poll
  <2>1. session' \in [Keys -> FileSession]
    BY <1>12, <2>0 DEF PollChanged, FileSession
  <2>2. task' \in Tasks
    BY <1>12, PolledOpen, TaskTyped DEF PollChanged, Poll, Kinds
  <2>3. QED
    BY <1>12, <1>p, <2>1, <2>2 DEF PollChanged, Poll
<1>13. CASE PollError
  <2>1. /\ Polled \in Keys /\ session[Polled] \in FileSession
        /\ session[Polled].pollBackoff \in Nat
    BY <1>13, PolledOpen DEF PollError, Poll, FileSession
  <2>2. session' \in [Keys -> FileSession]
    BY <1>13, <2>1, DoubledGrows DEF PollError, FileSession
  <2>3. faults' \in 0..MaxFaults
    BY <1>13 DEF PollError, Fault
  <2>4. QED
    BY <1>13, <1>p, <2>1, <2>2, <2>3 DEF PollError, Poll
<1>14. ASSUME NEW r \in RetryAfters, PollRateLimited(r) PROVE TypeOK'
  <2>1. Polled \in Keys /\ r \in Nat
    BY <1>14, PolledOpen DEF PollRateLimited, Poll
  <2>2. QED
    BY <1>14, <1>p, <2>1 DEF PollRateLimited, Poll, Fault
<1>15. CASE CallNoEffect
  BY <1>15, <1>r DEF CallNoEffect, Receive
<1>16. CASE CallSyncDefault
  <2>1. task' \in Tasks
    BY <1>16, DefaultOpen, OpenedKeys, TaskTyped DEF CallSyncDefault, Kinds
  <2>2. QED
    BY <1>16, <1>r, <2>1 DEF CallSyncDefault, Receive
<1>17. CASE CallProxiedWrite
  BY <1>17, <1>o, <1>r DEF CallProxiedWrite, Receive
<1>18. ASSUME NEW k \in Keys, CallOpen(k) PROVE TypeOK'
  <2>1. task' \in Tasks
    BY <1>18, TaskTyped DEF CallOpen, Kinds
  <2>2. QED
    BY <1>18, <1>r, <2>1, OpenAdds DEF CallOpen, Receive
<1>19. ASSUME NEW k \in Keys, NEW sync \in BOOLEAN, CallExplicit(k, sync) PROVE TypeOK'
  <2>1. task' \in Tasks \cup {NoTask}
    BY <1>19, TaskTyped DEF CallExplicit, Kinds
  <2>2. QED
    BY <1>19, <1>r, <2>1, OpenAdds DEF CallExplicit, Receive
<1>20. CASE Arrive
  BY <1>20 DEF Arrive
<1>21. CASE Elapse
  <2>1. since' \in 0..MinTick
    BY <1>21, CountersTyped DEF Elapse
  <2>2. due' \in Nat /\ asked' \in [Keys -> Nat]
    BY <1>21 DEF Elapse, Less
  <2>3. QED
    BY <1>21, <1>o, <2>1, <2>2 DEF Elapse
<1>22. ASSUME NEW k \in Keys, Edit(k) PROVE TypeOK'
  BY <1>22 DEF Edit, Versions
<1> HIDE DEF TypeOK
<1>23. CASE Startup \/ PullEnds
  BY <1>2, <1>3, <1>6, <1>8, <1>9, <1>23 DEF Startup, PullEnds
<1>24. CASE WatchTick
  BY <1>10, <1>11, <1>12, <1>13, <1>14, <1>24 DEF WatchTick
<1>25. CASE HandleMessage
  BY <1>15, <1>16, <1>17, <1>18, <1>19, <1>25 DEF HandleMessage
<1>26. QED
  BY <1>1, <1>4, <1>5, <1>20, <1>21, <1>22, <1>23, <1>24, <1>25 DEF Next

\* Every variable of serve keeps its type; no file is open twice, and the
\* default is an open one.
THEOREM TypeCorrect == Spec => []TypeOK
BY TypesInit, TypesNext, PTL DEF Spec

-----------------------------------------------------------------------------
(* The books and the stores *)

LEMMA NewSessionAgrees ==
    ASSUME NEW version
    PROVE  NewSession(version).seen = version
           /\ (NewSession(version).mirrored <=> version # None)
BY DEF NewSession

\* A session opened over a store agrees with it.
LEMMA OpenKeepsBooks ==
    ASSUME TypeOK, BooksMatchStores, phase # "exited", task = NoTask,
           NEW k \in Keys, Open(k), stored' = stored
    PROVE  \A j \in Opened' : /\ session'[j].mirrored <=> stored'[j] # None
                              /\ session'[j].seen = stored'[j]
<1>1. /\ Opened' = Opened \cup {k} /\ Opened \subseteq Keys
      /\ session' = IF k \in Opened THEN session
                    ELSE [session EXCEPT ![k] = NewSession(stored[k])]
  BY OpenAdds, OpenedKeys
<1>2. session \in [Keys -> FileSession]
  BY DEF TypeOK
<1>3. \A j \in Opened : /\ session[j].mirrored <=> stored[j] # None
                        /\ session[j].seen = stored[j]
  BY DEF BooksMatchStores, NoTask
<1>4. QED
  BY <1>1, <1>2, <1>3, NewSessionAgrees

LEMMA BooksNext ==
    ASSUME TypeOK, BooksMatchStores, [Next]_vars
    PROVE  BooksMatchStores'
<1> USE SessionsKept
<1>0. /\ Opened \subseteq Keys /\ None \notin Keys
      /\ session \in [Keys -> FileSession]
      /\ stored \in [Keys -> Versions \cup {None}]
      /\ task \in Tasks \cup {NoTask} /\ current \in Keys \cup {None}
  BY OpenedKeys, ConstantTypes DEF TypeOK
<1> USE DEF BooksMatchStores
<1>1. CASE UNCHANGED <<stored, sessions, session, phase, task, current>>
  BY <1>1
\* A call opens a file and perhaps begins a pull.
<1>2. ASSUME NEW k \in Keys, Open(k), phase # "exited", task = NoTask,
             UNCHANGED <<stored, current>>
      PROVE  BooksMatchStores'
  BY <1>2, OpenKeepsBooks
\* A pull begins without an opening.
<1>3. ASSUME task = NoTask, UNCHANGED <<stored, sessions, session, phase, current>>
      PROVE  BooksMatchStores'
  BY <1>3 DEF NoTask
<1>4. CASE StartFile
  <2>1. Head(todo) \in Keys
    BY <1>4 DEF StartFile, TypeOK
  <2>2. QED
    BY <1>2, <1>4, <2>1 DEF StartFile
<1>5. CASE StartLoop
  BY <1>3, <1>5 DEF StartLoop
<1>6. CASE Stall \/ Exit
  BY <1>6 DEF Stall, Exit
<1>7. CASE Restart
  BY <1>7 DEF Restart, Opened
<1>8. CASE PullOk
  <2> DEFINE k == task.key
  <2>1. k \in Keys /\ cloud[k] \in Versions /\ cloud[k] # None
    BY <1>8, ConstantTypes DEF PullOk, Tasks, TypeOK, Versions, Pulling
  <2>2. /\ stored' = [stored EXCEPT ![k] = cloud[k]]
        /\ session' = [session EXCEPT ![k] = NewSession(cloud[k])]
        /\ Opened' = Opened /\ phase' = phase
    BY <1>8 DEF PullOk
  <2>3. current' \in {current, k}
    BY <1>8 DEF PullOk, AfterSuccess, RefreshCurrent
  <2>4. stored'[k] = cloud[k]
    BY <1>0, <2>1, <2>2
  <2>5. \A j \in Opened \ {k} : session'[j] = session[j] /\ stored'[j] = stored[j]
    BY <1>0, <2>2
  <2>6. k \in Opened => session'[k].seen = stored'[k]
                        /\ (session'[k].mirrored <=> stored'[k] # None)
    BY <1>0, <2>1, <2>2, <2>4, NewSessionAgrees
  <2>7. current' # None => stored'[current'] # None
    BY <1>0, <2>1, <2>2, <2>3, <2>4
  <2>8. QED
    BY <2>2, <2>5, <2>6, <2>7
<1>9. ASSUME NEW k \in Keys, k = task.key, NEW wait, NEW backoff,
             PullFailed(k, wait, backoff)
      PROVE  BooksMatchStores'
  <2>1. /\ session' = [session EXCEPT ![k].seen = stored[k],
                                      ![k].pollBackoff = BackoffStart,
                                      ![k].pullBackoff = backoff]
        /\ stored' = stored /\ current' = current /\ Opened' = Opened
        /\ phase' # "exited" => phase # "exited"
    BY <1>9 DEF PullFailed
  <2>2. session[k] \in FileSession
    BY <1>0
  <2>3. session'[k].seen = stored[k] /\ session'[k].mirrored = session[k].mirrored
    BY <1>0, <2>1, <2>2 DEF FileSession
  <2>4. \A j \in Opened \ {k} : session'[j] = session[j]
    BY <1>0, <2>1
  <2>5. QED
    BY <1>9, <2>1, <2>3, <2>4
<1>10. CASE PullError
  BY <1>0, <1>9, <1>10 DEF PullError, Tasks, Pulling
<1>11. ASSUME NEW r \in RetryAfters, PullRateLimited(r) PROVE BooksMatchStores'
  BY <1>0, <1>9, <1>11 DEF PullRateLimited, Tasks, Pulling
\* A poll: only the polled session's backoff and, before a pull of it, its
\* watermark change.
<1>12. ASSUME Poll, NEW b, session' = [session EXCEPT ![Polled].pollBackoff = b],
              task' = task
       PROVE  BooksMatchStores'
  <2>1. session[Polled] \in FileSession /\ Polled \in Keys
    BY <1>0, <1>12, PolledOpen DEF Poll
  <2>2. \A j \in Opened : /\ session'[j].seen = session[j].seen
                          /\ session'[j].mirrored = session[j].mirrored
    BY <1>0, <1>12, <2>1 DEF FileSession
  <2>3. QED
    BY <1>12, <2>2 DEF Poll
<1>13. CASE PollUnchanged
  BY <1>12, <1>13 DEF PollUnchanged
<1>14. CASE PollError
  BY <1>12, <1>14 DEF PollError
<1>15. CASE PollChanged
  <2>1. session[Polled] \in FileSession /\ Polled \in Keys
    BY <1>0, <1>15, PolledOpen DEF PollChanged, Poll
  <2>2. \A j \in Opened : /\ session'[j].mirrored = session[j].mirrored
                          /\ j # Polled => session'[j].seen = session[j].seen
    BY <1>0, <1>15, <2>1 DEF PollChanged, FileSession
  <2>3. task'.key = Polled /\ task'.kind = "watch"
    BY <1>15 DEF PollChanged, Task
  <2>4. task.kind = "none"
    BY <1>15 DEF PollChanged, Poll, TickDue, NoTask
  <2>5. QED
    BY <1>15, <2>2, <2>3, <2>4 DEF PollChanged, Poll
<1>16. ASSUME NEW k \in Keys, NEW sync \in BOOLEAN, CallOpen(k) \/ CallExplicit(k, sync)
       PROVE  BooksMatchStores'
  BY <1>2, <1>16 DEF CallOpen, CallExplicit, Receive
<1>17. CASE CallSyncDefault
  BY <1>3, <1>17 DEF CallSyncDefault, Receive
<1>18. CASE \/ IdleTick \/ CallNoEffect \/ CallProxiedWrite \/ Arrive \/ Elapse
            \/ \E r \in RetryAfters : PollRateLimited(r)
            \/ \E k \in Keys : Edit(k)
            \/ UNCHANGED vars
  BY <1>1, <1>18
     DEF IdleTick, CallNoEffect, CallProxiedWrite, Receive, Arrive, Elapse,
         PollRateLimited, Poll, Edit, vars
<1>19. QED
  BY <1>4, <1>5, <1>6, <1>7, <1>8, <1>10, <1>11, <1>13, <1>14, <1>15, <1>16, <1>17, <1>18
     DEF Next, Startup, PullEnds, WatchTick, HandleMessage

\* Between pulls, and after any failure of one, what a watcher last saw is what
\* its mirror holds, a session counts as mirrored exactly when its store has
\* something, and .figmog/current names a mirror (do_pull, note_pull_success).
THEOREM BooksKept == Spec => []BooksMatchStores
<1>1. Init => BooksMatchStores
  BY DEF Init, BooksMatchStores, Opened
<1>2. QED
  BY <1>1, BooksNext, TypeCorrect, PTL DEF Spec

-----------------------------------------------------------------------------
(* The pulls of a call *)

LEMMA OnePullNext ==
    ASSUME OnePullPerCall, [Next]_vars
    PROVE  OnePullPerCall'
<1>1. CASE PullOk
  <2>1. ~SyncPulls(TRUE)
    BY DEF SyncPulls
  <2>2. task' = NoTask
    BY <1>1, <2>1 DEF PullOk
  <2>3. QED
    BY <2>2 DEF OnePullPerCall, NoTask
<1>2. \/ PullOk \/ task' = task \/ task' = NoTask
      \/ \E kind, k, sync : task' = Task(kind, k, sync, 1)
  BY DEF Next, Startup, PullEnds, WatchTick, HandleMessage, Kinds, vars,
         StartFile, StartLoop, Stall, Exit, Restart, PullError, PullRateLimited, PullFailed,
         IdleTick, PollUnchanged, PollChanged, PollError, PollRateLimited, CallNoEffect,
         CallSyncDefault, CallProxiedWrite, CallOpen, CallExplicit, Arrive, Elapse, Edit
<1>3. ASSUME NEW kind, NEW k, NEW sync, task' = Task(kind, k, sync, 1)
      PROVE  OnePullPerCall'
  BY <1>3 DEF OnePullPerCall, Task
<1>4. CASE task' = task \/ task' = NoTask
  BY <1>4 DEF OnePullPerCall, NoTask
<1>5. QED
  BY <1>1, <1>2, <1>3, <1>4

\* No tool call spends two Tier-1 pulls: what resolve has just pulled,
\* figmog_sync does not pull again (handle_tool_call).
THEOREM OnePull == Spec => []OnePullPerCall
<1>1. Init => OnePullPerCall
  BY DEF Init, OnePullPerCall, NoTask
<1>2. QED
  BY <1>1, OnePullNext, PTL DEF Spec

-----------------------------------------------------------------------------
(* When the watch loop polls *)

\* A pull is of an open file, and a watch pull is made at the deadline, which
\* is not set before the loop starts.
TaskAtDeadline ==
    /\ phase = "startup" => due = 0 /\ task.kind \in {"none", "startup"}
    /\ task # NoTask => sessions # <<>>
    /\ task.kind = "watch" => due = 0

\* Unless a call has moved it, the deadline comes after every Retry-After.
RetriesWaited ==
    phase # "exited" /\ ~overwritten => \A k \in Keys : asked[k] <= due

RetryInv == TypeOK /\ TaskAtDeadline /\ RetriesWaited

LEMMA RetryNext ==
    ASSUME RetryInv, [Next]_vars
    PROVE  RetryInv'
<1> USE DEF RetryInv, RetriesWaited, TaskAtDeadline
<1>t. TypeOK'
  BY TypesNext
<1>0. /\ due \in Nat /\ asked \in [Keys -> Nat] /\ task \in Tasks \cup {NoTask}
      /\ RetryAfters \subseteq Nat /\ Interval \in Nat /\ session \in [Keys -> FileSession]
      /\ TickDeadline(Len(sessions)) \in Nat
  BY ConstantTypes, NextTick DEF TypeOK
<1>1. CASE UNCHANGED <<sessions, phase, due, task, asked, overwritten>>
  BY <1>1, <1>t
<1>2. CASE StartFile
  <2>1. Head(todo) \in Keys
    BY <1>2 DEF StartFile, TypeOK
  <2>2. sessions' # <<>>
    BY <1>2, <2>1, OpenAdds DEF StartFile
  <2>3. task'.kind \in {"none", "startup"}
    BY <1>2 DEF StartFile, Task, NoTask
  <2>4. QED
    BY <1>2, <1>t, <2>2, <2>3 DEF StartFile
<1>3. CASE StartLoop
  BY <1>0, <1>3, <1>t DEF StartLoop
<1>4. CASE Stall \/ Exit
  BY <1>4, <1>t DEF Stall, Exit, NoTask
<1>5. CASE Restart
  BY <1>5, <1>t DEF Restart, NoTask
<1>6. CASE PullOk
  <2>1. task' = NoTask
    BY <1>6 DEF PullOk, SyncPulls
  <2>2. due' \in Nat /\ due' >= due
    BY <1>0, <1>6 DEF PullOk, AfterSuccess
  <2>3. RetriesWaited'
    BY <1>0, <1>6, <2>2 DEF PullOk
  <2>4. phase = "startup" => due' = due
    BY <1>6 DEF PullOk, AfterSuccess
  <2>5. task'.kind = "none" /\ phase' = phase /\ sessions' = sessions
    <3>1. phase' = phase /\ sessions' = sessions
      BY <1>6 DEF PullOk
    <3>2. QED
      BY <2>1, <3>1 DEF NoTask
  <2>6. QED
    BY <1>t, <2>1, <2>3, <2>4, <2>5
<1>7. ASSUME NEW k \in Keys, NEW wait \in Nat, NEW backoff, task # NoTask,
             PullFailed(k, wait, backoff),
             asked' = asked \/ (\E r \in Nat : r <= wait /\ asked' = [asked EXCEPT ![k] = r])
      PROVE  RetryInv'
  <2>1. task' = NoTask /\ task'.kind = "none" /\ sessions' = sessions
    BY <1>7 DEF PullFailed, NoTask
  <2>2. phase' # "exited" => phase # "exited" /\ due' = wait
    BY <1>7 DEF PullFailed
  <2>3. ~overwritten' => ~overwritten /\ (task.kind = "watch" \/ ~Refused)
    BY <1>7 DEF PullFailed
  <2>4. phase' # "exited" /\ ~overwritten' => \A j \in Keys : asked[j] = 0
    BY <1>0, <2>2, <2>3 DEF Refused
  <2>5. RetriesWaited'
    BY <1>0, <1>7, <2>2, <2>4
  <2>6. task.kind # "none"
    BY <1>0, <1>7 DEF Tasks, Kinds
  <2>7. phase' # "startup"
    BY <1>7, <2>6 DEF PullFailed
  <2>8. QED
    BY <1>t, <2>1, <2>5, <2>7
<1>8. CASE PullError
  <2>1. task.key \in Keys /\ session[task.key].pullBackoff \in Nat
    BY <1>0, <1>8 DEF PullError, Tasks, FileSession, Pulling
  <2>2. QED
    BY <1>7, <1>8, <2>1 DEF PullError, Pulling
<1>9. ASSUME NEW r \in RetryAfters, PullRateLimited(r) PROVE RetryInv'
  <2>1. task.key \in Keys /\ r \in Nat
    BY <1>0, <1>9 DEF PullRateLimited, Tasks, Pulling
  <2>2. QED
    BY <1>0, <1>7, <1>9, <2>1, MaxOfTwo DEF PullRateLimited, Pulling
\* At a tick the deadline is over, so every Retry-After is, or a call is to blame.
<1>10. ASSUME TickDue PROVE ~overwritten => \A k \in Keys : asked[k] = 0
  BY <1>0, <1>10 DEF TickDue
<1>11. CASE IdleTick
  BY <1>0, <1>10, <1>11, <1>t DEF IdleTick, TickDue, NoTask
<1>12. CASE PollUnchanged
  BY <1>0, <1>10, <1>12, <1>t DEF PollUnchanged, Poll, TickDue, NoTask
<1>13. CASE PollChanged
  BY <1>0, <1>10, <1>13, <1>t DEF PollChanged, Poll, TickDue
<1>14. CASE PollError
  <2>1. session[Polled].pollBackoff \in Nat
    BY <1>0, <1>14, PolledOpen DEF PollError, Poll, FileSession
  <2>2. QED
    BY <1>0, <1>10, <1>14, <1>t, <2>1 DEF PollError, Poll, TickDue, NoTask
<1>15. ASSUME NEW r \in RetryAfters, PollRateLimited(r) PROVE RetryInv'
  <2>1. Polled \in Keys /\ r \in Nat
    BY <1>0, <1>15, PolledOpen DEF PollRateLimited, Poll
  <2>2. QED
    BY <1>0, <1>10, <1>15, <1>t, <2>1 DEF PollRateLimited, Poll, TickDue, NoTask
<1>16. CASE CallSyncDefault
  <2>1. sessions # <<>>
    BY <1>16, DefaultOpen DEF CallSyncDefault, Opened
  <2>2. QED
    BY <1>16, <1>t, <2>1 DEF CallSyncDefault, Receive, Task
<1>17. CASE CallProxiedWrite
  <2>1. ~overwritten' => ~overwritten /\ ~Refused
    BY <1>17 DEF CallProxiedWrite
  <2>2. ~overwritten' => \A k \in Keys : asked[k] = 0
    BY <1>0, <2>1 DEF Refused
  <2>3. QED
    BY <1>17, <1>t, <2>2 DEF CallProxiedWrite, Receive, NoTask
<1>18. ASSUME NEW k \in Keys, NEW sync \in BOOLEAN, CallOpen(k) \/ CallExplicit(k, sync)
       PROVE  RetryInv'
  <2>1. sessions' # <<>>
    BY <1>18, OpenAdds DEF CallOpen, CallExplicit
  <2>2. task' = NoTask \/ \E kind \in {"open", "auto", "sync"}, s \in BOOLEAN : task' = Task(kind, k, s, 1)
    BY <1>18 DEF CallOpen, CallExplicit
  <2>3. task'.kind # "watch"
    BY <2>2 DEF Task, NoTask
  <2>4. QED
    BY <1>18, <1>t, <2>1, <2>3 DEF CallOpen, CallExplicit, Receive
<1>19. CASE Elapse
  <2>1. due' = Less(due) /\ asked' = [k \in Keys |-> Less(asked[k])] /\ due' <= due
    BY <1>0, <1>19 DEF Elapse, Less
  <2>2. ~overwritten' => ~overwritten \/ \A k \in Keys : ~(asked[k] > 1)
    BY <1>19 DEF Elapse
  <2>3. RetriesWaited'
    BY <1>0, <1>19, <2>1, <2>2 DEF Elapse, Less
  <2>4. QED
    BY <1>0, <1>19, <1>t, <2>1, <2>3 DEF Elapse, Less
<1>20. CASE CallNoEffect \/ Arrive \/ (\E k \in Keys : Edit(k)) \/ UNCHANGED vars
  BY <1>1, <1>20 DEF CallNoEffect, Receive, Arrive, Edit, vars
<1>21. QED
  BY <1>2, <1>3, <1>4, <1>5, <1>6, <1>8, <1>9, <1>11, <1>12, <1>13, <1>14, <1>15,
     <1>16, <1>17, <1>18, <1>19, <1>20
     DEF Next, Startup, PullEnds, WatchTick, HandleMessage

LEMMA RetryAlways == Spec => []RetryInv
<1>1. Init => RetryInv
  BY TypesInit DEF Init, RetryInv, TaskAtDeadline, RetriesWaited, NoTask
<1>2. QED
  BY <1>1, RetryNext, PTL DEF Spec

\* Neither the other files' polls nor their number make the watch loop ask
\* again for a file before its Retry-After is over: only a call that fails to
\* pull, or a proxied write, can (watch_tick, tick_deadline).
THEOREM RetriesKept == Spec => RetryAfterKept
<1>1. ASSUME RetryInv, WatchPoll PROVE asked[Polled] = 0 \/ overwritten
  <2>1. Poll
    BY <1>1 DEF WatchPoll, PollUnchanged, PollChanged, PollError, PollRateLimited
  <2>2. /\ Polled \in Keys /\ due = 0 /\ phase = "serving"
        /\ asked \in [Keys -> Nat] /\ RetriesWaited
    BY <1>1, <2>1, PolledOpen DEF Poll, TickDue, RetryInv, TypeOK
  <2>3. QED
    BY <2>2 DEF RetriesWaited
<1>2. QED
  BY <1>1, RetryAlways, PTL DEF RetryAfterKept

\* The backoffs of a session only grow from their start.
BackoffsFloored ==
    \A k \in Keys : /\ session[k].pollBackoff >= BackoffStart
                    /\ session[k].pullBackoff >= BackoffStart

\* The time to the deadline and the time since the last poll make up the floor.
NextPollSpaced ==
    /\ phase = "startup" => since = MinTick
    /\ phase = "serving" /\ task.kind # "watch" => due + since >= MinTick

SpacedInv == TypeOK /\ TaskAtDeadline /\ BackoffsFloored /\ NextPollSpaced

LEMMA BackoffsNext ==
    ASSUME TypeOK, BackoffsFloored, [Next]_vars
    PROVE  BackoffsFloored'
<1> USE DEF BackoffsFloored
<1>0. /\ session \in [Keys -> FileSession] /\ BackoffStart \in Nat
      /\ task \in Tasks \cup {NoTask}
      /\ \A k \in Keys : session[k].pollBackoff \in Nat /\ session[k].pullBackoff \in Nat
  BY ConstantTypes DEF TypeOK, FileSession
<1>1. CASE UNCHANGED session
  BY <1>1
<1>2. \A v : /\ NewSession(v).pollBackoff = BackoffStart
             /\ NewSession(v).pullBackoff = BackoffStart
  BY DEF NewSession
<1>3. ASSUME NEW k \in Keys, Open(k) PROVE BackoffsFloored'
  BY <1>0, <1>2, <1>3 DEF Open
<1>4. CASE StartFile
  BY <1>3, <1>4 DEF StartFile, TypeOK
<1>5. CASE Restart
  BY <1>0, <1>2, <1>5 DEF Restart
<1>6. CASE PullOk
  BY <1>0, <1>2, <1>6 DEF PullOk, Pulling
<1>7. ASSUME NEW k \in Keys, NEW wait, NEW backoff \in Nat, backoff >= BackoffStart,
             PullFailed(k, wait, backoff)
      PROVE  BackoffsFloored'
  <2>1. session[k] \in FileSession
    BY <1>0
  <2>2. session'[k].pollBackoff = BackoffStart /\ session'[k].pullBackoff = backoff
    BY <1>0, <1>7, <2>1 DEF PullFailed, FileSession
  <2>3. \A j \in Keys \ {k} : session'[j] = session[j]
    BY <1>0, <1>7 DEF PullFailed
  <2>4. QED
    BY <1>0, <1>7, <2>2, <2>3
<1>8. CASE PullError
  BY <1>0, <1>7, <1>8, DoubledGrows DEF PullError, Tasks, Pulling
<1>9. ASSUME NEW r \in RetryAfters, PullRateLimited(r) PROVE BackoffsFloored'
  BY <1>0, <1>7, <1>9 DEF PullRateLimited, Tasks, Pulling
<1>10. ASSUME Poll, NEW b \in Nat, b >= BackoffStart, NEW seen,
              session' \in {[session EXCEPT ![Polled].pollBackoff = b],
                            [session EXCEPT ![Polled].pollBackoff = b, ![Polled].seen = seen]}
       PROVE  BackoffsFloored'
  <2>1. session[Polled] \in FileSession /\ Polled \in Keys
    BY <1>0, <1>10, PolledOpen DEF Poll
  <2>2. /\ session'[Polled].pollBackoff = b
        /\ session'[Polled].pullBackoff = session[Polled].pullBackoff
    BY <1>0, <1>10, <2>1 DEF FileSession
  <2>3. \A j \in Keys \ {Polled} : session'[j] = session[j]
    BY <1>0, <1>10
  <2>4. QED
    BY <1>0, <1>10, <2>1, <2>2, <2>3
<1>11. CASE PollUnchanged \/ PollChanged
  <2>1. Poll
    BY <1>11 DEF PollUnchanged, PollChanged
  <2>2. session' \in {[session EXCEPT ![Polled].pollBackoff = BackoffStart],
                      [session EXCEPT ![Polled].pollBackoff = BackoffStart,
                                      ![Polled].seen = cloud[Polled]]}
    BY <1>11 DEF PollUnchanged, PollChanged
  <2>3. BackoffStart \in Nat /\ BackoffStart >= BackoffStart
    BY <1>0
  <2>4. QED
    BY <1>10, <2>1, <2>2, <2>3
<1>12. CASE PollError
  <2>1. Poll /\ Polled \in Keys
    BY <1>12, PolledOpen DEF PollError, Poll
  <2>2. QED
    BY <1>0, <1>10, <1>12, <2>1, DoubledGrows DEF PollError
<1>13. ASSUME NEW k \in Keys, NEW sync \in BOOLEAN, CallOpen(k) \/ CallExplicit(k, sync)
       PROVE  BackoffsFloored'
  BY <1>3, <1>13 DEF CallOpen, CallExplicit
<1>14. QED
  BY <1>1, <1>4, <1>5, <1>6, <1>8, <1>9, <1>11, <1>12, <1>13
     DEF Next, Startup, PullEnds, WatchTick, HandleMessage, StartLoop, Stall, Exit, IdleTick,
         PollRateLimited, CallNoEffect, CallSyncDefault, CallProxiedWrite, Arrive,
         Elapse, Edit, vars

LEMMA SpacedNext ==
    ASSUME BackoffStart >= MinTick, \A r \in RetryAfters : r >= MinTick,
           TypeOK, TaskAtDeadline, BackoffsFloored, NextPollSpaced, [Next]_vars
    PROVE  NextPollSpaced'
<1> USE DEF NextPollSpaced
<1>0. /\ due \in Nat /\ since \in 0..MinTick /\ MinTick \in Nat /\ BackoffStart \in Nat
      /\ RetryAfters \subseteq Nat /\ Interval \in Nat /\ session \in [Keys -> FileSession]
      /\ task \in Tasks \cup {NoTask} /\ phase \in {"startup", "serving", "stuck", "exited"}
  BY ConstantTypes DEF TypeOK
<1>1. CASE UNCHANGED <<phase, due, task, since>>
  BY <1>1
<1>2. ASSUME task = NoTask, UNCHANGED <<phase, due, since>> PROVE NextPollSpaced'
  BY <1>2 DEF NoTask
<1>3. CASE StartFile \/ CallSyncDefault
           \/ \E k \in Keys : CallOpen(k) \/ \E sync \in BOOLEAN : CallExplicit(k, sync)
  BY <1>2, <1>3 DEF StartFile, CallSyncDefault, CallOpen, CallExplicit, Receive
<1>4. CASE StartLoop
  BY <1>0, <1>4, NextTick DEF StartLoop
<1>5. CASE Stall \/ Exit \/ Restart
  BY <1>5 DEF Stall, Exit, Restart
<1>6. CASE PullOk
  <2>1. task.kind = "watch" => due' \in Nat /\ due' >= MinTick
    BY <1>6, NextTick DEF PullOk, Pulling, AfterSuccess, TaskAtDeadline
  <2>2. task.kind # "watch" => due' = due
    BY <1>6 DEF PullOk, AfterSuccess
  <2>3. phase' = phase /\ since' = since
    BY <1>6 DEF PullOk
  <2>4. QED
    BY <1>0, <2>1, <2>2, <2>3
<1>7. ASSUME NEW k, NEW wait \in Nat, NEW backoff, wait >= MinTick,
             PullFailed(k, wait, backoff)
      PROVE  NextPollSpaced'
  <2>1. /\ since' = since
        /\ \/ phase' = "exited"
           \/ phase' = phase /\ due' = wait
    BY <1>7 DEF PullFailed
  <2>2. QED
    BY <1>0, <1>7, <2>1
<1>8. CASE PullError
  <2>1. /\ session[task.key].pullBackoff \in Nat
        /\ session[task.key].pullBackoff >= BackoffStart
    BY <1>0, <1>8 DEF PullError, Tasks, BackoffsFloored, FileSession, Pulling
  <2>2. session[task.key].pullBackoff >= MinTick
    BY <1>0, <2>1
  <2>3. QED
    BY <1>7, <1>8, <2>1, <2>2 DEF PullError
<1>9. ASSUME NEW r \in RetryAfters, PullRateLimited(r) PROVE NextPollSpaced'
  <2>1. Max({Interval, r}) \in Nat /\ Max({Interval, r}) >= MinTick
    BY <1>0, <1>9, MaxOfTwo
  <2>2. QED
    BY <1>7, <1>9, <2>1 DEF PullRateLimited
<1>10. CASE IdleTick
  BY <1>0, <1>10 DEF IdleTick, TickDue, NoTask
<1>11. ASSUME Poll, due' \in Nat, due' >= MinTick PROVE NextPollSpaced'
  <2>1. since' = 0 /\ phase' = "serving"
    BY <1>11 DEF Poll, TickDue
  <2>2. due' \in Nat /\ MinTick \in Nat /\ due' >= MinTick
    BY <1>0, <1>11
  <2>3. due' + since' >= MinTick
    <3>1. \A d \in Nat : d + 0 = d
      OBVIOUS
    <3>2. QED
      BY <2>1, <2>2, <3>1
  <2>4. QED
    BY <2>1, <2>3
<1>12. CASE PollUnchanged
  BY <1>11, <1>12, NextTick DEF PollUnchanged, Poll
<1>13. CASE PollChanged
  <2>1. task'.kind = "watch" /\ phase' = "serving"
    BY <1>13 DEF PollChanged, Poll, TickDue, Task
  <2>2. QED
    BY <2>1
<1>14. CASE PollError
  <2>1. /\ session[Polled].pollBackoff \in Nat
        /\ session[Polled].pollBackoff >= BackoffStart
    BY <1>0, <1>14, PolledOpen DEF PollError, Poll, BackoffsFloored, FileSession
  <2>2. QED
    BY <1>0, <1>11, <1>14, <2>1 DEF PollError
<1>15. ASSUME NEW r \in RetryAfters, PollRateLimited(r) PROVE NextPollSpaced'
  BY <1>0, <1>11, <1>15 DEF PollRateLimited
<1>16. CASE CallProxiedWrite
  BY <1>0, <1>16 DEF CallProxiedWrite, Receive
<1>17. CASE Elapse
  <2>1. since' = Min({since + 1, MinTick}) /\ due' = Less(due)
        /\ phase' = "serving" /\ phase = "serving" /\ task' = task
    BY <1>17 DEF Elapse
  <2>2. since + 1 \in Nat /\ since' \in {since + 1, MinTick}
    BY <1>0, <2>1, MinOfTwo
  <2>3. due' + 1 >= due /\ due' \in Nat
    BY <1>0, <2>1 DEF Less
  <2>4. QED
    BY <1>0, <2>1, <2>2, <2>3
<1>18. CASE CallNoEffect \/ Arrive \/ (\E k \in Keys : Edit(k)) \/ UNCHANGED vars
  BY <1>1, <1>18 DEF CallNoEffect, Receive, Arrive, Edit, vars
<1>19. QED
  BY <1>3, <1>4, <1>5, <1>6, <1>8, <1>9, <1>10, <1>12, <1>13, <1>14, <1>15, <1>16,
     <1>17, <1>18
     DEF Next, Startup, PullEnds, WatchTick, HandleMessage

\* Two watch polls are at least MIN_TICK_DEADLINE apart, however many files are
\* open, but for the one poll that a proxied write buys: if no backoff and no
\* Retry-After is shorter.  A backoff is not (watch.rs BACKOFF_START), but the
\* watch tick waits no longer than a Retry-After says, which may be less.
THEOREM PollsApart ==
    ASSUME BackoffStart >= MinTick, \A r \in RetryAfters : r >= MinTick
    PROVE  Spec => PollsSpaced
<1>1. Init => SpacedInv
  <2>1. Init => BackoffsFloored
    BY ConstantTypes DEF Init, BackoffsFloored, NewSession
  <2>2. QED
    BY <2>1, TypesInit DEF Init, SpacedInv, TaskAtDeadline, NextPollSpaced, NoTask
<1>2. RetryInv /\ SpacedInv /\ [Next]_vars => SpacedInv'
  BY RetryNext, BackoffsNext, SpacedNext DEF SpacedInv, RetryInv
<1>3. ASSUME SpacedInv, WatchPoll PROVE since = MinTick
  <2>1. Poll
    BY <1>3 DEF WatchPoll, PollUnchanged, PollChanged, PollError, PollRateLimited
  <2>2. /\ due = 0 /\ phase = "serving" /\ task.kind # "watch"
        /\ since \in 0..MinTick /\ MinTick \in Nat
    BY <1>3, <2>1, ConstantTypes DEF Poll, TickDue, SpacedInv, TypeOK, NoTask
  <2>3. QED
    BY <1>3, <2>2 DEF SpacedInv, NextPollSpaced
<1>4. QED
  BY <1>1, <1>2, <1>3, RetryAlways, PTL DEF Spec, PollsSpaced
=============================================================================
