---------------------------- MODULE SocketProofs ----------------------------
(***************************************************************************)
(* What holds for any number of processes, clients and removals: who owns  *)
(* the socket file, as long as no process starts while another one is      *)
(* binding or leaving, and, without that condition, how often a request is *)
(* carried out.  And for any cap, any buffer, any stream and any way it    *)
(* arrives: what becomes of the bytes of one connection.                   *)
(***************************************************************************)
EXTENDS ControlPlane, Frames, FoldLemmas, FiniteSetTheorems

-----------------------------------------------------------------------------
(* The socket file *)

\* What ownership depends on, and its types.
ownVars == <<file, phase, guard, removals>>

OwnTyped ==
    /\ file \in Serves \cup {None, Leftover}
    /\ phase \in [Serves -> Phases]
    /\ guard \in [Serves -> Serves \cup {None, Leftover}]
    /\ removals \in Nat

\* At most one process is in bind_socket.
OneBinder == \A s, t \in Serves : phase[s] \in Binding /\ phase[t] \in Binding => s = t

\* A process with a guard has its own file's.
GuardsOwn ==
    \A s \in Serves : phase[s] \in Owning \cup Leaving => guard[s] = s

\* The process a file is named after has bound it and has not unlinked it.
FileBound ==
    file \in Serves =>
        phase[file] \notin {"new", "probe", "unlink", "bind", "exiting", "ended"}

\* What a process is about to unlink belongs to a dead one.
UnlinksDead ==
    \A s \in Serves :
        phase[s] = "unlink" /\ file \in Serves => phase[file] \in {"failed", "crashed"}

\* Between unlink and bind nothing is at the path.
BindsFree == \A s \in Serves : phase[s] = "bind" => file = None

\* No other process's file is at the path of one that is about to stat or remove it.
NoOthersFile ==
    \A s \in Serves : phase[s] \in {"listen", "chmod", "stat", "removing"} => file \in {s, None}

\* Nobody binds under a process that removes its file.
NoRival == \A s, t \in Serves : phase[s] = "removing" => phase[t] # "bind"

\* From bind(2) to its unlinking a file goes only by an operator's hand.
HoldsFile ==
    removals = 0 =>
        \A s \in Serves :
            phase[s] \in Owning \cup {"listen", "chmod", "stat", "closing", "checking",
                                      "removing"} => file = s

OwnInv ==
    /\ OwnTyped /\ OneBinder /\ GuardsOwn /\ FileBound /\ UnlinksDead
    /\ BindsFree /\ NoOthersFile /\ NoRival /\ HoldsFile

LEMMA OwnInit == Init => OwnInv
BY ControlPlaneAssumption
   DEF Init, OwnInv, OwnTyped, OneBinder, GuardsOwn, FileBound, UnlinksDead,
       BindsFree, NoOthersFile, NoRival, HoldsFile, Phases, Binding, Owning, Leaving, Ended

\* A process's move from one phase to another.
Moves(s, from, to) ==
    /\ phase[s] = from
    /\ phase' = [phase EXCEPT ![s] = to]
    /\ UNCHANGED removals

\* The steps that ownership can tell apart.
OwnStep(s) ==
    \/ Start(s) \/ Probe(s) \/ Unlink(s) \/ Bind(s) \/ Listen(s)
    \/ Chmod(s) \/ NewGuard(s) \/ DropGuard(s) \/ RemoveSocket(s)
    \/ /\ \/ \E from \in {"chmod", "stat"} : Moves(s, from, "failed")
          \/ Moves(s, "startup", "serving")
          \/ \E from \in {"startup", "serving"}, to \in {"closing", "stuck"} : Moves(s, from, to)
          \/ Moves(s, "closing", "checking")
          \/ Moves(s, "exiting", "ended")
          \/ \E from \in Phases \ ({"new"} \cup Ended) : Moves(s, from, "crashed")
       /\ UNCHANGED <<file, guard>>

LEMMA OwnSteps ==
    ASSUME OwnTyped, [Next]_vars
    PROVE  UNCHANGED ownVars \/ RemoveFile \/ \E s \in Serves : OwnStep(s)
<1>1. ASSUME NEW c \in Clients, ClientStep(c) PROVE UNCHANGED ownVars
  BY <1>1 DEF ClientStep, TryCall, RunDirect, Accept, AcceptFails, Forward, Unregister,
              GiveUp, procVars, ownVars
<1>2. ASSUME NEW s \in Serves, ServeStep(s) PROVE UNCHANGED ownVars \/ OwnStep(s)
  <2>1. CASE BindSocket(s)
    BY <2>1 DEF BindSocket, ChmodFails, NewGuardFails, OwnStep, Moves, Goto
  <2>2. CASE StartupDone(s) \/ StartupFails(s) \/ StdoutCloses(s) \/ Stall(s)
    BY <2>2 DEF StartupDone, StartupFails, StdoutCloses, Stall, OwnStep, Moves, Goto
  <2>3. CASE StdinCloses(s) \/ Respond(s) \/ ResponseLost(s)
    BY <2>3 DEF StdinCloses, Respond, ResponseLost, ownVars
  <2>4. CASE Take(s)
    BY <2>4 DEF Take, OwnStep, Moves, ownVars
  <2>5. CASE Leave(s)
    BY <2>5 DEF Leave, DropSessions, ProcessEnds, OwnStep, Moves, Goto
  <2>6. CASE Crash(s)
    <3>1. phase[s] \in Phases \ ({"new"} \cup Ended)
      BY <2>6 DEF OwnTyped, Crash
    <3>2. QED
      BY <2>6, <3>1 DEF Crash, OwnStep, Moves
  <2>7. QED
    BY <1>2, <2>1, <2>2, <2>3, <2>4, <2>5, <2>6 DEF ServeStep
<1>3. QED
  BY <1>1, <1>2 DEF Next, vars, procVars, ownVars

LEMMA OwnNext ==
    ASSUME Overlap = FALSE, OwnInv, [Next]_vars
    PROVE  OwnInv'
<1> USE ControlPlaneAssumption
<1> USE DEF OwnInv, OwnTyped, OneBinder, GuardsOwn, FileBound, UnlinksDead,
       BindsFree, NoOthersFile, NoRival, HoldsFile, Phases, Binding, Owning, Leaving, Ended
<1>1. CASE UNCHANGED ownVars
  BY <1>1 DEF ownVars
<1>2. CASE RemoveFile
  BY <1>2 DEF RemoveFile, procVars
<1>3. ASSUME NEW s \in Serves, OwnStep(s) PROVE OwnInv'
  <2>1. CASE Start(s)
    BY <2>1 DEF Start, Settled, Goto
  <2>2. CASE Probe(s)
    BY <2>2 DEF Probe, ClassifyProbe, Reachable, Listening, Goto
  <2>3. CASE Unlink(s)
    BY <2>3 DEF Unlink, Goto
  <2>4. CASE Bind(s)
    BY <2>4 DEF Bind, Goto
  <2>5. CASE Listen(s) \/ Chmod(s)
    BY <2>5 DEF Listen, Chmod, Goto
  <2>6. CASE NewGuard(s)
    BY <2>6 DEF NewGuard, Goto
  <2>7. CASE DropGuard(s)
    BY <2>7 DEF DropGuard, SameFile, Goto
  <2>8. CASE RemoveSocket(s)
    BY <2>8 DEF RemoveSocket, Goto
  <2>9. CASE /\ \/ \E from \in {"chmod", "stat"} : Moves(s, from, "failed")
                \/ Moves(s, "startup", "serving")
                \/ \E from \in {"startup", "serving"}, to \in {"closing", "stuck"} : Moves(s, from, to)
                \/ Moves(s, "closing", "checking")
                \/ Moves(s, "exiting", "ended")
                \/ \E from \in Phases \ ({"new"} \cup Ended) : Moves(s, from, "crashed")
             /\ UNCHANGED <<file, guard>>
    BY <2>9 DEF Moves
  <2>10. QED
    BY <1>3, <2>1, <2>2, <2>3, <2>4, <2>5, <2>6, <2>7, <2>8, <2>9 DEF OwnStep
<1>4. QED
  BY <1>1, <1>2, <1>3, OwnSteps

\* The inductive invariant of ownership.
THEOREM Ownership ==
    ASSUME Overlap = FALSE
    PROVE  Spec => []OwnInv
<1>1. OwnInv /\ [Next]_vars => OwnInv'
  BY OwnNext
<1>2. QED
  BY OwnInit, <1>1, PTL DEF Spec

\* As long as no operator removes it, the file of the process that serves the
\* root is at the path (serve.rs bind_socket).
THEOREM OwnerStaysReachable ==
    ASSUME Overlap = FALSE
    PROVE  Spec => []OwnerReachable
<1>1. OwnInv => OwnerReachable
  BY DEF OwnInv, HoldsFile, OwnerReachable
<1>2. QED
  BY <1>1, Ownership, PTL

\* A leaving process removes its own file or none (serve.rs SocketGuard).
THEOREM LeaversRemoveTheirOwn ==
    ASSUME Overlap = FALSE
    PROVE  Spec => ExitKeepsOthers
<1>1. OwnInv => \A s \in Serves : RemoveSocket(s) => file \in {s, None}
  BY DEF OwnInv, NoOthersFile, RemoveSocket, Goto
<1>2. OwnInv /\ [Next]_vars
      => [\A s \in Serves : RemoveSocket(s) => file \in {s, None}]_vars
  BY <1>1
<1>3. QED
  BY <1>2, Ownership, PTL DEF Spec, ExitKeepsOthers

-----------------------------------------------------------------------------
(* The requests *)

\* What requests depend on, and its types.
reqVars == <<queue, stdin, handling, registered, client, conn, frame, ran>>

ReqTyped ==
    /\ queue \in [Serves -> Seq(Clients \cup {Eof})]
    /\ stdin \in [Serves -> BOOLEAN]
    /\ handling \in [Serves -> Clients \cup {None}]
    /\ registered \subseteq Clients
    /\ client \in [Clients -> {"idle", "direct", "waiting", "answered", "error"}]
    /\ conn \in [Clients -> Serves \cup {None}]
    /\ frame \in [Clients -> {"none", "backlog", "reader", "queue", "gone"}]
    /\ ran \in [Clients -> 0..1]

\* A command that has sent nothing has been carried out by nobody, and one
\* whose request is on its way is connected.
NotYet ==
    \A c \in Clients :
        /\ client[c] \in {"idle", "direct"}
              => frame[c] = "none" /\ conn[c] = None /\ ran[c] = 0
        /\ frame[c] \in {"backlog", "reader", "queue"} => conn[c] \in Serves /\ ran[c] = 0

\* A channel has each request at most once, and only its own connections'.
QueuedOnce ==
    \A s \in Serves : \A i \in 1..Len(queue[s]) : queue[s][i] # Eof =>
        /\ frame[queue[s][i]] = "queue" /\ conn[queue[s][i]] = s
        /\ \A j \in 1..Len(queue[s]) : queue[s][j] = queue[s][i] => j = i

\* Who is handled or answered has been carried out.
Carried ==
    /\ \A s \in Serves : handling[s] # None => ran[handling[s]] = 1
    /\ \A c \in Clients : client[c] = "answered" => ran[c] = 1

ReqInv == ReqTyped /\ NotYet /\ QueuedOnce /\ Carried

LEMMA ReqInit == Init => ReqInv
BY ControlPlaneAssumption DEF Init, ReqInv, ReqTyped, NotYet, QueuedOnce, Carried

\* Only a step that moves a queued request disturbs the channels.
LEMMA QueuesUndisturbed ==
    ASSUME ReqInv, UNCHANGED <<queue, conn>>,
           \A c \in Clients : frame[c] = "queue" => frame'[c] = "queue"
    PROVE  QueuedOnce'
<1>1. \A s \in Serves : \A i \in 1..Len(queue[s]) :
          queue[s][i] # Eof => queue[s][i] \in Clients
  BY DEF ReqInv, ReqTyped
<1>2. QED
  BY <1>1 DEF ReqInv, QueuedOnce

\* The end of a process takes its connections with it and leaves the others.
LEMMA ReqClosed ==
    ASSUME ReqInv, NEW s \in Serves, Closed(s)
    PROVE  ReqInv'
<1> USE ControlPlaneAssumption DEF ReqInv, Closed
<1>1. ReqTyped'
  BY DEF ReqTyped
<1>2. NotYet'
  BY DEF ReqTyped, NotYet
<1>3. QueuedOnce'
  BY DEF ReqTyped, QueuedOnce
<1>4. Carried'
  BY DEF ReqTyped, Carried
<1>5. QED
  BY <1>1, <1>2, <1>3, <1>4

\* The request taken out of the channel has not been carried out before.
LEMMA ReqTake ==
    ASSUME ReqInv, NEW s \in Serves, Take(s)
    PROVE  ReqInv'
<1> USE ControlPlaneAssumption DEF ReqInv
<1> DEFINE c == Head(queue[s])
<1>1. /\ queue[s] \in Seq(Clients \cup {Eof}) /\ queue[s] # <<>>
      /\ c = queue[s][1] /\ c \in Clients \cup {Eof}
      /\ Len(Tail(queue[s])) = Len(queue[s]) - 1 /\ Len(queue[s]) \in Nat \ {0}
      /\ \A i \in 1..Len(Tail(queue[s])) : Tail(queue[s])[i] = queue[s][i + 1]
      /\ Tail(queue[s]) \in Seq(Clients \cup {Eof})
  BY DEF Take, ReqTyped
<1>2. /\ queue' = [queue EXCEPT ![s] = Tail(queue[s])]
      /\ UNCHANGED <<stdin, registered, client, conn>>
  BY DEF Take, Received
<1>3. ASSUME frame' = frame \/ (c # Eof /\ frame' = [frame EXCEPT ![c] = "gone"])
      PROVE  QueuedOnce'
  <2> SUFFICES ASSUME NEW t \in Serves, NEW i \in 1..Len(queue'[t]), queue'[t][i] # Eof
               PROVE  /\ frame'[queue'[t][i]] = "queue" /\ conn'[queue'[t][i]] = t
                      /\ \A j \in 1..Len(queue'[t]) : queue'[t][j] = queue'[t][i] => j = i
    BY DEF QueuedOnce
  <2>1. c # Eof => conn[c] = s
    BY <1>1 DEF QueuedOnce
  <2> HIDE DEF c
  <2>2. CASE t = s
    <3>1. /\ queue'[t] = Tail(queue[s])
          /\ i \in 1..Len(Tail(queue[s]))
          /\ \A j \in 1..Len(Tail(queue[s])) : j + 1 \in 1..Len(queue[s]) /\ j + 1 # 1
      BY <1>1, <1>2, <2>2 DEF ReqTyped
    <3>2. /\ queue'[t][i] = queue[s][i + 1]
          /\ queue[s][i + 1] \in Clients
          /\ frame[queue[s][i + 1]] = "queue" /\ conn[queue[s][i + 1]] = s
          /\ \A j \in 1..Len(queue[s]) : queue[s][j] = queue[s][i + 1] => j = i + 1
      BY <1>1, <3>1 DEF QueuedOnce
    <3>3. 1 \in 1..Len(queue[s])
      BY <1>1
    <3>4. queue[s][i + 1] # c
      BY <1>1, <3>1, <3>2, <3>3
    <3>5. frame'[queue'[t][i]] = "queue" /\ conn'[queue'[t][i]] = t
      BY <1>2, <1>3, <2>2, <3>2, <3>4 DEF ReqTyped
    <3>6. ASSUME NEW j \in 1..Len(queue'[t]), queue'[t][j] = queue'[t][i] PROVE j = i
      BY <1>1, <3>1, <3>2, <3>6
    <3>7. QED
      BY <3>5, <3>6
  <2>3. CASE t # s
    <3>1. queue'[t] = queue[t] /\ queue[t][i] \in Clients
      BY <1>2, <2>3 DEF ReqTyped
    <3>2. frame[queue[t][i]] = "queue" /\ conn[queue[t][i]] = t
      BY <3>1 DEF QueuedOnce
    <3>3. frame'[queue[t][i]] = "queue"
      BY <1>3, <2>1, <2>3, <3>1, <3>2 DEF ReqTyped
    <3>4. \A j \in 1..Len(queue[t]) : queue[t][j] = queue[t][i] => j = i
      BY <3>1 DEF QueuedOnce
    <3>5. QED
      BY <1>2, <3>1, <3>2, <3>3, <3>4
  <2>4. QED
    BY <2>2, <2>3
<1>4. CASE c = Eof
  <2>1. UNCHANGED <<handling, frame, ran>>
    BY <1>4 DEF Take
  <2>2. ReqTyped' /\ NotYet' /\ Carried'
    BY <1>1, <1>2, <2>1 DEF ReqTyped, NotYet, Carried
  <2>3. QED
    BY <2>1, <2>2, <1>3
<1>5. CASE c # Eof
  <2>1. /\ handling' = [handling EXCEPT ![s] = c]
        /\ frame' = [frame EXCEPT ![c] = "gone"]
        /\ ran' = [ran EXCEPT ![c] = @ + 1]
    BY <1>5 DEF Take
  <2>2. c \in Clients /\ frame[c] = "queue" /\ conn[c] = s /\ ran[c] = 0
    BY <1>1, <1>5 DEF QueuedOnce, NotYet
  <2> HIDE DEF c
  <2>3. ReqTyped' /\ NotYet' /\ Carried'
    BY <1>1, <1>2, <2>1, <2>2 DEF ReqTyped, NotYet, Carried
  <2>4. QED
    BY <2>1, <2>3, <1>3, <1>5
<1>6. QED
  BY <1>4, <1>5

LEMMA ReqNext == ReqInv /\ [Next]_vars => ReqInv'
<1> SUFFICES ASSUME ReqInv, [Next]_vars PROVE ReqInv'
  OBVIOUS
<1> USE ControlPlaneAssumption
<1>1. CASE UNCHANGED reqVars
  BY <1>1 DEF reqVars, ReqInv, ReqTyped, NotYet, QueuedOnce, Carried
<1>2. ASSUME NEW s \in Serves, ServeStep(s) PROVE ReqInv'
  <2>1. CASE NoIO
    BY <2>1, <1>1 DEF NoIO, connVars, reqVars
  <2>2. CASE Closed(s)
    BY <2>2, ReqClosed
  <2>3. CASE StdinCloses(s)
    <3>1. /\ stdin' = [stdin EXCEPT ![s] = FALSE]
          /\ queue' = [queue EXCEPT ![s] = Append(queue[s], Eof)]
          /\ UNCHANGED <<handling, registered, client, conn, frame, ran>>
      BY <2>3 DEF StdinCloses, connVars
    <3>2. /\ queue[s] \in Seq(Clients \cup {Eof}) /\ Len(queue[s]) \in Nat
          /\ Append(queue[s], Eof) \in Seq(Clients \cup {Eof})
          /\ Len(Append(queue[s], Eof)) = Len(queue[s]) + 1
          /\ \A i \in 1..Len(queue[s]) : Append(queue[s], Eof)[i] = queue[s][i]
          /\ Append(queue[s], Eof)[Len(queue[s]) + 1] = Eof
      BY DEF ReqInv, ReqTyped
    <3>3. ReqTyped'
      BY <3>1, <3>2 DEF ReqInv, ReqTyped
    <3>4. NotYet' /\ Carried'
      BY <3>1 DEF ReqInv, NotYet, Carried
    <3>5. ASSUME NEW t \in Serves, NEW i \in 1..Len(queue'[t]), queue'[t][i] # Eof
          PROVE  i \in 1..Len(queue[t]) /\ queue'[t][i] = queue[t][i]
      <4>1. CASE t = s
        <5>1. queue'[s] = Append(queue[s], Eof)
          BY <3>1 DEF ReqInv, ReqTyped
        <5>2. QED
          BY <3>2, <3>5, <4>1, <5>1
      <4>2. CASE t # s
        BY <3>1, <3>5, <4>2 DEF ReqInv, ReqTyped
      <4>3. QED
        BY <4>1, <4>2
    <3>6. QueuedOnce'
      <4> SUFFICES ASSUME NEW t \in Serves, NEW i \in 1..Len(queue'[t]), queue'[t][i] # Eof
                   PROVE  /\ frame'[queue'[t][i]] = "queue" /\ conn'[queue'[t][i]] = t
                          /\ \A j \in 1..Len(queue'[t]) : queue'[t][j] = queue'[t][i] => j = i
        BY DEF QueuedOnce
      <4>1. /\ i \in 1..Len(queue[t]) /\ queue'[t][i] = queue[t][i]
            /\ \A j \in 1..Len(queue'[t]) :
                  queue'[t][j] # Eof => j \in 1..Len(queue[t]) /\ queue'[t][j] = queue[t][j]
        BY <3>5
      <4>2. /\ frame[queue[t][i]] = "queue" /\ conn[queue[t][i]] = t
            /\ \A j \in 1..Len(queue[t]) : queue[t][j] = queue[t][i] => j = i
        BY <4>1 DEF ReqInv, QueuedOnce
      <4>3. QED
        BY <3>1, <4>1, <4>2
    <3>7. QED
      BY <3>3, <3>4, <3>6 DEF ReqInv
  <2>4. CASE Take(s)
    BY <2>4, ReqTake
  <2>5. CASE Respond(s)
    <3>0. Recipient(s) # None => Recipient(s) \in Clients /\ handling[s] = Recipient(s)
      BY DEF Recipient, ReqInv, ReqTyped
    <3>1. ReqTyped' /\ NotYet' /\ Carried'
      <4>1. ReqTyped'
        BY <2>5, <3>0 DEF Respond, ReqInv, ReqTyped
      <4>2. NotYet'
        BY <2>5, <3>0 DEF Respond, ReqInv, ReqTyped, NotYet
      <4>3. Carried'
        BY <2>5, <3>0 DEF Respond, ReqInv, ReqTyped, Carried
      <4>4. QED
        BY <4>1, <4>2, <4>3
    <3>2. QueuedOnce'
      BY <2>5, QueuesUndisturbed DEF Respond, Recipient
    <3>3. QED
      BY <3>1, <3>2 DEF ReqInv
  <2>6. CASE ResponseLost(s)
    <3>1. /\ handling' = [handling EXCEPT ![s] = None] /\ registered' \subseteq registered
          /\ UNCHANGED <<queue, stdin, client, conn, frame, ran>>
      BY <2>6 DEF ResponseLost
    <3>2. ReqTyped' /\ NotYet' /\ Carried'
      BY <3>1 DEF ReqInv, ReqTyped, NotYet, Carried
    <3>3. QueuedOnce'
      BY <3>1, QueuesUndisturbed
    <3>4. QED
      BY <3>2, <3>3 DEF ReqInv
  <2>7. QED
    BY <1>2, <2>1, <2>2, <2>3, <2>4, <2>5, <2>6
       DEF ServeStep, BindSocket, Start, Probe, Unlink, Bind, Listen, Chmod, ChmodFails,
           NewGuard, NewGuardFails, StartupDone, StartupFails, StdoutCloses, Stall,
           Leave, DropSessions, DropGuard, RemoveSocket, ProcessEnds, Crash
<1>3. ASSUME NEW c \in Clients, ClientStep(c) PROVE ReqInv'
  <2>1. CASE TryCall(c)
    <3>1. ReqTyped' /\ NotYet' /\ Carried'
      <4>1. CASE Reachable
        <5>1. /\ UNCHANGED <<queue, stdin, handling, registered, ran>>
              /\ client[c] = "idle" /\ file \in Serves
              /\ client' = [client EXCEPT ![c] = "waiting"]
              /\ conn' = [conn EXCEPT ![c] = file]
              /\ frame' = [frame EXCEPT ![c] = "backlog"]
          BY <2>1, <4>1 DEF TryCall, Reachable, procVars
        <5>2. ReqTyped' /\ Carried'
          BY <5>1 DEF ReqInv, ReqTyped, Carried
        <5>3. ran[c] = 0
          BY <5>1 DEF ReqInv, NotYet
        <5>4. NotYet'
          BY <5>1, <5>3 DEF ReqInv, ReqTyped, NotYet
        <5>5. QED
          BY <5>2, <5>4
      <4>2. CASE ~Reachable
        BY <2>1, <4>2 DEF TryCall, procVars, ReqInv, ReqTyped, NotYet, Carried
      <4>3. QED
        BY <4>1, <4>2
    <3>2. QueuedOnce'
      BY <2>1 DEF TryCall, Reachable, procVars, ReqInv, ReqTyped, NotYet, QueuedOnce
    <3>3. QED
      BY <3>1, <3>2 DEF ReqInv
  <2>2. CASE RunDirect(c)
    <3>1. /\ UNCHANGED <<queue, stdin, handling, registered, conn, frame>>
          /\ client[c] = "direct" /\ ran[c] = 0
          /\ \/ /\ client' = [client EXCEPT ![c] = "answered"]
                /\ ran' = [ran EXCEPT ![c] = @ + 1]
             \/ client' = [client EXCEPT ![c] = "error"] /\ ran' = ran
      BY <2>2 DEF RunDirect, procVars, ReqInv, NotYet
    <3>2. ReqTyped'
      <4>1. ran' \in [Clients -> 0..1]
        <5>1. ran \in [Clients -> 0..1]
          BY DEF ReqInv, ReqTyped
        <5>2. ran' = ran \/ ran' = [ran EXCEPT ![c] = 1]
          BY <3>1, <5>1
        <5>3. QED
          BY <5>1, <5>2
      <4>2. client' \in [Clients -> {"idle", "direct", "waiting", "answered", "error"}]
        <5>1. client \in [Clients -> {"idle", "direct", "waiting", "answered", "error"}]
          BY DEF ReqInv, ReqTyped
        <5>2. PICK k \in {"answered", "error"} : client' = [client EXCEPT ![c] = k]
          BY <3>1
        <5>3. QED
          BY <5>1, <5>2
      <4>3. UNCHANGED <<queue, stdin, handling, registered, conn, frame>>
        BY <3>1
      <4>4. QED
        BY <4>1, <4>2, <4>3 DEF ReqInv, ReqTyped
    <3>3. NotYet' /\ Carried'
      <4>1. /\ \A d \in Clients : d # c => client'[d] = client[d] /\ ran'[d] = ran[d]
            /\ client'[c] = "error" \/ (client'[c] = "answered" /\ ran'[c] = 1)
            /\ frame[c] = "none"
        BY <3>1 DEF ReqInv, ReqTyped, NotYet
      <4>2. NotYet'
        BY <3>1, <4>1 DEF ReqInv, NotYet
      <4>3. \A s \in Serves : handling[s] # c
        BY <3>1 DEF ReqInv, Carried
      <4>4. Carried'
        BY <3>1, <4>1, <4>3 DEF ReqInv, ReqTyped, Carried
      <4>5. QED
        BY <4>2, <4>4
    <3>4. QueuedOnce'
      BY <2>2, QueuesUndisturbed DEF RunDirect, procVars
    <3>5. QED
      BY <3>2, <3>3, <3>4 DEF ReqInv
  <2>3. CASE Accept(c)
    BY <2>3 DEF Accept, procVars, ReqInv, ReqTyped, NotYet, QueuedOnce, Carried
  <2>4. CASE Forward(c)
    BY <2>4 DEF Forward, ReqInv, ReqTyped, NotYet, QueuedOnce, Carried
  <2>5. CASE Unregister(c) \/ GiveUp(c)
    <3>1. ReqTyped' /\ NotYet' /\ Carried'
      <4>1. CASE Unregister(c)
        <5>1. ReqTyped'
          BY <4>1 DEF Unregister, procVars, ReqInv, ReqTyped
        <5>2. NotYet'
          BY <4>1 DEF Unregister, procVars, ReqInv, ReqTyped, NotYet
        <5>3. Carried'
          BY <4>1 DEF Unregister, procVars, ReqInv, ReqTyped, Carried
        <5>4. QED
          BY <5>1, <5>2, <5>3
      <4>2. CASE GiveUp(c)
        <5>1. ReqTyped'
          BY <4>2 DEF GiveUp, procVars, ReqInv, ReqTyped
        <5>2. NotYet'
          BY <4>2 DEF GiveUp, procVars, ReqInv, ReqTyped, NotYet
        <5>3. Carried'
          BY <4>2 DEF GiveUp, procVars, ReqInv, ReqTyped, Carried
        <5>4. QED
          BY <5>1, <5>2, <5>3
      <4>3. QED
        BY <2>5, <4>1, <4>2
    <3>2. QueuedOnce'
      BY <2>5, QueuesUndisturbed DEF Unregister, GiveUp, procVars
    <3>3. QED
      BY <3>1, <3>2 DEF ReqInv
  <2>6. CASE AcceptFails(c)
    <3>1. /\ frame[c] = "backlog" /\ frame' = [frame EXCEPT ![c] = "gone"]
          /\ client' = client \/ (client[c] = "waiting" /\ client' = [client EXCEPT ![c] = "error"])
          /\ UNCHANGED <<queue, stdin, handling, registered, conn, ran>>
      BY <2>6 DEF AcceptFails, procVars
    <3>2. ReqTyped' /\ NotYet' /\ Carried'
      <4>1. ReqTyped'
        BY <3>1 DEF ReqInv, ReqTyped
      <4>2. NotYet'
        BY <3>1 DEF ReqInv, ReqTyped, NotYet
      <4>3. Carried'
        BY <3>1 DEF ReqInv, ReqTyped, Carried
      <4>4. QED
        BY <4>1, <4>2, <4>3
    <3>3. \A d \in Clients : frame[d] = "queue" => frame'[d] = "queue"
      BY <3>1 DEF ReqInv, ReqTyped
    <3>4. QueuedOnce'
      BY <3>1, <3>3, QueuesUndisturbed
    <3>5. QED
      BY <3>2, <3>4 DEF ReqInv
  <2>7. QED
    BY <1>3, <2>1, <2>2, <2>3, <2>4, <2>5, <2>6 DEF ClientStep
<1>4. QED
  BY <1>1, <1>2, <1>3 DEF Next, RemoveFile, vars, procVars, connVars, reqVars

\* A request is carried out at most once, over the socket or directly, and a
\* command reports success only if it was, whatever crashes, times out or
\* starts meanwhile (cli/socket.rs, serve.rs).
THEOREM RequestsOnce == Spec => []CarriedOutOnce
<1>1. ReqInv => CarriedOutOnce
  BY DEF ReqInv, ReqTyped, Carried, CarriedOutOnce
<1>2. QED
  BY <1>1, ReqInit, ReqNext, PTL DEF Spec
-----------------------------------------------------------------------------
(* Typing *)

TypedInv == ReqInv /\ OwnTyped /\ removals <= MaxRemovals

LEMMA OwnTypedNext ==
    ASSUME OwnTyped, removals <= MaxRemovals, [Next]_vars
    PROVE  OwnTyped' /\ removals' <= MaxRemovals'
<1> USE ControlPlaneAssumption DEF OwnTyped, Phases, Binding, Owning, Leaving, Ended
<1>1. CASE UNCHANGED ownVars
  BY <1>1 DEF ownVars
<1>2. CASE RemoveFile
  BY <1>2 DEF RemoveFile, procVars
<1>3. ASSUME NEW s \in Serves, OwnStep(s) PROVE OwnTyped' /\ removals' = removals
  BY <1>3 DEF OwnStep, Moves, Start, Probe, ClassifyProbe, Unlink, Bind, Listen, Chmod,
              NewGuard, DropGuard, RemoveSocket, Goto
<1>4. QED
  BY <1>1, <1>2, <1>3, OwnSteps

\* The control plane is well typed, however processes, threads, clients and
\* operators interleave (serve.rs, cli/socket.rs).
THEOREM TypeCorrect == Spec => []TypeOK
<1>1. Init => TypedInv
  BY ReqInit, ControlPlaneAssumption
     DEF Init, TypedInv, OwnTyped, Phases, Binding, Owning, Leaving, Ended
<1>2. TypedInv /\ [Next]_vars => TypedInv'
  BY ReqNext, OwnTypedNext DEF TypedInv
<1>3. TypedInv => TypeOK
  <2> SUFFICES ASSUME TypedInv PROVE TypeOK
    OBVIOUS
  <2>1. ran \in [Clients -> 0..2]
    BY DEF TypedInv, ReqInv, ReqTyped
  <2>2. QED
    BY <2>1, ControlPlaneAssumption DEF TypedInv, ReqInv, ReqTyped, OwnTyped, TypeOK
<1>4. QED
  BY <1>1, <1>2, <1>3, PTL DEF Spec

-----------------------------------------------------------------------------
(* What an orderly exit leaves, however starts overlap *)

\* The process a file is named after has bound it and has not unlinked it, and
\* if it has a guard, that is the file's: a guard of another file was taken
\* when its own was gone for good.
FileGuarded ==
    file \in Serves =>
        /\ phase[file] \notin {"new", "probe", "unlink", "bind", "exiting", "ended"}
        /\ phase[file] \in Owning \cup Leaving => guard[file] = file

GuardedInv == OwnTyped /\ removals <= MaxRemovals /\ FileGuarded

LEMMA GuardedNext == GuardedInv /\ [Next]_vars => GuardedInv'
<1> SUFFICES ASSUME GuardedInv, [Next]_vars PROVE GuardedInv'
  OBVIOUS
<1>1. OwnTyped /\ OwnTyped' /\ removals' <= MaxRemovals'
  BY OwnTypedNext DEF GuardedInv
<1> USE ControlPlaneAssumption DEF OwnTyped, FileGuarded, Phases, Binding, Owning, Leaving, Ended
<1>2. FileGuarded
  BY DEF GuardedInv
<1>3. ASSUME UNCHANGED ownVars PROVE FileGuarded'
  BY <1>2, <1>3 DEF ownVars
<1>4. ASSUME RemoveFile PROVE FileGuarded'
  BY <1>4 DEF RemoveFile
<1>5. ASSUME NEW s \in Serves, OwnStep(s) PROVE FileGuarded'
  <2>1. CASE Start(s) \/ Probe(s)
    BY <1>1, <1>2, <2>1 DEF Start, Probe, Goto
  <2>2. CASE Unlink(s) \/ RemoveSocket(s)
    BY <2>2 DEF Unlink, RemoveSocket
  <2>3. CASE Bind(s)
    BY <1>1, <1>2, <2>3 DEF Bind, Goto
  <2>4. CASE Listen(s) \/ Chmod(s)
    BY <1>1, <1>2, <2>4 DEF Listen, Chmod, Goto
  <2>5. CASE NewGuard(s)
    BY <1>1, <1>2, <2>5 DEF NewGuard, Goto
  <2>6. CASE DropGuard(s)
    BY <1>1, <1>2, <2>6 DEF DropGuard, SameFile, Goto
  <2>7. CASE /\ \/ \E from \in {"chmod", "stat"} : Moves(s, from, "failed")
                \/ Moves(s, "startup", "serving")
                \/ \E from \in {"startup", "serving"}, to \in {"closing", "stuck"} : Moves(s, from, to)
                \/ Moves(s, "closing", "checking")
                \/ Moves(s, "exiting", "ended")
                \/ \E from \in Phases \ ({"new"} \cup Ended) : Moves(s, from, "crashed")
             /\ UNCHANGED <<file, guard>>
    BY <1>1, <1>2, <2>7 DEF Moves
  <2>8. QED
    BY <1>5, <2>1, <2>2, <2>3, <2>4, <2>5, <2>6, <2>7 DEF OwnStep
<1>6. FileGuarded'
  BY <1>1, <1>3, <1>4, <1>5, OwnSteps
<1>7. QED
  BY <1>1, <1>6 DEF GuardedInv

\* An orderly exit, that of a failed startup included, leaves no socket file of
\* the process behind, even when processes start and leave at the same time
\* and remove each other's files (serve.rs SocketGuard).
THEOREM OrderlyExitsUnlink == Spec => []CleanExitUnlinks
<1>1. Init => GuardedInv
  BY ControlPlaneAssumption
     DEF Init, GuardedInv, OwnTyped, FileGuarded, Phases, Binding, Owning, Leaving, Ended
<1>2. GuardedInv => CleanExitUnlinks
  BY ControlPlaneAssumption DEF GuardedInv, FileGuarded, CleanExitUnlinks
<1>3. QED
  BY <1>1, <1>2, GuardedNext, PTL DEF Spec

-----------------------------------------------------------------------------
(* What ends a wait *)

\* A waiting command stops waiting without a response in one step only by its
\* own timeout or kill, by a refused connection whose request nobody has read,
\* or by a step that ends the process it reached.
LEMMA WaitLost ==
    ASSUME TypeOK, HalfClosers = {}, Next, NEW c \in Clients,
           client[c] = "waiting", client'[c] = "error"
    PROVE  GiveUp(c) \/ frame[c] = "backlog" \/ phase'[conn[c]] \in Ended
<1>1. CASE RemoveFile
  BY <1>1 DEF RemoveFile, connVars
<1>2. ASSUME NEW s \in Serves, ServeStep(s)
      PROVE  phase'[conn[c]] \in Ended
  <2>1. CASE Closed(s) /\ phase' = [phase EXCEPT ![s] = phase'[s]] /\ phase'[s] \in Ended
    BY <2>1 DEF Closed
  <2>2. CASE ChmodFails(s) \/ NewGuardFails(s) \/ ProcessEnds(s) \/ Crash(s)
    BY <2>1, <2>2 DEF ChmodFails, NewGuardFails, ProcessEnds, Crash, Goto, TypeOK, Ended
  <2>3. CASE Respond(s)
    BY <2>3 DEF Respond, TypeOK
  <2>4. CASE UNCHANGED client
    BY <2>4
  <2>5. QED
    BY <1>2, <2>2, <2>3, <2>4
       DEF ServeStep, BindSocket, Start, Probe, Unlink, Bind, Listen, Chmod, NewGuard,
           StartupDone, StartupFails, StdinCloses, StdoutCloses, Stall, Take, ResponseLost,
           Leave, DropSessions, DropGuard, RemoveSocket, NoIO, connVars
<1>3. ASSUME NEW d \in Clients, ClientStep(d)
      PROVE  GiveUp(c) \/ frame[c] = "backlog"
  <2>1. CASE GiveUp(d)
    BY <2>1 DEF GiveUp, TypeOK
  <2>2. CASE Unregister(d)
    BY <2>2 DEF Unregister, SendsNoMore, TypeOK
  <2>3. CASE TryCall(d) \/ RunDirect(d)
    BY <2>3 DEF TryCall, RunDirect, TypeOK
  <2>4. CASE Accept(d) \/ Forward(d)
    BY <2>4 DEF Accept, Forward
  <2>5. CASE AcceptFails(d)
    BY <2>5 DEF AcceptFails, TypeOK
  <2>6. QED
    BY <1>3, <2>1, <2>2, <2>3, <2>4, <2>5 DEF ClientStep
<1>4. QED
  BY <1>1, <1>2, <1>3 DEF Next

\* A command that keeps its sending side open, as every command of this program
\* does (cli/socket.rs try_call), and whose request has been read sees its
\* connection end without a response only by giving up or by the end of the
\* process it reached, whatever else starts, leaves or crashes.
\* A client that half-closes does lose it: its reader thread drops the write
\* half at end of file (spawn_socket_acceptor).
THEOREM WaitsAreKept ==
    ASSUME HalfClosers = {}
    PROVE  Spec => NoLostResponse
<1>1. TypeOK /\ [Next]_vars =>
        [\A c \in Clients :
            client[c] = "waiting" /\ client'[c] = "error"
            => GiveUp(c) \/ frame[c] = "backlog" \/ phase'[conn[c]] \in Ended]_vars
  BY WaitLost DEF vars
<1>2. QED
  BY <1>1, TypeCorrect, PTL DEF Spec, NoLostResponse

-----------------------------------------------------------------------------
(* The lines of a prefix *)

Text == Bytes \ {"n"}

\* The lines of what has been read, the last of them perhaps not ended.
Splits == {ls \in Seq(Seq(Text)) : ls # <<>>}

\* A last line without a byte is none.
LinesEnded(ls) == IF Last(ls) = <<>> THEN Front(ls) ELSE ls

IsSplit(p, s) ==
    /\ p[0] = <<<<>>>>
    /\ \A k \in 1..Len(s) : p[k] = Grown(p[k - 1], s[k])
    /\ \A k \in 0..Len(s) : p[k] \in Splits
    /\ Lines(s) = LinesEnded(p[Len(s)])

Split(s) == CHOOSE p : IsSplit(p, s)

LEMMA GrownSplit ==
    ASSUME NEW ls \in Splits, NEW b \in Bytes
    PROVE  Grown(ls, b) \in Splits
<1>1. ls \in Seq(Seq(Text)) /\ Len(ls) \in Nat \ {0} /\ <<>> \in Seq(Text)
  BY DEF Splits
<1>2. CASE b = "n"
  <2>1. Append(ls, <<>>) \in Seq(Seq(Text)) /\ Append(ls, <<>>) # <<>>
    BY <1>1, AppendProperties
  <2>2. QED
    BY <1>2, <2>1 DEF Grown, Splits
<1>3. CASE b # "n"
  <2>1. ls[Len(ls)] \in Seq(Text) /\ b \in Text
    BY <1>1, <1>3 DEF Text
  <2>2. Append(ls[Len(ls)], b) \in Seq(Text)
    BY <2>1
  <2>3. [ls EXCEPT ![Len(ls)] = Append(ls[Len(ls)], b)] \in Seq(Seq(Text))
    BY <1>1, <2>2
  <2>4. Len([ls EXCEPT ![Len(ls)] = Append(ls[Len(ls)], b)]) = Len(ls)
    BY <1>1
  <2>5. QED
    BY <1>1, <1>3, <2>3, <2>4 DEF Grown, Splits
<1>4. QED
  BY <1>2, <1>3

LEMMA SplitRounds ==
    ASSUME NEW s \in Seq(Bytes)
    PROVE  IsSplit(Split(s), s)
<1> DEFINE n == Len(s)
           base == <<<<>>>>
           step == [k \in 1..n |-> [ls \in Splits |-> Grown(ls, s[k])]]
           Eq(h) == h = [S \in SUBSET DOMAIN s |->
                           IF S = {} THEN base
                           ELSE Grown(h[S \ {Max(S)}], s[Max(S)])]
<1>1. n \in Nat /\ DOMAIN s = 1..n /\ \A k \in 1..n : s[k] \in Bytes
  OBVIOUS
<1>2. base \in Splits
  BY DEF Splits
<1>3. step \in [1..n -> [Splits -> Splits]]
  BY <1>1, GrownSplit
<1>4. PICK h \in [SUBSET (1..n) -> Splits] : Folds(h, n, base, step)
  <2> HIDE DEF n, base, step
  <2>1. QED
    BY <1>1, <1>2, <1>3, FoldExists
<1>5. ASSUME NEW S \in SUBSET (1..n), S # {}
      PROVE  /\ Max(S) \in 1..n /\ S \ {Max(S)} \in SUBSET (1..n)
             /\ \A ls \in Splits : step[Max(S)][ls] = Grown(ls, s[Max(S)])
  BY <1>1, <1>5, Greatest
<1>6. Eq(h)
  <2>1. ASSUME NEW S \in SUBSET (1..n), S # {}
        PROVE  h[S] = Grown(h[S \ {Max(S)}], s[Max(S)])
    <3>1. h[S] = step[Max(S)][h[S \ {Max(S)}]]
      BY <1>4, <2>1 DEF Folds
    <3>2. h[S \ {Max(S)}] \in Splits
      BY <1>4, <1>5, <2>1
    <3>3. QED
      BY <3>1, <3>2, <1>5, <2>1
  <2>2. h[{}] = base
    BY <1>4 DEF Folds
  <2> HIDE DEF base
  <2>3. QED
    BY <2>1, <2>2, <1>1, <1>4
<1>7. PICK f : Eq(f) /\ Lines(s) = LinesEnded(f[DOMAIN s])
  <2>1. PICK f : Eq(f) /\ FoldLeft(Grown, <<<<>>>>, s) = f[DOMAIN s]
    BY <1>6, Zenon DEF FoldLeft, MapThenFoldSet
  <2>2. Lines(s) = LinesEnded(FoldLeft(Grown, <<<<>>>>, s))
    BY Zenon DEF Lines, LinesEnded
  <2>3. QED
    BY <2>1, <2>2
<1> DEFINE p == [k \in 0..n |-> f[1..k]]
<1>8. p[0] = base
  BY <1>1, <1>7
<1>9. ASSUME NEW k \in 1..n
      PROVE  p[k] = Grown(p[k - 1], s[k])
  <2>1. 1..k \in SUBSET DOMAIN s /\ 1..k # {} /\ k \in 0..n /\ k - 1 \in 0..n
    BY <1>1
  <2>2. Max(1..k) = k /\ (1..k) \ {Max(1..k)} = 1..(k - 1)
    BY <1>1, GreatestOfPrefix
  <2>3. f[1..k] = Grown(f[(1..k) \ {Max(1..k)}], s[Max(1..k)])
    BY <1>7, <2>1
  <2>4. QED
    BY <2>1, <2>2, <2>3
<1>10. \A k \in 0..n : p[k] \in Splits
  <2> DEFINE U == {k \in 0..n : p[k] \in Splits}
  <2> HIDE DEF p, n, base
  <2>1. 0 \in U
    <3>1. 0 \in 0..n
      BY <1>1
    <3>2. QED
      BY <1>2, <1>8, <3>1
  <2>2. ASSUME NEW k \in 0..n, k \in U, k < n
        PROVE  k + 1 \in U
    <3>1. k + 1 \in 1..n /\ k + 1 \in 0..n /\ (k + 1) - 1 = k
      BY <1>1, <2>2
    <3>2. p[k + 1] = Grown(p[k], s[k + 1])
      BY <3>1, <1>9
    <3>3. p[k] \in Splits /\ s[k + 1] \in Bytes
      BY <3>1, <1>1, <2>2
    <3>4. QED
      BY <3>1, <3>2, <3>3, GrownSplit
  <2>3. 0..n \subseteq U
    <3> HIDE DEF U
    <3>1. QED
      BY <1>1, <2>1, <2>2, AllUpTo
  <2>4. QED
    BY <2>3
<1>11. Lines(s) = LinesEnded(p[n])
  BY <1>1, <1>7
<1>12. IsSplit(p, s)
  BY <1>8, <1>9, <1>10, <1>11 DEF IsSplit
<1>13. QED
  BY <1>12 DEF Split

\* Reading on changes no line that is ended, and only appends to the last one.
Extends(t, ls) ==
    /\ Len(ls) <= Len(t)
    /\ \A i \in 1..(Len(ls) - 1) : t[i] = ls[i]
    /\ Len(ls[Len(ls)]) <= Len(t[Len(ls)])
    /\ \A i \in 1..Len(ls[Len(ls)]) : t[Len(ls)][i] = ls[Len(ls)][i]

LEMMA GrownExtends ==
    ASSUME NEW ls \in Splits, NEW t \in Splits, NEW b \in Bytes, Extends(t, ls)
    PROVE  Extends(Grown(t, b), ls)
<1>1. /\ ls \in Seq(Seq(Text)) /\ Len(ls) \in Nat \ {0}
      /\ t \in Seq(Seq(Text)) /\ Len(t) \in Nat \ {0}
      /\ <<>> \in Seq(Text)
  BY DEF Splits
<1>2. ls[Len(ls)] \in Seq(Text) /\ t[Len(t)] \in Seq(Text)
  BY <1>1
<1>3. CASE b = "n"
  <2>1. /\ Grown(t, b) = Append(t, <<>>)
        /\ Len(Append(t, <<>>)) = Len(t) + 1
        /\ \A i \in 1..Len(t) : Append(t, <<>>)[i] = t[i]
    BY <1>1, <1>3, AppendProperties DEF Grown
  <2>2. Len(ls) \in 1..Len(t) /\ \A i \in 1..(Len(ls) - 1) : i \in 1..Len(t)
    BY <1>1 DEF Extends
  <2>3. QED
    BY <1>1, <2>1, <2>2 DEF Extends
<1>4. CASE b # "n"
  <2> DEFINE line == Append(t[Len(t)], b)
  <2>1. /\ Len(line) = Len(t[Len(t)]) + 1
        /\ \A i \in 1..Len(t[Len(t)]) : line[i] = t[Len(t)][i]
    BY <1>2, AppendProperties, <1>4 DEF Text
  <2>2. Grown(t, b) = [t EXCEPT ![Len(t)] = line]
    BY <1>4 DEF Grown
  <2> HIDE DEF line
  <2>3. /\ Len(Grown(t, b)) = Len(t)
        /\ Grown(t, b)[Len(t)] = line
        /\ \A i \in 1..Len(t) : i # Len(t) => Grown(t, b)[i] = t[i]
    BY <1>1, <2>2
  <2>4. Len(ls) \in 1..Len(t) /\ \A i \in 1..(Len(ls) - 1) : i \in 1..Len(t) /\ i # Len(t)
    BY <1>1 DEF Extends
  <2>5. Len(t[Len(t)]) \in Nat /\ Len(ls[Len(ls)]) \in Nat
    BY <1>2
  <2>6. CASE Len(ls) = Len(t)
    <3>1. /\ Len(t[Len(t)]) >= Len(ls[Len(t)])
          /\ \A i \in 1..Len(ls[Len(t)]) : t[Len(t)][i] = ls[Len(t)][i]
      BY <2>6 DEF Extends
    <3>2. /\ Len(ls[Len(t)]) <= Len(line)
          /\ \A i \in 1..Len(ls[Len(t)]) : line[i] = ls[Len(t)][i]
      BY <2>1, <2>5, <2>6, <3>1
    <3>3. \A i \in 1..(Len(t) - 1) : Grown(t, b)[i] = ls[i]
      BY <2>3, <2>4, <2>6 DEF Extends
    <3>4. QED
      BY <2>3, <2>6, <3>2, <3>3, <1>1 DEF Extends
  <2>7. CASE Len(ls) # Len(t)
    BY <1>1, <2>3, <2>4, <2>7 DEF Extends
  <2>8. QED
    BY <2>6, <2>7
<1>5. QED
  BY <1>3, <1>4

LEMMA Persists ==
    ASSUME NEW s \in Seq(Bytes), NEW j \in 0..Len(s), NEW k \in j..Len(s)
    PROVE  Extends(Split(s)[k], Split(s)[j])
<1> DEFINE n == Len(s)
           p == Split(s)
           U == {m \in 0..n : m >= j => Extends(p[m], p[j])}
<1>1. /\ n \in Nat /\ j \in 0..n /\ k \in 0..n /\ k >= j
      /\ \A m \in 1..n : s[m] \in Bytes
  OBVIOUS
<1>2. /\ \A m \in 1..n : p[m] = Grown(p[m - 1], s[m])
      /\ \A m \in 0..n : p[m] \in Splits
  BY SplitRounds DEF IsSplit
<1> HIDE DEF n, p
<1>3. Extends(p[j], p[j])
  <2>1. p[j] \in Splits
    BY <1>1, <1>2
  <2>2. Len(p[j]) \in Nat \ {0} /\ Len(p[j][Len(p[j])]) \in Nat
    BY <2>1 DEF Splits
  <2>3. QED
    BY <2>2 DEF Extends
<1>4. 0 \in U
  BY <1>1, <1>3
<1>5. ASSUME NEW m \in 0..n, m \in U, m < n
      PROVE  m + 1 \in U
  <2>1. m + 1 \in 1..n /\ m + 1 \in 0..n /\ (m + 1) - 1 = m
    BY <1>1, <1>5
  <2>2. CASE m + 1 = j
    BY <1>3, <2>1, <2>2
  <2>3. CASE m + 1 < j
    BY <1>1, <2>1, <2>3
  <2>4. CASE m >= j
    <3>1. Extends(p[m], p[j])
      BY <1>5, <2>4
    <3>2. p[m] \in Splits /\ p[j] \in Splits /\ s[m + 1] \in Bytes
      BY <1>1, <1>2, <2>1
    <3>3. p[m + 1] = Grown(p[m], s[m + 1])
      BY <1>2, <2>1
    <3>4. Extends(p[m + 1], p[j])
      BY <3>1, <3>2, <3>3, GrownExtends
    <3>5. QED
      BY <2>1, <3>4
  <2>5. QED
    BY <1>1, <2>1, <2>2, <2>3, <2>4
<1>6. k \in U
  <2> HIDE DEF U
  <2>1. 0..n \subseteq U
    BY <1>1, <1>4, <1>5, AllUpTo
  <2>2. QED
    BY <1>1, <2>1
<1>7. QED
  BY <1>1, <1>6 DEF n, p

\* What bytes without a newline do.
Longer(ls, t) == [ls EXCEPT ![Len(ls)] = @ \o t]

LEMMA AppendAfter ==
    ASSUME NEW a \in Seq(Bytes), NEW t \in Seq(Bytes), NEW x \in Bytes
    PROVE  Append(a \o t, x) = a \o Append(t, x)
<1>1. a \o t \in Seq(Bytes) /\ <<x>> \in Seq(Bytes)
  BY ConcatProperties
<1>2. Append(a \o t, x) = (a \o t) \o <<x>> /\ Append(t, x) = t \o <<x>>
  BY <1>1, AppendIsConcat
<1>3. QED
  BY <1>1, <1>2, ConcatAssociative

LEMMA PartRead ==
    ASSUME NEW s \in Seq(Bytes), NEW j \in 0..Len(s), NEW k \in j..Len(s),
           \A i \in (j + 1)..k : s[i] # "n"
    PROVE  Split(s)[k] = Longer(Split(s)[j], SubSeq(s, j + 1, k))
<1> DEFINE n == Len(s)
           p == Split(s)
           part(m) == SubSeq(s, j + 1, m)
           U == {m \in 0..n : j <= m /\ m <= k => p[m] = Longer(p[j], part(m))}
<1>1. /\ n \in Nat /\ j \in 0..n /\ k \in 0..n /\ k >= j
      /\ \A m \in 1..n : s[m] \in Bytes
  OBVIOUS
<1>2. /\ \A m \in 1..n : p[m] = Grown(p[m - 1], s[m])
      /\ \A m \in 0..n : p[m] \in Splits
  BY SplitRounds DEF IsSplit
<1>3. /\ part(j) = <<>>
      /\ \A m \in j..n : part(m) \in Seq(Bytes)
      /\ \A m \in j..(n - 1) : part(m + 1) = Append(part(m), s[m + 1])
  <2>1. part(j) = <<>>
    BY <1>1, SubSeqEmpty
  <2>2. \A m \in j..n : part(m) \in Seq(Bytes)
    BY <1>1
  <2>3. ASSUME NEW m \in j..(n - 1)
        PROVE  part(m + 1) = Append(part(m), s[m + 1])
    BY <1>1, <2>2
  <2>4. QED
    BY <2>1, <2>2, <2>3
<1> HIDE DEF n, p, part
<1>4. /\ p[j] \in Seq(Seq(Text)) /\ Len(p[j]) \in Nat \ {0}
      /\ p[j][Len(p[j])] \in Seq(Text)
  BY <1>1, <1>2 DEF Splits
<1>5. p[j] = Longer(p[j], part(j))
  <2>1. p[j][Len(p[j])] \o <<>> = p[j][Len(p[j])]
    BY <1>4
  <2>2. [p[j] EXCEPT ![Len(p[j])] = p[j][Len(p[j])]] = p[j]
    BY <1>4
  <2>3. QED
    BY <1>3, <2>1, <2>2 DEF Longer
<1>6. 0 \in U
  <2>1. 0 >= j => j = 0
    BY <1>1
  <2>2. QED
    BY <1>1, <1>5, <2>1
<1>7. ASSUME NEW m \in 0..n, m \in U, m < n
      PROVE  m + 1 \in U
  <2>1. m + 1 \in 1..n /\ m + 1 \in 0..n /\ (m + 1) - 1 = m
    BY <1>1, <1>7
  <2>2. CASE m + 1 = j
    BY <1>5, <2>1, <2>2
  <2>3. CASE m + 1 < j \/ m + 1 > k
    BY <1>1, <2>1, <2>3
  <2>4. CASE m >= j /\ m + 1 <= k
    <3>1. p[m] = Longer(p[j], part(m))
      BY <1>1, <1>7, <2>4
    <3>2. s[m + 1] # "n" /\ s[m + 1] \in Bytes /\ m \in j..(n - 1) /\ m \in j..n
      BY <1>1, <2>1, <2>4
    <3>3. part(m + 1) = Append(part(m), s[m + 1]) /\ part(m) \in Seq(Bytes)
      BY <1>3, <3>2
    <3>4. p[m + 1] = [p[m] EXCEPT ![Len(p[m])] = Append(@, s[m + 1])]
      BY <1>2, <2>1, <3>2 DEF Grown
    <3> DEFINE L == Len(p[j])
               old == p[j][L]
    <3>5. /\ p[m] = [p[j] EXCEPT ![L] = old \o part(m)]
          /\ Len(p[m]) = L /\ p[m][L] = old \o part(m)
      BY <1>4, <3>1 DEF Longer
    <3>6. Append(old \o part(m), s[m + 1]) = old \o part(m + 1)
      <4>1. old \in Seq(Bytes)
        BY <1>4 DEF Text
      <4> HIDE DEF old
      <4>2. Append(old \o part(m), s[m + 1]) = old \o Append(part(m), s[m + 1])
        BY <3>2, <3>3, <4>1, AppendAfter
      <4>3. QED
        BY <3>3, <4>2
    <3>7. p[m + 1] = [p[m] EXCEPT ![L] = old \o part(m + 1)]
      BY <3>4, <3>5, <3>6
    <3>8. p[m + 1] = [p[j] EXCEPT ![L] = old \o part(m + 1)]
      BY <1>4, <3>5, <3>7
    <3>9. QED
      BY <2>1, <3>8 DEF Longer
  <2>5. QED
    BY <1>1, <2>1, <2>2, <2>3, <2>4
<1>8. k \in U
  <2> HIDE DEF U
  <2>1. 0..n \subseteq U
    BY <1>1, <1>6, <1>7, AllUpTo
  <2>2. QED
    BY <1>1, <2>1
<1>9. QED
  BY <1>1, <1>8 DEF n, p, part

LEMMA SplitTypes ==
    ASSUME NEW s \in Seq(Bytes), NEW c \in 0..Len(s)
    PROVE  /\ Split(s)[c] \in Seq(Seq(Text)) /\ Len(Split(s)[c]) \in Nat \ {0}
           /\ Last(Split(s)[c]) \in Seq(Text)
           /\ Last(Split(s)[c]) = Split(s)[c][Len(Split(s)[c])]
           /\ \A i \in 1..Len(Split(s)[c]) : Split(s)[c][i] \in Seq(Text)
<1>1. Split(s)[c] \in Splits
  BY SplitRounds DEF IsSplit
<1>2. Split(s)[c] \in Seq(Seq(Text)) /\ Len(Split(s)[c]) \in Nat \ {0}
  BY <1>1 DEF Splits
<1>3. \A i \in 1..Len(Split(s)[c]) : Split(s)[c][i] \in Seq(Text)
  BY <1>2
<1>4. QED
  BY <1>2, <1>3 DEF Last

\* Bytes without a newline are appended to the last line.
LEMMA PartLines ==
    ASSUME NEW s \in Seq(Bytes), NEW c \in 0..Len(s), NEW d \in c..Len(s),
           \A i \in (c + 1)..d : s[i] # "n"
    PROVE  /\ Len(Split(s)[d]) = Len(Split(s)[c])
           /\ Last(Split(s)[d]) = Last(Split(s)[c]) \o SubSeq(s, c + 1, d)
           /\ \A i \in 1..(Len(Split(s)[c]) - 1) : Split(s)[d][i] = Split(s)[c][i]
<1> DEFINE ls == Split(s)[c]
           part == SubSeq(s, c + 1, d)
<1>1. Split(s)[d] = [ls EXCEPT ![Len(ls)] = ls[Len(ls)] \o part]
  <2>1. Split(s)[d] = Longer(Split(s)[c], SubSeq(s, c + 1, d))
    BY PartRead
  <2>2. QED
    BY <2>1 DEF Longer
<1>2. ls \in Seq(Seq(Text)) /\ Len(ls) \in Nat \ {0}
  BY SplitTypes
<1> HIDE DEF ls, part
<1>3. /\ Len(Split(s)[d]) = Len(ls)
      /\ Split(s)[d][Len(ls)] = ls[Len(ls)] \o part
      /\ \A i \in 1..(Len(ls) - 1) : Split(s)[d][i] = ls[i]
  BY <1>1, <1>2
<1>4. QED
  BY <1>3 DEF ls, part, Last

\* A newline starts a line.
LEMMA NewLine ==
    ASSUME NEW s \in Seq(Bytes), NEW d \in 0..Len(s), d < Len(s), s[d + 1] = "n"
    PROVE  /\ Len(Split(s)[d + 1]) = Len(Split(s)[d]) + 1
           /\ Last(Split(s)[d + 1]) = <<>>
           /\ \A i \in 1..Len(Split(s)[d]) : Split(s)[d + 1][i] = Split(s)[d][i]
<1> DEFINE ls == Split(s)[d]
<1>1. d + 1 \in 1..Len(s) /\ (d + 1) - 1 = d
  OBVIOUS
<1>2. Split(s)[d + 1] = Append(ls, <<>>)
  BY <1>1, SplitRounds DEF IsSplit, Grown
<1>3. ls \in Seq(Seq(Text)) /\ Len(ls) \in Nat \ {0} /\ <<>> \in Seq(Text)
  BY SplitTypes
<1> HIDE DEF ls
<1>4. /\ Len(Append(ls, <<>>)) = Len(ls) + 1
      /\ \A i \in 1..Len(ls) : Append(ls, <<>>)[i] = ls[i]
      /\ Append(ls, <<>>)[Len(ls) + 1] = <<>>
  BY <1>3, AppendProperties
<1>5. QED
  BY <1>2, <1>4 DEF ls, Last

-----------------------------------------------------------------------------
(* What is cut off a line *)

Kept(line) == {k \in DOMAIN line : line[k] \notin {"n", "r"}}

LEMMA TrimTo ==
    ASSUME NEW line \in Seq(Bytes)
    PROVE  \E k \in 0..Len(line) : /\ k \in Kept(line) \cup {0}
                                   /\ \A j \in Kept(line) : j <= k
                                   /\ Trim(line) = SubSeq(line, 1, k)
<1> DEFINE K == Kept(line) \cup {0}
           last == CHOOSE k \in K : \A j \in Kept(line) : j <= k
<1>1. Len(line) \in Nat /\ DOMAIN line = 1..Len(line)
  OBVIOUS
<1>2. K \subseteq 0..Len(line) /\ K # {}
  BY <1>1 DEF Kept
<1>3. Max(K) \in K /\ \A j \in K : j <= Max(K)
  BY <1>1, <1>2, GreatestOfSome
<1>4. last \in K /\ \A j \in Kept(line) : j <= last
  BY <1>3
<1>5. Trim(line) = SubSeq(line, 1, last)
  BY DEF Trim, Kept
<1>6. QED
  BY <1>2, <1>4, <1>5

LEMMA TrimmedText ==
    ASSUME NEW line \in Seq(Text)
    PROVE  Trim(line) \in Seq(Text)
<1>1. line \in Seq(Bytes)
  BY DEF Text
<1>2. PICK k \in 0..Len(line) : Trim(line) = SubSeq(line, 1, k)
  BY <1>1, TrimTo
<1>3. QED
  BY <1>2

\* The newline of a line does not show in its frame.
LEMMA TrimmedNewline ==
    ASSUME NEW line \in Seq(Bytes)
    PROVE  Trim(line \o <<"n">>) = Trim(line)
<1> DEFINE whole == line \o <<"n">>
<1>1. /\ whole \in Seq(Bytes) /\ Len(whole) = Len(line) + 1
      /\ \A i \in 1..Len(line) : whole[i] = line[i]
      /\ whole[Len(line) + 1] = "n"
      /\ Len(line) \in Nat
  <2>1. <<"n">> \in Seq(Bytes) /\ Len(<<"n">>) = 1 /\ <<"n">>[1] = "n"
    BY DEF Bytes
  <2>2. QED
    BY <2>1, ConcatProperties
<1>2. \A a \in 1..Len(line) : SubSeq(whole, 1, a) = SubSeq(line, 1, a)
  <2>1. <<"n">> \in Seq(Bytes)
    BY DEF Bytes
  <2>2. QED
    BY <1>1, <2>1, SubSeqOfConcat1
<1>3. SubSeq(whole, 1, 0) = <<>> /\ SubSeq(line, 1, 0) = <<>>
  BY SubSeqEmpty
<1> HIDE DEF whole
<1>4. Kept(whole) = Kept(line)
  BY <1>1 DEF Kept
<1>5. PICK k \in 0..Len(whole) : /\ k \in Kept(whole) \cup {0}
                                 /\ \A j \in Kept(whole) : j <= k
                                 /\ Trim(whole) = SubSeq(whole, 1, k)
  BY <1>1, TrimTo
<1>6. PICK m \in 0..Len(line) : /\ m \in Kept(line) \cup {0}
                                /\ \A j \in Kept(line) : j <= m
                                /\ Trim(line) = SubSeq(line, 1, m)
  BY TrimTo
<1>7. k = m
  <2>1. \A j \in Kept(line) : j >= 1
    BY DEF Kept
  <2>2. QED
    BY <1>1, <1>4, <1>5, <1>6, <2>1
<1>8. SubSeq(whole, 1, k) = SubSeq(line, 1, k)
  BY <1>1, <1>2, <1>3, <1>6, <1>7
<1>9. Trim(whole) = Trim(line)
  BY <1>5, <1>6, <1>7, <1>8
<1>10. QED
  BY <1>9 DEF whole

-----------------------------------------------------------------------------
(* A line that is read whole *)

LEMMA LineRead ==
    ASSUME NEW s \in Seq(Bytes), NEW c \in 0..Len(s), NEW d \in 0..Len(s),
           c <= d, d < Len(s), s[d + 1] = "n", \A i \in (c + 1)..d : s[i] # "n"
    PROVE  /\ Len(Split(s)[d + 1]) = Len(Split(s)[c]) + 1
           /\ Last(Split(s)[d + 1]) = <<>>
           /\ \A i \in 1..(Len(Split(s)[c]) - 1) : Split(s)[d + 1][i] = Split(s)[c][i]
           /\ Split(s)[d + 1][Len(Split(s)[c])] = Last(Split(s)[d])
           /\ Last(Split(s)[d]) = Last(Split(s)[c]) \o SubSeq(s, c + 1, d)
           /\ Len(Split(s)[d]) = Len(Split(s)[c])
<1>1. d \in c..Len(s)
  OBVIOUS
<1>2. /\ Len(Split(s)[d]) = Len(Split(s)[c])
      /\ Last(Split(s)[d]) = Last(Split(s)[c]) \o SubSeq(s, c + 1, d)
      /\ \A i \in 1..(Len(Split(s)[c]) - 1) : Split(s)[d][i] = Split(s)[c][i]
  BY <1>1, PartLines
<1>3. /\ Len(Split(s)[d + 1]) = Len(Split(s)[d]) + 1
      /\ Last(Split(s)[d + 1]) = <<>>
      /\ \A i \in 1..Len(Split(s)[d]) : Split(s)[d + 1][i] = Split(s)[d][i]
  BY NewLine
<1>4. /\ Len(Split(s)[c]) \in Nat \ {0}
      /\ Last(Split(s)[d]) = Split(s)[d][Len(Split(s)[d])]
  BY SplitTypes
<1> DEFINE a == Split(s)[c]
           b == Split(s)[d]
           e == Split(s)[d + 1]
<1> HIDE DEF a, b, e
<1>5. \A i \in 1..(Len(a) - 1) : e[i] = a[i]
  <2>1. \A i \in 1..(Len(a) - 1) : i \in 1..Len(b)
    BY <1>2, <1>4 DEF a, b
  <2>2. QED
    BY <1>2, <1>3, <2>1 DEF a, b, e
<1>6. e[Len(a)] = b[Len(b)]
  <2>1. Len(a) \in 1..Len(b) /\ Len(a) = Len(b)
    BY <1>2, <1>4 DEF a, b
  <2>2. QED
    BY <1>3, <2>1 DEF b, e
<1>7. QED
  BY <1>2, <1>3, <1>4, <1>5, <1>6 DEF a, b, e

\* The bytes up to the first newline of a chunk.
LEMMA FirstNewline ==
    ASSUME NEW t \in Seq(Bytes), Contains(t, "n")
    PROVE  /\ SelectInSeq(t, LAMBDA b : b = "n") \in 1..Len(t)
           /\ t[SelectInSeq(t, LAMBDA b : b = "n")] = "n"
           /\ \A i \in 1..(SelectInSeq(t, LAMBDA b : b = "n") - 1) : t[i] # "n"
<1> DEFINE I == {i \in 1..Len(t) : t[i] = "n"}
<1>1. I # {} /\ I \subseteq Nat
  BY DEF Contains
<1>2. Min(I) \in I /\ \A i \in I : Min(I) <= i
  BY <1>1, LeastOfSome
<1>3. SelectInSeq(t, LAMBDA b : b = "n") = Min(I)
  BY <1>1 DEF SelectInSeq
<1> DEFINE m == Min(I)
<1> HIDE DEF m
<1>4. m \in I /\ \A i \in I : m <= i
  BY <1>2 DEF m
<1>5. \A i \in 1..(m - 1) : t[i] # "n"
  BY <1>4
<1>6. QED
  BY <1>3, <1>4, <1>5 DEF m

\* Where that chunk is a part of the stream.
NewlineAt(t, k) == t[k] = "n" /\ \A i \in 1..(k - 1) : t[i] # "n"

LEMMA ChunkRead ==
    ASSUME NEW s \in Seq(Bytes), NEW c \in 0..Len(s), NEW r \in c..Len(s),
           NEW k \in 1..(r - c), NewlineAt(SubSeq(s, c + 1, r), k)
    PROVE  /\ s[c + k] = "n"
           /\ \A i \in (c + 1)..(c + k - 1) : s[i] # "n"
           /\ SubSeq(SubSeq(s, c + 1, r), 1, k)
                 = SubSeq(s, c + 1, c + k - 1) \o <<"n">>
           /\ SubSeq(SubSeq(s, c + 1, r), k + 1, r - c) = SubSeq(s, c + k + 1, r)
<1> DEFINE t == SubSeq(s, c + 1, r)
           d == c + k - 1
<1>1. Len(s) \in Nat /\ c \in Nat /\ r \in Nat /\ k \in Nat /\ c + k <= r /\ r <= Len(s)
  OBVIOUS
<1>2. /\ t \in Seq(Bytes) /\ Len(t) = r - c
      /\ \A i \in 1..(r - c) : t[i] = s[c + i]
  BY <1>1
<1> HIDE DEF t
<1>0. t[k] = "n" /\ \A i \in 1..(k - 1) : t[i] # "n"
  BY DEF NewlineAt, t
<1> USE DEF t
<1>3. s[c + k] = "n"
  BY <1>0, <1>1, <1>2
<1>4. ASSUME NEW i \in (c + 1)..d PROVE s[i] # "n"
  <2>1. i - c \in 1..(k - 1) /\ i - c \in 1..(r - c) /\ c + (i - c) = i
    BY <1>1
  <2>2. QED
    BY <1>0, <1>2, <2>1
<1>5. SubSeq(t, 1, k) = SubSeq(s, c + 1, d) \o <<"n">>
  <2>1. c + 1 \in 1..Len(s) /\ r \in 1..Len(s) /\ c + k \in (c + 1)..Len(s)
    BY <1>1
  <2>2. 1 \in 1..(r - (c + 1) + 1) /\ k \in 1..(r - (c + 1) + 1)
    BY <1>1
  <2>3. (c + 1) + 1 - 1 = c + 1 /\ (c + 1) + k - 1 = c + k
    BY <1>1
  <2>4. SubSeq(t, 1, k) = SubSeq(s, (c + 1) + 1 - 1, (c + 1) + k - 1)
    BY <2>1, <2>2, SubSeqOfSubSeq
  <2>5. SubSeq(s, c + 1, c + k) = SubSeq(s, c + 1, d) \o <<s[c + k]>>
    BY <2>1, SubSeqRecursiveSecond
  <2>6. QED
    BY <1>3, <2>3, <2>4, <2>5
<1>6. SubSeq(t, k + 1, r - c) = SubSeq(s, c + k + 1, r)
  <2>1. CASE k < r - c
    <3>1. c + 1 \in 1..Len(s) /\ r \in 1..Len(s)
      BY <1>1
    <3>2. k + 1 \in 1..(r - (c + 1) + 1) /\ r - c \in 1..(r - (c + 1) + 1)
      BY <1>1, <2>1
    <3>3. (c + 1) + (k + 1) - 1 = c + k + 1 /\ (c + 1) + (r - c) - 1 = r
      BY <1>1
    <3>4. SubSeq(t, k + 1, r - c) = SubSeq(s, (c + 1) + (k + 1) - 1, (c + 1) + (r - c) - 1)
      BY <3>1, <3>2, SubSeqOfSubSeq
    <3>5. QED
      BY <3>3, <3>4
  <2>2. CASE ~ (k < r - c)
    <3>1. r - c < k + 1 /\ r < c + k + 1 /\ {r - c, k + 1, r, c + k + 1} \subseteq Int
      BY <1>1, <2>2
    <3>2. SubSeq(t, k + 1, r - c) = <<>> /\ SubSeq(s, c + k + 1, r) = <<>>
      BY <3>1, SubSeqEmpty
    <3>3. QED
      BY <3>2
  <2>3. QED
    BY <2>1, <2>2
<1>7. QED
  BY <1>3, <1>4, <1>5, <1>6

-----------------------------------------------------------------------------
(* The lines of a prefix and those of the whole stream *)

LEMMA WholeLines ==
    ASSUME NEW s \in Seq(Bytes), NEW c \in 0..Len(s)
    PROVE  /\ \A i \in 1..(Len(Split(s)[c]) - 1) : Lines(s)[i] = Split(s)[c][i]
           /\ Last(Split(s)[c]) # <<>> =>
                 /\ Len(Last(Split(s)[c])) <= Len(Lines(s)[Len(Split(s)[c])])
                 /\ \A i \in 1..Len(Last(Split(s)[c])) :
                       Lines(s)[Len(Split(s)[c])][i] = Last(Split(s)[c])[i]
                 /\ Lines(s)[Len(Split(s)[c])] \in Seq(Text)
           /\ c = Len(s) =>
                 /\ Last(Split(s)[c]) = <<>> => Len(Lines(s)) = Len(Split(s)[c]) - 1
                 /\ Last(Split(s)[c]) # <<>> => Lines(s) = Split(s)[c]
<1>1. PICK ls, t : ls = Split(s)[c] /\ t = Split(s)[Len(s)]
  OBVIOUS
<1>2. Len(s) \in 0..Len(s) /\ Len(s) \in c..Len(s)
  OBVIOUS
<1>3. /\ ls \in Seq(Seq(Text)) /\ Len(ls) \in Nat \ {0}
      /\ Last(ls) \in Seq(Text) /\ Last(ls) = ls[Len(ls)]
      /\ t \in Seq(Seq(Text)) /\ Len(t) \in Nat \ {0} /\ Last(t) = t[Len(t)]
  BY <1>1, <1>2, SplitTypes
<1>4. Extends(t, ls)
  BY <1>1, <1>2, Persists
<1>5. Lines(s) = IF Last(t) = <<>> THEN Front(t) ELSE t
  BY <1>1, SplitRounds DEF IsSplit, LinesEnded
<1>6. /\ Front(t) \in Seq(Seq(Text)) /\ Len(Front(t)) = Len(t) - 1
      /\ \A i \in 1..(Len(t) - 1) : Front(t)[i] = t[i]
  <2>1. Len(t) - 1 \in Int /\ (Len(t) - 1) - 1 + 1 = Len(t) - 1
    BY <1>3
  <2>2. \A i \in 1..(Len(t) - 1) : t[i] \in Seq(Text)
    BY <1>3
  <2>3. /\ SubSeq(t, 1, Len(t) - 1) \in Seq(Seq(Text))
        /\ Len(SubSeq(t, 1, Len(t) - 1)) = Len(t) - 1
        /\ \A i \in 1..(Len(t) - 1) : SubSeq(t, 1, Len(t) - 1)[i] = t[i]
    <3> HIDE DEF Text
    <3>1. QED
      BY <1>3, <2>1, <2>2
  <2>4. QED
    BY <2>3 DEF Front
<1>7. \A i \in 1..(Len(ls) - 1) : Lines(s)[i] = ls[i]
  <2>1. \A i \in 1..(Len(ls) - 1) : t[i] = ls[i] /\ i \in 1..(Len(t) - 1)
    BY <1>3, <1>4 DEF Extends
  <2>2. QED
    BY <1>5, <1>6, <2>1
<1>8. ASSUME Last(ls) # <<>>
      PROVE  /\ Len(Last(ls)) <= Len(Lines(s)[Len(ls)])
             /\ \A i \in 1..Len(Last(ls)) : Lines(s)[Len(ls)][i] = Last(ls)[i]
             /\ Lines(s)[Len(ls)] \in Seq(Text)
  <2>1. Len(ls) \in 1..Len(t) /\ t[Len(ls)] \in Seq(Text)
    BY <1>3, <1>4 DEF Extends
  <2>2. /\ Len(Last(ls)) <= Len(t[Len(ls)])
        /\ \A i \in 1..Len(Last(ls)) : t[Len(ls)][i] = Last(ls)[i]
    BY <1>3, <1>4 DEF Extends
  <2>3. Lines(s)[Len(ls)] = t[Len(ls)]
    <3>1. CASE Last(t) # <<>>
      BY <1>5, <3>1
    <3>2. CASE Last(t) = <<>>
      <4>1. Len(Last(ls)) >= 1 /\ Len(Last(t)) = 0
        BY <1>3, <1>8, <3>2
      <4>2. Len(ls) # Len(t)
        BY <1>3, <2>2, <4>1
      <4>3. Len(ls) \in 1..(Len(t) - 1)
        BY <1>3, <2>1, <4>2
      <4>4. QED
        BY <1>5, <1>6, <3>2, <4>3
    <3>3. QED
      BY <3>1, <3>2
  <2>4. QED
    BY <2>1, <2>2, <2>3
<1>9. ASSUME c = Len(s)
      PROVE  /\ Last(ls) = <<>> => Len(Lines(s)) = Len(ls) - 1
             /\ Last(ls) # <<>> => Lines(s) = ls
  BY <1>1, <1>5, <1>6, <1>9
<1>10. QED
  BY <1>1, <1>7, <1>8, <1>9

-----------------------------------------------------------------------------
(* The invariant *)

\* How much of the stream is in a frame, or in the one that grows; and the
\* lines of that much.
Taken == read - Len(chunk)

Behind == Split(sent)[Taken]

\* Every line but the last is a frame.
Trimmed(ls, n) == /\ Len(frames) = n
                  /\ \A i \in 1..n : frames[i] = Trim(ls[i])

\* What serve holds is what it has read of the stream: a part of the last
\* line, or nothing once the client's last line, not ended, is a frame.
InStep ==
    /\ Len(chunk) <= read
    /\ chunk = SubSeq(sent, Taken + 1, read)
    /\ \/ /\ Trimmed(Behind, Len(Behind) - 1)
          /\ buf = Last(Behind) /\ Len(buf) <= Cap
       \/ /\ Trimmed(Behind, Len(Behind))
          /\ buf = <<>> /\ Last(Behind) # <<>> /\ Taken = Len(sent)

\* The line it cut the connection over.
Cut ==
    \E c \in 0..Len(sent) :
        /\ Trimmed(Split(sent)[c], Len(Split(sent)[c]) - 1)
        /\ \/ Len(Last(Split(sent)[c])) > Cap
           \/ Contains(Last(Split(sent)[c]), "bad")

FramesInv ==
    /\ ReaderTypeOK
    /\ Len(chunk) <= Chunk /\ Len(buf) <= Cap + Chunk
    /\ status # "refused" => InStep
    /\ status = "closed" => Taken = Len(sent) /\ buf = <<>>
    /\ status = "refused" => Cut

LEMMA Types ==
    ASSUME ReaderTypeOK
    PROVE  /\ sent \in Seq(Bytes) /\ Len(sent) \in Nat
           /\ read \in 0..Len(sent) /\ chunk \in Seq(Bytes) /\ Len(chunk) \in Nat
           /\ buf \in Seq(Bytes) /\ Len(buf) \in Nat
           /\ frames \in Seq(Seq(Text)) /\ Len(frames) \in Nat
           /\ Cap \in Nat /\ Chunk \in Nat \ {0}
  BY FramesAssumption DEF ReaderTypeOK, Text

LEMMA Inits == ReaderInit => FramesInv
<1> SUFFICES ASSUME ReaderInit PROVE FramesInv
  OBVIOUS
<1>1. sent \in Seq(Bytes) /\ Len(sent) \in Nat /\ sent \in Streams
  BY FramesAssumption DEF ReaderInit
<1>2. read = 0 /\ chunk = <<>> /\ buf = <<>> /\ frames = <<>> /\ status = "reading"
  BY DEF ReaderInit
<1>3. Taken = 0 /\ Len(chunk) = 0 /\ Len(buf) = 0 /\ Len(frames) = 0
  <2>1. Len(chunk) = 0 /\ Len(buf) = 0 /\ Len(frames) = 0
    BY <1>2
  <2> DEFINE n == Len(chunk)
  <2>2. n = 0
    BY <2>1
  <2> HIDE DEF n
  <2>3. read - n = 0
    BY <1>2, <2>2
  <2>4. QED
    BY <2>1, <2>3 DEF Taken, n
<1>4. Behind = <<<<>>>>
  BY <1>1, <1>3, SplitRounds DEF IsSplit, Behind
<1>5. Len(Behind) = 1 /\ Last(Behind) = <<>>
  BY <1>4 DEF Last
<1>6. chunk = SubSeq(sent, Taken + 1, read)
  BY <1>2, <1>3, SubSeqEmpty
<1>7. Trimmed(Behind, Len(Behind) - 1)
  BY <1>3, <1>5 DEF Trimmed
<1>8. ReaderTypeOK
  BY <1>1, <1>2 DEF ReaderTypeOK
<1>9. QED
  BY <1>2, <1>3, <1>5, <1>6, <1>7, <1>8, FramesAssumption DEF FramesInv, InStep

-----------------------------------------------------------------------------
(* Every action keeps it *)

LEMMA FillStep ==
    ASSUME FramesInv, NEW k \in 1..Chunk, Fill(k)
    PROVE  FramesInv'
<1>1. /\ status = "reading" /\ chunk = <<>> /\ read + k <= Len(sent)
      /\ chunk' = SubSeq(sent, read + 1, read + k) /\ read' = read + k
      /\ sent' = sent /\ buf' = buf /\ frames' = frames /\ status' = status
  BY DEF Fill
<1>2. ReaderTypeOK /\ InStep /\ Len(buf) <= Cap + Chunk
  BY <1>1 DEF FramesInv
<1>3. Len(chunk) = 0 /\ Taken = read /\ read \in Nat /\ Len(sent) \in Nat /\ k \in Nat
      /\ sent \in Seq(Bytes)
  BY <1>1, <1>2, Types DEF Taken
<1>4. /\ chunk' \in Seq(Bytes) /\ Len(chunk') = k
      /\ read' \in 0..Len(sent)
  BY <1>1, <1>3
<1>5. Taken' = Taken
  BY <1>1, <1>3, <1>4 DEF Taken
<1>6. ReaderTypeOK'
  BY <1>1, <1>2, <1>4 DEF ReaderTypeOK
<1>7. Behind' = Behind
  BY <1>1, <1>5 DEF Behind
<1>8. InStep'
  <2>1. Len(chunk') <= read' /\ chunk' = SubSeq(sent', Taken' + 1, read')
    BY <1>1, <1>3, <1>4, <1>5
  <2>2. Taken < Len(sent)
    BY <1>1, <1>3
  <2>3. Trimmed(Behind, Len(Behind) - 1) /\ buf = Last(Behind) /\ Len(buf) <= Cap
    BY <1>2, <1>3, <2>2 DEF InStep
  <2>4. Trimmed(Behind, Len(Behind) - 1)'
    BY <1>1, <1>7, <2>3 DEF Trimmed
  <2>5. QED
    BY <1>1, <1>7, <2>1, <2>3, <2>4 DEF InStep
<1>9. QED
  BY <1>1, <1>2, <1>4, <1>6, <1>8 DEF FramesInv

\* What follows from being in step with more of the stream to come.
LEMMA Growing ==
    ASSUME FramesInv, status = "reading", Taken < Len(sent) \/ buf # <<>>
    PROVE  /\ Taken \in 0..Len(sent) /\ read \in Taken..Len(sent)
           /\ Len(chunk) = read - Taken
           /\ chunk = SubSeq(sent, Taken + 1, read)
           /\ Len(frames) = Len(Split(sent)[Taken]) - 1
           /\ \A i \in 1..(Len(Split(sent)[Taken]) - 1) :
                  frames[i] = Trim(Split(sent)[Taken][i])
           /\ buf = Last(Split(sent)[Taken]) /\ Len(buf) <= Cap
<1>1. ReaderTypeOK /\ InStep
  BY DEF FramesInv
<1>2. /\ read \in 0..Len(sent) /\ Len(chunk) \in Nat /\ Len(sent) \in Nat
      /\ Len(chunk) <= read
  BY <1>1, Types DEF InStep
<1>3. /\ Taken \in 0..Len(sent) /\ read \in Taken..Len(sent)
      /\ Len(chunk) = read - Taken
  BY <1>2 DEF Taken
<1>4. Trimmed(Behind, Len(Behind) - 1) /\ buf = Last(Behind) /\ Len(buf) <= Cap
  BY <1>1, <1>3 DEF InStep
<1>5. chunk = SubSeq(sent, Taken + 1, read)
  BY <1>1 DEF InStep
<1>6. QED
  BY <1>3, <1>4, <1>5 DEF Trimmed, Behind

\* A line is finished: it is a frame, or the connection is cut over it.
LEMMA FinishedLine ==
    ASSUME ReaderTypeOK, NEW s \in Seq(Bytes), s = sent, NEW d \in 0..Len(s),
           Len(frames) = Len(Split(s)[d]) - 1,
           \A i \in 1..(Len(Split(s)[d]) - 1) : frames[i] = Trim(Split(s)[d][i]),
           NEW line, Trim(line) = Trim(Last(Split(s)[d])),
           Contains(line, "bad") <=> Contains(Last(Split(s)[d]), "bad"),
           Finish(line), sent' = sent, status = "reading"
    PROVE  /\ buf' = <<>>
           /\ frames' \in Seq(Seq(Text))
           /\ \/ status' = "refused" /\ Cut'
              \/ /\ status' = "reading"
                 /\ Len(frames') = Len(Split(s)[d])
                 /\ \A i \in 1..Len(Split(s)[d]) : frames'[i] = Trim(Split(s)[d][i])
<1> DEFINE ls == Split(s)[d]
<1>1. /\ frames \in Seq(Seq(Text)) /\ Len(ls) \in Nat \ {0}
      /\ Last(ls) \in Seq(Text) /\ Last(ls) = ls[Len(ls)]
  BY SplitTypes, Types
<1>2. buf' = <<>>
  BY DEF Finish
<1>3. CASE Contains(line, "bad")
  <2>1. status' = "refused" /\ frames' = frames
    BY <1>3 DEF Finish
  <2>2. /\ Len(frames') = Len(ls) - 1
        /\ \A i \in 1..(Len(ls) - 1) : frames'[i] = Trim(ls[i])
    BY <2>1
  <2>3. Contains(Last(ls), "bad")
    BY <1>3
  <2>4. sent' = s
    OBVIOUS
  <2>5. Cut'
    BY <2>2, <2>3, <2>4 DEF Cut, Trimmed
  <2>6. QED
    BY <1>1, <1>2, <2>1, <2>5
<1>4. CASE ~Contains(line, "bad")
  <2>1. status' = "reading" /\ frames' = Append(frames, Trim(line))
    BY <1>4 DEF Finish
  <2>2. Trim(line) \in Seq(Text)
    BY <1>1, TrimmedText
  <2> DEFINE added == Trim(line)
  <2> HIDE DEF added
  <2>3. /\ Append(frames, added) \in Seq(Seq(Text))
        /\ Len(Append(frames, added)) = Len(frames) + 1
        /\ \A i \in 1..Len(frames) : Append(frames, added)[i] = frames[i]
        /\ Append(frames, added)[Len(frames) + 1] = added
    BY <1>1, <2>2, AppendProperties DEF added
  <2>4. frames' = Append(frames, added) /\ added = Trim(ls[Len(ls)])
    BY <1>1, <2>1 DEF added
  <2> HIDE DEF ls
  <2>5. ASSUME NEW i \in 1..Len(ls) PROVE frames'[i] = Trim(ls[i])
    <3>1. CASE i = Len(ls)
      BY <1>1, <2>3, <2>4, <3>1 DEF ls
    <3>2. CASE i # Len(ls)
      <4>1. i \in 1..(Len(ls) - 1) /\ i \in 1..Len(frames)
        BY <1>1, <3>2 DEF ls
      <4>2. QED
        BY <2>3, <2>4, <4>1 DEF ls
    <3>3. QED
      BY <3>1, <3>2
  <2>6. Len(frames') = Len(ls) /\ frames' \in Seq(Seq(Text))
    BY <1>1, <2>3, <2>4 DEF ls
  <2>7. QED
    BY <1>2, <2>1, <2>5, <2>6 DEF ls
<1>5. QED
  BY <1>3, <1>4

LEMMA ConsumeLineStep ==
    ASSUME FramesInv, ConsumeLine
    PROVE  FramesInv'
<1>1. /\ status = "reading" /\ Contains(chunk, "n")
      /\ sent' = sent /\ read' = read /\ ReaderTypeOK /\ InStep
  BY DEF ConsumeLine, FramesInv
<1>2. /\ sent \in Seq(Bytes) /\ chunk \in Seq(Bytes) /\ Len(chunk) \in Nat
      /\ buf \in Seq(Bytes) /\ read \in Nat /\ Len(sent) \in Nat
  BY <1>1, Types
<1>3. PICK k : k = SelectInSeq(chunk, LAMBDA b : b = "n")
  OBVIOUS
<1>4. /\ k \in 1..Len(chunk) /\ chunk[k] = "n"
      /\ \A i \in 1..(k - 1) : chunk[i] # "n"
  BY <1>1, <1>2, <1>3, FirstNewline
<1>5. Finish(buf \o SubSeq(chunk, 1, k)) /\ chunk' = Rest(k)
  BY <1>3 DEF ConsumeLine
<1>6. PICK s, c, r : s = sent /\ c = Taken /\ r = read
  OBVIOUS
<1>7. Taken < Len(sent)
  <2>1. Len(chunk) >= 1
    BY <1>2, <1>4
  <2>2. read <= Len(sent)
    BY <1>1 DEF ReaderTypeOK
  <2>3. QED
    BY <1>2, <2>1, <2>2 DEF Taken
<1>8. /\ s \in Seq(Bytes) /\ c \in 0..Len(s) /\ r \in c..Len(s) /\ Len(chunk) = r - c
      /\ chunk = SubSeq(s, c + 1, r) /\ Len(frames) = Len(Split(s)[c]) - 1
      /\ \A i \in 1..(Len(Split(s)[c]) - 1) : frames[i] = Trim(Split(s)[c][i])
      /\ buf = Last(Split(s)[c])
  BY <1>1, <1>2, <1>6, <1>7, Growing
<1>9. PICK d : d = c + k - 1
  OBVIOUS
<1>81. s \in Seq(Bytes) /\ c \in 0..Len(s) /\ r \in c..Len(s) /\ Len(s) \in Nat
  BY <1>2, <1>6, <1>8
<1>10. /\ k \in 1..(r - c) /\ d \in 0..Len(s) /\ c <= d /\ d < Len(s)
       /\ d + 1 = c + k /\ d + 1 \in 0..Len(s)
  <2>1. k \in 1..(r - c)
    <3>1. Len(chunk) = r - c
      BY <1>8
    <3>2. QED
      BY <1>4, <3>1
  <2>2. QED
    BY <1>81, <1>9, <2>1
<1>11. /\ s[d + 1] = "n" /\ \A i \in (c + 1)..d : s[i] # "n"
       /\ SubSeq(chunk, 1, k) = SubSeq(s, c + 1, d) \o <<"n">>
       /\ SubSeq(chunk, k + 1, r - c) = SubSeq(s, c + k + 1, r)
  <2>1. NewlineAt(SubSeq(s, c + 1, r), k)
    BY <1>4, <1>8 DEF NewlineAt
  <2>2. /\ s[c + k] = "n"
        /\ \A i \in (c + 1)..(c + k - 1) : s[i] # "n"
        /\ SubSeq(SubSeq(s, c + 1, r), 1, k) = SubSeq(s, c + 1, c + k - 1) \o <<"n">>
        /\ SubSeq(SubSeq(s, c + 1, r), k + 1, r - c) = SubSeq(s, c + k + 1, r)
    <3>1. k \in 1..(r - c)
      BY <1>10
    <3>2. s \in Seq(Bytes) /\ c \in 0..Len(s) /\ r \in c..Len(s)
      BY <1>81
    <3>3. QED
      BY <3>1, <3>2, <2>1, ChunkRead
  <2>3. QED
    BY <1>8, <1>9, <1>10, <2>2
<1>12. /\ Len(Split(s)[d + 1]) = Len(Split(s)[c]) + 1
       /\ Last(Split(s)[d + 1]) = <<>>
       /\ \A i \in 1..(Len(Split(s)[c]) - 1) : Split(s)[d + 1][i] = Split(s)[c][i]
       /\ Split(s)[d + 1][Len(Split(s)[c])] = Last(Split(s)[d])
       /\ Last(Split(s)[d]) = Last(Split(s)[c]) \o SubSeq(s, c + 1, d)
       /\ Len(Split(s)[d]) = Len(Split(s)[c])
  BY <1>8, <1>10, <1>11, LineRead
<1>13. /\ Last(Split(s)[d]) \in Seq(Bytes) /\ Last(Split(s)[d]) = Split(s)[d][Len(Split(s)[d])]
       /\ Len(Split(s)[c]) \in Nat \ {0}
  <2>1. /\ Last(Split(s)[d]) \in Seq(Text) /\ Last(Split(s)[d]) = Split(s)[d][Len(Split(s)[d])]
        /\ Len(Split(s)[c]) \in Nat \ {0}
    BY <1>81, <1>10, SplitTypes
  <2>2. Last(Split(s)[d]) \in Seq(Bytes)
    BY <2>1 DEF Text
  <2>3. QED
    BY <2>1, <2>2
<1> DEFINE line == buf \o SubSeq(chunk, 1, k)
           part == Last(Split(s)[d])
<1>14. line = part \o <<"n">>
  <2>1. SubSeq(s, c + 1, d) \in Seq(Bytes) /\ <<"n">> \in Seq(Bytes) /\ buf \in Seq(Bytes)
    BY <1>81, <1>10, <1>2 DEF Bytes
  <2> DEFINE u == SubSeq(s, c + 1, d)
             e == <<"n">>
  <2>5. u \in Seq(Bytes) /\ e \in Seq(Bytes)
    BY <2>1
  <2> HIDE DEF u, e
  <2>2. buf \o (u \o e) = (buf \o u) \o e
    <3>1. buf \in Seq(Bytes)
      BY <2>1
    <3>2. QED
      BY <2>5, <3>1, ConcatAssociative
  <2>3. buf = Last(Split(s)[c]) /\ SubSeq(chunk, 1, k) = u \o e
        /\ Last(Split(s)[d]) = Last(Split(s)[c]) \o u
    BY <1>8, <1>11, <1>12 DEF u, e
  <2>4. QED
    BY <2>2, <2>3 DEF u, e
<1> HIDE DEF line, part
<1>15. Trim(line) = Trim(part) /\ (Contains(line, "bad") <=> Contains(part, "bad"))
  <2>1. part \in Seq(Bytes)
    BY <1>13 DEF part
  <2>2. <<"n">> \in Seq(Bytes) /\ Len(<<"n">>) = 1 /\ <<"n">>[1] = "n"
    BY DEF Bytes
  <2>3. /\ Len(part \o <<"n">>) = Len(part) + 1 /\ Len(part) \in Nat
        /\ \A i \in 1..Len(part) : (part \o <<"n">>)[i] = part[i]
        /\ (part \o <<"n">>)[Len(part) + 1] = "n"
    BY <2>1, <2>2, ConcatProperties
  <2>4. Contains(line, "bad") <=> Contains(part, "bad")
    BY <1>14, <2>3 DEF Contains
  <2>5. QED
    BY <1>14, <2>1, <2>4, TrimmedNewline
<1>16. \A i \in 1..(Len(Split(s)[d]) - 1) : frames[i] = Trim(Split(s)[d][i])
  <2>1. \A i \in 1..(Len(Split(s)[c]) - 1) : Split(s)[d][i] = Split(s)[c][i]
    <3>1. d \in c..Len(s)
      BY <1>81, <1>10
    <3>2. QED
      BY <1>81, <1>11, <3>1, PartLines
  <2>2. QED
    BY <1>8, <1>12, <2>1
<1>17. /\ buf' = <<>> /\ frames' \in Seq(Seq(Text))
       /\ \/ status' = "refused" /\ Cut'
          \/ /\ status' = "reading"
             /\ Len(frames') = Len(Split(s)[d])
             /\ \A i \in 1..Len(Split(s)[d]) : frames'[i] = Trim(Split(s)[d][i])
  <2>1. Len(frames) = Len(Split(s)[d]) - 1 /\ Finish(line)
    BY <1>5, <1>8, <1>12 DEF line
  <2>2. Trim(line) = Trim(Last(Split(s)[d]))
    BY <1>15 DEF part
  <2>3. Contains(line, "bad") <=> Contains(Last(Split(s)[d]), "bad")
    BY <1>15 DEF part
  <2>4. QED
    BY <1>1, <1>6, <1>8, <1>10, <1>16, <2>1, <2>2, <2>3, FinishedLine
<1>18. /\ chunk' = SubSeq(s, d + 2, r) /\ chunk' \in Seq(Bytes)
       /\ Len(chunk') = r - (d + 1)
  <2>1. chunk' = SubSeq(chunk, k + 1, r - c)
    BY <1>5, <1>8 DEF Rest
  <2>2. c + k + 1 = d + 2 /\ chunk' = SubSeq(s, c + k + 1, r)
    BY <1>8, <1>9, <1>11, <2>1, <1>10
  <2>3. SubSeq(s, d + 2, r) \in Seq(Bytes) /\ Len(SubSeq(s, d + 2, r)) = r - (d + 1)
    BY <1>8, <1>10, <1>4
  <2>4. QED
    BY <2>2, <2>3
<1>19. Taken' = d + 1 /\ Behind' = Split(s)[d + 1] /\ r \in Nat /\ d + 1 <= r
  <2>1. read' = r /\ r \in Nat /\ d + 1 <= r
    BY <1>1, <1>2, <1>6, <1>8, <1>10
  <2>2. Taken' = d + 1
    BY <1>10, <1>18, <2>1 DEF Taken
  <2>3. QED
    BY <1>1, <1>6, <2>1, <2>2 DEF Behind
<1>20. ReaderTypeOK'
  BY <1>1, <1>17, <1>18, <1>17 DEF ReaderTypeOK, Text
<1>21. status' = "reading" => InStep'
  <2> SUFFICES ASSUME status' = "reading" PROVE InStep'
    OBVIOUS
  <2> DEFINE ls == Split(s)[d + 1]
  <2>1. /\ Len(frames') = Len(Split(s)[d])
        /\ \A i \in 1..Len(Split(s)[d]) : frames'[i] = Trim(Split(s)[d][i])
    BY <1>17
  <2>2. Len(ls) - 1 = Len(Split(s)[d]) /\ \A i \in 1..Len(Split(s)[d]) : ls[i] = Split(s)[d][i]
    <3>1. /\ Len(Split(s)[d + 1]) = Len(Split(s)[d]) + 1
          /\ \A i \in 1..Len(Split(s)[d]) : Split(s)[d + 1][i] = Split(s)[d][i]
      BY <1>8, <1>10, <1>11, NewLine
    <3>2. QED
      BY <3>1, <1>12, <1>13
  <2>3. Len(frames') = Len(ls) - 1 /\ \A i \in 1..(Len(ls) - 1) : frames'[i] = Trim(ls[i])
    BY <2>1, <2>2
  <2>4. Behind' = ls /\ Last(ls) = <<>> /\ buf' = <<>> /\ Len(<<>>) <= Cap
    BY <1>12, <1>17, <1>19, FramesAssumption
  <2> HIDE DEF ls
  <2>5. Trimmed(Behind, Len(Behind) - 1)'
    BY <2>3, <2>4 DEF Trimmed
  <2>6. read' = r /\ sent' = s /\ Len(chunk') <= r
    BY <1>1, <1>6, <1>10, <1>18, <1>19
  <2>7. chunk' = SubSeq(sent', Taken' + 1, read')
    BY <1>10, <1>18, <1>19, <2>6
  <2>8. QED
    BY <2>4, <2>5, <2>6, <2>7 DEF InStep
<1>22. Len(chunk') <= Chunk /\ Len(buf') <= Cap + Chunk
  <2>1. Len(chunk) <= Chunk
    BY DEF FramesInv
  <2>2. Len(chunk') <= Len(chunk)
    <3>1. Len(chunk) = r - c /\ c \in Nat /\ c <= d
      BY <1>8, <1>10
    <3>2. Len(chunk') = r - (d + 1) /\ d \in Nat /\ r \in Nat
      BY <1>18, <1>10, <1>19
    <3>3. QED
      BY <3>1, <3>2
  <2>3. QED
    BY <1>2, <1>17, <1>18, <2>1, <2>2, FramesAssumption
<1>23. QED
  BY <1>17, <1>20, <1>21, <1>22 DEF FramesInv

LEMMA ConsumePartStep ==
    ASSUME FramesInv, ConsumePart
    PROVE  FramesInv'
<1>1. /\ status = "reading" /\ chunk # <<>> /\ ~Contains(chunk, "n")
      /\ buf' = buf \o chunk /\ chunk' = <<>>
      /\ status' = IF TooLong(buf') THEN "refused" ELSE status
      /\ sent' = sent /\ read' = read /\ frames' = frames
      /\ ReaderTypeOK /\ InStep /\ Len(chunk) <= Chunk
  BY DEF ConsumePart, FramesInv
<1>2. /\ sent \in Seq(Bytes) /\ chunk \in Seq(Bytes) /\ Len(chunk) \in Nat
      /\ buf \in Seq(Bytes) /\ Len(buf) \in Nat /\ read \in Nat /\ Len(sent) \in Nat
      /\ read <= Len(sent) /\ Cap \in Nat /\ Chunk \in Nat
  BY <1>1, Types
<1>3. PICK s, c, r : s = sent /\ c = Taken /\ r = read
  OBVIOUS
<1>4. Taken < Len(sent)
  <2>1. Len(chunk) >= 1
    BY <1>1, <1>2
  <2>2. QED
    BY <1>2, <2>1 DEF Taken
<1>5. /\ s \in Seq(Bytes) /\ c \in 0..Len(s) /\ r \in c..Len(s) /\ Len(chunk) = r - c
      /\ chunk = SubSeq(s, c + 1, r) /\ Len(frames) = Len(Split(s)[c]) - 1
      /\ \A i \in 1..(Len(Split(s)[c]) - 1) : frames[i] = Trim(Split(s)[c][i])
      /\ buf = Last(Split(s)[c]) /\ Len(buf) <= Cap
  BY <1>1, <1>2, <1>3, <1>4, Growing
<1>6. s \in Seq(Bytes) /\ c \in 0..Len(s) /\ r \in c..Len(s) /\ r \in 0..Len(s)
  BY <1>5, <1>2, <1>3
<1>7. \A i \in (c + 1)..r : s[i] # "n"
  <2>1. ASSUME NEW i \in (c + 1)..r PROVE s[i] # "n"
    <3>1. i - c \in 1..(r - c) /\ c + (i - c) = i
      BY <1>6
    <3>2. SubSeq(s, c + 1, r)[i - c] = s[i]
      BY <1>6, <3>1
    <3>3. chunk[i - c] # "n"
      <4>1. Len(chunk) = r - c
        BY <1>5
      <4>2. QED
        BY <1>1, <3>1, <4>1 DEF Contains
    <3>4. QED
      BY <1>5, <3>2, <3>3
  <2>2. QED
    BY <2>1
<1>8. /\ Len(Split(s)[r]) = Len(Split(s)[c])
      /\ Last(Split(s)[r]) = Last(Split(s)[c]) \o SubSeq(s, c + 1, r)
      /\ \A i \in 1..(Len(Split(s)[c]) - 1) : Split(s)[r][i] = Split(s)[c][i]
  BY <1>6, <1>7, PartLines
<1>9. buf' = Last(Split(s)[r])
  BY <1>1, <1>5, <1>8
<1>10. /\ Len(frames') = Len(Split(s)[r]) - 1
       /\ \A i \in 1..(Len(Split(s)[r]) - 1) : frames'[i] = Trim(Split(s)[r][i])
  BY <1>1, <1>5, <1>8
<1>11. buf' \in Seq(Bytes) /\ Len(buf') = Len(buf) + Len(chunk)
  BY <1>1, <1>2
<1>12. status' \in {"reading", "refused"}
  BY <1>1
<1>13. ReaderTypeOK'
  BY <1>1, <1>11, <1>12 DEF ReaderTypeOK
<1>14. Len(buf') <= Cap + Chunk /\ Len(<<>>) <= Chunk
  <2>1. Len(buf) <= Cap
    BY <1>5
  <2>2. QED
    BY <1>1, <1>2, <1>11, <2>1
<1>15. CASE Len(buf') > Cap
  <2>1. status' = "refused"
    BY <1>1, <1>15 DEF TooLong
  <2>2. sent' = s /\ Len(Last(Split(s)[r])) > Cap
    BY <1>1, <1>3, <1>9, <1>15
  <2>3. Cut'
    BY <1>6, <1>10, <2>2 DEF Cut, Trimmed
  <2>4. QED
    BY <1>1, <1>13, <1>14, <2>1, <2>3 DEF FramesInv
<1>16. CASE ~ (Len(buf') > Cap)
  <2>1. status' = "reading" /\ Len(buf') <= Cap
    BY <1>1, <1>2, <1>11, <1>16 DEF TooLong
  <2>2. Taken' = r
    <3>1. Len(chunk') = 0 /\ read' = r /\ r \in Nat
      BY <1>1, <1>2, <1>3
    <3>2. QED
      BY <3>1 DEF Taken
  <2>3. Behind' = Split(s)[r]
    BY <1>1, <1>3, <2>2 DEF Behind
  <2>4. chunk' = SubSeq(sent', Taken' + 1, read') /\ Len(chunk') <= read'
    <3>1. read' = r /\ r \in Nat /\ chunk' = <<>> /\ Len(<<>>) <= r
      BY <1>1, <1>2, <1>3
    <3>2. SubSeq(sent', r + 1, r) = <<>>
      BY <3>1, SubSeqEmpty
    <3>3. QED
      BY <2>2, <3>1, <3>2
  <2>5. Trimmed(Behind, Len(Behind) - 1)'
    BY <1>10, <2>3 DEF Trimmed
  <2>6. InStep'
    BY <1>9, <2>1, <2>3, <2>4, <2>5 DEF InStep
  <2>7. QED
    BY <1>1, <1>13, <1>14, <2>1, <2>6 DEF FramesInv
<1>17. QED
  BY <1>15, <1>16

LEMMA EndOfFileStep ==
    ASSUME FramesInv, EndOfFile
    PROVE  FramesInv'
<1>1. /\ status = "reading" /\ chunk = <<>> /\ read = Len(sent)
      /\ sent' = sent /\ read' = read /\ chunk' = chunk
      /\ ReaderTypeOK /\ InStep /\ Len(buf) <= Cap + Chunk /\ Len(chunk) <= Chunk
  BY DEF EndOfFile, FramesInv
<1>2. /\ sent \in Seq(Bytes) /\ read \in Nat /\ Len(sent) \in Nat
      /\ buf \in Seq(Bytes) /\ Cap \in Nat /\ Chunk \in Nat
  BY <1>1, Types
<1>3. PICK s, c : s = sent /\ c = Len(sent)
  OBVIOUS
<1>4. Taken = c /\ Taken' = c
  <2>1. Len(chunk) = 0 /\ Len(chunk') = 0
    BY <1>1
  <2>2. QED
    BY <1>1, <1>2, <1>3, <2>1 DEF Taken
<1>5. CASE buf = <<>>
  <2>1. status' = "closed" /\ buf' = buf /\ frames' = frames
    BY <1>5 DEF EndOfFile
  <2>2. ReaderTypeOK'
    BY <1>1, <2>1 DEF ReaderTypeOK
  <2>3. InStep'
    BY <1>1, <2>1 DEF InStep, Trimmed, Behind, Taken
  <2>4. Taken' = Len(sent') /\ buf' = <<>>
    BY <1>1, <1>3, <1>4, <1>5, <2>1
  <2>5. QED
    BY <1>1, <2>1, <2>2, <2>3, <2>4 DEF FramesInv
<1>6. CASE buf # <<>>
  <2>1. Finish(buf)
    BY <1>6 DEF EndOfFile
  <2>2. /\ s \in Seq(Bytes) /\ c \in 0..Len(s)
        /\ Len(frames) = Len(Split(s)[c]) - 1
        /\ \A i \in 1..(Len(Split(s)[c]) - 1) : frames[i] = Trim(Split(s)[c][i])
        /\ buf = Last(Split(s)[c])
    BY <1>1, <1>2, <1>3, <1>4, <1>6, Growing
  <2>3. /\ buf' = <<>> /\ frames' \in Seq(Seq(Text))
        /\ \/ status' = "refused" /\ Cut'
           \/ /\ status' = "reading"
              /\ Len(frames') = Len(Split(s)[c])
              /\ \A i \in 1..Len(Split(s)[c]) : frames'[i] = Trim(Split(s)[c][i])
    <3>1. Trim(buf) = Trim(Last(Split(s)[c]))
      BY <2>2
    <3>2. Contains(buf, "bad") <=> Contains(Last(Split(s)[c]), "bad")
      BY <2>2
    <3>3. QED
      BY <1>1, <1>3, <2>1, <2>2, <3>1, <3>2, FinishedLine
  <2>4. ReaderTypeOK'
    BY <1>1, <2>3 DEF ReaderTypeOK, Text
  <2>5. Len(buf') <= Cap + Chunk
    BY <1>2, <2>3
  <2>6. status' = "reading" => InStep'
    <3> SUFFICES ASSUME status' = "reading" PROVE InStep'
      OBVIOUS
    <3>1. /\ Len(frames') = Len(Split(s)[c])
          /\ \A i \in 1..Len(Split(s)[c]) : frames'[i] = Trim(Split(s)[c][i])
      BY <2>3
    <3>2. Behind' = Split(s)[c]
      BY <1>1, <1>3, <1>4 DEF Behind
    <3>3. Trimmed(Behind, Len(Behind))'
      BY <3>1, <3>2 DEF Trimmed
    <3>4. Last(Behind') # <<>> /\ Taken' = Len(sent')
      BY <1>1, <1>3, <1>4, <1>6, <2>2, <3>2
    <3>5. chunk' = SubSeq(sent', Taken' + 1, read') /\ Len(chunk') <= read'
      <4>1. Len(chunk) <= read /\ chunk = SubSeq(sent, Taken + 1, read)
        BY <1>1 DEF InStep
      <4>2. QED
        BY <1>1, <1>4, <4>1
    <3>6. QED
      BY <2>3, <3>3, <3>4, <3>5 DEF InStep
  <2>7. QED
    BY <1>1, <2>3, <2>4, <2>5, <2>6 DEF FramesInv
<1>7. QED
  BY <1>5, <1>6

LEMMA Steps == FramesInv /\ [ReaderNext]_readerVars => FramesInv'
<1> SUFFICES ASSUME FramesInv, [ReaderNext]_readerVars PROVE FramesInv'
  OBVIOUS
<1>1. CASE \E k \in 1..Chunk : Fill(k)
  BY <1>1, FillStep
<1>2. CASE ConsumeLine
  BY <1>2, ConsumeLineStep
<1>3. CASE ConsumePart
  BY <1>3, ConsumePartStep
<1>4. CASE EndOfFile
  BY <1>4, EndOfFileStep
<1>5. CASE UNCHANGED readerVars
  BY <1>5 DEF readerVars, FramesInv, ReaderTypeOK, InStep, Cut, Trimmed, Behind, Taken
<1>6. QED
  BY <1>1, <1>2, <1>3, <1>4, <1>5 DEF ReaderNext

LEMMA Invariance == ReaderSpec => []FramesInv
<1>1. ReaderInit => FramesInv
  BY Inits
<1>2. FramesInv /\ [ReaderNext]_readerVars => FramesInv'
  BY Steps
<1>3. QED
  BY <1>1, <1>2, PTL DEF ReaderSpec

-----------------------------------------------------------------------------
(* Theorems *)

\* The state is of its type: above all, no frame has a newline in it.
THEOREM ReaderTyped == ReaderSpec => []ReaderTypeOK
<1>1. FramesInv => ReaderTypeOK
  BY DEF FramesInv
<1>2. QED
  BY <1>1, Invariance, PTL

\* What is forwarded is the client's lines, in order and whole.
LEMMA FramesFromLines ==
    ASSUME ReaderTypeOK, NEW c \in 0..Len(sent), NEW n \in Nat,
           Trimmed(Split(sent)[c], n), n <= Len(Split(sent)[c]),
           n = Len(Split(sent)[c]) => Last(Split(sent)[c]) # <<>> /\ c = Len(sent)
    PROVE  frames = [k \in DOMAIN frames |-> Trim(Lines(sent)[k])]
<1>1. /\ sent \in Seq(Bytes) /\ frames \in Seq(Seq(Text))
      /\ Len(Split(sent)[c]) \in Nat \ {0}
  BY Types, SplitTypes
<1>2. \A i \in 1..n : Lines(sent)[i] = Split(sent)[c][i]
  <2>1. CASE n = Len(Split(sent)[c])
    BY <1>1, <2>1, WholeLines
  <2>2. CASE n # Len(Split(sent)[c])
    <3>1. \A i \in 1..n : i \in 1..(Len(Split(sent)[c]) - 1)
      BY <1>1, <2>2
    <3>2. \A i \in 1..(Len(Split(sent)[c]) - 1) : Lines(sent)[i] = Split(sent)[c][i]
      BY <1>1, WholeLines
    <3>3. QED
      BY <3>1, <3>2
  <2>3. QED
    BY <2>1, <2>2
<1>3. Len(frames) = n /\ \A i \in 1..n : frames[i] = Trim(Lines(sent)[i])
  BY <1>2 DEF Trimmed
<1>4. DOMAIN frames = 1..n /\ frames = [k \in DOMAIN frames |-> frames[k]]
  BY <1>1, <1>3
<1>5. QED
  BY <1>3, <1>4

\* However the stream is cut into pieces, the frames are the client's lines,
\* whole, once each and in order, and at an orderly end all of them (serve.rs
\* read_bounded_line: only the bytes up to the newline are consumed).
THEOREM WholeLinesForwarded == ReaderSpec => []FramesAreLines
<1>1. FramesInv => FramesAreLines
  <2> SUFFICES ASSUME FramesInv PROVE FramesAreLines
    OBVIOUS
  <2>1. ReaderTypeOK /\ status \in {"reading", "closed", "refused"}
    BY DEF FramesInv, ReaderTypeOK
  <2>2. sent \in Seq(Bytes) /\ Len(sent) \in Nat
    BY <2>1, Types
  <2>3. CASE status = "refused"
    <3>1. PICK c \in 0..Len(sent) : Trimmed(Split(sent)[c], Len(Split(sent)[c]) - 1)
      BY <2>3 DEF FramesInv, Cut
    <3>2. Len(Split(sent)[c]) \in Nat \ {0}
      BY <2>2, SplitTypes
    <3>3. PICK n : n = Len(Split(sent)[c]) - 1
      OBVIOUS
    <3>4. n \in Nat /\ n <= Len(Split(sent)[c]) /\ n # Len(Split(sent)[c])
      BY <3>2, <3>3
    <3>5. frames = [k \in DOMAIN frames |-> Trim(Lines(sent)[k])]
      BY <2>1, <3>1, <3>3, <3>4, FramesFromLines
    <3>6. QED
      BY <2>3, <3>5 DEF FramesAreLines
  <2>4. CASE status # "refused"
    <3>1. InStep
      BY <2>4 DEF FramesInv
    <3>2. PICK c : c = Taken
      OBVIOUS
    <3>3. c \in 0..Len(sent)
      <4>1. read \in 0..Len(sent) /\ Len(chunk) \in Nat /\ Len(chunk) <= read
        BY <2>1, <3>1, Types DEF InStep
      <4>2. QED
        BY <2>2, <3>2, <4>1 DEF Taken
    <3>4. Len(Split(sent)[c]) \in Nat \ {0} /\ Behind = Split(sent)[c]
      BY <2>2, <3>2, <3>3, SplitTypes DEF Behind
    <3>5. CASE Trimmed(Behind, Len(Behind) - 1) /\ buf = Last(Behind)
      <4>1. PICK n : n = Len(Split(sent)[c]) - 1
        OBVIOUS
      <4>2. n \in Nat /\ n <= Len(Split(sent)[c]) /\ n # Len(Split(sent)[c])
        BY <3>4, <4>1
      <4>3. Trimmed(Split(sent)[c], n)
        BY <3>4, <3>5, <4>1
      <4>4. frames = [k \in DOMAIN frames |-> Trim(Lines(sent)[k])]
        BY <2>1, <3>3, <4>2, <4>3, FramesFromLines
      <4>5. status = "closed" => Len(frames) = Len(Lines(sent))
        <5> SUFFICES ASSUME status = "closed" PROVE Len(frames) = Len(Lines(sent))
          OBVIOUS
        <5>1. c = Len(sent) /\ Last(Split(sent)[c]) = <<>>
          BY <3>2, <3>4, <3>5 DEF FramesInv
        <5>2. Len(Lines(sent)) = Len(Split(sent)[c]) - 1
          BY <2>2, <3>3, <5>1, WholeLines
        <5>3. QED
          BY <4>1, <4>3, <5>2 DEF Trimmed
      <4>6. QED
        BY <4>4, <4>5 DEF FramesAreLines
    <3>6. CASE Trimmed(Behind, Len(Behind)) /\ Last(Behind) # <<>> /\ Taken = Len(sent)
      <4>1. PICK n : n = Len(Split(sent)[c])
        OBVIOUS
      <4>2. n \in Nat /\ n <= Len(Split(sent)[c]) /\ Trimmed(Split(sent)[c], n)
        BY <3>4, <3>6, <4>1
      <4>3. Last(Split(sent)[c]) # <<>> /\ c = Len(sent)
        BY <3>2, <3>4, <3>6
      <4>4. frames = [k \in DOMAIN frames |-> Trim(Lines(sent)[k])]
        BY <2>1, <3>3, <4>2, <4>3, FramesFromLines
      <4>5. Lines(sent) = Split(sent)[c]
        BY <2>2, <3>3, <4>3, WholeLines
      <4>6. QED
        BY <4>1, <4>2, <4>4, <4>5 DEF FramesAreLines, Trimmed
    <3>7. QED
      BY <3>1, <3>5, <3>6 DEF InStep
  <2>5. QED
    BY <2>3, <2>4
<1>2. QED
  BY <1>1, Invariance, PTL

\* A connection is cut only over a line that is too long or no UTF-8, and what
\* it holds of a line is bounded by the cap and one chunk (serve.rs
\* MAX_FRAME_BYTES).
THEOREM OnlyBadLinesCut == ReaderSpec => []OnlyBadLinesRefused
<1>1. FramesInv => OnlyBadLinesRefused
  <2> SUFFICES ASSUME FramesInv PROVE OnlyBadLinesRefused
    OBVIOUS
  <2>1. ReaderTypeOK /\ Len(buf) <= Cap + Chunk
    BY DEF FramesInv
  <2>2. ASSUME status = "refused"
        PROVE  \/ Len(Lines(sent)[Len(frames) + 1]) > Cap
               \/ Contains(Lines(sent)[Len(frames) + 1], "bad")
    <3>1. PICK c \in 0..Len(sent) :
            /\ Trimmed(Split(sent)[c], Len(Split(sent)[c]) - 1)
            /\ \/ Len(Last(Split(sent)[c])) > Cap
               \/ Contains(Last(Split(sent)[c]), "bad")
      BY <2>2 DEF FramesInv, Cut
    <3>2. sent \in Seq(Bytes) /\ Cap \in Nat
      BY <2>1, Types
    <3>3. Len(Split(sent)[c]) \in Nat \ {0} /\ Last(Split(sent)[c]) \in Seq(Text)
      BY <3>2, SplitTypes
    <3>4. Len(frames) + 1 = Len(Split(sent)[c])
      BY <3>1, <3>3 DEF Trimmed
    <3>5. PICK part, line : part = Last(Split(sent)[c]) /\ line = Lines(sent)[Len(Split(sent)[c])]
      OBVIOUS
    <3>6. part # <<>>
      <4>1. CASE Len(part) > Cap
        <5>1. part = <<>> => Len(part) = 0
          OBVIOUS
        <5>2. QED
          BY <3>2, <4>1, <5>1
      <4>2. CASE Contains(part, "bad")
        <5>1. PICK i \in 1..Len(part) : part[i] = "bad"
          BY <4>2 DEF Contains
        <5>2. QED
          BY <5>1
      <4>3. QED
        BY <3>1, <3>5, <4>1, <4>2
    <3>7. /\ Len(part) <= Len(line) /\ \A i \in 1..Len(part) : line[i] = part[i]
          /\ line \in Seq(Text)
      BY <3>2, <3>5, <3>6, WholeLines
    <3>8. CASE Len(part) > Cap
      <4>1. Len(part) \in Nat /\ Len(line) \in Nat
        BY <3>3, <3>5, <3>7
      <4>2. Len(line) > Cap
        BY <3>2, <3>7, <3>8, <4>1
      <4>3. QED
        BY <3>4, <3>5, <4>2
    <3>9. CASE Contains(part, "bad")
      <4>1. PICK i \in 1..Len(part) : part[i] = "bad"
        BY <3>9 DEF Contains
      <4>2. i \in 1..Len(line) /\ line[i] = "bad"
        BY <3>3, <3>5, <3>7, <4>1
      <4>3. Contains(line, "bad")
        BY <4>2 DEF Contains
      <4>4. QED
        BY <3>4, <3>5, <4>3
    <3>10. QED
      BY <3>1, <3>5, <3>8, <3>9
  <2>3. QED
    BY <2>1, <2>2 DEF OnlyBadLinesRefused
<1>2. QED
  BY <1>1, Invariance, PTL
=============================================================================
