---------------------------- MODULE ControlPlane ----------------------------
(***************************************************************************)
(* The control plane of one root (serve.rs, cli/socket.rs): `figmog serve` *)
(* processes that start, own <root>/serve.sock and leave, and commands     *)
(* that reach the owner over the socket or, finding nobody, run directly.  *)
(*                                                                         *)
(* A serve process and a command each run once; a restart is another       *)
(* process.  A socket file is named after the process that bound it, which *)
(* is what the (dev, ino) pair of SocketGuard tells.  Every system call on *)
(* the path is a step.  What a request does to the mirror is in Serve, and *)
(* the store's own lock in Mirror.                                         *)
(***************************************************************************)
EXTENDS Naturals, Sequences, FiniteSets

CONSTANTS
    Serves,      \* `figmog serve` processes
    Clients,     \* commands, and other users of the socket
    HalfClosers, \* clients that shut down their sending side after the request
    None,        \* no file, no process, no client
    Leftover,    \* a socket file whose process died before this history
    Eof,         \* Incoming::StdinClosed
    Overlap,     \* TRUE: processes start at any time; FALSE: never while another
                 \* process is binding or leaving
    MaxRemovals  \* bound on the times an operator removes the file

ASSUME ControlPlaneAssumption ==
    /\ HalfClosers \subseteq Clients
    /\ Overlap \in BOOLEAN
    /\ MaxRemovals \in Nat
    /\ None \notin Serves \cup Clients \cup {Leftover}
    /\ Leftover \notin Serves
    /\ Eof \notin Clients

VARIABLES
    file,        \* whose socket file is at <root>/serve.sock
    phase,       \* per process: where run_serve is
    guard,       \* per process: SocketGuard's (dev, ino)
    queue,       \* per process: the mpsc channel
    stdin,       \* per process: whether stdin is still open
    handling,    \* per process: the client whose request is being answered
    registered,  \* clients with an entry in their process's ConnRegistry
    client,      \* per client: what has become of it
    conn,        \* per client: the process it connected to
    frame,       \* per client: where its request is
    ran,         \* per client: how many times its request was carried out
    removals     \* removals so far

procVars == <<phase, guard, queue, stdin, handling>>
connVars == <<registered, client, conn, frame, ran>>
vars == <<file, phase, guard, queue, stdin, handling, registered, client, conn,
          frame, ran, removals>>

Binding == {"probe", "unlink", "bind", "listen", "chmod", "stat"}
Owning == {"startup", "serving", "stuck"}
Leaving == {"closing", "checking", "removing", "exiting"}
Ended == {"ended", "failed", "crashed"}
Phases == {"new"} \cup Binding \cup Owning \cup Leaving \cup Ended

TypeOK ==
    /\ file \in Serves \cup {None, Leftover}
    /\ phase \in [Serves -> Phases]
    /\ guard \in [Serves -> Serves \cup {None, Leftover}]
    /\ queue \in [Serves -> Seq(Clients \cup {Eof})]
    /\ stdin \in [Serves -> BOOLEAN]
    /\ handling \in [Serves -> Clients \cup {None}]
    /\ registered \subseteq Clients
    /\ client \in [Clients -> {"idle", "direct", "waiting", "answered", "error"}]
    /\ conn \in [Clients -> Serves \cup {None}]
    /\ frame \in [Clients -> {"none", "backlog", "reader", "queue", "gone"}]
    /\ ran \in [Clients -> 0..2]
    /\ removals \in 0..MaxRemovals

\* The accept thread owns the listener and lives until the process ends.
Listening(s) == phase[s] \in {"chmod", "stat"} \cup Owning \cup Leaving

\* Whether a connect to <root>/serve.sock succeeds.
Reachable == file \in Serves /\ Listening(file)

Settled == \A s \in Serves : phase[s] \notin Binding \cup Leaving

Init ==
    /\ file \in {None, Leftover}
    /\ phase = [s \in Serves |-> "new"]
    /\ guard = [s \in Serves |-> None]
    /\ queue = [s \in Serves |-> <<>>]
    /\ stdin = [s \in Serves |-> TRUE]
    /\ handling = [s \in Serves |-> None]
    /\ registered = {}
    /\ client = [c \in Clients |-> "idle"]
    /\ conn = [c \in Clients |-> None]
    /\ frame = [c \in Clients |-> "none"]
    /\ ran = [c \in Clients |-> 0]
    /\ removals = 0

-----------------------------------------------------------------------------
(* bind_socket and SocketGuard::new *)

Goto(s, from, to) == phase[s] = from /\ phase' = [phase EXCEPT ![s] = to]

NoIO == UNCHANGED <<queue, stdin, handling, connVars>>

\* path.exists()
Start(s) ==
    /\ Overlap \/ Settled
    /\ Goto(s, "new", IF file = None THEN "bind" ELSE "probe")
    /\ NoIO /\ UNCHANGED <<file, guard, removals>>

\* Mutant: every existing file is stale.
ClassifyAlwaysStale == "unlink"

\* classify_probe: whoever accepts owns the root, any failure is a stale file.
ClassifyProbe == IF Reachable THEN "failed" ELSE "unlink"

Probe(s) ==
    /\ Goto(s, "probe", ClassifyProbe)
    /\ NoIO /\ UNCHANGED <<file, guard, removals>>

\* remove_file: an error if the file is gone.
Unlink(s) ==
    /\ Goto(s, "unlink", IF file = None THEN "failed" ELSE "bind")
    /\ file' = None
    /\ NoIO /\ UNCHANGED <<guard, removals>>

\* bind(2): an error if there is a file.
Bind(s) ==
    /\ Goto(s, "bind", IF file = None THEN "listen" ELSE "failed")
    /\ file' = IF file = None THEN s ELSE file
    /\ NoIO /\ UNCHANGED <<guard, removals>>

\* listen(2): from here on a connect succeeds.
Listen(s) ==
    /\ Goto(s, "listen", "chmod")
    /\ NoIO /\ UNCHANGED <<file, guard, removals>>

\* The connections to a process that is gone are closed: whoever waits on one
\* reads end of file, an error.
Closed(s) ==
    LET mine == {c \in Clients : conn[c] = s}
    IN  /\ registered' = registered \ mine
        /\ client' = [c \in Clients |-> IF c \in mine /\ client[c] = "waiting"
                                        THEN "error" ELSE client[c]]
        /\ frame' = [c \in Clients |-> IF c \in mine THEN "gone" ELSE frame[c]]
        /\ queue' = [queue EXCEPT ![s] = <<>>]
        /\ handling' = [handling EXCEPT ![s] = None]
        /\ UNCHANGED <<stdin, conn, ran>>

\* metadata and set_permissions on the path; the file stays on an error.
Chmod(s) ==
    /\ file # None
    /\ Goto(s, "chmod", "stat")
    /\ NoIO /\ UNCHANGED <<file, guard, removals>>

ChmodFails(s) ==
    /\ Goto(s, "chmod", "failed")
    /\ Closed(s)
    /\ UNCHANGED <<file, guard, removals>>

\* SocketGuard::new records what is at the path; the accept thread starts.
NewGuard(s) ==
    /\ file # None
    /\ Goto(s, "stat", "startup")
    /\ guard' = [guard EXCEPT ![s] = file]
    /\ NoIO /\ UNCHANGED <<file, removals>>

NewGuardFails(s) ==
    /\ file = None
    /\ Goto(s, "stat", "failed")
    /\ Closed(s)
    /\ UNCHANGED <<file, guard, removals>>

\* build_sessions and the upstream probe.
StartupDone(s) ==
    /\ Goto(s, "startup", "serving")
    /\ NoIO /\ UNCHANGED <<file, guard, removals>>

\* Mutant: the process exits on the spot.
StartupExits(s) ==
    /\ Goto(s, "startup", "exiting")
    /\ NoIO /\ UNCHANGED <<file, guard, removals>>

StartupFails(s) ==
    /\ Goto(s, "startup", "closing")
    /\ NoIO /\ UNCHANGED <<file, guard, removals>>

\* A request to the API that is never answered, as no read has a timeout, or a
\* stdout that nobody reads: the loop stands still, the other threads go on.
Stall(s) ==
    /\ phase[s] \in {"startup", "serving"}
    /\ phase' = [phase EXCEPT ![s] = "stuck"]
    /\ NoIO /\ UNCHANGED <<file, guard, removals>>

BindSocket(s) ==
    \/ Start(s) \/ Probe(s) \/ Unlink(s) \/ Bind(s) \/ Listen(s)
    \/ Chmod(s) \/ ChmodFails(s) \/ NewGuard(s) \/ NewGuardFails(s)

-----------------------------------------------------------------------------
(* The connections and the loop *)

\* try_call: connect and send the request, or, refused, run it directly.
TryCall(c) ==
    /\ client[c] = "idle"
    /\ IF Reachable
       THEN /\ client' = [client EXCEPT ![c] = "waiting"]
            /\ conn' = [conn EXCEPT ![c] = file]
            /\ frame' = [frame EXCEPT ![c] = "backlog"]
       ELSE /\ client' = [client EXCEPT ![c] = "direct"]
            /\ UNCHANGED <<conn, frame>>
    /\ UNCHANGED <<file, procVars, registered, ran, removals>>

\* Direct mode: carried out on the store, or refused (locked, no mirror).
RunDirect(c) ==
    /\ client[c] = "direct"
    /\ \/ /\ client' = [client EXCEPT ![c] = "answered"]
          /\ ran' = [ran EXCEPT ![c] = @ + 1]
       \/ /\ client' = [client EXCEPT ![c] = "error"]
          /\ UNCHANGED ran
    /\ UNCHANGED <<file, procVars, registered, conn, frame, removals>>

Accepts(s) == phase[s] \in Owning \cup Leaving

\* The write half is registered, then the reader thread starts.
Accept(c) ==
    /\ frame[c] = "backlog" /\ Accepts(conn[c])
    /\ registered' = registered \cup {c}
    /\ frame' = [frame EXCEPT ![c] = "reader"]
    /\ UNCHANGED <<file, procVars, client, conn, ran, removals>>

\* try_clone or set_write_timeout fails: the connection is dropped unread.
AcceptFails(c) ==
    /\ frame[c] = "backlog" /\ Accepts(conn[c])
    /\ frame' = [frame EXCEPT ![c] = "gone"]
    /\ client' = IF client[c] = "waiting" THEN [client EXCEPT ![c] = "error"]
                                          ELSE client
    /\ UNCHANGED <<file, procVars, registered, conn, ran, removals>>

\* The reader thread forwards the request, whatever its client does meanwhile.
Forward(c) ==
    /\ frame[c] = "reader"
    /\ frame' = [frame EXCEPT ![c] = "queue"]
    /\ queue' = [queue EXCEPT ![conn[c]] = Append(@, c)]
    /\ UNCHANGED <<file, phase, guard, stdin, handling, registered, client,
                   conn, ran, removals>>

\* Mutant: the reader thread reads one frame, not to the end.
OneFrame(c) == frame[c] \in {"queue", "gone"}

\* The reader thread reads end of file once the client sends no more.
SendsNoMore(c) ==
    /\ frame[c] \in {"queue", "gone"}
    /\ client[c] \in {"answered", "error"} \/ c \in HalfClosers

\* The reader thread ends and drops the write half, if it is still there, with
\* its own: that closes the connection.
Unregister(c) ==
    /\ c \in registered \/ client[c] = "waiting"
    /\ SendsNoMore(c)
    /\ registered' = registered \ {c}
    /\ client' = IF client[c] = "waiting" THEN [client EXCEPT ![c] = "error"]
                                          ELSE client
    /\ UNCHANGED <<file, procVars, conn, frame, ran, removals>>

\* End of stdin travels through the channel like any message.
StdinCloses(s) ==
    /\ stdin[s] /\ phase[s] \in Owning
    /\ stdin' = [stdin EXCEPT ![s] = FALSE]
    /\ queue' = [queue EXCEPT ![s] = Append(@, Eof)]
    /\ UNCHANGED <<file, phase, guard, handling, connVars, removals>>

\* Mutants: the message stays in the channel; the rest goes with it.
Peeked(messages) == messages
Drained(messages) == <<>>

\* What recv leaves in the channel.
Received(messages) == Tail(messages)

Take(s) ==
    /\ phase[s] = "serving" /\ handling[s] = None /\ queue[s] # <<>>
    /\ queue' = [queue EXCEPT ![s] = Received(@)]
    /\ LET c == Head(queue[s])
       IN  IF c = Eof
           THEN /\ phase' = [phase EXCEPT ![s] = "closing"]
                /\ UNCHANGED <<handling, frame, ran>>
           ELSE /\ handling' = [handling EXCEPT ![s] = c]
                /\ frame' = [frame EXCEPT ![c] = "gone"]
                /\ ran' = [ran EXCEPT ![c] = @ + 1]
                /\ UNCHANGED phase
    /\ UNCHANGED <<file, guard, stdin, registered, client, conn, removals>>

\* The connection whose request is being handled, if it is still registered.
Recipient(s) == IF handling[s] \in registered THEN handling[s] ELSE None

\* write_socket_response: to a client that is gone the write fails, and the
\* entry with it.
Respond(s) ==
    /\ phase[s] = "serving" /\ handling[s] # None
    /\ handling' = [handling EXCEPT ![s] = None]
    /\ LET c == Recipient(s)
       IN  IF c # None /\ client[c] = "waiting"
           THEN /\ client' = [client EXCEPT ![c] = "answered"]
                /\ UNCHANGED registered
           ELSE /\ registered' = registered \ {c}
                /\ UNCHANGED client
    /\ UNCHANGED <<file, phase, guard, queue, stdin, conn, frame, ran, removals>>

\* try_clone fails, or the write does, after SOCKET_WRITE_TIMEOUT for one: only
\* the second drops the entry, and neither closes the connection.
ResponseLost(s) ==
    /\ phase[s] = "serving" /\ handling[s] \in registered
    /\ handling' = [handling EXCEPT ![s] = None]
    /\ registered' \in {registered, registered \ {handling[s]}}
    /\ UNCHANGED <<file, phase, guard, queue, stdin, client, conn, frame, ran, removals>>

\* Mutant: an unanswered command is carried out directly.
FallBack(c) ==
    /\ client[c] = "waiting"
    /\ client' = [client EXCEPT ![c] = "direct"]
    /\ UNCHANGED <<file, procVars, registered, conn, frame, ran, removals>>

\* SOCKET_TIMEOUT, or the command is killed: it closes its connection.
GiveUp(c) ==
    /\ client[c] = "waiting"
    /\ client' = [client EXCEPT ![c] = "error"]
    /\ UNCHANGED <<file, procVars, registered, conn, frame, ran, removals>>

-----------------------------------------------------------------------------
(* Leaving: the sessions are dropped, then SocketGuard, then the process ends *)

\* The agent's end of stdout is closed.
StdoutCloses(s) ==
    /\ handling[s] = None
    /\ Goto(s, "serving", "closing")
    /\ NoIO /\ UNCHANGED <<file, guard, removals>>

DropSessions(s) ==
    /\ Goto(s, "closing", "checking")
    /\ NoIO /\ UNCHANGED <<file, guard, removals>>

\* Mutant: whatever file is there.
SameFileAny(s) == file # None

\* The stat of SocketGuard::drop.
SameFile(s) == file = guard[s]

DropGuard(s) ==
    /\ Goto(s, "checking", IF SameFile(s) THEN "removing" ELSE "exiting")
    /\ NoIO /\ UNCHANGED <<file, guard, removals>>

RemoveSocket(s) ==
    /\ Goto(s, "removing", "exiting")
    /\ file' = None
    /\ NoIO /\ UNCHANGED <<guard, removals>>

ProcessEnds(s) ==
    /\ Goto(s, "exiting", "ended")
    /\ Closed(s)
    /\ UNCHANGED <<file, guard, removals>>

\* Killed, by Ctrl-C for one: nothing is dropped.
Crash(s) ==
    /\ phase[s] \notin {"new"} \cup Ended
    /\ phase' = [phase EXCEPT ![s] = "crashed"]
    /\ Closed(s)
    /\ UNCHANGED <<file, guard, removals>>

\* An operator removes the socket file.
RemoveFile ==
    /\ removals < MaxRemovals /\ file # None
    /\ file' = None
    /\ removals' = removals + 1
    /\ UNCHANGED <<procVars, connVars>>

Leave(s) == DropSessions(s) \/ DropGuard(s) \/ RemoveSocket(s) \/ ProcessEnds(s)

-----------------------------------------------------------------------------
ServeStep(s) ==
    \/ BindSocket(s) \/ StartupDone(s) \/ StartupFails(s) \/ Stall(s)
    \/ StdinCloses(s) \/ StdoutCloses(s) \/ Take(s) \/ Respond(s) \/ ResponseLost(s)
    \/ Leave(s) \/ Crash(s)

ClientStep(c) ==
    \/ TryCall(c) \/ RunDirect(c) \/ Accept(c) \/ AcceptFails(c)
    \/ Forward(c) \/ Unregister(c) \/ GiveUp(c)

Next ==
    \/ \E s \in Serves : ServeStep(s)
    \/ \E c \in Clients : ClientStep(c)
    \/ RemoveFile

Spec == Init /\ [][Next]_vars

\* A process that has started goes on, unless it stalls, and so do its threads.
\* No process has to start, stall, crash or leave, no write has to succeed, and
\* no client has to give up.
Fairness ==
    /\ \A s \in Serves :
          /\ WF_vars(phase[s] # "new" /\ BindSocket(s))
          /\ WF_vars(StartupDone(s) \/ StartupFails(s))
          /\ WF_vars(Take(s)) /\ WF_vars(Respond(s) \/ ResponseLost(s))
          /\ WF_vars(Leave(s))
    /\ \A c \in Clients : WF_vars(Accept(c) \/ AcceptFails(c)) /\ WF_vars(Forward(c))

FairSpec == Spec /\ Fairness

-----------------------------------------------------------------------------
(* Properties *)

\* As long as no operator removes it, the file is that of the process that
\* serves the root, from before its first store is opened to its exit: every
\* command finds it, and a second process finds the root owned (bind_socket).
OwnerReachable ==
    removals = 0 =>
        \A s \in Serves : phase[s] \in Owning => file = s

\* One process serves a root (SPEC 6a, serve.rs bind_socket).
OneServe ==
    removals = 0 =>
        Cardinality({s \in Serves : phase[s] \in Owning}) <= 1

\* A leaving process removes no socket file but its own (SocketGuard).
ExitKeepsOthers == [][\A s \in Serves : RemoveSocket(s) => file \in {s, None}]_vars

\* A file outlives its process only if that was killed or could not finish
\* bind_socket: an orderly exit, a failed startup included, leaves none.
CleanExitUnlinks == \A s \in Serves : phase[s] = "ended" => file # s

\* A request is carried out at most once, over the socket or directly, and its
\* command reports success only if it was (cli/socket.rs: a command that
\* reached serve never opens the store as well).
CarriedOutOnce ==
    \A c \in Clients : ran[c] <= 1 /\ (client[c] = "answered" => ran[c] = 1)

\* A command whose request has been read sees its connection end without a
\* response only by giving up or by the end of the process it reached: whatever
\* its reader thread does, that does not cut it off (spawn_socket_acceptor;
\* SPEC 6a).
NoLostResponse ==
    [][\A c \in Clients :
          client[c] = "waiting" /\ client'[c] = "error"
          => GiveUp(c) \/ frame[c] = "backlog" \/ phase'[conn[c]] \in Ended]_vars

\* The loop has stalled before the request was answered, or its response
\* could not be written.
LeftWaiting(c) ==
    /\ client[c] = "waiting"
    /\ phase[conn[c]] = "stuck" \/ (frame[c] = "gone" /\ handling[conn[c]] # c)

\* A request that reached serve is answered, or its connection is closed, also
\* when it is queued behind others or behind the end of stdin, or when startup
\* fails; only after a stall or a failed write does its command depend on its
\* own timeout (run_serve, spawn_socket_acceptor, write_socket_response).
WaitEnds ==
    \A c \in Clients :
        client[c] = "waiting" ~> client[c] \in {"answered", "error"} \/ LeftWaiting(c)
=============================================================================
