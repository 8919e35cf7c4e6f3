------------------------------ MODULE Routing -------------------------------
(***************************************************************************)
(* How a figmog command finds the mirror that answers it (cli/mod.rs,      *)
(* cli/socket.rs, cli/call.rs, and the routing half of serve.rs).          *)
(*                                                                         *)
(* A command reads .figmog/current, then becomes a client of the serve     *)
(* that owns the root or, when there is none, opens the store itself.      *)
(* Serve picks a session by the `file` argument, by the file a node URL    *)
(* names, or by its default.  Commands, pulls and serves interleave, and   *)
(* .figmog/current may change while a command waits.                       *)
(*                                                                         *)
(* A store is reduced to whether it has a mirror and which proxied calls   *)
(* it has cached; what a pull does to it is in Mirror.                     *)
(***************************************************************************)
EXTENDS Naturals, Sequences, FiniteSets

CONSTANTS
    Keys,      \* file keys; the store of key k is at .figmog/k/db
    None,      \* no key, no answer
    PathKey,   \* the key a session over --db PATH goes by without a FILE
    Clients,   \* CLI invocations under way
    Commands,  \* what they are invoked with
    Starts     \* how serve may be started

LocalReads == {"figmog_status", "figmog_node"}
OtherLocal == {"figmog_sync", "figmog_open", "figmog_files", "figmog_images"}
Proxied    == {"get_code"}
Tools == LocalReads \cup OtherLocal \cup Proxied

\* A command: its kind, the tool, the `file` of --args, the file its node URL
\* names, and --no-socket.
Command == [kind: {"read", "call", "images"}, tool: Tools,
            file: Keys \cup {None}, url: Keys \cup {None}, direct: BOOLEAN]

\* An invocation of serve: the store of --db, the FILE arguments, watch.
Start == [db: Keys \cup {None}, files: Seq(Keys), watch: BOOLEAN]

\* A session of serve's, what serve reads of a tools/call, and what a command prints.
Session == [key: Keys \cup {PathKey}, path: Keys]
Frame == [tool: Tools, file: Keys \cup {None}, url: Keys \cup {None}]
Results == {"ok", "no mirror", "no default", "locked", "unknown tool",
            "missing field", "not json", "failed"}
Outcome == [result: Results, file: Keys \cup {None}, holder: {"none", "serve", "pull"},
            pulled: BOOLEAN]

\* Only `figmog call` takes a `file`, the read commands call the read tools, and
\* watch over --db needs a FILE.  A FILE given twice opens its session once, so
\* Starts name each FILE once.
ASSUME RoutingAssumption ==
    /\ Commands \subseteq Command
    /\ \A cmd \in Commands :
          /\ cmd.kind = "call" \/ cmd.file = None
          /\ cmd.kind = "read" => cmd.tool \in LocalReads
          /\ cmd.kind = "images" => cmd.tool = "figmog_images"
    /\ \A s \in Starts :
          /\ s \in Start
          /\ s.watch /\ s.db # None => s.files # <<>>
          /\ \A i, j \in DOMAIN s.files : s.files[i] = s.files[j] => i = j
    /\ PathKey \notin Keys
    /\ None \notin Keys \cup {PathKey} \cup Commands \cup Frame \cup Outcome

VARIABLES
    mirrored,  \* the stores that hold a mirror
    rows,      \* proxy_cache: the store and the canonical arguments of each row
    current,   \* .figmog/current
    serve,     \* the serve process that owns the root
    writer,    \* the store a CLI pull has open
    asked,     \* per client: its command, its frame, current and mirrored then
    answer     \* per client: what it prints

vars == <<mirrored, rows, current, serve, writer, asked, answer>>

Stopped == [up |-> FALSE, sessions |-> <<>>, default |-> None,
            track |-> FALSE, watch |-> FALSE]
ServeState == [up: BOOLEAN, sessions: Seq(Session), default: Keys \cup {PathKey, None},
               track: BOOLEAN, watch: BOOLEAN]
Asked == [cmd: Commands \cup {None}, frame: Frame \cup {None},
          current: Keys \cup {None}, mirrored: SUBSET Keys]

Held == {serve.sessions[i].path : i \in DOMAIN serve.sessions}
OpenKeys == {serve.sessions[i].key : i \in DOMAIN serve.sessions}

\* No key and no store is opened twice.
OpenedOnce ==
    \A i, j \in DOMAIN serve.sessions :
        \/ serve.sessions[i].key = serve.sessions[j].key
        \/ serve.sessions[i].path = serve.sessions[j].path
        => i = j

TypeOK ==
    /\ mirrored \subseteq Keys
    /\ rows \subseteq [path: Keys, file: Keys \cup {None}]
    /\ current \in Keys \cup {None}
    /\ serve \in ServeState
    /\ serve.default \in OpenKeys \cup {None}
    /\ OpenedOnce
    /\ writer \in (Keys \ Held) \cup {None}
    /\ asked \in [Clients -> Asked]
    /\ answer \in [Clients -> Outcome \cup {None}]

NotAsked == [cmd |-> None, frame |-> None, current |-> None, mirrored |-> {}]

Init ==
    /\ mirrored \in SUBSET Keys
    /\ rows = {}
    /\ current \in mirrored \cup {None}
    /\ serve = Stopped
    /\ writer = None
    /\ asked = [c \in Clients |-> NotAsked]
    /\ answer = [c \in Clients |-> None]

-----------------------------------------------------------------------------
(* Answers *)

Out(result, file) ==
    [result |-> result, file |-> file, holder |-> "none", pulled |-> FALSE]

OutPulled(file) == [Out("ok", file) EXCEPT !.pulled = TRUE]
OutLocked(holder) == [Out("locked", None) EXCEPT !.holder = holder]

Answer(c, out) == answer' = [answer EXCEPT ![c] = out]

\* Reading a store that has no mirror is an error, asking for renders is not.
ReadOut(tool, path, key) ==
    IF path \in mirrored \/ tool = "figmog_images"
    THEN Out("ok", IF key = PathKey THEN path ELSE key)
    ELSE Out("no mirror", None)

\* A pull into a store evicts its rows if the version has moved.
PullInto(path) ==
    /\ mirrored' = mirrored \cup {path}
    /\ rows' \in {rows, {r \in rows : r.path # path}}

-----------------------------------------------------------------------------
(* The command's side: dispatch *)

Waiting(c) == asked[c].cmd # None /\ answer[c] = None
Idle(c) == ~Waiting(c)

\* Mutant: a routed command says nothing of .figmog/current.
CurrentForgotten(cmd) == cmd.file

\* with_current_file, and the `file` cmd_images sends: figmog_open's own
\* file is what to open, any other call without a file gets the current one.
WithCurrentFile(cmd) ==
    IF cmd.file # None \/ (cmd.kind = "call" /\ cmd.tool = "figmog_open")
    THEN cmd.file ELSE current

Ask(c, cmd, frame) ==
    asked' = [asked EXCEPT ![c] = [cmd |-> cmd, frame |-> frame,
                                   current |-> current, mirrored |-> mirrored]]

Routed(cmd) == serve.up /\ ~cmd.direct

\* cmd_images resolves the store before it tries the socket.
Send(c, cmd) ==
    /\ Idle(c) /\ Routed(cmd)
    /\ cmd.kind = "images" => current # None
    /\ Ask(c, cmd, [tool |-> cmd.tool, file |-> WithCurrentFile(cmd), url |-> cmd.url])
    /\ Answer(c, None)
    /\ UNCHANGED <<mirrored, rows, current, serve, writer>>

\* Whatever the command, without .figmog/current there is no store to open.
NoMirror(c, cmd) ==
    /\ Idle(c) /\ current = None
    /\ ~Routed(cmd) \/ cmd.kind = "images"
    /\ Ask(c, cmd, None)
    /\ Answer(c, Out("no mirror", None))
    /\ UNCHANGED <<mirrored, rows, current, serve, writer>>

\* open_store_checked: the store of the current key, if nobody has it.
Direct(c, cmd) ==
    /\ Idle(c) /\ ~Routed(cmd) /\ current # None
    /\ Ask(c, cmd, None)
    /\ UNCHANGED <<current, serve, writer>>

DirectLocked(c, cmd) ==
    /\ Direct(c, cmd)
    /\ current \in Held \cup {writer}
    /\ Answer(c, OutLocked(IF current = writer THEN "pull" ELSE "serve"))
    /\ UNCHANGED <<mirrored, rows>>

DirectOpens(c, cmd) == Direct(c, cmd) /\ current \notin Held \cup {writer}

\* A read command, figmog_images by its own command, or cmd_call with a local
\* read tool, whose arguments dispatch_read_tool searches for no `file`.
DirectRead(c, cmd) ==
    /\ DirectOpens(c, cmd)
    /\ cmd.kind # "call" \/ cmd.tool \in LocalReads
    /\ Answer(c, ReadOut(cmd.tool, current, current))
    /\ UNCHANGED <<mirrored, rows>>

\* do_pull asks the REST API first, and may fail before it opens the store.
DirectSync(c, cmd) ==
    /\ cmd.tool = "figmog_sync"
    /\ \/ /\ DirectOpens(c, cmd)
          /\ PullInto(current) /\ Answer(c, OutPulled(current))
       \/ /\ Direct(c, cmd)
          /\ Answer(c, Out("failed", None)) /\ UNCHANGED <<mirrored, rows>>

\* dispatch_read_tool knows no other local tool.
DirectUnknown(c, cmd) ==
    /\ DirectOpens(c, cmd) /\ cmd.kind = "call"
    /\ cmd.tool \in OtherLocal \ {"figmog_sync"}
    /\ Answer(c, Out("unknown tool", None))
    /\ UNCHANGED <<mirrored, rows>>

\* proxy_call: a row of the same arguments answers; otherwise the upstream
\* does, and its answer is stored under the mirror's version if there is one.
Proxy(path, file) ==
    rows' = IF path \in mirrored THEN rows \cup {[path |-> path, file |-> file]} ELSE rows

DirectProxied(c, cmd) ==
    /\ DirectOpens(c, cmd) /\ cmd.tool \in Proxied
    /\ \/ Proxy(current, cmd.file) /\ Answer(c, Out("ok", None))
       \/ Answer(c, Out("failed", None)) /\ UNCHANGED rows
    /\ UNCHANGED mirrored

\* figmog pull: the writer, always direct.
PullOpens(k) ==
    /\ writer = None /\ k \notin Held
    /\ writer' = k
    /\ UNCHANGED <<mirrored, rows, current, serve, asked, answer>>

PullEnds(ok) ==
    /\ writer # None
    /\ writer' = None
    /\ IF ok THEN PullInto(writer) /\ current' = writer
             ELSE UNCHANGED <<mirrored, rows, current>>
    /\ UNCHANGED <<serve, asked, answer>>

-----------------------------------------------------------------------------
(* Serve's side: handle_tool_call *)

Locked(path) == path \in Held \cup {writer}

\* Mutant: only the default's key is compared.
KnownIfDefault(k) == k = serve.default

\* SessionManager::open finds the session by its key.
Known(k) == k \in OpenKeys

SessionOf(k) ==
    IF Known(k)
    THEN LET i == CHOOSE i \in DOMAIN serve.sessions : serve.sessions[i].key = k
         IN  serve.sessions[i]
    ELSE [key |-> k, path |-> k]

WithSession(s) ==
    IF Known(s.key) THEN serve.sessions ELSE Append(serve.sessions, s)

DefaultOf(sessions) ==
    IF serve.default # None THEN serve.default
    ELSE IF Len(sessions) = 1 THEN sessions[1].key ELSE None

\* The file argument, else the file of a URL in id, under or target: what
\* figmog_images and figmog_sync take is under another name, or nothing.
FileArg(f) ==
    IF f.file # None \/ f.tool \notin LocalReads THEN f.file ELSE f.url

Handles(c) == serve.up /\ Waiting(c) /\ UNCHANGED <<writer, asked>>

Quiet == UNCHANGED <<mirrored, rows, current, serve>>

\* figmog_files, and figmog_open without the file it requires.
HandleList(c) ==
    /\ Handles(c) /\ Quiet
    /\ \/ asked[c].frame.tool = "figmog_files" /\ Answer(c, Out("ok", None))
       \/ /\ asked[c].frame.tool = "figmog_open" /\ asked[c].frame.file = None
          /\ Answer(c, Out("missing field", None))

\* The tools that are routed to a session, and the key they are routed by.
ForSession(c) ==
    /\ Handles(c)
    /\ asked[c].frame.tool \in (LocalReads \cup OtherLocal) \ {"figmog_files"}
    /\ asked[c].frame.tool = "figmog_open" => asked[c].frame.file # None

HandleNoDefault(c) ==
    /\ ForSession(c) /\ Quiet
    /\ FileArg(asked[c].frame) = None /\ DefaultOf(serve.sessions) = None
    /\ Answer(c, Out("no default", None))

HandleLocked(c) ==
    /\ ForSession(c) /\ Quiet
    /\ LET k == FileArg(asked[c].frame)
       IN  /\ k # None /\ ~Known(k) /\ Locked(k)
           /\ Answer(c, OutLocked(IF k = writer THEN "pull" ELSE "serve"))

\* Mutant: resolve pulls every session it is given a file for.
AlwaysPulls(tool, fileArg, path) == tool \in {"figmog_sync", "figmog_open"} \/ fileArg # None

\* figmog_sync and figmog_open pull; resolve pulls an explicit file that has
\* no mirror yet, and never the default.
Pulls(tool, fileArg, path) ==
    \/ tool \in {"figmog_sync", "figmog_open"}
    \/ fileArg # None /\ path \notin mirrored

HandleInSession(c) ==
    /\ ForSession(c)
    /\ LET f == asked[c].frame
           arg == FileArg(f)
           k == IF arg = None THEN DefaultOf(serve.sessions) ELSE arg
           s == SessionOf(k)
           sessions == WithSession(s)
       IN  /\ k # None /\ (Known(k) \/ ~Locked(s.path))
           /\ serve' = [serve EXCEPT !.sessions = sessions]
           /\ IF ~Pulls(f.tool, arg, s.path)
              THEN Answer(c, ReadOut(f.tool, s.path, s.key)) /\ UNCHANGED <<mirrored, rows, current>>
              ELSE \/ Answer(c, Out("failed", None)) /\ UNCHANGED <<mirrored, rows, current>>
                   \/ /\ s.key # PathKey
                      /\ PullInto(s.path)
                      /\ Answer(c, OutPulled(s.key))
                      /\ current' = IF /\ serve.track /\ DefaultOf(sessions) = s.key
                                       /\ f.tool \in {"figmog_sync", "figmog_open"}
                                    THEN s.key ELSE current

\* A proxied call has the cache of the first session, and its arguments are
\* sent and cached as they came, `file` included.  Over the socket the client
\* parses the first text block of the answer, which may be no JSON.
HandleProxied(c) ==
    /\ Handles(c) /\ asked[c].frame.tool \in Proxied
    /\ \/ /\ IF serve.sessions = <<>> THEN UNCHANGED rows
             ELSE Proxy(serve.sessions[1].path, asked[c].frame.file)
          /\ \/ Answer(c, Out("ok", None))
             \/ Answer(c, Out("not json", None))
       \/ Answer(c, Out("failed", None)) /\ UNCHANGED rows
    /\ UNCHANGED <<mirrored, current, serve>>

Handle(c) ==
    \/ HandleList(c) \/ HandleNoDefault(c) \/ HandleLocked(c)
    \/ HandleInSession(c) \/ HandleProxied(c)

-----------------------------------------------------------------------------
(* Serve starts, polls and ends *)

\* build_sessions: one session over the store of --db, or one for each FILE.
SessionsOf(s) ==
    IF s.db # None
    THEN <<[key |-> IF s.files = <<>> THEN PathKey ELSE s.files[1], path |-> s.db]>>
    ELSE [i \in DOMAIN s.files |-> [key |-> s.files[i], path |-> s.files[i]]]

\* Under watch the first n have been pulled, those that had no mirror.
StartupPulls(s, n) ==
    LET sessions == SessionsOf(s)
    IN  /\ mirrored' = IF s.watch THEN mirrored \cup {sessions[i].path : i \in 1..n}
                                  ELSE mirrored
        /\ current' = IF s.watch /\ s.db = None /\ n > 0 /\ sessions[1].key \notin mirrored
                      THEN sessions[1].key ELSE current
        /\ UNCHANGED <<rows, writer, asked, answer>>

StartServe(s) ==
    /\ ~serve.up
    /\ LET sessions == SessionsOf(s)
       IN  /\ \A i \in DOMAIN sessions : sessions[i].path # writer
           /\ serve' = [up |-> TRUE, sessions |-> sessions, watch |-> s.watch,
                        default |-> IF sessions = <<>> THEN None ELSE sessions[1].key,
                        track |-> s.db = None]
           /\ StartupPulls(s, Len(sessions))

\* The n-th store is locked, or its pull fails: there is no serve, but the
\* files before it have been pulled.
StartFails(s) ==
    /\ ~serve.up
    /\ \E n \in DOMAIN SessionsOf(s) :
          LET path == SessionsOf(s)[n].path
          IN  /\ \A i \in 1..(n - 1) : SessionsOf(s)[i].path # writer
              /\ path = writer \/ (s.watch /\ path \notin mirrored)
              /\ StartupPulls(s, n - 1)
    /\ UNCHANGED serve

\* A watch tick pulls a session's file.
Tick(i) ==
    /\ serve.up /\ serve.watch /\ i \in DOMAIN serve.sessions
    /\ LET s == serve.sessions[i]
       IN  /\ s.key # PathKey
           /\ PullInto(s.path)
           /\ current' = IF serve.track /\ DefaultOf(serve.sessions) = s.key
                         THEN s.key ELSE current
    /\ UNCHANGED <<serve, writer, asked, answer>>

\* A waiting client is told that the socket closed; it does not go direct.
StopServe ==
    /\ serve.up
    /\ serve' = Stopped
    /\ answer' = [c \in Clients |-> IF Waiting(c) THEN Out("failed", None) ELSE answer[c]]
    /\ UNCHANGED <<mirrored, rows, current, writer, asked>>

-----------------------------------------------------------------------------
Invoke(c, cmd) ==
    \/ Send(c, cmd) \/ NoMirror(c, cmd)
    \/ DirectLocked(c, cmd) \/ DirectRead(c, cmd) \/ DirectSync(c, cmd)
    \/ DirectUnknown(c, cmd) \/ DirectProxied(c, cmd)

Next ==
    \/ \E c \in Clients, cmd \in Commands : Invoke(c, cmd)
    \/ \E c \in Clients : Handle(c)
    \/ \E k \in Keys : PullOpens(k)
    \/ \E ok \in BOOLEAN : PullEnds(ok)
    \/ \E s \in Starts : StartServe(s) \/ StartFails(s)
    \/ \E i \in 1..Cardinality(Keys) : Tick(i)
    \/ StopServe

Spec == Init /\ [][Next]_vars

-----------------------------------------------------------------------------
(* Properties *)

Answered(c) == asked[c].cmd # None /\ answer[c] # None

\* A command that names no file answers for the file .figmog/current named
\* when it was invoked, over the socket as directly, whatever serve's default
\* is and whatever became current since (cli/mod.rs with_current_file).
AnswersForCurrent ==
    \A c \in Clients :
        /\ Answered(c) /\ answer[c].file # None
        /\ asked[c].cmd.file = None /\ asked[c].current # None
        => answer[c].file = asked[c].current

\* A read of a current file that has a mirror is answered from it over the
\* socket as it would be directly, and spends no pull: only a store someone
\* else is writing, or the end of serve, refuses it (cli/mod.rs).
MirroredReadsAreFree ==
    \A c \in Clients :
        /\ Answered(c) /\ asked[c].frame # None /\ asked[c].cmd.kind = "read"
        /\ asked[c].current \in asked[c].mirrored
        => ~answer[c].pulled /\ answer[c].result \in {"ok", "locked", "failed"}

\* A client of serve is never refused because of serve's own lock
\* (cli/socket.rs: "no lock").
NoSelfLock ==
    \A c \in Clients :
        Answered(c) /\ asked[c].frame # None => answer[c].holder # "serve"

\* A proxied call that the upstream answered reaches the user's stdout over
\* the socket as it does directly (v0.0.2 spec 1: "same JSON on stdout").
ProxiedAnswersArrive ==
    \A c \in Clients : Answered(c) => answer[c].result # "not json"

\* `figmog call` with a `file` argument answers for that file, routed or not
\* (cli/call.rs: "the same routing figmog serve uses").
CallHonorsFile ==
    \A c \in Clients :
        Answered(c) /\ answer[c].file # None /\ asked[c].cmd.file # None
        => answer[c].file = asked[c].cmd.file

\* Every tool of serve's can be called without serve (SPEC 10).
EveryToolReachable ==
    \A c \in Clients : Answered(c) => answer[c].result # "unknown tool"

\* A `file` argument on a proxied call makes no difference: no two rows of a
\* store differ in it alone (SPEC 8).
FileIgnoredByProxy == \A r, s \in rows : r.path = s.path => r = s
=============================================================================
