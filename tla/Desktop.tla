------------------------------ MODULE Desktop -------------------------------
(***************************************************************************)
(* Tool calls and Figma's desktop app: the MCP frames a client sends       *)
(* (mcp.rs), the registry they are matched with and the response cache     *)
(* (proxy.rs, cache.rs), and the HTTP client behind them (upstream.rs).    *)
(*                                                                         *)
(* A figmog process, serve or a one-shot `figmog call`, shakes hands with  *)
(* the app once, when it starts, and keeps the session from then on.  It   *)
(* has one request under way at most, waits for its answer, and gives up   *)
(* after a timeout; the app may still carry the request out.  The app      *)
(* forgets its sessions when it is restarted.                              *)
(*                                                                         *)
(* The file is a version number.  The file open in the app is the one      *)
(* whose mirror is sessions[0], and a write is at api.figma.com at once.   *)
(***************************************************************************)
EXTENDS Naturals, SequencesExt

CONSTANTS
    Calls,        \* (tool, arguments) pairs
    Tool,         \* call -> the tool's name
    Local,        \* the names of tool_registry, in order
    Prefixed,     \* the names that begin with figmog_
    Capable,      \* the names that begin with get_ or list_
    WithNode,     \* the calls whose arguments carry a node id
    Writes,       \* the calls that change the file
    CacheKey,     \* call -> the hash its row is filed under
    Plain,        \* kinds of frames other than tools/call
    ToolLists,    \* what the app may list as its tools
    Protocols,    \* the protocol versions the app may settle on
    Watch,        \* FALSE under --no-watch
    OtherFiles,   \* how many further files serve has open
    None,
    Own,          \* to ToolCalls, an answer of figmog's own
    MaxFrames, MaxVersion, MaxSessions   \* bounds of the history

Versions == 0..MaxVersion
SessionIds == 1..MaxSessions

ASSUME DesktopAssumption ==
    /\ DOMAIN Tool = Calls /\ DOMAIN CacheKey = Calls /\ WithNode \subseteq Calls
    /\ Writes \subseteq Calls /\ \A c \in Writes : Tool[c] \notin Capable
    /\ IsInjective(Local) /\ ToSet(Local) \subseteq Prefixed
    /\ Prefixed \cap Capable = {}
    /\ Plain \subseteq {"junk", "notification", "list", "unknown"}
    /\ Watch \in BOOLEAN
    /\ {OtherFiles, MaxFrames, MaxVersion, MaxSessions} \subseteq Nat
    /\ None \notin Calls \cup Protocols \cup Nat

VARIABLES
    app,      \* the desktop app: running, its sessions, how many it has opened
    cloud,    \* the version of the file
    mirror,   \* the version of the mirror, None before the first pull
    cache,    \* its proxy_cache: per hash the call, the version tag, the result
    proc,     \* the figmog process: kind, stage, whether the app is attached
    http,     \* HttpUpstream: session_id, protocol_version, tools
    wire,     \* the HTTP exchange under way
    late,     \* requests figmog has given up on and the app has not seen yet
    frames,   \* the frames taken so far, each with its reply
    ran,      \* the calls the app has carried out
    poll,     \* next_deadline is now, because of a write
    turn,     \* next_session_idx
    wrote,    \* version of the last write whose success was reported
    excused   \* since then a poll failed or the process ended

figmog == <<mirror, cache, proc, http, frames, poll, turn, wrote, excused>>
vars == <<app, cloud, figmog, wire, late, ran>>

Session == [protocol: Protocols, stage: {"opened", "notified"}, listed: BOOLEAN]
Results == [of: 1..MaxFrames, ok: BOOLEAN, version: Versions]
Rows == [call: Calls, tag: Versions, result: Results]
Hashes == Range(CacheKey)
Methods == {"initialize", "initialized", "list", "call"}
Requests == [method: Methods, session: SessionIds \cup {None},
             protocol: Protocols \cup {None}, frame: 0..MaxFrames]
Stages == {"initialize", "initialized", "list", "ready", "handle", "forward"}
Process == [kind: {"none", "serve", "call"}, stage: Stages, attached: BOOLEAN]
Client == [session: SessionIds \cup {None}, protocol: Protocols \cup {None},
           tools: ToolLists \cup {<<>>}]

\* A JSON-RPC message, or figmog's own reply to a frame.
Message(is, value) == [is |-> is, value |-> value]
Result(v) == Message("result", v)   \* of the app
Refusal == Message("error", None)
Note == Message("notification", None)
Junk == Message("junk", None)
Waiting == Message("waiting", None) \* none yet
Silent == Message("silent", None)   \* a notification gets none
Listed == Message("listed", None)   \* the registry
Mirror == Message("mirror", None)   \* a local tool's answer
Error == Message("failed", None)    \* a JSON-RPC error, or isError text of figmog's own
Gone == Message("gone", None)       \* the process ended first

Replies == [is: {"result", "waiting", "silent", "listed", "mirror", "failed", "gone"},
            value: Results \cup {None}]
FrameRecords == [kind: Plain \cup {"call"}, call: Calls \cup {None}, reply: Replies]

NewClient == [session |-> None, protocol |-> None, tools |-> <<>>]
Off == [kind |-> "none", stage |-> "ready", attached |-> FALSE]
Idle == [state |-> "idle"]

TypeOK ==
    /\ app \in [up: BOOLEAN, opened: 0..MaxSessions, live: [SessionIds -> Session \cup {None}]]
    /\ cloud \in Versions /\ mirror \in Versions \cup {None}
    /\ cache \in [Hashes -> Rows \cup {None}]
    /\ proc \in Process /\ http \in Client
    /\ wire.state \in {"idle", "sent", "back"}
    /\ wire.state # "idle" => wire.req \in Requests
    /\ wire.state = "back" => wire.reply.session \in SessionIds \cup {None}
    /\ late \subseteq Requests
    /\ frames \in Seq(FrameRecords) /\ Len(frames) <= MaxFrames
    /\ ran \subseteq Results
    /\ {poll, excused} \subseteq BOOLEAN
    /\ turn \in 0..OtherFiles /\ wrote \in Versions

Init ==
    /\ app = [up |-> TRUE, opened |-> 0, live |-> [s \in SessionIds |-> None]]
    /\ cloud = 0
    /\ mirror \in {None, 0}
    /\ cache = [h \in Hashes |-> None]
    /\ proc = Off /\ http = NewClient
    /\ wire = Idle /\ late = {}
    /\ frames = <<>> /\ ran = {}
    /\ poll = FALSE /\ turn = 0 /\ wrote = 0 /\ excused = FALSE

-----------------------------------------------------------------------------
(* proxy.rs *)

Cacheable == {c \in WithNode : Tool[c] \in Capable}

\* merge_registry: figmog's own names first, then every name of the app's
\* that is neither prefixed nor there already.
MergeRegistry(upstream) ==
    FoldLeft(LAMBDA names, t : IF t \in Prefixed \/ Contains(names, t) THEN names
                                                                       ELSE Append(names, t),
             Local, upstream)

\* What tools/list answers, and what a tools/call over MCP is matched with.
Registry == IF proc.attached THEN MergeRegistry(http.tools) ELSE Local

\* Mutant: the row under the hash is taken for the call's own.
HitByHash(c) ==
    LET row == cache[CacheKey[c]]
    IN  c \in Cacheable /\ mirror # None /\ row # None /\ row.tag = mirror

\* cache::lookup: rows of two calls can meet under one hash.
Hit(c) ==
    LET row == cache[CacheKey[c]]
    IN  c \in Cacheable /\ mirror # None /\ row # None /\ row.call = c /\ row.tag = mirror

\* A success is stored under the version the mirror had before the call, in
\* place of whatever the hash held; a failure the app reports is not stored.
StoreResult(c, result) ==
    cache' = IF c \in Cacheable /\ mirror # None /\ result.ok
             THEN [cache EXCEPT ![CacheKey[c]] = [call |-> c, tag |-> mirror, result |-> result]]
             ELSE cache

\* Mutant: no call is taken for a write.
NeverTriggers(c) == FALSE

\* A tool that is not get_* or list_* may have changed the file.
TriggersPoll(c) == Tool[c] \notin Capable

\* evict_stale_cache, with the pull that moves the mirror to `version`.
EvictStale(version) ==
    cache' = [h \in Hashes |-> IF cache[h] # None /\ cache[h].tag = version
                               THEN cache[h] ELSE None]

-----------------------------------------------------------------------------
(* upstream.rs: the client *)

Request(client, method, n) ==
    [method |-> method, session |-> client.session, protocol |-> client.protocol,
     frame |-> n]

Post(client, method, n) ==
    wire' = [state |-> "sent", req |-> Request(client, method, n)]

\* A JSON body is one message; in a stream a notification, or what is no JSON,
\* may come before the response or after it.  A body may break off.
Broken == <<Message("broken", None)>>
Bodies(message) ==
    {<<message>>, <<Note, message>>, <<message, Junk>>, <<message, Note>>, Broken}

\* Mutant: the first message of a stream is taken for the response.
FirstMessage(body) == IF body = <<>> THEN Refusal ELSE body[1]

\* parse_streamable_body: the last message that is JSON.
LastMessage(body) ==
    LET parsed == {k \in DOMAIN body : body[k] # Junk}
    IN  IF parsed = {} THEN Refusal ELSE body[Max(parsed)]

\* send_request and extract_result of a response that arrived: what has no
\* result is an error.
Outcome(reply) ==
    LET m == LastMessage(reply.body)
    IN  IF m.is = "result" THEN m ELSE Refusal

\* post keeps the session id of any response that has one.
Captured(reply) ==
    IF reply.session = None THEN http ELSE [http EXCEPT !.session = reply.session]

Settle(n, reply) == frames' = [frames EXCEPT ![n].reply = reply]

\* The call under way that the app has not seen.  What else is given up on
\* belongs to a session that nobody uses.
Abandoned ==
    IF wire.state = "sent" /\ wire.req.method = "call" THEN {wire.req} ELSE {}

AfterHandshake == IF proc.kind = "serve" THEN "ready" ELSE "handle"

\* A one-shot call ends with its answer.
AfterCall == IF proc.kind = "serve" THEN [proc EXCEPT !.stage = "ready"] ELSE Off

\* initialize failed somewhere: local tools only, for good.
Detach ==
    /\ http' = NewClient
    /\ proc' = [proc EXCEPT !.stage = AfterHandshake]
    /\ wire' = Idle
    /\ UNCHANGED frames

CallFails ==
    /\ Settle(wire.req.frame, Error)
    /\ proc' = AfterCall
    /\ wire' = Idle

Continue(client, stage) ==
    /\ http' = client
    /\ proc' = [proc EXCEPT !.stage = stage]
    /\ Post(client, stage, 0)
    /\ UNCHANGED frames

\* Mutant: the notification is fired and forgotten.
ForgetsNotification ==
    IF wire.req.method = "initialized" THEN Continue(http, "list") ELSE Detach

\* What a request that was not answered does to the handshake.
HandshakeFails == Detach

-----------------------------------------------------------------------------
(* The process: attach_upstream at its start, then one frame at a time *)

NewFrame(kind, c) == frames' = Append(frames, [kind |-> kind, call |-> c, reply |-> Waiting])

\* serve, or a one-shot `figmog call` that has one frame; without probe:
\* --no-upstream.
Start(kind, probe) ==
    /\ proc = Off
    /\ Len(frames) < MaxFrames
    /\ IF kind = "serve" THEN UNCHANGED frames ELSE \E c \in Calls : NewFrame("call", c)
    /\ http' = NewClient
    /\ IF probe
       THEN /\ proc' = [kind |-> kind, stage |-> "initialize", attached |-> FALSE]
            /\ Post(NewClient, "initialize", 0)
       ELSE /\ proc' = [kind |-> kind, attached |-> FALSE,
                        stage |-> IF kind = "serve" THEN "ready" ELSE "handle"]
            /\ UNCHANGED wire
    /\ turn' = 0
    /\ UNCHANGED <<app, cloud, mirror, cache, late, ran, poll, wrote, excused>>

Received(method) == wire.state = "back" /\ wire.req.method = method

HandshakeStep == UNCHANGED <<app, cloud, mirror, cache, late, ran, poll, turn, wrote, excused>>

\* The version in the result is sent with every later request.
ReceiveInitialize ==
    /\ Received("initialize")
    /\ LET m == Outcome(wire.reply)
       IN  IF m.is = "result"
           THEN Continue([Captured(wire.reply) EXCEPT !.protocol = m.value], "initialized")
           ELSE Detach
    /\ HandshakeStep

\* The response to a notification is not looked at, but must arrive.
ReceiveInitialized ==
    /\ Received("initialized")
    /\ IF wire.reply.body = Broken THEN Detach ELSE Continue(Captured(wire.reply), "list")
    /\ HandshakeStep

ReceiveList ==
    /\ Received("list")
    /\ LET m == Outcome(wire.reply)
       IN  IF m.is = "result"
           THEN /\ http' = [Captured(wire.reply) EXCEPT !.tools = m.value]
                /\ proc' = [proc EXCEPT !.stage = AfterHandshake, !.attached = TRUE]
                /\ wire' = Idle
                /\ UNCHANGED frames
           ELSE Detach
    /\ HandshakeStep

\* A write through serve makes the next poll due at once.
ReceiveCall ==
    /\ Received("call")
    /\ http' = Captured(wire.reply)
    /\ LET m == Outcome(wire.reply)
           c == frames[wire.req.frame].call
           polls == proc.kind = "serve" /\ Watch /\ TriggersPoll(c)
       IN  IF m.is = "result"
           THEN /\ StoreResult(c, m.value)
                /\ Settle(wire.req.frame, m)
                /\ proc' = AfterCall
                /\ wire' = Idle
                /\ poll' = (poll \/ polls)
                /\ IF proc.kind = "serve" /\ c \in Writes /\ m.value.ok
                   THEN wrote' = m.value.version /\ excused' = FALSE
                   ELSE UNCHANGED <<wrote, excused>>
           ELSE CallFails /\ UNCHANGED <<cache, poll, wrote, excused>>
    /\ UNCHANGED <<app, cloud, mirror, late, ran, turn>>

\* Connection refused, reset, or the agent's timeout: nothing has come back,
\* and the app may yet carry the request out.
Unreachable ==
    /\ wire.state = "sent"
    /\ late' \in {late} \cup IF app.up THEN {late \cup Abandoned} ELSE {}
    /\ IF wire.req.method = "call" THEN CallFails /\ UNCHANGED http ELSE HandshakeFails
    /\ UNCHANGED <<app, cloud, mirror, cache, ran, poll, turn, wrote, excused>>

\* serve takes the next message from its channel.
Take(kind, c) ==
    /\ proc.kind = "serve" /\ proc.stage = "ready"
    /\ Len(frames) < MaxFrames
    /\ NewFrame(kind, c)
    /\ proc' = [proc EXCEPT !.stage = "handle"]
    /\ UNCHANGED <<app, cloud, mirror, cache, http, wire, late, ran, poll, turn, wrote, excused>>

This == Len(frames)
Handling(kind) == proc.stage = "handle" /\ frames[This].kind = kind

Reply(reply) ==
    /\ Settle(This, reply)
    /\ proc' = AfterCall
    /\ UNCHANGED <<app, cloud, mirror, cache, http, wire, late, ran, poll, turn, wrote, excused>>

\* handle_message, but for tools/call.  Whatever has no id is a notification.
PlainReply(kind) ==
    CASE kind = "notification" -> Silent
      [] kind = "list" -> Listed
      [] kind \in {"junk", "unknown"} -> Error

HandlePlain == \E kind \in Plain : Handling(kind) /\ Reply(PlainReply(kind))

HandleCall(c) == Handling("call") /\ frames[This].call = c

\* serve answers only for names it lists, a one-shot for any it can route.
Routed(c) ==
    IF proc.kind = "serve" THEN Tool[c] \in ToSet(Registry)
    ELSE IF Tool[c] \in Prefixed THEN Tool[c] \in ToSet(Local) ELSE proc.attached

HandleUnrouted(c) == HandleCall(c) /\ ~Routed(c) /\ Reply(Error)

HandleLocal(c) == HandleCall(c) /\ Routed(c) /\ Tool[c] \in Prefixed /\ Reply(Mirror)

\* proxy_call: from the cache, or else from the app.
HandleHit(c) ==
    /\ HandleCall(c) /\ Routed(c) /\ Tool[c] \notin Prefixed
    /\ Hit(c)
    /\ Reply(Result(cache[CacheKey[c]].result))

Forward(c) ==
    /\ HandleCall(c) /\ Routed(c) /\ Tool[c] \notin Prefixed
    /\ ~Hit(c)
    /\ proc' = [proc EXCEPT !.stage = "forward"]
    /\ Post(http, "call", This)
    /\ UNCHANGED <<app, cloud, mirror, cache, http, late, frames, ran, poll, turn, wrote, excused>>

\* A watch tick: the round robin polls one file, and pulls it if it changed.
Tick(ok) ==
    /\ proc.kind = "serve" /\ proc.stage = "ready" /\ Watch
    /\ turn' = (turn + 1) % (OtherFiles + 1)
    /\ poll' = FALSE
    /\ IF turn # 0 THEN UNCHANGED <<mirror, cache, excused>>
       ELSE IF ok THEN mirror' = cloud /\ EvictStale(cloud) /\ excused' = FALSE
       ELSE excused' = TRUE /\ UNCHANGED <<mirror, cache>>
    /\ UNCHANGED <<app, cloud, proc, http, wire, late, frames, ran, wrote>>

\* Stdin closes or the process is killed: what it waited for is lost.
Exit ==
    /\ proc # Off
    /\ frames' = [n \in DOMAIN frames |-> IF frames[n].reply = Waiting
                                         THEN [frames[n] EXCEPT !.reply = Gone] ELSE frames[n]]
    /\ proc' = Off /\ http' = NewClient /\ wire' = Idle
    /\ late' \in {late, late \cup Abandoned}
    /\ poll' = FALSE /\ excused' = TRUE
    /\ UNCHANGED <<app, cloud, mirror, cache, ran, turn, wrote>>

\* `figmog pull`, while no figmog process holds the store.
PullElsewhere ==
    /\ proc = Off /\ mirror # cloud
    /\ mirror' = cloud /\ EvictStale(cloud)
    /\ UNCHANGED <<app, cloud, proc, http, wire, late, frames, ran, poll, turn, wrote, excused>>

-----------------------------------------------------------------------------
(* The app, as an MCP server over streamable HTTP *)

Known(req) ==
    /\ req.session # None /\ app.live[req.session] # None
    /\ app.live[req.session].protocol = req.protocol

\* The app answers the request on the wire; nobody waits for a late one.
Respond(req, session, message) ==
    IF wire.state = "sent" /\ wire.req = req /\ req \notin late
    THEN /\ \E body \in Bodies(message) :
              wire' = [state |-> "back", req |-> req,
                       reply |-> [session |-> session, body |-> body]]
         /\ UNCHANGED late
    ELSE req \in late /\ late' = late \ {req} /\ UNCHANGED wire

Serves(req, method) == app.up /\ req.method = method

AppOpens(req) ==
    /\ Serves(req, "initialize")
    /\ app.opened < MaxSessions
    /\ \E p \in Protocols, s \in {app.opened + 1} :
          /\ app' = [app EXCEPT !.opened = s, !.live[s] = 
                             [protocol |-> p, stage |-> "opened", listed |-> FALSE]]
          /\ Respond(req, s, Result(p))
    /\ UNCHANGED <<cloud, figmog, ran>>

AppNotes(req) ==
    /\ Serves(req, "initialized") /\ Known(req)
    /\ app' = [app EXCEPT !.live[req.session].stage = "notified"]
    /\ \E message \in {Junk, Refusal} : Respond(req, None, message)
    /\ UNCHANGED <<cloud, figmog, ran>>

AppLists(req) ==
    /\ Serves(req, "list") /\ Known(req)
    /\ app' = [app EXCEPT !.live[req.session].listed = TRUE]
    /\ \E tools \in ToolLists : Respond(req, None, Result(tools))
    /\ UNCHANGED <<cloud, figmog, ran>>

\* A tool fails, or it succeeds; a write that succeeds makes a version.
AppRuns(req, ok) ==
    /\ Serves(req, "call") /\ Known(req)
    /\ LET writes == ok /\ frames[req.frame].call \in Writes
           result == [of |-> req.frame, ok |-> ok, version |-> cloud']
       IN  /\ writes => cloud < MaxVersion
           /\ cloud' = IF writes THEN cloud + 1 ELSE cloud
           /\ ran' = ran \cup {result}
           /\ Respond(req, None, Result(result))
    /\ UNCHANGED <<app, figmog>>

\* An unknown session, a refused method, an internal error.
AppRefuses(req) ==
    /\ app.up /\ ~(req.method = "initialized" /\ Known(req))
    /\ Respond(req, None, Refusal)
    /\ UNCHANGED <<app, cloud, figmog, ran>>

AppStops ==
    /\ app.up
    /\ app' = [app EXCEPT !.up = FALSE, !.live = [s \in SessionIds |-> None]]
    /\ late' = {}
    /\ UNCHANGED <<cloud, figmog, wire, ran>>

AppStarts ==
    /\ ~app.up
    /\ app' = [app EXCEPT !.up = TRUE]
    /\ UNCHANGED <<cloud, figmog, wire, late, ran>>

Edit ==
    /\ cloud < MaxVersion
    /\ cloud' = cloud + 1
    /\ UNCHANGED <<app, figmog, wire, late, ran>>

-----------------------------------------------------------------------------
Handle ==
    \/ HandlePlain
    \/ \E c \in Calls : HandleUnrouted(c) \/ HandleLocal(c) \/ HandleHit(c) \/ Forward(c)

Receive == ReceiveInitialize \/ ReceiveInitialized \/ ReceiveList \/ ReceiveCall

TakeAny == (\E kind \in Plain : Take(kind, None)) \/ (\E c \in Calls : Take("call", c))

Pending == late \cup (IF wire.state = "sent" THEN {wire.req} ELSE {})

AppStep ==
    \E req \in Pending :
        \/ AppOpens(req) \/ AppNotes(req) \/ AppLists(req) \/ AppRefuses(req)
        \/ \E ok \in BOOLEAN : AppRuns(req, ok)

Next ==
    \/ \E kind \in {"serve", "call"}, probe \in BOOLEAN : Start(kind, probe)
    \/ Receive \/ Unreachable \/ TakeAny \/ Handle
    \/ \E ok \in BOOLEAN : Tick(ok)
    \/ Exit \/ PullElsewhere
    \/ AppStep \/ AppStops \/ AppStarts \/ Edit

Spec == Init /\ [][Next]_vars

-----------------------------------------------------------------------------
(* Properties *)

AnswerOf(reply) ==
    CASE reply = Waiting -> None
      [] reply.is = "result" -> reply.value
      [] OTHER -> Own

\* Every call the app carries out is one the client made, once, even if it was
\* given up on; and the client gets that call's answer, or one the app gave to
\* an equal cacheable call, never the answer of another call whose row has the
\* same hash (proxy_call, cache::lookup, HttpUpstream::call).
Asked == [n \in DOMAIN frames |-> frames[n].call]
Answers == [n \in DOMAIN frames |-> AnswerOf(frames[n].reply)]

TC == INSTANCE ToolCalls WITH
        asked <- Asked, runs <- ran, answers <- Answers

ImplementsToolCalls == TC!Spec

\* The client gets the app's answer if the stream held no further message, but
\* for what is no JSON: notifications before it do no harm, and one after it costs
\* the answer, like a body without one (parse_sse_last_event, extract_result).
Final(body, k) ==
    body[k].is = "result" /\ \A j \in DOMAIN body : j > k => body[j] = Junk

AnswersArrive ==
    [][ReceiveCall =>
        LET body == wire.reply.body
            given == frames'[wire.req.frame].reply
        IN  \/ \E k \in DOMAIN body : Final(body, k) /\ given = body[k]
            \/ given = Error /\ \A k \in DOMAIN body : ~Final(body, k)]_vars

\* A process that has the app's tools has a session in which the app was told of
\* the end of the handshake and listed them, and the protocol version agreed on
\* in it, until the app forgets the session (initialize, post).
HandshakeWhole ==
    proc.attached =>
        /\ http.session # None
        /\ app.live[http.session] \in
              {None, [protocol |-> http.protocol, stage |-> "notified", listed |-> TRUE]}

\* Once the poll a write calls for has been made, the cache does not answer with
\* what the file was before that write (handle_tool_call's trigger_poll).
WritesSeenAfterPoll ==
    Watch /\ ~poll /\ ~excused =>
        \A c \in Calls : Hit(c) => cache[CacheKey[c]].result.version >= wrote
=============================================================================
