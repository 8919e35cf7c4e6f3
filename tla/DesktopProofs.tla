---------------------------- MODULE DesktopProofs ----------------------------
(***************************************************************************)
(* What holds for any tools, tool lists, protocols and files, and for a    *)
(* history of any length: the desktop app's answers reach the calls they   *)
(* belong to, the handshake is whole or there is none, and, with one file  *)
(* to poll, a write is seen after the poll it calls for.                   *)
(***************************************************************************)
EXTENDS Desktop, FoldLemmas, SequenceTheorems, TLAPS

-----------------------------------------------------------------------------
(* Helpers *)

LEMMA ConstantTypes ==
    /\ MaxFrames \in Nat /\ MaxVersion \in Nat /\ MaxSessions \in Nat /\ OtherFiles \in Nat
    /\ None \notin Calls /\ None \notin Protocols /\ None \notin Nat
    /\ \A c \in Calls : CacheKey[c] \in Hashes
    /\ Writes \subseteq Calls /\ \A c \in Writes : Tool[c] \notin Capable
BY DesktopAssumption DEF Hashes, Range

\* The client makes of a body what its last message says that parses.
LEMMA OutcomeOfReply ==
    ASSUME NEW reply, NEW n \in Nat, DOMAIN reply.body = 1..n
    PROVE  \/ \E k \in DOMAIN reply.body :
                  Final(reply.body, k) /\ Outcome(reply) = reply.body[k]
           \/ Outcome(reply) = Refusal /\ \A k \in DOMAIN reply.body : ~Final(reply.body, k)
<1> DEFINE body == reply.body
           parsed == {k \in DOMAIN body : body[k] # Junk}
<1>1. Junk.is # "result" /\ Refusal.is # "result"
  BY DEF Junk, Refusal, Message
<1>2. CASE parsed = {}
  <2>1. Outcome(reply) = Refusal
    BY <1>1, <1>2 DEF Outcome, LastMessage
  <2>2. QED
    BY <1>1, <1>2, <2>1 DEF Final
<1>3. CASE parsed # {}
  <2> DEFINE p == Max(parsed)
  <2>1. parsed \in SUBSET (1..n)
    OBVIOUS
  <2>2. LastMessage(body) = body[p]
    BY <1>3 DEF LastMessage
  <2> HIDE DEF parsed
  <2>3. p \in parsed /\ p \in 1..n /\ \A j \in parsed : j <= p
    BY <1>3, <2>1, Greatest
  <2> HIDE DEF p
  <2>4. \A j \in DOMAIN body : j > p => body[j] = Junk
    BY <2>3 DEF parsed
  <2>5. CASE body[p].is = "result"
    BY <2>2, <2>3, <2>4, <2>5 DEF Outcome, Final
  <2>6. CASE body[p].is # "result"
    <3>1. Outcome(reply) = Refusal
      BY <2>2, <2>6 DEF Outcome
    <3>2. ASSUME NEW k \in DOMAIN body, Final(body, k) PROVE FALSE
      <4>1. k \in parsed /\ body[k].is = "result"
        BY <1>1, <3>2 DEF Final, parsed
      <4>2. k # p /\ k <= p /\ k \in 1..n
        BY <2>3, <2>6, <4>1
      <4>3. body[p] = Junk
        BY <2>3, <3>2, <4>2 DEF Final
      <4>4. QED
        BY <2>3, <4>3 DEF parsed
    <3>3. QED
      BY <3>1, <3>2
  <2>7. QED
    BY <2>5, <2>6
<1>4. QED
  BY <1>2, <1>3

LEMMA BodyLength ==
    ASSUME NEW m, NEW body \in Bodies(m)
    PROVE  \E n \in Nat : DOMAIN body = 1..n
<1>1. body \in {<<m>>, Broken} \/ body \in {<<Note, m>>, <<m, Junk>>, <<m, Note>>}
  BY DEF Bodies
<1>2. CASE body \in {<<m>>, Broken}
  <2>1. DOMAIN body = 1..1
    BY <1>2 DEF Broken
  <2>2. QED
    BY <2>1
<1>3. CASE body \in {<<Note, m>>, <<m, Junk>>, <<m, Note>>}
  <2>1. DOMAIN body = 1..2
    BY <1>3
  <2>2. QED
    BY <2>1
<1>4. QED
  BY <1>1, <1>2, <1>3

\* Whatever body a message came in, the client makes of it what it says or an
\* error.
LEMMA OutcomeOfBody ==
    ASSUME NEW m, NEW reply, reply.body \in Bodies(m)
    PROVE  \/ Outcome(reply) = Refusal
           \/ Outcome(reply) = m /\ m.is = "result"
<1>1. \/ Outcome(reply) = Refusal
      \/ \E k \in DOMAIN reply.body : Final(reply.body, k) /\ Outcome(reply) = reply.body[k]
  BY BodyLength, OutcomeOfReply
<1>2. ASSUME NEW k \in DOMAIN reply.body, reply.body[k].is = "result"
      PROVE  reply.body[k] = m
  <2>1. Note.is # "result" /\ Junk.is # "result" /\ Message("broken", None).is # "result"
    BY DEF Note, Junk, Message
  <2>2. reply.body[k] \in {m, Note, Junk, Message("broken", None)}
    BY DEF Bodies, Broken
  <2>3. QED
    BY <1>2, <2>1, <2>2
<1>3. QED
  BY <1>1, <1>2 DEF Final

-----------------------------------------------------------------------------
(* The process and its exchange *)

\* The stages in which the process waits for the app.
Waits == {"initialize", "initialized", "list", "forward"}

\* An exchange is under way exactly while the process waits for one, and it is
\* of the stage's own method.
WireFits ==
    /\ proc.kind = "none" => proc = Off
    /\ proc.kind = "call" => proc.stage # "ready"
    /\ proc.attached => proc.stage \in {"ready", "handle", "forward"}
    /\ wire.state # "idle" <=> proc.stage \in Waits
    /\ proc.stage = "forward" => wire.req.method = "call"
    /\ proc.stage \in Waits \ {"forward"} => wire.req.method = proc.stage

\* The last frame is the one handled, and the call under way is its.
WireCalls ==
    /\ proc.kind = "call" \/ proc.stage \in {"handle", "forward"} => frames # <<>>
    /\ proc.stage = "forward" =>
          wire.req.frame = Len(frames) /\ frames[Len(frames)].call \in Calls

\* A response that has a result has the one its request is for.
ResultFits(req, value) ==
    CASE req.method = "initialize" -> value \in Protocols
      [] req.method = "list" -> value \in ToolLists
      [] req.method = "call" -> value \in ran /\ value.of = req.frame
      [] OTHER -> FALSE

ReplyFits ==
    wire.state = "back" =>
        \E m : /\ wire.reply.body \in Bodies(m)
               /\ m.is = "result" => m = Result(m.value) /\ ResultFits(wire.req, m.value)

\* What was given up on was a call.
LateCalls == \A q \in late : q.method = "call" /\ q.frame \in DOMAIN frames

CallInv == TypeOK /\ WireFits /\ WireCalls /\ ReplyFits /\ LateCalls

LEMMA OutcomeFits ==
    ASSUME ReplyFits, wire.state = "back", Outcome(wire.reply).is = "result"
    PROVE  LET m == Outcome(wire.reply)
           IN  m = Result(m.value) /\ ResultFits(wire.req, m.value)
<1>1. PICK m : /\ wire.reply.body \in Bodies(m)
               /\ m.is = "result" => m = Result(m.value) /\ ResultFits(wire.req, m.value)
  BY DEF ReplyFits
<1>2. Outcome(wire.reply) = m
  BY <1>1, OutcomeOfBody DEF Refusal, Message
<1>3. QED
  BY <1>1, <1>2

LEMMA RepliesTyped ==
    /\ \A r \in Results : Result(r) \in Replies
    /\ {Waiting, Silent, Listed, Mirror, Error, Gone} \subseteq Replies
BY DEF Replies, Result, Waiting, Silent, Listed, Mirror, Error, Gone, Message

\* A reply to a frame, and a new frame.
LEMMA SettleTyped ==
    ASSUME frames \in Seq(FrameRecords), NEW n \in DOMAIN frames, NEW reply \in Replies,
           Settle(n, reply)
    PROVE  /\ frames' \in Seq(FrameRecords) /\ Len(frames') = Len(frames)
           /\ frames'[n] = [frames[n] EXCEPT !.reply = reply]
           /\ \A k \in DOMAIN frames \ {n} : frames'[k] = frames[k]
<1>1. /\ n \in 1..Len(frames) /\ frames \in [1..Len(frames) -> FrameRecords] /\ Len(frames) \in Nat
      /\ frames[n] \in FrameRecords
  OBVIOUS
<1>2. [frames[n] EXCEPT !.reply = reply] \in FrameRecords
  BY <1>1 DEF FrameRecords
<1>3. frames' \in [1..Len(frames) -> FrameRecords]
  BY <1>1, <1>2 DEF Settle
<1>4. QED
  BY <1>1, <1>3 DEF Settle

LEMMA NewFrameTyped ==
    ASSUME frames \in Seq(FrameRecords), NEW kind \in Plain \cup {"call"},
           NEW c \in Calls \cup {None}, NewFrame(kind, c)
    PROVE  /\ frames' \in Seq(FrameRecords) /\ Len(frames') = Len(frames) + 1
           /\ frames' # <<>>
           /\ frames'[Len(frames')] = [kind |-> kind, call |-> c, reply |-> Waiting]
           /\ \A k \in 1..Len(frames) : frames'[k] = frames[k]
<1>1. [kind |-> kind, call |-> c, reply |-> Waiting] \in FrameRecords
  BY RepliesTyped DEF FrameRecords
<1>2. QED
  BY <1>1 DEF NewFrame

\* A request that is posted.
LEMMA PostTyped ==
    ASSUME NEW client \in Client,
           NEW method \in Methods, NEW n \in 0..MaxFrames, Post(client, method, n)
    PROVE  /\ wire'.state = "sent" /\ wire'.req \in Requests
           /\ wire'.req = Request(client, method, n)
BY DEF Post, Request, Requests, Client

\* What the end of a call does to the process.
LEMMA AfterCallTyped ==
    ASSUME proc \in Process
    PROVE  /\ AfterCall \in Process
           /\ AfterCall.stage = "ready"
           /\ AfterCall = Off \/ (AfterCall.kind = "serve" /\ proc.kind = "serve"
                                  /\ AfterCall.attached = proc.attached)
BY DEF AfterCall, Off, Stages, Process

\* What becomes of the wire and of what is given up on.
LEMMA RespondEffect ==
    ASSUME NEW req, NEW session, NEW message, Respond(req, session, message)
    PROVE  \/ /\ wire.state = "sent" /\ wire.req = req /\ req \notin late
              /\ late' = late
              /\ wire'.state = "back" /\ wire'.req = req
              /\ wire'.reply.session = session
              /\ wire'.reply.body \in Bodies(message)
           \/ wire' = wire /\ req \in late /\ late' = late \ {req}
BY DEF Respond

-----------------------------------------------------------------------------
(* Types *)

LEMMA TypesInit == Init => CallInv
<1> SUFFICES ASSUME Init PROVE CallInv
  OBVIOUS
<1>1. app \in [up: BOOLEAN, opened: 0..MaxSessions, live: [SessionIds -> Session \cup {None}]]
  BY ConstantTypes DEF Init
<1>2. cloud \in Versions /\ mirror \in Versions \cup {None} /\ turn \in 0..OtherFiles
      /\ wrote \in Versions
  BY ConstantTypes DEF Init, Versions
<1>3. cache \in [Hashes -> Rows \cup {None}] /\ proc \in Process /\ http \in Client
  BY DEF Init, Off, NewClient, Process, Client, Stages
<1>4. frames \in Seq(FrameRecords) /\ Len(frames) <= MaxFrames
  BY ConstantTypes DEF Init
<1>5. {poll, excused} \subseteq BOOLEAN
  BY DEF Init
<1>6. TypeOK
  BY <1>1, <1>2, <1>3, <1>4, <1>5 DEF TypeOK, Init, Idle
<1>7. QED
  BY <1>6 DEF Init, CallInv, WireFits, WireCalls, ReplyFits, LateCalls, Idle, Off, Waits

LEMMA CapturedTyped ==
    ASSUME TypeOK, wire.state = "back"
    PROVE  /\ Captured(wire.reply) \in Client
           /\ Captured(wire.reply).protocol = http.protocol
           /\ Captured(wire.reply).session =
                IF wire.reply.session = None THEN http.session ELSE wire.reply.session
BY DEF TypeOK, Captured, Client

\* Handshake: what detaches the process, and what takes it a stage further.
LEMMA DetachTyped ==
    ASSUME TypeOK, Detach
    PROVE  /\ http' = NewClient /\ http' \in Client
           /\ proc' \in Process /\ proc'.stage \in {"ready", "handle"}
           /\ proc'.stage = AfterHandshake
           /\ proc'.kind = proc.kind /\ proc'.attached = proc.attached
           /\ wire' = Idle /\ frames' = frames
BY DEF Detach, TypeOK, Process, Client, NewClient, AfterHandshake, Stages

LEMMA ContinueTyped ==
    ASSUME TypeOK, NEW client \in Client, NEW stage \in {"initialized", "list"},
           Continue(client, stage)
    PROVE  /\ http' = client /\ frames' = frames
           /\ proc' \in Process /\ proc'.stage = stage
           /\ proc'.kind = proc.kind /\ proc'.attached = proc.attached
           /\ wire'.state = "sent" /\ wire'.req \in Requests
           /\ wire'.req = Request(client, stage, 0)
<1>1. 0 \in 0..MaxFrames /\ stage \in Methods /\ stage \in Stages
  BY ConstantTypes DEF Methods, Stages
<1>2. QED
  BY <1>1, PostTyped DEF Continue, TypeOK, Process, Client

LEMMA AbandonedTyped ==
    ASSUME TypeOK
    PROVE  Abandoned \subseteq Requests
BY DEF TypeOK, Abandoned

\* The frame of a call under way.
LEMMA CallFrame ==
    ASSUME CallInv, proc.stage = "forward"
    PROVE  /\ wire.req.frame \in DOMAIN frames /\ wire.req.frame = Len(frames)
           /\ frames \in Seq(FrameRecords) /\ wire.req.method = "call"
           /\ frames[wire.req.frame].call \in Calls
BY DEF CallInv, TypeOK, WireCalls, WireFits

\* A request the app may answer, and the frame of one it may run.
LEMMA PendingTyped ==
    ASSUME CallInv, NEW req \in Pending
    PROVE  /\ req \in Requests
           /\ req.method = "call" => req.frame \in DOMAIN frames
<1>1. CASE req \in late
  BY <1>1 DEF CallInv, TypeOK, LateCalls
<1>2. CASE wire.state = "sent" /\ req = wire.req
  <2>1. req \in Requests
    BY <1>2 DEF CallInv, TypeOK
  <2>2. req.method = "call" => proc.stage = "forward"
    BY <1>2 DEF CallInv, WireFits, Waits
  <2>3. QED
    BY <1>2, <2>1, <2>2, CallFrame
<1>3. QED
  BY <1>1, <1>2 DEF Pending

\* A reply settled in the last frame, and the types of the process after it.
LEMMA ReplyTyped ==
    ASSUME CallInv, proc.stage = "handle", NEW reply \in Replies, Reply(reply)
    PROVE  TypeOK'
<1>1. Len(frames) \in DOMAIN frames /\ frames \in Seq(FrameRecords)
  BY DEF CallInv, TypeOK, WireCalls
<1>2. frames' \in Seq(FrameRecords) /\ Len(frames') = Len(frames)
  BY <1>1, SettleTyped DEF Reply, This
<1>3. proc' \in Process
  BY AfterCallTyped DEF Reply, CallInv, TypeOK
<1>4. QED
  BY <1>2, <1>3 DEF Reply, CallInv, TypeOK

\* A response that the app sends.
LEMMA RespondTyped ==
    ASSUME CallInv, NEW req \in Pending, NEW session \in SessionIds \cup {None},
           NEW message, Respond(req, session, message)
    PROVE  /\ wire'.state \in {"idle", "sent", "back"}
           /\ wire'.state # "idle" => wire'.req \in Requests
           /\ wire'.state = "back" => wire'.reply.session \in SessionIds \cup {None}
           /\ late' \subseteq Requests
<1>1. req \in Requests
  BY PendingTyped
<1>2. QED
  BY <1>1, RespondEffect DEF CallInv, TypeOK

LEMMA TurnTyped ==
    ASSUME turn \in 0..OtherFiles
    PROVE  (turn + 1) % (OtherFiles + 1) \in 0..OtherFiles
<1>1. OtherFiles \in Nat /\ turn + 1 \in Nat
  BY ConstantTypes
<1>2. QED
  BY <1>1

LEMMA TypesNext ==
    ASSUME CallInv, [Next]_vars
    PROVE  TypeOK'
<1>0. TypeOK
  BY DEF CallInv
<1> USE DEF TypeOK
<1>1. CASE UNCHANGED vars
  BY <1>0, <1>1 DEF vars, figmog
<1>2. ASSUME NEW kind \in {"serve", "call"}, NEW probe \in BOOLEAN, Start(kind, probe)
      PROVE  TypeOK'
  <2>1. frames' \in Seq(FrameRecords) /\ Len(frames') <= MaxFrames
    <3>1. CASE kind = "serve"
      BY <1>0, <1>2, <3>1 DEF Start
    <3>2. CASE kind = "call"
      <4>1. PICK c \in Calls : NewFrame("call", c)
        BY <1>2, <3>2 DEF Start
      <4>2. Len(frames) < MaxFrames /\ Len(frames) \in Nat
        BY <1>0, <1>2 DEF Start
      <4>3. QED
        <5>1. frames' \in Seq(FrameRecords) /\ Len(frames') = Len(frames) + 1
          BY <1>0, <4>1, NewFrameTyped
        <5>2. QED
          BY <4>2, <5>1, ConstantTypes
    <3>3. QED
      BY <3>1, <3>2
  <2>2. http' = NewClient /\ NewClient \in Client
    BY <1>2 DEF Start, NewClient, Client
  <2>3. proc' \in Process
    <3>1. FALSE \in BOOLEAN /\ {"initialize", "ready", "handle"} \subseteq Stages
      BY DEF Stages
    <3>2. \E stage \in Stages : proc' = [kind |-> kind, stage |-> stage, attached |-> FALSE]
      BY <1>2, <3>1 DEF Start
    <3>3. QED
      BY <3>1, <3>2 DEF Process
  <2>4. wire'.state \in {"idle", "sent"} /\ (wire'.state # "idle" => wire'.req \in Requests)
    <3>1. CASE probe
      <4>1. 0 \in 0..MaxFrames /\ "initialize" \in Methods
        BY ConstantTypes DEF Methods
      <4>2. QED
        BY <1>2, <2>2, <3>1, <4>1, PostTyped DEF Start
    <3>2. CASE ~probe
      <4>1. wire.state = "idle"
        BY <1>2 DEF Start, CallInv, WireFits, Off, Waits
      <4>2. QED
        BY <1>0, <1>2, <3>2, <4>1 DEF Start
    <3>3. QED
      BY <3>1, <3>2
  <2>5. turn' \in 0..OtherFiles
    BY <1>2, ConstantTypes DEF Start
  <2>6. QED
    BY <1>0, <1>2, <2>1, <2>2, <2>3, <2>4, <2>5 DEF Start
\* A step of the handshake.
<1>3. ASSUME http' \in Client, proc' \in Process, frames' = frames,
             wire'.state \in {"idle", "sent"}, wire'.state = "sent" => wire'.req \in Requests,
             late' \subseteq Requests,
             UNCHANGED <<app, cloud, mirror, cache, ran, poll, turn, wrote, excused>>
      PROVE  TypeOK'
  BY <1>0, <1>3
<1>4. ASSUME Detach, late' \subseteq Requests,
             UNCHANGED <<app, cloud, mirror, cache, ran, poll, turn, wrote, excused>>
      PROVE  TypeOK'
  BY <1>0, <1>3, <1>4, DetachTyped DEF Idle
<1>5. ASSUME NEW client \in Client, NEW stage \in {"initialized", "list"},
             Continue(client, stage), HandshakeStep
      PROVE  TypeOK'
  BY <1>0, <1>3, <1>5, ContinueTyped DEF HandshakeStep
<1>6. CASE ReceiveInitialize
  <2>1. wire.state = "back" /\ wire.req.method = "initialize" /\ HandshakeStep
    BY <1>6 DEF ReceiveInitialize, Received
  <2>2. CASE Outcome(wire.reply).is = "result"
    <3>1. Outcome(wire.reply).value \in Protocols
      BY <2>1, <2>2, OutcomeFits DEF CallInv, ResultFits
    <3>2. [Captured(wire.reply) EXCEPT !.protocol = Outcome(wire.reply).value] \in Client
      BY <1>0, <2>1, <3>1, CapturedTyped DEF Client
    <3>3. QED
      BY <1>5, <1>6, <2>1, <2>2, <3>2 DEF ReceiveInitialize
  <2>3. CASE Outcome(wire.reply).is # "result"
    BY <1>0, <1>4, <1>6, <2>1, <2>3 DEF ReceiveInitialize, HandshakeStep
  <2>4. QED
    BY <2>2, <2>3
<1>7. CASE ReceiveInitialized
  <2>1. wire.state = "back" /\ HandshakeStep
    BY <1>7 DEF ReceiveInitialized, Received
  <2>2. Captured(wire.reply) \in Client
    BY <1>0, <2>1, CapturedTyped
  <2>3. Detach \/ Continue(Captured(wire.reply), "list")
    BY <1>7 DEF ReceiveInitialized
  <2>4. QED
    BY <1>0, <1>4, <1>5, <2>1, <2>2, <2>3 DEF HandshakeStep
<1>8. CASE ReceiveList
  <2>1. wire.state = "back" /\ wire.req.method = "list" /\ HandshakeStep
    BY <1>8 DEF ReceiveList, Received
  <2>2. CASE Outcome(wire.reply).is = "result"
    <3>1. Outcome(wire.reply).value \in ToolLists
      BY <2>1, <2>2, OutcomeFits DEF CallInv, ResultFits
    <3>2. [Captured(wire.reply) EXCEPT !.tools = Outcome(wire.reply).value] \in Client
      BY <1>0, <2>1, <3>1, CapturedTyped DEF Client
    <3>3. proc' \in Process /\ frames' = frames /\ wire' = Idle
      BY <1>0, <1>8, <2>2 DEF ReceiveList, AfterHandshake, Process, Stages
    <3>4. QED
      BY <1>0, <1>3, <1>8, <2>1, <2>2, <3>2, <3>3 DEF ReceiveList, HandshakeStep, Idle
  <2>3. CASE Outcome(wire.reply).is # "result"
    BY <1>0, <1>4, <1>8, <2>1, <2>3 DEF ReceiveList, HandshakeStep
  <2>4. QED
    BY <2>2, <2>3
\* The end of a call.
<1>9. ASSUME NEW reply \in Replies, proc.stage = "forward", Settle(wire.req.frame, reply),
             proc' = AfterCall, wire' = Idle, http' \in Client, late' \subseteq Requests,
             cache' \in [Hashes -> Rows \cup {None}],
             {poll', excused'} \subseteq BOOLEAN, wrote' \in Versions,
             UNCHANGED <<app, cloud, mirror, ran, turn>>
      PROVE  TypeOK'
  <2>1. frames' \in Seq(FrameRecords) /\ Len(frames') = Len(frames)
    BY <1>9, CallFrame, SettleTyped
  <2>2. proc' \in Process
    BY <1>0, <1>9, AfterCallTyped
  <2>3. QED
    BY <1>0, <1>9, <2>1, <2>2 DEF Idle
<1>10. CASE ReceiveCall
  <2> DEFINE m == Outcome(wire.reply)
             c == frames[wire.req.frame].call
  <2>1. wire.state = "back" /\ wire.req.method = "call"
    BY <1>10 DEF ReceiveCall, Received
  <2>2. proc.stage = "forward" /\ c \in Calls
    <3>1. proc.stage = "forward"
      BY <2>1 DEF CallInv, WireFits, Waits
    <3>2. QED
      BY <3>1, CallFrame
  <2>3. http' \in Client
    BY <1>0, <1>10, <2>1, CapturedTyped DEF ReceiveCall
  <2>4. CASE m.is = "result"
    <3>1. m = Result(m.value) /\ m.value \in ran /\ m.value \in Results
      BY <1>0, <2>1, <2>4, OutcomeFits DEF CallInv, ResultFits
    <3>2. m \in Replies
      BY <3>1, RepliesTyped
    <3>3. cache' \in [Hashes -> Rows \cup {None}]
      <4>1. CacheKey[c] \in Hashes
        BY <2>2, ConstantTypes
      <4>2. mirror # None => [call |-> c, tag |-> mirror, result |-> m.value] \in Rows
        BY <1>0, <2>2, <3>1 DEF Rows
      <4>3. StoreResult(c, m.value)
        BY <1>10, <2>4 DEF ReceiveCall
      <4>4. QED
        BY <1>0, <4>1, <4>2, <4>3 DEF StoreResult
    <3>4. poll' \in BOOLEAN
      <4>1. \/ poll' = poll
            \/ poll' = (poll \/ (proc.kind = "serve" /\ Watch /\ TriggersPoll(c)))
        BY <1>10, <2>4 DEF ReceiveCall
      <4>2. poll \in BOOLEAN
        BY <1>0
      <4>3. QED
        BY <4>1, <4>2, Zenon
    <3>5. excused' \in BOOLEAN
      <4>1. excused' = excused \/ excused' = FALSE
        BY <1>10, <2>4 DEF ReceiveCall
      <4>2. excused \in BOOLEAN
        BY <1>0
      <4>3. QED
        BY <4>1, <4>2, Zenon
    <3>6. wrote' \in Versions
      BY <1>0, <1>10, <2>4, <3>1 DEF ReceiveCall, Results
    <3>7. QED
      BY <1>0, <1>9, <1>10, <2>2, <2>3, <2>4, <3>2, <3>3, <3>4, <3>5, <3>6 DEF ReceiveCall
  <2>5. CASE m.is # "result"
    BY <1>0, <1>9, <1>10, <2>2, <2>3, <2>5, RepliesTyped DEF ReceiveCall, CallFails
  <2>6. QED
    BY <2>4, <2>5
<1>11. CASE Unreachable
  <2>1. late' \subseteq Requests
    BY <1>0, <1>11, AbandonedTyped DEF Unreachable
  <2>2. CASE wire.req.method = "call"
    <3>1. proc.stage = "forward"
      BY <1>11, <2>2 DEF Unreachable, CallInv, WireFits, Waits
    <3>2. QED
      BY <1>0, <1>9, <1>11, <2>1, <2>2, <3>1, RepliesTyped DEF Unreachable, CallFails
  <2>3. CASE wire.req.method # "call"
    BY <1>4, <1>11, <2>1, <2>3 DEF Unreachable, HandshakeFails
  <2>4. QED
    BY <2>2, <2>3
<1>12. ASSUME NEW kind \in Plain \cup {"call"}, NEW c \in Calls \cup {None}, Take(kind, c)
       PROVE  TypeOK'
  <2>1. frames' \in Seq(FrameRecords) /\ Len(frames') = Len(frames) + 1
        /\ Len(frames) \in Nat /\ Len(frames) < MaxFrames
    <3>1. NewFrame(kind, c) /\ Len(frames) < MaxFrames
      BY <1>12 DEF Take
    <3>2. frames \in Seq(FrameRecords) /\ Len(frames) \in Nat
      BY <1>0
    <3>3. frames' \in Seq(FrameRecords) /\ Len(frames') = Len(frames) + 1
      BY <3>1, <3>2, NewFrameTyped
    <3>4. QED
      BY <3>1, <3>2, <3>3
  <2>2. Len(frames') <= MaxFrames
    BY <2>1, ConstantTypes
  <2>3. proc' \in Process
    BY <1>0, <1>12 DEF Take, Process, Stages
  <2>4. QED
    BY <1>0, <1>12, <2>1, <2>2, <2>3 DEF Take
<1>13. CASE HandlePlain
  <2>1. PICK kind \in Plain : Handling(kind) /\ Reply(PlainReply(kind))
    BY <1>13 DEF HandlePlain
  <2>2. PlainReply(kind) \in Replies
    BY <2>1, RepliesTyped, DesktopAssumption DEF PlainReply
  <2>3. QED
    BY <2>1, <2>2, ReplyTyped DEF Handling
<1>14. ASSUME NEW c \in Calls, HandleUnrouted(c) \/ HandleLocal(c) PROVE TypeOK'
  BY <1>14, ReplyTyped, RepliesTyped
     DEF HandleUnrouted, HandleLocal, HandleCall, Handling
<1>15. ASSUME NEW c \in Calls, HandleHit(c) PROVE TypeOK'
  <2>1. cache[CacheKey[c]] \in Rows
    BY <1>0, <1>15, ConstantTypes DEF HandleHit, Hit
  <2>2. Result(cache[CacheKey[c]].result) \in Replies
    BY <2>1, RepliesTyped DEF Rows
  <2>3. QED
    BY <1>15, <2>2, ReplyTyped DEF HandleHit, HandleCall, Handling
<1>16. ASSUME NEW c \in Calls, Forward(c) PROVE TypeOK'
  <2>1. This \in 0..MaxFrames /\ "call" \in Methods
    BY <1>0, ConstantTypes DEF This, Methods
  <2>2. wire'.state = "sent" /\ wire'.req \in Requests
    BY <1>0, <1>16, <2>1, PostTyped DEF Forward
  <2>3. proc' \in Process
    BY <1>0, <1>16 DEF Forward, Process, Stages
  <2>4. QED
    BY <1>0, <1>16, <2>2, <2>3 DEF Forward
\* The mirror is pulled.
<1>17. ASSUME EvictStale(cloud) PROVE cache' \in [Hashes -> Rows \cup {None}]
  BY <1>0, <1>17 DEF EvictStale
<1>18. ASSUME NEW ok \in BOOLEAN, Tick(ok) PROVE TypeOK'
  <2>1. turn' \in 0..OtherFiles
    BY <1>0, <1>18, TurnTyped DEF Tick
  <2>2. poll' \in BOOLEAN /\ excused' \in BOOLEAN
    BY <1>0, <1>18, Zenon DEF Tick
  <2>3. cache' \in [Hashes -> Rows \cup {None}] /\ mirror' \in Versions \cup {None}
    BY <1>0, <1>17, <1>18 DEF Tick
  <2>4. QED
    BY <1>0, <1>18, <2>1, <2>2, <2>3 DEF Tick
<1>19. CASE Exit
  <2>1. frames' \in Seq(FrameRecords) /\ Len(frames') = Len(frames)
    <3>1. /\ frames \in [1..Len(frames) -> FrameRecords] /\ Len(frames) \in Nat
          /\ DOMAIN frames = 1..Len(frames)
      BY <1>0
    <3>2. \A n \in DOMAIN frames : [frames[n] EXCEPT !.reply = Gone] \in FrameRecords
      BY <3>1, RepliesTyped DEF FrameRecords
    <3>3. frames' \in [1..Len(frames) -> FrameRecords]
      BY <1>19, <3>1, <3>2 DEF Exit
    <3>4. QED
      BY <3>1, <3>3
  <2>2. proc' \in Process /\ http' \in Client
    BY <1>19 DEF Exit, Off, NewClient, Process, Client, Stages
  <2>3. late' \subseteq Requests
    BY <1>0, <1>19, AbandonedTyped DEF Exit
  <2>4. poll' \in BOOLEAN /\ excused' \in BOOLEAN
    BY <1>19, Zenon DEF Exit
  <2>5. QED
    BY <1>0, <1>19, <2>1, <2>2, <2>3, <2>4 DEF Exit, Idle
<1>20. CASE PullElsewhere
  BY <1>0, <1>17, <1>20 DEF PullElsewhere
<1>21. ASSUME NEW req \in Pending, AppOpens(req) PROVE TypeOK'
  <2>1. app.opened + 1 \in 1..MaxSessions /\ app.opened + 1 \in SessionIds
    BY <1>0, <1>21, ConstantTypes DEF AppOpens, SessionIds
  <2>2. PICK p \in Protocols :
           /\ app' = [app EXCEPT !.opened = app.opened + 1, !.live[app.opened + 1] =
                         [protocol |-> p, stage |-> "opened", listed |-> FALSE]]
           /\ Respond(req, app.opened + 1, Result(p))
    BY <1>21 DEF AppOpens
  <2>3. [protocol |-> p, stage |-> "opened", listed |-> FALSE] \in Session
    BY DEF Session
  <2>4. app' \in [up: BOOLEAN, opened: 0..MaxSessions, live: [SessionIds -> Session \cup {None}]]
    <3>1. /\ app' = [up |-> app.up, opened |-> app.opened + 1,
                     live |-> [app.live EXCEPT ![app.opened + 1] =
                                 [protocol |-> p, stage |-> "opened", listed |-> FALSE]]]
      BY <1>0, <2>2
    <3>2. QED
      BY <1>0, <2>1, <2>3, <3>1
  <2>5. QED
    BY <1>0, <1>21, <2>1, <2>2, <2>4, RespondTyped DEF AppOpens, figmog
<1>22. ASSUME NEW req \in Pending, AppNotes(req) \/ AppLists(req) PROVE TypeOK'
  <2>1. req.session \in SessionIds /\ app.live[req.session] \in Session
    BY <1>0, <1>22, PendingTyped DEF AppNotes, AppLists, Known, Requests
  <2>2. PICK message : Respond(req, None, message)
    BY <1>22 DEF AppNotes, AppLists
  <2>3. app' \in [up: BOOLEAN, opened: 0..MaxSessions, live: [SessionIds -> Session \cup {None}]]
    <3>1. /\ [app.live[req.session] EXCEPT !.stage = "notified"] \in Session
          /\ [app.live[req.session] EXCEPT !.listed = TRUE] \in Session
      BY <2>1 DEF Session
    <3>2. QED
      BY <1>0, <1>22, <2>1, <3>1 DEF AppNotes, AppLists
  <2>4. QED
    BY <1>0, <1>22, <2>2, <2>3, RespondTyped DEF AppNotes, AppLists, figmog
<1>23. ASSUME NEW req \in Pending, NEW ok \in BOOLEAN, AppRuns(req, ok) PROVE TypeOK'
  <2>1. req.frame \in 1..MaxFrames
    BY <1>0, <1>23, PendingTyped, ConstantTypes DEF AppRuns, Serves
  <2>2. cloud' \in Versions
    BY <1>0, <1>23, ConstantTypes DEF AppRuns, Versions
  <2>3. [of |-> req.frame, ok |-> ok, version |-> cloud'] \in Results
    BY <2>1, <2>2 DEF Results
  <2>4. ran' \subseteq Results
    BY <1>0, <1>23, <2>3 DEF AppRuns
  <2>5. PICK message : Respond(req, None, message)
    BY <1>23 DEF AppRuns
  <2>6. QED
    BY <1>0, <1>23, <2>2, <2>4, <2>5, RespondTyped DEF AppRuns, figmog
<1>24. ASSUME NEW req \in Pending, AppRefuses(req) PROVE TypeOK'
  BY <1>0, <1>24, RespondTyped DEF AppRefuses, figmog
<1>25. CASE AppStops \/ AppStarts
  BY <1>0, <1>25 DEF AppStops, AppStarts, figmog
<1>26. CASE Edit
  BY <1>0, <1>26, ConstantTypes DEF Edit, figmog, Versions
<1>27. QED
  BY <1>1, <1>2, <1>6, <1>7, <1>8, <1>10, <1>11, <1>12, <1>13, <1>14, <1>15, <1>16,
     <1>18, <1>19, <1>20, <1>21, <1>22, <1>23, <1>24, <1>25, <1>26
     DEF Next, Receive, TakeAny, Handle, AppStep

-----------------------------------------------------------------------------
(* Frames *)

\* The frames with the reply of the n-th, that had none.
Settled(n, reply) ==
    /\ n \in DOMAIN frames /\ reply \in Replies /\ reply # Waiting
    /\ Settle(n, reply)

LEMMA ReplyKinds ==
    /\ Waiting \notin {Silent, Listed, Mirror, Error, Gone, Refusal}
    /\ \A value : Result(value) # Waiting /\ Result(value).is = "result"
    /\ \A m \in {Waiting, Silent, Listed, Mirror, Error, Gone, Refusal} : m.is # "result"
BY DEF Waiting, Silent, Listed, Mirror, Error, Gone, Refusal, Result, Message

\* A frame is being handled, or a one-shot call is on its way to that.
Busy ==
    \/ proc.kind = "call"
    \/ proc.kind = "serve" /\ proc.stage \in {"handle", "forward"}

\* A result given as a reply is the response under way, or a row of the cache.
FromApp(reply) ==
    reply.is = "result" =>
        \/ ReceiveCall /\ Outcome(wire.reply).is = "result" /\ reply = Outcome(wire.reply)
        \/ \E c \in Calls : HandleHit(c) /\ reply = Result(cache[CacheKey[c]].result)

\* What a step does to the frames: nothing; a new one; a reply to the last one;
\* and at the end of the process, the loss of the reply awaited.
LEMMA FrameSteps ==
    ASSUME CallInv, [Next]_vars
    PROVE  \/ frames' = frames /\ (Busy' <=> Busy)
           \/ /\ ~Busy /\ Busy'
              /\ \E kind \in Plain \cup {"call"}, c \in Calls \cup {None} : NewFrame(kind, c)
           \/ /\ proc.stage \in {"handle", "forward"} /\ proc' = AfterCall
              /\ \E reply : Settled(Len(frames), reply) /\ FromApp(reply)
           \/ Exit
<1>0. TypeOK
  BY DEF CallInv
<1>1. CASE Exit \/ UNCHANGED vars
  BY <1>1 DEF vars, figmog, Busy
<1>2. ASSUME NEW kind \in {"serve", "call"}, NEW probe \in BOOLEAN, Start(kind, probe)
      PROVE  \/ frames' = frames /\ (Busy' <=> Busy)
             \/ ~Busy /\ Busy' /\ \E c \in Calls : NewFrame("call", c)
  <2>1. ~Busy
    BY <1>2 DEF Start, Off, Busy
  <2>2. Busy' <=> kind = "call"
    BY <1>2 DEF Start, Busy
  <2>3. QED
    BY <1>2, <2>1, <2>2 DEF Start
\* In the handshake only a one-shot call is busy, and it stays so.
<1>h. ASSUME proc.stage \in Waits \ {"forward"}, proc'.kind = proc.kind,
             proc'.stage \in {"initialized", "list", AfterHandshake}
      PROVE  Busy' <=> Busy
  BY <1>h DEF Busy, AfterHandshake, Waits
<1>3. CASE ReceiveInitialize \/ ReceiveInitialized \/ ReceiveList
  <2>1. proc.stage \in Waits \ {"forward"}
    BY <1>0, <1>3
       DEF ReceiveInitialize, ReceiveInitialized, ReceiveList, Received, CallInv, WireFits
  <2>2. /\ frames' = frames
        /\ \E stage \in {"initialized", "list", AfterHandshake} :
              \E attached \in BOOLEAN :
                 proc' = [kind |-> proc.kind, stage |-> stage, attached |-> attached]
    BY <1>0, <1>3
       DEF ReceiveInitialize, ReceiveInitialized, ReceiveList, Continue, Detach,
           TypeOK, Process
  <2>3. QED
    BY <1>h, <2>1, <2>2
<1>4. ASSUME proc.stage = "forward", NEW reply, reply \in Replies, reply # Waiting,
             Settle(wire.req.frame, reply)
      PROVE  Settled(Len(frames), reply)
  BY <1>4, CallFrame DEF Settled
<1>5. CASE ReceiveCall
  <2> DEFINE m == Outcome(wire.reply)
  <2>1. wire.state = "back" /\ wire.req.method = "call"
    BY <1>5 DEF ReceiveCall, Received
  <2>2. proc.stage = "forward"
    BY <2>1 DEF CallInv, WireFits, Waits
  <2>3. CASE m.is = "result"
    <3>1. m = Result(m.value) /\ m.value \in Results
      BY <1>0, <2>1, <2>3, OutcomeFits DEF CallInv, ResultFits, TypeOK
    <3>2. m \in Replies /\ m # Waiting
      BY <3>1, RepliesTyped, ReplyKinds
    <3>3. QED
      BY <1>4, <1>5, <2>2, <2>3, <3>2 DEF ReceiveCall, FromApp
  <2>4. CASE m.is # "result"
    BY <1>4, <1>5, <2>2, <2>4, RepliesTyped, ReplyKinds DEF ReceiveCall, CallFails, FromApp
  <2>5. QED
    BY <2>3, <2>4
<1>6. CASE Unreachable
  <2>1. CASE wire.req.method = "call"
    <3>1. proc.stage = "forward"
      BY <1>6, <2>1 DEF Unreachable, CallInv, WireFits, Waits
    <3>2. QED
      BY <1>4, <1>6, <2>1, <3>1, RepliesTyped, ReplyKinds DEF Unreachable, CallFails, FromApp
  <2>2. CASE wire.req.method # "call"
    <3>1. Detach /\ proc.stage \in Waits \ {"forward"}
      BY <1>6, <2>2 DEF Unreachable, HandshakeFails, CallInv, WireFits
    <3>2. QED
      BY <1>0, <1>h, <3>1, DetachTyped
  <2>3. QED
    BY <2>1, <2>2
<1>7. ASSUME NEW reply, reply \in Replies, reply # Waiting, proc.stage = "handle", Reply(reply)
      PROVE  /\ proc.stage \in {"handle", "forward"} /\ proc' = AfterCall
             /\ Settled(Len(frames), reply)
  <2>1. Len(frames) \in DOMAIN frames
    BY <1>7 DEF CallInv, TypeOK, WireCalls
  <2>2. QED
    BY <1>7, <2>1 DEF Reply, This, Settled
<1>8. CASE HandlePlain
  <2>1. PICK kind \in Plain : Handling(kind) /\ Reply(PlainReply(kind))
    BY <1>8 DEF HandlePlain
  <2>2. PlainReply(kind) \in {Silent, Listed, Error}
    BY <2>1, DesktopAssumption DEF PlainReply
  <2>3. QED
    BY <1>7, <2>1, <2>2, RepliesTyped, ReplyKinds DEF Handling, FromApp
<1>9. ASSUME NEW c \in Calls, HandleUnrouted(c) \/ HandleLocal(c)
      PROVE  \E reply : /\ proc.stage \in {"handle", "forward"} /\ proc' = AfterCall
                        /\ Settled(Len(frames), reply) /\ FromApp(reply)
  BY <1>7, <1>9, RepliesTyped, ReplyKinds
     DEF HandleUnrouted, HandleLocal, HandleCall, Handling, FromApp
<1>10. ASSUME NEW c \in Calls, HandleHit(c)
       PROVE  \E reply : /\ proc.stage \in {"handle", "forward"} /\ proc' = AfterCall
                         /\ Settled(Len(frames), reply) /\ FromApp(reply)
  <2>1. cache[CacheKey[c]] \in Rows
    BY <1>0, <1>10, ConstantTypes DEF HandleHit, Hit, TypeOK
  <2>2. Result(cache[CacheKey[c]].result) \in Replies
    BY <2>1, RepliesTyped DEF Rows
  <2>3. QED
    BY <1>7, <1>10, <2>2, ReplyKinds DEF HandleHit, HandleCall, Handling, FromApp
<1>11. ASSUME NEW c \in Calls, Forward(c) PROVE frames' = frames /\ (Busy' <=> Busy)
  BY <1>0, <1>11 DEF Forward, HandleCall, Handling, TypeOK, Process, Busy
<1>12. CASE TakeAny
  <2>1. PICK kind \in Plain \cup {"call"}, c \in Calls \cup {None} : Take(kind, c)
    BY <1>12 DEF TakeAny
  <2>2. ~Busy /\ Busy'
    BY <1>0, <2>1 DEF Take, TypeOK, Process, Busy
  <2>3. QED
    BY <2>1, <2>2 DEF Take
<1>13. CASE (\E ok \in BOOLEAN : Tick(ok)) \/ PullElsewhere \/ AppStep \/ AppStops \/ AppStarts \/ Edit
  BY <1>13 DEF Tick, PullElsewhere, AppStep, AppOpens, AppNotes, AppLists, AppRefuses,
               AppRuns, AppStops, AppStarts, Edit, figmog, Busy
<1>14. QED
  BY <1>1, <1>2, <1>3, <1>5, <1>6, <1>8, <1>9, <1>10, <1>11, <1>12, <1>13
     DEF Next, Receive, Handle

\* A frame keeps its call.
LEMMA FramesKept ==
    ASSUME CallInv, [Next]_vars
    PROVE  /\ DOMAIN frames \subseteq DOMAIN frames' /\ Len(frames') >= Len(frames)
           /\ \A n \in DOMAIN frames : frames'[n].call = frames[n].call
<1>0. frames \in Seq(FrameRecords) /\ DOMAIN frames = 1..Len(frames) /\ Len(frames) \in Nat
      /\ \A n \in DOMAIN frames : frames[n] \in FrameRecords
  BY DEF CallInv, TypeOK
<1>1. CASE frames' = frames
  BY <1>0, <1>1
<1>2. ASSUME NEW kind \in Plain \cup {"call"}, NEW c \in Calls \cup {None}, NewFrame(kind, c)
      PROVE  /\ DOMAIN frames \subseteq DOMAIN frames' /\ Len(frames') >= Len(frames)
             /\ \A n \in DOMAIN frames : frames'[n].call = frames[n].call
  <2>1. /\ frames' \in Seq(FrameRecords) /\ Len(frames') = Len(frames) + 1
        /\ \A k \in 1..Len(frames) : frames'[k] = frames[k]
    BY <1>0, <1>2, NewFrameTyped
  <2>2. QED
    BY <1>0, <2>1
<1>3. ASSUME NEW reply, Settled(Len(frames), reply)
      PROVE  /\ DOMAIN frames \subseteq DOMAIN frames' /\ Len(frames') >= Len(frames)
             /\ \A n \in DOMAIN frames : frames'[n].call = frames[n].call
  <2>1. /\ frames' \in Seq(FrameRecords) /\ Len(frames') = Len(frames)
        /\ frames'[Len(frames)] = [frames[Len(frames)] EXCEPT !.reply = reply]
        /\ \A k \in DOMAIN frames \ {Len(frames)} : frames'[k] = frames[k]
    BY <1>0, <1>3, SettleTyped DEF Settled
  <2>2. frames[Len(frames)] \in FrameRecords
    BY <1>0, <1>3 DEF Settled
  <2>3. frames'[Len(frames)].call = frames[Len(frames)].call
    BY <2>1, <2>2 DEF FrameRecords
  <2>4. DOMAIN frames' = DOMAIN frames
    BY <1>0, <2>1
  <2>5. \A k \in DOMAIN frames : frames'[k].call = frames[k].call
    BY <2>1, <2>3
  <2>6. QED
    BY <1>0, <2>1, <2>4, <2>5
<1>4. CASE Exit
  <2>1. frames' \in [DOMAIN frames -> FrameRecords] /\ DOMAIN frames' = DOMAIN frames
    <3>1. \A n \in DOMAIN frames : [frames[n] EXCEPT !.reply = Gone] \in FrameRecords
      BY <1>0, RepliesTyped DEF FrameRecords
    <3>2. QED
      BY <1>0, <1>4, <3>1 DEF Exit
  <2>2. Len(frames') = Len(frames)
    BY <1>0, <2>1
  <2>3. \A n \in DOMAIN frames : frames'[n].call = frames[n].call
    BY <1>0, <1>4 DEF Exit, FrameRecords
  <2>4. QED
    BY <1>0, <2>1, <2>2, <2>3
<1>5. QED
  BY <1>1, <1>2, <1>3, <1>4, FrameSteps

-----------------------------------------------------------------------------
(* The exchange and what it is for *)

\* The stage of a call that ends, in CallInv's words.
LEMMA CallEnds ==
    ASSUME CallInv, proc' = AfterCall, wire'.state = "idle", frames' # <<>>
    PROVE  WireFits' /\ WireCalls' /\ ReplyFits'
<1>1. /\ proc'.stage = "ready"
      /\ proc' = Off \/ (proc'.kind = "serve" /\ proc.kind = "serve" /\ proc'.attached = proc.attached)
  BY AfterCallTyped DEF CallInv, TypeOK
<1>2. QED
  BY <1>1 DEF WireFits, WireCalls, ReplyFits, Off, Waits

LEMMA HandshakeEnds ==
    ASSUME CallInv, proc.kind # "none", proc.kind = "call" => frames # <<>>,
           proc'.kind = proc.kind, proc'.stage = AfterHandshake,
           proc.kind # "call" => proc'.stage # "handle",
           wire'.state = "idle", frames' = frames
    PROVE  WireFits' /\ WireCalls' /\ ReplyFits'
<1>1. proc.kind = "serve" \/ proc.kind = "call"
  BY DEF CallInv, TypeOK, Process
<1>2. proc'.stage = IF proc.kind = "serve" THEN "ready" ELSE "handle"
  BY DEF AfterHandshake
<1>3. QED
  BY <1>1, <1>2 DEF WireFits, WireCalls, ReplyFits, Off, Waits

LEMMA DetachFits ==
    ASSUME CallInv, proc.stage \in Waits \ {"forward"}, Detach
    PROVE  WireFits' /\ WireCalls' /\ ReplyFits'
<1>1. proc.kind # "none"
  BY DEF CallInv, WireFits, Off, Waits
<1>2. /\ proc'.kind = proc.kind /\ proc'.stage = AfterHandshake
      /\ wire'.state = "idle" /\ frames' = frames
  BY DetachTyped DEF CallInv, Idle
<1>3. QED
  BY <1>1, <1>2, HandshakeEnds DEF CallInv, WireCalls, AfterHandshake, TypeOK, Process

LEMMA ContinueFits ==
    ASSUME CallInv, proc.stage \in Waits \ {"forward"},
           NEW client \in Client, NEW stage \in {"initialized", "list"},
           Continue(client, stage)
    PROVE  WireFits' /\ WireCalls' /\ ReplyFits'
<1>1. proc.kind # "none" /\ ~proc.attached
  BY DEF CallInv, WireFits, Off, Waits
<1>2. /\ proc'.kind = proc.kind /\ proc'.stage = stage /\ proc'.attached = proc.attached
      /\ wire'.state = "sent" /\ wire'.req.method = stage /\ frames' = frames
  <2>1. TypeOK
    BY DEF CallInv
  <2>2. wire'.req = Request(client, stage, 0)
    BY <2>1, ContinueTyped
  <2>3. wire'.req.method = stage
    BY <2>2 DEF Request
  <2>4. QED
    BY <2>1, <2>3, ContinueTyped
<1>3. QED
  BY <1>1, <1>2 DEF CallInv, WireFits, WireCalls, ReplyFits, Waits

\* A response on the wire, to a request that waits for it or to none.
LEMMA RespondFits ==
    ASSUME CallInv, NEW req \in Pending, NEW session, NEW m,
           Respond(req, session, m), proc' = proc, frames' = frames, ran \subseteq ran',
           m.is = "result" => m = Result(m.value) /\ ResultFits(req, m.value)'
    PROVE  WireFits' /\ WireCalls' /\ ReplyFits'
<1>1. WireFits' /\ WireCalls'
  BY RespondEffect DEF CallInv, WireFits, WireCalls
<1>2. CASE /\ wire'.state = "back" /\ wire'.req = req /\ wire'.reply.body \in Bodies(m)
  BY <1>1, <1>2 DEF ReplyFits
<1>3. CASE wire' = wire
  BY <1>1, <1>3 DEF CallInv, ReplyFits, ResultFits
<1>4. QED
  BY <1>2, <1>3, RespondEffect

LEMMA FitsNext ==
    ASSUME CallInv, [Next]_vars
    PROVE  WireFits' /\ WireCalls' /\ ReplyFits'
<1>0. /\ TypeOK /\ WireFits /\ WireCalls /\ ReplyFits /\ DOMAIN frames = 1..Len(frames)
      /\ frames \in Seq(FrameRecords) /\ Len(frames) \in Nat
  BY DEF CallInv, TypeOK
\* Neither the process nor its exchange moves.
<1>1. ASSUME UNCHANGED <<proc, wire, frames>>, ran \subseteq ran'
      PROVE  WireFits' /\ WireCalls' /\ ReplyFits'
  BY <1>0, <1>1 DEF WireFits, WireCalls, ReplyFits, ResultFits
<1>2. ASSUME NEW kind \in {"serve", "call"}, NEW probe \in BOOLEAN, Start(kind, probe)
      PROVE  WireFits' /\ WireCalls' /\ ReplyFits'
  <2>1. proc = Off /\ wire.state = "idle"
    BY <1>0, <1>2 DEF Start, WireFits, Off, Waits, TypeOK
  <2>2. kind = "call" => frames' # <<>>
    <3>1. ASSUME NEW c \in Calls, NewFrame("call", c) PROVE frames' # <<>>
      BY <1>0, <3>1, NewFrameTyped
    <3>2. QED
      BY <1>2, <3>1 DEF Start
  <2>3. CASE probe
    <3>1. wire'.state = "sent" /\ wire'.req.method = "initialize"
      BY <1>2, <2>3 DEF Start, Post, Request
    <3>2. proc'.kind = kind /\ proc'.stage = "initialize" /\ proc'.attached = FALSE
      BY <1>2, <2>3 DEF Start
    <3>3. QED
      BY <2>2, <3>1, <3>2 DEF WireFits, WireCalls, ReplyFits, Waits
  <2>4. CASE ~probe
    <3>1. wire' = wire
      BY <1>2, <2>4 DEF Start
    <3>2. /\ proc'.kind = kind /\ proc'.attached = FALSE
          /\ proc'.stage = IF kind = "serve" THEN "ready" ELSE "handle"
      BY <1>2, <2>4 DEF Start
    <3>3. QED
      BY <2>1, <2>2, <3>1, <3>2 DEF WireFits, WireCalls, ReplyFits, Waits
  <2>5. QED
    BY <2>3, <2>4
\* In a handshake.
<1>3. ASSUME wire.state # "idle", wire.req.method # "call"
      PROVE  proc.stage \in Waits \ {"forward"}
  BY <1>0, <1>3 DEF WireFits
<1>4. CASE ReceiveInitialize \/ ReceiveInitialized \/ ReceiveList
  <2>1. /\ wire.state = "back" /\ proc.stage \in Waits \ {"forward"}
        /\ Captured(wire.reply) \in Client
    BY <1>0, <1>3, <1>4, CapturedTyped
       DEF ReceiveInitialize, ReceiveInitialized, ReceiveList, Received
  <2>2. CASE Detach
    BY <2>1, <2>2, DetachFits
  <2>3. CASE ReceiveInitialize /\ ~Detach
    <3>1. /\ Outcome(wire.reply).is = "result" /\ wire.req.method = "initialize"
          /\ Continue([Captured(wire.reply) EXCEPT !.protocol = Outcome(wire.reply).value], "initialized")
      BY <2>3 DEF ReceiveInitialize, Received
    <3>2. Outcome(wire.reply).value \in Protocols
      BY <1>0, <2>1, <3>1, OutcomeFits DEF ResultFits
    <3>3. [Captured(wire.reply) EXCEPT !.protocol = Outcome(wire.reply).value] \in Client
      BY <2>1, <3>2 DEF Client
    <3>4. QED
      BY <2>1, <3>1, <3>3, ContinueFits
  <2>4. CASE ReceiveInitialized /\ ~Detach
    <3>1. Continue(Captured(wire.reply), "list")
      BY <2>4 DEF ReceiveInitialized
    <3>2. QED
      BY <2>1, <3>1, ContinueFits
  <2>5. CASE ReceiveList /\ ~Detach
    <3>1. /\ proc' = [proc EXCEPT !.stage = AfterHandshake, !.attached = TRUE]
          /\ wire' = Idle /\ frames' = frames
      BY <2>5 DEF ReceiveList
    <3>2. /\ proc'.kind = proc.kind /\ proc'.stage = AfterHandshake
          /\ proc.kind # "none" /\ (proc.kind = "call" => frames # <<>>)
      BY <1>0, <2>1, <3>1 DEF TypeOK, Process, WireFits, WireCalls, Off, Waits
    <3>3. wire'.state = "idle"
      BY <3>1 DEF Idle
    <3>4. proc.kind # "call" => proc'.stage # "handle"
      BY <1>0, <3>2 DEF AfterHandshake, TypeOK, Process
    <3>5. QED
      BY <3>1, <3>2, <3>3, <3>4, HandshakeEnds
  <2>6. QED
    BY <1>4, <2>2, <2>3, <2>4, <2>5
\* The end of a call.
<1>5. ASSUME proc.stage \in {"handle", "forward"}, proc' = AfterCall, wire'.state = "idle"
      PROVE  WireFits' /\ WireCalls' /\ ReplyFits'
  <2>1. frames # <<>>
    BY <1>0, <1>5 DEF WireCalls
  <2>2. frames' # <<>>
    BY <1>0, <2>1, FramesKept
  <2>3. QED
    BY <1>5, <2>2, CallEnds
<1>6. CASE ReceiveCall
  <2>1. wire.state = "back" /\ wire.req.method = "call" /\ proc' = AfterCall /\ wire' = Idle
    BY <1>6 DEF ReceiveCall, Received, CallFails
  <2>2. proc.stage = "forward" /\ wire'.state = "idle"
    BY <1>0, <2>1 DEF WireFits, Waits, Idle
  <2>3. QED
    BY <1>5, <2>1, <2>2
<1>7. CASE Unreachable
  <2>1. CASE wire.req.method = "call"
    <3>1. proc' = AfterCall /\ wire' = Idle
      BY <1>7, <2>1 DEF Unreachable, CallFails
    <3>2. proc.stage = "forward" /\ wire'.state = "idle"
      BY <1>0, <1>7, <2>1, <3>1 DEF Unreachable, WireFits, Waits, Idle
    <3>3. QED
      BY <1>5, <3>1, <3>2
  <2>2. CASE wire.req.method # "call"
    BY <1>3, <1>7, <2>2, DetachFits DEF Unreachable, HandshakeFails
  <2>3. QED
    BY <2>1, <2>2
<1>8. ASSUME NEW kind \in Plain \cup {"call"}, NEW c \in Calls \cup {None}, Take(kind, c)
      PROVE  WireFits' /\ WireCalls' /\ ReplyFits'
  <2>1. frames' # <<>>
    <3>1. NewFrame(kind, c)
      BY <1>8 DEF Take
    <3>2. QED
      BY <1>0, <3>1, NewFrameTyped
  <2>2. /\ proc.stage = "ready" /\ proc.kind = "serve" /\ proc'.stage = "handle"
        /\ proc'.kind = proc.kind /\ wire' = wire
    BY <1>0, <1>8 DEF Take, TypeOK, Process
  <2>3. wire.state = "idle"
    BY <1>0, <2>2 DEF WireFits, Waits, TypeOK
  <2>4. QED
    BY <1>0, <2>1, <2>2, <2>3 DEF WireFits, WireCalls, ReplyFits, Waits
<1>9. ASSUME NEW reply, proc.stage = "handle", Reply(reply)
      PROVE  WireFits' /\ WireCalls' /\ ReplyFits'
  <2>1. wire.state = "idle" /\ wire' = wire /\ proc' = AfterCall
    BY <1>0, <1>9 DEF Reply, WireFits, Waits, TypeOK
  <2>2. QED
    BY <1>5, <1>9, <2>1
<1>10. CASE HandlePlain
  BY <1>9, <1>10 DEF HandlePlain, Handling
<1>11. ASSUME NEW c \in Calls, HandleUnrouted(c) \/ HandleLocal(c) \/ HandleHit(c)
       PROVE  WireFits' /\ WireCalls' /\ ReplyFits'
  BY <1>9, <1>11 DEF HandleUnrouted, HandleLocal, HandleHit, HandleCall, Handling
<1>12. ASSUME NEW c \in Calls, Forward(c) PROVE WireFits' /\ WireCalls' /\ ReplyFits'
  <2>1. /\ proc.stage = "handle" /\ frames[Len(frames)].call = c /\ frames' = frames
        /\ proc' = [proc EXCEPT !.stage = "forward"] /\ Post(http, "call", Len(frames))
    BY <1>12 DEF Forward, HandleCall, Handling, This
  <2>2. /\ proc'.kind = proc.kind /\ proc'.attached = proc.attached /\ proc'.stage = "forward"
    BY <1>0, <2>1 DEF TypeOK, Process
  <2>3. /\ wire'.state = "sent" /\ wire'.req.method = "call" /\ wire'.req.frame = Len(frames)
    BY <2>1 DEF Post, Request
  <2>4. frames # <<>> /\ proc.kind # "none"
    BY <1>0, <2>1 DEF WireCalls, WireFits, Off
  <2>5. QED
    BY <1>12, <2>1, <2>2, <2>3, <2>4 DEF WireFits, WireCalls, ReplyFits, Waits
<1>13. CASE Exit
  <2>1. proc' = Off /\ wire' = Idle
    BY <1>13 DEF Exit
  <2>2. QED
    BY <2>1 DEF WireFits, WireCalls, ReplyFits, Off, Idle, Waits
<1>14. ASSUME NEW req \in Pending, AppOpens(req) PROVE WireFits' /\ WireCalls' /\ ReplyFits'
  <2>1. PICK p \in Protocols, s \in SessionIds : Respond(req, s, Result(p))
    <3>1. app.opened + 1 \in SessionIds
      BY <1>0, <1>14, ConstantTypes DEF AppOpens, TypeOK, SessionIds
    <3>2. QED
      BY <1>14, <3>1 DEF AppOpens
  <2>2. Result(p) = Result(Result(p).value) /\ Result(p).value = p
    BY DEF Result, Message
  <2>3. ResultFits(req, Result(p).value)'
    BY <1>14, <2>2 DEF AppOpens, Serves, ResultFits
  <2>4. proc' = proc /\ frames' = frames /\ ran' = ran
    BY <1>14 DEF AppOpens, figmog
  <2>5. QED
    BY <2>1, <2>2, <2>3, <2>4, RespondFits
<1>15. ASSUME NEW req \in Pending, AppNotes(req) \/ AppRefuses(req)
       PROVE  WireFits' /\ WireCalls' /\ ReplyFits'
  <2>1. PICK m \in {Junk, Refusal} : Respond(req, None, m)
    BY <1>15 DEF AppNotes, AppRefuses
  <2>2. m.is # "result"
    BY <2>1 DEF Junk, Refusal, Message
  <2>3. proc' = proc /\ frames' = frames /\ ran' = ran
    BY <1>15 DEF AppNotes, AppRefuses, figmog
  <2>4. QED
    BY <2>1, <2>2, <2>3, RespondFits
<1>16. ASSUME NEW req \in Pending, AppLists(req) PROVE WireFits' /\ WireCalls' /\ ReplyFits'
  <2>1. PICK tools \in ToolLists : Respond(req, None, Result(tools))
    BY <1>16 DEF AppLists
  <2>2. Result(tools) = Result(Result(tools).value) /\ Result(tools).value = tools
    BY DEF Result, Message
  <2>3. ResultFits(req, Result(tools).value)'
    BY <1>16, <2>2 DEF AppLists, Serves, ResultFits
  <2>4. proc' = proc /\ frames' = frames /\ ran' = ran
    BY <1>16 DEF AppLists, figmog
  <2>5. QED
    BY <2>1, <2>2, <2>3, <2>4, RespondFits
<1>17. ASSUME NEW req \in Pending, NEW ok \in BOOLEAN, AppRuns(req, ok)
       PROVE  WireFits' /\ WireCalls' /\ ReplyFits'
  <2>1. PICK r : /\ r.of = req.frame /\ ran' = ran \cup {r} /\ Respond(req, None, Result(r))
                 /\ req.method = "call"
    BY <1>17 DEF AppRuns, Serves
  <2>2. Result(r) = Result(Result(r).value) /\ Result(r).value = r
    BY DEF Result, Message
  <2>3. ResultFits(req, Result(r).value)'
    BY <2>1, <2>2 DEF ResultFits
  <2>4. proc' = proc /\ frames' = frames
    BY <1>17 DEF AppRuns, figmog
  <2>5. QED
    BY <2>1, <2>2, <2>3, <2>4, RespondFits
<1>18. CASE \/ \E ok \in BOOLEAN : Tick(ok)
            \/ PullElsewhere \/ AppStops \/ AppStarts \/ Edit \/ UNCHANGED vars
  BY <1>1, <1>18 DEF Tick, PullElsewhere, AppStops, AppStarts, Edit, figmog, vars
<1>19. QED
  BY <1>2, <1>4, <1>6, <1>7, <1>8, <1>10, <1>11, <1>12, <1>13, <1>14, <1>15, <1>16,
     <1>17, <1>18
     DEF Next, Receive, TakeAny, Handle, AppStep

-----------------------------------------------------------------------------
(* Every call once, and every reply kept *)

NotRun(n) == \A r \in ran : r.of # n

\* The one frame without a reply is the last, while it is handled.
FramesWait == \A n \in DOMAIN frames : (frames[n].reply = Waiting) <=> (n = Len(frames) /\ Busy)

\* It has not been run until its response is on the wire.
AwaitsRun ==
    Busy /\ ~(proc.stage = "forward" /\ wire.state = "back") => NotRun(Len(frames))

\* What was given up on has its reply, was sent once, and has not been run.
LateOnce ==
    /\ \A q \in late : frames[q.frame].reply # Waiting /\ NotRun(q.frame)
    /\ \A p, q \in late : p.frame = q.frame => p = q

\* The app has run only what it was asked.
RanAsked == \A r \in ran : r.of \in DOMAIN frames

OnceInv == CallInv /\ FramesWait /\ AwaitsRun /\ LateOnce /\ RanAsked

LEMMA RanSteps ==
    ASSUME CallInv, [Next]_vars
    PROVE  \/ ran' = ran
           \/ \E req \in Pending : \E r :
                 /\ req.method = "call" /\ r.of = req.frame /\ r.version = cloud'
                 /\ ran' = ran \cup {r} /\ Respond(req, None, Result(r))
                 /\ UNCHANGED figmog
<1>1. ASSUME NEW req \in Pending, NEW ok \in BOOLEAN, AppRuns(req, ok)
      PROVE  \E r : /\ req.method = "call" /\ r.of = req.frame /\ r.version = cloud'
                    /\ ran' = ran \cup {r} /\ Respond(req, None, Result(r))
                    /\ UNCHANGED figmog
  BY <1>1 DEF AppRuns, Serves
<1>2. CASE \/ \E kind \in {"serve", "call"}, probe \in BOOLEAN : Start(kind, probe)
           \/ Receive \/ Unreachable \/ TakeAny \/ Handle
           \/ \E ok \in BOOLEAN : Tick(ok)
           \/ Exit \/ PullElsewhere \/ AppStops \/ AppStarts \/ Edit \/ UNCHANGED vars
           \/ \E req \in Pending : AppOpens(req) \/ AppNotes(req) \/ AppLists(req) \/ AppRefuses(req)
  BY <1>2
     DEF Start, Receive, ReceiveInitialize, ReceiveInitialized, ReceiveList, ReceiveCall,
         HandshakeStep, Unreachable, TakeAny, Take, Handle, HandlePlain, HandleUnrouted,
         HandleLocal, HandleHit, Forward, Reply, Tick, Exit, PullElsewhere, AppOpens,
         AppNotes, AppLists, AppRefuses, AppStops, AppStarts, Edit, vars
<1>3. QED
  BY <1>1, <1>2 DEF Next, AppStep

\* What is given up on is the call under way, whose frame has its reply by then.
LEMMA LateSteps ==
    ASSUME CallInv, FramesWait, [Next]_vars
    PROVE  \/ late' \subseteq late
           \/ /\ late' = late \cup {wire.req} /\ wire.state = "sent" /\ proc.stage = "forward"
              /\ frames'[Len(frames)].reply # Waiting
<1>0. TypeOK /\ frames \in Seq(FrameRecords)
  BY DEF CallInv, TypeOK
<1>1. Abandoned = {} \/ (Abandoned = {wire.req} /\ wire.state = "sent" /\ proc.stage = "forward")
  BY DEF Abandoned, CallInv, WireFits, Waits
<1>2. CASE Unreachable
  <2>1. CASE late' = late \cup Abandoned /\ Abandoned # {}
    <3>1. CallFails /\ proc.stage = "forward" /\ Abandoned = {wire.req}
      BY <1>1, <1>2, <2>1 DEF Unreachable, Abandoned
    <3>2. frames'[Len(frames)] = [frames[Len(frames)] EXCEPT !.reply = Error]
          /\ frames[Len(frames)] \in FrameRecords
      BY <1>0, <3>1, CallFrame, SettleTyped, RepliesTyped DEF CallFails
    <3>3. frames'[Len(frames)].reply = Error
      BY <3>2 DEF FrameRecords
    <3>4. QED
      BY <1>1, <2>1, <3>1, <3>3, ReplyKinds
  <2>2. CASE ~(late' = late \cup Abandoned /\ Abandoned # {})
    BY <1>2, <2>2 DEF Unreachable
  <2>3. QED
    BY <2>1, <2>2
<1>3. CASE Exit
  <2>1. CASE late' = late \cup Abandoned /\ Abandoned # {}
    <3>1. proc.stage = "forward" /\ Len(frames) \in DOMAIN frames
          /\ frames[Len(frames)] \in FrameRecords
      BY <1>0, <1>1, <2>1, CallFrame
    <3>2. frames'[Len(frames)] = IF frames[Len(frames)].reply = Waiting
                                 THEN [frames[Len(frames)] EXCEPT !.reply = Gone]
                                 ELSE frames[Len(frames)]
      BY <1>3, <3>1 DEF Exit
    <3>3. frames'[Len(frames)].reply # Waiting
      BY <3>1, <3>2, ReplyKinds DEF FrameRecords
    <3>4. QED
      BY <1>1, <2>1, <3>3
  <2>2. CASE ~(late' = late \cup Abandoned /\ Abandoned # {})
    BY <1>3, <2>2 DEF Exit
  <2>3. QED
    BY <2>1, <2>2
<1>4. CASE AppStep
  BY <1>4 DEF AppStep, AppOpens, AppNotes, AppLists, AppRefuses, AppRuns, Respond
<1>5. CASE \/ \E kind \in {"serve", "call"}, probe \in BOOLEAN : Start(kind, probe)
           \/ Receive \/ TakeAny \/ Handle
           \/ \E ok \in BOOLEAN : Tick(ok)
           \/ PullElsewhere \/ AppStops \/ AppStarts \/ Edit \/ UNCHANGED vars
  BY <1>5
     DEF Start, Receive, ReceiveInitialize, ReceiveInitialized, ReceiveList, ReceiveCall,
         HandshakeStep, TakeAny, Take, Handle, HandlePlain, HandleUnrouted,
         HandleLocal, HandleHit, Forward, Reply, Tick, PullElsewhere, AppStops, AppStarts,
         Edit, vars
<1>6. QED
  BY <1>2, <1>3, <1>4, <1>5 DEF Next

LEMMA LateCallsNext ==
    ASSUME CallInv, FramesWait, [Next]_vars
    PROVE  LateCalls'
<1>1. DOMAIN frames \subseteq DOMAIN frames'
  BY FramesKept
<1>2. CASE late' \subseteq late
  BY <1>1, <1>2 DEF CallInv, LateCalls
<1>3. CASE late' = late \cup {wire.req} /\ proc.stage = "forward"
  BY <1>1, <1>3, CallFrame DEF CallInv, LateCalls
<1>4. QED
  BY <1>2, <1>3, LateSteps

LEMMA BusyCalls ==
    ASSUME CallInv
    PROVE  /\ proc.stage \in {"handle", "forward"} => Busy
           /\ proc' = AfterCall => ~Busy'
           /\ Busy => Len(frames) \in DOMAIN frames
<1>1. proc.kind \in {"serve", "call"} \/ proc = Off
  BY DEF CallInv, WireFits, TypeOK, Process
<1>2. AfterCall.stage = "ready" /\ (AfterCall = Off \/ AfterCall.kind = "serve")
  BY AfterCallTyped DEF CallInv, TypeOK
<1>3. Busy => frames # <<>> /\ frames \in Seq(FrameRecords)
  BY DEF Busy, CallInv, WireCalls, TypeOK
<1>4. QED
  BY <1>1, <1>2, <1>3 DEF Busy, Off

\* A reply once given is never another, and who waits waits at the end.
LEMMA RepliesStay ==
    ASSUME CallInv, FramesWait, [Next]_vars
    PROVE  /\ FramesWait'
           /\ \A n \in DOMAIN frames :
                 frames[n].reply # Waiting => frames'[n].reply = frames[n].reply
<1>0. /\ frames \in Seq(FrameRecords) /\ DOMAIN frames = 1..Len(frames) /\ Len(frames) \in Nat
      /\ \A n \in DOMAIN frames : frames[n] \in FrameRecords
  BY DEF CallInv, TypeOK
<1>1. CASE frames' = frames /\ (Busy' <=> Busy)
  BY <1>1 DEF FramesWait
<1>2. ASSUME ~Busy, Busy', NEW kind \in Plain \cup {"call"}, NEW c \in Calls \cup {None},
             NewFrame(kind, c)
      PROVE  /\ FramesWait'
             /\ \A n \in DOMAIN frames : frames'[n].reply = frames[n].reply
  <2>1. /\ frames' \in Seq(FrameRecords) /\ Len(frames') = Len(frames) + 1
        /\ \A k \in 1..Len(frames) : frames'[k] = frames[k]
        /\ frames'[Len(frames')].reply = Waiting
    <3>1. frames'[Len(frames')] = [kind |-> kind, call |-> c, reply |-> Waiting]
      BY <1>0, <1>2, NewFrameTyped
    <3>2. frames'[Len(frames')].reply = Waiting
      BY <3>1
    <3>3. QED
      BY <1>0, <1>2, <3>2, NewFrameTyped
  <2>2. DOMAIN frames' = 1..(Len(frames) + 1)
    BY <2>1
  <2>3. \A k \in 1..Len(frames) : frames'[k].reply # Waiting /\ k # Len(frames) + 1
    BY <1>0, <1>2, <2>1 DEF FramesWait
  <2>4. QED
    BY <1>0, <1>2, <2>1, <2>2, <2>3 DEF FramesWait
<1>3. ASSUME proc.stage \in {"handle", "forward"}, proc' = AfterCall,
             NEW reply, Settled(Len(frames), reply)
      PROVE  /\ FramesWait'
             /\ \A n \in DOMAIN frames :
                   frames[n].reply # Waiting => frames'[n].reply = frames[n].reply
  <2>1. /\ frames' \in Seq(FrameRecords) /\ Len(frames') = Len(frames)
        /\ frames'[Len(frames)] = [frames[Len(frames)] EXCEPT !.reply = reply]
        /\ \A k \in DOMAIN frames \ {Len(frames)} : frames'[k] = frames[k]
        /\ Len(frames) \in DOMAIN frames
    BY <1>0, <1>3, SettleTyped DEF Settled
  <2>2. frames'[Len(frames)].reply # Waiting /\ DOMAIN frames' = DOMAIN frames
    BY <1>0, <1>3, <2>1 DEF Settled, FrameRecords
  <2>3. Busy /\ ~Busy' /\ frames[Len(frames)].reply = Waiting
    BY <1>3, <2>1, BusyCalls DEF FramesWait
  <2>4. QED
    BY <2>1, <2>2, <2>3 DEF FramesWait
<1>4. CASE Exit
  <2>1. ~Busy'
    BY <1>4 DEF Exit, Off, Busy
  <2>2. DOMAIN frames' = DOMAIN frames
        /\ \A n \in DOMAIN frames :
              frames'[n] = IF frames[n].reply = Waiting
                           THEN [frames[n] EXCEPT !.reply = Gone] ELSE frames[n]
    BY <1>4 DEF Exit
  <2>3. \A n \in DOMAIN frames : frames'[n].reply # Waiting
    BY <1>0, <2>2, ReplyKinds DEF FrameRecords
  <2>4. QED
    BY <2>1, <2>2, <2>3 DEF FramesWait
<1>5. QED
  BY <1>1, <1>2, <1>3, <1>4, FrameSteps

\* A response that has arrived stays until the process takes it or ends.
LEMMA ResponseStays ==
    ASSUME CallInv, proc.stage = "forward", wire.state = "back", [Next]_vars
    PROVE  ReceiveCall \/ Exit \/ (proc' = proc /\ wire' = wire)
<1>1. wire.req.method = "call" /\ proc # Off
  BY DEF CallInv, WireFits, Off
<1>2. ~ReceiveInitialize /\ ~ReceiveInitialized /\ ~ReceiveList /\ ~Unreachable
  BY <1>1 DEF ReceiveInitialize, ReceiveInitialized, ReceiveList, Received, Unreachable
<1>3. ~TakeAny /\ ~Handle
  BY DEF TakeAny, Take, Handle, HandlePlain, HandleUnrouted, HandleLocal, HandleHit, Forward,
         HandleCall, Handling
<1>4. \A kind, probe : ~Start(kind, probe)
  BY <1>1 DEF Start
<1>5. AppStep => proc' = proc /\ wire' = wire
  BY DEF AppStep, AppOpens, AppNotes, AppLists, AppRuns, AppRefuses, Respond, figmog
<1>6. QED
  BY <1>2, <1>3, <1>4, <1>5
     DEF Next, Receive, Tick, PullElsewhere, AppStops, AppStarts, Edit, figmog, vars

\* What the app runs is the call under way, or one that was given up on.
LEMMA WhoseRun ==
    ASSUME OnceInv, NEW req \in Pending, req.method = "call", NEW session, NEW m,
           Respond(req, session, m)
    PROVE  \/ /\ wire.state = "sent" /\ proc.stage = "forward" /\ req = wire.req
              /\ req.frame = Len(frames) /\ req \notin late /\ late' = late
              /\ wire'.state = "back"
              /\ \A q \in late : q.frame # req.frame
           \/ /\ req \in late /\ late' = late \ {req}
              /\ \A q \in late' : q.frame # req.frame
              /\ Busy => req.frame # Len(frames)
<1>1. CASE /\ wire.state = "sent" /\ wire.req = req /\ req \notin late
           /\ late' = late /\ wire'.state = "back"
  <2>1. proc.stage = "forward" /\ CallInv
    BY <1>1 DEF OnceInv, CallInv, WireFits, Waits
  <2>2. req.frame = Len(frames) /\ Busy /\ Len(frames) \in DOMAIN frames
    BY <1>1, <2>1, CallFrame, BusyCalls
  <2>3. frames[Len(frames)].reply = Waiting
    BY <2>2 DEF OnceInv, FramesWait
  <2>4. QED
    BY <1>1, <2>1, <2>2, <2>3 DEF OnceInv, LateOnce
<1>2. CASE req \in late /\ late' = late \ {req}
  <2>1. frames[req.frame].reply # Waiting /\ req.frame \in DOMAIN frames
    BY <1>2 DEF OnceInv, LateOnce, CallInv, LateCalls
  <2>2. Busy => req.frame # Len(frames)
    BY <2>1 DEF OnceInv, FramesWait
  <2>3. QED
    BY <1>2, <2>2 DEF OnceInv, LateOnce
<1>3. QED
  BY <1>1, <1>2, RespondEffect

LEMMA AwaitsRunNext ==
    ASSUME OnceInv, [Next]_vars
    PROVE  AwaitsRun'
<1>0. CallInv /\ FramesWait /\ AwaitsRun /\ LateOnce /\ RanAsked
      /\ frames \in Seq(FrameRecords) /\ Len(frames) \in Nat
  BY DEF OnceInv, CallInv, TypeOK
<1>1. CASE frames' = frames /\ (Busy' <=> Busy)
  <2> SUFFICES ASSUME Busy', ~(proc.stage = "forward" /\ wire.state = "back")'
               PROVE  NotRun(Len(frames))'
    BY DEF AwaitsRun
  <2>1. ~(proc.stage = "forward" /\ wire.state = "back")
    <3>1. SUFFICES ASSUME proc.stage = "forward", wire.state = "back" PROVE FALSE
      OBVIOUS
    <3>2. ReceiveCall \/ Exit
      BY <1>0, <3>1, ResponseStays
    <3>3. CASE Exit
      BY <3>3 DEF Exit, Off, Busy
    <3>4. CASE ReceiveCall
      BY <1>0, <3>4, BusyCalls DEF ReceiveCall, CallFails
    <3>5. QED
      BY <3>2, <3>3, <3>4
  <2>2. NotRun(Len(frames))
    BY <1>0, <1>1, <2>1 DEF AwaitsRun
  <2>3. CASE ran' = ran
    BY <1>1, <2>2, <2>3 DEF NotRun
  <2>4. ASSUME NEW req \in Pending, NEW r, req.method = "call", r.of = req.frame,
               ran' = ran \cup {r}, Respond(req, None, Result(r)), UNCHANGED figmog
        PROVE  NotRun(Len(frames))'
    <3>1. ~(proc.stage = "forward" /\ wire'.state = "back")
      BY <2>4 DEF figmog
    <3>2. req.frame # Len(frames)
      BY <1>1, <2>4, <3>1, WhoseRun
    <3>3. QED
      BY <1>1, <2>2, <2>4, <3>2 DEF NotRun
  <2>5. QED
    BY <1>0, <2>3, <2>4, RanSteps
<1>2. ASSUME NEW kind \in Plain \cup {"call"}, NEW c \in Calls \cup {None}, NewFrame(kind, c)
      PROVE  AwaitsRun'
  <2>1. Len(frames') = Len(frames) + 1
    BY <1>0, <1>2, NewFrameTyped
  <2>2. frames' # frames
    BY <1>0, <2>1
  <2>3. ran' = ran
    BY <1>0, <2>2, RanSteps DEF figmog
  <2>4. \A r \in ran : r.of # Len(frames')
    BY <1>0, <2>1 DEF RanAsked
  <2>5. QED
    BY <2>3, <2>4 DEF AwaitsRun, NotRun
<1>3. CASE proc' = AfterCall
  BY <1>0, <1>3, BusyCalls DEF AwaitsRun
<1>4. CASE Exit
  BY <1>4 DEF Exit, Off, Busy, AwaitsRun
<1>5. QED
  BY <1>0, <1>1, <1>2, <1>3, <1>4, FrameSteps

LEMMA LateOnceNext ==
    ASSUME OnceInv, [Next]_vars
    PROVE  LateOnce'
<1>0. CallInv /\ FramesWait /\ AwaitsRun /\ LateOnce
      /\ \A q \in late : q.frame \in DOMAIN frames /\ frames'[q.frame].reply # Waiting
  <2>1. CallInv /\ FramesWait /\ AwaitsRun /\ LateOnce
    BY DEF OnceInv
  <2>2. \A q \in late : q.frame \in DOMAIN frames /\ frames[q.frame].reply # Waiting
    BY <2>1 DEF CallInv, LateCalls, LateOnce
  <2>3. QED
    BY <2>1, <2>2, RepliesStay
<1>1. CASE late' \subseteq late
  <2>1. ASSUME NEW q \in late' PROVE NotRun(q.frame)'
    <3>1. NotRun(q.frame) /\ q \in late
      BY <1>0, <1>1, <2>1 DEF LateOnce
    <3>2. CASE ran' = ran
      BY <3>1, <3>2 DEF NotRun
    <3>3. ASSUME NEW req \in Pending, NEW r, req.method = "call", r.of = req.frame,
                 ran' = ran \cup {r}, Respond(req, None, Result(r))
          PROVE  NotRun(q.frame)'
      <4>1. q.frame # req.frame
        BY <2>1, <3>1, <3>3, WhoseRun
      <4>2. QED
        BY <3>1, <3>3, <4>1 DEF NotRun
    <3>4. QED
      BY <1>0, <3>2, <3>3, RanSteps
  <2>2. QED
    BY <1>0, <1>1, <2>1 DEF LateOnce
<1>2. ASSUME late' = late \cup {wire.req}, wire.state = "sent", proc.stage = "forward",
             frames'[Len(frames)].reply # Waiting
      PROVE  LateOnce'
  <2>1. wire.req.frame = Len(frames) /\ Len(frames) \in DOMAIN frames /\ Busy
    BY <1>0, <1>2, CallFrame, BusyCalls
  <2>2. frames[Len(frames)].reply = Waiting
    BY <1>0, <2>1 DEF FramesWait
  <2>3. ran' = ran
    BY <1>0, <1>2, <2>2, RanSteps DEF figmog
  <2>4. NotRun(Len(frames)) /\ \A q \in late : NotRun(q.frame) /\ q.frame # Len(frames)
    BY <1>0, <1>2, <2>1, <2>2 DEF AwaitsRun, LateOnce
  <2>5. \A q \in late' : frames'[q.frame].reply # Waiting /\ NotRun(q.frame)'
    BY <1>0, <1>2, <2>1, <2>3, <2>4 DEF NotRun
  <2>6. QED
    BY <1>0, <1>2, <2>1, <2>4, <2>5 DEF LateOnce
<1>3. QED
  BY <1>0, <1>1, <1>2, LateSteps

LEMMA OnceNext ==
    ASSUME OnceInv, [Next]_vars
    PROVE  OnceInv'
<1>1. CallInv /\ FramesWait
  BY DEF OnceInv
<1>2. RanAsked'
  <2>1. DOMAIN frames \subseteq DOMAIN frames'
    BY <1>1, FramesKept
  <2>2. ASSUME NEW req \in Pending, NEW r, req.method = "call", r.of = req.frame,
               ran' = ran \cup {r}
        PROVE  RanAsked'
    BY <1>1, <2>1, <2>2, PendingTyped DEF OnceInv, RanAsked
  <2>3. QED
    BY <1>1, <2>1, <2>2, RanSteps DEF OnceInv, RanAsked
<1>3. QED
  BY <1>1, <1>2, TypesNext, FitsNext, LateCallsNext, RepliesStay, AwaitsRunNext, LateOnceNext
     DEF OnceInv, CallInv

LEMMA OnceInit == Init => OnceInv
BY TypesInit DEF Init, OnceInv, FramesWait, AwaitsRun, LateOnce, RanAsked, Busy, Off

\* The app, the mirror, the cache, the process, its client, the exchange under
\* way and every frame are of the kinds declared for them, whatever the app
\* answers and whenever either is restarted.
THEOREM TypeCorrect == Spec => []TypeOK
<1>1. OnceInv => TypeOK
  BY DEF OnceInv, CallInv
<1>2. QED
  BY <1>1, OnceInit, OnceNext, PTL DEF Spec

-----------------------------------------------------------------------------
(* Answers *)

\* parse_sse_last_event, extract_result, HttpUpstream::call: the client's frame
\* is answered with the app's result exactly if that is the last message of the
\* body, and with an error otherwise.
THEOREM AnswersReachClient == Spec => AnswersArrive
<1>1. ASSUME CallInv, ReceiveCall
      PROVE  LET body == wire.reply.body
                 given == frames'[wire.req.frame].reply
             IN  \/ \E k \in DOMAIN body : Final(body, k) /\ given = body[k]
                 \/ given = Error /\ \A k \in DOMAIN body : ~Final(body, k)
  <2> DEFINE body == wire.reply.body
  <2>1. wire.state = "back" /\ proc.stage = "forward"
    BY <1>1 DEF ReceiveCall, Received, CallInv, WireFits, Waits
  <2>2. \E m : body \in Bodies(m)
    BY <1>1, <2>1 DEF CallInv, ReplyFits
  <2>3. \/ \E k \in DOMAIN body : Final(body, k) /\ Outcome(wire.reply) = body[k]
        \/ Outcome(wire.reply) = Refusal /\ \A k \in DOMAIN body : ~Final(body, k)
    BY <2>2, BodyLength, OutcomeOfReply
  <2> HIDE DEF body
  <2>4. wire.req.frame \in DOMAIN frames /\ frames[wire.req.frame] \in FrameRecords
        /\ frames \in Seq(FrameRecords)
    BY <1>1, <2>1, CallFrame
  <2>5. ASSUME NEW reply, Settle(wire.req.frame, reply) PROVE frames'[wire.req.frame].reply = reply
    BY <2>4, <2>5 DEF Settle, FrameRecords
  <2>6. CASE Outcome(wire.reply).is = "result"
    <3>1. frames'[wire.req.frame].reply = Outcome(wire.reply)
      BY <1>1, <2>5, <2>6 DEF ReceiveCall
    <3>2. Outcome(wire.reply) # Refusal
      BY <2>6 DEF Refusal, Message
    <3>3. QED
      BY <2>3, <3>1, <3>2 DEF body
  <2>7. CASE Outcome(wire.reply).is # "result"
    <3>1. frames'[wire.req.frame].reply = Error
      BY <1>1, <2>5, <2>7 DEF ReceiveCall, CallFails
    <3>2. QED
      BY <2>3, <2>7, <3>1 DEF Final, body
  <2>8. QED
    BY <2>6, <2>7
<1>2. OnceInv => CallInv
  BY DEF OnceInv
<1>3. QED
  BY <1>1, <1>2, OnceInit, OnceNext, PTL DEF Spec, AnswersArrive

-----------------------------------------------------------------------------
(* The handshake *)

\* The client holds a session that the app has opened; unless the app has
\* forgotten it, it is of the client's protocol and has got this far.
InSession(stages, listings) ==
    /\ http.session # None /\ http.session <= app.opened
    /\ LET live == app.live[http.session]
       IN  live # None =>
              live.protocol = http.protocol /\ live.stage \in stages /\ live.listed \in listings

Got == wire.state = "back" /\ Outcome(wire.reply).is = "result"

\* The session a response to initialize offers is new, and of its protocol.
Offered ==
    proc.stage = "initialize" /\ Got =>
        /\ wire.reply.session # None /\ wire.reply.session <= app.opened
        /\ LET live == app.live[wire.reply.session]
           IN  live # None =>
                 live.protocol = Outcome(wire.reply).value /\ live.stage = "opened"

\* How far the session is at each point of the handshake, and after it.
InStep ==
    /\ proc.stage = "initialized" => InSession({"opened", "notified"}, BOOLEAN)
    /\ proc.stage = "initialized" /\ wire.state = "back" => InSession({"notified"}, BOOLEAN)
    /\ proc.stage = "list" => InSession({"notified"}, BOOLEAN)
    /\ proc.stage = "list" /\ Got => InSession({"notified"}, {TRUE})
    /\ proc.attached => InSession({"notified"}, {TRUE})

\* Only the response to initialize names a session.
Named ==
    /\ proc.stage \in {"initialized", "list"} =>
          wire.req.session = http.session /\ wire.req.protocol = http.protocol
    /\ proc.stage # "initialize" /\ wire.state = "back" => wire.reply.session = None

HandInv == OnceInv /\ Offered /\ InStep /\ Named

\* The session of the client stays as far as it is, or is forgotten.
LEMMA SessionStays ==
    ASSUME TypeOK, http' = http, app'.opened \in Nat, app'.opened >= app.opened,
           http.session \in SessionIds =>
              app'.live[http.session] \in {app.live[http.session], None},
           NEW stages, NEW listings, InSession(stages, listings)
    PROVE  InSession(stages, listings)'
<1>1. http.session \in SessionIds /\ app.opened \in Nat /\ http.session \in Nat
  BY DEF InSession, TypeOK, Client, SessionIds
<1>2. QED
  BY <1>1 DEF InSession

\* A request of the handshake is the one on the wire, and its answer is awaited.
LEMMA HandshakeRequest ==
    ASSUME CallInv, NEW req \in Pending, req.method # "call"
    PROVE  /\ req = wire.req /\ wire.state = "sent" /\ req \notin late
           /\ proc.stage = req.method /\ ~proc.attached
           /\ proc.stage \in {"initialize", "initialized", "list"}
<1>1. req \notin late
  BY DEF CallInv, LateCalls
<1>2. req = wire.req /\ wire.state = "sent"
  BY <1>1 DEF Pending
<1>3. QED
  BY <1>1, <1>2 DEF CallInv, WireFits, Waits

\* The process, its client and the app as they were, the wire as it was or with
\* a response to a call.
LEMMA HandKept ==
    ASSUME HandInv, http' = http, proc' = proc,
           app' = app \/ (app.opened \in Nat /\ app'.opened = app.opened
                            /\ app'.live = [s \in SessionIds |-> None]),
           \/ wire' = wire
           \/ wire'.req = wire.req /\ wire'.state = "back" /\ wire'.reply.session = None
              /\ proc.stage = "forward"
    PROVE  Offered' /\ InStep' /\ Named'
<1>1. TypeOK /\ Offered /\ InStep /\ Named
  BY DEF HandInv, OnceInv, CallInv
<1>2. /\ app.opened \in Nat /\ app'.opened = app.opened
      /\ \A s \in SessionIds : app'.live[s] \in {app.live[s], None}
  BY <1>1 DEF TypeOK
<1>3. ASSUME NEW stages, NEW listings, InSession(stages, listings)
      PROVE  InSession(stages, listings)'
  BY <1>1, <1>2, <1>3, SessionStays
<1>4. CASE wire' = wire
  <2>1. InStep'
    BY <1>1, <1>3, <1>4 DEF InStep, Got, Outcome
  <2>2. wire.state = "back" => wire.reply.session \in SessionIds \cup {None}
    BY <1>1 DEF TypeOK
  <2>3. QED
    BY <1>1, <1>2, <1>4, <2>1, <2>2 DEF Offered, Named, Got, Outcome
<1>5. CASE /\ wire'.req = wire.req /\ wire'.state = "back" /\ wire'.reply.session = None
           /\ proc.stage = "forward"
  BY <1>1, <1>3, <1>5 DEF InStep, Offered, Named
<1>6. QED
  BY <1>4, <1>5

\* A process that is not attached, or still is, and is past the handshake.
LEMMA HandSettled ==
    ASSUME HandInv, proc'.stage \in {"ready", "handle", "forward"}, app' = app,
           proc'.attached => proc.attached /\ http' = http,
           wire'.state # "back"
    PROVE  Offered' /\ InStep' /\ Named'
<1>1. TypeOK /\ InStep /\ app.opened \in Nat
  BY DEF HandInv, OnceInv, CallInv, TypeOK
<1>2. proc'.attached => InSession({"notified"}, {TRUE})'
  BY <1>1, SessionStays DEF InStep, TypeOK
<1>3. QED
  BY <1>2 DEF Offered, InStep, Named

LEMMA HandNext ==
    ASSUME HandInv, [Next]_vars
    PROVE  Offered' /\ InStep' /\ Named'
<1>0. /\ TypeOK /\ OnceInv /\ CallInv /\ WireFits /\ Offered /\ InStep /\ Named
      /\ app.opened \in Nat
  BY DEF HandInv, OnceInv, CallInv, TypeOK
<1>1. ASSUME NEW kind \in {"serve", "call"}, NEW probe \in BOOLEAN, Start(kind, probe)
      PROVE  Offered' /\ InStep' /\ Named'
  <2>1. CASE probe
    <3>1. wire'.state = "sent" /\ proc'.stage = "initialize" /\ proc'.attached = FALSE
      BY <1>1, <2>1 DEF Start, Post
    <3>2. QED
      BY <3>1 DEF Offered, InStep, Named, Got
  <2>2. CASE ~probe
    <3>1. wire.state = "idle"
      BY <1>0, <1>1 DEF Start, WireFits, Off, Waits, TypeOK
    <3>2. /\ wire'.state = "idle" /\ proc'.attached = FALSE /\ app' = app
          /\ proc'.stage \in {"ready", "handle"}
      BY <1>1, <2>2, <3>1 DEF Start
    <3>3. QED
      BY <3>2, HandSettled
  <2>3. QED
    BY <2>1, <2>2
\* The end of a handshake that failed, and of a call.
<1>2. ASSUME proc.stage \in {"initialize", "initialized", "list"}, Detach, app' = app
      PROVE  Offered' /\ InStep' /\ Named'
  <2>1. ~proc.attached
    BY <1>0, <1>2 DEF WireFits
  <2>2. proc'.stage \in {"ready", "handle"} /\ proc'.attached = proc.attached /\ wire'.state = "idle"
    BY <1>0, <1>2, DetachTyped DEF Idle
  <2>3. QED
    BY <1>2, <2>1, <2>2, HandSettled
<1>3. ASSUME proc' = AfterCall, http' = http, app' = app, wire'.state = "idle"
      PROVE  Offered' /\ InStep' /\ Named'
  <2>1. proc'.stage = "ready" /\ (proc'.attached => proc.attached)
    BY <1>0, <1>3, AfterCallTyped DEF TypeOK, Off
  <2>2. QED
    BY <1>3, <2>1, HandSettled
<1>4. CASE ReceiveInitialize
  <2>1. wire.state = "back" /\ proc.stage = "initialize" /\ app' = app
    BY <1>0, <1>4 DEF ReceiveInitialize, Received, HandshakeStep, WireFits, Waits
  <2>2. CASE Got
    <3> DEFINE m == Outcome(wire.reply)
               client == [Captured(wire.reply) EXCEPT !.protocol = m.value]
    <3>1. Continue(client, "initialized")
      BY <1>4, <2>2 DEF ReceiveInitialize, Got
    <3>2. /\ wire.reply.session \in SessionIds /\ Captured(wire.reply) \in Client
          /\ Captured(wire.reply).session = wire.reply.session
      BY <1>0, <2>1, <2>2, CapturedTyped DEF Offered, TypeOK
    <3>3. m.value \in Protocols
      BY <1>0, <1>4, <2>1, <2>2, OutcomeFits
         DEF CallInv, ReceiveInitialize, Received, ResultFits, Got
    <3>4. /\ client \in Client /\ client.session = wire.reply.session
          /\ client.protocol = m.value
      BY <3>2, <3>3 DEF Client
    <3>5. /\ http' = client /\ proc'.stage = "initialized" /\ proc'.attached = proc.attached
          /\ wire'.state = "sent" /\ wire'.req = Request(client, "initialized", 0)
      BY <1>0, <3>1, <3>4, ContinueTyped
    <3>6. wire'.req.session = client.session /\ wire'.req.protocol = client.protocol
      BY <3>5 DEF Request
    <3>7. ~proc.attached
      BY <1>0, <2>1 DEF WireFits
    <3>8. InSession({"opened", "notified"}, BOOLEAN)'
      <4>1. /\ wire.reply.session # None /\ wire.reply.session <= app.opened
            /\ LET live == app.live[wire.reply.session]
               IN  live # None => live.protocol = m.value /\ live.stage = "opened"
        BY <1>0, <2>1, <2>2 DEF Offered
      <4>2. LET live == app.live[wire.reply.session] IN live # None => live.listed \in BOOLEAN
        BY <1>0, <3>2 DEF TypeOK, Session
      <4>3. http'.session = wire.reply.session /\ http'.protocol = m.value
        BY <3>4, <3>5
      <4>4. QED
        BY <2>1, <4>1, <4>2, <4>3 DEF InSession
    <3>9. QED
      BY <3>5, <3>6, <3>7, <3>8 DEF Offered, InStep, Named
  <2>3. CASE ~Got
    BY <1>2, <1>4, <2>1, <2>3 DEF ReceiveInitialize, Got
  <2>4. QED
    BY <2>2, <2>3
<1>5. CASE ReceiveInitialized
  <2>1. /\ wire.state = "back" /\ proc.stage = "initialized" /\ app' = app
        /\ wire.reply.session = None
    BY <1>0, <1>5 DEF ReceiveInitialized, Received, HandshakeStep, WireFits, Waits, Named
  <2>2. CASE ~Detach
    <3>1. Captured(wire.reply) = http /\ http \in Client
      BY <1>0, <2>1 DEF Captured, TypeOK
    <3>2. Continue(http, "list")
      BY <1>5, <2>2, <3>1 DEF ReceiveInitialized
    <3>3. /\ http' = http /\ proc'.stage = "list" /\ proc'.attached = proc.attached
          /\ wire'.state = "sent" /\ wire'.req = Request(http, "list", 0)
      BY <1>0, <3>1, <3>2, ContinueTyped
    <3>4. wire'.req.session = http.session /\ wire'.req.protocol = http.protocol
      BY <3>3 DEF Request
    <3>5. ~proc.attached
      BY <1>0, <2>1 DEF WireFits
    <3>6. InSession({"notified"}, BOOLEAN)'
      BY <1>0, <2>1, <3>3, SessionStays DEF InStep, TypeOK
    <3>7. QED
      BY <3>3, <3>4, <3>5, <3>6 DEF Offered, InStep, Named, Got
  <2>3. QED
    BY <1>2, <2>1, <2>2
<1>6. CASE ReceiveList
  <2>1. /\ wire.state = "back" /\ proc.stage = "list" /\ app' = app
        /\ wire.reply.session = None
    BY <1>0, <1>6 DEF ReceiveList, Received, HandshakeStep, WireFits, Waits, Named
  <2>2. CASE Got
    <3>1. Captured(wire.reply) = http
      BY <2>1 DEF Captured
    <3>2. /\ http'.session = http.session /\ http'.protocol = http.protocol
          /\ proc'.stage = AfterHandshake /\ wire' = Idle
      BY <1>0, <1>6, <2>2, <3>1 DEF ReceiveList, Got, TypeOK, Client, Process
    <3>3. InSession({"notified"}, {TRUE})'
      BY <1>0, <2>1, <2>2, <3>2 DEF InStep, InSession
    <3>4. proc'.stage \in {"ready", "handle"} /\ wire'.state = "idle"
      BY <3>2 DEF AfterHandshake, Idle
    <3>5. QED
      BY <3>3, <3>4 DEF Offered, InStep, Named
  <2>3. CASE ~Got
    BY <1>2, <1>6, <2>1, <2>3 DEF ReceiveList, Got
  <2>4. QED
    BY <2>2, <2>3
<1>7. CASE ReceiveCall
  <2>1. wire.state = "back" /\ proc.stage = "forward"
    BY <1>0, <1>7 DEF ReceiveCall, Received, WireFits, Waits
  <2>2. http' = http
    BY <1>0, <1>7, <2>1 DEF ReceiveCall, Captured, Named
  <2>3. proc' = AfterCall /\ wire' = Idle /\ app' = app
    BY <1>7 DEF ReceiveCall, CallFails
  <2>4. QED
    BY <1>3, <2>2, <2>3 DEF Idle
<1>8. CASE Unreachable
  <2>1. CASE wire.req.method = "call"
    BY <1>3, <1>8, <2>1 DEF Unreachable, CallFails, Idle
  <2>2. CASE wire.req.method # "call"
    <3>1. proc.stage \in {"initialize", "initialized", "list"}
      BY <1>0, <1>8, <2>2 DEF Unreachable, WireFits, Waits
    <3>2. QED
      BY <1>2, <1>8, <2>2, <3>1 DEF Unreachable, HandshakeFails
  <2>3. QED
    BY <2>1, <2>2
\* The process at its frames.
<1>9. ASSUME proc.stage \in {"ready", "handle"} PROVE wire.state = "idle"
  BY <1>0, <1>9 DEF WireFits, Waits, TypeOK
<1>10. CASE TakeAny
  <2>1. proc.stage = "ready" /\ proc' = [proc EXCEPT !.stage = "handle"] /\ wire' = wire
        /\ http' = http /\ app' = app
    BY <1>10 DEF TakeAny, Take
  <2>2. proc'.stage = "handle" /\ proc'.attached = proc.attached
    BY <1>0, <2>1 DEF TypeOK, Process
  <2>3. QED
    BY <1>9, <2>1, <2>2, HandSettled
<1>11. CASE HandlePlain \/ \E c \in Calls : HandleUnrouted(c) \/ HandleLocal(c) \/ HandleHit(c)
  BY <1>3, <1>9, <1>11
     DEF HandlePlain, HandleUnrouted, HandleLocal, HandleHit, HandleCall, Handling, Reply
<1>12. ASSUME NEW c \in Calls, Forward(c) PROVE Offered' /\ InStep' /\ Named'
  <2>1. proc' = [proc EXCEPT !.stage = "forward"] /\ wire'.state = "sent"
        /\ http' = http /\ app' = app
    BY <1>12 DEF Forward, Post
  <2>2. proc'.stage = "forward" /\ proc'.attached = proc.attached
    BY <1>0, <2>1 DEF TypeOK, Process
  <2>3. QED
    BY <2>1, <2>2, HandSettled
<1>13. CASE Exit
  <2>1. proc'.stage = "ready" /\ ~proc'.attached /\ wire'.state = "idle" /\ app' = app
    BY <1>13 DEF Exit, Off, Idle
  <2>2. QED
    BY <2>1, HandSettled
\* The app.
<1>14. ASSUME NEW req \in Pending, AppOpens(req) PROVE Offered' /\ InStep' /\ Named'
  <2>1. /\ req = wire.req /\ wire.state = "sent" /\ req \notin late
        /\ proc.stage = "initialize" /\ ~proc.attached /\ req.method = "initialize"
    BY <1>0, <1>14, HandshakeRequest DEF AppOpens, Serves
  <2>2. PICK p \in Protocols :
          /\ app' = [app EXCEPT !.opened = app.opened + 1, !.live[app.opened + 1] =
                        [protocol |-> p, stage |-> "opened", listed |-> FALSE]]
          /\ Respond(req, app.opened + 1, Result(p))
    BY <1>14 DEF AppOpens
  <2>3. /\ wire'.state = "back" /\ wire'.reply.session = app.opened + 1
        /\ wire'.reply.body \in Bodies(Result(p)) /\ proc' = proc
    BY <1>14, <2>1, <2>2, RespondEffect DEF AppOpens, figmog
  <2>4. app'.opened = app.opened + 1 /\ app.opened + 1 \in SessionIds
    BY <1>0, <1>14, <2>2, ConstantTypes DEF AppOpens, TypeOK, SessionIds
  <2>5. app'.live[app.opened + 1] = [protocol |-> p, stage |-> "opened", listed |-> FALSE]
    BY <1>0, <2>2, <2>4 DEF TypeOK
  <2>6. Outcome(wire'.reply) \in {Result(p), Refusal}
    BY <2>3, OutcomeOfBody
  <2>7. Got' => Outcome(wire'.reply).value = p
    BY <2>6 DEF Got, Result, Refusal, Message
  <2>8. Offered'
    BY <2>3, <2>4, <2>5, <2>7, ConstantTypes DEF Offered, SessionIds
  <2>9. InStep' /\ Named'
    BY <2>1, <2>3 DEF InStep, Named
  <2>10. QED
    BY <2>8, <2>9
<1>15. ASSUME NEW req \in Pending, AppNotes(req) PROVE Offered' /\ InStep' /\ Named'
  <2>1. /\ req = wire.req /\ wire.state = "sent" /\ req \notin late
        /\ proc.stage = "initialized" /\ ~proc.attached
    BY <1>0, <1>15, HandshakeRequest DEF AppNotes, Serves
  <2>2. PICK message \in {Junk, Refusal} : Respond(req, None, message)
    BY <1>15 DEF AppNotes
  <2>3. /\ wire'.state = "back" /\ wire'.reply.session = None /\ wire'.req = req
        /\ proc' = proc /\ http' = http
    BY <1>15, <2>1, <2>2, RespondEffect DEF AppNotes, figmog
  <2>4. req.session = http.session /\ http.session \in SessionIds
    BY <1>0, <1>15, <2>1 DEF Named, AppNotes, Known, TypeOK, Client
  <2>5. /\ app.live[http.session] \in Session
        /\ app' = [app EXCEPT !.live[http.session].stage = "notified"]
    BY <1>0, <1>15, <2>4 DEF AppNotes, Known, TypeOK
  <2>6. /\ app'.opened = app.opened
        /\ app'.live[http.session] = [app.live[http.session] EXCEPT !.stage = "notified"]
    BY <1>0, <2>4, <2>5 DEF TypeOK
  <2>7. /\ app'.live[http.session].protocol = app.live[http.session].protocol
        /\ app'.live[http.session].stage = "notified"
        /\ app'.live[http.session].listed \in BOOLEAN
        /\ app.live[http.session] # None
    BY <1>0, <1>15, <2>4, <2>5, <2>6 DEF Session, AppNotes, Known
  <2>8. InSession({"opened", "notified"}, BOOLEAN)' /\ InSession({"notified"}, BOOLEAN)'
    BY <1>0, <2>1, <2>3, <2>6, <2>7 DEF InStep, InSession
  <2>9. QED
    BY <1>0, <2>1, <2>3, <2>8 DEF InStep, Offered, Named
<1>16. ASSUME NEW req \in Pending, AppLists(req) PROVE Offered' /\ InStep' /\ Named'
  <2>1. /\ req = wire.req /\ wire.state = "sent" /\ req \notin late
        /\ proc.stage = "list" /\ ~proc.attached
    BY <1>0, <1>16, HandshakeRequest DEF AppLists, Serves
  <2>2. PICK tools \in ToolLists : Respond(req, None, Result(tools))
    BY <1>16 DEF AppLists
  <2>3. /\ wire'.state = "back" /\ wire'.reply.session = None /\ wire'.req = req
        /\ proc' = proc /\ http' = http
    BY <1>16, <2>1, <2>2, RespondEffect DEF AppLists, figmog
  <2>4. req.session = http.session /\ http.session \in SessionIds
    BY <1>0, <1>16, <2>1 DEF Named, AppLists, Known, TypeOK, Client
  <2>5. /\ app.live[http.session] \in Session
        /\ app' = [app EXCEPT !.live[http.session].listed = TRUE]
    BY <1>0, <1>16, <2>4 DEF AppLists, Known, TypeOK
  <2>6. /\ app'.opened = app.opened
        /\ app'.live[http.session] = [app.live[http.session] EXCEPT !.listed = TRUE]
    BY <1>0, <2>4, <2>5 DEF TypeOK
  <2>7. /\ app'.live[http.session].protocol = app.live[http.session].protocol
        /\ app'.live[http.session].stage = app.live[http.session].stage
        /\ app'.live[http.session].listed = TRUE
        /\ app.live[http.session] # None
    BY <1>0, <1>16, <2>4, <2>5, <2>6 DEF Session, AppLists, Known
  <2>8. InSession({"notified"}, {TRUE})' /\ InSession({"notified"}, BOOLEAN)'
    BY <1>0, <2>1, <2>3, <2>6, <2>7 DEF InStep, InSession
  <2>9. QED
    BY <1>0, <2>1, <2>3, <2>8 DEF InStep, Offered, Named
<1>17. ASSUME NEW req \in Pending, NEW ok \in BOOLEAN, AppRuns(req, ok)
       PROVE  Offered' /\ InStep' /\ Named'
  <2>1. PICK message : Respond(req, None, message)
    BY <1>17 DEF AppRuns
  <2>2. proc' = proc /\ http' = http /\ app' = app /\ req.method = "call"
    BY <1>17 DEF AppRuns, Serves, figmog
  <2>3. wire.state = "sent" /\ wire.req = req => proc.stage = "forward"
    BY <1>0, <2>2 DEF WireFits, Waits
  <2>4. QED
    BY <2>1, <2>2, <2>3, RespondEffect, HandKept
<1>18. ASSUME NEW req \in Pending, AppRefuses(req) PROVE Offered' /\ InStep' /\ Named'
  <2>1. Respond(req, None, Refusal) /\ proc' = proc /\ http' = http /\ app' = app
    BY <1>18 DEF AppRefuses, figmog
  <2>2. CASE req.method = "call"
    <3>1. wire.state = "sent" /\ wire.req = req => proc.stage = "forward"
      BY <1>0, <2>2 DEF WireFits, Waits
    <3>2. QED
      BY <2>1, <3>1, RespondEffect, HandKept
  <2>3. CASE req.method # "call"
    <3>1. /\ req = wire.req /\ wire.state = "sent" /\ req \notin late
          /\ proc.stage = req.method /\ ~proc.attached
          /\ proc.stage \in {"initialize", "initialized", "list"}
      BY <1>0, <2>3, HandshakeRequest
    <3>2. /\ wire'.state = "back" /\ wire'.reply.session = None /\ wire'.req = req
          /\ wire'.reply.body \in Bodies(Refusal)
      BY <2>1, <3>1, RespondEffect
    <3>3. ~Got'
      <4>1. Refusal.is # "result"
        BY DEF Refusal, Message
      <4>2. Outcome(wire'.reply) = Refusal
        BY <3>2, <4>1, OutcomeOfBody
      <4>3. QED
        BY <4>1, <4>2 DEF Got
    <3>4. proc.stage = "initialized" => InSession({"notified"}, BOOLEAN)
      <4>1. SUFFICES ASSUME proc.stage = "initialized" PROVE InSession({"notified"}, BOOLEAN)
        OBVIOUS
      <4>2. /\ InSession({"opened", "notified"}, BOOLEAN)
            /\ req.session = http.session /\ req.protocol = http.protocol
        BY <1>0, <3>1, <4>1 DEF InStep, Named
      <4>3. ~Known(req)
        BY <1>18, <3>1, <4>1 DEF AppRefuses
      <4>4. app.live[http.session] = None
        BY <4>2, <4>3 DEF Known, InSession
      <4>5. QED
        BY <4>2, <4>4 DEF InSession
    <3>5. ASSUME NEW stages, NEW listings, InSession(stages, listings)
          PROVE  InSession(stages, listings)'
      BY <1>0, <2>1, <3>5, SessionStays DEF TypeOK
    <3>6. QED
      BY <1>0, <2>1, <3>1, <3>2, <3>3, <3>4, <3>5 DEF InStep, Offered, Named
  <2>4. QED
    BY <2>2, <2>3
<1>19. CASE AppStops \/ AppStarts
  <2>1. proc' = proc /\ http' = http /\ wire' = wire
    BY <1>19 DEF AppStops, AppStarts, figmog
  <2>2. app'.opened = app.opened
    BY <1>0, <1>19 DEF AppStops, AppStarts, TypeOK
  <2>3. CASE AppStops
    <3>1. app'.live = [s \in SessionIds |-> None]
      BY <1>0, <2>3 DEF AppStops, TypeOK
    <3>2. QED
      BY <1>0, <2>1, <2>2, <3>1, HandKept
  <2>4. CASE AppStarts
    <3>1. app'.live = app.live
      BY <1>0, <2>4 DEF AppStarts, TypeOK
    <3>2. ASSUME NEW stages, NEW listings, InSession(stages, listings)
          PROVE  InSession(stages, listings)'
      BY <2>1, <2>2, <3>1, <3>2 DEF InSession
    <3>3. QED
      BY <1>0, <2>1, <2>2, <3>1, <3>2 DEF InStep, Offered, Named, Got, Outcome
  <2>5. QED
    BY <1>19, <2>3, <2>4
<1>20. CASE \/ \E ok \in BOOLEAN : Tick(ok)
            \/ PullElsewhere \/ Edit \/ UNCHANGED vars
  BY <1>20, HandKept DEF Tick, PullElsewhere, Edit, figmog, vars
<1>21. QED
  BY <1>1, <1>4, <1>5, <1>6, <1>7, <1>8, <1>10, <1>11, <1>12, <1>13, <1>14, <1>15, <1>16,
     <1>17, <1>18, <1>19, <1>20
     DEF Next, Receive, Handle, AppStep

\* initialize, post: a process that lists the app's tools holds a session in
\* which the handshake was completed and the tools were listed, with the version
\* agreed on in it, or one the app has forgotten since; never one of another
\* handshake, and never a session half made.
THEOREM AttachedIsWhole == Spec => []HandshakeWhole
<1>1. Init => HandInv
  BY OnceInit DEF HandInv, Init, Offered, InStep, Named, Off, Idle, Got
<1>2. HandInv /\ [Next]_vars => HandInv'
  BY OnceNext, HandNext DEF HandInv
<1>3. HandInv => HandshakeWhole
  <2> SUFFICES ASSUME HandInv, proc.attached
               PROVE  /\ http.session # None
                      /\ app.live[http.session] \in
                            {None, [protocol |-> http.protocol, stage |-> "notified", listed |-> TRUE]}
    BY DEF HandshakeWhole
  <2>1. InSession({"notified"}, {TRUE}) /\ TypeOK
    BY DEF HandInv, InStep, OnceInv, CallInv
  <2>2. http.session \in SessionIds
    BY <2>1 DEF InSession, TypeOK, Client
  <2>3. app.live[http.session] \in Session \cup {None}
    BY <2>1, <2>2 DEF TypeOK
  <2>4. QED
    BY <2>1, <2>3 DEF InSession, Session
<1>4. QED
  BY <1>1, <1>2, <1>3, PTL DEF Spec

-----------------------------------------------------------------------------
(* The promise of ToolCalls: every call carried out once at most, and       *)
(* answered with what the app answered to it or to an earlier and equal     *)
(* call that succeeded                                                      *)

-----------------------------------------------------------------------------
(* The rows of the cache *)

\* A row holds what the app answered, with success, to its call, which may be
\* answered from the cache and is filed under its own hash.
RowFiled(h) ==
    LET row == cache[h]
    IN  row # None =>
            /\ row.call \in Cacheable /\ CacheKey[row.call] = h
            /\ row.result \in ran /\ row.result.ok
            /\ frames[row.result.of].call = row.call

RowsFiled == \A h \in Hashes : RowFiled(h)

\* What a step does to the cache.
LEMMA CacheSteps ==
    ASSUME [Next]_vars
    PROVE  \/ cache' = cache
           \/ EvictStale(cloud) /\ mirror' = cloud /\ cloud' = cloud
           \/ /\ ReceiveCall /\ Outcome(wire.reply).is = "result"
              /\ StoreResult(frames[wire.req.frame].call, Outcome(wire.reply).value)
BY DEF Next, Start, Receive, ReceiveInitialize, ReceiveInitialized, ReceiveList, ReceiveCall,
       HandshakeStep, Unreachable, TakeAny, Take, Handle, HandlePlain, HandleUnrouted,
       HandleLocal, HandleHit, Forward, Reply, Tick, Exit, PullElsewhere, AppStep, AppOpens,
       AppNotes, AppLists, AppRuns, AppRefuses, AppStops, AppStarts, Edit, vars, figmog

\* The call under way and the result that has come back for it.
LEMMA ResultOfCall ==
    ASSUME CallInv, ReceiveCall, Outcome(wire.reply).is = "result"
    PROVE  LET m == Outcome(wire.reply)
           IN  /\ m = Result(m.value) /\ m.value \in ran /\ m.value.of = wire.req.frame
               /\ wire.req.frame = Len(frames) /\ Len(frames) \in DOMAIN frames
               /\ frames[Len(frames)].call \in Calls
<1>1. wire.state = "back" /\ wire.req.method = "call"
  BY DEF ReceiveCall, Received
<1>2. proc.stage = "forward"
  BY <1>1 DEF CallInv, WireFits, Waits
<1>3. LET m == Outcome(wire.reply) IN m = Result(m.value) /\ ResultFits(wire.req, m.value)
  BY <1>1, OutcomeFits DEF CallInv
<1>4. QED
  BY <1>1, <1>2, <1>3, CallFrame DEF ResultFits

LEMMA RowsNext ==
    ASSUME OnceInv, RowsFiled, [Next]_vars
    PROVE  RowsFiled'
<1>1. CallInv /\ RanAsked /\ cache \in [Hashes -> Rows \cup {None}]
  BY DEF OnceInv, CallInv, TypeOK
<1>2. ran \subseteq ran'
  BY <1>1, RanSteps
<1>3. \A r \in ran : frames'[r.of].call = frames[r.of].call
  BY <1>1, FramesKept DEF RanAsked
\* A row that stays is still filed.
<1>4. ASSUME NEW h \in Hashes, cache'[h] = cache[h] PROVE RowFiled(h)'
  BY <1>2, <1>3, <1>4 DEF RowsFiled, RowFiled
<1>5. CASE cache' = cache
  BY <1>4, <1>5 DEF RowsFiled
<1>6. CASE EvictStale(cloud)
  <2>1. ASSUME NEW h \in Hashes PROVE cache'[h] = cache[h] \/ cache'[h] = None
    BY <1>6 DEF EvictStale
  <2>2. QED
    BY <1>4, <2>1 DEF RowsFiled, RowFiled
<1>7. CASE /\ ReceiveCall /\ Outcome(wire.reply).is = "result"
           /\ StoreResult(frames[wire.req.frame].call, Outcome(wire.reply).value)
  <2> DEFINE c == frames[Len(frames)].call
             r == Outcome(wire.reply).value
  <2>1. /\ r \in ran /\ r.of = Len(frames) /\ c \in Calls /\ wire.req.frame = Len(frames)
    BY <1>1, <1>7, ResultOfCall
  <2>2. cache' = cache
        \/ /\ c \in Cacheable /\ r.ok
           /\ cache' = [cache EXCEPT ![CacheKey[c]] = [call |-> c, tag |-> mirror, result |-> r]]
    BY <1>7, <2>1 DEF StoreResult
  <2>3. CASE /\ c \in Cacheable /\ r.ok
             /\ cache' = [cache EXCEPT ![CacheKey[c]] = [call |-> c, tag |-> mirror, result |-> r]]
    <3>1. ASSUME NEW h \in Hashes, h # CacheKey[c] PROVE RowFiled(h)'
      BY <1>4, <2>3, <3>1
    <3>2. ASSUME NEW h \in Hashes, h = CacheKey[c] PROVE RowFiled(h)'
      <4>1. cache'[h] = [call |-> c, tag |-> mirror, result |-> r]
        BY <1>1, <2>3, <3>2
      <4>2. cache'[h].call = c /\ cache'[h].result = r
        BY <4>1
      <4>3. Cacheable' = Cacheable
        BY DEF Cacheable
      <4>4. frames'[r.of].call = c
        BY <1>3, <2>1
      <4>5. QED
        BY <1>2, <2>1, <2>3, <3>2, <4>2, <4>3, <4>4 DEF RowFiled
    <3>3. QED
      BY <3>1, <3>2 DEF RowsFiled
  <2>4. QED
    BY <1>5, <2>2, <2>3
<1>8. QED
  BY <1>5, <1>6, <1>7, CacheSteps

-----------------------------------------------------------------------------
(* The promise *)

AnsweredInv == OnceInv /\ RowsFiled

LEMMA AnswersOf ==
    /\ AnswerOf(Waiting) = None
    /\ \A m \in {Silent, Listed, Mirror, Error, Gone} : AnswerOf(m) = Own
    /\ \A reply : reply # Waiting /\ reply.is # "result" => AnswerOf(reply) = Own
    /\ \A value : AnswerOf(Result(value)) = value
BY ReplyKinds DEF AnswerOf, Result, Message

\* The frames seen as calls asked and answers given.
LEMMA SeenAs ==
    ASSUME frames \in Seq(FrameRecords)
    PROVE  /\ DOMAIN Asked = DOMAIN frames /\ DOMAIN Answers = DOMAIN frames
           /\ Len(Asked) = Len(frames) /\ Len(Answers) = Len(frames)
           /\ \A n \in DOMAIN frames : /\ Asked[n] = frames[n].call
                                       /\ Answers[n] = AnswerOf(frames[n].reply)
<1>1. DOMAIN frames = 1..Len(frames) /\ Len(frames) \in Nat
  OBVIOUS
<1>2. QED
  BY <1>1 DEF Asked, Answers

\* What a process that may answer from the app answers is the app's answer.
LEMMA AnswerIsFor ==
    ASSUME AnsweredInv, Len(frames) \in DOMAIN frames, NEW reply, reply # Waiting,
           FromApp(reply)
    PROVE  AnswerOf(reply) \in {Own} \cup TC!AnswersFor(Len(frames))
<1>0. CallInv /\ RowsFiled /\ RanAsked /\ frames \in Seq(FrameRecords)
  BY DEF AnsweredInv, OnceInv, CallInv, TypeOK
<1>1. CASE reply.is # "result"
  BY <1>1, AnswersOf
<1>2. CASE ReceiveCall /\ Outcome(wire.reply).is = "result" /\ reply = Outcome(wire.reply)
  BY <1>0, <1>2, ResultOfCall, AnswersOf DEF TC!AnswersFor
<1>3. ASSUME NEW c \in Calls, HandleHit(c), reply = Result(cache[CacheKey[c]].result)
      PROVE  AnswerOf(reply) \in TC!AnswersFor(Len(frames))
  <2> DEFINE row == cache[CacheKey[c]]
  <2>1. /\ frames[Len(frames)].call = c /\ c \in Cacheable /\ row # None /\ row.call = c
    BY <1>3 DEF HandleHit, HandleCall, Hit, This
  <2>2. /\ row.result \in ran /\ row.result.ok /\ frames[row.result.of].call = c
        /\ row.result.of \in DOMAIN frames
    BY <1>0, <2>1, ConstantTypes DEF RowsFiled, RowFiled, RanAsked
  <2>3. Asked[Len(frames)] = c /\ Asked[row.result.of] = c
    BY <1>0, <2>1, <2>2, SeenAs
  <2>4. AnswerOf(reply) = row.result
    BY <1>3, AnswersOf
  <2>5. QED
    BY <2>1, <2>2, <2>3, <2>4 DEF TC!AnswersFor
<1>4. QED
  BY <1>1, <1>2, <1>3 DEF FromApp

\* A reply to a frame is an answer to its call.
LEMMA StepAnswers ==
    ASSUME frames \in Seq(FrameRecords), NEW n \in DOMAIN frames, frames[n].reply = Waiting,
           NEW reply \in Replies, Settle(n, reply), ran' = ran,
           AnswerOf(reply) \in {Own} \cup TC!AnswersFor(n)
    PROVE  TC!Answer(n)
<1>1. /\ frames' \in Seq(FrameRecords) /\ DOMAIN frames' = DOMAIN frames
      /\ frames[n] \in FrameRecords
      /\ frames'[n] = [frames[n] EXCEPT !.reply = reply]
      /\ \A k \in DOMAIN frames \ {n} : frames'[k] = frames[k]
  BY SettleTyped
<1>2. frames'[n].reply = reply /\ frames'[n].call = frames[n].call
  BY <1>1 DEF FrameRecords
<1>3. Asked' = Asked
  BY <1>1, <1>2 DEF Asked
<1>4. Answers' = [Answers EXCEPT ![n] = AnswerOf(reply)]
  BY <1>1, <1>2 DEF Answers
<1>5. Answers[n] = None
  BY AnswersOf DEF Answers
<1>6. QED
  BY <1>3, <1>4, <1>5 DEF TC!Answer

LEMMA StepRefines ==
    ASSUME AnsweredInv, [Next]_vars
    PROVE  [TC!Next]_TC!vars
<1>0. /\ OnceInv /\ CallInv /\ FramesWait /\ AwaitsRun /\ LateOnce /\ RanAsked
      /\ frames \in Seq(FrameRecords) /\ DOMAIN frames = 1..Len(frames) /\ Len(frames) \in Nat
      /\ DOMAIN Asked = DOMAIN frames
  BY SeenAs DEF AnsweredInv, OnceInv, CallInv, TypeOK
<1>1. ASSUME frames' = frames PROVE Asked' = Asked /\ Answers' = Answers
  BY <1>1 DEF Asked, Answers
<1>2. CASE frames' = frames /\ ran' = ran
  BY <1>1, <1>2 DEF TC!vars
<1>3. ASSUME NEW req \in Pending, NEW r, req.method = "call", r.of = req.frame,
             ran' = ran \cup {r}, Respond(req, None, Result(r)), UNCHANGED figmog
      PROVE  TC!Next
  <2>1. req.frame \in DOMAIN Asked
    BY <1>0, <1>3, PendingTyped
  <2>2. NotRun(req.frame)
    BY <1>0, <1>3, WhoseRun, BusyCalls DEF AwaitsRun, LateOnce
  <2>3. TC!Run(req.frame)
    BY <1>1, <1>3, <2>2 DEF TC!Run, NotRun, figmog
  <2>4. QED
    BY <2>1, <2>3 DEF TC!Next
<1>4. ASSUME frames' # frames PROVE ran' = ran
  BY <1>0, <1>4, RanSteps DEF figmog
<1>5. ASSUME NEW kind \in Plain \cup {"call"}, NEW c \in Calls \cup {None}, NewFrame(kind, c)
      PROVE  TC!Next
  <2>1. /\ frames' \in Seq(FrameRecords) /\ Len(frames') = Len(frames) + 1
        /\ \A k \in 1..Len(frames) : frames'[k] = frames[k]
        /\ frames'[Len(frames')] = [kind |-> kind, call |-> c, reply |-> Waiting]
    BY <1>0, <1>5, NewFrameTyped
  <2>2. ran' = ran
    BY <1>0, <1>4, <2>1
  <2>3. DOMAIN frames' = 1..(Len(frames) + 1)
    BY <2>1
  <2>4. Len(Asked') = Len(Asked) + 1 /\ SubSeq(Asked', 1, Len(Asked)) = Asked
    <3>1. /\ Asked = [k \in 1..Len(frames) |-> frames[k].call] /\ Len(Asked) = Len(frames)
      BY <1>0, SeenAs DEF Asked
    <3>2. /\ Asked' = [k \in 1..(Len(frames) + 1) |-> frames'[k].call]
          /\ Len(Asked') = Len(frames) + 1
      BY <1>0, <2>3 DEF Asked
    <3>3. SubSeq(Asked', 1, Len(Asked)) = [k \in 1..Len(frames) |-> Asked'[k]]
      BY <1>0, <3>1, <3>2
    <3>4. \A k \in 1..Len(frames) : Asked'[k] = Asked[k]
      BY <1>0, <2>1, <3>1, <3>2
    <3>5. QED
      BY <1>0, <3>1, <3>2, <3>3, <3>4
  <2>5. Answers' = Append(Answers, None)
    <3>1. /\ Answers = [k \in 1..Len(frames) |-> AnswerOf(frames[k].reply)]
          /\ Len(Answers) = Len(frames)
      BY <1>0, SeenAs DEF Answers
    <3>2. Answers' = [k \in 1..(Len(frames) + 1) |-> AnswerOf(frames'[k].reply)]
      BY <2>3 DEF Answers
    <3>3. Answers'[Len(frames) + 1] = None
      BY <1>0, <2>1, <3>2, AnswersOf
    <3>4. \A k \in 1..Len(frames) : Answers'[k] = Answers[k]
      BY <1>0, <2>1, <3>1, <3>2
    <3> DEFINE S == {AnswerOf(frames[k].reply) : k \in 1..Len(frames)} \cup {None}
    <3>5. Answers \in Seq(S) /\ None \in S
      BY <1>0, <3>1
    <3> HIDE DEF S
    <3>6. /\ Append(Answers, None) \in Seq(S)
          /\ Len(Append(Answers, None)) = Len(frames) + 1
          /\ Append(Answers, None)[Len(frames) + 1] = None
          /\ \A k \in 1..Len(frames) : Append(Answers, None)[k] = Answers[k]
      BY <3>1, <3>5, AppendProperties
    <3>7. Append(Answers, None) = [k \in 1..(Len(frames) + 1) |-> Append(Answers, None)[k]]
      <4> DEFINE longer == Append(Answers, None)
      <4>1. longer \in Seq(S) /\ Len(longer) = Len(frames) + 1
        BY <3>6
      <4> HIDE DEF longer
      <4>2. longer \in [1..(Len(frames) + 1) -> S]
        BY <4>1
      <4>3. longer = [k \in 1..(Len(frames) + 1) |-> longer[k]]
        BY <4>2
      <4>4. QED
        BY <4>3 DEF longer
    <3>8. \A k \in 1..(Len(frames) + 1) : Answers'[k] = Append(Answers, None)[k]
      BY <1>0, <3>3, <3>4, <3>6
    <3>9. QED
      BY <3>2, <3>7, <3>8
  <2>6. QED
    BY <2>2, <2>4, <2>5 DEF TC!Next, TC!Ask
<1>6. ASSUME proc.stage \in {"handle", "forward"},
             NEW reply, Settled(Len(frames), reply), FromApp(reply)
      PROVE  [TC!Next]_TC!vars
  <2>1. Len(frames) \in DOMAIN frames /\ reply \in Replies /\ reply # Waiting
    BY <1>6 DEF Settled
  <2>2. frames[Len(frames)].reply = Waiting
    BY <1>0, <1>6, <2>1, BusyCalls DEF FramesWait
  <2>3. AnswerOf(reply) \in {Own} \cup TC!AnswersFor(Len(frames))
    BY <1>6, <2>1, AnswerIsFor
  <2>4. frames' # frames
    <3>1. frames'[Len(frames)] = [frames[Len(frames)] EXCEPT !.reply = reply]
          /\ frames[Len(frames)] \in FrameRecords
      BY <1>0, <1>6, <2>1, SettleTyped DEF Settled
    <3>2. frames'[Len(frames)].reply = reply
      BY <3>1 DEF FrameRecords
    <3>3. QED
      BY <2>1, <2>2, <3>2
  <2>5. TC!Answer(Len(frames))
    BY <1>0, <1>4, <1>6, <2>1, <2>2, <2>3, <2>4, StepAnswers DEF Settled
  <2>6. QED
    BY <1>0, <2>1, <2>5 DEF TC!Next
<1>7. CASE Exit
  <2>1. frames' = [n \in DOMAIN frames |-> IF frames[n].reply = Waiting
                                           THEN [frames[n] EXCEPT !.reply = Gone] ELSE frames[n]]
        /\ ran' = ran
    BY <1>7 DEF Exit
  <2>2. CASE ~Busy
    <3>1. \A n \in DOMAIN frames : frames[n].reply # Waiting
      BY <1>0, <2>2 DEF FramesWait
    <3>2. frames' = frames
      BY <1>0, <2>1, <3>1
    <3>3. QED
      BY <1>2, <2>1, <3>2
  <2>3. CASE Busy
    <3>1. Len(frames) \in DOMAIN frames /\ frames[Len(frames)].reply = Waiting
      BY <1>0, <2>3, BusyCalls DEF FramesWait
    <3>2. \A n \in DOMAIN frames : n # Len(frames) => frames[n].reply # Waiting
      BY <1>0 DEF FramesWait
    <3>3. frames' = [frames EXCEPT ![Len(frames)] = [frames[Len(frames)] EXCEPT !.reply = Gone]]
      BY <1>0, <2>1, <3>1, <3>2
    <3>4. Settle(Len(frames), Gone)
      BY <3>3 DEF Settle
    <3>5. TC!Answer(Len(frames))
      BY <1>0, <2>1, <3>1, <3>4, RepliesTyped, AnswersOf, StepAnswers
    <3>6. QED
      BY <1>0, <3>1, <3>5 DEF TC!Next
  <2>4. QED
    BY <2>2, <2>3
<1>8. QED
  BY <1>0, <1>2, <1>3, <1>5, <1>6, <1>7, FrameSteps, RanSteps

\* proxy_call, cache::lookup, HttpUpstream::call: the app carries out every call
\* once at most, and what a call is answered with is figmog's own, the app's
\* answer to that call, or the app's answer to an earlier and equal call that
\* may be cached and succeeded.
THEOREM KeepsPromise == Spec => ImplementsToolCalls
<1>1. Init => AnsweredInv
  BY OnceInit DEF Init, RowsFiled, RowFiled, AnsweredInv
<1>2. AnsweredInv /\ [Next]_vars => AnsweredInv'
  BY OnceNext, RowsNext DEF AnsweredInv
<1>3. Init => TC!Init
  <2> SUFFICES ASSUME Init PROVE TC!Init
    OBVIOUS
  <2>1. frames = <<>> /\ ran = {}
    BY DEF Init
  <2>2. Asked = <<>> /\ Answers = <<>>
    BY <2>1 DEF Asked, Answers
  <2>3. QED
    BY <2>1, <2>2 DEF TC!Init
<1>4. AnsweredInv /\ [Next]_vars => [TC!Next]_TC!vars
  BY StepRefines
<1>5. QED
  BY <1>1, <1>2, <1>3, <1>4, PTL DEF Spec, ImplementsToolCalls, TC!Spec

-----------------------------------------------------------------------------
(* Versions *)

\* The mirror, the last write reported and every result are of versions the
\* file has had.
Had ==
    /\ mirror # None => mirror <= cloud
    /\ wrote <= cloud
    /\ \A r \in ran : r.version <= cloud

\* The mirror stands still while a call is out, so its result is of the
\* mirror's version or a later one, and so is a row of its tag's.
Fresh ==
    /\ proc.stage = "forward" /\ mirror # None =>
          \A r \in ran : r.of = Len(frames) => r.version >= mirror
    /\ \A h \in Hashes : cache[h] # None => cache[h].result.version >= cache[h].tag

\* Unless a poll is still due, or one has failed, the mirror has the last write.
Polled == Watch /\ ~poll /\ ~excused /\ mirror # None => mirror >= wrote

VersionInv == AnsweredInv /\ Had /\ Fresh

LEMMA VersionTypes ==
    ASSUME TypeOK
    PROVE  /\ cloud \in Nat /\ wrote \in Nat /\ (mirror # None => mirror \in Nat)
           /\ \A r \in ran : r.version \in Nat
           /\ \A h \in Hashes : cache[h] # None =>
                 cache[h].tag \in Nat /\ cache[h].result.version \in Nat
<1>1. Versions \subseteq Nat
  BY ConstantTypes DEF Versions
<1>2. /\ cloud \in Nat /\ wrote \in Nat /\ (mirror # None => mirror \in Nat)
  BY <1>1 DEF TypeOK
<1>3. \A r \in ran : r.version \in Nat
  BY <1>1 DEF TypeOK, Results
<1>4. ASSUME NEW h \in Hashes, cache[h] # None
      PROVE  cache[h].tag \in Nat /\ cache[h].result.version \in Nat
  <2>1. cache[h] \in Rows
    BY <1>4 DEF TypeOK
  <2>2. QED
    BY <1>1, <2>1 DEF Rows, Results
<1>5. QED
  BY <1>2, <1>3, <1>4

\* The mirror moves to the file's version, between two frames.
LEMMA MirrorSteps ==
    ASSUME TypeOK, [Next]_vars
    PROVE  /\ cloud' \in Nat /\ cloud' >= cloud
           /\ \/ mirror' = mirror
              \/ /\ mirror' = cloud /\ EvictStale(cloud) /\ proc.stage = "ready"
                 /\ UNCHANGED <<cloud, ran, frames, proc, wrote>>
<1>1. cloud \in Nat
  BY VersionTypes
<1>2. ASSUME (\E ok \in BOOLEAN : Tick(ok)) \/ PullElsewhere, mirror' # mirror
      PROVE  /\ mirror' = cloud /\ EvictStale(cloud) /\ proc.stage = "ready"
             /\ UNCHANGED <<cloud, ran, frames, proc, wrote>>
  BY <1>2 DEF Tick, PullElsewhere, Off
<1>m. mirror' = mirror \/ (\E ok \in BOOLEAN : Tick(ok)) \/ PullElsewhere
  BY DEF Next, Start, Receive, ReceiveInitialize, ReceiveInitialized, ReceiveList, ReceiveCall,
         HandshakeStep, Unreachable, TakeAny, Take, Handle, HandlePlain, HandleUnrouted,
         HandleLocal, HandleHit, Forward, Reply, Exit, AppStep, AppOpens,
         AppNotes, AppLists, AppRuns, AppRefuses, AppStops, AppStarts, Edit, vars, figmog
<1>3. cloud' = cloud \/ cloud' = cloud + 1
  BY DEF Next, Start, Receive, ReceiveInitialize, ReceiveInitialized, ReceiveList, ReceiveCall,
         HandshakeStep, Unreachable, TakeAny, Take, Handle, HandlePlain, HandleUnrouted,
         HandleLocal, HandleHit, Forward, Reply, Tick, Exit, PullElsewhere, AppStep, AppOpens,
         AppNotes, AppLists, AppRuns, AppRefuses, AppStops, AppStarts, Edit, vars, figmog
<1>4. QED
  BY <1>1, <1>2, <1>m, <1>3

\* What a write is reported with, and what is said of polls.
LEMMA WroteSteps ==
    ASSUME [Next]_vars
    PROVE  \/ wrote' = wrote
           \/ /\ ReceiveCall /\ Outcome(wire.reply).is = "result"
              /\ wrote' = Outcome(wire.reply).value.version
              /\ proc.kind = "serve" /\ frames[wire.req.frame].call \in Writes
BY DEF Next, Start, Receive, ReceiveInitialize, ReceiveInitialized, ReceiveList, ReceiveCall,
       HandshakeStep, Unreachable, TakeAny, Take, Handle, HandlePlain, HandleUnrouted,
       HandleLocal, HandleHit, Forward, Reply, Tick, Exit, PullElsewhere, AppStep, AppOpens,
       AppNotes, AppLists, AppRuns, AppRefuses, AppStops, AppStarts, Edit, vars, figmog

LEMMA HadNext ==
    ASSUME VersionInv, [Next]_vars
    PROVE  Had'
<1>0. TypeOK /\ CallInv /\ Had
  BY DEF VersionInv, AnsweredInv, OnceInv, CallInv
<1>1. /\ cloud' >= cloud /\ cloud \in Nat /\ cloud' \in Nat /\ wrote \in Nat
      /\ (mirror # None => mirror \in Nat) /\ \A r \in ran : r.version \in Nat
  BY <1>0, VersionTypes, MirrorSteps
<1>2. mirror' # None => mirror' <= cloud'
  BY <1>0, <1>1, MirrorSteps DEF Had
<1>3. wrote' <= cloud'
  <2>1. CASE wrote' = wrote
    BY <1>0, <1>1, <2>1 DEF Had
  <2>2. CASE ReceiveCall /\ Outcome(wire.reply).is = "result"
             /\ wrote' = Outcome(wire.reply).value.version
    BY <1>0, <1>1, <2>2, ResultOfCall DEF Had
  <2>3. QED
    BY <2>1, <2>2, WroteSteps
<1>4. \A r \in ran' : r.version <= cloud'
  BY <1>0, <1>1, RanSteps DEF Had
<1>5. QED
  BY <1>2, <1>3, <1>4 DEF Had

LEMMA FreshNext ==
    ASSUME VersionInv, [Next]_vars
    PROVE  Fresh'
<1>0. /\ TypeOK /\ CallInv /\ OnceInv /\ AwaitsRun /\ Had /\ Fresh
      /\ cache \in [Hashes -> Rows \cup {None}]
  BY DEF VersionInv, AnsweredInv, OnceInv, CallInv, TypeOK
<1>1. ASSUME proc'.stage = "forward", mirror' # None, NEW r \in ran', r.of = Len(frames')
      PROVE  r.version >= mirror'
  <2>1. mirror' = mirror /\ mirror \in Nat
    BY <1>0, <1>1, MirrorSteps, VersionTypes
  <2>2. CASE proc.stage = "forward"
    <3>1. frames' = frames
      <4>1. ~Exit /\ proc' # AfterCall
        BY <1>0, <1>1, AfterCallTyped DEF TypeOK, Exit, Off
      <4>2. Busy
        BY <1>0, <2>2, BusyCalls
      <4>3. QED
        BY <1>0, <4>1, <4>2, FrameSteps
    <3>2. CASE r \in ran
      BY <1>0, <1>1, <2>1, <2>2, <3>1, <3>2 DEF Fresh
    <3>3. CASE r \notin ran
      <4>1. r.version = cloud'
        BY <1>0, <1>1, <3>3, RanSteps
      <4>2. QED
        <5>1. cloud' >= cloud /\ cloud \in Nat /\ cloud' \in Nat
          BY <1>0, MirrorSteps, VersionTypes
        <5>2. mirror <= cloud
          BY <1>0, <1>1, <2>1 DEF Had
        <5>3. QED
          BY <2>1, <4>1, <5>1, <5>2
    <3>4. QED
      BY <3>2, <3>3
  <2>3. CASE proc.stage # "forward"
    <3>1. PICK c \in Calls : Forward(c)
      <4>1. proc' # proc /\ proc' # AfterCall /\ proc' # Off
        BY <1>0, <1>1, <2>3, AfterCallTyped DEF Off, TypeOK
      <4>2. \A kind, probe : ~Start(kind, probe)
        BY <1>1 DEF Start
      <4>3. ~Detach /\ \A client : \A stage \in {"initialized", "list"} : ~Continue(client, stage)
        BY <1>0, <1>1, DetachTyped, ContinueTyped DEF Continue, TypeOK, Process
      <4>4. ~ReceiveList
        BY <1>0, <1>1, <4>3 DEF ReceiveList, AfterHandshake, TypeOK, Process
      <4>5. ~ReceiveInitialize /\ ~ReceiveInitialized /\ ~ReceiveCall /\ ~Unreachable
        <5>1. ReceiveInitialize =>
                Detach \/ \E client : Continue(client, "initialized")
          BY DEF ReceiveInitialize
        <5>2. ReceiveInitialized => Detach \/ \E client : Continue(client, "list")
          BY DEF ReceiveInitialized
        <5>3. ReceiveCall => proc' = AfterCall
          BY DEF ReceiveCall, CallFails
        <5>4. Unreachable => Detach \/ proc' = AfterCall
          BY DEF Unreachable, CallFails, HandshakeFails
        <5>5. QED
          BY <4>1, <4>3, <5>1, <5>2, <5>3, <5>4
      <4>6. ~TakeAny
        BY <1>0, <1>1 DEF TakeAny, Take, TypeOK, Process
      <4>7. ~HandlePlain /\ \A c \in Calls : ~HandleUnrouted(c) /\ ~HandleLocal(c) /\ ~HandleHit(c)
        BY <4>1 DEF HandlePlain, HandleUnrouted, HandleLocal, HandleHit, Reply
      <4>8. ~AppStep
        BY <4>1 DEF AppStep, AppOpens, AppNotes, AppLists, AppRuns, AppRefuses, figmog
      <4>9. QED
        BY <4>1, <4>2, <4>4, <4>5, <4>6, <4>7, <4>8
           DEF Next, Receive, Handle, Tick, Exit, PullElsewhere, AppStops, AppStarts, Edit,
               vars, figmog
    <3>2. Busy /\ frames' = frames /\ ran' = ran
      BY <1>0, <3>1, BusyCalls DEF Forward, HandleCall, Handling
    <3>3. NotRun(Len(frames))
      BY <1>0, <2>3, <3>2 DEF AwaitsRun
    <3>4. QED
      BY <1>1, <3>2, <3>3 DEF NotRun
  <2>4. QED
    BY <2>2, <2>3
<1>2. ASSUME NEW h \in Hashes, cache'[h] # None
      PROVE  cache'[h].result.version >= cache'[h].tag
  <2>1. CASE cache'[h] = cache[h]
    BY <1>0, <1>2, <2>1 DEF Fresh
  <2>2. CASE EvictStale(cloud)
    BY <1>2, <2>1, <2>2 DEF EvictStale
  <2>3. CASE /\ ReceiveCall /\ Outcome(wire.reply).is = "result"
             /\ StoreResult(frames[wire.req.frame].call, Outcome(wire.reply).value)
             /\ cache'[h] # cache[h]
    <3> DEFINE r == Outcome(wire.reply).value
               c == frames[wire.req.frame].call
    <3>1. /\ mirror # None
          /\ cache' = [cache EXCEPT ![CacheKey[c]] = [call |-> c, tag |-> mirror, result |-> r]]
      BY <2>3 DEF StoreResult
    <3>2. cache'[h] = [call |-> c, tag |-> mirror, result |-> r]
      BY <1>0, <1>2, <2>3, <3>1
    <3>3. r \in ran /\ r.of = Len(frames)
      BY <1>0, <2>3, ResultOfCall
    <3>4. proc.stage = "forward"
      BY <1>0, <2>3 DEF ReceiveCall, Received, CallInv, WireFits, Waits
    <3>5. cache'[h].result = r /\ cache'[h].tag = mirror
      BY <3>2
    <3>6. QED
      BY <1>0, <3>1, <3>3, <3>4, <3>5 DEF Fresh
  <2>4. QED
    BY <2>1, <2>2, <2>3, CacheSteps
<1>3. QED
  BY <1>1, <1>2 DEF Fresh

LEMMA PolledNext ==
    ASSUME OtherFiles = 0, VersionInv, Polled, [Next]_vars
    PROVE  Polled'
<1>0. TypeOK /\ CallInv /\ Had /\ cloud \in Nat /\ wrote \in Nat /\ Watch \in BOOLEAN
  BY VersionTypes, DesktopAssumption DEF VersionInv, AnsweredInv, OnceInv, CallInv
<1>1. ASSUME NEW ok \in BOOLEAN, Tick(ok) PROVE Polled'
  <2>1. turn = 0
    BY <1>0 DEF TypeOK
  <2>2. CASE ok
    BY <1>0, <1>1, <2>1, <2>2 DEF Tick, Polled, Had
  <2>3. CASE ~ok
    BY <1>1, <2>1, <2>3 DEF Tick, Polled
  <2>4. QED
    BY <2>2, <2>3
<1>2. CASE PullElsewhere
  BY <1>0, <1>2 DEF PullElsewhere, Polled, Had
<1>3. CASE Exit
  BY <1>3 DEF Exit, Polled
<1>4. CASE ReceiveCall
  <2> DEFINE c == frames[wire.req.frame].call
  <2>1. mirror' = mirror
    BY <1>4 DEF ReceiveCall
  <2>2. CASE UNCHANGED <<wrote, excused>>
    <3>1. poll => poll'
      BY <1>4 DEF ReceiveCall
    <3>2. QED
      BY <2>1, <2>2, <3>1 DEF Polled
  <2>3. CASE ~UNCHANGED <<wrote, excused>>
    <3>1. /\ proc.kind = "serve" /\ c \in Writes
          /\ poll' = (poll \/ (proc.kind = "serve" /\ Watch /\ TriggersPoll(c)))
      BY <1>4, <2>3 DEF ReceiveCall
    <3>2. TriggersPoll(c)
      BY <3>1, ConstantTypes DEF TriggersPoll
    <3>3. Watch => poll'
      BY <3>1, <3>2
    <3>4. QED
      BY <3>3 DEF Polled
  <2>4. QED
    BY <2>2, <2>3
<1>5. CASE UNCHANGED <<mirror, poll, wrote, excused>>
  BY <1>5 DEF Polled
<1>6. QED
  BY <1>1, <1>2, <1>3, <1>4, <1>5
     DEF Next, Start, Receive, ReceiveInitialize, ReceiveInitialized, ReceiveList,
         HandshakeStep, Unreachable, TakeAny, Take, Handle, HandlePlain, HandleUnrouted,
         HandleLocal, HandleHit, Forward, Reply, AppStep, AppOpens,
         AppNotes, AppLists, AppRuns, AppRefuses, AppStops, AppStarts, Edit, vars, figmog

\* handle_tool_call's trigger_poll, proxy_call: with one file to watch, a write
\* whose success was reported is followed by a poll that brings the mirror at
\* least to that write, and from then on the cache answers only with results of
\* that version or a later one.  With further files open this fails: the poll
\* the write calls for may be another file's.
THEOREM PollShowsWrites ==
    ASSUME OtherFiles = 0
    PROVE  Spec => []WritesSeenAfterPoll
<1>1. Init => VersionInv /\ Polled
  <2> SUFFICES ASSUME Init PROVE VersionInv /\ Polled
    OBVIOUS
  <2>1. AnsweredInv
    BY OnceInit DEF Init, RowsFiled, RowFiled, AnsweredInv
  <2>2. Had /\ Fresh /\ Polled
    BY DEF Init, Had, Fresh, Polled
  <2>3. QED
    BY <2>1, <2>2 DEF VersionInv
<1>2. VersionInv /\ Polled /\ [Next]_vars => (VersionInv /\ Polled)'
  BY OnceNext, RowsNext, HadNext, FreshNext, PolledNext DEF VersionInv, AnsweredInv
<1>3. VersionInv /\ Polled => WritesSeenAfterPoll
  <2> SUFFICES ASSUME VersionInv, Polled, Watch, ~poll, ~excused, NEW c \in Calls, Hit(c)
               PROVE  cache[CacheKey[c]].result.version >= wrote
    BY DEF WritesSeenAfterPoll
  <2> DEFINE row == cache[CacheKey[c]]
  <2>1. mirror # None /\ row # None /\ row.tag = mirror
    BY DEF Hit
  <2>2. CacheKey[c] \in Hashes /\ TypeOK
    BY ConstantTypes DEF VersionInv, AnsweredInv, OnceInv, CallInv
  <2>3. row.result.version >= mirror /\ mirror >= wrote
    BY <2>1, <2>2 DEF VersionInv, Fresh, Polled
  <2>4. row.result.version \in Nat /\ mirror \in Nat /\ wrote \in Nat
    BY <2>1, <2>2, VersionTypes
  <2>5. QED
    BY <2>3, <2>4
<1>4. QED
  BY <1>1, <1>2, <1>3, PTL DEF Spec
=============================================================================
