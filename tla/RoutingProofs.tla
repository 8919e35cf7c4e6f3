--------------------------- MODULE RoutingProofs ----------------------------
(***************************************************************************)
(* What a command is answered, whichever serves start and stop, whoever    *)
(* pulls and however often .figmog/current moves, for any number of files  *)
(* and of clients.                                                         *)
(*                                                                         *)
(* The argument rests on what a frame carries: it is written once, when    *)
(* the command is invoked, from .figmog/current as it is then (Framed), so *)
(* that nothing that happens while the client waits can redirect it.       *)
(***************************************************************************)
EXTENDS Routing, SequenceTheorems, TLAPS

-----------------------------------------------------------------------------
(* Constants and outcomes *)

LEMMA Nobody ==
    /\ None \notin Keys /\ None # PathKey /\ PathKey \notin Keys
    /\ None \notin Commands /\ None \notin Frame /\ None \notin Outcome
BY RoutingAssumption

LEMMA CommandTypes ==
    ASSUME NEW cmd \in Commands
    PROVE  /\ cmd.tool \in Tools /\ cmd.file \in Keys \cup {None} /\ cmd.url \in Keys \cup {None}
           /\ cmd.kind = "call" \/ cmd.file = None
           /\ cmd.kind = "read" => cmd.tool \in LocalReads
           /\ cmd.kind = "images" => cmd.tool = "figmog_images"
BY RoutingAssumption DEF Command

LEMMA OutTypes ==
    ASSUME NEW result \in Results, NEW file \in Keys \cup {None}
    PROVE  /\ Out(result, file) \in Outcome
           /\ Out(result, file).result = result /\ Out(result, file).file = file
           /\ Out(result, file).holder = "none" /\ Out(result, file).pulled = FALSE
BY DEF Out, Outcome

LEMMA OutPulledTypes ==
    ASSUME NEW file \in Keys
    PROVE  /\ OutPulled(file) \in Outcome
           /\ OutPulled(file).file = file /\ OutPulled(file).holder = "none"
<1>1. "ok" \in Results /\ file \in Keys \cup {None}
  BY DEF Results
<1>2. Out("ok", file) \in Outcome /\ Out("ok", file).file = file /\ Out("ok", file).holder = "none"
  BY <1>1, OutTypes
<1>3. QED
  BY <1>2 DEF OutPulled, Outcome

LEMMA OutLockedTypes ==
    ASSUME NEW holder \in {"serve", "pull"}
    PROVE  /\ OutLocked(holder) \in Outcome
           /\ OutLocked(holder).result = "locked" /\ OutLocked(holder).file = None
           /\ OutLocked(holder).holder = holder /\ OutLocked(holder).pulled = FALSE
<1>1. "locked" \in Results /\ None \in Keys \cup {None}
  BY DEF Results
<1>2. /\ Out("locked", None) \in Outcome
      /\ Out("locked", None).result = "locked" /\ Out("locked", None).file = None
      /\ Out("locked", None).pulled = FALSE
  BY <1>1, OutTypes
<1>3. QED
  BY <1>2 DEF OutLocked, Outcome

\* Reading a store pulls nothing, and tells the file it was asked for.
LEMMA ReadOutTypes ==
    ASSUME NEW tool, NEW path \in Keys, NEW key \in Keys \cup {PathKey}
    PROVE  LET out == ReadOut(tool, path, key)
           IN  /\ out \in Outcome
               /\ out.holder = "none" /\ out.pulled = FALSE
               /\ key \in Keys => out.file \in {key, None}
               /\ path \in mirrored => out.result = "ok"
<1>1. "ok" \in Results /\ "no mirror" \in Results /\ None \in Keys \cup {None}
  BY DEF Results
<1>2. (IF key = PathKey THEN path ELSE key) \in Keys
  OBVIOUS
<1>3. QED
  <2> DEFINE file == IF key = PathKey THEN path ELSE key
  <2>1. ReadOut(tool, path, key) = Out("ok", file) \/ ReadOut(tool, path, key) = Out("no mirror", None)
    BY DEF ReadOut
  <2>2. path \in mirrored => ReadOut(tool, path, key) = Out("ok", file)
    BY DEF ReadOut
  <2>3. key \in Keys => file = key
    BY Nobody
  <2> HIDE DEF file
  <2>4. file \in Keys \cup {None}
    BY <1>2 DEF file
  <2>5. /\ Out("ok", file) \in Outcome /\ Out("ok", file).file = file
        /\ Out("ok", file).holder = "none" /\ Out("ok", file).pulled = FALSE
        /\ Out("ok", file).result = "ok"
    BY <1>1, <2>4 DEF Out, Outcome
  <2>6. /\ Out("no mirror", None) \in Outcome /\ Out("no mirror", None).file = None
        /\ Out("no mirror", None).holder = "none" /\ Out("no mirror", None).pulled = FALSE
    BY <1>1 DEF Out, Outcome
  <2>7. QED
    BY <2>1, <2>2, <2>3, <2>5, <2>6

-----------------------------------------------------------------------------
(* Sessions *)

Once(ss) == \A i, j \in DOMAIN ss : ss[i].key = ss[j].key \/ ss[i].path = ss[j].path => i = j
PathsOf(ss) == {ss[i].path : i \in DOMAIN ss}
KeysOf(ss) == {ss[i].key : i \in DOMAIN ss}

LEMMA SessionOfTypes ==
    ASSUME TypeOK, NEW k \in Keys \cup {PathKey}, Known(k) \/ k \in Keys
    PROVE  /\ SessionOf(k) \in Session
           /\ SessionOf(k).key = k
           /\ Known(k) => SessionOf(k).path \in Held
           /\ ~Known(k) => SessionOf(k) = [key |-> k, path |-> k]
<1>1. CASE Known(k)
  <2> DEFINE i == CHOOSE i \in DOMAIN serve.sessions : serve.sessions[i].key = k
  <2>1. i \in DOMAIN serve.sessions /\ serve.sessions[i].key = k
    BY <1>1 DEF Known, OpenKeys
  <2>2. SessionOf(k) = serve.sessions[i]
    BY <1>1 DEF SessionOf
  <2>3. serve.sessions \in Seq(Session)
    BY DEF TypeOK, ServeState
  <2> HIDE DEF i
  <2>4. serve.sessions[i] \in Session
    BY <2>1, <2>3
  <2>5. QED
    BY <1>1, <2>1, <2>2, <2>4 DEF Held
<1>2. CASE ~Known(k)
  BY <1>2 DEF SessionOf, Session
<1>3. QED
  BY <1>1, <1>2

\* SessionManager::open: the session it pushes is under a key and over a store
\* that no other session has.
LEMMA WithSessionTypes ==
    ASSUME TypeOK, NEW k \in Keys \cup {PathKey},
           Known(k) \/ (k \in Keys /\ ~Locked(k))
    PROVE  LET ss == WithSession(SessionOf(k))
           IN  /\ ss \in Seq(Session) /\ ss # <<>>
               /\ Once(ss)
               /\ KeysOf(ss) = OpenKeys \cup {k}
               /\ PathsOf(ss) = Held \cup {SessionOf(k).path}
               /\ writer \notin PathsOf(ss)
<1> DEFINE s == SessionOf(k)
           old == serve.sessions
<1>1. s \in Session /\ s.key = k
  BY SessionOfTypes
<1>2. old \in Seq(Session) /\ Once(old) /\ writer \notin Held /\ Held \subseteq Keys
  <2>1. old \in Seq(Session)
    BY DEF TypeOK, ServeState
  <2>2. Once(old)
    BY DEF TypeOK, OpenedOnce, Once
  <2>3. \A i \in DOMAIN old : old[i] \in Session
    BY <2>1
  <2>4. Held \subseteq Keys
    BY <2>3 DEF Held, Session
  <2>5. writer \notin Held
    BY <2>4, Nobody DEF TypeOK
  <2>6. QED
    BY <2>1, <2>2, <2>4, <2>5
<1>3. CASE Known(k)
  <2>1. WithSession(s) = old
    BY <1>1, <1>3 DEF WithSession
  <2>2. KeysOf(old) = OpenKeys /\ PathsOf(old) = Held
    BY DEF KeysOf, PathsOf, OpenKeys, Held
  <2>3. k \in OpenKeys /\ s.path \in Held
    BY <1>3, SessionOfTypes DEF Known
  <2>4. old # <<>>
    BY <2>3 DEF OpenKeys
  <2>5. QED
    BY <1>2, <2>1, <2>2, <2>3, <2>4
<1>4. CASE ~Known(k)
  <2> DEFINE ss == Append(old, s)
  <2>1. WithSession(s) = ss /\ s = [key |-> k, path |-> k] /\ k \in Keys
    BY <1>1, <1>4, SessionOfTypes DEF WithSession
  <2>2. k \notin OpenKeys /\ k \notin Held /\ k # writer
    BY <1>4 DEF Known, Locked
  <2> HIDE DEF s, old
  <2>3. ss \in Seq(Session) /\ ss # <<>> /\ Len(ss) = Len(old) + 1 /\ Len(old) \in Nat
    BY <1>1, <1>2
  <2>4. /\ DOMAIN ss = 1..(Len(old) + 1) /\ DOMAIN old = 1..Len(old)
        /\ \A i \in DOMAIN old : ss[i] = old[i]
        /\ ss[Len(old) + 1] = s
    BY <1>1, <1>2, <2>3
  <2> HIDE DEF ss
  <2>5. DOMAIN ss = DOMAIN old \cup {Len(old) + 1} /\ Len(old) + 1 \notin DOMAIN old
    BY <2>3, <2>4
  <2>6. KeysOf(ss) = KeysOf(old) \cup {s.key} /\ PathsOf(ss) = PathsOf(old) \cup {s.path}
    BY <2>4, <2>5 DEF KeysOf, PathsOf
  <2>7. KeysOf(old) = OpenKeys /\ PathsOf(old) = Held
    BY DEF KeysOf, PathsOf, OpenKeys, Held, old
  <2>8. \A i \in DOMAIN old : old[i].key # s.key /\ old[i].path # s.path
    BY <2>1, <2>2 DEF OpenKeys, Held, old
  <2>9. Once(ss)
    BY <1>2, <2>4, <2>5, <2>8 DEF Once
  <2>10. QED
    BY <1>1, <1>2, <2>1, <2>2, <2>3, <2>6, <2>7, <2>9 DEF ss, s
<1>5. QED
  BY <1>3, <1>4

-----------------------------------------------------------------------------
(* Typing *)

Rows == [path: Keys, file: Keys \cup {None}]

LEMMA AskTypes ==
    ASSUME TypeOK, NEW c \in Clients, NEW cmd \in Commands, NEW frame \in Frame \cup {None},
           Ask(c, cmd, frame)
    PROVE  /\ asked' \in [Clients -> Asked]
           /\ asked'[c].cmd = cmd /\ asked'[c].frame = frame
           /\ asked'[c].current = current /\ asked'[c].mirrored = mirrored
           /\ \A d \in Clients : d # c => asked'[d] = asked[d]
<1> DEFINE new == [cmd |-> cmd, frame |-> frame, current |-> current, mirrored |-> mirrored]
<1>1. new \in Asked
  BY DEF Asked, TypeOK
<1>2. asked' = [asked EXCEPT ![c] = new] /\ asked \in [Clients -> Asked]
  BY DEF Ask, TypeOK
<1>3. new.cmd = cmd /\ new.frame = frame /\ new.current = current /\ new.mirrored = mirrored
  OBVIOUS
<1> HIDE DEF new
<1>4. QED
  BY <1>1, <1>2, <1>3

LEMMA AnswerTypes ==
    ASSUME TypeOK, NEW c \in Clients, NEW out \in Outcome \cup {None}, Answer(c, out)
    PROVE  /\ answer' \in [Clients -> Outcome \cup {None}]
           /\ answer'[c] = out
           /\ \A d \in Clients : d # c => answer'[d] = answer[d]
BY DEF Answer, TypeOK

LEMMA PullTypes ==
    ASSUME TypeOK, NEW path \in Keys, PullInto(path)
    PROVE  mirrored' \subseteq Keys /\ rows' \subseteq Rows /\ path \in mirrored'
BY DEF PullInto, TypeOK, Rows

LEMMA ProxyTypes ==
    ASSUME TypeOK, NEW path \in Keys, NEW file \in Keys \cup {None}, Proxy(path, file)
    PROVE  rows' \subseteq Rows
<1>1. [path |-> path, file |-> file] \in Rows
  BY DEF Rows
<1>2. QED
  BY <1>1 DEF Proxy, TypeOK, Rows

\* A step that leaves serve and the writing CLI alone.
LEMMA SameServe ==
    ASSUME TypeOK, serve' = serve, writer' = writer,
           mirrored' \subseteq Keys, rows' \subseteq Rows, current' \in Keys \cup {None},
           asked' \in [Clients -> Asked], answer' \in [Clients -> Outcome \cup {None}]
    PROVE  TypeOK'
BY DEF TypeOK, OpenKeys, Held, OpenedOnce, Rows

LEMMA WithCurrentFileTypes ==
    ASSUME TypeOK, NEW cmd \in Commands
    PROVE  [tool |-> cmd.tool, file |-> WithCurrentFile(cmd), url |-> cmd.url] \in Frame
<1>1. cmd.tool \in Tools /\ cmd.file \in Keys \cup {None} /\ cmd.url \in Keys \cup {None}
  BY CommandTypes
<1>2. WithCurrentFile(cmd) \in Keys \cup {None}
  BY <1>1 DEF WithCurrentFile, TypeOK
<1>3. QED
  BY <1>1, <1>2 DEF Frame

\* What a command that opens the store itself can print.
LEMMA DirectOuts ==
    ASSUME TypeOK, NEW cmd \in Commands, current # None
    PROVE  /\ ReadOut(cmd.tool, current, current) \in Outcome
           /\ OutPulled(current) \in Outcome
           /\ \A r \in {"failed", "unknown tool", "ok", "no mirror"} : Out(r, None) \in Outcome
           /\ \A h \in {"serve", "pull"} : OutLocked(h) \in Outcome
<1>1. current \in Keys
  BY DEF TypeOK
<1>2. ReadOut(cmd.tool, current, current) \in Outcome
  BY <1>1, ReadOutTypes
<1>3. OutPulled(current) \in Outcome
  BY <1>1, OutPulledTypes
<1>4. ASSUME NEW r \in {"failed", "unknown tool", "ok", "no mirror"} PROVE Out(r, None) \in Outcome
  <2>1. r \in Results /\ None \in Keys \cup {None}
    BY <1>4 DEF Results
  <2>2. QED
    BY <2>1, OutTypes
<1>5. \A h \in {"serve", "pull"} : OutLocked(h) \in Outcome
  BY OutLockedTypes
<1>6. QED
  BY <1>2, <1>3, <1>4, <1>5

LEMMA InvokeTyped ==
    ASSUME TypeOK, NEW c \in Clients, NEW cmd \in Commands, Invoke(c, cmd)
    PROVE  TypeOK'
<1>0. /\ mirrored \subseteq Keys /\ rows \subseteq Rows /\ current \in Keys \cup {None}
      /\ None \in Frame \cup {None} /\ None \in Outcome \cup {None}
  BY DEF TypeOK, Rows
<1>1. CASE Send(c, cmd)
  <2>1. asked' \in [Clients -> Asked]
    BY <1>1, AskTypes, WithCurrentFileTypes DEF Send
  <2>2. answer' \in [Clients -> Outcome \cup {None}]
    BY <1>0, <1>1, AnswerTypes DEF Send
  <2>3. QED
    BY <1>0, <1>1, <2>1, <2>2, SameServe DEF Send
<1>2. ASSUME Ask(c, cmd, None), NEW out \in Outcome, Answer(c, out),
             UNCHANGED <<current, serve, writer>>, mirrored' \subseteq Keys, rows' \subseteq Rows
      PROVE  TypeOK'
  <2>1. asked' \in [Clients -> Asked]
    BY <1>0, <1>2, AskTypes
  <2>2. answer' \in [Clients -> Outcome \cup {None}]
    BY <1>2, AnswerTypes
  <2>3. QED
    BY <1>0, <1>2, <2>1, <2>2, SameServe
<1>3. CASE NoMirror(c, cmd)
  <2>1. "no mirror" \in Results /\ None \in Keys \cup {None}
    BY DEF Results
  <2>2. Out("no mirror", None) \in Outcome
    BY <2>1, OutTypes
  <2>3. QED
    BY <1>0, <1>2, <1>3, <2>2 DEF NoMirror
<1>4. CASE DirectLocked(c, cmd)
  BY <1>0, <1>2, <1>4, DirectOuts DEF DirectLocked, Direct
<1>5. CASE DirectRead(c, cmd)
  BY <1>0, <1>2, <1>5, DirectOuts DEF DirectRead, DirectOpens, Direct
<1>6. CASE DirectSync(c, cmd)
  <2>1. current \in Keys
    BY <1>0, <1>6 DEF DirectSync, DirectOpens, Direct
  <2>2. mirrored' \subseteq Keys /\ rows' \subseteq Rows
    BY <1>0, <1>6, <2>1, PullTypes DEF DirectSync
  <2>3. QED
    BY <1>2, <1>6, <2>2, DirectOuts DEF DirectSync, DirectOpens, Direct
<1>7. CASE DirectUnknown(c, cmd)
  BY <1>0, <1>2, <1>7, DirectOuts DEF DirectUnknown, DirectOpens, Direct
<1>8. CASE DirectProxied(c, cmd)
  <2>1. current \in Keys /\ cmd.file \in Keys \cup {None}
    BY <1>0, <1>8, CommandTypes DEF DirectProxied, DirectOpens, Direct
  <2>2. mirrored' \subseteq Keys /\ rows' \subseteq Rows
    BY <1>0, <1>8, <2>1, ProxyTypes DEF DirectProxied
  <2>3. QED
    BY <1>2, <1>8, <2>2, DirectOuts DEF DirectProxied, DirectOpens, Direct
<1>9. QED
  BY <1>1, <1>3, <1>4, <1>5, <1>6, <1>7, <1>8 DEF Invoke

LEMMA FileArgTypes ==
    ASSUME NEW f \in Frame
    PROVE  FileArg(f) \in Keys \cup {None}
BY DEF FileArg, Frame

\* The session a call is for is an open one, or that of the file it names.
LEMMA RouteTypes ==
    ASSUME TypeOK, NEW f \in Frame, NEW k, k # None,
           k = IF FileArg(f) = None THEN DefaultOf(serve.sessions) ELSE FileArg(f)
    PROVE  /\ k \in Keys \cup {PathKey}
           /\ Known(k) \/ (k \in Keys /\ k = FileArg(f))
<1>1. CASE FileArg(f) # None
  BY <1>1, FileArgTypes
<1>2. CASE FileArg(f) = None /\ serve.default # None
  <2>1. k = serve.default
    BY <1>2 DEF DefaultOf
  <2>2. k \in OpenKeys
    BY <2>1 DEF TypeOK
  <2>3. serve.default \in Keys \cup {PathKey, None}
    BY DEF TypeOK, ServeState
  <2>4. QED
    BY <2>1, <2>2, <2>3 DEF Known
<1>3. CASE FileArg(f) = None /\ serve.default = None
  <2>1. Len(serve.sessions) = 1 /\ k = serve.sessions[1].key
    BY <1>3 DEF DefaultOf
  <2>2. serve.sessions \in Seq(Session)
    BY DEF TypeOK, ServeState
  <2>3. 1 \in DOMAIN serve.sessions /\ serve.sessions[1] \in Session
    BY <2>1, <2>2
  <2>4. k \in OpenKeys /\ k \in Keys \cup {PathKey}
    BY <2>1, <2>3 DEF OpenKeys, Session
  <2>5. QED
    BY <2>4 DEF Known
<1>4. QED
  BY <1>1, <1>2, <1>3

LEMMA SessionTyped ==
    ASSUME TypeOK, NEW c \in Clients, asked[c].frame \in Frame, HandleInSession(c)
    PROVE  TypeOK'
<1> DEFINE f == asked[c].frame
           k == IF FileArg(f) = None THEN DefaultOf(serve.sessions) ELSE FileArg(f)
           s == SessionOf(k)
           ss == WithSession(s)
<1>1. /\ k # None /\ (Known(k) \/ ~Locked(s.path))
      /\ serve' = [serve EXCEPT !.sessions = ss]
      /\ writer' = writer /\ asked' = asked
  BY DEF HandleInSession, ForSession, Handles
<1>2. k \in Keys \cup {PathKey} /\ (Known(k) \/ k \in Keys)
  BY <1>1, RouteTypes
<1> HIDE DEF k
<1>3. /\ s \in Session /\ s.key = k
      /\ ~Known(k) => s = [key |-> k, path |-> k]
  BY <1>2, SessionOfTypes
<1>4. Known(k) \/ (k \in Keys /\ ~Locked(k))
  <2>1. ~Known(k) => s.path = k
    BY <1>3
  <2>2. QED
    BY <1>1, <1>2, <2>1
<1>5. /\ ss \in Seq(Session) /\ Once(ss)
      /\ KeysOf(ss) = OpenKeys \cup {k} /\ writer \notin PathsOf(ss)
  BY <1>2, <1>4, WithSessionTypes
<1>6. s.path \in Keys /\ s.key \in Keys \cup {PathKey}
  BY <1>3 DEF Session
<1>7. mirrored' \subseteq Keys /\ rows' \subseteq Rows /\ current' \in Keys \cup {None}
  <2>1. CASE UNCHANGED <<mirrored, rows, current>>
    BY <2>1 DEF TypeOK, Rows
  <2>2. CASE /\ s.key # PathKey /\ PullInto(s.path)
             /\ current' = s.key \/ current' = current
    <3>1. mirrored' \subseteq Keys /\ rows' \subseteq Rows
      BY <1>6, <2>2, PullTypes
    <3>2. current' \in Keys \cup {None}
      BY <1>6, <2>2 DEF TypeOK
    <3>3. QED
      BY <3>1, <3>2
  <2>3. QED
    BY <2>1, <2>2 DEF HandleInSession, k
<1>8. answer' \in [Clients -> Outcome \cup {None}]
  <2>1. ReadOut(f.tool, s.path, s.key) \in Outcome
    BY <1>6, ReadOutTypes
  <2>2. s.key # PathKey => OutPulled(s.key) \in Outcome
    BY <1>6, OutPulledTypes
  <2>3. Out("failed", None) \in Outcome
    <3>1. "failed" \in Results /\ None \in Keys \cup {None}
      BY DEF Results
    <3>2. QED
      BY <3>1, OutTypes
  <2>4. \/ Answer(c, ReadOut(f.tool, s.path, s.key))
        \/ s.key # PathKey /\ Answer(c, OutPulled(s.key))
        \/ Answer(c, Out("failed", None))
    BY DEF HandleInSession, k
  <2>5. QED
    BY <2>1, <2>2, <2>3, <2>4, AnswerTypes
<1> HIDE DEF ss
<1>9. /\ serve' \in ServeState /\ serve'.sessions = ss /\ serve'.default = serve.default
  BY <1>1, <1>5 DEF TypeOK, ServeState
<1>10. OpenKeys' = KeysOf(ss) /\ Held' = PathsOf(ss) /\ OpenedOnce'
  BY <1>5, <1>9 DEF OpenKeys, Held, OpenedOnce, Once, KeysOf, PathsOf
<1>11. serve'.default \in OpenKeys' \cup {None} /\ writer' \in (Keys \ Held') \cup {None}
  BY <1>1, <1>5, <1>9, <1>10 DEF TypeOK
<1>12. QED
  BY <1>1, <1>7, <1>8, <1>9, <1>10, <1>11 DEF TypeOK, Rows

LEMMA HandleTyped ==
    ASSUME TypeOK, NEW c \in Clients, asked[c].frame \in Frame, Handle(c)
    PROVE  TypeOK'
<1>0. /\ mirrored \subseteq Keys /\ rows \subseteq Rows /\ current \in Keys \cup {None}
      /\ asked \in [Clients -> Asked]
  BY DEF TypeOK, Rows
<1>1. ASSUME NEW r \in {"ok", "missing field", "no default", "not json", "failed"}
      PROVE  Out(r, None) \in Outcome
  <2>1. r \in Results /\ None \in Keys \cup {None}
    BY <1>1 DEF Results
  <2>2. QED
    BY <2>1, OutTypes
<1>2. ASSUME NEW out \in Outcome, Answer(c, out), asked' = asked, serve' = serve,
             writer' = writer, UNCHANGED <<mirrored, current>>, rows' \subseteq Rows
      PROVE  TypeOK'
  <2>1. answer' \in [Clients -> Outcome \cup {None}]
    BY <1>2, AnswerTypes
  <2>2. QED
    BY <1>0, <1>2, <2>1, SameServe
<1>3. CASE HandleList(c)
  BY <1>0, <1>1, <1>2, <1>3 DEF HandleList, Handles, Quiet
<1>4. CASE HandleNoDefault(c)
  BY <1>0, <1>1, <1>2, <1>4 DEF HandleNoDefault, ForSession, Handles, Quiet
<1>5. CASE HandleLocked(c)
  BY <1>0, <1>2, <1>5, OutLockedTypes DEF HandleLocked, ForSession, Handles, Quiet
<1>6. CASE HandleProxied(c)
  <2>1. rows' \subseteq Rows
    <3>1. ASSUME serve.sessions # <<>>, Proxy(serve.sessions[1].path, asked[c].frame.file)
          PROVE  rows' \subseteq Rows
      <4>1. serve.sessions \in Seq(Session)
        BY DEF TypeOK, ServeState
      <4>2. serve.sessions[1] \in Session
        BY <3>1, <4>1
      <4>3. serve.sessions[1].path \in Keys /\ asked[c].frame.file \in Keys \cup {None}
        BY <4>2 DEF Session, Frame
      <4>4. QED
        BY <3>1, <4>3, ProxyTypes
    <3>2. QED
      BY <1>0, <1>6, <3>1 DEF HandleProxied
  <2>2. QED
    BY <1>1, <1>2, <1>6, <2>1 DEF HandleProxied, Handles
<1>7. QED
  BY <1>3, <1>4, <1>5, <1>6, SessionTyped DEF Handle

LEMMA PullOpensTyped ==
    ASSUME TypeOK, NEW k \in Keys, PullOpens(k)
    PROVE  TypeOK'
<1>1. writer' = k /\ k \notin Held /\ UNCHANGED <<mirrored, rows, current, serve, asked, answer>>
  BY DEF PullOpens
<1>2. Held' = Held /\ OpenKeys' = OpenKeys /\ (OpenedOnce' <=> OpenedOnce)
  BY <1>1 DEF Held, OpenKeys, OpenedOnce
<1>3. QED
  BY <1>1, <1>2 DEF TypeOK

LEMMA PullEndsTyped ==
    ASSUME TypeOK, NEW ok \in BOOLEAN, PullEnds(ok)
    PROVE  TypeOK'
<1>1. writer \in Keys /\ writer' = None /\ UNCHANGED <<serve, asked, answer>>
  BY DEF PullEnds, TypeOK
<1>2. Held' = Held /\ OpenKeys' = OpenKeys /\ (OpenedOnce' <=> OpenedOnce)
  BY <1>1 DEF Held, OpenKeys, OpenedOnce
<1>3. mirrored' \subseteq Keys /\ rows' \subseteq Rows /\ current' \in Keys \cup {None}
  <2>1. CASE ok
    BY <1>1, <2>1, PullTypes DEF PullEnds
  <2>2. CASE ~ok
    BY <2>2 DEF PullEnds, TypeOK, Rows
  <2>3. QED
    BY <2>1, <2>2
<1>4. QED
  BY <1>1, <1>2, <1>3 DEF TypeOK, Rows

\* build_sessions opens each store once.
LEMMA StartSessions ==
    ASSUME NEW s \in Starts
    PROVE  SessionsOf(s) \in Seq(Session) /\ Once(SessionsOf(s))
<1> DEFINE first == IF s.files = <<>> THEN PathKey ELSE s.files[1]
           one == [key |-> first, path |-> s.db]
           each == [i \in DOMAIN s.files |-> [key |-> s.files[i], path |-> s.files[i]]]
<1>1. /\ s.db \in Keys \cup {None} /\ s.files \in Seq(Keys)
      /\ \A i, j \in DOMAIN s.files : s.files[i] = s.files[j] => i = j
  BY RoutingAssumption DEF Start
<1>2. first \in Keys \cup {PathKey}
  BY <1>1
<1>3. ASSUME s.db # None PROVE <<one>> \in Seq(Session) /\ Once(<<one>>)
  <2>1. one \in Session
    BY <1>1, <1>2, <1>3 DEF Session
  <2> HIDE DEF one
  <2>2. QED
    BY <2>1 DEF Once
<1>4. each \in Seq(Session) /\ Once(each)
  <2>1. Len(s.files) \in Nat /\ DOMAIN s.files = 1..Len(s.files)
    BY <1>1
  <2>2. \A i \in DOMAIN s.files : s.files[i] \in Keys
    BY <1>1
  <2>3. each \in [1..Len(s.files) -> Session]
    BY <2>1, <2>2 DEF Session
  <2>4. each \in Seq(Session)
    BY <2>1, <2>3, SeqDef
  <2>5. \A i \in DOMAIN s.files : each[i].key = s.files[i] /\ each[i].path = s.files[i]
    OBVIOUS
  <2>6. Once(each)
    BY <1>1, <2>5 DEF Once
  <2>7. QED
    BY <2>4, <2>6
<1>5. SessionsOf(s) = IF s.db # None THEN <<one>> ELSE each
  BY DEF SessionsOf
<1> HIDE DEF one, each
<1>6. QED
  BY <1>3, <1>4, <1>5

\* What a startup pulls are stores of its sessions, and current becomes the first.
LEMMA PullsTyped ==
    ASSUME TypeOK, NEW s \in Starts, NEW n, n \in 0..Len(SessionsOf(s)), StartupPulls(s, n)
    PROVE  /\ mirrored' \subseteq Keys /\ current' \in Keys \cup {None}
           /\ mirrored \subseteq mirrored'
           /\ UNCHANGED <<rows, writer, asked, answer>>
<1> DEFINE ss == SessionsOf(s)
<1>1. ss \in Seq(Session) /\ Len(ss) \in Nat /\ DOMAIN ss = 1..Len(ss)
  BY StartSessions
<1>2. ASSUME s.db = None, n > 0 PROVE ss[1].key \in Keys
  <2>1. ss = [i \in DOMAIN s.files |-> [key |-> s.files[i], path |-> s.files[i]]]
    BY <1>2 DEF SessionsOf
  <2>2. 1 \in DOMAIN ss
    BY <1>1, <1>2
  <2>3. s.files \in Seq(Keys) /\ 1 \in DOMAIN s.files
    BY <2>1, <2>2, RoutingAssumption DEF Start
  <2>4. ss[1].key = s.files[1]
    BY <2>1, <2>3
  <2>5. QED
    BY <2>3, <2>4
<1>3. /\ mirrored' = IF s.watch THEN mirrored \cup {ss[i].path : i \in 1..n} ELSE mirrored
      /\ current' = current \/ (current' = ss[1].key /\ s.db = None /\ n > 0)
      /\ UNCHANGED <<rows, writer, asked, answer>>
  BY DEF StartupPulls
<1> HIDE DEF ss
<1>4. \A i \in 1..n : ss[i].path \in Keys
  <2>1. Len(ss) \in Nat /\ DOMAIN ss = 1..Len(ss) /\ n \in 0..Len(ss)
    BY <1>1 DEF ss
  <2>2. \A i \in 1..n : i \in DOMAIN ss
    BY <2>1
  <2>3. \A i \in DOMAIN ss : ss[i] \in Session
    BY <1>1
  <2>4. \A i \in 1..n : ss[i] \in Session
    BY <2>2, <2>3
  <2>5. QED
    BY <2>4 DEF Session
<1>5. QED
  BY <1>2, <1>3, <1>4 DEF TypeOK

LEMMA StartTyped ==
    ASSUME TypeOK, NEW s \in Starts, StartServe(s)
    PROVE  TypeOK'
<1> DEFINE ss == SessionsOf(s)
           default == IF ss = <<>> THEN None ELSE ss[1].key
<1>1. /\ serve' = [up |-> TRUE, sessions |-> ss, watch |-> s.watch, default |-> default,
                   track |-> s.db = None]
      /\ writer \notin PathsOf(ss)
      /\ StartupPulls(s, Len(ss))
  BY DEF StartServe, PathsOf
<1>2. /\ mirrored' \subseteq Keys /\ current' \in Keys \cup {None}
      /\ UNCHANGED <<rows, writer, asked, answer>>
  <2>1. Len(SessionsOf(s)) \in 0..Len(SessionsOf(s))
    BY StartSessions
  <2>2. QED
    BY <1>1, <2>1, PullsTyped
<1>3. ss \in Seq(Session) /\ Once(ss) /\ s.watch \in BOOLEAN
  BY StartSessions, RoutingAssumption DEF Start
<1> HIDE DEF ss
<1>4. PathsOf(ss) \subseteq Keys /\ default \in KeysOf(ss) \cup {None}
      /\ default \in Keys \cup {PathKey, None}
  <2>1. \A i \in DOMAIN ss : ss[i] \in Session
    BY <1>3
  <2>2. ss # <<>> => 1 \in DOMAIN ss
    BY <1>3
  <2>3. QED
    BY <2>1, <2>2 DEF PathsOf, KeysOf, Session
<1> HIDE DEF default
<1>5. (s.db = None) \in BOOLEAN
  OBVIOUS
<1>6. serve' \in ServeState /\ serve'.sessions = ss /\ serve'.default = default
  BY <1>1, <1>3, <1>4, <1>5 DEF ServeState
<1>7. OpenKeys' = KeysOf(ss) /\ Held' = PathsOf(ss) /\ OpenedOnce'
  BY <1>3, <1>6 DEF OpenKeys, Held, OpenedOnce, Once, KeysOf, PathsOf
<1>8. serve'.default \in OpenKeys' \cup {None} /\ writer' \in (Keys \ Held') \cup {None}
  BY <1>1, <1>2, <1>4, <1>6, <1>7 DEF TypeOK
<1>9. QED
  BY <1>2, <1>6, <1>7, <1>8 DEF TypeOK

LEMMA StartFailsStep ==
    ASSUME TypeOK, NEW s \in Starts, StartFails(s)
    PROVE  TypeOK' /\ mirrored \subseteq mirrored' /\ UNCHANGED <<serve, asked, answer>>
<1>1. PICK n \in DOMAIN SessionsOf(s) : StartupPulls(s, n - 1)
  BY DEF StartFails
<1>2. n - 1 \in 0..Len(SessionsOf(s))
  BY StartSessions
<1>3. /\ mirrored' \subseteq Keys /\ current' \in Keys \cup {None}
      /\ mirrored \subseteq mirrored'
      /\ UNCHANGED <<rows, writer, asked, answer>>
  BY <1>1, <1>2, PullsTyped
<1>4. UNCHANGED serve
  BY DEF StartFails
<1>5. QED
  BY <1>3, <1>4 DEF TypeOK, OpenKeys, Held, OpenedOnce

LEMMA TickTyped ==
    ASSUME TypeOK, NEW i, Tick(i)
    PROVE  TypeOK'
<1> DEFINE s == serve.sessions[i]
<1>1. /\ i \in DOMAIN serve.sessions /\ s.key # PathKey /\ PullInto(s.path)
      /\ current' = s.key \/ current' = current
      /\ UNCHANGED <<serve, writer, asked, answer>>
  BY DEF Tick
<1>2. serve.sessions \in Seq(Session)
  BY DEF TypeOK, ServeState
<1>3. s \in Session
  BY <1>1, <1>2
<1> HIDE DEF s
<1>4. s.path \in Keys /\ s.key \in Keys
  BY <1>1, <1>3 DEF Session
<1>5. mirrored' \subseteq Keys /\ rows' \subseteq Rows
  BY <1>1, <1>4, PullTypes
<1>6. current' \in Keys \cup {None} /\ asked \in [Clients -> Asked]
      /\ answer \in [Clients -> Outcome \cup {None}]
  BY <1>1, <1>4 DEF TypeOK
<1>7. QED
  BY <1>1, <1>5, <1>6, SameServe

LEMMA StopTyped ==
    ASSUME TypeOK, StopServe
    PROVE  TypeOK'
<1>1. serve' = Stopped /\ UNCHANGED <<mirrored, rows, current, writer, asked>>
  BY DEF StopServe
<1>2. Stopped \in ServeState /\ Stopped.sessions = <<>> /\ Stopped.default = None
  <2>1. <<>> \in Seq(Session)
    OBVIOUS
  <2>2. QED
    BY <2>1 DEF Stopped, ServeState
<1>3. OpenKeys' = {} /\ Held' = {} /\ OpenedOnce'
  BY <1>1, <1>2 DEF OpenKeys, Held, OpenedOnce
<1>4. answer' \in [Clients -> Outcome \cup {None}]
  <2>1. "failed" \in Results /\ None \in Keys \cup {None}
    BY DEF Results
  <2>2. Out("failed", None) \in Outcome
    BY <2>1, OutTypes
  <2>3. QED
    BY <2>2 DEF StopServe, TypeOK
<1>5. QED
  BY <1>1, <1>2, <1>3, <1>4 DEF TypeOK

LEMMA TypeInit == Init => TypeOK
<1> SUFFICES ASSUME Init PROVE TypeOK
  OBVIOUS
<1>1. Stopped \in ServeState /\ Stopped.sessions = <<>> /\ Stopped.default = None
  <2>1. <<>> \in Seq(Session)
    OBVIOUS
  <2>2. QED
    BY <2>1 DEF Stopped, ServeState
<1>2. OpenKeys = {} /\ Held = {} /\ OpenedOnce
  BY <1>1 DEF Init, OpenKeys, Held, OpenedOnce
<1>3. NotAsked \in Asked
  BY DEF NotAsked, Asked
<1>4. QED
  BY <1>1, <1>2, <1>3 DEF Init, TypeOK

-----------------------------------------------------------------------------
(* Frames *)

\* The `file` a command sends when .figmog/current is cur.
SentFile(cmd, cur) ==
    IF cmd.file # None \/ (cmd.kind = "call" /\ cmd.tool = "figmog_open") THEN cmd.file ELSE cur

\* A client that waits has sent a frame, which says what the command said and
\* what .figmog/current was then; stores that had a mirror then have one still.
Framed ==
    \A c \in Clients :
        /\ Waiting(c) => asked[c].frame # None
        /\ asked[c].frame # None =>
              /\ asked[c].cmd \in Commands
              /\ asked[c].frame.tool = asked[c].cmd.tool
              /\ asked[c].frame.file = SentFile(asked[c].cmd, asked[c].current)
        /\ asked[c].mirrored \subseteq mirrored

TypeInv == TypeOK /\ Framed

LEMMA WaitingFrame ==
    ASSUME TypeInv, NEW c \in Clients, Waiting(c)
    PROVE  asked[c].frame \in Frame
BY DEF TypeInv, Framed, TypeOK, Asked

LEMMA TypeOKNext == TypeInv /\ [Next]_vars => TypeOK'
<1> SUFFICES ASSUME TypeInv, [Next]_vars PROVE TypeOK'
  OBVIOUS
<1>1. TypeOK
  BY DEF TypeInv
<1>2. ASSUME NEW c \in Clients, Handle(c) PROVE TypeOK'
  <2>1. asked[c].frame \in Frame
    BY <1>2, WaitingFrame DEF Handle, HandleList, HandleNoDefault, HandleLocked,
                              HandleInSession, HandleProxied, ForSession, Handles
  <2>2. QED
    BY <1>1, <1>2, <2>1, HandleTyped
<1>3. CASE UNCHANGED vars
  BY <1>1, <1>3 DEF vars, TypeOK, OpenKeys, Held, OpenedOnce
<1>4. QED
  BY <1>1, <1>2, <1>3, InvokeTyped, PullOpensTyped, PullEndsTyped, StartTyped, TickTyped,
     StopTyped, StartFailsStep DEF Next

\* What a command writes down when it is invoked.
LEMMA InvokeAsks ==
    ASSUME TypeOK, NEW c \in Clients, NEW cmd \in Commands, Invoke(c, cmd)
    PROVE  /\ asked'[c].cmd = cmd /\ asked'[c].current = current
           /\ asked'[c].mirrored = mirrored
           /\ \/ /\ asked'[c].frame = [tool |-> cmd.tool, file |-> SentFile(cmd, current),
                                       url |-> cmd.url]
                 /\ answer'[c] = None
              \/ /\ asked'[c].frame = None
                 /\ answer'[c] \in Outcome /\ answer'[c].file \in {current, None}
           /\ \A d \in Clients : d # c => asked'[d] = asked[d] /\ answer'[d] = answer[d]
<1>0. None \in Frame \cup {None} /\ None \in Outcome \cup {None}
  OBVIOUS
<1>1. CASE Send(c, cmd)
  <2> DEFINE frame == [tool |-> cmd.tool, file |-> WithCurrentFile(cmd), url |-> cmd.url]
  <2>1. Ask(c, cmd, frame) /\ Answer(c, None) /\ frame \in Frame \cup {None}
    BY <1>1, WithCurrentFileTypes DEF Send
  <2>2. WithCurrentFile(cmd) = SentFile(cmd, current)
    BY DEF WithCurrentFile, SentFile
  <2> HIDE DEF frame
  <2>3. /\ asked'[c].cmd = cmd /\ asked'[c].frame = frame
        /\ asked'[c].current = current /\ asked'[c].mirrored = mirrored
        /\ \A d \in Clients : d # c => asked'[d] = asked[d]
    BY <2>1, AskTypes
  <2>4. answer'[c] = None /\ \A d \in Clients : d # c => answer'[d] = answer[d]
    BY <1>0, <2>1, AnswerTypes
  <2>5. QED
    BY <2>2, <2>3, <2>4 DEF frame
<1>2. ASSUME Ask(c, cmd, None), NEW out \in Outcome, out.file \in {current, None},
             Answer(c, out)
      PROVE  /\ asked'[c].cmd = cmd /\ asked'[c].current = current
             /\ asked'[c].mirrored = mirrored
             /\ asked'[c].frame = None
             /\ answer'[c] \in Outcome /\ answer'[c].file \in {current, None}
             /\ \A d \in Clients : d # c => asked'[d] = asked[d] /\ answer'[d] = answer[d]
  <2>1. /\ asked'[c].cmd = cmd /\ asked'[c].frame = None
        /\ asked'[c].current = current /\ asked'[c].mirrored = mirrored
        /\ \A d \in Clients : d # c => asked'[d] = asked[d]
    BY <1>0, <1>2, AskTypes
  <2>2. answer'[c] = out /\ \A d \in Clients : d # c => answer'[d] = answer[d]
    BY <1>2, AnswerTypes
  <2>3. QED
    BY <1>2, <2>1, <2>2
<1>3. CASE ~Send(c, cmd)
  <2>1. ASSUME NEW r \in {"failed", "unknown tool", "ok", "no mirror"}
        PROVE  Out(r, None) \in Outcome /\ Out(r, None).file = None
    <3>1. r \in Results /\ None \in Keys \cup {None}
      BY <2>1 DEF Results
    <3>2. QED
      BY <3>1, OutTypes
  <2>2. ASSUME NEW h \in {"serve", "pull"}
        PROVE  OutLocked(h) \in Outcome /\ OutLocked(h).file = None
    BY OutLockedTypes
  <2>3. ASSUME current # None
        PROVE  /\ OutPulled(current) \in Outcome /\ OutPulled(current).file = current
               /\ ReadOut(cmd.tool, current, current) \in Outcome
               /\ ReadOut(cmd.tool, current, current).file \in {current, None}
    <3>1. current \in Keys
      BY <2>3 DEF TypeOK
    <3>2. QED
      BY <3>1, OutPulledTypes, ReadOutTypes
  <2>4. /\ Ask(c, cmd, None)
        /\ \/ \E r \in {"failed", "unknown tool", "ok", "no mirror"} : Answer(c, Out(r, None))
           \/ \E h \in {"serve", "pull"} : Answer(c, OutLocked(h))
           \/ current # None /\ Answer(c, OutPulled(current))
           \/ current # None /\ Answer(c, ReadOut(cmd.tool, current, current))
    BY <1>3 DEF Invoke, NoMirror, DirectLocked, DirectRead, DirectSync, DirectUnknown,
                DirectProxied, DirectOpens, Direct
  <2>5. QED
    BY <1>2, <2>1, <2>2, <2>3, <2>4
<1>4. QED
  BY <1>1, <1>2, <1>3

\* What a step does to one client.
LEMMA ClientStep ==
    ASSUME [Next]_vars, NEW c \in Clients, TypeInv
    PROVE  \/ asked'[c] = asked[c] /\ answer'[c] = answer[c]
           \/ asked'[c] = asked[c] /\ Waiting(c) /\ answer'[c] = Out("failed", None)
           \/ \E cmd \in Commands : Invoke(c, cmd)
           \/ Handle(c)
<1>1. TypeOK
  BY DEF TypeInv
<1>2. ASSUME NEW d \in Clients, NEW cmd \in Commands, Invoke(d, cmd), d # c
      PROVE  asked'[c] = asked[c] /\ answer'[c] = answer[c]
  BY <1>1, <1>2, InvokeAsks
<1>3. ASSUME NEW d \in Clients, Handle(d), d # c
      PROVE  asked'[c] = asked[c] /\ answer'[c] = answer[c]
  BY <1>1, <1>3 DEF TypeOK, Handle, HandleList, HandleNoDefault, HandleLocked,
                    HandleInSession, HandleProxied, ForSession, Handles, Answer
<1>4. CASE StopServe
  BY <1>4 DEF StopServe
<1>5. QED
  BY <1>2, <1>3, <1>4 DEF Next, PullOpens, PullEnds, StartServe, StartFails, StartupPulls,
                          Tick, vars

LEMMA MirroredGrows == [Next]_vars => mirrored \subseteq mirrored'
BY DEF Next, Invoke, Send, NoMirror, DirectLocked, DirectRead, DirectSync, DirectUnknown,
       DirectProxied, PullOpens, PullEnds, PullInto, StartServe, StartFails, StartupPulls,
       Tick, StopServe, Handle,
       HandleList, HandleNoDefault, HandleLocked, HandleInSession, HandleProxied, Quiet, vars

LEMMA FramedNext ==
    ASSUME TypeInv, [Next]_vars
    PROVE  Framed'
<1> SUFFICES ASSUME NEW c \in Clients
             PROVE  /\ asked'[c].cmd # None /\ answer'[c] = None => asked'[c].frame # None
                    /\ asked'[c].frame # None =>
                          /\ asked'[c].cmd \in Commands
                          /\ asked'[c].frame.tool = asked'[c].cmd.tool
                          /\ asked'[c].frame.file = SentFile(asked'[c].cmd, asked'[c].current)
                    /\ asked'[c].mirrored \subseteq mirrored'
  BY DEF Framed, Waiting, SentFile
<1>1. mirrored \subseteq mirrored' /\ None \notin Outcome /\ None \notin Frame
  BY MirroredGrows, Nobody
<1>2. CASE asked'[c] = asked[c] /\ (answer'[c] = None => answer[c] = None)
  BY <1>1, <1>2 DEF TypeInv, Framed, Waiting
<1>3. ASSUME NEW cmd \in Commands, Invoke(c, cmd)
      PROVE  /\ asked'[c].cmd # None /\ answer'[c] = None => asked'[c].frame # None
             /\ asked'[c].frame # None =>
                   /\ asked'[c].cmd \in Commands
                   /\ asked'[c].frame.tool = asked'[c].cmd.tool
                   /\ asked'[c].frame.file = SentFile(asked'[c].cmd, asked'[c].current)
             /\ asked'[c].mirrored \subseteq mirrored'
  <2> DEFINE frame == [tool |-> cmd.tool, file |-> SentFile(cmd, current), url |-> cmd.url]
  <2>1. /\ asked'[c].cmd = cmd /\ asked'[c].current = current /\ asked'[c].mirrored = mirrored
        /\ \/ asked'[c].frame = frame /\ answer'[c] = None
           \/ asked'[c].frame = None /\ answer'[c] \in Outcome
    BY <1>3, InvokeAsks DEF TypeInv
  <2>2. frame.tool = cmd.tool /\ frame.file = SentFile(cmd, current)
    OBVIOUS
  <2>3. frame # None
    <3>1. frame \in Frame
      BY WithCurrentFileTypes DEF TypeInv, WithCurrentFile, SentFile
    <3>2. QED
      BY <1>1, <3>1
  <2> HIDE DEF frame
  <2>4. QED
    BY <1>1, <2>1, <2>2, <2>3
<1>4. ASSUME Handle(c) PROVE asked'[c] = asked[c] /\ Waiting(c)
  BY <1>4 DEF Handle, HandleList, HandleNoDefault, HandleLocked, HandleInSession,
              HandleProxied, ForSession, Handles
<1>5. ASSUME asked'[c] = asked[c], Waiting(c)
      PROVE  /\ asked'[c].cmd # None /\ answer'[c] = None => asked'[c].frame # None
             /\ asked'[c].frame # None =>
                   /\ asked'[c].cmd \in Commands
                   /\ asked'[c].frame.tool = asked'[c].cmd.tool
                   /\ asked'[c].frame.file = SentFile(asked'[c].cmd, asked'[c].current)
             /\ asked'[c].mirrored \subseteq mirrored'
  BY <1>1, <1>5 DEF TypeInv, Framed
<1>6. QED
  BY <1>2, <1>3, <1>4, <1>5, ClientStep

\* Type correctness (Routing!TypeOK), and what every frame says.
THEOREM Invariance == Spec => []TypeInv
<1>1. Init => Framed
  <2> SUFFICES ASSUME Init, NEW c \in Clients
               PROVE  asked[c].cmd = None /\ asked[c].frame = None /\ asked[c].mirrored = {}
    BY DEF Framed, Waiting
  <2>1. asked[c] = NotAsked
    BY DEF Init
  <2>2. QED
    BY <2>1 DEF NotAsked
<1>2. TypeInv /\ [Next]_vars => TypeInv'
  BY TypeOKNext, FramedNext DEF TypeInv
<1>3. QED
  BY <1>1, <1>2, TypeInit, PTL DEF Spec, TypeInv

-----------------------------------------------------------------------------
(* Answers *)

\* What serve answers a call it routes to a session.
LEMMA SessionAnswers ==
    ASSUME TypeOK, NEW c \in Clients, asked[c].frame \in Frame, HandleInSession(c)
    PROVE  LET f == asked[c].frame
               arg == FileArg(f)
           IN  /\ answer'[c] \in Outcome /\ answer'[c].holder = "none"
               /\ arg # None => answer'[c].file \in {arg, None}
               /\ /\ arg # None /\ f.tool \in LocalReads
                  /\ SessionOf(arg).path = arg /\ arg \in mirrored
                  => ~answer'[c].pulled /\ answer'[c].result = "ok"
<1> DEFINE f == asked[c].frame
           k == IF FileArg(f) = None THEN DefaultOf(serve.sessions) ELSE FileArg(f)
           s == SessionOf(k)
<1>1. /\ k # None
      /\ \/ /\ ~Pulls(f.tool, FileArg(f), s.path)
            /\ Answer(c, ReadOut(f.tool, s.path, s.key))
         \/ /\ Pulls(f.tool, FileArg(f), s.path)
            /\ \/ Answer(c, Out("failed", None))
               \/ s.key # PathKey /\ Answer(c, OutPulled(s.key))
  BY DEF HandleInSession
<1>2. k \in Keys \cup {PathKey} /\ (Known(k) \/ k \in Keys)
  BY <1>1, RouteTypes
<1>3. FileArg(f) # None => k = FileArg(f) /\ k \in Keys
  BY FileArgTypes
<1> HIDE DEF k
<1>4. s \in Session /\ s.key = k
  BY <1>2, SessionOfTypes
<1>5. s.path \in Keys
  BY <1>4 DEF Session
<1>6. CASE ~Pulls(f.tool, FileArg(f), s.path) /\ Answer(c, ReadOut(f.tool, s.path, s.key))
  <2> DEFINE out == ReadOut(f.tool, s.path, s.key)
  <2>1. /\ out \in Outcome /\ out.holder = "none" /\ out.pulled = FALSE
        /\ k \in Keys => out.file \in {k, None}
        /\ s.path \in mirrored => out.result = "ok"
    <3>1. s.path \in Keys /\ s.key \in Keys \cup {PathKey}
      BY <1>2, <1>4, <1>5
    <3> HIDE DEF s
    <3>2. /\ out \in Outcome /\ out.holder = "none" /\ out.pulled = FALSE
          /\ s.key \in Keys => out.file \in {s.key, None}
          /\ s.path \in mirrored => out.result = "ok"
      BY <3>1, ReadOutTypes
    <3>3. QED
      BY <1>4, <3>2
  <2> HIDE DEF out
  <2>2. answer'[c] = out
    BY <1>6, <2>1, AnswerTypes DEF out
  <2>3. QED
    BY <1>3, <2>1, <2>2
<1>7. CASE Pulls(f.tool, FileArg(f), s.path) /\ Answer(c, Out("failed", None))
  <2>1. "failed" \in Results /\ None \in Keys \cup {None}
    BY DEF Results
  <2>2. /\ Out("failed", None) \in Outcome /\ Out("failed", None).file = None
        /\ Out("failed", None).holder = "none"
    BY <2>1, OutTypes
  <2>3. answer'[c] = Out("failed", None)
    BY <1>7, <2>2, AnswerTypes
  <2>4. f.tool \in LocalReads /\ FileArg(f) # None /\ s.path = FileArg(f)
           => FileArg(f) \notin mirrored
    BY <1>7 DEF Pulls, LocalReads
  <2>5. QED
    BY <1>3, <2>2, <2>3, <2>4
<1>8. CASE Pulls(f.tool, FileArg(f), s.path) /\ s.key # PathKey /\ Answer(c, OutPulled(s.key))
  <2>1. s.key \in Keys
    BY <1>2, <1>4, <1>8
  <2>2. /\ OutPulled(s.key) \in Outcome /\ OutPulled(s.key).file = s.key
        /\ OutPulled(s.key).holder = "none"
    BY <2>1, OutPulledTypes
  <2>3. answer'[c] = OutPulled(s.key)
    BY <1>8, <2>2, AnswerTypes
  <2>4. f.tool \in LocalReads /\ FileArg(f) # None /\ s.path = FileArg(f)
           => FileArg(f) \notin mirrored
    BY <1>8 DEF Pulls, LocalReads
  <2>5. QED
    BY <1>3, <1>4, <2>2, <2>3, <2>4
<1>9. QED
  BY <1>1, <1>6, <1>7, <1>8

\* What serve answers any call.
LEMMA HandleAnswers ==
    ASSUME TypeOK, NEW c \in Clients, asked[c].frame \in Frame, Handle(c)
    PROVE  LET f == asked[c].frame
               arg == FileArg(f)
           IN  /\ answer'[c] \in Outcome
               /\ arg # None => answer'[c].file \in {arg, None}
               /\ f.tool = "figmog_open" /\ f.file = None => answer'[c].file = None
               /\ answer'[c].holder = "serve" => HandleLocked(c) /\ arg # writer
               /\ /\ arg # None /\ f.tool \in LocalReads
                  /\ SessionOf(arg).path = arg /\ arg \in mirrored
                  => ~answer'[c].pulled /\ answer'[c].result \in {"ok", "locked"}
<1> DEFINE f == asked[c].frame
<1>1. CASE HandleInSession(c)
  <2>1. ~(f.tool = "figmog_open" /\ f.file = None)
    BY <1>1 DEF HandleInSession, ForSession
  <2>2. QED
    BY <1>1, <2>1, SessionAnswers
<1>2. ASSUME NEW r \in {"ok", "missing field", "no default", "not json", "failed"},
             Answer(c, Out(r, None))
      PROVE  /\ answer'[c] \in Outcome /\ answer'[c].file = None
             /\ answer'[c].holder = "none" /\ answer'[c].pulled = FALSE
  <2>1. r \in Results /\ None \in Keys \cup {None}
    BY <1>2 DEF Results
  <2>2. /\ Out(r, None) \in Outcome /\ Out(r, None).file = None
        /\ Out(r, None).holder = "none" /\ Out(r, None).pulled = FALSE
    BY <2>1, OutTypes
  <2>3. answer'[c] = Out(r, None)
    BY <1>2, <2>2, AnswerTypes
  <2>4. QED
    BY <2>2, <2>3
<1>3. CASE HandleList(c)
  <2>1. f.tool \notin LocalReads
    BY <1>3 DEF HandleList, LocalReads
  <2>2. QED
    BY <1>2, <1>3, <2>1 DEF HandleList
<1>4. CASE HandleNoDefault(c)
  <2>1. FileArg(f) = None
    BY <1>4 DEF HandleNoDefault
  <2>2. QED
    BY <1>2, <1>4, <2>1 DEF HandleNoDefault
<1>5. CASE HandleLocked(c)
  <2> DEFINE h == IF FileArg(f) = writer THEN "pull" ELSE "serve"
  <2>1. h \in {"serve", "pull"} /\ Answer(c, OutLocked(h))
    BY <1>5 DEF HandleLocked
  <2>2. h = "serve" => FileArg(f) # writer
    OBVIOUS
  <2> HIDE DEF h
  <2>3. /\ OutLocked(h) \in Outcome /\ OutLocked(h).file = None /\ OutLocked(h).pulled = FALSE
        /\ OutLocked(h).holder = h /\ OutLocked(h).result = "locked"
    BY <2>1, OutLockedTypes
  <2>4. answer'[c] = OutLocked(h)
    BY <2>1, <2>3, AnswerTypes
  <2>5. QED
    BY <1>5, <2>2, <2>3, <2>4
<1>6. CASE HandleProxied(c)
  <2>1. f.tool \notin LocalReads
    BY <1>6 DEF HandleProxied, LocalReads, Proxied
  <2>2. QED
    BY <1>2, <1>6, <2>1 DEF HandleProxied
<1>7. QED
  BY <1>1, <1>3, <1>4, <1>5, <1>6 DEF Handle

LEMMA Handling ==
    ASSUME TypeInv, NEW c \in Clients, Handle(c)
    PROVE  /\ asked' = asked /\ Waiting(c) /\ TypeOK
           /\ asked[c].frame \in Frame /\ asked[c].cmd \in Commands
           /\ asked[c].frame.tool = asked[c].cmd.tool
           /\ asked[c].frame.file = SentFile(asked[c].cmd, asked[c].current)
           /\ asked[c].mirrored \subseteq mirrored
<1>1. asked' = asked /\ Waiting(c)
  BY DEF Handle, HandleList, HandleNoDefault, HandleLocked, HandleInSession, HandleProxied,
         ForSession, Handles
<1>2. asked[c].frame \in Frame
  BY <1>1, WaitingFrame
<1>3. QED
  BY <1>1, <1>2 DEF TypeInv, Framed

LEMMA FailedOut ==
    /\ Out("failed", None) \in Outcome
    /\ Out("failed", None).result = "failed" /\ Out("failed", None).file = None
    /\ Out("failed", None).holder = "none" /\ Out("failed", None).pulled = FALSE
<1>1. "failed" \in Results /\ None \in Keys \cup {None}
  BY DEF Results
<1>2. QED
  BY <1>1, OutTypes

\* cli/mod.rs with_current_file: a command that names no file is answered for
\* the file that was current when it was invoked.
THEOREM CurrentAnswers == Spec => []AnswersForCurrent
<1>1. Init => AnswersForCurrent
  BY DEF Init, AnswersForCurrent, Answered
<1>2. ASSUME TypeInv, AnswersForCurrent, [Next]_vars PROVE AnswersForCurrent'
  <2> SUFFICES ASSUME NEW c \in Clients, answer'[c] # None, answer'[c].file # None,
                      asked'[c].cmd # None, asked'[c].cmd.file = None,
                      asked'[c].current # None
               PROVE  answer'[c].file = asked'[c].current
    BY DEF AnswersForCurrent, Answered
  <2>1. CASE asked'[c] = asked[c] /\ answer'[c] = answer[c]
    BY <1>2, <2>1 DEF AnswersForCurrent, Answered
  <2>2. CASE answer'[c] = Out("failed", None)
    BY <2>2, FailedOut
  <2>3. ASSUME NEW cmd \in Commands, Invoke(c, cmd)
        PROVE  answer'[c].file = asked'[c].current
    <3>1. /\ asked'[c].current = current
          /\ answer'[c] = None \/ answer'[c].file \in {current, None}
      BY <1>2, <2>3, InvokeAsks DEF TypeInv
    <3>2. QED
      BY <3>1
  <2>4. CASE Handle(c)
    <3> DEFINE f == asked[c].frame
               cmd == asked[c].cmd
    <3>1. /\ asked'[c] = asked[c] /\ TypeOK /\ f \in Frame /\ f.tool = cmd.tool
          /\ f.file = SentFile(cmd, asked[c].current)
      BY <1>2, <2>4, Handling
    <3>2. CASE cmd.kind = "call" /\ cmd.tool = "figmog_open"
      <4>1. f.file = None /\ f.tool = "figmog_open"
        BY <3>1, <3>2 DEF SentFile
      <4>2. answer'[c].file = None
        BY <2>4, <3>1, <4>1, HandleAnswers
      <4>3. QED
        BY <4>2
    <3>3. CASE ~(cmd.kind = "call" /\ cmd.tool = "figmog_open")
      <4>1. FileArg(f) = asked[c].current
        BY <3>1, <3>3 DEF SentFile, FileArg
      <4>2. answer'[c].file \in {FileArg(f), None}
        BY <2>4, <3>1, <4>1, HandleAnswers
      <4>3. QED
        BY <3>1, <4>1, <4>2
    <3>4. QED
      BY <3>2, <3>3
  <2>5. QED
    BY <1>2, <2>1, <2>2, <2>3, <2>4, ClientStep
<1>3. TypeInv /\ AnswersForCurrent /\ [Next]_vars => AnswersForCurrent'
  BY <1>2
<1>4. QED
  BY <1>1, <1>3, Invariance, PTL DEF Spec

-----------------------------------------------------------------------------
(* Sessions and the stores they are over *)

\* Where the sessions of a step come from.
LEMMA SessionSteps ==
    ASSUME TypeInv, [Next]_vars, NEW i \in DOMAIN serve'.sessions
    PROVE  \/ \E j \in DOMAIN serve.sessions : serve'.sessions[i] = serve.sessions[j]
           \/ \E k \in Keys : serve'.sessions[i] = [key |-> k, path |-> k]
           \/ \E s \in Starts :
                 /\ s.db # None
                 /\ serve'.sessions[i] = [key |-> IF s.files = <<>> THEN PathKey ELSE s.files[1],
                                          path |-> s.db]
<1> DEFINE From(t) ==
             \/ \E j \in DOMAIN serve.sessions : t = serve.sessions[j]
             \/ \E k \in Keys : t = [key |-> k, path |-> k]
             \/ \E s \in Starts :
                   /\ s.db # None
                   /\ t = [key |-> IF s.files = <<>> THEN PathKey ELSE s.files[1],
                           path |-> s.db]
<1>1. CASE serve' = serve
  BY <1>1
<1>2. CASE StopServe
  BY <1>2 DEF StopServe, Stopped
<1>3. ASSUME NEW s \in Starts, StartServe(s) PROVE From(serve'.sessions[i])
  <2> DEFINE first == IF s.files = <<>> THEN PathKey ELSE s.files[1]
             ss == IF s.db # None THEN <<[key |-> first, path |-> s.db]>>
                   ELSE [j \in DOMAIN s.files |-> [key |-> s.files[j], path |-> s.files[j]]]
  <2>1. serve'.sessions = ss
    BY <1>3 DEF StartServe, SessionsOf
  <2>2. CASE s.db # None
    <3>1. ss = <<[key |-> first, path |-> s.db]>>
      BY <2>2
    <3>2. serve'.sessions[i] = [key |-> first, path |-> s.db]
      BY <2>1, <3>1
    <3>3. QED
      BY <2>2, <3>2
  <2>3. CASE s.db = None
    <3>1. s.files \in Seq(Keys)
      BY RoutingAssumption DEF Start
    <3>2. /\ ss = [j \in DOMAIN s.files |-> [key |-> s.files[j], path |-> s.files[j]]]
          /\ i \in DOMAIN s.files
      BY <2>1, <2>3
    <3>3. s.files[i] \in Keys /\ serve'.sessions[i] = [key |-> s.files[i], path |-> s.files[i]]
      BY <2>1, <3>1, <3>2
    <3>4. QED
      BY <3>3
  <2>4. QED
    BY <2>2, <2>3
<1>4. ASSUME NEW c \in Clients, HandleInSession(c) PROVE From(serve'.sessions[i])
  <2> DEFINE f == asked[c].frame
             k == IF FileArg(f) = None THEN DefaultOf(serve.sessions) ELSE FileArg(f)
             s == SessionOf(k)
             ss == WithSession(s)
  <2>1. TypeOK /\ f \in Frame
    BY <1>4, WaitingFrame DEF TypeInv, HandleInSession, ForSession, Handles
  <2>2. k # None /\ serve' = [serve EXCEPT !.sessions = ss]
    BY <1>4 DEF HandleInSession
  <2>3. k \in Keys \cup {PathKey} /\ (Known(k) \/ k \in Keys)
    BY <2>1, <2>2, RouteTypes
  <2> HIDE DEF k, f
  <2>4. s \in Session /\ s.key = k /\ (~Known(k) => s = [key |-> k, path |-> k])
    BY <2>1, <2>3, SessionOfTypes
  <2>5. serve'.sessions = ss
    BY <2>1, <2>2 DEF TypeOK, ServeState
  <2>6. CASE Known(k)
    <3>1. ss = serve.sessions
      BY <2>4, <2>6 DEF WithSession
    <3>2. QED
      BY <2>5, <3>1
  <2>7. CASE ~Known(k)
    <3>1. ss = Append(serve.sessions, s) /\ s = [key |-> k, path |-> k] /\ k \in Keys
      BY <2>3, <2>4, <2>7 DEF WithSession
    <3>2. serve.sessions \in Seq(Session)
      BY <2>1 DEF TypeOK, ServeState
    <3> HIDE DEF s
    <3>3. \A j \in DOMAIN Append(serve.sessions, s) :
             \/ j \in DOMAIN serve.sessions /\ Append(serve.sessions, s)[j] = serve.sessions[j]
             \/ Append(serve.sessions, s)[j] = s
      BY <2>4, <3>2
    <3>4. QED
      BY <2>5, <3>1, <3>3
  <2>8. QED
    BY <2>6, <2>7
<1>5. serve' = serve \/ StopServe \/ (\E s \in Starts : StartServe(s))
        \/ \E c \in Clients : HandleInSession(c)
  BY DEF Next, Invoke, Send, NoMirror, DirectLocked, DirectRead, DirectSync, DirectUnknown,
         DirectProxied, DirectOpens, Direct, PullOpens, PullEnds, StartFails, Tick, Handle,
         HandleList, HandleNoDefault, HandleLocked, HandleProxied, Quiet, vars
<1>6. QED
  BY <1>1, <1>2, <1>3, <1>4, <1>5

\* A session that goes by a file's key is over that file's store.
Keyed ==
    \A i \in DOMAIN serve.sessions :
        serve.sessions[i].key \in Keys => serve.sessions[i].path = serve.sessions[i].key

\* Every session goes by the key of the file whose store it is over.
Named == \A i \in DOMAIN serve.sessions : serve.sessions[i].path = serve.sessions[i].key

LEMMA KeyedNext ==
    ASSUME \A s \in Starts : s.db # None /\ s.files # <<>> => s.files[1] = s.db,
           TypeInv, Keyed, [Next]_vars
    PROVE  Keyed'
<1> SUFFICES ASSUME NEW i \in DOMAIN serve'.sessions, serve'.sessions[i].key \in Keys
             PROVE  serve'.sessions[i].path = serve'.sessions[i].key
  BY DEF Keyed
<1>1. ASSUME NEW k, NEW p, serve'.sessions[i] = [key |-> k, path |-> p]
      PROVE  serve'.sessions[i].key = k /\ serve'.sessions[i].path = p
  BY <1>1
<1>2. ASSUME NEW s \in Starts, s.db # None,
             serve'.sessions[i] = [key |-> IF s.files = <<>> THEN PathKey ELSE s.files[1],
                                   path |-> s.db]
      PROVE  serve'.sessions[i].path = serve'.sessions[i].key
  BY <1>1, <1>2, Nobody
<1>3. ASSUME NEW j \in DOMAIN serve.sessions, serve'.sessions[i] = serve.sessions[j]
      PROVE  serve'.sessions[i].path = serve'.sessions[i].key
  BY <1>3 DEF Keyed
<1>4. ASSUME NEW k \in Keys, serve'.sessions[i] = [key |-> k, path |-> k]
      PROVE  serve'.sessions[i].path = serve'.sessions[i].key
  BY <1>1, <1>4
<1>5. QED
  BY <1>2, <1>3, <1>4, SessionSteps

LEMMA NamedNext ==
    ASSUME \A s \in Starts : s.db # None => s.files # <<>> /\ s.files[1] = s.db,
           TypeInv, Named, [Next]_vars
    PROVE  Named'
<1> SUFFICES ASSUME NEW i \in DOMAIN serve'.sessions
             PROVE  serve'.sessions[i].path = serve'.sessions[i].key
  BY DEF Named
<1>1. ASSUME NEW k, NEW p, serve'.sessions[i] = [key |-> k, path |-> p]
      PROVE  serve'.sessions[i].key = k /\ serve'.sessions[i].path = p
  BY <1>1
<1>2. ASSUME NEW s \in Starts, s.db # None,
             serve'.sessions[i] = [key |-> IF s.files = <<>> THEN PathKey ELSE s.files[1],
                                   path |-> s.db]
      PROVE  serve'.sessions[i].path = serve'.sessions[i].key
  BY <1>1, <1>2
<1>3. ASSUME NEW j \in DOMAIN serve.sessions, serve'.sessions[i] = serve.sessions[j]
      PROVE  serve'.sessions[i].path = serve'.sessions[i].key
  BY <1>3 DEF Named
<1>4. ASSUME NEW k \in Keys, serve'.sessions[i] = [key |-> k, path |-> k]
      PROVE  serve'.sessions[i].path = serve'.sessions[i].key
  BY <1>1, <1>4
<1>5. QED
  BY <1>2, <1>3, <1>4, SessionSteps

LEMMA KeyedPath ==
    ASSUME TypeOK, Keyed, NEW k \in Keys
    PROVE  SessionOf(k).path = k
<1>1. CASE Known(k)
  <2> DEFINE i == CHOOSE i \in DOMAIN serve.sessions : serve.sessions[i].key = k
  <2>1. i \in DOMAIN serve.sessions /\ serve.sessions[i].key = k
    BY <1>1 DEF Known, OpenKeys
  <2>2. SessionOf(k) = serve.sessions[i]
    BY <1>1 DEF SessionOf
  <2> HIDE DEF i
  <2>3. QED
    BY <2>1, <2>2 DEF Keyed
<1>2. CASE ~Known(k)
  BY <1>2 DEF SessionOf
<1>3. QED
  BY <1>1, <1>2

\* SessionManager::resolve: a read of a current file that has a mirror spends
\* no pull, provided a FILE given with --db names the file whose store it is.
THEOREM ReadsAreFree ==
    ASSUME \A s \in Starts : s.db # None /\ s.files # <<>> => s.files[1] = s.db
    PROVE  Spec => []MirroredReadsAreFree
<1>1. Init => Keyed /\ MirroredReadsAreFree
  BY DEF Init, Keyed, Stopped, MirroredReadsAreFree, Answered
<1>2. ASSUME TypeInv, Keyed, MirroredReadsAreFree, [Next]_vars PROVE MirroredReadsAreFree'
  <2> SUFFICES ASSUME NEW c \in Clients, answer'[c] # None, asked'[c].cmd # None,
                      asked'[c].frame # None, asked'[c].cmd.kind = "read",
                      asked'[c].current \in asked'[c].mirrored
               PROVE  ~answer'[c].pulled /\ answer'[c].result \in {"ok", "locked", "failed"}
    BY DEF MirroredReadsAreFree, Answered
  <2>1. CASE asked'[c] = asked[c] /\ answer'[c] = answer[c]
    BY <1>2, <2>1 DEF MirroredReadsAreFree, Answered
  <2>2. CASE answer'[c] = Out("failed", None)
    BY <2>2, FailedOut
  <2>3. ASSUME NEW cmd \in Commands, Invoke(c, cmd) PROVE FALSE
    BY <1>2, <2>3, InvokeAsks DEF TypeInv
  <2>4. CASE Handle(c)
    <3> DEFINE f == asked[c].frame
               cmd == asked[c].cmd
               k == asked[c].current
    <3>1. /\ asked'[c] = asked[c] /\ TypeOK /\ f \in Frame /\ f.tool = cmd.tool
          /\ f.file = SentFile(cmd, k) /\ asked[c].mirrored \subseteq mirrored
          /\ cmd \in Commands
      BY <1>2, <2>4, Handling
    <3>2. cmd.kind = "read" /\ k \in asked[c].mirrored
      BY <3>1
    <3>3. cmd.file = None /\ cmd.tool \in LocalReads
      BY <3>1, <3>2, CommandTypes
    <3>4. k \in Keys /\ k \in mirrored /\ k # None
      BY <3>1, <3>2, Nobody DEF TypeOK
    <3>5. FileArg(f) = k
      BY <3>1, <3>2, <3>3, <3>4 DEF SentFile, FileArg
    <3>6. SessionOf(k).path = k
      BY <1>2, <3>1, <3>4, KeyedPath
    <3>7. /\ FileArg(f) # None /\ f.tool \in LocalReads
          /\ SessionOf(FileArg(f)).path = FileArg(f) /\ FileArg(f) \in mirrored
      BY <3>1, <3>3, <3>4, <3>5, <3>6
    <3>8. QED
      BY <2>4, <3>1, <3>7, HandleAnswers
  <2>5. QED
    BY <1>2, <2>1, <2>2, <2>3, <2>4, ClientStep
<1>3. TypeInv /\ Keyed /\ MirroredReadsAreFree /\ [Next]_vars
        => Keyed' /\ MirroredReadsAreFree'
  BY <1>2, KeyedNext
<1>4. QED
  BY <1>1, <1>3, Invariance, PTL DEF Spec

\* cli/socket.rs: serve's own lock refuses none of its clients, provided it was
\* not started over a store by path (MCRoutingLock.cfg shows that it then does).
THEOREM NoOwnLock ==
    ASSUME \A s \in Starts : s.db # None => s.files # <<>> /\ s.files[1] = s.db
    PROVE  Spec => []NoSelfLock
<1>1. Init => Named /\ NoSelfLock
  BY DEF Init, Named, Stopped, NoSelfLock, Answered
<1>2. ASSUME TypeInv, Named, NoSelfLock, [Next]_vars PROVE NoSelfLock'
  <2> SUFFICES ASSUME NEW c \in Clients, answer'[c] # None, asked'[c].cmd # None,
                      asked'[c].frame # None
               PROVE  answer'[c].holder # "serve"
    BY DEF NoSelfLock, Answered
  <2>1. CASE asked'[c] = asked[c] /\ answer'[c] = answer[c]
    BY <1>2, <2>1 DEF NoSelfLock, Answered
  <2>2. CASE answer'[c] = Out("failed", None)
    BY <2>2, FailedOut
  <2>3. ASSUME NEW cmd \in Commands, Invoke(c, cmd) PROVE FALSE
    BY <1>2, <2>3, InvokeAsks DEF TypeInv
  <2>4. ASSUME Handle(c), answer'[c].holder = "serve" PROVE FALSE
    <3> DEFINE k == FileArg(asked[c].frame)
    <3>1. HandleLocked(c) /\ k # writer
      BY <1>2, <2>4, Handling, HandleAnswers
    <3>2. ~Known(k) /\ Locked(k)
      BY <3>1 DEF HandleLocked
    <3>3. k \in Held
      BY <3>1, <3>2 DEF Locked
    <3>4. k \in OpenKeys
      BY <1>2, <3>3 DEF Held, OpenKeys, Named
    <3>5. QED
      BY <3>2, <3>4 DEF Known
  <2>5. QED
    BY <1>2, <2>1, <2>2, <2>3, <2>4, ClientStep
<1>3. TypeInv /\ Named /\ NoSelfLock /\ [Next]_vars => Named' /\ NoSelfLock'
  BY <1>2, NamedNext
<1>4. QED
  BY <1>1, <1>3, Invariance, PTL DEF Spec
=============================================================================
