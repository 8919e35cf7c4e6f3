----------------------------- MODULE ToolCalls ------------------------------
(***************************************************************************)
(* What figmog promises of the calls it is asked to pass on to Figma's     *)
(* desktop app (proxy.rs, upstream.rs): the app carries each out at most   *)
(* once, perhaps after figmog has given up on it, and what figmog passes   *)
(* back is the app's own answer to that call, or to an earlier and equal   *)
(* one that succeeded and may be answered from the cache.                  *)
(***************************************************************************)
EXTENDS Naturals, Sequences

CONSTANTS
    Cacheable,   \* the calls whose answer may be used again
    Own,         \* figmog answers itself: an error, or without the app
    None         \* not answered

VARIABLES
    asked,    \* the calls put to figmog, in order
    runs,     \* the results of what the app has carried out, each of one of them
    answers   \* per call asked: None, Own or a result

vars == <<asked, runs, answers>>

Init == asked = <<>> /\ runs = {} /\ answers = <<>>

Ask ==
    /\ Len(asked') = Len(asked) + 1 /\ SubSeq(asked', 1, Len(asked)) = asked
    /\ answers' = Append(answers, None)
    /\ UNCHANGED runs

Run(n) ==
    /\ \A r \in runs : r.of # n
    /\ \E r \in runs' : r.of = n /\ runs' = runs \cup {r}
    /\ UNCHANGED <<asked, answers>>

AnswersFor(n) ==
    {r \in runs : r.of = n \/ (asked[n] \in Cacheable /\ asked[r.of] = asked[n] /\ r.ok)}

Answer(n) ==
    /\ answers[n] = None
    /\ \E a \in {Own} \cup AnswersFor(n) : answers' = [answers EXCEPT ![n] = a]
    /\ UNCHANGED <<asked, runs>>

Next == Ask \/ \E n \in DOMAIN asked : Run(n) \/ Answer(n)

Spec == Init /\ [][Next]_vars
=============================================================================
