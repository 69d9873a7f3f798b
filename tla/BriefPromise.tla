------------------------------ MODULE BriefPromise ------------------------------
(***************************************************************************)
(* What the Claude client promises the Designer, whether a brief comes     *)
(* from Claude or from the cache: it was generated lately, for a request   *)
(* that counts as the same, and it bears an offer_id of its own.           *)
(***************************************************************************)
EXTENDS Naturals

CONSTANTS Requests, Contexts, Calls, Normal, TTL

VARIABLES now,       \* the clock
          answers    \* the briefs returned so far

vars == <<now, answers>>

Init == now = 0 /\ answers = {}

(* A brief may stand in for every request with the same normal form, a     *)
(* purchase-triggered one only for the very context it was made for.       *)
ServesAs(made, asked) ==
  \/ made = asked
  \/ made \in Requests /\ asked \in Requests /\ Normal[made] = Normal[asked]

Unused(c) == \A a \in answers : a.call # c

Fresh(id) == \A a \in answers : a.brief.offer_id # id

Recent(t) == now <= t + TTL

Return(c, s, id, m, t) ==
  /\ answers' = answers \cup
       {[call |-> c, subject |-> s, at |-> now,
         brief |-> [offer_id |-> id, subject |-> m, made |-> t]]}
  /\ UNCHANGED now

TimePasses == now' = now + 1 /\ UNCHANGED answers

Next ==
  \/ \E c, id \in Calls :
       /\ Unused(c) /\ Fresh(id)
       /\ \E s, m \in Requests \cup Contexts, t \in 0 .. now :
            ServesAs(m, s) /\ Recent(t) /\ Return(c, s, id, m, t)
  \/ TimePasses

Spec == Init /\ [][Next]_vars

===============================================================================
