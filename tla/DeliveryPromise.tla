---------------------------- MODULE DeliveryPromise ----------------------------
(***************************************************************************)
(* What Scout promises a member about purchase-triggered offers, whatever  *)
(* its handlers, its pruned log and its duplicate window do to keep it.    *)
(*                                                                         *)
(* To deliver is first decided and then done.  A decision is taken at one  *)
(* instant against the whole history of deliveries to the member; any      *)
(* number of decisions may be pending, and a pending one is not yet        *)
(* history.  A restart forgets the history and whatever is pending.        *)
(***************************************************************************)
EXTENDS Naturals

CONSTANTS Members, Events, Calls, MemberOf, HighValue,
          RateLimit, DedupWindow

VARIABLES now,        \* the clock
          pending,    \* the decisions not yet carried out
          delivered   \* the deliveries, with the decision each one had

vars == <<now, pending, delivered>>

Init ==
  /\ now \in Nat
  /\ pending = {}
  /\ delivered = {}

(* The deliveries that count against a member.                             *)
History(m) == {d \in delivered : MemberOf[d.event] = m /\ ~d.forgotten}

(* Outside the rate limit of every one of them, and outside the longer     *)
(* window too unless the purchase is of high value.                        *)
MayDecide(e) ==
  \A d \in History(MemberOf[e]) :
    /\ now > d.at + RateLimit
    /\ e \notin HighValue => now > d.at + DedupWindow

Decide(c, e) ==
  /\ MayDecide(e)
  /\ pending' = pending \cup {[id |-> c, event |-> e, checked |-> now]}
  /\ UNCHANGED <<now, delivered>>

Deliver(p) ==
  /\ pending' = pending \ {p}
  /\ delivered' = delivered \cup
       {[id |-> p.id, event |-> p.event, checked |-> p.checked,
         at |-> now, forgotten |-> FALSE]}
  /\ UNCHANGED now

GiveUp(p) ==
  /\ pending' = pending \ {p}
  /\ UNCHANGED <<now, delivered>>

TimePasses ==
  /\ now' = now + 1
  /\ UNCHANGED <<pending, delivered>>

Forgotten(d) == [id |-> d.id, event |-> d.event, checked |-> d.checked,
                 at |-> d.at, forgotten |-> TRUE]

Forget ==
  /\ pending' = {}
  /\ delivered' = {Forgotten(d) : d \in delivered}
  /\ UNCHANGED now

Next ==
  \/ \E c \in Calls, e \in Events : Decide(c, e)
  \/ \E p \in pending : Deliver(p) \/ GiveUp(p)
  \/ TimePasses
  \/ Forget

Spec == Init /\ [][Next]_vars

===============================================================================
