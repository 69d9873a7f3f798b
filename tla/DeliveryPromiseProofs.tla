-------------------------- MODULE DeliveryPromiseProofs --------------------------
(***************************************************************************)
(* What DeliveryPromise is worth to a member, for any windows.             *)
(***************************************************************************)
EXTENDS DeliveryPromise, TLAPS

Apart(x, p) == /\ p.checked > x.at + RateLimit
               /\ p.event \notin HighValue => p.checked > x.at + DedupWindow

(* Whoever decides in a tick after a delivery to the member does so        *)
(* outside its windows; only what was decided before the delivery, or in   *)
(* its tick, may come too early.                                           *)
LateDecisionsAreApart ==
  \A x \in delivered, p \in pending \cup delivered :
    ~x.forgotten /\ MemberOf[x.event] = MemberOf[p.event]
      => p.checked <= x.at \/ Apart(x, p)

PromiseInv ==
  /\ now \in Nat
  /\ \A p \in pending \cup delivered : p.checked \in Nat /\ p.checked <= now
  /\ LateDecisionsAreApart

LEMMA DecideKeeps ==
  ASSUME PromiseInv, NEW c \in Calls, NEW e \in Events, Decide(c, e)
  PROVE  PromiseInv'
<1> DEFINE n == [id |-> c, event |-> e, checked |-> now]
<1>1. pending' = pending \cup {n} /\ delivered' = delivered /\ now' = now
  BY DEF Decide
<1>2. n.event = e /\ n.checked = now
  OBVIOUS
<1> HIDE DEF n
<1>3. \A x \in delivered : ~x.forgotten /\ MemberOf[x.event] = MemberOf[e] => Apart(x, n)
  BY <1>2 DEF Decide, MayDecide, History, Apart
<1>4. QED
  BY <1>1, <1>2, <1>3 DEF PromiseInv, LateDecisionsAreApart, Apart

LEMMA DeliverKeeps ==
  ASSUME PromiseInv, NEW p \in pending, Deliver(p)
  PROVE  PromiseInv'
<1> DEFINE n == [id |-> p.id, event |-> p.event, checked |-> p.checked,
                 at |-> now, forgotten |-> FALSE]
<1>1. pending' = pending \ {p} /\ delivered' = delivered \cup {n} /\ now' = now
  BY DEF Deliver
<1>2. n.event = p.event /\ n.checked = p.checked /\ n.at = now
  OBVIOUS
<1> HIDE DEF n
<1>3. \A q \in pending' \cup delivered' : q \in pending \cup delivered \/ q = n
  BY <1>1
<1>4. \A q \in pending' \cup delivered' : q.checked \in Nat /\ q.checked <= now
  BY <1>2, <1>3 DEF PromiseInv
<1>5. ASSUME NEW x \in delivered, ~x.forgotten, MemberOf[x.event] = MemberOf[n.event]
      PROVE  n.checked <= x.at \/ Apart(x, n)
  BY <1>2, <1>5 DEF PromiseInv, LateDecisionsAreApart, Apart
<1>6. LateDecisionsAreApart'
  BY <1>1, <1>2, <1>3, <1>4, <1>5 DEF PromiseInv, LateDecisionsAreApart, Apart
<1>7. QED
  BY <1>1, <1>4, <1>6 DEF PromiseInv

LEMMA ForgetKeeps ==
  ASSUME PromiseInv, Forget
  PROVE  PromiseInv'
<1>1. pending' = {} /\ now' = now /\ delivered' = {Forgotten(d) : d \in delivered}
  BY DEF Forget
<1>2. \A x \in delivered' : x.forgotten
  BY <1>1 DEF Forgotten
<1>3. \A x \in delivered' : x.checked \in Nat /\ x.checked <= now
  BY <1>1 DEF PromiseInv, Forgotten
<1>4. QED
  BY <1>1, <1>2, <1>3 DEF PromiseInv, LateDecisionsAreApart

(* The promise entails the limits of can_deliver between decisions that    *)
(* are taken one after the other's delivery.                               *)
THEOREM PromiseSpacesDecisions == Spec => []LateDecisionsAreApart
<1>1. Init => PromiseInv
  BY DEF Init, PromiseInv, LateDecisionsAreApart
<1>2. PromiseInv /\ [Next]_vars => PromiseInv'
  <2>1. SUFFICES ASSUME PromiseInv, [Next]_vars
                 PROVE  PromiseInv'
    OBVIOUS
  <2>2. CASE \E p \in pending : GiveUp(p)
    BY <2>1, <2>2 DEF GiveUp, PromiseInv, LateDecisionsAreApart, Apart
  <2>3. CASE TimePasses
    BY <2>1, <2>3 DEF TimePasses, PromiseInv, LateDecisionsAreApart, Apart
  <2>4. CASE UNCHANGED vars
    BY <2>1, <2>4 DEF vars, PromiseInv, LateDecisionsAreApart, Apart
  <2>5. QED
    BY <2>1, <2>2, <2>3, <2>4, DecideKeeps, DeliverKeeps, ForgetKeeps DEF Next
<1>3. QED
  BY <1>1, <1>2, PTL DEF Spec, PromiseInv

===============================================================================
