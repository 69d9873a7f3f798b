--------------------------- MODULE BriefPromiseProofs ---------------------------
(***************************************************************************)
(* What BriefPromise is worth to the Designer, for any requests, normal    *)
(* form and TTL.                                                           *)
(***************************************************************************)
EXTENDS BriefPromise, TLAPS

(* F-001: no two answers share an offer_id, and no call has two answers.   *)
IdsAreOwn ==
  \A a, b \in answers : \/ a.brief.offer_id = b.brief.offer_id
                        \/ a.call = b.call
                        => a = b

(* Whoever asked was given a brief for what he asked, made before he got   *)
(* it and not a TTL ago.                                                   *)
BriefsSuit ==
  \A a \in answers : /\ ServesAs(a.brief.subject, a.subject)
                     /\ a.brief.made <= a.at /\ a.at <= a.brief.made + TTL

PromiseInv == now \in Nat /\ IdsAreOwn /\ BriefsSuit

LEMMA ReturnKeeps ==
  ASSUME PromiseInv, NEW c \in Calls, NEW id \in Calls, Unused(c), Fresh(id),
         NEW s, NEW m, NEW t \in 0 .. now,
         ServesAs(m, s), Recent(t), Return(c, s, id, m, t)
  PROVE  PromiseInv'
<1> DEFINE n == [call |-> c, subject |-> s, at |-> now,
                 brief |-> [offer_id |-> id, subject |-> m, made |-> t]]
<1>1. answers' = answers \cup {n} /\ now' = now
  BY DEF Return
<1>2. /\ n.call = c /\ n.subject = s /\ n.at = now
      /\ n.brief.offer_id = id /\ n.brief.subject = m /\ n.brief.made = t
  OBVIOUS
<1> HIDE DEF n
<1>3. IdsAreOwn'
  BY <1>1, <1>2 DEF PromiseInv, IdsAreOwn, Unused, Fresh
<1>4. BriefsSuit'
  <2>1. t <= now
    BY DEF PromiseInv
  <2>2. \A a \in answers' : a = n \/ a \in answers
    BY <1>1
  <2>3. /\ ServesAs(n.brief.subject, n.subject)
        /\ n.brief.made <= n.at /\ n.at <= n.brief.made + TTL
    BY <1>2, <2>1 DEF Recent
  <2>4. QED
    BY <2>2, <2>3 DEF PromiseInv, BriefsSuit, ServesAs
<1>5. QED
  BY <1>1, <1>3, <1>4 DEF PromiseInv

(* The promise entails F-001 and that each brief suits its request: what   *)
(* generate_from_objective and generate_from_purchase_context return.      *)
THEOREM PromiseMeansOwnBriefs == Spec => [](IdsAreOwn /\ BriefsSuit)
<1>1. Init => PromiseInv
  BY DEF Init, PromiseInv, IdsAreOwn, BriefsSuit
<1>2. PromiseInv /\ [Next]_vars => PromiseInv'
  <2>1. SUFFICES ASSUME PromiseInv, [Next]_vars
                 PROVE  PromiseInv'
    OBVIOUS
  <2>2. CASE TimePasses \/ UNCHANGED vars
    BY <2>1, <2>2 DEF TimePasses, vars, PromiseInv, IdsAreOwn, BriefsSuit, ServesAs
  <2>3. QED
    BY <2>1, <2>2, ReturnKeeps DEF Next
<1>3. QED
  BY <1>1, <1>2, PTL DEF Spec, PromiseInv

===============================================================================
