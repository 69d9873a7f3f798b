------------------------- MODULE OfferLifecycleProofs -------------------------
(***************************************************************************)
(* What follows from the promise of OfferLifecycle alone.                  *)
(***************************************************************************)
EXTENDS OfferLifecycle, TLAPS

(* In a shared store an offer is absent only before its first status, and  *)
(* its current status is one it has had.                                   *)
Remembered ==
  Concurrent =>
    \A o \in Offers : /\ status[o] = "absent" => seen[o] = {}
                      /\ status[o] # "absent" => status[o] \in seen[o]

LifeInv == LifeTypeOK /\ Remembered /\ ActiveWasApproved

LEMMA Transitions ==
  ASSUME NEW s \in Status, NEW n \in VALID_TRANSITIONS[s]
  PROVE  \/ s = "draft" /\ n = "approved"
         \/ s = "approved" /\ n = "active"
         \/ s = "active" /\ n = "expired"
BY DEF VALID_TRANSITIONS, Status

LEMMA BornStep ==
  ASSUME LifeInv, NEW o \in Offers, NEW b \in Brief, Born(o, b)
  PROVE  LifeInv'
<1>1. b.status \in Status /\ b.trigger \in Trigger
  BY DEF Brief
<1>2. LifeTypeOK'
  BY <1>1 DEF LifeInv, LifeTypeOK, Born
<1>3. Remembered'
  BY <1>1 DEF LifeInv, LifeTypeOK, Born, Remembered, Status
<1>4. ActiveWasApproved'
  <2>1. SUFFICES ASSUME Concurrent, NEW q \in Offers,
                        trigger'[q] = "marketer_initiated", "active" \in seen'[q]
                 PROVE  "approved" \in seen'[q]
    BY DEF ActiveWasApproved, Born
  <2>2. CASE q = o
    <3>1. seen'[o] = {b.status} /\ trigger'[o] = b.trigger
      BY <2>1 DEF LifeInv, LifeTypeOK, Born, Remembered
    <3>2. QED
      BY <2>1, <2>2, <3>1 DEF Born, MaySave
  <2>3. CASE q # o
    BY <2>1, <2>3 DEF LifeInv, LifeTypeOK, Born, ActiveWasApproved
  <2>4. QED
    BY <2>2, <2>3
<1>5. QED
  BY <1>2, <1>3, <1>4 DEF LifeInv

LEMMA MoveStep ==
  ASSUME LifeInv, NEW o \in Offers, NEW n \in Status, Move(o, n)
  PROVE  LifeInv'
<1>1. LifeTypeOK'
  BY DEF LifeInv, LifeTypeOK, Move
<1>2. Remembered'
  BY DEF LifeInv, LifeTypeOK, Move, Remembered, Status
<1>3. ActiveWasApproved'
  <2>1. SUFFICES ASSUME Concurrent, NEW q \in Offers,
                        trigger'[q] = "marketer_initiated", "active" \in seen'[q]
                 PROVE  "approved" \in seen'[q]
    BY DEF ActiveWasApproved, Move
  <2>2. CASE q = o /\ n = "active"
    <3>1. PICK s \in seen[o] : n \in VALID_TRANSITIONS[s]
      BY <2>1 DEF Move, Base
    <3>2. s = "approved"
      BY <2>2, <3>1, Transitions DEF LifeInv, LifeTypeOK
    <3>3. QED
      BY <2>2, <3>1, <3>2 DEF LifeInv, LifeTypeOK, Move
  <2>3. CASE q # o \/ n # "active"
    BY <2>1, <2>3 DEF LifeInv, LifeTypeOK, Move, ActiveWasApproved
  <2>4. QED
    BY <2>2, <2>3
<1>4. QED
  BY <1>1, <1>2, <1>3 DEF LifeInv

LEMMA LifeStep == LifeInv /\ [Next]_vars => LifeInv'
<1> SUFFICES ASSUME LifeInv, [Next]_vars
             PROVE  LifeInv'
  OBVIOUS
<1>1. ASSUME NEW o \in Offers, NEW b \in Brief, Born(o, b)
      PROVE  LifeInv'
  BY <1>1, BornStep
<1>2. ASSUME NEW o \in Offers, NEW n \in Status, Move(o, n)
      PROVE  LifeInv'
  BY <1>2, MoveStep
<1>3. CASE Forget
  BY <1>3 DEF Forget, LifeInv, LifeTypeOK, Remembered, ActiveWasApproved
<1>4. CASE UNCHANGED vars
  BY <1>4 DEF vars, LifeInv, LifeTypeOK, Remembered, ActiveWasApproved
<1>5. QED
  BY <1>1, <1>2, <1>3, <1>4 DEF Next

LEMMA LifeInvariant == Spec => []LifeInv
<1>1. Init => LifeInv
  BY DEF Init, LifeInv, LifeTypeOK, Remembered, ActiveWasApproved
<1>2. QED
  BY <1>1, LifeStep, PTL DEF Spec

(* A marketer's offer never skips the marketer's approval.                 *)
THEOREM LifecycleActiveWasApproved == Spec => []ActiveWasApproved
<1>1. LifeInv => ActiveWasApproved
  BY DEF LifeInv
<1>2. QED
  BY <1>1, LifeInvariant, PTL

LEMMA ShortLivedStep ==
  ASSUME LifeInv, [Next]_vars, Concurrent, NEW o \in Offers,
         ShortLived(o), status[o] = "expired"
  PROVE  status'[o] = "expired"
<1>1. ASSUME NEW q \in Offers, NEW b \in Brief, Born(q, b)
      PROVE  status'[o] = "expired"
  BY <1>1 DEF Born, LifeInv, LifeTypeOK
<1>2. ASSUME NEW q \in Offers, NEW n \in Status, Move(q, n)
      PROVE  status'[o] = "expired"
  <2>1. CASE q = o
    <3>1. PICK s \in seen[o] : n \in VALID_TRANSITIONS[s]
      BY <1>2, <2>1 DEF Move, Base
    <3>2. s \in {"active", "expired"} /\ s \in Status
      BY <3>1 DEF ShortLived, Status
    <3>3. n = "expired"
      BY <3>1, <3>2, Transitions
    <3>4. QED
      BY <1>2, <2>1, <3>3 DEF Move, LifeInv, LifeTypeOK
  <2>2. CASE q # o
    BY <1>2, <2>2 DEF Move, LifeInv, LifeTypeOK
  <2>3. QED
    BY <2>1, <2>2
<1>3. CASE Forget
  BY <1>3 DEF Forget
<1>4. CASE UNCHANGED vars
  BY <1>4 DEF vars
<1>5. QED
  BY <1>1, <1>2, <1>3, <1>4 DEF Next

(* An offer that only ever was active is expired for good.                 *)
THEOREM LifecycleShortLived == Spec => ShortLivedExpiresOnce
<1>1. LifeInv /\ [Next]_vars =>
        [Concurrent =>
           \A o \in Offers : ShortLived(o) /\ status[o] = "expired"
                                => status'[o] = "expired"]_vars
  BY ShortLivedStep
<1>2. QED
  BY <1>1, LifeInvariant, PTL DEF Spec, ShortLivedExpiresOnce

===============================================================================
