---------------------------- MODULE OfferLifecycle ----------------------------
(***************************************************************************)
(* What the Hub promises about the life of an offer, whatever the store,   *)
(* the handlers and the sweep do to keep the promise.                      *)
(*                                                                         *)
(* An offer is born with any status, except that only a purchase-triggered *)
(* offer is born active; its trigger never changes; and it then moves      *)
(* along VALID_TRANSITIONS.  There are two strengths of the last promise:  *)
(*                                                                         *)
(*   Concurrent = FALSE   the next status follows the current one: what    *)
(*                        the in-memory store of one process gives, which  *)
(*                        is also forgotten when the process restarts;     *)
(*   Concurrent = TRUE    the next status follows one the offer has had:   *)
(*                        what handlers give that read and write a shared  *)
(*                        store in two steps.                              *)
(***************************************************************************)
EXTENDS OfferModel

CONSTANT Concurrent   \* TRUE or FALSE

VARIABLES status,   \* [Offers -> Status \cup {"absent"}]
          trigger,  \* [Offers -> Trigger \cup {"absent"}]
          seen      \* history: the statuses each offer has ever had

vars == <<status, trigger, seen>>

LifeTypeOK ==
  /\ status \in [Offers -> Status \cup {"absent"}]
  /\ trigger \in [Offers -> Trigger \cup {"absent"}]
  /\ seen \in [Offers -> SUBSET Status]

Init ==
  /\ status = [o \in Offers |-> "absent"]
  /\ trigger = [o \in Offers |-> "absent"]
  /\ seen = [o \in Offers |-> {}]

Born(o, b) ==
  /\ status[o] = "absent"
  /\ MaySave(b)
  /\ status' = [status EXCEPT ![o] = b.status]
  /\ trigger' = [trigger EXCEPT ![o] = b.trigger]
  /\ seen' = [seen EXCEPT ![o] = @ \cup {b.status}]

(* The statuses a step of o may start from.                                *)
Base(o) == IF Concurrent THEN seen[o] ELSE {status[o]}

Move(o, n) ==
  /\ status[o] # "absent"
  /\ \E s \in Base(o) : n \in VALID_TRANSITIONS[s]
  /\ status' = [status EXCEPT ![o] = n]
  /\ seen' = [seen EXCEPT ![o] = @ \cup {n}]
  /\ UNCHANGED trigger

(* A process that keeps its offers in memory restarts.                     *)
Forget ==
  /\ ~Concurrent
  /\ status' = [o \in Offers |-> "absent"]
  /\ trigger' = [o \in Offers |-> "absent"]
  /\ UNCHANGED seen

Next ==
  \/ \E o \in Offers, b \in Brief : Born(o, b)
  \/ \E o \in Offers, n \in Status : Move(o, n)
  \/ Forget

Spec == Init /\ [][Next]_vars

-------------------------------------------------------------------------------
(* In a shared store, a marketer's offer that is or was active was         *)
(* approved before (F-003): no interleaving lets it skip approval.  (In    *)
(* memory an offer_id may be reused after a restart, so its history mixes  *)
(* several lives there.)                                                   *)
ActiveWasApproved ==
  Concurrent =>
    \A o \in Offers :
      trigger[o] = "marketer_initiated" /\ "active" \in seen[o]
        => "approved" \in seen[o]

(* An offer that went live without having been draft or approved (the      *)
(* purchase-triggered ones) is expired for good once it is expired, stale  *)
(* writers or not.                                                         *)
ShortLived(o) == seen[o] \subseteq {"active", "expired"}

ShortLivedExpiresOnce ==
  [][Concurrent =>
       \A o \in Offers : ShortLived(o) /\ status[o] = "expired"
                            => status'[o] = "expired"]_vars

===============================================================================
