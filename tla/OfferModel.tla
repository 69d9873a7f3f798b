------------------------------ MODULE OfferModel ------------------------------
(***************************************************************************)
(* The data every component of the Hub layer shares: what an OfferBrief is *)
(* as far as its lifecycle is concerned, and the table of transitions that *)
(* hub.py validates a status update against.                               *)
(*                                                                         *)
(* An OfferBrief keeps three fields here: its status, its trigger_type,    *)
(* and whether it carries a valid_until ("dated").  Segment, construct,    *)
(* channels, KPIs and texts do not decide a lifecycle step and are left    *)
(* out; risk_flags appear in module Designer, where they do.               *)
(***************************************************************************)
EXTENDS Naturals, FiniteSets

CONSTANTS Offers,   \* offer_id values
          NoOffer   \* what a lookup of an absent offer_id returns (None)

Status == {"draft", "approved", "active", "expired"}

Trigger == {"marketer_initiated", "purchase_triggered"}

(* The model validator of OfferBrief: a purchase-triggered offer has a     *)
(* valid_until.                                                            *)
Brief == {b \in [status : Status, trigger : Trigger, dated : BOOLEAN] :
            b.trigger = "purchase_triggered" => b.dated}

ASSUME NoOfferAssumption == NoOffer \notin Brief

(* Status s may be followed by status n.                                   *)
VALID_TRANSITIONS ==
  [s \in Status |-> CASE s = "draft"    -> {"approved"}
                      [] s = "approved" -> {"active"}
                      [] s = "active"   -> {"expired"}
                      [] s = "expired"  -> {}]

(* Mutant: the F-003 guard of save_offer is dropped.                       *)
MaySave_NoGuard(b) == TRUE

(* F-003: who may hold status=active when the Hub is asked to save it.     *)
MaySave(b) == b.status = "active" => b.trigger = "purchase_triggered"

WithStatus(b, s) == [b EXCEPT !.status = s]

===============================================================================
