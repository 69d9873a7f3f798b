------------------------------ MODULE MCDesigner ------------------------------
(***************************************************************************)
(* Designer for TLC: what Claude answers, and the interchangeable values.  *)
(***************************************************************************)
EXTENDS Designer, TLC

(* Claude keeps to "status": "draft" of the prompt; an offer may be dated. *)
DraftBriefs == {b \in Brief : b.trigger = "marketer_initiated" /\ b.status = "draft"}

(* Claude answers with any status OfferBrief accepts.                      *)
AnyBriefs == {b \in Brief : b.trigger = "marketer_initiated"}

Symmetry == Permutations(Requests) \cup Permutations(Offers) \cup Permutations(Members)

===============================================================================
