------------------------------- MODULE Designer -------------------------------
(***************************************************************************)
(* The Designer handlers of api/designer.py in the same process as the     *)
(* Hub, with the stacking counts of services/fraud_check_service.py and    *)
(* the POST that services/hub_api_client.py sends to the Hub's own API.    *)
(*                                                                         *)
(* generate and approve go to the Hub store directly, past the handlers of *)
(* api/hub.py and their audit rows; generate-purchase goes through POST    *)
(* /offers, whose only client it is.  PUT /status is left to whoever holds *)
(* a system token.                                                         *)
(*                                                                         *)
(* Claude is external: it fails, or its answer parses to one of            *)
(* ClaudeBriefs, with a discount over the threshold or not.  The marketer  *)
(* is external too: an approval sends back the brief that generate         *)
(* returned, so its body differs from what is stored in status only.       *)
(***************************************************************************)
EXTENDS Hub

CONSTANTS Members,         \* user_id and member_id values: one dict counts both
          StackThreshold,  \* _OFFER_STACK_THRESHOLD
          ClaudeBriefs     \* what generate_from_objective may return

ASSUME DesignerAssumption ==
  /\ StackThreshold \in Nat
  /\ ClaudeBriefs \subseteq {b \in Brief : b.trigger = "marketer_initiated"}

VARIABLES
  counts,     \* _active_offer_counts
  issued,     \* the uuids drawn so far
  approving,  \* approve_offer handlers suspended before their write
  posting,    \* generate-purchase handlers awaiting the Hub's response
  sent,       \* POST /offers requests the Hub has not handled yet
  replies     \* the responses of the Designer

countVars    == <<counts, issued>>
purchaseVars == <<posting, sent>>
designerVars == <<counts, issued, approving, posting, sent, replies>>
systemVars   == <<hubVars, designerVars>>

(* What HubApiClient.save_offer posts.                                     *)
PurchaseBrief == [status |-> "active", trigger |-> "purchase_triggered",
                  dated |-> TRUE]

OpenApproval == [by : Requests, member : Members, offer : Offers, read : Brief]
HubPost      == [by : Requests, member : Members, offer : Offers]
DesignReply  == [to : Requests, op : {"generate", "approve", "purchase"},
                 offer : Offers \cup {NoOffer},
                 code : {200, 201, 404, 422, 500, 502, 503}]

DesignerTypeOK ==
  /\ HubTypeOK
  /\ counts \in [Members -> Nat]
  /\ issued \subseteq Offers
  /\ approving \subseteq OpenApproval
  /\ posting \subseteq HubPost
  /\ sent \subseteq HubPost
  /\ replies \subseteq DesignReply

DesignerInit ==
  /\ HubInit
  /\ counts = [m \in Members |-> 0]
  /\ issued = {}
  /\ approving = {}
  /\ posting = {}
  /\ sent = {}
  /\ replies = {}

-------------------------------------------------------------------------------
Unused(p) == /\ Idle(p)
             /\ \A r \in replies : r.to # p
             /\ \A x \in approving \cup posting \cup sent : x.by # p

(* In memory an approval does not suspend either.                          *)
ApprovalsDone == RedisEnabled \/ approving = {}

Ready(p) == Unused(p) /\ LoopFree /\ ApprovalsDone

Respond(p, op, o, c) ==
  replies' = replies \cup {[to |-> p, op |-> op, offer |-> o, code |-> c]}

(* Mutant: an offer_id may be drawn again.                                 *)
Issue_Again(o) == issued' = issued \cup {o}

(* uuid.uuid4().                                                           *)
Issue(o) == o \notin issued /\ issued' = issued \cup {o}

(* FraudCheckService.validate: any critical flag blocks.                   *)
blocked(m, overDiscount) == overDiscount \/ counts[m] >= StackThreshold

(* Mutant: the count goes the other way.                                   *)
record_active_offer_Down(m) == counts' = [counts EXCEPT ![m] = @ - 1]

record_active_offer(m) == counts' = [counts EXCEPT ![m] = @ + 1]

(* Three attempts have failed, or the answer does not parse.               *)
ClaudeFailed(p, op) ==
  /\ Ready(p)
  /\ Respond(p, op, NoOffer, 503)
  /\ UNCHANGED <<hubVars, countVars, approving, purchaseVars>>

(* Mutant: the offer is saved before the verdict is looked at.             *)
FraudRefused_SavedFirst(p, op, m, o, over) ==
  /\ Ready(p)
  /\ Issue(o)
  /\ blocked(m, over)
  /\ \E b \in ClaudeBriefs : save(o, b, "ok")
  /\ Respond(p, op, o, 422)
  /\ UNCHANGED <<handlerVars, auditVars, sweep, lapsed,
                 counts, approving, purchaseVars>>

FraudRefused(p, op, m, o, over) ==
  /\ Ready(p)
  /\ Issue(o)
  /\ blocked(m, over)
  /\ Respond(p, op, o, 422)
  /\ UNCHANGED <<hubVars, counts, approving, purchaseVars>>

(* POST /generate: generate_offer_brief, from the check to its response.   *)
GenerateSaved(p, m, o, b, over, out) ==
  /\ Ready(p)
  /\ Issue(o)
  /\ ~blocked(m, over)
  /\ save(o, b, out)
  /\ Respond(p, "generate", o, IF out = "ok" THEN 201 ELSE 503)
  /\ UNCHANGED <<handlerVars, auditVars, sweep, lapsed,
                 counts, approving, purchaseVars>>

generate_offer_brief(p) ==
  \/ ClaudeFailed(p, "generate")
  \/ \E m \in Members, o \in Offers, over \in BOOLEAN :
       \/ FraudRefused(p, "generate", m, o, over)
       \/ \E b \in ClaudeBriefs, out \in WriteOutcomes :
            GenerateSaved(p, m, o, b, over, out)

-------------------------------------------------------------------------------
(* POST /generate-purchase: the check, and the POST to the Hub is sent.    *)
PurchasePosts(p, m, o, over) ==
  /\ Ready(p)
  /\ Issue(o)
  /\ ~blocked(m, over)
  /\ LET x == [by |-> p, member |-> m, offer |-> o]
     IN posting' = posting \cup {x} /\ sent' = sent \cup {x}
  /\ UNCHANGED <<hubVars, counts, approving, replies>>

generate_purchase_triggered_offer(p) ==
  \/ ClaudeFailed(p, "purchase")
  \/ \E m \in Members, o \in Offers, over \in BOOLEAN :
       \/ FraudRefused(p, "purchase", m, o, over)
       \/ PurchasePosts(p, m, o, over)

(* The Hub handles the POST.  It can answer neither 422, for PurchaseBrief *)
(* may be saved, nor 409, for its uuid is fresh.                           *)
HubHandlesPost(x) ==
  /\ ApprovalsDone
  /\ \/ PostSaved(x.by, x.offer, PurchaseBrief)
     \/ \E out \in WriteOutcomes : PostUnavailable(x.by, x.offer, PurchaseBrief, out)
  /\ sent' = sent \ {x}
  /\ UNCHANGED <<countVars, approving, posting, replies>>

(* 201: HubApiClient logs offer.status.value, but the status that          *)
(* generate_from_purchase_context set is the plain string "active", so     *)
(* AttributeError ends the handler before the count.  Anything else is a   *)
(* HubSaveError.                                                           *)
PurchaseAnswered(x, a) ==
  /\ a.to = x.by
  /\ posting' = posting \ {x}
  /\ Respond(x.by, "purchase", x.offer, IF a.code = 201 THEN 500 ELSE 502)
  /\ UNCHANGED <<hubVars, countVars, approving, sent>>

(* httpx.RequestError: no answer within ten seconds, whether the Hub has   *)
(* handled the request, will handle it, or never gets it.                  *)
PurchaseUnreachable(x) ==
  /\ posting' = posting \ {x}
  /\ sent' \in {sent, sent \ {x}}
  /\ Respond(x.by, "purchase", x.offer, 502)
  /\ UNCHANGED <<hubVars, countVars, approving>>

purchase_post ==
  \/ \E x \in sent : HubHandlesPost(x)
  \/ \E x \in posting, a \in answers : PurchaseAnswered(x, a)
  \/ \E x \in posting : PurchaseUnreachable(x)

-------------------------------------------------------------------------------
(* POST /approve/{offer_id}: approve_offer up to its write.                *)
ApproveEnded(p, o, out) ==
  /\ Ready(p)
  /\ \/ out = "down" /\ Respond(p, "approve", o, 503)
     \/ out = "ok" /\ o \notin Stored /\ Respond(p, "approve", o, 404)
  /\ UNCHANGED <<hubVars, countVars, approving, purchaseVars>>

ApproveRefused(p, o) ==
  /\ Ready(p)
  /\ o \in Stored
  /\ ~Allowed(store[o].status, "approved")
  /\ Respond(p, "approve", o, 422)
  /\ UNCHANGED <<hubVars, countVars, approving, purchaseVars>>

(* Mutant: the status of the stored offer is not validated.                *)
ApproveRead_Unchecked(p, m, o) ==
  /\ Ready(p)
  /\ o \in Stored
  /\ approving' = approving \cup
       {[by |-> p, member |-> m, offer |-> o, read |-> store[o]]}
  /\ UNCHANGED <<hubVars, countVars, purchaseVars, replies>>

ApproveRead(p, m, o) ==
  /\ Ready(p)
  /\ o \in Stored
  /\ Allowed(store[o].status, "approved")
  /\ approving' = approving \cup
       {[by |-> p, member |-> m, offer |-> o, read |-> store[o]]}
  /\ UNCHANGED <<hubVars, countVars, purchaseVars, replies>>

(* Mutant: an approval publishes the offer at once.                        *)
ApproveDone_Publishes(x) ==
  /\ approving' = approving \ {x}
  /\ update(x.offer, WithStatus(x.read, "active"), "ok")
  /\ record_active_offer(x.member)
  /\ Respond(x.by, "approve", x.offer, 200)
  /\ UNCHANGED <<handlerVars, auditVars, sweep, lapsed, issued, purchaseVars>>

(* The write, the count, and no row in the Hub's audit log.                *)
ApproveDone(x) ==
  /\ approving' = approving \ {x}
  /\ update(x.offer, WithStatus(x.read, "approved"), "ok")
  /\ record_active_offer(x.member)
  /\ Respond(x.by, "approve", x.offer, 200)
  /\ UNCHANGED <<handlerVars, auditVars, sweep, lapsed, issued, purchaseVars>>

ApproveUnavailable(x, out) ==
  /\ out # "ok"
  /\ approving' = approving \ {x}
  /\ update(x.offer, WithStatus(x.read, "approved"), out)
  /\ Respond(x.by, "approve", x.offer, 503)
  /\ UNCHANGED <<handlerVars, auditVars, sweep, lapsed, countVars, purchaseVars>>

approve_offer_start(p) == \E o \in issued :
  \/ \E out \in ReadOutcomes : ApproveEnded(p, o, out)
  \/ ApproveRefused(p, o)
  \/ \E m \in Members : ApproveRead(p, m, o)

approve_offer_finish == \E x \in approving :
  \/ ApproveDone(x)
  \/ \E out \in WriteOutcomes : ApproveUnavailable(x, out)

-------------------------------------------------------------------------------
(* The singletons of deps.py and every suspended handler go.               *)
DesignerRestart ==
  /\ HubRestart
  /\ counts' = [m \in Members |-> 0]
  /\ approving' = {}
  /\ posting' = {}
  /\ sent' = {}
  /\ UNCHANGED <<issued, replies>>

(* The Hub side, for requests and an event loop it shares.                 *)
HubSide ==
  /\ \/ ApprovalsDone /\ \/ \E p \in Requests : Unused(p) /\ update_offer_status_start(p)
                         \/ _expire_offers_task
     \/ update_offer_status_finish
     \/ log_event
     \/ \E o \in Offers : Lapse(o)
  /\ UNCHANGED designerVars

DesignerNext ==
  \/ HubSide
  \/ \E p \in Requests : \/ generate_offer_brief(p)
                         \/ generate_purchase_triggered_offer(p)
                         \/ approve_offer_start(p)
  \/ purchase_post
  \/ approve_offer_finish
  \/ DesignerRestart

DesignerSpec == DesignerInit /\ [][DesignerNext]_systemVars

-------------------------------------------------------------------------------
(* An offer that the fraud check has refused never reaches the store, not  *)
(* even by a POST that is still under way (REQ-005).                       *)
RefusedNeverStored ==
  \A r \in replies : r.code = 422 /\ r.op # "approve" => r.offer \notin Stored

(* A purchase POST under way never meets an offer of its id in the store,  *)
(* nor another POST that carries the same: the 409 of the Hub stays out of *)
(* reach, although generations, lost replies, timeouts of the client and   *)
(* restarts come between the drawing of the uuid and the Hub's SET NX.     *)
PostsNeverConflict ==
  /\ \A x \in sent : x.offer \notin Stored
  /\ \A x, y \in sent : x.offer = y.offer => x = y

(* With the in-memory store no offer is counted twice for stacking: two    *)
(* approvals of one draft cannot both succeed, and counts and store are    *)
(* lost together.                                                          *)
CountedOnce ==
  ~RedisEnabled =>
    \A m \in Members :
      counts[m] <= Cardinality({o \in Stored : store[o].status # "draft"})

(* What the Hub's audit log lacks of the whole process, for the Designer   *)
(* writes past it: a status that has no row was given by a generation or   *)
(* an approval that answered so (or 503, the write taken all the same), or *)
(* is an expiry by the sweep after the date, or a write the Hub denied.    *)
DesignerTells(o, s) ==
  \E r \in replies : /\ r.offer = o
                     /\ \/ /\ r.op = "generate" /\ r.code \in {201, 503}
                           /\ \E b \in ClaudeBriefs : b.status = s
                        \/ /\ r.op = "approve" /\ r.code \in {200, 503}
                           /\ s = "approved"

EveryStatusIsTraced ==
  ~MayRestart /\ ~AuditMayFail =>
    \A o \in Offers : \A s \in seen[o] :
      \/ RowTells(o, s) \/ DesignerTells(o, s)
      \/ Denied(o) \/ (s = "expired" /\ o \in lapsed)

(* What the code does not keep.                                            *)
(* designer.py documents 201 for an offer generated and saved to Hub.      *)
SavedPurchaseIsAnswered201 ==
  \A a \in answers, r \in replies :
    a.code = 201 /\ r.op = "purchase" /\ r.to = a.to => r.code = 201

(* designer.py: the draft is auto-saved as draft.                          *)
AutoSavedAsDraft ==
  [][\A o \in Offers \ Stored :
       StatusOf(o)' # "absent" /\ TriggerOf(o)' = "marketer_initiated"
         => StatusOf(o)' = "draft"]_systemVars

===============================================================================
