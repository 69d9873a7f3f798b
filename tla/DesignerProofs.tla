---------------------------- MODULE DesignerProofs ----------------------------
(***************************************************************************)
(* Theorems about Designer, for any offers, requests, members, threshold   *)
(* and store.  The Hub's part of a step is covered by the lemmas of        *)
(* HubProofs; what is left are the two writes the Designer makes itself.   *)
(***************************************************************************)
EXTENDS Designer, HubProofs, FiniteSetTheorems

(* An approval under way remembers of its offer what OpenTruthful says of  *)
(* a status update; in memory it has the event loop to itself.             *)
ApproveTruthful ==
  \A x \in approving : /\ x.offer \in Stored
                       /\ x.read.status \in seen[x.offer]
                       /\ x.read.trigger = store[x.offer].trigger
                       /\ Allowed(x.read.status, "approved")

MemoryAlone ==
  ~RedisEnabled => \A x \in approving : /\ open = {} /\ sweep.at = "asleep"
                                        /\ x.read = store[x.offer]
                                        /\ \A y \in approving : x = y

(* Every offer_id in use was issued, and one that was refused is in no     *)
(* request that may still store it.                                        *)
OnlyIssued == Stored \subseteq issued /\ \A x \in sent : x.offer \in issued

RefusedGone ==
  \A r \in replies : r.code = 422 /\ r.op # "approve" =>
    /\ r.offer \in issued
    /\ r.offer \notin Stored
    /\ \A x \in sent : x.offer # r.offer

DesignerInv ==
  /\ HubInv
  /\ DesignerTypeOK
  /\ ApproveTruthful
  /\ MemoryAlone
  /\ OnlyIssued
  /\ RefusedGone

-------------------------------------------------------------------------------
(* Types.                                                                  *)

LEMMA PurchaseBriefType == PurchaseBrief \in Brief
BY DEF PurchaseBrief, Brief, Status, Trigger

LEMMA RespondType ==
  ASSUME replies \subseteq DesignReply, NEW p \in Requests,
         NEW op \in {"generate", "approve", "purchase"}, NEW o \in Offers \cup {NoOffer},
         NEW c \in {200, 201, 404, 422, 500, 502, 503}, Respond(p, op, o, c)
  PROVE  replies' \subseteq DesignReply
BY DEF Respond, DesignReply

(* The steps of the Designer that leave the Hub's variables alone.         *)
Local == \/ \E p \in Requests :
              \/ ClaudeFailed(p, "generate") \/ ClaudeFailed(p, "purchase")
              \/ \E m \in Members, o \in Offers, over \in BOOLEAN :
                   \/ FraudRefused(p, "generate", m, o, over)
                   \/ FraudRefused(p, "purchase", m, o, over)
                   \/ PurchasePosts(p, m, o, over)
              \/ \E o \in issued :
                   \/ \E out \in ReadOutcomes : ApproveEnded(p, o, out)
                   \/ ApproveRefused(p, o)
                   \/ \E m \in Members : ApproveRead(p, m, o)
         \/ \E x \in posting, a \in answers : PurchaseAnswered(x, a)
         \/ \E x \in posting : PurchaseUnreachable(x)

(* Those that write to the store past the Hub.                             *)
Generates ==
  \E p \in Requests, m \in Members, o \in Offers, over \in BOOLEAN,
     b \in ClaudeBriefs, out \in WriteOutcomes : GenerateSaved(p, m, o, b, over, out)

LEMMA DesignerSteps ==
  ASSUME DesignerNext
  PROVE  \/ HubSide \/ Local \/ Generates \/ approve_offer_finish \/ DesignerRestart
         \/ \E x \in sent : HubHandlesPost(x)
BY DEF DesignerNext, generate_offer_brief, generate_purchase_triggered_offer,
       approve_offer_start, purchase_post, Local, Generates

(* What the Hub does in a step of the system is a step of the Hub.         *)
LEMMA HubSteps ==
  ASSUME DesignerInv, HubSide \/ DesignerRestart \/ \E x \in sent : HubHandlesPost(x)
  PROVE  HubNext
<1>1. CASE HubSide
  BY <1>1 DEF HubSide, HubNext, HubStep
<1>2. CASE DesignerRestart
  BY <1>2 DEF DesignerRestart, HubNext
<1>3. ASSUME NEW x \in sent, HubHandlesPost(x)
      PROVE  HubNext
  <2>1. x.by \in Requests /\ x.offer \in Offers
    BY DEF DesignerInv, DesignerTypeOK, HubPost
  <2>2. save_offer(x.by)
    BY <1>3, <2>1, PurchaseBriefType DEF HubHandlesPost, save_offer
  <2>3. QED
    BY <2>1, <2>2 DEF HubNext, HubStep
<1>4. QED
  BY <1>1, <1>2, <1>3

LEMMA LocalType ==
  ASSUME DesignerInv, Local
  PROVE  DesignerTypeOK' /\ UNCHANGED hubVars
<1> USE DEF DesignerInv, DesignerTypeOK
<1>1. UNCHANGED hubVars
  BY DEF Local, ClaudeFailed, FraudRefused, PurchasePosts, ApproveEnded,
         ApproveRefused, ApproveRead, PurchaseAnswered, PurchaseUnreachable
<1>2. HubTypeOK'
  BY <1>1, TypeStep DEF HubInv
<1>3. ASSUME NEW p \in Requests, NEW op \in {"generate", "purchase"}, ClaudeFailed(p, op)
      PROVE  DesignerTypeOK'
  <2>1. replies' \subseteq DesignReply
    BY <1>3, RespondType DEF ClaudeFailed
  <2>2. QED
    BY <1>2, <1>3, <2>1 DEF ClaudeFailed, countVars, purchaseVars
<1>4. ASSUME NEW p \in Requests, NEW op \in {"generate", "purchase"}, NEW m \in Members,
             NEW o \in Offers, NEW over \in BOOLEAN, FraudRefused(p, op, m, o, over)
      PROVE  DesignerTypeOK'
  <2>1. replies' \subseteq DesignReply
    BY <1>4, RespondType DEF FraudRefused
  <2>2. QED
    BY <1>2, <1>4, <2>1 DEF FraudRefused, Issue, purchaseVars
<1>5. ASSUME NEW p \in Requests, NEW m \in Members, NEW o \in Offers,
             NEW over \in BOOLEAN, PurchasePosts(p, m, o, over)
      PROVE  DesignerTypeOK'
  BY <1>2, <1>5 DEF PurchasePosts, Issue, HubPost
<1>6. ASSUME NEW p \in Requests, NEW o \in issued,
             ApproveRefused(p, o) \/ \E out \in ReadOutcomes : ApproveEnded(p, o, out)
      PROVE  DesignerTypeOK'
  <2>1. replies' \subseteq DesignReply
    BY <1>6, RespondType DEF ApproveRefused, ApproveEnded
  <2>2. QED
    BY <1>2, <1>6, <2>1 DEF ApproveRefused, ApproveEnded, countVars, purchaseVars
<1>7. ASSUME NEW p \in Requests, NEW o \in issued, NEW m \in Members, ApproveRead(p, m, o)
      PROVE  DesignerTypeOK'
  <2>1. store[o] \in Brief
    BY <1>7, StoredBrief DEF ApproveRead, HubTypeOK
  <2>2. QED
    BY <1>2, <1>7, <2>1 DEF ApproveRead, OpenApproval, countVars, purchaseVars
<1>8. ASSUME NEW x \in posting,
             PurchaseUnreachable(x) \/ \E a \in answers : PurchaseAnswered(x, a)
      PROVE  DesignerTypeOK'
  <2>1. x.by \in Requests /\ x.offer \in Offers
    BY DEF HubPost
  <2>2. replies' \subseteq DesignReply
    BY <1>8, <2>1, RespondType DEF PurchaseUnreachable, PurchaseAnswered
  <2>3. QED
    BY <1>2, <1>8, <2>2 DEF PurchaseUnreachable, PurchaseAnswered, countVars
<1>9. QED
  BY <1>1, <1>3, <1>4, <1>5, <1>6, <1>7, <1>8 DEF Local

-------------------------------------------------------------------------------
(***************************************************************************)
(* The Designer's own writes: lawful, whatever Claude returns.             *)
(***************************************************************************)
HubBystanders == UNCHANGED <<handlerVars, auditVars, sweep, lapsed>>

LEMMA PutKeepsHubInv ==
  ASSUME HubInv, StoreStep, HubBystanders,
         RedisEnabled \/ (open = {} /\ sweep.at = "asleep")
  PROVE  HubInv'
<1>1. StoreTypeOK'
  <2>1. CASE UNCHANGED storeVars
    BY <2>1 DEF storeVars, HubInv, HubTypeOK, StoreTypeOK
  <2>2. CASE \E o \in Offers, b \in Brief : LawfulPut(o, b)
    BY <2>2, PutType DEF LawfulPut, HubInv, HubTypeOK
  <2>3. QED
    BY <2>1, <2>2 DEF StoreStep
<1>2. HubTypeOK'
  BY <1>1 DEF HubInv, HubTypeOK, HubBystanders, handlerVars, auditVars
<1>3. UNCHANGED <<open, sweep, lapsed, auditTasks, auditLog>>
  BY DEF HubBystanders, handlerVars, auditVars
<1>4. StoreRecorded'
  BY StoreStepKeeps
<1>5. OpenTruthful' /\ SweepTruthful' /\ AuditTruthful'
  BY <1>3, OpenKept, SweepKept, AuditKept
<1>6. MemorySerial'
  BY <1>3 DEF HubInv, MemorySerial
<1>7. QED
  BY <1>2, <1>4, <1>5, <1>6 DEF HubInv

LEMMA GenerateStoreStep ==
  ASSUME DesignerInv,
         NEW p \in Requests, NEW m \in Members, NEW o \in Offers, NEW over \in BOOLEAN,
         NEW b \in ClaudeBriefs, NEW out \in WriteOutcomes,
         GenerateSaved(p, m, o, b, over, out)
  PROVE  /\ StoreStep /\ HubBystanders
         /\ RedisEnabled \/ (open = {} /\ sweep.at = "asleep" /\ approving = {})
         /\ Stored' \subseteq Stored \cup {o}
<1>1. b \in Brief
  BY DesignerAssumption
<1>2. StoreStep
  BY <1>1 DEF GenerateSaved, save, StoreStep, LawfulPut
<1>3. Stored' \subseteq Stored \cup {o}
  BY DEF GenerateSaved, save, Put, storeVars, Stored, DesignerInv, HubInv, HubTypeOK, StoreTypeOK
<1>4. QED
  BY <1>2, <1>3 DEF GenerateSaved, HubBystanders, Ready, LoopFree, ApprovalsDone

LEMMA ApproveStoreStep ==
  ASSUME DesignerInv, NEW x \in approving, NEW out,
         update(x.offer, WithStatus(x.read, "approved"), out)
  PROVE  StoreStep /\ Stored' \subseteq Stored
<1>1. x.offer \in Offers /\ x.read \in Brief
  BY DEF DesignerInv, DesignerTypeOK, OpenApproval
<1>2. /\ WithStatus(x.read, "approved") \in Brief
      /\ WithStatus(x.read, "approved").status = "approved"
      /\ WithStatus(x.read, "approved").trigger = x.read.trigger
  BY <1>1, BriefWithStatus DEF Status
<1>3. x.read.status \in WriteBase(x.offer) /\ x.offer \in Stored
  BY DEF DesignerInv, ApproveTruthful, MemoryAlone, WriteBase
<1>4. Stored' \subseteq Stored
  BY <1>3 DEF update, Put, storeVars, Stored, DesignerInv, HubInv, HubTypeOK, StoreTypeOK
<1>5. CASE out # "down"
  <2>1. LawfulPut(x.offer, WithStatus(x.read, "approved"))
    BY <1>1, <1>2, <1>3, <1>5 DEF update, LawfulPut, DesignerInv, ApproveTruthful
  <2>2. QED
    BY <1>1, <1>2, <1>4, <2>1 DEF StoreStep
<1>6. CASE out = "down"
  BY <1>4, <1>6 DEF update, StoreStep
<1>7. QED
  BY <1>5, <1>6

-------------------------------------------------------------------------------
(* The store only grows by a generation and by a POST that is under way.   *)
LEMMA HubSideStored ==
  ASSUME DesignerInv, HubSide
  PROVE  Stored' \subseteq Stored
<1>1. ASSUME NEW o \in Stored, NEW b, NEW out, update(o, b, out)
      PROVE  Stored' \subseteq Stored
  BY <1>1 DEF update, Put, storeVars, Stored, DesignerInv, HubInv, HubTypeOK, StoreTypeOK
<1>2. CASE update_offer_status_finish
  BY <1>1, <1>2 DEF update_offer_status_finish, PutDone, PutUnavailable,
                    DesignerInv, HubInv, OpenTruthful
<1>3. CASE \E t \in sweep.todo, out \in WriteOutcomes : SweepExpire(t, out)
  BY <1>1, <1>3 DEF SweepExpire, DesignerInv, HubInv, SweepTruthful
<1>4. CASE UNCHANGED store
  BY <1>4 DEF Stored
<1>5. QED
  BY <1>2, <1>3, <1>4
     DEF HubSide, update_offer_status_start, ReadFailed, PutRefused, PutRead,
         _expire_offers_task, SweepWake, SweepListed, SweepListFailed, log_event,
         AuditInsert, AuditRefused, Lapse, storeVars

LEMMA PostStored ==
  ASSUME DesignerInv, NEW x \in sent, HubHandlesPost(x)
  PROVE  Stored' \subseteq Stored \cup {x.offer}
<1>1. x.offer \in Offers
  BY DEF DesignerInv, DesignerTypeOK, HubPost
<1>2. QED
  BY <1>1 DEF HubHandlesPost, PostSaved, PostUnavailable, save, Put, storeVars, Stored,
              DesignerInv, HubInv, HubTypeOK, StoreTypeOK

(* What an approval under way remembers survives other people's steps.     *)
LEMMA ApprovalsKept ==
  ASSUME DesignerInv, StoreStep, approving' \subseteq approving
  PROVE  ApproveTruthful'
<1>1. \A x \in approving : x.offer \in Offers
  BY DEF DesignerInv, DesignerTypeOK, OpenApproval
<1>2. QED
  BY <1>1, StoreStepKeeps DEF DesignerInv, ApproveTruthful, Allowed

-------------------------------------------------------------------------------
(* The invariant, one kind of step after the other.                        *)

LEMMA LocalStep ==
  ASSUME DesignerInv, Local
  PROVE  DesignerInv'
<1>1. DesignerTypeOK' /\ UNCHANGED hubVars
  BY LocalType
<1>2. UNCHANGED <<store, seen, open, sweep>> /\ Stored' = Stored
  BY <1>1 DEF hubVars, Stored
<1>3. HubInv'
  BY <1>1, InvStep DEF DesignerInv
<1>4. CASE \E p \in Requests, o \in issued, m \in Members : ApproveRead(p, m, o)
  <2>1. PICK p \in Requests, o \in issued, m \in Members : ApproveRead(p, m, o)
    BY <1>4
  <2>2. UNCHANGED <<issued, sent, replies>>
    BY <2>1 DEF ApproveRead, countVars, purchaseVars
  <2>3. /\ approving' = approving \cup
             {[by |-> p, member |-> m, offer |-> o, read |-> store[o]]}
        /\ o \in Stored /\ Allowed(store[o].status, "approved")
    BY <2>1 DEF ApproveRead
  <2>4. \A x \in approving' :
           x \in approving \/ (x.offer = o /\ x.read = store[o])
    BY <2>3
  <2>5. ApproveTruthful'
    BY <1>2, <2>3, <2>4 DEF DesignerInv, ApproveTruthful, HubInv, StoreRecorded, Allowed
  <2>6. MemoryAlone'
    <3>1. SUFFICES ASSUME ~RedisEnabled
                   PROVE  MemoryAlone'
      BY DEF MemoryAlone
    <3>2. approving = {} /\ open = {} /\ sweep.at = "asleep"
      BY <2>1, <3>1 DEF ApproveRead, Ready, LoopFree, ApprovalsDone
    <3>3. QED
      BY <1>2, <2>3, <3>2 DEF MemoryAlone
  <2>7. OnlyIssued' /\ RefusedGone'
    BY <1>2, <2>2 DEF DesignerInv, OnlyIssued, RefusedGone
  <2>8. QED
    BY <1>1, <1>3, <2>5, <2>6, <2>7 DEF DesignerInv
<1>5. CASE ~\E p \in Requests, o \in issued, m \in Members : ApproveRead(p, m, o)
  <2>1. UNCHANGED approving
    BY <1>5 DEF Local, ClaudeFailed, FraudRefused, PurchasePosts, ApproveEnded,
                ApproveRefused, PurchaseAnswered, PurchaseUnreachable
  <2>2. ApproveTruthful' /\ MemoryAlone'
    BY <1>2, <2>1 DEF DesignerInv, ApproveTruthful, MemoryAlone, Allowed
  <2>3. OnlyIssued' /\ RefusedGone'
    <3>1. ASSUME NEW p \in Requests, NEW op \in {"generate", "purchase"}, NEW m \in Members,
                 NEW o \in Offers, NEW over \in BOOLEAN, FraudRefused(p, op, m, o, over)
          PROVE  OnlyIssued' /\ RefusedGone'
      <4>1. /\ o \notin issued /\ issued' = issued \cup {o} /\ UNCHANGED sent
            /\ replies' = replies \cup {[to |-> p, op |-> op, offer |-> o, code |-> 422]}
        BY <3>1 DEF FraudRefused, Issue, Respond, purchaseVars
      <4>2. \A r \in replies' : r \in replies \/ r.offer = o
        BY <4>1
      <4>3. QED
        BY <1>2, <4>1, <4>2 DEF DesignerInv, OnlyIssued, RefusedGone
    <3>2. ASSUME NEW p \in Requests, NEW m \in Members, NEW o \in Offers,
                 NEW over \in BOOLEAN, PurchasePosts(p, m, o, over)
          PROVE  OnlyIssued' /\ RefusedGone'
      <4>1. /\ o \notin issued /\ issued' = issued \cup {o} /\ UNCHANGED replies
            /\ sent' = sent \cup {[by |-> p, member |-> m, offer |-> o]}
        BY <3>2 DEF PurchasePosts, Issue
      <4>2. \A x \in sent' : x \in sent \/ x.offer = o
        BY <4>1
      <4>3. QED
        BY <1>2, <4>1, <4>2 DEF DesignerInv, OnlyIssued, RefusedGone
    <3>3. ASSUME issued' = issued, sent' \subseteq sent,
                 \A r \in replies' : r \in replies \/ r.code # 422 \/ r.op = "approve"
          PROVE  OnlyIssued' /\ RefusedGone'
      BY <1>2, <3>3 DEF DesignerInv, OnlyIssued, RefusedGone
    <3>4. ASSUME NEW p \in Requests, NEW o,
                 \/ ClaudeFailed(p, "generate") \/ ClaudeFailed(p, "purchase")
                 \/ ApproveRefused(p, o)
                 \/ \E out \in ReadOutcomes : ApproveEnded(p, o, out)
          PROVE  OnlyIssued' /\ RefusedGone'
      BY <3>3, <3>4 DEF ClaudeFailed, ApproveRefused, ApproveEnded, Respond, countVars,
                        purchaseVars
    <3>5. ASSUME NEW x \in posting,
                 PurchaseUnreachable(x) \/ \E a \in answers : PurchaseAnswered(x, a)
          PROVE  OnlyIssued' /\ RefusedGone'
      BY <3>3, <3>5 DEF PurchaseUnreachable, PurchaseAnswered, Respond, countVars
    <3>6. QED
      BY <1>5, <3>1, <3>2, <3>4, <3>5 DEF Local
  <2>4. QED
    BY <1>1, <1>3, <2>2, <2>3 DEF DesignerInv
<1>6. QED
  BY <1>4, <1>5

LEMMA HubSideStep ==
  ASSUME DesignerInv, HubSide
  PROVE  DesignerInv'
<1>1. HubNext /\ UNCHANGED designerVars
  BY HubSteps DEF HubSide
<1>2. HubInv'
  BY <1>1, InvStep DEF DesignerInv
<1>3. DesignerTypeOK'
  BY <1>1, <1>2 DEF DesignerInv, DesignerTypeOK, HubInv, designerVars
<1>4. CASE approving = {}
  BY <1>1, <1>2, <1>3, <1>4, HubSideStored
     DEF DesignerInv, ApproveTruthful, MemoryAlone, OnlyIssued, RefusedGone, designerVars
<1>5. CASE approving # {}
  <2>1. ASSUME ~RedisEnabled
        PROVE  UNCHANGED <<store, seen, open, sweep>>
    <3>1. open = {} /\ ~ApprovalsDone
      BY <1>5, <2>1 DEF DesignerInv, MemoryAlone, ApprovalsDone
    <3>2. QED
      BY <3>1 DEF HubSide, update_offer_status_finish, log_event, AuditInsert, AuditRefused,
                  Lapse, storeVars, handlerVars
  <2>2. StoreStep
    <3>1. CASE RedisEnabled
      BY <1>1, <3>1, StoreSteps
         DEF DesignerInv, StoreStep, HubRestart, StoreRestart, storeVars
    <3>2. CASE ~RedisEnabled
      BY <2>1, <3>2 DEF StoreStep, storeVars
    <3>3. QED
      BY <3>1, <3>2
  <2>3. ApproveTruthful'
    BY <1>1, <2>2, ApprovalsKept DEF designerVars
  <2>4. MemoryAlone'
    BY <1>1, <2>1 DEF DesignerInv, MemoryAlone, designerVars
  <2>5. QED
    BY <1>1, <1>2, <1>3, <2>3, <2>4, HubSideStored
       DEF DesignerInv, OnlyIssued, RefusedGone, designerVars
<1>6. QED
  BY <1>4, <1>5

LEMMA PostStep ==
  ASSUME DesignerInv, NEW x \in sent, HubHandlesPost(x)
  PROVE  DesignerInv'
<1>1. HubNext
  BY HubSteps
<1>2. HubInv'
  BY <1>1, InvStep DEF DesignerInv
<1>3. /\ UNCHANGED <<counts, issued, approving, posting, replies, open, sweep>>
      /\ sent' = sent \ {x} /\ ApprovalsDone
  BY DEF HubHandlesPost, PostSaved, PostUnavailable, countVars
<1>4. DesignerTypeOK'
  BY <1>2, <1>3 DEF DesignerInv, DesignerTypeOK, HubInv
<1>5. StoreStep
  <2>1. x.by \in Requests /\ x.offer \in Offers
    BY DEF DesignerInv, DesignerTypeOK, HubPost
  <2>2. save_offer(x.by)
    BY <2>1, PurchaseBriefType DEF HubHandlesPost, save_offer
  <2>3. QED
    BY <2>1, <2>2, HandlerStoreStep DEF DesignerInv
<1>6. ApproveTruthful'
  BY <1>3, <1>5, ApprovalsKept
<1>7. MemoryAlone'
  BY <1>3 DEF DesignerInv, MemoryAlone, ApprovalsDone
<1>8. Stored' \subseteq Stored \cup {x.offer}
  BY PostStored
<1>9. OnlyIssued' /\ RefusedGone'
  BY <1>3, <1>8 DEF DesignerInv, OnlyIssued, RefusedGone
<1>10. QED
  BY <1>2, <1>4, <1>6, <1>7, <1>9 DEF DesignerInv

LEMMA GenerateStep ==
  ASSUME DesignerInv, Generates
  PROVE  DesignerInv' /\ StoreStep
<1>1. PICK p \in Requests, m \in Members, o \in Offers, over \in BOOLEAN,
           b \in ClaudeBriefs, out \in WriteOutcomes : GenerateSaved(p, m, o, b, over, out)
  BY DEF Generates
<1>2. /\ StoreStep /\ HubBystanders
      /\ RedisEnabled \/ (open = {} /\ sweep.at = "asleep" /\ approving = {})
      /\ Stored' \subseteq Stored \cup {o}
  BY <1>1, GenerateStoreStep
<1>3. HubInv'
  BY <1>2, PutKeepsHubInv DEF DesignerInv
<1>4. PICK c \in {201, 503} : Respond(p, "generate", o, c)
  BY <1>1 DEF GenerateSaved
<1>5. /\ UNCHANGED <<counts, approving, posting, sent>>
      /\ o \notin issued /\ issued' = issued \cup {o}
      /\ replies' = replies \cup {[to |-> p, op |-> "generate", offer |-> o, code |-> c]}
  BY <1>1, <1>4 DEF GenerateSaved, Issue, Respond, purchaseVars
<1>6. DesignerTypeOK'
  <2>1. replies' \subseteq DesignReply
    BY <1>4, RespondType DEF DesignerInv, DesignerTypeOK
  <2>2. QED
    BY <1>3, <1>5, <2>1 DEF DesignerInv, DesignerTypeOK, HubInv
<1>7. ApproveTruthful'
  BY <1>2, <1>5, ApprovalsKept
<1>8. MemoryAlone'
  BY <1>2, <1>5 DEF MemoryAlone
<1>9. OnlyIssued' /\ RefusedGone'
  BY <1>2, <1>5 DEF DesignerInv, OnlyIssued, RefusedGone
<1>10. QED
  BY <1>2, <1>3, <1>6, <1>7, <1>8, <1>9 DEF DesignerInv

LEMMA ApproveFinishStep ==
  ASSUME DesignerInv, approve_offer_finish
  PROVE  DesignerInv' /\ StoreStep
<1>1. PICK x \in approving : ApproveDone(x) \/ \E out \in WriteOutcomes : ApproveUnavailable(x, out)
  BY DEF approve_offer_finish
<1>2. /\ x.by \in Requests /\ x.member \in Members /\ x.offer \in Offers
      /\ RedisEnabled \/ (open = {} /\ sweep.at = "asleep" /\ approving = {x})
  BY DEF DesignerInv, DesignerTypeOK, OpenApproval, MemoryAlone
<1>3. StoreStep /\ Stored' \subseteq Stored
  BY <1>1, ApproveStoreStep DEF ApproveDone, ApproveUnavailable
<1>4. HubBystanders
  BY <1>1 DEF ApproveDone, ApproveUnavailable, HubBystanders
<1>5. HubInv'
  BY <1>2, <1>3, <1>4, PutKeepsHubInv DEF DesignerInv
<1>6. PICK c \in {200, 503} : Respond(x.by, "approve", x.offer, c)
  BY <1>1 DEF ApproveDone, ApproveUnavailable
<1>7. /\ approving' = approving \ {x} /\ UNCHANGED <<issued, posting, sent>>
      /\ UNCHANGED counts \/ record_active_offer(x.member)
  BY <1>1 DEF ApproveDone, ApproveUnavailable, countVars, purchaseVars
<1>8. DesignerTypeOK'
  <2>1. replies' \subseteq DesignReply
    BY <1>2, <1>6, RespondType DEF DesignerInv, DesignerTypeOK
  <2>2. counts' \in [Members -> Nat]
    BY <1>2, <1>7 DEF record_active_offer, DesignerInv, DesignerTypeOK
  <2>3. QED
    BY <1>5, <1>7, <2>1, <2>2 DEF DesignerInv, DesignerTypeOK, HubInv
<1>9. ApproveTruthful'
  BY <1>3, <1>7, ApprovalsKept
<1>10. MemoryAlone'
  BY <1>2, <1>7 DEF MemoryAlone
<1>11. OnlyIssued' /\ RefusedGone'
  BY <1>3, <1>6, <1>7 DEF DesignerInv, OnlyIssued, RefusedGone, Respond
<1>12. QED
  BY <1>3, <1>5, <1>8, <1>9, <1>10, <1>11 DEF DesignerInv

LEMMA DesignerRestartStep ==
  ASSUME DesignerInv, DesignerRestart
  PROVE  DesignerInv'
<1>1. HubRestart /\ HubNext
  BY HubSteps DEF DesignerRestart
<1>2. HubInv'
  BY <1>1, InvStep DEF DesignerInv
<1>3. Stored' \subseteq Stored
  BY <1>1 DEF HubRestart, StoreRestart, Stored
<1>4. QED
  BY <1>2, <1>3 DEF DesignerRestart, DesignerInv, DesignerTypeOK, HubInv, ApproveTruthful,
                    MemoryAlone, OnlyIssued, RefusedGone

LEMMA SystemStep ==
  DesignerInv /\ [DesignerNext]_systemVars => DesignerInv'
<1> SUFFICES ASSUME DesignerInv, [DesignerNext]_systemVars
             PROVE  DesignerInv'
  OBVIOUS
<1>1. CASE DesignerNext
  BY <1>1, DesignerSteps, LocalStep, HubSideStep, PostStep, GenerateStep,
     ApproveFinishStep, DesignerRestartStep
<1>2. CASE UNCHANGED systemVars
  <2>1. UNCHANGED hubVars /\ UNCHANGED designerVars
    BY <1>2 DEF systemVars
  <2>2. HubInv' /\ UNCHANGED <<store, seen, open, sweep>>
    BY <2>1, InvStep DEF DesignerInv, hubVars
  <2>3. QED
    BY <2>1, <2>2 DEF designerVars, DesignerInv, DesignerTypeOK, HubInv, ApproveTruthful,
                      MemoryAlone, OnlyIssued, RefusedGone, Stored, Allowed
<1>3. QED
  BY <1>1, <1>2

LEMMA DesignerInvariant == DesignerSpec => []DesignerInv
<1>1. DesignerInit => DesignerInv
  <2>1. ASSUME DesignerInit
        PROVE  DesignerInv
    <3>1. HubTypeOK /\ Stored = {} /\ sweep = Asleep
      BY <2>1 DEF DesignerInit, HubInit, StoreInit, HubTypeOK, StoreTypeOK, Asleep, Sweep, Stored
    <3>2. HubInv
      BY <2>1, <3>1 DEF DesignerInit, HubInit, HubInv, StoreRecorded, OpenTruthful,
                        SweepTruthful, MemorySerial, AuditTruthful, Asleep
    <3>3. QED
      BY <2>1, <3>1, <3>2 DEF DesignerInit, DesignerInv, DesignerTypeOK, ApproveTruthful,
                              MemoryAlone, OnlyIssued, RefusedGone
  <2>2. QED
    BY <2>1
<1>2. DesignerInv /\ [DesignerNext]_systemVars => DesignerInv'
  BY SystemStep
<1>3. QED
  BY <1>1, <1>2, PTL DEF DesignerSpec

-------------------------------------------------------------------------------
(* The variables of the system keep their types.                           *)
THEOREM DesignerTypeCorrect == DesignerSpec => []DesignerTypeOK
<1>1. DesignerInv => DesignerTypeOK
  BY DEF DesignerInv
<1>2. QED
  BY <1>1, DesignerInvariant, PTL

(* REQ-005: what the fraud check has refused is not stored, then or later. *)
THEOREM DesignerRefusedNeverStored == DesignerSpec => []RefusedNeverStored
<1>1. DesignerInv => RefusedNeverStored
  BY DEF DesignerInv, RefusedGone, RefusedNeverStored
<1>2. QED
  BY <1>1, DesignerInvariant, PTL

-------------------------------------------------------------------------------
(* An offer_id comes to the store by a generation, with Claude's brief, or *)
(* by a POST of a purchase offer: the plain SETs of status updates, of     *)
(* approvals and of the sweep only ever meet an offer that is there.       *)
LEMMA NewOfferStep ==
  ASSUME DesignerInv, [DesignerNext]_systemVars,
         NEW o \in Stored' \ Stored
  PROVE  store'[o] \in ClaudeBriefs \cup {PurchaseBrief}
<1>1. store \in [Offers -> Brief \cup {NoOffer}]
  BY DEF DesignerInv, HubInv, HubTypeOK, StoreTypeOK
<1>2. CASE HubSide \/ Local \/ approve_offer_finish \/ DesignerRestart \/ UNCHANGED systemVars
  <2>1. CASE HubSide
    BY <2>1, HubSideStored
  <2>2. CASE Local \/ UNCHANGED systemVars
    BY <2>2, LocalType DEF systemVars, hubVars, Stored
  <2>3. CASE approve_offer_finish
    <3>1. PICK x \in approving :
            \E out : update(x.offer, WithStatus(x.read, "approved"), out)
      BY <2>3 DEF approve_offer_finish, ApproveDone, ApproveUnavailable
    <3>2. QED
      BY <3>1, ApproveStoreStep
  <2>4. CASE DesignerRestart
    BY <2>4 DEF DesignerRestart, HubRestart, StoreRestart, Stored
  <2>5. QED
    BY <1>2, <2>1, <2>2, <2>3, <2>4
<1>3. ASSUME NEW p, NEW b, NEW out, save(p, b, out), p \in Offers
      PROVE  store'[o] = b
  BY <1>1, <1>3 DEF save, Put, storeVars, Stored
<1>4. CASE Generates
  BY <1>3, <1>4 DEF Generates, GenerateSaved
<1>5. ASSUME NEW x \in sent, HubHandlesPost(x)
      PROVE  store'[o] = PurchaseBrief
  <2>1. x.offer \in Offers
    BY DEF DesignerInv, DesignerTypeOK, HubPost
  <2>2. \E out : save(x.offer, PurchaseBrief, out)
    BY <1>5 DEF HubHandlesPost, PostSaved, PostUnavailable
  <2>3. QED
    BY <1>3, <2>1, <2>2
<1>6. QED
  BY <1>2, <1>4, <1>5, DesignerSteps

(* designer.py's "auto-save as draft" depends on Claude alone: if every    *)
(* brief it returns is a draft, a marketer's offer enters the store as one,*)
(* whatever stale writes, restarts and purchases go on beside it.          *)
THEOREM DesignerAutoSavedAsDraft ==
  ASSUME \A b \in ClaudeBriefs : b.status = "draft"
  PROVE  DesignerSpec => AutoSavedAsDraft
<1>1. ASSUME DesignerInv, [DesignerNext]_systemVars, NEW o \in Offers \ Stored,
             StatusOf(o)' # "absent", TriggerOf(o)' = "marketer_initiated"
      PROVE  StatusOf(o)' = "draft"
  <2>1. o \in Stored'
    BY <1>1 DEF StatusOf
  <2>2. store'[o] \in ClaudeBriefs \cup {PurchaseBrief}
    BY <1>1, <2>1, NewOfferStep
  <2>3. store'[o] # PurchaseBrief
    BY <1>1, <2>1 DEF TriggerOf, PurchaseBrief
  <2>4. QED
    BY <2>1, <2>2, <2>3 DEF StatusOf
<1>2. DesignerInv /\ [DesignerNext]_systemVars =>
        [\A o \in Offers \ Stored :
           StatusOf(o)' # "absent" /\ TriggerOf(o)' = "marketer_initiated"
             => StatusOf(o)' = "draft"]_systemVars
  BY <1>1
<1>3. QED
  BY <1>2, DesignerInvariant, PTL DEF DesignerSpec, AutoSavedAsDraft

(* A uuid drawn for a purchase is nobody else's until the Hub has the POST:*)
(* this is why HubHandlesPost has no case for the answer 409.              *)
THEOREM DesignerPostsNeverConflict == DesignerSpec => []PostsNeverConflict
<1>1. DesignerInit => PostsNeverConflict
  BY DEF DesignerInit, PostsNeverConflict
<1>2. ASSUME DesignerInv, PostsNeverConflict, [DesignerNext]_systemVars
      PROVE  PostsNeverConflict'
  <2> USE <1>2 DEF PostsNeverConflict
  <2>1. CASE HubSide
    BY <2>1, HubSideStored DEF HubSide, designerVars
  <2>2. ASSUME NEW x \in sent, HubHandlesPost(x)
        PROVE  PostsNeverConflict'
    <3>1. sent' = sent \ {x}
      BY <2>2 DEF HubHandlesPost
    <3>2. QED
      BY <2>2, <3>1, PostStored
  <2>3. CASE Generates
    <3>1. PICK p \in Requests, m \in Members, o \in Offers, over \in BOOLEAN,
               b \in ClaudeBriefs, out \in WriteOutcomes : GenerateSaved(p, m, o, b, over, out)
      BY <2>3 DEF Generates
    <3>2. Stored' \subseteq Stored \cup {o} /\ o \notin issued /\ sent' = sent
      BY <3>1, GenerateStoreStep DEF GenerateSaved, Issue, purchaseVars
    <3>3. QED
      BY <3>2 DEF DesignerInv, OnlyIssued
  <2>4. CASE approve_offer_finish
    <3>1. PICK x \in approving :
            \E out : update(x.offer, WithStatus(x.read, "approved"), out)
      BY <2>4 DEF approve_offer_finish, ApproveDone, ApproveUnavailable
    <3>2. Stored' \subseteq Stored
      BY <3>1, ApproveStoreStep
    <3>3. sent' = sent
      BY <2>4 DEF approve_offer_finish, ApproveDone, ApproveUnavailable, purchaseVars
    <3>4. QED
      BY <3>2, <3>3
  <2>5. CASE DesignerRestart
    BY <2>5 DEF DesignerRestart
  <2>6. CASE UNCHANGED systemVars
    BY <2>6 DEF systemVars, designerVars, hubVars, Stored
  <2>7. CASE Local
    <3>1. Stored' = Stored
      BY <2>7, LocalType DEF hubVars, Stored
    <3>2. ASSUME NEW p \in Requests, NEW m \in Members, NEW o \in Offers,
                 NEW over \in BOOLEAN, PurchasePosts(p, m, o, over)
          PROVE  PostsNeverConflict'
      <4> DEFINE n == [by |-> p, member |-> m, offer |-> o]
      <4>1. o \notin issued /\ n.offer = o /\ sent' = sent \cup {n}
        BY <3>2 DEF PurchasePosts, Issue
      <4> HIDE DEF n
      <4>2. QED
        BY <3>1, <4>1 DEF DesignerInv, OnlyIssued
    <3>3. sent' \subseteq sent
          \/ \E p \in Requests, m \in Members, o \in Offers, over \in BOOLEAN :
                PurchasePosts(p, m, o, over)
      BY <2>7 DEF Local, ClaudeFailed, FraudRefused, ApproveEnded, ApproveRefused,
                  ApproveRead, PurchaseAnswered, PurchaseUnreachable, purchaseVars
    <3>4. QED
      BY <3>1, <3>2, <3>3
  <2>8. QED
    BY <2>1, <2>2, <2>3, <2>4, <2>5, <2>6, <2>7, DesignerSteps
<1>3. QED
  BY <1>1, <1>2, DesignerInvariant, PTL DEF DesignerSpec

-------------------------------------------------------------------------------
(* Every step of the system but a restart makes at most one lawful write.  *)
LEMMA SystemStores ==
  ASSUME DesignerInv, [DesignerNext]_systemVars, ~DesignerRestart
  PROVE  StoreStep
<1>1. CASE HubSide \/ \E x \in sent : HubHandlesPost(x)
  <2>1. HubStep
    <3>1. CASE HubSide
      BY <3>1 DEF HubSide, HubStep
    <3>2. ASSUME NEW x \in sent, HubHandlesPost(x)
          PROVE  HubStep
      <4>1. x.by \in Requests /\ x.offer \in Offers
        BY DEF DesignerInv, DesignerTypeOK, HubPost
      <4>2. save_offer(x.by)
        BY <3>2, <4>1, PurchaseBriefType DEF HubHandlesPost, save_offer
      <4>3. QED
        BY <4>1, <4>2 DEF HubStep
    <3>3. QED
      BY <1>1, <3>1, <3>2
  <2>2. QED
    BY <2>1, HubStepStores DEF DesignerInv
<1>2. CASE Local \/ UNCHANGED systemVars
  <2>1. UNCHANGED storeVars
    BY <1>2, LocalType DEF systemVars, hubVars, storeVars
  <2>2. QED
    BY <2>1 DEF StoreStep
<1>3. CASE Generates \/ approve_offer_finish
  BY <1>3, GenerateStep, ApproveFinishStep
<1>4. QED
  BY <1>1, <1>2, <1>3, DesignerSteps

(* No approval, generation or purchase revives an offer that never was     *)
(* draft nor approved and has expired; of Claude nothing is assumed.       *)
THEOREM DesignerShortLivedExpiresOnce == DesignerSpec => ShortLivedExpiresOnce
<1>1. ASSUME DesignerInv, StoreStep, RedisEnabled, NEW o \in Offers,
             seen[o] \subseteq {"active", "expired"}, StatusOf(o) = "expired"
      PROVE  StatusOf(o)' = "expired"
  <2>1. o \in Stored
    BY <1>1 DEF StatusOf
  <2>2. CASE UNCHANGED storeVars
    BY <1>1, <2>2 DEF storeVars, StatusOf, Stored
  <2>3. ASSUME NEW q \in Offers, NEW b \in Brief, LawfulPut(q, b)
        PROVE  StatusOf(o)' = "expired"
    <3>1. /\ StatusOf(q)' = b.status
          /\ q # o => StatusOf(o)' = StatusOf(o)
      <4>1. store' = [store EXCEPT ![q] = b] /\ store \in [Offers -> Brief \cup {NoOffer}]
        BY <1>1, <2>3 DEF LawfulPut, Put, DesignerInv, HubInv, HubTypeOK, StoreTypeOK
      <4>2. store'[q] = b /\ (q # o => store'[o] = store[o])
        BY <4>1
      <4>3. QED
        BY <4>2, NoOfferAssumption DEF StatusOf, Stored
    <3>2. CASE q = o
      <4>1. PICK s \in seen[o] : b.status \in VALID_TRANSITIONS[s]
        BY <1>1, <2>1, <2>3, <3>2 DEF LawfulPut, WriteBase, Allowed
      <4>2. s \in {"active", "expired"}
        BY <1>1
      <4>3. QED
        BY <3>1, <3>2, <4>1, <4>2 DEF VALID_TRANSITIONS, Status
    <3>3. QED
      BY <1>1, <3>1, <3>2
  <2>4. QED
    BY <1>1, <2>2, <2>3 DEF StoreStep
<1>2. ASSUME DesignerInv, [DesignerNext]_systemVars, RedisEnabled
      PROVE  StoreStep
  BY <1>2, SystemStores DEF DesignerRestart, HubRestart, StoreRestart, StoreStep, storeVars
<1>3. DesignerInv /\ [DesignerNext]_systemVars =>
        [RedisEnabled =>
           \A o \in Offers :
             seen[o] \subseteq {"active", "expired"} /\ StatusOf(o) = "expired"
               => StatusOf(o)' = "expired"]_storeVars
  BY <1>1, <1>2
<1>4. QED
  BY <1>3, DesignerInvariant, PTL DEF DesignerSpec, ShortLivedExpiresOnce

-------------------------------------------------------------------------------
(***************************************************************************)
(* The life of an offer.  generate does not repeat the F-003 guard of POST *)
(* /offers, so the promise depends on Claude: it holds if no brief that it *)
(* returns is active already.                                              *)
(***************************************************************************)
ClaudeObeys == \A b \in ClaudeBriefs : MaySave(b)

LEMMA SystemLifecycleStep ==
  ASSUME ClaudeObeys, DesignerInv, [DesignerNext]_systemVars
  PROVE  [Lifecycle!Next]_(Lifecycle!vars)
<1>1. ASSUME NEW o \in Stored' \ Stored
      PROVE  MaySave(store'[o])
  BY <1>1, NewOfferStep DEF ClaudeObeys, MaySave, PurchaseBrief
<1>2. CASE HubNext
  BY <1>2, LifecycleStep DEF DesignerInv
<1>3. CASE Local \/ UNCHANGED systemVars
  <2>1. UNCHANGED hubVars
    BY <1>3, LocalType DEF systemVars
  <2>2. QED
    BY <2>1, LifecycleStep DEF DesignerInv
<1>4. CASE Generates \/ approve_offer_finish
  BY <1>1, <1>4, GenerateStep, ApproveFinishStep, StoreStepRefines DEF DesignerInv
<1>5. QED
  BY <1>2, <1>3, <1>4, DesignerSteps, HubSteps

(* With the Designer's own path to the store, and its approvals racing     *)
(* status updates and the sweep, offers still live as OfferLifecycle says. *)
THEOREM DesignerImplementsLifecycle ==
  ASSUME ClaudeObeys
  PROVE  DesignerSpec => ImplementsLifecycle
<1>1. DesignerInit => Lifecycle!Init
  BY LifecycleInit DEF DesignerInit
<1>2. DesignerInv /\ [DesignerNext]_systemVars => [Lifecycle!Next]_(Lifecycle!vars)
  BY SystemLifecycleStep
<1>3. DesignerSpec => Lifecycle!Init /\ [][Lifecycle!Next]_(Lifecycle!vars)
  BY <1>1, <1>2, DesignerInvariant, PTL DEF DesignerSpec
<1>4. QED
  BY <1>3 DEF ImplementsLifecycle, Lifecycle!Spec

LEMMA SystemPromise ==
  ASSUME ClaudeObeys
  PROVE  DesignerSpec => []Promise!LifeInv
<1>1. DesignerInit => Promise!LifeInv
  BY PromiseInit DEF DesignerInit
<1>2. DesignerInv /\ Promise!LifeInv /\ [DesignerNext]_systemVars => Promise!LifeInv'
  BY SystemLifecycleStep, PromiseKept
<1>3. QED
  BY <1>1, <1>2, DesignerInvariant, PTL DEF DesignerSpec

(* F-003 for the whole process: with every writer of the store at work, a  *)
(* marketer's offer in Redis is not active without having been approved.   *)
THEOREM DesignerActiveWasApproved ==
  ASSUME ClaudeObeys
  PROVE  DesignerSpec => []ActiveWasApproved
BY PromiseApproved, SystemPromise, PTL

(* The Hub's audit log stays truthful with writers that schedule no rows.  *)
THEOREM DesignerAuditTruthful == DesignerSpec => []AuditTruthful
<1>1. DesignerInv => AuditTruthful
  BY DEF DesignerInv, HubInv
<1>2. QED
  BY <1>1, DesignerInvariant, PTL

-------------------------------------------------------------------------------
(***************************************************************************)
(* Traces of the statuses.  What is said of the Hub's own steps is         *)
(* GainIsTraced of HubProofs; a write past the Hub ends in a reply.        *)
(***************************************************************************)
LEMMA SystemKeepsTraces ==
  ASSUME DesignerInv, [DesignerNext]_systemVars, ~MayRestart, ~AuditMayFail
  PROVE  /\ auditTasks \cup auditLog \subseteq auditTasks' \cup auditLog'
         /\ answers \subseteq answers' /\ lapsed \subseteq lapsed'
         /\ replies \subseteq replies'
<1>1. CASE HubSide \/ \E x \in sent : HubHandlesPost(x)
  <2>1. HubNext
    BY <1>1, HubSteps
  <2>2. replies' = replies
    BY <1>1 DEF HubSide, HubHandlesPost, designerVars
  <2>3. QED
    BY <2>1, <2>2, RowsKept, AnswersGrow DEF DesignerInv
<1>2. CASE UNCHANGED systemVars
  BY <1>2 DEF systemVars, hubVars, designerVars
<1>3. CASE Local
  <2>1. UNCHANGED hubVars
    BY <1>3, LocalType
  <2>2. replies \subseteq replies'
    BY <1>3 DEF Local, ClaudeFailed, FraudRefused, PurchasePosts, ApproveEnded, ApproveRefused,
                ApproveRead, PurchaseAnswered, PurchaseUnreachable, Respond
  <2>3. QED
    BY <2>1, <2>2 DEF hubVars
<1>4. CASE Generates \/ approve_offer_finish
  BY <1>4 DEF Generates, GenerateSaved, approve_offer_finish, ApproveDone, ApproveUnavailable,
              Respond, handlerVars, auditVars
<1>5. ~DesignerRestart
  BY DEF DesignerRestart, HubRestart
<1>6. QED
  BY <1>1, <1>2, <1>3, <1>4, <1>5, DesignerSteps

LEMMA GenerateTells ==
  ASSUME DesignerInv, Generates,
         NEW o \in Offers, NEW s \in seen'[o], s \notin seen[o]
  PROVE  DesignerTells(o, s)'
<1>1. PICK p \in Requests, m \in Members, q \in Offers, over \in BOOLEAN,
           b \in ClaudeBriefs, out \in WriteOutcomes : GenerateSaved(p, m, q, b, over, out)
  BY DEF Generates
<1>2. Put(q, b)
  BY <1>1 DEF GenerateSaved, save, storeVars
<1>3. o = q /\ s = b.status
  BY <1>2, PutGains DEF DesignerInv
<1>4. PICK c \in {201, 503} : Respond(p, "generate", q, c)
  BY <1>1 DEF GenerateSaved
<1> DEFINE r == [to |-> p, op |-> "generate", offer |-> q, code |-> c]
<1>5. r \in replies' /\ r.offer = o /\ r.op = "generate" /\ r.code \in {201, 503}
  BY <1>3, <1>4 DEF Respond
<1>6. QED
  BY <1>3, <1>5 DEF DesignerTells

LEMMA ApproveTells ==
  ASSUME DesignerInv, approve_offer_finish,
         NEW o \in Offers, NEW s \in seen'[o], s \notin seen[o]
  PROVE  DesignerTells(o, s)'
<1>1. PICK x \in approving : ApproveDone(x) \/ \E out \in WriteOutcomes : ApproveUnavailable(x, out)
  BY DEF approve_offer_finish
<1>2. x.offer \in Offers /\ x.read \in Brief
  BY DEF DesignerInv, DesignerTypeOK, OpenApproval
<1>3. Put(x.offer, WithStatus(x.read, "approved"))
  BY <1>1 DEF ApproveDone, ApproveUnavailable, update, storeVars
<1>4. o = x.offer /\ s = "approved"
  BY <1>2, <1>3, PutGains, BriefWithStatus DEF DesignerInv, Status
<1>5. PICK c \in {200, 503} : Respond(x.by, "approve", x.offer, c)
  BY <1>1 DEF ApproveDone, ApproveUnavailable
<1> DEFINE r == [to |-> x.by, op |-> "approve", offer |-> x.offer, code |-> c]
<1>6. r \in replies' /\ r.offer = o /\ r.op = "approve" /\ r.code \in {200, 503}
  BY <1>4, <1>5 DEF Respond
<1>7. QED
  BY <1>4, <1>6 DEF DesignerTells

(* Whatever status an offer has ever had, somebody can tell where it came  *)
(* from: the log, an answer of the Designer or the Hub, or the date.       *)
THEOREM DesignerEveryStatusIsTraced == DesignerSpec => []EveryStatusIsTraced
<1>1. DesignerInit => EveryStatusIsTraced
  BY DEF DesignerInit, HubInit, StoreInit, EveryStatusIsTraced
<1>2. DesignerInv /\ EveryStatusIsTraced /\ [DesignerNext]_systemVars => EveryStatusIsTraced'
  <2>1. SUFFICES ASSUME DesignerInv, EveryStatusIsTraced, [DesignerNext]_systemVars,
                        ~MayRestart, ~AuditMayFail,
                        NEW o \in Offers, NEW s \in seen'[o]
                 PROVE  \/ RowTells(o, s)' \/ DesignerTells(o, s)'
                        \/ Denied(o)' \/ (s = "expired" /\ o \in lapsed')
    BY DEF EveryStatusIsTraced
  <2>2. /\ auditTasks \cup auditLog \subseteq auditTasks' \cup auditLog'
        /\ answers \subseteq answers' /\ lapsed \subseteq lapsed'
        /\ replies \subseteq replies'
    BY <2>1, SystemKeepsTraces
  <2>3. CASE s \in seen[o]
    <3>1. \/ RowTells(o, s) \/ DesignerTells(o, s)
          \/ Denied(o) \/ (s = "expired" /\ o \in lapsed)
      BY <2>1, <2>3 DEF EveryStatusIsTraced
    <3>2. QED
      BY <2>2, <3>1 DEF RowTells, DesignerTells, Denied
  <2>4. CASE s \notin seen[o]
    <3>1. CASE HubNext
      BY <2>1, <2>2, <2>4, <3>1, GainIsTraced DEF DesignerInv, RowTells, Denied
    <3>2. CASE Local \/ UNCHANGED systemVars
      <4>1. UNCHANGED seen
        BY <3>2, <2>1, LocalType DEF systemVars, hubVars
      <4>2. QED
        BY <2>4, <4>1
    <3>3. CASE Generates \/ approve_offer_finish
      BY <2>1, <2>4, <3>3, GenerateTells, ApproveTells
    <3>4. QED
      BY <2>1, <3>1, <3>2, <3>3, DesignerSteps, HubSteps
  <2>5. QED
    BY <2>3, <2>4
<1>3. QED
  BY <1>1, <1>2, DesignerInvariant, PTL DEF DesignerSpec

-------------------------------------------------------------------------------
(***************************************************************************)
(* When Redis gives the whole process what memory gives: as long as the    *)
(* writers of each offer take turns, approvals among them.                 *)
(***************************************************************************)
AllTakeTurns ==
  /\ WritersTakeTurns
  /\ \A x, y \in approving : x.offer = y.offer => x = y
  /\ \A x \in approving : /\ \A u \in open : u.offer # x.offer
                          /\ \A t \in sweep.todo : t[1] # x.offer

FreshApprovals == \A x \in approving : x.read = store[x.offer]

LEMMA MemoryAllTakeTurns == DesignerInv /\ ~RedisEnabled => AllTakeTurns
BY MemoryTakesTurns DEF DesignerInv, HubInv, MemorySerial, MemoryAlone, AllTakeTurns

LEMMA CreationElsewhere ==
  ASSUME DesignerInv, NEW o \in Offers, NEW b, NEW out, save(o, b, out)
  PROVE  \A q \in Stored : store'[q] = store[q]
BY DEF save, Put, storeVars, Stored, DesignerInv, HubInv, HubTypeOK, StoreTypeOK

(* No other writer touches the offer of an approval under way.             *)
LEMMA ApprovalsUndisturbed ==
  ASSUME DesignerInv, AllTakeTurns, [DesignerNext]_systemVars,
         ~approve_offer_finish, ~DesignerRestart
  PROVE  \A x \in approving : store'[x.offer] = store[x.offer]
<1>1. \A x \in approving : x.offer \in Stored /\ x.offer \in Offers
  BY DEF DesignerInv, ApproveTruthful, Stored
<1>2. CASE HubSide
  <2>1. CASE update_offer_status_finish
    <3>1. PICK u \in open : \E out : update(u.offer, WithStatus(u.read, u.new), out)
      BY <2>1 DEF update_offer_status_finish, PutDone, PutUnavailable
    <3>2. u.offer \in Offers
      BY DEF DesignerInv, HubInv, HubTypeOK, OpenUpdate
    <3>3. \A q \in Offers : q # u.offer => store'[q] = store[q]
      BY <3>1, <3>2, PutElsewhere DEF DesignerInv
    <3>4. QED
      BY <1>1, <3>3 DEF AllTakeTurns
  <2>2. CASE \E t \in sweep.todo, out \in WriteOutcomes : SweepExpire(t, out)
    <3>1. PICK t \in sweep.todo : \E out : update(t[1], WithStatus(t[2], "expired"), out)
      BY <2>2 DEF SweepExpire
    <3>2. t[1] \in Offers
      BY DEF DesignerInv, HubInv, HubTypeOK, Sweep
    <3>3. \A q \in Offers : q # t[1] => store'[q] = store[q]
      BY <3>1, <3>2, PutElsewhere DEF DesignerInv
    <3>4. QED
      BY <1>1, <3>3 DEF AllTakeTurns
  <2>3. CASE UNCHANGED store
    BY <2>3
  <2>4. QED
    BY <1>2, <2>1, <2>2, <2>3
       DEF HubSide, update_offer_status_start, ReadFailed, PutRefused, PutRead,
           _expire_offers_task, SweepWake, SweepListed, SweepListFailed, log_event,
           AuditInsert, AuditRefused, Lapse, storeVars
<1>3. ASSUME NEW y \in sent, HubHandlesPost(y)
      PROVE  \A x \in approving : store'[x.offer] = store[x.offer]
  <2>1. y.offer \in Offers
    BY DEF DesignerInv, DesignerTypeOK, HubPost
  <2>2. \E out : save(y.offer, PurchaseBrief, out)
    BY <1>3 DEF HubHandlesPost, PostSaved, PostUnavailable
  <2>3. QED
    BY <1>1, <2>1, <2>2, CreationElsewhere
<1>4. CASE Generates
  <2>1. PICK o \in Offers : \E b, out : save(o, b, out)
    BY <1>4 DEF Generates, GenerateSaved
  <2>2. QED
    BY <1>1, <2>1, CreationElsewhere
<1>5. CASE Local \/ UNCHANGED systemVars
  BY <1>5, LocalType DEF systemVars, hubVars
<1>6. QED
  BY <1>2, <1>3, <1>4, <1>5, DesignerSteps

LEMMA GenerateFresh ==
  ASSUME DesignerInv, FreshCopies, Generates
  PROVE  /\ FreshCopies' /\ UNCHANGED approving
         /\ UNCHANGED storeVars \/ \E o \in Offers, b \in Brief : FreshPut(o, b)
<1>1. PICK o \in Offers, b \in ClaudeBriefs, out \in WriteOutcomes :
        save(o, b, out) /\ UNCHANGED <<open, sweep, approving>>
  BY DEF Generates, GenerateSaved, handlerVars
<1>2. \A q \in Stored : store'[q] = store[q]
  BY <1>1, CreationElsewhere
<1>3. FreshCopies'
  BY <1>1, <1>2, FreshKept DEF DesignerInv, HubInv, OpenTruthful, SweepTruthful
<1>4. UNCHANGED storeVars \/ FreshPut(o, b)
  BY <1>1 DEF save, FreshPut
<1>5. QED
  BY <1>1, <1>3, <1>4, DesignerAssumption

LEMMA ApproveFresh ==
  ASSUME DesignerInv, FreshCopies, FreshApprovals, AllTakeTurns, approve_offer_finish
  PROVE  /\ FreshCopies' /\ FreshApprovals'
         /\ UNCHANGED storeVars \/ \E o \in Offers, b \in Brief : FreshPut(o, b)
<1>1. PICK x \in approving :
        /\ approving' = approving \ {x} /\ UNCHANGED <<open, sweep>>
        /\ \E out : update(x.offer, WithStatus(x.read, "approved"), out)
  BY DEF approve_offer_finish, ApproveDone, ApproveUnavailable, handlerVars
<1>2. /\ x.offer \in Offers /\ x.read \in Brief
      /\ x.offer \in Stored /\ x.read = store[x.offer]
      /\ Allowed(x.read.status, "approved")
  BY DEF DesignerInv, DesignerTypeOK, OpenApproval, ApproveTruthful, FreshApprovals
<1>3. /\ WithStatus(x.read, "approved") \in Brief
      /\ WithStatus(x.read, "approved").status = "approved"
      /\ WithStatus(x.read, "approved").trigger = x.read.trigger
  BY <1>2, BriefWithStatus DEF Status
<1>4. UNCHANGED storeVars \/ FreshPut(x.offer, WithStatus(x.read, "approved"))
  BY <1>1, <1>2, <1>3 DEF update, FreshPut
<1>5. \A q \in Offers : q # x.offer => store'[q] = store[q]
  BY <1>1, <1>2, PutElsewhere DEF DesignerInv
<1>6. FreshCopies'
  <2>1. \A u \in open' : u.offer \in Offers /\ u.offer # x.offer
    BY <1>1 DEF AllTakeTurns, DesignerInv, HubInv, HubTypeOK, OpenUpdate
  <2>2. \A t \in sweep'.todo : t[1] \in Offers /\ t[1] # x.offer
    BY <1>1 DEF AllTakeTurns, DesignerInv, HubInv, HubTypeOK, Sweep
  <2>3. QED
    BY <1>1, <1>5, <2>1, <2>2, FreshKept DEF DesignerInv
<1>7. FreshApprovals'
  BY <1>1, <1>5 DEF FreshApprovals, AllTakeTurns, DesignerInv, DesignerTypeOK, OpenApproval
<1>8. QED
  BY <1>2, <1>3, <1>4, <1>6, <1>7

LEMMA SystemTurnStep ==
  ASSUME DesignerInv, FreshCopies, FreshApprovals, AllTakeTurns, [DesignerNext]_systemVars
  PROVE  /\ FreshCopies' /\ FreshApprovals'
         /\ \/ UNCHANGED storeVars \/ HubRestart
            \/ \E o \in Offers, b \in Brief : FreshPut(o, b)
<1>1. CASE ~approve_offer_finish /\ ~DesignerRestart
  <2>1. \A x \in approving : store'[x.offer] = store[x.offer]
    BY <1>1, ApprovalsUndisturbed
  <2>2. approving' \subseteq approving => FreshApprovals'
    BY <2>1 DEF FreshApprovals
  <2>3. CASE HubSide \/ \E y \in sent : HubHandlesPost(y)
    <3>1. HubNext
      BY <2>3, HubSteps
    <3>2. approving' = approving
      BY <2>3 DEF HubSide, designerVars, HubHandlesPost
    <3>3. QED
      BY <2>2, <3>1, <3>2, TurnStep DEF DesignerInv, AllTakeTurns
  <2>4. CASE Generates
    BY <2>2, <2>4, GenerateFresh
  <2>5. CASE Local \/ UNCHANGED systemVars
    <3>1. UNCHANGED hubVars
      BY <2>5, LocalType DEF systemVars
    <3>2. \A x \in approving' : x \in approving \/ x.read = store[x.offer]
      BY <2>5 DEF Local, ClaudeFailed, FraudRefused, PurchasePosts, ApproveEnded,
                  ApproveRefused, ApproveRead, PurchaseAnswered, PurchaseUnreachable,
                  systemVars, designerVars
    <3>3. QED
      BY <3>1, <3>2 DEF hubVars, storeVars, FreshCopies, FreshApprovals
  <2>6. QED
    BY <1>1, <2>3, <2>4, <2>5, DesignerSteps
<1>2. CASE DesignerRestart
  <2>1. HubRestart /\ approving' = {}
    BY <1>2 DEF DesignerRestart
  <2>2. FreshCopies'
    BY <2>1 DEF HubRestart, FreshCopies, Asleep
  <2>3. QED
    BY <2>1, <2>2 DEF FreshApprovals
<1>3. QED
  BY <1>1, <1>2, ApproveFresh

LEMMA SystemFreshInvariant ==
  DesignerSpec /\ []AllTakeTurns => [](FreshCopies /\ FreshApprovals)
<1>1. DesignerInit => FreshCopies /\ FreshApprovals
  BY DEF DesignerInit, HubInit, FreshCopies, FreshApprovals, Asleep
<1>2. DesignerInv /\ FreshCopies /\ FreshApprovals /\ AllTakeTurns /\ [DesignerNext]_systemVars
        => FreshCopies' /\ FreshApprovals'
  BY SystemTurnStep
<1>3. QED
  BY <1>1, <1>2, DesignerInvariant, PTL DEF DesignerSpec

(* With every writer of the process at work but no two on one offer, Redis *)
(* gives the strong promise: each status follows the current one.          *)
THEOREM DesignerTurnsGiveStrongLifecycle ==
  ASSUME ClaudeObeys
  PROVE  DesignerSpec /\ []AllTakeTurns => Strong!Spec
<1>1. DesignerInit => Strong!Init
  BY DEF DesignerInit, HubInit, StoreInit, Strong!Init, StatusOf, TriggerOf, Stored
<1>2. DesignerInv /\ FreshCopies /\ FreshApprovals /\ AllTakeTurns /\ [DesignerNext]_systemVars
        => [Strong!Next]_(Strong!vars)
  <2> SUFFICES ASSUME DesignerInv, FreshCopies, FreshApprovals, AllTakeTurns,
                      [DesignerNext]_systemVars
               PROVE  [Strong!Next]_(Strong!vars)
    OBVIOUS
  <2>1. CASE UNCHANGED storeVars
    BY <2>1 DEF Strong!vars, storeVars, StatusOf, TriggerOf, Stored
  <2>2. \A o \in Stored' \ Stored : MaySave(store'[o])
    BY NewOfferStep DEF ClaudeObeys, MaySave, PurchaseBrief
  <2>3. QED
    BY <2>1, <2>2, SystemTurnStep, FreshPutRefines, RestartForgets DEF DesignerInv
<1>3. DesignerSpec /\ []AllTakeTurns => Strong!Init /\ [][Strong!Next]_(Strong!vars)
  BY <1>1, <1>2, DesignerInvariant, SystemFreshInvariant, PTL DEF DesignerSpec
<1>4. QED
  BY <1>3 DEF Strong!Spec

(* Expired is terminal for the whole process, as long as the writers of    *)
(* each offer take turns and the store outlives the process.               *)
THEOREM DesignerTurnsMakeExpiredTerminal ==
  ASSUME RedisEnabled \/ ~MayRestart
  PROVE  DesignerSpec /\ []AllTakeTurns => ExpiredIsTerminal
<1>1. DesignerInv /\ FreshCopies /\ FreshApprovals /\ AllTakeTurns /\ [DesignerNext]_systemVars
        => [\A o \in Offers : StatusOf(o) = "expired" => StatusOf(o)' = "expired"]_hubVars
  BY SystemTurnStep, FreshKeepsExpired, RestartKeepsExpired DEF DesignerInv
<1>2. QED
  BY <1>1, DesignerInvariant, SystemFreshInvariant, PTL DEF DesignerSpec, ExpiredIsTerminal

(* In memory the writers of the whole process cannot but take turns.       *)
THEOREM DesignerMemoryExpiredIsTerminal ==
  ASSUME ~RedisEnabled, ~MayRestart
  PROVE  DesignerSpec => ExpiredIsTerminal
BY MemoryAllTakeTurns, DesignerInvariant, DesignerTurnsMakeExpiredTerminal, PTL

-------------------------------------------------------------------------------
(* The Hub's answers are given by the Hub's steps.                         *)
LEMMA SystemAnswers ==
  ASSUME DesignerInv, [DesignerNext]_systemVars
  PROVE  AnswerStep
<1>1. CASE HubNext
  BY <1>1, AnswerSteps DEF DesignerInv
<1>2. CASE Local \/ UNCHANGED systemVars
  <2>1. UNCHANGED hubVars
    BY <1>2, LocalType DEF systemVars
  <2>2. QED
    BY <2>1, AnswerSteps DEF DesignerInv
<1>3. CASE Generates \/ approve_offer_finish
  BY <1>3 DEF Generates, GenerateSaved, approve_offer_finish, ApproveDone, ApproveUnavailable,
              handlerVars, AnswerStep
<1>4. QED
  BY <1>1, <1>2, <1>3, DesignerSteps, HubSteps

(* The writers past the Hub cost no request of the Hub its row: what POST  *)
(* /offers and PUT /status acknowledge is audited, purchases included.     *)
THEOREM DesignerAcknowledgedIsAudited == DesignerSpec => []AcknowledgedIsAudited
<1>1. DesignerInit => AcknowledgedIsAudited
  BY DEF DesignerInit, HubInit, AcknowledgedIsAudited
<1>2. DesignerInv /\ AcknowledgedIsAudited /\ [DesignerNext]_systemVars => AcknowledgedIsAudited'
  <2>1. SUFFICES ASSUME DesignerInv, AcknowledgedIsAudited, [DesignerNext]_systemVars,
                        ~MayRestart, ~AuditMayFail,
                        NEW a \in answers', a.code \in {200, 201}
                 PROVE  \E r \in auditTasks' \cup auditLog' :
                           r.by = a.to /\ r.offer = a.offer
    BY DEF AcknowledgedIsAudited
  <2>2. CASE a \in answers
    BY <2>1, <2>2, SystemKeepsTraces DEF AcknowledgedIsAudited
  <2>3. CASE a \notin answers
    BY <2>1, <2>3, SystemAnswers DEF AnswerStep, Created
  <2>4. QED
    BY <2>2, <2>3
<1>3. QED
  BY <1>1, <1>2, DesignerInvariant, PTL DEF DesignerSpec

(* One creator of an offer_id at most among the requests of the Hub, with  *)
(* generations and approvals writing to the same keys.                     *)
THEOREM DesignerOneCreator == DesignerSpec => []OneCreator
<1>1. DesignerInit => CreatedIsStored /\ OneCreator
  BY DEF DesignerInit, HubInit, CreatedIsStored, OneCreator
<1>2. DesignerInv /\ CreatedIsStored /\ OneCreator /\ [DesignerNext]_systemVars
        => CreatedIsStored' /\ OneCreator'
  <2> SUFFICES ASSUME DesignerInv, CreatedIsStored, OneCreator, [DesignerNext]_systemVars,
                      RedisEnabled \/ ~MayRestart
               PROVE  /\ \A a \in answers' : a.code = 201 => a.offer \in Stored'
                      /\ \A a, b \in answers' :
                           a.code = 201 /\ b.code = 201 /\ a.offer = b.offer => a = b
    BY DEF CreatedIsStored, OneCreator
  <2>1. Stored \subseteq Stored'
    <3>1. CASE DesignerRestart
      BY <3>1 DEF DesignerRestart, HubRestart, StoreRestart, Stored
    <3>2. CASE ~DesignerRestart
      BY <3>2, SystemStores, StoreStepKeeps DEF DesignerInv
    <3>3. QED
      BY <3>1, <3>2
  <2>2. \/ \A a \in answers' : a.code = 201 => a \in answers
        \/ \E p \in Requests, o \in Offers : Created(p, o)
    BY SystemAnswers DEF AnswerStep
  <2>3. CASE \A a \in answers' : a.code = 201 => a \in answers
    BY <2>1, <2>3 DEF CreatedIsStored, OneCreator
  <2>4. CASE \E p \in Requests, o \in Offers : Created(p, o)
    BY <2>1, <2>4 DEF CreatedIsStored, OneCreator, Created
  <2>5. QED
    BY <2>2, <2>3, <2>4
<1>3. QED
  BY <1>1, <1>2, DesignerInvariant, PTL DEF DesignerSpec

-------------------------------------------------------------------------------
(***************************************************************************)
(* The stacking counts.  No write of the store takes an offer back to      *)
(* draft, and in memory an approval still finds the draft it has read, so  *)
(* each count goes up together with the offers that are past draft.        *)
(***************************************************************************)
NotDraft == {o \in Stored : store[o].status # "draft"}

CountInv == \A m \in Members : counts[m] <= Cardinality(NotDraft)

LEMMA NotDraftGrows ==
  ASSUME DesignerInv, StoreStep
  PROVE  NotDraft \subseteq NotDraft'
<1> USE DEF DesignerInv, HubInv, HubTypeOK, StoreTypeOK, NotDraft, Stored
<1>1. CASE UNCHANGED storeVars
  BY <1>1 DEF storeVars
<1>2. ASSUME NEW o \in Offers, NEW b \in Brief, LawfulPut(o, b)
      PROVE  NotDraft \subseteq NotDraft'
  <2>1. store' = [store EXCEPT ![o] = b]
    BY <1>2 DEF LawfulPut, Put
  <2>2. b # NoOffer
    BY NoOfferAssumption
  <2>3. ASSUME o \in Stored
        PROVE  b.status # "draft"
    <3>1. PICK s \in WriteBase(o) : Allowed(s, b.status)
      BY <1>2, <2>3 DEF LawfulPut
    <3>2. s \in Status
      <4>1. store[o] \in Brief
        BY <2>3, StoredBrief
      <4>2. store[o].status \in Status
        BY <4>1 DEF Brief
      <4>3. QED
        BY <4>2 DEF WriteBase
    <3>3. QED
      BY <3>1, <3>2 DEF Allowed, VALID_TRANSITIONS, Status
  <2>4. QED
    BY <2>1, <2>2, <2>3
<1>3. QED
  BY <1>1, <1>2 DEF StoreStep

(* A step that counts nothing keeps the bound.                             *)
LEMMA UncountedStep ==
  ASSUME IsFiniteSet(Offers), DesignerInv, CountInv, UNCHANGED counts, StoreStep
  PROVE  CountInv'
<1>1. NotDraft \subseteq NotDraft' /\ NotDraft' \subseteq Offers
  BY NotDraftGrows DEF NotDraft, Stored
<1>2. IsFiniteSet(NotDraft') /\ IsFiniteSet(NotDraft)
  BY <1>1, FS_Subset
<1>3. /\ Cardinality(NotDraft) <= Cardinality(NotDraft')
      /\ Cardinality(NotDraft) \in Nat /\ Cardinality(NotDraft') \in Nat
  BY <1>1, <1>2, FS_Subset, FS_CardinalityType
<1>4. \A m \in Members : counts[m] \in Nat
  BY DEF DesignerInv, DesignerTypeOK
<1>5. QED
  BY <1>3, <1>4 DEF CountInv

(* An approval in memory takes its offer out of draft and counts one.      *)
LEMMA CountedStep ==
  ASSUME IsFiniteSet(Offers), DesignerInv, CountInv, ~RedisEnabled,
         NEW x \in approving, ApproveDone(x)
  PROVE  CountInv'
<1>1. /\ x.offer \in Stored /\ x.read = store[x.offer] /\ x.member \in Members
      /\ x.offer \in Offers /\ x.read \in Brief /\ Allowed(x.read.status, "approved")
  BY DEF DesignerInv, DesignerTypeOK, OpenApproval, ApproveTruthful, MemoryAlone
<1>2. x.read.status = "draft"
  <2>1. x.read.status \in Status
    BY <1>1 DEF Brief
  <2>2. QED
    BY <1>1, <2>1 DEF Allowed, VALID_TRANSITIONS, Status
<1>3. x.offer \notin NotDraft
  BY <1>1, <1>2 DEF NotDraft
<1>4. NotDraft \cup {x.offer} \subseteq NotDraft'
  <2>1. NotDraft \subseteq NotDraft'
    BY ApproveStoreStep, NotDraftGrows DEF ApproveDone
  <2>2. /\ WithStatus(x.read, "approved") \in Brief
        /\ WithStatus(x.read, "approved").status = "approved"
    BY <1>1, BriefWithStatus DEF Status
  <2>3. store' = [store EXCEPT ![x.offer] = WithStatus(x.read, "approved")]
    BY DEF ApproveDone, update, Put
  <2>4. store'[x.offer] = WithStatus(x.read, "approved")
    BY <1>1, <2>3 DEF DesignerInv, HubInv, HubTypeOK, StoreTypeOK
  <2>5. x.offer \in NotDraft'
    BY <1>1, <2>2, <2>4, NoOfferAssumption DEF NotDraft, Stored
  <2>6. QED
    BY <2>1, <2>5
<1>5. IsFiniteSet(NotDraft) /\ IsFiniteSet(NotDraft')
  BY FS_Subset DEF NotDraft, Stored
<1>6. /\ Cardinality(NotDraft) \in Nat /\ Cardinality(NotDraft') \in Nat
      /\ Cardinality(NotDraft \cup {x.offer}) = Cardinality(NotDraft) + 1
      /\ Cardinality(NotDraft \cup {x.offer}) <= Cardinality(NotDraft')
  BY <1>3, <1>4, <1>5, FS_CardinalityType, FS_AddElement, FS_Subset
<1>7. \A m \in Members : /\ counts[m] \in Nat
                         /\ counts'[m] <= counts[m] + 1
  BY <1>1 DEF ApproveDone, record_active_offer, DesignerInv, DesignerTypeOK
<1>8. \A m \in Members : counts'[m] \in Nat
  BY <1>1 DEF ApproveDone, record_active_offer, DesignerInv, DesignerTypeOK
<1>9. QED
  BY <1>6, <1>7, <1>8 DEF CountInv

LEMMA CountStep ==
  ASSUME IsFiniteSet(Offers), ~RedisEnabled,
         DesignerInv, CountInv, [DesignerNext]_systemVars
  PROVE  CountInv'
<1>1. CASE DesignerRestart
  <2>1. \A m \in Members : counts'[m] = 0
    BY <1>1 DEF DesignerRestart
  <2>2. NotDraft' \subseteq Offers
    BY DEF NotDraft, Stored
  <2>3. Cardinality(NotDraft') \in Nat
    BY <2>2, FS_Subset, FS_CardinalityType
  <2>4. QED
    BY <2>1, <2>3 DEF CountInv
<1>2. ASSUME NEW x \in approving, ApproveDone(x)
      PROVE  CountInv'
  BY <1>2, CountedStep
<1>3. CASE ~DesignerRestart /\ ~\E x \in approving : ApproveDone(x)
  <2>1. UNCHANGED counts
    BY <1>3 DEF DesignerNext, systemVars, designerVars, HubSide, generate_offer_brief,
                generate_purchase_triggered_offer, ClaudeFailed, FraudRefused, GenerateSaved,
                PurchasePosts, purchase_post, HubHandlesPost, PurchaseAnswered,
                PurchaseUnreachable, approve_offer_start, ApproveEnded, ApproveRefused,
                ApproveRead, approve_offer_finish, ApproveUnavailable, countVars
  <2>2. StoreStep
    BY <1>3, SystemStores
  <2>3. QED
    BY <2>1, <2>2, UncountedStep
<1>4. QED
  BY <1>1, <1>2, <1>3

(* With the in-memory store and finitely many offer_ids, the stacking      *)
(* count of a member never exceeds the offers that are past draft.         *)
THEOREM DesignerCountedOnce ==
  ASSUME IsFiniteSet(Offers)
  PROVE  DesignerSpec => []CountedOnce
<1>1. CASE RedisEnabled
  <2>1. CountedOnce
    BY <1>1 DEF CountedOnce
  <2>2. QED
    BY <2>1, PTL
<1>2. CASE ~RedisEnabled
  <2>1. DesignerInit => CountInv
    <3>1. ASSUME DesignerInit
          PROVE  CountInv
      <4>1. Cardinality(NotDraft) \in Nat
        BY FS_Subset, FS_CardinalityType DEF NotDraft, Stored
      <4>2. QED
        BY <3>1, <4>1 DEF DesignerInit, CountInv
    <3>2. QED
      BY <3>1
  <2>2. DesignerInv /\ CountInv /\ [DesignerNext]_systemVars => CountInv'
    BY <1>2, CountStep
  <2>3. CountInv => CountedOnce
    BY DEF CountInv, CountedOnce, NotDraft
  <2>4. QED
    BY <2>1, <2>2, <2>3, DesignerInvariant, PTL DEF DesignerSpec
<1>3. QED
  BY <1>1, <1>2

===============================================================================
