------------------------------ MODULE HubProofs -------------------------------
(***************************************************************************)
(* Theorems about Hub, for every set of offers and of requests, and for    *)
(* both stores.                                                            *)
(***************************************************************************)
EXTENDS Hub, TLAPS

-------------------------------------------------------------------------------
(* Type correctness.                                                       *)

LEMMA BriefWithStatus ==
  ASSUME NEW b \in Brief, NEW s \in Status
  PROVE  /\ WithStatus(b, s) \in Brief
         /\ WithStatus(b, s).status = s
         /\ WithStatus(b, s).trigger = b.trigger
BY DEF WithStatus, Brief

LEMMA PutType ==
  ASSUME StoreTypeOK, NEW o \in Offers, NEW b \in Brief, Put(o, b)
  PROVE  StoreTypeOK'
<1>1. b.status \in Status
  BY DEF Brief
<1>2. QED
  BY <1>1 DEF StoreTypeOK, Put

LEMMA SaveType ==
  ASSUME StoreTypeOK, NEW o \in Offers, NEW b \in Brief, NEW out, save(o, b, out)
  PROVE  StoreTypeOK'
BY PutType DEF save, storeVars, StoreTypeOK

LEMMA UpdateType ==
  ASSUME StoreTypeOK, NEW o \in Offers, NEW b \in Brief, NEW out, update(o, b, out)
  PROVE  StoreTypeOK'
BY PutType DEF update, storeVars, StoreTypeOK

LEMMA StoredBrief ==
  ASSUME StoreTypeOK, NEW o \in Stored
  PROVE  store[o] \in Brief
BY DEF Stored, StoreTypeOK

LEMMA ReplyType ==
  ASSUME answers \subseteq Answer, NEW p \in Requests, NEW o \in Offers,
         NEW c \in {200, 201, 404, 409, 422, 503}, Reply(p, o, c)
  PROVE  answers' \subseteq Answer
BY DEF Reply, Answer

LEMMA FireType ==
  ASSUME auditTasks \subseteq Row, NEW p \in Requests, NEW o \in Offers,
         NEW e \in {"offer_created", "status_transition", "offer_read"},
         NEW old \in NullOr(Status), NEW new \in NullOr(Status),
         _fire_audit(p, o, e, old, new)
  PROVE  auditTasks' \subseteq Row
BY DEF _fire_audit, Row

(* Each group of steps keeps the types of the variables it changes.        *)
LEMMA HandlerType ==
  ASSUME HubTypeOK, NEW p \in Requests,
         save_offer(p) \/ get_offer(p) \/ update_offer_status_start(p)
  PROVE  HubTypeOK'
<1> USE DEF HubTypeOK
<1>1. ASSUME NEW o \in Offers, NEW b \in Brief, PostRefused(p, o, b)
      PROVE  HubTypeOK'
  <2>1. answers' \subseteq Answer
    BY <1>1, ReplyType DEF PostRefused
  <2>2. QED
    BY <1>1, <2>1 DEF PostRefused, auditVars, StoreTypeOK
<1>2. ASSUME NEW o \in Offers, NEW b \in Brief, PostSaved(p, o, b)
      PROVE  HubTypeOK'
  <2>1. answers' \subseteq Answer
    BY <1>2, ReplyType DEF PostSaved
  <2>2. auditTasks' \subseteq Row
    <3>1. b.status \in NullOr(Status) /\ "null" \in NullOr(Status)
      BY DEF Brief, NullOr
    <3>2. QED
      BY <1>2, <3>1, FireType DEF PostSaved
  <2>3. StoreTypeOK'
    BY <1>2, SaveType DEF PostSaved
  <2>4. QED
    BY <1>2, <2>1, <2>2, <2>3 DEF PostSaved
<1>3. ASSUME NEW o \in Offers, NEW b \in Brief, PostConflict(p, o, b)
      PROVE  HubTypeOK'
  <2>1. answers' \subseteq Answer
    BY <1>3, ReplyType DEF PostConflict
  <2>2. StoreTypeOK'
    BY <1>3, SaveType DEF PostConflict
  <2>3. QED
    BY <1>3, <2>1, <2>2 DEF PostConflict, auditVars
<1>4. ASSUME NEW o \in Offers, NEW b \in Brief, NEW out \in WriteOutcomes,
             PostUnavailable(p, o, b, out)
      PROVE  HubTypeOK'
  <2>1. answers' \subseteq Answer
    BY <1>4, ReplyType DEF PostUnavailable
  <2>2. StoreTypeOK'
    BY <1>4, SaveType DEF PostUnavailable
  <2>3. QED
    BY <1>4, <2>1, <2>2 DEF PostUnavailable, auditVars
<1>5. ASSUME NEW o \in Offers, GetFound(p, o)
      PROVE  HubTypeOK'
  <2>1. answers' \subseteq Answer
    BY <1>5, ReplyType DEF GetFound
  <2>2. auditTasks' \subseteq Row
    BY <1>5, FireType DEF GetFound, NullOr
  <2>3. QED
    BY <1>5, <2>1, <2>2 DEF GetFound, StoreTypeOK
<1>6. ASSUME NEW o \in Offers, NEW out \in ReadOutcomes, ReadFailed(p, o, out)
      PROVE  HubTypeOK'
  <2>1. answers' \subseteq Answer
    BY <1>6, ReplyType DEF ReadFailed
  <2>2. QED
    BY <1>6, <2>1 DEF ReadFailed, auditVars, StoreTypeOK
<1>7. ASSUME NEW o \in Offers, NEW n \in Status, PutRefused(p, o, n)
      PROVE  HubTypeOK'
  <2>1. answers' \subseteq Answer
    BY <1>7, ReplyType DEF PutRefused
  <2>2. QED
    BY <1>7, <2>1 DEF PutRefused, auditVars, StoreTypeOK
<1>8. ASSUME NEW o \in Offers, NEW n \in Status, PutRead(p, o, n)
      PROVE  HubTypeOK'
  <2>1. store[o] \in Brief
    BY <1>8, StoredBrief DEF PutRead
  <2>2. open' \subseteq OpenUpdate
    BY <1>8, <2>1 DEF PutRead, OpenUpdate
  <2>3. QED
    BY <1>8, <2>2 DEF PutRead, auditVars, StoreTypeOK
<1>9. QED
  BY <1>1, <1>2, <1>3, <1>4, <1>5, <1>6, <1>7, <1>8
     DEF save_offer, get_offer, update_offer_status_start

LEMMA UpdateFinishType ==
  ASSUME HubTypeOK, NEW u \in open,
         PutDone(u) \/ \E out \in WriteOutcomes : PutUnavailable(u, out)
  PROVE  HubTypeOK'
<1> USE DEF HubTypeOK
<1>1. /\ u.by \in Requests /\ u.offer \in Offers
      /\ u.read.status \in Status /\ u.new \in Status
      /\ WithStatus(u.read, u.new) \in Brief
  <2>1. u \in OpenUpdate
    OBVIOUS
  <2>2. u.by \in Requests /\ u.offer \in Offers /\ u.read \in Brief /\ u.new \in Status
    BY <2>1 DEF OpenUpdate
  <2>3. QED
    BY <2>2, BriefWithStatus DEF Brief
<1>2. ASSUME PutDone(u)
      PROVE  HubTypeOK'
  <2>1. StoreTypeOK'
    BY <1>1, <1>2, UpdateType DEF PutDone
  <2>2. answers' \subseteq Answer
    BY <1>1, <1>2, ReplyType DEF PutDone
  <2>3. auditTasks' \subseteq Row
    BY <1>1, <1>2, FireType DEF PutDone, NullOr
  <2>4. QED
    BY <1>2, <2>1, <2>2, <2>3 DEF PutDone
<1>3. ASSUME NEW out \in WriteOutcomes, PutUnavailable(u, out)
      PROVE  HubTypeOK'
  <2>1. StoreTypeOK'
    BY <1>1, <1>3, UpdateType DEF PutUnavailable
  <2>2. answers' \subseteq Answer
    BY <1>1, <1>3, ReplyType DEF PutUnavailable
  <2>3. QED
    BY <1>3, <2>1, <2>2 DEF PutUnavailable, auditVars
<1>4. QED
  BY <1>2, <1>3

LEMMA SweepType ==
  ASSUME HubTypeOK, _expire_offers_task
  PROVE  HubTypeOK'
<1> USE DEF HubTypeOK
<1>1. Asleep \in Sweep
  BY DEF Asleep, Sweep
<1>2. CASE SweepWake
  <2>1. Stored \subseteq Offers
    BY DEF Stored
  <2>2. sweep' \in Sweep
    BY <1>2, <2>1 DEF SweepWake, Asleep, Sweep
  <2>3. QED
    BY <1>2, <2>2 DEF SweepWake, storeVars, handlerVars, auditVars, StoreTypeOK
<1>3. ASSUME NEW late \in SUBSET (Stored \ sweep.keys), SweepListed(late)
      PROVE  HubTypeOK'
  <2>1. Due(sweep.keys \cup late) \subseteq Offers \X Brief
    BY StoredBrief DEF Due, Stored
  <2>2. sweep' \in Sweep
    BY <1>1, <1>3, <2>1 DEF SweepListed, Sweep
  <2>3. QED
    BY <1>3, <2>2 DEF SweepListed, storeVars, handlerVars, auditVars, StoreTypeOK
<1>4. ASSUME NEW out \in ReadOutcomes, SweepListFailed(out)
      PROVE  HubTypeOK'
  BY <1>1, <1>4 DEF SweepListFailed, storeVars, handlerVars, auditVars, StoreTypeOK
<1>5. ASSUME NEW t \in sweep.todo, NEW out \in WriteOutcomes, SweepExpire(t, out)
      PROVE  HubTypeOK'
  <2>1. t[1] \in Offers /\ t[2] \in Brief
    BY DEF Sweep
  <2>2. StoreTypeOK'
    <3>1. WithStatus(t[2], "expired") \in Brief
      BY <2>1, BriefWithStatus DEF Status
    <3>2. QED
      BY <1>5, <2>1, <3>1, UpdateType DEF SweepExpire
  <2>3. sweep' \in Sweep
    BY <1>1, <1>5 DEF SweepExpire, SweepRest, Sweep
  <2>4. QED
    BY <1>5, <2>2, <2>3 DEF SweepExpire, handlerVars, auditVars
<1>6. QED
  BY <1>2, <1>3, <1>4, <1>5 DEF _expire_offers_task

LEMMA TypeStep == HubTypeOK /\ [HubNext]_hubVars => HubTypeOK'
<1> SUFFICES ASSUME HubTypeOK, [HubNext]_hubVars
             PROVE  HubTypeOK'
  OBVIOUS
<1>1. ASSUME NEW p \in Requests,
             save_offer(p) \/ get_offer(p) \/ update_offer_status_start(p)
      PROVE  HubTypeOK'
  BY <1>1, HandlerType
<1>2. CASE update_offer_status_finish
  BY <1>2, UpdateFinishType DEF update_offer_status_finish
<1>3. CASE log_event
  BY <1>3 DEF log_event, AuditInsert, AuditRefused, HubTypeOK, storeVars,
              handlerVars, StoreTypeOK
<1>4. CASE _expire_offers_task
  BY <1>4, SweepType
<1>5. ASSUME NEW o \in Offers, Lapse(o)
      PROVE  HubTypeOK'
  BY <1>5 DEF Lapse, HubTypeOK, storeVars, handlerVars, auditVars, StoreTypeOK
<1>6. CASE HubRestart
  <2>1. StoreTypeOK'
    BY <1>6 DEF HubRestart, StoreRestart, HubTypeOK, StoreTypeOK
  <2>2. Asleep \in Sweep
    BY DEF Asleep, Sweep
  <2>3. QED
    BY <1>6, <2>1, <2>2 DEF HubRestart, HubTypeOK
<1>7. CASE UNCHANGED hubVars
  BY <1>7 DEF hubVars, HubTypeOK, StoreTypeOK
<1>8. QED
  BY <1>1, <1>2, <1>3, <1>4, <1>5, <1>6, <1>7 DEF HubNext, HubStep

(* The variables of the Hub keep their types.                              *)
THEOREM HubTypeCorrect == HubSpec => []HubTypeOK
<1>1. HubInit => HubTypeOK
  BY DEF HubInit, StoreInit, HubTypeOK, StoreTypeOK, Asleep, Sweep
<1>2. QED
  BY <1>1, TypeStep, PTL DEF HubSpec

-------------------------------------------------------------------------------
(***************************************************************************)
(* The inductive invariant.  A write is made from something read earlier,  *)
(* so what holds of a write has to be remembered by the suspended handlers *)
(* (open) and by the snapshots of the sweep (todo): the status they hold   *)
(* is one the offer has had, the step they intend is a valid one from it,  *)
(* and the trigger they will write back is the offer's.  In memory nobody  *)
(* else runs meanwhile, so there the copies are the stored offers.         *)
(***************************************************************************)
StoreRecorded == \A o \in Stored : store[o].status \in seen[o]

OpenTruthful ==
  \A u \in open : /\ u.offer \in Stored
                  /\ u.read.status \in seen[u.offer]
                  /\ u.read.trigger = store[u.offer].trigger
                  /\ Allowed(u.read.status, u.new)

SweepTruthful ==
  /\ sweep.now \subseteq lapsed
  /\ \A t \in sweep.todo : /\ t[1] \in Stored
                           /\ t[1] \in lapsed
                           /\ t[2].status = "active"
                           /\ "active" \in seen[t[1]]
                           /\ t[2].trigger = store[t[1]].trigger

MemorySerial ==
  ~RedisEnabled =>
    /\ open = {} \/ sweep.at = "asleep"
    /\ sweep.at = "asleep" => sweep.todo = {}
    /\ \A u, v \in open : u = v
    /\ \A u \in open : u.read = store[u.offer]
    /\ \A t \in sweep.todo : t[2] = store[t[1]]

HubInv ==
  /\ HubTypeOK
  /\ StoreRecorded
  /\ OpenTruthful
  /\ SweepTruthful
  /\ MemorySerial
  /\ AuditTruthful

(* The statuses the next write of o may follow, and a write that follows   *)
(* one of them or creates the offer.                                       *)
WriteBase(o) == IF RedisEnabled THEN seen[o] ELSE {store[o].status}

LawfulPut(o, b) ==
  /\ Put(o, b)
  /\ o \in Stored => /\ b.trigger = store[o].trigger
                     /\ \E s \in WriteBase(o) : Allowed(s, b.status)

StoreStep == \/ UNCHANGED storeVars
             \/ \E o \in Offers, b \in Brief : LawfulPut(o, b)

LEMMA TransitionTable ==
  /\ \A s \in Status : VALID_TRANSITIONS[s] \subseteq Status
  /\ Allowed("active", "expired")
BY DEF VALID_TRANSITIONS, Status, Allowed

(* Every write a request makes is lawful.                                  *)
LEMMA HandlerStoreStep ==
  ASSUME HubInv, NEW p \in Requests,
         save_offer(p) \/ get_offer(p) \/ update_offer_status_start(p)
  PROVE  StoreStep
<1>1. ASSUME NEW o \in Offers, NEW b \in Brief,
             \/ PostRefused(p, o, b) \/ PostSaved(p, o, b) \/ PostConflict(p, o, b)
             \/ \E out \in WriteOutcomes : PostUnavailable(p, o, b, out)
      PROVE  StoreStep
  BY <1>1 DEF PostRefused, PostSaved, PostConflict, PostUnavailable, save,
              StoreStep, LawfulPut, storeVars
<1>2. ASSUME NEW o \in Offers,
             \/ GetFound(p, o)
             \/ \E out \in ReadOutcomes : ReadFailed(p, o, out)
             \/ \E n \in Status : PutRefused(p, o, n) \/ PutRead(p, o, n)
      PROVE  StoreStep
  BY <1>2 DEF GetFound, ReadFailed, PutRefused, PutRead, StoreStep, storeVars
<1>3. QED
  BY <1>1, <1>2 DEF save_offer, get_offer, update_offer_status_start

LEMMA FinishStoreStep ==
  ASSUME HubInv, NEW u \in open, NEW out,
         update(u.offer, WithStatus(u.read, u.new), out)
  PROVE  StoreStep
<1>1. u.offer \in Offers /\ u.read \in Brief /\ u.new \in Status
  BY DEF HubInv, HubTypeOK, OpenUpdate
<1>2. /\ WithStatus(u.read, u.new) \in Brief
      /\ WithStatus(u.read, u.new).status = u.new
      /\ WithStatus(u.read, u.new).trigger = u.read.trigger
  BY <1>1, BriefWithStatus
<1>3. u.read.status \in WriteBase(u.offer)
  BY DEF HubInv, OpenTruthful, MemorySerial, WriteBase
<1>4. CASE out # "down"
  <2>1. LawfulPut(u.offer, WithStatus(u.read, u.new))
    BY <1>1, <1>2, <1>3, <1>4 DEF update, LawfulPut, HubInv, OpenTruthful
  <2>2. QED
    BY <1>1, <1>2, <2>1 DEF StoreStep
<1>5. CASE out = "down"
  BY <1>5 DEF update, StoreStep
<1>6. QED
  BY <1>4, <1>5

LEMMA SweepStoreStep ==
  ASSUME HubInv, NEW t \in sweep.todo, NEW out,
         update(t[1], WithStatus(t[2], "expired"), out)
  PROVE  StoreStep
<1>1. t[1] \in Offers /\ t[2] \in Brief
  BY DEF HubInv, HubTypeOK, Sweep
<1>2. /\ WithStatus(t[2], "expired") \in Brief
      /\ WithStatus(t[2], "expired").status = "expired"
      /\ WithStatus(t[2], "expired").trigger = t[2].trigger
  BY <1>1, BriefWithStatus DEF Status
<1>3. "active" \in WriteBase(t[1])
  BY DEF HubInv, SweepTruthful, MemorySerial, WriteBase
<1>4. CASE out # "down"
  <2>1. LawfulPut(t[1], WithStatus(t[2], "expired"))
    BY <1>1, <1>2, <1>3, <1>4, TransitionTable DEF update, LawfulPut, HubInv, SweepTruthful
  <2>2. QED
    BY <1>1, <1>2, <2>1 DEF StoreStep
<1>5. CASE out = "down"
  BY <1>5 DEF update, StoreStep
<1>6. QED
  BY <1>4, <1>5

LEMMA HubStepStores ==
  ASSUME HubInv, HubStep
  PROVE  StoreStep
<1>1. ASSUME NEW p \in Requests,
             save_offer(p) \/ get_offer(p) \/ update_offer_status_start(p)
      PROVE  StoreStep
  BY <1>1, HandlerStoreStep
<1>2. ASSUME update_offer_status_finish
      PROVE  StoreStep
  BY <1>2, FinishStoreStep DEF update_offer_status_finish, PutDone, PutUnavailable
<1>3. ASSUME log_event \/ \E o \in Offers : Lapse(o)
      PROVE  StoreStep
  BY <1>3 DEF log_event, AuditInsert, AuditRefused, Lapse, StoreStep
<1>4. ASSUME _expire_offers_task
      PROVE  StoreStep
  <2>1. CASE \E t \in sweep.todo, out \in WriteOutcomes : SweepExpire(t, out)
    BY <2>1, SweepStoreStep DEF SweepExpire
  <2>2. CASE ~\E t \in sweep.todo, out \in WriteOutcomes : SweepExpire(t, out)
    BY <1>4, <2>2 DEF _expire_offers_task, SweepWake, SweepListed,
                      SweepListFailed, StoreStep
  <2>3. QED
    BY <2>1, <2>2
<1>5. QED
  BY <1>1, <1>2, <1>3, <1>4 DEF HubStep

LEMMA StoreSteps ==
  ASSUME HubInv, [HubNext]_hubVars
  PROVE  StoreStep \/ HubRestart
BY HubStepStores DEF HubNext, hubVars, StoreStep, storeVars

(* A lawful write forgets nothing another coroutine relies on.             *)
LEMMA StoreStepKeeps ==
  ASSUME HubInv, StoreStep
  PROVE  /\ Stored \subseteq Stored'
         /\ \A o \in Offers : seen[o] \subseteq seen'[o]
         /\ \A o \in Stored : store'[o].trigger = store[o].trigger
         /\ StoreRecorded'
<1> USE DEF HubInv, HubTypeOK, StoreTypeOK, Stored
<1>1. CASE UNCHANGED storeVars
  BY <1>1 DEF storeVars, StoreRecorded
<1>2. ASSUME NEW o \in Offers, NEW b \in Brief, LawfulPut(o, b)
      PROVE  /\ Stored \subseteq Stored'
             /\ \A q \in Offers : seen[q] \subseteq seen'[q]
             /\ \A q \in Stored : store'[q].trigger = store[q].trigger
             /\ StoreRecorded'
  <2>1. /\ store' = [store EXCEPT ![o] = b]
        /\ seen' = [seen EXCEPT ![o] = @ \cup {b.status}]
        /\ o \in Stored => b.trigger = store[o].trigger
    BY <1>2 DEF LawfulPut, Put
  <2>2. b # NoOffer
    BY NoOfferAssumption
  <2>3. \A q \in Offers : seen[q] \subseteq seen'[q]
    BY <2>1
  <2>4. \A q \in Offers : q # o => store'[q] = store[q]
    BY <2>1
  <2>5. store'[o] = b /\ b.status \in seen'[o]
    BY <2>1
  <2>6. StoreRecorded'
    BY <2>1, <2>3, <2>4, <2>5 DEF StoreRecorded
  <2>7. QED
    BY <2>1, <2>2, <2>3, <2>4, <2>5, <2>6
<1>3. QED
  BY <1>1, <1>2 DEF StoreStep

(* What the other coroutines hold stays true when the store takes a lawful *)
(* write and they do not move.                                             *)
LEMMA OpenKept ==
  ASSUME HubInv, StoreStep, open' \subseteq open
  PROVE  OpenTruthful'
<1>1. \A u \in open : u.offer \in Offers
  BY DEF HubInv, HubTypeOK, OpenUpdate
<1>2. QED
  BY <1>1, StoreStepKeeps DEF HubInv, OpenTruthful, Allowed

LEMMA SweepKept ==
  ASSUME HubInv, StoreStep, sweep'.todo \subseteq sweep.todo,
         sweep'.now \subseteq sweep.now, lapsed \subseteq lapsed'
  PROVE  SweepTruthful'
<1>1. \A t \in sweep.todo : t[1] \in Offers
  BY DEF HubInv, HubTypeOK, Sweep
<1>2. QED
  BY <1>1, StoreStepKeeps DEF HubInv, SweepTruthful

RowTruthful(r) ==
  /\ r.event = "offer_created" => r.new \in seen[r.offer]
  /\ r.event = "status_transition" =>
       {r.old, r.new} \subseteq seen[r.offer] /\ Allowed(r.old, r.new)

LEMMA AuditKept ==
  ASSUME HubInv, StoreStep,
         \A r \in (auditTasks' \cup auditLog') \ (auditTasks \cup auditLog) :
            RowTruthful(r)'
  PROVE  AuditTruthful'
<1>1. \A r \in auditTasks \cup auditLog : r.offer \in Offers
  BY DEF HubInv, HubTypeOK, Row
<1>2. \A r \in auditTasks \cup auditLog : RowTruthful(r)'
  BY <1>1, StoreStepKeeps DEF HubInv, AuditTruthful, RowTruthful, Allowed
<1>3. QED
  BY <1>2 DEF AuditTruthful, RowTruthful

LEMMA HandlerStep ==
  ASSUME HubInv, NEW p \in Requests,
         save_offer(p) \/ get_offer(p) \/ update_offer_status_start(p)
  PROVE  HubInv'
<1>1. HubTypeOK'
  BY HandlerType DEF HubInv
<1>2. StoreStep
  BY HandlerStoreStep
<1>3. StoreRecorded'
  BY <1>2, StoreStepKeeps
<1>4. UNCHANGED <<sweep, lapsed, auditLog>> /\ LoopFree
  BY DEF save_offer, get_offer, update_offer_status_start, PostRefused, PostSaved,
         PostConflict, PostUnavailable, GetFound, ReadFailed, PutRefused, PutRead,
         auditVars
<1>5. SweepTruthful'
  BY <1>2, <1>4, SweepKept
<1>6. CASE \E o \in Offers, n \in Status : PutRead(p, o, n)
  <2>1. PICK o \in Offers, n \in Status : PutRead(p, o, n)
    BY <1>6
  <2>2. UNCHANGED <<store, seen, auditTasks>>
    BY <2>1 DEF PutRead, auditVars
  <2>3. OpenTruthful'
    <3>1. \A u \in open' : \/ u \in open
                           \/ /\ u.offer = o /\ o \in Stored
                              /\ u.read = store[o]
                              /\ Allowed(store[o].status, u.new)
      BY <2>1 DEF PutRead
    <3>2. QED
      BY <2>2, <3>1 DEF HubInv, OpenTruthful, StoreRecorded, Stored, Allowed
  <2>4. MemorySerial'
    <3>1. SUFFICES ASSUME ~RedisEnabled
                   PROVE  MemorySerial'
      BY DEF MemorySerial
    <3>2. open = {} /\ sweep.at = "asleep"
      BY <1>4, <3>1 DEF LoopFree
    <3>3. open' = {[by |-> p, offer |-> o, read |-> store[o], new |-> n]}
      BY <2>1, <3>2 DEF PutRead
    <3>4. QED
      BY <1>4, <2>2, <3>1, <3>2, <3>3 DEF HubInv, MemorySerial
  <2>5. AuditTruthful'
    BY <1>2, <1>4, <2>2, AuditKept
  <2>6. QED
    BY <1>1, <1>3, <1>5, <2>3, <2>4, <2>5 DEF HubInv
<1>7. CASE ~\E o \in Offers, n \in Status : PutRead(p, o, n)
  <2>1. UNCHANGED open
    BY <1>7 DEF save_offer, get_offer, update_offer_status_start, PostRefused,
                PostSaved, PostConflict, PostUnavailable, GetFound, ReadFailed,
                PutRefused
  <2>2. OpenTruthful'
    BY <1>2, <2>1, OpenKept
  <2>3. MemorySerial'
    BY <1>4, <2>1 DEF HubInv, MemorySerial, LoopFree
  <2>4. AuditTruthful'
    <3>1. CASE \E o \in Offers, b \in Brief : PostSaved(p, o, b)
      <4>1. PICK o \in Offers, b \in Brief : PostSaved(p, o, b)
        BY <3>1
      <4>2. b.status \in seen'[o]
        BY <4>1 DEF PostSaved, save, Put, HubInv, HubTypeOK, StoreTypeOK
      <4>3. \A r \in auditTasks' : \/ r \in auditTasks
                                   \/ /\ r.event = "offer_created"
                                      /\ r.offer = o /\ r.new = b.status
        BY <4>1 DEF PostSaved, _fire_audit
      <4>4. QED
        BY <1>2, <1>4, <4>2, <4>3, AuditKept DEF RowTruthful
    <3>2. CASE \E o \in Offers : GetFound(p, o)
      <4>1. \A r \in auditTasks' : r \in auditTasks \/ r.event = "offer_read"
        BY <3>2 DEF GetFound, _fire_audit
      <4>2. QED
        BY <1>2, <1>4, <4>1, AuditKept DEF RowTruthful
    <3>3. CASE UNCHANGED auditTasks
      BY <1>2, <1>4, <3>3, AuditKept
    <3>4. QED
      BY <1>7, <3>1, <3>2, <3>3
         DEF save_offer, get_offer, update_offer_status_start, PostRefused,
             PostConflict, PostUnavailable, ReadFailed, PutRefused, auditVars
  <2>5. QED
    BY <1>1, <1>3, <1>5, <2>2, <2>3, <2>4 DEF HubInv
<1>8. QED
  BY <1>6, <1>7

LEMMA FinishStep ==
  ASSUME HubInv, NEW u \in open,
         PutDone(u) \/ \E out \in WriteOutcomes : PutUnavailable(u, out)
  PROVE  HubInv'
<1>1. HubTypeOK'
  BY UpdateFinishType DEF HubInv
<1>2. StoreStep
  BY FinishStoreStep DEF PutDone, PutUnavailable
<1>3. StoreRecorded'
  BY <1>2, StoreStepKeeps
<1>4. open' = open \ {u} /\ UNCHANGED <<sweep, lapsed, auditLog>>
  BY DEF PutDone, PutUnavailable, auditVars
<1>5. OpenTruthful' /\ SweepTruthful'
  BY <1>2, <1>4, OpenKept, SweepKept
<1>6. MemorySerial'
  BY <1>4 DEF HubInv, MemorySerial
<1>7. AuditTruthful'
  <2>1. CASE PutDone(u)
    <3>1. /\ u.offer \in Offers /\ u.read \in Brief /\ u.new \in Status
          /\ u.read.status \in seen[u.offer] /\ Allowed(u.read.status, u.new)
      BY DEF HubInv, HubTypeOK, OpenUpdate, OpenTruthful
    <3>2. u.new \in seen'[u.offer] /\ u.read.status \in seen'[u.offer]
      <4>1. WithStatus(u.read, u.new).status = u.new
        BY <3>1, BriefWithStatus
      <4>2. Put(u.offer, WithStatus(u.read, u.new))
        BY <2>1 DEF PutDone, update
      <4>3. QED
        BY <3>1, <4>1, <4>2 DEF Put, HubInv, HubTypeOK, StoreTypeOK
    <3>3. \A r \in auditTasks' : \/ r \in auditTasks
                                 \/ /\ r.event = "status_transition"
                                    /\ r.offer = u.offer
                                    /\ r.old = u.read.status /\ r.new = u.new
      BY <2>1 DEF PutDone, _fire_audit
    <3>4. QED
      BY <1>2, <1>4, <3>1, <3>2, <3>3, AuditKept DEF RowTruthful, Allowed
  <2>2. CASE \E out \in WriteOutcomes : PutUnavailable(u, out)
    BY <1>2, <1>4, <2>2, AuditKept DEF PutUnavailable, auditVars
  <2>3. QED
    BY <2>1, <2>2
<1>8. QED
  BY <1>1, <1>3, <1>5, <1>6, <1>7 DEF HubInv

LEMMA SweepStep ==
  ASSUME HubInv, _expire_offers_task
  PROVE  HubInv'
<1>1. HubTypeOK'
  BY SweepType DEF HubInv
<1>2. StoreStep
  <2>1. ~HubRestart \/ StoreStep
    <3>1. CASE \E t \in sweep.todo, out \in WriteOutcomes : SweepExpire(t, out)
      BY <3>1, SweepStoreStep DEF SweepExpire
    <3>2. CASE UNCHANGED storeVars
      BY <3>2 DEF StoreStep
    <3>3. QED
      BY <3>1, <3>2 DEF _expire_offers_task, SweepWake, SweepListed, SweepListFailed
  <2>2. QED
    BY <2>1, StoreSteps DEF HubNext, HubStep
<1>3. StoreRecorded'
  BY <1>2, StoreStepKeeps
<1>4. UNCHANGED <<open, answers, auditTasks, auditLog, lapsed>>
  BY DEF _expire_offers_task, SweepWake, SweepListed, SweepListFailed, SweepExpire,
         handlerVars, auditVars
<1>5. OpenTruthful' /\ AuditTruthful'
  BY <1>2, <1>4, OpenKept, AuditKept
<1>6. CASE SweepWake
  <2>1. /\ sweep'.todo = {} /\ sweep'.now = lapsed
        /\ UNCHANGED store /\ LoopFree /\ sweep.at = "asleep"
    BY <1>6 DEF SweepWake, Asleep, storeVars
  <2>2. SweepTruthful'
    BY <1>4, <2>1 DEF SweepTruthful
  <2>3. MemorySerial'
    BY <1>4, <2>1 DEF HubInv, MemorySerial, LoopFree
  <2>4. QED
    BY <1>1, <1>3, <1>5, <2>2, <2>3 DEF HubInv
<1>7. ASSUME NEW late \in SUBSET (Stored \ sweep.keys), SweepListed(late)
      PROVE  HubInv'
  <2>1. /\ UNCHANGED storeVars /\ sweep.at = "listing"
        /\ sweep' = IF Due(sweep.keys \cup late) = {} THEN Asleep
                    ELSE [sweep EXCEPT !.at = "expiring",
                                       !.todo = Due(sweep.keys \cup late)]
    BY <1>7 DEF SweepListed
  <2>2. /\ sweep'.todo \subseteq Due(sweep.keys \cup late)
        /\ sweep'.now \subseteq sweep.now
        /\ sweep'.at = "asleep" => sweep'.todo = {}
    BY <2>1 DEF Asleep, HubInv, HubTypeOK, Sweep
  <2>3. \A t \in sweep'.todo : /\ t[1] \in Stored /\ t[1] \in sweep.now
                               /\ t[2] = store[t[1]] /\ t[2].status = "active"
    BY <2>2 DEF Due
  <2>4. SweepTruthful'
    BY <1>4, <2>1, <2>2, <2>3
       DEF SweepTruthful, HubInv, StoreRecorded, Stored, storeVars
  <2>5. MemorySerial'
    BY <1>4, <2>1, <2>2, <2>3 DEF HubInv, MemorySerial, storeVars
  <2>6. QED
    BY <1>1, <1>3, <1>5, <2>4, <2>5 DEF HubInv
<1>8. ASSUME NEW out \in ReadOutcomes, SweepListFailed(out)
      PROVE  HubInv'
  <2>1. sweep'.todo = {} /\ sweep'.now = {} /\ UNCHANGED storeVars
    BY <1>8 DEF SweepListFailed, Asleep
  <2>2. SweepTruthful'
    BY <2>1 DEF SweepTruthful
  <2>3. MemorySerial'
    BY <1>4, <1>8, <2>1 DEF HubInv, MemorySerial, storeVars, SweepListFailed
  <2>4. QED
    BY <1>1, <1>3, <1>5, <2>2, <2>3 DEF HubInv
<1>9. ASSUME NEW t \in sweep.todo, NEW out \in WriteOutcomes, SweepExpire(t, out)
      PROVE  HubInv'
  <2>1. /\ sweep'.todo = sweep.todo \ {t}
        /\ sweep'.now \subseteq sweep.now
        /\ sweep.at = "expiring"
        /\ sweep'.at = "asleep" => sweep'.todo = {}
    BY <1>9 DEF SweepExpire, SweepRest, Asleep, HubInv, HubTypeOK, Sweep
  <2>2. SweepTruthful'
    BY <1>2, <1>4, <2>1, SweepKept
  <2>3. MemorySerial'
    <3>1. SUFFICES ASSUME ~RedisEnabled
                   PROVE  MemorySerial'
      BY DEF MemorySerial
    <3>2. open = {}
      BY <2>1, <3>1 DEF HubInv, MemorySerial
    <3>3. ASSUME NEW r \in sweep'.todo
          PROVE  r[2] = store'[r[1]]
      <4>1. r \in sweep.todo /\ r # t /\ r \in Offers \X Brief /\ t \in Offers \X Brief
        BY <2>1 DEF HubInv, HubTypeOK, Sweep
      <4>2. r[2] = store[r[1]] /\ t[2] = store[t[1]]
        BY <3>1, <4>1 DEF HubInv, MemorySerial
      <4>3. r[1] # t[1]
        BY <4>1, <4>2
      <4>4. store'[r[1]] = store[r[1]]
        BY <1>9, <4>1, <4>3
           DEF SweepExpire, update, Put, storeVars, HubInv, HubTypeOK, StoreTypeOK
      <4>5. QED
        BY <4>2, <4>4
    <3>4. QED
      BY <1>4, <2>1, <3>2, <3>3 DEF MemorySerial
  <2>4. QED
    BY <1>1, <1>3, <1>5, <2>2, <2>3 DEF HubInv
<1>10. QED
  BY <1>6, <1>7, <1>8, <1>9 DEF _expire_offers_task

LEMMA RestartStep ==
  ASSUME HubInv, HubRestart
  PROVE  HubInv'
<1>1. HubTypeOK'
  BY TypeStep DEF HubInv, HubNext
<1>2. Stored' \subseteq Stored /\ \A o \in Stored' : store'[o] = store[o]
  BY DEF HubRestart, StoreRestart, Stored
<1>3. UNCHANGED <<seen, auditLog, lapsed>>
  BY DEF HubRestart, StoreRestart
<1>4. StoreRecorded'
  BY <1>2, <1>3 DEF HubInv, StoreRecorded
<1>5. open' = {} /\ auditTasks' = {} /\ sweep' = Asleep
  BY DEF HubRestart
<1>6. OpenTruthful' /\ SweepTruthful' /\ MemorySerial'
  BY <1>5 DEF OpenTruthful, SweepTruthful, MemorySerial, Asleep
<1>7. AuditTruthful'
  BY <1>3, <1>5 DEF HubInv, AuditTruthful, Allowed
<1>8. QED
  BY <1>1, <1>4, <1>6, <1>7 DEF HubInv

LEMMA InvStep == HubInv /\ [HubNext]_hubVars => HubInv'
<1> SUFFICES ASSUME HubInv, [HubNext]_hubVars
             PROVE  HubInv'
  OBVIOUS
<1>1. ASSUME NEW p \in Requests,
             save_offer(p) \/ get_offer(p) \/ update_offer_status_start(p)
      PROVE  HubInv'
  BY <1>1, HandlerStep
<1>2. CASE update_offer_status_finish
  BY <1>2, FinishStep DEF update_offer_status_finish
<1>3. CASE log_event
  <2>1. /\ UNCHANGED <<storeVars, handlerVars, sweep, lapsed>>
        /\ auditTasks' \cup auditLog' \subseteq auditTasks \cup auditLog
    BY <1>3 DEF log_event, AuditInsert, AuditRefused
  <2>2. HubTypeOK'
    BY <1>3, TypeStep DEF HubInv, HubNext, HubStep
  <2>3. QED
    BY <2>1, <2>2 DEF HubInv, StoreRecorded, OpenTruthful, SweepTruthful,
                      MemorySerial, AuditTruthful, Stored, Allowed, storeVars, handlerVars
<1>4. CASE _expire_offers_task
  BY <1>4, SweepStep
<1>5. ASSUME NEW o \in Offers, Lapse(o)
      PROVE  HubInv'
  <2>1. /\ UNCHANGED <<storeVars, handlerVars, auditVars, sweep>>
        /\ lapsed \subseteq lapsed'
    BY <1>5 DEF Lapse
  <2>2. HubTypeOK'
    BY <1>5, TypeStep DEF HubInv, HubNext, HubStep
  <2>3. QED
    BY <2>1, <2>2 DEF HubInv, StoreRecorded, OpenTruthful, SweepTruthful, MemorySerial,
                      AuditTruthful, Stored, Allowed, storeVars, handlerVars, auditVars
<1>6. CASE HubRestart
  BY <1>6, RestartStep
<1>7. CASE UNCHANGED hubVars
  BY <1>7 DEF hubVars, HubInv, HubTypeOK, StoreTypeOK, StoreRecorded, OpenTruthful,
              SweepTruthful, MemorySerial, AuditTruthful, Stored, Allowed
<1>8. QED
  BY <1>1, <1>2, <1>3, <1>4, <1>5, <1>6, <1>7 DEF HubNext, HubStep

LEMMA HubInvariant == HubSpec => []HubInv
<1>1. HubInit => HubInv
  <2>1. ASSUME HubInit
        PROVE  HubTypeOK /\ Stored = {} /\ sweep = Asleep
    BY <2>1 DEF HubInit, StoreInit, HubTypeOK, StoreTypeOK, Asleep, Sweep, Stored
  <2>2. QED
    BY <2>1 DEF HubInit, HubInv, StoreRecorded, OpenTruthful, SweepTruthful,
                MemorySerial, AuditTruthful, Asleep
<1>2. QED
  BY <1>1, InvStep, PTL DEF HubSpec

-------------------------------------------------------------------------------
(* The audit log tells only of writes the store took and of valid          *)
(* transitions, with any number of concurrent requests.                    *)
THEOREM HubAuditTruthful == HubSpec => []AuditTruthful
<1>1. HubInv => AuditTruthful
  BY DEF HubInv
<1>2. QED
  BY <1>1, HubInvariant, PTL

-------------------------------------------------------------------------------
(***************************************************************************)
(* The refinement.  A lawful write is the birth or a move of one offer; a  *)
(* restart is a stutter with Redis and Forget in memory.                   *)
(***************************************************************************)
LEMMA SameModel ==
  /\ Lifecycle!Status = Status
  /\ Lifecycle!Brief = Brief
  /\ Lifecycle!VALID_TRANSITIONS = VALID_TRANSITIONS
  /\ \A b : Lifecycle!MaySave(b) <=> MaySave(b)
<1>1. Lifecycle!Status = Status /\ Lifecycle!Trigger = Trigger
  BY DEF Lifecycle!Status, Status, Lifecycle!Trigger, Trigger
<1>2. QED
  BY <1>1 DEF Lifecycle!Brief, Brief, Lifecycle!VALID_TRANSITIONS, VALID_TRANSITIONS,
              Lifecycle!MaySave, MaySave

LEMMA LifecycleInit == HubInit => Lifecycle!Init
BY DEF HubInit, StoreInit, Lifecycle!Init, StatusOf, TriggerOf, Stored

(* How a Put shows in what OfferLifecycle sees.                            *)
LEMMA PutShows ==
  ASSUME HubInv, NEW o \in Offers, NEW b \in Brief, Put(o, b)
  PROVE  /\ [q \in Offers |-> StatusOf(q)]' =
              [[q \in Offers |-> StatusOf(q)] EXCEPT ![o] = b.status]
         /\ [q \in Offers |-> TriggerOf(q)]' =
              [[q \in Offers |-> TriggerOf(q)] EXCEPT ![o] = b.trigger]
         /\ o \in Stored => /\ StatusOf(o) # "absent" /\ StatusOf(o) = store[o].status
                            /\ TriggerOf(o) = store[o].trigger
         /\ o \notin Stored => StatusOf(o) = "absent"
         /\ b.status \in Status
<1>1. StatusOf(o)' = b.status /\ TriggerOf(o)' = b.trigger
  BY NoOfferAssumption DEF Put, StatusOf, TriggerOf, Stored, HubInv, HubTypeOK, StoreTypeOK
<1>2. \A q \in Offers : q # o => /\ StatusOf(q)' = StatusOf(q)
                                 /\ TriggerOf(q)' = TriggerOf(q)
  BY DEF Put, StatusOf, TriggerOf, Stored, HubInv, HubTypeOK, StoreTypeOK
<1>3. ASSUME o \in Stored
      PROVE  StatusOf(o) # "absent" /\ StatusOf(o) = store[o].status
  <2>1. store[o].status \in Status
    BY <1>3, StoredBrief DEF Brief, HubInv, HubTypeOK
  <2>2. QED
    BY <1>3, <2>1 DEF StatusOf, Status
<1>4. QED
  BY <1>1, <1>2, <1>3 DEF StatusOf, TriggerOf, Brief

LEMMA LawfulPutRefines ==
  ASSUME HubInv, NEW o \in Offers, NEW b \in Brief, LawfulPut(o, b),
         o \notin Stored => MaySave(b)
  PROVE  Lifecycle!Next
<1> USE PutShows DEF LawfulPut
<1>1. seen' = [seen EXCEPT ![o] = @ \cup {b.status}]
  BY DEF Put
<1>2. CASE o \in Stored
  <2>1. [q \in Offers |-> TriggerOf(q)]' = [q \in Offers |-> TriggerOf(q)]
    BY <1>2
  <2>2. \E s \in (IF RedisEnabled THEN seen[o] ELSE {StatusOf(o)}) :
           b.status \in VALID_TRANSITIONS[s]
    BY <1>2 DEF WriteBase, Allowed
  <2>3. Lifecycle!Move(o, b.status)
    BY <1>1, <1>2, <2>1, <2>2, SameModel DEF Lifecycle!Move, Lifecycle!Base
  <2>4. QED
    BY <2>3, SameModel DEF Lifecycle!Next
<1>3. CASE o \notin Stored
  <2>1. Lifecycle!Born(o, b)
    BY <1>1, <1>3, SameModel DEF Lifecycle!Born
  <2>2. QED
    BY <2>1, SameModel DEF Lifecycle!Next
<1>4. QED
  BY <1>2, <1>3

(* Lawful writes that create no offer against F-003 are steps of the life. *)
LEMMA StoreStepRefines ==
  ASSUME HubInv, StoreStep, \A o \in Stored' \ Stored : MaySave(store'[o])
  PROVE  [Lifecycle!Next]_(Lifecycle!vars)
<1>1. CASE UNCHANGED storeVars
  BY <1>1 DEF Lifecycle!vars, storeVars, StatusOf, TriggerOf, Stored
<1>2. ASSUME NEW o \in Offers, NEW b \in Brief, LawfulPut(o, b)
      PROVE  Lifecycle!Next
  <2>1. store'[o] = b /\ o \in Stored'
    BY <1>2, NoOfferAssumption DEF LawfulPut, Put, Stored, HubInv, HubTypeOK, StoreTypeOK
  <2>2. o \notin Stored => MaySave(b)
    BY <2>1
  <2>3. QED
    BY <1>2, <2>2, LawfulPutRefines
<1>3. QED
  BY <1>1, <1>2 DEF StoreStep

(* POST /offers guards the only way into the store that the Hub has: the   *)
(* plain SETs of updates and of the sweep meet an offer that is there.     *)
LEMMA HubBirths ==
  ASSUME HubInv, [HubNext]_hubVars, NEW o \in Stored' \ Stored
  PROVE  MaySave(store'[o])
<1>1. store \in [Offers -> Brief \cup {NoOffer}]
  BY DEF HubInv, HubTypeOK, StoreTypeOK
<1>2. ASSUME NEW p \in Requests, save_offer(p)
      PROVE  MaySave(store'[o])
  <2>1. PICK q \in Offers, b \in Brief :
          UNCHANGED store \/ (MaySave(b) /\ \E out : save(q, b, out))
    BY <1>2 DEF save_offer, PostRefused, PostSaved, PostConflict, PostUnavailable
  <2>2. CASE UNCHANGED store
    BY <2>2 DEF Stored
  <2>3. CASE MaySave(b) /\ \E out : save(q, b, out)
    BY <1>1, <2>3 DEF save, Put, storeVars, Stored
  <2>4. QED
    BY <2>1, <2>2, <2>3
<1>3. ASSUME NEW q \in Stored, NEW b, NEW out, update(q, b, out)
      PROVE  FALSE
  BY <1>1, <1>3 DEF update, Put, storeVars, Stored
<1>4. ~update_offer_status_finish
  BY <1>3 DEF update_offer_status_finish, PutDone, PutUnavailable, HubInv, OpenTruthful
<1>5. ~\E t \in sweep.todo, out \in WriteOutcomes : SweepExpire(t, out)
  BY <1>3 DEF SweepExpire, HubInv, SweepTruthful
<1>6. ~(HubRestart \/ UNCHANGED store)
  BY DEF HubRestart, StoreRestart, Stored
<1>7. QED
  BY <1>2, <1>4, <1>5, <1>6
     DEF HubNext, HubStep, get_offer, GetFound, update_offer_status_start, ReadFailed,
         PutRefused, PutRead, _expire_offers_task, SweepWake, SweepListed,
         SweepListFailed, log_event, AuditInsert, AuditRefused, Lapse, storeVars, hubVars

LEMMA LifecycleStep == HubInv /\ [HubNext]_hubVars => [Lifecycle!Next]_(Lifecycle!vars)
<1> SUFFICES ASSUME HubInv, [HubNext]_hubVars
             PROVE  [Lifecycle!Next]_(Lifecycle!vars)
  OBVIOUS
<1>1. CASE StoreStep
  BY <1>1, HubBirths, StoreStepRefines
<1>2. CASE HubRestart
  <2>1. CASE RedisEnabled
    BY <1>2, <2>1 DEF HubRestart, StoreRestart, Lifecycle!vars, StatusOf, TriggerOf, Stored
  <2>2. CASE ~RedisEnabled
    <3>1. UNCHANGED seen /\ Stored' = {}
      BY <1>2, <2>2 DEF HubRestart, StoreRestart, Stored
    <3>2. Lifecycle!Forget
      BY <2>2, <3>1 DEF Lifecycle!Forget, StatusOf, TriggerOf
    <3>3. QED
      BY <3>2 DEF Lifecycle!Next
  <2>3. QED
    BY <2>1, <2>2
<1>3. QED
  BY <1>1, <1>2, StoreSteps

(* Every offer of the Hub lives as OfferLifecycle says, with either store. *)
THEOREM HubImplementsLifecycle == HubSpec => ImplementsLifecycle
<1>1. HubSpec => Lifecycle!Init /\ [][Lifecycle!Next]_(Lifecycle!vars)
  BY LifecycleInit, LifecycleStep, HubInvariant, PTL DEF HubSpec
<1>2. QED
  BY <1>1 DEF ImplementsLifecycle, Lifecycle!Spec

-------------------------------------------------------------------------------
(***************************************************************************)
(* What OfferLifecycleProofs proves of the promise holds of the Hub.  The  *)
(* two instances of OfferLifecycle, the one the theorems are about and the *)
(* one Hub implements, are the same formulas.                              *)
(***************************************************************************)
Promise == INSTANCE OfferLifecycleProofs
             WITH Concurrent <- RedisEnabled,
                  status  <- [o \in Offers |-> StatusOf(o)],
                  trigger <- [o \in Offers |-> TriggerOf(o)]

LEMMA SamePromise == [Lifecycle!Next]_(Lifecycle!vars) => [Promise!Next]_(Promise!vars)
BY DEF Lifecycle!Next, Lifecycle!vars, Lifecycle!Born, Lifecycle!Move, Lifecycle!Forget,
       Lifecycle!Base, Lifecycle!MaySave, Lifecycle!Brief, Lifecycle!Status,
       Lifecycle!Trigger, Lifecycle!VALID_TRANSITIONS,
       Promise!Next, Promise!vars, Promise!Born, Promise!Move, Promise!Forget,
       Promise!Base, Promise!MaySave, Promise!Brief, Promise!Status,
       Promise!Trigger, Promise!VALID_TRANSITIONS

(* Whoever implements the promise keeps its invariant, and with it what    *)
(* OfferLifecycleProofs says of short-lived offers.                        *)
LEMMA PromiseInit == HubInit => Promise!LifeInv
BY LifecycleInit DEF Lifecycle!Init, Promise!LifeInv, Promise!LifeTypeOK, Promise!Remembered,
                     Promise!ActiveWasApproved

LEMMA PromiseKept ==
  ASSUME Promise!LifeInv, [Lifecycle!Next]_(Lifecycle!vars)
  PROVE  Promise!LifeInv'
BY SamePromise, Promise!LifeStep, NoOfferAssumption, RedisEnabledAssumption
   DEF Promise!Brief, Promise!Status, Promise!Trigger, Brief, Status, Trigger

LEMMA PromiseShortLived ==
  ASSUME Promise!LifeInv, [Lifecycle!Next]_(Lifecycle!vars), RedisEnabled,
         NEW o \in Offers, seen[o] \subseteq {"active", "expired"}, StatusOf(o) = "expired"
  PROVE  StatusOf(o)' = "expired"
<1>1. Promise!ShortLived(o)
  BY DEF Promise!ShortLived
<1>2. [q \in Offers |-> StatusOf(q)]'[o] = "expired"
  BY <1>1, SamePromise, Promise!ShortLivedStep, NoOfferAssumption, RedisEnabledAssumption
     DEF Promise!Brief, Promise!Status, Promise!Trigger, Brief, Status, Trigger
<1>3. QED
  BY <1>2

LEMMA PromiseApproved == Promise!LifeInv => ActiveWasApproved
BY DEF Promise!LifeInv, Promise!ActiveWasApproved, ActiveWasApproved, TriggerOf, Stored

LEMMA PromiseInvariant == HubSpec => []Promise!LifeInv
<1>1. HubInv /\ Promise!LifeInv /\ [HubNext]_hubVars => Promise!LifeInv'
  BY LifecycleStep, PromiseKept
<1>2. QED
  BY <1>1, PromiseInit, HubInvariant, PTL DEF HubSpec

(* However status updates interleave, a marketer's offer in Redis is never *)
(* active without having been approved (F-003).                            *)
THEOREM HubActiveWasApproved == HubSpec => []ActiveWasApproved
BY PromiseApproved, PromiseInvariant, PTL

(* A purchase-triggered offer saved active expires once and for good,      *)
(* whatever the sweep and concurrent updates write back (Redis).           *)
THEOREM HubShortLivedExpiresOnce == HubSpec => ShortLivedExpiresOnce
<1>1. HubInv /\ Promise!LifeInv /\ [HubNext]_hubVars =>
        [RedisEnabled =>
           \A o \in Offers :
             seen[o] \subseteq {"active", "expired"} /\ StatusOf(o) = "expired"
               => StatusOf(o)' = "expired"]_storeVars
  BY LifecycleStep, PromiseShortLived
<1>2. QED
  BY <1>1, HubInvariant, PromiseInvariant, PTL DEF HubSpec, ShortLivedExpiresOnce

-------------------------------------------------------------------------------
(***************************************************************************)
(* Answers, rows and the store.  How a step adds to the answers: not at    *)
(* all, with a failure, with a creation, or with a success that is         *)
(* audited; and what it does to the rows.                                  *)
(***************************************************************************)
Created(p, o) ==
  /\ o \notin Stored /\ o \in Stored'
  /\ answers' = answers \cup {[to |-> p, offer |-> o, code |-> 201]}

AnswerStep ==
  \/ UNCHANGED answers
  \/ \E p \in Requests, o \in Offers :
       \/ \E c \in {404, 409, 422, 503} :
            answers' = answers \cup {[to |-> p, offer |-> o, code |-> c]}
       \/ /\ Created(p, o) \/ answers' = answers \cup {[to |-> p, offer |-> o, code |-> 200]}
          /\ \E r \in auditTasks' : r.by = p /\ r.offer = o

LEMMA FireGivesRow ==
  ASSUME NEW p, NEW o, NEW e, NEW old, NEW new, _fire_audit(p, o, e, old, new)
  PROVE  \E r \in auditTasks' : r.by = p /\ r.offer = o
<1> DEFINE row == [by |-> p, offer |-> o, event |-> e, old |-> old, new |-> new]
<1>1. row \in auditTasks'
  BY DEF _fire_audit
<1>2. row.by = p /\ row.offer = o
  OBVIOUS
<1>3. QED
  BY <1>1, <1>2

LEMMA ReplyIsNew ==
  ASSUME NEW p, NEW o, NEW c, Idle(p), Reply(p, o, c)
  PROVE  answers' # answers
<1> DEFINE a == [to |-> p, offer |-> o, code |-> c]
<1>1. a \in answers' /\ a.to = p
  BY DEF Reply
<1>2. QED
  BY <1>1 DEF Idle

LEMMA HandlerAnswers ==
  ASSUME HubInv, NEW p \in Requests,
         save_offer(p) \/ get_offer(p) \/ update_offer_status_start(p)
  PROVE  AnswerStep
<1>1. ASSUME NEW o \in Offers, NEW b \in Brief, PostSaved(p, o, b)
      PROVE  AnswerStep
  <2>1. b # NoOffer
    BY NoOfferAssumption
  <2>2. Created(p, o)
    BY <1>1, <2>1 DEF PostSaved, save, Put, Reply, Created, Stored, HubInv, HubTypeOK, StoreTypeOK
  <2>3. \E r \in auditTasks' : r.by = p /\ r.offer = o
    BY <1>1, FireGivesRow DEF PostSaved
  <2>4. QED
    BY <2>2, <2>3 DEF AnswerStep
<1>2. ASSUME NEW o \in Offers, GetFound(p, o)
      PROVE  AnswerStep
  <2>1. \E r \in auditTasks' : r.by = p /\ r.offer = o
    BY <1>2, FireGivesRow DEF GetFound
  <2>2. QED
    BY <1>2, <2>1 DEF GetFound, Reply, AnswerStep
<1>3. ASSUME NEW o \in Offers, NEW b \in Brief,
             \/ PostRefused(p, o, b) \/ PostConflict(p, o, b)
             \/ \E out \in WriteOutcomes : PostUnavailable(p, o, b, out)
      PROVE  AnswerStep
  BY <1>3 DEF PostRefused, PostConflict, PostUnavailable, Reply, AnswerStep
<1>4. ASSUME NEW o \in Offers,
             \/ \E out \in ReadOutcomes : ReadFailed(p, o, out)
             \/ \E n \in Status : PutRefused(p, o, n) \/ PutRead(p, o, n)
      PROVE  AnswerStep
  BY <1>4 DEF ReadFailed, PutRefused, PutRead, Reply, AnswerStep
<1>5. QED
  BY <1>1, <1>2, <1>3, <1>4 DEF save_offer, get_offer, update_offer_status_start

LEMMA AnswerSteps == HubInv /\ [HubNext]_hubVars => AnswerStep
<1> SUFFICES ASSUME HubInv, [HubNext]_hubVars
             PROVE  AnswerStep
  OBVIOUS
<1>1. ASSUME NEW p \in Requests,
             save_offer(p) \/ get_offer(p) \/ update_offer_status_start(p)
      PROVE  AnswerStep
  BY <1>1, HandlerAnswers
<1>2. ASSUME NEW u \in open, PutDone(u)
      PROVE  AnswerStep
  <2>1. u.by \in Requests /\ u.offer \in Offers
    BY DEF HubInv, HubTypeOK, OpenUpdate
  <2>2. \E r \in auditTasks' : r.by = u.by /\ r.offer = u.offer
    BY <1>2, FireGivesRow DEF PutDone
  <2>3. QED
    BY <1>2, <2>1, <2>2 DEF PutDone, Reply, AnswerStep
<1>3. ASSUME NEW u \in open, NEW out, PutUnavailable(u, out)
      PROVE  AnswerStep
  <2>1. u.by \in Requests /\ u.offer \in Offers
    BY DEF HubInv, HubTypeOK, OpenUpdate
  <2>2. QED
    BY <1>3, <2>1 DEF PutUnavailable, Reply, AnswerStep
<1>4. ASSUME \/ log_event \/ _expire_offers_task \/ HubRestart
             \/ UNCHANGED hubVars
             \/ \E o \in Offers : Lapse(o)
      PROVE  AnswerStep
  BY <1>4 DEF log_event, AuditInsert, AuditRefused, _expire_offers_task, SweepWake,
              SweepListed, SweepListFailed, SweepExpire, HubRestart, Lapse,
              hubVars, handlerVars, AnswerStep
<1>5. QED
  BY <1>1, <1>2, <1>3, <1>4 DEF HubNext, HubStep, update_offer_status_finish

(* Rows leave the tasks and the log only by a restart or SQLite's refusal. *)
LEMMA RowsKept ==
  ASSUME HubInv, [HubNext]_hubVars, ~MayRestart, ~AuditMayFail
  PROVE  auditTasks \cup auditLog \subseteq auditTasks' \cup auditLog'
<1>1. CASE \E r \in auditTasks : AuditInsert(r)
  BY <1>1 DEF AuditInsert
<1>2. ASSUME NEW p \in Requests,
             save_offer(p) \/ get_offer(p) \/ update_offer_status_start(p)
      PROVE  auditTasks \subseteq auditTasks' /\ UNCHANGED auditLog
  BY <1>2 DEF save_offer, get_offer, update_offer_status_start, PostRefused, PostSaved,
              PostConflict, PostUnavailable, GetFound, ReadFailed, PutRefused, PutRead,
              _fire_audit, auditVars
<1>3. ASSUME \/ update_offer_status_finish \/ _expire_offers_task
             \/ UNCHANGED hubVars \/ \E o \in Offers : Lapse(o)
      PROVE  auditTasks \subseteq auditTasks' /\ UNCHANGED auditLog
  BY <1>3 DEF update_offer_status_finish, PutDone, PutUnavailable, _fire_audit,
              _expire_offers_task, SweepWake, SweepListed, SweepListFailed, SweepExpire,
              Lapse, hubVars, auditVars
<1>4. QED
  BY <1>1, <1>2, <1>3 DEF HubNext, HubStep, log_event, AuditRefused, HubRestart

(* Every success is audited: no acknowledged request lacks its row while   *)
(* the process lives and SQLite accepts rows.                              *)
THEOREM HubAcknowledgedIsAudited == HubSpec => []AcknowledgedIsAudited
<1>1. HubInit => AcknowledgedIsAudited
  BY DEF HubInit, AcknowledgedIsAudited
<1>2. HubInv /\ AcknowledgedIsAudited /\ [HubNext]_hubVars => AcknowledgedIsAudited'
  <2>1. SUFFICES ASSUME HubInv, AcknowledgedIsAudited, [HubNext]_hubVars,
                        ~MayRestart, ~AuditMayFail,
                        NEW a \in answers', a.code \in {200, 201}
                 PROVE  \E r \in auditTasks' \cup auditLog' :
                           r.by = a.to /\ r.offer = a.offer
    BY DEF AcknowledgedIsAudited
  <2>2. CASE a \in answers
    BY <2>1, <2>2, RowsKept DEF AcknowledgedIsAudited
  <2>3. CASE a \notin answers
    BY <2>1, <2>3, AnswerSteps DEF AnswerStep, Created
  <2>4. QED
    BY <2>2, <2>3
<1>3. QED
  BY <1>1, <1>2, HubInvariant, PTL DEF HubSpec

(* A status the history gains comes from the one Put of a step.            *)
LEMMA PutGains ==
  ASSUME HubInv, NEW q \in Offers, NEW b, Put(q, b),
         NEW o \in Offers, NEW s \in seen'[o], s \notin seen[o]
  PROVE  o = q /\ s = b.status
BY DEF Put, HubInv, HubTypeOK, StoreTypeOK

LEMMA FireTells ==
  ASSUME NEW p, NEW o, NEW e \in {"offer_created", "status_transition"}, NEW old, NEW new,
         _fire_audit(p, o, e, old, new)
  PROVE  \E r \in auditTasks' :
           r.offer = o /\ r.new = new /\ r.event \in {"offer_created", "status_transition"}
<1> DEFINE r == [by |-> p, offer |-> o, event |-> e, old |-> old, new |-> new]
<1>1. r \in auditTasks'
  BY DEF _fire_audit
<1>2. r.offer = o /\ r.new = new /\ r.event = e
  OBVIOUS
<1>3. QED
  BY <1>1, <1>2

LEMMA ReplyDenies ==
  ASSUME NEW p, NEW o, Reply(p, o, 503)
  PROVE  \E a \in answers' : a.offer = o /\ a.code = 503
<1> DEFINE a == [to |-> p, offer |-> o, code |-> 503]
<1>1. a \in answers'
  BY DEF Reply
<1>2. a.offer = o /\ a.code = 503
  OBVIOUS
<1>3. QED
  BY <1>1, <1>2

(* Whoever makes an offer's history grow leaves a trace of it.             *)
LEMMA GainIsTraced ==
  ASSUME HubInv, [HubNext]_hubVars,
         NEW o \in Offers, NEW s \in seen'[o], s \notin seen[o]
  PROVE  \/ \E r \in auditTasks' :
              r.offer = o /\ r.new = s /\ r.event \in {"offer_created", "status_transition"}
         \/ \E a \in answers' : a.offer = o /\ a.code = 503
         \/ s = "expired" /\ o \in lapsed
<1> DEFINE Goal == \/ \E r \in auditTasks' :
                        /\ r.offer = o /\ r.new = s
                        /\ r.event \in {"offer_created", "status_transition"}
                   \/ \E a \in answers' : a.offer = o /\ a.code = 503
                   \/ s = "expired" /\ o \in lapsed
<1> SUFFICES Goal
  OBVIOUS
<1>0. ~UNCHANGED storeVars
  BY DEF storeVars
<1>1. ASSUME NEW p \in Requests, NEW q \in Offers, NEW b \in Brief, PostSaved(p, q, b)
      PROVE  Goal
  <2>1. Put(q, b)
    BY <1>0, <1>1 DEF PostSaved, save, storeVars
  <2>2. o = q /\ s = b.status
    BY <2>1, PutGains
  <2>3. QED
    BY <1>1, <2>2, FireTells DEF PostSaved
<1>2. ASSUME NEW p \in Requests, NEW q \in Offers, NEW b \in Brief,
             NEW out \in WriteOutcomes, PostUnavailable(p, q, b, out)
      PROVE  Goal
  <2>1. Put(q, b)
    BY <1>0, <1>2 DEF PostUnavailable, save, storeVars
  <2>2. o = q
    BY <2>1, PutGains
  <2>3. QED
    BY <1>2, <2>2, ReplyDenies DEF PostUnavailable
<1>3. ASSUME NEW u \in open, PutDone(u)
      PROVE  Goal
  <2>1. u.offer \in Offers /\ u.read \in Brief /\ u.new \in Status
    BY DEF HubInv, HubTypeOK, OpenUpdate
  <2>2. Put(u.offer, WithStatus(u.read, u.new))
    BY <1>3 DEF PutDone, update
  <2>3. o = u.offer /\ s = u.new
    BY <2>1, <2>2, PutGains, BriefWithStatus
  <2>4. QED
    BY <1>3, <2>3, FireTells DEF PutDone
<1>4. ASSUME NEW u \in open, NEW out \in WriteOutcomes, PutUnavailable(u, out)
      PROVE  Goal
  <2>1. u.offer \in Offers
    BY DEF HubInv, HubTypeOK, OpenUpdate
  <2>2. Put(u.offer, WithStatus(u.read, u.new))
    BY <1>0, <1>4 DEF PutUnavailable, update, storeVars
  <2>3. o = u.offer
    BY <2>1, <2>2, PutGains
  <2>4. QED
    BY <1>4, <2>3, ReplyDenies DEF PutUnavailable
<1>5. ASSUME NEW t \in sweep.todo, NEW out \in WriteOutcomes, SweepExpire(t, out)
      PROVE  Goal
  <2>1. t[1] \in Offers /\ t[1] \in lapsed /\ t[2] \in Brief
    BY DEF HubInv, HubTypeOK, Sweep, SweepTruthful
  <2>2. Put(t[1], WithStatus(t[2], "expired"))
    BY <1>0, <1>5 DEF SweepExpire, update, storeVars
  <2>3. o = t[1] /\ s = "expired"
    BY <2>1, <2>2, PutGains, BriefWithStatus DEF Status
  <2>4. QED
    BY <2>1, <2>3
<1>6. \/ \E p \in Requests, q \in Offers, b \in Brief :
           \/ PostSaved(p, q, b)
           \/ \E out \in WriteOutcomes : PostUnavailable(p, q, b, out)
      \/ \E u \in open : PutDone(u) \/ \E out \in WriteOutcomes : PutUnavailable(u, out)
      \/ \E t \in sweep.todo, out \in WriteOutcomes : SweepExpire(t, out)
  <2>1. ASSUME NEW p \in Requests, get_offer(p) \/ update_offer_status_start(p)
        PROVE  UNCHANGED storeVars
    BY <2>1 DEF get_offer, update_offer_status_start, GetFound, ReadFailed,
                PutRefused, PutRead, storeVars
  <2>2. ASSUME NEW p \in Requests, NEW q \in Offers, NEW b \in Brief,
               PostRefused(p, q, b) \/ PostConflict(p, q, b)
        PROVE  UNCHANGED storeVars
    BY <2>2 DEF PostRefused, PostConflict, save, storeVars
  <2>3. ASSUME \/ log_event \/ \E q \in Offers : Lapse(q)
               \/ SweepWake \/ UNCHANGED hubVars
               \/ \E late \in SUBSET (Stored \ sweep.keys) : SweepListed(late)
               \/ \E out \in ReadOutcomes : SweepListFailed(out)
        PROVE  UNCHANGED storeVars
    BY <2>3 DEF log_event, AuditInsert, AuditRefused, Lapse, SweepWake, SweepListed,
                SweepListFailed, hubVars, storeVars
  <2>4. ~HubRestart
    BY DEF HubRestart, StoreRestart
  <2>5. QED
    BY <1>0, <2>1, <2>2, <2>3, <2>4
       DEF HubNext, HubStep, save_offer, update_offer_status_finish, _expire_offers_task
<1>7. QED
  BY <1>1, <1>2, <1>3, <1>4, <1>5, <1>6

LEMMA AnswersGrow ==
  ASSUME [HubNext]_hubVars
  PROVE  answers \subseteq answers' /\ lapsed \subseteq lapsed'
<1>1. ASSUME NEW p \in Requests,
             save_offer(p) \/ get_offer(p) \/ update_offer_status_start(p)
      PROVE  answers \subseteq answers' /\ lapsed \subseteq lapsed'
  BY <1>1 DEF save_offer, get_offer, update_offer_status_start, PostRefused, PostSaved,
              PostConflict, PostUnavailable, GetFound, ReadFailed, PutRefused, PutRead, Reply
<1>2. ASSUME update_offer_status_finish
      PROVE  answers \subseteq answers' /\ lapsed \subseteq lapsed'
  BY <1>2 DEF update_offer_status_finish, PutDone, PutUnavailable, Reply
<1>3. ASSUME \/ log_event \/ _expire_offers_task \/ HubRestart
             \/ UNCHANGED hubVars \/ \E o \in Offers : Lapse(o)
      PROVE  answers \subseteq answers' /\ lapsed \subseteq lapsed'
  BY <1>3 DEF log_event, AuditInsert, AuditRefused, _expire_offers_task, SweepWake,
              SweepListed, SweepListFailed, SweepExpire, HubRestart, Lapse,
              hubVars, handlerVars
<1>4. QED
  BY <1>1, <1>2, <1>3 DEF HubNext, HubStep

(* The statuses without a row are the sweep's and the denied ones, for any *)
(* offers, requests and failures of the store.                             *)
THEOREM HubStatusesAreTraced == HubSpec => []StatusesAreTraced
<1>1. HubInit => StatusesAreTraced
  BY DEF HubInit, StoreInit, StatusesAreTraced
<1>2. HubInv /\ StatusesAreTraced /\ [HubNext]_hubVars => StatusesAreTraced'
  <2>1. SUFFICES ASSUME HubInv, StatusesAreTraced, [HubNext]_hubVars,
                        ~MayRestart, ~AuditMayFail,
                        NEW o \in Offers, NEW s \in seen'[o]
                 PROVE  RowTells(o, s)' \/ Denied(o)' \/ (s = "expired" /\ o \in lapsed')
    BY DEF StatusesAreTraced
  <2>2. answers \subseteq answers' /\ lapsed \subseteq lapsed'
    BY <2>1, AnswersGrow
  <2>3. CASE s \in seen[o]
    <3>1. RowTells(o, s) \/ Denied(o) \/ (s = "expired" /\ o \in lapsed)
      BY <2>1, <2>3 DEF StatusesAreTraced
    <3>2. auditTasks \cup auditLog \subseteq auditTasks' \cup auditLog'
      BY <2>1, RowsKept
    <3>3. QED
      BY <2>2, <3>1, <3>2 DEF RowTells, Denied
  <2>4. CASE s \notin seen[o]
    BY <2>1, <2>2, <2>4, GainIsTraced DEF RowTells, Denied
  <2>5. QED
    BY <2>3, <2>4
<1>3. QED
  BY <1>1, <1>2, HubInvariant, PTL DEF HubSpec

(* An offer_id that was created is in the store, so a later creation of it *)
(* is refused.                                                             *)
CreatedIsStored ==
  RedisEnabled \/ ~MayRestart =>
    \A a \in answers : a.code = 201 => a.offer \in Stored

LEMMA StoredKept ==
  ASSUME HubInv, [HubNext]_hubVars, RedisEnabled \/ ~MayRestart
  PROVE  Stored \subseteq Stored'
BY StoreSteps, StoreStepKeeps DEF HubRestart, StoreRestart, Stored

(* However two POST /offers of one offer_id interleave, one at most is     *)
(* told that it has created the offer.                                     *)
THEOREM HubOneCreator == HubSpec => []OneCreator
<1>1. HubInit => CreatedIsStored /\ OneCreator
  BY DEF HubInit, CreatedIsStored, OneCreator
<1>2. HubInv /\ CreatedIsStored /\ OneCreator /\ [HubNext]_hubVars
        => CreatedIsStored' /\ OneCreator'
  <2> SUFFICES ASSUME HubInv, CreatedIsStored, OneCreator, [HubNext]_hubVars,
                      RedisEnabled \/ ~MayRestart
               PROVE  /\ \A a \in answers' : a.code = 201 => a.offer \in Stored'
                      /\ \A a, b \in answers' :
                           a.code = 201 /\ b.code = 201 /\ a.offer = b.offer => a = b
    BY DEF CreatedIsStored, OneCreator
  <2>1. Stored \subseteq Stored'
    BY StoredKept
  <2>2. \/ \A a \in answers' : a.code = 201 => a \in answers
        \/ \E p \in Requests, o \in Offers : Created(p, o)
    BY AnswerSteps DEF AnswerStep
  <2>3. CASE \A a \in answers' : a.code = 201 => a \in answers
    BY <2>1, <2>3 DEF CreatedIsStored, OneCreator
  <2>4. CASE \E p \in Requests, o \in Offers : Created(p, o)
    BY <2>1, <2>4 DEF CreatedIsStored, OneCreator, Created
  <2>5. QED
    BY <2>2, <2>3, <2>4
<1>3. QED
  BY <1>1, <1>2, HubInvariant, PTL DEF HubSpec

-------------------------------------------------------------------------------
(* The sweep, although it acts on a snapshot, expires only offers whose    *)
(* valid_until has passed: SweepTruthful remembers that of the snapshots.  *)
THEOREM HubSweepExpiresLapsedOnly == HubSpec => SweepExpiresLapsedOnly
<1>1. HubInv /\ [HubNext]_hubVars =>
        [handlerVars' = handlerVars =>
           \A o \in Offers :
             StatusOf(o) # "expired" /\ StatusOf(o)' = "expired" => o \in lapsed]_hubVars
  <2>1. SUFFICES ASSUME HubInv, [HubNext]_hubVars, handlerVars' = handlerVars,
                        NEW o \in Offers, StatusOf(o) # "expired", StatusOf(o)' = "expired"
                 PROVE  o \in lapsed
    OBVIOUS
  <2>2. ~UNCHANGED storeVars
    BY <2>1 DEF storeVars, StatusOf, Stored
  <2>3. UNCHANGED <<open, answers>>
    BY <2>1 DEF handlerVars
  <2>4. ~\E p \in Requests, q \in Offers, b \in Brief : PostSaved(p, q, b)
    BY <2>3, ReplyIsNew DEF PostSaved
  <2>5. ASSUME NEW p \in Requests
        PROVE  ~(save_offer(p) \/ get_offer(p) \/ update_offer_status_start(p))
    <3>1. ASSUME save_offer(p)
          PROVE  \E q \in Offers, b \in Brief, out \in WriteOutcomes :
                    PostUnavailable(p, q, b, out)
      BY <2>2, <2>4, <3>1 DEF save_offer, PostRefused, PostConflict, save, storeVars
    <3>2. ~save_offer(p)
      BY <2>3, <3>1, ReplyIsNew DEF PostUnavailable
    <3>3. QED
      BY <2>2, <3>2 DEF get_offer, update_offer_status_start, GetFound, ReadFailed,
                        PutRefused, PutRead, storeVars
  <2>6. ~update_offer_status_finish
    BY <2>3 DEF update_offer_status_finish, PutDone, PutUnavailable
  <2>7. ~HubRestart
    BY <2>1 DEF HubRestart, StoreRestart, StatusOf, Stored
  <2>8. PICK t \in sweep.todo, out \in WriteOutcomes : SweepExpire(t, out)
    BY <2>1, <2>2, <2>5, <2>6, <2>7
       DEF HubNext, HubStep, log_event, AuditInsert, AuditRefused, Lapse, hubVars,
           _expire_offers_task, SweepWake, SweepListed, SweepListFailed, storeVars
  <2>9. t[1] \in Offers /\ t[1] \in lapsed
    BY <2>1 DEF HubInv, HubTypeOK, Sweep, SweepTruthful
  <2>10. o = t[1]
    BY <2>1, <2>8, <2>9
       DEF SweepExpire, update, Put, StatusOf, Stored, storeVars, HubInv, HubTypeOK, StoreTypeOK
  <2>11. QED
    BY <2>9, <2>10
<1>2. QED
  BY <1>1, HubInvariant, PTL DEF HubSpec, SweepExpiresLapsedOnly

-------------------------------------------------------------------------------
(***************************************************************************)
(* When Redis gives what memory gives.  The weak promise is all that holds *)
(* because two suspended writers may hold copies of one offer.  As long as *)
(* the writers of each offer take turns, every copy is the stored offer,   *)
(* so each status follows the current one and expired is terminal.         *)
(***************************************************************************)
WritersTakeTurns ==
  /\ \A u, v \in open : u.offer = v.offer => u = v
  /\ \A u \in open, t \in sweep.todo : u.offer # t[1]

FreshCopies ==
  /\ \A u \in open : u.read = store[u.offer]
  /\ \A t \in sweep.todo : t[2] = store[t[1]]

(* A write that creates an offer or moves it on from where it is.          *)
FreshPut(o, b) ==
  /\ Put(o, b)
  /\ o \in Stored => b.trigger = store[o].trigger /\ Allowed(store[o].status, b.status)

LEMMA MemoryTakesTurns == HubInv /\ ~RedisEnabled => WritersTakeTurns
BY DEF HubInv, MemorySerial, WritersTakeTurns

LEMMA PutElsewhere ==
  ASSUME HubInv, NEW o \in Offers, NEW b, NEW out, update(o, b, out)
  PROVE  \A q \in Offers : q # o => store'[q] = store[q]
BY DEF update, Put, storeVars, HubInv, HubTypeOK, StoreTypeOK

LEMMA FreshKept ==
  ASSUME HubInv, FreshCopies, open' \subseteq open, sweep'.todo \subseteq sweep.todo,
         \A u \in open' : store'[u.offer] = store[u.offer],
         \A t \in sweep'.todo : store'[t[1]] = store[t[1]]
  PROVE  FreshCopies'
BY DEF FreshCopies

LEMMA HandlerFresh ==
  ASSUME HubInv, FreshCopies, NEW p \in Requests,
         save_offer(p) \/ get_offer(p) \/ update_offer_status_start(p)
  PROVE  /\ FreshCopies'
         /\ UNCHANGED storeVars \/ \E o \in Offers, b \in Brief : FreshPut(o, b)
<1>1. CASE save_offer(p)
  <2>1. PICK o \in Offers, b \in Brief :
           /\ UNCHANGED storeVars \/ (Put(o, b) /\ o \notin Stored)
           /\ UNCHANGED <<open, sweep>>
    BY <1>1 DEF save_offer, PostRefused, PostSaved, PostConflict, PostUnavailable, save,
                storeVars
  <2>2. \A q \in Stored : store'[q] = store[q]
    BY <2>1 DEF Put, storeVars, Stored, HubInv, HubTypeOK, StoreTypeOK
  <2>3. FreshCopies'
    BY <2>1, <2>2, FreshKept DEF HubInv, OpenTruthful, SweepTruthful
  <2>4. QED
    BY <2>1, <2>3 DEF FreshPut
<1>2. CASE get_offer(p) \/ update_offer_status_start(p)
  <2>1. UNCHANGED <<store, seen, sweep>>
    BY <1>2 DEF get_offer, update_offer_status_start, GetFound, ReadFailed, PutRefused, PutRead
  <2>2. \A u \in open' : u \in open \/ u.read = store[u.offer]
    BY <1>2 DEF get_offer, update_offer_status_start, GetFound, ReadFailed, PutRefused, PutRead
  <2>3. FreshCopies'
    BY <2>1, <2>2 DEF FreshCopies
  <2>4. QED
    BY <2>1, <2>3 DEF storeVars
<1>3. QED
  BY <1>1, <1>2

LEMMA FinishFresh ==
  ASSUME HubInv, FreshCopies, WritersTakeTurns, update_offer_status_finish
  PROVE  /\ FreshCopies'
         /\ UNCHANGED storeVars \/ \E o \in Offers, b \in Brief : FreshPut(o, b)
<1>1. PICK u \in open :
         /\ open' = open \ {u} /\ UNCHANGED sweep
         /\ \E out : update(u.offer, WithStatus(u.read, u.new), out)
  BY DEF update_offer_status_finish, PutDone, PutUnavailable
<1>2. u.offer \in Offers /\ u.read \in Brief /\ u.new \in Status
  BY DEF HubInv, HubTypeOK, OpenUpdate
<1>3. /\ WithStatus(u.read, u.new) \in Brief
      /\ WithStatus(u.read, u.new).status = u.new
      /\ WithStatus(u.read, u.new).trigger = u.read.trigger
  BY <1>2, BriefWithStatus
<1>4. /\ u.offer \in Stored /\ u.read = store[u.offer] /\ Allowed(u.read.status, u.new)
  BY DEF HubInv, OpenTruthful, FreshCopies
<1>5. UNCHANGED storeVars \/ FreshPut(u.offer, WithStatus(u.read, u.new))
  BY <1>1, <1>3, <1>4 DEF update, FreshPut
<1>6. FreshCopies'
  <2>1. \A q \in Offers : q # u.offer => store'[q] = store[q]
    BY <1>1, <1>2, PutElsewhere
  <2>2. \A v \in open' : v.offer \in Offers /\ v.offer # u.offer
    BY <1>1 DEF WritersTakeTurns, HubInv, HubTypeOK, OpenUpdate
  <2>3. \A t \in sweep'.todo : t[1] \in Offers /\ t[1] # u.offer
    BY <1>1 DEF WritersTakeTurns, HubInv, HubTypeOK, Sweep
  <2>4. QED
    BY <1>1, <2>1, <2>2, <2>3, FreshKept
<1>7. QED
  BY <1>2, <1>3, <1>5, <1>6

LEMMA SweepFresh ==
  ASSUME HubInv, FreshCopies, WritersTakeTurns, _expire_offers_task
  PROVE  /\ FreshCopies'
         /\ UNCHANGED storeVars \/ \E o \in Offers, b \in Brief : FreshPut(o, b)
<1>1. CASE SweepWake \/ \E out \in ReadOutcomes : SweepListFailed(out)
  <2>1. UNCHANGED storeVars /\ UNCHANGED open
    BY <1>1 DEF SweepWake, SweepListFailed, handlerVars
  <2>2. sweep'.todo = {}
    <3>1. CASE SweepWake
      BY <3>1 DEF SweepWake, Asleep
    <3>2. ASSUME NEW out, SweepListFailed(out)
          PROVE  sweep'.todo = {}
      BY <3>2 DEF SweepListFailed, Asleep
    <3>3. QED
      BY <1>1, <3>1, <3>2
  <2>3. QED
    BY <2>1, <2>2 DEF FreshCopies, storeVars
<1>2. ASSUME NEW late \in SUBSET (Stored \ sweep.keys), SweepListed(late)
      PROVE  FreshCopies' /\ UNCHANGED storeVars
  <2>1. UNCHANGED <<store, seen, open>>
    BY <1>2 DEF SweepListed, storeVars, handlerVars
  <2>2. sweep'.todo \subseteq Due(sweep.keys \cup late)
    BY <1>2 DEF SweepListed, Asleep, HubInv, HubTypeOK, Sweep
  <2>3. \A t \in sweep'.todo : t[2] = store[t[1]]
    BY <2>2 DEF Due
  <2>4. QED
    BY <2>1, <2>3 DEF FreshCopies, storeVars
<1>3. ASSUME NEW t \in sweep.todo, NEW out \in WriteOutcomes, SweepExpire(t, out)
      PROVE  /\ FreshCopies'
             /\ UNCHANGED storeVars \/ \E o \in Offers, b \in Brief : FreshPut(o, b)
  <2>1. /\ UNCHANGED open /\ update(t[1], WithStatus(t[2], "expired"), out)
        /\ sweep'.todo \subseteq sweep.todo \ {t}
    BY <1>3 DEF SweepExpire, SweepRest, Asleep, handlerVars, HubInv, HubTypeOK, Sweep
  <2>2. t \in Offers \X Brief /\ sweep.todo \subseteq Offers \X Brief
    BY DEF HubInv, HubTypeOK, Sweep
  <2>3. /\ WithStatus(t[2], "expired") \in Brief
        /\ WithStatus(t[2], "expired").status = "expired"
        /\ WithStatus(t[2], "expired").trigger = t[2].trigger
    BY <2>2, BriefWithStatus DEF Status
  <2>4. t[1] \in Stored /\ t[2] = store[t[1]] /\ t[2].status = "active"
    BY DEF HubInv, SweepTruthful, FreshCopies
  <2>5. UNCHANGED storeVars \/ FreshPut(t[1], WithStatus(t[2], "expired"))
    BY <2>1, <2>3, <2>4, TransitionTable DEF update, FreshPut
  <2>6. FreshCopies'
    <3>1. \A q \in Offers : q # t[1] => store'[q] = store[q]
      BY <2>1, <2>2, PutElsewhere
    <3>2. \A u \in open' : u.offer \in Offers /\ u.offer # t[1]
      BY <2>1 DEF WritersTakeTurns, HubInv, HubTypeOK, OpenUpdate
    <3>3. ASSUME NEW r \in sweep'.todo
          PROVE  r[1] \in Offers /\ r[1] # t[1]
      <4>1. r \in sweep.todo /\ r # t /\ r \in Offers \X Brief
        BY <2>1, <2>2
      <4>2. r[2] = store[r[1]]
        BY <4>1 DEF FreshCopies
      <4>3. QED
        BY <2>2, <2>4, <4>1, <4>2
    <3>4. QED
      BY <2>1, <3>1, <3>2, <3>3, FreshKept
  <2>7. QED
    BY <2>2, <2>3, <2>5, <2>6
<1>4. QED
  BY <1>1, <1>2, <1>3 DEF _expire_offers_task, SweepWake, SweepListFailed

LEMMA TurnStep ==
  ASSUME HubInv, FreshCopies, WritersTakeTurns, [HubNext]_hubVars
  PROVE  /\ FreshCopies'
         /\ \/ UNCHANGED storeVars \/ HubRestart
            \/ \E o \in Offers, b \in Brief : FreshPut(o, b)
<1>1. ASSUME NEW p \in Requests,
             save_offer(p) \/ get_offer(p) \/ update_offer_status_start(p)
      PROVE  /\ FreshCopies'
             /\ UNCHANGED storeVars \/ \E o \in Offers, b \in Brief : FreshPut(o, b)
  BY <1>1, HandlerFresh
<1>2. CASE log_event \/ (\E o \in Offers : Lapse(o)) \/ UNCHANGED hubVars
  BY <1>2, FreshKept DEF log_event, AuditInsert, AuditRefused, Lapse, hubVars, storeVars,
                         handlerVars
<1>3. CASE HubRestart
  BY <1>3 DEF HubRestart, FreshCopies, Asleep
<1>4. QED
  BY <1>1, <1>2, <1>3, FinishFresh, SweepFresh DEF HubNext, HubStep

(* The promise of OfferLifecycle in its strong form.                       *)
Strong == INSTANCE OfferLifecycle
            WITH Concurrent <- FALSE,
                 status  <- [o \in Offers |-> StatusOf(o)],
                 trigger <- [o \in Offers |-> TriggerOf(o)]

LEMMA SameStrongModel ==
  /\ Strong!Status = Status
  /\ Strong!Brief = Brief
  /\ Strong!VALID_TRANSITIONS = VALID_TRANSITIONS
  /\ \A b : Strong!MaySave(b) <=> MaySave(b)
<1>1. Strong!Status = Status /\ Strong!Trigger = Trigger
  BY DEF Strong!Status, Status, Strong!Trigger, Trigger
<1>2. QED
  BY <1>1 DEF Strong!Brief, Brief, Strong!VALID_TRANSITIONS, VALID_TRANSITIONS,
              Strong!MaySave, MaySave

LEMMA FreshPutRefines ==
  ASSUME HubInv, NEW o \in Offers, NEW b \in Brief, FreshPut(o, b),
         \A q \in Stored' \ Stored : MaySave(store'[q])
  PROVE  Strong!Next
<1> USE PutShows DEF FreshPut
<1>1. seen' = [seen EXCEPT ![o] = @ \cup {b.status}]
  BY DEF Put
<1>2. CASE o \in Stored
  <2>1. [q \in Offers |-> TriggerOf(q)]' = [q \in Offers |-> TriggerOf(q)]
    BY <1>2
  <2>2. b.status \in VALID_TRANSITIONS[StatusOf(o)]
    BY <1>2 DEF Allowed
  <2>3. Strong!Move(o, b.status)
    BY <1>1, <1>2, <2>1, <2>2, SameStrongModel DEF Strong!Move, Strong!Base
  <2>4. QED
    BY <2>3, SameStrongModel DEF Strong!Next
<1>3. CASE o \notin Stored
  <2>1. store'[o] = b /\ o \in Stored'
    BY NoOfferAssumption DEF Put, Stored, HubInv, HubTypeOK, StoreTypeOK
  <2>2. MaySave(b)
    BY <1>3, <2>1
  <2>3. Strong!Born(o, b)
    BY <1>1, <1>3, <2>2, SameStrongModel DEF Strong!Born
  <2>4. QED
    BY <2>3, SameStrongModel DEF Strong!Next
<1>4. QED
  BY <1>2, <1>3

LEMMA RestartForgets ==
  ASSUME HubInv, HubRestart
  PROVE  [Strong!Next]_(Strong!vars)
<1>1. CASE RedisEnabled
  BY <1>1 DEF HubRestart, StoreRestart, Strong!vars, StatusOf, TriggerOf, Stored
<1>2. CASE ~RedisEnabled
  <2>1. UNCHANGED seen /\ Stored' = {}
    BY <1>2 DEF HubRestart, StoreRestart, Stored
  <2>2. Strong!Forget
    BY <2>1 DEF Strong!Forget, StatusOf, TriggerOf
  <2>3. QED
    BY <2>2 DEF Strong!Next
<1>3. QED
  BY <1>1, <1>2

LEMMA FreshInvariant == HubSpec /\ []WritersTakeTurns => []FreshCopies
<1>1. HubInit => FreshCopies
  BY DEF HubInit, FreshCopies, Asleep
<1>2. HubInv /\ FreshCopies /\ WritersTakeTurns /\ [HubNext]_hubVars => FreshCopies'
  BY TurnStep
<1>3. QED
  BY <1>1, <1>2, HubInvariant, PTL DEF HubSpec

(* As long as the writers of each offer take turns, the Hub keeps the      *)
(* strong promise with Redis too: each status follows the current one.     *)
THEOREM HubTurnsGiveStrongLifecycle == HubSpec /\ []WritersTakeTurns => Strong!Spec
<1>1. HubInit => Strong!Init
  BY DEF HubInit, StoreInit, Strong!Init, StatusOf, TriggerOf, Stored
<1>2. HubInv /\ FreshCopies /\ WritersTakeTurns /\ [HubNext]_hubVars
        => [Strong!Next]_(Strong!vars)
  <2> SUFFICES ASSUME HubInv, FreshCopies, WritersTakeTurns, [HubNext]_hubVars
               PROVE  [Strong!Next]_(Strong!vars)
    OBVIOUS
  <2>1. CASE UNCHANGED storeVars
    BY <2>1 DEF Strong!vars, storeVars, StatusOf, TriggerOf, Stored
  <2>2. QED
    BY <2>1, TurnStep, HubBirths, FreshPutRefines, RestartForgets
<1>3. HubSpec /\ []WritersTakeTurns => Strong!Init /\ [][Strong!Next]_(Strong!vars)
  BY <1>1, <1>2, HubInvariant, FreshInvariant, PTL DEF HubSpec
<1>4. QED
  BY <1>3 DEF Strong!Spec

LEMMA FreshKeepsExpired ==
  ASSUME HubInv, NEW o \in Offers, StatusOf(o) = "expired",
         UNCHANGED storeVars \/ \E q \in Offers, b \in Brief : FreshPut(q, b)
  PROVE  StatusOf(o)' = "expired"
<1>1. CASE UNCHANGED storeVars
  BY <1>1 DEF storeVars, StatusOf, Stored
<1>2. ASSUME NEW q \in Offers, NEW b \in Brief, FreshPut(q, b)
      PROVE  StatusOf(o)' = "expired"
  <2>1. o # q
    <3>1. CASE q \in Stored
      BY <1>2, <3>1, PutShows DEF FreshPut, Allowed, VALID_TRANSITIONS, Status
    <3>2. CASE q \notin Stored
      BY <3>2 DEF StatusOf
    <3>3. QED
      BY <3>1, <3>2
  <2>2. store'[o] = store[o]
    BY <1>2, <2>1 DEF FreshPut, Put, HubInv, HubTypeOK, StoreTypeOK
  <2>3. QED
    BY <2>2 DEF StatusOf, Stored
<1>3. QED
  BY <1>1, <1>2

LEMMA RestartKeepsExpired ==
  ASSUME RedisEnabled \/ ~MayRestart, HubRestart, NEW o \in Offers
  PROVE  StatusOf(o)' = StatusOf(o)
BY DEF HubRestart, StoreRestart, StatusOf, Stored

(* hub.py calls expired a terminal state.  It is one as long as the        *)
(* writers of each offer take turns and the store outlives the process.    *)
THEOREM HubTurnsMakeExpiredTerminal ==
  ASSUME RedisEnabled \/ ~MayRestart
  PROVE  HubSpec /\ []WritersTakeTurns => ExpiredIsTerminal
<1>1. HubInv /\ FreshCopies /\ WritersTakeTurns /\ [HubNext]_hubVars
        => [\A o \in Offers : StatusOf(o) = "expired" => StatusOf(o)' = "expired"]_hubVars
  BY TurnStep, FreshKeepsExpired, RestartKeepsExpired
<1>2. QED
  BY <1>1, HubInvariant, FreshInvariant, PTL DEF HubSpec, ExpiredIsTerminal

(* In memory writers cannot but take turns.                                *)
THEOREM HubMemoryExpiredIsTerminal ==
  ASSUME ~RedisEnabled, ~MayRestart
  PROVE  HubSpec => ExpiredIsTerminal
BY MemoryTakesTurns, HubInvariant, HubTurnsMakeExpiredTerminal, PTL

===============================================================================
