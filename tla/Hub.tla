--------------------------------- MODULE Hub ----------------------------------
(***************************************************************************)
(* The Hub of one TriStar process: the handlers of api/hub.py, the audit   *)
(* tasks they fire (services/hub_audit_service.py) and the expiry sweep of *)
(* main.py, all coroutines of one event loop over the store of HubStore.   *)
(*                                                                         *)
(* A coroutine runs until it awaits Redis.  update_offer_status awaits it  *)
(* twice, so it is two actions with a suspended handler between them; the  *)
(* sweep awaits it once to list and once per offer.  With the in-memory    *)
(* store an await never suspends: see LoopFree.                            *)
(*                                                                         *)
(* The role checks (require_system_role) change no state and are not       *)
(* modelled here, nor is GET /offers, which changes none.                  *)
(***************************************************************************)
EXTENDS HubStore

CONSTANTS Requests,      \* one identifier per HTTP request
          MayRestart,    \* whether the process may stop and start again
          AuditMayFail   \* whether SQLite may refuse an audit row

ASSUME SwitchAssumption == MayRestart \in BOOLEAN /\ AuditMayFail \in BOOLEAN

VARIABLES
  open,        \* update_offer_status handlers suspended before their write
  answers,     \* the responses sent so far
  auditTasks,  \* _audit_tasks: rows scheduled and not yet inserted
  auditLog,    \* the hub_audit_log table
  sweep,       \* the locals of _expire_offers_task
  lapsed       \* the offers whose valid_until lies in the past by now

handlerVars == <<open, answers>>
auditVars   == <<auditTasks, auditLog>>
hubVars     == <<store, seen, open, answers, auditTasks, auditLog, sweep, lapsed>>

-------------------------------------------------------------------------------
NullOr(S) == S \cup {"null"}

(* A HubAuditEvent; "by" stands for the actor and tells requests apart.    *)
Row == [by : Requests, offer : Offers,
        event : {"offer_created", "status_transition", "offer_read"},
        old : NullOr(Status), new : NullOr(Status)]

(* A suspended update_offer_status: its parameters and the offer it read.  *)
OpenUpdate == [by : Requests, offer : Offers, read : Brief, new : Status]

Answer == [to : Requests, offer : Offers, code : {200, 201, 404, 409, 422, 503}]

Sweep == [at : {"asleep", "listing", "expiring"},
          now  : SUBSET Offers,           \* the offers past their date at "now"
          keys : SUBSET Offers,           \* found when SCAN began
          todo : SUBSET (Offers \X Brief)]  \* snapshots still to be expired

Asleep == [at |-> "asleep", now |-> {}, keys |-> {}, todo |-> {}]

HubTypeOK ==
  /\ StoreTypeOK
  /\ open \subseteq OpenUpdate
  /\ answers \subseteq Answer
  /\ auditTasks \subseteq Row
  /\ auditLog \subseteq Row
  /\ sweep \in Sweep
  /\ lapsed \subseteq Offers

HubInit ==
  /\ StoreInit
  /\ open = {}
  /\ answers = {}
  /\ auditTasks = {}
  /\ auditLog = {}
  /\ sweep = Asleep
  /\ lapsed = {}

-------------------------------------------------------------------------------
(* Request p has not been handled; after a crash its client may retry.     *)
Idle(p) == /\ \A a \in answers : a.to # p
           /\ \A u \in open : u.by # p

(* Whether the event loop can start another coroutine: always when the     *)
(* others are suspended in Redis; in memory only when none is under way.   *)
(* Mutant: the in-memory coroutines do suspend.                            *)
LoopFree_Suspends == TRUE

LoopFree == RedisEnabled \/ (open = {} /\ sweep.at = "asleep")

Reply(p, o, c) == answers' = answers \cup {[to |-> p, offer |-> o, code |-> c]}

(* Mutant: the new status is recorded under the event type.                *)
_fire_audit_Swapped(p, o, e, old, new) ==
  auditTasks' = auditTasks \cup
    {[by |-> p, offer |-> o, event |-> new, old |-> old, new |-> e]}

_fire_audit(p, o, e, old, new) ==
  auditTasks' = auditTasks \cup
    {[by |-> p, offer |-> o, event |-> e, old |-> old, new |-> new]}

(* POST /offers: save_offer.                                               *)
PostRefused(p, o, b) ==
  /\ Idle(p) /\ LoopFree
  /\ ~MaySave(b)
  /\ Reply(p, o, 422)
  /\ UNCHANGED <<store, seen, open, auditVars, sweep, lapsed>>

PostSaved(p, o, b) ==
  /\ Idle(p) /\ LoopFree
  /\ MaySave(b)
  /\ o \notin Stored
  /\ save(o, b, "ok")
  /\ Reply(p, o, 201)
  /\ _fire_audit(p, o, "offer_created", "null", b.status)
  /\ UNCHANGED <<open, auditLog, sweep, lapsed>>

(* Mutant: SET without NX, so the second creation overwrites the first.    *)
PostConflict_NoNX(p, o, b) ==
  /\ Idle(p) /\ LoopFree
  /\ MaySave(b)
  /\ o \in Stored
  /\ Put(o, b)
  /\ Reply(p, o, 201)
  /\ _fire_audit(p, o, "offer_created", "null", b.status)
  /\ UNCHANGED <<open, auditLog, sweep, lapsed>>

PostConflict(p, o, b) ==
  /\ Idle(p) /\ LoopFree
  /\ MaySave(b)
  /\ o \in Stored
  /\ save(o, b, "ok")
  /\ Reply(p, o, 409)
  /\ UNCHANGED <<open, auditVars, sweep, lapsed>>

PostUnavailable(p, o, b, out) ==
  /\ Idle(p) /\ LoopFree
  /\ MaySave(b)
  /\ out # "ok"
  /\ save(o, b, out)
  /\ Reply(p, o, 503)
  /\ UNCHANGED <<open, auditVars, sweep, lapsed>>

save_offer(p) == \E o \in Offers, b \in Brief :
  \/ PostRefused(p, o, b)
  \/ PostSaved(p, o, b)
  \/ PostConflict(p, o, b)
  \/ \E out \in WriteOutcomes : PostUnavailable(p, o, b, out)

(* GET /offers/{offer_id}: get_offer.                                      *)
GetFound(p, o) ==
  /\ Idle(p) /\ LoopFree
  /\ o \in Stored
  /\ Reply(p, o, 200)
  /\ _fire_audit(p, o, "offer_read", "null", "null")
  /\ UNCHANGED <<store, seen, open, auditLog, sweep, lapsed>>

(* A first read that ends the handler: store unavailable, or no such offer.*)
ReadFailed(p, o, out) ==
  /\ Idle(p) /\ LoopFree
  /\ \/ out = "down" /\ Reply(p, o, 503)
     \/ out = "ok" /\ o \notin Stored /\ Reply(p, o, 404)
  /\ UNCHANGED <<store, seen, open, auditVars, sweep, lapsed>>

get_offer(p) == \E o \in Offers :
  \/ GetFound(p, o)
  \/ \E out \in ReadOutcomes : ReadFailed(p, o, out)

(* PUT /offers/{offer_id}/status: update_offer_status up to its write.     *)
(* Mutants: any status may be expired; an expired offer may be revived.    *)
Allowed_ExpireAny(old, new) == new = "expired" \/ new \in VALID_TRANSITIONS[old]

Allowed_Revive(old, new) ==
  \/ new \in VALID_TRANSITIONS[old]
  \/ old = "expired" /\ new = "active"

Allowed(old, new) == new \in VALID_TRANSITIONS[old]

PutRefused(p, o, n) ==
  /\ Idle(p) /\ LoopFree
  /\ o \in Stored
  /\ ~Allowed(store[o].status, n)
  /\ Reply(p, o, 422)
  /\ UNCHANGED <<store, seen, open, auditVars, sweep, lapsed>>

PutRead(p, o, n) ==
  /\ Idle(p) /\ LoopFree
  /\ o \in Stored
  /\ Allowed(store[o].status, n)
  /\ open' = open \cup {[by |-> p, offer |-> o, read |-> store[o], new |-> n]}
  /\ UNCHANGED <<store, seen, answers, auditVars, sweep, lapsed>>

(* The write of the copy made from what was read, and what follows it.     *)
(* Mutant: old and new status change places in the audit row.              *)
PutDone_SwappedRow(u) ==
  /\ open' = open \ {u}
  /\ update(u.offer, WithStatus(u.read, u.new), "ok")
  /\ Reply(u.by, u.offer, 200)
  /\ _fire_audit(u.by, u.offer, "status_transition", u.new, u.read.status)
  /\ UNCHANGED <<auditLog, sweep, lapsed>>

PutDone(u) ==
  /\ open' = open \ {u}
  /\ update(u.offer, WithStatus(u.read, u.new), "ok")
  /\ Reply(u.by, u.offer, 200)
  /\ _fire_audit(u.by, u.offer, "status_transition", u.read.status, u.new)
  /\ UNCHANGED <<auditLog, sweep, lapsed>>

(* Mutant: the row is fired before the outcome of the write is known.      *)
PutUnavailable_Audited(u, out) ==
  /\ out # "ok"
  /\ open' = open \ {u}
  /\ update(u.offer, WithStatus(u.read, u.new), out)
  /\ Reply(u.by, u.offer, 503)
  /\ _fire_audit(u.by, u.offer, "status_transition", u.read.status, u.new)
  /\ UNCHANGED <<auditLog, sweep, lapsed>>

PutUnavailable(u, out) ==
  /\ out # "ok"
  /\ open' = open \ {u}
  /\ update(u.offer, WithStatus(u.read, u.new), out)
  /\ Reply(u.by, u.offer, 503)
  /\ UNCHANGED <<auditVars, sweep, lapsed>>

update_offer_status_start(p) == \E o \in Offers :
  \/ \E n \in Status : PutRefused(p, o, n) \/ PutRead(p, o, n)
  \/ \E out \in ReadOutcomes : ReadFailed(p, o, out)

update_offer_status_finish == \E u \in open :
  \/ PutDone(u)
  \/ \E out \in WriteOutcomes : PutUnavailable(u, out)

-------------------------------------------------------------------------------
(* log_event runs in its own task: rows are inserted in any order, and a   *)
(* row that SQLite refuses is dropped with a warning.                      *)
AuditInsert(r) ==
  /\ auditTasks' = auditTasks \ {r}
  /\ auditLog' = auditLog \cup {r}
  /\ UNCHANGED <<storeVars, handlerVars, sweep, lapsed>>

(* Mutant: the task is not kept in _audit_tasks and may be collected.      *)
AuditRefused_Collected(r) ==
  /\ auditTasks' = auditTasks \ {r}
  /\ UNCHANGED <<storeVars, handlerVars, auditLog, sweep, lapsed>>

AuditRefused(r) ==
  /\ AuditMayFail
  /\ auditTasks' = auditTasks \ {r}
  /\ UNCHANGED <<storeVars, handlerVars, auditLog, sweep, lapsed>>

log_event == \E r \in auditTasks : AuditInsert(r) \/ AuditRefused(r)

-------------------------------------------------------------------------------
(* _expire_offers_task: the sleep ends, "now" is read, SCAN begins.        *)
SweepWake ==
  /\ sweep.at = "asleep"
  /\ LoopFree
  /\ sweep' = [Asleep EXCEPT !.at = "listing", !.now = lapsed, !.keys = Stored]
  /\ UNCHANGED <<storeVars, handlerVars, auditVars, lapsed>>

(* Mutant: every dated active offer is due.                                *)
Due_AnyDate(K) == {<<o, store[o]>> : o \in {k \in K : /\ k \in Stored
                                                      /\ store[k].status = "active"
                                                      /\ store[k].dated}}

(* An expired copy of the snapshot is due for these.                       *)
Due(K) == {<<o, store[o]>> : o \in {k \in K : /\ k \in Stored
                                              /\ store[k].status = "active"
                                              /\ store[k].dated
                                              /\ k \in sweep.now}}

(* MGET answers with the values of this instant for the keys SCAN found:   *)
(* all those present when it began, and any of those added since.          *)
SweepListed(late) ==
  /\ sweep.at = "listing"
  /\ LET due == Due(sweep.keys \cup late)
     IN sweep' = IF due = {} THEN Asleep
                 ELSE [sweep EXCEPT !.at = "expiring", !.todo = due]
  /\ UNCHANGED <<storeVars, handlerVars, auditVars, lapsed>>

(* store.list raised: this pass is given up.                               *)
(* Mutant: the exception of store.list leaves the loop, and the task ends. *)
SweepListFailed_Ends(out) ==
  /\ sweep.at = "listing"
  /\ out = "down"
  /\ sweep' = [Asleep EXCEPT !.at = "ended"]
  /\ UNCHANGED <<storeVars, handlerVars, auditVars, lapsed>>

SweepListFailed(out) ==
  /\ sweep.at = "listing"
  /\ out = "down"
  /\ sweep' = Asleep
  /\ UNCHANGED <<storeVars, handlerVars, auditVars, lapsed>>

SweepRest(t) == IF sweep.todo = {t} THEN Asleep
                ELSE [sweep EXCEPT !.todo = @ \ {t}]

(* One update, in whatever order the keys came; a failure skips the offer. *)
SweepExpire(t, out) ==
  /\ sweep.at = "expiring"
  /\ t \in sweep.todo
  /\ update(t[1], WithStatus(t[2], "expired"), out)
  /\ sweep' = SweepRest(t)
  /\ UNCHANGED <<handlerVars, auditVars, lapsed>>

_expire_offers_task ==
  \/ SweepWake
  \/ \E late \in SUBSET (Stored \ sweep.keys) : SweepListed(late)
  \/ \E out \in ReadOutcomes : SweepListFailed(out)
  \/ \E t \in sweep.todo, out \in WriteOutcomes : SweepExpire(t, out)

-------------------------------------------------------------------------------
(* The clock passes the valid_until of o.                                  *)
Lapse(o) ==
  /\ o \notin lapsed
  /\ lapsed' = lapsed \cup {o}
  /\ UNCHANGED <<storeVars, handlerVars, auditVars, sweep>>

(* The process stops (crash, or lifespan cancelling its tasks without      *)
(* awaiting the audit ones) and starts again.                              *)
HubRestart ==
  /\ MayRestart
  /\ StoreRestart
  /\ open' = {}
  /\ auditTasks' = {}
  /\ sweep' = Asleep
  /\ UNCHANGED <<answers, auditLog, lapsed>>

HubStep ==
  \/ \E p \in Requests :
        save_offer(p) \/ get_offer(p) \/ update_offer_status_start(p)
  \/ update_offer_status_finish
  \/ log_event
  \/ _expire_offers_task
  \/ \E o \in Offers : Lapse(o)

HubNext == HubStep \/ HubRestart

HubSpec == HubInit /\ [][HubNext]_hubVars

(* The event loop resumes every coroutine whose await is over, and the     *)
(* sweep is one of them, for ever.  Of Redis it is only assumed that it    *)
(* does not fail every listing, nor every write of the same offer.         *)
HubFairness ==
  /\ WF_hubVars(update_offer_status_finish)
  /\ SF_hubVars(SweepWake)
  /\ WF_hubVars(_expire_offers_task)
  /\ SF_hubVars(\E late \in SUBSET (Stored \ sweep.keys) : SweepListed(late))
  /\ \A o \in Offers :
       SF_hubVars(\E t \in sweep.todo : t[1] = o /\ SweepExpire(t, "ok"))

HubFairSpec == HubSpec /\ HubFairness

-------------------------------------------------------------------------------
(* The promise of OfferLifecycle, the strong one for the in-memory store   *)
(* and the weak one for Redis, is kept by every write of the handlers and  *)
(* of the sweep.                                                           *)
StatusOf(o)  == IF o \in Stored THEN store[o].status ELSE "absent"
TriggerOf(o) == IF o \in Stored THEN store[o].trigger ELSE "absent"

Lifecycle == INSTANCE OfferLifecycle
               WITH Concurrent <- RedisEnabled,
                    status  <- [o \in Offers |-> StatusOf(o)],
                    trigger <- [o \in Offers |-> TriggerOf(o)]

ImplementsLifecycle == Lifecycle!Spec

(* F-003 across the races of status updates: a marketer's offer in Redis   *)
(* that is or was active was approved before, although the handler that    *)
(* activates it acts on a status it read some time ago.                    *)
ActiveWasApproved ==
  RedisEnabled =>
    \A o \in Stored :
      store[o].trigger = "marketer_initiated" /\ "active" \in seen[o]
        => "approved" \in seen[o]

(* An offer that was never draft or approved (a purchase-triggered one)    *)
(* expires once and for good, whatever stale updates and the sweep write.  *)
ShortLivedExpiresOnce ==
  [][RedisEnabled =>
       \A o \in Offers :
         seen[o] \subseteq {"active", "expired"} /\ StatusOf(o) = "expired"
           => StatusOf(o)' = "expired"]_storeVars

(* The audit log does not invent: a row of a creation or a transition,     *)
(* inserted or still waiting, tells of a write the store has really taken, *)
(* and the transition it tells of is a valid one, although a concurrent    *)
(* handler may have changed the offer between the read and the write.      *)
AuditTruthful ==
  \A r \in auditTasks \cup auditLog :
    /\ r.event = "offer_created" => r.new \in seen[r.offer]
    /\ r.event = "status_transition" =>
         /\ {r.old, r.new} \subseteq seen[r.offer]
         /\ Allowed(r.old, r.new)

(* While the process lives and SQLite accepts rows, every request answered *)
(* with success has its row, in the table or in a task that is retained.   *)
AcknowledgedIsAudited ==
  ~MayRestart /\ ~AuditMayFail =>
    \A a \in answers : a.code \in {200, 201} =>
      \E r \in auditTasks \cup auditLog : r.by = a.to /\ r.offer = a.offer

(* What the log leaves out, for the store is written past it: of every     *)
(* status an offer has held there is a row that tells of it, or else the   *)
(* sweep expired the offer after its date, or the write was answered 503   *)
(* and took effect all the same.                                           *)
RowTells(o, s) ==
  \E r \in auditTasks \cup auditLog :
    r.offer = o /\ r.new = s /\ r.event \in {"offer_created", "status_transition"}

Denied(o) == \E a \in answers : a.offer = o /\ a.code = 503

StatusesAreTraced ==
  ~MayRestart /\ ~AuditMayFail =>
    \A o \in Offers : \A s \in seen[o] :
      RowTells(o, s) \/ Denied(o) \/ (s = "expired" /\ o \in lapsed)

(* Two POST /offers with the same offer_id, however they interleave: one   *)
(* at most is told 201, the others 409 or 503 (as long as the offers of    *)
(* the store outlive the process).                                         *)
OneCreator ==
  RedisEnabled \/ ~MayRestart =>
    \A a, b \in answers :
      a.code = 201 /\ b.code = 201 /\ a.offer = b.offer => a = b

(* The sweep works from a snapshot and from the time it woke at, yet it    *)
(* never expires an offer whose valid_until has not passed.                *)
SweepExpiresLapsedOnly ==
  [][handlerVars' = handlerVars =>
       \A o \in Offers :
         StatusOf(o) # "expired" /\ StatusOf(o)' = "expired" => o \in lapsed]_hubVars

(* An active offer whose valid_until has passed does not stay active, in   *)
(* spite of failed listings, failed writes and restarts.                   *)
LapsedLeavesActive ==
  \A o \in Offers :
    (o \in Stored /\ o \in lapsed /\ store[o].status = "active" /\ store[o].dated)
      ~> (StatusOf(o) # "active")

(* What the code does not keep.  The table of hub.py calls expired a       *)
(* terminal state.                                                         *)
ExpiredIsTerminal ==
  [][\A o \in Offers : StatusOf(o) = "expired" => StatusOf(o)' = "expired"]_hubVars

===============================================================================
