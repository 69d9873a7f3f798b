--------------------------------- MODULE Scout ---------------------------------
(***************************************************************************)
(* Scout's purchase-event route (api/scout.py) with the gates and the      *)
(* duplicate window of services/purchase_event_handler.py, the delivery    *)
(* constraints of services/delivery_constraint_service.py and the messages *)
(* of services/notification_service.py.                                    *)
(*                                                                         *)
(* The handler of one webhook call is suspended while it enriches, while   *)
(* it awaits the Designer, and while it awaits each push and the mail; the *)
(* constraints are read before the Designer is called and the delivery is  *)
(* recorded after it has answered.                                         *)
(*                                                                         *)
(* The Designer, the push and mail services and the rewards system that    *)
(* calls the webhook are external.  Whether a context scores high enough   *)
(* is a free choice.                                                       *)
(*                                                                         *)
(* Time is counted in ticks of some hours.  A handler lives for minutes at *)
(* most (its HTTP calls have limits of 30 and 5 seconds), so a tick may    *)
(* fall within its life, a second one may not; and the 60 seconds of the   *)
(* duplicate window may pass at any moment.                                *)
(***************************************************************************)
EXTENDS Naturals

CONSTANTS
  Members, Events, Calls,   \* member_id, event_id, one identifier per webhook call
  MemberOf,                 \* [Events -> Members]
  HighValue,                \* the events above HIGH_VALUE_PURCHASE_THRESHOLD
  Refunds,                  \* the events with is_refund
  Pilot,                    \* the members the flag and the allowlist let through
  DayLength, QuietStart, QuietEnd,
  RateLimit, DedupWindow, Retention,
  MayRestart,               \* whether the process may stop and start again
  Horizon                   \* bound on the clock, for TLC

ASSUME ScoutAssumption ==
  /\ MemberOf \in [Events -> Members]
  /\ HighValue \subseteq Events /\ Refunds \subseteq Events /\ Pilot \subseteq Members
  /\ {DayLength, QuietStart, QuietEnd, RateLimit, DedupWindow, Retention, Horizon} \subseteq Nat
  /\ DayLength > 0
  /\ RateLimit <= DedupWindow /\ DedupWindow <= Retention
  /\ MayRestart \in BOOLEAN

VARIABLES
  now,           \* datetime.utcnow()
  _seen_events,  \* the entries not older than 60 s, with their tick
  open,          \* the suspended handlers
  answered,      \* the calls that have their response
  _delivery_log, \* the timestamps kept per member
  queued,        \* _morning_queue: the event whose offer waits, per member
  delivered,     \* history: the deliveries recorded
  reached        \* history: the calls of which a message reached the member

logVars     == <<_delivery_log, queued, delivered>>
scoutVars   == <<now, _seen_events, open, answered, logVars, reached>>

Phase == {"enriching", "designing", "pushing", "mailing"}

(* A suspended handler: "checked" is when can_deliver said yes, "known"    *)
(* the deliveries to the member that the log could show it.                *)
Handler == [id : Calls, event : Events, at : Phase, since : Nat,
            checked : Nat, known : SUBSET Calls, attempt : 0..3]

Delivery == [id : Calls, event : Events, at : Nat,
             checked : Nat, known : SUBSET Calls, forgotten : BOOLEAN]

ScoutTypeOK ==
  /\ now \in Nat
  /\ _seen_events \subseteq [event : Events, at : Nat]
  /\ open \subseteq Handler
  /\ answered \subseteq Calls
  /\ _delivery_log \in [Members -> SUBSET Nat]
  /\ queued \in [Members -> SUBSET Events]
  /\ delivered \subseteq Delivery
  /\ reached \subseteq Calls

(* The process is started at some hour of the day.                         *)
ScoutInit ==
  /\ now \in 0 .. DayLength - 1
  /\ _seen_events = {}
  /\ open = {}
  /\ answered = {}
  /\ _delivery_log = [m \in Members |-> {}]
  /\ queued = [m \in Members |-> {}]
  /\ delivered = {}
  /\ reached = {}

-------------------------------------------------------------------------------
(* DeliveryConstraintService.                                              *)
(* Mutant: the delivery at the cutoff itself is no longer counted.         *)
_get_deliveries_since_Strict(m, window) == {t \in _delivery_log[m] : t + window > now}

_get_deliveries_since(m, window) == {t \in _delivery_log[m] : t + window >= now}

_is_quiet_hours ==
  LET hour == now % DayLength
  IN IF QuietStart > QuietEnd THEN hour >= QuietStart \/ hour < QuietEnd
                              ELSE QuietStart <= hour /\ hour < QuietEnd

RateLimited(m) == _get_deliveries_since(m, RateLimit) # {}

(* Mutant: the bypass of a high-value purchase lifts the wrong side.       *)
Duplicate_Swapped(e) ==
  /\ e \in HighValue
  /\ _get_deliveries_since(MemberOf[e], DedupWindow) # {}

Duplicate(e) ==
  /\ e \notin HighValue
  /\ _get_deliveries_since(MemberOf[e], DedupWindow) # {}

(* Mutant: only what the rate limit needs is kept.                         *)
Kept_RateLimitOnly(T) == {t \in T : t + RateLimit >= now}

Kept(T) == {t \in T : t + Retention >= now}

record_delivery(m) == _delivery_log' = [_delivery_log EXCEPT ![m] = Kept(@ \cup {now})]

queue_for_morning(m, e) == queued' = [queued EXCEPT ![m] = {e}]

-------------------------------------------------------------------------------
(* purchase_event_handler.                                                 *)
Unused(c) == /\ \A h \in open : h.id # c
             /\ c \notin answered
             /\ \A d \in delivered : d.id # c

_is_duplicate_event(e) == \E s \in _seen_events : s.event = e

Answer(c) == answered' = answered \cup {c}

(* The route refuses a refund; the handler skips a member it may not serve *)
(* and an event it has seen, and neither is remembered again.              *)
Turned(c, e) ==
  /\ Unused(c)
  /\ e \in Refunds \/ MemberOf[e] \notin Pilot \/ _is_duplicate_event(e)
  /\ Answer(c)
  /\ UNCHANGED <<now, _seen_events, open, logVars, reached>>

(* The event is remembered before anything is done about it.               *)
Taken(c, e) ==
  /\ Unused(c)
  /\ e \notin Refunds /\ MemberOf[e] \in Pilot /\ ~_is_duplicate_event(e)
  /\ _seen_events' = _seen_events \cup {[event |-> e, at |-> now]}
  /\ open' = open \cup
       {[id |-> c, event |-> e, at |-> "enriching", since |-> now,
         checked |-> 0, known |-> {}, attempt |-> 0]}
  /\ UNCHANGED <<now, answered, logVars, reached>>

-------------------------------------------------------------------------------
(* process_purchase_event, from the enriched context to its response.      *)
Member(h) == MemberOf[h.event]

Resume(h, g) == open' = (open \ {h}) \cup {g}

(* The response: scored_below_threshold, delivery_blocked and so on.       *)
Ends(h) == open' = open \ {h} /\ Answer(h.id)

BelowThreshold(h) ==
  /\ h.at = "enriching"
  /\ Ends(h)
  /\ UNCHANGED <<now, _seen_events, logVars, reached>>

DeliveryBlocked(h) ==
  /\ h.at = "enriching"
  /\ RateLimited(Member(h)) \/ Duplicate(h.event)
  /\ Ends(h)
  /\ UNCHANGED <<now, _seen_events, logVars, reached>>

QueuedForMorning(h) ==
  /\ h.at = "enriching"
  /\ ~RateLimited(Member(h)) /\ ~Duplicate(h.event)
  /\ _is_quiet_hours
  /\ queue_for_morning(Member(h), h.event)
  /\ Ends(h)
  /\ UNCHANGED <<now, _seen_events, _delivery_log, delivered, reached>>

(* What the log could have shown, had it kept everything since the start.  *)
Past(m) == {d.id : d \in {x \in delivered : MemberOf[x.event] = m /\ ~x.forgotten}}

CallsDesigner(h) ==
  /\ h.at = "enriching"
  /\ ~RateLimited(Member(h)) /\ ~Duplicate(h.event)
  /\ ~_is_quiet_hours
  /\ Resume(h, [h EXCEPT !.at = "designing", !.checked = now, !.known = Past(Member(h))])
  /\ UNCHANGED <<now, _seen_events, answered, logVars, reached>>

(* Any other status, no answer in time, or one that does not parse.        *)
DesignerFailed(h) ==
  /\ h.at = "designing"
  /\ Ends(h)
  /\ UNCHANGED <<now, _seen_events, logVars, reached>>

(* Mutant: the delivery is not recorded before the push.                   *)
DesignerAnswers_Unrecorded(h) ==
  /\ h.at = "designing"
  /\ Resume(h, [h EXCEPT !.at = "pushing", !.attempt = 1])
  /\ UNCHANGED <<now, _seen_events, answered, logVars, reached>>

(* 201: the delivery is recorded, then pushed.                             *)
DesignerAnswers(h) ==
  /\ h.at = "designing"
  /\ record_delivery(Member(h))
  /\ delivered' = delivered \cup
       {[id |-> h.id, event |-> h.event, at |-> now, checked |-> h.checked,
         known |-> h.known, forgotten |-> FALSE]}
  /\ Resume(h, [h EXCEPT !.at = "pushing", !.attempt = 1])
  /\ UNCHANGED <<now, _seen_events, answered, queued, reached>>

(* A message reaches the member or not, and the service may fail after it  *)
(* did, or its answer be lost.                                             *)
Reaches(h) == reached' = reached \cup {h.id}

(* send_push: an attempt that the service confirms ends the handler.       *)
Pushed(h) ==
  /\ h.at = "pushing"
  /\ Reaches(h)
  /\ Ends(h)
  /\ UNCHANGED <<now, _seen_events, logVars>>

(* Mutants: one attempt too many; the push is never given up.              *)
NextAttempt_Four(h) == IF h.attempt < 4 THEN [h EXCEPT !.attempt = @ + 1]
                                        ELSE [h EXCEPT !.at = "mailing"]

NextAttempt_Forever(h) == [h EXCEPT !.attempt = (@ % 3) + 1]

NextAttempt(h) == IF h.attempt < 3 THEN [h EXCEPT !.attempt = @ + 1]
                                   ELSE [h EXCEPT !.at = "mailing"]

PushFails(h) ==
  /\ h.at = "pushing"
  /\ Reaches(h) \/ UNCHANGED reached
  /\ Resume(h, NextAttempt(h))
  /\ UNCHANGED <<now, _seen_events, answered, logVars>>

(* send_email_fallback: whatever comes of it, the route says delivered.    *)
Mailed(h) ==
  /\ h.at = "mailing"
  /\ Reaches(h) \/ UNCHANGED reached
  /\ Ends(h)
  /\ UNCHANGED <<now, _seen_events, logVars>>

HandlerStep(h) ==
  \/ BelowThreshold(h)
  \/ DeliveryBlocked(h)
  \/ QueuedForMorning(h)
  \/ CallsDesigner(h)
  \/ DesignerFailed(h)
  \/ DesignerAnswers(h)
  \/ Pushed(h)
  \/ PushFails(h)
  \/ Mailed(h)

-------------------------------------------------------------------------------
(* 60 seconds have passed since an event was remembered.                   *)
WindowPasses(s) ==
  /\ _seen_events' = _seen_events \ {s}
  /\ UNCHANGED <<now, open, answered, logVars, reached>>

(* Some hours pass: no handler has waited since before the last tick, and  *)
(* no event remembered before it is remembered any longer.                 *)
Tick ==
  /\ now < Horizon
  /\ \A h \in open : h.since = now
  /\ now' = now + 1
  /\ _seen_events' = {s \in _seen_events : s.at = now}
  /\ UNCHANGED <<open, answered, logVars, reached>>

(* The module's dict and the singletons of deps.py go with the process.    *)
ScoutRestart ==
  /\ MayRestart
  /\ _seen_events' = {}
  /\ open' = {}
  /\ _delivery_log' = [m \in Members |-> {}]
  /\ queued' = [m \in Members |-> {}]
  /\ delivered' = {[d EXCEPT !.forgotten = TRUE] : d \in delivered}
  /\ UNCHANGED <<now, answered, reached>>

ScoutNext ==
  \/ \E c \in Calls, e \in Events : Turned(c, e) \/ Taken(c, e)
  \/ \E h \in open : HandlerStep(h)
  \/ \E s \in _seen_events : WindowPasses(s)
  \/ Tick
  \/ ScoutRestart

ScoutSpec == ScoutInit /\ [][ScoutNext]_scoutVars

(* Every await of a handler has a time limit, so each handler goes on.     *)
ScoutFairSpec ==
  /\ ScoutSpec
  /\ \A c \in Calls : WF_scoutVars(\E h \in open : h.id = c /\ HandlerStep(h))

-------------------------------------------------------------------------------
(* Windows are kept between handlers that do not overlap: once a delivery  *)
(* is recorded, no handler that reads the log afterwards decides to        *)
(* deliver within the rate limit, nor within the longer window unless the  *)
(* purchase is of high value, although the log is pruned all the while.    *)
DecisionsRespectLog ==
  \A d, x \in delivered : x.id \in d.known =>
    /\ d.checked > x.at + RateLimit
    /\ d.event \notin HighValue => d.checked > x.at + DedupWindow

(* Limits break in bursts only: two deliveries to a member that the        *)
(* process remembers are apart by the windows, or their handlers           *)
(* overlapped, the later one having decided before the earlier was         *)
(* recorded, and then they lie within one tick.  So however many webhook   *)
(* calls arrive, a member is never served too early twice by calls that    *)
(* did not overlap: can_deliver and record_delivery, with the pruning.     *)
LimitsBreakInBurstsOnly ==
  \A d, x \in delivered :
    /\ d.id # x.id /\ MemberOf[d.event] = MemberOf[x.event]
    /\ ~d.forgotten /\ ~x.forgotten
    /\ x.at <= d.at
    => \/ d.at > x.at + RateLimit /\ (d.event \in HighValue \/ d.at > x.at + DedupWindow)
       \/ d.checked <= x.at /\ d.at <= x.at + 1

(* Every message that reached a member is of a delivery recorded before,   *)
(* and while that delivery is recent the log still shows it, so that a     *)
(* push under way, retried or lost, already counts against his limits.     *)
MessagesAreCounted ==
  \A c \in reached :
    \E d \in delivered :
      /\ d.id = c
      /\ ~d.forgotten /\ d.at + DedupWindow >= now
           => d.at \in _delivery_log[MemberOf[d.event]]

(* A webhook call that was taken is answered, unless the process stops,    *)
(* whatever the Designer and the message services do.                      *)
TakenIsAnswered ==
  \A c \in Calls : (\E h \in open : h.id = c) ~> ~(\E h \in open : h.id = c)

(* The half of it that needs no fairness: every step of a handler leaves   *)
(* it fewer steps, and a call that has its response has no handler again.  *)
(* So a webhook call is worth three pushes and one mail at most, however   *)
(* send_push fails and whatever restarts.                                  *)
StepsLeft(h) == CASE h.at = "enriching" -> 5
                  [] h.at = "designing" -> 4
                  [] h.at = "pushing"   -> 4 - h.attempt
                  [] h.at = "mailing"   -> 0

HandlersAdvance ==
  [][/\ \A h \in open, g \in open' : g.id = h.id /\ g # h => StepsLeft(g) < StepsLeft(h)
     /\ \A g \in open' : g.id \notin answered]_scoutVars

(* The promise of DeliveryPromise.  The handlers read a log that is        *)
(* pruned, forgets across restarts and stores bare timestamps, yet each    *)
(* decision is one the whole history allows: can_deliver, record_delivery  *)
(* and the order in which the route calls them.                            *)
Decision(h) == [id |-> h.id, event |-> h.event, checked |-> h.checked]

Shown(d) == [id |-> d.id, event |-> d.event, checked |-> d.checked,
             at |-> d.at, forgotten |-> d.forgotten]

Promise == INSTANCE DeliveryPromise
             WITH pending   <- {Decision(h) : h \in {g \in open : g.at = "designing"}},
                  delivered <- {Shown(d) : d \in delivered}

ImplementsPromise == Promise!Spec

(* What the code does not keep.  can_deliver: "Rate limit: max 1           *)
(* purchase-triggered offer per member per 6h".                            *)
OneOfferPerWindow ==
  \A d, x \in delivered :
    d.id # x.id /\ MemberOf[d.event] = MemberOf[x.event] /\ x.at <= d.at
      => d.at > x.at + RateLimit

===============================================================================
