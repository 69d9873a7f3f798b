------------------------------ MODULE ScoutProofs ------------------------------
(***************************************************************************)
(* Theorems about Scout, for any members, events, calls, windows and       *)
(* hours, with or without restarts; of the bound of the clock nothing is   *)
(* assumed but that it is a number.                                        *)
(***************************************************************************)
EXTENDS Scout, TLAPS

(* Identifiers tell handlers and deliveries apart.                         *)
Distinct ==
  /\ \A h, g \in open : h.id = g.id => h = g
  /\ \A d, x \in delivered : d.id = x.id => d = x
  /\ \A h \in open, d \in delivered :
       h.at \in {"enriching", "designing"} => h.id # d.id

(* A delivery stays in the log for as long as any window may ask for it.   *)
LogShows ==
  \A d \in delivered :
    ~d.forgotten /\ d.at + Retention >= now => d.at \in _delivery_log[MemberOf[d.event]]

(* Decision d was taken late enough after delivery x.                      *)
Respects(d, x) ==
  /\ d.checked > x.at + RateLimit
  /\ d.event \notin HighValue => d.checked > x.at + DedupWindow

(* The decision of a handler that awaits the Designer respects the log it  *)
(* saw, and it saw only deliveries already recorded.                       *)
Decided(d) ==
  /\ \A c \in d.known : \E x \in delivered : x.id = c
  /\ \A x \in delivered : x.id \in d.known => Respects(d, x)

DecidedWell == (\A h \in open : Decided(h)) /\ (\A d \in delivered : Decided(d))

(* A message is sent for a recorded delivery only.                         *)
SentRecorded ==
  /\ \A h \in open : h.at \in {"pushing", "mailing"} =>
       \E d \in delivered : d.id = h.id
  /\ \A c \in reached : \E d \in delivered : d.id = c

ScoutInv ==
  /\ ScoutTypeOK
  /\ Distinct
  /\ LogShows
  /\ DecidedWell
  /\ SentRecorded

-------------------------------------------------------------------------------
LEMMA InitInv == ScoutInit => ScoutInv
BY ScoutAssumption
   DEF ScoutInit, ScoutInv, ScoutTypeOK, Distinct, LogShows, DecidedWell, SentRecorded

(* A handler moves on, or ends, and no delivery is recorded.               *)
LEMMA TurnedInv ==
  ASSUME ScoutInv, NEW c \in Calls, NEW e \in Events, Turned(c, e)
  PROVE  ScoutInv'
BY DEF ScoutInv, ScoutTypeOK, Distinct, LogShows, DecidedWell, Decided, Respects,
       SentRecorded, Turned, Answer, logVars

LEMMA TakenInv ==
  ASSUME ScoutInv, NEW c \in Calls, NEW e \in Events, Taken(c, e)
  PROVE  ScoutInv'
<1> DEFINE n == [id |-> c, event |-> e, at |-> "enriching", since |-> now,
                 checked |-> 0, known |-> {}, attempt |-> 0]
<1>1. n \in Handler /\ open' = open \cup {n}
  BY DEF Taken, Handler, Phase, ScoutInv, ScoutTypeOK
<1>2. n.id = c /\ n.at = "enriching" /\ n.known = {}
  OBVIOUS
<1> HIDE DEF n
<1>3. ScoutTypeOK'
  BY <1>1 DEF Taken, ScoutInv, ScoutTypeOK, logVars
<1>4. Distinct'
  BY <1>1, <1>2 DEF Taken, Unused, ScoutInv, Distinct, logVars
<1>5. LogShows' /\ DecidedWell' /\ SentRecorded'
  BY <1>1, <1>2 DEF Taken, ScoutInv, LogShows, DecidedWell, Decided, Respects,
                    SentRecorded, logVars
<1>6. QED
  BY <1>3, <1>4, <1>5 DEF ScoutInv

(* A handler ends without a word to the member.                            *)
LEMMA EndsInv ==
  ASSUME ScoutInv, NEW h \in open, Ends(h), reached' \in {reached, reached \cup {h.id}},
         reached' # reached => \E d \in delivered : d.id = h.id,
         UNCHANGED <<now, _seen_events, _delivery_log, delivered>>,
         queued' \in [Members -> SUBSET Events]
  PROVE  ScoutInv'
<1>1. h.id \in Calls
  BY DEF ScoutInv, ScoutTypeOK, Handler
<1>2. ScoutTypeOK'
  BY <1>1 DEF ScoutInv, ScoutTypeOK, Ends, Answer
<1>3. Distinct' /\ LogShows' /\ DecidedWell'
  BY DEF ScoutInv, Distinct, LogShows, DecidedWell, Decided, Respects, Ends
<1>4. SentRecorded'
  BY DEF ScoutInv, SentRecorded, Ends
<1>5. QED
  BY <1>2, <1>3, <1>4 DEF ScoutInv

(* A handler goes on as g, which decided as h did, and nothing is recorded.*)
LEMMA ResumeInv ==
  ASSUME ScoutInv, NEW h \in open, NEW g \in Handler, Resume(h, g),
         g.id = h.id,
         g.at \in {"enriching", "designing"} => h.at \in {"enriching", "designing"},
         g.at \in {"pushing", "mailing"} => \E d \in delivered : d.id = h.id,
         Decided(g),
         reached' \in {reached, reached \cup {h.id}},
         reached' # reached => \E d \in delivered : d.id = h.id,
         UNCHANGED <<now, _seen_events, answered, logVars>>
  PROVE  ScoutInv'
<1>1. h.id \in Calls
  BY DEF ScoutInv, ScoutTypeOK, Handler
<1>2. ScoutTypeOK'
  BY <1>1 DEF ScoutInv, ScoutTypeOK, Resume, logVars
<1>3. Distinct'
  BY DEF ScoutInv, Distinct, Resume, logVars
<1>4. LogShows' /\ DecidedWell'
  BY DEF ScoutInv, LogShows, DecidedWell, Decided, Respects, Resume, logVars
<1>5. SentRecorded'
  BY DEF ScoutInv, SentRecorded, Resume, logVars
<1>6. QED
  BY <1>2, <1>3, <1>4, <1>5 DEF ScoutInv

(* The heart of the matter: if can_deliver says yes, every delivery to the *)
(* member that the process remembers lies outside of the windows.          *)
LEMMA CanDeliver ==
  ASSUME ScoutInv, NEW e \in Events, ~RateLimited(MemberOf[e]), ~Duplicate(e),
         NEW x \in delivered, ~x.forgotten, MemberOf[x.event] = MemberOf[e]
  PROVE  /\ now > x.at + RateLimit
         /\ e \notin HighValue => now > x.at + DedupWindow
<1>1. x.at \in Nat /\ now \in Nat
  BY DEF ScoutInv, ScoutTypeOK, Delivery
<1>2. /\ RateLimit \in Nat /\ DedupWindow \in Nat /\ Retention \in Nat
      /\ RateLimit <= DedupWindow /\ DedupWindow <= Retention
  BY ScoutAssumption
<1>3. ASSUME x.at + Retention >= now
      PROVE  x.at \in _delivery_log[MemberOf[e]]
  BY <1>3 DEF ScoutInv, LogShows
<1>4. now > x.at + RateLimit
  BY <1>1, <1>2, <1>3 DEF RateLimited, _get_deliveries_since
<1>5. e \notin HighValue => now > x.at + DedupWindow
  BY <1>1, <1>2, <1>3 DEF Duplicate, _get_deliveries_since
<1>6. QED
  BY <1>4, <1>5

LEMMA CallsDesignerInv ==
  ASSUME ScoutInv, NEW h \in open, CallsDesigner(h)
  PROVE  ScoutInv'
<1> DEFINE g == [h EXCEPT !.at = "designing", !.checked = now, !.known = Past(Member(h))]
<1>1. h \in Handler /\ h.event \in Events /\ now \in Nat
  BY DEF ScoutInv, ScoutTypeOK, Handler
<1>2. Past(Member(h)) \subseteq Calls
  BY DEF Past, ScoutInv, ScoutTypeOK, Delivery
<1>3. g \in Handler
  BY <1>1, <1>2 DEF Handler, Phase
<1>4. /\ g.id = h.id /\ g.at = "designing" /\ g.event = h.event
      /\ g.checked = now /\ g.known = Past(Member(h))
  BY <1>1 DEF Handler
<1>5. Resume(h, g) /\ h.at = "enriching"
  BY DEF CallsDesigner
<1> HIDE DEF g
<1>6. ASSUME NEW x \in delivered, x.id \in g.known
      PROVE  Respects(g, x)
  <2>1. PICK y \in delivered : y.id = x.id /\ MemberOf[y.event] = Member(h) /\ ~y.forgotten
    BY <1>4, <1>6 DEF Past
  <2>2. y = x
    BY <2>1 DEF ScoutInv, Distinct
  <2>3. QED
    BY <1>1, <1>4, <2>1, <2>2, CanDeliver DEF CallsDesigner, Member, Respects
<1>7. Decided(g)
  BY <1>4, <1>6 DEF Decided, Past
<1>8. QED
  BY <1>3, <1>4, <1>5, <1>7, ResumeInv DEF CallsDesigner

LEMMA DesignerAnswersInv ==
  ASSUME ScoutInv, NEW h \in open, DesignerAnswers(h)
  PROVE  ScoutInv'
<1> DEFINE g == [h EXCEPT !.at = "pushing", !.attempt = 1]
           d == [id |-> h.id, event |-> h.event, at |-> now, checked |-> h.checked,
                 known |-> h.known, forgotten |-> FALSE]
<1>1. h \in Handler /\ now \in Nat /\ h.at = "designing"
  BY DEF ScoutInv, ScoutTypeOK, DesignerAnswers
<1>2. g \in Handler /\ d \in Delivery
  <2>1. g \in Handler
    <3>1. 1 \in 0..3 /\ "pushing" \in Phase
      BY DEF Phase
    <3>2. g.at = "pushing" /\ g.attempt = 1
      BY <1>1 DEF Handler
    <3>3. QED
      BY <1>1, <3>1, <3>2 DEF Handler
  <2>2. d \in Delivery
    BY <1>1 DEF Handler, Delivery
  <2>3. QED
    BY <2>1, <2>2
<1>3. /\ g.id = h.id /\ g.at = "pushing" /\ g.known = h.known
      /\ g.checked = h.checked /\ g.event = h.event
      /\ d.id = h.id /\ d.known = h.known /\ d.checked = h.checked
      /\ d.event = h.event /\ d.at = now /\ ~d.forgotten
  BY <1>1 DEF Handler
<1>4. open' = (open \ {h}) \cup {g} /\ delivered' = delivered \cup {d}
  BY DEF DesignerAnswers, Resume
<1> HIDE DEF g, d
<1>5. MemberOf[h.event] \in Members
  BY <1>1, ScoutAssumption DEF Handler
<1>6. _delivery_log' = [_delivery_log EXCEPT ![MemberOf[h.event]] = Kept(@ \cup {now})]
  BY DEF DesignerAnswers, record_delivery, Member
<1>7. \A T \in SUBSET Nat : Kept(T) \in SUBSET Nat /\ \A t \in T : t + Retention >= now => t \in Kept(T)
  BY DEF Kept
<1>8. ScoutTypeOK'
  BY <1>1, <1>2, <1>4, <1>5, <1>6, <1>7 DEF ScoutInv, ScoutTypeOK, DesignerAnswers
<1>9. Distinct'
  <2>1. \A x \in delivered : x.id # h.id
    BY <1>1 DEF ScoutInv, Distinct
  <2>2. \A k \in open : k.id = h.id => k = h
    BY DEF ScoutInv, Distinct
  <2>3. QED
    BY <1>3, <1>4, <2>1, <2>2 DEF ScoutInv, Distinct
<1>10. LogShows'
  <2>1. SUFFICES ASSUME NEW x \in delivered', ~x.forgotten, x.at + Retention >= now
                 PROVE  x.at \in _delivery_log'[MemberOf[x.event]]
    BY DEF LogShows, DesignerAnswers
  <2>2. _delivery_log \in [Members -> SUBSET Nat]
    BY DEF ScoutInv, ScoutTypeOK
  <2>3. CASE x \in delivered
    <3>1. x.at \in _delivery_log[MemberOf[x.event]]
      BY <2>1, <2>3 DEF ScoutInv, LogShows
    <3>2. MemberOf[x.event] \in Members /\ x.at \in Nat
      BY <2>3, ScoutAssumption DEF ScoutInv, ScoutTypeOK, Delivery
    <3>3. CASE MemberOf[x.event] = MemberOf[h.event]
      <4>1. x.at \in Kept(_delivery_log[MemberOf[h.event]] \cup {now})
        BY <2>1, <3>1, <3>3 DEF Kept
      <4>2. QED
        BY <1>5, <1>6, <2>2, <3>3, <4>1
    <3>4. CASE MemberOf[x.event] # MemberOf[h.event]
      BY <1>6, <2>2, <3>1, <3>2, <3>4
    <3>5. QED
      BY <3>3, <3>4
  <2>4. CASE x = d
    <3>1. now \in Kept(_delivery_log[MemberOf[h.event]] \cup {now})
      BY <1>3, <2>1, <2>4 DEF Kept
    <3>2. QED
      BY <1>3, <1>5, <1>6, <2>2, <2>4, <3>1
  <2>5. QED
    BY <1>4, <2>1, <2>3, <2>4
<1>11. DecidedWell'
  <2>1. Decided(h) /\ \A x \in delivered : x.id # h.id
    BY <1>1 DEF ScoutInv, DecidedWell, Distinct
  <2>2. ASSUME NEW k, Decided(k)
        PROVE  Decided(k)'
    <3>1. d.id \notin k.known
      BY <1>3, <2>1, <2>2 DEF Decided
    <3>2. QED
      BY <1>4, <2>2, <3>1 DEF Decided, Respects
  <2>3. Decided(g) /\ Decided(d)
    BY <1>3, <2>1 DEF Decided, Respects
  <2>4. QED
    BY <1>4, <2>2, <2>3 DEF ScoutInv, DecidedWell
<1>12. SentRecorded'
  BY <1>3, <1>4 DEF ScoutInv, SentRecorded, DesignerAnswers
<1>13. QED
  BY <1>8, <1>9, <1>10, <1>11, <1>12 DEF ScoutInv

LEMMA PushFailsInv ==
  ASSUME ScoutInv, NEW h \in open, PushFails(h)
  PROVE  ScoutInv'
<1>1. h \in Handler /\ h.at = "pushing"
  BY DEF ScoutInv, ScoutTypeOK, PushFails
<1> DEFINE g == NextAttempt(h)
<1>2. g \in Handler
  <2>1. CASE h.attempt < 3
    BY <1>1, <2>1 DEF NextAttempt, Handler, Phase
  <2>2. CASE ~(h.attempt < 3)
    BY <1>1, <2>2 DEF NextAttempt, Handler, Phase
  <2>3. QED
    BY <2>1, <2>2
<1>3. /\ g.id = h.id /\ g.at \in {"pushing", "mailing"} /\ g.event = h.event
      /\ g.known = h.known /\ g.checked = h.checked
  BY <1>1 DEF NextAttempt, Handler
<1>4. \E d \in delivered : d.id = h.id
  BY <1>1 DEF ScoutInv, SentRecorded
<1>5. Decided(h)
  BY DEF ScoutInv, DecidedWell
<1> HIDE DEF g
<1>6. Decided(g)
  BY <1>3, <1>5 DEF Decided, Respects
<1>7. Resume(h, g) /\ reached' \in {reached, reached \cup {h.id}}
  BY DEF PushFails, Reaches, g
<1>8. QED
  BY <1>2, <1>3, <1>4, <1>6, <1>7, ResumeInv DEF PushFails

LEMMA EndingsInv ==
  ASSUME ScoutInv, NEW h \in open,
         \/ BelowThreshold(h) \/ DeliveryBlocked(h) \/ QueuedForMorning(h)
         \/ DesignerFailed(h) \/ Pushed(h) \/ Mailed(h)
  PROVE  ScoutInv'
<1>1. queued \in [Members -> SUBSET Events] /\ Member(h) \in Members /\ h.event \in Events
  BY ScoutAssumption DEF ScoutInv, ScoutTypeOK, Handler, Member
<1>2. CASE BelowThreshold(h) \/ DeliveryBlocked(h) \/ DesignerFailed(h)
  BY <1>1, <1>2, EndsInv DEF BelowThreshold, DeliveryBlocked, DesignerFailed, logVars
<1>3. CASE QueuedForMorning(h)
  BY <1>1, <1>3, EndsInv DEF QueuedForMorning, queue_for_morning
<1>4. CASE Pushed(h) \/ Mailed(h)
  <2>1. \E d \in delivered : d.id = h.id
    BY <1>4 DEF ScoutInv, SentRecorded, Pushed, Mailed
  <2>2. QED
    BY <1>1, <1>4, <2>1, EndsInv DEF Pushed, Mailed, Reaches, logVars
<1>5. QED
  BY <1>2, <1>3, <1>4

LEMMA TickInv == ASSUME ScoutInv, Tick PROVE ScoutInv'
<1>1. now \in Nat /\ now' = now + 1 /\ Retention \in Nat
  BY ScoutAssumption DEF Tick, ScoutInv, ScoutTypeOK
<1>2. ScoutTypeOK' /\ Distinct' /\ SentRecorded'
  BY <1>1 DEF Tick, ScoutInv, ScoutTypeOK, Distinct, SentRecorded, logVars
<1>3. LogShows'
  <2>1. \A d \in delivered : d.at \in Nat
    BY DEF ScoutInv, ScoutTypeOK, Delivery
  <2>2. QED
    BY <1>1, <2>1 DEF Tick, ScoutInv, LogShows, logVars
<1>4. DecidedWell'
  BY DEF Tick, ScoutInv, DecidedWell, Decided, Respects, logVars
<1>5. QED
  BY <1>2, <1>3, <1>4 DEF ScoutInv

LEMMA RestartInv == ASSUME ScoutInv, ScoutRestart PROVE ScoutInv'
<1>1. ASSUME NEW x \in delivered'
      PROVE  \E d \in delivered : /\ x \in Delivery
                                  /\ x = [d EXCEPT !.forgotten = TRUE]
                                  /\ x.id = d.id /\ x.event = d.event /\ x.at = d.at
                                  /\ x.checked = d.checked /\ x.known = d.known
                                  /\ x.forgotten
  BY <1>1 DEF ScoutRestart, ScoutInv, ScoutTypeOK, Delivery
<1>2. ASSUME NEW d \in delivered
      PROVE  \E x \in delivered' : x.id = d.id
  <2>1. [d EXCEPT !.forgotten = TRUE].id = d.id
    BY DEF ScoutInv, ScoutTypeOK, Delivery
  <2>2. QED
    BY <2>1 DEF ScoutRestart
<1>3. ScoutTypeOK'
  BY <1>1 DEF ScoutRestart, ScoutInv, ScoutTypeOK
<1>4. Distinct'
  <2>1. ASSUME NEW x \in delivered', NEW y \in delivered', x.id = y.id
        PROVE  x = y
    <3>1. PICK d \in delivered : x = [d EXCEPT !.forgotten = TRUE] /\ x.id = d.id
      BY <1>1
    <3>2. PICK e \in delivered : y = [e EXCEPT !.forgotten = TRUE] /\ y.id = e.id
      BY <1>1
    <3>3. d = e
      BY <2>1, <3>1, <3>2 DEF ScoutInv, Distinct
    <3>4. QED
      BY <3>1, <3>2, <3>3
  <2>2. open' = {}
    BY DEF ScoutRestart
  <2>3. QED
    BY <2>1, <2>2 DEF Distinct
<1>5. LogShows'
  BY <1>1 DEF LogShows
<1>6. DecidedWell'
  <2>1. ASSUME NEW k \in delivered'
        PROVE  Decided(k)'
    <3>1. PICK d \in delivered : /\ k.known = d.known /\ k.checked = d.checked
                                 /\ k.event = d.event
      BY <1>1
    <3>2. Decided(d)
      BY DEF ScoutInv, DecidedWell
    <3>3. \A c \in k.known : \E x \in delivered' : x.id = c
      BY <1>2, <3>1, <3>2 DEF Decided
    <3>4. \A x \in delivered' : x.id \in k.known => Respects(k, x)
      BY <1>1, <3>1, <3>2 DEF Decided, Respects
    <3>5. QED
      BY <3>3, <3>4 DEF Decided, Respects
  <2>2. QED
    BY <2>1 DEF DecidedWell, ScoutRestart
<1>7. SentRecorded'
  <2>1. open' = {} /\ reached' = reached
    BY DEF ScoutRestart
  <2>2. ASSUME NEW c \in reached
        PROVE  \E x \in delivered' : x.id = c
    <3>1. PICK d \in delivered : d.id = c
      BY DEF ScoutInv, SentRecorded
    <3>2. QED
      BY <1>2, <3>1
  <2>3. QED
    BY <2>1, <2>2 DEF SentRecorded
<1>8. QED
  BY <1>3, <1>4, <1>5, <1>6, <1>7 DEF ScoutInv

LEMMA StepInv == ScoutInv /\ [ScoutNext]_scoutVars => ScoutInv'
<1> SUFFICES ASSUME ScoutInv, [ScoutNext]_scoutVars
             PROVE  ScoutInv'
  OBVIOUS
<1>1. ASSUME NEW c \in Calls, NEW e \in Events, Turned(c, e) \/ Taken(c, e)
      PROVE  ScoutInv'
  BY <1>1, TurnedInv, TakenInv
<1>2. ASSUME NEW h \in open, HandlerStep(h)
      PROVE  ScoutInv'
  BY <1>2, EndingsInv, CallsDesignerInv, DesignerAnswersInv, PushFailsInv DEF HandlerStep
<1>3. ASSUME NEW s \in _seen_events, WindowPasses(s)
      PROVE  ScoutInv'
  BY <1>3 DEF WindowPasses, ScoutInv, ScoutTypeOK, Distinct, LogShows, DecidedWell,
              Decided, Respects, SentRecorded, logVars
<1>4. CASE Tick
  BY <1>4, TickInv
<1>5. CASE ScoutRestart
  BY <1>5, RestartInv
<1>6. CASE UNCHANGED scoutVars
  BY <1>6 DEF scoutVars, logVars, ScoutInv, ScoutTypeOK, Distinct, LogShows,
              DecidedWell, Decided, Respects, SentRecorded
<1>7. QED
  BY <1>1, <1>2, <1>3, <1>4, <1>5, <1>6 DEF ScoutNext

LEMMA ScoutInvariant == ScoutSpec => []ScoutInv
BY InitInv, StepInv, PTL DEF ScoutSpec

-------------------------------------------------------------------------------
(* The variables of Scout keep their types.                                *)
THEOREM ScoutTypeCorrect == ScoutSpec => []ScoutTypeOK
<1>1. ScoutInv => ScoutTypeOK
  BY DEF ScoutInv
<1>2. QED
  BY <1>1, ScoutInvariant, PTL

(* Whoever reads the log after a delivery was recorded keeps the windows,  *)
(* whatever other handlers do between his read and his own record.         *)
THEOREM ScoutDecisionsRespectLog == ScoutSpec => []DecisionsRespectLog
<1>1. ScoutInv => DecisionsRespectLog
  BY DEF ScoutInv, DecidedWell, Decided, Respects, DecisionsRespectLog
<1>2. QED
  BY <1>1, ScoutInvariant, PTL

(* No message reaches a member that does not count against his limits.     *)
THEOREM ScoutMessagesAreCounted == ScoutSpec => []MessagesAreCounted
<1>1. ASSUME ScoutInv, NEW c \in reached
      PROVE  \E d \in delivered :
               /\ d.id = c
               /\ ~d.forgotten /\ d.at + DedupWindow >= now
                    => d.at \in _delivery_log[MemberOf[d.event]]
  <2>1. PICK d \in delivered : d.id = c
    BY <1>1 DEF ScoutInv, SentRecorded
  <2>2. d.at \in Nat /\ now \in Nat /\ DedupWindow \in Nat /\ Retention \in Nat
    BY <1>1, ScoutAssumption DEF ScoutInv, ScoutTypeOK, Delivery
  <2>3. d.at + DedupWindow >= now => d.at + Retention >= now
    BY <2>2, ScoutAssumption
  <2>4. QED
    BY <1>1, <2>1, <2>3 DEF ScoutInv, LogShows
<1>2. ScoutInv => MessagesAreCounted
  BY <1>1 DEF MessagesAreCounted
<1>3. QED
  BY <1>2, ScoutInvariant, PTL

-------------------------------------------------------------------------------
(* Overlaps.  A handler is in flight over one tick at most and decides on  *)
(* the way; a delivery it did not see when it decided was recorded since.  *)
Timely ==
  /\ \A h \in open : /\ h.since <= now /\ now <= h.since + 1
                     /\ h.at = "designing" => h.since <= h.checked /\ h.checked <= now
  /\ \A d \in delivered : d.checked <= d.at /\ d.at <= d.checked + 1 /\ d.at <= now

Sees(k) ==
  \A x \in delivered :
    /\ ~x.forgotten /\ MemberOf[x.event] = MemberOf[k.event] /\ x.id # k.id
    => x.id \in k.known \/ k.checked <= x.at

SeesPast ==
  /\ \A h \in open : h.at = "designing" => Sees(h)
  /\ \A d \in delivered : ~d.forgotten => Sees(d)

(* Nothing is recorded, the clock stands still, and no handler but g is    *)
(* new or changed.                                                         *)
LEMMA QuietTimely ==
  ASSUME Timely, SeesPast, UNCHANGED <<now, delivered>>,
         \A g \in open' \ open :
           /\ \E h \in open : g.since = h.since
           /\ g.at = "designing" => g.since <= g.checked /\ g.checked <= now /\ Sees(g)
  PROVE  Timely' /\ SeesPast'
<1>1. Timely'
  BY DEF Timely
<1>2. SeesPast'
  BY DEF SeesPast, Sees
<1>3. QED
  BY <1>1, <1>2

LEMMA CallsDesignerTimely ==
  ASSUME ScoutInv, Timely, SeesPast, NEW h \in open, CallsDesigner(h)
  PROVE  Timely' /\ SeesPast'
<1> DEFINE g == [h EXCEPT !.at = "designing", !.checked = now, !.known = Past(Member(h))]
<1>1. /\ g.id = h.id /\ g.event = h.event /\ g.since = h.since
      /\ g.checked = now /\ g.known = Past(Member(h))
  BY DEF ScoutInv, ScoutTypeOK, Handler
<1>2. /\ now \in Nat /\ h.since <= now
  BY DEF ScoutInv, ScoutTypeOK, Timely
<1>3. open' = (open \ {h}) \cup {g} /\ UNCHANGED <<now, delivered>>
  BY DEF CallsDesigner, Resume, logVars
<1> HIDE DEF g
<1>4. Sees(g)
  BY <1>1 DEF Sees, Past, Member
<1>5. QED
  BY <1>1, <1>2, <1>3, <1>4, QuietTimely

LEMMA DesignerAnswersTimely ==
  ASSUME ScoutInv, Timely, SeesPast, NEW h \in open, DesignerAnswers(h)
  PROVE  Timely' /\ SeesPast'
<1> DEFINE g == [h EXCEPT !.at = "pushing", !.attempt = 1]
           d == [id |-> h.id, event |-> h.event, at |-> now, checked |-> h.checked,
                 known |-> h.known, forgotten |-> FALSE]
<1>1. h \in Handler /\ now \in Nat /\ h.at = "designing"
  BY DEF ScoutInv, ScoutTypeOK, DesignerAnswers
<1>2. /\ g.at = "pushing" /\ g.since = h.since
      /\ d.id = h.id /\ d.known = h.known /\ d.checked = h.checked
      /\ d.event = h.event /\ d.at = now
  BY <1>1 DEF Handler
<1>3. /\ open' = (open \ {h}) \cup {g} /\ delivered' = delivered \cup {d}
      /\ now' = now
  BY DEF DesignerAnswers, Resume
<1> HIDE DEF g, d
<1>4. /\ h.since \in Nat /\ h.checked \in Nat
      /\ h.since <= h.checked /\ h.checked <= now /\ now <= h.since + 1
  BY <1>1 DEF Handler, Timely
<1>5. Timely'
  <2>1. d.checked <= d.at /\ d.at <= d.checked + 1 /\ d.at <= now
    BY <1>1, <1>2, <1>4
  <2>2. g.since <= now /\ now <= g.since + 1 /\ g.at # "designing"
    BY <1>2, <1>4, <1>1
  <2>3. QED
    BY <1>3, <2>1, <2>2 DEF Timely
<1>6. ASSUME NEW k, Sees(k), k.checked <= now
      PROVE  Sees(k)'
  BY <1>2, <1>3, <1>6 DEF Sees
<1>7. Sees(d)
  BY <1>1, <1>2 DEF SeesPast, Sees
<1>8. \A k \in open : k.at = "designing" => k.checked <= now
  BY DEF Timely
<1>9. \A x \in delivered : x.checked <= now
  BY <1>1 DEF Timely, ScoutInv, ScoutTypeOK, Delivery
<1>10. SeesPast'
  BY <1>2, <1>3, <1>4, <1>6, <1>7, <1>8, <1>9 DEF SeesPast
<1>11. QED
  BY <1>5, <1>10

LEMMA TimelyStep ==
  ScoutInv /\ Timely /\ SeesPast /\ [ScoutNext]_scoutVars => Timely' /\ SeesPast'
<1> SUFFICES ASSUME ScoutInv, Timely, SeesPast, [ScoutNext]_scoutVars
             PROVE  Timely' /\ SeesPast'
  OBVIOUS
<1>1. ASSUME NEW c \in Calls, NEW e \in Events, Taken(c, e)
      PROVE  Timely' /\ SeesPast'
  <2> DEFINE n == [id |-> c, event |-> e, at |-> "enriching", since |-> now,
                   checked |-> 0, known |-> {}, attempt |-> 0]
  <2>1. n.at # "designing" /\ n.since = now /\ now \in Nat
    BY DEF ScoutInv, ScoutTypeOK
  <2>2. open' = open \cup {n} /\ UNCHANGED <<now, delivered>>
    BY <1>1 DEF Taken, logVars
  <2> HIDE DEF n
  <2>3. Timely'
    BY <2>1, <2>2 DEF Timely
  <2>4. SeesPast'
    BY <2>1, <2>2 DEF SeesPast, Sees
  <2>5. QED
    BY <2>3, <2>4
<1>2. ASSUME \/ \E c \in Calls, e \in Events : Turned(c, e)
             \/ \E s \in _seen_events : WindowPasses(s)
             \/ UNCHANGED scoutVars
      PROVE  Timely' /\ SeesPast'
  <2>1. UNCHANGED <<now, open, delivered>>
    BY <1>2 DEF Turned, WindowPasses, scoutVars, logVars
  <2>2. QED
    BY <2>1, QuietTimely
<1>3. ASSUME NEW h \in open, HandlerStep(h)
      PROVE  Timely' /\ SeesPast'
  <2>1. CASE \/ BelowThreshold(h) \/ DeliveryBlocked(h) \/ QueuedForMorning(h)
             \/ DesignerFailed(h) \/ Pushed(h) \/ Mailed(h)
    <3>1. open' \subseteq open /\ UNCHANGED <<now, delivered>>
      BY <2>1 DEF BelowThreshold, DeliveryBlocked, QueuedForMorning, DesignerFailed,
                  Pushed, Mailed, Ends, logVars
    <3>2. QED
      BY <3>1, QuietTimely
  <2>2. CASE PushFails(h)
    <3>1. NextAttempt(h).at # "designing" /\ NextAttempt(h).since = h.since
      BY <2>2 DEF NextAttempt, PushFails, ScoutInv, ScoutTypeOK, Handler
    <3>2. open' = (open \ {h}) \cup {NextAttempt(h)} /\ UNCHANGED <<now, delivered>>
      BY <2>2 DEF PushFails, Resume, logVars
    <3>3. QED
      BY <3>1, <3>2, QuietTimely
  <2>3. QED
    BY <1>3, <2>1, <2>2, CallsDesignerTimely, DesignerAnswersTimely DEF HandlerStep
<1>4. CASE Tick
  <2>1. /\ now \in Nat /\ now' = now + 1 /\ \A h \in open : h.since = now
        /\ UNCHANGED <<open, delivered>>
    BY <1>4 DEF Tick, logVars, ScoutInv, ScoutTypeOK
  <2>2. \A h \in open : h.checked \in Nat
    BY DEF ScoutInv, ScoutTypeOK, Handler
  <2>3. \A d \in delivered : d.at \in Nat
    BY DEF ScoutInv, ScoutTypeOK, Delivery
  <2>4. Timely'
    BY <2>1, <2>2, <2>3 DEF Timely
  <2>5. SeesPast'
    BY <2>1 DEF SeesPast, Sees
  <2>6. QED
    BY <2>4, <2>5
<1>5. CASE ScoutRestart
  <2>1. open' = {} /\ now' = now
        /\ delivered' = {[d EXCEPT !.forgotten = TRUE] : d \in delivered}
    BY <1>5 DEF ScoutRestart
  <2>2. \A d \in delivered : LET x == [d EXCEPT !.forgotten = TRUE]
                             IN x.at = d.at /\ x.checked = d.checked /\ x.forgotten
    BY DEF ScoutInv, ScoutTypeOK, Delivery
  <2>3. Timely'
    BY <2>1, <2>2 DEF Timely
  <2>4. SeesPast'
    BY <2>1, <2>2 DEF SeesPast
  <2>5. QED
    BY <2>3, <2>4
<1>6. QED
  BY <1>1, <1>2, <1>3, <1>4, <1>5 DEF ScoutNext

LEMMA TimelyInvariant == ScoutSpec => [](Timely /\ SeesPast)
<1>1. ScoutInit => Timely /\ SeesPast
  BY DEF ScoutInit, Timely, SeesPast
<1>2. QED
  BY <1>1, ScoutInvariant, TimelyStep, PTL DEF ScoutSpec

(* A member is served too early only by handlers that overlapped.          *)
THEOREM ScoutLimitsBreakInBurstsOnly == ScoutSpec => []LimitsBreakInBurstsOnly
<1>1. ASSUME ScoutInv, Timely, SeesPast, NEW d \in delivered, NEW x \in delivered,
             d.id # x.id, MemberOf[d.event] = MemberOf[x.event],
             ~d.forgotten, ~x.forgotten, x.at <= d.at
      PROVE  \/ d.at > x.at + RateLimit /\ (d.event \in HighValue \/ d.at > x.at + DedupWindow)
             \/ d.checked <= x.at /\ d.at <= x.at + 1
  <2>1. /\ d.at \in Nat /\ d.checked \in Nat /\ x.at \in Nat
        /\ RateLimit \in Nat /\ DedupWindow \in Nat
    BY <1>1, ScoutAssumption DEF ScoutInv, ScoutTypeOK, Delivery
  <2>2. d.checked <= d.at /\ d.at <= d.checked + 1
    BY <1>1 DEF Timely
  <2>3. CASE x.id \in d.known
    <3>1. Respects(d, x)
      BY <1>1, <2>3 DEF ScoutInv, DecidedWell, Decided
    <3>2. QED
      BY <2>1, <2>2, <3>1 DEF Respects
  <2>4. CASE d.checked <= x.at
    BY <2>1, <2>2, <2>4
  <2>5. QED
    BY <1>1, <2>3, <2>4 DEF SeesPast, Sees
<1>2. ScoutInv /\ Timely /\ SeesPast => LimitsBreakInBurstsOnly
  BY <1>1 DEF LimitsBreakInBurstsOnly
<1>3. QED
  BY <1>2, ScoutInvariant, TimelyInvariant, PTL

(* What would keep the limits for good: if the handlers of a member took   *)
(* turns from their can_deliver to their record_delivery, and the process  *)
(* did not forget, one offer per window is all a member would ever get.    *)
HandlersTakeTurns ==
  \A h, g \in open :
    h.at = "designing" /\ g.at = "designing" /\ Member(h) = Member(g) => h = g

(* Then a decision under way has seen every delivery to its member, and of *)
(* two deliveries one was seen by the other.                               *)
Serial ==
  /\ \A d \in delivered : ~d.forgotten
  /\ \A h \in open, d \in delivered :
       h.at = "designing" /\ MemberOf[d.event] = Member(h) => d.id \in h.known
  /\ \A d, x \in delivered :
       MemberOf[d.event] = MemberOf[x.event] /\ d.id # x.id
         => x.id \in d.known \/ d.id \in x.known

LEMMA SerialStep ==
  ASSUME MayRestart = FALSE, ScoutInv, HandlersTakeTurns, Serial, [ScoutNext]_scoutVars
  PROVE  Serial'
<1>1. ASSUME delivered' = delivered,
             \A g \in open' \ open :
               g.at = "designing" => g.known = Past(Member(g))
      PROVE  Serial'
  <2>1. ASSUME NEW g \in open' \ open, g.at = "designing", NEW d \in delivered,
               MemberOf[d.event] = Member(g)
        PROVE  d.id \in g.known
    BY <1>1, <2>1 DEF Serial, Past
  <2>2. QED
    BY <1>1, <2>1 DEF Serial, Member
<1>2. ASSUME NEW c \in Calls, NEW e \in Events, Turned(c, e) \/ Taken(c, e)
      PROVE  Serial'
  BY <1>1, <1>2 DEF Turned, Taken, logVars
<1>3. ASSUME NEW h \in open, HandlerStep(h), ~CallsDesigner(h), ~DesignerAnswers(h),
             ~PushFails(h)
      PROVE  Serial'
  BY <1>1, <1>3 DEF HandlerStep, BelowThreshold, DeliveryBlocked, QueuedForMorning,
                    DesignerFailed, Pushed, Mailed, Ends, logVars
<1>4. ASSUME NEW h \in open, PushFails(h)
      PROVE  Serial'
  <2>1. NextAttempt(h).at # "designing"
    BY <1>4 DEF NextAttempt, PushFails, ScoutInv, ScoutTypeOK, Handler
  <2>2. QED
    BY <1>1, <1>4, <2>1 DEF PushFails, Resume, logVars
<1>5. ASSUME NEW h \in open, CallsDesigner(h)
      PROVE  Serial'
  <2> DEFINE g == [h EXCEPT !.at = "designing", !.checked = now, !.known = Past(Member(h))]
  <2>1. g.known = Past(Member(h)) /\ Member(g) = Member(h)
    BY DEF Member, ScoutInv, ScoutTypeOK, Handler
  <2>2. open' = (open \ {h}) \cup {g} /\ delivered' = delivered
    BY <1>5 DEF CallsDesigner, Resume, logVars
  <2> HIDE DEF g
  <2>3. QED
    BY <1>1, <2>1, <2>2
<1>6. ASSUME NEW h \in open, DesignerAnswers(h)
      PROVE  Serial'
  <2> DEFINE g == [h EXCEPT !.at = "pushing", !.attempt = 1]
             d == [id |-> h.id, event |-> h.event, at |-> now, checked |-> h.checked,
                   known |-> h.known, forgotten |-> FALSE]
  <2>1. /\ g.at = "pushing" /\ d.id = h.id /\ d.known = h.known
        /\ d.event = h.event /\ ~d.forgotten /\ h.at = "designing"
    BY <1>6 DEF DesignerAnswers, ScoutInv, ScoutTypeOK, Handler
  <2>2. open' = (open \ {h}) \cup {g} /\ delivered' = delivered \cup {d}
    BY <1>6 DEF DesignerAnswers, Resume
  <2> HIDE DEF g, d
  <2>3. \A x \in delivered : MemberOf[x.event] = MemberOf[d.event] => x.id \in d.known
    BY <2>1 DEF Serial, Member
  <2>4. \A k \in open \ {h} : k.at = "designing" => Member(k) # Member(h)
    BY <2>1 DEF HandlersTakeTurns
  <2>5. \A x \in delivered' : ~x.forgotten
    BY <2>1, <2>2 DEF Serial
  <2>6. \A k \in open', x \in delivered' :
          k.at = "designing" /\ MemberOf[x.event] = MemberOf[k.event] => x.id \in k.known
    BY <2>1, <2>2, <2>4 DEF Serial, Member
  <2>7. QED
    BY <2>2, <2>3, <2>5, <2>6 DEF Serial, Member
<1>7. ASSUME \/ \E s \in _seen_events : WindowPasses(s)
             \/ Tick
             \/ UNCHANGED scoutVars
      PROVE  Serial'
  BY <1>1, <1>7 DEF WindowPasses, Tick, scoutVars, logVars
<1>8. QED
  BY <1>2, <1>3, <1>4, <1>5, <1>6, <1>7 DEF ScoutNext, ScoutRestart

(* One offer per window, when handlers take turns: the counterexample of   *)
(* OneOfferPerWindow comes from their overlap and from nothing else.       *)
THEOREM ScoutTurnsKeepLimit ==
  ASSUME MayRestart = FALSE
  PROVE  ScoutSpec /\ []HandlersTakeTurns => []OneOfferPerWindow
<1>1. ScoutInit => Serial
  BY DEF ScoutInit, Serial
<1>2. ScoutInv /\ HandlersTakeTurns /\ Serial /\ [ScoutNext]_scoutVars => Serial'
  BY SerialStep
<1>3. ASSUME ScoutInv, Timely, Serial, NEW d \in delivered, NEW x \in delivered,
             d.id # x.id, MemberOf[d.event] = MemberOf[x.event], x.at <= d.at
      PROVE  d.at > x.at + RateLimit
  <2>1. /\ d.at \in Nat /\ d.checked \in Nat /\ x.at \in Nat /\ x.checked \in Nat
        /\ RateLimit \in Nat
    BY <1>3, ScoutAssumption DEF ScoutInv, ScoutTypeOK, Delivery
  <2>2. d.checked <= d.at /\ x.checked <= x.at
    BY <1>3 DEF Timely
  <2>3. CASE x.id \in d.known
    <3>1. Respects(d, x)
      BY <1>3, <2>3 DEF ScoutInv, DecidedWell, Decided
    <3>2. QED
      BY <2>1, <2>2, <3>1 DEF Respects
  <2>4. CASE d.id \in x.known
    <3>1. Respects(x, d)
      BY <1>3, <2>4 DEF ScoutInv, DecidedWell, Decided
    <3>2. QED
      BY <1>3, <2>1, <2>2, <3>1 DEF Respects
  <2>5. QED
    BY <1>3, <2>3, <2>4 DEF Serial
<1>4. ScoutInv /\ Timely /\ Serial => OneOfferPerWindow
  BY <1>3 DEF OneOfferPerWindow
<1>5. QED
  BY <1>1, <1>2, <1>4, ScoutInvariant, TimelyInvariant, PTL DEF ScoutSpec

-------------------------------------------------------------------------------
(* Progress.  A handler has an attempt number while it pushes, and is not  *)
(* one of a call that was answered.                                        *)
Counting == \A h \in open : /\ h.id \notin answered
                            /\ h.at = "pushing" => h.attempt \in 1..3

(* Handler h is over, or goes on with fewer steps left.                    *)
IsOver(h) == open' = open \ {h} /\ answered' = answered \cup {h.id}

GoesOn(h) == \E g : /\ open' = (open \ {h}) \cup {g} /\ answered' = answered
                    /\ g.id = h.id /\ StepsLeft(g) < StepsLeft(h)
                    /\ g.at = "pushing" => g.attempt \in 1..3

LEMMA Advances ==
  ASSUME ScoutInv, Counting, NEW h \in open, IsOver(h) \/ GoesOn(h)
  PROVE  /\ Counting'
         /\ \A k \in open, g \in open' : g.id = k.id /\ g # k => StepsLeft(g) < StepsLeft(k)
         /\ \A g \in open' : g.id \notin answered
<1>1. \A k, g \in open : k.id = g.id => k = g
  BY DEF ScoutInv, Distinct
<1>2. CASE IsOver(h)
  BY <1>1, <1>2 DEF Counting, IsOver
<1>3. CASE GoesOn(h)
  <2>1. PICK g : /\ open' = (open \ {h}) \cup {g} /\ answered' = answered
                 /\ g.id = h.id /\ StepsLeft(g) < StepsLeft(h)
                 /\ g.at = "pushing" => g.attempt \in 1..3
    BY <1>3 DEF GoesOn
  <2>2. QED
    BY <1>1, <2>1 DEF Counting
<1>4. QED
  BY <1>2, <1>3

LEMMA HandlerAdvances ==
  ASSUME ScoutInv, Counting, NEW h \in open, HandlerStep(h)
  PROVE  IsOver(h) \/ GoesOn(h)
<1>1. CASE \/ BelowThreshold(h) \/ DeliveryBlocked(h) \/ QueuedForMorning(h)
           \/ DesignerFailed(h) \/ Pushed(h) \/ Mailed(h)
  BY <1>1 DEF BelowThreshold, DeliveryBlocked, QueuedForMorning, DesignerFailed, Pushed,
              Mailed, Ends, Answer, IsOver
<1>2. CASE CallsDesigner(h)
  <2> DEFINE g == [h EXCEPT !.at = "designing", !.checked = now, !.known = Past(Member(h))]
  <2>1. g.id = h.id /\ g.at = "designing"
    BY DEF ScoutInv, ScoutTypeOK, Handler
  <2>2. open' = (open \ {h}) \cup {g} /\ answered' = answered /\ h.at = "enriching"
    BY <1>2 DEF CallsDesigner, Resume
  <2> HIDE DEF g
  <2>3. StepsLeft(h) = 5 /\ StepsLeft(g) = 4
    BY <2>1, <2>2 DEF StepsLeft
  <2>4. QED
    BY <2>1, <2>2, <2>3 DEF GoesOn
<1>3. CASE DesignerAnswers(h)
  <2> DEFINE g == [h EXCEPT !.at = "pushing", !.attempt = 1]
  <2>1. g.id = h.id /\ g.at = "pushing" /\ g.attempt = 1
    BY DEF ScoutInv, ScoutTypeOK, Handler
  <2>2. open' = (open \ {h}) \cup {g} /\ answered' = answered /\ h.at = "designing"
    BY <1>3 DEF DesignerAnswers, Resume
  <2> HIDE DEF g
  <2>3. StepsLeft(h) = 4 /\ StepsLeft(g) = 3
    BY <2>1, <2>2 DEF StepsLeft
  <2>4. QED
    BY <2>1, <2>2, <2>3 DEF GoesOn
<1>4. CASE PushFails(h)
  <2> DEFINE g == NextAttempt(h)
  <2>1. open' = (open \ {h}) \cup {g} /\ answered' = answered /\ h.at = "pushing"
    BY <1>4 DEF PushFails, Resume
  <2>2. h \in Handler /\ h.attempt \in 1..3 /\ StepsLeft(h) = 4 - h.attempt
    BY <2>1 DEF Counting, ScoutInv, ScoutTypeOK, StepsLeft
  <2>3. CASE h.attempt < 3
    <3>1. g.id = h.id /\ g.at = "pushing" /\ g.attempt = h.attempt + 1
      BY <2>1, <2>2, <2>3 DEF NextAttempt, Handler
    <3> HIDE DEF g
    <3>2. StepsLeft(g) = 4 - g.attempt
      BY <3>1 DEF StepsLeft
    <3>3. QED
      BY <2>1, <2>2, <2>3, <3>1, <3>2 DEF GoesOn
  <2>4. CASE ~(h.attempt < 3)
    <3>1. g.id = h.id /\ g.at = "mailing"
      BY <2>1, <2>2, <2>4 DEF NextAttempt, Handler
    <3> HIDE DEF g
    <3>2. StepsLeft(g) = 0
      BY <3>1 DEF StepsLeft
    <3>3. QED
      BY <2>1, <2>2, <3>1, <3>2 DEF GoesOn
  <2>5. QED
    BY <2>3, <2>4
<1>5. QED
  BY <1>1, <1>2, <1>3, <1>4 DEF HandlerStep

LEMMA AdvanceStep ==
  ASSUME ScoutInv, Counting, [ScoutNext]_scoutVars
  PROVE  /\ Counting'
         /\ \A h \in open, g \in open' : g.id = h.id /\ g # h => StepsLeft(g) < StepsLeft(h)
         /\ \A g \in open' : g.id \notin answered
<1>1. \A h, g \in open : h.id = g.id => h = g
  BY DEF ScoutInv, Distinct
<1>2. ASSUME NEW h \in open, HandlerStep(h)
      PROVE  /\ Counting'
             /\ \A k \in open, g \in open' : g.id = k.id /\ g # k => StepsLeft(g) < StepsLeft(k)
             /\ \A g \in open' : g.id \notin answered
  BY <1>2, HandlerAdvances, Advances
<1>3. ASSUME NEW c \in Calls, NEW e \in Events, Turned(c, e)
      PROVE  Counting' /\ open' = open
  BY <1>3 DEF Turned, Unused, Answer, Counting
<1>4. ASSUME NEW c \in Calls, NEW e \in Events, Taken(c, e)
      PROVE  \E n : /\ open' = open \cup {n} /\ answered' = answered
                    /\ n.id = c /\ n.at = "enriching"
                    /\ c \notin answered /\ \A h \in open : h.id # c
  <2> DEFINE n == [id |-> c, event |-> e, at |-> "enriching", since |-> now,
                   checked |-> 0, known |-> {}, attempt |-> 0]
  <2>1. n.id = c /\ n.at = "enriching"
    OBVIOUS
  <2>2. open' = open \cup {n} /\ answered' = answered
    BY <1>4 DEF Taken
  <2> HIDE DEF n
  <2>3. c \notin answered /\ \A h \in open : h.id # c
    BY <1>4 DEF Taken, Unused
  <2>4. QED
    BY <2>1, <2>2, <2>3
<1>5. ASSUME \/ \E s \in _seen_events : WindowPasses(s)
             \/ Tick
             \/ UNCHANGED scoutVars
      PROVE  UNCHANGED <<open, answered>>
  BY <1>5 DEF WindowPasses, Tick, scoutVars, logVars
<1>6. CASE ScoutRestart
  BY <1>6 DEF ScoutRestart, Counting
<1>7. QED
  BY <1>1, <1>2, <1>3, <1>4, <1>5, <1>6 DEF ScoutNext, Counting

(* Every step of a handler brings it nearer to its end: with the fairness  *)
(* of the event loop no handler runs for ever.                             *)
THEOREM ScoutHandlersAdvance == ScoutSpec => HandlersAdvance
<1>1. ScoutInit => Counting
  BY DEF ScoutInit, Counting
<1>2. ScoutInv /\ Counting /\ [ScoutNext]_scoutVars => Counting'
  BY AdvanceStep
<1>3. ScoutInv /\ Counting /\ [ScoutNext]_scoutVars =>
        [/\ \A h \in open, g \in open' : g.id = h.id /\ g # h => StepsLeft(g) < StepsLeft(h)
         /\ \A g \in open' : g.id \notin answered]_scoutVars
  BY AdvanceStep
<1>4. QED
  BY <1>1, <1>2, <1>3, ScoutInvariant, PTL DEF ScoutSpec, HandlersAdvance

-------------------------------------------------------------------------------
(* The refinement of DeliveryPromise.  "pending" is changed by the one     *)
(* handler that moves: it leaves the set, or enters it.                    *)
Pending    == {Decision(h) : h \in {g \in open : g.at = "designing"}}
Deliveries == {Shown(d) : d \in delivered}

LEMMA PendingStep ==
  ASSUME \A k \in open \cup open' : k.at = "designing" => (k \in open <=> k \in open')
  PROVE  Pending' = Pending
BY DEF Pending

LEMMA PendingEnters ==
  ASSUME ScoutInv, NEW h \in open, NEW g, open' = (open \ {h}) \cup {g},
         h.at # "designing", g.at = "designing"
  PROVE  Pending' = Pending \cup {Decision(g)}
BY DEF Pending

LEMMA PendingLeaves ==
  ASSUME ScoutInv, NEW h \in open, h.at = "designing", h \notin open',
         \A k \in open \cup open' :
            k.at = "designing" /\ k # h => (k \in open <=> k \in open')
  PROVE  /\ Decision(h) \in Pending
         /\ Pending' = Pending \ {Decision(h)}
<1>1. ASSUME NEW k \in open, k # h
      PROVE  Decision(k) # Decision(h)
  <2>1. k.id # h.id
    BY <1>1 DEF ScoutInv, Distinct
  <2>2. QED
    BY <2>1 DEF Decision
<1>2. QED
  BY <1>1 DEF Pending

(* can_deliver looks at a pruned log and decides as the whole history      *)
(* would.                                                                  *)
LEMMA MayDecideHere ==
  ASSUME ScoutInv, NEW e \in Events, ~RateLimited(MemberOf[e]), ~Duplicate(e)
  PROVE  Promise!MayDecide(e)
<1>1. ASSUME NEW d \in Deliveries, MemberOf[d.event] = MemberOf[e], ~d.forgotten
      PROVE  /\ now > d.at + RateLimit
             /\ e \notin HighValue => now > d.at + DedupWindow
  <2>1. PICK x \in delivered : d = Shown(x)
    BY <1>1 DEF Deliveries
  <2>2. d.event = x.event /\ d.at = x.at /\ d.forgotten = x.forgotten
    BY <2>1 DEF Shown
  <2>3. QED
    BY <1>1, <2>2, CanDeliver
<1>2. QED
  BY <1>1 DEF Promise!MayDecide, Promise!History, Deliveries

LEMMA PromiseHandlerStep ==
  ASSUME ScoutInv, NEW h \in open, HandlerStep(h)
  PROVE  [Promise!Next]_(Promise!vars)
<1>0. h.event \in Events /\ h.id \in Calls
  BY DEF ScoutInv, ScoutTypeOK, Handler
<1>1. CASE BelowThreshold(h) \/ DeliveryBlocked(h) \/ QueuedForMorning(h)
           \/ Pushed(h) \/ Mailed(h)
  <2>1. h.at # "designing" /\ open' = (open \ {h}) \cup {} /\ UNCHANGED <<now, delivered>>
    BY <1>1 DEF BelowThreshold, DeliveryBlocked, QueuedForMorning, Pushed, Mailed, Ends, logVars
  <2>2. Pending' = Pending
    BY <2>1, PendingStep
  <2>3. QED
    BY <2>1, <2>2 DEF Promise!vars, Pending, Deliveries
<1>2. CASE CallsDesigner(h)
  <2> DEFINE g == [h EXCEPT !.at = "designing", !.checked = now, !.known = Past(Member(h))]
  <2>1. /\ g.at = "designing"
        /\ Decision(g) = [id |-> h.id, event |-> h.event, checked |-> now]
    BY DEF ScoutInv, ScoutTypeOK, Handler, Decision
  <2>2. h.at # "designing" /\ open' = (open \ {h}) \cup {g} /\ UNCHANGED <<now, delivered>>
    BY <1>2 DEF CallsDesigner, Resume, logVars
  <2> HIDE DEF g
  <2>3. Pending' = Pending \cup {[id |-> h.id, event |-> h.event, checked |-> now]}
    BY <2>1, <2>2, PendingEnters
  <2>4. Promise!MayDecide(h.event)
    BY <1>0, <1>2, MayDecideHere DEF CallsDesigner, Member
  <2>5. Promise!Decide(h.id, h.event)
    BY <2>2, <2>3, <2>4 DEF Promise!Decide, Pending, Deliveries
  <2>6. QED
    BY <1>0, <2>5 DEF Promise!Next
<1>3. CASE DesignerFailed(h)
  <2>1. h.at = "designing" /\ open' = (open \ {h}) \cup {} /\ UNCHANGED <<now, delivered>>
    BY <1>3 DEF DesignerFailed, Ends, logVars
  <2>2. Decision(h) \in Pending /\ Pending' = Pending \ {Decision(h)}
    BY <2>1, PendingLeaves
  <2>3. Promise!GiveUp(Decision(h))
    BY <2>1, <2>2 DEF Promise!GiveUp, Pending, Deliveries
  <2>4. QED
    BY <2>2, <2>3 DEF Promise!Next, Pending, Deliveries
<1>4. CASE DesignerAnswers(h)
  <2> DEFINE g == [h EXCEPT !.at = "pushing", !.attempt = 1]
             d == [id |-> h.id, event |-> h.event, at |-> now, checked |-> h.checked,
                   known |-> h.known, forgotten |-> FALSE]
             p == Decision(h)
  <2>1. g.at # "designing"
    BY DEF ScoutInv, ScoutTypeOK, Handler
  <2>2. Shown(d) = [id |-> p.id, event |-> p.event, checked |-> p.checked,
                    at |-> now, forgotten |-> FALSE]
    BY DEF Shown, Decision
  <2>3. /\ h.at = "designing" /\ open' = (open \ {h}) \cup {g}
        /\ delivered' = delivered \cup {d} /\ UNCHANGED now
    BY <1>4 DEF DesignerAnswers, Resume
  <2> HIDE DEF g, d, p
  <2>4. Decision(h) \in Pending /\ Pending' = Pending \ {Decision(h)}
    BY <2>1, <2>3, PendingLeaves
  <2>5. Deliveries' = Deliveries \cup {Shown(d)}
    BY <2>3 DEF Deliveries
  <2>6. Promise!Deliver(p)
    BY <2>2, <2>3, <2>4, <2>5 DEF Promise!Deliver, p, Pending, Deliveries
  <2>7. QED
    BY <2>4, <2>6 DEF Promise!Next, p, Pending, Deliveries
<1>5. CASE PushFails(h)
  <2>1. /\ h.at # "designing" /\ NextAttempt(h).at # "designing"
        /\ open' = (open \ {h}) \cup {NextAttempt(h)} /\ UNCHANGED <<now, delivered>>
    BY <1>5 DEF PushFails, NextAttempt, Resume, logVars, ScoutInv, ScoutTypeOK, Handler
  <2>2. Pending' = Pending
    BY <2>1, PendingStep
  <2>3. QED
    BY <2>1, <2>2 DEF Promise!vars, Pending, Deliveries
<1>6. QED
  BY <1>1, <1>2, <1>3, <1>4, <1>5 DEF HandlerStep

LEMMA ShownForgotten ==
  ASSUME NEW d \in Delivery
  PROVE  Shown([d EXCEPT !.forgotten = TRUE]) = Promise!Forgotten(Shown(d))
<1> DEFINE e == [d EXCEPT !.forgotten = TRUE]
<1>1. /\ e.id = d.id /\ e.event = d.event /\ e.checked = d.checked
      /\ e.at = d.at /\ e.forgotten = TRUE
  BY DEF Delivery
<1> HIDE DEF e
<1>2. Shown(e) = [id |-> d.id, event |-> d.event, checked |-> d.checked,
                  at |-> d.at, forgotten |-> TRUE]
  BY <1>1 DEF Shown
<1>3. Promise!Forgotten(Shown(d))
        = [id |-> d.id, event |-> d.event, checked |-> d.checked,
           at |-> d.at, forgotten |-> TRUE]
  BY DEF Shown, Promise!Forgotten
<1>4. QED
  BY <1>2, <1>3 DEF e

LEMMA DeliveriesForgotten ==
  ASSUME delivered \subseteq Delivery,
         delivered' = {[d EXCEPT !.forgotten = TRUE] : d \in delivered}
  PROVE  Deliveries' = {Promise!Forgotten(d) : d \in Deliveries}
<1>1. ASSUME NEW y \in Deliveries'
      PROVE  \E d \in Deliveries : y = Promise!Forgotten(d)
  <2>1. PICK d \in delivered : y = Shown([d EXCEPT !.forgotten = TRUE])
    BY DEF Deliveries
  <2>2. Shown(d) \in Deliveries /\ y = Promise!Forgotten(Shown(d))
    BY <2>1, ShownForgotten DEF Deliveries
  <2>3. QED
    BY <2>2
<1>2. ASSUME NEW z \in Deliveries
      PROVE  Promise!Forgotten(z) \in Deliveries'
  <2>1. PICK d \in delivered : z = Shown(d)
    BY DEF Deliveries
  <2>2. [d EXCEPT !.forgotten = TRUE] \in delivered'
    OBVIOUS
  <2>3. Promise!Forgotten(z) = Shown([d EXCEPT !.forgotten = TRUE])
    BY <2>1, ShownForgotten
  <2>4. QED
    BY <2>2, <2>3 DEF Deliveries
<1>3. QED
  BY <1>1, <1>2

LEMMA PromiseStep == ScoutInv /\ [ScoutNext]_scoutVars => [Promise!Next]_(Promise!vars)
<1> SUFFICES ASSUME ScoutInv, [ScoutNext]_scoutVars
             PROVE  [Promise!Next]_(Promise!vars)
  OBVIOUS
<1>1. ASSUME NEW c \in Calls, NEW e \in Events, Turned(c, e)
      PROVE  UNCHANGED Promise!vars
  BY <1>1 DEF Turned, logVars, Promise!vars
<1>2. ASSUME NEW c \in Calls, NEW e \in Events, Taken(c, e)
      PROVE  UNCHANGED Promise!vars
  BY <1>2 DEF Taken, logVars, Promise!vars
<1>3. ASSUME \/ \E s \in _seen_events : WindowPasses(s)
             \/ UNCHANGED scoutVars
      PROVE  UNCHANGED Promise!vars
  BY <1>3 DEF WindowPasses, scoutVars, logVars, Promise!vars
<1>4. CASE Tick
  BY <1>4 DEF Tick, logVars, Promise!Next, Promise!TimePasses
<1>5. CASE ScoutRestart
  <2>1. open' = {} /\ UNCHANGED now
    BY <1>5 DEF ScoutRestart
  <2>3. Deliveries' = {Promise!Forgotten(d) : d \in Deliveries}
    BY <1>5, DeliveriesForgotten DEF ScoutRestart, ScoutInv, ScoutTypeOK
  <2>2. Pending' = {}
    BY <2>1 DEF Pending
  <2>4. Promise!Forget
    BY <2>1, <2>2, <2>3 DEF Promise!Forget, Deliveries
  <2>5. QED
    BY <2>4 DEF Promise!Next
<1>6. QED
  BY <1>1, <1>2, <1>3, <1>4, <1>5, PromiseHandlerStep DEF ScoutNext

(* Scout implements DeliveryPromise: whatever overlaps, is retried, pruned *)
(* or forgotten, an offer goes out only on a decision that respects every  *)
(* delivery on record when it was taken.                                   *)
THEOREM ScoutImplementsPromise == ScoutSpec => ImplementsPromise
<1>1. ScoutInit => Promise!Init
  BY ScoutAssumption DEF ScoutInit, Promise!Init
<1>2. QED
  BY <1>1, ScoutInvariant, PromiseStep, PTL DEF ScoutSpec, ImplementsPromise, Promise!Spec

(* What a member has of it: among the deliveries on record and the         *)
(* handlers that await the Designer with a yes of can_deliver, one that    *)
(* decided in a tick after a delivery did so outside its windows.          *)
Worth == INSTANCE DeliveryPromiseProofs
           WITH pending   <- {Decision(h) : h \in {g \in open : g.at = "designing"}},
                delivered <- {Shown(d) : d \in delivered}

THEOREM ScoutDecisionsAreApart == ScoutSpec => []Worth!LateDecisionsAreApart
<1>1. Promise!Init => Worth!Init
  BY DEF Promise!Init, Worth!Init
<1>2. [Promise!Next]_(Promise!vars) => [Worth!Next]_(Worth!vars)
  BY DEF Promise!Next, Promise!vars, Promise!Decide, Promise!MayDecide, Promise!History,
         Promise!Deliver, Promise!GiveUp, Promise!TimePasses, Promise!Forget, Promise!Forgotten,
         Worth!Next, Worth!vars, Worth!Decide, Worth!MayDecide, Worth!History,
         Worth!Deliver, Worth!GiveUp, Worth!TimePasses, Worth!Forget, Worth!Forgotten
<1>3. Promise!Spec => Worth!Spec
  BY <1>1, <1>2, PTL DEF Promise!Spec, Worth!Spec
<1>4. QED
  BY <1>3, ScoutImplementsPromise, Worth!PromiseSpacesDecisions, PTL DEF ImplementsPromise

===============================================================================
