-------------------------- MODULE ContextScoringProofs --------------------------
(***************************************************************************)
(* Theorems about ContextScoring, for any purchases, members, stores and   *)
(* weather, and any threshold.                                             *)
(***************************************************************************)
EXTENDS ContextScoring, SequenceTheorems, TLAPS

-------------------------------------------------------------------------------
(* The factors stay within the maxima of the docstring.                    *)
LEMMA PurchaseValueRange ==
  ASSUME NEW a \in Nat
  PROVE  _score_purchase_value(a) \in 0 .. 20
BY DEF _score_purchase_value

LEMMA ProximityRange == \A stores : _score_proximity(stores) \in 0 .. 25
BY DEF _score_proximity

LEMMA FrequencyRange ==
  ASSUME NEW m \in Profile \cup {None}
  PROVE  /\ _score_frequency(m) \in 0 .. 15
         /\ m # None => _score_frequency(m) >= 3
<1>1. CASE m = None
  BY <1>1 DEF _score_frequency
<1>2. CASE m # None
  <2> DEFINE days == m.last_ctc_purchase_days_ago
             base == Engagement(m.purchase_count_90_days)
  <2>1. base \in {3, 7, 10, 15}
    BY DEF Engagement
  <2>2. _score_frequency(m) = IF days # None /\ days <= 7 THEN Least(base + 3, 15) ELSE base
    BY <1>2 DEF _score_frequency
  <2> HIDE DEF days, base
  <2>3. QED
    BY <1>2, <2>1, <2>2 DEF Least
<1>3. QED
  BY <1>1, <1>2

LEMMA CategoryRange == \A e : _score_category_affinity(e) \in 0 .. 20
BY DEF _score_category_affinity, _CATEGORY_AFFINITY

LEMMA CrosssellRange == \A e : _score_partner_crosssell(e) \in 0 .. 15
BY DEF _score_partner_crosssell, _PARTNER_CROSSSELL_SCORES

(* No weather is worth no more than any weather.                           *)
LEMMA WeatherRange ==
  /\ \A w : _score_weather(w) \in 5 .. 10
  /\ _score_weather(None) = 5
BY DEF _score_weather, Harshness

LEMMA TimeRange == \A e : _score_time_alignment(e) \in 0 .. 5
BY DEF _score_time_alignment, Least

-------------------------------------------------------------------------------
(* The total.                                                              *)
LEMMA ClampProperties ==
  ASSUME NEW m \in Int, NEW n \in Int
  PROVE  /\ Clamp(m) \in 0 .. 100
         /\ m <= n => Clamp(m) <= Clamp(n)
         /\ m <= n + 2 => Clamp(m) <= Clamp(n) + 2
BY DEF Clamp, Least

LEMMA BreakdownType ==
  ASSUME NEW e, e.amount \in Nat, NEW m \in Profile \cup {None}, NEW s, NEW w
  PROVE  breakdown(e, m, s, w) \in Breakdown
BY PurchaseValueRange, ProximityRange, FrequencyRange, CategoryRange, CrosssellRange,
   WeatherRange, TimeRange DEF breakdown, Breakdown

LEMMA SumType == \A b \in Breakdown : Sum(b) \in Nat
BY DEF Breakdown, Sum

LEMMA ScoreType ==
  ASSUME NEW e, e.amount \in Nat, NEW m \in Profile \cup {None}, NEW s, NEW w
  PROVE  score(e, m, s, w) \in ContextScore
<1> DEFINE b == breakdown(e, m, s, w)
<1>1. b \in Breakdown
  BY BreakdownType
<1> HIDE DEF b
<1>2. Sum(b) \in Nat
  BY <1>1, SumType
<1>3. Clamp(Sum(b)) \in 0 .. 100 /\ (Clamp(Sum(b)) >= Threshold) \in BOOLEAN
  BY <1>2, ClampProperties
<1> HIDE DEF b
<1>4. [total |-> Clamp(Sum(b)), breakdown |-> b,
       should_trigger |-> Clamp(Sum(b)) >= Threshold] \in ContextScore
  BY <1>1, <1>3 DEF ContextScore
<1>5. QED
  BY <1>4 DEF score, b

-------------------------------------------------------------------------------
(* The score is that of the event and of what the lookups gave.            *)
ScoringInv ==
  /\ ScoringTypeOK
  /\ scored # None => /\ running = {}
                      /\ scored = score(event, member_known, stores_known, weather_known)

LEMMA KnownType ==
  ASSUME ScoringTypeOK
  PROVE  /\ event.amount \in Nat
         /\ truth.member \in Profile /\ truth.member # None
         /\ member_known \in Profile \cup {None}
         /\ truth.weather # None
BY ScoringAssumption, NoneAssumption DEF ScoringTypeOK, Event, member_known

LEMMA InitInv == ScoringInit => ScoringInv
BY DEF ScoringInit, ScoringInv, ScoringTypeOK

LEMMA StepInv == ScoringInv /\ [ScoringNext]_scoringVars => ScoringInv'
<1> SUFFICES ASSUME ScoringInv, [ScoringNext]_scoringVars
             PROVE  ScoringInv'
  OBVIOUS
<1>1. ASSUME NEW l \in running, LookupAnswers(l) \/ LookupFails(l)
      PROVE  ScoringInv'
  BY <1>1 DEF LookupAnswers, LookupFails, ScoringInv, ScoringTypeOK
<1>2. CASE Scored
  <2>1. score(event, member_known, stores_known, weather_known) \in ContextScore
    BY KnownType, ScoreType DEF ScoringInv
  <2>2. QED
    BY <1>2, <2>1 DEF Scored, ScoringInv, ScoringTypeOK, member_known, stores_known, weather_known
<1>3. CASE UNCHANGED scoringVars
  BY <1>3 DEF scoringVars, ScoringInv, ScoringTypeOK, member_known, stores_known, weather_known
<1>4. QED
  BY <1>1, <1>2, <1>3 DEF ScoringNext

THEOREM ScoringInvariant == ScoringSpec => []ScoringInv
BY InitInv, StepInv, PTL DEF ScoringSpec

(* The total is a score of 0 to 100 and the factors keep to their maxima,  *)
(* though these add up to 110.                                             *)
THEOREM ScoringTypeCorrect == ScoringSpec => []ScoringTypeOK
BY ScoringInvariant, PTL DEF ScoringInv

-------------------------------------------------------------------------------
(* Scores are compared by the sums they are the clamps of.                 *)
LEMMA ScoreOf ==
  ASSUME NEW e, e.amount \in Nat, NEW m \in Profile \cup {None}, NEW s, NEW w,
         NEW p, p = Sum(breakdown(e, m, s, w))
  PROVE  /\ p \in Nat
         /\ score(e, m, s, w).total = Clamp(p)
         /\ score(e, m, s, w).should_trigger = (Clamp(p) >= Threshold)
<1>1. p \in Nat
  BY BreakdownType, SumType
<1>2. QED
  BY <1>1 DEF score

LEMMA ClampCompare ==
  ASSUME NEW p \in Nat, NEW q \in Nat
  PROVE  /\ p <= q => /\ Clamp(p) <= Clamp(q)
                      /\ Clamp(p) >= Threshold => Clamp(q) >= Threshold
         /\ p <= q + 2 => Clamp(p) <= Clamp(q) + 2
<1>1. Threshold \in Nat
  BY ScoringAssumption
<1>2. Clamp(p) \in 0 .. 100 /\ Clamp(q) \in 0 .. 100
  BY ClampProperties
<1>3. /\ p <= q => Clamp(p) <= Clamp(q)
      /\ p <= q + 2 => Clamp(p) <= Clamp(q) + 2
  BY ClampProperties
<1>4. QED
  BY <1>1, <1>2, <1>3

(* What stands in for a failed lookup is worth no more than an answer,     *)
(* but for the profile of a member who buys little.                        *)
LEMMA DefaultsAreLow ==
  ASSUME ScoringTypeOK
  PROVE  /\ _score_frequency(member_known) <= _score_frequency(truth.member) + 2
         /\ "member" \notin failed => member_known = truth.member
         /\ _score_proximity(stores_known) <= _score_proximity(truth.stores)
         /\ _score_weather(weather_known) <= _score_weather(truth.weather)
<1>1. /\ _score_frequency(None) = 5
      /\ _score_frequency(truth.member) \in 0 .. 15 /\ _score_frequency(truth.member) >= 3
  BY KnownType, FrequencyRange DEF _score_frequency
<1>2. _score_frequency(member_known) <= _score_frequency(truth.member) + 2
  BY <1>1 DEF member_known
<1>3. _score_proximity(<< >>) = 0 /\ _score_proximity(truth.stores) \in 0 .. 25
  BY ProximityRange DEF _score_proximity
<1>4. _score_proximity(stores_known) <= _score_proximity(truth.stores)
  BY <1>3 DEF stores_known
<1>5. _score_weather(weather_known) <= _score_weather(truth.weather)
  BY WeatherRange DEF weather_known
<1>6. QED
  BY <1>2, <1>4, <1>5 DEF member_known

LEMMA SumOf ==
  ASSUME NEW e, NEW m, NEW s, NEW w
  PROVE  Sum(breakdown(e, m, s, w))
           = _score_purchase_value(e.amount) + _score_proximity(s) + _score_frequency(m)
             + _score_category_affinity(e) + _score_partner_crosssell(e)
             + _score_weather(w) + _score_time_alignment(e)
BY DEF Sum, breakdown

LEMMA SumsCompare ==
  ASSUME NEW v \in Int, NEW p \in Int, NEW f \in Int, NEW w \in Int,
         NEW q \in Int, NEW g \in Int, NEW x \in Int,
         NEW c \in Int, NEW b \in Int, NEW t \in Int,
         p <= q, w <= x
  PROVE  /\ f <= g => v + p + f + c + b + w + t <= v + q + g + c + b + x + t
         /\ f <= g + 2 => v + p + f + c + b + w + t <= v + q + g + c + b + x + t + 2
OBVIOUS

LEMMA SumsGrow ==
  ASSUME NEW v \in Int, NEW p \in Int, NEW f \in Int, NEW w \in Int,
         NEW y \in Int, NEW q \in Int, NEW c \in Int, NEW b \in Int, NEW t \in Int,
         v <= y, p <= q
  PROVE  v + p + f + c + b + w + t <= y + q + f + c + b + w + t
OBVIOUS

(* A failed lookup does not make an offer.                                 *)
THEOREM ScoringFailureNeverHelps == ScoringSpec => []FailureNeverHelps
<1>1. ScoringInv => FailureNeverHelps
  <2> SUFFICES ASSUME ScoringInv, scored # None
               PROVE  FailureNeverHelps
    BY DEF FailureNeverHelps
  <2> DEFINE known == Sum(breakdown(event, member_known, stores_known, weather_known))
             full  == Sum(breakdown(event, truth.member, truth.stores, truth.weather))
  <2>1. /\ _score_purchase_value(event.amount) \in Int
        /\ _score_category_affinity(event) \in Int
        /\ _score_partner_crosssell(event) \in Int
        /\ _score_time_alignment(event) \in Int
    BY KnownType, PurchaseValueRange, CategoryRange, CrosssellRange, TimeRange DEF ScoringInv
  <2>2. /\ _score_frequency(member_known) \in Int /\ _score_frequency(truth.member) \in Int
        /\ _score_proximity(stores_known) \in Int /\ _score_proximity(truth.stores) \in Int
        /\ _score_weather(weather_known) \in Int /\ _score_weather(truth.weather) \in Int
    BY KnownType, FrequencyRange, ProximityRange, WeatherRange DEF ScoringInv
  <2>3. /\ _score_frequency(member_known) <= _score_frequency(truth.member) + 2
        /\ _score_proximity(stores_known) <= _score_proximity(truth.stores)
        /\ _score_weather(weather_known) <= _score_weather(truth.weather)
    BY DefaultsAreLow DEF ScoringInv
  <2>4. /\ known = _score_purchase_value(event.amount) + _score_proximity(stores_known)
                   + _score_frequency(member_known) + _score_category_affinity(event)
                   + _score_partner_crosssell(event) + _score_weather(weather_known)
                   + _score_time_alignment(event)
        /\ full  = _score_purchase_value(event.amount) + _score_proximity(truth.stores)
                   + _score_frequency(truth.member) + _score_category_affinity(event)
                   + _score_partner_crosssell(event) + _score_weather(truth.weather)
                   + _score_time_alignment(event)
    BY SumOf
  <2>5. /\ event.amount \in Nat
        /\ member_known \in Profile \cup {None} /\ truth.member \in Profile \cup {None}
    BY KnownType DEF ScoringInv
  <2>6. /\ known \in Nat /\ scored.total = Clamp(known)
        /\ scored.should_trigger = (Clamp(known) >= Threshold)
    BY <2>5, ScoreOf DEF ScoringInv
  <2>7. /\ full \in Nat /\ Informed.total = Clamp(full)
        /\ Informed.should_trigger = (Clamp(full) >= Threshold)
    BY <2>5, ScoreOf DEF Informed
  <2> HIDE DEF known, full
  <2>8. known <= full + 2
    BY <2>1, <2>2, <2>3, <2>4, SumsCompare
  <2>9. "member" \notin failed => known <= full
    <3>1. "member" \notin failed => _score_frequency(member_known) = _score_frequency(truth.member)
      BY DEF member_known
    <3>2. QED
      BY <2>1, <2>2, <2>3, <2>4, <3>1, SumsCompare
  <2>10. QED
    BY <2>6, <2>7, <2>8, <2>9, ClampCompare DEF FailureNeverHelps
<1>2. QED
  BY <1>1, ScoringInvariant, PTL

LEMMA PurchaseValueGrows ==
  ASSUME NEW a \in Nat, NEW b \in Nat, a <= b
  PROVE  _score_purchase_value(a) <= _score_purchase_value(b)
BY DEF _score_purchase_value

(* A store that is nearer than the first one, or the only one.             *)
LEMMA ProximityGrows ==
  ASSUME NEW s \in Seq(Nat), NEW d \in Nat, s = << >> \/ d <= Head(s)
  PROVE  _score_proximity(s) <= _score_proximity(<<d>>)
<1>1. <<d>> # << >> /\ Head(<<d>>) = d
  OBVIOUS
<1>2. CASE s = << >>
  BY <1>2, ProximityRange DEF _score_proximity
<1>3. CASE s # << >>
  <2>1. Head(s) \in Nat /\ d <= Head(s)
    BY <1>3, HeadTailProperties
  <2>2. QED
    BY <1>1, <1>3, <2>1 DEF _score_proximity
<1>4. QED
  BY <1>2, <1>3

(* A dearer purchase or a nearer store never loses an offer.               *)
THEOREM ScoringMoreNeverHurts == ScoringSpec => []MoreNeverHurts
<1>1. ScoringInv => MoreNeverHurts
  <2> SUFFICES ASSUME ScoringInv, scored # None,
                      NEW a \in Amounts, NEW d \in Distances,
                      a >= event.amount,
                      stores_known = << >> \/ d <= Head(stores_known)
               PROVE  LET other == score([event EXCEPT !.amount = a], member_known, <<d>>, weather_known)
                      IN /\ other.total >= scored.total
                         /\ scored.should_trigger => other.should_trigger
    BY DEF MoreNeverHurts
  <2> DEFINE e == [event EXCEPT !.amount = a]
             p == Sum(breakdown(event, member_known, stores_known, weather_known))
             q == Sum(breakdown(e, member_known, <<d>>, weather_known))
  <2>1. /\ e.amount = a /\ e.category = event.category
        /\ e.store_type = event.store_type /\ e.partner_brand = event.partner_brand
        /\ e.hour = event.hour /\ e.weekday = event.weekday
    BY DEF ScoringInv, ScoringTypeOK, Event
  <2> HIDE DEF e
  <2>2. a \in Nat /\ d \in Nat /\ event.amount \in Nat
        /\ member_known \in Profile \cup {None}
    BY ScoringAssumption, KnownType DEF ScoringInv
  <2>3. stores_known \in Seq(Nat)
    <3>1. truth.stores \in Seq(Distances) /\ Distances \subseteq Nat
      BY ScoringAssumption DEF ScoringInv, ScoringTypeOK
    <3>2. truth.stores \in Seq(Nat)
      BY <3>1, SeqMonotonic
    <3>3. QED
      BY <3>2 DEF stores_known
  <2>4. /\ _score_purchase_value(event.amount) <= _score_purchase_value(a)
        /\ _score_purchase_value(event.amount) \in 0 .. 20 /\ _score_purchase_value(a) \in 0 .. 20
    BY <2>2, PurchaseValueGrows, PurchaseValueRange
  <2>5. /\ _score_proximity(stores_known) <= _score_proximity(<<d>>)
        /\ _score_proximity(stores_known) \in 0 .. 25 /\ _score_proximity(<<d>>) \in 0 .. 25
    BY <2>2, <2>3, ProximityGrows, ProximityRange
  <2>6. /\ _score_category_affinity(e) = _score_category_affinity(event)
        /\ _score_partner_crosssell(e) = _score_partner_crosssell(event)
        /\ _score_time_alignment(e) = _score_time_alignment(event)
    BY <2>1 DEF _score_category_affinity, _score_partner_crosssell, _score_time_alignment
  <2>7. /\ _score_frequency(member_known) \in 0 .. 15 /\ _score_weather(weather_known) \in 5 .. 10
        /\ _score_category_affinity(event) \in 0 .. 20
        /\ _score_partner_crosssell(event) \in 0 .. 15 /\ _score_time_alignment(event) \in 0 .. 5
    BY <2>2, FrequencyRange, WeatherRange, CategoryRange, CrosssellRange, TimeRange
  <2>8. /\ p = _score_purchase_value(event.amount) + _score_proximity(stores_known)
               + _score_frequency(member_known) + _score_category_affinity(event)
               + _score_partner_crosssell(event) + _score_weather(weather_known)
               + _score_time_alignment(event)
        /\ q = _score_purchase_value(e.amount) + _score_proximity(<<d>>)
               + _score_frequency(member_known) + _score_category_affinity(e)
               + _score_partner_crosssell(e) + _score_weather(weather_known)
               + _score_time_alignment(e)
    BY SumOf
  <2>9. /\ p \in Nat /\ scored.total = Clamp(p)
        /\ scored.should_trigger = (Clamp(p) >= Threshold)
    BY <2>2, ScoreOf DEF ScoringInv
  <2>10. /\ q \in Nat
         /\ score(e, member_known, <<d>>, weather_known).total = Clamp(q)
         /\ score(e, member_known, <<d>>, weather_known).should_trigger = (Clamp(q) >= Threshold)
    BY <2>1, <2>2, ScoreOf
  <2> HIDE DEF p, q
  <2>11. p <= q
    <3>1. q = _score_purchase_value(a) + _score_proximity(<<d>>)
              + _score_frequency(member_known) + _score_category_affinity(event)
              + _score_partner_crosssell(event) + _score_weather(weather_known)
              + _score_time_alignment(event)
      BY <2>1, <2>6, <2>8
    <3>2. /\ _score_purchase_value(event.amount) \in Int /\ _score_purchase_value(a) \in Int
          /\ _score_proximity(stores_known) \in Int /\ _score_proximity(<<d>>) \in Int
      BY <2>4, <2>5
    <3>3. /\ _score_frequency(member_known) \in Int /\ _score_weather(weather_known) \in Int
          /\ _score_category_affinity(event) \in Int
          /\ _score_partner_crosssell(event) \in Int /\ _score_time_alignment(event) \in Int
      BY <2>7
    <3>4. /\ _score_purchase_value(event.amount) <= _score_purchase_value(a)
          /\ _score_proximity(stores_known) <= _score_proximity(<<d>>)
      BY <2>4, <2>5
    <3>5. p = _score_purchase_value(event.amount) + _score_proximity(stores_known)
              + _score_frequency(member_known) + _score_category_affinity(event)
              + _score_partner_crosssell(event) + _score_weather(weather_known)
              + _score_time_alignment(event)
      BY <2>8
    <3>6. QED
      BY <3>1, <3>2, <3>3, <3>4, <3>5, SumsGrow
  <2>12. Clamp(p) <= Clamp(q) /\ (Clamp(p) >= Threshold => Clamp(q) >= Threshold)
    BY <2>9, <2>10, <2>11, ClampCompare
  <2>13. Clamp(p) \in 0 .. 100 /\ Clamp(q) \in 0 .. 100
    BY <2>9, <2>10, ClampProperties
  <2>14. QED
    BY <2>9, <2>10, <2>12, <2>13 DEF e
<1>2. QED
  BY <1>1, ScoringInvariant, PTL

===============================================================================
