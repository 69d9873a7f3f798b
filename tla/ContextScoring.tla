----------------------------- MODULE ContextScoring -----------------------------
(***************************************************************************)
(* How Scout scores a purchase: the concurrent lookups of                  *)
(* services/purchase_event_handler.py, each of which may fail, and the     *)
(* seven factors of services/context_scoring_service.py.                   *)
(*                                                                         *)
(* The services that are looked up are external.  Amounts are in dollars,  *)
(* distances in metres, temperatures in degrees; every limit in the code   *)
(* is whole in these units, and so is every score.  Categories and brands  *)
(* are meant after lower() and replace(): _ stands for blank and -, and a  *)
(* missing one for any that has no entry.  PurchaseEventPayload makes      *)
(* every timestamp a datetime, so its hour and weekday are always known.   *)
(***************************************************************************)
EXTENDS Integers, Sequences

CONSTANTS
  Amounts, Categories, Brands, Hours,       \* of purchase events
  Counts, DaysAgo,                          \* of members
  Distances, StoreLists,                    \* of stores, and the lists of them
  Conditions, Temperatures,                 \* of the weather
  None,                                     \* None
  Threshold                                 \* PURCHASE_TRIGGER_SCORE_THRESHOLD

ASSUME ScoringAssumption ==
  /\ {Amounts, Counts, Distances} \subseteq SUBSET Nat
  /\ StoreLists \subseteq Seq(Distances)
  /\ Hours \subseteq 0 .. 23
  /\ DaysAgo \subseteq Int /\ None \notin DaysAgo
  /\ Temperatures \subseteq Int
  /\ Categories \cup Brands \cup Conditions \subseteq STRING
  /\ Threshold \in Nat

Event   == [amount : Amounts, category : Categories, store_type : {"ctc_owned", "partner"},
            partner_brand : Brands, hour : Hours, weekday : 0 .. 6]

Profile == [purchase_count_90_days : Counts, last_ctc_purchase_days_ago : DaysAgo \cup {None}]

Weather == [is_adverse : BOOLEAN, condition : Conditions, temperature_c : Temperatures]

Lookups == {"member", "stores", "weather"}

ASSUME NoneAssumption == None \notin Profile \cup Weather

VARIABLES
  event,     \* the purchase
  truth,     \* what the three services would answer
  running,   \* the lookups under way
  failed,    \* those that raised
  scored     \* the ContextScore, None until it is there

scoringVars == <<event, truth, running, failed, scored>>

-------------------------------------------------------------------------------
(* The factors.                                                            *)

(* Mutant: two steps of the scale are swapped.                             *)
_score_purchase_value_Swapped(amount) ==
  IF amount >= 200 THEN 20 ELSE IF amount >= 100 THEN 15 ELSE
  IF amount >= 50 THEN 7 ELSE IF amount >= 25 THEN 10 ELSE 3

_score_purchase_value(amount) ==
  IF amount >= 200 THEN 20 ELSE IF amount >= 100 THEN 15 ELSE
  IF amount >= 50 THEN 10 ELSE IF amount >= 25 THEN 7 ELSE 3

(* The first store is taken for the nearest.                               *)
_score_proximity(stores) ==
  IF stores = << >> THEN 0 ELSE
  LET d == Head(stores)
  IN IF d < 500 THEN 25 ELSE IF d < 1000 THEN 20 ELSE
     IF d < 1500 THEN 15 ELSE IF d < 2000 THEN 10 ELSE 0

Engagement(count) ==
  IF count >= 10 THEN 15 ELSE IF count >= 5 THEN 10 ELSE
  IF count >= 2 THEN 7 ELSE 3

Least(a, b) == IF a <= b THEN a ELSE b

_score_frequency(member) ==
  IF member = None THEN 5 ELSE
  LET days == member.last_ctc_purchase_days_ago
      base == Engagement(member.purchase_count_90_days)
  IN IF days # None /\ days <= 7 THEN Least(base + 3, 15) ELSE base

_CATEGORY_AFFINITY(category) ==
  CASE category \in {"sporting_goods", "outdoor"}     -> 20
    [] category = "hardware"                         -> 18
    [] category = "fitness"                          -> 17
    [] category = "automotive"                       -> 16
    [] category \in {"food_beverage", "home_garden"} -> 15
    [] category = "apparel"                          -> 14
    [] category = "electronics"                      -> 12
    [] OTHER                                         -> 8

_score_category_affinity(e) == _CATEGORY_AFFINITY(e.category)

_PARTNER_CROSSSELL_SCORES(brand) ==
  CASE brand \in {"sport_chek", "marks", "canadian_tire"} -> 15
    [] brand = "lequipeur"                               -> 13
    [] brand \in {"party_city", "tim_hortons"}            -> 12
    [] brand = "westside"                                -> 11
    [] brand = "homegym"                                 -> 10
    [] OTHER                                             -> 5

_score_partner_crosssell(e) ==
  IF e.store_type = "ctc_owned" THEN 15 ELSE _PARTNER_CROSSSELL_SCORES(e.partner_brand)

Harshness(weather) ==
  IF weather.is_adverse \/ weather.condition \in {"snow", "freezing_rain", "blizzard"} THEN 10
  ELSE IF weather.condition \in {"rain", "cold"} \/ weather.temperature_c < 0 THEN 8 ELSE 5

(* Mutant: weather that is not known is taken for the worst.               *)
_score_weather_Worst(weather) == IF weather = None THEN 10 ELSE Harshness(weather)

_score_weather(weather) == IF weather = None THEN 5 ELSE Harshness(weather)

_score_time_alignment(e) ==
  LET peak == IF e.hour \in 10 .. 18 THEN 5 ELSE 2
  IN IF e.weekday >= 5 THEN Least(peak + 2, 5) ELSE peak

-------------------------------------------------------------------------------
(* score.                                                                  *)
breakdown(e, member, stores, weather) ==
  [purchase_value    |-> _score_purchase_value(e.amount),
   proximity         |-> _score_proximity(stores),
   frequency         |-> _score_frequency(member),
   category_affinity |-> _score_category_affinity(e),
   partner_crosssell |-> _score_partner_crosssell(e),
   weather           |-> _score_weather(weather),
   time_alignment    |-> _score_time_alignment(e)]

Sum(b) == b.purchase_value + b.proximity + b.frequency + b.category_affinity
          + b.partner_crosssell + b.weather + b.time_alignment

(* Mutant: the total is not clamped.                                       *)
Clamp_Not(n) == n

Clamp(n) == IF n < 0 THEN 0 ELSE Least(n, 100)

score(e, member, stores, weather) ==
  LET b == breakdown(e, member, stores, weather)
  IN [total |-> Clamp(Sum(b)), breakdown |-> b, should_trigger |-> Clamp(Sum(b)) >= Threshold]

-------------------------------------------------------------------------------
(* PurchaseEventHandler.handle: asyncio.gather waits for all three, and    *)
(* what a lookup raises is its result.                                     *)
ScoringInit ==
  /\ event \in Event
  /\ truth \in [member : Profile, stores : StoreLists, weather : Weather]
  /\ running = Lookups
  /\ failed = {}
  /\ scored = None

LookupAnswers(l) ==
  /\ running' = running \ {l}
  /\ UNCHANGED <<event, truth, failed, scored>>

LookupFails(l) ==
  /\ running' = running \ {l}
  /\ failed' = failed \cup {l}
  /\ UNCHANGED <<event, truth, scored>>

(* EnrichedContext: a default stands in for what a failed lookup knew.     *)
member_known  == IF "member"  \in failed THEN None   ELSE truth.member
stores_known  == IF "stores"  \in failed THEN << >>  ELSE truth.stores
weather_known == IF "weather" \in failed THEN None   ELSE truth.weather

Scored ==
  /\ running = {} /\ scored = None
  /\ scored' = score(event, member_known, stores_known, weather_known)
  /\ UNCHANGED <<event, truth, running, failed>>

ScoringNext ==
  \/ \E l \in running : LookupAnswers(l) \/ LookupFails(l)
  \/ Scored

ScoringSpec == ScoringInit /\ [][ScoringNext]_scoringVars

-------------------------------------------------------------------------------
(* "Scores purchase context 0-100 across 7 factors", each within the       *)
(* maximum the docstring gives it, and PurchaseContextRequest accepts the  *)
(* total.                                                                  *)
Breakdown == [purchase_value : 0 .. 20, proximity : 0 .. 25, frequency : 0 .. 15,
              category_affinity : 0 .. 20, partner_crosssell : 0 .. 15,
              weather : 0 .. 10, time_alignment : 0 .. 5]

ContextScore == [total : 0 .. 100, breakdown : Breakdown, should_trigger : BOOLEAN]

ScoringTypeOK ==
  /\ event \in Event
  /\ truth \in [member : Profile, stores : StoreLists, weather : Weather]
  /\ running \subseteq Lookups /\ failed \subseteq Lookups \ running
  /\ scored \in ContextScore \cup {None}

(* What the purchase would score had every lookup answered.                *)
Informed == score(event, truth.member, truth.stores, truth.weather)

(* "Handle individual failures gracefully": whichever lookups fail, the    *)
(* defaults that handle puts in their place do not make score trigger an   *)
(* offer that the answers would not have; only the profile of a member who *)
(* buys little may be worth less than no profile, and then by two points.  *)
FailureNeverHelps ==
  scored # None =>
    /\ "member" \notin failed => scored.total <= Informed.total
    /\ "member" \notin failed /\ scored.should_trigger => Informed.should_trigger
    /\ scored.total <= Informed.total + 2

(* The factors are scales: with all else equal a dearer purchase or a      *)
(* nearer store never turns an offer down that was made before.            *)
MoreNeverHurts ==
  scored # None =>
    \A a \in Amounts, d \in Distances :
      LET other == score([event EXCEPT !.amount = a], member_known, <<d>>, weather_known)
      IN /\ a >= event.amount
         /\ stores_known = << >> \/ d <= Head(stores_known)
         => /\ other.total >= scored.total
            /\ scored.should_trigger => other.should_trigger

===============================================================================
