---------------------------- MODULE ClaudeApiProofs ----------------------------
(***************************************************************************)
(* Theorems about ClaudeApi, for any requests and contexts, any normal     *)
(* form, any limit of the cache and any TTL, with or without restarts; of  *)
(* the bounds on calls and clock nothing is assumed but that they are      *)
(* numbers.                                                                *)
(***************************************************************************)
EXTENDS ClaudeApi, SequenceTheorems, FiniteSetTheorems, TLAPS

-------------------------------------------------------------------------------
(* The dict of the cache.                                                  *)
OneEach(s) == \A i, j \in 1 .. Len(s) : s[i].key = s[j].key => i = j

(* Every entry of t is one of s.                                           *)
Within(t, s) == \A i \in 1 .. Len(t) : \E j \in 1 .. Len(s) : t[i] = s[j]

LEMMA SameInterval ==
  ASSUME NEW m \in Nat, NEW n \in Nat, 1 .. m = 1 .. n
  PROVE  m = n
<1>1. m > 0 => m \in 1 .. n
  OBVIOUS
<1>2. n > 0 => n \in 1 .. m
  OBVIOUS
<1>3. QED
  BY <1>1, <1>2

(* Deleting a key leaves the other entries.                                *)
LEMMA DropKeeps ==
  ASSUME NEW s \in Seq(Entry), NEW i \in 1 .. Len(s), OneEach(s)
  PROVE  /\ Drop(s, i) \in Seq(Entry) /\ Len(Drop(s, i)) = Len(s) - 1
         /\ OneEach(Drop(s, i)) /\ Within(Drop(s, i), s)
<1> DEFINE n == Len(s) - 1
           d == Drop(s, i)
<1>1. Len(s) \in Nat /\ n \in Nat /\ DOMAIN s = 1 .. Len(s)
  BY LenProperties
<1>2. ASSUME NEW j \in 1 .. n
      PROVE  /\ (IF j < i THEN j ELSE j + 1) \in 1 .. Len(s)
             /\ s[IF j < i THEN j ELSE j + 1] \in Entry
  <2>1. (IF j < i THEN j ELSE j + 1) \in 1 .. Len(s)
    BY <1>1
  <2>2. QED
    BY <2>1, ElementOfSeq
<1>3. d \in [1 .. n -> Entry]
  BY <1>2 DEF Drop
<1>4. d \in Seq(Entry)
  BY <1>1, <1>3, SeqDef
<1>5. Len(d) = n
  <2>1. Len(d) \in Nat /\ DOMAIN d = 1 .. Len(d)
    BY <1>4, LenProperties
  <2>2. DOMAIN d = 1 .. n
    BY <1>3
  <2> HIDE DEF d, n
  <2>3. QED
    BY <1>1, <2>1, <2>2, SameInterval
<1>6. \A j \in 1 .. n : d[j] = s[IF j < i THEN j ELSE j + 1]
  BY DEF Drop
<1> HIDE DEF d
<1>7. OneEach(d)
  BY <1>1, <1>2, <1>5, <1>6 DEF OneEach
<1>8. Within(d, s)
  BY <1>1, <1>2, <1>5, <1>6 DEF Within
<1>9. QED
  BY <1>4, <1>5, <1>7, <1>8 DEF d

(* Evicting the oldest insertion leaves the other entries.                 *)
LEMMA TailKeeps ==
  ASSUME NEW s \in Seq(Entry), s # << >>, OneEach(s)
  PROVE  /\ Tail(s) \in Seq(Entry) /\ Len(Tail(s)) = Len(s) - 1
         /\ OneEach(Tail(s)) /\ Within(Tail(s), s)
<1>1. /\ Tail(s) \in Seq(Entry) /\ Len(Tail(s)) = Len(s) - 1
      /\ \A i \in 1 .. Len(Tail(s)) : Tail(s)[i] = s[i + 1]
  BY HeadTailProperties
<1>2. Len(s) \in Nat
  BY LenProperties
<1>3. OneEach(Tail(s))
  BY <1>1, <1>2 DEF OneEach
<1>4. Within(Tail(s), s)
  BY <1>1, <1>2 DEF Within
<1>5. QED
  BY <1>1, <1>3, <1>4

(* Assigning to a key adds an entry only if there was none.                *)
LEMMA AssignKeeps ==
  ASSUME NEW s \in Seq(Entry), NEW e \in Entry, OneEach(s)
  PROVE  /\ Assign(s, e) \in Seq(Entry) /\ OneEach(Assign(s, e))
         /\ Len(Assign(s, e)) = IF At(s, e.key) = {} THEN Len(s) + 1 ELSE Len(s)
         /\ \A i \in 1 .. Len(Assign(s, e)) :
              Assign(s, e)[i] = e \/ \E j \in 1 .. Len(s) : Assign(s, e)[i] = s[j]
<1>1. Len(s) \in Nat /\ DOMAIN s = 1 .. Len(s)
  BY LenProperties
<1>2. \A i \in 1 .. Len(s) : s[i] \in Entry
  BY ElementOfSeq
<1>3. CASE At(s, e.key) = {}
  <2> DEFINE a == Append(s, e)
  <2>1. /\ a \in Seq(Entry) /\ Len(a) = Len(s) + 1
        /\ \A i \in 1 .. Len(s) : a[i] = s[i]
        /\ a[Len(s) + 1] = e
    BY AppendProperties
  <2>2. Assign(s, e) = a
    BY <1>3 DEF Assign
  <2>3. \A i \in 1 .. Len(s) : s[i].key # e.key
    BY <1>1, <1>3 DEF At
  <2> HIDE DEF a
  <2>4. OneEach(a)
    BY <1>1, <2>1, <2>3 DEF OneEach
  <2>5. \A i \in 1 .. Len(a) : a[i] = e \/ \E j \in 1 .. Len(s) : a[i] = s[j]
    BY <1>1, <2>1
  <2>6. QED
    BY <1>3, <2>1, <2>2, <2>4, <2>5
<1>4. CASE At(s, e.key) # {}
  <2> DEFINE a == [i \in 1 .. Len(s) |-> IF s[i].key = e.key THEN e ELSE s[i]]
  <2>1. Assign(s, e) = a
    BY <1>1, <1>4 DEF Assign
  <2>2. a \in [1 .. Len(s) -> Entry]
    BY <1>2
  <2>3. a \in Seq(Entry)
    BY <1>1, <2>2, SeqDef
  <2>4. Len(a) = Len(s)
    <3>1. Len(a) \in Nat /\ DOMAIN a = 1 .. Len(a)
      BY <2>3, LenProperties
    <3>2. DOMAIN a = 1 .. Len(s)
      BY <2>2
    <3> HIDE DEF a
    <3>3. QED
      BY <1>1, <3>1, <3>2, SameInterval
  <2>5. \A i \in 1 .. Len(s) : a[i] = IF s[i].key = e.key THEN e ELSE s[i]
    OBVIOUS
  <2> HIDE DEF a
  <2>6. \A i \in 1 .. Len(s) : a[i].key = s[i].key
    BY <2>5
  <2>7. OneEach(a)
    BY <2>4, <2>6 DEF OneEach
  <2>8. \A i \in 1 .. Len(a) : a[i] = e \/ \E j \in 1 .. Len(s) : a[i] = s[j]
    BY <2>4, <2>5
  <2>9. QED
    BY <1>4, <2>1, <2>3, <2>4, <2>7, <2>8
<1>5. QED
  BY <1>3, <1>4

-------------------------------------------------------------------------------
(* An entry made by t, for its key, with the time it has.                  *)
Made(e, t) ==
  /\ e.brief.subject \in Requests
  /\ Normal[e.brief.subject] = e.key
  /\ e.expires_at = e.brief.made + TTL
  /\ e.brief.made <= t

Fits(s, t) ==
  /\ s \in Seq(Entry)
  /\ Len(s) <= MaxSize
  /\ OneEach(s)
  /\ \A i \in 1 .. Len(s) : Made(s[i], t)

LEMMA FitsEmpty == \A t : Fits(<< >>, t)
BY EmptySeq, ClaudeAssumption DEF Fits, OneEach

LEMMA FitsLater ==
  ASSUME NEW s, NEW t \in Nat, Fits(s, t)
  PROVE  Fits(s, t + 1)
<1>1. \A i \in 1 .. Len(s) : s[i] \in Entry
  BY ElementOfSeq DEF Fits
<1>2. ASSUME NEW i \in 1 .. Len(s)
      PROVE  Made(s[i], t + 1)
  BY <1>1 DEF Fits, Made, Entry, Brief
<1>3. QED
  BY <1>2 DEF Fits

LEMMA FitsDrop ==
  ASSUME NEW s, NEW t \in Nat, Fits(s, t), NEW i \in DOMAIN s
  PROVE  Fits(Drop(s, i), t)
<1>1. s \in Seq(Entry) /\ OneEach(s) /\ Len(s) \in Nat /\ i \in 1 .. Len(s)
  BY LenProperties DEF Fits
<1>2. /\ Drop(s, i) \in Seq(Entry) /\ Len(Drop(s, i)) = Len(s) - 1
      /\ OneEach(Drop(s, i)) /\ Within(Drop(s, i), s)
  BY <1>1, DropKeeps
<1>3. Len(s) - 1 <= MaxSize
  BY <1>1, ClaudeAssumption DEF Fits
<1>4. \A j \in 1 .. Len(Drop(s, i)) : Made(Drop(s, i)[j], t)
  BY <1>2 DEF Within, Fits
<1>5. QED
  BY <1>2, <1>3, <1>4 DEF Fits

(* Storing keeps to the limit: it makes room exactly when the key is new.  *)
LEMMA FitsStore ==
  ASSUME Fits(_cache, now), NEW k \in Texts,
         NEW e \in Entry, e.key = k, Made(e, now)
  PROVE  Fits(Assign(MakeRoom(k), e), now)
<1> DEFINE m == MakeRoom(k)
           a == Assign(m, e)
<1>1. /\ _cache \in Seq(Entry) /\ OneEach(_cache) /\ Len(_cache) \in Nat
      /\ Len(_cache) <= MaxSize /\ MaxSize \in Nat \ {0}
      /\ DOMAIN _cache = 1 .. Len(_cache)
  BY LenProperties, ClaudeAssumption DEF Fits
<1>2. /\ m \in Seq(Entry) /\ OneEach(m) /\ Within(m, _cache)
      /\ Len(m) <= MaxSize /\ (At(m, k) = {} => Len(m) < MaxSize)
  <2>1. CASE Len(_cache) >= MaxSize /\ At(_cache, k) = {}
    <3>1. m = Tail(_cache)
      BY <2>1 DEF MakeRoom
    <3>2. _cache # << >>
      BY <1>1, <2>1, EmptySeq
    <3>3. QED
      BY <1>1, <3>1, <3>2, TailKeeps
  <2>2. CASE ~(Len(_cache) >= MaxSize /\ At(_cache, k) = {})
    <3>1. m = _cache
      BY <2>2 DEF MakeRoom
    <3>2. QED
      BY <1>1, <2>2, <3>1 DEF Within
  <2>3. QED
    BY <2>1, <2>2
<1> HIDE DEF m
<1>3. /\ a \in Seq(Entry) /\ OneEach(a)
      /\ Len(a) = IF At(m, e.key) = {} THEN Len(m) + 1 ELSE Len(m)
      /\ \A i \in 1 .. Len(a) : a[i] = e \/ \E j \in 1 .. Len(m) : a[i] = m[j]
  BY <1>2, AssignKeeps
<1>4. Len(m) \in Nat
  BY <1>2, LenProperties
<1> HIDE DEF a
<1>5. Len(a) <= MaxSize
  BY <1>1, <1>2, <1>3, <1>4
<1>6. \A i \in 1 .. Len(a) : Made(a[i], now)
  BY <1>2, <1>3 DEF Within, Fits
<1>7. QED
  BY <1>3, <1>5, <1>6 DEF Fits, a, m

-------------------------------------------------------------------------------
(* A call is open once, or has returned once, and its id is spent on the   *)
(* brief that it returned.                                                 *)
IdsSpent ==
  /\ \A h \in open : h.id <= arrived
  /\ \A h, g \in open : h.id = g.id => h = g
  /\ \A a \in answers : a.call <= arrived /\ a.brief.offer_id = a.call
  /\ \A h \in open, a \in answers : a.call # h.id

(* A call that sleeps has an attempt left.                                 *)
AttemptLeft == \A h \in open : h.at = "sleeping" => h.attempt < 3

ClaudeInv ==
  /\ ClaudeTypeOK
  /\ AttemptLeft
  /\ Fits(_cache, now)
  /\ IdsSpent

LEMMA InitInv == ClaudeInit => ClaudeInv
BY FitsEmpty, EmptySeq, ClaudeAssumption DEF ClaudeInit, ClaudeInv, ClaudeTypeOK, IdsSpent, AttemptLeft

(* The brief of a hit is typed and bears the id of the call.               *)
LEMMA HitReturns ==
  ASSUME ClaudeInv, NEW c \in Calls, NEW r \in Requests, NEW i \in At(_cache, Normal[r])
  PROVE  LET b == WithId(_cache[i].brief, c)
         IN /\ b \in Brief /\ b.offer_id = c
            /\ b.subject \in Requests /\ Normal[b.subject] = Normal[r]
            /\ b.made <= now /\ (Unexpired(_cache[i]) => now <= b.made + TTL)
<1>1. i \in 1 .. Len(_cache) /\ _cache[i].key = Normal[r]
  BY LenProperties DEF ClaudeInv, ClaudeTypeOK, At
<1>2. _cache[i] \in Entry /\ Made(_cache[i], now)
  BY <1>1, ElementOfSeq DEF ClaudeInv, Fits
<1>3. QED
  BY <1>1, <1>2 DEF Entry, Brief, Made, WithId, Unexpired

LEMMA HitKeeps ==
  ASSUME ClaudeInv, NEW c \in Calls, NEW r \in Requests, Hit(c, r)
  PROVE  ClaudeInv'
<1>1. PICK i \in At(_cache, Normal[r]) :
        answers' = answers \cup {[call |-> c, subject |-> r, at |-> now,
                                  brief |-> WithId(_cache[i].brief, c)]}
  BY DEF Hit, Returns, _cache_key
<1> DEFINE b == WithId(_cache[i].brief, c)
<1>2. b \in Brief /\ b.offer_id = c
  BY HitReturns
<1> HIDE DEF b
<1>3. /\ c = arrived + 1 /\ arrived' = c /\ arrived < MaxCalls
      /\ UNCHANGED <<now, booted, _cache, open>>
      /\ answers' = answers \cup {[call |-> c, subject |-> r, at |-> now, brief |-> b]}
  BY <1>1 DEF Hit, Arrives, b
<1>4. ClaudeTypeOK'
  BY <1>2, <1>3, ClaudeAssumption DEF ClaudeInv, ClaudeTypeOK, AnswerRecord, Subjects, Calls
<1>5. IdsSpent'
  BY <1>2, <1>3 DEF ClaudeInv, ClaudeTypeOK, IdsSpent, Call, AnswerRecord, Calls
<1>6. QED
  BY <1>3, <1>4, <1>5 DEF ClaudeInv, AttemptLeft

(* A call that goes to Claude first.                                       *)
LEMMA OpensKeeps ==
  ASSUME ClaudeInv, NEW c \in Calls, NEW x \in Subjects,
         Arrives(c), FirstAttempt(c, x), UNCHANGED <<now, booted, answers>>,
         Fits(_cache', now)
  PROVE  ClaudeInv'
<1>1. c = arrived + 1 /\ arrived' = c /\ arrived < MaxCalls
  BY DEF Arrives
<1>2. ClaudeTypeOK'
  BY <1>1, ClaudeAssumption DEF ClaudeInv, ClaudeTypeOK, FirstAttempt, Call, Calls, Fits
<1>3. IdsSpent'
  BY <1>1 DEF ClaudeInv, ClaudeTypeOK, IdsSpent, FirstAttempt, Call, AnswerRecord, Calls
<1>4. AttemptLeft'
  BY DEF ClaudeInv, AttemptLeft, FirstAttempt
<1>5. QED
  BY <1>2, <1>3, <1>4 DEF ClaudeInv

LEMMA MissKeeps ==
  ASSUME ClaudeInv, NEW c \in Calls, NEW r \in Requests, Miss(c, r)
  PROVE  ClaudeInv'
<1>1. Fits(_cache', now)
  BY FitsDrop DEF Miss, ClaudeInv, ClaudeTypeOK, At
<1>2. QED
  BY <1>1, OpensKeeps DEF Miss, Subjects

LEMMA PurchaseKeeps ==
  ASSUME ClaudeInv, NEW c \in Calls, NEW x \in Contexts, Purchase(c, x)
  PROVE  ClaudeInv'
BY OpensKeeps DEF Purchase, Subjects, ClaudeInv

LEMMA GeneratedKeeps ==
  ASSUME ClaudeInv, NEW h \in open, Generated(h)
  PROVE  ClaudeInv'
<1> DEFINE b == [offer_id |-> h.id, subject |-> h.subject, made |-> now]
<1>1. h \in Call /\ now \in Nat
  BY DEF ClaudeInv, ClaudeTypeOK
<1>2. b \in Brief /\ b.offer_id = h.id /\ b.subject = h.subject /\ b.made = now
  BY <1>1 DEF Brief, Call
<1>3. /\ open' = open \ {h}
      /\ answers' = answers \cup {[call |-> h.id, subject |-> h.subject, at |-> now, brief |-> b]}
      /\ UNCHANGED <<now, arrived, booted>>
      /\ IF h.subject \in Requests THEN _store_in_cache(h.subject, b) ELSE UNCHANGED _cache
  BY DEF Generated, Returns
<1> HIDE DEF b
<1>4. Fits(_cache', now)
  <2>1. CASE h.subject \in Requests
    <3> DEFINE k == Normal[h.subject]
               e == [key |-> k, brief |-> b, expires_at |-> now + TTL]
    <3>1. k \in Texts
      BY <2>1, ClaudeAssumption
    <3>2. e \in Entry /\ e.key = k /\ Made(e, now)
      BY <1>1, <1>2, <2>1, <3>1, ClaudeAssumption DEF Entry, Made
    <3>3. _cache' = Assign(MakeRoom(k), e)
      BY <1>3, <2>1 DEF _store_in_cache, _cache_key
    <3> HIDE DEF k, e
    <3>4. QED
      BY <3>1, <3>2, <3>3, FitsStore DEF ClaudeInv
  <2>2. CASE h.subject \notin Requests
    BY <1>3, <2>2 DEF ClaudeInv
  <2>3. QED
    BY <2>1, <2>2
<1>5. ClaudeTypeOK'
  BY <1>1, <1>2, <1>3, <1>4 DEF ClaudeInv, ClaudeTypeOK, Fits, AnswerRecord, Call
<1>6. IdsSpent'
  BY <1>1, <1>2, <1>3 DEF ClaudeInv, IdsSpent
<1>7. AttemptLeft'
  BY <1>3 DEF ClaudeInv, AttemptLeft
<1>8. QED
  BY <1>3, <1>4, <1>5, <1>6, <1>7 DEF ClaudeInv

(* The steps of a call that neither store nor return.                      *)
LEMMA AttemptKeeps ==
  ASSUME ClaudeInv, NEW h \in open, Unparsable(h) \/ AttemptFails(h) \/ Wakes(h)
  PROVE  ClaudeInv'
<1>1. h \in Call
  BY DEF ClaudeInv, ClaudeTypeOK
<1>2. UNCHANGED <<now, arrived, booted, _cache, answers>>
  BY DEF Unparsable, AttemptFails, Wakes
<1>3. \/ open' = open \ {h}
      \/ \E g \in Call : /\ g.id = h.id /\ (g.at = "sleeping" => g.attempt < 3)
                         /\ open' = (open \ {h}) \cup {g}
  <2>1. CASE Unparsable(h)
    BY <2>1 DEF Unparsable
  <2>2. CASE AttemptFails(h)
    <3> DEFINE g == [h EXCEPT !.at = "sleeping"]
    <3>1. g \in Call /\ g.id = h.id /\ g.attempt = h.attempt
      BY <1>1 DEF Call
    <3>2. CASE h.attempt < 3
      <4>1. open' = (open \ {h}) \cup {g}
        BY <2>2, <3>2 DEF AttemptFails
      <4> HIDE DEF g
      <4>2. QED
        BY <3>1, <3>2, <4>1
    <3>3. CASE ~(h.attempt < 3)
      BY <2>2, <3>3 DEF AttemptFails
    <3>4. QED
      BY <3>2, <3>3
  <2>3. CASE Wakes(h)
    <3> DEFINE n == h.attempt + 1
               g == [h EXCEPT !.at = "calling", !.attempt = n]
    <3>1. h.attempt + 1 \in 1 .. 3
      BY <1>1, <2>3 DEF Wakes, Call, ClaudeInv, AttemptLeft
    <3>2. open' = (open \ {h}) \cup {g}
      BY <2>3 DEF Wakes
    <3> HIDE DEF n
    <3>3. g \in Call /\ g.id = h.id /\ g.at = "calling"
      BY <1>1, <3>1 DEF Call, n
    <3> HIDE DEF g
    <3>4. QED
      BY <3>2, <3>3
  <2>4. QED
    BY <2>1, <2>2, <2>3
<1>4. ClaudeTypeOK'
  BY <1>2, <1>3 DEF ClaudeInv, ClaudeTypeOK
<1>5. IdsSpent'
  BY <1>1, <1>2, <1>3 DEF ClaudeInv, IdsSpent
<1>6. AttemptLeft'
  BY <1>3 DEF ClaudeInv, AttemptLeft
<1>7. QED
  BY <1>2, <1>4, <1>5, <1>6 DEF ClaudeInv

LEMMA StepKeepsInv == ClaudeInv /\ [ClaudeNext]_claudeVars => ClaudeInv'
<1> SUFFICES ASSUME ClaudeInv, [ClaudeNext]_claudeVars
             PROVE  ClaudeInv'
  OBVIOUS
<1>1. ASSUME NEW c \in Calls, NEW r \in Requests, Hit(c, r) \/ Miss(c, r)
      PROVE  ClaudeInv'
  BY <1>1, HitKeeps, MissKeeps
<1>2. ASSUME NEW c \in Calls, NEW x \in Contexts, Purchase(c, x)
      PROVE  ClaudeInv'
  BY <1>2, PurchaseKeeps
<1>3. ASSUME NEW h \in open, CallStep(h)
      PROVE  ClaudeInv'
  BY <1>3, GeneratedKeeps, AttemptKeeps DEF CallStep
<1>4. CASE Tick
  <2>1. now' = now + 1 /\ UNCHANGED <<arrived, booted, _cache, open, answers>>
    BY <1>4 DEF Tick
  <2>2. Fits(_cache', now')
    BY <2>1, FitsLater DEF ClaudeInv, ClaudeTypeOK
  <2>3. QED
    BY <2>1, <2>2 DEF ClaudeInv, ClaudeTypeOK, IdsSpent, AttemptLeft
<1>5. CASE ClaudeRestart
  BY <1>5, FitsEmpty, EmptySeq
     DEF ClaudeRestart, ClaudeInv, ClaudeTypeOK, IdsSpent, AttemptLeft
<1>6. CASE UNCHANGED claudeVars
  BY <1>6 DEF claudeVars, ClaudeInv, ClaudeTypeOK, Fits, OneEach, Made, IdsSpent, AttemptLeft
<1>7. QED
  BY <1>1, <1>2, <1>3, <1>4, <1>5, <1>6 DEF ClaudeNext

THEOREM ClaudeInvariant == ClaudeSpec => []ClaudeInv
BY InitInv, StepKeepsInv, PTL DEF ClaudeSpec

(* The variables of the client keep their types; no call makes a fourth    *)
(* attempt.                                                                *)
THEOREM ClaudeTypeCorrect == ClaudeSpec => []ClaudeTypeOK
BY ClaudeInvariant, PTL DEF ClaudeInv

(* The cache keeps to its limit, whatever overlaps.                        *)
THEOREM ClaudeCacheBounded == ClaudeSpec => []CacheBounded
<1>1. ClaudeInv => CacheBounded
  BY LenProperties DEF ClaudeInv, Fits, OneEach, CacheBounded
<1>2. QED
  BY <1>1, ClaudeInvariant, PTL

-------------------------------------------------------------------------------
(***************************************************************************)
(* What the cache still knows.  An entry lasts until it has expired or is  *)
(* evicted, and none is evicted while the objectives served fit into the   *)
(* cache: its keys are among them, and the key to be stored is one more.   *)
(***************************************************************************)
Wanted(a) == a.call > booted /\ a.subject \in Requests /\ now <= a.brief.made + TTL

Holds(s, a) == \E i \in 1 .. Len(s) : /\ s[i].key = Normal[a.subject]
                                      /\ a.brief.made + TTL <= s[i].expires_at

OpenSinceBoot == \A h \in open : h.id > booted

KeysServed == \A i \in 1 .. Len(_cache) : _cache[i].key \in TextsServed

Kept == Cardinality(TextsServed) <= MaxSize =>
          \A a \in answers : Wanted(a) => Holds(_cache, a)

RecentInv == OpenSinceBoot /\ KeysServed /\ Kept

LEMMA DropHas ==
  ASSUME NEW s \in Seq(Entry), NEW i \in 1 .. Len(s), NEW j \in 1 .. Len(s), j # i,
         Len(Drop(s, i)) = Len(s) - 1
  PROVE  \E k \in 1 .. Len(Drop(s, i)) : Drop(s, i)[k] = s[j]
<1>1. Len(s) \in Nat
  BY LenProperties
<1>2. \A k \in 1 .. Len(s) - 1 : Drop(s, i)[k] = s[IF k < i THEN k ELSE k + 1]
  BY DEF Drop
<1>3. CASE j < i
  <2>1. j \in 1 .. Len(s) - 1
    BY <1>1, <1>3
  <2>2. QED
    BY <1>2, <1>3, <2>1
<1>4. CASE j > i
  <2>1. j - 1 \in 1 .. Len(s) - 1 /\ ~(j - 1 < i) /\ (j - 1) + 1 = j
    BY <1>1, <1>4
  <2>2. Drop(s, i)[j - 1] = s[j]
    BY <1>2, <2>1
  <2>3. QED
    BY <2>1, <2>2
<1>5. QED
  BY <1>1, <1>3, <1>4

LEMMA AssignHas ==
  ASSUME NEW s \in Seq(Entry), NEW e \in Entry, OneEach(s)
  PROVE  /\ \E i \in 1 .. Len(Assign(s, e)) : Assign(s, e)[i] = e
         /\ \A j \in 1 .. Len(s) : s[j].key # e.key =>
              \E i \in 1 .. Len(Assign(s, e)) : Assign(s, e)[i] = s[j]
<1>1. Len(s) \in Nat /\ DOMAIN s = 1 .. Len(s)
  BY LenProperties
<1>2. Len(Assign(s, e)) = IF At(s, e.key) = {} THEN Len(s) + 1 ELSE Len(s)
  BY AssignKeeps
<1>3. CASE At(s, e.key) = {}
  <2> DEFINE a == Append(s, e)
  <2>1. /\ \A i \in 1 .. Len(s) : a[i] = s[i]
        /\ a[Len(s) + 1] = e
    BY AppendProperties
  <2>2. Assign(s, e) = a
    BY <1>3 DEF Assign
  <2> HIDE DEF a
  <2>3. QED
    BY <1>1, <1>2, <1>3, <2>1, <2>2
<1>4. CASE At(s, e.key) # {}
  <2>1. \A i \in 1 .. Len(s) : Assign(s, e)[i] = IF s[i].key = e.key THEN e ELSE s[i]
    BY <1>1, <1>4 DEF Assign
  <2>2. PICK i \in 1 .. Len(s) : s[i].key = e.key
    BY <1>1, <1>4 DEF At
  <2>3. QED
    BY <1>2, <1>4, <2>1, <2>2
<1>5. QED
  BY <1>3, <1>4

LEMMA ServedTexts ==
  ASSUME ClaudeInv, IsFiniteSet(Texts)
  PROVE  TextsServed \subseteq Texts /\ IsFiniteSet(TextsServed)
<1>1. TextsServed \subseteq Texts
  BY ClaudeAssumption DEF TextsServed
<1>2. QED
  BY <1>1, FS_Subset

(* The keys are as many as the entries.                                    *)
LEMMA KeysCounted ==
  ASSUME NEW s \in Seq(Entry), OneEach(s), NEW T, IsFiniteSet(T),
         \A i \in 1 .. Len(s) : s[i].key \in T, NEW k \in T,
         \A i \in 1 .. Len(s) : s[i].key # k
  PROVE  Len(s) < Cardinality(T)
<1>1. Len(s) \in Nat
  BY LenProperties
<1> DEFINE R == T \ {k}
           f == [i \in 1 .. Len(s) |-> s[i].key]
<1>2. IsFiniteSet(R) /\ Cardinality(R) = Cardinality(T) - 1 /\ Cardinality(T) \in Nat
  BY FS_RemoveElement, FS_CardinalityType
<1>3. f \in Injection(1 .. Len(s), R)
  BY DEF Injection, IsInjective, OneEach
<1>4. Cardinality(1 .. Len(s)) = Len(s)
  <2>1. Cardinality(1 .. Len(s)) = IF 1 > Len(s) THEN 0 ELSE Len(s) - 1 + 1
    BY <1>1, FS_Interval
  <2>2. QED
    BY <1>1, <2>1
<1> HIDE DEF R, f
<1>5. Cardinality(1 .. Len(s)) <= Cardinality(R)
  BY <1>2, <1>3, FS_Injection
<1>6. QED
  BY <1>1, <1>2, <1>4, <1>5

LEMMA HitRecent ==
  ASSUME ClaudeInv, RecentInv, NEW c \in Calls, NEW r \in Requests, Hit(c, r)
  PROVE  RecentInv'
<1>1. PICK i \in At(_cache, Normal[r]) :
        answers' = answers \cup {[call |-> c, subject |-> r, at |-> now,
                                  brief |-> WithId(_cache[i].brief, c)]}
  BY DEF Hit, Returns, _cache_key
<1> DEFINE n == [call |-> c, subject |-> r, at |-> now, brief |-> WithId(_cache[i].brief, c)]
<1>2. UNCHANGED <<now, booted, _cache, open>> /\ c > booted
  BY ClaudeAssumption DEF Hit, Arrives, ClaudeInv, ClaudeTypeOK
<1>3. i \in 1 .. Len(_cache) /\ _cache[i].key = Normal[r] /\ Made(_cache[i], now)
  BY LenProperties DEF ClaudeInv, ClaudeTypeOK, At, Fits
<1>4. TextsServed' = TextsServed
  <2>1. Normal[r] \in TextsServed
    BY <1>3 DEF RecentInv, KeysServed
  <2>2. TextsServed' = TextsServed \cup {Normal[n.subject]}
    BY <1>1, <1>2 DEF TextsServed
  <2>3. QED
    BY <2>1, <2>2
<1>5. Holds(_cache, n)
  <2>1. _cache[i] \in Entry
    BY <1>3, ElementOfSeq DEF ClaudeInv, Fits
  <2>2. n.brief.made + TTL <= _cache[i].expires_at
    BY <1>3, <2>1, ClaudeAssumption DEF Made, WithId, Entry, Brief
  <2>3. QED
    BY <1>3, <2>2 DEF Holds
<1>6. answers' = answers \cup {n}
  BY <1>1
<1> HIDE DEF n
<1>7. Kept'
  BY <1>2, <1>4, <1>5, <1>6 DEF RecentInv, Kept, Wanted, Holds
<1>8. QED
  BY <1>2, <1>4, <1>7 DEF RecentInv, OpenSinceBoot, KeysServed

LEMMA MissRecent ==
  ASSUME ClaudeInv, RecentInv, NEW c \in Calls, NEW r \in Requests, Miss(c, r)
  PROVE  RecentInv'
<1>1. UNCHANGED <<now, booted, answers>> /\ TextsServed' = TextsServed
  BY DEF Miss, TextsServed
<1>2. OpenSinceBoot'
  BY DEF Miss, Arrives, FirstAttempt, ClaudeInv, ClaudeTypeOK, RecentInv, OpenSinceBoot
<1>3. CASE UNCHANGED _cache
  BY <1>1, <1>2, <1>3 DEF RecentInv, KeysServed, Kept, Wanted, Holds
<1>4. ASSUME NEW i \in At(_cache, Normal[r]), ~Unexpired(_cache[i]), _cache' = Drop(_cache, i)
      PROVE  RecentInv'
  <2>1. _cache \in Seq(Entry) /\ OneEach(_cache) /\ i \in 1 .. Len(_cache)
    BY LenProperties DEF ClaudeInv, ClaudeTypeOK, Fits, At
  <2>2. /\ Len(Drop(_cache, i)) = Len(_cache) - 1
        /\ Within(Drop(_cache, i), _cache)
    BY <2>1, DropKeeps
  <2>3. KeysServed'
    BY <1>1, <1>4, <2>2 DEF Within, RecentInv, KeysServed
  <2>4. ASSUME NEW a \in answers, Wanted(a), Holds(_cache, a)
        PROVE  Holds(Drop(_cache, i), a)
    <3>1. PICK j \in 1 .. Len(_cache) : /\ _cache[j].key = Normal[a.subject]
                                        /\ a.brief.made + TTL <= _cache[j].expires_at
      BY <2>4 DEF Holds
    <3>2. j # i
      <4>1. _cache[i] \in Entry /\ a.brief.made \in Nat /\ now \in Nat /\ TTL \in Nat
        BY <2>1, ElementOfSeq, ClaudeAssumption DEF ClaudeInv, ClaudeTypeOK, AnswerRecord, Brief
      <4>2. QED
        BY <1>4, <2>4, <3>1, <4>1 DEF Wanted, Unexpired, Entry
    <3>3. \E k \in 1 .. Len(Drop(_cache, i)) : Drop(_cache, i)[k] = _cache[j]
      BY <2>1, <2>2, <3>2, DropHas
    <3>4. QED
      BY <3>1, <3>3 DEF Holds
  <2>5. Kept'
    BY <1>1, <1>4, <2>4 DEF RecentInv, Kept, Wanted, Holds
  <2>6. QED
    BY <1>2, <2>3, <2>5 DEF RecentInv
<1>5. QED
  BY <1>3, <1>4 DEF Miss, _cache_key

LEMMA GeneratedRecent ==
  ASSUME IsFiniteSet(Texts), ClaudeInv, RecentInv, NEW h \in open, Generated(h)
  PROVE  RecentInv'
<1> DEFINE b == [offer_id |-> h.id, subject |-> h.subject, made |-> now]
           n == [call |-> h.id, subject |-> h.subject, at |-> now, brief |-> b]
<1>1. /\ open' = open \ {h} /\ answers' = answers \cup {n}
      /\ UNCHANGED <<now, arrived, booted>>
      /\ IF h.subject \in Requests THEN _store_in_cache(h.subject, b) ELSE UNCHANGED _cache
      /\ h.id > booted /\ h.id \in Calls /\ now \in Nat /\ TTL \in Nat
  BY ClaudeAssumption DEF Generated, Returns, RecentInv, OpenSinceBoot, ClaudeInv, ClaudeTypeOK, Call
<1>2. n.call = h.id /\ n.subject = h.subject /\ n.brief = b /\ b.made = now
  OBVIOUS
<1>3. OpenSinceBoot'
  BY <1>1 DEF RecentInv, OpenSinceBoot
<1>4. CASE h.subject \notin Requests
  <2> HIDE DEF n
  <2>1. TextsServed' = TextsServed
    BY <1>1, <1>2, <1>4 DEF TextsServed
  <2>2. QED
    BY <1>1, <1>2, <1>3, <1>4, <2>1 DEF RecentInv, KeysServed, Kept, Wanted, Holds
<1>5. CASE h.subject \in Requests
  <2> DEFINE k == Normal[h.subject]
             e == [key |-> k, brief |-> b, expires_at |-> now + TTL]
  <2>1. k \in Texts /\ e \in Entry /\ e.key = k /\ e.expires_at = now + TTL
    BY <1>1, <1>5, ClaudeAssumption DEF Entry, Brief, Subjects
  <2>2. _cache' = Assign(MakeRoom(k), e)
    BY <1>1, <1>5 DEF _store_in_cache, _cache_key
  <2> HIDE DEF e, n, b
  <2>3. TextsServed' = TextsServed \cup {k}
    BY <1>1, <1>2, <1>5 DEF TextsServed
  <2> HIDE DEF k
  <2>4. /\ _cache \in Seq(Entry) /\ OneEach(_cache) /\ Len(_cache) \in Nat
        /\ \A i \in 1 .. Len(_cache) : Made(_cache[i], now) /\ _cache[i] \in Entry
        /\ MaxSize \in Nat \ {0}
        /\ DOMAIN _cache = 1 .. Len(_cache)
    BY LenProperties, ElementOfSeq, ClaudeAssumption DEF ClaudeInv, Fits
  <2>5. /\ MakeRoom(k) \in Seq(Entry) /\ OneEach(MakeRoom(k)) /\ Within(MakeRoom(k), _cache)
    <3>1. CASE MakeRoom(k) = _cache
      BY <2>4, <3>1 DEF Within
    <3>2. CASE MakeRoom(k) = Tail(_cache) /\ Len(_cache) >= MaxSize
      <4>1. _cache # << >>
        BY <2>4, <3>2, EmptySeq
      <4>2. QED
        BY <2>4, <3>2, <4>1, TailKeeps
    <3>3. QED
      BY <3>1, <3>2 DEF MakeRoom
  <2>6. KeysServed'
    <3>1. \A i \in 1 .. Len(_cache') :
            _cache'[i] = e \/ \E j \in 1 .. Len(MakeRoom(k)) : _cache'[i] = MakeRoom(k)[j]
      BY <2>1, <2>2, <2>5, AssignKeeps
    <3>2. \A j \in 1 .. Len(MakeRoom(k)) : MakeRoom(k)[j].key \in TextsServed
      BY <2>5 DEF Within, RecentInv, KeysServed
    <3>3. QED
      BY <2>1, <2>3, <3>1, <3>2 DEF KeysServed
  <2>7. ASSUME Cardinality(TextsServed') <= MaxSize, NEW a \in answers', Wanted(a)'
        PROVE  Holds(_cache', a)
    <3>1. /\ IsFiniteSet(TextsServed) /\ IsFiniteSet(TextsServed')
          /\ Cardinality(TextsServed) <= MaxSize
          /\ Cardinality(TextsServed) \in Nat /\ Cardinality(TextsServed') \in Nat
      <4>1. IsFiniteSet(TextsServed)
        BY ServedTexts
      <4>2. IsFiniteSet(TextsServed \cup {k})
        BY <4>1, FS_AddElement
      <4>3. Cardinality(TextsServed) <= Cardinality(TextsServed \cup {k})
        BY <4>2, FS_Subset
      <4>4. Cardinality(TextsServed) \in Nat /\ Cardinality(TextsServed \cup {k}) \in Nat
        BY <4>1, <4>2, FS_CardinalityType
      <4>5. QED
        BY <2>3, <2>4, <2>7, <4>1, <4>2, <4>3, <4>4
    <3>2. MakeRoom(k) = _cache
      <4>1. SUFFICES ASSUME Len(_cache) >= MaxSize, At(_cache, k) = {}
                     PROVE  FALSE
        BY DEF MakeRoom
      <4>2. \A i \in 1 .. Len(_cache) : _cache[i].key # k
        BY <2>4, <4>1 DEF At
      <4>3. \A i \in 1 .. Len(_cache) : _cache[i].key \in TextsServed'
        BY <2>3 DEF RecentInv, KeysServed
      <4>4. k \in TextsServed'
        BY <2>3
      <4>5. Len(_cache) < Cardinality(TextsServed')
        BY <2>4, <3>1, <4>2, <4>3, <4>4, KeysCounted
      <4>6. QED
        BY <2>4, <2>7, <3>1, <4>1, <4>5
    <3>3. _cache' = Assign(_cache, e)
      BY <2>2, <3>2
    <3>4. /\ \E i \in 1 .. Len(_cache') : _cache'[i] = e
          /\ \A j \in 1 .. Len(_cache) : _cache[j].key # k =>
               \E i \in 1 .. Len(_cache') : _cache'[i] = _cache[j]
      <4>1. /\ \E i \in 1 .. Len(Assign(_cache, e)) : Assign(_cache, e)[i] = e
            /\ \A j \in 1 .. Len(_cache) : _cache[j].key # e.key =>
                 \E i \in 1 .. Len(Assign(_cache, e)) : Assign(_cache, e)[i] = _cache[j]
        BY <2>1, <2>4, AssignHas
      <4>2. QED
        BY <2>1, <3>3, <4>1
    <3>5. CASE a = n
      <4>1. a.brief.made + TTL = now + TTL /\ Normal[a.subject] = k
        BY <1>2, <3>5 DEF k
      <4>2. QED
        BY <1>1, <2>1, <3>4, <4>1 DEF Holds
    <3>6. CASE a \in answers
      <4>1. Wanted(a)
        BY <1>1, <2>7 DEF Wanted
      <4>2. PICK j \in 1 .. Len(_cache) : /\ _cache[j].key = Normal[a.subject]
                                          /\ a.brief.made + TTL <= _cache[j].expires_at
        BY <3>1, <3>6, <4>1 DEF RecentInv, Kept, Holds
      <4>3. CASE _cache[j].key # k
        BY <3>4, <4>2, <4>3 DEF Holds
      <4>4. CASE _cache[j].key = k
        <5>1. _cache[j].expires_at <= now + TTL /\ _cache[j].expires_at \in Nat
          <6>1. Made(_cache[j], now) /\ _cache[j] \in Entry
            BY <2>4
          <6>2. _cache[j].brief.made \in Nat /\ _cache[j].expires_at \in Nat
            BY <6>1 DEF Entry, Brief
          <6>3. QED
            BY <1>1, <6>1, <6>2 DEF Made
        <5>2. a.brief.made \in Nat
          BY <3>6 DEF ClaudeInv, ClaudeTypeOK, AnswerRecord, Brief
        <5>3. a.brief.made + TTL <= now + TTL
          BY <1>1, <4>2, <5>1, <5>2
        <5>4. QED
          BY <2>1, <3>4, <4>2, <4>4, <5>3 DEF Holds
      <4>5. QED
        BY <4>3, <4>4
    <3>7. QED
      BY <1>1, <2>7, <3>5, <3>6
  <2>8. Kept'
    BY <2>7 DEF Kept, Holds
  <2>9. QED
    BY <1>3, <2>6, <2>8 DEF RecentInv
<1>6. QED
  BY <1>4, <1>5

LEMMA StepKeepsRecent ==
  ASSUME IsFiniteSet(Texts), ClaudeInv, RecentInv, [ClaudeNext]_claudeVars
  PROVE  RecentInv'
<1>1. ASSUME NEW c \in Calls, NEW r \in Requests, Hit(c, r) \/ Miss(c, r)
      PROVE  RecentInv'
  BY <1>1, HitRecent, MissRecent
<1>2. ASSUME NEW c \in Calls, NEW x \in Contexts, Purchase(c, x)
      PROVE  RecentInv'
  <2>1. UNCHANGED <<now, booted, _cache, answers>> /\ TextsServed' = TextsServed
    BY <1>2 DEF Purchase, TextsServed
  <2>2. OpenSinceBoot'
    BY <1>2 DEF Purchase, Arrives, FirstAttempt, ClaudeInv, ClaudeTypeOK, RecentInv, OpenSinceBoot
  <2>3. QED
    BY <2>1, <2>2 DEF RecentInv, KeysServed, Kept, Wanted, Holds
<1>3. ASSUME NEW h \in open, CallStep(h)
      PROVE  RecentInv'
  <2>1. CASE Generated(h)
    BY <2>1, GeneratedRecent
  <2>2. CASE Unparsable(h) \/ AttemptFails(h) \/ Wakes(h)
    <3>1. UNCHANGED <<now, booted, _cache, answers>> /\ TextsServed' = TextsServed
      BY <2>2 DEF Unparsable, AttemptFails, Wakes, TextsServed
    <3>2. h \in Call
      BY DEF ClaudeInv, ClaudeTypeOK
    <3>3. \A g \in open' : g \in open \/ g.id = h.id
      <4>1. /\ [h EXCEPT !.at = "sleeping"].id = h.id
            /\ [h EXCEPT !.at = "calling", !.attempt = @ + 1].id = h.id
        BY <3>2 DEF Call
      <4>2. QED
        BY <2>2, <4>1 DEF Unparsable, AttemptFails, Wakes
    <3>4. OpenSinceBoot'
      BY <3>1, <3>3 DEF RecentInv, OpenSinceBoot
    <3>5. QED
      BY <3>1, <3>4 DEF RecentInv, KeysServed, Kept, Wanted, Holds
  <2>3. QED
    BY <1>3, <2>1, <2>2 DEF CallStep
<1>4. CASE Tick
  <2>1. now' = now + 1 /\ UNCHANGED <<booted, _cache, open, answers>> /\ TextsServed' = TextsServed
    BY <1>4 DEF Tick, TextsServed
  <2>2. \A a \in answers : Wanted(a)' => Wanted(a)
    BY <2>1, ClaudeAssumption DEF Wanted, ClaudeInv, ClaudeTypeOK, AnswerRecord, Brief
  <2>3. QED
    BY <2>1, <2>2 DEF RecentInv, OpenSinceBoot, KeysServed, Kept, Holds
<1>5. CASE ClaudeRestart
  <2>1. _cache' = << >> /\ open' = {} /\ booted' = arrived /\ answers' = answers
    BY <1>5 DEF ClaudeRestart
  <2>2. \A a \in answers : ~(a.call > booted')
    BY <2>1 DEF ClaudeInv, ClaudeTypeOK, IdsSpent, AnswerRecord, Calls
  <2>3. QED
    BY <2>1, <2>2, EmptySeq DEF RecentInv, OpenSinceBoot, KeysServed, Kept, Wanted
<1>6. CASE UNCHANGED claudeVars
  <2>1. UNCHANGED <<now, booted, _cache, open, answers>> /\ TextsServed' = TextsServed
    BY <1>6 DEF claudeVars, TextsServed
  <2>2. QED
    BY <2>1 DEF RecentInv, OpenSinceBoot, KeysServed, Kept, Wanted, Holds
<1>7. QED
  BY <1>1, <1>2, <1>3, <1>4, <1>5, <1>6 DEF ClaudeNext

(* AC-051, for finitely many objectives: while those served fit into the   *)
(* cache, a brief returned within the last TTL seconds is still there.     *)
THEOREM ClaudeRecentIsCached ==
  ASSUME IsFiniteSet(Texts)
  PROVE  ClaudeSpec => []RecentIsCached
<1>1. ClaudeInit => RecentInv
  BY EmptySeq DEF ClaudeInit, RecentInv, OpenSinceBoot, KeysServed, Kept
<1>2. ClaudeInv /\ RecentInv /\ [ClaudeNext]_claudeVars => RecentInv'
  BY StepKeepsRecent
<1>3. ClaudeInv /\ RecentInv => RecentIsCached
  <2>1. SUFFICES ASSUME ClaudeInv, RecentInv, Cardinality(TextsServed) <= MaxSize,
                        NEW a \in answers, Wanted(a)
                 PROVE  \E i \in At(_cache, Normal[a.subject]) : now <= _cache[i].expires_at
    BY DEF RecentIsCached, Wanted
  <2>2. PICK i \in 1 .. Len(_cache) : /\ _cache[i].key = Normal[a.subject]
                                      /\ a.brief.made + TTL <= _cache[i].expires_at
    BY <2>1 DEF RecentInv, Kept, Holds
  <2>3. /\ _cache[i] \in Entry /\ i \in DOMAIN _cache
        /\ a.brief.made \in Nat /\ now \in Nat /\ TTL \in Nat
    <3>1. _cache \in Seq(Entry) /\ now \in Nat /\ a \in AnswerRecord
      BY <2>1 DEF ClaudeInv, ClaudeTypeOK
    <3>2. a.brief.made \in Nat /\ TTL \in Nat
      BY <3>1, ClaudeAssumption DEF AnswerRecord, Brief
    <3>3. _cache[i] \in Entry /\ i \in DOMAIN _cache
      BY <3>1, LenProperties, ElementOfSeq
    <3>4. QED
      BY <3>1, <3>2, <3>3
  <2>4. now <= _cache[i].expires_at
    BY <2>1, <2>2, <2>3 DEF Wanted, Entry
  <2>5. QED
    BY <2>2, <2>3, <2>4 DEF At
<1>4. QED
  BY <1>1, <1>2, <1>3, ClaudeInvariant, PTL DEF ClaudeSpec

-------------------------------------------------------------------------------
(* The progress of the calls.                                              *)
Ends(h) == open' = open \ {h}

GoesOn(h) == \E g : /\ open' = (open \ {h}) \cup {g}
                    /\ g.id = h.id /\ StepsLeft(g) < StepsLeft(h)

(* A step of a call ends it or leaves it with fewer steps.                 *)
LEMMA CallAdvances ==
  ASSUME ClaudeInv, NEW h \in open, CallStep(h)
  PROVE  Ends(h) \/ GoesOn(h)
<1>1. /\ h \in Call /\ h.attempt \in 1..3
      /\ h.at = "sleeping" => h.attempt < 3
  BY DEF ClaudeInv, ClaudeTypeOK, AttemptLeft, Call
<1>2. CASE Generated(h) \/ Unparsable(h)
  BY <1>2 DEF Generated, Unparsable, Ends
<1>3. CASE AttemptFails(h) /\ h.attempt < 3
  <2> DEFINE g == [h EXCEPT !.at = "sleeping"]
  <2>1. open' = (open \ {h}) \cup {g} /\ h.at = "calling"
    BY <1>3 DEF AttemptFails
  <2>2. g.id = h.id /\ g.at = "sleeping" /\ g.attempt = h.attempt
    BY <1>1 DEF Call
  <2> HIDE DEF g
  <2>3. StepsLeft(g) < StepsLeft(h)
    BY <1>1, <2>1, <2>2 DEF StepsLeft
  <2>4. QED
    BY <2>1, <2>2, <2>3 DEF GoesOn
<1>4. CASE AttemptFails(h) /\ ~(h.attempt < 3)
  BY <1>4 DEF AttemptFails, Ends
<1>5. CASE Wakes(h)
  <2> DEFINE g == [h EXCEPT !.at = "calling", !.attempt = @ + 1]
  <2>1. open' = (open \ {h}) \cup {g} /\ h.at = "sleeping"
    BY <1>5 DEF Wakes
  <2>2. g.id = h.id /\ g.at = "calling" /\ g.attempt = h.attempt + 1
    BY <1>1 DEF Call
  <2> HIDE DEF g
  <2>3. StepsLeft(g) < StepsLeft(h)
    BY <1>1, <2>1, <2>2 DEF StepsLeft
  <2>4. QED
    BY <2>1, <2>2, <2>3 DEF GoesOn
<1>6. QED
  BY <1>2, <1>3, <1>4, <1>5 DEF CallStep

(* In any step, what was open and still is has not moved or moved on.      *)
LEMMA AdvanceStep ==
  ASSUME ClaudeInv, [ClaudeNext]_claudeVars,
         NEW h \in open, NEW g \in open', g.id = h.id, g # h
  PROVE  StepsLeft(g) < StepsLeft(h)
<1>1. /\ \A k, l \in open : k.id = l.id => k = l
      /\ h.id <= arrived /\ arrived \in Nat /\ h.id \in Nat
  BY DEF ClaudeInv, ClaudeTypeOK, IdsSpent, Call, Calls
<1>2. ASSUME NEW k \in open, CallStep(k)
      PROVE  StepsLeft(g) < StepsLeft(h)
  <2>1. CASE Ends(k)
    BY <1>1, <2>1 DEF Ends
  <2>2. CASE GoesOn(k)
    <3>1. PICK l : /\ open' = (open \ {k}) \cup {l}
                   /\ l.id = k.id /\ StepsLeft(l) < StepsLeft(k)
      BY <2>2 DEF GoesOn
    <3>2. QED
      BY <1>1, <3>1
  <2>3. QED
    BY <1>2, <2>1, <2>2, CallAdvances
<1>3. ASSUME NEW c \in Calls, NEW x \in Subjects, Arrives(c), FirstAttempt(c, x)
      PROVE  FALSE
  BY <1>1, <1>3 DEF Arrives, FirstAttempt
<1>4. CASE UNCHANGED open \/ open' = {}
  BY <1>1, <1>4
<1>5. QED
  BY <1>2, <1>3, <1>4
     DEF ClaudeNext, Hit, Miss, Purchase, Tick, ClaudeRestart, claudeVars, Subjects

(* What EveryCallEnds rests on besides fairness: no step puts a call back, *)
(* and none that has returned is open again.                               *)
THEOREM ClaudeCallsAdvance == ClaudeSpec => CallsAdvance
<1>1. ClaudeInv /\ ClaudeInv' /\ [ClaudeNext]_claudeVars =>
        [/\ \A h \in open, g \in open' : g.id = h.id /\ g # h => StepsLeft(g) < StepsLeft(h)
         /\ \A g \in open' : \A a \in answers : a.call # g.id]_claudeVars
  <2>1. SUFFICES ASSUME ClaudeInv, ClaudeInv', [ClaudeNext]_claudeVars
                 PROVE  /\ \A h \in open, g \in open' :
                               g.id = h.id /\ g # h => StepsLeft(g) < StepsLeft(h)
                        /\ \A g \in open' : \A a \in answers : a.call # g.id
    OBVIOUS
  <2>2. answers \subseteq answers'
    BY <2>1 DEF ClaudeNext, Hit, Miss, Purchase, CallStep, Generated, Unparsable, AttemptFails,
                Wakes, Tick, ClaudeRestart, claudeVars, Returns
  <2>3. \A g \in open', a \in answers' : a.call # g.id
    BY <2>1 DEF ClaudeInv, IdsSpent
  <2>4. QED
    BY <2>1, <2>2, <2>3, AdvanceStep
<1>2. QED
  BY <1>1, ClaudeInvariant, PTL DEF ClaudeSpec, CallsAdvance

-------------------------------------------------------------------------------
(* The refinement.                                                         *)
LEMMA PromiseUnused ==
  ASSUME ClaudeInv, NEW c, \/ c = arrived + 1
                           \/ \E h \in open : h.id = c
  PROVE  Promise!Unused(c) /\ Promise!Fresh(c)
BY DEF ClaudeInv, ClaudeTypeOK, IdsSpent, AnswerRecord, Calls, Promise!Unused, Promise!Fresh

LEMMA PromiseHit ==
  ASSUME ClaudeInv, NEW c \in Calls, NEW r \in Requests, Hit(c, r)
  PROVE  Promise!Next
<1>1. PICK i \in At(_cache, Normal[r]) :
        /\ Unexpired(_cache[i])
        /\ answers' = answers \cup {[call |-> c, subject |-> r, at |-> now,
                                     brief |-> WithId(_cache[i].brief, c)]}
  BY DEF Hit, Returns, _cache_key
<1> DEFINE m == _cache[i].brief.subject
           t == _cache[i].brief.made
<1>2. WithId(_cache[i].brief, c) = [offer_id |-> c, subject |-> m, made |-> t]
  BY DEF WithId
<1>3. /\ m \in Requests /\ Normal[m] = Normal[r]
      /\ t \in Nat /\ t <= now /\ now <= t + TTL
  BY <1>1, HitReturns DEF WithId, Brief
<1> HIDE DEF m, t
<1>4. Promise!Unused(c) /\ Promise!Fresh(c)
  BY PromiseUnused DEF Hit, Arrives
<1>5. Promise!ServesAs(m, r) /\ Promise!Recent(t) /\ t \in 0 .. now
  BY <1>3 DEF Promise!ServesAs, Promise!Recent, ClaudeInv, ClaudeTypeOK
<1>6. Promise!Return(c, r, c, m, t)
  BY <1>1, <1>2 DEF Hit, Promise!Return
<1>7. QED
  BY <1>3, <1>4, <1>5, <1>6 DEF Promise!Next

LEMMA PromiseGenerated ==
  ASSUME ClaudeInv, NEW h \in open, Generated(h)
  PROVE  Promise!Next
<1> DEFINE s == h.subject
<1>1. h.id \in Calls /\ s \in Requests \cup Contexts /\ now \in Nat /\ TTL \in Nat
  BY ClaudeAssumption DEF ClaudeInv, ClaudeTypeOK, Call, Subjects
<1>2. Promise!Unused(h.id) /\ Promise!Fresh(h.id)
  BY PromiseUnused
<1>3. Promise!ServesAs(s, s) /\ Promise!Recent(now) /\ now \in 0 .. now
  BY <1>1 DEF Promise!ServesAs, Promise!Recent
<1>4. Promise!Return(h.id, s, h.id, s, now)
  BY DEF Generated, Returns, Promise!Return
<1> HIDE DEF s
<1>5. QED
  BY <1>1, <1>2, <1>3, <1>4 DEF Promise!Next

LEMMA PromiseStep == ClaudeInv /\ [ClaudeNext]_claudeVars => [Promise!Next]_(Promise!vars)
<1> SUFFICES ASSUME ClaudeInv, [ClaudeNext]_claudeVars
             PROVE  [Promise!Next]_(Promise!vars)
  OBVIOUS
<1>1. ASSUME NEW c \in Calls, NEW r \in Requests, Hit(c, r) \/ Miss(c, r)
      PROVE  [Promise!Next]_(Promise!vars)
  BY <1>1, PromiseHit DEF Miss, Promise!vars
<1>2. ASSUME NEW c \in Calls, NEW x \in Contexts, Purchase(c, x)
      PROVE  [Promise!Next]_(Promise!vars)
  BY <1>2 DEF Purchase, Promise!vars
<1>3. ASSUME NEW h \in open, CallStep(h)
      PROVE  [Promise!Next]_(Promise!vars)
  BY <1>3, PromiseGenerated DEF CallStep, Unparsable, AttemptFails, Wakes, Promise!vars
<1>4. CASE Tick
  BY <1>4 DEF Tick, Promise!Next, Promise!TimePasses
<1>5. CASE ClaudeRestart \/ UNCHANGED claudeVars
  BY <1>5 DEF ClaudeRestart, claudeVars, Promise!vars
<1>6. QED
  BY <1>1, <1>2, <1>3, <1>4, <1>5 DEF ClaudeNext

(* The client implements BriefPromise: what a marketer gets from the cache *)
(* is of his objective and of the last TTL seconds, and every brief has an *)
(* id no other brief has (F-001).                                          *)
THEOREM ClaudeImplementsPromise == ClaudeSpec => ImplementsPromise
<1>1. ClaudeInit => Promise!Init
  BY DEF ClaudeInit, Promise!Init
<1>2. QED
  BY <1>1, ClaudeInvariant, PromiseStep, PTL DEF ClaudeSpec, ImplementsPromise, Promise!Spec

(* F-001 and AC-051 of the client itself, from the promise: no two briefs  *)
(* it returns share an offer_id, whoever asked and whatever overlaps, and  *)
(* each is for its objective and was made within the TTL.                  *)
Worth == INSTANCE BriefPromiseProofs

THEOREM ClaudeBriefsAreOwn == ClaudeSpec => [](Worth!IdsAreOwn /\ Worth!BriefsSuit)
<1>1. Promise!Init => Worth!Init
  BY DEF Promise!Init, Worth!Init
<1>2. [Promise!Next]_(Promise!vars) => [Worth!Next]_(Worth!vars)
  BY DEF Promise!Next, Promise!vars, Promise!Return, Promise!TimePasses, Promise!Unused,
         Promise!Fresh, Promise!ServesAs, Promise!Recent,
         Worth!Next, Worth!vars, Worth!Return, Worth!TimePasses, Worth!Unused,
         Worth!Fresh, Worth!ServesAs, Worth!Recent
<1>3. Promise!Spec => Worth!Spec
  BY <1>1, <1>2, PTL DEF Promise!Spec, Worth!Spec
<1>4. QED
  BY <1>3, ClaudeImplementsPromise, Worth!PromiseMeansOwnBriefs, PTL DEF ImplementsPromise

===============================================================================
