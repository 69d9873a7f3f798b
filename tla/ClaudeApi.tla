-------------------------------- MODULE ClaudeApi -------------------------------
(***************************************************************************)
(* The Claude client of the Designer, services/claude_api.py: the cache of *)
(* briefs by objective, the three attempts at Claude and the ids that the  *)
(* returned briefs bear.                                                   *)
(*                                                                         *)
(* A call is suspended while a thread waits for Claude and while it sleeps *)
(* between two attempts; the cache is read before the first attempt and    *)
(* written after the last, so any number of calls may miss together.       *)
(* Claude is external: an attempt succeeds, fails, or gives a text that    *)
(* does not parse.                                                         *)
(*                                                                         *)
(* Calls are numbered as they arrive, and uuid4() in call c gives c.       *)
(***************************************************************************)
EXTENDS Naturals, Sequences, FiniteSets

CONSTANTS
  Requests,     \* what a marketer asks: an objective and segment hints
  Contexts,     \* what Scout asks: an enriched purchase
  Texts,        \* the objectives in lower case, without blanks around them
  Normal,       \* [Requests -> Texts]: objective.lower().strip()
  MaxSize,      \* _CACHE_MAX_SIZE
  TTL,          \* settings.CACHE_TTL_SECONDS
  MayRestart,   \* whether the process may stop and start again
  MaxCalls,     \* bound on the calls, for TLC
  Horizon       \* bound on the clock, for TLC

ASSUME ClaudeAssumption ==
  /\ Normal \in [Requests -> Texts]
  /\ Requests \cap Contexts = {}
  /\ MaxSize \in Nat \ {0}
  /\ {TTL, MaxCalls, Horizon} \subseteq Nat
  /\ MayRestart \in BOOLEAN

VARIABLES
  now,       \* datetime.utcnow()
  arrived,   \* how many calls have arrived
  booted,    \* history: how many had when the process started
  _cache,    \* the entries of the dict, in insertion order
  open,      \* the suspended calls
  answers    \* history: the briefs returned

claudeVars == <<now, arrived, booted, _cache, open, answers>>

Subjects == Requests \cup Contexts
Calls    == 1 .. MaxCalls

(* An OfferBrief: its id, and for what and when Claude wrote the rest.     *)
Brief == [offer_id : Calls, subject : Subjects, made : Nat]

Entry == [key : Texts, brief : Brief, expires_at : Nat]

Call == [id : Calls, subject : Subjects, at : {"calling", "sleeping"}, attempt : 1..3]

AnswerRecord == [call : Calls, subject : Subjects, at : Nat, brief : Brief]

ClaudeTypeOK ==
  /\ now \in Nat
  /\ arrived \in 0 .. MaxCalls
  /\ booted \in 0 .. arrived
  /\ _cache \in Seq(Entry)
  /\ open \subseteq Call
  /\ answers \subseteq AnswerRecord

ClaudeInit ==
  /\ now = 0
  /\ arrived = 0
  /\ booted = 0
  /\ _cache = <<>>
  /\ open = {}
  /\ answers = {}

-------------------------------------------------------------------------------
(* The cache.  A dict keeps one entry per key and the order of insertion.  *)
_cache_key(r) == Normal[r]

At(s, k) == {i \in DOMAIN s : s[i].key = k}

Drop(s, i) == [j \in 1 .. Len(s) - 1 |-> s[IF j < i THEN j ELSE j + 1]]

(* Assigning to a key that is present keeps its place.                     *)
Assign(s, e) ==
  IF At(s, e.key) = {} THEN Append(s, e)
                       ELSE [i \in DOMAIN s |-> IF s[i].key = e.key THEN e ELSE s[i]]

(* Mutant: an entry is served whatever its age.                            *)
Unexpired_Ever(e) == TRUE

Unexpired(e) == now <= e.expires_at

(* Mutants: room is made one entry late; it is made for a key that is      *)
(* already there.                                                          *)
MakeRoom_Late(k) == IF Len(_cache) > MaxSize /\ At(_cache, k) = {}
                    THEN Tail(_cache) ELSE _cache

MakeRoom_Always(k) == IF Len(_cache) >= MaxSize THEN Tail(_cache) ELSE _cache

MakeRoom(k) == IF Len(_cache) >= MaxSize /\ At(_cache, k) = {}
               THEN Tail(_cache) ELSE _cache

_store_in_cache(r, b) ==
  _cache' = Assign(MakeRoom(_cache_key(r)),
                   [key |-> _cache_key(r), brief |-> b, expires_at |-> now + TTL])

(* model_copy(update={"offer_id": ...}).                                   *)
WithId(b, c) == [offer_id |-> c, subject |-> b.subject, made |-> b.made]

-------------------------------------------------------------------------------
(* A call arrives.                                                         *)
Arrives(c) == /\ arrived < MaxCalls
              /\ c = arrived + 1
              /\ arrived' = c

Returns(c, s, b) ==
  answers' = answers \cup {[call |-> c, subject |-> s, at |-> now, brief |-> b]}

FirstAttempt(c, s) ==
  open' = open \cup {[id |-> c, subject |-> s, at |-> "calling", attempt |-> 1]}

(* generate_from_objective: a hit returns the cached brief at once.        *)
Hit(c, r) ==
  /\ Arrives(c)
  /\ \E i \in At(_cache, _cache_key(r)) :
       /\ Unexpired(_cache[i])
       /\ Returns(c, r, WithId(_cache[i].brief, c))
  /\ UNCHANGED <<now, booted, _cache, open>>

(* No entry for the key, or one that has expired, which is deleted.        *)
Miss(c, r) ==
  /\ Arrives(c)
  /\ FirstAttempt(c, r)
  /\ UNCHANGED <<now, booted, answers>>
  /\ \/ /\ At(_cache, _cache_key(r)) = {}
        /\ UNCHANGED _cache
     \/ \E i \in At(_cache, _cache_key(r)) :
          /\ ~Unexpired(_cache[i])
          /\ _cache' = Drop(_cache, i)

(* generate_from_purchase_context does without the cache.                  *)
Purchase(c, x) ==
  /\ Arrives(c)
  /\ FirstAttempt(c, x)
  /\ UNCHANGED <<now, booted, _cache, answers>>

-------------------------------------------------------------------------------
(* Claude's answer parses: the brief gets its id, is cached if a marketer  *)
(* asked for it, and is returned.                                          *)
Generated(h) ==
  LET b == [offer_id |-> h.id, subject |-> h.subject, made |-> now]
  IN /\ h.at = "calling"
     /\ IF h.subject \in Requests THEN _store_in_cache(h.subject, b)
                                  ELSE UNCHANGED _cache
     /\ Returns(h.id, h.subject, b)
     /\ open' = open \ {h}
     /\ UNCHANGED <<now, arrived, booted>>

(* ClaudeResponseParseError, which is not tried again.                     *)
Unparsable(h) ==
  /\ h.at = "calling"
  /\ open' = open \ {h}
  /\ UNCHANGED <<now, arrived, booted, _cache, answers>>

(* Mutant: one attempt too many.                                           *)
AttemptFails_Four(h) ==
  /\ h.at = "calling"
  /\ open' = (open \ {h}) \cup
               IF h.attempt <= 3 THEN {[h EXCEPT !.at = "sleeping"]} ELSE {}
  /\ UNCHANGED <<now, arrived, booted, _cache, answers>>

(* An attempt fails: the call sleeps, after the last one it raises         *)
(* ClaudeApiError.                                                         *)
AttemptFails(h) ==
  /\ h.at = "calling"
  /\ open' = (open \ {h}) \cup
               IF h.attempt < 3 THEN {[h EXCEPT !.at = "sleeping"]} ELSE {}
  /\ UNCHANGED <<now, arrived, booted, _cache, answers>>

(* Mutant: the attempts are not counted.                                   *)
Wakes_Uncounted(h) ==
  /\ h.at = "sleeping"
  /\ open' = (open \ {h}) \cup {[h EXCEPT !.at = "calling"]}
  /\ UNCHANGED <<now, arrived, booted, _cache, answers>>

Wakes(h) ==
  /\ h.at = "sleeping"
  /\ open' = (open \ {h}) \cup {[h EXCEPT !.at = "calling", !.attempt = @ + 1]}
  /\ UNCHANGED <<now, arrived, booted, _cache, answers>>

CallStep(h) == Generated(h) \/ Unparsable(h) \/ AttemptFails(h) \/ Wakes(h)

-------------------------------------------------------------------------------
Tick ==
  /\ now < Horizon
  /\ now' = now + 1
  /\ UNCHANGED <<arrived, booted, _cache, open, answers>>

(* The module's dict and the suspended calls go with the process.          *)
ClaudeRestart ==
  /\ MayRestart
  /\ _cache' = <<>>
  /\ open' = {}
  /\ booted' = arrived
  /\ UNCHANGED <<now, arrived, answers>>

ClaudeNext ==
  \/ \E c \in Calls, r \in Requests : Hit(c, r) \/ Miss(c, r)
  \/ \E c \in Calls, x \in Contexts : Purchase(c, x)
  \/ \E h \in open : CallStep(h)
  \/ Tick
  \/ ClaudeRestart

ClaudeSpec == ClaudeInit /\ [][ClaudeNext]_claudeVars

(* The SDK gives up on a request that Claude leaves unanswered, and a      *)
(* sleep ends: each call goes on.                                          *)
ClaudeFairSpec ==
  /\ ClaudeSpec
  /\ \A c \in Calls : WF_claudeVars(\E h \in open : h.id = c /\ CallStep(h))

-------------------------------------------------------------------------------
(* "Evict oldest entry if cache is at capacity (prevents unbounded         *)
(* growth)": whatever calls store together, _store_in_cache keeps to the   *)
(* limit and the dict has one entry per objective.                         *)
CacheBounded ==
  /\ Len(_cache) <= MaxSize
  /\ \A i, j \in DOMAIN _cache : _cache[i].key = _cache[j].key => i = j

(* The objectives for which briefs were returned since the process began.  *)
TextsServed == {Normal[a.subject] : a \in {x \in answers : /\ x.call > booted
                                                         /\ x.subject \in Requests}}

(* "Given objective X submitted at T0, when same objective submitted at    *)
(* T0+2min, then return cached OfferBrief": while no more objectives than  *)
(* the cache can hold have been served, a brief that is not expired yet    *)
(* finds _get_from_cache able to serve its objective again, although calls *)
(* overlap, entries are refreshed and expired ones deleted.                *)
RecentIsCached ==
  Cardinality(TextsServed) <= MaxSize =>
    \A a \in answers :
      a.call > booted /\ a.subject \in Requests /\ now <= a.brief.made + TTL
        => \E i \in At(_cache, Normal[a.subject]) : now <= _cache[i].expires_at

(* A call that waits for Claude returns or raises, unless the process      *)
(* stops: _call_with_retry ends.                                           *)
EveryCallEnds ==
  \A c \in Calls : (\E h \in open : h.id = c) ~> ~(\E h \in open : h.id = c)

(* The half of it that needs no fairness: every step of a call leaves it   *)
(* fewer steps, of three attempts and two pauses at most, and a call that  *)
(* has returned its brief asks Claude no more.                             *)
StepsLeft(h) == 2 * (3 - h.attempt) + (IF h.at = "calling" THEN 1 ELSE 0)

CallsAdvance ==
  [][/\ \A h \in open, g \in open' : g.id = h.id /\ g # h => StepsLeft(g) < StepsLeft(h)
     /\ \A g \in open' : \A a \in answers : a.call # g.id]_claudeVars

(* The promise of BriefPromise: the cache never serves another objective's *)
(* brief nor one past its time, and never an offer_id a second time        *)
(* (F-001), with overlapping misses, refreshes, evictions and restarts.    *)
Promise == INSTANCE BriefPromise

ImplementsPromise == Promise!Spec

===============================================================================
