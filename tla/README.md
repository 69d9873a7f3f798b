# TLA+ models of TriStar

TriStar generates loyalty offers with Claude (Designer), stores them and guards
their lifecycle (Hub), and delivers them to members on a purchase (Scout). The
backend is one FastAPI process (`src/src/backend`), the frontend a Next.js
application (`src/src/frontend`). All paths below are relative to the
repository; `PROJECT.json` gives, for every definition that models code, the file
and the lines it stands for.

The code is asynchronous Python: many coroutines on one event loop, an offer
store that is either a dict of the process or a Redis server, an SQLite audit
log, an expiry task that runs for ever. The models are about what a unit test
of one handler does not reach: two handlers suspended in the middle of a
read-then-write, the sweep working from a snapshot, a Redis command whose reply
is lost, a process that restarts with tasks pending.

## 1. Inventory

| component | state | operations | talks to |
|---|---|---|---|
| Offer model (`models/offer_brief.py`) | `OfferBrief`: status, trigger_type, valid_until, texts | validators; `VALID_TRANSITIONS` in `api/hub.py` | everything |
| Hub store (`services/hub_store.py`) | dict, or one Redis key per offer | get, save (SET NX), update (SET), list (SCAN + MGET), exists, ping | Redis |
| Hub API (`api/hub.py`) | `_audit_tasks`; handlers suspended in Redis | POST, GET, GET list, PUT status | store, audit log |
| Hub audit log (`services/hub_audit_service.py`) | table `hub_audit_log` | `log_event`, `get_events` | SQLite |
| Expiry sweep, lifespan (`main.py`) | the task's locals | sleep, list, update one by one; start and cancel | store |
| Designer API (`api/designer.py`) | handlers suspended in Claude, Redis or HTTP | generate, generate-purchase, approve, suggestions | Claude, fraud check, store, Hub client |
| Fraud check (`services/fraud_check_service.py`) | `_active_offer_counts` per member | `validate`, `record_active_offer` | - |
| Hub HTTP client (`services/hub_api_client.py`) | - | `save_offer` and two unused readers | Hub API over HTTP |
| Claude client (`services/claude_api.py`) | response cache | generate, cache get/put, 3 attempts | Anthropic API |
| Scout route (`api/scout.py`) | handlers suspended in Designer or push | purchase-event: gates, score, generate, deliver, record | delivery, scoring, Designer over HTTP |
| Purchase event handler (`services/purchase_event_handler.py`) | `_seen_events` (60 s) | dedup, gates, three concurrent lookups | member, location and weather services (mocked) |
| Delivery constraints | last deliveries, quiet-hours queue | `can_deliver`, `record_delivery`, `queue` | - |
| Notification | - | push (3 attempts), mail fallback | push and mail services |
| Context scoring | - | `score` | - |
| Scout service token | token and its expiry | get, refresh | - |
| JWT and roles, configuration, inventory suggestions, compliance log | none that changes | checks, reads, log lines | - |
| Designer UI, Hub UI | React state | render; optimistic approval | Designer and Hub API |

**What is hard, and what makes each component correct**

* *Hub API.* `update_offer_status` reads, awaits, writes a modified copy of what
  it read with a plain SET: no compare-and-set, no lock. Two of them, or one and
  the sweep, interleave. Correct when no interleaving lets a marketer's offer
  become active without approval (F-003), when a purchase-triggered offer expires
  once and for good, and when one creator of an id at most is told 201.
* *Store.* A command fails before or after it takes effect and the caller cannot
  tell which. Correct when creation is atomic and a failure never makes another
  component record what did not happen.
* *Audit log.* Rows are written by tasks after the response. Correct when a row
  never tells of something that did not happen, and every acknowledged operation
  has its row or a retained task.
* *Sweep.* The date is read once per pass, the offers are a snapshot, each write
  may fail. Correct when only lapsed offers expire by it, and every lapsed active
  offer eventually does.
* *Designer.* Three writers go past the Hub's handlers; approval is another
  read-then-write; the purchase path is an HTTP POST with a ten second limit.
  Correct when a refused offer is never stored, also not later, when the
  lifecycle promise still holds, and when the stacking count counts no offer
  twice.
* *Scout, delivery.* Constraints are read, the Designer is awaited up to thirty
  seconds, the delivery is recorded afterwards. Correct when a member gets one
  offer per window.
* *Claude client.* The cache is read before Claude is awaited and written after;
  calls with one objective miss together. Entries expire, are refreshed in place,
  evicted at the limit and lost at a restart. Correct when a brief is served only
  for its objective and in its time, every brief has an id of its own (F-001), the
  limit holds, nothing recent is lost without need, and every call ends.
* *Context scoring.* Each of three lookups may fail alone. Correct when every
  factor keeps its maximum, a better purchase never scores less, and a failure
  never triggers an offer.

`PROJECT.json` lists these hazards line by line.

## 2. Modules

| module | stands for |
|---|---|
| `OfferModel` | the three fields of an `OfferBrief` that decide its life (status, trigger, dated), `VALID_TRANSITIONS`, the F-003 guard |
| `OfferLifecycle` | abstract: what the Hub promises about the life of an offer; no store, handler or failure |
| `HubStore` | `hub_store.py`, both implementations, selected by `RedisEnabled` |
| `Hub` | the handlers of `api/hub.py`, the audit tasks, the sweep, restart; refines `OfferLifecycle` |
| `Designer` | extends `Hub`: the handlers of `api/designer.py`, the stacking counts, the POST of the Hub client |
| `DeliveryPromise` | abstract: a decision to deliver is taken at one instant against the whole history, and carried out later or given up; no handlers, log or duplicate window |
| `Scout` | the purchase-event route with its gates, delivery constraints and messages; independent of the modules above; refines `DeliveryPromise` |
| `BriefPromise` | abstract: a brief returned is recent, of a request that counts as the same, and bears a new id; no cache, attempts or failures |
| `ClaudeApi` | `claude_api.py`: cache, attempts, ids; refines `BriefPromise` |
| `ContextScoring` | the lookups of the purchase event handler and the seven factors |
| `MCHub`, `MCDesigner`, `MCScout`, `MCClaudeApi`, `MCContextScoring` | symmetry sets, Claude's outcomes, members, objectives and sample values for TLC |
| `OfferLifecycleProofs`, `DeliveryPromiseProofs`, `BriefPromiseProofs` | theorems about what the abstract modules promise |
| `HubProofs`, `DesignerProofs`, `ScoutProofs`, `ClaudeApiProofs`, `ContextScoringProofs` | theorems about the detailed ones |

### How the code's control becomes actions

A coroutine runs without interruption between two awaits that suspend, so an
action is a stretch of a handler up to its next suspension:

* `save_offer` (POST) and `get_offer` await the store once. The command, the
  answer and the scheduling of the audit task are one action per outcome
  (`PostSaved`, `PostConflict`, `PostUnavailable`, ...). Nothing the other
  coroutines do between the command's effect and the answer can alter what the
  answer says; a crash in that gap is a lost reply followed by a restart, which
  the model has.
* `update_offer_status` and `approve_offer` await it twice: a start action that
  reads and suspends (`PutRead`, `ApproveRead`), the handler kept in `open` or
  `approving` with its copy, and a finish action that writes.
* The sweep: `SweepWake` (the sleep ends, `now` is read, SCAN begins),
  `SweepListed` (MGET; keys added during SCAN may or may not be seen),
  `SweepExpire` per snapshot, `SweepListFailed`.
* generate-purchase: the check and the sending of the POST, the Hub handling it
  (the same `PostSaved`/`PostUnavailable` of module `Hub`, on the same event
  loop), and the client's end (`PurchaseAnswered`, `PurchaseUnreachable`).

* `process_purchase_event`: `Taken` (the gates, the event remembered) suspends in
  the enrichment; then one action up to the Designer call or to a refusal; then
  one per answer of the Designer; one per push attempt; one for the mail.
  `open` holds the handlers between these.

* `generate_from_objective`: a hit returns at once (`Hit`); a miss deletes an
  expired entry and suspends in `_call_with_retry` (`Miss`, `Purchase`), where a
  call is `calling` while a thread waits for Claude and `sleeping` between
  attempts; `Generated` is the rest of the handler: parse, id, store, return.
* `handle`'s `asyncio.gather`: each lookup ends by itself, with an answer or an
  exception (`LookupAnswers`, `LookupFails`); `Scored` follows when all have.

With the in-memory store `await` never suspends: `LoopFree` and `ApprovalsDone`
let no other coroutine start while one is between its two halves. One module
therefore covers both deployments, and the weak and strong promise of
`OfferLifecycle` (`Concurrent`) is the difference between them.

Redis outcomes are `ok`, `down` (no effect) and `lost` (effect, no reply);
reads know only the first two. `RedisUnavailableError` is both failures. The
client library's own retries are not modelled: a retried SET is one more `ok`,
and a retried SET NX whose first attempt took effect looks like `lost` to the
caller or like a conflict, which changes no state.

### Abstractions

* `lapsed` is a set of offers: `valid_until` of an id passes once. A brief
  without a date never is due, whatever the set holds.
* A request is handled once; its identifier tells answers, audit rows and
  suspended handlers apart. A retry is a request of its own. The number of
  requests is therefore the bound of a run, and the only one besides the sizes
  of the sets, `MaxCalls` of `ClaudeApi` and the two `Horizon`s of the clocks:
  there are no other counters (`counts` grows by approvals).
* `uuid4` is a fresh element of `Offers` (`issued`), so the branch of generate
  and of the purchase POST for an id that already exists is unreachable and left
  out.
* The body of an approval is the brief that generate returned, and its id
  equals the path's; the 400 branches of `approve_offer` need a client that
  sends something else.
* Claude fails, or yields one of `ClaudeBriefs`; whether the discount is over
  the limit is a free flag. The medium flags never block.
* Scout's clock counts ticks of some hours. A handler lives for minutes (30
  seconds for the Designer, five per message), so a tick may fall within its
  life but not two: `Tick` waits for handlers older than the last one. The 60
  seconds of the duplicate window may end at any moment (`WindowPasses`).
* The Designer is the environment of `Scout`: it answers 201 or anything else. As
  the code stands the Designer of this repository does not answer 201 to a
  purchase (`designer_purchase`); the model of Scout says what Scout does when it
  does, as its tests assume.
* Scout's history variables: `delivered` (with when each delivery was decided and
  which earlier ones its handler could know) and `reached`. A delivery is
  `forgotten` once a restart has emptied the log; that this loses the limits is
  a risk the repository documents, and no property claims otherwise.
* In `Scout` the score is a free choice, for the enrichment can give every score
  around the threshold; the opt-out is never passed to `can_deliver`.
* In `ClaudeApi` an objective is a request with a normal form (lower case, no
  blanks around it), which stands for the hash; a clock tick is a TTL in the run
  and anything in the proofs. Segment hints are part of a request and, as in the
  code, not of its key. What Claude writes is reduced to for whom and when.
* `ContextScoring` counts in dollars, metres and degrees. Every limit of the code
  is whole in them, so a whole value just below a limit behaves as the fractions
  above it; scores are whole, and `round(..., 2)` does nothing to them.
* Roles are checked before a handler starts and change nothing. The frontend's
  marketing token cannot PUT a status, so PUT is left to holders of a system
  token, in any number.
* GET /offers, suggestions and the health routes change no state.

## 3. Runs

| run | instance | what it shows |
|---|---|---|
| `hub_redis` | 1 offer, 4 requests, Redis, restarts, refusing SQLite; 172k states | the weak lifecycle promise, F-003, one creator, a truthful log, short-lived offers expire once |
| `hub_two_offers` | 2 offers, 3 requests, Redis, no restart; 450k | the sweep expires lapsed offers only, working through two snapshots while requests run; every success has its row, and a status without a row is an expiry after the date or a write answered 503 |
| `hub_live_redis` | 1 offer, 3 requests, Redis, restarts, fair; 120k | a lapsed active offer leaves active |
| `designer_redis` | 1 offer, 4 requests, threshold 3, Redis, no restart; 70k | with all writers: the lifecycle promise and F-003; refused offers are never stored; a purchase POST finds its id free; every status is accounted for by a row, an answer or the date |
| `designer_memory` | 2 offers, 4 requests, threshold 1, in memory, restarts; 506k | the strong promise for all writers (each status follows the current one, or a restart forgets the offer); the stacking count never exceeds the offers past draft |
| `scout` | 1 member, 3 events, 2 calls, a day of 4 ticks, windows 1, 4 and 8, clock up to 10, restarts, fair; 238k | handlers that do not overlap keep the windows, and those that do break them in one burst only; every message counts; every taken call advances and is answered; `DeliveryPromise` is implemented |
| `claude_cache` | 4 requests for 3 objectives, 1 purchase, 3 calls, 2 entries, TTL 1, clock up to 2, restarts, fair; 231k | the cache is bounded and forgets nothing recent without need; every call advances and ends; `BriefPromise` is implemented |
| `scoring` | values on both sides of the limits, store lists of 0 to 2, any lookups failing; 3M | factors and total within their ranges; more never hurts; a failure never helps |
| `hub_terminal`, `designer_purchase`, `designer_auto_save`, `scout_rate_limit` | small | statements of the repository that the code does not keep (section 6) |

Why the bounds are enough. The races are between writers of one offer, so one
offer suffices except where the sweep's list matters. The longest one needs a
creation, two updates that read the same status, and a third that moves the
offer on: four requests. Two offers with three requests give the sweep two
snapshots and a stale writer on one of them. `StackThreshold` is 3 in the code;
it is 1 in `designer_memory` so that a count reached by one approval blocks the
next request within four requests. `designer_redis` has no restarts because
`EveryStatusIsTraced` speaks of a process that lives (audit tasks die with it);
restarts over Redis are in `hub_redis`, those of the composed process in
`designer_memory`, and both in the theorems. Symmetry (requests, offers) is used in
safety runs only. Deadlock is checked in every run but `scout_rate_limit`, where
the clock stops at its bound, and `scoring`, where one purchase is scored and
done: an instance whose requests are used up still sweeps. Of Scout, the limits relate the deliveries of one member two by two, so
one member and two calls suffice; its events are a plain purchase, one of high
value (which bypasses the longer window) and a refund. A tick is six hours, so
the windows of 6, 24 and 48 hours are 1, 4 and 8; the clock runs past the last,
so that the log is pruned. The cache needs three objectives to overflow two
entries, and three calls to have one refreshed, or evicted while another waits;
in two ticks an entry of TTL 1 is fresh, at its limit and expired. The sample
values of `scoring` lie on both sides of a limit of every scale but the longest
ones, which the proofs cover for all values.

### Fairness

`HubFairSpec` assumes what asyncio gives: a coroutine whose await is over is
resumed (weak fairness on the second half of an update and on the sweep's
steps). `SweepWake` is strongly fair, for restarts may put the task back to sleep
again and again. Of Redis it is assumed only that it does not fail *every*
listing, and does not fail *every* write of the same offer (strong fairness on
`SweepListed` and, per offer, on a successful `SweepExpire`); without that no
program could expire anything. No fairness is assumed of clients, of the clock
or of the audit tasks. `ScoutFairSpec` is weakly fair to each handler, for every
HTTP call it awaits has a time limit and every failure is caught; it does not
assume that the Designer or a message ever succeeds. `ClaudeFairSpec` is weakly
fair to each call: the SDK gives up on a request that is not answered, and the
pauses are finite; that Claude ever answers is not assumed.

## 4. Proofs

All theorems hold for any sets of offers, requests and members, for either
store, with or without restarts and audit failures; those of the Claude client for
any requests, limit and TTL; those of the scoring for any values.

* `OfferLifecycleProofs`. The abstract promise entails F-003
  (`LifecycleActiveWasApproved`) and that short-lived offers expire for good
  (`LifecycleShortLived`). The invariant says which statuses must precede which:
  a marketer's offer seen active has been seen approved, and whatever an absent
  offer has seen is nothing.
* `HubProofs`. The inductive invariant `HubInv` is the conjunction of
  - `HubTypeOK`;
  - `StoreRecorded`: what the store holds, its history contains;
  - `OpenTruthful`: a suspended update read a status the offer has had, with the
    offer's trigger, and the transition it is about to make was allowed from it.
    This is why a stale write is still a move of the weak promise;
  - `SweepTruthful`: a snapshot was active, dated, past its date, and in the
    history;
  - `MemorySerial`: in memory, a suspended copy is the current value, which
    gives the strong promise;
  - `AuditTruthful` itself.

  From it: `HubTypeCorrect`, `HubAuditTruthful`, `HubSweepExpiresLapsedOnly` and
  `HubImplementsLifecycle` (initial states map to initial states, each action to
  `Born`, `Move`, `Forget` or a stutter). `HubActiveWasApproved` and
  `HubShortLivedExpiresOnce` follow from the refinement and the theorems about
  `OfferLifecycle`, without going back to the handlers. `HubOneCreator`,
  `HubAcknowledgedIsAudited` and `HubStatusesAreTraced` have small invariants of
  their own, about answers, requests and rows; the last one goes through every
  action that gives an offer a status it has not had (`GainIsTraced`) and names
  the row, the date or the 503 that accounts for it.
  The last section is about what overlap costs. `WritersTakeTurns` says that no
  two writers of one offer (updates, the sweep) hold a copy of it at once. Then
  every copy is the stored offer (`FreshCopies`), so Redis gives the strong
  promise (`HubTurnsGiveStrongLifecycle`) and expired is terminal
  (`HubTurnsMakeExpiredTerminal`; with restarts only if the store outlives
  them). In memory writers always take turns, hence `HubMemoryExpiredIsTerminal`,
  without hypothesis on the behaviour. `WritersTakeTurns` is a hypothesis, not a
  fact about the code: `hub_terminal` is a behaviour without it.
* `DesignerProofs`. `DesignerInv` adds that an id in the store, in a suspended
  approval or in a POST under way was drawn before, that an id refused is in
  none of the three, and that approvals are truthful as updates are. It holds
  whatever Claude returns, and so do `DesignerTypeCorrect`,
  `DesignerRefusedNeverStored`, `DesignerPostsNeverConflict` (which justifies that
  `HubHandlesPost` has no case for 409), `DesignerAuditTruthful`,
  `DesignerAcknowledgedIsAudited`, `DesignerOneCreator`,
  `DesignerEveryStatusIsTraced` and `DesignerShortLivedExpiresOnce`. The last one
  rests on `SystemStores`: every step of the composed process but a restart makes at most
  one write, of an offer that is new or by a transition allowed from a status the
  offer has had. Only with which status an offer is *born* depends on Claude
  (`NewOfferStep`): if it returns drafts, auto-save stores drafts
  (`DesignerAutoSavedAsDraft`), and under `ClaudeObeys`, that no brief of Claude's
  is active already, `DesignerImplementsLifecycle` and `DesignerActiveWasApproved`
  hold. The argument about turns is repeated with approvals among the writers
  (`AllTakeTurns`, `SystemTurnStep`): `DesignerTurnsGiveStrongLifecycle`,
  `DesignerTurnsMakeExpiredTerminal`, and for the in-memory store, where the
  hypothesis is a consequence of `DesignerInv`, `DesignerMemoryExpiredIsTerminal`.
  `DesignerCountedOnce` bounds the counts: no write takes a stored offer
  back to draft (`NotDraftGrows`), and in memory an approval that writes still
  finds the draft it read, so each increment comes with one more offer past draft
  (`CountedStep`). It is a statement about cardinalities and asks for finitely many
  offer ids.
* `ScoutProofs`. `ScoutInv` strengthens the two safety properties by: identifiers
  are distinct (`Distinct`); an unforgotten delivery is in the log for as long as
  the retention lasts (`LogShows`), which is what lets `can_deliver` stand for
  the whole history although `record_delivery` prunes; a handler that awaits the
  Designer carries a decision that respects all deliveries it could know
  (`DecidedWell`), and a delivery recorded meanwhile is not among those. The
  lemma `CanDeliver` is the step from the log to the windows; it needs
  RateLimit <= DedupWindow <= Retention, which the settings satisfy. Results:
  `ScoutTypeCorrect`, `ScoutDecisionsRespectLog`, `ScoutMessagesAreCounted`, and
  `ScoutImplementsPromise`: an event whose handler awaits the Designer is a
  decision pending in `DeliveryPromise`, taken against all unforgotten
  deliveries although the log it was read from is pruned.

  Three results are about overlapping handlers. `ScoutLimitsBreakInBurstsOnly`
  needs that a handler lives through one tick at most (`Timely`) and that a
  delivery it does not know was recorded after its decision (`SeesPast`): what
  breaks a window is then an overlap, within a tick. `ScoutTurnsKeepLimit` assumes
  that no two handlers of one member await the Designer at once
  (`HandlersTakeTurns`, which the code does not ensure) and no restart, and
  concludes that the rate limit holds. `ScoutHandlersAdvance` is the measure of
  `StepsLeft`: whatever the Designer and the messages do, a handler has at most
  five steps left, and an answered call no handler.
* `DeliveryPromiseProofs`, `BriefPromiseProofs`. What the two promises are worth:
  `PromiseSpacesDecisions` (a decision taken in a tick after a delivery to the
  member respects both windows) and `PromiseMeansOwnBriefs` (F-001, one answer per
  call, each brief of its objective and in its time). Through the refinements
  they hold of the code's models, `ScoutDecisionsAreApart` and
  `ClaudeBriefsAreOwn`.
* `ClaudeApiProofs`. `ClaudeInv`: the types, with three attempts at most; the
  cache fits (its limit, one entry per key, and each entry is a brief of that key
  made exactly a TTL before it expires); a brief's id is that of a call that has
  arrived and is not open, which is why no id is given twice. From it
  `ClaudeTypeCorrect`, `ClaudeCacheBounded` and `ClaudeImplementsPromise`.
  `ClaudeRecentIsCached` adds that the keys in the cache are among the objectives
  served since the start (`KeysServed`): while those fit, a store that must make
  room would find more keys than there are, so nothing is evicted, and an entry is
  only ever deleted past its time. It asks for finitely many objectives.
  `ClaudeCallsAdvance` counts the attempts and pauses that a call has left.
* `ContextScoringProofs`. Lemmas give the range of each factor and show that each
  scale grows with its argument; `Clamp` keeps the order of sums. Results:
  `ScoringTypeCorrect`, `ScoringMoreNeverHurts`, `ScoringFailureNeverHelps`.

The assumptions are those of the modules on their constants and, where a theorem
says so, finitely many ids or texts, one of the two stores, or no restarts. What
is assumed of others is named: `ClaudeObeys`, which the code does not ensure
(section 6, `designer_auto_save`; without it the lifecycle promise of the
composed system is false), and the hypotheses about turns, `WritersTakeTurns`,
`AllTakeTurns` and `HandlersTakeTurns`, which behaviours of the code violate and
others satisfy.

Only model-checked: `LapsedLeavesActive`, `TakenIsAnswered` and `EveryCallEnds`,
which are liveness under fairness and beyond the prover. Of the last two the
safety half is proved (`HandlersAdvance`, `CallsAdvance`): no behaviour has a
handler or a call go round for ever, so that fairness is all they lack. Every
invariant and action property of the passing runs is a theorem.

## 5. Not modelled, and why

Built, in this order: `OfferModel`, `OfferLifecycle`, `HubStore`, `Hub`,
`Designer`, `Scout` with `DeliveryPromise`, `ClaudeApi` with `BriefPromise`,
`ContextScoring`, each with its proofs. What is left out:

* *Scout service token* (`scout_service_auth.py`). Get and refresh run without a
  suspension between the check of the expiry and the use of the token, and a
  token is replaced with a fifth of its life left, far more than the thirty
  seconds of the call it is for: no order of steps can make it stale.
* *The filters of GET /offers.* They change no state. A naive `created_at`
  compared with an aware `since` (`hub_store.py:67`) raises TypeError, which the
  Redis store turns into 503 and the other one does not; that is a fact about one
  expression and has no behaviour over several steps.
* *Scout composed with Designer.* As the code stands the Designer never answers
  201 to a purchase (`designer_purchase`), so the composition would only take the
  failing branch of Scout, which `Scout` has.
* *Designer UI.* The optimistic approval has one request under way and a button
  disabled meanwhile; its roll-back sets back what was on the screen. *Hub UI*
  and the other components render.
* *JWT and roles*: stateless, a library. *Configuration*: constants.
  *Inventory suggestions*: a sorted CSV file. *Compliance log*: log lines.

## 6. Where code and statement differ

Each of these has a run whose counterexample TLC prints.

* `hub_terminal`: "expired" is called terminal and its race deterministic, yet an
  activation that read `approved` before another activation and the sweep
  writes `active` over `expired`. The weak promise that *is* kept says that the
  offer had been approved. The offer is swept again later (`hub_live_redis`). The
  overlap is the only cause: with writers that take turns, and in memory, expired
  is terminal (`HubTurnsMakeExpiredTerminal`, `HubMemoryExpiredIsTerminal`).
* `designer_purchase`: after the Hub has saved the offer the client logs
  `offer.status.value` of a plain string and fails: 500, not counted, not
  delivered.
* `designer_auto_save`: "auto-save as draft" saves whatever status Claude wrote;
  it is kept exactly as far as Claude returns drafts (`DesignerAutoSavedAsDraft`).
* `scout_rate_limit`: "max 1 purchase-triggered offer per member per 6h" holds
  between handlers that do not overlap (`DecisionsRespectLog`), not between two
  that await the Designer at the same time. Overlap is again the only cause
  (`ScoutTurnsKeepLimit`), and a broken limit means one burst
  (`LimitsBreakInBurstsOnly`).

More were met and have no run of their own.

* The audit log, said to hold "all Hub state changes" (`hub_audit_service.py:1`),
  has no row for what the sweep, the auto-save and the approval change: they
  schedule none. `StatusesAreTraced` says what does hold of the Hub's own writers,
  `EveryStatusIsTraced` of all of them.
* `approve_offer`, said to move draft to approved, writes `approved` over an offer
  that has moved on since it was read: the same race as `hub_terminal`.
* "offer not saved" (`designer.py:128`) is also said when the SET took effect and
  its reply was lost.
* The "active offer count" of the fraud check (`fraud_check_service.py:31`) is
  never lowered when an offer expires. Its comment (line 46) flags "more than 3
  active offers", the code blocks at three.
* An offer queued "for 8am delivery" (`delivery_constraint_service.py:62`) is never
  taken from the queue, which holds one per member.
* A purchase whose pushes and mail all fail is answered
  "offer_generated_and_delivered".
* The docstring of the scoring has "score > 70.0"
  (`context_scoring_service.py:13`), and the Designer's `verification_report.md:139`
  says that the code compares with `>`; it compares with `>=`, as EC-016
  (`problem_spec.md:474`) asks.
* EC-012 (`problem_spec.md:462`) has generation skipped when no Canadian Tire store
  is near, and `verification_report.md:135` says the total then stays below 70. The
  other six factors reach 85, and no store is asked for.
* EC-010 (`problem_spec.md:456`) speaks of purchases of one member within a minute;
  the code drops repeated event ids only.
* Segment hints go into the prompt and not into the key of the cache, so a request
  with other hints is served the first one's brief. `BriefPromise` counts the two
  as the same, as the code does.
* Of "evict oldest entry" (`claude_api.py:74`), oldest is the first inserted; an
  entry that was refreshed keeps its place and may go before an older one. Calls that miss
  together each call Claude.
* Three delays are listed for Claude's attempts; the last one is never slept.
