------------------------------- MODULE HubStore -------------------------------
(***************************************************************************)
(* The Hub's offer store (services/hub_store.py) behind its protocol: get, *)
(* save, update, list.  One module stands for both implementations, as     *)
(* get_hub_store() selects one from HUB_REDIS_ENABLED:                     *)
(*                                                                         *)
(*   InMemoryHubStore   a dict of the process.  Its coroutines never       *)
(*                      suspend, nothing fails, a restart empties it.      *)
(*   RedisHubStore      one key per offer.  Each command takes effect at   *)
(*                      one instant; the caller is suspended meanwhile.    *)
(*                      A command may fail before it takes effect          *)
(*                      ("down") or after, its reply lost ("lost"); the    *)
(*                      caller sees RedisUnavailableError for both.        *)
(***************************************************************************)
EXTENDS OfferModel

CONSTANT RedisEnabled   \* settings.HUB_REDIS_ENABLED

ASSUME RedisEnabledAssumption == RedisEnabled \in BOOLEAN

VARIABLES store,   \* [Offers -> Brief \cup {NoOffer}]
          seen     \* history: the statuses the store has ever held per offer

storeVars == <<store, seen>>

StoreTypeOK ==
  /\ store \in [Offers -> Brief \cup {NoOffer}]
  /\ seen \in [Offers -> SUBSET Status]

StoreInit ==
  /\ store = [o \in Offers |-> NoOffer]
  /\ seen = [o \in Offers |-> {}]

ReadOutcomes  == IF RedisEnabled THEN {"ok", "down"} ELSE {"ok"}
WriteOutcomes == IF RedisEnabled THEN {"ok", "down", "lost"} ELSE {"ok"}

Stored == {o \in Offers : store[o] # NoOffer}

Put(o, b) ==
  /\ store' = [store EXCEPT ![o] = b]
  /\ seen' = [seen EXCEPT ![o] = @ \cup {b.status}]

(* SET NX, or "if offer_id in self._store: raise": never overwrites.       *)
save(o, b, out) ==
  IF out # "down" /\ o \notin Stored THEN Put(o, b) ELSE UNCHANGED storeVars

(* Plain SET: neither the key's existence nor its value is looked at.      *)
update(o, b, out) ==
  IF out # "down" THEN Put(o, b) ELSE UNCHANGED storeVars

(* What a new process finds.                                               *)
StoreRestart ==
  /\ store' = IF RedisEnabled THEN store ELSE [o \in Offers |-> NoOffer]
  /\ UNCHANGED seen

===============================================================================
