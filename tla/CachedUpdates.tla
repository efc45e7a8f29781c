--------------------------- MODULE CachedUpdates ---------------------------
(***************************************************************************)
(* service.process over the cache: a worker gets a rate from Cache.Rate,   *)
(* stamps the quote with time.Now() and upserts it.  The cache hands out   *)
(* the FetchedAt of the real call, the quote carries the stamp: how far    *)
(* apart can they be?  RateCache lets a goroutine run arbitrarily late;    *)
(* here Lag bounds how long it may take over code that waits for nothing.  *)
(***************************************************************************)
EXTENDS RateCache

CONSTANT Lag    \* from the provider's answer to the store, from Rate to the stamp

ASSUME LagAssumption == Lag \in Nat

VARIABLES
  update,       \* per worker: the rate it holds outside Cache.Rate
  quotes        \* the table: when the data was fetched, and updated_at

updateVars == <<vars, update, quotes>>

NoQuote == [fetchedAt |-> Never, updatedAt |-> Never]

QuoteOf == [fetchedAt : Nat \cup {Never}, updatedAt : Nat \cup {Never}]

(* `since` is when Cache.Rate returned, later the stamp of the quote. *)
Update == [at : {"none", "stamp", "upsert"}, pair : Pairs, fetchedAt : Nat \cup {Never},
           since : Nat]

UpdatesInit ==
  /\ Init
  /\ update \in [Callers -> [at : {"none"}, pair : Pairs, fetchedAt : {0}, since : {0}]]
  /\ quotes = [p \in Pairs |-> NoQuote]

(* Cache.Rate returns a rate with its FetchedAt to process. *)
RateReturns(c, p, t) ==
  update' = [update EXCEPT ![c] = [at |-> "stamp", pair |-> p, fetchedAt |-> t, since |-> now]]

(* Mutant: a hit prolongs the entry (a sliding expiry). *)
HitProlongs(c) ==
  /\ call[c].at = "idle" /\ update[c].at = "none"
  /\ \E p \in Pairs :
       /\ Fresh(p)
       /\ RateReturns(c, p, entries[p].fetchedAt)
       /\ entries' = [entries EXCEPT ![p].expiresAt = now + TTL]
  /\ UNCHANGED <<now, call, paid, quotes>>

HitReturns(c) ==
  /\ call[c].at = "idle" /\ update[c].at = "none"
  /\ \E p \in Pairs : Fresh(p) /\ RateReturns(c, p, entries[p].fetchedAt)
  /\ UNCHANGED <<vars, quotes>>

MissBegins(c) == update[c].at = "none" /\ Miss(c) /\ UNCHANGED <<update, quotes>>

(* Without a cache the answer goes straight to process. *)
Answer(c) ==
  /\ Fetched(c)
  /\ IF TTL > 0 THEN UNCHANGED update ELSE RateReturns(c, call[c].pair, now)
  /\ UNCHANGED quotes

(* A failed call fails its request: there is no quote to write. *)
AnswerFails(c) == InnerFails(c) /\ UNCHANGED <<update, quotes>>

StoreReturns(c) ==
  /\ Store(c)
  /\ RateReturns(c, call[c].pair, call[c].fetchedAt)
  /\ UNCHANGED quotes

(* now := time.Now().UTC() *)
Stamp(c) ==
  /\ update[c].at = "stamp"
  /\ update' = [update EXCEPT ![c].at = "upsert", ![c].since = now]
  /\ UNCHANGED <<vars, quotes>>

(* UpsertQuote, which may fail without effect. *)
Publish(c) ==
  /\ update[c].at = "upsert"
  /\ \/ quotes' = [quotes EXCEPT ![update[c].pair] =
                     [fetchedAt |-> update[c].fetchedAt, updatedAt |-> update[c].since]]
     \/ UNCHANGED quotes
  /\ update' = [update EXCEPT ![c].at = "none"]
  /\ UNCHANGED vars

Overdue(c) ==
  \/ call[c].at = "store" /\ now >= call[c].fetchedAt + Lag
  \/ update[c].at = "stamp" /\ now >= update[c].since + Lag

(* Time waits for a goroutine that is Lag behind; calls take any time. *)
LaggedTick == Tick /\ (\A c \in Callers : ~Overdue(c)) /\ UNCHANGED <<update, quotes>>

WorkerStep(c) ==
  \/ HitReturns(c) \/ MissBegins(c) \/ Answer(c) \/ AnswerFails(c)
  \/ StoreReturns(c) \/ Stamp(c) \/ Publish(c)

UpdatesNext == LaggedTick \/ \E c \in Callers : WorkerStep(c)

UpdatesSpec == UpdatesInit /\ [][UpdatesNext]_updateVars

-----------------------------------------------------------------------------
(* Every variable has its type. *)
UpdatesTypeOK ==
  /\ TypeOK
  /\ update \in [Callers -> Update]
  /\ quotes \in [Pairs -> QuoteOf]

(* The age a quote may hide behind its updated_at.  *)
Young(fetched, stamped) ==
  stamped - fetched < IF TTL > 0 THEN TTL + 2 * Lag ELSE Lag + 1

(* A published quote claims at most TTL, and twice the lag of a goroutine, *)
(* more freshness than its data has: hits do not prolong an entry, however *)
(* many workers hit it (service.go:226, cached.go:62-65).                  *)
QuoteDataIsYoung ==
  \A p \in Pairs : quotes[p] # NoQuote => Young(quotes[p].fetchedAt, quotes[p].updatedAt)

(* The cached data of a pair goes back in time by no more than a goroutine *)
(* lags, although the second critical section overwrites blindly           *)
(* (cached.go:85-87).                                                      *)
EntryHardlyRegresses ==
  [][\A p \in Pairs : entries'[p].fetchedAt >= entries[p].fetchedAt - Lag]_entries

=============================================================================
