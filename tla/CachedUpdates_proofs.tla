------------------------- MODULE CachedUpdates_proofs -------------------------
(* Proofs about RateCache and CachedUpdates, for every set of workers and  *)
(* pairs, every TTL, lag and bound.  The workers over the cache implement  *)
(* RateCache, so what is proved of the cache first holds of them.          *)
EXTENDS CachedUpdates, TLAPS

-----------------------------------------------------------------------------
(* The cache alone: whatever its callers do with what it returns. *)

SinceInPast == \A c \in Callers : call[c].since <= now

IInv ==
  /\ TypeOK /\ SinceInPast
  /\ EntryOutlivesPayments /\ CallerPaysOncePerTTL /\ PaidAgainOnlyByOverlap

(* Nothing is cached and nothing is paid at first. *)
LEMMA InitIInv == Init => IInv
<1> SUFFICES ASSUME Init PROVE IInv
  OBVIOUS
<1>1. TypeOK
  BY CacheAssumption DEF Init, TypeOK, Entry, Call, Never
<1>2. /\ EntryOutlivesPayments /\ CallerPaysOncePerTTL /\ PaidAgainOnlyByOverlap
      /\ SinceInPast
  BY DEF Init, EntryOutlivesPayments, CallerPaysOncePerTTL, PaidAgainOnlyByOverlap, SinceInPast
<1> QED
  BY <1>1, <1>2 DEF IInv

(* Every step preserves the inductive invariant: whoever misses has let *)
(* all its payments for the pair grow older than the TTL.              *)
LEMMA NextIInv == IInv /\ [Next]_vars => IInv'
<1> SUFFICES ASSUME IInv, [Next]_vars PROVE IInv'
  OBVIOUS
<1> USE CacheAssumption DEF IInv, TypeOK, Entry, Call, Never
<1>1. ASSUME NEW c \in Callers, Miss(c)
      PROVE  IInv'
  <2>1. PICK p \in Pairs :
          /\ ~Fresh(p)
          /\ call' = [call EXCEPT ![c] =
                        [at |-> "inner", pair |-> p, since |-> now, fetchedAt |-> 0]]
    BY <1>1 DEF Miss
  <2>2. UNCHANGED <<now, entries, paid>>
    BY <1>1 DEF Miss
  <2>3. TypeOK' /\ EntryOutlivesPayments' /\ SinceInPast'
    BY <2>1, <2>2 DEF EntryOutlivesPayments, SinceInPast
  <2>4. TTL > 0 => \A d \in Callers : paid[d][p] # Never => now >= paid[d][p] + TTL
    <3> SUFFICES ASSUME TTL > 0, NEW d \in Callers, paid[d][p] # Never
                 PROVE  now >= paid[d][p] + TTL
      OBVIOUS
    <3>1. entries[p].expiresAt >= paid[d][p] + TTL
      BY DEF EntryOutlivesPayments
    <3>2. ~(now < entries[p].expiresAt)
      BY <2>1 DEF Fresh
    <3>3. now \in Int /\ entries[p].expiresAt \in Int /\ paid[d][p] \in Int /\ TTL \in Int
      OBVIOUS
    <3> QED
      BY <3>1, <3>2, <3>3
  <2>5. CallerPaysOncePerTTL'
    BY <2>1, <2>2, <2>4 DEF CallerPaysOncePerTTL
  <2>6. PaidAgainOnlyByOverlap'
    <3> SUFFICES ASSUME TTL > 0, NEW e \in Callers, NEW d \in Callers,
                        call'[e].at \in {"inner", "store"}, paid'[d][call'[e].pair] # Never
                 PROVE  \/ call'[e].since <= paid'[d][call'[e].pair]
                        \/ call'[e].since >= paid'[d][call'[e].pair] + TTL
      BY DEF PaidAgainOnlyByOverlap
    <3>1. CASE e = c
      BY <2>1, <2>2, <2>4, <3>1
    <3>2. CASE e # c
      BY <2>1, <2>2, <3>2 DEF PaidAgainOnlyByOverlap
    <3> QED
      BY <3>1, <3>2
  <2> QED
    BY <2>3, <2>5, <2>6
<1>2. ASSUME NEW c \in Callers, Fetched(c) \/ InnerFails(c)
      PROVE  IInv'
  <2>1. \E at \in {"idle", "store"}, f \in Nat :
          call' = [call EXCEPT ![c].at = at, ![c].fetchedAt = f]
    <3>1. CASE Fetched(c)
      <4> DEFINE at == IF TTL > 0 THEN "store" ELSE "idle"
      <4>1. at \in {"idle", "store"} /\ now \in Nat
        OBVIOUS
      <4>2. call' = [call EXCEPT ![c].at = at, ![c].fetchedAt = now]
        BY <3>1 DEF Fetched
      <4> HIDE DEF at
      <4> QED
        BY <4>1, <4>2
    <3>2. CASE InnerFails(c)
      <4>1. call' = [call EXCEPT ![c].at = "idle", ![c].fetchedAt = call[c].fetchedAt]
        BY <3>2 DEF InnerFails
      <4> QED
        BY <4>1
    <3> QED
      BY <1>2, <3>1, <3>2
  <2>2. call[c].at = "inner"
    BY <1>2 DEF Fetched, InnerFails
  <2>3. /\ UNCHANGED <<now, entries, paid>>
        /\ call' \in [Callers -> Call]
        /\ \A d \in Callers : /\ call'[d].pair = call[d].pair /\ call'[d].since = call[d].since
                              /\ call'[d].at \in {"inner", "store"}
                                   => call[d].at \in {"inner", "store"}
    BY <1>2, <2>1, <2>2 DEF Fetched, InnerFails
  <2>4. TypeOK' /\ SinceInPast' /\ EntryOutlivesPayments' /\ CallerPaysOncePerTTL'
    BY <2>3 DEF EntryOutlivesPayments, CallerPaysOncePerTTL, SinceInPast
  <2>5. PaidAgainOnlyByOverlap'
    BY <2>3 DEF PaidAgainOnlyByOverlap
  <2> QED
    BY <2>4, <2>5
<1>3. ASSUME NEW c \in Callers, Store(c)
      PROVE  IInv'
  <2> DEFINE p == call[c].pair
  <2>1. p \in Pairs /\ now \in Nat
    OBVIOUS
  <2>2. /\ now' = now
        /\ call' = [call EXCEPT ![c].at = "idle"]
        /\ paid' = [paid EXCEPT ![c][p] = now]
        /\ entries' = [entries EXCEPT ![p] =
                         [fetchedAt |-> call[c].fetchedAt, expiresAt |-> now + TTL]]
    BY <1>3 DEF Store
  <2>3. TypeOK'
    BY <2>1, <2>2
  <2>4. \A d \in Callers, r \in Pairs :
          paid'[d][r] = paid[d][r] \/ (d = c /\ r = p /\ paid'[d][r] = now)
    BY <2>1, <2>2
  <2>5. \A r \in Pairs : IF r = p THEN entries'[r].expiresAt = now + TTL
                                  ELSE entries'[r] = entries[r]
    BY <2>1, <2>2
  <2> HIDE DEF p
  <2>6. EntryOutlivesPayments'
    <3> SUFFICES ASSUME NEW d \in Callers, NEW r \in Pairs, paid'[d][r] # Never
                 PROVE  paid'[d][r] <= now /\ entries'[r].expiresAt >= paid'[d][r] + TTL
      BY <2>2 DEF EntryOutlivesPayments
    <3>1. paid'[d][r] \in Nat /\ paid'[d][r] <= now
      <4>1. CASE paid'[d][r] = paid[d][r]
        BY <4>1 DEF EntryOutlivesPayments
      <4>2. CASE paid'[d][r] = now
        BY <2>1, <4>2
      <4> QED
        BY <2>4, <4>1, <4>2
    <3>2. CASE r = p
      BY <2>1, <2>5, <3>1, <3>2
    <3>3. CASE r # p
      BY <2>4, <2>5, <3>1, <3>3 DEF EntryOutlivesPayments
    <3> QED
      BY <3>1, <3>2, <3>3
  <2>7. CallerPaysOncePerTTL'
    <3> SUFFICES ASSUME TTL > 0, NEW d \in Callers, call'[d].at \in {"inner", "store"},
                        paid'[d][call'[d].pair] # Never
                 PROVE  call'[d].since >= paid'[d][call'[d].pair] + TTL
      BY DEF CallerPaysOncePerTTL
    <3>1. d # c /\ call'[d] = call[d]
      BY <2>2
    <3>2. paid'[d][call[d].pair] = paid[d][call[d].pair]
      BY <2>4, <3>1
    <3> QED
      BY <3>1, <3>2 DEF CallerPaysOncePerTTL
  <2>8. PaidAgainOnlyByOverlap'
    <3> SUFFICES ASSUME TTL > 0, NEW e \in Callers, NEW d \in Callers,
                        call'[e].at \in {"inner", "store"}, paid'[d][call'[e].pair] # Never
                 PROVE  \/ call'[e].since <= paid'[d][call'[e].pair]
                        \/ call'[e].since >= paid'[d][call'[e].pair] + TTL
      BY DEF PaidAgainOnlyByOverlap
    <3>1. e # c /\ call'[e] = call[e]
      BY <2>2
    <3>2. CASE paid'[d][call[e].pair] = paid[d][call[e].pair]
      BY <3>1, <3>2 DEF PaidAgainOnlyByOverlap
    <3>3. CASE paid'[d][call[e].pair] = now
      BY <3>1, <3>3 DEF SinceInPast
    <3> QED
      BY <2>4, <3>1, <3>2, <3>3
  <2>9. SinceInPast'
    BY <2>2 DEF SinceInPast
  <2> QED
    BY <2>3, <2>6, <2>7, <2>8, <2>9
<1>4. CASE Tick
  BY <1>4 DEF Tick, EntryOutlivesPayments, CallerPaysOncePerTTL, PaidAgainOnlyByOverlap, SinceInPast
<1>5. CASE UNCHANGED vars \/ \E c \in Callers : Hit(c)
  BY <1>5 DEF vars, Hit, EntryOutlivesPayments, CallerPaysOncePerTTL, PaidAgainOnlyByOverlap,
              SinceInPast
<1> QED
  BY <1>1, <1>2, <1>3, <1>4, <1>5 DEF Next

LEMMA Invariance == Spec => []IInv
BY InitIInv, NextIInv, PTL DEF Spec

(* One caller never pays twice for a pair within the TTL (cached.go:66-91): *)
(* the saving the cache gives although concurrent misses each pay.          *)
THEOREM CallerPaysOnce == Spec => []CallerPaysOncePerTTL
<1>1. IInv => CallerPaysOncePerTTL
  BY DEF IInv
<1> QED
  BY Invariance, <1>1, PTL

(* Two calls that pay for a pair within the TTL overlap (cached.go:66-91): *)
(* with any number of workers, and for every TTL.                          *)
THEOREM OverlapOnly == Spec => []PaidAgainOnlyByOverlap
<1>1. IInv => PaidAgainOnlyByOverlap
  BY DEF IInv
<1> QED
  BY Invariance, <1>1, PTL

-----------------------------------------------------------------------------
(* The workers use the cache as its own specification allows. *)
THEOREM UsesTheCache == UpdatesSpec => Spec
<1>1. UpdatesInit => Init
  BY DEF UpdatesInit
<1>2. [UpdatesNext]_updateVars => [Next]_vars
  <2> SUFFICES ASSUME [UpdatesNext]_updateVars PROVE [Next]_vars
    OBVIOUS
  <2>1. CASE LaggedTick
    BY <2>1 DEF LaggedTick, Next
  <2>2. ASSUME NEW c \in Callers, WorkerStep(c) PROVE [Next]_vars
    BY <2>2 DEF WorkerStep, HitReturns, MissBegins, Answer, AnswerFails, StoreReturns, Stamp,
                Publish, Next
  <2>3. CASE UNCHANGED updateVars
    BY <2>3 DEF updateVars
  <2> QED
    BY <2>1, <2>2, <2>3 DEF UpdatesNext
<1> QED
  BY <1>1, <1>2, PTL DEF UpdatesSpec, Spec

(* Under the workers, too, calls that pay within the TTL overlap: two      *)
(* quotes a TTL apart cost two calls, however many requests there were     *)
(* (cached.go:66-91, service.go:210-243).                                  *)
THEOREM WorkersPayByOverlap ==
  UpdatesSpec => [](CallerPaysOncePerTTL /\ PaidAgainOnlyByOverlap)
<1>1. Spec => [](CallerPaysOncePerTTL /\ PaidAgainOnlyByOverlap)
  BY CallerPaysOnce, OverlapOnly, PTL
<1> QED
  BY <1>1, UsesTheCache

-----------------------------------------------------------------------------
(* What is on its way to the cache or to the table is late by Lag at most. *)

StoreOnTime ==
  \A c \in Callers : call[c].at = "store" =>
    TTL > 0 /\ call[c].fetchedAt <= now /\ now <= call[c].fetchedAt + Lag

EntriesShort ==
  \A p \in Pairs :
    /\ entries[p].fetchedAt <= now
    /\ entries[p].fetchedAt = Never => entries[p].expiresAt = Never
    /\ entries[p].expiresAt <= entries[p].fetchedAt + Lag + TTL

(* The age of a rate when Cache.Rate returns it. *)
HandedOutYoung(fetched, returned) ==
  fetched # Never /\ returned - fetched < IF TTL > 0 THEN TTL + Lag ELSE 1

StampOnTime ==
  \A c \in Callers : update[c].at = "stamp" =>
    /\ update[c].since <= now /\ now <= update[c].since + Lag
    /\ HandedOutYoung(update[c].fetchedAt, update[c].since)

UpsertYoung ==
  \A c \in Callers : update[c].at = "upsert" =>
    update[c].fetchedAt # Never /\ Young(update[c].fetchedAt, update[c].since)

UInv ==
  UpdatesTypeOK /\ StoreOnTime /\ EntriesShort /\ StampOnTime /\ UpsertYoung /\ QuoteDataIsYoung

LEMMA InitUInv == UpdatesInit => UInv
<1> SUFFICES ASSUME UpdatesInit PROVE UInv
  OBVIOUS
<1>1. UpdatesTypeOK
  <2>1. TypeOK
    BY InitIInv DEF UpdatesInit, IInv
  <2> QED
    BY <2>1 DEF UpdatesInit, UpdatesTypeOK, Update, QuoteOf, NoQuote
<1>2. StoreOnTime /\ EntriesShort /\ StampOnTime /\ UpsertYoung /\ QuoteDataIsYoung
  BY CacheAssumption, LagAssumption
     DEF UpdatesInit, Init, StoreOnTime, EntriesShort, StampOnTime, UpsertYoung,
         QuoteDataIsYoung, NoQuote, Never
<1> QED
  BY <1>1, <1>2 DEF UInv

(* Cache.Rate hands a young rate to process. *)
LEMMA ReturnKeeps ==
  ASSUME UInv, NEW c \in Callers, NEW p \in Pairs, NEW t \in Nat,
         RateReturns(c, p, t), HandedOutYoung(t, now), now' = now, UNCHANGED quotes
  PROVE  /\ update' \in [Callers -> Update]
         /\ StampOnTime' /\ UpsertYoung' /\ QuoteDataIsYoung'
<1> USE DEF UInv, UpdatesTypeOK, TypeOK
<1>1. now \in Nat /\ Lag \in Nat
  BY LagAssumption
<1>2. update' \in [Callers -> Update]
  BY <1>1 DEF RateReturns, Update
<1>3. /\ update'[c] = [at |-> "stamp", pair |-> p, fetchedAt |-> t, since |-> now]
      /\ \A d \in Callers \ {c} : update'[d] = update[d]
  BY DEF RateReturns
<1>4. StampOnTime'
  BY <1>1, <1>3 DEF StampOnTime, HandedOutYoung
<1>5. UpsertYoung'
  BY <1>3 DEF UpsertYoung, Young
<1>6. QuoteDataIsYoung'
  BY DEF QuoteDataIsYoung, Young
<1> QED
  BY <1>2, <1>4, <1>5, <1>6

LEMMA NextUInv == UInv /\ IInv' /\ [UpdatesNext]_updateVars => UInv'
<1> SUFFICES ASSUME UInv, TypeOK', [UpdatesNext]_updateVars PROVE UInv'
  BY DEF IInv
<1> USE CacheAssumption, LagAssumption DEF UInv, UpdatesTypeOK
<1>t. /\ now \in Nat /\ TTL \in Nat /\ Lag \in Nat
      /\ \A c \in Callers : call[c] \in Call /\ update[c] \in Update
      /\ \A p \in Pairs : entries[p] \in Entry /\ quotes[p] \in QuoteOf
  BY DEF TypeOK
<1>1. ASSUME NEW c \in Callers, HitReturns(c) PROVE UInv'
  <2>1. PICK p \in Pairs : Fresh(p) /\ RateReturns(c, p, entries[p].fetchedAt)
    BY <1>1 DEF HitReturns
  <2>2. UNCHANGED <<now, entries, call, paid, quotes>>
    BY <1>1 DEF HitReturns, vars
  <2>3. entries[p].fetchedAt \in Nat /\ HandedOutYoung(entries[p].fetchedAt, now)
    BY <1>t, <2>1 DEF Fresh, EntriesShort, HandedOutYoung, Entry, Never
  <2>4. update' \in [Callers -> Update] /\ StampOnTime' /\ UpsertYoung' /\ QuoteDataIsYoung'
    BY <2>1, <2>2, <2>3, ReturnKeeps
  <2> QED
    BY <2>2, <2>4 DEF StoreOnTime, EntriesShort
<1>2. ASSUME NEW c \in Callers, MissBegins(c) PROVE UInv'
  <2>1. UNCHANGED <<now, entries, update, quotes>>
    BY <1>2 DEF MissBegins, Miss
  <2>2. StoreOnTime'
    BY <1>2, <1>t, <2>1 DEF MissBegins, Miss, StoreOnTime, TypeOK, Call
  <2> QED
    BY <2>1, <2>2 DEF EntriesShort, StampOnTime, UpsertYoung, QuoteDataIsYoung
<1>3. ASSUME NEW c \in Callers, Answer(c) PROVE UInv'
  <2>1. UNCHANGED <<now, entries, quotes>>
    BY <1>3 DEF Answer, Fetched
  <2>2. StoreOnTime'
    BY <1>3, <1>t, <2>1 DEF Answer, Fetched, StoreOnTime, TypeOK, Call
  <2>3. update' \in [Callers -> Update] /\ StampOnTime' /\ UpsertYoung' /\ QuoteDataIsYoung'
    <3>1. CASE TTL > 0
      BY <1>3, <2>1, <3>1 DEF Answer, StampOnTime, UpsertYoung, QuoteDataIsYoung
    <3>2. CASE ~(TTL > 0)
      <4>1. RateReturns(c, call[c].pair, now) /\ call[c].pair \in Pairs
        BY <1>3, <1>t, <3>2 DEF Answer, Call
      <4>2. HandedOutYoung(now, now)
        BY <1>t, <3>2 DEF HandedOutYoung, Never
      <4> QED
        BY <1>t, <2>1, <4>1, <4>2, ReturnKeeps
    <3> QED
      BY <3>1, <3>2
  <2> QED
    BY <2>1, <2>2, <2>3 DEF EntriesShort
<1>4. ASSUME NEW c \in Callers, AnswerFails(c) PROVE UInv'
  <2>1. UNCHANGED <<now, entries, update, quotes>>
    BY <1>4 DEF AnswerFails, InnerFails
  <2>2. StoreOnTime'
    BY <1>4, <1>t, <2>1 DEF AnswerFails, InnerFails, StoreOnTime, TypeOK, Call
  <2> QED
    BY <2>1, <2>2 DEF EntriesShort, StampOnTime, UpsertYoung, QuoteDataIsYoung
<1>5. ASSUME NEW c \in Callers, StoreReturns(c) PROVE UInv'
  <2> DEFINE p == call[c].pair
             f == call[c].fetchedAt
  <2>1. /\ p \in Pairs /\ f \in Nat
        /\ TTL > 0 /\ f <= now /\ now <= f + Lag
    BY <1>5, <1>t DEF StoreReturns, Store, StoreOnTime, Call
  <2>2. /\ now' = now /\ UNCHANGED quotes
        /\ entries' = [entries EXCEPT ![p] = [fetchedAt |-> f, expiresAt |-> now + TTL]]
        /\ call' = [call EXCEPT ![c].at = "idle"]
        /\ RateReturns(c, p, f)
    BY <1>5 DEF StoreReturns, Store
  <2> HIDE DEF p, f
  <2>3. HandedOutYoung(f, now)
    BY <1>t, <2>1 DEF HandedOutYoung, Never
  <2>4. update' \in [Callers -> Update] /\ StampOnTime' /\ UpsertYoung' /\ QuoteDataIsYoung'
    BY <2>1, <2>2, <2>3, ReturnKeeps
  <2>5. EntriesShort'
    <3>1. entries'[p] = [fetchedAt |-> f, expiresAt |-> now + TTL]
      BY <2>1, <2>2 DEF TypeOK
    <3>2. \A q \in Pairs \ {p} : entries'[q] = entries[q]
      BY <2>2 DEF TypeOK
    <3> QED
      BY <1>t, <2>1, <2>2, <3>1, <3>2 DEF EntriesShort, Never
  <2>6. StoreOnTime'
    BY <2>2 DEF StoreOnTime, TypeOK
  <2>7. UNCHANGED quotes
    BY <2>2
  <2> QED
    BY <2>4, <2>5, <2>6, <2>7
<1>6. ASSUME NEW c \in Callers, Stamp(c) PROVE UInv'
  <2>1. /\ UNCHANGED <<now, entries, call, paid, quotes>>
        /\ update' = [update EXCEPT ![c].at = "upsert", ![c].since = now]
        /\ update[c].at = "stamp"
    BY <1>6 DEF Stamp, vars
  <2>2. update' \in [Callers -> Update]
    BY <1>t, <2>1 DEF Update
  <2>3. Young(update[c].fetchedAt, now) /\ update[c].fetchedAt # Never
    BY <1>t, <2>1 DEF StampOnTime, HandedOutYoung, Young, Update, Never
  <2>4. StampOnTime' /\ UpsertYoung'
    BY <2>1, <2>3 DEF StampOnTime, UpsertYoung, Young
  <2> QED
    BY <2>1, <2>2, <2>4 DEF StoreOnTime, EntriesShort, QuoteDataIsYoung
<1>7. ASSUME NEW c \in Callers, Publish(c) PROVE UInv'
  <2>1. /\ UNCHANGED <<now, entries, call, paid>>
        /\ update' = [update EXCEPT ![c].at = "none"]
        /\ update[c].at = "upsert"
        /\ \/ quotes' = [quotes EXCEPT ![update[c].pair] =
                   [fetchedAt |-> update[c].fetchedAt, updatedAt |-> update[c].since]]
           \/ UNCHANGED quotes
    BY <1>7 DEF Publish, vars
  <2>2. update' \in [Callers -> Update] /\ StampOnTime' /\ UpsertYoung'
    BY <1>t, <2>1 DEF Update, StampOnTime, UpsertYoung
  <2>3. update[c].pair \in Pairs /\ Young(update[c].fetchedAt, update[c].since)
    BY <1>t, <2>1 DEF UpsertYoung, Update
  <2>4. quotes' \in [Pairs -> QuoteOf]
    BY <1>t, <2>1, <2>3 DEF QuoteOf, Update
  <2>5. QuoteDataIsYoung'
    BY <2>1, <2>3 DEF QuoteDataIsYoung, Young
  <2> QED
    BY <2>1, <2>2, <2>4, <2>5 DEF StoreOnTime, EntriesShort
<1>8. CASE LaggedTick
  <2>1. /\ now' = now + 1 /\ UNCHANGED <<entries, call, paid, update, quotes>>
        /\ \A c \in Callers : ~Overdue(c)
    BY <1>8 DEF LaggedTick, Tick
  <2>2. StoreOnTime' /\ EntriesShort'
    BY <1>t, <2>1 DEF StoreOnTime, EntriesShort, Overdue, Call, Entry, Never
  <2>3. StampOnTime'
    BY <1>t, <2>1 DEF StampOnTime, HandedOutYoung, Overdue, Update
  <2> QED
    BY <2>1, <2>2, <2>3 DEF UpsertYoung, QuoteDataIsYoung
<1>9. CASE UNCHANGED updateVars
  BY <1>9 DEF updateVars, vars, StoreOnTime, EntriesShort, StampOnTime, UpsertYoung,
              QuoteDataIsYoung
<1> QED
  BY <1>1, <1>2, <1>3, <1>4, <1>5, <1>6, <1>7, <1>8, <1>9 DEF UpdatesNext, WorkerStep

LEMMA UInvariance == UpdatesSpec => []UInv
<1>1. UpdatesSpec => []IInv
  BY UsesTheCache, Invariance, PTL
<1> QED
  BY <1>1, InitUInv, NextUInv, PTL DEF UpdatesSpec

(* Every variable of the composition has its type. *)
THEOREM TypeCorrect == UpdatesSpec => []UpdatesTypeOK
<1>1. UInv => UpdatesTypeOK
  BY DEF UInv
<1> QED
  BY UInvariance, <1>1, PTL

(* The data behind a published quote is at most TTL and twice the lag      *)
(* older than its updated_at says (service.go:226, cached.go:62-65), for   *)
(* every number of workers hitting one entry.                              *)
THEOREM QuoteDataIsYoungAlways == UpdatesSpec => []QuoteDataIsYoung
<1>1. UInv => QuoteDataIsYoung
  BY DEF UInv
<1> QED
  BY UInvariance, <1>1, PTL

(* A store puts the data of a pair back by a lag at most (cached.go:85-87). *)
THEOREM EntryHardlyRegressesAlways == UpdatesSpec => EntryHardlyRegresses
<1>1. UInv /\ [UpdatesNext]_updateVars =>
        [\A p \in Pairs : entries'[p].fetchedAt >= entries[p].fetchedAt - Lag]_entries
  <2> SUFFICES ASSUME UInv, [UpdatesNext]_updateVars, entries' # entries, NEW p \in Pairs
               PROVE  entries'[p].fetchedAt >= entries[p].fetchedAt - Lag
    OBVIOUS
  <2>1. PICK c \in Callers : StoreReturns(c)
    BY DEF UpdatesNext, WorkerStep, HitReturns, MissBegins, Answer, AnswerFails, Stamp, Publish,
           LaggedTick, Tick, Miss, Fetched, InnerFails, updateVars, vars
  <2>2. /\ entries[p] \in Entry /\ now \in Nat /\ Lag \in Nat /\ call[c] \in Call
        /\ entries \in [Pairs -> Entry]
    BY LagAssumption DEF UInv, UpdatesTypeOK, TypeOK
  <2>3. now <= call[c].fetchedAt + Lag
    BY <2>1 DEF StoreReturns, Store, UInv, StoreOnTime
  <2>4. \/ entries'[p] = entries[p]
        \/ entries'[p] = [fetchedAt |-> call[c].fetchedAt, expiresAt |-> now + TTL]
    BY <2>1, <2>2 DEF StoreReturns, Store
  <2>5. entries[p].fetchedAt <= now
    BY DEF UInv, EntriesShort
  <2> QED
    BY <2>2, <2>3, <2>4, <2>5 DEF Entry, Call, Never
<1> QED
  BY UInvariance, <1>1, PTL DEF UpdatesSpec, EntryHardlyRegresses

=============================================================================
