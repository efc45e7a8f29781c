------------------------------ MODULE RateCache ------------------------------
(***************************************************************************)
(* Cache.Rate of internal/rates/cached/cached.go as the workers call it    *)
(* concurrently.  The mutex makes the lookup and the store atomic, but it  *)
(* is not held during the call of the inner provider.  A rate is its       *)
(* FetchedAt: nothing the properties say depends on the price.             *)
(***************************************************************************)
EXTENDS Integers, Sequences

CONSTANTS
  Callers,      \* the workers
  Pairs,
  TTL,          \* 0: the cache is off
  MaxTime       \* bound on now

ASSUME CacheAssumption == TTL \in Nat /\ MaxTime \in Nat

VARIABLES
  now,
  entries,      \* what is cached: FetchedAt and expiry of each pair
  call,         \* where each caller is
  paid          \* history: when each caller last paid for each pair

vars == <<now, entries, call, paid>>

(* -1 stands for "never"; a never cached entry has expired. *)
Never == -1

Entry == [fetchedAt : Nat \cup {Never}, expiresAt : Nat \cup {Never}]

Call == [at : {"idle", "inner", "store"}, pair : Pairs, since : Nat, fetchedAt : Nat]

Init ==
  /\ now = 0
  /\ entries = [p \in Pairs |-> [fetchedAt |-> Never, expiresAt |-> Never]]
  /\ call \in [Callers -> [at : {"idle"}, pair : Pairs, since : {0}, fetchedAt : {0}]]
  /\ paid = [c \in Callers |-> [p \in Pairs |-> Never]]

Fresh(p) == TTL > 0 /\ now < entries[p].expiresAt

(* A fresh entry is returned at once: nothing changes. *)
Hit(c) ==
  /\ call[c].at = "idle"
  /\ \E p \in Pairs : Fresh(p)
  /\ UNCHANGED vars

Miss(c) ==
  /\ call[c].at = "idle"
  /\ \E p \in Pairs :
       /\ ~Fresh(p)
       /\ call' = [call EXCEPT ![c] = [at |-> "inner", pair |-> p, since |-> now, fetchedAt |-> 0]]
  /\ UNCHANGED <<now, entries, paid>>

(* Mutant: FetchedAt is the time of the request, not of the answer. *)
FetchedAtRequest(c) ==
  /\ call[c].at = "inner"
  /\ call' = [call EXCEPT ![c].at = IF TTL > 0 THEN "store" ELSE "idle",
                          ![c].fetchedAt = call[c].since]
  /\ UNCHANGED <<now, entries, paid>>

(* Mutant: the rate is stored without its FetchedAt. *)
FetchedUnstamped(c) ==
  /\ call[c].at = "inner"
  /\ call' = [call EXCEPT ![c].at = IF TTL > 0 THEN "store" ELSE "idle",
                          ![c].fetchedAt = Never]
  /\ UNCHANGED <<now, entries, paid>>

(* The inner provider answers; this is the call that costs quota. *)
Fetched(c) ==
  /\ call[c].at = "inner"
  /\ call' = [call EXCEPT ![c].at = IF TTL > 0 THEN "store" ELSE "idle",
                          ![c].fetchedAt = now]
  /\ UNCHANGED <<now, entries, paid>>

InnerFails(c) ==
  /\ call[c].at = "inner"
  /\ call' = [call EXCEPT ![c].at = "idle"]
  /\ UNCHANGED <<now, entries, paid>>

(* Mutant: the entry expires TTL after FetchedAt, not after the store. *)
StoreFromFetch(c) ==
  /\ call[c].at = "store"
  /\ entries' = [entries EXCEPT ![call[c].pair] =
                   [fetchedAt |-> call[c].fetchedAt, expiresAt |-> call[c].fetchedAt + TTL]]
  /\ call' = [call EXCEPT ![c].at = "idle"]
  /\ paid' = [paid EXCEPT ![c][call[c].pair] = now]
  /\ UNCHANGED now

(* Mutant: the store does not replace an entry, expired or not. *)
StoreOnce(c) ==
  LET p == call[c].pair
  IN  /\ call[c].at = "store"
      /\ entries' = IF entries[p].fetchedAt # Never THEN entries
                     ELSE [entries EXCEPT ![p] =
                             [fetchedAt |-> call[c].fetchedAt, expiresAt |-> now + TTL]]
      /\ call' = [call EXCEPT ![c].at = "idle"]
      /\ paid' = [paid EXCEPT ![c][p] = now]
      /\ UNCHANGED now

(* The second critical section overwrites whatever is cached by then. *)
Store(c) ==
  /\ call[c].at = "store"
  /\ entries' = [entries EXCEPT ![call[c].pair] =
                   [fetchedAt |-> call[c].fetchedAt, expiresAt |-> now + TTL]]
  /\ call' = [call EXCEPT ![c].at = "idle"]
  /\ paid' = [paid EXCEPT ![c][call[c].pair] = now]
  /\ UNCHANGED now

Tick == now < MaxTime /\ now' = now + 1 /\ UNCHANGED <<entries, call, paid>>

Next ==
  \/ \E c \in Callers : Hit(c) \/ Miss(c) \/ Fetched(c) \/ InnerFails(c) \/ Store(c)
  \/ Tick

Spec == Init /\ [][Next]_vars

-----------------------------------------------------------------------------
(* Every variable has its type. *)
TypeOK ==
  /\ now \in 0 .. MaxTime
  /\ entries \in [Pairs -> Entry]
  /\ call \in [Callers -> Call]
  /\ paid \in [Callers -> [Pairs -> Nat \cup {Never}]]

(* What the cache does save: one caller never pays twice for a pair within *)
(* TTL, whatever the others store in between (cached.go:66-91).            *)
CallerPaysOncePerTTL ==
  TTL > 0 => \A c \in Callers :
    call[c].at \in {"inner", "store"} /\ paid[c][call[c].pair] # Never
      => call[c].since >= paid[c][call[c].pair] + TTL

(* When a pair is paid for twice within TTL: only by calls that overlap.   *)
(* Nobody who looks the pair up after another's store pays again before    *)
(* that entry has expired (cached.go:66-91; the promise of cached.go:2-3,  *)
(* N requests are one paid call, is about exactly those).                  *)
PaidAgainOnlyByOverlap ==
  TTL > 0 => \A c, d \in Callers :
    call[c].at \in {"inner", "store"} /\ paid[d][call[c].pair] # Never
      => \/ call[c].since <= paid[d][call[c].pair]
         \/ call[c].since >= paid[d][call[c].pair] + TTL

(* The inductive invariant of the proof: an entry outlives every payment.  *)
EntryOutlivesPayments ==
  \A c \in Callers, p \in Pairs :
    paid[c][p] # Never => paid[c][p] <= now /\ entries[p].expiresAt >= paid[c][p] + TTL

=============================================================================
