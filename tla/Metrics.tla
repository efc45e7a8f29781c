------------------------------ MODULE Metrics ------------------------------
(***************************************************************************)
(* internal/metrics/metrics.go under concurrent use.  The mutex of a       *)
(* counterVec covers the registration of a label set; the increments are   *)
(* atomic adds outside it, and the sum of the provider's seconds is a      *)
(* compare-and-swap loop.  A registered counter is never replaced, so the  *)
(* pointer a goroutine holds is the entry of the map.                      *)
(* The /metrics handler only loads; what it may see is what is here.       *)
(***************************************************************************)
EXTENDS Integers, FiniteSets, FiniteSetsExt

CONSTANTS
  Goroutines,   \* whoever counts
  Durations     \* how long a provider call may take

ASSUME MetricsAssumption == IsFiniteSet(Goroutines) /\ Durations \subseteq Nat \ {0}

VARIABLES
  counters,     \* the registered label sets of all vecs and their values
  secondsSum, secondsCount,
  obs,          \* what each goroutine is counting, and how far it is
  spent         \* history: the seconds of all observed provider calls

metrics == <<counters, secondsSum, secondsCount, obs, spent>>

(* What a goroutine counts, under one of the given label sets. *)
Observation(keys) ==
  [at : {"idle", "register", "add", "load", "swap", "count"},
   key : keys, timed : BOOLEAN, took : Nat, old : Nat]

NoObservation ==
  [at |-> "idle", key |-> <<"", "", 0>>, timed |-> FALSE, took |-> 0, old |-> 0]

MetricsInit ==
  /\ counters = << >>
  /\ secondsSum = 0 /\ secondsCount = 0
  /\ obs = [g \in Goroutines |-> NoObservation]
  /\ spent = 0

Quiet(g) == obs[g].at = "idle"

(* inc: any counter without a duration. *)
Inc(g, key) ==
  /\ Quiet(g)
  /\ obs' = [obs EXCEPT ![g] = [NoObservation EXCEPT !.at = "register", !.key = key]]
  /\ UNCHANGED <<counters, secondsSum, secondsCount, spent>>

ObserveProvider(g, key, took) ==
  /\ Quiet(g)
  /\ obs' = [obs EXCEPT ![g] = [NoObservation EXCEPT !.at = "register", !.key = key,
                                                     !.timed = TRUE, !.took = took]]
  /\ spent' = spent + took
  /\ UNCHANGED <<counters, secondsSum, secondsCount>>

Step(g, place) == obs' = [obs EXCEPT ![g].at = place]

(* Mutant: the map is not looked up before the counter is created. *)
RegisterAgain(g) ==
  /\ obs[g].at = "register"
  /\ counters' = [k \in DOMAIN counters \cup {obs[g].key} |->
                    IF k = obs[g].key THEN 0 ELSE counters[k]]
  /\ Step(g, "add")
  /\ UNCHANGED <<secondsSum, secondsCount, spent>>

(* The critical section of inc: create the counter if it is new. *)
Register(g) ==
  /\ obs[g].at = "register"
  /\ counters' = [k \in DOMAIN counters \cup {obs[g].key} |->
                    IF k \in DOMAIN counters THEN counters[k] ELSE 0]
  /\ Step(g, "add")
  /\ UNCHANGED <<secondsSum, secondsCount, spent>>

(* v.Add(1), outside the lock. *)
Add(g) ==
  /\ obs[g].at = "add"
  /\ counters' = [counters EXCEPT ![obs[g].key] = @ + 1]
  /\ Step(g, IF obs[g].timed THEN "load" ELSE "idle")
  /\ UNCHANGED <<secondsSum, secondsCount, spent>>

LoadSum(g) ==
  /\ obs[g].at = "load"
  /\ obs' = [obs EXCEPT ![g].at = "swap", ![g].old = secondsSum]
  /\ UNCHANGED <<counters, secondsSum, secondsCount, spent>>

(* Mutant: the sum is stored without comparing. *)
StoreSum(g) ==
  /\ obs[g].at = "swap"
  /\ secondsSum' = obs[g].old + obs[g].took
  /\ Step(g, "count")
  /\ UNCHANGED <<counters, secondsCount, spent>>

(* CompareAndSwap: somebody else was faster, or the sum is written. *)
Swap(g) ==
  /\ obs[g].at = "swap"
  /\ IF secondsSum = obs[g].old
       THEN secondsSum' = obs[g].old + obs[g].took /\ Step(g, "count")
       ELSE UNCHANGED secondsSum /\ Step(g, "load")
  /\ UNCHANGED <<counters, secondsCount, spent>>

CountCall(g) ==
  /\ obs[g].at = "count"
  /\ secondsCount' = secondsCount + 1
  /\ Step(g, "idle")
  /\ UNCHANGED <<counters, secondsSum, spent>>

ObserveStep(g) == Register(g) \/ Add(g) \/ LoadSum(g) \/ Swap(g) \/ CountCall(g)

-----------------------------------------------------------------------------

Value(key) == IF key \in DOMAIN counters THEN counters[key] ELSE 0

Counting(places, key) == {g \in Goroutines : obs[g].at \in places /\ obs[g].key = key}

TimedAt(places) == {g \in Goroutines : obs[g].timed /\ obs[g].at \in places}

(* No second of a provider call is lost, however the loops of its callers  *)
(* interleave, and the calls counted beside the sum are those of the       *)
(* vector, up to the calls in between (metrics.go:126-143).                *)
ProviderTotalsAgree ==
  /\ spent = secondsSum
       + MapThenSumSet(LAMBDA g : obs[g].took, TimedAt({"register", "add", "load", "swap"}))
  /\ LET keys == {k \in DOMAIN counters : k[1] = "provider"}
     IN  MapThenSumSet(Value, keys)
           = secondsCount + Cardinality(TimedAt({"load", "swap", "count"}))

(* What a scrape may see only grows, and a label set never disappears      *)
(* (metrics.go:37-67, 165-190: counters and a summary).                    *)
CountersOnlyGrow ==
  [][/\ \A k \in DOMAIN counters : k \in DOMAIN counters' /\ counters'[k] >= counters[k]
     /\ secondsSum' >= secondsSum /\ secondsCount' >= secondsCount]_metrics

=============================================================================
