---------------------------- MODULE ProviderChain ----------------------------
(***************************************************************************)
(* A worker's call of the provider below the cache, as cmd/server wires    *)
(* it: fallback.Rate over one resilient.Rate per source, all under the     *)
(* single context of service.process.  Several workers call at once and    *)
(* share nextAllowed, the only shared state, under its mutex.              *)
(*                                                                         *)
(* Time is discrete, in seconds.  A timer never fires early, but a         *)
(* goroutine may run arbitrarily long after its timer fired.               *)
(***************************************************************************)
EXTENDS ProviderAnswer, Sequences, FiniteSets

CONSTANTS
  Callers,      \* the workers
  HasSecondary, \* newSecondaryProvider returned a provider
  Api,          \* which API each source is
  Timeout,      \* RequestTimeout of the service, the deadline of one call
  MinInterval,  \* PROVIDER_MIN_INTERVAL
  MaxAttempts,  \* PROVIDER_MAX_ATTEMPTS
  BaseDelay, MaxDelay,
  MaxTime       \* bound on now

ASSUME ChainAssumption ==
  /\ HasSecondary \in BOOLEAN
  /\ Timeout \in Nat \ {0} /\ MinInterval \in Nat
  /\ MaxAttempts \in Nat \ {0}
  /\ BaseDelay \in 1 .. Half - 1 /\ MaxDelay \in 1 .. Half - 1  \* positive Durations
  /\ MaxTime \in Nat

VARIABLES
  now,
  nextAllowed,  \* per source: the earliest free slot
  call,         \* where each caller is
  slots,        \* history, per source: the slots granted, in order
  started,      \* history, per source: when the real calls began, in order
  seen          \* history, per caller: what its current Rate went through

chain == <<now, nextAllowed, call>>
history == <<slots, started, seen>>
vars == <<chain, history>>

Sources == {"primary", "secondary"}

Places == {"idle", "gate", "slot", "inner", "sleep", "fallback", "succeeded", "failed"}

(* `due` is when the pending timer fires, `timed` says there is one. *)
Call == [at : Places, source : Sources, attempt : Nat, deadline : Nat, due : Nat,
         timed : BOOLEAN]

IdleCall == [at |-> "idle", source |-> "primary", attempt |-> 0, deadline |-> 0, due |-> 0,
             timed |-> FALSE]

(* calls: real calls per source; permanent: the primary's error is no      *)
(* reason to retry; mispriced: a price was not the quotient of the         *)
(* reference rates; notBefore: the earliest time the provider has asked    *)
(* us to come back; fits: it has asked for a time that is a Duration.      *)
Seen == [calls : [Sources -> Nat], permanent : BOOLEAN, mispriced : BOOLEAN, notBefore : Nat,
         fits : BOOLEAN]

NothingSeen ==
  [calls |-> [s \in Sources |-> 0], permanent |-> FALSE, mispriced |-> FALSE, notBefore |-> 0,
   fits |-> TRUE]

Init ==
  /\ now = 0
  /\ nextAllowed = [s \in Sources |-> 0]
  /\ call = [c \in Callers |-> IdleCall]
  /\ slots = [s \in Sources |-> << >>]
  /\ started = [s \in Sources |-> << >>]
  /\ seen = [c \in Callers |-> NothingSeen]

Expired(c) == now >= call[c].deadline

Later(a, b) == IF a >= b THEN a ELSE b

Goto(c, place) == call' = [call EXCEPT ![c].at = place]

(* The resilient layer of the caller's source gives up with an error. *)
GiveUp(c) == Goto(c, IF call[c].source = "primary" THEN "fallback" ELSE "failed")

-----------------------------------------------------------------------------
(* process: a new context with its deadline, then the primary's Rate. *)
Begin(c) ==
  /\ call[c].at = "idle"
  /\ now + Timeout <= MaxTime
  /\ call' = [call EXCEPT ![c] = [IdleCall EXCEPT !.at = "gate", !.attempt = 1,
                                                  !.deadline = now + Timeout]]
  /\ UNCHANGED <<now, nextAllowed, history>>

(* Mutant: the slot is counted from now even when callers are queued. *)
GateFromNow(c) ==
  LET s == call[c].source
      slot == Later(now, nextAllowed[s])
  IN  /\ call[c].at = "gate"
      /\ nextAllowed' = [nextAllowed EXCEPT ![s] = now + MinInterval]
      /\ slots' = [slots EXCEPT ![s] = Append(@, slot)]
      /\ call' = [call EXCEPT ![c].at = "slot", ![c].due = slot, ![c].timed = slot > now]
      /\ UNCHANGED <<now, started, seen>>

(* Mutant: the wait is not clamped at zero. *)
ReserveSigned(c) ==
  LET s == call[c].source
      slot == Later(now, nextAllowed[s])
  IN  /\ call[c].at = "gate"
      /\ nextAllowed' = [nextAllowed EXCEPT ![s] = slot + MinInterval]
      /\ slots' = [slots EXCEPT ![s] = Append(@, slot)]
      /\ call' = [call EXCEPT ![c].at = "slot", ![c].due = nextAllowed[s] - now,
                              ![c].timed = slot > now]
      /\ UNCHANGED <<now, started, seen>>

(* gate, the critical section: take the next slot and push the following   *)
(* one.  With MinInterval = 0 the slot is now and gate only looks at ctx.  *)
Reserve(c) ==
  LET s == call[c].source
      slot == Later(now, nextAllowed[s])
  IN  /\ call[c].at = "gate"
      /\ nextAllowed' = [nextAllowed EXCEPT ![s] = slot + MinInterval]
      /\ slots' = [slots EXCEPT ![s] = Append(@, slot)]
      /\ call' = [call EXCEPT ![c].at = "slot", ![c].due = slot, ![c].timed = slot > now]
      /\ UNCHANGED <<now, started, seen>>

(* Mutant: the wait for the slot is skipped. *)
InvokeEarly(c) ==
  LET s == call[c].source
  IN  /\ call[c].at = "slot" /\ ~Expired(c)
      /\ Goto(c, "inner")
      /\ started' = [started EXCEPT ![s] = Append(@, now)]
      /\ seen' = [seen EXCEPT ![c].calls[s] = @ + 1]
      /\ UNCHANGED <<now, nextAllowed, slots>>

(* The slot has come: the inner provider is called.  When the timer and    *)
(* the context are both ready select may take either.                      *)
Invoke(c) ==
  LET s == call[c].source
  IN  /\ call[c].at = "slot" /\ now >= call[c].due
      /\ call[c].timed \/ ~Expired(c)
      /\ Goto(c, "inner")
      /\ started' = [started EXCEPT ![s] = Append(@, now)]
      /\ seen' = [seen EXCEPT ![c].calls[s] = @ + 1]
      /\ UNCHANGED <<now, nextAllowed, slots>>

(* The context ends first; the slot stays taken. *)
GateExpires(c) ==
  /\ call[c].at = "slot" /\ Expired(c)
  /\ GiveUp(c)
  /\ UNCHANGED <<now, nextAllowed, history>>

(* What the inner provider of a source may return, by kind. *)
AnswersOf ==
  [s \in Sources |-> [kind \in {"rate", "transient", "permanent"} |->
                       {a \in Answers(Api[s]) : a.answer.kind = kind}]]

Inner(c, kind) == AnswersOf[call[c].source][kind]

InnerSucceeds(c) ==
  /\ call[c].at = "inner"
  /\ \E a \in Inner(c, "rate") :
       seen' = [seen EXCEPT ![c].mispriced = ~RightPrice(a.answer.price, a.pair)]
  /\ Goto(c, "succeeded")
  /\ UNCHANGED <<now, nextAllowed, slots, started>>

InnerFailsForGood(c) ==
  /\ call[c].at = "inner" /\ Inner(c, "permanent") # {}
  /\ GiveUp(c)
  /\ seen' = [seen EXCEPT ![c].permanent = @ \/ call[c].source = "primary"]
  /\ UNCHANGED <<now, nextAllowed, slots, started>>

(* delayFor: Retry-After up to MaxDelay, else exponential with 20% jitter. *)
(* BaseDelay << (attempt - 1) wraps.                                       *)
Shifted(attempt) == Wrap(BaseDelay * Pow2[attempt - 1])

(* Mutant: the shift is trusted not to wrap. *)
BackoffUnchecked(attempt) == Sooner(Shifted(attempt), MaxDelay)

Backoff(attempt) == IF Shifted(attempt) \in 1 .. MaxDelay THEN Shifted(attempt) ELSE MaxDelay

(* Mutant: Retry-After is ignored. *)
BackoffOnly(attempt, retryAfter) == {Backoff(attempt)}

DelayFor(attempt, retryAfter) ==
  LET d == Backoff(attempt)
      jitter == d \div 5
  IN  IF retryAfter > 0 THEN {Sooner(retryAfter, MaxDelay)}
      ELSE {Sooner(e, MaxDelay) : e \in (d - jitter) .. (d + Later(jitter - 1, 0))}

(* Mutant: the last attempt is not recognised, one more is made. *)
LastAttemptOff(c) == call[c].attempt = MaxAttempts + 1

LastAttempt(c) == call[c].attempt = MaxAttempts

(* A transient error: give up at the deadline or after the last attempt. *)
InnerFailsForNow(c) ==
  /\ call[c].at = "inner"
  /\ \/ /\ Expired(c) \/ LastAttempt(c)
        /\ GiveUp(c)
        /\ UNCHANGED seen
     \/ /\ ~Expired(c) /\ ~LastAttempt(c)
        /\ \E header \in {a.answer.header : a \in Inner(c, "transient")} :
             /\ \E d \in DelayFor(call[c].attempt, RetryAfterFrom(RetryAfterFromHeader(header))) :
                  call' = [call EXCEPT ![c].at = "sleep", ![c].due = now + d]
             /\ seen' = [seen EXCEPT ![c].notBefore = now + Sooner(AskedFor(header), MaxDelay),
                                     ![c].fits = FitsDuration(header)]
  /\ UNCHANGED <<now, nextAllowed, slots, started>>

(* sleepCtx: next attempt, or the context ends. *)
Wake(c) ==
  /\ call[c].at = "sleep"
  /\ \/ /\ now >= call[c].due
        /\ call' = [call EXCEPT ![c].at = "gate", ![c].attempt = @ + 1]
     \/ Expired(c) /\ GiveUp(c)
  /\ UNCHANGED <<now, nextAllowed, history>>

(* Mutant: a permanent error of the primary is not worth a fallback. *)
FallbackTransientOnly(c) ==
  /\ call[c].at = "fallback"
  /\ call' = IF HasSecondary /\ ~Expired(c) /\ ~seen[c].permanent
               THEN [call EXCEPT ![c].at = "gate", ![c].source = "secondary", ![c].attempt = 1]
               ELSE [call EXCEPT ![c].at = "failed"]
  /\ UNCHANGED <<now, nextAllowed, history>>

(* fallback.Rate: the secondary, unless there is none or the context ended. *)
Fallback(c) ==
  /\ call[c].at = "fallback"
  /\ call' = IF HasSecondary /\ ~Expired(c)
               THEN [call EXCEPT ![c].at = "gate", ![c].source = "secondary", ![c].attempt = 1]
               ELSE [call EXCEPT ![c].at = "failed"]
  /\ UNCHANGED <<now, nextAllowed, history>>

Return(c) ==
  /\ call[c].at \in {"succeeded", "failed"}
  /\ call' = [call EXCEPT ![c] = IdleCall]
  /\ seen' = [seen EXCEPT ![c] = NothingSeen]
  /\ UNCHANGED <<now, nextAllowed, slots, started>>

Tick == now < MaxTime /\ now' = now + 1 /\ UNCHANGED <<nextAllowed, call, history>>

RateStep(c) ==
  \/ Reserve(c) \/ Invoke(c) \/ GateExpires(c)
  \/ InnerSucceeds(c) \/ InnerFailsForGood(c) \/ InnerFailsForNow(c)
  \/ Wake(c) \/ Fallback(c) \/ Return(c)

Next == Tick \/ \E c \in Callers : Begin(c) \/ RateStep(c)

Spec == Init /\ [][Next]_vars

-----------------------------------------------------------------------------
(* Every variable has its type; slots and timers lie at real times. *)
TypeOK ==
  /\ now \in 0 .. MaxTime
  /\ nextAllowed \in [Sources -> Nat]
  /\ call \in [Callers -> Call]
  /\ slots \in [Sources -> Seq(Nat)]
  /\ started \in [Sources -> Seq(Nat)]
  /\ seen \in [Callers -> Seen]

(* The slots of a source are granted at least MinInterval apart, however   *)
(* many callers queue at the gate (resilient.go:97-106).                   *)
SlotsSpaced ==
  \A s \in Sources : \A n \in 1 .. Len(slots[s]) - 1 :
    slots[s][n + 1] >= slots[s][n] + MinInterval

(* The quota: up to any moment a source has been called at most once per   *)
(* MinInterval on average, late goroutines and abandoned slots included    *)
(* (resilient.go:58-119).  Two single calls may still be closer than       *)
(* MinInterval, when the goroutine of the earlier slot runs late.          *)
QuotaHeld ==
  MinInterval > 0 =>
    \A s \in Sources : Len(started[s]) <= now \div MinInterval + 1

(* The secondary is asked only when the primary has used up its attempts   *)
(* or has failed for good, never more often (resilient.go:60-87,           *)
(* fallback.go:56-80).                                                     *)
RetriesBeforeFallback ==
  \A c \in Callers :
    /\ \A s \in Sources : seen[c].calls[s] <= MaxAttempts
    /\ call[c].source = "secondary"
         => seen[c].calls["primary"] = MaxAttempts \/ seen[c].permanent

(* A retry starts no earlier than the provider asked for, up to MaxDelay   *)
(* (resilient.go:121-129, 145-157), if it asked for a time that fits a     *)
(* Duration.  A longer Retry-After in seconds wraps in errors.go:55, and   *)
(* what is left may be a shorter pause than was asked for, though never    *)
(* none and never more than MaxDelay: see BackoffGrows.                    *)
RetryNotBeforeAsked ==
  \A c \in Callers : call[c].at = "inner" /\ seen[c].fits => now >= seen[c].notBefore

(* A Rate fails without having asked the secondary only when its deadline  *)
(* has passed: what uses up the time is the primary's gate, attempts and   *)
(* sleeps under the same context (fallback.go:56-64).                      *)
SecondarySkippedOnlyLate ==
  \A c \in Callers :
    call[c].at = "failed" /\ HasSecondary /\ seen[c].calls["secondary"] = 0 => Expired(c)

(* Which base an API answers with, which API answers, and whether the base *)
(* is listed: none of it shows in the price (README.md:180-183, 208-212,   *)
(* cross.go:10-35).                                                        *)
PriceIsTheQuotient == \A c \in Callers : ~seen[c].mispriced

(* What delayFor may be told. *)
Told == {RetryAfterFrom(RetryAfterFromHeader(h)) : h \in Headers \cup {NoHeader}}

(* The pauses it may then make, before an attempt or a later one.  The     *)
(* bound on the attempts lies beyond the last bit of a Duration.           *)
Pauses == [n \in 1 .. Half + 2 |-> [told \in Told |-> DelayFor(n, told)]]

(* The delays still ahead of a caller, up to attempts where the shift has  *)
(* long wrapped around: whatever Retry-After says there is a pause, and    *)
(* none is longer than MaxDelay; without one it grows as the doubled base  *)
(* delay does, up to MaxDelay and less 20% at most (resilient.go:121-142). *)
(* The growth is claimed while the shift stays within a Duration, and for  *)
(* all attempts when BaseDelay * MaxDelay does: no code ensures that, and  *)
(* where neither holds a shift may wrap to a short pause.                  *)
BackoffGrows ==
  \A c \in Callers : \A n \in Later(call[c].attempt, 1) .. Half + 2 :
    LET exact == BaseDelay * Pow2[n - 1]
    IN  /\ \A told \in Told : Pauses[n][told] \subseteq 1 .. MaxDelay
        /\ exact < Half \/ BaseDelay * MaxDelay < Half =>
             \A d \in Pauses[n][0] : 5 * d >= 4 * Sooner(exact, MaxDelay)

=============================================================================
