---------------------------- MODULE CreateRequest ----------------------------
(***************************************************************************)
(* Storage.CreateUpdateRequest (internal/storage/postgres/storage.go) as   *)
(* concurrent POST handlers run it: one action per SQL statement, so that  *)
(* handlers interleave with each other and with the workers that settle    *)
(* rows.  Next closes the component with an environment that settles any   *)
(* pending row and runs the statements that were given up; RatesService    *)
(* replaces its workers by the service.                                    *)
(***************************************************************************)
EXTENDS RequestStore

CONSTANTS
  Handlers,     \* the POST requests that may be in flight at once
  MaxRequests   \* bound: how many rows the handlers insert (late INSERTs come on top)

ASSUME HandlersAssumption ==
  /\ IsFiniteSet(Handlers)
  /\ MaxRequests \in Nat

VARIABLE post   \* the state of each handler

Steps == {"idle", "key", "pending", "insert", "retryPending", "retryKey",
          "created", "existing", "error"}

(* "panicked" is entered by RatesService only: enqueue on the closed channel. *)
Post == [at : Steps \cup {"panicked"}, pair : Pairs, key : Keys \cup {NoKey}, id : Nat]

PostTypeOK == post \in [Handlers -> Post]

IdlePost == [at |-> "idle", pair |-> CHOOSE p \in Pairs : TRUE, key |-> NoKey, id |-> 0]

PostInit == post = [h \in Handlers |-> IdlePost]

Active == {h \in Handlers : post[h].at # "idle"}

(* The answers of Storage.CreateUpdateRequest: (req, true), (req, false), error. *)
Answered(h) == post[h].at \in {"created", "existing", "error"}

Goto(h, step) == post' = [post EXCEPT ![h].at = step]

Answer(h, step, i) == post' = [post EXCEPT ![h].at = step, ![h].id = i]

Keyed(h) == post[h].key # NoKey

-----------------------------------------------------------------------------
(* A request for a supported pair arrives. *)

(* Mutant: the idempotency key is not looked up first. *)
PendingFirst(k) == "pending"

FirstStep(k) == IF k # NoKey THEN "key" ELSE "pending"

Arrive(h) ==
  /\ post[h].at = "idle"
  /\ Cardinality(Active) + Len(requests) < MaxRequests
  /\ \E p \in Pairs, k \in Keys \cup {NoKey} :
       post' = [post EXCEPT ![h] = [at |-> FirstStep(k), pair |-> p, key |-> k, id |-> 0]]
  /\ UNCHANGED store

(* One SELECT of the handler: a row of `matches`, none, or an error. *)
Select(h, matches, missStep, errorStep) ==
  /\ \/ matches = {} /\ Goto(h, missStep) /\ Healthy
     \/ \E i \in matches : Answer(h, "existing", i) /\ Healthy
     \/ Goto(h, errorStep) /\ Faulty
  /\ UNCHANGED tables

LookupKey(h) ==
  /\ post[h].at = "key"
  /\ Select(h, WithKey(post[h].key), "pending", "error")

LookupPending(h) ==
  /\ post[h].at = "pending"
  /\ Select(h, PendingOf(post[h].pair), "insert", "error")

(* The INSERT: a new row, a unique violation, or an error (the row may appear). *)
Insert(h) ==
  LET p == post[h].pair
      k == post[h].key
  IN  /\ post[h].at = "insert"
      /\ \/ InsertRequest(p, k) /\ Healthy /\ Answer(h, "created", Len(requests) + 1)
         \/ /\ Conflict(p, k)
            /\ Goto(h, "retryPending")
            /\ UNCHANGED store
         \/ Abandons(InsertOf(p, k)) /\ Goto(h, "error")

(* Mutant: after a unique violation only the pair is looked up again. *)
RetryPendingOnly(h) ==
  /\ post[h].at = "retryPending"
  /\ Select(h, PendingOf(post[h].pair), "error", "error")

(* After a unique violation an error of a lookup counts as "not found". *)
RetryPending(h) ==
  LET next == IF Keyed(h) THEN "retryKey" ELSE "error"
  IN  /\ post[h].at = "retryPending"
      /\ Select(h, PendingOf(post[h].pair), next, next)

RetryKey(h) ==
  /\ post[h].at = "retryKey"
  /\ Select(h, WithKey(post[h].key), "error", "error")

CreateStep(h) ==
  LookupKey(h) \/ LookupPending(h) \/ Insert(h) \/ RetryPending(h) \/ RetryKey(h)

-----------------------------------------------------------------------------
(* The environment: the response is sent, a worker settles a row. *)

Respond(h) ==
  /\ Answered(h)
  /\ post' = [post EXCEPT ![h] = IdlePost]
  /\ UNCHANGED store

SettledByWorker(i) ==
  /\ i \in Rows /\ Pending(i)
  /\ \/ \E c \in Prices : CompleteRequest(i, [price |-> c, at |-> 0])
     \/ FailRequest(i)
  /\ UNCHANGED <<faults, late, post>>

LateLands(n) == Lands(n) /\ UNCHANGED post

CreateInit == StoreInit /\ PostInit

CreateNext ==
  \/ \E h \in Handlers : Arrive(h) \/ CreateStep(h) \/ Respond(h)
  \/ \E i \in Rows : SettledByWorker(i)
  \/ \E n \in DOMAIN late : LateLands(n)

createVars == <<store, post>>

CreateSpec == CreateInit /\ [][CreateNext]_createVars

=============================================================================
