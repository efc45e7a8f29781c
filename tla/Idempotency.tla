----------------------------- MODULE Idempotency -----------------------------
(***************************************************************************)
(* What concurrent clients of POST /quotes may rely on.  The state machine *)
(* is CreateRequest; the history variables record what a client could know *)
(* when its call began, and which ids each Idempotency-Key was answered.   *)
(***************************************************************************)
EXTENDS CreateRequest

VARIABLES
  atArrival,    \* per handler: the row holding its key (0: none) and the settled rows
  answeredIds   \* per key: the ids given as answers so far

history == <<atArrival, answeredIds>>

idemVars == <<createVars, history>>

SettledRows == {i \in Rows : ~Pending(i)}

Snapshot(k) ==
  [owner   |-> IF k # NoKey /\ WithKey(k) # {} THEN CHOOSE i \in WithKey(k) : TRUE ELSE 0,
   settled |-> SettledRows]

NoSnapshot == [owner |-> 0, settled |-> {}]

GivenId(h) == post[h].at \in {"created", "existing"}

IdemInit ==
  /\ CreateInit
  /\ atArrival = [h \in Handlers |-> NoSnapshot]
  /\ answeredIds = [k \in Keys |-> {}]

ObservedArrive(h) ==
  /\ Arrive(h)
  /\ atArrival' = [atArrival EXCEPT ![h] = Snapshot(post'[h].key)]
  /\ UNCHANGED answeredIds

ObservedStep(h) ==
  /\ CreateStep(h)
  /\ answeredIds' = IF Keyed(h) /\ GivenId(h)'
                      THEN [answeredIds EXCEPT ![post[h].key] = @ \cup {post'[h].id}]
                      ELSE answeredIds
  /\ UNCHANGED atArrival

ObservedRespond(h) ==
  /\ Respond(h)
  /\ atArrival' = [atArrival EXCEPT ![h] = NoSnapshot]
  /\ UNCHANGED answeredIds

IdemNext ==
  \/ \E h \in Handlers : ObservedArrive(h) \/ ObservedStep(h) \/ ObservedRespond(h)
  \/ \E i \in Rows : SettledByWorker(i) /\ UNCHANGED history
  \/ \E n \in DOMAIN late : LateLands(n) /\ UNCHANGED history

IdemSpec == IdemInit /\ [][IdemNext]_idemVars

-----------------------------------------------------------------------------
(* The tables and the handlers have their types. *)
CreateTypeOK == StoreTypeOK /\ PostTypeOK

(* A key that a row already held when the call began always answers that   *)
(* row, whatever the other handlers and the workers do meanwhile           *)
(* (the lookup order of storage.go:42-56 and 65-77).                       *)
StoredKeyWins ==
  \A h \in Handlers :
    GivenId(h) /\ atArrival[h].owner # 0 => post[h].id = atArrival[h].owner

(* A client is never answered with a request that was already settled when *)
(* it called, unless by its own key (storage.go:206-218).                  *)
AnswerIsFresh ==
  \A h \in Handlers :
    GivenId(h) /\ post[h].id \in atArrival[h].settled
      => Keyed(h) /\ requests[post[h].id].key = post[h].key

(* With a healthy database CreateUpdateRequest fails only if a row of the  *)
(* pair was settled during the call (storage.go:65-78).                    *)
HealthyErrorNeedsSettle ==
  \A h \in Handlers :
    post[h].at = "error" /\ faults = 0
      => \E i \in SettledRows \ atArrival[h].settled : requests[i].pair = post[h].pair

(* README.md:135 and openapi: a repeated POST with the same Idempotency-Key *)
(* returns the same request.                                               *)
KeyAnswersAgree == \A k \in Keys : Cardinality(answeredIds[k]) <= 1

(* README.md:19-20, storage.go:66-67: deduplication is safe under races, a *)
(* conflicting INSERT finds the existing request instead of failing.       *)
NoHealthyError == \A h \in Handlers : post[h].at = "error" => faults > 0

=============================================================================
