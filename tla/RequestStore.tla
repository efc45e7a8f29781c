---------------------------- MODULE RequestStore ----------------------------
(***************************************************************************)
(* The two PostgreSQL tables of the service and the statements that        *)
(* internal/storage/postgres/storage.go runs on them.  A statement is      *)
(* atomic (every call is one autocommit statement); its CALL either        *)
(* succeeds, or is given up (timeout, broken connection, the caller died). *)
(* PostgreSQL may still run the statement of a write that was given up: at *)
(* once (only the reply is lost), after later statements of the same       *)
(* caller, after a restart, or never.  Such writes are kept in `late`.     *)
(*                                                                         *)
(* update_requests is kept as the sequence of its rows in commit order,    *)
(* taken for the order of created_at, and the id of a row is its position: *)
(* a UUID is only compared for equality, and created_at only orders        *)
(* ListPendingUpdateRequests.  The columns price and updated_at of a row,  *)
(* which are always written together, are the field `result`; the error    *)
(* text is not modelled.                                                   *)
(***************************************************************************)
EXTENDS Integers, Sequences, FiniteSets

CONSTANTS
  Pairs,        \* the supported currency pairs
  Keys,         \* the non-empty values of the Idempotency-Key header
  NoKey,        \* the absent header, stored as NULL
  Prices,       \* the prices a provider may return
  NoQuote,      \* no row in quotes; no price in a request
  MaxClock,     \* bound: time.Now() saturates here
  ListLimit,    \* the LIMIT of ListPendingUpdateRequests (100 in resync)
  MaxFaults     \* bound: how many calls fail in a behaviour

ASSUME StoreAssumption ==
  /\ Pairs # {}
  /\ NoKey \notin Keys
  /\ MaxClock \in Nat
  /\ ListLimit \in Nat \ {0}
  /\ MaxFaults \in Nat

VARIABLES
  requests,     \* the rows of update_requests, in created_at order
  quotes,       \* the row of each pair in quotes
  faults,       \* how many calls have failed so far
  late          \* the writes given up so far, done or still to land

tables == <<requests, quotes>>
store == <<tables, faults, late>>

Quote == [price : Prices, at : 0 .. MaxClock]

ASSUME NoQuoteAssumption == NoQuote \notin Quote

Statuses == {"pending", "completed", "failed"}

Row == [pair : Pairs, key : Keys \cup {NoKey}, status : Statuses,
        result : Quote \cup {NoQuote}]

(* A write of storage.go and its arguments; `done` when it was executed. *)
Statement == [do : {"insert", "upsert", "complete", "fail"},
              pair : Pairs, key : Keys \cup {NoKey}, id : Nat,
              quote : Quote \cup {NoQuote}, done : BOOLEAN]

StoreTypeOK ==
  /\ requests \in Seq(Row)
  /\ quotes \in [Pairs -> Quote \cup {NoQuote}]
  /\ faults \in 0 .. MaxFaults
  /\ late \in Seq(Statement)

StoreInit ==
  /\ requests = << >>
  /\ quotes = [p \in Pairs |-> NoQuote]
  /\ faults = 0
  /\ late = << >>

-----------------------------------------------------------------------------
(* What the SELECTs of the storage return.                                 *)

Rows == DOMAIN requests

Pending(i) == requests[i].status = "pending"

(* Mutant: the lookup by pair forgets the status filter. *)
AnyOfPair(p) == {i \in Rows : requests[i].pair = p}

PendingOf(p) == {i \in Rows : requests[i].pair = p /\ Pending(i)}

WithKey(k) == {i \in Rows : requests[i].key = k}

(* Mutant: LIMIT counts the settled rows too. *)
ListOldest == {i \in Rows : Pending(i) /\ i <= ListLimit}

(* The ListLimit oldest pending rows. *)
ListPending ==
  {i \in Rows : Pending(i) /\ Cardinality({j \in 1 .. i : Pending(j)}) <= ListLimit}

(* Mutant: the partial unique index on the pending pair is missing. *)
ConflictKeyOnly(p, k) == k # NoKey /\ WithKey(k) # {}

(* A new row would break one of the two unique indexes. *)
Conflict(p, k) ==
  \/ PendingOf(p) # {}
  \/ k # NoKey /\ WithKey(k) # {}

-----------------------------------------------------------------------------
(* The writes.                                                             *)

(* Mutant: a status outside the CHECK constraint. *)
NewRowQueued(p, k) == [pair |-> p, key |-> k, status |-> "queued", result |-> NoQuote]

NewRow(p, k) == [pair |-> p, key |-> k, status |-> "pending", result |-> NoQuote]

InsertRequest(p, k) ==
  /\ ~Conflict(p, k)
  /\ requests' = Append(requests, NewRow(p, k))
  /\ UNCHANGED quotes

(* Mutant: the two UPDATEs forget "AND status = 'pending'". *)
OverwriteStatus(i, status, result) ==
  /\ requests' = [requests EXCEPT ![i].status = status, ![i].result = result]
  /\ UNCHANGED quotes

(* UPDATE ... WHERE id = i AND status = 'pending'; no row affected is no error. *)
Settle(i, status, result) ==
  /\ requests' = IF Pending(i)
                   THEN [requests EXCEPT ![i].status = status, ![i].result = result]
                   ELSE requests
  /\ UNCHANGED quotes

CompleteRequest(i, q) == Settle(i, "completed", q)

FailRequest(i) == Settle(i, "failed", NoQuote)

(* Mutant: the upsert is lost. *)
UpsertNothing(p, q) == UNCHANGED <<requests, quotes>>

(* Mutant: ON CONFLICT DO NOTHING. *)
UpsertOnce(p, q) ==
  /\ quotes' = IF quotes[p] = NoQuote THEN [quotes EXCEPT ![p] = q] ELSE quotes
  /\ UNCHANGED requests

UpsertQuote(p, q) ==
  /\ quotes' = [quotes EXCEPT ![p] = q]
  /\ UNCHANGED requests

-----------------------------------------------------------------------------
(* The outcomes of a call.                                                 *)

Healthy == UNCHANGED <<faults, late>>

Fault == faults < MaxFaults /\ faults' = faults + 1

(* A SELECT fails. *)
Faulty == Fault /\ UNCHANGED late

InsertOf(p, k) ==
  [do |-> "insert", pair |-> p, key |-> k, id |-> 0, quote |-> NoQuote, done |-> FALSE]

UpsertOf(p, q) ==
  [do |-> "upsert", pair |-> p, key |-> NoKey, id |-> 0, quote |-> q, done |-> FALSE]

CompleteOf(i, q) ==
  [do |-> "complete", pair |-> requests[i].pair, key |-> NoKey, id |-> i, quote |-> q,
   done |-> FALSE]

FailOf(i) ==
  [do |-> "fail", pair |-> requests[i].pair, key |-> NoKey, id |-> i, quote |-> NoQuote,
   done |-> FALSE]

(* What PostgreSQL does when it runs the statement. *)
Executes(s) ==
  \/ s.do = "insert" /\ InsertRequest(s.pair, s.key)
  \/ s.do = "insert" /\ Conflict(s.pair, s.key) /\ UNCHANGED tables
  \/ s.do = "upsert" /\ UpsertQuote(s.pair, s.quote)
  \/ s.do = "complete" /\ CompleteRequest(s.id, s.quote)
  \/ s.do = "fail" /\ FailRequest(s.id)

(* A write succeeds. *)
Succeeds(s) == Executes(s) /\ Healthy

(* A write is given up: the caller sees an error, the statement stays behind. *)
Abandons(s) ==
  /\ Fault
  /\ late' = Append(late, s)
  /\ UNCHANGED tables

(* A statement that was given up is executed after all. *)
Lands(n) ==
  /\ ~late[n].done
  /\ Executes(late[n])
  /\ late' = [late EXCEPT ![n].done = TRUE]
  /\ UNCHANGED faults

=============================================================================
