------------------------- MODULE CreateRequest_proofs -------------------------
(***************************************************************************)
(* Lemmas about the tables and the handlers of POST, shared by the proofs  *)
(* about the service and about the promises to its clients.                *)
(***************************************************************************)
EXTENDS CreateRequest, SequenceTheorems, TLAPS

(***************************************************************************)
(* The writes of the storage.                                              *)
(***************************************************************************)

(* A stored row has the type of a row, and a supported pair. *)
LEMMA RowTypes ==
  ASSUME StoreTypeOK, NEW i \in Rows
  PROVE  requests[i] \in Row /\ requests[i].pair \in Pairs
<1>1. requests[i] \in Row
  BY DEF StoreTypeOK, Rows
<1> QED
  BY <1>1 DEF Row

(* An INSERT adds one row behind the others and keeps those. *)
LEMMA InsertFacts ==
  ASSUME requests \in Seq(Row), NEW p \in Pairs, NEW k \in Keys \cup {NoKey},
         InsertRequest(p, k)
  PROVE  /\ requests' \in Seq(Row)
         /\ Len(requests') = Len(requests) + 1
         /\ Rows' = Rows \cup {Len(requests) + 1}
         /\ \A i \in Rows : requests'[i] = requests[i]
         /\ requests'[Len(requests) + 1] = NewRow(p, k)
<1>1. NewRow(p, k) \in Row
  BY DEF NewRow, Row, Statuses
<1>2. requests' = Append(requests, NewRow(p, k))
  BY DEF InsertRequest
<1> QED
  BY <1>1, <1>2, AppendProperties DEF Rows

(* An UPDATE changes at most the status and result of a pending row. *)
LEMMA SettleFacts ==
  ASSUME requests \in Seq(Row), NEW i \in Rows, NEW status \in Statuses,
         NEW result \in Quote \cup {NoQuote}, Settle(i, status, result)
  PROVE  /\ requests' \in Seq(Row)
         /\ Rows' = Rows
         /\ \A j \in Rows : /\ requests'[j].pair = requests[j].pair
                            /\ requests'[j].key = requests[j].key
                            /\ j # i \/ ~Pending(j) => requests'[j] = requests[j]
         /\ Pending(i) => requests'[i].status = status /\ requests'[i].result = result
<1>1. CASE ~Pending(i)
  BY <1>1 DEF Settle, Rows, Pending
<1>2. CASE Pending(i)
  <2> DEFINE row == [requests[i] EXCEPT !.status = status, !.result = result]
  <2>1. requests[i] \in Row
    BY DEF Rows
  <2>2. row \in Row
    BY <2>1 DEF Row
  <2>3. requests' = [requests EXCEPT ![i] = row]
    BY <1>2, <2>1 DEF Settle, Row
  <2>4. i \in 1 .. Len(requests)
    BY DEF Rows
  <2>5. requests' \in Seq(Row) /\ Len(requests') = Len(requests)
    BY <2>2, <2>3, <2>4, ExceptSeq
  <2>6. row.pair = requests[i].pair /\ row.key = requests[i].key
        /\ row.status = status /\ row.result = result
    BY <2>1 DEF Row
  <2> HIDE DEF row
  <2> QED
    BY <1>2, <2>3, <2>4, <2>5, <2>6 DEF Rows, Pending
<1> QED
  BY <1>1, <1>2

(***************************************************************************)
(* Writes that are given up.                                               *)
(***************************************************************************)

(* The statements of the handlers and the workers. *)
LEMMA StatementTypes ==
  ASSUME StoreTypeOK
  PROVE  /\ \A p \in Pairs, k \in Keys \cup {NoKey} : InsertOf(p, k) \in Statement
         /\ \A p \in Pairs, q \in Quote : UpsertOf(p, q) \in Statement
         /\ \A i \in Rows, q \in Quote : CompleteOf(i, q) \in Statement
         /\ \A i \in Rows : FailOf(i) \in Statement
<1>1. \A i \in Rows : i \in Nat /\ requests[i].pair \in Pairs
  BY RowTypes DEF Rows, StoreTypeOK
<1> QED
  BY <1>1 DEF InsertOf, UpsertOf, CompleteOf, FailOf, Statement

(* A write that is given up stays behind; the tables do not change. *)
LEMMA AbandonFacts ==
  ASSUME StoreTypeOK, NEW s \in Statement, Abandons(s)
  PROVE  /\ StoreTypeOK'
         /\ UNCHANGED tables
         /\ DOMAIN late' = DOMAIN late \cup {Len(late) + 1}
         /\ \A n \in DOMAIN late : late'[n] = late[n]
         /\ late'[Len(late) + 1] = s
         /\ faults' = faults + 1
<1>1. /\ late' \in Seq(Statement)
      /\ DOMAIN late' = DOMAIN late \cup {Len(late) + 1}
      /\ \A n \in DOMAIN late : late'[n] = late[n]
      /\ late'[Len(late) + 1] = s
  BY AppendProperties DEF Abandons, StoreTypeOK
<1>2. faults' \in 0 .. MaxFaults /\ faults' = faults + 1
  BY StoreAssumption DEF StoreTypeOK, Abandons, Fault
<1> QED
  BY <1>1, <1>2 DEF Abandons, StoreTypeOK, tables

(* What lands was not done, and is now; nothing else about it changes. *)
LEMMA LandFacts ==
  ASSUME StoreTypeOK, NEW n \in DOMAIN late, Lands(n)
  PROVE  /\ late' \in Seq(Statement) /\ DOMAIN late' = DOMAIN late
         /\ late[n] \in Statement /\ late'[n] = [late[n] EXCEPT !.done = TRUE]
         /\ late'[n].done = TRUE /\ ~late[n].done
         /\ \A m \in DOMAIN late :
              /\ m # n => late'[m] = late[m]
              /\ late'[m].do = late[m].do /\ late'[m].pair = late[m].pair
              /\ late'[m].id = late[m].id /\ late'[m].quote = late[m].quote
         /\ faults' = faults
<1> DEFINE s == [late[n] EXCEPT !.done = TRUE]
<1>1. late \in Seq(Statement) /\ n \in 1 .. Len(late) /\ late[n] \in Statement
  BY DEF StoreTypeOK
<1>2. /\ s \in Statement /\ s.done = TRUE
      /\ s.do = late[n].do /\ s.pair = late[n].pair /\ s.id = late[n].id
      /\ s.quote = late[n].quote
  BY <1>1 DEF Statement
<1>3. late' = [late EXCEPT ![n] = s]
  BY <1>1 DEF Lands, Statement
<1>3a. /\ s = [late[n] EXCEPT !.done = TRUE]
  OBVIOUS
<1> HIDE DEF s
<1>4. late' \in Seq(Statement) /\ Len(late') = Len(late)
  BY <1>1, <1>2, <1>3, ExceptSeq
<1>5. /\ DOMAIN late' = DOMAIN late /\ late'[n] = s
      /\ \A m \in DOMAIN late : m # n => late'[m] = late[m]
  BY <1>1, <1>3, <1>4
<1> QED
  BY <1>1, <1>2, <1>3a, <1>4, <1>5 DEF Lands

(***************************************************************************)
(* Type correctness.                                                       *)
(***************************************************************************)

(* An idle handler has the type of a handler. *)
LEMMA IdlePostType == IdlePost \in Post
BY StoreAssumption DEF IdlePost, Post, Steps

(* A handler that moves on without an answer keeps its type. *)
LEMMA GotoTypes ==
  ASSUME PostTypeOK, NEW h \in Handlers, NEW step \in Steps \cup {"panicked"}, Goto(h, step)
  PROVE  PostTypeOK'
BY DEF PostTypeOK, Post, Goto

(* A handler that moves on with an answer keeps its type. *)
LEMMA AnswerTypes ==
  ASSUME PostTypeOK, NEW h \in Handlers, NEW step \in Steps, NEW i \in Nat, Answer(h, step, i)
  PROVE  PostTypeOK'
BY DEF PostTypeOK, Post, Answer

(* A call that leaves nothing behind: the counter of failed calls stays *)
(* within its bound.                                                    *)
LEMMA FaultTypes ==
  ASSUME StoreTypeOK, Healthy \/ Faulty
  PROVE  faults' \in 0 .. MaxFaults /\ late' = late
BY StoreAssumption DEF StoreTypeOK, Healthy, Faulty, Fault

(* One SELECT keeps the types. *)
LEMMA SelectTypes ==
  ASSUME StoreTypeOK, PostTypeOK, NEW h \in Handlers, NEW matches, matches \subseteq Rows,
         NEW miss \in Steps, NEW err \in Steps, Select(h, matches, miss, err)
  PROVE  StoreTypeOK' /\ PostTypeOK'
<1>1. Rows \subseteq Nat
  BY DEF Rows, StoreTypeOK
<1>2. StoreTypeOK'
  BY FaultTypes DEF Select, StoreTypeOK, tables
<1>3. "existing" \in Steps
  BY DEF Steps
<1>4. PostTypeOK'
  BY <1>1, <1>3, GotoTypes, AnswerTypes DEF Select
<1> QED
  BY <1>2, <1>4

(* The handlers' own steps keep the types of the tables and of post. *)
LEMMA HandlerTypes ==
  ASSUME StoreTypeOK, PostTypeOK, NEW h \in Handlers, Arrive(h) \/ CreateStep(h)
  PROVE  StoreTypeOK' /\ PostTypeOK'
<1>0. {"key", "pending", "insert", "retryPending", "retryKey", "created", "error"} \subseteq Steps
  BY DEF Steps
<1>1. CASE Arrive(h)
  BY <1>0, <1>1 DEF Arrive, FirstStep, store, tables, StoreTypeOK, PostTypeOK, Post
<1>4. CASE LookupKey(h)
  BY <1>0, <1>4, SelectTypes DEF LookupKey, WithKey
<1>5. CASE LookupPending(h)
  BY <1>0, <1>5, SelectTypes DEF LookupPending, PendingOf
<1>6. CASE Insert(h)
  <2>1. post[h].pair \in Pairs /\ post[h].key \in Keys \cup {NoKey}
    BY DEF PostTypeOK, Post
  <2>4. StoreTypeOK'
    <3>1. CASE InsertRequest(post[h].pair, post[h].key) /\ Healthy
      BY <2>1, <3>1, InsertFacts, FaultTypes DEF StoreTypeOK, InsertRequest
    <3>2. CASE UNCHANGED store
      BY <3>2 DEF StoreTypeOK, store, tables
    <3>3. CASE Abandons(InsertOf(post[h].pair, post[h].key))
      BY <2>1, <3>3, StatementTypes, AbandonFacts
    <3> QED
      BY <1>6, <3>1, <3>2, <3>3 DEF Insert
  <2>5. \/ Answer(h, "created", Len(requests) + 1)
        \/ Goto(h, "retryPending")
        \/ Goto(h, "error")
    BY <1>6 DEF Insert
  <2>6. Len(requests) + 1 \in Nat
    BY DEF StoreTypeOK
  <2>7. PostTypeOK'
    BY <1>0, <2>5, <2>6, GotoTypes, AnswerTypes
  <2> QED
    BY <2>4, <2>7
<1>7. CASE RetryPending(h)
  BY <1>0, <1>7, SelectTypes DEF RetryPending, PendingOf
<1>8. CASE RetryKey(h)
  BY <1>0, <1>8, SelectTypes DEF RetryKey, WithKey
<1> QED
  BY <1>1, <1>4, <1>5, <1>6, <1>7, <1>8 DEF CreateStep

=============================================================================
