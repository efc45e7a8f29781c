-------------------------- MODULE Idempotency_proofs --------------------------
(***************************************************************************)
(* Proofs about Idempotency, for any number of handlers, pairs, keys,      *)
(* rows and failing statements: first against any workers that settle      *)
(* rows, then inside the whole service of ServicePromises.                 *)
(***************************************************************************)
EXTENDS ServicePromises, RatesService_proofs

(***************************************************************************)
(* The inductive invariant.                                                *)
(***************************************************************************)

(* The unique index on idempotency_key. *)
UniqueKeys ==
  \A i, j \in Rows :
    requests[i].key # NoKey /\ requests[i].key = requests[j].key => i = j

(* The key of the call is held by a row. *)
KeyStored(h) == Keyed(h) /\ WithKey(post[h].key) # {}

(* A row of the pair that was not settled when the call began, or came later. *)
OpenSince(h) == {i \in Rows \ atArrival[h].settled : requests[i].pair = post[h].pair}

SettledSince(h) == OpenSince(h) \cap SettledRows

(* What a handler may count on, by the statement it is at. *)
Good(h) ==
  /\ atArrival[h].settled \subseteq SettledRows
  /\ atArrival[h].owner # 0 =>
       /\ Keyed(h) /\ atArrival[h].owner \in WithKey(post[h].key)
       /\ post[h].at \in {"key", "existing", "error"}
       /\ post[h].at = "existing" => post[h].id = atArrival[h].owner
  /\ GivenId(h) /\ post[h].id \in atArrival[h].settled
       => Keyed(h) /\ requests[post[h].id].key = post[h].key
  /\ post[h].at \in {"key", "retryKey"} => Keyed(h)
  /\ post[h].at = "retryPending" => OpenSince(h) # {} \/ KeyStored(h)

(* What it may count on besides as long as no statement has failed. *)
Calm(h) ==
  /\ post[h].at = "retryKey" => SettledSince(h) # {} \/ KeyStored(h)
  /\ post[h].at = "error" => SettledSince(h) # {}

HistoryTypeOK == atArrival \in [Handlers -> [owner : Nat, settled : SUBSET Nat]]

(* The handlers give up nothing but INSERTs. *)
LateInserts == \A n \in DOMAIN late : late[n].do = "insert"

PromiseInv ==
  /\ CreateTypeOK /\ HistoryTypeOK /\ UniqueKeys /\ LateInserts
  /\ \A h \in Handlers : Good(h) /\ (faults = 0 => Calm(h))

(***************************************************************************)
(* What the steps leave of the tables.                                     *)
(***************************************************************************)

(* Rows stay, with pair and key, and a settled row stays settled. *)
RowsGrow ==
  /\ Rows \subseteq Rows'
  /\ \A i \in Rows : /\ requests'[i].pair = requests[i].pair
                     /\ requests'[i].key = requests[i].key
                     /\ ~Pending(i) => requests'[i].status # "pending"
  /\ faults \in Nat /\ faults' \in Nat /\ faults' >= faults

LEMMA SameRows ==
  ASSUME StoreTypeOK, requests' = requests, Healthy \/ Fault
  PROVE  RowsGrow /\ (UniqueKeys => UniqueKeys')
<1>1. faults \in Nat /\ faults' \in Nat /\ faults' >= faults
  BY StoreAssumption DEF StoreTypeOK, Healthy, Fault
<1> QED
  BY <1>1 DEF RowsGrow, UniqueKeys, Rows, Pending

(* An INSERT, in time or late, adds a row with a key of its own. *)
LEMMA InsertRows ==
  ASSUME StoreTypeOK, NEW p \in Pairs, NEW k \in Keys \cup {NoKey}, InsertRequest(p, k),
         faults \in Nat, faults' \in Nat, faults' >= faults
  PROVE  RowsGrow /\ (UniqueKeys => UniqueKeys')
<1> DEFINE new == Len(requests) + 1
<1>1. /\ Rows' = Rows \cup {new}
      /\ \A i \in Rows : requests'[i] = requests[i]
      /\ requests'[new].key = k
  <2>1. /\ Rows' = Rows \cup {new}
        /\ \A i \in Rows : requests'[i] = requests[i]
        /\ requests'[new] = NewRow(p, k)
    BY InsertFacts DEF StoreTypeOK
  <2> QED
    BY <2>1 DEF NewRow
<1>2. k # NoKey => \A i \in Rows : requests[i].key # k
  BY DEF InsertRequest, Conflict, WithKey
<1> HIDE DEF new
<1> QED
  BY <1>1, <1>2 DEF RowsGrow, UniqueKeys, Pending

(* A statement of a handler: only its INSERT writes. *)
LEMMA CreateStepRows ==
  ASSUME CreateTypeOK, UniqueKeys, NEW h \in Handlers, CreateStep(h)
  PROVE  CreateTypeOK' /\ RowsGrow /\ UniqueKeys' /\ (LateInserts => LateInserts')
<1>0. StoreTypeOK /\ PostTypeOK
  BY DEF CreateTypeOK
<1>1. CreateTypeOK'
  BY <1>0, HandlerTypes DEF CreateTypeOK
<1> DEFINE p == post[h].pair
           k == post[h].key
<1>2. p \in Pairs /\ k \in Keys \cup {NoKey}
  BY <1>0 DEF PostTypeOK, Post
<1>3. CASE InsertRequest(p, k) /\ Healthy
  <2>1. late' = late /\ faults' = faults /\ faults \in Nat
    BY <1>0, <1>3, StoreAssumption DEF Healthy, StoreTypeOK
  <2> QED
    BY <1>0, <1>1, <1>2, <1>3, <2>1, InsertRows DEF LateInserts
<1>4. CASE Abandons(InsertOf(p, k))
  <2>1. /\ DOMAIN late' = DOMAIN late \cup {Len(late) + 1}
        /\ \A n \in DOMAIN late : late'[n] = late[n]
        /\ late'[Len(late) + 1] = InsertOf(p, k)
    BY <1>0, <1>2, <1>4, StatementTypes, AbandonFacts
  <2>2. InsertOf(p, k).do = "insert"
    BY DEF InsertOf
  <2>3. requests' = requests /\ Fault
    BY <1>4 DEF Abandons, tables
  <2> QED
    BY <1>0, <1>1, <2>1, <2>2, <2>3, SameRows DEF LateInserts
<1>5. CASE requests' = requests /\ late' = late /\ (Healthy \/ Fault)
  BY <1>0, <1>1, <1>5, SameRows DEF LateInserts
<1> QED
  BY <1>3, <1>4, <1>5
     DEF CreateStep, LookupKey, LookupPending, Insert, RetryPending, RetryKey, Select,
         Healthy, Faulty, store, tables

(* An INSERT that was given up lands. *)
LEMMA LateLandsRows ==
  ASSUME CreateTypeOK, UniqueKeys, LateInserts, NEW n \in DOMAIN late, LateLands(n)
  PROVE  CreateTypeOK' /\ RowsGrow /\ UniqueKeys' /\ LateInserts'
<1>1. /\ StoreTypeOK /\ PostTypeOK /\ post' = post /\ Lands(n) /\ Executes(late[n])
      /\ late[n].do = "insert"
  BY DEF CreateTypeOK, LateLands, Lands, LateInserts
<1>2. /\ late[n].pair \in Pairs /\ late[n].key \in Keys \cup {NoKey}
      /\ late' \in Seq(Statement) /\ DOMAIN late' = DOMAIN late
      /\ \A m \in DOMAIN late : late'[m].do = late[m].do
      /\ faults' = faults /\ faults \in Nat
  <2>1. late[n] \in Statement
    BY <1>1, LandFacts
  <2>2. faults \in Nat
    BY <1>1, StoreAssumption DEF StoreTypeOK
  <2>3. late[n].pair \in Pairs /\ late[n].key \in Keys \cup {NoKey}
    BY <2>1 DEF Statement
  <2> QED
    BY <1>1, <2>2, <2>3, LandFacts
<1>3. CASE InsertRequest(late[n].pair, late[n].key)
  <2>1. requests' \in Seq(Row) /\ quotes' = quotes
    BY <1>1, <1>2, <1>3, InsertFacts DEF StoreTypeOK, InsertRequest
  <2>2. faults' \in Nat /\ faults' >= faults
    BY <1>2
  <2>3. RowsGrow /\ UniqueKeys'
    BY <1>1, <1>2, <1>3, <2>2, InsertRows
  <2>4. LateInserts'
    BY <1>2 DEF LateInserts
  <2>5. StoreTypeOK'
    BY <1>1, <1>2, <2>1 DEF StoreTypeOK
  <2> QED
    BY <1>1, <2>3, <2>4, <2>5 DEF CreateTypeOK, PostTypeOK
<1>4. CASE UNCHANGED tables
  <2>1. RowsGrow /\ UniqueKeys'
    BY <1>1, <1>2, <1>4, StoreAssumption DEF RowsGrow, UniqueKeys, StoreTypeOK, tables, Rows, Pending
  <2> QED
    BY <1>1, <1>2, <1>4, <2>1 DEF CreateTypeOK, StoreTypeOK, PostTypeOK, LateInserts, tables
<1> QED
  BY <1>1, <1>3, <1>4 DEF Executes

LEMMA SettledByWorkerRows ==
  ASSUME CreateTypeOK, UniqueKeys, NEW i \in Rows, SettledByWorker(i)
  PROVE  CreateTypeOK' /\ RowsGrow /\ UniqueKeys' /\ (LateInserts => LateInserts')
<1>0. StoreTypeOK /\ PostTypeOK /\ post' = post /\ faults' = faults /\ late' = late
  BY DEF CreateTypeOK, SettledByWorker
<1>1. PICK status \in {"completed", "failed"}, result \in Quote \cup {NoQuote} :
        Settle(i, status, result)
  <2>1. \A c \in Prices : [price |-> c, at |-> 0] \in Quote
    BY StoreAssumption DEF Quote
  <2> QED
    BY <2>1 DEF SettledByWorker, CompleteRequest, FailRequest
<1>2. status \in Statuses /\ quotes' = quotes
  BY <1>1 DEF Statuses, Settle
<1>3. /\ requests' \in Seq(Row)
      /\ Rows' = Rows
      /\ \A j \in Rows : /\ requests'[j].pair = requests[j].pair
                         /\ requests'[j].key = requests[j].key
                         /\ j # i \/ ~Pending(j) => requests'[j] = requests[j]
  BY <1>0, <1>1, <1>2, SettleFacts DEF StoreTypeOK
<1>4. CreateTypeOK'
  BY <1>0, <1>2, <1>3 DEF CreateTypeOK, StoreTypeOK, PostTypeOK
<1>5. faults \in Nat
  BY <1>0, StoreAssumption DEF StoreTypeOK
<1> QED
  BY <1>0, <1>3, <1>4, <1>5 DEF RowsGrow, UniqueKeys, Pending, LateInserts

(***************************************************************************)
(* The handlers.                                                           *)
(***************************************************************************)

(* What a handler counts on survives the steps of the others. *)
LEMMA GoodFrame ==
  ASSUME CreateTypeOK, RowsGrow, NEW h \in Handlers, Good(h),
         post'[h] = post[h], atArrival'[h] = atArrival[h]
  PROVE  Good(h)' /\ (Calm(h) => Calm(h)')
<1>1. SettledRows \subseteq SettledRows'
  BY DEF RowsGrow, SettledRows, Pending
<1>2. WithKey(post[h].key) \subseteq WithKey(post[h].key)'
  BY DEF RowsGrow, WithKey
<1>3. OpenSince(h) \subseteq OpenSince(h)'
  BY DEF RowsGrow, OpenSince
<1>4. SettledSince(h) \subseteq SettledSince(h)'
  BY <1>1, <1>3 DEF SettledSince
<1>5. KeyStored(h) => KeyStored(h)'
  BY <1>2 DEF KeyStored, Keyed, WithKey
<1>6. SettledRows \subseteq Rows
  BY DEF SettledRows
<1> QED
  BY <1>1, <1>2, <1>3, <1>4, <1>5, <1>6 DEF Good, Calm, GivenId, Keyed, WithKey, RowsGrow

LEMMA ArriveGood ==
  ASSUME CreateTypeOK, NEW h \in Handlers, Arrive(h),
         atArrival'[h] = Snapshot(post'[h].key)
  PROVE  Good(h)' /\ Calm(h)'
<1>1. PICK k \in Keys \cup {NoKey}, p \in Pairs :
        post' = [post EXCEPT ![h] = [at |-> FirstStep(k), pair |-> p, key |-> k, id |-> 0]]
  BY DEF Arrive
<1>2. post'[h] = [at |-> FirstStep(k), pair |-> p, key |-> k, id |-> 0]
  BY <1>1 DEF CreateTypeOK, PostTypeOK
<1>3. requests' = requests
  BY DEF Arrive, store, tables
<1>4. atArrival'[h] = Snapshot(k)
  BY <1>2
<1>5. SettledRows' = SettledRows /\ WithKey(k)' = WithKey(k)
  BY <1>3 DEF SettledRows, WithKey, Rows, Pending
<1>6. Snapshot(k).settled = SettledRows
  BY DEF Snapshot
<1>7. Snapshot(k).owner # 0 => k # NoKey /\ Snapshot(k).owner \in WithKey(k)
  BY DEF Snapshot
<1>8. post'[h].at \in {"key", "pending"} /\ (post'[h].at = "key" <=> k # NoKey)
  BY <1>2 DEF FirstStep
<1> QED
  BY <1>2, <1>4, <1>5, <1>6, <1>7, <1>8 DEF Good, Calm, GivenId, Keyed, WithKey

LEMMA IdleGood ==
  ASSUME NEW h \in Handlers, post'[h].at = "idle", atArrival'[h] = NoSnapshot
  PROVE  Good(h)' /\ Calm(h)'
BY DEF Good, Calm, GivenId, NoSnapshot

(* The outcomes of a SELECT, seen from its handler. *)
LEMMA SelectMoves ==
  ASSUME CreateTypeOK, NEW h \in Handlers, NEW matches, NEW miss, NEW err,
         Select(h, matches, miss, err)
  PROVE  /\ requests' = requests
         /\ \/ matches = {} /\ post'[h] = [post[h] EXCEPT !.at = miss] /\ faults' = faults
            \/ \E i \in matches : post'[h] = [post[h] EXCEPT !.at = "existing", !.id = i]
            \/ post'[h] = [post[h] EXCEPT !.at = err] /\ faults' # 0
<1>1. Faulty => faults' # 0
  BY StoreAssumption DEF Faulty, Fault, CreateTypeOK, StoreTypeOK
<1> QED
  BY <1>1 DEF Select, Goto, Answer, Healthy, CreateTypeOK, PostTypeOK, tables

(* What a SELECT leaves as it is. *)
LEMMA SelectFacts ==
  ASSUME NEW h \in Handlers, requests' = requests, atArrival'[h] = atArrival[h],
         post'[h].pair = post[h].pair, post'[h].key = post[h].key
  PROVE  /\ Rows' = Rows /\ SettledRows' = SettledRows
         /\ \A k : WithKey(k)' = WithKey(k)
         /\ OpenSince(h)' = OpenSince(h) /\ SettledSince(h)' = SettledSince(h)
         /\ Keyed(h)' <=> Keyed(h)
         /\ KeyStored(h)' <=> KeyStored(h)
BY DEF Rows, SettledRows, Pending, WithKey, OpenSince, SettledSince, Keyed, KeyStored

LEMMA StepGood ==
  ASSUME CreateTypeOK, UniqueKeys, RowsGrow, NEW h \in Handlers, Good(h), CreateStep(h),
         atArrival'[h] = atArrival[h]
  PROVE  Good(h)' /\ (faults' = 0 /\ Calm(h) => Calm(h)')
<1> DEFINE r == post[h]
           a == atArrival[h]
<1>t. r \in Post /\ a.settled \subseteq SettledRows /\ SettledRows \subseteq Rows
  BY DEF CreateTypeOK, PostTypeOK, Good, SettledRows
<1>s. atArrival'[h] = a
  OBVIOUS
(* A SELECT, without what depends on the statement. *)
<1>1. ASSUME NEW matches, NEW miss, NEW err, Select(h, matches, miss, err)
      PROVE  /\ requests' = requests
             /\ post'[h].pair = r.pair /\ post'[h].key = r.key
             /\ \/ matches = {} /\ post'[h].at = miss /\ faults' = faults
                \/ post'[h].at = "existing" /\ post'[h].id \in matches
                \/ post'[h].at = err /\ faults' # 0
  <2>1. /\ requests' = requests
        /\ \/ matches = {} /\ post'[h] = [r EXCEPT !.at = miss] /\ faults' = faults
           \/ \E i \in matches : post'[h] = [r EXCEPT !.at = "existing", !.id = i]
           \/ post'[h] = [r EXCEPT !.at = err] /\ faults' # 0
    BY <1>1, SelectMoves
  <2>2. \A s : /\ [r EXCEPT !.at = s].at = s
               /\ [r EXCEPT !.at = s].pair = r.pair /\ [r EXCEPT !.at = s].key = r.key
    BY <1>t DEF Post
  <2> HIDE DEF r
  <2>3. CASE matches = {} /\ post'[h] = [r EXCEPT !.at = miss] /\ faults' = faults
    BY <2>1, <2>2, <2>3, Zenon
  <2>4. CASE \E i \in matches : post'[h] = [r EXCEPT !.at = "existing", !.id = i]
    <3>1. PICK i \in matches : post'[h] = [r EXCEPT !.at = "existing", !.id = i]
      BY <2>4
    <3>2. /\ post'[h].at = "existing" /\ post'[h].id = i
          /\ post'[h].pair = r.pair /\ post'[h].key = r.key
      BY <1>t, <3>1 DEF Post
    <3> QED
      BY <2>1, <3>1, <3>2
  <2>5. CASE post'[h] = [r EXCEPT !.at = err] /\ faults' # 0
    BY <2>1, <2>2, <2>5, Zenon
  <2> QED
    BY <2>1, <2>3, <2>4, <2>5
<1>2. CASE LookupKey(h)
  <2>1. r.at = "key" /\ Keyed(h) /\ Select(h, WithKey(r.key), "pending", "error")
    BY <1>2 DEF LookupKey, Good
  <2>2. /\ requests' = requests
        /\ post'[h].pair = r.pair /\ post'[h].key = r.key
        /\ \/ WithKey(r.key) = {} /\ post'[h].at = "pending" /\ faults' = faults
           \/ post'[h].at = "existing" /\ post'[h].id \in WithKey(r.key)
           \/ post'[h].at = "error" /\ faults' # 0
    BY <1>1, <2>1
  <2>3. /\ SettledRows' = SettledRows /\ Keyed(h)'
        /\ WithKey(r.key)' = WithKey(r.key)
    BY <1>s, <2>1, <2>2, SelectFacts
  <2>4. a.owner # 0 => a.owner \in WithKey(r.key)
    BY DEF Good
  <2>5. \A i, j \in WithKey(r.key) : i = j
    BY <2>1 DEF UniqueKeys, WithKey, Keyed
  <2>6. \A i \in WithKey(r.key) : requests[i].key = r.key
    BY DEF WithKey
  <2> QED
    BY <1>s, <1>t, <2>2, <2>3, <2>4, <2>5, <2>6 DEF Good, Calm, GivenId
<1>3. CASE LookupPending(h)
  <2>1. r.at = "pending" /\ Select(h, PendingOf(r.pair), "insert", "error") /\ a.owner = 0
    BY <1>3 DEF LookupPending, Good
  <2>2. /\ requests' = requests
        /\ post'[h].pair = r.pair /\ post'[h].key = r.key
        /\ \/ PendingOf(r.pair) = {} /\ post'[h].at = "insert" /\ faults' = faults
           \/ post'[h].at = "existing" /\ post'[h].id \in PendingOf(r.pair)
           \/ post'[h].at = "error" /\ faults' # 0
    BY <1>1, <2>1
  <2>3. SettledRows' = SettledRows
    BY <1>s, <2>2, SelectFacts
  <2>4. PendingOf(r.pair) \cap SettledRows = {}
    BY DEF PendingOf, SettledRows
  <2> QED
    BY <1>s, <1>t, <2>1, <2>2, <2>3, <2>4 DEF Good, Calm, GivenId
<1>4. CASE Insert(h)
  <2>1. r.at = "insert" /\ a.owner = 0
    BY <1>4 DEF Insert, Good
  <2>2. SettledRows \subseteq SettledRows'
    BY DEF RowsGrow, SettledRows, Pending
  <2>3. CASE Answer(h, "created", Len(requests) + 1)
    <3>1. post'[h].at = "created" /\ post'[h].id = Len(requests) + 1
      BY <1>t, <2>3 DEF Answer, CreateTypeOK, PostTypeOK, Post
    <3>2. Len(requests) + 1 \notin Rows
      BY DEF Rows, CreateTypeOK, StoreTypeOK
    <3> QED
      BY <1>s, <1>t, <2>1, <2>2, <3>1, <3>2 DEF Good, Calm, GivenId
  <2>4. CASE Conflict(r.pair, r.key) /\ Goto(h, "retryPending") /\ UNCHANGED store
    <3>1. post'[h] = [r EXCEPT !.at = "retryPending"] /\ requests' = requests
      BY <2>4 DEF Goto, CreateTypeOK, PostTypeOK, store, tables
    <3>2. post'[h].at = "retryPending" /\ post'[h].pair = r.pair /\ post'[h].key = r.key
      BY <1>t, <3>1 DEF Post
    <3>3. OpenSince(h) # {} \/ KeyStored(h)
      BY <1>t, <2>4 DEF Conflict, PendingOf, OpenSince, KeyStored, Keyed, SettledRows
    <3>4. OpenSince(h)' = OpenSince(h) /\ (KeyStored(h)' <=> KeyStored(h))
      BY <1>s, <3>1, <3>2, SelectFacts
    <3> QED
      BY <1>s, <1>t, <2>1, <2>2, <3>2, <3>3, <3>4 DEF Good, Calm, GivenId
  <2>5. CASE Fault /\ Goto(h, "error")
    <3>1. post'[h].at = "error"
      BY <1>t, <2>5 DEF Goto, CreateTypeOK, PostTypeOK, Post
    <3>2. faults' # 0
      BY <2>5, StoreAssumption DEF Fault, CreateTypeOK, StoreTypeOK
    <3> QED
      BY <1>s, <1>t, <2>1, <2>2, <3>1, <3>2 DEF Good, Calm, GivenId
  <2> QED
    BY <1>4, <2>3, <2>4, <2>5 DEF Insert, Abandons
<1>5. CASE RetryPending(h)
  <2> DEFINE next == IF Keyed(h) THEN "retryKey" ELSE "error"
  <2>1. /\ r.at = "retryPending" /\ Select(h, PendingOf(r.pair), next, next)
        /\ a.owner = 0 /\ (OpenSince(h) # {} \/ KeyStored(h))
    BY <1>5 DEF RetryPending, Good
  <2>2. /\ requests' = requests
        /\ post'[h].pair = r.pair /\ post'[h].key = r.key
        /\ \/ PendingOf(r.pair) = {} /\ post'[h].at = next /\ faults' = faults
           \/ post'[h].at = "existing" /\ post'[h].id \in PendingOf(r.pair)
           \/ post'[h].at = next /\ faults' # 0
    BY <1>1, <2>1
  <2>3. /\ SettledRows' = SettledRows /\ SettledSince(h)' = SettledSince(h)
        /\ (Keyed(h)' <=> Keyed(h)) /\ (KeyStored(h)' <=> KeyStored(h))
    BY <1>s, <2>2, SelectFacts
  <2>4. PendingOf(r.pair) \cap SettledRows = {}
    BY DEF PendingOf, SettledRows
  <2>5. PendingOf(r.pair) = {} => SettledSince(h) # {} \/ KeyStored(h)
    BY <2>1 DEF PendingOf, OpenSince, SettledSince, SettledRows
  <2>6. ~Keyed(h) => ~KeyStored(h)
    BY DEF KeyStored
  <2> QED
    BY <1>s, <1>t, <2>1, <2>2, <2>3, <2>4, <2>5, <2>6 DEF Good, Calm, GivenId
<1>6. CASE RetryKey(h)
  <2>1. /\ r.at = "retryKey" /\ Select(h, WithKey(r.key), "error", "error")
        /\ a.owner = 0 /\ Keyed(h)
        /\ Calm(h) => SettledSince(h) # {} \/ KeyStored(h)
    BY <1>6 DEF RetryKey, Good, Calm
  <2>2. /\ requests' = requests
        /\ post'[h].pair = r.pair /\ post'[h].key = r.key
        /\ \/ WithKey(r.key) = {} /\ post'[h].at = "error" /\ faults' = faults
           \/ post'[h].at = "existing" /\ post'[h].id \in WithKey(r.key)
           \/ post'[h].at = "error" /\ faults' # 0
    BY <1>1, <2>1
  <2>3. /\ SettledRows' = SettledRows /\ SettledSince(h)' = SettledSince(h)
        /\ Keyed(h)'
    BY <1>s, <2>1, <2>2, SelectFacts
  <2>4. \A i \in WithKey(r.key) : requests[i].key = r.key
    BY DEF WithKey
  <2>5. WithKey(r.key) = {} => ~KeyStored(h)
    BY DEF KeyStored
  <2> QED
    BY <1>s, <1>t, <2>1, <2>2, <2>3, <2>4, <2>5 DEF Good, Calm, GivenId
<1> QED
  BY <1>2, <1>3, <1>4, <1>5, <1>6 DEF CreateStep

(***************************************************************************)
(* The invariant holds initially and is preserved.                         *)
(***************************************************************************)

LEMMA InitPromises == IdemInit => PromiseInv
<1> SUFFICES ASSUME IdemInit PROVE PromiseInv
  OBVIOUS
<1>1. StoreTypeOK
  BY StoreAssumption DEF IdemInit, CreateInit, StoreInit, StoreTypeOK
<1>2. PostTypeOK
  BY IdlePostType DEF IdemInit, CreateInit, PostInit, PostTypeOK
<1>3. HistoryTypeOK
  BY DEF IdemInit, HistoryTypeOK, NoSnapshot
<1>4. UniqueKeys
  BY DEF IdemInit, CreateInit, StoreInit, UniqueKeys, Rows
<1>5. \A h \in Handlers : Good(h) /\ Calm(h)
  BY DEF IdemInit, CreateInit, PostInit, Good, Calm, GivenId, IdlePost, NoSnapshot
<1>6. LateInserts
  BY DEF IdemInit, CreateInit, StoreInit, LateInserts
<1> QED
  BY <1>1, <1>2, <1>3, <1>4, <1>5, <1>6 DEF PromiseInv, CreateTypeOK

(* A step of one handler leaves the others alone. *)
LEMMA HandlerMoves ==
  ASSUME PromiseInv, NEW h \in Handlers, ObservedArrive(h) \/ ObservedStep(h) \/ ObservedRespond(h)
  PROVE  \A g \in Handlers \ {h} : post'[g] = post[g] /\ atArrival'[g] = atArrival[g]
<1> USE DEF PromiseInv, CreateTypeOK, PostTypeOK, HistoryTypeOK
<1>1. CASE ObservedArrive(h)
  BY <1>1 DEF ObservedArrive, Arrive
<1>2. CASE ObservedStep(h)
  BY <1>2 DEF ObservedStep, CreateStep, LookupKey, LookupPending, Insert, RetryPending,
              RetryKey, Select, Goto, Answer
<1>3. CASE ObservedRespond(h)
  BY <1>3 DEF ObservedRespond, Respond
<1> QED
  BY <1>1, <1>2, <1>3

LEMMA HandlerPromises ==
  ASSUME PromiseInv, NEW h \in Handlers, ObservedArrive(h) \/ ObservedStep(h) \/ ObservedRespond(h)
  PROVE  PromiseInv'
<1>0. /\ CreateTypeOK /\ HistoryTypeOK /\ UniqueKeys /\ LateInserts
      /\ \A g \in Handlers : Good(g) /\ (faults = 0 => Calm(g))
      /\ StoreTypeOK /\ PostTypeOK
  BY DEF PromiseInv, CreateTypeOK
<1>1. SUFFICES /\ CreateTypeOK' /\ HistoryTypeOK' /\ RowsGrow /\ UniqueKeys' /\ LateInserts'
               /\ Good(h)' /\ (faults' = 0 /\ faults = 0 => Calm(h)')
  <2>0. faults' = 0 => faults = 0
    BY <1>1 DEF RowsGrow
  <2>1. \A g \in Handlers \ {h} : Good(g)' /\ (faults' = 0 => Calm(g)')
    BY <1>0, <1>1, <2>0, HandlerMoves, GoodFrame
  <2> QED
    BY <1>1, <2>0, <2>1 DEF PromiseInv
<1>2. CASE ObservedArrive(h)
  <2>1. CreateTypeOK'
    BY <1>0, <1>2, HandlerTypes DEF ObservedArrive, CreateTypeOK
  <2>2. requests' = requests /\ Healthy /\ LateInserts'
    BY <1>0, <1>2 DEF ObservedArrive, Arrive, store, tables, Healthy, LateInserts
  <2>3. HistoryTypeOK'
    <3>1. \A k : Snapshot(k).owner \in Nat /\ Snapshot(k).settled \subseteq Nat
      BY <1>0 DEF Snapshot, WithKey, SettledRows, Rows, StoreTypeOK
    <3>2. \A k : Snapshot(k) \in [owner : Nat, settled : SUBSET Nat]
      BY <3>1 DEF Snapshot
    <3> QED
      BY <1>0, <1>2, <3>2 DEF ObservedArrive, HistoryTypeOK
  <2>4. Good(h)' /\ Calm(h)'
    BY <1>0, <1>2, ArriveGood DEF ObservedArrive, HistoryTypeOK
  <2> QED
    BY <1>0, <2>1, <2>2, <2>3, <2>4, SameRows
<1>3. CASE ObservedStep(h)
  <2>1. CreateTypeOK' /\ RowsGrow /\ UniqueKeys' /\ LateInserts'
    BY <1>0, <1>3, CreateStepRows DEF ObservedStep
  <2>2. HistoryTypeOK'
    BY <1>0, <1>3 DEF ObservedStep, HistoryTypeOK
  <2> QED
    BY <1>0, <1>3, <2>1, <2>2, StepGood DEF ObservedStep
<1>4. CASE ObservedRespond(h)
  <2>1. requests' = requests /\ Healthy /\ StoreTypeOK' /\ LateInserts'
    BY <1>0, <1>4
       DEF ObservedRespond, Respond, store, tables, Healthy, StoreTypeOK, LateInserts
  <2>2. PostTypeOK'
    BY <1>0, <1>4, IdlePostType DEF ObservedRespond, Respond, PostTypeOK
  <2>3. HistoryTypeOK'
    BY <1>0, <1>4 DEF ObservedRespond, HistoryTypeOK, NoSnapshot
  <2>4. Good(h)' /\ Calm(h)'
    BY <1>0, <1>4, IdleGood DEF ObservedRespond, Respond, PostTypeOK, HistoryTypeOK, IdlePost
  <2> QED
    BY <1>0, <2>1, <2>2, <2>3, <2>4, SameRows DEF CreateTypeOK
<1> QED
  BY <1>2, <1>3, <1>4

LEMMA NextPromises == PromiseInv /\ [IdemNext]_idemVars => PromiseInv'
<1> SUFFICES ASSUME PromiseInv, [IdemNext]_idemVars PROVE PromiseInv'
  OBVIOUS
<1>1. ASSUME NEW h \in Handlers,
             ObservedArrive(h) \/ ObservedStep(h) \/ ObservedRespond(h)
      PROVE  PromiseInv'
  BY <1>1, HandlerPromises
(* What is left for the steps of the others. *)
<1>2. ASSUME CreateTypeOK', RowsGrow, UniqueKeys', LateInserts', post' = post, UNCHANGED history
      PROVE  PromiseInv'
  <2>1. atArrival' = atArrival /\ (faults' = 0 => faults = 0)
    BY <1>2 DEF history, RowsGrow
  <2>2. \A h \in Handlers : Good(h)' /\ (faults' = 0 => Calm(h)')
    BY <1>2, <2>1, GoodFrame DEF PromiseInv
  <2> QED
    BY <1>2, <2>1, <2>2 DEF PromiseInv, HistoryTypeOK
<1>3. ASSUME NEW i \in Rows, SettledByWorker(i), UNCHANGED history
      PROVE  PromiseInv'
  BY <1>2, <1>3, SettledByWorkerRows DEF PromiseInv, SettledByWorker
<1>4. ASSUME NEW n \in DOMAIN late, LateLands(n), UNCHANGED history
      PROVE  PromiseInv'
  BY <1>2, <1>4, LateLandsRows DEF PromiseInv, LateLands
<1>5. CASE UNCHANGED idemVars
  <2>1. requests' = requests /\ Healthy /\ CreateTypeOK' /\ LateInserts'
        /\ post' = post /\ UNCHANGED history
    BY <1>5 DEF idemVars, createVars, store, tables, Healthy, PromiseInv, CreateTypeOK,
                StoreTypeOK, PostTypeOK, LateInserts
  <2>2. RowsGrow /\ UniqueKeys'
    BY <2>1, SameRows DEF PromiseInv, CreateTypeOK
  <2> QED
    BY <1>2, <2>1, <2>2
<1> QED
  BY <1>1, <1>3, <1>4, <1>5 DEF IdemNext

(***************************************************************************)
(* The theorems.                                                           *)
(***************************************************************************)

(* What every handler may count on at each of its statements, whatever the *)
(* others and the workers do (storage.go:41-80).                           *)
THEOREM PromisesKept == IdemSpec => []PromiseInv
<1> QED
  BY InitPromises, NextPromises, PTL DEF IdemSpec

(* The tables and the handlers keep their types.                           *)
THEOREM CreateTypeCorrect == IdemSpec => []CreateTypeOK
<1>1. PromiseInv => CreateTypeOK
  BY DEF PromiseInv
<1> QED
  BY <1>1, PromisesKept, PTL

(* A key that a row held when the call began answers that row, with any    *)
(* number of concurrent calls (storage.go:42-56, 65-77).                   *)
THEOREM StoredKeyWinsAlways == IdemSpec => []StoredKeyWins
<1>1. PromiseInv => StoredKeyWins
  BY DEF PromiseInv, Good, GivenId, StoredKeyWins
<1> QED
  BY <1>1, PromisesKept, PTL

(* No call is answered with a request that was settled when it began,      *)
(* unless by its own key (storage.go:206-218).                             *)
THEOREM AnswerIsFreshAlways == IdemSpec => []AnswerIsFresh
<1>1. PromiseInv => AnswerIsFresh
  BY DEF PromiseInv, Good, AnswerIsFresh
<1> QED
  BY <1>1, PromisesKept, PTL

(* While the database is healthy a call fails only when a row of its pair  *)
(* has been settled since it began (storage.go:65-78).                     *)
THEOREM HealthyErrorNeedsSettleAlways == IdemSpec => []HealthyErrorNeedsSettle
<1>1. PromiseInv => HealthyErrorNeedsSettle
  BY DEF PromiseInv, Calm, HealthyErrorNeedsSettle, SettledSince, OpenSince, SettledRows
<1> QED
  BY <1>1, PromisesKept, PTL

(***************************************************************************)
(* The promises in the whole service.                                      *)
(***************************************************************************)

(* What the handlers may count on, beside the invariant of the service.    *)
ServedInv ==
  /\ IInv /\ HistoryTypeOK /\ UniqueKeys
  /\ \A h \in Handlers :
       Good(h) /\ (faults = 0 /\ phase # "disconnecting" => Calm(h))

(* Failed calls are never forgotten, not even in a crash. *)
LEMMA FaultsKept ==
  ASSUME IInv, [ServiceNext]_vars
  PROVE  faults \in Nat /\ faults' \in Nat /\ faults' >= faults
<1>1. faults \in Nat
  BY StoreAssumption DEF IInv, TypeOK, StoreTypeOK
<1> SUFFICES faults' = faults \/ Fault
  BY <1>1 DEF Fault
<1>2. CASE \E h \in Handlers : RepoStep(h)
  BY <1>2 DEF RepoStep, CreateStep, LookupKey, LookupPending, Insert, RetryPending, RetryKey,
              Select, Abandons, Healthy, Faulty, store
<1>3. CASE \E w \in Workers : WorkerStep(w)
  BY <1>3 DEF WorkerStep, Take, WorkerExits, RateArrives, RateFails, Upsert, Complete, Fail,
              Finish, WriteRefused, Succeeds, Abandons, Healthy, createVars, store
<1>4. CASE \E r \in Resyncers : ResyncStep(r)
  BY <1>4 DEF ResyncStep, List, ListRefused, EnqueueListed, ResyncReturns, Healthy, Faulty,
              createVars, store
<1>5. CASE \/ UNCHANGED vars
           \/ \E h \in Handlers : ArriveServed(h) \/ OwnStep(h)
           \/ LoopTicks \/ LoopExits
           \/ Start \/ Listen \/ Signal \/ DeadlinePasses \/ CancelResync \/ CloseQueue
           \/ ShutdownReturns \/ ListenFails \/ Exit \/ Crash \/ TimePasses
  BY <1>5 DEF vars, createVars, store, ArriveServed, Arrive, OwnStep, RepoRefused,
              EnqueueCreated, EnqueuePanics, RespondOther, LoopTicks, LoopExits, Start, Listen,
              Signal, DeadlinePasses, CancelResync, CloseQueue, ShutdownReturns, ListenFails,
              ClosesPool, Exit, Crash, Dies, TimePasses
<1>6. CASE \E n \in DOMAIN late : LateWriteLands(n)
  BY <1>6 DEF LateWriteLands, Lands
<1> QED
  BY <1>2, <1>3, <1>4, <1>5, <1>6 DEF ServiceNext, HandlerStep

(* Once pool.Close() waits, only the end of the process ends it. *)
LEMMA LeavesByDying ==
  ASSUME ServiceNext, phase = "disconnecting", phase' # "disconnecting"
  PROVE  Dies
<1>1. CASE \E h \in Handlers : ArriveServed(h) \/ HandlerStep(h)
  BY <1>1 DEF ArriveServed, HandlerStep, RepoStep, Queries, OwnStep, RepoRefused, EnqueueCreated,
              EnqueuePanics, RespondOther, process, lifecycle
<1>2. CASE \E w \in Workers : WorkerStep(w)
  BY <1>2 DEF WorkerStep, Take, WorkerExits, RateArrives, RateFails, Upsert, Complete, Fail,
              Finish, WriteRefused, Queries, process, lifecycle
<1>3. CASE (\E r \in Resyncers : ResyncStep(r)) \/ LoopTicks \/ LoopExits
  BY <1>3 DEF ResyncStep, List, ListRefused, EnqueueListed, ResyncReturns, LoopTicks, LoopExits,
              Queries, process, lifecycle
<1>4. CASE \/ Start \/ Listen \/ Signal \/ DeadlinePasses \/ CancelResync \/ CloseQueue
           \/ ShutdownReturns \/ ListenFails \/ TimePasses
           \/ \E n \in DOMAIN late : LateWriteLands(n)
  BY <1>4 DEF Start, Listen, Signal, DeadlinePasses, CancelResync, CloseQueue, ShutdownReturns,
              ListenFails, TimePasses, LateWriteLands, process, lifecycle
<1> QED
  BY <1>1, <1>2, <1>3, <1>4 DEF ServiceNext, Exit, Crash

(* Whatever the service does, rows stay with their keys, and no key gets a *)
(* second row.                                                             *)
LEMMA ServedRows ==
  ASSUME IInv, UniqueKeys, [ServiceNext]_vars
  PROVE  RowsGrow /\ UniqueKeys'
<1>1. faults \in Nat /\ faults' \in Nat /\ faults' >= faults
  BY FaultsKept
<1>2. StoreTypeOK /\ requests \in Seq(Row) /\ Rows \subseteq Nat
  BY DEF IInv, TypeOK, StoreTypeOK, Rows
<1>3. CASE UNCHANGED requests
  BY <1>1, <1>3 DEF RowsGrow, UniqueKeys, Rows, Pending
<1>4. ASSUME NEW p \in Pairs, NEW k \in Keys \cup {NoKey}, InsertRequest(p, k)
      PROVE  RowsGrow /\ UniqueKeys'
  BY <1>1, <1>2, <1>4, InsertRows
<1>5. ASSUME NEW i \in Rows, NEW status \in {"completed", "failed"},
             NEW result \in Quote \cup {NoQuote}, Settle(i, status, result)
      PROVE  RowsGrow /\ UniqueKeys'
  <2>1. /\ Rows' = Rows
        /\ \A j \in Rows : /\ requests'[j].pair = requests[j].pair
                           /\ requests'[j].key = requests[j].key
                           /\ j # i \/ ~Pending(j) => requests'[j] = requests[j]
    BY <1>2, <1>5, SettleFacts DEF Statuses
  <2> QED
    BY <1>1, <2>1 DEF RowsGrow, UniqueKeys, Pending
<1>6. TableStep
  BY NextTableStep
<1> QED
  BY <1>3, <1>4, <1>5, <1>6 DEF TableStep, UpsertQuote, CompleteRequest, FailRequest

(* The call of a handler, step by step; a panic and a crash end it. *)
LEMMA ServedGood ==
  ASSUME ServedInv, [WatchedNext]_<<vars, history>>, RowsGrow, IInv', NEW h \in Handlers
  PROVE  Good(h)' /\ (faults' = 0 /\ phase' # "disconnecting" => Calm(h)')
<1>0. CreateTypeOK /\ CreateTypeOK' /\ UniqueKeys /\ Good(h) /\ post \in [Handlers -> Post]
  BY DEF ServedInv, IInv, TypeOK, CreateTypeOK, PostTypeOK
<1>c. faults = 0 /\ phase # "disconnecting" => Calm(h)
  BY DEF ServedInv
<1>f. faults' = 0 => faults = 0
  BY DEF RowsGrow
<1>1. CASE post'[h].at = "idle" /\ WatchedNext
  BY <1>1, IdleGood DEF WatchedNext, Watch
<1>2. CASE post'[h] = post[h] /\ post'[h].at # "idle" /\ WatchedNext
  <2>1. atArrival'[h] = atArrival[h]
    BY <1>2 DEF WatchedNext, Watch, Begins
  <2>2. phase' # "disconnecting" => phase # "disconnecting"
    <3>1. ServiceNext
      BY <1>2 DEF WatchedNext
    <3>2. ~Dies
      BY <1>2 DEF Dies, IdlePost
    <3> QED
      BY <3>1, <3>2, LeavesByDying
  <2> QED
    BY <1>0, <1>c, <1>f, <1>2, <2>1, <2>2, GoodFrame
<1>3. CASE post'[h] # post[h] /\ post'[h].at # "idle" /\ WatchedNext
  <2>1. /\ atArrival'[h] = IF post[h].at = "idle" THEN Snapshot(post'[h].key) ELSE atArrival[h]
        /\ ServiceNext
    BY <1>3 DEF WatchedNext, Watch, Begins
  <2>2. \/ ArriveServed(h) \/ RepoStep(h) \/ RepoRefused(h) \/ EnqueuePanics(h)
    <3>1. CASE \E g \in Handlers : ArriveServed(g) \/ HandlerStep(g)
      <4>1. PICK g \in Handlers : ArriveServed(g) \/ HandlerStep(g)
        BY <3>1
      <4>2. g = h
        <5>1. \E r : post' = [post EXCEPT ![g] = r]
          BY <4>1 DEF ArriveServed, Arrive, HandlerStep, RepoStep, CreateStep, LookupKey,
                      LookupPending, Insert, RetryPending, RetryKey, Select, Goto, Answer,
                      OwnStep, RepoRefused, EnqueueCreated, EnqueuePanics, RespondOther
        <5> QED
          BY <1>0, <1>3, <5>1
      <4>3. ~EnqueueCreated(h) /\ ~RespondOther(h)
        BY <1>0, <1>3 DEF EnqueueCreated, RespondOther, IdlePost
      <4> QED
        BY <4>1, <4>2, <4>3 DEF HandlerStep, OwnStep
    <3>2. CASE Exit \/ Crash
      BY <1>3, <3>2 DEF Exit, Crash, Dies, IdlePost
    <3>3. CASE \/ \E w \in Workers : WorkerStep(w)
               \/ \E r \in Resyncers : ResyncStep(r)
               \/ LoopTicks \/ LoopExits
               \/ Start \/ Listen \/ Signal \/ DeadlinePasses \/ CancelResync \/ CloseQueue
               \/ ShutdownReturns \/ ListenFails \/ TimePasses
               \/ \E n \in DOMAIN late : LateWriteLands(n)
      <4>1. UNCHANGED post
        BY <3>3 DEF WorkerStep, Take, WorkerExits, RateArrives, RateFails, Upsert, Complete,
                    Fail, Finish, WriteRefused, ResyncStep, List, ListRefused, EnqueueListed,
                    ResyncReturns, LoopTicks, LoopExits, Start, Listen, Signal, DeadlinePasses,
                    CancelResync, CloseQueue, ShutdownReturns, ListenFails, ClosesPool,
                    TimePasses, LateWriteLands, createVars
      <4> QED
        BY <1>3, <4>1
    <3> QED
      BY <2>1, <3>1, <3>2, <3>3 DEF ServiceNext
  <2>3. CASE ArriveServed(h)
    <3>1. Arrive(h) /\ post[h].at = "idle"
      BY <2>3 DEF ArriveServed, Arrive
    <3> QED
      BY <1>0, <2>1, <3>1, ArriveGood
  <2>4. CASE RepoStep(h)
    <3>1. CreateStep(h) /\ post[h].at # "idle" /\ phase' = phase
      BY <2>4 DEF RepoStep, CreateStep, LookupKey, LookupPending, Insert, RetryPending, RetryKey,
                  Queries, lifecycle
    <3> QED
      BY <1>0, <1>c, <1>f, <2>1, <3>1, StepGood
  <2>5. CASE RepoRefused(h)
    <3>1. phase' = "disconnecting"
      BY <2>5 DEF RepoRefused, Connected, process, lifecycle
    <3>2. /\ post[h].at \in Statements /\ atArrival'[h] = atArrival[h] /\ requests' = requests
          /\ post'[h].pair = post[h].pair /\ post'[h].key = post[h].key
          /\ \/ post'[h].at = "error"
             \/ post'[h].at = "retryKey" /\ Keyed(h) /\ post[h].at = "retryPending"
      BY <1>0, <2>1, <2>5 DEF RepoRefused, Goto, Post, Statements, store, tables
    <3>3. SettledRows' = SettledRows /\ (Keyed(h)' <=> Keyed(h)) /\ \A k : WithKey(k)' = WithKey(k)
      BY <3>2, SelectFacts
    <3> QED
      BY <1>0, <3>1, <3>2, <3>3 DEF Good, GivenId, Statements
  <2>6. CASE EnqueuePanics(h)
    <3>1. /\ post[h].at = "created" /\ post'[h].at = "panicked"
          /\ atArrival'[h] = atArrival[h] /\ requests' = requests
      BY <1>0, <2>1, <2>6 DEF EnqueuePanics, Goto, Post, store, tables
    <3>2. SettledRows' = SettledRows
      BY <3>1 DEF SettledRows, Rows, Pending
    <3> QED
      BY <1>0, <3>1, <3>2 DEF Good, Calm, GivenId
  <2> QED
    BY <2>2, <2>3, <2>4, <2>5, <2>6
<1>4. CASE UNCHANGED <<vars, history>>
  <2>1. post'[h] = post[h] /\ atArrival'[h] = atArrival[h] /\ phase' = phase
    BY <1>4 DEF vars, createVars, history, process, lifecycle
  <2> QED
    BY <1>0, <1>c, <1>f, <2>1, GoodFrame
<1> QED
  BY <1>1, <1>2, <1>3, <1>4

(* A snapshot is a row and a set of rows. *)
LEMMA ServedHistory ==
  ASSUME ServedInv, [WatchedNext]_<<vars, history>>, IInv'
  PROVE  HistoryTypeOK'
<1>1. CASE UNCHANGED <<vars, history>>
  BY <1>1 DEF history, ServedInv, HistoryTypeOK
<1>2. CASE WatchedNext
  <2>1. \A k : Snapshot(k) \in [owner : Nat, settled : SUBSET Nat]
    <3>1. \A k : Snapshot(k).owner \in Nat /\ Snapshot(k).settled \subseteq Nat
      BY DEF Snapshot, WithKey, SettledRows, Rows, ServedInv, IInv, TypeOK, StoreTypeOK
    <3> QED
      BY <3>1 DEF Snapshot
  <2>2. NoSnapshot \in [owner : Nat, settled : SUBSET Nat]
    BY DEF NoSnapshot
  <2> QED
    BY <1>2, <2>1, <2>2 DEF WatchedNext, Watch, ServedInv, HistoryTypeOK
<1> QED
  BY <1>1, <1>2

(* The invariant holds before the first start. *)
LEMMA ServedInit == WatchedInit => ServedInv
<1> SUFFICES ASSUME WatchedInit PROVE ServedInv
  OBVIOUS
<1>1. IInv
  BY InitIInv DEF WatchedInit
<1>2. HistoryTypeOK
  BY DEF WatchedInit, HistoryTypeOK, NoSnapshot
<1>3. UniqueKeys
  BY DEF WatchedInit, ServiceInit, CreateInit, StoreInit, UniqueKeys, Rows
<1>4. \A h \in Handlers : Good(h) /\ Calm(h)
  BY DEF WatchedInit, ServiceInit, CreateInit, PostInit, Good, Calm, GivenId, IdlePost, NoSnapshot
<1> QED
  BY <1>1, <1>2, <1>3, <1>4 DEF ServedInv

(* Every step of the service keeps it. *)
LEMMA ServedNext == ServedInv /\ [WatchedNext]_<<vars, history>> => ServedInv'
<1> SUFFICES ASSUME ServedInv, [WatchedNext]_<<vars, history>> PROVE ServedInv'
  OBVIOUS
<1>1. [ServiceNext]_vars /\ IInv
  BY DEF WatchedNext, ServedInv
<1>2. IInv'
  BY <1>1, NextIInv
<1>3. RowsGrow /\ UniqueKeys'
  BY <1>1, ServedRows DEF ServedInv
<1> QED
  BY <1>2, <1>3, ServedGood, ServedHistory DEF ServedInv

(* The promises hold at every statement of every handler in the service.   *)
THEOREM PromisesKeptInService == WatchedSpec => []ServedInv
<1> QED
  BY ServedInit, ServedNext, PTL DEF WatchedSpec

(* The history variables restrict nothing: without them it is the service. *)
THEOREM WatchedIsService == WatchedSpec => ServiceSpec
<1>1. WatchedInit => ServiceInit
  BY DEF WatchedInit
<1>2. [WatchedNext]_<<vars, history>> => [ServiceNext]_vars
  BY DEF WatchedNext
<1> QED
  BY <1>1, <1>2, PTL DEF WatchedSpec, ServiceSpec

(* In the whole service, too, a key stored before the call answers its own *)
(* row (storage.go:42-56, 65-77).                                          *)
THEOREM ServiceStoredKeyWins == WatchedSpec => []StoredKeyWins
<1>1. ServedInv => StoredKeyWins
  BY DEF ServedInv, Good, GivenId, StoredKeyWins
<1> QED
  BY <1>1, PromisesKeptInService, PTL

(* No crash, resync or shutdown makes a call answer with a request that    *)
(* was settled when it began, unless by its own key (storage.go:206-218).  *)
THEOREM ServiceAnswerIsFresh == WatchedSpec => []AnswerIsFresh
<1>1. ServedInv => AnswerIsFresh
  BY DEF ServedInv, Good, AnswerIsFresh
<1> QED
  BY <1>1, PromisesKeptInService, PTL

(* As long as no statement has failed and the pool is open, a call fails   *)
(* only when a worker has settled a row of its pair since it began         *)
(* (storage.go:65-78); pool.Close() fails it for no such reason            *)
(* (main.go:55).                                                           *)
THEOREM ServiceHealthyErrorNeedsSettle ==
  WatchedSpec => [](phase # "disconnecting" => HealthyErrorNeedsSettle)
<1>1. ServedInv => (phase # "disconnecting" => HealthyErrorNeedsSettle)
  BY DEF ServedInv, Calm, HealthyErrorNeedsSettle, SettledSince, OpenSince, SettledRows
<1> QED
  BY <1>1, PromisesKeptInService, PTL

=============================================================================
