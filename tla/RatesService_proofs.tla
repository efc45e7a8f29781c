------------------------- MODULE RatesService_proofs -------------------------
(***************************************************************************)
(* Proofs about RatesService, for every set of pairs, keys, prices,        *)
(* handlers and workers and every value of the bounds.                     *)
(***************************************************************************)
EXTENDS RatesService, CreateRequest_proofs

(***************************************************************************)
(* The inductive invariant.                                                *)
(***************************************************************************)

(* What every step leaves of the tables: rows stay, a settled row stays as *)
(* it is, a published quote is never withdrawn.                            *)
TablesKept ==
  /\ requests' \in Seq(Row)
  /\ quotes' \in [Pairs -> Quote \cup {NoQuote}]
  /\ Rows \subseteq Rows'
  /\ \A j \in Rows : /\ requests'[j].pair = requests[j].pair
                     /\ ~Pending(j) => requests'[j] = requests[j]
  /\ \A p \in Pairs : quotes[p] # NoQuote => quotes'[p] # NoQuote

StoreKept == TablesKept /\ StoreTypeOK' /\ LateKnown' /\ CompletedHasQuote'

(* What is known of a statement stays known. *)
LEMMA KnownKept ==
  ASSUME StoreTypeOK, TablesKept, NEW s \in Statement, Known(s)
  PROVE  /\ s.do \in {"complete", "fail"} => s.id \in Rows' /\ s.pair = requests'[s.id].pair
         /\ s.do \in {"upsert", "complete"} => s.quote \in Quote
         /\ s.do = "complete" => quotes'[s.pair] # NoQuote
<1>1. s.pair \in Pairs
  BY DEF Statement
<1> QED
  BY <1>1 DEF Known, TablesKept

(* The writes that were given up before stay known. *)
LEMMA LateKept ==
  ASSUME StoreTypeOK, LateKnown, TablesKept, NEW n \in DOMAIN late, n \in DOMAIN late',
         late'[n].do = late[n].do, late'[n].pair = late[n].pair,
         late'[n].id = late[n].id, late'[n].quote = late[n].quote
  PROVE  Known(late[n])'
<1>1. late[n] \in Statement /\ Known(late[n])
  BY DEF StoreTypeOK, LateKnown
<1> QED
  BY <1>1, KnownKept DEF Known

(* Whatever does not touch the tables keeps them. *)
LEMMA ReadKept ==
  ASSUME StoreTypeOK, LateKnown, CompletedHasQuote, UNCHANGED tables, Healthy \/ Faulty
  PROVE  StoreKept
<1>1. TablesKept /\ CompletedHasQuote'
  BY DEF StoreTypeOK, TablesKept, CompletedHasQuote, tables, Rows
<1>2. faults' \in 0 .. MaxFaults /\ late' = late
  BY FaultTypes
<1>3. LateKnown'
  BY <1>1, <1>2, LateKept DEF LateKnown
<1> QED
  BY <1>1, <1>2, <1>3 DEF StoreKept, StoreTypeOK, TablesKept

LEMMA UnchangedStoreKept ==
  ASSUME StoreTypeOK, LateKnown, CompletedHasQuote, UNCHANGED store
  PROVE  StoreKept
BY ReadKept DEF store, Healthy

(* What PostgreSQL does when it runs a statement, at once or late; a row  *)
(* becomes completed only with a quote out.                               *)
LEMMA ExecutesKept ==
  ASSUME StoreTypeOK, CompletedHasQuote, NEW s \in Statement, Known(s), Executes(s)
  PROVE  TablesKept /\ CompletedHasQuote'
<1>1. s.pair \in Pairs /\ s.key \in Keys \cup {NoKey}
  BY DEF Statement
<1>2. requests \in Seq(Row) /\ quotes \in [Pairs -> Quote \cup {NoQuote}]
  BY DEF StoreTypeOK
<1>3. CASE InsertRequest(s.pair, s.key)
  <2>1. NewRow(s.pair, s.key).status = "pending"
    BY DEF NewRow
  <2>2. /\ Rows' = Rows \cup {Len(requests) + 1} /\ requests' \in Seq(Row)
        /\ \A i \in Rows : requests'[i] = requests[i]
        /\ requests'[Len(requests) + 1].status = "pending"
        /\ quotes' = quotes
    <3>1. quotes' = quotes
      BY <1>3 DEF InsertRequest
    <3> QED
      BY <1>1, <1>2, <1>3, <2>1, <3>1, InsertFacts
  <2> QED
    BY <1>2, <2>2 DEF TablesKept, CompletedHasQuote
<1>4. CASE UNCHANGED tables
  BY <1>2, <1>4 DEF TablesKept, CompletedHasQuote, tables, Rows
<1>5. CASE s.do = "upsert" /\ UpsertQuote(s.pair, s.quote)
  <2>1. s.quote \in Quote /\ s.quote # NoQuote
    BY <1>5, NoQuoteAssumption DEF Known
  <2>2. /\ requests' = requests
        /\ quotes' = [quotes EXCEPT ![s.pair] = s.quote]
    BY <1>5 DEF UpsertQuote
  <2>3. /\ quotes' \in [Pairs -> Quote \cup {NoQuote}]
        /\ \A p \in Pairs : quotes[p] # NoQuote => quotes'[p] # NoQuote
    BY <1>1, <1>2, <2>1, <2>2
  <2> QED
    BY <1>2, <2>2, <2>3, RowTypes DEF TablesKept, CompletedHasQuote, Rows
<1>6. ASSUME NEW i \in Rows, NEW status \in {"completed", "failed"},
             NEW result \in Quote \cup {NoQuote}, Settle(i, status, result),
             status = "completed" => quotes[requests[i].pair] # NoQuote
      PROVE  TablesKept /\ CompletedHasQuote'
  <2>1. quotes' = quotes
    BY <1>6 DEF Settle
  <2>2. /\ requests' \in Seq(Row)
        /\ Rows' = Rows
        /\ \A j \in Rows : /\ requests'[j].pair = requests[j].pair
                           /\ j # i \/ ~Pending(j) => requests'[j] = requests[j]
        /\ Pending(i) => requests'[i].status = status
    BY <1>2, <1>6, SettleFacts DEF Statuses
  <2> QED
    BY <1>2, <1>6, <2>1, <2>2 DEF TablesKept, CompletedHasQuote, Pending
<1>7. CASE s.do \in {"complete", "fail"}
  <2>1. s.id \in Rows /\ s.pair = requests[s.id].pair
    BY <1>7 DEF Known
  <2>2. CASE s.do = "complete"
    <3>1. Settle(s.id, "completed", s.quote)
      BY <2>2 DEF Executes, CompleteRequest
    <3>2. s.quote \in Quote /\ quotes[requests[s.id].pair] # NoQuote
      BY <2>1, <2>2 DEF Known
    <3> QED
      BY <1>6, <2>1, <3>1, <3>2
  <2>3. CASE s.do = "fail"
    <3>1. Settle(s.id, "failed", NoQuote)
      BY <2>3 DEF Executes, FailRequest
    <3> QED
      BY <1>6, <2>1, <3>1
  <2> QED
    BY <1>7, <2>2, <2>3
<1> QED
  BY <1>3, <1>4, <1>5, <1>7 DEF Executes

LEMMA SucceedsKept ==
  ASSUME StoreTypeOK, LateKnown, CompletedHasQuote, NEW s \in Statement, Known(s),
         Executes(s), Healthy
  PROVE  StoreKept
<1>1. TablesKept /\ CompletedHasQuote'
  BY ExecutesKept
<1>2. faults' \in 0 .. MaxFaults /\ late' = late
  BY FaultTypes
<1>3. LateKnown'
  BY <1>1, <1>2, LateKept DEF LateKnown
<1> QED
  BY <1>1, <1>2, <1>3 DEF StoreKept, StoreTypeOK, TablesKept

LEMMA AbandonsKept ==
  ASSUME StoreTypeOK, LateKnown, CompletedHasQuote, NEW s \in Statement, Known(s), Abandons(s)
  PROVE  StoreKept
<1>1. /\ StoreTypeOK' /\ UNCHANGED tables
      /\ DOMAIN late' = DOMAIN late \cup {Len(late) + 1}
      /\ \A n \in DOMAIN late : late'[n] = late[n]
      /\ late'[Len(late) + 1] = s
  BY AbandonFacts
<1>2. TablesKept /\ CompletedHasQuote'
  BY <1>1 DEF StoreTypeOK, TablesKept, CompletedHasQuote, tables, Rows
<1>3. ASSUME NEW n \in DOMAIN late'
      PROVE  Known(late[n])'
  <2>1. CASE n \in DOMAIN late
    BY <1>1, <1>2, <2>1, LateKept
  <2>2. CASE n = Len(late) + 1
    BY <1>1, <1>2, <2>2, KnownKept DEF Known
  <2> QED
    BY <1>1, <1>3, <2>1, <2>2
<1> QED
  BY <1>1, <1>2, <1>3 DEF StoreKept, LateKnown

(* A late write keeps the tables as a punctual one does. *)
LEMMA LandsKept ==
  ASSUME StoreTypeOK, LateKnown, CompletedHasQuote, NEW n \in DOMAIN late, Lands(n)
  PROVE  StoreKept
<1>1. /\ late' \in Seq(Statement) /\ DOMAIN late' = DOMAIN late
      /\ late[n] \in Statement
      /\ \A m \in DOMAIN late :
           /\ late'[m].do = late[m].do /\ late'[m].pair = late[m].pair
           /\ late'[m].id = late[m].id /\ late'[m].quote = late[m].quote
      /\ faults' = faults
  BY LandFacts
<1>2. TablesKept /\ CompletedHasQuote'
  BY <1>1, ExecutesKept DEF LateKnown, Lands
<1>3. LateKnown'
  BY <1>1, <1>2, LateKept DEF LateKnown
<1> QED
  BY <1>1, <1>2, <1>3 DEF StoreKept, StoreTypeOK, TablesKept

(* The inductive invariant holds before the first start. *)
LEMMA InitIInv == ServiceInit => IInv
<1> SUFFICES ASSUME ServiceInit PROVE IInv
  OBVIOUS
<1> USE DEF ServiceInit, CreateInit, StoreInit, PostInit
<1>1. StoreTypeOK
  BY StoreAssumption DEF StoreTypeOK
<1>2. PostTypeOK
  BY IdlePostType DEF PostTypeOK
<1>3. work \in [Workers -> Work] /\ resync \in [Resyncers -> Resync]
  BY DEF Work, IdleWork, Resync, ResyncAt, Resyncers
<1>4. queue \in Seq(Nat) /\ Len(queue) <= QueueSize
  BY ServiceAssumption
<1>5. ProcessTypeOK
  <2>1. expired \in BOOLEAN /\ closed \in BOOLEAN
    BY Zenon
  <2>2. /\ phase \in Phases /\ starts \in 0 .. MaxStarts /\ clock \in 0 .. MaxClock
        /\ acquired \subseteq Handlers \cup Workers \cup Resyncers
    BY StoreAssumption, ServiceAssumption DEF Phases
  <2> QED
    BY <2>1, <2>2, Zenon DEF ProcessTypeOK
<1>6. /\ IdsKnown /\ LateKnown /\ PublishedFirst /\ LifeCycle
      /\ CompletedHasQuote /\ DrainedBeforeExit
  BY DEF IdsKnown, LateKnown, PublishedFirst, LifeCycle, CompletedHasQuote, DrainedBeforeExit,
         Rows, IdleWork, IdlePost, ResyncAt, Resyncers
<1> QED
  BY <1>1, <1>2, <1>3, <1>4, <1>5, <1>6 DEF IInv, TypeOK, MemoryTypeOK

(* A handler's SQL statement. *)
LEMMA CreateStepKept ==
  ASSUME StoreTypeOK, LateKnown, PostTypeOK, CompletedHasQuote, NEW h \in Handlers, CreateStep(h),
         \A g \in Handlers : post[g].at = "created" => post[g].id \in Rows
  PROVE  /\ StoreKept
         /\ \A g \in Handlers : post'[g].at = "created" => post'[g].id \in Rows'
<1> DEFINE p == post[h].pair
           k == post[h].key
<1>1. p \in Pairs /\ k \in Keys \cup {NoKey}
  BY DEF PostTypeOK, Post
<1>2. CASE InsertRequest(p, k) /\ Healthy /\ Answer(h, "created", Len(requests) + 1)
  <2>1. /\ InsertOf(p, k) \in Statement
        /\ Known(InsertOf(p, k)) /\ Executes(InsertOf(p, k))
    BY <1>1, <1>2, StatementTypes DEF InsertOf, Known, Executes
  <2>2. StoreKept
    BY <1>2, <2>1, SucceedsKept
  <2>3. Rows' = Rows \cup {Len(requests) + 1}
    BY <1>1, <1>2, InsertFacts DEF StoreTypeOK
  <2> QED
    BY <1>2, <2>2, <2>3 DEF Answer, PostTypeOK, Post
<1>3. CASE Abandons(InsertOf(p, k)) /\ Goto(h, "error")
  <2>1. InsertOf(p, k) \in Statement /\ Known(InsertOf(p, k))
    BY <1>1, StatementTypes DEF InsertOf, Known
  <2>2. StoreKept
    BY <1>3, <2>1, AbandonsKept
  <2> QED
    BY <1>3, <2>2 DEF Goto, PostTypeOK, Post, StoreKept, TablesKept
<1>4. CASE Conflict(p, k) /\ Goto(h, "retryPending") /\ UNCHANGED store
  <2>1. StoreKept
    BY <1>4, UnchangedStoreKept
  <2> QED
    BY <1>4, <2>1 DEF Goto, PostTypeOK, Post, StoreKept, TablesKept
<1>5. ASSUME NEW matches, matches \subseteq Rows,
             NEW miss \in Steps \ {"created"}, NEW err \in Steps \ {"created"},
             Select(h, matches, miss, err)
      PROVE  /\ StoreKept
             /\ \A g \in Handlers : post'[g].at = "created" => post'[g].id \in Rows'
  <2>1. StoreKept
    BY <1>5, ReadKept DEF Select
  <2>2. \/ post' = [post EXCEPT ![h].at = miss]
        \/ post' = [post EXCEPT ![h].at = err]
        \/ \E i \in matches : post' = [post EXCEPT ![h].at = "existing", ![h].id = i]
    BY <1>5 DEF Select, Answer, Goto
  <2> QED
    BY <2>1, <2>2 DEF PostTypeOK, Post, StoreKept, TablesKept
<1>6. {"pending", "insert", "retryPending", "retryKey", "error"} \subseteq Steps \ {"created"}
  BY DEF Steps
<1>7. CASE LookupKey(h)
  BY <1>5, <1>6, <1>7 DEF LookupKey, WithKey
<1>8. CASE LookupPending(h)
  BY <1>5, <1>6, <1>8 DEF LookupPending, PendingOf
<1>9. CASE RetryPending(h)
  BY <1>5, <1>6, <1>9 DEF RetryPending, PendingOf
<1>10. CASE RetryKey(h)
  BY <1>5, <1>6, <1>10 DEF RetryKey, WithKey
<1> QED
  BY <1>2, <1>3, <1>4, <1>7, <1>8, <1>9, <1>10 DEF CreateStep, Insert

(* enqueue keeps the channel within its capacity and its ids known. *)
LEMMA OfferFacts ==
  ASSUME queue \in Seq(Nat), Len(queue) <= QueueSize, StoreTypeOK, NEW i \in Rows, Offer(i),
         \A n \in 1 .. Len(queue) : queue[n] \in Rows
  PROVE  /\ queue' \in Seq(Nat) /\ Len(queue') <= QueueSize
         /\ \A n \in 1 .. Len(queue') : queue'[n] \in Rows
<1>1. i \in Nat
  BY DEF Rows, StoreTypeOK
<1>2. CASE Len(queue) < QueueSize
  <2>1. queue' = Append(queue, i)
    BY <1>2 DEF Offer
  <2> QED
    BY <1>1, <1>2, <2>1, AppendProperties, ServiceAssumption
<1>3. CASE ~(Len(queue) < QueueSize)
  BY <1>3 DEF Offer
<1> QED
  BY <1>2, <1>3

(* Who waits for the pool changes no other variable of the process. *)
LEMMA ProcessFrame ==
  ASSUME ProcessTypeOK, UNCHANGED <<lifecycle, closed, clock>>, acquired' \subseteq acquired
  PROVE  ProcessTypeOK'
<1>1. /\ phase' = phase /\ expired' = expired /\ starts' = starts
      /\ closed' = closed /\ clock' = clock
  BY DEF lifecycle
<1>2. expired' \in BOOLEAN /\ closed' \in BOOLEAN
  BY <1>1, Zenon DEF ProcessTypeOK
<1>3. phase' \in Phases /\ starts' \in 0 .. MaxStarts /\ clock' \in 0 .. MaxClock
  BY <1>1 DEF ProcessTypeOK
<1>4. acquired' \subseteq Handlers \cup Workers \cup Resyncers
  BY DEF ProcessTypeOK
<1> QED
  BY <1>2, <1>3, <1>4, Zenon DEF ProcessTypeOK

(* A step of the tables and the handlers leaves the rest of IInv alone. *)
LEMMA FrameMemory ==
  ASSUME IInv, StoreKept, PostTypeOK',
         UNCHANGED <<lifecycle, memory, clock>>, acquired' \subseteq acquired,
         \A g \in Handlers : post'[g].at = "created" => post'[g].id \in Rows'
  PROVE  IInv'
<1> USE DEF IInv, TypeOK, memory
<1>1. ProcessTypeOK'
  BY ProcessFrame
<1>2. MemoryTypeOK'
  BY DEF MemoryTypeOK
<1>3. IdsKnown'
  BY DEF IdsKnown, StoreKept, TablesKept
<1>4. PublishedFirst'
  <2> SUFFICES ASSUME NEW w \in Workers, work[w].at \in {"upsert", "complete"}
               PROVE  /\ work[w].quote \in Quote
                      /\ work[w].at = "complete" => quotes'[requests'[work[w].id].pair] # NoQuote
    BY DEF PublishedFirst
  <2>1. work[w].id \in Rows
    BY DEF IdsKnown
  <2>2. requests[work[w].id].pair \in Pairs
    BY <2>1, RowTypes
  <2> QED
    BY <2>1, <2>2 DEF PublishedFirst, StoreKept, TablesKept
<1>5. LifeCycle' /\ DrainedBeforeExit'
  BY DEF LifeCycle, DrainedBeforeExit, lifecycle
<1> QED
  BY <1>1, <1>2, <1>3, <1>4, <1>5 DEF StoreKept

(* The tables and handlers stay as they are: what is left to show. *)
LEMMA FrameTables ==
  ASSUME IInv, UNCHANGED createVars,
         ProcessTypeOK', MemoryTypeOK', LifeCycle', DrainedBeforeExit',
         \A n \in 1 .. Len(queue') : queue'[n] \in Rows,
         \A w \in Workers : work'[w].at \notin {"wait", "exited"} => work'[w].id \in Rows,
         \A r \in Resyncers : resync'[r].todo \subseteq Rows,
         \A w \in Workers : /\ work'[w].at \in {"upsert", "complete"} => work'[w].quote \in Quote
                            /\ work'[w].at = "complete" => work'[w] = work[w]
  PROVE  IInv'
<1> USE DEF IInv, TypeOK, createVars, store, tables
<1>1. StoreTypeOK' /\ PostTypeOK' /\ CompletedHasQuote' /\ LateKnown'
  BY DEF StoreTypeOK, PostTypeOK, CompletedHasQuote, LateKnown, Known, Rows
<1>2. IdsKnown'
  BY DEF IdsKnown, Rows
<1>3. PublishedFirst'
  BY DEF PublishedFirst
<1> QED
  BY <1>1, <1>2, <1>3

(* The POST handlers preserve the inductive invariant. *)
LEMMA HandlerIInv ==
  ASSUME IInv, NEW h \in Handlers, ArriveServed(h) \/ HandlerStep(h)
  PROVE  IInv'
<1> USE DEF IInv, TypeOK
<1> USE DEF process
<1>1. CASE ArriveServed(h)
  <2>1. Arrive(h) /\ UNCHANGED <<process, memory, clock>> /\ UNCHANGED store
    BY <1>1 DEF ArriveServed, Arrive
  <2>2. PostTypeOK'
    BY <2>1, HandlerTypes
  <2>3. StoreKept
    BY <2>1, UnchangedStoreKept
  <2>4. \A g \in Handlers : post'[g].at = "created" => post'[g].id \in Rows'
    BY <2>1 DEF Arrive, FirstStep, IdsKnown, store, tables, Rows, PostTypeOK
  <2> QED
    BY <2>1, <2>2, <2>3, <2>4, FrameMemory
<1>2. CASE RepoStep(h)
  <2>1. CreateStep(h) /\ UNCHANGED <<lifecycle, memory, clock>> /\ acquired' \subseteq acquired
    BY <1>2 DEF RepoStep, Queries
  <2>2. PostTypeOK'
    BY <2>1, HandlerTypes
  <2>3. /\ StoreKept
        /\ \A g \in Handlers : post'[g].at = "created" => post'[g].id \in Rows'
    BY <2>1, CreateStepKept DEF IdsKnown
  <2> QED
    BY <2>1, <2>2, <2>3, FrameMemory
<1>3. CASE RepoRefused(h) \/ EnqueuePanics(h) \/ RespondOther(h)
  <2>1. UNCHANGED <<process, memory, clock>> /\ UNCHANGED store
    BY <1>3 DEF RepoRefused, EnqueuePanics, RespondOther
  <2>2. \/ \E step \in {"retryKey", "error", "panicked"} : Goto(h, step)
        \/ post' = [post EXCEPT ![h] = IdlePost]
    BY <1>3 DEF RepoRefused, EnqueuePanics, RespondOther
  <2>3. PostTypeOK'
    <3>1. {"retryKey", "error", "panicked"} \subseteq Steps \cup {"panicked"}
      BY DEF Steps
    <3> QED
      BY <2>2, <3>1, GotoTypes, IdlePostType DEF PostTypeOK
  <2>4. StoreKept
    BY <2>1, UnchangedStoreKept
  <2>5. \A g \in Handlers : post'[g].at = "created" => post'[g].id \in Rows'
    BY <2>1, <2>2 DEF Goto, IdlePost, IdsKnown, store, tables, Rows, PostTypeOK, Post
  <2> QED
    BY <2>1, <2>3, <2>4, <2>5, FrameMemory
<1>4. CASE EnqueueCreated(h)
  <2>1. /\ Offer(post[h].id) /\ ~closed
        /\ post' = [post EXCEPT ![h] = IdlePost]
        /\ UNCHANGED <<store, process, closed, work, resync, clock>>
        /\ post[h].id \in Rows
    BY <1>4 DEF EnqueueCreated, IdsKnown
  <2>2. StoreKept
    BY <2>1, UnchangedStoreKept
  <2>3. PostTypeOK'
    BY <2>1, IdlePostType DEF PostTypeOK
  <2>4. ProcessTypeOK'
    BY <2>1, ProcessFrame
  <2>5. MemoryTypeOK' /\ \A n \in 1 .. Len(queue') : queue'[n] \in Rows
    BY <2>1, OfferFacts DEF MemoryTypeOK, IdsKnown
  <2>6. IdsKnown'
    BY <2>1, <2>5 DEF IdsKnown, store, tables, Rows, IdlePost, PostTypeOK
  <2>7. PublishedFirst'
    BY <2>1 DEF PublishedFirst, store, tables
  <2>8. LifeCycle' /\ DrainedBeforeExit'
    BY <2>1 DEF LifeCycle, DrainedBeforeExit, lifecycle
  <2> QED
    BY <2>2, <2>3, <2>4, <2>5, <2>6, <2>7, <2>8 DEF StoreKept
<1> QED
  BY <1>1, <1>2, <1>3, <1>4 DEF HandlerStep, OwnStep

(* A worker moves on with what it holds; the others are not touched. *)
LEMMA WorkerMoves ==
  ASSUME work \in [Workers -> Work], NEW w \in Workers,
         NEW step \in {"wait", "rate", "upsert", "complete", "fail", "exited"},
         work' = [work EXCEPT ![w].at = step]
  PROVE  /\ work' \in [Workers -> Work]
         /\ work'[w].at = step /\ work'[w].id = work[w].id /\ work'[w].quote = work[w].quote
         /\ \A v \in Workers \ {w} : work'[v] = work[v]
BY DEF Work

(* A worker moves on with the quote the provider gave it. *)
LEMMA WorkerMovesWithQuote ==
  ASSUME work \in [Workers -> Work], NEW w \in Workers, NEW q \in Quote,
         work' = [work EXCEPT ![w].at = "upsert", ![w].quote = q]
  PROVE  /\ work' \in [Workers -> Work]
         /\ work'[w].at = "upsert" /\ work'[w].id = work[w].id /\ work'[w].quote = q
         /\ \A v \in Workers \ {w} : work'[v] = work[v]
BY DEF Work

(* A worker goes back to the channel with nothing in its hands. *)
LEMMA WorkerRests ==
  ASSUME work \in [Workers -> Work], NEW w \in Workers, WorkerIdle(w)
  PROVE  /\ work' \in [Workers -> Work]
         /\ work'[w].at = "wait"
         /\ \A v \in Workers \ {w} : work'[v] = work[v]
<1>1. IdleWork \in Work /\ IdleWork.at = "wait"
  BY DEF IdleWork, Work
<1> QED
  BY <1>1 DEF WorkerIdle

(* The workers preserve the inductive invariant (service.go:200-243). *)
LEMMA WorkerIInv ==
  ASSUME IInv, NEW w \in Workers, WorkerStep(w)
  PROVE  IInv'
<1> USE DEF IInv, TypeOK, process
<1>0. work \in [Workers -> Work]
  BY DEF MemoryTypeOK
<1>1. CASE Take(w)
  <2> DEFINE taken == [at |-> "rate", id |-> Head(queue), quote |-> NoQuote]
  <2>1. /\ work[w].at = "wait" /\ queue # << >>
        /\ work' = [work EXCEPT ![w] = taken]
        /\ queue' = Tail(queue)
        /\ UNCHANGED <<createVars, process, closed, resync, clock>>
    BY <1>1 DEF Take
  <2>2. /\ queue' \in Seq(Nat) /\ Len(queue') <= QueueSize
        /\ \A n \in 1 .. Len(queue') : queue'[n] \in Rows
        /\ Head(queue) \in Rows /\ Head(queue) \in Nat
    BY <2>1, HeadTailProperties, ServiceAssumption DEF MemoryTypeOK, IdsKnown
  <2>3. taken \in Work
    BY <2>2 DEF Work
  <2>4. ProcessTypeOK'
    BY <2>1, ProcessFrame
  <2>5. MemoryTypeOK'
    BY <2>1, <2>2, <2>3 DEF MemoryTypeOK
  <2>6. LifeCycle'
    BY <2>1 DEF LifeCycle, lifecycle, MemoryTypeOK
  <2>7. DrainedBeforeExit'
    BY <2>1 DEF DrainedBeforeExit, MemoryTypeOK
  <2>8. /\ \A v \in Workers : work'[v].at \notin {"wait", "exited"} => work'[v].id \in Rows
        /\ \A v \in Workers :
             /\ work'[v].at \in {"upsert", "complete"} => work'[v].quote \in Quote
             /\ work'[v].at = "complete" => work'[v] = work[v]
    BY <2>1, <2>2 DEF IdsKnown, PublishedFirst, MemoryTypeOK
  <2>9. \A r \in Resyncers : resync'[r].todo \subseteq Rows
    BY <2>1 DEF IdsKnown
  <2> QED
    BY <2>1, <2>2, <2>4, <2>5, <2>6, <2>7, <2>8, <2>9, FrameTables
<1>2. CASE WorkerExits(w)
  <2>1. /\ closed /\ queue = << >>
        /\ work' = [work EXCEPT ![w].at = "exited"]
        /\ UNCHANGED <<createVars, process, queue, closed, resync, clock>>
    BY <1>2 DEF WorkerExits, WorkerGoes
  <2>2. ProcessTypeOK'
    BY <2>1, ProcessFrame
  <2>3. MemoryTypeOK'
    BY <2>1 DEF MemoryTypeOK, Work
  <2>4. LifeCycle' /\ DrainedBeforeExit'
    BY <2>1 DEF LifeCycle, DrainedBeforeExit, lifecycle, MemoryTypeOK
  <2>5. /\ \A v \in Workers : work'[v].at \notin {"wait", "exited"} => work'[v].id \in Rows
        /\ \A v \in Workers :
             /\ work'[v].at \in {"upsert", "complete"} => work'[v].quote \in Quote
             /\ work'[v].at = "complete" => work'[v] = work[v]
        /\ \A n \in 1 .. Len(queue') : queue'[n] \in Rows
        /\ \A r \in Resyncers : resync'[r].todo \subseteq Rows
    BY <2>1 DEF IdsKnown, PublishedFirst, MemoryTypeOK, Work
  <2> QED
    BY <2>1, <2>2, <2>3, <2>4, <2>5, FrameTables
<1>3. CASE RateArrives(w) \/ RateFails(w)
  <2>1. /\ work[w].at = "rate"
        /\ \/ \E q \in Quote : work' = [work EXCEPT ![w].at = "upsert", ![w].quote = q]
           \/ work' = [work EXCEPT ![w].at = "fail"]
        /\ UNCHANGED <<createVars, process, queue, closed, resync, clock>>
    BY <1>3 DEF RateArrives, RateFails, WorkerGoes, Quote, ProcessTypeOK
  <2>2. ProcessTypeOK'
    BY <2>1, ProcessFrame
  <2>3. /\ work' \in [Workers -> Work]
        /\ work'[w].at \in {"upsert", "fail"} /\ work'[w].id = work[w].id
        /\ work'[w].at = "upsert" => work'[w].quote \in Quote
        /\ \A v \in Workers \ {w} : work'[v] = work[v]
    BY <1>0, <2>1, WorkerMoves, WorkerMovesWithQuote
  <2>4. MemoryTypeOK'
    BY <2>1, <2>3 DEF MemoryTypeOK
  <2>5. LifeCycle' /\ DrainedBeforeExit'
    BY <2>1, <2>3 DEF LifeCycle, DrainedBeforeExit, lifecycle
  <2>6. /\ \A v \in Workers : work'[v].at \notin {"wait", "exited"} => work'[v].id \in Rows
        /\ \A v \in Workers :
             /\ work'[v].at \in {"upsert", "complete"} => work'[v].quote \in Quote
             /\ work'[v].at = "complete" => work'[v] = work[v]
        /\ \A n \in 1 .. Len(queue') : queue'[n] \in Rows
        /\ \A r \in Resyncers : resync'[r].todo \subseteq Rows
    BY <2>1, <2>3 DEF IdsKnown, PublishedFirst
  <2> QED
    BY <2>1, <2>2, <2>4, <2>5, <2>6, FrameTables
<1>4. CASE WriteRefused(w)
  <2>1. /\ work' \in [Workers -> Work]
        /\ work'[w].at = "wait" /\ work[w].at # "exited"
        /\ \A v \in Workers \ {w} : work'[v] = work[v]
        /\ UNCHANGED <<createVars, process, queue, closed, resync, clock>>
    BY <1>0, <1>4, WorkerRests DEF WriteRefused, Writes
  <2>2. ProcessTypeOK'
    BY <2>1, ProcessFrame
  <2>3. MemoryTypeOK'
    BY <2>1 DEF MemoryTypeOK
  <2>4. LifeCycle' /\ DrainedBeforeExit'
    BY <2>1 DEF LifeCycle, DrainedBeforeExit, lifecycle
  <2>5. /\ \A v \in Workers : work'[v].at \notin {"wait", "exited"} => work'[v].id \in Rows
        /\ \A v \in Workers :
             /\ work'[v].at \in {"upsert", "complete"} => work'[v].quote \in Quote
             /\ work'[v].at = "complete" => work'[v] = work[v]
        /\ \A n \in 1 .. Len(queue') : queue'[n] \in Rows
        /\ \A r \in Resyncers : resync'[r].todo \subseteq Rows
    BY <2>1 DEF IdsKnown, PublishedFirst
  <2> QED
    BY <2>1, <2>2, <2>3, <2>4, <2>5, FrameTables
(* What the writes have in common. *)
<1>5. ASSUME work[w].at \in Writes, Queries(w),
             UNCHANGED <<post, queue, closed, resync, clock>>,
             StoreKept,
             work' \in [Workers -> Work],
             \A v \in Workers \ {w} : work'[v] = work[v],
             work'[w].at \in {"wait", "fail", "complete"},
             work'[w].at # "wait" => work'[w].id = work[w].id /\ work'[w].quote = work[w].quote,
             work'[w].at = "complete" => /\ work[w].at = "upsert"
                                         /\ quotes'[requests'[work[w].id].pair] # NoQuote
      PROVE  IInv'
  <2> USE DEF StoreKept, TablesKept, Writes
  <2>1. PostTypeOK'
    BY <1>5 DEF PostTypeOK
  <2>2. UNCHANGED lifecycle /\ acquired' \subseteq acquired
    BY <1>5 DEF Queries
  <2>3. ProcessTypeOK'
    BY <1>5, <2>2, ProcessFrame
  <2>4. MemoryTypeOK'
    BY <1>5 DEF MemoryTypeOK
  <2>5. LifeCycle' /\ DrainedBeforeExit'
    BY <1>5, <2>2 DEF LifeCycle, DrainedBeforeExit, lifecycle
  <2>6. IdsKnown'
    BY <1>5 DEF IdsKnown
  <2>7. PublishedFirst'
    <3> SUFFICES ASSUME NEW v \in Workers
                 PROVE  /\ work'[v].at \in {"upsert", "complete"} => work'[v].quote \in Quote
                        /\ work'[v].at = "complete"
                             => quotes'[requests'[work'[v].id].pair] # NoQuote
      BY DEF PublishedFirst
    <3>1. CASE v = w
      BY <1>5, <3>1 DEF PublishedFirst
    <3>2. CASE v # w
      <4>1. work'[v] = work[v]
        BY <1>5, <3>2
      <4>2. CASE work[v].at \in {"upsert", "complete"}
        <5>1. work[v].id \in Rows
          BY <4>2 DEF IdsKnown
        <5>2. requests[work[v].id].pair \in Pairs
          BY <5>1, RowTypes
        <5> QED
          BY <1>5, <4>1, <5>1, <5>2 DEF PublishedFirst
      <4> QED
        BY <4>1, <4>2
    <3> QED
      BY <3>1, <3>2
  <2> QED
    BY <1>5, <2>1, <2>3, <2>4, <2>5, <2>6, <2>7
<1>6. CASE Upsert(w)
  <2> DEFINE p == requests[work[w].id].pair
             q == work[w].quote
             write == UpsertOf(p, q)
  <2>1. work[w].at = "upsert" /\ work[w].id \in Rows /\ p \in Pairs /\ q \in Quote /\ q # NoQuote
    <3>1. work[w].at = "upsert"
      BY <1>6 DEF Upsert
    <3>2. work[w].id \in Rows /\ q \in Quote
      BY <3>1 DEF IdsKnown, PublishedFirst
    <3> QED
      BY <3>1, <3>2, RowTypes, NoQuoteAssumption
  <2>2. write \in Statement /\ Known(write)
    BY <2>1, StatementTypes DEF UpsertOf, Known
  <2>3. Queries(w) /\ UNCHANGED <<post, queue, closed, resync, clock>>
    BY <1>6 DEF Upsert
  <2>4. CASE Succeeds(write) /\ WorkerGoes(w, "complete")
    <3>1. StoreKept
      BY <2>2, <2>4, SucceedsKept DEF Succeeds
    <3>2. UpsertQuote(p, q)
      BY <2>4 DEF Succeeds, Executes, UpsertOf
    <3>3. quotes'[requests'[work[w].id].pair] # NoQuote
      BY <2>1, <3>2 DEF UpsertQuote, StoreTypeOK
    <3> QED
      BY <1>0, <1>5, <2>1, <2>3, <2>4, <3>1, <3>3, WorkerMoves DEF WorkerGoes, Writes
  <2>5. CASE Abandons(write) /\ (WorkerGoes(w, "fail") \/ WorkerIdle(w))
    <3>1. StoreKept
      BY <2>2, <2>5, AbandonsKept
    <3> QED
      BY <1>0, <1>5, <2>1, <2>3, <2>5, <3>1, WorkerMoves, WorkerRests DEF WorkerGoes, Writes
  <2> QED
    BY <1>6, <2>4, <2>5 DEF Upsert
<1>7. ASSUME NEW step \in {"complete", "fail"}, NEW write \in Statement, Known(write),
             Finish(w, step, write)
      PROVE  IInv'
  <2>1. StoreKept
    BY <1>7, SucceedsKept, AbandonsKept DEF Finish, Succeeds
  <2>2. /\ work[w].at \in Writes /\ Queries(w)
        /\ UNCHANGED <<post, queue, closed, resync, clock>>
        /\ WorkerIdle(w)
    BY <1>7 DEF Finish, Writes
  <2> QED
    BY <1>0, <1>5, <2>1, <2>2, WorkerRests
<1>8. CASE Complete(w)
  <2>1. work[w].at = "complete"
    BY <1>8 DEF Complete, Finish
  <2>2. /\ work[w].id \in Rows /\ work[w].quote \in Quote
        /\ quotes[requests[work[w].id].pair] # NoQuote
    BY <2>1 DEF IdsKnown, PublishedFirst
  <2>3. /\ CompleteOf(work[w].id, work[w].quote) \in Statement
        /\ Known(CompleteOf(work[w].id, work[w].quote))
    BY <2>2, StatementTypes DEF CompleteOf, Known
  <2> QED
    BY <1>7, <1>8, <2>3 DEF Complete
<1>9. CASE Fail(w)
  <2>1. work[w].at = "fail"
    BY <1>9 DEF Fail, Finish
  <2>2. work[w].id \in Rows
    BY <2>1 DEF IdsKnown
  <2>3. FailOf(work[w].id) \in Statement /\ Known(FailOf(work[w].id))
    BY <2>2, StatementTypes DEF FailOf, Known
  <2> QED
    BY <1>7, <1>9, <2>3 DEF Fail
<1> QED
  BY <1>1, <1>2, <1>3, <1>4, <1>6, <1>8, <1>9 DEF WorkerStep

(* A resyncer moves on; the closed channel is out of its way. *)
LEMMA ResyncIInv ==
  ASSUME IInv, (\E r \in Resyncers : ResyncStep(r)) \/ LoopTicks \/ LoopExits
  PROVE  IInv'
<1> USE DEF IInv, TypeOK
<1>0. resync \in [Resyncers -> Resync] /\ Rows \subseteq Nat
  BY DEF MemoryTypeOK, Rows, StoreTypeOK
(* What any of these steps does to resync, the queue aside. *)
<1>1. ASSUME NEW r \in Resyncers, NEW next \in Resync,
             resync[r].at # "exited", next.todo \subseteq Rows,
             next.at = "exited" \/ r = "loop" \/ (r = "boot" /\ next.at # "idle"),
             resync' = [resync EXCEPT ![r] = next],
             UNCHANGED <<requests, quotes, post, lifecycle, closed, work, clock>>,
             acquired' \subseteq acquired,
             Healthy \/ Faulty,
             queue' \in Seq(Nat), Len(queue') <= QueueSize,
             \A n \in 1 .. Len(queue') : queue'[n] \in Rows
      PROVE  IInv'
  <2>1. Rows' = Rows /\ ~closed
    BY <1>1 DEF Rows, LifeCycle
  <2>2. StoreTypeOK' /\ LateKnown' /\ CompletedHasQuote' /\ PostTypeOK' /\ PublishedFirst'
    BY <1>1, <2>1, ReadKept DEF StoreKept, PostTypeOK, PublishedFirst, tables
  <2>3. ProcessTypeOK'
    BY <1>1, ProcessFrame
  <2>4. MemoryTypeOK'
    BY <1>1 DEF MemoryTypeOK
  <2>5. IdsKnown'
    BY <1>0, <1>1, <2>1 DEF IdsKnown
  <2>6. LifeCycle'
    BY <1>0, <1>1, <2>1 DEF LifeCycle, lifecycle
  <2>7. DrainedBeforeExit'
    BY <1>1, <2>1 DEF LifeCycle, DrainedBeforeExit
  <2> QED
    BY <2>2, <2>3, <2>4, <2>5, <2>6, <2>7
<1>2. /\ queue \in Seq(Nat) /\ Len(queue) <= QueueSize
      /\ \A n \in 1 .. Len(queue) : queue[n] \in Rows
  BY DEF MemoryTypeOK, IdsKnown
<1>3. \A step \in {"idle", "list", "exited"} :
        ResyncAt(step) \in Resync /\ ResyncAt(step).at = step /\ ResyncAt(step).todo = {}
  BY DEF ResyncAt, Resync
<1>4. /\ "loop" \in Resyncers
      /\ UNCHANGED <<createVars, process>>
           => /\ UNCHANGED <<requests, quotes, post, lifecycle>> /\ acquired' \subseteq acquired
              /\ Healthy
  BY DEF Resyncers, createVars, store, tables, process, Healthy
<1>5. CASE LoopTicks
  BY <1>1, <1>2, <1>3, <1>4, <1>5 DEF LoopTicks
<1>6. CASE LoopExits
  BY <1>1, <1>2, <1>3, <1>4, <1>6 DEF LoopExits
<1>7. ASSUME NEW r \in Resyncers, List(r)
      PROVE  IInv'
  <2> DEFINE listed == [at |-> "enqueue", todo |-> ListPending]
  <2>1. listed \in Resync /\ listed.todo \subseteq Rows /\ listed.at = "enqueue"
    BY <1>0 DEF Resync, ListPending
  <2>2. /\ \/ resync' = [resync EXCEPT ![r] = listed]
           \/ resync' = [resync EXCEPT ![r] = ResyncAt(IF r = "boot" THEN "exited" ELSE "idle")]
        /\ Healthy \/ Faulty
    BY <1>7 DEF List, ResyncEnds
  <2>3. /\ resync[r].at # "exited"
        /\ UNCHANGED <<requests, quotes, post, lifecycle, queue, closed, work, clock>>
        /\ acquired' \subseteq acquired
    BY <1>7 DEF List, Queries, tables
  <2> HIDE DEF listed
  <2> QED
    BY <1>1, <1>2, <1>3, <2>1, <2>2, <2>3 DEF Resyncers
<1>8. ASSUME NEW r \in Resyncers, EnqueueListed(r)
      PROVE  IInv'
  <2>1. PICK i \in resync[r].todo :
          Offer(i) /\ resync' = [resync EXCEPT ![r].todo = @ \ {i}]
    BY <1>8 DEF EnqueueListed
  <2> DEFINE rest == [at |-> "enqueue", todo |-> resync[r].todo \ {i}]
  <2>2. resync[r] \in Resync /\ resync[r].at = "enqueue" /\ resync[r].todo \subseteq Rows
    BY <1>0, <1>8 DEF EnqueueListed, IdsKnown
  <2>3. rest \in Resync /\ rest.todo \subseteq Rows /\ rest.at = "enqueue"
    BY <1>0, <2>2 DEF Resync
  <2>4. resync' = [resync EXCEPT ![r] = rest]
    <3>1. [resync[r] EXCEPT !.todo = resync[r].todo \ {i}] = rest
      <4>1. resync[r] = [at |-> "enqueue", todo |-> resync[r].todo]
        BY <2>2 DEF Resync
      <4> QED
        BY <4>1
    <3>2. resync' = [resync EXCEPT ![r] = [resync[r] EXCEPT !.todo = resync[r].todo \ {i}]]
      BY <1>0, <2>1
    <3> QED
      BY <3>1, <3>2
  <2>5. /\ queue' \in Seq(Nat) /\ Len(queue') <= QueueSize
        /\ \A n \in 1 .. Len(queue') : queue'[n] \in Rows
    BY <1>2, <2>1, <2>2, OfferFacts
  <2>6. UNCHANGED <<createVars, process, closed, work, clock>>
    BY <1>8 DEF EnqueueListed
  <2> HIDE DEF rest
  <2> QED
    BY <1>1, <1>4, <2>2, <2>3, <2>4, <2>5, <2>6 DEF Resyncers
<1>9. ASSUME NEW r \in Resyncers, ListRefused(r) \/ ResyncReturns(r)
      PROVE  IInv'
  BY <1>1, <1>2, <1>3, <1>4, <1>9 DEF ListRefused, ResyncReturns, ResyncEnds, Resyncers
<1> QED
  BY <1>5, <1>6, <1>7, <1>8, <1>9 DEF ResyncStep

(* Start, shutdown and crash preserve the inductive invariant: a crash *)
(* forgets the memory, and the tables alone satisfy it.                *)
LEMMA ProcessIInv ==
  ASSUME IInv, \/ Start \/ Listen \/ Signal \/ DeadlinePasses \/ CancelResync
               \/ CloseQueue \/ ShutdownReturns \/ ListenFails \/ Exit \/ Crash \/ TimePasses
  PROVE  IInv'
<1> USE DEF IInv, TypeOK
<1>1. /\ queue \in Seq(Nat) /\ Len(queue) <= QueueSize
      /\ \A n \in 1 .. Len(queue) : queue[n] \in Rows
  BY DEF MemoryTypeOK, IdsKnown
<1>2. ASSUME UNCHANGED <<createVars, queue, work>>,
             ProcessTypeOK', LifeCycle', resync' \in [Resyncers -> Resync],
             \A r \in Resyncers : resync'[r].todo \subseteq Rows
      PROVE  IInv'
  <2>1. MemoryTypeOK' /\ DrainedBeforeExit'
    BY <1>2 DEF MemoryTypeOK, DrainedBeforeExit
  <2>2. /\ \A n \in 1 .. Len(queue') : queue'[n] \in Rows
        /\ \A w \in Workers : work'[w].at \notin {"wait", "exited"} => work'[w].id \in Rows
        /\ \A w \in Workers :
             /\ work'[w].at \in {"upsert", "complete"} => work'[w].quote \in Quote
             /\ work'[w].at = "complete" => work'[w] = work[w]
    BY <1>2 DEF IdsKnown, PublishedFirst
  <2> QED
    BY <1>2, <2>1, <2>2, FrameTables
<1>3. resync \in [Resyncers -> Resync] /\ \A r \in Resyncers : resync[r].todo \subseteq Rows
  BY DEF MemoryTypeOK, IdsKnown
<1>4. CASE Start
  <2>1. /\ starts' \in 0 .. MaxStarts /\ phase' \in Phases /\ clock' \in 0 .. MaxClock
        /\ acquired' \subseteq Handlers \cup Workers \cup Resyncers
    BY <1>4, ServiceAssumption DEF Start, ProcessTypeOK, Phases
  <2>2. expired' \in BOOLEAN /\ closed' \in BOOLEAN
    BY <1>4, Zenon DEF Start, ProcessTypeOK
  <2>3. resync' \in [Resyncers -> Resync] /\ \A r \in Resyncers : resync'[r].todo \subseteq Rows
    BY <1>3, <1>4 DEF Start, ResyncAt, Resync
  <2>4. ~closed
    BY <1>4 DEF Start, LifeCycle
  <2>5. LifeCycle'
    BY <1>4, <2>4 DEF Start, LifeCycle
  <2>6. UNCHANGED <<createVars, queue, work>>
    BY <1>4 DEF Start
  <2> QED
    BY <1>2, <2>1, <2>2, <2>3, <2>5, <2>6, Zenon DEF ProcessTypeOK
<1>5. CASE Listen \/ Signal \/ CancelResync \/ CloseQueue
  <2>1. /\ starts' \in 0 .. MaxStarts /\ phase' \in Phases /\ clock' \in 0 .. MaxClock
        /\ acquired' \subseteq Handlers \cup Workers \cup Resyncers
    BY <1>5 DEF Listen, Signal, CancelResync, CloseQueue, ProcessTypeOK, Phases, memory
  <2>2. expired' \in BOOLEAN /\ closed' \in BOOLEAN
    BY <1>5, Zenon DEF Listen, Signal, CancelResync, CloseQueue, ProcessTypeOK, memory
  <2>3. UNCHANGED <<createVars, queue, work, resync>>
    BY <1>5 DEF Listen, Signal, CancelResync, CloseQueue, memory
  <2>4. LifeCycle'
    BY <1>5, <2>3 DEF Listen, Signal, CancelResync, CloseQueue, LifeCycle, Resyncers, memory
  <2> QED
    BY <1>2, <1>3, <2>1, <2>2, <2>3, <2>4, Zenon DEF ProcessTypeOK
<1>6. CASE DeadlinePasses \/ TimePasses
  <2>1. /\ starts' \in 0 .. MaxStarts /\ phase' \in Phases /\ clock' \in 0 .. MaxClock
        /\ acquired' \subseteq Handlers \cup Workers \cup Resyncers
    BY <1>6 DEF DeadlinePasses, TimePasses, ProcessTypeOK, memory, process, lifecycle
  <2>2. expired' \in BOOLEAN /\ closed' \in BOOLEAN
    BY <1>6, Zenon DEF DeadlinePasses, TimePasses, ProcessTypeOK, memory, process, lifecycle
  <2>3. UNCHANGED <<createVars, memory, phase>>
    BY <1>6 DEF DeadlinePasses, TimePasses, process, lifecycle
  <2>4. LifeCycle' /\ UNCHANGED <<createVars, queue, work, resync>>
    BY <2>3 DEF LifeCycle, memory
  <2> QED
    BY <1>2, <1>3, <2>1, <2>2, <2>4, Zenon DEF ProcessTypeOK
<1>7. CASE ShutdownReturns \/ ListenFails
  <2>1. /\ ClosesPool /\ phase \in {"serving", "closing"}
    BY <1>7 DEF ShutdownReturns, ListenFails
  <2>2. /\ starts' \in 0 .. MaxStarts /\ phase' \in Phases /\ clock' \in 0 .. MaxClock
        /\ acquired' \subseteq Handlers \cup Workers \cup Resyncers
    BY <2>1 DEF ClosesPool, Querying, ProcessTypeOK, Phases, memory
  <2>3. expired' \in BOOLEAN /\ closed' \in BOOLEAN
    BY <2>1, Zenon DEF ClosesPool, ProcessTypeOK, memory
  <2>4. UNCHANGED <<createVars, queue, work, resync>>
    BY <2>1 DEF ClosesPool, memory
  <2>5. LifeCycle'
    BY <2>1 DEF ClosesPool, LifeCycle, memory
  <2> QED
    BY <1>2, <1>3, <2>2, <2>3, <2>4, <2>5, Zenon DEF ProcessTypeOK
<1>8. CASE Exit \/ Crash
  <2>1. Dies
    BY <1>8 DEF Exit, Crash
  <2> USE DEF Dies
  <2>2. ProcessTypeOK'
    <3>1. /\ starts' \in 0 .. MaxStarts /\ phase' \in Phases /\ clock' \in 0 .. MaxClock
          /\ acquired' \subseteq Handlers \cup Workers \cup Resyncers
      BY <2>1 DEF ProcessTypeOK, Phases
    <3>2. expired' \in BOOLEAN /\ closed' \in BOOLEAN
      BY <2>1, Zenon
    <3> QED
      BY <3>1, <3>2, Zenon DEF ProcessTypeOK
  <2>3. StoreKept
    BY <2>1, UnchangedStoreKept
  <2>4. Rows' = Rows
    BY <2>1 DEF store, tables, Rows
  <2>5. PostTypeOK'
    BY <2>1, IdlePostType DEF PostTypeOK
  <2>6. IdleWork \in Work /\ ResyncAt("exited") \in Resync
    BY DEF IdleWork, Work, ResyncAt, Resync
  <2>7. MemoryTypeOK'
    BY <2>1, <2>6, ServiceAssumption DEF MemoryTypeOK
  <2>8. IdsKnown' /\ PublishedFirst' /\ LifeCycle' /\ DrainedBeforeExit'
    BY <2>1 DEF IdsKnown, PublishedFirst, LifeCycle, DrainedBeforeExit,
                IdleWork, ResyncAt, IdlePost, Resyncers
  <2> QED
    BY <2>2, <2>3, <2>5, <2>7, <2>8 DEF StoreKept
<1> QED
  BY <1>4, <1>5, <1>6, <1>7, <1>8

(* So does a write that lands after its caller has given it up. *)
LEMMA LandsIInv ==
  ASSUME IInv, NEW n \in DOMAIN late, LateWriteLands(n)
  PROVE  IInv'
<1> USE DEF IInv, TypeOK
<1>1. Lands(n) /\ UNCHANGED <<post, lifecycle, memory, clock>> /\ acquired' = acquired
  BY DEF LateWriteLands, process
<1>2. StoreKept
  BY <1>1, LandsKept
<1>3. PostTypeOK'
  BY <1>1 DEF PostTypeOK
<1>4. \A g \in Handlers : post'[g].at = "created" => post'[g].id \in Rows'
  BY <1>1, <1>2 DEF IdsKnown, StoreKept, TablesKept
<1> QED
  BY <1>1, <1>2, <1>3, <1>4, FrameMemory

(* Every step of the service preserves the inductive invariant. *)
LEMMA NextIInv == IInv /\ [ServiceNext]_vars => IInv'
<1>1. ASSUME IInv, UNCHANGED vars
      PROVE  IInv'
  <2>1. StoreKept /\ PostTypeOK' /\ UNCHANGED <<lifecycle, acquired, memory, clock>>
    BY <1>1, UnchangedStoreKept DEF vars, createVars, process, IInv, TypeOK, PostTypeOK
  <2>2. \A g \in Handlers : post'[g].at = "created" => post'[g].id \in Rows'
    BY <1>1 DEF vars, createVars, store, tables, IInv, IdsKnown, Rows
  <2> QED
    BY <1>1, <2>1, <2>2, FrameMemory
<1> QED
  BY <1>1, HandlerIInv, WorkerIInv, ResyncIInv, ProcessIInv, LandsIInv DEF ServiceNext

(* The inductive invariant holds in every reachable state: ids in memory *)
(* name rows, quotes are published before requests are completed, and    *)
(* nobody runs who could still send when the channel is closed, except   *)
(* the handlers (service.go:156-243).                                    *)
THEOREM ServiceInvariant == ServiceSpec => []IInv
BY InitIInv, NextIInv, PTL DEF ServiceSpec

(* The channel never exceeds its capacity and every variable has its type. *)
THEOREM TypeCorrect == ServiceSpec => []TypeOK
<1>1. IInv => TypeOK
  BY DEF IInv
<1> QED
  BY <1>1, ServiceInvariant, PTL

(* A completed request is never seen without a quote of its pair           *)
(* (service.go:229-240), crashes and lost replies included.                *)
THEOREM CompletedHasQuoteAlways == ServiceSpec => []CompletedHasQuote
<1>1. IInv => CompletedHasQuote
  BY DEF IInv
<1> QED
  BY <1>1, ServiceInvariant, PTL

(* resync never sends on the closed channel: Shutdown waits for the loop   *)
(* before it closes, and New's own resync is over by then (service.go:159).*)
THEOREM ResyncNeverPanicsAlways == ServiceSpec => []ResyncNeverPanics
<1>1. IInv => ResyncNeverPanics
  BY DEF IInv, LifeCycle, ResyncNeverPanics
<1> QED
  BY <1>1, ServiceInvariant, PTL

(* A worker that has left has left nothing behind in the channel           *)
(* (service.go:154-155, 200-205).                                          *)
THEOREM DrainedBeforeExitAlways == ServiceSpec => []DrainedBeforeExit
<1>1. IInv => DrainedBeforeExit
  BY DEF IInv
<1> QED
  BY <1>1, ServiceInvariant, PTL

(***************************************************************************)
(* What a step of the service does to the tables: one write, or nothing.   *)
(***************************************************************************)

TableStep ==
  \/ UNCHANGED <<requests, quotes>>
  \/ \E p \in Pairs, k \in Keys \cup {NoKey} : InsertRequest(p, k)
  \/ \E p \in Pairs, q \in Quote : UpsertQuote(p, q)
  \/ \E i \in Rows, q \in Quote :
       CompleteRequest(i, q) /\ quotes[requests[i].pair] # NoQuote
  \/ \E i \in Rows : FailRequest(i)

(* Whoever runs a known statement, and whenever, takes such a step. *)
LEMMA ExecutesTableStep ==
  ASSUME NEW s \in Statement, Known(s), Executes(s)
  PROVE  TableStep
<1>1. s.pair \in Pairs /\ s.key \in Keys \cup {NoKey}
  BY DEF Statement
<1> QED
  BY <1>1 DEF Known, Executes, TableStep, tables

(* A handler writes nothing but an INSERT that breaks no unique index. *)
LEMMA CreateWrites ==
  ASSUME PostTypeOK, NEW h \in Handlers, CreateStep(h)
  PROVE  \/ \E p \in Pairs, k \in Keys \cup {NoKey} : InsertRequest(p, k)
         \/ UNCHANGED <<requests, quotes>>
<1>1. post[h].pair \in Pairs /\ post[h].key \in Keys \cup {NoKey}
  BY DEF PostTypeOK, Post
<1>2. InsertRequest(post[h].pair, post[h].key) \/ UNCHANGED <<requests, quotes>>
  BY DEF CreateStep, LookupKey, LookupPending, Insert, RetryPending, RetryKey,
         Select, Abandons, store, tables
<1> QED
  BY <1>1, <1>2

(* A worker writes a quote, or settles a pending row, completed only *)
(* behind the quote.                                                 *)
LEMMA WorkerTableStep ==
  ASSUME IInv, NEW w \in Workers, WorkerStep(w)
  PROVE  TableStep
<1> USE DEF IInv, TypeOK
<1>1. ASSUME NEW s \in Statement, Known(s), Succeeds(s) \/ Abandons(s)
      PROVE  TableStep
  BY <1>1, ExecutesTableStep DEF Succeeds, Abandons, TableStep, tables
<1>2. CASE Upsert(w)
  <2>1. work[w].id \in Rows /\ work[w].quote \in Quote
    BY <1>2 DEF Upsert, IdsKnown, PublishedFirst
  <2>2. requests[work[w].id].pair \in Pairs
    BY <2>1, RowTypes
  <2>3. /\ UpsertOf(requests[work[w].id].pair, work[w].quote) \in Statement
        /\ Known(UpsertOf(requests[work[w].id].pair, work[w].quote))
    BY <2>1, <2>2, StatementTypes DEF UpsertOf, Known
  <2> QED
    BY <1>1, <1>2, <2>3 DEF Upsert
<1>3. CASE Complete(w)
  <2>1. /\ work[w].id \in Rows /\ work[w].quote \in Quote
        /\ quotes[requests[work[w].id].pair] # NoQuote
    BY <1>3 DEF Complete, Finish, IdsKnown, PublishedFirst
  <2>2. /\ CompleteOf(work[w].id, work[w].quote) \in Statement
        /\ Known(CompleteOf(work[w].id, work[w].quote))
    BY <2>1, StatementTypes DEF CompleteOf, Known
  <2> QED
    BY <1>1, <1>3, <2>2 DEF Complete, Finish
<1>4. CASE Fail(w)
  <2>1. work[w].id \in Rows
    BY <1>4 DEF Fail, Finish, IdsKnown
  <2>2. FailOf(work[w].id) \in Statement /\ Known(FailOf(work[w].id))
    BY <2>1, StatementTypes DEF FailOf, Known
  <2> QED
    BY <1>1, <1>4, <2>2 DEF Fail, Finish
<1>5. CASE Take(w) \/ WorkerExits(w) \/ RateArrives(w) \/ RateFails(w) \/ WriteRefused(w)
  BY <1>5 DEF Take, WorkerExits, RateArrives, RateFails, WriteRefused,
              createVars, store, tables, TableStep
<1> QED
  BY <1>2, <1>3, <1>4, <1>5 DEF WorkerStep

(* Everybody else leaves the tables and the late writes alone. *)
QuietStep ==
  \/ UNCHANGED vars
  \/ \E h \in Handlers : ArriveServed(h) \/ OwnStep(h)
  \/ \E r \in Resyncers : ResyncStep(r)
  \/ LoopTicks \/ LoopExits
  \/ Start \/ Listen \/ Signal \/ DeadlinePasses \/ CancelResync \/ CloseQueue
  \/ ShutdownReturns \/ ListenFails \/ Exit \/ Crash \/ TimePasses

LEMMA QuietFacts ==
  ASSUME QuietStep
  PROVE  /\ UNCHANGED <<requests, quotes, late>>
         /\ UNCHANGED clock \/ TimePasses
         /\ UNCHANGED work \/ work' = [w \in Workers |-> IdleWork]
<1>1. CASE UNCHANGED vars
  BY <1>1 DEF vars, createVars, store, tables, memory
<1>2. CASE \E h \in Handlers : ArriveServed(h) \/ OwnStep(h)
  BY <1>2 DEF ArriveServed, Arrive, OwnStep, RepoRefused, EnqueueCreated, EnqueuePanics,
              RespondOther, store, tables, memory
<1>3. CASE (\E r \in Resyncers : ResyncStep(r)) \/ LoopTicks \/ LoopExits
  BY <1>3 DEF ResyncStep, List, ListRefused, EnqueueListed, ResyncReturns, LoopTicks, LoopExits,
              createVars, store, tables, Healthy, Faulty
<1>4. CASE \/ Start \/ Listen \/ Signal \/ DeadlinePasses \/ CancelResync \/ CloseQueue
           \/ ShutdownReturns \/ ListenFails \/ TimePasses
  BY <1>4 DEF Start, Listen, Signal, DeadlinePasses, CancelResync, CloseQueue, ShutdownReturns,
              ListenFails, ClosesPool, TimePasses, createVars, store, tables, memory
<1>5. CASE Exit \/ Crash
  BY <1>5 DEF Exit, Crash, Dies, store, tables
<1> QED
  BY <1>1, <1>2, <1>3, <1>4, <1>5 DEF QuietStep

(* Every step of the service is a step of the tables. *)
LEMMA NextTableStep == IInv /\ [ServiceNext]_vars => TableStep
<1> SUFFICES ASSUME IInv, [ServiceNext]_vars
             PROVE  TableStep
  OBVIOUS
<1>1. CASE \E h \in Handlers : RepoStep(h)
  BY <1>1, CreateWrites DEF RepoStep, IInv, TypeOK, TableStep
<1>2. CASE \E w \in Workers : WorkerStep(w)
  BY <1>2, WorkerTableStep
<1>3. CASE QuietStep
  BY <1>3, QuietFacts DEF TableStep
<1>4. CASE \E n \in DOMAIN late : LateWriteLands(n)
  <2>1. PICK n \in DOMAIN late : Lands(n)
    BY <1>4 DEF LateWriteLands
  <2>2. late[n] \in Statement /\ Known(late[n])
    BY DEF IInv, TypeOK, StoreTypeOK, LateKnown
  <2> QED
    BY <2>1, <2>2, ExecutesTableStep DEF Lands
<1> QED
  BY <1>1, <1>2, <1>3, <1>4 DEF ServiceNext, HandlerStep, QuietStep

(* A settled request never changes again (storage.go:126-155): however     *)
(* often resync hands it out, whichever worker comes last.                 *)
THEOREM SettledIsFinalAlways == ServiceSpec => SettledIsFinal
<1>1. ASSUME IInv, TableStep
      PROVE  \A i \in Rows : ~Pending(i) => i \in Rows' /\ requests'[i] = requests[i]
  <2>1. requests \in Seq(Row)
    BY <1>1 DEF IInv, TypeOK, StoreTypeOK
  <2>2. ASSUME NEW p \in Pairs, NEW k \in Keys \cup {NoKey}, InsertRequest(p, k)
        PROVE  \A i \in Rows : i \in Rows' /\ requests'[i] = requests[i]
    BY <2>1, <2>2, InsertFacts
  <2>3. ASSUME NEW i \in Rows, NEW status \in Statuses, NEW result \in Quote \cup {NoQuote},
               Settle(i, status, result)
        PROVE  \A j \in Rows : j \in Rows' /\ (~Pending(j) => requests'[j] = requests[j])
    BY <2>1, <2>3, SettleFacts
  <2> QED
    BY <1>1, <2>2, <2>3
       DEF TableStep, CompleteRequest, FailRequest, UpsertQuote, Statuses, Rows
<1>2. IInv /\ [ServiceNext]_vars
        => [\A i \in Rows : ~Pending(i) => i \in Rows' /\ requests'[i] = requests[i]]_requests
  BY <1>1, NextTableStep
<1> QED
  BY <1>2, ServiceInvariant, PTL DEF ServiceSpec, SettledIsFinal

(* The service implements the ledger: every behaviour of queue, workers,   *)
(* resyncers, handlers, shutdowns and crashes is, in the tables, a         *)
(* behaviour of UpdateLedger.                                              *)
THEOREM Refinement == ServiceSpec => ImplementsLedger
<1>1. ServiceInit => Ledger!LedgerInit
  BY DEF ServiceInit, CreateInit, StoreInit, Ledger!LedgerInit
<1>2. ASSUME IInv, TableStep
      PROVE  [Ledger!LedgerNext]_(Ledger!ledger)
  <2>1. CASE UNCHANGED <<requests, quotes>>
    BY <2>1 DEF Ledger!ledger
  <2>2. ASSUME NEW p \in Pairs, NEW k \in Keys \cup {NoKey}, InsertRequest(p, k)
        PROVE  Ledger!LedgerNext
    <3>1. Ledger!Create(p, k)
      BY <2>2 DEF InsertRequest, Conflict, PendingOf, WithKey, Rows, Pending, NewRow,
                  Ledger!Create, Ledger!Open
    <3> QED
      BY <3>1 DEF Ledger!LedgerNext
  <2>3. ASSUME NEW p \in Pairs, NEW q \in Quote, UpsertQuote(p, q)
        PROVE  Ledger!LedgerNext
    BY <2>3 DEF UpsertQuote, Ledger!LedgerNext, Ledger!Publish
  <2>4. ASSUME NEW i \in Rows, NEW q \in Quote, CompleteRequest(i, q),
               quotes[requests[i].pair] # NoQuote
        PROVE  [Ledger!LedgerNext]_(Ledger!ledger)
    <3>1. CASE Pending(i)
      <4>1. Ledger!Complete(i, q)
        BY <2>4, <3>1 DEF CompleteRequest, Settle, Pending, Ledger!Complete, Ledger!Open
      <4> QED
        BY <4>1 DEF Ledger!LedgerNext, Rows
    <3>2. CASE ~Pending(i)
      BY <2>4, <3>2 DEF CompleteRequest, Settle, Ledger!ledger
    <3> QED
      BY <3>1, <3>2
  <2>5. ASSUME NEW i \in Rows, FailRequest(i)
        PROVE  [Ledger!LedgerNext]_(Ledger!ledger)
    <3>1. CASE Pending(i)
      <4>1. Ledger!Fail(i)
        BY <2>5, <3>1 DEF FailRequest, Settle, Pending, Ledger!Fail, Ledger!Open
      <4> QED
        BY <4>1 DEF Ledger!LedgerNext, Rows
    <3>2. CASE ~Pending(i)
      BY <2>5, <3>2 DEF FailRequest, Settle, Ledger!ledger
    <3> QED
      BY <3>1, <3>2
  <2> QED
    BY <1>2, <2>1, <2>2, <2>3, <2>4, <2>5 DEF TableStep
<1>3. IInv /\ [ServiceNext]_vars => [Ledger!LedgerNext]_(Ledger!ledger)
  BY <1>2, NextTableStep
<1> QED
  BY <1>1, <1>3, ServiceInvariant, PTL DEF ServiceSpec, ImplementsLedger, Ledger!LedgerSpec

(***************************************************************************)
(* What the ledger adds up to.                                             *)
(***************************************************************************)

(* The rows of the ledger, and that no two of them are in each other's way. *)
LedgerRow ==
  [pair : Pairs, key : Keys \cup {NoKey}, status : {"pending", "completed", "failed"},
   result : Quote \cup {NoQuote}]

LedgerInv == requests \in Seq(LedgerRow) /\ Ledger!OneOpenPerPair /\ Ledger!OneRowPerKey

(* Settling opens nothing and gives no row another key. *)
LEMMA LedgerSettles ==
  ASSUME LedgerInv, NEW i \in DOMAIN requests,
         Ledger!Fail(i) \/ \E q \in Quote : Ledger!Complete(i, q)
  PROVE  LedgerInv'
<1>0. PICK status \in {"completed", "failed"}, result \in Quote \cup {NoQuote} :
        requests' = [requests EXCEPT ![i].status = status, ![i].result = result]
  BY DEF Ledger!Complete, Ledger!Fail
<1> DEFINE row == [requests[i] EXCEPT !.status = status, !.result = result]
<1>1. requests \in Seq(LedgerRow) /\ i \in 1 .. Len(requests)
  BY DEF LedgerInv
<1>2. requests[i] \in LedgerRow
  BY <1>1
<1>3. /\ row \in LedgerRow
      /\ row.pair = requests[i].pair /\ row.key = requests[i].key /\ row.status = status
  BY <1>2 DEF LedgerRow
<1>4. requests' = [requests EXCEPT ![i] = row]
  BY <1>0, <1>2 DEF LedgerRow
<1> HIDE DEF row
<1>5. requests' \in Seq(LedgerRow) /\ DOMAIN requests' = DOMAIN requests
  <2>1. requests' \in Seq(LedgerRow)
    BY <1>1, <1>3, <1>4, ExceptSeq
  <2> QED
    BY <1>4, <2>1
<1>6. /\ \A j \in DOMAIN requests : requests'[j] = IF j = i THEN row ELSE requests[j]
      /\ row.status # "pending"
  BY <1>1, <1>3, <1>4
<1> QED
  BY <1>3, <1>5, <1>6
     DEF LedgerInv, Ledger!OneOpenPerPair, Ledger!OneRowPerKey, Ledger!Open

(* A new row is in nobody's way. *)
LEMMA LedgerCreates ==
  ASSUME LedgerInv, NEW p \in Pairs, NEW k \in Keys \cup {NoKey}, Ledger!Create(p, k)
  PROVE  LedgerInv'
<1> DEFINE row == [pair |-> p, key |-> k, status |-> "pending", result |-> NoQuote]
           new == Len(requests) + 1
<1>1. row \in LedgerRow /\ requests \in Seq(LedgerRow) /\ requests' = Append(requests, row)
  BY DEF LedgerRow, LedgerInv, Ledger!Create
<1>2. row.pair = p /\ row.key = k
  OBVIOUS
<1> HIDE DEF row
<1>3. /\ requests' \in Seq(LedgerRow)
      /\ DOMAIN requests' = DOMAIN requests \cup {new} /\ new \notin DOMAIN requests
      /\ \A i \in DOMAIN requests : requests'[i] = requests[i]
      /\ requests'[new] = row
  BY <1>1, AppendProperties
<1>4. /\ \A i \in DOMAIN requests : requests[i].pair = p => ~Ledger!Open(i)
      /\ k # NoKey => \A i \in DOMAIN requests : requests[i].key # k
  BY DEF Ledger!Create
<1> HIDE DEF new
<1> QED
  BY <1>2, <1>3, <1>4
     DEF LedgerInv, Ledger!OneOpenPerPair, Ledger!OneRowPerKey, Ledger!Open

(* The ledger is never ambiguous: both unique indexes stay unique through  *)
(* every creation and settlement (0001_init.sql:16-23).                    *)
THEOREM LedgerUnambiguous ==
  Ledger!LedgerSpec => [](Ledger!OneOpenPerPair /\ Ledger!OneRowPerKey)
<1>1. Ledger!LedgerInit => LedgerInv
  BY DEF Ledger!LedgerInit, LedgerInv, Ledger!OneOpenPerPair, Ledger!OneRowPerKey
<1>2. LedgerInv /\ [Ledger!LedgerNext]_(Ledger!ledger) => LedgerInv'
  <2> SUFFICES ASSUME LedgerInv, [Ledger!LedgerNext]_(Ledger!ledger) PROVE LedgerInv'
    OBVIOUS
  <2>1. CASE UNCHANGED requests
    BY <2>1 DEF LedgerInv, Ledger!OneOpenPerPair, Ledger!OneRowPerKey, Ledger!Open
  <2>2. ASSUME NEW p \in Pairs, NEW k \in Keys \cup {NoKey}, Ledger!Create(p, k)
        PROVE  LedgerInv'
    BY <2>2, LedgerCreates
  <2>3. ASSUME NEW i \in DOMAIN requests, NEW q \in Quote, Ledger!Complete(i, q)
        PROVE  LedgerInv'
    BY <2>3, LedgerSettles
  <2>4. ASSUME NEW i \in DOMAIN requests, Ledger!Fail(i)
        PROVE  LedgerInv'
    BY <2>4, LedgerSettles
  <2> QED
    BY <2>1, <2>2, <2>3, <2>4 DEF Ledger!LedgerNext, Ledger!Publish, Ledger!ledger
<1>3. LedgerInv => Ledger!OneOpenPerPair /\ Ledger!OneRowPerKey
  BY DEF LedgerInv
<1> QED
  BY <1>1, <1>2, <1>3, PTL DEF Ledger!LedgerSpec

(* So the service never has two open requests of a pair, nor two requests  *)
(* of a key, whatever resyncs, shutdowns and crashes come in between.      *)
THEOREM ServiceUnambiguous ==
  ServiceSpec => [](Ledger!OneOpenPerPair /\ Ledger!OneRowPerKey)
<1> QED
  BY Refinement, LedgerUnambiguous, PTL DEF ImplementsLedger

(***************************************************************************)
(* One worker and a wall clock that is never set back: no two stamps are   *)
(* under way at once, so the last one written in time is the latest.  With *)
(* two workers, or a clock set back, both properties fail.                 *)
(***************************************************************************)

OneWorker == \A v, w \in Workers : v = w

(* No stamp that is stored, or that a given up write still carries, is later. *)
StampsUpTo(t) ==
  /\ \A p \in Pairs : quotes[p] # NoQuote => quotes[p].at <= t
  /\ \A i \in Rows : requests[i].status = "completed" => requests[i].result.at <= t
  /\ \A n \in DOMAIN late :
       late[n].do \in {"upsert", "complete"} => late[n].quote.at <= t

Covered(p, t) == quotes[p] # NoQuote /\ (quotes[p].at >= t \/ Overwritten(p))

InHand(w) == work[w].at \in {"upsert", "complete"}

Late(n) == late[n].do = "complete" /\ ~late[n].done

(* No stamp is ahead of the clock; the one a worker is about to publish is *)
(* the latest; what is completed, or still to be, is covered.              *)
Stamped ==
  /\ StampsUpTo(clock)
  /\ \A w \in Workers :
       /\ InHand(w) => work[w].quote.at <= clock
       /\ work[w].at = "upsert" => StampsUpTo(work[w].quote.at)
       /\ work[w].at = "complete" => Covered(requests[work[w].id].pair, work[w].quote.at)
  /\ \A n \in DOMAIN late : Late(n) => Covered(late[n].pair, late[n].quote.at)
  /\ \A i \in Rows : requests[i].status = "completed" =>
       requests[i].result \in Quote /\ Covered(requests[i].pair, requests[i].result.at)

OInv == IInv /\ Stamped

LEMMA StampTypes ==
  ASSUME IInv
  PROVE  /\ clock \in Nat
         /\ \A q \in Quote : q.at \in Nat /\ q # NoQuote
         /\ \A p \in Pairs : quotes[p] # NoQuote => quotes[p] \in Quote
         /\ \A i \in Rows : requests[i].pair \in Pairs
         /\ \A w \in Workers : InHand(w) =>
              work[w].quote \in Quote /\ work[w].id \in Rows
         /\ \A n \in DOMAIN late : late[n] \in Statement /\ Known(late[n])
<1>1. \A q \in Quote : q.at \in Nat /\ q # NoQuote
  BY StoreAssumption, NoQuoteAssumption DEF Quote
<1>2. clock \in Nat /\ \A p \in Pairs : quotes[p] \in Quote \cup {NoQuote}
  BY StoreAssumption DEF IInv, TypeOK, ProcessTypeOK, StoreTypeOK
<1>3. \A w \in Workers : InHand(w) => work[w].quote \in Quote /\ work[w].id \in Rows
  BY DEF IInv, PublishedFirst, IdsKnown, InHand
<1>4. \A i \in Rows : requests[i].pair \in Pairs
  BY RowTypes DEF IInv, TypeOK
<1>5. \A n \in DOMAIN late : late[n] \in Statement /\ Known(late[n])
  BY DEF IInv, TypeOK, StoreTypeOK, LateKnown
<1> QED
  BY <1>1, <1>2, <1>3, <1>4, <1>5

(* The late writes of a step: none is forgotten, none undone. *)
LateGrows ==
  \A n \in DOMAIN late :
    /\ n \in DOMAIN late'
    /\ late'[n].do = late[n].do /\ late'[n].pair = late[n].pair
    /\ late'[n].quote = late[n].quote
    /\ late[n].done => late'[n].done

(* What a step must do to keep the stamps: take none from elsewhere, cover *)
(* what was covered, complete nothing uncovered.                           *)
LEMMA StampsKept ==
  ASSUME OInv, OneWorker, clock' \in Nat, clock' >= clock,
         \A t \in Nat : StampsUpTo(t) /\ (\A w \in Workers : InHand(w) => work[w].quote.at <= t)
                          => StampsUpTo(t)',
         \A p \in Pairs, t \in Nat :
           /\ Covered(p, t)
           /\ \A w \in Workers : work[w].at = "upsert" => t <= work[w].quote.at
           => Covered(p, t)',
         LateGrows, Rows \subseteq Rows',
         \A i \in Rows : requests'[i].pair = requests[i].pair,
         \A w \in Workers :
           InHand(w)' => \/ work'[w] = work[w]
                         \/ /\ work'[w].at = "complete" /\ work'[w].quote.at \in Nat
                            /\ work'[w].quote.at <= clock
                            /\ Covered(requests[work[w].id].pair, work[w].quote.at)',
         \A n \in DOMAIN late' :
           Late(n)' => \/ n \in DOMAIN late /\ Late(n)
                       \/ Covered(late[n].pair, late[n].quote.at)',
         \A i \in Rows' : requests'[i].status = "completed" =>
           \/ i \in Rows /\ requests'[i] = requests[i]
           \/ requests'[i].result \in Quote /\ Covered(requests[i].pair, requests[i].result.at)'
  PROVE  Stamped'
<1>1. IInv /\ Stamped /\ clock \in Nat
  BY StampTypes DEF OInv
<1>2. /\ \A p \in Pairs : quotes[p] # NoQuote => quotes[p].at \in Nat
      /\ \A i \in Rows : requests[i].status = "completed" => requests[i].result.at \in Nat
      /\ \A n \in DOMAIN late :
           late[n].do \in {"upsert", "complete"} => late[n].quote.at \in Nat
      /\ \A w \in Workers : InHand(w) => work[w].quote.at \in Nat
  BY <1>1, StampTypes DEF Known, Stamped
<1>3. StampsUpTo(clock)'
  <2>1. PICK t \in Nat : t = clock' /\ t >= clock
    OBVIOUS
  <2>2. StampsUpTo(t)
    BY <1>1, <1>2, <2>1 DEF Stamped, StampsUpTo
  <2>3. \A w \in Workers : InHand(w) => work[w].quote.at <= t
    BY <1>1, <1>2, <2>1 DEF Stamped
  <2>4. StampsUpTo(t)'
    BY <2>2, <2>3
  <2> QED
    BY <2>1, <2>4 DEF StampsUpTo
(* What was covered stays so. *)
<1>4. ASSUME NEW p \in Pairs, NEW t \in Nat, Covered(p, t),
             \A w \in Workers : work[w].at = "upsert" => t <= work[w].quote.at
      PROVE  Covered(p, t)'
  BY <1>4
<1>5. ASSUME NEW w \in Workers, InHand(w)'
      PROVE  /\ work'[w].quote.at <= clock'
             /\ (work[w].at = "upsert")' => StampsUpTo(work[w].quote.at)'
             /\ (work[w].at = "complete")' =>
                  Covered(requests[work[w].id].pair, work[w].quote.at)'
  <2>1. CASE work'[w] = work[w]
    <3>1. InHand(w) /\ work[w].quote.at \in Nat /\ work[w].id \in Rows
      BY <1>1, <1>2, <1>5, <2>1, StampTypes DEF InHand
    <3>2. work'[w].quote.at <= clock'
      BY <1>1, <2>1, <3>1 DEF Stamped
    <3>3. ASSUME work[w].at = "upsert"
          PROVE  StampsUpTo(work[w].quote.at)'
      <4>1. PICK t \in Nat : t = work[w].quote.at
        BY <3>1
      <4>2. StampsUpTo(t) /\ \A v \in Workers : InHand(v) => work[v].quote.at <= t
        BY <1>1, <3>1, <3>3, <4>1 DEF Stamped, OneWorker
      <4>3. StampsUpTo(t)'
        BY <4>2
      <4> QED
        BY <2>1, <4>1, <4>3 DEF StampsUpTo
    <3>4. ASSUME work[w].at = "complete"
          PROVE  Covered(requests[work[w].id].pair, work[w].quote.at)'
      <4>1. PICK t \in Nat : t = work[w].quote.at
        BY <3>1
      <4>2. PICK p \in Pairs : p = requests[work[w].id].pair
        BY <1>1, <3>1, StampTypes
      <4>3. Covered(p, t) /\ \A v \in Workers : work[v].at # "upsert"
        BY <1>1, <3>4, <4>1, <4>2 DEF Stamped, OneWorker
      <4>4. Covered(p, t)'
        BY <1>4, <4>3
      <4>5. p = requests'[work'[w].id].pair /\ t = work'[w].quote.at
        BY <2>1, <3>1, <4>1, <4>2
      <4> QED
        BY <4>4, <4>5 DEF Covered, Overwritten
    <3> QED
      BY <2>1, <3>2, <3>3, <3>4
  <2>2. CASE /\ work'[w].at = "complete" /\ work'[w].quote.at \in Nat
             /\ work'[w].quote.at <= clock
             /\ Covered(requests[work[w].id].pair, work[w].quote.at)'
    BY <1>1, <2>2
  <2> QED
    BY <1>5, <2>1, <2>2
<1>6. ASSUME NEW n \in DOMAIN late', Late(n)'
      PROVE  Covered(late[n].pair, late[n].quote.at)'
  <2>1. CASE n \in DOMAIN late /\ Late(n)
    <3>1. late[n].do = "complete" /\ late[n].pair \in Pairs /\ late[n].quote.at \in Nat
      BY <1>1, <1>2, <2>1, StampTypes DEF Late, Statement
    <3>2. PICK p \in Pairs, t \in Nat : p = late[n].pair /\ t = late[n].quote.at
      BY <3>1
    <3>3. Covered(p, t) /\ \A w \in Workers : work[w].at = "upsert" => t <= work[w].quote.at
      BY <1>1, <2>1, <3>1, <3>2 DEF Stamped, StampsUpTo
    <3>4. Covered(p, t)'
      BY <1>4, <3>3
    <3>5. p = late'[n].pair /\ t = late'[n].quote.at
      BY <2>1, <3>2 DEF LateGrows
    <3> QED
      BY <3>4, <3>5 DEF Covered, Overwritten
  <2> QED
    BY <1>6, <2>1
<1>7. ASSUME NEW i \in Rows', requests'[i].status = "completed"
      PROVE  requests'[i].result \in Quote /\ Covered(requests[i].pair, requests[i].result.at)'
  <2>1. CASE i \in Rows /\ requests'[i] = requests[i]
    <3>1. /\ requests[i].status = "completed" /\ requests[i].pair \in Pairs
          /\ requests[i].result \in Quote /\ requests[i].result.at \in Nat
      BY <1>1, <1>2, <1>7, <2>1, StampTypes DEF Stamped
    <3>2. PICK p \in Pairs, t \in Nat : p = requests[i].pair /\ t = requests[i].result.at
      BY <3>1
    <3>3. Covered(p, t) /\ \A w \in Workers : work[w].at = "upsert" => t <= work[w].quote.at
      BY <1>1, <2>1, <3>1, <3>2 DEF Stamped, StampsUpTo
    <3>4. Covered(p, t)'
      BY <1>4, <3>3
    <3>5. p = requests'[i].pair /\ t = requests'[i].result.at
      BY <2>1, <3>2
    <3> QED
      BY <2>1, <3>1, <3>4, <3>5 DEF Covered, Overwritten
  <2> QED
    BY <1>7, <2>1
<1> QED
  BY <1>3, <1>5, <1>6, <1>7 DEF Stamped, InHand

(* Without a new quote what was covered stays so. *)
LEMMA CoverFrame ==
  ASSUME UNCHANGED quotes, LateGrows, NEW p, NEW t, Covered(p, t)
  PROVE  Covered(p, t)'
<1>1. Overwritten(p) => Overwritten(p)'
  BY DEF Overwritten, LateGrows
<1> QED
  BY <1>1 DEF Covered

(* A step that leaves tables and late writes alone. *)
LEMMA StampsFrame ==
  ASSUME OInv, OneWorker, UNCHANGED <<requests, quotes, late>>, clock' \in Nat, clock' >= clock,
         \A w \in Workers : InHand(w)' => work'[w] = work[w]
  PROVE  Stamped'
<1>1. LateGrows /\ Rows' = Rows
  BY DEF LateGrows, Rows
<1>2. \A t \in Nat : StampsUpTo(t) => StampsUpTo(t)'
  BY DEF StampsUpTo, Rows
<1>3. \A p \in Pairs, t \in Nat : Covered(p, t) => Covered(p, t)'
  BY <1>1, CoverFrame
<1>4. \A n \in DOMAIN late' : Late(n)' => n \in DOMAIN late /\ Late(n)
  BY DEF Late
<1> QED
  BY <1>1, <1>2, <1>3, <1>4, StampsKept

(* An INSERT or UPDATE runs, in time or late, and completes at most what is *)
(* covered.                                                                 *)
LEMMA StampsSettled ==
  ASSUME OInv, OneWorker, NEW s \in Statement, Known(s), Executes(s), s.do # "upsert",
         s.do = "complete" =>
           /\ Covered(s.pair, s.quote.at)
           /\ \A t \in Nat :
                StampsUpTo(t) /\ (\A w \in Workers : InHand(w) => work[w].quote.at <= t)
                  => s.quote.at <= t,
         LateGrows, DOMAIN late' = DOMAIN late, \A n \in DOMAIN late : Late(n)' => Late(n),
         UNCHANGED clock, \A w \in Workers : InHand(w)' => work'[w] = work[w]
  PROVE  Stamped'
<1>1. /\ IInv /\ Stamped /\ clock \in Nat /\ requests \in Seq(Row)
      /\ s.pair \in Pairs /\ s.key \in Keys \cup {NoKey}
  BY StampTypes DEF OInv, IInv, TypeOK, StoreTypeOK, Statement
<1>2. UNCHANGED quotes
  BY DEF Executes, tables, InsertRequest, CompleteRequest, FailRequest, Settle
<1>3. \A p \in Pairs, t \in Nat : Covered(p, t) => Covered(p, t)'
  BY <1>2, CoverFrame
(* The rows it leaves: as they were, new, failed, or completed by s. *)
<1>4. /\ Rows \subseteq Rows'
      /\ \A i \in Rows : requests'[i].pair = requests[i].pair
      /\ \A i \in Rows' : requests'[i].status = "completed" =>
           \/ i \in Rows /\ requests'[i] = requests[i]
           \/ /\ s.do = "complete" /\ i \in Rows /\ requests[i].pair = s.pair
              /\ requests'[i].result = s.quote
  <2>1. CASE UNCHANGED tables
    BY <2>1 DEF tables, Rows
  <2>2. CASE InsertRequest(s.pair, s.key)
    <3>1. /\ Rows' = Rows \cup {Len(requests) + 1}
          /\ \A i \in Rows : requests'[i] = requests[i]
          /\ requests'[Len(requests) + 1] = NewRow(s.pair, s.key)
      BY <1>1, <2>2, InsertFacts
    <3>2. NewRow(s.pair, s.key).status = "pending"
      BY DEF NewRow
    <3> QED
      BY <3>1, <3>2
  <2>3. CASE s.do \in {"complete", "fail"}
    <3>1. s.id \in Rows /\ s.pair = requests[s.id].pair
      BY <2>3 DEF Known
    <3>2. PICK status \in {"completed", "failed"}, result \in Quote \cup {NoQuote} :
            /\ Settle(s.id, status, result)
            /\ status = "completed" => s.do = "complete" /\ result = s.quote
      BY <2>3 DEF Executes, CompleteRequest, FailRequest, Known
    <3>3. /\ Rows' = Rows
          /\ \A j \in Rows : /\ requests'[j].pair = requests[j].pair
                             /\ j # s.id \/ ~Pending(j) => requests'[j] = requests[j]
          /\ Pending(s.id) =>
               requests'[s.id].status = status /\ requests'[s.id].result = result
      BY <1>1, <3>1, <3>2, SettleFacts DEF Statuses
    <3> QED
      BY <3>1, <3>2, <3>3
  <2> QED
    BY <2>1, <2>2, <2>3 DEF Executes
<1>5. ASSUME NEW t \in Nat, StampsUpTo(t),
             \A w \in Workers : InHand(w) => work[w].quote.at <= t
      PROVE  StampsUpTo(t)'
  <2>1. s.do = "complete" => s.quote.at <= t
    BY <1>5
  <2>2. \A i \in Rows' : requests'[i].status = "completed" => requests'[i].result.at <= t
    BY <1>4, <1>5, <2>1 DEF StampsUpTo
  <2>3. \A n \in DOMAIN late' :
          late'[n].do \in {"upsert", "complete"} => late'[n].quote.at <= t
    BY <1>5 DEF StampsUpTo, LateGrows
  <2> QED
    BY <1>2, <1>5, <2>2, <2>3 DEF StampsUpTo
<1>6. ASSUME NEW i \in Rows', requests'[i].status = "completed",
             ~(i \in Rows /\ requests'[i] = requests[i])
      PROVE  requests'[i].result \in Quote /\ Covered(requests[i].pair, requests[i].result.at)'
  <2>1. /\ s.do = "complete" /\ i \in Rows /\ requests[i].pair = s.pair
        /\ requests'[i].result = s.quote /\ requests'[i].pair = s.pair
    BY <1>4, <1>6
  <2>2. s.quote \in Quote /\ s.quote.at \in Nat
    BY <1>1, <2>1, StampTypes DEF Known
  <2>3. PICK t \in Nat : t = s.quote.at
    BY <2>2
  <2>4. Covered(s.pair, t)
    BY <2>1, <2>3
  <2>5. PICK p \in Pairs : p = s.pair
    BY <1>1
  <2>6. Covered(p, t)'
    BY <1>3, <2>4, <2>5
  <2> QED
    BY <2>1, <2>2, <2>3, <2>5, <2>6 DEF Covered, Overwritten
<1> QED
  BY <1>1, <1>3, <1>4, <1>5, <1>6, StampsKept

(* A quote is published: the latest of all, or one that was given up. *)
LEMMA StampsPublished ==
  ASSUME OInv, OneWorker, NEW p \in Pairs, NEW q \in Quote, UpsertQuote(p, q),
         Overwritten(p)' \/ \E w \in Workers : work[w].at = "upsert" /\ work[w].quote = q,
         \A t \in Nat :
           StampsUpTo(t) /\ (\A w \in Workers : InHand(w) => work[w].quote.at <= t)
             => q.at <= t,
         LateGrows, DOMAIN late' = DOMAIN late, \A n \in DOMAIN late : Late(n)' => Late(n),
         UNCHANGED clock,
         \A w \in Workers :
           InHand(w)' => \/ work'[w] = work[w]
                         \/ /\ work'[w].at = "complete" /\ work'[w].quote = q /\ q.at <= clock
                            /\ work'[w].id \in Rows /\ requests[work'[w].id].pair = p
  PROVE  Stamped'
<1>1. /\ IInv /\ clock \in Nat /\ q.at \in Nat /\ q # NoQuote
      /\ quotes \in [Pairs -> Quote \cup {NoQuote}]
  BY StampTypes DEF OInv, IInv, TypeOK, StoreTypeOK
<1>2. /\ requests' = requests /\ Rows' = Rows
      /\ quotes'[p] = q /\ \A r \in Pairs \ {p} : quotes'[r] = quotes[r]
  BY <1>1 DEF UpsertQuote, Rows
<1>3. ASSUME NEW t \in Nat, StampsUpTo(t),
             \A w \in Workers : InHand(w) => work[w].quote.at <= t
      PROVE  StampsUpTo(t)'
  <2>1. q.at <= t
    BY <1>3
  <2>2. \A r \in Pairs : quotes'[r] # NoQuote => quotes'[r].at <= t
    BY <1>2, <1>3, <2>1 DEF StampsUpTo
  <2>3. \A n \in DOMAIN late' :
          late'[n].do \in {"upsert", "complete"} => late'[n].quote.at <= t
    BY <1>3 DEF StampsUpTo, LateGrows
  <2> QED
    BY <1>2, <1>3, <2>2, <2>3 DEF StampsUpTo
<1>4. ASSUME NEW r \in Pairs, NEW t \in Nat, Covered(r, t),
             \A w \in Workers : work[w].at = "upsert" => t <= work[w].quote.at
      PROVE  Covered(r, t)'
  <2>1. CASE r = p
    <3>1. Overwritten(p)' \/ q.at >= t
      BY <1>1, <1>4
    <3> QED
      BY <1>1, <1>2, <2>1, <3>1 DEF Covered
  <2>2. CASE r # p
    <3>1. quotes'[r] = quotes[r]
      BY <1>2, <2>2
    <3>2. Overwritten(r) => Overwritten(r)'
      BY <3>1 DEF Overwritten, LateGrows
    <3> QED
      BY <1>4, <3>1, <3>2 DEF Covered
  <2> QED
    BY <2>1, <2>2
<1>5. ASSUME NEW w \in Workers, InHand(w)', work'[w] # work[w]
      PROVE  /\ work'[w].at = "complete" /\ work'[w].quote.at \in Nat
             /\ work'[w].quote.at <= clock
             /\ Covered(requests[work[w].id].pair, work[w].quote.at)'
  <2>1. /\ work'[w].at = "complete" /\ work'[w].quote = q /\ q.at <= clock
        /\ requests'[work'[w].id].pair = p
    BY <1>2, <1>5
  <2> QED
    BY <1>1, <1>2, <2>1 DEF Covered
<1> QED
  BY <1>1, <1>2, <1>3, <1>4, <1>5, StampsKept

(* A write is given up: what it carries is no later than what was in hand. *)
LEMMA StampsAbandoned ==
  ASSUME OInv, OneWorker, NEW s \in Statement, Abandons(s), UNCHANGED clock,
         s.do \in {"upsert", "complete"} =>
           \E w \in Workers : InHand(w) /\ work[w].quote = s.quote,
         s.do = "complete" => s.quote \in Quote /\ Covered(s.pair, s.quote.at),
         \A w \in Workers : InHand(w)' => work'[w] = work[w]
  PROVE  Stamped'
<1>1. IInv /\ clock \in Nat /\ StoreTypeOK
  BY StampTypes DEF OInv, IInv, TypeOK
<1>2. /\ UNCHANGED <<requests, quotes>> /\ Rows' = Rows
      /\ DOMAIN late' = DOMAIN late \cup {Len(late) + 1}
      /\ \A n \in DOMAIN late : late'[n] = late[n]
      /\ late'[Len(late) + 1] = s
  BY <1>1, AbandonFacts DEF tables, Rows
<1>3. LateGrows
  BY <1>2 DEF LateGrows
<1>4. ASSUME NEW t \in Nat, StampsUpTo(t),
             \A w \in Workers : InHand(w) => work[w].quote.at <= t
      PROVE  StampsUpTo(t)'
  <2>1. s.do \in {"upsert", "complete"} => s.quote.at <= t
    BY <1>4
  <2> QED
    BY <1>2, <1>4, <2>1 DEF StampsUpTo
<1>5. \A p \in Pairs, t \in Nat : Covered(p, t) => Covered(p, t)'
  BY <1>2, <1>3, CoverFrame
<1>6. ASSUME NEW n \in DOMAIN late', Late(n)', n \notin DOMAIN late
      PROVE  Covered(late[n].pair, late[n].quote.at)'
  <2>1. late'[n] = s /\ s.do = "complete"
    BY <1>2, <1>6 DEF Late
  <2>2. PICK p \in Pairs, t \in Nat : p = s.pair /\ t = s.quote.at
    BY <1>1, <2>1, StampTypes DEF Statement
  <2>3. Covered(p, t)'
    BY <1>5, <2>1, <2>2
  <2> QED
    BY <2>1, <2>2, <2>3 DEF Covered, Overwritten
<1>7. \A n \in DOMAIN late : Late(n)' => Late(n)
  BY <1>2 DEF Late
<1> QED
  BY <1>1, <1>2, <1>3, <1>4, <1>5, <1>6, <1>7, StampsKept

(* What a step may do to the quotes. *)
Advances ==
  \A p \in Pairs : quotes[p] # NoQuote
    => quotes'[p] # NoQuote /\ (quotes'[p].at >= quotes[p].at \/ UpsertLands(p))

(* A step that publishes nothing. *)
LEMMA AdvancesFrame == ASSUME IInv, UNCHANGED quotes PROVE Advances
BY StampTypes DEF Advances

(* Whatever its worker does in time, the quote advances. *)
LEMMA StampsWorker ==
  ASSUME OInv, OneWorker, NEW w \in Workers, WorkerStep(w)
  PROVE  Stamped' /\ Advances
<1>1. /\ IInv /\ Stamped /\ clock \in Nat /\ work \in [Workers -> Work]
      /\ StoreTypeOK /\ \A v \in Workers : v = w
  BY StampTypes DEF OInv, IInv, TypeOK, MemoryTypeOK, OneWorker
<1>2. CASE Take(w) \/ WorkerExits(w) \/ RateFails(w) \/ WriteRefused(w)
  <2>1. UNCHANGED <<requests, quotes, late, clock>>
    BY <1>2 DEF Take, WorkerExits, RateFails, WriteRefused, createVars, store, tables
  <2>2. ~InHand(w)'
    BY <1>1, <1>2
       DEF Take, WorkerExits, RateFails, WriteRefused, WorkerGoes, WorkerIdle, IdleWork, InHand, Work
  <2> QED
    BY <1>1, <2>1, <2>2, StampsFrame, AdvancesFrame
<1>3. CASE RateArrives(w)
  <2>1. UNCHANGED <<requests, quotes, late, clock>>
    BY <1>3 DEF RateArrives, createVars, store, tables
  <2>2. work'[w].at = "upsert" /\ work'[w].quote.at = clock
    BY <1>1, <1>3 DEF RateArrives, Work
  <2>3. StampsUpTo(clock)
    BY <1>1 DEF Stamped
  <2>4. StampsUpTo(clock)' /\ StampsUpTo(work[w].quote.at)'
    BY <2>1, <2>2, <2>3 DEF StampsUpTo, Rows
  <2>5. \A p, t : Covered(p, t) => Covered(p, t)'
    BY <2>1, CoverFrame DEF LateGrows
  <2>6. \A n \in DOMAIN late' : Late(n)' => Covered(late[n].pair, late[n].quote.at)'
    BY <1>1, <2>1 DEF Stamped, Covered, Overwritten, Late
  <2>7. \A i \in Rows' : requests'[i].status = "completed" =>
          requests'[i].result \in Quote /\ Covered(requests[i].pair, requests[i].result.at)'
    BY <1>1, <2>1 DEF Stamped, Covered, Overwritten, Rows
  <2>8. Stamped'
    BY <1>1, <2>1, <2>2, <2>4, <2>6, <2>7 DEF Stamped
  <2> QED
    BY <1>1, <2>1, <2>8, AdvancesFrame
<1>4. CASE Upsert(w)
  <2> DEFINE p == requests[work[w].id].pair
             q == work[w].quote
             write == UpsertOf(p, q)
  <2>1. work[w].at = "upsert" /\ InHand(w) /\ UNCHANGED clock
    BY <1>4 DEF Upsert, InHand
  <2>2. /\ work[w].id \in Rows /\ p \in Pairs /\ q \in Quote /\ q.at \in Nat /\ q # NoQuote
        /\ q.at <= clock /\ StampsUpTo(q.at)
    BY <1>1, <2>1, StampTypes DEF Stamped
  <2>3. CASE Succeeds(write) /\ WorkerGoes(w, "complete")
    <3>1. UpsertQuote(p, q) /\ late' = late
      BY <2>3 DEF Succeeds, Executes, UpsertOf, Healthy
    <3>2. /\ work'[w].at = "complete" /\ work'[w].quote = q /\ work'[w].id = work[w].id
      BY <1>1, <2>3, WorkerMoves DEF WorkerGoes
    <3>3. LateGrows /\ \A n \in DOMAIN late : Late(n)' => Late(n)
      BY <3>1 DEF LateGrows, Late
    <3>4. Stamped'
      BY <1>1, <2>1, <2>2, <3>1, <3>2, <3>3, StampsPublished
    <3>5. \A r \in Pairs : quotes[r] # NoQuote => quotes[r] \in Quote /\ quotes[r].at \in Nat
      BY <1>1, StampTypes
    <3>6. quotes \in [Pairs -> Quote \cup {NoQuote}]
      BY <1>1 DEF StoreTypeOK
    <3>7. Advances
      BY <2>2, <3>1, <3>5, <3>6 DEF UpsertQuote, Advances, StampsUpTo
    <3> QED
      BY <3>4, <3>7
  <2>4. CASE Abandons(write) /\ (WorkerGoes(w, "fail") \/ WorkerIdle(w))
    <3>1. ~InHand(w)' /\ UNCHANGED quotes
      BY <1>1, <2>4, WorkerMoves, WorkerRests DEF WorkerGoes, InHand, Abandons, tables
    <3>2. write \in Statement /\ write.do = "upsert" /\ write.quote = q
      BY <1>1, <2>2, StatementTypes DEF UpsertOf
    <3>3. Stamped'
      BY <1>1, <2>1, <2>4, <3>1, <3>2, StampsAbandoned
    <3> QED
      BY <1>1, <3>1, <3>3, AdvancesFrame
  <2> QED
    BY <1>4, <2>3, <2>4 DEF Upsert
<1>5. ASSUME NEW write \in Statement, Known(write), Succeeds(write) \/ Abandons(write),
             write.do \in {"complete", "fail"}, UNCHANGED clock, ~InHand(w)',
             write.do = "complete" => /\ InHand(w) /\ work[w].quote = write.quote
                                      /\ Covered(write.pair, write.quote.at)
      PROVE  Stamped' /\ Advances
  <2>1. UNCHANGED quotes
    BY <1>5 DEF Succeeds, Abandons, Executes, tables, CompleteRequest, FailRequest, Settle
  <2>2. CASE Succeeds(write)
    <3>1. Executes(write) /\ late' = late
      BY <2>2 DEF Succeeds, Healthy
    <3>2. LateGrows /\ \A n \in DOMAIN late : Late(n)' => Late(n)
      BY <3>1 DEF LateGrows, Late
    <3> QED
      BY <1>1, <1>5, <2>1, <3>1, <3>2, StampsSettled, AdvancesFrame
  <2>3. CASE Abandons(write)
    BY <1>1, <1>5, <2>1, <2>3, StampsAbandoned, AdvancesFrame DEF Known
  <2> QED
    BY <1>5, <2>2, <2>3
<1>6. CASE Complete(w)
  <2> DEFINE write == CompleteOf(work[w].id, work[w].quote)
  <2>1. /\ work[w].at = "complete" /\ InHand(w) /\ UNCHANGED clock /\ WorkerIdle(w)
        /\ Succeeds(write) \/ Abandons(write)
    BY <1>6 DEF Complete, Finish, InHand
  <2>2. /\ work[w].id \in Rows /\ work[w].quote \in Quote
        /\ quotes[requests[work[w].id].pair] # NoQuote
        /\ Covered(requests[work[w].id].pair, work[w].quote.at)
    BY <1>1, <2>1, StampTypes DEF Stamped, Covered
  <2>3. /\ write \in Statement /\ Known(write) /\ write.do = "complete"
        /\ write.quote = work[w].quote /\ write.pair = requests[work[w].id].pair
    BY <1>1, <2>2, StatementTypes DEF CompleteOf, Known
  <2>4. ~InHand(w)'
    BY <1>1, <2>1, WorkerRests DEF InHand
  <2> QED
    BY <1>5, <2>1, <2>2, <2>3, <2>4
<1>7. CASE Fail(w)
  <2> DEFINE write == FailOf(work[w].id)
  <2>1. /\ work[w].at = "fail" /\ UNCHANGED clock /\ WorkerIdle(w)
        /\ Succeeds(write) \/ Abandons(write)
    BY <1>7 DEF Fail, Finish
  <2>2. work[w].id \in Rows
    BY <1>1, <2>1 DEF IInv, IdsKnown
  <2>3. write \in Statement /\ Known(write) /\ write.do = "fail"
    BY <1>1, <2>2, StatementTypes DEF FailOf, Known
  <2>4. ~InHand(w)'
    BY <1>1, <2>1, WorkerRests DEF InHand
  <2> QED
    BY <1>5, <2>1, <2>3, <2>4
<1> QED
  BY <1>2, <1>3, <1>4, <1>6, <1>7 DEF WorkerStep

(* A handler writes no stamp, in time or late. *)
LEMMA StampsHandler ==
  ASSUME OInv, OneWorker, NEW h \in Handlers, RepoStep(h)
  PROVE  Stamped' /\ Advances
<1> DEFINE p == post[h].pair
           k == post[h].key
<1>1. /\ IInv /\ clock \in Nat /\ StoreTypeOK
      /\ p \in Pairs /\ k \in Keys \cup {NoKey}
  BY StampTypes DEF OInv, IInv, TypeOK, PostTypeOK, Post
<1>2. CreateStep(h) /\ UNCHANGED <<work, clock>>
  BY DEF RepoStep, memory
<1>3. InsertOf(p, k) \in Statement /\ InsertOf(p, k).do = "insert" /\ Known(InsertOf(p, k))
  BY <1>1, StatementTypes DEF InsertOf, Known
<1>4. UNCHANGED quotes
  BY <1>2 DEF CreateStep, LookupKey, LookupPending, Insert, RetryPending, RetryKey, Select,
              InsertRequest, Abandons, store, tables
<1>5. \A w \in Workers : InHand(w)' => work'[w] = work[w]
  BY <1>2
<1>6. Advances
  BY <1>1, <1>4, AdvancesFrame
<1>7. CASE UNCHANGED <<requests, late>>
  BY <1>1, <1>2, <1>4, <1>5, <1>6, <1>7, StampsFrame
<1>8. CASE InsertRequest(p, k) /\ Healthy
  <2>1. Executes(InsertOf(p, k)) /\ LateGrows /\ late' = late
    BY <1>8 DEF Executes, InsertOf, LateGrows, Healthy
  <2>2. \A n \in DOMAIN late : Late(n)' => Late(n)
    BY <2>1 DEF Late
  <2> QED
    BY <1>2, <1>3, <1>5, <1>6, <2>1, <2>2, StampsSettled
<1>9. CASE Abandons(InsertOf(p, k))
  BY <1>2, <1>3, <1>5, <1>6, <1>9, StampsAbandoned
<1> QED
  BY <1>2, <1>7, <1>8, <1>9, <1>9
     DEF CreateStep, LookupKey, LookupPending, Insert, RetryPending, RetryKey, Select,
         Healthy, Faulty, store, tables

(* A late write carries an old stamp; only a late upsert sets a quote back. *)
LEMMA StampsLands ==
  ASSUME OInv, OneWorker, NEW n \in DOMAIN late, LateWriteLands(n)
  PROVE  Stamped' /\ Advances
<1> DEFINE s == late[n]
<1>1. /\ IInv /\ Stamped /\ clock \in Nat /\ StoreTypeOK
      /\ Lands(n) /\ Executes(s) /\ UNCHANGED <<work, clock>>
      /\ s \in Statement /\ Known(s) /\ ~s.done
  BY StampTypes DEF OInv, IInv, TypeOK, LateWriteLands, Lands, memory
<1>2. /\ DOMAIN late' = DOMAIN late
      /\ late'[n].done = TRUE /\ late'[n].do = s.do
      /\ late'[n].pair = s.pair /\ late'[n].quote = s.quote
      /\ \A m \in DOMAIN late :
           /\ m # n => late'[m] = late[m]
           /\ late'[m].do = late[m].do /\ late'[m].pair = late[m].pair
           /\ late'[m].quote = late[m].quote
  BY <1>1, LandFacts
<1>3. LateGrows /\ \A m \in DOMAIN late : Late(m)' => Late(m)
  BY <1>2 DEF LateGrows, Late
<1>4. \A w \in Workers : InHand(w)' => work'[w] = work[w]
  BY <1>1
<1>5. s.do \in {"upsert", "complete"} =>
        /\ s.quote \in Quote
        /\ \A t \in Nat : StampsUpTo(t) => s.quote.at <= t
  BY <1>1 DEF Known, StampsUpTo
<1>6. CASE s.do = "upsert"
  <2>1. s.pair \in Pairs /\ s.quote \in Quote /\ UpsertQuote(s.pair, s.quote)
    BY <1>1, <1>5, <1>6 DEF Executes, Statement
  <2>2. /\ quotes'[s.pair] = s.quote /\ s.quote # NoQuote
        /\ \A r \in Pairs \ {s.pair} : quotes'[r] = quotes[r]
    BY <1>1, <2>1, StampTypes DEF UpsertQuote, StoreTypeOK
  <2>3. Overwritten(s.pair)' /\ UpsertLands(s.pair)
    BY <1>1, <1>2, <1>6, <2>2 DEF Overwritten, UpsertLands
  <2>4. Stamped'
    <3>1. PICK p \in Pairs, q \in Quote : p = s.pair /\ q = s.quote
      BY <2>1
    <3>2. Overwritten(p)'
      BY <1>2, <1>6, <2>2, <3>1 DEF Overwritten
    <3>3. UpsertQuote(p, q) /\ \A t \in Nat : StampsUpTo(t) => q.at <= t
      BY <1>5, <1>6, <2>1, <3>1
    <3> QED
      BY <1>1, <1>2, <1>3, <1>4, <3>2, <3>3, StampsPublished
  <2>5. Advances
    BY <1>1, <2>2, <2>3, StampTypes DEF Advances
  <2> QED
    BY <2>4, <2>5
<1>7. CASE s.do # "upsert"
  <2>1. UNCHANGED quotes
    BY <1>1, <1>7 DEF Executes, tables, InsertRequest, CompleteRequest, FailRequest, Settle
  <2>2. s.do = "complete" => Covered(s.pair, s.quote.at)
    BY <1>1 DEF Stamped, Late
  <2>3. Stamped'
    BY <1>1, <1>2, <1>3, <1>4, <1>5, <1>7, <2>2, StampsSettled
  <2> QED
    BY <1>1, <2>1, <2>3, AdvancesFrame
<1> QED
  BY <1>6, <1>7

(* Every step under a steady clock keeps the stamps. *)
LEMMA StampsStep ==
  ASSUME OInv, OneWorker, Steady, [ServiceNext]_vars
  PROVE  Stamped' /\ Advances
<1>0. IInv /\ clock \in Nat /\ IInv'
  BY StampTypes, NextIInv DEF OInv
<1>1. CASE QuietStep
  <2>1. UNCHANGED <<requests, quotes, late>>
    BY <1>1, QuietFacts
  <2>2. clock' \in Nat /\ clock' >= clock
    <3>1. UNCHANGED clock \/ TimePasses
      BY <1>1, QuietFacts
    <3>2. clock' \in Nat
      BY <1>0, StoreAssumption DEF IInv, TypeOK, ProcessTypeOK
    <3> QED
      BY <1>0, <3>1, <3>2 DEF TimePasses
  <2>3. \A w \in Workers : InHand(w)' => work'[w] = work[w]
    BY <1>1, QuietFacts DEF InHand, IdleWork
  <2> QED
    BY <1>0, <2>1, <2>2, <2>3, StampsFrame, AdvancesFrame
<1> QED
  BY <1>1, StampsHandler, StampsWorker, StampsLands DEF ServiceNext, HandlerStep, QuietStep

LEMMA OInvariance == ASSUME OneWorker, Steady PROVE ServiceSpec => []OInv
<1>1. ServiceInit => Stamped
  BY DEF ServiceInit, CreateInit, StoreInit, IdleWork, Stamped, StampsUpTo, InHand, Rows
<1>2. OInv /\ [ServiceNext]_vars => OInv'
  BY StampsStep, NextIInv DEF OInv
<1> QED
  BY <1>1, <1>2, InitIInv, PTL DEF ServiceSpec, OInv

(* With one worker, and a wall clock that is never set back, the quote of  *)
(* a pair goes back only in a step in which an upsert that was given up    *)
(* lands late (service.go:226-240), whatever resync hands out twice and    *)
(* whenever calls fail or the process dies.                                *)
THEOREM QuoteNeverOlderAlways ==
  ASSUME OneWorker, Steady PROVE ServiceSpec => QuoteNeverOlder
<1>1. OInv /\ [ServiceNext]_vars
        => [\A p \in Pairs : quotes[p] # NoQuote
              => /\ quotes'[p] # NoQuote
                 /\ quotes'[p].at >= quotes[p].at \/ UpsertLands(p)]_quotes
  BY StampsStep DEF Advances
<1> QED
  BY <1>1, OInvariance, PTL DEF ServiceSpec, QuoteNeverOlder

(* Under the same two assumptions the quote is at least as new as every    *)
(* completed request of its pair, unless an upsert that was given up has   *)
(* landed over it (service.go:226-240).                                    *)
THEOREM QuoteCoversCompletedAlways ==
  ASSUME OneWorker, Steady PROVE ServiceSpec => []QuoteCoversCompleted
<1>1. OInv => QuoteCoversCompleted
  BY DEF OInv, Stamped, Covered, QuoteCoversCompleted
<1> QED
  BY <1>1, OInvariance, PTL

=============================================================================
