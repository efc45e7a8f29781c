---------------------------- MODULE RatesService ----------------------------
(***************************************************************************)
(* internal/service/service.go over the storage, in the life cycle that    *)
(* cmd/server/main.go gives it: the in-memory queue, the worker pool, the  *)
(* two resyncers (the one New runs itself and the ticker loop), the POST   *)
(* handlers of CreateRequest, graceful shutdown with the closing of the    *)
(* connection pool, and crash and restart with only the tables left.  One  *)
(* instance of the service runs at a time.                                 *)
(*                                                                         *)
(* The provider answers a call with some price or an error; the cache, the *)
(* fallback and the retries behind it have modules of their own.           *)
(***************************************************************************)
EXTENDS CreateRequest

CONSTANTS
  Workers,      \* opts.Workers goroutines
  QueueSize,    \* capacity of the channel
  Steady,       \* assumed or not: the wall clock is never set back, even between starts
  MaxStarts     \* bound: how often the process is started

Resyncers == {"boot", "loop"}

ASSUME ServiceAssumption ==
  /\ IsFiniteSet(Workers)
  /\ Handlers \cap Workers = {} /\ (Handlers \cup Workers) \cap Resyncers = {}
  /\ QueueSize \in Nat \ {0}      \* New raises smaller values to 1
  /\ Steady \in BOOLEAN
  /\ MaxStarts \in Nat \ {0}

VARIABLES
  phase,        \* where main is between start and exit
  expired,      \* the deadline of the shutdown context has passed
  starts,       \* how often the process was started
  acquired,     \* the goroutines whose connections pool.Close() waits for
  queue,        \* the channel: ids of requests
  closed,       \* the channel is closed
  work,         \* what each worker does
  resync,       \* what each resyncer does
  clock         \* time.Now()

lifecycle == <<phase, expired, starts>>
process == <<lifecycle, acquired>>
memory == <<queue, closed, work, resync>>
vars == <<createVars, process, memory, clock>>

Phases == {"down", "boot", "serving", "draining", "cancelled", "closing", "disconnecting"}

Work == [at : {"wait", "rate", "upsert", "complete", "fail", "exited"},
         id : Nat, quote : Quote \cup {NoQuote}]

Resync == [at : {"idle", "list", "enqueue", "exited"}, todo : SUBSET Nat]

IdleWork == [at |-> "wait", id |-> 0, quote |-> NoQuote]

ResyncAt(step) == [at |-> step, todo |-> {}]

ServiceInit ==
  /\ CreateInit
  /\ phase = "down" /\ expired = FALSE /\ starts = 0 /\ acquired = {}
  /\ queue = << >> /\ closed = FALSE
  /\ work = [w \in Workers |-> IdleWork]
  /\ resync = [r \in Resyncers |-> ResyncAt("exited")]
  /\ clock = 0

-----------------------------------------------------------------------------
(* The connection pool.  pool.Close() refuses new connections and waits    *)
(* for those in use; a goroutine of which Close waits has one statement.   *)

Statements == {"key", "pending", "insert", "retryPending", "retryKey"}

Writes == {"upsert", "complete", "fail"}

Querying ==
  {h \in Handlers : post[h].at \in Statements}
    \cup {w \in Workers : work[w].at \in Writes}
    \cup {r \in Resyncers : resync[r].at = "list"}

Connected(g) == phase # "disconnecting" \/ g \in acquired

(* The goroutine runs a statement and gives its connection back. *)
Queries(g) ==
  /\ Connected(g)
  /\ acquired' = acquired \ {g}
  /\ UNCHANGED lifecycle

-----------------------------------------------------------------------------
(* enqueue: a send that drops the request when the channel is full. *)

(* Mutant: enqueue ignores the capacity of the channel. *)
OfferUnbounded(i) == queue' = Append(queue, i)

Offer(i) == queue' = IF Len(queue) < QueueSize THEN Append(queue, i) ELSE queue

-----------------------------------------------------------------------------
(* The POST handlers.                                                      *)

(* While draining: on a connection accepted just before the signal. *)
ArriveServed(h) ==
  /\ phase \in {"serving", "draining"}
  /\ Arrive(h)
  /\ UNCHANGED <<process, memory, clock>>

RepoStep(h) == CreateStep(h) /\ Queries(h) /\ UNCHANGED <<memory, clock>>

(* The pool is closed: the statement fails before it reaches the database. *)
RepoRefused(h) ==
  /\ post[h].at \in Statements /\ ~Connected(h)
  /\ Goto(h, IF post[h].at = "retryPending" /\ Keyed(h) THEN "retryKey" ELSE "error")
  /\ UNCHANGED <<store, process, memory, clock>>

(* A created request is enqueued, then answered with 202. *)
EnqueueCreated(h) ==
  /\ post[h].at = "created" /\ ~closed
  /\ Offer(post[h].id)
  /\ post' = [post EXCEPT ![h] = IdlePost]
  /\ UNCHANGED <<store, process, closed, work, resync, clock>>

(* A send on a closed channel panics; withRecovery answers 500. *)
EnqueuePanics(h) ==
  /\ post[h].at = "created" /\ closed
  /\ Goto(h, "panicked")
  /\ UNCHANGED <<store, process, memory, clock>>

RespondOther(h) ==
  /\ post[h].at \in {"existing", "error", "panicked"}
  /\ post' = [post EXCEPT ![h] = IdlePost]
  /\ UNCHANGED <<store, process, memory, clock>>

(* The steps of a handler that wait for nobody. *)
OwnStep(h) == RepoRefused(h) \/ EnqueueCreated(h) \/ EnqueuePanics(h) \/ RespondOther(h)

HandlerStep(h) == RepoStep(h) \/ OwnStep(h)

-----------------------------------------------------------------------------
(* The workers: worker and process.                                        *)

WorkerGoes(w, step) == work' = [work EXCEPT ![w].at = step]

WorkerIdle(w) == work' = [work EXCEPT ![w] = IdleWork]

Take(w) ==
  /\ work[w].at = "wait" /\ queue # << >>
  /\ work' = [work EXCEPT ![w] = [at |-> "rate", id |-> Head(queue), quote |-> NoQuote]]
  /\ queue' = Tail(queue)
  /\ UNCHANGED <<createVars, process, closed, resync, clock>>

(* Mutant: a worker leaves as soon as the channel is closed. *)
WorkerLeavesAtClose(w) ==
  /\ work[w].at = "wait" /\ closed
  /\ WorkerGoes(w, "exited")
  /\ UNCHANGED <<createVars, process, queue, closed, resync, clock>>

(* The channel is closed and drained: range ends. *)
WorkerExits(w) ==
  /\ work[w].at = "wait" /\ closed /\ queue = << >>
  /\ WorkerGoes(w, "exited")
  /\ UNCHANGED <<createVars, process, queue, closed, resync, clock>>

(* Mutant: the quote is stamped with some earlier FetchedAt. *)
RateArrivesFetched(w) ==
  /\ work[w].at = "rate"
  /\ \E c \in Prices, t \in 0 .. clock :
       work' = [work EXCEPT ![w].at = "upsert", ![w].quote = [price |-> c, at |-> t]]
  /\ UNCHANGED <<createVars, process, queue, closed, resync, clock>>

(* provider.Rate returns a price, and now is read before the writes. *)
RateArrives(w) ==
  /\ work[w].at = "rate"
  /\ \E c \in Prices :
       work' = [work EXCEPT ![w].at = "upsert", ![w].quote = [price |-> c, at |-> clock]]
  /\ UNCHANGED <<createVars, process, queue, closed, resync, clock>>

RateFails(w) ==
  /\ work[w].at = "rate"
  /\ WorkerGoes(w, "fail")
  /\ UNCHANGED <<createVars, process, queue, closed, resync, clock>>

(* After a failed upsert the request is failed under the same 5s context,  *)
(* which may have expired: then FailUpdateRequest does nothing at all.     *)
Upsert(w) ==
  LET write == UpsertOf(requests[work[w].id].pair, work[w].quote)
  IN  /\ work[w].at = "upsert"
      /\ Queries(w)
      /\ \/ Succeeds(write) /\ WorkerGoes(w, "complete")
         \/ Abandons(write) /\ (WorkerGoes(w, "fail") \/ WorkerIdle(w))
      /\ UNCHANGED <<post, queue, closed, resync, clock>>

(* CompleteUpdateRequest and FailUpdateRequest: their errors are logged only. *)
Finish(w, step, write) ==
  /\ work[w].at = step
  /\ Queries(w)
  /\ Succeeds(write) \/ Abandons(write)
  /\ WorkerIdle(w)
  /\ UNCHANGED <<post, queue, closed, resync, clock>>

Complete(w) == Finish(w, "complete", CompleteOf(work[w].id, work[w].quote))

Fail(w) == Finish(w, "fail", FailOf(work[w].id))

(* The pool is closed: no write of the worker reaches the database. *)
WriteRefused(w) ==
  /\ work[w].at \in Writes /\ ~Connected(w)
  /\ WorkerIdle(w)
  /\ UNCHANGED <<createVars, process, queue, closed, resync, clock>>

WorkerStep(w) ==
  \/ Take(w) \/ WorkerExits(w) \/ RateArrives(w) \/ RateFails(w)
  \/ Upsert(w) \/ Complete(w) \/ Fail(w) \/ WriteRefused(w)

-----------------------------------------------------------------------------
(* resync and resyncLoop.                                                  *)

ResyncEnds(r) ==
  resync' = [resync EXCEPT ![r] = ResyncAt(IF r = "boot" THEN "exited" ELSE "idle")]

(* The ticker fires; select may prefer it to a cancelled context. *)
LoopTicks ==
  /\ resync["loop"].at = "idle"
  /\ resync' = [resync EXCEPT !["loop"] = ResyncAt("list")]
  /\ UNCHANGED <<createVars, process, queue, closed, work, clock>>

(* Mutant: the loop ends only once the channel is closed. *)
LoopExitsAtClose ==
  /\ resync["loop"].at = "idle" /\ closed
  /\ resync' = [resync EXCEPT !["loop"] = ResyncAt("exited")]
  /\ UNCHANGED <<createVars, process, queue, closed, work, clock>>

LoopExits ==
  /\ resync["loop"].at = "idle" /\ phase = "cancelled"
  /\ resync' = [resync EXCEPT !["loop"] = ResyncAt("exited")]
  /\ UNCHANGED <<createVars, process, queue, closed, work, clock>>

List(r) ==
  /\ resync[r].at = "list"
  /\ Queries(r)
  /\ \/ /\ resync' = [resync EXCEPT ![r] = [at |-> "enqueue", todo |-> ListPending]]
        /\ Healthy
     \/ ResyncEnds(r) /\ Faulty
  /\ UNCHANGED <<tables, post, queue, closed, work, clock>>

(* The pool is closed: nothing is listed. *)
ListRefused(r) ==
  /\ resync[r].at = "list" /\ ~Connected(r)
  /\ ResyncEnds(r)
  /\ UNCHANGED <<createVars, process, queue, closed, work, clock>>

(* The listed rows are offered oldest first; nothing re-reads their status. *)
EnqueueListed(r) ==
  /\ resync[r].at = "enqueue" /\ ~closed
  /\ \E i \in resync[r].todo :
       /\ \A j \in resync[r].todo : i <= j
       /\ Offer(i)
       /\ resync' = [resync EXCEPT ![r].todo = @ \ {i}]
  /\ UNCHANGED <<createVars, process, closed, work, clock>>

ResyncReturns(r) ==
  /\ resync[r].at = "enqueue" /\ resync[r].todo = {}
  /\ ResyncEnds(r)
  /\ UNCHANGED <<createVars, process, queue, closed, work, clock>>

ResyncStep(r) == List(r) \/ ListRefused(r) \/ EnqueueListed(r) \/ ResyncReturns(r)

-----------------------------------------------------------------------------
(* The process: New, main's shutdown sequence, crash.                      *)

(* run: connect, migrate, service.New starts the goroutines. *)
Start ==
  /\ phase = "down" /\ starts < MaxStarts
  /\ phase' = "boot" /\ starts' = starts + 1
  /\ resync' = [resync EXCEPT !["boot"] = ResyncAt("list"), !["loop"] = ResyncAt("idle")]
  /\ UNCHANGED <<createVars, expired, acquired, queue, closed, work, clock>>

(* New returns after its own resync; only then does main listen. *)
Listen ==
  /\ phase = "boot" /\ resync["boot"].at = "exited"
  /\ phase' = "serving"
  /\ UNCHANGED <<createVars, expired, starts, acquired, memory, clock>>

(* SIGTERM: srv.Shutdown stops accepting. *)
Signal ==
  /\ phase = "serving" /\ starts < MaxStarts
  /\ phase' = "draining"
  /\ UNCHANGED <<createVars, expired, starts, acquired, memory, clock>>

DeadlinePasses ==
  /\ phase \in {"draining", "cancelled", "closing"} /\ ~expired
  /\ expired' = TRUE
  /\ UNCHANGED <<createVars, phase, starts, acquired, memory, clock>>

(* srv.Shutdown returns when the handlers are done or the deadline passed. *)
CancelResync ==
  /\ phase = "draining"
  /\ Active = {} \/ expired
  /\ phase' = "cancelled"
  /\ UNCHANGED <<createVars, expired, starts, acquired, memory, clock>>

(* Mutant: Shutdown closes the channel without waiting for the resync loop. *)
CloseWithoutWaiting ==
  /\ phase = "cancelled"
  /\ phase' = "closing" /\ closed' = TRUE
  /\ UNCHANGED <<createVars, expired, starts, acquired, queue, work, resync, clock>>

CloseQueue ==
  /\ phase = "cancelled" /\ resync["loop"].at = "exited"
  /\ phase' = "closing" /\ closed' = TRUE
  /\ UNCHANGED <<createVars, expired, starts, acquired, queue, work, resync, clock>>

(* run returns: the deferred pool.Close(). *)
ClosesPool ==
  /\ phase' = "disconnecting"
  /\ acquired' \in SUBSET Querying
  /\ UNCHANGED <<createVars, expired, starts, memory, clock>>

WorkersDone == \A w \in Workers : work[w].at = "exited"

(* svc.Shutdown returns when the workers are done or the deadline passed. *)
ShutdownReturns ==
  /\ phase = "closing"
  /\ WorkersDone \/ expired
  /\ ClosesPool

(* ListenAndServe returns an error: run returns without any Shutdown. *)
ListenFails ==
  /\ phase = "serving" /\ starts < MaxStarts
  /\ ClosesPool

(* The process ends; only the database and the clock survive. *)
Dies ==
  /\ phase' = "down" /\ expired' = FALSE /\ acquired' = {}
  /\ post' = [h \in Handlers |-> IdlePost]
  /\ queue' = << >> /\ closed' = FALSE
  /\ work' = [w \in Workers |-> IdleWork]
  /\ resync' = [r \in Resyncers |-> ResyncAt("exited")]
  /\ UNCHANGED <<store, starts, clock>>

(* pool.Close() returns once every connection was given back. *)
Exit ==
  /\ phase = "disconnecting" /\ acquired = {}
  /\ Dies

(* A call in flight is orphaned: the same as given up right before. *)
Crash ==
  /\ phase # "down" /\ starts < MaxStarts
  /\ Dies

(* The wall clock, which may also be set back unless it is Steady. *)
TimePasses ==
  /\ clock' \in (0 .. MaxClock) \ {clock}
  /\ Steady => clock' > clock
  /\ UNCHANGED <<createVars, process, memory>>

LateWriteLands(n) == Lands(n) /\ UNCHANGED <<post, process, memory, clock>>

-----------------------------------------------------------------------------

ServiceNext ==
  \/ \E h \in Handlers : ArriveServed(h) \/ HandlerStep(h)
  \/ \E w \in Workers : WorkerStep(w)
  \/ \E r \in Resyncers : ResyncStep(r)
  \/ LoopTicks \/ LoopExits
  \/ Start \/ Listen \/ Signal \/ DeadlinePasses \/ CancelResync \/ CloseQueue
  \/ ShutdownReturns \/ ListenFails \/ Exit \/ Crash \/ TimePasses
  \/ \E n \in DOMAIN late : LateWriteLands(n)

ServiceSpec == ServiceInit /\ [][ServiceNext]_vars

(* The Go scheduler runs every goroutine; the calls of workers and resync  *)
(* to the provider and the database end, for they have timeouts; the       *)
(* ticker keeps ticking, a stopped process is started again, deadlines     *)
(* pass.  A statement of a HANDLER runs under r.Context() and may never    *)
(* end, so only a handler's own steps are fair.  Nothing obliges a client  *)
(* to call, a signal, a crash or a late write to come.  When the ticker    *)
(* and the cancelled context are both ready select picks at random, hence  *)
(* strong fairness there.                                                  *)
ServiceFairness ==
  /\ \A h \in Handlers : WF_vars(OwnStep(h))
  /\ \A w \in Workers : WF_vars(WorkerStep(w))
  /\ \A r \in Resyncers : WF_vars(ResyncStep(r))
  /\ WF_vars(LoopTicks) /\ SF_vars(LoopExits)
  /\ WF_vars(Start) /\ WF_vars(Listen) /\ WF_vars(DeadlinePasses)
  /\ WF_vars(CancelResync) /\ WF_vars(CloseQueue) /\ WF_vars(ShutdownReturns) /\ WF_vars(Exit)

FairServiceSpec == ServiceSpec /\ ServiceFairness

-----------------------------------------------------------------------------
(* Every variable has its type, and the channel respects its capacity. *)
ProcessTypeOK ==
  /\ phase \in Phases /\ starts \in 0 .. MaxStarts /\ clock \in 0 .. MaxClock
  /\ expired \in BOOLEAN /\ closed \in BOOLEAN
  /\ acquired \subseteq Handlers \cup Workers \cup Resyncers

MemoryTypeOK ==
  /\ queue \in Seq(Nat) /\ Len(queue) <= QueueSize
  /\ work \in [Workers -> Work]
  /\ resync \in [Resyncers -> Resync]

TypeOK == StoreTypeOK /\ PostTypeOK /\ ProcessTypeOK /\ MemoryTypeOK

(* The service implements the ledger: no two open requests of a pair, no   *)
(* key stored twice, a request settled once, completed only with a quote   *)
(* published, whatever crashes, resyncs and shutdowns do in between.       *)
Ledger == INSTANCE UpdateLedger WITH Quotes <- Quote

ImplementsLedger == Ledger!LedgerSpec

(* A settled request never changes again, although resync hands the same   *)
(* request to several workers (storage.go:126-155, WHERE status='pending').*)
SettledIsFinal ==
  [][\A i \in Rows : ~Pending(i) => i \in Rows' /\ requests'[i] = requests[i]]_requests

(* A GET that sees a completed request finds a quote for its pair          *)
(* (service.go:229-240, the upsert comes before the status).               *)
CompletedHasQuote ==
  \A i \in Rows : requests[i].status = "completed" => quotes[requests[i].pair] # NoQuote

(* resync never sends on the closed channel (service.go:159).              *)
ResyncNeverPanics ==
  \A r \in Resyncers : resync[r].at \in {"list", "enqueue"} => ~closed

(* A worker leaves only when nothing accepted is left behind, so a         *)
(* shutdown inside its deadline has run every queued request               *)
(* (service.go:154-155).                                                   *)
DrainedBeforeExit ==
  \A w \in Workers : work[w].at = "exited" => queue = << >>

(* In this step an upsert of p that its worker gave up lands. *)
UpsertLands(p) ==
  \E n \in DOMAIN late :
    /\ late[n].do = "upsert" /\ late[n].pair = p
    /\ ~late[n].done /\ late'[n].done

(* The quote of p is one that a given up upsert left behind. *)
Overwritten(p) ==
  \E n \in DOMAIN late :
    /\ late[n].do = "upsert" /\ late[n].pair = p /\ late[n].done
    /\ quotes[p] = late[n].quote

(* The quote of a pair goes back in time only in the very step in which an *)
(* upsert given up earlier lands (service.go:226-240, storage.go:158-163   *)
(* has no guard); it is never withdrawn.                                   *)
QuoteNeverOlder ==
  [][\A p \in Pairs : quotes[p] # NoQuote
       => /\ quotes'[p] # NoQuote
          /\ quotes'[p].at >= quotes[p].at \/ UpsertLands(p)]_quotes

(* The quote a client reads is at least as new as every completed request  *)
(* of the pair it has seen, unless an upsert given up earlier has landed   *)
(* over it and nothing was published since.                                *)
QuoteCoversCompleted ==
  \A i \in Rows : requests[i].status = "completed"
    => LET p == requests[i].pair
       IN  /\ quotes[p] # NoQuote
           /\ quotes[p].at >= requests[i].result.at \/ Overwritten(p)

(* service.go:154-159: Shutdown takes no new tasks and avoids the race with *)
(* close(s.queue): no handler sends on the closed channel.                 *)
NoEnqueueAfterClose == \A h \in Handlers : post[h].at # "panicked"

(* pool.Close() waits for a statement of a handler, which has no deadline. *)
Hung == phase = "disconnecting" /\ acquired \cap Handlers # {}

(* Every request is settled in the end, unless the process hangs in        *)
(* pool.Close() for ever: a full queue, a crash, a failed call only delay  *)
(* it (README.md:17-18, service.go:190-191).                               *)
EventuallySettled ==
  []<>~Hung =>
    \A i \in 1 .. MaxRequests + MaxFaults :
      (i \in Rows /\ Pending(i)) ~> (i \in Rows /\ ~Pending(i))

(* A shutdown that begins comes to an end (service.go:156-173), unless a   *)
(* handler's statement never ends (main.go:55): what Shutdown waits for is *)
(* bounded by its deadline, and neither a worker it cut off nor a resync   *)
(* can hold the process up.                                                *)
ShutdownEnds == []<>~Hung => (phase = "draining" ~> phase = "down")

-----------------------------------------------------------------------------
(* The inductive invariant behind the theorems of RatesService_proofs.     *)

(* Every id held in memory is the id of a row. *)
IdsKnown ==
  /\ \A n \in 1 .. Len(queue) : queue[n] \in Rows
  /\ \A w \in Workers : work[w].at \notin {"wait", "exited"} => work[w].id \in Rows
  /\ \A r \in Resyncers : resync[r].todo \subseteq Rows
  /\ \A h \in Handlers : post[h].at = "created" => post[h].id \in Rows

(* A statement names a row, carries a quote, completes behind a quote. *)
Known(s) ==
  /\ s.do \in {"complete", "fail"} => s.id \in Rows /\ s.pair = requests[s.id].pair
  /\ s.do \in {"upsert", "complete"} => s.quote \in Quote
  /\ s.do = "complete" => quotes[s.pair] # NoQuote

(* So does every write that was given up. *)
LateKnown == \A n \in DOMAIN late : Known(late[n])

(* A worker that is about to complete a request has published its quote. *)
PublishedFirst ==
  \A w \in Workers :
    /\ work[w].at \in {"upsert", "complete"} => work[w].quote \in Quote
    /\ work[w].at = "complete" => quotes[requests[work[w].id].pair] # NoQuote

(* Who can still run while the channel is closed, and while New is over. *)
LifeCycle ==
  /\ resync["boot"].at # "exited" => phase = "boot"
  /\ closed => /\ phase \in {"closing", "disconnecting"}
               /\ \A r \in Resyncers : resync[r].at = "exited"
  /\ \A w \in Workers : work[w].at = "exited" => closed

IInv ==
  /\ TypeOK /\ IdsKnown /\ LateKnown /\ PublishedFirst /\ LifeCycle
  /\ CompletedHasQuote /\ DrainedBeforeExit

=============================================================================
