--------------------------- MODULE ServicePromises ---------------------------
(***************************************************************************)
(* The promises of Idempotency in the whole service: its handlers run      *)
(* between real workers, resyncs, a shutdown and crashes instead of an     *)
(* environment that settles rows.  The service is RatesService; the two    *)
(* history variables watch it and restrict none of its steps.              *)
(***************************************************************************)
EXTENDS RatesService, Idempotency

(* A call begins: the handler leaves idle. *)
Begins(h) == post[h].at = "idle" /\ post'[h].at # "idle"

(* An answer is given: the id reaches the handler. *)
Gives(h) == ~GivenId(h) /\ GivenId(h)'

Watch ==
  /\ atArrival' = [h \in Handlers |->
       IF post'[h].at = "idle" THEN NoSnapshot
       ELSE IF Begins(h) THEN Snapshot(post'[h].key) ELSE atArrival[h]]
  /\ answeredIds' = [k \in Keys |->
       answeredIds[k] \cup {post'[h].id : h \in {g \in Handlers : Gives(g) /\ post[g].key = k}}]

WatchedInit ==
  /\ ServiceInit
  /\ atArrival = [h \in Handlers |-> NoSnapshot]
  /\ answeredIds = [k \in Keys |-> {}]

WatchedNext == ServiceNext /\ Watch

WatchedSpec == WatchedInit /\ [][WatchedNext]_<<vars, history>>

=============================================================================
