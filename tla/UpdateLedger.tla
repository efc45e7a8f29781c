---------------------------- MODULE UpdateLedger ----------------------------
(***************************************************************************)
(* What the service promises about its two tables, without queue, workers, *)
(* handlers, crashes or shutdown: a request is created only when neither   *)
(* its pair nor its key has one in the way, a quote is published, and a    *)
(* pending request is settled once, as completed only when its pair has a  *)
(* published quote.                                                        *)
(***************************************************************************)
EXTENDS Integers, Sequences

CONSTANTS
  Pairs, Keys, NoKey,
  Quotes,       \* the prices with the time they were taken
  NoQuote

VARIABLES requests, quotes

ledger == <<requests, quotes>>

Open(i) == requests[i].status = "pending"

LedgerInit ==
  /\ requests = << >>
  /\ quotes = [p \in Pairs |-> NoQuote]

Create(p, k) ==
  /\ \A i \in DOMAIN requests : requests[i].pair = p => ~Open(i)
  /\ k # NoKey => \A i \in DOMAIN requests : requests[i].key # k
  /\ requests' = Append(requests,
                   [pair |-> p, key |-> k, status |-> "pending", result |-> NoQuote])
  /\ UNCHANGED quotes

Publish(p, q) ==
  /\ quotes' = [quotes EXCEPT ![p] = q]
  /\ UNCHANGED requests

Complete(i, q) ==
  /\ Open(i)
  /\ quotes[requests[i].pair] # NoQuote
  /\ requests' = [requests EXCEPT ![i].status = "completed", ![i].result = q]
  /\ UNCHANGED quotes

Fail(i) ==
  /\ Open(i)
  /\ requests' = [requests EXCEPT ![i].status = "failed", ![i].result = NoQuote]
  /\ UNCHANGED quotes

LedgerNext ==
  \/ \E p \in Pairs, k \in Keys \cup {NoKey} : Create(p, k)
  \/ \E p \in Pairs, q \in Quotes : Publish(p, q)
  \/ \E i \in DOMAIN requests : Fail(i) \/ \E q \in Quotes : Complete(i, q)

LedgerSpec == LedgerInit /\ [][LedgerNext]_ledger

-----------------------------------------------------------------------------
(* What the ledger adds up to: at most one request of a pair is open, and  *)
(* a key names at most one request, however many are created and settled   *)
(* (0001_init.sql:16-23).                                                  *)
OneOpenPerPair ==
  \A i, j \in DOMAIN requests :
    Open(i) /\ Open(j) /\ requests[i].pair = requests[j].pair => i = j

OneRowPerKey ==
  \A i, j \in DOMAIN requests :
    requests[i].key # NoKey /\ requests[i].key = requests[j].key => i = j

=============================================================================
