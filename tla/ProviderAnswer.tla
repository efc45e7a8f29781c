---------------------------- MODULE ProviderAnswer ----------------------------
(***************************************************************************)
(* What one call of an exchange-rate API comes to: internal/rates and its  *)
(* two providers, as pure operators.  A rate is a fraction <<n, d>> of two *)
(* integers; the reference rates of the day are one table, and whichever   *)
(* currency an honest reply is based on, its rates are quotients of it.    *)
(***************************************************************************)
EXTENDS Integers

CONSTANTS
  Currencies,
  Worth,         \* the reference rates: what each currency is worth in a common one
  Anchor,        \* anchorCurrency of exchangeratesapi
  Waits,         \* what Retry-After may ask for, in seconds
  Half           \* time.Duration is an integer in -Half .. Half - 1

(* 2^n.  An integer of a given number of bits has a power of two for Half. *)
Pow2[n \in Nat] == IF n = 0 THEN 1 ELSE 2 * Pow2[n - 1]

ASSUME AnswerAssumption ==
  /\ Worth \in [Currencies -> Nat \ {0}] /\ Anchor \in Currencies
  /\ Waits \subseteq Nat
  /\ Half \in Nat \ {0} /\ \E bits \in 0 .. Half : Half = Pow2[bits]

Pairs == {p \in Currencies \X Currencies : p[1] # p[2]}

(* Signed integer arithmetic wraps. *)
Wrap(x) == ((x + Half) % (2 * Half)) - Half

Sooner(a, b) == IF a <= b THEN a ELSE b

-----------------------------------------------------------------------------
(* Replies.                                                                *)

(* The rates against one currency; one unit buys Worth/Worth of the other. *)
Table(anchor, listed) == [c \in listed |-> <<Worth[anchor], Worth[c]>>]

(* Honest: the base is named, or it is the one asked for; zero rates and   *)
(* missing ones happen.                                                    *)
Bodies(asked) ==
  LET Honest(named, base, listed) ==
        [parses |-> TRUE, error |-> FALSE, success |-> TRUE, named |-> named, base |-> base,
         rates |-> Table(base, listed)]
      all == Honest(TRUE, asked, Currencies)
  IN  {Honest(TRUE, b, S) : b \in Currencies, S \in SUBSET Currencies}
        \cup {Honest(FALSE, asked, S) : S \in SUBSET Currencies}
        \cup {[all EXCEPT !.parses = FALSE], [all EXCEPT !.error = TRUE],
              [all EXCEPT !.success = FALSE],
              [all EXCEPT !.rates = [c \in Currencies |-> <<0, 1>>]]}

Headers == [form : {"seconds", "date", "absent"}, wait : Waits]

(* The client has no answer, a status with its header, or a body. *)
Statuses == {400, 401, 403, 404, 429, 500, 503}

-----------------------------------------------------------------------------
(* The product of the seconds wraps, the difference of two times saturates. *)
RetryAfterFromHeader(header) ==
  CASE header.form = "absent" -> 0
    [] header.form = "seconds" -> Wrap(header.wait)
    [] header.form = "date" -> Sooner(header.wait, Half - 1)

(* Only a positive duration counts. *)
RetryAfterFrom(duration) == IF duration > 0 THEN duration ELSE 0

(* How long a header asks to wait. *)
AskedFor(header) == IF header.form = "absent" THEN 0 ELSE header.wait

(* A number of seconds that is a Duration, so that the product does not wrap. *)
FitsDuration(header) == header.form = "seconds" => header.wait < Half

TransientStatus(code) == code = 429 \/ code = 403 \/ code >= 500

Failure == [kind |-> "permanent"]

Transient(header) == [kind |-> "transient", header |-> header]

NoHeader == [form |-> "absent", wait |-> 0]

(* Mutant: the quotient is inverted. *)
InversePrice(base, quote) == <<base[1] * quote[2], base[2] * quote[1]>>

Quotient(base, quote) == <<quote[1] * base[2], quote[2] * base[1]>>

(* The anchor is 1 in its own table, whatever the table says of it. *)
CrossPrice(anchors, table, pair) ==
  LET m == [c \in anchors \cup DOMAIN table |-> IF c \in anchors THEN <<1, 1>> ELSE table[c]]
  IN  IF /\ pair[1] \in DOMAIN m /\ pair[2] \in DOMAIN m
         /\ m[pair[1]][1] > 0 /\ m[pair[2]][1] > 0
        THEN [kind |-> "rate", price |-> Quotient(m[pair[1]], m[pair[2]])]
        ELSE Failure

(* frankfurter is asked with the base of the pair, and takes it for the    *)
(* base of an answer that names none.                                      *)
FrankfurterBody(body, pair) ==
  IF body.rates = << >> THEN Failure
  ELSE CrossPrice({IF body.named THEN body.base ELSE pair[1]}, body.rates, pair)

ExchangeRatesBody(body, pair) ==
  IF body.error \/ (~body.success /\ body.rates = << >>) THEN Failure
  ELSE CrossPrice(IF body.named THEN {body.base} ELSE {}, body.rates, pair)

AskedBase(api, pair) == IF api = "frankfurter" THEN pair[1] ELSE Anchor

BodyAnswer(api, body, pair) ==
  IF ~body.parses THEN Failure
  ELSE IF api = "frankfurter" THEN FrankfurterBody(body, pair) ELSE ExchangeRatesBody(body, pair)

StatusAnswer(code, header) == IF TransientStatus(code) THEN Transient(header) ELSE Failure

(* Everything Rate may return to the layer above, with the pair it was for. *)
Answers(api) ==
  {[pair |-> p, answer |-> a] : p \in Pairs,
     a \in {Transient(NoHeader)} \cup {StatusAnswer(s, h) : s \in Statuses, h \in Headers}}
  \cup UNION {{[pair |-> p, answer |-> BodyAnswer(api, b, p)] : b \in Bodies(AskedBase(api, p))}
              : p \in Pairs}

(* BASE/QUOTE is what one BASE costs in QUOTE. *)
RightPrice(price, pair) == price[1] * Worth[pair[2]] = price[2] * Worth[pair[1]]

=============================================================================
