------------------------- MODULE ProviderChain_proofs -------------------------
(***************************************************************************)
(* Proofs about ProviderChain, for any number of callers, any currencies   *)
(* and reference rates, and every setting of attempts, delays, interval    *)
(* and deadline.                                                           *)
(***************************************************************************)
EXTENDS ProviderChain, FiniteInduction

-----------------------------------------------------------------------------
(* Arithmetic.                                                             *)

LEMMA WrapInt == ASSUME NEW x \in Int PROVE Wrap(x) \in Int
BY AnswerAssumption DEF Wrap

LEMMA WrapSmall == ASSUME NEW x \in Nat, x < Half PROVE Wrap(x) = x
<1> DEFINE h == 2 * Half
<1>1. h \in Nat \ {0} /\ x + Half \in 0 .. h - 1
  BY AnswerAssumption
<1>2. \A m \in Nat \ {0} : \A y \in 0 .. m - 1 : y % m = y
  OBVIOUS
<1>3. (x + Half) % h = x + Half
  <2> HIDE DEF h
  <2> QED
    BY <1>1, <1>2
<1> QED
  BY <1>3, AnswerAssumption DEF Wrap

(* A quotient is at least k when k times the divisor fits. *)
LEMMA DivAtLeast ==
  ASSUME NEW m \in Nat \ {0}, NEW t \in Nat, NEW k \in Nat, k * m <= t
  PROVE  k <= t \div m
OBVIOUS

-----------------------------------------------------------------------------
(* Powers of two. *)

(* f computes the powers of two up to 2^m. *)
PowersTo(f, m) ==
  /\ f \in [0 .. m -> Nat]
  /\ \A i \in 0 .. m : f[i] = IF i = 0 THEN 1 ELSE 2 * f[i - 1]

LEMMA PowersExist == \A m \in Nat : \E f : PowersTo(f, m)
<1> DEFINE T == {m \in Nat : ~ \E f : PowersTo(f, m)}
<1> SUFFICES ASSUME T # {} PROVE FALSE
  OBVIOUS
<1>1. PICK m \in T : \A k \in T : m <= k
  <2>1. T \in SUBSET Nat
    OBVIOUS
  <2> HIDE DEF T
  <2> QED
    BY <2>1, LeastNatural
<1>2. CASE m = 0
  <2>1. PowersTo([i \in 0 .. 0 |-> 1], 0)
    BY DEF PowersTo
  <2> QED
    BY <1>2, <2>1
<1>3. CASE m # 0
  <2>1. m - 1 \in Nat /\ m - 1 \notin T
    BY <1>1, <1>3
  <2>2. PICK f : PowersTo(f, m - 1)
    BY <2>1
  <2> DEFINE g == [i \in 0 .. m |-> IF i = m THEN 2 * f[m - 1] ELSE f[i]]
  <2>3. f \in [0 .. m - 1 -> Nat] /\ m \in Nat
    BY <2>2 DEF PowersTo
  <2>4. g \in [0 .. m -> Nat]
    BY <2>1, <2>3, <1>3
  <2>5. ASSUME NEW i \in 0 .. m
        PROVE  g[i] = IF i = 0 THEN 1 ELSE 2 * g[i - 1]
    BY <1>3, <2>2, <2>3 DEF PowersTo
  <2>6. PowersTo(g, m)
    BY <2>4, <2>5 DEF PowersTo
  <2> QED
    BY <2>6
<1> QED
  BY <1>2, <1>3

LEMMA PowersAgree ==
  ASSUME NEW f, NEW m \in Nat, PowersTo(f, m), NEW g, NEW n \in Nat, PowersTo(g, n),
         NEW i \in Nat, i <= m, i <= n
  PROVE  f[i] = g[i]
<1> DEFINE T == {j \in Nat : j <= m /\ j <= n /\ f[j] # g[j]}
<1> SUFFICES ASSUME T # {} PROVE FALSE
  OBVIOUS
<1>1. PICK j \in T : \A k \in T : j <= k
  <2>1. T \in SUBSET Nat
    OBVIOUS
  <2> HIDE DEF T
  <2> QED
    BY <2>1, LeastNatural
<1>2. j \in 0 .. m /\ j \in 0 .. n /\ f[j] # g[j]
  OBVIOUS
<1>3. CASE j = 0
  BY <1>2, <1>3 DEF PowersTo
<1>4. CASE j # 0
  <2>1. j - 1 \in Nat /\ j - 1 \notin T
    BY <1>1, <1>4
  <2>2. f[j - 1] = g[j - 1]
    BY <1>2, <2>1
  <2> QED
    BY <1>2, <1>4, <2>2 DEF PowersTo
<1> QED
  BY <1>3, <1>4

(* The recursive definition of Pow2 defines a function. *)
LEMMA Pow2Def ==
  /\ Pow2 \in [Nat -> Nat]
  /\ Pow2[0] = 1
  /\ \A n \in Nat : Pow2[n + 1] = 2 * Pow2[n]
<1> DEFINE P(m) == CHOOSE f : PowersTo(f, m)
           G == [n \in Nat |-> P(n)[n]]
<1>1. \A m \in Nat : PowersTo(P(m), m)
  BY PowersExist
<1>2. \A n \in Nat : G[n] \in Nat /\ G[n] = IF n = 0 THEN 1 ELSE 2 * G[n - 1]
  <2> SUFFICES ASSUME NEW n \in Nat
               PROVE  G[n] \in Nat /\ G[n] = IF n = 0 THEN 1 ELSE 2 * G[n - 1]
    OBVIOUS
  <2>1. P(n)[n] \in Nat /\ P(n)[n] = IF n = 0 THEN 1 ELSE 2 * P(n)[n - 1]
    <3>1. PowersTo(P(n), n)
      BY <1>1
    <3> HIDE DEF P
    <3> QED
      BY <3>1 DEF PowersTo
  <2>2. CASE n # 0
    <3>1. n - 1 \in Nat /\ PowersTo(P(n - 1), n - 1) /\ PowersTo(P(n), n)
      BY <1>1, <2>2
    <3>2. P(n)[n - 1] = P(n - 1)[n - 1]
      <4> HIDE DEF P
      <4> QED
        BY <3>1, PowersAgree
    <3> HIDE DEF P
    <3> QED
      BY <2>1, <2>2, <3>1, <3>2
  <2> HIDE DEF P
  <2>3. CASE n = 0
    BY <2>1, <2>3
  <2> QED
    BY <2>2, <2>3
<1> HIDE DEF P
<1>3. G = [n \in Nat |-> IF n = 0 THEN 1 ELSE 2 * G[n - 1]]
  BY <1>2
<1> HIDE DEF G
<1>4. Pow2 = [n \in Nat |-> IF n = 0 THEN 1 ELSE 2 * Pow2[n - 1]]
  BY <1>3 DEF Pow2
<1>5. \A n \in Nat : Pow2[n] = IF n = 0 THEN 1 ELSE 2 * Pow2[n - 1]
  BY <1>4
<1>6. \A n \in Nat : Pow2[n] \in Nat
  <2> DEFINE T == {n \in Nat : Pow2[n] \notin Nat}
  <2> SUFFICES ASSUME T # {} PROVE FALSE
    OBVIOUS
  <2>1. PICK n \in T : \A k \in T : n <= k
    <3>1. T \in SUBSET Nat
      OBVIOUS
    <3> HIDE DEF T
    <3> QED
      BY <3>1, LeastNatural
  <2>2. CASE n = 0
    BY <1>5, <2>2
  <2>3. CASE n # 0
    <3>1. n - 1 \in Nat /\ n - 1 \notin T
      BY <2>1, <2>3
    <3>2. Pow2[n - 1] \in Nat
      BY <3>1
    <3>3. Pow2[n] = 2 * Pow2[n - 1]
      BY <1>5, <2>3
    <3> QED
      BY <3>2, <3>3
  <2> QED
    BY <2>2, <2>3
<1>7. \A n \in Nat : Pow2[n + 1] = 2 * Pow2[n]
  <2> SUFFICES ASSUME NEW n \in Nat PROVE Pow2[n + 1] = 2 * Pow2[n]
    OBVIOUS
  <2>1. n + 1 \in Nat /\ n + 1 # 0 /\ (n + 1) - 1 = n
    OBVIOUS
  <2> QED
    BY <1>5, <2>1
<1> QED
  BY <1>4, <1>5, <1>6, <1>7

LEMMA Pow2Positive == \A n \in Nat : Pow2[n] \in Nat \ {0}
<1> DEFINE T == {n \in Nat : Pow2[n] = 0}
<1> SUFFICES ASSUME T # {} PROVE FALSE
  BY Pow2Def
<1>1. PICK n \in T : \A k \in T : n <= k
  <2>1. T \in SUBSET Nat
    OBVIOUS
  <2> HIDE DEF T
  <2> QED
    BY <2>1, LeastNatural
<1>2. n # 0 /\ n - 1 \in Nat /\ n - 1 \notin T
  BY <1>1, Pow2Def
<1>3. Pow2[n - 1] \in Nat /\ Pow2[n - 1] # 0 /\ Pow2[(n - 1) + 1] = 2 * Pow2[n - 1]
  BY <1>2, Pow2Def
<1> QED
  BY <1>2, <1>3

(* A power of two divides every higher one. *)
LEMMA Pow2Divides ==
  ASSUME NEW m \in Nat, NEW n \in Nat, m <= n
  PROVE  \E r \in Int : Pow2[n] = Pow2[m] * r
<1> DEFINE T == {k \in Nat : m <= k /\ ~ \E r \in Int : Pow2[k] = Pow2[m] * r}
<1> SUFFICES ASSUME T # {} PROVE FALSE
  OBVIOUS
<1>1. PICK k \in T : \A j \in T : k <= j
  <2>1. T \in SUBSET Nat
    OBVIOUS
  <2> HIDE DEF T
  <2> QED
    BY <2>1, LeastNatural
<1>2. \A r \in Int : Pow2[k] # Pow2[m] * r
  OBVIOUS
<1>3. CASE k = m
  <2>1. Pow2[m] \in Nat
    BY Pow2Def
  <2>2. Pow2[m] = Pow2[m] * 1
    BY <2>1
  <2> QED
    BY <1>2, <1>3, <2>2
<1>4. CASE k # m
  <2>1. k - 1 \in Nat /\ m <= k - 1 /\ k - 1 \notin T
    BY <1>1, <1>4
  <2>2. PICK r \in Int : Pow2[k - 1] = Pow2[m] * r
    BY <2>1
  <2>3. Pow2[k] = 2 * Pow2[k - 1] /\ Pow2[m] \in Nat
    <3>1. Pow2[(k - 1) + 1] = 2 * Pow2[k - 1]
      BY <2>1, Pow2Def
    <3>2. (k - 1) + 1 = k
      OBVIOUS
    <3> QED
      BY <3>1, <3>2, Pow2Def
  <2>4. 2 * (Pow2[m] * r) = Pow2[m] * (2 * r)
    BY <2>3
  <2> QED
    BY <1>2, <2>2, <2>3, <2>4
<1> QED
  BY <1>3, <1>4

(* Wrapping subtracts a multiple of the width, and Half is a power of two. *)
LEMMA WrapSubtracts ==
  ASSUME NEW x \in Int PROVE \E q \in Int : Wrap(x) = x - q * (2 * Half)
<1> DEFINE w == 2 * Half
           q == (x + Half) \div w
<1>1. w \in Nat \ {0} /\ x + Half \in Int /\ Half \in Int
  BY AnswerAssumption
<1>2. \A y \in Int : \A h \in Nat \ {0} : y = h * (y \div h) + (y % h) /\ y \div h \in Int
  OBVIOUS
<1>3. q \in Int /\ x + Half = w * q + ((x + Half) % w)
  BY <1>1, <1>2
<1>4. Wrap(x) = ((x + Half) % w) - Half
  BY DEF Wrap
<1>5. (x + Half) % w \in Int
  BY <1>1
<1> HIDE DEF q, w
<1>6. Wrap(x) = x - q * w
  BY <1>1, <1>3, <1>4, <1>5
<1> QED
  BY <1>3, <1>6 DEF w

-----------------------------------------------------------------------------
(* The answers of an API.                                                  *)

LEMMA CrossPriceKinds ==
  ASSUME NEW anchors, NEW table, NEW pair
  PROVE  CrossPrice(anchors, table, pair).kind \in {"rate", "permanent"}
BY DEF CrossPrice, Failure

(* A body is a price or a permanent error. *)
LEMMA BodyAnswerKinds ==
  ASSUME NEW api, NEW body, NEW pair
  PROVE  BodyAnswer(api, body, pair).kind \in {"rate", "permanent"}
<1>1. Failure.kind = "permanent"
  BY DEF Failure
<1>2. FrankfurterBody(body, pair).kind \in {"rate", "permanent"}
  BY <1>1, CrossPriceKinds DEF FrankfurterBody
<1>3. ExchangeRatesBody(body, pair).kind \in {"rate", "permanent"}
  BY <1>1, CrossPriceKinds DEF ExchangeRatesBody
<1> QED
  BY <1>1, <1>2, <1>3 DEF BodyAnswer

(* A transient error carries a header, or none was read. *)
LEMMA TransientHeader ==
  ASSUME NEW api, NEW a \in Answers(api), a.answer.kind = "transient"
  PROVE  a.answer.header \in Headers \cup {NoHeader}
<1>1. CASE \E p \in Pairs : a = [pair |-> p, answer |-> Transient(NoHeader)]
  BY <1>1 DEF Transient
<1>2. CASE \E p \in Pairs, s \in Statuses, h \in Headers :
             a = [pair |-> p, answer |-> StatusAnswer(s, h)]
  BY <1>2 DEF StatusAnswer, Transient, Failure
<1>3. CASE \E p \in Pairs : \E b : a = [pair |-> p, answer |-> BodyAnswer(api, b, p)]
  BY <1>3, BodyAnswerKinds
<1>4. \/ \E p \in Pairs : a = [pair |-> p, answer |-> Transient(NoHeader)]
      \/ \E p \in Pairs, s \in Statuses, h \in Headers :
           a = [pair |-> p, answer |-> StatusAnswer(s, h)]
      \/ \E p \in Pairs : \E b \in Bodies(AskedBase(api, p)) :
           a = [pair |-> p, answer |-> BodyAnswer(api, b, p)]
  BY DEF Answers
<1> QED
  BY <1>1, <1>2, <1>3, <1>4

(* What the header asks for is what delayFor is told, as far as a Duration  *)
(* can say it.                                                             *)
LEMMA HeaderTold ==
  ASSUME NEW h \in Headers \cup {NoHeader}
  PROVE  /\ AskedFor(h) \in Nat
         /\ RetryAfterFrom(RetryAfterFromHeader(h)) \in Nat
         /\ FitsDuration(h) /\ AskedFor(h) > 0 =>
              /\ RetryAfterFrom(RetryAfterFromHeader(h)) > 0
              /\ RetryAfterFrom(RetryAfterFromHeader(h)) >= Sooner(AskedFor(h), MaxDelay)
<1>1. h.wait \in Nat /\ h.form \in {"seconds", "date", "absent"}
  <2>1. CASE h \in Headers
    BY <2>1, AnswerAssumption DEF Headers
  <2>2. CASE h = NoHeader
    BY <2>2 DEF NoHeader
  <2> QED
    BY <2>1, <2>2
<1>2. Wrap(h.wait) \in Int /\ (h.wait < Half => Wrap(h.wait) = h.wait)
  BY <1>1, WrapInt, WrapSmall
<1>3. Half \in Nat \ {0} /\ MaxDelay \in 1 .. Half - 1
  BY AnswerAssumption, ChainAssumption
<1>4. CASE h.form = "absent"
  BY <1>1, <1>4 DEF AskedFor, RetryAfterFrom, RetryAfterFromHeader
<1>5. CASE h.form = "seconds"
  BY <1>1, <1>2, <1>3, <1>5
     DEF AskedFor, FitsDuration, RetryAfterFrom, RetryAfterFromHeader, Sooner
<1>6. CASE h.form = "date"
  BY <1>1, <1>3, <1>6 DEF AskedFor, RetryAfterFrom, RetryAfterFromHeader, Sooner
<1> QED
  BY <1>1, <1>4, <1>5, <1>6

(* A quotient of quotients of one table is right, whatever it was based on. *)
LEMMA CrossPriceRight ==
  ASSUME NEW x \in Currencies, NEW S \in SUBSET Currencies, NEW p \in Pairs,
         NEW anchors \in {{}, {x}},
         NEW table \in {Table(x, S), [c \in Currencies |-> <<0, 1>>]},
         CrossPrice(anchors, table, p).kind = "rate"
  PROVE  RightPrice(CrossPrice(anchors, table, p).price, p)
<1> DEFINE m == [c \in anchors \cup DOMAIN table |->
                   IF c \in anchors THEN <<1, 1>> ELSE table[c]]
           base == m[p[1]]
           quote == m[p[2]]
<1>1. p[1] \in Currencies /\ p[2] \in Currencies /\ p[1] # p[2]
  BY DEF Pairs
<1>2. /\ p[1] \in DOMAIN m /\ p[2] \in DOMAIN m
      /\ base[1] > 0 /\ quote[1] > 0
      /\ CrossPrice(anchors, table, p).price = Quotient(base, quote)
  BY DEF CrossPrice, Failure
<1>3. Worth[x] \in Nat /\ Worth[p[1]] \in Nat /\ Worth[p[2]] \in Nat
  BY <1>1, AnswerAssumption
<1>4. table = Table(x, S)
  <2>1. SUFFICES ASSUME table = [c \in Currencies |-> <<0, 1>>] PROVE FALSE
    OBVIOUS
  <2>2. p[1] \in anchors /\ p[2] \in anchors
    BY <1>1, <1>2, <2>1
  <2> QED
    BY <1>1, <2>2
<1>5. \A c \in S : table[c] = <<Worth[x], Worth[c]>>
  BY <1>4 DEF Table
<1>6. DOMAIN table = S
  BY <1>4 DEF Table
<1>7. CASE p[1] \in anchors
  <2>1. p[1] = x /\ p[2] \in S \ anchors
    BY <1>1, <1>2, <1>6, <1>7
  <2>2. base = <<1, 1>> /\ quote = <<Worth[x], Worth[p[2]]>>
    BY <1>2, <1>5, <1>7, <2>1
  <2>3. Quotient(base, quote) = <<Worth[x], Worth[p[2]]>>
    <3> HIDE DEF m, base, quote
    <3> QED
      BY <1>3, <2>2 DEF Quotient
  <2>4. RightPrice(<<Worth[x], Worth[p[2]]>>, p)
    BY <1>3, <2>1 DEF RightPrice
  <2> QED
    BY <1>2, <2>3, <2>4
<1>8. CASE p[2] \in anchors
  <2>1. p[2] = x /\ p[1] \in S \ anchors
    BY <1>1, <1>2, <1>6, <1>8
  <2>2. quote = <<1, 1>> /\ base = <<Worth[x], Worth[p[1]]>>
    BY <1>2, <1>5, <1>8, <2>1
  <2>3. Quotient(base, quote) = <<Worth[p[1]], Worth[x]>>
    <3> HIDE DEF m, base, quote
    <3> QED
      BY <1>3, <2>2 DEF Quotient
  <2>4. RightPrice(<<Worth[p[1]], Worth[x]>>, p)
    BY <1>3, <2>1 DEF RightPrice
  <2> QED
    BY <1>2, <2>3, <2>4
<1>9. CASE p[1] \notin anchors /\ p[2] \notin anchors
  <2>1. base = <<Worth[x], Worth[p[1]]>> /\ quote = <<Worth[x], Worth[p[2]]>>
    BY <1>2, <1>5, <1>6, <1>9
  <2>2. (Worth[x] * Worth[p[1]]) * Worth[p[2]] = (Worth[p[2]] * Worth[x]) * Worth[p[1]]
    BY <1>3
  <2> QED
    BY <1>2, <2>1, <2>2 DEF Quotient, RightPrice
<1> QED
  BY <1>7, <1>8, <1>9

(* The base of a body is the one its rates are against. *)
LEMMA BodyRates ==
  ASSUME NEW asked \in Currencies, NEW b \in Bodies(asked)
  PROVE  /\ b.base \in Currencies
         /\ ~b.named => b.base = asked
         /\ \E S \in SUBSET Currencies :
              b.rates \in {Table(b.base, S), [c \in Currencies |-> <<0, 1>>]}
<1> DEFINE Honest(named, base, listed) ==
             [parses |-> TRUE, error |-> FALSE, success |-> TRUE, named |-> named,
              base |-> base, rates |-> Table(base, listed)]
           all == Honest(TRUE, asked, Currencies)
<1>1. CASE \E base \in Currencies, S \in SUBSET Currencies : b = Honest(TRUE, base, S)
  BY <1>1
<1>2. CASE \E S \in SUBSET Currencies : b = Honest(FALSE, asked, S)
  BY <1>2
<1>3. CASE b \in {[all EXCEPT !.parses = FALSE], [all EXCEPT !.error = TRUE],
                  [all EXCEPT !.success = FALSE]}
  <2>1. b.base = asked /\ b.named = TRUE /\ b.rates = Table(asked, Currencies)
    BY <1>3
  <2> QED
    BY <2>1
<1>4. CASE b = [all EXCEPT !.rates = [c \in Currencies |-> <<0, 1>>]]
  BY <1>4
<1> QED
  BY <1>1, <1>2, <1>3, <1>4 DEF Bodies

(* Whatever an API answers: if it is a price, it is the right one. *)
LEMMA AnswerRight ==
  ASSUME NEW api, NEW a \in Answers(api), a.answer.kind = "rate"
  PROVE  RightPrice(a.answer.price, a.pair)
<1>0. PICK p \in Pairs : \E b \in Bodies(AskedBase(api, p)) :
        a = [pair |-> p, answer |-> BodyAnswer(api, b, p)]
  BY DEF Answers, StatusAnswer, Transient, Failure
<1>1. PICK b \in Bodies(AskedBase(api, p)) :
        a = [pair |-> p, answer |-> BodyAnswer(api, b, p)]
  BY <1>0
<1>2. AskedBase(api, p) \in Currencies
  BY AnswerAssumption DEF AskedBase, Pairs
<1>3. PICK S \in SUBSET Currencies :
        b.rates \in {Table(b.base, S), [c \in Currencies |-> <<0, 1>>]}
  BY <1>2, BodyRates
<1>4. b.base \in Currencies /\ (~b.named => b.base = AskedBase(api, p))
  BY <1>2, BodyRates
<1>5. BodyAnswer(api, b, p).kind = "rate"
  BY <1>1
<1>6. PICK anchors \in {{}, {b.base}} :
        BodyAnswer(api, b, p) = CrossPrice(anchors, b.rates, p)
  BY <1>4, <1>5 DEF BodyAnswer, FrankfurterBody, ExchangeRatesBody, AskedBase, Failure
<1>7. RightPrice(CrossPrice(anchors, b.rates, p).price, p)
  BY <1>3, <1>4, <1>5, <1>6, CrossPriceRight
<1> QED
  BY <1>1, <1>6, <1>7

(* A delay is bounded, and Retry-After overrides the backoff. *)
LEMMA DelayBounds ==
  ASSUME NEW n, NEW ra \in Nat, NEW d \in DelayFor(n, ra)
  PROVE  d \in Nat /\ d <= MaxDelay /\ (ra > 0 => d = Sooner(ra, MaxDelay))
<1>1. MaxDelay \in Nat /\ MaxDelay > 0
  BY ChainAssumption, AnswerAssumption
<1>2. Backoff(n) \in 1 .. MaxDelay
  BY <1>1 DEF Backoff
<1>3. CASE ra > 0
  BY <1>1, <1>3 DEF DelayFor, Sooner
<1>4. CASE ra = 0
  <2> DEFINE b == Backoff(n)
  <2>1. PICK e \in (b - b \div 5) .. (b + Later(b \div 5 - 1, 0)) : d = Sooner(e, MaxDelay)
    BY <1>4 DEF DelayFor
  <2>2. e \in Nat
    <3> HIDE DEF b
    <3>1. b \div 5 \in Nat /\ b \div 5 <= b
      BY <1>2 DEF b
    <3> QED
      BY <1>2, <2>1, <3>1 DEF Later, b
  <2> QED
    BY <1>1, <1>4, <2>1, <2>2 DEF Sooner
<1> QED
  BY <1>3, <1>4

(* What is a multiple of more than MaxDelay is no delay. *)
LEMMA MultipleTooLong ==
  ASSUME NEW p \in Int, NEW t \in Int, p > MaxDelay
  PROVE  p * t \notin 1 .. MaxDelay
<1>1. MaxDelay \in Nat \ {0}
  BY ChainAssumption, AnswerAssumption
<1>2. \A a, b \in Int : a > 0 /\ a * b > 0 => a * b >= a
  OBVIOUS
<1> QED
  BY <1>1, <1>2

(* A shift out of the range of a Duration never passes for a delay: its    *)
(* low bits are zero, and more of them than MaxDelay has.                  *)
LEMMA ShiftedOutOfRange ==
  ASSUME NEW n \in Nat, BaseDelay * Pow2[n] >= Half, BaseDelay * MaxDelay < Half
  PROVE  Wrap(BaseDelay * Pow2[n]) \notin 1 .. MaxDelay
<1> DEFINE p == Pow2[n]
<1>1. /\ BaseDelay \in Nat \ {0} /\ MaxDelay \in Nat \ {0} /\ Half \in Nat \ {0}
      /\ BaseDelay * MaxDelay < Half /\ p \in Nat \ {0}
  BY ChainAssumption, AnswerAssumption, Pow2Positive
<1>2. p > MaxDelay
  <2>1. \A b, y, m \in Nat : y <= m => b * y <= b * m
    OBVIOUS
  <2>2. p <= MaxDelay => BaseDelay * p <= BaseDelay * MaxDelay
    BY <1>1, <2>1
  <2>3. BaseDelay * p \in Int /\ BaseDelay * MaxDelay \in Int
    BY <1>1
  <2> QED
    BY <1>1, <2>2, <2>3
<1>3. Half > MaxDelay
  <2>1. \A b \in Nat \ {0}, m \in Nat : b * m >= m
    OBVIOUS
  <2> QED
    BY <1>1, <2>1
<1>4. PICK bits \in Nat : Half = Pow2[bits]
  BY AnswerAssumption
<1>5. 2 * Half = Pow2[bits + 1] /\ bits + 1 \in Nat
  BY <1>4, Pow2Def
<1>6. PICK q \in Int : Wrap(BaseDelay * p) = BaseDelay * p - q * (2 * Half)
  <2>1. BaseDelay * p \in Int
    BY <1>1
  <2> QED
    BY <2>1, WrapSubtracts
<1>7. CASE n <= bits + 1
  <2>1. PICK r \in Int : 2 * Half = p * r
    BY <1>5, <1>7, Pow2Divides
  <2> HIDE DEF p
  <2>2. BaseDelay * p - q * (p * r) = p * (BaseDelay - q * r)
    BY <1>1
  <2>3. BaseDelay - q * r \in Int
    BY <1>1
  <2> QED
    BY <1>1, <1>2, <1>6, <2>1, <2>2, <2>3, MultipleTooLong DEF p
<1>8. CASE n > bits + 1
  <2>1. PICK r \in Int : p = (2 * Half) * r
    BY <1>5, <1>8, Pow2Divides
  <2> DEFINE w == 2 * Half
  <2>2. w \in Int /\ w > MaxDelay
    BY <1>1, <1>3
  <2> HIDE DEF p, w
  <2>3. BaseDelay * (w * r) - q * w = w * (BaseDelay * r - q)
    BY <1>1, <2>2
  <2>4. BaseDelay * r - q \in Int
    BY <1>1
  <2>5. Wrap(BaseDelay * p) = w * (BaseDelay * r - q)
    BY <1>6, <2>1, <2>3 DEF w
  <2> QED
    BY <2>2, <2>4, <2>5, MultipleTooLong DEF p
<1> QED
  BY <1>7, <1>8

(* The backoff before attempt n + 1 is the doubled base delay, up to MaxDelay. *)
LEMMA BackoffExact ==
  ASSUME NEW n \in Nat \ {0},
         BaseDelay * Pow2[n - 1] < Half \/ BaseDelay * MaxDelay < Half
  PROVE  Backoff(n) = Sooner(BaseDelay * Pow2[n - 1], MaxDelay)
<1> DEFINE x == BaseDelay * Pow2[n - 1]
<1>1. /\ BaseDelay \in Nat \ {0} /\ MaxDelay \in Nat \ {0} /\ Half \in Nat \ {0}
      /\ Pow2[n - 1] \in Nat \ {0} /\ n - 1 \in Nat
  BY ChainAssumption, AnswerAssumption, Pow2Positive
<1>2. x \in Nat \ {0} /\ MaxDelay < Half
  <2>1. \A b, m \in Nat \ {0} : b * m \in Nat \ {0}
    OBVIOUS
  <2> QED
    BY <1>1, <2>1, ChainAssumption
<1>3. Shifted(n) = Wrap(x)
  BY DEF Shifted
<1> HIDE DEF x
<1>4. CASE x < Half
  <2>1. Wrap(x) = x
    BY <1>2, <1>4, WrapSmall
  <2> QED
    BY <1>1, <1>2, <1>3, <2>1 DEF Backoff, Sooner, x
<1>5. CASE x >= Half
  <2>1. Wrap(x) \notin 1 .. MaxDelay
    <3>1. BaseDelay * MaxDelay < Half /\ BaseDelay * Pow2[n - 1] >= Half
      BY <1>1, <1>2, <1>5 DEF x
    <3> QED
      BY <1>1, <3>1, ShiftedOutOfRange DEF x
  <2>2. Backoff(n) = MaxDelay
    BY <1>3, <2>1 DEF Backoff
  <2>3. Sooner(x, MaxDelay) = MaxDelay
    BY <1>1, <1>2, <1>5 DEF Sooner
  <2> QED
    BY <2>2, <2>3 DEF x
<1> QED
  BY <1>1, <1>2, <1>4, <1>5

(* Jitter takes a fifth of the backoff at most, and never all of it. *)
LEMMA DelayJitter ==
  ASSUME NEW n \in Nat \ {0}, NEW d \in DelayFor(n, 0)
  PROVE  d \in 1 .. MaxDelay /\ 5 * d >= 4 * Backoff(n)
<1> DEFINE b == Backoff(n)
           j == b \div 5
<1>1. MaxDelay \in Nat \ {0} /\ b \in 1 .. MaxDelay
  BY ChainAssumption, AnswerAssumption DEF Backoff
<1>2. PICK e \in (b - j) .. (b + Later(j - 1, 0)) : d = Sooner(e, MaxDelay)
  BY DEF DelayFor
<1> HIDE DEF b
<1>3. j \in Nat /\ 5 * j <= b
  BY <1>1
<1> HIDE DEF j
<1>4. e \in Int /\ 5 * e >= 4 * b /\ e > 0
  BY <1>1, <1>2, <1>3 DEF Later
<1>5. d \in 1 .. MaxDelay /\ 5 * d >= 4 * b
  BY <1>1, <1>2, <1>4 DEF Sooner
<1> QED
  BY <1>5 DEF b

(* Whatever it is told, delayFor pauses, and not longer than MaxDelay. *)
LEMMA DelayPauses ==
  ASSUME NEW n \in Nat \ {0}, NEW ra \in Nat, NEW d \in DelayFor(n, ra)
  PROVE  d \in 1 .. MaxDelay
<1>1. MaxDelay \in Nat \ {0}
  BY ChainAssumption, AnswerAssumption
<1>2. CASE ra > 0
  BY <1>1, <1>2 DEF DelayFor, Sooner
<1>3. CASE ra = 0
  BY <1>3, DelayJitter
<1> QED
  BY <1>2, <1>3

-----------------------------------------------------------------------------
(* The inductive invariant.                                                *)

(* Where a caller stands, and what its Rate went through until time t. *)
Good(r, v, t) ==
  /\ v.mispriced = FALSE
  /\ \A s \in Sources : v.calls[s] <= MaxAttempts
  /\ r.at = "idle" => v = NothingSeen
  /\ r.source = "primary" => v.calls["secondary"] = 0
  /\ r.source = "secondary" => v.calls["primary"] = MaxAttempts \/ v.permanent
  /\ r.at \in {"gate", "slot"}
       => r.attempt \in 1 .. MaxAttempts /\ v.calls[r.source] = r.attempt - 1
  /\ r.at \in {"inner", "sleep"}
       => r.attempt \in 1 .. MaxAttempts /\ v.calls[r.source] = r.attempt
  /\ r.at \in {"gate", "slot", "inner"} => (v.fits => t >= v.notBefore)
  /\ r.at = "sleep" => r.attempt < MaxAttempts /\ (v.fits => r.due >= v.notBefore)
  /\ r.at = "fallback" =>
       /\ r.source = "primary"
       /\ \/ t >= r.deadline
          \/ (v.fits => t >= v.notBefore) /\ (v.calls["primary"] = MaxAttempts \/ v.permanent)
  /\ r.at = "failed" /\ HasSecondary /\ v.calls["secondary"] = 0 => t >= r.deadline

CallersGood == \A c \in Callers : Good(call[c], seen[c], now)

SlotsBehind ==
  \A s \in Sources : \A n \in 1 .. Len(slots[s]) : slots[s][n] + MinInterval <= nextAllowed[s]

(* The slots are at least as late as if they followed each other at once. *)
SlotsFill ==
  \A s \in Sources :
    /\ nextAllowed[s] >= Len(slots[s]) * MinInterval
    /\ \A n \in 1 .. Len(slots[s]) : slots[s][n] >= (n - 1) * MinInterval

Waiting(s) == {c \in Callers : call[c].at = "slot" /\ call[c].source = s}

(* Whoever waits at a gate waits for a slot of its own. *)
OwnSlot ==
  \A s \in Sources : \A c \in Waiting(s) :
    /\ \E n \in 1 .. Len(slots[s]) : slots[s][n] = call[c].due
    /\ \A d \in Waiting(s) \ {c} : call[d].due # call[c].due

(* The slots that have come and that nobody waits for any more. *)
Used(s) ==
  {n \in 1 .. Len(slots[s]) : slots[s][n] <= now /\ \A c \in Waiting(s) : call[c].due # slots[s][n]}

CallsUseSlots == \A s \in Sources : Len(started[s]) <= Cardinality(Used(s))

GateInv == MinInterval > 0 => OwnSlot /\ CallsUseSlots

IInv == TypeOK /\ CallersGood /\ SlotsBehind /\ SlotsSpaced /\ SlotsFill /\ GateInv

-----------------------------------------------------------------------------
(* Types.                                                                  *)

LEMMA InitTypeOK == Init => TypeOK
<1> SUFFICES ASSUME Init PROVE TypeOK
  OBVIOUS
<1>1. IdleCall \in Call
  BY DEF IdleCall, Call, Places, Sources
<1>2. NothingSeen \in Seen
  BY DEF NothingSeen, Seen
<1>3. << >> \in Seq(Nat)
  OBVIOUS
<1> QED
  BY <1>1, <1>2, <1>3, ChainAssumption DEF Init, TypeOK

LEMMA CallTypes ==
  ASSUME TypeOK, NEW c \in Callers, NEW r \in Call, call' = [call EXCEPT ![c] = r]
  PROVE  call' \in [Callers -> Call]
BY DEF TypeOK

LEMMA SeenTypes ==
  ASSUME TypeOK, NEW c \in Callers, NEW v \in Seen, seen' = [seen EXCEPT ![c] = v]
  PROVE  seen' \in [Callers -> Seen]
BY DEF TypeOK

LEMMA FieldTypes ==
  ASSUME NEW r \in Call, NEW place \in Places, NEW n \in Nat, NEW m \in Nat
  PROVE  /\ [r EXCEPT !.at = place, !.due = n] \in Call
         /\ [r EXCEPT !.at = place, !.attempt = n] \in Call
         /\ [r EXCEPT !.at = place, !.attempt = n, !.deadline = m] \in Call
BY DEF Call

LEMMA PlaceTypes ==
  ASSUME TypeOK, NEW c \in Callers, NEW place \in Places
  PROVE  [call[c] EXCEPT !.at = place] \in Call
BY DEF TypeOK, Call

LEMMA GiveUpTypes ==
  ASSUME TypeOK, NEW c \in Callers, GiveUp(c)
  PROVE  call' \in [Callers -> Call]
BY DEF TypeOK, GiveUp, Goto, Call, Places

LEMMA StepTypeOK ==
  ASSUME TypeOK, NEW c \in Callers, Begin(c) \/ RateStep(c)
  PROVE  TypeOK'
<1> USE ChainAssumption
<1>t. now \in Nat /\ call[c] \in Call /\ seen[c] \in Seen
  BY DEF TypeOK
<1>i. IdleCall \in Call /\ NothingSeen \in Seen
  BY DEF IdleCall, Call, Places, NothingSeen, Seen, Sources
<1>1. CASE Begin(c)
  <2> DEFINE r == [IdleCall EXCEPT !.at = "gate", !.attempt = 1, !.deadline = now + Timeout]
  <2>1. r \in Call
    <3>1. "gate" \in Places /\ 1 \in Nat /\ now + Timeout \in Nat
      BY <1>t DEF Places
    <3> QED
      BY <1>i, <3>1, FieldTypes
  <2>2. call' \in [Callers -> Call]
    BY <1>1, <2>1, CallTypes DEF Begin
  <2> QED
    BY <1>1, <2>2 DEF Begin, TypeOK, history
<1>2. CASE Reserve(c)
  <2> DEFINE s == call[c].source
             slot == Later(now, nextAllowed[s])
  <2>1. s \in Sources /\ slot \in Nat
    BY <1>t DEF TypeOK, Call, Later
  <2>2. nextAllowed' \in [Sources -> Nat]
    BY <1>2, <2>1 DEF Reserve, TypeOK
  <2>3. slots' \in [Sources -> Seq(Nat)]
    <3> HIDE DEF slot
    <3>1. Append(slots[s], slot) \in Seq(Nat)
      BY <2>1 DEF TypeOK
    <3> QED
      BY <1>2, <2>1, <3>1 DEF Reserve, TypeOK, slot
  <2>4. call' \in [Callers -> Call]
    <3> DEFINE r == [call[c] EXCEPT !.at = "slot", !.due = slot, !.timed = slot > now]
    <3>1. r \in Call
      <4> HIDE DEF s, slot
      <4>1. (slot > now) \in BOOLEAN /\ "slot" \in Places
        BY DEF Places
      <4> QED
        BY <1>t, <2>1, <4>1 DEF Call
    <3>2. call' = [call EXCEPT ![c] = r]
      BY <1>2 DEF Reserve
    <3> QED
      BY <3>1, <3>2, CallTypes
  <2> QED
    BY <1>2, <2>2, <2>3, <2>4 DEF Reserve, TypeOK
<1>3. CASE Invoke(c)
  <2> DEFINE s == call[c].source
  <2>1. s \in Sources
    BY <1>t DEF Call
  <2>2. started' \in [Sources -> Seq(Nat)]
    <3>1. Append(started[s], now) \in Seq(Nat)
      BY <1>t, <2>1 DEF TypeOK
    <3> QED
      BY <1>3, <2>1, <3>1 DEF Invoke, TypeOK
  <2>3. seen' \in [Callers -> Seen]
    <3> DEFINE v == [seen[c] EXCEPT !.calls[s] = @ + 1]
    <3>1. [seen[c].calls EXCEPT ![s] = @ + 1] \in [Sources -> Nat]
      BY <1>t, <2>1 DEF Seen
    <3>2. v \in Seen
      BY <1>t, <3>1 DEF Seen
    <3>3. seen' = [seen EXCEPT ![c] = v]
      BY <1>3 DEF Invoke, TypeOK
    <3> QED
      BY <3>2, <3>3, SeenTypes
  <2>4. call' \in [Callers -> Call]
    BY <1>3 DEF Invoke, Goto, TypeOK, Call, Places
  <2> QED
    BY <1>3, <2>2, <2>3, <2>4 DEF Invoke, TypeOK
<1>4. CASE GateExpires(c)
  BY <1>4, GiveUpTypes DEF GateExpires, TypeOK, history
<1>5. CASE InnerSucceeds(c)
  <2>1. seen' \in [Callers -> Seen]
    <3>1. PICK a \in Inner(c, "rate") :
            seen' = [seen EXCEPT ![c].mispriced = ~RightPrice(a.answer.price, a.pair)]
      BY <1>5 DEF InnerSucceeds
    <3>2. PICK b \in BOOLEAN : b = ~RightPrice(a.answer.price, a.pair)
      BY DEF RightPrice
    <3>3. seen' = [seen EXCEPT ![c] = [seen[c] EXCEPT !.mispriced = b]]
      BY <3>1, <3>2
    <3>4. [seen[c] EXCEPT !.mispriced = b] \in Seen
      BY <1>t DEF Seen
    <3> QED
      BY <3>3, <3>4, SeenTypes
  <2>2. call' \in [Callers -> Call]
    BY <1>5, PlaceTypes, CallTypes DEF InnerSucceeds, Goto, Places
  <2> QED
    BY <1>5, <2>1, <2>2 DEF InnerSucceeds, TypeOK
<1>6. CASE InnerFailsForGood(c)
  <2>1. seen' \in [Callers -> Seen]
    BY <1>6, <1>t DEF InnerFailsForGood, TypeOK, Seen
  <2> QED
    BY <1>6, <2>1, GiveUpTypes DEF InnerFailsForGood, TypeOK
<1>7. CASE InnerFailsForNow(c)
  <2>1. CASE GiveUp(c) /\ UNCHANGED seen
    BY <1>7, <2>1, GiveUpTypes DEF InnerFailsForNow, TypeOK
  <2>2. CASE \E header \in {a.answer.header : a \in Inner(c, "transient")} :
             /\ \E d \in DelayFor(call[c].attempt, RetryAfterFrom(RetryAfterFromHeader(header))) :
                  call' = [call EXCEPT ![c].at = "sleep", ![c].due = now + d]
             /\ seen' = [seen EXCEPT ![c].notBefore = now + Sooner(AskedFor(header), MaxDelay),
                                     ![c].fits = FitsDuration(header)]
    <3>1. PICK header \in {a.answer.header : a \in Inner(c, "transient")} :
             /\ \E d \in DelayFor(call[c].attempt, RetryAfterFrom(RetryAfterFromHeader(header))) :
                  call' = [call EXCEPT ![c].at = "sleep", ![c].due = now + d]
             /\ seen' = [seen EXCEPT ![c].notBefore = now + Sooner(AskedFor(header), MaxDelay),
                                     ![c].fits = FitsDuration(header)]
      BY <2>2
    <3>2. header \in Headers \cup {NoHeader}
      BY <1>t, TransientHeader DEF Inner, AnswersOf, Call
    <3>3. AskedFor(header) \in Nat /\ RetryAfterFrom(RetryAfterFromHeader(header)) \in Nat
      BY <3>2, HeaderTold
    <3>4. PICK d \in DelayFor(call[c].attempt, RetryAfterFrom(RetryAfterFromHeader(header))) :
            call' = [call EXCEPT ![c].at = "sleep", ![c].due = now + d]
      BY <3>1
    <3>5. d \in Nat
      BY <3>3, DelayBounds
    <3>6. now + Sooner(AskedFor(header), MaxDelay) \in Nat /\ FitsDuration(header) \in BOOLEAN
      BY <1>t, <3>3 DEF Sooner, FitsDuration
    <3>7. seen' \in [Callers -> Seen]
      BY <1>t, <3>1, <3>6 DEF TypeOK, Seen
    <3>8. call' \in [Callers -> Call]
      <4>1. [call[c] EXCEPT !.at = "sleep", !.due = now + d] \in Call
        <5>1. "sleep" \in Places /\ now + d \in Nat
          BY <1>t, <3>5 DEF Places
        <5> QED
          BY <1>t, <5>1, FieldTypes
      <4>2. call' = [call EXCEPT ![c] = [call[c] EXCEPT !.at = "sleep", !.due = now + d]]
        BY <3>4
      <4> QED
        BY <4>1, <4>2, CallTypes
    <3> QED
      BY <1>7, <3>7, <3>8 DEF InnerFailsForNow, TypeOK
  <2> QED
    BY <1>7, <2>1, <2>2 DEF InnerFailsForNow
<1>8. CASE Wake(c)
  <2>1. CASE GiveUp(c)
    BY <1>8, <2>1, GiveUpTypes DEF Wake, TypeOK, history
  <2>2. CASE call' = [call EXCEPT ![c].at = "gate", ![c].attempt = @ + 1]
    <3>1. [call[c] EXCEPT !.at = "gate", !.attempt = @ + 1] \in Call
      <4>1. "gate" \in Places /\ call[c].attempt + 1 \in Nat
        BY <1>t DEF Places, Call
      <4> QED
        BY <1>t, <4>1, FieldTypes
    <3>2. call' \in [Callers -> Call]
      BY <2>2, <3>1, CallTypes
    <3> QED
      BY <1>8, <3>2 DEF Wake, TypeOK, history
  <2> QED
    BY <1>8, <2>1, <2>2 DEF Wake
<1>9. CASE Fallback(c)
  BY <1>9, <1>t DEF Fallback, TypeOK, history, Call, Places, Sources
<1>10. CASE Return(c)
  BY <1>10 DEF Return, TypeOK, Call, IdleCall, Places, Sources, Seen, NothingSeen
<1> QED
  BY <1>1, <1>2, <1>3, <1>4, <1>5, <1>6, <1>7, <1>8, <1>9, <1>10 DEF RateStep

-----------------------------------------------------------------------------
(* Where the callers stand.                                                *)

(* A step is one caller's. *)
LEMMA OthersStay ==
  ASSUME TypeOK, NEW c \in Callers, Begin(c) \/ RateStep(c)
  PROVE  /\ now' = now
         /\ \A d \in Callers \ {c} : call'[d] = call[d] /\ seen'[d] = seen[d]
<1> USE DEF TypeOK, history
<1>1. CASE Begin(c)
  BY <1>1 DEF Begin
<1>2. CASE Reserve(c)
  BY <1>2 DEF Reserve
<1>3. CASE Invoke(c)
  BY <1>3 DEF Invoke, Goto
<1>4. CASE GateExpires(c)
  BY <1>4 DEF GateExpires, GiveUp, Goto
<1>5. CASE InnerSucceeds(c)
  BY <1>5 DEF InnerSucceeds, Goto
<1>6. CASE InnerFailsForGood(c)
  BY <1>6 DEF InnerFailsForGood, GiveUp, Goto
<1>7. CASE InnerFailsForNow(c)
  BY <1>7 DEF InnerFailsForNow, GiveUp, Goto
<1>8. CASE Wake(c)
  BY <1>8 DEF Wake, GiveUp, Goto
<1>9. CASE Fallback(c)
  BY <1>9 DEF Fallback
<1>10. CASE Return(c)
  BY <1>10 DEF Return
<1> QED
  BY <1>1, <1>2, <1>3, <1>4, <1>5, <1>6, <1>7, <1>8, <1>9, <1>10 DEF RateStep

(* Giving up, from a place where it is allowed. *)
LEMMA GiveUpGood ==
  ASSUME TypeOK, NEW c \in Callers, Good(call[c], seen[c], now), GiveUp(c), UNCHANGED seen,
         call[c].at \in {"slot", "inner", "sleep"},
         \/ Expired(c)
         \/ call[c].at = "inner" /\ call[c].attempt = MaxAttempts
  PROVE  Good(call'[c], seen'[c], now)
<1> DEFINE r == call[c]
           v == seen[c]
<1>1. /\ r \in Call /\ v \in Seen /\ now \in Nat /\ MaxAttempts \in Nat \ {0}
  BY ChainAssumption DEF TypeOK
<1>2. /\ call'[c] = [r EXCEPT !.at = IF r.source = "primary" THEN "fallback" ELSE "failed"]
      /\ seen'[c] = v
  BY DEF GiveUp, Goto, TypeOK
<1>3. r.source \in Sources
  BY <1>1 DEF Call
<1>4. CASE r.source = "primary"
  <2>1. call'[c] = [r EXCEPT !.at = "fallback"]
    BY <1>2, <1>4
  <2> QED
    BY <1>1, <1>2, <1>4, <2>1 DEF Good, Expired, Call, Seen, Sources
<1>5. CASE r.source = "secondary"
  <2>1. call'[c] = [r EXCEPT !.at = "failed"]
    BY <1>2, <1>5
  <2> QED
    BY <1>1, <1>2, <1>5, <2>1 DEF Good, Expired, Call, Seen, Sources
<1> QED
  BY <1>3, <1>4, <1>5 DEF Sources

LEMMA StepGood ==
  ASSUME TypeOK, NEW c \in Callers, Good(call[c], seen[c], now), Begin(c) \/ RateStep(c)
  PROVE  Good(call'[c], seen'[c], now)
<1> DEFINE r == call[c]
           v == seen[c]
<1>t. /\ r \in Call /\ v \in Seen /\ now \in Nat
      /\ MaxAttempts \in Nat \ {0} /\ MaxDelay \in Nat /\ Timeout \in Nat
  BY ChainAssumption DEF TypeOK
<1>s. r.source \in Sources /\ v.calls \in [Sources -> Nat]
  BY <1>t DEF Call, Seen
<1>1. CASE Begin(c)
  <2>1. /\ call'[c] = [IdleCall EXCEPT !.at = "gate", !.attempt = 1, !.deadline = now + Timeout]
        /\ seen'[c] = NothingSeen
    BY <1>1 DEF Begin, TypeOK, history, Good
  <2> QED
    BY <1>t, <2>1 DEF Good, IdleCall, NothingSeen, Sources
<1>2. CASE Reserve(c)
  <2>1. PICK due, timed : call'[c] = [r EXCEPT !.at = "slot", !.due = due, !.timed = timed]
    BY <1>2 DEF Reserve, TypeOK
  <2>2. r.at = "gate" /\ seen'[c] = v
    BY <1>2 DEF Reserve
  <2> QED
    BY <1>t, <2>1, <2>2 DEF Good, Call
<1>3. CASE Invoke(c)
  <2>1. call'[c] = [r EXCEPT !.at = "inner"] /\ r.at = "slot"
    BY <1>3 DEF Invoke, Goto, TypeOK
  <2>2. seen'[c] = [v EXCEPT !.calls = [v.calls EXCEPT ![r.source] = @ + 1]]
    BY <1>3, <1>t DEF Invoke, TypeOK
  <2> QED
    BY <1>t, <1>s, <2>1, <2>2 DEF Good, Call, Seen, Sources
<1>4. CASE GateExpires(c)
  BY <1>4, GiveUpGood DEF GateExpires, history
<1>5. CASE InnerSucceeds(c)
  <2>1. PICK a \in Inner(c, "rate") :
          seen' = [seen EXCEPT ![c].mispriced = ~RightPrice(a.answer.price, a.pair)]
    BY <1>5 DEF InnerSucceeds
  <2>2. a \in Answers(Api[r.source]) /\ a.answer.kind = "rate"
    BY <1>s DEF Inner, AnswersOf
  <2>3. RightPrice(a.answer.price, a.pair)
    BY <2>2, AnswerRight
  <2>4. seen'[c] = [v EXCEPT !.mispriced = FALSE]
    BY <2>1, <2>3 DEF TypeOK
  <2>5. call'[c] = [r EXCEPT !.at = "succeeded"] /\ r.at = "inner"
    BY <1>5 DEF InnerSucceeds, Goto, TypeOK
  <2> QED
    BY <1>t, <2>4, <2>5 DEF Good, Call, Seen
<1>6. CASE InnerFailsForGood(c)
  <2>1. r.at = "inner"
    BY <1>6 DEF InnerFailsForGood
  <2>2. CASE r.source = "primary"
    <3>1. seen'[c] = [v EXCEPT !.permanent = TRUE]
      BY <1>6, <2>2 DEF InnerFailsForGood, TypeOK
    <3>2. call'[c] = [r EXCEPT !.at = "fallback"]
      BY <1>6, <2>2 DEF InnerFailsForGood, GiveUp, Goto, TypeOK
    <3> QED
      BY <1>t, <2>1, <2>2, <3>1, <3>2 DEF Good, Call, Seen
  <2>3. CASE r.source = "secondary"
    <3>1. seen'[c] = [v EXCEPT !.permanent = @ \/ FALSE]
      BY <1>6, <2>3 DEF InnerFailsForGood, TypeOK
    <3>2. seen'[c] = v
      BY <1>t, <3>1 DEF Seen
    <3>3. call'[c] = [r EXCEPT !.at = "failed"]
      BY <1>6, <2>3 DEF InnerFailsForGood, GiveUp, Goto, TypeOK
    <3> QED
      BY <1>t, <1>s, <2>1, <2>3, <3>2, <3>3 DEF Good, Call, Seen
  <2> QED
    BY <1>s, <2>2, <2>3 DEF Sources
<1>7. CASE InnerFailsForNow(c)
  <2>0. r.at = "inner"
    BY <1>7 DEF InnerFailsForNow
  <2>1. CASE (Expired(c) \/ LastAttempt(c)) /\ GiveUp(c) /\ UNCHANGED seen
    BY <2>0, <2>1, GiveUpGood DEF LastAttempt
  <2>2. CASE /\ ~Expired(c) /\ ~LastAttempt(c)
             /\ \E header \in {a.answer.header : a \in Inner(c, "transient")} :
                  /\ \E d \in DelayFor(r.attempt, RetryAfterFrom(RetryAfterFromHeader(header))) :
                       call' = [call EXCEPT ![c].at = "sleep", ![c].due = now + d]
                  /\ seen' = [seen EXCEPT ![c].notBefore = now + Sooner(AskedFor(header), MaxDelay),
                                     ![c].fits = FitsDuration(header)]
    <3>1. PICK header \in {a.answer.header : a \in Inner(c, "transient")} :
             /\ \E d \in DelayFor(r.attempt, RetryAfterFrom(RetryAfterFromHeader(header))) :
                  call' = [call EXCEPT ![c].at = "sleep", ![c].due = now + d]
             /\ seen' = [seen EXCEPT ![c].notBefore = now + Sooner(AskedFor(header), MaxDelay),
                                     ![c].fits = FitsDuration(header)]
      BY <2>2
    <3>2. header \in Headers \cup {NoHeader}
      BY <1>s, TransientHeader DEF Inner, AnswersOf
    <3>3. PICK d \in DelayFor(r.attempt, RetryAfterFrom(RetryAfterFromHeader(header))) :
            call' = [call EXCEPT ![c].at = "sleep", ![c].due = now + d]
      BY <3>1
    <3>4. /\ d \in Nat /\ AskedFor(header) \in Nat
          /\ FitsDuration(header) => d >= Sooner(AskedFor(header), MaxDelay)
      <4> DEFINE ra == RetryAfterFrom(RetryAfterFromHeader(header))
      <4>1. /\ ra \in Nat /\ AskedFor(header) \in Nat
            /\ FitsDuration(header) /\ AskedFor(header) > 0
                 => ra > 0 /\ ra >= Sooner(AskedFor(header), MaxDelay)
        BY <3>2, HeaderTold
      <4>2. d \in Nat /\ (ra > 0 => d = Sooner(ra, MaxDelay))
        <5> HIDE DEF ra
        <5> QED
          BY <3>3, <4>1, DelayBounds DEF ra
      <4> QED
        BY <1>t, <4>1, <4>2 DEF Sooner
    <3>5. call'[c] = [r EXCEPT !.at = "sleep", !.due = now + d]
      BY <3>3 DEF TypeOK
    <3>6. seen'[c] = [v EXCEPT !.notBefore = now + Sooner(AskedFor(header), MaxDelay),
                               !.fits = FitsDuration(header)]
      BY <3>1 DEF TypeOK
    <3>7. Sooner(AskedFor(header), MaxDelay) \in Nat
      BY <1>t, <3>4 DEF Sooner
    <3>8. r.attempt < MaxAttempts
      BY <1>t, <2>0, <2>2 DEF Good, LastAttempt, Call
    <3> QED
      BY <1>t, <2>0, <3>4, <3>5, <3>6, <3>7, <3>8 DEF Good, Call, Seen
  <2> QED
    BY <1>7, <2>1, <2>2 DEF InnerFailsForNow
<1>8. CASE Wake(c)
  <2>0. r.at = "sleep" /\ UNCHANGED seen
    BY <1>8 DEF Wake, history
  <2>1. CASE Expired(c) /\ GiveUp(c)
    BY <2>0, <2>1, GiveUpGood
  <2>2. CASE now >= r.due /\ call' = [call EXCEPT ![c].at = "gate", ![c].attempt = @ + 1]
    <3>1. call'[c] = [r EXCEPT !.at = "gate", !.attempt = @ + 1]
      BY <2>2 DEF TypeOK
    <3>2. /\ r.attempt \in Nat /\ r.attempt < MaxAttempts /\ v.calls[r.source] = r.attempt
          /\ r.due \in Nat /\ v.notBefore \in Nat /\ (v.fits => r.due >= v.notBefore)
      BY <1>t, <2>0 DEF Good, Call, Seen
    <3> DEFINE n == r.attempt + 1
    <3>3. n \in 1 .. MaxAttempts /\ v.calls[r.source] = n - 1
          /\ (v.fits => now >= v.notBefore)
      BY <1>t, <2>2, <3>2
    <3>4. call'[c] = [r EXCEPT !.at = "gate", !.attempt = n] /\ seen'[c] = v
      BY <2>0, <3>1
    <3> QED
      <4> HIDE DEF n
      <4> QED
        BY <1>t, <1>s, <2>0, <3>3, <3>4 DEF Good, Call, Seen
  <2> QED
    BY <1>8, <2>1, <2>2 DEF Wake
<1>9. CASE Fallback(c)
  <2>0. r.at = "fallback" /\ seen'[c] = v
    BY <1>9 DEF Fallback, history
  <2>1. CASE HasSecondary /\ ~Expired(c)
    <3>1. call'[c] = [r EXCEPT !.at = "gate", !.source = "secondary", !.attempt = 1]
      BY <1>9, <2>1 DEF Fallback, TypeOK
    <3>2. ~(now >= r.deadline)
      BY <2>1 DEF Expired
    <3> QED
      BY <1>t, <1>s, <2>0, <3>1, <3>2 DEF Good, Call, Seen
  <2>2. CASE ~(HasSecondary /\ ~Expired(c))
    <3>1. call'[c] = [r EXCEPT !.at = "failed"]
      BY <1>9, <2>2 DEF Fallback, TypeOK
    <3>2. HasSecondary => now >= r.deadline
      BY <2>2 DEF Expired
    <3> QED
      BY <1>t, <1>s, <2>0, <3>1, <3>2 DEF Good, Call, Seen
  <2> QED
    BY <2>1, <2>2
<1>10. CASE Return(c)
  <2>1. call'[c] = IdleCall /\ seen'[c] = NothingSeen
    BY <1>10 DEF Return, TypeOK
  <2> QED
    BY <1>t, <2>1 DEF Good, IdleCall, NothingSeen, Sources
<1> QED
  BY <1>1, <1>2, <1>3, <1>4, <1>5, <1>6, <1>7, <1>8, <1>9, <1>10 DEF RateStep

-----------------------------------------------------------------------------
(* The gate.                                                               *)

LEMMA OnlyReserveGrants ==
  ASSUME NEW c \in Callers, Begin(c) \/ RateStep(c), ~Reserve(c)
  PROVE  UNCHANGED <<nextAllowed, slots>>
BY DEF RateStep, Begin, Invoke, GateExpires, InnerSucceeds, InnerFailsForGood,
       InnerFailsForNow, Wake, Fallback, Return, history

LEMMA OnlyInvokeStarts ==
  ASSUME NEW c \in Callers, Begin(c) \/ RateStep(c), ~Invoke(c)
  PROVE  UNCHANGED started
BY DEF RateStep, Begin, Reserve, GateExpires, InnerSucceeds, InnerFailsForGood,
       InnerFailsForNow, Wake, Fallback, Return, history

(* What Reserve does, in terms of the sequence. *)
LEMMA ReserveGrants ==
  ASSUME TypeOK, NEW c \in Callers, Reserve(c)
  PROVE  \E s \in Sources, slot \in Nat :
           /\ s = call[c].source
           /\ slot >= nextAllowed[s] /\ slot >= now
           /\ nextAllowed' = [nextAllowed EXCEPT ![s] = slot + MinInterval]
           /\ Len(slots'[s]) = Len(slots[s]) + 1
           /\ slots'[s][Len(slots[s]) + 1] = slot
           /\ \A n \in 1 .. Len(slots[s]) : slots'[s][n] = slots[s][n]
           /\ \A t \in Sources \ {s} : slots'[t] = slots[t]
           /\ call'[c].at = "slot" /\ call'[c].source = s /\ call'[c].due = slot
<1> DEFINE s == call[c].source
           slot == Later(now, nextAllowed[s])
<1>1. s \in Sources /\ slot \in Nat /\ slot >= nextAllowed[s] /\ slot >= now
  BY DEF TypeOK, Call, Later
<1>2. slots' = [slots EXCEPT ![s] = Append(@, slot)]
  BY DEF Reserve
<1>3. slots'[s] = Append(slots[s], slot) /\ \A t \in Sources \ {s} : slots'[t] = slots[t]
  BY <1>1, <1>2 DEF TypeOK
<1>4. slots[s] \in Seq(Nat)
  BY <1>1 DEF TypeOK
<1>5. /\ Len(slots'[s]) = Len(slots[s]) + 1
      /\ slots'[s][Len(slots[s]) + 1] = slot
      /\ \A n \in 1 .. Len(slots[s]) : slots'[s][n] = slots[s][n]
  <2> HIDE DEF s, slot
  <2> QED
    BY <1>1, <1>3, <1>4
<1>6. nextAllowed' = [nextAllowed EXCEPT ![s] = slot + MinInterval]
  BY DEF Reserve
<1>7. call'[c].at = "slot" /\ call'[c].source = s /\ call'[c].due = slot
  BY DEF Reserve, TypeOK, Call
<1> QED
  <2> HIDE DEF s, slot
  <2> QED
    BY <1>1, <1>3, <1>5, <1>6, <1>7 DEF s

LEMMA SlotsKept ==
  ASSUME TypeOK, SlotsBehind, SlotsSpaced, SlotsFill, NEW c \in Callers, Reserve(c)
  PROVE  SlotsBehind' /\ SlotsSpaced' /\ SlotsFill'
<1>1. PICK s \in Sources, slot \in Nat :
        /\ slot >= nextAllowed[s]
        /\ nextAllowed' = [nextAllowed EXCEPT ![s] = slot + MinInterval]
        /\ Len(slots'[s]) = Len(slots[s]) + 1
        /\ slots'[s][Len(slots[s]) + 1] = slot
        /\ \A n \in 1 .. Len(slots[s]) : slots'[s][n] = slots[s][n]
        /\ \A t \in Sources \ {s} : slots'[t] = slots[t]
  BY ReserveGrants
<1> DEFINE L == Len(slots[s])
<1>2. /\ L \in Nat /\ MinInterval \in Nat /\ nextAllowed[s] \in Nat
      /\ nextAllowed'[s] = slot + MinInterval
      /\ \A n \in 1 .. L : slots[s][n] \in Nat
  BY <1>1, ChainAssumption DEF TypeOK
<1>3. \A t \in Sources \ {s} : nextAllowed'[t] = nextAllowed[t] /\ slots'[t] = slots[t]
  BY <1>1 DEF TypeOK
<1>4. /\ nextAllowed[s] >= L * MinInterval
      /\ \A n \in 1 .. L : slots[s][n] + MinInterval <= nextAllowed[s]
      /\ \A n \in 1 .. L - 1 : slots[s][n + 1] >= slots[s][n] + MinInterval
      /\ \A n \in 1 .. L : slots[s][n] >= (n - 1) * MinInterval
  BY DEF SlotsBehind, SlotsSpaced, SlotsFill
<1>5. /\ \A n \in 1 .. L + 1 : slots'[s][n] + MinInterval <= slot + MinInterval
      /\ \A n \in 1 .. L : slots'[s][n + 1] >= slots'[s][n] + MinInterval
      /\ slot + MinInterval >= (L + 1) * MinInterval
      /\ \A n \in 1 .. L + 1 : slots'[s][n] >= (n - 1) * MinInterval
  <2> DEFINE q == slots[s]
             r == slots'[s]
  <2>1. /\ \A n \in 1 .. L : q[n] \in Nat /\ r[n] = q[n]
        /\ r[L + 1] = slot
    BY <1>1, <1>2
  <2> HIDE DEF L, q, r
  <2>2. /\ \A n \in 1 .. L + 1 : r[n] + MinInterval <= slot + MinInterval
        /\ \A n \in 1 .. L : r[n + 1] >= r[n] + MinInterval
        /\ slot + MinInterval >= (L + 1) * MinInterval
        /\ \A n \in 1 .. L + 1 : r[n] >= (n - 1) * MinInterval
    <3>1. slot >= nextAllowed[s]
      BY <1>1
    <3>2. /\ \A n \in 1 .. L : q[n] + MinInterval <= nextAllowed[s]
          /\ \A n \in 1 .. L - 1 : q[n + 1] >= q[n] + MinInterval
          /\ \A n \in 1 .. L : q[n] >= (n - 1) * MinInterval
      BY <1>4 DEF q
    <3>3. MinInterval \in Nat /\ L \in Nat /\ nextAllowed[s] \in Nat
      BY <1>2
    <3>4. nextAllowed[s] >= L * MinInterval
      BY <1>4
    <3> DEFINE m == MinInterval
               next == nextAllowed[s]
    <3> HIDE DEF m, next
    <3>5. /\ m \in Nat /\ L \in Nat /\ next \in Nat /\ slot >= next /\ next >= L * m
          /\ \A n \in 1 .. L : q[n] + m <= next
          /\ \A n \in 1 .. L - 1 : q[n + 1] >= q[n] + m
          /\ \A n \in 1 .. L : q[n] >= (n - 1) * m
      BY <3>1, <3>2, <3>3, <3>4 DEF m, next
    <3>6. /\ \A n \in 1 .. L + 1 : r[n] + m <= slot + m
          /\ \A n \in 1 .. L : r[n + 1] >= r[n] + m
          /\ slot + m >= (L + 1) * m
          /\ \A n \in 1 .. L + 1 : r[n] >= (n - 1) * m
      <4> USE <2>1, <3>5
      <4>0. L * m \in Nat /\ (L + 1) * m = L * m + m
        OBVIOUS
      <4>1. ASSUME NEW n \in 1 .. L + 1 PROVE r[n] + m <= slot + m
        <5>1. CASE n = L + 1
          BY <5>1
        <5>2. CASE n \in 1 .. L
          <6>1. q[n] \in Nat /\ r[n] = q[n] /\ q[n] + m <= next
            BY <5>2
          <6> QED
            BY <6>1
        <5> QED
          BY <5>1, <5>2
      <4>2. ASSUME NEW n \in 1 .. L PROVE r[n + 1] >= r[n] + m
        <5>0. q[n] \in Nat /\ r[n] = q[n] /\ q[n] + m <= next
          OBVIOUS
        <5>1. CASE n = L
          BY <5>0, <5>1
        <5>2. CASE n \in 1 .. L - 1
          <6>1. n + 1 \in 1 .. L
            BY <5>2
          <6>2. r[n + 1] = q[n + 1] /\ q[n + 1] >= q[n] + m
            BY <5>2, <6>1
          <6> QED
            BY <5>0, <6>2
        <5> QED
          BY <5>1, <5>2
      <4>3. ASSUME NEW n \in 1 .. L + 1 PROVE r[n] >= (n - 1) * m
        <5>1. CASE n = L + 1
          <6>1. (n - 1) * m = L * m
            BY <5>1
          <6> QED
            BY <4>0, <5>1, <6>1
        <5>2. CASE n \in 1 .. L
          <6>1. r[n] = q[n] /\ q[n] >= (n - 1) * m
            BY <5>2
          <6> QED
            BY <6>1
        <5> QED
          BY <5>1, <5>2
      <4>4. slot + m >= (L + 1) * m
        BY <4>0
      <4> QED
        BY <4>1, <4>2, <4>3, <4>4
    <3> QED
      BY <3>6 DEF m
  <2> QED
    BY <2>2 DEF r
<1>6. Len(slots'[s]) = L + 1 /\ (L + 1) - 1 = L
  BY <1>1, <1>2
<1>7. ASSUME NEW t \in Sources
      PROVE  /\ \A n \in 1 .. Len(slots'[t]) : slots'[t][n] + MinInterval <= nextAllowed'[t]
             /\ \A n \in 1 .. Len(slots'[t]) - 1 :
                  slots'[t][n + 1] >= slots'[t][n] + MinInterval
             /\ nextAllowed'[t] >= Len(slots'[t]) * MinInterval
             /\ \A n \in 1 .. Len(slots'[t]) : slots'[t][n] >= (n - 1) * MinInterval
  <2>1. CASE t = s
    <3> HIDE DEF L
    <3> QED
      BY <1>2, <1>5, <1>6, <2>1
  <2>2. CASE t # s
    BY <1>3, <2>2 DEF SlotsBehind, SlotsSpaced, SlotsFill
  <2> QED
    BY <2>1, <2>2
<1> QED
  BY <1>7 DEF SlotsBehind, SlotsSpaced, SlotsFill

LEMMA UsedFinite ==
  ASSUME TypeOK, NEW s \in Sources
  PROVE  IsFiniteSet(Used(s)) /\ Cardinality(Used(s)) \in Nat
<1>1. Len(slots[s]) \in Int /\ 1 \in Int
  BY DEF TypeOK
<1>2. IsFiniteSet(1 .. Len(slots[s]))
  BY <1>1, FS_Interval
<1>3. Used(s) \subseteq 1 .. Len(slots[s])
  BY DEF Used
<1>4. IsFiniteSet(Used(s))
  BY <1>2, <1>3, FS_Subset
<1> QED
  BY <1>4, FS_CardinalityType

LEMMA UsedFiniteNext ==
  ASSUME TypeOK', NEW s \in Sources
  PROVE  IsFiniteSet(Used(s)') /\ Cardinality(Used(s)') \in Nat
<1>1. Len(slots'[s]) \in Int /\ 1 \in Int
  BY DEF TypeOK
<1>2. IsFiniteSet(1 .. Len(slots'[s]))
  BY <1>1, FS_Interval
<1>3. Used(s)' \subseteq 1 .. Len(slots'[s])
  BY DEF Used
<1>4. IsFiniteSet(Used(s)')
  BY <1>2, <1>3, FS_Subset
<1> QED
  BY <1>4, FS_CardinalityType

(* Who waits no longer and a later time only add to the used slots. *)
LEMMA UsedGrows ==
  ASSUME TypeOK, TypeOK', NEW s \in Sources, now' >= now, slots'[s] = slots[s],
         \A d \in Waiting(s)' : d \in Waiting(s) /\ call'[d].due = call[d].due
  PROVE  Used(s) \subseteq Used(s)'
<1>1. now \in Nat /\ now' \in Nat /\ \A n \in 1 .. Len(slots[s]) : slots[s][n] \in Nat
  BY DEF TypeOK
<1> QED
  BY <1>1 DEF Used

(* Only Reserve makes a caller wait for a slot. *)
LEMMA WaitersLeave ==
  ASSUME TypeOK, NEW c \in Callers, Begin(c) \/ RateStep(c), ~Reserve(c), NEW s \in Sources
  PROVE  \A d \in Waiting(s)' : d # c /\ d \in Waiting(s) /\ call'[d].due = call[d].due
<1>1. call'[c].at # "slot"
  <2> USE DEF TypeOK, Call, Goto, IdleCall
  <2>0. ASSUME GiveUp(c) PROVE call'[c].at # "slot"
    <3>1. CASE call[c].source = "primary"
      BY <2>0, <3>1 DEF GiveUp
    <3>2. CASE call[c].source # "primary"
      BY <2>0, <3>2 DEF GiveUp
    <3> QED
      BY <3>1, <3>2
  <2>1. CASE Begin(c)
    BY <2>1 DEF Begin
  <2>2. CASE Invoke(c)
    BY <2>2 DEF Invoke
  <2>3. CASE GateExpires(c)
    BY <2>0, <2>3 DEF GateExpires
  <2>4. CASE InnerSucceeds(c)
    BY <2>4 DEF InnerSucceeds
  <2>5. CASE InnerFailsForGood(c)
    BY <2>0, <2>5 DEF InnerFailsForGood
  <2>6. CASE InnerFailsForNow(c)
    <3>1. CASE GiveUp(c)
      BY <2>0, <3>1
    <3>2. CASE \E n : call' = [call EXCEPT ![c].at = "sleep", ![c].due = n]
      BY <3>2
    <3> QED
      BY <2>6, <3>1, <3>2 DEF InnerFailsForNow
  <2>7. CASE Wake(c)
    BY <2>0, <2>7 DEF Wake
  <2>8. CASE Fallback(c)
    BY <2>8 DEF Fallback
  <2>9. CASE Return(c)
    BY <2>9 DEF Return
  <2> QED
    BY <2>1, <2>2, <2>3, <2>4, <2>5, <2>6, <2>7, <2>8, <2>9 DEF RateStep
<1>2. \A d \in Callers \ {c} : call'[d] = call[d]
  BY OthersStay
<1> QED
  BY <1>1, <1>2 DEF Waiting

LEMMA OwnSlotFrame ==
  ASSUME TypeOK, NEW s \in Sources, slots'[s] = slots[s],
         \A d \in Waiting(s)' : d \in Waiting(s) /\ call'[d].due = call[d].due,
         OwnSlot
  PROVE  \A c \in Waiting(s)' :
           /\ \E n \in 1 .. Len(slots'[s]) : slots'[s][n] = call'[c].due
           /\ \A d \in Waiting(s)' \ {c} : call'[d].due # call'[c].due
<1> SUFFICES ASSUME NEW c \in Waiting(s)'
    PROVE  /\ \E n \in 1 .. Len(slots'[s]) : slots'[s][n] = call'[c].due
           /\ \A d \in Waiting(s)' \ {c} : call'[d].due # call'[c].due
  OBVIOUS
<1>1. c \in Waiting(s) /\ call'[c].due = call[c].due
  OBVIOUS
<1>2. /\ \E n \in 1 .. Len(slots[s]) : slots[s][n] = call[c].due
      /\ \A d \in Waiting(s) \ {c} : call[d].due # call[c].due
  BY <1>1 DEF OwnSlot
<1> QED
  BY <1>1, <1>2

(* A step that grants no slot and starts no call. *)
LEMMA GateFrame ==
  ASSUME TypeOK, TypeOK', GateInv, now' >= now, UNCHANGED <<slots, started>>,
         \A s \in Sources : \A d \in Waiting(s)' :
           d \in Waiting(s) /\ call'[d].due = call[d].due
  PROVE  GateInv'
<1> SUFFICES ASSUME MinInterval > 0 PROVE OwnSlot' /\ CallsUseSlots'
  BY DEF GateInv
<1>1. OwnSlot /\ CallsUseSlots
  BY DEF GateInv
<1>2. OwnSlot'
  BY <1>1, OwnSlotFrame DEF OwnSlot
<1>3. ASSUME NEW s \in Sources PROVE Len(started'[s]) <= Cardinality(Used(s)')
  <2>1. IsFiniteSet(Used(s)') /\ Cardinality(Used(s)') \in Nat
    BY UsedFiniteNext
  <2>2. Used(s) \subseteq Used(s)'
    BY UsedGrows
  <2>3. Cardinality(Used(s)) <= Cardinality(Used(s)')
    BY <2>1, <2>2, FS_Subset
  <2>4. Cardinality(Used(s)) \in Nat /\ Len(started[s]) \in Nat
    BY UsedFinite DEF TypeOK
  <2>5. Len(started[s]) <= Cardinality(Used(s))
    BY <1>1 DEF CallsUseSlots
  <2> QED
    BY <2>1, <2>3, <2>4, <2>5
<1> QED
  BY <1>2, <1>3 DEF CallsUseSlots

(* The call that starts uses up the slot its caller has waited for. *)
LEMMA InvokeGate ==
  ASSUME TypeOK, TypeOK', GateInv, NEW c \in Callers, Invoke(c)
  PROVE  GateInv'
<1> SUFFICES ASSUME MinInterval > 0 PROVE OwnSlot' /\ CallsUseSlots'
  BY DEF GateInv
<1>0. OwnSlot /\ CallsUseSlots
  BY DEF GateInv
<1>1. slots' = slots /\ now' = now /\ ~Reserve(c)
  BY DEF Invoke, Reserve
<1>2. \A s \in Sources : \A d \in Waiting(s)' :
        d # c /\ d \in Waiting(s) /\ call'[d].due = call[d].due
  BY <1>1, WaitersLeave DEF RateStep
<1>3. OwnSlot'
  BY <1>0, <1>1, <1>2, OwnSlotFrame DEF OwnSlot
<1>4. ASSUME NEW s \in Sources PROVE Len(started'[s]) <= Cardinality(Used(s)')
  <2>1. /\ IsFiniteSet(Used(s)') /\ Cardinality(Used(s)') \in Nat
        /\ IsFiniteSet(Used(s)) /\ Cardinality(Used(s)) \in Nat
    BY UsedFinite, UsedFiniteNext
  <2>2. now' >= now /\ now \in Nat
    BY <1>1 DEF TypeOK
  <2>3. Used(s) \subseteq Used(s)'
    BY <1>1, <1>2, <2>2, UsedGrows
  <2>4. Len(started[s]) \in Nat /\ Len(started[s]) <= Cardinality(Used(s))
    BY <1>0 DEF CallsUseSlots, TypeOK
  <2>5. CASE s # call[c].source
    <3>1. started'[s] = started[s]
      BY <2>5 DEF Invoke, TypeOK
    <3>2. Cardinality(Used(s)) <= Cardinality(Used(s)')
      BY <2>1, <2>3, FS_Subset
    <3> QED
      BY <2>1, <2>4, <3>1, <3>2
  <2>6. CASE s = call[c].source
    <3>1. c \in Waiting(s) /\ call[c].due <= now
      BY <2>2, <2>6 DEF Invoke, Waiting, TypeOK, Call
    <3>2. PICK n \in 1 .. Len(slots[s]) : slots[s][n] = call[c].due
      BY <1>0, <3>1 DEF OwnSlot
    <3>3. n \notin Used(s)
      BY <3>1, <3>2 DEF Used
    <3>4. \A d \in Waiting(s)' : call'[d].due # slots'[s][n]
      BY <1>0, <1>1, <1>2, <3>1, <3>2 DEF OwnSlot
    <3>5. n \in Used(s)'
      BY <1>1, <3>1, <3>2, <3>4 DEF Used
    <3>6. Cardinality(Used(s) \cup {n}) = Cardinality(Used(s)) + 1
      BY <2>1, <3>3, FS_AddElement
    <3>7. (Used(s) \cup {n}) \subseteq Used(s)'
      BY <2>3, <3>5
    <3>8. Cardinality(Used(s) \cup {n}) <= Cardinality(Used(s)')
      BY <2>1, <3>7, FS_Subset
    <3>9. Len(started'[s]) = Len(started[s]) + 1
      <4>1. started' = [started EXCEPT ![s] = Append(@, now)]
        BY <2>6 DEF Invoke
      <4>2. started[s] \in Seq(Nat) /\ started'[s] = Append(started[s], now)
        BY <4>1 DEF TypeOK
      <4> QED
        BY <4>2
    <3> QED
      BY <2>1, <2>4, <3>6, <3>8, <3>9
  <2> QED
    BY <2>5, <2>6
<1> QED
  BY <1>3, <1>4 DEF CallsUseSlots

(* The slot just granted is later than all others of its source. *)
LEMMA ReserveGate ==
  ASSUME TypeOK, TypeOK', SlotsBehind, GateInv, NEW c \in Callers, Reserve(c)
  PROVE  GateInv'
<1> SUFFICES ASSUME MinInterval > 0 PROVE OwnSlot' /\ CallsUseSlots'
  BY DEF GateInv
<1>0. OwnSlot /\ CallsUseSlots /\ MinInterval \in Nat
  BY ChainAssumption DEF GateInv
<1>1. PICK s \in Sources, slot \in Nat :
        /\ s = call[c].source
        /\ slot >= nextAllowed[s] /\ slot >= now
        /\ nextAllowed' = [nextAllowed EXCEPT ![s] = slot + MinInterval]
        /\ Len(slots'[s]) = Len(slots[s]) + 1
        /\ slots'[s][Len(slots[s]) + 1] = slot
        /\ \A n \in 1 .. Len(slots[s]) : slots'[s][n] = slots[s][n]
        /\ \A t \in Sources \ {s} : slots'[t] = slots[t]
        /\ call'[c].at = "slot" /\ call'[c].source = s /\ call'[c].due = slot
  BY ReserveGrants
<1>2. /\ now' = now /\ call[c].at = "gate" /\ started' = started
      /\ \A d \in Callers \ {c} : call'[d] = call[d]
  BY OthersStay DEF RateStep, Reserve
<1>3. Len(slots[s]) \in Nat /\ now \in Nat
  BY DEF TypeOK
<1>4. \A n \in 1 .. Len(slots[s]) : slots[s][n] # slot
  <2> SUFFICES ASSUME NEW n \in 1 .. Len(slots[s]) PROVE slots[s][n] # slot
    OBVIOUS
  <2>1. slots[s][n] + MinInterval <= nextAllowed[s]
    BY DEF SlotsBehind
  <2>2. slots[s][n] \in Nat /\ nextAllowed[s] \in Nat
    BY DEF TypeOK
  <2> QED
    BY <1>0, <1>1, <2>1, <2>2
<1>5. Waiting(s)' = Waiting(s) \cup {c} /\ c \notin Waiting(s)
  BY <1>1, <1>2 DEF Waiting
<1>6. \A t \in Sources \ {s} : Waiting(t)' = Waiting(t)
  BY <1>1, <1>2 DEF Waiting
<1>7. \A t \in Sources : \A d \in Waiting(t) : d # c /\ call'[d] = call[d]
  BY <1>2 DEF Waiting
<1>8. \A d \in Waiting(s) : call[d].due # slot
  BY <1>0, <1>4 DEF OwnSlot
<1>9. OwnSlot'
  <2>1. ASSUME NEW d \in Waiting(s)'
        PROVE  /\ \E n \in 1 .. Len(slots'[s]) : slots'[s][n] = call'[d].due
               /\ \A e \in Waiting(s)' \ {d} : call'[e].due # call'[d].due
    <3>1. CASE d = c
      <4>1. Len(slots[s]) + 1 \in 1 .. Len(slots'[s])
        BY <1>1, <1>3
      <4>2. \A e \in Waiting(s)' \ {d} : call'[e].due # slot
        BY <1>5, <1>7, <1>8, <3>1
      <4> QED
        BY <1>1, <3>1, <4>1, <4>2
    <3>2. CASE d # c
      <4>1. d \in Waiting(s) /\ call'[d].due = call[d].due
        BY <1>5, <1>7, <3>2
      <4>2. PICK n \in 1 .. Len(slots[s]) : slots[s][n] = call[d].due
        BY <1>0, <4>1 DEF OwnSlot
      <4>3. n \in 1 .. Len(slots'[s])
        BY <1>1, <1>3
      <4>4. slots'[s][n] = call'[d].due
        BY <1>1, <4>1, <4>2
      <4>5. \A e \in Waiting(s) \ {d} : call'[e].due # call'[d].due
        BY <1>0, <1>7, <4>1 DEF OwnSlot
      <4>6. call'[c].due # call'[d].due
        BY <1>1, <1>8, <4>1
      <4> QED
        BY <1>5, <4>3, <4>4, <4>5, <4>6
    <3> QED
      BY <3>1, <3>2
  <2>2. ASSUME NEW t \in Sources \ {s}, NEW d \in Waiting(t)'
        PROVE  /\ \E n \in 1 .. Len(slots'[t]) : slots'[t][n] = call'[d].due
               /\ \A e \in Waiting(t)' \ {d} : call'[e].due # call'[d].due
    <3>1. \A e \in Waiting(t)' : e \in Waiting(t) /\ call'[e].due = call[e].due
      BY <1>6, <1>7
    <3>2. slots'[t] = slots[t]
      BY <1>1
    <3> QED
      BY <1>0, <3>1, <3>2, OwnSlotFrame
  <2> QED
    BY <2>1, <2>2 DEF OwnSlot
<1>10. ASSUME NEW t \in Sources PROVE Len(started'[t]) <= Cardinality(Used(t)')
  <2>1. /\ IsFiniteSet(Used(t)') /\ Cardinality(Used(t)') \in Nat
        /\ IsFiniteSet(Used(t)) /\ Cardinality(Used(t)) \in Nat
    BY UsedFinite, UsedFiniteNext
  <2>2. Used(t) \subseteq Used(t)'
    <3>1. CASE t = s
      <4> SUFFICES ASSUME NEW n \in Used(s) PROVE n \in Used(s)'
        BY <3>1
      <4>1. n \in 1 .. Len(slots[s]) /\ slots[s][n] <= now
            /\ \A d \in Waiting(s) : call[d].due # slots[s][n]
        BY DEF Used
      <4>2. n \in 1 .. Len(slots'[s]) /\ slots'[s][n] = slots[s][n]
        BY <1>1, <1>3, <4>1
      <4>3. \A d \in Waiting(s)' : call'[d].due # slots'[s][n]
        BY <1>1, <1>4, <1>5, <1>7, <4>1, <4>2
      <4> QED
        BY <1>2, <4>1, <4>2, <4>3 DEF Used
    <3>2. CASE t # s
      <4>1. slots'[t] = slots[t] /\ now' >= now
        BY <1>1, <1>2, <1>3, <3>2
      <4>2. \A d \in Waiting(t)' : d \in Waiting(t) /\ call'[d].due = call[d].due
        BY <1>6, <1>7, <3>2
      <4> QED
        BY <4>1, <4>2, UsedGrows
    <3> QED
      BY <3>1, <3>2
  <2>3. Cardinality(Used(t)) <= Cardinality(Used(t)')
    BY <2>1, <2>2, FS_Subset
  <2>4. Len(started[t]) \in Nat /\ Len(started[t]) <= Cardinality(Used(t))
    BY <1>0 DEF CallsUseSlots, TypeOK
  <2> QED
    BY <1>2, <2>1, <2>3, <2>4
<1> QED
  BY <1>9, <1>10 DEF CallsUseSlots

-----------------------------------------------------------------------------
(* The invariant holds initially and is preserved.                         *)

LEMMA InitIInv == Init => IInv
<1> SUFFICES ASSUME Init PROVE IInv
  OBVIOUS
<1>0. TypeOK
  BY InitTypeOK
<1>1. MaxAttempts \in Nat /\ MinInterval \in Nat
  BY ChainAssumption
<1>2. CallersGood
  BY <1>1 DEF Init, CallersGood, Good, IdleCall, NothingSeen, Sources
<1>3. \A s \in Sources : Len(slots[s]) = 0 /\ Len(started[s]) = 0 /\ nextAllowed[s] = 0
  BY DEF Init
<1>4. SlotsBehind /\ SlotsSpaced /\ SlotsFill
  BY <1>1, <1>3 DEF SlotsBehind, SlotsSpaced, SlotsFill
<1>5. OwnSlot
  BY DEF Init, OwnSlot, Waiting, IdleCall
<1>6. CallsUseSlots
  <2> SUFFICES ASSUME NEW s \in Sources PROVE Len(started[s]) <= Cardinality(Used(s))
    BY DEF CallsUseSlots
  <2>1. Cardinality(Used(s)) \in Nat
    BY <1>0, UsedFinite
  <2> QED
    BY <1>3, <2>1
<1> QED
  BY <1>0, <1>2, <1>4, <1>5, <1>6 DEF IInv, GateInv

LEMMA TickIInv == ASSUME IInv, Tick PROVE IInv'
<1>1. now \in Nat /\ now' = now + 1 /\ UNCHANGED <<nextAllowed, call, slots, started, seen>>
  BY DEF IInv, TypeOK, Tick, history
<1>2. TypeOK'
  BY <1>1, ChainAssumption DEF IInv, TypeOK, Tick
<1>3. CallersGood'
  <2> SUFFICES ASSUME NEW c \in Callers PROVE Good(call[c], seen[c], now')
    BY <1>1 DEF CallersGood
  <2>1. Good(call[c], seen[c], now)
    BY DEF IInv, CallersGood
  <2>2. call[c].deadline \in Nat /\ seen[c].notBefore \in Nat
    BY DEF IInv, TypeOK, Call, Seen
  <2> QED
    BY <1>1, <2>1, <2>2 DEF Good
<1>4. SlotsBehind' /\ SlotsSpaced' /\ SlotsFill'
  BY <1>1 DEF IInv, SlotsBehind, SlotsSpaced, SlotsFill
<1>5. GateInv'
  <2>1. now' >= now /\ TypeOK /\ GateInv
    BY <1>1 DEF IInv
  <2>2. \A s \in Sources : \A d \in Waiting(s)' :
          d \in Waiting(s) /\ call'[d].due = call[d].due
    BY <1>1 DEF Waiting
  <2> QED
    BY <1>1, <1>2, <2>1, <2>2, GateFrame
<1> QED
  BY <1>2, <1>3, <1>4, <1>5 DEF IInv

LEMMA StepIInv ==
  ASSUME IInv, NEW c \in Callers, Begin(c) \/ RateStep(c)
  PROVE  IInv'
<1>0. TypeOK /\ CallersGood /\ SlotsBehind /\ SlotsSpaced /\ SlotsFill /\ GateInv
  BY DEF IInv
<1>1. TypeOK'
  BY <1>0, StepTypeOK
<1>2. now' = now /\ \A d \in Callers \ {c} : call'[d] = call[d] /\ seen'[d] = seen[d]
  BY <1>0, OthersStay
<1>3. CallersGood'
  <2>1. Good(call[c], seen[c], now)
    BY <1>0 DEF CallersGood
  <2>2. Good(call'[c], seen'[c], now)
    BY <1>0, <2>1, StepGood
  <2> QED
    BY <1>0, <1>2, <2>2 DEF CallersGood
<1>4. CASE Reserve(c)
  <2>1. SlotsBehind' /\ SlotsSpaced' /\ SlotsFill'
    BY <1>0, <1>4, SlotsKept
  <2>2. GateInv'
    BY <1>0, <1>1, <1>4, ReserveGate
  <2> QED
    BY <1>1, <1>3, <2>1, <2>2 DEF IInv
<1>5. CASE ~Reserve(c)
  <2>1. nextAllowed' = nextAllowed /\ slots' = slots
    BY <1>5, OnlyReserveGrants
  <2>2. SlotsBehind' /\ SlotsSpaced' /\ SlotsFill'
    BY <1>0, <2>1 DEF SlotsBehind, SlotsSpaced, SlotsFill
  <2>3. CASE Invoke(c)
    BY <1>0, <1>1, <1>3, <2>2, <2>3, InvokeGate DEF IInv
  <2>4. CASE ~Invoke(c)
    <3>1. started' = started
      BY <2>4, OnlyInvokeStarts
    <3>2. \A s \in Sources : \A d \in Waiting(s)' :
            d \in Waiting(s) /\ call'[d].due = call[d].due
      BY <1>0, <1>5, WaitersLeave
    <3>3. now' >= now
      BY <1>0, <1>2 DEF TypeOK
    <3>4. GateInv'
      BY <1>0, <1>1, <2>1, <3>1, <3>2, <3>3, GateFrame
    <3> QED
      BY <1>1, <1>3, <2>2, <3>4 DEF IInv
  <2> QED
    BY <2>3, <2>4
<1> QED
  BY <1>4, <1>5

LEMMA NextIInv == IInv /\ [Next]_vars => IInv'
<1> SUFFICES ASSUME IInv, [Next]_vars PROVE IInv'
  OBVIOUS
<1>1. CASE Tick
  BY <1>1, TickIInv
<1>2. ASSUME NEW c \in Callers, Begin(c) \/ RateStep(c) PROVE IInv'
  BY <1>2, StepIInv
<1>3. CASE UNCHANGED vars
  <2> USE <1>3 DEF vars, chain, history
  <2>1. TypeOK' /\ CallersGood'
    BY DEF IInv, TypeOK, CallersGood
  <2>2. SlotsBehind' /\ SlotsSpaced' /\ SlotsFill'
    BY DEF IInv, SlotsBehind, SlotsSpaced, SlotsFill
  <2>3. GateInv'
    BY DEF IInv, GateInv, OwnSlot, CallsUseSlots, Waiting, Used
  <2> QED
    BY <2>1, <2>2, <2>3 DEF IInv
<1> QED
  BY <1>1, <1>2, <1>3 DEF Next

-----------------------------------------------------------------------------
(* The theorems.                                                           *)

(* The inductive invariant: where every caller stands and what its Rate    *)
(* went through (resilient.go:60-119, fallback.go:56-80), and how slots    *)
(* and calls of a source relate.                                           *)
THEOREM InvariantHolds == Spec => []IInv
<1> QED
  BY InitIInv, NextIInv, PTL DEF Spec

(* Every variable keeps its type, whatever the settings of the chain.      *)
THEOREM TypeCorrect == Spec => []TypeOK
<1>1. IInv => TypeOK
  BY DEF IInv
<1> QED
  BY <1>1, InvariantHolds, PTL

(* However many workers queue at the gate, the slots it grants are at      *)
(* least MinInterval apart (resilient.go:97-106).                          *)
THEOREM SlotsSpacedAlways == Spec => []SlotsSpaced
<1>1. IInv => SlotsSpaced
  BY DEF IInv
<1> QED
  BY <1>1, InvariantHolds, PTL

(* The quota: by any moment a source has been called at most once per      *)
(* MinInterval, however late the goroutines run (resilient.go:58-119).     *)
THEOREM QuotaHeldAlways == Spec => []QuotaHeld
<1>1. IInv => QuotaHeld
  <2> SUFFICES ASSUME IInv, MinInterval > 0, NEW s \in Sources
               PROVE  Len(started[s]) <= now \div MinInterval + 1
    BY DEF QuotaHeld
  <2> DEFINE k == now \div MinInterval + 1
  <2>1. /\ now \in Nat /\ MinInterval \in Nat \ {0}
        /\ Len(started[s]) \in Nat /\ Len(started[s]) <= Cardinality(Used(s))
    BY ChainAssumption DEF IInv, TypeOK, GateInv, CallsUseSlots
  <2>2. now \div MinInterval \in Nat /\ k \in Nat /\ k >= 1
    BY <2>1
  <2>3. Used(s) \subseteq 1 .. k
    <3> SUFFICES ASSUME NEW n \in Used(s) PROVE n \in 1 .. k
      OBVIOUS
    <3>1. n \in 1 .. Len(slots[s]) /\ slots[s][n] <= now
      BY DEF Used
    <3>2. slots[s][n] >= (n - 1) * MinInterval
      BY <3>1 DEF IInv, SlotsFill
    <3>3. slots[s][n] \in Nat /\ n \in Nat /\ n >= 1
      BY <3>1 DEF IInv, TypeOK
    <3> DEFINE i == n - 1
    <3>4. i \in Nat
      BY <3>3
    <3>5. i * MinInterval \in Nat /\ i * MinInterval <= now
      <4>1. i * MinInterval \in Nat
        BY <2>1, <3>4
      <4> HIDE DEF i
      <4> QED
        BY <2>1, <3>1, <3>2, <3>3, <4>1 DEF i
    <3>6. i <= now \div MinInterval
      <4> HIDE DEF i
      <4> QED
        BY <2>1, <3>4, <3>5, DivAtLeast
    <3> QED
      BY <2>2, <3>3, <3>6
  <2>4. IsFiniteSet(1 .. k) /\ Cardinality(1 .. k) = k
    <3> HIDE DEF k
    <3>1. 1 \in Int /\ k \in Int
      BY <2>2
    <3> QED
      BY <2>2, <3>1, FS_Interval
  <2>5. Cardinality(Used(s)) <= k
    BY <2>3, <2>4, FS_Subset
  <2>6. Cardinality(Used(s)) \in Nat
    BY UsedFinite DEF IInv
  <2> QED
    <3> HIDE DEF k
    <3>1. Len(started[s]) <= k
      BY <2>1, <2>2, <2>5, <2>6
    <3> QED
      BY <3>1 DEF k
<1> QED
  BY <1>1, InvariantHolds, PTL

(* The secondary is asked only when the primary has used up its attempts   *)
(* or has failed for good, and no source is asked more often than that     *)
(* (resilient.go:60-87, fallback.go:56-80).                                *)
THEOREM RetriesBeforeFallbackAlways == Spec => []RetriesBeforeFallback
<1>1. IInv => RetriesBeforeFallback
  BY DEF IInv, CallersGood, Good, RetriesBeforeFallback
<1> QED
  BY <1>1, InvariantHolds, PTL

(* No retry starts before the time a Retry-After asked for, up to MaxDelay, *)
(* if the time fits a Duration (resilient.go:121-129, 145-157): for the    *)
(* others see BackoffGrowsAlways.                                          *)
THEOREM RetryNotBeforeAskedAlways == Spec => []RetryNotBeforeAsked
<1>1. IInv => RetryNotBeforeAsked
  BY DEF IInv, CallersGood, Good, RetryNotBeforeAsked
<1> QED
  BY <1>1, InvariantHolds, PTL

(* A Rate that fails without having asked the secondary has run out of     *)
(* its deadline (fallback.go:56-64).                                       *)
THEOREM SecondarySkippedOnlyLateAlways == Spec => []SecondarySkippedOnlyLate
<1>1. IInv => SecondarySkippedOnlyLate
  BY DEF IInv, CallersGood, Good, SecondarySkippedOnlyLate, Expired
<1> QED
  BY <1>1, InvariantHolds, PTL

(* A price is the quotient of the reference rates for all currencies and   *)
(* rates, whichever API answers and whatever base it answers with          *)
(* (cross.go:10-35, frankfurter and exchangeratesapi provider.go).         *)
THEOREM PriceIsTheQuotientAlways == Spec => []PriceIsTheQuotient
<1>1. IInv => PriceIsTheQuotient
  BY DEF IInv, CallersGood, Good, PriceIsTheQuotient
<1> QED
  BY <1>1, InvariantHolds, PTL

(* Whatever Retry-After says, a retry pauses and not longer than MaxDelay;  *)
(* and through every attempt the delay grows as the doubled base delay     *)
(* does, up to MaxDelay and less a fifth of jitter, while the shift stays  *)
(* within a Duration or BaseDelay * MaxDelay does (resilient.go:121-142).  *)
THEOREM BackoffGrowsAlways == Spec => []BackoffGrows
<1>1. IInv => BackoffGrows
  <2> SUFFICES ASSUME IInv, NEW c \in Callers, NEW n \in Later(call[c].attempt, 1) .. Half + 2
               PROVE  LET exact == BaseDelay * Pow2[n - 1]
                      IN  /\ \A told \in Told : Pauses[n][told] \subseteq 1 .. MaxDelay
                          /\ exact < Half \/ BaseDelay * MaxDelay < Half =>
                               \A d \in Pauses[n][0] : 5 * d >= 4 * Sooner(exact, MaxDelay)
    BY DEF BackoffGrows
  <2>1. call[c].attempt \in Nat /\ Half \in Nat
    BY AnswerAssumption DEF IInv, TypeOK, Call
  <2>2. n \in Nat \ {0} /\ n \in 1 .. Half + 2
    BY <2>1 DEF Later
  <2>3. Told \subseteq Nat
    BY HeaderTold DEF Told
  <2>4. 0 \in Told
    <3>1. NoHeader.form = "absent"
      BY DEF NoHeader
    <3>2. RetryAfterFromHeader(NoHeader) = 0
      BY <3>1 DEF RetryAfterFromHeader
    <3>3. RetryAfterFrom(RetryAfterFromHeader(NoHeader)) = 0
      BY <3>2 DEF RetryAfterFrom
    <3> QED
      BY <3>3 DEF Told
  <2>5. \A told \in Told : Pauses[n][told] = DelayFor(n, told)
    BY <2>2 DEF Pauses
  <2>6. ASSUME NEW told \in Told
        PROVE  Pauses[n][told] \subseteq 1 .. MaxDelay
    BY <2>2, <2>3, <2>5, DelayPauses
  <2>7. ASSUME BaseDelay * Pow2[n - 1] < Half \/ BaseDelay * MaxDelay < Half,
               NEW d \in Pauses[n][0]
        PROVE  5 * d >= 4 * Sooner(BaseDelay * Pow2[n - 1], MaxDelay)
    <3>1. d \in DelayFor(n, 0)
      BY <2>4, <2>5
    <3>2. Backoff(n) = Sooner(BaseDelay * Pow2[n - 1], MaxDelay)
      BY <2>2, <2>7, BackoffExact
    <3> QED
      BY <2>2, <3>1, <3>2, DelayJitter
  <2> QED
    BY <2>6, <2>7
<1> QED
  BY <1>1, InvariantHolds, PTL

=============================================================================
