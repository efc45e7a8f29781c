---------------------------- MODULE HttpApi_proofs ----------------------------
(***************************************************************************)
(* Proofs about HttpApi over Metrics, for any number of connections and    *)
(* workers, any currencies and any traffic.                                *)
(***************************************************************************)
EXTENDS HttpApi, FiniteInduction

-----------------------------------------------------------------------------
(* The inductive invariant.                                                *)

(* The types a step of the protocol relies on. *)
Types ==
  /\ conn \in [Conns -> [at : {"idle", "id", "route", "panic", "observe", "log", "done"},
                         sent : SentIds, header : Ids, code : {0} \cup StatusCodes,
                         recorded : StatusCodes, route : Routes]]
  /\ obs \in [Goroutines -> [at : {"idle", "register", "add", "load", "swap", "count"},
                             key : Counters, timed : BOOLEAN, took : Nat, old : Nat]]
  /\ secondsSum \in Nat /\ secondsCount \in Nat
  /\ DOMAIN counters \subseteq Counters /\ \A k \in DOMAIN counters : counters[k] \in Nat
  /\ DOMAIN answers \subseteq HttpKeys /\ \A k \in DOMAIN answers : answers[k] \in Nat \ {0}

(* The id is on the response before a route handler runs. *)
IdSet ==
  \A c \in Conns : conn[c].at \notin {"idle", "id"} =>
    conn[c].header = IF conn[c].sent = "usable" THEN "client" ELSE "generated"

(* What the recorder holds is what the client got. *)
Truthful ==
  \A c \in Conns : conn[c].at = "observe" =>
    conn[c].code \in StatusCodes /\ conn[c].recorded = conn[c].code

(* Who is about to add holds a registered counter. *)
Registered == \A g \in Goroutines : obs[g].at = "add" => obs[g].key \in DOMAIN counters

Unobserved(k) == {c \in Conns : conn[c].at = "observe" /\ Series(c) = k}

Adding(k) == Counting({"register", "add"}, k)

Replies(k) == IF k \in DOMAIN answers THEN answers[k] ELSE 0

(* Every reply is counted, waits for its count, or is being counted. *)
Accounted ==
  \A k \in HttpKeys : Value(k) + Cardinality(Unobserved(k)) + Cardinality(Adding(k)) = Replies(k)

IInv == Types /\ IdSet /\ Truthful /\ Registered /\ Accounted

-----------------------------------------------------------------------------
(* Codes, routes and label sets.                                           *)

LEMMA ErrorCodes ==
  ASSUME NEW e \in {"invalid_pair", "unsupported_pair", "invalid_id", "not_found", "internal"}
  PROVE  ServiceErrorCode[e] \in StatusCodes
BY DEF ServiceErrorCode, StatusCodes

LEMMA PairErrors ==
  ASSUME NEW text PROVE PairError(text) \in {"invalid_pair", "unsupported_pair", "none"}
BY DEF PairError

LEMMA CodesKnown ==
  ASSUME NEW rc \in RouteCodes
  PROVE  /\ rc[1] \subseteq Methods /\ rc[2] \in Labels
         /\ rc[3] \subseteq {0} \cup StatusCodes
<1>1. {200, 202, 301, 302, 400, 404, 500, 503} \subseteq StatusCodes
  BY DEF StatusCodes
<1>2. ASSUME NEW j, NEW text PROVE CreateCodes(j, text) \subseteq {0} \cup StatusCodes
  BY <1>1, ErrorCodes, PairErrors DEF CreateCodes
<1>3. ASSUME NEW text PROVE GetQuoteCodes(text) \subseteq {0} \cup StatusCodes
  BY <1>1, ErrorCodes, PairErrors DEF GetQuoteCodes
<1>4. ASSUME NEW id PROVE GetRequestCodes(id) \subseteq {0} \cup StatusCodes
  BY <1>1, ErrorCodes DEF GetRequestCodes
<1>5. /\ PostCodes \subseteq {0} \cup StatusCodes
      /\ QuoteCodes \subseteq {0} \cup StatusCodes
      /\ RequestCodes \subseteq {0} \cup StatusCodes
  BY <1>2, <1>3, <1>4 DEF PostCodes, QuoteCodes, RequestCodes
<1>6. {"POST"} \subseteq Methods /\ Read \subseteq Methods
  BY HttpAssumption DEF Read
<1>7. {"/quotes", "/quotes/requests/{id}"} \subseteq Labels
  BY DEF Labels
<1>8. CASE rc = <<{"POST"}, "/quotes", PostCodes>>
  BY <1>5, <1>6, <1>7, <1>8
<1>9. CASE rc = <<Read, "/quotes", QuoteCodes>>
  BY <1>5, <1>6, <1>7, <1>9
<1>10. CASE rc = <<Read, "/quotes/requests/{id}", RequestCodes>>
  BY <1>5, <1>6, <1>7, <1>10
<1>11. CASE rc = <<Read, "/healthz", {200, 503}>>
  <2>1. rc[1] = Read /\ rc[2] = "/healthz" /\ rc[3] = {200, 503}
    BY <1>11
  <2>2. {200, 503} \subseteq {0} \cup StatusCodes
    BY DEF StatusCodes
  <2>3. "/healthz" \in Labels
    BY DEF Labels
  <2> QED
    BY <1>6, <2>1, <2>2, <2>3
<1>12. CASE rc = <<Read, "/version", {200}>>
  <2>1. rc[1] = Read /\ rc[2] = "/version" /\ rc[3] = {200}
    BY <1>12
  <2>2. {200} \subseteq {0} \cup StatusCodes
    BY DEF StatusCodes
  <2>3. "/version" \in Labels
    BY DEF Labels
  <2> QED
    BY <1>6, <2>1, <2>2, <2>3
<1>13. CASE rc = <<Read, "/", {302}>>
  <2>1. rc[1] = Read /\ rc[2] = "/" /\ rc[3] = {302}
    BY <1>13
  <2>2. {302} \subseteq {0} \cup StatusCodes
    BY DEF StatusCodes
  <2>3. "/" \in Labels
    BY DEF Labels
  <2> QED
    BY <1>6, <2>1, <2>2, <2>3
<1>14. CASE rc = <<Read, "/swagger", {301}>>
  <2>1. rc[1] = Read /\ rc[2] = "/swagger" /\ rc[3] = {301}
    BY <1>14
  <2>2. {301} \subseteq {0} \cup StatusCodes
    BY DEF StatusCodes
  <2>3. "/swagger" \in Labels
    BY DEF Labels
  <2> QED
    BY <1>6, <2>1, <2>2, <2>3
<1>15. CASE rc = <<Read, "/debug/pprof", {400, 404, 500}>>
  <2>1. rc[1] = Read /\ rc[2] = "/debug/pprof" /\ rc[3] = {400, 404, 500}
    BY <1>15
  <2>2. {400, 404, 500} \subseteq {0} \cup StatusCodes
    BY DEF StatusCodes
  <2>3. "/debug/pprof" \in Labels
    BY DEF Labels
  <2> QED
    BY <1>6, <2>1, <2>2, <2>3
<1> QED
  BY <1>8, <1>9, <1>10, <1>11, <1>12, <1>13, <1>14, <1>15 DEF RouteCodes

LEMMA MuxCodesKnown ==
  ASSUME NEW method, NEW label PROVE MuxCodes(method, label) \subseteq StatusCodes
BY DEF MuxCodes, StatusCodes

LEMMA ImplicitKnown == Read \subseteq Methods /\ ImplicitRoutes \subseteq Labels
BY HttpAssumption DEF Read, ImplicitRoutes, Labels

LEMMA RouteParts ==
  ASSUME NEW method \in Methods, NEW label \in Labels PROVE <<method, label>> \in Routes
BY DEF Routes

LEMMA KeyParts ==
  ASSUME NEW r \in Routes, NEW n \in StatusCodes
  PROVE  <<"http", r, n>> \in HttpKeys
BY DEF HttpKeys

LEMMA KeysApart == HttpKeys \cap WorkerKeys = {}
<1>1. \A a, b, n : <<a, b, n>>[3] = n
  OBVIOUS
<1>2. ASSUME NEW k \in HttpKeys PROVE k[3] \in StatusCodes
  BY <1>1 DEF HttpKeys
<1>3. ASSUME NEW k \in WorkerKeys PROVE k[3] = 0
  <2>1. \/ \E result \in {"ok", "error"} : k = <<"provider", result, 0>>
        \/ \E v \in PlainVecs : k = <<v, "", 0>>
        \/ k = <<"", "", 0>>
    BY Zenon DEF WorkerKeys
  <2>2. CASE \E result \in {"ok", "error"} : k = <<"provider", result, 0>>
    BY <1>1, <2>2
  <2>3. CASE \E v \in PlainVecs : k = <<v, "", 0>>
    BY <1>1, <2>3
  <2>4. CASE k = <<"", "", 0>>
    BY <1>1, <2>4
  <2> QED
    BY <2>1, <2>2, <2>3, <2>4
<1>4. 0 \notin StatusCodes
  BY DEF StatusCodes
<1> QED
  BY <1>2, <1>3, <1>4

-----------------------------------------------------------------------------
(* Counting.                                                               *)

LEMMA CountsFinite ==
  ASSUME NEW k
  PROVE  /\ IsFiniteSet(Unobserved(k)) /\ Cardinality(Unobserved(k)) \in Nat
         /\ IsFiniteSet(Adding(k)) /\ Cardinality(Adding(k)) \in Nat
<1>1. Unobserved(k) \subseteq Goroutines /\ Adding(k) \subseteq Goroutines
  BY HttpAssumption DEF Unobserved, Adding, Counting
<1>2. IsFiniteSet(Unobserved(k)) /\ IsFiniteSet(Adding(k))
  BY <1>1, MetricsAssumption, FS_Subset
<1> QED
  BY <1>2, FS_CardinalityType

LEMMA ValuesTyped ==
  ASSUME Types, NEW k PROVE Value(k) \in Nat /\ Replies(k) \in Nat
BY DEF Types, Value, Replies

(* One more, one less. *)
LEMMA Gains ==
  ASSUME NEW S, IsFiniteSet(S), NEW x, x \notin S
  PROVE  Cardinality(S \cup {x}) = Cardinality(S) + 1
BY FS_AddElement

LEMMA Loses ==
  ASSUME NEW S, IsFiniteSet(S), NEW x \in S
  PROVE  Cardinality(S \ {x}) = Cardinality(S) - 1
BY FS_RemoveElement

-----------------------------------------------------------------------------
(* The steps of a request.                                                 *)

(* A step of a connection that is not about to count and will not be. *)
LEMMA ConnFrame ==
  ASSUME Types, IInv, NEW c \in Conns, \A d \in Conns \ {c} : conn'[d] = conn[d],
         conn[c].at # "observe", conn'[c].at # "observe", UNCHANGED <<metrics, answers>>
  PROVE  Truthful' /\ Registered' /\ Accounted'
<1>1. Truthful'
  BY DEF IInv, Truthful
<1>2. Registered'
  BY DEF IInv, Registered, metrics
<1>3. ASSUME NEW k
      PROVE  Unobserved(k)' = Unobserved(k) /\ Adding(k)' = Adding(k) /\ Value(k)' = Value(k)
             /\ Replies(k)' = Replies(k)
  BY DEF Unobserved, Series, Adding, Counting, Value, Replies, metrics
<1>4. Accounted'
  BY <1>3 DEF IInv, Accounted
<1> QED
  BY <1>1, <1>2, <1>4

(* What a route writes: a known label and code, and 200 if it is implied. *)
LEMMA RouteWrites ==
  ASSUME NEW c \in Conns, Route(c)
  PROVE  \E route \in Routes, explicit \in BOOLEAN, code \in StatusCodes :
           WriteReply(c, route, explicit, code) /\ (explicit \/ code = 200)
<1>1. CASE \E rc \in RouteCodes : \E method \in rc[1], code \in rc[3] \ {0} :
             WriteReply(c, <<method, rc[2]>>, TRUE, code)
  <2>1. PICK rc \in RouteCodes : \E method \in rc[1], code \in rc[3] \ {0} :
          WriteReply(c, <<method, rc[2]>>, TRUE, code)
    BY <1>1
  <2>2. PICK method \in rc[1], code \in rc[3] \ {0} : WriteReply(c, <<method, rc[2]>>, TRUE, code)
    BY <2>1
  <2>3. <<method, rc[2]>> \in Routes /\ code \in StatusCodes
    BY CodesKnown, RouteParts
  <2> QED
    BY <2>2, <2>3
<1>2. CASE \E label \in ImplicitRoutes, method \in Read : WriteReply(c, <<method, label>>, FALSE, 200)
  <2>1. PICK label \in ImplicitRoutes, method \in Read : WriteReply(c, <<method, label>>, FALSE, 200)
    BY <1>2
  <2>2. <<method, label>> \in Routes /\ 200 \in StatusCodes
    BY ImplicitKnown, RouteParts DEF StatusCodes
  <2> QED
    BY <2>1, <2>2
<1>3. CASE \E method \in Methods, label \in Labels : \E code \in MuxCodes(method, label) :
             WriteReply(c, <<method, label>>, TRUE, code)
  <2>1. PICK method \in Methods, label \in Labels : \E code \in MuxCodes(method, label) :
          WriteReply(c, <<method, label>>, TRUE, code)
    BY <1>3
  <2>2. PICK code \in MuxCodes(method, label) : WriteReply(c, <<method, label>>, TRUE, code)
    BY <2>1
  <2>3. <<method, label>> \in Routes /\ code \in StatusCodes
    BY MuxCodesKnown, RouteParts
  <2> QED
    BY <2>2, <2>3
<1> QED
  BY <1>1, <1>2, <1>3 DEF Route

(* What a connection leaves to the others. *)
LEMMA OtherConns ==
  ASSUME Types, NEW c \in Conns, ConnStep(c)
  PROVE  \A d \in Conns \ {c} : conn'[d] = conn[d]
<1>1. CASE Route(c)
  <2>1. PICK route, explicit, code : WriteReply(c, route, explicit, code)
    BY <1>1, RouteWrites
  <2>2. PICK r : conn' = [conn EXCEPT ![c] = r]
    BY <2>1 DEF WriteReply
  <2> QED
    BY <2>2 DEF Types
<1>2. CASE RoutePanics(c)
  BY <1>2 DEF Types, RoutePanics
<1>3. CASE Arrive(c) \/ SetId(c) \/ Recover(c) \/ Observe(c) \/ Log(c)
  BY <1>3 DEF Types, Arrive, SetId, Recover, Observe, Log
<1> QED
  BY <1>1, <1>2, <1>3 DEF ConnStep

LEMMA RecordFields ==
  ASSUME NEW A, NEW B, NEW C, NEW D, NEW E, NEW F,
         NEW r \in [at : A, sent : B, header : C, code : D, recorded : E, route : F],
         NEW a \in A, NEW h \in C, NEW n \in D, NEW m \in E, NEW l \in F
  PROVE  LET R == [at : A, sent : B, header : C, code : D, recorded : E, route : F]
         IN  /\ [r EXCEPT !.at = a] \in R
             /\ [r EXCEPT !.at = a, !.header = h] \in R
             /\ [r EXCEPT !.at = a, !.route = l] \in R
             /\ [r EXCEPT !.at = a, !.code = n] \in R
             /\ [r EXCEPT !.at = a, !.route = l, !.code = n, !.recorded = m] \in R
OBVIOUS

LEMMA ConnTypes ==
  ASSUME Types, NEW c \in Conns, ConnStep(c)
  PROVE  Types'
<1> DEFINE Records ==
             [at : {"idle", "id", "route", "panic", "observe", "log", "done"},
              sent : SentIds, header : Ids, code : {0} \cup StatusCodes,
              recorded : StatusCodes, route : Routes]
<1>0. conn[c] \in Records /\ conn \in [Conns -> Records]
  BY DEF Types
<1>f. ASSUME NEW r \in Records, conn' = [conn EXCEPT ![c] = r], UNCHANGED <<metrics, answers>>
      PROVE  Types'
  BY <1>f DEF Types, metrics
<1>c. 200 \in StatusCodes /\ 500 \in StatusCodes /\ {"client", "generated", "none"} \subseteq Ids
      /\ <<"", "">> \in Routes
  BY DEF StatusCodes, Ids, Routes
<1>1. CASE Arrive(c)
  <2>1. PICK s \in SentIds : conn' = [conn EXCEPT ![c] = [FreshConn EXCEPT !.at = "id", !.sent = s]]
    BY <1>1 DEF Arrive
  <2>2. [FreshConn EXCEPT !.at = "id", !.sent = s] \in Records
    BY <1>c DEF FreshConn
  <2> QED
    BY <1>1, <1>f, <2>1, <2>2 DEF Arrive
<1>2. CASE SetId(c)
  <2> DEFINE id == IF conn[c].sent = "usable" THEN "client" ELSE "generated"
  <2>1. [conn[c] EXCEPT !.at = "route", !.header = id] \in Records
    <3>1. id \in Ids
      BY <1>c
    <3> HIDE DEF id
    <3> QED
      BY <1>0, <3>1, RecordFields
  <2>2. conn' = [conn EXCEPT ![c] = [conn[c] EXCEPT !.at = "route", !.header = id]]
    BY <1>2 DEF SetId
  <2> QED
    BY <1>2, <1>f, <2>1, <2>2 DEF SetId
<1>3. CASE Route(c)
  <2>1. ASSUME NEW route \in Routes, NEW explicit \in BOOLEAN, NEW code \in StatusCodes,
               WriteReply(c, route, explicit, code)
        PROVE  Types'
    <3> DEFINE r == [conn[c] EXCEPT !.at = "observe", !.route = route, !.code = code,
                                    !.recorded = Recorded(explicit, code)]
               key == <<"http", route, code>>
    <3>1. r \in Records
      <4>1. Recorded(explicit, code) \in StatusCodes
        BY <1>c DEF Recorded
      <4> QED
        BY <1>0, <4>1, RecordFields
    <3>2. conn' = [conn EXCEPT ![c] = r] /\ Answered(key) /\ UNCHANGED metrics
      BY <2>1 DEF WriteReply
    <3>3. key \in HttpKeys
      BY KeyParts
    <3>4. /\ DOMAIN answers' \subseteq HttpKeys
          /\ \A k \in DOMAIN answers' : answers'[k] \in Nat \ {0}
      <4> HIDE DEF key
      <4> QED
        BY <3>2, <3>3 DEF Types, Answered
    <3> HIDE DEF r
    <3> QED
      BY <1>0, <3>1, <3>2, <3>4 DEF Types, metrics
  <2> QED
    BY <1>3, <2>1, RouteWrites
<1>4. CASE RoutePanics(c)
  <2>0. PICK rc \in RouteCodes : \E method \in rc[1] :
          conn' = [conn EXCEPT ![c].at = "panic", ![c].route = <<method, rc[2]>>]
    BY <1>4 DEF RoutePanics
  <2>1. PICK method \in rc[1] :
          conn' = [conn EXCEPT ![c].at = "panic", ![c].route = <<method, rc[2]>>]
    BY <2>0
  <2> DEFINE r == [conn[c] EXCEPT !.at = "panic", !.route = <<method, rc[2]>>]
  <2>2. r \in Records
    <3>1. <<method, rc[2]>> \in Routes
      BY CodesKnown, RouteParts
    <3> QED
      BY <1>0, <3>1, RecordFields
  <2>3. conn' = [conn EXCEPT ![c] = r] /\ UNCHANGED <<metrics, answers>>
    BY <1>4, <2>1 DEF RoutePanics
  <2> HIDE DEF r
  <2> QED
    BY <1>f, <2>2, <2>3
<1>5. CASE Recover(c)
  <2>1. PICK n \in {0} \cup StatusCodes : n = 500
    BY <1>c
  <2>2. conn' = [conn EXCEPT ![c].at = "done", ![c].code = n]
    BY <1>5, <2>1, Zenon DEF Recover
  <2> DEFINE r == [conn[c] EXCEPT !.at = "done", !.code = n]
  <2>3. r \in Records
    BY <1>0, RecordFields
  <2>4. conn' = [conn EXCEPT ![c] = r]
    BY <2>2
  <2>5. UNCHANGED <<metrics, answers>>
    BY <1>5, Zenon DEF Recover
  <2> HIDE DEF r
  <2> QED
    BY <1>f, <2>3, <2>4, <2>5
<1>6. CASE Observe(c)
  <2> DEFINE key == <<"http", conn[c].route, conn[c].recorded>>
  <2>1. conn' \in [Conns -> Records]
    BY <1>0, <1>6 DEF Observe
  <2>2. key \in Counters
    BY <1>0, KeyParts DEF Counters
  <2>3. /\ obs' = [obs EXCEPT ![c] = [NoObservation EXCEPT !.at = "register", !.key = key]]
        /\ UNCHANGED <<counters, secondsSum, secondsCount, spent, answers>>
    BY <1>6 DEF Observe, Inc
  <2> HIDE DEF key
  <2> QED
    BY <2>1, <2>2, <2>3 DEF Types, NoObservation
<1>7. CASE Log(c)
  <2>1. [conn[c] EXCEPT !.at = "done"] \in Records
    BY <1>0
  <2> QED
    BY <1>7, <1>f, <2>1 DEF Log
<1> QED
  BY <1>1, <1>2, <1>3, <1>4, <1>5, <1>6, <1>7 DEF ConnStep

(* The header stays once it is set. *)
LEMMA ConnIdSet ==
  ASSUME Types, IdSet, NEW c \in Conns, ConnStep(c)
  PROVE  IdSet'
<1>0. conn[c].at \notin {"idle", "id"} =>
        conn[c].header = IF conn[c].sent = "usable" THEN "client" ELSE "generated"
  BY DEF IdSet
<1>1. SUFFICES conn'[c].at \notin {"idle", "id"} =>
                 conn'[c].header = IF conn'[c].sent = "usable" THEN "client" ELSE "generated"
  BY <1>1, OtherConns DEF IdSet
<1> USE <1>0 DEF Types
<1>2. CASE Arrive(c)
  BY <1>2 DEF Arrive, FreshConn
<1>3. CASE SetId(c)
  BY <1>3 DEF SetId
<1>4. CASE Route(c)
  <2>1. PICK route, explicit, code : WriteReply(c, route, explicit, code)
    BY <1>4 DEF Route
  <2>2. conn[c].at = "route"
    BY <1>4 DEF Route
  <2>3. conn'[c].header = conn[c].header /\ conn'[c].sent = conn[c].sent
    BY <2>1 DEF WriteReply
  <2> QED
    BY <2>2, <2>3
<1>5. CASE RoutePanics(c)
  BY <1>5 DEF RoutePanics
<1>6. CASE Recover(c)
  BY <1>6 DEF Recover
<1>7. CASE Observe(c)
  BY <1>7 DEF Observe
<1>8. CASE Log(c)
  BY <1>8 DEF Log
<1> QED
  BY <1>2, <1>3, <1>4, <1>5, <1>6, <1>7, <1>8 DEF ConnStep

(* A reply waits for its count. *)
LEMMA ReplyAccounted ==
  ASSUME IInv, NEW c \in Conns, conn[c].at = "route",
         NEW route \in Routes, NEW explicit \in BOOLEAN, NEW code \in StatusCodes,
         explicit \/ code = 200,
         WriteReply(c, route, explicit, code),
         \A d \in Conns \ {c} : conn'[d] = conn[d]
  PROVE  Truthful' /\ Registered' /\ Accounted'
<1> DEFINE key == <<"http", route, code>>
<1>1. /\ conn'[c].at = "observe" /\ conn'[c].route = route /\ conn'[c].code = code
      /\ conn'[c].recorded = Recorded(explicit, code)
      /\ Answered(key) /\ UNCHANGED metrics
  BY DEF WriteReply, IInv, Types
<1>2. Recorded(explicit, code) = code
  BY DEF Recorded
<1>3. Truthful'
  BY <1>1, <1>2 DEF IInv, Truthful
<1>4. Registered'
  BY <1>1 DEF IInv, Registered, metrics
<1>5. Series(c)' = key
  BY <1>1 DEF Series
<1>6. ASSUME NEW k \in HttpKeys
      PROVE  Value(k)' + Cardinality(Unobserved(k)') + Cardinality(Adding(k)') = Replies(k)'
  <2>1. Value(k)' = Value(k) /\ Adding(k)' = Adding(k)
    BY <1>1 DEF Value, Adding, Counting, metrics
  <2>2. Value(k) + Cardinality(Unobserved(k)) + Cardinality(Adding(k)) = Replies(k)
    BY DEF IInv, Accounted
  <2>3. /\ Cardinality(Unobserved(k)) \in Nat /\ IsFiniteSet(Unobserved(k))
        /\ Cardinality(Adding(k)) \in Nat
        /\ Value(k) \in Nat /\ Replies(k) \in Nat
    BY CountsFinite, ValuesTyped DEF IInv
  <2>4. c \notin Unobserved(k)
    BY DEF Unobserved
  <2> HIDE DEF key
  <2>5. CASE k = key
    <3>1. Unobserved(k)' = Unobserved(k) \cup {c}
      BY <1>1, <1>5, <2>5 DEF Unobserved, Series
    <3>2. Cardinality(Unobserved(k)') = Cardinality(Unobserved(k)) + 1
      BY <2>3, <2>4, <3>1, Gains
    <3>3. Replies(k)' = Replies(k) + 1
      BY <1>1, <2>5 DEF Replies, Answered
    <3> QED
      BY <2>1, <2>2, <2>3, <3>2, <3>3
  <2>6. CASE k # key
    <3>1. Unobserved(k)' = Unobserved(k)
      BY <1>5, <2>4, <2>6 DEF Unobserved, Series
    <3>2. Replies(k)' = Replies(k)
      BY <1>1, <2>3, <2>6 DEF Replies, Answered
    <3> QED
      BY <2>1, <2>2, <3>1, <3>2
  <2> QED
    BY <2>5, <2>6
<1> QED
  BY <1>3, <1>4, <1>6 DEF Accounted

(* The count of a reply begins. *)
LEMMA ObserveAccounted ==
  ASSUME IInv, NEW c \in Conns, Observe(c), \A d \in Conns \ {c} : conn'[d] = conn[d]
  PROVE  Truthful' /\ Registered' /\ Accounted'
<1> DEFINE key == <<"http", conn[c].route, conn[c].recorded>>
<1>0. c \in Goroutines /\ conn[c].at = "observe" /\ conn'[c].at = "log" /\ obs[c].at = "idle"
  BY HttpAssumption DEF Observe, Inc, Quiet, IInv, Types
<1>1. /\ obs'[c].at = "register" /\ obs'[c].key = key
      /\ \A g \in Goroutines \ {c} : obs'[g] = obs[g]
      /\ counters' = counters /\ answers' = answers
  BY <1>0 DEF Observe, Inc, IInv, Types, NoObservation
<1>2. Series(c) = key
  BY <1>0 DEF IInv, Truthful, Series
<1>3. Truthful'
  BY <1>0 DEF IInv, Truthful
<1>4. Registered'
  BY <1>1 DEF IInv, Registered
<1>5. ASSUME NEW k \in HttpKeys
      PROVE  Value(k)' + Cardinality(Unobserved(k)') + Cardinality(Adding(k)') = Replies(k)'
  <2>1. Value(k)' = Value(k) /\ Replies(k)' = Replies(k)
    BY <1>1 DEF Value, Replies
  <2>2. Value(k) + Cardinality(Unobserved(k)) + Cardinality(Adding(k)) = Replies(k)
    BY DEF IInv, Accounted
  <2>3. /\ Cardinality(Unobserved(k)) \in Nat /\ IsFiniteSet(Unobserved(k))
        /\ Cardinality(Adding(k)) \in Nat /\ IsFiniteSet(Adding(k))
        /\ Value(k) \in Nat /\ Replies(k) \in Nat
    BY CountsFinite, ValuesTyped DEF IInv
  <2>4. c \notin Adding(k)
    BY <1>0 DEF Adding, Counting
  <2> HIDE DEF key
  <2>5. CASE k = key
    <3>1. Unobserved(k)' = Unobserved(k) \ {c} /\ c \in Unobserved(k)
      BY <1>0, <1>2, <2>5 DEF Unobserved, Series
    <3>2. Adding(k)' = Adding(k) \cup {c}
      BY <1>0, <1>1, <2>5 DEF Adding, Counting
    <3>3. Cardinality(Unobserved(k)') = Cardinality(Unobserved(k)) - 1
      BY <2>3, <3>1, Loses
    <3>4. Cardinality(Adding(k)') = Cardinality(Adding(k)) + 1
      BY <2>3, <2>4, <3>2, Gains
    <3> QED
      BY <2>1, <2>2, <2>3, <3>3, <3>4
  <2>6. CASE k # key
    <3>1. Unobserved(k)' = Unobserved(k)
      BY <1>0, <1>2, <2>6 DEF Unobserved, Series
    <3>2. Adding(k)' = Adding(k)
      BY <1>0, <1>1, <2>6 DEF Adding, Counting
    <3> QED
      BY <2>1, <2>2, <3>1, <3>2
  <2> QED
    BY <2>5, <2>6
<1> QED
  BY <1>3, <1>4, <1>5 DEF Accounted

LEMMA ConnIInv == ASSUME IInv, NEW c \in Conns, ConnStep(c) PROVE IInv'
<1>0. Types /\ IdSet
  BY DEF IInv
<1>1. Types' /\ IdSet' /\ \A d \in Conns \ {c} : conn'[d] = conn[d]
  BY <1>0, ConnTypes, ConnIdSet, OtherConns
<1>2. SUFFICES Truthful' /\ Registered' /\ Accounted'
  BY <1>1, <1>2 DEF IInv
<1>f. ASSUME conn[c].at # "observe", conn'[c].at # "observe", UNCHANGED <<metrics, answers>>
      PROVE  Truthful' /\ Registered' /\ Accounted'
  BY <1>0, <1>1, <1>f, ConnFrame
<1>3. CASE Arrive(c)
  BY <1>0, <1>3, <1>f DEF Arrive, FreshConn, Types
<1>4. CASE SetId(c)
  BY <1>0, <1>4, <1>f DEF SetId, Types
<1>5. CASE Route(c)
  <2>1. conn[c].at = "route"
    BY <1>5 DEF Route
  <2>2. PICK route \in Routes, explicit \in BOOLEAN, code \in StatusCodes :
          WriteReply(c, route, explicit, code) /\ (explicit \/ code = 200)
    BY <1>5, RouteWrites
  <2> QED
    BY <1>1, <2>1, <2>2, ReplyAccounted
<1>6. CASE RoutePanics(c)
  BY <1>0, <1>6, <1>f DEF RoutePanics, Types
<1>7. CASE Recover(c)
  BY <1>0, <1>7, <1>f DEF Recover, Types
<1>8. CASE Observe(c)
  BY <1>1, <1>8, ObserveAccounted
<1>9. CASE Log(c)
  BY <1>0, <1>9, <1>f DEF Log, Types
<1> QED
  BY <1>3, <1>4, <1>5, <1>6, <1>7, <1>8, <1>9 DEF ConnStep

-----------------------------------------------------------------------------
(* The steps of an observation.                                            *)

LEMMA WorkerIInv == ASSUME IInv, NEW w \in Workers, WorkerCounts(w) PROVE IInv'
<1>1. w \in Goroutines /\ UNCHANGED <<conn, answers>>
  BY HttpAssumption DEF WorkerCounts
<1> DEFINE Records ==
             [at : {"idle", "register", "add", "load", "swap", "count"},
              key : Counters, timed : BOOLEAN, took : Nat, old : Nat]
<1>2. PICK r \in Records :
        /\ obs' = [obs EXCEPT ![w] = r] /\ r.at = "register" /\ r.key \in WorkerKeys
        /\ obs[w].at = "idle"
        /\ UNCHANGED <<counters, secondsSum, secondsCount>>
  <2>1. CASE \E result \in {"ok", "error"}, took \in Durations :
               ObserveProvider(w, <<"provider", result, 0>>, took)
    <3>1. PICK result \in {"ok", "error"}, took \in Durations :
            ObserveProvider(w, <<"provider", result, 0>>, took)
      BY <2>1
    <3> DEFINE key == <<"provider", result, 0>>
               r == [NoObservation EXCEPT !.at = "register", !.key = key,
                                          !.timed = TRUE, !.took = took]
    <3>2. key \in WorkerKeys /\ took \in Nat
      BY MetricsAssumption DEF WorkerKeys
    <3>3. r \in Records /\ r.at = "register" /\ r.key = key
      <4> HIDE DEF key
      <4> QED
        BY <3>2 DEF NoObservation, Counters
    <3>4. /\ obs' = [obs EXCEPT ![w] = r] /\ obs[w].at = "idle"
          /\ UNCHANGED <<counters, secondsSum, secondsCount>>
      BY <3>1 DEF ObserveProvider, Quiet
    <3> HIDE DEF key, r
    <3> QED
      BY <3>2, <3>3, <3>4
  <2>2. CASE \E vec \in PlainVecs : Inc(w, <<vec, "", 0>>)
    <3>1. PICK vec \in PlainVecs : Inc(w, <<vec, "", 0>>)
      BY <2>2
    <3> DEFINE key == <<vec, "", 0>>
               r == [NoObservation EXCEPT !.at = "register", !.key = key]
    <3>2. key \in WorkerKeys
      BY DEF WorkerKeys
    <3>3. r \in Records /\ r.at = "register" /\ r.key = key
      <4> HIDE DEF key
      <4> QED
        BY <3>2 DEF NoObservation, Counters
    <3>4. /\ obs' = [obs EXCEPT ![w] = r] /\ obs[w].at = "idle"
          /\ UNCHANGED <<counters, secondsSum, secondsCount>>
      BY <3>1 DEF Inc, Quiet
    <3> HIDE DEF key, r
    <3> QED
      BY <3>2, <3>3, <3>4
  <2> QED
    BY <2>1, <2>2 DEF WorkerCounts
<1>3. obs'[w] = r /\ \A g \in Goroutines \ {w} : obs'[g] = obs[g]
  BY <1>1, <1>2 DEF IInv, Types
<1>4. obs'[w].at = "register" /\ obs'[w].key = r.key
  BY <1>2, <1>3
<1>5. Types'
  BY <1>1, <1>2 DEF IInv, Types
<1>6. IdSet' /\ Truthful'
  BY <1>1 DEF IInv, IdSet, Truthful
<1>7. Registered'
  BY <1>2, <1>3, <1>4 DEF IInv, Registered
<1>8. ASSUME NEW k \in HttpKeys
      PROVE  /\ Value(k)' = Value(k) /\ Replies(k)' = Replies(k)
             /\ Unobserved(k)' = Unobserved(k) /\ Adding(k)' = Adding(k)
  <2>1. k # r.key
    BY <1>2, KeysApart
  <2>2. Adding(k)' = Adding(k)
    BY <1>2, <1>3, <1>4, <2>1 DEF Adding, Counting
  <2> QED
    BY <1>1, <1>2, <2>2 DEF Value, Replies, Unobserved, Series
<1>9. Accounted'
  BY <1>8 DEF IInv, Accounted
<1> QED
  BY <1>5, <1>6, <1>7, <1>9 DEF IInv

(* A step of the summary, that registers and adds nothing. *)
LEMMA SummaryFrame ==
  ASSUME IInv, NEW g \in Goroutines, \A h \in Goroutines \ {g} : obs'[h] = obs[h],
         obs[g].at \notin {"register", "add"}, obs'[g].at \notin {"register", "add"},
         UNCHANGED <<conn, answers, counters>>, Types'
  PROVE  IInv'
<1>1. IdSet' /\ Truthful' /\ Registered'
  BY DEF IInv, IdSet, Truthful, Registered
<1>2. ASSUME NEW k \in HttpKeys
      PROVE  /\ Value(k)' = Value(k) /\ Replies(k)' = Replies(k)
             /\ Unobserved(k)' = Unobserved(k) /\ Adding(k)' = Adding(k)
  BY DEF Adding, Counting, Value, Replies, Unobserved, Series
<1>3. Accounted'
  BY <1>2 DEF IInv, Accounted
<1> QED
  BY <1>1, <1>3 DEF IInv

LEMMA RegisterIInv ==
  ASSUME IInv, NEW g \in Goroutines, Register(g), UNCHANGED <<conn, answers>>
  PROVE  IInv'
<1> DEFINE key == obs[g].key
<1>1. /\ obs[g].at = "register" /\ obs'[g].at = "add" /\ obs'[g].key = key
      /\ \A h \in Goroutines \ {g} : obs'[h] = obs[h]
  BY DEF Register, Step, IInv, Types
<1>2. /\ DOMAIN counters' = DOMAIN counters \cup {key}
      /\ \A k \in DOMAIN counters' :
           counters'[k] = IF k \in DOMAIN counters THEN counters[k] ELSE 0
  BY DEF Register
<1>3. key \in Counters
  BY DEF IInv, Types
<1>4. Types'
  <2>1. DOMAIN counters' \subseteq Counters /\ \A k \in DOMAIN counters' : counters'[k] \in Nat
    <3> HIDE DEF key
    <3> QED
      BY <1>2, <1>3 DEF IInv, Types
  <2>2. obs' = [obs EXCEPT ![g].at = "add"] /\ UNCHANGED <<secondsSum, secondsCount>>
    BY DEF Register, Step
  <2> QED
    BY <2>1, <2>2 DEF IInv, Types
<1>5. IdSet' /\ Truthful' /\ Registered'
  BY <1>1, <1>2 DEF IInv, IdSet, Truthful, Registered
<1>6. ASSUME NEW k \in HttpKeys
      PROVE  /\ Value(k)' = Value(k) /\ Replies(k)' = Replies(k)
             /\ Unobserved(k)' = Unobserved(k) /\ Adding(k)' = Adding(k)
  <2>1. Adding(k)' = Adding(k)
    BY <1>1 DEF Adding, Counting
  <2>2. Value(k)' = Value(k)
    <3> HIDE DEF key
    <3> QED
      BY <1>2 DEF Value
  <2> QED
    BY <2>1, <2>2 DEF Replies, Unobserved, Series
<1>7. Accounted'
  BY <1>6 DEF IInv, Accounted
<1> QED
  BY <1>4, <1>5, <1>7 DEF IInv

(* The increment is where a reply becomes counted. *)
LEMMA AddIInv ==
  ASSUME IInv, NEW g \in Goroutines, Add(g), UNCHANGED <<conn, answers>>
  PROVE  IInv'
<1> DEFINE key == obs[g].key
<1>1. /\ obs[g].at = "add" /\ obs'[g].at \in {"load", "idle"}
      /\ \A h \in Goroutines \ {g} : obs'[h] = obs[h]
  BY DEF Add, Step, IInv, Types
<1>2. key \in DOMAIN counters
  BY <1>1 DEF IInv, Registered
<1>3. /\ DOMAIN counters' = DOMAIN counters
      /\ counters'[key] = counters[key] + 1
      /\ \A k \in DOMAIN counters \ {key} : counters'[k] = counters[k]
  BY <1>2 DEF Add
<1>4. Types'
  <2>1. DOMAIN counters' \subseteq Counters /\ \A k \in DOMAIN counters' : counters'[k] \in Nat
    <3> HIDE DEF key
    <3> QED
      BY <1>2, <1>3 DEF IInv, Types
  <2>2. PICK place \in {"load", "idle"} : obs' = [obs EXCEPT ![g].at = place]
    BY DEF Add, Step
  <2>3. UNCHANGED <<secondsSum, secondsCount>>
    BY DEF Add
  <2> QED
    BY <2>1, <2>2, <2>3 DEF IInv, Types
<1>5. IdSet' /\ Truthful' /\ Registered'
  BY <1>1, <1>3 DEF IInv, IdSet, Truthful, Registered
<1>6. ASSUME NEW k \in HttpKeys
      PROVE  Value(k)' + Cardinality(Unobserved(k)') + Cardinality(Adding(k)') = Replies(k)'
  <2>1. Unobserved(k)' = Unobserved(k) /\ Replies(k)' = Replies(k)
    BY DEF Unobserved, Series, Replies
  <2>2. Value(k) + Cardinality(Unobserved(k)) + Cardinality(Adding(k)) = Replies(k)
    BY DEF IInv, Accounted
  <2>3. /\ Cardinality(Unobserved(k)) \in Nat
        /\ Cardinality(Adding(k)) \in Nat /\ IsFiniteSet(Adding(k))
        /\ Value(k) \in Nat /\ Replies(k) \in Nat
    BY CountsFinite, ValuesTyped DEF IInv
  <2>4. CASE k = key
    <3>1. Adding(k)' = Adding(k) \ {g} /\ g \in Adding(k)
      BY <1>1, <2>4 DEF Adding, Counting
    <3>2. Cardinality(Adding(k)') = Cardinality(Adding(k)) - 1
      BY <2>3, <3>1, Loses
    <3>3. Value(k)' = Value(k) + 1
      <4> HIDE DEF key
      <4> QED
        BY <1>2, <1>3, <2>4 DEF Value
    <3> QED
      BY <2>1, <2>2, <2>3, <3>2, <3>3
  <2>5. CASE k # key
    <3>1. Adding(k)' = Adding(k)
      BY <1>1, <2>5 DEF Adding, Counting
    <3>2. Value(k)' = Value(k)
      <4> HIDE DEF key
      <4> QED
        BY <1>2, <1>3, <2>5 DEF Value
    <3> QED
      BY <2>1, <2>2, <3>1, <3>2
  <2> QED
    BY <2>4, <2>5
<1>7. Accounted'
  BY <1>6 DEF Accounted
<1> QED
  BY <1>4, <1>5, <1>7 DEF IInv

LEMMA ObserveIInv ==
  ASSUME IInv, NEW g \in Goroutines, ObserveStep(g), UNCHANGED <<conn, answers>>
  PROVE  IInv'
<1>1. CASE Register(g)
  BY <1>1, RegisterIInv
<1>2. CASE Add(g)
  BY <1>2, AddIInv
<1>3. CASE LoadSum(g)
  <2>0. /\ obs' = [obs EXCEPT ![g] = [obs[g] EXCEPT !.at = "swap", !.old = secondsSum]]
        /\ UNCHANGED <<counters, secondsSum, secondsCount>>
    BY <1>3 DEF LoadSum
  <2>1. Types'
    <3> DEFINE r == [obs[g] EXCEPT !.at = "swap", !.old = secondsSum]
    <3>1. r \in [at : {"idle", "register", "add", "load", "swap", "count"},
                 key : Counters, timed : BOOLEAN, took : Nat, old : Nat]
      BY DEF IInv, Types
    <3>2. obs' = [obs EXCEPT ![g] = r]
      BY <2>0
    <3> HIDE DEF r
    <3> QED
      BY <2>0, <3>1, <3>2 DEF IInv, Types
  <2>2. obs[g].at = "load" /\ obs'[g].at = "swap" /\ counters' = counters
        /\ \A h \in Goroutines \ {g} : obs'[h] = obs[h]
    BY <1>3 DEF LoadSum, IInv, Types
  <2> QED
    BY <2>1, <2>2, SummaryFrame
<1>4. CASE Swap(g)
  <2>0. PICK place \in {"count", "load"} : obs' = [obs EXCEPT ![g].at = place]
    BY <1>4 DEF Swap, Step
  <2>1. secondsSum' \in Nat /\ UNCHANGED <<counters, secondsCount>> /\ obs[g].at = "swap"
    BY <1>4 DEF Swap, IInv, Types
  <2>2. Types'
    BY <2>0, <2>1 DEF IInv, Types
  <2>3. obs'[g].at \in {"count", "load"} /\ \A h \in Goroutines \ {g} : obs'[h] = obs[h]
    BY <2>0 DEF IInv, Types
  <2> QED
    BY <2>1, <2>2, <2>3, SummaryFrame
<1>5. CASE CountCall(g)
  <2>1. obs' = [obs EXCEPT ![g].at = "idle"] /\ obs[g].at = "count"
        /\ secondsCount' = secondsCount + 1 /\ UNCHANGED <<counters, secondsSum>>
    BY <1>5 DEF CountCall, Step
  <2>2. Types'
    BY <2>1 DEF IInv, Types
  <2>3. obs'[g].at = "idle" /\ \A h \in Goroutines \ {g} : obs'[h] = obs[h]
    BY <2>1 DEF IInv, Types
  <2> QED
    BY <2>1, <2>2, <2>3, SummaryFrame
<1> QED
  BY <1>1, <1>2, <1>3, <1>4, <1>5 DEF ObserveStep

-----------------------------------------------------------------------------
(* The invariant holds initially and is preserved.                         *)

LEMMA InitIInv == HttpInit => IInv
<1> SUFFICES ASSUME HttpInit PROVE IInv
  OBVIOUS
<1> USE DEF HttpInit, MetricsInit
<1>1. DOMAIN counters = {} /\ DOMAIN answers = {}
  OBVIOUS
<1>2. Types
  <2>1. 200 \in StatusCodes /\ <<"", "">> \in Routes /\ <<"", "", 0>> \in Counters
    BY DEF StatusCodes, Routes, Counters, WorkerKeys
  <2> QED
    BY <1>1, <2>1 DEF Types, FreshConn, NoObservation, SentIds, Ids
<1>3. IdSet /\ Truthful /\ Registered
  BY DEF IdSet, Truthful, Registered, FreshConn, NoObservation
<1>4. ASSUME NEW k PROVE Value(k) = 0 /\ Replies(k) = 0 /\ Unobserved(k) = {} /\ Adding(k) = {}
  BY <1>1 DEF Value, Replies, Unobserved, Adding, Counting, FreshConn, NoObservation
<1>5. Accounted
  <2> SUFFICES ASSUME NEW k \in HttpKeys
               PROVE  Value(k) + Cardinality(Unobserved(k)) + Cardinality(Adding(k)) = Replies(k)
    BY DEF Accounted
  <2>1. Cardinality(Unobserved(k)) = 0 /\ Cardinality(Adding(k)) = 0
    BY <1>4, FS_EmptySet
  <2>2. Value(k) = 0 /\ Replies(k) = 0
    BY <1>4
  <2> QED
    BY <2>1, <2>2
<1> QED
  BY <1>2, <1>3, <1>5 DEF IInv

LEMMA NextIInv == IInv /\ [HttpNext]_vars => IInv'
<1> SUFFICES ASSUME IInv, [HttpNext]_vars PROVE IInv'
  OBVIOUS
<1>1. CASE HttpNext
  BY <1>1, ConnIInv, WorkerIInv, ObserveIInv DEF HttpNext
<1>2. CASE UNCHANGED vars
  <2> USE <1>2 DEF vars, metrics
  <2>1. Types' /\ IdSet' /\ Truthful' /\ Registered'
    BY DEF IInv, Types, IdSet, Truthful, Registered
  <2>2. Accounted'
    BY DEF IInv, Accounted, Value, Unobserved, Adding, Counting, Replies, Series
  <2> QED
    BY <2>1, <2>2 DEF IInv
<1> QED
  BY <1>1, <1>2

-----------------------------------------------------------------------------
(* The summary: seconds and calls that are on their way into it.           *)

ProviderKeys == {<<"provider", result, 0>> : result \in {"ok", "error"}}

(* What an observation still owes to the sum and to the count. *)
Due(r) == IF r.timed /\ r.at \in {"register", "add", "load", "swap"} THEN r.took ELSE 0

InCall(r) == IF r.timed /\ r.at \in {"load", "swap", "count"} THEN 1 ELSE 0

Owing(o) == {g \in Goroutines : o[g].timed /\ o[g].at \in {"register", "add", "load", "swap"}}

Calling(o) == {g \in Goroutines : o[g].timed /\ o[g].at \in {"load", "swap", "count"}}

SecondsOf(o) == Total([g \in Goroutines |-> o[g].took], Owing(o))

ProviderTotal(cs) == Total(cs, DOMAIN cs \cap ProviderKeys)

(* Timed is what is counted under a provider key, and only that enters the *)
(* loop of the sum.                                                        *)
Labeled ==
  \A g \in Goroutines : obs[g].at # "idle" =>
    /\ obs[g].timed <=> obs[g].key \in ProviderKeys
    /\ obs[g].at \in {"load", "swap", "count"} => obs[g].timed

Summed == spent \in Nat /\ spent = secondsSum + SecondsOf(obs)

Counted == ProviderTotal(counters) = secondsCount + Cardinality(Calling(obs))

SummaryInv == Labeled /\ Summed /\ Counted

(* Only finitely many goroutines are on their way.                         *)
LEMMA OwingFinite ==
  ASSUME NEW o, NEW S \in {Owing(o), Calling(o)}, NEW g
  PROVE  IsFiniteSet(S) /\ IsFiniteSet(S \ {g}) /\ S \subseteq Goroutines
<1>1. S \subseteq Goroutines /\ S \ {g} \subseteq Goroutines
  BY DEF Owing, Calling
<1> QED
  BY <1>1, MetricsAssumption, FS_Subset

(* When one goroutine takes a step, its debt is all that changes. *)
LEMMA SecondsStep ==
  ASSUME NEW o, NEW n, NEW g \in Goroutines,
         \A h \in Goroutines \ {g} : n[h] = o[h],
         \A h \in Goroutines : o[h].took \in Nat /\ n[h].took \in Nat
  PROVE  /\ SecondsOf(o) \in Nat /\ SecondsOf(n) \in Nat
         /\ SecondsOf(n) + Due(o[g]) = SecondsOf(o) + Due(n[g])
<1> DEFINE Took(q) == [h \in Goroutines |-> q[h].took]
           Rest(q) == Owing(q) \ {g}
<1>1. \A q : (\A h \in Goroutines : q[h].took \in Nat) =>
        /\ \A h \in Goroutines : Took(q)[h] \in Nat
        /\ Took(q)[g] = q[g].took
  OBVIOUS
<1>2. ASSUME NEW q, \A h \in Goroutines : q[h].took \in Nat
      PROVE  /\ SecondsOf(q) = Due(q[g]) + Total(Took(q), Rest(q))
             /\ Total(Took(q), Rest(q)) \in Nat /\ Due(q[g]) \in Nat
  <2>1. /\ IsFiniteSet(Owing(q)) /\ IsFiniteSet(Rest(q)) /\ Owing(q) \subseteq Goroutines
        /\ \A h \in Owing(q) : Took(q)[h] \in Nat
        /\ \A h \in Rest(q) : Took(q)[h] \in Nat
    BY <1>2, OwingFinite
  <2>2. SecondsOf(q) = Total(Took(q), Owing(q))
    BY DEF SecondsOf
  <2>3. Took(q)[g] = q[g].took
    OBVIOUS
  <2> HIDE DEF Took
  <2>4. Total(Took(q), Rest(q)) \in Nat
    <3> HIDE DEF Rest
    <3> QED
      BY <2>1, TotalNat
  <2>5. CASE g \in Owing(q)
    <3>1. Due(q[g]) = q[g].took
      BY <2>5 DEF Owing, Due
    <3>2. Total(Took(q), Owing(q)) = Took(q)[g] + Total(Took(q), Rest(q))
      BY <2>1, <2>5, TotalWithout
    <3> QED
      BY <1>2, <2>2, <2>3, <2>4, <3>1, <3>2
  <2>6. CASE g \notin Owing(q)
    <3>1. Due(q[g]) = 0 /\ Rest(q) = Owing(q)
      BY <2>6 DEF Owing, Due
    <3> HIDE DEF Rest
    <3> QED
      BY <2>2, <2>4, <3>1
  <2> QED
    BY <2>5, <2>6
<1>3. Rest(n) = Rest(o)
  BY DEF Owing
<1>4. Total(Took(n), Rest(n)) = Total(Took(o), Rest(o))
  <2>1. \A h \in Rest(o) : Took(n)[h] = Took(o)[h]
    BY DEF Owing
  <2>2. IsFiniteSet(Rest(o))
    BY OwingFinite
  <2> HIDE DEF Took, Rest
  <2> QED
    BY <1>3, <2>1, <2>2, TotalSame
<1> HIDE DEF Took, Rest
<1>5. SecondsOf(o) = Due(o[g]) + Total(Took(o), Rest(o))
      /\ Total(Took(o), Rest(o)) \in Nat /\ Due(o[g]) \in Nat
  BY <1>2
<1>6. SecondsOf(n) = Due(n[g]) + Total(Took(n), Rest(n)) /\ Due(n[g]) \in Nat
  BY <1>2
<1> QED
  BY <1>4, <1>5, <1>6

(* The same for the calls on their way to the count.                       *)
LEMMA CallingStep ==
  ASSUME NEW o, NEW n, NEW g \in Goroutines, \A h \in Goroutines \ {g} : n[h] = o[h]
  PROVE  /\ Cardinality(Calling(o)) \in Nat /\ Cardinality(Calling(n)) \in Nat
         /\ Cardinality(Calling(n)) + InCall(o[g]) = Cardinality(Calling(o)) + InCall(n[g])
<1>1. ASSUME NEW q
      PROVE  /\ Cardinality(Calling(q)) = InCall(q[g]) + Cardinality(Calling(q) \ {g})
             /\ Cardinality(Calling(q) \ {g}) \in Nat
  <2>1. IsFiniteSet(Calling(q)) /\ IsFiniteSet(Calling(q) \ {g})
    BY OwingFinite
  <2>2. Cardinality(Calling(q)) \in Nat /\ Cardinality(Calling(q) \ {g}) \in Nat
    BY <2>1, FS_CardinalityType
  <2>3. CASE g \in Calling(q)
    <3>1. InCall(q[g]) = 1
      BY <2>3 DEF Calling, InCall
    <3>2. Cardinality(Calling(q) \ {g}) = Cardinality(Calling(q)) - 1
      BY <2>1, <2>3, Loses
    <3> QED
      BY <2>2, <3>1, <3>2
  <2>4. CASE g \notin Calling(q)
    <3>1. InCall(q[g]) = 0 /\ Calling(q) \ {g} = Calling(q)
      BY <2>4 DEF Calling, InCall
    <3> QED
      BY <2>2, <3>1
  <2> QED
    BY <2>3, <2>4
<1>2. Calling(n) \ {g} = Calling(o) \ {g}
  BY DEF Calling
<1>3. InCall(o[g]) \in {0, 1} /\ InCall(n[g]) \in {0, 1}
  BY DEF InCall
<1> DEFINE rest == Cardinality(Calling(o) \ {g})
<1>4. Cardinality(Calling(o)) = InCall(o[g]) + rest /\ rest \in Nat
  BY <1>1
<1>5. Cardinality(Calling(n)) = InCall(n[g]) + rest
  BY <1>1, <1>2
<1> HIDE DEF rest
<1> QED
  BY <1>3, <1>4, <1>5

(* A sum over the provider counters is a finite one.                       *)
LEMMA ProviderKeysFinite == \A S : IsFiniteSet(S \cap ProviderKeys)
<1>1. IsFiniteSet(ProviderKeys)
  <2>1. ProviderKeys = {<<"provider", "ok", 0>>} \cup {<<"provider", "error", 0>>}
    BY DEF ProviderKeys
  <2>2. IsFiniteSet({<<"provider", "ok", 0>>})
    BY FS_Singleton
  <2> QED
    BY <2>1, <2>2, FS_AddElement
<1> QED
  BY <1>1, FS_Intersection

(* A new counter is zero, and adds nothing to the total. *)
LEMMA TotalRegisters ==
  ASSUME NEW cs, NEW ds, NEW key, \A k \in DOMAIN cs : cs[k] \in Nat,
         DOMAIN ds = DOMAIN cs \cup {key},
         \A k \in DOMAIN ds : ds[k] = IF k \in DOMAIN cs THEN cs[k] ELSE 0
  PROVE  ProviderTotal(ds) = ProviderTotal(cs)
<1> DEFINE S == DOMAIN cs \cap ProviderKeys
           R == DOMAIN ds \cap ProviderKeys
<1>1. IsFiniteSet(S) /\ IsFiniteSet(R)
  BY ProviderKeysFinite
<1>2. Total(ds, S) = Total(cs, S) /\ Total(ds, S) \in Nat
  <2>1. \A k \in S : ds[k] = cs[k] /\ ds[k] \in Nat
    OBVIOUS
  <2> HIDE DEF S
  <2> QED
    BY <1>1, <2>1, TotalSame, TotalNat
<1>3. CASE R = S
  BY <1>2, <1>3 DEF ProviderTotal
<1>4. CASE R # S
  <2>1. R = S \cup {key} /\ key \notin S /\ ds[key] = 0 /\ \A k \in S \cup {key} : ds[k] \in Nat
    BY <1>4
  <2> HIDE DEF S
  <2>2. Total(ds, S \cup {key}) = ds[key] + Total(ds, S)
    BY <1>1, <2>1, TotalWith
  <2>3. Total(ds, R) = Total(cs, S)
    <3> HIDE DEF R
    <3> QED
      BY <1>2, <2>1, <2>2
  <2> QED
    BY <2>3 DEF ProviderTotal, S
<1> QED
  BY <1>3, <1>4

(* An increment adds one, if it is one of the provider's. *)
LEMMA TotalAdds ==
  ASSUME NEW cs, NEW ds, NEW key \in DOMAIN cs, \A k \in DOMAIN cs : cs[k] \in Nat,
         DOMAIN ds = DOMAIN cs, ds[key] = cs[key] + 1,
         \A k \in DOMAIN cs \ {key} : ds[k] = cs[k]
  PROVE  /\ ProviderTotal(cs) \in Nat
         /\ ProviderTotal(ds) = ProviderTotal(cs) + IF key \in ProviderKeys THEN 1 ELSE 0
<1> DEFINE S == DOMAIN cs \cap ProviderKeys
           R == S \ {key}
<1>1. IsFiniteSet(S) /\ IsFiniteSet(R)
  BY ProviderKeysFinite, FS_RemoveElement
<1>2. /\ \A k \in S : cs[k] \in Nat /\ ds[k] \in Nat
      /\ \A k \in R : cs[k] \in Nat /\ ds[k] = cs[k]
  OBVIOUS
<1>3. Total(ds, R) = Total(cs, R) /\ Total(cs, R) \in Nat /\ Total(cs, S) \in Nat
  <2> HIDE DEF S, R
  <2> QED
    BY <1>1, <1>2, TotalSame, TotalNat
<1>4. CASE key \in ProviderKeys
  <2>1. key \in S
    BY <1>4
  <2> HIDE DEF S
  <2>2. Total(cs, S) = cs[key] + Total(cs, R) /\ Total(ds, S) = ds[key] + Total(ds, R)
    BY <1>1, <1>2, <2>1, TotalWithout
  <2> HIDE DEF R
  <2>3. cs[key] \in Nat
    OBVIOUS
  <2> QED
    BY <1>3, <1>4, <2>2, <2>3 DEF ProviderTotal, S
<1>5. CASE key \notin ProviderKeys
  <2>1. R = S
    BY <1>5
  <2> HIDE DEF R, S
  <2> QED
    BY <1>3, <1>5, <2>1 DEF ProviderTotal, S
<1> QED
  BY <1>4, <1>5

(* A step of one goroutine keeps both sums if it settles its own account. *)
LEMMA SummaryStep ==
  ASSUME Types, Types', SummaryInv, NEW g \in Goroutines,
         \A h \in Goroutines \ {g} : obs'[h] = obs[h],
         obs'[g].at # "idle" =>
           /\ obs'[g].timed <=> obs'[g].key \in ProviderKeys
           /\ obs'[g].at \in {"load", "swap", "count"} => obs'[g].timed,
         spent' \in Nat,
         spent' + secondsSum + Due(obs[g]) = spent + secondsSum' + Due(obs'[g]),
         ProviderTotal(counters') \in Int,
         ProviderTotal(counters') + secondsCount + InCall(obs[g])
           = ProviderTotal(counters) + secondsCount' + InCall(obs'[g])
  PROVE  SummaryInv'
<1>1. Labeled'
  BY DEF SummaryInv, Labeled
<1>2. \A h \in Goroutines : obs[h].took \in Nat /\ obs'[h].took \in Nat
  BY DEF Types
<1>3. /\ SecondsOf(obs) \in Nat /\ SecondsOf(obs') \in Nat
      /\ SecondsOf(obs') + Due(obs[g]) = SecondsOf(obs) + Due(obs'[g])
  BY <1>2, SecondsStep
<1>4. /\ Cardinality(Calling(obs)) \in Nat /\ Cardinality(Calling(obs')) \in Nat
      /\ Cardinality(Calling(obs')) + InCall(obs[g]) = Cardinality(Calling(obs)) + InCall(obs'[g])
  BY CallingStep
<1>5. /\ Due(obs[g]) \in Nat /\ Due(obs'[g]) \in Nat
      /\ InCall(obs[g]) \in Nat /\ InCall(obs'[g]) \in Nat
  BY <1>2 DEF Due, InCall
<1>6. /\ secondsSum \in Nat /\ secondsSum' \in Nat /\ secondsCount \in Nat /\ secondsCount' \in Nat
  BY DEF Types
<1>7. Summed'
  <2>1. spent \in Nat /\ spent = secondsSum + SecondsOf(obs)
    BY DEF SummaryInv, Summed
  <2>2. spent' = secondsSum' + SecondsOf(obs')
    BY <1>3, <1>5, <1>6, <2>1
  <2> QED
    BY <2>2 DEF Summed
<1>8. Counted'
  BY <1>4, <1>5, <1>6 DEF SummaryInv, Counted
<1> QED
  BY <1>1, <1>7, <1>8 DEF SummaryInv

(* What the sums add up is a number.                                       *)
LEMMA TotalTyped ==
  ASSUME Types, SummaryInv
  PROVE  /\ secondsSum \in Nat /\ secondsCount \in Nat /\ spent \in Nat
         /\ ProviderTotal(counters) \in Nat
<1>1. Cardinality(Calling(obs)) \in Nat
  <2>1. IsFiniteSet(Calling(obs))
    BY OwingFinite
  <2> QED
    BY <2>1, FS_CardinalityType
<1> QED
  BY <1>1 DEF Types, SummaryInv, Summed, Counted

(* A plain counter owes nothing to the summary. *)
LEMMA IncSummary ==
  ASSUME Types, Types', SummaryInv, NEW g \in Goroutines,
         NEW key, key \notin ProviderKeys, Inc(g, key)
  PROVE  SummaryInv'
<1>1. /\ obs[g].at = "idle" /\ obs'[g].at = "register" /\ obs'[g].key = key /\ ~obs'[g].timed
      /\ \A h \in Goroutines \ {g} : obs'[h] = obs[h]
  BY DEF Inc, Quiet, Types, NoObservation
<1>2. Due(obs[g]) = 0 /\ Due(obs'[g]) = 0 /\ InCall(obs[g]) = 0 /\ InCall(obs'[g]) = 0
  BY <1>1 DEF Due, InCall
<1>3. UNCHANGED <<counters, secondsSum, secondsCount, spent>>
  BY DEF Inc
<1>4. ProviderTotal(counters') = ProviderTotal(counters)
  BY <1>3
<1>5. secondsSum \in Nat /\ secondsCount \in Nat /\ spent \in Nat /\ ProviderTotal(counters) \in Nat
  BY TotalTyped
<1> QED
  BY <1>1, <1>2, <1>3, <1>4, <1>5, SummaryStep

(* A provider call owes its seconds from the moment it is observed.        *)
LEMMA ObserveProviderSummary ==
  ASSUME Types, Types', SummaryInv, NEW g \in Goroutines, NEW key \in ProviderKeys,
         NEW took \in Nat, ObserveProvider(g, key, took)
  PROVE  SummaryInv'
<1>1. /\ obs[g].at = "idle" /\ obs'[g].at = "register" /\ obs'[g].key = key
      /\ obs'[g].timed /\ obs'[g].took = took
      /\ \A h \in Goroutines \ {g} : obs'[h] = obs[h]
  BY DEF ObserveProvider, Quiet, Types, NoObservation
<1>2. Due(obs[g]) = 0 /\ Due(obs'[g]) = took /\ InCall(obs[g]) = 0 /\ InCall(obs'[g]) = 0
  BY <1>1 DEF Due, InCall
<1>3. UNCHANGED <<counters, secondsSum, secondsCount>> /\ spent' = spent + took
  BY DEF ObserveProvider
<1>4. ProviderTotal(counters') = ProviderTotal(counters)
  BY <1>3
<1> QED
  BY <1>1, <1>2, <1>3, <1>4, TotalTyped, SummaryStep

(* Each step of metrics.go moves what is owed by what it pays.             *)
LEMMA ObserveStepSummary ==
  ASSUME IInv, Types', SummaryInv, NEW g \in Goroutines, ObserveStep(g)
  PROVE  SummaryInv'
<1>t. Types /\ Labeled
  BY DEF IInv, SummaryInv
<1>n. obs[g].took \in Nat /\ \A k \in DOMAIN counters : counters[k] \in Nat
  BY <1>t DEF Types
<1>1. CASE Register(g)
  <2>1. /\ obs[g].at = "register" /\ obs'[g].at = "add" /\ obs'[g].key = obs[g].key
        /\ obs'[g].timed = obs[g].timed /\ obs'[g].took = obs[g].took
        /\ \A h \in Goroutines \ {g} : obs'[h] = obs[h]
    BY <1>1, <1>t DEF Register, Step, Types
  <2>2. UNCHANGED <<secondsSum, secondsCount, spent>>
    BY <1>1 DEF Register
  <2>3. ProviderTotal(counters') = ProviderTotal(counters)
    <3> DEFINE key == obs[g].key
    <3>1. /\ DOMAIN counters' = DOMAIN counters \cup {key}
          /\ \A k \in DOMAIN counters' :
               counters'[k] = IF k \in DOMAIN counters THEN counters[k] ELSE 0
      BY <1>1 DEF Register
    <3> HIDE DEF key
    <3> QED
      BY <1>n, <3>1, TotalRegisters
  <2>4. /\ Due(obs'[g]) = Due(obs[g]) /\ Due(obs[g]) \in Nat
        /\ InCall(obs'[g]) = 0 /\ InCall(obs[g]) = 0
    BY <1>n, <2>1 DEF Due, InCall
  <2>5. obs[g].timed <=> obs[g].key \in ProviderKeys
    BY <1>t, <2>1 DEF Labeled
  <2> QED
    BY <1>t, <2>1, <2>2, <2>3, <2>4, <2>5, TotalTyped, SummaryStep
<1>2. CASE Add(g)
  <2>1. /\ obs[g].at = "add" /\ obs'[g].at = IF obs[g].timed THEN "load" ELSE "idle"
        /\ obs'[g].key = obs[g].key
        /\ obs'[g].timed = obs[g].timed /\ obs'[g].took = obs[g].took
        /\ \A h \in Goroutines \ {g} : obs'[h] = obs[h]
    BY <1>2, <1>t DEF Add, Step, Types
  <2>2. UNCHANGED <<secondsSum, secondsCount, spent>>
    BY <1>2 DEF Add
  <2>3. obs[g].timed <=> obs[g].key \in ProviderKeys
    BY <1>t, <2>1 DEF Labeled
  <2>4. ProviderTotal(counters') = ProviderTotal(counters) + IF obs[g].timed THEN 1 ELSE 0
    <3> DEFINE key == obs[g].key
    <3>1. key \in DOMAIN counters
      BY <2>1 DEF IInv, Registered
    <3>2. /\ DOMAIN counters' = DOMAIN counters /\ counters'[key] = counters[key] + 1
          /\ \A k \in DOMAIN counters \ {key} : counters'[k] = counters[k]
      BY <1>2, <3>1 DEF Add
    <3> HIDE DEF key
    <3>3. ProviderTotal(counters')
            = ProviderTotal(counters) + IF key \in ProviderKeys THEN 1 ELSE 0
      BY <1>n, <3>1, <3>2, TotalAdds
    <3> QED
      BY <2>3, <3>3 DEF key
  <2>5. /\ Due(obs'[g]) = Due(obs[g]) /\ Due(obs[g]) \in Nat
        /\ InCall(obs[g]) = 0 /\ InCall(obs'[g]) = IF obs[g].timed THEN 1 ELSE 0
    BY <1>n, <2>1 DEF Due, InCall
  <2>6. /\ ProviderTotal(counters') \in Int
        /\ ProviderTotal(counters') + secondsCount + InCall(obs[g])
             = ProviderTotal(counters) + secondsCount' + InCall(obs'[g])
    BY <1>t, <2>2, <2>4, <2>5, TotalTyped
  <2> QED
    BY <1>t, <2>1, <2>2, <2>3, <2>5, <2>6, TotalTyped, SummaryStep
<1>3. CASE LoadSum(g)
  <2>1. /\ obs[g].at = "load" /\ obs'[g].at = "swap" /\ obs'[g].key = obs[g].key
        /\ obs'[g].timed = obs[g].timed /\ obs'[g].took = obs[g].took
        /\ \A h \in Goroutines \ {g} : obs'[h] = obs[h]
    BY <1>3, <1>t DEF LoadSum, Types
  <2>2. UNCHANGED <<counters, secondsSum, secondsCount, spent>>
    BY <1>3 DEF LoadSum
  <2>3. /\ obs[g].timed /\ obs[g].key \in ProviderKeys
        /\ obs'[g].timed /\ obs'[g].key \in ProviderKeys
    BY <1>t, <2>1 DEF Labeled
  <2>4. /\ Due(obs'[g]) = Due(obs[g]) /\ Due(obs[g]) \in Nat
        /\ InCall(obs[g]) = 1 /\ InCall(obs'[g]) = 1
    BY <1>n, <2>1, <2>3 DEF Due, InCall
  <2>5. ProviderTotal(counters') = ProviderTotal(counters)
    BY <2>2
  <2> QED
    BY <1>t, <2>1, <2>2, <2>3, <2>4, <2>5, TotalTyped, SummaryStep
<1>4. CASE Swap(g)
  <2>1. /\ obs[g].at = "swap" /\ obs'[g].key = obs[g].key
        /\ obs'[g].timed = obs[g].timed /\ obs'[g].took = obs[g].took
        /\ obs'[g].at = IF secondsSum = obs[g].old THEN "count" ELSE "load"
        /\ \A h \in Goroutines \ {g} : obs'[h] = obs[h]
    BY <1>4, <1>t DEF Swap, Step, Types
  <2>2. /\ UNCHANGED <<counters, secondsCount, spent>>
        /\ secondsSum' = IF secondsSum = obs[g].old THEN secondsSum + obs[g].took ELSE secondsSum
    BY <1>4 DEF Swap
  <2>3. /\ obs[g].timed /\ obs[g].key \in ProviderKeys
        /\ obs'[g].timed /\ obs'[g].key \in ProviderKeys
    BY <1>t, <2>1 DEF Labeled
  <2>4. /\ Due(obs[g]) = obs[g].took
        /\ Due(obs'[g]) = IF secondsSum = obs[g].old THEN 0 ELSE obs[g].took
        /\ InCall(obs[g]) = 1 /\ InCall(obs'[g]) = 1
    BY <2>1, <2>3 DEF Due, InCall
  <2>5. spent' + secondsSum + Due(obs[g]) = spent + secondsSum' + Due(obs'[g])
    BY <1>t, <1>n, <2>2, <2>4, TotalTyped
  <2>6. ProviderTotal(counters') = ProviderTotal(counters)
    BY <2>2
  <2> QED
    BY <1>t, <2>1, <2>2, <2>3, <2>4, <2>5, <2>6, TotalTyped, SummaryStep
<1>5. CASE CountCall(g)
  <2>1. /\ obs[g].at = "count" /\ obs'[g].at = "idle"
        /\ \A h \in Goroutines \ {g} : obs'[h] = obs[h]
    BY <1>5, <1>t DEF CountCall, Step, Types
  <2>2. UNCHANGED <<counters, secondsSum, spent>> /\ secondsCount' = secondsCount + 1
    BY <1>5 DEF CountCall
  <2>3. obs[g].timed
    BY <1>t, <2>1 DEF Labeled
  <2>4. /\ Due(obs[g]) = 0 /\ Due(obs'[g]) = 0 /\ InCall(obs[g]) = 1 /\ InCall(obs'[g]) = 0
    BY <2>1, <2>3 DEF Due, InCall
  <2> QED
    BY <1>t, <2>1, <2>2, <2>4, TotalTyped, SummaryStep
<1> QED
  BY <1>1, <1>2, <1>3, <1>4, <1>5 DEF ObserveStep

(* No reply is counted under a label set of the provider.                  *)
LEMMA HttpKeysPlain == ProviderKeys \cap HttpKeys = {}
<1>1. ProviderKeys \subseteq WorkerKeys
  BY DEF ProviderKeys, WorkerKeys
<1> QED
  BY <1>1, KeysApart

(* Every step settles its own account.                                     *)
LEMMA NextSummary ==
  ASSUME IInv, IInv', SummaryInv, [HttpNext]_vars
  PROVE  SummaryInv'
<1>t. Types /\ Types'
  BY DEF IInv
<1>u. ASSUME UNCHANGED metrics PROVE SummaryInv'
  BY <1>u DEF metrics, SummaryInv, Labeled, Summed, Counted
<1>1. ASSUME NEW c \in Conns, ConnStep(c) PROVE SummaryInv'
  <2>1. CASE Observe(c)
    <3> DEFINE key == <<"http", conn[c].route, conn[c].recorded>>
    <3>1. key \in HttpKeys
      BY <1>t, KeyParts DEF Types
    <3>2. Inc(c, key) /\ c \in Goroutines
      BY <2>1, HttpAssumption DEF Observe
    <3> HIDE DEF key
    <3>3. key \notin ProviderKeys
      BY <3>1, HttpKeysPlain
    <3> QED
      BY <1>t, <3>2, <3>3, IncSummary
  <2>2. CASE ~Observe(c)
    <3>1. UNCHANGED metrics
      BY <1>1, <2>2 DEF ConnStep, Arrive, SetId, Route, WriteReply, RoutePanics, Recover, Log
    <3> QED
      BY <1>u, <3>1
  <2> QED
    BY <2>1, <2>2
<1>2. ASSUME NEW w \in Workers, WorkerCounts(w) PROVE SummaryInv'
  <2>0. w \in Goroutines
    BY HttpAssumption
  <2>1. CASE \E result \in {"ok", "error"}, took \in Durations :
               ObserveProvider(w, <<"provider", result, 0>>, took)
    <3>1. PICK result \in {"ok", "error"}, took \in Durations :
            ObserveProvider(w, <<"provider", result, 0>>, took)
      BY <2>1
    <3> DEFINE key == <<"provider", result, 0>>
    <3>2. key \in ProviderKeys /\ took \in Nat /\ ObserveProvider(w, key, took)
      BY <3>1, MetricsAssumption DEF ProviderKeys
    <3> HIDE DEF key
    <3> QED
      BY <1>t, <2>0, <3>2, ObserveProviderSummary
  <2>2. CASE \E vec \in PlainVecs : Inc(w, <<vec, "", 0>>)
    <3>1. PICK vec \in PlainVecs : Inc(w, <<vec, "", 0>>)
      BY <2>2
    <3> DEFINE key == <<vec, "", 0>>
    <3>2. key \notin ProviderKeys
      <4>1. vec # "provider"
        BY HttpAssumption
      <4> QED
        BY <4>1 DEF ProviderKeys
    <3>3. Inc(w, key)
      BY <3>1
    <3> HIDE DEF key
    <3> QED
      BY <1>t, <2>0, <3>2, <3>3, IncSummary
  <2> QED
    BY <1>2, <2>1, <2>2 DEF WorkerCounts
<1>3. ASSUME NEW g \in Goroutines, ObserveStep(g) PROVE SummaryInv'
  BY <1>t, <1>3, ObserveStepSummary
<1>4. CASE UNCHANGED vars
  BY <1>u, <1>4 DEF vars
<1> QED
  BY <1>1, <1>2, <1>3, <1>4 DEF HttpNext

(* At first nothing is owed.                                               *)
LEMMA InitSummary == HttpInit => SummaryInv
<1> SUFFICES ASSUME HttpInit PROVE SummaryInv
  OBVIOUS
<1>1. /\ spent = 0 /\ secondsSum = 0 /\ secondsCount = 0 /\ DOMAIN counters = {}
  BY DEF HttpInit, MetricsInit
<1>0. \A g \in Goroutines : obs[g].at = "idle"
  BY DEF HttpInit, MetricsInit, NoObservation
<1>2. Owing(obs) = {} /\ Calling(obs) = {}
  BY <1>0 DEF Owing, Calling
<1>3. SecondsOf(obs) = 0 /\ Cardinality(Calling(obs)) = 0
  BY <1>2, TotalEmpty, FS_EmptySet DEF SecondsOf
<1>4. ProviderTotal(counters) = 0
  <2>1. DOMAIN counters \cap ProviderKeys = {}
    BY <1>1
  <2> QED
    BY <2>1, TotalEmpty DEF ProviderTotal
<1>5. Labeled
  BY <1>0 DEF Labeled
<1> QED
  BY <1>1, <1>3, <1>4, <1>5 DEF SummaryInv, Summed, Counted

(* The sums of the property are those of the invariant: MapThenSumSet,     *)
(* unfolded, adds up in the same way.                                      *)
LEMMA SecondsAreTotal ==
  MapThenSumSet(LAMBDA g : obs[g].took, TimedAt({"register", "add", "load", "swap"}))
    = SecondsOf(obs)
<1> DEFINE f == [g \in Goroutines |-> obs[g].took]
           S == TimedAt({"register", "add", "load", "swap"})
           H(it) == it = [s \in SUBSET S |->
             IF s = {} THEN 0 ELSE obs[CHOOSE x \in s : TRUE].took + it[s \ {CHOOSE x \in s : TRUE}]]
           jt == CHOOSE it : H(it)
<1>1. S = Owing(obs) /\ IsFiniteSet(S) /\ S \subseteq Goroutines
  <2>1. S = Owing(obs)
    BY DEF TimedAt, Owing
  <2> QED
    BY <2>1, OwingFinite
<1> HIDE DEF S
<1>2. \A it : H(it) <=> Sums(it, f, S)
  <2> SUFFICES ASSUME NEW it, NEW s \in SUBSET S, s # {}
      PROVE  obs[CHOOSE x \in s : TRUE].took = f[CHOOSE x \in s : TRUE]
    BY DEF Sums
  <2>1. (CHOOSE x \in s : TRUE) \in Goroutines
    BY <1>1
  <2> QED
    BY <2>1
<1>3. Sums(jt, f, S)
  <2> HIDE DEF H, f
  <2> QED
    BY <1>1, <1>2, SumsExist
<1>4. MapThenSumSet(LAMBDA g : obs[g].took, S) = jt[S]
  BY DEF MapThenSumSet, MapThenFoldSet
<1>5. PICK it : Sums(it, f, S) /\ Total(f, S) = it[S]
  <2> HIDE DEF f
  <2> QED
    BY <1>1, TotalIsSum
<1>6. jt[S] = it[S]
  <2>1. S \in SUBSET (S \cap S)
    OBVIOUS
  <2> HIDE DEF jt, f
  <2> QED
    BY <1>1, <1>3, <1>5, <2>1, SumsAgree
<1> QED
  BY <1>1, <1>4, <1>5, <1>6 DEF SecondsOf, S

(* The same for the counters.  No other vec has the label "provider".      *)
LEMMA ValuesAreTotal ==
  ASSUME Types
  PROVE  MapThenSumSet(Value, {k \in DOMAIN counters : k[1] = "provider"}) = ProviderTotal(counters)
<1> DEFINE S == {k \in DOMAIN counters : k[1] = "provider"}
           H(it) == it = [s \in SUBSET S |->
             IF s = {} THEN 0 ELSE Value(CHOOSE x \in s : TRUE) + it[s \ {CHOOSE x \in s : TRUE}]]
           jt == CHOOSE it : H(it)
<1>1. S = DOMAIN counters \cap ProviderKeys
  <2>1. ASSUME NEW k \in Counters PROVE k[1] = "provider" <=> k \in ProviderKeys
    <3>1. CASE k \in HttpKeys
      <4>1. PICK r \in Routes, n \in StatusCodes : k = <<"http", r, n>>
        BY <3>1 DEF HttpKeys
      <4>2. k[1] # "provider"
        BY <4>1
      <4> QED
        BY <3>1, <4>1, <4>2, HttpKeysPlain
    <3>2. CASE k \in WorkerKeys
      <4>1. \A a, b, c : <<a, b, c>>[1] = a
        OBVIOUS
      <4>2. \/ k \in ProviderKeys
            \/ \E v \in PlainVecs : k = <<v, "", 0>>
            \/ k = <<"", "", 0>>
        BY <3>2, Zenon DEF WorkerKeys, ProviderKeys
      <4>3. \A l \in ProviderKeys : l[1] = "provider"
        BY <4>1 DEF ProviderKeys
      <4>4. \A v \in PlainVecs : v # "provider"
        BY HttpAssumption
      <4>5. k \notin ProviderKeys => k[1] # "provider"
        <5>1. CASE \E v \in PlainVecs : k = <<v, "", 0>>
          BY <4>1, <4>4, <5>1
        <5>2. CASE k = <<"", "", 0>>
          BY <4>1, <5>2
        <5> QED
          BY <4>2, <5>1, <5>2
      <4> QED
        BY <4>1, <4>2, <4>3, <4>4, <4>5
    <3> QED
      BY <3>1, <3>2 DEF Counters
  <2> QED
    BY <2>1 DEF Types
<1>2. IsFiniteSet(S)
  BY <1>1, ProviderKeysFinite
<1>3. \A it : H(it) <=> Sums(it, counters, S)
  <2> SUFFICES ASSUME NEW it, NEW s \in SUBSET S, s # {}
      PROVE  Value(CHOOSE x \in s : TRUE) = counters[CHOOSE x \in s : TRUE]
    BY DEF Sums
  <2>1. (CHOOSE x \in s : TRUE) \in DOMAIN counters
    OBVIOUS
  <2> QED
    BY <2>1 DEF Value
<1> HIDE DEF S
<1>4. Sums(jt, counters, S)
  <2> HIDE DEF H
  <2> QED
    BY <1>2, <1>3, SumsExist
<1>5. MapThenSumSet(Value, S) = jt[S]
  BY DEF MapThenSumSet, MapThenFoldSet
<1>6. PICK it : Sums(it, counters, S) /\ Total(counters, S) = it[S]
  BY <1>2, TotalIsSum
<1>7. jt[S] = it[S]
  <2>1. S \in SUBSET (S \cap S)
    OBVIOUS
  <2> HIDE DEF jt
  <2> QED
    BY <1>2, <1>4, <1>6, <2>1, SumsAgree
<1> QED
  BY <1>1, <1>5, <1>6, <1>7 DEF ProviderTotal, S

-----------------------------------------------------------------------------
(* The theorems.                                                           *)

(* The inductive invariant: what was replied is counted, about to be, or   *)
(* being counted (middleware.go:76-93, metrics.go:37-53).                  *)
THEOREM InvariantHolds == HttpSpec => []IInv
<1> QED
  BY InitIInv, NextIInv, PTL DEF HttpSpec

(* The accounts of the summary balance in every state.                     *)
LEMMA SummaryHolds == HttpSpec => []SummaryInv
<1>1. SummaryInv /\ IInv /\ IInv' /\ [HttpNext]_vars => SummaryInv'
  BY NextSummary
<1> QED
  BY <1>1, InitSummary, InvariantHolds, PTL DEF HttpSpec

(* The bound on the worker calls is kept.                                  *)
CallsInBound == calls \in 0 .. MaxCalls

LEMMA CallsBounded == HttpSpec => []CallsInBound
<1>1. HttpInit => CallsInBound
  BY HttpAssumption DEF HttpInit, CallsInBound
<1>2. CallsInBound /\ [HttpNext]_vars => CallsInBound'
  <2> SUFFICES ASSUME CallsInBound, [HttpNext]_vars PROVE CallsInBound'
    OBVIOUS
  <2> USE DEF CallsInBound
  <2>1. ASSUME NEW c \in Conns, ConnStep(c) PROVE calls' = calls
    BY <2>1 DEF ConnStep, Arrive, SetId, Route, WriteReply, RoutePanics, Recover, Observe, Log
  <2>2. ASSUME NEW w \in Workers, WorkerCounts(w) PROVE calls' \in 0 .. MaxCalls
    <3>1. calls < MaxCalls /\ calls' = calls + 1
      BY <2>2, Zenon DEF WorkerCounts
    <3> QED
      BY <3>1, HttpAssumption
  <2>3. CASE UNCHANGED vars
    BY <2>3 DEF vars
  <2> QED
    BY <2>1, <2>2, <2>3 DEF HttpNext
<1> QED
  BY <1>1, <1>2, PTL DEF HttpSpec

(* Every variable has its type: whatever method a client sends, the route  *)
(* of a label set is one that routeLabel knows, the code is one of         *)
(* 200..503, and the workers' counters keep to their own label sets        *)
(* (middleware.go:59-93).                                                  *)
THEOREM TypeCorrect == HttpSpec => []HttpTypeOK
<1>1. IInv /\ SummaryInv /\ CallsInBound => HttpTypeOK
  BY DEF CallsInBound, IInv, Types, SummaryInv, Summed, HttpTypeOK, Conn, Observation
<1> QED
  BY <1>1, InvariantHolds, SummaryHolds, CallsBounded, PTL

(* No reply is lost or counted twice, however many connections and workers *)
(* register and add at the same time (middleware.go:76-84,                 *)
(* metrics.go:37-53).                                                      *)
THEOREM CountsMatchAnswersAlways == HttpSpec => []CountsMatchAnswers
<1>1. IInv => CountsMatchAnswers
  <2> SUFFICES ASSUME IInv, NEW key \in DOMAIN answers
               PROVE  Value(key) + Cardinality(Unobserved(key)) + Cardinality(Adding(key))
                        = answers[key]
    BY Zenon DEF CountsMatchAnswers, Unobserved, Adding
  <2>1. key \in HttpKeys
    BY DEF IInv, Types
  <2> QED
    BY <2>1 DEF IInv, Accounted, Replies
<1> QED
  BY <1>1, InvariantHolds, PTL

(* No second of a provider call is lost and no call is counted on one side *)
(* only, however the compare-and-swap loops interleave                     *)
(* (metrics.go:126-143).                                                   *)
THEOREM ProviderTotalsAgreeAlways == HttpSpec => []ProviderTotalsAgree
<1>1. IInv /\ SummaryInv => ProviderTotalsAgree
  <2> SUFFICES ASSUME IInv, SummaryInv PROVE ProviderTotalsAgree
    OBVIOUS
  <2>1. spent = secondsSum
          + MapThenSumSet(LAMBDA g : obs[g].took, TimedAt({"register", "add", "load", "swap"}))
    <3>1. spent = secondsSum + SecondsOf(obs)
      BY DEF SummaryInv, Summed
    <3> QED
      BY <3>1, SecondsAreTotal
  <2>2. MapThenSumSet(Value, {k \in DOMAIN counters : k[1] = "provider"})
          = secondsCount + Cardinality(TimedAt({"load", "swap", "count"}))
    <3>1. ProviderTotal(counters) = secondsCount + Cardinality(Calling(obs)) /\ Types
      BY DEF SummaryInv, Counted, IInv
    <3>2. TimedAt({"load", "swap", "count"}) = Calling(obs)
      BY DEF TimedAt, Calling
    <3> QED
      BY <3>1, <3>2, ValuesAreTotal
  <2> QED
    BY <2>1, <2>2 DEF ProviderTotalsAgree
<1> QED
  BY <1>1, InvariantHolds, SummaryHolds, PTL

(* Every reply carries its id, the one after a panic included              *)
(* (middleware.go:30-42, 97-111).                                          *)
THEOREM EveryReplyCarriesIdAlways == HttpSpec => []EveryReplyCarriesId
<1>1. IInv => EveryReplyCarriesId
  BY DEF IInv, IdSet, EveryReplyCarriesId
<1> QED
  BY <1>1, InvariantHolds, PTL

(* No scrape sees a counter or the sum go back, or a label set disappear   *)
(* (metrics.go:37-67, 126-143).                                            *)
THEOREM CountersOnlyGrowAlways == HttpSpec => CountersOnlyGrow
<1> DEFINE Grow == /\ \A k \in DOMAIN counters : k \in DOMAIN counters' /\ counters'[k] >= counters[k]
                   /\ secondsSum' >= secondsSum /\ secondsCount' >= secondsCount
<1>1. IInv /\ [HttpNext]_vars => [Grow]_metrics
  <2> SUFFICES ASSUME IInv, [HttpNext]_vars PROVE Grow \/ UNCHANGED metrics
    OBVIOUS
  <2>0. /\ secondsSum \in Nat /\ secondsCount \in Nat
        /\ \A k \in DOMAIN counters : counters[k] \in Nat
    BY DEF IInv, Types
  <2>s. ASSUME UNCHANGED <<counters, secondsSum, secondsCount>> PROVE Grow
    BY <2>0, <2>s
  <2>1. ASSUME NEW c \in Conns, ConnStep(c) PROVE Grow
    <3>1. UNCHANGED <<counters, secondsSum, secondsCount>>
      BY <2>1 DEF ConnStep, Arrive, SetId, Route, WriteReply, RoutePanics, Recover, Observe,
                  Inc, Log, metrics
    <3> QED
      BY <2>s, <3>1
  <2>2. ASSUME NEW w \in Workers, WorkerCounts(w) PROVE Grow
    <3>1. UNCHANGED <<counters, secondsSum, secondsCount>>
      BY <2>2 DEF WorkerCounts, ObserveProvider, Inc
    <3> QED
      BY <2>s, <3>1
  <2>3. ASSUME NEW g \in Goroutines, ObserveStep(g) PROVE Grow
    <3>1. CASE Register(g)
      BY <2>0, <3>1 DEF Register
    <3>2. CASE Add(g)
      <4>1. obs[g].key \in DOMAIN counters
        BY <3>2 DEF Add, IInv, Registered
      <4>2. /\ counters' = [counters EXCEPT ![obs[g].key] = @ + 1]
            /\ UNCHANGED <<secondsSum, secondsCount>>
        BY <3>2 DEF Add
      <4> QED
        BY <2>0, <4>1, <4>2
    <3>3. CASE LoadSum(g)
      BY <2>s, <3>3 DEF LoadSum
    <3>4. CASE Swap(g)
      <4>1. UNCHANGED <<counters, secondsCount>>
        BY <3>4 DEF Swap
      <4>2. obs[g].took \in Nat
        BY DEF IInv, Types
      <4>3. secondsSum' >= secondsSum
        BY <2>0, <3>4, <4>2 DEF Swap
      <4> QED
        BY <2>0, <4>1, <4>3
    <3>5. CASE CountCall(g)
      BY <2>0, <3>5 DEF CountCall
    <3> QED
      BY <2>3, <3>1, <3>2, <3>3, <3>4, <3>5 DEF ObserveStep
  <2>4. CASE UNCHANGED vars
    BY <2>4 DEF vars
  <2> HIDE DEF Grow
  <2> QED
    BY <2>1, <2>2, <2>3, <2>4 DEF HttpNext
<1> QED
  BY <1>1, InvariantHolds, PTL DEF HttpSpec, CountersOnlyGrow

=============================================================================
