------------------------------ MODULE HttpApi ------------------------------
(***************************************************************************)
(* internal/httpapi: what happens to one request between net/http and the  *)
(* service.  The handlers are nested as New nests them (server.go:79),     *)
(* recovery outside, then log and metrics, then the request id, then the   *)
(* routes, so a panic unwinds past the log.  The service and the database  *)
(* behind a route answer anything they can answer.  Workers count beside   *)
(* the connections.                                                        *)
(***************************************************************************)
EXTENDS Metrics, Sequences

CONSTANTS
  Conns, Workers,   \* goroutines of net/http and of the service
  Codes, Allowed,   \* well-formed currency codes, the supported ones
  Malformed,        \* a word that is no currency code
  PlainVecs,        \* vecs of the workers without a duration: updates, cache, fallback
  Methods,          \* what clients send as a method: any token
  Pprof,            \* PPROF_ENABLED
  MaxRequests, MaxCalls, MaxLoad  \* bounds: requests, worker calls, both by weight

ASSUME HttpAssumption ==
  /\ Conns \cup Workers = Goroutines /\ Conns \cap Workers = {}
  /\ Allowed \subseteq Codes /\ Malformed \notin Codes /\ "provider" \notin PlainVecs
  /\ {"GET", "HEAD", "POST"} \subseteq Methods /\ Pprof \in BOOLEAN
  /\ MaxRequests \in Nat /\ MaxCalls \in Nat /\ MaxLoad \in Nat

VARIABLES
  conn,         \* each connection: where in the nest its request is
  answers,      \* history: replies the route handlers wrote, per series
  calls         \* bound: how often workers have counted

vars == <<metrics, conn, answers, calls>>

(* X-Request-ID of the client: empty or over 128 bytes it is unusable. *)
SentIds == {"usable", "unusable"}

Ids == {"none", "client", "generated"}

FreshConn ==
  [at |-> "idle", sent |-> "unusable", header |-> "none",
   code |-> 0, recorded |-> 200, route |-> <<"", "">>]

HttpInit ==
  /\ MetricsInit
  /\ conn = [c \in Conns |-> FreshConn]
  /\ answers = << >>
  /\ calls = 0

-----------------------------------------------------------------------------
(* The routes as status codes.  A text is the words between its slashes.   *)

Texts == UNION {[1 .. n -> Codes \cup {Malformed}] : n \in 0 .. 3}

ParsesPair(text) ==
  Len(text) = 2 /\ text[1] \in Codes /\ text[2] \in Codes /\ text[1] # text[2]

IsSupported(text) == text[1] \in Allowed /\ text[2] \in Allowed

PairError(text) ==
  IF ~ParsesPair(text) THEN "invalid_pair"
  ELSE IF ~IsSupported(text) THEN "unsupported_pair" ELSE "none"

(* A path value: its length, whether its dashes are in place, the rest hex. *)
PathIds == [length : 35 .. 37, dashed : BOOLEAN, hex : BOOLEAN]

ValidRequestID(id) == id.length = 36 /\ id.dashed /\ id.hex

ServiceErrorCode ==
  [invalid_pair |-> 400, unsupported_pair |-> 422, invalid_id |-> 400, not_found |-> 404,
   internal |-> 500]

Blank(text) == text = << >>

(* A created request may still panic in enqueue, hence the code 0. *)
CreateCodes(json, text) ==
  IF ~json \/ Blank(text) THEN {400}
  ELSE IF PairError(text) # "none" THEN {ServiceErrorCode[PairError(text)]}
  ELSE {200, 202, ServiceErrorCode["internal"], 0}

GetRequestCodes(id) ==
  IF ~ValidRequestID(id) THEN {ServiceErrorCode["invalid_id"]}
  ELSE {200, ServiceErrorCode["not_found"], ServiceErrorCode["internal"]}

GetQuoteCodes(text) ==
  IF Blank(text) THEN {400}
  ELSE IF PairError(text) # "none" THEN {ServiceErrorCode[PairError(text)]}
  ELSE {200, ServiceErrorCode["not_found"], ServiceErrorCode["internal"]}

PostCodes == UNION {CreateCodes(j, t) : j \in BOOLEAN, t \in Texts}

QuoteCodes == UNION {GetQuoteCodes(t) : t \in Texts}

RequestCodes == UNION {GetRequestCodes(i) : i \in PathIds}

(* A GET pattern of ServeMux matches HEAD too. *)
Read == {"GET", "HEAD"}

(* What routeLabel makes of a path; a path it does not know is "unmatched". *)
Labels ==
  {"/", "/healthz", "/version", "/quotes", "/quotes/requests/{id}", "/openapi.yaml", "/swagger",
   "/swagger/", "/metrics", "/debug/pprof", "unmatched"}

(* Methods and label of each pattern and the codes its handler writes; the *)
(* profiles are net/http/pprof's.                                          *)
RouteCodes ==
  { <<{"POST"}, "/quotes", PostCodes>>,
    <<Read, "/quotes", QuoteCodes>>,
    <<Read, "/quotes/requests/{id}", RequestCodes>>,
    <<Read, "/healthz", {200, 503}>>,
    <<Read, "/version", {200}>>,
    <<Read, "/", {302}>>,
    <<Read, "/swagger", {301}>> }
  \cup (IF Pprof THEN {<<Read, "/debug/pprof", {400, 404, 500}>>} ELSE {})

(* Written without a call of WriteHeader: the status is implied.  GET      *)
(* /swagger/ has a whole subtree, of which routeLabel knows only the root. *)
ImplicitRoutes ==
  {"/openapi.yaml", "/metrics", "/swagger/", "unmatched"}
    \cup (IF Pprof THEN {"/debug/pprof"} ELSE {})

Allows(label) ==
  UNION {rc[1] : rc \in {x \in RouteCodes : x[2] = label}}
    \cup (IF label \in ImplicitRoutes THEN Read ELSE {})

(* Labels that go by a prefix, or by nothing: also of paths that no        *)
(* pattern has, and of paths that ServeMux would clean.                    *)
Open == {"/quotes/requests/{id}", "/debug/pprof", "unmatched"}

(* What ServeMux answers itself: a path with other methods, an unknown     *)
(* path (an escaped slash makes /swagger/ one), a redirect to the cleaned  *)
(* path, with a code that depends on the release, and the target *.        *)
MuxCodes(method, label) ==
  (IF Allows(label) # {} /\ method \notin Allows(label) THEN {405} ELSE {})
    \cup (IF label \in Open \cup {"/swagger/"} THEN {404} ELSE {})
    \cup (IF label \in Open THEN {301, 307} ELSE {})
    \cup (IF label = "unmatched" THEN {400} ELSE {})

(* The method and the label of a request, none before it is routed. *)
Routes == (Methods \X Labels) \cup {<<"", "">>}

StatusCodes == 200 .. 503

Conn == [at : {"idle", "id", "route", "panic", "observe", "log", "done"},
         sent : SentIds,                  \* the header of the request
         header : Ids,                    \* X-Request-ID of the response
         code : {0} \cup StatusCodes,     \* what the client gets
         recorded : StatusCodes,          \* statusRecorder.status
         route : Routes]

(* The label sets: of the replies, and of what the workers count. *)
HttpKeys == {<<"http", r, n>> : r \in Routes, n \in StatusCodes}

WorkerKeys ==
  {<<"provider", result, 0>> : result \in {"ok", "error"}}
    \cup {<<v, "", 0>> : v \in PlainVecs} \cup {<<"", "", 0>>}

Counters == HttpKeys \cup WorkerKeys

Series(c) == <<"http", conn[c].route, conn[c].code>>

-----------------------------------------------------------------------------
(* One request, from the outside in and back out.                          *)

InFlight == {c \in Conns : conn[c].at \in {"id", "route", "panic"}}

Arrived == Cardinality(InFlight) + MapThenSumSet(LAMBDA k : answers[k], DOMAIN answers)

(* A request weighs two worker calls. *)
Load == 2 * Arrived + calls

(* The connection is kept alive: the next request on it, with the recorder *)
(* of withRequestLog, whose context carries no id.                         *)
Arrive(c) ==
  /\ conn[c].at \in {"idle", "done"}
  /\ Arrived < MaxRequests /\ Load + 2 <= MaxLoad
  /\ \E s \in SentIds : conn' = [conn EXCEPT ![c] = [FreshConn EXCEPT !.at = "id", !.sent = s]]
  /\ UNCHANGED <<metrics, answers, calls>>

(* Mutant: a generated id goes into the context only. *)
SetIdOfClient(c) ==
  LET id == IF conn[c].sent = "usable" THEN "client" ELSE "generated"
  IN  /\ conn[c].at = "id"
      /\ conn' = [conn EXCEPT ![c].at = "route",
                              ![c].header = IF id = "client" THEN id ELSE "none"]
      /\ UNCHANGED <<metrics, answers, calls>>

(* withRequestID: the response header; the context with the id is that of  *)
(* a new request, which only the routes get.                               *)
SetId(c) ==
  LET id == IF conn[c].sent = "usable" THEN "client" ELSE "generated"
  IN  /\ conn[c].at = "id"
      /\ conn' = [conn EXCEPT ![c].at = "route", ![c].header = id]
      /\ UNCHANGED <<metrics, answers, calls>>

Answered(key) ==
  answers' = [k \in DOMAIN answers \cup {key} |->
                (IF k \in DOMAIN answers THEN answers[k] ELSE 0) + (IF k = key THEN 1 ELSE 0)]

(* Mutant: the recorder starts at zero instead of 200. *)
RecordedZero(explicit, code) == IF explicit THEN code ELSE 0

(* statusRecorder: what WriteHeader was given, or its initial 200. *)
Recorded(explicit, code) == IF explicit THEN code ELSE 200

WriteReply(c, route, explicit, code) ==
  /\ conn' = [conn EXCEPT ![c].at = "observe", ![c].route = route, ![c].code = code,
                          ![c].recorded = Recorded(explicit, code)]
  /\ Answered(<<"http", route, code>>)
  /\ UNCHANGED <<metrics, calls>>

(* The handler of the matching route replies, or ServeMux does. *)
Route(c) ==
  /\ conn[c].at = "route"
  /\ \/ \E rc \in RouteCodes : \E method \in rc[1], code \in rc[3] \ {0} :
          WriteReply(c, <<method, rc[2]>>, TRUE, code)
     \/ \E label \in ImplicitRoutes, method \in Read : WriteReply(c, <<method, label>>, FALSE, 200)
     \/ \E method \in Methods, label \in Labels : \E code \in MuxCodes(method, label) :
          WriteReply(c, <<method, label>>, TRUE, code)

(* enqueue sends on the closed channel: the stack unwinds to withRecovery. *)
RoutePanics(c) ==
  /\ conn[c].at = "route"
  /\ \E rc \in RouteCodes : \E method \in rc[1] :
       0 \in rc[3] /\ conn' = [conn EXCEPT ![c].at = "panic", ![c].route = <<method, rc[2]>>]
  /\ UNCHANGED <<metrics, answers, calls>>

(* withRecovery writes the reply itself; log and metrics are skipped. *)
Recover(c) ==
  /\ conn[c].at = "panic"
  /\ conn' = [conn EXCEPT ![c].at = "done", ![c].code = 500]
  /\ UNCHANGED <<metrics, answers, calls>>

(* withRequestLog after next.ServeHTTP: count, then log. *)
Observe(c) ==
  /\ conn[c].at = "observe"
  /\ Inc(c, <<"http", conn[c].route, conn[c].recorded>>)
  /\ conn' = [conn EXCEPT ![c].at = "log"]
  /\ UNCHANGED <<answers, calls>>

(* The log line, after the count; the id is not in the context of the      *)
(* request withRequestLog was given, so the line carries none.             *)
Log(c) ==
  /\ conn[c].at = "log" /\ Quiet(c)
  /\ conn' = [conn EXCEPT ![c].at = "done"]
  /\ UNCHANGED <<metrics, answers, calls>>

ConnStep(c) ==
  \/ Arrive(c) \/ SetId(c) \/ Route(c) \/ RoutePanics(c) \/ Recover(c)
  \/ Observe(c) \/ Log(c)

(* A worker counts a provider call, or one of the plain counters. *)
WorkerCounts(w) ==
  /\ calls < MaxCalls /\ Load + 1 <= MaxLoad
  /\ calls' = calls + 1
  /\ \/ \E result \in {"ok", "error"}, took \in Durations :
          ObserveProvider(w, <<"provider", result, 0>>, took)
     \/ \E vec \in PlainVecs : Inc(w, <<vec, "", 0>>)
  /\ UNCHANGED <<conn, answers>>

HttpNext ==
  \/ \E c \in Conns : ConnStep(c)
  \/ \E w \in Workers : WorkerCounts(w)
  \/ \E g \in Goroutines : ObserveStep(g) /\ UNCHANGED <<conn, answers, calls>>

HttpSpec == HttpInit /\ [][HttpNext]_vars

-----------------------------------------------------------------------------
(* Every variable has its type.  Labels and codes come from fixed sets,    *)
(* whatever path a client asks for; the method of a label set is what the  *)
(* client sent, unrestricted (middleware.go:59-73, 82-83).                 *)
HttpTypeOK ==
  /\ conn \in [Conns -> Conn] /\ obs \in [Goroutines -> Observation(Counters)]
  /\ secondsSum \in Nat /\ secondsCount \in Nat /\ spent \in Nat /\ calls \in 0 .. MaxCalls
  /\ DOMAIN counters \subseteq Counters /\ \A k \in DOMAIN counters : counters[k] \in Nat
  /\ DOMAIN answers \subseteq HttpKeys /\ \A k \in DOMAIN answers : answers[k] \in Nat \ {0}

(* rates_http_requests_total counts each reply of a route once, under the  *)
(* code the client got, whoever registers its label set first              *)
(* (middleware.go:76-84, metrics.go:37-53).                                *)
CountsMatchAnswers ==
  \A key \in DOMAIN answers :
    LET unobserved == {c \in Conns : conn[c].at = "observe" /\ Series(c) = key}
    IN  Value(key) + Cardinality(unobserved) + Cardinality(Counting({"register", "add"}, key))
          = answers[key]

(* README.md:172-173: X-Request-ID in every reply, the client's own where  *)
(* it is usable, also when the handler has panicked.                       *)
EveryReplyCarriesId ==
  \A c \in Conns : conn[c].at = "done" =>
    conn[c].header = IF conn[c].sent = "usable" THEN "client" ELSE "generated"

=============================================================================
