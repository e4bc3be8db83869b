------------------------ MODULE RequestHandler_proofs ------------------------
(***************************************************************************)
(* Proofs about RequestHandler, for any number of connections and workers  *)
(* and any requests.  The books: every counter is the number of the        *)
(* connections that bear its mark, and what marks a connection bears can   *)
(* be told from its own state (Books).  A scrape is then compared with the *)
(* marks of the connections it must cover (Covers), and with what the      *)
(* counters it has not loaded yet would give (Bounded).  The last section  *)
(* is about the reading of a request, HttpHead.                            *)
(***************************************************************************)
EXTENDS RequestHandler, HttpHead, FiniteSetTheorems, TLAPS

Status == {200, 400, 404, 405, 500}
Formats == {"none", "Json", "Text", "Prometheus"}
Bodies == [kind : {"none", "error", "health", "metrics", "lookup"},
           format : Formats, keys : SUBSET Field, values : SUBSET Field]
Headers == SUBSET (Field \union {"Allow"})

ResponseType ==
    [status : Status \union {0}, format : Formats, headers : Headers, body : Bodies]

AnswerType ==
    [status : Status \union {0}, headers : Headers, type : Formats,
     length : Bodies, body : Bodies]

AnyRaw == UNION { Raw[c] : c \in Conn }

TypeOK ==
    /\ pc \in [Conn -> {"idle", "read", "parse", "lookup", "scrape",
                        "respond", "write", "done"}]
    /\ raw \in [Conn -> AnyRaw \union {<<>>}]
    /\ resp \in [Conn -> ResponseType]
    /\ isHead \in [Conn -> BOOLEAN]
    /\ metrics \in [Counter -> Nat]
    /\ snap \in [Conn -> [Counter -> Nat]]
    /\ loaded \in [Conn -> 0..Len(RenderOrder)]
    /\ open \subseteq Conn
    /\ answer \in [Conn -> AnswerType]
    /\ seen \in [Conn -> SUBSET Conn]

-----------------------------------------------------------------------------
(* The responses a request that parses can get: one, except that a lookup   *)
(* of an address is up to the databases.                                    *)
Outcomes(r) ==
    LET req == parse_http_request(r)
        fmt == negotiate_format(req.accept)
        json == accept_wants_json(req.accept)
    IN  IF req.method \notin {"GET", "HEAD"}
          THEN {[make_error_response(405, fmt) EXCEPT !.headers = {"Allow"}]}
        ELSE IF req.path = "/lookup"
          THEN IF parse_ip_address(find_query_param(req, "ip"))
                 THEN {make_error_response(500, fmt), make_error_response(404, fmt)}
                        \union { build_success_response(v, fmt) : v \in Result }
                 ELSE {make_error_response(400, fmt)}
        ELSE IF req.path = "/health"
          THEN {PlainResponse(200, "health", IF json THEN "Json" ELSE "Text")}
        ELSE IF req.path = "/metrics"
          THEN {PlainResponse(200, "metrics", "Prometheus")}
        ELSE {make_error_response(404, fmt)}

Parsed(c) == raw[c] # <<>> /\ Parses(raw[c])

(* What is true of a connection at each step of handle_connection().        *)
Local(c) ==
    /\ pc[c] \in {"idle", "read"} => raw[c] = <<>>
    /\ pc[c] \in {"idle", "read", "parse"} => loaded[c] = 0
    /\ pc[c] \in {"idle", "read", "parse", "lookup", "scrape"} =>
         resp[c].status = 0
    /\ pc[c] \in {"respond", "write"} => resp[c].status # 0
    /\ pc[c] \in {"parse", "lookup", "scrape"} => raw[c] \in Raw[c]
    /\ pc[c] \in {"lookup", "scrape"} =>
         /\ Parsed(c)
         /\ raw[c].method \in {"GET", "HEAD"}
         /\ isHead[c] = (raw[c].method = "HEAD")
    /\ pc[c] = "lookup" =>
         /\ raw[c].target = "/lookup"
         /\ parse_ip_address(find_query_param(parse_http_request(raw[c]), "ip"))
    /\ pc[c] = "scrape" => raw[c].target = "/metrics" /\ loaded[c] < Len(RenderOrder)
    /\ resp[c].status # 0 /\ Parsed(c) =>
         /\ resp[c] \in Outcomes(raw[c])
         /\ isHead[c] = (raw[c].method = "HEAD")
    /\ answer[c] # NoAnswer =>
         /\ pc[c] = "done"
         /\ resp[c].status # 0
         /\ answer[c] = build_http_response(resp[c], ~isHead[c])

(* Descriptors and workers.                                                 *)
Handled == { c \in Conn : pc[c] \notin {"idle", "done"} }
Occupied == open = Handled /\ Cardinality(Handled) <= Workers

(* The history variable: who was answered before a connection began.        *)
History == \A s \in Conn : s \notin seen[s] /\ seen[s] \subseteq Answered

-----------------------------------------------------------------------------
Dispatched(c) == pc[c] \in {"lookup", "scrape"} \/ resp[c].status # 0
Responded(c) == pc[c] \in {"write", "done"} /\ resp[c].status # 0

RequestClass(c) ==
    IF Parsed(c) THEN RequestCounterFor(raw[c].target) ELSE "other_requests_total"

(* The connection has incremented the counter.                              *)
Bears(c, k) ==
    \/ k \in RequestCounter /\ Dispatched(c) /\ k = RequestClass(c)
    \/ k \in ResponseCounter /\ Responded(c) /\ k = ResponseCounterFor(resp[c].status)
    \/ k = "lookup_found_total" /\ IsLookup(c) /\ resp[c].status = 200
    \/ k = "lookup_not_found_total" /\ IsLookup(c) /\ resp[c].status = 404

Tally(k) == { c \in Conn : Bears(c, k) }

Books == \A k \in Counter : metrics[k] = Cardinality(Tally(k))

(* The counters that scrape s has loaded.                                   *)
Loads(s) == { RenderOrder[i] : i \in 1..loaded[s] }

(* The connections a loaded counter must cover: those answered before, and  *)
(* the scrape itself.                                                       *)
Due(s, k) ==
    { c \in seen[s] : Bears(c, k) }
      \union { c \in {s} : k = "metrics_requests_total" }

Covers ==
    \A s \in Conn : \A k \in Counter :
      k \in Loads(s) => snap[s][k] >= Cardinality(Due(s, k))

(* The scrape, completed with the counters as they are now.                 *)
View(s) == [k \in Counter |-> IF k \in Loads(s) THEN snap[s][k] ELSE metrics[k]]

Bounded ==
    \A s \in Conn :
      /\ \A k \in Counter : snap[s][k] <= metrics[k]
      /\ loaded[s] >= 4 => Requests(snap[s]) <= Responses(View(s)) + Workers

-----------------------------------------------------------------------------
(* Requests, responses and the order of the loads *)

(* A request that was read is a record, not the <<>> of none.               *)
LEMMA RawIsSomething == \A c \in Conn : \A r \in Raw[c] : r # <<>>
<1> TAKE c \in Conn
<1> TAKE r \in Raw[c]
<1>1. DOMAIN r = {"version", "method", "target", "query", "accept"}
  BY RawAssumption DEF RawOk
<1>2. DOMAIN <<>> = {}
  OBVIOUS
<1>3. QED
  BY <1>1, <1>2

(* Every response that can be sent has a status that is counted.            *)
LEMMA PlainResponseType ==
    \A status \in Status, kind \in {"error", "health", "metrics"}, format \in Formats :
      /\ PlainResponse(status, kind, format) \in ResponseType
      /\ PlainResponse(status, kind, format).status = status
BY DEF PlainResponse, Response, Body, ResponseType, Bodies, Headers

(* A successful lookup's response is one, with the values found.            *)
LEMMA SuccessResponseType ==
    \A v \in Result, format \in Formats :
      /\ build_success_response(v, format) \in ResponseType
      /\ build_success_response(v, format).status = 200
      /\ build_success_response(v, format).body.values = v
<1> TAKE v \in Result, format \in Formats
<1>1. v \in SUBSET Field
  BY ResultAssumption
<1>2. Body("lookup", format, IF format = "Json" THEN Field ELSE v, v) \in Bodies
  BY <1>1 DEF Body, Bodies
<1>3. v \ {"country_name"} \in Headers
  BY <1>1 DEF Headers
<1>4. QED
  BY <1>2, <1>3 DEF build_success_response, Response, Body, ResponseType, Status

(* Negotiation always settles on one of two formats.                        *)
LEMMA FormatType == \A accept : negotiate_format(accept) \in {"Json", "Text"}
BY DEF negotiate_format

(* Every outcome is a response with one of the five statuses.               *)
LEMMA OutcomesType ==
    \A r : \A x \in Outcomes(r) : x \in ResponseType /\ x.status \in Status
<1> TAKE r
<1> TAKE x \in Outcomes(r)
<1> DEFINE fmt == negotiate_format(parse_http_request(r).accept)
<1>1. fmt \in Formats
  BY FormatType DEF Formats
<1>2. \A status \in Status :
        [make_error_response(status, fmt) EXCEPT !.headers = {"Allow"}]
          \in [status : {status}, format : Formats, headers : Headers, body : Bodies]
  BY <1>1 DEF make_error_response, PlainResponse, Response, Body, Headers, Bodies
<1>3. \A status \in Status : make_error_response(status, fmt) \in ResponseType
        /\ make_error_response(status, fmt).status = status
  BY <1>1, PlainResponseType DEF make_error_response
<1>4. "Json" \in Formats /\ "Text" \in Formats /\ "Prometheus" \in Formats
  BY DEF Formats
<1>5. 200 \in Status /\ 400 \in Status /\ 404 \in Status /\ 405 \in Status
      /\ 500 \in Status
  BY DEF Status
<1> HIDE DEF fmt
<1>6. \/ x = [make_error_response(405, fmt) EXCEPT !.headers = {"Allow"}]
      \/ \E status \in {400, 404, 500} : x = make_error_response(status, fmt)
      \/ \E v \in Result : x = build_success_response(v, fmt)
      \/ \E f \in {"Json", "Text"} : x = PlainResponse(200, "health", f)
      \/ x = PlainResponse(200, "metrics", "Prometheus")
  BY DEF Outcomes, fmt
<1>7. CASE x = [make_error_response(405, fmt) EXCEPT !.headers = {"Allow"}]
  BY <1>2, <1>5, <1>7 DEF ResponseType
<1>8. QED
  BY <1>1, <1>3, <1>4, <1>5, <1>6, <1>7, PlainResponseType, SuccessResponseType

(* render_prometheus_metrics() loads the requests first.                    *)
LEMMA RenderFacts ==
    /\ Len(RenderOrder) = 11
    /\ \A i \in 1..11 : RenderOrder[i] \in Counter
    /\ \A i, j \in 1..11 : RenderOrder[i] = RenderOrder[j] => i = j
    /\ { RenderOrder[i] : i \in 1..4 } = RequestCounter
    /\ { RenderOrder[i] : i \in 1..11 } = Counter
<1>1. /\ RenderOrder[1] = "lookup_requests_total"
      /\ RenderOrder[2] = "health_requests_total"
      /\ RenderOrder[3] = "metrics_requests_total"
      /\ RenderOrder[4] = "other_requests_total"
      /\ RenderOrder[5] = "responses_200"
      /\ RenderOrder[6] = "responses_400"
      /\ RenderOrder[7] = "responses_404"
      /\ RenderOrder[8] = "responses_405"
      /\ RenderOrder[9] = "responses_500"
      /\ RenderOrder[10] = "lookup_found_total"
      /\ RenderOrder[11] = "lookup_not_found_total"
  BY DEF RenderOrder
<1>2. Len(RenderOrder) = 11
  BY DEF RenderOrder
<1>3. \A i \in 1..11 : i = 1 \/ i = 2 \/ i = 3 \/ i = 4 \/ i = 5 \/ i = 6
                       \/ i = 7 \/ i = 8 \/ i = 9 \/ i = 10 \/ i = 11
  OBVIOUS
<1>4. \A i \in 1..4 : i = 1 \/ i = 2 \/ i = 3 \/ i = 4
  OBVIOUS
<1>5. \A i \in 1..11 : RenderOrder[i] \in Counter
  BY <1>1, <1>3 DEF Counter, RequestCounter, ResponseCounter
<1>6. \A i, j \in 1..11 : RenderOrder[i] = RenderOrder[j] => i = j
  BY <1>1, <1>3
<1>7. { RenderOrder[i] : i \in 1..4 } = RequestCounter
  BY <1>1, <1>4 DEF RequestCounter
<1>8. { RenderOrder[i] : i \in 1..11 } = Counter
  BY <1>1, <1>5 DEF Counter, RequestCounter, ResponseCounter
<1>9. QED
  BY <1>2, <1>5, <1>6, <1>7, <1>8

(* Each request and each response has one counter, of its own kind.         *)
LEMMA CounterTypes ==
    /\ \A path : RequestCounterFor(path) \in RequestCounter
    /\ \A status \in Status : ResponseCounterFor(status) \in ResponseCounter
    /\ RequestCounter \subseteq Counter /\ ResponseCounter \subseteq Counter
    /\ \A path : RequestCounterFor(path) = "lookup_requests_total" <=> path = "/lookup"
    /\ RequestCounterFor("") = "other_requests_total"
    /\ RequestCounterFor("/metrics") = "metrics_requests_total"
    /\ RequestCounter \cap ResponseCounter = {}
    /\ \A k \in {"lookup_found_total", "lookup_not_found_total"} :
         k \notin RequestCounter /\ k \notin ResponseCounter
BY DEF RequestCounterFor, ResponseCounterFor, RequestCounter, ResponseCounter,
       Counter, Status

-----------------------------------------------------------------------------
(* What the steps do *)

(* A request that parses is counted under its path, and is answered with    *)
(* the one outcome it has unless it is a lookup of an address or a scrape.  *)
DispatchEffect(c) ==
    /\ pc[c] = "parse" /\ Parses(raw[c])
    /\ metrics' = Incremented(RequestCounterFor(raw[c].target))
    /\ isHead' = [isHead EXCEPT ![c] = (raw[c].method = "HEAD")]
    /\ UNCHANGED <<raw, snap, loaded, open, answer, seen>>
    /\ \/ \E x \in Outcomes(raw[c]) :
            /\ Answer(c, x)
            /\ raw[c].target = "/lookup" => x.status \in {400, 405}
       \/ /\ raw[c].method \in {"GET", "HEAD"} /\ raw[c].target = "/lookup"
          /\ parse_ip_address(find_query_param(parse_http_request(raw[c]), "ip"))
          /\ Goto(c, "lookup") /\ UNCHANGED resp
       \/ /\ raw[c].method \in {"GET", "HEAD"} /\ raw[c].target = "/metrics"
          /\ Goto(c, "scrape") /\ UNCHANGED resp

(* Dispatch does one of these and nothing else.                             *)
LEMMA DispatchCases ==
    ASSUME NEW c \in Conn, Dispatch(c)
    PROVE  DispatchEffect(c)
<1> USE DEF DispatchEffect
<1> DEFINE req == parse_http_request(raw[c])
           fmt == negotiate_format(req.accept)
           json == accept_wants_json(req.accept)
<1>1. req.method = raw[c].method /\ req.path = raw[c].target
  BY DEF parse_http_request
<1>2. CASE req.method \notin {"GET", "HEAD"}
  <2>1. Answer(c, [make_error_response(405, fmt) EXCEPT !.headers = {"Allow"}])
    BY <1>2 DEF Dispatch
  <2>2. [make_error_response(405, fmt) EXCEPT !.headers = {"Allow"}] \in Outcomes(raw[c])
    BY <1>2 DEF Outcomes
  <2>3. [make_error_response(405, fmt) EXCEPT !.headers = {"Allow"}].status = 405
    BY DEF make_error_response, PlainResponse, Response
  <2>4. QED
    BY <1>1, <2>1, <2>2, <2>3 DEF Dispatch
<1>3. CASE req.method \in {"GET", "HEAD"} /\ req.path = "/lookup"
  <2>1. make_error_response(400, fmt).status = 400
    BY DEF make_error_response, PlainResponse, Response
  <2>2. CASE parse_ip_address(find_query_param(req, "ip"))
    BY <1>1, <1>3, <2>2 DEF Dispatch
  <2>3. CASE ~parse_ip_address(find_query_param(req, "ip"))
    <3>1. Answer(c, make_error_response(400, fmt))
      BY <1>3, <2>3 DEF Dispatch
    <3>2. make_error_response(400, fmt) \in Outcomes(raw[c])
      BY <1>3, <2>3 DEF Outcomes
    <3>3. QED
      BY <1>1, <2>1, <3>1, <3>2 DEF Dispatch
  <2>4. QED
    BY <2>2, <2>3
<1>4. CASE req.method \in {"GET", "HEAD"} /\ req.path = "/metrics"
  BY <1>1, <1>4 DEF Dispatch
<1>5. CASE req.method \in {"GET", "HEAD"} /\ req.path \notin {"/lookup", "/metrics"}
  <2>1. \E x \in Outcomes(raw[c]) : Answer(c, x)
    BY <1>5 DEF Dispatch, Outcomes
  <2>2. QED
    BY <1>1, <1>5, <2>1 DEF Dispatch
<1>6. QED
  BY <1>2, <1>3, <1>4, <1>5

(* So is a lookup, whatever the databases say.                              *)
LEMMA LookupAnswers ==
    ASSUME NEW c \in Conn, Local(c),
           LookupError(c) \/ LookupNotFound(c) \/ LookupFound(c)
    PROVE  \E x \in Outcomes(raw[c]) :
             /\ Answer(c, x)
             /\ \/ LookupError(c) /\ x.status = 500
                \/ LookupNotFound(c) /\ x.status = 404
                \/ LookupFound(c) /\ x.status = 200
<1> DEFINE fmt == Format(c)
<1>1. Outcomes(raw[c]) =
        {make_error_response(500, fmt), make_error_response(404, fmt)}
          \union { build_success_response(v, fmt) : v \in Result }
  BY DEF Local, Outcomes, LookupError, LookupNotFound, LookupFound, Format,
         parse_http_request
<1>2. /\ make_error_response(500, fmt).status = 500
      /\ make_error_response(404, fmt).status = 404
      /\ \A v \in Result : build_success_response(v, fmt).status = 200
  BY DEF make_error_response, PlainResponse, Response, build_success_response
<1>3. CASE LookupError(c)
  <2>1. Answer(c, make_error_response(500, fmt))
    BY <1>3 DEF LookupError
  <2>2. QED
    BY <1>1, <1>2, <1>3, <2>1
<1>4. CASE LookupNotFound(c)
  <2>1. Answer(c, make_error_response(404, fmt))
    BY <1>4 DEF LookupNotFound
  <2>2. QED
    BY <1>1, <1>2, <1>4, <2>1
<1>5. CASE LookupFound(c)
  <2>1. PICK v \in Result : Answer(c, build_success_response(v, fmt))
    BY <1>5 DEF LookupFound
  <2>2. QED
    BY <1>1, <1>2, <1>5, <2>1
<1>6. QED
  BY <1>3, <1>4, <1>5

(* A step of one connection leaves the others alone.                        *)
LEMMA OthersStay ==
    ASSUME TypeOK, NEW c \in Conn, Begin(c) \/ Handle(c), NEW d \in Conn, d # c
    PROVE  /\ pc'[d] = pc[d] /\ raw'[d] = raw[d] /\ resp'[d] = resp[d]
           /\ isHead'[d] = isHead[d] /\ snap'[d] = snap[d]
           /\ loaded'[d] = loaded[d] /\ answer'[d] = answer[d]
           /\ seen'[d] = seen[d]
<1> USE DEF TypeOK, Goto, Answer
<1>1. CASE Begin(c) \/ ReadGivesUp(c) \/ ReadOk(c)
  BY <1>1 DEF Begin, ReadGivesUp, ReadOk
<1>2. CASE ReadTooLarge(c) \/ RejectMalformed(c) \/ LookupError(c)
           \/ LookupNotFound(c) \/ LookupFound(c)
  BY <1>2 DEF ReadTooLarge, RejectMalformed, LookupError, LookupNotFound,
     LookupFound
<1>3. CASE Dispatch(c)
  <2>1. DispatchEffect(c)
    BY <1>3, DispatchCases
  <2>2. \/ resp' = resp
        \/ \E x : resp' = [resp EXCEPT ![c] = x]
    BY <2>1 DEF DispatchEffect
  <2>3. \E w : pc' = [pc EXCEPT ![c] = w]
    BY <2>1 DEF DispatchEffect
  <2>4. QED
    BY <2>1, <2>2, <2>3 DEF DispatchEffect
<1>4. CASE LoadCounter(c)
  <2>1. /\ pc' = pc \/ Goto(c, "respond")
        /\ resp' = resp \/ \E x : resp' = [resp EXCEPT ![c] = x]
    BY <1>4 DEF LoadCounter
  <2>2. \E f : snap' = [snap EXCEPT ![c] = f]
    BY <1>4 DEF LoadCounter
  <2>3. QED
    BY <1>4, <2>1, <2>2 DEF LoadCounter
<1>5. CASE RecordResponse(c) \/ WriteAndClose(c)
  BY <1>5 DEF RecordResponse, WriteAndClose
<1>6. QED
  BY <1>1, <1>2, <1>3, <1>4, <1>5 DEF Handle

-----------------------------------------------------------------------------
(* Types *)

(* A response that is answered is well formed.                              *)
LEMMA AnswerTypes ==
    ASSUME TypeOK, NEW c \in Conn, NEW x \in ResponseType, Answer(c, x)
    PROVE  /\ resp' \in [Conn -> ResponseType]
           /\ pc' \in [Conn -> {"idle", "read", "parse", "lookup", "scrape",
                                "respond", "write", "done"}]
BY DEF TypeOK, Answer, Goto

(* The answer to a request that does not parse is a response.               *)
LEMMA RefusalType ==
    /\ make_error_response(400, "Json") \in ResponseType
    /\ make_error_response(400, "Json").status = 400
BY PlainResponseType DEF make_error_response, Status, Formats

(* An increment leaves the counters numbers.                                *)
LEMMA IncrementedType ==
    ASSUME TypeOK, NEW k \in Counter
    PROVE  Incremented(k) \in [Counter -> Nat]
BY DEF TypeOK, Incremented

(* What is built from a response is an answer.                              *)
LEMMA BuildType ==
    \A x \in ResponseType, b \in BOOLEAN : build_http_response(x, b) \in AnswerType
<1> TAKE x \in ResponseType, b \in BOOLEAN
<1>1. NoBody \in Bodies /\ "none" \in Formats
  BY DEF NoBody, Body, Bodies, Formats
<1>2. QED
  BY <1>1 DEF build_http_response, ResponseType, AnswerType

(* The response not made yet is told from all others by its status.         *)
LEMMA NoResponseType == NoResponse \in ResponseType /\ NoResponse.status = 0
<1>1. NoBody \in Bodies /\ "none" \in Formats /\ {} \in Headers
  BY DEF NoBody, Body, Bodies, Formats, Headers
<1>2. QED
  BY <1>1 DEF NoResponse, Response, ResponseType

(* A scrape under way has a counter left to load.                           *)
LEMMA NextLoad ==
    ASSUME TypeOK, NEW c \in Conn, Local(c), pc[c] = "scrape"
    PROVE  loaded[c] \in 0..10 /\ loaded[c] + 1 \in 1..11
<1>1. loaded[c] \in 0..11 /\ Len(RenderOrder) = 11
  BY RenderFacts DEF TypeOK
<1>2. loaded[c] < Len(RenderOrder)
  BY DEF Local
<1>3. QED
  BY <1>1, <1>2

(* Every step preserves the types. *)
LEMMA StepTypeOK ==
    ASSUME TypeOK, NEW c \in Conn, Local(c), Begin(c) \/ Handle(c)
    PROVE  TypeOK'
<1>1. CASE Begin(c)
  <2>1. Answered \in SUBSET Conn
    BY DEF Answered
  <2>2. QED
    BY <1>1, <2>1 DEF Begin, Goto, TypeOK
<1>2. CASE ReadGivesUp(c)
  BY <1>2 DEF ReadGivesUp, Goto, TypeOK
<1>3. CASE ReadOk(c)
  <2>1. Raw[c] \subseteq AnyRaw
    BY DEF AnyRaw
  <2>2. QED
    BY <1>3, <2>1 DEF ReadOk, Goto, TypeOK
<1>4. CASE ReadTooLarge(c) \/ RejectMalformed(c)
  <2>1. Answer(c, make_error_response(400, "Json"))
    BY <1>4 DEF ReadTooLarge, RejectMalformed
  <2>2. metrics' \in [Counter -> Nat]
    BY <1>4, IncrementedType, CounterTypes DEF ReadTooLarge, RejectMalformed
  <2>3. /\ resp' \in [Conn -> ResponseType]
        /\ pc' \in [Conn -> {"idle", "read", "parse", "lookup", "scrape",
                             "respond", "write", "done"}]
    BY <2>1, AnswerTypes, RefusalType
  <2>4. QED
    BY <1>4, <2>2, <2>3 DEF ReadTooLarge, RejectMalformed, TypeOK
<1>5. CASE Dispatch(c)
  <2>1. DispatchEffect(c)
    BY <1>5, DispatchCases
  <2>2. metrics' \in [Counter -> Nat]
    <3>1. RequestCounterFor(raw[c].target) \in Counter
      BY CounterTypes
    <3>2. QED
      BY <2>1, <3>1, IncrementedType DEF DispatchEffect
  <2>3. isHead' \in [Conn -> BOOLEAN]
    BY <2>1 DEF DispatchEffect, TypeOK
  <2>4. /\ resp' \in [Conn -> ResponseType]
        /\ pc' \in [Conn -> {"idle", "read", "parse", "lookup", "scrape",
                             "respond", "write", "done"}]
    <3>1. CASE \E x \in Outcomes(raw[c]) : Answer(c, x)
      BY <3>1, OutcomesType, AnswerTypes
    <3>2. CASE resp' = resp /\ (Goto(c, "lookup") \/ Goto(c, "scrape"))
      BY <3>2 DEF TypeOK, Goto
    <3>3. QED
      BY <2>1, <3>1, <3>2 DEF DispatchEffect
  <2>5. QED
    BY <2>1, <2>2, <2>3, <2>4 DEF DispatchEffect, TypeOK
<1>6. CASE LookupError(c) \/ LookupNotFound(c) \/ LookupFound(c)
  <2>1. /\ resp' \in [Conn -> ResponseType]
        /\ pc' \in [Conn -> {"idle", "read", "parse", "lookup", "scrape",
                             "respond", "write", "done"}]
    BY <1>6, LookupAnswers, OutcomesType, AnswerTypes
  <2>2. "lookup_found_total" \in Counter /\ "lookup_not_found_total" \in Counter
    BY DEF Counter
  <2>3. metrics' \in [Counter -> Nat]
    BY <1>6, <2>2, IncrementedType DEF LookupError, LookupNotFound, LookupFound, TypeOK
  <2>4. QED
    BY <1>6, <2>1, <2>3 DEF LookupError, LookupNotFound, LookupFound, TypeOK
<1>7. CASE LoadCounter(c)
  <2>1. loaded[c] + 1 \in 1..11
    BY <1>7, NextLoad DEF LoadCounter
  <2>2. RenderOrder[loaded[c] + 1] \in Counter
    BY <2>1, RenderFacts
  <2>3. snap' \in [Conn -> [Counter -> Nat]]
    <3> DEFINE k == RenderOrder[loaded[c] + 1]
    <3>1. [snap[c] EXCEPT ![k] = metrics[k]] \in [Counter -> Nat]
      BY <2>2 DEF TypeOK
    <3>2. snap' = [snap EXCEPT ![c] = [snap[c] EXCEPT ![k] = metrics[k]]]
      BY <1>7 DEF LoadCounter
    <3>3. QED
      BY <3>1, <3>2 DEF TypeOK
  <2>4. loaded' \in [Conn -> 0..Len(RenderOrder)]
    <3>1. loaded[c] + 1 \in 0..Len(RenderOrder)
      BY <2>1, RenderFacts
    <3>2. QED
      BY <1>7, <3>1 DEF LoadCounter, TypeOK
  <2>5. PlainResponse(200, "metrics", "Prometheus") \in ResponseType
    BY PlainResponseType DEF Status, Formats
  <2>6. /\ resp' \in [Conn -> ResponseType]
        /\ pc' \in [Conn -> {"idle", "read", "parse", "lookup", "scrape",
                             "respond", "write", "done"}]
    BY <1>7, <2>5, AnswerTypes DEF LoadCounter, TypeOK
  <2>7. QED
    BY <1>7, <2>3, <2>4, <2>6 DEF LoadCounter, TypeOK
<1>8. CASE RecordResponse(c)
  <2>1. resp[c].status \in Status
    BY <1>8 DEF RecordResponse, Local, TypeOK, ResponseType
  <2>2. metrics' \in [Counter -> Nat]
    BY <1>8, <2>1, IncrementedType, CounterTypes DEF RecordResponse
  <2>3. QED
    BY <1>8, <2>2 DEF RecordResponse, Goto, TypeOK
<1>9. CASE WriteAndClose(c)
  <2>1. build_http_response(resp[c], ~isHead[c]) \in AnswerType
    BY BuildType DEF TypeOK
  <2>2. answer' \in [Conn -> AnswerType]
    BY <1>9, <2>1 DEF WriteAndClose, TypeOK
  <2>3. QED
    BY <1>9, <2>2 DEF WriteAndClose, Goto, TypeOK
<1>10. QED
  BY <1>1, <1>2, <1>3, <1>4, <1>5, <1>6, <1>7, <1>8, <1>9 DEF Handle

-----------------------------------------------------------------------------
(* One connection *)

(* handle_connection() keeps what is known of its connection.               *)
LEMMA StepLocal ==
    ASSUME TypeOK, NEW c \in Conn, Local(c), Begin(c) \/ Handle(c)
    PROVE  Local(c)'
<1> USE DEF Local, Parsed
<1>1. /\ c \in DOMAIN pc /\ c \in DOMAIN raw /\ c \in DOMAIN resp
      /\ c \in DOMAIN isHead /\ c \in DOMAIN loaded /\ c \in DOMAIN answer
  BY DEF TypeOK
<1>2. CASE Begin(c) \/ ReadGivesUp(c)
  BY <1>1, <1>2 DEF Begin, ReadGivesUp, Goto
<1>3. CASE ReadOk(c)
  BY <1>1, <1>3 DEF ReadOk, Goto
<1>4. CASE ReadTooLarge(c) \/ RejectMalformed(c)
  <2>1. /\ pc'[c] = "respond" /\ resp'[c] = make_error_response(400, "Json")
        /\ raw' = raw /\ isHead' = isHead /\ answer' = answer /\ loaded' = loaded
    BY <1>1, <1>4 DEF ReadTooLarge, RejectMalformed, Answer, Goto
  <2>2. ~(raw[c] # <<>> /\ Parses(raw[c]))
    BY <1>4 DEF ReadTooLarge, RejectMalformed
  <2>3. pc[c] \in {"read", "parse"}
    BY <1>4 DEF ReadTooLarge, RejectMalformed
  <2>4. QED
    BY <2>1, <2>2, <2>3, RefusalType
<1>5. CASE Dispatch(c)
  <2>1. DispatchEffect(c)
    BY <1>5, DispatchCases
  <2>2. raw[c] # <<>>
    BY <2>1, RawIsSomething DEF DispatchEffect
  <2>3. ASSUME NEW x \in Outcomes(raw[c]), Answer(c, x) PROVE Local(c)'
    <3>1. x.status # 0
      BY <2>3, OutcomesType DEF Status
    <3>2. pc'[c] = "respond" /\ resp'[c] = x
      BY <1>1, <2>3 DEF Answer, Goto
    <3>3. QED
      BY <1>1, <2>1, <3>1, <3>2 DEF DispatchEffect
  <2>4. CASE Goto(c, "lookup") /\ UNCHANGED resp /\ raw[c].target = "/lookup"
             /\ raw[c].method \in {"GET", "HEAD"}
             /\ parse_ip_address(find_query_param(parse_http_request(raw[c]), "ip"))
    <3>1. /\ pc'[c] = "lookup" /\ raw' = raw /\ resp' = resp /\ answer' = answer
          /\ loaded' = loaded /\ isHead'[c] = (raw[c].method = "HEAD")
          /\ pc[c] = "parse" /\ Parses(raw[c])
      BY <1>1, <2>1, <2>4 DEF DispatchEffect, Goto
    <3>2. QED
      BY <2>2, <2>4, <3>1
  <2>5. CASE Goto(c, "scrape") /\ UNCHANGED resp /\ raw[c].target = "/metrics"
             /\ raw[c].method \in {"GET", "HEAD"}
    <3>1. /\ pc'[c] = "scrape" /\ raw' = raw /\ resp' = resp /\ answer' = answer
          /\ loaded' = loaded /\ isHead'[c] = (raw[c].method = "HEAD")
          /\ pc[c] = "parse" /\ Parses(raw[c])
      BY <1>1, <2>1, <2>5 DEF DispatchEffect, Goto
    <3>2. QED
      BY <2>2, <2>5, <3>1, RenderFacts
  <2>6. QED
    BY <2>1, <2>3, <2>4, <2>5 DEF DispatchEffect
<1>6. CASE LookupError(c) \/ LookupNotFound(c) \/ LookupFound(c)
  <2>1. PICK x \in Outcomes(raw[c]) : Answer(c, x)
    BY <1>6, LookupAnswers
  <2>2. x.status # 0
    BY OutcomesType DEF Status
  <2>3. QED
    BY <1>1, <1>6, <2>1, <2>2
       DEF LookupError, LookupNotFound, LookupFound, Answer, Goto
<1>7. CASE LoadCounter(c)
  <2>1. raw' = raw /\ isHead' = isHead /\ answer' = answer /\ loaded'[c] = loaded[c] + 1
    BY <1>1, <1>7 DEF LoadCounter
  <2>2. CASE loaded'[c] < Len(RenderOrder)
    BY <1>1, <1>7, <2>1, <2>2 DEF LoadCounter
  <2>3. CASE ~(loaded'[c] < Len(RenderOrder))
    <3> DEFINE x == PlainResponse(200, "metrics", "Prometheus")
    <3>1. x.status = 200
      BY DEF PlainResponse, Response
    <3>2. Outcomes(raw[c]) = {x}
      BY <1>7 DEF LoadCounter, Outcomes, parse_http_request
    <3>3. pc'[c] = "respond" /\ resp'[c] = x
      BY <1>1, <1>7, <2>3 DEF LoadCounter, Answer, Goto
    <3> HIDE DEF x
    <3>4. QED
      BY <1>7, <2>1, <3>1, <3>2, <3>3 DEF LoadCounter
  <2>4. QED
    BY <2>2, <2>3
<1>8. CASE RecordResponse(c)
  BY <1>1, <1>8 DEF RecordResponse, Goto
<1>9. CASE WriteAndClose(c)
  BY <1>1, <1>9 DEF WriteAndClose, Goto
<1>10. QED
  BY <1>2, <1>3, <1>4, <1>5, <1>6, <1>7, <1>8, <1>9 DEF Handle

(* Every step keeps what is true of each connection.                        *)
LEMMA StepLocals ==
    ASSUME TypeOK, \A d \in Conn : Local(d), NEW c \in Conn, Begin(c) \/ Handle(c)
    PROVE  \A d \in Conn : Local(d)'
<1>1. ASSUME NEW d \in Conn, d # c PROVE Local(d)'
  BY <1>1, OthersStay DEF Local, Parsed
<1>2. QED
  BY <1>1, StepLocal

-----------------------------------------------------------------------------
(* Descriptors, workers and the history *)

(* There are never more connections being handled than workers, and their   *)
(* descriptors are the ones that are open.                                  *)
LEMMA StepOccupied ==
    ASSUME TypeOK, NEW c \in Conn, Local(c), Occupied, Begin(c) \/ Handle(c)
    PROVE  Occupied'
<1>1. IsFiniteSet(Handled) /\ Cardinality(Handled) \in Nat
  BY ConnAssumption, FS_Subset, FS_CardinalityType DEF Handled
<1>2. \A d \in Conn : d # c => pc'[d] = pc[d]
  BY OthersStay
<1>3. CASE Begin(c)
  <2>1. pc'[c] = "read" /\ pc[c] = "idle"
    BY <1>3 DEF Begin, Goto, TypeOK
  <2>2. Handled' = Handled \union {c} /\ c \notin Handled
    BY <1>2, <2>1 DEF Handled
  <2>3. Cardinality(Handled') = Cardinality(Handled) + 1
    BY <1>1, <2>2, FS_AddElement
  <2>4. Cardinality(Handled) < Workers
    BY <1>3 DEF Begin, Handled
  <2>5. QED
    BY <1>1, <1>3, <2>2, <2>3, <2>4, WorkersAssumption DEF Begin, Occupied
<1>4. CASE ReadGivesUp(c) \/ WriteAndClose(c)
  <2>1. pc'[c] = "done" /\ pc[c] \in {"read", "write"} /\ open' = open \ {c}
    BY <1>4 DEF ReadGivesUp, WriteAndClose, Goto, TypeOK
  <2>2. Handled' = Handled \ {c} /\ c \in Handled
    BY <1>2, <2>1 DEF Handled
  <2>3. Cardinality(Handled') = Cardinality(Handled) - 1
    BY <1>1, <2>2, FS_RemoveElement
  <2>4. QED
    BY <1>1, <2>1, <2>2, <2>3, WorkersAssumption DEF Occupied
<1>5. CASE \/ ReadTooLarge(c) \/ ReadOk(c) \/ RejectMalformed(c) \/ Dispatch(c)
           \/ LookupError(c) \/ LookupNotFound(c) \/ LookupFound(c)
           \/ LoadCounter(c) \/ RecordResponse(c)
  <2>1. pc[c] \notin {"idle", "done"} /\ open' = open
    BY <1>5 DEF ReadTooLarge, ReadOk, RejectMalformed, Dispatch, LookupError,
       LookupNotFound, LookupFound, LoadCounter, RecordResponse
  <2>2. pc'[c] \notin {"idle", "done"}
    <3>1. CASE Dispatch(c)
      <4>1. DispatchEffect(c)
        BY <3>1, DispatchCases
      <4>2. \E w \in {"lookup", "scrape", "respond"} : pc' = [pc EXCEPT ![c] = w]
        BY <4>1 DEF DispatchEffect, Answer, Goto
      <4>3. QED
        BY <4>2 DEF TypeOK
    <3>2. CASE LoadCounter(c)
      BY <3>2 DEF LoadCounter, Answer, Goto, TypeOK
    <3>3. QED
      BY <1>5, <3>1, <3>2 DEF ReadTooLarge, ReadOk, RejectMalformed, LookupError,
         LookupNotFound, LookupFound, RecordResponse, Answer, Goto, TypeOK
  <2>3. Handled' = Handled
    BY <1>2, <2>1, <2>2 DEF Handled
  <2>4. QED
    BY <2>1, <2>3 DEF Occupied
<1>6. QED
  BY <1>3, <1>4, <1>5 DEF Handle

(* An answer is written once, by a connection that is not done.             *)
LEMMA AnswersStay ==
    ASSUME TypeOK, NEW c \in Conn, Local(c), Begin(c) \/ Handle(c)
    PROVE  /\ pc[c] # "done"
           /\ answer[c] = NoAnswer
           /\ \A d \in Answered : answer'[d] = answer[d]
           /\ Answered \subseteq Answered'
<1>1. pc[c] # "done"
  BY DEF Begin, Handle, ReadGivesUp, ReadTooLarge, ReadOk, RejectMalformed,
         Dispatch, LookupError, LookupNotFound, LookupFound, LoadCounter,
         RecordResponse, WriteAndClose
<1>2. answer[c] = NoAnswer
  BY <1>1 DEF Local
<1>3. \A d \in Conn : d # c => answer'[d] = answer[d]
  BY OthersStay
<1>4. QED
  BY <1>1, <1>2, <1>3 DEF Answered

(* Every step keeps what scrapes remember true.                             *)
LEMMA StepHistory ==
    ASSUME TypeOK, NEW c \in Conn, Local(c), History, Begin(c) \/ Handle(c)
    PROVE  History'
<1>1. Answered \subseteq Answered' /\ c \notin Answered
  BY AnswersStay DEF Answered
<1>2. seen'[c] \in {seen[c], Answered}
  BY DEF Begin, Handle, ReadGivesUp, ReadTooLarge, ReadOk, RejectMalformed,
         Dispatch, LookupError, LookupNotFound, LookupFound, LoadCounter,
         RecordResponse, WriteAndClose, TypeOK
<1>3. \A d \in Conn : d # c => seen'[d] = seen[d]
  BY OthersStay
<1>4. QED
  BY <1>1, <1>2, <1>3 DEF History

-----------------------------------------------------------------------------
(* The books *)

(* A step changes no counter and no mark, or it increments one counter and  *)
(* puts the mark of this counter, and no other, on its connection.          *)
NothingCounted(c) ==
    metrics' = metrics /\ \A j \in Counter : Bears(c, j)' <=> Bears(c, j)

Counted(c, k) ==
    /\ metrics' = Incremented(k)
    /\ ~Bears(c, k) /\ Bears(c, k)'
    /\ \A j \in Counter \ {k} : Bears(c, j)' <=> Bears(c, j)

(* A connection bears no mark before it is dispatched.                      *)
LEMMA Unmarked ==
    ASSUME NEW c \in Conn, Local(c), pc[c] \in {"idle", "read", "parse"}
    PROVE  \A k \in Counter : ~Bears(c, k)
BY DEF Local, Bears, Dispatched, Responded

(* A step of a connection counts nothing, or one counter once.              *)
LEMMA StepCounts ==
    ASSUME TypeOK, NEW c \in Conn, Local(c), Begin(c) \/ Handle(c)
    PROVE  NothingCounted(c) \/ \E k \in Counter : Counted(c, k)
<1>1. /\ c \in DOMAIN pc /\ c \in DOMAIN raw /\ c \in DOMAIN resp
  BY DEF TypeOK
<1>2. Local(c)'
  BY StepLocal
<1>3. CASE Begin(c) \/ ReadGivesUp(c) \/ ReadOk(c)
  <2>1. resp' = resp /\ metrics' = metrics
        /\ pc[c] \in {"idle", "read"} /\ pc'[c] \in {"read", "parse", "done"}
    BY <1>1, <1>3 DEF Begin, ReadGivesUp, ReadOk, Goto
  <2>2. resp[c].status = 0
    BY <2>1 DEF Local
  <2>3. QED
    BY <2>1, <2>2 DEF NothingCounted, Bears, Dispatched, Responded
<1>4. CASE ReadTooLarge(c) \/ RejectMalformed(c)
  <2>1. /\ pc'[c] = "respond" /\ resp'[c] = make_error_response(400, "Json")
        /\ raw' = raw
        /\ metrics' = Incremented(RequestCounterFor(""))
        /\ pc[c] \in {"read", "parse"}
    BY <1>1, <1>4 DEF ReadTooLarge, RejectMalformed, Answer, Goto
  <2>2. ~Parsed(c) /\ ~Parsed(c)'
    BY <1>4, <2>1 DEF ReadTooLarge, RejectMalformed, Local, Parsed
  <2>3. \A k \in Counter : ~Bears(c, k)
    BY <2>1, Unmarked
  <2>4. /\ "other_requests_total" \in RequestCounter
        /\ "other_requests_total" \in Counter
        /\ RequestCounterFor("") = "other_requests_total"
    BY CounterTypes DEF RequestCounter, Counter
  <2>5. /\ Dispatched(c)' /\ ~Responded(c)'
        /\ RequestClass(c)' = "other_requests_total" /\ ~IsLookup(c)'
    <3>1. resp'[c].status # 0
      BY <1>2, <2>1 DEF Local
    <3>2. RequestClass(c)' = "other_requests_total" /\ ~IsLookup(c)'
      BY <2>2 DEF RequestClass, IsLookup, Parsed
    <3>3. QED
      BY <2>1, <3>1, <3>2 DEF Dispatched, Responded
  <2>6. \A j \in Counter : Bears(c, j)' <=> j = "other_requests_total"
    BY <2>4, <2>5 DEF Bears
  <2>7. Counted(c, "other_requests_total")
    BY <2>1, <2>3, <2>4, <2>6 DEF Counted
  <2>8. QED
    BY <2>4, <2>7
<1>5. CASE Dispatch(c)
  <2>1. DispatchEffect(c)
    BY <1>5, DispatchCases
  <2>2. PICK k \in Counter : k \in RequestCounter /\ k = RequestCounterFor(raw[c].target)
    BY CounterTypes
  <2>3. Parsed(c) /\ raw' = raw
    BY <2>1, RawIsSomething DEF DispatchEffect, Local, Parsed
  <2>4. \A j \in Counter : ~Bears(c, j)
    BY <2>1, Unmarked DEF DispatchEffect
  <2>5. /\ Dispatched(c)' /\ ~Responded(c)'
        /\ raw[c].target = "/lookup" => resp'[c].status \in {0, 400, 405}
    <3>1. ASSUME NEW x \in Outcomes(raw[c]), Answer(c, x),
                 raw[c].target = "/lookup" => x.status \in {400, 405}
          PROVE  /\ Dispatched(c)' /\ ~Responded(c)'
                 /\ raw[c].target = "/lookup" => resp'[c].status \in {0, 400, 405}
      <4>1. x.status # 0
        BY <3>1, OutcomesType DEF Status
      <4>2. pc'[c] = "respond" /\ resp'[c] = x
        BY <1>1, <3>1 DEF Answer, Goto
      <4>3. QED
        BY <3>1, <4>1, <4>2 DEF Dispatched, Responded
    <3>2. CASE (Goto(c, "lookup") \/ Goto(c, "scrape")) /\ UNCHANGED resp
      BY <1>1, <2>1, <3>2 DEF DispatchEffect, Goto, Local, Dispatched, Responded
    <3>3. QED
      BY <2>1, <3>1, <3>2 DEF DispatchEffect
  <2>6. metrics' = Incremented(k)
    BY <2>1, <2>2 DEF DispatchEffect
  <2>7. RequestClass(c)' = k
    BY <2>2, <2>3 DEF RequestClass, Parsed
  <2>8. IsLookup(c)' => resp'[c].status \in {0, 400, 405}
    BY <2>3, <2>5 DEF IsLookup
  <2>9. \A j \in Counter : Bears(c, j)' <=> j = k
    BY <2>2, <2>5, <2>7, <2>8 DEF Bears
  <2>10. QED
    BY <2>2, <2>4, <2>6, <2>9 DEF Counted
<1>6. CASE LookupError(c) \/ LookupNotFound(c) \/ LookupFound(c)
  <2>1. PICK x \in Outcomes(raw[c]) :
          /\ Answer(c, x)
          /\ \/ LookupError(c) /\ x.status = 500
             \/ LookupNotFound(c) /\ x.status = 404
             \/ LookupFound(c) /\ x.status = 200
    BY <1>6, LookupAnswers
  <2>2. /\ pc[c] = "lookup" /\ pc'[c] = "respond" /\ resp'[c] = x /\ raw' = raw
        /\ IsLookup(c) /\ resp[c].status = 0
    BY <1>1, <1>6, <2>1
       DEF LookupError, LookupNotFound, LookupFound, Answer, Goto, Local,
           Parsed, IsLookup
  <2>3. x.status # 0
    BY OutcomesType DEF Status
  <2>4. /\ Dispatched(c) /\ Dispatched(c)' /\ ~Responded(c) /\ ~Responded(c)'
        /\ RequestClass(c)' = RequestClass(c) /\ IsLookup(c)'
    BY <2>2, <2>3 DEF Dispatched, Responded, RequestClass, Parsed, IsLookup
  <2>5. \A j \in Counter :
          /\ Bears(c, j) <=> j \in RequestCounter /\ j = RequestClass(c)
          /\ Bears(c, j)' <=>
               \/ j \in RequestCounter /\ j = RequestClass(c)
               \/ j = "lookup_found_total" /\ x.status = 200
               \/ j = "lookup_not_found_total" /\ x.status = 404
    BY <2>2, <2>4 DEF Bears
  <2>6. CASE LookupError(c) /\ x.status = 500
    BY <2>5, <2>6 DEF LookupError, NothingCounted
  <2>7. "lookup_found_total" \in Counter /\ "lookup_not_found_total" \in Counter
    BY DEF Counter
  <2>8. CASE LookupNotFound(c) /\ x.status = 404
    <3>1. metrics' = Incremented("lookup_not_found_total")
      BY <2>8 DEF LookupNotFound
    <3>2. ~Bears(c, "lookup_not_found_total")
      BY <2>5, <2>7, CounterTypes
    <3>3. \A j \in Counter : Bears(c, j)' <=> Bears(c, j) \/ j = "lookup_not_found_total"
      BY <2>5, <2>8
    <3>4. Counted(c, "lookup_not_found_total")
      BY <2>7, <3>1, <3>2, <3>3 DEF Counted
    <3>5. QED
      BY <2>7, <3>4
  <2>9. CASE LookupFound(c) /\ x.status = 200
    <3>1. metrics' = Incremented("lookup_found_total")
      BY <2>9 DEF LookupFound
    <3>2. ~Bears(c, "lookup_found_total")
      BY <2>5, <2>7, CounterTypes
    <3>3. \A j \in Counter : Bears(c, j)' <=> Bears(c, j) \/ j = "lookup_found_total"
      BY <2>5, <2>9
    <3>4. Counted(c, "lookup_found_total")
      BY <2>7, <3>1, <3>2, <3>3 DEF Counted
    <3>5. QED
      BY <2>7, <3>4
  <2>10. QED
    BY <2>1, <2>6, <2>8, <2>9
<1>7. CASE LoadCounter(c)
  <2>1. /\ pc[c] = "scrape" /\ pc'[c] \in {"scrape", "respond"} /\ raw' = raw
        /\ metrics' = metrics
    BY <1>1, <1>7 DEF LoadCounter, Answer, Goto
  <2>2. ~IsLookup(c) /\ ~IsLookup(c)' /\ RequestClass(c)' = RequestClass(c)
    BY <2>1 DEF Local, IsLookup, RequestClass, Parsed
  <2>3. Dispatched(c)' /\ ~Responded(c)' /\ Dispatched(c) /\ ~Responded(c)
    BY <1>2, <2>1 DEF Local, Dispatched, Responded
  <2>4. QED
    BY <2>1, <2>2, <2>3 DEF NothingCounted, Bears
<1>8. CASE RecordResponse(c)
  <2>1. /\ pc[c] = "respond" /\ pc'[c] = "write" /\ raw' = raw /\ resp' = resp
        /\ resp[c].status \in Status
    BY <1>1, <1>8 DEF RecordResponse, Goto, Local, TypeOK, ResponseType
  <2>2. PICK k \in Counter :
          k \in ResponseCounter /\ k = ResponseCounterFor(resp[c].status)
    BY <2>1, CounterTypes
  <2>3. metrics' = Incremented(k)
    BY <1>8, <2>2 DEF RecordResponse
  <2>4. /\ Dispatched(c) /\ Dispatched(c)' /\ ~Responded(c) /\ Responded(c)'
        /\ RequestClass(c)' = RequestClass(c) /\ (IsLookup(c)' <=> IsLookup(c))
    BY <2>1 DEF Dispatched, Responded, RequestClass, Parsed, IsLookup, Status
  <2>5. \A j \in Counter : Bears(c, j)' <=> Bears(c, j) \/ j = k
    BY <2>1, <2>2, <2>4 DEF Bears
  <2>6. ~Bears(c, k)
    BY <2>2, <2>4, CounterTypes DEF Bears
  <2>7. QED
    BY <2>2, <2>3, <2>5, <2>6 DEF Counted
<1>9. CASE WriteAndClose(c)
  BY <1>1, <1>9 DEF WriteAndClose, Goto, NothingCounted, Bears, Dispatched,
     Responded, RequestClass, Parsed, IsLookup
<1>10. QED
  BY <1>3, <1>4, <1>5, <1>6, <1>7, <1>8, <1>9 DEF Handle

(* There are finitely many connections of any kind.                         *)
LEMMA FiniteParts ==
    ASSUME NEW S, S \subseteq Conn
    PROVE  IsFiniteSet(S) /\ Cardinality(S) \in Nat
BY ConnAssumption, FS_Subset, FS_CardinalityType

(* Connections of two kinds that exclude each other add up.                 *)
LEMMA Disjoint ==
    ASSUME NEW S, S \subseteq Conn, NEW T, T \subseteq Conn, S \cap T = {}
    PROVE  Cardinality(S \union T) = Cardinality(S) + Cardinality(T)
<1>1. IsFiniteSet(S) /\ Cardinality(S) \in Nat /\ IsFiniteSet(T) /\ Cardinality(T) \in Nat
  BY FiniteParts
<1>2. Cardinality(S \union T) = Cardinality(S) + Cardinality(T) - Cardinality(S \cap T)
  BY <1>1, FS_Union
<1>3. Cardinality(S \cap T) = 0
  BY FS_EmptySet
<1>4. QED
  BY <1>1, <1>2, <1>3

(* The marks of the others do not change.                                   *)
LEMMA OthersMarks ==
    ASSUME TypeOK, NEW c \in Conn, Begin(c) \/ Handle(c), NEW d \in Conn, d # c
    PROVE  \A k \in Counter : Bears(d, k)' <=> Bears(d, k)
BY OthersStay DEF Bears, Dispatched, Responded, RequestClass, Parsed, IsLookup

(* Every step keeps the books.                                              *)
LEMMA StepBooks ==
    ASSUME TypeOK, NEW c \in Conn, Local(c), Books, Begin(c) \/ Handle(c)
    PROVE  Books'
<1> SUFFICES ASSUME NEW j \in Counter PROVE metrics'[j] = Cardinality(Tally(j)')
  BY DEF Books
<1>1. metrics[j] = Cardinality(Tally(j)) /\ metrics[j] \in Nat
  BY DEF Books, TypeOK
<1>2. \A d \in Conn : d # c => (Bears(d, j)' <=> Bears(d, j))
  BY OthersMarks
<1>3. CASE metrics'[j] = metrics[j] /\ (Bears(c, j)' <=> Bears(c, j))
  <2>1. Tally(j)' = Tally(j)
    BY <1>2, <1>3 DEF Tally
  <2>2. QED
    BY <1>1, <1>3, <2>1
<1>4. CASE metrics'[j] = metrics[j] + 1 /\ ~Bears(c, j) /\ Bears(c, j)'
  <2>1. Tally(j)' = Tally(j) \union {c} /\ c \notin Tally(j)
    BY <1>2, <1>4 DEF Tally
  <2>2. IsFiniteSet(Tally(j))
    BY FiniteParts DEF Tally
  <2>3. Cardinality(Tally(j)') = Cardinality(Tally(j)) + 1
    BY <2>1, <2>2, FS_AddElement
  <2>4. QED
    BY <1>1, <1>4, <2>3
<1>5. CASE NothingCounted(c)
  BY <1>3, <1>5 DEF NothingCounted
<1>6. ASSUME NEW k \in Counter, Counted(c, k)
      PROVE  metrics'[j] = Cardinality(Tally(j)')
  <2>1. metrics' = [metrics EXCEPT ![k] = @ + 1]
    BY <1>6 DEF Counted, Incremented
  <2>2. CASE j = k
    BY <1>4, <1>6, <2>1, <2>2 DEF Counted, TypeOK
  <2>3. CASE j # k
    BY <1>3, <1>6, <2>1, <2>3 DEF Counted, TypeOK
  <2>4. QED
    BY <2>2, <2>3
<1>7. QED
  BY <1>5, <1>6, StepCounts

(* The request counters divide the connections that were dispatched, the    *)
(* response counters those whose response was recorded.                     *)
LEMMA RequestParts ==
    ASSUME NEW D, D \subseteq Conn
    PROVE  Cardinality({ c \in D : Dispatched(c) }) =
             Cardinality({ c \in D : Bears(c, "lookup_requests_total") })
               + Cardinality({ c \in D : Bears(c, "health_requests_total") })
               + Cardinality({ c \in D : Bears(c, "metrics_requests_total") })
               + Cardinality({ c \in D : Bears(c, "other_requests_total") })
<1> DEFINE P(k) == { c \in D : Bears(c, k) }
           P1 == P("lookup_requests_total")
           P2 == P("health_requests_total")
           P3 == P("metrics_requests_total")
           P4 == P("other_requests_total")
<1>1. \A c \in D : \A k \in RequestCounter :
        Bears(c, k) <=> Dispatched(c) /\ k = RequestClass(c)
  BY CounterTypes DEF Bears
<1>2. \A c \in D : RequestClass(c) \in RequestCounter
  BY CounterTypes DEF RequestClass, RequestCounter
<1>3. RequestCounter = {"lookup_requests_total", "health_requests_total",
                        "metrics_requests_total", "other_requests_total"}
  BY DEF RequestCounter
<1>4. { c \in D : Dispatched(c) } = ((P1 \union P2) \union P3) \union P4
  BY <1>1, <1>2, <1>3
<1>5. /\ P1 \cap P2 = {} /\ (P1 \union P2) \cap P3 = {}
      /\ ((P1 \union P2) \union P3) \cap P4 = {}
  BY <1>1, <1>3
<1>6. P1 \subseteq Conn /\ P2 \subseteq Conn /\ P3 \subseteq Conn /\ P4 \subseteq Conn
  OBVIOUS
<1> HIDE DEF P1, P2, P3, P4
<1>7. Cardinality(P1 \union P2) = Cardinality(P1) + Cardinality(P2)
  BY <1>5, <1>6, Disjoint
<1>8. Cardinality((P1 \union P2) \union P3) = Cardinality(P1 \union P2) + Cardinality(P3)
  BY <1>5, <1>6, Disjoint
<1>9. Cardinality(((P1 \union P2) \union P3) \union P4) =
        Cardinality((P1 \union P2) \union P3) + Cardinality(P4)
  BY <1>5, <1>6, Disjoint
<1>10. QED
  BY <1>4, <1>7, <1>8, <1>9 DEF P1, P2, P3, P4

(* The responses are those of the five statuses together.                   *)
LEMMA ResponseParts ==
    ASSUME TypeOK
    PROVE  Cardinality({ c \in Conn : Responded(c) }) =
             Cardinality(Tally("responses_200")) + Cardinality(Tally("responses_400"))
               + Cardinality(Tally("responses_404"))
               + Cardinality(Tally("responses_405"))
               + Cardinality(Tally("responses_500"))
<1> DEFINE P1 == Tally("responses_200")
           P2 == Tally("responses_400")
           P3 == Tally("responses_404")
           P4 == Tally("responses_405")
           P5 == Tally("responses_500")
           Q2 == P1 \union P2
           Q3 == Q2 \union P3
           Q4 == Q3 \union P4
<1>1. \A c \in Conn : \A k \in ResponseCounter :
        Bears(c, k) <=> Responded(c) /\ k = ResponseCounterFor(resp[c].status)
  BY CounterTypes DEF Bears
<1>2. \A c \in Conn : Responded(c) => ResponseCounterFor(resp[c].status) \in ResponseCounter
  <2> TAKE c \in Conn
  <2> HAVE Responded(c)
  <2>1. resp[c].status \in Status
    BY DEF Responded, TypeOK, ResponseType
  <2>2. QED
    BY <2>1, CounterTypes
<1>3. ResponseCounter = {"responses_200", "responses_400", "responses_404",
                         "responses_405", "responses_500"}
  BY DEF ResponseCounter
<1>4. { c \in Conn : Responded(c) } = Q4 \union P5
  BY <1>1, <1>2, <1>3 DEF Tally
<1>5. P1 \cap P2 = {} /\ Q2 \cap P3 = {} /\ Q3 \cap P4 = {} /\ Q4 \cap P5 = {}
  BY <1>1, <1>3 DEF Tally
<1>6. /\ P1 \subseteq Conn /\ P2 \subseteq Conn /\ P3 \subseteq Conn
      /\ P4 \subseteq Conn /\ P5 \subseteq Conn
      /\ Q2 \subseteq Conn /\ Q3 \subseteq Conn /\ Q4 \subseteq Conn
  BY DEF Tally
<1> HIDE DEF P1, P2, P3, P4, P5
<1>7. Cardinality(Q2) = Cardinality(P1) + Cardinality(P2)
  BY <1>5, <1>6, Disjoint
<1> HIDE DEF Q2
<1>8. Cardinality(Q3) = Cardinality(Q2) + Cardinality(P3)
  BY <1>5, <1>6, Disjoint
<1> HIDE DEF Q3
<1>9. Cardinality(Q4) = Cardinality(Q3) + Cardinality(P4)
  BY <1>5, <1>6, Disjoint
<1> HIDE DEF Q4
<1>10. Cardinality(Q4 \union P5) = Cardinality(Q4) + Cardinality(P5)
  BY <1>5, <1>6, Disjoint
<1>11. QED
  BY <1>4, <1>7, <1>8, <1>9, <1>10 DEF P1, P2, P3, P4, P5

(* What is in flight: counted as a request, not as a response.              *)
InFlight == { c \in Conn : pc[c] \in {"lookup", "scrape", "respond"} }

(* Requests counted are responses counted and what is in flight.            *)
LEMMA InFlightCount ==
    ASSUME TypeOK, \A c \in Conn : Local(c), Books
    PROVE  /\ Requests(metrics) = Responses(metrics) + Cardinality(InFlight)
           /\ Requests(metrics) = Cardinality({ c \in Conn : Dispatched(c) })
<1>1. \A k \in Counter : metrics[k] = Cardinality({ c \in Conn : Bears(c, k) })
  BY DEF Books, Tally
<1>2. Requests(metrics) = Cardinality({ c \in Conn : Dispatched(c) })
  BY <1>1, RequestParts DEF Requests, Counter, RequestCounter
<1>3. Responses(metrics) = Cardinality({ c \in Conn : Responded(c) })
  BY ResponseParts DEF Books, Responses, Counter, ResponseCounter
<1>4. /\ { c \in Conn : Dispatched(c) } = { c \in Conn : Responded(c) } \union InFlight
      /\ { c \in Conn : Responded(c) } \cap InFlight = {}
  BY DEF Dispatched, Responded, InFlight, Local, TypeOK
<1>5. { c \in Conn : Responded(c) } \subseteq Conn /\ InFlight \subseteq Conn
  BY DEF InFlight
<1>6. QED
  BY <1>2, <1>3, <1>4, <1>5, Disjoint

-----------------------------------------------------------------------------
(* Scrapes *)

(* No counter ever goes down.                                               *)
LEMMA MetricsGrow ==
    ASSUME TypeOK, NEW c \in Conn, Local(c), Begin(c) \/ Handle(c)
    PROVE  \A k \in Counter : metrics'[k] >= metrics[k]
<1>1. metrics' = metrics \/ \E k \in Counter : metrics' = Incremented(k)
  BY StepCounts DEF NothingCounted, Counted
<1>2. metrics \in [Counter -> Nat]
  BY DEF TypeOK
<1>3. QED
  BY <1>1, <1>2 DEF Incremented

(* One load: the counter it is about, and what it leaves as it is.          *)
LEMMA LoadEffect ==
    ASSUME TypeOK, NEW c \in Conn, Local(c), LoadCounter(c)
    PROVE  \E k \in Counter :
             /\ k = RenderOrder[loaded[c] + 1]
             /\ k \notin Loads(c)
             /\ Loads(c)' = Loads(c) \union {k}
             /\ snap'[c][k] = metrics[k]
             /\ \A j \in Counter \ {k} : snap'[c][j] = snap[c][j]
             /\ loaded'[c] = loaded[c] + 1
             /\ metrics' = metrics /\ seen' = seen
<1>1. loaded[c] \in 0..10 /\ loaded[c] + 1 \in 1..11
  BY NextLoad DEF LoadCounter
<1>2. PICK k \in Counter : k = RenderOrder[loaded[c] + 1]
  BY <1>1, RenderFacts
<1>3. \A i \in 1..loaded[c] : i \in 1..11 /\ i # loaded[c] + 1
  BY <1>1
<1>4. k \notin Loads(c)
  BY <1>1, <1>2, <1>3, RenderFacts DEF Loads
<1>5. loaded'[c] = loaded[c] + 1
  BY DEF LoadCounter, TypeOK
<1>6. 1..(loaded[c] + 1) = 1..loaded[c] \union {loaded[c] + 1}
  BY <1>1
<1>7. Loads(c)' = Loads(c) \union {k}
  BY <1>2, <1>5, <1>6 DEF Loads
<1>8. snap'[c] = [snap[c] EXCEPT ![k] = metrics[k]]
  BY <1>2 DEF LoadCounter, TypeOK
<1>9. snap[c] \in [Counter -> Nat]
  BY DEF TypeOK
<1>10. QED
  BY <1>2, <1>4, <1>5, <1>7, <1>8, <1>9 DEF LoadCounter

(* Any other step leaves the scrapes alone, or begins a connection that has *)
(* loaded nothing.                                                          *)
LEMMA OtherSteps ==
    ASSUME TypeOK, NEW c \in Conn, Begin(c) \/ Handle(c), ~LoadCounter(c)
    PROVE  snap' = snap /\ loaded' = loaded /\ (seen' = seen \/ Begin(c))
BY DEF Begin, Handle, ReadGivesUp, ReadTooLarge, ReadOk, RejectMalformed,
       Dispatch, LookupError, LookupNotFound, LookupFound, RecordResponse,
       WriteAndClose

(* Those who were answered keep their marks.                                *)
LEMMA DueStays ==
    ASSUME TypeOK, NEW c \in Conn, Local(c), History, Begin(c) \/ Handle(c),
           NEW s \in Conn, seen'[s] = seen[s], NEW k \in Counter
    PROVE  Due(s, k)' = Due(s, k)
<1>1. \A d \in seen[s] : d \in Conn /\ d # c
  BY AnswersStay DEF History, Answered, TypeOK
<1>2. \A d \in seen[s] : Bears(d, k)' <=> Bears(d, k)
  BY <1>1, OthersMarks
<1>3. QED
  BY <1>2 DEF Due

(* Every step keeps the scrapes covering who was answered before them.      *)
LEMMA StepCovers ==
    ASSUME TypeOK, NEW c \in Conn, Local(c), History, Books, Covers,
           Begin(c) \/ Handle(c)
    PROVE  Covers'
<1> SUFFICES ASSUME NEW s \in Conn, NEW k \in Counter, k \in Loads(s)'
             PROVE  snap'[s][k] >= Cardinality(Due(s, k)')
  BY DEF Covers
<1>1. CASE seen'[s] = seen[s] /\ snap'[s][k] = snap[s][k] /\ k \in Loads(s)
  BY <1>1, DueStays DEF Covers
<1>2. CASE s # c
  <2>1. snap'[s] = snap[s] /\ loaded'[s] = loaded[s] /\ seen'[s] = seen[s]
    BY <1>2, OthersStay
  <2>2. k \in Loads(s)
    BY <2>1 DEF Loads
  <2>3. QED
    BY <1>1, <2>1, <2>2
<1>3. CASE s = c /\ ~LoadCounter(c)
  <2>1. snap' = snap /\ loaded' = loaded /\ (seen' = seen \/ Begin(c))
    BY <1>3, OtherSteps
  <2>2. k \in Loads(s)
    BY <2>1 DEF Loads
  <2>3. ~Begin(c)
    <3> SUFFICES ASSUME Begin(c) PROVE FALSE
      OBVIOUS
    <3>1. loaded[c] = 0
      BY DEF Begin, Local
    <3>2. QED
      BY <1>3, <2>2, <3>1 DEF Loads
  <2>4. QED
    BY <1>1, <2>1, <2>2, <2>3
<1>4. CASE s = c /\ LoadCounter(c)
  <2>1. PICK l \in Counter :
             /\ Loads(c)' = Loads(c) \union {l}
             /\ snap'[c][l] = metrics[l]
             /\ \A j \in Counter \ {l} : snap'[c][j] = snap[c][j]
             /\ seen' = seen
    BY <1>4, LoadEffect
  <2>2. CASE k # l
    BY <1>1, <1>4, <2>1, <2>2
  <2>3. CASE k = l
    <3>1. Bears(c, "metrics_requests_total")
      <4>1. Parsed(c) /\ raw[c].target = "/metrics" /\ Dispatched(c)
        BY <1>4 DEF LoadCounter, Local, Dispatched
      <4>2. RequestClass(c) = "metrics_requests_total"
        BY <4>1, CounterTypes DEF RequestClass
      <4>3. QED
        BY <4>1, <4>2 DEF Bears, RequestCounter
    <3>2. Due(c, k) \subseteq Tally(k) /\ Tally(k) \subseteq Conn
      BY <3>1 DEF Due, Tally, History, Answered
    <3>3. IsFiniteSet(Tally(k)) /\ Cardinality(Tally(k)) \in Nat
      BY <3>2, FiniteParts
    <3>4. Cardinality(Due(c, k)) <= Cardinality(Tally(k))
          /\ Cardinality(Due(c, k)) \in Nat
      BY <3>2, <3>3, FS_Subset, FS_CardinalityType
    <3>5. snap'[c][k] = Cardinality(Tally(k))
      BY <2>1, <2>3 DEF Books
    <3>6. Due(c, k)' = Due(c, k)
      BY <2>1, DueStays
    <3>7. QED
      BY <1>4, <3>3, <3>4, <3>5, <3>6
  <2>4. QED
    BY <2>2, <2>3
<1>5. QED
  BY <1>2, <1>3, <1>4

(* Sums of counters follow the counters.                                    *)
LEMMA SumsMonotone ==
    ASSUME NEW m \in [Counter -> Nat], NEW n \in [Counter -> Nat]
    PROVE  /\ (\A k \in RequestCounter : m[k] <= n[k]) => Requests(m) <= Requests(n)
           /\ (\A k \in ResponseCounter : m[k] <= n[k]) => Responses(m) <= Responses(n)
           /\ Requests(m) \in Nat /\ Responses(m) \in Nat
<1>1. \A k \in Counter : m[k] \in Nat /\ n[k] \in Nat
  OBVIOUS
<1>2. QED
  BY <1>1 DEF Requests, Responses, RequestCounter, ResponseCounter, Counter

(* A scrape completed with the present counters is one of numbers.          *)
LEMMA ViewType == TypeOK => \A s \in Conn : View(s) \in [Counter -> Nat]
BY DEF TypeOK, View

(* Every step keeps the scrapes within the bound.                           *)
LEMMA StepBounded ==
    ASSUME TypeOK, TypeOK', \A d \in Conn : Local(d), Occupied, Books, Bounded,
           NEW c \in Conn, Begin(c) \/ Handle(c)
    PROVE  Bounded'
<1> SUFFICES ASSUME NEW s \in Conn
             PROVE  /\ \A k \in Counter : snap'[s][k] <= metrics'[k]
                    /\ loaded'[s] >= 4 =>
                         Requests(snap'[s]) <= Responses(View(s)') + Workers
  BY DEF Bounded
<1>1. /\ metrics \in [Counter -> Nat] /\ metrics' \in [Counter -> Nat]
      /\ snap[s] \in [Counter -> Nat] /\ snap'[s] \in [Counter -> Nat]
      /\ View(s) \in [Counter -> Nat] /\ View(s)' \in [Counter -> Nat]
      /\ loaded[s] \in Nat /\ loaded'[s] \in Nat
  <2>1. View(s) \in [Counter -> Nat]
    BY ViewType
  <2>2. View(s)' \in [Counter -> Nat]
    BY DEF TypeOK, View
  <2>3. loaded[s] \in 0..11 /\ loaded'[s] \in 0..11
    BY RenderFacts DEF TypeOK
  <2>4. QED
    BY <2>1, <2>2, <2>3 DEF TypeOK
<1>2. \A k \in Counter : metrics'[k] >= metrics[k]
  BY MetricsGrow
<1>3. /\ \A k \in Counter : snap[s][k] <= metrics[k]
      /\ loaded[s] >= 4 => Requests(snap[s]) <= Responses(View(s)) + Workers
  BY DEF Bounded
<1>4. RequestCounter \subseteq Counter /\ ResponseCounter \subseteq Counter
      /\ RequestCounter \cap ResponseCounter = {}
  BY CounterTypes
<1>5. /\ Requests(snap[s]) \in Nat /\ Requests(snap'[s]) \in Nat
      /\ Responses(View(s)) \in Nat /\ Responses(View(s)') \in Nat
      /\ Requests(metrics) \in Nat /\ Responses(metrics) \in Nat
  BY <1>1, SumsMonotone
<1>6. CASE s # c \/ ~LoadCounter(c)
  <2>1. snap'[s] = snap[s] /\ loaded'[s] = loaded[s]
    BY <1>6, OthersStay, OtherSteps
  <2>2. Loads(s)' = Loads(s)
    BY <2>1 DEF Loads
  <2>3. \A k \in Counter : View(s)[k] <= View(s)'[k]
    BY <1>1, <1>2, <2>1, <2>2 DEF View
  <2>4. Responses(View(s)) <= Responses(View(s)')
    BY <1>1, <1>4, <2>3, SumsMonotone
  <2>5. \A k \in Counter : snap'[s][k] <= metrics'[k]
    BY <1>1, <1>2, <1>3, <2>1
  <2>6. QED
    BY <1>3, <1>5, <2>1, <2>4, <2>5, WorkersAssumption
<1>7. CASE s = c /\ LoadCounter(c)
  <2>1. PICK l \in Counter :
             /\ l = RenderOrder[loaded[c] + 1]
             /\ l \notin Loads(c)
             /\ Loads(c)' = Loads(c) \union {l}
             /\ snap'[c][l] = metrics[l]
             /\ \A j \in Counter \ {l} : snap'[c][j] = snap[c][j]
             /\ loaded'[c] = loaded[c] + 1
             /\ metrics' = metrics
    BY <1>7, LoadEffect
  <2>2. \A k \in Counter : snap'[s][k] <= metrics'[k]
    BY <1>1, <1>3, <1>7, <2>1
  <2>3. CASE loaded[s] >= 4
    <3>1. l \notin RequestCounter
      <4>1. loaded[c] + 1 \in 1..11 /\ loaded[c] + 1 \notin 1..4
        <5>1. loaded[c] \in 0..10 /\ loaded[c] >= 4
          BY <1>7, <2>3, NextLoad DEF LoadCounter
        <5>2. QED
          BY <5>1
      <4>2. \A i \in 1..4 : i \in 1..11
        OBVIOUS
      <4>3. QED
        BY <2>1, <4>1, <4>2, RenderFacts
    <3>2. Requests(snap'[s]) <= Requests(snap[s])
      <4>1. \A k \in RequestCounter : snap'[s][k] <= snap[s][k]
        BY <1>1, <1>4, <1>7, <2>1, <3>1
      <4>2. QED
        BY <1>1, <4>1, SumsMonotone
    <3>3. Responses(View(s)) <= Responses(View(s)')
      <4>1. \A k \in Counter : View(s)[k] <= View(s)'[k]
        BY <1>1, <1>7, <2>1 DEF View
      <4>2. QED
        BY <1>1, <1>4, <4>1, SumsMonotone
    <3>4. QED
      BY <1>3, <1>5, <2>2, <2>3, <3>2, <3>3, WorkersAssumption
  <2>4. CASE loaded[s] < 4
    <3> SUFFICES ASSUME loaded'[s] >= 4
                 PROVE  Requests(snap'[s]) <= Responses(View(s)') + Workers
      BY <2>2
    <3>1. loaded'[s] = 4
      BY <1>1, <1>7, <2>1, <2>4
    <3>2. Loads(s)' = RequestCounter
      BY <3>1, RenderFacts DEF Loads
    <3>3. Requests(snap'[s]) <= Requests(metrics)
      BY <1>1, <1>4, <2>1, <2>2, SumsMonotone
    <3>4. Responses(metrics) <= Responses(View(s)')
      <4>1. \A k \in ResponseCounter : metrics[k] <= View(s)'[k]
        BY <1>1, <1>4, <2>1, <3>2 DEF View
      <4>2. QED
        BY <1>1, <4>1, SumsMonotone
    <3>5. Cardinality(InFlight) <= Workers /\ Cardinality(InFlight) \in Nat
      <4>1. InFlight \subseteq Handled /\ Handled \subseteq Conn
        BY DEF InFlight, Handled
      <4>2. IsFiniteSet(Handled) /\ Cardinality(Handled) \in Nat
        BY <4>1, FiniteParts
      <4>3. Cardinality(InFlight) <= Cardinality(Handled)
            /\ Cardinality(InFlight) \in Nat
        BY <4>1, <4>2, FS_Subset, FS_CardinalityType
      <4>4. QED
        BY <4>2, <4>3, WorkersAssumption DEF Occupied
    <3>6. Requests(metrics) = Responses(metrics) + Cardinality(InFlight)
      BY InFlightCount
    <3>7. QED
      BY <1>5, <3>3, <3>4, <3>5, <3>6, WorkersAssumption
  <2>5. QED
    BY <1>1, <2>3, <2>4
<1>8. QED
  BY <1>6, <1>7

-----------------------------------------------------------------------------
HandlerInv ==
    /\ TypeOK
    /\ \A c \in Conn : Local(c)
    /\ Occupied /\ History /\ Books /\ Covers /\ Bounded

(* The initial state has the invariant. *)
LEMMA InitInv == Init => HandlerInv
<1> SUFFICES ASSUME Init PROVE HandlerInv
  OBVIOUS
<1>1. NoAnswer \in AnswerType
  BY NoResponseType, BuildType DEF NoAnswer
<1>2. Zero \in [Counter -> Nat] /\ Len(RenderOrder) = 11
  BY RenderFacts DEF Zero
<1>3. TypeOK
  BY <1>1, <1>2, NoResponseType DEF Init, TypeOK
<1>4. ASSUME NEW c \in Conn PROVE Local(c)
  BY NoResponseType DEF Init, Local
<1>5. Handled = {} /\ Answered = {}
  BY DEF Init, Handled, Answered
<1>6. Occupied /\ History
  BY <1>5, FS_EmptySet, WorkersAssumption DEF Occupied, History, Init
<1>7. Books
  <2>1. \A c \in Conn, k \in Counter : ~Bears(c, k)
    BY <1>4, Unmarked DEF Init
  <2>2. \A k \in Counter : Tally(k) = {}
    BY <2>1 DEF Tally
  <2>3. QED
    BY <2>2, FS_EmptySet DEF Books, Init, Zero
<1>8. \A s \in Conn : Loads(s) = {}
  BY DEF Init, Loads
<1>9. Covers /\ Bounded
  BY <1>8 DEF Covers, Bounded, Init, Zero
<1>10. QED
  BY <1>3, <1>4, <1>6, <1>7, <1>9 DEF HandlerInv

(* Every step keeps it. *)
LEMMA StepInv == HandlerInv /\ [Next]_vars => HandlerInv'
<1> SUFFICES ASSUME HandlerInv, [Next]_vars PROVE HandlerInv'
  OBVIOUS
<1> USE DEF HandlerInv
<1>1. ASSUME NEW c \in Conn, Begin(c) \/ Handle(c) PROVE HandlerInv'
  <2>1. TypeOK'
    BY <1>1, StepTypeOK
  <2>2. \A d \in Conn : Local(d)'
    BY <1>1, StepLocals
  <2>3. Occupied' /\ History'
    BY <1>1, StepOccupied, StepHistory
  <2>4. Books' /\ Covers'
    BY <1>1, StepBooks, StepCovers
  <2>5. Bounded'
    BY <1>1, <2>1, StepBounded
  <2>6. QED
    BY <2>1, <2>2, <2>3, <2>4, <2>5
<1>2. CASE UNCHANGED vars
  <2>1. TypeOK' /\ (\A c \in Conn : Local(c)')
    BY <1>2 DEF vars, TypeOK, Local, Parsed
  <2>2. Occupied' /\ History'
    BY <1>2 DEF vars, Occupied, Handled, History, Answered
  <2>3. \A c \in Conn, k \in Counter : Bears(c, k)' <=> Bears(c, k)
    BY <1>2 DEF vars, Bears, Dispatched, Responded, RequestClass, Parsed, IsLookup
  <2>4. \A k \in Counter : Tally(k)' = Tally(k)
    BY <2>3 DEF Tally
  <2>5. \A s \in Conn, k \in Counter : Due(s, k)' = Due(s, k)
    BY <1>2, <2>3 DEF vars, Due, TypeOK
  <2>6. \A s \in Conn : Loads(s)' = Loads(s)
    BY <1>2 DEF vars, Loads
  <2>7. Books' /\ Covers' /\ Bounded'
    BY <1>2, <2>4, <2>5, <2>6 DEF vars, Books, Covers, Bounded, View
  <2>8. QED
    BY <2>1, <2>2, <2>7
<1>3. QED
  BY <1>1, <1>2 DEF Next

(* The conjunction is an invariant.                                         *)
LEMMA Invariant == Spec => []HandlerInv
BY InitInv, StepInv, PTL DEF Spec

-----------------------------------------------------------------------------
(* The state of handle_connection() and the counters have their types in    *)
(* every reachable state.                                                   *)
THEOREM TypeCorrect == Spec => []TypeOK
<1>1. HandlerInv => TypeOK
  BY DEF HandlerInv
<1>2. QED
  BY <1>1, Invariant, PTL

(* On every path through handle_connection(), whatever the interleaving,    *)
(* requests are responses plus what is in flight, each /lookup is accounted *)
(* for, and a descriptor is open exactly while its connection is handled.   *)
THEOREM CountersAlwaysBalance == Spec => []CountersBalance
<1>1. HandlerInv => CountersBalance
  <2> SUFFICES ASSUME HandlerInv PROVE CountersBalance
    OBVIOUS
  <2> USE DEF HandlerInv
  <2>1. Requests(metrics) = Responses(metrics)
          + Cardinality({ c \in Conn : pc[c] \in {"lookup", "scrape", "respond"} })
    BY InFlightCount DEF InFlight
  <2>2. open = { c \in Conn : pc[c] \notin {"idle", "done"} }
    BY DEF Occupied, Handled
  <2> DEFINE Found == Tally("lookup_found_total")
             NotFound == Tally("lookup_not_found_total")
             Rest == { c \in Conn : IsLookup(c) /\
                         (pc[c] = "lookup" \/ resp[c].status \in {400, 405, 500}) }
  <2>3. \A c \in Conn : Bears(c, "lookup_requests_total") <=> Dispatched(c) /\ IsLookup(c)
    <3> TAKE c \in Conn
    <3>1. RequestClass(c) = "lookup_requests_total" <=> IsLookup(c)
      BY CounterTypes DEF RequestClass, IsLookup, Parsed
    <3>2. QED
      BY <3>1, CounterTypes DEF Bears, RequestCounter
  <2>4. \A c \in Conn :
          /\ Bears(c, "lookup_found_total") <=> IsLookup(c) /\ resp[c].status = 200
          /\ Bears(c, "lookup_not_found_total") <=> IsLookup(c) /\ resp[c].status = 404
    BY CounterTypes DEF Bears
  <2>5. \A c \in Conn : resp[c].status \in Status \union {0}
    BY DEF TypeOK, ResponseType
  <2>6. \A c \in Conn : /\ pc[c] = "scrape" => ~IsLookup(c)
                        /\ pc[c] = "lookup" => resp[c].status = 0
    BY DEF Local, IsLookup
  <2>7. Tally("lookup_requests_total") = (Found \union NotFound) \union Rest
    BY <2>3, <2>4, <2>5, <2>6 DEF Tally, Dispatched, Status
  <2>8. Found \cap NotFound = {} /\ (Found \union NotFound) \cap Rest = {}
    BY <2>4, <2>6 DEF Tally
  <2>9. Found \subseteq Conn /\ NotFound \subseteq Conn /\ Rest \subseteq Conn
    BY DEF Tally
  <2>10. /\ metrics["lookup_requests_total"] = Cardinality(Tally("lookup_requests_total"))
         /\ metrics["lookup_found_total"] = Cardinality(Found)
         /\ metrics["lookup_not_found_total"] = Cardinality(NotFound)
    BY DEF Books, Counter, RequestCounter
  <2> HIDE DEF Found, NotFound, Rest
  <2>11. Cardinality(Found \union NotFound) = Cardinality(Found) + Cardinality(NotFound)
    BY <2>8, <2>9, Disjoint
  <2>12. Cardinality((Found \union NotFound) \union Rest) =
           Cardinality(Found \union NotFound) + Cardinality(Rest)
    BY <2>8, <2>9, Disjoint
  <2>13. metrics["lookup_requests_total"] =
           metrics["lookup_found_total"] + metrics["lookup_not_found_total"]
             + Cardinality(Rest)
    BY <2>7, <2>10, <2>11, <2>12
  <2>14. QED
    BY <2>1, <2>2, <2>13 DEF CountersBalance, Rest
<1>2. QED
  BY <1>1, Invariant, PTL

(* An answer, and the same one without its body.                            *)
Wire(st, hd, ty, len, b) ==
    [status |-> st, headers |-> hd, type |-> ty, length |-> len, body |-> b]

Headless(a) == [a EXCEPT !.type = "none", !.body = NoBody]

(* Leaving type and body out of an answer changes nothing else.             *)
LEMMA BodyDropped ==
    \A st, hd, ty, b : Headless(Wire(st, hd, ty, b, b)) = Wire(st, hd, "none", b, NoBody)
<1> TAKE st, hd, ty, b
<1> DEFINE Only == [status : {st}, headers : {hd}, type : {"none"}, length : {b},
                    body : {NoBody}]
<1>1. Headless(Wire(st, hd, ty, b, b)) \in Only
  BY DEF Headless, Wire
<1>2. \A x \in Only : x = Wire(st, hd, "none", b, NoBody)
  BY DEF Wire
<1>3. QED
  BY <1>1, <1>2, Zenon

(* README.md:426: HEAD returns the status, headers and Content-Length GET   *)
(* would, and no body, for every request that parses.                       *)
THEOREM HeadAlwaysMirrorsGet == Spec => []HeadMirrorsGet
<1>1. HandlerInv => HeadMirrorsGet
  <2> SUFFICES ASSUME HandlerInv, NEW g \in Answered, NEW h \in Answered,
                      SameButForHead(g, h)
               PROVE  /\ answer[h] = [answer[g] EXCEPT !.type = "none", !.body = NoBody]
                      /\ answer[g].body = answer[g].length
    BY DEF HeadMirrorsGet
  <2>1. /\ g \in Conn /\ h \in Conn
        /\ answer[g] # NoAnswer /\ answer[h] # NoAnswer
    BY DEF Answered
  <2>2. Local(g) /\ Local(h)
    BY <2>1 DEF HandlerInv
  <2>3. /\ resp[g].status # 0 /\ answer[g] = build_http_response(resp[g], ~isHead[g])
        /\ resp[h].status # 0 /\ answer[h] = build_http_response(resp[h], ~isHead[h])
    BY <2>1, <2>2 DEF Local
  <2>4. /\ raw[g] # <<>> /\ raw[h] # <<>> /\ Parses(raw[g]) /\ raw[g].method = "GET"
        /\ raw[h] = [raw[g] EXCEPT !.method = "HEAD"]
        /\ resp[g].body.values = resp[h].body.values
        /\ \A s \in {200, 500} : (resp[g].status = s) <=> (resp[h].status = s)
    BY DEF SameButForHead
  <2>5. DOMAIN raw[g] = {"version", "method", "target", "query", "accept"}
    <3>1. raw[g] \in AnyRaw
      BY <2>1, <2>4 DEF HandlerInv, TypeOK
    <3>2. QED
      BY <3>1, RawAssumption DEF AnyRaw, RawOk
  <2>6. /\ raw[h].version = raw[g].version /\ raw[h].target = raw[g].target
        /\ raw[h].query = raw[g].query /\ raw[h].accept = raw[g].accept
        /\ raw[h].method = "HEAD"
    BY <2>4, <2>5
  <2>7. Parses(raw[h])
    BY <2>4, <2>6 DEF Parses
  <2>8. /\ resp[g] \in Outcomes(raw[g]) /\ resp[h] \in Outcomes(raw[h])
        /\ ~isHead[g] /\ isHead[h]
    BY <2>2, <2>3, <2>4, <2>6, <2>7 DEF Local, Parsed
  <2>9. resp[g] = resp[h]
    <3> DEFINE rg == parse_http_request(raw[g])
               rh == parse_http_request(raw[h])
               fmt == negotiate_format(rg.accept)
    <3>1. /\ rg.method = "GET" /\ rh.method = "HEAD" /\ rh.path = rg.path
          /\ rh.query = rg.query /\ rh.accept = rg.accept
      BY <2>4, <2>6 DEF parse_http_request
    <3>2. find_query_param(rh, "ip") = find_query_param(rg, "ip")
      BY <3>1 DEF find_query_param
    <3>3. Outcomes(raw[h]) = Outcomes(raw[g])
      BY <3>1, <3>2 DEF Outcomes
    <3>4. CASE rg.path = "/lookup" /\ parse_ip_address(find_query_param(rg, "ip"))
      <4>1. Outcomes(raw[g]) =
              {make_error_response(500, fmt), make_error_response(404, fmt)}
                \union { build_success_response(v, fmt) : v \in Result }
        BY <3>1, <3>4 DEF Outcomes
      <4>2. /\ make_error_response(500, fmt).status = 500
            /\ make_error_response(404, fmt).status = 404
        BY DEF make_error_response, PlainResponse, Response
      <4>3. \A v \in Result : /\ build_success_response(v, fmt).status = 200
                              /\ build_success_response(v, fmt).body.values = v
        BY SuccessResponseType, FormatType DEF Formats
      <4> HIDE DEF fmt
      <4>4. QED
        BY <2>4, <2>8, <3>3, <4>1, <4>2, <4>3
    <3>5. CASE ~(rg.path = "/lookup" /\ parse_ip_address(find_query_param(rg, "ip")))
      <4>1. \E x : Outcomes(raw[g]) = {x}
        BY <3>1, <3>5 DEF Outcomes
      <4>2. QED
        BY <2>8, <3>3, <4>1
    <3>6. QED
      BY <3>4, <3>5
  <2>10. answer[g] = Wire(resp[g].status, resp[g].headers, resp[g].format,
                          resp[g].body, resp[g].body)
    BY <2>3, <2>8 DEF build_http_response, Wire
  <2>11. answer[h] = Wire(resp[g].status, resp[g].headers, "none",
                          resp[g].body, NoBody)
    BY <2>3, <2>8, <2>9 DEF build_http_response, Wire
  <2>12. answer[h] = Headless(answer[g])
    BY <2>10, <2>11, BodyDropped
  <2>13. answer[g].body = answer[g].length
    BY <2>10 DEF Wire
  <2>14. QED
    BY <2>12, <2>13 DEF Headless
<1>2. QED
  BY <1>1, Invariant, PTL

(* A client that has its answer is in every later scrape, as a request and  *)
(* under its status, although the counters are loaded one by one while      *)
(* others increment them.                                                   *)
THEOREM ScrapesCoverAnswered == Spec => []ScrapeCoversAnswered
<1>1. HandlerInv => ScrapeCoversAnswered
  <2> SUFFICES ASSUME HandlerInv, NEW s \in Conn, Scraped(s)
               PROVE  /\ Requests(snap[s]) > Cardinality(seen[s])
                      /\ \A c \in seen[s] :
                           snap[s][ResponseCounterFor(answer[c].status)] >=
                             Cardinality({ d \in seen[s] :
                               answer[d].status = answer[c].status })
    BY DEF ScrapeCoversAnswered
  <2> USE DEF HandlerInv
  <2>1. Loads(s) = Counter
    BY RenderFacts DEF Scraped, Loads
  <2>2. \A k \in Counter : snap[s][k] >= Cardinality(Due(s, k)) /\ snap[s][k] \in Nat
    BY <2>1 DEF Covers, TypeOK
  <2>3. s \notin seen[s] /\ seen[s] \subseteq Answered /\ seen[s] \subseteq Conn
    BY DEF History, Answered
  <2>4. \A c \in seen[s] :
          /\ pc[c] = "done" /\ resp[c].status \in Status
          /\ answer[c].status = resp[c].status
    BY <2>3 DEF Answered, Local, build_http_response, TypeOK, ResponseType
  <2>5. \A c \in seen[s] : Dispatched(c) /\ Responded(c)
    BY <2>4 DEF Dispatched, Responded, Status
  <2>6. Requests(snap[s]) > Cardinality(seen[s])
    <3> DEFINE P(k) == { c \in seen[s] : Bears(c, k) }
    <3>1. \A k : P(k) \subseteq Conn
      BY <2>3
    <3>2. \A k : IsFiniteSet(P(k)) /\ Cardinality(P(k)) \in Nat
      BY <3>1, FiniteParts
    <3>3. { c \in seen[s] : Dispatched(c) } = seen[s]
      BY <2>5
    <3>4. Cardinality(seen[s]) =
            Cardinality(P("lookup_requests_total"))
              + Cardinality(P("health_requests_total"))
              + Cardinality(P("metrics_requests_total"))
              + Cardinality(P("other_requests_total"))
      BY <2>3, <3>3, RequestParts
    <3>5. /\ Due(s, "lookup_requests_total") = P("lookup_requests_total")
          /\ Due(s, "health_requests_total") = P("health_requests_total")
          /\ Due(s, "other_requests_total") = P("other_requests_total")
          /\ Due(s, "metrics_requests_total") = P("metrics_requests_total") \union {s}
      BY DEF Due
    <3>6. s \notin P("metrics_requests_total")
      BY <2>3
    <3> HIDE DEF P
    <3>7. Cardinality(Due(s, "metrics_requests_total")) =
            Cardinality(P("metrics_requests_total")) + 1
      BY <3>2, <3>5, <3>6, FS_AddElement
    <3>8. QED
      BY <2>2, <3>2, <3>4, <3>5, <3>7 DEF Requests, Counter, RequestCounter
  <2>7. ASSUME NEW c \in seen[s]
        PROVE  snap[s][ResponseCounterFor(answer[c].status)] >=
                 Cardinality({ d \in seen[s] : answer[d].status = answer[c].status })
    <3> DEFINE same == { d \in seen[s] : answer[d].status = answer[c].status }
    <3>1. PICK k \in Counter :
            k \in ResponseCounter /\ k = ResponseCounterFor(answer[c].status)
      BY <2>4, CounterTypes
    <3>2. \A d \in same : Bears(d, k)
      BY <2>4, <2>5, <3>1 DEF Bears
    <3>3. same \subseteq Due(s, k) /\ Due(s, k) \subseteq Conn
      BY <2>3, <3>2 DEF Due
    <3> HIDE DEF same
    <3>4. /\ IsFiniteSet(Due(s, k)) /\ Cardinality(Due(s, k)) \in Nat
      BY <3>3, FiniteParts
    <3>5. Cardinality(same) <= Cardinality(Due(s, k)) /\ Cardinality(same) \in Nat
      BY <3>3, <3>4, FS_Subset, FS_CardinalityType
    <3>6. snap[s][k] >= Cardinality(same)
      BY <2>2, <3>4, <3>5
    <3>7. QED
      BY <3>1, <3>6 DEF same
  <2>8. QED
    BY <2>6, <2>7
<1>2. QED
  BY <1>1, Invariant, PTL

(* Requests minus responses, as one scrape shows them, is never more than   *)
(* the number of workers, because render_prometheus_metrics() loads the     *)
(* requests first.                                                          *)
THEOREM ScrapesBoundInFlight == Spec => []ScrapeBoundsInFlight
<1>1. HandlerInv => ScrapeBoundsInFlight
  <2> SUFFICES ASSUME HandlerInv, NEW s \in Conn, Scraped(s)
               PROVE  Requests(snap[s]) - Responses(snap[s]) <= Workers
    BY DEF ScrapeBoundsInFlight
  <2> USE DEF HandlerInv
  <2>1. Loads(s) = Counter /\ loaded[s] = 11
    BY RenderFacts DEF Scraped, Loads
  <2>2. snap[s] \in [Counter -> Nat]
    BY DEF TypeOK
  <2>3. View(s) = snap[s]
    BY <2>1, <2>2 DEF View
  <2>4. Requests(snap[s]) <= Responses(snap[s]) + Workers
    BY <2>1, <2>3 DEF Bounded
  <2>5. Requests(snap[s]) \in Nat /\ Responses(snap[s]) \in Nat
    BY <2>2, SumsMonotone
  <2>6. QED
    BY <2>4, <2>5, WorkersAssumption
<1>2. QED
  BY <1>1, Invariant, PTL

-----------------------------------------------------------------------------
(* The reading of a request: HttpHead, on variables of its own, for every   *)
(* limit, buffer size, timeout and clock resolution, and for streams of any *)
(* length.  The two safety properties follow from two invariants about the  *)
(* places in the loop: what the buffer holds there (Reading), and what the  *)
(* clock says (OnTime).                                                     *)

(* What the worker has in hand while it is still reading: a head that is    *)
(* within the limit and not complete yet.                                   *)
Complete == client.head \in 1..size

Reading ==
    /\ hpc # "done" => (size <= MaxBytes /\ ~Complete)
    /\ VerdictIsTrue

(* Chunks that came late.  Past the top of the loop none has, since the     *)
(* deadline was tested there; back at the top at most one has, and then the *)
(* clock is past the deadline, where it stays.  A poll() in progress times  *)
(* out less than a millisecond before the deadline.                         *)
OnTime ==
    /\ deadline = Timeout
    /\ late <= 1
    /\ hpc \in {"poll", "recv"} => late = 0
    /\ late > 0 => now >= deadline
    /\ hpc = "poll" => until > deadline - UnitsPerMs

HeadInv == HeadTypeOK /\ Reading /\ OnTime

-----------------------------------------------------------------------------
(* Arithmetic *)

(* Cutting a span to whole milliseconds takes less than one off it. *)
LEMMA WholeMs ==
    ASSUME NEW d \in Nat, NEW u \in Nat \ {0}
    PROVE  /\ (d \div u) * u \in Nat
           /\ (d \div u) * u <= d
           /\ (d \div u) * u > d - u
<1>1. d \div u \in Nat /\ d % u \in 0..(u - 1)
  OBVIOUS
<1>2. d = u * (d \div u) + (d % u)
  OBVIOUS
<1>3. QED
  BY <1>1, <1>2

-----------------------------------------------------------------------------
(* Types *)

(* In its initial state the reader is type correct and has read nothing.    *)
LEMMA HeadInitInv == HeadInit => HeadInv
<1> SUFFICES ASSUME HeadInit PROVE HeadInv
  OBVIOUS
<1> USE SizesAssumption, TimesAssumption DEF HeadInit
<1>1. HeadTypeOK
  BY DEF HeadTypeOK, ClientStates, ReadResult
<1>2. Reading
  BY DEF Reading, VerdictIsTrue, Complete, ClientStates
<1>3. OnTime
  BY DEF OnTime
<1>4. QED
  BY <1>1, <1>2, <1>3 DEF HeadInv

(* The three ways out of a turn of the loop that received n bytes. *)
LEMMA RecvOutcome ==
    ASSUME HeadTypeOK, Recv
    PROVE  /\ UNCHANGED <<deadline, until, now, client>>
           /\ hpc = "recv"
           /\ \E n \in 1..BufSize :
                /\ n <= client.sent - size
                /\ size' = size + n
                /\ late' = IF now >= deadline THEN late + 1 ELSE late
           /\ \/ size' > MaxBytes /\ hpc' = "done" /\ result' = "TooLarge"
              \/ /\ ~(size' > MaxBytes) /\ client.head \in 1..size'
                 /\ hpc' = "done" /\ result' = "Ok"
              \/ /\ ~(size' > MaxBytes) /\ client.head \notin 1..size'
                 /\ hpc' = "check" /\ result' = result
BY DEF Recv, Appended, OverLimit, Return

(* Every step preserves the types.  Recv needs Reading: a chunk is only     *)
(* taken when what is there is within the limit.                            *)
LEMMA HeadStepTypes == HeadInv /\ [HeadNext]_headVars => HeadTypeOK'
<1> SUFFICES ASSUME HeadInv, [HeadNext]_headVars PROVE HeadTypeOK'
  OBVIOUS
<1>i. HeadTypeOK /\ Reading /\ OnTime
  BY DEF HeadInv
<1> USE <1>i, SizesAssumption, TimesAssumption DEF HeadTypeOK, ReadResult
<1>1. CASE CheckDeadline
  <2>1. CASE now >= deadline
    BY <1>1, <2>1 DEF CheckDeadline, Return
  <2>2. CASE ~(now >= deadline)
    <3>1. deadline - now \in Nat
      BY <2>2
    <3>2. ((deadline - now) \div UnitsPerMs) * UnitsPerMs \in Nat
      BY <3>1, WholeMs
    <3>3. until' \in Nat
      BY <1>1, <2>2, <3>2 DEF CheckDeadline
    <3>4. QED
      BY <1>1, <2>2, <3>3 DEF CheckDeadline
  <2>3. QED
    BY <2>1, <2>2
<1>2. CASE PollReady \/ PollTimesOut
           \/ Interrupted \/ PollFails
  BY <1>2 DEF PollReady, PollTimesOut, Interrupted,
            PollFails, Return
<1>3. CASE RecvFails \/ RecvEof
  BY <1>3 DEF RecvFails, RecvEof, Return
<1>4. CASE Recv
  <2>1. client.sent \in Nat /\ client' = client
    BY <1>4, RecvOutcome DEF ClientStates
  <2>2. /\ size' \in 0..(MaxBytes + BufSize) /\ size' <= client'.sent
        /\ late' \in Nat
    BY <1>4, <2>1, RecvOutcome DEF Reading
  <2>3. QED
    BY <1>4, <2>1, <2>2, RecvOutcome
<1>5. CASE Send
  BY <1>5 DEF Send, thread, ClientStates
<1>6. CASE HangUp
  BY <1>6 DEF HangUp, thread, ClientStates
<1>7. CASE Tick
  BY <1>7 DEF Tick, thread
<1>8. CASE UNCHANGED headVars
  BY <1>8 DEF headVars
<1>9. QED
  BY <1>1, <1>2, <1>3, <1>4, <1>5, <1>6, <1>7, <1>8
     DEF HeadNext, Worker

-----------------------------------------------------------------------------
(* What the worker has in hand *)

(* Every step keeps the verdict true, or postpones it with an incomplete    *)
(* head within the limit.                                                   *)
LEMMA HeadStepReading == HeadInv /\ [HeadNext]_headVars => Reading'
<1> SUFFICES ASSUME HeadInv, [HeadNext]_headVars PROVE Reading'
  OBVIOUS
<1>i. HeadTypeOK /\ Reading /\ OnTime
  BY DEF HeadInv
<1>t. /\ size \in Nat /\ client.head \in Nat /\ client.sent \in Nat
      /\ now \in Nat /\ deadline \in Nat /\ until \in Nat
  BY <1>i, SizesAssumption, TimesAssumption DEF HeadTypeOK, ClientStates
<1> USE <1>i, SizesAssumption, TimesAssumption
    DEF Reading, VerdictIsTrue, Complete
<1>1. CASE CheckDeadline
  <2>1. (hpc # "done" => size <= MaxBytes /\ ~Complete) /\ hpc = "check"
        /\ size' = size /\ client' = client /\ now' = now /\ deadline' = deadline
    BY <1>1 DEF CheckDeadline
  <2>2. result' = result \/ (result' = "Timeout" /\ now >= deadline)
    BY <1>1 DEF CheckDeadline, Return
  <2>3. QED
    BY <1>t, <2>1, <2>2
<1>2. CASE PollReady \/ Interrupted \/ PollFails
  BY <1>2, <1>t DEF PollReady, Interrupted,
            PollFails, Return
<1>3. CASE PollTimesOut
  <2>1. now > deadline - UnitsPerMs
    BY <1>3, <1>t DEF PollTimesOut, OnTime
  <2>2. QED
    BY <1>3, <1>t, <2>1 DEF PollTimesOut, Return
<1>4. CASE RecvFails \/ RecvEof
  BY <1>4, <1>t DEF RecvFails, RecvEof, Return
<1>5. CASE Recv
  <2>1. /\ client' = client /\ size' \in Nat
        /\ size' <= MaxBytes + BufSize
    BY <1>5, <1>t, RecvOutcome
  <2>2. CASE size' > MaxBytes /\ hpc' = "done" /\ result' = "TooLarge"
    BY <2>1, <2>2, <1>t
  <2>3. CASE /\ ~(size' > MaxBytes) /\ client.head \in 1..size'
             /\ hpc' = "done" /\ result' = "Ok"
    BY <2>1, <2>3, <1>t
  <2>4. CASE /\ ~(size' > MaxBytes) /\ client.head \notin 1..size'
             /\ hpc' = "check" /\ result' = result
    <3>1. result' = "none"
      BY <1>5, <2>4, RecvOutcome DEF HeadTypeOK
    <3>2. QED
      BY <2>1, <2>4, <3>1, <1>t
  <2>5. QED
    BY <1>5, RecvOutcome, <2>2, <2>3, <2>4
<1>6. CASE Send
  <2>1. /\ client'.head = client.head /\ client'.state = client.state
        /\ client.state = "sending" /\ UNCHANGED <<thread, now>>
    BY <1>6 DEF Send, HeadTypeOK, ClientStates
  <2>2. QED
    BY <1>t, <2>1 DEF thread
<1>7. CASE HangUp
  <2>1. /\ client'.head = client.head /\ client'.sent = client.sent
        /\ client.state = "sending" /\ UNCHANGED <<thread, now>>
    BY <1>7 DEF HangUp, HeadTypeOK, ClientStates
  <2>2. QED
    BY <1>t, <2>1 DEF thread
<1>8. CASE Tick
  <2>1. now' = now + 1 /\ UNCHANGED <<thread, client>>
    BY <1>8 DEF Tick
  <2>2. QED
    BY <1>t, <2>1 DEF thread
<1>9. CASE UNCHANGED headVars
  BY <1>9 DEF headVars
<1>10. QED
  BY <1>1, <1>2, <1>3, <1>4, <1>5, <1>6, <1>7, <1>8, <1>9
     DEF HeadNext, Worker

-----------------------------------------------------------------------------
(* The deadline *)

(* Every step keeps OnTime: the clock moves forward only, and a chunk that  *)
(* is late leads to the top of the loop, where reading ends.                *)
LEMMA HeadStepOnTime == HeadInv /\ [HeadNext]_headVars => OnTime'
<1> SUFFICES ASSUME HeadInv, [HeadNext]_headVars PROVE OnTime'
  OBVIOUS
<1>i. HeadTypeOK /\ Reading /\ OnTime
  BY DEF HeadInv
<1>t. /\ now \in Nat /\ deadline \in Nat /\ until \in Nat /\ late \in Nat
  BY <1>i, SizesAssumption, TimesAssumption DEF HeadTypeOK
<1> USE <1>i, SizesAssumption, TimesAssumption DEF OnTime
<1>1. CASE CheckDeadline
  <2>1. CASE now >= deadline
    BY <1>1, <2>1, <1>t DEF CheckDeadline, Return
  <2>2. CASE ~(now >= deadline)
    <3>1. deadline - now \in Nat /\ late = 0
      BY <1>t, <2>2
    <3>2. /\ ((deadline - now) \div UnitsPerMs) * UnitsPerMs \in Nat
          /\ ((deadline - now) \div UnitsPerMs) * UnitsPerMs
               > (deadline - now) - UnitsPerMs
      BY <3>1, WholeMs
    <3>3. until' = now + ((deadline - now) \div UnitsPerMs) * UnitsPerMs
      BY <1>1, <2>2 DEF CheckDeadline
    <3>4. until' > deadline - UnitsPerMs
      BY <3>2, <3>3, <1>t
    <3>5. QED
      BY <1>1, <2>2, <3>1, <3>4, <1>t DEF CheckDeadline
  <2>3. QED
    BY <2>1, <2>2
<1>2. CASE PollReady \/ PollTimesOut
           \/ Interrupted \/ PollFails
  BY <1>2, <1>t DEF PollReady, PollTimesOut, Interrupted,
            PollFails, Return
<1>3. CASE RecvFails \/ RecvEof
  BY <1>3, <1>t DEF RecvFails, RecvEof, Return
<1>4. CASE Recv
  BY <1>4, <1>t, RecvOutcome
<1>5. CASE Send \/ HangUp
  BY <1>5, <1>t DEF Send, HangUp, thread
<1>6. CASE Tick
  BY <1>6, <1>t DEF Tick, thread
<1>7. CASE UNCHANGED headVars
  BY <1>7 DEF headVars
<1>8. QED
  BY <1>1, <1>2, <1>3, <1>4, <1>5, <1>6, <1>7 DEF HeadNext, Worker

-----------------------------------------------------------------------------
(* The three invariants hold together in every reachable state. *)
LEMMA HeadInvariants == HeadSafeSpec => []HeadInv
<1>1. HeadInv /\ [HeadNext]_headVars => HeadInv'
  BY HeadStepTypes, HeadStepReading, HeadStepOnTime DEF HeadInv
<1>2. QED
  BY HeadInitInv, <1>1, PTL DEF HeadSafeSpec

(* read_http_head() is type correct, and the buffer of a connection stays   *)
(* within one chunk of the limit whatever is sent.                          *)
THEOREM HeadTypeCorrect == HeadSafeSpec => []HeadTypeOK
<1>1. HeadInv => HeadTypeOK
  BY DEF HeadInv
<1>2. QED
  BY HeadInvariants, <1>1, PTL

(* At most one chunk is taken after the deadline, however a client spaces   *)
(* its bytes and however often the system calls are interrupted.            *)
THEOREM SlowClientsAreCutOff == HeadSafeSpec => []SlowClientCutOff
<1>1. HeadInv => SlowClientCutOff
  BY DEF HeadInv, OnTime, SlowClientCutOff
<1>2. QED
  BY HeadInvariants, <1>1, PTL

(* What read_http_head() returns is true of the client's stream, for every  *)
(* way to cut the stream into chunks.                                       *)
THEOREM VerdictsAreTrue == HeadSafeSpec => []VerdictIsTrue
<1>1. HeadInv => VerdictIsTrue
  BY DEF HeadInv, Reading
<1>2. QED
  BY HeadInvariants, <1>1, PTL

=============================================================================
