--------------------------- MODULE RequestHandler ---------------------------
(***************************************************************************)
(* Server::handle_connection() (server.cpp 628-759) on several worker      *)
(* threads at once, with the HTTP functions it calls (http.cpp) and the    *)
(* counters they share (metrics.cpp).                                      *)
(*                                                                         *)
(* The shared state is the eleven atomic counters: each increment and each *)
(* load of one is an action, so that scrapes interleave with the requests  *)
(* they count.  Everything else a worker does is local to its connection   *)
(* and joins the nearest such action.                                      *)
(*                                                                         *)
(* What read_http_head() returns is any of its results (HttpHead says      *)
(* which and when); what a lookup returns is any outcome (GeoIpDatabases   *)
(* says of which files).  A request is what parse_http_request() tells     *)
(* apart in the bytes; a text that percent_decode() refuses is "bad".      *)
(***************************************************************************)
EXTENDS Integers, Sequences, FiniteSets, SequencesExt

CONSTANTS
    Conn,       \* connections
    Workers,    \* cfg_.worker_threads
    Raw,        \* the requests that may come on each connection
    Result      \* the sets of fields a found entry can have

Field == {"country_code", "country_name", "asn"}
Media == {"application/json", "text/plain"}

(* A request as it arrives: accept has one set of media types for each      *)
(* Accept header, query one pair for each non-empty parameter.              *)
RawOk(r) ==
    /\ DOMAIN r = {"version", "method", "target", "query", "accept"}
    /\ r.query \in Seq(STRING \X STRING)
    /\ r.accept \in Seq(SUBSET Media)

ASSUME ConnAssumption == IsFiniteSet(Conn)
ASSUME WorkersAssumption == Workers \in Nat \ {0}
ASSUME RawAssumption == \A c \in Conn : \A r \in Raw[c] : RawOk(r)
ASSUME ResultAssumption == Result \subseteq SUBSET Field

VARIABLES
    pc,         \* where each connection is in handle_connection()
    raw,        \* the request read from it
    resp,       \* resp
    isHead,     \* is_head
    metrics,    \* metrics_: the counters
    snap,       \* the counter values a /metrics response has loaded so far
    loaded,     \* how many it has loaded
    open,       \* the descriptors that are open
    answer,     \* what the client has received
    seen        \* history: the answers received before this connection began

vars == <<pc, raw, resp, isHead, metrics, snap, loaded, open, answer, seen>>

-----------------------------------------------------------------------------
(* Metrics.                                                                 *)

RequestCounter ==
    {"lookup_requests_total", "health_requests_total",
     "metrics_requests_total", "other_requests_total"}

ResponseCounter ==
    {"responses_200", "responses_400", "responses_404", "responses_405",
     "responses_500"}

Counter ==
    RequestCounter \union ResponseCounter
      \union {"lookup_found_total", "lookup_not_found_total"}

(* Responses before requests: a faulty form, used by no specification. *)
RenderOrderReversed ==
    <<"responses_200", "responses_400", "responses_404", "responses_405",
      "responses_500", "lookup_found_total", "lookup_not_found_total",
      "lookup_requests_total", "health_requests_total",
      "metrics_requests_total", "other_requests_total">>

(* The order in which render_prometheus_metrics() loads them. *)
RenderOrder ==
    <<"lookup_requests_total", "health_requests_total",
      "metrics_requests_total", "other_requests_total",
      "responses_200", "responses_400", "responses_404", "responses_405",
      "responses_500", "lookup_found_total", "lookup_not_found_total">>

RequestCounterFor(path) ==
    CASE path = "/lookup"  -> "lookup_requests_total"
      [] path = "/health"  -> "health_requests_total"
      [] path = "/metrics" -> "metrics_requests_total"
      [] OTHER             -> "other_requests_total"

ResponseCounterFor(status) ==
    CASE status = 200 -> "responses_200"
      [] status = 400 -> "responses_400"
      [] status = 404 -> "responses_404"
      [] status = 405 -> "responses_405"
      [] status = 500 -> "responses_500"

Incremented(counter) == [metrics EXCEPT ![counter] = @ + 1]

-----------------------------------------------------------------------------
(* HTTP.                                                                    *)

NoRequest == [method |-> "", path |-> "", query |-> <<>>, accept |-> {}]

(* parse_http_request() succeeds. *)
Parses(r) ==
    /\ r.version \in {"HTTP/1.1", "HTTP/1.0"}
    /\ r.method \in {"GET", "HEAD", "POST"}
    /\ r.target # "relative"
    /\ r.target # "bad"
    /\ \A i \in DOMAIN r.query : "bad" \notin {r.query[i][1], r.query[i][2]}

(* What it leaves in req: of several Accept headers the last one counts. *)
parse_http_request(r) ==
    [method |-> r.method, path |-> r.target, query |-> r.query,
     accept |-> IF r.accept = <<>> THEN {} ELSE Last(r.accept)]

(* The value of the first parameter called key, or "" without one: the      *)
(* caller treats an empty value and no parameter alike.                     *)
find_query_param(req, key) ==
    LET hits == SelectSeq(req.query, LAMBDA kv : kv[1] = key)
    IN  IF hits = <<>> THEN "" ELSE hits[1][2]

parse_ip_address(text) == text \in {"v4", "v6"}

negotiate_format(accept) ==
    IF "text/plain" \in accept /\ "application/json" \notin accept
      THEN "Text" ELSE "Json"

accept_wants_json(accept) == "application/json" \in accept

(* A body: what it is about, its format, the keys it shows and the ones     *)
(* that have a value.                                                       *)
Body(kind, format, keys, values) ==
    [kind |-> kind, format |-> format, keys |-> keys, values |-> values]

NoBody == Body("none", "none", {}, {})

Response(status, format, headers, body) ==
    [status |-> status, format |-> format, headers |-> headers, body |-> body]

NoResponse == Response(0, "none", {}, NoBody)

(* A response without fields: errors, /health and /metrics. *)
PlainResponse(status, kind, format) ==
    Response(status, format, {}, Body(kind, format, {}, {}))

make_error_response(status, format) == PlainResponse(status, "error", format)

(* The JSON body has every key, null without a value; the text body has a   *)
(* line for the values there are; country_name has no header.               *)
build_success_response(result, format) ==
    Response(200, format, result \ {"country_name"},
             Body("lookup", format, IF format = "Json" THEN Field ELSE result, result))

(* The length taken of what is sent: a faulty form.                         *)
build_http_response_without_length(r, includeBody) ==
    LET body == IF includeBody THEN r.body ELSE NoBody
    IN  [status |-> r.status, headers |-> r.headers,
         type |-> IF includeBody THEN r.format ELSE "none",
         length |-> body, body |-> body]

(* What goes over the wire.  Content-Length is a function of the body, so   *)
(* the body stands for it.                                                  *)
build_http_response(r, includeBody) ==
    [status |-> r.status,
     headers |-> r.headers,
     type |-> IF includeBody THEN r.format ELSE "none",
     length |-> r.body,
     body |-> IF includeBody THEN r.body ELSE NoBody]

NoAnswer == build_http_response(NoResponse, FALSE)

-----------------------------------------------------------------------------
Zero == [k \in Counter |-> 0]

Init ==
    /\ pc = [c \in Conn |-> "idle"]
    /\ raw = [c \in Conn |-> <<>>]
    /\ resp = [c \in Conn |-> NoResponse]
    /\ isHead = [c \in Conn |-> FALSE]
    /\ metrics = Zero
    /\ snap = [c \in Conn |-> Zero]
    /\ loaded = [c \in Conn |-> 0]
    /\ open = {}
    /\ answer = [c \in Conn |-> NoAnswer]
    /\ seen = [c \in Conn |-> {}]

Answered == { c \in Conn : answer[c] # NoAnswer }

Goto(c, where) == pc' = [pc EXCEPT ![c] = where]

Answer(c, r) ==
    /\ resp' = [resp EXCEPT ![c] = r]
    /\ Goto(c, "respond")

-----------------------------------------------------------------------------
(* Faulty forms, each a slip one of the properties must catch: a refusal    *)
(* that is not counted as a request; a response counted only after it is    *)
(* written.                                                                 *)
ReadTooLargeUncounted(c) ==
    /\ pc[c] = "read"
    /\ Answer(c, make_error_response(400, "Json"))
    /\ UNCHANGED <<raw, isHead, metrics, snap, loaded, open, answer, seen>>

RecordResponseLate(c) ==
    /\ pc[c] = "respond"
    /\ \/ /\ answer[c] = NoAnswer
          /\ answer' = [answer EXCEPT ![c] = build_http_response(resp[c], ~isHead[c])]
          /\ UNCHANGED <<pc, metrics>>
       \/ /\ answer[c] # NoAnswer
          /\ metrics' = Incremented(ResponseCounterFor(resp[c].status))
          /\ Goto(c, "write")
          /\ UNCHANGED answer
    /\ UNCHANGED <<raw, resp, isHead, snap, loaded, open, seen>>

-----------------------------------------------------------------------------
(* A worker takes the connection from the queue. *)
Begin(c) ==
    /\ pc[c] = "idle"
    /\ Cardinality({ d \in Conn : pc[d] \notin {"idle", "done"} }) < Workers
    /\ Goto(c, "read")
    /\ open' = open \union {c}
    /\ seen' = [seen EXCEPT ![c] = Answered]
    /\ UNCHANGED <<raw, resp, isHead, metrics, snap, loaded, answer>>

(* Timeout, ConnectionClosed, IoError: nothing is counted, nothing sent. *)
ReadGivesUp(c) ==
    /\ pc[c] = "read"
    /\ Goto(c, "done")
    /\ open' = open \ {c}
    /\ UNCHANGED <<raw, resp, isHead, metrics, snap, loaded, answer, seen>>

ReadTooLarge(c) ==
    /\ pc[c] = "read"
    /\ metrics' = Incremented(RequestCounterFor(""))
    /\ Answer(c, make_error_response(400, "Json"))
    /\ UNCHANGED <<raw, isHead, snap, loaded, open, answer, seen>>

ReadOk(c) ==
    /\ pc[c] = "read"
    /\ \E r \in Raw[c] : raw' = [raw EXCEPT ![c] = r]
    /\ Goto(c, "parse")
    /\ UNCHANGED <<resp, isHead, metrics, snap, loaded, open, answer, seen>>

RejectMalformed(c) ==
    /\ pc[c] = "parse"
    /\ ~Parses(raw[c])
    /\ metrics' = Incremented(RequestCounterFor(""))
    /\ Answer(c, make_error_response(400, "Json"))
    /\ UNCHANGED <<raw, isHead, snap, loaded, open, answer, seen>>

(* Count the request under its path and choose what to do with it. *)
Dispatch(c) ==
    /\ pc[c] = "parse"
    /\ Parses(raw[c])
    /\ LET req == parse_http_request(raw[c])
           fmt == negotiate_format(req.accept)
           json == accept_wants_json(req.accept)
       IN
         /\ metrics' = Incremented(RequestCounterFor(req.path))
         /\ isHead' = [isHead EXCEPT ![c] = req.method = "HEAD"]
         /\ IF req.method \notin {"GET", "HEAD"}
              THEN Answer(c, [make_error_response(405, fmt) EXCEPT !.headers = {"Allow"}])
              ELSE CASE req.path = "/lookup" ->
                          IF parse_ip_address(find_query_param(req, "ip"))
                            THEN Goto(c, "lookup") /\ UNCHANGED resp
                            ELSE Answer(c, make_error_response(400, fmt))
                     [] req.path = "/health" ->
                          Answer(c, PlainResponse(200, "health",
                                                  IF json THEN "Json" ELSE "Text"))
                     [] req.path = "/metrics" -> Goto(c, "scrape") /\ UNCHANGED resp
                     [] OTHER -> Answer(c, make_error_response(404, fmt))
    /\ UNCHANGED <<raw, snap, loaded, open, answer, seen>>

Format(c) == negotiate_format(parse_http_request(raw[c]).accept)

LookupError(c) ==
    /\ pc[c] = "lookup"
    /\ Answer(c, make_error_response(500, Format(c)))
    /\ UNCHANGED <<raw, isHead, metrics, snap, loaded, open, answer, seen>>

LookupNotFound(c) ==
    /\ pc[c] = "lookup"
    /\ metrics' = Incremented("lookup_not_found_total")
    /\ Answer(c, make_error_response(404, Format(c)))
    /\ UNCHANGED <<raw, isHead, snap, loaded, open, answer, seen>>

LookupFound(c) ==
    /\ pc[c] = "lookup"
    /\ metrics' = Incremented("lookup_found_total")
    /\ \E result \in Result :
         Answer(c, build_success_response(result, Format(c)))
    /\ UNCHANGED <<raw, isHead, snap, loaded, open, answer, seen>>

(* One load of render_prometheus_metrics(). *)
LoadCounter(c) ==
    /\ pc[c] = "scrape"
    /\ LET k == RenderOrder[loaded[c] + 1] IN
         snap' = [snap EXCEPT ![c][k] = metrics[k]]
    /\ loaded' = [loaded EXCEPT ![c] = @ + 1]
    /\ IF loaded'[c] < Len(RenderOrder)
         THEN UNCHANGED <<pc, resp>>
         ELSE Answer(c, PlainResponse(200, "metrics", "Prometheus"))
    /\ UNCHANGED <<raw, isHead, metrics, open, answer, seen>>

RecordResponse(c) ==
    /\ pc[c] = "respond"
    /\ metrics' = Incremented(ResponseCounterFor(resp[c].status))
    /\ Goto(c, "write")
    /\ UNCHANGED <<raw, resp, isHead, snap, loaded, open, answer, seen>>

(* write_all(): the client gets the response unless it is gone, which the   *)
(* caller does not look at; then close().                                   *)
WriteAndClose(c) ==
    /\ pc[c] = "write"
    /\ \/ answer' = [answer EXCEPT ![c] = build_http_response(resp[c], ~isHead[c])]
       \/ UNCHANGED answer
    /\ open' = open \ {c}
    /\ Goto(c, "done")
    /\ UNCHANGED <<raw, resp, isHead, metrics, snap, loaded, seen>>

Handle(c) ==
    \/ ReadGivesUp(c) \/ ReadTooLarge(c) \/ ReadOk(c)
    \/ RejectMalformed(c) \/ Dispatch(c)
    \/ LookupError(c) \/ LookupNotFound(c) \/ LookupFound(c)
    \/ LoadCounter(c) \/ RecordResponse(c) \/ WriteAndClose(c)

Next == \E c \in Conn : Begin(c) \/ Handle(c)

Spec == Init /\ [][Next]_vars

-----------------------------------------------------------------------------
Requests(m) ==
    m["lookup_requests_total"] + m["health_requests_total"]
      + m["metrics_requests_total"] + m["other_requests_total"]

Responses(m) ==
    m["responses_200"] + m["responses_400"] + m["responses_404"]
      + m["responses_405"] + m["responses_500"]

IsLookup(c) == raw[c] # <<>> /\ Parses(raw[c]) /\ raw[c].target = "/lookup"

(* The books balance on every path through handle_connection(): requests    *)
(* counted are responses counted plus those still being worked on, and each *)
(* /lookup is found, not found, refused, failed or still being worked on.   *)
(* So do the descriptors: whichever way handle_connection() returns, the    *)
(* connection is closed then and not before.                                *)
CountersBalance ==
    /\ Requests(metrics) = Responses(metrics)
         + Cardinality({ c \in Conn : pc[c] \in {"lookup", "scrape", "respond"} })
    /\ metrics["lookup_requests_total"] =
         metrics["lookup_found_total"] + metrics["lookup_not_found_total"]
         + Cardinality({ c \in Conn :
             IsLookup(c) /\ (pc[c] = "lookup" \/ resp[c].status \in {400, 405, 500}) })
    /\ open = { c \in Conn : pc[c] \notin {"idle", "done"} }

(* The same request, once with GET and once with HEAD, that the databases   *)
(* answered alike.                                                          *)
SameButForHead(g, h) ==
    /\ raw[g] # <<>> /\ raw[h] # <<>>
    /\ Parses(raw[g]) /\ raw[g].method = "GET"
    /\ raw[h] = [raw[g] EXCEPT !.method = "HEAD"]
    /\ resp[g].body.values = resp[h].body.values
    /\ \A s \in {200, 500} : (resp[g].status = s) <=> (resp[h].status = s)

(* HEAD returns the status, headers and Content-Length GET would, and no    *)
(* body (README.md:426), for requests that can be parsed and, for lookups,  *)
(* when the databases say the same.                                         *)
HeadMirrorsGet ==
    \A g, h \in Answered :
      SameButForHead(g, h) =>
        /\ answer[h] = [answer[g] EXCEPT !.type = "none", !.body = NoBody]
        /\ answer[g].body = answer[g].length

Scraped(s) == loaded[s] = Len(RenderOrder)

(* A client that has its answer is in every later scrape, although the      *)
(* counters are relaxed atomics read one by one: as a request, and under    *)
(* the status it was given.                                                 *)
ScrapeCoversAnswered ==
    \A s \in Conn : Scraped(s) =>
      /\ Requests(snap[s]) > Cardinality(seen[s])
      /\ \A c \in seen[s] :
           snap[s][ResponseCounterFor(answer[c].status)] >=
             Cardinality({ d \in seen[s] : answer[d].status = answer[c].status })

(* Requests minus responses, as one scrape shows them, is never more than   *)
(* the number of workers, because requests are loaded first.  (It can be    *)
(* negative: responses counted in between.)                                 *)
ScrapeBoundsInFlight ==
    \A s \in Conn : Scraped(s) =>
      Requests(snap[s]) - Responses(snap[s]) <= Workers

=============================================================================
