------------------------------ MODULE MCRequest -----------------------------
(* The requests of the instance: one of each kind that handle_connection()  *)
(* treats differently, next to the HEAD requests to compare them with and a *)
(* scrape to see them in.  The stream that is read can be twice the size    *)
(* limit, the limit is not a multiple of the chunk, and the timeout is not  *)
(* a whole number of milliseconds, so that every remainder of both          *)
(* divisions occurs.                                                        *)
EXTENDS Request, TLC

CONSTANTS c1, c2, c3

Get(target, query, accept) ==
    [version |-> "HTTP/1.1", method |-> "GET", target |-> target,
     query |-> query, accept |-> accept]

HeadOf(r) == [r EXCEPT !.method = "HEAD"]

Json == {"application/json"}
Text == {"text/plain"}

(* Lookups: the second has the address twice and headers that contradict    *)
(* each other, the others no address or an unusable one.                    *)
Lookup == Get("/lookup", <<<<"ip", "v4">>>>, <<>>)
Ambiguous ==
    Get("/lookup", <<<<"x", "">>, <<"ip", "v6">>, <<"ip", "junk">>>>, <<Json, Text>>)
BadLookups ==
    { Get("/lookup", <<<<"ip", "">>>>, <<Text>>),
      Get("/lookup", <<<<"ip", "junk">>>>, <<Json \union Text>>) }

Health == Get("/health", <<>>, <<Json>>)
Scrape == Get("/metrics", <<>>, <<Json>>)

(* One refused for its method, the others do not parse. *)
Refused ==
    { [Lookup EXCEPT !.method = "POST"],
      [Health EXCEPT !.version = "HTTP/2"],
      HeadOf(Get("bad", <<>>, <<>>)),
      Get("/lookup", <<<<"ip", "bad">>>>, <<Text>>) }

MCRaw ==
    (c1 :> {Lookup, Ambiguous, Health, HeadOf(Scrape), Get("/", <<>>, <<Text>>)}
             \union BadLookups \union Refused) @@
    (c2 :> {HeadOf(Lookup), HeadOf(Ambiguous), HeadOf(Health)}) @@
    (c3 :> {Scrape})

MCResults == { {}, {"country_code", "asn"} }

=============================================================================
