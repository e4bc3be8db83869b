------------------------------ MODULE Request ------------------------------
(***************************************************************************)
(* handle_connection() with the read_http_head() it calls (server.cpp      *)
(* 628-655): RequestHandler, in which the connection that is read first    *)
(* gets its result from HttpHead.  The results of the others are any.      *)
(*                                                                         *)
(* read_http_head() touches its locals, its socket and the clock, so its   *)
(* steps commute with those of every other connection; here they come      *)
(* before them.                                                            *)
(***************************************************************************)
EXTENDS HttpHead, RequestHandler

all == <<headVars, vars>>

RequestInit == HeadInit /\ Init

Reading == hpc # "done"

ReadHead == Reading /\ HeadNext /\ UNCHANGED vars

(* The caller has the result, and the locals of read_http_head() are gone.  *)
HeadGone ==
    /\ hpc' = "done" /\ result' = "none"
    /\ deadline' = 0 /\ until' = 0 /\ size' = 0 /\ late' = 0 /\ now' = 0
    /\ client' = [head |-> 0, total |-> 0, sent |-> 0, state |-> "closed"]

BeginOne(c) == ~Reading /\ Begin(c) /\ UNCHANGED headVars

(* switch (rr) *)
TakeResult(c) ==
    /\ \/ result = "Ok" /\ ReadOk(c)
       \/ result = "TooLarge" /\ ReadTooLarge(c)
       \/ result \in {"ConnectionClosed", "Timeout", "IoError"} /\ ReadGivesUp(c)
    /\ HeadGone

HandleOne(c) == ~Reading /\ result = "none" /\ Handle(c) /\ UNCHANGED headVars

RequestNext ==
    \/ ReadHead
    \/ \E c \in Conn : BeginOne(c) \/ TakeResult(c) \/ HandleOne(c)

(* As in HttpHead: the worker is scheduled and the clock runs. *)
RequestSpec ==
    /\ RequestInit /\ [][RequestNext]_all
    /\ WF_all(Worker /\ ReadHead) /\ WF_all(Tick /\ ReadHead)

=============================================================================
