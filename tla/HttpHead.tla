------------------------------ MODULE HttpHead ------------------------------
(***************************************************************************)
(* read_http_head() (http.cpp 95-153) on one connection: a worker collects *)
(* the head of a request in chunks, against a deadline and a size limit,   *)
(* while the client sends, stalls, closes or resets as it likes.           *)
(*                                                                         *)
(* Data is abstracted to byte counts: the client's stream is total bytes   *)
(* long and its first empty line ends at byte head (0: it has none).  What *)
(* the bytes say is the business of RequestHandler, which a module can     *)
(* extend together with this one: no name is in both.                      *)
(*                                                                         *)
(* Time is counted in units of which UnitsPerMs make a millisecond, since  *)
(* the code cuts the remaining time to whole milliseconds for poll().  The *)
(* clock may advance between any two steps of the worker: it can be        *)
(* descheduled anywhere.                                                   *)
(***************************************************************************)
EXTENDS Integers

CONSTANTS
    MaxBytes,       \* cfg_.max_request_bytes
    BufSize,        \* sizeof(buf)
    Timeout,        \* timeout_seconds, in units
    UnitsPerMs,     \* clock units in a millisecond
    MaxSend,        \* bound: the longest stream a client sends
    MaxTime         \* bound: how far the clock runs

ASSUME SizesAssumption ==
    /\ MaxBytes \in Nat \ {0} /\ BufSize \in Nat \ {0} /\ MaxSend \in Nat
ASSUME TimesAssumption ==
    /\ Timeout \in Nat \ {0} /\ UnitsPerMs \in Nat \ {0}
    /\ MaxTime \in Nat /\ MaxTime > Timeout

VARIABLES
    hpc,        \* where the worker is in the loop
    deadline,   \* deadline
    until,      \* when the poll() in progress times out
    size,       \* out.size()
    result,     \* the ReadResult returned
    late,       \* history: how many chunks were received after the deadline
    now,        \* steady_clock
    client      \* what the client sends: see ClientStates

thread == <<hpc, deadline, until, size, result, late>>
headVars == <<hpc, deadline, until, size, result, late, now, client>>

ReadResult == {"Ok", "TooLarge", "ConnectionClosed", "Timeout", "IoError"}

(* head and total describe the stream; sent bytes of it have reached the    *)
(* socket so far.                                                           *)
ClientStates ==
    [head : 0..MaxSend, total : 0..MaxSend, sent : 0..MaxSend,
     state : {"sending", "closed", "reset"}]

HeadInit ==
    /\ hpc = "check"
    /\ deadline = Timeout
    /\ until = 0
    /\ size = 0
    /\ result = "none"
    /\ late = 0
    /\ now = 0
    /\ client \in { c \in ClientStates :
                      c.head <= c.total /\ c.sent = 0 /\ c.state = "sending" }

-----------------------------------------------------------------------------
(* The client and the clock.                                                *)

Send ==
    /\ client.state = "sending"
    /\ \E n \in 1..(client.total - client.sent) :
         client' = [client EXCEPT !.sent = @ + n]
    /\ UNCHANGED <<thread, now>>

(* The client closes or resets, perhaps halfway through its stream.  Bytes  *)
(* already sent stay readable after a close and are gone after a reset.     *)
HangUp ==
    /\ client.state = "sending"
    /\ \E s \in {"closed", "reset"} : client' = [client EXCEPT !.state = s]
    /\ UNCHANGED <<thread, now>>

Tick ==
    /\ now < MaxTime
    /\ now' = now + 1
    /\ UNCHANGED <<thread, client>>

-----------------------------------------------------------------------------
(* poll() reports the socket readable.                                      *)
Ready == client.sent > size \/ client.state # "sending"

Return(r) ==
    /\ hpc' = "done"
    /\ result' = r

(* Faulty forms, each a slip one of the properties must catch: a deadline   *)
(* that only bounds each poll(); a poll() without timeout; a size limit     *)
(* that a complete head is excused from.                                    *)
CheckDeadlineOnlyPolls ==
    /\ hpc = "check"
    /\ until' = now + (IF now >= deadline THEN 0
                       ELSE ((deadline - now) \div UnitsPerMs) * UnitsPerMs)
    /\ hpc' = "poll"
    /\ UNCHANGED <<deadline, size, result, late, now, client>>

PollTimesOutNever ==
    /\ hpc = "poll"
    /\ FALSE
    /\ UNCHANGED headVars

OverLimitUnlessComplete(n) == n > MaxBytes /\ ~(client.head \in 1..n)

-----------------------------------------------------------------------------
(* The top of the loop: give up, or compute how long poll() may wait.       *)
CheckDeadline ==
    /\ hpc = "check"
    /\ IF now >= deadline
         THEN Return("Timeout") /\ UNCHANGED until
         ELSE /\ until' = now + ((deadline - now) \div UnitsPerMs) * UnitsPerMs
              /\ hpc' = "poll"
              /\ UNCHANGED result
    /\ UNCHANGED <<deadline, size, late, now, client>>

PollReady ==
    /\ hpc = "poll"
    /\ Ready
    /\ hpc' = "recv"
    /\ UNCHANGED <<deadline, until, size, result, late, now, client>>

PollTimesOut ==
    /\ hpc = "poll"
    /\ ~Ready
    /\ now >= until
    /\ Return("Timeout")
    /\ UNCHANGED <<deadline, until, size, late, now, client>>

(* EINTR from poll() or recv(): back to the top. *)
Interrupted ==
    /\ hpc \in {"poll", "recv"}
    /\ hpc' = "check"
    /\ UNCHANGED <<deadline, until, size, result, late, now, client>>

PollFails ==
    /\ hpc = "poll"
    /\ Return("IoError")
    /\ UNCHANGED <<deadline, until, size, late, now, client>>

(* recv() on a connection that was reset. *)
RecvFails ==
    /\ hpc = "recv"
    /\ client.state = "reset"
    /\ Return("IoError")
    /\ UNCHANGED <<deadline, until, size, late, now, client>>

(* What out.append() adds for a recv() that returned n. *)
Appended(n) == n

OverLimit(n) == n > MaxBytes

(* recv() takes some of the bytes that have arrived; the limit is tested    *)
(* before the end of the head is looked for.                                *)
Recv ==
    /\ hpc = "recv"
    /\ client.state # "reset"
    /\ \E n \in 1..BufSize :
         /\ n <= client.sent - size
         /\ size' = size + Appended(n)
         /\ late' = IF now >= deadline THEN late + 1 ELSE late
         /\ IF OverLimit(size') THEN Return("TooLarge")
            ELSE IF client.head \in 1..size' THEN Return("Ok")
            ELSE hpc' = "check" /\ UNCHANGED result
    /\ UNCHANGED <<deadline, until, now, client>>

RecvEof ==
    /\ hpc = "recv"
    /\ client.state = "closed"
    /\ client.sent = size
    /\ Return("ConnectionClosed")
    /\ UNCHANGED <<deadline, until, size, late, now, client>>

Worker ==
    \/ CheckDeadline \/ PollReady \/ PollTimesOut
    \/ Recv \/ RecvEof \/ RecvFails

HeadNext == Worker \/ Interrupted \/ PollFails \/ Send \/ HangUp \/ Tick

HeadSafeSpec == HeadInit /\ [][HeadNext]_headVars

(* The worker is scheduled and the clock runs.  The client owes nothing, no *)
(* call need fail, and calls may be interrupted any number of times.        *)
HeadSpec == HeadSafeSpec /\ WF_headVars(Worker) /\ WF_headVars(Tick)

-----------------------------------------------------------------------------
(* The types of the reader's state.  A result is there exactly when the     *)
(* function has returned, and the buffer never outgrows the limit by more   *)
(* than one chunk.                                                          *)
HeadTypeOK ==
    /\ hpc \in {"check", "poll", "recv", "done"}
    /\ deadline \in Nat
    /\ until \in Nat
    /\ size \in 0..(MaxBytes + BufSize)
    /\ result \in ReadResult \union {"none"}
    /\ (hpc = "done") <=> (result # "none")
    /\ late \in Nat
    /\ now \in 0..MaxTime
    /\ client \in ClientStates
    /\ client.head <= client.total
    /\ size <= client.sent /\ client.sent <= client.total

(* However the client spaces its bytes, read_http_head() takes at most one  *)
(* more chunk once the deadline has passed: the deadline is for the whole   *)
(* head and not for each chunk.                                             *)
SlowClientCutOff == late <= 1

(* The result tells the truth about the stream whatever the chunks were: Ok *)
(* only for a complete head within the limit, TooLarge only when more than  *)
(* the limit arrived, ConnectionClosed only when the client closed before   *)
(* its head was complete and all it sent was looked at, and Timeout only    *)
(* less than a millisecond before the deadline or later, with the head      *)
(* still incomplete in the buffer.  Whatever is sent, the buffer outgrows   *)
(* the limit by at most one chunk.                                          *)
VerdictIsTrue ==
    LET complete == client.head \in 1..size IN
    /\ size <= MaxBytes + BufSize
    /\ result = "Ok" => (complete /\ size <= MaxBytes)
    /\ result = "TooLarge" => size > MaxBytes
    /\ result = "ConnectionClosed" =>
         (~complete /\ client.state = "closed" /\ size = client.sent)
    /\ result = "Timeout" => (~complete /\ now > deadline - UnitsPerMs)

(* A worker is never tied up: read_http_head() returns whatever the client  *)
(* does and however often its system calls are interrupted.                 *)
AlwaysReturns == <>(hpc = "done")

=============================================================================
