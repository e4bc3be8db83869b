----------------------------- MODULE ThreadPool -----------------------------
(***************************************************************************)
(* ThreadPool (thread_pool.cpp, thread_pool.h): a fixed set of worker      *)
(* threads, a queue of connection descriptors guarded by mutex_, and a     *)
(* condition variable cv_.                                                 *)
(*                                                                         *)
(* Each stretch of code that holds mutex_ is one action, because queue_    *)
(* and stop_ are touched nowhere else.  The notifications are made after   *)
(* the mutex is released (lines 35-36 and 48-49) and so are actions of     *)
(* their own: other threads run between the change and its notification.   *)
(*                                                                         *)
(* One thread, the accept loop, calls submit(), shutdown() and the         *)
(* destructor; it is the caller below.                                     *)
(***************************************************************************)
EXTENDS Integers, Sequences, FiniteSets

CONSTANTS
    Worker,     \* the worker threads
    Fd,         \* descriptors accept4() can return (RLIMIT_NOFILE bounds them)
    NoFd        \* "no descriptor", the -1 of the code

ASSUME WorkerAssumption == IsFiniteSet(Worker) /\ Worker # {}
ASSUME FdAssumption == IsFiniteSet(Fd) /\ NoFd \notin Fd

VARIABLES
    queue,      \* queue_
    stop,       \* stop_
    wpc,        \* where each worker is in worker_loop()
    wfd,        \* the worker's local fd
    caller,     \* where the calling thread is
    cfd,        \* the descriptor the caller is about to submit
    open,       \* the client descriptors the process has open
    joined      \* shutdown() has joined and cleared workers_

vars == <<queue, stop, wpc, wfd, caller, cfd, open, joined>>

WorkerState == {"acquire", "waiting", "handling", "exited"}
CallerState == {"idle", "submit", "notify_one", "notify_all", "join", "gone"}

(* The constructor starts every worker in worker_loop(). *)
Init ==
    /\ queue = <<>>
    /\ stop = FALSE
    /\ wpc = [w \in Worker |-> "acquire"]
    /\ wfd = [w \in Worker |-> NoFd]
    /\ caller = "idle"
    /\ cfd = NoFd
    /\ open = {}
    /\ joined = FALSE

-----------------------------------------------------------------------------
(* Faulty forms of the operations below.  No specification uses them: each  *)
(* stands for a slip in the code that one of the properties must catch.     *)

(* submit() without line 36. *)
SubmitPushUnnotified ==
    /\ caller = "submit"
    /\ ~stop
    /\ queue' = Append(queue, cfd)
    /\ cfd' = NoFd
    /\ caller' = "idle"
    /\ UNCHANGED <<stop, wpc, wfd, open, joined>>

(* notify_one() where line 49 has notify_all(). *)
NotifyOnlyOne ==
    /\ caller = "notify_all"
    /\ caller' = "join"
    /\ \/ \E w \in Worker :
             /\ wpc[w] = "waiting"
             /\ wpc' = [wpc EXCEPT ![w] = "acquire"]
       \/ /\ \A w \in Worker : wpc[w] # "waiting"
          /\ UNCHANGED wpc
    /\ UNCHANGED <<queue, stop, wfd, cfd, open, joined>>

(* shutdown() detaching the threads instead of joining them. *)
JoinDetached ==
    /\ caller = "join"
    /\ joined' = TRUE
    /\ caller' = "idle"
    /\ UNCHANGED <<queue, stop, wpc, wfd, cfd, open>>

(* worker_loop() without the pop() of line 83. *)
TakeFrontUnpopped(w) ==
    /\ wpc[w] = "acquire"
    /\ queue # <<>>
    /\ wfd' = [wfd EXCEPT ![w] = Head(queue)]
    /\ wpc' = [wpc EXCEPT ![w] = "handling"]
    /\ UNCHANGED <<queue, stop, caller, cfd, open, joined>>

(* worker_loop() without lines 72-81: woken by stop_ with an empty queue,   *)
(* it runs the handler on fd = -1.                                          *)
TakeFrontUnguarded(w) ==
    /\ wpc[w] = "acquire"
    /\ stop \/ queue # <<>>
    /\ wfd' = [wfd EXCEPT ![w] = IF queue = <<>> THEN NoFd ELSE Head(queue)]
    /\ queue' = IF queue = <<>> THEN queue ELSE Tail(queue)
    /\ wpc' = [wpc EXCEPT ![w] = "handling"]
    /\ UNCHANGED <<stop, caller, cfd, open, joined>>

(* Line 72 without its second conjunct. *)
ExitUndrained(w) ==
    /\ wpc[w] = "acquire"
    /\ stop
    /\ wpc' = [wpc EXCEPT ![w] = "exited"]
    /\ UNCHANGED <<queue, stop, wfd, caller, cfd, open, joined>>

-----------------------------------------------------------------------------
(* The calling thread *)

(* accept4() returns a descriptor that is not open, and the accept loop     *)
(* calls submit() with it.                                                  *)
Accept(fd) ==
    /\ caller = "idle"
    /\ fd \notin open
    /\ open' = open \union {fd}
    /\ cfd' = fd
    /\ caller' = "submit"
    /\ UNCHANGED <<queue, stop, wpc, wfd, joined>>

SubmitPush ==
    /\ caller = "submit"
    /\ ~stop
    /\ queue' = Append(queue, cfd)
    /\ cfd' = NoFd
    /\ caller' = "notify_one"
    /\ UNCHANGED <<stop, wpc, wfd, open, joined>>

(* submit() after shutdown(): the descriptor is closed, nobody is notified. *)
SubmitRejected ==
    /\ caller = "submit"
    /\ stop
    /\ open' = open \ {cfd}
    /\ cfd' = NoFd
    /\ caller' = "idle"
    /\ UNCHANGED <<queue, stop, wpc, wfd, joined>>

(* notify_one() releases one waiting thread, if there is one. *)
NotifyOne ==
    /\ caller = "notify_one"
    /\ caller' = "idle"
    /\ \/ \E w \in Worker :
             /\ wpc[w] = "waiting"
             /\ wpc' = [wpc EXCEPT ![w] = "acquire"]
       \/ /\ \A w \in Worker : wpc[w] # "waiting"
          /\ UNCHANGED wpc
    /\ UNCHANGED <<queue, stop, wfd, cfd, open, joined>>

ShutdownSetStop ==
    /\ caller = "idle"
    /\ ~stop
    /\ stop' = TRUE
    /\ caller' = "notify_all"
    /\ UNCHANGED <<queue, wpc, wfd, cfd, open, joined>>

NotifyAll ==
    /\ caller = "notify_all"
    /\ wpc' = [w \in Worker |-> IF wpc[w] = "waiting" THEN "acquire"
                                                      ELSE wpc[w]]
    /\ caller' = "join"
    /\ UNCHANGED <<queue, stop, wfd, cfd, open, joined>>

(* join() returns for every thread once all have left worker_loop(). *)
Join ==
    /\ caller = "join"
    /\ \A w \in Worker : wpc[w] = "exited"
    /\ joined' = TRUE
    /\ caller' = "idle"
    /\ UNCHANGED <<queue, stop, wpc, wfd, cfd, open>>

(* ~ThreadPool() calls shutdown() once more; it finds stop_ set and returns *)
(* at once.  A destructor call with stop_ clear is ShutdownSetStop first.   *)
Destroy ==
    /\ caller = "idle"
    /\ stop
    /\ caller' = "gone"
    /\ UNCHANGED <<queue, stop, wpc, wfd, cfd, open, joined>>

-----------------------------------------------------------------------------
(* A worker, from the moment it holds mutex_ at line 70 or inside wait()    *)

(* The predicate of wait() is false: block and release the mutex. *)
Sleep(w) ==
    /\ wpc[w] = "acquire"
    /\ ~stop
    /\ queue = <<>>
    /\ wpc' = [wpc EXCEPT ![w] = "waiting"]
    /\ UNCHANGED <<queue, stop, wfd, caller, cfd, open, joined>>

(* A condition variable may wake without a notification. *)
SpuriousWake(w) ==
    /\ wpc[w] = "waiting"
    /\ wpc' = [wpc EXCEPT ![w] = "acquire"]
    /\ UNCHANGED <<queue, stop, wfd, caller, cfd, open, joined>>

TakeFront(w) ==
    /\ wpc[w] = "acquire"
    /\ queue # <<>>
    /\ wfd' = [wfd EXCEPT ![w] = Head(queue)]
    /\ queue' = Tail(queue)
    /\ wpc' = [wpc EXCEPT ![w] = "handling"]
    /\ UNCHANGED <<stop, caller, cfd, open, joined>>

(* stop_ is looked at only together with an empty queue. *)
Exit(w) ==
    /\ wpc[w] = "acquire"
    /\ stop
    /\ queue = <<>>
    /\ wpc' = [wpc EXCEPT ![w] = "exited"]
    /\ UNCHANGED <<queue, stop, wfd, caller, cfd, open, joined>>

(* handler_(fd) closes the descriptor as its last act and returns. *)
Handled(w) ==
    /\ wpc[w] = "handling"
    /\ open' = open \ {wfd[w]}
    /\ wfd' = [wfd EXCEPT ![w] = NoFd]
    /\ wpc' = [wpc EXCEPT ![w] = "acquire"]
    /\ UNCHANGED <<queue, stop, caller, cfd, joined>>

-----------------------------------------------------------------------------
WorkerStep(w) == Sleep(w) \/ TakeFront(w) \/ Exit(w) \/ Handled(w)

CallerStep == SubmitPush \/ SubmitRejected \/ NotifyOne \/ NotifyAll \/ Join

(* The pool is gone and stays gone. *)
Terminated == caller = "gone" /\ UNCHANGED vars

Next ==
    \/ \E fd \in Fd : Accept(fd)
    \/ CallerStep
    \/ ShutdownSetStop
    \/ Destroy
    \/ \E w \in Worker : WorkerStep(w) \/ SpuriousWake(w)
    \/ Terminated

SafeSpec == Init /\ [][Next]_vars

(* Threads run: a call once begun goes on, a worker holding work goes on,   *)
(* and the handler returns (its reads have an overall deadline).  Nothing   *)
(* is assumed of the arrival of connections, of shutdown() being called, or *)
(* of spurious wakeups.                                                     *)
Fairness ==
    /\ WF_vars(CallerStep)
    /\ \A w \in Worker : WF_vars(WorkerStep(w))

Spec == SafeSpec /\ Fairness

-----------------------------------------------------------------------------
(* Properties *)

Acquiring == {w \in Worker : wpc[w] = "acquire"}
Waiting == {w \in Worker : wpc[w] = "waiting"}
Handling == {w \in Worker : wpc[w] = "handling"}

Elements(q) == {q[i] : i \in 1..Len(q)}
NoRepeats(q) == \A i, j \in 1..Len(q) : q[i] = q[j] => i = j

Queued == Elements(queue)

(* Every variable has the type of the code's data, and a thread has a       *)
(* descriptor in its hands exactly in the states where the code does.       *)
TypeOK ==
    /\ queue \in Seq(Fd)
    /\ stop \in BOOLEAN
    /\ wpc \in [Worker -> WorkerState]
    /\ wfd \in [Worker -> Fd \union {NoFd}]
    /\ caller \in CallerState
    /\ cfd \in Fd \union {NoFd}
    /\ open \subseteq Fd
    /\ joined \in BOOLEAN
    /\ \A w \in Worker : (wpc[w] = "handling") <=> (wfd[w] # NoFd)
    /\ (caller = "submit") <=> (cfd # NoFd)

(* One owner: a descriptor is queued at most once, and is then in no        *)
(* thread's hands; no two threads hold the same one.  Two owners would      *)
(* close a number the kernel may already have given to another client.      *)
FdOwnedOnce ==
    /\ NoRepeats(queue)
    /\ \A w \in Handling : wfd[w] \notin Queued
    /\ \A v, w \in Handling : wfd[v] = wfd[w] => v = w
    /\ caller = "submit" => /\ cfd \notin Queued
                            /\ \A w \in Handling : wfd[w] # cfd

(* No leak and no double close: the open client descriptors are exactly     *)
(* those queued, being handled, or on their way into submit().              *)
OpenIsOwned ==
    open = Queued \union {wfd[w] : w \in Handling}
                  \union (IF caller = "submit" THEN {cfd} ELSE {})

(* Every open client descriptor has exactly one owner, who will close it.   *)
OwnedExactlyOnce == FdOwnedOnce /\ OpenIsOwned

(* No lost wakeup, although notify_one() comes after the unlock: while a    *)
(* worker sleeps, every queued connection is matched by a worker about to   *)
(* look at the queue or by a notification still to come.                    *)
WakeupPending ==
    Waiting # {} =>
        Len(queue) <= Cardinality(Acquiring)
                        + (IF caller = "notify_one" THEN 1 ELSE 0)

(* Nobody sleeps through shutdown(): once notify_all() has run, no worker   *)
(* is blocked in wait(), now or ever again.                                 *)
NobodySleepsThroughShutdown ==
    stop /\ caller # "notify_all" => Waiting = {}

(* "By the time join() returns everything that was queued has already been  *)
(* handled" (thread_pool.cpp, lines 51-53): then the queue is empty and the *)
(* only descriptor that can be open is one submit() is about to close.      *)
DrainedAtJoin ==
    joined => queue = <<>> /\ open \subseteq {cfd}

-----------------------------------------------------------------------------
(* The pool implements ConnectionService *)

ConnBar ==
    [fd \in Fd |-> CASE fd \notin open -> "free"
                     [] fd \in open /\ fd = cfd -> "offered"
                     [] OTHER -> "taken"]

PhaseBar == CASE joined -> "stopped"
              [] stop /\ ~joined -> "draining"
              [] OTHER -> "serving"

CS == INSTANCE ConnectionService WITH conn <- ConnBar, phase <- PhaseBar

(* The pool keeps ConnectionService's promise, liveness included: what is   *)
(* handed to submit() is served or turned away and closed in the end,       *)
(* whatever the interleaving with shutdown(), and shutdown() returns.       *)
ImplementsService == CS!Spec

=============================================================================
