------------------------------- MODULE Server -------------------------------
(***************************************************************************)
(* Server (server.cpp) once its configuration is known: init(), the poll   *)
(* loop of run() with its accept loop and its signal handling, the request *)
(* handler of each worker, reload_databases(), cleanup() and the           *)
(* destructor.  It composes ThreadPool and GeoIpDatabases: the main thread *)
(* is the pool's caller and the databases' only writer, and the pool's     *)
(* workers are the databases' readers.                                     *)
(*                                                                         *)
(* metrics_file is empty, its default, so poll() has no timeout.  How the  *)
(* listening sockets come to be is SocketPath's subject.                   *)
(***************************************************************************)
EXTENDS Integers, Sequences, FiniteSets

CONSTANTS
    Worker, Fd, NoFd,           \* of ThreadPool
    Configured, MaxReload, MaxVer,   \* of GeoIpDatabases
    NListener,                  \* listening sockets: the UNIX one, then TCP
    MaxBacklog,                 \* room in a listener's backlog
    Signal                      \* signals sent, of "HUP", "INT", "TERM"

ASSUME ThreadAssumption == IsFiniteSet(Worker) /\ Worker # {}
ASSUME DescriptorAssumption == IsFiniteSet(Fd) /\ NoFd \notin Fd
ASSUME ConfigurationAssumption == Configured \subseteq {"country", "asn", "city"}
ASSUME LimitAssumption == MaxReload \in Nat /\ MaxVer \in Nat
ASSUME NListenerAssumption == NListener \in Nat \ {0}
ASSUME MaxBacklogAssumption == MaxBacklog \in Nat \ {0}
ASSUME SignalAssumption == Signal \subseteq {"HUP", "INT", "TERM"}

VARIABLES
    queue, stop, wpc, wfd, caller, cfd, open, joined,       \* ThreadPool
    diskver, diskok, mapped, gen, mmdb, opened, loaded, tried, writer,
    readers, mpc, mpos, startup, tmp, reloads, rpc, rpos, entry, seen, rerr,
    rfound, rcountry, rflag,                                \* GeoIpDatabases
    spc,        \* where the main thread is
    lpos,       \* index i of the accept loop in run()
    ready,      \* indexes whose revents had POLLIN when poll() returned
    backlog,    \* connections waiting in each listener's backlog
    listening,  \* the listeners are open
    pending,    \* signals the kernel holds for signal_fd_
    hpc,        \* where each worker is in handle_connection()
    hups,       \* number of SIGHUPs sent
    wanted      \* version of each file when the last SIGHUP was sent

Pool == INSTANCE ThreadPool
Db == INSTANCE GeoIpDatabases WITH Reader <- Worker

poolvars == <<queue, stop, wpc, wfd, caller, cfd, open, joined>>
dbvars == <<diskver, diskok, mapped, gen, mmdb, opened, loaded, tried, writer,
            readers, mpc, mpos, startup, tmp, reloads, rpc, rpos, entry, seen,
            rerr, rfound, rcountry, rflag>>
loop == <<lpos, ready>>
kernel == <<backlog, listening, pending, hups, wanted>>
vars == <<poolvars, dbvars, spc, loop, kernel, hpc>>

Listener == 1..NListener
SignalIdx == NListener + 1          \* signal_idx

Init ==
    /\ Pool!Init
    /\ Db!Init
    /\ spc = "init"
    /\ lpos = 1
    /\ ready = {}
    /\ backlog = [l \in Listener |-> 0]
    /\ listening = FALSE
    /\ pending = {}
    /\ hpc = [w \in Worker |-> "read"]
    /\ hups = 0
    /\ wanted = [s \in Db!Slot |-> 0]

-----------------------------------------------------------------------------
(* Faulty forms of the operations below.  No specification uses them: each  *)
(* stands for a slip in the code that one of the properties must catch.     *)

(* Forgetting the SIGHUPs that arrived while a reload was running. *)
ReloadForgetsHup ==
    /\ spc = "reload"
    /\ Db!MainStep
    /\ spc' = IF mpc' = "serving" THEN "poll" ELSE "reload"
    /\ pending' = IF mpc' = "serving" THEN pending \ {"HUP"} ELSE pending
    /\ UNCHANGED <<poolvars, loop, backlog, listening, hups, wanted, hpc>>

(* Accepting between the databases of a reload, on the reloading thread's   *)
(* behalf: the writer is no longer the one who holds new lookups back.      *)
AcceptDuringReload(fd) ==
    /\ spc \in {"accept", "reload"}
    /\ caller = "idle"
    /\ \E l \in Listener :
          /\ spc = "accept" => l = lpos /\ l \in ready
          /\ backlog[l] > 0
          /\ backlog' = [backlog EXCEPT ![l] = @ - 1]
    /\ open' = open \union {fd}
    /\ fd \notin open
    /\ IF spc = "accept"
       THEN /\ cfd' = fd /\ caller' = "submit" /\ spc' = "submit"
            /\ UNCHANGED queue
       ELSE /\ queue' = Append(queue, fd)
            /\ UNCHANGED <<cfd, caller, spc>>
    /\ UNCHANGED <<stop, wpc, wfd, joined, dbvars, loop, listening, pending,
                   hups, wanted, hpc>>

(* Listening sockets without SOCK_NONBLOCK: accept4() on an empty backlog   *)
(* waits for a client instead of failing with EAGAIN.                       *)
NextListenerBlocking ==
    /\ spc = "accept"
    /\ lpos \in 1..NListener
    /\ lpos \notin ready \/ open = Fd
    /\ lpos' = lpos + 1
    /\ UNCHANGED <<poolvars, dbvars, spc, ready, kernel, hpc>>

-----------------------------------------------------------------------------
(* The environment: clients, the administrator, the update jobs *)

Connect(l) ==
    /\ listening
    /\ backlog[l] < MaxBacklog
    /\ backlog' = [backlog EXCEPT ![l] = @ + 1]
    /\ UNCHANGED <<poolvars, dbvars, spc, loop, listening, pending, hups,
                   wanted, hpc>>

(* setup_signals() has blocked the signals, so they wait for signal_fd_;    *)
(* a signal that is already pending is not queued a second time.            *)
Kill(sig) ==
    /\ spc # "exited"
    /\ sig = "HUP" => hups < MaxReload
    /\ sig # "HUP" => sig \notin pending
    /\ pending' = pending \union {sig}
    /\ IF sig = "HUP" THEN hups' = hups + 1 /\ wanted' = diskver
                      ELSE UNCHANGED <<hups, wanted>>
    /\ UNCHANGED <<poolvars, dbvars, spc, loop, backlog, listening, hpc>>

Replace(s) ==
    /\ spc # "exited"
    /\ Db!ReplaceFile(s)
    /\ UNCHANGED <<poolvars, spc, loop, kernel, hpc>>

-----------------------------------------------------------------------------
(* The main thread: init() *)

OpenDatabases ==
    /\ spc = "init"
    /\ Db!MainStep
    /\ spc' = IF mpc' = "gone" THEN "exited" ELSE "init"
    /\ UNCHANGED <<poolvars, loop, kernel, hpc>>

(* setup_socket(), setup_tcp_listeners() and the worker pool, or an error   *)
(* on the way, after which main() destroys the Server.                      *)
Listen ==
    /\ spc = "init"
    /\ mpc = "serving"
    /\ \/ spc' = "poll" /\ listening' = TRUE
       \/ spc' = "return" /\ UNCHANGED listening
    /\ UNCHANGED <<poolvars, dbvars, loop, backlog, pending, hups, wanted, hpc>>

-----------------------------------------------------------------------------
(* The main thread: run() *)

Pollable == {l \in Listener : backlog[l] > 0}
            \union (IF pending # {} THEN {SignalIdx} ELSE {})

Poll ==
    /\ spc = "poll"
    /\ Pollable # {}
    /\ ready' = Pollable
    /\ lpos' = 1
    /\ spc' = "accept"
    /\ UNCHANGED <<poolvars, dbvars, kernel, hpc>>

(* poll() fails with something other than EINTR: run() ends as for SIGTERM. *)
PollFails ==
    /\ spc = "poll"
    /\ spc' = "cleanup"
    /\ UNCHANGED <<poolvars, dbvars, loop, kernel, hpc>>

(* accept4() succeeds and submit() is called. *)
Accept(fd) ==
    /\ spc = "accept"
    /\ lpos \in ready \ {SignalIdx}
    /\ backlog[lpos] > 0
    /\ Pool!Accept(fd)
    /\ backlog' = [backlog EXCEPT ![lpos] = @ - 1]
    /\ spc' = "submit"
    /\ UNCHANGED <<dbvars, loop, listening, pending, hups, wanted, hpc>>

Submit ==
    /\ spc = "submit"
    /\ Pool!SubmitPush \/ Pool!SubmitRejected \/ Pool!NotifyOne
    /\ spc' = IF caller' = "idle" THEN "accept" ELSE "submit"
    /\ UNCHANGED <<dbvars, loop, kernel, hpc>>

(* A listener with nothing to accept: POLLIN was not set, or accept4() says *)
(* EAGAIN because the backlog is empty, or EMFILE because no descriptor is  *)
(* free.                                                                    *)
NextListener ==
    /\ spc = "accept"
    /\ lpos \in Listener
    /\ lpos \notin ready \/ backlog[lpos] = 0 \/ open = Fd
    /\ lpos' = lpos + 1
    /\ UNCHANGED <<poolvars, dbvars, spc, ready, kernel, hpc>>

ListenersDone ==
    /\ spc = "accept"
    /\ lpos = SignalIdx
    /\ spc' = IF SignalIdx \in ready THEN "signal" ELSE "poll"
    /\ UNCHANGED <<poolvars, dbvars, loop, kernel, hpc>>

(* A signalfd hands out the lowest-numbered pending signal first. *)
FirstPending == IF "HUP" \in pending THEN "HUP"
                ELSE IF "INT" \in pending THEN "INT" ELSE "TERM"

(* One siginfo is read per iteration. *)
ReadHup ==
    /\ spc = "signal"
    /\ FirstPending = "HUP"
    /\ pending' = pending \ {"HUP"}
    /\ Db!BeginReload
    /\ spc' = "reload"
    /\ UNCHANGED <<poolvars, loop, backlog, listening, hups, wanted, hpc>>

ReadTerm ==
    /\ spc = "signal"
    /\ FirstPending # "HUP"
    /\ pending' = pending \ {FirstPending}
    /\ spc' = "cleanup"
    /\ UNCHANGED <<poolvars, dbvars, loop, backlog, listening, hups, wanted,
                   hpc>>

Reload ==
    /\ spc = "reload"
    /\ Db!MainStep
    /\ spc' = IF mpc' = "serving" THEN "poll" ELSE "reload"
    /\ UNCHANGED <<poolvars, loop, kernel, hpc>>

-----------------------------------------------------------------------------
(* The main thread: cleanup(), ~Server(), and the return from main() *)

(* pool_->shutdown(); pool_.reset() *)
ShutdownPool ==
    /\ spc = "cleanup"
    /\ \/ Pool!ShutdownSetStop
       \/ Pool!NotifyAll
       \/ Pool!Join
       \/ Pool!Destroy
    /\ UNCHANGED <<dbvars, spc, loop, kernel, hpc>>

(* Closing a listener resets what is still in its backlog. *)
CloseListeners ==
    /\ spc = "cleanup"
    /\ caller = "gone"
    /\ listening' = FALSE
    /\ backlog' = [l \in Listener |-> 0]
    /\ spc' = "return"
    /\ UNCHANGED <<poolvars, dbvars, loop, pending, hups, wanted, hpc>>

DestroyDatabases ==
    /\ spc = "return"
    /\ Db!BeginDestroy \/ Db!Destroy
    /\ spc' = IF mpc' = "gone" THEN "exited" ELSE "return"
    /\ UNCHANGED <<poolvars, loop, kernel, hpc>>

-----------------------------------------------------------------------------
(* A worker: the pool's loop and handle_connection() *)

PoolWorker(w) ==
    /\ listening                        \* the pool exists
    /\ Pool!Sleep(w) \/ Pool!TakeFront(w) \/ Pool!Exit(w)
    /\ UNCHANGED <<dbvars, spc, loop, kernel, hpc>>

SpuriousWake(w) ==
    /\ Pool!SpuriousWake(w)
    /\ UNCHANGED <<dbvars, spc, loop, kernel, hpc>>

(* No request before the deadline, or one answered without a database.      *)
HandleDirectly(w) ==
    /\ hpc[w] = "read"
    /\ Pool!Handled(w)
    /\ UNCHANGED <<dbvars, spc, loop, kernel, hpc>>

(* A /lookup with a valid address, or a /health or /metrics that needs      *)
(* collect_db_infos().                                                      *)
ReadRequest(w) ==
    /\ wpc[w] = "handling"
    /\ hpc[w] = "read"
    /\ \E kind \in {"lookup", "info"} : hpc' = [hpc EXCEPT ![w] = kind]
    /\ UNCHANGED <<poolvars, dbvars, spc, loop, kernel>>

EnterDatabases(w) ==
    /\ \/ hpc[w] = "lookup" /\ Db!BeginLookup(w)
       \/ hpc[w] = "info" /\ Db!BeginInfo(w)
    /\ hpc' = [hpc EXCEPT ![w] = "inside"]
    /\ UNCHANGED <<poolvars, spc, loop, kernel>>

UseDatabases(w) ==
    /\ Db!ReaderStep(w)
    /\ hpc' = [hpc EXCEPT ![w] = IF rpc'[w] = "idle" THEN "respond" ELSE "inside"]
    /\ UNCHANGED <<poolvars, spc, loop, kernel>>

(* write_all() and close() *)
Respond(w) ==
    /\ hpc[w] = "respond"
    /\ Pool!Handled(w)
    /\ hpc' = [hpc EXCEPT ![w] = "read"]
    /\ UNCHANGED <<dbvars, spc, loop, kernel>>

-----------------------------------------------------------------------------
MainThread ==
    \/ OpenDatabases \/ Listen \/ Poll \/ (\E fd \in Fd : Accept(fd)) \/ Submit
    \/ NextListener \/ ListenersDone \/ ReadHup \/ ReadTerm \/ Reload
    \/ ShutdownPool \/ CloseListeners \/ DestroyDatabases

WorkerThread(w) ==
    \/ PoolWorker(w) \/ HandleDirectly(w) \/ ReadRequest(w) \/ EnterDatabases(w)
    \/ UseDatabases(w) \/ Respond(w)

Terminated == spc = "exited" /\ UNCHANGED vars

Next ==
    \/ \E l \in Listener : Connect(l)
    \/ \E sig \in Signal : Kill(sig)
    \/ \E s \in Configured : Replace(s)
    \/ MainThread
    \/ PollFails
    \/ \E w \in Worker : WorkerThread(w) \/ SpuriousWake(w)
    \/ Terminated

SafeSpec == Init /\ [][Next]_vars

(* Threads that can run do run.  Nothing is assumed of clients, signals or  *)
(* file replacements, and the lock is not assumed to be fair to the writer. *)
Fairness ==
    /\ WF_vars(MainThread)
    /\ \A w \in Worker : WF_vars(WorkerThread(w))

Spec == SafeSpec /\ Fairness

-----------------------------------------------------------------------------
(* Properties *)

(* The databases outlive their readers: by the time the destructor unmaps   *)
(* them no worker is left in handle_connection(), although the pool is      *)
(* declared after db_ and cleanup() runs on the main thread.                *)
DatabasesOutliveReaders ==
    mpc \in {"destroy", "gone"} \/ spc = "return" =>
        \A w \in Worker : rpc[w] = "idle" /\ hpc[w] = "read"

(* No SIGHUP is lost, though signals coalesce and one is read per poll():   *)
(* when none is pending and no reload is under way, every configured file   *)
(* has been opened, or tried, at least as new as the last SIGHUP asked for. *)
HupCovered ==
    "HUP" \notin pending /\ spc \notin {"init", "reload", "exited"} =>
        \A s \in Configured : tried[s].ver >= wanted[s]

(* A stopped daemon has let go of everything: client descriptors, mappings, *)
(* listeners and backlogs.                                                  *)
CleanExit ==
    spc = "exited" =>
        /\ open = {} /\ queue = <<>>
        /\ \A s \in Db!Slot : mapped[s] = {}
        /\ ~listening /\ \A l \in Listener : backlog[l] = 0

(* A reload ends, however many connections keep arriving: lookups are       *)
(* preferred to the writer by the lock, but the thread that wants to write  *)
(* is the one that would accept more of them.                               *)
ReloadEnds == (spc = "reload") ~> (spc # "reload")

(* Clients pause: from some moment on nobody connects. *)
ArrivalsPause == <>[][\A l \in Listener : backlog'[l] <= backlog[l]]_vars

(* Once clients pause, what is in a backlog is accepted (or reset by a      *)
(* shutdown): running out of descriptors only delays it.                    *)
BacklogDrains ==
    ArrivalsPause => \A l \in Listener : (backlog[l] > 0) ~> (backlog[l] = 0)

(* Once clients pause, SIGTERM ends the daemon in good order.  They have to *)
(* pause: the accept loop leaves only on an error such as EAGAIN, so that   *)
(* connections arriving as fast as they are accepted keep it from the       *)
(* signal for ever.                                                         *)
TermEnds == ArrivalsPause => (("TERM" \in pending) ~> (spc = "exited"))

=============================================================================
