----------------------------- MODULE SocketPath -----------------------------
(***************************************************************************)
(* The life of the UNIX socket at cfg_.socket_path as several nshgeoip     *)
(* processes start, fail, run, stop and crash, all with the same socket    *)
(* path and TCP port: setup_socket(), path_has_live_listener(),            *)
(* ensure_socket_directory(), setup_tcp_listeners(), cleanup() and         *)
(* ~Server() of server.cpp.  Each system call that looks at or changes the *)
(* path or the port is one action, because another process can run between *)
(* any two of them.                                                        *)
(*                                                                         *)
(* The path holds nothing, somebody's regular file, or a socket; a socket  *)
(* is named by the process that bound it, and each process binds at most   *)
(* one.  A restart is another process.                                     *)
(*                                                                         *)
(* Two kinds of client connect to the path: a starting process that probes *)
(* it, and nshgeoip --health-check (check_health() of main.cpp).  Both use *)
(* a blocking socket without a timeout for connect(), which waits while    *)
(* the listener's backlog is full.                                         *)
(***************************************************************************)
EXTENDS Integers, FiniteSets

CONSTANTS
    Proc,           \* the nshgeoip processes
    Nothing,        \* no file at the path, nobody at the port
    RegularFile,    \* a file at the path that is not a socket
    TcpProc,        \* the processes with tcp_port in their configuration
    Check,          \* the runs of --health-check
    MaxBacklog      \* bound: room in a listener's backlog (SOMAXCONN)

ASSUME ProcAssumption ==
    /\ Nothing \notin Proc /\ RegularFile \notin Proc /\ Nothing # RegularFile
    /\ Check \intersect Proc = {}
ASSUME MaxBacklogAssumption == MaxBacklog \in Nat \ {0}
ASSUME TcpAssumption == TcpProc \subseteq Proc

VARIABLES
    path,       \* what is at socket_path
    dir,        \* its directory: "absent", "usable" or "unusable"
                \* by one of the processes
    listening,  \* processes whose UNIX socket is open and listening
    port,       \* the process that holds the TCP port
    created,    \* socket_created_ of each process
    pc,         \* where each process is
    backlog,    \* the clients not yet accepted by each process
    peer,       \* the process each check is connected to
    cpc,        \* where each check is
    disturbed   \* history: "overlap" when the starts or stops of two
                \* processes overlapped; "probe" and "call" when the probe or
                \* another call failed for want of a resource or a right

client == <<backlog, peer, cpc>>
vars == <<path, dir, listening, port, created, pc, client, disturbed>>

Starting == {"mkdir", "lstat", "probe", "unlink", "bind", "chmod", "listen",
             "tcp"}
Stopping == {"failing", "closed"}
Ended == {"exited", "left", "crashed"}   \* left: with its socket file there

Init ==
    /\ path \in {Nothing, RegularFile}
    /\ dir \in {"absent", "usable", "unusable"}
    /\ path = RegularFile => dir # "absent"
    /\ listening = {}
    /\ port = Nothing
    /\ created = [p \in Proc |-> FALSE]
    /\ pc = [p \in Proc |-> "off"]
    /\ backlog = [p \in Proc |-> {}]
    /\ peer = [c \in Check |-> Nothing]
    /\ cpc = [c \in Check |-> "idle"]
    /\ disturbed = {}

Goto(p, to) == pc' = [pc EXCEPT ![p] = to]

(* A supervisor such as systemd starts or stops one process at a time and   *)
(* waits for the result; two shells do not.                                 *)
NoteOverlap(p) ==
    disturbed' = disturbed \union
        IF \E q \in Proc \ {p} : pc[q] \in Starting \union Stopping
        THEN {"overlap"} ELSE {}

NoteFailed(call) == disturbed' = disturbed \union {call}

HasRoom(p) == Cardinality(backlog[p]) < MaxBacklog
Enqueue(p, x) == backlog' = [backlog EXCEPT ![p] = @ \union {x}]

(* A socket that is closed resets the connections it has. *)
CloseListeners(p) ==
    /\ listening' = listening \ {p}
    /\ port' = IF port = p THEN Nothing ELSE port
    /\ backlog' = [backlog EXCEPT ![p] = {}]
    /\ peer' = [c \in Check |-> IF peer[c] = p THEN Nothing ELSE peer[c]]
    /\ UNCHANGED cpc

-----------------------------------------------------------------------------
(* Faulty forms of the operations below.  No specification uses them: each  *)
(* stands for a slip in the code that one of the properties must catch.     *)

(* setup_socket() without lines 425-429. *)
LstatTrusting(p) ==
    /\ pc[p] = "lstat"
    /\ Goto(p, IF path = Nothing THEN "bind" ELSE "probe")
    /\ UNCHANGED <<path, dir, listening, port, created, client, disturbed>>

(* setup_socket() without lines 435-441: any socket is taken to be stale. *)
ProbeSkipped(p) ==
    /\ pc[p] = "probe"
    /\ Goto(p, "unlink")
    /\ UNCHANGED <<path, dir, listening, port, created, client, disturbed>>

(* ~Server() without lines 246-249. *)
FailLeaving(p) ==
    /\ pc[p] = "failing"
    /\ CloseListeners(p)
    /\ created' = [created EXCEPT ![p] = FALSE]
    /\ Goto(p, "exited")
    /\ UNCHANGED <<path, dir, disturbed>>

(* check_health() without lines 181-183: its read() waits for the answer.   *)
CheckGivesUpOnlyOnReset(c) ==
    /\ cpc[c] = "read"
    /\ peer[c] = Nothing
    /\ cpc' = [cpc EXCEPT ![c] = "fail"]
    /\ UNCHANGED <<path, dir, listening, port, created, pc, backlog, peer, disturbed>>

(* path_has_live_listener() answering "yes" for any socket. *)
ProbeRefusing(p) ==
    /\ pc[p] = "probe"
    /\ Goto(p, "failing")
    /\ UNCHANGED <<path, dir, listening, port, created, client, disturbed>>

-----------------------------------------------------------------------------
(* Server::init() *)

Start(p) ==
    /\ pc[p] = "off"
    /\ NoteOverlap(p)
    /\ Goto(p, "mkdir")
    /\ UNCHANGED <<path, dir, listening, port, created, client>>

(* mkdir() makes the directory, or finds one it can use. *)
EnsureSocketDirectory(p) ==
    /\ pc[p] = "mkdir"
    /\ IF dir = "unusable" THEN Goto(p, "failing") ELSE Goto(p, "lstat")
    /\ dir' = IF dir = "absent" THEN "usable" ELSE dir
    /\ UNCHANGED <<path, listening, port, created, client, disturbed>>

Lstat(p) ==
    /\ pc[p] = "lstat"
    /\ Goto(p, CASE path = Nothing -> "bind"
                 [] path = RegularFile -> "failing"
                 [] OTHER -> "probe")
    /\ UNCHANGED <<path, dir, listening, port, created, client, disturbed>>

(* connect() succeeds if the socket at the path has a listener with room in *)
(* its backlog, waits while there is none, and fails without a listener.    *)
(* The connection is closed at once but stays in the backlog.               *)
Probe(p) ==
    /\ pc[p] = "probe"
    /\ IF path \in listening
       THEN HasRoom(path) /\ Enqueue(path, p) /\ Goto(p, "failing")
       ELSE Goto(p, "unlink") /\ UNCHANGED backlog
    /\ UNCHANGED <<path, dir, listening, port, created, peer, cpc, disturbed>>

(* If the probe's socket() fails the answer is as for a stale socket.       *)
ProbeFails(p) ==
    /\ pc[p] = "probe"
    /\ Goto(p, "unlink")
    /\ NoteFailed("probe")
    /\ UNCHANGED <<path, dir, listening, port, created, client>>

(* unlink() removes whatever is at the path by now; ENOENT is an error. *)
UnlinkStale(p) ==
    /\ pc[p] = "unlink"
    /\ Goto(p, IF path = Nothing THEN "failing" ELSE "bind")
    /\ path' = Nothing
    /\ UNCHANGED <<dir, listening, port, created, client, disturbed>>

(* bind() makes the socket file, or fails with EADDRINUSE. *)
Bind(p) ==
    /\ pc[p] = "bind"
    /\ IF path = Nothing
       THEN /\ path' = p
            /\ created' = [created EXCEPT ![p] = TRUE]
            /\ Goto(p, "chmod")
       ELSE /\ Goto(p, "failing")
            /\ UNCHANGED <<path, created>>
    /\ UNCHANGED <<dir, listening, port, client, disturbed>>

(* chmod() goes by the path, not by the socket. *)
Chmod(p) ==
    /\ pc[p] = "chmod"
    /\ Goto(p, IF path = Nothing THEN "failing" ELSE "listen")
    /\ UNCHANGED <<path, dir, listening, port, created, client, disturbed>>

Listen(p) ==
    /\ pc[p] = "listen"
    /\ listening' = listening \union {p}
    /\ Goto(p, "tcp")
    /\ UNCHANGED <<path, dir, port, created, client, disturbed>>

(* setup_tcp_listeners(): nothing to do, both listeners bound, or an error, *)
(* which can come when the first of them already has the port.              *)
SetupTcp(p) ==
    /\ pc[p] = "tcp"
    /\ \/ p \notin TcpProc /\ Goto(p, "running") /\ UNCHANGED port
       \/ p \in TcpProc /\ port = Nothing /\ port' = p /\ Goto(p, "running")
       \/ p \in TcpProc /\ Goto(p, "failing")
                        /\ port' \in {port, IF port = Nothing THEN p ELSE port}
    /\ UNCHANGED <<path, dir, listening, created, client, disturbed>>

(* A call of setup_socket() fails on its own account: mkdir(), lstat(),     *)
(* unlink(), socket(), bind(), chmod() or listen().                         *)
CallFails(p) ==
    /\ pc[p] \in Starting \ {"probe", "tcp"}
    /\ Goto(p, "failing")
    /\ NoteFailed("call")
    /\ UNCHANGED <<path, dir, listening, port, created, client>>

-----------------------------------------------------------------------------
(* cleanup() and ~Server() *)

(* SIGTERM: the pool is drained, then the listeners are closed. *)
Stop(p) ==
    /\ pc[p] = "running"
    /\ \A c \in Check : peer[c] = p => c \in backlog[p]
    /\ NoteOverlap(p)
    /\ CloseListeners(p)
    /\ Goto(p, "closed")
    /\ UNCHANGED <<path, dir, created>>

(* init() returned false: the destructor closes what is open. *)
Fail(p) ==
    /\ pc[p] = "failing"
    /\ CloseListeners(p)
    /\ Goto(p, IF created[p] THEN "closed" ELSE "exited")
    /\ UNCHANGED <<path, dir, created, disturbed>>

(* unlink() goes by the path: it removes whatever is there. *)
UnlinkOwn(p) ==
    /\ pc[p] = "closed"
    /\ path' = Nothing
    /\ created' = [created EXCEPT ![p] = FALSE]
    /\ Goto(p, "exited")
    /\ UNCHANGED <<dir, listening, port, client, disturbed>>

(* The unlink() of cleanup() fails, for a reason other than ENOENT, and is  *)
(* warned about, or that of ~Server() does, which nobody notices: either    *)
(* way the process ends and the path stays as it is.                        *)
UnlinkFails(p) ==
    /\ pc[p] = "closed"
    /\ created' = [created EXCEPT ![p] = FALSE]
    /\ Goto(p, "left")
    /\ UNCHANGED <<path, dir, listening, port, client, disturbed>>

(* SIGKILL, power loss inside a container, a fault: descriptors are closed  *)
(* by the kernel, the socket file stays.                                    *)
Crash(p) ==
    /\ pc[p] \notin {"off"} \union Ended
    /\ CloseListeners(p)
    /\ Goto(p, "crashed")
    /\ UNCHANGED <<path, dir, created, disturbed>>

-----------------------------------------------------------------------------
(* Clients: the accept loop, and check_health() *)

Accept(p) ==
    /\ pc[p] = "running"
    /\ \E x \in backlog[p] : backlog' = [backlog EXCEPT ![p] = @ \ {x}]
    /\ UNCHANGED <<path, dir, listening, port, created, pc, peer, cpc, disturbed>>

CheckGoto(c, to) == cpc' = [cpc EXCEPT ![c] = to]

CheckStart(c) ==
    /\ cpc[c] = "idle"
    /\ CheckGoto(c, "connect")
    /\ UNCHANGED <<path, dir, listening, port, created, pc, backlog, peer, disturbed>>

(* Connected, the request is written and its timeouts are set. *)
CheckConnect(c) ==
    /\ cpc[c] = "connect"
    /\ IF path \in listening
       THEN /\ HasRoom(path) /\ Enqueue(path, c)
            /\ peer' = [peer EXCEPT ![c] = path]
            /\ CheckGoto(c, "read")
       ELSE CheckGoto(c, "fail") /\ UNCHANGED <<backlog, peer>>
    /\ UNCHANGED <<path, dir, listening, port, created, pc, disturbed>>

(* A worker has answered, which it need not do in time; the check reads     *)
(* once and wants an "HTTP/1.1 200".                                        *)
CheckAnswered(c) ==
    /\ cpc[c] = "read"
    /\ peer[c] # Nothing
    /\ c \notin backlog[peer[c]]
    /\ \E verdict \in {"ok", "fail"} : CheckGoto(c, verdict)
    /\ peer' = [peer EXCEPT ![c] = Nothing]
    /\ UNCHANGED <<path, dir, listening, port, created, pc, backlog, disturbed>>

(* SO_RCVTIMEO, or the connection was reset.  The connection is closed; if  *)
(* it has not been accepted yet it keeps its place in the backlog.          *)
CheckGivesUp(c) ==
    /\ cpc[c] = "read"
    /\ CheckGoto(c, "fail")
    /\ peer' = [peer EXCEPT ![c] = Nothing]
    /\ UNCHANGED <<path, dir, listening, port, created, pc, backlog, disturbed>>

(* socket() or write() fails. *)
CheckCallFails(c) ==
    /\ cpc[c] = "connect"
    /\ CheckGoto(c, "fail")
    /\ UNCHANGED <<path, dir, listening, port, created, pc, backlog, peer, disturbed>>

-----------------------------------------------------------------------------
ProcStep(p) ==
    \/ EnsureSocketDirectory(p) \/ Lstat(p) \/ Probe(p) \/ UnlinkStale(p)
    \/ Bind(p) \/ Chmod(p) \/ Listen(p) \/ SetupTcp(p)
    \/ Fail(p) \/ UnlinkOwn(p) \/ Accept(p)

CheckStep(c) == CheckConnect(c) \/ CheckGivesUp(c)

Terminated == (\A p \in Proc : pc[p] \in Ended) /\ UNCHANGED vars

Next ==
    \/ \E p \in Proc : \/ Start(p) \/ ProcStep(p) \/ Stop(p) \/ Crash(p)
                       \/ CallFails(p) \/ ProbeFails(p) \/ UnlinkFails(p)
    \/ \E c \in Check : \/ CheckStart(c) \/ CheckStep(c) \/ CheckAnswered(c)
                        \/ CheckCallFails(c)
    \/ Terminated

SafeSpec == Init /\ [][Next]_vars

(* A process that is starting or stopping goes on, the accept loop of one   *)
(* that runs gets round to its backlog (BacklogDrains of Server), and the   *)
(* timeout of a check expires.  No call need fail and no answer need come.  *)
Spec ==
    /\ SafeSpec
    /\ \A p \in Proc : WF_vars(ProcStep(p))
    /\ \A c \in Check : WF_vars(CheckStep(c))

-----------------------------------------------------------------------------
(* Properties *)

(* The daemons that run are reachable at the path and at the TCP port they  *)
(* are configured for.                                                      *)
Reachable ==
    \A p \in Proc : pc[p] = "running" =>
        /\ path = p
        /\ p \in listening
        /\ p \in TcpProc => port = p

(* A running daemon can be reached, whatever crashed, failed or was refused *)
(* before or since, as long as processes are started and stopped one at a   *)
(* time and the probe gets its socket.                                      *)
RunningIsReachable == disturbed \subseteq {"call"} => Reachable

(* server.cpp:430-434 says why a live socket is not removed: it would be    *)
(* deleted "out from under a running process" which "keeps running, but     *)
(* nothing can connect() to it anymore".  Starts may overlap here ("an      *)
(* accidental double-start"); the probe gets its socket.                    *)
NotTakenAway == "probe" \notin disturbed => Reachable

(* A file that is not a socket and is at the path when the processes start  *)
(* is never removed or replaced, however they overlap and end.  (Lstat is   *)
(* where they find it.  A file put there later, between the lstat() and the *)
(* unlink() of a start or before the unlink() by path of a stop, is removed *)
(* by the code and is outside this model.)                                  *)
NonSocketPreserved == [][path = RegularFile => path' = RegularFile]_vars

(* A process that ends by itself, after a failed init() or a clean          *)
(* shutdown, leaves neither a listener nor the port, and it leaves its      *)
(* socket file only if the unlink() of cleanup() or of ~Server() failed.    *)
(* (That and the directory, which nobody removes, are what is left of the   *)
(* "nothing partially set up is left behind" of server.h:27-28.)            *)
ExitLeavesNothing ==
    \A p \in Proc :
        /\ pc[p] \in {"exited", "left"} => p \notin listening /\ port # p
        /\ pc[p] = "exited" => path # p

(* A stale socket, of a process that crashed or could not remove it, never  *)
(* blocks a start that nobody else interferes with: the process replaces it *)
(* by its own, unless it crashes or is disturbed.                           *)
StaleIsReplaced ==
    \A p \in Proc :
        (pc[p] = "lstat" /\ path \in {q \in Proc : pc[q] \in {"crashed", "left"}})
            ~> (path = p \/ pc[p] = "crashed" \/ disturbed # {})

(* Nobody waits for ever in a connect() that has no timeout: neither a      *)
(* process that starts and probes a live socket nor a health check, even    *)
(* when it finds the backlog full, when the place is taken by a check that  *)
(* has given up, or when the listener goes away while it waits.             *)
ConnectEnds ==
    /\ \A p \in Proc : (pc[p] \in Starting) ~> (pc[p] \notin Starting)
    /\ \A c \in Check : (cpc[c] = "connect") ~> (cpc[c] \in {"ok", "fail"})

=============================================================================
