-------------------------- MODULE ConnectionService --------------------------
(***************************************************************************)
(* What the worker pool promises to the accept loop and to the clients     *)
(* behind the connections, without threads, queue or condition variable:   *)
(* a connection offered while the service is serving is taken and, once    *)
(* taken, served and closed exactly once; shutting down begins a drain,    *)
(* and the service is stopped only when nothing taken is left.             *)
(* thread_pool.h, lines 31-40, states this promise.                        *)
(***************************************************************************)
CONSTANT Fd     \* descriptors a connection can have; the kernel reuses them

VARIABLES
    conn,       \* conn[fd]: "free", "offered" to submit(), or "taken" by it
    phase       \* "serving", "draining" (stop_ set) or "stopped" (joined)

svars == <<conn, phase>>

Init ==
    /\ conn = [fd \in Fd |-> "free"]
    /\ phase = "serving"

(* The accept loop has a new connection and calls submit() with it. *)
Offer(fd) ==
    /\ conn[fd] = "free"
    /\ conn' = [conn EXCEPT ![fd] = "offered"]
    /\ UNCHANGED phase

(* The service commits itself to the connection. *)
Take(fd) ==
    /\ conn[fd] = "offered"
    /\ phase = "serving"
    /\ conn' = [conn EXCEPT ![fd] = "taken"]
    /\ UNCHANGED phase

(* Offered too late: closed without being served. *)
Refuse(fd) ==
    /\ conn[fd] = "offered"
    /\ phase # "serving"
    /\ conn' = [conn EXCEPT ![fd] = "free"]
    /\ UNCHANGED phase

(* A taken connection has been handled and closed. *)
Serve(fd) ==
    /\ conn[fd] = "taken"
    /\ phase # "stopped"
    /\ conn' = [conn EXCEPT ![fd] = "free"]
    /\ UNCHANGED phase

BeginDrain ==
    /\ phase = "serving"
    /\ phase' = "draining"
    /\ UNCHANGED conn

Stop ==
    /\ phase = "draining"
    /\ \A fd \in Fd : conn[fd] # "taken"
    /\ phase' = "stopped"
    /\ UNCHANGED conn

Next ==
    \/ \E fd \in Fd : Offer(fd) \/ Take(fd) \/ Refuse(fd) \/ Serve(fd)
    \/ BeginDrain
    \/ Stop

SafeSpec == Init /\ [][Next]_svars

Fairness ==
    /\ \A fd \in Fd : WF_svars(Take(fd) \/ Refuse(fd)) /\ WF_svars(Serve(fd))
    /\ WF_svars(Stop)

Spec == SafeSpec /\ Fairness

=============================================================================
