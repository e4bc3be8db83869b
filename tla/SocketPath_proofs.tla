-------------------------- MODULE SocketPath_proofs --------------------------
(***************************************************************************)
(* Proofs about SocketPath, for any number of processes, health checks and *)
(* places in a backlog.  Owned ties the socket file, the listeners and the *)
(* port to the place of the process that has them; Foreign says where      *)
(* processes can be while somebody's file is at the path; Serving is what  *)
(* keeps a running daemon reachable.                                       *)
(***************************************************************************)
EXTENDS SocketPath, TLAPS

PcState == {"off", "running"} \union Starting \union Stopping \union Ended

TypeOK ==
    /\ path \in Proc \union {Nothing, RegularFile}
    /\ dir \in {"absent", "usable", "unusable"}
    /\ listening \subseteq Proc
    /\ port \in Proc \union {Nothing}
    /\ created \in [Proc -> BOOLEAN]
    /\ pc \in [Proc -> PcState]
    /\ backlog \in [Proc -> SUBSET (Proc \union Check)]
    /\ peer \in [Check -> Proc \union {Nothing}]
    /\ cpc \in [Check -> {"idle", "connect", "read", "ok", "fail"}]
    /\ disturbed \subseteq {"overlap", "probe", "call"}

(* Where a process can be once its socket file is there, *)
Bound == {"chmod", "listen", "tcp", "running", "failing", "closed", "crashed"}

Owned ==
    /\ \A p \in Proc : created[p] => pc[p] \in Bound
    /\ \A p \in Proc : path = p => created[p] \/ pc[p] = "left"
    /\ \A p \in Proc : p \in listening => pc[p] \in {"tcp", "running", "failing"}
    /\ \A p \in Proc : port = p => pc[p] \in {"running", "failing"}

(* and where it stays while the path has a file that is not a socket.       *)
Foreign ==
    path = RegularFile =>
      \A p \in Proc :
        /\ ~created[p]
        /\ pc[p] \in {"off", "mkdir", "lstat", "failing"} \union Ended

(* A process that is past its probe, or that will unlink the path as it     *)
(* ends.                                                                    *)
Claims(p) ==
    \/ pc[p] \in {"unlink", "bind", "chmod", "listen", "tcp", "closed"}
    \/ pc[p] = "failing" /\ created[p]

Serving ==
    disturbed \subseteq {"call"} =>
      /\ \A p, q \in Proc :
           pc[p] \in Starting \union Stopping /\ pc[q] \in Starting \union Stopping
             => p = q
      /\ \A p, q \in Proc : pc[p] = "running" => ~Claims(q)
      /\ \A p \in Proc : pc[p] \in {"chmod", "listen", "tcp", "running"} => path = p
      /\ \A p \in Proc : pc[p] \in {"tcp", "running"} => p \in listening
      /\ \A p \in Proc : pc[p] = "running" /\ p \in TcpProc => port = p

-----------------------------------------------------------------------------
(* Types *)

(* The initial state has all the invariants. *)
LEMMA InitInv == Init => TypeOK /\ Owned /\ Foreign /\ Serving
BY ProcAssumption DEF Init, TypeOK, PcState, Owned, Foreign, Serving, Claims,
   Starting, Stopping, Ended, Bound

(* Closing the listeners of a process, type by type. *)
LEMMA ClosedTypes ==
    ASSUME TypeOK, NEW p \in Proc, CloseListeners(p)
    PROVE  /\ listening' \subseteq Proc
           /\ port' \in Proc \union {Nothing}
           /\ backlog' \in [Proc -> SUBSET (Proc \union Check)]
           /\ peer' \in [Check -> Proc \union {Nothing}]
           /\ cpc' = cpc
BY DEF TypeOK, CloseListeners

(* Every step preserves the types. *)
LEMMA StepTypeOK == TypeOK /\ [Next]_vars => TypeOK'
<1> SUFFICES ASSUME TypeOK, [Next]_vars PROVE TypeOK'
  OBVIOUS
<1> USE DEF PcState, Starting, Stopping, Ended, Goto, NoteFailed, NoteOverlap
<1>1. ASSUME NEW p \in Proc,
             Start(p) \/ EnsureSocketDirectory(p) \/ Lstat(p) \/ ProbeFails(p)
               \/ CallFails(p)
      PROVE TypeOK'
  BY <1>1 DEF Start, EnsureSocketDirectory, Lstat, ProbeFails, CallFails,
     TypeOK, client
<1>2. ASSUME NEW p \in Proc, Probe(p) PROVE TypeOK'
  BY <1>2, ProcAssumption DEF Probe, TypeOK, Enqueue
<1>3. ASSUME NEW p \in Proc,
             UnlinkStale(p) \/ Bind(p) \/ Chmod(p) \/ Listen(p) \/ SetupTcp(p)
               \/ UnlinkOwn(p) \/ UnlinkFails(p)
      PROVE TypeOK'
  BY <1>3 DEF UnlinkStale, Bind, Chmod, Listen, SetupTcp, UnlinkOwn, UnlinkFails,
     TypeOK, client
<1>4. ASSUME NEW p \in Proc, Stop(p) \/ Fail(p) \/ Crash(p) PROVE TypeOK'
  BY <1>4, ClosedTypes DEF Stop, Fail, Crash, TypeOK
<1>5. ASSUME NEW p \in Proc, Accept(p) PROVE TypeOK'
  BY <1>5 DEF Accept, TypeOK
<1>6. ASSUME NEW c \in Check,
             CheckStart(c) \/ CheckAnswered(c) \/ CheckGivesUp(c)
               \/ CheckCallFails(c)
      PROVE TypeOK'
  BY <1>6 DEF CheckStart, CheckAnswered, CheckGivesUp, CheckCallFails, TypeOK,
     CheckGoto
<1>7. ASSUME NEW c \in Check, CheckConnect(c) PROVE TypeOK'
  BY <1>7 DEF CheckConnect, TypeOK, CheckGoto, Enqueue
<1>8. CASE UNCHANGED vars
  BY <1>8 DEF vars, client, TypeOK
<1>9. QED
  BY <1>1, <1>2, <1>3, <1>4, <1>5, <1>6, <1>7, <1>8
     DEF Next, ProcStep, CheckStep, Terminated

(* SocketPath is type correct in every reachable state. *)
THEOREM TypeCorrect == SafeSpec => []TypeOK
BY InitInv, StepTypeOK, PTL DEF SafeSpec

(* What the invariants below are about; clients, the accept loop and        *)
(* stuttering leave it alone.                                               *)
daemon == <<path, listening, port, created, pc, disturbed>>

(* Connections that come and go change nothing a daemon has.                *)
LEMMA ClientsLeaveDaemon ==
    ASSUME \/ \E p \in Proc : Accept(p)
           \/ \E c \in Check : \/ CheckStart(c) \/ CheckStep(c)
                               \/ CheckAnswered(c) \/ CheckCallFails(c)
           \/ Terminated
           \/ UNCHANGED vars
    PROVE  UNCHANGED daemon
BY DEF daemon, Accept, CheckStart, CheckStep, CheckConnect, CheckGivesUp,
   CheckAnswered, CheckCallFails, Terminated, vars

-----------------------------------------------------------------------------
(* What a process owns *)

(* Every step keeps the socket file, listener and port with a process that  *)
(* will remove or close them, or that could not remove its file.            *)
LEMMA StepOwned == TypeOK /\ Owned /\ [Next]_vars => Owned'
<1> SUFFICES ASSUME TypeOK, Owned, [Next]_vars PROVE Owned'
  OBVIOUS
<1> USE ProcAssumption DEF TypeOK, Owned, Bound, Goto
<1>1. ASSUME NEW p \in Proc,
             Start(p) \/ EnsureSocketDirectory(p) \/ Lstat(p) \/ Probe(p)
               \/ ProbeFails(p)
      PROVE Owned'
  BY <1>1 DEF Start, EnsureSocketDirectory, Lstat, Probe, ProbeFails
<1>2. ASSUME NEW p \in Proc,
             UnlinkStale(p) \/ Bind(p) \/ Chmod(p) \/ Listen(p)
      PROVE Owned'
  BY <1>2 DEF UnlinkStale, Bind, Chmod, Listen
<1>3. ASSUME NEW p \in Proc, SetupTcp(p) \/ CallFails(p) PROVE Owned'
  BY <1>3 DEF SetupTcp, CallFails, Starting
<1>4. ASSUME NEW p \in Proc, Stop(p) \/ Fail(p) \/ Crash(p) PROVE Owned'
  BY <1>4 DEF Stop, Fail, Crash, CloseListeners, Ended
<1>5. ASSUME NEW p \in Proc, UnlinkOwn(p) \/ UnlinkFails(p) PROVE Owned'
  BY <1>5 DEF UnlinkOwn, UnlinkFails
<1>6. CASE UNCHANGED daemon
  BY <1>6 DEF daemon
<1>7. QED
  BY <1>1, <1>2, <1>3, <1>4, <1>5, <1>6, ClientsLeaveDaemon
     DEF Next, ProcStep

(* Whatever call of whatever process fails, is refused or is stopped in     *)
(* whatever overlap, a process that ended by itself has left neither        *)
(* listener nor port, and no socket file unless the unlink() of cleanup()   *)
(* or ~Server() is the call that failed.                                    *)
THEOREM ExitsLeaveNothing == SafeSpec => []ExitLeavesNothing
<1>1. TypeOK /\ Owned => ExitLeavesNothing
  BY DEF TypeOK, Owned, Bound, ExitLeavesNothing
<1>2. QED
  BY InitInv, StepTypeOK, StepOwned, <1>1, PTL DEF SafeSpec

-----------------------------------------------------------------------------
(* Somebody's file *)

(* Every step keeps processes away from a file that is not a socket.        *)
LEMMA StepForeign == TypeOK /\ Owned /\ Foreign /\ [Next]_vars => Foreign'
<1> SUFFICES ASSUME TypeOK, Owned, Foreign, [Next]_vars PROVE Foreign'
  OBVIOUS
<1> USE ProcAssumption DEF TypeOK, Foreign, Goto, Ended
<1>1. ASSUME NEW p \in Proc,
             Start(p) \/ EnsureSocketDirectory(p) \/ Lstat(p) \/ Probe(p)
               \/ ProbeFails(p)
      PROVE Foreign'
  BY <1>1 DEF Start, EnsureSocketDirectory, Lstat, Probe, ProbeFails
<1>2. ASSUME NEW p \in Proc,
             UnlinkStale(p) \/ Bind(p) \/ Chmod(p) \/ Listen(p) \/ SetupTcp(p)
               \/ CallFails(p)
      PROVE Foreign'
  BY <1>2 DEF UnlinkStale, Bind, Chmod, Listen, SetupTcp, CallFails, Starting
<1>3. ASSUME NEW p \in Proc,
             Stop(p) \/ Fail(p) \/ Crash(p) \/ UnlinkOwn(p) \/ UnlinkFails(p)
      PROVE Foreign'
  BY <1>3 DEF Stop, Fail, Crash, UnlinkOwn, UnlinkFails
<1>4. CASE UNCHANGED daemon
  BY <1>4 DEF daemon
<1>5. QED
  BY <1>1, <1>2, <1>3, <1>4, ClientsLeaveDaemon DEF Next, ProcStep

(* No step of any process removes or replaces a file that is not a socket   *)
(* and was at the path before the processes came.                           *)
THEOREM ForeignFilesSurvive == SafeSpec => NonSocketPreserved
<1>1. TypeOK /\ Foreign /\ [Next]_vars
        => [path = RegularFile => path' = RegularFile]_vars
  <2> SUFFICES ASSUME TypeOK, Foreign, [Next]_vars, path = RegularFile
               PROVE  path' = RegularFile
    OBVIOUS
  <2>1. \A p \in Proc : pc[p] \notin {"unlink", "bind", "closed"}
    BY DEF Foreign, Ended
  <2>2. QED
    BY <2>1, ClientsLeaveDaemon
       DEF Next, ProcStep, daemon, Start, EnsureSocketDirectory, Lstat, Probe,
           ProbeFails, UnlinkStale, Bind, Chmod, Listen, SetupTcp, CallFails,
           Stop, Fail, Crash, UnlinkOwn, UnlinkFails
<1>2. SafeSpec => [](TypeOK /\ Foreign)
  BY InitInv, StepTypeOK, StepOwned, StepForeign, PTL DEF SafeSpec
<1>3. QED
  BY <1>1, <1>2, PTL DEF SafeSpec, NonSocketPreserved

-----------------------------------------------------------------------------
(* The running daemon *)

(* A step keeps a running daemon reachable, or is noted as a disturbance.   *)
(* The probe is what stops a second process: it finds a listener, so the    *)
(* process never comes to Claim the path while a daemon runs.               *)
LEMMA StepServing == TypeOK /\ Owned /\ Serving /\ [Next]_vars => Serving'
<1> SUFFICES ASSUME TypeOK, Owned, Serving, [Next]_vars,
                    disturbed' \subseteq {"call"}
             PROVE  Serving'
  BY DEF Serving
<1>d. ASSUME \E x \in {"overlap", "probe"} : x \in disturbed' PROVE FALSE
  BY <1>d
<1> USE ProcAssumption
        DEF TypeOK, Owned, Serving, Claims, Starting, Stopping, Bound, Goto
<1>1. ASSUME NEW p \in Proc, Start(p) PROVE Serving'
  BY <1>1 DEF Start, NoteOverlap
<1>2. ASSUME NEW p \in Proc, EnsureSocketDirectory(p) \/ Lstat(p) PROVE Serving'
  BY <1>2 DEF EnsureSocketDirectory, Lstat
<1>3. ASSUME NEW p \in Proc, Probe(p) PROVE Serving'
  BY <1>3 DEF Probe
<1>4. ASSUME NEW p \in Proc, ProbeFails(p) PROVE Serving'
  BY <1>4, <1>d DEF ProbeFails, NoteFailed
<1>5. ASSUME NEW p \in Proc, UnlinkStale(p) PROVE Serving'
  BY <1>5 DEF UnlinkStale
<1>6. ASSUME NEW p \in Proc, Bind(p) PROVE Serving'
  BY <1>6 DEF Bind
<1>7. ASSUME NEW p \in Proc, Chmod(p) PROVE Serving'
  BY <1>7 DEF Chmod
<1>8. ASSUME NEW p \in Proc, Listen(p) PROVE Serving'
  BY <1>8 DEF Listen
<1>9. ASSUME NEW p \in Proc, SetupTcp(p) PROVE Serving'
  BY <1>9 DEF SetupTcp
<1>10. ASSUME NEW p \in Proc, CallFails(p) PROVE Serving'
  BY <1>10 DEF CallFails, NoteFailed
<1>11. ASSUME NEW p \in Proc, Stop(p) PROVE Serving'
  BY <1>11 DEF Stop, NoteOverlap, CloseListeners
<1>12. ASSUME NEW p \in Proc, Fail(p) PROVE Serving'
  BY <1>12 DEF Fail, CloseListeners
<1>13. ASSUME NEW p \in Proc, UnlinkOwn(p) \/ UnlinkFails(p) PROVE Serving'
  BY <1>13 DEF UnlinkOwn, UnlinkFails
<1>14. ASSUME NEW p \in Proc, Crash(p) PROVE Serving'
  BY <1>14 DEF Crash, CloseListeners
<1>15. CASE UNCHANGED daemon
  BY <1>15 DEF daemon
<1>16. QED
  BY <1>1, <1>2, <1>3, <1>4, <1>5, <1>6, <1>7, <1>8, <1>9, <1>10, <1>11,
     <1>12, <1>13, <1>14, <1>15, ClientsLeaveDaemon DEF Next, ProcStep

(* A running daemon is reachable at its path and port as long as processes  *)
(* are started and stopped one at a time and the probe gets its socket,     *)
(* whatever else fails and crashes.                                         *)
THEOREM RunningStaysReachable == SafeSpec => []RunningIsReachable
<1>1. Serving => RunningIsReachable
  BY DEF Serving, RunningIsReachable, Reachable
<1>2. QED
  BY InitInv, StepTypeOK, StepOwned, StepServing, <1>1, PTL DEF SafeSpec

=============================================================================
