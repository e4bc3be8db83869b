--------------------------- MODULE Server_proofs ---------------------------
(***************************************************************************)
(* Theorems about Server: it runs its pool and its databases as these are  *)
(* specified, so that what is proved of them holds in it; and what holds   *)
(* only of the three together.                                             *)
(***************************************************************************)
EXTENDS Server, TLAPS

PoolThm == INSTANCE ThreadPool_proofs
DbThm == INSTANCE GeoIpDatabases_proofs WITH Reader <- Worker

-----------------------------------------------------------------------------
(* The inductive invariant *)

(* In run() or cleanup(): the listeners are open and the pool exists. *)
Running == {"poll", "accept", "submit", "signal", "reload", "cleanup"}

(* The main thread's place in Server and its place in the databases. *)
Phases ==
    /\ spc \in Running \union {"init", "return", "exited"}
    /\ spc \in Running \ {"reload"} => mpc = "serving"
    /\ spc = "reload" => mpc \in {"open", "lock", "close", "assign", "describe"}
    /\ spc = "return" => mpc \in {"serving", "destroy"}
    /\ spc = "exited" <=> mpc = "gone"
    /\ mpc = "serving" => mpos = 1 /\ ~startup
    /\ spc \in Running \union {"return"} => ~startup

(* init() failed before there was a pool. *)
NoPool ==
    /\ queue = <<>> /\ open = {} /\ caller = "idle"
    /\ \A w \in Worker : wpc[w] = "acquire"

(* The main thread's place in Server and its place in the pool. *)
Calls ==
    /\ spc = "init" => NoPool
    /\ spc \in {"return", "exited"} => NoPool \/ caller = "gone"
    /\ spc \in {"poll", "accept", "signal", "reload"} => caller = "idle"
    /\ spc = "submit" => caller \in {"submit", "notify_one"}
    /\ spc = "cleanup" => caller \in {"idle", "notify_all", "join", "gone"}
    /\ spc # "cleanup" /\ caller # "gone" => ~stop
    /\ caller = "gone" \/ (caller = "idle" /\ stop) => joined

(* A worker's places in the pool, in handle_connection() and in the         *)
(* databases.                                                               *)
Handlers ==
    /\ hpc \in [Worker -> {"read", "lookup", "info", "inside", "respond"}]
    /\ \A w \in Worker : hpc[w] # "read" => wpc[w] = "handling"
    /\ \A w \in Worker : hpc[w] = "inside" <=> rpc[w] # "idle"

(* Only open listeners have backlogs. *)
Backlogs ==
    /\ listening <=> spc \in Running
    /\ backlog \in [Listener -> Nat]
    /\ ~listening => \A l \in Listener : backlog[l] = 0

(* The attempt at slot i of this reload has been made. *)
Attempted(i) == i < mpos \/ (i = mpos /\ mpc # "open")

(* What was wanted is on the disk; and unless a SIGHUP is pending it has    *)
(* been tried, or it is nothing yet, or the reload under way will try it.   *)
Signals ==
    /\ wanted \in [Db!Slot -> Nat]
    /\ \A s \in Db!Slot : wanted[s] <= diskver[s]
    /\ "HUP" \notin pending =>
          /\ spc = "init" => \A s \in Db!Slot : wanted[s] = 0
          /\ spc = "reload" =>
                \A i \in 1..3 : Attempted(i) /\ Db!Slots[i] \in Configured =>
                    tried[Db!Slots[i]].ver >= wanted[Db!Slots[i]]
          /\ spc \notin {"init", "reload"} =>
                \A s \in Configured : tried[s].ver >= wanted[s]

-----------------------------------------------------------------------------
(* The server runs its parts as they are specified *)

(* Every step of the server is a step of the pool or leaves it alone. *)
LEMMA StepIsPoolStep == [Next]_vars => [Pool!Next]_(Pool!vars)
<1> SUFFICES ASSUME [Next]_vars PROVE [Pool!Next]_(Pool!vars)
  OBVIOUS
<1> USE DEF Pool!vars, Pool!Next
<1>1. ASSUME UNCHANGED poolvars PROVE UNCHANGED Pool!vars
  BY <1>1 DEF poolvars
<1>2. ASSUME NEW fd \in Fd, Accept(fd) PROVE Pool!Next
  BY <1>2 DEF Accept
<1>3. CASE Submit
  BY <1>3 DEF Submit, Pool!CallerStep
<1>4. CASE ShutdownPool
  BY <1>4 DEF ShutdownPool, Pool!CallerStep
<1>5. ASSUME NEW w \in Worker,
             PoolWorker(w) \/ SpuriousWake(w) \/ HandleDirectly(w) \/ Respond(w)
      PROVE  Pool!Next
  BY <1>5 DEF PoolWorker, SpuriousWake, HandleDirectly, Respond, Pool!WorkerStep
<1>6. ASSUME NEW w \in Worker,
             ReadRequest(w) \/ EnterDatabases(w) \/ UseDatabases(w)
      PROVE  UNCHANGED poolvars
  BY <1>6 DEF ReadRequest, EnterDatabases, UseDatabases
<1>7. CASE \/ OpenDatabases \/ Listen \/ Poll \/ PollFails \/ NextListener
           \/ ListenersDone \/ ReadHup \/ ReadTerm \/ Reload \/ CloseListeners
           \/ DestroyDatabases
  BY <1>1, <1>7 DEF OpenDatabases, Listen, Poll, PollFails, NextListener,
        ListenersDone, ReadHup, ReadTerm, Reload, CloseListeners, DestroyDatabases
<1>8. CASE \/ \E l \in Listener : Connect(l)
           \/ \E sig \in Signal : Kill(sig)
           \/ \E s \in Configured : Replace(s)
           \/ Terminated
           \/ UNCHANGED vars
  BY <1>1, <1>8 DEF Connect, Kill, Replace, Terminated, vars
<1> QED
  BY <1>1, <1>2, <1>3, <1>4, <1>5, <1>6, <1>7, <1>8
     DEF Next, MainThread, WorkerThread

(* Every step of the server is a step of the databases or leaves them       *)
(* alone.                                                                   *)
LEMMA StepIsDbStep == [Next]_vars => [Db!Next]_(Db!vars)
<1> SUFFICES ASSUME [Next]_vars PROVE [Db!Next]_(Db!vars)
  OBVIOUS
<1> USE DEF Db!Next
<1>1. ASSUME UNCHANGED dbvars PROVE UNCHANGED Db!vars
  BY <1>1 DEF dbvars, Db!vars, Db!disk, Db!handles, Db!main, Db!reader
<1>2. CASE OpenDatabases \/ ReadHup \/ Reload
  BY <1>2 DEF OpenDatabases, ReadHup, Reload
<1>3. CASE DestroyDatabases
  BY <1>3 DEF DestroyDatabases, Db!MainStep
<1>4. ASSUME NEW s \in Configured, Replace(s) PROVE Db!Next
  BY <1>4 DEF Replace
<1>5. ASSUME NEW w \in Worker, EnterDatabases(w) \/ UseDatabases(w)
      PROVE  Db!Next
  BY <1>5 DEF EnterDatabases, UseDatabases
<1>6. ASSUME NEW w \in Worker,
             \/ PoolWorker(w) \/ SpuriousWake(w) \/ HandleDirectly(w)
             \/ ReadRequest(w) \/ Respond(w)
      PROVE  UNCHANGED dbvars
  BY <1>6 DEF PoolWorker, SpuriousWake, HandleDirectly, ReadRequest, Respond
<1>7. CASE \/ Listen \/ Poll \/ PollFails \/ (\E fd \in Fd : Accept(fd))
           \/ Submit \/ NextListener \/ ListenersDone \/ ReadTerm
           \/ ShutdownPool \/ CloseListeners
  BY <1>1, <1>7 DEF Listen, Poll, PollFails, Accept, Submit, NextListener,
        ListenersDone, ReadTerm, ShutdownPool, CloseListeners
<1>8. CASE \/ \E l \in Listener : Connect(l)
           \/ \E sig \in Signal : Kill(sig)
           \/ Terminated
           \/ UNCHANGED vars
  BY <1>1, <1>8 DEF Connect, Kill, Terminated, vars
<1> QED
  BY <1>1, <1>2, <1>3, <1>4, <1>5, <1>6, <1>7, <1>8
     DEF Next, MainThread, WorkerThread

(* The server uses its pool as ThreadPool says a caller does, and its       *)
(* databases as GeoIpDatabases says a main thread and readers do: whatever  *)
(* is proved of the two holds inside the daemon.                            *)
THEOREM PartsAreRunAsSpecified == SafeSpec => Pool!SafeSpec /\ Db!Spec
<1>1. Init => Pool!Init /\ Db!Init
  BY DEF Init
<1>2. QED
  BY <1>1, StepIsPoolStep, StepIsDbStep, PTL DEF SafeSpec, Pool!SafeSpec, Db!Spec

-----------------------------------------------------------------------------
(* What is known of the parts *)

(* The assumptions of the two components hold of the server's constants. *)
LEMMA PartsAssumptions ==
    /\ PoolThm!IsFiniteSet(Worker) /\ PoolThm!IsFiniteSet(Fd)
    /\ Worker # {} /\ NoFd \notin Fd
    /\ Configured \subseteq DbThm!Slot /\ MaxReload \in Nat /\ MaxVer \in Nat
BY ThreadAssumption, DescriptorAssumption, ConfigurationAssumption, LimitAssumption
   DEF IsFiniteSet, PoolThm!IsFiniteSet, DbThm!Slot

(* PoolThm, which has the theorems, and Pool are the same specification. *)
LEMMA SamePool == Pool!SafeSpec => PoolThm!SafeSpec
<1>1. Pool!Init => PoolThm!Init
  BY DEF Pool!Init, PoolThm!Init
<1>2. [Pool!Next]_(Pool!vars) => [PoolThm!Next]_(PoolThm!vars)
  BY Zenon DEF Pool!vars, PoolThm!vars, Pool!Next, PoolThm!Next, Pool!Accept,
     PoolThm!Accept, Pool!CallerStep, PoolThm!CallerStep, Pool!SubmitPush,
     PoolThm!SubmitPush, Pool!SubmitRejected, PoolThm!SubmitRejected,
     Pool!NotifyOne, PoolThm!NotifyOne, Pool!NotifyAll, PoolThm!NotifyAll,
     Pool!Join, PoolThm!Join, Pool!ShutdownSetStop, PoolThm!ShutdownSetStop,
     Pool!Destroy, PoolThm!Destroy, Pool!WorkerStep, PoolThm!WorkerStep,
     Pool!Sleep, PoolThm!Sleep, Pool!TakeFront, PoolThm!TakeFront, Pool!Exit,
     PoolThm!Exit, Pool!Handled, PoolThm!Handled, Pool!SpuriousWake,
     PoolThm!SpuriousWake, Pool!Terminated, PoolThm!Terminated
<1>3. QED
  BY <1>1, <1>2, PTL DEF Pool!SafeSpec, PoolThm!SafeSpec

(* Likewise DbThm and Db. *)
LEMMA SameDb == Db!Spec => DbThm!Spec
<1>1. Db!Init => DbThm!Init
  BY Zenon DEF Db!Init, DbThm!Init, Db!Slot, DbThm!Slot, Db!None, DbThm!None, Db!NoTmp,
     DbThm!NoTmp, Db!NothingSeen, DbThm!NothingSeen
<1> USE DEF Db!disk, DbThm!disk, Db!handles, DbThm!handles, Db!main, DbThm!main,
     Db!result, DbThm!result, Db!reader, DbThm!reader, Db!vars, DbThm!vars, Db!Slots,
     DbThm!Slots, Db!PastLast, DbThm!PastLast, Db!MainSlot, DbThm!MainSlot,
     Db!ReaderSlot, DbThm!ReaderSlot, Db!Slot, DbThm!Slot, Db!None, DbThm!None,
     Db!NoTmp, DbThm!NoTmp, Db!NothingSeen, DbThm!NothingSeen
<1>2. Db!MainStep => DbThm!MainStep
  BY Zenon DEF Db!MainStep, DbThm!MainStep, Db!SkipUnconfigured,
     DbThm!SkipUnconfigured, Db!OpenTmp, DbThm!OpenTmp, Db!OpenFails,
     DbThm!OpenFails, Db!LockUnique, DbThm!LockUnique, Db!CloseOld,
     DbThm!CloseOld, Db!Assign, DbThm!Assign, Db!Describe, DbThm!Describe,
     Db!AllSlotsDone, DbThm!AllSlotsDone, Db!Destroy, DbThm!Destroy
<1>3. ASSUME NEW r \in Worker, Db!ReaderStep(r) PROVE DbThm!ReaderStep(r)
  BY <1>3, Zenon DEF Db!ReaderStep, DbThm!ReaderStep, Db!Searching,
     DbThm!Searching, Db!SearchHit, DbThm!SearchHit, Db!SearchMiss,
     DbThm!SearchMiss, Db!SearchError, DbThm!SearchError, Db!SearchSkip,
     DbThm!SearchSkip, Db!Extract, DbThm!Extract, Db!EndLookup,
     DbThm!EndLookup, Db!ReadFlag, DbThm!ReadFlag, Db!ReadMetadata,
     DbThm!ReadMetadata, Db!EndInfo, DbThm!EndInfo
<1>4. ASSUME NEW r \in Worker, Db!BeginLookup(r) \/ Db!BeginInfo(r)
      PROVE  DbThm!BeginLookup(r) \/ DbThm!BeginInfo(r)
  BY <1>4, Zenon DEF Db!BeginLookup, DbThm!BeginLookup, Db!BeginInfo,
     DbThm!BeginInfo, Db!Serving, DbThm!Serving
<1>5. ASSUME NEW s \in Configured, Db!ReplaceFile(s) PROVE DbThm!ReplaceFile(s)
  BY <1>5, Zenon DEF Db!ReplaceFile, DbThm!ReplaceFile
<1>6. /\ Db!BeginReload => DbThm!BeginReload
      /\ Db!BeginDestroy => DbThm!BeginDestroy
      /\ Db!Terminated => DbThm!Terminated
      /\ UNCHANGED Db!vars => UNCHANGED DbThm!vars
  BY Zenon DEF Db!BeginReload, DbThm!BeginReload, Db!BeginDestroy,
     DbThm!BeginDestroy, Db!Terminated, DbThm!Terminated
<1> HIDE DEF Db!vars, DbThm!vars
<1>7. [Db!Next]_(Db!vars) => [DbThm!Next]_(DbThm!vars)
  BY <1>2, <1>3, <1>4, <1>5, <1>6, Zenon DEF Db!Next, DbThm!Next
<1>8. QED
  BY <1>1, <1>7, PTL DEF Db!Spec, DbThm!Spec

(* What the proofs below use of the pool and of the databases. *)
PoolInv == PoolThm!TypeOK /\ PoolThm!Ownership /\ PoolThm!Lifecycle
DbInv == DbThm!TypeOK /\ DbThm!MappedIsHeld

(* These are invariants of the server. *)
LEMMA PartsInvariants == SafeSpec => [](PoolInv /\ DbInv)
<1>1. PoolThm!SafeSpec => []PoolInv
  BY PartsAssumptions, PoolThm!TypeCorrect, PoolThm!OwnershipInv,
     PoolThm!LifecycleHolds, PTL DEF PoolInv
<1>2. DbThm!Spec => []DbInv
  BY PartsAssumptions, DbThm!TypeCorrect, DbThm!NoMappingLeaks, PTL DEF DbInv
<1>3. QED
  BY <1>1, <1>2, PartsAreRunAsSpecified, SamePool, SameDb, PTL

-----------------------------------------------------------------------------
(* The threads leave each other's state alone *)

(* No worker moves the main thread, opens a file or takes a signal. *)
LEMMA WorkerLeavesMain ==
    ASSUME NEW w \in Worker, WorkerThread(w) \/ SpuriousWake(w)
    PROVE  UNCHANGED <<spc, loop, kernel, caller, cfd, stop, joined, mpc, mpos,
                       startup, diskver, tried>>
<1>1. CASE \/ PoolWorker(w) \/ SpuriousWake(w) \/ HandleDirectly(w) \/ Respond(w)
  BY <1>1 DEF PoolWorker, SpuriousWake, HandleDirectly, Respond, dbvars,
        Pool!Sleep, Pool!TakeFront, Pool!Exit, Pool!SpuriousWake, Pool!Handled
<1>2. CASE ReadRequest(w)
  BY <1>2 DEF ReadRequest, poolvars, dbvars
<1>3. CASE EnterDatabases(w)
  BY <1>3 DEF EnterDatabases, poolvars, Db!BeginLookup, Db!BeginInfo, Db!main,
        Db!disk, Db!handles
<1>4. CASE UseDatabases(w)
  BY <1>4 DEF UseDatabases, poolvars, Db!ReaderStep, Db!Searching,
        Db!SearchHit, Db!SearchMiss, Db!SearchError, Db!SearchSkip, Db!Extract,
        Db!EndLookup, Db!ReadFlag, Db!ReadMetadata, Db!EndInfo, Db!main,
        Db!disk, Db!handles
<1> QED
  BY <1>1, <1>2, <1>3, <1>4 DEF WorkerThread

(* Neither the main thread nor a replaced file moves a reader. *)
LEMMA MainLeavesReaders ==
    ASSUME \/ Db!MainStep \/ Db!BeginReload \/ Db!BeginDestroy \/ Db!Destroy
           \/ \E s \in Configured : Db!ReplaceFile(s)
    PROVE  UNCHANGED rpc
BY DEF Db!MainStep, Db!SkipUnconfigured, Db!OpenTmp, Db!OpenFails,
       Db!LockUnique, Db!CloseOld, Db!Assign, Db!Describe, Db!AllSlotsDone,
       Db!Destroy, Db!BeginReload, Db!BeginDestroy, Db!ReplaceFile, Db!reader

-----------------------------------------------------------------------------
(* The main thread's places agree *)

(* Every step keeps the databases where the main thread's place in Server   *)
(* says they are.                                                           *)
LEMMA StepPhases == DbInv /\ Phases /\ [Next]_vars => Phases'
<1> SUFFICES ASSUME DbInv, Phases, [Next]_vars PROVE Phases'
  OBVIOUS
<1> USE DEF Phases, Running
<1>a. ASSUME UNCHANGED <<spc, mpc, mpos, startup>> PROVE Phases'
  BY <1>a
<1>b. ASSUME UNCHANGED <<mpc, mpos, startup>>, spc \in Running \ {"reload"},
             spc' \in (Running \ {"reload"}) \union {"return"}
      PROVE  Phases'
  BY <1>b
<1>c. startup \in BOOLEAN
  BY DEF DbInv, DbThm!TypeOK
<1>1. CASE OpenDatabases
  <2> USE DEF OpenDatabases
  <2>1. CASE \/ Db!SkipUnconfigured \/ Db!OpenTmp \/ Db!LockUnique \/ Db!CloseOld
             \/ Db!Assign \/ Db!Describe
    BY <1>1, <2>1 DEF Db!SkipUnconfigured, Db!OpenTmp, Db!LockUnique,
          Db!CloseOld, Db!Assign, Db!Describe
  <2>2. CASE Db!OpenFails \/ Db!AllSlotsDone \/ Db!Destroy
    BY <1>1, <1>c, <2>2 DEF Db!OpenFails, Db!AllSlotsDone, Db!Destroy
  <2> QED
    BY <1>1, <2>1, <2>2 DEF Db!MainStep
<1>2. CASE Listen
  BY <1>2 DEF Listen, dbvars
<1>3. CASE \/ Poll \/ PollFails \/ (\E fd \in Fd : Accept(fd)) \/ Submit
           \/ ListenersDone \/ ReadTerm \/ CloseListeners
  BY <1>b, <1>3 DEF Poll, PollFails, Accept, Submit, ListenersDone, ReadTerm,
        CloseListeners, dbvars
<1>4. CASE ReadHup
  BY <1>4 DEF ReadHup, Db!BeginReload
<1>5. CASE Reload
  <2> USE DEF Reload
  <2>1. CASE \/ Db!SkipUnconfigured \/ Db!OpenTmp \/ Db!LockUnique \/ Db!CloseOld
             \/ Db!Assign \/ Db!Describe
    BY <1>5, <2>1 DEF Db!SkipUnconfigured, Db!OpenTmp, Db!LockUnique,
          Db!CloseOld, Db!Assign, Db!Describe
  <2>2. CASE Db!OpenFails \/ Db!AllSlotsDone \/ Db!Destroy
    BY <1>5, <1>c, <2>2 DEF Db!OpenFails, Db!AllSlotsDone, Db!Destroy
  <2> QED
    BY <1>5, <2>1, <2>2 DEF Db!MainStep
<1>6. CASE DestroyDatabases
  BY <1>6 DEF DestroyDatabases, Db!BeginDestroy, Db!Destroy
<1>7. ASSUME NEW w \in Worker, WorkerThread(w) \/ SpuriousWake(w) PROVE Phases'
  BY <1>a, <1>7, WorkerLeavesMain
<1>8. CASE \/ NextListener \/ ShutdownPool
           \/ \E l \in Listener : Connect(l)
           \/ \E sig \in Signal : Kill(sig)
           \/ \E s \in Configured : Replace(s)
           \/ Terminated
           \/ UNCHANGED vars
  BY <1>a, <1>8 DEF NextListener, ShutdownPool, Connect, Kill, Replace,
        Db!ReplaceFile, Db!main, Terminated, vars, dbvars
<1> QED
  BY <1>1, <1>2, <1>3, <1>4, <1>5, <1>6, <1>7, <1>8 DEF Next, MainThread

(* The listeners are open, and may have backlogs, exactly in run() and      *)
(* cleanup().                                                               *)
LEMMA StepBacklogs == Phases /\ Phases' /\ Backlogs /\ [Next]_vars => Backlogs'
<1> SUFFICES ASSUME Phases, Phases', Backlogs, [Next]_vars PROVE Backlogs'
  OBVIOUS
<1> USE DEF Phases, Running, Backlogs
<1>a. ASSUME UNCHANGED kernel, spc' \in Running <=> spc \in Running
      PROVE  Backlogs'
  BY <1>a DEF kernel
<1>1. CASE \/ OpenDatabases \/ Poll \/ PollFails \/ Submit \/ NextListener
           \/ ListenersDone \/ Reload \/ ShutdownPool \/ DestroyDatabases
  BY <1>a, <1>1 DEF OpenDatabases, Poll, PollFails, Submit, NextListener,
        ListenersDone, Reload, ShutdownPool, DestroyDatabases
<1>2. CASE Listen \/ ReadHup \/ ReadTerm
  BY <1>2 DEF Listen, ReadHup, ReadTerm
<1>3. CASE CloseListeners
  BY <1>3 DEF CloseListeners
<1>4. ASSUME NEW fd \in Fd, Accept(fd) PROVE Backlogs'
  <2>1. \A l \in Listener : IF l = lpos THEN backlog[l] - 1 \in Nat
                                        ELSE backlog[l] \in Nat
    BY <1>4 DEF Accept
  <2>2. backlog' = [l \in Listener |-> IF l = lpos THEN backlog[l] - 1
                                                   ELSE backlog[l]]
    BY <1>4 DEF Accept
  <2>3. backlog' \in [Listener -> Nat]
    BY <2>1, <2>2
  <2>4. spc \in Running /\ spc' \in Running /\ listening' = listening
    BY <1>4 DEF Accept
  <2> QED
    BY <2>3, <2>4
<1>5. ASSUME NEW l \in Listener, Connect(l) PROVE Backlogs'
  BY <1>5 DEF Connect
<1>6. ASSUME NEW sig \in Signal, Kill(sig) PROVE Backlogs'
  BY <1>6 DEF Kill
<1>7. ASSUME NEW w \in Worker, WorkerThread(w) \/ SpuriousWake(w) PROVE Backlogs'
  BY <1>a, <1>7, WorkerLeavesMain
<1>8. CASE (\E s \in Configured : Replace(s)) \/ Terminated \/ UNCHANGED vars
  BY <1>a, <1>8 DEF Replace, Terminated, vars
<1> QED
  BY <1>1, <1>2, <1>3, <1>4, <1>5, <1>6, <1>7, <1>8 DEF Next, MainThread

(* Every step keeps the pool where the main thread's place in Server says   *)
(* it is.                                                                   *)
LEMMA StepCalls ==
    PoolInv /\ Phases /\ Phases' /\ Backlogs /\ Calls /\ [Next]_vars => Calls'
<1> SUFFICES ASSUME PoolInv, Phases, Phases', Backlogs, Calls, [Next]_vars
             PROVE  Calls'
  OBVIOUS
<1>t. wpc \in [Worker -> Pool!WorkerState] /\ stop \in BOOLEAN
  BY DEF PoolInv, PoolThm!TypeOK, PoolThm!WorkerState, Pool!WorkerState
<1>a. ASSUME UNCHANGED <<queue, open, caller, wpc>> PROVE NoPool' <=> NoPool
  BY <1>a DEF NoPool
<1>b. ASSUME UNCHANGED poolvars, spc' = spc PROVE Calls'
  BY <1>a, <1>b DEF Calls, poolvars
<1>1. CASE OpenDatabases \/ Reload \/ DestroyDatabases
  BY <1>1, <1>a DEF OpenDatabases, Reload, DestroyDatabases, poolvars, Calls
<1>2. CASE \/ Listen \/ Poll \/ PollFails \/ ListenersDone \/ ReadHup \/ ReadTerm
           \/ CloseListeners
  BY <1>2, <1>a DEF Listen, Poll, PollFails, ListenersDone, ReadHup, ReadTerm,
        CloseListeners, poolvars, Calls, NoPool
<1>3. ASSUME NEW fd \in Fd, Accept(fd) PROVE Calls'
  BY <1>3 DEF Accept, Pool!Accept, Calls
<1>4. CASE Submit
  BY <1>4 DEF Submit, Pool!SubmitPush, Pool!SubmitRejected, Pool!NotifyOne, Calls
<1>5. CASE ShutdownPool
  BY <1>5 DEF ShutdownPool, Pool!ShutdownSetStop, Pool!NotifyAll, Pool!Join,
        Pool!Destroy, Calls
<1>6. ASSUME NEW w \in Worker, WorkerThread(w) \/ SpuriousWake(w) PROVE Calls'
  <2>1. UNCHANGED <<spc, caller, stop, joined>>
    BY <1>6, WorkerLeavesMain
  <2>2. spc \notin Running /\ NoPool => NoPool'
    <3> SUFFICES ASSUME spc \notin Running, NoPool PROVE UNCHANGED poolvars
      BY <1>a DEF poolvars
    <3>1. ~listening /\ wpc[w] = "acquire"
      BY DEF Backlogs, NoPool
    <3>2. CASE PoolWorker(w) \/ SpuriousWake(w) \/ HandleDirectly(w) \/ Respond(w)
      BY <3>1, <3>2 DEF PoolWorker, SpuriousWake, HandleDirectly, Respond,
            Pool!SpuriousWake, Pool!Handled
    <3>3. CASE ReadRequest(w) \/ EnterDatabases(w) \/ UseDatabases(w)
      BY <3>3 DEF ReadRequest, EnterDatabases, UseDatabases
    <3> QED
      BY <1>6, <3>2, <3>3 DEF WorkerThread
  <2> QED
    BY <2>1, <2>2 DEF Calls, Running
<1>7. CASE \/ NextListener
           \/ \E l \in Listener : Connect(l)
           \/ \E sig \in Signal : Kill(sig)
           \/ \E s \in Configured : Replace(s)
           \/ Terminated
           \/ UNCHANGED vars
  BY <1>b, <1>7 DEF NextListener, Connect, Kill, Replace, Terminated, vars
<1> QED
  BY <1>1, <1>2, <1>3, <1>4, <1>5, <1>6, <1>7 DEF Next, MainThread

-----------------------------------------------------------------------------
(* The workers' places agree *)

(* Every step keeps a worker in the databases only while it handles a       *)
(* connection.                                                              *)
LEMMA StepHandlers == PoolInv /\ DbInv /\ Handlers /\ [Next]_vars => Handlers'
<1> SUFFICES ASSUME PoolInv, DbInv, Handlers, [Next]_vars PROVE Handlers'
  OBVIOUS
<1>t. wpc \in [Worker -> Pool!WorkerState] /\ rpc \in [Worker -> DbThm!ReaderState]
  BY DEF PoolInv, PoolThm!TypeOK, PoolThm!WorkerState, Pool!WorkerState, DbInv,
         DbThm!TypeOK
<1>a. ASSUME UNCHANGED <<hpc, rpc>>,
             \A w \in Worker : wpc[w] = "handling" => wpc'[w] = "handling"
      PROVE  Handlers'
  BY <1>a DEF Handlers
<1>1. CASE OpenDatabases \/ ReadHup \/ Reload \/ DestroyDatabases
  BY <1>1, <1>a, MainLeavesReaders DEF OpenDatabases, ReadHup, Reload,
        DestroyDatabases, poolvars
<1>2. CASE (\E fd \in Fd : Accept(fd)) \/ Submit \/ ShutdownPool
  <2>1. UNCHANGED <<hpc, rpc>>
    BY <1>2 DEF Accept, Submit, ShutdownPool, dbvars
  <2>2. CASE UNCHANGED wpc
    BY <1>a, <2>1, <2>2
  <2>3. CASE Pool!NotifyOne \/ Pool!NotifyAll
    BY <1>a, <1>t, <2>1, <2>3 DEF Pool!NotifyOne, Pool!NotifyAll
  <2> QED
    BY <1>2, <2>2, <2>3 DEF Accept, Submit, ShutdownPool, Pool!Accept,
          Pool!SubmitPush, Pool!SubmitRejected, Pool!ShutdownSetStop, Pool!Join,
          Pool!Destroy
<1>3. ASSUME NEW w \in Worker, PoolWorker(w) \/ SpuriousWake(w) PROVE Handlers'
  <2>1. UNCHANGED <<hpc, rpc>>
    BY <1>3 DEF PoolWorker, SpuriousWake, dbvars
  <2> QED
    BY <1>a, <1>t, <1>3, <2>1 DEF PoolWorker, SpuriousWake, Pool!Sleep,
          Pool!TakeFront, Pool!Exit, Pool!SpuriousWake
<1>4. ASSUME NEW w \in Worker, HandleDirectly(w) \/ Respond(w) PROVE Handlers'
  <2>1. UNCHANGED rpc /\ rpc[w] = "idle" /\ hpc' = [hpc EXCEPT ![w] = "read"]
    BY <1>4 DEF HandleDirectly, Respond, dbvars, Handlers
  <2>2. wpc' = [wpc EXCEPT ![w] = "acquire"]
    BY <1>4 DEF HandleDirectly, Respond, Pool!Handled
  <2> QED
    BY <1>t, <2>1, <2>2 DEF Handlers
<1>5. ASSUME NEW w \in Worker, ReadRequest(w) PROVE Handlers'
  <2>1. UNCHANGED <<wpc, rpc>> /\ wpc[w] = "handling" /\ hpc[w] = "read"
    BY <1>5 DEF ReadRequest, poolvars, dbvars
  <2>2. PICK kind \in {"lookup", "info"} : hpc' = [hpc EXCEPT ![w] = kind]
    BY <1>5 DEF ReadRequest
  <2> QED
    BY <2>1, <2>2 DEF Handlers
<1>6. ASSUME NEW w \in Worker, EnterDatabases(w) PROVE Handlers'
  <2>1. UNCHANGED wpc /\ hpc[w] \in {"lookup", "info"}
        /\ hpc' = [hpc EXCEPT ![w] = "inside"]
    BY <1>6 DEF EnterDatabases, poolvars
  <2>2. PICK to \in {"search", "has"} : rpc' = [rpc EXCEPT ![w] = to]
    BY <1>6 DEF EnterDatabases, Db!BeginLookup, Db!BeginInfo
  <2> QED
    BY <1>t, <2>1, <2>2 DEF Handlers
<1>7. ASSUME NEW w \in Worker, UseDatabases(w) PROVE Handlers'
  <2>1. UNCHANGED wpc
    BY <1>7 DEF UseDatabases, poolvars
  <2>2. rpc[w] # "idle" /\ \E to \in DbThm!ReaderState : rpc' = [rpc EXCEPT ![w] = to]
    <3>1. rpc[w] # "idle"
      BY <1>7 DEF UseDatabases, Db!ReaderStep, Db!Searching, Db!SearchHit,
            Db!SearchMiss, Db!SearchError, Db!SearchSkip, Db!Extract,
            Db!EndLookup, Db!ReadFlag, Db!ReadMetadata, Db!EndInfo
    <3>2. CASE UNCHANGED rpc
      BY <1>t, <3>1, <3>2
    <3>3. CASE \/ Db!SearchHit(w) \/ Db!Extract(w) \/ Db!EndLookup(w)
               \/ Db!ReadFlag(w) \/ Db!ReadMetadata(w) \/ Db!EndInfo(w)
      BY <3>1, <3>3 DEF Db!SearchHit, Db!Extract, Db!EndLookup, Db!ReadFlag,
            Db!ReadMetadata, Db!EndInfo, DbThm!ReaderState
    <3> QED
      BY <1>7, <3>2, <3>3 DEF UseDatabases, Db!ReaderStep, Db!SearchMiss,
            Db!SearchError, Db!SearchSkip
  <2>3. hpc' = [hpc EXCEPT ![w] = IF rpc'[w] = "idle" THEN "respond" ELSE "inside"]
    BY <1>7 DEF UseDatabases
  <2> QED
    BY <1>t, <2>1, <2>2, <2>3 DEF Handlers
<1>8. CASE \E s \in Configured : Replace(s)
  BY <1>8, <1>a, MainLeavesReaders DEF Replace, poolvars
<1>9. CASE \/ Listen \/ Poll \/ PollFails \/ NextListener \/ ListenersDone
           \/ ReadTerm \/ CloseListeners
           \/ \E l \in Listener : Connect(l)
           \/ \E sig \in Signal : Kill(sig)
           \/ Terminated
           \/ UNCHANGED vars
  BY <1>9, <1>a DEF Listen, Poll, PollFails, NextListener, ListenersDone,
        ReadTerm, CloseListeners, Connect, Kill, Terminated, vars, poolvars,
        dbvars
<1> QED
  BY <1>1, <1>2, <1>3, <1>4, <1>5, <1>6, <1>7, <1>8, <1>9
     DEF Next, MainThread, WorkerThread

-----------------------------------------------------------------------------
(* Signals *)

(* The slots are reloaded in an order that leaves none out. *)
LEMMA SlotOrder ==
    /\ \A i \in 1..3 : Db!Slots[i] \in Db!Slot
    /\ \A i, j \in 1..3 : Db!Slots[i] = Db!Slots[j] => i = j
    /\ \A s \in Db!Slot : \E i \in 1..3 : Db!Slots[i] = s
<1>1. Db!Slots[1] = "country" /\ Db!Slots[2] = "asn" /\ Db!Slots[3] = "city"
  BY DEF Db!Slots
<1>2. \A i \in 1..3 : i = 1 \/ i = 2 \/ i = 3
  OBVIOUS
<1>3. 1 \in 1..3 /\ 2 \in 1..3 /\ 3 \in 1..3
  OBVIOUS
<1> QED
  BY <1>1, <1>2, <1>3 DEF Db!Slot

(* A step of the databases' main thread in a reload tries slot mpos at the  *)
(* version now on the disk, or no slot; and what counts as attempted grows  *)
(* by that slot at most.                                                    *)
LEMMA AttemptIsFresh ==
    ASSUME DbInv, Db!MainStep, ~startup, mpc # "destroy",
           NEW i \in 1..3, Db!Slots[i] \in Configured,
           Attempted(i)' \/ (mpc' = "serving" /\ mpos = 4)
    PROVE  \/ Attempted(i) /\ tried'[Db!Slots[i]] = tried[Db!Slots[i]]
           \/ tried'[Db!Slots[i]].ver = diskver[Db!Slots[i]]
<1>t. mpos \in 1..4 /\ tried \in [Db!Slot -> [ver : 0..MaxVer, ok : BOOLEAN]]
  BY DEF DbInv, DbThm!TypeOK, DbThm!PastLast, DbThm!Slot, Db!Slot
<1> USE SlotOrder DEF Attempted, Db!MainSlot, Db!PastLast
<1>1. CASE Db!SkipUnconfigured
  BY <1>t, <1>1 DEF Db!SkipUnconfigured, Db!handles
<1>2. CASE Db!OpenTmp
  BY <1>t, <1>2 DEF Db!OpenTmp
<1>3. CASE Db!OpenFails
  BY <1>t, <1>3 DEF Db!OpenFails
<1>4. CASE Db!LockUnique \/ Db!CloseOld \/ Db!Assign \/ Db!Describe
  BY <1>t, <1>4 DEF Db!LockUnique, Db!CloseOld, Db!Assign, Db!Describe, Db!handles
<1>5. CASE Db!AllSlotsDone
  BY <1>t, <1>5 DEF Db!AllSlotsDone, Db!handles
<1> QED
  BY <1>1, <1>2, <1>3, <1>4, <1>5 DEF Db!MainStep, Db!Destroy

(* The main thread changes neither the files nor what is wanted of them. *)
LEMMA MainLeavesFiles == Db!MainStep => UNCHANGED diskver
BY DEF Db!MainStep, Db!SkipUnconfigured, Db!OpenTmp, Db!OpenFails,
       Db!LockUnique, Db!CloseOld, Db!Assign, Db!Describe, Db!AllSlotsDone,
       Db!Destroy, Db!disk

(* Every step keeps account of what the SIGHUPs asked for. *)
LEMMA StepSignals ==
    DbInv /\ DbInv' /\ Phases /\ Phases' /\ Signals /\ [Next]_vars => Signals'
<1> SUFFICES ASSUME DbInv, DbInv', Phases, Phases', Signals, [Next]_vars
             PROVE  Signals'
  OBVIOUS
<1>t. /\ diskver \in [Db!Slot -> 0..MaxVer] /\ diskver' \in [Db!Slot -> 0..MaxVer]
      /\ tried \in [Db!Slot -> [ver : 0..MaxVer, ok : BOOLEAN]]
      /\ tried' \in [Db!Slot -> [ver : 0..MaxVer, ok : BOOLEAN]]
      /\ mpos \in 1..4 /\ startup \in BOOLEAN
      /\ Configured \subseteq Db!Slot /\ MaxVer \in Nat
  BY ConfigurationAssumption, LimitAssumption
     DEF DbInv, DbThm!TypeOK, DbThm!PastLast, DbThm!Slot, Db!Slot
<1>a. ASSUME UNCHANGED <<spc, mpc, mpos, wanted, pending, diskver, tried>>
      PROVE  Signals'
  BY <1>a DEF Signals, Attempted
<1>b. ASSUME UNCHANGED <<wanted, pending, diskver, tried>>,
             spc \notin {"init", "reload"}, spc' \notin {"init", "reload"}
      PROVE  Signals'
  BY <1>b DEF Signals
<1>1. CASE OpenDatabases
  <2>1. UNCHANGED <<wanted, pending, diskver>> /\ spc = "init"
        /\ spc' \in {"init", "exited"}
    BY <1>1, MainLeavesFiles DEF OpenDatabases, kernel
  <2>2. ASSUME "HUP" \notin pending, NEW s \in Configured
        PROVE  wanted[s] = 0 /\ tried'[s].ver >= 0
    BY <1>t, <2>1, <2>2 DEF Signals
  <2> QED
    BY <1>t, <2>1, <2>2 DEF Signals
<1>2. CASE Listen
  <2>1. UNCHANGED <<wanted, pending, diskver, tried>> /\ spc = "init"
        /\ spc' \in {"poll", "return"}
    BY <1>2 DEF Listen, dbvars
  <2>2. ASSUME "HUP" \notin pending, NEW s \in Configured
        PROVE  wanted[s] = 0 /\ tried[s].ver >= 0
    BY <1>t, <2>1, <2>2 DEF Signals
  <2> QED
    BY <1>t, <2>1, <2>2 DEF Signals
<1>3. CASE \/ Poll \/ PollFails \/ (\E fd \in Fd : Accept(fd)) \/ Submit
           \/ ListenersDone \/ CloseListeners
  BY <1>b, <1>3 DEF Poll, PollFails, Accept, Submit, ListenersDone,
        CloseListeners, dbvars, kernel
<1>4. CASE ReadHup
  <2>1. UNCHANGED <<wanted, diskver, mpos>> /\ mpos = 1 /\ spc' = "reload"
        /\ mpc' = "open"
    BY <1>4 DEF ReadHup, Db!BeginReload, Db!disk, Phases, Running
  <2>2. \A i \in 1..3 : ~Attempted(i)'
    BY <2>1 DEF Attempted
  <2> QED
    BY <2>1, <2>2 DEF Signals
<1>5. CASE ReadTerm
  <2>1. UNCHANGED <<wanted, diskver, tried>> /\ spc = "signal" /\ spc' = "cleanup"
        /\ "HUP" \notin pending
    BY <1>5 DEF ReadTerm, dbvars, FirstPending
  <2> QED
    BY <2>1 DEF Signals
<1>6. CASE Reload
  <2>1. UNCHANGED <<wanted, pending, diskver>> /\ spc = "reload" /\ Db!MainStep
        /\ spc' = (IF mpc' = "serving" THEN "poll" ELSE "reload")
    BY <1>6, MainLeavesFiles DEF Reload, kernel
  <2>2. ~startup /\ mpc # "destroy" /\ mpc # "serving"
    BY <2>1 DEF Phases, Running
  <2>3. mpc' = "serving" => mpos = 4
    BY <2>1, <2>2 DEF Db!MainStep, Db!SkipUnconfigured, Db!OpenTmp, Db!OpenFails,
          Db!LockUnique, Db!CloseOld, Db!Assign, Db!Describe, Db!AllSlotsDone,
          Db!Destroy, Db!PastLast
  <2>4. ASSUME "HUP" \notin pending, NEW i \in 1..3, Db!Slots[i] \in Configured,
               Attempted(i)' \/ mpc' = "serving"
        PROVE  tried'[Db!Slots[i]].ver >= wanted[Db!Slots[i]]
    <3>1. \/ Attempted(i) /\ tried'[Db!Slots[i]] = tried[Db!Slots[i]]
          \/ tried'[Db!Slots[i]].ver = diskver[Db!Slots[i]]
      BY <2>1, <2>2, <2>3, <2>4, AttemptIsFresh
    <3>2. /\ wanted[Db!Slots[i]] \in Nat /\ diskver[Db!Slots[i]] \in Nat
          /\ wanted[Db!Slots[i]] <= diskver[Db!Slots[i]]
      BY <1>t, SlotOrder DEF Signals
    <3>3. CASE tried'[Db!Slots[i]].ver = diskver[Db!Slots[i]]
      BY <3>2, <3>3
    <3>4. CASE Attempted(i) /\ tried'[Db!Slots[i]] = tried[Db!Slots[i]]
      BY <2>1, <2>4, <3>4 DEF Signals
    <3> QED
      BY <3>1, <3>3, <3>4
  <2>5. ASSUME "HUP" \notin pending, NEW s \in Configured, mpc' = "serving"
        PROVE  tried'[s].ver >= wanted[s]
    BY <1>t, <2>4, <2>5, SlotOrder
  <2> QED
    BY <2>1, <2>4, <2>5 DEF Signals
<1>7. CASE DestroyDatabases
  <2>1. UNCHANGED <<wanted, pending, diskver, tried>> /\ spc = "return"
        /\ spc' \in {"return", "exited"}
    BY <1>7 DEF DestroyDatabases, kernel, Db!BeginDestroy, Db!Destroy, Db!disk,
          Db!handles
  <2> QED
    BY <1>b, <2>1
<1>8. ASSUME NEW sig \in Signal, Kill(sig) PROVE Signals'
  <2>1. UNCHANGED <<spc, mpc, mpos, diskver, tried>>
    BY <1>8 DEF Kill, dbvars
  <2>2. CASE sig = "HUP"
    <3>1. "HUP" \in pending' /\ wanted' = diskver
      BY <1>8, <2>2 DEF Kill
    <3> QED
      BY <1>t, <2>1, <3>1 DEF Signals
  <2>3. CASE sig # "HUP"
    <3>1. ("HUP" \in pending' <=> "HUP" \in pending) /\ UNCHANGED wanted
      BY <1>8, <2>3 DEF Kill
    <3> QED
      BY <2>1, <3>1 DEF Signals, Attempted
  <2> QED
    BY <2>2, <2>3
<1>9. ASSUME NEW s \in Configured, Replace(s) PROVE Signals'
  <2>1. UNCHANGED <<spc, mpc, mpos, wanted, pending, tried>>
    BY <1>9 DEF Replace, kernel, Db!ReplaceFile, Db!handles, Db!main
  <2>2. \A r \in Db!Slot : diskver[r] <= diskver'[r]
    BY <1>9, <1>t DEF Replace, Db!ReplaceFile
  <2>3. \A r \in Db!Slot : wanted[r] <= diskver'[r]
    BY <1>t, <2>2 DEF Signals
  <2> QED
    BY <2>1, <2>3 DEF Signals, Attempted
<1>10. ASSUME NEW w \in Worker, WorkerThread(w) \/ SpuriousWake(w) PROVE Signals'
  BY <1>a, <1>10, WorkerLeavesMain DEF kernel
<1>11. CASE \/ NextListener \/ ShutdownPool
            \/ \E l \in Listener : Connect(l)
            \/ Terminated
            \/ UNCHANGED vars
  BY <1>a, <1>11 DEF NextListener, ShutdownPool, Connect, Terminated, vars,
        dbvars, kernel
<1> QED
  BY <1>1, <1>2, <1>3, <1>4, <1>5, <1>6, <1>7, <1>8, <1>9, <1>10, <1>11
     DEF Next, MainThread

-----------------------------------------------------------------------------
(* The theorems *)

ServerInv == Phases /\ Backlogs /\ Calls /\ Handlers /\ Signals

(* The conjunction is an invariant of the server. *)
LEMMA ServerInvariant == SafeSpec => []ServerInv
<1>1. Init => ServerInv
  <2> SUFFICES ASSUME Init PROVE ServerInv
    OBVIOUS
  <2>1. Phases
    BY DEF Init, Db!Init, Phases, Running
  <2>2. Backlogs
    BY DEF Init, Backlogs, Running
  <2>3. Calls
    BY DEF Init, Pool!Init, Calls, NoPool
  <2>4. Handlers
    BY DEF Init, Db!Init, Handlers
  <2>5. Signals
    BY DEF Init, Db!Init, Signals
  <2> QED
    BY <2>1, <2>2, <2>3, <2>4, <2>5 DEF ServerInv
<1>2. (PoolInv /\ DbInv) /\ (PoolInv /\ DbInv)' /\ ServerInv /\ [Next]_vars
        => ServerInv'
  BY StepPhases, StepBacklogs, StepCalls, StepHandlers, StepSignals DEF ServerInv
<1>3. QED
  BY <1>1, <1>2, PartsInvariants, PTL DEF SafeSpec

(* Where there is no pool, or no longer one, no worker is in a handler. *)
LEMMA NobodyHandles ==
    ASSUME PoolInv, ServerInv, spc \in {"init", "return", "exited"}
    PROVE  /\ \A w \in Worker : hpc[w] = "read" /\ rpc[w] = "idle"
           /\ open = {} /\ queue = <<>>
<1>1. CASE NoPool
  BY <1>1 DEF NoPool, ServerInv, Handlers
<1>2. CASE caller = "gone"
  <2>1. \A w \in Worker : wpc[w] = "exited"
    BY <1>2 DEF ServerInv, Calls, PoolInv, PoolThm!Lifecycle
  <2>2. open = {} /\ queue = <<>>
    BY <1>2, <2>1, PartsAssumptions, PoolThm!ExitedMeansDrained DEF PoolInv
  <2> QED
    BY <2>1, <2>2 DEF ServerInv, Handlers
<1> QED
  BY <1>1, <1>2 DEF ServerInv, Calls

(* By the time the databases are destroyed, whether after cleanup() or      *)
(* because init() failed, no worker is in handle_connection(), and none     *)
(* will be.                                                                 *)
THEOREM ReadersAreGone == SafeSpec => []DatabasesOutliveReaders
<1>1. PoolInv /\ ServerInv => DatabasesOutliveReaders
  <2> SUFFICES ASSUME PoolInv, ServerInv,
                      mpc \in {"destroy", "gone"} \/ spc = "return"
               PROVE  \A w \in Worker : rpc[w] = "idle" /\ hpc[w] = "read"
    BY DEF DatabasesOutliveReaders
  <2>1. spc \in {"init", "return", "exited"}
    BY DEF ServerInv, Phases, Running
  <2> QED
    BY <2>1, NobodyHandles
<1>2. QED
  BY <1>1, PartsInvariants, ServerInvariant, PTL

(* A daemon that has exited has no descriptor, no mapping and no listener   *)
(* left, whichever way it went.                                             *)
THEOREM ExitsAreClean == SafeSpec => []CleanExit
<1>1. PoolInv /\ DbInv /\ ServerInv => CleanExit
  <2> SUFFICES ASSUME PoolInv, DbInv, ServerInv, spc = "exited"
               PROVE  /\ open = {} /\ queue = <<>>
                      /\ \A s \in Db!Slot : mapped[s] = {}
                      /\ ~listening /\ \A l \in Listener : backlog[l] = 0
    BY DEF CleanExit
  <2>1. open = {} /\ queue = <<>>
    BY NobodyHandles
  <2>2. mpc = "gone"
    BY DEF ServerInv, Phases
  <2>3. \A s \in Db!Slot : mapped[s] = {}
    BY <2>2 DEF DbInv, DbThm!MappedIsHeld, DbThm!Slot, Db!Slot
  <2>4. ~listening /\ \A l \in Listener : backlog[l] = 0
    BY DEF ServerInv, Backlogs, Running
  <2> QED
    BY <2>1, <2>3, <2>4
<1>2. QED
  BY <1>1, PartsInvariants, ServerInvariant, PTL

(* No SIGHUP is lost, however signals, replacements and reloads interleave. *)
THEOREM HupsAreCovered == SafeSpec => []HupCovered
<1>1. ServerInv => HupCovered
  BY DEF ServerInv, Signals, HupCovered
<1>2. QED
  BY <1>1, ServerInvariant, PTL

(* In the running daemon every client descriptor has exactly one owner, and *)
(* no lookup reads through an unmapped file or mixes two states of the      *)
(* databases, though Server decides when connections come, when a reload    *)
(* begins and when the parts are destroyed.                                 *)
THEOREM DaemonInheritsSafety ==
    SafeSpec => [](/\ Pool!OwnedExactlyOnce
                   /\ Db!UsesOnlyMapped /\ Db!LookupSeesOneState)
<1>1. PoolThm!OwnedExactlyOnce => Pool!OwnedExactlyOnce
  BY Zenon DEF PoolThm!OwnedExactlyOnce, Pool!OwnedExactlyOnce,
     PoolThm!FdOwnedOnce, Pool!FdOwnedOnce, PoolThm!OpenIsOwned,
     Pool!OpenIsOwned, PoolThm!NoRepeats, Pool!NoRepeats, PoolThm!Queued,
     Pool!Queued, PoolThm!Elements, Pool!Elements, PoolThm!Handling,
     Pool!Handling
<1>2. DbThm!UsesOnlyMapped => Db!UsesOnlyMapped
  BY Zenon DEF DbThm!UsesOnlyMapped, Db!UsesOnlyMapped, DbThm!ReaderSlot,
     Db!ReaderSlot, DbThm!Slots, Db!Slots, DbThm!Slot, Db!Slot
<1>3. DbThm!LookupSeesOneState => Db!LookupSeesOneState
  BY Zenon DEF DbThm!LookupSeesOneState, Db!LookupSeesOneState, DbThm!None,
     Db!None, DbThm!Slot, Db!Slot
<1>4. PoolThm!SafeSpec => []PoolThm!OwnedExactlyOnce
  BY PartsAssumptions, PoolThm!OwnershipHolds, PTL
<1>5. DbThm!Spec => [](DbThm!UsesOnlyMapped /\ DbThm!LookupSeesOneState)
  BY PartsAssumptions, DbThm!NoUseAfterUnmap, DbThm!LookupsAreAtomic, PTL
<1>6. QED
  BY <1>1, <1>2, <1>3, <1>4, <1>5, PartsAreRunAsSpecified, SamePool, SameDb, PTL

(* The daemon as a whole keeps the promise of ConnectionService: whatever   *)
(* signals, reloads and full backlogs do to the accept loop, a connection   *)
(* that was taken is served and closed once, and the pool is not joined     *)
(* before nothing taken is left.                                            *)
THEOREM DaemonImplementsService == SafeSpec => Pool!CS!SafeSpec
<1>1. PoolThm!CS!SafeSpec => Pool!CS!SafeSpec
  <2> USE DEF PoolThm!ConnBar, Pool!ConnBar, PoolThm!PhaseBar, Pool!PhaseBar
  <2>1. PoolThm!CS!Init => Pool!CS!Init
    BY Zenon DEF PoolThm!CS!Init, Pool!CS!Init
  <2>2. [PoolThm!CS!Next]_(PoolThm!CS!svars) => [Pool!CS!Next]_(Pool!CS!svars)
    BY Zenon DEF PoolThm!CS!svars, Pool!CS!svars, PoolThm!CS!Next, Pool!CS!Next,
       PoolThm!CS!Offer, Pool!CS!Offer, PoolThm!CS!Take, Pool!CS!Take,
       PoolThm!CS!Refuse, Pool!CS!Refuse, PoolThm!CS!Serve, Pool!CS!Serve,
       PoolThm!CS!BeginDrain, Pool!CS!BeginDrain, PoolThm!CS!Stop, Pool!CS!Stop
  <2>3. QED
    BY <2>1, <2>2, PTL DEF PoolThm!CS!SafeSpec, Pool!CS!SafeSpec
<1>2. PoolThm!SafeSpec => PoolThm!CS!SafeSpec
  BY PartsAssumptions, PoolThm!Refinement
<1>3. QED
  BY <1>1, <1>2, PartsAreRunAsSpecified, SamePool, PTL

(* What a SIGHUP achieves, from the signal to the lookups: when none is     *)
(* pending and no reload is under way, every configured database whose file *)
(* could be opened is served at least as new as it was on disk when the     *)
(* last SIGHUP was sent, and no database that is open is ever replaced by   *)
(* an older one.                                                            *)
THEOREM SighupReachesLookups ==
    SafeSpec => /\ []("HUP" \notin pending /\ spc \in Running \ {"reload"} =>
                        \A s \in Configured : tried[s].ok => loaded[s] >= wanted[s])
                /\ Db!NeverGoesBack
<1>1. DbThm!GoodReloadTakesEffect => Db!GoodReloadTakesEffect
  BY Zenon DEF DbThm!GoodReloadTakesEffect, Db!GoodReloadTakesEffect
<1>2. HupCovered /\ ServerInv /\ Db!GoodReloadTakesEffect =>
        ("HUP" \notin pending /\ spc \in Running \ {"reload"} =>
           \A s \in Configured : tried[s].ok => loaded[s] >= wanted[s])
  BY DEF HupCovered, ServerInv, Phases, Running, Db!GoodReloadTakesEffect
<1>3. [\A s \in DbThm!Slot : opened[s] => opened'[s] /\ loaded'[s] >= loaded[s]]_(DbThm!vars)
       => [\A s \in Db!Slot : opened[s] => opened'[s] /\ loaded'[s] >= loaded[s]]_(Db!vars)
  BY Zenon DEF DbThm!Slot, Db!Slot, DbThm!vars, Db!vars, DbThm!disk, Db!disk,
     DbThm!handles, Db!handles, DbThm!main, Db!main, DbThm!result, Db!result,
     DbThm!reader, Db!reader
<1>4. DbThm!NeverGoesBack => Db!NeverGoesBack
  BY <1>3, PTL DEF DbThm!NeverGoesBack, Db!NeverGoesBack
<1>5. DbThm!Spec => []DbThm!GoodReloadTakesEffect /\ DbThm!NeverGoesBack
  BY PartsAssumptions, DbThm!ReloadTakesEffect, DbThm!SlotsNeverGoBack, PTL
<1>6. QED
  BY <1>1, <1>2, <1>4, <1>5, HupsAreCovered, ServerInvariant,
     PartsAreRunAsSpecified, SameDb, PTL

=============================================================================
