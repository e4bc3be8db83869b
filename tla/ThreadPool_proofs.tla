-------------------------- MODULE ThreadPool_proofs --------------------------
(***************************************************************************)
(* Proofs about ThreadPool, for every finite set of workers and every set  *)
(* of descriptors.  The inductive invariant is the conjunction of TypeOK,  *)
(* the ownership invariants, the wakeup invariants and Lifecycle; they are *)
(* proved in that order, each from the ones before it.                     *)
(***************************************************************************)
EXTENDS ThreadPool, FiniteSetTheorems, TLAPS

(* What leaving worker_loop() and passing through shutdown() imply.         *)
Lifecycle ==
    /\ \A w \in Worker : wpc[w] = "exited" => stop /\ queue = <<>>
    /\ joined => stop /\ \A w \in Worker : wpc[w] = "exited"
    /\ caller \in {"notify_all", "join"} => stop

-----------------------------------------------------------------------------
(* Types *)

(* The initial state is type correct. *)
LEMMA InitTypeOK == Init => TypeOK
<1> SUFFICES ASSUME Init PROVE TypeOK
  OBVIOUS
<1>1. queue \in Seq(Fd) /\ open \subseteq Fd
  BY DEF Init
<1>2. wpc \in [Worker -> WorkerState] /\ wfd \in [Worker -> Fd \union {NoFd}]
  BY DEF Init, WorkerState
<1>3. \A w \in Worker : wpc[w] = "acquire" /\ wfd[w] = NoFd
  BY DEF Init
<1>4. QED
  BY <1>1, <1>2, <1>3 DEF Init, TypeOK, CallerState

(* Every step preserves the types, and with them which thread has a         *)
(* descriptor in its hands.                                                 *)
LEMMA StepTypeOK == TypeOK /\ [Next]_vars => TypeOK'
<1> SUFFICES ASSUME TypeOK, [Next]_vars PROVE TypeOK'
  OBVIOUS
<1> USE FdAssumption DEF TypeOK, WorkerState, CallerState
<1>1. ASSUME NEW fd \in Fd, Accept(fd) PROVE TypeOK'
  BY <1>1 DEF Accept
<1>2. CASE SubmitPush
  BY <1>2 DEF SubmitPush
<1>3. CASE SubmitRejected
  BY <1>3 DEF SubmitRejected
<1>4. CASE NotifyOne
  BY <1>4 DEF NotifyOne
<1>5. CASE NotifyAll
  BY <1>5 DEF NotifyAll
<1>6. CASE Join
  BY <1>6 DEF Join
<1>7. CASE ShutdownSetStop
  BY <1>7 DEF ShutdownSetStop
<1>8. CASE Destroy
  BY <1>8 DEF Destroy
<1>9. ASSUME NEW w \in Worker, Sleep(w) \/ SpuriousWake(w) \/ Exit(w)
      PROVE TypeOK'
  BY <1>9 DEF Sleep, SpuriousWake, Exit
<1>10. ASSUME NEW w \in Worker, TakeFront(w) PROVE TypeOK'
  <2>1. Head(queue) \in Fd /\ Tail(queue) \in Seq(Fd)
    BY <1>10 DEF TakeFront
  <2>2. QED
    BY <1>10, <2>1 DEF TakeFront
<1>11. ASSUME NEW w \in Worker, Handled(w) PROVE TypeOK'
  BY <1>11 DEF Handled
<1>12. CASE UNCHANGED vars
  BY <1>12 DEF vars
<1>13. QED
  BY <1>1, <1>2, <1>3, <1>4, <1>5, <1>6, <1>7, <1>8, <1>9, <1>10, <1>11,
     <1>12 DEF Next, CallerStep, WorkerStep, Terminated

(* The pool is type correct in every reachable state. *)
THEOREM TypeCorrect == SafeSpec => []TypeOK
BY InitTypeOK, StepTypeOK, PTL DEF SafeSpec

-----------------------------------------------------------------------------
(* Ownership *)

(* FdOwnedOnce and OpenIsOwned, worker by worker and descriptor by          *)
(* descriptor.                                                              *)
Held(w, fd) == wpc[w] = "handling" /\ wfd[w] = fd

Ownership ==
    /\ NoRepeats(queue)
    /\ \A w \in Worker, fd \in Fd : Held(w, fd) => fd \notin Queued
    /\ \A v, w \in Worker, fd \in Fd : Held(v, fd) /\ Held(w, fd) => v = w
    /\ caller = "submit" =>
          cfd \notin Queued /\ \A w \in Worker : ~Held(w, cfd)
    /\ \A fd \in Fd : fd \in open <=>
          \/ fd \in Queued
          \/ \E w \in Worker : Held(w, fd)
          \/ caller = "submit" /\ cfd = fd

(* The two forms agree on type-correct states. *)
LEMMA OwnershipForm == TypeOK /\ Ownership => FdOwnedOnce /\ OpenIsOwned
<1> SUFFICES ASSUME TypeOK, Ownership PROVE FdOwnedOnce /\ OpenIsOwned
  OBVIOUS
<1>1. Queued \subseteq Fd /\ \A w \in Handling : wfd[w] \in Fd
  BY DEF TypeOK, Queued, Elements, Handling
<1>2. FdOwnedOnce
  BY <1>1 DEF FdOwnedOnce, Ownership, Held, Handling
<1>3. OpenIsOwned
  BY <1>1 DEF OpenIsOwned, Ownership, Held, Handling, TypeOK
<1>4. QED
  BY <1>2, <1>3

(* What push() and pop() do to the set of queued descriptors. *)
LEMMA ElementsAppend ==
    ASSUME NEW q \in Seq(Fd), NEW fd \in Fd
    PROVE  /\ Elements(Append(q, fd)) = Elements(q) \union {fd}
           /\ NoRepeats(q) /\ fd \notin Elements(q) => NoRepeats(Append(q, fd))
<1> DEFINE r == Append(q, fd)
<1>1. Len(r) = Len(q) + 1 /\ r[Len(q) + 1] = fd
      /\ \A i \in 1..Len(q) : r[i] = q[i]
  OBVIOUS
<1>2. Len(q) \in Nat /\ 1..(Len(q) + 1) = (1..Len(q)) \union {Len(q) + 1}
  OBVIOUS
<1> HIDE DEF r
<1>3. Elements(r) = Elements(q) \union {fd}
  BY <1>1, <1>2 DEF Elements
<1>4. NoRepeats(q) /\ fd \notin Elements(q) => NoRepeats(r)
  BY <1>1, <1>2 DEF Elements, NoRepeats
<1>5. QED
  BY <1>3, <1>4 DEF r

LEMMA ElementsTail ==
    ASSUME NEW q \in Seq(Fd), q # <<>>, NoRepeats(q)
    PROVE  /\ Elements(Tail(q)) = Elements(q) \ {Head(q)}
           /\ Head(q) \in Elements(q)
           /\ NoRepeats(Tail(q))
<1> DEFINE r == Tail(q)
<1>1. Len(q) \in Nat /\ Len(q) > 0 /\ Head(q) = q[1]
  OBVIOUS
<1>2. Len(r) = Len(q) - 1 /\ \A i \in 1..Len(r) : r[i] = q[i + 1]
  BY <1>1
<1> HIDE DEF r
<1>3. NoRepeats(r)
  BY <1>1, <1>2 DEF NoRepeats
<1>4. Head(q) \in Elements(q)
  BY <1>1 DEF Elements
<1>5. ASSUME NEW x \in Elements(r) PROVE x \in Elements(q) \ {Head(q)}
  <2>1. PICK i \in 1..Len(r) : x = r[i]
    BY DEF Elements
  <2>2. i + 1 \in 1..Len(q) /\ i + 1 # 1 /\ x = q[i + 1] /\ 1 \in 1..Len(q)
    BY <1>1, <1>2, <2>1
  <2>3. QED
    BY <1>1, <2>2 DEF Elements, NoRepeats
<1>6. ASSUME NEW x \in Elements(q) \ {Head(q)} PROVE x \in Elements(r)
  <2>1. PICK i \in 1..Len(q) : x = q[i]
    BY DEF Elements
  <2>2. i - 1 \in 1..Len(r) /\ r[i - 1] = x
    BY <1>1, <1>2, <2>1
  <2>3. QED
    BY <2>2 DEF Elements
<1>7. QED
  BY <1>3, <1>4, <1>5, <1>6 DEF r

(* Initially nothing is open and nothing is owned. *)
LEMMA InitOwnership == Init => Ownership
BY DEF Init, Ownership, Held, Queued, Elements, NoRepeats

(* Every step preserves the ownership invariants: a descriptor moves from   *)
(* the caller to the queue, from the queue to one worker, and is closed by  *)
(* whoever holds it.                                                        *)
LEMMA StepOwnership ==
    TypeOK /\ TypeOK' /\ Ownership /\ [Next]_vars => Ownership'
<1> SUFFICES ASSUME TypeOK, TypeOK', Ownership, [Next]_vars
             PROVE  Ownership'
  OBVIOUS
<1>a. queue' = queue => Queued' = Queued
  BY DEF Queued
<1>b. Queued \subseteq Fd
  BY DEF TypeOK, Queued, Elements
<1>c. ASSUME queue' = queue, open' = open, cfd' = cfd,
             (caller = "submit") <=> (caller' = "submit"),
             \A w \in Worker, fd \in Fd : Held(w, fd)' <=> Held(w, fd)
      PROVE  Ownership'
  BY <1>a, <1>c DEF Ownership, TypeOK
<1>1. ASSUME NEW fd \in Fd, Accept(fd) PROVE Ownership'
  BY <1>a, <1>1 DEF Accept, TypeOK, Ownership, Held
<1>2. CASE SubmitPush
  <2>1. queue \in Seq(Fd) /\ cfd \in Fd /\ cfd \notin Queued
    BY <1>2 DEF SubmitPush, TypeOK, Ownership
  <2>2. Queued' = Queued \union {cfd}
    BY <1>2, <2>1, ElementsAppend DEF SubmitPush, Queued
  <2>3. NoRepeats(queue)'
    BY <1>2, <2>1, ElementsAppend DEF SubmitPush, Queued, Ownership
  <2>4. QED
    BY <1>2, <2>1, <2>2, <2>3 DEF SubmitPush, Ownership, Held
<1>3. CASE SubmitRejected
  BY <1>a, <1>3 DEF SubmitRejected, TypeOK, Ownership, Held
<1>4. CASE NotifyOne
  BY <1>c, <1>4 DEF NotifyOne, TypeOK, Held
<1>5. CASE NotifyAll
  BY <1>c, <1>5 DEF NotifyAll, TypeOK, Held
<1>6. CASE Join \/ ShutdownSetStop \/ Destroy
  BY <1>c, <1>6 DEF Join, ShutdownSetStop, Destroy, Held
<1>7. ASSUME NEW w \in Worker, Sleep(w) \/ SpuriousWake(w) \/ Exit(w)
      PROVE Ownership'
  BY <1>c, <1>7 DEF Sleep, SpuriousWake, Exit, TypeOK, Held
<1>8. ASSUME NEW w \in Worker, TakeFront(w) PROVE Ownership'
  <2>1. queue \in Seq(Fd) /\ queue # <<>> /\ queue' = Tail(queue)
    BY <1>8 DEF TakeFront, TypeOK
  <2>2. /\ Queued' = Queued \ {Head(queue)}
        /\ Head(queue) \in Queued
        /\ NoRepeats(queue)'
    BY <2>1, ElementsTail DEF Queued, Ownership
  <2>3. \A v \in Worker, fd \in Fd :
           Held(v, fd)' <=> Held(v, fd) \/ (v = w /\ fd = Head(queue))
    <3>1. wpc[w] = "acquire" /\ wpc'[w] = "handling" /\ wfd'[w] = Head(queue)
      BY <1>8 DEF TakeFront, TypeOK
    <3>2. \A v \in Worker : v # w => wpc'[v] = wpc[v] /\ wfd'[v] = wfd[v]
      BY <1>8 DEF TakeFront, TypeOK
    <3>3. QED
      BY <3>1, <3>2 DEF Held
  <2>4. open' = open /\ caller' = caller /\ cfd' = cfd
    BY <1>8 DEF TakeFront
  <2>5. Head(queue) \in Fd
    BY <1>b, <2>2
  <2>6. (caller = "submit") => cfd \in Fd /\ cfd # Head(queue)
    BY <2>2 DEF TypeOK, Ownership
  <2>7. QED
    BY <2>2, <2>3, <2>4, <2>5, <2>6 DEF Ownership
<1>9. ASSUME NEW w \in Worker, Handled(w) PROVE Ownership'
  <2>1. \A v \in Worker, fd \in Fd : Held(v, fd)' <=> Held(v, fd) /\ v # w
    BY <1>9 DEF Handled, TypeOK, Held
  <2>2. wfd[w] \in Fd /\ Held(w, wfd[w])
    BY <1>9 DEF Handled, TypeOK, Held
  <2>3. /\ open' = open \ {wfd[w]} /\ caller' = caller /\ cfd' = cfd
        /\ queue' = queue
    BY <1>9 DEF Handled
  <2>4. \A fd \in Fd : Held(w, fd) => fd = wfd[w]
    BY DEF Held
  <2>5. (caller = "submit") => cfd \in Fd /\ cfd # wfd[w]
    BY <2>2 DEF TypeOK, Ownership
  <2>6. QED
    BY <1>a, <2>1, <2>2, <2>3, <2>4, <2>5 DEF Ownership
<1>10. CASE UNCHANGED vars
  BY <1>c, <1>10 DEF vars, Held
<1>11. QED
  BY <1>1, <1>2, <1>3, <1>4, <1>5, <1>6, <1>7, <1>8, <1>9, <1>10
     DEF Next, CallerStep, WorkerStep, Terminated

(* The ownership invariant holds in every reachable state. *)
LEMMA OwnershipInv == SafeSpec => []Ownership
<1>1. Init => TypeOK /\ Ownership
  BY InitTypeOK, InitOwnership
<1>2. TypeOK /\ Ownership /\ [Next]_vars => (TypeOK /\ Ownership)'
  BY StepTypeOK, StepOwnership
<1>3. QED
  BY <1>1, <1>2, PTL DEF SafeSpec

(* In every reachable state each open client descriptor has exactly one     *)
(* owner, and nothing else is owned.                                        *)
THEOREM OwnershipHolds == SafeSpec => []OwnedExactlyOnce
BY OwnershipInv, TypeCorrect, OwnershipForm, PTL DEF OwnedExactlyOnce

-----------------------------------------------------------------------------
(* Wakeups *)

(* The number of workers about to look at the queue, as one of them leaves  *)
(* that state or enters it.                                                 *)
LEMMA AcquiringSize ==
    ASSUME NEW w \in Worker
    PROVE  /\ Cardinality(Acquiring) \in Nat /\ Cardinality(Acquiring') \in Nat
           /\ Acquiring' = Acquiring => Cardinality(Acquiring') = Cardinality(Acquiring)
           /\ Acquiring' = Acquiring \ {w}
                => Cardinality(Acquiring') >= Cardinality(Acquiring) - 1
           /\ Acquiring' = Acquiring \union {w} /\ w \notin Acquiring
                => Cardinality(Acquiring') = Cardinality(Acquiring) + 1
<1>1. Acquiring \in SUBSET Worker /\ Acquiring' \in SUBSET Worker
  BY DEF Acquiring
<1>2. IsFiniteSet(Acquiring) /\ IsFiniteSet(Acquiring')
  BY <1>1, WorkerAssumption, FS_Subset
<1>3. Cardinality(Acquiring) \in Nat /\ Cardinality(Acquiring') \in Nat
  BY <1>2, FS_CardinalityType
<1>4. Cardinality(Acquiring \ {w}) >= Cardinality(Acquiring) - 1
  <2>1. Cardinality(Acquiring \ {w}) = IF w \in Acquiring
                                         THEN Cardinality(Acquiring) - 1
                                         ELSE Cardinality(Acquiring)
    BY <1>2, FS_RemoveElement, Zenon
  <2>2. QED
    BY <1>3, <2>1
<1>5. w \notin Acquiring
        => Cardinality(Acquiring \union {w}) = Cardinality(Acquiring) + 1
  BY <1>2, <1>3, FS_AddElement
<1>6. QED
  BY <1>3, <1>4, <1>5

(* Every step keeps the queue covered by wakeups. *)
LEMMA StepWakeupPending ==
    TypeOK /\ WakeupPending /\ [Next]_vars => WakeupPending'
<1> SUFFICES ASSUME TypeOK, WakeupPending, [Next]_vars, Waiting' # {}
             PROVE  Len(queue') <= Cardinality(Acquiring')
                      + (IF caller' = "notify_one" THEN 1 ELSE 0)
  BY DEF WakeupPending
<1>a. Len(queue) \in Nat
  BY DEF TypeOK
<1>b. PICK u \in Worker : wpc'[u] = "waiting"
  BY DEF Waiting
<1>c. Cardinality(Acquiring') \in Nat /\ Cardinality(Acquiring) \in Nat
  BY <1>b, AcquiringSize
<1>d. ASSUME Waiting # {}
      PROVE  Len(queue) <= Cardinality(Acquiring)
               + (IF caller = "notify_one" THEN 1 ELSE 0)
  BY <1>d DEF WakeupPending
<1>e. wpc' = wpc => Waiting' = Waiting
                    /\ Cardinality(Acquiring') = Cardinality(Acquiring)
  BY DEF Waiting, Acquiring
<1>f. ASSUME NEW w \in Worker, wpc[w] = "waiting",
             wpc' = [wpc EXCEPT ![w] = "acquire"]
      PROVE  /\ Waiting # {}
             /\ Cardinality(Acquiring') = Cardinality(Acquiring) + 1
  <2>1. Acquiring' = Acquiring \union {w} /\ w \notin Acquiring
    BY <1>f DEF Acquiring, TypeOK
  <2>2. QED
    BY <1>f, <2>1, AcquiringSize DEF Waiting
<1> DEFINE Goal == Len(queue') <= Cardinality(Acquiring')
                     + (IF caller' = "notify_one" THEN 1 ELSE 0)
<1>1. ASSUME NEW fd \in Fd, Accept(fd) PROVE Goal
  BY <1>1, <1>a, <1>c, <1>d, <1>e DEF Accept
<1>2. CASE SubmitPush
  <2>1. Len(queue') = Len(queue) + 1
    BY <1>2, FdAssumption DEF SubmitPush, TypeOK
  <2>2. QED
    BY <1>2, <1>a, <1>c, <1>d, <1>e, <2>1 DEF SubmitPush
<1>3. CASE SubmitRejected \/ Join \/ ShutdownSetStop \/ Destroy
  BY <1>3, <1>a, <1>c, <1>d, <1>e
     DEF SubmitRejected, Join, ShutdownSetStop, Destroy
<1>4. CASE NotifyOne
  <2>1. CASE \E w \in Worker : /\ wpc[w] = "waiting"
                              /\ wpc' = [wpc EXCEPT ![w] = "acquire"]
    <3>1. Waiting # {} /\ Cardinality(Acquiring') = Cardinality(Acquiring) + 1
      BY <1>f, <2>1, Zenon
    <3>2. queue' = queue /\ caller = "notify_one" /\ caller' = "idle"
      BY <1>4 DEF NotifyOne
    <3>3. QED
      BY <1>a, <1>c, <1>d, <3>1, <3>2
  <2>2. CASE (\A w \in Worker : wpc[w] # "waiting") /\ UNCHANGED wpc
    BY <1>b, <2>2
  <2>3. QED
    BY <1>4, <2>1, <2>2 DEF NotifyOne
<1>5. CASE NotifyAll
  BY <1>5, <1>b DEF NotifyAll
<1>6. ASSUME NEW w \in Worker, Sleep(w) \/ Exit(w) PROVE Goal
  <2>1. Len(queue') = 0
    BY <1>6 DEF Sleep, Exit
  <2>2. QED
    BY <1>c, <2>1
<1>7. ASSUME NEW w \in Worker, SpuriousWake(w) PROVE Goal
  <2>1. Waiting # {} /\ Cardinality(Acquiring') = Cardinality(Acquiring) + 1
    BY <1>f, <1>7, Zenon DEF SpuriousWake
  <2>2. queue' = queue /\ caller' = caller
    BY <1>7 DEF SpuriousWake
  <2>3. QED
    BY <1>a, <1>c, <1>d, <2>1, <2>2
<1>8. ASSUME NEW w \in Worker, TakeFront(w) PROVE Goal
  <2>1. Acquiring' = Acquiring \ {w} /\ Waiting' = Waiting
    BY <1>8 DEF TakeFront, Acquiring, Waiting, TypeOK
  <2>2. Len(queue') = Len(queue) - 1 /\ caller' = caller
    BY <1>8 DEF TakeFront, TypeOK
  <2>3. Cardinality(Acquiring') >= Cardinality(Acquiring) - 1
    BY <2>1, AcquiringSize
  <2>4. QED
    BY <1>a, <1>c, <1>d, <2>1, <2>2, <2>3
<1>9. ASSUME NEW w \in Worker, Handled(w) PROVE Goal
  <2>1. Acquiring' = Acquiring \union {w} /\ w \notin Acquiring
        /\ Waiting' = Waiting
    BY <1>9 DEF Handled, Acquiring, Waiting, TypeOK
  <2>2. Cardinality(Acquiring') = Cardinality(Acquiring) + 1
    BY <2>1, AcquiringSize
  <2>3. queue' = queue /\ caller' = caller
    BY <1>9 DEF Handled
  <2>4. QED
    BY <1>a, <1>c, <1>d, <2>1, <2>2, <2>3
<1>10. CASE UNCHANGED vars
  BY <1>10, <1>a, <1>c, <1>d, <1>e DEF vars
<1>11. QED
  BY <1>1, <1>2, <1>3, <1>4, <1>5, <1>6, <1>7, <1>8, <1>9, <1>10
     DEF Next, CallerStep, WorkerStep, Terminated

(* No wakeup is ever lost: while a worker sleeps, each queued connection    *)
(* has a worker about to look at the queue or a notification to come.       *)
THEOREM NoLostWakeup == SafeSpec => []WakeupPending
<1>1. Init => WakeupPending
  BY DEF Init, WakeupPending, Waiting
<1>2. QED
  BY <1>1, StepWakeupPending, TypeCorrect, PTL DEF SafeSpec

(* After notify_all() no worker is blocked in wait(), nor will be. *)
THEOREM NobodySleeps == SafeSpec => []NobodySleepsThroughShutdown
<1>1. Init => NobodySleepsThroughShutdown
  BY DEF Init, NobodySleepsThroughShutdown
<1>2. TypeOK /\ NobodySleepsThroughShutdown /\ [Next]_vars
        => NobodySleepsThroughShutdown'
  BY DEF TypeOK, NobodySleepsThroughShutdown, Waiting, vars, Next,
         CallerStep, WorkerStep, Terminated, Accept, SubmitPush,
         SubmitRejected, NotifyOne, NotifyAll, Join, ShutdownSetStop,
         Destroy, Sleep, SpuriousWake, TakeFront, Exit, Handled
<1>3. QED
  BY <1>1, <1>2, TypeCorrect, PTL DEF SafeSpec

-----------------------------------------------------------------------------
(* Shutdown *)

(* A worker leaves only when told to stop and with the queue empty, and     *)
(* nothing is queued after that.                                            *)
LEMMA LifecycleHolds == SafeSpec => []Lifecycle
<1>1. Init => Lifecycle
  BY DEF Init, Lifecycle
<1>2. TypeOK /\ Lifecycle /\ [Next]_vars => Lifecycle'
  <2> SUFFICES ASSUME TypeOK, Lifecycle, [Next]_vars PROVE Lifecycle'
    OBVIOUS
  <2>1. CASE \E fd \in Fd : Accept(fd)
    BY <2>1 DEF Accept, Lifecycle
  <2>2. CASE SubmitPush
    BY <2>2 DEF SubmitPush, Lifecycle
  <2>3. CASE SubmitRejected \/ ShutdownSetStop \/ Destroy
    BY <2>3 DEF SubmitRejected, ShutdownSetStop, Destroy, Lifecycle
  <2>4. CASE NotifyOne
    BY <2>4 DEF NotifyOne, Lifecycle, TypeOK
  <2>5. CASE NotifyAll
    BY <2>5 DEF NotifyAll, Lifecycle, TypeOK
  <2>6. CASE Join
    BY <2>6 DEF Join, Lifecycle
  <2>7. ASSUME NEW w \in Worker, WorkerStep(w) \/ SpuriousWake(w)
        PROVE  Lifecycle'
    BY <2>7 DEF WorkerStep, Sleep, SpuriousWake, TakeFront, Exit, Handled,
                Lifecycle, TypeOK
  <2>8. CASE UNCHANGED vars
    BY <2>8 DEF vars, Lifecycle
  <2>9. QED
    BY <2>1, <2>2, <2>3, <2>4, <2>5, <2>6, <2>7, <2>8
       DEF Next, CallerStep, Terminated
<1>3. QED
  BY <1>1, <1>2, TypeCorrect, PTL DEF SafeSpec

(* With all workers gone, the only descriptor that can be open is the one   *)
(* the caller is about to submit.                                           *)
LEMMA ExitedMeansDrained ==
    TypeOK /\ Ownership /\ Lifecycle /\ (\A w \in Worker : wpc[w] = "exited")
      => queue = <<>> /\ open \subseteq {cfd} /\ (caller # "submit" => open = {})
<1> SUFFICES ASSUME TypeOK, Ownership, Lifecycle,
                    \A w \in Worker : wpc[w] = "exited"
             PROVE  /\ queue = <<>>
                    /\ open \subseteq {cfd}
                    /\ caller # "submit" => open = {}
  OBVIOUS
<1>1. queue = <<>>
  BY WorkerAssumption DEF Lifecycle
<1>2. Queued = {}
  BY <1>1 DEF Queued, Elements
<1>3. \A fd \in Fd : fd \in open => caller = "submit" /\ cfd = fd
  BY <1>2 DEF Ownership, Held
<1>4. QED
  BY <1>1, <1>3 DEF TypeOK

(* When shutdown() returns, every connection ever queued has been handled   *)
(* and closed.                                                              *)
THEOREM Drained == SafeSpec => []DrainedAtJoin
<1>1. TypeOK /\ Ownership /\ Lifecycle => DrainedAtJoin
  BY ExitedMeansDrained DEF DrainedAtJoin, Lifecycle
<1>2. QED
  BY <1>1, OwnershipInv, TypeCorrect, LifecycleHolds, PTL

-----------------------------------------------------------------------------
(* Refinement *)

(* The pool implements the safety part of ConnectionService: a connection   *)
(* it has taken is served exactly once, and it reports itself stopped only  *)
(* with nothing taken left.                                                 *)
THEOREM Refinement == SafeSpec => CS!SafeSpec
<1> DEFINE Inv == TypeOK /\ Ownership /\ Lifecycle
<1>1. Init => CS!Init
  BY DEF Init, CS!Init, ConnBar, PhaseBar
<1>2. Inv /\ Inv' /\ [Next]_vars => [CS!Next]_CS!svars
  <2> SUFFICES ASSUME TypeOK, Ownership, Lifecycle, TypeOK', Ownership',
                      [Next]_vars
               PROVE  [CS!Next]_CS!svars
    OBVIOUS
  <2>0. \A fd \in Fd :
           /\ fd \notin open => ConnBar[fd] = "free"
           /\ fd \in open /\ fd = cfd => ConnBar[fd] = "offered"
           /\ fd \in open /\ fd # cfd => ConnBar[fd] = "taken"
    BY DEF ConnBar
  <2>a. ASSUME open' = open, cfd' = cfd PROVE ConnBar' = ConnBar
    BY <2>a DEF ConnBar
  <2>b. ASSUME stop' = stop, joined' = joined PROVE PhaseBar' = PhaseBar
    BY <2>b DEF PhaseBar
  <2>1. ASSUME NEW fd \in Fd, Accept(fd) PROVE CS!Offer(fd)
    <3>1. ConnBar' = [ConnBar EXCEPT ![fd] = "offered"]
      BY <2>1, FdAssumption DEF Accept, ConnBar, TypeOK
    <3>2. QED
      BY <2>1, <2>0, <2>b, <3>1 DEF Accept, CS!Offer
  <2>2. CASE SubmitPush
    <3>1. cfd \in Fd /\ cfd \in open
      BY <2>2 DEF SubmitPush, TypeOK, Ownership
    <3>2. ConnBar' = [ConnBar EXCEPT ![cfd] = "taken"]
      BY <2>2, <3>1, FdAssumption DEF SubmitPush, ConnBar, TypeOK
    <3>3. PhaseBar = "serving"
      BY <2>2 DEF SubmitPush, PhaseBar, Lifecycle
    <3>4. CS!Take(cfd)
      BY <2>2, <2>0, <2>b, <3>1, <3>2, <3>3 DEF SubmitPush, CS!Take
    <3>5. QED
      BY <3>1, <3>4 DEF CS!Next
  <2>3. CASE SubmitRejected
    <3>1. cfd \in Fd /\ cfd \in open
      BY <2>3 DEF SubmitRejected, TypeOK, Ownership
    <3>2. ConnBar' = [ConnBar EXCEPT ![cfd] = "free"]
      BY <2>3, <3>1, FdAssumption DEF SubmitRejected, ConnBar, TypeOK
    <3>3. PhaseBar # "serving"
      BY <2>3 DEF SubmitRejected, PhaseBar
    <3>4. CS!Refuse(cfd)
      BY <2>3, <2>0, <2>b, <3>1, <3>2, <3>3 DEF SubmitRejected, CS!Refuse
    <3>5. QED
      BY <3>1, <3>4 DEF CS!Next
  <2>4. ASSUME NEW w \in Worker, Handled(w) PROVE CS!Serve(wfd[w])
    <3> DEFINE fd == wfd[w]
    <3>1. fd \in Fd /\ Held(w, fd)
      BY <2>4 DEF Handled, TypeOK, Held
    <3>2. fd \in open /\ fd # cfd
      BY <3>1, FdAssumption DEF TypeOK, Ownership
    <3>3. ~joined
      BY <2>4 DEF Handled, Lifecycle
    <3>4. ConnBar' = [ConnBar EXCEPT ![fd] = "free"]
      BY <2>4, <3>1, <3>2 DEF Handled, ConnBar
    <3>5. PhaseBar # "stopped"
      BY <3>3 DEF PhaseBar
    <3>6. QED
      BY <2>4, <2>0, <2>b, <3>1, <3>2, <3>4, <3>5 DEF Handled, CS!Serve
  <2>5. CASE ShutdownSetStop
    <3>1. ~stop /\ stop' /\ ~joined /\ ~joined'
      BY <2>5 DEF ShutdownSetStop, Lifecycle, TypeOK
    <3>2. CS!BeginDrain
      BY <2>5, <2>a, <3>1 DEF ShutdownSetStop, CS!BeginDrain, PhaseBar
    <3>3. QED
      BY <3>2 DEF CS!Next
  <2>6. CASE Join
    <3>1. open = {}
      BY <2>6, ExitedMeansDrained DEF Join
    <3>2. stop
      BY <2>6 DEF Join, Lifecycle
    <3>3. CASE joined
      BY <2>6, <2>a, <3>3 DEF Join, CS!svars, PhaseBar
    <3>4. CASE ~joined
      <4>1. CS!Stop
        BY <2>0, <2>6, <2>a, <3>1, <3>2, <3>4 DEF Join, CS!Stop, PhaseBar
      <4>2. QED
        BY <4>1 DEF CS!Next
    <3>5. QED
      BY <3>3, <3>4
  <2>7. ASSUME open' = open, cfd' = cfd, stop' = stop, joined' = joined
        PROVE  UNCHANGED CS!svars
    BY <2>7, <2>a, <2>b DEF CS!svars
  <2>8. CASE NotifyOne \/ NotifyAll \/ Destroy \/ UNCHANGED vars
    BY <2>7, <2>8 DEF NotifyOne, NotifyAll, Destroy, vars
  <2>9. ASSUME NEW w \in Worker,
               Sleep(w) \/ SpuriousWake(w) \/ TakeFront(w) \/ Exit(w)
        PROVE  UNCHANGED CS!svars
    BY <2>7, <2>9 DEF Sleep, SpuriousWake, TakeFront, Exit
  <2>10. ASSUME NEW w \in Worker, Handled(w) PROVE CS!Next
    <3>1. wfd[w] \in Fd
      BY <2>10 DEF Handled, TypeOK
    <3>2. QED
      BY <2>4, <2>10, <3>1 DEF CS!Next
  <2>11. ASSUME NEW fd \in Fd, Accept(fd) PROVE CS!Next
    BY <2>1, <2>11 DEF CS!Next
  <2>12. QED
    BY <2>2, <2>3, <2>5, <2>6, <2>8, <2>9, <2>10, <2>11
       DEF Next, CallerStep, WorkerStep, Terminated
<1>3. QED
  BY <1>1, <1>2, OwnershipInv, TypeCorrect, LifecycleHolds, PTL
     DEF SafeSpec, CS!SafeSpec

=============================================================================
