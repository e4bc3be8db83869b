----------------------- MODULE GeoIpDatabases_proofs -----------------------
(***************************************************************************)
(* Proofs about GeoIpDatabases, for every set of reader threads, every     *)
(* configuration and every number of reloads.                              *)
(***************************************************************************)
EXTENDS GeoIpDatabases, TLAPS

-----------------------------------------------------------------------------
(* Slots and positions *)

(* The positions 1 to 3 enumerate the slots, each once. *)
LEMMA SlotsEnumerated ==
    /\ \A i \in 1..PastLast : i < PastLast => Slots[i] \in Slot
    /\ \A i, j \in 1..PastLast :
          i < PastLast /\ j < PastLast /\ Slots[i] = Slots[j] => i = j
    /\ \A s \in Slot : \E i \in 1..PastLast : i < PastLast /\ Slots[i] = s
<1>1. Slots[1] = "country" /\ Slots[2] = "asn" /\ Slots[3] = "city"
  BY DEF Slots
<1>2. \A i \in 1..PastLast : i < PastLast => i = 1 \/ i = 2 \/ i = 3
  BY DEF PastLast
<1>3. 1 \in 1..PastLast /\ 2 \in 1..PastLast /\ 3 \in 1..PastLast
      /\ 1 < PastLast /\ 2 < PastLast /\ 3 < PastLast
  BY DEF PastLast
<1>4. QED
  BY <1>1, <1>2, <1>3 DEF Slot

-----------------------------------------------------------------------------
(* Types *)

(* The initial state is type correct. *)
LEMMA InitTypeOK == Init => TypeOK
<1> SUFFICES ASSUME Init PROVE TypeOK
  OBVIOUS
<1>1. /\ diskver \in [Slot -> 0..MaxVer]
      /\ diskok \in [Slot -> BOOLEAN]
      /\ mapped \in [Slot -> SUBSET Nat]
      /\ gen \in [Slot -> Nat]
      /\ mmdb \in [Slot -> Nat]
      /\ opened \in [Slot -> BOOLEAN]
      /\ loaded \in [Slot -> 0..MaxVer]
  BY BoundsAssumption DEF Init, None
<1>2. tried \in [Slot -> [ver : 0..MaxVer, ok : BOOLEAN]]
  BY BoundsAssumption DEF Init
<1>3. /\ writer \in BOOLEAN /\ readers \subseteq Reader /\ mpc \in MainState
      /\ startup \in BOOLEAN
  BY DEF Init, MainState
<1>4. mpos \in 1..PastLast /\ reloads \in 0..MaxReload
  BY BoundsAssumption DEF Init, PastLast
<1>5. tmp \in [gen : Nat, ver : 0..MaxVer]
  BY BoundsAssumption DEF Init, NoTmp, None
<1>6. /\ rpc \in [Reader -> ReaderState]
      /\ rpos \in [Reader -> 1..PastLast]
      /\ entry \in [Reader -> Nat]
      /\ seen \in [Reader -> [Slot -> Nat]]
      /\ rerr \in [Reader -> BOOLEAN]
      /\ rfound \in [Reader -> BOOLEAN]
      /\ rcountry \in [Reader -> {"none", "country", "city"}]
      /\ rflag \in [Reader -> BOOLEAN]
  BY DEF Init, ReaderState, PastLast, NothingSeen, None
<1>7. mpc = "open" /\ \A r \in Reader : rpc[r] = "idle"
  BY DEF Init
<1>8. QED
  BY <1>1, <1>2, <1>3, <1>4, <1>5, <1>6, <1>7 DEF TypeOK

(* A reader moves on to the next position. *)
LEMMA Advance ==
    ASSUME TypeOK, NEW r \in Reader, rpos[r] < PastLast
    PROVE  [rpos EXCEPT ![r] = @ + 1] \in [Reader -> 1..PastLast]
<1>1. rpos[r] \in 1..PastLast
  BY DEF TypeOK
<1>2. rpos[r] + 1 \in 1..PastLast
  BY <1>1 DEF PastLast
<1>3. QED
  BY <1>2 DEF TypeOK

(* Every step preserves the types. *)
LEMMA StepTypeOK == TypeOK /\ [Next]_vars => TypeOK'
<1> SUFFICES ASSUME TypeOK, [Next]_vars PROVE TypeOK'
  OBVIOUS
<1> USE DEF disk, handles, main, result, reader
<1>a. mpos < PastLast => MainSlot \in Slot
  BY SlotsEnumerated DEF TypeOK, MainSlot
<1>b. \A r \in Reader : rpos[r] < PastLast => ReaderSlot(r) \in Slot
  BY SlotsEnumerated DEF TypeOK, ReaderSlot
<1>1. ASSUME NEW s \in Configured, ReplaceFile(s) PROVE TypeOK'
  <2>1. s \in Slot
    BY ConfiguredAssumption
  <2>2. diskver' \in [Slot -> 0..MaxVer] /\ diskok' \in [Slot -> BOOLEAN]
    BY <1>1, <2>1, BoundsAssumption DEF ReplaceFile, TypeOK
  <2>3. QED
    BY <1>1, <2>2 DEF ReplaceFile, TypeOK, MainSlot
<1>2. CASE SkipUnconfigured
  BY <1>2 DEF SkipUnconfigured, TypeOK, PastLast, MainSlot
<1>3. CASE OpenTmp
  <2>1. MainSlot' = MainSlot
    BY <1>3 DEF OpenTmp, MainSlot
  <2>2. /\ gen' \in [Slot -> Nat] /\ mapped' \in [Slot -> SUBSET Nat]
        /\ tmp' \in [gen : Nat, ver : 0..MaxVer]
        /\ tried' \in [Slot -> [ver : 0..MaxVer, ok : BOOLEAN]]
    BY <1>3, <1>a DEF OpenTmp, TypeOK
  <2>3. QED
    BY <1>3, <2>1, <2>2 DEF OpenTmp, TypeOK, MainState
<1>4. CASE OpenFails
  <2>1. tried' \in [Slot -> [ver : 0..MaxVer, ok : BOOLEAN]]
    BY <1>4, <1>a DEF OpenFails, TypeOK
  <2>2. mpc' \in {"open", "destroy"} /\ mpos' \in 1..PastLast
    BY <1>4 DEF OpenFails, TypeOK, PastLast
  <2>3. QED
    BY <1>4, <2>1, <2>2 DEF OpenFails, TypeOK, MainState
<1>5. CASE LockUnique
  BY <1>5 DEF LockUnique, TypeOK, MainState, MainSlot
<1>6. CASE CloseOld
  <2>1. mapped' \in [Slot -> SUBSET Nat] /\ MainSlot' = MainSlot
    BY <1>6, <1>a DEF CloseOld, TypeOK, MainSlot
  <2>2. QED
    BY <1>6, <2>1 DEF CloseOld, TypeOK, MainState
<1>7. CASE Assign
  <2>1. /\ mmdb' \in [Slot -> Nat] /\ loaded' \in [Slot -> 0..MaxVer]
        /\ opened' \in [Slot -> BOOLEAN] /\ MainSlot' = MainSlot
        /\ tmp' \in [gen : Nat, ver : 0..MaxVer]
    BY <1>7, <1>a, BoundsAssumption DEF Assign, TypeOK, MainSlot, NoTmp, None
  <2>2. QED
    BY <1>7, <2>1 DEF Assign, TypeOK, MainState
<1>8. CASE Describe
  BY <1>8 DEF Describe, TypeOK, MainState, PastLast
<1>9. CASE AllSlotsDone
  BY <1>9 DEF AllSlotsDone, TypeOK, MainState, PastLast
<1>10. CASE BeginReload
  BY <1>10, BoundsAssumption DEF BeginReload, TypeOK, MainState
<1>11. CASE BeginDestroy
  BY <1>11 DEF BeginDestroy, TypeOK, MainState
<1>12. CASE Destroy
  BY <1>12 DEF Destroy, TypeOK, MainState
<1>13. ASSUME NEW r \in Reader, BeginLookup(r) PROVE TypeOK'
  BY <1>13 DEF BeginLookup, TypeOK, ReaderState, MainSlot
<1>14. ASSUME NEW r \in Reader, SearchHit(r) PROVE TypeOK'
  <2>1. seen' \in [Reader -> [Slot -> Nat]] /\ entry' \in [Reader -> Nat]
    BY <1>14, <1>b DEF SearchHit, Searching, TypeOK
  <2>2. QED
    BY <1>14, <2>1 DEF SearchHit, Searching, TypeOK, ReaderState, MainSlot
<1>c. \A r \in Reader : Searching(r) => seen' \in [Reader -> [Slot -> Nat]]
  BY <1>b DEF Searching, TypeOK
<1>15. ASSUME NEW r \in Reader, SearchMiss(r) PROVE TypeOK'
  <2>1. rpos' \in [Reader -> 1..PastLast]
    BY <1>15, Advance DEF SearchMiss, Searching
  <2>2. \A q \in Reader : rpc'[q] \in {"extract", "meta"} => rpos'[q] < PastLast
    BY <1>15 DEF SearchMiss, Searching, TypeOK
  <2>3. QED
    BY <1>15, <1>c, <2>1, <2>2 DEF SearchMiss, TypeOK, MainSlot
<1>16. ASSUME NEW r \in Reader, SearchError(r) PROVE TypeOK'
  <2>1. rpos' \in [Reader -> 1..PastLast]
    BY <1>16, Advance DEF SearchError, Searching
  <2>2. \A q \in Reader : rpc'[q] \in {"extract", "meta"} => rpos'[q] < PastLast
    BY <1>16 DEF SearchError, Searching, TypeOK
  <2>3. rerr' \in [Reader -> BOOLEAN]
    BY <1>16 DEF SearchError, TypeOK
  <2>4. QED
    BY <1>16, <1>c, <2>1, <2>2, <2>3 DEF SearchError, TypeOK, MainSlot
<1>17. ASSUME NEW r \in Reader, SearchSkip(r) PROVE TypeOK'
  <2>1. rpos' \in [Reader -> 1..PastLast]
    BY <1>17, Advance DEF SearchSkip
  <2>2. \A q \in Reader : rpc'[q] \in {"extract", "meta"} => rpos'[q] < PastLast
    BY <1>17 DEF SearchSkip, TypeOK
  <2>3. QED
    BY <1>17, <2>1, <2>2 DEF SearchSkip, TypeOK, MainSlot
<1>18. ASSUME NEW r \in Reader, Extract(r) PROVE TypeOK'
  <2>1. rcountry' \in [Reader -> {"none", "country", "city"}]
    BY <1>18 DEF Extract, TypeOK
  <2>2. rpos' \in [Reader -> 1..PastLast]
    BY <1>18, Advance DEF Extract, TypeOK
  <2>3. entry' \in [Reader -> Nat]
    BY <1>18 DEF Extract, TypeOK, None
  <2>4. QED
    BY <1>18, <2>1, <2>2, <2>3 DEF Extract, TypeOK, ReaderState, MainSlot
<1>19. ASSUME NEW r \in Reader, EndLookup(r) PROVE TypeOK'
  <2>1. seen' \in [Reader -> [Slot -> Nat]]
    BY <1>19 DEF EndLookup, TypeOK, NothingSeen, None
  <2>2. QED
    BY <1>19, <2>1 DEF EndLookup, TypeOK, ReaderState, MainSlot, PastLast
<1>20. ASSUME NEW r \in Reader, BeginInfo(r) PROVE TypeOK'
  BY <1>20 DEF BeginInfo, TypeOK, ReaderState, MainSlot
<1>21. ASSUME NEW r \in Reader, EndInfo(r) PROVE TypeOK'
  <2>1. rpos' \in [Reader -> 1..PastLast]
    BY <1>21 DEF EndInfo, TypeOK, PastLast
  <2>2. rpc' \in [Reader -> ReaderState]
    BY <1>21 DEF EndInfo, TypeOK, ReaderState
  <2>3. \A q \in Reader : rpc'[q] \in {"extract", "meta"} => rpos'[q] < PastLast
    BY <1>21 DEF EndInfo, TypeOK
  <2>4. QED
    BY <1>21, <2>1, <2>2, <2>3 DEF EndInfo, TypeOK, MainSlot
<1>22. ASSUME NEW r \in Reader, ReadFlag(r) PROVE TypeOK'
  <2>1. rflag' \in [Reader -> BOOLEAN]
    BY <1>22, <1>b DEF ReadFlag, TypeOK
  <2>2. QED
    BY <1>22, <2>1 DEF ReadFlag, TypeOK, ReaderState, MainSlot
<1>23. ASSUME NEW r \in Reader, ReadMetadata(r) PROVE TypeOK'
  <2>1. rpos' \in [Reader -> 1..PastLast]
    BY <1>23, Advance DEF ReadMetadata, TypeOK
  <2>2. rpc' \in [Reader -> ReaderState]
    BY <1>23 DEF ReadMetadata, TypeOK, ReaderState
  <2>3. \A q \in Reader : rpc'[q] \in {"extract", "meta"} => rpos'[q] < PastLast
    BY <1>23 DEF ReadMetadata, TypeOK
  <2>4. rflag' \in [Reader -> BOOLEAN]
    BY <1>23 DEF ReadMetadata, TypeOK
  <2>5. QED
    BY <1>23, <2>1, <2>2, <2>3, <2>4 DEF ReadMetadata, TypeOK, MainSlot
<1>24. CASE UNCHANGED vars
  BY <1>24 DEF vars, TypeOK, MainSlot
<1>25. QED
  BY <1>1, <1>2, <1>3, <1>4, <1>5, <1>6, <1>7, <1>8, <1>9, <1>10, <1>11,
     <1>12, <1>13, <1>14, <1>15, <1>16, <1>18, <1>19, <1>20, <1>22, <1>23,
     <1>24, <1>17, <1>21 DEF Next, MainStep, ReaderStep, Terminated

(* The databases are type correct in every reachable state. *)
THEOREM TypeCorrect == Spec => []TypeOK
BY InitTypeOK, StepTypeOK, PTL DEF Spec

-----------------------------------------------------------------------------
(* The lock *)

(* The lock is held exclusively in the two steps of the swap and shared in  *)
(* the body of lookup(), never both; there are readers only between startup *)
(* and destruction.                                                         *)
LockOK ==
    /\ writer <=> mpc \in {"close", "assign"}
    /\ writer => readers = {}
    /\ \A r \in Reader : r \in readers <=> rpc[r] \in {"search", "extract"}
    /\ startup \/ mpc \in {"destroy", "gone"} =>
          \A r \in Reader : rpc[r] = "idle"

(* Every step respects the lock. *)
LEMMA StepLockOK == TypeOK /\ LockOK /\ [Next]_vars => LockOK'
<1> SUFFICES ASSUME TypeOK, LockOK, [Next]_vars PROVE LockOK'
  OBVIOUS
<1> USE DEF disk, handles, main, result, reader, LockOK
<1>1. ASSUME NEW s \in Configured, ReplaceFile(s) PROVE LockOK'
  BY <1>1 DEF ReplaceFile
<1>2. CASE SkipUnconfigured \/ OpenTmp \/ Describe \/ BeginReload
  BY <1>2 DEF SkipUnconfigured, OpenTmp, Describe, BeginReload
<1>3. CASE OpenFails
  BY <1>3 DEF OpenFails
<1>4. CASE LockUnique \/ CloseOld \/ Assign
  BY <1>4 DEF LockUnique, CloseOld, Assign
<1>5. CASE AllSlotsDone
  BY <1>5 DEF AllSlotsDone, TypeOK
<1>6. CASE BeginDestroy \/ Destroy
  BY <1>6 DEF BeginDestroy, Destroy
<1>7. ASSUME NEW r \in Reader, BeginLookup(r) PROVE LockOK'
  BY <1>7 DEF BeginLookup, Serving, TypeOK
<1>8. ASSUME NEW r \in Reader,
             SearchHit(r) \/ SearchMiss(r) \/ SearchError(r) \/ SearchSkip(r)
      PROVE LockOK'
  <2>1. /\ UNCHANGED <<writer, readers, mpc, startup>>
        /\ rpc[r] = "search" /\ rpc'[r] \in {"search", "extract"}
        /\ \A q \in Reader : q # r => rpc'[q] = rpc[q]
    BY <1>8 DEF SearchHit, SearchMiss, SearchError, SearchSkip, Searching, TypeOK
  <2>2. QED
    BY <2>1
<1>9. ASSUME NEW r \in Reader, Extract(r) \/ EndLookup(r) PROVE LockOK'
  <2>1. CASE Extract(r)
    BY <2>1 DEF Extract, TypeOK
  <2>2. CASE EndLookup(r)
    BY <2>2 DEF EndLookup, TypeOK
  <2>3. QED
    BY <1>9, <2>1, <2>2
<1>10. ASSUME NEW r \in Reader, BeginInfo(r) PROVE LockOK'
  BY <1>10 DEF BeginInfo, Serving, TypeOK
<1>11. ASSUME NEW r \in Reader, ReadFlag(r) \/ ReadMetadata(r) \/ EndInfo(r)
       PROVE LockOK'
  <2>1. /\ UNCHANGED <<writer, readers, mpc, startup>>
        /\ rpc[r] \in {"has", "meta"} /\ rpc'[r] \in {"has", "meta", "idle"}
        /\ \A q \in Reader : q # r => rpc'[q] = rpc[q]
    BY <1>11 DEF ReadFlag, ReadMetadata, EndInfo, TypeOK
  <2>2. QED
    BY <2>1
<1>12. CASE UNCHANGED vars
  BY <1>12 DEF vars
<1>13. QED
  BY <1>1, <1>2, <1>3, <1>4, <1>5, <1>6, <1>7, <1>8, <1>9, <1>10, <1>11,
     <1>12 DEF Next, MainStep, ReaderStep, Terminated

(* The lock discipline holds in every reachable state. *)
LEMMA LockInv == Spec => []LockOK
<1>1. Init => LockOK
  BY DEF Init, LockOK
<1>2. QED
  BY <1>1, StepLockOK, TypeCorrect, PTL DEF Spec

-----------------------------------------------------------------------------
(* The mappings *)

Bringing == mpc \in {"lock", "close", "assign"}

(* MappedIsHeld, and what tells a new generation from the old one. *)
HandlesOK ==
    /\ MappedIsHeld
    /\ \A s \in Slot : mmdb[s] <= gen[s]
    /\ Bringing => tmp.gen = gen[MainSlot] /\ mmdb[MainSlot] < gen[MainSlot]

(* Every step keeps exactly the handles in use mapped. *)
LEMMA StepHandlesOK == TypeOK /\ HandlesOK /\ [Next]_vars => HandlesOK'
<1> SUFFICES ASSUME TypeOK, HandlesOK, [Next]_vars PROVE HandlesOK'
  OBVIOUS
<1>a. mpos < PastLast => MainSlot \in Slot
  BY SlotsEnumerated DEF TypeOK, MainSlot
<1>b. ASSUME UNCHANGED <<mapped, gen, mmdb, opened, mpc, mpos, tmp>>
      PROVE  HandlesOK'
  BY <1>b DEF HandlesOK, MappedIsHeld, Bringing, MainSlot
<1>c. ASSUME UNCHANGED <<mapped, gen, mmdb, opened>>, ~Bringing, ~Bringing',
             mpc # "gone", mpc' # "gone"
      PROVE  HandlesOK'
  BY <1>c DEF HandlesOK, MappedIsHeld, Bringing
<1>1. ASSUME NEW s \in Configured, ReplaceFile(s) PROVE HandlesOK'
  BY <1>1, <1>b DEF ReplaceFile, handles, main
<1>2. CASE SkipUnconfigured \/ OpenFails \/ Describe \/ AllSlotsDone
           \/ BeginReload \/ BeginDestroy
  BY <1>2, <1>c DEF SkipUnconfigured, OpenFails, Describe, AllSlotsDone,
                    BeginReload, BeginDestroy, handles, Bringing
<1>3. CASE OpenTmp
  <2>1. MainSlot \in Slot /\ MainSlot' = MainSlot /\ gen[MainSlot] \in Nat
    BY <1>3, <1>a DEF OpenTmp, MainSlot, TypeOK
  <2>2. mpc = "open" /\ mpc' = "lock" /\ opened' = opened /\ mmdb' = mmdb
        /\ tmp'.gen = gen[MainSlot] + 1
    BY <1>3 DEF OpenTmp
  <2>3. \A s \in Slot : mapped'[s] = IF s = MainSlot
                                     THEN mapped[s] \union {gen[MainSlot] + 1}
                                     ELSE mapped[s]
    BY <1>3 DEF OpenTmp, TypeOK
  <2>4. \A s \in Slot : gen'[s] = IF s = MainSlot THEN gen[s] + 1 ELSE gen[s]
    BY <1>3 DEF OpenTmp, TypeOK
  <2>5. MappedIsHeld'
    BY <2>1, <2>2, <2>3 DEF HandlesOK, MappedIsHeld
  <2>6. \A s \in Slot : mmdb[s] \in Nat /\ gen[s] \in Nat /\ mmdb[s] <= gen[s]
    BY DEF TypeOK, HandlesOK
  <2>7. QED
    BY <2>1, <2>2, <2>4, <2>5, <2>6 DEF HandlesOK, Bringing
<1>4. CASE LockUnique
  <2>1. UNCHANGED <<mapped, gen, mmdb, opened, mpos, tmp>>
        /\ mpc = "lock" /\ mpc' = "close"
    BY <1>4 DEF LockUnique, handles
  <2>2. QED
    BY <2>1 DEF HandlesOK, MappedIsHeld, Bringing, MainSlot
<1>5. CASE CloseOld
  <2>1. MainSlot \in Slot /\ MainSlot' = MainSlot
    BY <1>5, <1>a DEF CloseOld, MainSlot, TypeOK
  <2>2. UNCHANGED <<gen, mmdb, opened, tmp>> /\ mpc = "close" /\ mpc' = "assign"
    BY <1>5 DEF CloseOld
  <2>3. /\ tmp.gen = gen[MainSlot] /\ mmdb[MainSlot] < gen[MainSlot]
        /\ mmdb[MainSlot] \in Nat /\ gen[MainSlot] \in Nat
    BY <2>1, <2>2 DEF HandlesOK, Bringing, TypeOK
  <2>4. tmp.gen # mmdb[MainSlot]
    BY <2>3
  <2>5. \A s \in Slot : mapped'[s] = IF s = MainSlot /\ opened[s]
                                     THEN mapped[s] \ {mmdb[s]} ELSE mapped[s]
    BY <1>5 DEF CloseOld, TypeOK
  <2>6. MappedIsHeld'
    BY <2>1, <2>2, <2>4, <2>5 DEF HandlesOK, MappedIsHeld
  <2>7. QED
    BY <2>1, <2>2, <2>3, <2>6 DEF HandlesOK, Bringing
<1>6. CASE Assign
  <2>1. MainSlot \in Slot /\ MainSlot' = MainSlot
    BY <1>6, <1>a DEF Assign, MainSlot, TypeOK
  <2>2. UNCHANGED <<gen, mapped>> /\ mpc = "assign" /\ mpc' = "describe"
    BY <1>6 DEF Assign
  <2>3. \A s \in Slot : /\ mmdb'[s] = IF s = MainSlot THEN tmp.gen ELSE mmdb[s]
                        /\ opened'[s] <=> (s = MainSlot \/ opened[s])
    BY <1>6 DEF Assign, TypeOK
  <2>4. MappedIsHeld'
    BY <2>1, <2>2, <2>3 DEF HandlesOK, MappedIsHeld
  <2>5. \A s \in Slot : mmdb'[s] <= gen[s]
    <3>1. /\ \A s \in Slot : mmdb[s] <= gen[s] /\ gen[s] \in Nat
          /\ tmp.gen = gen[MainSlot]
      BY <2>2 DEF HandlesOK, Bringing, TypeOK
    <3>2. QED
      BY <2>1, <2>3, <3>1
  <2>6. QED
    BY <2>2, <2>4, <2>5 DEF HandlesOK, Bringing
<1>7. CASE Destroy
  <2>1. UNCHANGED <<gen, mmdb, opened>> /\ mpc = "destroy" /\ mpc' = "gone"
    BY <1>7 DEF Destroy
  <2>2. \A s \in Slot : mapped'[s] = IF opened[s] THEN mapped[s] \ {mmdb[s]}
                                                  ELSE mapped[s]
    BY <1>7 DEF Destroy
  <2>3. MappedIsHeld'
    BY <2>1, <2>2 DEF HandlesOK, MappedIsHeld
  <2>4. QED
    BY <2>1, <2>3 DEF HandlesOK, Bringing
<1>8. ASSUME NEW r \in Reader, BeginLookup(r) \/ BeginInfo(r) \/ ReaderStep(r)
      PROVE  HandlesOK'
  BY <1>8, <1>b DEF ReaderStep, BeginLookup, BeginInfo, SearchHit, SearchMiss,
       SearchError, SearchSkip, Extract, EndLookup, ReadFlag, ReadMetadata,
       EndInfo, handles, main
<1>9. CASE UNCHANGED vars
  BY <1>9, <1>b DEF vars, handles, main
<1>10. QED
  BY <1>1, <1>2, <1>3, <1>4, <1>5, <1>6, <1>7, <1>8, <1>9
     DEF Next, MainStep, Terminated

(* The handle invariant holds in every reachable state. *)
LEMMA HandlesInv == Spec => []HandlesOK
<1>1. Init => HandlesOK
  BY DEF Init, HandlesOK, MappedIsHeld, Bringing, None
<1>2. QED
  BY <1>1, StepHandlesOK, TypeCorrect, PTL DEF Spec

(* No mapping is leaked or closed twice, whichever opens fail, and none is  *)
(* left after destruction.                                                  *)
THEOREM NoMappingLeaks == Spec => []MappedIsHeld
BY HandlesInv, PTL DEF HandlesOK

-----------------------------------------------------------------------------
(* Lookups *)

(* A lookup reads through current handles only, and has seen something only *)
(* while it holds the lock.                                                 *)
LookupOK ==
    /\ \A r \in Reader : rpc[r] = "extract" =>
          opened[ReaderSlot(r)] /\ entry[r] = mmdb[ReaderSlot(r)]
    /\ \A r \in Reader, s \in Slot : seen[r][s] # None =>
          r \in readers /\ seen[r][s] = mmdb[s]

(* Every step preserves this: the swap finds no lookup to disturb. *)
LEMMA StepLookupOK == TypeOK /\ LockOK /\ LookupOK /\ [Next]_vars => LookupOK'
<1> SUFFICES ASSUME TypeOK, LockOK, LookupOK, [Next]_vars PROVE LookupOK'
  OBVIOUS
<1>a. ASSUME UNCHANGED <<mmdb, opened, readers, rpc, rpos, entry, seen>>
      PROVE  LookupOK'
  BY <1>a DEF LookupOK, ReaderSlot
<1>b. \A r \in Reader : rpos[r] < PastLast => ReaderSlot(r) \in Slot
  BY SlotsEnumerated DEF TypeOK, ReaderSlot
<1>1. ASSUME NEW s \in Configured, ReplaceFile(s) PROVE LookupOK'
  BY <1>1, <1>a DEF ReplaceFile, handles, reader
<1>2. ASSUME \/ SkipUnconfigured \/ OpenTmp \/ OpenFails \/ LockUnique
             \/ CloseOld \/ Describe \/ AllSlotsDone \/ Destroy
             \/ BeginReload \/ BeginDestroy
      PROVE  LookupOK'
  BY <1>2, <1>a DEF SkipUnconfigured, OpenTmp, OpenFails, LockUnique, CloseOld,
       Describe, AllSlotsDone, Destroy, BeginReload, BeginDestroy, handles,
       reader
<1>3. CASE Assign
  <2>1. readers = {} /\ readers' = {} /\ rpc' = rpc /\ seen' = seen
    BY <1>3 DEF Assign, LockOK, reader
  <2>2. \A r \in Reader : rpc[r] # "extract"
    BY <2>1 DEF LockOK
  <2>3. QED
    BY <2>1, <2>2 DEF LookupOK
<1>4. ASSUME NEW r \in Reader,
             SearchHit(r) \/ SearchMiss(r) \/ SearchError(r)
      PROVE  LookupOK'
  <2>1. /\ Searching(r) /\ UNCHANGED <<mmdb, opened, readers>>
        /\ rpc[r] = "search" /\ r \in readers /\ ReaderSlot(r) \in Slot
    BY <1>4, <1>b DEF SearchHit, SearchMiss, SearchError, Searching, handles,
                      LockOK
  <2>2. \A q \in Reader, s \in Slot :
           seen'[q][s] = IF q = r /\ s = ReaderSlot(r) THEN mmdb[s]
                                                       ELSE seen[q][s]
    BY <2>1 DEF Searching, TypeOK
  <2>3. \A q \in Reader : q # r =>
           rpc'[q] = rpc[q] /\ rpos'[q] = rpos[q] /\ entry'[q] = entry[q]
    BY <1>4 DEF SearchHit, SearchMiss, SearchError, TypeOK
  <2>4. rpc'[r] = "extract" => rpos'[r] = rpos[r] /\ entry'[r] = mmdb[ReaderSlot(r)]
    BY <1>4, <2>1 DEF SearchHit, SearchMiss, SearchError, TypeOK
  <2>5. opened[ReaderSlot(r)]
    BY <2>1 DEF Searching
  <2>6. QED
    BY <2>1, <2>2, <2>3, <2>4, <2>5 DEF LookupOK, ReaderSlot
<1>5. ASSUME NEW r \in Reader, BeginLookup(r) PROVE LookupOK'
  <2>1. /\ UNCHANGED <<mmdb, opened, rpos, entry, seen>>
        /\ readers' = readers \union {r}
        /\ \A q \in Reader : rpc'[q] = "extract" => rpc[q] = "extract"
    BY <1>5 DEF BeginLookup, handles, result, TypeOK
  <2>2. QED
    BY <2>1 DEF LookupOK, ReaderSlot
<1>6. ASSUME NEW r \in Reader, SearchSkip(r) \/ Extract(r) PROVE LookupOK'
  <2>1. /\ UNCHANGED <<mmdb, opened, readers, seen>>
        /\ rpc'[r] = "search"
        /\ \A q \in Reader : q # r =>
              rpc'[q] = rpc[q] /\ rpos'[q] = rpos[q] /\ entry'[q] = entry[q]
    BY <1>6 DEF SearchSkip, Extract, handles, result, TypeOK
  <2>2. QED
    BY <2>1 DEF LookupOK, ReaderSlot
<1>7. ASSUME NEW r \in Reader, EndLookup(r) PROVE LookupOK'
  <2>1. /\ UNCHANGED <<mmdb, opened, entry>> /\ readers' = readers \ {r}
        /\ rpc'[r] = "idle"
        /\ \A q \in Reader : q # r => rpc'[q] = rpc[q] /\ rpos'[q] = rpos[q]
    BY <1>7 DEF EndLookup, handles, TypeOK
  <2>2. \A s \in Slot : seen'[r][s] = None
    BY <1>7 DEF EndLookup, TypeOK, NothingSeen
  <2>3. \A q \in Reader : q # r => seen'[q] = seen[q]
    BY <1>7 DEF EndLookup, TypeOK
  <2>4. QED
    BY <2>1, <2>2, <2>3 DEF LookupOK, ReaderSlot
<1>8. ASSUME NEW r \in Reader,
             BeginInfo(r) \/ ReadFlag(r) \/ ReadMetadata(r) \/ EndInfo(r)
      PROVE  LookupOK'
  <2>1. /\ UNCHANGED <<mmdb, opened, readers, seen, entry>>
        /\ rpc'[r] # "extract"
        /\ \A q \in Reader : q # r => rpc'[q] = rpc[q] /\ rpos'[q] = rpos[q]
    BY <1>8 DEF BeginInfo, ReadFlag, ReadMetadata, EndInfo, handles, result,
                TypeOK
  <2>2. QED
    BY <2>1 DEF LookupOK, ReaderSlot
<1>9. CASE UNCHANGED vars
  BY <1>9, <1>a DEF vars, handles, reader
<1>10. QED
  BY <1>1, <1>2, <1>3, <1>4, <1>5, <1>6, <1>7, <1>8, <1>9
     DEF Next, MainStep, ReaderStep, Terminated

(* The lookup invariant holds in every reachable state. *)
LEMMA LookupInv == Spec => []LookupOK
<1>1. Init => LookupOK
  BY DEF Init, LookupOK, NothingSeen
<1>2. QED
  BY <1>1, StepLookupOK, TypeCorrect, LockInv, PTL DEF Spec

(* No lookup and no metadata read ever uses an unmapped file, whatever      *)
(* reloads happen meanwhile.                                                *)
THEOREM NoUseAfterUnmap == Spec => []UsesOnlyMapped
<1>1. TypeOK /\ LockOK /\ HandlesOK /\ LookupOK => UsesOnlyMapped
  <2> SUFFICES ASSUME TypeOK, LockOK, HandlesOK, LookupOK PROVE UsesOnlyMapped
    OBVIOUS
  <2>1. ASSUME ~writer, mpc # "gone", NEW s \in Slot, opened[s]
        PROVE  mmdb[s] \in mapped[s]
    BY <2>1 DEF HandlesOK, MappedIsHeld, LockOK
  <2>2. ASSUME NEW r \in Reader, rpc[r] = "extract"
        PROVE  entry[r] \in mapped[ReaderSlot(r)]
    <3>1. ReaderSlot(r) \in Slot
      BY <2>2, SlotsEnumerated DEF TypeOK, ReaderSlot
    <3>2. ~writer /\ mpc # "gone"
      BY <2>2 DEF LockOK
    <3>3. QED
      BY <2>1, <2>2, <3>1, <3>2 DEF LookupOK
  <2>3. QED
    BY <2>1, <2>2 DEF UsesOnlyMapped
<1>2. QED
  BY <1>1, TypeCorrect, LockInv, HandlesInv, LookupInv, PTL

(* Each lookup sees one state of the databases. *)
THEOREM LookupsAreAtomic == Spec => []LookupSeesOneState
<1>1. LookupOK => LookupSeesOneState
  BY DEF LookupOK, LookupSeesOneState
<1>2. QED
  BY <1>1, LookupInv, PTL

-----------------------------------------------------------------------------
(* Which slots are open *)

(* Startup opens the configured slots in order, so all are open once it is  *)
(* over.                                                                    *)
OpenOK ==
    /\ mpc = "describe" => opened[MainSlot]
    /\ startup /\ mpc \notin {"destroy", "gone"} =>
          \A i \in 1..PastLast :
              i < mpos /\ Slots[i] \in Configured => opened[Slots[i]]
    /\ ~startup => \A s \in Configured : opened[s]

(* Every step preserves this, and the open slots stay open. *)
LEMMA StepOpenOK == TypeOK /\ OpenOK /\ [Next]_vars => OpenOK'
<1> SUFFICES ASSUME TypeOK, OpenOK, [Next]_vars PROVE OpenOK'
  OBVIOUS
<1>a. ASSUME UNCHANGED <<opened, mpc, mpos, startup>> PROVE OpenOK'
  BY <1>a DEF OpenOK, MainSlot
<1>b. mpos \in 1..PastLast
  BY DEF TypeOK
<1>1. ASSUME NEW s \in Configured, ReplaceFile(s) PROVE OpenOK'
  BY <1>1, <1>a DEF ReplaceFile, handles, main
<1>2. CASE SkipUnconfigured \/ Describe
  <2>1. /\ UNCHANGED <<opened, startup>> /\ mpos' = mpos + 1 /\ mpc' = "open"
        /\ mpc \in {"open", "describe"}
        /\ MainSlot \in Configured => opened[MainSlot]
    BY <1>2 DEF SkipUnconfigured, Describe, handles, OpenOK
  <2>2. ASSUME startup, NEW i \in 1..PastLast, i < mpos', Slots[i] \in Configured
        PROVE  opened[Slots[i]]
    <3>1. i < mpos \/ i = mpos
      BY <1>b, <2>1, <2>2
    <3>2. QED
      BY <2>1, <2>2, <3>1 DEF OpenOK, MainSlot
  <2>3. QED
    BY <2>1, <2>2 DEF OpenOK
<1>3. CASE OpenFails
  <2>1. CASE startup
    BY <1>3, <2>1 DEF OpenFails, OpenOK
  <2>2. CASE ~startup
    BY <1>3, <2>2 DEF OpenFails, OpenOK
  <2>3. QED
    BY <2>1, <2>2
<1>4. CASE OpenTmp \/ LockUnique \/ CloseOld
  BY <1>4 DEF OpenTmp, LockUnique, CloseOld, handles, OpenOK, MainSlot
<1>5. CASE Assign
  <2>1. \A s \in Slot : opened'[s] = (s = MainSlot \/ opened[s])
    BY <1>5 DEF Assign, TypeOK
  <2>2. mpc' = "describe" /\ UNCHANGED <<mpos, startup>> /\ mpos < PastLast
        /\ mpc = "assign" /\ MainSlot \in Slot
    BY <1>5, SlotsEnumerated DEF Assign, TypeOK, MainSlot
  <2>3. MainSlot' = MainSlot
    BY <2>2 DEF MainSlot
  <2>4. \A i \in 1..PastLast : i < mpos => Slots[i] \in Slot
    BY SlotsEnumerated, <1>b, <2>2 DEF PastLast
  <2>5. QED
    BY <2>1, <2>2, <2>3, <2>4, ConfiguredAssumption DEF OpenOK
<1>6. CASE AllSlotsDone
  <2>1. UNCHANGED opened /\ mpc = "open" /\ mpos = PastLast /\ mpos' = 1
        /\ mpc' \in {"destroy", "serving"}
        /\ startup' = (startup /\ mpc' = "destroy")
    BY <1>6 DEF AllSlotsDone, handles
  <2>2. ASSUME NEW s \in Configured PROVE opened[s]
    <3>1. PICK i \in 1..PastLast : i < PastLast /\ Slots[i] = s
      BY SlotsEnumerated, ConfiguredAssumption, <2>2
    <3>2. QED
      BY <2>1, <3>1 DEF OpenOK, TypeOK
  <2>3. startup' => mpc' = "destroy"
    BY <2>1 DEF TypeOK
  <2>4. QED
    BY <2>1, <2>2, <2>3 DEF OpenOK
<1>7. CASE BeginReload \/ BeginDestroy \/ Destroy
  <2>1. UNCHANGED <<opened, mpos, startup>> /\ mpc' # "describe"
        /\ (mpc' \in {"destroy", "gone"} \/ mpc = "serving")
    BY <1>7 DEF BeginReload, BeginDestroy, Destroy, handles
  <2>2. QED
    BY <2>1 DEF OpenOK
<1>8. ASSUME NEW r \in Reader, BeginLookup(r) \/ BeginInfo(r) \/ ReaderStep(r)
      PROVE  OpenOK'
  BY <1>8, <1>a DEF ReaderStep, BeginLookup, BeginInfo, SearchHit, SearchMiss,
       SearchError, SearchSkip, Extract, EndLookup, ReadFlag, ReadMetadata,
       EndInfo, handles, main
<1>9. CASE UNCHANGED vars
  BY <1>9, <1>a DEF vars, handles, main
<1>10. QED
  BY <1>1, <1>2, <1>3, <1>4, <1>5, <1>6, <1>7, <1>8, <1>9
     DEF Next, MainStep, Terminated

(* The open slots are as described in every reachable state. *)
LEMMA OpenInv == Spec => []OpenOK
<1>1. Init => OpenOK
  BY DEF Init, OpenOK
<1>2. QED
  BY <1>1, StepOpenOK, TypeCorrect, PTL DEF Spec

(* While readers run, no step changes which slots are open: a swap replaces *)
(* the handle of a slot that is open already.                               *)
LEMMA OpenIsStable ==
    TypeOK /\ OpenOK /\ ~startup /\ [Next]_vars => opened' = opened
<1> SUFFICES ASSUME TypeOK, OpenOK, ~startup, [Next]_vars
             PROVE  opened' = opened
  OBVIOUS
<1>1. CASE Assign
  <2>1. MainSlot \in Configured
    BY <1>1 DEF Assign, TypeOK
  <2>2. opened[MainSlot] = TRUE /\ MainSlot \in Slot
    BY <2>1, ConfiguredAssumption DEF OpenOK, TypeOK
  <2>3. QED
    BY <1>1, <2>2 DEF Assign, TypeOK
<1>2. ASSUME NEW s \in Configured, ReplaceFile(s) PROVE opened' = opened
  BY <1>2 DEF ReplaceFile, handles
<1>3. CASE \/ SkipUnconfigured \/ OpenTmp \/ OpenFails \/ LockUnique
           \/ CloseOld \/ Describe \/ AllSlotsDone \/ Destroy
           \/ BeginReload \/ BeginDestroy
  BY <1>3 DEF SkipUnconfigured, OpenTmp, OpenFails, LockUnique, CloseOld,
       Describe, AllSlotsDone, Destroy, BeginReload, BeginDestroy, handles
<1>4. ASSUME NEW r \in Reader, BeginLookup(r) \/ BeginInfo(r) \/ ReaderStep(r)
      PROVE  opened' = opened
  BY <1>4 DEF ReaderStep, BeginLookup, BeginInfo, SearchHit, SearchMiss,
       SearchError, SearchSkip, Extract, EndLookup, ReadFlag, ReadMetadata,
       EndInfo, handles
<1>5. CASE UNCHANGED vars
  BY <1>5 DEF vars, handles
<1>6. QED
  BY <1>1, <1>2, <1>3, <1>4, <1>5 DEF Next, MainStep, Terminated

(* FlagAgreesWithMetadata is preserved by every step: the flag a reader has *)
(* read is about slots that no longer open or close.                        *)
LEMMA StepFlagAgrees ==
    TypeOK /\ LockOK /\ OpenOK /\ FlagAgreesWithMetadata /\ [Next]_vars
        => FlagAgreesWithMetadata'
<1> SUFFICES ASSUME TypeOK, LockOK, OpenOK, FlagAgreesWithMetadata, [Next]_vars,
                    NEW q \in Reader, rpc'[q] = "meta"
             PROVE  rflag'[q] = opened'[ReaderSlot(q)']
  BY DEF FlagAgreesWithMetadata
<1>1. ASSUME NEW r \in Reader, BeginLookup(r) \/ BeginInfo(r) \/ ReaderStep(r)
      PROVE  rflag'[q] = opened'[ReaderSlot(q)']
  <2>1. opened' = opened
    BY <1>1 DEF ReaderStep, BeginLookup, BeginInfo, SearchHit, SearchMiss,
       SearchError, SearchSkip, Extract, EndLookup, ReadFlag, ReadMetadata,
       EndInfo, handles
  <2>2. CASE q = r
    <3>1. ReadFlag(r)
      BY <1>1, <2>2 DEF ReaderStep, BeginLookup, BeginInfo, SearchHit,
         SearchMiss, Searching, SearchError, SearchSkip, Extract, EndLookup,
         ReadMetadata, EndInfo, TypeOK
    <3>2. rflag'[q] = opened[ReaderSlot(q)] /\ rpos' = rpos
      BY <3>1, <2>2 DEF ReadFlag, TypeOK
    <3>3. QED
      BY <2>1, <3>2 DEF ReaderSlot
  <2>3. CASE q # r
    <3>1. rpc'[q] = rpc[q] /\ rpos'[q] = rpos[q] /\ rflag'[q] = rflag[q]
      BY <1>1, <2>3 DEF ReaderStep, BeginLookup, BeginInfo, SearchHit,
         SearchMiss, SearchError, SearchSkip, Extract, EndLookup, ReadFlag,
         ReadMetadata, EndInfo, result, TypeOK
    <3>2. QED
      BY <2>1, <3>1 DEF FlagAgreesWithMetadata, ReaderSlot
  <2>4. QED
    BY <2>2, <2>3
<1>2. ASSUME UNCHANGED reader PROVE rflag'[q] = opened'[ReaderSlot(q)']
  <2>1. ~startup
    BY <1>2 DEF LockOK, reader
  <2>2. QED
    BY <1>2, <2>1, OpenIsStable DEF reader, FlagAgreesWithMetadata, ReaderSlot
<1>3. ASSUME ~\E r \in Reader : BeginLookup(r) \/ BeginInfo(r) \/ ReaderStep(r)
      PROVE  UNCHANGED reader
  <2>1. ASSUME NEW s \in Configured, ReplaceFile(s) PROVE UNCHANGED reader
    BY <2>1 DEF ReplaceFile
  <2>2. CASE MainStep \/ BeginReload \/ BeginDestroy
    BY <2>2 DEF MainStep, SkipUnconfigured, OpenTmp, OpenFails, LockUnique,
       CloseOld, Assign, Describe, AllSlotsDone, Destroy, BeginReload,
       BeginDestroy
  <2>3. CASE UNCHANGED vars
    BY <2>3 DEF vars
  <2>4. QED
    BY <1>3, <2>1, <2>2, <2>3 DEF Next, Terminated
<1>4. QED
  BY <1>1, <1>2, <1>3

(* /health and /metrics never report a database without its metadata. *)
THEOREM InfosAreConsistent == Spec => []FlagAgreesWithMetadata
<1>1. Init => FlagAgreesWithMetadata
  BY DEF Init, FlagAgreesWithMetadata
<1>2. QED
  BY <1>1, StepFlagAgrees, TypeCorrect, LockInv, OpenInv, PTL DEF Spec

(* No step takes the country fields from the city database when there is a  *)
(* country database.                                                        *)
LEMMA StepCountry ==
    TypeOK /\ LockOK /\ OpenOK /\ CountryIsAuthoritative /\ [Next]_vars
        => CountryIsAuthoritative'
<1> SUFFICES ASSUME TypeOK, LockOK, OpenOK, CountryIsAuthoritative, [Next]_vars,
                    "country" \in Configured, NEW q \in Reader
             PROVE  rcountry'[q] # "city"
  BY DEF CountryIsAuthoritative
<1>a. rcountry[q] # "city"
  BY DEF CountryIsAuthoritative
<1>1. ASSUME NEW r \in Reader, Extract(r) PROVE rcountry'[q] # "city"
  <2>1. opened["country"]
    BY <1>1 DEF Extract, LockOK, OpenOK
  <2>2. CASE ReaderSlot(r) = "country"
    BY <1>1, <1>a, <2>2 DEF Extract, TypeOK
  <2>3. CASE ReaderSlot(r) # "country"
    BY <1>1, <1>a, <2>1, <2>3 DEF Extract
  <2>4. QED
    BY <2>2, <2>3
<1>2. ASSUME NEW r \in Reader, EndLookup(r) PROVE rcountry'[q] # "city"
  BY <1>2, <1>a DEF EndLookup, TypeOK
<1>3. ASSUME NEW r \in Reader,
             \/ BeginLookup(r) \/ BeginInfo(r)
             \/ SearchHit(r) \/ SearchMiss(r) \/ SearchError(r) \/ SearchSkip(r)
             \/ ReadFlag(r) \/ ReadMetadata(r) \/ EndInfo(r)
      PROVE rcountry'[q] # "city"
  BY <1>3, <1>a DEF BeginLookup, BeginInfo, SearchHit, SearchMiss, SearchError,
     SearchSkip, ReadFlag, ReadMetadata, EndInfo, result
<1>4. ASSUME NEW s \in Configured, ReplaceFile(s) PROVE rcountry'[q] # "city"
  BY <1>4, <1>a DEF ReplaceFile, reader
<1>5. CASE MainStep \/ BeginReload \/ BeginDestroy
  BY <1>5, <1>a DEF MainStep, SkipUnconfigured, OpenTmp, OpenFails, LockUnique,
     CloseOld, Assign, Describe, AllSlotsDone, Destroy, BeginReload,
     BeginDestroy, reader
<1>6. CASE UNCHANGED vars
  BY <1>6, <1>a DEF vars, reader
<1>7. QED
  BY <1>1, <1>2, <1>3, <1>4, <1>5, <1>6 DEF Next, ReaderStep, Terminated

(* A configured country database is authoritative for the country fields,   *)
(* at every moment of every reload.                                         *)
THEOREM CountryWins == Spec => []CountryIsAuthoritative
<1>1. Init => CountryIsAuthoritative
  BY DEF Init, CountryIsAuthoritative
<1>2. QED
  BY <1>1, StepCountry, TypeCorrect, LockInv, OpenInv, PTL DEF Spec

-----------------------------------------------------------------------------
(* What the slots serve *)

(* A slot serves no file newer than the disk's, the handle being brought in *)
(* is between the two, and otherwise the slot serves what its last          *)
(* successful attempt opened.                                               *)
FreshOK ==
    /\ \A s \in Slot : loaded[s] <= diskver[s]
    /\ Bringing =>
          /\ loaded[MainSlot] <= tmp.ver /\ tmp.ver <= diskver[MainSlot]
          /\ tried[MainSlot].ver = tmp.ver
    /\ \A s \in Slot : tried[s].ok /\ ~(Bringing /\ s = MainSlot) =>
          loaded[s] = tried[s].ver

(* Every step preserves this. *)
LEMMA StepFreshOK == TypeOK /\ FreshOK /\ [Next]_vars => FreshOK'
<1> SUFFICES ASSUME TypeOK, FreshOK, [Next]_vars PROVE FreshOK'
  OBVIOUS
<1>a. ASSUME UNCHANGED <<diskver, loaded, tried, tmp, mpc, mpos>> PROVE FreshOK'
  BY <1>a DEF FreshOK, Bringing, MainSlot
<1>b. ASSUME UNCHANGED <<diskver, loaded, tried, tmp>>, ~Bringing, ~Bringing'
      PROVE  FreshOK'
  BY <1>b DEF FreshOK
<1>c. ASSUME NEW s \in Slot PROVE diskver[s] \in Int /\ loaded[s] \in Int
  BY BoundsAssumption DEF TypeOK
<1>d. tmp.ver \in Int
  BY BoundsAssumption DEF TypeOK
<1>1. ASSUME NEW s \in Configured, ReplaceFile(s) PROVE FreshOK'
  <2>1. /\ UNCHANGED <<loaded, tried, tmp, mpc, mpos>>
        /\ \A t \in Slot : diskver'[t] = IF t = s THEN diskver[t] + 1
                                                  ELSE diskver[t]
    BY <1>1 DEF ReplaceFile, handles, main, TypeOK
  <2>2. Bringing => MainSlot \in Slot
    BY ConfiguredAssumption DEF Bringing, TypeOK
  <2>3. \A t \in Slot : diskver[t] <= diskver'[t] /\ diskver'[t] \in Int
    BY <2>1, <1>c
  <2>4. (\A t \in Slot : loaded'[t] <= diskver'[t])
    BY <2>1, <2>3, <1>c DEF FreshOK
  <2>5. Bringing => tmp.ver <= diskver'[MainSlot]
    BY <2>2, <2>3, <1>c, <1>d DEF FreshOK
  <2>6. QED
    BY <2>1, <2>4, <2>5 DEF FreshOK, Bringing, MainSlot
<1>2. CASE OpenTmp
  <2>1. MainSlot \in Slot
    BY <1>2, ConfiguredAssumption DEF OpenTmp
  <2>2. /\ UNCHANGED <<diskver, loaded, mpos>> /\ tmp'.ver = diskver[MainSlot]
        /\ mpc = "open" /\ mpc' = "lock"
    BY <1>2 DEF OpenTmp, disk
  <2>3. /\ tried'[MainSlot].ver = diskver[MainSlot]
        /\ \A s \in Slot : s # MainSlot => tried'[s] = tried[s]
    BY <1>2, <2>1 DEF OpenTmp, TypeOK
  <2>4. MainSlot' = MainSlot
    BY <2>2 DEF MainSlot
  <2>5. QED
    BY <2>1, <2>2, <2>3, <2>4, <1>c DEF FreshOK, Bringing
<1>3. CASE OpenFails
  <2>1. MainSlot \in Slot
    BY <1>3, ConfiguredAssumption DEF OpenFails
  <2>2. /\ UNCHANGED <<diskver, loaded, tmp>> /\ ~Bringing /\ ~Bringing'
    BY <1>3 DEF OpenFails, disk, Bringing
  <2>3. /\ tried'[MainSlot].ok = FALSE
        /\ \A s \in Slot : s # MainSlot => tried'[s] = tried[s]
    BY <1>3, <2>1 DEF OpenFails, TypeOK
  <2>4. QED
    BY <2>1, <2>2, <2>3 DEF FreshOK
<1>4. CASE LockUnique \/ CloseOld
  <2>1. /\ UNCHANGED <<diskver, loaded, tried, tmp, mpos>>
        /\ Bringing /\ Bringing'
    BY <1>4 DEF LockUnique, CloseOld, disk, handles, Bringing
  <2>2. QED
    BY <2>1 DEF FreshOK, MainSlot
<1>5. CASE Assign
  <2>1. /\ UNCHANGED <<diskver, tried>> /\ Bringing /\ ~Bringing'
    BY <1>5 DEF Assign, disk, Bringing
  <2>2. MainSlot \in Slot
    BY <1>5, ConfiguredAssumption DEF Assign, TypeOK
  <2>3. /\ loaded'[MainSlot] = tmp.ver
        /\ \A s \in Slot : s # MainSlot => loaded'[s] = loaded[s]
    BY <1>5, <2>2 DEF Assign, TypeOK
  <2>4. QED
    BY <2>1, <2>2, <2>3 DEF FreshOK
<1>6. CASE SkipUnconfigured \/ Describe \/ AllSlotsDone \/ BeginReload
           \/ BeginDestroy \/ Destroy
  BY <1>6, <1>b DEF SkipUnconfigured, Describe, AllSlotsDone, BeginReload,
     BeginDestroy, Destroy, disk, handles, Bringing
<1>7. ASSUME NEW r \in Reader, BeginLookup(r) \/ BeginInfo(r) \/ ReaderStep(r)
      PROVE  FreshOK'
  BY <1>7, <1>a DEF ReaderStep, BeginLookup, BeginInfo, SearchHit, SearchMiss,
       SearchError, SearchSkip, Extract, EndLookup, ReadFlag, ReadMetadata,
       EndInfo, disk, handles, main
<1>8. CASE UNCHANGED vars
  BY <1>8, <1>a DEF vars, disk, handles, main
<1>9. QED
  BY <1>1, <1>2, <1>3, <1>4, <1>5, <1>6, <1>7, <1>8
     DEF Next, MainStep, Terminated

(* The slots are as fresh as described in every reachable state. *)
LEMMA FreshInv == Spec => []FreshOK
<1>1. Init => FreshOK
  BY DEF Init, FreshOK, Bringing
<1>2. QED
  BY <1>1, StepFreshOK, TypeCorrect, PTL DEF Spec

(* A reload whose open succeeded is what the slot serves afterwards. *)
THEOREM ReloadTakesEffect == Spec => []GoodReloadTakesEffect
<1>1. FreshOK => GoodReloadTakesEffect
  BY ConfiguredAssumption DEF FreshOK, GoodReloadTakesEffect, Bringing
<1>2. QED
  BY <1>1, FreshInv, PTL

(* No step closes an open slot or puts an older file back. *)
THEOREM SlotsNeverGoBack == Spec => NeverGoesBack
<1>1. TypeOK /\ FreshOK /\ [Next]_vars =>
          [\A s \in Slot : opened[s] => opened'[s] /\ loaded'[s] >= loaded[s]]_vars
  <2> SUFFICES ASSUME TypeOK, FreshOK, [Next]_vars, NEW s \in Slot, opened[s]
               PROVE  opened'[s] /\ loaded'[s] >= loaded[s]
    OBVIOUS
  <2>a. loaded[s] \in Int
    BY BoundsAssumption DEF TypeOK
  <2>b. ASSUME UNCHANGED <<opened, loaded>>
        PROVE  opened'[s] /\ loaded'[s] >= loaded[s]
    BY <2>a, <2>b
  <2>1. CASE Assign
    <3>0. opened \in [Slot -> BOOLEAN] /\ loaded \in [Slot -> 0..MaxVer]
          /\ opened' = [opened EXCEPT ![MainSlot] = TRUE]
          /\ loaded' = [loaded EXCEPT ![MainSlot] = tmp.ver]
      BY <2>1 DEF Assign, TypeOK
    <3>1. /\ opened'[s]
          /\ loaded'[s] = loaded[s] \/ (s = MainSlot /\ loaded'[s] = tmp.ver)
      <4>1. CASE s = MainSlot
        BY <3>0, <4>1
      <4>2. CASE s # MainSlot
        BY <3>0, <4>2
      <4>3. QED
        BY <4>1, <4>2
    <3>2. loaded[MainSlot] <= tmp.ver /\ tmp.ver \in Int
      BY <2>1, BoundsAssumption DEF Assign, FreshOK, Bringing, TypeOK
    <3>3. QED
      BY <2>a, <3>1, <3>2
  <2>2. ASSUME NEW t \in Configured, ReplaceFile(t)
        PROVE  opened'[s] /\ loaded'[s] >= loaded[s]
    BY <2>2, <2>b DEF ReplaceFile, handles
  <2>3. CASE \/ SkipUnconfigured \/ OpenTmp \/ OpenFails \/ LockUnique
             \/ CloseOld \/ Describe \/ AllSlotsDone \/ Destroy
             \/ BeginReload \/ BeginDestroy
    BY <2>3, <2>b DEF SkipUnconfigured, OpenTmp, OpenFails, LockUnique,
       CloseOld, Describe, AllSlotsDone, Destroy, BeginReload, BeginDestroy,
       handles
  <2>4. ASSUME NEW r \in Reader, BeginLookup(r) \/ BeginInfo(r) \/ ReaderStep(r)
        PROVE  opened'[s] /\ loaded'[s] >= loaded[s]
    BY <2>4, <2>b DEF ReaderStep, BeginLookup, BeginInfo, SearchHit, SearchMiss,
       SearchError, SearchSkip, Extract, EndLookup, ReadFlag, ReadMetadata,
       EndInfo, handles
  <2>5. CASE UNCHANGED vars
    BY <2>5, <2>b DEF vars, handles
  <2>6. QED
    BY <2>1, <2>2, <2>3, <2>4, <2>5 DEF Next, MainStep, Terminated
<1>2. QED
  BY <1>1, TypeCorrect, FreshInv, PTL DEF Spec, NeverGoesBack

=============================================================================
