------------------------- MODULE MetricsFile_proofs -------------------------
(***************************************************************************)
(* Proofs about MetricsFile, for any length of the text, any interval and  *)
(* any number of renderings and crashes.  Separate says that the file that *)
(* is being written is nobody's to read; Draft says what the writer can    *)
(* count on at each of its steps; Whole and Delivered are what a collector *)
(* gets from that.                                                         *)
(***************************************************************************)
EXTENDS MetricsFile, FiniteSetTheorems, TLAPS

Target == dir["target"]
Tmp == dir["tmp"]

TypeOK ==
    /\ pc \in {"top", "poll", "due?", "open", "write", "close",
              "rename", "next"}
    /\ due \in Nat
    /\ sleep \in Nat
    /\ text \in Nat
    /\ rendered \in Nat
    /\ lost \subseteq Nat
    /\ crashes \in Nat
    /\ dir \in [{"target", "tmp"} -> Inode \union {NoFile}]
    /\ file \in [Inode -> [of : Nat, len : Nat]]
    /\ reader \in [inode : Inode \union {NoFile}, of : SUBSET Nat, pos : Nat]

(* The .tmp, the one of this process or one that a dead process left        *)
(* behind, is not the file under the published name, and not one that the   *)
(* collector still has open.                                                *)
Separate == Tmp # NoFile => Tmp # Target /\ Tmp # reader.inode

(* While the writer is at work its text is the latest one; from the open on *)
(* the .tmp holds this text, and before the rename all of it, unless the    *)
(* destructor has lost some.                                                *)
Draft ==
    /\ \A i \in Inode : file[i].of <= rendered
    /\ pc \in {"open", "write", "close", "rename"} => text = rendered
    /\ pc \in {"write", "close", "rename"} => Tmp \in Inode /\ file[Tmp].of = text
    /\ pc = "rename" => file[Tmp].len = TextLen \/ text \in lost

(* The published file and the one the collector has open are whole or lost. *)
WholeOrLost(i) == file[i].len = TextLen \/ file[i].of \in lost
Whole ==
    /\ Target # NoFile => WholeOrLost(Target)
    /\ reader.inode # NoFile => WholeOrLost(reader.inode)

(* What the collector has so far comes from that one file.                  *)
Delivered ==
    reader.inode # NoFile =>
      /\ reader.pos <= file[reader.inode].len
      /\ reader.of = IF reader.pos = 0 THEN {} ELSE {file[reader.inode].of}

FileInv == TypeOK /\ Separate /\ Draft /\ Whole /\ Delivered

-----------------------------------------------------------------------------
(* The initial state has the invariant. *)
LEMMA InitInv == Init => FileInv
BY FileAssumption, MetricsFileAssumption
   DEF Init, FileInv, TypeOK, Separate, Draft, Whole, WholeOrLost, Delivered,
       Target, Tmp,
       Empty, Closed

(* poll() is given a whole number of milliseconds, none if less is left.    *)
LEMMA WholeMs == \A d \in Nat : (d \div UnitsPerMs) * UnitsPerMs \in Nat
<1> TAKE d \in Nat
<1>1. d \div UnitsPerMs \in Nat
  BY MetricsFileAssumption, SMT
<1>2. QED
  BY <1>1, MetricsFileAssumption, SMT

(* What the loop does about time leaves the files and the reader alone.     *)
LEMMA LoopStep ==
    ASSUME FileInv,
           \/ ComputeTimeout \/ PollTimesOut \/ PollWakes \/ NotDue
           \/ SetNext \/ Tick \/ UNCHANGED vars
    PROVE  FileInv'
<1> USE DEF FileInv, TypeOK, Separate, Draft, Whole, WholeOrLost, Delivered,
            Target, Tmp, disk, past
<1>1. CASE ComputeTimeout
  BY <1>1, WholeMs DEF ComputeTimeout
<1>2. CASE PollTimesOut
  BY <1>2 DEF PollTimesOut
<1>3. CASE PollWakes
  BY <1>3 DEF PollWakes
<1>4. CASE NotDue
  BY <1>4 DEF NotDue
<1>5. CASE SetNext
  BY <1>5, MetricsFileAssumption DEF SetNext
<1>6. CASE Tick
  BY <1>6 DEF Tick
<1>7. CASE UNCHANGED vars
  BY <1>7 DEF vars
<1>8. QED
  BY <1>1, <1>2, <1>3, <1>4, <1>5, <1>6, <1>7

(* Opening the .tmp, an old one or a new one, starts the file anew; it is   *)
(* neither the published file nor the reader's.                             *)
LEMMA OpenStep == FileInv /\ Open => FileInv'
<1> SUFFICES ASSUME FileInv, Open PROVE FileInv'
  OBVIOUS
<1> USE DEF FileInv
<1>1. PICK i \in Inode :
        /\ \/ i = Tmp
           \/ Tmp = NoFile /\ i \notin {Target, reader.inode}
        /\ dir' = [dir EXCEPT !["tmp"] = i]
        /\ file' = [file EXCEPT ![i] = [of |-> text, len |-> 0]]
  BY DEF Open, past, Target, Tmp
<1>2. i # Target /\ i # reader.inode
  BY <1>1, FileAssumption DEF Separate
<1>3. Tmp' = i /\ Target' = Target
  BY <1>1 DEF TypeOK, Target, Tmp
<1>4. /\ file'[i] = [of |-> text, len |-> 0]
      /\ \A j \in Inode : j # i => file'[j] = file[j]
  BY <1>1 DEF TypeOK
<1>5. TypeOK'
  BY <1>1 DEF Open, past, TypeOK
<1>6. Separate'
  BY <1>2, <1>3 DEF Open, past, Separate
<1>7. Draft'
  BY <1>3, <1>4 DEF Open, past, Draft, TypeOK
<1>8. Target \in Inode \union {NoFile}
  BY DEF TypeOK, Target
<1>9. Whole' /\ Delivered'
  BY <1>2, <1>3, <1>4, <1>8 DEF Open, past, Whole, WholeOrLost, Delivered, TypeOK
<1>10. QED
  BY <1>5, <1>6, <1>7, <1>9

(* A piece more of the text changes the .tmp only.                          *)
LEMMA WriteStep == FileInv /\ Write => FileInv'
<1> SUFFICES ASSUME FileInv, Write PROVE FileInv'
  OBVIOUS
<1> USE DEF FileInv
<1>1. Tmp \in Inode /\ Tmp # Target /\ Tmp # reader.inode
  BY FileAssumption DEF Write, past, Draft, Separate
<1>2. Tmp' = Tmp /\ Target' = Target
  BY DEF Write, past, Tmp, Target
<1>3. /\ file'[Tmp].of = file[Tmp].of
      /\ \A j \in Inode : j # Tmp => file'[j] = file[j]
  BY <1>1 DEF Write, past, TypeOK, Tmp
<1>4. TypeOK'
  BY <1>1 DEF Write, past, TypeOK, Tmp
<1>5. Separate'
  BY <1>2 DEF Write, past, Separate
<1>6. Draft'
  BY <1>1, <1>2, <1>3 DEF Write, past, Draft, TypeOK
<1>7. Target \in Inode \union {NoFile}
  BY DEF TypeOK, Target
<1>8. Whole' /\ Delivered'
  BY <1>1, <1>2, <1>3, <1>7 DEF Write, past, Whole, WholeOrLost, Delivered, TypeOK
<1>9. QED
  BY <1>4, <1>5, <1>6, <1>8

(* The rename gives the published name to a file that is whole or lost.     *)
LEMMA RenameStep == FileInv /\ Rename => FileInv'
<1> SUFFICES ASSUME FileInv, Rename PROVE FileInv'
  OBVIOUS
<1> USE DEF FileInv
<1>1. Target' = Tmp /\ Tmp' = NoFile
  BY DEF Rename, past, Target, Tmp
<1>2. Tmp \in Inode /\ WholeOrLost(Tmp)
  BY DEF Rename, Draft, WholeOrLost
<1>3. TypeOK'
  BY <1>2, SMT DEF Rename, past, TypeOK, Tmp
<1>4. QED
  BY <1>1, <1>2, <1>3 DEF Rename, past, Separate, Draft, Whole, WholeOrLost, Delivered

(* The writer's other steps.                                                *)
LEMMA WriterStep ==
    ASSUME FileInv, Render \/ WriteDone \/ Close \/ CloseFails \/ CallFails \/ Crash
    PROVE  FileInv'
<1> USE DEF FileInv, TypeOK, Separate, Draft, Whole, WholeOrLost, Delivered,
            Target, Tmp, disk, past
<1>1. CASE Render
  BY <1>1 DEF Render
<1>2. CASE WriteDone
  BY <1>2 DEF WriteDone
<1>3. CASE CallFails
  BY <1>3 DEF CallFails
<1>4. CASE Crash
  BY <1>4 DEF Crash
<1>5. CASE Close
  BY <1>5 DEF Close
<1>6. CASE CloseFails
  BY <1>6 DEF CloseFails
<1>7. QED
  BY <1>1, <1>2, <1>3, <1>4, <1>5, <1>6

(* A piece more for the reader comes from the file it has open.             *)
LEMMA ReaderStep ==
    ASSUME FileInv, ReaderOpen \/ ReaderRead \/ ReaderClose
    PROVE  FileInv'
<1> USE DEF FileInv
<1>1. CASE ReaderOpen
  <2>1. TypeOK'
    BY <1>1 DEF ReaderOpen, past, TypeOK, disk
  <2>2. Target \in Inode /\ file[Target].len \in Nat
    BY <1>1 DEF ReaderOpen, TypeOK, Target
  <2>3. QED
    BY <1>1, <2>1, <2>2
       DEF ReaderOpen, past, Separate, Draft, Whole,
           WholeOrLost, Delivered, Target, Tmp, disk
<1>2. CASE ReaderRead
  <2>1. /\ reader.inode \in Inode
        /\ reader'.inode = reader.inode
        /\ reader'.pos = reader.pos + 1
        /\ reader'.of = reader.of \union {file[reader.inode].of}
    BY <1>2 DEF ReaderRead, past, TypeOK
  <2>2. TypeOK'
    <3>1. file[reader.inode].of \in Nat
      BY <2>1 DEF TypeOK
    <3>2. reader.of \union {file[reader.inode].of} \in SUBSET Nat
      BY <3>1 DEF TypeOK
    <3>3. reader' = [inode |-> reader.inode,
                     of |-> reader.of \union {file[reader.inode].of},
                     pos |-> reader.pos + 1]
      BY <1>2 DEF ReaderRead, past, TypeOK
    <3>4. reader' \in [inode : Inode \union {NoFile}, of : SUBSET Nat, pos : Nat]
      BY <3>2, <3>3 DEF TypeOK
    <3>5. QED
      BY <1>2, <3>4 DEF ReaderRead, past, TypeOK, disk
  <2>3. reader'.of = {file[reader.inode].of}
    BY <1>2, <2>1 DEF ReaderRead, past, Delivered
  <2>4. Delivered'
    BY <1>2, <2>1, <2>3, MetricsFileAssumption
       DEF ReaderRead, past, Whole, WholeOrLost, Delivered, TypeOK, disk
  <2>5. QED
    BY <1>2, <2>1, <2>2, <2>4
       DEF ReaderRead, past, Separate, Draft, Whole, WholeOrLost, Target, Tmp, disk
<1>3. CASE ReaderClose
  <2>1. TypeOK'
    BY <1>3 DEF ReaderClose, past, Closed, TypeOK, disk
  <2>2. QED
    BY <1>3, <2>1
       DEF ReaderClose, past, Closed, Separate, Draft, Whole,
           WholeOrLost, Delivered, Target, Tmp, disk
<1>4. QED
  BY <1>1, <1>2, <1>3

(* Every step keeps the invariant. *)
LEMMA StepInv == FileInv /\ [Next]_vars => FileInv'
BY LoopStep, OpenStep, WriteStep, RenameStep, WriterStep, ReaderStep
   DEF Next, Main

(* It holds in every reachable state. *)
LEMMA Invariant == SafeSpec => []FileInv
BY InitInv, StepInv, PTL DEF SafeSpec

-----------------------------------------------------------------------------
(* The variables of write_metrics_file() and the main loop around it, the   *)
(* directory and the collector have their types in every reachable state.   *)
THEOREM TypeCorrect == SafeSpec => []TypeOK
<1>1. FileInv => TypeOK
  BY DEF FileInv
<1>2. QED
  BY <1>1, Invariant, PTL

(* A collector that reads to the end has one whole text and never a mix of  *)
(* two, whatever is written, fails, is renamed or killed meanwhile; only a  *)
(* text that the destructor of the stream lost can be cut short.            *)
THEOREM ReadersSeeWholeTexts == SafeSpec => []ReaderSeesWholeText
<1>1. FileInv => ReaderSeesWholeText
  <2> SUFFICES ASSUME FileInv, ReaderAtEnd
               PROVE  /\ Cardinality(reader.of) <= 1
                      /\ reader.pos = TextLen \/ file[reader.inode].of \in lost
    BY DEF ReaderSeesWholeText
  <2>1. reader.pos = file[reader.inode].len /\ WholeOrLost(reader.inode)
    BY DEF FileInv, TypeOK, ReaderAtEnd, Whole, Delivered
  <2>2. CASE reader.pos = 0
    BY <2>1, <2>2, FS_EmptySet DEF FileInv, ReaderAtEnd, Delivered, WholeOrLost
  <2>3. CASE reader.pos # 0
    <3>1. reader.of = {file[reader.inode].of}
      BY <2>3 DEF FileInv, ReaderAtEnd, Delivered
    <3>2. Cardinality(reader.of) = 1
      BY <3>1, FS_Singleton
    <3>3. QED
      BY <2>1, <3>2 DEF WholeOrLost
  <2>4. QED
    BY <2>2, <2>3
<1>2. QED
  BY <1>1, Invariant, PTL

(* metrics_file never goes back to an older rendering and never disappears, *)
(* across failures of every call and kills of the daemon at every point.    *)
THEOREM PublicationsMoveForward == SafeSpec => PublishedNeverGoesBack
<1>1. ASSUME FileInv, [Next]_vars PROVE Published' >= Published
  <2> USE <1>1 DEF FileInv
  <2>1. Published \in Nat /\ Target \in Inode \union {NoFile}
    BY DEF TypeOK, Published, Target
  <2>2. CASE Rename
    <3>1. Published' = rendered
      BY <2>2, FileAssumption DEF Rename, past, Published, Draft, Tmp
    <3>2. QED
      BY <3>1 DEF Draft, TypeOK, Published
  <2>3. CASE Write
    <3>1. Tmp \in Inode /\ Tmp # Target
      BY <2>3, FileAssumption DEF Write, past, Draft, Separate
    <3>2. Published' = Published
      BY <2>1, <2>3, <3>1 DEF Write, past, Published, Target, Tmp, TypeOK
    <3>3. QED
      BY <2>1, <3>2
  <2>4. CASE Open
    <3>1. PICK i \in Inode :
            /\ \/ i = Tmp
               \/ Tmp = NoFile /\ i \notin {Target, reader.inode}
            /\ dir' = [dir EXCEPT !["tmp"] = i]
            /\ file' = [file EXCEPT ![i] = [of |-> text, len |-> 0]]
      BY <2>4 DEF Open, past, Target, Tmp
    <3>2. i # Target
      BY <3>1, FileAssumption DEF Separate
    <3>3. Published' = Published
      BY <2>1, <3>1, <3>2 DEF Published, Target, TypeOK
    <3>4. QED
      BY <2>1, <3>3
  <2>5. CASE UNCHANGED disk
    BY <2>1, <2>5 DEF disk, Published
  <2>6. QED
    BY <2>2, <2>3, <2>4, <2>5
       DEF Next, Main, ComputeTimeout, PollTimesOut, PollWakes, NotDue, Render,
           WriteDone, Close, CloseFails, CallFails, SetNext, Tick, Crash, ReaderOpen, ReaderRead,
           ReaderClose, vars, disk
<1>2. SafeSpec => [][FileInv /\ [Next]_vars]_vars
  BY Invariant, PTL DEF SafeSpec
<1>3. QED
  BY <1>1, <1>2, PTL DEF PublishedNeverGoesBack

=============================================================================
