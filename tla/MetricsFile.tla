----------------------------- MODULE MetricsFile -----------------------------
(***************************************************************************)
(* Server::write_metrics_file() (server.cpp 845-875) and the part of       *)
(* Server::run() that decides when it is called (939-957, 1019-1023), next *)
(* to a collector that reads the file and a machine on which calls fail    *)
(* and the daemon is killed and started again.                             *)
(*                                                                         *)
(* A text is the number of the rendering it comes from; it is TextLen      *)
(* pieces long and is written and read piece by piece.  Whether "out <<    *)
(* text" writes it or leaves it in the stream's buffer for the destructor  *)
(* is up to the C++ library: libstdc++ writes texts of a kilobyte or more  *)
(* at once before GCC 13, and since then only those that do not fit its    *)
(* buffer, which the two or three kilobytes here do.  Times are kept       *)
(* relative to now, in units of which UnitsPerMs make a millisecond.       *)
(***************************************************************************)
EXTENDS Integers, FiniteSets

CONSTANTS
    Inode,          \* the files the directory can refer to
    NoFile,
    TextLen,        \* pieces of a text
    Interval,       \* cfg_.metrics_interval_seconds, in units
    UnitsPerMs,
    MaxRender,      \* bound: renderings
    MaxCrash        \* bound: crashes

ASSUME FileAssumption == NoFile \notin Inode /\ Cardinality(Inode) >= 3
ASSUME MetricsFileAssumption ==
    /\ TextLen \in Nat \ {0} /\ Interval \in Nat \ {0}
    /\ UnitsPerMs \in Nat \ {0} /\ MaxRender \in Nat /\ MaxCrash \in Nat

VARIABLES
    pc,         \* where the main thread is
    due,        \* next_metrics_write - now, 0 once it has passed
    sleep,      \* what is left of poll()'s timeout
    text,       \* text: the rendering being written
    rendered,   \* renderings made so far, by this and earlier processes
    lost,       \* history: renderings the destructor could not write out
    crashes,    \* crashes so far
    dir,        \* the directory: the inodes of metrics_file and its .tmp
    file,       \* the inodes' contents: a rendering and how much of it
    reader      \* the collector: the inode it has open, what it got

disk == <<dir, file>>
past == <<rendered, lost, crashes>>
vars == <<pc, due, sleep, text, past, dir, file, reader>>

Empty == [of |-> 0, len |-> 0]
Closed == [inode |-> NoFile, of |-> {}, pos |-> 0]

Init ==
    /\ pc = "top"
    /\ due = 0
    /\ sleep = 0
    /\ text = 0
    /\ rendered = 0
    /\ lost = {}
    /\ crashes = 0
    /\ dir = [n \in {"target", "tmp"} |-> NoFile]
    /\ file = [i \in Inode |-> Empty]
    /\ reader = Closed

-----------------------------------------------------------------------------
(* Faulty forms, each a slip one of the properties must catch: the interval *)
(* started afresh on every turn of the loop; a failed write that is renamed *)
(* all the same; the old file removed before the new one takes its name.    *)
NotDueRearms ==
    /\ pc = "due?"
    /\ due > 0
    /\ pc' = "top"
    /\ due' = Interval
    /\ UNCHANGED <<sleep, text, past, disk, reader>>

CallFailsUnnoticed ==
    /\ pc \in {"open", "write", "rename"}
    /\ pc' = IF pc = "write" THEN "rename" ELSE "next"
    /\ UNCHANGED <<due, sleep, text, past, disk, reader>>

RenameAfterUnlink ==
    /\ pc = "rename"
    /\ IF dir["target"] = NoFile
         THEN pc' = "next" /\ dir' = [target |-> dir["tmp"], tmp |-> NoFile]
         ELSE dir' = [dir EXCEPT !["target"] = NoFile] /\ UNCHANGED pc
    /\ UNCHANGED <<due, sleep, text, past, file, reader>>

-----------------------------------------------------------------------------
(* The main loop: how long poll() may sleep. *)
ComputeTimeout ==
    /\ pc = "top"
    /\ pc' = "poll"
    /\ sleep' = (due \div UnitsPerMs) * UnitsPerMs
    /\ UNCHANGED <<due, text, past, disk, reader>>

(* poll() ends by its timeout, *)
PollTimesOut ==
    /\ pc = "poll"
    /\ sleep = 0
    /\ pc' = "due?"
    /\ UNCHANGED <<due, sleep, text, past, disk, reader>>

(* or for a connection or a signal, which is dealt with first. *)
PollWakes ==
    /\ pc = "poll"
    /\ pc' = "due?"
    /\ sleep' = 0
    /\ UNCHANGED <<due, text, past, disk, reader>>

NotDue ==
    /\ pc = "due?"
    /\ due > 0
    /\ pc' = "top"
    /\ UNCHANGED <<due, sleep, text, past, disk, reader>>

(* render_prometheus_metrics() *)
Render ==
    /\ pc = "due?"
    /\ due = 0
    /\ rendered < MaxRender
    /\ rendered' = rendered + 1
    /\ text' = rendered + 1
    /\ pc' = "open"
    /\ UNCHANGED <<due, sleep, lost, crashes, disk, reader>>

(* The ofstream: an existing .tmp is truncated, else one is created. *)
Open ==
    /\ pc = "open"
    /\ pc' = "write"
    /\ \E i \in Inode :
         /\ \/ i = dir["tmp"]
            \/ dir["tmp"] = NoFile /\ i \notin {dir["target"], reader.inode}
         /\ dir' = [dir EXCEPT !["tmp"] = i]
         /\ file' = [file EXCEPT ![i] = [of |-> text, len |-> 0]]
    /\ UNCHANGED <<due, sleep, text, past, reader>>

(* "out << text", or the destructor of out. *)
Write ==
    /\ pc \in {"write", "close"}
    /\ file[dir["tmp"]].len < TextLen
    /\ file' = [file EXCEPT ![dir["tmp"]].len = @ + 1]
    /\ UNCHANGED <<pc, due, sleep, text, past, dir, reader>>

(* out is good: all of the text is written, or all of it is in its buffer. *)
WriteDone ==
    /\ pc = "write"
    /\ file[dir["tmp"]].len \in {0, TextLen}
    /\ pc' = "close"
    /\ UNCHANGED <<due, sleep, text, past, disk, reader>>

Close ==
    /\ pc = "close"
    /\ file[dir["tmp"]].len = TextLen
    /\ pc' = "rename"
    /\ UNCHANGED <<due, sleep, text, past, disk, reader>>

(* The destructor fails to write, which nobody asks about. *)
CloseFails ==
    /\ pc = "close"
    /\ file[dir["tmp"]].len < TextLen
    /\ pc' = "rename"
    /\ lost' = lost \union {text}
    /\ UNCHANGED <<due, sleep, text, rendered, crashes, disk, reader>>

(* Any of the calls is seen to fail: a warning, and the file is left as is. *)
CallFails ==
    /\ pc \in {"open", "write", "rename"}
    /\ pc' = "next"
    /\ UNCHANGED <<due, sleep, text, past, disk, reader>>

Rename ==
    /\ pc = "rename"
    /\ dir' = [target |-> dir["tmp"], tmp |-> NoFile]
    /\ pc' = "next"
    /\ UNCHANGED <<due, sleep, text, past, file, reader>>

(* next_metrics_write = now + interval, whatever became of the write. *)
SetNext ==
    /\ pc = "next"
    /\ due' = Interval
    /\ pc' = "top"
    /\ UNCHANGED <<sleep, text, past, disk, reader>>

Main ==
    \/ ComputeTimeout \/ PollTimesOut \/ NotDue \/ Render \/ Open
    \/ Write \/ WriteDone \/ Close \/ Rename \/ SetNext

-----------------------------------------------------------------------------
Tick ==
    /\ due > 0 \/ sleep > 0
    /\ due' = IF due > 0 THEN due - 1 ELSE 0
    /\ sleep' = IF sleep > 0 THEN sleep - 1 ELSE sleep
    /\ UNCHANGED <<pc, text, past, disk, reader>>

(* The daemon is killed and started again: run() begins anew. *)
Crash ==
    /\ crashes < MaxCrash
    /\ crashes' = crashes + 1
    /\ pc' = "top"
    /\ due' = 0
    /\ sleep' = 0
    /\ text' = 0
    /\ UNCHANGED <<rendered, lost, disk, reader>>

(* The collector opens metrics_file and reads it to its end; what it opened *)
(* stays what it is when the name moves on.                                 *)
ReaderOpen ==
    /\ reader.inode = NoFile
    /\ dir["target"] # NoFile
    /\ reader' = [inode |-> dir["target"], of |-> {}, pos |-> 0]
    /\ UNCHANGED <<pc, due, sleep, text, past, disk>>

ReaderRead ==
    /\ reader.inode # NoFile
    /\ reader.pos < file[reader.inode].len
    /\ reader' = [reader EXCEPT !.of = @ \union {file[reader.inode].of},
                                !.pos = @ + 1]
    /\ UNCHANGED <<pc, due, sleep, text, past, disk>>

ReaderAtEnd == reader.inode # NoFile /\ reader.pos >= file[reader.inode].len

ReaderClose ==
    /\ ReaderAtEnd
    /\ reader' = Closed
    /\ UNCHANGED <<pc, due, sleep, text, past, disk>>

Next ==
    \/ Main \/ PollWakes \/ CallFails \/ CloseFails
    \/ Tick \/ Crash \/ ReaderOpen \/ ReaderRead \/ ReaderClose

SafeSpec == Init /\ [][Next]_vars

(* The main thread is scheduled and the clock runs.  No event need wake     *)
(* poll(), calls may fail every time, and the collector may be slow.        *)
Spec == SafeSpec /\ WF_vars(Main) /\ WF_vars(Tick)

-----------------------------------------------------------------------------
(* A collector that reads to the end has one whole text, and never a mix of *)
(* two, whatever was written, failed, renamed or killed meanwhile, unless   *)
(* the file it read is one the destructor of out could not write out: then  *)
(* it does see the "partially-written file" that server.cpp:850-853 says it *)
(* never sees.                                                              *)
ReaderSeesWholeText ==
    ReaderAtEnd => /\ Cardinality(reader.of) <= 1
                   /\ reader.pos = TextLen \/ file[reader.inode].of \in lost

Published == IF dir["target"] = NoFile THEN 0 ELSE file[dir["target"]].of

(* metrics_file never goes back to an older rendering and never disappears, *)
(* not even when a process is killed and its .tmp is still there.           *)
PublishedNeverGoesBack == [][Published' >= Published]_vars

(* README.md:511 "a metrics_file problem ... is logged as a warning, never  *)
(* fatal": renderings go on, interval after interval, whichever calls fail. *)
RefreshGoesOn ==
    \A n \in 0..(MaxRender - 1) : (rendered = n) ~> (rendered > n)

=============================================================================
