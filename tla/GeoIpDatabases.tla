--------------------------- MODULE GeoIpDatabases ---------------------------
(***************************************************************************)
(* GeoIpDatabases (geoip.cpp, geoip.h): up to three memory-mapped .mmdb    *)
(* files behind one reader/writer lock.  Worker threads look addresses up  *)
(* and read metadata; the main thread opens the files at startup, reloads  *)
(* them slot by slot on SIGHUP (Server::init and Server::reload_databases, *)
(* which decide the order and what a failure means) and destroys them.     *)
(*                                                                         *)
(* Each successful MMDB_open() is a new generation of its slot, so that an *)
(* old mapping can be told from its replacement.  What a file contains is  *)
(* a version number; whether an address is in it, or makes the library     *)
(* report an error, is a choice of the environment.                        *)
(***************************************************************************)
EXTENDS Integers, FiniteSets, Sequences

CONSTANTS
    Reader,         \* the threads that call lookup() and *_metadata()
    Configured,     \* the slots that have a path in the configuration
    MaxReload,      \* bound: reloads in a behaviour
    MaxVer          \* bound: replacements of one file in a behaviour

Slots == <<"country", "asn", "city">>
Slot == {"country", "asn", "city"}
PastLast == 4       \* a position after every slot

ASSUME ReaderAssumption == Reader # {}
ASSUME ConfiguredAssumption == Configured \subseteq Slot
ASSUME BoundsAssumption == MaxReload \in Nat /\ MaxVer \in Nat

VARIABLES
    diskver,    \* version of the file at each slot's path
    diskok,     \* that file is a complete database
    mapped,     \* generations of each slot that are mapped into memory
    gen,        \* last generation of each slot
    mmdb,       \* country_mmdb_, asn_mmdb_, city_mmdb_ (a generation)
    opened,     \* country_open_, asn_open_, city_open_
    loaded,     \* version of the contents behind mmdb
    tried,      \* last open_mmdb() of each slot: what it found
    writer,     \* mutex_ is held exclusively
    readers,    \* threads that hold mutex_ shared
    mpc,        \* where the main thread is
    mpos,       \* the slot it is working on
    startup,    \* in Server::init, not yet serving
    tmp,        \* its local handle tmp, as [gen, ver]
    reloads,    \* number of reloads so far
    rpc,        \* where each reader is
    rpos,       \* the slot it has reached
    entry,      \* the generation its MMDB_entry_s points into
    seen,       \* the generation of each slot this lookup searched
    rerr,       \* db_error
    rfound,     \* result.found
    rcountry,   \* the slot that supplied the country fields
    rflag       \* has_*() as collect_db_infos() read it

disk == <<diskver, diskok>>
handles == <<mapped, gen, mmdb, opened, loaded, tried>>
main == <<mpc, mpos, startup, tmp, reloads>>
result == <<entry, seen, rerr, rfound, rcountry, rflag>>
reader == <<rpc, rpos, entry, seen, rerr, rfound, rcountry, rflag>>
vars == <<disk, handles, writer, readers, main, reader>>

None == 0                           \* no generation
NoTmp == [gen |-> None, ver |-> 0]
NothingSeen == [s \in Slot |-> None]

Init ==
    /\ diskver = [s \in Slot |-> 0]
    /\ \E bad \in SUBSET Configured : diskok = [s \in Slot |-> s \notin bad]
    /\ mapped = [s \in Slot |-> {}]
    /\ gen = [s \in Slot |-> None]
    /\ mmdb = [s \in Slot |-> None]
    /\ opened = [s \in Slot |-> FALSE]
    /\ loaded = [s \in Slot |-> 0]
    /\ tried = [s \in Slot |-> [ver |-> 0, ok |-> FALSE]]
    /\ writer = FALSE
    /\ readers = {}
    /\ mpc = "open"
    /\ mpos = 1
    /\ startup = TRUE
    /\ tmp = NoTmp
    /\ reloads = 0
    /\ rpc = [r \in Reader |-> "idle"]
    /\ rpos = [r \in Reader |-> 1]
    /\ entry = [r \in Reader |-> None]
    /\ seen = [r \in Reader |-> NothingSeen]
    /\ rerr = [r \in Reader |-> FALSE]
    /\ rfound = [r \in Reader |-> FALSE]
    /\ rcountry = [r \in Reader |-> "none"]
    /\ rflag = [r \in Reader |-> FALSE]

-----------------------------------------------------------------------------
(* Faulty forms of the operations below.  No specification uses them: each  *)
(* stands for a slip in the code that one of the properties must catch.     *)

(* The swap without line 308. *)
LockUniqueSkipped ==
    /\ mpc = "lock"
    /\ writer' = TRUE
    /\ mpc' = "close"
    /\ UNCHANGED <<disk, handles, readers, mpos, startup, tmp, reloads, reader>>

(* The swap with try_to_lock, giving the new handle up when it fails. *)
LockUniqueTried ==
    /\ mpc = "lock"
    /\ IF readers = {}
       THEN writer' = TRUE /\ mpc' = "close" /\ UNCHANGED <<mapped, tmp>>
       ELSE /\ mpc' = "describe"
            /\ mapped' = [mapped EXCEPT ![Slots[mpos]] = @ \ {tmp.gen}]
            /\ tmp' = NoTmp
            /\ UNCHANGED writer
    /\ UNCHANGED <<disk, gen, mmdb, opened, loaded, tried, readers, mpos,
                   startup, reloads, reader>>

(* The swap without lines 309-312. *)
CloseOldForgotten ==
    /\ mpc = "close"
    /\ mpc' = "assign"
    /\ UNCHANGED <<disk, handles, writer, readers, mpos, startup, tmp, reloads,
                   reader>>

(* Marking the slot closed until the new handle is in place. *)
CloseOldAndFlag ==
    /\ mpc = "close"
    /\ mapped' = IF opened[Slots[mpos]]
                 THEN [mapped EXCEPT ![Slots[mpos]] = @ \ {mmdb[Slots[mpos]]}]
                 ELSE mapped
    /\ opened' = [opened EXCEPT ![Slots[mpos]] = FALSE]
    /\ mpc' = "assign"
    /\ UNCHANGED <<disk, gen, mmdb, loaded, tried, writer, readers,
                   mpos, startup, tmp, reloads, reader>>

(* Workers started before init() has opened the databases. *)
ServingTooEarly == mpc \notin {"destroy", "gone"}

(* A shared_lock whose scope is one database's block of lookup(). *)
SearchMissUnlocks(r) ==
    /\ rpc[r] = "search"
    /\ rpos[r] < PastLast
    /\ opened[Slots[rpos[r]]]
    /\ ~rerr[r]
    /\ seen' = [seen EXCEPT ![r][Slots[rpos[r]]] = mmdb[Slots[rpos[r]]]]
    /\ rpos' = [rpos EXCEPT ![r] = @ + 1]
    /\ readers' = readers \ {r}
    /\ UNCHANGED <<disk, handles, writer, main, rpc, entry, rerr,
                   rfound, rcountry, rflag>>

(* Line 433 testing whether a country was found. *)
ExtractIfMissing(r) ==
    /\ rpc[r] = "extract"
    /\ rcountry' = IF \/ Slots[rpos[r]] = "country"
                      \/ Slots[rpos[r]] = "city" /\ rcountry[r] = "none"
                   THEN [rcountry EXCEPT ![r] = Slots[rpos[r]]]
                   ELSE rcountry
    /\ entry' = [entry EXCEPT ![r] = None]
    /\ rpos' = [rpos EXCEPT ![r] = @ + 1]
    /\ rpc' = [rpc EXCEPT ![r] = "search"]
    /\ UNCHANGED <<disk, handles, writer, readers, main, seen, rerr, rfound,
                   rflag>>

-----------------------------------------------------------------------------
(* The file system (external) *)

(* Somebody puts another file at the path.  The new file may be broken, or  *)
(* still being written.                                                     *)
ReplaceFile(s) ==
    /\ diskver[s] < MaxVer
    /\ diskver' = [diskver EXCEPT ![s] = @ + 1]
    /\ \E ok \in BOOLEAN : diskok' = [diskok EXCEPT ![s] = ok]
    /\ UNCHANGED <<handles, writer, readers, main, reader>>

-----------------------------------------------------------------------------
(* The main thread: open_country(), open_asn(), open_city() *)

MainSlot == Slots[mpos]

SkipUnconfigured ==
    /\ mpc = "open"
    /\ mpos < PastLast
    /\ MainSlot \notin Configured
    /\ mpos' = mpos + 1
    /\ UNCHANGED <<disk, handles, writer, readers, mpc, startup, tmp, reloads,
                   reader>>

(* open_mmdb() into the local tmp, before the lock is taken. *)
OpenTmp ==
    /\ mpc = "open"
    /\ mpos < PastLast
    /\ MainSlot \in Configured
    /\ diskok[MainSlot]
    /\ gen' = [gen EXCEPT ![MainSlot] = @ + 1]
    /\ mapped' = [mapped EXCEPT ![MainSlot] = @ \union {gen[MainSlot] + 1}]
    /\ tmp' = [gen |-> gen[MainSlot] + 1, ver |-> diskver[MainSlot]]
    /\ tried' = [tried EXCEPT ![MainSlot] =
                    [ver |-> diskver[MainSlot], ok |-> TRUE]]
    /\ mpc' = "lock"
    /\ UNCHANGED <<disk, mmdb, opened, loaded, writer, readers, mpos, startup,
                   reloads, reader>>

(* open_mmdb() fails, on a broken file or for want of a resource.  Startup  *)
(* gives up; a reload keeps the previous handle and goes on.                *)
OpenFails ==
    /\ mpc = "open"
    /\ mpos < PastLast
    /\ MainSlot \in Configured
    /\ tried' = [tried EXCEPT ![MainSlot] =
                    [ver |-> diskver[MainSlot], ok |-> FALSE]]
    /\ IF startup THEN mpc' = "destroy" /\ UNCHANGED mpos
                  ELSE mpos' = mpos + 1 /\ UNCHANGED mpc
    /\ UNCHANGED <<disk, mapped, gen, mmdb, opened, loaded, writer, readers,
                   startup, tmp, reloads, reader>>

LockUnique ==
    /\ mpc = "lock"
    /\ readers = {}
    /\ writer' = TRUE
    /\ mpc' = "close"
    /\ UNCHANGED <<disk, handles, readers, mpos, startup, tmp, reloads, reader>>

CloseOld ==
    /\ mpc = "close"
    /\ mapped' = IF opened[MainSlot]
                 THEN [mapped EXCEPT ![MainSlot] = @ \ {mmdb[MainSlot]}]
                 ELSE mapped
    /\ mpc' = "assign"
    /\ UNCHANGED <<disk, gen, mmdb, opened, loaded, tried, writer, readers,
                   mpos, startup, tmp, reloads, reader>>

(* Copy tmp into the slot and release the lock. *)
Assign ==
    /\ mpc = "assign"
    /\ mmdb' = [mmdb EXCEPT ![MainSlot] = tmp.gen]
    /\ loaded' = [loaded EXCEPT ![MainSlot] = tmp.ver]
    /\ opened' = [opened EXCEPT ![MainSlot] = TRUE]
    /\ tmp' = NoTmp
    /\ writer' = FALSE
    /\ mpc' = "describe"
    /\ UNCHANGED <<disk, mapped, gen, tried, readers, mpos, startup, reloads,
                   reader>>

(* describe_db() reads the new handle's metadata for the log. *)
Describe ==
    /\ mpc = "describe"
    /\ ~writer
    /\ mpos' = mpos + 1
    /\ mpc' = "open"
    /\ UNCHANGED <<disk, handles, writer, readers, startup, tmp, reloads, reader>>

(* All slots done.  init() refuses to serve without any database. *)
AllSlotsDone ==
    /\ mpc = "open"
    /\ mpos = PastLast
    /\ mpc' = IF startup /\ \A s \in Slot : ~opened[s] THEN "destroy"
                                                       ELSE "serving"
    /\ mpos' = 1
    /\ startup' = (startup /\ mpc' = "destroy")
    /\ UNCHANGED <<disk, handles, writer, readers, tmp, reloads, reader>>

(* reload_databases() *)
BeginReload ==
    /\ mpc = "serving"
    /\ reloads < MaxReload
    /\ reloads' = reloads + 1
    /\ mpc' = "open"
    /\ UNCHANGED <<disk, handles, writer, readers, mpos, startup, tmp, reader>>

(* The Server ends its workers before its databases are destroyed. *)
BeginDestroy ==
    /\ mpc = "serving"
    /\ \A r \in Reader : rpc[r] = "idle"
    /\ mpc' = "destroy"
    /\ UNCHANGED <<disk, handles, writer, readers, mpos, startup, tmp, reloads,
                   reader>>

(* ~GeoIpDatabases() *)
Destroy ==
    /\ mpc = "destroy"
    /\ mapped' = [s \in Slot |-> IF opened[s] THEN mapped[s] \ {mmdb[s]}
                                              ELSE mapped[s]]
    /\ mpc' = "gone"
    /\ UNCHANGED <<disk, gen, mmdb, opened, loaded, tried, writer, readers,
                   mpos, startup, tmp, reloads, reader>>

MainStep ==
    \/ SkipUnconfigured \/ OpenTmp \/ OpenFails \/ LockUnique \/ CloseOld
    \/ Assign \/ Describe \/ AllSlotsDone \/ Destroy

-----------------------------------------------------------------------------
(* A worker thread: lookup() *)

Serving == ~startup /\ mpc \notin {"destroy", "gone"}

ReaderSlot(r) == Slots[rpos[r]]

(* Construct the shared_lock. *)
BeginLookup(r) ==
    /\ rpc[r] = "idle"
    /\ Serving
    /\ ~writer
    /\ readers' = readers \union {r}
    /\ rpc' = [rpc EXCEPT ![r] = "search"]
    /\ UNCHANGED <<disk, handles, writer, main, rpos, result>>

Searching(r) ==
    /\ rpc[r] = "search"
    /\ rpos[r] < PastLast
    /\ opened[ReaderSlot(r)]
    /\ ~rerr[r]
    /\ seen' = [seen EXCEPT ![r][ReaderSlot(r)] = mmdb[ReaderSlot(r)]]

(* MMDB_lookup_sockaddr() finds an entry, which points into the mapping. *)
SearchHit(r) ==
    /\ Searching(r)
    /\ rfound' = [rfound EXCEPT ![r] = TRUE]
    /\ entry' = [entry EXCEPT ![r] = mmdb[ReaderSlot(r)]]
    /\ rpc' = [rpc EXCEPT ![r] = "extract"]
    /\ UNCHANGED <<disk, handles, writer, readers, main, rpos, rerr, rcountry,
                   rflag>>

SearchMiss(r) ==
    /\ Searching(r)
    /\ rpos' = [rpos EXCEPT ![r] = @ + 1]
    /\ UNCHANGED <<disk, handles, writer, readers, main, rpc, entry, rerr,
                   rfound, rcountry, rflag>>

SearchError(r) ==
    /\ Searching(r)
    /\ rerr' = [rerr EXCEPT ![r] = TRUE]
    /\ rpos' = [rpos EXCEPT ![r] = @ + 1]
    /\ UNCHANGED <<disk, handles, writer, readers, main, rpc, entry, rfound,
                   rcountry, rflag>>

(* The slot is not open, or an earlier one has already failed. *)
SearchSkip(r) ==
    /\ rpc[r] = "search"
    /\ rpos[r] < PastLast
    /\ ~opened[ReaderSlot(r)] \/ rerr[r]
    /\ rpos' = [rpos EXCEPT ![r] = @ + 1]
    /\ UNCHANGED <<disk, handles, writer, readers, main, rpc, result>>

(* get_string() and its siblings read the fields through the entry.  The    *)
(* city database supplies the country fields only if no country database    *)
(* is open.                                                                 *)
Extract(r) ==
    /\ rpc[r] = "extract"
    /\ rcountry' = IF \/ ReaderSlot(r) = "country"
                      \/ ReaderSlot(r) = "city" /\ ~opened["country"]
                   THEN [rcountry EXCEPT ![r] = ReaderSlot(r)]
                   ELSE rcountry
    /\ entry' = [entry EXCEPT ![r] = None]
    /\ rpos' = [rpos EXCEPT ![r] = @ + 1]
    /\ rpc' = [rpc EXCEPT ![r] = "search"]
    /\ UNCHANGED <<disk, handles, writer, readers, main, seen, rerr, rfound,
                   rflag>>

(* lookup() returns and the shared_lock is released. *)
EndLookup(r) ==
    /\ rpc[r] = "search"
    /\ rpos[r] = PastLast
    /\ readers' = readers \ {r}
    /\ rpc' = [rpc EXCEPT ![r] = "idle"]
    /\ rpos' = [rpos EXCEPT ![r] = 1]
    /\ seen' = [seen EXCEPT ![r] = NothingSeen]
    /\ rerr' = [rerr EXCEPT ![r] = FALSE]
    /\ rfound' = [rfound EXCEPT ![r] = FALSE]
    /\ rcountry' = [rcountry EXCEPT ![r] = "none"]
    /\ UNCHANGED <<disk, handles, writer, main, entry, rflag>>

-----------------------------------------------------------------------------
(* A worker thread: Server::collect_db_infos() for /health and /metrics *)

BeginInfo(r) ==
    /\ rpc[r] = "idle"
    /\ Serving
    /\ rpc' = [rpc EXCEPT ![r] = "has"]
    /\ UNCHANGED <<disk, handles, writer, readers, main, rpos, result>>

(* has_country(), has_asn(), has_city() read the flag without the lock.     *)
(* Assign may be writing it at that moment; it then stores TRUE over TRUE,  *)
(* so there is one value to read.                                           *)
ReadFlag(r) ==
    /\ rpc[r] = "has"
    /\ rpos[r] < PastLast
    /\ rflag' = [rflag EXCEPT ![r] = opened[ReaderSlot(r)]]
    /\ rpc' = [rpc EXCEPT ![r] = "meta"]
    /\ UNCHANGED <<disk, handles, writer, readers, main, rpos, entry, seen,
                   rerr, rfound, rcountry>>

(* country_metadata() and its siblings: take the lock shared, copy, release *)
ReadMetadata(r) ==
    /\ rpc[r] = "meta"
    /\ ~writer
    /\ rpos' = [rpos EXCEPT ![r] = @ + 1]
    /\ rpc' = [rpc EXCEPT ![r] = "has"]
    /\ rflag' = [rflag EXCEPT ![r] = FALSE]
    /\ UNCHANGED <<disk, handles, writer, readers, main, entry, seen, rerr,
                   rfound, rcountry>>

EndInfo(r) ==
    /\ rpc[r] = "has"
    /\ rpos[r] = PastLast
    /\ rpc' = [rpc EXCEPT ![r] = "idle"]
    /\ rpos' = [rpos EXCEPT ![r] = 1]
    /\ UNCHANGED <<disk, handles, writer, readers, main, result>>

ReaderStep(r) ==
    \/ SearchHit(r) \/ SearchMiss(r) \/ SearchError(r) \/ SearchSkip(r)
    \/ Extract(r) \/ EndLookup(r)
    \/ ReadFlag(r) \/ ReadMetadata(r) \/ EndInfo(r)

-----------------------------------------------------------------------------
Terminated == mpc = "gone" /\ UNCHANGED vars

Next ==
    \/ \E s \in Configured : ReplaceFile(s)
    \/ MainStep
    \/ BeginReload
    \/ BeginDestroy
    \/ \E r \in Reader : BeginLookup(r) \/ BeginInfo(r) \/ ReaderStep(r)
    \/ Terminated

Spec == Init /\ [][Next]_vars

-----------------------------------------------------------------------------
(* Properties *)

MainState == {"open", "lock", "close", "assign", "describe", "serving",
              "destroy", "gone"}
ReaderState == {"idle", "search", "extract", "has", "meta"}

(* Every variable has the type of the code's data; the lock is held by the  *)
(* threads that are inside a locked section of the code, and by no other.   *)
TypeOK ==
    /\ diskver \in [Slot -> 0..MaxVer]
    /\ diskok \in [Slot -> BOOLEAN]
    /\ mapped \in [Slot -> SUBSET Nat]
    /\ gen \in [Slot -> Nat]
    /\ mmdb \in [Slot -> Nat]
    /\ opened \in [Slot -> BOOLEAN]
    /\ loaded \in [Slot -> 0..MaxVer]
    /\ tried \in [Slot -> [ver : 0..MaxVer, ok : BOOLEAN]]
    /\ writer \in BOOLEAN
    /\ readers \subseteq Reader
    /\ mpc \in MainState
    /\ mpos \in 1..PastLast
    /\ startup \in BOOLEAN
    /\ tmp \in [gen : Nat, ver : 0..MaxVer]
    /\ reloads \in 0..MaxReload
    /\ rpc \in [Reader -> ReaderState]
    /\ rpos \in [Reader -> 1..PastLast]
    /\ entry \in [Reader -> Nat]
    /\ seen \in [Reader -> [Slot -> Nat]]
    /\ rerr \in [Reader -> BOOLEAN]
    /\ rfound \in [Reader -> BOOLEAN]
    /\ rcountry \in [Reader -> {"none", "country", "city"}]
    /\ rflag \in [Reader -> BOOLEAN]
    /\ mpc \in {"lock", "close", "assign", "describe"} =>
          mpos < PastLast /\ MainSlot \in Configured
    /\ \A r \in Reader : rpc[r] \in {"extract", "meta"} => rpos[r] < PastLast

(* No use after unmap: an entry a lookup is reading from points into a      *)
(* mapping that is still there, although reloads close old handles          *)
(* meanwhile; and whenever the lock can be had shared, the handle of an     *)
(* open slot is a live one.                                                 *)
UsesOnlyMapped ==
    /\ \A r \in Reader : rpc[r] = "extract" => entry[r] \in mapped[ReaderSlot(r)]
    /\ ~writer /\ mpc # "gone" =>
          \A s \in Slot : opened[s] => mmdb[s] \in mapped[s]

(* No mapping is leaked or closed twice, whichever opens fail: a slot has   *)
(* its current generation mapped, plus the one being brought in, and        *)
(* nothing once the databases are destroyed.                                *)
MappedIsHeld ==
    \A s \in Slot :
        mapped[s] =
            (IF opened[s] /\ mpc # "gone" /\ ~(mpc = "assign" /\ s = MainSlot)
             THEN {mmdb[s]} ELSE {})
            \union
            (IF mpc \in {"lock", "close", "assign"} /\ s = MainSlot
             THEN {tmp.gen} ELSE {})

(* One lookup, one state of the databases: all the generations it has       *)
(* searched are current at the same time.                                   *)
LookupSeesOneState ==
    \A r \in Reader, s \in Slot : seen[r][s] # None => seen[r][s] = mmdb[s]

(* has_*() is read without the lock, but its answer is still the truth when *)
(* the metadata is read: /health and /metrics never report an open database *)
(* without metadata, or a closed one with it.                               *)
FlagAgreesWithMetadata ==
    \A r \in Reader : rpc[r] = "meta" => rflag[r] = opened[ReaderSlot(r)]

(* The country database is authoritative for the country fields whenever it *)
(* is configured, at every moment of every reload (geoip.cpp, lines         *)
(* 426-432).                                                                *)
CountryIsAuthoritative ==
    "country" \in Configured =>
        \A r \in Reader : rcountry[r] # "city"

(* After the attempt at a slot is over, the slot serves what the attempt    *)
(* opened if it succeeded.                                                  *)
GoodReloadTakesEffect ==
    mpc = "serving" =>
        \A s \in Configured : tried[s].ok => loaded[s] = tried[s].ver

(* Once open, a slot stays open until destruction, and a reload never goes  *)
(* back to an older file: failure keeps the previous handle (geoip.h, lines *)
(* 114-115).                                                                *)
NeverGoesBack ==
    [][\A s \in Slot : opened[s] => opened'[s] /\ loaded'[s] >= loaded[s]]_vars

=============================================================================
