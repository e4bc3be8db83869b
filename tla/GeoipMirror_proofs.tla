------------------------- MODULE GeoipMirror_proofs -------------------------
(***************************************************************************)
(* Proofs about GeoipMirror, for any number of versions and of faults.     *)
(* Followed says what a cycle of geoip-sync.sh knows of its downloads at   *)
(* each of its steps, Marked what the host's files have to do with them,   *)
(* and Fresh what entrypoint.sh may conclude from the times of its files.  *)
(***************************************************************************)
EXTENDS GeoipMirror, TLAPS

(* The steps of a cycle of geoip-sync.sh, by what has been done by then.    *)
Installing == {"mv_1", "mv_2", "mv_3", "mv_4"}
Md5Verified == {"get_metadata"} \union Installing
Sha256Verified == {"get_md5", "verify_md5"} \union Md5Verified
Downloaded == {"verify_sha256"} \union Sha256Verified
Outdated == {"get_db"} \union Downloaded
Asked == {"compare"} \union Outdated

Publishing == {"md5_mv", "sha256_mv", "metadata_mv"}

WorldTypes ==
    /\ released \in [version : Version, time : Nat]
    /\ now \in Nat
    /\ preserve \in BOOLEAN
    /\ faults \in Nat
    /\ unnoticed \subseteq {"mirror", "host"}

MirrorFiles == [file : [File -> 0..Corrupt], dbTime : Nat, metadataTime : Nat,
                misdated : BOOLEAN]
Locals == [version : 0..MaxVersion, bad : SUBSET File, written : Nat]

UpdaterTypes ==
    /\ upc \in {"start", "sleep", "check", "md5"} \union Publishing
    /\ ulocal \in Locals
    /\ ok \in BOOLEAN
    /\ mirror \in MirrorFiles

SyncTypes ==
    /\ spc \in {"sleep"} \union Asked
    /\ slocal \in [File -> 0..Corrupt]
    /\ local \in [File -> 0..Corrupt]

TypeOK == WorldTypes /\ UpdaterTypes /\ SyncTypes

(* The mirror's database is not ahead of the releases, the host's not ahead *)
(* of the mirror's.  A cycle on the host has a marker, then a database that *)
(* is damaged or not older than the one in place, then one that the marker  *)
(* is for, then one that the MD5 file is for as well.                       *)
Followed ==
    /\ mirror.file["db"] <= Latest
    /\ local["db"] <= mirror.file["db"]
    /\ spc \in Asked => slocal["sha256"] \in Version
    /\ spc \in Downloaded => /\ local["db"] <= slocal["db"]
                             /\ slocal["db"] # Corrupt => slocal["db"] <= mirror.file["db"]
    /\ spc \in Sha256Verified => slocal["db"] = slocal["sha256"]
    /\ spc \in Md5Verified => slocal["md5"] = slocal["db"]

(* Unless a rename on the host has failed: a cycle goes on only with a      *)
(* marker the host does not have, and installs one file after the other.    *)
Marked ==
    "host" \notin unnoticed =>
      /\ MarkerTrue
      /\ spc \in Outdated => local["sha256"] # slocal["sha256"]
      /\ spc \in {"mv_2", "mv_3", "mv_4"} => local["db"] = slocal["db"]
      /\ spc \in {"mv_3", "mv_4"} => local["md5"] = slocal["md5"]

(* What entrypoint.sh publishes is for the database in place, and unless a  *)
(* failure on the mirror went unnoticed, metadata that is not older than    *)
(* the database stands for a complete set, or was there before a database   *)
(* that is misdated.                                                        *)
Fresh ==
    /\ upc # "sleep" => ~ok
    /\ upc \in Publishing => ulocal.version = mirror.file["db"]
    /\ "mirror" \notin unnoticed =>
         /\ upc \in Publishing => ulocal.bad = {}
         /\ (/\ mirror.file["metadata"] # 0
             /\ mirror.dbTime <= mirror.metadataTime
             /\ ~mirror.misdated) => ChecksumsTrue
         /\ upc \in {"sha256_mv", "metadata_mv"} =>
              mirror.file["md5"] = mirror.file["db"]
         /\ upc = "metadata_mv" => mirror.file["sha256"] = mirror.file["db"]

-----------------------------------------------------------------------------
(* Steps *)

(* The four renames of geoip-sync.sh, each with its file.                   *)
InstallOne(f, from, to) ==
    /\ spc = from
    /\ IF to = "sleep" THEN SyncEnds ELSE spc' = to /\ UNCHANGED slocal
    /\ \/ local' = [local EXCEPT ![f] = slocal[f]] /\ UNCHANGED upsets
       \/ Unnoticed("host") /\ UNCHANGED local
    /\ UNCHANGED <<upstream, updater>>

(* The installation is these four renames, in this order.                   *)
LEMMA InstallCases ==
    ASSUME Install
    PROVE  \/ InstallOne("db", "mv_1", "mv_2")
           \/ InstallOne("md5", "mv_2", "mv_3")
           \/ InstallOne("metadata", "mv_3", "mv_4")
           \/ InstallOne("sha256", "mv_4", "sleep")
<1>1. PICK i \in 1..4 :
        /\ spc = InstallStep[i]
        /\ IF i = 4 THEN SyncEnds ELSE spc' = InstallStep[i + 1] /\ UNCHANGED slocal
        /\ LET f == InstallOrder[i] IN
             \/ local' = [local EXCEPT ![f] = slocal[f]] /\ UNCHANGED upsets
             \/ Unnoticed("host") /\ UNCHANGED local
        /\ UNCHANGED <<upstream, updater>>
  BY DEF Install
<1>2. /\ InstallStep[1] = "mv_1" /\ InstallStep[2] = "mv_2"
      /\ InstallStep[3] = "mv_3" /\ InstallStep[4] = "mv_4"
      /\ InstallOrder[1] = "db" /\ InstallOrder[2] = "md5"
      /\ InstallOrder[3] = "metadata" /\ InstallOrder[4] = "sha256"
  BY DEF InstallStep, InstallOrder
<1>3. i = 1 \/ i = 2 \/ i = 3 \/ i = 4
  BY <1>1
<1>4. CASE i = 1
  BY <1>1, <1>2, <1>4 DEF InstallOne
<1>5. CASE i = 2
  BY <1>1, <1>2, <1>5 DEF InstallOne
<1>6. CASE i = 3
  BY <1>1, <1>2, <1>6 DEF InstallOne
<1>7. CASE i = 4
  BY <1>1, <1>2, <1>7 DEF InstallOne
<1>8. QED
  BY <1>3, <1>4, <1>5, <1>6, <1>7

(* The steps of geoip-sync.sh change its own state, those of entrypoint.sh  *)
(* theirs; nothing that has failed is forgotten.                            *)
SyncStep == Sync \/ SyncStops \/ GetCorrupt
UpdaterStep == Updater \/ UpdaterStops

(* The host changes nothing on the mirror or at MaxMind.                    *)
LEMMA SyncLeaves ==
    ASSUME SyncStep
    PROVE  UNCHANGED <<upstream, updater>> /\ unnoticed \subseteq unnoticed'
BY DEF SyncStep, Sync, SyncStops, GetCorrupt, GetSha256, Compare, GetDatabase,
       VerifySha256, GetMd5, VerifyMd5, GetMetadata, Install, Get, Fault,
       Unnoticed, upsets, updater, upstream

(* The mirror changes nothing on the host or at MaxMind.                    *)
LEMMA UpdaterLeaves ==
    ASSUME UpdaterStep
    PROVE  UNCHANGED <<released, preserve, sync>> /\ unnoticed \subseteq unnoticed'
BY DEF UpdaterStep, Updater, UpdaterStops, GeoipUpdate, SkipChecksums,
       RetrieveMetadata, Md5Mismatch, WriteTemporaries, PublishChecksums,
       UpdaterMv, Fault, Unnoticed, upsets, upstream

(* Every step is MaxMind's, the mirror's or the host's.                     *)
LEMMA StepCases ==
    ASSUME [Next]_vars
    PROVE  Release \/ UpdaterStep \/ SyncStep \/ UNCHANGED vars
BY DEF Next, UpdaterStep, SyncStep

-----------------------------------------------------------------------------
(* Types *)

(* Every step preserves the types. *)
LEMMA StepWorld == WorldTypes /\ UpdaterTypes /\ [Next]_vars => WorldTypes'
<1> SUFFICES ASSUME WorldTypes, UpdaterTypes, [Next]_vars PROVE WorldTypes'
  OBVIOUS
<1> USE DEF upsets, upstream
<1>1. CASE Release
  BY <1>1, MirrorAssumption DEF Release, Latest, Soon, Version, WorldTypes
<1>2. CASE UpdaterStep
  <2>1. UNCHANGED upsets \/ Fault \/ Unnoticed("mirror")
    BY <1>2 DEF UpdaterStep, Updater, UpdaterStops, GeoipUpdate, SkipChecksums,
       RetrieveMetadata, Md5Mismatch, WriteTemporaries, PublishChecksums,
       UpdaterMv
  <2>2. UNCHANGED <<released, preserve>>
    BY <1>2, UpdaterLeaves
  <2>3. now' = now \/ now' \in Soon
    BY <1>2 DEF UpdaterStep, Updater, UpdaterStops, GeoipUpdate, SkipChecksums,
       RetrieveMetadata, Md5Mismatch, WriteTemporaries, PublishChecksums,
       UpdaterMv
  <2>4. faults' \in Nat /\ now' \in Nat
    BY <2>1, <2>3 DEF Fault, Unnoticed, Soon, WorldTypes
  <2>5. unnoticed' \in {unnoticed, unnoticed \union {"mirror"}}
    BY <2>1 DEF Fault, Unnoticed
  <2>6. unnoticed' \subseteq {"mirror", "host"}
    BY <2>5 DEF WorldTypes
  <2>7. QED
    BY <2>2, <2>4, <2>6 DEF WorldTypes
<1>3. CASE SyncStep
  <2>1. UNCHANGED upsets \/ Fault \/ Unnoticed("host")
    BY <1>3 DEF SyncStep, Sync, SyncStops, GetCorrupt, GetSha256, Compare,
       GetDatabase, VerifySha256, GetMd5, VerifyMd5, GetMetadata, Install, Get
  <2>2. UNCHANGED upstream
    BY <1>3, SyncLeaves
  <2>3. faults' \in Nat
    BY <2>1 DEF Fault, Unnoticed, WorldTypes
  <2>4. unnoticed' \in {unnoticed, unnoticed \union {"host"}}
    BY <2>1 DEF Fault, Unnoticed
  <2>5. unnoticed' \subseteq {"mirror", "host"}
    BY <2>4 DEF WorldTypes
  <2>6. QED
    BY <2>2, <2>3, <2>5 DEF WorldTypes
<1>4. CASE UNCHANGED vars
  BY <1>4 DEF vars, WorldTypes
<1>5. QED
  BY <1>1, <1>2, <1>3, <1>4, StepCases

(* The mirror's script keeps its types.                                     *)
LEMMA StepUpdaterTypes == WorldTypes /\ UpdaterTypes /\ [Next]_vars => UpdaterTypes'
<1> SUFFICES ASSUME WorldTypes, UpdaterTypes, [Next]_vars PROVE UpdaterTypes'
  OBVIOUS
<1> USE MirrorAssumption DEF Publishing
<1>1. /\ Latest \in 0..MaxVersion /\ Latest \in 0..Corrupt
      /\ Corrupt \in 0..Corrupt /\ 0..MaxVersion \subseteq 0..Corrupt
  BY DEF WorldTypes, Latest, Version, Corrupt
<1>n. NoLocals \in Locals
  BY DEF NoLocals, Locals
<1>2. CASE GeoipUpdate
  <2>1. ASSUME NEW t \in Nat, NEW m \in BOOLEAN
        PROVE  [mirror EXCEPT !.file["db"] = Latest, !.dbTime = t, !.misdated = m]
                 \in MirrorFiles
    BY <1>1 DEF UpdaterTypes, MirrorFiles
  <2>2. CASE UNCHANGED mirror
    BY <1>2, <2>2 DEF GeoipUpdate, UpdaterTypes
  <2>3. CASE now' \in Soon
             /\ mirror' = [mirror EXCEPT
                  !.file["db"] = Latest,
                  !.dbTime = IF preserve THEN released.time ELSE now',
                  !.misdated = mirror.file["metadata"] # 0
                    /\ (IF preserve THEN released.time ELSE now') <= mirror.metadataTime]
    <3>1. (IF preserve THEN released.time ELSE now') \in Nat
      BY <2>3 DEF WorldTypes, Soon
    <3>2. mirror' \in MirrorFiles
      BY <2>1, <2>3, <3>1
    <3>3. QED
      BY <1>2, <3>2 DEF GeoipUpdate, UpdaterTypes
  <2>4. QED
    BY <1>2, <2>2, <2>3 DEF GeoipUpdate
<1>3. CASE SkipChecksums \/ Md5Mismatch
  BY <1>3, <1>n DEF SkipChecksums, Md5Mismatch, UpdaterTypes
<1>4. CASE RetrieveMetadata \/ WriteTemporaries
  <2>1. CASE RetrieveMetadata
    BY <1>1, <2>1 DEF RetrieveMetadata, UpdaterTypes, Locals, NoLocals
  <2>2. CASE WriteTemporaries
    <3>1. now' \in Nat
      BY <2>2 DEF WriteTemporaries, Soon, WorldTypes
    <3>2. ulocal' \in Locals
      BY <2>2, <3>1 DEF WriteTemporaries, Spoilt, UpdaterTypes, Locals
    <3>3. QED
      BY <2>2, <3>2 DEF WriteTemporaries, UpdaterTypes
  <2>3. QED
    BY <1>4, <2>1, <2>2
<1>5. ASSUME NEW f \in File, NEW from, NEW to \in {"sleep"} \union Publishing,
             UpdaterMv(f, from, to)
      PROVE  UpdaterTypes'
  <2>1. Published(f) \in MirrorFiles
    BY <1>1 DEF Published, UpdaterTypes, MirrorFiles, Locals
  <2>2. mirror' \in MirrorFiles
    BY <1>5, <2>1 DEF UpdaterMv, UpdaterTypes
  <2>3. ok' \in BOOLEAN /\ ulocal' \in Locals
    BY <1>5, <1>n DEF UpdaterMv, UpdaterTypes
  <2>4. QED
    BY <1>5, <2>2, <2>3 DEF UpdaterMv, UpdaterTypes
<1>6. CASE UpdaterStops
  BY <1>6, <1>n DEF UpdaterStops, UpdaterTypes
<1>7. CASE UNCHANGED updater
  BY <1>7 DEF updater, UpdaterTypes
<1>8. QED
  BY <1>2, <1>3, <1>4, <1>5, <1>6, <1>7, StepCases, SyncLeaves
     DEF UpdaterStep, Updater, PublishChecksums, File, Release, vars, updater

(* The host's script keeps its types.                                       *)
LEMMA StepSyncTypes == TypeOK /\ [Next]_vars => SyncTypes'
<1> SUFFICES ASSUME UpdaterTypes, SyncTypes, [Next]_vars PROVE SyncTypes'
  BY DEF TypeOK
<1> USE MirrorAssumption
    DEF Installing, Md5Verified, Sha256Verified, Downloaded, Outdated, Asked,
        SyncEnds
<1>1. 0..MaxVersion \subseteq 0..Corrupt /\ Corrupt \in 0..Corrupt
  BY DEF Corrupt
<1>2. NoFiles \in [File -> 0..Corrupt]
  BY DEF NoFiles, Corrupt
<1>3. ASSUME NEW f \in File, NEW from, NEW to \in Asked, Get(f, from, to)
      PROVE  SyncTypes'
  <2>1. mirror.file[f] \in 0..Corrupt
    BY <1>1 DEF UpdaterTypes, MirrorFiles
  <2>2. slocal' \in [File -> 0..Corrupt]
    BY <1>2, <1>3, <2>1 DEF Get, SyncTypes
  <2>3. QED
    BY <1>3, <2>2 DEF Get, SyncTypes
<1>4. CASE Compare \/ VerifySha256 \/ VerifyMd5
  BY <1>2, <1>4 DEF Compare, VerifySha256, VerifyMd5, SyncTypes
<1>5. CASE GetCorrupt
  BY <1>1, <1>5 DEF GetCorrupt, SyncTypes
<1>6. CASE SyncStops
  BY <1>2, <1>6 DEF SyncStops, SyncTypes
<1>7. ASSUME NEW f \in File, NEW from, NEW to \in {"sleep"} \union Installing,
             InstallOne(f, from, to)
      PROVE  SyncTypes'
  BY <1>2, <1>7 DEF InstallOne, SyncTypes
<1>8. CASE UNCHANGED sync
  BY <1>8 DEF sync, SyncTypes
<1>9. QED
  BY <1>3, <1>4, <1>5, <1>6, <1>7, <1>8, StepCases, InstallCases, UpdaterLeaves
     DEF SyncStep, Sync, GetSha256, GetDatabase, GetMd5, GetMetadata, File,
         Release, vars, sync

(* Every step preserves all the types.                                      *)
LEMMA StepTypeOK == TypeOK /\ [Next]_vars => TypeOK'
BY StepWorld, StepUpdaterTypes, StepSyncTypes DEF TypeOK

(* The initial state has the types, *)
LEMMA InitTypeOK == Init => TypeOK
<1> SUFFICES ASSUME Init PROVE TypeOK
  OBVIOUS
<1> USE MirrorAssumption
<1>3. WorldTypes
  BY DEF Init, WorldTypes, Version
<1>4. NoFiles \in [File -> 0..Corrupt]
  BY DEF NoFiles, Corrupt
<1>5. mirror \in MirrorFiles
  BY <1>4 DEF Init, MirrorFiles
<1>6. UpdaterTypes
  <2>1. ulocal \in Locals
    BY DEF Init, NoLocals, Locals
  <2>2. QED
    BY <1>5, <2>1 DEF Init, UpdaterTypes
<1>7. SyncTypes
  BY <1>4 DEF Init, SyncTypes
<1>8. QED
  BY <1>3, <1>6, <1>7 DEF TypeOK

(* The variables of the two scripts, the files on both sides and the        *)
(* releases have their types in every reachable state.                      *)
THEOREM TypeCorrect == SafeSpec => []TypeOK
BY InitTypeOK, StepTypeOK, PTL DEF SafeSpec

-----------------------------------------------------------------------------
(* The database *)

(* The mirror's database is only replaced by a newer one.                   *)
LEMMA MirrorMovesForward ==
    ASSUME TypeOK, Followed, [Next]_vars
    PROVE  /\ mirror'.file["db"] >= mirror.file["db"]
           /\ mirror'.file["db"] <= Latest'
<1> USE MirrorAssumption DEF Followed, File
<1>1. Latest \in Version /\ mirror.file["db"] \in 0..Corrupt
  BY DEF TypeOK, WorldTypes, Latest, UpdaterTypes, MirrorFiles
<1>2. CASE Release
  <2>1. Latest' = Latest + 1 /\ UNCHANGED mirror
    BY <1>2 DEF Release, Latest, updater
  <2>2. QED
    BY <1>1, <2>1 DEF Version, Corrupt
<1>3. CASE UpdaterStep
  <2>1. Latest' = Latest
    BY <1>3, UpdaterLeaves DEF Latest
  <2>2. mirror'.file["db"] \in {mirror.file["db"], Latest}
    <3>1. CASE GeoipUpdate
      BY <3>1 DEF GeoipUpdate, TypeOK, UpdaterTypes, MirrorFiles
    <3>2. ASSUME NEW f \in {"md5", "sha256", "metadata"}, NEW from, NEW to,
                 UpdaterMv(f, from, to)
          PROVE  mirror'.file["db"] = mirror.file["db"]
      BY <3>2 DEF UpdaterMv, Published, TypeOK, UpdaterTypes, MirrorFiles
    <3>3. QED
      BY <1>3, <3>1, <3>2 DEF UpdaterStep, Updater, UpdaterStops, SkipChecksums,
         RetrieveMetadata, Md5Mismatch, WriteTemporaries, PublishChecksums
  <2>3. QED
    BY <1>1, <2>1, <2>2 DEF Version, Corrupt
<1>4. CASE SyncStep
  BY <1>1, <1>4, SyncLeaves DEF Latest, Corrupt, updater, upstream
<1>5. CASE UNCHANGED vars
  BY <1>1, <1>5 DEF Latest, Corrupt, vars
<1>6. QED
  BY <1>2, <1>3, <1>4, <1>5, StepCases

(* What a cycle on the host knows of its downloads stays true while the     *)
(* mirror publishes.                                                        *)
LEMMA StepFollowed == TypeOK /\ Followed /\ [Next]_vars => Followed'
<1> SUFFICES ASSUME TypeOK, Followed, [Next]_vars PROVE Followed'
  OBVIOUS
<1> USE MirrorAssumption
    DEF Installing, Md5Verified, Sha256Verified, Downloaded, Outdated, Asked,
        SyncEnds
<1>1. /\ mirror.file \in [File -> 0..Corrupt]
      /\ mirror'.file \in [File -> 0..Corrupt]
      /\ slocal \in [File -> 0..Corrupt] /\ local \in [File -> 0..Corrupt]
      /\ "db" \in File /\ "md5" \in File /\ "sha256" \in File
      /\ "metadata" \in File
  BY StepTypeOK DEF TypeOK, UpdaterTypes, SyncTypes, MirrorFiles, File
<1>2. /\ mirror'.file["db"] >= mirror.file["db"]
      /\ mirror'.file["db"] <= Latest'
  BY MirrorMovesForward
<1>3. CASE UNCHANGED sync
  BY <1>1, <1>2, <1>3 DEF sync, Followed, Corrupt
<1>4. CASE SyncStep
  <2>1. mirror' = mirror
    BY <1>4, SyncLeaves DEF updater
  <2>2. CASE GetSha256
    BY <1>1, <1>2, <2>1, <2>2 DEF GetSha256, Get, Unusable, Followed,
       Version, Corrupt
  <2>3. CASE Compare
    BY <1>2, <2>1, <2>3 DEF Compare, Followed
  <2>4. CASE GetDatabase
    BY <1>1, <1>2, <2>1, <2>4 DEF GetDatabase, Get, Followed, Corrupt
  <2>5. CASE GetCorrupt
    BY <1>1, <1>2, <2>1, <2>5 DEF GetCorrupt, Followed, Corrupt
  <2>6. CASE VerifySha256 \/ VerifyMd5
    BY <1>1, <1>2, <2>1, <2>6 DEF VerifySha256, VerifyMd5, Followed
  <2>7. CASE GetMd5 \/ GetMetadata
    BY <1>1, <1>2, <2>1, <2>7 DEF GetMd5, GetMetadata, Get, Followed
  <2>8. CASE InstallOne("db", "mv_1", "mv_2")
    BY <1>1, <1>2, <2>1, <2>8 DEF InstallOne, Followed, Corrupt, Version
  <2>9. ASSUME NEW f \in {"md5", "metadata", "sha256"}, NEW from \in Installing,
               NEW to \in {"sleep"} \union Installing, InstallOne(f, from, to)
        PROVE  Followed'
    BY <1>1, <1>2, <2>1, <2>9 DEF InstallOne, Followed
  <2>10. CASE SyncStops
    BY <1>1, <1>2, <2>1, <2>10 DEF SyncStops, Followed
  <2>11. QED
    BY <1>4, <2>2, <2>3, <2>4, <2>5, <2>6, <2>7, <2>8, <2>9, <2>10, InstallCases
       DEF SyncStep, Sync
<1>5. QED
  BY <1>3, <1>4, StepCases, UpdaterLeaves DEF Release, vars, sync

(* At first there is no database anywhere but at MaxMind.                   *)
LEMMA InitFollowed == Init => Followed
<1> SUFFICES ASSUME Init PROVE Followed
  OBVIOUS
<1> QED
  BY MirrorAssumption DEF Init, Followed, NoFiles, File, Latest, Version, Asked,
     Outdated, Downloaded, Sha256Verified, Md5Verified, Installing

(* Whatever fails or is killed, renames included, geoip-sync.sh replaces    *)
(* the host's database only by a released version that is not older.        *)
THEOREM HostsMoveForward == SafeSpec => HostMovesForward
<1>1. ASSUME TypeOK, Followed, [Next]_vars
      PROVE  local'["db"] # local["db"] =>
               (local'["db"] \in Version /\ local'["db"] > local["db"])
  <2> SUFFICES ASSUME local'["db"] # local["db"]
               PROVE  local'["db"] \in Version /\ local'["db"] > local["db"]
    OBVIOUS
  <2>1. SyncStep
    BY <1>1, StepCases, UpdaterLeaves DEF Release, vars, sync
  <2>2. CASE InstallOne("db", "mv_1", "mv_2")
    <3>1. local'["db"] = slocal["db"] /\ spc = "mv_1"
      BY <1>1, <2>2 DEF InstallOne, TypeOK, SyncTypes, File
    <3>2. QED
      BY <1>1, <3>1, MirrorAssumption DEF Followed, TypeOK, SyncTypes, File,
         Version, Corrupt, Asked, Outdated, Downloaded, Sha256Verified,
         Md5Verified, Installing
  <2>3. ASSUME NEW f \in {"md5", "metadata", "sha256"}, NEW from, NEW to,
               InstallOne(f, from, to)
        PROVE  local'["db"] = local["db"]
    BY <1>1, <2>3 DEF InstallOne, TypeOK, SyncTypes, File
  <2>4. QED
    BY <2>1, <2>2, <2>3, InstallCases
       DEF SyncStep, Sync, SyncStops, GetCorrupt, GetSha256, Compare,
           GetDatabase, VerifySha256, GetMd5, VerifyMd5, GetMetadata, Get
<1>2. SafeSpec => [](TypeOK /\ Followed)
  BY InitTypeOK, StepTypeOK, InitFollowed, StepFollowed, PTL DEF SafeSpec
<1>3. SafeSpec => [][TypeOK /\ Followed /\ [Next]_vars]_vars
  BY <1>2, PTL DEF SafeSpec
<1>4. QED
  BY <1>1, <1>3, PTL DEF HostMovesForward

-----------------------------------------------------------------------------
(* The marker *)

(* Every step keeps the marker behind the files it stands for.              *)
LEMMA StepMarked == TypeOK /\ Followed /\ Marked /\ [Next]_vars => Marked'
<1> SUFFICES ASSUME TypeOK, Followed, Marked, [Next]_vars, "host" \notin unnoticed'
             PROVE  Marked'
  BY DEF Marked
<1> USE MirrorAssumption
    DEF Installing, Md5Verified, Sha256Verified, Downloaded, Outdated, Asked,
        SyncEnds, MarkerTrue
<1>1. /\ slocal \in [File -> 0..Corrupt] /\ local \in [File -> 0..Corrupt]
      /\ "db" \in File /\ "md5" \in File /\ "sha256" \in File
      /\ "metadata" \in File
  BY DEF TypeOK, SyncTypes, File
<1>2. "host" \notin unnoticed
  BY StepCases, UpdaterLeaves, SyncLeaves DEF Release, vars, upsets
<1>3. CASE UNCHANGED sync
  BY <1>2, <1>3 DEF sync, Marked
<1>4. CASE SyncStep
  <2>1. ASSUME NEW f \in File, NEW from \in Asked, NEW to \in Downloaded,
               f # "sha256", from # "compare", Get(f, from, to),
               to = "mv_1" \/ to \notin Installing
        PROVE  Marked'
    BY <1>1, <1>2, <2>1 DEF Get, Marked
  <2>2. CASE GetSha256
    BY <1>2, <2>2 DEF GetSha256, Get, Marked
  <2>3. CASE Compare
    BY <1>1, <1>2, <2>3 DEF Compare, LocalIsCurrent, Marked, Followed, Version
  <2>4. CASE VerifySha256 \/ VerifyMd5 \/ SyncStops
    BY <1>1, <1>2, <2>4 DEF VerifySha256, VerifyMd5, SyncStops, Marked
  <2>5. CASE GetCorrupt
    BY <1>1, <1>2, <2>5 DEF GetCorrupt, Marked
  <2>6. ASSUME NEW f, NEW from, NEW to, InstallOne(f, from, to)
        PROVE  local' = [local EXCEPT ![f] = slocal[f]]
    BY <2>6 DEF InstallOne, Unnoticed
  <2>7. CASE InstallOne("db", "mv_1", "mv_2")
    BY <1>1, <1>2, <2>6, <2>7 DEF InstallOne, Marked, Followed, Version, Corrupt
  <2>8. CASE InstallOne("md5", "mv_2", "mv_3")
    BY <1>1, <1>2, <2>6, <2>8 DEF InstallOne, Marked, Followed
  <2>9. CASE InstallOne("metadata", "mv_3", "mv_4")
    BY <1>1, <1>2, <2>6, <2>9 DEF InstallOne, Marked
  <2>10. CASE InstallOne("sha256", "mv_4", "sleep")
    BY <1>1, <1>2, <2>6, <2>10 DEF InstallOne, Marked, Followed, Corrupt
  <2>11. QED
    BY <1>4, <2>1, <2>2, <2>3, <2>4, <2>5, <2>7, <2>8, <2>9, <2>10, InstallCases
       DEF SyncStep, Sync, GetDatabase, GetMd5, GetMetadata, File
<1>5. QED
  BY <1>3, <1>4, StepCases, UpdaterLeaves DEF Release, vars, sync

(* geoip-sync/README.md:15 "Publishes the SHA-256 sidecar last as the       *)
(* completion marker": whatever is killed or fails on either side, a host   *)
(* whose own renames succeed never calls itself current with an old or a    *)
(* mixed installation.                                                      *)
THEOREM MarkersAreTrue == SafeSpec => []MarkerIsTrue
<1>1. Init => Marked
  BY DEF Init, Marked, MarkerTrue, NoFiles, File, Outdated, Downloaded,
     Sha256Verified, Md5Verified, Installing
<1>2. Marked => MarkerIsTrue
  BY DEF Marked, MarkerIsTrue
<1>3. QED
  BY <1>1, <1>2, InitTypeOK, StepTypeOK, InitFollowed, StepFollowed, StepMarked,
     PTL DEF SafeSpec

-----------------------------------------------------------------------------
(* The mirror's checksums *)

(* Every step keeps what the times of the mirror's files tell.              *)
LEMMA StepFresh ==
    ASSUME TypeOK, Fresh, [Next]_vars
    PROVE  Fresh'
<1> USE DEF upsets, upstream, sync, ChecksumsTrue
<1>1. /\ mirror \in MirrorFiles
      /\ now \in Nat
      /\ ulocal \in Locals
  BY DEF TypeOK, UpdaterTypes, WorldTypes
<1>2. CASE GeoipUpdate
  <2>1. CASE mirror' = mirror
    BY <1>2, <2>1 DEF GeoipUpdate, Fresh, Publishing
  <2>2. ASSUME NEW t,
               mirror' = [mirror EXCEPT !.file["db"] = Latest, !.dbTime = t,
                            !.misdated = mirror.file["metadata"] # 0
                                           /\ t <= mirror.metadataTime]
        PROVE  Fresh'
    <3>1. /\ mirror'.file["metadata"] = mirror.file["metadata"]
          /\ mirror'.dbTime = t /\ mirror'.metadataTime = mirror.metadataTime
          /\ mirror'.misdated = (mirror.file["metadata"] # 0
                                   /\ t <= mirror.metadataTime)
      BY <1>1, <2>2 DEF MirrorFiles, File
    <3>2. ~(/\ mirror'.file["metadata"] # 0
            /\ mirror'.dbTime <= mirror'.metadataTime
            /\ ~mirror'.misdated)
      BY <3>1
    <3>3. upc' = "check" /\ ~ok' /\ UNCHANGED unnoticed
      BY <1>2 DEF GeoipUpdate
    <3>4. QED
      BY <3>2, <3>3 DEF Fresh, Publishing
  <2>3. QED
    BY <1>2, <2>1, <2>2 DEF GeoipUpdate
<1>3. CASE SkipChecksums \/ Md5Mismatch
  BY <1>3 DEF SkipChecksums, Md5Mismatch, Fresh, Publishing
<1>4. CASE RetrieveMetadata
  BY <1>1, <1>4 DEF RetrieveMetadata, Fresh, Publishing
<1>5. CASE WriteTemporaries
  BY <1>1, <1>5 DEF WriteTemporaries, Unnoticed, Fresh, Publishing, Locals
<1>6. CASE UpdaterMv("md5", "md5_mv", "sha256_mv")
  BY <1>1, <1>6 DEF UpdaterMv, Published, Unnoticed, Fresh, Publishing,
     MirrorFiles, File
<1>7. CASE UpdaterMv("sha256", "sha256_mv", "metadata_mv")
  BY <1>1, <1>7 DEF UpdaterMv, Published, Unnoticed, Fresh, Publishing,
     MirrorFiles, File
<1>8. CASE UpdaterMv("metadata", "metadata_mv", "sleep")
  <2>1. CASE mirror' = Published("metadata") /\ UNCHANGED upsets
    <3>1. /\ \A f \in File \ {"metadata"} : mirror'.file[f] = mirror.file[f]
          /\ ulocal.bad = {} => mirror'.file["metadata"] = ulocal.version
      BY <1>1, <2>1 DEF Published, MirrorFiles, File
    <3>2. ASSUME "mirror" \notin unnoticed
          PROVE  \A f \in File : mirror'.file[f] = mirror'.file["db"]
      BY <1>8, <3>1, <3>2 DEF UpdaterMv, Fresh, Publishing, File
    <3>3. QED
      BY <1>8, <2>1, <3>1, <3>2 DEF UpdaterMv, Fresh, Publishing
  <2>2. CASE Unnoticed("mirror") /\ UNCHANGED mirror
    BY <1>8, <2>2 DEF UpdaterMv, Unnoticed, Fresh, Publishing
  <2>3. QED
    BY <1>8, <2>1, <2>2 DEF UpdaterMv
<1>9. CASE UpdaterStops
  BY <1>9 DEF UpdaterStops, Fault, Fresh, Publishing
<1>10. CASE SyncStep
  BY <1>10, SyncLeaves DEF updater, Fresh
<1>11. CASE Release \/ UNCHANGED vars
  BY <1>11 DEF Release, vars, updater, Fresh
<1>12. QED
  BY <1>2, <1>3, <1>4, <1>5, <1>6, <1>7, <1>8, <1>9, <1>10, <1>11, StepCases
     DEF UpdaterStep, Updater, PublishChecksums

(* The property, one step later.                                            *)
LEMMA StepChecksums ==
    ASSUME TypeOK, Fresh, CycleLeavesChecksumsTrue, [Next]_vars
    PROVE  CycleLeavesChecksumsTrue'
<1> USE DEF upsets, CycleLeavesChecksumsTrue, ChecksumsTrue
<1>1. CASE SkipChecksums
  <2>1. mirror.file["metadata"] # 0 /\ mirror.dbTime <= mirror.metadataTime
    BY <1>1 DEF SkipChecksums, ChecksumsCurrent, File, TypeOK, UpdaterTypes, MirrorFiles
  <2>2. QED
    BY <1>1, <2>1 DEF SkipChecksums, Fresh
<1>2. CASE UpdaterMv("metadata", "metadata_mv", "sleep")
  <2>1. CASE mirror' = Published("metadata") /\ UNCHANGED upsets
    <3>1. /\ \A f \in File \ {"metadata"} : mirror'.file[f] = mirror.file[f]
          /\ ulocal.bad = {} => mirror'.file["metadata"] = ulocal.version
      BY <2>1 DEF Published, TypeOK, UpdaterTypes, MirrorFiles, File
    <3>2. QED
      BY <1>2, <2>1, <3>1 DEF UpdaterMv, Fresh, Publishing, File
  <2>2. QED
    BY <1>2, <2>1 DEF UpdaterMv, Unnoticed
<1>3. CASE Md5Mismatch
  BY <1>3 DEF Md5Mismatch, Fresh
<1>4. CASE UpdaterStep /\ (upc' # "sleep" \/ ~ok')
  BY <1>4
<1>5. CASE SyncStep
  BY <1>5, SyncLeaves DEF updater
<1>6. CASE Release \/ UNCHANGED vars
  BY <1>6 DEF Release, vars, updater
<1>7. QED
  BY <1>1, <1>2, <1>3, <1>4, <1>5, <1>6, StepCases
     DEF UpdaterStep, Updater, UpdaterStops, GeoipUpdate, RetrieveMetadata,
         WriteTemporaries, PublishChecksums, UpdaterMv

(* With preserved file times or without, whatever was killed or failed, a   *)
(* cycle of entrypoint.sh that ends without an error leaves the checksums   *)
(* of the database that is in place, unless a failure on the mirror went    *)
(* unnoticed or the database came dated no later than the metadata it       *)
(* found.  Those are the only two ways line 122 of entrypoint.sh, or the    *)
(* publication after it, can go wrong.                                      *)
THEOREM CyclesLeaveChecksumsTrue == SafeSpec => []CycleLeavesChecksumsTrue
<1>1. Init => Fresh /\ CycleLeavesChecksumsTrue
  BY DEF Init, Fresh, CycleLeavesChecksumsTrue, Publishing, NoFiles, File
<1>2. TypeOK /\ Fresh /\ [Next]_vars => Fresh'
  BY StepFresh
<1>3. TypeOK /\ Fresh /\ CycleLeavesChecksumsTrue /\ [Next]_vars
        => CycleLeavesChecksumsTrue'
  BY StepChecksums
<1>4. QED
  BY <1>1, <1>2, <1>3, InitTypeOK, StepTypeOK, PTL DEF SafeSpec

=============================================================================
