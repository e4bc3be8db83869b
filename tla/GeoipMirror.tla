----------------------------- MODULE GeoipMirror -----------------------------
(***************************************************************************)
(* How a database gets to a host without MaxMind credentials:              *)
(* geoip-update/entrypoint.sh downloads it and publishes checksums beside  *)
(* it in a directory that NGINX serves; geoip-sync/geoip-sync.sh on the    *)
(* host follows that directory.  One edition: the scripts treat editions   *)
(* one after the other and independently.                                  *)
(*                                                                         *)
(* A database is its version, 0 for no file, and so is a checksum or       *)
(* metadata file: it says which version it was made for.  Corrupt stands   *)
(* for bytes of no version.  Every file is replaced by a rename, so a      *)
(* download gets one version of one file, but four downloads can straddle  *)
(* a publication.  Both scripts can be killed between any two steps; they  *)
(* start again from the top, and their temporary files are removed first.  *)
(*                                                                         *)
(* "set -e" has no effect in publish_checksums() and update_database():    *)
(* both are called as the condition of an if, so a failing mv or redirect  *)
(* is followed by the next command, and the cycle counts as a success.     *)
(***************************************************************************)
EXTENDS Integers

CONSTANTS
    MaxVersion,     \* bound: versions MaxMind releases
    MaxFault        \* bound: crashes, failed calls and bad downloads

ASSUME MirrorAssumption == MaxVersion \in Nat \ {0} /\ MaxFault \in Nat

VARIABLES
    released,   \* the latest version MaxMind has released, and its time
    now,        \* the clock, in steps of what a file time can tell apart
    preserve,   \* GEOIPUPDATE_PRESERVE_FILE_TIMES
    faults,     \* faults so far
    unnoticed,  \* history: where a failure was not noticed, "mirror" or "host"
    upc,        \* where entrypoint.sh is
    ulocal,     \* its variables: the version MaxMind's metadata names, which
                \* of its temporary files came out bad, and when they were
                \* written
    ok,         \* its last cycle ended without an error
    mirror,     \* the mirror's files, and as history whether its database
                \* was misdated: dated no later than the metadata it found
    spc,        \* where geoip-sync.sh is
    slocal,     \* its temporary files
    local       \* the host's files

upstream == <<released, now, preserve>>
upsets == <<faults, unnoticed>>
updater == <<upc, ulocal, ok, mirror>>
sync == <<spc, slocal, local>>
vars == <<released, now, preserve, faults, unnoticed, upc, ulocal, ok, mirror,
          spc, slocal, local>>

Corrupt == MaxVersion + 1
Version == 1..MaxVersion
File == {"db", "md5", "sha256", "metadata"}
NoFiles == [f \in File |-> 0]

NoLocals == [version |-> 0, bad |-> {}, written |-> 0]

Latest == released.version

Init ==
    /\ released = [version |-> 1, time |-> 1]
    /\ now = 1
    /\ preserve \in BOOLEAN
    /\ faults = 0
    /\ unnoticed = {}
    /\ upc = "start"
    /\ ulocal = NoLocals
    /\ ok = FALSE
    /\ mirror = [file |-> NoFiles, dbTime |-> 0, metadataTime |-> 0,
                  misdated |-> FALSE]
    /\ spc = "sleep"
    /\ slocal = NoFiles
    /\ local = NoFiles

Fault == faults < MaxFault /\ faults' = faults + 1 /\ UNCHANGED unnoticed

(* mv or a redirect fails, for want of space or a right, or a command whose *)
(* status its pipeline hides; the script goes on.                           *)
Unnoticed(where) ==
    /\ faults < MaxFault
    /\ faults' = faults + 1
    /\ unnoticed' = unnoticed \union {where}

(* Two events that are dated can have the same time. *)
Soon == {now, now + 1}

(* MaxMind releases a version. *)
Release ==
    /\ Latest < MaxVersion
    /\ now' \in Soon
    /\ released' = [version |-> Latest + 1, time |-> now']
    /\ UNCHANGED <<preserve, upsets, updater, sync>>

-----------------------------------------------------------------------------
(* Faulty forms, each a slip one of the properties must catch: checksums    *)
(* kept whenever they exist; the completion marker moved first; a download  *)
(* that is not verified; a host that is current as soon as it has a marker. *)
ChecksumsCurrentIfThere == 0 \notin {mirror.file[f] : f \in File \ {"db"}}

MarkerFirst == <<"sha256", "db", "md5", "metadata">>

VerifyNothing ==
    /\ spc = "verify_sha256"
    /\ spc' = "get_metadata"
    /\ UNCHANGED <<upstream, upsets, updater, slocal, local>>

LocalIsCurrentOnceMarked == local["db"] # 0 /\ local["sha256"] # 0

-----------------------------------------------------------------------------
(* entrypoint.sh.  geoipupdate replaces the database if there is a newer    *)
(* one; its time is the release's or the download's.  After a sleep, which  *)
(* takes an hour at least, the clock has moved on; after a restart it need  *)
(* not have.                                                                *)
GeoipUpdate ==
    /\ upc \in {"start", "sleep"}
    /\ upc' = "check"
    /\ ok' = FALSE
    /\ \/ mirror.file["db"] = Latest /\ UNCHANGED <<now, mirror>>
       \/ /\ mirror.file["db"] # Latest
          /\ now' \in Soon
          /\ upc = "sleep" => now' > now
          /\ LET time == IF preserve THEN released.time ELSE now' IN
             mirror' = [mirror EXCEPT
               !.file["db"] = Latest,
               !.dbTime = time,
               !.misdated = mirror.file["metadata"] # 0 /\ time <= mirror.metadataTime]
    /\ UNCHANGED <<released, preserve, upsets, ulocal, sync>>

(* All three files are there and the database is not newer than the last.   *)
ChecksumsCurrent ==
    /\ 0 \notin {mirror.file[f] : f \in File \ {"db"}}
    /\ ~(mirror.dbTime > mirror.metadataTime)

SkipChecksums ==
    /\ upc = "check"
    /\ ChecksumsCurrent
    /\ upc' = "sleep"
    /\ ok' = TRUE
    /\ UNCHANGED <<upstream, upsets, ulocal, mirror, sync>>

(* MaxMind's metadata is for the version that is the latest by now. *)
RetrieveMetadata ==
    /\ upc = "check"
    /\ ~ChecksumsCurrent
    /\ ulocal' = [NoLocals EXCEPT !.version = Latest]
    /\ upc' = "md5"
    /\ UNCHANGED <<upstream, upsets, ok, mirror, sync>>

Md5Mismatch ==
    /\ upc = "md5"
    /\ mirror.file["db"] # ulocal.version
    /\ upc' = "sleep"
    /\ ulocal' = NoLocals
    /\ UNCHANGED <<upstream, upsets, ok, mirror, sync>>

(* The temporary files an unnoticed failure spoils: the redirects to the    *)
(* first two are not checked, and without a SHA-256 (sha256sum failed, awk  *)
(* did not) there is none in the metadata either.  A redirect that leaves   *)
(* no file at all is the failing mv below.                                  *)
Spoilt == {bad \in SUBSET (File \ {"db"}) : "metadata" \in bad => "sha256" \in bad}

(* The checksums agree; the three temporary files are written. *)
WriteTemporaries ==
    /\ upc = "md5"
    /\ mirror.file["db"] = ulocal.version
    /\ now' \in Soon
    /\ \E bad \in Spoilt :
         /\ ulocal' = [ulocal EXCEPT !.bad = bad, !.written = now']
         /\ IF bad = {} THEN UNCHANGED upsets ELSE Unnoticed("mirror")
    /\ upc' = "md5_mv"
    /\ UNCHANGED <<released, preserve, ok, mirror, sync>>

(* mv, in the order md5, sha256, metadata: a renamed file keeps its time.   *)
Published(f) ==
    [mirror EXCEPT !.file[f] = IF f \in ulocal.bad THEN Corrupt ELSE ulocal.version,
                   !.metadataTime = IF f = "metadata" THEN ulocal.written ELSE @]

UpdaterMv(f, from, to) ==
    /\ upc = from
    /\ upc' = to
    /\ \/ mirror' = Published(f) /\ UNCHANGED upsets
       \/ Unnoticed("mirror") /\ UNCHANGED mirror
    /\ ok' = (to = "sleep")
    /\ ulocal' = IF to = "sleep" THEN NoLocals ELSE ulocal
    /\ UNCHANGED <<upstream, sync>>

PublishChecksums ==
    \/ UpdaterMv("md5", "md5_mv", "sha256_mv")
    \/ UpdaterMv("sha256", "sha256_mv", "metadata_mv")
    \/ UpdaterMv("metadata", "metadata_mv", "sleep")

(* A failed geoipupdate, wget or jq ends the cycle; a crash, a restart or   *)
(* SIGTERM ends the script.                                                 *)
UpdaterStops ==
    /\ Fault
    /\ \/ upc \in {"start", "sleep", "check", "md5"} /\ upc' = "sleep"
       \/ upc' = "start"
    /\ ok' = FALSE
    /\ ulocal' = NoLocals
    /\ UNCHANGED <<upstream, mirror, sync>>

Updater ==
    \/ GeoipUpdate \/ SkipChecksums \/ RetrieveMetadata \/ Md5Mismatch
    \/ WriteTemporaries \/ PublishChecksums

-----------------------------------------------------------------------------
(* geoip-sync.sh.  A cycle ends, and its temporary files are removed: at    *)
(* once or, after a crash, before the next one does anything else.          *)
SyncEnds == spc' = "sleep" /\ slocal' = NoFiles

(* A file the mirror does not have ends the cycle, and so does a checksum   *)
(* file without a checksum; the metadata is not looked at.                  *)
Unusable(f) ==
    \/ mirror.file[f] = 0
    \/ f \in {"md5", "sha256"} /\ mirror.file[f] = Corrupt

Get(f, from, to) ==
    /\ spc = from
    /\ IF Unusable(f)
         THEN SyncEnds
         ELSE spc' = to /\ slocal' = [slocal EXCEPT ![f] = mirror.file[f]]
    /\ UNCHANGED <<upstream, upsets, updater, local>>

GetSha256 == Get("sha256", "sleep", "compare")

(* The marker on the host equals the mirror's checksum. *)
LocalIsCurrent == local["db"] # 0 /\ local["sha256"] = slocal["sha256"]

Compare ==
    /\ spc = "compare"
    /\ IF LocalIsCurrent THEN SyncEnds ELSE spc' = "get_db" /\ UNCHANGED slocal
    /\ UNCHANGED <<upstream, upsets, updater, local>>

GetDatabase == Get("db", "get_db", "verify_sha256")

(* A download that succeeds and yet is not what the mirror has. *)
GetCorrupt ==
    /\ spc = "get_db"
    /\ Fault
    /\ slocal' = [slocal EXCEPT !["db"] = Corrupt]
    /\ spc' = "verify_sha256"
    /\ UNCHANGED <<upstream, updater, local>>

VerifySha256 ==
    /\ spc = "verify_sha256"
    /\ IF slocal["db"] = slocal["sha256"]
         THEN spc' = "get_md5" /\ UNCHANGED slocal
         ELSE SyncEnds
    /\ UNCHANGED <<upstream, upsets, updater, local>>

GetMd5 == Get("md5", "get_md5", "verify_md5")

VerifyMd5 ==
    /\ spc = "verify_md5"
    /\ IF slocal["db"] = slocal["md5"]
         THEN spc' = "get_metadata" /\ UNCHANGED slocal
         ELSE SyncEnds
    /\ UNCHANGED <<upstream, upsets, updater, local>>

GetMetadata == Get("metadata", "get_metadata", "mv_1")

(* The order of the four renames: the marker is the last. *)
InstallOrder == <<"db", "md5", "metadata", "sha256">>

InstallStep == <<"mv_1", "mv_2", "mv_3", "mv_4">>

Install ==
    \E i \in 1..4 :
      /\ spc = InstallStep[i]
      /\ IF i = 4 THEN SyncEnds ELSE spc' = InstallStep[i + 1] /\ UNCHANGED slocal
      /\ LET f == InstallOrder[i] IN
           \/ local' = [local EXCEPT ![f] = slocal[f]] /\ UNCHANGED upsets
           \/ Unnoticed("host") /\ UNCHANGED local
      /\ UNCHANGED <<upstream, updater>>

(* A failed download, a missing Last-Modified, a failed touch or a crash.   *)
SyncStops ==
    /\ Fault
    /\ SyncEnds
    /\ UNCHANGED <<upstream, updater, local>>

Sync ==
    \/ GetSha256 \/ Compare \/ GetDatabase \/ VerifySha256
    \/ GetMd5 \/ VerifyMd5 \/ GetMetadata \/ Install

-----------------------------------------------------------------------------
Next ==
    \/ Release \/ Updater \/ UpdaterStops \/ Sync \/ SyncStops \/ GetCorrupt

SafeSpec == Init /\ [][Next]_vars

(* Both scripts are restarted and loop for ever (restart: always; a         *)
(* frequency and an interval other than 0).                                 *)
Spec == SafeSpec /\ WF_vars(Updater) /\ WF_vars(Sync)

-----------------------------------------------------------------------------
(* The marker on the host is not ahead of the database, and where they      *)
(* agree so does the MD5 file.                                              *)
MarkerTrue ==
    local["sha256"] # 0 =>
      /\ local["sha256"] <= local["db"]
      /\ local["sha256"] = local["db"] => local["md5"] = local["db"]

(* geoip-sync/README.md:15 "Publishes the SHA-256 sidecar last as the       *)
(* completion marker": a host never calls itself current with an old or a   *)
(* mixed installation, whatever is killed or fails on either side, as long  *)
(* as the renames on the host itself succeed.                               *)
MarkerIsTrue == "host" \notin unnoticed => MarkerTrue

ChecksumsTrue == \A f \in File : mirror.file[f] = mirror.file["db"]

(* When a cycle of entrypoint.sh has ended without an error, the mirror's   *)
(* checksums are those of the mirror's database, whatever was killed or     *)
(* failed before, with preserved file times and without, unless             *)
(*  - a failure on the mirror went unnoticed: of a mv, of a redirect to a   *)
(*    checksum file, of sha256sum; or                                       *)
(*  - the database came dated no later than the metadata that was there, by *)
(*    its preserved time or because of a restart within the clock's         *)
(*    resolution: line 122 then takes the old checksums for current.        *)
CycleLeavesChecksumsTrue ==
    (upc = "sleep" /\ ok /\ "mirror" \notin unnoticed /\ ~mirror.misdated) =>
      ChecksumsTrue

(* geoip-update/README.md:5 "creates a SHA-256 checksum for every           *)
(* database": after a cycle that ended without an error, and if nothing has *)
(* failed or been killed at all, the checksums are those of the database.   *)
EveryDatabaseHasItsChecksums == (upc = "sleep" /\ ok /\ faults = 0) => ChecksumsTrue

(* Whatever fails or is killed, renames included, the host's database is    *)
(* only ever replaced by a released version that is not older: never by a   *)
(* damaged download, never by what an overtaken download left behind.       *)
HostMovesForward ==
    [][local'["db"] # local["db"] =>
         (local'["db"] \in Version /\ local'["db"] > local["db"])]_vars

(* Once releases and faults have stopped, the host has the latest database  *)
(* with its checksums and keeps it, whatever was interrupted before and     *)
(* whenever the mirror published, unless a failure went unnoticed on either *)
(* side, or the mirror's database is misdated.  The last exception is not a *)
(* rare one with GEOIPUPDATE_PRESERVE_FILE_TIMES=1, which the shipped       *)
(* docker-compose.yml:22 sets: a last release that is misdated (see         *)
(* EveryDatabaseHasItsChecksums) never reaches a host.                      *)
HostCatchesUp ==
    <>[](\/ unnoticed # {} \/ mirror.misdated
         \/ \A f \in File \ {"metadata"} : local[f] = Latest)

=============================================================================
