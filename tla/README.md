# nshgeoip in TLA+

nshgeoip is a small HTTP daemon that answers GeoIP lookups from up to three
memory-mapped MaxMind databases.  One thread polls and accepts, a fixed pool of
threads serves, SIGHUP reloads the databases, SIGTERM and SIGINT end the
daemon.  Around it are shell scripts that mirror and install the database files.

This directory models the parts of it that tests reach badly: the hand-over of
connections between threads, the swap of a database under running lookups, the
signals, the shutdown, several processes that want the same socket path, slow
clients, counters that are read while they move, files that are replaced while
they are read, what a command line, a file and an environment add up to, and the
way of a database from MaxMind over a mirror to a host.
TLC checks the models on small instances; TLAPS proves the safety properties of
all of them for every number of threads, descriptors, reloads, processes,
requests and versions, and for every command line, configuration file and
environment.  `PROJECT.json` has the
list of runs, theorems, hazards and findings, and says which source lines each
definition models.

## The system

| part | state | operations | talks to |
|---|---|---|---|
| `ThreadPool` (thread_pool.cpp) | `queue_`, `stop_`, worker threads, `mutex_`, `cv_` | `submit`, `shutdown`, `worker_loop`, destructor | called by the main thread, calls `handle_connection` |
| `GeoIpDatabases` (geoip.cpp) | three `MMDB_s` handles with their open flags, one `shared_mutex` | `open_*`, `reload_*`, `lookup`, `*_metadata`, `has_*`, destructor | written by the main thread, read by workers |
| `Server` loop (server.cpp) | listeners, `signal_fd_`, the pool, the databases | `init`, `run`, `reload_databases`, `cleanup`, destructor | kernel: poll, accept, signals |
| socket setup (server.cpp) | the file at `socket_path`, the TCP port, `socket_created_`, the backlog | `setup_socket`, `path_has_live_listener`, `setup_tcp_listeners`, unlinking | other nshgeoip processes, through the file system |
| request handling (server.cpp, http.cpp) | one connection: bytes read, deadline | `read_http_head`, `parse_http_request`, `handle_connection` | databases, metrics |
| metrics (metrics.cpp) | eleven atomic counters | `record_request`, `record_response`, rendering | every worker, scrapes |
| metrics file (server.cpp) | a file and its `.tmp` | `write_metrics_file` | file system |
| configuration, command line (config.cpp, main.cpp) | argv, a `Config` | options and modes, `load_config`, `apply_env_overrides`, `apply_default_db_paths` | files, environment; hands the `Config` to `Server` |
| health check (main.cpp) | one connection | `check_health` | a running daemon, through its socket |
| text and address helpers, logging | none | pure functions, output | - |
| geoip-update, geoip-sync (shell) | database, checksum and metadata files on two hosts | download, verify, rename | each other over HTTP, the daemon through files |
| nshgeoipctl (shell) | configuration, service state | install, download, start, stop, reload | systemd, the daemon through signals and files |

What makes each part correct:

* the pool: every descriptor has one owner and is closed once; no connection
  waits beside a sleeping worker; shutdown serves what was queued, and returns;
* the databases: nobody reads through an unmapped file, nothing stays mapped
  without an owner, one lookup sees one set of files, a failed reload changes
  nothing;
* the server: no SIGHUP is lost, a reload ends, an accepted connection is
  answered or dropped, SIGTERM ends everything in an order that keeps the
  databases alive longer than their readers;
* socket setup: a running daemon is reachable at its path, a stale socket never
  blocks a start, nothing that is not a socket is removed, a process that ends
  leaves no listener, no port and, if it can, no socket;
* request handling: a slow or silent client cannot hold a worker, what is said
  of a request is true of its bytes, every path counts, answers and closes;
* metrics: a client that has its answer is in the next scrape, and one scrape is
  not misleading about the requests in flight;
* metrics file: a collector reads one whole rendering unless it was lost on its
  way to the disk, never an older one than before, and a failing disk does not end
  the refreshing;
* mirror and host: a checksum is of the database beside it, the host's database
  only moves forward, and in the end the host has what MaxMind released last;
* command line and configuration: the exit status is the one the arguments ask
  for, nothing that is refused is served, each key has the value that the precedence of
  environment, file, default and auto-detection gives it;
* health check: it ends, whatever the daemon does.

The hard behaviours are interleavings (workers against the main thread, readers
against the writer, processes against each other), crashes between system
calls, coalescing signals, running out of descriptors, and waiting that has to
end.  `PROJECT.json` lists them under "hazards", each at its line.

## Modules

| module | what it is |
|---|---|
| `ConnectionService` | what the pool promises, without threads: a connection is free, offered or taken; the service is serving, draining or stopped |
| `ThreadPool` | the pool itself, with the refinement mapping to `ConnectionService` |
| `ThreadPool_proofs` | theorems about `ThreadPool` |
| `GeoIpDatabases` | the databases, with the main thread that opens, reloads and destroys them and the workers that read |
| `GeoIpDatabases_proofs` | theorems about `GeoIpDatabases` |
| `Server` | composition: the main thread's program, `ThreadPool` and `GeoIpDatabases` (both by `INSTANCE`), clients, signals |
| `Server_proofs` | theorems about `Server`, with those of its parts by `INSTANCE` |
| `Startup` | `main()` from the command line to `Server::run()`, with the configuration |
| `SocketPath` | the socket path and TCP port as several processes use them, with the health checks that connect to them |
| `HttpHead` | `read_http_head()` against a client and a clock |
| `RequestHandler` | `handle_connection()` on several workers, with the HTTP functions and the counters |
| `Request` | composition of `HttpHead` and `RequestHandler`: a worker reads a request and handles it |
| `MetricsFile` | `write_metrics_file()`, its schedule in `run()`, a collector |
| `GeoipMirror` | geoip-update and geoip-sync, file by file |
| `Startup_proofs`, `SocketPath_proofs`, `RequestHandler_proofs`, `MetricsFile_proofs`, `GeoipMirror_proofs` | theorems about these modules; those about `HttpHead` are in the last section of `RequestHandler_proofs` |
| `MC...` | the instances TLC checks |

`Startup` ends where `Server` begins.
`Server` is where pool and databases meet.  `HttpHead` and `RequestHandler`
refine what it treats as one step of a worker: `RequestHandler` takes any result
of `read_http_head()` and of a lookup, which `HttpHead` and `GeoIpDatabases`
detail.  `Request` puts the first of these in: the connection that is read first
gets its result from `HttpHead`.

The modules with properties start with *faulty forms* of some operations.  No
specification uses them; each is a slip in the code (a dropped guard, a
forgotten notification) under which TLC must find a property violated, so that
a property that could not fail would be noticed.

### ThreadPool

A stretch of code that holds `mutex_` is one action, since `queue_` and `stop_`
are touched under it only.  The notifications come after the unlock and are
actions of their own (`NotifyOne`, `NotifyAll`).  A worker is in `acquire` when
it is about to hold the mutex, at line 70 or on the way out of `wait()`;
`Sleep`, `TakeFront` and `Exit` are the three outcomes of lines 71-84.  The
condition variable may wake spuriously.  `open` is the set of client
descriptors the process has open; `Accept` takes a number that is not open, as
the kernel does, so numbers are reused.  `caller` is the one thread that calls
`submit()`, `shutdown()` and the destructor.

### GeoIpDatabases

Each successful `MMDB_open()` gets a new generation number, and `mapped` holds
the generations that are in memory: a use after unmap is a generation read
while not in `mapped`.  The main thread's `mpc` walks `open`, `lock`, `close`,
`assign`, `describe` for each slot in the order country, ASN, city; that order,
and what a failed open means (`init()` gives up, `reload_databases()` keeps the
old handle and goes on) is the Server's.  The lock lets readers in while a
writer waits, as the reader-preferring `std::shared_mutex` of glibc does.  A
lookup is one action per database searched, plus one for reading the fields
through the `MMDB_entry_s`; `seen` is a history of the generations it has
searched.  `has_*()` reads without the lock (`ReadFlag`).  The reading of a
`bool` that another thread may be storing is a data race in C++; the value
stored is the one already there, so there is one value to read.  What a file
contains is a version, and a file can be replaced at any moment by another,
complete or not.

### Server

`spc` is the main thread's place in `init()`, `run()`, `cleanup()` and the
destructor.  `Poll` records which listeners and whether the signal descriptor
were ready; the accept loop then works from that record, as the code works from
`revents`, while backlogs and pending signals change.  `Accept` and `Submit`
are the pool's actions, `Reload` and `OpenDatabases` the databases'.  Signals
are a set: a second SIGHUP while one is pending is not queued.  `hpc` is a
worker's place in `handle_connection()`, from reading the request to the
response; a request that needs no database, or that never comes complete before
the deadline, is `HandleDirectly`.

Left out here: `metrics_file` (off, so `poll()` has no timeout; see
`MetricsFile`), the contents of requests (see `RequestHandler`), an exception
from starting a thread, and `accept4()` errors other than EAGAIN and EMFILE.

### Startup

`pc` is the place in `main()`.  A command line is `argv`
together with `heads`, the positions in it that are options, so that the
properties can say what it asks for without repeating the parser; the parser
itself looks at `argv` only, and takes any element after an option that wants one
as its operand.  `InputAssumption` says when `heads` is right; every `argv` has
exactly one such set.  The
configuration file is absent, unreadable, a directory or a file; it can change
until it is opened, and its lines are chosen as they are read.  A failed read
ends the file, as `getline()` has it, and so does a directory, which an
`ifstream` opens.  An environment sets some of the keys.  A text is a string;
`NumberOf` says what `strtol()` makes of it, for the texts it reads to the end.
`ApplyDefaultDbPaths` is given the files that exist.  `CheckDb`, `HealthCheck` and
`InitServer` succeed or fail as the parts they call do; a signal that comes
before `setup_signals()` kills the process.

### SocketPath

Every process goes through `mkdir`, `lstat`, the probe, `unlink`, `socket` and
`bind`, `chmod`, `listen`, TCP setup, each a separate action because another
process can run in between.  The path holds nothing, somebody's regular file,
or the socket of a process; a socket with a living listener answers the probe.
`unlink` and `chmod` go by path.  A process can crash in any state; the kernel
closes its descriptors and the file stays.  System calls can fail for want of
resources or rights, and starts and stops of different processes can overlap;
the history variable `disturbed` remembers which of this has happened, since not
everything holds after it.  The `unlink()` at the end, of `cleanup()` or of
`~Server()`, can fail too (`UnlinkFails`): the process ends all the same, in the
state `left`, and its socket stays.  A file that is not a socket is at the path
from the start or never; one that somebody puts there between the `lstat()` and
the `unlink()` of a process is not examined.

A listener has a backlog with a bound.  The probe and `check_health()` connect
with a blocking socket that has no timeout yet, so both wait while it is full.
A probe's connection is closed at once, and that of a check after its answer or
its three seconds (`CheckGivesUp`); until it is accepted, a closed connection
keeps its place.  The check over TCP is not modelled in steps.

### HttpHead

A stream is how many bytes it has and after how many its empty line ends.  One
turn of the loop is `CheckDeadline`, one of the `poll()` outcomes and one of the
`recv()` outcomes; the clock can move between any two of them.  `recv()` returns
any number of the bytes that are there, up to the size of the buffer.  The clock
is finer than a millisecond, because the remaining time is cut to whole
milliseconds: `poll()` is called with 0 in the last one and the result is
`Timeout` a little early.  Both calls may be interrupted as often as signals like.

### RequestHandler

Workers share the eleven counters and nothing else, so each increment and each
load of one is an action, and the local work in between belongs to it.  A
request is what `parse_http_request()` tells apart: version, method, target,
the sequence of query parameters, the sequence of Accept headers; an escape that
`percent_decode()` refuses is the text "bad".  Routing, negotiation, the first
`ip` parameter winning, the last Accept header winning, HEAD, status, headers
and Content-Length are as in the code; a body is the values it shows and its
layout, and two bodies have the same length when they are equal.  `LoadCounter`
loads one counter in the order of `render_prometheus_metrics()`.

The counters are relaxed atomics, and the model interleaves their accesses.
`ScrapeCoversAnswered` does not need more: it compares a scrape with requests
whose clients had their answers before, which orders the two through the socket.  `ScrapeBoundsInFlight` and `CountersBalance`
relate different counters, and are statements about the interleaved state.

### Request

`read_http_head()` touches its locals, its socket and the clock, so its steps
commute with those of all other connections, and `Request` lets them come first.
`TakeResult` is the `switch` on what it returned; after it the locals are gone.

### MetricsFile

A text is the number of its rendering, written and read in pieces.  `dir` says
which inode the names `metrics_file` and `.tmp` have; `Open` truncates the file
that has the name or makes one, `Rename` moves the name, and a collector keeps
the inode it opened.  Opening, writing and renaming can fail, and the process
can be killed between any two steps and start again.  Any connection or signal
wakes the loop before it is time (`PollWakes`, `NotDue`).  The text
of two or three kilobytes may still be in the buffer of the stream when it is
tested after `out << text` (`WriteDone` with nothing written); the destructor
then writes it, and if that fails nobody notices and the file is renamed as it
is (`CloseFails`).  `lost` remembers such a text.

### GeoipMirror

A file is the version it was made for or from.  `upc` and `spc` are the places
in the two scripts.  Each download and each rename is an action, so a
publication can fall between two downloads, and each script can stop between any
two: killed, or by a return for an error (`UpdaterStops`, `SyncStops`; both mean
to start again from the top, where the temporary files are removed). 
`preserve` says whether a database on the mirror carries its release or its
download time, which the skip rule of `publish_checksums()` compares with the
time of the metadata file; both settings are initial states.  The clock may stand
still between two dated events (`Soon`), so equal times occur; only over the sleep
between two cycles, an hour or more, it moves.  `mirror.misdated` remembers a database that came
dated no later than the metadata it found.

As `set -e` has no effect in a function called as a condition, a failure that no
`if` asks about does not stop a script: a `mv` on either side, the redirects to
the temporary checksum files (entrypoint.sh:193-194), a `sha256sum` whose status
its pipeline hides (line 186).  The script goes on, a file is missing or bad
(`Spoilt`), and the cycle reports success; `unnoticed` remembers on which side.
A host refuses a checksum file that has no checksum (`Unusable`).

## Runs

| run | instance | question |
|---|---|---|
| `thread_pool` | 3 workers, 5 descriptors, fairness | ownership, wakeups, drain, and refinement of `ConnectionService` with its liveness: every connection is closed, `shutdown()` returns |
| `databases` | 2 readers, country and city configured, 2 reloads, each file replaced once | use after unmap, leaks, atomicity, failed reloads |
| `server` | 2 workers, 2 descriptors, 2 reloads, 1 replacement, HUP and INT | databases outlive readers, clean exit, no SIGHUP is lost |
| `server_live` | 1 worker, 2 descriptors, 2 listeners, HUP and TERM, fairness | reload ends, backlogs drain, SIGTERM ends the daemon |
| `socket_path` | 3 processes, 1 health check, backlogs of 1, failures and overlap, fairness | ended processes leave nothing but what they could not remove, foreign files survive, a running daemon is reachable, stale sockets are replaced, every `connect()` ends |
| `socket_overlap` | the same | *violated*: a running daemon is reachable whoever else starts |
| `request` | limit 3, chunks of 2, streams to 6 bytes; 3 connections on 2 workers; fairness | deadline, size limit, true results, return; counters balance, HEAD mirrors GET, descriptors are closed, what scrapes show |
| `metrics_file` | 3 renderings, 1 crash, 1 collector, fairness | whole texts, never older, goes on |
| `mirror` | 2 versions, 2 faults, both kinds of file times, fairness | checksums are true, the host moves forward and catches up |
| `mirror_preserve` | 3 versions, 2 faults | *violated*: if nothing fails, checksums are those of the database |
| `startup` | command lines of up to 3 options, 2 lines, 2 variables, 2 directories | exit status and mode, effective configuration |
| `startup_documents` | the same, fairness | *violated*: port 0, unreadable files, databases left out or empty are treated as documented |

Why the bounds are enough to be interesting.  Five descriptors for three workers
let two connections queue behind busy workers and every number be reused; three
workers let two be woken for one item.  Two readers let a lookup and a metadata
read be in different places while the writer waits for the lock; two reloads and
a replacement let a reload fail after one that succeeded and the reverse; one
slot is left unconfigured.  SIGHUP can be sent at any moment, so while one is
handled another is pending and a third coalesces with it.  Two descriptors for
one worker let the queue be non-empty and descriptors run out (EMFILE).  Three
processes are one that crashes, one that starts over its stale socket, and one
more that meets a live one; two of the three use the TCP port.  With room for one
in the backlog, a probe finds it taken by a check, a check by a probe, and either
by a check that has given up.  A limit of three
bytes and chunks of two let a head end in the first chunk, across two, at the
limit and beyond it; the clock runs past the deadline by more than a
millisecond.  In `request` one connection brings any of eleven requests, one of
each kind that the code treats differently; another brings HEAD for what GET can
get with 200; the third is a scrape of them both, and one of the others may be a
scrape too.  Three renderings and one crash let a partial `.tmp` be left, opened
again and published while a collector still reads the file before.  Two
versions let a release overtake a publication and a publication overtake a
download, and two faults interrupt one installation and the one that repairs it,
or let a crash follow a failure nobody noticed.  In `startup` two
options, or a third after `--health-check --socket`, bring every pair of modes
and every option missing its operand; two lines let the second overrule the
first or stop the load half-way; values lie on both sides of every limit; two
variables meet where one depends on the other (city and country) and where one
of two is refused.  Workers, readers
and descriptors are symmetric in `databases` and `server`, which check no
liveness.

Deadlock is checked in the runs of `ThreadPool`, `GeoIpDatabases`, `Server`,
`SocketPath` and `Startup`, where the only state without a next step is the end, for which
each module has an action (`Terminated`, `Done`), and in those of `GeoipMirror`, which has
no end.  It is not checked where a model stops by itself: `Request` when the
connections have been handled, `MetricsFile` when the last rendering has been
made.  The liveness properties of both say that they do not stop before.

### Fairness

`ThreadPool`, `Server`, `SocketPath`, `Request` (as `HttpHead`) and `MetricsFile` assume that a
thread (or process) that can take a step takes one: weak fairness of each
worker, of the main thread, of each process that is starting or stopping; and,
where there is one, of the clock.  In `SocketPath` a running daemon accepts what
is in its backlog, which is `BacklogDrains` of `Server`, and the receive timeout
of a check expires; that an answer comes is not assumed.  `main()` goes on in
`startup_documents`.  Both scripts of `GeoipMirror` loop for ever
and their containers are restarted, so each of them goes on too, and MaxMind's
server and the network answer at last because faults are bounded.  A handler
returns because `read_http_head()` has an overall deadline of five seconds
(`AlwaysReturns`) and a response fits the socket buffer, so `write_all()` does
not wait for the client.  Nothing is assumed of clients, signals, file
replacement, spurious wakeups, failures or crashes, and nothing of the lock:
`ReloadEnds` holds although readers may overtake the writer, because the thread
that waits to write is the one that accepts connections, so only the connections
already queued can overtake it.

`BacklogDrains` and `TermEnds` are conditional on `ArrivalsPause`: from some
moment on nobody connects.  Without it they fail (see below).  In `SocketPath`
the number of clients is finite, so the pause always comes.

## What the violated runs show

* `socket_overlap`.  A socket is in the file system from `bind()`, but refuses
  connections until `listen()`.  A second process whose probe falls between the
  two takes the socket for stale and removes it; the first then runs without
  being reachable, which is what the comment at server.cpp:430-434 says must not
  happen.  Removal on exit goes by path as well.
* `mirror_preserve`.  With the times of the shipped docker-compose.yml, a version
  released between the retrieval of the metadata of the one before and the
  writing of its metadata file is older than that file.  The next cycle
  downloads it, takes its checksums for current and skips it, without an error;
  hosts do not get it until the release after.  If there is none they never do,
  which is why `HostCatchesUp` and `CycleLeavesChecksumsTrue` except a misdated
  database.
* `startup_documents`.  The trace is that of a port of 0: the example
  configuration (48-49), README.md:335, the help text (main.cpp:59) and config.h:39
  all have 0 for "disabled", and `parse_port()` refuses it, so the daemon does not
  start.  The other three parts of `AsDocumented` are violated too when they are
  checked alone.  `UnloadableIsFatal`: main.cpp:377-379 calls a file that exists and
  fails to load "always a fatal error"; a directory at the path, or a read error, is
  taken for the end of the file, and the daemon serves what was read so far.
  `OmittedIsDisabled`: README.md:163-164 and the example configuration (14-15) have a
  database disabled by leaving it out; it is auto-detected, as README.md:234 says.
  `OnlyUnsetIsDetected`: a path given as empty is auto-detected as well, against
  README.md:236-238 and config.h:29-31, so a database in a default directory
  cannot be disabled at all.  `OutcomeFollowsInput` and `EffectiveConfig` state what
  the code does in these cases, and say so.

Other limits of the code appear as conditions of properties that hold:

* `TermEnds` needs clients to pause.  The accept loop (server.cpp:984-996) ends at
  EAGAIN or another error; as long as a new connection is in the backlog whenever one has
  been accepted, and the workers keep up, it does not end, SIGTERM and SIGHUP stay
  unread and the other listeners wait.
* `ConnectEnds` needs the daemon to go on accepting.  The probe of a stopped
  (SIGSTOP) or hung daemon with a full backlog waits, although the comment at
  server.cpp:333-336 has it succeed or fail immediately, and so does a health
  check, whose timeouts are set after `connect()`.
* `OutcomeFollowsInput` excepts signals: a SIGHUP before `setup_signals()` ends the
  process.
* `ExitLeavesNothing` excepts a socket whose `unlink()` failed, which `cleanup()`
  warns about and `~Server()` ignores, and says nothing of the directory: the one
  that `ensure_socket_directory()` made stays after a failed `init()`, although
  server.h:27-28 has "nothing partially set up is left behind".
* `NonSocketPreserved` is about a file that is at the path when the processes
  start.  `unlink()` goes by path and removes whatever is there by then.
* `ReaderSeesWholeText` excepts a text that the destructor of the stream could not
  write out (server.cpp:868, a full disk for instance).  The stream is tested before,
  and the rename after it publishes part of the text or an empty file, which the
  comment at server.cpp:850-853 says a reader never sees.
* `RunningIsReachable` excepts a probe that fails: when `path_has_live_listener()`
  cannot get a descriptor it answers as for a stale socket.
* `HeadMirrorsGet` is about requests that parse: a HEAD request that does not, or
  is too large, is answered with a body, since the method is not known then.
* `VerdictIsTrue` says `TooLarge` means more *bytes received* than the limit.
  The limit is tested before the empty line is looked for, so a head within it is
  refused when a body arrives in the same chunk, and accepted when it comes later.
* `MarkerIsTrue` excepts failed renames on the host: after a failed `mv` of the
  database the completion marker is still renamed, and later cycles find the old
  database current.  `CycleLeavesChecksumsTrue` excepts failures on the mirror that
  go unnoticed, after which a cycle with missing or bad checksum files still ends
  with success, and `HostCatchesUp` those on either side.
* Without preserved file times a database can be misdated too, when a restarted
  script downloads it within the clock's resolution of the metadata file before:
  line 122 asks for "newer", and equal times are not.
* `HostCatchesUp` leaves out the metadata file: the mirror renames it after the
  checksum by which hosts decide, so a host that downloads between the two keeps
  old metadata beside the new database until the next release.

## Proofs

All theorems are for every value of the constants.  What is assumed of these is
in the modules, next to their declaration, and TLC evaluates it in every run:

| module | assumption |
|---|---|
| `ThreadPool` | finitely many workers, at least one; finitely many descriptors, none of which is "no descriptor" |
| `GeoIpDatabases` | some reader; the configured slots are slots; the bounds are numbers |
| `Server` | what its two parts assume; at least one listener with room for one; signals are HUP, INT, TERM |
| `Startup` | `heads` are the options of each command line; lines have a key, environments a text or `Unset` for each key, and `Unset` is not a text |
| `SocketPath`, `HttpHead`, `MetricsFile`, `GeoipMirror` | the sets and limits have their types |
| `RequestHandler` | finitely many connections (`ConnAssumption`), as the counters are compared with their number; requests and results have their types |

Each proof follows one pattern: a conjunction of named invariants that is
inductive, one lemma per invariant with one step per action, and theorems that
read the checked properties off it.  The invariants were checked by TLC on the
instances of the runs before they were proved.

`ThreadPool_proofs`:

* `TypeCorrect`, inductive as it stands.
* `OwnershipHolds`: the two parts of `OwnedExactlyOnce`, `FdOwnedOnce` and
  `OpenIsOwned`, are inductive together.
  Neither is alone: `Accept` keeps ownership unique only because a number that
  is not open has no owner, and `Handled` keeps the open set exact only because
  there is no second owner.
* `NoLostWakeup` and `NobodySleeps`.  The strengthening counts: while a worker
  waits, the queue is no longer than the number of workers about to look at it
  plus a notification under way; and nobody waits once `notify_all()` is done.
  `TakeFront` takes one from both sides, `NotifyOne` moves one from the
  notification to a worker.  The proof rests on lemmas on cardinality.
* `Drained`: a worker has exited only when `stop_` is set and the queue is empty,
  and the queue does not grow after that.
* `Refinement`: the safety part of `ConnectionService` under `ConnBar` and
  `PhaseBar`, one case per action, using the invariants above.

`GeoIpDatabases_proofs`:

* `TypeCorrect`.
* `LockOK`: the writer is exclusive exactly in `close` and `assign`; a reader is
  in the lock exactly in the body of `lookup()`; there are no readers in startup
  and after destruction has begun.
* `HandlesOK` strengthens `MappedIsHeld` by the order of generations, which keeps
  closing the old handle from closing the new one: `NoMappingLeaks`.
* `LookupOK` says a lookup's entry and history are about the current handles.
  `Assign` is the only step that changes a handle, and the lock excludes lookups
  then.  With the two above: `NoUseAfterUnmap`, `LookupsAreAtomic`.
* `OpenOK` says which slots startup has opened; once it is over all configured
  slots are open and no step changes the flags (`OpenIsStable`), which is what
  makes the unlocked `has_*()` sound: `InfosAreConsistent`, `CountryWins`.
* `FreshOK` orders the served, the opened and the stored version of each slot:
  `ReloadTakesEffect`, `SlotsNeverGoBack`.

`Server_proofs`:

* `PartsAreRunAsSpecified`: every step of the server is a step of `ThreadPool` and
  of `GeoIpDatabases`, or leaves them alone.  So the theorems about the two hold in
  the daemon; `DaemonInheritsSafety` says so of ownership, unmapped files and
  atomic lookups, and the proofs below use them.
* `Phases`, `Calls` and `Backlogs` tie the main thread's place in `Server` to its
  place in the databases, in the pool, and to the listeners; `Handlers` ties a
  worker's place in the pool to those in `handle_connection()` and in the
  databases.  A worker in the databases is handling a connection, a pool that is
  gone was joined, and the databases are destroyed only when the pool is gone or
  never was: `ReadersAreGone`.  With the pool's drain and the databases' handles:
  `ExitsAreClean`.  (`BeginDestroy` has a guard the destructor has not, that
  nobody is reading; `ReadersAreGone` shows that the daemon never waits for it.)
* `Signals`: what was wanted is on the disk, and unless a SIGHUP is pending each
  slot before the one a reload is at has been tried at least as new as wanted.
  `HupCovered` alone is not inductive, as it says nothing during a reload:
  `HupsAreCovered`.
* `SighupReachesLookups` puts this together with what the databases guarantee of a
  reload: when no SIGHUP is pending and no reload is under way, every configured
  database whose last attempt succeeded is served at least as new as it was on
  disk at the last SIGHUP, and no database goes back.
* `DaemonImplementsService`: the refinement of `ConnectionService` carries over
  from the pool to the daemon, whatever else the daemon does.

`Startup_proofs`, for every command line, file, environment, set of database
files and reading of numbers:

* `ArgsRead`, `InputsGood` and `Merged` are the invariants of the loops over `argv`,
  the lines and the variables.  `OutcomeFollowsInput` and `EffectiveConfig` speak of
  the last operand of an option and the last line with a key.  The invariants name
  the position that decides so far (`LastBefore`, `Stated`), and each turn of a loop
  moves it on or leaves it; so no induction over sequences is needed.
* `ModeChosen`: what the options have decided at each place of `main()`, and that
  every exit status is one the command line asks for.  With the others:
  `OutcomesFollowInput`.
* The first default directory with a file exists as the least of a nonempty set
  of positions, by well-foundedness.  With it `EffectiveConfig` is preserved by the
  steps after auto-detection: `ConfigurationIsEffective`.

`SocketPath_proofs`, for any number of processes and health checks:

* `TypeCorrect`.
* `Owned`: where a process can be while it has the file, a listener or the port;
  none of these places is the end, except that a process whose `unlink()` failed may
  end with its file (`ExitsLeaveNothing`).  `Foreign`: while a
  regular file is at the path nobody is where it could unlink or bind
  (`ForeignFilesSurvive`, of a file that is there from the start).
* `Serving`: as long as processes do not overlap and probes work, at most one
  process is starting or stopping, a process past `bind()` has the path and, past
  `listen()`, the listener, and beside a running one nobody gets past its probe:
  `RunningStaysReachable`.

The last section of `RequestHandler_proofs` is about `HttpHead`, which it extends
too (for this the names of the one do not occur in the other), for every limit,
buffer size, stream and clock:

* `HeadTypeCorrect`.
* `Reading`: as long as the loop goes on, the buffer is within the limit and the
  head in it is not complete.  `OnTime`: past the top of the loop no chunk was
  late, at the top at most one, and then the clock is past the deadline; a
  `poll()` ends less than a millisecond early, which needs a lemma on division.
  From these `SlowClientsAreCutOff` and `VerdictsAreTrue`.

`RequestHandler_proofs`, for any number of connections, workers and any requests:

* `TypeCorrect`.
* `Books`: every counter equals the number of connections that bear its mark,
  which each connection's request, place and response determine.  `CountersBalance`
  then follows by counting sets (`CountersAlwaysBalance`).
* `Local(c)`: what a connection's request makes of its place, response and
  answer; a HEAD and a GET that differ in nothing else then have answers that do
  not either (`HeadAlwaysMirrorsGet`).
* `Covers`: what a scrape has loaded of a counter is at least the number of
  connections it must show.  `Bounded`: once the requests are loaded, they exceed
  the responses, loaded or as they are now, by the workers at most.  `Occupied`
  and `History` say who is at work and what a scrape remembers.
  From these `ScrapesCoverAnswered` and `ScrapesBoundInFlight`.

`MetricsFile_proofs`:

* `TypeCorrect`; `Separate`: the temporary file is neither the published one nor
  one the collector has open; `Draft`: the temporary file has the latest text, and
  before the rename all of it, unless that text is `lost`; `Whole`: so it is with the
  published file and the collector's; `Delivered`: what the collector has so far comes
  from its one file.  From these `ReadersSeeWholeTexts`, and `PublicationsMoveForward`
  for every step.

`GeoipMirror_proofs`:

* `TypeCorrect`; `Followed`: no database is newer than its source, along the way
  from MaxMind to the host, and what a download was verified against; `Marked`: at
  each place of an installation, which of the host's files are new, so that the
  marker comes last; `Fresh`: a metadata file that is not older than the database
  stands for a complete set, which is what the skip rule relies on, unless a failure
  on the mirror went unnoticed or the database is misdated.  From these
  `HostsMoveForward`, `MarkersAreTrue` (no rename fails on the host) and
  `CyclesLeaveChecksumsTrue`, which holds with preserved file times and without;
  that its exceptions are needed with them even if nothing fails is what
  `mirror_preserve` shows.

Only model-checked is liveness, the fair part of `ImplementsService` included: the
prover has no rules for fairness or ENABLED.  Every invariant and every action
property of a passing run is proved, those of `request` for `HttpHead` and for
`RequestHandler` by themselves.

## Plan

The modules were written in the order of the table above, the threads and the
databases first, and proved in the order pool, databases, the single parts,
server, startup.  What is left is in the models: a configured `metrics_file` in
`Server`, where a slow disk delays signals and connections, and an abstract
specification for `GeoipMirror` (a host holds a released version and replaces it by
a later one).

## Not modelled, and why

* Wording and layout: responses, JSON, INI and Prometheus texts, help, logs, and
  what `print_db_metadata()` shows.  The age it prints of a database dated in the
  future is the conversion of a negative number (geoip.cpp:106); nothing depends
  on it.
* Characters: trimming, letter case, percent decoding and the digits of numbers
  and addresses are pure functions of strings.  The models take them by what
  they tell apart; what they compute on each string is for unit tests.
* Logging: a message goes out under the logger's mutex (log.h:55-58), so a stream
  nobody reads stops every thread that logs.  The models take every message to go
  out.
* The inside of libmaxminddb: a lookup hits, misses or fails.
* That a reload swaps the slots one by one, so that one lookup may combine a new
  country file with an old city file, is in the model and accepted;
  `LookupSeesOneState` says what is guaranteed.
* nshgeoipctl, whose effect on the daemon is a signal or a replaced file; build,
  packaging and examples.
