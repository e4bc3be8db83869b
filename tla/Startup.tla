------------------------------- MODULE Startup ------------------------------
(***************************************************************************)
(* main() (main.cpp 217-443) from the command line to the exit status or   *)
(* the call of Server::run(), with the configuration it puts together on   *)
(* the way (config.cpp): the file, the environment, the databases found in *)
(* the default directories.                                                *)
(*                                                                         *)
(* Texts are strings, and what strtol() makes of them is a table.  Letters *)
(* of a Boolean are lower case already and texts are trimmed.  Inputs are  *)
(* chosen when the program looks at them; the configuration file can       *)
(* change until it is opened, a read of it can fail, and a signal can come *)
(* at any time.                                                            *)
(***************************************************************************)
EXTENDS Integers, Sequences, SequencesExt

CONSTANTS
    Usage,      \* command lines: [argv, heads], see InputAssumption
    Line,       \* lines of the configuration file: [key, value] records
    MaxLines,   \* bound: the length of the file
    Environment,\* environments: functions from keys to texts
    DefaultDir, \* kDefaultGeoipDirs
    Mmdb,       \* files in the default directories: sets of <<dir, key>>
    Cores,      \* what hardware_concurrency() may return
    NumberOf    \* [base -> [text -> number]], for texts strtol() reads whole

TextKey == {"country_db", "asn_db", "city_db", "socket", "tcp_address",
            "metrics_file"}
DbKey == {"country_db", "asn_db", "city_db"}

(* The ranges that load_config() and apply_env_overrides() accept. *)
Port == 1..65535
NumberRange ==
    [socket_mode |-> 0..4095, threads |-> 1..256, tcp_port |-> Port,
     max_request_bytes |-> 256..(2^20), metrics_interval_seconds |-> 1..86400]

Key == TextKey \union DOMAIN NumberRange \union {"debug_log"}
Empty == ""
Unset == "(unset)"
NoEnv == [k \in Key |-> Unset]

TakesOperand == {"--check-db", "--format", "--config", "--socket", "--port"}
Option == TakesOperand \union {"--health-check"}

(* A command line reads as options, each with the operand it takes: heads   *)
(* has the positions of the options.  Unset is not a text anybody gives.    *)
ASSUME InputAssumption ==
    /\ \A u \in Usage :
         /\ u.argv \in Seq(STRING \ {Unset}) /\ u.heads \subseteq DOMAIN u.argv
         /\ u.argv # <<>> => 1 \in u.heads
         /\ \A j \in u.heads :
              LET next == IF u.argv[j] \in TakesOperand THEN j + 2 ELSE j + 1 IN
              /\ next <= Len(u.argv) => next \in u.heads
              /\ u.argv[j] \in TakesOperand => j + 1 \notin u.heads
    /\ \A l \in Line : /\ l.key \in Key \union {"#", "no_equals", "unknown"}
                       /\ l.value # Unset
    /\ \A e \in Environment : DOMAIN e = Key
    /\ DOMAIN NumberOf = {8, 10} /\ Cores \subseteq Nat
    /\ MaxLines \in Nat /\ DefaultDir \in Seq(STRING)

VARIABLES
    pc,         \* where main() is
    usage,      \* the command line
    i,          \* index of the next element of argv
    opt,        \* the last operand of each option so far
    conf,       \* what is at config_path
    seen,       \* history: was something there at access(), "none" before
    read,       \* the lines read so far
    env,        \* the environment, once looked at
    mmdb,       \* the files found by auto-detection
    cores,      \* hardware_concurrency()
    cfg,        \* the Config
    status      \* exit status, "none" while running, "signal" if killed

vars == <<pc, usage, i, opt, conf, seen, read, env, mmdb, cores, cfg, status>>
inputs == <<usage, conf, seen, env, mmdb, cores>>

argv == usage.argv

default_thread_count(n) ==
    CASE n = 0 -> 8
      [] n \in 1..3 -> 4
      [] n > 20 -> 20
      [] OTHER -> n

Config ==
    [country_db |-> Empty, asn_db |-> Empty, city_db |-> Empty,
     socket |-> "nshgeoip.sock", socket_mode |-> 432,
     threads |-> default_thread_count(cores), max_request_bytes |-> 8192,
     debug_log |-> FALSE, tcp_port |-> 0, tcp_address |-> Empty,
     metrics_file |-> Empty, metrics_interval_seconds |-> 60]

ConfStates == {"absent", "unreadable", "directory", "file"}

Init ==
    /\ pc = "args"
    /\ usage \in Usage
    /\ i = 1
    /\ opt = [o \in Option |-> Unset]
    /\ conf \in ConfStates
    /\ seen = "none"
    /\ read = <<>>
    /\ env = NoEnv
    /\ mmdb = {}
    /\ cores \in Cores
    /\ cfg = Config
    /\ status = "none"

-----------------------------------------------------------------------------
(* What a text means for a key *)

TrueText == {"1", "true", "yes", "on"}
FalseText == {"0", "false", "no", "off"}

Base(k) == IF k = "socket_mode" THEN 8 ELSE 10

Accepts(k, text) ==
    CASE k \in TextKey     -> TRUE
      [] k = "debug_log"   -> text \in TrueText \union FalseText
      [] OTHER             -> /\ text \in DOMAIN NumberOf[Base(k)]
                              /\ NumberOf[Base(k)][text] \in NumberRange[k]

Parsed(k, text) ==
    CASE k \in TextKey     -> text
      [] k = "debug_log"   -> text \in TrueText
      [] OTHER             -> NumberOf[Base(k)][text]

-----------------------------------------------------------------------------
(* Faulty forms of the operations below.  No specification uses them: each  *)
(* stands for a slip in the code that one of the properties must catch.     *)

(* apply_env_overrides() filling in only what the file left at its default. *)
OverlaidIfDefault(e) ==
    [k \in Key |-> IF e[k] = Unset \/ cfg[k] # Config[k] THEN cfg[k]
                   ELSE Parsed(k, e[k])]

(* load_config() taking any value it can convert at all. *)
LineBadUnchecked(l) == l.key = "no_equals"

-----------------------------------------------------------------------------
(* The command line *)

Exit(n) == pc' = "ended" /\ status' = n

HasOperand == i < Len(argv)

ArgWrong ==
    \/ argv[i] \notin Option \union {"--version", "--help"}
    \/ argv[i] \in TakesOperand /\ ~HasOperand
    \/ argv[i] = "--port" /\ HasOperand /\ ~Accepts("tcp_port", argv[i + 1])

(* One element of argv, with its operand if it takes one. *)
ParseArg ==
    /\ pc = "args"
    /\ i <= Len(argv)
    /\ \/ argv[i] \in {"--version", "--help"} /\ Exit("0") /\ UNCHANGED <<i, opt>>
       \/ ArgWrong /\ Exit("2") /\ UNCHANGED <<i, opt>>
       \/ /\ argv[i] \in Option /\ ~ArgWrong
          /\ IF argv[i] \in TakesOperand
             THEN opt' = [opt EXCEPT ![argv[i]] = argv[i + 1]] /\ i' = i + 2
             ELSE opt' = [opt EXCEPT ![argv[i]] = Empty] /\ i' = i + 1
          /\ UNCHANGED <<pc, status>>
    /\ UNCHANGED <<inputs, read, cfg>>

(* An empty --socket operand is as good as none. *)
SocketGiven == opt["--socket"] \notin {Unset, Empty}
PortGiven == opt["--port"] # Unset

(* --check-db goes first, then --socket and --port without --health-check.  *)
SelectMode ==
    /\ pc = "args"
    /\ i > Len(argv)
    /\ \/ opt["--check-db"] # Unset /\ pc' = "check_db" /\ UNCHANGED status
       \/ /\ opt["--check-db"] = Unset
          /\ \/ opt["--health-check"] # Unset /\ pc' = "health" /\ UNCHANGED status
             \/ /\ opt["--health-check"] = Unset
                /\ IF SocketGiven \/ PortGiven
                   THEN Exit("2") ELSE pc' = "access" /\ UNCHANGED status
    /\ UNCHANGED <<inputs, i, opt, read, cfg>>

(* print_db_metadata() succeeds or not. *)
CheckDb ==
    /\ pc = "check_db"
    /\ IF opt["--format"] \in {Unset, "table", "json", "ini"}
       THEN \E s \in {"0", "1"} : Exit(s)
       ELSE Exit("2")
    /\ UNCHANGED <<inputs, i, opt, read, cfg>>

(* check_health() succeeds or not; SocketPath has its steps. *)
HealthCheck ==
    /\ pc = "health"
    /\ IF SocketGiven /\ PortGiven
       THEN Exit("2")
       ELSE \E s \in {"0", "1"} : Exit(s)
    /\ UNCHANGED <<inputs, i, opt, read, cfg>>

-----------------------------------------------------------------------------
(* The configuration file *)

Access ==
    /\ pc = "access"
    /\ seen' = IF conf = "absent" THEN "absent" ELSE "there"
    /\ IF conf # "absent" THEN pc' = "open" /\ UNCHANGED status
       ELSE IF opt["--config"] # Unset THEN Exit("1")
       ELSE pc' = "env" /\ UNCHANGED status
    /\ UNCHANGED <<usage, i, opt, conf, read, env, mmdb, cores, cfg>>

(* An ifstream opens a directory as well; only reading it fails. *)
Open ==
    /\ pc = "open"
    /\ IF conf \in {"absent", "unreadable"}
       THEN Exit("1")
       ELSE pc' = "load" /\ UNCHANGED status
    /\ UNCHANGED <<inputs, i, opt, read, cfg>>

(* The file ends, or a read of it fails: getline() tells both alike.        *)
EndOfLines ==
    /\ pc = "load"
    /\ pc' = "env"
    /\ UNCHANGED <<inputs, i, opt, read, cfg, status>>

LineBad(l) ==
    l.key = "no_equals" \/ (l.key \in Key /\ ~Accepts(l.key, l.value))

LoadLine(l) ==
    /\ pc = "load"
    /\ conf = "file"
    /\ Len(read) < MaxLines
    /\ read' = Append(read, l)
    /\ IF LineBad(l)
       THEN Exit("1") /\ UNCHANGED cfg
       ELSE /\ cfg' = IF l.key \in Key
                      THEN [cfg EXCEPT ![l.key] = Parsed(l.key, l.value)]
                      ELSE cfg
            /\ UNCHANGED <<pc, status>>
    /\ UNCHANGED <<inputs, i, opt>>

-----------------------------------------------------------------------------
(* The environment and the default directories *)

Overlaid(e) ==
    [k \in Key |-> IF e[k] = Unset THEN cfg[k] ELSE Parsed(k, e[k])]

ApplyEnvOverrides(e) ==
    /\ pc = "env"
    /\ env' = e
    /\ IF \A k \in Key : e[k] # Unset => Accepts(k, e[k])
       THEN cfg' = Overlaid(e) /\ pc' = "detect" /\ UNCHANGED status
       ELSE Exit("1") /\ UNCHANGED cfg
    /\ UNCHANGED <<usage, i, opt, conf, seen, read, mmdb, cores>>

(* The first default directory with a file for the key, or Empty. *)
Found(files, k) ==
    LET n == SelectInSeq(DefaultDir, LAMBDA d : <<d, k>> \in files)
    IN  IF n = 0 THEN Empty ELSE DefaultDir[n]

resolve_db_slot(files, k) == IF cfg[k] # Empty THEN cfg[k] ELSE Found(files, k)

(* city_db and asn_db first; country_db only if there is no city_db. *)
ApplyDefaultDbPaths(files) ==
    /\ pc = "detect"
    /\ mmdb' = files
    /\ LET city == resolve_db_slot(files, "city_db")
       IN  cfg' = [cfg EXCEPT
                     !.city_db = city,
                     !.asn_db = resolve_db_slot(files, "asn_db"),
                     !.country_db = IF city # Empty THEN @
                                    ELSE resolve_db_slot(files, "country_db")]
    /\ pc' = "init"
    /\ UNCHANGED <<usage, i, opt, conf, seen, read, env, cores, status>>

-----------------------------------------------------------------------------
(* Server::init() succeeds or not (see Server and SocketPath); it never     *)
(* succeeds without a database.                                             *)
InitServer ==
    /\ pc = "init"
    /\ \/ (\E k \in DbKey : cfg[k] # Empty) /\ pc' = "serving" /\ UNCHANGED status
       \/ Exit("1")
    /\ UNCHANGED <<inputs, i, opt, read, cfg>>

(* Until setup_signals() blocks them, SIGHUP, SIGINT and SIGTERM kill.      *)
Killed ==
    /\ pc \notin {"serving", "ended"}
    /\ Exit("signal")
    /\ UNCHANGED <<inputs, i, opt, read, cfg>>

(* Somebody installs, removes or changes what is at config_path.            *)
ChangeConf ==
    /\ pc \in {"access", "open"}
    /\ conf' \in ConfStates \ {conf}
    /\ UNCHANGED <<pc, usage, i, opt, seen, read, env, mmdb, cores, cfg, status>>

Main ==
    \/ ParseArg \/ SelectMode \/ CheckDb \/ HealthCheck
    \/ Access \/ Open \/ EndOfLines \/ (\E l \in Line : LoadLine(l))
    \/ (\E e \in Environment : ApplyEnvOverrides(e))
    \/ (\E files \in Mmdb : ApplyDefaultDbPaths(files))
    \/ InitServer

Done == pc \in {"serving", "ended"} /\ UNCHANGED vars

Next == Main \/ Killed \/ ChangeConf \/ Done

Spec == Init /\ [][Next]_vars

(* main() goes on until it serves or ends. *)
FairSpec == Spec /\ WF_vars(Main)

-----------------------------------------------------------------------------
(* Properties *)

(* What the command line asks for, read off its options: an exit status,    *)
(* one of several, or "daemon".  The first option that ends the loop        *)
(* decides; otherwise the last operand of each option counts.               *)
Operands(o) == { j \in usage.heads : argv[j] = o }
LastOperand(o) ==
    IF Operands(o) = {} THEN Empty
    ELSE argv[(CHOOSE j \in Operands(o) : \A n \in Operands(o) : n <= j) + 1]

Wrong(j) ==
    \/ argv[j] \notin Option \union {"--version", "--help"}
    \/ argv[j] \in TakesOperand /\ j = Len(argv)
    \/ argv[j] = "--port" /\ ~(/\ argv[j + 1] \in DOMAIN NumberOf[10]
                               /\ NumberOf[10][argv[j + 1]] \in Port)

Stops == { j \in usage.heads :
             Wrong(j) \/ argv[j] \in {"--version", "--help"} }

AskedFor ==
    LET socket == LastOperand("--socket") # Empty
        port == Operands("--port") # {}
    IN  IF Stops # {}
        THEN IF \E j \in Stops : ~Wrong(j) /\ \A n \in Stops : j <= n
             THEN {"0"} ELSE {"2"}
        ELSE IF Operands("--check-db") # {}
        THEN IF LastOperand("--format") \in {"table", "json", "ini"}
                \/ Operands("--format") = {}
             THEN {"0", "1"} ELSE {"2"}
        ELSE IF Operands("--health-check") # {}
        THEN IF socket /\ port THEN {"2"} ELSE {"0", "1"}
        ELSE IF socket \/ port THEN {"2"} ELSE {"daemon", "1"}

(* main() does what its arguments ask for and nothing else: the exit status *)
(* tells usage errors (2) from failures (1), the diagnostic modes never     *)
(* look at a configuration, and a daemon serves only if its file was there  *)
(* when it had to be, and no line of it and no variable was malformed.      *)
(* Malformed is what the code refuses, a port of 0 included, and a          *)
(* configuration that cannot be read may still be served: the documents say *)
(* otherwise, see PortZeroDisables and UnloadableIsFatal.                   *)
OutcomeFollowsInput ==
    /\ status \in {"none", "signal"} \/ status \in AskedFor
    /\ pc \in {"open", "load", "env", "detect", "init", "serving"} =>
         "daemon" \in AskedFor
    /\ pc = "serving" =>
         /\ seen = "absent" => Operands("--config") = {}
         /\ \A n \in DOMAIN read :
              /\ read[n].key # "no_equals"
              /\ read[n].key \in Key => Accepts(read[n].key, read[n].value)
         /\ \A k \in Key : env[k] # Unset => Accepts(k, env[k])

(* The text the administrator gave a key: the variable if it is set, else   *)
(* the last line for the key.                                               *)
GivenText(k) ==
    LET lines == { n \in DOMAIN read : read[n].key = k }
    IN  IF env[k] # Unset THEN env[k]
        ELSE IF lines = {} THEN Unset
        ELSE read[CHOOSE n \in lines : \A m \in lines : m <= n].value

(* "Precedence: environment > config file > default" (main.cpp:100-101),    *)
(* key by key and whatever order the lines have.  A database path that is   *)
(* not given, or given as empty, is the one in the first default directory  *)
(* that has the file, except country_db when there is a city_db: that is    *)
(* README.md:234-241 for a path not given, while other documents, and for   *)
(* an empty one that README too, say it is disabled (OmittedIsDisabled,     *)
(* OnlyUnsetIsDetected).  Numbers are in range, so that the casts to int,   *)
(* mode_t and size_t are exact.                                             *)
EffectiveConfig ==
    pc \in {"init", "serving"} =>
      /\ \A k \in Key : LET text == GivenText(k) IN
           IF text # Unset /\ ~(k \in DbKey /\ text = Empty)
           THEN cfg[k] = Parsed(k, text)
           ELSE IF k \notin DbKey THEN cfg[k] = Config[k]
           ELSE LET having == { n \in DOMAIN DefaultDir :
                                  <<DefaultDir[n], k>> \in mmdb }
                IN  IF having = {} \/ (k = "country_db" /\ cfg.city_db # Empty)
                    THEN cfg[k] = Empty
                    ELSE \E n \in having : /\ cfg[k] = DefaultDir[n]
                                           /\ \A m \in having : n <= m
      /\ \A k \in DOMAIN NumberRange \ {"tcp_port"} : cfg[k] \in NumberRange[k]
      /\ cfg.tcp_port \in Port \union {0}

-----------------------------------------------------------------------------
(* What the repository's documents say and the code does not do *)

(* etc/nshgeoip.conf.example:48-49 "0 or unset means disabled", and so      *)
(* README.md:335, main.cpp:59 and config.h:39: if the port is given as 0    *)
(* and every other variable is in order, main() goes on without TCP.        *)
PortZeroDisables ==
    [][(/\ pc = "env" /\ env' # env
        /\ env'["tcp_port"] = "0"
        /\ \A k \in Key \ {"tcp_port"} : env'[k] # Unset => Accepts(k, env'[k]))
         => pc' = "detect" /\ cfg'["tcp_port"] = 0]_vars

(* main.cpp:377-379 "a file that exists but fails to load (bad permissions, *)
(* malformed content) is still always a fatal error either way": no daemon  *)
(* serves if what load_config() opened cannot be read.                      *)
UnloadableIsFatal == pc = "serving" => conf \notin {"unreadable", "directory"}

(* etc/nshgeoip.conf.example:14-15 "Leave a line commented out (or delete   *)
(* it) to disable that lookup type", and so README.md:163-164: a daemon     *)
(* serves no database that neither the file nor the environment names.      *)
OmittedIsDisabled ==
    pc = "serving" => \A k \in DbKey : GivenText(k) = Unset => cfg[k] = Empty

(* README.md:237-238 "auto-detection only ever fills in a field left        *)
(* completely unset", and config.h:29-31 "empty = disabled": a path given   *)
(* as empty stays empty.                                                    *)
OnlyUnsetIsDetected ==
    pc = "serving" => \A k \in DbKey : GivenText(k) = Empty => cfg[k] = Empty

(* Each of the four is what the repository says of main(), and each alone   *)
(* is violated by the code.                                                 *)
AsDocumented ==
    /\ PortZeroDisables
    /\ []UnloadableIsFatal
    /\ []OmittedIsDisabled
    /\ []OnlyUnsetIsDetected

=============================================================================
