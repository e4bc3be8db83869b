--------------------------- MODULE Startup_proofs ---------------------------
(***************************************************************************)
(* Proofs about Startup, for every set of command lines, files,            *)
(* environments, directories and numbers.  An invariant for each of main's *)
(* loops says what has been collected up to the place the loop has         *)
(* reached; each names the position that decides, the last one so far,     *)
(* which is what the next turn of the loop needs to know.                  *)
(***************************************************************************)
EXTENDS Startup, WellFoundedInduction, TLAPS

(* The places in main() once the command line is known to ask for a daemon. *)
Daemon == {"access", "open", "load", "env", "detect", "init", "serving"}

Types ==
    /\ usage \in Usage /\ cores \in Cores
    /\ i \in Nat \ {0}
    /\ opt = [o \in Option |-> opt[o]]
    /\ read \in Seq(Line)
    /\ cfg = [k \in Key |-> cfg[k]]
    /\ pc \in {"args", "check_db", "health", "ended"} \union Daemon

(* The loop over argv is at an option or past the end.  No option before it *)
(* ends the loop, and opt has the last operand of each before it.           *)
Before(o) == { j \in Operands(o) : j < i }

LastBefore(o) ==
    \/ Before(o) = {} /\ opt[o] = Unset
    \/ \E n \in Before(o) :
         /\ \A m \in Before(o) : m <= n
         /\ opt[o] = IF o \in TakesOperand THEN argv[n + 1] ELSE Empty

ArgsRead ==
    pc # "ended" =>
      /\ i \in usage.heads \/ i > Len(argv)
      /\ pc # "args" => i > Len(argv)
      /\ \A j \in Stops : j >= i
      /\ \A o \in Option : LastBefore(o)

(* What the options have decided by now.                                    *)
ModeChosen ==
    /\ pc # "ended" => status = "none"
    /\ status \in {"none", "signal"} \/ status \in AskedFor
    /\ pc = "check_db" => opt["--check-db"] # Unset
    /\ pc = "health" => opt["--check-db"] = Unset /\ opt["--health-check"] # Unset
    /\ pc \in Daemon =>
         /\ opt["--check-db"] = Unset /\ opt["--health-check"] = Unset
         /\ ~SocketGiven /\ ~PortGiven
    /\ pc \in Daemon \ {"access"} /\ seen = "absent" => opt["--config"] = Unset

(* No line read and no variable looked at was malformed, or main() is over. *)
InputsGood ==
    /\ pc # "ended" => \A n \in DOMAIN read : ~LineBad(read[n])
    /\ pc \in {"detect", "init", "serving"} =>
         \A k \in Key : env[k] # Unset => Accepts(k, env[k])

(* Until the databases are looked for, every key has the value of its       *)
(* variable, of its last line so far, or its default.                       *)
Lines(k) == { n \in DOMAIN read : read[n].key = k }

Stated(k) ==
    \/ env[k] # Unset /\ cfg[k] = Parsed(k, env[k])
    \/ env[k] = Unset /\ Lines(k) = {} /\ cfg[k] = Config[k]
    \/ /\ env[k] = Unset
       /\ \E n \in Lines(k) : /\ \A m \in Lines(k) : m <= n
                              /\ cfg[k] = Parsed(k, read[n].value)

Merged ==
    /\ pc \notin {"detect", "init", "serving", "ended"} => env = NoEnv
    /\ pc \notin {"init", "serving", "ended"} => \A k \in Key : Stated(k)

-----------------------------------------------------------------------------
(* Types *)

(* The default configuration has a value for every key and nothing else. *)
LEMMA ConfigKeys == Config = [k \in Key |-> Config[k]]
<1>1. DOMAIN NumberRange = {"socket_mode", "threads", "tcp_port",
                            "max_request_bytes", "metrics_interval_seconds"}
  BY DEF NumberRange
<1>2. DOMAIN Config = Key
  BY <1>1 DEF Config, Key, TextKey
<1>3. Config = [k \in DOMAIN Config |-> Config[k]]
  BY DEF Config
<1>4. QED
  BY <1>2, <1>3

(* main() starts with everything in its place and nothing collected. *)
LEMMA InitTypes == Init => Types
<1> SUFFICES ASSUME Init PROVE Types
  OBVIOUS
<1>1. cfg = [k \in Key |-> cfg[k]]
  BY ConfigKeys DEF Init
<1>2. opt = [o \in Option |-> opt[o]]
  BY DEF Init
<1>3. usage \in Usage /\ cores \in Cores /\ i \in Nat \ {0}
  BY DEF Init
<1>4. read \in Seq(Line) /\ pc \in {"args"}
  BY DEF Init
<1>5. QED
  BY <1>1, <1>2, <1>3, <1>4 DEF Types

(* The command line in hand is well formed. *)
LEMMA ArgvShape ==
    ASSUME Types
    PROVE  /\ argv \in Seq(STRING \ {Unset}) /\ Len(argv) \in Nat
           /\ \A j \in 1..Len(argv) : argv[j] \in STRING /\ argv[j] # Unset
           /\ usage.heads \subseteq 1..Len(argv)
           /\ Len(argv) > 0 => 1 \in usage.heads
           /\ \A j \in usage.heads : argv[j] \in TakesOperand =>
                /\ j + 2 <= Len(argv) => j + 2 \in usage.heads
                /\ j + 1 \notin usage.heads
           /\ \A j \in usage.heads : argv[j] \notin TakesOperand =>
                (j + 1 <= Len(argv) => j + 1 \in usage.heads)
<1>1. usage \in Usage
  BY DEF Types
<1>2. argv \in Seq(STRING \ {Unset}) /\ usage.heads \subseteq DOMAIN argv
  BY <1>1, InputAssumption, Zenon DEF argv
<1>3. argv # <<>> => 1 \in usage.heads
  BY <1>1, InputAssumption, Zenon DEF argv
<1>4. \A j \in usage.heads :
        LET next == IF argv[j] \in TakesOperand THEN j + 2 ELSE j + 1 IN
        /\ next <= Len(argv) => next \in usage.heads
        /\ argv[j] \in TakesOperand => j + 1 \notin usage.heads
  BY <1>1, InputAssumption, Zenon DEF argv
<1>5. QED
  BY <1>2, <1>3, <1>4

(* A turn of the loop over argv ends main(), or takes an option that is not *)
(* wrong, with the operand it needs.                                        *)
LEMMA ParseOutcome ==
    ASSUME Types, ParseArg
    PROVE  /\ pc = "args" /\ i \in 1..Len(argv)
           /\ UNCHANGED <<usage, conf, seen, env, mmdb, cores, read, cfg>>
           /\ \/ /\ pc' = "ended" /\ UNCHANGED <<i, opt>>
                 /\ \/ argv[i] \in {"--version", "--help"} /\ status' = "0"
                    \/ ArgWrong /\ status' = "2"
              \/ /\ argv[i] \in Option /\ ~ArgWrong /\ UNCHANGED <<pc, status>>
                 /\ \/ /\ argv[i] \in TakesOperand /\ i < Len(argv)
                       /\ opt' = [opt EXCEPT ![argv[i]] = argv[i + 1]]
                       /\ i' = i + 2
                    \/ /\ argv[i] \notin TakesOperand /\ i' = i + 1
                       /\ opt' = [opt EXCEPT ![argv[i]] = Empty]
<1>1. i \in Nat \ {0} /\ Len(argv) \in Nat
  BY ArgvShape DEF Types
<1>2. UNCHANGED <<usage, conf, seen, env, mmdb, cores, read, cfg>>
  BY DEF ParseArg, inputs
<1>3. pc = "args" /\ i \in 1..Len(argv)
  BY <1>1 DEF ParseArg
<1>4. argv[i] \in TakesOperand /\ ~ArgWrong => i < Len(argv)
  BY DEF ArgWrong, HasOperand
<1>5. QED
  BY <1>2, <1>3, <1>4 DEF ParseArg, Exit

(* Every step preserves the types: an operand is taken only where there is  *)
(* one, and every assignment to cfg is to a key it has.                     *)
LEMMA StepTypes == Types /\ [Next]_vars => Types'
<1> SUFFICES ASSUME Types, [Next]_vars PROVE Types'
  OBVIOUS
<1> USE DEF Types, inputs, Exit
<1>1. CASE ParseArg
  <2>1. i < Len(argv) => argv[i + 1] \in STRING
    BY ArgvShape
  <2>2. opt' = [o \in Option |-> opt'[o]]
    BY <1>1, <2>1, ParseOutcome
  <2>a. i' \in Nat \ {0}
    BY <1>1, ParseOutcome
  <2>3. QED
    BY <1>1, <2>2, <2>a, ParseOutcome
<1>2. CASE SelectMode \/ CheckDb \/ HealthCheck
  BY <1>2 DEF SelectMode, CheckDb, HealthCheck, Daemon
<1>3. CASE Access \/ Open \/ EndOfLines \/ InitServer \/ Killed \/ ChangeConf
  BY <1>3 DEF Access, Open, EndOfLines, InitServer, Killed, ChangeConf, Daemon
<1>4. CASE \E l \in Line : LoadLine(l)
  <2>1. PICK l \in Line : LoadLine(l)
    BY <1>4
  <2>2. read' \in Seq(Line)
    BY <2>1 DEF LoadLine
  <2>3. cfg' = [k \in Key |-> cfg'[k]]
    BY <2>1 DEF LoadLine
  <2>4. QED
    BY <2>1, <2>2, <2>3 DEF LoadLine
<1>5. CASE \E e \in Environment : ApplyEnvOverrides(e)
  BY <1>5 DEF ApplyEnvOverrides, Overlaid, Daemon
<1>6. CASE \E files \in Mmdb : ApplyDefaultDbPaths(files)
  <2>1. PICK files \in Mmdb : ApplyDefaultDbPaths(files)
    BY <1>6
  <2>2. cfg' = [k \in Key |-> cfg'[k]]
    BY <2>1 DEF ApplyDefaultDbPaths
  <2>3. QED
    BY <2>1, <2>2 DEF ApplyDefaultDbPaths, Daemon
<1>7. CASE UNCHANGED vars
  BY <1>7 DEF vars
<1>8. QED
  BY <1>1, <1>2, <1>3, <1>4, <1>5, <1>6, <1>7 DEF Next, Main, Done

-----------------------------------------------------------------------------
(* The command line *)

(* What the command line asks for is fixed, and only ParseArg collects it.  *)
LEMMA ArgsFrame ==
    ASSUME Types, [Next]_vars
    PROVE  /\ usage' = usage /\ argv' = argv /\ Stops' = Stops
           /\ AskedFor' = AskedFor
           /\ \A o \in Option : Operands(o)' = Operands(o)
           /\ ParseArg \/ UNCHANGED <<i, opt>>
<1>1. usage' = usage
  BY DEF Next, Main, Done, vars, inputs, ParseArg, SelectMode, CheckDb,
         HealthCheck, Access, Open, EndOfLines, LoadLine, ApplyEnvOverrides,
         ApplyDefaultDbPaths, InitServer, Killed, ChangeConf
<1>2. argv' = argv /\ \A o \in Option : Operands(o)' = Operands(o)
  BY <1>1 DEF argv, Operands
<1>3. Stops' = Stops /\ AskedFor' = AskedFor
  BY <1>1 DEF Stops, AskedFor, Wrong, LastOperand, argv, Operands
<1>4. ParseArg \/ UNCHANGED <<i, opt>>
  BY DEF Next, Main, Done, vars, inputs, SelectMode, CheckDb,
         HealthCheck, Access, Open, EndOfLines, LoadLine, ApplyEnvOverrides,
         ApplyDefaultDbPaths, InitServer, Killed, ChangeConf
<1>5. QED
  BY <1>1, <1>2, <1>3, <1>4

(* An option stops the loop exactly when ParseArg finds it wrong or is asked *)
(* for the version or the help.                                             *)
LEMMA StopsHere ==
    ASSUME Types, i \in usage.heads
    PROVE  /\ ArgWrong <=> Wrong(i)
           /\ i \in Stops <=> ArgWrong \/ argv[i] \in {"--version", "--help"}
<1>1. i \in 1..Len(argv) /\ Len(argv) \in Nat
  BY ArgvShape
<1>2. \A t : Accepts("tcp_port", t) <=> /\ t \in DOMAIN NumberOf[10]
                                        /\ NumberOf[10][t] \in Port
  <2>1. "tcp_port" \notin TextKey /\ Base("tcp_port") = 10
    BY DEF TextKey, Base
  <2>2. NumberRange["tcp_port"] = Port
    BY DEF NumberRange
  <2>3. QED
    BY <2>1, <2>2, Zenon DEF Accepts
<1>3. ArgWrong <=> Wrong(i)
  <2>1. HasOperand <=> i # Len(argv)
    BY <1>1 DEF HasOperand
  <2>2. "--port" \in TakesOperand
    BY DEF TakesOperand
  <2>3. QED
    BY <1>2, <2>1, <2>2, Zenon DEF ArgWrong, Wrong
<1>4. QED
  BY <1>3 DEF Stops

(* At the start nothing has been read of the command line. *)
LEMMA InitArgs == Init => ArgsRead
<1> SUFFICES ASSUME Init PROVE ArgsRead
  OBVIOUS
<1>1. Types
  BY InitTypes
<1>2. /\ usage.heads \subseteq 1..Len(argv) /\ Len(argv) \in Nat
      /\ Len(argv) > 0 => 1 \in usage.heads
  BY <1>1, ArgvShape
<1>3. i = 1 /\ pc = "args" /\ opt = [o \in Option |-> Unset]
  BY DEF Init
<1>4. QED
  BY <1>2, <1>3 DEF ArgsRead, LastBefore, Before, Operands, Stops

(* A turn of the loop moves past one option, with its operand: the options  *)
(* before the new place are the ones before and the one just taken.         *)
LEMMA ParseArgs ==
    ASSUME Types, ArgsRead, ParseArg
    PROVE  ArgsRead'
<1> SUFFICES ASSUME pc' # "ended" PROVE ArgsRead'
  BY DEF ArgsRead
<1>1. /\ pc = "args" /\ pc' = "args" /\ i \in usage.heads
      /\ argv' = argv /\ usage' = usage
      /\ i \in 1..Len(argv) /\ argv[i] \in Option /\ ~ArgWrong
  BY ParseOutcome DEF ArgsRead, argv
<1>2. \/ argv[i] \in TakesOperand /\ i < Len(argv) /\ i' = i + 2
      \/ argv[i] \notin TakesOperand /\ i' = i + 1
  BY ParseOutcome
<1>3. opt' = [opt EXCEPT ![argv[i]] = IF argv[i] \in TakesOperand
                                      THEN argv[i + 1] ELSE Empty]
  BY ParseOutcome
<1>4. \A j \in usage.heads : j < i' <=> j <= i
  BY <1>1, <1>2, ArgvShape
<1>5. i' \in usage.heads \/ i' > Len(argv)
  BY <1>1, <1>2, ArgvShape
<1>6. \A j \in Stops' : j >= i'
  <2>1. Stops' = Stops
    BY <1>1 DEF Stops, Wrong, argv
  <2>2. i \notin Stops
    BY <1>1, StopsHere DEF Option, TakesOperand
  <2>3. \A j \in Stops : j \in usage.heads /\ j \in 1..Len(argv) /\ j >= i
    BY <1>1, ArgvShape DEF ArgsRead, Stops
  <2>4. QED
    BY <1>1, <1>2, <1>4, <2>1, <2>2, <2>3
<1>7. ASSUME NEW o \in Option PROVE LastBefore(o)'
  <2>1. Operands(o)' = Operands(o) /\ Operands(o) \subseteq 1..Len(argv)
    BY <1>1, ArgvShape DEF Operands, argv
  <2>2. CASE o = argv[i]
    <3>1. i \in Before(o)' /\ \A m \in Before(o)' : m <= i
      BY <1>1, <1>2, <1>4, <2>1, <2>2 DEF Before, Operands
    <3>2. opt'[o] = IF o \in TakesOperand THEN argv'[i + 1] ELSE Empty
      BY <1>1, <1>3, <2>2 DEF Types
    <3>3. QED
      BY <3>1, <3>2 DEF LastBefore
  <2>3. CASE o # argv[i]
    <3>1. Before(o)' = Before(o)
      BY <1>1, <1>2, <1>4, <2>1, <2>3 DEF Before, Operands
    <3>2. opt'[o] = opt[o]
      BY <1>3, <2>3 DEF Types
    <3>3. LastBefore(o)
      BY <1>1 DEF ArgsRead
    <3>4. QED
      BY <1>1, <3>1, <3>2, <3>3 DEF LastBefore
  <2>4. QED
    BY <2>2, <2>3
<1>8. QED
  BY <1>1, <1>5, <1>6, <1>7 DEF ArgsRead

(* Once the loop is over, the options that matter stay as they are. *)
LEMMA StepArgs == Types /\ ArgsRead /\ [Next]_vars => ArgsRead'
<1> SUFFICES ASSUME Types, ArgsRead, [Next]_vars PROVE ArgsRead'
  OBVIOUS
<1>1. CASE ParseArg
  BY <1>1, ParseArgs
<1>2. CASE UNCHANGED <<i, opt>>
  <2> SUFFICES ASSUME pc' # "ended" PROVE ArgsRead'
    BY DEF ArgsRead
  <2>1. pc # "ended" /\ (pc' # "args" => pc # "args" \/ i > Len(argv))
    BY DEF Next, Main, Done, vars, Exit, ParseArg, SelectMode, CheckDb,
           HealthCheck, Access, Open, EndOfLines, LoadLine, ApplyEnvOverrides,
           ApplyDefaultDbPaths, InitServer, Killed, ChangeConf
  <2>2. \A o \in Option : LastBefore(o)'
    BY <1>2, <2>1, ArgsFrame DEF ArgsRead, LastBefore, Before
  <2>3. QED
    BY <1>2, <2>1, <2>2, ArgsFrame DEF ArgsRead
<1>3. QED
  BY <1>1, <1>2, ArgsFrame

(* Past the end of argv, opt has the last operand of every option there is, *)
(* so what was asked for can be read off opt.                               *)
LEMMA OptComplete ==
    ASSUME Types, ArgsRead, pc # "ended", i > Len(argv)
    PROVE  /\ Stops = {}
           /\ \A o \in Option : Operands(o) = {} <=> opt[o] = Unset
           /\ \A o \in TakesOperand : opt[o] # Unset => LastOperand(o) = opt[o]
<1>1. usage.heads \subseteq 1..Len(argv) /\ Len(argv) \in Nat /\ i \in Nat
  BY ArgvShape DEF Types
<1>2. Stops = {}
  BY <1>1 DEF ArgsRead, Stops
<1>3. Empty # Unset
  BY Zenon DEF Empty, Unset
<1>4. ASSUME NEW o \in Option
      PROVE  /\ Operands(o) = {} <=> opt[o] = Unset
             /\ o \in TakesOperand /\ opt[o] # Unset => LastOperand(o) = opt[o]
  <2>1. Before(o) = Operands(o) /\ Operands(o) \subseteq 1..Len(argv)
    BY <1>1 DEF Before, Operands
  <2>2. LastBefore(o)
    BY DEF ArgsRead
  <2>3. CASE Operands(o) = {}
    BY <2>1, <2>2, <2>3 DEF LastBefore
  <2>4. CASE Operands(o) # {}
    <3>1. PICK n \in Operands(o) :
            /\ \A m \in Operands(o) : m <= n
            /\ opt[o] = IF o \in TakesOperand THEN argv[n + 1] ELSE Empty
      BY <2>1, <2>2, <2>4 DEF LastBefore
    <3>2. n \in usage.heads /\ argv[n] = o /\ n \in 1..Len(argv)
      BY <2>1 DEF Operands
    <3>3. o \in TakesOperand => n + 1 \in 1..Len(argv)
      BY <1>1, <1>2, <3>2 DEF Stops, Wrong
    <3>4. opt[o] # Unset
      BY <1>3, <3>1, <3>3, ArgvShape
    <3>5. (CHOOSE j \in Operands(o) : \A m \in Operands(o) : m <= j) = n
      BY <2>1, <3>1
    <3>6. QED
      BY <2>4, <3>1, <3>4, <3>5 DEF LastOperand
  <2>5. QED
    BY <2>3, <2>4
<1>5. QED
  BY <1>2, <1>4 DEF Option

(* ... and what was asked for is what SelectMode, CheckDb and HealthCheck   *)
(* find in opt.                                                             *)
LEMMA AskedForOpt ==
    ASSUME Types, ArgsRead, pc # "ended", i > Len(argv)
    PROVE  AskedFor =
             IF opt["--check-db"] # Unset
             THEN IF opt["--format"] \in {Unset, "table", "json", "ini"}
                  THEN {"0", "1"} ELSE {"2"}
             ELSE IF opt["--health-check"] # Unset
             THEN IF SocketGiven /\ PortGiven THEN {"2"} ELSE {"0", "1"}
             ELSE IF SocketGiven \/ PortGiven THEN {"2"} ELSE {"daemon", "1"}
<1>1. {"--check-db", "--format", "--socket", "--port"} \subseteq TakesOperand
      /\ {"--check-db", "--format", "--socket", "--port", "--health-check"}
           \subseteq Option
  BY DEF TakesOperand, Option
<1>2. LastOperand("--socket") # Empty <=> SocketGiven
  <2>1. CASE Operands("--socket") = {}
    BY <1>1, <2>1, OptComplete DEF LastOperand, SocketGiven
  <2>2. CASE Operands("--socket") # {}
    BY <1>1, <2>2, OptComplete DEF SocketGiven
  <2>3. QED
    BY <2>1, <2>2
<1>3. Operands("--port") # {} <=> PortGiven
  BY <1>1, OptComplete DEF PortGiven
<1>4. opt["--format"] \in {Unset, "table", "json", "ini"} <=>
        \/ LastOperand("--format") \in {"table", "json", "ini"}
        \/ Operands("--format") = {}
  <2>1. CASE Operands("--format") = {}
    BY <1>1, <2>1, OptComplete
  <2>2. CASE Operands("--format") # {}
    BY <1>1, <2>2, OptComplete
  <2>3. QED
    BY <2>1, <2>2
<1>5. /\ Stops = {}
      /\ Operands("--check-db") # {} <=> opt["--check-db"] # Unset
      /\ Operands("--health-check") # {} <=> opt["--health-check"] # Unset
  BY <1>1, OptComplete
<1>6. QED
  BY <1>2, <1>3, <1>4, <1>5 DEF AskedFor

(* The loop ends main() with the status the first option that stops it      *)
(* calls for.                                                               *)
LEMMA StopStatus ==
    ASSUME Types, ArgsRead, ParseArg, pc' = "ended"
    PROVE  status' \in AskedFor
<1>1. /\ i \in usage.heads /\ i \in 1..Len(argv)
      /\ \A n \in Stops : n \in 1..Len(argv) /\ i <= n
  BY ParseOutcome, ArgvShape DEF ArgsRead, Stops
<1>2. \/ argv[i] \in {"--version", "--help"} /\ status' = "0"
      \/ ArgWrong /\ status' = "2"
  BY ParseOutcome
<1>3. i \in Stops
  BY <1>1, <1>2, StopsHere
<1>4. CASE argv[i] \in {"--version", "--help"} /\ status' = "0"
  <2>1. ~Wrong(i)
    BY <1>4 DEF Wrong, TakesOperand
  <2>2. QED
    BY <1>1, <1>3, <1>4, <2>1 DEF AskedFor
<1>5. CASE ArgWrong /\ status' = "2"
  <2>1. Wrong(i)
    BY <1>1, <1>5, StopsHere
  <2>2. ~\E j \in Stops : ~Wrong(j) /\ \A n \in Stops : j <= n
    BY <1>1, <1>3, <2>1
  <2>3. QED
    BY <1>3, <1>5, <2>2 DEF AskedFor
<1>6. QED
  BY <1>2, <1>4, <1>5

(* Every step keeps to what was asked for. *)
LEMMA StepMode ==
    Types /\ ArgsRead /\ ModeChosen /\ [Next]_vars => ModeChosen'
<1> SUFFICES ASSUME Types, ArgsRead, ModeChosen, [Next]_vars PROVE ModeChosen'
  OBVIOUS
<1>f. AskedFor' = AskedFor
  BY ArgsFrame
<1>a. pc \notin {"ended", "args"} => i > Len(argv)
  BY DEF ArgsRead
<1> USE DEF ModeChosen, inputs, Exit, SocketGiven, PortGiven, Daemon
<1>1. CASE ParseArg
  <2>1. CASE pc' = "ended"
    BY <1>1, <1>f, <2>1, StopStatus, ParseOutcome
  <2>2. CASE pc' # "ended"
    BY <1>1, <1>f, <2>2, ParseOutcome
  <2>3. QED
    BY <2>1, <2>2
<1>2. CASE SelectMode
  <2>1. SocketGiven \/ PortGiven => "2" \in AskedFor \/ opt["--check-db"] # Unset
                                    \/ opt["--health-check"] # Unset
    BY <1>2, AskedForOpt DEF SelectMode
  <2>2. QED
    BY <1>2, <1>f, <2>1 DEF SelectMode
<1>3. CASE CheckDb
  BY <1>3, <1>a, <1>f, AskedForOpt DEF CheckDb
<1>4. CASE HealthCheck
  BY <1>4, <1>a, <1>f, AskedForOpt DEF HealthCheck
<1>5. CASE Access \/ Open
  <2>1. "1" \in AskedFor
    BY <1>5, <1>a, AskedForOpt DEF Access, Open
  <2>2. QED
    BY <1>5, <1>f, <2>1 DEF Access, Open
<1>6. CASE EndOfLines \/ Killed \/ ChangeConf
  BY <1>6, <1>f DEF EndOfLines, Killed, ChangeConf
<1>7. CASE \/ \E l \in Line : LoadLine(l)
           \/ \E e \in Environment : ApplyEnvOverrides(e)
           \/ \E files \in Mmdb : ApplyDefaultDbPaths(files)
           \/ InitServer
  <2>1. "1" \in AskedFor
    BY <1>7, <1>a, AskedForOpt
       DEF LoadLine, ApplyEnvOverrides, ApplyDefaultDbPaths, InitServer
  <2>2. QED
    BY <1>7, <1>f, <2>1
       DEF LoadLine, ApplyEnvOverrides, ApplyDefaultDbPaths, InitServer
<1>8. CASE UNCHANGED vars
  BY <1>8, <1>f DEF vars
<1>9. QED
  BY <1>1, <1>2, <1>3, <1>4, <1>5, <1>6, <1>7, <1>8 DEF Next, Main, Done

-----------------------------------------------------------------------------
(* The configuration *)

(* A malformed line or variable ends main(). *)
LEMMA StepInputs == Types /\ InputsGood /\ [Next]_vars => InputsGood'
<1> SUFFICES ASSUME Types, InputsGood, [Next]_vars PROVE InputsGood'
  OBVIOUS
<1> USE DEF InputsGood, inputs, Exit
<1>1. CASE ParseArg \/ SelectMode \/ CheckDb \/ HealthCheck
  BY <1>1 DEF ParseArg, SelectMode, CheckDb, HealthCheck
<1>2. CASE Access \/ Open \/ EndOfLines \/ InitServer \/ Killed \/ ChangeConf
  BY <1>2 DEF Access, Open, EndOfLines, InitServer, Killed, ChangeConf
<1>3. CASE \E l \in Line : LoadLine(l)
  <2>1. PICK l \in Line : LoadLine(l)
    BY <1>3
  <2>2. CASE LineBad(l)
    BY <2>1, <2>2 DEF LoadLine
  <2>3. CASE ~LineBad(l)
    <3>1. read \in Seq(Line) /\ read' = Append(read, l) /\ pc = "load" /\ pc' = pc
      BY <2>1, <2>3 DEF LoadLine, Types
    <3>2. \A n \in DOMAIN read' : \/ n \in DOMAIN read /\ read'[n] = read[n]
                                  \/ read'[n] = l
      BY <3>1
    <3>3. QED
      BY <2>3, <3>1, <3>2
  <2>4. QED
    BY <2>2, <2>3
<1>4. CASE \E e \in Environment : ApplyEnvOverrides(e)
  BY <1>4 DEF ApplyEnvOverrides
<1>5. CASE \E files \in Mmdb : ApplyDefaultDbPaths(files)
  BY <1>5 DEF ApplyDefaultDbPaths
<1>6. CASE UNCHANGED vars
  BY <1>6 DEF vars
<1>7. QED
  BY <1>1, <1>2, <1>3, <1>4, <1>5, <1>6 DEF Next, Main, Done

(* A line that is well formed becomes the last one for its key, and leaves  *)
(* the other keys as they are.                                              *)
LEMMA LineStated ==
    ASSUME Types, Merged, NEW l \in Line, LoadLine(l), ~LineBad(l), NEW k \in Key
    PROVE  Stated(k)'
<1>1. /\ read \in Seq(Line) /\ read' = Append(read, l) /\ pc = "load"
      /\ env' = env /\ cores' = cores /\ env = NoEnv /\ Stated(k)
      /\ cfg' = IF l.key \in Key
                THEN [cfg EXCEPT ![l.key] = Parsed(l.key, l.value)] ELSE cfg
  BY DEF LoadLine, Types, Merged, inputs
<1>2. env[k] = Unset /\ env'[k] = Unset
  BY <1>1 DEF NoEnv
<1>3. /\ Len(read) \in Nat /\ DOMAIN read = 1..Len(read)
      /\ DOMAIN read' = 1..(Len(read) + 1) /\ read'[Len(read) + 1] = l
      /\ \A n \in DOMAIN read : read'[n] = read[n]
  BY <1>1
<1>4. CASE l.key = k
  <2>1. cfg'[k] = Parsed(k, l.value)
    BY <1>1, <1>4 DEF Types
  <2>2. Len(read) + 1 \in Lines(k)' /\ \A m \in Lines(k)' : m <= Len(read) + 1
    BY <1>3, <1>4 DEF Lines
  <2>3. QED
    BY <1>2, <1>3, <2>1, <2>2 DEF Stated
<1>5. CASE l.key # k
  <2>1. cfg'[k] = cfg[k]
    BY <1>1, <1>5 DEF Types
  <2>2. Lines(k)' = Lines(k) /\ Lines(k) \subseteq DOMAIN read
    BY <1>3, <1>5 DEF Lines
  <2>3. Config'[k] = Config[k]
    BY <1>1 DEF Config
  <2>4. CASE Lines(k) = {} /\ cfg[k] = Config[k]
    BY <1>2, <2>1, <2>2, <2>3, <2>4 DEF Stated
  <2>5. CASE \E n \in Lines(k) : /\ \A m \in Lines(k) : m <= n
                                 /\ cfg[k] = Parsed(k, read[n].value)
    BY <1>2, <1>3, <2>1, <2>2, <2>5 DEF Stated
  <2>6. QED
    BY <1>1, <1>2, <2>4, <2>5 DEF Stated
<1>6. QED
  BY <1>4, <1>5

(* A variable that is set replaces what the file said. *)
LEMMA EnvStated ==
    ASSUME Types, Merged, NEW e \in Environment, ApplyEnvOverrides(e),
           pc' = "detect", NEW k \in Key
    PROVE  Stated(k)'
<1>1. /\ pc = "env" /\ env' = e /\ env = NoEnv /\ Stated(k)
      /\ cores' = cores /\ read' = read
      /\ cfg' = [m \in Key |-> IF e[m] = Unset THEN cfg[m] ELSE Parsed(m, e[m])]
  BY DEF ApplyEnvOverrides, Exit, Merged, Overlaid
<1>2. env[k] = Unset
  BY <1>1 DEF NoEnv
<1>3. Lines(k)' = Lines(k) /\ Config'[k] = Config[k]
  BY <1>1 DEF Lines, Config
<1>4. CASE e[k] = Unset
  BY <1>1, <1>2, <1>3, <1>4 DEF Stated
<1>5. CASE e[k] # Unset
  BY <1>1, <1>5 DEF Stated
<1>6. QED
  BY <1>4, <1>5

(* Every step up to the environment keeps the configuration stated. *)
LEMMA StepMerged == Types /\ Merged /\ [Next]_vars => Merged'
<1> SUFFICES ASSUME Types, Merged, [Next]_vars PROVE Merged'
  OBVIOUS
<1> USE DEF inputs, Exit
<1>1. CASE \E l \in Line : LoadLine(l)
  <2>1. PICK l \in Line : LoadLine(l)
    BY <1>1
  <2>2. CASE LineBad(l)
    BY <2>1, <2>2 DEF LoadLine, Merged
  <2>3. CASE ~LineBad(l)
    BY <2>1, <2>3, LineStated DEF LoadLine, Merged
  <2>4. QED
    BY <2>2, <2>3
<1>2. CASE \E e \in Environment : ApplyEnvOverrides(e)
  <2>1. PICK e \in Environment : ApplyEnvOverrides(e)
    BY <1>2
  <2>2. pc' = "ended" \/ pc' = "detect"
    BY <2>1 DEF ApplyEnvOverrides
  <2>3. QED
    BY <2>1, <2>2, EnvStated DEF Merged
<1>3. CASE \E files \in Mmdb : ApplyDefaultDbPaths(files)
  BY <1>3 DEF ApplyDefaultDbPaths, Merged
<1>4. CASE \/ UNCHANGED <<env, cores, read, cfg>> /\ pc' \in {"ended", "serving"}
           \/ /\ UNCHANGED <<env, cores, read, cfg>>
              /\ pc \notin {"ended", "serving", "init", "detect"}
              /\ pc' \notin {"serving", "init", "detect"}
           \/ UNCHANGED <<pc, env, cores, read, cfg>>
  <2>1. UNCHANGED <<env, cores, read, cfg>>
    BY <1>4
  <2>2. \A k \in Key : Stated(k) => Stated(k)'
    BY <2>1 DEF Stated, Lines, Config
  <2>3. QED
    BY <1>4, <2>1, <2>2 DEF Merged
<1>5. CASE ParseArg \/ SelectMode \/ CheckDb \/ HealthCheck
  BY <1>4, <1>5 DEF ParseArg, SelectMode, CheckDb, HealthCheck
<1>6. CASE Access \/ Open \/ EndOfLines \/ InitServer \/ Killed \/ ChangeConf
  BY <1>4, <1>6 DEF Access, Open, EndOfLines, InitServer, Killed, ChangeConf
<1>7. CASE UNCHANGED vars
  BY <1>4, <1>7 DEF vars
<1>8. QED
  BY <1>1, <1>2, <1>3, <1>5, <1>6, <1>7 DEF Next, Main, Done

-----------------------------------------------------------------------------
(* The databases *)

(* A set of positions that is not empty has a first one. *)
LEMMA FirstOf ==
    ASSUME NEW S, S \subseteq Nat, S # {}
    PROVE  Min(S) \in S /\ \A n \in S : Min(S) <= n
<1>1. PICK x \in S : \A y \in S : ~(<<y, x>> \in OpToRel(<, Nat))
  BY WFMin, NatLessThanWellFounded
<1>2. \A a, b \in Nat : a < b => <<a, b>> \in OpToRel(<, Nat)
  BY DEF OpToRel
<1>3. \A y \in S : ~(y < x)
  BY <1>1, <1>2, Zenon
<1>4. \A y \in S : x <= y
  BY <1>3
<1>5. QED
  BY <1>4 DEF Min

(* Found() is the first directory that has the file. *)
LEMMA FoundFirst ==
    ASSUME NEW files, NEW k
    PROVE  LET having == { n \in DOMAIN DefaultDir :
                             <<DefaultDir[n], k>> \in files }
           IN  IF having = {} THEN Found(files, k) = Empty
               ELSE \E n \in having : /\ Found(files, k) = DefaultDir[n]
                                      /\ \A m \in having : n <= m
<1> DEFINE having == { n \in DOMAIN DefaultDir : <<DefaultDir[n], k>> \in files }
<1>1. DOMAIN DefaultDir = 1..Len(DefaultDir) /\ Len(DefaultDir) \in Nat
  BY InputAssumption
<1>2. SelectInSeq(DefaultDir, LAMBDA d : <<d, k>> \in files) =
        IF having # {} THEN Min(having) ELSE 0
  BY <1>1, Zenon DEF SelectInSeq
<1>3. CASE having = {}
  BY <1>2, <1>3, Zenon DEF Found
<1>4. CASE having # {}
  <2>1. Min(having) \in having /\ \A m \in having : Min(having) <= m
    <3>1. having \subseteq Nat
      BY <1>1
    <3>2. QED
      BY <1>4, <3>1, FirstOf, Zenon
  <2>2. Min(having) # 0
    BY <1>1, <2>1
  <2>3. Found(files, k) = DefaultDir[Min(having)]
    BY <1>2, <1>4, <2>2, Zenon DEF Found
  <2>4. QED
    BY <1>4, <2>1, <2>3
<1>5. QED
  BY <1>3, <1>4

(* What the administrator said of a key is in force, and was acceptable.    *)
LEMMA GivenInForce ==
    ASSUME Types, InputsGood, Merged, pc = "detect", NEW k \in Key
    PROVE  \/ GivenText(k) = Unset /\ cfg[k] = Config[k]
           \/ /\ GivenText(k) # Unset /\ cfg[k] = Parsed(k, GivenText(k))
              /\ Accepts(k, GivenText(k))
<1>1. Stated(k)
  BY DEF Merged
<1>2. CASE env[k] # Unset
  <2>1. GivenText(k) = env[k]
    BY <1>2 DEF GivenText
  <2>2. QED
    BY <1>1, <1>2, <2>1 DEF Stated, InputsGood
<1>3. CASE env[k] = Unset /\ Lines(k) = {}
  <2>1. GivenText(k) = Unset
    BY <1>3 DEF GivenText, Lines
  <2>2. QED
    BY <1>1, <1>3, <2>1 DEF Stated
<1>4. CASE env[k] = Unset /\ Lines(k) # {}
  <2>1. PICK n \in Lines(k) : /\ \A m \in Lines(k) : m <= n
                              /\ cfg[k] = Parsed(k, read[n].value)
    BY <1>1, <1>4 DEF Stated
  <2>2. Lines(k) \subseteq Nat
    BY DEF Lines, Types
  <2>3. (CHOOSE j \in Lines(k) : \A m \in Lines(k) : m <= j) = n
    BY <2>1, <2>2
  <2>4. GivenText(k) = read[n].value
    BY <1>4, <2>3 DEF GivenText, Lines
  <2>5. read[n] \in Line /\ read[n].key = k /\ ~LineBad(read[n])
    BY DEF Lines, Types, InputsGood
  <2>6. read[n].value # Unset /\ Accepts(k, read[n].value)
    BY <2>5, InputAssumption DEF LineBad
  <2>7. QED
    BY <2>1, <2>4, <2>6
<1>5. QED
  BY <1>2, <1>3, <1>4

(* The defaults are in the ranges, the port apart, which is 0. *)
LEMMA DefaultsInRange ==
    ASSUME Types
    PROVE  /\ \A k \in DOMAIN NumberRange \ {"tcp_port"} :
                Config[k] \in NumberRange[k]
           /\ Config["tcp_port"] = 0
<1>1. default_thread_count(cores) \in 1..256
  <2>1. cores \in Nat
    BY InputAssumption DEF Types
  <2>2. QED
    BY <2>1 DEF default_thread_count
<1>2. Config["socket_mode"] \in NumberRange["socket_mode"]
  BY DEF Config, NumberRange
<1>3. Config["max_request_bytes"] \in NumberRange["max_request_bytes"]
  BY DEF Config, NumberRange
<1>4. Config["threads"] \in NumberRange["threads"]
  BY <1>1 DEF Config, NumberRange
<1>5. Config["metrics_interval_seconds"] \in NumberRange["metrics_interval_seconds"]
  BY DEF Config, NumberRange
<1>6. Config["tcp_port"] = 0
  BY DEF Config
<1>7. DOMAIN NumberRange = {"socket_mode", "threads", "tcp_port",
                            "max_request_bytes", "metrics_interval_seconds"}
  BY DEF NumberRange
<1>8. QED
  BY <1>2, <1>3, <1>4, <1>5, <1>6, <1>7

(* Numbers in force are in range when the databases are looked for. *)
LEMMA NumbersInRange ==
    ASSUME Types, InputsGood, Merged, pc = "detect"
    PROVE  /\ \A k \in DOMAIN NumberRange \ {"tcp_port"} : cfg[k] \in NumberRange[k]
           /\ cfg["tcp_port"] \in Port \union {0}
<1>1. DOMAIN NumberRange = {"socket_mode", "threads", "tcp_port",
                            "max_request_bytes", "metrics_interval_seconds"}
      /\ NumberRange["tcp_port"] = Port
  BY DEF NumberRange
<1>2. ASSUME NEW k \in DOMAIN NumberRange
      PROVE  cfg[k] = Config[k] \/ cfg[k] \in NumberRange[k]
  <2>1. k \in Key /\ k \notin TextKey /\ k # "debug_log"
    BY <1>1 DEF Key, TextKey
  <2>2. CASE cfg[k] = Parsed(k, GivenText(k)) /\ Accepts(k, GivenText(k))
    BY <2>1, <2>2 DEF Parsed, Accepts
  <2>3. QED
    BY <2>1, <2>2, GivenInForce
<1>3. QED
  BY <1>1, <1>2, DefaultsInRange

(* Looking for the databases gives the effective configuration. *)
LEMMA DetectEffective ==
    ASSUME Types, InputsGood, Merged, NEW files \in Mmdb,
           ApplyDefaultDbPaths(files)
    PROVE  EffectiveConfig'
<1>1. /\ pc = "detect" /\ pc' = "init" /\ mmdb' = files
      /\ env' = env /\ read' = read /\ cores' = cores
  BY DEF ApplyDefaultDbPaths
<1>2. \A k \in Key : GivenText(k)' = GivenText(k) /\ Config'[k] = Config[k]
  BY <1>1 DEF GivenText, Config
<1>3. /\ \A k \in Key \ DbKey : cfg'[k] = cfg[k]
      /\ cfg'["city_db"] = resolve_db_slot(files, "city_db")
      /\ cfg'["asn_db"] = resolve_db_slot(files, "asn_db")
      /\ cfg'["country_db"] = IF cfg'["city_db"] # Empty THEN cfg["country_db"]
                              ELSE resolve_db_slot(files, "country_db")
  BY DEF ApplyDefaultDbPaths, Types, Key, TextKey, DbKey
<1>4. DbKey \subseteq TextKey /\ TextKey \subseteq Key
      /\ \A k \in DbKey : Config[k] = Empty
  BY DEF DbKey, TextKey, Key, Config
<1>5. ASSUME NEW k \in Key \ DbKey
      PROVE  IF GivenText(k) # Unset THEN cfg'[k] = Parsed(k, GivenText(k))
             ELSE cfg'[k] = Config[k]
  BY <1>1, <1>3, GivenInForce
<1>6. ASSUME NEW k \in DbKey
      PROVE  IF GivenText(k) # Unset /\ GivenText(k) # Empty
             THEN cfg'[k] = Parsed(k, GivenText(k))
             ELSE IF k = "country_db" /\ cfg'["city_db"] # Empty
             THEN cfg'[k] = Empty ELSE cfg'[k] = Found(files, k)
  <2>1. k \in {"city_db", "asn_db", "country_db"} /\ k \in TextKey /\ k \in Key
    BY <1>4 DEF DbKey
  <2>2. CASE GivenText(k) # Unset /\ GivenText(k) # Empty
    <3>1. cfg[k] # Empty /\ cfg[k] = Parsed(k, GivenText(k))
      BY <1>1, <2>1, <2>2, GivenInForce DEF Parsed
    <3>2. cfg'[k] = cfg[k]
      BY <1>3, <2>1, <3>1 DEF resolve_db_slot
    <3>3. QED
      BY <2>2, <3>1, <3>2
  <2>3. CASE ~(GivenText(k) # Unset /\ GivenText(k) # Empty)
    <3>1. cfg[k] = Empty
      BY <1>1, <1>4, <2>1, <2>3, GivenInForce DEF Parsed
    <3>2. QED
      BY <1>3, <2>1, <2>3, <3>1 DEF resolve_db_slot
  <2>4. QED
    BY <2>2, <2>3
<1>7. /\ \A k \in DOMAIN NumberRange \ {"tcp_port"} : cfg'[k] \in NumberRange[k]
      /\ cfg'["tcp_port"] \in Port \union {0}
  <2>1. DOMAIN NumberRange \subseteq Key \ DbKey /\ "tcp_port" \in Key \ DbKey
    BY DEF NumberRange, Key, DbKey
  <2>2. QED
    BY <1>1, <1>3, <2>1, NumbersInRange
<1>8. ASSUME NEW k \in DbKey,
             ~(GivenText(k) # Unset /\ GivenText(k) # Empty)
      PROVE  LET having == { n \in DOMAIN DefaultDir :
                               <<DefaultDir[n], k>> \in files }
             IN  IF having = {} \/ (k = "country_db" /\ cfg'["city_db"] # Empty)
                 THEN cfg'[k] = Empty
                 ELSE \E n \in having : /\ cfg'[k] = DefaultDir[n]
                                        /\ \A m \in having : n <= m
  BY <1>6, <1>8, FoundFirst
<1>9. QED
  BY <1>1, <1>2, <1>5, <1>6, <1>7, <1>8 DEF EffectiveConfig

(* Nothing touches the configuration after that. *)
LEMMA StepEffective ==
    Types /\ InputsGood /\ Merged /\ EffectiveConfig /\ [Next]_vars
      => EffectiveConfig'
<1> SUFFICES ASSUME Types, InputsGood, Merged, EffectiveConfig, [Next]_vars
             PROVE  EffectiveConfig'
  OBVIOUS
<1>1. CASE \E files \in Mmdb : ApplyDefaultDbPaths(files)
  BY <1>1, DetectEffective
<1>2. CASE pc' \notin {"init", "serving"}
  BY <1>2 DEF EffectiveConfig
<1>3. CASE pc \in {"init", "serving"} /\ UNCHANGED <<env, read, cores, mmdb, cfg>>
  <2>1. \A k \in Key : GivenText(k)' = GivenText(k)
    BY <1>3 DEF GivenText
  <2>2. Config' = Config
    BY <1>3 DEF Config
  <2>3. QED
    BY <1>3, <2>1, <2>2 DEF EffectiveConfig
<1>4. CASE InitServer \/ UNCHANGED vars
  <2>1. UNCHANGED <<env, read, cores, mmdb, cfg>>
    BY <1>4 DEF InitServer, inputs, vars
  <2>2. pc' \in {"init", "serving"} => pc \in {"init", "serving"}
    BY <1>4 DEF InitServer, Exit, vars
  <2>3. QED
    BY <1>2, <1>3, <2>1, <2>2
<1>5. CASE \/ ParseArg \/ SelectMode \/ CheckDb \/ HealthCheck \/ Access \/ Open
           \/ EndOfLines \/ (\E l \in Line : LoadLine(l))
           \/ (\E e \in Environment : ApplyEnvOverrides(e)) \/ Killed \/ ChangeConf
  <2>1. pc' \notin {"init", "serving"}
    BY <1>5 DEF ParseArg, SelectMode, CheckDb, HealthCheck, Access, Open, Exit,
                EndOfLines, LoadLine, ApplyEnvOverrides, Killed, ChangeConf
  <2>2. QED
    BY <1>2, <2>1
<1>6. QED
  BY <1>1, <1>4, <1>5 DEF Next, Main, Done

-----------------------------------------------------------------------------
(* What main() promises *)

StartupInv ==
    Types /\ ArgsRead /\ ModeChosen /\ InputsGood /\ Merged /\ EffectiveConfig

(* The invariants hold when main() is entered. *)
LEMMA InitInv == Init => StartupInv
<1> SUFFICES ASSUME Init PROVE StartupInv
  OBVIOUS
<1>1. pc = "args" /\ status = "none" /\ env = NoEnv /\ read = <<>> /\ cfg = Config
  BY DEF Init
<1>2. ModeChosen /\ InputsGood /\ EffectiveConfig
  BY <1>1 DEF ModeChosen, InputsGood, EffectiveConfig, Daemon
<1>3. ASSUME NEW k \in Key PROVE Stated(k)
  <2>1. env[k] = Unset /\ cfg[k] = Config[k]
    BY <1>1 DEF NoEnv
  <2>2. Lines(k) = {}
    BY <1>1 DEF Lines
  <2>3. QED
    BY <2>1, <2>2 DEF Stated
<1>4. QED
  BY <1>1, <1>2, <1>3, InitTypes, InitArgs DEF StartupInv, Merged

(* The invariants hold throughout. *)
LEMMA Invariants == Spec => []StartupInv
<1>1. StartupInv /\ [Next]_vars => StartupInv'
  BY StepTypes, StepArgs, StepMode, StepInputs, StepMerged, StepEffective
     DEF StartupInv
<1>2. QED
  BY InitInv, <1>1, PTL DEF Spec

(* For every command line, file and environment, main() ends or serves as   *)
(* its arguments ask: the exit statuses mean what they say, and a daemon    *)
(* never runs on input that was refused.                                    *)
THEOREM OutcomesFollowInput == Spec => []OutcomeFollowsInput
<1>1. StartupInv => OutcomeFollowsInput
  <2> SUFFICES ASSUME StartupInv PROVE OutcomeFollowsInput
    OBVIOUS
  <2> USE DEF StartupInv
  <2>1. status \in {"none", "signal"} \/ status \in AskedFor
    BY DEF ModeChosen
  <2>2. ASSUME pc \in Daemon PROVE "daemon" \in AskedFor
    <3>1. i > Len(argv) /\ pc # "ended"
      BY <2>2 DEF ArgsRead, Daemon
    <3>2. QED
      BY <2>2, <3>1, AskedForOpt DEF ModeChosen
  <2>3. ASSUME pc = "serving"
        PROVE  /\ seen = "absent" => Operands("--config") = {}
               /\ \A n \in DOMAIN read :
                    /\ read[n].key # "no_equals"
                    /\ read[n].key \in Key => Accepts(read[n].key, read[n].value)
               /\ \A k \in Key : env[k] # Unset => Accepts(k, env[k])
    <3>1. i > Len(argv) /\ "--config" \in Option
      BY <2>3 DEF ArgsRead, Option, TakesOperand
    <3>2. seen = "absent" => Operands("--config") = {}
      BY <2>3, <3>1, OptComplete DEF ModeChosen, Daemon
    <3>3. QED
      BY <2>3, <3>2 DEF InputsGood, LineBad
  <2>4. QED
    BY <2>1, <2>2, <2>3 DEF OutcomeFollowsInput, Daemon
<1>2. QED
  BY Invariants, <1>1, PTL

(* For every file, environment and set of databases, a process that gets as *)
(* far as Server::init() has the configuration the precedence rule says,    *)
(* key by key, with every number in its range.                              *)
THEOREM ConfigurationIsEffective == Spec => []EffectiveConfig
<1>1. StartupInv => EffectiveConfig
  BY DEF StartupInv
<1>2. QED
  BY Invariants, <1>1, PTL

=============================================================================
