----------------------------- MODULE CommandLine -----------------------------
(***************************************************************************)
(* The program hektor (src/cli).                                           *)
(*                                                                         *)
(* The command line (cli.cpp, commands): a run takes its arguments apart   *)
(* one by one, looks the command up under its name or an alias, and        *)
(* executes it on database directories, which outlive the run.  Most       *)
(* commands only write a fixed text.  Those that touch a directory are     *)
(* init, add and info.                                                     *)
(*                                                                         *)
(* The interactive shell (interactive_shell.cpp): sessions read the        *)
(* history file when they begin and write it when they end, and note every *)
(* line in between.  Several may be open, and one may be killed.           *)
(***************************************************************************)
EXTENDS Integers, SequencesExt, FiniteSetsExt, TLC

CONSTANTS Lines,    \* command lines: sequences of arguments
          Paths,    \* database directories
          MaxRuns,  \* bound
          None

VARIABLES argv,
          i,        \* the next argument
          phase,    \* "global", "rest" or "done"
          status,   \* its exit status, when done
          global,   \* the global options given: -v for all flags, -f for all that take a value
          command, args, options,
          disk,     \* path -> the entries of its metadata.json, or None
          shown,    \* what info said of a directory: its path and count, or None
          runs

lineVars == <<argv, i, phase, status, global, command, args, options>>
runVars == <<lineVars, disk, shown, runs>>

------------------------------------------------------------------------------
\* Arguments: those that begin with a dash, and of these the lone dash.
Dashed(a) == a \in {"-", "-v", "-f", "-k", "--text", "--force", "--dimension", "--help"}
IsOption(a) == Dashed(a) /\ a # "-"
IsNumber(a) == a \in {"7", "true7"}   \* what std::stoi reads; it throws for any other

Nothing == [a \in {} |-> None]

LineInit == /\ argv \in Lines /\ i = 1 /\ phase = "global" /\ status = 0
            /\ global = Nothing /\ command = None /\ args = <<>> /\ options = Nothing
            /\ disk = [p \in Paths |-> None] /\ shown = None /\ runs = 1

Exit(code) == phase' = "done" /\ status' = code

\* parse_arguments.  The value of -f is whatever follows.
GlobalOption ==
    /\ phase = "global" /\ i <= Len(argv) /\ argv[i] \in {"-v", "-f"}
    /\ IF argv[i] = "-f"
       THEN /\ global' = IF i < Len(argv) THEN ("-f" :> argv[i + 1]) @@ global ELSE global
            /\ i' = IF i < Len(argv) THEN i + 2 ELSE i + 1
       ELSE global' = (argv[i] :> "true") @@ global /\ i' = i + 1
    /\ UNCHANGED <<argv, phase, status, command, args, options, disk, shown, runs>>

Command ==
    /\ phase = "global" /\ ~(i <= Len(argv) /\ argv[i] \in {"-v", "-f"})
    /\ IF i <= Len(argv) THEN command' = argv[i] /\ i' = i + 1 /\ phase' = "rest" /\ UNCHANGED status
       ELSE Exit(1) /\ UNCHANGED <<command, i>>
    /\ UNCHANGED <<argv, global, args, options, disk, shown, runs>>

\* An option takes the next argument as its value, unless that has a dash.
TakesAny == i < Len(argv)   \* mutant of TakesValue
TakesValue == i < Len(argv) /\ ~Dashed(argv[i + 1])

Option ==
    /\ phase = "rest" /\ i <= Len(argv) /\ IsOption(argv[i])
    /\ options' = (argv[i] :> IF TakesValue THEN argv[i + 1] ELSE "true") @@ options
    /\ i' = IF TakesValue THEN i + 2 ELSE i + 1
    /\ UNCHANGED <<argv, phase, status, global, command, args, disk, shown, runs>>

Positional ==
    /\ phase = "rest" /\ i <= Len(argv) /\ ~IsOption(argv[i])
    /\ args' = Append(args, argv[i])
    /\ i' = i + 1
    /\ UNCHANGED <<argv, phase, status, global, command, options, disk, shown, runs>>

------------------------------------------------------------------------------
\* register_commands, in its order: names, and for each its aliases.  A later
\* alias replaces an earlier one of the same spelling.
Commands == << <<"init", {"init"}>>, <<"db:info", {"info"}>>, <<"db:optimize", {"optimize"}>>,
               <<"db:backup", {"backup"}>>, <<"db:restore", {"restore"}>>, <<"db:health", {"health"}>>,
               <<"db:list", {"db:ls"}>>, <<"add", {"add"}>>, <<"get", {"get"}>>, <<"delete", {"delete", "rm"}>>,
               <<"update", {"update"}>>, <<"batch", {"batch"}>>, <<"list", {"ls"}>>, <<"search", {"s"}>>,
               <<"hybrid:search", {"hs"}>>, <<"hybrid:bm25", {}>>, <<"ingest", {}>>, <<"ingest:scan", {}>>,
               <<"index:build", {}>>, <<"index:optimize", {}>>, <<"index:stats", {}>>, <<"index:benchmark", {}>>,
               <<"collection:create", {}>>, <<"collection:list", {"collection:ls"}>>, <<"collection:delete", {}>>,
               <<"collection:info", {}>>, <<"export:data", {}>>, <<"export:pairs", {}>>, <<"export:triplets", {}>> >>

\* get_command: a name before an alias.
Resolve(name) ==
    LET named == {c \in DOMAIN Commands : Commands[c][1] = name}
        alias == {c \in DOMAIN Commands : name \in Commands[c][2]}
    IN  IF named # {} THEN name ELSE IF alias # {} THEN Commands[Max(alias)][1] ELSE None

\* What the shell completes (get_completions), and the commands of its own among
\* it (handle_shell_command).
Completions ==
    {"init", "info", "optimize", "backup", "restore", "health", "list", "add", "get", "update", "delete", "batch",
     "search", "hybrid:search", "hybrid:bm25", "ingest", "ingest:scan", "index:build", "index:optimize",
     "index:stats", "index:benchmark", "collection:create", "collection:list", "collection:delete",
     "collection:info", "export:data", "export:pairs", "export:triplets",
     "exit", "quit", "help", "clear", "history", "use"}
ShellCommands == {"exit", "quit", "q", "help", "?", "clear", "cls", "history", "use"}

\* How many arguments a command needs.
Needed(name) ==
    CASE name = "db:list" -> 0
      [] name \in {"init", "db:info", "db:optimize", "db:health", "add", "list", "index:build", "index:optimize",
                   "index:stats", "index:benchmark", "collection:list", "ingest:scan"} -> 1
      [] OTHER -> 2
Given(option) == option \in DOMAIN options
Path == args[1]

\* Whether an option is read as a number, and is none: std::stoi throws.  Each
\* command has options of its own; these are those of init and of a search.
NotANumber(name) ==
    LET option == CASE name = "init" -> "--dimension"
                    [] name \in {"search", "hybrid:search", "hybrid:bm25"} -> "-k"
                    [] OTHER -> None
    IN  option # None /\ Given(option) /\ ~IsNumber(options[option])

\* Searches look for the database before they write their fixed results.
NoDatabase(name) == args # <<>> /\ name \in {"db:info", "search", "hybrid:search"} /\ disk[Path] = None

\* init writes empty files, over those of a database that is there.
DbInit == /\ args # <<>> /\ ~NotANumber("init") /\ Path # ""
          /\ disk' = [disk EXCEPT ![Path] = <<>>]
          /\ Exit(0) /\ UNCHANGED shown

\* An entry is appended to metadata.json; where there is no database nobody reads
\* it, and the answer is the same.
DataAdd == /\ args # <<>> /\ Given("--text")
           /\ disk' = IF disk[Path] = None THEN disk ELSE [disk EXCEPT ![Path] = Append(@, options["--text"])]
           /\ Exit(0) /\ UNCHANGED shown

\* A line break stands between two entries, so that info finds at most one.
CountAll(entries) == Len(entries) + 1   \* mutant of Count: one more than there are separators
Count(entries) == IF entries = <<>> THEN 0 ELSE 1
DbInfo == /\ args # <<>> /\ ~NoDatabase("db:info")
          /\ shown' = [path |-> Path, count |-> Count(disk[Path])]
          /\ Exit(0) /\ UNCHANGED disk

\* The others only write, some of it to a file of the user's.
Other(name) == /\ name \notin {"init", "add", "db:info"}
               /\ Len(args) >= Needed(name) /\ ~NotANumber(name) /\ ~NoDatabase(name)
               /\ Exit(0) /\ UNCHANGED <<disk, shown>>

Refused(name) == /\ \/ Len(args) < Needed(name)
                    \/ NotANumber(name)
                    \/ name = "init" /\ args # <<>> /\ Path = ""
                    \/ name = "add" /\ ~Given("--text")
                    \/ NoDatabase(name)
                 /\ Exit(1) /\ UNCHANGED <<disk, shown>>

\* run, after help, version and the shell, and execute_command.
Execute ==
    /\ phase = "rest" /\ i > Len(argv)
    /\ LET name == Resolve(command)
       IN  IF command \in {"help", "--help"} THEN Exit(0) /\ UNCHANGED <<disk, shown>>
           ELSE \/ name = None /\ Exit(1) /\ UNCHANGED <<disk, shown>>
                \/ name = "init" /\ DbInit
                \/ name = "add" /\ DataAdd
                \/ name = "db:info" /\ DbInfo
                \/ name # None /\ (Other(name) \/ Refused(name))
    /\ UNCHANGED <<argv, i, global, command, args, options, runs>>

\* The next run.
Again == /\ phase = "done" /\ runs < MaxRuns
         /\ argv' \in Lines /\ i' = 1 /\ phase' = "global" /\ status' = 0
         /\ global' = Nothing /\ command' = None /\ args' = <<>> /\ options' = Nothing
         /\ shown' = None /\ runs' = runs + 1
         /\ UNCHANGED disk

LineNext == GlobalOption \/ Command \/ Option \/ Positional \/ Execute \/ Again

LineSpec == LineInit /\ [][LineNext]_runVars

------------------------------------------------------------------------------
\* Where the command stands: the first argument that is neither a global option
\* nor the value of one.
IsValue[n \in 1 .. Len(argv)] == n > 1 /\ argv[n - 1] = "-f" /\ ~IsValue[n - 1]
CommandAt == Min({n \in 1 .. Len(argv) : argv[n] \notin {"-v", "-f"} /\ ~IsValue[n]})

\* Of what follows the command, each argument is an option, the value of the
\* option right before it, or positional, and the positional ones keep their
\* order: those that are no option and do not follow one, and a lone dash.
ArgumentsAreSorted ==
    phase = "rest" /\ i > Len(argv) =>
        LET Free(n) == ~IsOption(argv[n]) /\ (argv[n] = "-" \/ n = CommandAt + 1 \/ ~IsOption(argv[n - 1]))
            free == SetToSortSeq({n \in CommandAt + 1 .. Len(argv) : Free(n)}, <)
        IN  /\ args = [n \in DOMAIN free |-> argv[free[n]]]
            /\ DOMAIN options = {argv[n] : n \in {m \in CommandAt + 1 .. Len(argv) : IsOption(argv[m])}}

\* No name or alias hides another command's, and whatever the shell completes
\* names a command.
CommandsAreFound ==
    /\ \A c \in DOMAIN Commands : \A name \in Commands[c][2] \cup {Commands[c][1]} : Resolve(name) = Commands[c][1]
    /\ \A name \in Completions : name \in ShellCommands \/ Resolve(name) # None

\* info says of a database that it has documents if and only if one was added
\* since init, which it does not say of an entry that found no directory.
InfoTellsEmpty == shown # None => (shown.count = 0 <=> disk[shown.path] = <<>>)

------------------------------------------------------------------------------
(* The shell.                                                              *)

CONSTANTS Terminals,
          Entries,      \* lines typed, trimmed and not empty, besides "exit" and "use"
          Databases,
          MaxHistory, \* 1000 in the code
          MaxLines    \* bound: lines typed in a session

VARIABLES file,    \* the lines of .hektor_history
          running, history, history_index, db_path,   \* of each session
          given    \* what a session read from the file and was typed into it

shellVars == <<file, running, history, history_index, db_path, given>>

ShellInit == /\ file = <<>>
             /\ running = [s \in Terminals |-> FALSE]
             /\ history = [s \in Terminals |-> <<>>]
             /\ history_index = [s \in Terminals |-> 0]
             /\ db_path = [s \in Terminals |-> None]
             /\ given = [s \in Terminals |-> <<>>]

------------------------------------------------------------------------------
\* The constructor, with load_history.
Begin(s) ==
    /\ ~running[s]
    /\ running' = [running EXCEPT ![s] = TRUE]
    /\ history' = [history EXCEPT ![s] = file]
    /\ history_index' = [history_index EXCEPT ![s] = Len(file)]
    /\ \E d \in Databases \cup {None} : db_path' = [db_path EXCEPT ![s] = d]
    /\ given' = [given EXCEPT ![s] = file]
    /\ UNCHANGED file

\* The process goes without a destructor.
Gone(s) == /\ running' = [running EXCEPT ![s] = FALSE]
           /\ history' = [history EXCEPT ![s] = <<>>]
           /\ history_index' = [history_index EXCEPT ![s] = 0]
           /\ db_path' = [db_path EXCEPT ![s] = None]
           /\ given' = [given EXCEPT ![s] = <<>>]
Kill(s) == running[s] /\ Gone(s) /\ UNCHANGED file

\* The end of the input: the destructor's save_history, which may be cut off
\* after any line.
End(s) == /\ running[s]
          /\ \E kept \in 0 .. Len(history[s]) : file' = SubSeq(history[s], 1, kept)
          /\ Gone(s)

AddedAgain(lines, line) ==   \* mutant of Added: repetitions are kept
    IF Len(lines) = MaxHistory THEN Append(Tail(lines), line) ELSE Append(lines, line)

\* add_to_history.  The oldest of too many is erased.
Added(lines, line) ==
    IF lines # <<>> /\ line = Last(lines) THEN lines
    ELSE IF Len(lines) = MaxHistory THEN Append(Tail(lines), line) ELSE Append(lines, line)

Typed(s, line) ==
    /\ history' = [history EXCEPT ![s] = Added(@, line)]
    /\ history_index' = [history_index EXCEPT ![s] = IF Added(history[s], line) = history[s] THEN @
                                                     ELSE Len(Added(history[s], line))]
    /\ given' = [given EXCEPT ![s] = Append(@, line)]

\* The first line of an empty history is compared with history_.back(), which
\* is not there: the process dies or finds them different.
FirstLine(s) == running[s] /\ history[s] = <<>> /\ Gone(s) /\ UNCHANGED file

Line(s, line) ==
    /\ running[s] /\ Len(given[s]) < MaxLines
    /\ Typed(s, line)
    /\ UNCHANGED <<file, running, db_path>>

Use(s, d) ==
    /\ running[s] /\ Len(given[s]) < MaxLines
    /\ Typed(s, <<"use", d>>)
    /\ db_path' = [db_path EXCEPT ![s] = d]
    /\ UNCHANGED <<file, running>>

\* "exit" is noted too, and saved with the rest.
ExitShell(s) ==
    /\ running[s]
    /\ file' = Added(history[s], <<"exit">>)
    /\ Gone(s)

ShellNext == \E s \in Terminals :
                 \/ Begin(s) \/ Kill(s) \/ End(s) \/ FirstLine(s) \/ ExitShell(s)
                 \/ \E line \in Entries : Line(s, line)
                 \/ \E d \in Databases : Use(s, d)

ShellSpec == ShellInit /\ [][ShellNext]_shellVars

------------------------------------------------------------------------------
\* A sequence without what equals its predecessor.
Distinct(lines) ==
    LET kept == SetToSortSeq({n \in DOMAIN lines : n = 1 \/ lines[n] # lines[n - 1]}, <)
    IN  [n \in DOMAIN kept |-> lines[kept[n]]]
Latest(lines) == SubSeq(lines, Len(lines) - (IF Len(lines) < MaxHistory THEN Len(lines) ELSE MaxHistory) + 1, Len(lines))

\* The history of a session, over those before it, is the last MaxHistory of
\* the lines without repetitions, and its index is behind it.
HistoryIsLatest ==
    \A s \in Terminals : running[s] => /\ history[s] = Latest(Distinct(given[s]))
                                      /\ history_index[s] = Len(history[s])

\* Whatever sessions are killed or overlap, and wherever a save is cut off, the
\* file never outgrows a history nor repeats a line in succession, so that a
\* session begun with it is as good as the one that wrote it.
FileIsAHistory == Len(file) <= MaxHistory /\ file = Distinct(file)
==============================================================================
