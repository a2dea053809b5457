----------------------------- MODULE CommandLine -----------------------------
(***************************************************************************)
(* The executable (src/cli/main.cpp): its arguments, one of the two input  *)
(* modes, and how the process ends.  A run from files is the one of        *)
(* FileRun, step by step; a scenario, which cannot fail, is one step here  *)
(* and has ScenarioRunner for its inside.                                  *)
(***************************************************************************)
EXTENDS FileRun, TLC

CONSTANTS Argvs,              \* the argument lists the program may be started with
          ScenarioNames       \* ScenarioRunner::scenarioNames

VARIABLES
  argv,      \* the arguments
  i,         \* the argument looked at
  given,     \* scenario, rules, packets and output, by their options
  list,      \* --list-scenarios was among the arguments
  printed,   \* what stands on standard output
  exit       \* the exit status, Optional; 134 when the process aborts

argVars == <<argv, i, given, list, printed, exit>>
cliVars == <<runVars, argVars>>

CliInit ==
  /\ RunInit
  /\ argv \in Argvs /\ i = 1 /\ list = FALSE /\ printed = "nothing" /\ exit = {}
  /\ given = [option \in {"--scenario", "--rules", "--packets"} |-> ""] @@ ("--output" :> "human")

Exit(status, output) == exit' = {status} /\ printed' = output

Usage == Exit(2, "nothing") /\ UNCHANGED <<argv, i, given, list>>

-----------------------------------------------------------------------------
(* The loop over the arguments.                                            *)

Looking == exit = {} /\ pc = "idle" /\ i <= Len(argv)

TakesValue == argv[i] \in DOMAIN given /\ i + 1 <= Len(argv)

Help == Looking /\ argv[i] = "--help" /\ Exit(0, "help") /\ UNCHANGED <<argv, i, given, list>>

\* Mutant: the loop does not go on.
ListAgain ==
  /\ Looking /\ argv[i] = "--list-scenarios"
  /\ list' = TRUE /\ UNCHANGED <<argv, i, given, printed, exit>>

List ==
  /\ Looking /\ argv[i] = "--list-scenarios"
  /\ list' = TRUE /\ i' = i + 1 /\ UNCHANGED <<argv, given, printed, exit>>

\* The value is taken whatever it is, and the last one counts.
TakeValue ==
  /\ Looking /\ TakesValue
  /\ given' = [given EXCEPT ![argv[i]] = argv[i + 1]]
  /\ i' = i + 2 /\ UNCHANGED <<argv, list, printed, exit>>

Unknown ==
  /\ Looking /\ argv[i] \notin {"--help", "--list-scenarios"} /\ ~ TakesValue
  /\ Usage

-----------------------------------------------------------------------------
(* What is done with them.                                                 *)

Looked == exit = {} /\ pc = "idle" /\ i > Len(argv)

PrintNames == Looked /\ list /\ Exit(0, "names") /\ UNCHANGED <<argv, i, given, list>>

OutputKnown == given["--output"] \in {"human", "json"}
Named(option) == given[option] # ""
ScenarioMode == Named("--scenario") /\ ~ Named("--rules") /\ ~ Named("--packets")
FilesMode    == ~ Named("--scenario") /\ Named("--rules") /\ Named("--packets")

Refuse ==
  /\ Looked /\ ~ list
  /\ \/ ~ OutputKnown
     \/ ScenarioMode /\ given["--scenario"] \notin ScenarioNames
     \/ ~ ScenarioMode /\ ~ FilesMode
  /\ Usage

RunScenario ==
  /\ Looked /\ ~ list /\ OutputKnown /\ ScenarioMode /\ given["--scenario"] \in ScenarioNames
  /\ Exit(0, given["--output"]) /\ UNCHANGED <<argv, i, given, list>>

StartFiles ==
  /\ Looked /\ ~ list /\ OutputKnown /\ FilesMode
  /\ Start(given["--rules"], given["--packets"])
  /\ UNCHANGED argVars

\* Mutant: a failed load prints the empty result.
ReportLoaded ==
  /\ exit = {} /\ pc \in {"done", "failed", "aborted"}
  /\ Exit(IF pc = "aborted" THEN 134 ELSE 0, IF pc = "aborted" THEN "nothing" ELSE given["--output"])
  /\ UNCHANGED <<argv, i, given, list>>

Report ==
  /\ exit = {}
  /\ \/ pc = "done"    /\ Exit(0, given["--output"])
     \/ pc = "failed"  /\ Exit(4, "nothing")
     \/ pc = "aborted" /\ Exit(134, "nothing")
  /\ UNCHANGED <<argv, i, given, list>>

CliNext ==
  \/ /\ UNCHANGED runVars
     /\ Help \/ List \/ TakeValue \/ Unknown \/ PrintNames \/ Refuse \/ RunScenario \/ Report
  \/ StartFiles
  \/ RunNext /\ UNCHANGED argVars

\* main runs on until it returns.
CliSpec == CliInit /\ [][CliNext]_cliVars /\ WF_cliVars(CliNext)

-----------------------------------------------------------------------------
(* Properties.                                                             *)

\* A script that calls the program can trust its exit status: 0 means that a
\* whole answer stands on standard output, of the one input mode the
\* arguments leave after later values replaced earlier ones, and of a file
\* whose every packet was processed; 2 means that no file was opened; any
\* other means that no packet was processed and nothing was printed.
ExitTellsOutcome ==
  \A status \in exit :
    /\ (status = 0) <=> (printed # "nothing")
    /\ printed = "json" \/ printed = "human" =>
         /\ printed = given["--output"]
         /\ ScenarioMode # FilesMode
         /\ FilesMode => rules # {} /\ Len(result.decisions) = Len(PacketsDoc.packets)
    /\ status = 2 => pc = "idle"
    /\ status \in {4, 134} => result = NewResult /\ decisions = <<>>

\* Every start of the program ends with an exit status.
ProgramEnds == <>(exit # {})

=============================================================================
