------------------------------- MODULE ViamApp -------------------------------
(***************************************************************************)
(* main() of src/cli/viam/main.go: app.Run(os.Args) and, on an error,      *)
(* rdkcli.Errorf(app.ErrWriter, err.Error()).                              *)
(*                                                                         *)
(* urfave/cli's resolution of the command line and the fmt.Sprintf of      *)
(* Errorf are parameters: Resolve(argv) is the command the words reach    *)
(* and the words left over, Format(f) what Sprintf prints for the format   *)
(* f.  ViamCLI gives them the recursive definitions of ViamCommands.       *)
(* An unknown subcommand is modelled as an error main reports with status *)
(* 1; urfave/cli v2 has its help action return an exit code itself.       *)
(* urfave/cli and rdkcli are not in src/; their dispatch and actions are   *)
(* modelled from their documented behaviour.                               *)
(***************************************************************************)
EXTENDS Naturals, Sequences

CONSTANTS
    Argvs,      \* command lines (sequences of words, without flags)
    Given,      \* sets of flag names that may be passed
    ErrTexts,   \* texts of errors an action may return
    ReqText,    \* text of urfave/cli's missing-required-flag error
    UsageText,  \* text of its unknown-flag and unknown-command errors
    Resolve(_), \* [cmd |-> the command reached, args |-> the words left]
    Format(_)   \* fmt.Sprintf(format) with no operands

(* The format Errorf prints: "Error: " + format + "\n".                    *)
ErrorLine(t) == <<"Error: ">> \o t \o <<"\n">>

FlagNames(c) == UNION {c.flags[i] : i \in 1..Len(c.flags)}

VARIABLES
    argv,    \* os.Args after the program name, flags removed
    given,   \* the flags passed
    pc,      \* "parse", "action", "report" or "exit"
    failed,  \* whether app.Run returned an error
    errText, \* err.Error()
    out,     \* what was written to app.ErrWriter
    status   \* the process exit status

vars == <<argv, given, pc, failed, errText, out, status>>

Init ==
    /\ argv \in Argvs
    /\ given \in Given
    /\ pc = "parse"
    /\ failed = FALSE
    /\ errText = <<>>
    /\ out = <<>>
    /\ status = 0

Fail(t) ==
    /\ failed' = TRUE
    /\ errText' = t
    /\ pc' = "report"

(* app.Run: resolve the command; a command without an Action shows help,  *)
(* or fails when words are left that name no subcommand; a flag the       *)
(* command does not define, or a Required flag not passed, is an error;   *)
(* otherwise the Action runs.                                              *)
Dispatch ==
    /\ pc = "parse"
    /\ LET r == Resolve(argv) IN
       CASE r.cmd.action = "none" /\ r.args = <<>> -> pc' = "report" /\ UNCHANGED <<failed, errText>>
         [] r.cmd.action = "none" -> Fail(UsageText)
         [] ~(given \subseteq FlagNames(r.cmd)) -> Fail(UsageText)
         [] ~(r.cmd.required \subseteq given) -> Fail(ReqText)
         [] OTHER -> pc' = "action" /\ UNCHANGED <<failed, errText>>
    /\ UNCHANGED <<argv, given, out, status>>

(* The rdkcli Action returns nil or an error.                              *)
RunAction ==
    /\ pc = "action"
    /\ \/ pc' = "report" /\ UNCHANGED <<failed, errText>>
       \/ \E t \in ErrTexts : Fail(t)
    /\ UNCHANGED <<argv, given, out, status>>

(* if err := app.Run(os.Args); err != nil { rdkcli.Errorf(app.ErrWriter,  *)
(* err.Error()) }: Errorf writes Sprintf("Error: " + format + "\n") and   *)
(* exits with status 1.                                                    *)
Report ==
    /\ pc = "report"
    /\ pc' = "exit"
    /\ IF failed
         THEN /\ out' = Format(ErrorLine(errText))
              /\ status' = 1
         ELSE UNCHANGED <<out, status>>
    /\ UNCHANGED <<argv, given, failed, errText>>

Next == Dispatch \/ RunAction \/ Report

Spec == Init /\ [][Next]_vars

-----------------------------------------------------------------------------
(* The error is reported as it is: Errorf writes "Error: ", the text of   *)
(* err and a newline (spec 7: errors keep their original message).        *)
ErrorPrintedVerbatim ==
    (pc = "exit" /\ failed) => out = ErrorLine(errText)

=============================================================================
