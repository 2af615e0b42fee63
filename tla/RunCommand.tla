----------------------------- MODULE RunCommand -----------------------------
(***************************************************************************)
(* scripts/utils.py, run_command: every script of scripts/ runs the        *)
(* external tools (git, docker, gh, cmake, the SDK installer) through it.  *)
(* A script is a sequence of steps; pc names the step it is about to do,   *)
(* "exit" once it has ended.                                               *)
(***************************************************************************)

\* Mutant: run_command reports a failure and returns to its caller.
AfterCommand_GoesOn(ok, next) == next

\* The step a script does after run_command(cmd), next being the one that
\* follows in the source: a non-zero exit status, or Ctrl-C while the command
\* runs, ends the script.
AfterCommand(ok, next) == IF ok THEN next ELSE "exit"

=============================================================================
