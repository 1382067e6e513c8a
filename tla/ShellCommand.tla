---------------------------- MODULE ShellCommand ----------------------------
(***************************************************************************)
(* internal/executil/executil.go, RunCommand: a startup hook, a shell      *)
(* approver or a shell executor runs a command under a context. With no    *)
(* args the command is a bash script, which may fork; its descendants      *)
(* inherit the pipe from which os/exec copies the output.                  *)
(***************************************************************************)

CONSTANTS
    Children    \* bound: the processes a command may fork

VARIABLES
    expired,    \* the context's deadline has passed
    command,    \* the command's process: "none", "running", "zero", "nonzero", "killed"
    children,   \* its descendants that run with its output open
    run,        \* where RunCommand is: "start", "wait", "copy", "returned"
    failed      \* RunCommand's error is not nil

vars == <<expired, command, children, run, failed>>

TypeOK ==
    /\ {expired, failed} \subseteq BOOLEAN
    /\ command \in {"none", "running", "zero", "nonzero", "killed"}
    /\ children \subseteq Children
    /\ run \in {"start", "wait", "copy", "returned"}

Init ==
    /\ expired = FALSE
    /\ command = "none"
    /\ children = {}
    /\ run = "start"
    /\ failed = FALSE

Expire ==
    /\ ~expired
    /\ expired' = TRUE
    /\ UNCHANGED <<command, children, run, failed>>

-----------------------------------------------------------------------------
(* The processes.                                                          *)

Fork(p) ==
    /\ command = "running" \/ children # {}
    /\ children' = children \cup {p}
    /\ UNCHANGED <<expired, command, run, failed>>

ChildExits(p) ==
    /\ p \in children
    /\ children' = children \ {p}
    /\ UNCHANGED <<expired, command, run, failed>>

\* The command may end before its descendants do.
CommandExits ==
    /\ command = "running"
    /\ command' \in {"zero", "nonzero"}
    /\ UNCHANGED <<expired, children, run, failed>>

-----------------------------------------------------------------------------
(* RunCommand.                                                             *)

\* A bad template, no such program, or the context is done already.
CannotStart ==
    /\ run = "start"
    /\ run' = "returned"
    /\ failed' = TRUE
    /\ UNCHANGED <<expired, command, children>>

Start ==
    /\ run = "start" /\ ~expired
    /\ run' = "wait"
    /\ command' = "running"
    /\ UNCHANGED <<expired, children, failed>>

\* The goroutine that watches the context kills the command's process, and no
\* other: exec.CommandContext starts no process group of its own.
Kill ==
    /\ expired /\ command = "running"
    /\ command' = "killed"
    /\ UNCHANGED <<expired, children, run, failed>>

\* The command's process has been waited for.
Waited ==
    /\ run = "wait" /\ command # "running"
    /\ run' = "copy"
    /\ failed' = (command # "zero")
    /\ UNCHANGED <<expired, command, children>>

\* The copy of the output ends with its last writer; no WaitDelay is set.
Copied ==
    /\ run = "copy" /\ children = {}
    /\ run' = "returned"
    /\ UNCHANGED <<expired, command, children, failed>>

Terminated == run = "returned" /\ UNCHANGED vars

Next ==
    \/ Expire \/ CannotStart \/ Start \/ Kill \/ Waited \/ Copied
    \/ CommandExits \/ \E p \in Children : Fork(p) \/ ChildExits(p)
    \/ Terminated

(* The deadline comes, and os/exec does its part. Neither the command nor  *)
(* what it has started need end by itself.                                 *)
Fairness ==
    /\ WF_vars(Expire)
    /\ WF_vars(CannotStart)
    /\ WF_vars(Kill)
    /\ WF_vars(Waited)
    /\ WF_vars(Copied)

Spec == Init /\ [][Next]_vars
FairSpec == Spec /\ Fairness

-----------------------------------------------------------------------------
(* Correctness.                                                            *)

\* What RunCommand returns is complete: no process that writes to the output
\* is left, and no error means that the command itself ended with status zero.
\* (HTTPExchangeProofs proves it.)
OutputComplete ==
    run = "returned" => children = {} /\ (~failed => command = "zero")

\* Contradicted by the code: a timeout bounds how long a command is run.
TimeoutBounds == expired ~> run = "returned"
=============================================================================
