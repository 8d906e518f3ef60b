-------------------------- MODULE SubmissionLedger --------------------------
(***************************************************************************)
(* What the grading pipeline promises about one course's bundle            *)
(* submissions, without saying how: an accepted submission is executed at  *)
(* most once, is decided at most once, a grade comes from exactly one      *)
(* execution, an interrupted execution ends in failure and is never tried  *)
(* again, and a verdict never changes (docs/operations/                    *)
(* student-platform-mvp.md: an interrupted running submission is not run   *)
(* again but becomes a worker_interrupted infrastructure failure).         *)
(***************************************************************************)
EXTENDS Naturals

CONSTANT Submissions

VARIABLES
    status,       \* where the submission stands
    executions    \* how often instructor code was started for it

ledgerVars == <<status, executions>>

LedgerInit ==
    /\ status = [s \in Submissions |-> "none"]
    /\ executions = [s \in Submissions |-> 0]

Move(s, from, to) ==
    /\ status[s] = from
    /\ status' = [status EXCEPT ![s] = to]
    /\ UNCHANGED executions

Accept(s) == Move(s, "none", "waiting")

Claim(s) == Move(s, "waiting", "executing")

Execute(s) ==
    /\ status[s] = "executing"
    /\ executions[s] = 0
    /\ executions' = [executions EXCEPT ![s] = 1]
    /\ UNCHANGED status

Judge(s) ==
    /\ executions[s] = 1
    /\ Move(s, "executing", "judged")

GiveUp(s) == Move(s, "executing", "failed")

Disclose(s) == Move(s, "judged", "public")

LedgerNext ==
    \E s \in Submissions :
        Accept(s) \/ Claim(s) \/ Execute(s) \/ Judge(s) \/ GiveUp(s) \/ Disclose(s)

LedgerSpec == LedgerInit /\ [][LedgerNext]_ledgerVars
=============================================================================
