---------------------------- MODULE JobLifecycle ----------------------------
(***************************************************************************)
(* What the refresh queue promises about one row of refresh_jobs, whatever *)
(* the tools, the feeders, the database faults and the restarts do: a row  *)
(* is submitted pending, is attempted at most MaxAttempts times, each      *)
(* attempt starts from pending, a row is given up only when its attempts   *)
(* are used up, and a settled row is never touched again.                  *)
(***************************************************************************)
EXTENDS Naturals, Sequences

CONSTANT MaxAttempts

VARIABLES
    status,   \* status of each submitted job, in submission order
    tries     \* attempts started for each job

abstractVars == <<status, tries>>

LifeInit == status = <<>> /\ tries = <<>>

Submit ==
    /\ status' = Append(status, "pending")
    /\ tries' = Append(tries, 0)

Move(j, from, to) ==
    /\ status[j] = from
    /\ status' = [status EXCEPT ![j] = to]

Start(j) ==
    /\ tries[j] < MaxAttempts
    /\ Move(j, "pending", "running")
    /\ tries' = [tries EXCEPT ![j] = @ + 1]

Finish(j) == Move(j, "running", "finished") /\ UNCHANGED tries

Retry(j) ==
    /\ tries[j] < MaxAttempts
    /\ Move(j, "running", "pending")
    /\ UNCHANGED tries

GiveUp(j) ==
    /\ tries[j] = MaxAttempts
    /\ Move(j, "running", "failed")
    /\ UNCHANGED tries

LifeNext ==
    \/ Submit
    \/ \E j \in DOMAIN status : Start(j) \/ Finish(j) \/ Retry(j) \/ GiveUp(j)

LifeSpec == LifeInit /\ [][LifeNext]_abstractVars
=============================================================================
