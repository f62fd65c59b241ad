---------------------------- MODULE JobLifecycle ----------------------------
(***************************************************************************)
(* What a background job promises to whoever started it: it runs in at     *)
(* most MaxRetries + 1 attempts that end by themselves, and how it ended   *)
(* is decided once.  An attempt whose worker dies is taken up again        *)
(* without counting, or the job is lost.                                   *)
(***************************************************************************)
EXTENDS Naturals

CONSTANTS
    Job,
    MaxRetries      \* a natural number

VARIABLES
    phase,      \* of each job
    retries     \* how many of its attempts have failed so far

Init == phase = [j \in Job |-> "idle"] /\ retries = [j \in Job |-> 0]

Move(j, from, to) == phase[j] = from /\ phase' = [phase EXCEPT ![j] = to]

Submit(j) == Move(j, "idle", "queued") /\ UNCHANGED retries
Start(j) == Move(j, "queued", "running") /\ UNCHANGED retries
Succeed(j) == Move(j, "running", "succeeded") /\ UNCHANGED retries
Return(j) == Move(j, "running", "queued") /\ UNCHANGED retries
Lose(j) == Move(j, "running", "lost") /\ UNCHANGED retries

Retry(j) ==
    /\ Move(j, "running", "queued")
    /\ retries[j] < MaxRetries
    /\ retries' = [retries EXCEPT ![j] = @ + 1]

GiveUp(j) ==
    /\ Move(j, "running", "failed")
    /\ retries[j] = MaxRetries
    /\ UNCHANGED retries

Next ==
    \E j \in Job : \/ Submit(j) \/ Start(j) \/ Succeed(j) \/ Return(j) \/ Lose(j)
                   \/ Retry(j) \/ GiveUp(j)

Spec == Init /\ [][Next]_<<phase, retries>>
=============================================================================
