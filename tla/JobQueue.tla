------------------------------- MODULE JobQueue -------------------------------
(***************************************************************************)
(* What the Nitrado outbox promises its producers, without sweeps, leases, *)
(* locks or processes: a job has at most one owner at a time, only an      *)
(* owner completes it or counts a failed attempt (exactly one at a time,   *)
(* never past the budget), and an interrupted job returns to the queue     *)
(* with the attempts it had.  NitradoJobs implements it.                   *)
(***************************************************************************)
EXTENDS Naturals

CONSTANTS Jobs, Owners, None, MaxAttempts

VARIABLES status, owner, attempts

vars == <<status, owner, attempts>>

Init == /\ status \in [Jobs -> {"ABSENT", "PENDING", "RUNNING"}]
        /\ owner = [j \in Jobs |-> None]
        /\ attempts = [j \in Jobs |-> 0]

Become(j, s, o, n) == /\ status' = [status EXCEPT ![j] = s]
                      /\ owner' = [owner EXCEPT ![j] = o]
                      /\ attempts' = [attempts EXCEPT ![j] = n]

Submit(j)   == status[j] = "ABSENT" /\ Become(j, "PENDING", None, 0)

\* A producer withdraws a job nobody owns.
Withdraw(j) == /\ status[j] = "PENDING"
               /\ \E s \in {"DONE", "DEAD"} : Become(j, s, None, attempts[j])

Acquire(j)  == /\ status[j] = "PENDING"
               /\ \E o \in Owners : /\ \A k \in Jobs : owner[k] # o
                                    /\ Become(j, "RUNNING", o, attempts[j])

Owned(j)    == status[j] = "RUNNING" /\ owner[j] \in Owners

Complete(j) == Owned(j) /\ Become(j, "DONE", None, attempts[j])

\* One failed attempt: again later while the budget lasts, or for good.
Retry(j)    == /\ Owned(j) /\ attempts[j] + 1 < MaxAttempts
               /\ Become(j, "PENDING", None, attempts[j] + 1)

Bury(j)     == Owned(j) /\ Become(j, "DEAD", None, attempts[j] + 1)

\* The owner gives the job back, or it is taken from an owner gone silent.
Return(j)   == status[j] = "RUNNING" /\ Become(j, "PENDING", None, attempts[j])

\* Finished rows are deleted in bulk.
Purge(S)    == /\ \A j \in S : status[j] \in {"DONE", "DEAD"}
               /\ status' = [j \in Jobs |-> IF j \in S THEN "DELETED" ELSE status[j]]
               /\ UNCHANGED <<owner, attempts>>

Next == \/ \E j \in Jobs : \/ Submit(j) \/ Withdraw(j) \/ Acquire(j) \/ Complete(j)
                           \/ Retry(j) \/ Bury(j) \/ Return(j)
        \/ \E S \in SUBSET Jobs : Purge(S)

Spec == Init /\ [][Next]_vars
=============================================================================
