----------------------------- MODULE KeepOnline -----------------------------
(***************************************************************************)
(* Keep-Online of one game server: the switch in the dashboard, the cron   *)
(* that queues at most one RESTART_IF_DOWN job, and the worker that starts *)
(* a server it finds stopped, and never a suspended one.                   *)
(*                                                                         *)
(* An open job and the last ended one are one record: no job is queued     *)
(* while another is open or its failure is younger than the cooldown.      *)
(***************************************************************************)
EXTENDS Integers

CONSTANTS
    Crons,              \* the bot's processes; each polls
    MaxAttempts,
    MaxSwitches, MaxStops, MaxFaults \* bounds: switch, what happens to the server, failures

VARIABLES
    enabled,            \* NitradoConnection.keepOnlineEnabled
    server,             \* its state at Nitrado
    job,                \* the last job: status, attempts, cancelled, recent (in the cooldown)
    seen,               \* [Crons -> what a poll is at]: it has read the enabled connections
    exec,               \* the execution of the job, with the connection lock
    switches, stops, faults

vars == <<enabled, server, job, seen, exec, switches, stops, faults>>
counts == <<switches, stops, faults>>

\* The constants: the bounds are numbers.
KeepAssumption == MaxAttempts \in Nat \ {0} /\ MaxSwitches \in Nat /\ MaxStops \in Nat /\ MaxFaults \in Nat

Resting == [at |-> "idle", enabled |-> FALSE]
Open == job.status \in {"PENDING", "RUNNING"}

Init ==
    /\ enabled = FALSE /\ server = "started"
    /\ job = [status |-> "NONE", attempts |-> 0, cancelled |-> FALSE, recent |-> FALSE]
    /\ seen = [c \in Crons |-> FALSE] /\ exec = Resting
    /\ switches = 0 /\ stops = 0 /\ faults = 0

TypeOK ==
    /\ enabled \in BOOLEAN /\ server \in {"started", "stopped", "suspended"}
    /\ job.status \in {"NONE", "PENDING", "RUNNING", "DONE", "DEAD"} /\ job.attempts \in 0..MaxAttempts
    /\ job.cancelled \in BOOLEAN /\ job.recent \in BOOLEAN
    /\ seen \in [Crons -> BOOLEAN]
    /\ exec.at \in {"idle", "status", "recheck", "start", "done"} /\ exec.enabled \in BOOLEAN
    /\ switches \in 0..MaxSwitches /\ stops \in 0..MaxStops /\ faults \in 0..MaxFaults

Fault == faults < MaxFaults /\ faults' = faults + 1 /\ UNCHANGED <<switches, stops>>

-----------------------------------------------------------------------------
\* The dashboard, with the connection lock; off, it withdraws the PENDING job.
Switch ==
    /\ exec = Resting /\ switches < MaxSwitches /\ switches' = switches + 1
    /\ enabled' = ~enabled
    /\ job' = IF enabled /\ job.status = "PENDING"
              THEN [job EXCEPT !.status = "DEAD", !.cancelled = TRUE, !.recent = TRUE] ELSE job
    /\ UNCHANGED <<server, seen, exec, stops, faults>>

\* The server stops, Nitrado suspends it or lifts that.
ServerTurns(to) ==
    /\ to # server /\ stops < MaxStops /\ stops' = stops + 1 /\ server' = to
    /\ to # "started" \/ server = "suspended"
    /\ UNCHANGED <<enabled, job, seen, exec, switches, faults>>

\* runKeepOnlinePollOnce: the enabled connections, then check and insertion in
\* one serializable transaction.
PollRead(c) ==
    /\ enabled /\ ~seen[c] /\ seen' = [seen EXCEPT ![c] = TRUE]
    /\ UNCHANGED <<enabled, server, job, exec, counts>>

\* Mutant of Blocked: a job that was withdrawn counts as failed.
BlockedByAnyDead == Open \/ (job.status = "DEAD" /\ job.recent)

Blocked == Open \/ (job.status = "DEAD" /\ job.recent /\ ~job.cancelled)
EnqueueIfMissing(c) ==
    /\ seen[c] /\ seen' = [seen EXCEPT ![c] = FALSE]
    /\ job' = IF Blocked THEN job ELSE [status |-> "PENDING", attempts |-> 0, cancelled |-> FALSE, recent |-> FALSE]
    /\ UNCHANGED <<enabled, server, exec, counts>>

\* The cooldown of a failed job is over.
Cooldown ==
    /\ job.status = "DEAD" /\ job.recent /\ job' = [job EXCEPT !.recent = FALSE]
    /\ UNCHANGED <<enabled, server, seen, exec, counts>>

-----------------------------------------------------------------------------
Goto(at) == exec' = [exec EXCEPT !.at = at] /\ UNCHANGED <<enabled, server, job, seen, counts>>

\* The claim, the lock, the connection as it is now.
Take ==
    /\ job.status = "PENDING" /\ exec = Resting
    /\ job' = [job EXCEPT !.status = "RUNNING"]
    /\ exec' = [at |-> IF enabled THEN "status" ELSE "done", enabled |-> enabled]
    /\ UNCHANGED <<enabled, server, seen, counts>>

Status  == exec.at = "status" /\ Goto(IF server = "stopped" THEN "recheck" ELSE "done")
Recheck == exec.at = "recheck" /\ Goto(IF enabled THEN "start" ELSE "done")

\* Nitrado starts what is stopped; a suspended server stays as it is.
Started == server' = IF server = "stopped" THEN "started" ELSE server
Start ==
    /\ exec.at = "start" /\ Started /\ exec' = [exec EXCEPT !.at = "done"]
    /\ UNCHANGED <<enabled, job, seen, counts>>

Done ==
    /\ exec.at = "done" /\ job' = [job EXCEPT !.status = "DONE"] /\ exec' = Resting
    /\ UNCHANGED <<enabled, server, seen, counts>>

\* A call fails, or its answer is lost; failJob.
Fails ==
    /\ exec.at \in {"status", "start"} /\ Fault
    /\ IF exec.at = "start" THEN Started \/ UNCHANGED server ELSE UNCHANGED server
    /\ LET n == job.attempts + 1
       IN  job' = IF n < MaxAttempts THEN [job EXCEPT !.status = "PENDING", !.attempts = n]
                  ELSE [job EXCEPT !.status = "DEAD", !.attempts = n, !.recent = TRUE]
    /\ exec' = Resting /\ UNCHANGED <<enabled, seen>>

Crash ==
    /\ Fault /\ exec' = Resting /\ seen' = [c \in Crons |-> FALSE] /\ UNCHANGED <<enabled, server, job>>

Recover ==
    /\ job.status = "RUNNING" /\ exec = Resting /\ job' = [job EXCEPT !.status = "PENDING"]
    /\ UNCHANGED <<enabled, server, seen, exec, counts>>

-----------------------------------------------------------------------------
Poll(c) == PollRead(c) \/ EnqueueIfMissing(c)
Work == Take \/ Status \/ Recheck \/ Start \/ Done

Next ==
    \/ Switch \/ (\E to \in {"started", "stopped", "suspended"} : ServerTurns(to))
    \/ (\E c \in Crons : Poll(c)) \/ Cooldown \/ Work \/ Fails \/ Crash \/ Recover

Fairness == (\A c \in Crons : WF_vars(Poll(c))) /\ WF_vars(Work) /\ WF_vars(Recover)

Spec == Init /\ [][Next]_vars
FairSpec == Spec /\ Fairness

-----------------------------------------------------------------------------
(* Properties *)

\* keepOnlineJobs.ts: once the switch is off, the bot starts no server.
OffMeansOff == [][exec.at = "start" /\ server' # server => enabled]_vars

\* permaOnlyCron.ts: a server that is to be online and stays stopped is started, for
\* the failure of a job only after its cooldown; being switched off is no failure.
ComesBack ==
    (server = "stopped" /\ enabled)
        ~> (server # "stopped" \/ ~enabled \/ (job.status = "DEAD" /\ ~job.cancelled))
=============================================================================
