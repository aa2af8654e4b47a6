----------------------------- MODULE NitradoJobs -----------------------------
(***************************************************************************)
(* The Nitrado job outbox: durable job rows, their claim leases, the       *)
(* polling worker instances that claim and execute them, and the           *)
(* PostgreSQL advisory lock that each execution takes on its connection    *)
(* (src/modules/nitrado/jobLease.ts and jobWorker.ts).                     *)
(*                                                                         *)
(* Time is abstract: "old" stands for "written more than                   *)
(* NITRADO_JOB_LEASE_STALE_MS ago" and "due" for "nextRunAt <= now".  A    *)
(* sweep compares against the staleBefore it computed when it began, so it *)
(* remembers which rows were old then (oldLeases, oldJobs); a row written  *)
(* since is younger than that staleBefore whatever happens later.          *)
(***************************************************************************)
EXTENDS Naturals, FiniteSets

CONSTANTS
    Jobs,              \* NitradoJob rows (ids)
    Conns,             \* Nitrado connections
    ConnOf,            \* the connection of a job
    Instances,         \* bot processes that run the worker
    Tokens,            \* claim tokens (randomUUID)
    None,              \* no token, no executor, no lock holder
    Config,            \* the holder of a connection lock outside the worker
    MaxAttempts,       \* maxAttempts of a job row
    MaxParallel,       \* MAX_PARALLEL
    MaxCalls,          \* bound: remote mutations of one execution
    MaxFaults,         \* bound: crashes, DB errors, lost sessions, outside locks
    SessionLoss,       \* may PostgreSQL drop the session that holds a lock?
    TimelyHeartbeats   \* does a live executor always renew before 5 minutes?

ASSUME ConnOfType == ConnOf \in [Jobs -> Conns]
ASSUME BoundsType == /\ MaxAttempts \in Nat \ {0}
                     /\ MaxParallel \in Nat \ {0}
                     /\ MaxCalls \in Nat
                     /\ MaxFaults \in Nat
                     /\ SessionLoss \in BOOLEAN
                     /\ TimelyHeartbeats \in BOOLEAN

VARIABLES
    job,      \* job[j]: the row [status, attempts, due, old]
    lease,    \* lease[j]: the NitradoJobLease row [token, old] of job j
    lock,     \* lock[c]: who holds the advisory lock of connection c
    poll,     \* poll[i]: where pollOnce of instance i is
    exec,     \* exec[t]: where executeJob of the claim t is, None if over
    faults    \* disturbances so far

vars == <<job, lease, lock, poll, exec, faults>>

Statuses == {"ABSENT", "PENDING", "RUNNING", "DONE", "DEAD", "DELETED"}
JobRow   == [status: Statuses, attempts: Nat, due: BOOLEAN, old: BOOLEAN]
LeaseRow == [token: Tokens \union {None}, old: BOOLEAN]
PollPCs  == {"idle", "leases", "legacy", "legacyUpdate", "select", "claim", "run"}
PollRow  == [pc: PollPCs,
             leases: SUBSET (Jobs \X Tokens), oldLeases: SUBSET Tokens,
             jobs: SUBSET Jobs, oldJobs: SUBSET Jobs, checked: SUBSET Jobs]
ExecPCs  == {"renew", "read", "lock", "requeue", "conn", "work", "mutate",
             "finish", "superseded", "failing", "release"}
ExecRow  == [pc: ExecPCs, inst: Instances, job: Jobs, attempts: Nat,
             lost: BOOLEAN, calls: Nat, permanent: BOOLEAN]

ASSUME NoneIsFresh == /\ None \notin Tokens
                      /\ Config \notin Tokens \union {None}
                      /\ None \notin ExecRow

NoLease  == [token |-> None, old |-> FALSE]
IdlePoll == [pc |-> "idle", leases |-> {}, oldLeases |-> {}, 
             jobs |-> {}, oldJobs |-> {}, checked |-> {}]

TypeOK == /\ job \in [Jobs -> JobRow]
          /\ lease \in [Jobs -> LeaseRow]
          /\ lock \in [Conns -> Tokens \union {None, Config}]
          /\ poll \in [Instances -> PollRow]
          /\ exec \in [Tokens -> ExecRow \union {None}]
          /\ faults \in 0..MaxFaults

(***************************************************************************)
(* Rows waiting for their creation, due rows, and rows a worker of the     *)
(* release before the lease table left RUNNING.                            *)
(***************************************************************************)
Init == /\ \E st \in [Jobs -> {"ABSENT", "PENDING", "RUNNING"}] :
              job = [j \in Jobs |-> [status |-> st[j], attempts |-> 0, due |-> TRUE, old |-> FALSE]]
        /\ lease = [j \in Jobs |-> NoLease]
        /\ lock = [c \in Conns |-> None]
        /\ poll = [i \in Instances |-> IdlePoll]
        /\ exec = [t \in Tokens |-> None]
        /\ faults = 0

-----------------------------------------------------------------------------
(* Row access *)

\* A write to updatedAt of job j: no sweep under way still finds it stale.
Touched(j) == [i \in Instances |-> [poll[i] EXCEPT !.oldJobs = @ \ {j}]]

\* The row of j after an update that sets status, attempts and nextRunAt.
Rewrite(j, status, attempts, due) ==
    [job EXCEPT ![j] = [status |-> status, attempts |-> attempts, due |-> due, old |-> FALSE]]

\* Mutant of Owns: the lease is looked up by its job alone.
OwnsByJob(t) == lease[exec[t].job].token # None

Owns(t) == lease[exec[t].job].token = t

\* heartbeatNitradoJobClaim on an owned lease: heartbeatAt = now.
RenewLease(t) == /\ lease' = [lease EXCEPT ![exec[t].job].old = FALSE]
                 /\ poll' = [i \in Instances |-> [poll[i] EXCEPT !.oldLeases = @ \ {t}]]

\* transitionClaimedNitradoJob: lease compare-and-delete, then the RUNNING
\* compare-and-set of the job; neither happens without the other.
Transition(t, status, attempts, due) ==
    LET j == exec[t].job IN
    IF Owns(t) /\ job[j].status = "RUNNING"
    THEN /\ lease' = [lease EXCEPT ![j] = NoLease]
         /\ job' = Rewrite(j, status, attempts, due)
         /\ poll' = Touched(j)
    ELSE UNCHANGED <<lease, job, poll>>

\* Mutant of FailTransition: attempts are counted down.
FailTransitionDown(t) ==
    IF exec[t].permanent THEN Transition(t, "DEAD", exec[t].attempts, TRUE)
    ELSE Transition(t, "PENDING", exec[t].attempts - 1, FALSE)

\* Mutant of FailTransition: the attempt is not counted.
FailTransitionUncounted(t) ==
    IF exec[t].permanent THEN Transition(t, "DEAD", exec[t].attempts, TRUE)
    ELSE Transition(t, "PENDING", exec[t].attempts, FALSE)

\* failJob: one attempt more; DEAD when permanent or out of attempts.
FailTransition(t) ==
    LET n == exec[t].attempts + 1 IN
    IF exec[t].permanent \/ n >= MaxAttempts
    THEN Transition(t, "DEAD", n, TRUE)
    ELSE Transition(t, "PENDING", n, FALSE)

Fault == faults < MaxFaults /\ faults' = faults + 1

\* A claim token no row, executor or sweep still names.
Fresh(t) == /\ exec[t] = None
            /\ \A j \in Jobs : lease[j].token # t
            /\ \A i \in Instances : t \notin poll[i].oldLeases /\ \A j \in Jobs : <<j, t>> \notin poll[i].leases

-----------------------------------------------------------------------------
(* pollOnce of instance i *)

\* Mutant of PollStart: looks for the leases renewed since staleBefore.
PollStartYoung(i) ==
    /\ poll[i].pc = "idle"
    /\ LET young == {j \in Jobs : lease[j].token # None /\ ~lease[j].old} IN
       poll' = [poll EXCEPT ![i] =
                  [pc |-> "leases", jobs |-> {}, checked |-> {},
                   leases |-> {<<j, lease[j].token>> : j \in young},
                   oldLeases |-> {lease[j].token : j \in young},
                   oldJobs |-> {j \in Jobs : job[j].old}]]
    /\ UNCHANGED <<job, lease, lock, exec, faults>>

\* recoverStaleNitradoJobClaims begins: staleBefore, then the stale leases.
PollStart(i) ==
    /\ poll[i].pc = "idle"
    /\ LET stale == {j \in Jobs : lease[j].token # None /\ lease[j].old} IN
       poll' = [poll EXCEPT ![i] =
                  [pc |-> "leases", jobs |-> {}, checked |-> {},
                   leases |-> {<<j, lease[j].token>> : j \in stale},
                   oldLeases |-> {lease[j].token : j \in stale},
                   oldJobs |-> {j \in Jobs : job[j].old}]]
    /\ UNCHANGED <<job, lease, lock, exec, faults>>

\* One stale lease is taken away, if it is still the one found and still stale.
RecoverLease(i) ==
    /\ poll[i].pc = "leases"
    /\ \E r \in poll[i].leases :
         LET j == r[1]
             found == lease[j].token = r[2] /\ r[2] \in poll[i].oldLeases
             running == job[j].status = "RUNNING" IN
         /\ lease' = IF found THEN [lease EXCEPT ![j] = NoLease] ELSE lease
         /\ job' = IF found /\ running
                   THEN Rewrite(j, "PENDING", job[j].attempts, job[j].due) ELSE job
         /\ poll' = [IF found /\ running THEN Touched(j) ELSE poll
                       EXCEPT ![i].leases = @ \ {r}]
    /\ UNCHANGED <<lock, exec, faults>>

\* The rolling-deployment fallback looks for stale RUNNING rows ...
LegacyRead(i) ==
    /\ poll[i].pc = "leases" /\ poll[i].leases = {}
    /\ LET stale == {j \in poll[i].oldJobs : job[j].status = "RUNNING"} IN
       poll' = [poll EXCEPT ![i] = [@ EXCEPT !.pc = "legacy", !.jobs = stale]]
    /\ UNCHANGED <<job, lease, lock, exec, faults>>

\* ... passes over those with a lease ...
LegacySkip(i) ==
    /\ poll[i].pc = "legacy"
    /\ \E j \in poll[i].jobs : /\ lease[j].token # None
                               /\ poll' = [poll EXCEPT ![i].jobs = @ \ {j}]
    /\ UNCHANGED <<job, lease, lock, exec, faults>>

\* Mutant of LegacyCheck: an old updatedAt is enough, whatever the lease.
LegacyCheckAny(i) ==
    /\ poll[i].pc = "legacy"
    /\ \E j \in poll[i].jobs :
         poll' = [poll EXCEPT ![i] = [@ EXCEPT !.pc = "legacyUpdate", !.checked = {j},
                                              !.jobs = poll[i].jobs \ {j}]]
    /\ UNCHANGED <<job, lease, lock, exec, faults>>

\* ... and remembers one without, whose update is the next statement.
LegacyCheck(i) ==
    /\ poll[i].pc = "legacy"
    /\ \E j \in poll[i].jobs :
         /\ lease[j].token = None
         /\ poll' = [poll EXCEPT ![i] = [@ EXCEPT !.pc = "legacyUpdate", !.checked = {j},
                                                 !.jobs = poll[i].jobs \ {j}]]
    /\ UNCHANGED <<job, lease, lock, exec, faults>>

\* Mutant of LegacyUpdate: updatedAt is not compared again.
LegacyUpdateBlind(i) ==
    /\ poll[i].pc = "legacyUpdate"
    /\ \E j \in poll[i].checked :
         /\ job' = IF job[j].status = "RUNNING"
                   THEN Rewrite(j, "PENDING", job[j].attempts, job[j].due) ELSE job
         /\ poll' = [Touched(j) EXCEPT ![i] = [@ EXCEPT !.pc = "legacy", !.checked = {}]]
    /\ UNCHANGED <<lease, lock, exec, faults>>

LegacyUpdate(i) ==
    /\ poll[i].pc = "legacyUpdate"
    /\ \E j \in poll[i].checked :
         LET stale == job[j].status = "RUNNING" /\ j \in poll[i].oldJobs IN
         /\ job' = IF stale THEN Rewrite(j, "PENDING", job[j].attempts, job[j].due) ELSE job
         /\ poll' = [IF stale THEN Touched(j) ELSE poll
                       EXCEPT ![i] = [@ EXCEPT !.pc = "legacy", !.checked = {}]]
    /\ UNCHANGED <<lease, lock, exec, faults>>

\* The hourly retention deletes finished rows past their age.
Retention(i) ==
    /\ poll[i].pc = "legacy" /\ poll[i].jobs = {}
    /\ \E S \in SUBSET {j \in Jobs : job[j].status \in {"DONE", "DEAD"} /\ job[j].old} :
         /\ S # {}
         /\ job' = [j \in Jobs |-> IF j \in S THEN [job[j] EXCEPT !.status = "DELETED"] ELSE job[j]]
    /\ UNCHANGED <<lease, lock, poll, exec, faults>>

ReadCandidates(i) ==
    /\ poll[i].pc = "legacy" /\ poll[i].jobs = {}
    /\ LET candidates == {j \in Jobs : job[j].status = "PENDING" /\ job[j].due} IN
       poll' = [poll EXCEPT ![i] = IF candidates = {} THEN IdlePoll
                                   ELSE [@ EXCEPT !.pc = "select", !.jobs = candidates]]
    /\ UNCHANGED <<job, lease, lock, exec, faults>>

\* One candidate per connection without a RUNNING job, at most MaxParallel.
SelectBatch(i) ==
    /\ poll[i].pc = "select"
    /\ LET free == {ConnOf[j] : j \in poll[i].jobs}
                     \ {ConnOf[j] : j \in {k \in Jobs : job[k].status = "RUNNING"}} IN
       \E B \in SUBSET {j \in poll[i].jobs : ConnOf[j] \in free} :
         /\ \A j, k \in B : ConnOf[j] = ConnOf[k] => j = k
         /\ Cardinality(B) <= MaxParallel
         /\ Cardinality(B) = MaxParallel \/ {ConnOf[j] : j \in B} = free
         /\ poll' = [poll EXCEPT ![i] = IF B = {} THEN IdlePoll
                                        ELSE [@ EXCEPT !.pc = "claim", !.jobs = B]]
    /\ UNCHANGED <<job, lease, lock, exec, faults>>

\* claimNitradoJob: PENDING -> RUNNING and a new lease replacing any left over.
Claim(i) ==
    /\ poll[i].pc = "claim"
    /\ \E j \in poll[i].jobs :
         IF job[j].status # "PENDING"
         THEN /\ poll' = [poll EXCEPT ![i].jobs = @ \ {j}]
              /\ UNCHANGED <<job, lease, exec>>
         ELSE \E t \in Tokens :
                /\ Fresh(t)
                /\ job' = Rewrite(j, "RUNNING", job[j].attempts, job[j].due)
                /\ lease' = [lease EXCEPT ![j] = [token |-> t, old |-> FALSE]]
                /\ exec' = [exec EXCEPT ![t] =
                              [pc |-> "renew", inst |-> i, job |-> j, attempts |-> 0,
                               lost |-> FALSE, calls |-> 0, permanent |-> FALSE]]
                /\ poll' = [Touched(j) EXCEPT ![i].jobs = @ \ {j}]
    /\ UNCHANGED <<lock, faults>>

Running(i) == {t \in Tokens : exec[t] # None /\ exec[t].inst = i}

\* All claims of the batch made: the executions start together ...
StartBatch(i) ==
    /\ poll[i].pc = "claim" /\ poll[i].jobs = {}
    /\ poll' = [poll EXCEPT ![i] = IF Running(i) = {} THEN IdlePoll ELSE [@ EXCEPT !.pc = "run"]]
    /\ UNCHANGED <<job, lease, lock, exec, faults>>

\* ... and the poll ends when the last of them has settled.
PollEnd(i) ==
    /\ poll[i].pc = "run" /\ Running(i) = {}
    /\ poll' = [poll EXCEPT ![i] = IdlePoll]
    /\ UNCHANGED <<job, lease, lock, exec, faults>>

-----------------------------------------------------------------------------
(* executeJob of claim t *)

At(t, pc) == exec[t] # None /\ exec[t].pc = pc /\ poll[exec[t].inst].pc = "run"
Goto(t, pc) == exec' = [exec EXCEPT ![t].pc = pc]
End(t) == exec' = [exec EXCEPT ![t] = None]
FailsWith(t, p) == exec' = [exec EXCEPT ![t] = [@ EXCEPT !.pc = "failing", !.permanent = p]]
\* Mutant of LosesClaim: returns without the finally block.
LosesClaimAndLock(t) == End(t)

LosesClaim(t) == exec' = [exec EXCEPT ![t] = [@ EXCEPT !.pc = "release", !.lost = TRUE]]
ConnOfClaim(t) == ConnOf[exec[t].job]

Renew(t) ==
    /\ At(t, "renew")
    /\ IF Owns(t) THEN RenewLease(t) /\ Goto(t, "read")
       ELSE End(t) /\ UNCHANGED <<lease, poll>>
    /\ UNCHANGED <<job, lock, faults>>

RenewFails(t) ==
    /\ At(t, "renew") /\ Fault
    /\ End(t)
    /\ UNCHANGED <<job, lease, lock, poll>>

ReadJob(t) ==
    /\ At(t, "read")
    /\ IF job[exec[t].job].status = "RUNNING"
       THEN exec' = [exec EXCEPT ![t] = [@ EXCEPT !.pc = "lock", !.attempts = job[exec[t].job].attempts]]
       ELSE End(t)
    /\ UNCHANGED <<job, lease, lock, poll, faults>>

\* Mutant of TryLock: a busy connection does not stop the execution.
TryLockAnyway(t) ==
    /\ At(t, "lock")
    /\ lock' = [lock EXCEPT ![ConnOfClaim(t)] = IF @ = None THEN t ELSE @]
    /\ Goto(t, "conn")
    /\ UNCHANGED <<job, lease, poll, faults>>

\* pg_try_advisory_lock on a session of its own: never waits.
TryLock(t) ==
    /\ At(t, "lock")
    /\ IF lock[ConnOfClaim(t)] = None
       THEN lock' = [lock EXCEPT ![ConnOfClaim(t)] = t] /\ Goto(t, "conn")
       ELSE Goto(t, "requeue") /\ UNCHANGED lock
    /\ UNCHANGED <<job, lease, poll, faults>>

LockFails(t) ==
    /\ At(t, "lock") /\ Fault
    /\ Goto(t, "failing")
    /\ UNCHANGED <<job, lease, lock, poll>>

\* requeueForConnectionLock: back to PENDING, no attempt counted.
Requeue(t) ==
    /\ At(t, "requeue")
    /\ Transition(t, "PENDING", job[exec[t].job].attempts, FALSE)
    /\ End(t)
    /\ UNCHANGED <<lock, faults>>

\* Connection, payload, whitelist intent and token are read and judged.
Prepare(t) ==
    /\ At(t, "conn")
    /\ \/ \E pc \in {"work", "superseded"} : Goto(t, pc)
       \/ \E p \in BOOLEAN : FailsWith(t, p)
    /\ UNCHANGED <<job, lease, lock, poll, faults>>

\* ensureClaimOwned, the last statement before every remote mutation.
EnsureClaimOwned(t) ==
    /\ At(t, "work") /\ exec[t].calls < MaxCalls
    /\ IF ~exec[t].lost /\ Owns(t)
       THEN RenewLease(t) /\ Goto(t, "mutate")
       ELSE /\ LosesClaim(t)
            /\ UNCHANGED <<lease, poll>>
    /\ UNCHANGED <<job, lock, faults>>

EnsureFails(t) ==
    /\ At(t, "work") /\ exec[t].calls < MaxCalls /\ Fault
    /\ LosesClaim(t)
    /\ UNCHANGED <<job, lease, lock, poll>>

\* The remote mutation returns, or throws: a 4xx other than 429 is permanent.
Reply(t) ==
    /\ At(t, "mutate")
    /\ \/ exec' = [exec EXCEPT ![t] = [@ EXCEPT !.pc = "work", !.calls = exec[t].calls + 1]]
       \/ \E p \in BOOLEAN : FailsWith(t, p)
    /\ UNCHANGED <<job, lease, lock, poll, faults>>

\* No mutation is left to do, or a read of the operation throws.
Conclude(t) ==
    /\ At(t, "work")
    /\ \/ Goto(t, "finish")
       \/ \E p \in BOOLEAN : FailsWith(t, p)
    /\ UNCHANGED <<job, lease, lock, poll, faults>>

Finish(t) ==
    /\ At(t, "finish") \/ At(t, "superseded")
    /\ Transition(t, "DONE", job[exec[t].job].attempts, job[exec[t].job].due)
    /\ Goto(t, "release")
    /\ UNCHANGED <<lock, faults>>

\* The DONE transaction throws, before or after its commit. Inside the
\* operation's try block the catch makes it an ordinary failed attempt.
FinishFails(t) ==
    /\ At(t, "finish") \/ At(t, "superseded")
    /\ Fault
    /\ \/ Transition(t, "DONE", job[exec[t].job].attempts, job[exec[t].job].due)
       \/ UNCHANGED <<job, lease, poll>>
    /\ Goto(t, IF exec[t].pc = "finish" THEN "failing" ELSE "release")
    /\ UNCHANGED lock

FailJob(t) ==
    /\ At(t, "failing")
    /\ FailTransition(t)
    /\ Goto(t, "release")
    /\ UNCHANGED <<lock, faults>>

FailJobFails(t) ==
    /\ At(t, "failing") /\ Fault
    /\ FailTransition(t) \/ UNCHANGED <<job, lease, poll>>
    /\ Goto(t, "release")
    /\ UNCHANGED lock

\* The finally block: unlock, if the session still holds the lock.
Release(t) ==
    /\ At(t, "release")
    /\ lock' = [c \in Conns |-> IF lock[c] = t THEN None ELSE lock[c]]
    /\ End(t)
    /\ UNCHANGED <<job, lease, poll, faults>>

\* The heartbeat timer fires; claimLost is sticky.
Beating(t) == /\ exec[t] # None /\ exec[t].pc # "renew" /\ ~exec[t].lost
              /\ poll[exec[t].inst].pc = "run"

Heartbeat(t) ==
    /\ Beating(t)
    /\ IF Owns(t) THEN RenewLease(t) /\ UNCHANGED exec
       ELSE exec' = [exec EXCEPT ![t].lost = TRUE] /\ UNCHANGED <<lease, poll>>
    /\ UNCHANGED <<job, lock, faults>>

HeartbeatFails(t) ==
    /\ Beating(t) /\ Fault
    /\ exec' = [exec EXCEPT ![t].lost = TRUE]
    /\ UNCHANGED <<job, lease, lock, poll>>

-----------------------------------------------------------------------------
(* The rest of the bot, time, and failures *)

\* An outbox producer creates a job (banOutbox, whitelistOutbox, ...).
Enqueue(j) ==
    /\ job[j].status = "ABSENT"
    /\ job' = Rewrite(j, "PENDING", 0, TRUE)
    /\ poll' = Touched(j)
    /\ UNCHANGED <<lease, lock, exec, faults>>

\* A producer withdraws a job that is still PENDING (keep-online, restart
\* plan, ban, leave cleanup, rebind): always a compare-and-set on the status.
CancelPending(j) ==
    /\ job[j].status = "PENDING"
    /\ \E s \in {"DONE", "DEAD"} : job' = Rewrite(j, s, job[j].attempts, job[j].due)
    /\ poll' = Touched(j)
    /\ UNCHANGED <<lease, lock, exec, faults>>

BecomeDue(j) ==
    /\ job[j].status = "PENDING" /\ ~job[j].due
    /\ job' = [job EXCEPT ![j].due = TRUE]
    /\ UNCHANGED <<lease, lock, poll, exec, faults>>

AgeJob(j) ==
    /\ job[j].status # "ABSENT" /\ ~job[j].old
    /\ job' = [job EXCEPT ![j].old = TRUE]
    /\ UNCHANGED <<lease, lock, poll, exec, faults>>

Alive(t) == exec[t] # None /\ ~exec[t].lost

\* Five minutes without a heartbeat. heartbeatAt is never before updatedAt.
AgeLease(j) ==
    /\ lease[j].token # None /\ ~lease[j].old /\ job[j].old
    /\ ~(TimelyHeartbeats /\ Alive(lease[j].token))
    /\ lease' = [lease EXCEPT ![j].old = TRUE]
    /\ UNCHANGED <<job, lock, poll, exec, faults>>

\* The process dies; PostgreSQL drops its sessions and their locks.
Crash(i) ==
    /\ Fault
    /\ lock' = [c \in Conns |-> IF lock[c] \in Running(i) THEN None ELSE lock[c]]
    /\ exec' = [t \in Tokens |-> IF t \in Running(i) THEN None ELSE exec[t]]
    /\ poll' = [poll EXCEPT ![i] = IdlePoll]
    /\ UNCHANGED <<job, lease>>

\* The lock's session is dropped; the process logs the error and goes on.
DropSession(c) ==
    /\ SessionLoss /\ lock[c] \in Tokens /\ Fault
    /\ lock' = [lock EXCEPT ![c] = None]
    /\ UNCHANGED <<job, lease, poll, exec>>

\* A reconciliation, sync or configuration change holds the same advisory lock.
OutsideLock(c) ==
    /\ lock[c] = None /\ Fault
    /\ lock' = [lock EXCEPT ![c] = Config]
    /\ UNCHANGED <<job, lease, poll, exec>>

OutsideUnlock(c) ==
    /\ lock[c] = Config
    /\ lock' = [lock EXCEPT ![c] = None]
    /\ UNCHANGED <<job, lease, poll, exec, faults>>

-----------------------------------------------------------------------------
PollStep(i) == \/ PollStart(i) \/ RecoverLease(i)
               \/ LegacyRead(i) \/ LegacySkip(i) \/ LegacyCheck(i) \/ LegacyUpdate(i)
               \/ ReadCandidates(i) \/ SelectBatch(i)
               \/ Claim(i) \/ StartBatch(i) \/ PollEnd(i)

ExecStep(t) == \/ Renew(t) \/ ReadJob(t) \/ TryLock(t) \/ Requeue(t)
               \/ Prepare(t) \/ EnsureClaimOwned(t) \/ Reply(t) \/ Conclude(t)
               \/ Finish(t) \/ FailJob(t) \/ Release(t)

ExecFault(t) == \/ RenewFails(t) \/ LockFails(t) \/ EnsureFails(t)
                \/ FinishFails(t) \/ FailJobFails(t) \/ HeartbeatFails(t)

TimeStep(j) == BecomeDue(j) \/ AgeJob(j) \/ AgeLease(j)

Next == \/ \E i \in Instances : PollStep(i) \/ Retention(i) \/ Crash(i)
        \/ \E t \in Tokens : ExecStep(t) \/ ExecFault(t) \/ Heartbeat(t)
        \/ \E j \in Jobs : Enqueue(j) \/ CancelPending(j) \/ TimeStep(j)
        \/ \E c \in Conns : DropSession(c) \/ OutsideLock(c) \/ OutsideUnlock(c)

Spec == Init /\ [][Next]_vars

(***************************************************************************)
(* A live process keeps polling (a timer) and its executions keep going    *)
(* (every remote call has a timeout), time passes, and nobody outside the  *)
(* worker keeps a connection lock for ever (it is released in a finally    *)
(* block or with its session).  Nothing is assumed of failures, producers  *)
(* or the retention.                                                       *)
(***************************************************************************)
Fairness == /\ \A i \in Instances : WF_vars(PollStep(i))
            /\ \A t \in Tokens : WF_vars(ExecStep(t))
            /\ \A j \in Jobs : WF_vars(BecomeDue(j)) /\ WF_vars(AgeJob(j)) /\ WF_vars(AgeLease(j))
            /\ \A c \in Conns : WF_vars(OutsideUnlock(c))

FairSpec == Spec /\ Fairness

-----------------------------------------------------------------------------
(* Properties *)

\* jobLease.ts, the throw after the lease compare-and-delete is unreachable:
\* a lease is only ever on a RUNNING job, whatever sweeps, retries, zombie
\* executors and legacy recoveries do in between.
LeaseOnRunning == \A j \in Jobs : lease[j].token # None => job[j].status = "RUNNING"

\* Two executions never mutate the same Nitrado connection at once, even
\* when one of them lost its claim and its job is already executed again.
CallsSerialised ==
    \A t, u \in Tokens : /\ exec[t] # None /\ exec[u] # None
                         /\ exec[t].pc = "mutate" /\ exec[u].pc = "mutate"
                         /\ ConnOfClaim(t) = ConnOfClaim(u)
                         => t = u

\* A connection lock always belongs to an execution that is still under way
\* on this connection and will release it: none leaks, on any path.
LockHolderWorks ==
    \A c \in Conns : lock[c] \in Tokens =>
        LET e == exec[lock[c]] IN
        /\ e # None /\ ConnOf[e.job] = c
        /\ e.pc \in {"conn", "work", "mutate", "finish", "superseded", "failing", "release"}

\* With timely heartbeats nobody takes the job from an execution that is
\* alive: neither a sweep that saw its lease stale nor the legacy fallback.
HealthyClaimKept ==
    TimelyHeartbeats =>
        \A t \in Tokens : /\ exec[t] # None /\ ~exec[t].lost
                          /\ exec[t].pc \in {"renew", "read", "lock", "requeue", "conn", "work", "mutate"}
                          => Owns(t)

\* Every job comes to rest: done, dead or withdrawn.
JobsSettle ==
    \A j \in Jobs : job[j].status \in {"PENDING", "RUNNING"} ~> job[j].status \in {"DONE", "DEAD", "DELETED"}

\* A claim whose execution is over or crashed is taken back.
OrphansRecovered ==
    \A j \in Jobs, t \in Tokens :
        lease[j].token = t /\ exec[t] = None ~> lease[j].token # t

\* The outbox implements the queue of JobQueue: an owner is a lease.
Queue == INSTANCE JobQueue WITH
             Owners   <- Tokens,
             status   <- [j \in Jobs |-> job[j].status],
             owner    <- [j \in Jobs |-> lease[j].token],
             attempts <- [j \in Jobs |-> job[j].attempts]

\* jobLease.ts: every job row changes only as the queue allows: by its one
\* owner, by exactly one attempt, or back to PENDING with attempts untouched.
QueueImplemented == Queue!Spec
=============================================================================
