---------------------------- MODULE RestartPlan ----------------------------
(***************************************************************************)
(* The daily restarts of a game server: the plan saved in the dashboard,   *)
(* one sync job per revision, and the worker that makes the restart tasks  *)
(* at Nitrado the plan's, by creating what is missing, deleting what is    *)
(* too much and checking the result.                                       *)
(*                                                                         *)
(* A task takes the time zone that is the account's default when it is     *)
(* created; the bot cannot choose it.  Nitrado lists tasks by age.  The    *)
(* check of the revision and the call it guards are one step, as in        *)
(* ServerBan.                                                              *)
(***************************************************************************)
EXTENDS Integers, FiniteSets, FiniteSetsExt

CONSTANTS
    Workers, Times, Zones, FirstZone, Services, First, None,
    MaxAttempts,
    MaxSaves, MaxMoves, MaxZoneMoves, MaxEdits, MaxFaults, \* bounds
    SessionLoss         \* the database may drop the session of a lock

VARIABLES
    plan,               \* NitradoRestartPlan
    jobs,               \* [1..MaxSaves -> NitradoJob]; by revision
    service,            \* of the connection, None when it is bound to none
    tasks, zone, newest,\* at Nitrado; the account's default; the last task's id
    lock,               \* the connection lock: a worker or None
    exec,               \* [Workers -> execution of a sync job]
    edited,             \* somebody changed tasks at Nitrado since they were checked
    used                \* of the bounds

\* The constants: bounds are numbers, and the world starts in a service and a zone.
PlanAssumption ==
    /\ MaxSaves \in Nat /\ MaxAttempts \in Nat \ {0}
    /\ First \in Services /\ None \notin Services /\ FirstZone \in Zones

vars == <<plan, jobs, service, tasks, zone, newest, lock, exec, edited, used>>
world == <<service, zone>>

NoJob   == [status |-> "NONE", attempts |-> 0]
Resting == [at |-> "idle", rev |-> 0, service |-> None, times |-> {}, ref |-> None, todo |-> {}]
Task(n, t) == [id |-> n, time |-> t, zone |-> zone]

Init ==
    /\ plan = [rev |-> 0, times |-> {}, service |-> First, sync |-> "NONE"]
    /\ jobs = [r \in 1..MaxSaves |-> NoJob]
    /\ service = First /\ tasks = [s \in Services |-> {}] /\ newest = 0 /\ zone = FirstZone
    /\ lock = None /\ exec = [w \in Workers |-> Resting]
    /\ edited = FALSE
    /\ used = [moves |-> 0, unbinds |-> 0, zones |-> 0, edits |-> 0, faults |-> 0, drops |-> 0]

TypeOK ==
    /\ plan.rev \in 0..MaxSaves /\ plan.times \subseteq Times /\ plan.service \in Services
    /\ plan.sync \in {"NONE", "PENDING", "SYNCED", "ERROR"}
    /\ \A r \in 1..MaxSaves : /\ jobs[r].status \in {"NONE", "PENDING", "RUNNING", "DONE", "DEAD"}
                              /\ jobs[r].attempts \in 0..MaxAttempts
    /\ service \in Services \union {None} /\ zone \in Zones /\ newest \in Nat
    /\ \A s \in Services : \A t \in tasks[s] : t.id \in 1..newest /\ t.time \in Times /\ t.zone \in Zones
    /\ lock \in Workers \union {None} /\ edited \in BOOLEAN
    /\ \A w \in Workers : /\ exec[w].at \in {"idle", "conn", "plan", "stale", "fresh", "list", "create", "relist",
                                             "delete", "check", "mark", "done", "error", "fail"}
                          /\ exec[w].rev \in 0..MaxSaves /\ exec[w].service \in Services \union {None}
                          /\ exec[w].ref \in Zones \union {None}

Use(what, limit) == used[what] < limit /\ used' = [used EXCEPT ![what] = @ + 1]
Fault == Use("faults", MaxFaults)

-----------------------------------------------------------------------------
(* The dashboard and Nitrado                                               *)

\* saveRestartPlan; clearRestartPlan with no times.  The route holds the lock.
Save(times) ==
    /\ lock = None /\ service # None /\ plan.rev < MaxSaves
    /\ plan' = [rev |-> plan.rev + 1, times |-> times, service |-> service, sync |-> "PENDING"]
    /\ jobs' = [r \in 1..MaxSaves |->
                  IF r = plan.rev + 1 THEN [status |-> "PENDING", attempts |-> 0]
                  ELSE IF jobs[r].status = "PENDING" THEN [jobs[r] EXCEPT !.status = "DONE"] ELSE jobs[r]]
    /\ UNCHANGED <<world, tasks, newest, lock, exec, edited, used>>

\* Another service, or none; the plan is left as it is, and so are its jobs: a sync that
\* is RUNNING without the lock, of a dead process or a dropped session, is in nobody's way.
Rebind(s) ==
    /\ lock = None /\ s # service /\ used.moves < MaxMoves
    /\ used' = [used EXCEPT !.moves = @ + 1, !.unbinds = IF s = None THEN @ + 1 ELSE @]
    /\ service' = s
    /\ UNCHANGED <<plan, jobs, tasks, zone, newest, lock, exec, edited>>

\* The account's default time zone, or a task, is changed at Nitrado.
ZoneMoves(z) ==
    /\ z # zone /\ Use("zones", MaxZoneMoves) /\ zone' = z
    /\ UNCHANGED <<plan, jobs, service, tasks, newest, lock, exec, edited>>

ExternalEdit(s) ==
    /\ Use("edits", MaxEdits) /\ edited' = TRUE
    /\ \/ \E t \in Times : tasks' = [tasks EXCEPT ![s] = @ \union {Task(newest + 1, t)}] /\ newest' = newest + 1
       \/ \E t \in tasks[s] : tasks' = [tasks EXCEPT ![s] = @ \ {t}] /\ UNCHANGED newest
    /\ UNCHANGED <<plan, jobs, world, lock, exec>>

-----------------------------------------------------------------------------
(* The worker                                                              *)

At(w, at) == exec[w].at = at
Goto(w, at) == exec' = [exec EXCEPT ![w].at = at]
Freed(w) == IF lock = w THEN None ELSE lock
Ends(w, status) ==
    /\ jobs' = [jobs EXCEPT ![exec[w].rev].status = status]
    /\ lock' = Freed(w) /\ exec' = [exec EXCEPT ![w] = Resting]
Failed(w, permanent) ==
    LET n == jobs[exec[w].rev].attempts + 1
    IN  /\ jobs' = [jobs EXCEPT ![exec[w].rev] =
                      [status |-> IF permanent \/ n >= MaxAttempts THEN "DEAD" ELSE "PENDING", attempts |-> n]]
        /\ lock' = Freed(w) /\ exec' = [exec EXCEPT ![w] = Resting]

\* A worker that does not get the lock puts the job back.
Take(w, r) ==
    /\ At(w, "idle") /\ jobs[r].status = "PENDING" /\ lock = None
    /\ jobs' = [jobs EXCEPT ![r].status = "RUNNING"] /\ lock' = w
    /\ exec' = [exec EXCEPT ![w] = [Resting EXCEPT !.at = "conn", !.rev = r]]
    /\ UNCHANGED <<plan, world, tasks, newest, edited, used>>

\* The connection's service, read once; without one the job is dead and the plan unseen.
ReadConnection(w) ==
    /\ At(w, "conn")
    /\ IF service = None THEN Failed(w, TRUE)
       ELSE exec' = [exec EXCEPT ![w].at = "plan", ![w].service = service] /\ UNCHANGED <<jobs, lock>>
    /\ UNCHANGED <<plan, world, tasks, newest, edited, used>>

ReadPlan(w) ==
    /\ At(w, "plan")
    /\ \/ plan.rev # exec[w].rev /\ Goto(w, "done")
       \/ plan.rev = exec[w].rev /\ plan.service # exec[w].service /\ Goto(w, "stale")
       \/ /\ plan.rev = exec[w].rev /\ plan.service = exec[w].service
          /\ exec' = [exec EXCEPT ![w].at = "fresh", ![w].times = plan.times]
    /\ UNCHANGED <<plan, jobs, lock, world, tasks, newest, edited, used>>

\* markRestartPlanSyncPendingError
MarkedError(w) == IF plan.rev = exec[w].rev THEN [plan EXCEPT !.sync = "ERROR"] ELSE plan

Stale(w) ==
    /\ At(w, "stale") /\ plan' = MarkedError(w) /\ Failed(w, TRUE)
    /\ UNCHANGED <<world, tasks, newest, edited, used>>

\* The connection again; another service by now kills the job and shows no error.
Refresh(w) ==
    /\ At(w, "fresh")
    /\ \/ service = exec[w].service /\ Goto(w, "list") /\ UNCHANGED <<jobs, lock>>
       \/ service # exec[w].service /\ Failed(w, TRUE)
    /\ UNCHANGED <<plan, world, tasks, newest, edited, used>>

\* The zone of the oldest task with a wanted time, if there is one.
Oldest(set) == CHOOSE t \in set : \A u \in set : t.id <= u.id
Reference(set, times) ==
    LET wanted == {t \in set : t.time \in times} IN IF wanted = {} THEN None ELSE Oldest(wanted).zone
Fitting(set, time, ref) == {t \in set : t.time = time /\ t.zone = ref}

List(w) ==
    LET now == tasks[exec[w].service]
        ref == Reference(now, exec[w].times)
        missing == {t \in exec[w].times : Fitting(now, t, ref) = {}}
    IN  /\ At(w, "list")
        /\ exec' = [exec EXCEPT ![w].at = "create", ![w].ref = ref, ![w].todo = missing]
        /\ UNCHANGED <<plan, jobs, world, tasks, newest, lock, edited, used>>

\* Mutant of Current: an older revision may go on.
CurrentService(w) == plan.service = exec[w].service

\* assertCurrentRevision before every mutation: the plan's row, not the connection.
Current(w) == plan.rev = exec[w].rev /\ plan.service = exec[w].service

Created(s, t, twice) ==
    LET n == IF twice THEN 2 ELSE 1
    IN  /\ tasks' = [tasks EXCEPT ![s] = @ \union {Task(newest + i, t) : i \in 1..n}]
        /\ newest' = newest + n

Create(w) ==
    /\ At(w, "create") /\ UNCHANGED <<plan, jobs, world, lock, edited>>
    /\ \/ exec[w].todo = {} /\ Goto(w, "relist") /\ UNCHANGED <<tasks, newest, used>>
       \/ /\ exec[w].todo # {} /\ ~Current(w) /\ Goto(w, "done") /\ UNCHANGED <<tasks, newest, used>>
       \/ /\ Current(w)
          /\ \E t \in exec[w].todo :
               /\ exec' = [exec EXCEPT ![w].todo = @ \ {t}]
               /\ \/ Created(exec[w].service, t, FALSE) /\ UNCHANGED used
                  \/ Created(exec[w].service, t, TRUE) /\ Fault  \* the client sent the POST again

\* The oldest fitting task of every time stays.
Relist(w) ==
    LET now  == tasks[exec[w].service]
        ref  == IF exec[w].ref = None THEN Reference(now, exec[w].times) ELSE exec[w].ref
        keep == {Oldest(Fitting(now, t, ref)) : t \in {t \in exec[w].times : Fitting(now, t, ref) # {}}}
    IN  /\ At(w, "relist")
        /\ exec' = [exec EXCEPT ![w].at = "delete", ![w].todo = {t.id : t \in now \ keep}]
        /\ UNCHANGED <<plan, jobs, world, tasks, newest, lock, edited, used>>

Deleted(s, n) == tasks' = [tasks EXCEPT ![s] = {t \in @ : t.id # n}]

Delete(w) ==
    /\ At(w, "delete") /\ UNCHANGED <<plan, jobs, world, newest, lock, edited, used>>
    /\ \/ exec[w].todo = {} /\ Goto(w, "check") /\ UNCHANGED tasks
       \/ exec[w].todo # {} /\ ~Current(w) /\ Goto(w, "done") /\ UNCHANGED tasks
       \/ /\ Current(w)
          /\ \E n \in exec[w].todo : Deleted(exec[w].service, n) /\ exec' = [exec EXCEPT ![w].todo = @ \ {n}]

\* assertExactRestartSet
Exact(set, times) ==
    /\ Cardinality(set) = Cardinality(times) /\ {t.time : t \in set} = times
    /\ Cardinality({t.zone : t \in set}) <= 1

Check(w) ==
    /\ At(w, "check")
    /\ IF Exact(tasks[exec[w].service], exec[w].times) THEN Goto(w, "mark") /\ edited' = (edited /\ ~Current(w))
       ELSE Goto(w, "error") /\ UNCHANGED edited
    /\ UNCHANGED <<plan, jobs, world, tasks, newest, lock, used>>

\* A revision found superseded here counts as a failure.
Mark(w) ==
    /\ At(w, "mark")
    /\ IF Current(w) THEN plan' = [plan EXCEPT !.sync = "SYNCED"] /\ Goto(w, "done")
       ELSE Goto(w, "fail") /\ UNCHANGED plan
    /\ UNCHANGED <<jobs, world, tasks, newest, lock, edited, used>>

Done(w) == At(w, "done") /\ Ends(w, "DONE") /\ UNCHANGED <<plan, world, tasks, newest, edited, used>>

Error(w) ==
    /\ At(w, "error") /\ Goto(w, "fail")
    /\ plan' = MarkedError(w)
    /\ UNCHANGED <<jobs, world, tasks, newest, lock, edited, used>>

FailJob(w) == At(w, "fail") /\ Failed(w, FALSE) /\ UNCHANGED <<plan, world, tasks, newest, edited, used>>

-----------------------------------------------------------------------------
(* Failures                                                                *)

\* A call to Nitrado fails; what it asked for may have happened.
CallFails(w) ==
    /\ exec[w].at \in {"list", "create", "relist", "delete", "check"} /\ Fault /\ Goto(w, "error")
    /\ \/ UNCHANGED <<tasks, newest>>
       \/ At(w, "create") /\ Current(w) /\ \E t \in exec[w].todo : Created(exec[w].service, t, FALSE)
       \/ At(w, "delete") /\ Current(w) /\ (\E n \in exec[w].todo : Deleted(exec[w].service, n)) /\ UNCHANGED newest
    /\ UNCHANGED <<plan, jobs, world, lock, edited>>

\* A query fails outside the synchronisation: the plan shows nothing of it.
QueryFails(w) ==
    /\ exec[w].at \in {"conn", "plan", "stale", "fresh", "mark", "done", "error"} /\ Fault /\ Goto(w, "fail")
    /\ UNCHANGED <<plan, jobs, world, tasks, newest, lock, edited>>

Crash(w) ==
    /\ ~At(w, "idle") /\ Fault /\ lock' = Freed(w) /\ exec' = [exec EXCEPT ![w] = Resting]
    /\ UNCHANGED <<plan, jobs, world, tasks, newest, edited>>

Recover(r) ==
    /\ jobs[r].status = "RUNNING" /\ \A w \in Workers : exec[w].rev # r
    /\ jobs' = [jobs EXCEPT ![r].status = "PENDING"]
    /\ UNCHANGED <<plan, world, tasks, newest, lock, exec, edited, used>>

DropSession ==
    /\ SessionLoss /\ lock # None /\ used.faults < MaxFaults /\ lock' = None
    /\ used' = [used EXCEPT !.faults = @ + 1, !.drops = @ + 1]
    /\ UNCHANGED <<plan, jobs, world, tasks, newest, exec, edited>>

-----------------------------------------------------------------------------
Work(w) ==
    \/ ReadConnection(w) \/ ReadPlan(w) \/ Stale(w) \/ Refresh(w) \/ List(w) \/ Create(w) \/ Relist(w) \/ Delete(w) \/ Check(w) \/ Mark(w)
    \/ Done(w) \/ Error(w) \/ FailJob(w)

Next ==
    \/ \E times \in SUBSET Times : Save(times)
    \/ (\E s \in Services \union {None} : Rebind(s)) \/ (\E s \in Services : ExternalEdit(s))
    \/ \E z \in Zones : ZoneMoves(z)
    \/ \E w \in Workers : (\E r \in 1..MaxSaves : Take(w, r)) \/ Work(w) \/ CallFails(w) \/ QueryFails(w) \/ Crash(w)
    \/ (\E r \in 1..MaxSaves : Recover(r)) \/ DropSession

\* Workers poll, and try again for the lock.
Fairness ==
    /\ \A w \in Workers : WF_vars(Work(w))
    /\ \A r \in 1..MaxSaves : WF_vars(Recover(r)) /\ SF_vars(\E w \in Workers : Take(w, r))

Spec == Init /\ [][Next]_vars
FairSpec == Spec /\ Fairness

-----------------------------------------------------------------------------
(* Properties                                                              *)

\* restartTaskPlan.ts, jobWorker.ts: "SYNCED" is true.  The tasks are those of the
\* newest plan unless somebody changed them, whatever older syncs are still at work.
SyncedMatches ==
    plan.sync = "SYNCED" /\ ~edited => Exact(tasks[plan.service], plan.times)

\* A sync that found the connection without a service, or bound to another one after the
\* session of its lock was dropped, is dead, and the plan stays PENDING.
Stranded ==
    /\ jobs[plan.rev].status = "DEAD"
    /\ used.unbinds > 0 \/ (used.drops > 0 /\ used.moves > 0)

\* restartTaskPlanStore.ts, jobWorker.ts: a saved plan comes to be synced or to show an
\* error, also when the connection is bound to another service meanwhile; fewer failures
\* than attempts, and no sync is stranded.
PlanSettles == plan.sync = "PENDING" ~> plan.sync # "PENDING" \/ Stranded

\* restartTaskPlan.ts: a saved plan is synced after any failure, while service and
\* zone stay.  The comment at 227-229 says it of a task of another zone too, which is
\* to be replaced; after the account's default has moved that is not so.
PlanSynced == plan.sync = "PENDING" ~> plan.sync = "SYNCED"
=============================================================================
