--------------------------- MODULE Services_proofs ---------------------------
(***************************************************************************)
(* What the bot does around a game server by itself, for any number of     *)
(* processes, requests, changes and failures:                              *)
(*   RestartPlan     a plan shown as SYNCED is what Nitrado has,           *)
(*   KeepOnline      once the switch is off, the bot starts no server,     *)
(*   MirrorSnapshot  one snapshot runs at a time, and the AI's knowledge   *)
(*                   is of the bound service and of a snapshot that ended  *)
(*                   well, the newest when it was written.                 *)
(* The last two are instances of their modules with nothing put in place   *)
(* of their constants and variables but another name, check for exec.      *)
(***************************************************************************)
EXTENDS RestartPlan, FiniteSetTheorems, SequenceTheorems, WellFoundedInduction, TLAPS

CONSTANTS
    Crons, MaxSwitches, MaxStops,                       \* KeepOnline
    MaxRuns, MaxTokens                                  \* MirrorSnapshot

VARIABLES
    enabled, server, job, seen, check, switches, stops, faults,     \* KeepOnline
    binding, snapshots, lease, run, knowledge, spent                \* MirrorSnapshot

Keep   == INSTANCE KeepOnline WITH exec <- check
Mirror == INSTANCE MirrorSnapshot

-----------------------------------------------------------------------------
(* RestartPlan: types and what the executions of a sync rely on            *)

Steps == {"idle", "conn", "plan", "stale", "fresh", "list", "create", "relist", "delete", "check", "mark", "done", "error", "fail"}
Statuses == {"NONE", "PENDING", "RUNNING", "DONE", "DEAD"}
Plans == [rev: 0..MaxSaves, times: SUBSET Times, service: Services, sync: {"NONE", "PENDING", "SYNCED", "ERROR"}]
Jobs  == [status: Statuses, attempts: 0..MaxAttempts]
TasksTo(n) == [id: 1..n, time: Times, zone: Zones]
Execs == [at: Steps, rev: 0..MaxSaves, service: Services \union {None}, times: SUBSET Times, ref: Zones \union {None}, todo: SUBSET (Times \union Nat)]

Types ==
    /\ plan \in Plans /\ jobs \in [1..MaxSaves -> Jobs]
    /\ service \in Services \union {None} /\ zone \in Zones /\ newest \in Nat
    /\ tasks \in [Services -> SUBSET TasksTo(newest)] /\ \A s \in Services : IsFiniteSet(tasks[s])
    /\ lock \in Workers \union {None} /\ edited \in BOOLEAN /\ exec \in [Workers -> Execs]

\* A job is of a revision that was saved, and an open one has attempts left.
JobsSound ==
    \A r \in 1..MaxSaves : /\ jobs[r].status # "NONE" => r <= plan.rev
                           /\ jobs[r].status \in {"PENDING", "RUNNING"} => jobs[r].attempts < MaxAttempts

Busy(w) == exec[w].rev \in 1..MaxSaves /\ jobs[exec[w].rev].status = "RUNNING"

\* Whoever has lost the lock's session still has the job to itself.
Alone == \A w, v \in Workers : ~At(w, "idle") /\ ~At(v, "idle") /\ exec[w].rev = exec[v].rev => w = v

\* Steps of an execution that has no plan in hand, or none that it goes on with.
Early == {"idle", "conn", "plan", "stale", "fail"}

\* What an execution of the newest revision relies on: its times and its
\* service are the plan's; what it checked stays so; and one that comes again for a synced plan finds nothing to do.
Settled(w) ==
    /\ At(w, "mark") => Exact(tasks[exec[w].service], exec[w].times)
    /\ plan.sync = "SYNCED" =>
         /\ exec[w].at \in {"create", "delete"} => exec[w].todo = {}
         /\ exec[w].at \in {"create", "relist"} => exec[w].ref = Reference(tasks[exec[w].service], exec[w].times)
WorkerSound(w) ==
    /\ ~At(w, "idle") => Busy(w)
    /\ exec[w].at \notin {"idle", "conn", "fail"} => exec[w].service \in Services
    /\ exec[w].at \notin Early /\ exec[w].rev = plan.rev
         => exec[w].times = plan.times /\ exec[w].service = plan.service
    /\ At(w, "create") => exec[w].todo \subseteq Times
    /\ Current(w) /\ ~At(w, "idle") /\ ~edited => Settled(w)

Inv == Types /\ JobsSound /\ Alone /\ (\A w \in Workers : WorkerSound(w)) /\ SyncedMatches
-----------------------------------------------------------------------------

(* Sets of tasks *)

\* Natural numbers have a smallest one in each set of them.
LEMMA Smallest == ASSUME NEW T \in SUBSET Nat, T # {} PROVE \E m \in T : \A n \in T : m <= n
<1> DEFINE R == OpToRel(<, Nat)
<1>1. IsWellFoundedOn(R, Nat) BY NatLessThanWellFounded
<1>2. \A m, n \in Nat : m < n => <<m, n>> \in R BY DEF OpToRel
<1> HIDE DEF R
<1>3. PICK m \in T : \A n \in T : ~(<<n, m>> \in R) BY <1>1, WFMin
<1>4. ASSUME NEW n \in T PROVE m <= n
  <2>1. m \in Nat /\ n \in Nat OBVIOUS
  <2>2. ~(n < m) BY <1>2, <1>3, <2>1
  <2> QED BY <2>1, <2>2
<1> QED BY <1>4

\* The oldest of some tasks is one of them.
LEMMA OldestIsOne == ASSUME NEW n \in Nat, NEW S \in SUBSET TasksTo(n), S # {} PROVE Oldest(S) \in S
<1>1. {t.id : t \in S} \in SUBSET Nat /\ {t.id : t \in S} # {} BY DEF TasksTo
<1>2. PICK m \in {t.id : t \in S} : \A k \in {t.id : t \in S} : m <= k BY <1>1, Smallest
<1>3. \E t \in S : \A u \in S : t.id <= u.id BY <1>2
<1> QED BY <1>3 DEF Oldest

\* An exact set has one task for every time, and all in one zone.
LEMMA ExactIs ==
    ASSUME NEW n \in Nat, NEW S \in SUBSET TasksTo(n), IsFiniteSet(S), NEW times, Exact(S, times)
    PROVE  /\ \A t \in S : t.time \in times
           /\ \A x \in times : \E t \in S : t.time = x
           /\ \A t, u \in S : t.time = u.time => t = u
           /\ \A t, u \in S : t.zone = u.zone
<1> DEFINE f == [t \in S |-> t.time]
           Z == {t.zone : t \in S}
           g == [t \in S |-> t.zone]
<1>1. {t.time : t \in S} = times /\ Cardinality(S) = Cardinality(times) /\ Cardinality(Z) <= 1 BY DEF Exact
<1>2. f \in Surjection(S, times) BY <1>1 DEF Surjection
<1>3. f \in Injection(S, times)
  <2> HIDE DEF f, Z
  <2> QED BY <1>1, <1>2, FS_SurjSameCardinalityImpliesInj
<1>4. \A t, u \in S : t.time = u.time => t = u BY <1>3 DEF Injection, IsInjective
<1>5. ASSUME NEW t \in S, NEW u \in S PROVE t.zone = u.zone
  <2>1. g \in Surjection(S, Z) BY DEF Surjection
  <2>2. IsFiniteSet(Z)
    <3> HIDE DEF g, Z
    <3> QED BY <2>1, FS_Surjection
  <2>3. {t.zone, u.zone} \in SUBSET Z OBVIOUS
  <2>4. Cardinality({t.zone, u.zone}) <= 1 /\ Cardinality({t.zone, u.zone}) \in Nat
    <3> HIDE DEF Z
    <3> QED BY <1>1, <2>2, <2>3, FS_Subset, FS_CardinalityType
  <2>5. t.zone # u.zone => Cardinality({t.zone, u.zone}) = 2
    <3>1. IsFiniteSet({t.zone}) /\ Cardinality({t.zone}) = 1 BY FS_Singleton
    <3>2. {t.zone} \union {u.zone} = {t.zone, u.zone} OBVIOUS
    <3>3. ASSUME t.zone # u.zone PROVE Cardinality({t.zone} \union {u.zone}) = 2
      <4> DEFINE A == {t.zone}
      <4>1. u.zone \notin A /\ IsFiniteSet(A) /\ Cardinality(A) = 1 BY <3>1, <3>3
      <4> HIDE DEF A
      <4>2. Cardinality(A \union {u.zone}) = IF u.zone \in A THEN Cardinality(A) ELSE Cardinality(A) + 1
        BY <4>1, FS_AddElement
      <4>3. Cardinality(A \union {u.zone}) = 2 BY <4>1, <4>2
      <4> QED BY <4>3 DEF A
    <3> QED BY <3>2, <3>3
  <2> QED BY <2>4, <2>5
<1> QED BY <1>1, <1>4, <1>5

\* A sync that meets an exact set creates nothing and deletes nothing.
LEMMA NothingToDo ==
    ASSUME NEW n \in Nat, NEW S \in SUBSET TasksTo(n), IsFiniteSet(S), NEW times, Exact(S, times)
    PROVE  LET ref == Reference(S, times)
           IN  /\ {x \in times : Fitting(S, x, ref) = {}} = {}
               /\ {Oldest(Fitting(S, x, ref)) : x \in {x \in times : Fitting(S, x, ref) # {}}} = S
<1> DEFINE ref == Reference(S, times)
           wanted == {t \in S : t.time \in times}
<1>1. /\ \A t \in S : t.time \in times
      /\ \A x \in times : \E t \in S : t.time = x
      /\ \A t, u \in S : t.time = u.time => t = u
      /\ \A t, u \in S : t.zone = u.zone
  BY ExactIs
<1>2. wanted = S BY <1>1
<1>3. S # {} => Oldest(S) \in S BY OldestIsOne
<1>4. \A t \in S : t.zone = ref BY <1>1, <1>2, <1>3 DEF Reference
<1> HIDE DEF ref
<1>5. ASSUME NEW t \in S PROVE Fitting(S, t.time, ref) = {t} BY <1>1, <1>4 DEF Fitting
<1>6. ASSUME NEW t \in S PROVE Oldest({t}) = t
  <2>1. {t} \in SUBSET TasksTo(n) OBVIOUS
  <2> QED BY <2>1, OldestIsOne
<1>7. \A x \in times : \E t \in S : x = t.time /\ Fitting(S, x, ref) = {t} BY <1>1, <1>5
<1>8. {x \in times : Fitting(S, x, ref) = {}} = {} BY <1>7
<1>9. {Oldest(Fitting(S, x, ref)) : x \in {x \in times : Fitting(S, x, ref) # {}}} = S
  <2>1. {x \in times : Fitting(S, x, ref) # {}} = times BY <1>7
  <2>2. \A x \in times : \E t \in S : x = t.time /\ Oldest(Fitting(S, x, ref)) = t BY <1>6, <1>7
  <2>3. \A t \in S : t.time \in times /\ Oldest(Fitting(S, t.time, ref)) = t BY <1>1, <1>5, <1>6
  <2> QED BY <2>1, <2>2, <2>3
<1> QED BY <1>8, <1>9 DEF ref

-----------------------------------------------------------------------------
(* Frames *)

\* A step of one execution, which keeps its job; what the others rely on is of another
\* revision, or stays as it is.
LEMMA OneWorks ==
    ASSUME Inv, Types', NEW w \in Workers, ~At(w, "idle"), NEW to \in Execs, to.at # "idle", to.rev = exec[w].rev,
           exec' = [exec EXCEPT ![w] = to], UNCHANGED jobs,
           plan'.rev = plan.rev, plan'.times = plan.times, plan'.service = plan.service,
           UNCHANGED <<plan, tasks, edited>> \/ exec[w].rev = plan.rev,
           WorkerSound(w)', SyncedMatches'
    PROVE  Inv'
<1>1. exec'[w] = to /\ \A v \in Workers \ {w} : exec'[v] = exec[v] BY DEF Inv, Types
<1>2. JobsSound' BY DEF Inv, JobsSound
<1>3. Alone' BY <1>1 DEF Inv, Alone, At
<1>4. ASSUME NEW v \in Workers, v # w PROVE WorkerSound(v)'
  <2>1. WorkerSound(v) /\ exec'[v] = exec[v] BY <1>1, <1>4 DEF Inv
  <2>2. Busy(v)' <=> Busy(v) BY <2>1 DEF Busy
  <2>3. Current(v)' <=> Current(v) BY <2>1 DEF Current
  <2>4. CASE UNCHANGED <<plan, tasks, edited>>
    <3>1. Settled(v)' <=> Settled(v) BY <2>1, <2>4 DEF Settled, At
    <3> QED BY <2>1, <2>2, <2>3, <2>4, <3>1 DEF WorkerSound, At
  <2>5. CASE exec[w].rev = plan.rev
    <3>1. ~(Current(v) /\ ~At(v, "idle")) BY <1>4, <2>5 DEF Inv, Alone, Current
    <3> QED BY <2>1, <2>2, <2>3, <3>1 DEF WorkerSound, At
  <2> QED BY <2>4, <2>5
<1> QED BY <1>2, <1>3, <1>4 DEF Inv

\* An execution ends, and gives back its job.
LEMMA OneStops ==
    ASSUME Inv, Types', JobsSound', NEW w \in Workers, exec' = [exec EXCEPT ![w] = Resting],
           \A r \in 1..MaxSaves : At(w, "idle") \/ r # exec[w].rev => jobs'[r] = jobs[r],
           UNCHANGED <<tasks, edited>>,
           plan' = plan \/ plan' = [plan EXCEPT !.sync = "ERROR"]
    PROVE  Inv'
<1>1. exec'[w] = Resting /\ \A v \in Workers \ {w} : exec'[v] = exec[v] BY DEF Inv, Types
<1>2. /\ plan'.rev = plan.rev /\ plan'.times = plan.times /\ plan'.service = plan.service
      /\ plan'.sync = "SYNCED" => plan.sync = "SYNCED"
  BY DEF Inv, Types, Plans
<1>3. Alone' BY <1>1 DEF Inv, Alone, At, Resting
<1>4. ASSUME NEW v \in Workers PROVE WorkerSound(v)'
  <2>1. CASE v = w BY <1>1, <2>1 DEF WorkerSound, At, Resting, Early
  <2>2. CASE v # w
    <3>1. WorkerSound(v) /\ exec'[v] = exec[v] BY <1>1, <2>2 DEF Inv
    <3>2. Busy(v) /\ ~At(v, "idle") => Busy(v)' BY <2>2, <3>1 DEF Busy, Inv, Alone
    <3>3. Current(v)' <=> Current(v) BY <1>2, <3>1 DEF Current
    <3>4. Settled(v) => Settled(v)' BY <1>2, <3>1 DEF Settled, At
    <3> QED BY <1>2, <3>1, <3>2, <3>3, <3>4 DEF WorkerSound, At
  <2> QED BY <2>1, <2>2
<1>5. SyncedMatches' BY <1>2 DEF Inv, SyncedMatches
<1> QED BY <1>3, <1>4, <1>5 DEF Inv

\* A step that leaves the executions of the newest revision what they rely on.
LEMMA OthersMove ==
    ASSUME Inv, Types', JobsSound', UNCHANGED <<plan, tasks, exec, edited>>,
           \A r \in 1..MaxSaves : jobs[r].status = "RUNNING" /\ (\E w \in Workers : exec[w].rev = r)
                                     => jobs'[r].status = "RUNNING"
    PROVE  Inv'
<1>1. Alone' /\ SyncedMatches' BY DEF Inv, Alone, At, SyncedMatches
<1>2. ASSUME NEW v \in Workers PROVE WorkerSound(v)'
  <2>1. WorkerSound(v) BY DEF Inv
  <2>2. Busy(v) => Busy(v)' BY DEF Busy
  <2> QED BY <2>1, <2>2 DEF WorkerSound, At, Current, Settled
<1> QED BY <1>1, <1>2 DEF Inv

\* The invariant holds at the start.
LEMMA InitInv == ASSUME PlanAssumption PROVE Init => Inv
<1> SUFFICES ASSUME Init PROVE Inv OBVIOUS
<1> USE DEF Init
<1>1. Types
  <2>1. plan \in Plans /\ jobs \in [1..MaxSaves -> Jobs]
    BY DEF PlanAssumption, Plans, Jobs, Statuses, NoJob
  <2>2. Resting \in Execs BY DEF PlanAssumption, Execs, Resting, Steps
  <2>3. \A s \in Services : tasks[s] = {} /\ IsFiniteSet(tasks[s]) BY FS_EmptySet
  <2> QED BY <2>1, <2>2, <2>3 DEF PlanAssumption, Types
<1>2. JobsSound BY DEF JobsSound, NoJob
<1>3. Alone /\ SyncedMatches BY DEF Alone, At, Resting, SyncedMatches
<1>4. \A w \in Workers : WorkerSound(w) BY DEF WorkerSound, At, Resting, Early
<1> QED BY <1>1, <1>2, <1>3, <1>4 DEF Inv

-----------------------------------------------------------------------------
(* The dashboard and Nitrado *)

\* A new revision; no execution is of it.
LEMMA SaveStep == ASSUME Inv, PlanAssumption, NEW times \in SUBSET Times, Save(times) PROVE Inv'
<1> DEFINE n == plan.rev + 1
<1>1. n \in 1..MaxSaves BY DEF Save, Inv, Types, Plans, PlanAssumption
<1>2. /\ plan' = [rev |-> n, times |-> times, service |-> service, sync |-> "PENDING"]
      /\ UNCHANGED <<service, zone, tasks, newest, lock, exec, edited, used>>
  BY DEF Save, world
<1>3. \A r \in 1..MaxSaves :
         /\ jobs'[r] = IF r = n THEN [status |-> "PENDING", attempts |-> 0]
                       ELSE IF jobs[r].status = "PENDING" THEN [jobs[r] EXCEPT !.status = "DONE"] ELSE jobs[r]
         /\ jobs'[r] \in Jobs
  <2> SUFFICES ASSUME NEW r \in 1..MaxSaves
               PROVE  /\ jobs'[r] = IF r = n THEN [status |-> "PENDING", attempts |-> 0]
                                    ELSE IF jobs[r].status = "PENDING" THEN [jobs[r] EXCEPT !.status = "DONE"]
                                    ELSE jobs[r]
                      /\ jobs'[r] \in Jobs
    OBVIOUS
  <2>1. jobs[r] \in Jobs BY DEF Inv, Types
  <2> QED BY <2>1 DEF Save, Jobs, Statuses, PlanAssumption
<1>4. plan' \in Plans BY <1>1, <1>2 DEF Save, Inv, Types, Plans
<1>5. Types'
  <2>1. jobs' \in [1..MaxSaves -> Jobs] BY <1>3 DEF Save
  <2> QED BY <1>2, <1>4, <2>1 DEF Inv, Types
<1>6. JobsSound'
  <2> SUFFICES ASSUME NEW r \in 1..MaxSaves
               PROVE  /\ jobs'[r].status # "NONE" => r <= n
                      /\ jobs'[r].status \in {"PENDING", "RUNNING"} => jobs'[r].attempts < MaxAttempts
    BY <1>2 DEF JobsSound
  <2>1. jobs[r] \in Jobs /\ plan.rev \in Nat /\ 0 < MaxAttempts BY DEF Inv, Types, Plans, PlanAssumption
  <2>2. /\ jobs[r].status # "NONE" => r <= plan.rev
        /\ jobs[r].status \in {"PENDING", "RUNNING"} => jobs[r].attempts < MaxAttempts
    BY DEF Inv, JobsSound
  <2>3. /\ r \in Nat /\ n \in Nat /\ plan.rev <= n
        /\ jobs'[r] = IF r = n THEN [status |-> "PENDING", attempts |-> 0]
                      ELSE IF jobs[r].status = "PENDING" THEN [jobs[r] EXCEPT !.status = "DONE"] ELSE jobs[r]
    BY <1>3, <2>1
  <2> HIDE DEF n
  <2>4. CASE r = n
    <3>1. jobs'[r].status = "PENDING" /\ jobs'[r].attempts = 0 BY <2>3, <2>4
    <3> QED BY <2>1, <2>3, <2>4, <3>1
  <2>5. CASE r # n
    <3>1. jobs'[r].attempts = jobs[r].attempts /\ jobs'[r].status \in {jobs[r].status, "DONE"}
          /\ (jobs'[r].status = "DONE" => jobs[r].status \in {"PENDING", "DONE"})
      BY <2>1, <2>3, <2>5 DEF Jobs
    <3> QED BY <2>1, <2>2, <2>3, <3>1
  <2> QED BY <2>4, <2>5
<1>7. Alone' /\ SyncedMatches' BY <1>2 DEF Inv, Alone, At, SyncedMatches
<1>8. ASSUME NEW w \in Workers PROVE WorkerSound(w)'
  <2>1. WorkerSound(w) /\ exec[w] \in Execs /\ plan.rev \in Nat BY DEF Inv, Types, Plans
  <2>2. ~At(w, "idle") => exec[w].rev # n
    <3>1. ~At(w, "idle") => exec[w].rev \in 1..MaxSaves /\ jobs[exec[w].rev].status = "RUNNING"
      BY <2>1 DEF WorkerSound, Busy
    <3>2. ~At(w, "idle") => exec[w].rev <= plan.rev BY <3>1 DEF Inv, JobsSound
    <3> QED BY <2>1, <3>2 DEF Execs
  <2>3. Busy(w) /\ ~At(w, "idle") => Busy(w)' BY <1>2, <1>3, <2>2 DEF Busy
  <2>4. Current(w)' => At(w, "idle") BY <1>2, <2>2 DEF Current
  <2> QED BY <1>2, <2>1, <2>2, <2>3, <2>4 DEF WorkerSound, At, Early
<1> QED BY <1>5, <1>6, <1>7, <1>8 DEF Inv

\* Another service, or none; executions go on with the one they read.
LEMMA RebindStep == ASSUME Inv, NEW s \in Services \union {None}, Rebind(s) PROVE Inv'
<1>1. service' = s /\ UNCHANGED <<plan, jobs, tasks, zone, newest, lock, exec, edited>> BY DEF Rebind
<1>2. Types' /\ JobsSound' BY <1>1 DEF Inv, Types, JobsSound
<1> QED BY <1>1, <1>2, OthersMove

\* A new default zone is of later tasks only.
LEMMA ZoneStep == ASSUME Inv, NEW z \in Zones, ZoneMoves(z) PROVE Inv'
<1>1. zone' = z /\ UNCHANGED <<plan, jobs, service, tasks, newest, lock, exec, edited>> BY DEF ZoneMoves
<1>2. Types' /\ JobsSound' BY <1>1 DEF Inv, Types, JobsSound
<1> QED BY <1>1, <1>2, OthersMove

\* New tasks keep their types, and are finitely many.
LEMMA CreatedTypes ==
    ASSUME Types, NEW s \in Services, NEW t \in Times, NEW n \in {1, 2},
           newest' = newest + n, tasks' = [tasks EXCEPT ![s] = @ \union {Task(newest + i, t) : i \in 1..n}]
    PROVE  /\ newest' \in Nat /\ tasks' \in [Services -> SUBSET TasksTo(newest')]
           /\ \A u \in Services : IsFiniteSet(tasks'[u])
<1> DEFINE New == {Task(newest + i, t) : i \in 1..n}
<1>1. newest \in Nat /\ newest' \in Nat /\ newest < newest' BY DEF Types
<1>2. \A m \in Nat, k \in Nat : m < k => TasksTo(m) \subseteq TasksTo(k) BY DEF TasksTo
<1>3. New \subseteq TasksTo(newest') BY <1>1 DEF TasksTo, Task, Types
<1>4. IsFiniteSet(New)
  <2>1. CASE n = 1
    <3>1. New = {Task(newest + 1, t)} BY <2>1
    <3> QED BY <3>1, FS_Singleton
  <2>2. CASE n = 2
    <3>1. 1..n = {1, 2} BY <2>2
    <3>2. New = {Task(newest + 1, t)} \union {Task(newest + 2, t)} BY <3>1
    <3>3. IsFiniteSet({Task(newest + 1, t)}) BY FS_Singleton
    <3>4. IsFiniteSet({Task(newest + 1, t)} \union {Task(newest + 2, t)}) BY <3>3, FS_AddElement
    <3> QED BY <3>2, <3>4
  <2> QED BY <2>1, <2>2
<1> HIDE DEF New
<1>5. tasks' = [tasks EXCEPT ![s] = @ \union New] BY DEF New
<1>6. tasks' \in [Services -> SUBSET TasksTo(newest')] BY <1>1, <1>2, <1>3, <1>5 DEF Types
<1>7. ASSUME NEW u \in Services PROVE IsFiniteSet(tasks'[u])
  <2>1. IsFiniteSet(tasks[u]) /\ IsFiniteSet(tasks[s]) BY DEF Types
  <2>2. IsFiniteSet(tasks[s] \union New) BY <1>4, <2>1, FS_Union
  <2> QED BY <1>5, <2>1, <2>2 DEF Types
<1> QED BY <1>1, <1>6, <1>7

\* The same of fewer tasks.
LEMMA FewerTypes ==
    ASSUME Types, NEW s \in Services, NEW D, tasks' = [tasks EXCEPT ![s] = D], D \subseteq tasks[s]
    PROVE  tasks' \in [Services -> SUBSET TasksTo(newest)] /\ \A u \in Services : IsFiniteSet(tasks'[u])
<1>1. IsFiniteSet(D) BY FS_Subset DEF Types
<1> QED BY <1>1 DEF Types

\* Somebody changes the tasks: nothing is promised from here on.
LEMMA EditStep == ASSUME Inv, NEW s \in Services, ExternalEdit(s) PROVE Inv'
<1>1. edited' = TRUE /\ UNCHANGED <<plan, jobs, service, zone, lock, exec>> BY DEF ExternalEdit, world
<1>2. Types'
  <2>1. CASE \E t \in Times : tasks' = [tasks EXCEPT ![s] = @ \union {Task(newest + 1, t)}] /\ newest' = newest + 1
    <3>1. PICK t \in Times : tasks' = [tasks EXCEPT ![s] = @ \union {Task(newest + 1, t)}] /\ newest' = newest + 1
      BY <2>1
    <3>2. {Task(newest + i, t) : i \in 1..1} = {Task(newest + 1, t)} OBVIOUS
    <3>3. Types BY DEF Inv
    <3>4. /\ newest' \in Nat /\ tasks' \in [Services -> SUBSET TasksTo(newest')]
          /\ \A u \in Services : IsFiniteSet(tasks'[u])
      BY <3>1, <3>2, <3>3, CreatedTypes
    <3> QED BY <1>1, <3>3, <3>4 DEF Types
  <2>2. CASE \E t \in tasks[s] : tasks' = [tasks EXCEPT ![s] = @ \ {t}] /\ UNCHANGED newest
    <3>1. PICK t \in tasks[s] : tasks' = [tasks EXCEPT ![s] = tasks[s] \ {t}] /\ UNCHANGED newest
      BY <2>2
    <3>2. Types BY DEF Inv
    <3>3. tasks' \in [Services -> SUBSET TasksTo(newest)] /\ \A u \in Services : IsFiniteSet(tasks'[u])
      BY <3>1, <3>2, FewerTypes
    <3> QED BY <1>1, <3>1, <3>2, <3>3 DEF Types
  <2> QED BY <2>1, <2>2 DEF ExternalEdit
<1>3. JobsSound' /\ Alone' /\ SyncedMatches' BY <1>1 DEF Inv, JobsSound, Alone, At, SyncedMatches
<1>4. \A w \in Workers : WorkerSound(w)' BY <1>1 DEF Inv, WorkerSound, At, Busy
<1> QED BY <1>2, <1>3, <1>4 DEF Inv

-----------------------------------------------------------------------------
(* The worker *)

\* A reference is a zone of one of the tasks, if there is one.
LEMMA ReferenceType ==
    ASSUME NEW n \in Nat, NEW S \in SUBSET TasksTo(n), NEW times
    PROVE  Reference(S, times) \in Zones \union {None}
<1> DEFINE wanted == {t \in S : t.time \in times}
<1>1. wanted \in SUBSET TasksTo(n) OBVIOUS
<1>2. wanted # {} => Oldest(wanted) \in TasksTo(n)
  <2> HIDE DEF wanted
  <2> QED BY <1>1, OldestIsOne
<1> QED BY <1>2 DEF Reference, TasksTo

\* What is known of an execution at work.
LEMMA AtWork ==
    ASSUME Inv, PlanAssumption, NEW w \in Workers, ~At(w, "idle")
    PROVE  /\ exec[w] \in Execs /\ exec[w].rev \in 1..MaxSaves /\ exec[w].rev <= plan.rev
           /\ jobs[exec[w].rev] \in Jobs /\ jobs[exec[w].rev].status = "RUNNING"
           /\ jobs[exec[w].rev].attempts + 1 \in 0..MaxAttempts
           /\ newest \in Nat /\ WorkerSound(w)
<1>1. exec[w] \in Execs /\ newest \in Nat /\ WorkerSound(w) BY DEF Inv, Types
<1>2. exec[w].rev \in 1..MaxSaves /\ jobs[exec[w].rev].status = "RUNNING" BY <1>1 DEF WorkerSound, Busy
<1>3. jobs[exec[w].rev] \in Jobs BY <1>2 DEF Inv, Types
<1>4. exec[w].rev <= plan.rev /\ jobs[exec[w].rev].attempts < MaxAttempts BY <1>2 DEF Inv, JobsSound
<1>5. jobs[exec[w].rev].attempts + 1 \in 0..MaxAttempts BY <1>3, <1>4 DEF Jobs, PlanAssumption
<1> QED BY <1>1, <1>2, <1>3, <1>4, <1>5

\* The tasks of the service it works for.
LEMMA ItsTasks ==
    ASSUME Inv, NEW w \in Workers, exec[w].at \notin Early
    PROVE  exec[w].service \in Services /\ tasks[exec[w].service] \in SUBSET TasksTo(newest)
           /\ IsFiniteSet(tasks[exec[w].service]) /\ newest \in Nat
<1>1. exec[w].service \in Services BY DEF Inv, WorkerSound, Early
<1> QED BY <1>1 DEF Inv, Types

\* A synced plan, that nobody changed since, has exact tasks for its execution.
LEMMA SyncedExact ==
    ASSUME Inv, NEW w \in Workers, exec[w].at \notin Early, Current(w), ~edited, plan.sync = "SYNCED"
    PROVE  Exact(tasks[exec[w].service], exec[w].times)
<1>1. exec[w].times = plan.times /\ exec[w].service = plan.service BY DEF Inv, WorkerSound, Current
<1> QED BY <1>1 DEF Inv, SyncedMatches, Current

\* A worker takes a job, which nobody else has: it was PENDING.
LEMMA TakeStep == ASSUME Inv, PlanAssumption, NEW w \in Workers, NEW r \in 1..MaxSaves, Take(w, r) PROVE Inv'
<1> DEFINE to == [Resting EXCEPT !.at = "conn", !.rev = r]
<1>1. /\ At(w, "idle") /\ jobs[r].status = "PENDING" /\ jobs' = [jobs EXCEPT ![r].status = "RUNNING"] /\ lock' = w
      /\ exec' = [exec EXCEPT ![w] = to] /\ UNCHANGED <<plan, service, zone, tasks, newest, edited>>
  BY DEF Take, world
<1>2. to \in Execs /\ to.at = "conn" /\ to.rev = r
  <2>1. Resting \in Execs BY DEF PlanAssumption, Execs, Resting, Steps
  <2>2. "conn" \in Steps /\ r \in 0..MaxSaves BY DEF Steps, PlanAssumption
  <2> QED BY <2>1, <2>2 DEF Execs
<1> HIDE DEF to
<1>3. exec'[w] = to /\ \A v \in Workers \ {w} : exec'[v] = exec[v] BY <1>1 DEF Inv, Types
<1>4. /\ \A q \in 1..MaxSaves \ {r} : jobs'[q] = jobs[q]
      /\ jobs'[r].status = "RUNNING" /\ jobs'[r].attempts = jobs[r].attempts
      /\ jobs' \in [1..MaxSaves -> Jobs]
  BY <1>1 DEF Inv, Types, Jobs, Statuses
<1>5. Types'
  <2>1. exec' \in [Workers -> Execs] BY <1>1, <1>2 DEF Inv, Types
  <2> QED BY <1>1, <1>4, <2>1 DEF Inv, Types
<1>6. JobsSound' BY <1>1, <1>4 DEF Inv, JobsSound
<1>7. \A v \in Workers : ~At(v, "idle") => exec[v].rev # r BY <1>1 DEF Inv, WorkerSound, Busy
<1>8. Alone' BY <1>1, <1>2, <1>3, <1>7 DEF Inv, Alone, At
<1>9. ASSUME NEW v \in Workers PROVE WorkerSound(v)'
  <2>1. CASE v = w BY <1>2, <1>3, <1>4, <2>1 DEF WorkerSound, At, Busy, Settled, Early
  <2>2. CASE v # w
    <3>1. WorkerSound(v) /\ exec'[v] = exec[v] BY <1>3, <2>2 DEF Inv
    <3>2. Busy(v) /\ ~At(v, "idle") => Busy(v)' BY <1>4, <1>7, <3>1 DEF Busy
    <3> QED BY <1>1, <3>1, <3>2 DEF WorkerSound, At, Current, Settled
  <2> QED BY <2>1, <2>2
<1>10. SyncedMatches' BY <1>1 DEF Inv, SyncedMatches
<1> QED BY <1>5, <1>6, <1>8, <1>9, <1>10 DEF Inv

\* An execution ends with its job in a state that is not RUNNING.
LEMMA EndStep ==
    ASSUME Inv, PlanAssumption, NEW w \in Workers, ~At(w, "idle"),
           NEW j \in Jobs, j.status \in {"PENDING", "DONE", "DEAD"}, j.status = "PENDING" => j.attempts < MaxAttempts,
           jobs' = [jobs EXCEPT ![exec[w].rev] = j], lock' = Freed(w), exec' = [exec EXCEPT ![w] = Resting],
           plan' = plan \/ plan' = [plan EXCEPT !.sync = "ERROR"], UNCHANGED <<service, zone, tasks, newest, edited>>
    PROVE  Inv'
<1> DEFINE rev == exec[w].rev
<1>1. rev \in 1..MaxSaves /\ rev <= plan.rev BY AtWork
<1>2. /\ \A q \in 1..MaxSaves : jobs'[q] = IF q = rev THEN j ELSE jobs[q]
      /\ jobs' \in [1..MaxSaves -> Jobs]
  BY <1>1 DEF Inv, Types
<1>3. plan' \in Plans /\ plan'.rev = plan.rev BY DEF Inv, Types, Plans
<1>4. Resting \in Execs BY DEF PlanAssumption, Execs, Resting, Steps
<1>5. lock' \in Workers \union {None} BY DEF Inv, Types, Freed
<1>6. Types'
  <2>1. exec' \in [Workers -> Execs] BY <1>4 DEF Inv, Types
  <2> QED BY <1>2, <1>3, <1>5, <2>1 DEF Inv, Types
<1>7. JobsSound' BY <1>1, <1>2, <1>3 DEF Inv, JobsSound
<1>8. \A q \in 1..MaxSaves : At(w, "idle") \/ q # rev => jobs'[q] = jobs[q] BY <1>2
<1> QED BY <1>6, <1>7, <1>8, OneStops

\* The execution ends well, or was superseded.
LEMMA EndsStep ==
    ASSUME Inv, PlanAssumption, NEW w \in Workers, ~At(w, "idle"), Ends(w, "DONE"),
           UNCHANGED <<plan, service, zone, tasks, newest, edited>>
    PROVE  Inv'
<1> DEFINE j == [jobs[exec[w].rev] EXCEPT !.status = "DONE"]
<1>1. j \in Jobs /\ j.status = "DONE" BY AtWork DEF Jobs, Statuses
<1>2. jobs' = [jobs EXCEPT ![exec[w].rev] = j] BY DEF Ends
<1> HIDE DEF j
<1> QED BY <1>1, <1>2, EndStep DEF Ends

\* It fails, and is tried again while attempts are left.
LEMMA FailedStep ==
    ASSUME Inv, PlanAssumption, NEW w \in Workers, ~At(w, "idle"), NEW permanent \in BOOLEAN, Failed(w, permanent),
           plan' = plan \/ plan' = [plan EXCEPT !.sync = "ERROR"], UNCHANGED <<service, zone, tasks, newest, edited>>
    PROVE  Inv'
<1> DEFINE n == jobs[exec[w].rev].attempts + 1
           j == [status |-> IF permanent \/ n >= MaxAttempts THEN "DEAD" ELSE "PENDING", attempts |-> n]
<1>1. n \in 0..MaxAttempts BY AtWork
<1>2. jobs' = [jobs EXCEPT ![exec[w].rev] = j] BY DEF Failed
<1> HIDE DEF n
<1>3. j \in Jobs /\ j.status \in {"PENDING", "DONE", "DEAD"} /\ (j.status = "PENDING" => j.attempts < MaxAttempts)
  BY <1>1 DEF Jobs, Statuses, PlanAssumption
<1> HIDE DEF j
<1> QED BY <1>2, <1>3, EndStep DEF Failed

\* An execution goes on to a step that relies on nothing but what it has just read.
LEMMA FreeStep ==
    ASSUME Inv, PlanAssumption, NEW w \in Workers, ~At(w, "idle"),
           NEW to \in Execs, to.rev = exec[w].rev, to.at \notin {"idle", "create", "delete", "relist", "mark"},
           exec' = [exec EXCEPT ![w] = to], UNCHANGED <<plan, jobs, service, zone, tasks, newest, lock, edited>>,
           to.at \notin {"conn", "fail"} => to.service \in Services,
           to.at \notin Early /\ to.rev = plan.rev => to.times = plan.times /\ to.service = plan.service
    PROVE  Inv'
<1>1. exec'[w] = to /\ Busy(w) BY DEF Inv, Types, WorkerSound
<1>2. Types' BY DEF Inv, Types
<1>3. WorkerSound(w)' BY <1>1 DEF WorkerSound, Busy, At, Settled
<1>4. SyncedMatches' BY DEF Inv, SyncedMatches
<1> QED BY <1>2, <1>3, <1>4, OneWorks

\* It reads the service of the connection.
LEMMA ReadConnectionStep == ASSUME Inv, PlanAssumption, NEW w \in Workers, ReadConnection(w) PROVE Inv'
<1>1. At(w, "conn") /\ ~At(w, "idle") /\ UNCHANGED <<plan, service, zone, tasks, newest, edited>>
  BY DEF ReadConnection, At, world
<1>2. CASE Failed(w, TRUE) BY <1>1, <1>2, FailedStep
<1>3. CASE /\ service # None /\ UNCHANGED <<jobs, lock>>
           /\ exec' = [exec EXCEPT ![w].at = "plan", ![w].service = service]
  <2> DEFINE to == [exec[w] EXCEPT !.at = "plan", !.service = service]
  <2>1. exec[w] \in Execs /\ service \in Services BY <1>3 DEF Inv, Types
  <2>2. to \in Execs /\ to.at = "plan" /\ to.rev = exec[w].rev /\ to.service = service
    BY <2>1 DEF Execs, Steps
  <2>3. exec' = [exec EXCEPT ![w] = to] BY <1>3, <2>1 DEF Inv, Types, Execs
  <2> HIDE DEF to
  <2> QED BY <1>1, <1>3, <2>1, <2>2, <2>3, FreeStep DEF Early
<1> QED BY <1>2, <1>3 DEF ReadConnection

\* It reads the plan.
LEMMA ReadPlanStep == ASSUME Inv, PlanAssumption, NEW w \in Workers, ReadPlan(w) PROVE Inv'
<1>1. At(w, "plan") /\ ~At(w, "idle") /\ UNCHANGED <<plan, jobs, service, zone, tasks, newest, lock, edited>>
  BY DEF ReadPlan, At, world
<1>2. exec[w] \in Execs /\ exec[w].service \in Services BY <1>1 DEF Inv, Types, WorkerSound, At
<1>3. ASSUME NEW at \in {"done", "stale"}, Goto(w, at), at = "done" => plan.rev # exec[w].rev PROVE Inv'
  <2> DEFINE to == [exec[w] EXCEPT !.at = at]
  <2>1. to \in Execs /\ to.at = at /\ to.rev = exec[w].rev /\ to.service = exec[w].service
    BY <1>2 DEF Execs, Steps
  <2>2. exec' = [exec EXCEPT ![w] = to] BY <1>3 DEF Goto
  <2> HIDE DEF to
  <2> QED BY <1>1, <1>2, <1>3, <2>1, <2>2, FreeStep DEF Early
<1>4. CASE /\ plan.service = exec[w].service
           /\ exec' = [exec EXCEPT ![w].at = "fresh", ![w].times = plan.times]
  <2> DEFINE to == [exec[w] EXCEPT !.at = "fresh", !.times = plan.times]
  <2>1. plan.times \in SUBSET Times BY DEF Inv, Types, Plans
  <2>2. /\ to \in Execs /\ to.at = "fresh" /\ to.rev = exec[w].rev /\ to.times = plan.times
        /\ to.service = exec[w].service
    BY <1>2, <2>1 DEF Execs, Steps
  <2>3. exec' = [exec EXCEPT ![w] = to] BY <1>2, <1>4 DEF Inv, Types, Execs
  <2> HIDE DEF to
  <2> QED BY <1>1, <1>2, <1>4, <2>2, <2>3, FreeStep
<1> QED BY <1>3, <1>4 DEF ReadPlan

\* The plan is of another service: its error is shown, and the job is dead.
LEMMA StaleStep == ASSUME Inv, PlanAssumption, NEW w \in Workers, Stale(w) PROVE Inv'
<1>1. ~At(w, "idle") /\ Failed(w, TRUE) /\ UNCHANGED <<service, zone, tasks, newest, edited>>
  BY DEF Stale, At, world
<1>2. plan' = plan \/ plan' = [plan EXCEPT !.sync = "ERROR"] BY DEF Stale, MarkedError
<1> QED BY <1>1, <1>2, FailedStep

\* It lists the tasks; those of a synced plan lack nothing.
LEMMA ListStep == ASSUME Inv, PlanAssumption, NEW w \in Workers, List(w) PROVE Inv'
<1> DEFINE now == tasks[exec[w].service]
           ref == Reference(now, exec[w].times)
           missing == {t \in exec[w].times : Fitting(now, t, ref) = {}}
           to == [exec[w] EXCEPT !.at = "create", !.ref = ref, !.todo = missing]
<1>1. /\ At(w, "list") /\ ~At(w, "idle") /\ UNCHANGED <<plan, jobs, service, zone, tasks, newest, lock, edited>>
      /\ exec' = [exec EXCEPT ![w].at = "create", ![w].ref = ref, ![w].todo = missing]
  BY DEF List, At, world
<1>2. /\ exec[w] \in Execs /\ Busy(w) /\ newest \in Nat /\ now \in SUBSET TasksTo(newest) /\ IsFiniteSet(now)
      /\ WorkerSound(w) /\ exec[w].at \notin Early
  <2>1. exec[w].at \notin Early BY <1>1 DEF At, Early
  <2> QED BY <1>1, <2>1, AtWork, ItsTasks DEF WorkerSound
<1>3. ref \in Zones \union {None} BY <1>2, ReferenceType
<1>4. missing \subseteq Times BY <1>2 DEF Execs
<1>5. plan.sync = "SYNCED" /\ ~edited /\ Current(w) => missing = {}
  <2> SUFFICES ASSUME plan.sync = "SYNCED", ~edited, Current(w) PROVE missing = {} OBVIOUS
  <2>1. Exact(now, exec[w].times) BY <1>2, SyncedExact
  <2> QED BY <1>2, <2>1, NothingToDo
<1>6. /\ to \in Execs /\ to.at = "create" /\ to.rev = exec[w].rev /\ to.times = exec[w].times /\ to.service = exec[w].service
      /\ to.ref = ref /\ to.todo = missing
  <2> HIDE DEF ref, missing
  <2>1. "create" \in Steps BY DEF Steps
  <2> QED BY <1>2, <1>3, <1>4, <2>1 DEF Execs
<1>7. exec' = [exec EXCEPT ![w] = to] BY <1>1, <1>2 DEF Inv, Types, Execs
<1> HIDE DEF to
<1>8. exec'[w] = to BY <1>7 DEF Inv, Types
<1>9. Types'
  <2> HIDE DEF now, ref, missing
  <2>1. exec' \in [Workers -> Execs] BY <1>6, <1>7 DEF Inv, Types
  <2> QED BY <1>1, <2>1 DEF Inv, Types
<1>10. Settled(w)' \/ ~(Current(w) /\ ~edited)
  <2> HIDE DEF missing
  <2> QED BY <1>1, <1>5, <1>6, <1>8 DEF Settled, At
<1>11. WorkerSound(w)'
  <2>1. Current(w)' <=> Current(w) BY <1>1, <1>6, <1>8 DEF Current
  <2> HIDE DEF missing
  <2> QED BY <1>1, <1>2, <1>4, <1>6, <1>8, <1>10, <2>1 DEF WorkerSound, Busy, At
<1>12. SyncedMatches' BY <1>1 DEF Inv, SyncedMatches
<1> QED BY <1>1, <1>6, <1>7, <1>9, <1>11, <1>12, OneWorks

\* An execution goes on without changing tasks or plan.
LEMMA GoStep ==
    ASSUME Inv, PlanAssumption, NEW w \in Workers, exec[w].at \notin Early,
           NEW to \in Execs, to.at # "idle", to.rev = exec[w].rev, to.times = exec[w].times,
           to.service = exec[w].service,
           exec' = [exec EXCEPT ![w] = to], UNCHANGED <<plan, jobs, service, zone, tasks, newest, lock, edited>>,
           to.at = "create" => to.todo \subseteq Times,
           Current(w) /\ ~edited =>
             /\ to.at = "mark" => Exact(tasks[exec[w].service], exec[w].times)
             /\ plan.sync = "SYNCED" =>
                  /\ to.at \in {"create", "delete"} => to.todo = {}
                  /\ to.at \in {"create", "relist"} => to.ref = Reference(tasks[exec[w].service], exec[w].times)
    PROVE  Inv'
<1>1. exec'[w] = to /\ WorkerSound(w) BY DEF Inv, Types
<1>2. Types' BY DEF Inv, Types
<1>3. Current(w)' <=> Current(w) BY <1>1 DEF Current
<1>4. Current(w) /\ ~edited => Settled(w)' BY <1>1 DEF Settled, At
<1>5. WorkerSound(w)' BY <1>1, <1>3, <1>4 DEF WorkerSound, Busy, At, Early
<1>6. SyncedMatches' BY DEF Inv, SyncedMatches
<1> QED BY <1>2, <1>5, <1>6, OneWorks DEF At, Early

\* An execution of the newest revision changes tasks; it does so for no synced plan.
LEMMA ChangeStep ==
    ASSUME Inv, PlanAssumption, NEW w \in Workers, exec[w].at \notin Early, Current(w),
           edited \/ plan.sync # "SYNCED",
           NEW to \in Execs, to.at \notin {"idle", "mark"}, to.rev = exec[w].rev, to.times = exec[w].times,
           to.service = exec[w].service,
           exec' = [exec EXCEPT ![w] = to], UNCHANGED <<plan, jobs, service, zone, lock, edited>>,
           to.at = "create" => to.todo \subseteq Times,
           newest' \in Nat, tasks' \in [Services -> SUBSET TasksTo(newest')],
           \A s \in Services : IsFiniteSet(tasks'[s])
    PROVE  Inv'
<1>1. exec'[w] = to /\ WorkerSound(w) BY DEF Inv, Types
<1>2. Types' BY DEF Inv, Types
<1>3. ~edited => Settled(w)' BY <1>1 DEF Settled, At
<1>4. WorkerSound(w)' BY <1>1, <1>3 DEF WorkerSound, Busy, At, Early
<1>5. SyncedMatches' BY DEF Inv, SyncedMatches
<1> QED BY <1>2, <1>4, <1>5, OneWorks DEF At, Current, Early

\* The execution moves on to another step, and nothing else.
LEMMA GotoStep ==
    ASSUME Inv, PlanAssumption, NEW w \in Workers, exec[w].at \notin Early,
           NEW at \in Steps \ {"idle", "create", "delete"}, Goto(w, at),
           UNCHANGED <<plan, jobs, service, zone, tasks, newest, lock, edited>>,
           Current(w) /\ ~edited /\ at = "mark" => Exact(tasks[exec[w].service], exec[w].times),
           at = "relist" => At(w, "create")
    PROVE  Inv'
<1> DEFINE to == [exec[w] EXCEPT !.at = at]
<1>1. exec[w] \in Execs /\ WorkerSound(w) BY DEF Inv, Types
<1>2. to \in Execs /\ to.at = at /\ to.rev = exec[w].rev /\ to.times = exec[w].times /\ to.service = exec[w].service /\ to.ref = exec[w].ref
  BY <1>1 DEF Execs
<1>3. exec' = [exec EXCEPT ![w] = to] BY DEF Goto
<1> HIDE DEF to
<1>4. Current(w) /\ ~edited /\ plan.sync = "SYNCED" /\ at = "relist"
        => exec[w].ref = Reference(tasks[exec[w].service], exec[w].times)
  BY <1>1 DEF WorkerSound, Settled, At
<1> QED BY <1>2, <1>3, <1>4, GoStep

\* It reads the connection again.
LEMMA RefreshStep == ASSUME Inv, PlanAssumption, NEW w \in Workers, Refresh(w) PROVE Inv'
<1>1. /\ At(w, "fresh") /\ ~At(w, "idle") /\ exec[w].at \notin Early
      /\ UNCHANGED <<plan, service, zone, tasks, newest, edited>>
  BY DEF Refresh, At, world, Early
<1>2. CASE Goto(w, "list") /\ UNCHANGED <<jobs, lock>>
  <2>1. "list" \in Steps \ {"idle", "create", "delete"} BY DEF Steps
  <2> QED BY <1>1, <1>2, <2>1, GotoStep
<1>3. CASE Failed(w, TRUE) BY <1>1, <1>3, FailedStep
<1> QED BY <1>2, <1>3 DEF Refresh

\* It creates what is missing; for a synced plan nothing is.
LEMMA CreateStep == ASSUME Inv, PlanAssumption, NEW w \in Workers, Create(w) PROVE Inv'
<1>1. At(w, "create") /\ exec[w].at \notin Early /\ UNCHANGED <<plan, jobs, service, zone, lock, edited>>
  BY DEF Create, At, world, Early
<1>2. CASE Goto(w, "relist") /\ UNCHANGED <<tasks, newest>>
  <2>1. "relist" \in Steps \ {"idle", "create", "delete"} BY DEF Steps
  <2> QED BY <1>1, <1>2, <2>1, GotoStep
<1>3. CASE Goto(w, "done") /\ UNCHANGED <<tasks, newest>>
  <2>1. "done" \in Steps \ {"idle", "create", "delete"} BY DEF Steps
  <2> QED BY <1>1, <1>3, <2>1, GotoStep
<1>4. ASSUME Current(w), NEW t \in exec[w].todo, exec' = [exec EXCEPT ![w].todo = @ \ {t}],
             NEW twice \in BOOLEAN, Created(exec[w].service, t, twice)
      PROVE  Inv'
  <2> DEFINE to == [exec[w] EXCEPT !.todo = exec[w].todo \ {t}]
             n == IF twice THEN 2 ELSE 1
  <2>1. exec[w] \in Execs /\ WorkerSound(w) /\ exec[w].service \in Services /\ Types /\ ~At(w, "idle")
    BY <1>1, ItsTasks DEF Inv, Types, At, Early
  <2>2. exec[w].todo \subseteq Times /\ t \in Times BY <1>1, <1>4, <2>1 DEF WorkerSound
  <2>3. edited \/ plan.sync # "SYNCED" BY <1>1, <1>4, <2>1 DEF WorkerSound, Settled, At
  <2>4. /\ to \in Execs /\ to.at = "create" /\ to.rev = exec[w].rev /\ to.times = exec[w].times /\ to.service = exec[w].service
        /\ to.todo \subseteq Times
    BY <1>1, <2>1, <2>2 DEF Execs, At
  <2>5. exec' = [exec EXCEPT ![w] = to] BY <1>4
  <2>6. n \in {1, 2} /\ newest' = newest + n
        /\ tasks' = [tasks EXCEPT ![exec[w].service] = @ \union {Task(newest + i, t) : i \in 1..n}]
    BY <1>4 DEF Created
  <2> HIDE DEF to, n
  <2>7. /\ newest' \in Nat /\ tasks' \in [Services -> SUBSET TasksTo(newest')]
        /\ \A u \in Services : IsFiniteSet(tasks'[u])
    BY <2>1, <2>2, <2>6, CreatedTypes
  <2> QED BY <1>1, <1>4, <2>3, <2>4, <2>5, <2>7, ChangeStep
<1> QED BY <1>2, <1>3, <1>4 DEF Create

\* It lists again what to delete; for a synced plan nothing.
LEMMA RelistStep == ASSUME Inv, PlanAssumption, NEW w \in Workers, Relist(w) PROVE Inv'
<1> DEFINE now == tasks[exec[w].service]
           ref == IF exec[w].ref = None THEN Reference(now, exec[w].times) ELSE exec[w].ref
           keep == {Oldest(Fitting(now, t, ref)) : t \in {t \in exec[w].times : Fitting(now, t, ref) # {}}}
           ids == {t.id : t \in now \ keep}
           to == [exec[w] EXCEPT !.at = "delete", !.todo = ids]
<1>1. /\ At(w, "relist") /\ ~At(w, "idle") /\ exec[w].at \notin Early
      /\ UNCHANGED <<plan, jobs, service, zone, tasks, newest, lock, edited>>
      /\ exec' = [exec EXCEPT ![w].at = "delete", ![w].todo = ids]
  BY DEF Relist, At, world, Early
<1>2. /\ exec[w] \in Execs /\ newest \in Nat /\ now \in SUBSET TasksTo(newest) /\ IsFiniteSet(now) /\ WorkerSound(w)
  BY <1>1, AtWork, ItsTasks
<1>3. ids \subseteq Nat BY <1>2 DEF TasksTo
<1>4. plan.sync = "SYNCED" /\ ~edited /\ Current(w) => ids = {}
  <2> SUFFICES ASSUME plan.sync = "SYNCED", ~edited, Current(w) PROVE ids = {} OBVIOUS
  <2>1. Exact(now, exec[w].times) BY <1>1, SyncedExact
  <2>2. ref = Reference(now, exec[w].times) BY <1>1, <1>2 DEF WorkerSound, Settled, At
  <2>3. keep = now
    <3> HIDE DEF now, ref
    <3> QED BY <1>2, <2>1, <2>2, NothingToDo
  <2> HIDE DEF keep
  <2> QED BY <2>3
<1>5. to \in Execs /\ to.at = "delete" /\ to.rev = exec[w].rev /\ to.times = exec[w].times /\ to.service = exec[w].service /\ to.todo = ids
  <2> HIDE DEF ids
  <2>1. "delete" \in Steps BY DEF Steps
  <2> QED BY <1>2, <1>3, <2>1 DEF Execs
<1>6. exec' = [exec EXCEPT ![w] = to] BY <1>1, <1>2 DEF Inv, Types, Execs
<1> HIDE DEF to, ids
<1> QED BY <1>1, <1>4, <1>5, <1>6, GoStep

\* It deletes what is too much; for a synced plan nothing is.
LEMMA DeleteStep == ASSUME Inv, PlanAssumption, NEW w \in Workers, Delete(w) PROVE Inv'
<1>1. /\ At(w, "delete") /\ exec[w].at \notin Early
      /\ UNCHANGED <<plan, jobs, service, zone, newest, lock, edited>>
  BY DEF Delete, At, world, Early
<1>2. CASE Goto(w, "check") /\ UNCHANGED tasks
  <2>1. "check" \in Steps \ {"idle", "create", "delete"} BY DEF Steps
  <2> QED BY <1>1, <1>2, <2>1, GotoStep
<1>3. CASE Goto(w, "done") /\ UNCHANGED tasks
  <2>1. "done" \in Steps \ {"idle", "create", "delete"} BY DEF Steps
  <2> QED BY <1>1, <1>3, <2>1, GotoStep
<1>4. ASSUME Current(w), NEW n \in exec[w].todo, Deleted(exec[w].service, n), exec' = [exec EXCEPT ![w].todo = @ \ {n}]
      PROVE  Inv'
  <2> DEFINE to == [exec[w] EXCEPT !.todo = exec[w].todo \ {n}]
             left == {t \in tasks[exec[w].service] : t.id # n}
  <2>1. exec[w] \in Execs /\ WorkerSound(w) /\ exec[w].service \in Services /\ Types /\ ~At(w, "idle") /\ newest' \in Nat
    BY <1>1, ItsTasks DEF Inv, Types, At, Early
  <2>2. edited \/ plan.sync # "SYNCED" BY <1>1, <1>4, <2>1 DEF WorkerSound, Settled, At
  <2>3. to \in Execs /\ to.at = "delete" /\ to.rev = exec[w].rev /\ to.times = exec[w].times /\ to.service = exec[w].service
    BY <1>1, <2>1 DEF Execs, At
  <2>4. exec' = [exec EXCEPT ![w] = to] BY <1>4
  <2>5. tasks' = [tasks EXCEPT ![exec[w].service] = left] /\ left \subseteq tasks[exec[w].service] BY <1>4 DEF Deleted
  <2> HIDE DEF to, left
  <2>6. tasks' \in [Services -> SUBSET TasksTo(newest')] /\ \A u \in Services : IsFiniteSet(tasks'[u])
    BY <1>1, <2>1, <2>5, FewerTypes
  <2> QED BY <1>1, <1>4, <2>1, <2>2, <2>3, <2>4, <2>6, ChangeStep
<1> QED BY <1>2, <1>3, <1>4 DEF Delete

\* It checks the tasks, and forgets what was changed before if it is of the newest revision.
LEMMA CheckStep == ASSUME Inv, PlanAssumption, NEW w \in Workers, Check(w) PROVE Inv'
<1>1. /\ At(w, "check") /\ exec[w].at \notin Early
      /\ UNCHANGED <<plan, jobs, service, zone, tasks, newest, lock>>
  BY DEF Check, At, world, Early
<1>2. CASE Goto(w, "error") /\ UNCHANGED edited
  <2>1. "error" \in Steps \ {"idle", "create", "delete"} BY DEF Steps
  <2> QED BY <1>1, <1>2, <2>1, GotoStep
<1>3. CASE Exact(tasks[exec[w].service], exec[w].times) /\ Goto(w, "mark") /\ edited' = (edited /\ ~Current(w))
  <2> DEFINE to == [exec[w] EXCEPT !.at = "mark"]
  <2>1. exec[w] \in Execs /\ WorkerSound(w) /\ edited \in BOOLEAN /\ "mark" \in Steps BY DEF Inv, Types, Steps
  <2>2. to \in Execs /\ to.at = "mark" /\ to.rev = exec[w].rev /\ to.times = exec[w].times /\ to.service = exec[w].service BY <2>1 DEF Execs
  <2>3. exec' = [exec EXCEPT ![w] = to] BY <1>3 DEF Goto
  <2> HIDE DEF to
  <2>4. exec'[w] = to BY <2>3 DEF Inv, Types
  <2>5. Types' BY <1>1, <1>3, <2>1, <2>2, <2>3 DEF Inv, Types
  <2>6. Settled(w)' BY <1>1, <1>3, <2>2, <2>4 DEF Settled, At
  <2>7. WorkerSound(w)' BY <1>1, <2>1, <2>2, <2>4, <2>6 DEF WorkerSound, Busy, At
  <2>8. SyncedMatches'
    <3>1. CASE Current(w)
      <4>1. exec[w].times = plan.times /\ plan.service = exec[w].service BY <1>1, <2>1, <3>1 DEF WorkerSound, Current
      <4> QED BY <1>1, <1>3, <4>1 DEF SyncedMatches
    <3>2. CASE ~Current(w) BY <1>1, <1>3, <3>2 DEF Inv, SyncedMatches
    <3> QED BY <3>1, <3>2
  <2>9. UNCHANGED <<plan, tasks, edited>> \/ exec[w].rev = plan.rev BY <1>1, <1>3, <2>1 DEF Current
  <2> QED BY <1>1, <2>2, <2>3, <2>5, <2>7, <2>8, <2>9, OneWorks DEF At
<1> QED BY <1>2, <1>3 DEF Check

\* It marks the plan synced, if the plan is still its own.
LEMMA MarkStep == ASSUME Inv, PlanAssumption, NEW w \in Workers, Mark(w) PROVE Inv'
<1>1. /\ At(w, "mark") /\ exec[w].at \notin Early
      /\ UNCHANGED <<jobs, service, zone, tasks, newest, lock, edited>>
  BY DEF Mark, At, world, Early
<1>2. CASE Goto(w, "fail") /\ UNCHANGED plan
  <2>1. "fail" \in Steps \ {"idle", "create", "delete"} BY DEF Steps
  <2> QED BY <1>1, <1>2, <2>1, GotoStep
<1>3. CASE Current(w) /\ plan' = [plan EXCEPT !.sync = "SYNCED"] /\ Goto(w, "done")
  <2> DEFINE to == [exec[w] EXCEPT !.at = "done"]
  <2>1. exec[w] \in Execs /\ WorkerSound(w) /\ "done" \in Steps /\ plan \in Plans BY DEF Inv, Types, Steps
  <2>2. to \in Execs /\ to.at = "done" /\ to.rev = exec[w].rev /\ to.times = exec[w].times /\ to.service = exec[w].service BY <2>1 DEF Execs
  <2>3. exec' = [exec EXCEPT ![w] = to] BY <1>3 DEF Goto
  <2>4. /\ plan' \in Plans /\ plan'.rev = plan.rev /\ plan'.times = plan.times /\ plan'.service = plan.service
    BY <1>3, <2>1 DEF Plans
  <2> HIDE DEF to
  <2>5. exec'[w] = to BY <2>3 DEF Inv, Types
  <2>6. Types' BY <1>1, <2>2, <2>3, <2>4 DEF Inv, Types
  <2>7. WorkerSound(w)' BY <1>1, <2>1, <2>2, <2>4, <2>5 DEF WorkerSound, Busy, At, Settled
  <2>8. ~edited => Exact(tasks[exec[w].service], exec[w].times) /\ exec[w].times = plan.times
                /\ plan.service = exec[w].service
    BY <1>1, <1>3, <2>1 DEF WorkerSound, Settled, At, Current
  <2>9. SyncedMatches' BY <1>1, <2>4, <2>8 DEF SyncedMatches
  <2> QED BY <1>1, <1>3, <2>2, <2>3, <2>4, <2>6, <2>7, <2>9, OneWorks DEF At, Current
<1> QED BY <1>2, <1>3 DEF Mark

\* The job's work is done.
LEMMA DoneStep == ASSUME Inv, PlanAssumption, NEW w \in Workers, Done(w) PROVE Inv'
BY EndsStep DEF Done, At, world

\* It shows the error, if the plan is still its own.
LEMMA ErrorStep == ASSUME Inv, PlanAssumption, NEW w \in Workers, Error(w) PROVE Inv'
<1>1. /\ At(w, "error") /\ exec[w].at \notin Early /\ Goto(w, "fail")
      /\ UNCHANGED <<jobs, service, zone, tasks, newest, lock, edited>>
  BY DEF Error, At, world, Early
<1>2. CASE UNCHANGED plan
  <2>1. "fail" \in Steps \ {"idle", "create", "delete"} BY DEF Steps
  <2> QED BY <1>1, <1>2, <2>1, GotoStep
<1>3. CASE plan.rev = exec[w].rev /\ plan' = [plan EXCEPT !.sync = "ERROR"]
  <2> DEFINE to == [exec[w] EXCEPT !.at = "fail"]
  <2>1. exec[w] \in Execs /\ WorkerSound(w) /\ "fail" \in Steps /\ plan \in Plans BY DEF Inv, Types, Steps
  <2>2. to \in Execs /\ to.at = "fail" /\ to.rev = exec[w].rev /\ to.times = exec[w].times /\ to.service = exec[w].service BY <2>1 DEF Execs
  <2>3. exec' = [exec EXCEPT ![w] = to] BY <1>1 DEF Goto
  <2>4. /\ plan' \in Plans /\ plan'.rev = plan.rev /\ plan'.times = plan.times /\ plan'.service = plan.service
        /\ plan'.sync = "ERROR"
    BY <1>3, <2>1 DEF Plans
  <2> HIDE DEF to
  <2>5. exec'[w] = to BY <2>3 DEF Inv, Types
  <2>6. Types' BY <1>1, <2>2, <2>3, <2>4 DEF Inv, Types
  <2>7. WorkerSound(w)' BY <1>1, <2>1, <2>2, <2>4, <2>5 DEF WorkerSound, Busy, At, Settled
  <2>8. SyncedMatches' BY <2>4 DEF SyncedMatches
  <2> QED BY <1>1, <1>3, <2>2, <2>3, <2>4, <2>6, <2>7, <2>8, OneWorks DEF At
<1> QED BY <1>1, <1>2, <1>3 DEF Error, MarkedError

\* The job fails.
LEMMA FailJobStep == ASSUME Inv, PlanAssumption, NEW w \in Workers, FailJob(w) PROVE Inv'
BY FailedStep DEF FailJob, At, world

-----------------------------------------------------------------------------
(* Failures *)

\* A call fails, with or without its effect.
LEMMA CallFailsStep == ASSUME Inv, PlanAssumption, NEW w \in Workers, CallFails(w) PROVE Inv'
<1>1. /\ exec[w].at \notin Early /\ ~At(w, "idle") /\ Goto(w, "error")
      /\ UNCHANGED <<plan, jobs, service, zone, lock, edited>>
  BY DEF CallFails, At, world, Early
<1> DEFINE to == [exec[w] EXCEPT !.at = "error"]
<1>2. exec[w] \in Execs /\ WorkerSound(w) /\ "error" \in Steps /\ exec[w].service \in Services /\ Types /\ newest \in Nat
  BY <1>1, ItsTasks DEF Inv, Types, Steps, CallFails
<1>3. to \in Execs /\ to.at = "error" /\ to.rev = exec[w].rev /\ to.times = exec[w].times /\ to.service = exec[w].service BY <1>2 DEF Execs
<1>4. exec' = [exec EXCEPT ![w] = to] BY <1>1 DEF Goto
<1> HIDE DEF to
<1>5. CASE UNCHANGED <<tasks, newest>>
  <2>1. "error" \in Steps \ {"idle", "create", "delete"} BY DEF Steps
  <2> QED BY <1>1, <1>5, <2>1, GotoStep
<1>6. ASSUME At(w, "create"), Current(w), NEW t \in exec[w].todo, Created(exec[w].service, t, FALSE) PROVE Inv'
  <2>1. t \in Times BY <1>2, <1>6 DEF WorkerSound
  <2>2. edited \/ plan.sync # "SYNCED" BY <1>1, <1>2, <1>6 DEF WorkerSound, Settled, At
  <2>3. newest' = newest + 1 /\ tasks' = [tasks EXCEPT ![exec[w].service] = @ \union {Task(newest + i, t) : i \in 1..1}]
    BY <1>6 DEF Created
  <2>4. /\ newest' \in Nat /\ tasks' \in [Services -> SUBSET TasksTo(newest')]
        /\ \A u \in Services : IsFiniteSet(tasks'[u])
    BY <1>2, <2>1, <2>3, CreatedTypes
  <2> QED BY <1>1, <1>3, <1>4, <1>6, <2>2, <2>4, ChangeStep
<1>7. ASSUME At(w, "delete"), Current(w), NEW n \in exec[w].todo, Deleted(exec[w].service, n), UNCHANGED newest PROVE Inv'
  <2> DEFINE left == {t \in tasks[exec[w].service] : t.id # n}
  <2>1. edited \/ plan.sync # "SYNCED" BY <1>1, <1>2, <1>7 DEF WorkerSound, Settled, At
  <2>2. tasks' = [tasks EXCEPT ![exec[w].service] = left] /\ left \subseteq tasks[exec[w].service] BY <1>7 DEF Deleted
  <2> HIDE DEF left
  <2>3. tasks' \in [Services -> SUBSET TasksTo(newest')] /\ \A u \in Services : IsFiniteSet(tasks'[u])
    BY <1>2, <1>7, <2>2, FewerTypes
  <2> QED BY <1>1, <1>2, <1>3, <1>4, <1>7, <2>1, <2>3, ChangeStep
<1> QED BY <1>5, <1>6, <1>7 DEF CallFails

\* A query fails.
LEMMA QueryFailsStep == ASSUME Inv, PlanAssumption, NEW w \in Workers, QueryFails(w) PROVE Inv'
<1>1. /\ ~At(w, "idle") /\ Goto(w, "fail") /\ exec[w] \in Execs
      /\ UNCHANGED <<plan, jobs, service, zone, tasks, newest, lock, edited>>
  BY DEF QueryFails, At, world, Inv, Types
<1> DEFINE to == [exec[w] EXCEPT !.at = "fail"]
<1>2. to \in Execs /\ to.at = "fail" /\ to.rev = exec[w].rev BY <1>1 DEF Execs, Steps
<1>3. exec' = [exec EXCEPT ![w] = to] BY <1>1 DEF Goto
<1> HIDE DEF to
<1> QED BY <1>1, <1>2, <1>3, FreeStep DEF Early

\* The process of a worker dies; the job stays RUNNING.
LEMMA CrashStep == ASSUME Inv, PlanAssumption, NEW w \in Workers, Crash(w) PROVE Inv'
<1>1. /\ lock' = Freed(w) /\ exec' = [exec EXCEPT ![w] = Resting]
      /\ UNCHANGED <<plan, jobs, service, zone, tasks, newest, edited>>
  BY DEF Crash, world
<1>2. Resting \in Execs BY DEF PlanAssumption, Execs, Resting, Steps
<1>3. lock' \in Workers \union {None} BY <1>1 DEF Inv, Types, Freed
<1>4. Types'
  <2>1. exec' \in [Workers -> Execs] BY <1>1, <1>2 DEF Inv, Types
  <2> QED BY <1>1, <1>3, <2>1 DEF Inv, Types
<1>5. JobsSound' BY <1>1 DEF Inv, JobsSound
<1> QED BY <1>1, <1>4, <1>5, OneStops

\* A job nobody works on is PENDING again.
LEMMA RecoverStep == ASSUME Inv, NEW r \in 1..MaxSaves, Recover(r) PROVE Inv'
<1>1. /\ jobs[r].status = "RUNNING" /\ (\A w \in Workers : exec[w].rev # r)
      /\ jobs' = [jobs EXCEPT ![r].status = "PENDING"]
      /\ UNCHANGED <<plan, service, zone, tasks, newest, lock, exec, edited>>
  BY DEF Recover, world
<1>2. jobs' \in [1..MaxSaves -> Jobs]
      /\ \A q \in 1..MaxSaves : IF q = r THEN jobs'[q].status = "PENDING" /\ jobs'[q].attempts = jobs[q].attempts
                                ELSE jobs'[q] = jobs[q]
  BY <1>1 DEF Inv, Types, Jobs, Statuses
<1>3. Types' BY <1>1, <1>2 DEF Inv, Types
<1>4. JobsSound' BY <1>1, <1>2 DEF Inv, JobsSound
<1> QED BY <1>1, <1>2, <1>3, <1>4, OthersMove

\* The session of the lock is lost; the execution goes on.
LEMMA DropStep == ASSUME Inv, DropSession PROVE Inv'
<1>1. lock' = None /\ UNCHANGED <<plan, jobs, service, zone, tasks, newest, exec, edited>>
  BY DEF DropSession, world
<1>2. Types' /\ JobsSound' BY <1>1 DEF Inv, Types, JobsSound
<1> QED BY <1>1, <1>2, OthersMove

-----------------------------------------------------------------------------
\* The invariant holds after every step.
LEMMA NextInv == ASSUME PlanAssumption PROVE Inv /\ [Next]_vars => Inv'
<1> SUFFICES ASSUME Inv, [Next]_vars PROVE Inv' OBVIOUS
<1>1. ASSUME NEW times \in SUBSET Times, Save(times) PROVE Inv' BY <1>1, SaveStep
<1>2. ASSUME NEW s \in Services \union {None}, Rebind(s) \/ (s \in Services /\ ExternalEdit(s)) PROVE Inv'
  BY <1>2, RebindStep, EditStep
<1>3. ASSUME NEW z \in Zones, ZoneMoves(z) PROVE Inv' BY <1>3, ZoneStep
<1>4. ASSUME NEW w \in Workers, NEW r \in 1..MaxSaves, Take(w, r) PROVE Inv' BY <1>4, TakeStep
<1>5. ASSUME NEW w \in Workers, Work(w) PROVE Inv'
  BY <1>5, ReadConnectionStep, ReadPlanStep, StaleStep, RefreshStep, ListStep, CreateStep, RelistStep, DeleteStep, CheckStep, MarkStep, DoneStep, ErrorStep,
     FailJobStep DEF Work
<1>6. ASSUME NEW w \in Workers, CallFails(w) \/ QueryFails(w) \/ Crash(w) PROVE Inv'
  BY <1>6, CallFailsStep, QueryFailsStep, CrashStep
<1>7. ASSUME NEW r \in 1..MaxSaves, Recover(r) PROVE Inv' BY <1>7, RecoverStep
<1>8. CASE DropSession BY <1>8, DropStep
<1>9. CASE UNCHANGED vars
  <2>1. Types' /\ JobsSound' BY <1>9 DEF Inv, Types, JobsSound, vars
  <2> QED BY <1>9, <2>1, OthersMove DEF vars
<1> QED BY <1>1, <1>2, <1>3, <1>4, <1>5, <1>6, <1>7, <1>8, <1>9 DEF Next

\* What the invariant says of the types.
LEMMA TypeOfInv == Inv => TypeOK
<1> SUFFICES ASSUME Inv PROVE TypeOK OBVIOUS
<1>1. \A r \in 1..MaxSaves : jobs[r] \in Jobs BY DEF Inv, Types
<1>2. \A w \in Workers : exec[w] \in Execs BY DEF Inv, Types
<1>3. \A s \in Services : \A t \in tasks[s] : t \in TasksTo(newest) BY DEF Inv, Types
<1> QED BY <1>1, <1>2, <1>3 DEF Inv, Types, TypeOK, Plans, Jobs, Statuses, Execs, Steps, TasksTo

\* restartTaskPlanStore.ts: every variable keeps its type, for any number of saves and workers.
THEOREM TypeCorrect == ASSUME PlanAssumption PROVE Spec => []TypeOK
<1> QED BY InitInv, NextInv, TypeOfInv, PTL DEF Spec

\* restartTaskPlan.ts: a plan shown as SYNCED is what Nitrado has, unless somebody changed
\* tasks there, for any times, zones, services, saves and failures, lost locks among them.
THEOREM SyncedMatchesHolds == ASSUME PlanAssumption PROVE Spec => []SyncedMatches
<1>1. Inv => SyncedMatches BY DEF Inv
<1> QED BY <1>1, InitInv, NextInv, PTL DEF Spec

-----------------------------------------------------------------------------
(* KeepOnline                                                              *)

\* TypeOK, with job and execution as records.
KeepTypes ==
    /\ enabled \in BOOLEAN /\ server \in {"started", "stopped", "suspended"}
    /\ job \in [status: {"NONE", "PENDING", "RUNNING", "DONE", "DEAD"}, attempts: 0..MaxAttempts,
                cancelled: BOOLEAN, recent: BOOLEAN]
    /\ seen \in [Crons -> BOOLEAN]
    /\ check \in [at: {"idle", "status", "recheck", "start", "done"}, enabled: BOOLEAN]
    /\ switches \in 0..MaxSwitches /\ stops \in 0..MaxStops /\ faults \in 0..MaxFaults

\* The switch cannot be turned under an execution, which has read it before it starts
\* the server; and an open job has attempts left.
KeepInv ==
    /\ KeepTypes
    /\ check.at # "idle" => job.status = "RUNNING"
    /\ job.status \in {"PENDING", "RUNNING"} => job.attempts < MaxAttempts
    /\ check.at = "start" => enabled

\* The invariant holds at the start.
LEMMA KeepInitInv == ASSUME Keep!KeepAssumption PROVE Keep!Init => KeepInv
<1> SUFFICES ASSUME Keep!Init PROVE KeepInv OBVIOUS
<1>1. /\ 0 \in 0..MaxAttempts /\ 0 \in 0..MaxSwitches /\ 0 \in 0..MaxStops /\ 0 \in 0..MaxFaults
  BY DEF Keep!KeepAssumption
<1>2. KeepTypes BY <1>1 DEF Keep!Init, Keep!Resting, KeepTypes
<1>3. check.at = "idle" /\ job.status = "NONE" BY DEF Keep!Init, Keep!Resting
<1> QED BY <1>2, <1>3 DEF KeepInv

\* Faults are counted.
LEMMA KeepFault ==
    ASSUME KeepInv, Keep!KeepAssumption, Keep!Fault
    PROVE  faults' \in 0..MaxFaults /\ UNCHANGED <<switches, stops>>
BY DEF KeepInv, KeepTypes, Keep!KeepAssumption, Keep!Fault

\* The dashboard turns the switch while nothing is executed.
LEMMA SwitchStep == ASSUME KeepInv, Keep!KeepAssumption, Keep!Switch PROVE KeepInv'
<1>1. check.at = "idle" /\ check' = check BY DEF Keep!Switch, Keep!Resting
<1>2. switches' \in 0..MaxSwitches BY DEF Keep!Switch, KeepInv, KeepTypes, Keep!KeepAssumption
<1>3. /\ job' \in [status: {"NONE", "PENDING", "RUNNING", "DONE", "DEAD"}, attempts: 0..MaxAttempts,
                   cancelled: BOOLEAN, recent: BOOLEAN]
      /\ job'.attempts = job.attempts /\ job'.status \in {job.status, "DEAD"}
  BY DEF Keep!Switch, KeepInv, KeepTypes
<1>4. enabled' \in BOOLEAN /\ UNCHANGED <<server, seen, stops, faults>> BY DEF Keep!Switch, KeepInv, KeepTypes
<1> QED BY <1>1, <1>2, <1>3, <1>4 DEF KeepInv, KeepTypes

\* The polls enqueue a job when none is open.
LEMMA PollStep == ASSUME KeepInv, Keep!KeepAssumption, NEW c \in Crons, Keep!Poll(c) PROVE KeepInv'
<1>1. CASE Keep!PollRead(c) BY <1>1 DEF Keep!PollRead, Keep!counts, KeepInv, KeepTypes
<1>2. CASE Keep!EnqueueIfMissing(c)
  <2>1. seen' \in [Crons -> BOOLEAN] /\ UNCHANGED <<enabled, server, check, switches, stops, faults>>
    BY <1>2 DEF Keep!EnqueueIfMissing, Keep!counts, KeepInv, KeepTypes
  <2>2. CASE job' = job BY <2>1, <2>2 DEF KeepInv, KeepTypes
  <2>3. CASE ~Keep!Blocked /\ job' = [status |-> "PENDING", attempts |-> 0, cancelled |-> FALSE, recent |-> FALSE]
    <3>1. check.at = "idle" BY <2>3 DEF Keep!Blocked, Keep!Open, KeepInv
    <3> QED BY <2>1, <2>3, <3>1 DEF KeepInv, KeepTypes, Keep!KeepAssumption
  <2> QED BY <1>2, <2>2, <2>3 DEF Keep!EnqueueIfMissing
<1> QED BY <1>1, <1>2 DEF Keep!Poll

\* The worker looks at the switch once more, with the lock, before it starts the server.
LEMMA WorkStep == ASSUME KeepInv, Keep!KeepAssumption, Keep!Work PROVE KeepInv'
<1>1. CASE Keep!Take BY <1>1 DEF Keep!Take, Keep!counts, KeepInv, KeepTypes
<1>2. CASE Keep!Status BY <1>2 DEF Keep!Status, Keep!Goto, Keep!counts, KeepInv, KeepTypes
<1>3. CASE Keep!Recheck BY <1>3 DEF Keep!Recheck, Keep!Goto, Keep!counts, KeepInv, KeepTypes
<1>4. CASE Keep!Start BY <1>4 DEF Keep!Start, Keep!Started, Keep!counts, KeepInv, KeepTypes
<1>5. CASE Keep!Done BY <1>5 DEF Keep!Done, Keep!Resting, Keep!counts, KeepInv, KeepTypes
<1> QED BY <1>1, <1>2, <1>3, <1>4, <1>5 DEF Keep!Work

\* A call fails, and the job with it when its attempts are used up.
LEMMA KeepFailsStep == ASSUME KeepInv, Keep!KeepAssumption, Keep!Fails PROVE KeepInv'
<1> DEFINE n == job.attempts + 1
<1>1. n \in 0..MaxAttempts BY DEF Keep!Fails, KeepInv, KeepTypes, Keep!KeepAssumption
<1>2. /\ job' = IF n < MaxAttempts THEN [job EXCEPT !.status = "PENDING", !.attempts = n]
                ELSE [job EXCEPT !.status = "DEAD", !.attempts = n, !.recent = TRUE]
      /\ check' = Keep!Resting /\ UNCHANGED <<enabled, seen>>
  BY DEF Keep!Fails
<1>3. server' \in {"started", "stopped", "suspended"}
  BY DEF Keep!Fails, Keep!Started, KeepInv, KeepTypes
<1>4. faults' \in 0..MaxFaults /\ UNCHANGED <<switches, stops>> BY KeepFault DEF Keep!Fails
<1> HIDE DEF n
<1>5. /\ job' \in [status: {"NONE", "PENDING", "RUNNING", "DONE", "DEAD"}, attempts: 0..MaxAttempts,
                   cancelled: BOOLEAN, recent: BOOLEAN]
      /\ job'.status \in {"PENDING", "RUNNING"} => job'.attempts < MaxAttempts
  BY <1>1, <1>2 DEF KeepInv, KeepTypes
<1> QED BY <1>2, <1>3, <1>4, <1>5 DEF KeepInv, KeepTypes, Keep!Resting

\* The invariant holds after every step.
LEMMA KeepNextInv == ASSUME Keep!KeepAssumption PROVE KeepInv /\ [Keep!Next]_(Keep!vars) => KeepInv'
<1> SUFFICES ASSUME KeepInv, [Keep!Next]_(Keep!vars) PROVE KeepInv' OBVIOUS
<1>1. CASE Keep!Switch BY <1>1, SwitchStep
<1>2. ASSUME NEW to \in {"started", "stopped", "suspended"}, Keep!ServerTurns(to) PROVE KeepInv'
  BY <1>2 DEF Keep!ServerTurns, KeepInv, KeepTypes, Keep!KeepAssumption
<1>3. ASSUME NEW c \in Crons, Keep!Poll(c) PROVE KeepInv' BY <1>3, PollStep
<1>4. CASE Keep!Cooldown BY <1>4 DEF Keep!Cooldown, Keep!counts, KeepInv, KeepTypes
<1>5. CASE Keep!Work BY <1>5, WorkStep
<1>6. CASE Keep!Fails BY <1>6, KeepFailsStep
<1>7. CASE Keep!Crash BY <1>7, KeepFault DEF Keep!Crash, Keep!Resting, KeepInv, KeepTypes
<1>8. CASE Keep!Recover BY <1>8 DEF Keep!Recover, Keep!Resting, Keep!counts, KeepInv, KeepTypes
<1>9. CASE UNCHANGED Keep!vars BY <1>9 DEF Keep!vars, KeepInv, KeepTypes
<1> QED BY <1>1, <1>2, <1>3, <1>4, <1>5, <1>6, <1>7, <1>8, <1>9 DEF Keep!Next

\* keepOnlineJobs.ts: every variable keeps its type; no job gets more attempts than allowed.
THEOREM KeepTypeCorrect == ASSUME Keep!KeepAssumption PROVE Keep!Spec => []Keep!TypeOK
<1>1. KeepInv => Keep!TypeOK BY DEF KeepInv, KeepTypes, Keep!TypeOK
<1> QED BY <1>1, KeepInitInv, KeepNextInv, PTL DEF Keep!Spec

\* keepOnlineJobs.ts: once the switch is off, the bot starts no server, for any number of
\* polls, switches, stops and failures, also where the answer of a start is lost.
THEOREM OffMeansOffHolds == ASSUME Keep!KeepAssumption PROVE Keep!Spec => Keep!OffMeansOff
<1>1. KeepInv /\ [Keep!Next]_(Keep!vars) => [check.at = "start" /\ server' # server => enabled]_(Keep!vars)
  BY DEF KeepInv
<1> QED BY <1>1, KeepInitInv, KeepNextInv, PTL DEF Keep!Spec, Keep!OffMeansOff

-----------------------------------------------------------------------------
(* MirrorSnapshot: types and what a run relies on                          *)

Places == {"idle", "acquire", "fresh", "walk", "finalize", "commit", "release", "ended"}
States == Mirror!Outcomes \union {"RUNNING"}
RunRecords ==
    [at: Places, bound: Mirror!Bindings \union {None}, snap: {0} \union Mirror!Ids, outcome: Mirror!Outcomes]

\* The requests that became a run; each took one snapshot.
Started == {r \in Mirror!Runs : run[r].snap # 0}

\* What a run may rely on where it stands, with or without the lease.
RunSound(r) ==
    /\ run[r].at \in {"idle", "acquire"} => run[r].snap = 0
    /\ Mirror!At(r, "acquire") => run[r].bound \in Mirror!Bindings
    /\ run[r].at \in {"fresh", "walk", "finalize", "commit", "release"} => run[r].snap # 0
    /\ Mirror!At(r, "commit") => snapshots[run[r].snap] \in {"OK", "PARTIAL"}
    /\ Mirror!At(r, "release") => snapshots[run[r].snap] # "RUNNING"

\* The lease is of the newest snapshot, and only that one may be running.
LeaseOfNewest ==
    /\ lease # None => lease.snap = Len(snapshots)
    /\ \A n \in Mirror!Ids : snapshots[n] = "RUNNING" => lease # None /\ lease.snap = n

\* TypeOK, but for the number of snapshots, which Counted gives; a version is a change spent.
MirrorTypes ==
    /\ binding \in Mirror!Bindings
    /\ snapshots \in Seq(States)
    /\ lease = None \/ lease \in [snap: Mirror!Ids, key: Mirror!Bindings, live: BOOLEAN]
    /\ run \in [Mirror!Runs -> RunRecords]
    /\ knowledge = None \/ knowledge \in [snap: Mirror!Ids, of: Mirror!Bindings]
    /\ spent \in [moves: 0..MaxMoves, tokens: 0..MaxTokens, faults: 0..MaxFaults]
    /\ spent.moves = binding.version /\ spent.tokens = binding.token

Counted == Cardinality(Started) = Len(snapshots)

MirrorInv ==
    /\ MirrorTypes /\ Counted /\ LeaseOfNewest
    /\ \A r \in Mirror!Runs : RunSound(r)
    /\ Mirror!KnowledgeOfBinding /\ Mirror!OnlyFinished

-----------------------------------------------------------------------------
\* The invariant holds at the start.
LEMMA MirrorInitInv == ASSUME Mirror!MirrorAssumption PROVE Mirror!Init => MirrorInv
<1> SUFFICES ASSUME Mirror!Init PROVE MirrorInv OBVIOUS
<1> USE DEF Mirror!Init, Mirror!Idle, Mirror!Runs
<1>1. MirrorTypes
  BY DEF RunRecords, Mirror!MirrorAssumption, MirrorTypes, Mirror!Bindings, States, Mirror!Outcomes, Places, Mirror!Ids
<1>2. Started = {} BY DEF Started
<1>3. Counted BY <1>2, FS_EmptySet DEF Counted
<1>4. LeaseOfNewest BY DEF LeaseOfNewest, Mirror!Ids
<1>5. \A r \in Mirror!Runs : RunSound(r) BY DEF RunSound, Mirror!At
<1>6. Mirror!KnowledgeOfBinding /\ Mirror!OnlyFinished BY DEF Mirror!KnowledgeOfBinding, Mirror!OnlyFinished
<1> QED BY <1>1, <1>3, <1>4, <1>5, <1>6 DEF MirrorInv

\* A request is such a record.
LEMMA RunTyped == ASSUME MirrorInv, NEW r \in Mirror!Runs PROVE run[r] \in RunRecords
BY DEF MirrorInv, MirrorTypes

\* A step that leaves snapshots, lease and knowledge alone, the runs' snapshots with them.
LEMMA RunsMove ==
    ASSUME MirrorInv, MirrorTypes', UNCHANGED <<snapshots, lease, knowledge>>,
           binding'.service = binding.service, binding'.version = binding.version,
           \A q \in Mirror!Runs : run'[q].snap = run[q].snap /\ RunSound(q)'
    PROVE  MirrorInv'
<1>1. Started' = Started BY DEF Started
<1>2. Counted' BY <1>1 DEF MirrorInv, Counted
<1>3. LeaseOfNewest' BY DEF MirrorInv, LeaseOfNewest, Mirror!Ids
<1>4. Mirror!KnowledgeOfBinding' /\ Mirror!OnlyFinished'
  BY DEF MirrorInv, Mirror!KnowledgeOfBinding, Mirror!OnlyFinished
<1> QED BY <1>2, <1>3, <1>4 DEF MirrorInv

\* The same of a step of one run, which stays with its snapshot.
LEMMA RunMoves ==
    ASSUME MirrorInv, NEW r \in Mirror!Runs, UNCHANGED <<binding, snapshots, lease, knowledge>>,
           spent' \in [moves: 0..MaxMoves, tokens: 0..MaxTokens, faults: 0..MaxFaults],
           spent'.moves = spent.moves, spent'.tokens = spent.tokens,
           NEW to \in RunRecords,
           run' = [run EXCEPT ![r] = to], to.snap = run[r].snap, RunSound(r)'
    PROVE  MirrorInv'
<1>1. MirrorTypes' BY DEF RunRecords, MirrorInv, MirrorTypes, Mirror!Ids
<1>2. ASSUME NEW q \in Mirror!Runs PROVE run'[q].snap = run[q].snap /\ RunSound(q)'
  <2>1. CASE q = r BY <2>1 DEF MirrorInv, MirrorTypes
  <2>2. CASE q # r
    <3>1. run'[q] = run[q] BY <2>2 DEF MirrorInv, MirrorTypes
    <3> QED BY <3>1 DEF MirrorInv, RunSound, Mirror!At
  <2> QED BY <2>1, <2>2
<1> QED BY <1>1, <1>2, RunsMove

-----------------------------------------------------------------------------
\* What acquiring the lease makes of the snapshots.
LEMMA Acquired ==
    ASSUME MirrorInv, Mirror!MirrorAssumption, snapshots' = Append(Mirror!Replaced, "RUNNING")
    PROVE  /\ snapshots' \in Seq(States) /\ Len(snapshots') = Len(snapshots) + 1 /\ Len(snapshots) \in Nat
           /\ snapshots'[Len(snapshots) + 1] = "RUNNING"
           /\ \A n \in Mirror!Ids : /\ snapshots'[n] # "RUNNING"
                                    /\ snapshots[n] # "RUNNING" => snapshots'[n] = snapshots[n]
<1>1. Len(snapshots) \in Nat /\ snapshots \in [Mirror!Ids -> States]
  BY LenProperties DEF MirrorInv, MirrorTypes, Mirror!Ids
<1>2. Mirror!Replaced \in [1..Len(snapshots) -> States]
  BY <1>1 DEF Mirror!Replaced, Mirror!Ids, States, Mirror!Outcomes
<1>3. Mirror!Replaced \in Seq(States) BY <1>1, <1>2, SeqDef
<1>4. Len(Mirror!Replaced) = Len(snapshots) BY <1>1, <1>2, <1>3, LenProperties DEF Mirror!Ids
<1>5. \A n \in Mirror!Ids : /\ Mirror!Replaced[n] # "RUNNING"
                            /\ snapshots[n] # "RUNNING" => Mirror!Replaced[n] = snapshots[n]
  BY <1>1 DEF MirrorInv, LeaseOfNewest, Mirror!Replaced
<1>6. "RUNNING" \in States BY DEF States
<1> HIDE DEF Mirror!Replaced
<1> QED BY <1>1, <1>3, <1>4, <1>5, <1>6, AppendProperties DEF Mirror!Ids

-----------------------------------------------------------------------------
(* One lemma per action *)

\* The dashboard moves to another service, and drops the knowledge of the old one.
LEMMA MirrorRebindStep ==
    ASSUME MirrorInv, Mirror!MirrorAssumption, NEW s \in Services \union {None}, Mirror!Rebind(s)
    PROVE  MirrorInv'
<1> USE DEF Mirror!Rebind
<1>1. MirrorTypes'
  <2>1. spent.moves < MaxMoves /\ spent' = [spent EXCEPT !.moves = @ + 1] BY DEF Mirror!Spend
  <2>2. /\ spent.moves \in 0..MaxMoves /\ spent.moves + 1 \in 0..MaxMoves
    BY <2>1 DEF MirrorInv, MirrorTypes, Mirror!MirrorAssumption
  <2>3. /\ spent' \in [moves: 0..MaxMoves, tokens: 0..MaxTokens, faults: 0..MaxFaults]
        /\ spent'.moves = binding'.version /\ spent'.tokens = binding'.token
    BY <2>1, <2>2 DEF MirrorInv, MirrorTypes, Mirror!Bindings
  <2>4. binding' \in Mirror!Bindings BY <2>2 DEF MirrorInv, MirrorTypes, Mirror!Bindings
  <2> QED BY <2>3, <2>4 DEF RunRecords, MirrorInv, MirrorTypes, Mirror!Ids
<1>2. Counted' BY DEF MirrorInv, Counted, Started
<1>3. LeaseOfNewest' /\ \A r \in Mirror!Runs : RunSound(r)'
  BY DEF MirrorInv, LeaseOfNewest, RunSound, Mirror!Ids, Mirror!At
<1>4. Mirror!KnowledgeOfBinding' /\ Mirror!OnlyFinished' BY DEF Mirror!KnowledgeOfBinding, Mirror!OnlyFinished
<1> QED BY <1>1, <1>2, <1>3, <1>4 DEF MirrorInv

\* A new token, which the fence notices, but not what was known.
LEMMA NewTokenStep == ASSUME MirrorInv, Mirror!MirrorAssumption, Mirror!NewToken PROVE MirrorInv'
<1> USE DEF Mirror!NewToken
<1>1. MirrorTypes'
  <2>1. spent.tokens < MaxTokens /\ spent' = [spent EXCEPT !.tokens = @ + 1] BY DEF Mirror!Spend
  <2>2. spent.tokens \in 0..MaxTokens /\ spent.tokens + 1 \in 0..MaxTokens
    BY <2>1 DEF MirrorInv, MirrorTypes, Mirror!MirrorAssumption
  <2>3. /\ spent' \in [moves: 0..MaxMoves, tokens: 0..MaxTokens, faults: 0..MaxFaults]
        /\ spent'.moves = binding'.version /\ spent'.tokens = binding'.token
    BY <2>1, <2>2 DEF MirrorInv, MirrorTypes, Mirror!Bindings
  <2>4. binding' \in Mirror!Bindings BY <2>2 DEF MirrorInv, MirrorTypes, Mirror!Bindings
  <2> QED BY <2>3, <2>4 DEF RunRecords, MirrorInv, MirrorTypes, Mirror!Ids
<1>2. binding'.service = binding.service /\ binding'.version = binding.version
  BY DEF MirrorInv, MirrorTypes, Mirror!Bindings
<1>3. \A q \in Mirror!Runs : run'[q].snap = run[q].snap /\ RunSound(q)' BY DEF MirrorInv, RunSound, Mirror!At
<1> QED BY <1>1, <1>2, <1>3, RunsMove

\* A request reads the binding.
LEMMA ReadBindingStep == ASSUME MirrorInv, NEW r \in Mirror!Runs, Mirror!ReadBinding(r) PROVE MirrorInv'
<1> DEFINE to == [run[r] EXCEPT !.bound = binding, !.at = IF binding.service = None THEN "ended" ELSE "acquire"]
<1>1. to \in RunRecords
  <2>1. /\ run[r] \in RunRecords
        /\ binding \in Mirror!Bindings \union {None}
    BY DEF MirrorInv, MirrorTypes
  <2>2. (IF binding.service = None THEN "ended" ELSE "acquire") \in Places BY DEF Places
  <2> QED BY <2>1, <2>2 DEF RunRecords
<1>2. to.snap = run[r].snap /\ run' = [run EXCEPT ![r] = to]
  BY DEF RunRecords, Mirror!ReadBinding, MirrorInv, MirrorTypes
<1>3. RunSound(r)' BY <1>2 DEF Mirror!ReadBinding, RunSound, Mirror!At, MirrorInv, MirrorTypes
<1> HIDE DEF to
<1> QED BY <1>1, <1>2, <1>3, RunMoves DEF Mirror!ReadBinding, MirrorInv, MirrorTypes

\* A request joins the run of its binding, or starts one in the place of another.
LEMMA AcquireStep ==
    ASSUME MirrorInv, Mirror!MirrorAssumption, NEW r \in Mirror!Runs, Mirror!Acquire(r)
    PROVE  MirrorInv'
<1>1. CASE Mirror!Joins(r) /\ Mirror!Goto(r, "ended") /\ UNCHANGED <<snapshots, lease>>
  <2> DEFINE to == [run[r] EXCEPT !.at = "ended"]
  <2>1. to \in RunRecords BY RunTyped DEF RunRecords, Places
  <2>2. to.snap = run[r].snap /\ run' = [run EXCEPT ![r] = to] BY <1>1 DEF Mirror!Goto, MirrorInv, MirrorTypes
  <2>3. RunSound(r)' BY <1>1 DEF Mirror!Goto, RunSound, Mirror!At, MirrorInv, MirrorTypes
  <2> HIDE DEF to
  <2> QED BY <1>1, <2>1, <2>2, <2>3, RunMoves DEF Mirror!Acquire, MirrorInv, MirrorTypes
<1>2. CASE ~Mirror!Joins(r) /\ snapshots' = Append(Mirror!Replaced, "RUNNING")
  <2> DEFINE L == Len(snapshots)
             to == [run[r] EXCEPT !.at = "fresh", !.snap = L + 1]
  <2>1. /\ snapshots' \in Seq(States) /\ Len(snapshots') = L + 1 /\ L \in Nat
        /\ snapshots'[L + 1] = "RUNNING"
        /\ \A n \in Mirror!Ids : /\ snapshots'[n] # "RUNNING"
                                 /\ snapshots[n] # "RUNNING" => snapshots'[n] = snapshots[n]
    BY <1>2, Acquired
  <2>2. /\ Mirror!At(r, "acquire") /\ run' = [run EXCEPT ![r] = to]
        /\ lease' = [snap |-> L + 1, key |-> run[r].bound, live |-> TRUE]
        /\ UNCHANGED <<binding, knowledge, spent>>
    BY <1>2 DEF Mirror!Acquire, Mirror!Joins
  <2>3. run[r].snap = 0 BY <2>2 DEF MirrorInv, RunSound, Mirror!At
  <2> HIDE DEF L
  <2>4. Mirror!Ids' = Mirror!Ids \union {L + 1} /\ L + 1 \notin Mirror!Ids /\ L + 1 # 0
    BY <2>1 DEF Mirror!Ids, L
  <2>5. MirrorTypes'
    <3>1. run[r] \in RunRecords
      BY DEF MirrorInv, MirrorTypes
    <3>2. "fresh" \in Places BY DEF Places
    <3>3. to \in RunRecords'
      BY <2>4, <3>1, <3>2 DEF RunRecords
    <3>4. run' \in [Mirror!Runs -> RunRecords']
      BY <2>2, <2>4, <3>3 DEF RunRecords, MirrorInv, MirrorTypes
    <3>5. lease' \in [snap: Mirror!Ids', key: Mirror!Bindings, live: BOOLEAN]
      BY <2>2, <2>4 DEF MirrorInv, RunSound
    <3>6. knowledge' = None \/ knowledge' \in [snap: Mirror!Ids', of: Mirror!Bindings]
      BY <2>2, <2>4 DEF MirrorInv, MirrorTypes
    <3> QED BY <2>1, <2>2, <3>4, <3>5, <3>6 DEF MirrorInv, MirrorTypes
  <2>6. Counted'
    <3>1. Started' = Started \union {r} BY <2>2, <2>3, <2>4 DEF Started, MirrorInv, MirrorTypes
    <3>2. r \notin Started BY <2>3 DEF Started
    <3>3. IsFiniteSet(Mirror!Runs) BY FS_Interval DEF Mirror!Runs, Mirror!MirrorAssumption
    <3>4. IsFiniteSet(Started) BY <3>3, FS_Subset DEF Started
    <3> QED BY <2>1, <3>1, <3>2, <3>4, FS_AddElement DEF MirrorInv, Counted, L
  <2>7. LeaseOfNewest'
    <3>1. lease' # None
      <4>1. lease' \in [snap: Nat, key: Mirror!Bindings, live: BOOLEAN] BY <2>1, <2>2 DEF MirrorInv, RunSound
      <4> QED BY <4>1 DEF Mirror!MirrorAssumption
    <3> QED BY <2>1, <2>2, <2>4, <3>1 DEF LeaseOfNewest
  <2>8. ASSUME NEW q \in Mirror!Runs PROVE RunSound(q)'
    <3>1. CASE q = r BY <2>2, <2>4, <3>1 DEF RunSound, Mirror!At, MirrorInv, MirrorTypes
    <3>2. CASE q # r
      <4>1. run'[q] = run[q] /\ run[q].snap \in {0} \union Mirror!Ids
        BY <2>2, <3>2 DEF RunRecords, MirrorInv, MirrorTypes
      <4> QED BY <2>1, <4>1 DEF MirrorInv, RunSound, Mirror!At
    <3> QED BY <3>1, <3>2
  <2>9. Mirror!KnowledgeOfBinding' /\ Mirror!OnlyFinished'
    BY <2>1, <2>2 DEF Mirror!KnowledgeOfBinding, Mirror!OnlyFinished, MirrorInv, MirrorTypes
  <2> QED BY <2>5, <2>6, <2>7, <2>8, <2>9 DEF MirrorInv
<1> QED BY <1>1, <1>2 DEF Mirror!Acquire

\* The run compares the binding once more before it starts.
LEMMA FreshCheckStep == ASSUME MirrorInv, NEW r \in Mirror!Runs, Mirror!FreshCheck(r) PROVE MirrorInv'
<1> DEFINE to == [run[r] EXCEPT !.at = IF binding = run[r].bound THEN "walk" ELSE "finalize"]
<1>1. to \in RunRecords
  <2>1. run[r] \in RunRecords BY DEF MirrorInv, MirrorTypes
  <2>2. (IF binding = run[r].bound THEN "walk" ELSE "finalize") \in Places BY DEF Places
  <2> QED BY <2>1, <2>2 DEF RunRecords
<1>2. to.snap = run[r].snap /\ run' = [run EXCEPT ![r] = to]
  BY DEF Mirror!FreshCheck, Mirror!Goto, MirrorInv, MirrorTypes
<1>3. RunSound(r)' BY DEF Mirror!FreshCheck, Mirror!Goto, RunSound, Mirror!At, MirrorInv, MirrorTypes
<1> HIDE DEF to
<1> QED BY <1>1, <1>2, <1>3, RunMoves DEF Mirror!FreshCheck, MirrorInv, MirrorTypes

\* It walks over the files.
LEMMA WalkStep == ASSUME MirrorInv, NEW r \in Mirror!Runs, Mirror!Walk(r) PROVE MirrorInv'
<1>1. PICK outcome \in Mirror!Outcomes : run' = [run EXCEPT ![r].at = "finalize", ![r].outcome = outcome]
  BY DEF Mirror!Walk, Mirror!Outcomes
<1> DEFINE to == [run[r] EXCEPT !.at = "finalize", !.outcome = outcome]
<1>2. to \in RunRecords BY RunTyped DEF RunRecords, Places
<1>3. to.snap = run[r].snap /\ run' = [run EXCEPT ![r] = to] BY <1>1 DEF RunRecords, MirrorInv, MirrorTypes
<1>4. RunSound(r)' BY <1>1 DEF Mirror!Walk, RunSound, Mirror!At, MirrorInv, MirrorTypes
<1> HIDE DEF to
<1> QED BY <1>2, <1>3, <1>4, RunMoves DEF Mirror!Walk, MirrorInv, MirrorTypes

\* It ends its snapshot if it still has the lease; only a snapshot that is running changes.
LEMMA FinalizeStep == ASSUME MirrorInv, NEW r \in Mirror!Runs, Mirror!Finalize(r) PROVE MirrorInv'
<1> DEFINE n == run[r].snap
           can == Mirror!Holds(r) /\ snapshots[n] = "RUNNING"
           next == IF ~can THEN "ended" ELSE IF run[r].outcome = "FAILED" THEN "release" ELSE "commit"
           to == [run[r] EXCEPT !.at = next]
<1>1. /\ Mirror!At(r, "finalize") /\ UNCHANGED <<binding, lease, knowledge, spent>>
      /\ snapshots' = IF can THEN [snapshots EXCEPT ![n] = run[r].outcome] ELSE snapshots
      /\ run' = [run EXCEPT ![r].at = next]
  BY DEF Mirror!Finalize, Mirror!Goto
<1>2. /\ run[r] \in RunRecords
      /\ n \in Mirror!Ids /\ run[r].outcome \in Mirror!Outcomes
  BY <1>1 DEF RunRecords, MirrorInv, MirrorTypes, RunSound, Mirror!At
<1>3. /\ snapshots' \in Seq(States) /\ Len(snapshots') = Len(snapshots) /\ Mirror!Ids' = Mirror!Ids
      /\ \A m \in Mirror!Ids : snapshots'[m] = IF can /\ m = n THEN run[r].outcome ELSE snapshots[m]
  <2>1. run[r].outcome \in States BY <1>2 DEF States
  <2>2. CASE can
    <3>1. snapshots' = [snapshots EXCEPT ![n] = run[r].outcome] BY <1>1, <2>2
    <3> HIDE DEF can, n, next, to
    <3> QED BY <1>2, <2>1, <2>2, <3>1, ExceptSeq DEF MirrorInv, MirrorTypes, Mirror!Ids
  <2>3. CASE ~can BY <1>1, <2>3 DEF MirrorInv, MirrorTypes, Mirror!Ids
  <2> QED BY <2>2, <2>3
<1>4. run' = [run EXCEPT ![r] = to] /\ to.snap = n /\ to.bound = run[r].bound /\ to.at = next
  BY <1>1, <1>2 DEF MirrorInv, MirrorTypes
<1>5. MirrorTypes'
  <2>1. next \in Places BY DEF Places
  <2> HIDE DEF next
  <2>2. to \in RunRecords
    BY <1>2, <2>1 DEF RunRecords
  <2> HIDE DEF to
  <2> QED BY <1>1, <1>3, <1>4, <2>2 DEF RunRecords, MirrorInv, MirrorTypes
<1>6. \A q \in Mirror!Runs : run'[q].snap = run[q].snap
  <2> HIDE DEF to
  <2> QED BY <1>4 DEF MirrorInv, MirrorTypes
<1>7. Counted'
  <2>1. Started' = Started BY <1>6 DEF Started
  <2> QED BY <1>3, <2>1 DEF MirrorInv, Counted
<1>8. can => run[r].outcome # "RUNNING" BY <1>2 DEF Mirror!Outcomes
<1> HIDE DEF can
<1>9. LeaseOfNewest'
  <2>1. \A m \in Mirror!Ids : snapshots'[m] = "RUNNING" => snapshots[m] = "RUNNING" BY <1>3, <1>8
  <2> QED BY <1>1, <1>3, <2>1 DEF MirrorInv, LeaseOfNewest
<1>10. ASSUME NEW q \in Mirror!Runs PROVE RunSound(q)'
  <2>1. CASE q = r
    <3>1. run'[r].at = next /\ run'[r].snap = n
      <4> HIDE DEF to, next
      <4> QED BY <1>4 DEF MirrorInv, MirrorTypes
    <3>2. next = "commit" => can /\ run[r].outcome \in {"OK", "PARTIAL"} BY <1>2 DEF Mirror!Outcomes
    <3>3. next = "release" => can BY DEF Mirror!Outcomes
    <3>4. next \in {"ended", "release", "commit"} OBVIOUS
    <3> HIDE DEF next
    <3> QED BY <1>2, <1>3, <1>8, <2>1, <3>1, <3>2, <3>3, <3>4 DEF RunSound, Mirror!At, Mirror!Ids
  <2>2. CASE q # r
    <3>1. run'[q] = run[q] /\ run[q].snap \in {0} \union Mirror!Ids
      <4> HIDE DEF to
      <4> QED BY <1>4, <2>2 DEF RunRecords, MirrorInv, MirrorTypes
    <3>2. \A m \in Mirror!Ids : snapshots[m] # "RUNNING" => snapshots'[m] = snapshots[m]
      BY <1>3 DEF can
    <3> QED BY <3>1, <3>2 DEF MirrorInv, RunSound, Mirror!At
  <2> QED BY <2>1, <2>2
<1>11. Mirror!KnowledgeOfBinding' /\ Mirror!OnlyFinished'
  <2>1. \A m \in Mirror!Ids : snapshots[m] # "RUNNING" => snapshots'[m] = snapshots[m] BY <1>3 DEF can
  <2> QED BY <1>1, <2>1 DEF Mirror!KnowledgeOfBinding, Mirror!OnlyFinished, MirrorInv, MirrorTypes
<1> QED BY <1>5, <1>7, <1>9, <1>10, <1>11 DEF MirrorInv

\* It replaces the knowledge, if neither the binding nor the lease is another's.
LEMMA CommitStep == ASSUME MirrorInv, NEW r \in Mirror!Runs, Mirror!Commit(r) PROVE MirrorInv'
<1>1. /\ Mirror!At(r, "commit") /\ run' = [run EXCEPT ![r].at = "release"]
      /\ UNCHANGED <<binding, snapshots, lease, spent>>
      /\ knowledge' = IF Mirror!MayCommit(r) THEN [snap |-> run[r].snap, of |-> run[r].bound] ELSE knowledge
  BY DEF Mirror!Commit, Mirror!Goto
<1>2. /\ run[r] \in RunRecords
      /\ run[r].snap \in Mirror!Ids /\ snapshots[run[r].snap] \in {"OK", "PARTIAL"}
  BY <1>1 DEF RunRecords, MirrorInv, MirrorTypes, RunSound, Mirror!At
<1>3. MirrorTypes'
  <2>1. run' \in [Mirror!Runs -> RunRecords]
    BY <1>1 DEF RunRecords, MirrorInv, MirrorTypes, Places
  <2>2. knowledge' = None \/ knowledge' \in [snap: Mirror!Ids, of: Mirror!Bindings]
    BY <1>1, <1>2 DEF MirrorInv, MirrorTypes, Mirror!MayCommit
  <2> QED BY <1>1, <2>1, <2>2 DEF RunRecords, MirrorInv, MirrorTypes, Mirror!Ids
<1>4. Counted'
  <2>1. Started' = Started BY <1>1 DEF Started, MirrorInv, MirrorTypes
  <2> QED BY <1>1, <2>1 DEF MirrorInv, Counted
<1>5. LeaseOfNewest' BY <1>1 DEF MirrorInv, LeaseOfNewest, Mirror!Ids
<1>6. ASSUME NEW q \in Mirror!Runs PROVE RunSound(q)'
  <2>1. CASE q = r BY <1>1, <1>2, <2>1 DEF MirrorInv, MirrorTypes, RunSound, Mirror!At, Mirror!Ids
  <2>2. CASE q # r
    <3>1. run'[q] = run[q] BY <1>1, <2>2 DEF MirrorInv, MirrorTypes
    <3> QED BY <1>1, <3>1 DEF MirrorInv, RunSound, Mirror!At
  <2> QED BY <2>1, <2>2
<1>7. Mirror!KnowledgeOfBinding' BY <1>1 DEF MirrorInv, Mirror!KnowledgeOfBinding, Mirror!MayCommit
<1>8. Mirror!OnlyFinished' BY <1>1, <1>2 DEF MirrorInv, Mirror!OnlyFinished
<1> QED BY <1>3, <1>4, <1>5, <1>6, <1>7, <1>8 DEF MirrorInv

\* It gives the lease back; its snapshot, the only one that could be running, is not.
LEMMA ReleaseStep == ASSUME MirrorInv, NEW r \in Mirror!Runs, Mirror!Release(r) PROVE MirrorInv'
<1>1. /\ Mirror!At(r, "release") /\ run' = [run EXCEPT ![r].at = "ended"]
      /\ lease' = IF Mirror!Mine(r) THEN None ELSE lease
      /\ UNCHANGED <<binding, snapshots, knowledge, spent>>
  BY DEF Mirror!Release, Mirror!Goto
<1>2. MirrorTypes'
  <2>1. run' \in [Mirror!Runs -> RunRecords]
    <3>1. run[r] \in RunRecords /\ run \in [Mirror!Runs -> RunRecords] BY DEF MirrorInv, MirrorTypes
    <3>2. [run[r] EXCEPT !.at = "ended"] \in RunRecords BY <3>1 DEF RunRecords, Places
    <3> QED BY <1>1, <3>1, <3>2
  <2>2. RunRecords' = RunRecords /\ Mirror!Ids' = Mirror!Ids BY <1>1 DEF RunRecords, Mirror!Ids
  <2>3. lease' = None \/ lease' \in [snap: Mirror!Ids', key: Mirror!Bindings, live: BOOLEAN]
    BY <1>1, <2>2 DEF MirrorInv, MirrorTypes
  <2> QED BY <1>1, <2>1, <2>2, <2>3 DEF MirrorInv, MirrorTypes
<1>3. Counted'
  <2>1. Started' = Started BY <1>1 DEF Started, MirrorInv, MirrorTypes
  <2> QED BY <1>1, <2>1 DEF MirrorInv, Counted
<1>4. LeaseOfNewest'
  <2>1. snapshots[run[r].snap] # "RUNNING" BY <1>1 DEF MirrorInv, RunSound
  <2> QED BY <1>1, <2>1 DEF MirrorInv, LeaseOfNewest, Mirror!Mine, Mirror!Ids
<1>5. \A q \in Mirror!Runs : RunSound(q)' BY <1>1 DEF MirrorInv, MirrorTypes, RunSound, Mirror!At
<1>6. Mirror!KnowledgeOfBinding' /\ Mirror!OnlyFinished'
  BY <1>1 DEF MirrorInv, Mirror!KnowledgeOfBinding, Mirror!OnlyFinished
<1> QED BY <1>2, <1>3, <1>4, <1>5, <1>6 DEF MirrorInv

\* Faults are counted.
LEMMA FaultSpent ==
    ASSUME MirrorInv, Mirror!MirrorAssumption, Mirror!Fault
    PROVE  /\ spent' \in [moves: 0..MaxMoves, tokens: 0..MaxTokens, faults: 0..MaxFaults]
           /\ spent'.moves = spent.moves /\ spent'.tokens = spent.tokens
<1>1. spent.faults < MaxFaults /\ spent' = [spent EXCEPT !.faults = @ + 1] BY DEF Mirror!Fault, Mirror!Spend
<1>2. spent.faults + 1 \in 0..MaxFaults BY <1>1 DEF MirrorInv, MirrorTypes, Mirror!MirrorAssumption
<1> QED BY <1>1, <1>2 DEF MirrorInv, MirrorTypes

\* The lease lapses; its row stays, and with it the claim that no other snapshot is running.
LEMMA ExpireStep == ASSUME MirrorInv, Mirror!MirrorAssumption, Mirror!Expire PROVE MirrorInv'
<1>1. /\ lease # None /\ lease' = [lease EXCEPT !.live = FALSE]
      /\ UNCHANGED <<binding, snapshots, run, knowledge>>
  BY DEF Mirror!Expire
<1>2. lease \in [snap: Mirror!Ids, key: Mirror!Bindings, live: BOOLEAN] BY <1>1 DEF MirrorInv, MirrorTypes
<1>3. lease' \in [snap: Mirror!Ids, key: Mirror!Bindings, live: BOOLEAN] /\ lease'.snap = lease.snap
  BY <1>1, <1>2
<1>4. lease' # None
  <2>1. Mirror!Ids \subseteq Nat BY DEF Mirror!Ids
  <2> QED BY <1>3, <2>1 DEF Mirror!MirrorAssumption
<1>5. MirrorTypes' BY <1>1, <1>3, FaultSpent DEF RunRecords, Mirror!Expire, MirrorInv, MirrorTypes, Mirror!Ids
<1>6. Counted' BY <1>1 DEF MirrorInv, Counted, Started
<1>7. LeaseOfNewest' BY <1>1, <1>3, <1>4 DEF MirrorInv, LeaseOfNewest, Mirror!Ids
<1>8. \A q \in Mirror!Runs : RunSound(q)' BY <1>1 DEF MirrorInv, RunSound, Mirror!At
<1>9. Mirror!KnowledgeOfBinding' /\ Mirror!OnlyFinished'
  BY <1>1 DEF MirrorInv, Mirror!KnowledgeOfBinding, Mirror!OnlyFinished
<1> QED BY <1>5, <1>6, <1>7, <1>8, <1>9 DEF MirrorInv

\* A step of a run fails.
LEMMA FailsStep ==
    ASSUME MirrorInv, Mirror!MirrorAssumption, NEW r \in Mirror!Runs, Mirror!Fails(r)
    PROVE  MirrorInv'
<1>1. PICK at \in {"ended", "finalize", "release"} :
        /\ run' = [run EXCEPT ![r].at = at]
        /\ at = "finalize" => Mirror!At(r, "fresh")
        /\ at = "release" => Mirror!At(r, "commit")
  BY DEF Mirror!Fails, Mirror!Goto
<1> DEFINE to == [run[r] EXCEPT !.at = at]
<1>2. to \in RunRecords BY RunTyped DEF RunRecords, Places
<1>3. to.snap = run[r].snap /\ run' = [run EXCEPT ![r] = to] BY <1>1 DEF MirrorInv, MirrorTypes
<1>4. UNCHANGED <<binding, snapshots, lease, knowledge>> /\ Mirror!Fault BY DEF Mirror!Fails
<1>5. RunSound(r)' BY <1>1, <1>4 DEF RunSound, Mirror!At, MirrorInv, MirrorTypes
<1> HIDE DEF to
<1> QED BY <1>2, <1>3, <1>4, <1>5, FaultSpent, RunMoves

\* The process dies, and every run with it.
LEMMA MirrorCrashStep == ASSUME MirrorInv, Mirror!MirrorAssumption, Mirror!Crash PROVE MirrorInv'
<1>1. /\ UNCHANGED <<binding, snapshots, lease, knowledge>> /\ Mirror!Fault
      /\ run' = [r \in Mirror!Runs |-> IF Mirror!At(r, "idle") THEN run[r] ELSE [run[r] EXCEPT !.at = "ended"]]
  BY DEF Mirror!Crash
<1>2. run' \in [Mirror!Runs -> RunRecords]
  BY <1>1 DEF RunRecords, MirrorInv, MirrorTypes, Places
<1>3. MirrorTypes' BY <1>1, <1>2, FaultSpent DEF RunRecords, MirrorInv, MirrorTypes, Mirror!Ids
<1>4. ASSUME NEW q \in Mirror!Runs PROVE run'[q].snap = run[q].snap /\ RunSound(q)'
  BY <1>1 DEF MirrorInv, MirrorTypes, RunSound, Mirror!At
<1> QED BY <1>1, <1>3, <1>4, RunsMove

-----------------------------------------------------------------------------
\* The invariant holds after every step.
LEMMA MirrorNextInv ==
    ASSUME Mirror!MirrorAssumption
    PROVE  MirrorInv /\ [Mirror!Next]_(Mirror!vars) => MirrorInv'
<1> SUFFICES ASSUME MirrorInv, [Mirror!Next]_(Mirror!vars) PROVE MirrorInv' OBVIOUS
<1>1. ASSUME NEW s \in Services \union {None}, Mirror!Rebind(s) PROVE MirrorInv' BY <1>1, MirrorRebindStep
<1>2. CASE Mirror!NewToken BY <1>2, NewTokenStep
<1>3. ASSUME NEW r \in Mirror!Runs, Mirror!Step(r) PROVE MirrorInv'
 
    BY <1>3, ReadBindingStep, AcquireStep, FreshCheckStep, WalkStep, FinalizeStep, CommitStep, ReleaseStep
    DEF Mirror!Step
<1>4. ASSUME NEW r \in Mirror!Runs, Mirror!Fails(r) PROVE MirrorInv' BY <1>4, FailsStep
<1>5. CASE Mirror!Expire BY <1>5, ExpireStep
<1>6. CASE Mirror!Crash BY <1>6, MirrorCrashStep
<1>7. CASE UNCHANGED Mirror!vars
  <2>1. MirrorTypes' BY <1>7 DEF RunRecords, MirrorInv, MirrorTypes, Mirror!Ids, Mirror!vars
  <2>2. \A q \in Mirror!Runs : run'[q].snap = run[q].snap /\ RunSound(q)'
    BY <1>7 DEF MirrorInv, RunSound, Mirror!At, Mirror!vars
  <2> QED BY <1>7, <2>1, <2>2, RunsMove DEF Mirror!vars
<1> QED BY <1>1, <1>2, <1>3, <1>4, <1>5, <1>6, <1>7 DEF Mirror!Next

\* What the invariant says of the number of snapshots: one for each request at most.
LEMMA MirrorTypeOfInv == ASSUME Mirror!MirrorAssumption PROVE MirrorInv => Mirror!TypeOK
<1> SUFFICES ASSUME MirrorInv PROVE Mirror!TypeOK OBVIOUS
<1>1. IsFiniteSet(Mirror!Runs) /\ Cardinality(Mirror!Runs) = MaxRuns
  BY FS_Interval DEF Mirror!Runs, Mirror!MirrorAssumption
<1>2. Cardinality(Started) <= MaxRuns BY <1>1, FS_Subset DEF Started
<1>3. Len(snapshots) <= MaxRuns BY <1>2 DEF MirrorInv, Counted
<1> QED BY <1>3 DEF RunRecords, MirrorInv, MirrorTypes, Mirror!TypeOK, States, Places

\* Every snapshot that is running is the one of the lease.
LEMMA OneOfInv == MirrorInv => Mirror!OneRunning
BY DEF MirrorInv, LeaseOfNewest, Mirror!OneRunning

\* Only Commit writes knowledge, of the snapshot of the lease, which is the newest.
LEMMA NewestOfInv ==
    ASSUME Mirror!MirrorAssumption
    PROVE  MirrorInv /\ [Mirror!Next]_(Mirror!vars)
             => [knowledge' \notin {knowledge, None} => knowledge'.snap = Len(snapshots)]_(Mirror!vars)
<1> SUFFICES ASSUME MirrorInv, Mirror!Next, knowledge' \notin {knowledge, None} PROVE knowledge'.snap = Len(snapshots)
  BY DEF Mirror!vars
<1>1. PICK r \in Mirror!Runs : Mirror!Commit(r)
 
    BY DEF Mirror!Next, Mirror!Step, Mirror!Rebind, Mirror!NewToken, Mirror!ReadBinding, Mirror!Acquire, Mirror!FreshCheck,
           Mirror!Walk, Mirror!Finalize, Mirror!Release, Mirror!Fails, Mirror!Expire, Mirror!Crash
<1>2. Mirror!Holds(r) /\ knowledge' = [snap |-> run[r].snap, of |-> run[r].bound]
  BY <1>1 DEF Mirror!Commit, Mirror!MayCommit
<1> QED BY <1>2 DEF MirrorInv, LeaseOfNewest, Mirror!Holds, Mirror!Mine

\* mirrorLease.ts: every variable keeps its type, and no request takes two snapshots.
THEOREM MirrorTypeCorrect == ASSUME Mirror!MirrorAssumption PROVE Mirror!Spec => []Mirror!TypeOK
<1> QED BY MirrorInitInv, MirrorNextInv, MirrorTypeOfInv, PTL DEF Mirror!Spec

\* mirrorLease.ts, liveServerKnowledgeIndex.ts, bindingState.ts: one snapshot runs at a time,
\* and the knowledge is of the bound service and of a snapshot that ended well, the newest
\* when it was written, whatever lapses, fails, crashes or is changed meanwhile.
THEOREM KnowledgeSafeHolds == ASSUME Mirror!MirrorAssumption PROVE Mirror!Spec => Mirror!KnowledgeSafe
<1>1. MirrorInv => Mirror!KnowledgeOfBinding /\ Mirror!OneRunning /\ Mirror!OnlyFinished
  BY OneOfInv DEF MirrorInv
<1> QED
  BY <1>1, MirrorInitInv, MirrorNextInv, NewestOfInv, PTL DEF Mirror!Spec, Mirror!KnowledgeSafe, Mirror!CommitsNewest
=============================================================================
