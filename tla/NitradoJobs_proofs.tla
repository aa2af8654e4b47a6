-------------------------- MODULE NitradoJobs_proofs --------------------------
(***************************************************************************)
(* Theorems about NitradoJobs for every number of jobs, connections,       *)
(* instances, tokens, attempts and faults.                                 *)
(***************************************************************************)
EXTENDS NitradoJobs, TLAPS

USE ConnOfType, BoundsType, NoneIsFresh

\* Removing a row from what the sweeps hold as old keeps them well typed.
LEMMA TouchedType == ASSUME TypeOK, NEW j \in Jobs PROVE Touched(j) \in [Instances -> PollRow]
BY DEF Touched, TypeOK, PollRow

\* A rewritten row of NitradoJob is well typed.
LEMMA RewriteType ==
    ASSUME TypeOK, NEW j \in Jobs, NEW s \in Statuses, NEW n \in Nat, NEW d \in BOOLEAN
    PROVE  Rewrite(j, s, n, d) \in [Jobs -> JobRow]
BY DEF Rewrite, TypeOK, JobRow

\* One row of poll replaced by a well-typed one.
LEMMA PollUpdate ==
    ASSUME NEW P \in [Instances -> PollRow], NEW i \in Instances, NEW r \in PollRow
    PROVE  [P EXCEPT ![i] = r] \in [Instances -> PollRow]
OBVIOUS

\* The rows of poll the steps of pollOnce write.
LEMMA PollRows ==
    ASSUME NEW r \in PollRow
    PROVE  /\ IdlePoll \in PollRow
           /\ \A pc \in PollPCs, S \in SUBSET Jobs : [r EXCEPT !.pc = pc, !.jobs = S] \in PollRow
           /\ \A j \in Jobs : [r EXCEPT !.pc = "legacyUpdate", !.checked = {j}, !.jobs = r.jobs \ {j}] \in PollRow
           /\ [r EXCEPT !.pc = "legacy", !.checked = {}] \in PollRow
           /\ \A S : [r EXCEPT !.jobs = @ \ S] \in PollRow
           /\ \A S : [r EXCEPT !.leases = @ \ S] \in PollRow
           /\ [r EXCEPT !.pc = "run"] \in PollRow
           /\ r.jobs \subseteq Jobs /\ r.checked \subseteq Jobs /\ r.oldJobs \subseteq Jobs
           /\ r.leases \subseteq Jobs \X Tokens
BY DEF PollRow, PollPCs, IdlePoll

\* transitionClaimedNitradoJob writes well-typed rows, or none.
LEMMA TransitionType ==
    ASSUME TypeOK, NEW t \in Tokens, exec[t] # None,
           NEW s \in Statuses, NEW n \in Nat, NEW d \in BOOLEAN, Transition(t, s, n, d)
    PROVE  /\ job' \in [Jobs -> JobRow]
           /\ lease' \in [Jobs -> LeaseRow]
           /\ poll' \in [Instances -> PollRow]
<1>1. exec[t].job \in Jobs BY DEF TypeOK, ExecRow
<1>2. NoLease \in LeaseRow BY DEF NoLease, LeaseRow
<1>3. CASE Owns(t) /\ job[exec[t].job].status = "RUNNING"
  <2>1. Touched(exec[t].job) \in [Instances -> PollRow] BY <1>1, TouchedType
  <2>2. Rewrite(exec[t].job, s, n, d) \in [Jobs -> JobRow] BY <1>1, RewriteType
  <2>3. [lease EXCEPT ![exec[t].job] = NoLease] \in [Jobs -> LeaseRow] BY <1>2 DEF TypeOK
  <2> QED BY <1>3, <2>1, <2>2, <2>3 DEF Transition
<1>4. CASE ~(Owns(t) /\ job[exec[t].job].status = "RUNNING") BY <1>4 DEF Transition, TypeOK
<1> QED BY <1>3, <1>4

\* The initial states are well typed.
LEMMA InitType == Init => TypeOK
<1> SUFFICES ASSUME Init PROVE TypeOK OBVIOUS
<1>1. job \in [Jobs -> JobRow] BY DEF Init, JobRow, Statuses
<1>2. lease \in [Jobs -> LeaseRow] BY DEF Init, LeaseRow, NoLease
<1>3. poll \in [Instances -> PollRow] BY DEF Init, PollRow, PollPCs, IdlePoll
<1>4. lock \in [Conns -> Tokens \union {None, Config}] /\ exec \in [Tokens -> ExecRow \union {None}]
  BY DEF Init
<1>5. faults \in 0..MaxFaults BY DEF Init
<1> QED BY <1>1, <1>2, <1>3, <1>4, <1>5 DEF TypeOK

\* Every step of pollOnce keeps the types.
LEMMA PollType == ASSUME TypeOK, NEW i \in Instances, PollStep(i) PROVE TypeOK'
<1>0. poll[i] \in PollRow /\ poll \in [Instances -> PollRow] BY DEF TypeOK
<1>a. \A j \in Jobs : job[j].attempts \in Nat /\ job[j].due \in BOOLEAN BY DEF TypeOK, JobRow
<1>1. CASE PollStart(i)
  <2>1. PICK stale \in SUBSET Jobs :
          /\ \A j \in stale : lease[j].token # None
          /\ poll' = [poll EXCEPT ![i] =
                  [pc |-> "leases", jobs |-> {}, checked |-> {},
                   leases |-> {<<j, lease[j].token>> : j \in stale},
                   oldLeases |-> {lease[j].token : j \in stale},
                   oldJobs |-> {j \in Jobs : job[j].old}]]
    BY <1>1 DEF PollStart
  <2>2. \A j \in stale : lease[j].token \in Tokens BY <2>1 DEF TypeOK, LeaseRow
  <2>3. [pc |-> "leases", jobs |-> {}, checked |-> {},
         leases |-> {<<j, lease[j].token>> : j \in stale},
         oldLeases |-> {lease[j].token : j \in stale},
         oldJobs |-> {j \in Jobs : job[j].old}] \in PollRow
    BY <2>2 DEF PollRow, PollPCs
  <2> QED BY <2>1, <2>3, <1>0, <1>1, PollUpdate DEF PollStart, TypeOK
<1>2. CASE RecoverLease(i)
  <2>1. PICK r \in poll[i].leases :
          LET j == r[1]
              found == lease[j].token = r[2] /\ r[2] \in poll[i].oldLeases
              running == job[j].status = "RUNNING" IN
          /\ lease' = IF found THEN [lease EXCEPT ![j] = NoLease] ELSE lease
          /\ job' = IF found /\ running
                    THEN Rewrite(j, "PENDING", job[j].attempts, job[j].due) ELSE job
          /\ poll' = [IF found /\ running THEN Touched(j) ELSE poll
                        EXCEPT ![i].leases = @ \ {r}]
    BY <1>2 DEF RecoverLease
  <2>2. r[1] \in Jobs BY <1>0, PollRows
  <2>4. job' \in [Jobs -> JobRow]
    <3>1. Rewrite(r[1], "PENDING", job[r[1]].attempts, job[r[1]].due) \in [Jobs -> JobRow]
      BY <2>2, <1>a, RewriteType DEF Statuses
    <3> QED BY <2>1, <3>1 DEF TypeOK
  <2>5. lease' \in [Jobs -> LeaseRow] BY <2>1, <2>2 DEF NoLease, LeaseRow, TypeOK
  <2>6. poll' \in [Instances -> PollRow]
    <3>1. Touched(r[1]) \in [Instances -> PollRow] BY <2>2, TouchedType
    <3>2. PICK P \in [Instances -> PollRow] : poll' = [P EXCEPT ![i].leases = @ \ {r}]
      BY <2>1, <3>1, <1>0
    <3>3. [P[i] EXCEPT !.leases = @ \ {r}] \in PollRow BY PollRows
    <3> QED BY <3>2, <3>3, PollUpdate
  <2> QED BY <2>4, <2>5, <2>6, <1>2 DEF RecoverLease, TypeOK
<1>3. CASE LegacyRead(i)
  <2> DEFINE S == {j \in poll[i].oldJobs : job[j].status = "RUNNING"}
  <2>1. S \in SUBSET Jobs BY <1>0, PollRows
  <2>2. [poll[i] EXCEPT !.pc = "legacy", !.jobs = S] \in PollRow BY <1>0, <2>1, PollRows DEF PollPCs
  <2> QED BY <1>3, <2>2 DEF LegacyRead, TypeOK
<1>4. CASE LegacySkip(i)
  <2>1. PICK j : poll' = [poll EXCEPT ![i].jobs = @ \ {j}] BY <1>4 DEF LegacySkip
  <2>2. [poll[i] EXCEPT !.jobs = @ \ {j}] \in PollRow BY <1>0, PollRows
  <2>3. poll' \in [Instances -> PollRow] BY <1>0, <2>1, <2>2
  <2> QED BY <1>4, <2>3 DEF LegacySkip, TypeOK
<1>5. CASE LegacyCheck(i)
  <2>1. PICK j \in poll[i].jobs :
          poll' = [poll EXCEPT ![i] = [@ EXCEPT !.pc = "legacyUpdate", !.checked = {j},
                                                 !.jobs = poll[i].jobs \ {j}]]
    BY <1>5 DEF LegacyCheck
  <2>2. j \in Jobs BY <1>0, PollRows
  <2> DEFINE r == [poll[i] EXCEPT !.pc = "legacyUpdate", !.checked = {j}, !.jobs = poll[i].jobs \ {j}]
  <2>3. r \in PollRow BY <1>0, <2>2, PollRows
  <2>4. poll' = [poll EXCEPT ![i] = r] BY <1>0, <2>1
  <2> HIDE DEF r
  <2> QED BY <1>0, <1>5, <2>3, <2>4, PollUpdate DEF LegacyCheck, TypeOK
<1>6. CASE LegacyUpdate(i)
  <2>1. PICK j \in poll[i].checked :
          LET stale == job[j].status = "RUNNING" /\ j \in poll[i].oldJobs IN
          /\ job' = IF stale THEN Rewrite(j, "PENDING", job[j].attempts, job[j].due) ELSE job
          /\ poll' = [IF stale THEN Touched(j) ELSE poll
                       EXCEPT ![i] = [@ EXCEPT !.pc = "legacy", !.checked = {}]]
    BY <1>6 DEF LegacyUpdate
  <2>2. j \in Jobs BY <1>0, PollRows
  <2>4. job' \in [Jobs -> JobRow]
    <3>1. Rewrite(j, "PENDING", job[j].attempts, job[j].due) \in [Jobs -> JobRow]
      BY <2>2, <1>a, RewriteType DEF Statuses
    <3> QED BY <2>1, <3>1 DEF TypeOK
  <2>5. poll' \in [Instances -> PollRow]
    <3>1. Touched(j) \in [Instances -> PollRow] BY <2>2, TouchedType
    <3>2. PICK P \in [Instances -> PollRow] :
            poll' = [P EXCEPT ![i] = [@ EXCEPT !.pc = "legacy", !.checked = {}]]
      BY <2>1, <3>1, <1>0
    <3>3. [P[i] EXCEPT !.pc = "legacy", !.checked = {}] \in PollRow BY PollRows
    <3> QED BY <3>2, <3>3, PollUpdate
  <2> QED BY <2>4, <2>5, <1>6 DEF LegacyUpdate, TypeOK
<1>7. CASE ReadCandidates(i)
  <2> DEFINE S == {j \in Jobs : job[j].status = "PENDING" /\ job[j].due}
             r == IF S = {} THEN IdlePoll ELSE [poll[i] EXCEPT !.pc = "select", !.jobs = S]
  <2>1. r \in PollRow BY <1>0, PollRows DEF PollPCs
  <2>2. poll' = [poll EXCEPT ![i] = r] BY <1>7, <1>0 DEF ReadCandidates
  <2> HIDE DEF r
  <2> QED BY <2>1, <2>2, <1>0, <1>7, PollUpdate DEF ReadCandidates, TypeOK
<1>8. CASE SelectBatch(i)
  <2>1. PICK B \in SUBSET Jobs :
          poll' = [poll EXCEPT ![i] = IF B = {} THEN IdlePoll
                                        ELSE [@ EXCEPT !.pc = "claim", !.jobs = B]]
    BY <1>0, <1>8, PollRows DEF SelectBatch
  <2>2. (IF B = {} THEN IdlePoll ELSE [poll[i] EXCEPT !.pc = "claim", !.jobs = B]) \in PollRow
    BY <1>0, PollRows DEF PollPCs
  <2> QED BY <2>1, <2>2, <1>8 DEF SelectBatch, TypeOK
<1>9. CASE Claim(i)
  <2>1. PICK j \in poll[i].jobs :
         IF job[j].status # "PENDING"
         THEN /\ poll' = [poll EXCEPT ![i].jobs = @ \ {j}]
              /\ UNCHANGED <<job, lease, exec>>
         ELSE \E t \in Tokens :
                /\ Fresh(t)
                /\ job' = Rewrite(j, "RUNNING", job[j].attempts, job[j].due)
                /\ lease' = [lease EXCEPT ![j] = [token |-> t, old |-> FALSE]]
                /\ exec' = [exec EXCEPT ![t] =
                              [pc |-> "renew", inst |-> i, job |-> j, attempts |-> 0,
                               lost |-> FALSE, calls |-> 0, permanent |-> FALSE]]
                /\ poll' = [Touched(j) EXCEPT ![i].jobs = @ \ {j}]
    BY <1>9 DEF Claim
  <2>2. j \in Jobs BY <1>0, PollRows
  <2>3. CASE job[j].status # "PENDING"
    <3>1. [poll[i] EXCEPT !.jobs = @ \ {j}] \in PollRow BY <1>0, PollRows
    <3>2. poll' \in [Instances -> PollRow] BY <1>0, <2>1, <2>3, <3>1
    <3>3. UNCHANGED <<job, lease, exec>> BY <2>1, <2>3
    <3> QED BY <3>2, <3>3, <1>9 DEF Claim, TypeOK
  <2>4. CASE job[j].status = "PENDING"
    <3>1. PICK t \in Tokens :
                /\ job' = Rewrite(j, "RUNNING", job[j].attempts, job[j].due)
                /\ lease' = [lease EXCEPT ![j] = [token |-> t, old |-> FALSE]]
                /\ exec' = [exec EXCEPT ![t] =
                              [pc |-> "renew", inst |-> i, job |-> j, attempts |-> 0,
                               lost |-> FALSE, calls |-> 0, permanent |-> FALSE]]
                /\ poll' = [Touched(j) EXCEPT ![i].jobs = @ \ {j}]
      BY <2>1, <2>4
    <3>3. job' \in [Jobs -> JobRow] BY <3>1, <2>2, <1>a, RewriteType DEF Statuses
    <3>4. lease' \in [Jobs -> LeaseRow] BY <3>1, <2>2 DEF LeaseRow, TypeOK
    <3>5. [pc |-> "renew", inst |-> i, job |-> j, attempts |-> 0,
           lost |-> FALSE, calls |-> 0, permanent |-> FALSE] \in ExecRow
      BY <2>2 DEF ExecRow, ExecPCs
    <3>6. exec' \in [Tokens -> ExecRow \union {None}] BY <3>1, <3>5 DEF TypeOK
    <3>7. Touched(j) \in [Instances -> PollRow] BY <2>2, TouchedType
    <3>8. [Touched(j)[i] EXCEPT !.jobs = @ \ {j}] \in PollRow BY <3>7, PollRows
    <3>9. poll' \in [Instances -> PollRow] BY <3>1, <3>7, <3>8
    <3> QED BY <3>3, <3>4, <3>6, <3>9, <1>9 DEF Claim, TypeOK
  <2> QED BY <2>3, <2>4
<1>10. CASE StartBatch(i)
  <2>1. (IF Running(i) = {} THEN IdlePoll ELSE [poll[i] EXCEPT !.pc = "run"]) \in PollRow
    BY <1>0, PollRows
  <2> QED BY <2>1, <1>10 DEF StartBatch, TypeOK
<1>11. CASE PollEnd(i) BY <1>0, <1>11, PollRows DEF PollEnd, TypeOK
<1> QED BY <1>1, <1>2, <1>3, <1>4, <1>5, <1>6, <1>7, <1>8, <1>9, <1>10, <1>11 DEF PollStep

\* The row of exec every step of an execution writes.
LEMMA ExecRows ==
    ASSUME NEW e \in ExecRow
    PROVE  /\ e # None /\ e.job \in Jobs /\ e.inst \in Instances /\ e.attempts \in Nat
           /\ ConnOf[e.job] \in Conns
           /\ \A pc \in ExecPCs : [e EXCEPT !.pc = pc] \in ExecRow
           /\ \A pc \in ExecPCs, n \in Nat : [e EXCEPT !.pc = pc, !.attempts = n] \in ExecRow
           /\ \A pc \in ExecPCs, p \in BOOLEAN : [e EXCEPT !.pc = pc, !.permanent = p] \in ExecRow
           /\ \A pc \in ExecPCs : [e EXCEPT !.pc = pc, !.lost = TRUE] \in ExecRow
           /\ [e EXCEPT !.lost = TRUE] \in ExecRow
           /\ \A n \in Nat : [e EXCEPT !.pc = "work", !.calls = n] \in ExecRow
<1>1. e # None /\ e.job \in Jobs /\ e.inst \in Instances /\ e.attempts \in Nat /\ ConnOf[e.job] \in Conns
  BY DEF ExecRow
<1>2. \A pc \in ExecPCs : [e EXCEPT !.pc = pc] \in ExecRow BY DEF ExecRow
<1>3. \A pc \in ExecPCs, n \in Nat : [e EXCEPT !.pc = pc, !.attempts = n] \in ExecRow BY DEF ExecRow
<1>4. \A pc \in ExecPCs, p \in BOOLEAN : [e EXCEPT !.pc = pc, !.permanent = p] \in ExecRow BY DEF ExecRow
<1>5. \A pc \in ExecPCs : [e EXCEPT !.pc = pc, !.lost = TRUE] \in ExecRow BY DEF ExecRow
<1>6. [e EXCEPT !.lost = TRUE] \in ExecRow BY DEF ExecRow
<1>7. \A n \in Nat : [e EXCEPT !.pc = "work", !.calls = n] \in ExecRow BY DEF ExecRow, ExecPCs
<1> QED BY <1>1, <1>2, <1>3, <1>4, <1>5, <1>6, <1>7

\* Moving an execution on keeps its row well typed.
LEMMA GotoType ==
    ASSUME TypeOK, NEW t \in Tokens, exec[t] # None, NEW pc \in ExecPCs, Goto(t, pc)
    PROVE  exec' \in [Tokens -> ExecRow \union {None}]
<1>1. exec[t] \in ExecRow BY DEF TypeOK
<1>2. [exec[t] EXCEPT !.pc = pc] \in ExecRow BY <1>1, ExecRows
<1> QED BY <1>2 DEF Goto, TypeOK

\* Ending an execution keeps the types of exec and lock.
LEMMA EndType ==
    ASSUME TypeOK, NEW t \in Tokens, End(t) PROVE exec' \in [Tokens -> ExecRow \union {None}]
BY DEF End, TypeOK

\* renewNitradoJobLease keeps the types.
LEMMA RenewType ==
    ASSUME TypeOK, NEW t \in Tokens, exec[t] # None, RenewLease(t)
    PROVE  lease' \in [Jobs -> LeaseRow] /\ poll' \in [Instances -> PollRow]
<1>1. exec[t] \in ExecRow BY DEF TypeOK
<1>2. exec[t].job \in Jobs BY <1>1, ExecRows
<1>3. lease' \in [Jobs -> LeaseRow] BY <1>2 DEF RenewLease, TypeOK, LeaseRow
<1>4. \A r \in PollRow : [r EXCEPT !.oldLeases = @ \ {t}] \in PollRow BY DEF PollRow
<1>5. poll' \in [Instances -> PollRow] BY <1>4 DEF RenewLease, TypeOK
<1> QED BY <1>3, <1>5

\* failJob writes a well-typed row.
LEMMA FailType ==
    ASSUME TypeOK, NEW t \in Tokens, exec[t] # None, FailTransition(t)
    PROVE  /\ job' \in [Jobs -> JobRow]
           /\ lease' \in [Jobs -> LeaseRow]
           /\ poll' \in [Instances -> PollRow]
<1>1. exec[t] \in ExecRow BY DEF TypeOK
<1>2. exec[t].attempts + 1 \in Nat BY <1>1 DEF ExecRow
<1> DEFINE n == exec[t].attempts + 1
<1>3. n \in Nat BY <1>2
<1>4. Transition(t, "DEAD", n, TRUE) \/ Transition(t, "PENDING", n, FALSE)
  <2>1. CASE exec[t].permanent \/ n >= MaxAttempts BY <2>1 DEF FailTransition
  <2>2. CASE ~(exec[t].permanent \/ n >= MaxAttempts) BY <2>2 DEF FailTransition
  <2> QED BY <2>1, <2>2
<1> HIDE DEF n
<1>5. CASE Transition(t, "DEAD", n, TRUE) BY <1>3, <1>5, TransitionType DEF Statuses
<1>6. CASE Transition(t, "PENDING", n, FALSE) BY <1>3, <1>6, TransitionType DEF Statuses
<1> QED BY <1>4, <1>5, <1>6

\* Every step of an execution keeps the types.
LEMMA ExecType == ASSUME TypeOK, NEW t \in Tokens, ExecStep(t) \/ ExecFault(t) \/ Heartbeat(t) PROVE TypeOK'
<1> DEFINE E == exec' \in [Tokens -> ExecRow \union {None}]
<1>0. exec[t] # None BY DEF ExecStep, ExecFault, At, Beating, Renew, RenewFails, ReadJob, TryLock, LockFails,
        Requeue, Prepare, EnsureClaimOwned, EnsureFails, Reply, Conclude, Finish, FinishFails,
        FailJob, FailJobFails, Release, Heartbeat, HeartbeatFails
<1>a. exec[t] \in ExecRow BY <1>0 DEF TypeOK
<1>b. exec[t].job \in Jobs BY <1>a, ExecRows
<1>c. job[exec[t].job].attempts \in Nat /\ job[exec[t].job].due \in BOOLEAN BY <1>b DEF TypeOK, JobRow
<1>d. ASSUME NEW p \in BOOLEAN, FailsWith(t, p) PROVE E
  <2>1. [exec[t] EXCEPT !.pc = "failing", !.permanent = p] \in ExecRow BY <1>a, ExecRows DEF ExecPCs
  <2>2. exec' = [exec EXCEPT ![t] = [exec[t] EXCEPT !.pc = "failing", !.permanent = p]]
    BY <1>d DEF FailsWith
  <2> QED BY <2>1, <2>2 DEF TypeOK
<1>e. LosesClaim(t) => E
  <2>1. [exec[t] EXCEPT !.pc = "release", !.lost = TRUE] \in ExecRow BY <1>a, ExecRows DEF ExecPCs
  <2> QED BY <2>1 DEF LosesClaim, TypeOK
<1>f. ASSUME exec' = [exec EXCEPT ![t].lost = TRUE] PROVE E
  <2>1. [exec[t] EXCEPT !.lost = TRUE] \in ExecRow BY <1>a, ExecRows
  <2> QED BY <1>f, <2>1 DEF TypeOK
<1>g. ASSUME NEW pc \in ExecPCs, Goto(t, pc) PROVE E BY <1>0, <1>g, GotoType
<1>h. Fault => faults' \in 0..MaxFaults BY DEF Fault, TypeOK
<1>1. CASE Renew(t)
  <2>1. CASE Owns(t)
    <3>1. E BY <1>1, <2>1, <1>g DEF Renew, ExecPCs
    <3>2. RenewLease(t) BY <1>1, <2>1 DEF Renew
    <3> QED BY <3>1, <3>2, <1>0, <1>1, RenewType DEF Renew, TypeOK
  <2>2. CASE ~Owns(t) BY <1>1, <2>2, EndType DEF Renew, TypeOK
  <2> QED BY <2>1, <2>2
<1>2. CASE ReadJob(t)
  <2>1. [exec[t] EXCEPT !.pc = "lock", !.attempts = job[exec[t].job].attempts] \in ExecRow
    BY <1>a, <1>c, ExecRows DEF ExecPCs
  <2>2. E BY <1>2, <2>1, EndType DEF ReadJob, TypeOK
  <2> QED BY <2>2, <1>2 DEF ReadJob, TypeOK
<1>3. CASE TryLock(t)
  <2>1. E BY <1>3, <1>g DEF TryLock, ExecPCs
  <2>2. lock' \in [Conns -> Tokens \union {None, Config}] BY <1>3, <1>b DEF TryLock, TypeOK, ConnOfClaim
  <2> QED BY <2>1, <2>2, <1>3 DEF TryLock, TypeOK
<1>4. CASE Requeue(t)
  <2>1. E BY <1>4, EndType DEF Requeue
  <2>2. Transition(t, "PENDING", job[exec[t].job].attempts, FALSE) BY <1>4 DEF Requeue
  <2> QED BY <2>1, <2>2, <1>0, <1>c, <1>4, TransitionType DEF Requeue, TypeOK, Statuses
<1>5. CASE Prepare(t)
  <2>1. E BY <1>5, <1>d, <1>g DEF Prepare, ExecPCs
  <2> QED BY <2>1, <1>5 DEF Prepare, TypeOK
<1>6. CASE EnsureClaimOwned(t)
  <2>1. CASE ~exec[t].lost /\ Owns(t)
    <3>1. E BY <1>6, <2>1, <1>g DEF EnsureClaimOwned, ExecPCs
    <3>2. RenewLease(t) BY <1>6, <2>1 DEF EnsureClaimOwned
    <3> QED BY <3>1, <3>2, <1>0, <1>6, RenewType DEF EnsureClaimOwned, TypeOK
  <2>2. CASE ~(~exec[t].lost /\ Owns(t)) BY <1>6, <2>2, <1>e DEF EnsureClaimOwned, TypeOK
  <2> QED BY <2>1, <2>2
<1>7. CASE Reply(t)
  <2>0. exec[t].calls + 1 \in Nat BY <1>a DEF ExecRow
  <2>1. [exec[t] EXCEPT !.pc = "work", !.calls = exec[t].calls + 1] \in ExecRow BY <1>a, <2>0, ExecRows
  <2>2. E BY <1>7, <2>1, <1>d DEF Reply, TypeOK
  <2> QED BY <2>2, <1>7 DEF Reply, TypeOK
<1>8. CASE Conclude(t)
  <2>1. E BY <1>8, <1>d, <1>g DEF Conclude, ExecPCs
  <2> QED BY <2>1, <1>8 DEF Conclude, TypeOK
<1>9. CASE Finish(t)
  <2>1. E BY <1>9, <1>g DEF Finish, ExecPCs
  <2>2. Transition(t, "DONE", job[exec[t].job].attempts, job[exec[t].job].due) BY <1>9 DEF Finish
  <2> QED BY <2>1, <2>2, <1>0, <1>c, <1>9, TransitionType DEF Finish, TypeOK, Statuses
<1>10. CASE FailJob(t)
  <2>1. E BY <1>10, <1>g DEF FailJob, ExecPCs
  <2> QED BY <2>1, <1>0, <1>10, FailType DEF FailJob, TypeOK
<1>11. CASE Release(t)
  <2>1. lock' \in [Conns -> Tokens \union {None, Config}] BY <1>11 DEF Release, TypeOK
  <2> QED BY <2>1, <1>11, EndType DEF Release, TypeOK
<1>12. CASE RenewFails(t) BY <1>12, <1>h, EndType DEF RenewFails, TypeOK
<1>13. CASE LockFails(t)
  <2>1. E BY <1>13, <1>g DEF LockFails, ExecPCs
  <2> QED BY <2>1, <1>13, <1>h DEF LockFails, TypeOK
<1>14. CASE EnsureFails(t) BY <1>14, <1>e, <1>h DEF EnsureFails, TypeOK
<1>15. CASE FinishFails(t)
  <2>1. E
    <3>1. CASE exec[t].pc = "finish" BY <1>15, <3>1, <1>g DEF FinishFails, ExecPCs
    <3>2. CASE exec[t].pc # "finish" BY <1>15, <3>2, <1>g DEF FinishFails, ExecPCs
    <3> QED BY <3>1, <3>2
  <2>2. Fault /\ UNCHANGED lock BY <1>15 DEF FinishFails
  <2>3. CASE Transition(t, "DONE", job[exec[t].job].attempts, job[exec[t].job].due)
    BY <2>1, <2>2, <2>3, <1>0, <1>c, <1>h, TransitionType DEF TypeOK, Statuses
  <2>4. CASE UNCHANGED <<job, lease, poll>> BY <2>1, <2>2, <2>4, <1>h DEF TypeOK
  <2> QED BY <2>3, <2>4, <1>15 DEF FinishFails
<1>16. CASE FailJobFails(t)
  <2>1. E BY <1>16, <1>g DEF FailJobFails, ExecPCs
  <2>2. Fault /\ UNCHANGED lock BY <1>16 DEF FailJobFails
  <2>3. CASE FailTransition(t) BY <2>1, <2>2, <2>3, <1>0, <1>h, FailType DEF TypeOK
  <2>4. CASE UNCHANGED <<job, lease, poll>> BY <2>1, <2>2, <2>4, <1>h DEF TypeOK
  <2> QED BY <2>3, <2>4, <1>16 DEF FailJobFails
<1>17. CASE HeartbeatFails(t) BY <1>17, <1>f, <1>h DEF HeartbeatFails, TypeOK
<1>18. CASE Heartbeat(t)
  <2>1. CASE Owns(t) BY <2>1, <1>0, <1>18, RenewType DEF Heartbeat, TypeOK
  <2>2. CASE ~Owns(t) BY <2>2, <1>f, <1>18 DEF Heartbeat, TypeOK
  <2> QED BY <2>1, <2>2
<1> QED BY <1>1, <1>2, <1>3, <1>4, <1>5, <1>6, <1>7, <1>8, <1>9, <1>10, <1>11, <1>12, <1>13, <1>14,
           <1>15, <1>16, <1>17, <1>18 DEF ExecStep, ExecFault

\* Producers, time and failures keep the types.
LEMMA OutsideType ==
    ASSUME TypeOK,
           \/ \E i \in Instances : Retention(i) \/ Crash(i)
           \/ \E j \in Jobs : Enqueue(j) \/ CancelPending(j) \/ TimeStep(j)
           \/ \E c \in Conns : DropSession(c) \/ OutsideLock(c) \/ OutsideUnlock(c)
    PROVE  TypeOK'
<1>a. Fault => faults' \in 0..MaxFaults BY DEF Fault, TypeOK
<1>b. \A j \in Jobs : job[j] \in JobRow /\ job[j].attempts \in Nat /\ job[j].due \in BOOLEAN
  BY DEF TypeOK, JobRow
<1>1. ASSUME NEW i \in Instances, Retention(i) PROVE TypeOK'
  <2>1. PICK S : job' = [j \in Jobs |-> IF j \in S THEN [job[j] EXCEPT !.status = "DELETED"] ELSE job[j]]
    BY <1>1 DEF Retention
  <2>2. \A j \in Jobs : [job[j] EXCEPT !.status = "DELETED"] \in JobRow BY <1>b DEF JobRow, Statuses
  <2> QED BY <1>1, <1>b, <2>1, <2>2 DEF Retention, TypeOK
<1>2. ASSUME NEW i \in Instances, Crash(i) PROVE TypeOK'
  <2>1. poll' \in [Instances -> PollRow] BY <1>2, PollRows DEF Crash, TypeOK
  <2>2. lock' \in [Conns -> Tokens \union {None, Config}] BY <1>2 DEF Crash, TypeOK
  <2> QED BY <1>2, <1>a, <2>1, <2>2 DEF Crash, TypeOK
<1>3. ASSUME NEW j \in Jobs, Enqueue(j) PROVE TypeOK'
  <2>1. job' \in [Jobs -> JobRow] BY <1>3, RewriteType DEF Enqueue, Statuses
  <2>2. poll' \in [Instances -> PollRow] BY <1>3, TouchedType DEF Enqueue
  <2> QED BY <1>3, <2>1, <2>2 DEF Enqueue, TypeOK
<1>4. ASSUME NEW j \in Jobs, CancelPending(j) PROVE TypeOK'
  <2>1. PICK s \in {"DONE", "DEAD"} : job' = Rewrite(j, s, job[j].attempts, job[j].due)
    BY <1>4 DEF CancelPending
  <2>2. job' \in [Jobs -> JobRow] BY <1>b, <2>1, RewriteType DEF Statuses
  <2> QED BY <1>4, <2>2, TouchedType DEF CancelPending, TypeOK
<1>5. ASSUME NEW j \in Jobs, TimeStep(j) PROVE TypeOK'
  <2>1. CASE BecomeDue(j)
    <3>1. [job[j] EXCEPT !.due = TRUE] \in JobRow BY <1>b DEF JobRow
    <3> QED BY <2>1, <3>1 DEF BecomeDue, TypeOK
  <2>2. CASE AgeJob(j)
    <3>1. [job[j] EXCEPT !.old = TRUE] \in JobRow BY <1>b DEF JobRow
    <3> QED BY <2>2, <3>1 DEF AgeJob, TypeOK
  <2>3. CASE AgeLease(j)
    <3>0. lease[j] \in LeaseRow BY DEF TypeOK
    <3>1. [lease[j] EXCEPT !.old = TRUE] \in LeaseRow BY <3>0 DEF LeaseRow
    <3>2. lease' \in [Jobs -> LeaseRow] BY <2>3, <3>1 DEF AgeLease, TypeOK
    <3> QED BY <2>3, <3>2 DEF AgeLease, TypeOK
  <2> QED BY <1>5, <2>1, <2>2, <2>3 DEF TimeStep
<1>6. ASSUME NEW c \in Conns, DropSession(c) \/ OutsideLock(c) \/ OutsideUnlock(c) PROVE TypeOK'
  BY <1>6, <1>a DEF DropSession, OutsideLock, OutsideUnlock, TypeOK
<1> QED BY <1>1, <1>2, <1>3, <1>4, <1>5, <1>6

\* Every step of the outbox keeps the types.
LEMMA TypeStep == TypeOK /\ [Next]_vars => TypeOK'
<1> SUFFICES ASSUME TypeOK, [Next]_vars PROVE TypeOK' OBVIOUS
<1>1. CASE UNCHANGED vars BY <1>1 DEF vars, TypeOK
<1>2. CASE Next BY <1>2, PollType, ExecType, OutsideType DEF Next
<1> QED BY <1>1, <1>2

\* Type correctness of the outbox: every row any interleaving of workers,
\* sweeps, producers and faults writes is a well-formed one.
THEOREM TypeCorrect == Spec => []TypeOK
BY InitType, TypeStep, PTL DEF Spec

-----------------------------------------------------------------------------
(***************************************************************************)
(* A lease is only ever on a RUNNING job.  This is not inductive alone:    *)
(* the legacy fallback resets a RUNNING row some steps after it found no   *)
(* lease on it.  The invariant adds what protects the rows claimed since:  *)
(* claiming writes updatedAt, so a row a sweep still finds stale has had   *)
(* no lease since the sweep looked.                                        *)
(***************************************************************************)
LegacyChecked == \A i \in Instances : \A j \in Jobs :
                     j \in poll[i].checked /\ j \in poll[i].oldJobs => lease[j].token = None

LeaseInv == TypeOK /\ LeaseOnRunning /\ LegacyChecked

\* What Touched(j) leaves of a row of poll.
LEMMA TouchedRow ==
    ASSUME TypeOK, NEW j \in Jobs, NEW i \in Instances
    PROVE  /\ Touched(j)[i].checked = poll[i].checked
           /\ Touched(j)[i].oldJobs = poll[i].oldJobs \ {j}
           /\ Touched(j)[i].jobs = poll[i].jobs
BY DEF Touched, TypeOK, PollRow

\* A job leaves the hands of its owner with its lease, and as a written row.
LEMMA TransitionLease ==
    ASSUME LeaseInv, NEW t \in Tokens, exec[t] # None,
           NEW s \in Statuses, NEW n \in Nat, NEW d \in BOOLEAN, Transition(t, s, n, d)
    PROVE  LeaseOnRunning' /\ LegacyChecked'
<1>1. exec[t].job \in Jobs BY DEF LeaseInv, TypeOK, ExecRow
<1>2. CASE Owns(t) /\ job[exec[t].job].status = "RUNNING"
  <2>1. /\ lease' = [lease EXCEPT ![exec[t].job] = NoLease]
        /\ job' = Rewrite(exec[t].job, s, n, d)
        /\ poll' = Touched(exec[t].job)
    BY <1>2 DEF Transition
  <2>2. LeaseOnRunning' BY <1>1, <2>1 DEF LeaseInv, LeaseOnRunning, TypeOK, Rewrite, NoLease
  <2>3. LegacyChecked' BY <1>1, <2>1, TouchedRow DEF LeaseInv, LegacyChecked, TypeOK, NoLease
  <2> QED BY <2>2, <2>3
<1>3. CASE ~(Owns(t) /\ job[exec[t].job].status = "RUNNING")
  BY <1>3 DEF Transition, LeaseInv, LeaseOnRunning, LegacyChecked
<1> QED BY <1>2, <1>3

\* renewNitradoJobLease keeps the lease invariant.
LEMMA RenewLeaseInv ==
    ASSUME LeaseInv, NEW t \in Tokens, exec[t] # None, RenewLease(t), UNCHANGED job
    PROVE  LeaseOnRunning' /\ LegacyChecked'
<1>1. exec[t].job \in Jobs BY DEF LeaseInv, TypeOK, ExecRow
<1>2. \A j \in Jobs : lease'[j].token = lease[j].token
  BY <1>1 DEF RenewLease, LeaseInv, TypeOK, LeaseRow
<1>3. \A i \in Instances : poll'[i].checked = poll[i].checked /\ poll'[i].oldJobs = poll[i].oldJobs
  BY DEF RenewLease, LeaseInv, TypeOK, PollRow
<1> QED BY <1>2, <1>3 DEF LeaseInv, LeaseOnRunning, LegacyChecked

\* Every step of pollOnce keeps the lease invariant.
LEMMA PollLease ==
    ASSUME LeaseInv, NEW i \in Instances, PollStep(i)
    PROVE  LeaseOnRunning' /\ LegacyChecked'
<1> USE DEF LeaseInv
<1>0. poll[i] \in PollRow /\ poll \in [Instances -> PollRow] BY DEF TypeOK
\* Steps that leave jobs and leases alone and check no further row.
<1>a. ASSUME UNCHANGED <<job, lease>>,
             \A k \in Instances : \A j \in Jobs : j \in poll'[k].checked /\ j \in poll'[k].oldJobs
                                  => j \in poll[k].checked /\ j \in poll[k].oldJobs
      PROVE  LeaseOnRunning' /\ LegacyChecked'
  BY <1>a DEF LeaseOnRunning, LegacyChecked
<1>b. ASSUME NEW r \in PollRow, poll' = [poll EXCEPT ![i] = r], UNCHANGED <<job, lease>>,
             \A j \in Jobs : j \in r.checked /\ j \in r.oldJobs
                             => j \in poll[i].checked /\ j \in poll[i].oldJobs
      PROVE  LeaseOnRunning' /\ LegacyChecked'
  <2>1. \A k \in Instances : poll'[k] = IF k = i THEN r ELSE poll[k] BY <1>b, <1>0
  <2> QED BY <1>a, <1>b, <2>1
<1>c. ASSUME NEW r \in PollRow, r.checked = {} PROVE \A j \in Jobs : j \notin r.checked BY <1>c
<1>d. IdlePoll \in PollRow /\ IdlePoll.checked = {} BY <1>0, PollRows DEF IdlePoll
<1>1. CASE PollStart(i)
  <2>1. \A k \in Instances : poll'[k].checked = IF k = i THEN {} ELSE poll[k].checked
    BY <1>1, <1>0 DEF PollStart
  <2>2. \A k \in Instances : k # i => poll'[k] = poll[k] BY <1>1, <1>0 DEF PollStart
  <2> QED BY <1>a, <1>1, <2>1, <2>2 DEF PollStart
<1>2. CASE RecoverLease(i)
  <2>1. PICK r \in poll[i].leases :
          LET j == r[1]
              found == lease[j].token = r[2] /\ r[2] \in poll[i].oldLeases
              running == job[j].status = "RUNNING" IN
          /\ lease' = IF found THEN [lease EXCEPT ![j] = NoLease] ELSE lease
          /\ job' = IF found /\ running
                    THEN Rewrite(j, "PENDING", job[j].attempts, job[j].due) ELSE job
          /\ poll' = [IF found /\ running THEN Touched(j) ELSE poll
                        EXCEPT ![i].leases = @ \ {r}]
    BY <1>2 DEF RecoverLease
  <2> DEFINE found == lease[r[1]].token = r[2] /\ r[2] \in poll[i].oldLeases
             running == job[r[1]].status = "RUNNING"
             P == IF found /\ running THEN Touched(r[1]) ELSE poll
  <2>2. r[1] \in Jobs BY <1>0, PollRows
  <2>3. P \in [Instances -> PollRow] BY <1>0, <2>2, TouchedType
  <2>4. poll' = [P EXCEPT ![i].leases = @ \ {r}] BY <2>1
  <2>5. \A k \in Instances : poll'[k].checked = P[k].checked /\ poll'[k].oldJobs = P[k].oldJobs
    <3> HIDE DEF P
    <3> QED BY <2>3, <2>4 DEF PollRow
  <2>6. \A k \in Instances : P[k].checked = poll[k].checked /\ P[k].oldJobs \subseteq poll[k].oldJobs
    BY <2>2, TouchedRow
  <2>7. \A j \in Jobs : lease'[j] = lease[j] \/ lease'[j].token = None
    BY <2>1, <2>2 DEF TypeOK, NoLease
  <2>8. LegacyChecked' BY <2>5, <2>6, <2>7 DEF LegacyChecked
  <2>9. LeaseOnRunning'
    <3>1. \A j \in Jobs : j # r[1] => lease'[j] = lease[j] /\ job'[j] = job[j]
      BY <2>1, <2>2 DEF TypeOK, Rewrite
    <3>2. lease'[r[1]].token = None \/ (lease'[r[1]] = lease[r[1]] /\ job'[r[1]] = job[r[1]])
      BY <2>1, <2>2 DEF TypeOK, NoLease
    <3> QED BY <3>1, <3>2 DEF LeaseOnRunning
  <2> QED BY <2>8, <2>9
<1>3. CASE LegacyRead(i)
  <2> DEFINE S == {j \in poll[i].oldJobs : job[j].status = "RUNNING"}
             r == [poll[i] EXCEPT !.pc = "legacy", !.jobs = S]
  <2>1. S \in SUBSET Jobs BY <1>0, PollRows
  <2>2. r \in PollRow BY <1>0, <2>1, PollRows DEF PollPCs
  <2>3. r.checked = poll[i].checked /\ r.oldJobs = poll[i].oldJobs BY <1>0 DEF PollRow
  <2>4. poll' = [poll EXCEPT ![i] = r] BY <1>3, <1>0 DEF LegacyRead
  <2> HIDE DEF r
  <2> QED BY <1>b, <1>3, <2>2, <2>3, <2>4 DEF LegacyRead
<1>4. CASE LegacySkip(i)
  <2>1. PICK j : poll' = [poll EXCEPT ![i].jobs = @ \ {j}] BY <1>4 DEF LegacySkip
  <2>2. \A k \in Instances : poll'[k].checked = poll[k].checked /\ poll'[k].oldJobs = poll[k].oldJobs
    BY <1>0, <2>1 DEF PollRow
  <2> QED BY <1>a, <1>4, <2>2 DEF LegacySkip
<1>5. CASE LegacyCheck(i)
  <2>1. PICK j \in poll[i].jobs :
          /\ lease[j].token = None
          /\ poll' = [poll EXCEPT ![i] = [@ EXCEPT !.pc = "legacyUpdate", !.checked = {j},
                                                 !.jobs = poll[i].jobs \ {j}]]
    BY <1>5 DEF LegacyCheck
  <2>2. UNCHANGED <<job, lease>> BY <1>5 DEF LegacyCheck
  <2>3. \A k \in Instances : poll'[k].checked = IF k = i THEN {j} ELSE poll[k].checked
    BY <1>0, <2>1 DEF PollRow
  <2>4. \A k \in Instances : poll'[k].oldJobs = poll[k].oldJobs BY <1>0, <2>1 DEF PollRow
  <2> QED BY <2>1, <2>2, <2>3, <2>4 DEF LeaseOnRunning, LegacyChecked
<1>6. CASE LegacyUpdate(i)
  <2>1. PICK j \in poll[i].checked :
          LET stale == job[j].status = "RUNNING" /\ j \in poll[i].oldJobs IN
          /\ job' = IF stale THEN Rewrite(j, "PENDING", job[j].attempts, job[j].due) ELSE job
          /\ poll' = [IF stale THEN Touched(j) ELSE poll
                       EXCEPT ![i] = [@ EXCEPT !.pc = "legacy", !.checked = {}]]
    BY <1>6 DEF LegacyUpdate
  <2> DEFINE stale == job[j].status = "RUNNING" /\ j \in poll[i].oldJobs
             P == IF stale THEN Touched(j) ELSE poll
  <2>2. j \in Jobs BY <1>0, PollRows
  <2>3. P \in [Instances -> PollRow] BY <1>0, <2>2, TouchedType
  <2>4. poll' = [P EXCEPT ![i] = [@ EXCEPT !.pc = "legacy", !.checked = {}]] BY <2>1
  <2>5. \A k \in Instances : poll'[k].checked \subseteq P[k].checked /\ poll'[k].oldJobs = P[k].oldJobs
    <3> HIDE DEF P
    <3> QED BY <2>3, <2>4 DEF PollRow
  <2>6. \A k \in Instances : P[k].checked = poll[k].checked /\ P[k].oldJobs \subseteq poll[k].oldJobs
    BY <2>2, TouchedRow
  <2>7. UNCHANGED lease BY <1>6 DEF LegacyUpdate
  <2>8. LegacyChecked' BY <2>5, <2>6, <2>7 DEF LegacyChecked
  <2>9. LeaseOnRunning'
    <3>1. \A k \in Jobs : k # j => job'[k] = job[k] BY <2>1, <2>2 DEF TypeOK, Rewrite
    <3>2. stale => lease[j].token = None BY <2>1, <2>2 DEF LegacyChecked
    <3>3. ~stale => job' = job BY <2>1
    <3> QED BY <2>7, <3>1, <3>2, <3>3 DEF LeaseOnRunning
  <2> QED BY <2>8, <2>9
<1>7. CASE ReadCandidates(i)
  <2> DEFINE S == {j \in Jobs : job[j].status = "PENDING" /\ job[j].due}
             r == IF S = {} THEN IdlePoll ELSE [poll[i] EXCEPT !.pc = "select", !.jobs = S]
  <2>1. r \in PollRow BY <1>0, PollRows DEF PollPCs
  <2>2. r.checked = {} \/ (r.checked = poll[i].checked /\ r.oldJobs = poll[i].oldJobs)
    BY <1>0, <1>d DEF PollRow
  <2>3. poll' = [poll EXCEPT ![i] = r] BY <1>7, <1>0 DEF ReadCandidates
  <2> HIDE DEF r
  <2> QED BY <1>b, <1>7, <2>1, <2>2, <2>3 DEF ReadCandidates
<1>8. CASE SelectBatch(i)
  <2>1. PICK B \in SUBSET Jobs :
          poll' = [poll EXCEPT ![i] = IF B = {} THEN IdlePoll
                                        ELSE [@ EXCEPT !.pc = "claim", !.jobs = B]]
    BY <1>0, <1>8, PollRows DEF SelectBatch
  <2> DEFINE r == IF B = {} THEN IdlePoll ELSE [poll[i] EXCEPT !.pc = "claim", !.jobs = B]
  <2>2. r \in PollRow BY <1>0, PollRows DEF PollPCs
  <2>3. r.checked = {} \/ (r.checked = poll[i].checked /\ r.oldJobs = poll[i].oldJobs)
    BY <1>0, <1>d DEF PollRow
  <2>4. poll' = [poll EXCEPT ![i] = r] BY <2>1, <1>0
  <2> HIDE DEF r
  <2> QED BY <1>b, <1>8, <2>2, <2>3, <2>4 DEF SelectBatch
<1>9. CASE Claim(i)
  <2>1. PICK j \in poll[i].jobs :
         IF job[j].status # "PENDING"
         THEN /\ poll' = [poll EXCEPT ![i].jobs = @ \ {j}]
              /\ UNCHANGED <<job, lease, exec>>
         ELSE \E t \in Tokens :
                /\ Fresh(t)
                /\ job' = Rewrite(j, "RUNNING", job[j].attempts, job[j].due)
                /\ lease' = [lease EXCEPT ![j] = [token |-> t, old |-> FALSE]]
                /\ exec' = [exec EXCEPT ![t] =
                              [pc |-> "renew", inst |-> i, job |-> j, attempts |-> 0,
                               lost |-> FALSE, calls |-> 0, permanent |-> FALSE]]
                /\ poll' = [Touched(j) EXCEPT ![i].jobs = @ \ {j}]
    BY <1>9 DEF Claim
  <2>2. j \in Jobs BY <1>0, PollRows
  <2>3. CASE job[j].status # "PENDING"
    <3>1. \A k \in Instances : poll'[k].checked = poll[k].checked /\ poll'[k].oldJobs = poll[k].oldJobs
      BY <1>0, <2>1, <2>3 DEF PollRow
    <3> QED BY <1>a, <2>1, <2>3, <3>1
  <2>4. CASE job[j].status = "PENDING"
    <3>1. PICK t \in Tokens :
                /\ job' = Rewrite(j, "RUNNING", job[j].attempts, job[j].due)
                /\ lease' = [lease EXCEPT ![j] = [token |-> t, old |-> FALSE]]
                /\ poll' = [Touched(j) EXCEPT ![i].jobs = @ \ {j}]
      BY <2>1, <2>4
    <3>2. Touched(j) \in [Instances -> PollRow] BY <2>2, TouchedType
    <3>3. \A k \in Instances : /\ poll'[k].checked = Touched(j)[k].checked
                               /\ poll'[k].oldJobs = Touched(j)[k].oldJobs
      BY <3>1, <3>2 DEF PollRow
    <3>4. \A k \in Instances : /\ poll'[k].checked = poll[k].checked
                               /\ poll'[k].oldJobs = poll[k].oldJobs \ {j}
      BY <2>2, <3>3, TouchedRow
    <3>5. \A m \in Jobs : m # j => lease'[m] = lease[m] /\ job'[m] = job[m]
      BY <2>2, <3>1 DEF TypeOK, Rewrite
    <3>6. job'[j].status = "RUNNING" BY <2>2, <3>1 DEF TypeOK, Rewrite
    <3> QED BY <3>4, <3>5, <3>6 DEF LeaseOnRunning, LegacyChecked
  <2> QED BY <2>3, <2>4
<1>10. CASE StartBatch(i)
  <2> DEFINE r == IF Running(i) = {} THEN IdlePoll ELSE [poll[i] EXCEPT !.pc = "run"]
  <2>1. r \in PollRow BY <1>0, PollRows
  <2>2. r.checked = {} \/ (r.checked = poll[i].checked /\ r.oldJobs = poll[i].oldJobs)
    BY <1>0, <1>d DEF PollRow
  <2>3. poll' = [poll EXCEPT ![i] = r] BY <1>10, <1>0 DEF StartBatch
  <2> HIDE DEF r
  <2> QED BY <1>b, <1>10, <2>1, <2>2, <2>3 DEF StartBatch
<1>11. CASE PollEnd(i) BY <1>b, <1>d, <1>11 DEF PollEnd
<1> QED BY <1>1, <1>2, <1>3, <1>4, <1>5, <1>6, <1>7, <1>8, <1>9, <1>10, <1>11 DEF PollStep

\* Every step of an execution keeps the lease invariant.
LEMMA ExecLease ==
    ASSUME LeaseInv, NEW t \in Tokens, ExecStep(t) \/ ExecFault(t) \/ Heartbeat(t)
    PROVE  LeaseOnRunning' /\ LegacyChecked'
<1>0. exec[t] # None BY DEF ExecStep, ExecFault, At, Beating, Renew, RenewFails, ReadJob, TryLock, LockFails,
        Requeue, Prepare, EnsureClaimOwned, EnsureFails, Reply, Conclude, Finish, FinishFails,
        FailJob, FailJobFails, Release, Heartbeat, HeartbeatFails
<1>a. ASSUME UNCHANGED <<job, lease, poll>> PROVE LeaseOnRunning' /\ LegacyChecked'
  BY <1>a DEF LeaseInv, LeaseOnRunning, LegacyChecked
<1>b. exec[t].job \in Jobs /\ exec[t].attempts + 1 \in Nat BY <1>0 DEF LeaseInv, TypeOK, ExecRow
<1>c. job[exec[t].job].attempts \in Nat /\ job[exec[t].job].due \in BOOLEAN
  BY <1>b DEF LeaseInv, TypeOK, JobRow
<1>d. ASSUME FailTransition(t) PROVE LeaseOnRunning' /\ LegacyChecked'
  <2> DEFINE n == exec[t].attempts + 1
  <2>1. n \in Nat BY <1>b
  <2>2. Transition(t, "DEAD", n, TRUE) \/ Transition(t, "PENDING", n, FALSE)
    <3>1. CASE exec[t].permanent \/ n >= MaxAttempts BY <3>1, <1>d DEF FailTransition
    <3>2. CASE ~(exec[t].permanent \/ n >= MaxAttempts) BY <3>2, <1>d DEF FailTransition
    <3> QED BY <3>1, <3>2
  <2> HIDE DEF n
  <2>3. CASE Transition(t, "DEAD", n, TRUE) BY <1>0, <2>1, <2>3, TransitionLease DEF Statuses
  <2>4. CASE Transition(t, "PENDING", n, FALSE) BY <1>0, <2>1, <2>4, TransitionLease DEF Statuses
  <2> QED BY <2>2, <2>3, <2>4
<1>e. ASSUME Transition(t, "DONE", job[exec[t].job].attempts, job[exec[t].job].due)
      PROVE  LeaseOnRunning' /\ LegacyChecked'
  BY <1>0, <1>c, <1>e, TransitionLease DEF Statuses
<1>1. CASE Renew(t)
  <2>1. CASE Owns(t) BY <1>0, <1>1, <2>1, RenewLeaseInv DEF Renew
  <2>2. CASE ~Owns(t) BY <1>a, <1>1, <2>2 DEF Renew
  <2> QED BY <2>1, <2>2
<1>2. CASE Requeue(t)
  <2>1. Transition(t, "PENDING", job[exec[t].job].attempts, FALSE) BY <1>2 DEF Requeue
  <2> QED BY <1>0, <1>c, <2>1, TransitionLease DEF Statuses
<1>3. CASE EnsureClaimOwned(t)
  <2>1. CASE ~exec[t].lost /\ Owns(t) BY <1>0, <1>3, <2>1, RenewLeaseInv DEF EnsureClaimOwned
  <2>2. CASE ~(~exec[t].lost /\ Owns(t)) BY <1>a, <1>3, <2>2 DEF EnsureClaimOwned
  <2> QED BY <2>1, <2>2
<1>4. CASE Finish(t) BY <1>e, <1>4 DEF Finish
<1>5. CASE FinishFails(t) BY <1>a, <1>e, <1>5 DEF FinishFails
<1>6. CASE FailJob(t) BY <1>d, <1>6 DEF FailJob
<1>7. CASE FailJobFails(t) BY <1>a, <1>d, <1>7 DEF FailJobFails
<1>8. CASE Heartbeat(t)
  <2>1. CASE Owns(t) BY <1>0, <1>8, <2>1, RenewLeaseInv DEF Heartbeat
  <2>2. CASE ~Owns(t) BY <1>a, <1>8, <2>2 DEF Heartbeat
  <2> QED BY <2>1, <2>2
<1>9. CASE \/ ReadJob(t) \/ TryLock(t) \/ Prepare(t) \/ Reply(t) \/ Conclude(t) \/ Release(t)
           \/ RenewFails(t) \/ LockFails(t) \/ EnsureFails(t) \/ HeartbeatFails(t)
  BY <1>a, <1>9 DEF ReadJob, TryLock, Prepare, Reply, Conclude, Release, RenewFails, LockFails,
                    EnsureFails, HeartbeatFails
<1> QED BY <1>1, <1>2, <1>3, <1>4, <1>5, <1>6, <1>7, <1>8, <1>9 DEF ExecStep, ExecFault

\* Producers, time, claims and failures keep the lease invariant.
LEMMA OutsideLease ==
    ASSUME LeaseInv,
           \/ \E i \in Instances : Retention(i) \/ Crash(i)
           \/ \E j \in Jobs : Enqueue(j) \/ CancelPending(j) \/ TimeStep(j)
           \/ \E c \in Conns : DropSession(c) \/ OutsideLock(c) \/ OutsideUnlock(c)
    PROVE  LeaseOnRunning' /\ LegacyChecked'
<1> USE DEF LeaseInv
<1>1. ASSUME NEW i \in Instances, Retention(i) PROVE LeaseOnRunning' /\ LegacyChecked'
  <2>1. \A j \in Jobs : job[j].status = "RUNNING" => job'[j] = job[j] BY <1>1 DEF Retention
  <2> QED BY <1>1, <2>1 DEF Retention, LeaseOnRunning, LegacyChecked
<1>2. ASSUME NEW i \in Instances, Crash(i) PROVE LeaseOnRunning' /\ LegacyChecked'
  <2>1. \A k \in Instances : poll'[k] = IF k = i THEN IdlePoll ELSE poll[k] BY <1>2 DEF Crash, TypeOK
  <2> QED BY <1>2, <2>1 DEF Crash, LeaseOnRunning, LegacyChecked, IdlePoll
<1>3. ASSUME NEW j \in Jobs, Enqueue(j) \/ CancelPending(j) PROVE LeaseOnRunning' /\ LegacyChecked'
  <2>1. job[j].status # "RUNNING" BY <1>3 DEF Enqueue, CancelPending
  <2>2. \A k \in Jobs : k # j => job'[k] = job[k] BY <1>3 DEF Enqueue, CancelPending, Rewrite, TypeOK
  <2>3. UNCHANGED lease /\ poll' = Touched(j) BY <1>3 DEF Enqueue, CancelPending
  <2>4. LeaseOnRunning' BY <2>1, <2>2, <2>3 DEF LeaseOnRunning
  <2>5. LegacyChecked' BY <2>3, TouchedRow DEF LegacyChecked
  <2> QED BY <2>4, <2>5
<1>4. ASSUME NEW j \in Jobs, TimeStep(j) PROVE LeaseOnRunning' /\ LegacyChecked'
  <2>1. \A k \in Jobs : job'[k].status = job[k].status
    BY <1>4 DEF TimeStep, BecomeDue, AgeJob, AgeLease, TypeOK, JobRow
  <2>2. \A k \in Jobs : lease'[k].token = lease[k].token
    BY <1>4 DEF TimeStep, BecomeDue, AgeJob, AgeLease, TypeOK, LeaseRow
  <2>3. UNCHANGED poll BY <1>4 DEF TimeStep, BecomeDue, AgeJob, AgeLease
  <2> QED BY <2>1, <2>2, <2>3 DEF LeaseOnRunning, LegacyChecked
<1>5. ASSUME NEW c \in Conns, DropSession(c) \/ OutsideLock(c) \/ OutsideUnlock(c)
      PROVE  LeaseOnRunning' /\ LegacyChecked'
  BY <1>5 DEF DropSession, OutsideLock, OutsideUnlock, LeaseOnRunning, LegacyChecked
<1> QED BY <1>1, <1>2, <1>3, <1>4, <1>5

\* Every step keeps the lease invariant.
LEMMA LeaseStep == ASSUME LeaseInv, [Next]_vars PROVE LeaseInv'
<1>1. TypeOK' BY TypeStep DEF LeaseInv
<1>2. CASE UNCHANGED vars BY <1>1, <1>2 DEF vars, LeaseInv, LeaseOnRunning, LegacyChecked
<1>3. CASE Next BY <1>1, <1>3, PollLease, ExecLease, OutsideLease DEF Next, LeaseInv
<1> QED BY <1>2, <1>3

\* The error path of transitionClaimedNitradoJob (a lease without a RUNNING
\* job) is unreachable, for any number of workers, sweeps and failures.
THEOREM LeaseOnRunningHolds == Spec => []LeaseOnRunning
<1>1. Init => LeaseInv
  <2>1. Init => LeaseOnRunning /\ LegacyChecked
    BY DEF Init, LeaseOnRunning, LegacyChecked, NoLease, IdlePoll
  <2> QED BY <2>1, InitType DEF LeaseInv
<1>2. LeaseInv /\ [Next]_vars => LeaseInv' BY LeaseStep
<1>3. LeaseInv => LeaseOnRunning BY DEF LeaseInv
<1> QED BY <1>1, <1>2, <1>3, PTL DEF Spec

-----------------------------------------------------------------------------
(***************************************************************************)
(* Remote mutations of one connection never overlap while PostgreSQL keeps *)
(* the sessions that hold the locks.  The invariant: an execution between  *)
(* taking the lock and its last transition is the lock's holder, also when *)
(* its claim has long been given to another execution.                     *)
(***************************************************************************)
Holding == {"conn", "work", "mutate", "finish", "superseded"}

HoldsLock == \A t \in Tokens : exec[t] # None /\ exec[t].pc \in Holding => lock[ConnOfClaim(t)] = t

\* Where a step of t can take t, and that it moves nobody else.
LEMMA ExecMoves ==
    ASSUME TypeOK, HoldsLock, NEW t \in Tokens, ExecStep(t) \/ ExecFault(t) \/ Heartbeat(t)
    PROVE  /\ \A u \in Tokens : u # t => exec'[u] = exec[u]
           /\ exec'[t] # None => exec'[t].job = exec[t].job
           /\ \A c \in Conns : lock'[c] = lock[c] \/ lock[c] \in {None, t}
           /\ exec'[t] # None /\ exec'[t].pc \in Holding => lock'[ConnOfClaim(t)] = t
<1>0. exec[t] # None BY DEF ExecStep, ExecFault, At, Beating, Renew, RenewFails, ReadJob, TryLock, LockFails,
        Requeue, Prepare, EnsureClaimOwned, EnsureFails, Reply, Conclude, Finish, FinishFails,
        FailJob, FailJobFails, Release, Heartbeat, HeartbeatFails
<1>1. exec[t] \in ExecRow /\ exec \in [Tokens -> ExecRow \union {None}] BY <1>0 DEF TypeOK
<1>2. ConnOfClaim(t) \in Conns BY <1>1, ExecRows DEF ConnOfClaim
<1>3. exec[t].pc \in Holding => lock[ConnOfClaim(t)] = t BY <1>0 DEF HoldsLock
<1>a. ASSUME NEW r, r = None \/ (r \in ExecRow /\ r.job = exec[t].job),
             exec' = [exec EXCEPT ![t] = r],
             UNCHANGED lock, r # None /\ r.pc \in Holding => exec[t].pc \in Holding
      PROVE  /\ \A u \in Tokens : u # t => exec'[u] = exec[u]
             /\ exec'[t] # None => exec'[t].job = exec[t].job
             /\ \A c \in Conns : lock'[c] = lock[c] \/ lock[c] \in {None, t}
             /\ exec'[t] # None /\ exec'[t].pc \in Holding => lock'[ConnOfClaim(t)] = t
  BY <1>a, <1>1, <1>3
<1> DEFINE Goal == /\ \A u \in Tokens : u # t => exec'[u] = exec[u]
                   /\ exec'[t] # None => exec'[t].job = exec[t].job
                   /\ \A c \in Conns : lock'[c] = lock[c] \/ lock[c] \in {None, t}
                   /\ exec'[t] # None /\ exec'[t].pc \in Holding => lock'[ConnOfClaim(t)] = t
<1>b. ASSUME End(t), UNCHANGED lock PROVE Goal BY <1>a, <1>b DEF End
<1>c. ASSUME NEW pc \in ExecPCs, Goto(t, pc), UNCHANGED lock, pc \in Holding => exec[t].pc \in Holding
      PROVE  Goal
  <2>1. [exec[t] EXCEPT !.pc = pc] \in ExecRow /\ [exec[t] EXCEPT !.pc = pc].job = exec[t].job
        /\ [exec[t] EXCEPT !.pc = pc].pc = pc
    BY <1>1 DEF ExecRow
  <2>2. exec' = [exec EXCEPT ![t] = [exec[t] EXCEPT !.pc = pc]] BY <1>c, <1>1 DEF Goto
  <2> QED BY <1>a, <1>c, <2>1, <2>2
<1>d. ASSUME NEW p \in BOOLEAN, FailsWith(t, p), UNCHANGED lock PROVE Goal
  <2> DEFINE r == [exec[t] EXCEPT !.pc = "failing", !.permanent = p]
  <2>1. r \in ExecRow /\ r.job = exec[t].job /\ r.pc = "failing" BY <1>1 DEF ExecRow, ExecPCs
  <2>2. exec' = [exec EXCEPT ![t] = r] BY <1>d, <1>1 DEF FailsWith
  <2> QED BY <1>a, <1>d, <2>1, <2>2 DEF Holding
<1>e. ASSUME LosesClaim(t), UNCHANGED lock PROVE Goal
  <2> DEFINE r == [exec[t] EXCEPT !.pc = "release", !.lost = TRUE]
  <2>1. r \in ExecRow /\ r.job = exec[t].job /\ r.pc = "release" BY <1>1 DEF ExecRow, ExecPCs
  <2>2. exec' = [exec EXCEPT ![t] = r] BY <1>e, <1>1 DEF LosesClaim
  <2> QED BY <1>a, <1>e, <2>1, <2>2 DEF Holding
<1>f. ASSUME exec' = [exec EXCEPT ![t].lost = TRUE], UNCHANGED lock PROVE Goal
  <2> DEFINE r == [exec[t] EXCEPT !.lost = TRUE]
  <2>1. r \in ExecRow /\ r.job = exec[t].job /\ r.pc = exec[t].pc BY <1>1 DEF ExecRow
  <2>2. exec' = [exec EXCEPT ![t] = r] BY <1>f, <1>1
  <2> HIDE DEF r
  <2> QED BY <1>a, <1>f, <2>1, <2>2
<1>4. CASE Renew(t) BY <1>4, <1>b, <1>c DEF Renew, ExecPCs, Holding
<1>5. CASE ReadJob(t)
  <2> DEFINE r == [exec[t] EXCEPT !.pc = "lock", !.attempts = job[exec[t].job].attempts]
  <2>1. job[exec[t].job].attempts \in Nat BY <1>1 DEF ExecRow, TypeOK, JobRow
  <2>2. r \in ExecRow /\ r.job = exec[t].job /\ r.pc = "lock" BY <1>1, <2>1 DEF ExecRow, ExecPCs
  <2>3. End(t) \/ exec' = [exec EXCEPT ![t] = r] BY <1>5, <1>1 DEF ReadJob
  <2>4. UNCHANGED lock BY <1>5 DEF ReadJob
  <2> HIDE DEF r
  <2> QED BY <1>a, <1>b, <2>2, <2>3, <2>4 DEF Holding
<1>6. CASE TryLock(t)
  <2>1. CASE lock[ConnOfClaim(t)] = None
    <3>1. lock' = [lock EXCEPT ![ConnOfClaim(t)] = t] /\ Goto(t, "conn") BY <1>6, <2>1 DEF TryLock
    <3>2. exec' = [exec EXCEPT ![t] = [exec[t] EXCEPT !.pc = "conn"]] BY <3>1, <1>1 DEF Goto
    <3>3. exec'[t].job = exec[t].job /\ \A u \in Tokens : u # t => exec'[u] = exec[u]
      BY <3>2, <1>1 DEF ExecRow
    <3>4. lock'[ConnOfClaim(t)] = t BY <3>1, <1>2 DEF TypeOK
    <3>5. \A c \in Conns : lock'[c] = lock[c] \/ lock[c] \in {None, t} BY <2>1, <3>1 DEF TypeOK
    <3> QED BY <3>3, <3>4, <3>5
  <2>2. CASE lock[ConnOfClaim(t)] # None BY <1>6, <2>2, <1>c DEF TryLock, ExecPCs, Holding
  <2> QED BY <2>1, <2>2
<1>7. CASE Requeue(t) BY <1>7, <1>b DEF Requeue
<1>8. CASE Prepare(t)
  <2>1. exec[t].pc \in Holding /\ UNCHANGED lock BY <1>8 DEF Prepare, At, Holding
  <2> QED BY <1>8, <2>1, <1>c, <1>d DEF Prepare, ExecPCs
<1>9. CASE EnsureClaimOwned(t)
  <2>1. exec[t].pc \in Holding /\ UNCHANGED lock BY <1>9 DEF EnsureClaimOwned, At, Holding
  <2> QED BY <1>9, <2>1, <1>c, <1>e DEF EnsureClaimOwned, ExecPCs
<1>10. CASE Reply(t)
  <2>1. exec[t].pc \in Holding /\ UNCHANGED lock BY <1>10 DEF Reply, At, Holding
  <2> DEFINE r == [exec[t] EXCEPT !.pc = "work", !.calls = exec[t].calls + 1]
  <2>2. exec[t].calls + 1 \in Nat BY <1>1 DEF ExecRow
  <2>3. r \in ExecRow BY <1>1, <2>2, ExecRows
  <2>4. r.job = exec[t].job BY <1>1 DEF ExecRow
  <2>5. exec' = [exec EXCEPT ![t] = r] => Goal
    <3> HIDE DEF r
    <3> QED BY <1>a, <2>1, <2>3, <2>4
  <2> QED BY <1>10, <2>1, <2>5, <1>d DEF Reply
<1>11. CASE Conclude(t)
  <2>1. exec[t].pc \in Holding /\ UNCHANGED lock BY <1>11 DEF Conclude, At, Holding
  <2> QED BY <1>11, <2>1, <1>c, <1>d DEF Conclude, ExecPCs
<1>12. CASE Finish(t) \/ FailJob(t) \/ LockFails(t) \/ FinishFails(t) \/ FailJobFails(t)
  <2>1. (\E pc \in {"release", "failing"} : Goto(t, pc)) /\ UNCHANGED lock
    BY <1>12 DEF Finish, FailJob, LockFails, FinishFails, FailJobFails
  <2> QED BY <2>1, <1>c DEF ExecPCs, Holding
<1>13. CASE Release(t)
  <2>1. \A c \in Conns : lock'[c] = lock[c] \/ lock[c] = t BY <1>13 DEF Release, TypeOK
  <2>2. exec'[t] = None /\ \A u \in Tokens : u # t => exec'[u] = exec[u]
    BY <1>13, <1>1 DEF Release, End
  <2> QED BY <2>1, <2>2
<1>14. CASE RenewFails(t) BY <1>14, <1>b DEF RenewFails
<1>15. CASE EnsureFails(t) BY <1>15, <1>e DEF EnsureFails
<1>16. CASE HeartbeatFails(t) BY <1>16, <1>f DEF HeartbeatFails
<1>17. CASE Heartbeat(t)
  <2>1. CASE Owns(t) BY <1>17, <2>1, <1>3 DEF Heartbeat
  <2>2. CASE ~Owns(t) BY <1>17, <2>2, <1>f DEF Heartbeat
  <2> QED BY <2>1, <2>2
<1> QED BY <1>4, <1>5, <1>6, <1>7, <1>8, <1>9, <1>10, <1>11, <1>12, <1>13, <1>14, <1>15, <1>16, <1>17
        DEF ExecStep, ExecFault

\* Every step keeps HoldsLock, unless a lock session is lost.
LEMMA LockStep ==
    ASSUME TypeOK, HoldsLock, SessionLoss = FALSE, [Next]_vars
    PROVE  HoldsLock'
<1>a. ASSUME UNCHANGED <<exec, lock>> PROVE HoldsLock'
  BY <1>a DEF HoldsLock, ConnOfClaim
<1>b. \A t \in Tokens : exec[t] # None => exec[t] \in ExecRow /\ ConnOfClaim(t) \in Conns
  <2> SUFFICES ASSUME NEW t \in Tokens, exec[t] # None
               PROVE  exec[t] \in ExecRow /\ ConnOfClaim(t) \in Conns
    OBVIOUS
  <2>1. exec[t] \in ExecRow BY DEF TypeOK
  <2> QED BY <2>1, ExecRows DEF ConnOfClaim
<1>1. ASSUME NEW i \in Instances, PollStep(i) PROVE HoldsLock'
  <2>1. CASE Claim(i)
    <3>1. UNCHANGED lock BY <2>1 DEF Claim
    <3>2. \A t \in Tokens : \/ exec'[t] = exec[t]
                            \/ exec'[t].pc = "renew"
      <4>1. CASE UNCHANGED exec BY <4>1
      <4>2. CASE \E u \in Tokens, j \in poll[i].jobs :
                   exec' = [exec EXCEPT ![u] =
                              [pc |-> "renew", inst |-> i, job |-> j, attempts |-> 0,
                               lost |-> FALSE, calls |-> 0, permanent |-> FALSE]]
        BY <4>2 DEF TypeOK
      <4> QED BY <2>1, <4>1, <4>2 DEF Claim
    <3> QED BY <3>1, <3>2 DEF HoldsLock, ConnOfClaim, Holding
  <2>2. CASE ~Claim(i)
    BY <1>1, <2>2, <1>a DEF PollStep, PollStart, RecoverLease, LegacyRead, LegacySkip, LegacyCheck,
       LegacyUpdate, ReadCandidates, SelectBatch, StartBatch, PollEnd
  <2> QED BY <2>1, <2>2
<1>2. ASSUME NEW t \in Tokens, ExecStep(t) \/ ExecFault(t) \/ Heartbeat(t) PROVE HoldsLock'
  <2>1. /\ \A u \in Tokens : u # t => exec'[u] = exec[u]
        /\ exec'[t] # None => exec'[t].job = exec[t].job
        /\ \A c \in Conns : lock'[c] = lock[c] \/ lock[c] \in {None, t}
        /\ exec'[t] # None /\ exec'[t].pc \in Holding => lock'[ConnOfClaim(t)] = t
    BY <1>2, ExecMoves
  <2>2. ASSUME NEW u \in Tokens, u # t, exec'[u] # None, exec'[u].pc \in Holding
        PROVE  lock'[ConnOf[exec'[u].job]] = u
    <3>1. lock[ConnOfClaim(u)] = u BY <2>1, <2>2 DEF HoldsLock
    <3>2. ConnOfClaim(u) \in Conns BY <1>b, <2>1, <2>2
    <3>3. lock'[ConnOfClaim(u)] = u BY <2>1, <2>2, <3>1, <3>2
    <3> QED BY <2>1, <2>2, <3>3 DEF ConnOfClaim
  <2>3. ASSUME exec'[t] # None, exec'[t].pc \in Holding PROVE lock'[ConnOf[exec'[t].job]] = t
    BY <2>1, <2>3 DEF ConnOfClaim
  <2> QED BY <2>2, <2>3 DEF HoldsLock, ConnOfClaim
<1>3. ASSUME NEW i \in Instances, Crash(i) PROVE HoldsLock'
  <2>1. \A t \in Tokens : exec'[t] = None \/ (exec'[t] = exec[t] /\ t \notin Running(i))
    BY <1>3 DEF Crash
  <2>2. \A c \in Conns : lock'[c] = lock[c] \/ lock[c] \in Running(i) BY <1>3 DEF Crash
  <2> QED BY <1>b, <2>1, <2>2 DEF HoldsLock, ConnOfClaim
<1>4. ASSUME NEW c \in Conns, DropSession(c) \/ OutsideLock(c) \/ OutsideUnlock(c) PROVE HoldsLock'
  <2>1. UNCHANGED exec BY <1>4 DEF DropSession, OutsideLock, OutsideUnlock
  <2>2. \A d \in Conns : lock'[d] = lock[d] \/ lock[d] \in {None, Config}
    BY <1>4 DEF DropSession, OutsideLock, OutsideUnlock, TypeOK
  <2> QED BY <1>b, <2>1, <2>2 DEF HoldsLock, ConnOfClaim
<1>5. ASSUME \/ \E i \in Instances : Retention(i)
             \/ \E j \in Jobs : Enqueue(j) \/ CancelPending(j) \/ TimeStep(j)
      PROVE  HoldsLock'
  BY <1>5, <1>a DEF Retention, Enqueue, CancelPending, TimeStep, BecomeDue, AgeJob, AgeLease
<1>6. CASE UNCHANGED vars BY <1>6, <1>a DEF vars
<1> QED BY <1>1, <1>2, <1>3, <1>4, <1>5, <1>6 DEF Next

\* The worker's promise to serialise the remote mutations of a connection,
\* under the one assumption that no lock session is lost (the run
\* session shows that it is needed).
THEOREM CallsSerialisedHolds ==
    ASSUME SessionLoss = FALSE
    PROVE  Spec => []CallsSerialised
<1>1. Init => TypeOK /\ HoldsLock
  <2>1. Init => HoldsLock BY DEF Init, HoldsLock
  <2> QED BY <2>1, InitType
<1>2. TypeOK /\ HoldsLock /\ [Next]_vars => (TypeOK /\ HoldsLock)'
  BY TypeStep, LockStep
<1>3. TypeOK /\ HoldsLock => CallsSerialised
  <2> SUFFICES ASSUME HoldsLock PROVE CallsSerialised OBVIOUS
  <2>1. ASSUME NEW t \in Tokens, NEW u \in Tokens, exec[t] # None, exec[u] # None,
               exec[t].pc = "mutate", exec[u].pc = "mutate", ConnOfClaim(t) = ConnOfClaim(u)
        PROVE  t = u
    BY <2>1 DEF HoldsLock, Holding
  <2> QED BY <2>1 DEF CallsSerialised
<1> QED BY <1>1, <1>2, <1>3, PTL DEF Spec
-----------------------------------------------------------------------------
(***************************************************************************)
(* No connection lock leaks: whoever holds one is under way and comes to   *)
(* its finally block.  Inductive with the types: a claim starts with a     *)
(* token no execution has, so a holder is never replaced by another.       *)
(***************************************************************************)
HolderPCs == Holding \union {"failing", "release"}

\* A step of an execution that takes no lock and, past the lock, goes on or unlocks.
LEMMA HolderExec ==
    ASSUME TypeOK, LockHolderWorks, NEW t \in Tokens, ExecStep(t) \/ ExecFault(t) \/ Heartbeat(t)
    PROVE  LockHolderWorks'
<1>0. exec[t] # None BY DEF ExecStep, ExecFault, At, Beating, Renew, RenewFails, ReadJob, TryLock, LockFails,
        Requeue, Prepare, EnsureClaimOwned, EnsureFails, Reply, Conclude, Finish, FinishFails,
        FailJob, FailJobFails, Release, Heartbeat, HeartbeatFails
<1>1. exec[t] \in ExecRow /\ exec \in [Tokens -> ExecRow \union {None}] BY <1>0 DEF TypeOK
<1>2. exec[t].job \in Jobs /\ ConnOfClaim(t) \in Conns BY <1>1, ConnOfType DEF ConnOfClaim, ExecRow
<1>a. ASSUME NEW r, exec' = [exec EXCEPT ![t] = r], UNCHANGED lock,
             exec[t].pc \in HolderPCs => r \in ExecRow /\ r.job = exec[t].job /\ r.pc \in HolderPCs
      PROVE  LockHolderWorks'
  <2>1. \A u \in Tokens : exec'[u] = IF u = t THEN r ELSE exec[u] BY <1>a, <1>1
  <2>2. ASSUME NEW c \in Conns, lock[c] = t
        PROVE  r # None /\ ConnOf[r.job] = c /\ r.pc \in HolderPCs
    BY <1>a, <2>2, NoneIsFresh DEF LockHolderWorks, HolderPCs, Holding
  <2> QED BY <1>a, <2>1, <2>2 DEF LockHolderWorks, HolderPCs, Holding
<1>b. ASSUME End(t), UNCHANGED lock, exec[t].pc \notin HolderPCs PROVE LockHolderWorks'
  BY <1>a, <1>b DEF End
<1>c. ASSUME NEW pc \in ExecPCs, Goto(t, pc), UNCHANGED lock, exec[t].pc \in HolderPCs => pc \in HolderPCs
      PROVE  LockHolderWorks'
  <2> DEFINE r == [exec[t] EXCEPT !.pc = pc]
  <2>1. r \in ExecRow /\ r.job = exec[t].job /\ r.pc = pc BY <1>1 DEF ExecRow
  <2>2. exec' = [exec EXCEPT ![t] = r] BY <1>c, <1>1 DEF Goto
  <2> HIDE DEF r
  <2> QED BY <1>a, <1>c, <2>1, <2>2
<1>d. ASSUME NEW p \in BOOLEAN, FailsWith(t, p), UNCHANGED lock PROVE LockHolderWorks'
  <2> DEFINE r == [exec[t] EXCEPT !.pc = "failing", !.permanent = p]
  <2>1. r \in ExecRow /\ r.job = exec[t].job /\ r.pc = "failing" BY <1>1 DEF ExecRow, ExecPCs
  <2>2. exec' = [exec EXCEPT ![t] = r] BY <1>d, <1>1 DEF FailsWith
  <2> HIDE DEF r
  <2> QED BY <1>a, <1>d, <2>1, <2>2 DEF HolderPCs
<1>e. ASSUME LosesClaim(t), UNCHANGED lock PROVE LockHolderWorks'
  <2> DEFINE r == [exec[t] EXCEPT !.pc = "release", !.lost = TRUE]
  <2>1. r \in ExecRow /\ r.job = exec[t].job /\ r.pc = "release" BY <1>1 DEF ExecRow, ExecPCs
  <2>2. exec' = [exec EXCEPT ![t] = r] BY <1>e, <1>1 DEF LosesClaim
  <2> HIDE DEF r
  <2> QED BY <1>a, <1>e, <2>1, <2>2 DEF HolderPCs
<1>f. ASSUME exec' = [exec EXCEPT ![t].lost = TRUE], UNCHANGED lock PROVE LockHolderWorks'
  <2> DEFINE r == [exec[t] EXCEPT !.lost = TRUE]
  <2>1. r \in ExecRow /\ r.job = exec[t].job /\ r.pc = exec[t].pc BY <1>1 DEF ExecRow
  <2>2. exec' = [exec EXCEPT ![t] = r] BY <1>f, <1>1
  <2> HIDE DEF r
  <2> QED BY <1>a, <1>f, <2>1, <2>2
<1>3. CASE Renew(t) \/ RenewFails(t) \/ Requeue(t)
  <2>1. (End(t) \/ Goto(t, "read")) /\ UNCHANGED lock BY <1>3 DEF Renew, RenewFails, Requeue
  <2>2. exec[t].pc \notin HolderPCs BY <1>3 DEF Renew, RenewFails, Requeue, At, HolderPCs, Holding
  <2> QED BY <2>1, <2>2, <1>b, <1>c DEF ExecPCs
<1>4. CASE ReadJob(t)
  <2>1. \E r : exec' = [exec EXCEPT ![t] = r] BY <1>4 DEF ReadJob, End
  <2>2. exec[t].pc \notin HolderPCs /\ UNCHANGED lock BY <1>4 DEF ReadJob, At, HolderPCs, Holding
  <2> QED BY <2>1, <2>2, <1>a
<1>5. CASE TryLock(t)
  <2>1. exec[t].pc \notin HolderPCs BY <1>5 DEF TryLock, At, HolderPCs, Holding
  <2>2. CASE lock[ConnOfClaim(t)] = None
    <3>1. lock' = [lock EXCEPT ![ConnOfClaim(t)] = t] /\ Goto(t, "conn") BY <1>5, <2>2 DEF TryLock
    <3>2. exec'[t] \in ExecRow /\ exec'[t].job = exec[t].job /\ exec'[t].pc = "conn"
      BY <3>1, <1>1 DEF Goto, ExecRow, ExecPCs
    <3>3. \A u \in Tokens : u # t => exec'[u] = exec[u] BY <3>1, <1>1 DEF Goto
    <3>4. \A c \in Conns : lock'[c] = IF c = ConnOfClaim(t) THEN t ELSE lock[c] BY <3>1 DEF TypeOK
    <3>5. \A c \in Conns : lock[c] # t BY <2>1 DEF LockHolderWorks, HolderPCs, Holding
    <3> QED BY <3>2, <3>3, <3>4, <3>5, NoneIsFresh DEF LockHolderWorks, ConnOfClaim
  <2>3. CASE lock[ConnOfClaim(t)] # None BY <1>5, <2>1, <2>3, <1>c DEF TryLock, ExecPCs
  <2> QED BY <2>2, <2>3
<1>6. CASE Prepare(t) \/ EnsureClaimOwned(t) \/ Conclude(t)
  <2>1. UNCHANGED lock BY <1>6 DEF Prepare, EnsureClaimOwned, Conclude
  <2>2. \/ \E pc \in {"work", "superseded", "mutate", "finish"} : Goto(t, pc)
        \/ \E p \in BOOLEAN : FailsWith(t, p)
        \/ LosesClaim(t)
    BY <1>6 DEF Prepare, EnsureClaimOwned, Conclude
  <2> QED BY <2>1, <2>2, <1>c, <1>d, <1>e DEF ExecPCs, HolderPCs, Holding
<1>7. CASE Reply(t)
  <2> DEFINE r == [exec[t] EXCEPT !.pc = "work", !.calls = exec[t].calls + 1]
  <2>1. exec[t].calls + 1 \in Nat BY <1>1 DEF ExecRow
  <2>2. r \in ExecRow BY <1>1, <2>1 DEF ExecRow, ExecPCs
  <2>3. r.job = exec[t].job /\ r.pc = "work" BY <1>1 DEF ExecRow
  <2>4. UNCHANGED lock /\ (exec' = [exec EXCEPT ![t] = r] \/ \E p \in BOOLEAN : FailsWith(t, p)) BY <1>7 DEF Reply
  <2> HIDE DEF r
  <2> QED BY <2>2, <2>3, <2>4, <1>a, <1>d DEF HolderPCs, Holding
<1>8. CASE Finish(t) \/ FailJob(t) \/ LockFails(t) \/ FinishFails(t) \/ FailJobFails(t)
  <2>1. (\E pc \in {"release", "failing"} : Goto(t, pc)) /\ UNCHANGED lock
    BY <1>8 DEF Finish, FailJob, LockFails, FinishFails, FailJobFails
  <2> QED BY <2>1, <1>c DEF ExecPCs, HolderPCs
<1>9. CASE Release(t)
  <2>1. \A c \in Conns : lock'[c] # t /\ (lock'[c] = lock[c] \/ lock'[c] = None) BY <1>9, NoneIsFresh DEF Release, TypeOK
  <2>2. \A u \in Tokens : u # t => exec'[u] = exec[u] BY <1>9, <1>1 DEF Release, End
  <2> QED BY <2>1, <2>2, NoneIsFresh DEF LockHolderWorks
<1>10. CASE EnsureFails(t) BY <1>10, <1>e DEF EnsureFails
<1>11. CASE HeartbeatFails(t) BY <1>11, <1>f DEF HeartbeatFails
<1>12. CASE Heartbeat(t)
  <2>1. CASE Owns(t) BY <1>12, <2>1 DEF Heartbeat, LockHolderWorks
  <2>2. CASE ~Owns(t) BY <1>12, <2>2, <1>f DEF Heartbeat
  <2> QED BY <2>1, <2>2
<1> QED BY <1>3, <1>4, <1>5, <1>6, <1>7, <1>8, <1>9, <1>10, <1>11, <1>12 DEF ExecStep, ExecFault

\* Every step keeps the holders of the locks under way.
LEMMA HolderStep == ASSUME TypeOK, LockHolderWorks, [Next]_vars PROVE LockHolderWorks'
<1>a. ASSUME UNCHANGED <<exec, lock>> PROVE LockHolderWorks' BY <1>a DEF LockHolderWorks
<1>1. ASSUME NEW i \in Instances, PollStep(i) PROVE LockHolderWorks'
  <2>1. CASE Claim(i)
    <3>1. UNCHANGED lock BY <2>1 DEF Claim
    <3>2. \A t \in Tokens : exec[t] # None => exec'[t] = exec[t]
      <4>1. CASE UNCHANGED exec BY <4>1
      <4>2. CASE \E u \in Tokens : \E r : Fresh(u) /\ exec' = [exec EXCEPT ![u] = r] BY <4>2 DEF Fresh, TypeOK
      <4> QED BY <2>1, <4>1, <4>2 DEF Claim
    <3> QED BY <3>1, <3>2 DEF LockHolderWorks
  <2>2. CASE ~Claim(i)
    BY <1>1, <2>2, <1>a DEF PollStep, PollStart, RecoverLease, LegacyRead, LegacySkip, LegacyCheck,
       LegacyUpdate, ReadCandidates, SelectBatch, StartBatch, PollEnd
  <2> QED BY <2>1, <2>2
<1>2. ASSUME NEW t \in Tokens, ExecStep(t) \/ ExecFault(t) \/ Heartbeat(t) PROVE LockHolderWorks'
  BY <1>2, HolderExec
<1>3. ASSUME NEW i \in Instances, Crash(i) PROVE LockHolderWorks'
  <2>1. \A t \in Tokens : t \notin Running(i) => exec'[t] = exec[t] BY <1>3 DEF Crash
  <2>2. \A c \in Conns : \/ lock'[c] = None
                         \/ lock'[c] = lock[c] /\ lock[c] \notin Running(i)
    BY <1>3 DEF Crash
  <2> QED BY <2>1, <2>2, NoneIsFresh DEF LockHolderWorks
<1>4. ASSUME NEW c \in Conns, DropSession(c) \/ OutsideLock(c) \/ OutsideUnlock(c) PROVE LockHolderWorks'
  <2>1. UNCHANGED exec BY <1>4 DEF DropSession, OutsideLock, OutsideUnlock
  <2>2. \A d \in Conns : lock'[d] = lock[d] \/ lock'[d] \notin Tokens
    BY <1>4, NoneIsFresh DEF DropSession, OutsideLock, OutsideUnlock, TypeOK
  <2> QED BY <2>1, <2>2 DEF LockHolderWorks
<1>5. ASSUME \/ \E i \in Instances : Retention(i)
             \/ \E j \in Jobs : Enqueue(j) \/ CancelPending(j) \/ TimeStep(j)
      PROVE  LockHolderWorks'
  BY <1>5, <1>a DEF Retention, Enqueue, CancelPending, TimeStep, BecomeDue, AgeJob, AgeLease
<1>6. CASE UNCHANGED vars BY <1>6, <1>a DEF vars
<1> QED BY <1>1, <1>2, <1>3, <1>4, <1>5, <1>6 DEF Next

\* No path of executeJob (a lost claim, a failed transaction, a crash) leaves a
\* connection locked by an execution that is over or works on another connection.
THEOREM LockHolderWorksHolds == Spec => []LockHolderWorks
<1>1. Init => LockHolderWorks BY NoneIsFresh DEF Init, LockHolderWorks
<1>2. TypeOK /\ LockHolderWorks /\ [Next]_vars => (TypeOK /\ LockHolderWorks)' BY TypeStep, HolderStep
<1> QED BY <1>1, <1>2, InitType, PTL DEF Spec
-----------------------------------------------------------------------------
(***************************************************************************)
(* Nobody takes the job from a live execution when heartbeats are timely.  *)
(* The invariant follows what could: its lease is young, so no sweep may   *)
(* begin to look for it; no sweep under way found it stale; its token is   *)
(* on no other job, so no other transition deletes the lease; and its job  *)
(* is RUNNING (LeaseOnRunning), so nobody claims it again.                 *)
(***************************************************************************)
LivePCs == {"renew", "read", "lock", "requeue", "conn", "work", "mutate"}
Live(t) == exec[t] # None /\ ~exec[t].lost /\ exec[t].pc \in LivePCs

OneLease == \A j, k \in Jobs : lease[j].token # None /\ lease[j].token = lease[k].token => j = k

LiveKept ==
    \A t \in Tokens : Live(t) =>
        /\ Owns(t) /\ ~lease[exec[t].job].old
        /\ \A i \in Instances : t \notin poll[i].oldLeases

LiveInv == LeaseInv /\ OneLease /\ LiveKept

\* What the sweeps hold as stale leases grows by none.
SweepsSame == \A i \in Instances : poll'[i].oldLeases \subseteq poll[i].oldLeases

\* Rows and sweeps stay, and no execution begins to live: neither does its danger.
LEMMA LiveSame ==
    ASSUME LiveInv, UNCHANGED lease, SweepsSame,
           \A t \in Tokens : Live(t)' => Live(t) /\ exec'[t].job = exec[t].job
    PROVE  OneLease' /\ LiveKept'
BY DEF LiveInv, OneLease, LiveKept, SweepsSame, Owns

\* One job loses its lease, and no execution that lives on had it.
LEMMA LiveLoses ==
    ASSUME LiveInv, SweepsSame, NEW j \in Jobs, lease' = [lease EXCEPT ![j] = NoLease],
           \A t \in Tokens : Live(t)' => /\ Live(t) /\ exec'[t].job = exec[t].job
                                         /\ lease[j].token # t
    PROVE  OneLease' /\ LiveKept'
<1>1. \A k \in Jobs : lease'[k] = IF k = j THEN NoLease ELSE lease[k] BY DEF LiveInv, LeaseInv, TypeOK
<1>2. OneLease' BY <1>1 DEF LiveInv, OneLease, NoLease
<1>3. ASSUME NEW t \in Tokens, Live(t)'
      PROVE  /\ Owns(t)' /\ ~(lease[exec[t].job].old)'
             /\ \A i \in Instances : t \notin poll'[i].oldLeases
  <2>1. Live(t) /\ exec'[t].job = exec[t].job /\ lease[j].token # t BY <1>3
  <2>2. lease[exec[t].job].token = t BY <2>1 DEF LiveInv, LiveKept, Owns
  <2>3. exec[t].job \in Jobs BY <2>1 DEF Live, LiveInv, LeaseInv, TypeOK, ExecRow
  <2>4. lease'[exec[t].job] = lease[exec[t].job] BY <1>1, <2>1, <2>2, <2>3
  <2> QED BY <2>1, <2>4 DEF LiveInv, LiveKept, Owns, SweepsSame
<1> QED BY <1>2, <1>3 DEF LiveKept

\* A renewal makes a lease young again.
LEMMA LiveRenews ==
    ASSUME LiveInv, NEW t \in Tokens, exec[t] # None, Owns(t), RenewLease(t),
           \A u \in Tokens : Live(u)' => Live(u) /\ exec'[u].job = exec[u].job
    PROVE  OneLease' /\ LiveKept'
<1>0. exec[t].job \in Jobs BY DEF LiveInv, LeaseInv, TypeOK, ExecRow
<1>1. \A k \in Jobs : /\ lease'[k].token = lease[k].token
                      /\ lease'[k].old => lease[k].old
  BY <1>0 DEF RenewLease, LiveInv, LeaseInv, TypeOK, LeaseRow
<1>2. SweepsSame BY DEF SweepsSame, RenewLease, LiveInv, LeaseInv, TypeOK, PollRow
<1>3. \A u \in Tokens : exec[u] # None => exec[u].job \in Jobs BY DEF LiveInv, LeaseInv, TypeOK, ExecRow
<1>4. OneLease' BY <1>1 DEF LiveInv, OneLease
<1>5. LiveKept' BY <1>1, <1>2, <1>3 DEF LiveInv, LiveKept, Live, Owns, SweepsSame
<1> QED BY <1>4, <1>5

\* A step of an execution moves nobody else, and nobody comes to life by it.
LEMMA LiveMoves ==
    ASSUME TypeOK, NEW t \in Tokens, ExecStep(t) \/ ExecFault(t) \/ Heartbeat(t)
    PROVE  /\ exec[t] # None /\ exec[t].job \in Jobs
           /\ \A u \in Tokens : u # t => exec'[u] = exec[u]
           /\ Live(t)' => Live(t) /\ exec'[t].job = exec[t].job
<1>0. exec[t] # None BY DEF ExecStep, ExecFault, At, Beating, Renew, RenewFails, ReadJob, TryLock, LockFails,
        Requeue, Prepare, EnsureClaimOwned, EnsureFails, Reply, Conclude, Finish, FinishFails,
        FailJob, FailJobFails, Release, Heartbeat, HeartbeatFails
<1>1. exec[t] \in ExecRow /\ exec \in [Tokens -> ExecRow \union {None}] BY <1>0 DEF TypeOK
<1>2. exec[t].job \in Jobs BY <1>1 DEF ExecRow
<1> DEFINE Goal == /\ \A u \in Tokens : u # t => exec'[u] = exec[u]
                   /\ Live(t)' => Live(t) /\ exec'[t].job = exec[t].job
<1>a. ASSUME NEW r, exec' = [exec EXCEPT ![t] = r],
             r # None /\ ~r.lost /\ r.pc \in LivePCs => ~exec[t].lost /\ exec[t].pc \in LivePCs /\ r.job = exec[t].job
      PROVE  Goal
  <2>1. exec'[t] = r /\ \A u \in Tokens : u # t => exec'[u] = exec[u] BY <1>a, <1>1
  <2> QED BY <1>0, <1>a, <2>1 DEF Live
<1>b. ASSUME End(t) PROVE Goal BY <1>a, <1>b DEF End
<1>c. ASSUME NEW pc \in ExecPCs, Goto(t, pc), pc \in LivePCs => exec[t].pc \in LivePCs PROVE Goal
  <2> DEFINE r == [exec[t] EXCEPT !.pc = pc]
  <2>1. r.job = exec[t].job /\ r.pc = pc /\ r.lost = exec[t].lost BY <1>1 DEF ExecRow
  <2>2. exec' = [exec EXCEPT ![t] = r] BY <1>c, <1>1 DEF Goto
  <2> HIDE DEF r
  <2> QED BY <1>a, <1>c, <2>1, <2>2
<1>d. ASSUME NEW p \in BOOLEAN, FailsWith(t, p) PROVE Goal
  <2> DEFINE r == [exec[t] EXCEPT !.pc = "failing", !.permanent = p]
  <2>1. r.pc = "failing" BY <1>1 DEF ExecRow
  <2>2. exec' = [exec EXCEPT ![t] = r] BY <1>d, <1>1 DEF FailsWith
  <2> HIDE DEF r
  <2> QED BY <1>a, <2>1, <2>2 DEF LivePCs
<1>e. ASSUME NEW r, r.lost, exec' = [exec EXCEPT ![t] = r] PROVE Goal BY <1>a, <1>e
<1>f. LosesClaim(t) => Goal
  <2> DEFINE r == [exec[t] EXCEPT !.pc = "release", !.lost = TRUE]
  <2>1. r.lost BY <1>1 DEF ExecRow
  <2>2. LosesClaim(t) => exec' = [exec EXCEPT ![t] = r] BY <1>1 DEF LosesClaim
  <2> HIDE DEF r
  <2> QED BY <1>e, <2>1, <2>2
<1>g. exec' = [exec EXCEPT ![t].lost = TRUE] => Goal
  <2> DEFINE r == [exec[t] EXCEPT !.lost = TRUE]
  <2>1. r.lost BY <1>1 DEF ExecRow
  <2>2. exec' = [exec EXCEPT ![t].lost = TRUE] => exec' = [exec EXCEPT ![t] = r] BY <1>1
  <2> HIDE DEF r
  <2> QED BY <1>e, <2>1, <2>2
<1> SUFFICES Goal BY <1>0, <1>2
<1>3. CASE Renew(t) \/ RenewFails(t) \/ Requeue(t) \/ Release(t)
  <2>1. CASE Renew(t)
    <3>1. exec[t].pc \in LivePCs BY <2>1 DEF Renew, At, LivePCs
    <3> QED BY <2>1, <3>1, <1>b, <1>c DEF Renew, ExecPCs
  <2>2. CASE RenewFails(t) \/ Requeue(t) \/ Release(t) BY <2>2, <1>b DEF RenewFails, Requeue, Release
  <2> QED BY <1>3, <2>1, <2>2
<1>4. CASE ReadJob(t)
  <2> DEFINE r == [exec[t] EXCEPT !.pc = "lock", !.attempts = job[exec[t].job].attempts]
  <2>1. r.job = exec[t].job /\ r.lost = exec[t].lost BY <1>1 DEF ExecRow
  <2>2. End(t) \/ exec' = [exec EXCEPT ![t] = r] BY <1>4, <1>1 DEF ReadJob
  <2>3. exec[t].pc \in LivePCs BY <1>4 DEF ReadJob, At, LivePCs
  <2> HIDE DEF r
  <2> QED BY <1>a, <1>b, <2>1, <2>2, <2>3
<1>5. CASE TryLock(t) \/ LockFails(t)
  <2>1. exec[t].pc \in LivePCs BY <1>5 DEF TryLock, LockFails, At, LivePCs
  <2>2. \E pc \in {"conn", "requeue", "failing"} : Goto(t, pc) BY <1>5 DEF TryLock, LockFails
  <2> QED BY <2>1, <2>2, <1>c DEF ExecPCs
<1>6. CASE Prepare(t) \/ EnsureClaimOwned(t) \/ Conclude(t)
  <2>1. exec[t].pc \in LivePCs BY <1>6 DEF Prepare, EnsureClaimOwned, Conclude, At, LivePCs
  <2>2. \/ \E pc \in {"work", "superseded", "mutate", "finish"} : Goto(t, pc)
        \/ \E p \in BOOLEAN : FailsWith(t, p)
        \/ LosesClaim(t)
    BY <1>6 DEF Prepare, EnsureClaimOwned, Conclude
  <2> QED BY <2>1, <2>2, <1>c, <1>d, <1>f DEF ExecPCs
<1>7. CASE Reply(t)
  <2> DEFINE r == [exec[t] EXCEPT !.pc = "work", !.calls = exec[t].calls + 1]
  <2>1. r.job = exec[t].job /\ r.lost = exec[t].lost BY <1>1 DEF ExecRow
  <2>2. exec[t].pc \in LivePCs BY <1>7 DEF Reply, At, LivePCs
  <2>3. exec' = [exec EXCEPT ![t] = r] \/ \E p \in BOOLEAN : FailsWith(t, p) BY <1>7 DEF Reply
  <2> HIDE DEF r
  <2> QED BY <2>1, <2>2, <2>3, <1>a, <1>d
<1>8. CASE Finish(t) \/ FailJob(t) \/ FinishFails(t) \/ FailJobFails(t)
  <2>1. \E pc \in {"release", "failing"} : Goto(t, pc) BY <1>8 DEF Finish, FailJob, FinishFails, FailJobFails
  <2> QED BY <2>1, <1>c DEF ExecPCs, LivePCs
<1>9. CASE EnsureFails(t) \/ HeartbeatFails(t) BY <1>9, <1>f, <1>g DEF EnsureFails, HeartbeatFails
<1>10. CASE Heartbeat(t)
  <2>1. CASE Owns(t) BY <1>10, <2>1 DEF Heartbeat, Live
  <2>2. CASE ~Owns(t) BY <1>10, <2>2, <1>g DEF Heartbeat
  <2> QED BY <2>1, <2>2
<1> QED BY <1>3, <1>4, <1>5, <1>6, <1>7, <1>8, <1>9, <1>10 DEF ExecStep, ExecFault

\* A transition deletes the lease of its execution, or changes no lease.
LEMMA TransitionDeletes ==
    ASSUME TypeOK, NEW t \in Tokens, NEW s, NEW n, NEW d, Transition(t, s, n, d)
    PROVE  /\ SweepsSame
           /\ UNCHANGED lease \/ (Owns(t) /\ lease' = [lease EXCEPT ![exec[t].job] = NoLease])
<1>1. \A i \in Instances : Touched(exec[t].job)[i].oldLeases = poll[i].oldLeases BY DEF Touched, TypeOK, PollRow
<1> QED BY <1>1 DEF Transition, SweepsSame

\* What a step of an execution does to the leases: it renews its own, it deletes its own
\* and does not live on, or it leaves them alone.
LEMMA LiveLeases ==
    ASSUME TypeOK, NEW t \in Tokens, ExecStep(t) \/ ExecFault(t) \/ Heartbeat(t)
    PROVE  \/ Owns(t) /\ RenewLease(t)
           \/ SweepsSame /\ UNCHANGED lease
           \/ SweepsSame /\ Owns(t) /\ lease' = [lease EXCEPT ![exec[t].job] = NoLease] /\ ~Live(t)'
<1>a. UNCHANGED poll => SweepsSame BY DEF SweepsSame
<1>0. exec \in [Tokens -> ExecRow \union {None}] BY DEF TypeOK
<1>b. ASSUME NEW s, NEW n, NEW d, Transition(t, s, n, d), ~Live(t)'
      PROVE  \/ SweepsSame /\ UNCHANGED lease
             \/ SweepsSame /\ Owns(t) /\ lease' = [lease EXCEPT ![exec[t].job] = NoLease] /\ ~Live(t)'
  BY <1>b, TransitionDeletes
<1>c. ASSUME exec[t] # None, NEW pc \in {"release", "failing"}, Goto(t, pc) PROVE ~Live(t)'
  <2>1. exec[t] \in ExecRow BY <1>0, <1>c
  <2>2. exec'[t] = [exec[t] EXCEPT !.pc = pc] BY <1>0, <1>c DEF Goto
  <2>3. exec'[t].pc = pc BY <2>1, <2>2 DEF ExecRow
  <2> QED BY <2>3 DEF Live, LivePCs
<1>d. exec[t] # None BY LiveMoves
<1>1. CASE Requeue(t)
  <2>1. ~Live(t)' BY <1>0, <1>1 DEF Requeue, End, Live
  <2> QED BY <1>1, <1>b, <2>1 DEF Requeue
<1>2. CASE Finish(t) \/ FinishFails(t)
  <2>1. \E pc \in {"release", "failing"} : Goto(t, pc) BY <1>2 DEF Finish, FinishFails
  <2>2. ~Live(t)' BY <1>c, <1>d, <2>1
  <2>3. \/ Transition(t, "DONE", job[exec[t].job].attempts, job[exec[t].job].due)
        \/ UNCHANGED <<lease, poll>>
    BY <1>2 DEF Finish, FinishFails
  <2> QED BY <1>a, <1>b, <2>2, <2>3
<1>3. CASE FailJob(t) \/ FailJobFails(t)
  <2>1. Goto(t, "release") BY <1>3 DEF FailJob, FailJobFails
  <2>2. ~Live(t)' BY <1>c, <1>d, <2>1
  <2>3. (\E s, n, d : Transition(t, s, n, d)) \/ UNCHANGED <<lease, poll>>
    BY <1>3 DEF FailJob, FailJobFails, FailTransition
  <2> QED BY <1>a, <1>b, <2>2, <2>3
<1>4. CASE Renew(t) \/ EnsureClaimOwned(t) \/ Heartbeat(t)
  BY <1>4, <1>a DEF Renew, EnsureClaimOwned, Heartbeat
<1>5. CASE \/ ReadJob(t) \/ TryLock(t) \/ Prepare(t) \/ Reply(t) \/ Conclude(t) \/ Release(t)
           \/ RenewFails(t) \/ LockFails(t) \/ EnsureFails(t) \/ HeartbeatFails(t)
  BY <1>a, <1>5 DEF ReadJob, TryLock, Prepare, Reply, Conclude, Release, RenewFails, LockFails,
                    EnsureFails, HeartbeatFails
<1> QED BY <1>1, <1>2, <1>3, <1>4, <1>5 DEF ExecStep, ExecFault

\* Every step of an execution leaves the others their claims.
LEMMA ExecLive ==
    ASSUME LiveInv, NEW t \in Tokens, ExecStep(t) \/ ExecFault(t) \/ Heartbeat(t)
    PROVE  OneLease' /\ LiveKept'
<1>0. TypeOK BY DEF LiveInv, LeaseInv
<1>1. /\ exec[t] # None /\ exec[t].job \in Jobs
      /\ \A u \in Tokens : u # t => exec'[u] = exec[u]
      /\ Live(t)' => Live(t) /\ exec'[t].job = exec[t].job
  BY <1>0, LiveMoves
<1>2. \A u \in Tokens : Live(u)' => Live(u) /\ exec'[u].job = exec[u].job BY <1>1 DEF Live
<1>3. CASE Owns(t) /\ RenewLease(t) BY <1>1, <1>2, <1>3, LiveRenews
<1>4. CASE SweepsSame /\ UNCHANGED lease BY <1>2, <1>4, LiveSame
<1>5. CASE SweepsSame /\ Owns(t) /\ lease' = [lease EXCEPT ![exec[t].job] = NoLease] /\ ~Live(t)'
  <2>1. \A u \in Tokens : Live(u)' => lease[exec[t].job].token # u BY <1>5 DEF Owns
  <2> QED BY <1>1, <1>2, <1>5, <2>1, LiveLoses
<1> QED BY <1>0, <1>3, <1>4, <1>5, LiveLeases
\* Every step of pollOnce leaves the live executions their claims.
LEMMA PollLive ==
    ASSUME LiveInv, NEW i \in Instances, PollStep(i)
    PROVE  OneLease' /\ LiveKept'
<1>0. /\ poll[i] \in PollRow /\ poll \in [Instances -> PollRow]
      /\ lease \in [Jobs -> LeaseRow] /\ job \in [Jobs -> JobRow] /\ exec \in [Tokens -> ExecRow \union {None}]
  BY DEF LiveInv, LeaseInv, TypeOK
<1>a. ASSUME UNCHANGED <<exec, lease>>, SweepsSame PROVE OneLease' /\ LiveKept'
  BY <1>a, LiveSame DEF Live
<1>1. CASE PollStart(i)
  <2> DEFINE stale == {j \in Jobs : lease[j].token # None /\ lease[j].old}
  <2>1. \A k \in Instances : poll'[k].oldLeases = IF k = i THEN {lease[j].token : j \in stale} ELSE poll[k].oldLeases
    BY <1>0, <1>1 DEF PollStart
  <2>2. UNCHANGED <<exec, lease>> BY <1>1 DEF PollStart
  <2>3. ASSUME NEW t \in Tokens, Live(t), NEW j \in stale, lease[j].token = t PROVE FALSE
    <3>1. exec[t].job \in Jobs BY <1>0, <2>3 DEF Live, ExecRow
    <3>2. lease[exec[t].job].token = t /\ ~lease[exec[t].job].old BY <2>3 DEF LiveInv, LiveKept, Owns
    <3>3. j = exec[t].job BY <2>3, <3>1, <3>2 DEF LiveInv, OneLease
    <3> QED BY <2>3, <3>2, <3>3
  <2>4. OneLease' BY <2>2 DEF LiveInv, OneLease
  <2>5. LiveKept'
    <3> SUFFICES ASSUME NEW t \in Tokens, Live(t)'
                 PROVE  Owns(t)' /\ ~(lease[exec[t].job].old)' /\ \A k \in Instances : t \notin poll'[k].oldLeases
      BY DEF LiveKept
    <3>1. Live(t) BY <2>2 DEF Live
    <3>2. t \notin {lease[j].token : j \in stale} BY <3>1, <2>3
    <3>3. Owns(t) /\ ~lease[exec[t].job].old /\ \A k \in Instances : t \notin poll[k].oldLeases
      BY <3>1 DEF LiveInv, LiveKept
    <3> QED BY <2>1, <2>2, <3>2, <3>3 DEF Owns
  <2> QED BY <2>4, <2>5
<1>2. CASE RecoverLease(i)
  <2>1. PICK r \in poll[i].leases :
          LET j == r[1]
              found == lease[j].token = r[2] /\ r[2] \in poll[i].oldLeases
              running == job[j].status = "RUNNING" IN
          /\ lease' = IF found THEN [lease EXCEPT ![j] = NoLease] ELSE lease
          /\ poll' = [IF found /\ running THEN Touched(j) ELSE poll
                        EXCEPT ![i].leases = @ \ {r}]
    BY <1>2 DEF RecoverLease
  <2> DEFINE found == lease[r[1]].token = r[2] /\ r[2] \in poll[i].oldLeases
             P == IF found /\ job[r[1]].status = "RUNNING" THEN Touched(r[1]) ELSE poll
  <2>2. r[1] \in Jobs BY <1>0, PollRows
  <2>3. P \in [Instances -> PollRow] BY <1>0, <2>2, TouchedType DEF LiveInv, LeaseInv
  <2>4. poll' = [P EXCEPT ![i].leases = @ \ {r}] BY <2>1
  <2>5. \A k \in Instances : poll'[k].oldLeases = P[k].oldLeases
    <3> HIDE DEF P
    <3> QED BY <2>3, <2>4 DEF PollRow
  <2>6. \A k \in Instances : P[k].oldLeases = poll[k].oldLeases BY <1>0 DEF Touched, PollRow
  <2>7. SweepsSame BY <2>5, <2>6 DEF SweepsSame
  <2>8. UNCHANGED exec BY <1>2 DEF RecoverLease
  <2>9. CASE found
    <3>1. lease' = [lease EXCEPT ![r[1]] = NoLease] BY <2>1, <2>9
    <3>2. \A t \in Tokens : Live(t)' => Live(t) /\ exec'[t].job = exec[t].job /\ lease[r[1]].token # t
      BY <2>8, <2>9 DEF Live, LiveInv, LiveKept
    <3> QED BY <2>2, <2>7, <3>1, <3>2, LiveLoses
  <2>10. CASE ~found BY <1>a, <2>1, <2>7, <2>8, <2>10
  <2> QED BY <2>9, <2>10
<1>3. CASE Claim(i)
  <2>1. PICK j \in poll[i].jobs :
         IF job[j].status # "PENDING"
         THEN /\ poll' = [poll EXCEPT ![i].jobs = @ \ {j}]
              /\ UNCHANGED <<job, lease, exec>>
         ELSE \E t \in Tokens :
                /\ Fresh(t)
                /\ job' = Rewrite(j, "RUNNING", job[j].attempts, job[j].due)
                /\ lease' = [lease EXCEPT ![j] = [token |-> t, old |-> FALSE]]
                /\ exec' = [exec EXCEPT ![t] =
                              [pc |-> "renew", inst |-> i, job |-> j, attempts |-> 0,
                               lost |-> FALSE, calls |-> 0, permanent |-> FALSE]]
                /\ poll' = [Touched(j) EXCEPT ![i].jobs = @ \ {j}]
    BY <1>3 DEF Claim
  <2>2. j \in Jobs BY <1>0, PollRows
  <2>3. CASE job[j].status # "PENDING"
    <3>1. SweepsSame BY <1>0, <2>1, <2>3 DEF SweepsSame, PollRow
    <3> QED BY <1>a, <2>1, <2>3, <3>1
  <2>4. CASE job[j].status = "PENDING"
    <3>1. PICK t \in Tokens :
                /\ Fresh(t)
                /\ lease' = [lease EXCEPT ![j] = [token |-> t, old |-> FALSE]]
                /\ exec' = [exec EXCEPT ![t] =
                              [pc |-> "renew", inst |-> i, job |-> j, attempts |-> 0,
                               lost |-> FALSE, calls |-> 0, permanent |-> FALSE]]
                /\ poll' = [Touched(j) EXCEPT ![i].jobs = @ \ {j}]
      BY <2>1, <2>4
    <3>2. \A k \in Jobs : lease'[k] = IF k = j THEN [token |-> t, old |-> FALSE] ELSE lease[k]
      BY <1>0, <2>2, <3>1
    <3>3. \A u \in Tokens : u # t => exec'[u] = exec[u] BY <1>0, <3>1
    <3>4. exec'[t].job = j BY <1>0, <3>1
    <3>5. SweepsSame
      <4>1. Touched(j) \in [Instances -> PollRow] BY <2>2, TouchedType DEF LiveInv, LeaseInv
      <4>2. \A k \in Instances : poll'[k].oldLeases = Touched(j)[k].oldLeases BY <3>1, <4>1 DEF PollRow
      <4>3. \A k \in Instances : Touched(j)[k].oldLeases = poll[k].oldLeases BY <1>0 DEF Touched, PollRow
      <4> QED BY <4>2, <4>3 DEF SweepsSame
    <3>6. lease[j].token = None BY <2>2, <2>4 DEF LiveInv, LeaseInv, LeaseOnRunning
    <3>7. \A k \in Jobs : lease[k].token # t BY <3>1 DEF Fresh
    <3>8. OneLease' BY <3>2, <3>7 DEF LiveInv, OneLease
    <3>9. LiveKept'
      <4> SUFFICES ASSUME NEW u \in Tokens, Live(u)'
                   PROVE  Owns(u)' /\ ~(lease[exec[u].job].old)' /\ \A k \in Instances : u \notin poll'[k].oldLeases
        BY DEF LiveKept
      <4>1. CASE u = t
        <5>1. \A k \in Instances : t \notin poll[k].oldLeases BY <3>1 DEF Fresh
        <5> QED BY <2>2, <3>2, <3>4, <3>5, <4>1, <5>1 DEF Owns, SweepsSame
      <4>2. CASE u # t
        <5>1. Live(u) /\ exec'[u] = exec[u] BY <3>3, <4>2 DEF Live
        <5>2. /\ lease[exec[u].job].token = u /\ ~lease[exec[u].job].old
              /\ \A k \in Instances : u \notin poll[k].oldLeases
          BY <5>1 DEF LiveInv, LiveKept, Owns
        <5>3. exec[u].job \in Jobs BY <1>0, <5>1 DEF Live, ExecRow
        <5>4. exec[u].job # j BY <3>6, <5>2
        <5> QED BY <3>2, <3>5, <5>1, <5>2, <5>3, <5>4 DEF Owns, SweepsSame
      <4> QED BY <4>1, <4>2
    <3> QED BY <3>8, <3>9
  <2> QED BY <2>3, <2>4
<1>4. CASE LegacyUpdate(i)
  <2>1. UNCHANGED <<exec, lease>> BY <1>4 DEF LegacyUpdate
  <2>2. PICK j \in poll[i].checked : \E P \in {poll, Touched(j)} :
          poll' = [P EXCEPT ![i] = [@ EXCEPT !.pc = "legacy", !.checked = {}]]
    BY <1>4 DEF LegacyUpdate
  <2> PICK P \in {poll, Touched(j)} : poll' = [P EXCEPT ![i] = [@ EXCEPT !.pc = "legacy", !.checked = {}]]
    BY <2>2
  <2>3. j \in Jobs BY <1>0, PollRows
  <2>4. P \in [Instances -> PollRow] BY <1>0, <2>3, TouchedType DEF LiveInv, LeaseInv
  <2>5. \A k \in Instances : P[k].oldLeases = poll[k].oldLeases BY <1>0 DEF Touched, PollRow
  <2>6. \A k \in Instances : poll'[k].oldLeases = P[k].oldLeases BY <2>2, <2>4 DEF PollRow
  <2>7. SweepsSame BY <2>5, <2>6 DEF SweepsSame
  <2> QED BY <1>a, <2>1, <2>7
<1>5. CASE \/ LegacyRead(i) \/ LegacySkip(i) \/ LegacyCheck(i) \/ ReadCandidates(i) \/ SelectBatch(i)
           \/ StartBatch(i) \/ PollEnd(i)
  <2>1. UNCHANGED <<exec, lease>>
    BY <1>5 DEF LegacyRead, LegacySkip, LegacyCheck, ReadCandidates, SelectBatch, StartBatch, PollEnd
  <2>2. PICK r : poll' = [poll EXCEPT ![i] = r] /\ r.oldLeases \subseteq poll[i].oldLeases
    <3>1. IdlePoll.oldLeases \subseteq poll[i].oldLeases BY DEF IdlePoll
    <3>2. CASE LegacyRead(i)
      <4> DEFINE r == [poll[i] EXCEPT !.pc = "legacy", !.jobs = {j \in poll[i].oldJobs : job[j].status = "RUNNING"}]
      <4>1. poll' = [poll EXCEPT ![i] = r] BY <1>0, <3>2 DEF LegacyRead
      <4>2. r.oldLeases = poll[i].oldLeases BY <1>0 DEF PollRow
      <4> QED BY <4>1, <4>2
    <3>3. CASE LegacySkip(i)
      <4>1. PICK j : poll' = [poll EXCEPT ![i] = [poll[i] EXCEPT !.jobs = poll[i].jobs \ {j}]]
        BY <1>0, <3>3 DEF LegacySkip
      <4>2. [poll[i] EXCEPT !.jobs = poll[i].jobs \ {j}].oldLeases = poll[i].oldLeases BY <1>0 DEF PollRow
      <4> QED BY <4>1, <4>2
    <3>4. CASE LegacyCheck(i)
      <4>1. PICK j : poll' = [poll EXCEPT ![i] = [poll[i] EXCEPT !.pc = "legacyUpdate", !.checked = {j},
                                                                 !.jobs = poll[i].jobs \ {j}]]
        BY <1>0, <3>4 DEF LegacyCheck
      <4>2. [poll[i] EXCEPT !.pc = "legacyUpdate", !.checked = {j}, !.jobs = poll[i].jobs \ {j}].oldLeases
              = poll[i].oldLeases
        BY <1>0 DEF PollRow
      <4> QED BY <4>1, <4>2
    <3>5. CASE ReadCandidates(i) \/ SelectBatch(i) \/ StartBatch(i) \/ PollEnd(i)
      <4>1. PICK pc, S : poll' = [poll EXCEPT ![i] = IdlePoll]
                         \/ poll' = [poll EXCEPT ![i] = [poll[i] EXCEPT !.pc = pc, !.jobs = S]]
                         \/ poll' = [poll EXCEPT ![i] = [poll[i] EXCEPT !.pc = pc]]
        BY <1>0, <3>5 DEF ReadCandidates, SelectBatch, StartBatch, PollEnd
      <4>2. /\ [poll[i] EXCEPT !.pc = pc, !.jobs = S].oldLeases = poll[i].oldLeases
            /\ [poll[i] EXCEPT !.pc = pc].oldLeases = poll[i].oldLeases
        BY <1>0 DEF PollRow
      <4> QED BY <3>1, <4>1, <4>2
    <3> QED BY <1>5, <3>2, <3>3, <3>4, <3>5
  <2>3. SweepsSame BY <1>0, <2>2 DEF SweepsSame
  <2> QED BY <1>a, <2>1, <2>3
<1> QED BY <1>1, <1>2, <1>3, <1>4, <1>5 DEF PollStep

\* Producers, time and failures leave the live executions their claims, while these
\* renew in time.
LEMMA OutsideLive ==
    ASSUME LiveInv, TimelyHeartbeats,
           \/ \E i \in Instances : Retention(i) \/ Crash(i)
           \/ \E j \in Jobs : Enqueue(j) \/ CancelPending(j) \/ TimeStep(j)
           \/ \E c \in Conns : DropSession(c) \/ OutsideLock(c) \/ OutsideUnlock(c)
    PROVE  OneLease' /\ LiveKept'
<1>0. /\ poll \in [Instances -> PollRow] /\ lease \in [Jobs -> LeaseRow]
      /\ exec \in [Tokens -> ExecRow \union {None}]
  BY DEF LiveInv, LeaseInv, TypeOK
<1>a. ASSUME UNCHANGED <<exec, lease>>, SweepsSame PROVE OneLease' /\ LiveKept'
  BY <1>a, LiveSame DEF Live
<1>1. ASSUME NEW i \in Instances, Retention(i) PROVE OneLease' /\ LiveKept'
  BY <1>1, <1>a DEF Retention, SweepsSame
<1>2. ASSUME NEW i \in Instances, Crash(i) PROVE OneLease' /\ LiveKept'
  <2>1. SweepsSame BY <1>0, <1>2 DEF Crash, SweepsSame, IdlePoll
  <2>2. \A t \in Tokens : Live(t)' => Live(t) /\ exec'[t].job = exec[t].job BY <1>2 DEF Crash, Live
  <2> QED BY <1>2, <2>1, <2>2, LiveSame DEF Crash
<1>3. ASSUME NEW j \in Jobs, Enqueue(j) \/ CancelPending(j) PROVE OneLease' /\ LiveKept'
  <2>1. \A k \in Instances : Touched(j)[k].oldLeases = poll[k].oldLeases BY <1>0 DEF Touched, PollRow
  <2>2. SweepsSame BY <1>3, <2>1 DEF Enqueue, CancelPending, SweepsSame
  <2> QED BY <1>3, <1>a, <2>2 DEF Enqueue, CancelPending
<1>4. ASSUME NEW j \in Jobs, TimeStep(j) PROVE OneLease' /\ LiveKept'
  <2>1. CASE AgeLease(j)
    <3>1. lease[j].token # None /\ ~Alive(lease[j].token) /\ UNCHANGED <<exec, poll>> BY <2>1 DEF AgeLease
    <3>2. \A k \in Jobs : /\ lease'[k].token = lease[k].token
                          /\ k # j => lease'[k] = lease[k]
      BY <1>0, <2>1 DEF AgeLease, LeaseRow
    <3>3. \A t \in Tokens : Live(t) => exec[t].job \in Jobs /\ exec[t].job # j
      <4> SUFFICES ASSUME NEW t \in Tokens, Live(t) PROVE exec[t].job \in Jobs /\ exec[t].job # j OBVIOUS
      <4>1. exec[t].job \in Jobs BY <1>0 DEF Live, ExecRow
      <4>2. lease[exec[t].job].token = t BY DEF LiveInv, LiveKept, Owns
      <4>3. Alive(t) BY DEF Live, Alive
      <4> QED BY <3>1, <4>1, <4>2, <4>3
    <3>4. OneLease' BY <3>2 DEF LiveInv, OneLease
    <3>5. LiveKept' BY <3>1, <3>2, <3>3 DEF LiveInv, LiveKept, Live, Owns
    <3> QED BY <3>4, <3>5
  <2>2. CASE BecomeDue(j) \/ AgeJob(j) BY <1>a, <2>2 DEF BecomeDue, AgeJob, SweepsSame
  <2> QED BY <1>4, <2>1, <2>2 DEF TimeStep
<1>5. ASSUME NEW c \in Conns, DropSession(c) \/ OutsideLock(c) \/ OutsideUnlock(c)
      PROVE  OneLease' /\ LiveKept'
  BY <1>5, <1>a DEF DropSession, OutsideLock, OutsideUnlock, SweepsSame
<1> QED BY <1>1, <1>2, <1>3, <1>4, <1>5

\* With timely heartbeats an execution that is alive keeps its claim until its last
\* transition, however many instances sweep, recover and claim meanwhile.
THEOREM HealthyClaimKeptHolds == Spec => []HealthyClaimKept
<1>1. CASE TimelyHeartbeats
  <2>1. Init => LiveInv
    <3>1. Init => LeaseOnRunning /\ LegacyChecked
      BY DEF Init, LeaseOnRunning, LegacyChecked, NoLease, IdlePoll
    <3>2. Init => OneLease /\ LiveKept BY DEF Init, OneLease, LiveKept, Live, NoLease
    <3> QED BY <3>1, <3>2, InitType DEF LiveInv, LeaseInv
  <2>2. LiveInv /\ [Next]_vars => LiveInv'
    <3> SUFFICES ASSUME LiveInv, [Next]_vars PROVE LiveInv' OBVIOUS
    <3>1. LeaseInv' BY LeaseStep DEF LiveInv
    <3>2. CASE UNCHANGED vars BY <3>1, <3>2 DEF vars, LiveInv, OneLease, LiveKept, Live, Owns
    <3>3. CASE Next BY <1>1, <3>1, <3>3, PollLive, ExecLive, OutsideLive DEF Next, LiveInv
    <3> QED BY <3>2, <3>3
  <2>3. LiveInv => HealthyClaimKept BY DEF LiveInv, LiveKept, Live, LivePCs, HealthyClaimKept
  <2> QED BY <2>1, <2>2, <2>3, PTL DEF Spec
<1>2. CASE ~TimelyHeartbeats
  <2>1. HealthyClaimKept BY <1>2 DEF HealthyClaimKept
  <2>2. Spec => []HealthyClaimKept BY <2>1, PTL
  <2> QED BY <2>2
<1> QED BY <1>1, <1>2

-----------------------------------------------------------------------------
(***************************************************************************)
(* NitradoJobs implements JobQueue.  Beyond the lease invariant it takes   *)
(* that the attempts an execution has read are those of the row for as     *)
(* long as it owns the claim (OwnerAttempts): failJob writes back what was *)
(* read long before.                                                       *)
(***************************************************************************)
OwnerAttempts == \A t \in Tokens :
    exec[t] # None /\ exec[t].pc \notin {"renew", "read"} /\ Owns(t)
        => exec[t].attempts = job[exec[t].job].attempts

RefInv == LeaseInv /\ OwnerAttempts

QueueStep == [Queue!Next]_(Queue!vars)

\* What the queue sees of a row stays as it is.
SameRow(j) == /\ job'[j].status = job[j].status
              /\ job'[j].attempts = job[j].attempts
              /\ lease'[j].token = lease[j].token

Same == \A j \in Jobs : SameRow(j)

\* One row changes, all others stay.
Moves(j, s, o, n) == /\ job'[j].status = s /\ job'[j].attempts = n /\ lease'[j].token = o
                     /\ \A k \in Jobs : k # j => SameRow(k)

\* Owners keep their row's attempts, or lose the row.
Keeps == \A j \in Jobs : \/ lease'[j].token = None
                         \/ lease'[j].token = lease[j].token /\ job'[j].attempts = job[j].attempts

\* A step that leaves every row alone is a stutter of the queue.
LEMMA SameStutters == Same => UNCHANGED Queue!vars
BY DEF Same, SameRow, Queue!vars

\* One row that moves is the way every action of the queue changes a row.
LEMMA MovesBecome ==
    ASSUME NEW j \in Jobs, NEW s, NEW o, NEW n, Moves(j, s, o, n)
    PROVE  Queue!Become(j, s, o, n)
BY DEF Moves, SameRow, Queue!Become

\* The same for a row that keeps its attempts.
LEMMA KeptBecome ==
    ASSUME NEW j \in Jobs, NEW s, NEW o, Moves(j, s, o, job[j].attempts)
    PROVE  Queue!Become(j, s, o, job[j].attempts)
BY DEF Moves, SameRow, Queue!Become

\* An action of the queue on one job is a step of the queue.
LEMMA OneRow ==
    ASSUME NEW j \in Jobs,
           \/ Queue!Submit(j) \/ Queue!Withdraw(j) \/ Queue!Acquire(j) \/ Queue!Complete(j)
           \/ Queue!Retry(j) \/ Queue!Bury(j) \/ Queue!Return(j)
    PROVE  QueueStep
<1>1. Queue!Next BY DEF Queue!Next
<1> QED BY <1>1 DEF QueueStep

\* A step that leaves every row alone keeps the attempts of the owners.
LEMMA RowKept == Same => Keeps
BY DEF Same, SameRow, Keeps

\* So does one that takes the lease away.
LEMMA MoveKept ==
    ASSUME NEW j \in Jobs, NEW s, NEW n, Moves(j, s, None, n)
    PROVE  Keeps
BY DEF Moves, SameRow, Keeps

\* The two ways a step writes rows.
LEMMA RewriteMoves ==
    ASSUME TypeOK, NEW j \in Jobs, NEW s, NEW n, NEW d,
           job' = Rewrite(j, s, n, d),
           lease' = [lease EXCEPT ![j] = NoLease] \/ (UNCHANGED lease /\ lease[j].token = None)
    PROVE  Moves(j, s, None, n)
BY DEF Moves, SameRow, Rewrite, TypeOK, NoLease

\* transitionClaimedNitradoJob moves the row of the claim that still owns it, or nothing.
LEMMA TransitionMoves ==
    ASSUME LeaseInv, NEW t \in Tokens, exec[t] # None, NEW j \in Jobs, j = exec[t].job,
           NEW s, NEW n, NEW d, Transition(t, s, n, d)
    PROVE  Same \/ (Queue!Owned(j) /\ Owns(t) /\ Moves(j, s, None, n))
<1>1. CASE Owns(t) /\ job[j].status = "RUNNING"
  <2>1. Queue!Owned(j) BY <1>1 DEF Queue!Owned, Owns
  <2>2. job' = Rewrite(j, s, n, d) /\ lease' = [lease EXCEPT ![j] = NoLease]
    BY <1>1 DEF Transition, Rewrite
  <2>3. Moves(j, s, None, n) BY <2>2, RewriteMoves DEF LeaseInv
  <2> QED BY <1>1, <2>1, <2>3
<1>2. CASE ~(Owns(t) /\ job[j].status = "RUNNING")
  BY <1>2 DEF Transition, Same, SameRow
<1> QED BY <1>1, <1>2

\* failJob counts exactly one attempt of the row, within the budget.
LEMMA FailRefines ==
    ASSUME RefInv, NEW t \in Tokens, At(t, "failing"), FailTransition(t)
    PROVE  QueueStep /\ Keeps
<1>0. exec[t] # None /\ exec[t].pc = "failing" /\ exec[t].job \in Jobs /\ exec[t].attempts \in Nat
  BY DEF At, RefInv, LeaseInv, TypeOK, ExecRow
<1>1. PICK j \in Jobs : j = exec[t].job BY <1>0
<1>2. PICK n \in Nat : n = exec[t].attempts BY <1>0
<1>a. ASSUME Same PROVE QueueStep /\ Keeps
  BY <1>a, SameStutters, RowKept DEF QueueStep
<1>b. Owns(t) => job[j].attempts = n BY <1>0, <1>1, <1>2 DEF RefInv, OwnerAttempts
<1>3. CASE exec[t].permanent \/ n + 1 >= MaxAttempts
  <2>1. Transition(t, "DEAD", n + 1, TRUE) BY <1>2, <1>3 DEF FailTransition, Transition, Rewrite
  <2>2. CASE Queue!Owned(j) /\ Owns(t) /\ Moves(j, "DEAD", None, n + 1)
    <3>1. Queue!Become(j, "DEAD", None, n + 1) BY <2>2, MovesBecome
    <3>2. Queue!Bury(j) BY <1>b, <2>2, <3>1 DEF Queue!Bury, Queue!Become
    <3> QED BY <2>2, <3>2, MoveKept, OneRow
  <2> QED BY <1>0, <1>1, <1>a, <2>1, <2>2, TransitionMoves DEF RefInv
<1>4. CASE ~(exec[t].permanent \/ n + 1 >= MaxAttempts)
  <2>1. Transition(t, "PENDING", n + 1, FALSE) BY <1>2, <1>4 DEF FailTransition, Transition, Rewrite
  <2>2. CASE Queue!Owned(j) /\ Owns(t) /\ Moves(j, "PENDING", None, n + 1)
    <3>1. Queue!Become(j, "PENDING", None, n + 1) BY <2>2, MovesBecome
    <3>2. n + 1 < MaxAttempts BY <1>4, BoundsType
    <3>3. Queue!Retry(j) BY <1>b, <2>2, <3>1, <3>2 DEF Queue!Retry, Queue!Become
    <3> QED BY <2>2, <3>3, MoveKept, OneRow
  <2> QED BY <1>0, <1>1, <1>a, <2>1, <2>2, TransitionMoves DEF RefInv
<1> QED BY <1>3, <1>4

\* DONE leaves the attempts alone.
LEMMA DoneRefines ==
    ASSUME RefInv, NEW t \in Tokens, exec[t] # None,
           Transition(t, "DONE", job[exec[t].job].attempts, job[exec[t].job].due)
    PROVE  QueueStep /\ Keeps
<1>0. exec[t].job \in Jobs BY DEF RefInv, LeaseInv, TypeOK, ExecRow
<1>1. PICK j \in Jobs : j = exec[t].job BY <1>0
<1>2. PICK n, d : n = job[j].attempts /\ d = job[j].due OBVIOUS
<1>3. Transition(t, "DONE", n, d) BY <1>1, <1>2 DEF Transition, Rewrite
<1>4. CASE Same BY <1>4, SameStutters, RowKept DEF QueueStep
<1>5. CASE Queue!Owned(j) /\ Moves(j, "DONE", None, n)
  <2>1. Queue!Become(j, "DONE", None, n) BY <1>5, MovesBecome
  <2>2. Queue!Complete(j) BY <1>2, <1>5, <2>1 DEF Queue!Complete, Queue!Become
  <2> QED BY <1>5, <2>2, MoveKept, OneRow
<1> QED BY <1>1, <1>3, <1>4, <1>5, TransitionMoves DEF RefInv

\* A claim that finds its connection busy gives the job back with its attempts.
LEMMA RequeueRefines ==
    ASSUME RefInv, NEW t \in Tokens, Requeue(t)
    PROVE  QueueStep /\ Keeps
<1>0. exec[t] # None /\ exec[t].job \in Jobs BY DEF Requeue, At, RefInv, LeaseInv, TypeOK, ExecRow
<1>1. PICK j \in Jobs : j = exec[t].job BY <1>0
<1>2. PICK n : n = job[j].attempts OBVIOUS
<1>3. Transition(t, "PENDING", n, FALSE) BY <1>1, <1>2 DEF Requeue, Transition, Rewrite
<1>4. CASE Same BY <1>4, SameStutters, RowKept DEF QueueStep
<1>5. CASE Queue!Owned(j) /\ Moves(j, "PENDING", None, n)
  <2>1. Queue!Become(j, "PENDING", None, n) BY <1>5, MovesBecome
  <2>2. Queue!Return(j) BY <1>2, <1>5, <2>1 DEF Queue!Return, Queue!Owned, Queue!Become
  <2> QED BY <1>5, <2>2, MoveKept, OneRow
<1> QED BY <1>0, <1>1, <1>3, <1>4, <1>5, TransitionMoves DEF RefInv

\* Renewing a lease changes nothing the queue sees.
LEMMA RenewSame ==
    ASSUME TypeOK, NEW t \in Tokens, exec[t] # None, RenewLease(t), UNCHANGED job
    PROVE  Same
BY DEF RenewLease, Same, SameRow, TypeOK, LeaseRow, ExecRow

\* Every step of an execution is a step of the queue or a stutter.
LEMMA ExecRefines ==
    ASSUME RefInv, NEW t \in Tokens, ExecStep(t) \/ ExecFault(t) \/ Heartbeat(t)
    PROVE  QueueStep /\ Keeps
<1>0. exec[t] # None BY DEF ExecStep, ExecFault, At, Beating, Renew, RenewFails, ReadJob, TryLock, LockFails,
        Requeue, Prepare, EnsureClaimOwned, EnsureFails, Reply, Conclude, Finish, FinishFails,
        FailJob, FailJobFails, Release, Heartbeat, HeartbeatFails
<1>a. ASSUME Same PROVE QueueStep /\ Keeps
  BY <1>a, SameStutters, RowKept DEF QueueStep
<1>b. ASSUME UNCHANGED <<job, lease>> PROVE QueueStep /\ Keeps
  BY <1>a, <1>b DEF Same, SameRow
<1>1. CASE Renew(t)
  BY <1>0, <1>1, <1>a, <1>b, RenewSame DEF Renew, RefInv, LeaseInv
<1>2. CASE Requeue(t) BY <1>2, RequeueRefines
<1>3. CASE EnsureClaimOwned(t)
  BY <1>0, <1>3, <1>a, <1>b, RenewSame DEF EnsureClaimOwned, RefInv, LeaseInv
<1>4. CASE Finish(t) BY <1>0, <1>4, DoneRefines DEF Finish
<1>5. CASE FinishFails(t) BY <1>0, <1>5, <1>b, DoneRefines DEF FinishFails
<1>6. CASE FailJob(t) BY <1>6, FailRefines DEF FailJob
<1>7. CASE FailJobFails(t) BY <1>7, <1>b, FailRefines DEF FailJobFails
<1>8. CASE Heartbeat(t)
  BY <1>0, <1>8, <1>a, <1>b, RenewSame DEF Heartbeat, RefInv, LeaseInv
<1>9. CASE \/ ReadJob(t) \/ TryLock(t) \/ Prepare(t) \/ Reply(t) \/ Conclude(t) \/ Release(t)
           \/ RenewFails(t) \/ LockFails(t) \/ EnsureFails(t) \/ HeartbeatFails(t)
  BY <1>b, <1>9 DEF ReadJob, TryLock, Prepare, Reply, Conclude, Release, RenewFails, LockFails,
                    EnsureFails, HeartbeatFails
<1> QED BY <1>1, <1>2, <1>3, <1>4, <1>5, <1>6, <1>7, <1>8, <1>9 DEF ExecStep, ExecFault

\* A new execution for t, and no row changed but the one t now owns.
Claimed(t) == /\ exec'[t].pc = "renew"
              /\ \A u \in Tokens : u # t => exec'[u] = exec[u]
              /\ \A k \in Jobs : lease'[k].token = t \/ SameRow(k)

\* claimNitradoJob acquires a PENDING job for a token nobody else holds.
LEMMA ClaimRefines ==
    ASSUME RefInv, NEW i \in Instances, Claim(i)
    PROVE  /\ QueueStep
           /\ (Same /\ UNCHANGED exec) \/ \E t \in Tokens : Claimed(t)
<1>0. poll[i].jobs \subseteq Jobs BY DEF RefInv, LeaseInv, TypeOK, PollRow
<1>1. PICK j \in poll[i].jobs :
         IF job[j].status # "PENDING"
         THEN /\ poll' = [poll EXCEPT ![i].jobs = @ \ {j}]
              /\ UNCHANGED <<job, lease, exec>>
         ELSE \E t \in Tokens :
                /\ Fresh(t)
                /\ job' = Rewrite(j, "RUNNING", job[j].attempts, job[j].due)
                /\ lease' = [lease EXCEPT ![j] = [token |-> t, old |-> FALSE]]
                /\ exec' = [exec EXCEPT ![t] =
                              [pc |-> "renew", inst |-> i, job |-> j, attempts |-> 0,
                               lost |-> FALSE, calls |-> 0, permanent |-> FALSE]]
                /\ poll' = [Touched(j) EXCEPT ![i].jobs = @ \ {j}]
  BY DEF Claim
<1>2. CASE job[j].status # "PENDING"
  <2>1. Same /\ UNCHANGED exec BY <1>1, <1>2 DEF Same, SameRow
  <2> QED BY <2>1, SameStutters DEF QueueStep
<1>3. CASE job[j].status = "PENDING"
  <2>1. PICK t \in Tokens :
                /\ Fresh(t)
                /\ job' = Rewrite(j, "RUNNING", job[j].attempts, job[j].due)
                /\ lease' = [lease EXCEPT ![j] = [token |-> t, old |-> FALSE]]
                /\ exec' = [exec EXCEPT ![t] =
                              [pc |-> "renew", inst |-> i, job |-> j, attempts |-> 0,
                               lost |-> FALSE, calls |-> 0, permanent |-> FALSE]]
    BY <1>1, <1>3
  <2>2. j \in Jobs BY <1>0
  <2>3. Moves(j, "RUNNING", t, job[j].attempts)
    BY <2>1, <2>2 DEF Moves, SameRow, Rewrite, RefInv, LeaseInv, TypeOK
  <2>4. Queue!Become(j, "RUNNING", t, job[j].attempts) BY <2>2, <2>3, KeptBecome
  <2>5. \A k \in Jobs : lease[k].token # t BY <2>1 DEF Fresh
  <2>6. Queue!Acquire(j) BY <1>3, <2>1, <2>2, <2>4, <2>5 DEF Queue!Acquire, Queue!Become
  <2>7. exec'[t] # None /\ exec'[t].pc = "renew" /\ \A u \in Tokens : u # t => exec'[u] = exec[u]
    <3> DEFINE r == [pc |-> "renew", inst |-> i, job |-> j, attempts |-> 0,
                     lost |-> FALSE, calls |-> 0, permanent |-> FALSE]
    <3>1. r \in ExecRow BY <2>2 DEF ExecRow, ExecPCs
    <3>2. r.pc = "renew" OBVIOUS
    <3> HIDE DEF r
    <3> QED BY <2>1, <3>1, <3>2, NoneIsFresh DEF r, RefInv, LeaseInv, TypeOK
  <2>8. \A k \in Jobs : lease'[k].token = t \/ SameRow(k) BY <2>3 DEF Moves
  <2>9. Claimed(t) BY <2>7, <2>8 DEF Claimed
  <2> QED BY <2>1, <2>2, <2>6, <2>9, OneRow
<1> QED BY <1>2, <1>3

\* A sweep gives RUNNING jobs back; the rest of a poll reads.
LEMMA PollRefines ==
    ASSUME RefInv, NEW i \in Instances, PollStep(i), ~Claim(i)
    PROVE  QueueStep /\ Keeps
<1>0. poll[i] \in PollRow /\ poll[i].leases \subseteq Jobs \X Tokens /\ poll[i].checked \subseteq Jobs
  BY DEF RefInv, LeaseInv, TypeOK, PollRow
<1>a. ASSUME Same PROVE QueueStep /\ Keeps
  BY <1>a, SameStutters, RowKept DEF QueueStep
<1>b. ASSUME UNCHANGED <<job, lease>> PROVE QueueStep /\ Keeps
  BY <1>a, <1>b DEF Same, SameRow
<1>c. ASSUME NEW j \in Jobs, job[j].status = "RUNNING", Moves(j, "PENDING", None, job[j].attempts)
      PROVE  QueueStep /\ Keeps
  <2>1. Queue!Become(j, "PENDING", None, job[j].attempts) BY <1>c, KeptBecome
  <2>2. Queue!Return(j) BY <1>c, <2>1 DEF Queue!Return, Queue!Become
  <2> QED BY <1>c, <2>2, MoveKept, OneRow
<1>1. CASE RecoverLease(i)
  <2>1. PICK r \in poll[i].leases :
          LET j == r[1]
              found == lease[j].token = r[2] /\ r[2] \in poll[i].oldLeases
              running == job[j].status = "RUNNING" IN
          /\ lease' = IF found THEN [lease EXCEPT ![j] = NoLease] ELSE lease
          /\ job' = IF found /\ running
                    THEN Rewrite(j, "PENDING", job[j].attempts, job[j].due) ELSE job
    BY <1>1 DEF RecoverLease
  <2>2. PICK j \in Jobs, t \in Tokens : r[1] = j /\ r[2] = t BY <1>0
  <2>3. CASE lease[j].token = t /\ t \in poll[i].oldLeases
    <3>1. job[j].status = "RUNNING" BY <2>3, NoneIsFresh DEF RefInv, LeaseInv, LeaseOnRunning
    <3>2. lease' = [lease EXCEPT ![j] = NoLease]
          /\ job' = Rewrite(j, "PENDING", job[j].attempts, job[j].due)
      BY <2>1, <2>2, <2>3, <3>1
    <3>3. Moves(j, "PENDING", None, job[j].attempts) BY <3>2, RewriteMoves DEF RefInv, LeaseInv
    <3> QED BY <1>c, <3>1, <3>3
  <2>4. CASE ~(lease[j].token = t /\ t \in poll[i].oldLeases) BY <1>b, <2>1, <2>2, <2>4
  <2> QED BY <2>3, <2>4
<1>2. CASE LegacyUpdate(i)
  <2>1. PICK j \in poll[i].checked :
          LET stale == job[j].status = "RUNNING" /\ j \in poll[i].oldJobs IN
          job' = IF stale THEN Rewrite(j, "PENDING", job[j].attempts, job[j].due) ELSE job
    BY <1>2 DEF LegacyUpdate
  <2>2. j \in Jobs /\ UNCHANGED lease BY <1>0, <1>2 DEF LegacyUpdate
  <2>3. CASE job[j].status = "RUNNING" /\ j \in poll[i].oldJobs
    <3>1. lease[j].token = None BY <2>2, <2>3 DEF RefInv, LeaseInv, LegacyChecked
    <3>2. job' = Rewrite(j, "PENDING", job[j].attempts, job[j].due) BY <2>1, <2>3
    <3>3. Moves(j, "PENDING", None, job[j].attempts)
      BY <2>2, <3>1, <3>2, RewriteMoves DEF RefInv, LeaseInv
    <3> QED BY <1>c, <2>2, <2>3, <3>3
  <2>4. CASE ~(job[j].status = "RUNNING" /\ j \in poll[i].oldJobs) BY <1>b, <2>1, <2>2, <2>4
  <2> QED BY <2>3, <2>4
<1>3. CASE \/ PollStart(i) \/ LegacyRead(i) \/ LegacySkip(i) \/ LegacyCheck(i)
           \/ ReadCandidates(i) \/ SelectBatch(i) \/ StartBatch(i) \/ PollEnd(i)
  BY <1>3, <1>b DEF PollStart, LegacyRead, LegacySkip, LegacyCheck, ReadCandidates, SelectBatch,
                    StartBatch, PollEnd
<1> QED BY <1>1, <1>2, <1>3 DEF PollStep

\* Producers create and withdraw jobs nobody owns; retention deletes.
LEMMA OutsideRefines ==
    ASSUME RefInv,
           \/ \E i \in Instances : Retention(i) \/ Crash(i)
           \/ \E j \in Jobs : Enqueue(j) \/ CancelPending(j) \/ TimeStep(j)
           \/ \E c \in Conns : DropSession(c) \/ OutsideLock(c) \/ OutsideUnlock(c)
    PROVE  QueueStep /\ Keeps
<1>a. ASSUME Same PROVE QueueStep /\ Keeps
  BY <1>a, SameStutters, RowKept DEF QueueStep
<1>b. ASSUME UNCHANGED <<job, lease>> PROVE QueueStep /\ Keeps
  BY <1>a, <1>b DEF Same, SameRow
<1>1. ASSUME NEW i \in Instances, Retention(i) PROVE QueueStep /\ Keeps
  <2>1. PICK S \in SUBSET {j \in Jobs : job[j].status \in {"DONE", "DEAD"} /\ job[j].old} :
          job' = [j \in Jobs |-> IF j \in S THEN [job[j] EXCEPT !.status = "DELETED"] ELSE job[j]]
    BY <1>1 DEF Retention
  <2>2. UNCHANGED lease BY <1>1 DEF Retention
  <2>3. \A j \in Jobs : /\ job'[j].status = IF j \in S THEN "DELETED" ELSE job[j].status
                        /\ job'[j].attempts = job[j].attempts
    BY <2>1 DEF RefInv, LeaseInv, TypeOK, JobRow
  <2>4. Queue!Purge(S) BY <2>1, <2>2, <2>3 DEF Queue!Purge
  <2>5. Queue!Next BY <2>1, <2>4 DEF Queue!Next
  <2>6. Keeps BY <2>2, <2>3 DEF Keeps
  <2> QED BY <2>5, <2>6 DEF QueueStep
<1>2. ASSUME NEW j \in Jobs, Enqueue(j) PROVE QueueStep /\ Keeps
  <2>1. lease[j].token = None BY <1>2 DEF Enqueue, RefInv, LeaseInv, LeaseOnRunning
  <2>2. Moves(j, "PENDING", None, 0) BY <1>2, <2>1, RewriteMoves DEF Enqueue, RefInv, LeaseInv
  <2>3. Queue!Become(j, "PENDING", None, 0) BY <2>2, MovesBecome
  <2>4. Queue!Submit(j) BY <1>2, <2>3 DEF Enqueue, Queue!Submit, Queue!Become
  <2> QED BY <2>2, <2>4, MoveKept, OneRow
<1>3. ASSUME NEW j \in Jobs, CancelPending(j) PROVE QueueStep /\ Keeps
  <2>1. lease[j].token = None BY <1>3 DEF CancelPending, RefInv, LeaseInv, LeaseOnRunning
  <2>2. PICK s \in {"DONE", "DEAD"} : job' = Rewrite(j, s, job[j].attempts, job[j].due)
    BY <1>3 DEF CancelPending
  <2>3. Moves(j, s, None, job[j].attempts)
    BY <1>3, <2>1, <2>2, RewriteMoves DEF CancelPending, RefInv, LeaseInv
  <2>4. Queue!Become(j, s, None, job[j].attempts) BY <2>3, KeptBecome
  <2>5. Queue!Withdraw(j) BY <1>3, <2>2, <2>4 DEF CancelPending, Queue!Withdraw, Queue!Become
  <2> QED BY <2>3, <2>5, MoveKept, OneRow
<1>4. ASSUME NEW j \in Jobs, TimeStep(j) PROVE QueueStep /\ Keeps
  <2>1. Same
    BY <1>4 DEF TimeStep, BecomeDue, AgeJob, AgeLease, Same, SameRow, RefInv, LeaseInv, TypeOK, JobRow, LeaseRow
  <2> QED BY <1>a, <2>1
<1>5. ASSUME NEW i \in Instances, Crash(i) PROVE QueueStep /\ Keeps
  BY <1>5, <1>b DEF Crash
<1>6. ASSUME NEW c \in Conns, DropSession(c) \/ OutsideLock(c) \/ OutsideUnlock(c)
      PROVE  QueueStep /\ Keeps
  BY <1>6, <1>b DEF DropSession, OutsideLock, OutsideUnlock
<1> QED BY <1>1, <1>2, <1>3, <1>4, <1>5, <1>6

-----------------------------------------------------------------------------
(* The attempts an owner has read stay those of its row. *)

\* What a step leaves of the attempts of its own execution.
LEMMA ExecAttempts ==
    ASSUME TypeOK, NEW t \in Tokens, ExecStep(t) \/ ExecFault(t) \/ Heartbeat(t),
           exec'[t] # None, exec'[t].pc \notin {"renew", "read"}
    PROVE  \/ exec'[t].attempts = exec[t].attempts /\ exec[t].pc \notin {"renew", "read"}
           \/ exec'[t].attempts = job[exec[t].job].attempts /\ UNCHANGED job
<1>0. exec[t] # None BY DEF ExecStep, ExecFault, At, Beating, Renew, RenewFails, ReadJob, TryLock, LockFails,
        Requeue, Prepare, EnsureClaimOwned, EnsureFails, Reply, Conclude, Finish, FinishFails,
        FailJob, FailJobFails, Release, Heartbeat, HeartbeatFails
<1>1. exec[t] \in ExecRow /\ exec \in [Tokens -> ExecRow \union {None}] BY <1>0 DEF TypeOK
<1> DEFINE Goal == \/ exec'[t].attempts = exec[t].attempts /\ exec[t].pc \notin {"renew", "read"}
                   \/ exec'[t].attempts = job[exec[t].job].attempts /\ UNCHANGED job
<1>a. ASSUME exec[t].pc \notin {"renew", "read"},
             \/ UNCHANGED exec
             \/ End(t)
             \/ \E pc \in ExecPCs : Goto(t, pc)
             \/ \E p \in BOOLEAN : FailsWith(t, p)
             \/ LosesClaim(t)
             \/ exec' = [exec EXCEPT ![t].lost = TRUE]
             \/ exec' = [exec EXCEPT ![t] = [@ EXCEPT !.pc = "work", !.calls = exec[t].calls + 1]]
      PROVE  Goal
  <2>1. CASE UNCHANGED exec BY <1>a, <2>1
  <2>2. CASE End(t) BY <1>a, <2>2, <1>1 DEF End, ExecRow
  <2>3. CASE \E pc \in ExecPCs : Goto(t, pc) BY <1>a, <2>3, <1>1 DEF Goto, ExecRow
  <2>4. CASE \E p \in BOOLEAN : FailsWith(t, p) BY <1>a, <2>4, <1>1 DEF FailsWith, ExecRow
  <2>5. CASE LosesClaim(t) BY <1>a, <2>5, <1>1 DEF LosesClaim, ExecRow
  <2>6. CASE exec' = [exec EXCEPT ![t].lost = TRUE] BY <1>a, <2>6, <1>1 DEF ExecRow
  <2>7. CASE exec' = [exec EXCEPT ![t] = [@ EXCEPT !.pc = "work", !.calls = exec[t].calls + 1]]
    BY <1>a, <2>7, <1>1 DEF ExecRow
  <2> QED BY <1>a, <2>1, <2>2, <2>3, <2>4, <2>5, <2>6, <2>7
<1>2. CASE Renew(t) \/ RenewFails(t)
  <2>1. End(t) \/ Goto(t, "read") BY <1>2 DEF Renew, RenewFails
  <2> QED BY <1>1, <2>1 DEF End, Goto, ExecRow
<1>3. CASE ReadJob(t)
  <2> DEFINE row == [exec[t] EXCEPT !.pc = "lock", !.attempts = job[exec[t].job].attempts]
  <2>1. UNCHANGED job /\ (exec' = [exec EXCEPT ![t] = row] \/ End(t)) BY <1>3 DEF ReadJob
  <2>2. row.attempts = job[exec[t].job].attempts BY <1>1 DEF ExecRow
  <2> HIDE DEF row
  <2>3. exec'[t] = row BY <1>1, <2>1 DEF End
  <2> QED BY <2>1, <2>2, <2>3
<1>4. CASE Heartbeat(t) \/ HeartbeatFails(t)
  <2>1. UNCHANGED exec \/ exec' = [exec EXCEPT ![t].lost = TRUE] BY <1>4 DEF Heartbeat, HeartbeatFails
  <2>2. exec[t].pc \notin {"renew", "read"} BY <1>1, <2>1 DEF ExecRow
  <2> QED BY <1>a, <2>1, <2>2
<1>5. CASE \/ TryLock(t) \/ Requeue(t) \/ Prepare(t) \/ Conclude(t)
           \/ LockFails(t) \/ Release(t)
  BY <1>5, <1>a DEF TryLock, Requeue, Prepare, Conclude, LockFails, Release, At, ExecPCs
<1>6. CASE EnsureClaimOwned(t) \/ EnsureFails(t) \/ Reply(t)
  BY <1>6, <1>a DEF EnsureClaimOwned, EnsureFails, Reply, At, ExecPCs
<1>7. CASE Finish(t) \/ FinishFails(t) \/ FailJob(t) \/ FailJobFails(t)
  <2>1. exec[t].pc \notin {"renew", "read"} /\ \E pc \in {"release", "failing"} : Goto(t, pc)
    BY <1>7 DEF Finish, FinishFails, FailJob, FailJobFails, At
  <2> QED BY <1>a, <2>1 DEF ExecPCs
<1> QED BY <1>2, <1>3, <1>4, <1>5, <1>6, <1>7 DEF ExecStep, ExecFault

\* A step of one execution leaves the others and its job alone.
LEMMA ExecSelf ==
    ASSUME TypeOK, NEW t \in Tokens, ExecStep(t) \/ ExecFault(t) \/ Heartbeat(t)
    PROVE  /\ \A u \in Tokens : u # t => exec'[u] = exec[u]
           /\ exec'[t] # None => exec'[t].job = exec[t].job
<1>1. exec \in [Tokens -> ExecRow \union {None}] BY DEF TypeOK
<1>0. exec[t] \in ExecRow BY <1>1 DEF ExecStep, ExecFault, At, Beating, Renew, RenewFails, ReadJob, TryLock,
        LockFails, Requeue, Prepare, EnsureClaimOwned, EnsureFails, Reply, Conclude, Finish, FinishFails,
        FailJob, FailJobFails, Release, Heartbeat, HeartbeatFails
<1>2. \/ UNCHANGED exec
      \/ End(t)
      \/ \E pc \in ExecPCs : Goto(t, pc)
      \/ \E p \in BOOLEAN : FailsWith(t, p)
      \/ LosesClaim(t)
      \/ exec' = [exec EXCEPT ![t].lost = TRUE]
      \/ exec' = [exec EXCEPT ![t] = [@ EXCEPT !.pc = "work", !.calls = exec[t].calls + 1]]
      \/ exec' = [exec EXCEPT ![t] = [@ EXCEPT !.pc = "lock", !.attempts = job[exec[t].job].attempts]]
  <2>1. CASE Renew(t) \/ RenewFails(t) \/ ReadJob(t) \/ Heartbeat(t) \/ HeartbeatFails(t)
    BY <2>1 DEF Renew, RenewFails, ReadJob, Heartbeat, HeartbeatFails, ExecPCs
  <2>2. CASE TryLock(t) \/ Requeue(t) \/ Prepare(t) \/ Conclude(t) \/ LockFails(t) \/ Release(t)
    BY <2>2 DEF TryLock, Requeue, Prepare, Conclude, LockFails, Release, ExecPCs
  <2>3. CASE EnsureClaimOwned(t) \/ EnsureFails(t) \/ Reply(t)
    BY <2>3 DEF EnsureClaimOwned, EnsureFails, Reply, ExecPCs
  <2>4. CASE Finish(t) \/ FinishFails(t) \/ FailJob(t) \/ FailJobFails(t)
    BY <2>4 DEF Finish, FinishFails, FailJob, FailJobFails, ExecPCs
  <2> QED BY <2>1, <2>2, <2>3, <2>4 DEF ExecStep, ExecFault
<1>3. CASE UNCHANGED exec \/ End(t) BY <1>1, <1>3 DEF End
<1>4. CASE \E pc \in ExecPCs : Goto(t, pc) BY <1>0, <1>1, <1>4 DEF Goto, ExecRow
<1>5. CASE \E p \in BOOLEAN : FailsWith(t, p) BY <1>0, <1>1, <1>5 DEF FailsWith, ExecRow
<1>6. CASE LosesClaim(t) BY <1>0, <1>1, <1>6 DEF LosesClaim, ExecRow
<1>7. CASE exec' = [exec EXCEPT ![t].lost = TRUE] BY <1>0, <1>1, <1>7 DEF ExecRow
<1>8. CASE \/ exec' = [exec EXCEPT ![t] = [@ EXCEPT !.pc = "work", !.calls = exec[t].calls + 1]]
           \/ exec' = [exec EXCEPT ![t] = [@ EXCEPT !.pc = "lock", !.attempts = job[exec[t].job].attempts]]
  <2> DEFINE work == [exec[t] EXCEPT !.pc = "work", !.calls = exec[t].calls + 1]
             read == [exec[t] EXCEPT !.pc = "lock", !.attempts = job[exec[t].job].attempts]
  <2>1. work.job = exec[t].job /\ read.job = exec[t].job BY <1>0 DEF ExecRow
  <2>2. \E row \in {work, read} : exec' = [exec EXCEPT ![t] = row] BY <1>8
  <2> HIDE DEF work, read
  <2>3. exec'[t] \in {work, read} /\ \A u \in Tokens : u # t => exec'[u] = exec[u] BY <1>1, <2>2
  <2> QED BY <2>1, <2>3
<1> QED BY <1>2, <1>3, <1>4, <1>5, <1>6, <1>7, <1>8

\* Every step keeps OwnerAttempts.
LEMMA AttemptsStep == ASSUME RefInv, [Next]_vars PROVE OwnerAttempts'
<1>a. ASSUME Keeps, NEW u \in Tokens, exec'[u] = exec[u] \/ exec'[u] = None,
             exec'[u] # None, exec'[u].pc \notin {"renew", "read"}, lease'[exec'[u].job].token = u
      PROVE  exec'[u].attempts = job'[exec'[u].job].attempts
  <2>1. exec[u] # None /\ exec'[u] = exec[u] BY <1>a
  <2>2. exec[u].job \in Jobs BY <2>1 DEF RefInv, LeaseInv, TypeOK, ExecRow
  <2>3. lease[exec[u].job].token = u /\ job'[exec[u].job].attempts = job[exec[u].job].attempts
    BY <1>a, <2>1, <2>2, NoneIsFresh DEF Keeps
  <2> QED BY <1>a, <2>1, <2>3 DEF RefInv, OwnerAttempts, Owns
<1>b. ASSUME Keeps, \A u \in Tokens : exec'[u] = exec[u] \/ exec'[u] = None PROVE OwnerAttempts'
  BY <1>a, <1>b DEF OwnerAttempts, Owns
<1>1. ASSUME NEW i \in Instances, Claim(i) PROVE OwnerAttempts'
  <2>1. ASSUME Same, UNCHANGED exec PROVE OwnerAttempts' BY <1>b, <2>1, RowKept
  <2>2. ASSUME NEW t \in Tokens, Claimed(t) PROVE OwnerAttempts'
    <3>1. ASSUME NEW u \in Tokens, exec'[u] # None, exec'[u].pc \notin {"renew", "read"},
                 lease'[exec'[u].job].token = u
          PROVE  exec'[u].attempts = job'[exec'[u].job].attempts
      <4>1. u # t /\ exec'[u] = exec[u] BY <2>2, <3>1 DEF Claimed
      <4>2. exec[u].job \in Jobs BY <3>1, <4>1 DEF RefInv, LeaseInv, TypeOK, ExecRow
      <4>3. SameRow(exec[u].job) BY <2>2, <3>1, <4>1, <4>2 DEF Claimed
      <4> QED BY <3>1, <4>1, <4>3 DEF SameRow, RefInv, OwnerAttempts, Owns
    <3> QED BY <3>1 DEF OwnerAttempts, Owns
  <2>3. (Same /\ UNCHANGED exec) \/ \E t \in Tokens : Claimed(t) BY <1>1, ClaimRefines
  <2> QED BY <2>1, <2>2, <2>3
<1>2. ASSUME NEW i \in Instances, PollStep(i), ~Claim(i) PROVE OwnerAttempts'
  <2>1. UNCHANGED exec
    BY <1>2 DEF PollStep, PollStart, RecoverLease, LegacyRead, LegacySkip, LegacyCheck, LegacyUpdate,
                ReadCandidates, SelectBatch, StartBatch, PollEnd
  <2> QED BY <1>2, <1>b, <2>1, PollRefines
<1>3. ASSUME NEW t \in Tokens, ExecStep(t) \/ ExecFault(t) \/ Heartbeat(t) PROVE OwnerAttempts'
  <2>1. Keeps BY <1>3, ExecRefines
  <2>2. /\ \A u \in Tokens : u # t => exec'[u] = exec[u]
        /\ exec'[t] # None => exec'[t].job = exec[t].job
    BY <1>3, ExecSelf DEF RefInv, LeaseInv
  <2>3. ASSUME exec'[t] # None, exec'[t].pc \notin {"renew", "read"}, lease'[exec'[t].job].token = t
        PROVE  exec'[t].attempts = job'[exec'[t].job].attempts
    <3>1. exec[t] # None BY <1>3 DEF ExecStep, ExecFault, At, Beating, Renew, RenewFails, ReadJob, TryLock,
        LockFails, Requeue, Prepare, EnsureClaimOwned, EnsureFails, Reply, Conclude, Finish, FinishFails,
        FailJob, FailJobFails, Release, Heartbeat, HeartbeatFails
    <3>2. exec'[t].job = exec[t].job /\ exec[t].job \in Jobs
      BY <2>2, <2>3, <3>1 DEF RefInv, LeaseInv, TypeOK, ExecRow
    <3>3. lease[exec[t].job].token = t /\ job'[exec[t].job].attempts = job[exec[t].job].attempts
      BY <2>1, <2>3, <3>2, NoneIsFresh DEF Keeps
    <3>4. \/ exec'[t].attempts = exec[t].attempts /\ exec[t].pc \notin {"renew", "read"}
          \/ exec'[t].attempts = job[exec[t].job].attempts
      BY <1>3, <2>3, ExecAttempts DEF RefInv, LeaseInv
    <3> QED BY <3>1, <3>2, <3>3, <3>4 DEF RefInv, OwnerAttempts, Owns
  <2>4. ASSUME NEW u \in Tokens, exec'[u] # None, exec'[u].pc \notin {"renew", "read"},
               lease'[exec'[u].job].token = u
        PROVE  exec'[u].attempts = job'[exec'[u].job].attempts
    BY <1>a, <2>1, <2>2, <2>3, <2>4
  <2> QED BY <2>4 DEF OwnerAttempts, Owns
<1>4. ASSUME \/ \E i \in Instances : Retention(i) \/ Crash(i)
             \/ \E j \in Jobs : Enqueue(j) \/ CancelPending(j) \/ TimeStep(j)
             \/ \E c \in Conns : DropSession(c) \/ OutsideLock(c) \/ OutsideUnlock(c)
      PROVE  OwnerAttempts'
  <2>1. Keeps BY <1>4, OutsideRefines
  <2>2. \A u \in Tokens : exec'[u] = exec[u] \/ exec'[u] = None
    BY <1>4 DEF Retention, Crash, Enqueue, CancelPending, TimeStep, BecomeDue, AgeJob, AgeLease,
                DropSession, OutsideLock, OutsideUnlock
  <2> QED BY <1>b, <2>1, <2>2
<1>5. CASE UNCHANGED vars BY <1>5 DEF vars, RefInv, OwnerAttempts, Owns
<1> QED BY <1>1, <1>2, <1>3, <1>4, <1>5 DEF Next

\* The outbox implements the queue: whatever sweeps, zombies, retries and
\* crashes do, a row has one owner at a time, counts exactly the failed
\* attempts of its owners, and never more than its budget.
THEOREM QueueImplementedHolds == Spec => QueueImplemented
<1>1. Init => RefInv /\ Queue!Init
  <2>1. Init => LeaseOnRunning /\ LegacyChecked
    BY DEF Init, LeaseOnRunning, LegacyChecked, NoLease, IdlePoll
  <2>2. Init => OwnerAttempts BY DEF Init, OwnerAttempts
  <2>3. Init => Queue!Init
    <3> SUFFICES ASSUME Init PROVE Queue!Init OBVIOUS
    <3>1. PICK st \in [Jobs -> {"ABSENT", "PENDING", "RUNNING"}] :
            job = [j \in Jobs |-> [status |-> st[j], attempts |-> 0, due |-> TRUE, old |-> FALSE]]
      BY DEF Init
    <3> QED BY <3>1 DEF Init, NoLease, Queue!Init
  <2> QED BY <2>1, <2>2, <2>3, InitType DEF RefInv, LeaseInv
<1>2. RefInv /\ [Next]_vars => RefInv'
  <2> SUFFICES ASSUME RefInv, [Next]_vars PROVE RefInv' OBVIOUS
  <2>1. LeaseInv' BY LeaseStep DEF RefInv
  <2>2. OwnerAttempts' BY AttemptsStep
  <2> QED BY <2>1, <2>2 DEF RefInv
<1>3. RefInv /\ [Next]_vars => QueueStep
  <2> SUFFICES ASSUME RefInv, [Next]_vars PROVE QueueStep OBVIOUS
  <2>1. CASE UNCHANGED vars
    <3>1. Same BY <2>1 DEF vars, Same, SameRow
    <3> QED BY <3>1, SameStutters DEF QueueStep
  <2>2. CASE Next
    BY <2>2, PollRefines, ClaimRefines, ExecRefines, OutsideRefines DEF Next
  <2> QED BY <2>1, <2>2
<1> QED BY <1>1, <1>2, <1>3, PTL DEF Spec, QueueImplemented, QueueStep, Queue!Spec
=============================================================================
