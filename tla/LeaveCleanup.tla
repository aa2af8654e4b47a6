----------------------------- MODULE LeaveCleanup -----------------------------
(***************************************************************************)
(* The clean-up of one member who left the guild (src/modules/moderation/  *)
(* leaveCleanup*.ts, events/guildMember{Add,Remove}.ts): a DataDeletion-   *)
(* Request goes step by step through the hands of several bot processes,   *)
(* while the member comes back, plays, and is put on the whitelist again.  *)
(*                                                                         *)
(* The member has one verified link and one name on one connection. A      *)
(* claim is fenced by its token and its exact lease time, both unique: who *)
(* wrote them last is who they let write, so the model keeps that worker,  *)
(* not the values.  Rows and jobs of the name are not told apart by id.    *)
(***************************************************************************)
EXTENDS Naturals

CONSTANTS
    Workers,       \* bot processes that run the leave worker
    MaxAttempts,   \* LEAVE_CLEANUP_MAX_ATTEMPTS
    Scopes,        \* kinds of request that exist at the start
    Rows,          \* states of the whitelist row at the start
    AddJobs,       \* may an ADD job of the name be PENDING at the start?
    Returns,       \* may the member come back?
    MaxLeaves,     \* bound: leaves
    MaxAdds,       \* bound: whitelist adds
    MaxConnects,   \* bound: sessions on the game server
    MaxFaults      \* bound: crashes, lost leases, failed jobs, database errors

CleanupAssumption ==
    /\ MaxAttempts \in Nat /\ MaxLeaves \in Nat /\ MaxAdds \in Nat /\ MaxConnects \in Nat /\ MaxFaults \in Nat
    /\ Scopes \subseteq {"NONE", "STANDARD", "FULL_PURGE_LEGACY"}
    /\ Rows \subseteq {"NONE", "LOCAL_ONLY", "SYNCED", "PENDING_REMOVE"}
    /\ AddJobs \in BOOLEAN /\ Returns \in BOOLEAN

VARIABLES
    req,      \* the DataDeletionRequest of the member, the last one
    work,     \* work[w]: where worker w is, and what it has read
    wl,       \* the name: row, approved request, on Nitrado's list?, its jobs
    exec,     \* the NitradoJob worker: the job it executes, holding the lock
    member,   \* Discord's truth, the profile, and the event handlers under way
    data,     \* link, session, active lottery ticket, level row
    add,      \* is a whitelist add between its guard and its commit?
    covered,  \* history: has a request been open since the last markMemberLeft?
              \* "failed" when the handler has given up asking for one
    spent     \* [leaves, adds, connects, faults] so far

vars == <<req, work, wl, exec, member, data, add, covered, spent>>

Steps    == <<"WHITELIST", "STATS_SESSIONS", "LINK_ECONOMY", "GUILD_DATA", "COMPLETE">>
Rank(s)  == CHOOSE i \in 1..5 : Steps[i] = s
JobState == {"NONE", "PENDING", "RUNNING", "DEAD"}
Open     == req.status \in {"PENDING", "IN_PROGRESS", "FAILED"}
Idle     == [pc |-> "idle", id |-> 0, step |-> "WHITELIST", attempts |-> 0,
             row |-> FALSE, add |-> "NONE", remove |-> "NONE", remote |-> FALSE]

TypeOK ==
    /\ req \in [id: Nat, status: {"NONE", "PENDING", "IN_PROGRESS", "FAILED", "COMPLETED"},
                scope: {"STANDARD", "FULL_PURGE_LEGACY"}, step: {Steps[i] : i \in 1..5},
                stage: {"QUEUED", "RUNNING", "RETRY_WAIT", "COMPLETED", "DEAD"},
                attempts: 0..MaxAttempts, owner: Workers \union {"none"}, stale: BOOLEAN]
    /\ req.status = "IN_PROGRESS" <=> req.stage = "RUNNING"
    /\ work \in [Workers -> [pc: {"idle", "claim", "step", "jobs", "remote", "list", "mark", "fresh", "finish",
                                  "pseudonymize", "purge", "final", "profile", "advance", "defer", "error"},
                             id: Nat, step: {Steps[i] : i \in 1..5}, attempts: 0..MaxAttempts,
                             row: BOOLEAN, add: JobState, remove: JobState, remote: BOOLEAN]]
    /\ wl \in [row: {"NONE", "LOCAL_ONLY", "SYNCED", "PENDING_REMOVE"}, approved: BOOLEAN,
               remote: BOOLEAN, add: JobState, remove: JobState]
    /\ exec \in [pc: {"idle", "decide", "write"}, op: {"add", "remove"}]
    /\ member \in [here: BOOLEAN, isLeft: BOOLEAN, fresh: BOOLEAN, leaving: {"no", "mark", "only", "confirm"}, joining: BOOLEAN]
    /\ data \in [link: BOOLEAN, session: {"OPEN", "CLOSED", "PSEUDO"}, ticket: BOOLEAN, level: BOOLEAN]
    /\ add \in BOOLEAN /\ covered \in {"no", "yes", "failed"}
    /\ spent \in [leaves: 0..MaxLeaves, adds: 0..MaxAdds, connects: 0..MaxConnects, faults: 0..MaxFaults]

\* A member with a link; or one who left when requests still were of the old kind.
Init ==
    \E scope \in Scopes, row \in Rows, job \in {FALSE, AddJobs}, approved \in BOOLEAN :
        /\ req = [id |-> IF scope = "NONE" THEN 0 ELSE 1,
                  status |-> IF scope = "NONE" THEN "NONE" ELSE "PENDING",
                  scope |-> IF scope = "NONE" THEN "STANDARD" ELSE scope, step |-> "WHITELIST",
                  stage |-> "QUEUED", attempts |-> 0, owner |-> "none", stale |-> FALSE]
        /\ work = [w \in Workers |-> Idle]
        /\ job => row = "LOCAL_ONLY"
        /\ approved => row \in {"LOCAL_ONLY", "SYNCED"}
        /\ wl = [row |-> row, approved |-> approved, remote |-> row # "LOCAL_ONLY",
                 add |-> IF job THEN "PENDING" ELSE "NONE", remove |-> "NONE"]
        /\ exec = [pc |-> "idle", op |-> "add"]
        /\ member = [here |-> scope = "NONE", isLeft |-> scope # "NONE", fresh |-> FALSE,
                     leaving |-> "no", joining |-> FALSE]
        /\ data = [link |-> TRUE, session |-> "CLOSED", ticket |-> scope # "NONE", level |-> TRUE]
        /\ add = FALSE
        /\ covered = "yes"
        /\ spent = [leaves |-> 0, adds |-> 0, connects |-> 0, faults |-> 0]

Spend(field, max) == spent[field] < max /\ spent' = [spent EXCEPT ![field] = @ + 1]

-----------------------------------------------------------------------------
(* Joining and leaving *)

\* enqueueLeaveCleanupRequest: not while one is open, a dead one included.
Enqueued == IF Open THEN req
            ELSE [id |-> req.id + 1, status |-> "PENDING", scope |-> "STANDARD", step |-> "WHITELIST",
                  stage |-> "QUEUED", attempts |-> 0, owner |-> "none", stale |-> FALSE]

\* guildMemberRemove: the request, the mark, and the request again.  An error of
\* the database at any of them is logged, and the handler goes on; without the
\* configuration ("only") it does not ask again.
Leave == /\ member.here /\ member.leaving = "no" /\ ~member.joining
         /\ spent.leaves < MaxLeaves
         /\ \/ /\ req' = Enqueued /\ covered' = "no"
               /\ spent' = [spent EXCEPT !.leaves = spent.leaves + 1]
               /\ member' = [member EXCEPT !.here = FALSE, !.leaving = "mark", !.fresh = @ /\ Open]
            \/ /\ UNCHANGED req /\ spent.faults < MaxFaults
               /\ spent' = [spent EXCEPT !.leaves = spent.leaves + 1, !.faults = spent.faults + 1]
               /\ \/ covered' = "no" /\ member' = [member EXCEPT !.here = FALSE, !.leaving = "mark"]
                  \/ covered' = "failed" /\ member' = [member EXCEPT !.here = FALSE, !.leaving = "only"]
         /\ UNCHANGED <<work, wl, exec, data, add>>

MarkMemberLeft == /\ member.leaving \in {"mark", "only"}
                  /\ \E left \in {TRUE, member.isLeft} :
                        /\ IF left THEN UNCHANGED spent ELSE Spend("faults", MaxFaults)
                        /\ member' = [member EXCEPT !.isLeft = left,
                                                    !.leaving = IF @ = "only" THEN "no" ELSE "confirm"]
                  /\ covered' = IF Open THEN "yes" ELSE covered
                  /\ UNCHANGED <<req, work, wl, exec, data, add>>

\* Mutant of ConfirmLeave: the second enqueue is left out.
ConfirmLeaveNot == /\ member.leaving = "confirm"
                   /\ member' = [member EXCEPT !.leaving = "no"]
                   /\ UNCHANGED <<req, work, wl, exec, data, add, covered, spent>>

ConfirmLeave == /\ member.leaving = "confirm"
                /\ \/ /\ req' = Enqueued
                      /\ covered' = IF Open' THEN "yes" ELSE covered
                      /\ member' = [member EXCEPT !.leaving = "no", !.fresh = @ /\ Open]
                      /\ UNCHANGED spent
                   \/ /\ Spend("faults", MaxFaults)
                      /\ covered' = IF covered = "no" THEN "failed" ELSE covered
                      /\ member' = [member EXCEPT !.leaving = "no"]
                      /\ UNCHANGED req
                /\ UNCHANGED <<work, wl, exec, data, add>>

\* guildMemberAdd: the profile, then the level row unless a clean-up is open.
Rejoin == /\ Returns /\ ~member.here /\ ~member.joining
          /\ member' = [member EXCEPT !.here = TRUE, !.isLeft = FALSE, !.fresh = TRUE, !.joining = TRUE]
          /\ UNCHANGED <<req, work, wl, exec, data, add, covered, spent>>

RejoinLevel == /\ member.joining
               /\ member' = [member EXCEPT !.joining = FALSE]
               /\ data' = [data EXCEPT !.level = @ \/ ~Open]
               /\ UNCHANGED <<req, work, wl, exec, add, covered, spent>>

-----------------------------------------------------------------------------
(* The game server, the lottery, and whitelist adds *)

Connect == /\ data.session # "OPEN" /\ Spend("connects", MaxConnects)
           /\ data' = [data EXCEPT !.session = "OPEN"]
           /\ UNCHANGED <<req, work, wl, exec, member, add, covered>>

Disconnect == /\ data.session = "OPEN"
              /\ data' = [data EXCEPT !.session = "CLOSED"]
              /\ UNCHANGED <<req, work, wl, exec, member, add, covered, spent>>

DrawLottery == /\ data.ticket
               /\ data' = [data EXCEPT !.ticket = FALSE]
               /\ UNCHANGED <<req, work, wl, exec, member, add, covered, spent>>

\* Session names lead to the link, and only to it.
Known == data.link /\ data.session # "PSEUDO"

\* enqueueWhitelistAdd looks for an open clean-up, and then takes its locks.
AddGuard == /\ ~add /\ ~(Open /\ Known)
            /\ Spend("adds", MaxAdds)
            /\ add' = TRUE
            /\ UNCHANGED <<req, work, wl, exec, member, data, covered>>

AddCommit == /\ add /\ add' = FALSE
             /\ wl' = [wl EXCEPT !.row = "LOCAL_ONLY", !.add = IF @ = "RUNNING" THEN @ ELSE "PENDING"]
             /\ UNCHANGED <<req, work, exec, member, data, covered, spent>>

-----------------------------------------------------------------------------
(* The NitradoJob worker, see Whitelist *)

LockFree == exec.pc = "idle"

TakeJob(op) == /\ LockFree /\ wl[op] = "PENDING"
               /\ exec' = [pc |-> "decide", op |-> op]
               /\ wl' = [wl EXCEPT ![op] = "RUNNING"]
               /\ UNCHANGED <<req, work, member, data, add, covered, spent>>

\* hasAuthorizedVerifiedLeaveRemoveIntent: a REMOVE without a row is carried
\* out for a request that is being worked on, in this very step.
Authorized == req.status = "IN_PROGRESS" /\ req.stage = "RUNNING" /\ req.step = "WHITELIST" /\ Known

MayRemove == wl.row = "PENDING_REMOVE" \/ (wl.row = "NONE" /\ Authorized)
Current == IF exec.op = "add" THEN wl.row \in {"LOCAL_ONLY", "SYNCED"} ELSE MayRemove

\* The counter-intent of a superseded ADD is a REMOVE; that of a superseded
\* REMOVE is an ADD, which an open clean-up turns into a failure of the job.
Decide ==
    /\ exec.pc = "decide"
    /\ IF Current THEN exec' = [exec EXCEPT !.pc = "write"] /\ UNCHANGED wl
       ELSE /\ exec' = [exec EXCEPT !.pc = "idle"]
            /\ wl' = IF exec.op = "add"
                     THEN [wl EXCEPT !.add = "NONE", !.remove = IF @ = "RUNNING" THEN @ ELSE "PENDING"]
                     ELSE IF wl.row = "NONE" THEN [wl EXCEPT !.remove = "NONE"]
                     ELSE IF Open /\ Known THEN [wl EXCEPT !.remove = "DEAD"]
                     ELSE [wl EXCEPT !.remove = "NONE", !.add = IF @ = "RUNNING" THEN @ ELSE "PENDING"]
    /\ UNCHANGED <<req, work, member, data, add, covered, spent>>

WriteRemote ==
    /\ exec.pc = "write" /\ exec' = [exec EXCEPT !.pc = "idle"]
    /\ wl' = [wl EXCEPT ![exec.op] = "NONE", !.remote = exec.op = "add",
                        !.row = IF exec.op = "add" /\ @ = "LOCAL_ONLY" THEN "SYNCED" ELSE @]
    /\ UNCHANGED <<req, work, member, data, add, covered, spent>>

JobDies == /\ exec.pc # "idle" /\ Spend("faults", MaxFaults)
           /\ exec' = [exec EXCEPT !.pc = "idle"]
           /\ wl' = [wl EXCEPT ![exec.op] = "DEAD"]
           /\ UNCHANGED <<req, work, member, data, add, covered>>

-----------------------------------------------------------------------------
(* Claims *)

At(w, pc) == work[w].pc = pc
Owner(w) == req.status = "IN_PROGRESS" /\ req.owner = w /\ req.id = work[w].id
Goto(w, pc) == work' = [work EXCEPT ![w].pc = pc]
Stop(w) == work' = [work EXCEPT ![w] = Idle]

\* finalizeLeaveRejoinState holds the request's row FOR UPDATE.
RowLocked == \E w \in Workers : At(w, "profile")

\* claimNextLeaveCleanupRequest: the candidate is read ...
Candidate(w) ==
    /\ At(w, "idle") /\ req.status = "PENDING"
    /\ work' = [work EXCEPT ![w] = [Idle EXCEPT !.pc = "claim", !.id = req.id,
                                                !.step = req.step, !.attempts = req.attempts]]
    /\ UNCHANGED <<req, wl, exec, member, data, add, covered, spent>>

\* ... and claimed by its status; its details are those that were read.
Claim(w) ==
    /\ At(w, "claim")
    /\ IF req.status = "PENDING" /\ req.id = work[w].id
       THEN /\ Goto(w, "step")
            /\ req' = [req EXCEPT !.status = "IN_PROGRESS", !.stage = "RUNNING", !.owner = w, !.stale = FALSE,
                                  !.step = work[w].step, !.attempts = work[w].attempts]
       ELSE Stop(w) /\ UNCHANGED req
    /\ UNCHANGED <<wl, exec, member, data, add, covered, spent>>

\* A claim goes stale when its worker is dead, or cannot renew it.
AgeLease ==
    /\ req.status = "IN_PROGRESS" /\ ~req.stale
    /\ req' = [req EXCEPT !.stale = TRUE]
    /\ IF \E w \in Workers : Owner(w) THEN Spend("faults", MaxFaults) ELSE UNCHANGED spent
    /\ UNCHANGED <<work, wl, exec, member, data, add, covered>>

\* recoverStaleLeaveCleanupRequests: attempts stay as they are.
Recover(w) ==
    /\ At(w, "idle") /\ req.stale /\ ~RowLocked
    /\ req' = [req EXCEPT !.status = "PENDING", !.stage = "QUEUED", !.owner = "none", !.stale = FALSE]
    /\ UNCHANGED <<work, wl, exec, member, data, add, covered, spent>>

\* Every fenced write: done by the owner, an end of the run for anybody else.
Fenced(w, pc, r) == IF Owner(w) /\ ~(RowLocked /\ ~At(w, "profile"))
                    THEN req' = r /\ work' = [work EXCEPT ![w] = IF pc = "idle" THEN Idle ELSE [@ EXCEPT !.pc = pc]]
                    ELSE Stop(w) /\ UNCHANGED req

Released(r) == [r EXCEPT !.status = "PENDING", !.stage = "RETRY_WAIT", !.owner = "none", !.stale = FALSE]

\* renewLeaveCleanupClaimLease before the work of a step.
Begin(w) ==
    /\ At(w, "step")
    /\ Fenced(w, CASE req.step = "WHITELIST"      -> "jobs"
                   [] req.step = "STATS_SESSIONS" -> IF data.session = "OPEN" /\ data.link THEN "defer"
                                                     ELSE IF data.session = "CLOSED" /\ data.link THEN "pseudonymize"
                                                     ELSE "advance"
                   [] req.step = "LINK_ECONOMY"   -> IF req.scope = "STANDARD" THEN "advance"
                                                     ELSE IF data.ticket THEN "defer" ELSE "purge"
                   [] req.step = "GUILD_DATA"     -> IF req.scope = "STANDARD" THEN "advance" ELSE "purge"
                   [] OTHER                       -> IF req.scope = "STANDARD" THEN "advance" ELSE "final",
              [req EXCEPT !.stale = FALSE])
    /\ UNCHANGED <<wl, exec, member, data, add, covered, spent>>

NextStep(step, scope) ==
    Steps[IF scope = "STANDARD" /\ step # "WHITELIST" THEN 5 ELSE Rank(step) + 1]

\* advanceLeaveCleanupStep, and completeLeaveCleanupRequest after the last step.
Advance(w) ==
    /\ At(w, "advance")
    /\ IF req.step = "COMPLETE"
       THEN Fenced(w, "idle", [req EXCEPT !.status = "COMPLETED", !.stage = "COMPLETED", !.owner = "none", !.stale = FALSE])
       ELSE Fenced(w, "step", [req EXCEPT !.step = NextStep(req.step, req.scope), !.stale = FALSE])
    /\ UNCHANGED <<wl, exec, member, data, add, covered, spent>>

\* deferLeaveCleanupRequest: waiting costs no attempt.
Defer(w) == /\ At(w, "defer")
            /\ Fenced(w, "idle", Released(req))
            /\ UNCHANGED <<wl, exec, member, data, add, covered, spent>>

\* Mutant of Retry: errors are not counted.
RetryForever(w) == /\ At(w, "error")
                   /\ Fenced(w, "idle", Released(req))
                   /\ UNCHANGED <<wl, exec, member, data, add, covered, spent>>

\* retryOrDeadLetterLeaveCleanupRequest.
Retry(w) ==
    /\ At(w, "error")
    /\ Fenced(w, "idle", IF req.attempts + 1 >= MaxAttempts
                         THEN [Released(req) EXCEPT !.attempts = MaxAttempts, !.status = "FAILED", !.stage = "DEAD"]
                         ELSE [Released(req) EXCEPT !.attempts = @ + 1])
    /\ UNCHANGED <<wl, exec, member, data, add, covered, spent>>

\* A statement fails, or the process dies with its claim.
WorkFails(w) == /\ work[w].pc \notin {"idle", "claim"} /\ Spend("faults", MaxFaults)
                /\ Goto(w, "error") \/ Stop(w)
                /\ UNCHANGED <<req, wl, exec, member, data, add, covered>>

-----------------------------------------------------------------------------
(* The steps *)

\* processLink: without a known name there is nothing to do, except that an
\* approved request is then nobody's to decide.
ReadJobs(w) ==
    /\ At(w, "jobs")
    /\ IF Known
       THEN work' = [work EXCEPT ![w] = [@ EXCEPT !.pc = "remote", !.row = wl.row # "NONE",
                                                  !.add = wl.add, !.remove = wl.remove]]
       ELSE Goto(w, IF wl.approved THEN "error" ELSE "advance")
    /\ UNCHANGED <<req, wl, exec, member, data, add, covered, spent>>

\* The binding is read under the connection lock, which is tried, not waited for ...
ReadBinding(w) ==
    /\ At(w, "remote")
    /\ Goto(w, IF LockFree THEN "list" ELSE "error")
    /\ UNCHANGED <<req, wl, exec, member, data, add, covered, spent>>

\* ... and Nitrado's list without it. A dead REMOVE needs a human.
ReadRemote(w) ==
    /\ At(w, "list")
    /\ work' = [work EXCEPT ![w] = [@ EXCEPT !.remote = wl.remote,
                 !.pc = IF wl.remote /\ work[w].remove = "DEAD" THEN "error" ELSE "mark"]]
    /\ UNCHANGED <<req, wl, exec, member, data, add, covered, spent>>

\* The first transaction, on what was read before it.
Mark(w) ==
    /\ At(w, "mark")
    /\ LET seen   == work[w]
           remove == seen.remote /\ seen.add # "RUNNING" /\ seen.remove \notin {"PENDING", "RUNNING"}
       IN IF ~LockFree THEN Goto(w, "error") /\ UNCHANGED wl
          ELSE /\ Goto(w, IF seen.add = "RUNNING" \/ seen.remote THEN "defer" ELSE "fresh")
               /\ wl' = [wl EXCEPT !.row = IF @ # "NONE" /\ (seen.row \/ remove) THEN "PENDING_REMOVE" ELSE @,
                                   !.approved = FALSE,
                                   !.add = IF seen.add = "PENDING" /\ @ = "PENDING" THEN "NONE" ELSE @,
                                   !.remove = IF remove THEN "PENDING" ELSE @]
    /\ UNCHANGED <<req, exec, member, data, add, covered, spent>>

ReadFresh(w) ==
    /\ At(w, "fresh")
    /\ Goto(w, IF "RUNNING" \in {wl.add, wl.remove} THEN "defer" ELSE "finish")
    /\ UNCHANGED <<req, wl, exec, member, data, add, covered, spent>>

Finish(w) ==
    /\ At(w, "finish")
    /\ IF ~LockFree THEN Goto(w, "error") /\ UNCHANGED wl
       ELSE /\ Goto(w, "advance")
            /\ wl' = [wl EXCEPT !.row = IF work[w].row /\ @ = "PENDING_REMOVE" THEN "NONE" ELSE @,
                                !.add = "NONE", !.remove = "NONE"]
    /\ UNCHANGED <<req, exec, member, data, add, covered, spent>>

\* Mutant of Pseudonymize: open sessions are not looked for again.
PseudonymizeBlind(w) ==
    /\ At(w, "pseudonymize")
    /\ Goto(w, "advance")
    /\ data' = [data EXCEPT !.session = "PSEUDO"]
    /\ UNCHANGED <<req, wl, exec, member, add, covered, spent>>

\* Under table locks; an open session would lose its disconnect.
Pseudonymize(w) ==
    /\ At(w, "pseudonymize")
    /\ IF data.session = "OPEN" THEN Goto(w, "defer") /\ UNCHANGED data
       ELSE Goto(w, "advance") /\ data' = [data EXCEPT !.session = "PSEUDO"]
    /\ UNCHANGED <<req, wl, exec, member, add, covered, spent>>

\* LINK_ECONOMY deletes the link, GUILD_DATA the level row: old requests only.
Purge(w) ==
    /\ At(w, "purge")
    /\ IF req.step = "LINK_ECONOMY" THEN Goto(w, "advance") /\ data' = [data EXCEPT !.link = FALSE]
                                    ELSE Goto(w, "final") /\ data' = [data EXCEPT !.level = FALSE]
    /\ UNCHANGED <<req, wl, exec, member, add, covered, spent>>

\* finalizeLeaveRejoinState reads the profile under its claim (row and add hold
\* what it saw: was the member back, and marked left?) ...
ReadProfile(w) ==
    /\ At(w, "final")
    /\ IF Owner(w) /\ ~RowLocked
       THEN work' = [work EXCEPT ![w] = [@ EXCEPT !.pc = "profile", !.row = ~member.isLeft /\ member.fresh,
                                                  !.remote = member.isLeft]]
       ELSE Stop(w)
    /\ UNCHANGED <<req, wl, exec, member, data, add, covered, spent>>

\* ... and writes it if it is still the same; otherwise all is rolled back.
WriteProfile(w) ==
    /\ At(w, "profile")
    /\ IF work[w].row = (~member.isLeft /\ member.fresh) /\ work[w].remote = member.isLeft
       THEN /\ Goto(w, "advance")
            /\ member' = [member EXCEPT !.isLeft = ~work[w].row]
            /\ data' = [data EXCEPT !.level = work[w].row]
       ELSE Goto(w, "error") /\ UNCHANGED <<member, data>>
    /\ UNCHANGED <<req, wl, exec, add, covered, spent>>

-----------------------------------------------------------------------------
Work(w) == \/ Candidate(w) \/ Claim(w) \/ Begin(w) \/ Advance(w) \/ Defer(w) \/ Retry(w) \/ Recover(w)
           \/ ReadJobs(w) \/ ReadBinding(w) \/ ReadRemote(w) \/ Mark(w) \/ ReadFresh(w) \/ Finish(w)
           \/ Pseudonymize(w) \/ Purge(w) \/ ReadProfile(w) \/ WriteProfile(w)

Next == \/ Leave \/ MarkMemberLeft \/ ConfirmLeave \/ Rejoin \/ RejoinLevel
        \/ Connect \/ Disconnect \/ DrawLottery \/ AddGuard \/ AddCommit
        \/ \E op \in {"add", "remove"} : TakeJob(op)
        \/ Decide \/ WriteRemote \/ JobDies \/ AgeLease
        \/ \E w \in Workers : Work(w) \/ WorkFails(w)

Spec == Init /\ [][Next]_vars

(***************************************************************************)
(* The leave worker and the job worker poll on timers; a claim without a   *)
(* living worker goes stale by the clock; players leave the server and     *)
(* lotteries are drawn.                                                    *)
(***************************************************************************)
Fairness == /\ \A w \in Workers : WF_vars(Work(w))
            /\ WF_vars(MarkMemberLeft) /\ WF_vars(ConfirmLeave) /\ WF_vars(RejoinLevel)
            /\ WF_vars(Decide) /\ WF_vars(WriteRemote) /\ WF_vars(AddCommit)
            /\ \A op \in {"add", "remove"} : SF_vars(TakeJob(op))
            /\ WF_vars(AgeLease /\ UNCHANGED spent)
            /\ WF_vars(Disconnect) /\ WF_vars(DrawLottery)

FairSpec == Spec /\ Fairness

-----------------------------------------------------------------------------
(* Properties *)

\* guildMemberRemove.ts:126-130: also a member who left again while an older
\* clean-up ended has a request of that leave when the handler is through, and
\* also when the first enqueue failed; unless the configuration could not be
\* read or the second enqueue failed too, which the handler only logs.
LeaveCovered == member.leaving = "no" /\ ~member.here => covered # "no"

\* leaveCleanupStatsSessions.ts: a session that is open keeps its identity,
\* whenever the player connected.
OpenSessionKept == [][data.session = "OPEN" => data'.session # "PSEUDO"]_vars

\* leaveCleanupRejoin.ts: an old clean-up never marks a member as left who came
\* back after it was requested.
RejoinerKept ==
    [][member.here /\ member.fresh /\ ~member.isLeft /\ member.leaving = "no"
        => ~member'.isLeft \/ ~member'.here]_vars

\* leaveCleanupWhitelist.ts: the whitelist step ends, for a known name, only
\* when Nitrado no longer has it (an add under way can still put it back).
CleanedIsOff ==
    [][req.step = "WHITELIST" /\ req'.step = "STATS_SESSIONS" /\ Known /\ spent.adds = 0 => ~wl.remote]_vars

\* A row on the whitelist that nobody wants to remove survives the clean-up.
PresentRowKept ==
    [][wl.row \in {"LOCAL_ONLY", "SYNCED"} => wl'.row # "NONE"]_vars

\* Every clean-up comes to an end, through crashes and failed jobs.
LeaveFinishes == req.status \in {"PENDING", "IN_PROGRESS"} ~> req.status \in {"COMPLETED", "FAILED"}

-----------------------------------------------------------------------------
(* What comments of the code promise and the code does not keep: the README *)
(* tells for each how it fails.                                             *)

\* leaveCleanupSaga.ts:377-380 "So fuehren normale externe Wartezustaende
\* niemals allein ins Dead-Letter".
WaitsNeverKill == spent.faults = 0 => req.status # "FAILED"

\* leaveCleanupWorker.ts:119-121 "wodurch Restart-Recovery nie wieder bei einer
\* bereits verlorenen Identitaetsquelle beginnen muss".
NeverStepsBack == [][req'.id = req.id => Rank(req'.step) >= Rank(req.step)]_vars

\* whitelistOutbox.ts:107-110 "darf nach bereits abgeschlossenem WHITELIST-Step
\* nicht durch einen Rejoin + erneutes ADD unterlaufen werden".
NoAddWhileOpen == [][add /\ ~add' => ~(Open /\ Known)]_vars

\* guildMemberAdd.ts:66-67: a join sets the profile active, deterministically.
PresentIsActive == member.here /\ member.leaving = "no" => ~member.isLeft
=============================================================================
