------------------------------- MODULE Whitelist -------------------------------
(***************************************************************************)
(* One player name on the whitelist of one Nitrado connection: the local   *)
(* row, the outbox jobs, the remote list, and everybody who moves them     *)
(* (src/modules/whitelist, nitrado/whitelistIntent.ts, the WHITELIST       *)
(* operations of jobWorker.ts, the commands and dashboard routes).         *)
(*                                                                         *)
(* Job executions, the sync, the ban job, the ban reconciliation and the   *)
(* commit of a dashboard sync hold the connection lock; the commands write *)
(* in transactions of their own, at any moment.  Nothing relates two names *)
(* but that lock.  NitradoJobs shows that an unfinished job comes back.    *)
(***************************************************************************)
EXTENDS Naturals

CONSTANTS
    Commands,      \* kinds of command that are used
    Catalog,       \* has the server a catalogue channel, where drift is reported?
    MaxCommands,   \* bound: commands
    MaxEdits,      \* bound: edits of the list in Nitrado's web interface
    MaxFaults      \* bound: failed jobs and runs

\* The bounds are numbers.
NameAssumption == MaxCommands \in Nat /\ MaxEdits \in Nat /\ MaxFaults \in Nat

AllCommands == {"add", "remove", "request", "approve", "accept", "restore", "sync", "ban", "unban"}

VARIABLES
    entry,     \* syncState of the WhitelistEntry, NONE without a row
    request,   \* is a WhitelistRequest PENDING?
    remote,    \* is the name on Nitrado's whitelist?
    job,       \* job[op]: is a WHITELIST_op job PENDING or RUNNING?
    ban,       \* [active: is the player banned?, job: is its ADD job unfinished?]
    drift,     \* the NitradoDriftNotice, SILENT without a message
    cmd,       \* cmd[k]: a command of kind k between its reads and its commit
    work,      \* the worker's execution on this connection
    cron,      \* runWhitelistSyncOnce on this connection
    foreign,   \* history: is the name listed by an outside hand, and by no command since?
    spent      \* [commands, edits, faults] so far

vars == <<entry, request, remote, job, ban, drift, cmd, work, cron, foreign, spent>>

Ops     == {"ADD", "REMOVE"}
States  == {"NONE", "LOCAL_ONLY", "SYNCED", "PENDING_REMOVE"}
Present == {"LOCAL_ONLY", "SYNCED"}
Drifts  == {"NONE", "SILENT", "POSTED"}

NoWork    == [pc |-> "idle", op |-> "ADD"]
NoSync    == [pc |-> "idle", seen |-> FALSE, row |-> "NONE"]
NoCommand == [at |-> "idle", seen |-> FALSE, row |-> "NONE"]

TypeOK ==
    /\ entry \in States /\ request \in BOOLEAN /\ remote \in BOOLEAN /\ drift \in Drifts
    /\ job \in [Ops -> BOOLEAN] /\ ban \in [active: BOOLEAN, job: BOOLEAN]
    /\ cmd \in [AllCommands -> [at: {"idle", "listed", "absent", "commit"}, seen: BOOLEAN, row: States]]
    /\ work \in [pc: {"idle", "decide", "write", "recheck", "compensate", "done",
                      "withdraw", "unlist"}, op: Ops]
    /\ cron \in [pc: {"idle", "local", "confirm", "row", "jobs"}, seen: BOOLEAN, row: States]
    /\ foreign \in BOOLEAN
    /\ spent \in [commands: 0..MaxCommands, edits: 0..MaxEdits, faults: 0..MaxFaults]

\* A new name, or one that is already on both lists, or on Nitrado's alone.
Init == /\ entry \in {"NONE", "SYNCED"}
        /\ remote \in {TRUE, entry = "SYNCED"}
        /\ request = FALSE
        /\ job = [op \in Ops |-> FALSE]
        /\ ban = [active |-> FALSE, job |-> FALSE]
        /\ drift = "NONE"
        /\ cmd = [k \in AllCommands |-> NoCommand]
        /\ work = NoWork
        /\ cron = NoSync
        /\ foreign = (entry = "NONE" /\ remote)
        /\ spent = [commands |-> 0, edits |-> 0, faults |-> 0]

-----------------------------------------------------------------------------
(* The outbox *)

At(pc) == work.pc = pc
LockFree == work.pc = "idle" /\ cron.pc = "idle"

\* markWhitelistRemoveIntent: the row, if there is one, and the open request.
MarkRemove == /\ entry' = IF entry = "NONE" THEN "NONE" ELSE "PENDING_REMOVE"
              /\ request' = FALSE

\* ensureWhitelistJobInLock: no second active job of an operation; a REMOVE
\* marks the row first, whoever asks for it.
EnqueueAdd == job' = [job EXCEPT !["ADD"] = TRUE] /\ UNCHANGED <<entry, request>>
EnqueueRemove == job' = [job EXCEPT !["REMOVE"] = TRUE] /\ MarkRemove

-----------------------------------------------------------------------------
(* Commands *)

Start(k) == /\ k \in Commands /\ spent.commands < MaxCommands
            /\ spent' = [spent EXCEPT !.commands = @ + 1]

Begin(k, c) == /\ cmd[k].at = "idle" /\ Start(k)
               /\ cmd' = [cmd EXCEPT ![k] = c]
               /\ UNCHANGED <<entry, request, remote, job, ban, drift, work, cron, foreign>>

Committing(k) == cmd[k].at = "commit" /\ cmd' = [cmd EXCEPT ![k] = NoCommand]

\* /wl-add, and the approval of a request: the transaction looks for an active
\* ban and then writes.
AddBegin == /\ ~ban.active
            /\ \/ Begin("add", [NoCommand EXCEPT !.at = "commit"])
               \/ request /\ Begin("approve", [NoCommand EXCEPT !.at = "commit"])

AddCommit ==
    /\ Committing("add")
    /\ entry' = "LOCAL_ONLY" /\ foreign' = FALSE
    /\ job' = [job EXCEPT !["ADD"] = TRUE]
    /\ UNCHANGED <<request, remote, ban, drift, work, cron, spent>>

\* The decision is a compare-and-set on PENDING: the second click does nothing.
ApproveCommit ==
    /\ Committing("approve")
    /\ IF request
       THEN /\ entry' = "LOCAL_ONLY" /\ request' = FALSE /\ foreign' = FALSE
            /\ job' = [job EXCEPT !["ADD"] = TRUE]
       ELSE UNCHANGED <<entry, request, job, foreign>>
    /\ UNCHANGED <<remote, ban, drift, work, cron, spent>>

Deny == /\ request /\ request' = FALSE /\ Start("approve")
        /\ UNCHANGED <<entry, remote, job, ban, drift, cmd, work, cron, foreign>>

\* /wl-remove, one transaction.
Remove == /\ Start("remove")
          /\ EnqueueRemove
          /\ foreign' = (foreign /\ entry = "NONE")
          /\ UNCHANGED <<remote, ban, drift, cmd, work, cron>>

\* /whitelist: not for a name that is banned, listed or already requested ...
RequestBegin == /\ ~ban.active /\ entry \notin Present /\ ~request
                /\ Begin("request", [at |-> "listed", seen |-> FALSE, row |-> entry])

\* ... nor for one that Nitrado has ...
RequestCheck ==
    /\ cmd["request"].at = "listed"
    /\ cmd' = [cmd EXCEPT !["request"] = IF remote THEN NoCommand ELSE [@ EXCEPT !.at = "absent"]]
    /\ UNCHANGED <<entry, request, remote, job, ban, drift, work, cron, foreign, spent>>

\* ... and a row on its way out makes room for the request.
RequestReplace ==
    /\ cmd["request"].at = "absent"
    /\ cmd' = [cmd EXCEPT !["request"].at = "commit"]
    /\ entry' = IF cmd["request"].row = "PENDING_REMOVE" /\ entry = "PENDING_REMOVE" THEN "NONE" ELSE entry
    /\ UNCHANGED <<request, remote, job, ban, drift, work, cron, foreign, spent>>

\* Claimed if there is none; deleted again if its embed cannot be posted.
RequestClaim ==
    /\ Committing("request")
    /\ \E posted \in BOOLEAN : request' = (request \/ posted)
    /\ UNCHANGED <<entry, remote, job, ban, drift, work, cron, foreign, spent>>

\* The buttons of a drift notice's message: Nitrado is read, then the row decides.
DriftBegin == /\ drift = "POSTED" /\ ~remote
              /\ \E k \in {"accept", "restore"} : Begin(k, [NoCommand EXCEPT !.at = "commit"])

DriftReappeared == /\ drift = "POSTED" /\ remote /\ drift' = "NONE"
                   /\ Start("accept")
                   /\ UNCHANGED <<entry, request, remote, job, ban, cmd, work, cron, foreign>>

AcceptCommit ==
    /\ Committing("accept")
    /\ IF entry = "SYNCED" THEN entry' = "NONE" /\ request' = FALSE /\ drift' = "NONE" /\ foreign' = FALSE
       ELSE UNCHANGED <<entry, request, drift, foreign>>
    /\ UNCHANGED <<remote, job, ban, work, cron, spent>>

RestoreCommit ==
    /\ Committing("restore")
    /\ IF entry = "SYNCED"
       THEN /\ entry' = "LOCAL_ONLY" /\ drift' = "NONE"
            /\ job' = [job EXCEPT !["ADD"] = TRUE]
       ELSE UNCHANGED <<entry, drift, job>>
    /\ UNCHANGED <<request, remote, ban, work, cron, foreign, spent>>

\* POST /sync (merge): both lists are read without the lock, the additions are
\* made under it.
SyncBegin == Begin("sync", [at |-> "commit", seen |-> remote, row |-> entry])

SyncCommit ==
    LET c == cmd["sync"] IN
    /\ Committing("sync") /\ LockFree
    /\ entry' = IF c.seen /\ c.row \notin Present /\ ~ban.active /\ entry = "NONE"
                THEN "SYNCED" ELSE entry
    /\ job' = IF ~c.seen /\ c.row \in Present /\ ~ban.active
              THEN [job EXCEPT !["ADD"] = TRUE] ELSE job
    /\ UNCHANGED <<request, remote, ban, drift, work, cron, foreign, spent>>

\* /server-ban and /server-unban, as far as the whitelist is concerned.
ServerBan == /\ Start("ban")
             /\ MarkRemove
             /\ ban' = [active |-> TRUE, job |-> TRUE]
             /\ foreign' = FALSE
             /\ UNCHANGED <<remote, job, drift, cmd, work, cron>>

ServerUnban == /\ ban.active /\ LockFree /\ Start("unban")
               /\ ban' = [ban EXCEPT !.active = FALSE]
               /\ UNCHANGED <<entry, request, remote, job, drift, cmd, work, cron, foreign>>

\* A name that somebody lists there, and that no row knows, is foreign again.
ExternalEdit == /\ spent.edits < MaxEdits /\ spent' = [spent EXCEPT !.edits = @ + 1]
                /\ remote' = ~remote
                /\ foreign' = (~remote /\ entry = "NONE" /\ At("idle") /\ ~ban.active)
                /\ UNCHANGED <<entry, request, job, ban, drift, cmd, work, cron>>

-----------------------------------------------------------------------------
(* The worker *)

Goto(pc) == work' = [work EXCEPT !.pc = pc]

Take(op) == /\ LockFree /\ job[op]
            /\ work' = [pc |-> "decide", op |-> op]
            /\ UNCHANGED <<entry, request, remote, job, ban, drift, cmd, cron, foreign, spent>>

\* decideWhitelistRemoteIntent: the row of this moment decides, not the job.
\* (A leave cleanup may authorise a REMOVE without a row: LeaveCleanup.)
Decision(op) ==
    IF op = "ADD" THEN IF entry \in Present THEN "execute" ELSE "compensate"
    ELSE CASE entry \in Present         -> "compensate"
           [] entry = "PENDING_REMOVE"  -> "execute"
           [] entry = "NONE"            -> "ignore"

Decide ==
    /\ At("decide") \/ At("recheck")
    /\ LET d == Decision(work.op) IN
       Goto(IF d = "compensate" THEN d ELSE IF d = "execute" /\ At("decide") THEN "write" ELSE "done")
    /\ UNCHANGED <<entry, request, remote, job, ban, drift, cmd, cron, foreign, spent>>

WriteRemote ==
    /\ At("write") /\ Goto("recheck")
    /\ remote' = (work.op = "ADD")
    /\ UNCHANGED <<entry, request, job, ban, drift, cmd, cron, foreign, spent>>

\* reconcileWhitelistRemoteIntent: the opposite job, in a later transaction.
Compensate ==
    /\ At("compensate") /\ Goto("done")
    /\ IF work.op = "ADD" THEN EnqueueRemove ELSE EnqueueAdd
    /\ UNCHANGED <<remote, ban, drift, cmd, cron, foreign, spent>>

Done == /\ At("done") /\ work' = NoWork
        /\ job' = [job EXCEPT ![work.op] = FALSE]
        /\ UNCHANGED <<entry, request, remote, ban, drift, cmd, cron, foreign, spent>>

\* SERVER_BAN_ADD: withdraw the PENDING adds (one claimed by a busy poll is not
\* seen), set the ban, take the player off the whitelist.
BanTake == /\ LockFree /\ ban.job
           /\ work' = [NoWork EXCEPT !.pc = IF ban.active THEN "withdraw" ELSE "idle"]
           /\ ban' = [ban EXCEPT !.job = ban.active]
           /\ UNCHANGED <<entry, request, remote, job, drift, cmd, cron, foreign, spent>>

BanWithdraw == /\ At("withdraw") /\ Goto("unlist")
               /\ \E claimed \in BOOLEAN : job' = [job EXCEPT !["ADD"] = @ /\ claimed]
               /\ UNCHANGED <<entry, request, remote, ban, drift, cmd, cron, foreign, spent>>

BanUnlist == /\ At("unlist") /\ work' = NoWork
             /\ remote' = FALSE
             /\ ban' = [ban EXCEPT !.job = FALSE]
             /\ UNCHANGED <<entry, request, job, drift, cmd, cron, foreign, spent>>

\* A call throws, or the process dies: the write may have happened; a
\* whitelist job is retried or DEAD, a ban job comes back (see ServerBan).
WorkFails ==
    /\ ~At("idle") /\ spent.faults < MaxFaults
    /\ spent' = [spent EXCEPT !.faults = @ + 1]
    /\ work' = NoWork
    /\ remote' \in {remote} \union (CASE At("write")  -> {work.op = "ADD"}
                                      [] At("unlist") -> {FALSE}
                                      [] OTHER        -> {})
    /\ \/ UNCHANGED job
       \/ ~At("withdraw") /\ ~At("unlist") /\ job' = [job EXCEPT ![work.op] = FALSE]
    /\ UNCHANGED <<entry, request, ban, drift, cmd, cron, foreign>>

-----------------------------------------------------------------------------
(* reconcileLockedConnection of the whitelist sync *)

\* Mutant of CronList: the connection lock is not taken.
CronListUnlocked == /\ cron.pc = "idle"
                    /\ cron' = [pc |-> "local", seen |-> remote, row |-> "NONE"]
                    /\ UNCHANGED <<entry, request, remote, job, ban, drift, cmd, work, foreign, spent>>

CronList == /\ LockFree
            /\ cron' = [pc |-> "local", seen |-> remote, row |-> "NONE"]
            /\ UNCHANGED <<entry, request, remote, job, ban, drift, cmd, work, foreign, spent>>

\* Mutant of CronLocal: the sync goes to a state of its own for a missing row.
CronLocalNext ==
    /\ cron.pc = "local"
    /\ cron' = [cron EXCEPT !.row = entry, !.pc = IF cron.seen THEN "row" ELSE entry]
    /\ UNCHANGED <<entry, request, remote, job, ban, drift, cmd, work, foreign, spent>>

\* A row whose name is missing calls for a second look at Nitrado.
CronLocal ==
    /\ cron.pc = "local"
    /\ cron' = [cron EXCEPT !.row = entry,
                            !.pc = IF entry = "NONE" THEN "idle" ELSE IF cron.seen THEN "row" ELSE "confirm"]
    /\ UNCHANGED <<entry, request, remote, job, ban, drift, cmd, work, foreign, spent>>

CronConfirm ==
    /\ cron.pc = "confirm"
    /\ cron' = [cron EXCEPT !.seen = remote, !.pc = "row"]
    /\ UNCHANGED <<entry, request, remote, job, ban, drift, cmd, work, foreign, spent>>

\* A confirmed removal deletes the row if it still waits for it; a confirmed
\* presence marks it SYNCED, by its id alone.
CronRow ==
    /\ cron.pc = "row"
    /\ cron' = [cron EXCEPT !.pc = "jobs"]
    /\ entry' = IF cron.row = "PENDING_REMOVE"
                THEN IF ~cron.seen /\ entry = "PENDING_REMOVE" THEN "NONE" ELSE entry
                ELSE IF cron.seen /\ entry # "NONE" THEN "SYNCED" ELSE entry
    /\ drift' = IF cron.seen /\ cron.row \in Present THEN "NONE" ELSE drift
    /\ UNCHANGED <<request, remote, job, ban, cmd, work, foreign, spent>>

\* sendNotice, for a confirmed name that is missing: once, where there is a channel.
Reports == cron.row = "SYNCED" /\ ~cron.seen /\ Catalog /\ drift = "NONE"

\* Mutant of CronJobs: nothing is queued again.
CronJobsNone ==
    /\ cron.pc = "jobs" /\ cron' = NoSync
    /\ drift' = IF Reports THEN "POSTED" ELSE drift
    /\ UNCHANGED <<entry, request, remote, job, ban, cmd, work, foreign, spent>>

\* The jobs that the rows read at the start call for, and the drift notice.
CronJobs ==
    /\ cron.pc = "jobs" /\ cron' = NoSync
    /\ IF cron.row = "LOCAL_ONLY" /\ ~cron.seen /\ ~ban.active THEN EnqueueAdd
       ELSE IF cron.row = "PENDING_REMOVE" /\ cron.seen /\ ~job["REMOVE"] THEN EnqueueRemove
       ELSE UNCHANGED <<entry, request, job>>
    /\ drift' = IF Reports THEN "POSTED" ELSE drift
    /\ UNCHANGED <<remote, ban, cmd, work, foreign, spent>>

\* A call throws, or the channel is out of reach, and no notice stays; or the process
\* dies, and a notice made and not yet posted stays without a message.
CronFails == /\ cron.pc # "idle" /\ spent.faults < MaxFaults
             /\ spent' = [spent EXCEPT !.faults = @ + 1]
             /\ cron' = NoSync
             /\ drift' \in {drift} \union (IF cron.pc = "jobs" /\ Reports THEN {"SILENT"} ELSE {})
             /\ UNCHANGED <<entry, request, remote, job, ban, cmd, work, foreign>>

\* The ban reconciliation: an active ban and a present row contradict.
BanRepair == /\ LockFree /\ ban.active /\ entry \in Present
             /\ MarkRemove
             /\ UNCHANGED <<remote, job, ban, drift, cmd, work, cron, foreign, spent>>

-----------------------------------------------------------------------------
Work == Decide \/ WriteRemote \/ Compensate \/ Done \/ BanWithdraw \/ BanUnlist
Cron == CronLocal \/ CronConfirm \/ CronRow \/ CronJobs

Command == \/ AddBegin \/ AddCommit \/ ApproveCommit \/ Deny \/ Remove
           \/ RequestBegin \/ RequestCheck \/ RequestReplace \/ RequestClaim
           \/ DriftBegin \/ DriftReappeared \/ AcceptCommit \/ RestoreCommit
           \/ SyncBegin \/ SyncCommit \/ ServerBan \/ ServerUnban

Next == \/ Command \/ ExternalEdit \/ Work \/ Cron \/ CronList
        \/ \E op \in Ops : Take(op)
        \/ BanTake \/ BanRepair \/ WorkFails \/ CronFails

Spec == Init /\ [][Next]_vars

(***************************************************************************)
(* The worker polls every 10 s, the sync and the ban reconciliation every  *)
(* few minutes, and the lock is held for seconds: each gets it again and   *)
(* again.  Nothing forces a user to press anything.                        *)
(***************************************************************************)
Fairness == /\ WF_vars(Work) /\ WF_vars(Cron)
            /\ SF_vars(CronList) /\ SF_vars(BanTake) /\ SF_vars(BanRepair)
            /\ \A op \in Ops : SF_vars(Take(op))

FairSpec == Spec /\ Fairness

-----------------------------------------------------------------------------
(* Properties *)

\* whitelistIntent.ts: a name that Nitrado has without a row is never taken off
\* by the bot: not by a REMOVE job of an earlier row, not by a sync, not by
\* /wl-remove; only a ban, or a command that gave the name a row, ends that.
NoForeignRemoval ==
    [][foreign /\ spent'.edits = spent.edits => remote' = remote]_vars

\* whitelistSyncCron.ts: the row of a removal goes only after the name did. The
\* lists the sync compares are old by then; only the lock keeps them true.
RowGoesAfterName ==
    [][cron.pc = "row" /\ cron'.pc = "jobs" /\ entry # "NONE" /\ entry' = "NONE"
        => ~remote \/ spent.edits > 0]_vars

\* An intent does not stay one for ever: every LOCAL_ONLY or PENDING_REMOVE row
\* is confirmed or goes, through lost jobs, dead jobs and contrary commands. A
\* removal may also end as SYNCED, overwritten: RemoveIntentKept is about that.
IntentSettles == entry \in {"LOCAL_ONLY", "PENDING_REMOVE"} ~> entry \in {"NONE", "SYNCED"}

\* SYNCED claims that Nitrado has the name. Where that stops being true, the row
\* changes, or the moderators are told, if there is a channel for it; or else the
\* process died between the notice and its message, which is then never posted
\* (driftDiscord.ts:58).
SyncedIsTrue ==
    Catalog => (entry = "SYNCED" /\ ~remote ~> entry # "SYNCED" \/ remote \/ drift # "NONE")

\* whitelistBanGuard.ts: a player who stays banned ends up off the whitelist,
\* also when an approval passed its ban check just before the ban.
BannedLeaves == <>[]ban.active => <>[]~remote

-----------------------------------------------------------------------------
(* What comments of the code promise and the code does not keep: the README *)
(* tells for each how it fails.                                             *)

\* whitelistSyncCron.ts:135 "PENDING_REMOVE ist eine lokale Absicht und darf
\* niemals wieder zu LOCAL_ONLY/SYNCED umgeschrieben werden": by the sync.
RemoveIntentKept ==
    [][cron.pc = "row" /\ entry = "PENDING_REMOVE" => entry' \in {"PENDING_REMOVE", "NONE"}]_vars

\* jobWorker.ts:280 "Ein Retry darf niemals seine historische Operation ueber
\* den aktuellen lokalen Whitelist-Sollzustand stellen": nor its counter-intent.
AddIntentKept ==
    [][At("compensate") /\ entry \in Present => entry' \in Present]_vars

\* whitelistSyncCron.ts:210 "Nur ein expliziter lokaler PENDING_REMOVE-
\* Sollzustand darf vom Cron einen Remove-Job erzeugen".
CronRemovesOnIntent ==
    [][cron.pc = "jobs" /\ cron'.pc = "idle" /\ ~job["REMOVE"] /\ job'["REMOVE"]
        => entry = "PENDING_REMOVE"]_vars

\* whitelistIntent.ts: the counter-intent of a superseded job is guaranteed, so
\* a name that the bot has added and no row wants is taken off again.
NoOrphanOnList == <>[](remote => entry # "NONE")
=============================================================================
