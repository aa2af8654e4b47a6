------------------------------ MODULE ServerBan ------------------------------
(***************************************************************************)
(* Server bans of one Nitrado connection: the ban registry, the outbox     *)
(* jobs that carry it to the remote ban list, the reconciliation of the    *)
(* two, the expiry of temporary bans with its Discord notice, and the      *)
(* moderators' commands (src/modules/bans, the SERVER_BAN operations of    *)
(* jobWorker.ts, serverBan.ts, driftDiscord.ts).                           *)
(*                                                                         *)
(* The worker's executions, the reconciliation and the commit of an unban  *)
(* hold the connection lock; a ban, an expiry and a drift decision do not. *)
(* NitradoJobs shows that the lock serialises and that an unfinished job   *)
(* comes back: here a job is its number of failed attempts, and a job      *)
(* whose execution died is simply waiting again.                           *)
(***************************************************************************)
EXTENDS Naturals, FiniteSets

CONSTANTS
    Bans,          \* ServerBanEntry rows of the connection
    MaxAttempts,   \* maxAttempts of a job
    MaxBans,       \* bound: /server-ban commands for one player
    Temporary,     \* may a ban have an end?
    Unbans,        \* may moderators use /server-unban?
    Catalog,       \* has the server a catalogue channel, where drift is reported?
    MaxEdits,      \* bound: edits of the ban list in Nitrado's web interface
    MaxFaults      \* bound: failed calls, lost claims, crashes

VARIABLES
    ban,        \* ban[b]: the row [active, expiry, applied]
    stored,     \* stored[b]: is there a ServerBanRemoteIdentity?
    remote,     \* remote[b]: is the identifier on Nitrado's ban list?
    whitelist,  \* whitelist[b]: is it on Nitrado's whitelist?
    job,        \* job[b][op]: attempts of the PENDING or RUNNING job, NoJob if none
    cooldown,   \* cooldown[op]: a job of op went DEAD less than an hour ago
    drift,      \* drift[b]: the NitradoDriftNotice, SILENT without a message
    notice,     \* notice[b]: status of the ServerBanExpiryNotice
    work,       \* the worker's execution on this connection
    recon,      \* the reconciliation's run
    expire,     \* the expiry runtime's run
    cmd,        \* a moderator's command between its reads and its commit
    spent       \* [bans (of each player), edits, faults] so far

rows == <<ban, stored, remote, whitelist, job, cooldown, drift, notice>>
vars == <<rows, work, recon, expire, cmd, spent>>

Ops     == {"ADD", "REMOVE"}
NoJob   == MaxAttempts
NoBan   == "none"

BanRow   == [active: BOOLEAN, expiry: {"never", "future", "past"}, applied: BOOLEAN]
Snapshot == [ban: Bans, active: BOOLEAN, applied: BOOLEAN, stored: BOOLEAN]
Drifts   == {"NONE", "SILENT", "POSTED"}
Notices  == {"NONE", "PENDING", "READY", "SENDING", "SENT", "CANCELLED", "FAILED"}

NotWorking    == [pc |-> "idle", ban |-> NoBan, op |-> "ADD", found |-> FALSE, claimed |-> TRUE]
NotReconciling == [pc |-> "idle", todo |-> {}, seen |-> {}]
NotExpiring   == [pc |-> "idle", todo |-> {}, ban |-> NoBan]
NoCommand     == [pc |-> "idle", ban |-> NoBan, kind |-> "unban", found |-> FALSE]

TypeOK ==
    /\ ban \in [Bans -> BanRow]
    /\ stored \in [Bans -> BOOLEAN] /\ remote \in [Bans -> BOOLEAN]
    /\ whitelist \in [Bans -> BOOLEAN] /\ drift \in [Bans -> Drifts]
    /\ job \in [Bans -> [Ops -> 0..MaxAttempts]]
    /\ cooldown \in [Ops -> BOOLEAN]
    /\ notice \in [Bans -> Notices]
    /\ work \in [pc: {"idle", "read", "list", "add", "unwhitelist", "remove", "mark",
                      "recheck", "done", "failing"},
                 ban: Bans \union {NoBan}, op: Ops, found: BOOLEAN, claimed: BOOLEAN]
    /\ recon \in [pc: {"idle", "list", "confirm", "rows"}, todo: SUBSET Snapshot, seen: SUBSET Bans]
    /\ expire \in [pc: {"idle", "rows", "notices", "check", "send", "sent"},
                   todo: SUBSET (Bans \X BOOLEAN), ban: Bans \union {NoBan}]
    /\ cmd \in [pc: {"idle", "list", "check", "commit"}, ban: Bans \union {NoBan},
                kind: {"unban", "accept", "restore"}, found: BOOLEAN]
    /\ spent \in [bans: [Bans -> 0..MaxBans], edits: 0..MaxEdits, faults: 0..MaxFaults]

\* No ban yet; any player may be on the whitelist.
Init == /\ ban = [b \in Bans |-> [active |-> FALSE, expiry |-> "never", applied |-> FALSE]]
        /\ stored = [b \in Bans |-> FALSE]
        /\ remote = [b \in Bans |-> FALSE]
        /\ whitelist \in [Bans -> BOOLEAN]
        /\ job = [b \in Bans |-> [op \in Ops |-> NoJob]]
        /\ cooldown = [op \in Ops |-> FALSE]
        /\ drift = [b \in Bans |-> "NONE"]
        /\ notice = [b \in Bans |-> "NONE"]
        /\ work = NotWorking
        /\ recon = NotReconciling
        /\ expire = NotExpiring
        /\ cmd = NoCommand
        /\ spent = [bans |-> [b \in Bans |-> 0], edits |-> 0, faults |-> 0]

-----------------------------------------------------------------------------
(* The registry and the outbox *)

IsBanActive(b) == ban[b].active /\ ban[b].expiry # "past"

\* Mutant of Enqueue: a duplicate request counts as a failed attempt.
EnqueueCounting(b, op, automatic) ==
    job' = IF job[b][op] = NoJob /\ ~(automatic /\ cooldown[op])
           THEN [job EXCEPT ![b][op] = 0] ELSE [job EXCEPT ![b][op] = @ + 1]

\* ensureJob: no second PENDING or RUNNING job of one operation and ban; an
\* automatic caller also respects the connection's recent DEAD jobs.
Enqueue(b, op, automatic) ==
    job' = IF job[b][op] = NoJob /\ ~(automatic /\ cooldown[op])
           THEN [job EXCEPT ![b][op] = 0] ELSE job

\* enqueueServerBanAdd stores the encrypted identifier before it deduplicates.
EnqueueAdd(b, automatic) == /\ stored' = [stored EXCEPT ![b] = TRUE]
                            /\ Enqueue(b, "ADD", automatic)

EnqueueRemove(b, automatic) == Enqueue(b, "REMOVE", automatic) /\ UNCHANGED stored

\* Nobody holds the connection's advisory lock.
LockFree == work.pc = "idle" /\ recon.pc = "idle"

CancelNotice(b) == notice' = [notice EXCEPT ![b] = IF @ \in {"PENDING", "READY", "SENDING", "FAILED"}
                                                   THEN "CANCELLED" ELSE @]

Spend(what, bound) == spent[what] < bound /\ spent' = [spent EXCEPT ![what] = @ + 1]
Fault == Spend("faults", MaxFaults)

-----------------------------------------------------------------------------
(* Moderators *)

\* /server-ban, one transaction: addBan, the expiry notice, the ADD job.
ServerBan(b) ==
    /\ spent.bans[b] < MaxBans
    /\ spent' = [spent EXCEPT !.bans[b] = @ + 1]
    /\ \E expiry \in {"never"} \union (IF Temporary THEN {"future"} ELSE {}) :
         /\ ban' = [ban EXCEPT ![b] = [active |-> TRUE, expiry |-> expiry, applied |-> FALSE]]
         /\ notice' = [notice EXCEPT ![b] = IF expiry = "future" THEN "PENDING" ELSE "NONE"]
    /\ EnqueueAdd(b, FALSE)
    /\ UNCHANGED <<remote, whitelist, cooldown, drift, work, recon, expire, cmd>>

\* /server-unban: the binding is read under the lock ...
UnbanBegin(b) ==
    /\ Unbans /\ cmd.pc = "idle" /\ LockFree
    /\ cmd' = [pc |-> "list", ban |-> b, kind |-> "unban", found |-> FALSE]
    /\ UNCHANGED <<rows, work, recon, expire, spent>>

\* A button of a drift notice's message is pressed.
DriftBegin(b) ==
    /\ cmd.pc = "idle" /\ drift[b] = "POSTED"
    /\ \E kind \in {"accept", "restore"} :
         cmd' = [pc |-> "list", ban |-> b, kind |-> kind, found |-> FALSE]
    /\ UNCHANGED <<rows, work, recon, expire, spent>>

\* ... the ban list without it ...
CommandList ==
    /\ cmd.pc = "list"
    /\ cmd' = [cmd EXCEPT !.found = remote[cmd.ban],
                          !.pc = IF cmd.kind = "unban" THEN "commit" ELSE "check"]
    /\ UNCHANGED <<rows, work, recon, expire, spent>>

\* ... and the row is written under it again, if the lock is free.
UnbanCommit ==
    LET b == cmd.ban IN
    /\ cmd.pc = "commit" /\ cmd.kind = "unban" /\ LockFree
    /\ ban' = [ban EXCEPT ![b] = [@ EXCEPT !.active = FALSE, !.applied = cmd.found]]
    /\ CancelNotice(b)
    /\ IF cmd.found THEN EnqueueRemove(b, FALSE) ELSE UNCHANGED <<job, stored>>
    /\ cmd' = NoCommand
    /\ UNCHANGED <<remote, whitelist, cooldown, drift, work, recon, expire, spent>>

UnbanBusy ==
    /\ cmd.pc = "commit" /\ cmd.kind = "unban" /\ ~LockFree
    /\ cmd' = NoCommand
    /\ UNCHANGED <<rows, work, recon, expire, spent>>

\* The drift is gone, or the ban changed, or the decision stands. A restore
\* also needs the stored identifier.
DriftCheck ==
    LET b == cmd.ban IN
    /\ cmd.pc = "check"
    /\ LET open == ban[b].active /\ ban[b].applied
           stands == open /\ ~cmd.found /\ (cmd.kind = "restore" => stored[b]) IN
       /\ drift' = IF open /\ cmd.found THEN [drift EXCEPT ![b] = "NONE"] ELSE drift
       /\ cmd' = IF stands THEN [cmd EXCEPT !.pc = "commit"] ELSE NoCommand
    /\ UNCHANGED <<ban, stored, remote, whitelist, job, cooldown, notice, work, recon, expire, spent>>

DriftCommit ==
    LET b == cmd.ban
        open == ban[b].active /\ ban[b].applied IN
    /\ cmd.pc = "commit" /\ cmd.kind # "unban"
    /\ \/ /\ cmd.kind = "accept"
          /\ ban' = IF open THEN [ban EXCEPT ![b] = [@ EXCEPT !.active = FALSE, !.applied = FALSE]]
                    ELSE ban
          /\ CancelNotice(b)
          /\ stored' = [stored EXCEPT ![b] = FALSE]
          /\ UNCHANGED job
       \/ /\ cmd.kind = "restore"
          /\ ban' = IF open THEN [ban EXCEPT ![b].applied = FALSE] ELSE ban
          /\ EnqueueAdd(b, FALSE)
          /\ UNCHANGED notice
    /\ drift' = [drift EXCEPT ![b] = "NONE"]
    /\ cmd' = NoCommand
    /\ UNCHANGED <<remote, whitelist, cooldown, work, recon, expire, spent>>

\* Somebody edits the ban list at Nitrado.
ExternalEdit(b) ==
    /\ Spend("edits", MaxEdits)
    /\ remote' = [remote EXCEPT ![b] = ~@]
    /\ UNCHANGED <<ban, stored, whitelist, job, cooldown, drift, notice, work, recon, expire, cmd>>

-----------------------------------------------------------------------------
(* The worker: SERVER_BAN_ADD and SERVER_BAN_REMOVE *)

At(pc) == work.pc = pc
Goto(pc) == work' = [work EXCEPT !.pc = pc]

\* A job is claimed and gets the connection lock.
Take(b, op) ==
    /\ LockFree /\ job[b][op] # NoJob
    /\ work' = [NotWorking EXCEPT !.pc = "read", !.ban = b, !.op = op]
    /\ UNCHANGED <<rows, recon, expire, cmd, spent>>

\* An ADD has nothing to do for a lifted, expired or confirmed ban, a REMOVE
\* for an active or an unconfirmed one.
ReadBan ==
    LET b == work.ban
        needed == IF work.op = "ADD" THEN IsBanActive(b) /\ ~ban[b].applied
                  ELSE ~IsBanActive(b) /\ ban[b].applied IN
    /\ At("read")
    /\ Goto(IF needed THEN "list" ELSE "done")
    /\ UNCHANGED <<rows, recon, expire, cmd, spent>>

\* Mutant of GetBanlist: the whitelist goes first.
GetBanlistLast ==
    /\ At("list")
    /\ work' = [work EXCEPT !.found = remote[work.ban],
                            !.pc = IF work.op = "ADD" THEN "unwhitelist" ELSE "remove"]
    /\ UNCHANGED <<rows, recon, expire, cmd, spent>>

GetBanlist ==
    /\ At("list")
    /\ LET found == remote[work.ban] IN
       work' = [work EXCEPT !.found = found,
                            !.pc = IF work.op = "ADD" THEN IF found THEN "unwhitelist" ELSE "add"
                                   ELSE IF found THEN "remove" ELSE "mark"]
    /\ UNCHANGED <<rows, recon, expire, cmd, spent>>

\* Each mutation follows an ensureClaimOwned: without the claim it is not made.
Mutation(pc, next) == At(pc) /\ work.claimed /\ Goto(next)

AddToBanlist ==
    /\ Mutation("add", "unwhitelist")
    /\ remote' = [remote EXCEPT ![work.ban] = TRUE]
    /\ UNCHANGED <<ban, stored, whitelist, job, cooldown, drift, notice, recon, expire, cmd, spent>>

RemoveFromWhitelist ==
    /\ Mutation("unwhitelist", "mark")
    /\ whitelist' = [whitelist EXCEPT ![work.ban] = FALSE]
    /\ UNCHANGED <<ban, stored, remote, job, cooldown, drift, notice, recon, expire, cmd, spent>>

RemoveFromBanlist ==
    /\ Mutation("remove", "mark")
    /\ remote' = [remote EXCEPT ![work.ban] = FALSE]
    /\ UNCHANGED <<ban, stored, whitelist, job, cooldown, drift, notice, recon, expire, cmd, spent>>

\* appliedRemotely becomes what the execution has achieved.
MarkApplied ==
    /\ At("mark") /\ Goto("recheck")
    /\ ban' = [ban EXCEPT ![work.ban].applied = (work.op = "ADD")]
    /\ UNCHANGED <<stored, remote, whitelist, job, cooldown, drift, notice, recon, expire, cmd, spent>>

\* The ban is read again: lifted during an ADD, or set again during a REMOVE
\* (whose own list entry then names the identifier), it needs the other job.
Recheck ==
    LET b == work.ban IN
    /\ At("recheck") /\ Goto("done")
    /\ IF work.op = "ADD"
       THEN IF IsBanActive(b) THEN UNCHANGED <<job, stored>> ELSE EnqueueRemove(b, TRUE)
       ELSE IF IsBanActive(b) /\ work.found THEN EnqueueAdd(b, FALSE) ELSE UNCHANGED <<job, stored>>
    /\ UNCHANGED <<ban, remote, whitelist, cooldown, drift, notice, recon, expire, cmd, spent>>

Done ==
    /\ At("done")
    /\ job' = IF work.claimed THEN [job EXCEPT ![work.ban][work.op] = NoJob] ELSE job
    /\ work' = NotWorking
    /\ UNCHANGED <<ban, stored, remote, whitelist, cooldown, drift, notice, recon, expire, cmd, spent>>

\* A call of the execution throws. A mutation may have been applied.
WorkFails ==
    /\ work.pc \notin {"idle", "failing"} /\ Fault
    /\ Goto("failing")
    /\ remote' \in {remote} \union
                   (CASE At("add") /\ work.claimed    -> {[remote EXCEPT ![work.ban] = TRUE]}
                      [] At("remove") /\ work.claimed -> {[remote EXCEPT ![work.ban] = FALSE]}
                      [] OTHER                        -> {})
    /\ whitelist' \in {whitelist} \union
                      (IF At("unwhitelist") /\ work.claimed
                       THEN {[whitelist EXCEPT ![work.ban] = FALSE]} ELSE {})
    /\ UNCHANGED <<ban, stored, job, cooldown, drift, notice, recon, expire, cmd>>

\* failJob: one attempt more, DEAD at the last one or for a permanent error.
FailJob ==
    LET n == job[work.ban][work.op] + 1 IN
    /\ At("failing")
    /\ IF work.claimed
       THEN \E permanent \in BOOLEAN :
              LET dead == permanent \/ n >= MaxAttempts IN
              /\ job' = [job EXCEPT ![work.ban][work.op] = IF dead THEN NoJob ELSE n]
              /\ cooldown' = [cooldown EXCEPT ![work.op] = @ \/ dead]
       ELSE UNCHANGED <<job, cooldown>>
    /\ work' = NotWorking
    /\ UNCHANGED <<ban, stored, remote, whitelist, drift, notice, recon, expire, cmd, spent>>

\* The claim is taken away: the job is up for another execution.
LoseClaim ==
    /\ work.pc # "idle" /\ work.claimed /\ Fault
    /\ work' = [work EXCEPT !.claimed = FALSE]
    /\ UNCHANGED <<rows, recon, expire, cmd>>

\* ensureClaimOwned throws NitradoJobClaimLostError: no transition, only the lock.
Abandon ==
    /\ work.pc \in {"add", "unwhitelist", "remove"} /\ ~work.claimed
    /\ work' = NotWorking
    /\ UNCHANGED <<rows, recon, expire, cmd, spent>>

CooldownEnds(op) ==
    /\ cooldown[op] /\ cooldown' = [cooldown EXCEPT ![op] = FALSE]
    /\ UNCHANGED <<ban, stored, remote, whitelist, job, drift, notice, work, recon, expire, cmd, spent>>

-----------------------------------------------------------------------------
(* reconcileLockedConnection *)

\* The rows worth comparing are read once, under the lock.
ReconRead ==
    /\ LockFree
    /\ LET local == {b \in Bans : ban[b].active \/ ban[b].applied} IN
       /\ local # {}
       /\ recon' = [pc |-> "list", seen |-> {},
                    todo |-> {[ban |-> b, active |-> IsBanActive(b), applied |-> ban[b].applied,
                               stored |-> stored[b]] : b \in local}]
    /\ UNCHANGED <<rows, work, expire, cmd, spent>>

\* A confirmed ban that is missing calls for a second look at the list.
ReconList ==
    /\ recon.pc = "list"
    /\ LET seen == {b \in Bans : remote[b]} IN
       recon' = [recon EXCEPT !.seen = seen,
                              !.pc = IF \E r \in recon.todo : r.applied /\ r.ban \notin seen
                                     THEN "confirm" ELSE "rows"]
    /\ UNCHANGED <<rows, work, expire, cmd, spent>>

ReconConfirm ==
    /\ recon.pc = "confirm"
    /\ recon' = [recon EXCEPT !.seen = @ \union {b \in Bans : remote[b]}, !.pc = "rows"]
    /\ UNCHANGED <<rows, work, expire, cmd, spent>>

\* A confirmed ban that both looks missed is reported, once, where there is a channel.
Reports(r) == /\ r.active /\ r.applied /\ r.ban \notin recon.seen
              /\ Catalog /\ drift[r.ban] = "NONE"

\* Mutant of ReconActive: a missing ban is reported, never added.
ReconActiveReportOnly(r) ==
    LET b == r.ban
        seen == b \in recon.seen IN
    /\ r.active
    /\ drift' = [drift EXCEPT ![b] = IF seen THEN "NONE" ELSE IF Reports(r) THEN "POSTED" ELSE @]
    /\ ban' = IF seen /\ ~r.applied /\ ban[b].active THEN [ban EXCEPT ![b].applied = TRUE] ELSE ban
    /\ UNCHANGED <<stored, job>>

\* An active ban: confirm it, report its disappearance, or have it added.
ReconActive(r) ==
    LET b == r.ban
        seen == b \in recon.seen IN
    /\ r.active
    /\ drift' = [drift EXCEPT ![b] = IF seen THEN "NONE" ELSE IF Reports(r) THEN "POSTED" ELSE @]
    /\ ban' = IF seen /\ ~r.applied /\ ban[b].active THEN [ban EXCEPT ![b].applied = TRUE] ELSE ban
    /\ IF ~seen /\ ~r.applied /\ r.stored THEN EnqueueAdd(b, TRUE)
       ELSE /\ stored' = [stored EXCEPT ![b] = @ \/ (seen /\ ~r.stored)]
            /\ UNCHANGED job

\* A lifted or expired one: have it removed, or clean up after its removal.
ReconInactive(r) ==
    LET b == r.ban
        seen == b \in recon.seen IN
    /\ ~r.active
    /\ ban' = IF seen # r.applied THEN [ban EXCEPT ![b].applied = seen] ELSE ban
    /\ IF seen THEN EnqueueRemove(b, TRUE)
       ELSE /\ stored' = [stored EXCEPT ![b] = @ /\ ~r.stored]
            /\ UNCHANGED job
    /\ UNCHANGED drift

ReconRow ==
    /\ recon.pc = "rows"
    /\ \E r \in recon.todo :
         /\ ReconActive(r) \/ ReconInactive(r)
         /\ recon' = IF recon.todo = {r} THEN NotReconciling ELSE [recon EXCEPT !.todo = @ \ {r}]
    /\ UNCHANGED <<remote, whitelist, cooldown, notice, work, expire, cmd, spent>>

\* The channel is out of reach: the notice is deleted, and the run goes on.
ReportFails ==
    /\ recon.pc = "rows" /\ Fault
    /\ \E r \in recon.todo :
         /\ Reports(r)
         /\ recon' = IF recon.todo = {r} THEN NotReconciling ELSE [recon EXCEPT !.todo = @ \ {r}]
    /\ UNCHANGED <<rows, work, expire, cmd>>

\* A remote or database call of the run throws, or the post of a notice, which is
\* deleted then.
ReconFails ==
    /\ recon.pc # "idle" /\ Fault
    /\ recon' = NotReconciling
    /\ UNCHANGED <<rows, work, expire, cmd>>

-----------------------------------------------------------------------------
(* runBanExpiryRuntimeOnce *)

\* A temporary ban ends.
TimePasses(b) ==
    /\ ban[b].expiry = "future"
    /\ ban' = [ban EXCEPT ![b].expiry = "past"]
    /\ UNCHANGED <<stored, remote, whitelist, job, cooldown, drift, notice, work, recon, expire, cmd, spent>>

ExpiryRead ==
    /\ expire.pc = "idle"
    /\ LET expired == {b \in Bans : ban[b].active /\ ban[b].expiry = "past"} IN
       /\ expired # {} \/ \E b \in Bans : notice[b] \in {"READY", "SENDING"}
       /\ expire' = [pc |-> "rows", todo |-> {<<b, ban[b].applied>> : b \in expired}, ban |-> NoBan]
    /\ UNCHANGED <<rows, work, recon, cmd, spent>>

\* A confirmed ban gets a REMOVE job; any other is lifted and its notice readied.
ExpiryRow ==
    /\ expire.pc = "rows"
    /\ \E r \in expire.todo :
         LET b == r[1] 
             lifts == ~r[2] /\ ban[b].active /\ ~ban[b].applied /\ ban[b].expiry = "past" IN
         /\ IF r[2] THEN EnqueueRemove(b, TRUE) ELSE UNCHANGED <<job, stored>>
         /\ ban' = IF lifts THEN [ban EXCEPT ![b].active = FALSE] ELSE ban
         /\ notice' = IF lifts /\ notice[b] = "PENDING" THEN [notice EXCEPT ![b] = "READY"] ELSE notice
         /\ expire' = [expire EXCEPT !.todo = @ \ {r}]
    /\ UNCHANGED <<remote, whitelist, cooldown, drift, work, recon, cmd, spent>>

\* Notices whose lease ran out with a crash are READY again.
NoticeRecover ==
    /\ expire.pc = "rows" /\ expire.todo = {}
    /\ notice' = [b \in Bans |-> IF notice[b] = "SENDING" THEN "READY" ELSE notice[b]]
    /\ expire' = [expire EXCEPT !.pc = "notices"]
    /\ UNCHANGED <<ban, stored, remote, whitelist, job, cooldown, drift, work, recon, cmd, spent>>

NoticeClaim ==
    /\ expire.pc = "notices"
    /\ \/ \E b \in Bans : /\ notice[b] = "READY"
                          /\ notice' = [notice EXCEPT ![b] = "SENDING"]
                          /\ expire' = [expire EXCEPT !.pc = "check", !.ban = b]
       \/ /\ \A b \in Bans : notice[b] # "READY"
          /\ expire' = NotExpiring
          /\ UNCHANGED notice
    /\ UNCHANGED <<ban, stored, remote, whitelist, job, cooldown, drift, work, recon, cmd, spent>>

\* The last look before the message: the ban must be lifted and unconfirmed.
NoticeCheck ==
    LET b == expire.ban
        over == ~ban[b].active /\ ~ban[b].applied /\ ban[b].expiry = "past" IN
    /\ expire.pc = "check"
    /\ IF over /\ notice[b] = "SENDING"
       THEN expire' = [expire EXCEPT !.pc = "send"] /\ UNCHANGED notice
       ELSE /\ notice' = IF notice[b] = "SENDING" THEN [notice EXCEPT ![b] = "CANCELLED"] ELSE notice
            /\ expire' = [expire EXCEPT !.pc = "notices", !.ban = NoBan]
    /\ UNCHANGED <<ban, stored, remote, whitelist, job, cooldown, drift, work, recon, cmd, spent>>

NoticeSend ==
    /\ expire.pc = "send"
    /\ expire' = [expire EXCEPT !.pc = "sent"]
    /\ UNCHANGED <<rows, work, recon, cmd, spent>>

NoticeSent ==
    LET b == expire.ban IN
    /\ expire.pc = "sent"
    /\ notice' = IF notice[b] = "SENDING" THEN [notice EXCEPT ![b] = "SENT"] ELSE notice
    /\ expire' = [expire EXCEPT !.pc = "notices", !.ban = NoBan]
    /\ UNCHANGED <<ban, stored, remote, whitelist, job, cooldown, drift, work, recon, cmd, spent>>

\* failNotice: a later attempt, or none.
NoticeFails ==
    LET b == expire.ban IN
    /\ expire.pc \in {"check", "send", "sent"} /\ Fault
    /\ \E s \in {"READY", "FAILED"} :
         notice' = IF notice[b] = "SENDING" THEN [notice EXCEPT ![b] = s] ELSE notice
    /\ expire' = [expire EXCEPT !.pc = "notices", !.ban = NoBan]
    /\ UNCHANGED <<ban, stored, remote, whitelist, job, cooldown, drift, work, recon, cmd>>

\* The bot process dies; its claimed job comes back. A notice made and not yet
\* posted stays without a message.
Crash ==
    /\ Fault
    /\ work' = NotWorking /\ recon' = NotReconciling
    /\ expire' = NotExpiring /\ cmd' = NoCommand
    /\ \/ UNCHANGED drift
       \/ /\ recon.pc = "rows"
          /\ \E r \in recon.todo : Reports(r) /\ drift' = [drift EXCEPT ![r.ban] = "SILENT"]
    /\ UNCHANGED <<ban, stored, remote, whitelist, job, cooldown, notice>>

-----------------------------------------------------------------------------
Work == \/ ReadBan \/ GetBanlist \/ AddToBanlist \/ RemoveFromWhitelist \/ RemoveFromBanlist
        \/ MarkApplied \/ Recheck \/ Done \/ FailJob \/ Abandon

Reconcile == ReconList \/ ReconConfirm \/ ReconRow

Expiry == \/ ExpiryRead \/ ExpiryRow \/ NoticeRecover \/ NoticeClaim
          \/ NoticeCheck \/ NoticeSend \/ NoticeSent

Moderate == \/ \E b \in Bans : ServerBan(b) \/ UnbanBegin(b) \/ DriftBegin(b) \/ ExternalEdit(b)
            \/ CommandList \/ UnbanCommit \/ UnbanBusy \/ DriftCheck \/ DriftCommit

Next == \/ Moderate \/ Work \/ Reconcile \/ ReconRead \/ Expiry
        \/ \E b \in Bans : TimePasses(b) \/ \E op \in Ops : Take(b, op)
        \/ \E op \in Ops : CooldownEnds(op)
        \/ WorkFails \/ LoseClaim \/ ReportFails \/ ReconFails \/ NoticeFails \/ Crash

Spec == Init /\ [][Next]_vars

(***************************************************************************)
(* The worker and the timers go on; time passes.  The lock is tried again  *)
(* and again at unrelated moments (10 s, 60 s, back-offs) and held for     *)
(* seconds, so nobody misses it for ever: strong fairness for its takers.  *)
(***************************************************************************)
Fairness == /\ WF_vars(Work) /\ WF_vars(Reconcile) /\ WF_vars(Expiry)
            /\ SF_vars(ReconRead)
            /\ \A b \in Bans : WF_vars(TimePasses(b)) /\ \A op \in Ops : SF_vars(Take(b, op))
            /\ \A op \in Ops : WF_vars(CooldownEnds(op))

FairSpec == Spec /\ Fairness

-----------------------------------------------------------------------------
(* Properties *)

\* The order of the ADD operation: a player is taken off the whitelist only
\* while on the ban list, so no failure in between lets a banned player in.
BannedBeforeUnlisted ==
    [][\A b \in Bans : whitelist[b] /\ ~whitelist'[b] => remote[b] \/ spent.edits > 0]_vars

\* The moderators were told, if there is a channel for it, or the process died
\* between the notice and its message, which is then never posted (driftDiscord.ts:58).
Reported(b) == Catalog => drift[b] # "NONE"

\* banRegistry.ts: appliedRemotely is a confirmed state, not a wish. Where it
\* claims too much, it is corrected or that is reported.
FlagCorrected ==
    \A b \in Bans : ban[b].applied /\ ~remote[b] ~> ~ban[b].applied \/ remote[b] \/ Reported(b)

\* A ban that stays active, and keeps its stored identifier, ends up confirmed,
\* and on the list unless somebody removed it there and that is reported.
BanEnforced ==
    \A b \in Bans : <>[](IsBanActive(b) /\ stored[b]) => <>[](ban[b].applied /\ (remote[b] \/ Reported(b)))

\* On the list by the bot, and no row says so: neither the reconciliation nor the
\* expiry looks at it (DriftVisible below).
Forgotten(b) == remote[b] /\ ~ban[b].active /\ ~ban[b].applied

\* A ban that stays lifted or expired ends up off the list, unless it was forgotten.
LiftedBanLeaves ==
    \A b \in Bans : <>[]~IsBanActive(b) => <>[]~remote[b] \/ <>[]Forgotten(b)

\* expiryRuntime.ts: retries and leases lose no expiry notice: once the ban is
\* over, the notice is sent, given up or withdrawn.
NoticeSettles ==
    \A b \in Bans : notice[b] \in {"PENDING", "READY", "SENDING"} /\ ban[b].expiry = "past"
        ~> notice[b] \notin {"PENDING", "READY", "SENDING"} \/ ban[b].expiry # "past"

-----------------------------------------------------------------------------
(* What comments of the code promise and the code does not keep: the README *)
(* tells for each how it fails.                                             *)

\* banRegistry.ts: what the bot put on the ban list and does not want there
\* any more is marked as applied, so that no list or reconciliation misses it.
DriftVisible ==
    \A b \in Bans : remote[b] /\ ~ban[b].active =>
        ban[b].applied \/ work.ban = b \/ spent.edits > 0

\* banReconciliation.ts:281 an active ban that is not confirmed is "der normale ausstehende
\* Soll-Zustand", to be added by itself; that needs its stored identifier.
IdentityKept ==
    \A b \in Bans : IsBanActive(b) /\ ~ban[b].applied => stored[b]

\* expiryRuntime.ts: the expiry notice says that the ban is off the list, and
\* is only sent after that was confirmed.
NoticeTruthful ==
    [][expire.pc = "send" /\ expire'.pc = "sent" => ~remote[expire.ban]]_vars
=============================================================================
