------------------------------ MODULE RadarBans ------------------------------
(***************************************************************************)
(* Bans that the radar sets by itself, on one Nitrado connection with one  *)
(* zone: from the log line of an offence to the ban list, and their fence  *)
(* to the game server they belong to (src/modules/radar, the trigger of    *)
(* the migration radar_precision_policy, rebindOutboxLifecycle.ts, and the *)
(* bans of jobWorker.ts, banReconciliation.ts and serverBan.ts again, with *)
(* the names, fences and services that ServerBan leaves out).              *)
(*                                                                         *)
(* A row stands for the HMAC of one identifier, its key: a player's GUID   *)
(* or name.  A radar ban has the row of the GUID but lists the name.       *)
(* Expiry, drift decisions, edits at Nitrado, the cooldown after a DEAD    *)
(* job and the whitelist are in ServerBan and Whitelist.  Left out: the    *)
(* deletion of a zone, the second look before a ban counts as missing, a   *)
(* map that changes within a tick of the radar; fence and row of a ban are *)
(* read in one step.                                                       *)
(***************************************************************************)
EXTENDS Naturals

CONSTANTS
    Players, Services, None,
    First,         \* the service at the beginning
    Offences,      \* offences that the game log tells of
    MaxAttempts,   \* MAX_ATTEMPTS of autoBanRuntime.ts
    MaxSaves,      \* bound: changes of the zone or of the active map
    MaxMoves,      \* bound: changes of the connection's service
    MaxCommands,   \* bound: /server-ban and /server-unban
    MaxFaults      \* bound: failed calls, crashes

ASSUME RadarBounds == /\ MaxAttempts \in Nat \ {0}
                      /\ MaxSaves \in Nat /\ MaxMoves \in Nat
                      /\ MaxCommands \in Nat /\ MaxFaults \in Nat

\* ServerBanEntry rows, and the identifiers on a ban list.
Rows == Players \X {"guid", "name"}

ASSUME NoneIsNothing == First \in Services /\ None \notin Services /\ None \notin Players /\ None \notin Rows

VARIABLES
    zone,     \* the RadarZone [version, mode, live, allow]
    binding,  \* the connection's service and the version of its binding
    event,    \* event[e]: the offence [status, player, named, version, bound, home, attempts]
    auto,     \* the auto-ban runtime
    ban,      \* ban[r]: the row [active, applied, byName]
    ident,    \* ident[r]: the identifier of its ServerBanRemoteIdentity
    fence,    \* fence[r]: its RadarAutoBanBanFence [service, bound, valid]
    add,      \* add[r]: the identifier in its PENDING or RUNNING SERVER_BAN_ADD job
    rem,      \* rem[r]: has it a PENDING or RUNNING SERVER_BAN_REMOVE job?
    remote,   \* remote[s]: the ban list of service s
    drift,    \* drift[r]: the moderators were told that it is missing there
    work,     \* the worker's execution on this connection
    recon,    \* the reconciliation's run
    cmd,      \* a /server-unban between its reads and its commit
    ordered,  \* players whom a moderator has banned
    spent     \* [saves, moves, commands, faults] so far

bans == <<ban, ident, fence, add, rem, drift>>
runs == <<auto, work, recon, cmd>>
vars == <<zone, binding, event, bans, remote, runs, ordered, spent>>

Settled  == {"IGNORED", "DISABLED", "SKIPPED", "APPLIED", "FAILED"}
Open     == {"PENDING", "PROCESSING", "RETRY"}
Statuses == {"NONE", "STORED", "SEEN"} \union Open \union Settled

NoOffence == [status |-> "NONE", player |-> None, named |-> FALSE, version |-> 0,
              bound |-> 0, home |-> None, attempts |-> 0]
NoFence   == [service |-> None, bound |-> 0, valid |-> FALSE]
Idle      == [pc |-> "idle", event |-> None]
NotWorking     == [pc |-> "idle", op |-> "ADD", row |-> None, target |-> None, found |-> FALSE]
NotReconciling == [pc |-> "idle", todo |-> {}, seen |-> {}]
NoCommand      == [pc |-> "idle", row |-> None, service |-> None, bound |-> 0, found |-> FALSE]

BanRow   == [active: BOOLEAN, applied: BOOLEAN, byName: BOOLEAN]
Snapshot == [row: Rows, active: BOOLEAN, applied: BOOLEAN, byName: BOOLEAN, ident: Rows \union {None}]

TypeOK ==
    /\ zone \in [version: Nat, mode: {"off", "armed", "disarmed"}, live: BOOLEAN, allow: SUBSET Players]
    /\ binding \in [service: Services \union {None}, version: Nat]
    /\ event \in [Offences -> [status: Statuses, player: Players \union {None}, named: BOOLEAN, version: Nat,
                               bound: Nat, home: Services \union {None}, attempts: 0..MaxAttempts]]
    /\ \A e \in Offences : event[e].status = "RETRY" => event[e].attempts < MaxAttempts
    /\ auto \in [pc: {"idle", "claimed", "read", "answered"}, event: Offences \union {None}]
    /\ ban \in [Rows -> BanRow]
    /\ ident \in [Rows -> Rows \union {None}]
    /\ fence \in [Rows -> [service: Services \union {None}, bound: Nat, valid: BOOLEAN]]
    /\ add \in [Rows -> Rows \union {None}] /\ rem \in [Rows -> BOOLEAN]
    /\ remote \in [Services -> SUBSET Rows]
    /\ drift \in [Rows -> BOOLEAN]
    /\ work \in [pc: {"idle", "read", "call", "mark", "recheck"}, op: {"ADD", "REMOVE"},
                 row: Rows \union {None}, target: Rows \union {None}, found: BOOLEAN]
    /\ recon \in [pc: {"idle", "list", "rows"}, todo: SUBSET Snapshot, seen: SUBSET Rows]
    /\ cmd \in [pc: {"idle", "list", "commit"}, row: Rows \union {None},
                service: Services \union {None}, bound: Nat, found: BOOLEAN]
    /\ ordered \in SUBSET Players
    /\ spent \in [saves: Nat, moves: Nat, commands: Nat, faults: Nat]

\* A bound connection with an armed zone, and no ban yet.
Init ==
    /\ zone = [version |-> 1, mode |-> "armed", live |-> TRUE, allow |-> {}]
    /\ binding = [service |-> First, version |-> 0]
    /\ event = [e \in Offences |-> NoOffence]
    /\ ban = [r \in Rows |-> [active |-> FALSE, applied |-> FALSE, byName |-> FALSE]]
    /\ ident = [r \in Rows |-> None] /\ fence = [r \in Rows |-> NoFence]
    /\ add = [r \in Rows |-> None] /\ rem = [r \in Rows |-> FALSE]
    /\ remote = [s \in Services |-> {}] /\ drift = [r \in Rows |-> FALSE]
    /\ auto = Idle /\ work = NotWorking /\ recon = NotReconciling /\ cmd = NoCommand
    /\ ordered = {}
    /\ spent = [saves |-> 0, moves |-> 0, commands |-> 0, faults |-> 0]

Spend(what, bound) == spent[what] < bound /\ spent' = [spent EXCEPT ![what] = @ + 1]
Fault == Spend("faults", MaxFaults)

-----------------------------------------------------------------------------
(* The zone *)

\* PUT /zones/:zoneId: every save is a new generation, armed if and only if a
\* BAN function is on.
SaveZone ==
    /\ Spend("saves", MaxSaves)
    /\ zone' \in [version: {zone.version + 1}, mode: {"off", "armed"}, live: BOOLEAN, allow: SUBSET Players]
    /\ UNCHANGED <<binding, event, bans, remote, runs, ordered>>

\* PUT /config: so is another active map.
SwitchMap ==
    /\ Spend("saves", MaxSaves)
    /\ zone' = [zone EXCEPT !.version = @ + 1, !.live = ~@]
    /\ UNCHANGED <<binding, event, bans, remote, runs, ordered>>

-----------------------------------------------------------------------------
(* Offences *)

Become(e, status) == event' = [event EXCEPT ![e].status = status]

\* The log of the bound game server tells of an offence.
Offend(e, p) ==
    /\ event[e].status = "NONE" /\ binding.service # None
    /\ \E named \in BOOLEAN :
         event' = [event EXCEPT ![e] = [status |-> "STORED", player |-> p, named |-> named,
                                        version |-> zone.version, bound |-> binding.version,
                                        home |-> binding.service, attempts |-> 0]]
    /\ UNCHANGED <<zone, binding, bans, remote, runs, ordered, spent>>

\* evaluateEvent reads the zones that punish it.
Detect(e) ==
    LET hit == /\ zone.live /\ zone.mode # "off"
               /\ event[e].version = zone.version /\ event[e].player \notin zone.allow IN
    /\ event[e].status = "STORED"
    /\ Become(e, IF hit THEN "SEEN" ELSE "IGNORED")
    /\ UNCHANGED <<zone, binding, bans, remote, runs, ordered, spent>>

\* The trigger looks at the zone again when the RadarZoneEvent is inserted.
Insert(e) ==
    /\ event[e].status = "SEEN"
    /\ Become(e, CASE zone.mode = "disarmed"             -> "DISABLED"
                   [] zone.mode = "off"                  -> "DISABLED"
                   [] event[e].version # zone.version    -> "SKIPPED"
                   [] OTHER                              -> "PENDING")
    /\ UNCHANGED <<zone, binding, bans, remote, runs, ordered, spent>>

-----------------------------------------------------------------------------
(* The auto-ban runtime *)

\* Mutant of Attempted: one attempt too many.
AttemptedLonger(e) ==
    LET n == event[e].attempts + 1 IN
    event' = IF event[e].status # "PROCESSING" THEN event
             ELSE [event EXCEPT ![e] = [@ EXCEPT !.attempts = n,
                                                 !.status = IF n > MaxAttempts THEN "FAILED" ELSE "RETRY"]]

\* Mutant of Attempted: whatever became of the event meanwhile.
AttemptedBlind(e) ==
    LET n == event[e].attempts + 1 IN
    event' = IF n > MaxAttempts THEN event
             ELSE [event EXCEPT ![e] = [@ EXCEPT !.attempts = n, !.status = IF n = MaxAttempts THEN "FAILED" ELSE "RETRY"]]

\* One attempt more of an event that is still PROCESSING.
Attempted(e) ==
    LET n == event[e].attempts + 1 IN
    event' = IF event[e].status # "PROCESSING" THEN event
             ELSE [event EXCEPT ![e] = [@ EXCEPT !.attempts = n,
                                                 !.status = IF n >= MaxAttempts THEN "FAILED" ELSE "RETRY"]]

Claim(e) ==
    /\ auto.pc = "idle" /\ event[e].status \in {"PENDING", "RETRY"}
    /\ Become(e, "PROCESSING")
    /\ auto' = [pc |-> "claimed", event |-> e]
    /\ UNCHANGED <<zone, binding, bans, remote, work, recon, cmd, ordered, spent>>

\* The transaction reads the event before it waits for the lock of the scope.
ReadEvent ==
    /\ auto.pc = "claimed"
    /\ auto' = IF event[auto.event].status = "PROCESSING" THEN [auto EXCEPT !.pc = "read"] ELSE Idle
    /\ UNCHANGED <<zone, binding, event, bans, remote, work, recon, cmd, ordered, spent>>

\* validateInsideTransaction
Justified(e) ==
    /\ zone.mode = "armed" /\ zone.live
    /\ event[e].version = zone.version /\ event[e].player \notin zone.allow
    /\ binding.service # None /\ event[e].bound = binding.version

\* Only a PROCESSING event is settled.
Settle(e, status) == Become(e, IF event[e].status = "PROCESSING" THEN status ELSE event[e].status)

\* enqueueServerBanAdd: the identity is stored before the job is deduplicated.
EnqueueAdd(r, i) == /\ ident' = [ident EXCEPT ![r] = i]
                    /\ add' = [add EXCEPT ![r] = IF @ = None THEN i ELSE @]

NameOf(p) == <<p, "name">>

\* Mutant of Decide: no fence.
DecideUnfenced ==
    LET e == auto.event
        r == <<event[e].player, "guid">> IN
    /\ auto.pc = "read"
    /\ auto' = [auto EXCEPT !.pc = "answered"]
    /\ \/ /\ ~Justified(e)
          /\ Settle(e, "SKIPPED")
          /\ UNCHANGED <<ban, fence, ident, add>>
       \/ /\ Justified(e) /\ ban[r].active
          /\ Settle(e, "APPLIED")
          /\ UNCHANGED <<ban, fence, ident, add>>
       \/ /\ Justified(e) /\ ~ban[r].active
          /\ Settle(e, "APPLIED")
          /\ ban' = [ban EXCEPT ![r] = [active |-> TRUE, applied |-> FALSE, byName |-> event[e].named]]
          /\ EnqueueAdd(r, IF event[e].named THEN NameOf(r[1]) ELSE r)
          /\ UNCHANGED fence
    /\ UNCHANGED <<zone, binding, rem, drift, remote, work, recon, cmd, ordered, spent>>

\* The rest of the transaction, under the lock: it is judged again, and the
\* ban, its fence and its job are written with it.
Decide ==
    LET e == auto.event
        r == <<event[e].player, "guid">> IN
    /\ auto.pc = "read"
    /\ auto' = [auto EXCEPT !.pc = "answered"]
    /\ \/ /\ ~Justified(e)
          /\ Settle(e, "SKIPPED")
          /\ UNCHANGED <<ban, fence, ident, add>>
       \/ /\ Justified(e) /\ ban[r].active
          /\ Settle(e, "APPLIED")
          /\ UNCHANGED <<ban, fence, ident, add>>
       \/ /\ Justified(e) /\ ~ban[r].active
          /\ Settle(e, "APPLIED")
          /\ ban' = [ban EXCEPT ![r] = [active |-> TRUE, applied |-> FALSE, byName |-> event[e].named]]
          /\ fence' = [fence EXCEPT ![r] = [service |-> binding.service, bound |-> binding.version, valid |-> TRUE]]
          /\ EnqueueAdd(r, IF event[e].named THEN NameOf(r[1]) ELSE r)
    /\ UNCHANGED <<zone, binding, rem, drift, remote, work, recon, cmd, ordered, spent>>

AutoDone ==
    /\ auto.pc = "answered" /\ auto' = Idle
    /\ UNCHANGED <<zone, binding, event, bans, remote, work, recon, cmd, ordered, spent>>

\* The transaction fails, or its answer is lost after the commit.
AutoFails ==
    /\ auto.pc # "idle" /\ Fault
    /\ Attempted(auto.event)
    /\ auto' = Idle
    /\ UNCHANGED <<zone, binding, bans, remote, work, recon, cmd, ordered>>

\* A lease outlives only a dead process.
Orphaned(e) == event[e].status = "PROCESSING" /\ auto.event # e

Recover(e) ==
    /\ Orphaned(e) /\ Attempted(e)
    /\ UNCHANGED <<zone, binding, bans, remote, runs, ordered, spent>>

-----------------------------------------------------------------------------
(* The worker: SERVER_BAN_ADD and SERVER_BAN_REMOVE *)

\* Nobody holds the connection's advisory lock.
LockFree == work.pc = "idle" /\ recon.pc = "idle"

\* inspectRadarAutoBanFenceForRemoteAdd
Rejected(r) ==
    /\ fence[r] # NoFence
    /\ fence[r] # [service |-> binding.service, bound |-> binding.version, valid |-> TRUE]

\* What a row has on the list: a stored name is trusted, anything else must
\* have the row's HMAC.
Listed(r, byName, i) == IF byName /\ i # None THEN i ELSE r

Take(r, op) ==
    /\ LockFree
    /\ IF op = "ADD" THEN add[r] # None ELSE rem[r]
    /\ work' = [NotWorking EXCEPT !.pc = "read", !.op = op, !.row = r]
    /\ UNCHANGED <<zone, binding, event, bans, remote, auto, recon, cmd, ordered, spent>>

JobEnds == IF work.op = "ADD" THEN add' = [add EXCEPT ![work.row] = None] /\ UNCHANGED rem
           ELSE rem' = [rem EXCEPT ![work.row] = FALSE] /\ UNCHANGED add

\* There is nothing to do, or nothing may be done, or the payload is wrong.
ReadBan ==
    LET r == work.row
        needed == /\ binding.service # None
                  /\ IF work.op = "ADD"
                     THEN /\ ~Rejected(r) /\ ban[r].active /\ ~ban[r].applied
                          /\ ban[r].byName \/ add[r] = r
                     ELSE ~ban[r].active /\ ban[r].applied
        target == IF work.op = "ADD" THEN add[r] ELSE Listed(r, ban[r].byName, ident[r]) IN
    /\ work.pc = "read"
    /\ IF needed THEN work' = [work EXCEPT !.pc = "call", !.target = target] /\ UNCHANGED <<add, rem>>
       ELSE work' = NotWorking /\ JobEnds
    /\ UNCHANGED <<zone, binding, event, ban, ident, fence, drift, remote, auto, recon, cmd, ordered, spent>>

Changed == [remote EXCEPT ![binding.service] = IF work.op = "ADD" THEN @ \union {work.target}
                                               ELSE @ \ {work.target}]

Call ==
    /\ work.pc = "call"
    /\ work' = [work EXCEPT !.pc = "mark", !.found = work.target \in remote[binding.service]]
    /\ remote' = Changed
    /\ UNCHANGED <<zone, binding, event, bans, auto, recon, cmd, ordered, spent>>

MarkApplied ==
    /\ work.pc = "mark"
    /\ work' = [work EXCEPT !.pc = "recheck"]
    /\ ban' = [ban EXCEPT ![work.row].applied = (work.op = "ADD")]
    /\ UNCHANGED <<zone, binding, event, ident, fence, add, rem, drift, remote, auto, recon, cmd, ordered, spent>>

\* The row is read again: it may call for the other job. Then the job is DONE.
Recheck ==
    LET r == work.row IN
    /\ work.pc = "recheck"
    /\ work' = NotWorking
    /\ IF work.op = "ADD"
       THEN /\ add' = [add EXCEPT ![r] = None]
            /\ rem' = [rem EXCEPT ![r] = @ \/ ~ban[r].active]
            /\ UNCHANGED ident
       ELSE /\ rem' = [rem EXCEPT ![r] = FALSE]
            /\ IF ban[r].active /\ work.found THEN EnqueueAdd(r, work.target) ELSE UNCHANGED <<ident, add>>
    /\ UNCHANGED <<zone, binding, event, ban, fence, drift, remote, auto, recon, cmd, ordered, spent>>

\* A call throws; it may have taken effect. The job waits again or is DEAD.
WorkFails ==
    /\ work.pc # "idle" /\ Fault
    /\ work' = NotWorking
    /\ remote' \in {remote} \union (IF work.pc = "call" THEN {Changed} ELSE {})
    /\ JobEnds \/ UNCHANGED <<add, rem>>
    /\ UNCHANGED <<zone, binding, event, ban, ident, fence, drift, auto, recon, cmd, ordered>>

-----------------------------------------------------------------------------
(* reconcileLockedConnection *)

ReconRead ==
    /\ LockFree /\ binding.service # None
    /\ LET local == {r \in Rows : ban[r].active \/ ban[r].applied} IN
       /\ local # {}
       /\ recon' = [pc |-> "list", seen |-> {},
                    todo |-> {[row |-> r, active |-> ban[r].active, applied |-> ban[r].applied,
                               byName |-> ban[r].byName, ident |-> ident[r]] : r \in local}]
    /\ UNCHANGED <<zone, binding, event, bans, remote, auto, work, cmd, ordered, spent>>

ReconList ==
    /\ recon.pc = "list"
    /\ recon' = [recon EXCEPT !.pc = "rows", !.seen = remote[binding.service]]
    /\ UNCHANGED <<zone, binding, event, bans, remote, auto, work, cmd, ordered, spent>>

\* Neither an ADD nor a REMOVE nor a flag for a ban of another binding.
ReconForeign(x) == Rejected(x.row) /\ UNCHANGED <<ban, ident, add, rem, drift>>

Seen(x) == Listed(x.row, x.byName, x.ident) \in recon.seen

\* An active ban that is listed is confirmed, and its identifier kept.
ReconFound(x) ==
    LET r == x.row IN
    /\ ~Rejected(r) /\ x.active /\ Seen(x)
    /\ drift' = [drift EXCEPT ![r] = FALSE]
    /\ ban' = [ban EXCEPT ![r].applied = @ \/ (~x.applied /\ ban[r].active)]
    /\ ident' = [ident EXCEPT ![r] = IF x.ident = None THEN Listed(r, x.byName, x.ident) ELSE @]
    /\ UNCHANGED <<add, rem>>

\* A missing one is reported if it was confirmed, and added if it was not and
\* its identity is there and fits.
ReconMissing(x) ==
    LET r == x.row
        fits == x.byName \/ x.ident = r IN
    /\ ~Rejected(r) /\ x.active /\ ~Seen(x)
    /\ drift' = [drift EXCEPT ![r] = @ \/ x.applied]
    /\ IF x.applied \/ x.ident = None THEN UNCHANGED <<ident, add>>
       ELSE IF fits THEN EnqueueAdd(r, x.ident)
       ELSE ident' = [ident EXCEPT ![r] = None] /\ UNCHANGED add
    /\ UNCHANGED <<ban, rem>>

\* A lifted one is taken off, or forgotten when it is off.
ReconLifted(x) ==
    LET r == x.row IN
    /\ ~Rejected(r) /\ ~x.active
    /\ ban' = IF x.applied # Seen(x) THEN [ban EXCEPT ![r].applied = Seen(x)] ELSE ban
    /\ rem' = [rem EXCEPT ![r] = @ \/ Seen(x)]
    /\ ident' = [ident EXCEPT ![r] = IF Seen(x) \/ x.ident = None THEN @ ELSE None]
    /\ UNCHANGED <<add, drift>>

ReconRow ==
    /\ recon.pc = "rows"
    /\ \E x \in recon.todo :
         /\ ReconForeign(x) \/ ReconFound(x) \/ ReconMissing(x) \/ ReconLifted(x)
         /\ recon' = IF recon.todo = {x} THEN NotReconciling ELSE [recon EXCEPT !.todo = @ \ {x}]
    /\ UNCHANGED <<zone, binding, event, fence, remote, auto, work, cmd, ordered, spent>>

ReconFails ==
    /\ recon.pc # "idle" /\ Fault
    /\ recon' = NotReconciling
    /\ UNCHANGED <<zone, binding, event, bans, remote, auto, work, cmd, ordered>>

-----------------------------------------------------------------------------
(* Moderators *)

\* /server-ban, one transaction: a manual ban has no fence.
ServerBan(r) ==
    /\ Spend("commands", MaxCommands)
    /\ ban' = [ban EXCEPT ![r] = [active |-> TRUE, applied |-> FALSE, byName |-> FALSE]]
    /\ fence' = [fence EXCEPT ![r] = NoFence]
    /\ EnqueueAdd(r, r)
    /\ ordered' = ordered \union {r[1]}
    /\ UNCHANGED <<zone, binding, event, rem, drift, remote, runs>>

\* /server-unban reads the binding under the lock, ...
UnbanBegin(r) ==
    /\ cmd.pc = "idle" /\ LockFree /\ binding.service # None
    /\ Spend("commands", MaxCommands)
    /\ cmd' = [pc |-> "list", row |-> r, service |-> binding.service, bound |-> binding.version, found |-> FALSE]
    /\ UNCHANGED <<zone, binding, event, bans, remote, auto, work, recon, ordered>>

\* ... looks for the identifier's own HMAC on the list, ...
UnbanList ==
    /\ cmd.pc = "list"
    /\ cmd' = [cmd EXCEPT !.pc = "commit", !.found = cmd.row \in remote[cmd.service]]
    /\ UNCHANGED <<zone, binding, event, bans, remote, auto, work, recon, ordered, spent>>

\* ... and writes the row if the binding is the same and the lock free.
UnbanCommit ==
    LET r == cmd.row IN
    /\ cmd.pc = "commit" /\ LockFree
    /\ binding = [service |-> cmd.service, version |-> cmd.bound]
    /\ ban' = [ban EXCEPT ![r] = [@ EXCEPT !.active = FALSE, !.applied = cmd.found]]
    /\ fence' = [fence EXCEPT ![r] = NoFence]
    /\ rem' = [rem EXCEPT ![r] = @ \/ cmd.found]
    /\ cmd' = NoCommand
    /\ UNCHANGED <<zone, binding, event, ident, add, drift, remote, auto, work, recon, ordered, spent>>

UnbanRefused ==
    /\ cmd.pc = "commit"
    /\ ~LockFree \/ binding # [service |-> cmd.service, version |-> cmd.bound]
    /\ cmd' = NoCommand
    /\ UNCHANGED <<zone, binding, event, bans, remote, auto, work, recon, ordered, spent>>

-----------------------------------------------------------------------------
(* Another service *)

\* updateServiceId, updateToken: under the lock, with no job RUNNING, in one
\* transaction; radar bans of the old service end, manual ones stay.
Rebind(s) ==
    LET fenced == {r \in Rows : fence[r] # NoFence} IN
    /\ LockFree /\ s # binding.service /\ Spend("moves", MaxMoves)
    /\ binding' = [service |-> s, version |-> binding.version + 1]
    /\ zone' = IF zone.mode = "armed" THEN [zone EXCEPT !.mode = "disarmed", !.version = @ + 1] ELSE zone
    /\ event' = [e \in Offences |-> IF event[e].status \in Open THEN [event[e] EXCEPT !.status = "SKIPPED"] ELSE event[e]]
    /\ fence' = [r \in Rows |-> IF r \in fenced THEN [fence[r] EXCEPT !.valid = FALSE] ELSE fence[r]]
    /\ ban' = [r \in Rows |-> [ban[r] EXCEPT !.active = @ /\ r \notin fenced, !.applied = FALSE]]
    /\ ident' = [r \in Rows |-> IF r \in fenced THEN None ELSE ident[r]]
    /\ add' = [r \in Rows |-> IF r \in fenced THEN None ELSE add[r]]
    /\ rem' = [r \in Rows |-> FALSE]
    /\ UNCHANGED <<drift, remote, runs, ordered>>

\* The bot process dies; what it was evaluating is evaluated again.
Crash ==
    /\ Fault
    /\ auto' = Idle /\ work' = NotWorking /\ recon' = NotReconciling /\ cmd' = NoCommand
    /\ event' = [e \in Offences |-> IF event[e].status = "SEEN" THEN [event[e] EXCEPT !.status = "STORED"] ELSE event[e]]
    /\ UNCHANGED <<zone, binding, bans, remote, ordered>>

-----------------------------------------------------------------------------
AutoBan == (\E e \in Offences : Claim(e)) \/ ReadEvent \/ Decide \/ AutoDone
Work == ReadBan \/ Call \/ MarkApplied \/ Recheck
Reconcile == ReconList \/ ReconRow

Next ==
    \/ SaveZone \/ SwitchMap
    \/ \E e \in Offences : (\E p \in Players : Offend(e, p)) \/ Detect(e) \/ Insert(e) \/ Recover(e)
    \/ AutoBan \/ AutoFails
    \/ \E r \in Rows : (\E op \in {"ADD", "REMOVE"} : Take(r, op)) \/ ServerBan(r) \/ UnbanBegin(r)
    \/ Work \/ WorkFails \/ ReconRead \/ Reconcile \/ ReconFails
    \/ UnbanList \/ UnbanCommit \/ UnbanRefused
    \/ (\E s \in Services \union {None} : Rebind(s)) \/ Crash

Spec == Init /\ [][Next]_vars

\* The timers go on; strong fairness for those who try for the connection lock
\* again and again, as in ServerBan.
Fairness ==
    /\ \A e \in Offences : WF_vars(Detect(e)) /\ WF_vars(Insert(e)) /\ WF_vars(Recover(e))
    /\ WF_vars(AutoBan) /\ WF_vars(Work) /\ WF_vars(Reconcile) /\ SF_vars(ReconRead)
    /\ \A r \in Rows : \A op \in {"ADD", "REMOVE"} : SF_vars(Take(r, op))

FairSpec == Spec /\ Fairness

-----------------------------------------------------------------------------
(* Properties *)

\* rebindOutboxLifecycle.ts, banFence.ts: a radar ban stays on the game server
\* of its offence. Whoever is on a service's list was banned by a moderator or
\* for an offence there.
BanStaysHome ==
    \A s \in Services : \A i \in remote[s] :
        \/ i[1] \in ordered
        \/ \E e \in Offences : event[e].status = "APPLIED" /\ event[e].player = i[1] /\ event[e].home = s

\* autoBanRuntime.ts: a decision is final. No retry, recovery, lost answer or
\* rebind makes anything else of an event that was settled.
SettledForGood ==
    [][\A e \in Offences : event[e].status \in Settled => event'[e].status = event[e].status]_vars

\* autoBanRuntime.ts: every offence is settled, after any failure.
OffenceSettles ==
    \A e \in Offences : event[e].status # "NONE" ~> event[e].status \in Settled

\* banReconciliation.ts: a radar ban that stays active, on a service that stays,
\* brings the player onto its list, by GUID or by name, or is reported missing.
ActiveIsListed ==
    \A r \in Rows : \A s \in Services :
        <>[](ban[r].active /\ fence[r] # NoFence /\ binding.service = s)
            => <>[]((\E i \in remote[s] : i[1] = r[1]) \/ drift[r])

\* serverBan.ts:375, banRegistry.ts:132: what the code says and does not keep:
\* a player on the list without any ban is on it visibly, as remote drift.
UnbanVisible ==
    \A s \in Services : s = binding.service =>
        \A i \in remote[s] : \E r \in Rows :
            r[1] = i[1] /\ (ban[r].active \/ ban[r].applied \/ work.row = r)
=============================================================================
