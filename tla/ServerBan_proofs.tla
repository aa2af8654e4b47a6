--------------------------- MODULE ServerBan_proofs ---------------------------
(***************************************************************************)
(* Type correctness of the server bans, and the order of the ADD           *)
(* operation: for any bans, attempts and bounds, nobody is taken off the   *)
(* whitelist before being on the ban list.                                 *)
(*                                                                         *)
(* Then what Whitelist and LeaveCleanup promise of a name on that list,    *)
(* of two instances with constants and variables of their own.             *)
(***************************************************************************)
EXTENDS ServerBan, TLAPS

\* What the proofs need of the constants.
Bounded == /\ MaxAttempts \in Nat /\ MaxBans \in Nat
           /\ MaxEdits \in Nat /\ MaxFaults \in Nat

\* The conjuncts of TypeOK, by who changes them.
Rows == /\ ban \in [Bans -> BanRow]
        /\ stored \in [Bans -> BOOLEAN] /\ remote \in [Bans -> BOOLEAN]
        /\ whitelist \in [Bans -> BOOLEAN] /\ drift \in [Bans -> Drifts]
Jobs == job \in [Bans -> [Ops -> 0..MaxAttempts]] /\ cooldown \in [Ops -> BOOLEAN]
Noted == notice \in [Bans -> Notices]
Worker == work \in [pc: {"idle", "read", "list", "add", "unwhitelist", "remove", "mark",
                         "recheck", "done", "failing"},
                    ban: Bans \union {NoBan}, op: Ops, found: BOOLEAN, claimed: BOOLEAN]
Reconciler == recon \in [pc: {"idle", "list", "confirm", "rows"}, todo: SUBSET Snapshot, seen: SUBSET Bans]
Expirer == expire \in [pc: {"idle", "rows", "notices", "check", "send", "sent"},
                       todo: SUBSET (Bans \X BOOLEAN), ban: Bans \union {NoBan}]
Command == cmd \in [pc: {"idle", "list", "check", "commit"}, ban: Bans \union {NoBan},
                    kind: {"unban", "accept", "restore"}, found: BOOLEAN]
Counted == spent \in [bans: [Bans -> 0..MaxBans], edits: 0..MaxEdits, faults: 0..MaxFaults]

\* A command that is under way, and an execution, have a ban.
Targets == (cmd.pc # "idle" => cmd.ban \in Bans) /\ (work.pc # "idle" => work.ban \in Bans)

\* Who is about to be taken off the whitelist is on the ban list, or somebody edited it.
Unlisting == work.pc = "unwhitelist" => remote[work.ban] \/ spent.edits > 0

Types == /\ Rows /\ Jobs /\ Noted /\ Worker /\ Reconciler /\ Expirer /\ Command /\ Counted
         /\ Targets

\* TypeOK is the conjunction of its parts.
LEMMA TypesAreTypeOK == Types => TypeOK
  BY DEF Types, Rows, Jobs, Noted, Worker, Reconciler, Expirer, Command, Counted, TypeOK

-----------------------------------------------------------------------------
(* Helpers *)

\* A fresh job has no failed attempt; none is added to another.
LEMMA EnqueueTyped ==
    ASSUME Bounded, Jobs, NEW b \in Bans, NEW op \in Ops, NEW automatic \in BOOLEAN,
           Enqueue(b, op, automatic)
    PROVE  job' \in [Bans -> [Ops -> 0..MaxAttempts]]
  BY DEF Bounded, Jobs, Enqueue

\* An ADD job comes with the stored identifier.
LEMMA EnqueueAddTyped ==
    ASSUME Bounded, Rows, Jobs, NEW b \in Bans, NEW automatic \in BOOLEAN, EnqueueAdd(b, automatic)
    PROVE  stored' \in [Bans -> BOOLEAN] /\ job' \in [Bans -> [Ops -> 0..MaxAttempts]]
<1>1. "ADD" \in Ops BY DEF Ops
<1>2. job' \in [Bans -> [Ops -> 0..MaxAttempts]]
  BY <1>1, EnqueueTyped DEF EnqueueAdd
<1> QED BY <1>2 DEF EnqueueAdd, Rows

\* A REMOVE job leaves it alone.
LEMMA EnqueueRemoveTyped ==
    ASSUME Bounded, Rows, Jobs, NEW b \in Bans, NEW automatic \in BOOLEAN, EnqueueRemove(b, automatic)
    PROVE  stored' \in [Bans -> BOOLEAN] /\ job' \in [Bans -> [Ops -> 0..MaxAttempts]]
<1>1. "REMOVE" \in Ops BY DEF Ops
<1>2. job' \in [Bans -> [Ops -> 0..MaxAttempts]]
  BY <1>1, EnqueueTyped DEF EnqueueRemove
<1> QED BY <1>2 DEF EnqueueRemove, Rows

\* A row stays a row, whatever of it changes.
LEMMA RowTyped ==
    ASSUME Rows, NEW b \in Bans, NEW applied \in BOOLEAN,
           \/ ban' = ban
           \/ ban' = [ban EXCEPT ![b].applied = applied]
           \/ ban' = [ban EXCEPT ![b] = [@ EXCEPT !.active = FALSE, !.applied = applied]]
           \/ ban' = [ban EXCEPT ![b].active = FALSE]
           \/ ban' = [ban EXCEPT ![b].expiry = "past"]
    PROVE  ban' \in [Bans -> BanRow]
<1> DEFINE new(r) == [r EXCEPT !.active = FALSE, !.applied = applied]
<1>1. \A r \in BanRow : new(r) \in BanRow /\ [r EXCEPT !.applied = applied] \in BanRow
                          /\ [r EXCEPT !.active = FALSE] \in BanRow /\ [r EXCEPT !.expiry = "past"] \in BanRow
  BY DEF BanRow
<1>2. ban[b] \in BanRow /\ ban \in [Bans -> BanRow] BY DEF Rows
<1> HIDE DEF new
<1>3. CASE ban' = [ban EXCEPT ![b] = new(@)] BY <1>1, <1>2, <1>3
<1>4. CASE ban' = [ban EXCEPT ![b].applied = applied] BY <1>1, <1>2, <1>4
<1>5. CASE ban' = [ban EXCEPT ![b].active = FALSE] BY <1>1, <1>2, <1>5
<1>6. CASE ban' = [ban EXCEPT ![b].expiry = "past"] BY <1>1, <1>2, <1>6
<1> QED BY <1>2, <1>3, <1>4, <1>5, <1>6 DEF new

\* A withdrawn notice is a notice.
LEMMA CancelTyped ==
    ASSUME Noted, NEW b \in Bans, CancelNotice(b)
    PROVE  Noted'
  BY DEF Noted, CancelNotice, Notices

\* A fault stays within its bound and is no edit.
LEMMA FaultTyped ==
    ASSUME Bounded, Counted, Fault
    PROVE  Counted' /\ spent'.edits = spent.edits
  BY DEF Bounded, Counted, Fault, Spend

\* An edit stays within its bound and is counted.
LEMMA EditTyped ==
    ASSUME Bounded, Counted, Spend("edits", MaxEdits)
    PROVE  Counted' /\ spent'.edits > 0
  BY DEF Bounded, Counted, Spend

\* Nobody at work: the states after a completion or a crash.
LEMMA IdleTyped ==
    /\ work' = NotWorking => Worker' /\ work'.pc = "idle"
    /\ recon' = NotReconciling => Reconciler'
    /\ expire' = NotExpiring => Expirer'
    /\ cmd' = NoCommand => Command' /\ cmd'.pc = "idle"
<1>1. work' = NotWorking => Worker' /\ work'.pc = "idle" BY DEF NotWorking, Worker, Ops
<1>2. recon' = NotReconciling => Reconciler' BY DEF NotReconciling, Reconciler
<1>3. expire' = NotExpiring => Expirer' BY DEF NotExpiring, Expirer
<1>4. cmd' = NoCommand => Command' /\ cmd'.pc = "idle" BY DEF NoCommand, Command
<1> QED BY <1>1, <1>2, <1>3, <1>4

Inv == Types /\ Unlisting

\* No ban, no job, nobody at work.
LEMMA InitInv == Bounded /\ Init => Inv
<1> SUFFICES ASSUME Bounded, Init PROVE Inv
  OBVIOUS
<1>1. Rows BY DEF Init, Rows, BanRow, Drifts
<1>2. Jobs BY DEF Init, Jobs, NoJob, Bounded
<1>3. Noted BY DEF Init, Noted, Notices
<1>4. Counted BY DEF Init, Counted, Bounded
<1>5. Worker /\ Reconciler /\ Expirer /\ Command
  BY DEF Init, Worker, Reconciler, Expirer, Command, NotWorking, NotReconciling, NotExpiring, NoCommand, Ops
<1>6. Targets /\ Unlisting BY DEF Init, Targets, Unlisting, NotWorking, NoCommand
<1> QED BY <1>1, <1>2, <1>3, <1>4, <1>5, <1>6 DEF Inv, Types

-----------------------------------------------------------------------------
(* Moderators *)

\* A new ban is a row, a job and a notice; its identifier is stored.
LEMMA ServerBanKept ==
    ASSUME Bounded, Inv, NEW b \in Bans, ServerBan(b)
    PROVE  Inv' /\ whitelist' = whitelist
<1>1. PICK expiry \in {"never", "future"} :
        /\ ban' = [ban EXCEPT ![b] = [active |-> TRUE, expiry |-> expiry, applied |-> FALSE]]
        /\ notice' = [notice EXCEPT ![b] = IF expiry = "future" THEN "PENDING" ELSE "NONE"]
  BY DEF ServerBan
<1>2. stored' \in [Bans -> BOOLEAN] /\ job' \in [Bans -> [Ops -> 0..MaxAttempts]]
  BY EnqueueAddTyped DEF ServerBan, Inv, Types
<1>3. ban' \in [Bans -> BanRow] BY <1>1 DEF Inv, Types, Rows, BanRow
<1>4. Noted' BY <1>1 DEF Inv, Types, Noted, Notices
<1>5. Counted' /\ spent'.edits = spent.edits
  BY DEF ServerBan, Inv, Types, Counted, Bounded
<1>6. Rows' /\ Jobs' BY <1>2, <1>3 DEF ServerBan, Inv, Types, Rows, Jobs
<1>7. Worker' /\ Reconciler' /\ Expirer' /\ Command' /\ Targets'
  BY DEF ServerBan, Inv, Types, Worker, Reconciler, Expirer, Command, Targets
<1>8. Unlisting' BY <1>5 DEF ServerBan, Inv, Unlisting
<1> QED BY <1>4, <1>5, <1>6, <1>7, <1>8 DEF Inv, Types, ServerBan

\* A step of a command, which leaves rows, worker and counters alone.
LEMMA CommandKept ==
    ASSUME Inv, Command', cmd'.pc # "idle" => cmd'.ban \in Bans,
           UNCHANGED <<rows, work, recon, expire, spent>>
    PROVE  Inv' /\ whitelist' = whitelist
<1>1. Rows' /\ Jobs' /\ Noted' /\ Worker' /\ Reconciler' /\ Expirer' /\ Counted'
  BY DEF Inv, Types, rows, Rows, Jobs, Noted, Worker, Reconciler, Expirer, Counted
<1>2. Targets' /\ Unlisting' BY DEF Inv, Types, rows, Targets, Unlisting
<1> QED BY <1>1, <1>2 DEF Inv, Types, rows

\* A command begins, reads the list, or finds the lock taken.
LEMMA CommandStepKept ==
    ASSUME Bounded, Inv, (\E b \in Bans : UnbanBegin(b) \/ DriftBegin(b)) \/ CommandList \/ UnbanBusy
    PROVE  Inv' /\ whitelist' = whitelist
<1>1. ASSUME NEW b \in Bans, UnbanBegin(b) \/ DriftBegin(b)
      PROVE  Command' /\ cmd'.ban = b /\ UNCHANGED <<rows, work, recon, expire, spent>>
  <2>1. PICK kind \in {"unban", "accept", "restore"} :
          cmd' = [pc |-> "list", ban |-> b, kind |-> kind, found |-> FALSE]
    BY <1>1 DEF UnbanBegin, DriftBegin
  <2>2. Command' /\ cmd'.ban = b BY <2>1 DEF Command
  <2> QED BY <1>1, <2>2 DEF UnbanBegin, DriftBegin
<1>2. CASE CommandList
  <2>1. Command' /\ cmd'.ban = cmd.ban
    BY <1>2 DEF CommandList, Inv, Types, Command, Rows, Targets
  <2> QED BY <1>2, <2>1, CommandKept DEF CommandList, Inv, Types, Targets
<1>3. CASE UnbanBusy BY <1>3, IdleTyped, CommandKept DEF UnbanBusy
<1> QED BY <1>1, <1>2, <1>3, CommandKept

\* The commit of an unban writes the row and may queue its REMOVE job.
LEMMA UnbanCommitKept ==
    ASSUME Bounded, Inv, UnbanCommit
    PROVE  Inv' /\ whitelist' = whitelist
<1>1. cmd.ban \in Bans /\ cmd.found \in BOOLEAN
  BY DEF UnbanCommit, Inv, Types, Targets, Command
<1>2. stored' \in [Bans -> BOOLEAN] /\ job' \in [Bans -> [Ops -> 0..MaxAttempts]]
  <2>1. CASE cmd.found BY <1>1, <2>1, EnqueueRemoveTyped DEF UnbanCommit, Inv, Types
  <2>2. CASE ~cmd.found BY <2>2 DEF UnbanCommit, Inv, Types, Rows, Jobs
  <2> QED BY <2>1, <2>2
<1>3. ban' \in [Bans -> BanRow] BY <1>1 DEF UnbanCommit, Inv, Types, Rows, BanRow
<1>4. Noted' BY <1>1, CancelTyped DEF UnbanCommit, Inv, Types
<1>5. Rows' /\ Jobs' BY <1>2, <1>3 DEF UnbanCommit, Inv, Types, Rows, Jobs
<1>6. Command' /\ cmd'.pc = "idle" BY IdleTyped DEF UnbanCommit
<1>7. Worker' /\ Reconciler' /\ Expirer' /\ Counted' /\ Targets' /\ Unlisting'
  BY <1>6 DEF UnbanCommit, Inv, Types, Worker, Reconciler, Expirer, Counted, Targets, Unlisting
<1> QED BY <1>4, <1>5, <1>6, <1>7 DEF Inv, Types, UnbanCommit

\* The check of a drift decision only drops the notice.
LEMMA DriftCheckKept ==
    ASSUME Bounded, Inv, DriftCheck
    PROVE  Inv' /\ whitelist' = whitelist
<1>1. cmd.ban \in Bans BY DEF DriftCheck, Inv, Types, Targets
<1>2. drift' \in [Bans -> Drifts] BY <1>1 DEF DriftCheck, Inv, Types, Rows, Drifts
<1>3. Command' /\ (cmd'.pc # "idle" => cmd'.ban \in Bans)
  <2>1. CASE cmd' = NoCommand BY <2>1, IdleTyped
  <2>2. CASE cmd' = [cmd EXCEPT !.pc = "commit"]
    BY <1>1, <2>2 DEF Inv, Types, Command
  <2> QED BY <2>1, <2>2 DEF DriftCheck
<1>4. Rows' BY <1>2 DEF DriftCheck, Inv, Types, Rows
<1>5. Jobs' /\ Noted' /\ Worker' /\ Reconciler' /\ Expirer' /\ Counted' /\ Targets' /\ Unlisting'
  BY <1>3 DEF DriftCheck, Inv, Types, Jobs, Noted, Worker, Reconciler, Expirer, Counted, Targets, Unlisting
<1> QED BY <1>3, <1>4, <1>5 DEF Inv, Types, DriftCheck

\* The decision lifts the ban or has it added again.
LEMMA DriftCommitKept ==
    ASSUME Bounded, Inv, DriftCommit
    PROVE  Inv' /\ whitelist' = whitelist
<1>1. cmd.ban \in Bans BY DEF DriftCommit, Inv, Types, Targets
<1>2. /\ stored' \in [Bans -> BOOLEAN] /\ job' \in [Bans -> [Ops -> 0..MaxAttempts]]
      /\ ban' \in [Bans -> BanRow] /\ Noted'
  <2>1. CASE cmd.kind = "accept"
    <3>1. /\ stored' = [stored EXCEPT ![cmd.ban] = FALSE] /\ job' = job /\ CancelNotice(cmd.ban)
          /\ ban' = ban \/ ban' = [ban EXCEPT ![cmd.ban] = [@ EXCEPT !.active = FALSE, !.applied = FALSE]]
      BY <2>1 DEF DriftCommit
    <3>2. ban' \in [Bans -> BanRow] BY <1>1, <3>1, RowTyped DEF Inv, Types
    <3> QED BY <1>1, <3>1, <3>2, CancelTyped DEF Inv, Types, Rows, Jobs
  <2>2. CASE cmd.kind = "restore"
    <3>1. /\ EnqueueAdd(cmd.ban, FALSE) /\ notice' = notice
          /\ ban' = ban \/ ban' = [ban EXCEPT ![cmd.ban].applied = FALSE]
      BY <2>2 DEF DriftCommit
    <3>2. ban' \in [Bans -> BanRow] BY <1>1, <3>1, RowTyped DEF Inv, Types
    <3>3. Noted' BY <3>1 DEF Inv, Types, Noted
    <3> QED BY <1>1, <3>1, <3>2, <3>3, EnqueueAddTyped DEF Inv, Types
  <2> QED BY <2>1, <2>2 DEF DriftCommit
<1>3. drift' \in [Bans -> Drifts] BY <1>1 DEF DriftCommit, Inv, Types, Rows, Drifts
<1>4. Rows' /\ Jobs' BY <1>2, <1>3 DEF DriftCommit, Inv, Types, Rows, Jobs
<1>5. Command' /\ cmd'.pc = "idle" BY IdleTyped DEF DriftCommit
<1>6. Worker' /\ Reconciler' /\ Expirer' /\ Counted' /\ Targets' /\ Unlisting'
  BY <1>5 DEF DriftCommit, Inv, Types, Worker, Reconciler, Expirer, Counted, Targets, Unlisting
<1> QED BY <1>2, <1>4, <1>5, <1>6 DEF Inv, Types, DriftCommit

\* After an edit the order on the list is nobody's promise.
LEMMA ExternalEditKept ==
    ASSUME Bounded, Inv, NEW b \in Bans, ExternalEdit(b)
    PROVE  Inv' /\ whitelist' = whitelist
<1>1. Counted' /\ spent'.edits > 0 BY EditTyped DEF ExternalEdit, Inv, Types
<1>2. Rows' BY DEF ExternalEdit, Inv, Types, Rows
<1>3. Jobs' /\ Noted' /\ Worker' /\ Reconciler' /\ Expirer' /\ Command' /\ Targets'
  BY DEF ExternalEdit, Inv, Types, Jobs, Noted, Worker, Reconciler, Expirer, Command, Targets
<1>4. Unlisting' BY <1>1 DEF Unlisting
<1> QED BY <1>1, <1>2, <1>3, <1>4 DEF Inv, Types, ExternalEdit

\* No command of a moderator touches the whitelist.
LEMMA ModerateKept ==
    ASSUME Bounded, Inv, Moderate
    PROVE  Inv' /\ whitelist' = whitelist
  BY ServerBanKept, CommandStepKept, UnbanCommitKept, DriftCheckKept, DriftCommitKept,
     ExternalEditKept DEF Moderate

-----------------------------------------------------------------------------
(* The worker *)

Steps == {"read", "list", "add", "unwhitelist", "remove", "mark", "recheck", "done", "failing"}

\* An execution keeps its ban, operation and claim from step to step.
LEMMA GotoTyped ==
    ASSUME Inv, NEW pc \in Steps, Goto(pc), work.pc # "idle"
    PROVE  /\ Worker' /\ work'.pc = pc /\ work'.ban = work.ban /\ work'.op = work.op
           /\ work.ban \in Bans /\ work.op \in Ops /\ work.claimed \in BOOLEAN
  BY DEF Inv, Types, Worker, Targets, Goto, Steps

\* A step of the worker that changes no row.
LEMMA WorkKept ==
    ASSUME Inv, Worker', work'.pc # "idle" => work'.ban \in Bans, Unlisting',
           UNCHANGED <<rows, recon, expire, cmd, spent>>
    PROVE  Inv' /\ whitelist' = whitelist
<1>1. Rows' /\ Jobs' /\ Noted' /\ Reconciler' /\ Expirer' /\ Command' /\ Counted' /\ Targets'
  BY DEF Inv, Types, rows, Rows, Jobs, Noted, Reconciler, Expirer, Command, Counted, Targets
<1> QED BY <1>1 DEF Inv, Types, rows

\* A job begins, and what its execution reads; only a name that is on the list lets it
\* skip the ADD and go on to the whitelist.
LEMMA WorkReadKept ==
    ASSUME Inv, (\E b \in Bans, op \in Ops : Take(b, op)) \/ ReadBan \/ GetBanlist \/ Abandon
    PROVE  Inv' /\ whitelist' = whitelist
<1>1. ASSUME NEW b \in Bans, NEW op \in Ops, Take(b, op) PROVE Inv' /\ whitelist' = whitelist
  <2>1. Worker' /\ work'.pc = "read" /\ work'.ban = b
    BY <1>1 DEF Take, NotWorking, Worker
  <2> QED BY <1>1, <2>1, WorkKept DEF Take, Unlisting
<1>2. CASE ReadBan
  <2>1. PICK pc \in {"list", "done"} : Goto(pc)
    BY <1>2 DEF ReadBan
  <2>2. Worker' /\ work'.pc = pc /\ work'.ban \in Bans
    BY <1>2, <2>1, GotoTyped DEF ReadBan, At, Steps
  <2> QED BY <1>2, <2>2, WorkKept DEF ReadBan, Unlisting
<1>3. CASE GetBanlist
  <2> DEFINE found == remote[work.ban]
  <2>1. work.ban \in Bans /\ found \in BOOLEAN
    BY <1>3 DEF GetBanlist, At, Inv, Types, Targets, Rows
  <2>2. PICK pc \in {"unwhitelist", "add", "remove", "mark"} :
          /\ work' = [work EXCEPT !.found = found, !.pc = pc]
          /\ pc = "unwhitelist" => found
    BY <1>3 DEF GetBanlist
  <2>3. Worker' /\ work'.pc = pc /\ work'.ban = work.ban
    BY <2>1, <2>2 DEF Inv, Types, Worker
  <2>4. Unlisting' BY <1>3, <2>2, <2>3 DEF GetBanlist, rows, Unlisting
  <2> QED BY <1>3, <2>1, <2>3, <2>4, WorkKept DEF GetBanlist
<1>4. CASE Abandon BY <1>4, IdleTyped, WorkKept DEF Abandon, Unlisting
<1> QED BY <1>1, <1>2, <1>3, <1>4

\* After the ADD the player is on the list.
LEMMA AddToBanlistKept ==
    ASSUME Inv, AddToBanlist
    PROVE  Inv' /\ whitelist' = whitelist
<1>1. Worker' /\ work'.pc = "unwhitelist" /\ work'.ban = work.ban /\ work.ban \in Bans
  BY GotoTyped DEF AddToBanlist, Mutation, At, Steps
<1>2. Rows' /\ remote'[work.ban] BY <1>1 DEF AddToBanlist, Inv, Types, Rows
<1>3. Jobs' /\ Noted' /\ Reconciler' /\ Expirer' /\ Command' /\ Counted' /\ Targets'
  BY <1>1 DEF AddToBanlist, Inv, Types, Jobs, Noted, Reconciler, Expirer, Command, Counted, Targets
<1> QED BY <1>1, <1>2, <1>3 DEF Inv, Types, Unlisting, AddToBanlist

\* Only the REMOVE operation takes a name off the list, and goes nowhere near the whitelist.
LEMMA RemoveFromBanlistKept ==
    ASSUME Inv, RemoveFromBanlist
    PROVE  Inv' /\ whitelist' = whitelist
<1>1. Worker' /\ work'.pc = "mark" /\ work'.ban = work.ban /\ work.ban \in Bans
  BY GotoTyped DEF RemoveFromBanlist, Mutation, At, Steps
<1>2. Rows' BY <1>1 DEF RemoveFromBanlist, Inv, Types, Rows
<1>3. Jobs' /\ Noted' /\ Reconciler' /\ Expirer' /\ Command' /\ Counted' /\ Targets'
  BY <1>1 DEF RemoveFromBanlist, Inv, Types, Jobs, Noted, Reconciler, Expirer, Command, Counted, Targets
<1> QED BY <1>1, <1>2, <1>3 DEF Inv, Types, Unlisting, RemoveFromBanlist

\* The whitelist is left by who is on the ban list.
LEMMA RemoveFromWhitelistKept ==
    ASSUME Inv, RemoveFromWhitelist
    PROVE  Inv' /\ \A b \in Bans : whitelist[b] /\ ~whitelist'[b] => remote[b] \/ spent.edits > 0
<1>1. Worker' /\ work'.pc = "mark" /\ work'.ban = work.ban /\ work.ban \in Bans
  BY GotoTyped DEF RemoveFromWhitelist, Mutation, At, Steps
<1>2. Rows' BY <1>1 DEF RemoveFromWhitelist, Inv, Types, Rows
<1>3. Jobs' /\ Noted' /\ Reconciler' /\ Expirer' /\ Command' /\ Counted' /\ Targets'
  BY <1>1 DEF RemoveFromWhitelist, Inv, Types, Jobs, Noted, Reconciler, Expirer, Command, Counted, Targets
<1>4. \A b \in Bans : b # work.ban => whitelist'[b] = whitelist[b]
  BY DEF RemoveFromWhitelist, Inv, Types, Rows
<1>5. remote[work.ban] \/ spent.edits > 0
  BY DEF RemoveFromWhitelist, Mutation, At, Inv, Unlisting
<1> QED BY <1>1, <1>2, <1>3, <1>4, <1>5 DEF Inv, Types, Unlisting

\* appliedRemotely is set.
LEMMA MarkAppliedKept ==
    ASSUME Inv, MarkApplied
    PROVE  Inv' /\ whitelist' = whitelist
<1>1. Worker' /\ work'.pc = "recheck" /\ work'.ban = work.ban /\ work.ban \in Bans
  BY GotoTyped DEF MarkApplied, At, Steps
<1>2. ban' \in [Bans -> BanRow] BY <1>1, RowTyped DEF MarkApplied, Inv, Types
<1>3. Rows' BY <1>2 DEF MarkApplied, Inv, Types, Rows
<1>4. Jobs' /\ Noted' /\ Reconciler' /\ Expirer' /\ Command' /\ Counted' /\ Targets'
  BY <1>1 DEF MarkApplied, Inv, Types, Jobs, Noted, Reconciler, Expirer, Command, Counted, Targets
<1> QED BY <1>1, <1>3, <1>4 DEF Inv, Types, Unlisting, MarkApplied

\* The ban is read again, and may need the other job.
LEMMA RecheckKept ==
    ASSUME Bounded, Inv, Recheck
    PROVE  Inv' /\ whitelist' = whitelist
<1>1. Worker' /\ work'.pc = "done" /\ work'.ban = work.ban /\ work.ban \in Bans
  BY GotoTyped DEF Recheck, At, Steps
<1>2. stored' \in [Bans -> BOOLEAN] /\ job' \in [Bans -> [Ops -> 0..MaxAttempts]]
  <2>1. CASE EnqueueRemove(work.ban, TRUE) BY <1>1, <2>1, EnqueueRemoveTyped DEF Inv, Types
  <2>2. CASE EnqueueAdd(work.ban, FALSE) BY <1>1, <2>2, EnqueueAddTyped DEF Inv, Types
  <2>3. CASE UNCHANGED <<job, stored>> BY <2>3 DEF Inv, Types, Rows, Jobs
  <2> QED BY <2>1, <2>2, <2>3 DEF Recheck
<1>3. Rows' /\ Jobs' BY <1>2 DEF Recheck, Inv, Types, Rows, Jobs
<1>4. Noted' /\ Reconciler' /\ Expirer' /\ Command' /\ Counted' /\ Targets'
  BY <1>1 DEF Recheck, Inv, Types, Noted, Reconciler, Expirer, Command, Counted, Targets
<1> QED BY <1>1, <1>3, <1>4 DEF Inv, Types, Unlisting, Recheck

\* The attempts of one job change.
LEMMA AttemptsTyped ==
    ASSUME Jobs, NEW b \in Bans, NEW op \in Ops, NEW n \in 0..MaxAttempts,
           job' = job \/ job' = [job EXCEPT ![b][op] = n]
    PROVE  job' \in [Bans -> [Ops -> 0..MaxAttempts]]
  BY DEF Jobs

\* A completed job is gone.
LEMMA DoneKept ==
    ASSUME Bounded, Inv, Done
    PROVE  Inv' /\ whitelist' = whitelist
<1>1. work.ban \in Bans /\ work.op \in Ops BY DEF Done, At, Inv, Types, Targets, Worker
<1>2. NoJob \in 0..MaxAttempts BY DEF NoJob, Bounded
<1>3. Jobs' BY <1>1, <1>2, AttemptsTyped DEF Done, Inv, Types, Jobs
<1>4. Worker' /\ work'.pc = "idle" BY IdleTyped DEF Done
<1>5. Rows' /\ Noted' /\ Reconciler' /\ Expirer' /\ Command' /\ Counted' /\ Targets'
  BY <1>4 DEF Done, Inv, Types, Rows, Noted, Reconciler, Expirer, Command, Counted, Targets
<1> QED BY <1>3, <1>4, <1>5 DEF Inv, Types, Unlisting, Done

\* A failed one counts its attempt or is DEAD.
LEMMA FailJobKept ==
    ASSUME Bounded, Inv, FailJob
    PROVE  Inv' /\ whitelist' = whitelist
<1>1. work.ban \in Bans /\ work.op \in Ops BY DEF FailJob, At, Inv, Types, Targets, Worker
<1>2. job[work.ban][work.op] \in 0..MaxAttempts BY <1>1 DEF Inv, Types, Jobs
<1>3. Jobs'
  <2>1. CASE work.claimed
    <3> DEFINE n == job[work.ban][work.op] + 1
    <3>1. PICK dead \in BOOLEAN :
            /\ job' = [job EXCEPT ![work.ban][work.op] = IF dead THEN NoJob ELSE n]
            /\ cooldown' = [cooldown EXCEPT ![work.op] = @ \/ dead]
            /\ n >= MaxAttempts => dead
      BY <2>1 DEF FailJob
    <3>2. (IF dead THEN NoJob ELSE n) \in 0..MaxAttempts
      BY <1>2, <3>1 DEF Bounded, NoJob
    <3>3. job' \in [Bans -> [Ops -> 0..MaxAttempts]]
      BY <1>1, <3>1, <3>2, AttemptsTyped DEF Inv, Types
    <3>4. cooldown' \in [Ops -> BOOLEAN] BY <1>1, <3>1 DEF Inv, Types, Jobs
    <3> QED BY <3>3, <3>4 DEF Jobs
  <2>2. CASE ~work.claimed BY <2>2 DEF FailJob, Inv, Types, Jobs
  <2> QED BY <2>1, <2>2
<1>4. Worker' /\ work'.pc = "idle" BY IdleTyped DEF FailJob
<1>5. Rows' /\ Noted' /\ Reconciler' /\ Expirer' /\ Command' /\ Counted' /\ Targets'
  BY <1>4 DEF FailJob, Inv, Types, Rows, Noted, Reconciler, Expirer, Command, Counted, Targets
<1> QED BY <1>3, <1>4, <1>5 DEF Inv, Types, Unlisting, FailJob

\* A failing call may have done its work, at "unwhitelist" taking the player off.
LEMMA WorkFailsKept ==
    ASSUME Bounded, Inv, WorkFails
    PROVE  Inv' /\ \A b \in Bans : whitelist[b] /\ ~whitelist'[b] => remote[b] \/ spent.edits > 0
<1>1. Worker' /\ work'.pc = "failing" /\ work'.ban = work.ban /\ work.ban \in Bans
  BY GotoTyped DEF WorkFails, Steps
<1>2. Counted' BY FaultTyped DEF WorkFails, Inv, Types
<1>3. \/ remote' = remote
      \/ remote' = [remote EXCEPT ![work.ban] = TRUE]
      \/ remote' = [remote EXCEPT ![work.ban] = FALSE]
  <2>1. CASE At("add") /\ work.claimed BY <2>1 DEF WorkFails
  <2>2. CASE ~(At("add") /\ work.claimed) /\ At("remove") /\ work.claimed
    BY <2>2 DEF WorkFails, At
  <2>3. CASE ~(At("add") /\ work.claimed) /\ ~(At("remove") /\ work.claimed)
    BY <2>3 DEF WorkFails
  <2> QED BY <2>1, <2>2, <2>3
<1>4. \/ whitelist' = whitelist
      \/ At("unwhitelist") /\ whitelist' = [whitelist EXCEPT ![work.ban] = FALSE]
  BY DEF WorkFails
<1>5. Rows'
  <2>1. remote' \in [Bans -> BOOLEAN] /\ whitelist' \in [Bans -> BOOLEAN]
    BY <1>1, <1>3, <1>4 DEF Inv, Types, Rows
  <2> QED BY <2>1 DEF WorkFails, Inv, Types, Rows
<1>6. Jobs' /\ Noted' /\ Reconciler' /\ Expirer' /\ Command' /\ Targets'
  BY <1>1 DEF WorkFails, Inv, Types, Jobs, Noted, Reconciler, Expirer, Command, Targets
<1>7. ASSUME NEW b \in Bans, whitelist[b] /\ ~whitelist'[b] PROVE remote[b] \/ spent.edits > 0
  <2>1. At("unwhitelist") /\ b = work.ban BY <1>4, <1>7 DEF Inv, Types, Rows
  <2> QED BY <2>1 DEF At, Inv, Unlisting
<1> QED BY <1>1, <1>2, <1>5, <1>6, <1>7 DEF Inv, Types, Unlisting

\* An execution without its claim stays where it is.
LEMMA LoseClaimKept ==
    ASSUME Bounded, Inv, LoseClaim
    PROVE  Inv' /\ whitelist' = whitelist
<1>1. Worker' /\ work'.pc = work.pc /\ work'.ban = work.ban
  BY DEF LoseClaim, Inv, Types, Worker
<1>2. Counted' /\ spent'.edits = spent.edits BY FaultTyped DEF LoseClaim, Inv, Types
<1>3. Rows' /\ Jobs' /\ Noted' /\ Reconciler' /\ Expirer' /\ Command' /\ Targets'
  BY <1>1 DEF LoseClaim, rows, Inv, Types, Rows, Jobs, Noted, Reconciler, Expirer, Command, Targets
<1>4. Unlisting' BY <1>1, <1>2 DEF LoseClaim, rows, Inv, Unlisting
<1> QED BY <1>1, <1>2, <1>3, <1>4 DEF LoseClaim, rows, Inv, Types

\* The cooldown after DEAD jobs ends.
LEMMA CooldownEndsKept ==
    ASSUME Inv, NEW op \in Ops, CooldownEnds(op)
    PROVE  Inv' /\ whitelist' = whitelist
  BY DEF CooldownEnds, Inv, Types, Rows, Jobs, Noted, Worker, Reconciler, Expirer, Command,
         Counted, Targets, Unlisting

\* The worker takes nobody off the whitelist who is not on the ban list.
LEMMA WorkerKept ==
    ASSUME Bounded, Inv, Work \/ WorkFails \/ LoseClaim \/ \E b \in Bans, op \in Ops : Take(b, op)
    PROVE  Inv' /\ \A b \in Bans : whitelist[b] /\ ~whitelist'[b] => remote[b] \/ spent.edits > 0
  BY WorkReadKept, AddToBanlistKept, RemoveFromBanlistKept, RemoveFromWhitelistKept,
     MarkAppliedKept, RecheckKept, DoneKept, FailJobKept, WorkFailsKept, LoseClaimKept DEF Work

-----------------------------------------------------------------------------
(* The reconciliation *)

\* A run goes on, and changes no row.
LEMMA ReconStepKept ==
    ASSUME Inv, ReconRead \/ ReconList \/ ReconConfirm
    PROVE  Inv' /\ whitelist' = whitelist
<1>1. Reconciler'
  <2>1. CASE ReconRead
    <3> DEFINE row(b) == [ban |-> b, active |-> IsBanActive(b), applied |-> ban[b].applied, stored |-> stored[b]]
    <3>1. \A b \in Bans : row(b) \in Snapshot
      BY DEF Snapshot, IsBanActive, Inv, Types, Rows, BanRow
    <3>2. {row(b) : b \in {x \in Bans : ban[x].active \/ ban[x].applied}} \in SUBSET Snapshot
      BY <3>1
    <3> QED BY <2>1, <3>2 DEF ReconRead, Reconciler
  <2>2. CASE ReconList
    <3>1. PICK pc \in {"confirm", "rows"} : recon' = [recon EXCEPT !.seen = {b \in Bans : remote[b]}, !.pc = pc]
      BY <2>2 DEF ReconList
    <3> QED BY <3>1 DEF Inv, Types, Reconciler
  <2>3. CASE ReconConfirm BY <2>3 DEF ReconConfirm, Inv, Types, Reconciler
  <2> QED BY <2>1, <2>2, <2>3
<1>2. UNCHANGED <<rows, work, expire, cmd, spent>> BY DEF ReconRead, ReconList, ReconConfirm
<1>3. Rows' /\ Jobs' /\ Noted' /\ Worker' /\ Expirer' /\ Command' /\ Counted' /\ Targets' /\ Unlisting'
  BY <1>2 DEF rows, Inv, Types, Rows, Jobs, Noted, Worker, Expirer, Command, Counted, Targets, Unlisting
<1> QED BY <1>1, <1>2, <1>3 DEF rows, Inv, Types

\* What the reconciliation does with one row of its snapshot.
LEMMA ReconRowTyped ==
    ASSUME Bounded, Inv, NEW r \in Snapshot, ReconActive(r) \/ ReconInactive(r)
    PROVE  /\ ban' \in [Bans -> BanRow] /\ drift' \in [Bans -> Drifts]
           /\ stored' \in [Bans -> BOOLEAN] /\ job' \in [Bans -> [Ops -> 0..MaxAttempts]]
<1> DEFINE b == r.ban
           seen == b \in recon.seen
<1>1. b \in Bans /\ r.stored \in BOOLEAN /\ r.applied \in BOOLEAN BY DEF Snapshot
<1>2. ban' \in [Bans -> BanRow]
  <2>1. ban' = ban \/ ban' = [ban EXCEPT ![b].applied = TRUE] \/ ban' = [ban EXCEPT ![b].applied = seen]
    BY DEF ReconActive, ReconInactive
  <2> HIDE DEF b, seen
  <2>2. seen \in BOOLEAN BY DEF seen
  <2> QED BY <1>1, <2>1, <2>2, RowTyped DEF Inv, Types
<1>3. drift' \in [Bans -> Drifts]
  BY <1>1 DEF ReconActive, ReconInactive, Inv, Types, Rows, Drifts
<1>4. stored' \in [Bans -> BOOLEAN] /\ job' \in [Bans -> [Ops -> 0..MaxAttempts]]
  <2>1. CASE EnqueueAdd(b, TRUE) BY <1>1, <2>1, EnqueueAddTyped DEF Inv, Types
  <2>2. CASE EnqueueRemove(b, TRUE) BY <1>1, <2>2, EnqueueRemoveTyped DEF Inv, Types
  <2>3. CASE ~EnqueueAdd(b, TRUE) /\ ~EnqueueRemove(b, TRUE)
    <3>1. job' = job /\ (\/ stored' = [stored EXCEPT ![b] = @ \/ (seen /\ ~r.stored)]
                         \/ stored' = [stored EXCEPT ![b] = @ /\ ~r.stored])
      BY <2>3 DEF ReconActive, ReconInactive
    <3> QED BY <1>1, <3>1 DEF Inv, Types, Rows, Jobs
  <2> QED BY <2>1, <2>2, <2>3
<1> QED BY <1>2, <1>3, <1>4

\* The run takes one row after the other.
LEMMA ReconRowKept ==
    ASSUME Bounded, Inv, ReconRow
    PROVE  Inv' /\ whitelist' = whitelist
<1>1. PICK r \in recon.todo :
        /\ ReconActive(r) \/ ReconInactive(r)
        /\ recon' = NotReconciling \/ recon' = [recon EXCEPT !.todo = @ \ {r}]
  BY DEF ReconRow
<1>2. r \in Snapshot BY DEF Inv, Types, Reconciler
<1>3. Rows' /\ Jobs' BY <1>1, <1>2, ReconRowTyped DEF ReconRow, Inv, Types, Rows, Jobs
<1>4. Reconciler'
  <2>1. CASE recon' = NotReconciling BY <2>1, IdleTyped
  <2>2. CASE recon' = [recon EXCEPT !.todo = @ \ {r}] BY <2>2 DEF Inv, Types, Reconciler
  <2> QED BY <1>1, <2>1, <2>2
<1>5. Noted' /\ Worker' /\ Expirer' /\ Command' /\ Counted' /\ Targets' /\ Unlisting'
  BY DEF ReconRow, Inv, Types, Noted, Worker, Expirer, Command, Counted, Targets, Unlisting
<1> QED BY <1>3, <1>4, <1>5 DEF ReconRow, Inv, Types

\* The run fails, or the report of a row.
LEMMA ReconFailsKept ==
    ASSUME Bounded, Inv, ReconFails \/ ReportFails
    PROVE  Inv' /\ whitelist' = whitelist
<1>1. Reconciler'
  <2>1. CASE recon' = NotReconciling BY <2>1, IdleTyped
  <2>2. CASE \E r : recon' = [recon EXCEPT !.todo = @ \ {r}] BY <2>2 DEF Inv, Types, Reconciler
  <2> QED BY <2>1, <2>2 DEF ReconFails, ReportFails
<1>2. Counted' /\ spent'.edits = spent.edits BY FaultTyped DEF ReconFails, ReportFails, Inv, Types
<1>3. Rows' /\ Jobs' /\ Noted' /\ Worker' /\ Expirer' /\ Command' /\ Targets' /\ Unlisting'
  BY <1>2 DEF ReconFails, ReportFails, rows, Inv, Types, Rows, Jobs, Noted, Worker, Expirer, Command, Targets, Unlisting
<1> QED BY <1>1, <1>2, <1>3 DEF ReconFails, ReportFails, rows, Inv, Types

-----------------------------------------------------------------------------
(* The expiry *)

\* A step of the expiry that changes nothing but its run and the notices.
LEMMA ExpiryKept ==
    ASSUME Inv, Expirer', Noted',
           UNCHANGED <<ban, stored, remote, whitelist, job, cooldown, drift, work, recon, cmd>>,
           Counted', spent'.edits = spent.edits
    PROVE  Inv' /\ whitelist' = whitelist
<1>1. Rows' /\ Jobs' /\ Worker' /\ Reconciler' /\ Command' /\ Targets' /\ Unlisting'
  BY DEF Inv, Types, Rows, Jobs, Worker, Reconciler, Command, Targets, Unlisting
<1> QED BY <1>1 DEF Inv, Types

\* A confirmed ban gets its REMOVE job, any other is lifted.
LEMMA ExpiryRowKept ==
    ASSUME Bounded, Inv, ExpiryRow
    PROVE  Inv' /\ whitelist' = whitelist
<1>1. PICK r \in expire.todo :
        /\ IF r[2] THEN EnqueueRemove(r[1], TRUE) ELSE UNCHANGED <<job, stored>>
        /\ ban' = ban \/ ban' = [ban EXCEPT ![r[1]].active = FALSE]
        /\ notice' = notice \/ notice' = [notice EXCEPT ![r[1]] = "READY"]
        /\ expire' = [expire EXCEPT !.todo = @ \ {r}]
  BY DEF ExpiryRow
<1> DEFINE b == r[1]
<1>2. b \in Bans BY DEF Inv, Types, Expirer
<1>3. ban' \in [Bans -> BanRow]
  <2>1. ban' = ban \/ ban' = [ban EXCEPT ![b].active = FALSE] BY <1>1
  <2> HIDE DEF b
  <2> QED BY <1>2, <2>1, RowTyped DEF Inv, Types
<1>4. stored' \in [Bans -> BOOLEAN] /\ job' \in [Bans -> [Ops -> 0..MaxAttempts]]
  <2>1. CASE EnqueueRemove(b, TRUE) BY <1>2, <2>1, EnqueueRemoveTyped DEF Inv, Types
  <2>2. CASE UNCHANGED <<job, stored>> BY <2>2 DEF Inv, Types, Rows, Jobs
  <2> QED BY <1>1, <2>1, <2>2
<1>5. Rows' /\ Jobs' BY <1>3, <1>4 DEF ExpiryRow, Inv, Types, Rows, Jobs
<1>6. Noted' BY <1>1, <1>2 DEF Inv, Types, Noted, Notices
<1>7. Expirer' BY <1>1 DEF Inv, Types, Expirer
<1>8. Worker' /\ Reconciler' /\ Command' /\ Counted' /\ Targets' /\ Unlisting'
  BY DEF ExpiryRow, Inv, Types, Worker, Reconciler, Command, Counted, Targets, Unlisting
<1> QED BY <1>5, <1>6, <1>7, <1>8 DEF ExpiryRow, Inv, Types

\* The run begins, claims notices, sends them and ends.
LEMMA NoticesKept ==
    ASSUME Bounded, Inv,
           \/ ExpiryRead \/ NoticeRecover \/ NoticeClaim \/ NoticeCheck \/ NoticeSend \/ NoticeSent
           \/ NoticeFails
    PROVE  Inv' /\ whitelist' = whitelist
<1>1. Counted' /\ spent'.edits = spent.edits
  BY FaultTyped DEF ExpiryRead, NoticeRecover, NoticeClaim, NoticeCheck, NoticeSend, NoticeSent,
                    NoticeFails, Inv, Types, Counted
<1>2. UNCHANGED <<ban, stored, remote, whitelist, job, cooldown, drift, work, recon, cmd>>
  BY DEF ExpiryRead, NoticeRecover, NoticeClaim, NoticeCheck, NoticeSend, NoticeSent, NoticeFails, rows
<1>3. Noted'
  <2>1. CASE NoticeRecover BY <2>1 DEF NoticeRecover, Inv, Types, Noted, Notices
  <2>2. CASE ExpiryRead \/ NoticeSend BY <2>2 DEF ExpiryRead, NoticeSend, rows, Inv, Types, Noted
  <2>3. CASE NoticeClaim \/ NoticeCheck \/ NoticeSent \/ NoticeFails
    <3>1. \E b, s : s \in Notices /\ (notice' = notice \/ notice' = [notice EXCEPT ![b] = s])
      BY <2>3 DEF NoticeClaim, NoticeCheck, NoticeSent, NoticeFails, Notices
    <3> QED BY <3>1 DEF Inv, Types, Noted
  <2> QED BY <2>1, <2>2, <2>3
<1>4. Expirer'
  <2>1. CASE ExpiryRead
    <3> DEFINE expired == {b \in Bans : ban[b].active /\ ban[b].expiry = "past"}
    <3>1. \A b \in Bans : <<b, ban[b].applied>> \in Bans \X BOOLEAN BY DEF Inv, Types, Rows, BanRow
    <3>2. {<<b, ban[b].applied>> : b \in expired} \in SUBSET (Bans \X BOOLEAN) BY <3>1
    <3> QED BY <2>1, <3>2 DEF ExpiryRead, Expirer
  <2>2. CASE NoticeClaim
    <3>1. CASE expire' = NotExpiring BY <3>1, IdleTyped
    <3>2. CASE \E b \in Bans : expire' = [expire EXCEPT !.pc = "check", !.ban = b]
      BY <3>2 DEF Inv, Types, Expirer
    <3> QED BY <2>2, <3>1, <3>2 DEF NoticeClaim
  <2>3. CASE NoticeRecover \/ NoticeCheck \/ NoticeSend \/ NoticeSent \/ NoticeFails
    <3>1. \/ expire' = [expire EXCEPT !.pc = "notices"]
          \/ expire' = [expire EXCEPT !.pc = "send"]
          \/ expire' = [expire EXCEPT !.pc = "sent"]
          \/ expire' = [expire EXCEPT !.pc = "notices", !.ban = NoBan]
      BY <2>3 DEF NoticeRecover, NoticeCheck, NoticeSend, NoticeSent, NoticeFails
    <3> QED BY <3>1 DEF Inv, Types, Expirer
  <2> QED BY <2>1, <2>2, <2>3
<1> QED BY <1>1, <1>2, <1>3, <1>4, ExpiryKept

\* A temporary ban ends.
LEMMA TimePassesKept ==
    ASSUME Inv, NEW b \in Bans, TimePasses(b)
    PROVE  Inv' /\ whitelist' = whitelist
<1>1. ban' \in [Bans -> BanRow] BY RowTyped DEF TimePasses, Inv, Types
<1>2. Rows' BY <1>1 DEF TimePasses, Inv, Types, Rows
<1>3. Jobs' /\ Noted' /\ Worker' /\ Reconciler' /\ Expirer' /\ Command' /\ Counted' /\ Targets' /\ Unlisting'
  BY DEF TimePasses, Inv, Types, Jobs, Noted, Worker, Reconciler, Expirer, Command, Counted,
         Targets, Unlisting
<1> QED BY <1>2, <1>3 DEF TimePasses, Inv, Types

\* A crash ends whatever is under way and changes no row but a notice of drift.
LEMMA CrashKept ==
    ASSUME Bounded, Inv, Crash
    PROVE  Inv' /\ whitelist' = whitelist
<1>1. Worker' /\ work'.pc = "idle" /\ Reconciler' /\ Expirer' /\ Command' /\ cmd'.pc = "idle"
  BY IdleTyped DEF Crash
<1>2. Counted' BY FaultTyped DEF Crash, Inv, Types
<1>3. drift' \in [Bans -> Drifts]
  <2>1. drift' = drift \/ \E b : drift' = [drift EXCEPT ![b] = "SILENT"] BY DEF Crash
  <2> QED BY <2>1 DEF Inv, Types, Rows, Drifts
<1>4. Rows' /\ Jobs' /\ Noted' BY <1>3 DEF Crash, Inv, Types, Rows, Jobs, Noted
<1> QED BY <1>1, <1>2, <1>4 DEF Crash, Inv, Types, Targets, Unlisting

-----------------------------------------------------------------------------
(* The theorems *)

Ordered == \A b \in Bans : whitelist[b] /\ ~whitelist'[b] => remote[b] \/ spent.edits > 0

\* Every step keeps the invariant and the order.
LEMMA StepKept == Bounded /\ Inv /\ [Next]_vars => Inv' /\ Ordered
<1> SUFFICES ASSUME Bounded, Inv, [Next]_vars PROVE Inv' /\ Ordered
  OBVIOUS
<1>1. CASE Moderate BY <1>1, ModerateKept DEF Ordered
<1>2. CASE Work \/ WorkFails \/ LoseClaim \/ \E b \in Bans, op \in Ops : Take(b, op)
  BY <1>2, WorkerKept DEF Ordered
<1>3. CASE Reconcile \/ ReconRead \/ ReconFails \/ ReportFails
  BY <1>3, ReconStepKept, ReconRowKept, ReconFailsKept DEF Reconcile, Ordered
<1>4. CASE Expiry \/ NoticeFails
  BY <1>4, ExpiryRowKept, NoticesKept DEF Expiry, Ordered
<1>5. CASE \E b \in Bans : TimePasses(b) BY <1>5, TimePassesKept DEF Ordered
<1>6. CASE \E op \in Ops : CooldownEnds(op) BY <1>6, CooldownEndsKept DEF Ordered
<1>7. CASE Crash BY <1>7, CrashKept DEF Ordered
<1>8. CASE UNCHANGED vars
  BY <1>8 DEF vars, rows, Inv, Types, Rows, Jobs, Noted, Worker, Reconciler, Expirer, Command,
              Counted, Targets, Unlisting, Ordered
<1> QED BY <1>1, <1>2, <1>3, <1>4, <1>5, <1>6, <1>7, <1>8 DEF Next

\* The variables keep their types: no path leaves a job with more attempts than it may have.
THEOREM TypeCorrect ==
    ASSUME Bounded
    PROVE  Spec => []TypeOK
<1>1. Init => Inv BY InitInv
<1>2. Inv /\ [Next]_vars => Inv' BY StepKept
<1>3. Inv => TypeOK BY TypesAreTypeOK DEF Inv
<1> QED BY <1>1, <1>2, <1>3, PTL DEF Spec

\* jobWorker.ts, SERVER_BAN_ADD: with any bans, executions, reconciliations, commands, crashes
\* and failed calls under way, a player is taken off the whitelist only while on the ban
\* list, unless somebody edited the list at Nitrado.
THEOREM BannedBeforeUnlistedHolds ==
    ASSUME Bounded
    PROVE  Spec => BannedBeforeUnlisted
<1>1. Init => Inv BY InitInv
<1>2. Inv /\ [Next]_vars => Inv' /\ [Ordered]_vars BY StepKept
<1> QED BY <1>1, <1>2, PTL DEF Spec, BannedBeforeUnlisted, Ordered

-----------------------------------------------------------------------------
(* Whitelist: an instance, one name on the list of one connection.         *)

CONSTANTS Commands, MaxCommands

VARIABLES entry, request, listed, jobs, player, warned, command, runner, sync, foreign, used

Name == INSTANCE Whitelist WITH remote <- listed, job <- jobs, ban <- player, drift <- warned, cmd <- command,
           work <- runner, cron <- sync, spent <- used

Reads == [at: {"idle", "listed", "absent", "commit"}, seen: BOOLEAN, row: Name!States]
Spent == [commands: 0..MaxCommands, edits: 0..MaxEdits, faults: 0..MaxFaults]

\* The connection lock: a job or the sync.
Exclusive == runner.pc = "idle" \/ sync.pc = "idle"

\* A name the sync missed at its second look is off the list, but for edits at Nitrado.
Missed == sync.pc = "row" /\ ~sync.seen => ~listed \/ used.edits > 0

\* A foreign name is listed, and nothing under way would take it off: no
\* intent of the row, no ban, and no decision made before the row went.
Foreign ==
    foreign => /\ listed /\ ~player.active /\ entry # "PENDING_REMOVE"
               /\ runner.pc \notin {"withdraw", "unlist"}
               /\ ~(runner.pc = "write" /\ runner.op = "REMOVE")
               /\ runner.pc = "compensate" /\ runner.op = "ADD" => entry = "NONE"
               /\ sync.pc \in {"row", "confirm", "jobs"} /\ sync.row = "PENDING_REMOVE" => entry = "NONE"

NameInv == Name!TypeOK /\ Exclusive /\ Missed /\ Foreign

LEMMA NameInit == ASSUME Name!NameAssumption, Name!Init PROVE NameInv
<1> USE DEF Name!Init, Name!NoCommand, Name!NoWork, Name!NoSync
<1>1. entry \in Name!States /\ request \in BOOLEAN /\ listed \in BOOLEAN /\ warned \in Name!Drifts
      /\ foreign \in BOOLEAN
  BY DEF Name!States, Name!Drifts
<1>2. jobs \in [Name!Ops -> BOOLEAN] /\ player \in [active: BOOLEAN, job: BOOLEAN]
  OBVIOUS
<1>3. [at |-> "idle", seen |-> FALSE, row |-> "NONE"] \in Reads
  BY DEF Reads, Name!States
<1>4. command \in [Name!AllCommands -> Reads]
  BY <1>3
<1>5. used \in Spent
  BY DEF Name!NameAssumption, Spent
<1>6. runner.pc = "idle" /\ runner.op \in Name!Ops /\ sync.pc = "idle" /\ sync.row \in Name!States
  BY DEF Name!Ops, Name!States
<1>7. Name!TypeOK
  BY <1>1, <1>2, <1>4, <1>5 DEF Name!TypeOK, Reads, Spent, Name!Ops, Name!States
<1>8. Exclusive /\ Missed /\ Foreign
  BY <1>6 DEF Exclusive, Missed, Foreign
<1> QED BY <1>7, <1>8 DEF NameInv

LEMMA StartCounts ==
    ASSUME Name!NameAssumption, NameInv, NEW k, Name!Start(k)
    PROVE  used' \in Spent /\ used'.edits = used.edits
BY DEF Name!NameAssumption, NameInv, Name!TypeOK, Name!Start, Spent

\* A command that has only read its tables.
LEMMA BeginKept ==
    ASSUME Name!NameAssumption, NameInv, NEW k \in Name!AllCommands, NEW c \in Reads, Name!Begin(k, c)
    PROVE  NameInv'
<1>1. command \in [Name!AllCommands -> Reads]
  BY DEF NameInv, Name!TypeOK, Reads
<1>2. command' \in [Name!AllCommands -> Reads]
  BY <1>1 DEF Name!Begin
<1>3. used' \in Spent /\ used'.edits = used.edits
  BY StartCounts DEF Name!Begin
<1>4. UNCHANGED <<entry, request, listed, jobs, player, warned, runner, sync, foreign>>
  BY DEF Name!Begin
<1>5. Name!TypeOK'
  BY <1>2, <1>3, <1>4 DEF NameInv, Name!TypeOK, Reads, Spent
<1> QED BY <1>3, <1>4, <1>5 DEF NameInv, Exclusive, Missed, Foreign

LEMMA CommitKept ==
    ASSUME NameInv, NEW k \in Name!AllCommands, Name!Committing(k)
    PROVE  command' \in [Name!AllCommands -> Reads]
<1>1. command \in [Name!AllCommands -> Reads]
  BY DEF NameInv, Name!TypeOK, Reads
<1>2. Name!NoCommand \in Reads
  BY DEF Name!NoCommand, Reads, Name!States
<1> QED BY <1>1, <1>2 DEF Name!Committing

\* Another row and other jobs are typed, when nothing else changes.
LEMMA Retyped ==
    ASSUME Name!TypeOK, jobs' \in [Name!Ops -> BOOLEAN], entry' \in Name!States, request' \in BOOLEAN,
           listed' \in BOOLEAN, warned' \in Name!Drifts, foreign' \in BOOLEAN,
           player' \in [active: BOOLEAN, job: BOOLEAN],
           command' \in [Name!AllCommands -> Reads], used' \in Spent,
           UNCHANGED <<runner, sync>>
    PROVE  Name!TypeOK'
BY DEF Name!TypeOK, Reads, Spent

LEMMA NameTyped ==
    ASSUME NameInv
    PROVE  /\ jobs \in [Name!Ops -> BOOLEAN] /\ entry \in Name!States /\ request \in BOOLEAN
           /\ listed \in BOOLEAN /\ warned \in Name!Drifts /\ foreign \in BOOLEAN
           /\ player \in [active: BOOLEAN, job: BOOLEAN]
           /\ command \in [Name!AllCommands -> Reads] /\ used \in Spent
           /\ [jobs EXCEPT !["ADD"] = TRUE] \in [Name!Ops -> BOOLEAN]
           /\ [jobs EXCEPT !["REMOVE"] = TRUE] \in [Name!Ops -> BOOLEAN]
BY DEF NameInv, Name!TypeOK, Reads, Spent, Name!Ops

\* The commands write the row and the jobs; none of them touches the list.
LEMMA NameCommandKept ==
    ASSUME Name!NameAssumption, NameInv, Name!Command PROVE NameInv'
<1> USE NameTyped
<1> DEFINE Typed == Name!TypeOK'
<1>0. Name!TypeOK
  BY DEF NameInv
<1>1. CASE Name!AddBegin
  <2>1. [Name!NoCommand EXCEPT !.at = "commit"] \in Reads
    BY DEF Name!NoCommand, Reads, Name!States
  <2>2. \E k \in Name!AllCommands : Name!Begin(k, [Name!NoCommand EXCEPT !.at = "commit"])
    BY <1>1 DEF Name!AddBegin, Name!AllCommands
  <2> QED BY <2>1, <2>2, BeginKept
<1>2. CASE Name!AddCommit \/ Name!ApproveCommit
  <2>1. command' \in [Name!AllCommands -> Reads]
    BY <1>2, CommitKept DEF Name!AddCommit, Name!ApproveCommit, Name!AllCommands
  <2>2. entry' \in Name!States /\ request' \in BOOLEAN /\ foreign' \in BOOLEAN /\ jobs' \in [Name!Ops -> BOOLEAN]
    BY <1>2 DEF Name!AddCommit, Name!ApproveCommit, Name!States
  <2>3. UNCHANGED <<listed, player, warned, runner, sync, used>> /\ (foreign' => foreign /\ UNCHANGED entry)
    BY <1>2 DEF Name!AddCommit, Name!ApproveCommit
  <2>4. Typed
    BY <1>0, <2>1, <2>2, <2>3, Retyped
  <2> QED BY <2>3, <2>4 DEF NameInv, Exclusive, Missed, Foreign
<1>3. CASE Name!Deny \/ Name!DriftReappeared
  <2>1. used' \in Spent /\ used'.edits = used.edits
    BY <1>3, StartCounts DEF Name!Deny, Name!DriftReappeared
  <2>2. UNCHANGED <<entry, listed, jobs, player, command, runner, sync, foreign>> /\ request' \in BOOLEAN
        /\ warned' \in Name!Drifts
    BY <1>3 DEF Name!Deny, Name!DriftReappeared, Name!Drifts
  <2>3. Typed
    BY <1>0, <2>1, <2>2, Retyped
  <2> QED BY <2>1, <2>2, <2>3 DEF NameInv, Exclusive, Missed, Foreign
<1>4. CASE Name!Remove
  <2>1. used' \in Spent /\ used'.edits = used.edits
    BY <1>4, StartCounts DEF Name!Remove
  <2>2. /\ entry' \in Name!States /\ request' \in BOOLEAN /\ foreign' \in BOOLEAN
           /\ jobs' \in [Name!Ops -> BOOLEAN]
        /\ foreign' => foreign /\ UNCHANGED entry
    BY <1>4 DEF Name!Remove, Name!EnqueueRemove, Name!MarkRemove, Name!States
  <2>3. UNCHANGED <<listed, player, warned, command, runner, sync>>
    BY <1>4 DEF Name!Remove
  <2>4. Typed
    BY <1>0, <2>1, <2>2, <2>3, Retyped
  <2> QED BY <2>1, <2>2, <2>3, <2>4 DEF NameInv, Exclusive, Missed, Foreign
<1>5. CASE Name!RequestBegin
  <2>1. [at |-> "listed", seen |-> FALSE, row |-> entry] \in Reads
    BY DEF Reads
  <2> QED BY <1>5, <2>1, BeginKept DEF Name!RequestBegin, Name!AllCommands
<1>6. CASE Name!RequestCheck
  <2>1. command' \in [Name!AllCommands -> Reads]
    BY <1>6 DEF Name!RequestCheck, Name!NoCommand, Reads, Name!States, Name!AllCommands
  <2>2. UNCHANGED <<entry, request, listed, jobs, player, warned, runner, sync, foreign, used>>
    BY <1>6 DEF Name!RequestCheck
  <2>3. Typed
    BY <1>0, <2>1, <2>2, Retyped
  <2> QED BY <2>2, <2>3 DEF NameInv, Exclusive, Missed, Foreign
<1>7. CASE Name!RequestReplace
  <2>1. command' \in [Name!AllCommands -> Reads]
    BY <1>7 DEF Name!RequestReplace, Reads, Name!AllCommands
  <2>2. entry' \in Name!States /\ (entry' = entry \/ entry' = "NONE")
    BY <1>7 DEF Name!RequestReplace, Name!States
  <2>3. UNCHANGED <<request, listed, jobs, player, warned, runner, sync, foreign, used>>
    BY <1>7 DEF Name!RequestReplace
  <2>4. Typed
    BY <1>0, <2>1, <2>2, <2>3, Retyped
  <2> QED BY <2>2, <2>3, <2>4 DEF NameInv, Exclusive, Missed, Foreign
<1>8. CASE Name!RequestClaim
  <2>1. command' \in [Name!AllCommands -> Reads]
    BY <1>8, CommitKept DEF Name!RequestClaim, Name!AllCommands
  <2>2. UNCHANGED <<entry, listed, jobs, player, warned, runner, sync, foreign, used>> /\ request' \in BOOLEAN
    BY <1>8 DEF Name!RequestClaim
  <2>3. Typed
    BY <1>0, <2>1, <2>2, Retyped
  <2> QED BY <2>2, <2>3 DEF NameInv, Exclusive, Missed, Foreign
<1>9. CASE Name!DriftBegin
  <2>1. [Name!NoCommand EXCEPT !.at = "commit"] \in Reads
    BY DEF Name!NoCommand, Reads, Name!States
  <2>2. \E k \in Name!AllCommands : Name!Begin(k, [Name!NoCommand EXCEPT !.at = "commit"])
    BY <1>9 DEF Name!DriftBegin, Name!AllCommands
  <2> QED BY <2>1, <2>2, BeginKept
<1>10. CASE Name!AcceptCommit \/ Name!RestoreCommit
  <2>1. command' \in [Name!AllCommands -> Reads]
    BY <1>10, CommitKept DEF Name!AcceptCommit, Name!RestoreCommit, Name!AllCommands
  <2>2. /\ entry' \in Name!States /\ request' \in BOOLEAN /\ warned' \in Name!Drifts /\ foreign' \in BOOLEAN
        /\ jobs' \in [Name!Ops -> BOOLEAN]
    BY <1>10 DEF Name!AcceptCommit, Name!RestoreCommit, Name!States, Name!Drifts
  <2>3. /\ UNCHANGED <<listed, player, runner, sync, used>> /\ (foreign' => foreign)
        /\ foreign' => entry' = entry \/ (entry = "SYNCED" /\ entry' = "LOCAL_ONLY")
    BY <1>10 DEF Name!AcceptCommit, Name!RestoreCommit
  <2>4. Typed
    BY <1>0, <2>1, <2>2, <2>3, Retyped
  <2> QED BY <2>3, <2>4 DEF NameInv, Exclusive, Missed, Foreign
<1>11. CASE Name!SyncBegin
  <2>1. [at |-> "commit", seen |-> listed, row |-> entry] \in Reads
    BY DEF Reads
  <2> QED BY <1>11, <2>1, BeginKept DEF Name!SyncBegin, Name!AllCommands
<1>12. CASE Name!SyncCommit
  <2>1. command' \in [Name!AllCommands -> Reads]
    BY <1>12, CommitKept DEF Name!SyncCommit, Name!AllCommands
  <2>2. jobs' \in [Name!Ops -> BOOLEAN]
    BY <1>12 DEF Name!SyncCommit
  <2>3. entry' \in Name!States /\ (entry' = entry \/ entry' = "SYNCED")
    BY <1>12 DEF Name!SyncCommit, Name!States
  <2>4. UNCHANGED <<request, listed, player, warned, runner, sync, foreign, used>>
    BY <1>12 DEF Name!SyncCommit
  <2>5. runner.pc = "idle" /\ sync.pc = "idle"
    BY <1>12 DEF Name!SyncCommit, Name!LockFree
  <2>6. Typed
    BY <1>0, <2>1, <2>2, <2>3, <2>4, Retyped
  <2> QED BY <2>3, <2>4, <2>5, <2>6 DEF NameInv, Exclusive, Missed, Foreign
<1>13. CASE Name!ServerBan
  <2>1. used' \in Spent /\ used'.edits = used.edits
    BY <1>13, StartCounts DEF Name!ServerBan
  <2>2. entry' \in Name!States /\ request' \in BOOLEAN /\ player' \in [active: BOOLEAN, job: BOOLEAN]
        /\ foreign' = FALSE
    BY <1>13 DEF Name!ServerBan, Name!MarkRemove, Name!States
  <2>3. UNCHANGED <<listed, jobs, warned, command, runner, sync>>
    BY <1>13 DEF Name!ServerBan
  <2>4. Typed
    BY <1>0, <2>1, <2>2, <2>3, Retyped
  <2> QED BY <2>1, <2>2, <2>3, <2>4 DEF NameInv, Exclusive, Missed, Foreign
<1>14. CASE Name!ServerUnban
  <2>1. used' \in Spent /\ used'.edits = used.edits
    BY <1>14, StartCounts DEF Name!ServerUnban
  <2>2. player' \in [active: BOOLEAN, job: BOOLEAN] /\ ~player'.active
    BY <1>14 DEF Name!ServerUnban
  <2>3. UNCHANGED <<entry, request, listed, jobs, warned, command, runner, sync, foreign>>
    BY <1>14 DEF Name!ServerUnban
  <2>4. Typed
    BY <1>0, <2>1, <2>2, <2>3, Retyped
  <2> QED BY <2>1, <2>2, <2>3, <2>4 DEF NameInv, Exclusive, Missed, Foreign
<1> QED BY <1>1, <1>2, <1>3, <1>4, <1>5, <1>6, <1>7, <1>8, <1>9, <1>10, <1>11, <1>12, <1>13, <1>14
    DEF Name!Command

Execution == [pc: {"idle", "decide", "write", "recheck", "compensate", "done", "withdraw", "unlist"},
op: Name!Ops]
Run == [pc: {"idle", "local", "confirm", "row", "jobs"}, seen: BOOLEAN, row: Name!States]

\* A step of the worker or of the sync, for the types.
LEMMA StepTyped ==
    ASSUME Name!TypeOK, jobs' \in [Name!Ops -> BOOLEAN], entry' \in Name!States, request' \in BOOLEAN,
           listed' \in BOOLEAN, warned' \in Name!Drifts, player' \in [active: BOOLEAN, job: BOOLEAN],
           runner' \in Execution, sync' \in Run, used' \in Spent,
           UNCHANGED <<command, foreign>>
    PROVE  Name!TypeOK'
BY DEF Name!TypeOK, Execution, Run, Spent

LEMMA ActorsTyped ==
    ASSUME NameInv PROVE runner \in Execution /\ sync \in Run
BY DEF NameInv, Name!TypeOK, Execution, Run

\* The worker: it holds the lock, and writes the list only as the row decided.
LEMMA NameWorkerKept ==
    ASSUME Name!NameAssumption, NameInv,
           Name!Work \/ Name!BanTake \/ Name!BanRepair \/ Name!WorkFails \/ \E op \in Name!Ops : Name!Take(op)
    PROVE  NameInv'
<1> USE NameTyped, ActorsTyped
<1>0. Name!TypeOK
  BY DEF NameInv
<1>1. CASE \E op \in Name!Ops : Name!Take(op)
  <2>1. runner' \in Execution /\ runner'.pc = "decide" /\ sync.pc = "idle"
    BY <1>1 DEF Name!Take, Execution, Name!LockFree
  <2>2. UNCHANGED <<entry, request, listed, jobs, player, warned, command, sync, foreign, used>>
    BY <1>1 DEF Name!Take
  <2>3. Name!TypeOK'
    BY <1>0, <2>1, <2>2, StepTyped
  <2> QED BY <2>1, <2>2, <2>3 DEF NameInv, Exclusive, Missed, Foreign
<1>2. CASE Name!Decide
  <2>1. /\ runner' \in Execution /\ runner'.op = runner.op /\ runner.pc # "idle"
        /\ runner'.pc \in {"write", "compensate", "done"}
        /\ runner'.pc = "write" /\ runner.op = "REMOVE" => entry = "PENDING_REMOVE"
        /\ runner'.pc = "compensate" /\ runner.op = "ADD" => entry \in {"NONE", "PENDING_REMOVE"}
    BY <1>2 DEF Name!Decide, Name!Decision, Name!Goto, Name!At, Execution, Name!States, Name!Present, Name!Ops
  <2>2. UNCHANGED <<entry, request, listed, jobs, player, warned, command, sync, foreign, used>>
    BY <1>2 DEF Name!Decide
  <2>3. Name!TypeOK'
    BY <1>0, <2>1, <2>2, StepTyped
  <2> QED BY <2>1, <2>2, <2>3 DEF NameInv, Exclusive, Missed, Foreign
<1>3. CASE Name!WriteRemote
  <2>1. /\ runner' \in Execution /\ runner'.op = runner.op /\ runner.pc = "write" /\ runner'.pc = "recheck"
        /\ listed' = (runner.op = "ADD") /\ listed' \in BOOLEAN /\ runner.op \in {"ADD", "REMOVE"}
    BY <1>3 DEF Name!WriteRemote, Name!Goto, Name!At, Execution, Name!Ops
  <2>2. UNCHANGED <<entry, request, jobs, player, warned, command, sync, foreign, used>>
    BY <1>3 DEF Name!WriteRemote
  <2>3. Name!TypeOK'
    BY <1>0, <2>1, <2>2, StepTyped
  <2> QED BY <2>1, <2>2, <2>3 DEF NameInv, Exclusive, Missed, Foreign
<1>4. CASE Name!Compensate
  <2>1. runner' \in Execution /\ runner'.op = runner.op /\ runner.pc = "compensate" /\ runner'.pc = "done"
    BY <1>4 DEF Name!Compensate, Name!Goto, Name!At, Execution
  <2>2. /\ entry' \in Name!States /\ request' \in BOOLEAN /\ jobs' \in [Name!Ops -> BOOLEAN]
        /\ entry' # entry => runner.op = "ADD" /\ entry # "NONE"
    BY <1>4 DEF Name!Compensate, Name!EnqueueAdd, Name!EnqueueRemove, Name!MarkRemove, Name!States
  <2>3. UNCHANGED <<listed, player, warned, command, sync, foreign, used>>
    BY <1>4 DEF Name!Compensate
  <2>4. Name!TypeOK'
    BY <1>0, <2>1, <2>2, <2>3, StepTyped
  <2> QED BY <2>1, <2>2, <2>3, <2>4 DEF NameInv, Exclusive, Missed, Foreign
<1>5. CASE Name!Done
  <2>1. runner' \in Execution /\ runner'.pc = "idle" /\ jobs' \in [Name!Ops -> BOOLEAN]
    BY <1>5 DEF Name!Done, Name!NoWork, Execution, Name!Ops
  <2>2. UNCHANGED <<entry, request, listed, player, warned, command, sync, foreign, used>>
    BY <1>5 DEF Name!Done
  <2>3. Name!TypeOK'
    BY <1>0, <2>1, <2>2, StepTyped
  <2> QED BY <2>1, <2>2, <2>3 DEF NameInv, Exclusive, Missed, Foreign
<1>6. CASE Name!BanTake
  <2>1. /\ runner' \in Execution /\ runner'.pc \in {"withdraw", "idle"}
           /\ (runner'.pc = "withdraw" => player.active)
        /\ sync.pc = "idle" /\ player' \in [active: BOOLEAN, job: BOOLEAN] /\ player'.active = player.active
    BY <1>6 DEF Name!BanTake, Name!NoWork, Name!LockFree, Execution, Name!Ops
  <2>2. UNCHANGED <<entry, request, listed, jobs, warned, command, sync, foreign, used>>
    BY <1>6 DEF Name!BanTake
  <2>3. Name!TypeOK'
    BY <1>0, <2>1, <2>2, StepTyped
  <2> QED BY <2>1, <2>2, <2>3 DEF NameInv, Exclusive, Missed, Foreign
<1>7. CASE Name!BanWithdraw
  <2>1. runner' \in Execution /\ runner.pc = "withdraw" /\ runner'.pc = "unlist"
        /\ jobs' \in [Name!Ops -> BOOLEAN]
    BY <1>7 DEF Name!BanWithdraw, Name!Goto, Name!At, Execution
  <2>2. UNCHANGED <<entry, request, listed, player, warned, command, sync, foreign, used>>
    BY <1>7 DEF Name!BanWithdraw
  <2>3. Name!TypeOK'
    BY <1>0, <2>1, <2>2, StepTyped
  <2> QED BY <2>1, <2>2, <2>3 DEF NameInv, Exclusive, Missed, Foreign
<1>8. CASE Name!BanUnlist
  <2>1. /\ runner' \in Execution /\ runner.pc = "unlist" /\ runner'.pc = "idle" /\ listed' = FALSE
        /\ player' \in [active: BOOLEAN, job: BOOLEAN]
    BY <1>8 DEF Name!BanUnlist, Name!NoWork, Name!At, Execution, Name!Ops
  <2>2. UNCHANGED <<entry, request, jobs, warned, command, sync, foreign, used>>
    BY <1>8 DEF Name!BanUnlist
  <2>3. Name!TypeOK'
    BY <1>0, <2>1, <2>2, StepTyped
  <2> QED BY <2>1, <2>2, <2>3 DEF NameInv, Exclusive, Missed, Foreign
<1>9. CASE Name!WorkFails
  <2>1. /\ runner' \in Execution /\ runner'.pc = "idle" /\ runner.pc # "idle" /\ jobs' \in [Name!Ops -> BOOLEAN]
    <3>1. jobs' = jobs \/ jobs' = [jobs EXCEPT ![runner.op] = FALSE]
      BY <1>9 DEF Name!WorkFails
    <3>2. runner' = [pc |-> "idle", op |-> "ADD"] /\ runner.pc # "idle"
      BY <1>9 DEF Name!WorkFails, Name!NoWork, Name!At
    <3> QED BY <3>1, <3>2 DEF Execution, Name!Ops
  <2>2. used' \in Spent /\ used'.edits = used.edits
    BY <1>9 DEF Name!WorkFails, Name!NameAssumption, Spent
  <2>3. listed' \in BOOLEAN /\ (listed /\ ~listed' => runner.pc = "unlist" \/ (runner.pc = "write"
        /\ runner.op # "ADD"))
    BY <1>9 DEF Name!WorkFails, Name!At, Execution
  <2>4. UNCHANGED <<entry, request, player, warned, command, sync, foreign>>
    BY <1>9 DEF Name!WorkFails
  <2>5. Name!TypeOK'
    BY <1>0, <2>1, <2>2, <2>3, <2>4, StepTyped
  <2>6. sync.pc = "idle" /\ runner.op \in {"ADD", "REMOVE"}
    BY <2>1 DEF NameInv, Exclusive, Execution, Name!Ops
  <2> QED BY <2>1, <2>2, <2>3, <2>4, <2>5, <2>6 DEF NameInv, Exclusive, Missed, Foreign
<1>10. CASE Name!BanRepair
  <2>1. /\ entry' \in Name!States /\ request' \in BOOLEAN /\ player.active
        /\ runner.pc = "idle" /\ sync.pc = "idle"
    BY <1>10 DEF Name!BanRepair, Name!MarkRemove, Name!LockFree, Name!States
  <2>2. UNCHANGED <<listed, jobs, player, warned, command, runner, sync, foreign, used>>
    BY <1>10 DEF Name!BanRepair
  <2>3. Name!TypeOK'
    BY <1>0, <2>1, <2>2, StepTyped
  <2> QED BY <2>1, <2>2, <2>3 DEF NameInv, Exclusive, Missed, Foreign
<1> QED BY <1>1, <1>2, <1>3, <1>4, <1>5, <1>6, <1>7, <1>8, <1>9, <1>10 DEF Name!Work

\* The sync: it holds the lock from its first look at the list to its jobs.
LEMMA SyncKept ==
    ASSUME Name!NameAssumption, NameInv, Name!Cron \/ Name!CronList \/ Name!CronFails \/ Name!ExternalEdit
    PROVE  NameInv'
<1> USE NameTyped, ActorsTyped
<1>0. Name!TypeOK
  BY DEF NameInv
<1>1. CASE Name!CronList
  <2>1. sync' \in Run /\ sync'.pc = "local" /\ runner.pc = "idle"
    BY <1>1 DEF Name!CronList, Name!LockFree, Run, Name!States
  <2>2. UNCHANGED <<entry, request, listed, jobs, player, warned, command, runner, foreign, used>>
    BY <1>1 DEF Name!CronList
  <2>3. Name!TypeOK'
    BY <1>0, <2>1, <2>2, StepTyped
  <2> QED BY <2>1, <2>2, <2>3 DEF NameInv, Exclusive, Missed, Foreign
<1>2. CASE Name!CronLocal
  <2>1. /\ sync.pc = "local" /\ sync' \in Run /\ sync'.seen = sync.seen /\ sync'.row = entry
        /\ sync'.pc \in {"idle", "row", "confirm"} /\ (sync'.pc = "row" => sync.seen)
    BY <1>2 DEF Name!CronLocal, Run
  <2>2. UNCHANGED <<entry, request, listed, jobs, player, warned, command, runner, foreign, used>>
    BY <1>2 DEF Name!CronLocal
  <2>3. Name!TypeOK'
    BY <1>0, <2>1, <2>2, StepTyped
  <2> QED BY <2>1, <2>2, <2>3 DEF NameInv, Exclusive, Missed, Foreign
<1>3. CASE Name!CronConfirm
  <2>1. sync.pc = "confirm" /\ sync' \in Run /\ sync'.seen = listed /\ sync'.row = sync.row /\ sync'.pc = "row"
    BY <1>3 DEF Name!CronConfirm, Run
  <2>2. UNCHANGED <<entry, request, listed, jobs, player, warned, command, runner, foreign, used>>
    BY <1>3 DEF Name!CronConfirm
  <2>3. Name!TypeOK'
    BY <1>0, <2>1, <2>2, StepTyped
  <2> QED BY <2>1, <2>2, <2>3 DEF NameInv, Exclusive, Missed, Foreign
<1>4. CASE Name!CronRow
  <2>1. sync.pc = "row" /\ sync' \in Run /\ sync'.row = sync.row /\ sync'.pc = "jobs"
    BY <1>4 DEF Name!CronRow, Run
  <2>2. entry' \in Name!States /\ (entry' = entry \/ entry' = "NONE" \/ (entry # "NONE" /\ entry' = "SYNCED"
        /\ sync.row # "PENDING_REMOVE"))
    BY <1>4 DEF Name!CronRow, Name!States
  <2>3. warned' \in Name!Drifts /\ UNCHANGED <<request, listed, jobs, player, command, runner, foreign, used>>
    BY <1>4 DEF Name!CronRow, Name!Drifts
  <2>4. Name!TypeOK'
    BY <1>0, <2>1, <2>2, <2>3, StepTyped
  <2> QED BY <2>1, <2>2, <2>3, <2>4 DEF NameInv, Exclusive, Missed, Foreign
<1>5. CASE Name!CronJobs
  <2>1. sync.pc = "jobs" /\ sync' \in Run /\ sync'.pc = "idle"
    BY <1>5 DEF Name!CronJobs, Name!NoSync, Run, Name!States
  <2>2. /\ entry' \in Name!States /\ request' \in BOOLEAN /\ jobs' \in [Name!Ops -> BOOLEAN]
        /\ entry' # entry => sync.row = "PENDING_REMOVE" /\ entry # "NONE"
    BY <1>5 DEF Name!CronJobs, Name!EnqueueAdd, Name!EnqueueRemove, Name!MarkRemove, Name!States
  <2>3. warned' \in Name!Drifts /\ UNCHANGED <<listed, player, command, runner, foreign, used>>
    BY <1>5 DEF Name!CronJobs, Name!Drifts
  <2>4. Name!TypeOK'
    BY <1>0, <2>1, <2>2, <2>3, StepTyped
  <2> QED BY <2>1, <2>2, <2>3, <2>4 DEF NameInv, Exclusive, Missed, Foreign
<1>6. CASE Name!CronFails
  <2>1. sync' \in Run /\ sync'.pc = "idle"
    BY <1>6 DEF Name!CronFails, Name!NoSync, Run, Name!States
  <2>2. used' \in Spent /\ used'.edits = used.edits
    BY <1>6 DEF Name!CronFails, Name!NameAssumption, Spent
  <2>3. warned' \in Name!Drifts /\ UNCHANGED <<entry, request, listed, jobs, player, command, runner, foreign>>
    BY <1>6 DEF Name!CronFails, Name!Drifts
  <2>4. Name!TypeOK'
    BY <1>0, <2>1, <2>2, <2>3, StepTyped
  <2> QED BY <2>1, <2>2, <2>3, <2>4 DEF NameInv, Exclusive, Missed, Foreign
<1>7. CASE Name!ExternalEdit
  <2>1. used' \in Spent /\ used'.edits > 0
    BY <1>7 DEF Name!ExternalEdit, Name!NameAssumption, Spent
  <2>2. /\ listed' \in BOOLEAN /\ foreign' \in BOOLEAN
        /\ foreign' => listed' /\ entry = "NONE" /\ runner.pc = "idle" /\ ~player.active
    BY <1>7 DEF Name!ExternalEdit, Name!At
  <2>3. UNCHANGED <<entry, request, jobs, player, warned, command, runner, sync>>
    BY <1>7 DEF Name!ExternalEdit
  <2>4. Name!TypeOK'
    BY <1>0, <2>1, <2>2, <2>3 DEF Name!TypeOK, Spent
  <2> QED BY <2>1, <2>2, <2>3, <2>4 DEF NameInv, Exclusive, Missed, Foreign
<1> QED BY <1>1, <1>2, <1>3, <1>4, <1>5, <1>6, <1>7 DEF Name!Cron

LEMMA NameStep == ASSUME Name!NameAssumption, NameInv, [Name!Next]_(Name!vars) PROVE NameInv'
<1>1. CASE Name!Next
  BY <1>1, NameCommandKept, NameWorkerKept, SyncKept DEF Name!Next
<1>2. CASE UNCHANGED Name!vars
  BY <1>2 DEF NameInv, Name!vars, Name!TypeOK, Exclusive, Missed, Foreign
<1> QED BY <1>1, <1>2

\* Whitelist: the row, its jobs, the commands under way, the worker and the
\* sync keep their shapes.
THEOREM NameTypeOK == ASSUME Name!NameAssumption PROVE Name!Spec => []Name!TypeOK
<1>1. NameInv => Name!TypeOK
  BY DEF NameInv
<1> QED BY <1>1, NameInit, NameStep, PTL DEF Name!Spec

\* whitelistIntent.ts: a name that Nitrado has without a row is never taken off
\* by a job, a sync or a command, however they interleave.
THEOREM NoForeignRemovalHolds == ASSUME Name!NameAssumption PROVE Name!Spec => Name!NoForeignRemoval
<1> DEFINE Hand == foreign /\ used'.edits = used.edits => listed' = listed
<1>1. ASSUME NameInv, [Name!Next]_(Name!vars) PROVE [Hand]_(Name!vars)
  <2>1. CASE Name!WriteRemote \/ Name!BanUnlist \/ Name!WorkFails
    <3>1. listed /\ ~listed' => runner.pc = "unlist" \/ (runner.pc = "write" /\ runner.op # "ADD")
      BY <2>1, <1>1 DEF Name!WriteRemote, Name!BanUnlist, Name!WorkFails, Name!At, NameInv, Name!TypeOK
    <3>2. listed' \in BOOLEAN /\ listed \in BOOLEAN /\ runner.op \in {"ADD", "REMOVE"}
      BY <2>1, <1>1 DEF Name!WriteRemote, Name!BanUnlist, Name!WorkFails, Name!At, NameInv, Name!TypeOK, Name!Ops
    <3> QED BY <3>1, <3>2, <1>1 DEF NameInv, Foreign
  <2>2. CASE Name!ExternalEdit
    BY <2>2, <1>1 DEF Name!ExternalEdit, NameInv, Name!TypeOK
  <2>3. CASE Name!Command \/ Name!Cron \/ Name!CronList \/ Name!CronFails \/ Name!BanTake \/ Name!BanRepair
    BY <2>3 DEF Name!Command, Name!Cron, Name!AddBegin, Name!AddCommit, Name!ApproveCommit, Name!Deny,
                Name!Remove,
                Name!RequestBegin, Name!RequestCheck, Name!RequestReplace, Name!RequestClaim, Name!DriftBegin,
                Name!DriftReappeared, Name!AcceptCommit, Name!RestoreCommit, Name!SyncBegin, Name!SyncCommit,
                Name!ServerBan, Name!ServerUnban, Name!Begin, Name!CronLocal, Name!CronConfirm, Name!CronRow,
                Name!CronJobs, Name!CronList, Name!CronFails, Name!BanTake, Name!BanRepair
  <2>4. CASE Name!Decide \/ Name!Compensate \/ Name!Done \/ Name!BanWithdraw \/ \E op \in Name!Ops : Name!Take(op)
    BY <2>4 DEF Name!Decide, Name!Compensate, Name!Done, Name!BanWithdraw, Name!Take
  <2> QED BY <2>1, <2>2, <2>3, <2>4, <1>1 DEF Name!Next, Name!Work
<1> QED BY <1>1, NameInit, NameStep, PTL DEF Name!Spec, Name!NoForeignRemoval

\* whitelistSyncCron.ts: the sync deletes the row of a removal only when the
\* name has left Nitrado's list, whatever its old snapshots say.
THEOREM RowGoesAfterNameHolds == ASSUME Name!NameAssumption PROVE Name!Spec => Name!RowGoesAfterName
<1> DEFINE After == sync.pc = "row" /\ sync'.pc = "jobs" /\ entry # "NONE" /\ entry' = "NONE" => ~listed
    \/ used.edits > 0
<1>1. ASSUME NameInv, [Name!Next]_(Name!vars) PROVE [After]_(Name!vars)
  <2>1. CASE Name!CronRow
    BY <2>1, <1>1 DEF Name!CronRow, NameInv, Missed
  <2>2. CASE Name!CronLocal \/ Name!CronConfirm \/ Name!CronJobs \/ Name!CronList \/ Name!CronFails
        \/ Name!ExternalEdit
    BY <2>2, <1>1 DEF Name!CronLocal, Name!CronConfirm, Name!CronJobs, Name!CronList, Name!CronFails,
                      Name!ExternalEdit,
                      Name!NoSync, NameInv, Name!TypeOK
  <2>3. CASE Name!Command
    BY <2>3 DEF Name!Command, Name!AddBegin, Name!AddCommit, Name!ApproveCommit, Name!Deny, Name!Remove,
                Name!RequestBegin, Name!RequestCheck, Name!RequestReplace, Name!RequestClaim, Name!DriftBegin,
                Name!DriftReappeared, Name!AcceptCommit, Name!RestoreCommit, Name!SyncBegin, Name!SyncCommit,
                Name!ServerBan, Name!ServerUnban, Name!Begin
  <2>4. CASE Name!Work \/ Name!BanTake \/ Name!BanRepair \/ Name!WorkFails \/ \E op \in Name!Ops : Name!Take(op)
    BY <2>4 DEF Name!Work, Name!Decide, Name!WriteRemote, Name!Compensate, Name!Done, Name!BanWithdraw,
                Name!BanUnlist,
                Name!Take, Name!BanTake, Name!BanRepair, Name!WorkFails
  <2> QED BY <2>1, <2>2, <2>3, <2>4, <1>1 DEF Name!Next, Name!Cron
<1> QED BY <1>1, NameInit, NameStep, PTL DEF Name!Spec, Name!RowGoesAfterName

-----------------------------------------------------------------------------
(* LeaveCleanup: an instance, the member who leaves and comes back.        *)

CONSTANTS Workers, Scopes, States, AddJobs, Returns, MaxLeaves, MaxAdds, MaxConnects

VARIABLES cleanup, saga, name, executing, member, records, adding, covered, budget

Cleanup == INSTANCE LeaveCleanup WITH Rows <- States, req <- cleanup, work <- saga, wl <- name, exec <- executing,
              data <- records, add <- adding, spent <- budget

SagaSteps == {"WHITELIST", "STATS_SESSIONS", "LINK_ECONOMY", "GUILD_DATA", "COMPLETE"}
Requests == [id: Nat, status: {"NONE", "PENDING", "IN_PROGRESS", "FAILED", "COMPLETED"},
             scope: {"STANDARD", "FULL_PURGE_LEGACY"}, step: SagaSteps,
             stage: {"QUEUED", "RUNNING", "RETRY_WAIT", "COMPLETED", "DEAD"},
             attempts: 0..MaxAttempts, owner: Workers \union {"none"}, stale: BOOLEAN]
Running(r) == r.status = "IN_PROGRESS" <=> r.stage = "RUNNING"
Places == {"idle", "claim", "step", "jobs", "remote", "list", "mark", "fresh", "finish",
           "pseudonymize", "purge", "final", "profile", "advance", "defer", "error"}
Runs == [pc: Places, id: Nat, step: SagaSteps, attempts: 0..MaxAttempts,
         row: BOOLEAN, add: Cleanup!JobState, remove: Cleanup!JobState, remote: BOOLEAN]
Listed == [row: {"NONE", "LOCAL_ONLY", "SYNCED", "PENDING_REMOVE"}, approved: BOOLEAN,
           remote: BOOLEAN, add: Cleanup!JobState, remove: Cleanup!JobState]
Jobbed == [pc: {"idle", "decide", "write"}, op: {"add", "remove"}]
Members == [here: BOOLEAN, isLeft: BOOLEAN, fresh: BOOLEAN, leaving: {"no", "mark", "only", "confirm"}, joining: BOOLEAN]
Records == [link: BOOLEAN, session: {"OPEN", "CLOSED", "PSEUDO"}, ticket: BOOLEAN, level: BOOLEAN]
Budgets == [leaves: 0..MaxLeaves, adds: 0..MaxAdds, connects: 0..MaxConnects, faults: 0..MaxFaults]

LEMMA StepsAre == {Cleanup!Steps[i] : i \in 1..5} = SagaSteps
<1>1. /\ Cleanup!Steps[1] = "WHITELIST" /\ Cleanup!Steps[2] = "STATS_SESSIONS"
         /\ Cleanup!Steps[3] = "LINK_ECONOMY"
      /\ Cleanup!Steps[4] = "GUILD_DATA" /\ Cleanup!Steps[5] = "COMPLETE"
  BY DEF Cleanup!Steps
<1>2. 1..5 = {1, 2, 3, 4, 5}
  OBVIOUS
<1> QED BY <1>1, <1>2 DEF SagaSteps

LEMMA RankIs == ASSUME NEW s \in SagaSteps PROVE Cleanup!Rank(s) \in 1..5 /\ Cleanup!Steps[Cleanup!Rank(s)] = s
<1>1. \E i \in 1..5 : Cleanup!Steps[i] = s
  BY StepsAre
<1> QED BY <1>1 DEF Cleanup!Rank

\* The step after any but the last is one of the four others.
LEMMA NextIs ==
    ASSUME NEW s \in SagaSteps, NEW scope, s # "COMPLETE"
    PROVE  Cleanup!NextStep(s, scope) \in SagaSteps
<1>1. Cleanup!Rank(s) \in 1..4
  <2>1. Cleanup!Rank(s) \in 1..5 /\ Cleanup!Steps[Cleanup!Rank(s)] = s /\ Cleanup!Steps[5] = "COMPLETE"
    BY RankIs DEF Cleanup!Steps
  <2> QED BY <2>1
<1>2. \A i \in 1..5 : Cleanup!Steps[i] \in SagaSteps
  BY StepsAre
<1> QED BY <1>1, <1>2 DEF Cleanup!NextStep

CleanupTypes ==
    /\ cleanup \in Requests /\ Running(cleanup)
    /\ saga \in [Workers -> Runs]
    /\ name \in Listed
    /\ executing \in Jobbed
    /\ member \in Members
    /\ records \in Records
    /\ adding \in BOOLEAN /\ covered \in {"no", "yes", "failed"}
    /\ budget \in Budgets

LEMMA TypesAre == CleanupTypes <=> Cleanup!TypeOK
BY StepsAre DEF CleanupTypes, Cleanup!TypeOK, Requests, Running, Runs, Places, Listed, Jobbed, Members,
                Records, Budgets

\* A leave has its request when its handler is through, or could not ask for it.
Asked == /\ member.leaving = "no" => covered # "no"
         /\ member.leaving = "only" => covered # "no"

\* While nobody adds the name, nothing lists it: no ADD job, and no REMOVE that
\* a present row would turn into one.
Untouched == ~AddJobs /\ budget.adds = 0
NoAdd == Untouched => /\ ~adding /\ name.add = "NONE"
                      /\ executing.pc # "idle" => executing.op = "remove" /\ name.remove = "RUNNING"
                      /\ name.remove # "NONE" => name.row \notin {"LOCAL_ONLY", "SYNCED"}

\* Whoever is past the whitelist step, or has seen the name gone, was right:
\* who holds the claim makes no difference.
Past(w) == \/ saga[w].pc \in {"fresh", "finish", "pseudonymize", "purge", "final", "profile", "advance"}
           \/ saga[w].pc = "mark" /\ ~saga[w].remote
           \/ saga[w].pc = "claim" /\ saga[w].step # "WHITELIST"
Off == Untouched /\ name.remote =>
           /\ cleanup.step = "WHITELIST" /\ Cleanup!Known
           /\ \A w \in Workers : ~Past(w)

CleanupInv == CleanupTypes /\ Asked /\ NoAdd /\ Off

LEMMA IdleRun == ASSUME Cleanup!CleanupAssumption PROVE Cleanup!Idle \in Runs
BY DEF Cleanup!Idle, Cleanup!CleanupAssumption, Runs, Places, SagaSteps, Cleanup!JobState

LEMMA CleanupInit == ASSUME Cleanup!CleanupAssumption, Cleanup!Init PROVE CleanupInv
<1> PICK scope \in Scopes, row \in States, adds \in {FALSE, AddJobs}, approved \in BOOLEAN :
        /\ cleanup = [id |-> IF scope = "NONE" THEN 0 ELSE 1,
                      status |-> IF scope = "NONE" THEN "NONE" ELSE "PENDING",
                      scope |-> IF scope = "NONE" THEN "STANDARD" ELSE scope, step |-> "WHITELIST",
                      stage |-> "QUEUED", attempts |-> 0, owner |-> "none", stale |-> FALSE]
        /\ saga = [w \in Workers |-> Cleanup!Idle]
        /\ adds => row = "LOCAL_ONLY"
        /\ approved => row \in {"LOCAL_ONLY", "SYNCED"}
        /\ name = [row |-> row, approved |-> approved, remote |-> row # "LOCAL_ONLY",
                   add |-> IF adds THEN "PENDING" ELSE "NONE", remove |-> "NONE"]
        /\ executing = [pc |-> "idle", op |-> "add"]
        /\ member = [here |-> scope = "NONE", isLeft |-> scope # "NONE", fresh |-> FALSE,
                     leaving |-> "no", joining |-> FALSE]
        /\ records = [link |-> TRUE, session |-> "CLOSED", ticket |-> scope # "NONE", level |-> TRUE]
        /\ adding = FALSE
        /\ covered = "yes"
        /\ budget = [leaves |-> 0, adds |-> 0, connects |-> 0, faults |-> 0]
  BY Zenon DEF Cleanup!Init
<1>1. Cleanup!Idle \in Runs /\ Cleanup!Idle.pc = "idle"
  BY IdleRun DEF Cleanup!Idle
<1>2. saga \in [Workers -> Runs] /\ \A w \in Workers : ~Past(w)
  BY <1>1 DEF Past
<1>3. cleanup \in Requests /\ Running(cleanup) /\ cleanup.step = "WHITELIST"
  BY DEF Requests, Running, SagaSteps, Cleanup!CleanupAssumption
<1>4. executing \in Jobbed /\ executing.pc = "idle"
  BY DEF Jobbed
<1>5. name \in Listed /\ name.remove = "NONE" /\ (~AddJobs => name.add = "NONE")
  <2>1. row \in {"NONE", "LOCAL_ONLY", "SYNCED", "PENDING_REMOVE"} /\ (row # "LOCAL_ONLY") \in BOOLEAN
    BY DEF Cleanup!CleanupAssumption
  <2>2. (IF adds THEN "PENDING" ELSE "NONE") \in Cleanup!JobState /\ "NONE" \in Cleanup!JobState
    BY DEF Cleanup!JobState
  <2>3. name \in Listed
    BY <2>1, <2>2 DEF Listed
  <2>4. name.remove = "NONE" /\ name.add = IF adds THEN "PENDING" ELSE "NONE"
    OBVIOUS
  <2>5. ~AddJobs => ~adds
    OBVIOUS
  <2> QED BY <2>3, <2>4, <2>5
<1>6. member \in Members /\ records \in Records /\ records.link /\ records.session # "PSEUDO"
  BY DEF Members, Records
<1>7. budget \in Budgets
  BY DEF Budgets, Cleanup!CleanupAssumption
<1>8. CleanupTypes
  BY <1>2, <1>3, <1>4, <1>5, <1>6, <1>7 DEF CleanupTypes
<1>9. Asked /\ NoAdd
  BY <1>4, <1>5 DEF Asked, NoAdd, Untouched
<1>10. Off
  BY <1>2, <1>3, <1>6 DEF Off, Cleanup!Known
<1> QED BY <1>8, <1>9, <1>10 DEF CleanupInv

-----------------------------------------------------------------------------
(* What the actions have in common                                         *)

LEMMA Spending ==
    ASSUME CleanupTypes, Cleanup!CleanupAssumption, NEW f \in {"leaves", "adds", "connects", "faults"}, NEW m,
           <<f, m>> \in {<<"leaves", MaxLeaves>>, <<"adds", MaxAdds>>, <<"connects", MaxConnects>>,
           <<"faults", MaxFaults>>},
           Cleanup!Spend(f, m)
    PROVE  budget' \in Budgets /\ (budget'.adds = 0 => budget.adds = 0 /\ f # "adds")
BY DEF CleanupTypes, Cleanup!CleanupAssumption, Cleanup!Spend, Budgets

LEMMA Requested ==
    ASSUME CleanupTypes, Cleanup!CleanupAssumption
    PROVE  /\ Cleanup!Enqueued \in Requests /\ Running(Cleanup!Enqueued)
           /\ Cleanup!Enqueued.step \in {cleanup.step, "WHITELIST"}
<1>1. Cleanup!Enqueued = cleanup \/ Cleanup!Enqueued =
        [id |-> cleanup.id + 1, status |-> "PENDING", scope |-> "STANDARD", step |-> "WHITELIST",
         stage |-> "QUEUED", attempts |-> 0, owner |-> "none", stale |-> FALSE]
  BY DEF Cleanup!Enqueued
<1>2. cleanup.id + 1 \in Nat
  BY DEF CleanupTypes, Requests
<1>3. CASE Cleanup!Enqueued = cleanup
  BY <1>3 DEF CleanupTypes
<1>4. CASE Cleanup!Enqueued # cleanup
  <2>1. \A n \in Nat : [id |-> n, status |-> "PENDING", scope |-> "STANDARD", step |-> "WHITELIST",
        stage |-> "QUEUED",
                     attempts |-> 0, owner |-> "none", stale |-> FALSE] \in Requests
    BY DEF Requests, SagaSteps, Cleanup!CleanupAssumption
  <2>2. Cleanup!Enqueued \in Requests
    BY <1>1, <1>2, <1>4, <2>1
  <2> QED BY <1>1, <1>4, <2>2 DEF Running
<1> QED BY <1>3, <1>4

\* A step that leaves the saga and the request alone.
LEMMA OutsideOff ==
    ASSUME Off, UNCHANGED saga, cleanup'.step \in {cleanup.step, "WHITELIST"}, Cleanup!Known => Cleanup!Known',
           budget'.adds = 0 => budget.adds = 0, Untouched' /\ name'.remote => name.remote
    PROVE  Off'
BY DEF Off, Untouched, Past

\* A step of one worker of the saga.
LEMMA SagaOff ==
    ASSUME Off, NEW w \in Workers, \A v \in Workers \ {w} : saga'[v] = saga[v],
           UNCHANGED <<budget, executing>>, name'.remote = name.remote,
           Untouched /\ name.remote /\ cleanup.step = "WHITELIST" /\ Cleanup!Known /\ ~Past(w) =>
               cleanup'.step = "WHITELIST" /\ Cleanup!Known' /\ ~Past(w)'
    PROVE  Off'
<1>1. \A v \in Workers \ {w} : Past(v)' <=> Past(v)
  BY DEF Past
<1> QED BY <1>1 DEF Off, Untouched

\* A fenced write: what the claim allows, or the end of the run.
LEMMA FencedDoes ==
    ASSUME CleanupTypes, Cleanup!CleanupAssumption, NEW w \in Workers, NEW pc \in Places, NEW r \in Requests,
    Running(r), Cleanup!Fenced(w, pc, r)
    PROVE  /\ saga' \in [Workers -> Runs] /\ cleanup' \in Requests /\ Running(cleanup')
           /\ \A v \in Workers \ {w} : saga'[v] = saga[v]
           /\ \/ cleanup' = r /\ pc # "idle" /\ saga'[w] = [saga[w] EXCEPT !.pc = pc]
              \/ cleanup' \in {r, cleanup} /\ saga'[w] = Cleanup!Idle
<1>1. Cleanup!Idle \in Runs
  BY IdleRun
<1>2. saga[w] \in Runs /\ [saga[w] EXCEPT !.pc = pc] \in Runs
  BY DEF CleanupTypes, Runs
<1>3. CASE cleanup' = r /\ saga' = [saga EXCEPT ![w] = IF pc = "idle" THEN Cleanup!Idle ELSE [@ EXCEPT !.pc = pc]]
  BY <1>1, <1>2, <1>3 DEF CleanupTypes
<1>4. CASE saga' = [saga EXCEPT ![w] = Cleanup!Idle] /\ cleanup' = cleanup
  BY <1>1, <1>4 DEF CleanupTypes
<1> QED BY <1>3, <1>4 DEF Cleanup!Fenced, Cleanup!Stop

\* A worker that goes on, or gives up.
LEMMA GoesOn ==
    ASSUME CleanupTypes, NEW w \in Workers, NEW run \in Runs, saga' = [saga EXCEPT ![w] = run]
    PROVE  saga' \in [Workers -> Runs] /\ saga'[w] = run /\ \A v \in Workers \ {w} : saga'[v] = saga[v]
BY DEF CleanupTypes

LEMMA RunAt == ASSUME CleanupTypes, NEW w \in Workers, NEW pc \in Places PROVE [saga[w] EXCEPT !.pc = pc] \in Runs
BY DEF CleanupTypes, Runs

-----------------------------------------------------------------------------
(* The member, the game server, the whitelist and its jobs                 *)

LEMMA GuildKept ==
    ASSUME Cleanup!CleanupAssumption, CleanupInv,
           \/ Cleanup!Leave \/ Cleanup!MarkMemberLeft \/ Cleanup!ConfirmLeave
           \/ Cleanup!Rejoin \/ Cleanup!RejoinLevel
    PROVE  CleanupInv'
<1> USE Requested DEF CleanupInv
<1>1. CASE Cleanup!Leave
  <2>1. budget' \in Budgets /\ (budget'.adds = 0 => budget.adds = 0)
    <3>1. /\ budget.leaves < MaxLeaves
          /\ \/ budget' = [budget EXCEPT !.leaves = budget.leaves + 1]
             \/ /\ budget.faults < MaxFaults
                /\ budget' = [budget EXCEPT !.leaves = budget.leaves + 1, !.faults = budget.faults + 1]
      BY <1>1, Zenon DEF Cleanup!Leave
    <3>2. budget \in Budgets
      BY DEF CleanupTypes
    <3>3. CASE budget' = [budget EXCEPT !.leaves = budget.leaves + 1]
      BY <3>1, <3>2, <3>3 DEF Cleanup!CleanupAssumption, Budgets
    <3>4. CASE /\ budget.faults < MaxFaults
               /\ budget' = [budget EXCEPT !.leaves = budget.leaves + 1, !.faults = budget.faults + 1]
      <4>1. budget.leaves + 1 \in 0..MaxLeaves /\ budget.faults + 1 \in 0..MaxFaults
        BY <3>1, <3>2, <3>4 DEF Cleanup!CleanupAssumption, Budgets
      <4> QED BY <3>2, <3>4, <4>1 DEF Budgets
    <3> QED BY <3>1, <3>3, <3>4
  <2>2. /\ cleanup' \in {cleanup, Cleanup!Enqueued} /\ UNCHANGED <<saga, name, executing, records, adding>>
        /\ covered' \in {"no", "yes", "failed"}
    BY <1>1 DEF Cleanup!Leave
  <2>3. /\ member' \in Members /\ member'.leaving \in {"mark", "only"}
        /\ member'.leaving = "only" => covered' = "failed"
    <3>1. \E fresh \in BOOLEAN, at \in {"mark", "only"} :
             /\ member' = [member EXCEPT !.here = FALSE, !.leaving = at, !.fresh = fresh]
             /\ at = "only" => covered' = "failed"
      <4>1. member \in Members /\ member.fresh \in BOOLEAN /\ (member.fresh /\ Cleanup!Open) \in BOOLEAN
        BY DEF CleanupTypes, Members
      <4>2. \A x \in {"mark", "only"} : [member EXCEPT !.here = FALSE, !.leaving = x]
                      = [member EXCEPT !.here = FALSE, !.leaving = x, !.fresh = member.fresh]
        BY <4>1 DEF Members
      <4>3. CASE member' = [member EXCEPT !.here = FALSE, !.leaving = "mark", !.fresh = @ /\ Cleanup!Open]
        BY <4>1, <4>3
      <4>4. CASE member' = [member EXCEPT !.here = FALSE, !.leaving = "mark"]
        BY <4>1, <4>2, <4>4
      <4>5. CASE covered' = "failed" /\ member' = [member EXCEPT !.here = FALSE, !.leaving = "only"]
        BY <4>1, <4>2, <4>5
      <4> QED BY <1>1, <4>3, <4>4, <4>5 DEF Cleanup!Leave
    <3> QED BY <3>1 DEF CleanupTypes, Members
  <2>4. cleanup' \in Requests /\ Running(cleanup') /\ cleanup'.step \in {cleanup.step, "WHITELIST"}
    BY <2>2 DEF CleanupTypes
  <2>5. CleanupTypes'
    BY <2>1, <2>2, <2>3, <2>4 DEF CleanupTypes, Running
  <2>6. Off'
    BY <2>1, <2>2, <2>4, OutsideOff DEF Cleanup!Known, Untouched
  <2> QED BY <2>1, <2>2, <2>3, <2>5, <2>6 DEF Asked, NoAdd, Untouched
<1>2. CASE Cleanup!MarkMemberLeft
  <2>1. UNCHANGED <<cleanup, saga, name, executing, records, adding>>
        /\ covered' \in {covered, "yes"}
    BY <1>2 DEF Cleanup!MarkMemberLeft
  <2>2. /\ member' \in Members /\ member'.leaving \in {"no", "confirm"}
        /\ member'.leaving = "no" => member.leaving = "only"
    BY <1>2 DEF Cleanup!MarkMemberLeft, CleanupTypes, Members
  <2>3. budget' \in Budgets /\ (budget'.adds = 0 => budget.adds = 0)
    BY <1>2 DEF Cleanup!MarkMemberLeft, CleanupTypes, Cleanup!CleanupAssumption, Cleanup!Spend, Budgets
  <2>4. CleanupTypes'
    BY <2>1, <2>2, <2>3 DEF CleanupTypes, Running
  <2>5. Off'
    BY <2>1, <2>3, OutsideOff DEF Cleanup!Known, Untouched
  <2> QED BY <2>1, <2>2, <2>3, <2>4, <2>5 DEF Asked, NoAdd, Untouched
<1>3. CASE Cleanup!ConfirmLeave
  <2>1. /\ cleanup' \in {cleanup, Cleanup!Enqueued} /\ UNCHANGED <<saga, name, executing, records, adding>>
        /\ covered' \in {"yes", "failed"}
    <3>1. Cleanup!Enqueued.status \in {"PENDING", "IN_PROGRESS", "FAILED"}
      BY DEF Cleanup!Enqueued, Cleanup!Open
    <3>2. cleanup' = Cleanup!Enqueued => Cleanup!Open'
      BY <3>1 DEF Cleanup!Open
    <3> QED BY <1>3, <3>2 DEF Cleanup!ConfirmLeave, CleanupTypes
  <2>2. member' \in Members /\ member'.leaving = "no"
    BY <1>3 DEF Cleanup!ConfirmLeave, CleanupTypes, Members, Cleanup!Open
  <2>3. budget' \in Budgets /\ (budget'.adds = 0 => budget.adds = 0)
    BY <1>3 DEF Cleanup!ConfirmLeave, CleanupTypes, Cleanup!CleanupAssumption, Cleanup!Spend, Budgets
  <2>4. cleanup' \in Requests /\ Running(cleanup') /\ cleanup'.step \in {cleanup.step, "WHITELIST"}
    BY <2>1 DEF CleanupTypes
  <2>5. CleanupTypes'
    BY <2>1, <2>2, <2>3, <2>4 DEF CleanupTypes, Running
  <2>6. Off'
    BY <2>1, <2>3, <2>4, OutsideOff DEF Cleanup!Known, Untouched
  <2> QED BY <2>1, <2>2, <2>3, <2>5, <2>6 DEF Asked, NoAdd, Untouched
<1>4. CASE Cleanup!Rejoin \/ Cleanup!RejoinLevel
  <2>1. UNCHANGED <<cleanup, saga, name, executing, adding, covered, budget>>
    BY <1>4 DEF Cleanup!Rejoin, Cleanup!RejoinLevel
  <2>2. member' \in Members /\ member'.leaving = member.leaving
    BY <1>4 DEF Cleanup!Rejoin, Cleanup!RejoinLevel, CleanupTypes, Members
  <2>3. records' \in Records /\ records'.link = records.link /\ records'.session = records.session
    BY <1>4 DEF Cleanup!Rejoin, Cleanup!RejoinLevel, CleanupTypes, Records, Cleanup!Open
  <2>4. CleanupTypes'
    BY <2>1, <2>2, <2>3 DEF CleanupTypes, Running
  <2>5. Off'
    BY <2>1, <2>3, OutsideOff DEF Cleanup!Known, Untouched
  <2> QED BY <2>1, <2>2, <2>4, <2>5 DEF Asked, NoAdd, Untouched
<1> QED BY <1>1, <1>2, <1>3, <1>4

LEMMA GameKept ==
    ASSUME Cleanup!CleanupAssumption, CleanupInv,
           \/ Cleanup!Connect \/ Cleanup!Disconnect \/ Cleanup!DrawLottery
           \/ Cleanup!AddGuard \/ Cleanup!AddCommit
    PROVE  CleanupInv'
<1> USE DEF CleanupInv
<1>1. CASE Cleanup!Connect \/ Cleanup!Disconnect \/ Cleanup!DrawLottery
  <2>1. UNCHANGED <<cleanup, saga, name, executing, member, adding, covered>>
    BY <1>1 DEF Cleanup!Connect, Cleanup!Disconnect, Cleanup!DrawLottery
  <2>2. /\ records' \in Records /\ records'.link = records.link
        /\ records'.session = "PSEUDO" => records.session = "PSEUDO"
    BY <1>1 DEF Cleanup!Connect, Cleanup!Disconnect, Cleanup!DrawLottery, CleanupTypes, Records
  <2>3. budget' \in Budgets /\ (budget'.adds = 0 => budget.adds = 0)
    <3>1. CASE Cleanup!Connect
      BY <3>1, Spending DEF Cleanup!Connect
    <3>2. CASE Cleanup!Disconnect \/ Cleanup!DrawLottery
      BY <3>2 DEF Cleanup!Disconnect, Cleanup!DrawLottery, CleanupTypes
    <3> QED BY <1>1, <3>1, <3>2
  <2>4. CleanupTypes'
    BY <2>1, <2>2, <2>3 DEF CleanupTypes, Running
  <2>5. Off'
    BY <2>1, <2>2, <2>3, OutsideOff DEF Cleanup!Known, Untouched
  <2> QED BY <2>1, <2>3, <2>4, <2>5 DEF Asked, NoAdd, Untouched
<1>2. CASE Cleanup!AddGuard
  <2>1. UNCHANGED <<cleanup, saga, name, executing, member, records, covered>> /\ adding' = TRUE
    BY <1>2 DEF Cleanup!AddGuard
  <2>2. budget' \in Budgets /\ budget'.adds # 0
    BY <1>2, Spending DEF Cleanup!AddGuard
  <2>3. CleanupTypes'
    BY <2>1, <2>2 DEF CleanupTypes, Running
  <2> QED BY <2>1, <2>2, <2>3 DEF Asked, NoAdd, Off, Untouched
<1>3. CASE Cleanup!AddCommit
  <2>1. UNCHANGED <<cleanup, saga, executing, member, records, covered, budget>> /\ adding /\ adding' = FALSE
    BY <1>3 DEF Cleanup!AddCommit
  <2>2. name' \in Listed
    BY <1>3 DEF Cleanup!AddCommit, CleanupTypes, Listed, Cleanup!JobState
  <2>3. CleanupTypes'
    BY <2>1, <2>2 DEF CleanupTypes, Running
  <2> QED BY <2>1, <2>3 DEF Asked, NoAdd, Off, Untouched
<1> QED BY <1>1, <1>2, <1>3

LEMMA JobsKept ==
    ASSUME Cleanup!CleanupAssumption, CleanupInv,
           \/ \E op \in {"add", "remove"} : Cleanup!TakeJob(op)
           \/ Cleanup!Decide \/ Cleanup!WriteRemote \/ Cleanup!JobDies
    PROVE  CleanupInv'
<1> USE DEF CleanupInv
<1>1. UNCHANGED <<cleanup, saga, member, records, adding, covered>>
  BY DEF Cleanup!TakeJob, Cleanup!Decide, Cleanup!WriteRemote, Cleanup!JobDies
<1>2. budget' \in Budgets /\ (budget'.adds = 0 => budget.adds = 0)
  <2>1. CASE Cleanup!JobDies
    BY <2>1, Spending DEF Cleanup!JobDies
  <2>2. CASE ~Cleanup!JobDies
    BY <2>2 DEF Cleanup!TakeJob, Cleanup!Decide, Cleanup!WriteRemote, CleanupTypes
  <2> QED BY <2>1, <2>2
<1>3. executing' \in Jobbed /\ name' \in Listed
  <2>1. CASE \E op \in {"add", "remove"} : Cleanup!TakeJob(op)
    BY <2>1 DEF Cleanup!TakeJob, CleanupTypes, Jobbed, Listed, Cleanup!JobState
  <2>2. CASE Cleanup!Decide
    <3>1. executing' \in Jobbed
      BY <2>2 DEF Cleanup!Decide, CleanupTypes, Jobbed
    <3>2. name' \in Listed
      BY <2>2 DEF Cleanup!Decide, CleanupTypes, Listed, Cleanup!JobState
    <3> QED BY <3>1, <3>2
  <2>3. CASE Cleanup!WriteRemote
    BY <2>3 DEF Cleanup!WriteRemote, CleanupTypes, Jobbed, Listed, Cleanup!JobState
  <2>4. CASE Cleanup!JobDies
    BY <2>4 DEF Cleanup!JobDies, CleanupTypes, Jobbed, Listed, Cleanup!JobState
  <2> QED BY <2>1, <2>2, <2>3, <2>4
<1>4. NoAdd' /\ (Untouched' /\ name'.remote => name.remote)
  <2>1. CASE \E op \in {"add", "remove"} : Cleanup!TakeJob(op)
    BY <1>1, <2>1 DEF Cleanup!TakeJob, Cleanup!LockFree, NoAdd, Untouched, CleanupTypes, Jobbed, Listed
  <2>2. CASE Cleanup!Decide
    <3>1. SUFFICES ASSUME Untouched' PROVE NoAdd' /\ (name'.remote => name.remote)
      BY DEF NoAdd
    <3>2. /\ Untouched /\ ~adding /\ name.add = "NONE" /\ executing.op = "remove" /\ name.remove = "RUNNING"
          /\ name.row \in {"NONE", "PENDING_REMOVE"}
      BY <3>1, <2>2 DEF Cleanup!Decide, NoAdd, Untouched, CleanupTypes, Listed
    <3>3. \/ executing' = [executing EXCEPT !.pc = "write"] /\ name' = name
          \/ executing' = [executing EXCEPT !.pc = "idle"] /\ name' = [name EXCEPT !.remove = "NONE"]
      BY <3>2, <2>2 DEF Cleanup!Decide, Cleanup!Current, Cleanup!MayRemove
    <3> QED BY <3>2, <3>3, <1>1 DEF NoAdd, CleanupTypes, Jobbed, Listed
  <2>3. CASE Cleanup!WriteRemote
    <3>1. SUFFICES ASSUME Untouched' PROVE NoAdd' /\ (name'.remote => name.remote)
      BY DEF NoAdd
    <3>2. /\ Untouched /\ ~adding /\ name.add = "NONE" /\ executing.op = "remove" /\ name.remove = "RUNNING"
          /\ name.row \in {"NONE", "PENDING_REMOVE"}
      BY <3>1, <2>3 DEF Cleanup!WriteRemote, NoAdd, Untouched, CleanupTypes, Listed
    <3>3. executing' = [executing EXCEPT !.pc = "idle"]
      BY <2>3 DEF Cleanup!WriteRemote
    <3>4. name'.remove = "NONE" /\ name'.remote = FALSE /\ name'.add = name.add
      BY <3>2, <2>3 DEF Cleanup!WriteRemote, CleanupTypes, Listed
    <3> QED BY <3>2, <3>3, <3>4, <1>1 DEF NoAdd, CleanupTypes, Jobbed
  <2>4. CASE Cleanup!JobDies
    BY <1>1, <1>2, <2>4 DEF Cleanup!JobDies, NoAdd, Untouched, CleanupTypes, Jobbed, Listed
  <2> QED BY <2>1, <2>2, <2>3, <2>4
<1>5. CleanupTypes'
  BY <1>1, <1>2, <1>3 DEF CleanupTypes, Running
<1>6. Off'
  BY <1>1, <1>2, <1>4, OutsideOff DEF Cleanup!Known
<1> QED BY <1>1, <1>4, <1>5, <1>6 DEF Asked

-----------------------------------------------------------------------------
(* The saga                                                                *)

\* What a claim may write to its request: types, and the step it stays at.
LEMMA RequestWrites ==
    ASSUME CleanupTypes
    PROVE  /\ Cleanup!Released(cleanup) \in Requests /\ Running(Cleanup!Released(cleanup))
           /\ Cleanup!Released(cleanup).step = cleanup.step
           /\ [cleanup EXCEPT !.stale = FALSE] \in Requests /\ Running([cleanup EXCEPT !.stale = FALSE])
BY DEF CleanupTypes, Requests, Running, Cleanup!Released

\* The claim, the lease and what ends them.
LEMMA ClaimKept ==
    ASSUME Cleanup!CleanupAssumption, CleanupInv, NEW w \in Workers,
           \/ Cleanup!Candidate(w) \/ Cleanup!Claim(w) \/ Cleanup!Recover(w)
           \/ Cleanup!Defer(w) \/ Cleanup!Retry(w) \/ Cleanup!Advance(w)
    PROVE  CleanupInv'
<1> USE IdleRun DEF CleanupInv
<1>0. UNCHANGED <<name, executing, member, records, adding, covered, budget>>
  BY DEF Cleanup!Candidate, Cleanup!Claim, Cleanup!Recover, Cleanup!Defer, Cleanup!Retry, Cleanup!Advance
<1>1. SUFFICES /\ saga' \in [Workers -> Runs] /\ cleanup' \in Requests /\ Running(cleanup')
               /\ \A v \in Workers \ {w} : saga'[v] = saga[v]
               /\ Untouched /\ name.remote /\ cleanup.step = "WHITELIST" /\ ~Past(w) =>
                      cleanup'.step = "WHITELIST" /\ ~Past(w)'
  <2>1. CleanupTypes'
    BY <1>0, <1>1 DEF CleanupTypes, Running
  <2>2. Off'
    BY <1>0, <1>1, SagaOff DEF Cleanup!Known
  <2> QED BY <1>0, <2>1, <2>2 DEF Asked, NoAdd, Untouched
<1>2. CASE Cleanup!Candidate(w)
  <2>1. [Cleanup!Idle EXCEPT !.pc = "claim", !.id = cleanup.id, !.step = cleanup.step,
                             !.attempts = cleanup.attempts] \in Runs
    BY DEF CleanupTypes, Requests, Runs, Places
  <2>2. /\ saga' = [saga EXCEPT ![w] = [Cleanup!Idle EXCEPT !.pc = "claim", !.id = cleanup.id,
           !.step = cleanup.step,
                                                            !.attempts = cleanup.attempts]]
        /\ cleanup' = cleanup
    BY <1>2 DEF Cleanup!Candidate
  <2>3. /\ saga' \in [Workers -> Runs] /\ \A v \in Workers \ {w} : saga'[v] = saga[v]
        /\ saga'[w].pc = "claim" /\ saga'[w].step = cleanup.step
    BY <2>1, <2>2, GoesOn DEF Cleanup!Idle
  <2> QED BY <2>2, <2>3 DEF CleanupTypes, Past
<1>3. CASE Cleanup!Claim(w)
  <2>1. CASE cleanup.status = "PENDING" /\ cleanup.id = saga[w].id
    <3>1. saga[w] \in Runs /\ saga[w].pc = "claim"
      BY <1>3 DEF CleanupTypes, Cleanup!Claim, Cleanup!At
    <3>2. cleanup' = [cleanup EXCEPT !.status = "IN_PROGRESS", !.stage = "RUNNING", !.owner = w, !.stale = FALSE,
                                     !.step = saga[w].step, !.attempts = saga[w].attempts]
      BY <1>3, <2>1 DEF Cleanup!Claim
    <3>3. cleanup' \in Requests /\ Running(cleanup') /\ cleanup'.step = saga[w].step
      BY <3>1, <3>2 DEF CleanupTypes, Requests, Runs, Running
    <3>4. saga' = [saga EXCEPT ![w] = [saga[w] EXCEPT !.pc = "step"]]
      BY <1>3, <2>1 DEF Cleanup!Claim, Cleanup!Goto
    <3>5. [saga[w] EXCEPT !.pc = "step"] \in Runs /\ [saga[w] EXCEPT !.pc = "step"].pc = "step"
      BY <3>1 DEF Places, Runs
    <3>6. saga' \in [Workers -> Runs] /\ saga'[w].pc = "step" /\ \A v \in Workers \ {w} : saga'[v] = saga[v]
      BY <3>4, <3>5, GoesOn
    <3> QED BY <3>1, <3>3, <3>6 DEF Past
  <2>2. CASE ~(cleanup.status = "PENDING" /\ cleanup.id = saga[w].id)
    <3>1. saga' = [saga EXCEPT ![w] = Cleanup!Idle] /\ cleanup' = cleanup
      BY <1>3, <2>2 DEF Cleanup!Claim, Cleanup!Stop
    <3>2. saga' \in [Workers -> Runs] /\ saga'[w].pc = "idle" /\ \A v \in Workers \ {w} : saga'[v] = saga[v]
      BY <3>1, GoesOn DEF Cleanup!Idle
    <3> QED BY <3>1, <3>2 DEF CleanupTypes, Past
  <2> QED BY <2>1, <2>2
<1>4. CASE Cleanup!Recover(w)
  <2>1. UNCHANGED saga /\ cleanup' \in Requests /\ Running(cleanup') /\ cleanup'.step = cleanup.step
    BY <1>4 DEF Cleanup!Recover, CleanupTypes, Requests, Running
  <2> QED BY <2>1 DEF CleanupTypes, Past
<1>5. CASE Cleanup!Defer(w)
  <2>1. Cleanup!Fenced(w, "idle", Cleanup!Released(cleanup)) /\ "idle" \in Places
    BY <1>5 DEF Cleanup!Defer, Places
  <2>2. /\ saga' \in [Workers -> Runs] /\ cleanup' \in Requests /\ Running(cleanup')
        /\ \A v \in Workers \ {w} : saga'[v] = saga[v]
        /\ cleanup'.step = cleanup.step /\ saga'[w] = Cleanup!Idle
    BY <2>1, FencedDoes, RequestWrites
  <2> QED BY <2>2 DEF Past, Cleanup!Idle
<1>6. CASE Cleanup!Retry(w)
  <2> DEFINE tried == IF cleanup.attempts + 1 >= MaxAttempts
                      THEN [Cleanup!Released(cleanup) EXCEPT !.attempts = MaxAttempts, !.status = "FAILED",
                      !.stage = "DEAD"]
                      ELSE [Cleanup!Released(cleanup) EXCEPT !.attempts = @ + 1]
  <2>1. Cleanup!Fenced(w, "idle", tried) /\ "idle" \in Places
    BY <1>6 DEF Cleanup!Retry, Places
  <2>2. tried \in Requests /\ Running(tried) /\ tried.step = cleanup.step
    <3>1. cleanup \in Requests /\ cleanup.attempts \in 0..MaxAttempts /\ MaxAttempts \in Nat
      BY DEF CleanupTypes, Requests, Cleanup!CleanupAssumption
    <3>2. CASE cleanup.attempts + 1 >= MaxAttempts
      <4>1. tried = [cleanup EXCEPT !.attempts = MaxAttempts, !.status = "FAILED", !.stage = "DEAD",
                                    !.owner = "none", !.stale = FALSE]
        BY <3>1, <3>2 DEF Requests, Cleanup!Released
      <4>2. MaxAttempts \in 0..MaxAttempts
        BY <3>1
      <4> QED BY <3>1, <4>1, <4>2 DEF Requests, Running
    <3>3. CASE ~(cleanup.attempts + 1 >= MaxAttempts)
      <4>1. cleanup.attempts + 1 \in 0..MaxAttempts
        BY <3>1, <3>3
      <4>2. tried = [Cleanup!Released(cleanup) EXCEPT !.attempts = cleanup.attempts + 1]
        BY <3>1, <3>3 DEF Requests, Cleanup!Released
      <4> QED BY <3>1, <4>1, <4>2 DEF Requests, Running, Cleanup!Released
    <3> QED BY <3>2, <3>3
  <2> HIDE DEF tried
  <2>3. /\ saga' \in [Workers -> Runs] /\ cleanup' \in Requests /\ Running(cleanup')
        /\ \A v \in Workers \ {w} : saga'[v] = saga[v]
        /\ cleanup'.step = cleanup.step /\ saga'[w] = Cleanup!Idle
    BY <2>1, <2>2, FencedDoes
  <2> QED BY <2>3 DEF Past, Cleanup!Idle
<1>7. CASE Cleanup!Advance(w)
  <2>0. Past(w)
    BY <1>7 DEF Cleanup!Advance, Cleanup!At, Past
  <2>1. CASE cleanup.step = "COMPLETE"
    <3> DEFINE over == [cleanup EXCEPT !.status = "COMPLETED", !.stage = "COMPLETED", !.owner = "none",
        !.stale = FALSE]
    <3>1. Cleanup!Fenced(w, "idle", over) /\ "idle" \in Places
      BY <1>7, <2>1 DEF Cleanup!Advance, Places
    <3>2. over \in Requests /\ Running(over)
      BY DEF CleanupTypes, Requests, Running
    <3> HIDE DEF over
    <3> QED BY <2>0, <3>1, <3>2, FencedDoes
  <2>2. CASE cleanup.step # "COMPLETE"
    <3> DEFINE next == [cleanup EXCEPT !.step = Cleanup!NextStep(cleanup.step, cleanup.scope), !.stale = FALSE]
    <3>1. Cleanup!Fenced(w, "step", next) /\ "step" \in Places
      BY <1>7, <2>2 DEF Cleanup!Advance, Places
    <3>2. next \in Requests /\ Running(next)
      BY <2>2, NextIs DEF CleanupTypes, Requests, Running
    <3> HIDE DEF next
    <3> QED BY <2>0, <3>1, <3>2, FencedDoes
  <2> QED BY <2>1, <2>2
<1> QED BY <1>2, <1>3, <1>4, <1>5, <1>6, <1>7

\* The lease runs out, the process dies, or a statement fails.
LEMMA FaultKept ==
    ASSUME Cleanup!CleanupAssumption, CleanupInv,
           Cleanup!AgeLease \/ \E w \in Workers : Cleanup!WorkFails(w)
    PROVE  CleanupInv'
<1> USE IdleRun DEF CleanupInv
<1>0. UNCHANGED <<name, executing, member, records, adding, covered>>
  BY DEF Cleanup!AgeLease, Cleanup!WorkFails
<1>1. budget' \in Budgets /\ (budget'.adds = 0 => budget.adds = 0)
  <2>1. CASE Cleanup!Spend("faults", MaxFaults)
    BY <2>1, Spending
  <2>2. CASE UNCHANGED budget
    BY <2>2 DEF CleanupTypes
  <2> QED BY <2>1, <2>2 DEF Cleanup!AgeLease, Cleanup!WorkFails
<1>2. CASE Cleanup!AgeLease
  <2>1. UNCHANGED saga /\ cleanup' \in Requests /\ Running(cleanup') /\ cleanup'.step = cleanup.step
    BY <1>2 DEF Cleanup!AgeLease, CleanupTypes, Requests, Running
  <2>2. CleanupTypes'
    BY <1>0, <1>1, <2>1 DEF CleanupTypes, Running
  <2>3. Off'
    BY <1>0, <1>1, <2>1, OutsideOff DEF Cleanup!Known, Untouched
  <2> QED BY <1>0, <1>1, <2>2, <2>3 DEF Asked, NoAdd, Untouched
<1>3. ASSUME NEW w \in Workers, Cleanup!WorkFails(w) PROVE CleanupInv'
  <2>1. cleanup' = cleanup /\ \E run \in {Cleanup!Idle,
        [saga[w] EXCEPT !.pc = "error"]} : saga' = [saga EXCEPT ![w] = run]
    BY <1>3 DEF Cleanup!WorkFails, Cleanup!Goto, Cleanup!Stop
  <2>2. /\ [saga[w] EXCEPT !.pc = "error"] \in Runs /\ [saga[w] EXCEPT !.pc = "error"].pc = "error"
        /\ Cleanup!Idle.pc = "idle"
    BY DEF CleanupTypes, Runs, Places, Cleanup!Idle
  <2>3. /\ saga' \in [Workers -> Runs] /\ saga'[w].pc \in {"idle", "error"}
        /\ \A v \in Workers \ {w} : saga'[v] = saga[v]
    BY <2>1, <2>2, GoesOn
  <2>4. CleanupTypes'
    BY <1>0, <1>1, <2>1, <2>3 DEF CleanupTypes, Running
  <2>5. \A v \in Workers : Past(v)' => Past(v)
    BY <2>3 DEF Past
  <2>6. Off'
    BY <1>0, <1>1, <2>1, <2>5 DEF Off, Untouched, Cleanup!Known
  <2> QED BY <1>0, <1>1, <2>4, <2>6 DEF Asked, NoAdd, Untouched
<1> QED BY <1>2, <1>3

\* The lease is renewed, and the step of the request begins.
LEMMA BeginsKept == ASSUME Cleanup!CleanupAssumption, CleanupInv, NEW w \in Workers,
Cleanup!Begin(w) PROVE CleanupInv'
<1> USE IdleRun DEF CleanupInv
<1> DEFINE Renewed == [cleanup EXCEPT !.stale = FALSE]
<1>0. UNCHANGED <<name, executing, member, records, adding, covered, budget>>
  BY DEF Cleanup!Begin
<1>1. PICK pc \in Places \ {"idle"} :
         Cleanup!Fenced(w, pc, Renewed) /\ (pc \in {"jobs", "defer"} \/ cleanup.step # "WHITELIST")
  <2> DEFINE place == CASE cleanup.step = "WHITELIST"      -> "jobs"
                        [] cleanup.step = "STATS_SESSIONS" -> IF records.session = "OPEN" /\ records.link
                        THEN "defer"
                                                              ELSE IF records.session = "CLOSED" /\ records.link
                                                                   THEN "pseudonymize"
                                                              ELSE "advance"
                        [] cleanup.step = "LINK_ECONOMY"   -> IF cleanup.scope = "STANDARD" THEN "advance"
                                                              ELSE IF records.ticket THEN "defer" ELSE "purge"
                        [] cleanup.step = "GUILD_DATA"     -> IF cleanup.scope = "STANDARD" THEN "advance"
                        ELSE "purge"
                        [] OTHER                           -> IF cleanup.scope = "STANDARD" THEN "advance"
                        ELSE "final"
  <2>1. Cleanup!Fenced(w, place, Renewed)
    BY DEF Cleanup!Begin
  <2>2. place \in Places \ {"idle"} /\ (place \in {"jobs", "defer"} \/ cleanup.step # "WHITELIST")
    BY DEF Places
  <2> HIDE DEF place
  <2> QED BY <2>1, <2>2
<1>2. Renewed \in Requests /\ Running(Renewed) /\ Renewed.step = cleanup.step
  BY RequestWrites DEF CleanupTypes, Requests
<1>3. /\ saga' \in [Workers -> Runs] /\ cleanup' \in Requests /\ Running(cleanup')
      /\ \A v \in Workers \ {w} : saga'[v] = saga[v]
      /\ \/ cleanup' = Renewed /\ saga'[w] = [saga[w] EXCEPT !.pc = pc]
         \/ cleanup' \in {Renewed, cleanup} /\ saga'[w] = Cleanup!Idle
  <2> HIDE DEF Renewed
  <2> QED BY <1>1, <1>2, FencedDoes
<1>4. saga'[w].pc \in {pc, "idle"} /\ cleanup'.step = cleanup.step
  <2> HIDE DEF Renewed
  <2>1. saga[w] \in Runs
    BY DEF CleanupTypes
  <2> QED BY <1>2, <1>3, <2>1 DEF Runs, Cleanup!Idle
<1>5. CleanupTypes'
  BY <1>0, <1>3 DEF CleanupTypes, Running
<1>6. cleanup.step = "WHITELIST" => ~Past(w)'
  BY <1>1, <1>4 DEF Past
<1>7. Off'
  BY <1>0, <1>3, <1>4, <1>6, SagaOff DEF Cleanup!Known
<1> QED BY <1>0, <1>5, <1>7 DEF Asked, NoAdd, Untouched

\* A step of one worker that leaves the request, the jobs' worker and the list.
LEMMA CleanupStepKept ==
    ASSUME CleanupInv, NEW w \in Workers, saga' \in [Workers -> Runs],
           \A v \in Workers \ {w} : saga'[v] = saga[v],
           UNCHANGED <<cleanup, executing, adding, covered, budget>>,
           name' \in Listed, name'.remote = name.remote,
           member' \in Members, member'.leaving = member.leaving, records' \in Records,
           NoAdd => NoAdd',
           Untouched /\ name.remote /\ Cleanup!Known /\ ~Past(w) => Cleanup!Known' /\ ~Past(w)'
    PROVE  CleanupInv'
<1>1. CleanupTypes'
  BY DEF CleanupInv, CleanupTypes, Running
<1>2. Off'
  BY SagaOff DEF CleanupInv
<1> QED BY <1>1, <1>2 DEF CleanupInv, Asked

\* What the worker reads: the name, its jobs, the list, the profile.
LEMMA ReadsKept ==
    ASSUME Cleanup!CleanupAssumption, CleanupInv, NEW w \in Workers,
           \/ Cleanup!ReadJobs(w) \/ Cleanup!ReadBinding(w) \/ Cleanup!ReadRemote(w)
           \/ Cleanup!ReadFresh(w) \/ Cleanup!ReadProfile(w)
    PROVE  CleanupInv'
<1> USE IdleRun
<1>1. UNCHANGED <<cleanup, name, executing, member, records, adding, covered, budget>>
  BY DEF Cleanup!ReadJobs, Cleanup!ReadBinding, Cleanup!ReadRemote, Cleanup!ReadFresh, Cleanup!ReadProfile,
         Cleanup!Goto
<1>2. name \in Listed /\ member \in Members /\ records \in Records /\ saga \in [Workers -> Runs]
      /\ saga[w] \in Runs
  BY DEF CleanupInv, CleanupTypes
<1>3. SUFFICES ASSUME NEW run \in Runs, saga' = [saga EXCEPT ![w] = run],
                      name.remote /\ Cleanup!Known /\ ~Past(w) =>
                          /\ run.pc \in {"idle", "remote", "list", "defer", "error", "mark"}
                          /\ run.pc = "mark" => run.remote
               PROVE  CleanupInv'
  <2>1. \E run \in Runs : /\ saga' = [saga EXCEPT ![w] = run]
                          /\ name.remote /\ Cleanup!Known /\ ~Past(w) =>
                                 /\ run.pc \in {"idle", "remote", "list", "defer", "error", "mark"}
                                 /\ run.pc = "mark" => run.remote
    <3>1. CASE Cleanup!ReadJobs(w)
      <4>1. CASE Cleanup!Known
        <5> DEFINE run == [saga[w] EXCEPT !.pc = "remote", !.row = name.row # "NONE", !.add = name.add,
            !.remove = name.remove]
        <5>1. run \in Runs /\ run.pc = "remote"
          <6>1. (name.row # "NONE") \in BOOLEAN /\ name.add \in Cleanup!JobState
                /\ name.remove \in Cleanup!JobState
            BY <1>2 DEF Listed
          <6> QED BY <1>2, <6>1 DEF Runs, Places
        <5>2. saga' = [saga EXCEPT ![w] = run]
          BY <3>1, <4>1 DEF Cleanup!ReadJobs
        <5> QED BY <5>1, <5>2
      <4>2. CASE ~Cleanup!Known
        <5>1. \E pc \in {"error", "advance"} : saga' = [saga EXCEPT ![w] = [saga[w] EXCEPT !.pc = pc]]
          BY <3>1, <4>2 DEF Cleanup!ReadJobs, Cleanup!Goto
        <5>2. \A pc \in {"error", "advance"} : [saga[w] EXCEPT !.pc = pc] \in Runs
          BY <1>2 DEF Runs, Places
        <5> QED BY <4>2, <5>1, <5>2
      <4> QED BY <4>1, <4>2
    <3>0. CASE Cleanup!ReadBinding(w)
      <4>1. \E pc \in {"list", "error"} : saga' = [saga EXCEPT ![w] = [saga[w] EXCEPT !.pc = pc]]
        BY <3>0 DEF Cleanup!ReadBinding, Cleanup!Goto
      <4>2. \A pc \in {"list", "error"} : LET run == [saga[w] EXCEPT !.pc = pc] IN run \in Runs /\ run.pc = pc
        BY <1>2 DEF Runs, Places
      <4> QED BY <4>1, <4>2
    <3>2. CASE Cleanup!ReadRemote(w)
      <4>1. \E pc \in {"mark", "error"} : saga' = [saga EXCEPT ![w] = [saga[w] EXCEPT !.remote = name.remote,
            !.pc = pc]]
        BY <3>2 DEF Cleanup!ReadRemote
      <4>2. \A pc \in {"mark", "error"} :
               LET run == [saga[w] EXCEPT !.remote = name.remote, !.pc = pc]
               IN  run \in Runs /\ run.pc = pc /\ run.remote = name.remote
        BY <1>2 DEF Runs, Places, Listed
      <4> QED BY <4>1, <4>2
    <3>3. CASE Cleanup!ReadFresh(w)
      <4>1. \E pc \in {"defer", "finish"} : saga' = [saga EXCEPT ![w] = [saga[w] EXCEPT !.pc = pc]]
        BY <3>3 DEF Cleanup!ReadFresh, Cleanup!Goto
      <4>2. \A pc \in {"defer", "finish"} : [saga[w] EXCEPT !.pc = pc] \in Runs
        BY <1>2 DEF Runs, Places
      <4>3. Past(w)
        BY <3>3 DEF Cleanup!ReadFresh, Cleanup!At, Past
      <4> QED BY <4>1, <4>2, <4>3
    <3>4. CASE Cleanup!ReadProfile(w)
      <4>1. Past(w)
        BY <3>4 DEF Cleanup!ReadProfile, Cleanup!At, Past
      <4> DEFINE run == [saga[w] EXCEPT !.pc = "profile", !.row = ~member.isLeft /\ member.fresh,
          !.remote = member.isLeft]
      <4>2. run \in Runs
        BY <1>2 DEF Runs, Places, Members
      <4>3. saga' = [saga EXCEPT ![w] = run] \/ saga' = [saga EXCEPT ![w] = Cleanup!Idle]
        BY <3>4 DEF Cleanup!ReadProfile, Cleanup!Stop
      <4> QED BY <4>1, <4>2, <4>3
    <3> QED BY <3>0, <3>1, <3>2, <3>3, <3>4
  <2> QED BY <1>3, <2>1
<1>4. saga' \in [Workers -> Runs] /\ saga'[w] = run /\ \A v \in Workers \ {w} : saga'[v] = saga[v]
  BY <1>2, <1>3
<1>5. name.remote /\ Cleanup!Known /\ ~Past(w) => ~Past(w)'
  BY <1>3, <1>4 DEF Past
<1>6. NoAdd => NoAdd'
  BY <1>1 DEF NoAdd, Untouched
<1>7. Cleanup!Known => Cleanup!Known'
  BY <1>1 DEF Cleanup!Known
<1> QED BY <1>1, <1>2, <1>4, <1>5, <1>6, <1>7, CleanupStepKept

\* What the worker writes: the row and its jobs, the session names, the link,
\* the level row, the profile.
LEMMA WritesKept ==
    ASSUME Cleanup!CleanupAssumption, CleanupInv, NEW w \in Workers,
           \/ Cleanup!Mark(w) \/ Cleanup!Finish(w) \/ Cleanup!Pseudonymize(w) \/ Cleanup!Purge(w)
           \/ Cleanup!WriteProfile(w)
    PROVE  CleanupInv'
<1>1. UNCHANGED <<cleanup, executing, adding, covered, budget>>
  BY DEF Cleanup!Mark, Cleanup!Finish, Cleanup!Pseudonymize, Cleanup!Purge, Cleanup!WriteProfile
<1>2. name \in Listed /\ member \in Members /\ records \in Records /\ saga \in [Workers -> Runs]
      /\ saga[w] \in Runs
  BY DEF CleanupInv, CleanupTypes
<1>3. PICK pc \in {"error", "defer", "fresh", "advance",
      "final"} : saga' = [saga EXCEPT ![w] = [saga[w] EXCEPT !.pc = pc]]
  BY DEF Cleanup!Mark, Cleanup!Finish, Cleanup!Pseudonymize, Cleanup!Purge, Cleanup!WriteProfile, Cleanup!Goto
<1>4. saga' \in [Workers -> Runs] /\ saga'[w].pc = pc /\ \A v \in Workers \ {w} : saga'[v] = saga[v]
  <2>1. [saga[w] EXCEPT !.pc = pc] \in Runs /\ [saga[w] EXCEPT !.pc = pc].pc = pc
    BY <1>2 DEF Runs, Places
  <2> QED BY <1>2, <1>3, <2>1
<1>5. CASE Cleanup!Mark(w) \/ Cleanup!Finish(w)
  <2>1. UNCHANGED <<member, records>>
    BY <1>5 DEF Cleanup!Mark, Cleanup!Finish
  <2>2. name' \in Listed /\ name'.remote = name.remote /\ name'.row \in {name.row, "PENDING_REMOVE", "NONE"}
    BY <1>2, <1>5 DEF Cleanup!Mark, Cleanup!Finish, Listed, Cleanup!JobState
  <2>3. NoAdd => NoAdd'
    <3>1. SUFFICES ASSUME NoAdd, Untouched PROVE NoAdd'
      BY <1>1 DEF NoAdd, Untouched
    <3>2. name.add = "NONE" /\ ~adding /\ (executing.pc # "idle" => executing.op = "remove"
          /\ name.remove = "RUNNING")
      BY <3>1 DEF NoAdd
    <3>3. CASE name' = name
      BY <1>1, <3>1, <3>3 DEF NoAdd, Untouched
    <3>4. CASE name' # name
      <4>1. executing.pc = "idle"
        BY <1>5, <3>4 DEF Cleanup!Mark, Cleanup!Finish, Cleanup!LockFree
      <4>2. name'.add = "NONE" /\ (name'.remove # "NONE" => name'.row \notin {"LOCAL_ONLY", "SYNCED"})
        BY <1>2, <1>5, <3>1, <3>2, <3>4 DEF Cleanup!Mark, Cleanup!Finish, Listed, NoAdd
      <4> QED BY <1>1, <3>2, <4>1, <4>2 DEF NoAdd, Untouched
    <3> QED BY <3>3, <3>4
  <2>4. name.remote /\ ~Past(w) => ~Past(w)'
    BY <1>2, <1>3, <1>4, <1>5 DEF Cleanup!Mark, Cleanup!Finish, Cleanup!At, Cleanup!Goto, Past, Runs
  <2>5. Cleanup!Known => Cleanup!Known'
    BY <2>1 DEF Cleanup!Known
  <2> QED BY <1>1, <1>2, <1>4, <2>1, <2>2, <2>3, <2>4, <2>5, CleanupStepKept
<1>6. CASE Cleanup!Pseudonymize(w) \/ Cleanup!Purge(w) \/ Cleanup!WriteProfile(w)
  <2>1. Past(w)
    BY <1>6 DEF Cleanup!Pseudonymize, Cleanup!Purge, Cleanup!WriteProfile, Cleanup!At, Past
  <2>2. UNCHANGED name
    BY <1>6 DEF Cleanup!Pseudonymize, Cleanup!Purge, Cleanup!WriteProfile
  <2>3. /\ member' \in Members /\ member'.leaving = member.leaving
        /\ records' \in Records
    <3>1. CASE Cleanup!Pseudonymize(w) \/ Cleanup!Purge(w)
      BY <1>2, <3>1 DEF Cleanup!Pseudonymize, Cleanup!Purge, Records
    <3>2. CASE Cleanup!WriteProfile(w)
      <4>1. CASE UNCHANGED <<member, records>>
        BY <1>2, <4>1
      <4>2. CASE ~UNCHANGED <<member, records>>
        <5>1. /\ member' = [member EXCEPT !.isLeft = ~saga[w].row]
              /\ records' = [records EXCEPT !.level = saga[w].row]
          BY <3>2, <4>2 DEF Cleanup!WriteProfile
        <5>2. saga[w].row \in BOOLEAN /\ (~saga[w].row) \in BOOLEAN
          BY <1>2 DEF Runs
        <5>3. member' \in Members /\ member'.leaving = member.leaving
          BY <1>2, <5>1, <5>2 DEF Members
        <5>4. records' \in Records
          BY <1>2, <5>1, <5>2 DEF Records
        <5> QED BY <5>3, <5>4
      <4> QED BY <4>1, <4>2
    <3> QED BY <1>6, <3>1, <3>2
  <2>4. NoAdd => NoAdd'
    BY <1>1, <2>2 DEF NoAdd, Untouched
  <2> QED BY <1>1, <1>2, <1>4, <2>1, <2>2, <2>3, <2>4, CleanupStepKept
<1> QED BY <1>5, <1>6

LEMMA CleanupStep ==
    ASSUME Cleanup!CleanupAssumption, CleanupInv, [Cleanup!Next]_(Cleanup!vars) PROVE CleanupInv'
<1>1. CASE Cleanup!Next
  <2>1. CASE \/ Cleanup!Leave \/ Cleanup!MarkMemberLeft \/ Cleanup!ConfirmLeave \/ Cleanup!Rejoin
        \/ Cleanup!RejoinLevel
    BY <2>1, GuildKept
  <2>2. CASE \/ Cleanup!Connect \/ Cleanup!Disconnect \/ Cleanup!DrawLottery \/ Cleanup!AddGuard
        \/ Cleanup!AddCommit
    BY <2>2, GameKept
  <2>3. CASE \/ \E op \in {"add", "remove"} : Cleanup!TakeJob(op)
             \/ Cleanup!Decide \/ Cleanup!WriteRemote \/ Cleanup!JobDies
    BY <2>3, JobsKept
  <2>4. ASSUME NEW w \in Workers, Cleanup!Work(w) PROVE CleanupInv'
    BY <2>4, ClaimKept, BeginsKept, ReadsKept, WritesKept DEF Cleanup!Work
  <2>5. CASE Cleanup!AgeLease \/ \E w \in Workers : Cleanup!WorkFails(w)
    BY <2>5, FaultKept
  <2> QED BY <1>1, <2>1, <2>2, <2>3, <2>4, <2>5 DEF Cleanup!Next
<1>2. CASE UNCHANGED Cleanup!vars
  BY <1>2 DEF CleanupInv, CleanupTypes, Running, Asked, NoAdd, Off, Untouched, Past, Cleanup!Known, Cleanup!vars
<1> QED BY <1>1, <1>2

\* The request keeps its shape, and counts as claimed in both of its fields.
THEOREM CleanupTypeOK == ASSUME Cleanup!CleanupAssumption PROVE Cleanup!Spec => []Cleanup!TypeOK
<1>1. CleanupInv => Cleanup!TypeOK
  BY TypesAre DEF CleanupInv
<1> QED BY <1>1, CleanupInit, CleanupStep, PTL DEF Cleanup!Spec

\* guildMemberRemove.ts: a member who is gone has a clean-up request of that
\* leave once the handler is through, however an older clean-up ends meanwhile
\* and though the first enqueue failed; unless the handler could not read the
\* configuration, or its second enqueue failed, and has only logged that.
THEOREM LeaveCoveredHolds == ASSUME Cleanup!CleanupAssumption PROVE Cleanup!Spec => []Cleanup!LeaveCovered
<1>1. CleanupInv => Cleanup!LeaveCovered
  BY DEF CleanupInv, Asked, Cleanup!LeaveCovered
<1> QED BY <1>1, CleanupInit, CleanupStep, PTL DEF Cleanup!Spec

\* leaveCleanupWhitelist.ts: where no add is open or comes, the whitelist step of
\* a known name ends only when Nitrado no longer has it, whoever holds the claim.
THEOREM CleanedIsOffHolds ==
    ASSUME Cleanup!CleanupAssumption, ~AddJobs PROVE Cleanup!Spec => Cleanup!CleanedIsOff
<1> DEFINE Cleaned == cleanup.step = "WHITELIST" /\ cleanup'.step = "STATS_SESSIONS" /\ Cleanup!Known
    /\ budget.adds = 0
                          => ~name.remote
<1>1. ASSUME CleanupInv, CleanupInv', [Cleanup!Next]_(Cleanup!vars) PROVE [Cleaned]_(Cleanup!vars)
  <2>1. SUFFICES ASSUME cleanup.step = "WHITELIST", cleanup'.step = "STATS_SESSIONS", budget.adds = 0, name.remote
                 PROVE  FALSE
    OBVIOUS
  <2>2. Off /\ Off' /\ Untouched
    BY <1>1, <2>1 DEF CleanupInv, Untouched
  <2>3. ~(name'.remote /\ Untouched')
    BY <2>1, <2>2 DEF Off
  <2>4. cleanup' # cleanup
    BY <2>1
  <2>5. UNCHANGED name /\ budget'.adds = budget.adds
    <3>1. CASE Cleanup!Leave \/ Cleanup!ConfirmLeave \/ Cleanup!AgeLease
      BY <1>1, <3>1 DEF Cleanup!Leave, Cleanup!ConfirmLeave, Cleanup!AgeLease, Cleanup!Spend, CleanupInv,
                        CleanupTypes, Budgets
    <3>2. CASE \/ Cleanup!MarkMemberLeft \/ Cleanup!Rejoin \/ Cleanup!RejoinLevel
               \/ Cleanup!Connect \/ Cleanup!Disconnect \/ Cleanup!DrawLottery \/ Cleanup!AddGuard
                  \/ Cleanup!AddCommit
      BY <2>4, <3>2 DEF Cleanup!MarkMemberLeft, Cleanup!Rejoin, Cleanup!RejoinLevel,
                        Cleanup!Connect,
                        Cleanup!Disconnect, Cleanup!DrawLottery, Cleanup!AddGuard, Cleanup!AddCommit
    <3>3. CASE \/ \E op \in {"add", "remove"} : Cleanup!TakeJob(op)
               \/ Cleanup!Decide \/ Cleanup!WriteRemote \/ Cleanup!JobDies
                  \/ \E w \in Workers : Cleanup!WorkFails(w)
      BY <2>4, <3>3 DEF Cleanup!TakeJob, Cleanup!Decide, Cleanup!WriteRemote, Cleanup!JobDies, Cleanup!WorkFails
    <3>4. ASSUME NEW w \in Workers, Cleanup!Work(w) PROVE UNCHANGED <<name, budget>>
      BY <2>4, <3>4 DEF Cleanup!Work, Cleanup!Candidate, Cleanup!Claim, Cleanup!Begin, Cleanup!Advance,
                        Cleanup!Defer,
                        Cleanup!Retry, Cleanup!Recover, Cleanup!ReadJobs, Cleanup!ReadBinding, Cleanup!ReadRemote,
                        Cleanup!Mark, Cleanup!ReadFresh, Cleanup!Finish, Cleanup!Pseudonymize, Cleanup!Purge,
                        Cleanup!ReadProfile,
                        Cleanup!WriteProfile
    <3> QED BY <1>1, <2>4, <3>1, <3>2, <3>3, <3>4 DEF Cleanup!Next, Cleanup!vars
  <2> QED BY <2>2, <2>3, <2>5, <2>1 DEF Untouched
<1> QED BY <1>1, CleanupInit, CleanupStep, PTL DEF Cleanup!Spec, Cleanup!CleanedIsOff

\* leaveCleanupStatsSessions.ts: the name of an open session is never replaced.
THEOREM OpenSessionKeptHolds ==
    ASSUME Cleanup!CleanupAssumption PROVE Cleanup!Spec => Cleanup!OpenSessionKept
<1> DEFINE Open == records.session = "OPEN" => records'.session # "PSEUDO"
<1>1. ASSUME CleanupInv, [Cleanup!Next]_(Cleanup!vars) PROVE [Open]_(Cleanup!vars)
  <2>1. CASE UNCHANGED records
    BY <2>1
  <2>2. CASE Cleanup!RejoinLevel \/ Cleanup!Connect \/ Cleanup!Disconnect \/ Cleanup!DrawLottery
    BY <1>1, <2>2 DEF Cleanup!RejoinLevel, Cleanup!Connect, Cleanup!Disconnect, Cleanup!DrawLottery,
                      CleanupInv, CleanupTypes, Records
  <2>3. ASSUME NEW w \in Workers, Cleanup!Pseudonymize(w) \/ Cleanup!Purge(w)
        \/ Cleanup!WriteProfile(w) PROVE Open
    BY <1>1, <2>3 DEF Cleanup!Pseudonymize, Cleanup!Purge, Cleanup!WriteProfile, CleanupInv, CleanupTypes, Records
  <2>4. \/ UNCHANGED records \/ Cleanup!RejoinLevel \/ Cleanup!Connect \/ Cleanup!Disconnect
           \/ Cleanup!DrawLottery
        \/ \E w \in Workers : Cleanup!Pseudonymize(w) \/ Cleanup!Purge(w) \/ Cleanup!WriteProfile(w)
    BY <1>1 DEF Cleanup!Next, Cleanup!vars, Cleanup!Work, Cleanup!Leave, Cleanup!MarkMemberLeft,
                Cleanup!ConfirmLeave,
                Cleanup!Rejoin, Cleanup!AddGuard, Cleanup!AddCommit, Cleanup!TakeJob, Cleanup!Decide,
                Cleanup!WriteRemote,
                Cleanup!JobDies, Cleanup!AgeLease, Cleanup!WorkFails, Cleanup!Candidate, Cleanup!Claim,
                Cleanup!Begin,
                Cleanup!Advance, Cleanup!Defer, Cleanup!Retry, Cleanup!Recover, Cleanup!ReadJobs, Cleanup!ReadBinding,
                Cleanup!ReadRemote,
                Cleanup!Mark, Cleanup!ReadFresh, Cleanup!Finish, Cleanup!ReadProfile
  <2> QED BY <2>1, <2>2, <2>3, <2>4
<1> QED BY <1>1, CleanupInit, CleanupStep, PTL DEF Cleanup!Spec, Cleanup!OpenSessionKept

\* leaveCleanupWhitelist.ts: a row on the whitelist that nobody wants to remove
\* is not deleted, also not by a worker that has lost its claim.
THEOREM PresentRowKeptHolds ==
    ASSUME Cleanup!CleanupAssumption PROVE Cleanup!Spec => Cleanup!PresentRowKept
<1> DEFINE Row == name.row \in {"LOCAL_ONLY", "SYNCED"} => name'.row # "NONE"
<1>1. ASSUME CleanupInv, [Cleanup!Next]_(Cleanup!vars) PROVE [Row]_(Cleanup!vars)
  <2>0. name \in Listed
    BY <1>1 DEF CleanupInv, CleanupTypes
  <2>1. CASE UNCHANGED name
    BY <2>1
  <2>2. CASE Cleanup!AddCommit \/ Cleanup!Decide \/ Cleanup!WriteRemote \/ Cleanup!JobDies
    BY <2>0, <2>2 DEF Cleanup!AddCommit, Cleanup!Decide, Cleanup!WriteRemote, Cleanup!JobDies, Listed
  <2>3. ASSUME NEW op \in {"add", "remove"}, Cleanup!TakeJob(op) PROVE Row
    BY <2>0, <2>3 DEF Cleanup!TakeJob, Listed
  <2>4. ASSUME NEW w \in Workers, Cleanup!Mark(w) \/ Cleanup!Finish(w) PROVE Row
    BY <2>0, <2>4 DEF Cleanup!Mark, Cleanup!Finish, Listed
  <2>5. \/ UNCHANGED name \/ Cleanup!AddCommit \/ Cleanup!Decide \/ Cleanup!WriteRemote \/ Cleanup!JobDies
        \/ \E op \in {"add", "remove"} : Cleanup!TakeJob(op)
        \/ \E w \in Workers : Cleanup!Mark(w) \/ Cleanup!Finish(w)
    BY <1>1 DEF Cleanup!Next, Cleanup!vars, Cleanup!Work, Cleanup!Leave, Cleanup!MarkMemberLeft,
                Cleanup!ConfirmLeave,
                Cleanup!Rejoin, Cleanup!RejoinLevel, Cleanup!Connect, Cleanup!Disconnect, Cleanup!DrawLottery,
                Cleanup!AddGuard, Cleanup!AgeLease, Cleanup!WorkFails, Cleanup!Candidate, Cleanup!Claim,
                Cleanup!Begin,
                Cleanup!Advance, Cleanup!Defer, Cleanup!Retry, Cleanup!Recover, Cleanup!ReadJobs, Cleanup!ReadBinding,
                Cleanup!ReadRemote,
                Cleanup!ReadFresh, Cleanup!Pseudonymize, Cleanup!Purge, Cleanup!ReadProfile, Cleanup!WriteProfile
  <2> QED BY <2>1, <2>2, <2>3, <2>4, <2>5
<1> QED BY <1>1, CleanupInit, CleanupStep, PTL DEF Cleanup!Spec, Cleanup!PresentRowKept

\* leaveCleanupRejoin.ts: nobody who came back after the clean-up was requested
\* is marked as left, unless they leave again.
THEOREM RejoinerKeptHolds ==
    ASSUME Cleanup!CleanupAssumption PROVE Cleanup!Spec => Cleanup!RejoinerKept
<1> DEFINE Back == member.here /\ member.fresh /\ ~member.isLeft /\ member.leaving = "no" => ~member'.isLeft
    \/ ~member'.here
<1>1. ASSUME CleanupInv, [Cleanup!Next]_(Cleanup!vars) PROVE [Back]_(Cleanup!vars)
  <2>0. member \in Members
    BY <1>1 DEF CleanupInv, CleanupTypes
  <2>1. CASE UNCHANGED member
    BY <2>1
  <2>2. CASE Cleanup!Leave \/ Cleanup!MarkMemberLeft \/ Cleanup!ConfirmLeave \/ Cleanup!Rejoin
        \/ Cleanup!RejoinLevel
    BY <2>0, <2>2 DEF Cleanup!Leave, Cleanup!MarkMemberLeft, Cleanup!ConfirmLeave, Cleanup!Rejoin,
                      Cleanup!RejoinLevel, Members
  <2>3. ASSUME NEW w \in Workers, Cleanup!WriteProfile(w), ~UNCHANGED member PROVE Back
    BY <2>0, <2>3 DEF Cleanup!WriteProfile, Members
  <2>4. \/ UNCHANGED member \/ \E w \in Workers : Cleanup!WriteProfile(w)
        \/ Cleanup!Leave \/ Cleanup!MarkMemberLeft \/ Cleanup!ConfirmLeave \/ Cleanup!Rejoin
           \/ Cleanup!RejoinLevel
    BY <1>1 DEF Cleanup!Next, Cleanup!vars, Cleanup!Work, Cleanup!Connect, Cleanup!Disconnect,
                Cleanup!DrawLottery,
                Cleanup!AddGuard, Cleanup!AddCommit, Cleanup!TakeJob, Cleanup!Decide, Cleanup!WriteRemote,
                Cleanup!JobDies, Cleanup!AgeLease, Cleanup!WorkFails, Cleanup!Candidate, Cleanup!Claim,
                Cleanup!Begin,
                Cleanup!Advance, Cleanup!Defer, Cleanup!Retry, Cleanup!Recover, Cleanup!ReadJobs, Cleanup!ReadBinding,
                Cleanup!ReadRemote,
                Cleanup!Mark, Cleanup!ReadFresh, Cleanup!Finish, Cleanup!Pseudonymize, Cleanup!Purge,
                Cleanup!ReadProfile
  <2> QED BY <2>1, <2>2, <2>3, <2>4
<1> QED BY <1>1, CleanupInit, CleanupStep, PTL DEF Cleanup!Spec, Cleanup!RejoinerKept
=============================================================================
