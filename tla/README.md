# Discord-V-Bot in TLA+

Discord-V-Bot is a multi-tenant Discord bot (Node.js, PostgreSQL through Prisma)
that administers game servers hosted at Nitrado: it edits remote ban lists and
whitelists, restarts servers, follows their logs, and runs an economy, tickets,
polls, giveaways, feeds and moderation on top of them. This directory models the
parts in which several processes, timers, remote calls and database rows meet,
checks the models with TLC and proves theorems about them with TLAPS.

Paths below are relative to the repository root; `modules` stands for
`src/modules`.

## 1. Inventory

| Component | State | Operations | What is hard | What makes it correct | Module |
|---|---|---|---|---|---|
| Job outbox and worker (`nitrado/jobLease.ts`, `jobWorker.ts`) | `NitradoJob`, `NitradoJobLease`, advisory lock of each connection, polls and executions of each process | poll: recover, retain, select, claim, execute; heartbeat; finish, retry, bury; enqueue and withdraw | several instances, zombie executors, sweeps on old reads, rolling deployments, lost sessions, crashes | one owner per job, one mutation per connection, attempts counted exactly, every job ends, no lock leaks | `NitradoJobs`, `JobQueue` |
| Server bans (`modules/bans`, `serverBan.ts`) | ban rows, stored identities, expiry and drift notices; ban list and whitelist at Nitrado | ban, unban, ADD and REMOVE jobs, reconciliation, expiry, notice, drift decision | five actors, two without the lock; lists edited by people; failures between remote and local writes | an active ban is enforced, a lifted one leaves, the flag is truthful, notices arrive | `ServerBan` |
| Radar bans, rebinding (`modules/radar`, `rebindOutboxLifecycle.ts`) | zone, offences, fences, bans, service and binding version | detect, judge, ban, retry, recover; change service | an offence judged on old facts; a service change at every stage | a ban stays with the server of its offence; each offence is settled once | `RadarBans` |
| Whitelist (`modules/whitelist`, `whitelistIntent.ts`) | row with `syncState`, request, jobs, drift notice, list at Nitrado | request, approve, add, remove, sync, drift decision, bans | intent against a stale remote read; a job that outlives its row | intents settle, foreign names are left alone, a ban wins | `Whitelist` |
| Leave clean-up (`moderation/leaveCleanup*.ts`) | request with its saga, leases; the member's link, row, sessions | claim, steps, rejoin | a rejoin in the middle; crash; waiting for jobs | every leave is cleaned up, who is there is spared | `LeaveCleanup` |
| Identity linking (`modules/linking`, `playtimeBooking.ts`) | link, reward state, sessions, progress, ledger | link, unlink, force, repair, book | link and reward are two transactions; a leave between them | a bucket of play time is paid once, to who was verified as its player | `LinkRewards` |
| Black market (`economy/blackMarket*.ts`, `marketOrderReadyRuntime.ts`) | vendor, account, offers, purchases, ready notices | buy, order, deliver, refund, pay out, archive, notify | clicks on old embeds; lost answers | the account covers what can be claimed back | `Market`, `Escrow` |
| Lottery (`economy/lottery.ts`) | round, tickets, pot | buy, draw, pay, refund, announce | two settlers, several transactions | the pot holds what was paid | `Lottery`, `Escrow` |
| Kill rewards (`adm/rewardEngine.ts`, `economy/rewardBooking.ts`) | cursor, decisions, ledger | decide page by page, book | files read late, crashes inside a page | caps and cooldowns; each kill decided once | `Rewards` |
| ADM logs (`adm/admLiveSyncCron.ts`) | cursors, lines, binding | list, baseline, read ranges | growth, rotation, replacement, rebinding | every line stored, in order | `AdmIngest` |
| Gameplay feeds (`modules/gameplayFeeds`) | feed, cursor, deliveries | scan, post, pause, resume | crash between cursor, claim and message | every event delivered or excused | `GameplayFeed` |
| Restart plans (`nitrado/restartTaskPlan*.ts`) | plan with revision, sync jobs, tasks at Nitrado | save, sync, retry | an older revision still at work; lost answers; time zones | SYNCED is true; a saved plan is synced | `RestartPlan` |
| Keep-Online (`nitrado/keepOnlineJobs.ts`, `permaOnlyCron.ts`) | switch, job, cooldown | poll, start | switched off while a poll is under way | off means off; on brings the server back | `KeepOnline` |
| Mirror (`nitrado/mirror`, `ai/liveServerKnowledgeIndex.ts`) | snapshots, lease, knowledge | request, run, take over, index | service or token changes during a run | knowledge is of the bound service, the newest snapshot | `MirrorSnapshot` |
| Polls (`modules/polls`, reaction events) | poll, votes, counter, lock | vote, take back, end | reactions outside the lock; a message before the commit | choices kept, the result shown is the result stored | `Poll` |
| Giveaways (`modules/giveaway`) | giveaway, entries | enter, withdraw, draw | scheduler, command and withdrawal at once | one draw, of those who take part | `Giveaway` |
| Tickets (`modules/tickets`, `dashboard/routes/v2/tickets.ts`) | template with counter, tickets, channels, users | open, close, add users, delete template | roll-backs, purges, clicks made before | numbers unique, transcripts complete | `Tickets` |
| Nitrado client, reminders, self roles, XP, factions, welcome, uploads, packages, permissions, AI, commands, dashboard, user interface | configuration, single rows | – | no protocol state | – | – (section 7) |

Components interact through PostgreSQL rows (compare-and-set updates,
transactions), through advisory locks keyed by the Nitrado connection, the leave
or the poll, through the remote lists at Nitrado, through Discord messages, and
through wake-up signals in the process, which only make a poll happen earlier.
`PROJECT.json` lists every component with its status, and the hazards of the code
with the properties that would catch them.

## 2. Plan

The order was by how much damage a wrong interleaving does and by how many modules
depend on it: the outbox (everything that changes a game server passes through
it), bans, then the other users of the outbox, money, logs and members, and at last
what happens in Discord alone. All of these are done. Abstract specifications:
`JobQueue`, implemented by `NitradoJobs`; `ServerBan`, `Whitelist`, `RadarBans`
and `RestartPlan` take from it that an unfinished job comes back with the attempts
it had. And `Escrow`, implemented by the vendor's account of `Market` and by the pot
of `Lottery`.

Left, in this order:

1. The ledger's idempotency rows, and `Rewards` and virtual accounts with deposits as
   users of one ledger.
2. News feeds (their documented fail-closed claim), reminders, moderation cases,
   transfers and bank interest.
3. Virtual accounts with wages and loans, the circuit breaker.

## 3. Modules

`MC…` modules instantiate the others for TLC, the `…_proofs` modules hold the theorems,
of the module they are named for and of those they instantiate. In all modules an action is one
transaction, one remote call or one step between two awaits; what a handler reads
before its transaction stays in its record until it is used. Bounds on commands,
edits and faults are named `Max…`.

### NitradoJobs

One `NitradoJob` row is `job[j]` with its status, attempts, and two bits for
time: `due` is `nextRunAt <= now`, `old` is `updatedAt < now - 5 min`
(`NITRADO_JOB_LEASE_STALE_MS`). The lease row is `lease[j]`. `poll[i]` is where
`pollOnce` of process *i* is, with what it has read and not yet used; `exec[t]`
is where `executeJob` of the claim with token *t* is. `lock[c]` is the holder of
`pg_try_advisory_lock` for a connection.

- **A step** is one statement or one transaction. What a sweep read
  (`poll[i].leases`, `.jobs`) and the `staleBefore` it compares with stay as they
  were: `oldLeases` and `oldJobs` are the rows older than its `staleBefore`, from
  which a write to the row (`Touched`, `RenewLease`) removes it for all sweeps.
- **The poll**: `PollStart`, `RecoverLease`, `LegacyRead/Skip/Check/Update`
  (`recoverStaleNitradoJobClaims`), `Retention`, `ReadCandidates`, `SelectBatch`
  (one job per free connection, at most `MAX_PARALLEL`), `Claim`, `StartBatch`,
  `PollEnd` (`Promise.allSettled`).
- **The execution**: `Renew`, `ReadJob`, `TryLock`, `Requeue`, `Prepare`
  (everything between the lock and the operation that may end the execution),
  then any number up to `MaxCalls` of `EnsureClaimOwned` and `Reply` – the pair
  that brackets every remote mutation of every operation – `Conclude`, `Finish`,
  `FailJob`, `Release`. `Heartbeat` is the timer. The `…Fails` actions are
  thrown database calls, before or after their commit.
- **The rest**: producers (`Enqueue`, `CancelPending`), time, `Crash`,
  `DropSession` (the lock's session ends, the process does not),
  `OutsideLock` (reconciliation, sync, configuration).

Left out: which operation a job carries, back-off lengths, payload scrubbing,
audit and dashboard events. `RESTART_PLAN_SYNC` and the other operations differ
in what they call, not in how a call is fenced. The in-process mutual exclusion
of `pollOnce` (`running`) is that `poll[i]` is one value.

### JobQueue

What the outbox promises: a job has at most one owner; only the owner completes
it or counts one failed attempt, within the budget; an interrupted job returns
with the attempts it had. `NitradoJobs` instantiates it as `Queue` with the lease
token as the owner. `Return` asks for no owner, as a job left RUNNING by the
release before the lease table has none.

### ServerBan

One Nitrado connection. `ban[b]` is a `ServerBanEntry` row, `stored[b]` whether
its `ServerBanRemoteIdentity` exists, `remote` and `whitelist` are the lists at
Nitrado. A job is the number of its failed attempts (`NoJob` when there is none):
`NitradoJobs` shows that an unfinished job comes back with its attempts, and that
executions on one connection exclude each other. `work`, `recon`, `expire` and
`cmd` are the four activities with what they have read: an execution of
`SERVER_BAN_ADD` or `SERVER_BAN_REMOVE`, a run of the reconciliation, a run of
the expiry runtime, and a moderator's `/server-unban` or drift button.
`LockFree` is the connection lock: executions and reconciliations hold it
throughout, an unban only in its commit, a ban, an expiry and a drift decision
never. `drift[b]` is the `NitradoDriftNotice`. Where the server has no catalogue channel
(`~Catalog`) none is made; one that cannot be posted is deleted, and the run goes on when
the channel was out of reach (`ReportFails`) or fails (`ReconFails`); when the process
dies in between, the notice stays without a message (`SILENT`), has no buttons, and is
never posted. `Whitelist` has the same notice.

| Action | Code |
|---|---|
| `ServerBan` | the transaction of `/server-ban` |
| `UnbanBegin`, `CommandList`, `UnbanCommit`, `UnbanBusy` | `/server-unban`: binding, ban list, fenced commit |
| `DriftBegin`, `CommandList`, `DriftCheck`, `DriftCommit` | `handleNitradoDriftButton` |
| `Take` … `Done`, `WorkFails`, `FailJob`, `LoseClaim`, `Abandon` | `executeJob` for the two operations |
| `ReconRead`, `ReconList`, `ReconConfirm`, `ReconRow` (`ReconActive`, `ReconInactive`), `ReconFails` | `reconcileLockedConnection` |
| `Reports`, `ReportFails` | `sendNotice` |
| `ExpiryRead`, `ExpiryRow` | `reconcileExpiredServerBansOnce` |
| `NoticeRecover` … `NoticeFails` | `deliverNotice` and its lease recovery |
| `ExternalEdit` | somebody edits the ban list at Nitrado |

Simplifications: the timers run in one process; the two checks of
`deliverNotice` are one (nothing but reads lies between them); the notice's
attempts are a choice between READY and FAILED; a second lease recovery of a
delivery still under way is left out (60 s against the length of one message).
Radar bans, bans by name and service changes are in `RadarBans`, which models the
same worker, reconciliation and commands again with what `ServerBan` leaves out.

### RadarBans

One connection, one zone. `event[e]` is an offence on its way through
`autoBanRuntime.ts` (STORED, SEEN by the detection, PENDING, PROCESSING, RETRY, then settled), `auto` the
runtime with what it has read, `ban`, `ident` and `fence` the rows of a player's
GUID and name, `remote[s]` the ban list of each service. A radar ban has the row
of the GUID but lists the name. `Rebind` is the whole of
`rebindOutboxLifecycle.ts` for zones, events, fences, bans, identities and jobs.
Left out: several zones, zone deletion, the second confirming look before a ban
counts as missing, the cooldown of DEAD jobs, a map changing within one tick; fence
and row are read in one step; leases outlive only dead processes.

### Whitelist

One name on one connection: `entry` is the row's `syncState`, `job[op]` whether a
job is unfinished. `cmd[k]` are commands between their reads and their commit,
`work` an execution, `cron` `runWhitelistSyncOnce`. Executions, the sync, the ban
job and the commit of a dashboard sync hold the connection lock; commands do not.
`foreign` remembers names that only an outside hand listed.

### LeaveCleanup and LinkRewards

`LeaveCleanup` follows one `DataDeletionRequest` through its saga (`saga`, `req`)
in the hands of several workers, each claim fenced by the worker that wrote it
last; the member leaves, returns, plays and is put on the list meanwhile. The handler of
a leave goes on after any error of the database: `covered` says whether there is a request
of the last leave, or whether the handler has given up asking for one (`failed`), because
the configuration could not be read or the second enqueue failed as well.
`LinkRewards` has one game server, users and identities, link and reward state as
two rows, the repairs of the post-process cron and play time in buckets. With `Slow =
FALSE` commands and repairs end within a reward bucket of ten minutes; with `TRUE` they
may take any time, and the part `left` and the theorems but `TimePaidOnceHolds` allow that.

### Escrow

What an account that users pay into promises them: what is paid can be paid back until
it is met (the goods delivered, the winner drawn and paid); each claim ends once, met or
returned at its worth; only money that no claim needs leaves the account; it goes when
nobody can claim anything. Both accounts are rows of `EconomyVirtualAccount`, booked by
`systemVirtualTransfers.ts`. `Market` maps a purchase's fulfilment to the state of its
claim (`Ends`), `Lottery` a ticket, the refunds and the status of the round (`Stakes`).

### Market, Lottery, Rewards

`Market`: one vendor, one buyer; `requests` are handlers between their reads and
their transaction, `bot` the outbox of ready notices with lost answers.
`Lottery`: each ticket costs one unit and each purchase is one ticket; settlers
(timer, command) go from transaction to transaction; the weighting of the draw is
left out. `Rewards`: one rule; a kill without a linked killer has killer `None`; the
resolution of the killer and the insertion are two steps, as a leave may fall in
between. The ledger's repair and the balance limit are left out.

### AdmIngest, GameplayFeed

`AdmIngest`: a line is two units long, so an odd size is a cut-off line, in which the game
server may also die and go on in another file (`Rotate`, `Torn`); files are
numbered by name; `Replace` starts a new session in an old file, only when the old
content was read and no poll runs (other replacements lose lines trivially).
`GameplayFeed`: one feed, one process; `excused` are events a filter or a pause
keeps out. Channel spacing, delays, nonces' life and the online list are left out.

### RestartPlan, KeepOnline, MirrorSnapshot

`RestartPlan`: tasks at Nitrado with the time zone they were created in; one sync
job per revision; the check of the revision and the call behind it are one step. The
connection may be bound to no service. A sync reads the connection (`ReadConnection`), the
plan (`ReadPlan`), the connection again (`Refresh`), and works with the service it read
first; the errors that end it before its first call, and those that leave no trace in the
plan (`QueryFails`), are actions or branches of their own.
`KeepOnline`: one job record, as no job is queued while another is open or in its
cooldown. `MirrorSnapshot`: a binding is token, service and version; files and
documents are known by their snapshot.

### Poll, Giveaway, Tickets

`Poll`: a result is the set of votes it counts; the lock is held from `pg_advisory_xact_lock`
to commit; what a reaction drops it drops in one transaction, without the lock.
`Giveaway`: the draw is one transaction after its read; `gone` marks entries
deleted since, whose update would throw; `told` is the sequence of announcements.
`Tickets`: one template; a ticket's row, channel and Discord permissions are three pieces
of state, as the code writes them at different times; a transcript is the number of
messages it holds, of those the opener and the staff role wrote. An opening may fail up to
its last reply, long after its channel is usable (`Greet`, `Reply`, `OpenFails`), and each
step of its clean-up may fail in silence (`DeleteInstance`, `Uncount`); `undone` remembers
a row that survived it. A close goes on when it could not lock (`Lock`), ends without a
transcript when it finds no channel (`LockNothing`), and may fail after the row is closed
(`Answer`, `CloseFails`). A purge that cannot fetch the messages archives none
(`PurgeCollect`).

## 4. Runs

Several small systems share a run as *parts*: the `MC` module chooses a part at the
start, the part's instance has its own bounds, and what does not take part stays at
rest. A property is checked in all parts to which it applies; where it is stated for
one part only, its definition says so.

| Run | Parts | Properties | States |
|---|---|---|---|
| `claims` | one job, two processes, three tokens, one fault; or two jobs of one connection undisturbed | `TypeOK`, `LeaseOnRunning`, `CallsSerialised`, `QueueImplemented` | 1.2 M |
| `settle` | one job, fairness, timely heartbeats, one fault, a lost session among them | `HealthyClaimKept`, `LockHolderWorks`, `JobsSettle`, `OrphansRecovered` | 93 k |
| `bans` | enforced, edited, notices | `TypeOK`, `BannedBeforeUnlisted`, `BansSettle` | 415 k |
| `members` | names, claims, legacy, leaves, again, rivals, moves, turns, left | `TypeOK`, `LeaveFinal`, `PlaytimeExact`, `NamesSafe`, `CleanupExact` | 1.6 M |
| `members_live` | intents, drifts, banned, finish, repairs | `NamesSettle`, `LeaveFinishes`, `LinkEarns` | 95 k |
| `economy` | market, round, tickets, kills, cuts, logs, rebinds, sessions, feed | `TypesOK`, `VendorSound`, `RoundSound`, `LimitsKept`, `InOrder`, `EscrowImplemented`, `PotKept`, `OutcomesTold`, `EventsSettle` | 253 k |
| `services` | radar, plans, moves, keep, mirror | `TypesOK`, `BanStaysHome`, `OffencesSettle`, `PlansSettle`, `KeepsOnline`, `KnowledgeSafe` | 135 k |
| `community` | clicks, reactions, draw, open, undo, close, users | `TypesOK`, `PollSound`, `TicketsSound`, `DrawFair`, `UsersExact`, `RoundsEnd` | 667 k |
| `ban_unban` | an unban against the ADD job | `DriftVisible` violated: finding 1 | |
| `leave_remoteonly` | a name without a row | `LeaveFinishes` violated: finding 2 | |
| `adm_replaced` | a new session in an old file | `NothingPassed` violated: finding 3 | |
| `poll_reactions` | a vote against a reaction | `CounterExact` violated: finding 4 | |

Every property of a passing run has a mutant in `PROJECT.json`: a plausible mistake
in the code (a dropped comparison, a swapped order, a lost `finally`) under which
TLC finds the property violated by the same run. The mutants stand beside the
operators they replace and are used nowhere else.

**Bounds.** Races for a claim need two claimants and a zombie, hence two processes
and three tokens; a token is taken again once nothing names it. Races for a
connection need two jobs of one connection. `MaxAttempts = 2` tells a retry from the
last attempt. One mutation per execution suffices, as each is fenced on its own.
One fault puts a failure or a crash at every point; more matter where recovery itself
may fail (`keep`, `mirror`, `undo`, `close`) or where it takes two to give something up
(`feed`). Bans, names, members,
rounds and templates are one each, since nothing relates two of them but the
connection lock, which `claims` covers; two users, identities (`moves`), settlers,
workers or services are there where the code compares them. Three commands of any kind on a name, four
requests on a template, two revisions of a plan and two interventions in the radar's
part are enough for every order of a read, a foreign write and the write that
follows. In `services` the interventions of the radar's part are bounded together
(`MaxEvents`), and so are bindings, zone changes and faults of `moves`; the faults that may
fall into a leave handler are in `again`. `members` and `claims` use symmetry over what the specifications do
not tell apart; runs with liveness properties use none.

**Deadlock** is checked in `claims` and `settle`. Elsewhere it is off: once the
bounded commands and faults are spent and all is settled, the system rightly rests.

**Fairness.** Timers and workers go on: interval timers survive errors, every HTTP
call has a timeout, locks are released in `finally` blocks or with their session.
Strong fairness is assumed for takes and reads behind a try-lock (`Take`,
`ReconRead`): a try-lock that finds the connection busy is repeated at unrelated
moments against holders that keep it for seconds. The clock (`TimeIsUp`, `AgeLease`,
`TimePasses`) is fair. Users, moderators, edits at Nitrado, Discord events and faults
never are. `JobsSettle` is checked with timely heartbeats and a bounded number of
faults: `recoverStaleNitradoJobClaims` leaves `attempts` alone, so a job that kills
its process each time would be retried for ever. A link command is fair
(`members_live`), as its handler runs to its end unless the process dies, which the
model has as a fault.

## 5. Findings

Shown by runs:

1. **Unban overtaken by the ADD job** (`ban_unban`). `/server-unban` reads the ban
   list without the lock (player not on it yet), the ADD job puts the player on it and
   confirms, the unban commits `appliedRemotely = false` from its old read and queues
   no REMOVE. The reconciliation takes active or applied rows only: the player stays
   banned and nothing will notice.
2. **A clean-up that waits for itself** (`leave_remoteonly`). A name without a row may
   only be removed while the request is IN_PROGRESS, but the request is deferred to
   PENDING as soon as the job is queued.
3. **A new session in an old log file** (`adm_replaced`). The probe for a session
   header looks at the resumed offset; the header stands at byte 0. The lines before
   the offset are lost.
4. **Poll counter and results** (`poll_reactions`). Reactions change votes without the
   poll's lock; the counter drifts, and a result may count votes that are gone.

Met while modelling, without a run of their own:

- *Outbox.* If PostgreSQL ends the session of the connection lock, another job runs
  next to the execution; `ensureClaimOwned` renews the lease but does not look at the
  lock (`CallsSerialised` fails with `SessionLoss = TRUE`). Recovery leaves `attempts`
  as they are.
- *Bans.* A ban that ends between the ADD job's remote call and its commit is announced
  as removed before it is. The reconciliation deletes the identity of a ban it read as
  inactive, by id alone (`banReconciliation.ts:344-379`); a re-ban in between loses it, its
  ADD job goes DEAD and so does each later one, although an unconfirmed ban is "der normale
  ausstehende Soll-Zustand" (`banReconciliation.ts:281`): TLC violates `IdentityKept`, and
  `BanEnforced` is stated for bans that keep their identity. A row that says neither active
  nor applied while the player is listed (finding 1) is looked at by nobody (`Forgotten`).
  A message whose acknowledgement comes after Discord's nonce window is sent twice.
- *Drift notices.* The row of a notice is written before its message
  (`driftDiscord.ts:45-60`, `87`); if the process dies in between, every later run finds the
  row and posts nothing. Servers without a catalogue channel are told nothing at all.
  `FlagCorrected`, `BanEnforced` and `SyncedIsTrue` leave both out by name (`Reported`,
  `Catalog`).
- *Radar.* `/server-unban` by GUID looks for the GUID where the radar wrote the name:
  the row ends inactive and not applied, the player stays banned (`UnbanVisible`;
  contradicts `serverBan.ts:375`, `banRegistry.ts:131-132`). A manual ban over an active
  radar ban leaves the name listed. A reconciliation that read the radar's name before a
  manual ban of the same GUID writes the name back, so the ADD goes DEAD
  (`jobWorker.ts:545-548`) and the ban is never listed; `ActiveIsListed` is therefore
  stated for radar bans. After a rebind to another service and back, lifted bans stay on
  the first list.
- *Whitelist.* The sync marks a row SYNCED by its id alone (`whitelistSyncCron.ts:166-170`):
  a removal commanded since it read the row is lost, although a PENDING_REMOVE is never to be
  rewritten (135-136). TLC violates `RemoveIntentKept`; `IntentSettles` only says that an
  intent does not stay open for ever and counts this as an end. The sync's own removals
  (217) and the counter-intent of a job (`whitelistIntent.ts:255`) can likewise turn a new
  add into a removal (`CronRemovesOnIntent`, `AddIntentKept`); the drift button
  "restore" (`driftDiscord.ts:214-225`) has no ban check, the dashboard's has.
- *Links.* A user is linked, unlinks, links another identity, and the process dies
  before the hook. The reward state of the first link is still there with its cutoff; the
  retried `/link` is `alreadyLinked` and so not new (`linking.ts:157`), and
  `activateLinkRewardState` gives the state the new identity but leaves the cutoff
  (`linkRewards.ts:190-194`): play time before the link with that identity is paid, which
  `playtimeBooking.ts:5` rules out. TLC violates `NeverBeforeLink` with one user, two
  identities, four commands and one fault. Likewise the hour of one player can be paid to
  two users when a command dies between its transactions, or two run at once;
  `TimePaidOnce` holds where each command ends before the next begins and within a tick
  of the clock (`InTurns`: checked in `turns`, proved in section 6). What holds always is
  weaker: `NeverBeforeFirstLink`, `BucketPaidOnce`. An unlink that dies half-way and is
  followed by a link keeps the old cutoff too (`UnlinkedUnpaid`), and the repair of forced
  links writes VERIFIED over a link dissolved since it read its list (`UnlinkStays`).
- *Leave clean-up.* `guildMemberRemove.ts:103-118` and `126-144` log a configuration that
  cannot be read and a failed enqueue, and go on: if the second enqueue fails too, or the
  configuration was not read, the leave has no clean-up and nothing makes one later. An ADD job that was open when the clean-up read the jobs may write
  between the reading of the remote list and the end of the step: the name stays listed
  (`CleanedIsOff` with `AddJobs = TRUE`). An add between guard and commit re-lists a name
  after the whitelist step; waiting for a job counts attempts (`leaveCleanupWorker.ts:270`); the lottery
  obligations are read before the transaction (`leaveCleanupLinkEconomy.ts:225`): a
  ticket bought in between is pseudonymised and can neither be paid nor refunded, so the
  round never ends.
- *Economy.* `rewardBooking.ts:8-12` is not kept when files arrive out of order. The
  server currency can be renamed although virtual accounts are funded. Bank interest
  read page by page pays money twice that moves between pages. A ready notice is sent
  for orders that were refunded entirely. `createMarketListing` can create an offer on a
  vendor just archived.
- *Logs.* If the game server died in the last line of a file and went on in another one,
  the poll waits for the end of that line for ever, and newer files behind it
  (`admLiveSyncCron.ts:374-388`); `LinesArrive` excepts lines behind such a file (`Torn`).
- *Restart plans.* After the account's default time zone has moved, new tasks are
  created in the new zone and deleted as superfluous on every attempt
  (`restartTaskPlan.ts:227-252`). A sync that finds the connection bound to no service is
  dead before it has read the plan (`jobWorker.ts:712`), and so is one that finds another
  service at its second look (758-760), which takes a lost lock session: the plan stays
  PENDING and shows no error (`Stranded`, which `PlanSettles` excepts). So it does when the
  connection expires. The restart tasks of an old service stay.
- *Feeds.* A sweep begun before a pause writes its old cursor back after the resumption,
  so the paused history is posted (contradicts `autoPauseRecovery.ts:61-63`).
- *Polls, giveaways.* A crash or a transaction over its time after the message shows a
  result twice; a giveaway whose process dies after the draw is never announced; the
  button can delete a winner's entry after the draw.
- *Tickets, opening.* An opening that fails gives its number back although its row could
  not be deleted (`ticketSystem.ts:893-898`): two open tickets may have one number
  (`NumbersUnique` is stated for the other rows). It may fail after the channel is usable
  (866-883), and its clean-up then deletes a ticket somebody writes in, or has closed. A
  channel that is created during a purge has no ticket any more.
- *Tickets, closing.* 993 says the channel is locked so that no more messages come in, but
  failures of the three permission edits are swallowed (996-1000), and managers and added
  users are not locked out: `ArchiveComplete` promises the whole transcript only where the
  lock took effect, and counts the messages of opener and staff. A channel that cannot be
  fetched counts as gone (976-990): the ticket is closed without a transcript, its channel
  stays. An answer that fails after the row is CLOSED (1134) leaves the channel for ever,
  unlocked again; so does a crash before the five-second timer.
- *Tickets, template.* A switch of the template during its deletion, or a second deletion,
  leaves open tickets without a template (contradicts `ticketSystem.ts:943`). A reset of the
  counter counts the open tickets and sets it in a second statement
  (`tickets.ts:539-550`): with an opening in between, the next number is one of an open
  ticket, which 526-530 rules out; numbers are not unique over resets, closed tickets aside.
  A purge takes no lock of a ticket and does not look at failures of its reads (536, 551,
  555): it overwrites the transcript of a close under way, and deletes channels it has not
  read. Adding and removing one user twice can leave the list and the permission different.

## 6. Proofs

| Module | Theorem | Statement |
|---|---|---|
| `NitradoJobs_proofs` | `TypeCorrect`, `LeaseOnRunningHolds`, `CallsSerialisedHolds` | types; leases on running jobs only; one mutation per connection |
| | `LockHolderWorksHolds`, `HealthyClaimKeptHolds` | a connection lock belongs to an execution under way; nobody takes the claim of an execution that is alive and renews in time |
| | `QueueImplementedHolds` | `Spec => Queue!Spec` |
| `ServerBan_proofs` | `TypeCorrect`, `BannedBeforeUnlistedHolds` | types; nobody leaves the whitelist for a ban that is not on the ban list |
| | `NameTypeOK`, `NoForeignRemovalHolds`, `RowGoesAfterNameHolds` | `Whitelist`: types; the bot takes nothing off the list that only Nitrado knows; the row of a removal goes after its name |
| | `CleanupTypeOK`, `LeaveCoveredHolds`, `CleanedIsOffHolds` | `LeaveCleanup`: types; who left has a request of that leave, unless the handler could not ask for one; after the whitelist step a known name is off the list |
| | `OpenSessionKeptHolds`, `PresentRowKeptHolds`, `RejoinerKeptHolds` | `LeaveCleanup`: an open session keeps its identity, a wanted row stays, who came back is not marked as gone |
| `RadarBans_proofs` | `TypeCorrect`, `BanStaysHomeHolds` | types and attempts; on a service's list is who was banned by a moderator or for an offence there |
| `Services_proofs` | `TypeCorrect`, `SyncedMatchesHolds` | `RestartPlan`: types; a plan shown as SYNCED is what Nitrado has, unless somebody changed tasks there; lost lock sessions included |
| | `KeepTypeCorrect`, `OffMeansOffHolds` | `KeepOnline`: types and attempts; no start while the switch is off |
| | `MirrorTypeCorrect`, `KnowledgeSafeHolds` | `MirrorSnapshot`: types; one snapshot runs at a time; the knowledge is of the bound service and of a snapshot that ended well, the newest when it was written |
| `Market_proofs` | `EndsOnceHolds`, `ArchivedOwesNothingHolds`, `VendorSoundHolds`, `ToldOnceHolds` | delivered and refunded are final; an archived vendor has no open purchase; the vendor's account holds what open purchases paid and is what was paid less what went out; one message per order |
| | `EscrowImplementedHolds` | `Spec => Escrow!Spec`: the vendor's account is an escrow of its buyers |
| | `PotImplementsEscrow` | `Lottery`: the same of the pot and those who bought tickets |
| | `LimitsHold` | `Rewards`: the cap of a day and the cooldown |
| | `RoundSoundHolds` | `Lottery`: the pot holds what was paid and not given back; winner announced is winner paid |
| | `LinkTypeOK`, `CleanupFinalHolds` | `LinkRewards`: types; what a clean-up has ended stays ended |
| | `BucketPaidOnceHolds`, `NeverBeforeFirstLinkHolds` | `LinkRewards`: a bucket of an epoch is paid once; paid is who was verified as the player, for nothing before the first verification |
| | `MarketTypeOK`, `RoundTypeOK` | types of `Market` and of `Lottery`: purse and pot never below zero |
| | `TimePaidOnceHolds` | `LinkRewards`, commands one at a time (`InTurns`): no tick of a session is paid twice, over all users and epochs |
| `AdmIngest_proofs` | `IngestTypeOK`, `IngestInOrder` | types; what is stored for a binding is in the order it was written, across files, sessions, polls that are cut off and rebinding, and holds nothing a baseline passed over |
| | `FeedTypeOK`, `FeedCursorCovers` | `GameplayFeed`: types; the cursor passes no event without a delivery, unless a filter or a pause leaves it out |
| `Tickets_proofs` | `TypeCorrect`, `NumbersUniqueHolds` | types; without a reset no two tickets have one number, but for rows whose opening failed and that could not be deleted |
| | `UsersExactHolds`, `TemplateLivesHolds`, `ArchiveCompleteHolds` | no step changes the users of a ticket by more than one, so no change undoes another; an open ticket has its template; a channel goes only when its ticket is closed with a transcript, which holds all that opener and staff wrote if they were locked out |
| `Giveaway_proofs` | `DrawFairHolds` | one draw, of those who take part and no more than prizes, announced once |
| | `GiveawayTypeOK`, `PollTypeOK` | types of `Giveaway` and of `Poll` |
| | `PollHolds`, `CounterExactHolds` | `Poll`: nobody has more votes than allowed, the result stored is the one shown last and nothing is shown after it; counter and result are the votes |

They hold for all values of the constants that satisfy the modules' assumptions
(`NitradoAssumption`, `MarketAssumption` and so on; those of the modules that are
instantiated, `PlanAssumption`, `KeepAssumption`, `MirrorAssumption`, `PollAssumption`,
`RewardAssumption`, `RoundAssumption`, `AdmAssumption`, `FeedAssumption`, `NameAssumption`,
`CleanupAssumption` and `LinkAssumption`, are hypotheses of their theorems, and TLC evaluates them for its
instances: `Instances` in `MCServices`, `MCCommunity`, `MCEconomy` and `MCMembers`). They say that
bounds and amounts are numbers, that rows of a database are finitely many and that log
files are numbered in the order they begin. What a
theorem assumes besides stands in its statement, and is where the code needs it:

- `SessionLoss = FALSE` for `NitradoJobs`: PostgreSQL does not end the session that
  holds a connection lock (section 5);
- `InTurns` for `TimePaidOnce`: commands one after the other, none of which dies or is
  overtaken by the clock, and no forced links (section 5; the part `turns` is an instance);
- `~Resets` for the ticket numbers: the counter is not reset while tickets are opened;
- `~Puts` and at most one deletion for `TemplateLives`: nobody switches the template
  back on while it is deleted; no deletion for `ArchiveComplete`: a purge collects the
  messages without the lock of the ticket (section 5);
- finitely many users for `DrawFair`, whose winners are counted;
- `~Reactions` for the counter of a poll: finding 4;
- `~AddJobs` for `CleanedIsOff`: no ADD job was open when the clean-up began (section 5);
- `Bounded`: the bounds of `ServerBan` are numbers.

**NitradoJobs.** `LeaseOnRunning` is inductive together with the type, but for the
legacy fallback: the row it updates passed the lease check one statement earlier, and a
claim made since has touched the row, so that `updatedAt` no longer matches. `LeaseInv`
states this for every sweep. `CallsSerialised` is not inductive; the invariant is that
every execution from `TryLock` to its last transition holds the lock of its connection
(`HoldsLock`), and a function has one value. It does not depend on leases: zombies are
serialised too. For the refinement every step is one action of the queue on one row, a
purge or a stutter. `failJob` writes the attempts it read when the execution began;
`OwnerAttempts` says that they are the row's for as long as the execution owns the
claim, since only the owner counts attempts and everybody else who moves the row takes
the lease away (`Keeps`). `LockHolderWorks` and `HealthyClaimKept` go with
them (`LiveInv`): a lock is taken by an execution that is under way, and every end of an
execution gives it back; a claim that is renewed in time is never old enough to be swept,
and there is one lease per job.

**ServerBan.** `Unlisting` is what makes the order inductive: at the step that changes
the whitelist the name is on the ban list, or somebody has edited that list. Only the
worker's own removal could break it, and it does one thing at a time. The type
includes that no path leaves a job with more attempts than it may have.

**Whitelist.** Two things make the action properties inductive (`NameInv`). The lock: of
job, ban job and sync one holds it, so a name the sync found missing under the lock
(`Missed`) stays missing until its row goes, unless somebody edits the list (`Exclusive`).
And `Foreign`: a foreign name is listed, its row is not PENDING_REMOVE, and no execution,
sync or ban is about to take it off: what each of them decided upon would have ended its
being foreign.

**LeaveCleanup.** `CleanedIsOff` is about a step that reads the rows, the jobs and the
remote list one after the other, the last of them long before it ends. `NoAdd`: without a
command that adds, nothing lists the name: no ADD job, and no REMOVE job that a present
row would turn into one; `Off`: so as long as the name is listed, the request is in its
whitelist step and no worker is past it, whoever holds the claim. `Asked` says that the
handler of the last leave ends only when a request is written or asking for it has failed. The other three follow from
the guards of the writes and need the types alone.

**LinkRewards.** The invariant (`LinkInv`) goes along the way of a link to a payment. A
verified link is one of the verifications that happened, none of them in the future
(`Proven`); a command or a repair that is about to activate has linked before it
(`Tasked`, `Repaired`); so the owner of a reward state was verified as its identity at
some time, and by its cutoff as somebody (`Earns`), whichever process died between the
two rows. One progress exists for an identity and an epoch, only its owner is paid by it,
and nothing beyond the buckets it counts is paid (`Counted`, `Paid`): so a booking that
computed its buckets earlier, or is repeated, pays none twice. That `Earns` cannot say
*as that player by its cutoff* is the flaw of section 5.

`TimePaidOnce` needs more (`InTurns`), and an invariant of its own (`TurnInv`). Every
verified link is served, unless a clean-up is open: its state is on, evaluated, and of its
identity, or the link is of this tick and its command still under way (`Served`); so the
repair has nothing to switch on but what earns from now on (`Hooks`, `Young`). At most one
user earns for an identity, since it is free for another only after its owner has been
switched off (`OneOwner`, `Earning`, `Parting`). Each step therefore leaves a state that earns
as it was, or begins an epoch now (`Stays`), when all that was paid is over (`Over`): an
epoch begins after what was paid before it (`Later`), and buckets of different epochs lie
apart (`Apart`). Of one epoch they are different by `BucketPaidOnce` (`TicksApart`).

**RadarBans.** `BanStaysHome` needs the whole way from the offence to the list
(`Rules`): an offence bound under the present version happened on the present service
(`Homes`); what the runtime holds is PROCESSING or of an older version (`Judging`); a
valid fence names the service of an offence, and an active ban without a fence is a
moderator's (`Fences`); row, stored identity, job and snapshot name one player
(`Named`); so an execution about to add adds somebody who belongs there (`Calling`).
Who belongs on a list never ceases to (`EntitledKept`), so most steps need only one
lemma; `Decide`, `ReadBan`, `ReconRow` and `Rebind` carry the argument.

**Services.** `SyncedMatches` must hold although an execution may have lost the session
of its lock and another one run beside it. Two executions are then of different revisions
(`Alone`: a job that is RUNNING is not taken), and one of an older revision cannot mark
the plan. What remains is an execution of the newest revision that comes again, after a
crash, for a plan that is already SYNCED: it finds nothing to create and nothing to delete
(`Settled`), which needs that an exact set has one task for every time, all in one zone
(`ExactIs`, by cardinality). No assumption on `SessionLoss` is needed here. `OffMeansOff`
needs that the switch cannot be turned under an execution, which has read it before it
starts the server (`KeepInv`). `KnowledgeSafe` follows from the lease being of the newest
snapshot, the only one that may be running (`LeaseOfNewest`), and from what a run may rely
on where it stands, with or without the lease (`RunSound`).

**Market.** Every step leaves purchases and vendor alone (`Quiet`), opens purchases of a
vendor that is there (`Opens`), delivers (`Delivers`) or returns (`Returns`) open ones,
pays out what no open purchase claims (`Pays`) or ends a vendor that owes nothing
(`Goes`); each theorem follows from these six. Sums over the purchases are the community
modules' folds; their laws (an element taken out, disjoint sets, parts) are proved by
well-founded induction over the subsets of a finite set (`Minimal`): the function that
computes a fold exists and is unique, and a smallest set that broke a law would have a
smaller one inside.

**Rewards.** `LimitsKept` is inductive with the types: a step pays nobody (`Unpaid`) or
one kill (`Pay`), and a payment counts, in its transaction, every kill of the user that is
PAID. It adds to the sum of one day, never more than the cap leaves; the cooldown looks
both ways, since kills are not booked in the order they happened.

**Lottery.** The pot equals the price of the purchases that were not returned,
corrected by the payout. The inductive invariant adds what a settler may still have in
hand (`SettlerSound`): whom it pays is the winner, whom it refunds took part.

**Escrow.** For the vendor's account each of the six kinds of step is a step of `Escrow`:
`Opens` deposits, `Delivers` releases nothing but the claim, `Returns` returns, `Pays`
releases money without a claim, `Goes` ends; `PendingCovered` is what makes each of them
allowed. For the pot, a ticket is a deposit, since tickets are sold before anything is
refunded; the payment of the winner meets all claims at once, as `final` is then the whole
pot; a refund returns every ticket of its user, exactly once, because the booking and
`refunded` change together (`RefundReturns`). That the archived pot owes nobody anything
(`ArchiveEnds`) needs that an empty pot of an unfinished round has nobody left to refund.
Sums of ones are cardinalities (`TotalCount`), again by `Minimal`.

**AdmIngest.** A poll stores a range of lines it chose several reads earlier, and `InOrder`
holds because nothing known can lie in that range or behind it. The disk has its files one
after the other, each line younger than those before it (`DiskSound`); a cursor lies within
its file (`CursorsSound`); every line known is passed, that is of an older file or session
than the cursor or behind it. For a poll that may still store, the listing (`ListSound`), the
baseline (`TailSound`), the files left to do (`TodoSound`) and the chosen range
(`RangeSound`) agree with cursors and disk, so what comes next is the range directly behind
all that is known (`RangeIsNext`) and storing it leaves the order (`OrderStays`). Rebinding
begins a fresh version, of which no cursor, list or line exists, and a poll of the old one
can store nothing any more.

**GameplayFeed.** The cursor is written after the deliveries of its batch, so between the
two the run itself has the events up to where it is (`CursorsCover`); a run that dies leaves
the cursor behind. A lease nobody works under took a failure (`Tries`).

**Tickets.** A number goes back to the counter only if the counter still has it. The
invariant (`Rules`) is that every row and every opening with a number lies within the
counter, that openings have different numbers and own the row of theirs, and that a
number about to go back belongs to no row (`ReturnedFree`). Steps that give out no number
are `Calm` and need one lemma; `CreateInstance`, `Ready`, `DeleteInstance` and `Uncount`
have one each. `UsersExact`: a row not yet given
out has no users and nobody changes them (`Unborn`, `Begun`); every other change is a
compare-and-set of one user. `TemplateLives`: one deletion at a time (`Deletions`), which
has switched the template off before it lists the open tickets and removes it only when
none is open (`Removing`). `ArchiveComplete` (`Archive`): whoever deletes a channel has stored
its transcript, or is an opening that has given up its row, also where the row survives
(`TaskRules`); what a close has collected stays all that is written as long as the channel
is locked (`Whole`); and one close at a time holds the lock of a ticket (`Alone`), so that
no other one unlocks the channel or stores less. Every step of another task leaves a ticket
so that these rules survive (`Loose`), but for a close that closes it, which those rules
survive that are not about closing (`Gentle`).

**Giveaway.** A draw has read nobody whose entry is gone without knowing it (`Drawing`),
and whoever is about to announce is the only one, with the winners marked and nothing
told before (`Announcing`). What is chosen from a finite set is no larger than the number
of prizes (`DrawCounted`).

**Poll.** A task inside its transaction holds the lock of a poll that is active (`Holds`),
so what it has read covers the votes of its user until it writes, but for reactions taken
back, which only remove votes: there is room for the vote it adds, or one goes for it
(`Writing`, `Committing`). An end that is about to be committed was announced (`Announced`,
`Told`). Without reactions the counter is the number of votes (`Counting`).

Only model-checked: liveness and what depends on ENABLED (no prover here treats them: all
`…Settle`, `…Settles`, `…Finishes`, `…Ends`, `…Earns`, `OutcomesTold`,
`KeepsOnline` but for `OffMeansOff`); and the types of `Rewards`, whose pages are a
`SelectSeq`, which has no meaning for the provers. Of the logs, `NothingPassed`
is violated (section 5) and no theorem.

## 7. Not modelled

- The components marked `not_modelled` in `PROJECT.json`, each with its reason; by size
  most of the repository: the dashboard's user interface, commands, embeds, AI prompts and
  catalogues, CRUD routes without protocol state. The map therefore covers a small share
  of all lines, and most of those in which processes meet.
- `NitradoJobs`: which operation a job carries, except in the modules of its users.
- `ServerBan`: stored identities that do not decrypt; the whitelist mirror (in
  `Whitelist`); the dashboard's drift resolution, which has the effect of `DriftCommit`
  under stronger guards; batch limits (200 rows a run), which only defer rows.
- `LeaveCleanup`: goodbye messages, direct grants, several links; `LinkRewards`: the
  resolution of names, amounts and wallets.
- Market bundles, stock texts, virtual accounts, bank, casino; several feeds of one
  channel; foreign restart tasks that are not daily; roles and reroll of giveaways;
  permissions and messages of managers and added users in tickets.
- Wording, payload encryption, audit records and metrics everywhere.
- Properties the code does not keep and no run shows: `RemoveIntentKept`, `AddIntentKept`,
  `NoOrphanOnList` (`Whitelist`), `NeverStepsBack`, `NoAddWhileOpen`, `WaitsNeverKill`,
  `PresentIsActive` (`LeaveCleanup`), `NoticeTruthful` and `IdentityKept` (`ServerBan`), `NeverBeforeLink`,
  `UnlinkedUnpaid`, `UnlinkStays` (`LinkRewards`), `UnbanVisible` (`RadarBans`); and without
  the assumptions of their theorems `NumbersUnique`, `TemplateLives` and `ArchiveComplete`
  (`Tickets`). Section 5 says why.
