------------------------------ MODULE LinkRewards ------------------------------
(***************************************************************************)
(* Which Discord user earns for the play time of which game identity       *)
(* (src/modules/linking, src/modules/economy/playtimeBooking.ts).  A link  *)
(* and its reward state are two rows, written by two transactions: the     *)
(* /link, /unlink, force-link and force-unlink commands may stop between   *)
(* them, and the ADM post-process cron repairs what is left, force links   *)
(* first, then all verified links, before it books play time.              *)
(*                                                                         *)
(* One gameserver; every game identity has one player name and one         *)
(* session.  Every transaction of the code that takes the leave lock of    *)
(* its user is one action.                                                 *)
(***************************************************************************)
EXTENDS Naturals

CONSTANTS
    Users, Ids,     \* Discord users, game identities (None is neither)
    None,
    Tasks,          \* commands under way at the same time
    Kinds,          \* kinds of commands
    Bucket,         \* REWARD_BUCKET_SECONDS in ticks of the clock
    MaxTime,        \* bound: ticks
    MaxCommands,    \* bound: commands
    MaxLeaves,      \* bound: leaves
    MaxFaults,      \* bound: commands or cron runs that die
    Slow            \* may a tick pass while a command or the repair is under way?

\* The bounds are numbers, time begins at 1, and None is neither a user nor an identity.
LinkAssumption ==
    /\ Bucket \in Nat \ {0} /\ MaxTime \in Nat \ {0}
    /\ MaxCommands \in Nat /\ MaxLeaves \in Nat /\ MaxFaults \in Nat
    /\ Kinds \subseteq {"link", "force", "unlink", "forceUnlink"} /\ Slow \in BOOLEAN
    /\ None \notin Users \union Ids

VARIABLES
    now,       \* the clock
    link,      \* GameIdentityLink of every user
    reward,    \* EconomyLinkRewardState of every user
    leave,     \* the leave clean-up of every user: open?, completed at (0: never)
    task,      \* task[t]: where command t is
    cron,      \* where the post-process cron is
    session,   \* the session of every identity
    progress,  \* PlaytimeRewardProgress: [session, epoch, buckets]
    paid,      \* play time buckets in the ledger
    verified,  \* history: <<u, g, at>> of every verification
    linked,    \* history: <<u, g, tick>> for every tick spent linked
    spent      \* [commands, leaves, faults] so far

vars == <<now, link, reward, leave, task, cron, session, progress, paid, verified, linked, spent>>

NoLink   == [status |-> "NONE", id |-> None, forced |-> None, at |-> 0]
NoReward == [here |-> FALSE, id |-> None, from |-> 0, off |-> FALSE, eligible |-> FALSE]
NoTask   == [pc |-> "idle", kind |-> "link", u |-> None, id |-> None, new |-> FALSE, at |-> 0]
NoCron   == [pc |-> "idle", todo |-> {}, out |-> {}, at |-> 0]
Job      == [u: Users, id: Ids, new: BOOLEAN, at: 0..MaxTime, sub: {"row", "hook", "grant"}]
Claim    == [id: Ids, u: Users, from: 0..MaxTime, to: 0..MaxTime]

TypeOK ==
    /\ now \in 1..MaxTime
    /\ link \in [Users -> [status: {"NONE", "VERIFIED", "UNLINKED"}, id: Ids \union {None},
                           forced: Ids \union {None}, at: 0..MaxTime]]
    /\ \A u \in Users : (link[u].id # None) = (link[u].status = "VERIFIED")
    /\ reward \in [Users -> [here: BOOLEAN, id: Ids \union {None}, from: 0..MaxTime,
                             off: BOOLEAN, eligible: BOOLEAN]]
    /\ leave \in [Users -> [open: BOOLEAN, done: 0..MaxTime]]
    /\ task \in [Tasks -> [pc: {"idle", "persist", "hook", "activate", "grant", "unlink", "off", "clear"},
                           kind: {"link", "force", "unlink", "forceUnlink"}, u: Users \union {None},
                           id: Ids \union {None}, new: BOOLEAN, at: 0..MaxTime]]
    /\ cron.pc \in {"idle", "forced", "hooks", "states", "repair", "book"}
    /\ cron.todo \subseteq Job \union Claim \union Ids /\ cron.out \subseteq Job /\ cron.at \in 0..MaxTime
    /\ session \in [Ids -> [open: BOOLEAN, from: 1..MaxTime, to: 0..MaxTime, passed: BOOLEAN]]
    /\ progress \subseteq [id: Ids, epoch: 0..MaxTime, n: 0..MaxTime]
    /\ paid \subseteq [id: Ids, u: Users, epoch: 0..MaxTime, n: 1..MaxTime]
    /\ spent \in [commands: 0..MaxCommands, leaves: 0..MaxLeaves, faults: 0..MaxFaults]

\* Everybody plays since the first tick, nobody is linked yet.
Init ==
    /\ now = 1
    /\ link = [u \in Users |-> NoLink]
    /\ reward = [u \in Users |-> NoReward]
    /\ leave = [u \in Users |-> [open |-> FALSE, done |-> 0]]
    /\ task = [t \in Tasks |-> NoTask]
    /\ cron = NoCron
    /\ session = [g \in Ids |-> [open |-> TRUE, from |-> 1, to |-> 0, passed |-> FALSE]]
    /\ progress = {} /\ paid = {} /\ verified = {} /\ linked = {}
    /\ spent = [commands |-> 0, leaves |-> 0, faults |-> 0]

Spend(field, max) == spent[field] < max /\ spent' = [spent EXCEPT ![field] = @ + 1]

Verified(u) == link[u].status = "VERIFIED"
Owner(g)    == {u \in Users : Verified(u) /\ link[u].id = g}

-----------------------------------------------------------------------------
(* The transactions *)

\* No clean-up open, and none completed at or after the moment the attempt began.
Fenced(u, at) == leave[u].open \/ (leave[u].done > 0 /\ at <= leave[u].done)

\* persistVerifiedLink: a link of the same identity stays as it is.  The name a
\* force link has left is not touched.
MayLink(u, g) == (Verified(u) => link[u].id = g) /\ Owner(g) \subseteq {u}

\* persistAdminForcedLink: a verified link must have been forced, to the same name.
MayForce(u, g) == /\ Verified(u) => link[u].forced = g
                  /\ \A v \in Users \ {u} : Verified(v) => g \notin {link[v].id, link[v].forced}

Linked(u, g, name, at) ==
    IF Verified(u) /\ link[u].id = g THEN UNCHANGED <<link, verified>>
    ELSE /\ link' = [link EXCEPT ![u] = [status |-> "VERIFIED", id |-> g, forced |-> name, at |-> at]]
         /\ verified' = verified \union {<<u, g, at>>}

\* assertFreshVerifiedLinkInTx: the link is there, and younger than the last clean-up.
Fresh(u, g) == Verified(u) /\ link[u].id = g /\ link[u].at > leave[u].done

\* activateLinkRewardState; a link that is new moves the cutoff of a state that is there.
Activated(u, g, new, at) ==
    [reward EXCEPT ![u] =
        IF ~@.here THEN [here |-> TRUE, id |-> g, from |-> at, off |-> FALSE, eligible |-> TRUE]
        ELSE [@ EXCEPT !.id = g, !.off = FALSE, !.from = IF new THEN at ELSE reward[u].from]]

\* activateLinkRewardState throws, in which case the hook ends.
CanActivate(u, g) == ~leave[u].open /\ Fresh(u, g)

\* grantStartBalanceForLink: the eligibility is used up, with or without a payment.
Granted(u) == IF leave[u].open THEN reward
              ELSE [reward EXCEPT ![u].eligible = @ /\ (reward[u].off \/ ~reward[u].here)]

\* deactivateLinkRewardState
Deactivated(u) == [reward EXCEPT ![u].off = @ \/ reward[u].here]

-----------------------------------------------------------------------------
(* Commands *)

Goto(t, pc) == task' = [task EXCEPT ![t].pc = pc]
End(t)      == task' = [task EXCEPT ![t] = NoTask]
At(t, pc)   == task[t].pc = pc

\* linkByPlayerName and forceAdminLinkByPlayerName look for the clean-up first.
Begin(t, kind, u, g) ==
    /\ At(t, "idle") /\ Spend("commands", MaxCommands)
    /\ \/ kind \in {"link", "force"} /\ ~leave[u].open /\ g # None
       \/ kind \in {"unlink", "forceUnlink"} /\ g = None
    /\ task' = [task EXCEPT ![t] = [pc |-> IF g = None THEN "unlink" ELSE "persist", kind |-> kind,
                                    u |-> u, id |-> g, new |-> FALSE, at |-> now]]
    /\ UNCHANGED <<now, link, reward, leave, cron, session, progress, paid, verified, linked>>

Persist(t) ==
    LET u == task[t].u  g == task[t].id  at == task[t].at  forced == task[t].kind = "force"
    IN /\ At(t, "persist")
       /\ \/ /\ Fenced(u, at) \/ ~(IF forced THEN MayForce(u, g) ELSE MayLink(u, g))
             /\ End(t) /\ UNCHANGED <<link, verified>>
          \/ /\ ~Fenced(u, at) /\ (IF forced THEN MayForce(u, g) ELSE MayLink(u, g))
             /\ Linked(u, g, IF forced THEN g ELSE link[u].forced, at)
             /\ task' = [task EXCEPT ![t].pc = "hook", ![t].new = ~Verified(u)]
       /\ UNCHANGED <<now, reward, leave, cron, session, progress, paid, linked, spent>>

\* applySuccessfulLinkEconomyEffects takes the time before its first look.
Hook(t) ==
    /\ At(t, "hook")
    /\ IF leave[task[t].u].open THEN End(t)
       ELSE task' = [task EXCEPT ![t].pc = "activate", ![t].at = now]
    /\ UNCHANGED <<now, link, reward, leave, cron, session, progress, paid, verified, linked, spent>>

Activate(t) ==
    LET u == task[t].u  g == task[t].id
    IN /\ At(t, "activate")
       /\ IF CanActivate(u, g) THEN reward' = Activated(u, g, task[t].new, task[t].at) /\ Goto(t, "grant")
                               ELSE End(t) /\ UNCHANGED reward
       /\ UNCHANGED <<now, link, leave, cron, session, progress, paid, verified, linked, spent>>

GrantStartBalance(t) ==
    /\ At(t, "grant")
    /\ reward' = Granted(task[t].u)
    /\ End(t)
    /\ UNCHANGED <<now, link, leave, cron, session, progress, paid, verified, linked, spent>>

\* unlinkUser; /unlink ends when there was no link, /force-unlink goes on.
Unlink(t) ==
    LET u == task[t].u
    IN /\ At(t, "unlink")
       /\ IF Verified(u) THEN link' = [link EXCEPT ![u].status = "UNLINKED", ![u].id = None]
                         ELSE UNCHANGED link
       /\ CASE task[t].kind = "forceUnlink" -> Goto(t, "clear")
            [] Verified(u) -> Goto(t, "off")
            [] OTHER -> End(t)
       /\ UNCHANGED <<now, reward, leave, cron, session, progress, paid, verified, linked, spent>>

DeactivateRewards(t) ==
    /\ At(t, "off")
    /\ reward' = Deactivated(task[t].u)
    /\ IF task[t].kind = "unlink" THEN Goto(t, "clear") ELSE End(t)
    /\ UNCHANGED <<now, link, leave, cron, session, progress, paid, verified, linked, spent>>

ClearForcedName(t) ==
    /\ At(t, "clear")
    /\ link' = [link EXCEPT ![task[t].u].forced = None]
    /\ IF task[t].kind = "forceUnlink" THEN Goto(t, "off") ELSE End(t)
    /\ UNCHANGED <<now, reward, leave, cron, session, progress, paid, verified, linked, spent>>

\* A command dies between two of its transactions.
Dies(t) ==
    /\ ~At(t, "idle") /\ Spend("faults", MaxFaults)
    /\ End(t)
    /\ UNCHANGED <<now, link, reward, leave, cron, session, progress, paid, verified, linked>>

-----------------------------------------------------------------------------
(* The leave clean-up, as this part of the system sees it *)

LeaveBegins(u) ==
    /\ ~leave[u].open /\ Spend("leaves", MaxLeaves)
    /\ leave' = [leave EXCEPT ![u].open = TRUE]
    /\ UNCHANGED <<now, link, reward, task, cron, session, progress, paid, verified, linked>>

LeaveCompletes(u) ==
    /\ leave[u].open
    /\ leave' = [leave EXCEPT ![u] = [open |-> FALSE, done |-> now]]
    /\ link' = [link EXCEPT ![u] = NoLink]
    /\ reward' = [reward EXCEPT ![u] = NoReward]
    /\ UNCHANGED <<now, task, cron, session, progress, paid, verified, linked, spent>>

-----------------------------------------------------------------------------
(* The ADM post-process cron *)

CronGoto(pc, todo, out) == cron' = [cron EXCEPT !.pc = pc, !.todo = todo, !.out = out]

\* reconcileAdminForcedLinks reads the forced links, ...
CronStart ==
    /\ cron.pc = "idle"
    /\ cron' = [pc |-> "forced", out |-> {}, at |-> now,
                todo |-> {[u |-> u, id |-> link[u].forced, new |-> FALSE, at |-> now, sub |-> "row"] :
                          u \in {v \in Users : Verified(v) /\ link[v].forced # None}}]
    /\ UNCHANGED <<now, link, reward, leave, task, session, progress, paid, verified, linked, spent>>

\* ... and persists each of them again.
CronForce(j) ==
    /\ cron.pc = "forced" /\ j \in cron.todo
    /\ ~Fenced(j.u, j.at)
    /\ IF MayForce(j.u, j.id)
       THEN /\ Linked(j.u, j.id, j.id, j.at)
            /\ CronGoto("forced", cron.todo \ {j},
                        cron.out \union {[j EXCEPT !.new = ~Verified(j.u), !.sub = "hook"]})
       ELSE CronGoto("forced", cron.todo \ {j}, cron.out) /\ UNCHANGED <<link, verified>>
    /\ UNCHANGED <<now, reward, leave, task, session, progress, paid, linked, spent>>

\* The fence throws through the loop: no hook is run, not even of links already bound.
CronForceFails(j) ==
    /\ cron.pc = "forced" /\ j \in cron.todo /\ Fenced(j.u, j.at)
    /\ CronGoto("states", {}, {})
    /\ UNCHANGED <<now, link, reward, leave, task, session, progress, paid, verified, linked, spent>>

CronForced ==
    /\ cron.pc = "forced" /\ cron.todo = {}
    /\ CronGoto("hooks", {[j EXCEPT !.at = now] : j \in cron.out}, {})
    /\ UNCHANGED <<now, link, reward, leave, task, session, progress, paid, verified, linked, spent>>

\* applySuccessfulLinkEconomyEffects of one link, and what follows when it was the last.
CronHook(j) ==
    /\ cron.pc \in {"hooks", "repair"} /\ j \in cron.todo
    /\ \/ /\ j.sub = "hook" /\ CanActivate(j.u, j.id)
          /\ reward' = Activated(j.u, j.id, j.new, j.at)
          /\ CronGoto(cron.pc, (cron.todo \ {j}) \union {[j EXCEPT !.sub = "grant"]}, {})
       \/ /\ j.sub = "hook" /\ ~CanActivate(j.u, j.id)
          /\ CronGoto(cron.pc, cron.todo \ {j}, {}) /\ UNCHANGED reward
       \/ /\ j.sub = "grant"
          /\ reward' = Granted(j.u)
          /\ CronGoto(cron.pc, cron.todo \ {j}, {})
    /\ UNCHANGED <<now, link, leave, task, session, progress, paid, verified, linked, spent>>

CronHooked ==
    /\ cron.todo = {}
    /\ \/ cron.pc = "hooks" /\ CronGoto("states", {}, {})
       \/ cron.pc = "repair" /\ cron' = [pc |-> "book", at |-> now, out |-> {},
                                         todo |-> {g \in Ids : session[g].open \/ ~session[g].passed}]
    /\ UNCHANGED <<now, link, reward, leave, task, session, progress, paid, verified, linked, spent>>

\* Mutant of NeedsRepair: a state that was switched off is left alone.
NeedsRepairMissing(u) ==
    /\ Verified(u)
    /\ ~reward[u].here \/ reward[u].id # link[u].id \/ reward[u].eligible

\* linkNeedsEconomyRepair
NeedsRepair(u) ==
    /\ Verified(u)
    /\ ~reward[u].here \/ reward[u].off \/ reward[u].id # link[u].id \/ reward[u].eligible

\* reconcileVerifiedLinkEconomyEffects reads links and states; the cutoff will be the
\* time the link was verified at.
CronStates ==
    /\ cron.pc = "states"
    /\ CronGoto("repair",
                {[u |-> u, id |-> link[u].id, at |-> link[u].at, sub |-> "hook",
                  new |-> reward[u].here /\ (reward[u].off \/ reward[u].id # link[u].id)] :
                 u \in {v \in Users : NeedsRepair(v)}}, {})
    /\ UNCHANGED <<now, link, reward, leave, task, session, progress, paid, verified, linked, spent>>

\* resolveRewardIdentity of the session's identity, outside the transaction.
CronResolve(g) ==
    /\ cron.pc = "book" /\ g \in cron.todo \intersect Ids
    /\ LET earners == {u \in Owner(g) : reward[u].here /\ ~reward[u].off /\ reward[u].id = g}
       IN CronGoto("book", (cron.todo \ {g}) \union
                           {[id |-> g, u |-> u, from |-> reward[u].from, to |-> cron.at] : u \in earners}, {})
    /\ session' = [session EXCEPT ![g].passed = @ \/ ~session[g].open]
    /\ UNCHANGED <<now, link, reward, leave, task, progress, paid, verified, linked, spent>>

\* Mutant of Start: the whole session counts, whatever the epoch.
StartOfSession(g, from) == session[g].from

\* eligiblePlaytimeBuckets
Start(g, from)    == IF from > session[g].from THEN from ELSE session[g].from
Eligible(g, from, to) ==
    LET end == IF session[g].open \/ session[g].to > to THEN to ELSE session[g].to
    IN IF end <= Start(g, from) THEN 0 ELSE (end - Start(g, from)) \div Bucket

Done(g, from) == LET p == {q \in progress : q.id = g /\ q.epoch = from}
                 IN IF p = {} THEN 0 ELSE (CHOOSE q \in p : TRUE).n

\* processSession's transaction: no clean-up, the state still that of the epoch, and
\* every bucket beyond the progress.
CronBook(c) ==
    LET n == Eligible(c.id, c.from, c.to)
        current == reward[c.u] IN
    /\ cron.pc = "book" /\ c \in cron.todo \intersect Claim
    /\ IF /\ n > Done(c.id, c.from) /\ ~leave[c.u].open
          /\ current.here /\ ~current.off /\ current.id = c.id /\ current.from = c.from
       THEN /\ \E payout \in BOOLEAN :
                 paid' = paid \union (IF payout THEN {[id |-> c.id, u |-> c.u, epoch |-> c.from, n |-> i] :
                                                      i \in (Done(c.id, c.from) + 1)..n} ELSE {})
            /\ progress' = {p \in progress : ~(p.id = c.id /\ p.epoch = c.from)}
                           \union {[id |-> c.id, epoch |-> c.from, n |-> n]}
       ELSE UNCHANGED <<paid, progress>>
    /\ CronGoto("book", cron.todo \ {c}, {})
    /\ UNCHANGED <<now, link, reward, leave, task, session, verified, linked, spent>>

CronEnd ==
    /\ cron.pc = "book" /\ cron.todo = {}
    /\ cron' = NoCron
    /\ UNCHANGED <<now, link, reward, leave, task, session, progress, paid, verified, linked, spent>>

CronDies ==
    /\ cron.pc # "idle" /\ Spend("faults", MaxFaults)
    /\ cron' = NoCron
    /\ UNCHANGED <<now, link, reward, leave, task, session, progress, paid, verified, linked>>

-----------------------------------------------------------------------------
Disconnect(g) ==
    /\ session[g].open
    /\ session' = [session EXCEPT ![g].open = FALSE, ![g].to = now]
    /\ UNCHANGED <<now, link, reward, leave, task, cron, progress, paid, verified, linked, spent>>

Busy == (\E t \in Tasks : ~At(t, "idle")) \/ cron.pc # "idle"

Tick ==
    /\ now < MaxTime
    /\ Slow \/ ~Busy
    /\ now' = now + 1
    /\ linked' = linked \union {<<u, link[u].id, now>> : u \in {v \in Users : Verified(v)}}
    /\ UNCHANGED <<link, reward, leave, task, cron, session, progress, paid, verified, spent>>

Command(t) == Persist(t) \/ Hook(t) \/ Activate(t) \/ GrantStartBalance(t)
              \/ Unlink(t) \/ DeactivateRewards(t) \/ ClearForcedName(t)

Cron == \/ CronStart \/ CronForced \/ CronHooked \/ CronStates \/ CronEnd
        \/ \E j \in cron.todo \intersect Job : CronForce(j) \/ CronForceFails(j) \/ CronHook(j)
        \/ \E g \in Ids : CronResolve(g)
        \/ \E c \in cron.todo \intersect Claim : CronBook(c)

Next ==
    \/ \E t \in Tasks :
          \/ \E kind \in Kinds, u \in Users, g \in Ids \union {None} : Begin(t, kind, u, g)
          \/ Command(t) \/ Dies(t)
    \/ Cron \/ CronDies
    \/ \E u \in Users : LeaveBegins(u) \/ LeaveCompletes(u)
    \/ \E g \in Ids : Disconnect(g)
    \/ Tick

Spec == Init /\ [][Next]_vars

\* Commands go on, the cron runs again and again, clean-ups come to their end.
FairSpec == Spec /\ \A t \in Tasks : WF_vars(Command(t))
                 /\ WF_vars(Cron) /\ \A u \in Users : WF_vars(LeaveCompletes(u))

-----------------------------------------------------------------------------
\* The ticks a paid bucket stands for.
Ticks(b) == (Start(b.id, b.epoch) + (b.n - 1) * Bucket)..(Start(b.id, b.epoch) + b.n * Bucket - 1)

\* What a clean-up has removed stays removed: a link or a reward state after it belongs
\* to an attempt that began after it (persistVerifiedLink, assertFreshVerifiedLinkInTx).
CleanupFinal ==
    \A u \in Users : /\ Verified(u) => link[u].at > leave[u].done
                     /\ reward[u].here => link[u].status # "NONE"

\* Play time is only paid to a user who has been verified as the player, and none of it
\* is older than the first time that user was verified as anybody (resolveRewardIdentity,
\* rewardEligibleFrom).
NeverBeforeFirstLink ==
    \A b \in paid : /\ \E v \in verified : v[1] = b.u /\ v[2] = b.id
                    /\ \E v \in verified : v[1] = b.u /\ \A i \in Ticks(b) : v[3] <= i

\* A bucket of one reward epoch is paid once, whoever's epoch it is: two users may have
\* been verified as one player in the same second (PlaytimeRewardProgress).
BucketPaidOnce ==
    \A b, c \in paid : b.id = c.id /\ b.epoch = c.epoch /\ b.n = c.n => b = c

\* Commands come one after the other, each to its end, and while one or the repair is
\* under way no tick passes; nobody forces a link.  (An identity is not a record.)
InTurns ==
    /\ \A s, t \in Tasks : s = t
    /\ Kinds \subseteq {"link", "unlink"} /\ MaxFaults = 0 /\ ~Slow
    /\ Ids \intersect Claim = {}

\* No tick of a session is paid twice, over all users and reward epochs, as long as every
\* command comes to its end before the next one (InTurns; see NeverBeforeLink).
TimePaidOnce ==
    \A b, c \in paid : b.id = c.id /\ b # c => Ticks(b) \intersect Ticks(c) = {}

\* linkEconomyReconcile.ts: whatever died half-way, a verified link comes to earn:
\* its reward state becomes active, evaluated, and that of its own identity.
LinkEarns ==
    \A u \in Users : Verified(u) ~> \/ ~Verified(u) \/ leave[u].open
                                    \/ /\ reward[u].here /\ ~reward[u].off /\ ~reward[u].eligible
                                       /\ reward[u].id = link[u].id

-----------------------------------------------------------------------------
(* What comments of the code promise and the code does not keep: the README *)
(* tells for each how it fails.                                             *)

\* Play time before a link with its player is never paid.
NeverBeforeLink ==
    \A b \in paid : \E v \in verified : v[1] = b.u /\ v[2] = b.id /\ \A i \in Ticks(b) : v[3] <= i

\* Every tick that is paid was spent linked.
UnlinkedUnpaid ==
    \A b \in paid : \A i \in Ticks(b) : <<b.u, b.id, i>> \in linked \/ i >= now

\* An unlink holds until a link command of its own: the cron relinks nobody.
UnlinkStays ==
    [][\A u \in Users : link[u].status = "UNLINKED" /\ link'[u].status = "VERIFIED" => cron' = cron]_vars
=============================================================================
