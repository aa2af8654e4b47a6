------------------------------ MODULE Rewards ------------------------------
(***************************************************************************)
(* Rewards for kills in the log of one game server: events come in, in the *)
(* order the log was read and not always in the order they happened; a     *)
(* cron run decides the events behind its cursor page by page, then books  *)
(* the pending decisions in the order of the events, each in a transaction *)
(* that applies the cooldown and the daily cap of the rule.                *)
(*                                                                         *)
(* One rule.  A kill without a linked killer at its time has killer None.  *)
(* The two awaits of a decision, the resolution of the killer and the      *)
(* insertion, are two actions: a leave may be cleaned up in between.       *)
(***************************************************************************)
EXTENDS Integers, Sequences, FiniteSets, FiniteSetsExt, SequencesExt

CONSTANTS
    Events, Users, None,
    Killer,             \* [Events -> Users \union {None}]
    Time, DayLength,    \* [Events -> Nat]; of a day
    Base, Cap, Cooldown,\* of the rule; 0: no cap, no cooldown
    Batch, ListSize,    \* events of a page; decisions of a booking pass
    Leavers,            \* users who may leave, once
    MaxSwitches, MaxFaults \* bounds: changes of the switch; crashes and failures

VARIABLES
    log,                \* Seq(Events), in the order of ingestion
    cursor,             \* how many of them are decided
    status, paid,       \* [Events -> ...]: the decision of an event
    active,             \* the economy of the server and its rewards are on
    cron,               \* the run under way
    leave,              \* [Users -> "here", "open", "back", "gone"]
    switches, faults

\* Rows of a database, times and amounts that are numbers.
RewardAssumption ==
    IsFiniteSet(Events) /\ Time \in [Events -> Nat] /\ Base \in Nat /\ Cap \in Nat /\ Cooldown \in Nat

decisions == <<status, paid>>
vars == <<log, cursor, decisions, active, cron, leave, switches, faults>>

Idle == [at |-> "idle", on |-> FALSE, todo |-> <<>>, upto |-> 0, user |-> None]
Day(e)     == Time[e] \div DayLength
Between(a, b) == IF Time[a] < Time[b] THEN Time[b] - Time[a] ELSE Time[a] - Time[b]
Logged(e)  == \E i \in DOMAIN log : log[i] = e

Init ==
    /\ log = <<>> /\ cursor = 0 /\ active \in BOOLEAN
    /\ status = [e \in Events |-> "NONE"] /\ paid = [e \in Events |-> 0]
    /\ cron = Idle
    /\ leave = [u \in Users |-> "here"] /\ switches = 0 /\ faults = 0

TypeOK ==
    /\ log \in Seq(Events) /\ cursor \in 0..Len(log) /\ active \in BOOLEAN
    /\ status \in [Events -> {"NONE", "PENDING", "PAID", "SKIPPED"}]
    /\ paid \in [Events -> 0..Base]
    /\ cron.at \in {"idle", "page", "resolve", "create", "advance", "list", "book"} /\ cron.upto \in 0..Len(log)
    /\ cron.todo \in Seq(Events) /\ cron.user \in Users \union {None}
    /\ leave \in [Users -> {"here", "open", "back", "gone"}]
    /\ switches \in 0..MaxSwitches /\ faults \in 0..MaxFaults

-----------------------------------------------------------------------------
(* What happens around the cron.                                           *)

Ingest(e) ==
    /\ ~Logged(e) /\ log' = Append(log, e)
    /\ UNCHANGED <<cursor, decisions, active, cron, leave, switches, faults>>

Switch ==
    /\ switches < MaxSwitches /\ switches' = switches + 1
    /\ active' = ~active
    /\ UNCHANGED <<log, cursor, decisions, cron, leave, faults>>

Leave(u) ==
    /\ u \in Leavers /\ leave[u] = "here"
    /\ leave' = [leave EXCEPT ![u] = "open"]
    /\ UNCHANGED <<log, cursor, decisions, active, cron, switches, faults>>

\* The user comes back before the clean-up, or it completes and with it what was pending.
LeaveEnds(u) ==
    /\ leave[u] = "open"
    /\ \/ leave' = [leave EXCEPT ![u] = "back"] /\ UNCHANGED status
       \/ /\ leave' = [leave EXCEPT ![u] = "gone"]
          /\ status' = [e \in Events |-> IF Killer[e] = u /\ status[e] = "PENDING" THEN "SKIPPED" ELSE status[e]]
    /\ UNCHANGED <<log, cursor, paid, active, cron, switches, faults>>

-----------------------------------------------------------------------------
(* The cron.                                                               *)

Start ==
    /\ cron.at = "idle"
    /\ cron' = [Idle EXCEPT !.at = "page", !.on = active]
    /\ UNCHANGED <<log, cursor, decisions, active, leave, switches, faults>>

PageEnd == Min({Len(log), cursor + Batch})

\* Mutant of Advanced: the cursor moves when the page is read, not when it is decided.
AdvancedFirst(step) == IF step = "page" THEN PageEnd ELSE cursor

\* The cursor after a step of the cron: it never moves back.
Advanced(step) == IF step = "advance" THEN Max({cursor, cron.upto}) ELSE cursor

\* The next events; those a run that was cut off has decided are passed over.
Page ==
    /\ cron.at = "page"
    /\ LET undecided == SelectSeq(SubSeq(log, cursor + 1, PageEnd), LAMBDA e : status[e] = "NONE")
       IN cron' = IF PageEnd = cursor THEN [cron EXCEPT !.at = "list"]
                  ELSE [cron EXCEPT !.at = "resolve", !.todo = undecided, !.upto = PageEnd]
    /\ cursor' = Advanced("page")
    /\ UNCHANGED <<log, decisions, active, leave, switches, faults>>

Resolve ==
    /\ cron.at = "resolve" /\ cron.todo # <<>>
    /\ LET u == Killer[Head(cron.todo)]
       IN cron' = [cron EXCEPT !.at = "create",
                               !.user = IF cron.on /\ u # None /\ leave[u] # "gone" THEN u ELSE None]
    /\ UNCHANGED <<log, cursor, decisions, active, leave, switches, faults>>

Create ==
    /\ cron.at = "create"
    /\ status' = [status EXCEPT ![Head(cron.todo)] = IF cron.user = None THEN "SKIPPED" ELSE "PENDING"]
    /\ cron' = [cron EXCEPT !.at = "resolve", !.todo = Tail(@), !.user = None]
    /\ UNCHANGED <<log, cursor, paid, active, leave, switches, faults>>

\* After a page that was not full there is no other.
Advance ==
    /\ cron.at = "resolve" /\ cron.todo = <<>>
    /\ cursor' = Advanced("advance")
    /\ cron' = [cron EXCEPT !.at = IF cron.upto - cursor < Batch THEN "list" ELSE "page"]
    /\ UNCHANGED <<log, decisions, active, leave, switches, faults>>

\* pendingRewardsByEventTime: up to ListSize, the earliest events first.
List ==
    /\ cron.at = "list"
    /\ IF ~cron.on THEN cron' = Idle
       ELSE \E q \in SetToSeqs({e \in Events : status[e] = "PENDING"}) :
               /\ \A i, j \in DOMAIN q : i < j => Time[q[i]] <= Time[q[j]]
               /\ cron' = [Idle EXCEPT !.at = "book", !.todo = SubSeq(q, 1, Min({Len(q), ListSize}))]
    /\ UNCHANGED <<log, cursor, decisions, active, leave, switches, faults>>

\* Mutant of Near: only payments for earlier events count.
NearBefore(e, f) == Cooldown > 0 /\ Time[f] <= Time[e] /\ Time[e] - Time[f] < Cooldown

Near(e, f) == Cooldown > 0 /\ Between(e, f) < Cooldown

\* rewardLimits: what the user got from the rule on the day of the event.
PaidThatDay(e) == MapThenSumSet(LAMBDA f : paid[f],
                     {f \in Events : status[f] = "PAID" /\ Killer[f] = Killer[e] /\ Day(f) = Day(e)})

Due(e) == IF Cap = 0 THEN Base ELSE Min({Base, Cap - PaidThatDay(e)})

\* finalizePendingReward, under the lock of the user's leave: the decision is claimed,
\* found too near or over the cap, or paid together with the booking.
Finalize ==
    /\ cron.at = "book" /\ cron.todo # <<>>
    /\ LET e == Head(cron.todo)
           refused == \/ \E f \in Events : status[f] = "PAID" /\ Killer[f] = Killer[e] /\ Near(e, f)
                      \/ Due(e) <= 0
       IN \/ /\ leave[Killer[e]] = "open" \/ status[e] # "PENDING"
             /\ UNCHANGED decisions
          \/ /\ leave[Killer[e]] # "open" /\ status[e] = "PENDING"
             /\ IF refused THEN status' = [status EXCEPT ![e] = "SKIPPED"] /\ UNCHANGED paid
                ELSE status' = [status EXCEPT ![e] = "PAID"] /\ paid' = [paid EXCEPT ![e] = Due(e)]
    /\ cron' = [cron EXCEPT !.todo = Tail(@)]
    /\ UNCHANGED <<log, cursor, active, leave, switches, faults>>

Finish ==
    /\ cron.at = "book" /\ cron.todo = <<>> /\ cron' = Idle
    /\ UNCHANGED <<log, cursor, decisions, active, leave, switches, faults>>

Run == Start \/ Page \/ Resolve \/ Create \/ Advance \/ List \/ Finalize \/ Finish

\* The process dies, or a call fails: the run ends, the next one starts over.
Crash ==
    /\ cron.at # "idle" /\ faults < MaxFaults /\ faults' = faults + 1
    /\ cron' = Idle
    /\ UNCHANGED <<log, cursor, decisions, active, leave, switches>>

Next ==
    \/ \E e \in Events : Ingest(e)
    \/ Switch
    \/ \E u \in Users : Leave(u) \/ LeaveEnds(u)
    \/ Run \/ Crash

\* The cron runs every minute; a clean-up ends.
Fairness == WF_vars(Run) /\ \A u \in Users : WF_vars(LeaveEnds(u))
Spec     == Init /\ [][Next]_vars /\ Fairness

-----------------------------------------------------------------------------
\* Whatever the order the log is read in and wherever a run is cut off, no user is
\* paid more than the cap for the kills of one day, nor for two kills closer to each
\* other than the cooldown.
LimitsKept ==
    \A e \in Events : status[e] = "PAID" =>
        /\ Cap > 0 => PaidThatDay(e) <= Cap
        /\ \A f \in Events \ {e} : (status[f] = "PAID" /\ Killer[f] = Killer[e]) => Between(e, f) >= Cooldown

\* Every kill in the log is decided and, while rewards are on, paid or refused: no
\* page is lost by a crash, no decision waits behind those of a user who leaves.
EventsSettle ==
    \A e \in Events : Logged(e) ~> (status[e] \in {"PAID", "SKIPPED"} \/ (status[e] = "PENDING" /\ ~active))
=============================================================================
