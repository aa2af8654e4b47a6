---------------------------- MODULE GameplayFeed ----------------------------
(***************************************************************************)
(* One gameplay feed: the events of the game server's log, the sweep that  *)
(* makes a delivery of each and posts one at a time to Discord, and its    *)
(* pauses and filters (src/modules/gameplayFeeds, killfeed.ts).            *)
(*                                                                         *)
(* Events are numbered as they are stored.  The spacing of a channel, the  *)
(* delays of retries, message texts and the online list are left out.     *)
(***************************************************************************)
EXTENDS Naturals

CONSTANTS
    Events,             \* 1..n, events of the feed's kind
    Categories,         \* what its filter tells apart
    Category,           \* [Events -> Categories]
    Batch,              \* SCAN_BATCH
    MaxAttempts,
    MaxChanges, MaxFaults \* bounds: changes of the feed, failures

VARIABLES
    stored,             \* events in the database
    feed,               \* GameplayFeedConfig
    delivery,           \* [Events -> GameplayFeedDelivery]
    sweep,              \* the run of the worker, with its copy of the feed
    posted,             \* events with a message in the channel
    excused,            \* events a filter left out or a pause was to leave out
    changes, faults

\* Events are numbered and of a category; bounds are numbers.
FeedAssumption ==
    /\ Events \subseteq Nat \ {0} /\ Category \in [Events -> Categories]
    /\ Batch \in Nat /\ MaxAttempts \in Nat /\ MaxChanges \in Nat /\ MaxFaults \in Nat

vars == <<stored, feed, delivery, sweep, posted, excused, changes, faults>>

NoDelivery == [status |-> "NONE", attempts |-> 0]
Resting == [at |-> "idle", cursor |-> 0, filter |-> {}, event |-> 0, last |-> 0]

Init ==
    /\ stored = 0 /\ delivery = [e \in Events |-> NoDelivery]
    /\ \E active \in BOOLEAN : feed = [active |-> active, auto |-> ~active, filter |-> Categories, cursor |-> 0]
    /\ sweep = Resting /\ posted = {} /\ excused = {} /\ changes = 0 /\ faults = 0

Settled == {"SENT", "SKIPPED", "FAILED"}

TypeOK ==
    /\ stored \in Nat /\ 1..stored \subseteq Events
    /\ feed \in [active: BOOLEAN, auto: BOOLEAN, filter: SUBSET Categories, cursor: 0..stored]
    /\ \A e \in Events : /\ delivery[e].status \in {"NONE", "PENDING", "SENDING", "RETRY"} \union Settled
                         /\ delivery[e].attempts \in 0..(MaxAttempts + MaxFaults)
    /\ sweep.at \in {"idle", "scan", "create", "cursor", "due", "claim", "check", "send", "mark"}
    /\ sweep.cursor \in 0..stored /\ sweep.filter \subseteq Categories
    /\ sweep.event \in 0..stored /\ sweep.last \in 0..stored
    /\ posted \subseteq Events /\ excused \subseteq Events
    /\ changes \in 0..MaxChanges /\ faults \in 0..MaxFaults

Change == changes < MaxChanges /\ changes' = changes + 1
Fault  == faults < MaxFaults /\ faults' = faults + 1
At(at) == sweep.at = at
Goto(at) == sweep' = [sweep EXCEPT !.at = at]
Become(e, status) == delivery' = [delivery EXCEPT ![e].status = status]

-----------------------------------------------------------------------------
(* The log and the dashboard *)

Store ==
    /\ stored + 1 \in Events /\ stored' = stored + 1
    /\ UNCHANGED <<feed, delivery, sweep, posted, excused, changes, faults>>

\* What came before a feed is switched on again is not delivered any more.
SwitchedOn ==
    /\ feed' = [feed EXCEPT !.active = TRUE, !.auto = FALSE, !.cursor = stored]
    /\ excused' = excused \union {e \in 1..stored : e > feed.cursor}

\* PATCH, with isActive or with another filter.
SwitchOn  == ~feed.active /\ Change /\ SwitchedOn /\ UNCHANGED <<stored, delivery, sweep, posted, faults>>
SwitchOff ==
    /\ feed.active /\ Change /\ feed' = [feed EXCEPT !.active = FALSE, !.auto = FALSE]
    /\ UNCHANGED <<stored, delivery, sweep, posted, excused, faults>>
SetFilter(filter) ==
    /\ filter # feed.filter /\ Change /\ feed' = [feed EXCEPT !.filter = filter]
    /\ UNCHANGED <<stored, delivery, sweep, posted, excused, faults>>

\* resumeAutoPausedGameplayFeeds
Resume ==
    /\ ~feed.active /\ feed.auto /\ SwitchedOn
    /\ UNCHANGED <<stored, delivery, sweep, posted, changes, faults>>

-----------------------------------------------------------------------------
(* runGameplayFeedsOnce *)

\* Expired leases are of runs that died; then the active feeds are read.
\* Mutant of Expired: nobody takes up what a dead run was sending.
ExpiredNone(d) == d

Expired(d) == IF d.status = "SENDING" THEN [status |-> "RETRY", attempts |-> d.attempts + 1] ELSE d
Begin ==
    /\ At("idle") /\ delivery' = [e \in Events |-> Expired(delivery[e])]
    /\ sweep' = IF feed.active THEN [Resting EXCEPT !.at = "scan", !.cursor = feed.cursor, !.filter = feed.filter]
                ELSE sweep
    /\ UNCHANGED <<stored, feed, posted, excused, changes, faults>>

\* Events after the cursor, a batch at a time.
Scan ==
    LET last == IF stored < sweep.cursor + Batch THEN stored ELSE sweep.cursor + Batch
    IN  /\ At("scan")
        /\ sweep' = IF last = sweep.cursor THEN [sweep EXCEPT !.at = "due"]
                    ELSE [sweep EXCEPT !.at = "create", !.event = sweep.cursor + 1, !.last = last]
        /\ UNCHANGED <<stored, feed, delivery, posted, excused, changes, faults>>

\* createDeliveryIfNeeded: one of an event, ever.
Create ==
    LET e == sweep.event
        wanted == Category[e] \in sweep.filter
    IN  /\ At("create")
        /\ IF wanted /\ delivery[e].status = "NONE" THEN Become(e, "PENDING") ELSE UNCHANGED delivery
        /\ excused' = IF wanted THEN excused ELSE excused \union {e}
        /\ sweep' = IF e = sweep.last THEN [sweep EXCEPT !.at = "cursor"] ELSE [sweep EXCEPT !.event = e + 1]
        /\ UNCHANGED <<stored, feed, posted, changes, faults>>

MoveCursor ==
    /\ At("cursor") /\ feed' = [feed EXCEPT !.cursor = sweep.last]
    /\ sweep' = [sweep EXCEPT !.cursor = sweep.last, !.at = IF sweep.last - sweep.cursor < Batch THEN "due" ELSE "scan"]
    /\ UNCHANGED <<stored, delivery, posted, excused, changes, faults>>

\* One delivery of those that wait.
Due == {e \in Events : delivery[e].status \in {"PENDING", "RETRY"}}
ReadDue ==
    /\ At("due")
    /\ \/ Due = {} /\ sweep' = Resting
       \/ \E e \in Due : sweep' = [sweep EXCEPT !.at = "claim", !.event = e]
    /\ UNCHANGED <<stored, feed, delivery, posted, excused, changes, faults>>

Claim ==
    /\ At("claim") /\ UNCHANGED <<stored, feed, posted, excused, changes, faults>>
    /\ IF feed.active THEN Become(sweep.event, "SENDING") /\ Goto("check")
       ELSE sweep' = Resting /\ UNCHANGED delivery

\* The filter of the copy, then whether the feed is still active.
Check ==
    LET e == sweep.event
    IN  /\ At("check") /\ UNCHANGED <<stored, feed, posted, excused, changes, faults>>
        /\ \/ Category[e] \notin sweep.filter /\ Become(e, "SKIPPED") /\ sweep' = Resting
           \/ Category[e] \in sweep.filter /\ ~feed.active /\ Become(e, "PENDING") /\ sweep' = Resting
           \/ Category[e] \in sweep.filter /\ feed.active /\ Goto("send") /\ UNCHANGED delivery

\* The nonce makes a second message of the same event the first.
Send ==
    /\ At("send") /\ posted' = posted \union {sweep.event} /\ Goto("mark")
    /\ UNCHANGED <<stored, feed, delivery, excused, changes, faults>>

MarkSent ==
    /\ At("mark") /\ Become(sweep.event, "SENT") /\ sweep' = Resting
    /\ UNCHANGED <<stored, feed, posted, excused, changes, faults>>

\* A call fails; the message may be there. failDelivery.
Fails ==
    LET n == delivery[sweep.event].attempts + 1
    IN  /\ sweep.at \in {"check", "send", "mark"} /\ Fault /\ sweep' = Resting
        /\ delivery' = [delivery EXCEPT ![sweep.event] =
                          [status |-> IF n >= MaxAttempts THEN "FAILED" ELSE "RETRY", attempts |-> n]]
        /\ posted' \in {posted} \union (IF At("send") THEN {posted \union {sweep.event}} ELSE {})
        /\ UNCHANGED <<stored, feed, excused, changes>>

\* The process dies, or a query of the sweep fails.
Crash ==
    /\ ~At("idle") /\ Fault /\ sweep' = Resting
    /\ UNCHANGED <<stored, feed, delivery, posted, excused, changes>>

-----------------------------------------------------------------------------
Sweep == Begin \/ Scan \/ Create \/ MoveCursor \/ ReadDue \/ Claim \/ Check \/ Send \/ MarkSent

Next ==
    \/ Store \/ SwitchOn \/ SwitchOff \/ (\E filter \in SUBSET Categories : SetFilter(filter)) \/ Resume
    \/ Sweep \/ Fails \/ Crash

\* A timer.
Fairness == WF_vars(Sweep)

Spec == Init /\ [][Next]_vars
FairSpec == Spec /\ Fairness

-----------------------------------------------------------------------------
(* Properties *)

\* runtime.ts: the cursor passes no event that has no delivery, unless a filter or a
\* pause leaves the event out, whatever dies between the two writes.
CursorCovers == \A e \in 1..feed.cursor : delivery[e].status # "NONE" \/ e \in excused

\* runtime.ts: while the feed is on, every event is posted, skipped or given up, and
\* none is SENT without its message.
DeliveriesSettle ==
    \A e \in Events : e <= stored /\ feed.active
                            ~> \/ ~feed.active \/ e \in excused
                               \/ delivery[e].status = "SENT" /\ e \in posted
                               \/ delivery[e].status \in {"SKIPPED", "FAILED"}
=============================================================================
