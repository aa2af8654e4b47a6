------------------------------ MODULE Giveaway ------------------------------
(***************************************************************************)
(* One giveaway: who takes part by command, button or reaction, and the    *)
(* draw by the scheduler or by /giveaway end                               *)
(* (src/modules/giveaway/giveawayManager.ts and the events).               *)
(*                                                                         *)
(* The draw is one transaction: it reads the entries, takes the giveaway   *)
(* over and marks the winners.  Roles and prizes are left out.             *)
(***************************************************************************)
EXTENDS FiniteSets, Naturals, Sequences

CONSTANTS
    Users,
    Tasks,              \* what may be under way at once
    WinnerCount,
    None,
    MaxEntries, MaxEnds, MaxFaults \* bounds: entries and withdrawals, /giveaway end, failures

VARIABLES
    status,             \* Giveaway.status
    entries,            \* users with a GiveawayEntry
    winners,            \* the winners that were marked, None before the draw
    expired,            \* endsAt has passed
    task,               \* [Tasks -> what it does, None]
    told,               \* the announcements that were made
    used

vars == <<status, entries, winners, expired, task, told, used>>

Init ==
    /\ status = "ACTIVE" /\ entries = {} /\ winners = None /\ expired = FALSE
    /\ task = [t \in Tasks |-> None] /\ told = <<>>
    /\ used = [entries |-> 0, ends |-> 0, faults |-> 0]

\* gone: users whose entry was deleted since it was read.
Task(at, user, seen) == [at |-> at, user |-> user, seen |-> seen, gone |-> {}]

Doing == [at : {"create", "delete", "read", "draw", "announce"}, user : Users \union {None},
          seen : SUBSET Users, gone : SUBSET Users]

TypeOK ==
    /\ status \in {"ACTIVE", "ENDED"} /\ entries \subseteq Users /\ (winners = None \/ winners \subseteq Users)
    /\ expired \in BOOLEAN /\ task \in [Tasks -> Doing \union {None}] /\ told \in Seq(SUBSET Users)
    /\ used.entries \in 0..MaxEntries /\ used.ends \in 0..MaxEnds /\ used.faults \in 0..MaxFaults

Is(t, at) == task[t] # None /\ task[t].at = at
Become(t, new) == task' = [task EXCEPT ![t] = new]
Leave(t) == Become(t, None)
Use(what, max) == used[what] < max /\ used' = [used EXCEPT ![what] = @ + 1]

-----------------------------------------------------------------------------
(* Taking part *)

\* enterGiveaway and messageReactionAdd check, then create; the button creates
\* when it finds no entry.
Enter(t, u) ==
    /\ task[t] = None /\ Use("entries", MaxEntries) /\ status = "ACTIVE" /\ ~expired
    /\ Become(t, Task("create", u, {}))
    /\ UNCHANGED <<status, entries, winners, expired, told>>

\* An entry is unique; one there already is an error, answered as such.
CreateEntry(t) ==
    /\ Is(t, "create") /\ entries' = entries \union {task[t].user} /\ Leave(t)
    /\ UNCHANGED <<status, winners, expired, told, used>>

\* The button finds the giveaway open and an entry; the reaction taken back
\* finds it active, whatever the time.
Withdraw(t, u) ==
    /\ task[t] = None /\ Use("entries", MaxEntries) /\ status = "ACTIVE" /\ u \in entries
    /\ Become(t, Task("delete", u, {}))
    /\ UNCHANGED <<status, entries, winners, expired, told>>

DeleteEntry(t) ==
    /\ Is(t, "delete") /\ entries' = entries \ {task[t].user}
    /\ task' = [d \in Tasks |-> IF d = t THEN None
                               ELSE IF Is(d, "draw") THEN [task[d] EXCEPT !.gone = @ \union {task[t].user}]
                               ELSE task[d]]
    /\ UNCHANGED <<status, winners, expired, told, used>>

-----------------------------------------------------------------------------
(* The draw *)

TimeIsUp == ~expired /\ expired' = TRUE /\ UNCHANGED <<status, entries, winners, task, told, used>>

\* The scheduler finds it expired; /giveaway end does not look at the time.
Sweep(t) ==
    /\ task[t] = None /\ status = "ACTIVE" /\ expired
    /\ Become(t, Task("read", None, {}))
    /\ UNCHANGED <<status, entries, winners, expired, told, used>>
End(t) ==
    /\ task[t] = None /\ Use("ends", MaxEnds)
    /\ Become(t, Task("read", None, {}))
    /\ UNCHANGED <<status, entries, winners, expired, told>>

ReadEntries(t) ==
    /\ Is(t, "read")
    /\ IF status = "ACTIVE" THEN Become(t, Task("draw", None, entries)) ELSE Leave(t)
    /\ UNCHANGED <<status, entries, winners, expired, told, used>>

\* Mutant of Undrawn: an entry that is gone is no error.
UndrawnSilently(t, chosen) == FALSE

Claimable == status = "ACTIVE"
\* The update of an entry that was withdrawn in between throws.
Undrawn(t, chosen) == chosen \intersect task[t].gone # {}

Chosen(seen) ==
    {c \in SUBSET seen : Cardinality(c) = IF WinnerCount < Cardinality(seen) THEN WinnerCount ELSE Cardinality(seen)}

\* Claim, marks and winnerId commit together, or nothing does.
Draw(t) ==
    /\ Is(t, "draw")
    /\ \/ ~Claimable /\ Leave(t) /\ UNCHANGED <<status, winners>>
       \/ /\ Claimable
          /\ \E chosen \in Chosen(task[t].seen) :
                IF Undrawn(t, chosen)
                THEN Leave(t) /\ UNCHANGED <<status, winners>>
                ELSE /\ status' = "ENDED" /\ winners' = chosen
                     /\ Become(t, Task("announce", None, chosen))
    /\ UNCHANGED <<entries, expired, told, used>>

Announce(t) ==
    /\ Is(t, "announce") /\ told' = Append(told, task[t].seen) /\ Leave(t)
    /\ UNCHANGED <<status, entries, winners, expired, used>>

\* A failed call, the death of the process.
Fails(t) ==
    /\ task[t] # None /\ Use("faults", MaxFaults) /\ Leave(t)
    /\ UNCHANGED <<status, entries, winners, expired, told>>

-----------------------------------------------------------------------------
Step(t) == CreateEntry(t) \/ DeleteEntry(t) \/ ReadEntries(t) \/ Draw(t) \/ Announce(t)

Next ==
    \/ \E t \in Tasks :
          \/ \E u \in Users : Enter(t, u) \/ Withdraw(t, u)
          \/ End(t) \/ Sweep(t) \/ Step(t) \/ Fails(t)
    \/ TimeIsUp

Work == \E t \in Tasks : Sweep(t) \/ Step(t)

Spec == Init /\ [][Next]_vars
FairSpec == Spec /\ WF_vars(Work) /\ WF_vars(TimeIsUp)

-----------------------------------------------------------------------------
(* Properties *)

\* giveawayManager.ts, drawWinners: one draw ever commits, of no more users than there are
\* prizes and none who had withdrawn; one announcement is made, of these winners.
DrawFair ==
    /\ [][status = "ACTIVE" /\ status' = "ENDED" => winners' \subseteq entries' /\ Cardinality(winners') <= WinnerCount]_vars
    /\ [][status = "ENDED" => status' = "ENDED" /\ winners' = winners]_vars
    /\ [][told' # told => told = <<>> /\ told' = <<winners>>]_vars

\* startGiveawayScheduler: a giveaway whose time is up is drawn and, without a
\* failure, announced.
GiveawayEnds ==
    /\ expired ~> status = "ENDED"
    /\ expired ~> told # <<>> \/ used.faults > 0
=============================================================================
