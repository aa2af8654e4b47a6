-------------------------------- MODULE Poll --------------------------------
(***************************************************************************)
(* One poll: votes by command, button and reaction, and its end by the     *)
(* scheduler or by command (src/modules/polls/pollSystem.ts and the        *)
(* reaction events).  Command, button and end hold the poll's advisory     *)
(* lock for their transaction; reactions take a vote back without it.      *)
(*                                                                         *)
(* A result is the set of votes it counts.  What a transaction writes is   *)
(* seen by others when it commits.                                         *)
(***************************************************************************)
EXTENDS FiniteSets, Integers

CONSTANTS
    Users, Options,
    Tasks,              \* what may be under way at once
    MaxChoices,         \* 1: single choice (allowMultiple is off)
    Reactions,          \* whether anybody votes by reaction
    None,
    MaxVotes, MaxEnds, MaxFaults \* bounds: clicks, ends by command, failures

VARIABLES
    poll,               \* Poll: status, totalVotes, results
    votes,              \* PollVote rows, <<user, option>>
    expired,            \* endsAt has passed
    lock,               \* the task that holds the advisory lock, or None
    task,               \* [Tasks -> what it does, None]
    announced,          \* the last result that was shown, None
    used

vars == <<poll, votes, expired, lock, task, announced, used>>

\* Nobody is None; a poll allows a choice.
PollAssumption == None \notin Tasks /\ MaxChoices \in Nat \ {0}

Votes == Users \X Options
Single == MaxChoices = 1
Of(u) == {v \in votes : v[1] = u}

Init ==
    /\ poll = [status |-> "ACTIVE", total |-> 0, results |-> None]
    /\ votes = {} /\ expired = FALSE /\ lock = None
    /\ task = [t \in Tasks |-> None] /\ announced = None
    /\ used = [votes |-> 0, ends |-> 0, faults |-> 0]

Kinds == {"vote", "toggle", "react", "unreact", "end"}
Steps == {"drop", "lock", "write", "announce", "commit"}
Task(kind, v, at) == [kind |-> kind, v |-> v, at |-> at, adds |-> {}, dels |-> {}, count |-> 0, seen |-> {}]

TypeOK ==
    /\ poll.status \in {"ACTIVE", "ENDED"} /\ poll.total \in Int /\ (poll.results = None \/ poll.results \subseteq Votes)
    /\ votes \subseteq Votes /\ expired \in BOOLEAN /\ lock \in Tasks \union {None}
    /\ \A t \in Tasks : task[t] # None =>
          /\ task[t].kind \in Kinds /\ task[t].v \in Votes \union {None} /\ task[t].at \in Steps
          /\ task[t].adds \subseteq Votes /\ task[t].dels \subseteq Votes /\ task[t].seen \subseteq Votes
          /\ task[t].count \in Nat
    /\ announced = None \/ announced \subseteq Votes
    /\ used.votes \in 0..MaxVotes /\ used.ends \in 0..MaxEnds /\ used.faults \in 0..MaxFaults

Is(t, at) == task[t] # None /\ task[t].at = at
Goto(t, at) == task' = [task EXCEPT ![t].at = at]
Leave(t) == task' = [task EXCEPT ![t] = None]
Use(what, max) == used[what] < max /\ used' = [used EXCEPT ![what] = @ + 1]

-----------------------------------------------------------------------------
(* Where a task comes from *)

\* /poll abstimmen, and the buttons under the poll.
Click(t, kind, v) ==
    /\ task[t] = None /\ Use("votes", MaxVotes)
    /\ task' = [task EXCEPT ![t] = Task(kind, v, "lock")]
    /\ UNCHANGED <<poll, votes, expired, lock, announced>>

\* messageReactionAdd finds the poll active; with a single choice, a user who
\* has votes loses them first.
React(t, v) ==
    /\ Reactions /\ task[t] = None /\ Use("votes", MaxVotes) /\ poll.status = "ACTIVE"
    /\ task' = [task EXCEPT ![t] = Task("react", v, IF Single /\ Of(v[1]) # {} THEN "drop" ELSE "lock")]
    /\ UNCHANGED <<poll, votes, expired, lock, announced>>

\* messageReactionRemove finds the poll active.
Unreact(t, v) ==
    /\ Reactions /\ task[t] = None /\ Use("votes", MaxVotes) /\ poll.status = "ACTIVE"
    /\ task' = [task EXCEPT ![t] = Task("unreact", v, "drop")]
    /\ UNCHANGED <<poll, votes, expired, lock, announced>>

\* /poll beenden
EndByCommand(t) ==
    /\ task[t] = None /\ Use("ends", MaxEnds)
    /\ task' = [task EXCEPT ![t] = Task("end", None, "lock")]
    /\ UNCHANGED <<poll, votes, expired, lock, announced>>

\* The scheduler finds the poll expired; its runs may overlap.
Sweep(t) ==
    /\ task[t] = None /\ poll.status = "ACTIVE" /\ expired
    /\ task' = [task EXCEPT ![t] = Task("end", None, "lock")]
    /\ UNCHANGED <<poll, votes, expired, lock, announced, used>>

TimeIsUp == ~expired /\ expired' = TRUE /\ UNCHANGED <<poll, votes, lock, task, announced, used>>

-----------------------------------------------------------------------------
(* Reactions: delete and decrement in a transaction of their own *)

Dropped(t) == IF task[t].kind = "unreact" THEN votes \intersect {task[t].v} ELSE Of(task[t].v[1])

Drop(t) ==
    /\ Is(t, "drop")
    /\ votes' = votes \ Dropped(t)
    /\ poll' = [poll EXCEPT !.total = @ - Cardinality(Dropped(t))]
    /\ IF task[t].kind = "unreact" THEN Leave(t) ELSE Goto(t, "lock")
    /\ UNCHANGED <<expired, lock, announced, used>>

-----------------------------------------------------------------------------
(* votePoll, togglePollVote *)

Free == lock = None
Open == poll.status = "ACTIVE" /\ ~expired

\* validatePollForVote and the limits, over the votes read under the lock.
MayVote(t) ==
    LET v == task[t].v  mine == Of(v[1])
    IN  /\ Open
        /\ \/ task[t].kind = "toggle" /\ (v \in mine \/ Single)
           \/ Cardinality(mine) < MaxChoices /\ v \notin mine

Enter(t) ==
    /\ Is(t, "lock") /\ task[t].kind # "end" /\ Free
    /\ IF MayVote(t)
       THEN /\ lock' = t
            /\ task' = [task EXCEPT ![t].at = "write", ![t].seen = Of(task[t].v[1])]
       ELSE UNCHANGED lock /\ Leave(t)
    /\ UNCHANGED <<poll, votes, expired, announced, used>>

\* Mutant of Replaced: a click on another option keeps the first one.
ReplacedNone(t) == {}

\* A button takes the same option back, a single choice moves.
Replaced(t) == IF task[t].kind = "toggle" /\ Single THEN Of(task[t].v[1]) ELSE {}

\* The vote is written and the counter counted again; not yet committed.  A
\* vote to take back that a reaction took away in between is an error.
Write(t) ==
    LET v == task[t].v
        back == task[t].kind = "toggle" /\ v \in task[t].seen
        adds == IF back THEN {} ELSE {v}
        dels == IF back THEN {v} ELSE Replaced(t)
    IN  /\ Is(t, "write")
        /\ IF back /\ v \notin votes
           THEN lock' = None /\ Leave(t)
           ELSE /\ UNCHANGED lock
                /\ task' = [task EXCEPT ![t].at = "commit", ![t].adds = adds, ![t].dels = dels,
                                        ![t].count = Cardinality((votes \ dels) \union adds)]
        /\ UNCHANGED <<poll, votes, expired, announced, used>>

CommitVote(t) ==
    /\ Is(t, "commit") /\ task[t].kind # "end"
    /\ votes' = (votes \ task[t].dels) \union task[t].adds
    /\ poll' = [poll EXCEPT !.total = task[t].count]
    /\ lock' = None /\ Leave(t)
    /\ UNCHANGED <<expired, announced, used>>

-----------------------------------------------------------------------------
(* endPoll *)

EnterEnd(t) ==
    /\ Is(t, "lock") /\ task[t].kind = "end" /\ Free
    /\ IF poll.status = "ACTIVE"
       THEN /\ lock' = t
            /\ task' = [task EXCEPT ![t].at = "announce", ![t].seen = votes]
       ELSE UNCHANGED lock /\ Leave(t)
    /\ UNCHANGED <<poll, votes, expired, announced, used>>

\* beforeFinalize: the result is shown before the end is committed.
Announce(t) ==
    /\ Is(t, "announce") /\ announced' = task[t].seen /\ Goto(t, "commit")
    /\ UNCHANGED <<poll, votes, expired, lock, used>>

CommitEnd(t) ==
    /\ Is(t, "commit") /\ task[t].kind = "end"
    /\ poll' = [status |-> "ENDED", total |-> Cardinality(task[t].seen), results |-> task[t].seen]
    /\ lock' = None /\ Leave(t)
    /\ UNCHANGED <<votes, expired, announced, used>>

\* Mutant of Fails: the lock is the session's, and stays.
FailsLocked(t) ==
    /\ task[t] # None /\ Use("faults", MaxFaults)
    /\ Leave(t) /\ UNCHANGED <<poll, votes, expired, lock, announced>>

\* An error, a transaction over its time, the death of the process: what is not
\* committed is undone, what was shown stays shown.
Fails(t) ==
    /\ task[t] # None /\ Use("faults", MaxFaults)
    /\ lock' = IF lock = t THEN None ELSE lock
    /\ Leave(t) /\ UNCHANGED <<poll, votes, expired, announced>>

-----------------------------------------------------------------------------
Step(t) == Drop(t) \/ Enter(t) \/ Write(t) \/ CommitVote(t) \/ EnterEnd(t) \/ Announce(t) \/ CommitEnd(t)

Next ==
    \/ \E t \in Tasks :
          \/ \E v \in Votes : Click(t, "vote", v) \/ Click(t, "toggle", v) \/ React(t, v) \/ Unreact(t, v)
          \/ EndByCommand(t) \/ Sweep(t) \/ Step(t) \/ Fails(t)
    \/ TimeIsUp

\* Clicks are finite, so that a run of the scheduler comes; transactions go on.
Work == \E t \in Tasks : Sweep(t) \/ Step(t)

Spec == Init /\ [][Next]_vars
FairSpec == Spec /\ WF_vars(Work) /\ WF_vars(TimeIsUp)

-----------------------------------------------------------------------------
(* Properties *)

\* pollSystem.ts: nobody has more votes than the poll allows, whatever mix of
\* commands, buttons and reactions they use at once.
ChoicesKept == \A u \in Users : Cardinality(Of(u)) <= MaxChoices

\* pollSystem.ts, endPoll: the result that is stored is the one that was shown
\* last, and nothing is shown after it.
EndsAsTold ==
    /\ poll.status = "ENDED" => poll.results = announced
    /\ \A t \in Tasks : poll.status = "ENDED" => ~Is(t, "announce") /\ ~(Is(t, "commit") /\ task[t].kind = "end")

\* pollSystem.ts:165-167, 215-217: the counter is the number of votes, and a
\* result counts the votes there are.
CounterExact ==
    /\ poll.total = Cardinality(votes)
    /\ poll.status = "ENDED" => poll.results = votes

\* startPollScheduler: a poll whose time is up ends, after a failure anywhere.
PollEnds == expired ~> poll.status = "ENDED"
=============================================================================
