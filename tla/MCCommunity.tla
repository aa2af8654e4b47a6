----------------------------- MODULE MCCommunity -----------------------------
(***************************************************************************)
(* Small instances of Poll, Giveaway and Tickets for TLC.  A behaviour     *)
(* belongs to one part, chosen at the start: an instance of one of the     *)
(* three with its own bounds, the others at rest.                          *)
(*   clicks:    votes by command and button, two users, one fault          *)
(*   reactions: votes by any means, one user, one fault                    *)
(*   draw:      three users enter and withdraw, two draws, one fault       *)
(*   open:      three openings, the template is deleted, one fault         *)
(*   undo:      four openings, three faults                                *)
(*   close:     three openings, closes or resets, two messages, 3 faults   *)
(*   users:     five changes of the users of a ticket                      *)
(***************************************************************************)
EXTENDS Giveaway

CONSTANTS
    Parts,
    u1, u2, o1, o2, t1, t2

VARIABLES
    part,
    poll, votes, over, lock, vote, announced, voted,                           \* Poll
    template, ticket, channel, written, access, busy, work, spent              \* Tickets

pvars == <<poll, votes, over, lock, vote, announced, voted>>
tvars == <<template, ticket, channel, written, access, busy, work, spent>>
all   == <<part, pvars, vars, tvars>>

-----------------------------------------------------------------------------
Clicks    == INSTANCE Poll WITH expired <- over, task <- vote, used <- voted,
                Users <- {u1, u2}, Options <- {o1, o2}, Tasks <- {t1, t2}, MaxChoices <- 1,
                Reactions <- FALSE, MaxVotes <- 3, MaxEnds <- 1, MaxFaults <- 1
Reactions == INSTANCE Poll WITH expired <- over, task <- vote, used <- voted,
                Users <- {u1}, Options <- {o1, o2}, Tasks <- {t1, t2}, MaxChoices <- 1,
                Reactions <- TRUE, MaxVotes <- 3, MaxEnds <- 1, MaxFaults <- 1

Opens  == INSTANCE Tickets WITH task <- work, used <- spent,
             Tickets <- 1..4, Users <- {}, Tasks <- {t1, t2}, Retries <- 2, Puts <- FALSE, Resets <- FALSE,
             MaxCommands <- 3, MaxDeletes <- 1, MaxMessages <- 0, MaxFaults <- 1
Undos  == INSTANCE Tickets WITH task <- work, used <- spent,
             Tickets <- 1..4, Users <- {}, Tasks <- {t1, t2}, Retries <- 2, Puts <- FALSE, Resets <- FALSE,
             MaxCommands <- 4, MaxDeletes <- 0, MaxMessages <- 0, MaxFaults <- 3
Closes == INSTANCE Tickets WITH task <- work, used <- spent,
             Tickets <- 1..4, Users <- {}, Tasks <- {t1, t2}, Retries <- 2, Puts <- TRUE, Resets <- TRUE,
             MaxCommands <- 3, MaxDeletes <- 0, MaxMessages <- 2, MaxFaults <- 3
Lists  == INSTANCE Tickets WITH task <- work, used <- spent,
             Tickets <- 1..4, Users <- {u1, u2}, Tasks <- {t1, t2}, Retries <- 2, Puts <- FALSE, Resets <- FALSE,
             MaxCommands <- 5, MaxDeletes <- 0, MaxMessages <- 0, MaxFaults <- 0

\* What the proofs assume of the constants of a poll holds of these.
ASSUME Instances == Clicks!PollAssumption /\ Reactions!PollAssumption

-----------------------------------------------------------------------------
MCInit == part \in Parts /\ Clicks!Init /\ Init /\ Lists!Init

MCNext ==
    /\ UNCHANGED part
    /\ \/ /\ \/ part = "clicks" /\ Clicks!Next
             \/ part = "reactions" /\ Reactions!Next
          /\ UNCHANGED <<vars, tvars>>
       \/ part = "draw" /\ Next /\ UNCHANGED <<pvars, tvars>>
       \/ /\ \/ part = "open" /\ Opens!Next
             \/ part = "undo" /\ Undos!Next
             \/ part = "close" /\ Closes!Next
             \/ part = "users" /\ Lists!Next
          /\ UNCHANGED <<pvars, vars>>

\* The schedulers run, and what they began goes on.
MCSpec ==
    /\ MCInit /\ [][MCNext]_all
    /\ WF_pvars(part = "clicks" /\ Clicks!Work) /\ WF_pvars(part = "reactions" /\ Reactions!Work)
    /\ WF_vars(part = "draw" /\ Work)

-----------------------------------------------------------------------------
\* Every variable keeps its type.
TypesOK == Clicks!TypeOK /\ TypeOK /\ Lists!TypeOK

\* pollSystem.ts: nobody has more votes than allowed; what was shown last is the result;
\* and without reactions the counter is the number of votes.
PollSound == /\ Clicks!ChoicesKept /\ Clicks!EndsAsTold
             /\ part = "clicks" => Clicks!CounterExact

\* ticketSystem.ts, tickets.ts: an open ticket has its template; numbers are unique
\* (where nobody resets the counter); and without a purge a channel goes only when its
\* ticket is closed and its transcript holds what the opener and the staff wrote in it.
TicketsSound == /\ [](Lists!TemplateLives /\ (part # "close" => Lists!NumbersUnique))
                /\ [][part = "close" => Lists!Archived]_tvars

\* casMutateTicketUserIds: no change of a ticket's users undoes another.
UsersExact == Lists!UsersExact

\* Polls and giveaways whose time is up end, after a failure anywhere.
RoundsEnd == Clicks!PollEnds /\ GiveawayEnds
=============================================================================
