------------------------------ MODULE Lottery ------------------------------
(***************************************************************************)
(* One round of the lottery of a game server, from its creation to the     *)
(* announcement of its result: purchases of tickets, the draw, the payout  *)
(* or the refunds, driven by a timer of five seconds and by the command    *)
(* that ends a round at once, and the clean-up of users who leave.         *)
(*                                                                         *)
(* A database transaction is one action: purchases and the draw serialise  *)
(* on the row of the round, bookings on the account of the pot.  A settler *)
(* goes from transaction to transaction with what it read before.  Every   *)
(* ticket costs one unit; a purchase is one ticket.                        *)
(***************************************************************************)
EXTENDS Naturals, FiniteSets

CONSTANTS
    Users, Leavers,     \* those who may leave
    Purchases, Buyer,   \* idempotency keys; [Purchases -> Users]
    Money,              \* of each user at the start
    Limit, Minimum,     \* tickets per user; participants of a draw
    Batch,              \* refunds of one pass
    Settlers,           \* a subset of {"timer", "command"}
    None, MaxFaults     \* bound on failures

\* Purchases are rows of a table: there are finitely many, each of a user.
RoundAssumption == IsFiniteSet(Purchases) /\ Buyer \in [Purchases -> Users]

VARIABLES
    status, ended, winner, final, announced, \* the round
    booked,             \* purchases made
    pot, archived,      \* the account of the pot
    purse,              \* [Users -> Nat]
    refunded, paidTo,   \* users
    settler,            \* [Settlers -> where it is and whom it is about to pay]
    leave,              \* [Users -> "here", "checked", "gone"]
    faults

round == <<status, ended, winner, final, announced>>
money == <<pot, archived, purse, refunded, paidTo>>
vars  == <<round, booked, money, settler, leave, faults>>

Tickets(u) == Cardinality({k \in booked : Buyer[k] = u})
Entrants   == {u \in Users : Tickets(u) > 0}
Unrefunded == Entrants \ refunded
\* The entry or the winner carries a Discord id, not the pseudonym of a user who left.
Named(u)   == leave[u] # "gone"
Settled    == status \in {"FINISHED", "REFUNDED"}

Idle == [at |-> "idle", to |-> {}]

Init ==
    /\ status = "ACTIVE" /\ ended = FALSE /\ winner = None /\ final = 0 /\ announced = FALSE
    /\ booked = {} /\ pot = 0 /\ archived = FALSE
    /\ purse = [u \in Users |-> Money] /\ refunded = {} /\ paidTo = {}
    /\ settler = [s \in Settlers |-> Idle]
    /\ leave = [u \in Users |-> "here"] /\ faults = 0

TypeOK ==
    /\ status \in {"ACTIVE", "DRAWING", "REFUNDING", "FINISHED", "REFUNDED"}
    /\ ended \in BOOLEAN /\ announced \in BOOLEAN /\ archived \in BOOLEAN
    /\ winner \in Users \union {None} /\ final \in Nat /\ pot \in Nat
    /\ booked \subseteq Purchases /\ purse \in [Users -> Nat]
    /\ refunded \subseteq Users /\ paidTo \subseteq Users
    /\ settler \in [Settlers -> [at : {"idle", "prepare", "view", "pay", "refund", "announce", "mark", "archive"},
                                 to : SUBSET (Users \X BOOLEAN)]]
    /\ leave \in [Users -> {"here", "checked", "gone"}] /\ faults \in 0..MaxFaults

-----------------------------------------------------------------------------
(* Tickets, the end of the round, and leaves.                              *)

\* Mutant of Open: a purchase does not look at the round again under its lock.
OpenUnlocked == TRUE

\* Under the lock of the round.
Open == status = "ACTIVE" /\ ~ended

\* A repeated key finds its purchase and changes nothing.
Buy(k) ==
    /\ k \notin booked /\ Open /\ ~archived
    /\ Tickets(Buyer[k]) < Limit /\ purse[Buyer[k]] > 0
    /\ booked' = booked \union {k}
    /\ pot' = pot + 1
    /\ purse' = [purse EXCEPT ![Buyer[k]] = @ - 1]
    /\ UNCHANGED <<round, archived, refunded, paidTo, settler, leave, faults>>

TimeIsUp ==
    /\ ~ended /\ ended' = TRUE
    /\ UNCHANGED <<status, winner, final, announced, booked, money, settler, leave, faults>>

\* hasActiveLotteryObligation, asked before the transaction of the clean-up.
Obliged(u) == ~Settled /\ (u \in Entrants \/ u = winner)

LeaveCheck(u) ==
    /\ u \in Leavers /\ leave[u] = "here" /\ ~Obliged(u)
    /\ leave' = [leave EXCEPT ![u] = "checked"]
    /\ UNCHANGED <<round, booked, money, settler, faults>>

\* Entries, purchases and the winner get the pseudonym, the account goes.
LeaveCommit(u) ==
    /\ leave[u] = "checked"
    /\ leave' = [leave EXCEPT ![u] = "gone"]
    /\ purse' = [purse EXCEPT ![u] = 0]
    /\ UNCHANGED <<round, booked, pot, archived, refunded, paidTo, settler, faults>>

-----------------------------------------------------------------------------
(* Settlement.                                                             *)

At(s, a)   == settler[s].at = a
Goto(s, a) == settler' = [settler EXCEPT ![s] = [at |-> a, to |-> {}]]

\* What the timer looks for.
Due == \/ status = "ACTIVE" /\ ended
       \/ status \in {"DRAWING", "REFUNDING"}
       \/ Settled /\ ~announced

Begin(s) ==
    /\ At(s, "idle") /\ Goto(s, "prepare")
    /\ IF s = "timer" THEN Due /\ UNCHANGED ended
       ELSE status = "ACTIVE" /\ ended' = TRUE
    /\ UNCHANGED <<status, winner, final, announced, booked, money, leave, faults>>

\* Mutant of Undrawn: the state of the round is not read again under its lock.
UndrawnUnlocked == ended /\ status \in {"ACTIVE", "DRAWING"}

Undrawn == ended /\ status = "ACTIVE"

\* prepareSettlement, under the locks of the round and of the pot.
Prepare(s) ==
    /\ At(s, "prepare")
    /\ IF ~Undrawn THEN Goto(s, "view") /\ UNCHANGED <<status, winner, final>>
       ELSE IF pot # Cardinality(booked) \/ archived
       THEN Goto(s, "idle") /\ UNCHANGED <<status, winner, final>>
       ELSE /\ Goto(s, "view")
            /\ final' = pot
            /\ IF Cardinality(Entrants) < Minimum
               THEN status' = "REFUNDING" /\ UNCHANGED winner
               ELSE status' = "DRAWING" /\ winner' \in Entrants
    /\ UNCHANGED <<ended, announced, booked, money, leave, faults>>

\* Up to Batch entries in the order of their ids: pseudonyms sort after Discord ids.
Page(b) ==
    /\ b \subseteq Unrefunded
    /\ Cardinality(b) = IF Cardinality(Unrefunded) < Batch THEN Cardinality(Unrefunded) ELSE Batch
    /\ \A u \in b, v \in Unrefunded \ b : Named(v) => Named(u)

\* The round, and the entries of a refund, as they are read after the draw.
View(s) ==
    /\ At(s, "view")
    /\ \/ status = "ACTIVE" /\ Goto(s, "idle")
       \/ Settled /\ Goto(s, "announce")
       \/ status = "DRAWING" /\ settler' = [settler EXCEPT ![s] = [at |-> "pay", to |-> {<<winner, Named(winner)>>}]]
       \/ /\ status = "REFUNDING"
          /\ \E b \in SUBSET Users : Page(b) /\
                settler' = [settler EXCEPT ![s] = [at |-> "refund", to |-> {<<u, Named(u)>> : u \in b}]]
    /\ UNCHANGED <<round, booked, money, leave, faults>>

\* systemVirtualAccountToUser: the key of the booking is found, or the money moves
\* together with "effect".  A pseudonym is not a Discord id, an archived pot books
\* nothing more, and the booking found must carry the same id: else an exception.
Transfer(s, u, named, amount, done, next, effect) ==
    IF ~named \/ archived \/ (done /\ ~Named(u)) \/ (~done /\ (~effect \/ pot < amount))
    THEN Goto(s, "idle") /\ UNCHANGED <<pot, purse>>
    ELSE /\ settler' = [settler EXCEPT ![s] = next]
         /\ IF done THEN UNCHANGED <<pot, purse>>
            ELSE pot' = pot - amount /\ purse' = [purse EXCEPT ![u] = @ + amount]

\* completeWinnerPayout.
Pay(s) ==
    /\ At(s, "pay")
    /\ \E x \in settler[s].to :
          /\ Transfer(s, x[1], x[2], final, paidTo # {}, [at |-> "announce", to |-> {}], status = "DRAWING")
          /\ IF pot' # pot THEN status' = "FINISHED" /\ paidTo' = paidTo \union {x[1]}
             ELSE UNCHANGED <<status, paidTo>>
    /\ UNCHANGED <<ended, winner, final, announced, booked, archived, refunded, leave, faults>>

\* processRefunds: one entry after the other.
Refund(s) ==
    /\ At(s, "refund")
    /\ \E x \in settler[s].to :
          /\ ~x[2] => \A y \in settler[s].to : ~y[2]
          /\ Transfer(s, x[1], x[2], Tickets(x[1]), x[1] \in refunded,
                      [at |-> "refund", to |-> settler[s].to \ {x}], TRUE)
          /\ refunded' = IF pot' # pot THEN refunded \union {x[1]} ELSE refunded
    /\ UNCHANGED <<round, booked, archived, paidTo, leave, faults>>

\* The end of processRefunds: the next page waits for the next call.
RefundsDone(s) ==
    /\ At(s, "refund") /\ settler[s].to = {}
    /\ IF Unrefunded = {} /\ pot = 0
       THEN /\ status' = IF status = "REFUNDING" THEN "REFUNDED" ELSE status
            /\ Goto(s, "announce")
       ELSE Goto(s, "idle") /\ UNCHANGED status
    /\ UNCHANGED <<ended, winner, final, announced, booked, money, leave, faults>>

\* announceTerminalRound: a winner's message first, with a nonce, then the mark.
Announce(s) ==
    /\ \/ At(s, "announce") /\ announced /\ Goto(s, "archive") /\ UNCHANGED announced
       \/ At(s, "announce") /\ ~announced /\ status = "FINISHED" /\ Goto(s, "mark") /\ UNCHANGED announced
       \/ At(s, "announce") /\ ~announced /\ status = "REFUNDED" /\ Goto(s, "archive") /\ announced' = TRUE
       \/ At(s, "mark") /\ Goto(s, "archive") /\ announced' = TRUE
    /\ UNCHANGED <<status, ended, winner, final, booked, money, leave, faults>>

\* archiveTerminalPot: a failure is only logged, and nothing tries again.
Archive(s) ==
    /\ At(s, "archive") /\ Goto(s, "idle")
    /\ archived' \in {archived, archived \/ pot = 0}
    /\ UNCHANGED <<round, booked, pot, purse, refunded, paidTo, leave, faults>>

Settle(s) == \/ Begin(s) \/ Prepare(s) \/ View(s) \/ Pay(s) \/ Refund(s) \/ RefundsDone(s)
             \/ Announce(s) \/ Archive(s)

\* A call of Discord or of the database fails.
Fails(s) ==
    /\ ~At(s, "idle") /\ faults < MaxFaults /\ faults' = faults + 1
    /\ Goto(s, "idle")
    /\ UNCHANGED <<round, booked, money, leave>>

\* The process dies with everything under way.
Crash ==
    /\ faults < MaxFaults /\ faults' = faults + 1
    /\ settler' = [s \in Settlers |-> Idle]
    /\ leave' = [u \in Users |-> IF leave[u] = "checked" THEN "here" ELSE leave[u]]
    /\ UNCHANGED <<round, booked, money>>

Next ==
    \/ \E k \in Purchases : Buy(k)
    \/ TimeIsUp
    \/ \E u \in Users : LeaveCheck(u) \/ LeaveCommit(u)
    \/ \E s \in Settlers : Settle(s) \/ Fails(s)
    \/ Crash

\* The timer runs again and again, whatever becomes of a command.
Fairness == WF_vars(TimeIsUp) /\ WF_vars("timer" \in Settlers /\ Settle("timer"))
Spec     == Init /\ [][Next]_vars /\ Fairness

-----------------------------------------------------------------------------
\* The pot holds exactly what was paid for the tickets and not yet given back: no
\* ticket is sold after the draw, nothing is refunded twice by the timer and the
\* command, and a settled round leaves nothing behind.
PotMatches ==
    pot = IF Settled THEN 0 ELSE Cardinality({k \in booked : Buyer[k] \notin refunded})

\* The winner that is announced is the one that was paid, the only one, and nobody
\* gets his stake back beside him, although two settlers draw and pay at once.
WinnerPaid ==
    /\ paidTo \subseteq {winner}
    /\ status = "FINISHED" => paidTo = {winner}
    /\ paidTo # {} => refunded = {}

\* The money of a round, with the timer and the command settling it at once.
RoundSound == PotMatches /\ WinnerPaid

\* A round whose time is up is settled and announced, after a failure or a crash at
\* any point: until then the server cannot have another one.
RoundEnds == ended ~> (Settled /\ announced)

\* The pot, seen from those who bought tickets.
Stakes == [k \in Purchases |-> IF k \notin booked THEN "none"
                              ELSE IF Buyer[k] \in refunded THEN "returned"
                              ELSE IF status = "FINISHED" THEN "met" ELSE "held"]
Escrow == INSTANCE Escrow WITH Claims <- Purchases, Worth <- [k \in Purchases |-> 1],
                               state <- Stakes, fund <- pot, gone <- archived

\* The pot keeps what Escrow promises: until the winner is paid every stake is there to be
\* given back, afterwards none is, and the account ends when nobody has a claim.
EscrowImplemented == Escrow!Spec
=============================================================================
