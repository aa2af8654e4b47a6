------------------------------- MODULE MCEconomy -------------------------------
(***************************************************************************)
(* Small instances of Market, Lottery, Rewards, AdmIngest and GameplayFeed *)
(* for TLC.  A behaviour belongs to one part, chosen at the start: an      *)
(* instance of one of the five with its own bounds, the others at rest.    *)
(*   market:   two offers, an order of both and a direct purchase          *)
(*   round:    a lottery of three tickets, one fault                       *)
(*   tickets:  the same, and a buyer who leaves                            *)
(*   kills:    kills of two users, one leaves, a pass books one decision    *)
(*   cuts:     three kills, rewards switched once, one fault               *)
(*   logs:     two log files, one fault                                    *)
(*   rebinds:  two small files, another service                             *)
(*   sessions: two files, one of them used again by a new session          *)
(*   feed:     three events, two changes or faults, enough to give one up   *)
(***************************************************************************)
EXTENDS Market, TLC

CONSTANTS
    Parts,
    l1, l2, k1, k2, k3,             \* offers, keys of purchases
    a, b, e1, e2, e3,               \* users, kills
    S1, S2                          \* services

VARIABLES
    part,
    status, ended, winner, final, announced, booked, pot, archived,       \* Lottery
    wallet, refunded, paidTo, settler, ticketLeave, roundFaults,
    log, position, decision, paid, active, cron, leave, switches, cronFaults, \* Rewards
    remote, clock, binding, cursor, stored, skipped, poll,                \* AdmIngest
    rebinds, replaced, pollFaults,
    events, feed, delivery, sweep, shown, excused, changes, feedFaults   \* GameplayFeed

lvars == <<status, ended, winner, final, announced, booked, pot, archived,
           wallet, refunded, paidTo, settler, ticketLeave, roundFaults>>
rvars == <<log, position, decision, paid, active, cron, leave, switches, cronFaults>>
avars == <<remote, clock, binding, cursor, stored, skipped, poll, rebinds, replaced, pollFaults>>
fvars == <<events, feed, delivery, sweep, shown, excused, changes, feedFaults>>
all   == <<part, vars, lvars, rvars, avars, fvars>>

-----------------------------------------------------------------------------
MCBasket == k1 :> {l1, l2} @@ k2 :> {l1}
MCPrice  == l1 :> 1 @@ l2 :> 2
Buyers   == k1 :> a @@ k2 :> a @@ k3 :> b
Killers  == e1 :> a @@ e2 :> a @@ e3 :> a
Rivals   == e1 :> a @@ e2 :> b @@ e3 :> a
Kinds    == 1 :> "kill" @@ 2 :> "hit" @@ 3 :> "kill"
Times    == e1 :> 0 @@ e2 :> 1 @@ e3 :> 2

Round   == INSTANCE Lottery WITH Users <- {a, b}, Leavers <- {}, Purchases <- {k1, k2, k3}, Buyer <- Buyers,
              Money <- 2, Limit <- 2, Minimum <- 2, Batch <- 1, Settlers <- {"timer", "command"},
              MaxFaults <- 1, purse <- wallet, leave <- ticketLeave, faults <- roundFaults
Tickets == INSTANCE Lottery WITH Users <- {a, b}, Leavers <- {a}, Purchases <- {k1, k2, k3}, Buyer <- Buyers,
              Money <- 2, Limit <- 2, Minimum <- 2, Batch <- 1, Settlers <- {"timer", "command"},
              MaxFaults <- 1, purse <- wallet, leave <- ticketLeave, faults <- roundFaults

Kills == INSTANCE Rewards WITH Events <- {e1, e2, e3}, Users <- {a, b}, Killer <- Rivals, Time <- Times,
            DayLength <- 3, Base <- 2, Cap <- 3, Cooldown <- 2, Batch <- 2, ListSize <- 1, Leavers <- {a},
            MaxSwitches <- 0, MaxFaults <- 0, cursor <- position, status <- decision, faults <- cronFaults
Cuts  == INSTANCE Rewards WITH Events <- {e1, e2, e3}, Users <- {a}, Killer <- Killers, Time <- Times,
            DayLength <- 3, Base <- 2, Cap <- 3, Cooldown <- 2, Batch <- 2, ListSize <- 2, Leavers <- {},
            MaxSwitches <- 1, MaxFaults <- 1, cursor <- position, status <- decision, faults <- cronFaults

Logs     == INSTANCE AdmIngest WITH Services <- {S1}, First <- S1, Files <- {1, 2}, MaxSize <- 4,
               RangeSize <- 3, MaxRanges <- 1, MaxFiles <- 1,
               MaxRebinds <- 0, MaxReplaced <- 0, MaxFaults <- 1, faults <- pollFaults
Rebinds  == INSTANCE AdmIngest WITH Services <- {S1, S2}, First <- S1, Files <- {1, 2}, MaxSize <- 2,
               RangeSize <- 3, MaxRanges <- 1, MaxFiles <- 1,
               MaxRebinds <- 1, MaxReplaced <- 0, MaxFaults <- 0, faults <- pollFaults
Sessions == INSTANCE AdmIngest WITH Services <- {S1}, First <- S1, Files <- {1, 2}, MaxSize <- 4,
               RangeSize <- 3, MaxRanges <- 1, MaxFiles <- 2,
               MaxRebinds <- 0, MaxReplaced <- 1, MaxFaults <- 0, faults <- pollFaults

Feed == INSTANCE GameplayFeed WITH Events <- {1, 2, 3}, Categories <- {"kill", "hit"}, Category <- Kinds,
            Batch <- 2, MaxAttempts <- 2, MaxChanges <- 2, MaxFaults <- 2, stored <- events, posted <- shown,
            faults <- feedFaults

\* What the proofs assume of the constants of rounds, rewards, logs and feeds holds of these.
ASSUME Instances ==
    /\ Round!RoundAssumption /\ Tickets!RoundAssumption
    /\ Kills!RewardAssumption /\ Cuts!RewardAssumption
    /\ Logs!AdmAssumption /\ Rebinds!AdmAssumption /\ Sessions!AdmAssumption
    /\ Feed!FeedAssumption

-----------------------------------------------------------------------------
\* What does not take part stays in one of its initial states.
MCInit ==
    /\ part \in Parts
    /\ Init /\ (part # "market" => listing = [l \in Listings |-> "NONE"])
    /\ Round!Init
    /\ IF part = "cuts" THEN Cuts!Init ELSE Kills!Init /\ (part # "kills" => active)
    /\ IF part = "rebinds" THEN Rebinds!Init
       ELSE Logs!Init /\ (part \notin {"logs", "sessions"} => remote[S1][1].gen = 0)
    /\ Feed!Init /\ (part # "feed" => feed.active)

MCNext ==
    /\ UNCHANGED part
    /\ \/ part = "market" /\ Next /\ UNCHANGED <<lvars, rvars, avars, fvars>>
       \/ /\ \/ part = "round" /\ Round!Next
             \/ part = "tickets" /\ Tickets!Next
          /\ UNCHANGED <<vars, rvars, avars, fvars>>
       \/ /\ \/ part = "kills" /\ Kills!Next
             \/ part = "cuts" /\ Cuts!Next
          /\ UNCHANGED <<vars, lvars, avars, fvars>>
       \/ /\ \/ part = "logs" /\ Logs!Next
             \/ part = "rebinds" /\ Rebinds!Next
             \/ part = "sessions" /\ Sessions!Next
          /\ UNCHANGED <<vars, lvars, rvars, fvars>>
       \/ part = "feed" /\ Feed!Next /\ changes' + feedFaults' <= 2 /\ UNCHANGED <<vars, lvars, rvars, avars>>

\* The fairness of the modules, each for the behaviours of its own parts.
MCSpec ==
    /\ MCInit /\ [][MCNext]_all
    /\ \A o \in Orders : WF_vars(part = "market" /\ Claim(o))
    /\ WF_vars(part = "market" /\ (Find \/ Post \/ Ack))
    /\ WF_lvars(part = "round" /\ Round!TimeIsUp) /\ WF_lvars(part = "round" /\ Round!Settle("timer"))
    /\ WF_rvars(part = "kills" /\ Kills!Run) /\ WF_rvars(part = "kills" /\ Kills!LeaveEnds(a))
    /\ WF_rvars(part = "cuts" /\ Cuts!Run)
    /\ WF_avars(part = "logs" /\ Logs!Poll)
    /\ WF_fvars(part = "feed" /\ Feed!Sweep)

-----------------------------------------------------------------------------
\* Every variable keeps its type.
TypesOK == /\ TypeOK /\ Tickets!TypeOK
           /\ IF part = "cuts" THEN Cuts!TypeOK ELSE Kills!TypeOK
           /\ IF part = "rebinds" THEN Rebinds!TypeOK ELSE Logs!TypeOK
           /\ Feed!TypeOK

\* lottery.ts: the pot holds what was paid and not given back, one winner is paid.
RoundSound == Round!RoundSound

\* lottery.ts, systemVirtualTransfers.ts: until the winner is paid every stake can be given
\* back, each ends once, and the pot is archived when nobody has a claim.
PotKept == Round!EscrowImplemented

\* marketOrderReadyRuntime.ts, lottery.ts: whoever bought is told that the order is ready,
\* and a round whose time is up is settled and announced.
OutcomesTold == ReadyIsTold /\ (part = "round" => Round!RoundEnds)

\* rewardBooking.ts: the cap of a day and the cooldown hold in any order of ingestion.
LimitsKept == IF part = "cuts" THEN Cuts!LimitsKept ELSE Kills!LimitsKept

\* admLiveSyncCron.ts, gameplayFeeds/runtime.ts: what is stored comes in order, and only what
\* was written since the binding; the cursor of a feed passes no event without a delivery.
InOrder == Logs!InOrder /\ Feed!CursorCovers

\* admLiveSyncCron.ts, rewardEngine.ts, rewardBooking.ts, gameplayFeeds/runtime.ts: every line
\* the game server finishes is stored at last, behind a torn file excepted; every kill is
\* decided and, while rewards are on, paid or refused; while the feed is on every event is
\* posted, skipped or given up.
EventsSettle ==
    /\ part = "logs" => Logs!LinesArrive
    /\ part = "kills" => Kills!EventsSettle
    /\ part = "cuts" => Cuts!EventsSettle
    /\ part = "feed" => Feed!DeliveriesSettle
=============================================================================
