------------------------------ MODULE MCServices ------------------------------
(***************************************************************************)
(* Small instances for TLC of what the bot does around a game server by    *)
(* itself: RadarBans, RestartPlan, KeepOnline and MirrorSnapshot.  A       *)
(* behaviour belongs to one part, chosen at the start: an instance of one  *)
(* of the four, the others at rest.                                        *)
(*   radar:  one offence, two services, two interventions of any kind      *)
(*   plans:  two revisions of a plan, one fault or edit at Nitrado         *)
(*   moves:  two services: a zone change, or two of: binding, fault        *)
(*   keep:   Keep-Online, two polling processes, two faults                *)
(*   mirror: two requests, two of: service change, new token, fault        *)
(***************************************************************************)
EXTENDS RadarBans

CONSTANTS
    MaxEvents,      \* bound: saves, moves, commands and faults of radar together
    Parts,
    p1, s1, s2, e1, w1, w2, c1, c2

VARIABLES
    part,
    plan, jobs, service, tasks, timezone, newest, lock, sync, edited, used,     \* RestartPlan
    enabled, server, job, seen, check, switches, stops, faults,                 \* KeepOnline
    bound, snapshots, lease, run, knowledge, used2                              \* MirrorSnapshot

pvars == <<plan, jobs, service, tasks, timezone, newest, lock, sync, edited, used>>
kvars == <<enabled, server, job, seen, check, switches, stops, faults>>
mvars == <<bound, snapshots, lease, run, knowledge, used2>>
parts == <<vars, pvars, kvars, mvars>>
all   == <<part, parts>>

-----------------------------------------------------------------------------
Plans == INSTANCE RestartPlan WITH Workers <- {w1, w2}, Times <- {1, 2}, Zones <- {"z1"}, FirstZone <- "z1",
            Services <- {s1}, First <- s1, MaxAttempts <- 2, MaxSaves <- 2, MaxMoves <- 0, MaxZoneMoves <- 0,
            MaxEdits <- 1, MaxFaults <- 1, SessionLoss <- TRUE, zone <- timezone, exec <- sync
Moves == INSTANCE RestartPlan WITH Workers <- {w1, w2}, Times <- {1, 2}, Zones <- {"z1", "z2"}, FirstZone <- "z1",
            Services <- {s1, s2}, First <- s1, MaxAttempts <- 2, MaxSaves <- 2, MaxMoves <- 2, MaxZoneMoves <- 1,
            MaxEdits <- 0, MaxFaults <- 1, SessionLoss <- TRUE, zone <- timezone, exec <- sync
Keep  == INSTANCE KeepOnline WITH Crons <- {c1, c2}, MaxAttempts <- 2, MaxSwitches <- 3, MaxStops <- 3,
            MaxFaults <- 2, exec <- check

Mirror == INSTANCE MirrorSnapshot WITH Services <- {s1, s2}, First <- s1, MaxRuns <- 2, MaxMoves <- 2,
            MaxTokens <- 1, MaxFaults <- 2, binding <- bound, spent <- used2

\* What the proofs assume of the constants holds of these.
ASSUME Instances == Plans!PlanAssumption /\ Moves!PlanAssumption /\ Keep!KeepAssumption /\ Mirror!MirrorAssumption

-----------------------------------------------------------------------------
\* What does not take part stays in one of its initial states.
MCInit ==
    /\ part \in Parts
    /\ Init /\ Keep!Init /\ Mirror!Init
    /\ IF part = "moves" THEN Moves!Init ELSE Plans!Init

OfRadar  == part = "radar" /\ UNCHANGED <<pvars, kvars, mvars>>
OfPlans  == part = "plans" /\ UNCHANGED <<vars, kvars, mvars>>
OfMoves  == part = "moves" /\ UNCHANGED <<vars, kvars, mvars>>
OfKeep   == part = "keep" /\ UNCHANGED <<vars, pvars, mvars>>
OfMirror == part = "mirror" /\ UNCHANGED <<vars, pvars, kvars>>

MCNext ==
    /\ UNCHANGED part
    /\ \/ /\ part = "radar" /\ Next /\ OfRadar
          /\ spent'.saves + spent'.moves + spent'.commands + spent'.faults <= MaxEvents
       \/ part = "plans" /\ Plans!Next /\ OfPlans /\ used'.edits + used'.faults <= 1
       \/ part = "moves" /\ Moves!Next /\ OfMoves /\ used'.moves + 2 * used'.zones + used'.faults <= 2
          /\ used'.moves <= 1 + used'.unbinds
       \/ part = "keep" /\ Keep!Next /\ OfKeep
       \/ part = "mirror" /\ Mirror!Next /\ OfMirror /\ used2'.moves + used2'.tokens + used2'.faults <= 2

\* The fairness of the modules, each for the behaviours of its own parts.
PlanTake(n) == \E w \in {w1, w2} : Plans!Take(w, n)
MoveTake(n) == \E w \in {w1, w2} : Moves!Take(w, n)
G == <<p1, "guid">>
N == <<p1, "name">>

MCSpec ==
    /\ MCInit /\ [][MCNext]_all
    /\ WF_parts(\/ OfRadar /\ Detect(e1)
                \/ OfPlans /\ Plans!Work(w1)
                \/ OfMoves /\ Moves!Work(w1)
                \/ OfKeep /\ Keep!Poll(c1))
    /\ WF_parts(\/ OfRadar /\ Insert(e1)
                \/ OfPlans /\ Plans!Work(w2)
                \/ OfMoves /\ Moves!Work(w2)
                \/ OfKeep /\ Keep!Poll(c2))
    /\ WF_parts(\/ OfRadar /\ Recover(e1)
                \/ OfPlans /\ Plans!Recover(1)
                \/ OfMoves /\ Moves!Recover(1)
                \/ OfKeep /\ Keep!Recover)
    /\ WF_parts(\/ OfRadar /\ AutoBan
                \/ OfPlans /\ Plans!Recover(2)
                \/ OfMoves /\ Moves!Recover(2)
                \/ OfKeep /\ Keep!Work)
    /\ WF_parts(OfRadar /\ Work)
    /\ WF_parts(OfRadar /\ Reconcile)
    /\ SF_parts((OfRadar /\ ReconRead) \/ (OfPlans /\ PlanTake(1)) \/ (OfMoves /\ MoveTake(1)))
    /\ SF_parts((OfRadar /\ Take(G, "ADD")) \/ (OfPlans /\ PlanTake(2)) \/ (OfMoves /\ MoveTake(2)))
    /\ SF_parts(OfRadar /\ Take(G, "REMOVE"))
    /\ SF_parts(OfRadar /\ Take(N, "ADD"))
    /\ SF_parts(OfRadar /\ Take(N, "REMOVE"))

-----------------------------------------------------------------------------
\* Every variable keeps its type.
TypesOK ==
    /\ TypeOK /\ Keep!TypeOK /\ Mirror!TypeOK
    /\ IF part = "moves" THEN Moves!TypeOK ELSE Plans!TypeOK

\* autoBanRuntime.ts, banReconciliation.ts: every offence is settled, once, after any
\* failure, and a radar ban that stays active comes to be on the list, or is reported.
OffencesSettle == SettledForGood /\ OffenceSettles /\ ActiveIsListed

\* restartTaskPlanStore.ts, restartTaskPlan.ts, jobWorker.ts: a plan shown as SYNCED is
\* what Nitrado has, unless somebody changed tasks there; and a saved plan is synced
\* after any failure, or shows an error where service or zone were changed.
PlansSettle ==
    /\ [][Plans!SyncedMatches']_parts
    /\ (part = "plans" => Plans!PlanSynced) /\ (part = "moves" => Moves!PlanSettles)

\* keepOnlineJobs.ts, permaOnlyCron.ts: once the switch is off, the bot starts no server;
\* while it is on, a stopped server is started, or the job has failed.
KeepsOnline == Keep!OffMeansOff /\ (part = "keep" => Keep!ComesBack)

\* mirrorLease.ts, liveServerKnowledgeIndex.ts, bindingState.ts: the AI's knowledge is of
\* the bound service and of a snapshot that ended well, the newest when it was written;
\* one snapshot runs at a time.
KnowledgeSafe == Mirror!KnowledgeSafe
=============================================================================
