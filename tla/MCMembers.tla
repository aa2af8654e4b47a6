------------------------------- MODULE MCMembers -------------------------------
(***************************************************************************)
(* Small instances of Whitelist, LeaveCleanup and LinkRewards for TLC: a   *)
(* member's name on the whitelist, the clean-up after a leave, the link    *)
(* and what it earns.  A behaviour belongs to one part, chosen at the      *)
(* start: an instance of one of the three with its own bounds.             *)
(*   names:    every whitelist command, three in all, one edit, one fault  *)
(*   intents:  whitelist requests, adds, removals and bans, one fault      *)
(*   drifts:   drift decisions, dashboard syncs, one edit, one fault       *)
(*   banned:   four adds, removals and bans                                *)
(*   claims:   a leave, one fault                                          *)
(*   legacy:   a leave, a request of the old kind                          *)
(*   leaves:   two leaves, an add, a session                               *)
(*   again:    two leaves, one fault                                       *)
(*   finish:   a leave and a request of the old kind, one fault            *)
(*   rivals:   two users, one identity, links and unlinks at once          *)
(*   moves:    one user, two identities, links and unlinks, one fault      *)
(*   turns:    two users, one identity, one command after the other        *)
(*   left:     a leave during a link, at any speed                         *)
(*   repairs:  every kind of link command, one fault                       *)
(***************************************************************************)
EXTENDS Naturals, TLC

CONSTANTS
    Parts,      \* the parts of this run
    None,       \* of LinkRewards
    w1, w2, u1, u2, g1, g2, t1, t2

VARIABLES
    part,
    entry, request, remote, job, ban, drift, cmd, work, cron, foreign, spent,   \* Whitelist
    req, saga, wl, exec, member, data, add, covered, used,                      \* LeaveCleanup
    now, link, reward, leave, task, post, session, progress, paid, verified, linked, count

wvars == <<entry, request, remote, job, ban, drift, cmd, work, cron, foreign, spent>>
lvars == <<req, saga, wl, exec, member, data, add, covered, used>>
kvars == <<now, link, reward, leave, task, post, session, progress, paid, verified, linked, count>>
vars  == <<part, wvars, lvars, kvars>>

\* A part that has only u1 has no state with u2 that one with u1 could stand for.
Symmetric == Permutations({w1, w2}) \union Permutations({u1, u2})
             \union Permutations({g1, g2}) \union Permutations({t1, t2})

-----------------------------------------------------------------------------
Manual == {"add", "remove", "request", "approve", "ban", "unban"}

Names   == INSTANCE Whitelist WITH Commands <- Manual \union {"accept", "restore", "sync"}, Catalog <- TRUE,
                                   MaxCommands <- 3, MaxEdits <- 1, MaxFaults <- 1
Intents == INSTANCE Whitelist WITH Commands <- Manual, Catalog <- FALSE,
                                   MaxCommands <- 3, MaxEdits <- 0, MaxFaults <- 1
Drifts  == INSTANCE Whitelist WITH Commands <- {"add", "remove", "accept", "restore", "sync"}, Catalog <- TRUE,
                                   MaxCommands <- 2, MaxEdits <- 1, MaxFaults <- 1
Banned  == INSTANCE Whitelist WITH Commands <- {"add", "remove", "ban", "unban"}, Catalog <- FALSE,
                                   MaxCommands <- 4, MaxEdits <- 0, MaxFaults <- 0

Claims   == INSTANCE LeaveCleanup WITH work <- saga, spent <- used, Workers <- {w1, w2}, MaxAttempts <- 2,
                Scopes <- {"NONE"}, Rows <- {"SYNCED"}, AddJobs <- FALSE, Returns <- TRUE,
                MaxLeaves <- 1, MaxAdds <- 0, MaxConnects <- 0, MaxFaults <- 1
Legacy   == INSTANCE LeaveCleanup WITH work <- saga, spent <- used, Workers <- {w1, w2}, MaxAttempts <- 2,
                Scopes <- {"NONE", "FULL_PURGE_LEGACY"}, Rows <- {"SYNCED"}, AddJobs <- FALSE, Returns <- TRUE,
                MaxLeaves <- 1, MaxAdds <- 0, MaxConnects <- 0, MaxFaults <- 0
Leaves   == INSTANCE LeaveCleanup WITH work <- saga, spent <- used, Workers <- {w1}, MaxAttempts <- 2, 
                Scopes <- {"NONE"}, Rows <- {"NONE", "LOCAL_ONLY", "SYNCED", "PENDING_REMOVE"},
                AddJobs <- FALSE, Returns <- TRUE, MaxLeaves <- 2, MaxAdds <- 1, MaxConnects <- 1, MaxFaults <- 0
Again    == INSTANCE LeaveCleanup WITH work <- saga, spent <- used, Workers <- {w1}, MaxAttempts <- 2,
                Scopes <- {"NONE"}, Rows <- {"SYNCED"}, AddJobs <- FALSE, Returns <- TRUE,
                MaxLeaves <- 2, MaxAdds <- 0, MaxConnects <- 0, MaxFaults <- 1
Finishes == INSTANCE LeaveCleanup WITH work <- saga, spent <- used, Workers <- {w1}, MaxAttempts <- 2,
                Scopes <- {"NONE", "FULL_PURGE_LEGACY"}, Rows <- {"SYNCED", "PENDING_REMOVE"},
                AddJobs <- FALSE, Returns <- TRUE,
                MaxLeaves <- 1, MaxAdds <- 0, MaxConnects <- 0, MaxFaults <- 1

Rivals  == INSTANCE LinkRewards WITH cron <- post, spent <- count, Users <- {u1, u2}, Ids <- {g1},
               Tasks <- {t1, t2}, Kinds <- {"link", "unlink"}, Bucket <- 1, MaxTime <- 3,
               MaxCommands <- 3, MaxLeaves <- 0, MaxFaults <- 0, Slow <- FALSE
Moves   == INSTANCE LinkRewards WITH cron <- post, spent <- count, Users <- {u1}, Ids <- {g1, g2},
               Tasks <- {t1}, Kinds <- {"link", "unlink"}, Bucket <- 1, MaxTime <- 3,
               MaxCommands <- 3, MaxLeaves <- 0, MaxFaults <- 1, Slow <- FALSE
Turns   == INSTANCE LinkRewards WITH cron <- post, spent <- count, Users <- {u1, u2}, Ids <- {g1},
               Tasks <- {t1}, Kinds <- {"link", "unlink"}, Bucket <- 1, MaxTime <- 3,
               MaxCommands <- 4, MaxLeaves <- 0, MaxFaults <- 0, Slow <- FALSE
Left    == INSTANCE LinkRewards WITH cron <- post, spent <- count, Users <- {u1}, Ids <- {g1},
               Tasks <- {t1}, Kinds <- {"link", "force", "unlink"}, Bucket <- 1, MaxTime <- 2,
               MaxCommands <- 2, MaxLeaves <- 1, MaxFaults <- 0, Slow <- TRUE
Repairs == INSTANCE LinkRewards WITH cron <- post, spent <- count, Users <- {u1}, Ids <- {g1},
               Tasks <- {t1}, Kinds <- {"link", "force", "unlink", "forceUnlink"}, Bucket <- 1, MaxTime <- 1,
               MaxCommands <- 3, MaxLeaves <- 0, MaxFaults <- 1, Slow <- FALSE

\* The instances are instances of what the theorems assume of the constants.
ASSUME Instances ==
    /\ Names!NameAssumption /\ Intents!NameAssumption /\ Drifts!NameAssumption /\ Banned!NameAssumption
    /\ Claims!CleanupAssumption /\ Legacy!CleanupAssumption /\ Leaves!CleanupAssumption
    /\ Again!CleanupAssumption /\ Finishes!CleanupAssumption
    /\ Rivals!LinkAssumption /\ Moves!LinkAssumption /\ Turns!LinkAssumption
    /\ Left!LinkAssumption /\ Repairs!LinkAssumption /\ Turns!InTurns

-----------------------------------------------------------------------------
\* What does not take part stays in one of its initial states.
Init ==
    /\ part \in Parts
    /\ Names!Init
    /\ part \notin {"names", "intents", "drifts", "banned"} => entry = "NONE" /\ ~remote
    /\ CASE part = "claims"   -> Claims!Init
         [] part = "legacy"   -> Legacy!Init
         [] part = "leaves"   -> Leaves!Init
         [] part = "again"    -> Again!Init
         [] part = "finish"   -> Finishes!Init
         [] OTHER             -> Claims!Init /\ ~wl.approved
    /\ CASE part = "moves"   -> Moves!Init
         [] part = "turns"   -> Turns!Init
         [] part = "left"    -> Left!Init
         [] part = "repairs" -> Repairs!Init
         [] OTHER            -> Rivals!Init

Next ==
    /\ UNCHANGED part
    /\ \/ /\ \/ part = "names" /\ Names!Next
             \/ part = "intents" /\ Intents!Next
             \/ part = "drifts" /\ Drifts!Next
             \/ part = "banned" /\ Banned!Next
          /\ UNCHANGED <<lvars, kvars>>
       \/ /\ \/ part = "claims" /\ Claims!Next
             \/ part = "legacy" /\ Legacy!Next
             \/ part = "leaves" /\ Leaves!Next
             \/ part = "again" /\ Again!Next
             \/ part = "finish" /\ Finishes!Next
          /\ UNCHANGED <<wvars, kvars>>
       \/ /\ \/ part = "rivals" /\ Rivals!Next
             \/ part = "moves" /\ Moves!Next
             \/ part = "turns" /\ Turns!Next
             \/ part = "left" /\ Left!Next
             \/ part = "repairs" /\ Repairs!Next
          /\ UNCHANGED <<wvars, lvars>>

Spec == Init /\ [][Next]_vars

\* The fairness of the three modules, each for the behaviours of its own parts.
OfNames  == part \in {"intents", "drifts", "banned"}
OfLeaves == part = "finish"
OfLinks  == part = "repairs"

FairSpec ==
    /\ Spec
    /\ WF_wvars(OfNames /\ Names!Work) /\ WF_wvars(OfNames /\ Names!Cron)
    /\ SF_wvars(OfNames /\ Names!CronList) /\ SF_wvars(OfNames /\ Names!BanTake)
    /\ SF_wvars(OfNames /\ Names!BanRepair)
    /\ SF_<<wvars, lvars>>(\/ OfNames /\ Names!Take("ADD") /\ UNCHANGED lvars
                           \/ OfLeaves /\ Finishes!TakeJob("add") /\ UNCHANGED wvars)
    /\ SF_<<wvars, lvars>>(\/ OfNames /\ Names!Take("REMOVE") /\ UNCHANGED lvars
                           \/ OfLeaves /\ Finishes!TakeJob("remove") /\ UNCHANGED wvars)
    /\ WF_lvars(OfLeaves /\ Finishes!Work(w1))
    /\ WF_lvars(OfLeaves /\ Finishes!MarkMemberLeft) /\ WF_lvars(OfLeaves /\ Finishes!ConfirmLeave)
    /\ WF_lvars(OfLeaves /\ Finishes!RejoinLevel) /\ WF_lvars(OfLeaves /\ Finishes!Decide)
    /\ WF_lvars(OfLeaves /\ Finishes!WriteRemote) /\ WF_lvars(OfLeaves /\ Finishes!AddCommit)
    /\ WF_lvars(OfLeaves /\ Finishes!AgeLease /\ UNCHANGED used)
    /\ WF_lvars(OfLeaves /\ Finishes!Disconnect) /\ WF_lvars(OfLeaves /\ Finishes!DrawLottery)
    /\ WF_kvars(OfLinks /\ Repairs!Command(t1))
    /\ WF_kvars(OfLinks /\ Repairs!Cron)
    /\ WF_kvars(OfLinks /\ Repairs!LeaveCompletes(u1))

-----------------------------------------------------------------------------
TypeOK == /\ Names!TypeOK
          /\ CASE part = "leaves" -> Leaves!TypeOK
               [] part = "again"  -> Again!TypeOK
               [] part = "finish" -> Finishes!TypeOK
               [] OTHER           -> Claims!TypeOK
          /\ CASE part = "moves"   -> Moves!TypeOK
               [] part = "turns"   -> Turns!TypeOK
               [] part = "left"    -> Left!TypeOK
               [] part = "repairs" -> Repairs!TypeOK
               [] OTHER            -> Rivals!TypeOK

\* whitelistIntent.ts, whitelistSyncCron.ts: names that only Nitrado knows are
\* never taken off by the bot, and the row of a removal goes only after its name.
NamesSafe == Names!NoForeignRemoval /\ Names!RowGoesAfterName

\* whitelistSyncCron.ts, driftDiscord.ts, whitelistBanGuard.ts: every intent is confirmed,
\* goes or is overwritten; a SYNCED that is not true is reported where there is a channel for
\* it, after a failed post too; a player who stays banned ends up off the list.
NamesSettle == /\ part = "intents" => Names!IntentSettles
               /\ part = "drifts" => Names!SyncedIsTrue
               /\ part = "banned" => Names!BannedLeaves

\* guildMemberRemove.ts, linkRewards.ts: a member who is gone has a clean-up request of that
\* leave, unless the handler could not ask for it and has logged that; and no link activates
\* rewards again after a clean-up.
LeaveFinal == /\ Claims!LeaveCovered
              /\ part = "left" => Left!CleanupFinal

\* leaveCleanupStatsSessions.ts, leaveCleanupWhitelist.ts, leaveCleanupRejoin.ts:
\* a clean-up takes who left off the list before its whitelist step ends, and spares
\* who is there: an open session's identity, a row that is wanted, and the profile of
\* who came back.
CleanupExact ==
    /\ Claims!CleanedIsOff
    /\ Claims!OpenSessionKept /\ Claims!PresentRowKept /\ Claims!RejoinerKept

\* leaveCleanupSaga.ts: a clean-up ends, after a failure or crash anywhere.
LeaveFinishes == part = "finish" => Claims!LeaveFinishes

\* linkRewards.ts, playtimeBooking.ts: play time is paid to who was verified as its player
\* and since the first verification, a bucket of one epoch once, and that of one identity
\* once, when two users take turns with it.
PlaytimeExact == /\ Rivals!NeverBeforeFirstLink
                 /\ Rivals!BucketPaidOnce
                 /\ part = "turns" => Turns!TimePaidOnce

\* linkRewards.ts: every confirmed link comes to earn, after a failure anywhere.
LinkEarns == part = "repairs" => Repairs!LinkEarns
=============================================================================
