-------------------------------- MODULE MCBans --------------------------------
(***************************************************************************)
(* Small instances of ServerBan for TLC.  A behaviour belongs to one part, *)
(* chosen at the start: an instance of ServerBan with its own bounds, over *)
(* the same variables.  The .cfg gives ServerBan itself the largest of    *)
(* them, for its type.  Each part has one fault.                           *)
(*   enforced: a ban, temporary or not, set twice, every command           *)
(*   edited:   bans without an end, set twice, lifted, one edit            *)
(*   notices:  a temporary ban, lifted; no catalogue channel               *)
(***************************************************************************)
EXTENDS ServerBan

CONSTANT b1

VARIABLE part

all == <<part, vars>>

Enforced == INSTANCE ServerBan WITH Bans <- {b1}, MaxAttempts <- 2, MaxBans <- 2, Temporary <- TRUE,
                                    Unbans <- TRUE, Catalog <- TRUE, MaxEdits <- 0, MaxFaults <- 1
Edited   == INSTANCE ServerBan WITH Bans <- {b1}, MaxAttempts <- 2, MaxBans <- 2, Temporary <- FALSE,
                                    Unbans <- TRUE, Catalog <- TRUE, MaxEdits <- 1, MaxFaults <- 1
Notified == INSTANCE ServerBan WITH Bans <- {b1}, MaxAttempts <- 2, MaxBans <- 1, Temporary <- TRUE,
                                    Unbans <- TRUE, Catalog <- FALSE, MaxEdits <- 0, MaxFaults <- 1
MCInit == part \in {"enforced", "edited", "notices"} /\ Enforced!Init

MCNext ==
    /\ UNCHANGED part
    /\ \/ part = "enforced" /\ Enforced!Next
       \/ part = "edited" /\ Edited!Next
       \/ part = "notices" /\ Notified!Next

MCSpec == MCInit /\ [][MCNext]_all

\* The fairness of ServerBan; its actions have no bounds.
MCFairSpec ==
    /\ MCSpec
    /\ WF_vars(Enforced!Work) /\ WF_vars(Enforced!Reconcile) /\ WF_vars(Enforced!Expiry)
    /\ SF_vars(Enforced!ReconRead) /\ WF_vars(Enforced!TimePasses(b1))
    /\ \A op \in {"ADD", "REMOVE"} : SF_vars(Enforced!Take(b1, op)) /\ WF_vars(Enforced!CooldownEnds(op))

-----------------------------------------------------------------------------
\* The liveness of ServerBan, each property of the parts in which nothing excuses it.

\* banReconciliation.ts, expiryRuntime.ts, driftDiscord.ts: after one failure or crash
\* anywhere, an active ban whose identifier is stored ends up confirmed and on the list, or
\* its removal by hand is reported; so is an appliedRemotely that claims too much; a ban
\* that is over leaves the list, unless its row forgot it; its expiry notice ends.
BansSettle ==
    /\ part \in {"enforced", "edited"} => Enforced!BanEnforced
    /\ part = "edited" => Edited!FlagCorrected
    /\ part \in {"enforced", "notices"} => Enforced!LiftedBanLeaves
    /\ part = "notices" => Enforced!NoticeSettles
=============================================================================
