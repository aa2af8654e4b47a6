---------------------------- MODULE MCNitradoJobs ----------------------------
(* Small instances of NitradoJobs for TLC. *)
EXTENDS NitradoJobs, TLC

CONSTANTS j1, j2, c1, i1, i2, t1, t2, t3

\* Two jobs of one connection: the worker must serialise them.
OneConn == (j1 :> c1) @@ (j2 :> c1)
OneJob  == j1 :> c1

\* Faults, the third token and a second attempt are for behaviours in which
\* only one job ever exists; two jobs compete undisturbed.
InUse == {t \in Tokens : \/ exec[t] # None
                         \/ \E j \in Jobs : lease[j].token = t
                         \/ \E i \in Instances : t \in poll[i].oldLeases \/ \E r \in poll[i].leases : r[2] = t}
Alone == \E j \in Jobs : \A k \in Jobs \ {j} : job[k].status = "ABSENT"
Calm  == /\ faults = 0
         /\ Cardinality(InUse) <= 2
         /\ \A j \in Jobs : job[j].attempts = 0 \/ job[j].status \in {"DONE", "DEAD", "DELETED"}

MCSpec == Init /\ [][Next /\ (Alone \/ Calm)']_vars

Symmetric == Permutations(Tokens) \union Permutations(Instances) \union Permutations(Jobs)
=============================================================================
