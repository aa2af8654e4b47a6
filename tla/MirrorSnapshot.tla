--------------------------- MODULE MirrorSnapshot ---------------------------
(***************************************************************************)
(* The mirror of a game server's files: snapshots taken one at a time      *)
(* under a lease of the connection's binding, and the AI's knowledge that  *)
(* each finished snapshot replaces, while the service or the token may be  *)
(* changed in the dashboard (src/modules/nitrado/mirror,                   *)
(* ai/liveServerKnowledgeIndex.ts, nitrado/adm/bindingState.ts).           *)
(*                                                                         *)
(* A binding is token, service and version, the three that the lease's     *)
(* key hashes and the fence compares.  Files and documents are left out:   *)
(* knowledge is known by the snapshot it is of.                            *)
(***************************************************************************)
EXTENDS Naturals, Sequences

CONSTANTS
    Services, First, None,
    MaxRuns, MaxMoves, MaxTokens, MaxFaults \* bounds: requests, changes, failures

VARIABLES
    binding,            \* NitradoConnection, with its NitradoAdmBindingState
    snapshots,          \* their status, in the order of creation
    lease,              \* NitradoMirrorLease or None
    run,                \* [1..MaxRuns -> a request for a snapshot and the run it becomes]
    knowledge,          \* LIVE_SERVER documents: their snapshot and its binding, or None
    spent               \* of the bounds

vars == <<binding, snapshots, lease, run, knowledge, spent>>

Runs == 1..MaxRuns
Idle == [at |-> "idle", bound |-> None, snap |-> 0, outcome |-> "FAILED"]

Init ==
    /\ binding = [service |-> First, token |-> 0, version |-> 0]
    /\ snapshots = <<>> /\ lease = None /\ run = [r \in Runs |-> Idle] /\ knowledge = None
    /\ spent = [moves |-> 0, tokens |-> 0, faults |-> 0]

Bindings == [service: Services \union {None}, token: 0..MaxTokens, version: 0..MaxMoves]
Outcomes == {"OK", "PARTIAL", "FAILED"}

\* The constants: the bounds are numbers, and None is neither a lease nor knowledge.
MirrorAssumption ==
    /\ MaxRuns \in Nat /\ MaxMoves \in Nat /\ MaxTokens \in Nat /\ MaxFaults \in Nat
    /\ First \in Services
    /\ None \notin [snap: Nat, key: Bindings, live: BOOLEAN] /\ None \notin [snap: Nat, of: Bindings]

Ids == 1..Len(snapshots)

TypeOK ==
    /\ binding \in Bindings
    /\ snapshots \in Seq(Outcomes \union {"RUNNING"}) /\ Len(snapshots) <= MaxRuns
    /\ lease = None \/ lease \in [snap: Ids, key: Bindings, live: BOOLEAN]
    /\ run \in [Runs -> [at: {"idle", "acquire", "fresh", "walk", "finalize", "commit", "release", "ended"},
                         bound: Bindings \union {None}, snap: {0} \union Ids, outcome: Outcomes]]
    /\ knowledge = None \/ knowledge \in [snap: Ids, of: Bindings]

At(r, at) == run[r].at = at
Goto(r, at) == run' = [run EXCEPT ![r].at = at]
Spend(what, limit) == spent[what] < limit /\ spent' = [spent EXCEPT ![what] = @ + 1]
Fault == Spend("faults", MaxFaults)

-----------------------------------------------------------------------------
(* The dashboard, under the connection lock                                *)

\* A change of the service is a new version and takes the knowledge along.
Rebind(s) ==
    /\ s # binding.service /\ Spend("moves", MaxMoves)
    /\ binding' = [binding EXCEPT !.service = s, !.version = @ + 1] /\ knowledge' = None
    /\ UNCHANGED <<snapshots, lease, run>>

\* updateToken without resetServiceId
NewToken ==
    /\ Spend("tokens", MaxTokens) /\ binding' = [binding EXCEPT !.token = @ + 1]
    /\ UNCHANGED <<snapshots, lease, run, knowledge>>

-----------------------------------------------------------------------------
(* startSnapshot                                                           *)

\* readCurrentAdmBinding; the requests come in the order of their numbers.
ReadBinding(r) ==
    /\ At(r, "idle") /\ \A q \in 1..(r - 1) : ~At(q, "idle")
    /\ run' = [run EXCEPT ![r].bound = binding, ![r].at = IF binding.service = None THEN "ended" ELSE "acquire"]
    /\ UNCHANGED <<binding, snapshots, lease, knowledge, spent>>

\* acquireMirrorSnapshotLease: a live lease of the same binding is a run to join, any
\* other one is replaced and its snapshot is over.
Joins(r) == lease # None /\ lease.live /\ lease.key = run[r].bound
Replaced == [n \in Ids |-> IF lease # None /\ lease.snap = n /\ snapshots[n] = "RUNNING" THEN "FAILED" ELSE snapshots[n]]
Acquire(r) ==
    /\ At(r, "acquire") /\ UNCHANGED <<binding, knowledge, spent>>
    /\ \/ Joins(r) /\ Goto(r, "ended") /\ UNCHANGED <<snapshots, lease>>
       \/ /\ ~Joins(r) /\ snapshots' = Append(Replaced, "RUNNING")
          /\ lease' = [snap |-> Len(snapshots) + 1, key |-> run[r].bound, live |-> TRUE]
          /\ run' = [run EXCEPT ![r].at = "fresh", ![r].snap = Len(snapshots) + 1]

\* withFreshAdmBinding: nothing changed between the two.
FreshCheck(r) ==
    /\ At(r, "fresh") /\ Goto(r, IF binding = run[r].bound THEN "walk" ELSE "finalize")
    /\ UNCHANGED <<binding, snapshots, lease, knowledge, spent>>

-----------------------------------------------------------------------------
(* runSnapshot                                                             *)

\* The lease row is still the run's; a row that lapsed is no one's.
Mine(r)  == lease # None /\ lease.snap = run[r].snap
Holds(r) == Mine(r) /\ lease.live

\* The walk over the files, up to its last heartbeat.
Walk(r) ==
    /\ At(r, "walk")
    /\ \E outcome \in IF Holds(r) THEN Outcomes ELSE {"FAILED"} :
          run' = [run EXCEPT ![r].at = "finalize", ![r].outcome = outcome]
    /\ UNCHANGED <<binding, snapshots, lease, knowledge, spent>>

\* finalizeMirrorSnapshotLease; a run that lost its lease changes nothing any more.
Finalize(r) ==
    LET n == run[r].snap
        can == Holds(r) /\ snapshots[n] = "RUNNING"
    IN  /\ At(r, "finalize")
        /\ snapshots' = IF can THEN [snapshots EXCEPT ![n] = run[r].outcome] ELSE snapshots
        /\ Goto(r, IF ~can THEN "ended" ELSE IF run[r].outcome = "FAILED" THEN "release" ELSE "commit")
        /\ UNCHANGED <<binding, lease, knowledge, spent>>

\* indexNitradoSnapshotKnowledge: the documents are replaced if neither the binding nor
\* the lease is another one.
\* Mutant of MayCommit: without withFreshAdmBinding.
MayCommitUnfenced(r) == Holds(r)

MayCommit(r) == binding = run[r].bound /\ Holds(r)
Commit(r) ==
    /\ At(r, "commit") /\ Goto(r, "release")
    /\ knowledge' = IF MayCommit(r) THEN [snap |-> run[r].snap, of |-> run[r].bound] ELSE knowledge
    /\ UNCHANGED <<binding, snapshots, lease, spent>>

Release(r) ==
    /\ At(r, "release") /\ Goto(r, "ended") /\ lease' = IF Mine(r) THEN None ELSE lease
    /\ UNCHANGED <<binding, snapshots, knowledge, spent>>

-----------------------------------------------------------------------------
(* Failures                                                                *)

\* A run stalls, or its process has died, for longer than the lease.
Expire ==
    /\ lease # None /\ lease.live /\ Fault /\ lease' = [lease EXCEPT !.live = FALSE]
    /\ UNCHANGED <<binding, snapshots, run, knowledge>>

\* The connection lock is taken, or the database refuses.
Fails(r) ==
    /\ Fault
    /\ \/ run[r].at \in {"acquire", "finalize", "release"} /\ Goto(r, "ended")
       \/ At(r, "fresh") /\ Goto(r, "finalize")
       \/ At(r, "commit") /\ Goto(r, "release")
    /\ UNCHANGED <<binding, snapshots, lease, knowledge>>

Crash ==
    /\ Fault /\ run' = [r \in Runs |-> IF At(r, "idle") THEN run[r] ELSE [run[r] EXCEPT !.at = "ended"]]
    /\ UNCHANGED <<binding, snapshots, lease, knowledge>>

-----------------------------------------------------------------------------
Step(r) == ReadBinding(r) \/ Acquire(r) \/ FreshCheck(r) \/ Walk(r) \/ Finalize(r) \/ Commit(r) \/ Release(r)

Next ==
    \/ (\E s \in Services \union {None} : Rebind(s)) \/ NewToken
    \/ (\E r \in Runs : Step(r) \/ Fails(r)) \/ Expire \/ Crash

Spec == Init /\ [][Next]_vars

-----------------------------------------------------------------------------
(* Properties *)

\* bindingState.ts: no knowledge outlives a change of the service, also when a run of the
\* old one ends late.
KnowledgeOfBinding ==
    knowledge # None => knowledge.of.service = binding.service /\ knowledge.of.version = binding.version

\* mirrorLease.ts: one snapshot runs at a time, whatever lapses or is taken over.
OneRunning == \A m, n \in Ids : snapshots[m] = "RUNNING" /\ snapshots[n] = "RUNNING" => m = n

\* liveServerKnowledgeIndex.ts: the documents are of a snapshot that ended well.
OnlyFinished == knowledge # None => snapshots[knowledge.snap] \in {"OK", "PARTIAL"}

\* liveServerKnowledgeIndex.ts:206-211: once a newer snapshot is established, no older
\* one replaces the documents.
CommitsNewest == [][knowledge' \notin {knowledge, None} => knowledge'.snap = Len(snapshots)]_vars

\* The four together.
KnowledgeSafe == [](KnowledgeOfBinding /\ OneRunning /\ OnlyFinished) /\ CommitsNewest
=============================================================================
