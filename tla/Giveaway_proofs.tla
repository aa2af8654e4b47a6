--------------------------- MODULE Giveaway_proofs ---------------------------
(***************************************************************************)
(* The draw of a giveaway is fair for any users, tasks, number of winners  *)
(* and bounds; so are the votes of a poll: nobody has more than allowed,   *)
(* the result is what was shown, and the counter is exact where nobody     *)
(* votes by reaction.  Poll is an instance, of variables of the same names *)
(* or its own: a theorem is about the behaviours of one of the two.        *)
(***************************************************************************)
EXTENDS Giveaway, FiniteSetTheorems, TLAPS

CONSTANTS Options, MaxChoices, Reactions, MaxVotes      \* Poll
VARIABLES poll, votes, lock, announced                  \* Poll

Poll == INSTANCE Poll

\* What the tasks know: who withdraws is a user; a draw has read nobody whose entry it
\* would miss; one announcement at most is to be made, of the winners marked.
Working == task \in [Tasks -> Doing \union {None}] /\ status \in {"ACTIVE", "ENDED"} /\ entries \subseteq Users
Entering == \A t \in Tasks : Is(t, "create") \/ Is(t, "delete") => task[t].user \in Users
Drawing == \A t \in Tasks : Is(t, "draw") => task[t].seen \ task[t].gone \subseteq entries
Announcing == \A t \in Tasks : Is(t, "announce") =>
    /\ status = "ENDED" /\ task[t].seen = winners /\ told = <<>>
    /\ \A s \in Tasks : Is(s, "announce") => s = t
Untold == status = "ACTIVE" => told = <<>>

Inv == Working /\ Entering /\ Drawing /\ Announcing /\ Untold

\* A step of one task leaves the others alone.
Others(t) == \A s \in Tasks : s # t => task'[s] = task[s]

\* The record of a task has its fields.
LEMMA TaskFields ==
    ASSUME NEW at \in {"create", "delete", "read", "draw", "announce"}, NEW user \in Users \union {None},
           NEW seen \in SUBSET Users
    PROVE  /\ Task(at, user, seen) \in Doing
           /\ Task(at, user, seen).at = at /\ Task(at, user, seen).user = user
           /\ Task(at, user, seen).seen = seen /\ Task(at, user, seen).gone = {}
  BY DEF Task, Doing

\* A task that begins, goes on or ends leaves the others alone.
LEMMA BecomeWorks ==
    ASSUME Working, NEW t \in Tasks, NEW new \in Doing \union {None}, Become(t, new)
    PROVE  task' \in [Tasks -> Doing \union {None}] /\ task'[t] = new /\ Others(t)
  BY DEF Working, Become, Others

\* A step that only begins or ends a task, and announces nothing.
LEMMA QuietKept ==
    ASSUME Inv, NEW t \in Tasks, task' \in [Tasks -> Doing \union {None}], Others(t),
           UNCHANGED <<status, winners, told>>, entries \subseteq entries', entries' \subseteq Users,
           Is(t, "create")' \/ Is(t, "delete")' => task'[t].user \in Users,
           Is(t, "draw")' => task'[t].seen \subseteq entries', ~Is(t, "announce")'
    PROVE  Inv'
  BY DEF Inv, Working, Entering, Drawing, Announcing, Untold, Others, Is

\* A task that ends is quiet.
LEMMA LeaveKept ==
    ASSUME Inv, NEW t \in Tasks, Leave(t), UNCHANGED <<status, winners, told>>,
           entries \subseteq entries', entries' \subseteq Users
    PROVE  Inv'
<1>1. task' \in [Tasks -> Doing \union {None}] /\ task'[t] = None /\ Others(t)
  BY BecomeWorks DEF Leave, Inv
<1> QED BY <1>1, QuietKept DEF Is

\* An entry that goes is noted in every draw that may have read it.
LEMMA DeleteEntryKept ==
    ASSUME Inv, NEW t \in Tasks, DeleteEntry(t)
    PROVE  Inv'
<1> PICK u : u = task[t].user
  OBVIOUS
<1>1. u \in Users /\ entries' = entries \ {u} BY DEF DeleteEntry, Inv, Entering
<1>2. \A d \in Tasks : task'[d] = IF d = t THEN None
                                 ELSE IF Is(d, "draw") THEN [task[d] EXCEPT !.gone = @ \union {u}] ELSE task[d]
  BY DEF DeleteEntry
<1>3. \A r \in Doing : LET q == [r EXCEPT !.gone = @ \union {u}]
                       IN  q \in Doing /\ q.at = r.at /\ q.user = r.user /\ q.seen = r.seen
                         /\ q.gone = r.gone \union {u}
  BY <1>1 DEF Doing
<1>4. \A d \in Tasks : Is(d, "draw") => task[d] \in Doing BY DEF Inv, Working, Is
<1>5. task' \in [Tasks -> Doing \union {None}]
  <2>1. \A d \in Tasks : task'[d] \in Doing \union {None} BY <1>2, <1>3, <1>4 DEF Inv, Working
  <2>2. task' = [d \in Tasks |-> task'[d]] BY DEF DeleteEntry
  <2> QED BY <2>1, <2>2
<1>6. \A d \in Tasks : Is(d, "draw")' => task'[d].seen \ task'[d].gone \subseteq entries'
  <2> SUFFICES ASSUME NEW d \in Tasks, Is(d, "draw")' PROVE task'[d].seen \ task'[d].gone \subseteq entries'
    OBVIOUS
  <2>1. d # t BY <1>2 DEF Is
  <2>2. Is(d, "draw") BY <1>2, <2>1 DEF Is
  <2>3. task'[d].seen = task[d].seen /\ task'[d].gone = task[d].gone \union {u} BY <1>2, <1>3, <1>4, <2>1, <2>2
  <2> QED BY <1>1, <2>2, <2>3 DEF Inv, Drawing
<1>7. \A d \in Tasks, at \in {"create", "delete", "announce"} : Is(d, at)' => Is(d, at) /\ task'[d] = task[d]
  <2> SUFFICES ASSUME NEW d \in Tasks, NEW at \in {"create", "delete", "announce"}, Is(d, at)'
               PROVE  Is(d, at) /\ task'[d] = task[d]
    OBVIOUS
  <2>1. d # t BY <1>2 DEF Is
  <2>2. ~Is(d, "draw")
    <3>1. ASSUME Is(d, "draw") PROVE FALSE
      <4>1. task'[d].at = "draw" BY <1>2, <1>3, <1>4, <2>1, <3>1 DEF Is
      <4> QED BY <4>1 DEF Is
    <3> QED BY <3>1
  <2> QED BY <1>2, <2>1, <2>2 DEF Is
<1>8. Entering' /\ Announcing' /\ Untold'
  BY <1>7 DEF DeleteEntry, Inv, Entering, Announcing, Untold
<1>9. Drawing' BY <1>6 DEF Drawing
<1>10. Working' BY <1>1, <1>5 DEF DeleteEntry, Inv, Working
<1> QED BY <1>8, <1>9, <1>10 DEF Inv

\* The draw that takes the giveaway over marks users who still have an entry, and is the
\* only one to announce them.
LEMMA DrawKept ==
    ASSUME Inv, NEW t \in Tasks, Draw(t)
    PROVE  /\ Inv'
           /\ status' # status => status = "ACTIVE" /\ winners' \subseteq entries'
           /\ winners' # winners => status = "ACTIVE"
<1>1. CASE Leave(t) /\ UNCHANGED <<status, winners>> BY <1>1, LeaveKept DEF Draw, Inv, Working
<1>2. CASE ~(Leave(t) /\ UNCHANGED <<status, winners>>)
  <2>1. PICK chosen \in Chosen(task[t].seen) :
          ~Undrawn(t, chosen) /\ status' = "ENDED" /\ winners' = chosen /\ Become(t, Task("announce", None, chosen))
    BY <1>2 DEF Draw
  <2>2. status = "ACTIVE" BY <1>2 DEF Draw, Claimable
  <2>3. task[t] \in Doing /\ task[t].seen \subseteq Users BY DEF Draw, Is, Inv, Working, Doing
  <2>4. chosen \subseteq task[t].seen BY DEF Chosen
  <2>5. chosen \subseteq entries
    BY <2>1, <2>4 DEF Undrawn, Draw, Inv, Drawing
  <2>6. Task("announce", None, chosen) \in Doing /\ Task("announce", None, chosen).at = "announce"
           /\ Task("announce", None, chosen).seen = chosen
    BY <2>3, <2>4, TaskFields
  <2>7. task' \in [Tasks -> Doing \union {None}] /\ task'[t] = Task("announce", None, chosen) /\ Others(t)
    BY <2>1, <2>6, BecomeWorks DEF Inv
  <2>8. \A s \in Tasks : ~Is(s, "announce") BY <2>2 DEF Inv, Announcing
  <2>9. told' = <<>> /\ entries' = entries BY <2>2 DEF Draw, Inv, Untold
  <2>10. Working' /\ Untold' BY <2>1, <2>7, <2>9 DEF Inv, Working, Untold
  <2>11. Entering' /\ Drawing' BY <2>6, <2>7, <2>9 DEF Inv, Entering, Drawing, Others, Is
  <2>12. Announcing' BY <2>1, <2>6, <2>7, <2>8, <2>9 DEF Announcing, Others, Is
  <2> QED BY <2>1, <2>2, <2>5, <2>9, <2>10, <2>11, <2>12 DEF Inv
<1> QED BY <1>1, <1>2

\* The announcement is the only one, and names the winners marked.
LEMMA AnnounceKept ==
    ASSUME Inv, NEW t \in Tasks, Announce(t)
    PROVE  Inv' /\ told = <<>> /\ told' = <<winners>>
<1>1. status = "ENDED" /\ task[t].seen = winners /\ told = <<>> BY DEF Announce, Inv, Announcing
<1>2. task' \in [Tasks -> Doing \union {None}] /\ task'[t] = None /\ Others(t)
  BY BecomeWorks DEF Announce, Leave, Inv
<1>3. \A s \in Tasks : ~Is(s, "announce")' BY <1>2 DEF Announce, Inv, Announcing, Others, Is
<1>4. Working' /\ Entering' /\ Drawing' BY <1>2 DEF Announce, Inv, Working, Entering, Drawing, Others, Is
<1>5. Announcing' /\ Untold' BY <1>1, <1>3 DEF Announce, Announcing, Untold
<1> QED BY <1>1, <1>4, <1>5 DEF Announce, Inv

\* What one step does to status, winners and announcements.
Fair ==
    /\ status = "ACTIVE" /\ status' = "ENDED" => winners' \subseteq entries'
    /\ status = "ENDED" => status' = "ENDED" /\ winners' = winners
    /\ told' # told => told = <<>> /\ told' = <<winners>>

\* Every step keeps the invariant and is fair.
LEMMA NextKept ==
    ASSUME Inv, [Next]_vars
    PROVE  Inv' /\ Fair
<1>1. ASSUME NEW t \in Tasks, NEW u \in Users, Enter(t, u) \/ Withdraw(t, u) PROVE Inv' /\ Fair
  <2>1. PICK at \in {"create", "delete"} : Become(t, Task(at, u, {})) BY <1>1 DEF Enter, Withdraw
  <2>2. Task(at, u, {}) \in Doing /\ Task(at, u, {}).at = at /\ Task(at, u, {}).user = u BY TaskFields
  <2>3. task' \in [Tasks -> Doing \union {None}] /\ task'[t] = Task(at, u, {}) /\ Others(t)
    BY <2>1, <2>2, BecomeWorks DEF Inv
  <2>4. UNCHANGED <<status, winners, told, entries>> BY <1>1 DEF Enter, Withdraw
  <2>5. ~Is(t, "draw")' /\ ~Is(t, "announce")' /\ task'[t].user \in Users BY <2>2, <2>3 DEF Is
  <2>6. Inv' BY <2>3, <2>4, <2>5, QuietKept DEF Inv, Working
  <2> QED BY <2>4, <2>6 DEF Fair
<1>2. ASSUME NEW t \in Tasks, End(t) \/ Sweep(t) PROVE Inv' /\ Fair
  <2>1. Become(t, Task("read", None, {})) BY <1>2 DEF End, Sweep
  <2>2. Task("read", None, {}) \in Doing /\ Task("read", None, {}).at = "read" BY TaskFields
  <2>3. task' \in [Tasks -> Doing \union {None}] /\ task'[t] = Task("read", None, {}) /\ Others(t)
    BY <2>1, <2>2, BecomeWorks DEF Inv
  <2>4. UNCHANGED <<status, winners, told, entries>> BY <1>2 DEF End, Sweep
  <2>5. ~Is(t, "draw")' /\ ~Is(t, "announce")' /\ ~Is(t, "create")' /\ ~Is(t, "delete")' BY <2>2, <2>3 DEF Is
  <2>6. Inv' BY <2>3, <2>4, <2>5, QuietKept DEF Inv, Working
  <2> QED BY <2>4, <2>6 DEF Fair
<1>3. ASSUME NEW t \in Tasks, CreateEntry(t) PROVE Inv' /\ Fair
  <2>1. task[t].user \in Users BY <1>3 DEF CreateEntry, Inv, Entering
  <2>2. entries \subseteq entries' /\ entries' \subseteq Users BY <1>3, <2>1 DEF CreateEntry, Inv, Working
  <2>3. Inv' BY <1>3, <2>2, LeaveKept DEF CreateEntry
  <2> QED BY <1>3, <2>3 DEF CreateEntry, Fair
<1>4. ASSUME NEW t \in Tasks, DeleteEntry(t) PROVE Inv' /\ Fair
  BY <1>4, DeleteEntryKept DEF DeleteEntry, Fair
<1>5. ASSUME NEW t \in Tasks, ReadEntries(t) PROVE Inv' /\ Fair
  <2>1. UNCHANGED <<status, winners, told, entries>> BY <1>5 DEF ReadEntries
  <2>2. CASE Leave(t)
    <3>1. Inv' BY <2>1, <2>2, LeaveKept DEF Inv, Working
    <3> QED BY <2>1, <3>1 DEF Fair
  <2>3. CASE Become(t, Task("draw", None, entries))
    <3>1. /\ Task("draw", None, entries) \in Doing /\ Task("draw", None, entries).at = "draw"
          /\ Task("draw", None, entries).seen = entries
      BY TaskFields DEF Inv, Working
    <3>2. task' \in [Tasks -> Doing \union {None}] /\ task'[t] = Task("draw", None, entries) /\ Others(t)
      BY <2>3, <3>1, BecomeWorks DEF Inv
    <3>3. ~Is(t, "announce")' /\ ~Is(t, "create")' /\ ~Is(t, "delete")' /\ task'[t].seen \subseteq entries'
      BY <2>1, <3>1, <3>2 DEF Is
    <3>4. Inv' BY <2>1, <3>2, <3>3, QuietKept DEF Inv, Working
    <3> QED BY <2>1, <3>4 DEF Fair
  <2> QED BY <1>5, <2>2, <2>3 DEF ReadEntries
<1>6. ASSUME NEW t \in Tasks, Draw(t) PROVE Inv' /\ Fair
  BY <1>6, DrawKept DEF Draw, Fair, Inv, Working
<1>7. ASSUME NEW t \in Tasks, Announce(t) PROVE Inv' /\ Fair
  BY <1>7, AnnounceKept DEF Announce, Fair
<1>8. ASSUME NEW t \in Tasks, Fails(t) PROVE Inv' /\ Fair
  BY <1>8, LeaveKept DEF Fails, Fair, Inv, Working
<1>9. CASE TimeIsUp \/ UNCHANGED vars
  <2>1. UNCHANGED <<status, entries, winners, task, told>> BY <1>9 DEF TimeIsUp, vars
  <2> QED BY <2>1 DEF Inv, Working, Entering, Drawing, Announcing, Untold, Is, Fair
<1> QED BY <1>1, <1>2, <1>3, <1>4, <1>5, <1>6, <1>7, <1>8, <1>9 DEF Next, Step

\* Who is drawn is drawn for a prize.
LEMMA DrawCounted ==
    ASSUME IsFiniteSet(Users), WinnerCount \in Nat, Inv, [Next]_vars, status = "ACTIVE", status' = "ENDED"
    PROVE  Cardinality(winners') <= WinnerCount
<1>1. PICK t \in Tasks : Draw(t)
  BY DEF Next, Enter, Withdraw, End, Sweep, Step, CreateEntry, DeleteEntry, ReadEntries, Announce, Fails, TimeIsUp, vars
<1>2. task[t].seen \subseteq Users /\ winners' \in Chosen(task[t].seen)
  BY <1>1 DEF Draw, Is, Inv, Working, Doing
<1>3. Cardinality(task[t].seen) \in Nat BY <1>2, FS_Subset, FS_CardinalityType
<1> QED BY <1>2, <1>3 DEF Chosen

\* drawWinners: one draw ever commits, of no more users than there are prizes, who have not
\* withdrawn when it does; and one announcement is made of it, of these winners.
THEOREM DrawFairHolds ==
    ASSUME IsFiniteSet(Users), WinnerCount \in Nat
    PROVE  Spec => DrawFair
<1>1. Init => Inv
  BY DEF Init, Inv, Working, Entering, Drawing, Announcing, Untold, Is
<1>2. Inv /\ [Next]_vars => Inv' BY NextKept
<1>3. Inv /\ [Next]_vars => [status = "ACTIVE" /\ status' = "ENDED" =>
                               winners' \subseteq entries' /\ Cardinality(winners') <= WinnerCount]_vars
  BY NextKept, DrawCounted DEF Fair
<1>4. Inv /\ [Next]_vars => [status = "ENDED" => status' = "ENDED" /\ winners' = winners]_vars
  BY NextKept DEF Fair
<1>5. Inv /\ [Next]_vars => [told' # told => told = <<>> /\ told' = <<winners>>]_vars
  BY NextKept DEF Fair
<1> QED BY <1>1, <1>2, <1>3, <1>4, <1>5, PTL DEF Spec, DrawFair

\* The bounds are numbers, and each count has its own.
Bounds == MaxEntries \in Nat /\ MaxEnds \in Nat /\ MaxFaults \in Nat
Uses == [entries : 0..MaxEntries, ends : 0..MaxEnds, faults : 0..MaxFaults]
Used == used \in Uses

\* What is used counts up to its bound.
LEMMA UseFits ==
    ASSUME Bounds, used \in Uses,
           Use("entries", MaxEntries) \/ Use("ends", MaxEnds) \/ Use("faults", MaxFaults)
    PROVE  used' \in Uses
<1>1. used.entries \in 0..MaxEntries /\ used.ends \in 0..MaxEnds /\ used.faults \in 0..MaxFaults BY DEF Uses
<1>2. ASSUME Use("entries", MaxEntries) PROVE used' \in Uses BY <1>1, <1>2 DEF Use, Uses, Bounds
<1>3. ASSUME Use("ends", MaxEnds) PROVE used' \in Uses BY <1>1, <1>3 DEF Use, Uses, Bounds
<1>4. ASSUME Use("faults", MaxFaults) PROVE used' \in Uses BY <1>1, <1>4 DEF Use, Uses, Bounds
<1> QED BY <1>2, <1>3, <1>4

\* Every step keeps the types.
LEMMA TypesKept ==
    ASSUME Bounds, Inv, Inv', TypeOK, Used, [Next]_vars
    PROVE  TypeOK' /\ Used'
<1>1. status' \in {"ACTIVE", "ENDED"} /\ entries' \subseteq Users /\ task' \in [Tasks -> Doing \union {None}]
  BY DEF Inv, Working
<1>2. Used'
  <2>1. CASE UNCHANGED used BY <2>1 DEF Used
  <2>2. CASE Use("entries", MaxEntries) \/ Use("ends", MaxEnds) \/ Use("faults", MaxFaults) BY <2>2, UseFits DEF Used
  <2>3. UNCHANGED used \/ Use("entries", MaxEntries) \/ Use("ends", MaxEnds) \/ Use("faults", MaxFaults)
    BY DEF Next, Enter, Withdraw, End, Sweep, Step, CreateEntry, DeleteEntry, ReadEntries, Draw, Announce, Fails,
           TimeIsUp, vars
  <2> QED BY <2>1, <2>2, <2>3
<1>3. expired' \in BOOLEAN
  BY DEF TypeOK, Next, Enter, Withdraw, End, Sweep, Step, CreateEntry, DeleteEntry, ReadEntries, Draw, Announce,
         Fails, TimeIsUp, vars
<1>4. winners' = None \/ winners' \subseteq Users
  <2>1. CASE UNCHANGED winners BY <2>1 DEF TypeOK
  <2>2. ASSUME NEW t \in Tasks, Draw(t), winners' # winners PROVE winners' \subseteq Users
    <3>1. task[t] \in Doing /\ winners' \in Chosen(task[t].seen) BY <2>2 DEF Draw, Is, Inv, Working
    <3> QED BY <3>1 DEF Chosen, Doing
  <2>3. UNCHANGED winners \/ \E t \in Tasks : Draw(t)
    BY DEF Next, Enter, Withdraw, End, Sweep, Step, CreateEntry, DeleteEntry, ReadEntries, Announce, Fails,
           TimeIsUp, vars
  <2> QED BY <2>1, <2>2, <2>3
<1>5. told' \in Seq(SUBSET Users)
  <2>1. CASE UNCHANGED told BY <2>1 DEF TypeOK
  <2>2. ASSUME NEW t \in Tasks, Announce(t) PROVE told' \in Seq(SUBSET Users)
    <3>1. task[t] \in Doing /\ told' = Append(told, task[t].seen) BY <2>2 DEF Announce, Is, Inv, Working
    <3> QED BY <3>1 DEF TypeOK, Doing
  <2>3. UNCHANGED told \/ \E t \in Tasks : Announce(t)
    BY DEF Next, Enter, Withdraw, End, Sweep, Step, CreateEntry, DeleteEntry, ReadEntries, Draw, Fails,
           TimeIsUp, vars
  <2> QED BY <2>1, <2>2, <2>3
<1> QED BY <1>1, <1>2, <1>3, <1>4, <1>5 DEF TypeOK, Used, Uses

\* giveawayManager.ts: every variable of a giveaway keeps its type.
THEOREM GiveawayTypeOK == ASSUME Bounds PROVE Spec => []TypeOK
<1>1. Init => Inv /\ TypeOK /\ Used
  <2> SUFFICES ASSUME Init PROVE Inv /\ TypeOK /\ Used OBVIOUS
  <2>1. Inv BY DEF Init, Inv, Working, Entering, Drawing, Announcing, Untold, Is
  <2>2. Used BY DEF Init, Used, Uses, Bounds
  <2>3. told \in Seq(SUBSET Users) BY DEF Init
  <2> QED BY <2>1, <2>2, <2>3 DEF Init, TypeOK, Inv, Working, Used, Uses
<1>2. Inv /\ TypeOK /\ Used /\ [Next]_vars => Inv' /\ TypeOK' /\ Used' BY NextKept, TypesKept
<1> QED BY <1>1, <1>2, PTL DEF Spec

-----------------------------------------------------------------------------
(* Poll: what the tasks know                                               *)

\* The record of a task.
Ballot == [kind : Poll!Kinds, v : Poll!Votes \union {None}, at : Poll!Steps, adds : SUBSET Poll!Votes, dels : SUBSET Poll!Votes,
          count : Nat, seen : SUBSET Poll!Votes]

\* The types, and that the votes are finitely many.
PollTypes ==
    /\ poll \in [status : {"ACTIVE", "ENDED"}, total : Int, results : (SUBSET Poll!Votes) \union {None}]
    /\ votes \in SUBSET Poll!Votes /\ IsFiniteSet(votes) /\ task \in [Tasks -> Ballot \union {None}]

\* What steps a task takes: an end has no vote, only an end is announced, and a reaction
\* taken back ends with its drop.
Routes == \A t \in Tasks : task[t] # None =>
    /\ task[t].kind # "end" => task[t].v \in Poll!Votes
    /\ task[t].kind = "end" => task[t].at \in {"lock", "announce", "commit"}
    /\ task[t].at = "announce" => task[t].kind = "end"
    /\ task[t].kind = "unreact" => task[t].at = "drop"

\* A task inside its transaction holds the lock of a poll that is active.
Holds == \A t \in Tasks : Poll!Is(t, "write") \/ Poll!Is(t, "announce") \/ Poll!Is(t, "commit") =>
    lock = t /\ poll.status = "ACTIVE"

\* There is room for one more vote of whoever votes, or a click takes one back, or moves it.
Room(t) == Poll!Cardinality(Poll!Of(task[t].v[1])) < MaxChoices
Writing == \A t \in Tasks : Poll!Is(t, "write") =>
    /\ Poll!Of(task[t].v[1]) \subseteq task[t].seen
    /\ (task[t].kind = "toggle" /\ (task[t].v \in task[t].seen \/ Poll!Single)) \/ Room(t)
Committing == \A t \in Tasks : Poll!Is(t, "commit") /\ task[t].kind # "end" =>
    \/ task[t].adds = {}
    \/ task[t].adds = {task[t].v} /\ (Poll!Of(task[t].v[1]) \subseteq task[t].dels \/ Room(t))

\* An end about to be committed was announced; one that is committed too.
Announced == \A t \in Tasks :
    /\ Poll!Is(t, "announce") => IsFiniteSet(task[t].seen)
    /\ Poll!Is(t, "commit") /\ task[t].kind = "end" => announced = task[t].seen /\ IsFiniteSet(task[t].seen)
Told == poll.status = "ENDED" => poll.results = announced

PollInv == PollTypes /\ Routes /\ Holds /\ Writing /\ Committing /\ Announced /\ Told /\ Poll!ChoicesKept

-----------------------------------------------------------------------------
\* The instance counts as everybody does.
LEMMA Counted == \A S : Poll!Cardinality(S) = Cardinality(S)
  BY DEF Poll!Cardinality, Cardinality

\* The votes of a user among some.
Part(S, u) == {x \in S : x[1] = u}

\* The votes of a user are finitely many, and not more when votes go.
LEMMA OfFinite ==
    ASSUME NEW S, IsFiniteSet(S), NEW T \in SUBSET S, NEW u
    PROVE  /\ IsFiniteSet(Part(T, u)) /\ Poll!Cardinality(Part(T, u)) \in Nat
           /\ Poll!Cardinality(Part(S, u)) \in Nat
           /\ Poll!Cardinality(Part(T, u)) <= Poll!Cardinality(Part(S, u))
<1>1. IsFiniteSet(Part(S, u)) BY FS_Subset DEF Part
<1>2. Part(T, u) \in SUBSET Part(S, u) BY DEF Part
<1> QED BY <1>1, <1>2, Counted, FS_Subset, FS_CardinalityType

\* The votes of a user, with one more.
LEMMA OfMore ==
    ASSUME NEW S, IsFiniteSet(S), NEW y, NEW u
    PROVE  Poll!Cardinality(Part(S \union {y}, u)) <= Poll!Cardinality(Part(S, u)) + 1
<1> DEFINE R == Part(S, u)
<1> DEFINE N == Part(S \union {y}, u)
<1>1. IsFiniteSet(R) /\ Poll!Cardinality(R) \in Nat BY Counted, FS_Subset, FS_CardinalityType DEF Part
<1>2. ASSUME y[1] = u PROVE Poll!Cardinality(N) <= Poll!Cardinality(R) + 1
  <2>1. N = R \union {y} BY <1>2 DEF Part
  <2>2. Poll!Cardinality(R \union {y}) = IF y \in R THEN Poll!Cardinality(R) ELSE Poll!Cardinality(R) + 1
    <3> HIDE DEF R
    <3> QED BY <1>1, Counted, FS_AddElement
  <2> HIDE DEF R, N
  <2> QED BY <1>1, <2>1, <2>2
<1>3. ASSUME y[1] # u PROVE Poll!Cardinality(N) <= Poll!Cardinality(R) + 1
  <2>1. N = R BY <1>3 DEF Part
  <2> HIDE DEF R, N
  <2> QED BY <1>1, <2>1
<1> HIDE DEF R, N
<1>4. Poll!Cardinality(N) <= Poll!Cardinality(R) + 1 BY <1>2, <1>3
<1> QED BY <1>4 DEF N, R

\* Votes that go leave every bound.
LEMMA Fewer ==
    ASSUME PollTypes, votes' \in SUBSET votes, Poll!PollAssumption, Poll!ChoicesKept
    PROVE  /\ IsFiniteSet(votes') /\ Poll!ChoicesKept'
           /\ \A u : Poll!Of(u)' \subseteq Poll!Of(u) /\ (Poll!Cardinality(Poll!Of(u)) < MaxChoices
              => Poll!Cardinality(Poll!Of(u)') < MaxChoices)
<1>1. IsFiniteSet(votes') BY FS_Subset DEF PollTypes
<1>2. ASSUME NEW u PROVE /\ Poll!Cardinality(Poll!Of(u)) \in Nat /\ Poll!Cardinality(Poll!Of(u)') \in Nat
                         /\ Poll!Cardinality(Poll!Of(u)') <= Poll!Cardinality(Poll!Of(u))
  <2>1. IsFiniteSet(votes) BY DEF PollTypes
  <2> DEFINE Now == Part(votes, u)
  <2> DEFINE Then == Part(votes', u)
  <2>2. Poll!Cardinality(Now) \in Nat /\ Poll!Cardinality(Then) \in Nat
        /\ Poll!Cardinality(Then) <= Poll!Cardinality(Now)
    <3>1. PICK V \in SUBSET votes : V = votes' OBVIOUS
    <3>2. /\ Poll!Cardinality(Part(V, u)) \in Nat /\ Poll!Cardinality(Now) \in Nat
          /\ Poll!Cardinality(Part(V, u)) <= Poll!Cardinality(Now)
      BY <2>1, OfFinite
    <3> QED BY <3>1, <3>2
  <2>3. Poll!Of(u) = Now /\ Poll!Of(u)' = Then BY DEF Poll!Of, Part
  <2> HIDE DEF Now, Then
  <2> QED BY <2>2, <2>3
<1>3. Poll!ChoicesKept' BY <1>2 DEF Poll!ChoicesKept, Poll!PollAssumption
<1>4. ASSUME NEW u PROVE Poll!Of(u)' \subseteq Poll!Of(u) BY DEF Poll!Of
<1> QED BY <1>1, <1>2, <1>3, <1>4 DEF Poll!PollAssumption

-----------------------------------------------------------------------------
\* A step that begins, advances or ends the task outside of its transaction.
LEMMA OutsideKept ==
    ASSUME PollInv, NEW t \in Tasks, Poll!PollAssumption, task' \in [Tasks -> Ballot \union {None}], Others(t),
           UNCHANGED <<poll, votes, lock, announced>>,
           task'[t] # None => /\ task'[t].at \in {"drop", "lock"}
                              /\ task'[t].kind # "end" => task'[t].v \in Poll!Votes
                              /\ task'[t].kind = "end" => task'[t].at = "lock"
                              /\ task'[t].kind = "unreact" => task'[t].at = "drop"
    PROVE  PollInv'
<1>1. PollTypes' /\ Told' /\ Poll!ChoicesKept' BY DEF PollInv, PollTypes, Told, Poll!ChoicesKept, Poll!Of
<1>2. Routes' BY DEF PollInv, Routes, Others
<1>3. ASSUME NEW s \in Tasks, Poll!Is(s, "write")' \/ Poll!Is(s, "announce")' \/ Poll!Is(s, "commit")'
      PROVE  /\ s # t /\ task'[s] = task[s] /\ Room(s)' = Room(s)
             /\ Poll!Is(s, "write") \/ Poll!Is(s, "announce") \/ Poll!Is(s, "commit")
  BY <1>3 DEF Others, Poll!Is, Room, Poll!Of
<1>4. Holds' BY <1>3 DEF PollInv, Holds, Poll!Is
<1>5. Writing' BY <1>3 DEF PollInv, Writing, Poll!Is, Poll!Of
<1>6. Committing' BY <1>3 DEF PollInv, Committing, Poll!Is, Poll!Of
<1>7. Announced' BY <1>3 DEF PollInv, Announced, Poll!Is
<1> QED BY <1>1, <1>2, <1>4, <1>5, <1>6, <1>7 DEF PollInv

\* Where a task comes from.
LEMMA BeginStep ==
    ASSUME PollInv, NEW t \in Tasks, Poll!PollAssumption,
           \/ \E v \in Poll!Votes : Poll!Click(t, "vote", v) \/ Poll!Click(t, "toggle", v) \/ Poll!React(t, v)
              \/ Poll!Unreact(t, v)
           \/ Poll!EndByCommand(t) \/ Poll!Sweep(t)
    PROVE  PollInv'
<1>1. ASSUME NEW kind \in Poll!Kinds, NEW v \in Poll!Votes \union {None}, NEW at \in {"drop", "lock"},
             task' = [task EXCEPT ![t] = Poll!Task(kind, v, at)], UNCHANGED <<poll, votes, lock, announced>>,
             kind # "end" => v \in Poll!Votes, kind = "end" => at = "lock", kind = "unreact" => at = "drop"
      PROVE  PollInv'
  <2>1. Poll!Task(kind, v, at) \in Ballot /\ Poll!Task(kind, v, at).kind = kind /\ Poll!Task(kind, v, at).v = v
        /\ Poll!Task(kind, v, at).at = at
    BY <1>1 DEF Poll!Task, Ballot, Poll!Steps
  <2>2. task' \in [Tasks -> Ballot \union {None}] /\ Others(t) /\ task'[t] = Poll!Task(kind, v, at)
    BY <1>1, <2>1 DEF PollInv, PollTypes, Others
  <2> QED BY <1>1, <2>1, <2>2, OutsideKept
<1>2. CASE \E v \in Poll!Votes : Poll!Click(t, "vote", v) \/ Poll!Click(t, "toggle", v)
  BY <1>1, <1>2 DEF Poll!Click, Poll!Kinds
<1>3. CASE \E v \in Poll!Votes : Poll!React(t, v) BY <1>1, <1>3 DEF Poll!React, Poll!Kinds
<1>4. CASE \E v \in Poll!Votes : Poll!Unreact(t, v) BY <1>1, <1>4 DEF Poll!Unreact, Poll!Kinds
<1>5. CASE Poll!EndByCommand(t) \/ Poll!Sweep(t) BY <1>1, <1>5 DEF Poll!EndByCommand, Poll!Sweep, Poll!Kinds
<1> QED BY <1>2, <1>3, <1>4, <1>5

\* A reaction takes votes away, whatever the transactions under way have read.
LEMMA DropStep == ASSUME PollInv, NEW t \in Tasks, Poll!PollAssumption, Poll!Drop(t) PROVE PollInv'
<1>1. votes' \in SUBSET votes BY DEF Poll!Drop
<1>2. /\ IsFiniteSet(votes') /\ Poll!ChoicesKept'
      /\ \A u : Poll!Of(u)' \subseteq Poll!Of(u) /\ (Poll!Cardinality(Poll!Of(u)) < MaxChoices
         => Poll!Cardinality(Poll!Of(u)') < MaxChoices)
  BY <1>1, Fewer DEF PollInv
<1>3. task[t] \in Ballot BY DEF PollInv, PollTypes, Poll!Drop, Poll!Is
<1>4. Poll!Cardinality(Poll!Dropped(t)) \in Int
  <2>1. Poll!Dropped(t) \in SUBSET votes BY DEF Poll!Dropped, Poll!Of
  <2> QED BY <2>1, Counted, FS_Subset, FS_CardinalityType DEF PollInv, PollTypes
<1>5. poll' \in [status : {"ACTIVE", "ENDED"}, total : Int, results : (SUBSET Poll!Votes) \union {None}]
  BY <1>4 DEF Poll!Drop, PollInv, PollTypes
<1>6. poll'.status = poll.status /\ poll'.results = poll.results BY DEF Poll!Drop, PollInv, PollTypes
<1>7. task' \in [Tasks -> Ballot \union {None}] /\ Others(t) /\ UNCHANGED <<lock, announced>>
  BY <1>3 DEF Poll!Drop, Poll!Leave, Poll!Goto, PollInv, PollTypes, Others, Ballot, Poll!Steps
<1>8. task'[t] # None => task'[t].at = "lock" /\ task'[t].kind = task[t].kind /\ task'[t].v = task[t].v
                         /\ task'[t].kind # "unreact"
  BY <1>3 DEF Poll!Drop, Poll!Leave, Poll!Goto, PollInv, PollTypes, Ballot
<1>9. PollTypes' BY <1>1, <1>2, <1>5, <1>7 DEF PollInv, PollTypes
<1>10. Routes'
  <2>1. task[t].kind # "end" /\ task[t].v \in Poll!Votes BY DEF Poll!Drop, Poll!Is, PollInv, Routes
  <2> QED BY <1>7, <1>8, <2>1 DEF Routes, PollInv, Others
<1>11. Holds' BY <1>6, <1>7, <1>8 DEF Holds, PollInv, Others, Poll!Is
<1>12. Writing'
  <2> SUFFICES ASSUME NEW s \in Tasks, Poll!Is(s, "write")'
               PROVE /\ Poll!Of(task[s].v[1])' \subseteq task'[s].seen
                     /\ (task'[s].kind = "toggle" /\ (task'[s].v \in task'[s].seen \/ Poll!Single)) \/ Room(s)'
    BY DEF Writing
  <2>1. s # t /\ task'[s] = task[s] /\ Poll!Is(s, "write") BY <1>7, <1>8 DEF Others, Poll!Is
  <2>2. PICK u : u = task[s].v[1] OBVIOUS
  <2>3. Poll!Of(u)' = Poll!Of(task[s].v[1])' BY <2>1, <2>2 DEF Poll!Of
  <2>4. Poll!Of(u)' \subseteq Poll!Of(u) /\ (Poll!Cardinality(Poll!Of(u)) < MaxChoices
        => Poll!Cardinality(Poll!Of(u)') < MaxChoices)
    BY <1>2
  <2> QED BY <2>1, <2>2, <2>3, <2>4 DEF Writing, PollInv, Room
<1>13. Committing'
  <2> SUFFICES ASSUME NEW s \in Tasks, Poll!Is(s, "commit")', task'[s].kind # "end"
               PROVE \/ task'[s].adds = {}
                     \/ task'[s].adds = {task'[s].v} /\ (Poll!Of(task[s].v[1])' \subseteq task'[s].dels \/ Room(s)')
    BY DEF Committing
  <2>1. s # t /\ task'[s] = task[s] /\ Poll!Is(s, "commit") BY <1>7, <1>8 DEF Others, Poll!Is
  <2>2. PICK u : u = task[s].v[1] OBVIOUS
  <2>3. Poll!Of(u)' = Poll!Of(task[s].v[1])' BY <2>1, <2>2 DEF Poll!Of
  <2>4. Poll!Of(u)' \subseteq Poll!Of(u) /\ (Poll!Cardinality(Poll!Of(u)) < MaxChoices
        => Poll!Cardinality(Poll!Of(u)') < MaxChoices)
    BY <1>2
  <2> QED BY <2>1, <2>2, <2>3, <2>4 DEF Committing, PollInv, Room
<1>14. Announced' /\ Told' BY <1>6, <1>7, <1>8 DEF Announced, Told, PollInv, Others, Poll!Is
<1> QED BY <1>2, <1>9, <1>10, <1>11, <1>12, <1>13, <1>14 DEF PollInv

-----------------------------------------------------------------------------
\* Inside a transaction nobody else is.
LEMMA Alone ==
    ASSUME PollInv, NEW t \in Tasks, lock = t \/ lock = None, Poll!PollAssumption,
           NEW s \in Tasks, s # t
    PROVE  ~Poll!Is(s, "write") /\ ~Poll!Is(s, "announce") /\ ~Poll!Is(s, "commit")
BY DEF PollInv, Holds, Poll!PollAssumption

\* A step of the task that holds the lock, or takes it; the others are outside of
\* their transactions, and nothing is said of them.
LEMMA InsideKept ==
    ASSUME PollInv, NEW t \in Tasks, Poll!PollAssumption, lock = t \/ lock = None,
           PollTypes', Others(t), Poll!ChoicesKept', Told',
           task'[t] # None => /\ task'[t].kind # "end" => task'[t].v \in Poll!Votes
                              /\ task'[t].kind = "end" => task'[t].at \in {"lock", "announce", "commit"}
                              /\ task'[t].at = "announce" => task'[t].kind = "end"
                              /\ task'[t].kind = "unreact" => task'[t].at = "drop",
           Poll!Is(t, "write")' \/ Poll!Is(t, "announce")' \/ Poll!Is(t, "commit")' => lock' = t
             /\ poll'.status = "ACTIVE",
           Poll!Is(t, "write")' =>
              /\ Poll!Of(task[t].v[1])' \subseteq task'[t].seen
              /\ (task'[t].kind = "toggle" /\ (task'[t].v \in task'[t].seen \/ Poll!Single)) \/ Room(t)',
           Poll!Is(t, "commit")' /\ task'[t].kind # "end" =>
              \/ task'[t].adds = {}
              \/ task'[t].adds = {task'[t].v} /\ (Poll!Of(task[t].v[1])' \subseteq task'[t].dels \/ Room(t)'),
           Poll!Is(t, "announce")' => IsFiniteSet(task'[t].seen),
           Poll!Is(t, "commit")' /\ task'[t].kind = "end" => announced' = task'[t].seen
             /\ IsFiniteSet(task'[t].seen)
    PROVE  PollInv'
<1>1. ASSUME NEW s \in Tasks, s # t
      PROVE  ~Poll!Is(s, "write")' /\ ~Poll!Is(s, "announce")' /\ ~Poll!Is(s, "commit")'
  BY <1>1, Alone DEF Others, Poll!Is
<1>2. Routes' BY DEF PollInv, Routes, Others
<1>3. Holds' BY <1>1 DEF Holds
<1>4. Writing' BY <1>1 DEF Writing
<1>5. Committing' BY <1>1 DEF Committing
<1>6. Announced' BY <1>1 DEF Announced
<1> QED BY <1>2, <1>3, <1>4, <1>5, <1>6 DEF PollInv

\* A task that ends, and gives the lock back if it has it.
LEMMA PollLeaveKept ==
    ASSUME PollInv, NEW t \in Tasks, Poll!PollAssumption, Poll!Leave(t),
           lock' = IF lock = t THEN None ELSE lock, UNCHANGED <<poll, votes, announced>>
    PROVE  PollInv'
<1>1. task' \in [Tasks -> Ballot \union {None}] /\ Others(t) /\ task'[t] = None
  BY DEF Poll!Leave, PollInv, PollTypes, Others
<1>2. ASSUME NEW s \in Tasks, s # t, lock = s PROVE lock' = s BY <1>2
<1>3. PollTypes' BY <1>1 DEF PollInv, PollTypes
<1>4. Routes' BY <1>1 DEF PollInv, Routes, Others
<1>5. Holds' BY <1>1, <1>2 DEF PollInv, Holds, Others, Poll!Is
<1>6. Writing' /\ Committing'
  <2>1. ASSUME NEW s \in Tasks, task'[s] # None PROVE s # t /\ task'[s] = task[s] /\ (Room(s)' = Room(s))
    BY <1>1, <2>1 DEF Others, Room, Poll!Of
  <2>2. Writing' BY <2>1 DEF PollInv, Writing, Poll!Is, Poll!Of
  <2>3. Committing' BY <2>1 DEF PollInv, Committing, Poll!Is, Poll!Of
  <2> QED BY <2>2, <2>3
<1>7. Announced' /\ Told' /\ Poll!ChoicesKept'
  BY <1>1 DEF PollInv, Announced, Told, Poll!ChoicesKept, Others, Poll!Is, Poll!Of
<1> QED BY <1>3, <1>4, <1>5, <1>6, <1>7 DEF PollInv

\* A voter who has room, or clicks to take back or to move, comes in.
LEMMA EnterStep == ASSUME PollInv, NEW t \in Tasks, Poll!PollAssumption, Poll!Enter(t) PROVE PollInv'
<1>1. task[t] \in Ballot /\ task[t].kind # "end" /\ task[t].v \in Poll!Votes /\ task[t].kind # "unreact"
      /\ lock = None /\ UNCHANGED <<poll, votes, announced>> /\ t # None
  BY DEF PollInv, PollTypes, Routes, Poll!Enter, Poll!Is, Poll!Free, Poll!PollAssumption
<1>2. CASE ~Poll!MayVote(t)
  <2>1. Poll!Leave(t) /\ lock' = lock BY <1>2 DEF Poll!Enter
  <2> QED BY <1>1, <2>1, PollLeaveKept
<1>3. CASE Poll!MayVote(t)
  <2>1. lock' = t /\ task' = [task EXCEPT ![t].at = "write", ![t].seen = Poll!Of(task[t].v[1])]
    BY <1>3 DEF Poll!Enter
  <2>2. Poll!Of(task[t].v[1]) \in SUBSET Poll!Votes BY DEF Poll!Of, PollInv, PollTypes
  <2>3. /\ task' \in [Tasks -> Ballot \union {None}] /\ Others(t) /\ task'[t] \in Ballot
        /\ task'[t].at = "write" /\ task'[t].seen = Poll!Of(task[t].v[1]) /\ task'[t].v = task[t].v
           /\ task'[t].kind = task[t].kind
    BY <1>1, <2>1, <2>2 DEF PollInv, PollTypes, Others, Ballot, Poll!Steps
  <2>4. poll.status = "ACTIVE" BY <1>3 DEF Poll!MayVote, Poll!Open
  <2>5. PollTypes' BY <1>1, <2>3 DEF PollInv, PollTypes
  <2>6. Poll!ChoicesKept' /\ Told' BY <1>1 DEF PollInv, Poll!ChoicesKept, Told, Poll!Of
  <2>7. Poll!Of(task[t].v[1])' = Poll!Of(task[t].v[1]) BY <1>1, <2>3 DEF Poll!Of
  <2>8. (task[t].kind = "toggle" /\ (task[t].v \in Poll!Of(task[t].v[1]) \/ Poll!Single)) \/ Room(t)
    BY <1>3 DEF Poll!MayVote, Room
  <2>9. Room(t) => Room(t)' BY <2>3, <2>7 DEF Room
  <2> QED BY <1>1, <2>1, <2>3, <2>4, <2>5, <2>6, <2>7, <2>8, <2>9, InsideKept DEF Poll!Is
<1> QED BY <1>2, <1>3

\* What is written has room, or takes the place of all its voter had.
LEMMA WriteStep == ASSUME PollInv, NEW t \in Tasks, Poll!PollAssumption, Poll!Write(t) PROVE PollInv'
<1> DEFINE v == task[t].v
<1> DEFINE back == task[t].kind = "toggle" /\ v \in task[t].seen
<1> DEFINE adds == IF back THEN {} ELSE {v}
<1> DEFINE dels == IF back THEN {v} ELSE Poll!Replaced(t)
<1> DEFINE count == Poll!Cardinality((votes \ dels) \union adds)
<1>1. task[t] \in Ballot /\ task[t].kind # "end" /\ v \in Poll!Votes /\ task[t].kind # "unreact"
      /\ lock = t /\ UNCHANGED <<poll, votes, announced>> /\ t # None /\ Poll!Is(t, "write")
         /\ poll.status = "ACTIVE"
  BY DEF PollInv, PollTypes, Routes, Holds, Poll!Write, Poll!Is, Poll!PollAssumption
<1>2. CASE back /\ v \notin votes
  <2>1. Poll!Leave(t) /\ lock' = None BY <1>2 DEF Poll!Write
  <2> QED BY <1>1, <2>1, PollLeaveKept
<1>3. CASE ~(back /\ v \notin votes)
  <2>1. lock' = lock
        /\ task' = [task EXCEPT ![t].at = "commit", ![t].adds = adds, ![t].dels = dels, ![t].count = count]
    BY <1>3 DEF Poll!Write
  <2>2. adds \in SUBSET Poll!Votes /\ dels \in SUBSET Poll!Votes
    BY <1>1 DEF Poll!Replaced, Poll!Of, PollInv, PollTypes
  <2>3. count \in Nat
    <3>1. IsFiniteSet(adds) BY FS_EmptySet, FS_Singleton
    <3>2. IsFiniteSet(votes \ dels) BY FS_Difference DEF PollInv, PollTypes
    <3> QED BY <3>1, <3>2, Counted, FS_Union, FS_CardinalityType
  <2>4. (task[t].kind = "toggle" /\ Poll!Single /\ ~back => Poll!Of(v[1]) \subseteq dels)
    BY DEF Poll!Replaced
  <2>5. adds = {} \/ (adds = {v} /\ (Poll!Of(v[1]) \subseteq dels \/ Room(t)))
    BY <1>1, <2>4 DEF PollInv, Writing
  <2> HIDE DEF adds, dels, count
  <2>6. /\ task' \in [Tasks -> Ballot \union {None}] /\ Others(t) /\ task'[t] \in Ballot
        /\ task'[t].at = "commit" /\ task'[t].adds = adds /\ task'[t].dels = dels
        /\ task'[t].v = v /\ task'[t].kind = task[t].kind
    BY <1>1, <2>1, <2>2, <2>3 DEF PollInv, PollTypes, Others, Ballot, Poll!Steps
  <2>7. PollTypes' BY <1>1, <2>6 DEF PollInv, PollTypes
  <2>8. Poll!ChoicesKept' /\ Told' BY <1>1 DEF PollInv, Poll!ChoicesKept, Told, Poll!Of
  <2>9. Poll!Of(v[1])' = Poll!Of(v[1]) BY <1>1, <2>6 DEF Poll!Of
  <2>10. Room(t) => Room(t)' BY <2>6, <2>9 DEF Room
  <2>11. ~Poll!Is(t, "write")' /\ ~Poll!Is(t, "announce")' BY <2>6 DEF Poll!Is
  <2>12. /\ task'[t] # None => /\ task'[t].kind # "end" => task'[t].v \in Poll!Votes
                               /\ task'[t].kind = "end" => task'[t].at \in {"lock", "announce", "commit"}
                               /\ task'[t].at = "announce" => task'[t].kind = "end"
                               /\ task'[t].kind = "unreact" => task'[t].at = "drop"
         /\ task'[t].kind # "end" /\ lock' = t /\ poll'.status = "ACTIVE" /\ Others(t)
    BY <1>1, <2>1, <2>6
  <2>13. \/ task'[t].adds = {}
         \/ task'[t].adds = {task'[t].v} /\ (Poll!Of(task[t].v[1])' \subseteq task'[t].dels \/ Room(t)')
    BY <2>5, <2>6, <2>9, <2>10
  <2> HIDE DEF v, back
  <2>14. Poll!Is(t, "write")' => /\ Poll!Of(task[t].v[1])' \subseteq task'[t].seen
                                 /\ (task'[t].kind = "toggle" /\ (task'[t].v \in task'[t].seen \/ Poll!Single))
                                    \/ Room(t)'
    BY <2>11
  <2>15. Poll!Is(t, "announce")' => IsFiniteSet(task'[t].seen) BY <2>11
  <2>16. (lock = t \/ lock = None) /\ PollTypes' /\ Poll!ChoicesKept' /\ Told' BY <1>1, <2>7, <2>8
  <2> QED BY <2>12, <2>13, <2>14, <2>15, <2>16, InsideKept DEF Poll!Is
<1> QED BY <1>2, <1>3

\* A vote is committed: its voter has no more than allowed.
LEMMA CommitVoteStep == ASSUME PollInv, NEW t \in Tasks, Poll!PollAssumption, Poll!CommitVote(t) PROVE PollInv'
<1> DEFINE v == task[t].v
<1> DEFINE adds == task[t].adds
<1> DEFINE dels == task[t].dels
<1>1. task[t] \in Ballot /\ v \in Poll!Votes /\ lock = t /\ t # None /\ Poll!Is(t, "commit")
      /\ poll.status = "ACTIVE"
      /\ adds \in SUBSET Poll!Votes /\ dels \in SUBSET Poll!Votes /\ task[t].count \in Nat
  BY DEF PollInv, PollTypes, Routes, Holds, Poll!CommitVote, Poll!Is, Poll!PollAssumption, Ballot
<1>2. adds = {} \/ (adds = {v} /\ (Poll!Of(v[1]) \subseteq dels \/ Room(t)))
  BY <1>1 DEF PollInv, Committing, Poll!CommitVote
<1>3. votes' = (votes \ dels) \union adds BY DEF Poll!CommitVote
<1>4. task' \in [Tasks -> Ballot \union {None}] /\ Others(t) /\ task'[t] = None
  BY DEF Poll!CommitVote, Poll!Leave, PollInv, PollTypes, Others
<1>5. poll' \in [status : {"ACTIVE", "ENDED"}, total : Int, results : (SUBSET Poll!Votes) \union {None}]
      /\ poll'.status = poll.status /\ poll'.results = poll.results
  BY <1>1 DEF Poll!CommitVote, PollInv, PollTypes
<1>6. IsFiniteSet(votes \ dels) /\ IsFiniteSet(votes) BY FS_Difference DEF PollInv, PollTypes
<1>7. IsFiniteSet(votes') /\ votes' \in SUBSET Poll!Votes
  <2> HIDE DEF v, adds, dels
  <2>1. IsFiniteSet(adds)
    <3>1. IsFiniteSet({}) /\ IsFiniteSet({v}) BY FS_EmptySet, FS_Singleton
    <3> QED BY <1>2, <3>1
  <2> QED BY <1>1, <1>3, <1>6, <2>1, FS_Union DEF PollInv, PollTypes
<1>8. Poll!ChoicesKept'
  <2> SUFFICES ASSUME NEW u \in Users PROVE Poll!Cardinality(Poll!Of(u)') <= MaxChoices BY DEF Poll!ChoicesKept
  <2> DEFINE Now == Part(votes, u)
  <2> DEFINE Left == Part(votes \ dels, u)
  <2> DEFINE Then == Part(votes', u)
  <2>1. Poll!Of(u)' = Then /\ Poll!Of(u) = Now BY DEF Poll!Of, Part
  <2>2. Poll!Cardinality(Now) \in Nat /\ Poll!Cardinality(Left) \in Nat
        /\ Poll!Cardinality(Left) <= Poll!Cardinality(Now)
    <3>1. PICK V \in SUBSET votes : V = votes \ dels OBVIOUS
    <3>2. /\ Poll!Cardinality(Part(V, u)) \in Nat /\ Poll!Cardinality(Now) \in Nat
          /\ Poll!Cardinality(Part(V, u)) <= Poll!Cardinality(Now)
      BY <1>6, OfFinite
    <3> QED BY <3>1, <3>2
  <2>3. Poll!Cardinality(Now) <= MaxChoices BY <2>1 DEF PollInv, Poll!ChoicesKept
  <2>4. Poll!Cardinality(Then) \in Nat
    <3>1. Then \in SUBSET votes' BY DEF Part
    <3> QED BY <1>7, <3>1, Counted, FS_Subset, FS_CardinalityType
  <2>5. ASSUME adds = {} \/ v[1] # u PROVE Then = Left BY <1>2, <1>3, <2>5 DEF Part
  <2>6. ASSUME adds = {v}, v[1] = u, Poll!Of(v[1]) \subseteq dels PROVE Then = {v}
    BY <1>3, <2>6 DEF Poll!Of, Part
  <2>7. ASSUME adds = {v}, v[1] = u, Room(t) PROVE Poll!Cardinality(Then) <= Poll!Cardinality(Left) + 1
               /\ Poll!Cardinality(Now) < MaxChoices
    <3>1. PICK V : V = votes \ dels OBVIOUS
    <3>2. Poll!Cardinality(Part(V \union {v}, u)) <= Poll!Cardinality(Part(V, u)) + 1
      BY <1>6, <3>1, OfMore
    <3>3. votes' = V \union {v} BY <1>3, <2>7, <3>1
    <3>4. Poll!Cardinality(Now) < MaxChoices BY <2>1, <2>7 DEF Room
    <3> QED BY <3>1, <3>2, <3>3, <3>4
  <2>8. Poll!Cardinality({v}) = 1 BY Counted, FS_Singleton
  <2> HIDE DEF Now, Left, Then
  <2>9. CASE adds = {} \/ v[1] # u
    <3>1. Poll!Cardinality(Then) = Poll!Cardinality(Left) BY <2>5, <2>9
    <3> QED BY <2>1, <2>2, <2>3, <3>1 DEF Poll!PollAssumption
  <2>10. CASE adds = {v} /\ v[1] = u /\ Poll!Of(v[1]) \subseteq dels
    <3>1. Poll!Cardinality(Then) = 1 BY <2>6, <2>8, <2>10
    <3> QED BY <2>1, <3>1 DEF Poll!PollAssumption
  <2>11. CASE adds = {v} /\ v[1] = u /\ Room(t)
    <3>1. Poll!Cardinality(Then) <= Poll!Cardinality(Left) + 1 /\ Poll!Cardinality(Now) < MaxChoices
      BY <2>7, <2>11
    <3> QED BY <2>1, <2>2, <2>4, <3>1 DEF Poll!PollAssumption
  <2> QED BY <1>2, <2>9, <2>10, <2>11
<1>9. Told' BY <1>1, <1>5 DEF Told
<1>10. PollTypes' BY <1>4, <1>5, <1>7 DEF PollTypes
<1> QED BY <1>1, <1>4, <1>8, <1>9, <1>10, InsideKept DEF Poll!Is

\* An end reads the votes.
LEMMA EnterEndStep == ASSUME PollInv, NEW t \in Tasks, Poll!PollAssumption, Poll!EnterEnd(t) PROVE PollInv'
<1>1. task[t] \in Ballot /\ task[t].kind = "end" /\ lock = None /\ UNCHANGED <<poll, votes, announced>> /\ t # None
  BY DEF PollInv, PollTypes, Poll!EnterEnd, Poll!Is, Poll!Free, Poll!PollAssumption
<1>2. CASE poll.status # "ACTIVE"
  <2>1. Poll!Leave(t) /\ lock' = lock BY <1>2 DEF Poll!EnterEnd
  <2> QED BY <1>1, <2>1, PollLeaveKept
<1>3. CASE poll.status = "ACTIVE"
  <2>1. lock' = t /\ task' = [task EXCEPT ![t].at = "announce", ![t].seen = votes] BY <1>3 DEF Poll!EnterEnd
  <2>2. /\ task' \in [Tasks -> Ballot \union {None}] /\ Others(t) /\ task'[t].at = "announce"
           /\ task'[t].kind = "end"
        /\ task'[t].seen = votes /\ IsFiniteSet(votes)
    BY <1>1, <2>1 DEF PollInv, PollTypes, Others, Ballot, Poll!Steps
  <2>3. PollTypes' BY <1>1, <2>2 DEF PollInv, PollTypes
  <2>4. Poll!ChoicesKept' /\ Told' BY <1>1 DEF PollInv, Poll!ChoicesKept, Told, Poll!Of
  <2> QED BY <1>1, <1>3, <2>1, <2>2, <2>3, <2>4, InsideKept DEF Poll!Is
<1> QED BY <1>2, <1>3

\* The end is shown while its poll is active.
LEMMA AnnounceStep == ASSUME PollInv, NEW t \in Tasks, Poll!PollAssumption, Poll!Announce(t) PROVE PollInv'
<1>1. task[t] \in Ballot /\ task[t].kind = "end" /\ lock = t /\ lock' = lock /\ UNCHANGED <<poll, votes>>
      /\ t # None
      /\ poll.status = "ACTIVE" /\ announced' = task[t].seen /\ IsFiniteSet(task[t].seen)
  BY DEF PollInv, PollTypes, Routes, Holds, Announced, Poll!Announce, Poll!Is, Poll!PollAssumption
<1>2. /\ task' \in [Tasks -> Ballot \union {None}] /\ Others(t) /\ task'[t].at = "commit" /\ task'[t].kind = "end"
      /\ task'[t].seen = task[t].seen
  BY <1>1 DEF Poll!Announce, Poll!Goto, PollInv, PollTypes, Others, Ballot, Poll!Steps
<1>3. PollTypes' BY <1>1, <1>2 DEF PollInv, PollTypes
<1>4. Poll!ChoicesKept' /\ Told' BY <1>1 DEF PollInv, Poll!ChoicesKept, Told, Poll!Of
<1> QED BY <1>1, <1>2, <1>3, <1>4, InsideKept DEF Poll!Is

\* What is committed was shown.
LEMMA CommitEndStep == ASSUME PollInv, NEW t \in Tasks, Poll!PollAssumption, Poll!CommitEnd(t) PROVE PollInv'
<1>1. task[t] \in Ballot /\ lock = t /\ UNCHANGED <<votes, announced>> /\ t # None /\ announced = task[t].seen
      /\ IsFiniteSet(task[t].seen)
  BY DEF PollInv, PollTypes, Holds, Announced, Poll!CommitEnd, Poll!Is, Poll!PollAssumption
<1>2. task' \in [Tasks -> Ballot \union {None}] /\ Others(t) /\ task'[t] = None
  BY DEF Poll!CommitEnd, Poll!Leave, PollInv, PollTypes, Others
<1>3. task[t].seen \in SUBSET Poll!Votes BY <1>1 DEF Ballot
<1>4. Poll!Cardinality(task[t].seen) \in Int BY <1>1, Counted, FS_CardinalityType
<1>5. PollTypes' BY <1>1, <1>2, <1>3, <1>4 DEF PollInv, PollTypes, Poll!CommitEnd
<1>6. Poll!ChoicesKept' /\ Told' BY <1>1 DEF PollInv, Poll!ChoicesKept, Told, Poll!Of, Poll!CommitEnd
<1> QED BY <1>1, <1>2, <1>5, <1>6, InsideKept DEF Poll!Is

\* The invariant holds at first, and every step keeps it.
LEMMA PollInitInv == ASSUME Poll!Init, Poll!PollAssumption PROVE PollInv
<1>1. PollTypes
  <2>1. IsFiniteSet({}) BY Counted, FS_EmptySet
  <2>2. poll \in [status : {"ACTIVE", "ENDED"}, total : Int, results : (SUBSET Poll!Votes) \union {None}]
    <3>1. poll = [status |-> "ACTIVE", total |-> 0, results |-> None] BY DEF Poll!Init
    <3> QED BY <3>1
  <2>3. task \in [Tasks -> Ballot \union {None}] BY DEF Poll!Init
  <2> QED BY <2>1, <2>2, <2>3 DEF Poll!Init, PollTypes
<1>2. ASSUME NEW u \in Users PROVE Poll!Cardinality(Poll!Of(u)) <= MaxChoices
  <2>1. Poll!Of(u) = {} BY DEF Poll!Init, Poll!Of
  <2> QED BY <2>1, Counted, FS_EmptySet DEF Poll!PollAssumption
<1> QED
  BY <1>1, <1>2 DEF Poll!Init, PollInv, Routes, Holds, Writing, Committing, Announced, Told, Poll!ChoicesKept,
    Poll!Is

\* Every step keeps the invariant.
LEMMA PollNextInv == ASSUME PollInv, Poll!PollAssumption, [Poll!Next]_(Poll!vars) PROVE PollInv'
<1>1. ASSUME UNCHANGED <<poll, votes, lock, task, announced>> PROVE PollInv'
 
    BY <1>1 DEF PollInv, PollTypes, Routes, Holds, Writing, Room, Committing, Announced, Told, Poll!ChoicesKept,
      Poll!Is, Poll!Of
<1>2. CASE UNCHANGED Poll!vars \/ Poll!TimeIsUp BY <1>1, <1>2 DEF Poll!vars, Poll!TimeIsUp
<1>3. ASSUME NEW t \in Tasks, Poll!Fails(t) PROVE PollInv'
  BY <1>3, PollLeaveKept DEF Poll!Fails
<1> QED BY <1>2, <1>3, BeginStep, DropStep, EnterStep, WriteStep, CommitVoteStep, EnterEndStep, AnnounceStep,
           CommitEndStep DEF Poll!Next, Poll!Step

-----------------------------------------------------------------------------
(* Without reactions *)

\* What is written, and what is shown, is of the votes there are.
Counting == ~Reactions =>
    /\ Poll!CounterExact
    /\ \A t \in Tasks :
          /\ ~Poll!Is(t, "drop")
          /\ Poll!Is(t, "commit") /\ task[t].kind # "end" =>
                task[t].count = Poll!Cardinality((votes \ task[t].dels) \union task[t].adds)
          /\ Poll!Is(t, "announce") \/ (Poll!Is(t, "commit") /\ task[t].kind = "end") => task[t].seen = votes

\* Votes and counter stay, and only one task moves: nothing is counted anew.
LEMMA CountingStays ==
    ASSUME PollInv, Counting, NEW t \in Tasks, Others(t), UNCHANGED <<poll, votes>>,
           task'[t] # None => /\ task'[t].at # "drop" \/ Reactions
                              /\ task'[t].at # "announce" /\ task'[t].at # "commit"
    PROVE  Counting'
BY DEF PollInv, Counting, Poll!CounterExact, Others, Poll!Is

\* Without reactions every task keeps what it counted.
LEMMA CountingKept ==
    ASSUME PollInv, PollInv', Counting, Poll!PollAssumption, [Poll!Next]_(Poll!vars)
    PROVE  Counting'
<1> SUFFICES ASSUME ~Reactions PROVE Counting' BY DEF Counting
<1>1. CASE UNCHANGED Poll!vars \/ Poll!TimeIsUp
  BY <1>1 DEF Poll!vars, Poll!TimeIsUp, Counting, Poll!CounterExact, Poll!Is
<1>2. ASSUME NEW t \in Tasks,
             \/ \E v \in Poll!Votes : Poll!Click(t, "vote", v) \/ Poll!Click(t, "toggle", v)
             \/ Poll!EndByCommand(t) \/ Poll!Sweep(t)
      PROVE  Counting'
  <2>1. ASSUME NEW kind, NEW v, task' = [task EXCEPT ![t] = Poll!Task(kind, v, "lock")], UNCHANGED <<poll, votes>>
        PROVE  Counting'
    <3>1. Others(t) /\ task'[t].at = "lock" BY <2>1 DEF PollInv, PollTypes, Others, Poll!Task
    <3> QED BY <2>1, <3>1, CountingStays
  <2> QED BY <1>2, <2>1 DEF Poll!Click, Poll!EndByCommand, Poll!Sweep
<1>3. ASSUME NEW t \in Tasks, Poll!Leave(t), UNCHANGED <<poll, votes>> PROVE Counting'
  <2>1. Others(t) /\ task'[t] = None BY <1>3 DEF Poll!Leave, PollInv, PollTypes, Others
  <2> QED BY <1>3, <2>1, CountingStays
<1>4. ASSUME NEW t \in Tasks, Poll!Enter(t) PROVE Counting'
  <2>1. CASE Poll!MayVote(t)
    <3>1. Others(t) /\ task'[t].at = "write"
      BY <1>4, <2>1 DEF Poll!Enter, Poll!Is, PollInv, PollTypes, Others, Ballot
    <3> QED BY <1>4, <3>1, CountingStays DEF Poll!Enter
  <2>2. CASE ~Poll!MayVote(t) BY <1>3, <1>4, <2>2 DEF Poll!Enter
  <2> QED BY <2>1, <2>2
<1>5. ASSUME NEW t \in Tasks, Poll!Write(t) PROVE Counting'
  <2> DEFINE v == task[t].v
  <2> DEFINE back == task[t].kind = "toggle" /\ v \in task[t].seen
  <2> DEFINE adds == IF back THEN {} ELSE {v}
  <2> DEFINE dels == IF back THEN {v} ELSE Poll!Replaced(t)
  <2> DEFINE count == Poll!Cardinality((votes \ dels) \union adds)
  <2>1. CASE back /\ v \notin votes BY <1>3, <1>5, <2>1 DEF Poll!Write
  <2>2. CASE ~(back /\ v \notin votes)
    <3>1. task' = [task EXCEPT ![t].at = "commit", ![t].adds = adds, ![t].dels = dels, ![t].count = count]
      BY <1>5, <2>2 DEF Poll!Write
    <3>2. UNCHANGED <<poll, votes>> /\ task[t] \in Ballot /\ task[t].kind # "end"
      BY <1>5 DEF Poll!Write, PollInv, PollTypes, Routes, Poll!Is
    <3>3. count = Poll!Cardinality((votes \ dels) \union adds) OBVIOUS
    <3> HIDE DEF adds, dels, count
    <3>4. Others(t) /\ task'[t].at = "commit" /\ task'[t].adds = adds /\ task'[t].dels = dels
          /\ task'[t].count = count /\ task'[t].kind # "end"
      BY <3>1, <3>2 DEF PollInv, PollTypes, Others, Ballot
    <3>5. task'[t].count = Poll!Cardinality((votes' \ task'[t].dels) \union task'[t].adds) BY <3>2, <3>3, <3>4
    <3> QED BY <3>2, <3>4, <3>5 DEF Counting, Poll!CounterExact, Others, Poll!Is
  <2> QED BY <2>1, <2>2
<1>6. ASSUME NEW t \in Tasks, Poll!CommitVote(t) PROVE Counting'
  <2>1. lock = t /\ poll.status = "ACTIVE" /\ t # None
    BY <1>6 DEF Poll!CommitVote, PollInv, Holds, Poll!PollAssumption, Poll!Is
  <2>2. ASSUME NEW s \in Tasks PROVE ~Poll!Is(s, "announce")' /\ ~Poll!Is(s, "commit")' /\ ~Poll!Is(s, "drop")'
    <3>1. CASE s = t BY <1>6, <3>1 DEF Poll!CommitVote, Poll!Leave, Poll!Is, PollInv, PollTypes
    <3>2. CASE s # t
      <4>1. ~Poll!Is(s, "announce") /\ ~Poll!Is(s, "commit") /\ ~Poll!Is(s, "drop")
        BY <2>1, <3>2, Alone DEF Counting
      <4> QED BY <1>6, <3>2, <4>1 DEF Poll!CommitVote, Poll!Leave, Poll!Is, PollInv, PollTypes
    <3> QED BY <3>1, <3>2
  <2>3. votes' = (votes \ task[t].dels) \union task[t].adds /\ poll'.total = task[t].count
        /\ poll'.status = "ACTIVE"
    BY <1>6, <2>1 DEF Poll!CommitVote, PollInv, PollTypes
  <2>4. task[t].count = Poll!Cardinality((votes \ task[t].dels) \union task[t].adds)
    BY <1>6 DEF Poll!CommitVote, Counting
  <2>5. Poll!CounterExact' BY <2>3, <2>4 DEF Poll!CounterExact
  <2> QED BY <2>2, <2>5 DEF Counting
<1>7. ASSUME NEW t \in Tasks, Poll!EnterEnd(t) PROVE Counting'
  <2>1. CASE poll.status = "ACTIVE"
    <3>1. Others(t) /\ task'[t].at = "announce" /\ task'[t].seen = votes /\ UNCHANGED <<poll, votes>>
      BY <1>7, <2>1 DEF Poll!EnterEnd, Poll!Is, PollInv, PollTypes, Others, Ballot
    <3> QED BY <3>1 DEF Counting, Poll!CounterExact, Others, Poll!Is
  <2>2. CASE poll.status # "ACTIVE" BY <1>3, <1>7, <2>2 DEF Poll!EnterEnd
  <2> QED BY <2>1, <2>2
<1>8. ASSUME NEW t \in Tasks, Poll!Announce(t) PROVE Counting'
  <2>1. Others(t) /\ task'[t].at = "commit" /\ task'[t].kind = "end" /\ task'[t].seen = votes
        /\ UNCHANGED <<poll, votes>>
    <3>1. task[t] \in Ballot /\ task[t].kind = "end" /\ task[t].seen = votes /\ UNCHANGED <<poll, votes>>
      BY <1>8 DEF Poll!Announce, Poll!Is, PollInv, PollTypes, Routes, Counting
    <3> QED BY <1>8, <3>1 DEF Poll!Announce, Poll!Goto, PollInv, PollTypes, Others, Ballot
  <2> QED BY <2>1 DEF Counting, Poll!CounterExact, Others, Poll!Is
<1>9. ASSUME NEW t \in Tasks, Poll!CommitEnd(t) PROVE Counting'
  <2>1. Others(t) /\ task'[t] = None /\ UNCHANGED votes /\ task[t].seen = votes
    BY <1>9 DEF Poll!CommitEnd, Poll!Leave, PollInv, PollTypes, Others, Counting
  <2>2. Poll!CounterExact' BY <1>9, <2>1 DEF Poll!CommitEnd, Poll!CounterExact
  <2> QED BY <2>1, <2>2 DEF Counting, Others, Poll!Is
<1>10. ASSUME NEW t \in Tasks, Poll!Fails(t) PROVE Counting' BY <1>3, <1>10 DEF Poll!Fails
<1>11. ASSUME NEW t \in Tasks PROVE ~Poll!Drop(t) /\ \A v \in Poll!Votes : ~Poll!React(t, v) /\ ~Poll!Unreact(t, v)
  BY DEF Counting, Poll!Drop, Poll!React, Poll!Unreact
<1> QED BY <1>1, <1>2, <1>4, <1>5, <1>6, <1>7, <1>8, <1>9, <1>10, <1>11 DEF Poll!Next, Poll!Step

\* The invariants of a poll: its types, the choices of a user, the result shown.
THEOREM PollHolds == ASSUME Poll!PollAssumption PROVE Poll!Spec => [](Poll!ChoicesKept /\ Poll!EndsAsTold)
<1>1. Poll!Init => PollInv BY PollInitInv
<1>2. PollInv /\ [Poll!Next]_(Poll!vars) => PollInv' BY PollNextInv
<1>3. PollInv => Poll!ChoicesKept /\ Poll!EndsAsTold
  <2> SUFFICES ASSUME PollInv PROVE Poll!EndsAsTold BY DEF PollInv
  <2> QED BY DEF PollInv, Told, Holds, Poll!EndsAsTold, Poll!Is, PollTypes
<1> QED BY <1>1, <1>2, <1>3, PTL DEF Poll!Spec

\* Where nobody votes by reaction the counter is the number of votes, and a result
\* counts the votes there are.
THEOREM CounterExactHolds == ASSUME Poll!PollAssumption, ~Reactions PROVE Poll!Spec => []Poll!CounterExact
<1>1. Poll!Init => PollInv /\ Counting
  <2> SUFFICES ASSUME Poll!Init PROVE Counting BY PollInitInv
  <2> QED BY Counted, FS_EmptySet DEF Poll!Init, Counting, Poll!CounterExact, Poll!Is
<1>2. PollInv /\ Counting /\ [Poll!Next]_(Poll!vars) => PollInv' /\ Counting' BY PollNextInv, CountingKept
<1>3. Counting => Poll!CounterExact BY DEF Counting
<1> QED BY <1>1, <1>2, <1>3, PTL DEF Poll!Spec

\* What else a poll keeps: whether its time is up, the lock, what was shown, the counts.
PollUses == [votes : 0..MaxVotes, ends : 0..MaxEnds, faults : 0..MaxFaults]
PollRest ==
    /\ expired \in BOOLEAN /\ lock \in Tasks \union {None} /\ announced \in (SUBSET Poll!Votes) \union {None}
    /\ used \in PollUses
PollBounds == MaxVotes \in Nat /\ MaxEnds \in Nat /\ MaxFaults \in Nat

\* What is used counts up to its bound.
LEMMA PollUseFits ==
    ASSUME PollBounds, used \in PollUses,
           \/ Poll!Use("votes", MaxVotes) \/ Poll!Use("ends", MaxEnds) \/ Poll!Use("faults", MaxFaults)
    PROVE  used' \in PollUses
<1>1. used.votes \in 0..MaxVotes /\ used.ends \in 0..MaxEnds /\ used.faults \in 0..MaxFaults BY DEF PollUses
<1>2. ASSUME Poll!Use("votes", MaxVotes) PROVE used' \in PollUses BY <1>1, <1>2 DEF Poll!Use, PollUses, PollBounds
<1>3. ASSUME Poll!Use("ends", MaxEnds) PROVE used' \in PollUses BY <1>1, <1>3 DEF Poll!Use, PollUses, PollBounds
<1>4. ASSUME Poll!Use("faults", MaxFaults) PROVE used' \in PollUses
  BY <1>1, <1>4 DEF Poll!Use, PollUses, PollBounds
<1> QED BY <1>2, <1>3, <1>4

\* Every step keeps them.
LEMMA PollRestKept ==
    ASSUME PollBounds, PollInv, PollRest, [Poll!Next]_(Poll!vars)
    PROVE  PollRest'
<1>1. used' \in PollUses
  <2>1. CASE UNCHANGED used BY <2>1 DEF PollRest
  <2>2. CASE \/ Poll!Use("votes", MaxVotes) \/ Poll!Use("ends", MaxEnds) \/ Poll!Use("faults", MaxFaults)
    BY <2>2, PollUseFits DEF PollRest
  <2>3. \/ UNCHANGED used
        \/ Poll!Use("votes", MaxVotes) \/ Poll!Use("ends", MaxEnds) \/ Poll!Use("faults", MaxFaults)
    BY DEF Poll!Next, Poll!Click, Poll!React, Poll!Unreact, Poll!EndByCommand, Poll!Sweep, Poll!Step, Poll!Drop,
           Poll!Enter, Poll!Write, Poll!CommitVote, Poll!EnterEnd, Poll!Announce, Poll!CommitEnd, Poll!Fails,
           Poll!TimeIsUp, Poll!vars
  <2> QED BY <2>1, <2>2, <2>3
<1>2. expired' \in BOOLEAN
  BY DEF PollRest, Poll!Next, Poll!Click, Poll!React, Poll!Unreact, Poll!EndByCommand, Poll!Sweep, Poll!Step,
         Poll!Drop, Poll!Enter, Poll!Write, Poll!CommitVote, Poll!EnterEnd, Poll!Announce, Poll!CommitEnd,
         Poll!Fails, Poll!TimeIsUp, Poll!vars
<1>3. lock' \in Tasks \union {None}
  BY DEF PollRest, Poll!Next, Poll!Click, Poll!React, Poll!Unreact, Poll!EndByCommand, Poll!Sweep, Poll!Step,
         Poll!Drop, Poll!Enter, Poll!Write, Poll!CommitVote, Poll!EnterEnd, Poll!Announce, Poll!CommitEnd,
         Poll!Fails, Poll!TimeIsUp, Poll!vars
<1>4. announced' \in (SUBSET Poll!Votes) \union {None}
  <2>1. CASE UNCHANGED announced BY <2>1 DEF PollRest
  <2>2. ASSUME NEW t \in Tasks, Poll!Announce(t) PROVE announced' \in SUBSET Poll!Votes
    <3>1. task[t] \in Ballot /\ announced' = task[t].seen
      BY <2>2 DEF Poll!Announce, Poll!Is, PollInv, PollTypes
    <3> QED BY <3>1 DEF Ballot
  <2>3. UNCHANGED announced \/ \E t \in Tasks : Poll!Announce(t)
    BY DEF Poll!Next, Poll!Click, Poll!React, Poll!Unreact, Poll!EndByCommand, Poll!Sweep, Poll!Step, Poll!Drop,
           Poll!Enter, Poll!Write, Poll!CommitVote, Poll!EnterEnd, Poll!CommitEnd, Poll!Fails,
           Poll!TimeIsUp, Poll!vars
  <2> QED BY <2>1, <2>2, <2>3
<1> QED BY <1>1, <1>2, <1>3, <1>4 DEF PollRest

\* pollSystem.ts: every variable of a poll keeps its type.
THEOREM PollTypeOK == ASSUME Poll!PollAssumption, PollBounds PROVE Poll!Spec => []Poll!TypeOK
<1>1. Poll!Init => PollInv /\ PollRest
  <2> SUFFICES ASSUME Poll!Init PROVE PollRest BY PollInitInv
  <2>1. used = [votes |-> 0, ends |-> 0, faults |-> 0] BY DEF Poll!Init
  <2>2. used \in PollUses BY <2>1 DEF PollUses, PollBounds
  <2>3. expired \in BOOLEAN /\ lock = None /\ announced = None BY DEF Poll!Init
  <2> QED BY <2>2, <2>3 DEF PollRest
<1>2. PollInv /\ PollRest /\ [Poll!Next]_(Poll!vars) => PollInv' /\ PollRest' BY PollNextInv, PollRestKept
<1>3. PollInv /\ PollRest => Poll!TypeOK
  <2> SUFFICES ASSUME PollInv, PollRest PROVE Poll!TypeOK OBVIOUS
  <2>1. ASSUME NEW t \in Tasks, task[t] # None PROVE task[t] \in Ballot BY <2>1 DEF PollInv, PollTypes
  <2> QED BY <2>1 DEF PollInv, PollTypes, PollRest, PollUses, Ballot, Poll!TypeOK
<1> QED BY <1>1, <1>2, <1>3, PTL DEF Poll!Spec
=============================================================================
