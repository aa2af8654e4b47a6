---------------------------- MODULE Tickets_proofs ----------------------------
(***************************************************************************)
(* Theorems about Tickets for any tickets, users, tasks and bounds.        *)
(***************************************************************************)
EXTENDS Tickets, FiniteSetTheorems, TLAPS

\* An opening that has a number, and one whose row is there.
Opening(t) == Is(t, "channel") \/ Is(t, "ready") \/ Is(t, "greet") \/ Is(t, "reply") \/ Is(t, "undo")
Numbered(t) == Opening(t) \/ Is(t, "uncount")
\* A close under way.
Closing(t) == Is(t, "lock") \/ Is(t, "collect") \/ Is(t, "store")

\* A purge at work on a ticket, a change of its users.
Purging(t) == Is(t, "delete") \/ Is(t, "archive")
Sharing(t) == Is(t, "grant") \/ Is(t, "write") \/ Is(t, "revoke")

NumbersPositive == \A t \in Tasks : Numbered(t) => task[t].n > 0
\* What a close, a purge or a change of users does, it does to a ticket.
OnTickets == \A t \in Tasks :
    /\ Closing(t) \/ Purging(t) \/ Sharing(t) => task[t].k \in Tickets
    /\ Sharing(t) => task[t].u \in Users
NumbersCounted == \A k \in Tickets : Kept(k) => ticket[k].number \in 1..template.counter
TasksCounted == \A t \in Tasks : Numbered(t) => task[t].n \in 1..template.counter
TasksDiffer == \A s, t \in Tasks : Numbered(s) /\ Numbered(t) /\ task[s].n = task[t].n => s = t
OpeningOwns == \A t \in Tasks : Opening(t) =>
    task[t].k \in Tickets /\ Kept(task[t].k) /\ ticket[task[t].k].number = task[t].n
ReturnedFree == \A t \in Tasks : Is(t, "uncount") =>
    \A k \in Tickets : Kept(k) => ticket[k].number # task[t].n
NoReset == \A t \in Tasks : ~Is(t, "reset")

\* The inductive invariant: a number that may still go back to the counter belongs to
\* one task, and to no row that is kept but its own.
Rules == /\ NumbersCounted /\ NumbersUnique /\ TasksCounted /\ TasksDiffer
         /\ OpeningOwns /\ ReturnedFree /\ NoReset

\* A step of one task leaves the others alone.
Others(t) == \A s \in Tasks : s # t => task'[s] = task[s]

-----------------------------------------------------------------------------
(* Types *)

\* At the start everything has its type.
LEMMA InitTyped == Init => TypeOK
  BY DEF Init, TypeOK, NoTicket, Rows, Doing

\* The fields of a task's record.
LEMMA TaskFields ==
    ASSUME TypeOK, NEW t \in Tasks, NEW at, Is(t, at)
    PROVE  /\ task[t].k \in Tickets \union {None} /\ task[t].u \in Users \union {None}
              /\ task[t].seen \subseteq Users
           /\ task[t].todo \subseteq Tickets \X BOOLEAN /\ task[t].n \in Nat /\ task[t].ok \in BOOLEAN
           /\ task[t] \in Doing
  BY DEF TypeOK, Is, Doing

\* A task made, moved or ended keeps the type of the tasks.
LEMMA BecomeTyped ==
    ASSUME TypeOK, NEW t \in Tasks, NEW new \in Doing \union {None}, Become(t, new)
    PROVE  task' \in [Tasks -> Doing \union {None}] /\ task'[t] = new /\ Others(t)
  BY DEF TypeOK, Become, Others

\* A task that goes on to another step keeps its fields and its type.
LEMMA GotoTyped ==
    ASSUME TypeOK, NEW t \in Tasks, NEW from, NEW at \in Steps, Is(t, from), Goto(t, at)
    PROVE  /\ task' \in [Tasks -> Doing \union {None}] /\ Others(t)
           /\ task'[t] = [task[t] EXCEPT !.at = at]
<1>1. task[t] \in Doing BY TaskFields
<1>2. [task[t] EXCEPT !.at = at] \in Doing BY <1>1 DEF Doing
<1> QED BY <1>1, <1>2 DEF TypeOK, Goto, Others

\* A task that ends is None, the tasks keep their type.
LEMMA LeaveTyped ==
    ASSUME TypeOK, NEW t \in Tasks, Leave(t)
    PROVE  task' \in [Tasks -> Doing \union {None}] /\ task'[t] = None /\ Others(t)
  BY BecomeTyped DEF Leave

\* A request begins with a record of its own.
LEMMA BeginTyped ==
    ASSUME TypeOK, NEW t \in Tasks, NEW new \in Doing \union {None}, Begin(t, new)
    PROVE  task' \in [Tasks -> Doing \union {None}] /\ task'[t] = new /\ Others(t)
  BY BecomeTyped DEF Begin

\* The record of a task, of fields that have their types, has its type.
LEMMA TaskTyped ==
    ASSUME NEW at \in Steps, NEW k \in Tickets \union {None}, NEW u \in Users \union {None},
           NEW seen \in SUBSET Users, NEW n \in Nat, NEW ok \in BOOLEAN
    PROVE  Task(at, k, u, seen, n, ok) \in Doing
  BY DEF Task, Doing

\* openTicketLocked and its compensation keep the types; a counter that goes back
\* does not go below zero.
LEMMA OpenTyped ==
    ASSUME TypeOK, NumbersPositive, NEW t \in Tasks, Open(t) \/ CreateInstance(t) \/ CreateChannel(t) \/ Ready(t) \/ Greet(t) \/ Reply(t)
                                    \/ OpenFails(t) \/ DeleteInstance(t) \/ Uncount(t)
    PROVE  TypeOK'
<1>1. CASE Open(t)
  <2>1. Plain("create") \in Doing BY TaskTyped DEF Plain, Steps
  <2> QED BY <1>1, <2>1, BeginTyped DEF Open, TypeOK, rest
<1>2. CASE CreateInstance(t)
  <2> DEFINE k == CHOOSE x \in Tickets : ticket[x].status = "NONE"
             number == template.counter + 1
  <2>1. CASE Fence /\ \E x \in Tickets : ticket[x].status = "NONE"
    <3>1. k \in Tickets BY <2>1
    <3>2. number \in Nat BY DEF TypeOK
    <3>3. Task("channel", k, None, {}, number, TRUE) \in Doing BY <3>1, <3>2, TaskTyped DEF Steps
    <3>4. template' \in [exists : BOOLEAN, active : BOOLEAN, counter : Nat]
      BY <1>2, <2>1, <3>2 DEF CreateInstance, TypeOK
    <3>5. [NoTicket EXCEPT !.status = "OPEN", !.number = number, !.linked = TRUE] \in Rows
      BY <3>2 DEF NoTicket, Rows
    <3>6. ticket' \in [Tickets -> Rows] BY <1>2, <2>1, <3>1, <3>5 DEF CreateInstance, TypeOK
    <3>7. Become(t, Task("channel", k, None, {}, number, TRUE)) BY <1>2, <2>1 DEF CreateInstance
    <3> QED BY <1>2, <3>3, <3>4, <3>6, <3>7, BecomeTyped DEF CreateInstance, TypeOK, rest
  <2>2. CASE ~(Fence /\ \E x \in Tickets : ticket[x].status = "NONE")
    BY <1>2, <2>2, LeaveTyped DEF CreateInstance, TypeOK, rest
  <2> QED BY <2>1, <2>2
<1>3. CASE CreateChannel(t)
  BY <1>3, GotoTyped DEF CreateChannel, Steps, TypeOK, rest
<1>3a. CASE Greet(t) BY <1>3a, GotoTyped DEF Greet, Steps, TypeOK, rest
<1>3b. CASE Reply(t) BY <1>3b, LeaveTyped DEF Reply, TypeOK, rest
<1>4. CASE Ready(t)
  <2>1. \A r \in Rows : [r EXCEPT !.known = TRUE] \in Rows BY DEF Rows
  <2>2. ticket' \in [Tickets -> Rows] BY <1>4, <2>1 DEF Ready, TypeOK
  <2> QED BY <1>4, <2>2, GotoTyped DEF Ready, Steps, TypeOK, rest
<1>5. CASE OpenFails(t)
  <2>1. PICK from : Is(t, from) BY <1>5 DEF OpenFails
  <2> QED BY <1>5, <2>1, GotoTyped DEF OpenFails, Steps, TypeOK, rest
<1>6. CASE DeleteInstance(t)
  <2>1. [NoTicket EXCEPT !.status = "GONE"] \in Rows BY DEF NoTicket, Rows
  <2>2. \A r \in Rows : [r EXCEPT !.undone = TRUE] \in Rows BY DEF Rows
  <2>3. CASE ticket' = [ticket EXCEPT ![task[t].k] = [NoTicket EXCEPT !.status = "GONE"]]
    <3>1. ticket' \in [Tickets -> Rows] BY <2>1, <2>3 DEF TypeOK
    <3> QED BY <1>6, <3>1, GotoTyped DEF DeleteInstance, Steps, TypeOK, rest
  <2>4. CASE ticket' = Undone(task[t].k)
    <3>1. ticket' \in [Tickets -> Rows] BY <2>2, <2>4 DEF Undone, TypeOK
    <3> QED BY <1>6, <3>1, GotoTyped DEF DeleteInstance, Steps, TypeOK, rest
  <2> QED BY <1>6, <2>3, <2>4 DEF DeleteInstance
<1>7. CASE Uncount(t)
  <2> DEFINE Channels == [Tickets -> {"NONE", "NEW", "OPEN", "LOCKED", "DELETED"}]
             gone == [channel EXCEPT ![task[t].k] = IF @ = "NONE" THEN @ ELSE "DELETED"]
  <2>1. task[t].n \in Nat /\ task[t].n > 0 BY <1>7, TaskFields DEF Uncount, NumbersPositive, Numbered
  <2>2. Uncounted(task[t].n) \in [exists : BOOLEAN, active : BOOLEAN, counter : Nat]
    BY <2>1 DEF Uncounted, TypeOK
  <2>3. gone \in Channels BY DEF TypeOK
  <2>4. channel' \in {channel, gone} /\ template' \in {template, Uncounted(task[t].n)} BY <1>7 DEF Uncount
  <2>5. channel' \in Channels BY <2>3, <2>4 DEF TypeOK
  <2> QED BY <1>7, <2>2, <2>4, <2>5, LeaveTyped DEF Uncount, TypeOK, rest
<1> QED BY <1>1, <1>2, <1>3, <1>3a, <1>3b, <1>4, <1>5, <1>6, <1>7

\* A row that is closed keeps its type.
LEMMA ClosedTyped ==
    ASSUME TypeOK, NEW k, NEW text \in Nat \union {None}, Closed(k, text)
    PROVE  ticket' \in [Tickets -> Rows]
<1>1. \A r \in Rows : [r EXCEPT !.status = "CLOSED", !.text = text] \in Rows BY DEF Rows
<1> QED BY <1>1 DEF Closed, TypeOK

\* closeTicketLocked keeps the types.
LEMMA CloseTyped ==
    ASSUME TypeOK, OnTickets, NEW t \in Tasks,
           (\E k \in Tickets : Close(t, k)) \/ Lock(t) \/ LockNothing(t) \/ Collect(t) \/ Store(t) \/ Answer(t) \/ DeleteChannel(t)
             \/ CloseFails(t)
    PROVE  TypeOK'
<1>1. ASSUME NEW k \in Tickets, Close(t, k) PROVE TypeOK'
  <2>1. Task("lock", k, None, {}, 0, TRUE) \in Doing BY TaskTyped DEF Steps
  <2> QED BY <1>1, <2>1, BeginTyped DEF Close, TypeOK
<1>2. CASE Lock(t) BY <1>2, GotoTyped DEF Lock, Locked, Steps, TypeOK, rest
<1>2a. CASE LockNothing(t)
  <2>1. task[t].k \in Tickets BY <1>2a DEF LockNothing, OnTickets, Closing
  <2>2. ticket[task[t].k].text \in Nat \union {None} BY <2>1 DEF TypeOK, Rows
  <2>3. ticket' \in [Tickets -> Rows] BY <1>2a, <2>2, ClosedTyped DEF LockNothing, TypeOK
  <2> QED BY <1>2a, <2>3, LeaveTyped DEF LockNothing, TypeOK
<1>3. CASE Collect(t)
  <2> DEFINE new == [task[t] EXCEPT !.at = "store", !.n = written[task[t].k]]
  <2>1. task[t].k \in Tickets BY <1>3 DEF Collect, OnTickets, Closing
  <2>2. written[task[t].k] \in Nat BY <2>1 DEF TypeOK
  <2>3. task[t] \in Doing BY <1>3, TaskFields DEF Collect
  <2>4. new \in Doing BY <2>2, <2>3 DEF Doing, Steps
  <2>5. Become(t, new) BY <1>3 DEF Collect, Become
  <2> QED BY <1>3, <2>4, <2>5, BecomeTyped DEF Collect, TypeOK, rest
<1>4. CASE Store(t)
  <2>1. task[t].n \in Nat BY <1>4, TaskFields DEF Store
  <2> QED BY <1>4, <2>1, ClosedTyped, GotoTyped DEF Store, Steps, TypeOK, rest
<1>4a. CASE Answer(t) BY <1>4a, GotoTyped DEF Answer, Steps, TypeOK
<1>5. CASE DeleteChannel(t) BY <1>5, LeaveTyped DEF DeleteChannel, TypeOK, rest
<1>6. CASE CloseFails(t) BY <1>6, LeaveTyped DEF CloseFails, Unlocked, TypeOK
<1> QED BY <1>1, <1>2, <1>2a, <1>3, <1>4, <1>4a, <1>5, <1>6

\* The requests of the dashboard on a template keep the types.
LEMMA TemplateTyped ==
    ASSUME TypeOK, NEW t \in Tasks,
           ResetCounter(t) \/ SetCounter(t) \/ Delete(t) \/ Off(t) \/ List(t) \/ Purged(t) \/ Recount(t)
             \/ Remove(t)
    PROVE  TypeOK'
<1> DEFINE Templates == [exists : BOOLEAN, active : BOOLEAN, counter : Nat]
<1>1. CASE ResetCounter(t)
  <2>1. Plain("reset") \in Doing BY TaskTyped DEF Plain, Steps
  <2> QED BY <1>1, <2>1, BeginTyped DEF ResetCounter, TypeOK, rest
<1>2. CASE SetCounter(t)
  <2>1. template' \in Templates BY <1>2 DEF SetCounter, TypeOK
  <2> QED BY <1>2, <2>1, LeaveTyped DEF SetCounter, TypeOK, rest
<1>3. CASE Delete(t)
  <2>1. Task("off", None, None, {}, 0, template.active) \in Doing BY TaskTyped DEF Steps, TypeOK
  <2> QED BY <1>3, <2>1, BecomeTyped DEF Delete, TypeOK, rest
<1>4. CASE Off(t)
  <2>1. template' \in Templates BY <1>4 DEF Off, TypeOK
  <2> QED BY <1>4, <2>1, GotoTyped DEF Off, Steps, TypeOK, rest
<1>5. CASE List(t)
  <2> DEFINE todo == {<<k, ticket[k].known>> : k \in OpenTickets}
             at   == IF OpenTickets = {} THEN "recount" ELSE "purge"
             new  == [task[t] EXCEPT !.at = at, !.todo = todo]
  <2>1. \A k \in Tickets : ticket[k].known \in BOOLEAN BY DEF TypeOK, Rows
  <2>2. todo \in SUBSET (Tickets \X BOOLEAN) BY <2>1 DEF OpenTickets
  <2>3. task[t] \in Doing BY <1>5, TaskFields DEF List
  <2>4. at \in Steps BY DEF Steps
  <2> HIDE DEF todo, at
  <2>5. new \in Doing BY <2>2, <2>3, <2>4 DEF Doing
  <2>6. Become(t, new) BY <1>5 DEF List, Become, todo, at
  <2> QED BY <1>5, <2>5, <2>6, BecomeTyped DEF List, TypeOK, rest
<1>6. Restored(t) \in Templates BY DEF Restored, TypeOK
<1>7. CASE Purged(t)
  BY <1>6, <1>7, LeaveTyped, GotoTyped DEF Purged, Steps, TypeOK, rest
<1>8. CASE Recount(t)
  BY <1>6, <1>8, LeaveTyped, GotoTyped DEF Recount, Steps, TypeOK, rest
<1>9. CASE Remove(t)
  <2>1. \A r \in Rows : [r EXCEPT !.linked = FALSE] \in Rows BY DEF Rows
  <2>2. ticket' \in [Tickets -> Rows] BY <1>9, <2>1 DEF Remove, TypeOK
  <2>3. template' \in Templates BY <1>9 DEF Remove, TypeOK
  <2> QED BY <1>9, <2>2, <2>3, LeaveTyped DEF Remove, TypeOK, rest
<1> QED BY <1>1, <1>2, <1>3, <1>4, <1>5, <1>7, <1>8, <1>9

\* purgeTemplateInstances keeps the types.
LEMMA PurgeTyped ==
    ASSUME TypeOK, OnTickets, NEW t \in Tasks, PurgeCollect(t) \/ PurgeDelete(t) \/ PurgeStore(t) \/ PurgeFails(t)
    PROVE  TypeOK'
<1> DEFINE Fewer(r, k) == [r EXCEPT !.at = "purge", !.todo = @ \ ({k} \X BOOLEAN)]
<1>1. CASE PurgeCollect(t)
  <2>1. PICK x \in task[t].todo, fetched \in BOOLEAN :
          task' = [task EXCEPT ![t].at = "delete", ![t].k = x[1],
                              ![t].n = IF fetched /\ Found(t, x[1]) THEN written[x[1]] ELSE 0]
    BY <1>1 DEF PurgeCollect
  <2> DEFINE n   == IF fetched /\ Found(t, x[1]) THEN written[x[1]] ELSE 0
             new == [task[t] EXCEPT !.at = "delete", !.k = x[1], !.n = n]
  <2>2. task[t] \in Doing /\ task[t].todo \subseteq Tickets \X BOOLEAN BY <1>1, TaskFields DEF PurgeCollect
  <2>3. x[1] \in Tickets BY <2>1, <2>2
  <2>4. n \in Nat BY <2>3 DEF TypeOK
  <2> HIDE DEF n
  <2>5. new \in Doing BY <2>2, <2>3, <2>4 DEF Doing, Steps
  <2>6. Become(t, new) BY <2>1 DEF Become, n
  <2> QED BY <1>1, <2>5, <2>6, BecomeTyped DEF PurgeCollect, TypeOK, rest
<1>2. CASE PurgeDelete(t)
  BY <1>2, GotoTyped DEF PurgeDelete, Steps, TypeOK, rest
<1>3. ASSUME NEW r \in Doing, NEW k PROVE Fewer(r, k) \in Doing /\ [Fewer(r, k) EXCEPT !.failed = TRUE] \in Doing
  BY <1>3 DEF Doing, Steps
<1> HIDE DEF Fewer
<1>4. CASE PurgeStore(t)
  <2>1. task[t] \in Doing /\ task[t].n \in Nat BY <1>4, TaskFields DEF PurgeStore
  <2>2. Become(t, Fewer(task[t], task[t].k)) BY <1>4 DEF PurgeStore, Become, Fewer
  <2> QED BY <1>3, <1>4, <2>1, <2>2, ClosedTyped, BecomeTyped DEF PurgeStore, TypeOK, rest
<1>5. CASE PurgeFails(t)
  <2>1. task[t] \in Doing BY <1>5, TaskFields DEF PurgeFails
  <2>2. Become(t, [Fewer(task[t], task[t].k) EXCEPT !.failed = TRUE]) BY <1>5 DEF PurgeFails, Become, Fewer
  <2> QED BY <1>3, <1>5, <2>1, <2>2, BecomeTyped DEF PurgeFails, TypeOK, rest
<1> QED BY <1>1, <1>2, <1>4, <1>5

\* A change of the users of a ticket keeps the types.
LEMMA UsersTyped ==
    ASSUME TypeOK, OnTickets, NEW t \in Tasks,
           (\E k \in Tickets, u \in Users : AddUser(t, k, u) \/ RemoveUser(t, k, u)) \/ Grant(t) \/ WriteUsers(t)
             \/ Revoke(t)
    PROVE  TypeOK'
<1>1. ASSUME NEW k \in Tickets, NEW u \in Users, AddUser(t, k, u) PROVE TypeOK'
  <2>1. ticket[k].users \in SUBSET Users BY DEF TypeOK, Rows
  <2>2. Task("grant", k, u, ticket[k].users, 0, TRUE) \in Doing BY <2>1, TaskTyped DEF Steps
  <2> QED BY <1>1, <2>2, BeginTyped DEF AddUser, TypeOK, rest
<1>2. ASSUME NEW k \in Tickets, NEW u \in Users, RemoveUser(t, k, u) PROVE TypeOK'
  <2>1. ticket[k].users \in SUBSET Users BY DEF TypeOK, Rows
  <2>2. Task("write", k, u, ticket[k].users, 0, FALSE) \in Doing BY <2>1, TaskTyped DEF Steps
  <2> QED BY <1>2, <2>2, BeginTyped DEF RemoveUser, TypeOK, rest
<1>3. CASE Grant(t)
  <2>1. task[t].u \in Users BY <1>3 DEF Grant, OnTickets, Sharing
  <2>2. access' \in [Tickets -> SUBSET Users] BY <1>3, <2>1 DEF Grant, TypeOK
  <2> QED BY <1>3, <2>2, GotoTyped DEF Grant, Steps, TypeOK
<1>4. CASE WriteUsers(t)
  <2> DEFINE mutated == IF task[t].ok THEN task[t].seen \union {task[t].u} ELSE task[t].seen \ {task[t].u}
             again   == [task[t] EXCEPT !.seen = ticket[task[t].k].users, !.n = @ + 1]
  <2>1. /\ task[t].k \in Tickets /\ task[t].u \in Users
        /\ task[t] \in Doing /\ task[t].seen \subseteq Users /\ task[t].n \in Nat
    BY <1>4, TaskFields DEF WriteUsers, OnTickets, Sharing
  <2>2. mutated \in SUBSET Users BY <2>1
  <2>3. CASE Unchanged(t)
    <3>1. \A r \in Rows : \A us \in SUBSET Users : [r EXCEPT !.users = us] \in Rows BY DEF Rows
    <3> HIDE DEF mutated
    <3>2. ticket' = [ticket EXCEPT ![task[t].k].users = mutated] BY <1>4, <2>3 DEF WriteUsers, mutated
    <3>3. ticket' \in [Tickets -> Rows] BY <2>2, <3>1, <3>2 DEF TypeOK
    <3>4. CASE Leave(t) BY <1>4, <3>3, <3>4, LeaveTyped DEF WriteUsers, TypeOK, rest
    <3>5. CASE Goto(t, "revoke") BY <1>4, <3>3, <3>5, GotoTyped DEF WriteUsers, Steps, TypeOK, rest
    <3> QED BY <1>4, <2>3, <3>4, <3>5 DEF WriteUsers
  <2>4. CASE ~Unchanged(t)
    <3>1. ticket[task[t].k].users \in SUBSET Users BY <2>1 DEF TypeOK, Rows
    <3>2. \A d \in Doing : \A us \in SUBSET Users : \A n \in Nat : [d EXCEPT !.seen = us, !.n = n] \in Doing
      BY DEF Doing
    <3>3. task[t].n + 1 \in Nat BY <2>1
    <3>4. again \in Doing BY <2>1, <3>1, <3>2, <3>3
    <3>5. CASE Leave(t) BY <1>4, <2>4, <3>5, LeaveTyped DEF WriteUsers, TypeOK, rest
    <3>6. CASE ~Leave(t)
      <4>1. Become(t, again) BY <1>4, <2>4, <3>6 DEF WriteUsers, Become
      <4> QED BY <1>4, <2>4, <3>4, <4>1, BecomeTyped DEF WriteUsers, TypeOK, rest
    <3> QED BY <3>5, <3>6
  <2> QED BY <2>3, <2>4
<1>5. CASE Revoke(t)
  <2>1. access' \in [Tickets -> SUBSET Users] BY <1>5 DEF Revoke, TypeOK
  <2> QED BY <1>5, <2>1, LeaveTyped DEF Revoke, TypeOK
<1> QED BY <1>1, <1>2, <1>3, <1>4, <1>5

\* Messages, the switch of the template and a crash keep the types.
LEMMA OutsideTyped ==
    ASSUME TypeOK, (\E k \in Tickets : Post(k)) \/ (\E active \in BOOLEAN : Put(active)) \/ Crash
    PROVE  TypeOK'
<1>1. ASSUME NEW k \in Tickets, Post(k) PROVE TypeOK' BY <1>1 DEF Post, TypeOK
<1>2. ASSUME NEW active \in BOOLEAN, Put(active) PROVE TypeOK' BY <1>2 DEF Put, TypeOK, rest
<1>3. CASE Crash BY <1>3 DEF Crash, TypeOK
<1> QED BY <1>1, <1>2, <1>3

-----------------------------------------------------------------------------
(* What tasks work on *)

\* Only the task that moves can come to a step that needs a number, a ticket or a user.
LEMMA MovedKept ==
    ASSUME NumbersPositive, OnTickets, NEW t \in Tasks, Others(t),
           Numbered(t)' => task'[t].n > 0,
           (Closing(t) \/ Purging(t) \/ Sharing(t))' => task'[t].k \in Tickets,
           Sharing(t)' => task'[t].u \in Users
    PROVE  NumbersPositive' /\ OnTickets'
  BY DEF NumbersPositive, OnTickets, Others, Numbered, Opening, Closing, Purging, Sharing, Is

\* The types, with what they rest on: a number that goes back is positive, and what
\* a task works on is a ticket.
Types == TypeOK /\ NumbersPositive /\ OnTickets

\* A task that ends works on nothing.
LEMMA LeaveKept ==
    ASSUME Types, NEW t \in Tasks, Leave(t)
    PROVE  NumbersPositive' /\ OnTickets'
  BY LeaveTyped, MovedKept DEF Types, Numbered, Opening, Closing, Purging, Sharing, Is

\* A task that goes on keeps its number, its ticket and its user.
LEMMA GotoKept ==
    ASSUME Types, NEW t \in Tasks, NEW from, NEW at \in Steps, Is(t, from), Goto(t, at),
           at \in {"ready", "greet", "reply", "undo", "uncount"} =>
               from \in {"channel", "ready", "greet", "reply", "undo"},
           at \in {"collect", "store", "delete", "archive", "write", "revoke"} =>
               from \in {"lock", "collect", "delete", "grant", "write"},
           at \in {"write", "revoke"} => from \in {"grant", "write"},
           at \notin {"channel", "lock", "grant"}
    PROVE  NumbersPositive' /\ OnTickets'
<1>1. /\ Others(t) /\ task'[t] = [task[t] EXCEPT !.at = at] /\ task[t] \in Doing
  BY GotoTyped, TaskFields DEF Types
<1>2. task'[t].at = at /\ task'[t].k = task[t].k /\ task'[t].u = task[t].u /\ task'[t].n = task[t].n
  BY <1>1 DEF Doing
<1>3. task[t] # None /\ task[t].at = from BY DEF Is
<1> QED BY <1>1, <1>2, <1>3, MovedKept
        DEF Types, NumbersPositive, OnTickets, Numbered, Opening, Closing, Purging, Sharing, Is

\* A request that begins has its ticket and its user.
LEMMA BeginKept ==
    ASSUME Types, NEW t \in Tasks, NEW at \in Steps, NEW k \in Tickets \union {None}, NEW u \in Users \union {None},
           NEW seen \in SUBSET Users, NEW n \in Nat, NEW ok \in BOOLEAN, Become(t, Task(at, k, u, seen, n, ok)),
           at \in {"channel", "ready", "greet", "reply", "undo", "uncount"} => n > 0,
           at \in {"lock", "collect", "store", "delete", "archive", "grant", "write", "revoke"} => k \in Tickets,
           at \in {"grant", "write", "revoke"} => u \in Users
    PROVE  NumbersPositive' /\ OnTickets'
<1>1. Task(at, k, u, seen, n, ok) \in Doing BY TaskTyped
<1>2. task'[t] = Task(at, k, u, seen, n, ok) /\ Others(t) BY <1>1, BecomeTyped DEF Types
<1>3. task'[t].at = at /\ task'[t].k = k /\ task'[t].u = u /\ task'[t].n = n BY <1>2 DEF Task
<1> QED BY <1>2, <1>3, MovedKept DEF Types, Numbered, Opening, Closing, Purging, Sharing, Is

\* Every step of a task keeps what tasks work on.
LEMMA OpenKept ==
    ASSUME Types, NEW t \in Tasks, Open(t) \/ CreateInstance(t) \/ CreateChannel(t) \/ Ready(t) \/ Greet(t) \/ Reply(t)
                                    \/ OpenFails(t) \/ DeleteInstance(t) \/ Uncount(t)
    PROVE  NumbersPositive' /\ OnTickets'
<1>1. CASE Open(t)
  <2>1. Plain("create") \in Doing BY TaskTyped DEF Plain, Steps
  <2>2. task'[t] = Plain("create") /\ Others(t) BY <1>1, <2>1, BeginTyped DEF Open, Types
  <2>3. task'[t].at = "create" BY <2>2 DEF Plain, Task
  <2> QED BY <2>2, <2>3, MovedKept DEF Types, Numbered, Opening, Closing, Purging, Sharing, Is
<1>2. CASE CreateInstance(t)
  <2> DEFINE k == CHOOSE x \in Tickets : ticket[x].status = "NONE"
  <2>1. CASE Fence /\ \E x \in Tickets : ticket[x].status = "NONE"
    <3>1. k \in Tickets BY <2>1
    <3> HIDE DEF k
    <3>2. template.counter + 1 \in Nat /\ template.counter + 1 > 0 BY DEF Types, TypeOK
    <3>3. Become(t, Task("channel", k, None, {}, template.counter + 1, TRUE))
      BY <1>2, <2>1 DEF CreateInstance, k
    <3> QED BY <3>1, <3>2, <3>3, BeginKept DEF Steps
  <2>2. CASE ~(Fence /\ \E x \in Tickets : ticket[x].status = "NONE")
    BY <1>2, <2>2, LeaveKept DEF CreateInstance
  <2> QED BY <2>1, <2>2
<1>3. CASE CreateChannel(t)
  <2>1. Is(t, "channel") /\ Goto(t, "ready") BY <1>3 DEF CreateChannel
  <2> QED BY <2>1, GotoKept DEF Steps
<1>4. CASE Ready(t) BY <1>4, GotoKept DEF Ready, Steps
<1>4a. CASE Greet(t) BY <1>4a, GotoKept DEF Greet, Steps
<1>4b. CASE Reply(t) BY <1>4b, LeaveKept DEF Reply
<1>5. CASE OpenFails(t)
  <2>1. PICK from \in {"channel", "ready", "greet", "reply"} : Is(t, from) BY <1>5 DEF OpenFails
  <2> QED BY <1>5, <2>1, GotoKept DEF OpenFails, Steps
<1>6. CASE DeleteInstance(t) BY <1>6, GotoKept DEF DeleteInstance, Steps
<1>7. CASE Uncount(t) BY <1>7, LeaveKept DEF Uncount
<1> QED BY <1>1, <1>2, <1>3, <1>4, <1>4a, <1>4b, <1>5, <1>6, <1>7

\* The same for closes.
LEMMA CloseKept ==
    ASSUME Types, NEW t \in Tasks,
           (\E k \in Tickets : Close(t, k)) \/ Lock(t) \/ LockNothing(t) \/ Collect(t) \/ Store(t) \/ Answer(t) \/ DeleteChannel(t)
             \/ CloseFails(t)
    PROVE  NumbersPositive' /\ OnTickets'
<1>1. ASSUME NEW k \in Tickets, Close(t, k) PROVE NumbersPositive' /\ OnTickets'
  <2>1. Become(t, Task("lock", k, None, {}, 0, TRUE)) BY <1>1 DEF Close, Begin
  <2>2. "lock" \in Steps /\ {} \in SUBSET Users /\ 0 \in Nat /\ TRUE \in BOOLEAN BY DEF Steps
  <2> QED BY <2>1, <2>2, BeginKept
<1>2. CASE Lock(t) BY <1>2, GotoKept DEF Lock, Steps
<1>2a. CASE LockNothing(t) BY <1>2a, LeaveKept DEF LockNothing
<1>3. CASE Collect(t)
  <2>1. Others(t) BY <1>3 DEF Collect, Others, Types, TypeOK
  <2>2. task[t] \in Doing /\ task[t].k \in Tickets BY <1>3, TaskFields DEF Collect, Types, OnTickets, Closing
  <2>3. task'[t] = [task[t] EXCEPT !.at = "store", !.n = written[task[t].k]]
    BY <1>3 DEF Collect, Types, TypeOK
  <2>4. task'[t].at = "store" /\ task'[t].k = task[t].k BY <2>2, <2>3 DEF Doing
  <2> QED BY <2>1, <2>2, <2>4, MovedKept DEF Types, Numbered, Opening, Closing, Purging, Sharing, Is
<1>4. CASE Store(t) BY <1>4, GotoKept DEF Store, Steps
<1>4a. CASE Answer(t) BY <1>4a, GotoKept DEF Answer, Steps
<1>5. CASE DeleteChannel(t) BY <1>5, LeaveKept DEF DeleteChannel
<1>6. CASE CloseFails(t) BY <1>6, LeaveKept DEF CloseFails
<1> QED BY <1>1, <1>2, <1>2a, <1>3, <1>4, <1>4a, <1>5, <1>6

\* The same for the requests of the dashboard.
LEMMA TemplateKept ==
    ASSUME Types, NEW t \in Tasks,
           ResetCounter(t) \/ SetCounter(t) \/ Delete(t) \/ Off(t) \/ List(t) \/ Purged(t) \/ Recount(t)
             \/ Remove(t)
    PROVE  NumbersPositive' /\ OnTickets'
<1>1. CASE ResetCounter(t)
  <2>1. Plain("reset") \in Doing BY TaskTyped DEF Plain, Steps
  <2>2. task'[t] = Plain("reset") /\ Others(t) BY <1>1, <2>1, BeginTyped DEF ResetCounter, Types
  <2>3. task'[t].at = "reset" BY <2>2 DEF Plain, Task
  <2> QED BY <2>2, <2>3, MovedKept DEF Types, Numbered, Opening, Closing, Purging, Sharing, Is
<1>2. CASE SetCounter(t) BY <1>2, LeaveKept DEF SetCounter
<1>3. CASE Delete(t)
  <2>1. template.active \in BOOLEAN BY DEF Types, TypeOK
  <2> QED BY <1>3, <2>1, BeginKept DEF Delete, Steps
<1>4. CASE Off(t) BY <1>4, GotoKept DEF Off, Steps
<1>5. CASE List(t)
  <2>1. Others(t) /\ task[t] \in Doing BY <1>5, TaskFields DEF List, Others, Types, TypeOK
  <2>2. task'[t].at \in {"recount", "purge"} BY <1>5, <2>1 DEF List, Doing, Types, TypeOK
  <2> QED BY <2>1, <2>2, MovedKept DEF Types, Numbered, Opening, Closing, Purging, Sharing, Is
<1>6. CASE Purged(t) BY <1>6, LeaveKept, GotoKept DEF Purged, Steps
<1>7. CASE Recount(t) BY <1>7, LeaveKept, GotoKept DEF Recount, Steps
<1>8. CASE Remove(t) BY <1>8, LeaveKept DEF Remove
<1> QED BY <1>1, <1>2, <1>3, <1>4, <1>5, <1>6, <1>7, <1>8

\* The same for purges.
LEMMA PurgeKept ==
    ASSUME Types, NEW t \in Tasks, PurgeCollect(t) \/ PurgeDelete(t) \/ PurgeStore(t) \/ PurgeFails(t)
    PROVE  NumbersPositive' /\ OnTickets'
<1>1. CASE PurgeCollect(t)
  <2>1. PICK x \in task[t].todo, fetched \in BOOLEAN :
          task' = [task EXCEPT ![t].at = "delete", ![t].k = x[1],
                              ![t].n = IF fetched /\ Found(t, x[1]) THEN written[x[1]] ELSE 0]
    BY <1>1 DEF PurgeCollect
  <2>2. task[t] \in Doing /\ task[t].todo \subseteq Tickets \X BOOLEAN BY <1>1, TaskFields DEF PurgeCollect, Types
  <2>3. x[1] \in Tickets BY <2>1, <2>2
  <2>4. Others(t) BY <2>1 DEF Others, Types, TypeOK
  <2>5. task'[t].at = "delete" /\ task'[t].k = x[1] BY <2>1, <2>2 DEF Doing, Types, TypeOK
  <2> QED BY <2>3, <2>4, <2>5, MovedKept DEF Types, Numbered, Opening, Closing, Purging, Sharing, Is
<1>2. CASE PurgeDelete(t) BY <1>2, GotoKept DEF PurgeDelete, Steps
<1>3. CASE PurgeStore(t) \/ PurgeFails(t)
  <2>1. Is(t, "delete") \/ Is(t, "archive") BY <1>3 DEF PurgeStore, PurgeFails
  <2>2. task[t] \in Doing BY <2>1, TaskFields DEF Types, Is
  <2>3. Others(t) BY <1>3 DEF PurgeStore, PurgeFails, Others, Types, TypeOK
  <2>4. task'[t].at = "purge" BY <1>3, <2>2 DEF PurgeStore, PurgeFails, Doing, Types, TypeOK
  <2> QED BY <2>3, <2>4, MovedKept DEF Types, Numbered, Opening, Closing, Purging, Sharing, Is
<1> QED BY <1>1, <1>2, <1>3

\* The same for the users of a ticket.
LEMMA UsersKept ==
    ASSUME Types, NEW t \in Tasks,
           (\E k \in Tickets, u \in Users : AddUser(t, k, u) \/ RemoveUser(t, k, u)) \/ Grant(t) \/ WriteUsers(t)
             \/ Revoke(t)
    PROVE  NumbersPositive' /\ OnTickets'
<1>1. ASSUME NEW k \in Tickets, NEW u \in Users, AddUser(t, k, u) \/ RemoveUser(t, k, u)
      PROVE  NumbersPositive' /\ OnTickets'
  <2>1. ticket[k].users \in SUBSET Users BY DEF Types, TypeOK, Rows
  <2>2. PICK at \in {"grant", "write"}, ok \in BOOLEAN : Become(t, Task(at, k, u, ticket[k].users, 0, ok))
    BY <1>1 DEF AddUser, RemoveUser, Begin
  <2> QED BY <2>1, <2>2, BeginKept DEF Steps
<1>2. CASE Grant(t) BY <1>2, GotoKept DEF Grant, Steps
<1>3. CASE WriteUsers(t)
  <2>1. /\ Is(t, "write") /\ task[t] \in Doing
        /\ task[t].k \in Tickets /\ task[t].u \in Users
    BY <1>3, TaskFields DEF WriteUsers, Types, OnTickets, Sharing
  <2>2. CASE Leave(t) BY <2>2, LeaveKept
  <2>3. CASE Goto(t, "revoke") BY <2>1, <2>3, GotoKept DEF Steps
  <2>4. CASE task' = [task EXCEPT ![t].seen = ticket[task[t].k].users, ![t].n = @ + 1]
    <3>1. Others(t) BY <2>4 DEF Others, Types, TypeOK
    <3>2. task'[t].at = "write" /\ task'[t].k = task[t].k /\ task'[t].u = task[t].u
      BY <2>1, <2>4 DEF Is, Doing, Types, TypeOK
    <3> QED BY <2>1, <3>1, <3>2, MovedKept DEF Types, Numbered, Opening, Closing, Purging, Sharing, Is
  <2> QED BY <1>3, <2>2, <2>3, <2>4 DEF WriteUsers
<1>4. CASE Revoke(t) BY <1>4, LeaveKept DEF Revoke
<1> QED BY <1>1, <1>2, <1>3, <1>4

\* What no task does leaves the tasks alone, or ends them all.
LEMMA OutsideKept ==
    ASSUME Types, (\E k \in Tickets : Post(k)) \/ (\E active \in BOOLEAN : Put(active)) \/ Crash
    PROVE  NumbersPositive' /\ OnTickets'
<1>1. task' = task \/ \A t \in Tasks : task'[t] = None BY DEF Post, Put, Crash
<1> QED BY <1>1 DEF Types, NumbersPositive, OnTickets, Numbered, Opening, Closing, Purging, Sharing, Is

\* The steps of the system, as the lemmas group them.
LEMMA Grouped ==
    ASSUME Next
    PROVE  \/ \E t \in Tasks :
                \/ (Open(t) \/ CreateInstance(t) \/ CreateChannel(t) \/ Ready(t) \/ Greet(t) \/ Reply(t)
                       \/ OpenFails(t) \/ DeleteInstance(t) \/ Uncount(t))
                \/ ((\E k \in Tickets : Close(t, k)) \/ Lock(t) \/ LockNothing(t) \/ Collect(t) \/ Store(t) \/ Answer(t) \/ DeleteChannel(t)
                   \/ CloseFails(t))
                \/ (ResetCounter(t) \/ SetCounter(t) \/ Delete(t) \/ Off(t) \/ List(t) \/ Purged(t) \/ Recount(t)
                   \/ Remove(t))
                \/ (PurgeCollect(t) \/ PurgeDelete(t) \/ PurgeStore(t) \/ PurgeFails(t))
                \/ ((\E k \in Tickets, u \in Users : AddUser(t, k, u) \/ RemoveUser(t, k, u))
                       \/ Grant(t) \/ WriteUsers(t) \/ Revoke(t))
           \/ ((\E k \in Tickets : Post(k)) \/ (\E active \in BOOLEAN : Put(active)) \/ Crash)
  BY DEF Next

\* Every step keeps the types.
LEMMA TypesKept ==
    ASSUME Types, [Next]_vars
    PROVE  Types'
<1>1. CASE Next
  <2>1. ASSUME NEW t \in Tasks, Open(t) \/ CreateInstance(t) \/ CreateChannel(t) \/ Ready(t) \/ Greet(t) \/ Reply(t)
                                \/ OpenFails(t) \/ DeleteInstance(t) \/ Uncount(t)
        PROVE  Types'
    BY <2>1, OpenTyped, OpenKept DEF Types
  <2>2. ASSUME NEW t \in Tasks, (\E k \in Tickets : Close(t, k)) \/ Lock(t) \/ LockNothing(t) \/ Collect(t) \/ Store(t) \/ Answer(t)
                                \/ DeleteChannel(t) \/ CloseFails(t)
        PROVE  Types'
    BY <2>2, CloseTyped, CloseKept DEF Types
  <2>3. ASSUME NEW t \in Tasks, ResetCounter(t) \/ SetCounter(t) \/ Delete(t) \/ Off(t) \/ List(t)
                                \/ Purged(t) \/ Recount(t) \/ Remove(t)
        PROVE  Types'
    BY <2>3, TemplateTyped, TemplateKept DEF Types
  <2>4. ASSUME NEW t \in Tasks, PurgeCollect(t) \/ PurgeDelete(t) \/ PurgeStore(t) \/ PurgeFails(t)
        PROVE  Types'
    BY <2>4, PurgeTyped, PurgeKept DEF Types
  <2>5. ASSUME NEW t \in Tasks, (\E k \in Tickets, u \in Users : AddUser(t, k, u) \/ RemoveUser(t, k, u))
                                \/ Grant(t) \/ WriteUsers(t) \/ Revoke(t)
        PROVE  Types'
    BY <2>5, UsersTyped, UsersKept DEF Types
  <2>6. CASE (\E k \in Tickets : Post(k)) \/ (\E active \in BOOLEAN : Put(active)) \/ Crash
    BY <2>6, OutsideTyped, OutsideKept DEF Types
  <2> QED BY <1>1, <2>1, <2>2, <2>3, <2>4, <2>5, <2>6, Grouped
<1>2. CASE UNCHANGED vars
  BY <1>2 DEF vars, Types, TypeOK, NumbersPositive, OnTickets, Numbered, Opening, Closing, Purging, Sharing, Is
<1> QED BY <1>1, <1>2

\* At the start no task does anything.
LEMMA InitTypes == Init => Types
  BY InitTyped DEF Init, Types, NumbersPositive, OnTickets, Numbered, Opening, Closing, Purging, Sharing, Is

\* The types hold in every behaviour; that the counter of a template stays a natural
\* number rests on the comparison with which a failed opening takes its number back.
THEOREM TypeCorrect == Spec => []TypeOK
<1>1. Types => TypeOK BY DEF Types
<1> QED BY <1>1, InitTypes, TypesKept, PTL DEF Spec

-----------------------------------------------------------------------------
(* Numbers *)

\* A task that has no number, and resets nothing.
Idle(t) == ~Numbered(t) /\ ~Is(t, "reset")

\* A step that gives out or takes back no number.
SameRows == \A k \in Tickets :
    /\ Exists(k)' <=> Exists(k)
    /\ Kept(k)' <=> Kept(k)
    /\ ticket'[k].number = ticket[k].number
Calm ==
    /\ template'.counter = template.counter /\ SameRows
    /\ \A t \in Tasks :
          \/ task'[t] = task[t] \/ Idle(t)'
          \/ Opening(t) /\ Opening(t)' /\ task'[t].k = task[t].k /\ task'[t].n = task[t].n

\* A row is kept as long as its status and its history stay.
LEMMA RowKept ==
    ASSUME NEW l, ticket'[l].status = ticket[l].status, ticket'[l].undone <=> ticket[l].undone
    PROVE  (Exists(l)' <=> Exists(l)) /\ (Kept(l)' <=> Kept(l))
  BY DEF Kept, Exists

\* The numbers of rows and of openings under way after a step that gives out none.
LEMMA CalmKept == Types /\ Rules /\ Calm => Rules'
<1> SUFFICES ASSUME Types, Rules, Calm PROVE Rules'
  OBVIOUS
<1>1. NumbersCounted' /\ NumbersUnique'
  BY DEF Rules, Calm, SameRows, NumbersCounted, NumbersUnique
<1>2. \A t \in Tasks : Numbered(t)' =>
         /\ Numbered(t) /\ task'[t].n = task[t].n /\ task'[t].k = task[t].k
         /\ Opening(t)' => Opening(t)
         /\ Is(t, "uncount")' => Is(t, "uncount")
  BY DEF Calm, Idle, Numbered, Opening, Is
<1>3. TasksCounted' /\ TasksDiffer'
  BY <1>2 DEF Rules, Calm, TasksCounted, TasksDiffer
<1>4. OpeningOwns' BY <1>2 DEF Rules, Calm, SameRows, OpeningOwns, Numbered
<1>5. ReturnedFree' BY <1>2 DEF Rules, Calm, SameRows, ReturnedFree, Numbered
<1>6. NoReset' BY DEF Rules, Calm, Idle, NoReset, Is, Opening
<1> QED BY <1>1, <1>3, <1>4, <1>5, <1>6 DEF Rules

\* A task that ends, or goes on without a number, is calm.
LEMMA IdleCalm ==
    ASSUME NEW t \in Tasks, Others(t), Idle(t)', template'.counter = template.counter, SameRows
    PROVE  Calm
  BY DEF Calm, Others

\* A task that ends.
LEMMA LeaveIdle ==
    ASSUME Types, NEW t \in Tasks, Leave(t)
    PROVE  Others(t) /\ Idle(t)'
  BY LeaveTyped DEF Types, Idle, Numbered, Opening, Is

\* A task that goes on to a step without a number.
LEMMA GotoIdle ==
    ASSUME Types, NEW t \in Tasks, NEW from, NEW at \in Steps, Is(t, from), Goto(t, at),
           at \notin {"channel", "ready", "greet", "reply", "undo", "uncount", "reset"}
    PROVE  Others(t) /\ Idle(t)'
<1>1. /\ Others(t) /\ task'[t] = [task[t] EXCEPT !.at = at] /\ task[t] \in Doing
  BY GotoTyped, TaskFields DEF Types
<1>2. task'[t].at = at BY <1>1 DEF Doing
<1> QED BY <1>1, <1>2 DEF Idle, Numbered, Opening, Is

\* A request that begins without a number.
LEMMA BeginIdle ==
    ASSUME Types, NEW t \in Tasks, NEW new \in Doing, Become(t, new),
           new.at \notin {"channel", "ready", "greet", "reply", "undo", "uncount", "reset"}
    PROVE  Others(t) /\ Idle(t)'
  BY BecomeTyped DEF Types, Idle, Numbered, Opening, Is

\* Openings under way have rows of their own.
LEMMA OwnRows ==
    ASSUME Rules, NEW s \in Tasks, NEW t \in Tasks, Opening(s), Opening(t), task[s].k = task[t].k
    PROVE  s = t
  BY DEF Rules, OpeningOwns, TasksDiffer, Numbered

\* A new row and its opening have the number after the counter, which nobody has.
LEMMA CreateInstanceNumbers ==
    ASSUME Types, Rules, NEW t \in Tasks, CreateInstance(t)
    PROVE  Rules'
<1> PICK k : k = CHOOSE x \in Tickets : ticket[x].status = "NONE"
  OBVIOUS
<1> PICK number : number = template.counter + 1
  OBVIOUS
<1> DEFINE new == Task("channel", k, None, {}, number, TRUE)
           row == [NoTicket EXCEPT !.status = "OPEN", !.number = number, !.linked = TRUE]
<1>1. CASE ~(Fence /\ \E x \in Tickets : ticket[x].status = "NONE")
  <2>1. Others(t) /\ Idle(t)' BY <1>1, LeaveIdle DEF CreateInstance
  <2>2. template' = template /\ SameRows BY <1>1 DEF CreateInstance, SameRows, Kept, Exists
  <2> QED BY <2>1, <2>2, IdleCalm, CalmKept
<1>2. CASE Fence /\ \E x \in Tickets : ticket[x].status = "NONE"
  <2>1. k \in Tickets /\ ~Kept(k) BY <1>2 DEF Kept, Exists
  <2>2. template.counter \in Nat /\ number \in Nat /\ number = template.counter + 1 BY DEF Types, TypeOK
  <2>3. row.status = "OPEN" /\ row.number = number /\ ~row.undone BY DEF NoTicket
  <2>4. /\ ticket' = [ticket EXCEPT ![k] = row] /\ template'.counter = number /\ Become(t, new)
    BY <1>2 DEF CreateInstance, Types, TypeOK
  <2> HIDE DEF row
  <2>5. new \in Doing BY <2>1, <2>2, TaskTyped DEF Steps
  <2>6. task'[t] = new /\ Others(t) BY <2>4, <2>5, BecomeTyped DEF Types
  <2>7. task'[t].at = "channel" /\ task'[t].k = k /\ task'[t].n = number BY <2>6 DEF Task
  <2> HIDE DEF new
  <2>8. ticket'[k] = row /\ \A l \in Tickets : l # k => ticket'[l] = ticket[l]
    BY <2>1, <2>4 DEF Types, TypeOK
  <2>9. /\ ~Is(t, "uncount")' /\ ~Is(t, "reset")'
        /\ \A s \in Tasks : s # t => task'[s] = task[s]
    BY <2>6, <2>7 DEF Is, Others
  <2>10. Kept(k)' /\ \A l \in Tickets : l # k => (Kept(l)' <=> Kept(l))
    <3>1. ticket'[k].status = "OPEN" /\ ~ticket'[k].undone BY <2>3, <2>8
    <3>2. Kept(k)' BY <3>1 DEF Kept, Exists
    <3> QED BY <2>8, <3>2, RowKept
  <2>10a. ticket'[k].number = number BY <2>3, <2>8
  <2>10b. \A l \in Tickets : l # k /\ Kept(l)' =>
             ticket'[l].number = ticket[l].number /\ ticket'[l].number \in 1..template.counter
    BY <2>8, <2>10 DEF Rules, NumbersCounted
  <2>11. NumbersCounted'
    <3> SUFFICES ASSUME NEW l \in Tickets, Kept(l)' PROVE ticket'[l].number \in 1..template'.counter
      BY DEF NumbersCounted
    <3>1. number \in 1..number /\ 1..template.counter \subseteq 1..number BY <2>2
    <3>2. CASE l = k BY <2>4, <2>10a, <3>1, <3>2
    <3>3. CASE l # k BY <2>4, <2>10b, <3>1, <3>3
    <3> QED BY <3>2, <3>3
  <2>12. NumbersUnique'
    <3> SUFFICES ASSUME NEW l \in Tickets, NEW j \in Tickets, Kept(l)', Kept(j)', ticket'[l].number = ticket'[j].number
                 PROVE  l = j
      BY DEF NumbersUnique
    <3>1. CASE l # k /\ j # k BY <2>10, <2>10b, <3>1 DEF Rules, NumbersUnique
    <3>2. CASE l = k /\ j # k
      <4>1. ticket'[j].number \in 1..template.counter BY <2>10b, <3>2
      <4>2. ticket'[j].number = number BY <2>10a, <3>2
      <4>3. number \notin 1..template.counter BY <2>2
      <4> QED BY <4>1, <4>2, <4>3
    <3>3. CASE j = k /\ l # k
      <4>1. ticket'[l].number \in 1..template.counter BY <2>10b, <3>3
      <4>2. ticket'[l].number = number BY <2>10a, <3>3
      <4>3. number \notin 1..template.counter BY <2>2
      <4> QED BY <4>1, <4>2, <4>3
    <3> QED BY <3>1, <3>2, <3>3
  <2>13. TasksCounted' BY <2>2, <2>4, <2>7, <2>9 DEF Rules, TasksCounted, Numbered, Opening, Is
  <2>14. TasksDiffer' BY <2>2, <2>7, <2>9 DEF Rules, TasksCounted, TasksDiffer, Numbered, Opening, Is
  <2>15. OpeningOwns'
    <3> SUFFICES ASSUME NEW s \in Tasks, Opening(s)', NEW l, l = task'[s].k
                 PROVE  l \in Tickets /\ Kept(l)' /\ ticket'[l].number = task'[s].n
      BY DEF OpeningOwns
    <3>1. CASE s = t
      <4>1. l = k BY <2>7, <3>1
      <4> QED BY <2>1, <2>3, <2>7, <2>8, <2>10, <3>1, <4>1
    <3>2. CASE s # t BY <2>1, <2>8, <2>9, <2>10, <3>2 DEF Rules, OpeningOwns, Opening, Is
    <3> QED BY <3>1, <3>2
  <2>16. ReturnedFree'
    <3> SUFFICES ASSUME NEW s \in Tasks, Is(s, "uncount")', NEW l \in Tickets, Kept(l)'
                 PROVE  ticket'[l].number # task'[s].n
      BY DEF ReturnedFree
    <3>1. s # t /\ task'[s] = task[s] /\ Is(s, "uncount") BY <2>9 DEF Is
    <3>2. task[s].n \in 1..template.counter BY <3>1 DEF Rules, TasksCounted, Numbered
    <3>3. CASE l = k
      <4>1. number \notin 1..template.counter BY <2>2
      <4> QED BY <2>10a, <3>1, <3>2, <3>3, <4>1
    <3>4. CASE l # k BY <2>10, <2>10b, <3>1, <3>4 DEF Rules, ReturnedFree
    <3> QED BY <3>3, <3>4
  <2>17. NoReset' BY <2>9 DEF Rules, NoReset, Is
  <2> QED BY <2>11, <2>12, <2>13, <2>14, <2>15, <2>16, <2>17 DEF Rules
<1> QED BY <1>1, <1>2

\* An opening that goes on has the number and the row it had.
LEMMA OpeningCalm ==
    ASSUME Types, Rules, NEW t \in Tasks, CreateChannel(t) \/ Ready(t) \/ Greet(t) \/ OpenFails(t)
    PROVE  Rules'
<1>1. PICK at \in {"ready", "greet", "reply", "undo"} : Goto(t, at) BY DEF CreateChannel, Ready, Greet, OpenFails
<1>2. PICK from \in {"channel", "ready", "greet", "reply"} : Is(t, from)
  BY DEF CreateChannel, Ready, Greet, OpenFails
<1>3. /\ Others(t) /\ task'[t] = [task[t] EXCEPT !.at = at] /\ task[t] \in Doing
  BY <1>1, <1>2, GotoTyped, TaskFields DEF Types, Steps
<1>4. task'[t].at = at /\ task'[t].k = task[t].k /\ task'[t].n = task[t].n
  BY <1>1, <1>2, <1>3 DEF Doing
<1>5. Opening(t) /\ (Opening(t)' \/ Idle(t)')
  BY <1>2, <1>4 DEF Opening, Idle, Numbered, Is
<1>6. template' = template BY DEF CreateChannel, Ready, Greet, OpenFails
<1>7. SameRows
  <2>1. CASE Ready(t)
    <3> DEFINE Set(r) == [r EXCEPT !.known = TRUE]
    <3>1. \A r \in Rows : Set(r).status = r.status /\ Set(r).number = r.number /\ (Set(r).undone <=> r.undone)
      BY DEF Rows
    <3>2. \A l \in Tickets : ticket[l] \in Rows /\ ticket'[l] \in {ticket[l], Set(ticket[l])}
      BY <2>1 DEF Ready, Types, TypeOK
    <3> HIDE DEF Set
    <3>3. \A l \in Tickets : /\ ticket'[l].status = ticket[l].status /\ ticket'[l].number = ticket[l].number
                             /\ ticket'[l].undone <=> ticket[l].undone
      BY <3>1, <3>2
    <3> QED BY <3>3, RowKept DEF SameRows
  <2>2. CASE ~Ready(t) BY <2>2 DEF CreateChannel, Greet, OpenFails, SameRows, Kept, Exists
  <2> QED BY <2>1, <2>2
<1>8. Calm BY <1>3, <1>4, <1>5, <1>6, <1>7 DEF Calm, Others
<1> QED BY <1>8, CalmKept

\* An opening that failed deletes its row: its number is no kept row's.  If it cannot, its
\* row is not kept any more.
LEMMA DeleteInstanceNumbers ==
    ASSUME Types, Rules, NEW t \in Tasks, DeleteInstance(t)
    PROVE  Rules'
<1> PICK k : k = task[t].k
  OBVIOUS
<1>1. Opening(t) /\ k \in Tickets /\ Kept(k) /\ ticket[k].number = task[t].n
  BY DEF DeleteInstance, Opening, Rules, OpeningOwns
<1>2. "uncount" \in Steps BY DEF Steps
<1>3. /\ Others(t) /\ task'[t] = [task[t] EXCEPT !.at = "uncount"] /\ task[t] \in Doing
  BY <1>2, GotoTyped, TaskFields DEF DeleteInstance, Types
<1>4. task'[t].at = "uncount" /\ task'[t].k = k /\ task'[t].n = task[t].n
  BY <1>3 DEF Doing
<1>5. template' = template BY DEF DeleteInstance
<1>6. ~Kept(k)' /\ \A l \in Tickets : l # k => ticket'[l] = ticket[l]
  <2>1. CASE ticket' = [ticket EXCEPT ![k] = [NoTicket EXCEPT !.status = "GONE"]]
    <3>1. ticket'[k] = [NoTicket EXCEPT !.status = "GONE"] BY <1>1, <2>1 DEF Types, TypeOK
    <3>2. ticket'[k].status = "GONE" BY <3>1 DEF NoTicket
    <3> QED BY <2>1, <3>2 DEF Kept, Exists, Types, TypeOK
  <2>2. CASE ticket' = Undone(k)
    <3>1. ticket[k] \in Rows /\ ticket'[k] = [ticket[k] EXCEPT !.undone = TRUE]
      BY <1>1, <2>2 DEF Undone, Types, TypeOK
    <3>2. ticket'[k].undone = TRUE BY <3>1 DEF Rows
    <3> QED BY <2>2, <3>2 DEF Undone, Kept, Types, TypeOK
  <2> QED BY <2>1, <2>2 DEF DeleteInstance
<1>7. \A l \in Tickets : Kept(l)' => l # k /\ Kept(l) /\ ticket'[l] = ticket[l]
  BY <1>6 DEF Kept, Exists
<1>8. \A s \in Tasks : s # t => task'[s] = task[s] BY <1>3 DEF Others
<1>9. ~Opening(t)' /\ ~Is(t, "reset")' BY <1>4 DEF Opening, Is
<1>10. NumbersCounted' /\ NumbersUnique'
  BY <1>5, <1>7 DEF Rules, NumbersCounted, NumbersUnique
<1>11. \A s \in Tasks : Numbered(s)' => Numbered(s) /\ task'[s].n = task[s].n
  BY <1>1, <1>4, <1>8 DEF Numbered, Opening, Is
<1>12. TasksCounted' /\ TasksDiffer' BY <1>5, <1>11 DEF Rules, TasksCounted, TasksDiffer
<1>13. OpeningOwns'
  <2> SUFFICES ASSUME NEW s \in Tasks, Opening(s)', NEW l, l = task'[s].k
               PROVE  l \in Tickets /\ Kept(l)' /\ ticket'[l].number = task'[s].n
    BY DEF OpeningOwns
  <2>1. s # t /\ task'[s] = task[s] /\ Opening(s) BY <1>8, <1>9 DEF Opening, Is
  <2>2. l # k BY <1>1, <2>1, OwnRows
  <2> QED BY <1>6, <2>1, <2>2 DEF Rules, OpeningOwns, Kept, Exists
<1>14. ReturnedFree'
  <2> SUFFICES ASSUME NEW s \in Tasks, Is(s, "uncount")', NEW l \in Tickets, Kept(l)'
               PROVE  ticket'[l].number # task'[s].n
    BY DEF ReturnedFree
  <2>1. l # k /\ Kept(l) /\ ticket'[l] = ticket[l] BY <1>7
  <2>2. CASE s = t BY <1>1, <1>4, <2>1, <2>2 DEF Rules, NumbersUnique
  <2>3. CASE s # t BY <1>8, <2>1, <2>3 DEF Rules, ReturnedFree, Is
  <2> QED BY <2>2, <2>3
<1>15. NoReset' BY <1>8, <1>9 DEF Rules, NoReset, Is
<1> QED BY <1>10, <1>12, <1>13, <1>14, <1>15 DEF Rules

\* The counter takes back the last number only, which no row and no other opening has.
LEMMA UncountNumbers ==
    ASSUME Types, Rules, NEW t \in Tasks, Uncount(t)
    PROVE  Rules'
<1>1. Others(t) /\ Idle(t)' BY LeaveIdle DEF Uncount
<1>2. ticket' = ticket /\ SameRows BY DEF Uncount, SameRows, Kept, Exists
<1>3. CASE template'.counter = template.counter BY <1>1, <1>2, <1>3, IdleCalm, CalmKept
<1>4. CASE template'.counter # template.counter
  <2>1. /\ template.counter = task[t].n /\ template'.counter = task[t].n - 1
    BY <1>4 DEF Uncount, Uncounted, Types, TypeOK
  <2>2. task[t].n \in Nat /\ task[t].n > 0 /\ Numbered(t)
    BY TaskFields DEF Uncount, Types, NumbersPositive, Numbered
  <2>3. \A s \in Tasks : s # t => task'[s] = task[s] BY <1>1 DEF Others
  <2>4. \A s \in Tasks : Numbered(s)' \/ Is(s, "reset")' => s # t BY <1>1 DEF Idle
  <2>5. \A k \in Tickets : (Kept(k)' <=> Kept(k)) /\ ticket'[k] = ticket[k] BY <1>2 DEF Kept, Exists
  <2>6. NumbersCounted'
    <3> SUFFICES ASSUME NEW k \in Tickets, Kept(k)' PROVE ticket'[k].number \in 1..template'.counter
      BY DEF NumbersCounted
    <3>1. Kept(k) /\ ticket'[k] = ticket[k] BY <2>5
    <3>2. ticket[k].number \in 1..template.counter BY <3>1 DEF Rules, NumbersCounted
    <3>3. ticket[k].number # task[t].n BY <3>1 DEF Uncount, Rules, ReturnedFree
    <3> QED BY <2>1, <2>2, <3>1, <3>2, <3>3
  <2>7. TasksCounted'
    <3> SUFFICES ASSUME NEW s \in Tasks, Numbered(s)' PROVE task'[s].n \in 1..template'.counter
      BY DEF TasksCounted
    <3>1. s # t /\ task'[s] = task[s] /\ Numbered(s) BY <2>3, <2>4 DEF Numbered, Opening, Is
    <3>2. task[s].n \in 1..template.counter BY <3>1 DEF Rules, TasksCounted
    <3>3. task[s].n # task[t].n BY <2>2, <3>1 DEF Rules, TasksDiffer
    <3> QED BY <2>1, <2>2, <3>1, <3>2, <3>3
  <2>8. NumbersUnique' /\ TasksDiffer'
    BY <2>3, <2>4, <2>5 DEF Rules, NumbersUnique, TasksDiffer, Numbered, Opening, Is
  <2>9. OpeningOwns' /\ ReturnedFree'
    BY <2>3, <2>4, <2>5 DEF Rules, OpeningOwns, ReturnedFree, Numbered, Opening, Is
  <2>10. NoReset' BY <2>3, <2>4 DEF Rules, NoReset, Is
  <2> QED BY <2>6, <2>7, <2>8, <2>9, <2>10 DEF Rules
<1> QED BY <1>3, <1>4

\* Closing an existing row does not change its number.
LEMMA ClosedRows ==
    ASSUME Types, NEW k \in Tickets, Exists(k), NEW text, Closed(k, text)
    PROVE  SameRows
<1> DEFINE Shut(r) == [r EXCEPT !.status = "CLOSED", !.text = text]
<1>1. \A r \in Rows : Shut(r).status = "CLOSED" /\ Shut(r).number = r.number /\ (Shut(r).undone <=> r.undone)
  BY DEF Rows
<1>2. ticket[k] \in Rows BY DEF Types, TypeOK
<1>3. ticket'[k] = Shut(ticket[k]) /\ \A l \in Tickets : l # k => ticket'[l] = ticket[l]
  BY DEF Closed, Types, TypeOK
<1> HIDE DEF Shut
<1>4. ticket'[k].status = "CLOSED" /\ ticket'[k].number = ticket[k].number /\ (ticket'[k].undone <=> ticket[k].undone)
  BY <1>1, <1>2, <1>3
<1> QED BY <1>3, <1>4 DEF SameRows, Kept, Exists

\* A close changes no number, and updates no row that is gone.
LEMMA CloseNumbers ==
    ASSUME Types, Rules, NEW t \in Tasks,
           (\E k \in Tickets : Close(t, k)) \/ Lock(t) \/ LockNothing(t) \/ Collect(t) \/ Store(t) \/ Answer(t)
             \/ DeleteChannel(t) \/ CloseFails(t)
    PROVE  Rules'
<1>1. template' = template
  BY DEF Close, Lock, LockNothing, Collect, Store, Answer, DeleteChannel, CloseFails, rest
<1>2. SameRows
  <2>1. CASE (LockNothing(t) \/ Store(t)) /\ ticket' # ticket
    <3>1. task[t].k \in Tickets /\ Exists(task[t].k)
      BY <2>1 DEF LockNothing, Store, Types, OnTickets, Closing
    <3>2. PICK text : Closed(task[t].k, text) BY <2>1 DEF LockNothing, Store
    <3> QED BY <3>1, <3>2, ClosedRows
  <2>2. CASE ~((LockNothing(t) \/ Store(t)) /\ ticket' # ticket)
    <3>1. ticket' = ticket BY <2>2 DEF Close, Lock, Collect, Answer, DeleteChannel, CloseFails
    <3> QED BY <3>1 DEF SameRows, Kept, Exists
  <2> QED BY <2>1, <2>2
<1>3. Others(t) /\ Idle(t)'
  <2>1. ASSUME NEW k \in Tickets, Close(t, k) PROVE Others(t) /\ Idle(t)'
    <3>1. Task("lock", k, None, {}, 0, TRUE) \in Doing /\ Task("lock", k, None, {}, 0, TRUE).at = "lock"
      BY TaskTyped DEF Steps, Task
    <3> QED BY <2>1, <3>1, BeginIdle DEF Close, Begin
  <2>2. ASSUME Leave(t) PROVE Others(t) /\ Idle(t)' BY <2>2, LeaveIdle
  <2>3. CASE Lock(t) BY <2>3, GotoIdle DEF Lock, Steps
  <2>4. CASE Collect(t)
    <3>1. Others(t) /\ task[t] \in Doing BY <2>4, TaskFields DEF Collect, Others, Types, TypeOK
    <3>2. task'[t].at = "store" BY <2>4, <3>1 DEF Collect, Doing, Types, TypeOK
    <3> QED BY <3>1, <3>2 DEF Idle, Numbered, Opening, Is
  <2>5. CASE Store(t) BY <2>5, GotoIdle DEF Store, Steps
  <2>6. CASE Answer(t) BY <2>6, GotoIdle DEF Answer, Steps
  <2>7. CASE LockNothing(t) \/ DeleteChannel(t) \/ CloseFails(t)
    BY <2>2, <2>7 DEF LockNothing, DeleteChannel, CloseFails
  <2> QED BY <2>1, <2>3, <2>4, <2>5, <2>6, <2>7
<1>4. Calm BY <1>1, <1>2, <1>3, IdleCalm
<1> QED BY <1>4, CalmKept

\* What the dashboard does to a template leaves the numbers alone, when it resets none.
LEMMA TemplateNumbers ==
    ASSUME Types, Rules, ~Resets, NEW t \in Tasks,
           ResetCounter(t) \/ SetCounter(t) \/ Delete(t) \/ Off(t) \/ List(t) \/ Purged(t) \/ Recount(t)
             \/ Remove(t)
    PROVE  Rules'
<1>1. ~ResetCounter(t) /\ ~SetCounter(t) BY DEF ResetCounter, SetCounter, Rules, NoReset
<1>2. template'.counter = template.counter
  BY <1>1 DEF Delete, Off, List, Purged, Recount, Remove, Restored, Types, TypeOK
<1>3. SameRows
  <2>1. CASE Remove(t)
    <3> DEFINE Set(r) == [r EXCEPT !.linked = FALSE]
    <3>1. \A r \in Rows : Set(r).status = r.status /\ Set(r).number = r.number /\ (Set(r).undone <=> r.undone)
      BY DEF Rows
    <3>2. \A k \in Tickets : ticket[k] \in Rows /\ ticket'[k] = Set(ticket[k])
      BY <2>1 DEF Remove, Types, TypeOK
    <3> HIDE DEF Set
    <3>3. \A l \in Tickets : /\ ticket'[l].status = ticket[l].status /\ ticket'[l].number = ticket[l].number
                             /\ ticket'[l].undone <=> ticket[l].undone
      BY <3>1, <3>2
    <3> QED BY <3>3, RowKept DEF SameRows
  <2>2. CASE ~Remove(t)
    <3>1. ticket' = ticket BY <1>1, <2>2 DEF Delete, Off, List, Purged, Recount
    <3> QED BY <3>1 DEF SameRows, Kept, Exists
  <2> QED BY <2>1, <2>2
<1>4. Others(t) /\ Idle(t)'
  <2>1. ASSUME Leave(t) PROVE Others(t) /\ Idle(t)' BY <2>1, LeaveIdle
  <2>2. CASE Delete(t)
    <3> DEFINE new == Task("off", None, None, {}, 0, template.active)
    <3>1. new \in Doing /\ new.at = "off" BY TaskTyped DEF Task, Steps, Types, TypeOK
    <3>2. Become(t, new) BY <2>2 DEF Delete
    <3> QED BY <3>1, <3>2, BeginIdle
  <2>3. CASE Off(t) BY <2>3, GotoIdle DEF Off, Steps
  <2>4. CASE List(t)
    <3>1. Others(t) /\ task[t] \in Doing BY <2>4, TaskFields DEF List, Others, Types, TypeOK
    <3>2. task'[t].at \in {"recount", "purge"} BY <2>4, <3>1 DEF List, Doing, Types, TypeOK
    <3> QED BY <3>1, <3>2 DEF Idle, Numbered, Opening, Is
  <2>5. CASE Purged(t) BY <2>1, <2>5, GotoIdle DEF Purged, Steps
  <2>6. CASE Recount(t) BY <2>1, <2>6, GotoIdle DEF Recount, Steps
  <2>7. CASE Remove(t) BY <2>1, <2>7 DEF Remove
  <2> QED BY <1>1, <2>2, <2>3, <2>4, <2>5, <2>6, <2>7
<1>5. Calm BY <1>2, <1>3, <1>4, IdleCalm
<1> QED BY <1>5, CalmKept

\* A purge closes rows that are there.
LEMMA PurgeNumbers ==
    ASSUME Types, Rules, NEW t \in Tasks, PurgeCollect(t) \/ PurgeDelete(t) \/ PurgeStore(t) \/ PurgeFails(t)
    PROVE  Rules'
<1>1. template' = template BY DEF PurgeCollect, PurgeDelete, PurgeStore, PurgeFails
<1>2. SameRows
  <2>1. CASE PurgeStore(t)
    <3> PICK k : k = task[t].k
      OBVIOUS
    <3>1. k \in Tickets BY <2>1 DEF PurgeStore, Types, OnTickets, Purging
    <3>2. Exists(k) /\ Closed(k, task[t].n) BY <2>1 DEF PurgeStore
    <3> QED BY <3>1, <3>2, ClosedRows
  <2>2. CASE ~PurgeStore(t)
    <3>1. ticket' = ticket BY <2>2 DEF PurgeCollect, PurgeDelete, PurgeFails
    <3> QED BY <3>1 DEF SameRows, Kept, Exists
  <2> QED BY <2>1, <2>2
<1>3. Others(t) /\ Idle(t)'
  <2>1. Others(t) BY DEF PurgeCollect, PurgeDelete, PurgeStore, PurgeFails, Goto, Others, Types, TypeOK
  <2>2. task[t] \in Doing BY TaskFields DEF PurgeCollect, PurgeDelete, PurgeStore, PurgeFails, Types
  <2>3. task'[t].at \in {"delete", "archive", "purge"}
    <3>1. CASE PurgeCollect(t)
      <4>1. PICK k, n : task' = [task EXCEPT ![t].at = "delete", ![t].k = k, ![t].n = n] BY <3>1 DEF PurgeCollect
      <4> QED BY <2>2, <4>1 DEF Doing, Types, TypeOK
    <3>2. CASE PurgeDelete(t) BY <2>2, <3>2 DEF PurgeDelete, Goto, Doing, Types, TypeOK
    <3>3. CASE PurgeStore(t) BY <2>2, <3>3 DEF PurgeStore, Doing, Types, TypeOK
    <3>4. CASE PurgeFails(t) BY <2>2, <3>4 DEF PurgeFails, Doing, Types, TypeOK
    <3> QED BY <3>1, <3>2, <3>3, <3>4
  <2> QED BY <2>1, <2>3 DEF Idle, Numbered, Opening, Is
<1>4. Calm BY <1>1, <1>2, <1>3, IdleCalm
<1> QED BY <1>4, CalmKept

\* A change of users is no change of numbers.
LEMMA UsersNumbers ==
    ASSUME Types, Rules, NEW t \in Tasks,
           (\E k \in Tickets, u \in Users : AddUser(t, k, u) \/ RemoveUser(t, k, u)) \/ Grant(t) \/ WriteUsers(t)
             \/ Revoke(t)
    PROVE  Rules'
<1>1. template' = template BY DEF AddUser, RemoveUser, Grant, WriteUsers, Revoke
<1>2. SameRows
  <2>1. CASE WriteUsers(t) /\ ticket' # ticket
    <3> PICK k : k = task[t].k
      OBVIOUS
    <3>1. PICK us : ticket' = [ticket EXCEPT ![k].users = us] BY <2>1 DEF WriteUsers
    <3> DEFINE Set(r) == [r EXCEPT !.users = us]
    <3>2. \A r \in Rows : Set(r).status = r.status /\ Set(r).number = r.number /\ (Set(r).undone <=> r.undone)
      BY DEF Rows
    <3>3. \A l \in Tickets : ticket[l] \in Rows /\ ticket'[l] \in {ticket[l], Set(ticket[l])}
      BY <3>1 DEF Types, TypeOK
    <3> HIDE DEF Set
    <3>4. \A l \in Tickets : /\ ticket'[l].status = ticket[l].status /\ ticket'[l].number = ticket[l].number
                             /\ ticket'[l].undone <=> ticket[l].undone
      BY <3>2, <3>3
    <3> QED BY <3>4, RowKept DEF SameRows
  <2>2. CASE ~(WriteUsers(t) /\ ticket' # ticket)
    <3>1. ticket' = ticket BY <2>2 DEF AddUser, RemoveUser, Grant, Revoke
    <3> QED BY <3>1 DEF SameRows, Kept, Exists
  <2> QED BY <2>1, <2>2
<1>3. Others(t) /\ Idle(t)'
  <2>1. ASSUME NEW k \in Tickets, NEW u \in Users, AddUser(t, k, u) \/ RemoveUser(t, k, u)
        PROVE  Others(t) /\ Idle(t)'
    <3>1. PICK at \in {"grant", "write"}, ok \in BOOLEAN : Become(t, Task(at, k, u, ticket[k].users, 0, ok))
      BY <2>1 DEF AddUser, RemoveUser, Begin
    <3>2. ticket[k].users \in SUBSET Users BY DEF Types, TypeOK, Rows
    <3>3. Task(at, k, u, ticket[k].users, 0, ok) \in Doing BY <3>2, TaskTyped DEF Steps
    <3>4. Task(at, k, u, ticket[k].users, 0, ok).at = at BY DEF Task
    <3> QED BY <3>1, <3>3, <3>4, BeginIdle
  <2>2. ASSUME Leave(t) PROVE Others(t) /\ Idle(t)' BY <2>2, LeaveIdle
  <2>3. CASE Grant(t) BY <2>3, GotoIdle DEF Grant, Steps
  <2>4. CASE WriteUsers(t)
    <3>1. Is(t, "write") /\ task[t] \in Doing BY <2>4, TaskFields DEF WriteUsers, Types
    <3>2. CASE Goto(t, "revoke") BY <3>1, <3>2, GotoIdle DEF Steps
    <3>3. CASE task' = [task EXCEPT ![t].seen = ticket[task[t].k].users, ![t].n = @ + 1]
      <4>1. Others(t) BY <3>3 DEF Others, Types, TypeOK
      <4>2. task'[t].at = "write" BY <3>1, <3>3 DEF Is, Doing, Types, TypeOK
      <4> QED BY <4>1, <4>2 DEF Idle, Numbered, Opening, Is
    <3> QED BY <2>2, <2>4, <3>2, <3>3 DEF WriteUsers
  <2>5. CASE Revoke(t) BY <2>2, <2>5 DEF Revoke
  <2> QED BY <2>1, <2>3, <2>4, <2>5
<1>4. Calm BY <1>1, <1>2, <1>3, IdleCalm
<1> QED BY <1>4, CalmKept

\* What no task does, and a step that changes nothing.
LEMMA OutsideNumbers ==
    ASSUME Types, Rules,
           (\E k \in Tickets : Post(k)) \/ (\E active \in BOOLEAN : Put(active)) \/ Crash \/ UNCHANGED vars
    PROVE  Rules'
<1>1. template'.counter = template.counter BY DEF Post, Put, Crash, vars, Types, TypeOK
<1>2. SameRows BY DEF Post, Put, Crash, vars, SameRows, Kept, Exists
<1>3. task' = task \/ \A t \in Tasks : task'[t] = None BY DEF Post, Put, Crash, vars
<1>4. \A t \in Tasks : task'[t] = task[t] \/ Idle(t)' BY <1>3 DEF Idle, Numbered, Opening, Is
<1>5. Calm BY <1>1, <1>2, <1>4 DEF Calm
<1> QED BY <1>5, CalmKept

\* Every step keeps the rules of the numbers, when no counter is reset.
LEMMA RulesKept ==
    ASSUME ~Resets, Types, Rules, [Next]_vars
    PROVE  Rules'
<1>1. CASE Next
  <2>1. ASSUME NEW t \in Tasks, Open(t) PROVE Rules'
    <3>1. Plain("create") \in Doing BY TaskTyped DEF Plain, Steps
    <3>2. Plain("create").at = "create" BY DEF Plain, Task
    <3>3. Others(t) /\ Idle(t)' BY <2>1, <3>1, <3>2, BeginIdle DEF Open, Begin
    <3>4. template' = template /\ SameRows BY <2>1 DEF Open, SameRows, Kept, Exists
    <3> QED BY <3>3, <3>4, IdleCalm, CalmKept
  <2>2. ASSUME NEW t \in Tasks, CreateInstance(t) \/ CreateChannel(t) \/ Ready(t) \/ Greet(t) \/ Reply(t)
                                \/ OpenFails(t) \/ DeleteInstance(t) \/ Uncount(t)
        PROVE  Rules'
    <3>1. CASE Reply(t)
      <4>1. Others(t) /\ Idle(t)' BY <3>1, LeaveIdle DEF Reply
      <4>2. template' = template /\ SameRows BY <3>1 DEF Reply, SameRows, Kept, Exists
      <4> QED BY <4>1, <4>2, IdleCalm, CalmKept
    <3> QED BY <2>2, <3>1, CreateInstanceNumbers, OpeningCalm, DeleteInstanceNumbers, UncountNumbers
  <2> QED BY <1>1, <2>1, <2>2, Grouped, CloseNumbers, TemplateNumbers, PurgeNumbers, UsersNumbers, OutsideNumbers
<1>2. CASE UNCHANGED vars BY <1>2, OutsideNumbers
<1> QED BY <1>1, <1>2

\* At the start there are no rows and no openings.
LEMMA InitRules == Init => Rules
  BY DEF Init, NoTicket, Rules, NumbersCounted, NumbersUnique, TasksCounted, TasksDiffer, OpeningOwns,
         ReturnedFree, NoReset, Kept, Exists, Numbered, Opening, Is

\* openTicketLocked: without a reset of the counter the tickets of a template have
\* different numbers, however many are opened at once, fail or lose their process; but for
\* a row whose opening failed and that could not be deleted.
THEOREM NumbersUniqueHolds ==
    ASSUME ~Resets
    PROVE  Spec => []NumbersUnique
<1>1. Init => Types /\ Rules BY InitTypes, InitRules
<1>2. Types /\ Rules /\ [Next]_vars => (Types /\ Rules)' BY TypesKept, RulesKept
<1>3. Types /\ Rules => NumbersUnique BY DEF Rules
<1> QED BY <1>1, <1>2, <1>3, PTL DEF Spec

-----------------------------------------------------------------------------
(* Users of a ticket *)

\* A row not yet given out has no users, and nobody changes them.
Unborn == \A k \in Tickets : ticket[k].status = "NONE" => ticket[k].users = {}
Begun  == \A t \in Tasks : Sharing(t) => ticket[task[t].k].status # "NONE"

\* What a step does to the users of the rows: nothing, or one list is written.
UsersStay == \A k \in Tickets :
    /\ ticket'[k].users = ticket[k].users \/ ticket'[k].users = {}
    /\ ticket'[k].users # ticket[k].users => ticket'[k].status = "GONE" \/ ticket[k].status = "NONE"
    /\ ticket'[k].status = "NONE" => ticket[k].status = "NONE"

\* Nothing changes in the rows but their status, text and bits.
LEMMA RowKeepsUsers ==
    ASSUME NEW r \in Rows
    PROVE  /\ [r EXCEPT !.known = TRUE].users = r.users /\ [r EXCEPT !.known = TRUE].status = r.status
           /\ [r EXCEPT !.linked = FALSE].users = r.users /\ [r EXCEPT !.linked = FALSE].status = r.status
           /\ [r EXCEPT !.undone = TRUE].users = r.users /\ [r EXCEPT !.undone = TRUE].status = r.status
           /\ \A text : /\ [r EXCEPT !.status = "CLOSED", !.text = text].users = r.users
                       /\ [r EXCEPT !.status = "CLOSED", !.text = text].status = "CLOSED"
  BY DEF Rows

\* Every step but WriteUsers leaves the users of the rows that stay.
LEMMA UsersStayed ==
    ASSUME Types, [Next]_vars, \A t \in Tasks : ~WriteUsers(t)
    PROVE  UsersStay
<1> \A k \in Tickets : ticket[k] \in Rows BY DEF Types, TypeOK
<1>1. ASSUME ticket' = ticket PROVE UsersStay BY <1>1 DEF UsersStay
<1>2. ASSUME NEW k \in Tickets, NEW text, Closed(k, text) PROVE UsersStay
  <2>1. ticket' = [ticket EXCEPT ![k] = [ticket[k] EXCEPT !.status = "CLOSED", !.text = text]] BY <1>2 DEF Closed
  <2>2. \A l \in Tickets : l # k => ticket'[l] = ticket[l] BY <2>1 DEF Types, TypeOK
  <2>3. ticket'[k] = [ticket[k] EXCEPT !.status = "CLOSED", !.text = text] BY <2>1 DEF Types, TypeOK
  <2>4. ticket'[k].users = ticket[k].users /\ ticket'[k].status = "CLOSED" BY <2>3, RowKeepsUsers
  <2> QED BY <2>2, <2>4 DEF UsersStay
<1>3. ASSUME NEW t \in Tasks, CreateInstance(t) PROVE UsersStay
  <2> DEFINE k == CHOOSE x \in Tickets : ticket[x].status = "NONE"
  <2> DEFINE new == [NoTicket EXCEPT !.status = "OPEN", !.number = template.counter + 1, !.linked = TRUE]
  <2>1. CASE Fence /\ \E x \in Tickets : ticket[x].status = "NONE"
    <3>1. k \in Tickets /\ ticket[k].status = "NONE" BY <2>1
    <3>2. ticket' = [ticket EXCEPT ![k] = new] BY <1>3, <2>1 DEF CreateInstance
    <3>3. new.users = {} /\ new.status = "OPEN" BY DEF NoTicket
    <3> HIDE DEF k, new
    <3> QED BY <3>1, <3>2, <3>3 DEF UsersStay, Types, TypeOK
  <2>2. CASE ~(Fence /\ \E x \in Tickets : ticket[x].status = "NONE") BY <1>1, <1>3, <2>2 DEF CreateInstance
  <2> QED BY <2>1, <2>2
<1>4. ASSUME NEW t \in Tasks, Ready(t) PROVE UsersStay
  <2>1. \A l \in Tickets : ticket'[l] = ticket[l] \/ ticket'[l] = [ticket[l] EXCEPT !.known = TRUE]
    BY <1>4 DEF Ready, Types, TypeOK
  <2> QED BY <2>1, RowKeepsUsers DEF UsersStay
<1>5. ASSUME NEW t \in Tasks, DeleteInstance(t) PROVE UsersStay
  <2>1. \A l \in Tickets : \/ ticket'[l] = ticket[l] \/ ticket'[l] = [NoTicket EXCEPT !.status = "GONE"]
                           \/ ticket'[l] = [ticket[l] EXCEPT !.undone = TRUE]
    BY <1>5 DEF DeleteInstance, Undone, Types, TypeOK
  <2>2. [NoTicket EXCEPT !.status = "GONE"].users = {} /\ [NoTicket EXCEPT !.status = "GONE"].status = "GONE"
    BY DEF NoTicket
  <2> QED BY <2>1, <2>2, RowKeepsUsers DEF UsersStay
<1>6. ASSUME NEW t \in Tasks, Remove(t) PROVE UsersStay
  <2>1. \A l \in Tickets : ticket'[l] = [ticket[l] EXCEPT !.linked = FALSE] BY <1>6 DEF Remove
  <2> QED BY <2>1, RowKeepsUsers DEF UsersStay
<1>7. ASSUME NEW t \in Tasks, LockNothing(t) \/ Store(t) \/ PurgeStore(t) PROVE UsersStay
  <2>1. task[t].k \in Tickets BY <1>7 DEF LockNothing, Store, PurgeStore, Types, OnTickets, Closing, Purging
  <2> QED BY <1>1, <1>2, <1>7, <2>1 DEF LockNothing, Store, PurgeStore
<1>8. ASSUME NEW t \in Tasks,
             \/ Open(t) \/ CreateChannel(t) \/ Greet(t) \/ Reply(t) \/ OpenFails(t) \/ Uncount(t)
             \/ Lock(t) \/ Collect(t) \/ Answer(t) \/ DeleteChannel(t) \/ CloseFails(t) \/ \E k \in Tickets : Close(t, k)
             \/ ResetCounter(t) \/ SetCounter(t) \/ Delete(t) \/ Off(t) \/ List(t)
             \/ PurgeCollect(t) \/ PurgeDelete(t) \/ PurgeFails(t) \/ Purged(t) \/ Recount(t)
             \/ Grant(t) \/ Revoke(t) \/ \E k \in Tickets, u \in Users : AddUser(t, k, u) \/ RemoveUser(t, k, u)
      PROVE  ticket' = ticket
  BY <1>8 DEF Open, CreateChannel, Greet, Reply, OpenFails, Uncount, Lock, Collect, Answer, DeleteChannel, CloseFails, Close, ResetCounter,
    SetCounter,
     Delete, Off, List, PurgeCollect, PurgeDelete, PurgeFails, Purged, Recount, Grant, Revoke, AddUser, RemoveUser
<1>9. ASSUME (\E k \in Tickets : Post(k)) \/ (\E active \in BOOLEAN : Put(active)) \/ Crash \/ UNCHANGED vars
      PROVE  ticket' = ticket
  BY <1>9 DEF Post, Put, Crash, vars
<1> QED BY <1>1, <1>3, <1>4, <1>5, <1>6, <1>7, <1>8, <1>9 DEF Next

\* A list is written that differs by one user, on a row that is there.
LEMMA WriteUsersWorks ==
    ASSUME Types, Begun, NEW t \in Tasks, WriteUsers(t)
    PROVE  LET k == task[t].k  u == task[t].u
           IN  /\ k \in Tickets /\ ticket[k].status # "NONE"
               /\ \A l \in Tickets : l # k => ticket'[l] = ticket[l]
               /\ ticket'[k].status = ticket[k].status
               /\ ticket'[k].users \in {ticket[k].users, ticket[k].users \union {u}, ticket[k].users \ {u}}
<1>1. task[t].k \in Tickets /\ ticket[task[t].k].status # "NONE" BY DEF Types, OnTickets, WriteUsers, Sharing, Begun
<1>2. ticket[task[t].k] \in Rows BY <1>1 DEF Types, TypeOK
<1>3. CASE Unchanged(t)
  <2> DEFINE mutated == IF task[t].ok THEN task[t].seen \union {task[t].u} ELSE task[t].seen \ {task[t].u}
  <2>1. ticket' = [ticket EXCEPT ![task[t].k] = [ticket[task[t].k] EXCEPT !.users = mutated]] BY <1>3 DEF WriteUsers
  <2>2. mutated \in {ticket[task[t].k].users \union {task[t].u}, ticket[task[t].k].users \ {task[t].u}}
    BY <1>3 DEF Unchanged
  <2> HIDE DEF mutated
  <2>3. [ticket[task[t].k] EXCEPT !.users = mutated].users = mutated
        /\ [ticket[task[t].k] EXCEPT !.users = mutated].status = ticket[task[t].k].status
    BY <1>2 DEF Rows
  <2> QED BY <1>1, <2>1, <2>2, <2>3 DEF Types, TypeOK
<1>4. CASE ~Unchanged(t) BY <1>1, <1>4 DEF WriteUsers
<1> QED BY <1>3, <1>4

\* Who changes a list has begun with a row that is there.
LEMMA SharingFrom ==
    ASSUME Types, [Next]_vars, NEW s \in Tasks, Sharing(s)'
    PROVE  \/ Sharing(s) /\ task'[s].k = task[s].k
           \/ task'[s].k \in Tickets /\ Exists(task'[s].k)
<1> DEFINE Goal == \/ Sharing(s) /\ task'[s].k = task[s].k
                   \/ task'[s].k \in Tickets /\ Exists(task'[s].k)
<1>1. ASSUME task'[s] = task[s] PROVE Goal BY <1>1 DEF Sharing, Is
<1>2. ASSUME NEW t \in Tasks, Others(t), ~Sharing(t)' PROVE Goal BY <1>1, <1>2 DEF Others
<1>3. ASSUME NEW t \in Tasks, Leave(t) PROVE Goal BY <1>2, <1>3, LeaveTyped DEF Types, Sharing, Is
<1>4. ASSUME NEW t \in Tasks, NEW from, NEW at \in Steps \ {"grant", "write", "revoke"}, Is(t, from), Goto(t, at)
      PROVE  Goal
  <2>1. Others(t) /\ task'[t] = [task[t] EXCEPT !.at = at] /\ task[t] \in Doing BY <1>4, GotoTyped,
        TaskFields DEF Types
  <2>2. task'[t].at = at BY <2>1 DEF Doing
  <2> QED BY <1>2, <2>1, <2>2 DEF Sharing, Is
<1>5. ASSUME NEW t \in Tasks, NEW at \in Steps \ {"grant", "write", "revoke"}, NEW k, NEW n, NEW ok,
             Become(t, Task(at, k, None, {}, n, ok))
      PROVE  Goal
  <2>1. Others(t) /\ task'[t] = Task(at, k, None, {}, n, ok) BY <1>5 DEF Become, Others, Types, TypeOK
  <2>2. task'[t].at = at BY <2>1 DEF Task
  <2> QED BY <1>2, <2>1, <2>2 DEF Sharing, Is
<1>6. ASSUME NEW t \in Tasks, Open(t) \/ CreateInstance(t) \/ CreateChannel(t) \/ Ready(t) \/ Greet(t) \/ Reply(t)
                              \/ OpenFails(t) \/ DeleteInstance(t) \/ Uncount(t)
      PROVE  Goal
  BY <1>3, <1>4, <1>5, <1>6
     DEF Open, Begin, Plain, CreateInstance, CreateChannel, Ready, Greet, Reply, OpenFails, DeleteInstance, Uncount, Steps
<1>7. ASSUME NEW t \in Tasks, Lock(t) \/ LockNothing(t) \/ Store(t) \/ Answer(t) \/ DeleteChannel(t) \/ CloseFails(t) PROVE Goal
  BY <1>3, <1>4, <1>7 DEF Lock, LockNothing, Store, Answer, DeleteChannel, CloseFails, Steps
<1>8. ASSUME NEW t \in Tasks, NEW k \in Tickets, Close(t, k) PROVE Goal BY <1>5, <1>8 DEF Close, Begin, Steps
<1>9. ASSUME NEW t \in Tasks, ResetCounter(t) \/ SetCounter(t) \/ Delete(t) \/ Off(t) \/ Purged(t) \/ Recount(t)
             \/ Remove(t)
      PROVE  Goal
  BY <1>3, <1>4, <1>5, <1>9 DEF ResetCounter, Begin, Plain, SetCounter, Delete, Off, Purged, Recount, Remove, Steps
<1>10. ASSUME NEW t \in Tasks, Collect(t) \/ List(t) \/ PurgeCollect(t) \/ PurgeStore(t) \/ PurgeFails(t) PROVE Goal
  <2>1. task[t] \in Doing BY <1>10, TaskFields DEF Collect, List, PurgeCollect, PurgeStore, PurgeFails, Types
  <2>2. Others(t) BY <1>10 DEF Collect, List, PurgeCollect, PurgeStore, PurgeFails, Others, Types, TypeOK
  <2>3. task'[t].at \in {"store", "recount", "purge", "delete"}
    <3>1. CASE Collect(t) BY <2>1, <3>1 DEF Collect, Doing, Types, TypeOK
    <3>2. CASE List(t) BY <2>1, <3>2 DEF List, Doing, Types, TypeOK
    <3>3. CASE PurgeCollect(t) BY <2>1, <3>3 DEF PurgeCollect, Doing, Types, TypeOK
    <3>4. CASE PurgeStore(t) \/ PurgeFails(t) BY <2>1, <3>4 DEF PurgeStore, PurgeFails, Doing, Types, TypeOK
    <3> QED BY <1>10, <3>1, <3>2, <3>3, <3>4
  <2> QED BY <1>2, <2>2, <2>3 DEF Sharing, Is
<1>11. ASSUME NEW t \in Tasks, PurgeDelete(t) PROVE Goal BY <1>4, <1>11 DEF PurgeDelete, Steps
<1>12. ASSUME NEW t \in Tasks, NEW k \in Tickets, NEW u \in Users, AddUser(t, k, u) \/ RemoveUser(t, k, u)
      PROVE Goal
  <2>1. PICK at \in Steps, ok \in BOOLEAN : Become(t, Task(at, k, u, ticket[k].users, 0, ok))
    BY <1>12 DEF AddUser, RemoveUser, Begin, Steps
  <2>2. Others(t) /\ task'[t].k = k BY <2>1 DEF Become, Others, Types, TypeOK, Task
  <2>3. Exists(k) BY <1>12 DEF AddUser, RemoveUser, Exists
  <2>4. CASE s = t BY <2>2, <2>3, <2>4
  <2>5. CASE s # t BY <1>1, <2>2, <2>5 DEF Others
  <2> QED BY <2>4, <2>5
<1>13. ASSUME NEW t \in Tasks, Grant(t) \/ WriteUsers(t) \/ Revoke(t) PROVE Goal
  <2>1. task[t] \in Doing /\ Sharing(t) BY <1>13, TaskFields DEF Grant, WriteUsers, Revoke, Types, Sharing
  <2>2. Others(t) /\ (task'[t] = None \/ task'[t].k = task[t].k)
    BY <1>13, <2>1 DEF Grant, WriteUsers, Revoke, Goto, Leave, Become, Others, Doing, Types, TypeOK
  <2>3. CASE s = t BY <2>1, <2>2, <2>3 DEF Sharing, Is
  <2>4. CASE s # t BY <1>1, <2>2, <2>4 DEF Others
  <2> QED BY <2>3, <2>4
<1>14. ASSUME (\E k \in Tickets : Post(k)) \/ (\E active \in BOOLEAN : Put(active)) \/ Crash \/ UNCHANGED vars
      PROVE Goal
  <2>1. task' = task \/ task'[s] = None BY <1>14 DEF Post, Put, Crash, vars
  <2> QED BY <1>1, <2>1 DEF Sharing, Is
<1> HIDE DEF Goal
<1>15. ASSUME Next PROVE Goal BY <1>6, <1>7, <1>8, <1>9, <1>10, <1>11, <1>12, <1>13, <1>14, <1>15, Grouped
<1>16. Goal BY <1>14, <1>15
<1> QED BY <1>16 DEF Goal

\* Every step keeps what is known of rows and lists.
LEMMA ListsKept == ASSUME Types, Unborn, Begun, [Next]_vars PROVE Unborn' /\ Begun'
<1>1. \A k \in Tickets : /\ ticket'[k].status = "NONE" => ticket[k].status = "NONE" /\ ticket'[k].users = {}
  <2>1. CASE \E t \in Tasks : WriteUsers(t)
    BY <2>1, WriteUsersWorks DEF Unborn
  <2>2. CASE \A t \in Tasks : ~WriteUsers(t) BY <2>2, UsersStayed DEF UsersStay, Unborn
  <2> QED BY <2>1, <2>2
<1>2. Unborn' BY <1>1 DEF Unborn
<1>3. \A t \in Tasks : Sharing(t)' => \/ Sharing(t) /\ task'[t].k = task[t].k
                                      \/ task'[t].k \in Tickets /\ ticket[task'[t].k].status # "NONE"
  BY SharingFrom DEF Exists
<1>4. \A t \in Tasks : Sharing(t) => task[t].k \in Tickets BY DEF Types, OnTickets
<1>5. Begun' BY <1>1, <1>3, <1>4 DEF Begun
<1> QED BY <1>2, <1>5

\* casMutateTicketUserIds: no step changes the users of a ticket by more than one, so
\* that no change undoes another, whatever was read before.
THEOREM UsersExactHolds == Spec => UsersExact
<1> DEFINE Exact == \A k \in Tickets : ticket'[k].status # "GONE" =>
          Cardinality((ticket[k].users \ ticket'[k].users) \union (ticket'[k].users \ ticket[k].users)) <= 1
<1>1. Init => Types /\ Unborn /\ Begun
  BY InitTypes DEF Init, Unborn, Begun, NoTicket, Sharing, Is
<1>2. Types /\ Unborn /\ Begun /\ [Next]_vars => (Types /\ Unborn /\ Begun)' BY TypesKept, ListsKept
<1>3. Types /\ Unborn /\ Begun /\ [Next]_vars => [Exact]_vars
  <2> SUFFICES ASSUME Types, Unborn, Begun, [Next]_vars, NEW k \in Tickets, ticket'[k].status # "GONE"
               PROVE  Cardinality((ticket[k].users \ ticket'[k].users) \union (ticket'[k].users \ ticket[k].users)) <= 1
    OBVIOUS
  <2> DEFINE D == (ticket[k].users \ ticket'[k].users) \union (ticket'[k].users \ ticket[k].users)
  <2>1. D = {} \/ \E u : D = {u}
    <3>1. CASE \E t \in Tasks : WriteUsers(t)
      <4>1. PICK t \in Tasks : WriteUsers(t) BY <3>1
      <4>2. ticket'[k].users \in {ticket[k].users, ticket[k].users \union {task[t].u}, ticket[k].users \ {task[t].u}}
        BY <4>1, WriteUsersWorks
      <4>3. D = {} \/ D = {task[t].u} BY <4>2
      <4> QED BY <4>3
    <3>2. CASE \A t \in Tasks : ~WriteUsers(t)
      <4>1. ticket'[k].users = ticket[k].users BY <3>2, UsersStayed DEF UsersStay, Unborn
      <4> QED BY <4>1
    <3> QED BY <3>1, <3>2
  <2> HIDE DEF D
  <2>2. Cardinality({}) <= 1 /\ \A u : Cardinality({u}) <= 1 BY FS_EmptySet, FS_Singleton
  <2>3. ASSUME D = {} PROVE Cardinality(D) <= 1 BY <2>2, <2>3
  <2>4. ASSUME NEW u, D = {u} PROVE Cardinality(D) <= 1 BY <2>2, <2>4
  <2> QED BY <2>1, <2>3, <2>4 DEF D
<1> QED BY <1>1, <1>2, <1>3, PTL DEF Spec, UsersExact

-----------------------------------------------------------------------------
(* Deletions of the template *)

Deleting(t) == task[t] # None /\ task[t].at \in {"off", "list", "purge", "delete", "archive", "recount", "remove"}

\* As many deletions as were asked for, and with one at most only one at a time.
Deletions ==
    /\ used \in [{"commands", "deletes", "messages", "faults"} -> Int] /\ used.deletes \in 0..MaxDeletes
    /\ \A t \in Tasks : Deleting(t) => used.deletes >= 1
    /\ \A s, t \in Tasks : Deleting(s) /\ Deleting(t) => s = t

\* Who deletes the template was deleting it, or has just been asked to.
LEMMA DeletingFrom ==
    ASSUME Types, [Next]_vars, NEW s \in Tasks, Deleting(s)'
    PROVE  Deleting(s) \/ Delete(s)
<1> DEFINE Goal == Deleting(s) \/ Delete(s)
<1>1. ASSUME task'[s] = task[s] PROVE Goal BY <1>1 DEF Deleting
<1>2. ASSUME NEW t \in Tasks, Others(t), ~Deleting(t)' \/ Deleting(t) \/ Delete(t) PROVE Goal
  BY <1>1, <1>2 DEF Others
<1>3. ASSUME NEW t \in Tasks, Leave(t) PROVE Goal BY <1>2, <1>3, LeaveTyped DEF Types, Deleting
<1>4. ASSUME NEW t \in Tasks, NEW from, Is(t, from), NEW at \in Steps, Goto(t, at),
             at \notin {"off", "list", "purge", "delete", "archive", "recount", "remove"} \/ Deleting(t)
      PROVE  Goal
  <2>1. Others(t) /\ task'[t] = [task[t] EXCEPT !.at = at] /\ task[t] \in Doing BY <1>4, GotoTyped,
        TaskFields DEF Types
  <2>2. task'[t].at = at BY <2>1 DEF Doing
  <2> QED BY <1>2, <1>4, <2>1, <2>2 DEF Deleting
<1>5. ASSUME NEW t \in Tasks, NEW at, NEW k, NEW u, NEW seen, NEW n, NEW ok, Become(t, Task(at, k, u, seen, n, ok)),
             at \notin {"off", "list", "purge", "delete", "archive", "recount", "remove"} \/ Delete(t)
      PROVE  Goal
  <2>1. Others(t) /\ task'[t] = Task(at, k, u, seen, n, ok) BY <1>5 DEF Become, Others, Types, TypeOK
  <2>2. task'[t].at = at BY <2>1 DEF Task
  <2> QED BY <1>2, <1>5, <2>1, <2>2 DEF Deleting
<1>6. ASSUME NEW t \in Tasks, Open(t) \/ CreateInstance(t) \/ CreateChannel(t) \/ Ready(t) \/ Greet(t) \/ Reply(t)
                              \/ OpenFails(t) \/ DeleteInstance(t) \/ Uncount(t)
      PROVE  Goal
  BY <1>3, <1>4, <1>5, <1>6
     DEF Open, Begin, Plain, CreateInstance, CreateChannel, Ready, Greet, Reply, OpenFails, DeleteInstance, Uncount, Steps
<1>7. ASSUME NEW t \in Tasks, Lock(t) \/ LockNothing(t) \/ Store(t) \/ Answer(t) \/ DeleteChannel(t) \/ CloseFails(t) PROVE Goal
  BY <1>3, <1>4, <1>7 DEF Lock, LockNothing, Store, Answer, DeleteChannel, CloseFails, Steps
<1>8. ASSUME NEW t \in Tasks, NEW k \in Tickets, Close(t, k) PROVE Goal BY <1>5, <1>8 DEF Close, Begin, Steps
<1>9. ASSUME NEW t \in Tasks, ResetCounter(t) \/ SetCounter(t) \/ Delete(t) PROVE Goal
  <2>1. CASE Delete(t) BY <1>5, <2>1 DEF Delete
  <2>2. CASE ResetCounter(t) \/ SetCounter(t) BY <1>3, <1>5, <2>2 DEF ResetCounter, Begin, Plain, SetCounter
  <2> QED BY <1>9, <2>1, <2>2
<1>10. ASSUME NEW t \in Tasks, Off(t) \/ List(t) \/ PurgeCollect(t) \/ PurgeDelete(t) \/ PurgeStore(t)
              \/ PurgeFails(t)
                               \/ Purged(t) \/ Recount(t) \/ Remove(t)
       PROVE Goal
  <2>1. Deleting(t)
    BY <1>10 DEF Off, List, PurgeCollect, PurgeDelete, PurgeStore, PurgeFails, Purged, Recount, Remove, Is, Deleting
  <2>2. Others(t)
    BY <1>10 DEF Off, List, PurgeCollect, PurgeDelete, PurgeStore, PurgeFails, Purged, Recount, Remove, Goto, Leave,
          Become, Others, Types, TypeOK
  <2> QED BY <1>2, <2>1, <2>2
<1>11. ASSUME NEW t \in Tasks, Collect(t) PROVE Goal
  <2>1. task[t] \in Doing BY <1>11, TaskFields DEF Collect, Types
  <2>2. Others(t) BY <1>11 DEF Collect, Others, Types, TypeOK
  <2>3. task'[t].at = "store" BY <1>11, <2>1 DEF Collect, Doing, Types, TypeOK
  <2> QED BY <1>2, <2>2, <2>3 DEF Deleting
<1>12. ASSUME NEW t \in Tasks, NEW k \in Tickets, NEW u \in Users, AddUser(t, k, u) \/ RemoveUser(t, k, u)
      PROVE Goal
  BY <1>5, <1>12 DEF AddUser, RemoveUser, Begin
<1>13. ASSUME NEW t \in Tasks, Grant(t) \/ Revoke(t) PROVE Goal BY <1>3, <1>4, <1>13 DEF Grant, Revoke, Steps
<1>14. ASSUME NEW t \in Tasks, WriteUsers(t) PROVE Goal
  <2>1. Is(t, "write") /\ task[t] \in Doing BY <1>14, TaskFields DEF WriteUsers, Types
  <2>2. CASE Leave(t) BY <1>3, <2>2
  <2>3. CASE Goto(t, "revoke") BY <1>4, <2>1, <2>3 DEF Steps
  <2>4. CASE task' = [task EXCEPT ![t].seen = ticket[task[t].k].users, ![t].n = @ + 1]
    <3>1. Others(t) /\ task'[t].at = "write" BY <2>1, <2>4 DEF Is, Doing, Others, Types, TypeOK
    <3> QED BY <1>2, <3>1 DEF Deleting
  <2> QED BY <1>14, <2>2, <2>3, <2>4 DEF WriteUsers
<1>15. ASSUME (\E k \in Tickets : Post(k)) \/ (\E active \in BOOLEAN : Put(active)) \/ Crash \/ UNCHANGED vars
      PROVE Goal
  <2>1. task' = task \/ task'[s] = None BY <1>15 DEF Post, Put, Crash, vars
  <2> QED BY <1>1, <2>1 DEF Deleting
<1> HIDE DEF Goal
<1>16. ASSUME Next PROVE Goal
  BY <1>6, <1>7, <1>8, <1>9, <1>10, <1>11, <1>12, <1>13, <1>14, <1>15, <1>16, Grouped
<1>17. Goal BY <1>15, <1>16
<1> QED BY <1>17 DEF Goal

\* Only a deletion counts as one.
LEMMA UsedStep ==
    ASSUME [Next]_vars
    PROVE  \/ used' = used
           \/ \E what \in {"commands", "messages", "faults"} : used' = [used EXCEPT ![what] = @ + 1]
           \/ \E t \in Tasks : Delete(t)
<1> DEFINE Goal == \/ used' = used
                   \/ \E what \in {"commands", "messages", "faults"} : used' = [used EXCEPT ![what] = @ + 1]
                   \/ \E t \in Tasks : Delete(t)
<1>1. ASSUME Fault \/ (\E t \in Tasks : \E new : Begin(t, new)) \/ Use("messages", MaxMessages) \/ Use("commands",
             MaxCommands)
      PROVE  Goal
  BY <1>1 DEF Fault, Begin, Use
<1>2. ASSUME used' = used PROVE Goal BY <1>2
<1> HIDE DEF Goal
<1>3. ASSUME NEW t \in Tasks, Open(t) \/ CreateInstance(t) \/ CreateChannel(t) \/ Ready(t) \/ Greet(t) \/ Reply(t)
                              \/ OpenFails(t) \/ DeleteInstance(t) \/ Uncount(t)
      PROVE  Goal
  BY <1>1, <1>2, <1>3 DEF Open, CreateInstance, CreateChannel, Ready, Greet, Reply, OpenFails, DeleteInstance, Uncount
<1>4. ASSUME NEW t \in Tasks,
             (\E k \in Tickets : Close(t, k)) \/ Lock(t) \/ LockNothing(t) \/ Collect(t) \/ Store(t) \/ Answer(t) \/ DeleteChannel(t)
               \/ CloseFails(t)
      PROVE  Goal
  BY <1>1, <1>2, <1>4 DEF Close, Lock, LockNothing, Collect, Store, Answer, DeleteChannel, CloseFails
<1>5. ASSUME NEW t \in Tasks,
             ResetCounter(t) \/ SetCounter(t) \/ Delete(t) \/ Off(t) \/ List(t) \/ Purged(t) \/ Recount(t)
               \/ Remove(t)
      PROVE  Goal
  BY <1>1, <1>2, <1>5 DEF ResetCounter, SetCounter, Off, List, Purged, Recount, Remove, Goal
<1>6. ASSUME NEW t \in Tasks, PurgeCollect(t) \/ PurgeDelete(t) \/ PurgeStore(t) \/ PurgeFails(t) PROVE Goal
  BY <1>1, <1>2, <1>6 DEF PurgeCollect, PurgeDelete, PurgeStore, PurgeFails
<1>7. ASSUME NEW t \in Tasks,
             (\E k \in Tickets, u \in Users : AddUser(t, k, u) \/ RemoveUser(t, k, u)) \/ Grant(t)
               \/ WriteUsers(t) \/ Revoke(t)
      PROVE  Goal
  BY <1>1, <1>2, <1>7 DEF AddUser, RemoveUser, Grant, WriteUsers, Revoke
<1>8. ASSUME (\E k \in Tickets : Post(k)) \/ (\E active \in BOOLEAN : Put(active)) \/ Crash \/ UNCHANGED vars
      PROVE Goal
  BY <1>1, <1>2, <1>8 DEF Post, Put, Crash, vars
<1>9. Goal BY <1>3, <1>4, <1>5, <1>6, <1>7, <1>8, Grouped
<1> QED BY <1>9 DEF Goal

\* With one deletion at most there is never a second one.
LEMMA DeletionsKept ==
    ASSUME MaxDeletes \in 0..1, Types, Deletions, [Next]_vars
    PROVE  Deletions'
<1>1. CASE \E t \in Tasks : Delete(t)
  <2>1. PICK t \in Tasks : Delete(t) BY <1>1
  <2>2. used.deletes < MaxDeletes /\ used' = [used EXCEPT !["deletes"] = @ + 1] BY <2>1 DEF Delete, Use
  <2>3. used.deletes = 0 /\ used'.deletes = 1 /\ used' \in [{"commands", "deletes", "messages", "faults"} -> Int]
    BY <2>2 DEF Deletions
  <2>4. \A s \in Tasks : ~Deleting(s) BY <2>3 DEF Deletions
  <2>5. \A s \in Tasks : s # t => task'[s] = task[s] BY <2>1 DEF Delete, Become, Types, TypeOK
  <2>6. \A s \in Tasks : s # t => ~Deleting(s)' BY <2>4, <2>5 DEF Deleting
  <2> QED BY <2>2, <2>3, <2>6 DEF Deletions
<1>2. CASE ~\E t \in Tasks : Delete(t)
  <2>1. \A s \in Tasks : Deleting(s)' => Deleting(s) BY <1>2, DeletingFrom
  <2>2. used'.deletes = used.deletes /\ used' \in [{"commands", "deletes", "messages", "faults"} -> Int]
    <3>1. CASE used' = used BY <3>1 DEF Deletions
    <3>2. CASE \E what \in {"commands", "messages", "faults"} : used' = [used EXCEPT ![what] = @ + 1]
      BY <3>2 DEF Deletions
    <3> QED BY <1>2, <3>1, <3>2, UsedStep
  <2> QED BY <2>1, <2>2 DEF Deletions
<1> QED BY <1>1, <1>2

\* At the start nobody deletes.
LEMMA InitDeletions == ASSUME MaxDeletes \in 0..1, Init PROVE Deletions
<1>1. used = [commands |-> 0, deletes |-> 0, messages |-> 0, faults |-> 0] BY DEF Init
<1>2. used \in [{"commands", "deletes", "messages", "faults"} -> Int] /\ used.deletes = 0 BY <1>1
<1> QED BY <1>2 DEF Init, Deletions, Deleting

\* A deletion under way has switched the template off, and goes on to remove it only
\* when no ticket is open.
Removing ==
    /\ TemplateLives
    /\ \A t \in Tasks : Deleting(t) /\ task[t].at # "off" => ~template.active
    /\ \A t \in Tasks : Is(t, "remove") => OpenTickets = {}

\* Open tickets stay as they are.
OpenStay == \A k \in Tickets : ticket'[k].status = "OPEN" => ticket[k].status = "OPEN"
            /\ ticket'[k].linked = ticket[k].linked

\* Every step but CreateInstance and Remove leaves the open tickets, or makes them fewer.
LEMMA OpenStayed ==
    ASSUME Types, [Next]_vars, \A t \in Tasks : ~CreateInstance(t) /\ ~Remove(t)
    PROVE  OpenStay
<1> \A k \in Tickets : ticket[k] \in Rows BY DEF Types, TypeOK
<1>1. ASSUME ticket' = ticket PROVE OpenStay BY <1>1 DEF OpenStay
<1>2. ASSUME NEW k \in Tickets, NEW row, ticket' = [ticket EXCEPT ![k] = row],
             row.status = "OPEN" => ticket[k].status = "OPEN" /\ row.linked = ticket[k].linked
      PROVE  OpenStay
  BY <1>2 DEF OpenStay, Types, TypeOK
<1>3. ASSUME NEW k \in Tickets, NEW text, Closed(k, text) PROVE OpenStay
  <2> DEFINE row == [ticket[k] EXCEPT !.status = "CLOSED", !.text = text]
  <2>1. row.status = "CLOSED" BY DEF Rows
  <2>2. ticket' = [ticket EXCEPT ![k] = row] BY <1>3 DEF Closed
  <2> HIDE DEF row
  <2> QED BY <1>2, <2>1, <2>2
<1>4. ASSUME NEW t \in Tasks, Ready(t) PROVE OpenStay
  <2>1. \A l \in Tickets : ticket'[l] = ticket[l] \/ ticket'[l] = [ticket[l] EXCEPT !.known = TRUE]
    BY <1>4 DEF Ready, Types, TypeOK
  <2>2. \A r \in Rows : [r EXCEPT !.known = TRUE].status = r.status
        /\ [r EXCEPT !.known = TRUE].linked = r.linked BY DEF Rows
  <2> QED BY <2>1, <2>2 DEF OpenStay
<1>5. ASSUME NEW t \in Tasks, DeleteInstance(t) PROVE OpenStay
  <2>1. \A l \in Tickets : \/ ticket'[l] = ticket[l] \/ ticket'[l] = [NoTicket EXCEPT !.status = "GONE"]
                           \/ ticket'[l] = [ticket[l] EXCEPT !.undone = TRUE]
    BY <1>5 DEF DeleteInstance, Undone, Types, TypeOK
  <2>2. [NoTicket EXCEPT !.status = "GONE"].status = "GONE" BY DEF NoTicket
  <2>3. \A r \in Rows : [r EXCEPT !.undone = TRUE].status = r.status
        /\ [r EXCEPT !.undone = TRUE].linked = r.linked BY DEF Rows
  <2> QED BY <2>1, <2>2, <2>3 DEF OpenStay
<1>6. ASSUME NEW t \in Tasks, WriteUsers(t) PROVE OpenStay
  <2>1. task[t].k \in Tickets BY <1>6 DEF WriteUsers, Types, OnTickets, Sharing
  <2>2. PICK users : ticket' = ticket \/ ticket' = [ticket EXCEPT ![task[t].k].users = users] BY <1>6 DEF WriteUsers
  <2>3. \A l \in Tickets : ticket'[l] = ticket[l] \/ ticket'[l] = [ticket[l] EXCEPT !.users = users]
    BY <2>1, <2>2 DEF Types, TypeOK
  <2>4. \A r \in Rows : [r EXCEPT !.users = users].status = r.status
        /\ [r EXCEPT !.users = users].linked = r.linked BY DEF Rows
  <2> QED BY <2>3, <2>4 DEF OpenStay
<1>7. ASSUME NEW t \in Tasks, LockNothing(t) \/ Store(t) \/ PurgeStore(t) PROVE OpenStay
  <2>1. task[t].k \in Tickets BY <1>7 DEF LockNothing, Store, PurgeStore, Types, OnTickets, Closing, Purging
  <2> QED BY <1>1, <1>3, <1>7, <2>1 DEF LockNothing, Store, PurgeStore
<1>8. ASSUME NEW t \in Tasks,
             \/ Open(t) \/ CreateChannel(t) \/ Greet(t) \/ Reply(t) \/ OpenFails(t) \/ Uncount(t)
             \/ Lock(t) \/ Collect(t) \/ Answer(t) \/ DeleteChannel(t) \/ CloseFails(t) \/ \E k \in Tickets : Close(t, k)
             \/ ResetCounter(t) \/ SetCounter(t) \/ Delete(t) \/ Off(t) \/ List(t)
             \/ PurgeCollect(t) \/ PurgeDelete(t) \/ PurgeFails(t) \/ Purged(t) \/ Recount(t)
             \/ Grant(t) \/ Revoke(t) \/ \E k \in Tickets, u \in Users : AddUser(t, k, u) \/ RemoveUser(t, k, u)
      PROVE  ticket' = ticket
  BY <1>8 DEF Open, CreateChannel, Greet, Reply, OpenFails, Uncount, Lock, Collect, Answer, DeleteChannel, CloseFails, Close, ResetCounter,
    SetCounter,
     Delete, Off, List, PurgeCollect, PurgeDelete, PurgeFails, Purged, Recount, Grant, Revoke, AddUser, RemoveUser
<1>9. ASSUME (\E k \in Tickets : Post(k)) \/ (\E active \in BOOLEAN : Put(active)) \/ Crash \/ UNCHANGED vars
      PROVE  ticket' = ticket
  BY <1>9 DEF Post, Put, Crash, vars
<1> QED BY <1>1, <1>4, <1>5, <1>6, <1>7, <1>8, <1>9 DEF Next

\* The template comes back only when a deletion gives up.
LEMMA ActiveFrom ==
    ASSUME ~Puts, Types, [Next]_vars, template'.active
    PROVE  template.active \/ \E t \in Tasks : Deleting(t) /\ Leave(t)
<1>1. \A t \in Tasks : Purged(t) \/ Recount(t) => template' = template \/ (Deleting(t) /\ Leave(t))
  BY DEF Purged, Recount, Deleting, Is
<1>2. \A t \in Tasks : CreateInstance(t) \/ Uncount(t) \/ SetCounter(t) => template'.active = template.active
  BY DEF CreateInstance, Uncount, Uncounted, SetCounter, Types, TypeOK
<1>3. \A t \in Tasks : Off(t) \/ Remove(t) => template'.active = FALSE BY DEF Off, Remove, Types, TypeOK
<1>4. ASSUME NEW t \in Tasks,
             \/ Open(t) \/ CreateChannel(t) \/ Ready(t) \/ Greet(t) \/ Reply(t) \/ OpenFails(t) \/ DeleteInstance(t)
             \/ Lock(t) \/ LockNothing(t) \/ Collect(t) \/ Store(t) \/ Answer(t) \/ DeleteChannel(t) \/ CloseFails(t)
             \/ ResetCounter(t) \/ Delete(t) \/ List(t)
             \/ PurgeCollect(t) \/ PurgeDelete(t) \/ PurgeStore(t) \/ PurgeFails(t)
      PROVE  template' = template
  BY <1>4 DEF Open, CreateChannel, Ready, Greet, Reply, OpenFails, DeleteInstance, Lock, LockNothing, Collect, Store, Answer, DeleteChannel,
    CloseFails,
     ResetCounter, Delete, List, PurgeCollect, PurgeDelete, PurgeStore, PurgeFails
<1>5. ASSUME NEW t \in Tasks,
             \/ \E k \in Tickets : Close(t, k) \/ \E u \in Users : AddUser(t, k, u) \/ RemoveUser(t, k, u)
             \/ Grant(t) \/ WriteUsers(t) \/ Revoke(t)
      PROVE  template' = template
  BY <1>5 DEF Close, AddUser, RemoveUser, Grant, WriteUsers, Revoke
<1>6. ASSUME (\E k \in Tickets : Post(k)) \/ Crash \/ UNCHANGED vars PROVE template' = template
  BY <1>6 DEF Post, Crash, vars
<1>7. \A active \in BOOLEAN : ~Put(active) BY DEF Put
<1> QED BY <1>1, <1>2, <1>3, <1>4, <1>5, <1>6, <1>7 DEF Next

\* What a task does leaves the others alone.
LEMMA ActsAlone ==
    ASSUME Types, [Next]_vars, NEW t \in Tasks, task'[t] # task[t], task'[t] # None
    PROVE  \/ (Open(t) \/ CreateInstance(t) \/ CreateChannel(t) \/ Ready(t) \/ Greet(t) \/ Reply(t)
                  \/ OpenFails(t) \/ DeleteInstance(t) \/ Uncount(t))
           \/ ((\E k \in Tickets : Close(t, k)) \/ Lock(t) \/ LockNothing(t) \/ Collect(t) \/ Store(t) \/ Answer(t) \/ DeleteChannel(t)
              \/ CloseFails(t))
           \/ (ResetCounter(t) \/ SetCounter(t) \/ Delete(t) \/ Off(t) \/ List(t) \/ Purged(t) \/ Recount(t)
              \/ Remove(t))
           \/ (PurgeCollect(t) \/ PurgeDelete(t) \/ PurgeStore(t) \/ PurgeFails(t))
           \/ ((\E k \in Tickets, u \in Users : AddUser(t, k, u) \/ RemoveUser(t, k, u))
                  \/ Grant(t) \/ WriteUsers(t) \/ Revoke(t))
<1>1. ASSUME NEW s \in Tasks, Others(s) PROVE s = t BY <1>1 DEF Others
<1>2. ASSUME NEW s \in Tasks, NEW new, task' = [task EXCEPT ![s] = new] PROVE s = t BY <1>1, <1>2 DEF Others,
             Types, TypeOK
<1>3. ASSUME NEW s \in Tasks, Open(s) \/ CreateInstance(s) \/ CreateChannel(s) \/ Ready(s) \/ Greet(s) \/ Reply(s)
                              \/ OpenFails(s) \/ DeleteInstance(s) \/ Uncount(s)
      PROVE  s = t
  BY <1>2, <1>3 DEF Open, Begin, CreateInstance, CreateChannel, Ready, Greet, Reply, OpenFails, DeleteInstance, Uncount, Become,
    Goto, Leave
<1>4. ASSUME NEW s \in Tasks,
             (\E k \in Tickets : Close(s, k)) \/ Lock(s) \/ LockNothing(s) \/ Collect(s) \/ Store(s) \/ Answer(s) \/ DeleteChannel(s)
               \/ CloseFails(s)
      PROVE  s = t
  <2>1. CASE Collect(s)
    <3>1. Others(s) BY <2>1 DEF Collect, Others, Types, TypeOK
    <3> QED BY <1>1, <3>1
  <2> QED BY <1>2, <1>4, <2>1 DEF Close, Begin, Lock, LockNothing, Store, Answer, DeleteChannel, CloseFails, Become, Goto, Leave
<1>5. ASSUME NEW s \in Tasks,
             ResetCounter(s) \/ SetCounter(s) \/ Delete(s) \/ Off(s) \/ List(s) \/ Purged(s) \/ Recount(s)
               \/ Remove(s)
      PROVE  s = t
  BY <1>2, <1>5 DEF ResetCounter, Begin, SetCounter, Delete, Off, List, Purged, Recount, Remove, Become, Goto, Leave
<1>6. ASSUME NEW s \in Tasks, PurgeCollect(s) \/ PurgeDelete(s) \/ PurgeStore(s) \/ PurgeFails(s) PROVE s = t
  <2>1. Others(s) BY <1>6 DEF PurgeCollect, PurgeDelete, PurgeStore, PurgeFails, Goto, Others, Types, TypeOK
  <2> QED BY <1>1, <2>1
<1>7. ASSUME NEW s \in Tasks,
             (\E k \in Tickets, u \in Users : AddUser(s, k, u) \/ RemoveUser(s, k, u)) \/ Grant(s)
               \/ WriteUsers(s) \/ Revoke(s)
      PROVE  s = t
  <2>1. CASE WriteUsers(s)
    <3>1. Others(s) BY <2>1 DEF WriteUsers, Goto, Leave, Become, Others, Types, TypeOK
    <3> QED BY <1>1, <3>1
  <2> QED BY <1>2, <1>7, <2>1 DEF AddUser, RemoveUser, Begin, Grant, Revoke, Become, Goto, Leave
<1>8. ~((\E k \in Tickets : Post(k)) \/ (\E active \in BOOLEAN : Put(active)) \/ Crash \/ UNCHANGED vars)
  BY DEF Post, Put, Crash, vars
<1>9. Next BY <1>8
<1> QED BY <1>3, <1>4, <1>5, <1>6, <1>7, <1>8, <1>9, Grouped

\* A deletion switches the template off before it does anything else.
LEMMA OffFirst ==
    ASSUME Types, [Next]_vars, NEW t \in Tasks, Is(t, "off"), Deleting(t)', task'[t].at # "off"
    PROVE  Off(t)
<1>1. task'[t] # task[t] /\ task'[t] # None BY DEF Is, Deleting
<1>2. \A at : at # "off" => ~Is(t, at) BY DEF Is
<1>3. task[t] # None BY DEF Is
<1> QED BY <1>1, <1>2, <1>3, ActsAlone
        DEF Open, Begin, CreateInstance, CreateChannel, Ready, Greet, Reply, OpenFails, DeleteInstance, Uncount,
            Close, Lock, LockNothing, Collect, Store, Answer, DeleteChannel, CloseFails,
            ResetCounter, SetCounter, Delete, List, Purged, Recount, Remove,
            PurgeCollect, PurgeDelete, PurgeStore, PurgeFails, AddUser, RemoveUser, Grant, WriteUsers, Revoke

\* It comes to the removal of the template when it has counted no open ticket.
LEMMA RemoveLast ==
    ASSUME Types, [Next]_vars, NEW t \in Tasks, Is(t, "remove")'
    PROVE  Is(t, "remove") \/ (Recount(t) /\ OpenTickets = {} /\ UNCHANGED ticket)
<1>1. CASE task'[t] = task[t] BY <1>1 DEF Is
<1>2. CASE task'[t] # task[t]
  <2>1. Deleting(t)' BY DEF Is, Deleting
  <2>2. CASE Delete(t)
    <3>1. task'[t].at = "off" BY <2>2 DEF Delete, Become, Task, Types, TypeOK
    <3> QED BY <3>1 DEF Is
  <2>3. CASE ~Delete(t)
    <3>1. Deleting(t) BY <2>1, <2>3, DeletingFrom
    <3>2. task[t] \in Doing BY <3>1 DEF Deleting, Types, TypeOK
    <3>3. PICK from : Is(t, from) /\ from \in {"off", "list", "purge", "delete", "archive", "recount", "remove"}
      BY <3>1 DEF Deleting, Is
    <3>4. \A at : at # from => ~Is(t, at) BY <3>3 DEF Is
    <3>5. task[t] # None /\ task'[t] # None BY <3>1 DEF Deleting, Is
    <3>6. \/ Off(t) \/ List(t) \/ Purged(t) \/ Recount(t) \/ Remove(t)
          \/ PurgeCollect(t) \/ PurgeDelete(t) \/ PurgeStore(t) \/ PurgeFails(t)
      BY <1>2, <2>3, <3>3, <3>4, <3>5, ActsAlone
         DEF Open, Begin, CreateInstance, CreateChannel, Ready, Greet, Reply, OpenFails, DeleteInstance, Uncount,
             Close, Lock, LockNothing, Collect, Store, Answer, DeleteChannel, CloseFails, ResetCounter, SetCounter,
             AddUser, RemoveUser, Grant, WriteUsers, Revoke
    <3>7. ASSUME Off(t) \/ List(t) \/ Purged(t) \/ Remove(t) PROVE FALSE
      <4>1. CASE Off(t) \/ Remove(t) BY <3>2, <4>1 DEF Off, Remove, Goto, Leave, Become, Is, Doing, Types, TypeOK
      <4>2. CASE List(t) BY <3>2, <4>2 DEF List, Is, Doing, Types, TypeOK
      <4>3. CASE Purged(t) BY <3>2, <4>3 DEF Purged, Goto, Leave, Become, Is, Doing, Types, TypeOK
      <4> QED BY <3>7, <4>1, <4>2, <4>3
    <3>8. ASSUME PurgeCollect(t) \/ PurgeDelete(t) \/ PurgeStore(t) \/ PurgeFails(t) PROVE FALSE
      <4>1. task'[t].at \in {"delete", "archive", "purge"}
        <5>1. CASE PurgeCollect(t) BY <3>2, <5>1 DEF PurgeCollect, Doing, Types, TypeOK
        <5>2. CASE PurgeDelete(t) BY <3>2, <5>2 DEF PurgeDelete, Goto, Doing, Types, TypeOK
        <5>3. CASE PurgeStore(t) \/ PurgeFails(t) BY <3>2, <5>3 DEF PurgeStore, PurgeFails, Doing, Types, TypeOK
        <5> QED BY <3>8, <5>1, <5>2, <5>3
      <4> QED BY <4>1 DEF Is
    <3>9. Recount(t) BY <3>6, <3>7, <3>8
    <3>10. OpenTickets = {} BY <3>5, <3>9 DEF Recount, Leave, Become, Types, TypeOK
    <3> QED BY <3>9, <3>10 DEF Recount
  <2> QED BY <2>2, <2>3
<1> QED BY <1>1, <1>2

\* Every step keeps the order of a deletion.
LEMMA RemovingKept ==
    ASSUME ~Puts, MaxDeletes \in 0..1, Types, Deletions, Removing, [Next]_vars
    PROVE  Removing'
<1>1. ASSUME NEW t \in Tasks, Deleting(t)', task'[t].at # "off" PROVE ~template'.active
  <2>1. CASE Delete(t)
    <3>1. task'[t].at = "off" BY <2>1 DEF Delete, Become, Task, Types, TypeOK
    <3> QED BY <1>1, <3>1
  <2>2. CASE ~Delete(t)
    <3>1. Deleting(t) BY <1>1, <2>2, DeletingFrom
    <3>2. CASE task[t].at = "off"
      <4>1. Off(t) BY <1>1, <3>1, <3>2, OffFirst DEF Deleting, Is
      <4> QED BY <4>1 DEF Off, Types, TypeOK
    <3>3. CASE task[t].at # "off"
      <4>1. ~template.active BY <3>1, <3>3 DEF Removing
      <4>2. ASSUME NEW s \in Tasks, Deleting(s), Leave(s) PROVE FALSE
        <5>1. s = t BY <3>1, <4>2 DEF Deletions
        <5> QED BY <1>1, <4>2, <5>1, LeaveTyped DEF Types, Deleting
      <4> QED BY <4>1, <4>2, ActiveFrom
    <3> QED BY <3>2, <3>3
  <2> QED BY <2>1, <2>2
<1>2. ASSUME NEW t \in Tasks, Is(t, "remove") PROVE \A s \in Tasks : ~CreateInstance(s) \/ UNCHANGED ticket
  <2>1. ~template.active BY <1>2 DEF Removing, Is, Deleting
  <2> QED BY <2>1 DEF CreateInstance, Fence
<1>3. ASSUME NEW t \in Tasks, Is(t, "remove")' PROVE OpenTickets' = {}
  <2>1. CASE Recount(t) /\ OpenTickets = {} /\ UNCHANGED ticket BY <2>1 DEF OpenTickets
  <2>2. CASE Is(t, "remove")
    <3>1. OpenTickets = {} BY <2>2 DEF Removing
    <3>2. CASE \E s \in Tasks : CreateInstance(s) BY <1>2, <2>2, <3>1, <3>2 DEF OpenTickets
    <3>3. CASE \E s \in Tasks : Remove(s)
      <4>1. PICK s \in Tasks : Remove(s) BY <3>3
      <4>2. \A k \in Tickets : ticket'[k] = [ticket[k] EXCEPT !.linked = FALSE] BY <4>1 DEF Remove
      <4>3. \A k \in Tickets : ticket'[k].status = ticket[k].status BY <4>2, RowKeepsUsers DEF Types, TypeOK
      <4> QED BY <3>1, <4>3 DEF OpenTickets
    <3>4. CASE \A s \in Tasks : ~CreateInstance(s) /\ ~Remove(s)
      BY <3>1, <3>4, OpenStayed DEF OpenStay, OpenTickets
    <3> QED BY <3>2, <3>3, <3>4
  <2> QED BY <1>3, <2>1, <2>2, RemoveLast
<1>4. TemplateLives'
  <2>1. CASE \E s \in Tasks : CreateInstance(s)
    <3>1. PICK s \in Tasks : CreateInstance(s) BY <2>1
    <3> DEFINE k == CHOOSE x \in Tickets : ticket[x].status = "NONE"
    <3> DEFINE new == [NoTicket EXCEPT !.status = "OPEN", !.number = template.counter + 1, !.linked = TRUE]
    <3>2. ticket' = ticket \/ ticket' = [ticket EXCEPT ![k] = new] BY <3>1 DEF CreateInstance
    <3>3. new.linked BY DEF NoTicket
    <3> HIDE DEF k, new
    <3>4. \A l \in Tickets : ticket'[l] = ticket[l] \/ ticket'[l] = new BY <3>2 DEF Types, TypeOK
    <3> QED BY <3>3, <3>4 DEF Removing, TemplateLives, OpenTickets
  <2>2. CASE \E s \in Tasks : Remove(s)
    <3>1. PICK s \in Tasks : Remove(s) BY <2>2
    <3>2. OpenTickets = {} BY <3>1 DEF Remove, Removing
    <3>3. \A k \in Tickets : ticket'[k] = [ticket[k] EXCEPT !.linked = FALSE] BY <3>1 DEF Remove
    <3>4. \A k \in Tickets : ticket'[k].status = ticket[k].status BY <3>3, RowKeepsUsers DEF Types, TypeOK
    <3> QED BY <3>2, <3>4 DEF TemplateLives, OpenTickets
  <2>3. CASE \A s \in Tasks : ~CreateInstance(s) /\ ~Remove(s)
    BY <2>3, OpenStayed DEF OpenStay, Removing, TemplateLives, OpenTickets
  <2> QED BY <2>1, <2>2, <2>3
<1> QED BY <1>1, <1>3, <1>4 DEF Removing

\* tickets.ts:483-484: an open ticket has its template, whatever fails and whoever opens
\* while it is deleted; where one deletion is asked for and nobody switches the template
\* on again in the meantime.
THEOREM TemplateLivesHolds ==
    ASSUME ~Puts, MaxDeletes \in 0..1
    PROVE  Spec => []TemplateLives
<1>1. Init => Types /\ Deletions /\ Removing
  BY InitTypes, InitDeletions DEF Init, Removing, TemplateLives, OpenTickets, NoTicket, Deleting, Is
<1>2. Types /\ Deletions /\ Removing /\ [Next]_vars => (Types /\ Deletions /\ Removing)'
  BY TypesKept, DeletionsKept, RemovingKept
<1>3. Removing => TemplateLives BY DEF Removing
<1> QED BY <1>1, <1>2, <1>3, PTL DEF Spec

-----------------------------------------------------------------------------
(* Transcripts, where no template is deleted *)

\* A close until it gives the ticket's lock back.
Held(t) == Closing(t) \/ Is(t, "answer")
Concerned(t) == Numbered(t) \/ Held(t) \/ Is(t, "timer")

\* The transcript holds what was written, if the channel could be locked.
Whole(k, n) == channel[k] = "LOCKED" => n = written[k]

\* What a task that opens, takes back or closes a ticket may take for granted of it.
TaskRules(t) ==
    /\ Concerned(t) => task[t].k \in Tickets
    /\ Opening(t) => ticket[task[t].k].status # "NONE"
    /\ Is(t, "uncount") => \/ ticket[task[t].k].status = "GONE"
                           \/ ticket[task[t].k].status # "NONE" /\ ticket[task[t].k].undone
    /\ Held(t) => task[t].k \in busy
    /\ Closing(t) => ticket[task[t].k].status \in {"OPEN", "GONE"}
    /\ Is(t, "store") => Whole(task[t].k, task[t].n)
    /\ Is(t, "answer") \/ Is(t, "timer") =>
          \/ ticket[task[t].k].status = "GONE"
          \/ /\ ticket[task[t].k].status = "CLOSED" /\ ticket[task[t].k].text \in Nat
             /\ Whole(task[t].k, ticket[task[t].k].text)

\* One close of a ticket at a time.
Alone == \A s, t \in Tasks : Held(s) /\ Held(t) /\ task[s].k = task[t].k => s = t

\* The inductive invariant: who deletes a channel has seen its ticket closed and its
\* transcript stored, or has given up its row.
Archive == (\A t \in Tasks : TaskRules(t)) /\ Alone

\* What the rules of every task survive: a row may go, but its history stays, and nobody
\* locks a channel or writes in a locked one.
Loose(k) ==
    /\ ticket[k].status # "NONE" =>
          \/ ticket'[k].status = "GONE"
          \/ /\ ticket'[k].status = ticket[k].status /\ ticket'[k].text = ticket[k].text
             /\ ticket[k].undone => ticket'[k].undone
    /\ channel'[k] = "LOCKED" => channel[k] = "LOCKED" /\ written'[k] = written[k]
\* What the rules of those survive that do not close the ticket.
Gentle(k) ==
    /\ ticket[k].status # "NONE" => ticket'[k].status # "NONE"
    /\ ticket[k].status = "GONE" => ticket'[k].status = "GONE"
    /\ ticket[k].undone => ticket'[k].undone

\* A task that stays where it is keeps its rules if its ticket is left alone.
LEMMA LooseStays ==
    ASSUME NEW s \in Tasks, TaskRules(s), task'[s] = task[s],
           Concerned(s) => Loose(task[s].k), Held(s) => task[s].k \in busy'
    PROVE  TaskRules(s)'
<1> PICK k : k = task[s].k
  OBVIOUS
<1>1. /\ Concerned(s)' <=> Concerned(s)
      /\ Opening(s)' <=> Opening(s)
      /\ Held(s)' <=> Held(s)
      /\ Closing(s)' <=> Closing(s)
      /\ \A at : Is(s, at)' <=> Is(s, at)
  <2>1. ASSUME NEW at PROVE Is(s, at)' <=> Is(s, at) BY DEF Is
  <2> QED BY <2>1 DEF Concerned, Numbered, Opening, Held, Closing
<1>2. CASE ~Concerned(s)
  BY <1>1, <1>2 DEF TaskRules, Concerned, Numbered, Held, Closing, Whole
<1>3. CASE Concerned(s)
  <2>1. Loose(k) /\ task'[s].k = k /\ task'[s].n = task[s].n BY <1>3
  <2>2. ASSUME NEW n, Whole(k, n) PROVE Whole(k, n)' BY <2>1, <2>2 DEF Loose, Whole
  <2>3. Opening(s) => ticket'[k].status # "NONE" BY <2>1 DEF TaskRules, Loose
  <2>4. Is(s, "uncount") => ticket'[k].status = "GONE" \/ (ticket'[k].status # "NONE" /\ ticket'[k].undone)
    BY <2>1 DEF TaskRules, Loose
  <2>5. Closing(s) => ticket'[k].status \in {"OPEN", "GONE"} BY <2>1 DEF TaskRules, Loose
  <2>6. Is(s, "store") => Whole(k, task[s].n)' BY <2>2 DEF TaskRules
  <2>7. Is(s, "answer") \/ Is(s, "timer") =>
          \/ ticket'[k].status = "GONE"
          \/ /\ ticket'[k].status = "CLOSED" /\ ticket'[k].text \in Nat
             /\ Whole(k, ticket[k].text)' /\ ticket'[k].text = ticket[k].text
    BY <2>1, <2>2 DEF TaskRules, Loose
  <2>8. Is(s, "answer") \/ Is(s, "timer") =>
          \/ ticket'[k].status = "GONE"
          \/ ticket'[k].status = "CLOSED" /\ ticket'[k].text \in Nat
             /\ (channel'[k] = "LOCKED" => ticket'[k].text = written'[k])
    BY <2>7 DEF Whole
  <2>9. Is(s, "store") => (channel'[k] = "LOCKED" => task'[s].n = written'[k])
    BY <2>1, <2>6 DEF Whole
  <2> QED BY <1>1, <2>1, <2>3, <2>4, <2>5, <2>8, <2>9 DEF TaskRules, Whole
<1> QED BY <1>2, <1>3

\* So do the rules of the others while one closes their ticket.
LEMMA GentleStays ==
    ASSUME Archive, NEW t \in Tasks, Closing(t), NEW s \in Tasks, s # t, task'[s] = task[s],
           Concerned(s), task[s].k = task[t].k, Gentle(task[t].k)
    PROVE  TaskRules(s)'
<1> PICK k : k = task[t].k
  OBVIOUS
<1>1. TaskRules(s) /\ TaskRules(t) /\ ~Held(s) BY DEF Archive, Alone, Held
<1>2. ticket[k].status \in {"OPEN", "GONE"} BY <1>1 DEF TaskRules
<1>3. ~Closing(s) /\ ~Is(s, "store") /\ ~Is(s, "answer") BY <1>1 DEF Held, Closing
<1>4. Opening(s) => ticket'[k].status # "NONE" BY <1>1 DEF TaskRules, Gentle
<1>5. Is(s, "uncount") => ticket'[k].status = "GONE" \/ (ticket'[k].status # "NONE" /\ ticket'[k].undone)
  BY <1>1 DEF TaskRules, Gentle
<1>6. Is(s, "timer") => ticket'[k].status = "GONE" BY <1>1, <1>2 DEF TaskRules, Gentle
<1>7. k \in Tickets BY <1>1 DEF TaskRules
<1>8. /\ Opening(s)' <=> Opening(s)
      /\ ~Held(s)' /\ ~Closing(s)'
      /\ \A at : Is(s, at)' <=> Is(s, at)
  BY <1>1, <1>3 DEF Opening, Held, Closing, Is
<1> QED BY <1>3, <1>4, <1>5, <1>6, <1>7, <1>8 DEF TaskRules

\* A step of one task keeps all rules if it keeps its own and leaves the tickets alone, but
\* for the one it closes.
LEMMA OneArchive ==
    ASSUME Archive, NEW t \in Tasks, Others(t), TaskRules(t)',
           Held(t)' => \/ Held(t) /\ task'[t].k = task[t].k
                       \/ task'[t].k \notin busy,
           \A l \in Tickets : \/ Loose(l) /\ (l \in busy => l \in busy' \/ (Held(t) /\ l = task[t].k))
                              \/ Closing(t) /\ l = task[t].k /\ Gentle(l)
    PROVE  Archive'
<1>1. ASSUME NEW s \in Tasks, s # t PROVE TaskRules(s)'
  <2>1. TaskRules(s) /\ task'[s] = task[s] BY <1>1 DEF Archive, Others
  <2>2. CASE ~Concerned(s)
    <3>1. ~Held(s) BY <2>2 DEF Concerned
    <3> QED BY <2>1, <2>2, <3>1, LooseStays
  <2>3. CASE Concerned(s) /\ Closing(t) /\ task[s].k = task[t].k /\ Gentle(task[t].k)
    BY <1>1, <2>1, <2>3, GentleStays
  <2>4. CASE Concerned(s) /\ Loose(task[s].k)
             /\ (task[s].k \in busy => task[s].k \in busy' \/ (Held(t) /\ task[s].k = task[t].k))
    <3>1. Held(s) => task[s].k \in busy'
      <4>1. Held(s) => task[s].k \in busy BY <2>1 DEF TaskRules
      <4>2. Held(s) /\ Held(t) => task[s].k # task[t].k BY <1>1 DEF Archive, Alone
      <4> QED BY <2>4, <4>1, <4>2
    <3> QED BY <2>1, <2>4, <3>1, LooseStays
  <2>5. Concerned(s) => task[s].k \in Tickets BY <2>1 DEF TaskRules
  <2> QED BY <2>2, <2>3, <2>4, <2>5
<1>2. Alone'
  <2> SUFFICES ASSUME NEW r \in Tasks, NEW s \in Tasks, Held(r)', Held(s)', task'[r].k = task'[s].k
               PROVE  r = s
    BY DEF Alone
  <2>1. ASSUME NEW q \in Tasks, q # t, Held(q)' PROVE Held(q) /\ task'[q] = task[q] /\ task[q].k \in busy
    <3>1. Held(q) /\ task'[q] = task[q] BY <2>1 DEF Others, Held, Closing, Is
    <3> QED BY <3>1 DEF Archive, TaskRules
  <2>2. CASE r # t /\ s # t BY <2>1, <2>2 DEF Archive, Alone
  <2>3. CASE r = t /\ s # t BY <2>1, <2>3 DEF Archive, Alone
  <2>4. CASE r # t /\ s = t BY <2>1, <2>4 DEF Archive, Alone
  <2> QED BY <2>2, <2>3, <2>4
<1>3. \A s \in Tasks : TaskRules(s)' BY <1>1
<1> QED BY <1>2, <1>3 DEF Archive

\* A task that takes nothing for granted.
LEMMA Unconcerned ==
    ASSUME NEW t \in Tasks, ~Concerned(t)'
    PROVE  TaskRules(t)' /\ ~Held(t)'
  BY DEF TaskRules, Concerned, Numbered, Held, Closing, Whole

\* A task that ends, or goes on to a step that takes nothing for granted.
LEMMA LeaveUnconcerned ==
    ASSUME Types, NEW t \in Tasks, Leave(t)
    PROVE  Others(t) /\ TaskRules(t)' /\ ~Held(t)'
  BY LeaveTyped, Unconcerned DEF Types, Concerned, Numbered, Opening, Held, Closing, Is

\* A task that goes on keeps its ticket and its number.
LEMMA GotoFields ==
    ASSUME Types, NEW t \in Tasks, NEW from, NEW at \in Steps, Is(t, from), Goto(t, at)
    PROVE  Others(t) /\ task'[t].at = at /\ task'[t].k = task[t].k /\ task'[t].n = task[t].n
<1>1. Others(t) /\ task'[t] = [task[t] EXCEPT !.at = at] /\ task[t] \in Doing
  BY GotoTyped, TaskFields DEF Types
<1> QED BY <1>1 DEF Doing

\* What is written into a row without touching its status or its transcript.
LEMMA RowStays ==
    ASSUME Types, NEW k \in Tickets, NEW us,
           \/ ticket'[k] = ticket[k]
           \/ ticket'[k] = [ticket[k] EXCEPT !.known = TRUE]
           \/ ticket'[k] = [ticket[k] EXCEPT !.users = us]
           \/ ticket'[k] = [ticket[k] EXCEPT !.undone = TRUE]
    PROVE  /\ ticket'[k].status = ticket[k].status /\ ticket'[k].text = ticket[k].text
           /\ ticket[k].undone => ticket'[k].undone
<1> DEFINE Alike(q, r) == q.status = r.status /\ q.text = r.text /\ (r.undone => q.undone)
<1>1. ASSUME NEW r \in Rows
      PROVE  /\ Alike([r EXCEPT !.known = TRUE], r) /\ Alike([r EXCEPT !.users = us], r)
             /\ Alike([r EXCEPT !.undone = TRUE], r) /\ Alike(r, r)
  BY <1>1 DEF Rows
<1>2. ticket[k] \in Rows BY DEF Types, TypeOK
<1> HIDE DEF Alike
<1>3. Alike(ticket'[k], ticket[k]) BY <1>1, <1>2
<1> QED BY <1>3 DEF Alike

\* Opening a ticket, or giving it up, keeps the rules.
LEMMA OpenArchive ==
    ASSUME Types, Archive, NEW t \in Tasks,
           Open(t) \/ CreateInstance(t) \/ CreateChannel(t) \/ Ready(t) \/ Greet(t) \/ Reply(t) \/ OpenFails(t)
             \/ DeleteInstance(t) \/ Uncount(t)
    PROVE  Archive'
<1>t. TaskRules(t) BY DEF Archive
<1>b. busy' = busy /\ written' = written
  BY DEF Open, CreateInstance, CreateChannel, Ready, Greet, Reply, OpenFails, DeleteInstance, Uncount, rest
<1>1. CASE Open(t)
  <2>1. Plain("create") \in Doing /\ Plain("create").at = "create" BY TaskTyped DEF Plain, Steps, Task
  <2>2. Others(t) /\ task'[t].at = "create" BY <1>1, <2>1, BeginTyped DEF Open, Types
  <2>3. ~Concerned(t)' BY <2>2 DEF Concerned, Numbered, Opening, Held, Closing, Is
  <2>4. \A l \in Tickets : Loose(l) BY <1>1, <1>b DEF Open, Loose
  <2> QED BY <1>b, <2>2, <2>3, <2>4, Unconcerned, OneArchive
<1>2. CASE CreateInstance(t)
  <2>1. CASE Fence /\ \E x \in Tickets : ticket[x].status = "NONE"
    <3>1. PICK k \in Tickets : k = (CHOOSE x \in Tickets : ticket[x].status = "NONE") /\ ticket[k].status = "NONE"
      BY <2>1
    <3>2. PICK number : number = template.counter + 1
      OBVIOUS
    <3> DEFINE row == [NoTicket EXCEPT !.status = "OPEN", !.number = number, !.linked = TRUE]
    <3>3. ticket' = [ticket EXCEPT ![k] = row] /\ Become(t, Task("channel", k, None, {}, number, TRUE))
          /\ channel' = channel
      BY <1>2, <2>1, <3>1, <3>2 DEF CreateInstance
    <3>4. row.status = "OPEN" BY DEF NoTicket
    <3> HIDE DEF row
    <3>5. ticket'[k] = row /\ \A l \in Tickets : l # k => ticket'[l] = ticket[l] BY <3>3 DEF Types, TypeOK
    <3>6. \A l \in Tickets : Loose(l) BY <1>b, <3>1, <3>3, <3>5 DEF Loose
    <3>7. Others(t) /\ task'[t] = Task("channel", k, None, {}, number, TRUE) BY <3>3 DEF Become, Others, Types, TypeOK
    <3>8. task'[t].at = "channel" /\ task'[t].k = k BY <3>7 DEF Task
    <3>9. TaskRules(t)' /\ ~Held(t)'
      BY <3>4, <3>5, <3>8 DEF TaskRules, Concerned, Numbered, Opening, Held, Closing, Is
    <3> QED BY <1>b, <3>6, <3>7, <3>9, OneArchive
  <2>2. CASE ~(Fence /\ \E x \in Tickets : ticket[x].status = "NONE")
    <3>1. Leave(t) /\ UNCHANGED <<ticket, channel>> BY <1>2, <2>2 DEF CreateInstance
    <3>2. \A l \in Tickets : Loose(l) BY <1>b, <3>1 DEF Loose
    <3> QED BY <1>b, <3>1, <3>2, LeaveUnconcerned, OneArchive
  <2> QED BY <2>1, <2>2
<1>3. CASE CreateChannel(t) \/ Ready(t) \/ Greet(t) \/ OpenFails(t)
  <2>1. PICK from \in {"channel", "ready", "greet", "reply"} : Is(t, from)
    BY <1>3 DEF CreateChannel, Ready, Greet, OpenFails
  <2>2. PICK at \in {"ready", "greet", "reply", "undo"} : Goto(t, at)
    BY <1>3 DEF CreateChannel, Ready, Greet, OpenFails
  <2>3. Others(t) /\ task'[t].at = at /\ task'[t].k = task[t].k BY <2>1, <2>2, GotoFields DEF Steps
  <2>4. PICK k \in Tickets : k = task[t].k BY <1>t, <2>1 DEF TaskRules, Concerned, Numbered, Opening
  <2>5. ticket[k].status # "NONE" BY <1>t, <2>1, <2>4 DEF TaskRules, Opening
  <2>6. ticket' = ticket \/ ticket' = [ticket EXCEPT ![k].known = TRUE]
    BY <1>3, <2>4 DEF CreateChannel, Ready, Greet, OpenFails
  <2>7. \A l \in Tickets : ticket'[l] = ticket[l] \/ ticket'[l] = [ticket[l] EXCEPT !.known = TRUE]
    BY <2>6 DEF Types, TypeOK
  <2>8. channel' = channel \/ channel' = [channel EXCEPT ![k] = "NEW"] \/ channel' = [channel EXCEPT ![k] = "OPEN"]
    BY <1>3, <2>4 DEF CreateChannel, Ready, Greet, OpenFails
  <2>9. \A l \in Tickets : channel'[l] = "LOCKED" => channel[l] = "LOCKED" BY <2>8 DEF Types, TypeOK
  <2>10. ASSUME NEW l \in Tickets PROVE Loose(l) BY <1>b, <2>7, <2>9, RowStays DEF Loose
  <2>11. ticket'[k].status # "NONE" BY <2>5, <2>10, RowStays, <2>7
  <2>12. TaskRules(t)' /\ ~Held(t)'
    BY <2>3, <2>4, <2>11 DEF TaskRules, Concerned, Numbered, Opening, Held, Closing, Is
  <2> QED BY <1>b, <2>3, <2>10, <2>12, OneArchive
<1>4. CASE Reply(t)
  <2>1. Leave(t) /\ UNCHANGED <<ticket, channel>> BY <1>4 DEF Reply
  <2>2. \A l \in Tickets : Loose(l) BY <1>b, <2>1 DEF Loose
  <2> QED BY <1>b, <2>1, <2>2, LeaveUnconcerned, OneArchive
<1>5. CASE DeleteInstance(t)
  <2>1. Is(t, "undo") /\ Goto(t, "uncount") /\ channel' = channel BY <1>5 DEF DeleteInstance
  <2>2. PICK k \in Tickets : k = task[t].k BY <1>t, <2>1 DEF TaskRules, Concerned, Numbered, Opening
  <2>3. Others(t) /\ task'[t].at = "uncount" /\ task'[t].k = k BY <2>1, <2>2, GotoFields DEF Steps
  <2>4. ticket[k].status # "NONE" BY <1>t, <2>1, <2>2 DEF TaskRules, Opening
  <2>5. /\ \A l \in Tickets : Loose(l)
        /\ ticket'[k].status = "GONE" \/ (ticket'[k].status # "NONE" /\ ticket'[k].undone)
    <3>1. CASE ticket' = [ticket EXCEPT ![k] = [NoTicket EXCEPT !.status = "GONE"]]
      <4>1. ticket'[k].status = "GONE"
        <5>1. ticket'[k] = [NoTicket EXCEPT !.status = "GONE"] BY <3>1 DEF Types, TypeOK
        <5> QED BY <5>1 DEF NoTicket
      <4>2. \A l \in Tickets : l # k => ticket'[l] = ticket[l] BY <3>1 DEF Types, TypeOK
      <4> QED BY <1>b, <2>1, <4>1, <4>2 DEF Loose
    <3>2. CASE ticket' = Undone(k)
      <4>1. \A l \in Tickets : ticket'[l] = ticket[l] \/ ticket'[l] = [ticket[l] EXCEPT !.undone = TRUE]
        BY <3>2 DEF Undone, Types, TypeOK
      <4>2. ASSUME NEW l \in Tickets PROVE Loose(l) BY <1>b, <2>1, <4>1, RowStays DEF Loose
      <4>3. ticket'[k] = [ticket[k] EXCEPT !.undone = TRUE] /\ ticket[k] \in Rows
        BY <3>2 DEF Undone, Types, TypeOK
      <4>4. ticket'[k].undone /\ ticket'[k].status = ticket[k].status BY <4>3 DEF Rows
      <4> QED BY <2>4, <4>2, <4>4
    <3> QED BY <1>5, <2>2, <3>1, <3>2 DEF DeleteInstance
  <2>6. TaskRules(t)' /\ ~Held(t)'
    BY <2>2, <2>3, <2>5 DEF TaskRules, Concerned, Numbered, Opening, Held, Closing, Is
  <2> QED BY <1>b, <2>3, <2>5, <2>6, OneArchive
<1>6. CASE Uncount(t)
  <2> DEFINE gone == [channel EXCEPT ![task[t].k] = IF @ = "NONE" THEN @ ELSE "DELETED"]
  <2>1. Leave(t) /\ ticket' = ticket /\ channel' \in {channel, gone} BY <1>6 DEF Uncount
  <2>2. \A l \in Tickets : channel'[l] = "LOCKED" => channel[l] = "LOCKED" BY <2>1 DEF Types, TypeOK
  <2>3. \A l \in Tickets : Loose(l) BY <1>b, <2>1, <2>2 DEF Loose
  <2> QED BY <1>b, <2>1, <2>3, LeaveUnconcerned, OneArchive
<1> QED BY <1>1, <1>2, <1>3, <1>4, <1>5, <1>6

\* A row that is closed keeps its history.
LEMMA RowClosed ==
    ASSUME Types, NEW k \in Tickets, NEW text, Closed(k, text)
    PROVE  /\ ticket'[k].status = "CLOSED" /\ ticket'[k].text = text
           /\ ticket[k].undone => ticket'[k].undone
           /\ \A l \in Tickets : l # k => ticket'[l] = ticket[l]
<1>1. ticket[k] \in Rows /\ ticket'[k] = [ticket[k] EXCEPT !.status = "CLOSED", !.text = text]
  BY DEF Closed, Types, TypeOK
<1>2. \A l \in Tickets : l # k => ticket'[l] = ticket[l] BY DEF Closed, Types, TypeOK
<1>3. ticket'[k].status = "CLOSED" /\ ticket'[k].text = text BY <1>1 DEF Rows
<1>4. ticket'[k].undone <=> ticket[k].undone BY <1>1 DEF Rows
<1> QED BY <1>2, <1>3, <1>4

\* Closing a ticket keeps the rules: where the channel is locked nothing is written between
\* the count and the end.
LEMMA CloseArchive ==
    ASSUME Types, Archive, NEW t \in Tasks,
           (\E k \in Tickets : Close(t, k)) \/ Lock(t) \/ LockNothing(t) \/ Collect(t) \/ Store(t) \/ Answer(t)
             \/ DeleteChannel(t) \/ CloseFails(t)
    PROVE  Archive'
<1>t. TaskRules(t) BY DEF Archive
<1>w. written' = written
  BY DEF Close, Lock, LockNothing, Collect, Store, Answer, DeleteChannel, CloseFails, rest
<1>1. ASSUME NEW k \in Tickets, Close(t, k) PROVE Archive'
  <2>1. Task("lock", k, None, {}, 0, TRUE) \in Doing BY TaskTyped DEF Steps
  <2>2. Others(t) /\ task'[t] = Task("lock", k, None, {}, 0, TRUE) BY <1>1, <2>1, BeginTyped DEF Close, Types
  <2>3. task'[t].at = "lock" /\ task'[t].k = k BY <2>2 DEF Task
  <2>4. ticket[k].status = "OPEN" /\ k \notin busy /\ busy' = busy \union {k} /\ ticket' = ticket /\ channel' = channel
    BY <1>1 DEF Close
  <2>5. TaskRules(t)' BY <2>3, <2>4 DEF TaskRules, Concerned, Numbered, Opening, Held, Closing, Is
  <2>6. \A l \in Tickets : Loose(l) /\ (l \in busy => l \in busy') BY <1>w, <2>4 DEF Loose
  <2> QED BY <2>2, <2>3, <2>4, <2>5, <2>6, OneArchive
<1>2. CASE Lock(t)
  <2>1. Is(t, "lock") /\ Goto(t, "collect") /\ ticket' = ticket /\ busy' = busy BY <1>2 DEF Lock, rest
  <2>2. PICK k \in Tickets : k = task[t].k BY <1>t, <2>1 DEF TaskRules, Concerned, Held, Closing
  <2>3. Others(t) /\ task'[t].at = "collect" /\ task'[t].k = k BY <2>1, <2>2, GotoFields DEF Steps
  <2>4. Closing(t) /\ Held(t) BY <2>1 DEF Closing, Held
  <2>5. k \in busy /\ ticket[k].status \in {"OPEN", "GONE"} BY <1>t, <2>2, <2>4 DEF TaskRules
  <2>6. TaskRules(t)' BY <2>1, <2>3, <2>5 DEF TaskRules, Concerned, Numbered, Opening, Held, Closing, Is
  <2>7. \A l \in Tickets : l # k => channel'[l] = channel[l] BY <1>2, <2>2 DEF Lock, Types, TypeOK
  <2>8. \A l \in Tickets : l # k => Loose(l) BY <1>w, <2>1, <2>7 DEF Loose
  <2>9. Gentle(k) BY <2>1 DEF Gentle
  <2> QED BY <2>1, <2>2, <2>3, <2>4, <2>6, <2>8, <2>9, OneArchive
<1>3. CASE LockNothing(t)
  <2>1. Is(t, "lock") /\ Leave(t) /\ channel' = channel BY <1>3 DEF LockNothing
  <2>2. PICK k \in Tickets : k = task[t].k BY <1>t, <2>1 DEF TaskRules, Concerned, Held, Closing
  <2>3. busy' = busy \ {k} BY <1>3, <2>2 DEF LockNothing
  <2>4. Closing(t) /\ Held(t) BY <2>1 DEF Closing, Held
  <2>5. Gentle(k) /\ \A l \in Tickets : l # k => ticket'[l] = ticket[l]
    <3>1. CASE Exists(k)
      <4>1. Closed(k, ticket[k].text) BY <1>3, <2>2, <3>1 DEF LockNothing
      <4> QED BY <3>1, <4>1, RowClosed DEF Gentle, Exists
    <3>2. CASE ~Exists(k)
      <4>1. ticket' = ticket BY <1>3, <2>2, <3>2 DEF LockNothing
      <4> QED BY <4>1 DEF Gentle
    <3> QED BY <3>1, <3>2
  <2>6. \A l \in Tickets : l # k => Loose(l) BY <1>w, <2>1, <2>5 DEF Loose
  <2> QED BY <2>1, <2>2, <2>3, <2>4, <2>5, <2>6, LeaveUnconcerned, OneArchive
<1>4. CASE Collect(t)
  <2>1. Is(t, "collect") /\ ticket' = ticket /\ busy' = busy /\ channel' = channel BY <1>4 DEF Collect, rest
  <2>2. PICK k \in Tickets : k = task[t].k BY <1>t, <2>1 DEF TaskRules, Concerned, Held, Closing
  <2>3. task[t] \in Doing BY <2>1, TaskFields DEF Types
  <2>4. Others(t) /\ task'[t] = [task[t] EXCEPT !.at = "store", !.n = written[k]]
    BY <1>4, <2>2 DEF Collect, Others, Types, TypeOK
  <2>5. task'[t].at = "store" /\ task'[t].k = k /\ task'[t].n = written[k] BY <2>2, <2>3, <2>4 DEF Doing
  <2>6. Held(t) /\ k \in busy /\ ticket[k].status \in {"OPEN", "GONE"}
    BY <1>t, <2>1, <2>2 DEF TaskRules, Held, Closing
  <2>7. TaskRules(t)'
    BY <1>w, <2>1, <2>5, <2>6 DEF TaskRules, Whole, Concerned, Numbered, Opening, Held, Closing, Is
  <2>8. \A l \in Tickets : Loose(l) BY <1>w, <2>1 DEF Loose
  <2> QED BY <2>1, <2>2, <2>4, <2>5, <2>6, <2>7, <2>8, OneArchive
<1>5. CASE Store(t)
  <2>1. Is(t, "store") /\ Goto(t, "answer") /\ busy' = busy /\ channel' = channel BY <1>5 DEF Store, rest
  <2>2. PICK k \in Tickets : k = task[t].k BY <1>t, <2>1 DEF TaskRules, Concerned, Held, Closing
  <2>3. Others(t) /\ task'[t].at = "answer" /\ task'[t].k = k BY <2>1, <2>2, GotoFields DEF Steps
  <2>4. Closing(t) /\ Held(t) BY <2>1 DEF Closing, Held
  <2>5. PICK n \in Nat : n = task[t].n BY <2>1, TaskFields DEF Types
  <2>6. k \in busy /\ Whole(k, n) BY <1>t, <2>1, <2>2, <2>4, <2>5 DEF TaskRules
  <2>7. Exists(k) /\ Closed(k, n) BY <1>5, <2>2, <2>5 DEF Store
  <2>8. /\ ticket'[k].status = "CLOSED" /\ ticket'[k].text = n
        /\ \A l \in Tickets : l # k => ticket'[l] = ticket[l]
    BY <2>7, RowClosed
  <2>9. TaskRules(t)'
    BY <1>w, <2>1, <2>3, <2>5, <2>6, <2>8 DEF TaskRules, Whole, Concerned, Numbered, Opening, Held, Closing, Is
  <2>10. Gentle(k) BY <2>7, <2>8, RowClosed DEF Gentle, Exists
  <2>11. \A l \in Tickets : l # k => Loose(l) BY <1>w, <2>1, <2>8 DEF Loose
  <2> QED BY <2>1, <2>2, <2>3, <2>4, <2>9, <2>10, <2>11, OneArchive
<1>6. CASE Answer(t)
  <2>1. Is(t, "answer") /\ Goto(t, "timer") /\ ticket' = ticket /\ channel' = channel BY <1>6 DEF Answer
  <2>2. PICK k \in Tickets : k = task[t].k BY <1>t, <2>1 DEF TaskRules, Concerned, Held
  <2>3. Others(t) /\ task'[t].at = "timer" /\ task'[t].k = k BY <2>1, <2>2, GotoFields DEF Steps
  <2>4. Held(t) /\ busy' = busy \ {k} BY <1>6, <2>1, <2>2 DEF Held, Answer
  <2>5. TaskRules(t)'
    BY <1>t, <1>w, <2>1, <2>2, <2>3 DEF TaskRules, Whole, Concerned, Numbered, Opening, Held, Closing, Is
  <2>6. ~Held(t)' BY <2>3 DEF Held, Closing, Is
  <2>7. \A l \in Tickets : Loose(l) BY <1>w, <2>1 DEF Loose
  <2> QED BY <2>2, <2>3, <2>4, <2>5, <2>6, <2>7, OneArchive
<1>7. CASE DeleteChannel(t)
  <2>1. Leave(t) /\ ticket' = ticket /\ busy' = busy BY <1>7 DEF DeleteChannel, rest
  <2>2. \A l \in Tickets : channel'[l] = "LOCKED" => channel[l] = "LOCKED" BY <1>7 DEF DeleteChannel, Types, TypeOK
  <2>3. \A l \in Tickets : Loose(l) BY <1>w, <2>1, <2>2 DEF Loose
  <2> QED BY <2>1, <2>3, LeaveUnconcerned, OneArchive
<1>8. CASE CloseFails(t)
  <2>1. Held(t) /\ Leave(t) /\ ticket' = ticket BY <1>8 DEF CloseFails, Held, Closing
  <2>2. busy' = busy \ {task[t].k} BY <1>8 DEF CloseFails
  <2>3. \A l \in Tickets : channel'[l] = "LOCKED" => channel[l] = "LOCKED"
    BY <1>8 DEF CloseFails, Unlocked, Types, TypeOK
  <2>4. \A l \in Tickets : Loose(l) BY <1>w, <2>1, <2>3 DEF Loose
  <2> QED BY <2>1, <2>2, <2>4, LeaveUnconcerned, OneArchive
<1> QED BY <1>1, <1>2, <1>3, <1>4, <1>5, <1>6, <1>7, <1>8

\* A task that goes to a step which is none of an opening or a close.
LEMMA AwayUnconcerned ==
    ASSUME NEW t \in Tasks, task'[t].at \in {"reset", "grant", "write", "revoke"}
    PROVE  TaskRules(t)' /\ ~Held(t)'
<1>1. ~Concerned(t)' BY DEF Concerned, Numbered, Opening, Held, Closing, Is
<1> QED BY <1>1, Unconcerned

\* The dashboard, where it deletes nothing, has nothing to do with the tickets.
LEMMA ResetArchive ==
    ASSUME Types, Archive, NEW t \in Tasks, ResetCounter(t) \/ SetCounter(t)
    PROVE  Archive'
<1>1. \A l \in Tickets : Loose(l) /\ (l \in busy => l \in busy') BY DEF ResetCounter, SetCounter, Loose, rest
<1>2. CASE ResetCounter(t)
  <2>1. Plain("reset") \in Doing /\ Plain("reset").at = "reset" BY TaskTyped DEF Plain, Steps, Task
  <2>2. Others(t) /\ task'[t].at = "reset" BY <1>2, <2>1, BeginTyped DEF ResetCounter, Types
  <2> QED BY <1>1, <2>2, AwayUnconcerned, OneArchive
<1>3. CASE SetCounter(t)
  <2>1. Leave(t) BY <1>3 DEF SetCounter
  <2> QED BY <1>1, <2>1, LeaveUnconcerned, OneArchive
<1> QED BY <1>2, <1>3

\* No change of the users of a ticket touches its transcript.
LEMMA UsersArchive ==
    ASSUME Types, Archive, NEW t \in Tasks,
           (\E k \in Tickets, u \in Users : AddUser(t, k, u) \/ RemoveUser(t, k, u)) \/ Grant(t) \/ WriteUsers(t)
             \/ Revoke(t)
    PROVE  Archive'
<1>1. UNCHANGED <<channel, written, busy>> BY DEF AddUser, RemoveUser, Grant, WriteUsers, Revoke, rest
<1>2. ASSUME NEW l \in Tickets PROVE Loose(l)
  <2>1. CASE ticket' = ticket BY <1>1, <2>1 DEF Loose
  <2>2. CASE ticket' # ticket
    <3>1. WriteUsers(t) BY <2>2 DEF AddUser, RemoveUser, Grant, Revoke
    <3>2. PICK k, us : ticket' = [ticket EXCEPT ![k].users = us] BY <2>2, <3>1 DEF WriteUsers
    <3>3. ticket'[l] = ticket[l] \/ ticket'[l] = [ticket[l] EXCEPT !.users = us] BY <3>2 DEF Types, TypeOK
    <3> QED BY <1>1, <3>3, RowStays DEF Loose
  <2> QED BY <2>1, <2>2
<1>3. Others(t) /\ TaskRules(t)' /\ ~Held(t)'
  <2>1. ASSUME NEW k \in Tickets, NEW u \in Users, AddUser(t, k, u) \/ RemoveUser(t, k, u)
        PROVE  Others(t) /\ task'[t].at \in {"grant", "write"}
    <3>1. PICK at \in {"grant", "write"}, ok \in BOOLEAN : Become(t, Task(at, k, u, ticket[k].users, 0, ok))
      BY <2>1 DEF AddUser, RemoveUser, Begin
    <3>2. ticket[k].users \in SUBSET Users BY DEF Types, TypeOK, Rows
    <3>3. Task(at, k, u, ticket[k].users, 0, ok) \in Doing BY <3>2, TaskTyped DEF Steps
    <3>4. task'[t] = Task(at, k, u, ticket[k].users, 0, ok) /\ Others(t) BY <3>1, <3>3, BecomeTyped DEF Types
    <3> QED BY <3>4 DEF Task
  <2>2. ASSUME NEW from, Is(t, from), NEW at \in {"write", "revoke"}, Goto(t, at)
        PROVE  Others(t) /\ task'[t].at = at
    BY <2>2, GotoFields DEF Steps
  <2>3. CASE Grant(t) BY <2>2, <2>3, AwayUnconcerned DEF Grant
  <2>4. CASE Revoke(t) BY <2>4, LeaveUnconcerned DEF Revoke
  <2>5. CASE WriteUsers(t)
    <3>1. CASE Leave(t) BY <3>1, LeaveUnconcerned
    <3>2. CASE Goto(t, "revoke") BY <2>2, <2>5, <3>2, AwayUnconcerned DEF WriteUsers
    <3>3. CASE \E us : task' = [task EXCEPT ![t].seen = us, ![t].n = @ + 1]
      <4>1. task[t] \in Doing /\ task[t].at = "write" BY <2>5, TaskFields DEF WriteUsers, Types, Is
      <4>2. Others(t) /\ task'[t].at = "write" BY <3>3, <4>1 DEF Others, Doing, Types, TypeOK
      <4> QED BY <4>2, AwayUnconcerned
    <3> QED BY <2>5, <3>1, <3>2, <3>3 DEF WriteUsers
  <2> QED BY <2>1, <2>3, <2>4, <2>5, AwayUnconcerned
<1> QED BY <1>1, <1>2, <1>3, OneArchive

\* Where nobody can write nothing is written; a process that dies leaves no task, and
\* tickets as they were.
LEMMA OutsideArchive ==
    ASSUME Types, Archive,
           (\E k \in Tickets : Post(k)) \/ Crash \/ (\E active \in BOOLEAN : Put(active)) \/ UNCHANGED vars
    PROVE  Archive'
<1>1. CASE Crash
  <2>1. \A t \in Tasks : task'[t] = None BY <1>1 DEF Crash
  <2>2. \A t \in Tasks : ~Concerned(t)' BY <2>1 DEF Concerned, Numbered, Opening, Held, Closing, Is
  <2> QED BY <2>2, Unconcerned DEF Archive, Alone
<1>2. CASE (\E k \in Tickets : Post(k)) \/ (\E active \in BOOLEAN : Put(active)) \/ UNCHANGED vars
  <2>1. task' = task /\ busy' = busy /\ ticket' = ticket /\ channel' = channel
    BY <1>2 DEF Post, Put, rest, vars
  <2>2. ASSUME NEW l \in Tickets, channel[l] = "LOCKED" PROVE written'[l] = written[l]
    BY <1>2, <2>2 DEF Post, Put, rest, vars, Types, TypeOK
  <2>3. \A l \in Tickets : Loose(l) BY <2>1, <2>2 DEF Loose
  <2>4. ASSUME NEW s \in Tasks PROVE TaskRules(s)'
    <3>1. TaskRules(s) /\ task'[s] = task[s] BY <2>1 DEF Archive
    <3>2. (Concerned(s) => Loose(task[s].k)) /\ (Held(s) => task[s].k \in busy')
      BY <2>1, <2>3, <3>1 DEF TaskRules
    <3> QED BY <3>1, <3>2, LooseStays
  <2>5. Alone' BY <2>1 DEF Archive, Alone, Held, Closing, Is
  <2> QED BY <2>4, <2>5 DEF Archive
<1> QED BY <1>1, <1>2

\* Where no deletion is asked for, none is under way.
LEMMA NoDeletion ==
    ASSUME MaxDeletes = 0, Deletions, NEW t \in Tasks,
           \/ Delete(t) \/ Off(t) \/ List(t) \/ Purged(t) \/ Recount(t) \/ Remove(t)
           \/ PurgeCollect(t) \/ PurgeDelete(t) \/ PurgeStore(t) \/ PurgeFails(t)
    PROVE  FALSE
<1>1. used.deletes = 0 /\ ~Deleting(t) BY DEF Deletions
<1>2. ~Delete(t) BY <1>1 DEF Delete, Use
<1> QED BY <1>1, <1>2 DEF Off, List, Purged, Recount, Remove, PurgeCollect, PurgeDelete, PurgeStore, PurgeFails,
         Deleting, Is

\* Every step keeps the rules, where nothing is deleted.
LEMMA ArchiveKept ==
    ASSUME MaxDeletes = 0, Types, Deletions, Archive, [Next]_vars
    PROVE  Archive'
<1>1. CASE Next
  BY <1>1, Grouped, NoDeletion, OpenArchive, CloseArchive, ResetArchive, UsersArchive, OutsideArchive
<1> QED BY <1>1, OutsideArchive

\* At the start there is no task.
LEMMA InitArchive == Init => Archive
<1> SUFFICES ASSUME Init PROVE Archive
  OBVIOUS
<1>1. \A t \in Tasks : task[t] = None BY DEF Init
<1>2. \A t \in Tasks : ~Concerned(t) /\ ~Held(t) BY <1>1 DEF Concerned, Numbered, Opening, Held, Closing, Is
<1> QED BY <1>2 DEF Archive, Alone, TaskRules, Concerned, Numbered, Held, Closing

\* By the rules a channel is deleted as promised.
LEMMA ArchivedStep ==
    ASSUME MaxDeletes = 0, Types, Deletions, Archive, [Next]_vars
    PROVE  [Archived]_vars
<1> SUFFICES ASSUME Next, NEW k \in Tickets, Present(k), channel'[k] = "DELETED", Kept(k)
             PROVE  /\ ticket[k].status = "CLOSED" /\ ticket[k].text \in Nat
                    /\ channel[k] = "LOCKED" => ticket[k].text = written[k]
  BY DEF Archived
<1>1. channel[k] # "DELETED" /\ channel[k] # "NONE" BY DEF Present
<1>2. PICK t \in Tasks : Uncount(t) \/ DeleteChannel(t)
  <2>1. PICK t \in Tasks : CreateChannel(t) \/ Greet(t) \/ Uncount(t) \/ Lock(t) \/ DeleteChannel(t) \/ CloseFails(t)
    <3>1. channel' # channel BY <1>1
    <3>2. ASSUME NEW t \in Tasks, ~(CreateChannel(t) \/ Greet(t) \/ Uncount(t)),
                 Open(t) \/ CreateInstance(t) \/ CreateChannel(t) \/ Ready(t) \/ Greet(t) \/ Reply(t)
                   \/ OpenFails(t) \/ DeleteInstance(t) \/ Uncount(t)
          PROVE  FALSE
      BY <3>1, <3>2 DEF Open, CreateInstance, Ready, Reply, OpenFails, DeleteInstance
    <3>3. ASSUME NEW t \in Tasks, ~(Lock(t) \/ DeleteChannel(t) \/ CloseFails(t)),
                 (\E l \in Tickets : Close(t, l)) \/ Lock(t) \/ LockNothing(t) \/ Collect(t) \/ Store(t)
                   \/ Answer(t) \/ DeleteChannel(t) \/ CloseFails(t)
          PROVE  FALSE
      BY <3>1, <3>3 DEF Close, LockNothing, Collect, Store, Answer
    <3>4. ASSUME NEW t \in Tasks,
                 ResetCounter(t) \/ SetCounter(t) \/ (\E l \in Tickets, u \in Users : AddUser(t, l, u) \/ RemoveUser(t, l, u))
                   \/ Grant(t) \/ WriteUsers(t) \/ Revoke(t)
          PROVE  FALSE
      BY <3>1, <3>4 DEF ResetCounter, SetCounter, AddUser, RemoveUser, Grant, WriteUsers, Revoke, rest
    <3>5. ASSUME (\E l \in Tickets : Post(l)) \/ (\E active \in BOOLEAN : Put(active)) \/ Crash PROVE FALSE
      BY <3>1, <3>5 DEF Post, Put, Crash, rest
    <3> QED BY <3>2, <3>3, <3>4, <3>5, Grouped, NoDeletion
  <2>2. ASSUME CreateChannel(t) \/ Greet(t) PROVE FALSE BY <1>1, <2>2 DEF CreateChannel, Greet, Types, TypeOK
  <2>3. ASSUME Lock(t) PROVE FALSE BY <1>1, <2>3 DEF Lock, Locked, Types, TypeOK
  <2>4. ASSUME CloseFails(t) PROVE FALSE BY <1>1, <2>4 DEF CloseFails, Unlocked, Types, TypeOK
  <2> QED BY <2>1, <2>2, <2>3, <2>4
<1>3. TaskRules(t) BY DEF Archive
<1>4. task[t].k = k
  <2>1. channel' = channel \/ (\E v \in {"DELETED", "NONE"} : channel' = [channel EXCEPT ![task[t].k] = v])
    BY <1>2 DEF Uncount, DeleteChannel
  <2> QED BY <1>1, <2>1 DEF Types, TypeOK
<1>5. Exists(k) /\ ~ticket[k].undone BY DEF Kept
<1>6. ~Uncount(t)
  <2>1. ASSUME Is(t, "uncount") PROVE FALSE BY <1>3, <1>4, <1>5, <2>1 DEF TaskRules, Exists
  <2> QED BY <2>1 DEF Uncount
<1>7. Is(t, "timer") BY <1>2, <1>6 DEF DeleteChannel
<1> QED BY <1>3, <1>4, <1>5, <1>7 DEF TaskRules, Whole, Exists

\* closeTicketLocked: a channel goes only when its ticket is closed with a transcript, whatever
\* fails and whenever the process dies, and the transcript holds all that the opener and
\* the staff wrote if they could be locked out; where the template is not deleted (a deletion
\* collects without a lock, and deletes the channel before it stores the transcript).
THEOREM ArchiveCompleteHolds ==
    ASSUME MaxDeletes = 0
    PROVE  Spec => ArchiveComplete
<1>1. Init => Types /\ Deletions /\ Archive BY InitTypes, InitDeletions, InitArchive
<1>2. Types /\ Deletions /\ Archive /\ [Next]_vars => (Types /\ Deletions /\ Archive)'
  BY TypesKept, DeletionsKept, ArchiveKept
<1>3. Types /\ Deletions /\ Archive /\ [Next]_vars => [Archived]_vars BY ArchivedStep
<1> QED BY <1>1, <1>2, <1>3, PTL DEF Spec, ArchiveComplete
=============================================================================
