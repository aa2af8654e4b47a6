------------------------------ MODULE Tickets ------------------------------
(***************************************************************************)
(* The tickets of one template: opened by button, closed with a            *)
(* transcript, given further users, and purged when the template is        *)
(* deleted in the dashboard (src/modules/tickets/ticketSystem.ts,          *)
(* src/dashboard/routes/v2/tickets.ts).                                    *)
(*                                                                         *)
(* Tickets are numbered as their rows are created.  A transcript is the    *)
(* number of messages it holds.  Only those of the opener and the staff    *)
(* role are counted, whom a close locks out; what managers and added users *)
(* write, whom it does not, is left out, as are embeds and attachments.    *)
(***************************************************************************)
EXTENDS FiniteSets, Naturals

CONSTANTS
    Tickets,            \* 1..n
    Users,              \* whom staff may add
    Tasks,              \* what may be under way at once
    Retries,            \* casMutateTicketUserIds
    None,
    Puts, Resets,       \* whether the dashboard switches the template, resets its counter
    MaxCommands, MaxDeletes, MaxMessages, MaxFaults \* bounds: requests, deletions among them, messages, failures

VARIABLES
    template,           \* TicketTemplate: exists, active, counter
    ticket,             \* [Tickets -> TicketInstance], status GONE when deleted again
    channel,            \* [Tickets -> its state at Discord], NEW until the close button is in it
    written,            \* [Tickets -> messages in the channel]
    access,             \* [Tickets -> added users with a permission at Discord]
    busy,               \* tickets with an instance lock
    task,               \* [Tasks -> what it does, None]
    used

vars == <<template, ticket, channel, written, access, busy, task, used>>
rest == <<written, access, busy>>

NoTicket == [status |-> "NONE", number |-> 0, known |-> FALSE, linked |-> FALSE, undone |-> FALSE,
             text |-> None, users |-> {}]

Init ==
    /\ template = [exists |-> TRUE, active |-> TRUE, counter |-> 0]
    /\ ticket = [k \in Tickets |-> NoTicket] /\ channel = [k \in Tickets |-> "NONE"]
    /\ written = [k \in Tickets |-> 0] /\ access = [k \in Tickets |-> {}] /\ busy = {}
    /\ task = [t \in Tasks |-> None] /\ used = [commands |-> 0, deletes |-> 0, messages |-> 0, faults |-> 0]

Steps == {"create", "channel", "ready", "greet", "reply", "undo", "uncount",
          "lock", "collect", "store", "answer", "timer",
          "off", "list", "purge", "delete", "archive", "recount", "remove", "reset", "grant", "write", "revoke"}
Task(at, k, u, seen, n, ok) ==
    [at |-> at, k |-> k, u |-> u, seen |-> seen, todo |-> {}, n |-> n, ok |-> ok, failed |-> FALSE]
Plain(at) == Task(at, None, None, {}, 0, TRUE)

\* undone (history): the opening failed, and so did the deletion of its row.
Rows == [status : {"NONE", "OPEN", "CLOSED", "GONE"}, number : Nat, known : BOOLEAN, linked : BOOLEAN,
         undone : BOOLEAN, text : Nat \union {None}, users : SUBSET Users]
\* seen: the users that were read; todo: the tickets a purge has read, with whether
\* they had a channel; n: a number, a count of messages or attempts; ok: whether to
\* add, whether the template was active; failed: whether the purge of a ticket failed.
Doing == [at : Steps, k : Tickets \union {None}, u : Users \union {None}, seen : SUBSET Users,
          todo : SUBSET (Tickets \X BOOLEAN), n : Nat, ok : BOOLEAN, failed : BOOLEAN]

TypeOK ==
    /\ template \in [exists : BOOLEAN, active : BOOLEAN, counter : Nat]
    /\ ticket \in [Tickets -> Rows] /\ channel \in [Tickets -> {"NONE", "NEW", "OPEN", "LOCKED", "DELETED"}]
    /\ written \in [Tickets -> Nat] /\ access \in [Tickets -> SUBSET Users] /\ busy \subseteq Tickets
    /\ task \in [Tasks -> Doing \union {None}]

Is(t, at) == task[t] # None /\ task[t].at = at
Become(t, new) == task' = [task EXCEPT ![t] = new]
Goto(t, at) == task' = [task EXCEPT ![t].at = at]
Leave(t) == Become(t, None)
Use(what, max) == used[what] < max /\ used' = [used EXCEPT ![what] = @ + 1]
Begin(t, new) == task[t] = None /\ Use("commands", MaxCommands) /\ Become(t, new)
Fault == Use("faults", MaxFaults)

Exists(k) == ticket[k].status \in {"OPEN", "CLOSED"}
OpenTickets == {k \in Tickets : ticket[k].status = "OPEN"}
Present(k) == channel[k] \in {"NEW", "OPEN", "LOCKED"}
\* An update by id: a row that is gone is an error.
Closed(k, text) == ticket' = [ticket EXCEPT ![k].status = "CLOSED", ![k].text = text]

-----------------------------------------------------------------------------
(* openTicketLocked *)

Open(t) ==
    /\ template.exists /\ template.active /\ Begin(t, Plain("create"))
    /\ UNCHANGED <<template, ticket, channel, rest>>

\* Mutant of Fence: a click that came before the deletion still opens.
FenceNone == template.exists
\* Mutant of Uncounted: the counter goes back without a comparison.
UncountedAlways(n) == [template EXCEPT !.counter = @ - 1]

\* The delete fence.
Fence == template.exists /\ template.active

CreateInstance(t) ==
    LET k == CHOOSE x \in Tickets : ticket[x].status = "NONE"
        number == template.counter + 1
    IN  /\ Is(t, "create")
        /\ IF Fence /\ \E x \in Tickets : ticket[x].status = "NONE"
           THEN /\ template' = [template EXCEPT !.counter = number]
                /\ ticket' = [ticket EXCEPT ![k] = [NoTicket EXCEPT !.status = "OPEN", !.number = number, !.linked = TRUE]]
                /\ Become(t, Task("channel", k, None, {}, number, TRUE))
           ELSE Leave(t) /\ UNCHANGED <<template, ticket>>
        /\ UNCHANGED <<channel, rest, used>>

CreateChannel(t) ==
    /\ Is(t, "channel") /\ channel' = [channel EXCEPT ![task[t].k] = "NEW"] /\ Goto(t, "ready")
    /\ UNCHANGED <<template, ticket, rest, used>>

\* channelId is stored.
Ready(t) ==
    /\ Is(t, "ready") /\ ticket' = [ticket EXCEPT ![task[t].k].known = TRUE] /\ Goto(t, "greet")
    /\ UNCHANGED <<template, channel, rest, used>>

\* The welcome message carries the close button; more messages and the reply follow.
Greet(t) ==
    /\ Is(t, "greet") /\ channel[task[t].k] = "NEW"
    /\ channel' = [channel EXCEPT ![task[t].k] = "OPEN"] /\ Goto(t, "reply")
    /\ UNCHANGED <<template, ticket, rest, used>>
Reply(t) == Is(t, "reply") /\ Leave(t) /\ UNCHANGED <<template, ticket, channel, rest, used>>

\* Something fails, be it the last reply: the row is deleted, then the counter goes back if
\* no later number was given out, and the channel is deleted.  Each may fail in silence,
\* and the next is done all the same.
OpenFails(t) ==
    /\ \/ Is(t, "greet") /\ ~Present(task[t].k) /\ UNCHANGED used
       \/ (Is(t, "channel") \/ Is(t, "ready") \/ Is(t, "greet") \/ Is(t, "reply")) /\ Fault
    /\ Goto(t, "undo") /\ UNCHANGED <<template, ticket, channel, rest>>

Undone(k) == [ticket EXCEPT ![k].undone = TRUE]
DeleteInstance(t) ==
    LET k == task[t].k
    IN  /\ Is(t, "undo") /\ Goto(t, "uncount") /\ UNCHANGED <<template, channel, rest>>
        /\ \/ ticket' = [ticket EXCEPT ![k] = [NoTicket EXCEPT !.status = "GONE"]] /\ UNCHANGED used
           \/ ticket' = Undone(k) /\ Fault

Uncounted(n) == IF template.exists /\ template.counter = n THEN [template EXCEPT !.counter = n - 1] ELSE template
Uncount(t) ==
    LET gone == [channel EXCEPT ![task[t].k] = IF @ = "NONE" THEN @ ELSE "DELETED"]
    IN  /\ Is(t, "uncount") /\ Leave(t) /\ UNCHANGED <<ticket, rest>>
        /\ \/ template' = Uncounted(task[t].n) /\ channel' = gone /\ UNCHANGED used
           \/ template' \in {template, Uncounted(task[t].n)} /\ channel' \in {channel, gone} /\ Fault

-----------------------------------------------------------------------------
(* closeTicketLocked *)

Post(k) ==
    /\ channel[k] \in {"NEW", "OPEN"} /\ Use("messages", MaxMessages)
    /\ written' = [written EXCEPT ![k] = @ + 1]
    /\ UNCHANGED <<template, ticket, channel, access, busy, task>>

\* The button is in the channel; one close of a ticket at a time.
Close(t, k) ==
    /\ channel[k] \in {"OPEN", "LOCKED"} /\ k \notin busy /\ ticket[k].status = "OPEN" /\ ticket[k].linked
    /\ Begin(t, Task("lock", k, None, {}, 0, TRUE)) /\ busy' = busy \union {k}
    /\ UNCHANGED <<template, ticket, channel, written, access>>

\* A right that cannot be taken away does not stop the close: LOCKED only when neither the
\* opener nor the staff role can write any more.
Locked(k) == "LOCKED"
Lock(t) ==
    LET k == task[t].k
    IN  /\ Is(t, "lock") /\ Present(k) /\ Goto(t, "collect")
        /\ \/ channel' = [channel EXCEPT ![k] = Locked(k)] /\ UNCHANGED used
           \/ Fault /\ UNCHANGED channel
        /\ UNCHANGED <<template, ticket, rest>>

\* The channel is gone, or cannot be fetched: the ticket is closed without a transcript of it.
LockNothing(t) ==
    LET k == task[t].k
    IN  /\ Is(t, "lock") /\ ((~Present(k) /\ UNCHANGED used) \/ Fault)
        /\ IF Exists(k) THEN Closed(k, ticket[k].text) ELSE UNCHANGED ticket
        /\ busy' = busy \ {k} /\ Leave(t) /\ UNCHANGED <<template, channel, written, access>>

Collect(t) ==
    /\ Is(t, "collect") /\ Present(task[t].k)
    /\ task' = [task EXCEPT ![t].at = "store", ![t].n = written[task[t].k]]
    /\ UNCHANGED <<template, ticket, channel, rest, used>>

Store(t) ==
    LET k == task[t].k
    IN  /\ Is(t, "store") /\ Exists(k) /\ Closed(k, task[t].n) /\ Goto(t, "answer")
        /\ UNCHANGED <<template, channel, rest, used>>

\* The answer to the click, then a timer.
Answer(t) ==
    /\ Is(t, "answer") /\ busy' = busy \ {task[t].k} /\ Goto(t, "timer")
    /\ UNCHANGED <<template, ticket, channel, written, access, used>>

\* setTimeout: the channel goes five seconds later, or stays without a word.
DeleteChannel(t) ==
    /\ Is(t, "timer") /\ Leave(t) /\ UNCHANGED <<template, ticket, rest>>
    /\ \/ channel' = [channel EXCEPT ![task[t].k] = "DELETED"] /\ UNCHANGED used
       \/ Fault /\ UNCHANGED channel

\* A message or a file cannot be archived, the row is gone, the answer fails: the channel
\* stays, and opener and staff may write again, unless that fails too.
Unlocked(k) == [channel EXCEPT ![k] = IF @ = "LOCKED" THEN "OPEN" ELSE @]
CloseFails(t) ==
    LET k == task[t].k
    IN  /\ \/ Is(t, "collect") /\ ~Present(k) /\ UNCHANGED used
           \/ Is(t, "store") /\ ~Exists(k) /\ UNCHANGED used
           \/ (Is(t, "collect") \/ Is(t, "store") \/ Is(t, "answer")) /\ Fault
        /\ channel' \in {channel, Unlocked(k)} /\ busy' = busy \ {k} /\ Leave(t)
        /\ UNCHANGED <<template, ticket, written, access>>

-----------------------------------------------------------------------------
(* The template in the dashboard *)

Put(active) ==
    /\ Puts /\ template.exists /\ active # template.active /\ Use("commands", MaxCommands)
    /\ template' = [template EXCEPT !.active = active]
    /\ UNCHANGED <<ticket, channel, rest, task>>

\* POST /:id/reset-counter counts the open tickets, then sets the counter.
ResetCounter(t) ==
    /\ Resets /\ template.exists /\ OpenTickets = {} /\ Begin(t, Plain("reset"))
    /\ UNCHANGED <<template, ticket, channel, rest>>
SetCounter(t) ==
    /\ Is(t, "reset") /\ Leave(t)
    /\ template' = IF template.exists THEN [template EXCEPT !.counter = 0] ELSE template
    /\ UNCHANGED <<ticket, channel, rest, used>>

Delete(t) ==
    /\ template.exists /\ task[t] = None /\ Use("deletes", MaxDeletes)
    /\ Become(t, Task("off", None, None, {}, 0, template.active))
    /\ UNCHANGED <<template, ticket, channel, rest>>

Off(t) ==
    /\ Is(t, "off") /\ template.exists /\ template' = [template EXCEPT !.active = FALSE] /\ Goto(t, "list")
    /\ UNCHANGED <<ticket, channel, rest, used>>

\* The open tickets, and whether their rows had a channel when they were read.
List(t) ==
    /\ Is(t, "list")
    /\ task' = [task EXCEPT ![t].at = IF OpenTickets = {} THEN "recount" ELSE "purge",
                            ![t].todo = {<<k, ticket[k].known>> : k \in OpenTickets}]
    /\ UNCHANGED <<template, ticket, channel, rest, used>>

\* purgeTemplateInstances: a channel that is not found has no messages, nor has one whose
\* messages cannot be fetched.
Found(t, k) == <<k, TRUE>> \in task[t].todo /\ Present(k)
PurgeCollect(t) ==
    /\ Is(t, "purge")
    /\ \E x \in task[t].todo, fetched \in BOOLEAN :
          /\ IF fetched THEN UNCHANGED used ELSE Fault
          /\ task' = [task EXCEPT ![t].at = "delete", ![t].k = x[1],
                                  ![t].n = IF fetched /\ Found(t, x[1]) THEN written[x[1]] ELSE 0]
    /\ UNCHANGED <<template, ticket, channel, rest>>
PurgeDelete(t) ==
    LET k == task[t].k
    IN  /\ Is(t, "delete") /\ Goto(t, "archive")
        /\ \/ channel' = [channel EXCEPT ![k] = IF Found(t, k) THEN "DELETED" ELSE @] /\ UNCHANGED used
           \/ Fault /\ UNCHANGED channel
        /\ UNCHANGED <<template, ticket, rest>>

\* An attachment that cannot be archived, or a row deleted in between, is an error; one that
\* fails leaves the template as it was.
PurgeStore(t) ==
    LET k == task[t].k
    IN  /\ Is(t, "archive") /\ Exists(k) /\ Closed(k, task[t].n)
        /\ task' = [task EXCEPT ![t].at = "purge", ![t].todo = @ \ ({k} \X BOOLEAN)]
        /\ UNCHANGED <<template, channel, rest, used>>
PurgeFails(t) ==
    LET k == task[t].k
    IN  /\ \/ Is(t, "archive") /\ ~Exists(k) /\ UNCHANGED used
           \/ (Is(t, "delete") \/ Is(t, "archive")) /\ Fault
        /\ task' = [task EXCEPT ![t].at = "purge", ![t].todo = @ \ ({k} \X BOOLEAN), ![t].failed = TRUE]
        /\ UNCHANGED <<template, ticket, channel, rest>>

Restored(t) == IF template.exists /\ task[t].ok THEN [template EXCEPT !.active = TRUE] ELSE template

Purged(t) ==
    /\ Is(t, "purge") /\ task[t].todo = {}
    /\ IF task[t].failed THEN template' = Restored(t) /\ Leave(t) ELSE UNCHANGED template /\ Goto(t, "recount")
    /\ UNCHANGED <<ticket, channel, rest, used>>

Recount(t) ==
    /\ Is(t, "recount")
    /\ IF OpenTickets # {} THEN template' = Restored(t) /\ Leave(t) ELSE UNCHANGED template /\ Goto(t, "remove")
    /\ UNCHANGED <<ticket, channel, rest, used>>

\* The foreign key of its tickets is set to null.
Remove(t) ==
    /\ Is(t, "remove") /\ Leave(t)
    /\ template' = [template EXCEPT !.exists = FALSE, !.active = FALSE]
    /\ ticket' = [k \in Tickets |-> [ticket[k] EXCEPT !.linked = FALSE]]
    /\ UNCHANGED <<channel, rest, used>>

-----------------------------------------------------------------------------
(* Users of a ticket *)

\* handleAddUserSelect, POST users: permission first, then the list.
AddUser(t, k, u) ==
    /\ ticket[k].status = "OPEN" /\ ticket[k].known /\ Present(k) /\ u \notin ticket[k].users
    /\ Begin(t, Task("grant", k, u, ticket[k].users, 0, TRUE))
    /\ UNCHANGED <<template, ticket, channel, rest>>
Grant(t) ==
    /\ Is(t, "grant") /\ access' = [access EXCEPT ![task[t].k] = @ \union {task[t].u}] /\ Goto(t, "write")
    /\ UNCHANGED <<template, ticket, channel, written, busy, used>>

\* DELETE users: the list first.
RemoveUser(t, k, u) ==
    /\ Exists(k) /\ u \in ticket[k].users
    /\ Begin(t, Task("write", k, u, ticket[k].users, 0, FALSE))
    /\ UNCHANGED <<template, ticket, channel, rest>>

\* Mutant of Unchanged: the list is written without a comparison.
UnchangedAlways(t) == TRUE

Unchanged(t) == ticket[task[t].k].users = task[t].seen

\* casMutateTicketUserIds: a list that has changed is read again.
WriteUsers(t) ==
    LET k == task[t].k
        mutated == IF task[t].ok THEN task[t].seen \union {task[t].u} ELSE task[t].seen \ {task[t].u}
    IN  /\ Is(t, "write")
        /\ IF Unchanged(t)
           THEN /\ ticket' = [ticket EXCEPT ![k].users = mutated]
                /\ IF task[t].ok THEN Leave(t) ELSE Goto(t, "revoke")
           ELSE /\ UNCHANGED ticket
                /\ IF task[t].n + 1 = Retries THEN Leave(t)
                   ELSE task' = [task EXCEPT ![t].seen = ticket[k].users, ![t].n = @ + 1]
        /\ UNCHANGED <<template, channel, rest, used>>
Revoke(t) ==
    /\ Is(t, "revoke") /\ access' = [access EXCEPT ![task[t].k] = @ \ {task[t].u}] /\ Leave(t)
    /\ UNCHANGED <<template, ticket, channel, written, busy, used>>

-----------------------------------------------------------------------------
\* The process dies: locks in its memory are gone, timers never run.
Crash ==
    /\ Fault /\ \E t \in Tasks : task[t] # None
    /\ task' = [t \in Tasks |-> None] /\ busy' = {}
    /\ UNCHANGED <<template, ticket, channel, written, access>>

Next ==
    \/ \E t \in Tasks :
          \/ Open(t) \/ CreateInstance(t) \/ CreateChannel(t) \/ Ready(t) \/ Greet(t) \/ Reply(t)
          \/ OpenFails(t) \/ DeleteInstance(t) \/ Uncount(t)
          \/ Lock(t) \/ LockNothing(t) \/ Collect(t) \/ Store(t) \/ Answer(t) \/ DeleteChannel(t) \/ CloseFails(t)
          \/ ResetCounter(t) \/ SetCounter(t) \/ Delete(t) \/ Off(t) \/ List(t)
          \/ PurgeCollect(t) \/ PurgeDelete(t) \/ PurgeStore(t) \/ PurgeFails(t) \/ Purged(t)
          \/ Recount(t) \/ Remove(t) \/ Grant(t) \/ WriteUsers(t) \/ Revoke(t)
          \/ \E k \in Tickets : Close(t, k) \/ \E u \in Users : AddUser(t, k, u) \/ RemoveUser(t, k, u)
    \/ \E k \in Tickets : Post(k)
    \/ \E active \in BOOLEAN : Put(active)
    \/ Crash

Spec == Init /\ [][Next]_vars

-----------------------------------------------------------------------------
(* Properties *)

\* openTicketLocked: the tickets of a template have different numbers, although the number
\* of one that failed is given out again; but for a row whose opening failed and that
\* could not be deleted, whose number is given out again all the same.
Kept(k) == Exists(k) /\ ~ticket[k].undone
NumbersUnique ==
    \A k, l \in Tickets : Kept(k) /\ Kept(l) /\ ticket[k].number = ticket[l].number => k = l

\* ticketSystem.ts:943, tickets.ts:483-484: an open ticket has its template.
TemplateLives == \A k \in OpenTickets : ticket[k].linked

\* closeTicketLocked: a channel goes only when its ticket is closed with a transcript, which
\* holds all that the opener and the staff wrote if the channel could be locked; but for
\* a ticket whose opening failed.
Archived ==
    \A k \in Tickets : Present(k) /\ channel'[k] = "DELETED" /\ Kept(k) =>
        /\ ticket[k].status = "CLOSED" /\ ticket[k].text \in Nat
        /\ channel[k] = "LOCKED" => ticket[k].text = written[k]
ArchiveComplete == [][Archived]_vars

\* casMutateTicketUserIds: no change of the users undoes another.
UsersExact ==
    [][\A k \in Tickets : ticket'[k].status # "GONE" =>
          Cardinality((ticket[k].users \ ticket'[k].users) \union (ticket'[k].users \ ticket[k].users)) <= 1]_vars
=============================================================================
