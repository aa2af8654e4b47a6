----------------------------- MODULE AdmIngest -----------------------------
(***************************************************************************)
(* The live ingestion of the logs (.ADM files) of a game server: a poll    *)
(* reads the binding of the connection, lists the files, sets a baseline   *)
(* for a binding it sees first, and else reads what is behind its cursors  *)
(* in ranges, the oldest file first.  Every range is stored together with  *)
(* the cursor, under the fence of the binding it was read for.             *)
(*                                                                         *)
(* The game server writes while the poll runs, opens a new file, or starts *)
(* over in the old one; an administrator binds the connection to another   *)
(* service.  A line is two units long, so that an odd size is a file whose *)
(* last line is cut off; files are numbered in the order of their names.   *)
(* One poll at a time: the timer skips a tick while one is under way.      *)
(***************************************************************************)
EXTENDS Naturals, Sequences, FiniteSets, FiniteSetsExt, SequencesExt

CONSTANTS
    Services, First,    \* services of Nitrado; the one bound at the start
    Files, MaxSize,     \* 1..n; units of a file
    RangeSize, MaxRanges,\* units of a range; ranges of a file in one poll
    MaxFiles,           \* files of one poll
    MaxRebinds, MaxReplaced, MaxFaults \* bounds

VARIABLES
    remote,             \* [Services -> [Files -> file]]
    clock,              \* [Services -> Nat], for modification times
    binding,            \* service and version
    cursor,             \* [versions \X Files -> cursor]
    stored,             \* Seq of lines <<version, file, generation, number>>
    skipped,            \* lines a baseline passes over
    poll,               \* the poll under way
    rebinds, replaced, faults

\* Files are numbered; sizes, ranges and bounds are numbers.
AdmAssumption ==
    /\ First \in Services
    /\ \E n \in Files \union {0} : n \in Nat /\ Files = 1..n
    /\ MaxSize \in Nat /\ RangeSize \in Nat /\ MaxRanges \in Nat /\ MaxFiles \in Nat
    /\ MaxRebinds \in Nat /\ MaxReplaced \in Nat /\ MaxFaults \in Nat

source == <<remote, clock, replaced>>
store  == <<cursor, stored, skipped>>
vars   == <<source, binding, store, poll, rebinds, faults>>

NoFile   == [gen |-> 0, size |-> 0, mtime |-> 0, since |-> 0]
NoCursor == [offset |-> 0, size |-> 0, mtime |-> 0]   \* modification times start at 1
Idle     == [at |-> "idle", of |-> [service |-> First, version |-> 0], list |-> [f \in Files |-> NoFile],
             todo |-> <<>>, offset |-> 0, reset |-> FALSE, reads |-> 0, chunk |-> <<0, 0, 0>>]

Existing(files) == {f \in Files : files[f].gen > 0}
\* By modification time, then by name.
Newer(files, f, g) == files[f].mtime > files[g].mtime \/ (files[f].mtime = files[g].mtime /\ f > g)
Newest(files)   == CHOOSE f \in Existing(files) : \A g \in Existing(files) \ {f} : Newer(files, f, g)
LinesOf(v, f, file) == {<<v, f, file.gen, k>> : k \in 1..(file.size \div 2)}
Lines(v, files) == UNION {LinesOf(v, f, files[f]) : f \in Files}

\* Mutant of Whole: a line that is cut off counts as read.
WholeOrCut(n) == n

\* Up to the end of the last whole line.
Whole(n) == 2 * (n \div 2)

\* admBindingFileIdentity: every version of the binding has cursors of its own.
Space(v) == v

\* The cursors of the poll's binding.
CursorOf(p, f) == cursor[<<Space(p.of.version), f>>]
Seen(p)        == {f \in Files : CursorOf(p, f).mtime > 0}

Init ==
    /\ \E n \in {0, 2, 3} \intersect 0..MaxSize : remote = [s \in Services |-> [f \in Files |->
          IF f = 1 /\ n > 0 THEN [gen |-> 1, size |-> n, mtime |-> 1, since |-> 1] ELSE NoFile]]
    /\ clock = [s \in Services |-> 1]
    /\ binding = [service |-> First, version |-> 0]
    /\ cursor = [c \in (0..MaxRebinds) \X Files |-> NoCursor]
    /\ stored = <<>> /\ skipped = {} /\ poll = Idle
    /\ rebinds = 0 /\ replaced = 0 /\ faults = 0

-----------------------------------------------------------------------------
(* The game server and the administrator.                                  *)

WriteFile(s, f, file) ==
    /\ remote' = [remote EXCEPT ![s][f] = file]
    /\ clock' = [clock EXCEPT ![s] = @ + 1]
    /\ UNCHANGED <<binding, store, poll, rebinds, faults>>

Write(s) ==
    /\ Existing(remote[s]) # {}
    /\ LET f == Newest(remote[s]) file == remote[s][f] IN
       /\ file.size < MaxSize
       /\ WriteFile(s, f, [file EXCEPT !.size = @ + 1, !.mtime = clock[s] + 1])
    /\ UNCHANGED replaced

\* A new session; the last line of the old file may stay cut off, as after a death of the
\* game server.
Rotate(s, f) ==
    /\ \A g \in Files : (remote[s][g].gen > 0) = (g < f)
    /\ WriteFile(s, f, [gen |-> 1, size |-> 0, mtime |-> clock[s] + 1, since |-> clock[s] + 1])
    /\ UNCHANGED replaced

\* A new session in the file of the old one, as long as that or longer.  The old one has
\* been read to its end and no poll is under way: the case the code is made for.
Replace(s) ==
    /\ replaced < MaxReplaced /\ replaced' = replaced + 1
    /\ s = binding.service /\ poll.at = "idle" /\ Existing(remote[s]) # {}
    /\ LET f == Newest(remote[s]) file == remote[s][f] IN
       \E n \in {file.size, file.size + 2} :
          /\ n <= MaxSize /\ CursorOf([Idle EXCEPT !.of = binding], f).offset = file.size
          /\ WriteFile(s, f, [gen |-> file.gen + 1, size |-> n, mtime |-> clock[s] + 1, since |-> clock[s] + 1])

\* The version of the binding changes in the same transaction.
Rebind(s) ==
    /\ rebinds < MaxRebinds /\ rebinds' = rebinds + 1
    /\ s # binding.service
    /\ binding' = [service |-> s, version |-> binding.version + 1]
    /\ skipped' = skipped \union Lines(binding.version + 1, remote[s])
    /\ UNCHANGED <<source, cursor, stored, poll, faults>>

-----------------------------------------------------------------------------
(* The poll.                                                               *)

Goto(p) == poll' = p /\ UNCHANGED <<source, binding, rebinds>>

Begin ==
    /\ poll.at = "idle"
    /\ Goto([Idle EXCEPT !.at = "list", !.of = binding])
    /\ UNCHANGED <<store, faults>>

\* shouldRestartReusedAdmFile.
Restarted(file, c) == file.mtime > c.mtime /\ file.size = c.size /\ file.size = c.offset

\* A file with a cursor that has not read all of it, or that was replaced; a file
\* without one that is newer than the newest cursor.
Candidate(p, list, f) ==
    LET c == CursorOf(p, f) IN
    /\ list[f].gen > 0
    /\ IF f \in Seen(p) THEN Restarted(list[f], c) \/ list[f].size # c.offset \/ list[f].size < c.size
       ELSE \E g \in Seen(p) :
              /\ \A h \in Seen(p) \ {g} : Newer([x \in Files |-> CursorOf(p, x)], g, h)
              /\ list[f].mtime > CursorOf(p, g).mtime \/ (list[f].mtime = CursorOf(p, g).mtime /\ f > g)

Oldest(list, q) == \A i, j \in DOMAIN q : i < j => Newer(list, q[j], q[i])

ListDir ==
    /\ poll.at = "list"
    /\ LET list == remote[poll.of.service]
           p == [poll EXCEPT !.list = list]
       IN IF Existing(list) = {} THEN Goto(Idle)
          ELSE IF Seen(poll) = {} THEN Goto([p EXCEPT !.at = "tail", !.todo = <<Newest(list)>>])
          ELSE \E q \in SetToSeqs({f \in Files : Candidate(poll, list, f)}) :
                  /\ Oldest(list, q)
                  /\ Goto([p EXCEPT !.at = "open", !.todo = SubSeq(q, 1, Min({Len(q), MaxFiles}))])
    /\ UNCHANGED <<store, faults>>

\* Everything under the fence: the connection still has the binding the poll started
\* with, and nobody holds the lock of its configuration.
Fresh == binding = poll.of

Busy == faults < MaxFaults /\ faults' = faults + 1 /\ Goto(Idle) /\ UNCHANGED store
Stale == ~Fresh /\ Goto(Idle) /\ UNCHANGED <<store, faults>>

\* shouldWriteCursor.
Written(c, new, reset) ==
    c.mtime = 0 \/ (new.mtime >= c.mtime /\ (new.offset > c.offset \/ reset))

WriteCursor(f, offset, reset) ==
    LET at == <<Space(poll.of.version), f>>
        new == [offset |-> offset, size |-> poll.list[f].size, mtime |-> poll.list[f].mtime]
    IN cursor' = IF Written(cursor[at], new, reset) THEN [cursor EXCEPT ![at] = new] ELSE cursor

\* baselineCurrentFile: the newest file counts as read, up to its last whole line.
Baseline ==
    /\ poll.at = "tail" /\ Fresh
    /\ WriteCursor(Head(poll.todo), Whole(poll.list[Head(poll.todo)].size), FALSE)
    /\ skipped' = skipped \union Lines(poll.of.version, poll.list)
    /\ Goto(Idle) /\ UNCHANGED <<stored, faults>>

\* The cursor is read again; a file that was replaced or cut is read from the start.
Open ==
    /\ poll.at = "open"
    /\ IF poll.todo = <<>> THEN Goto(Idle)
       ELSE LET f == Head(poll.todo) file == poll.list[f] c == CursorOf(poll, f)
                reset == f \in Seen(poll) /\ (Restarted(file, c) \/ c.offset > file.size \/ file.size < c.size)
            IN Goto([poll EXCEPT !.at = "read", !.offset = IF reset THEN 0 ELSE c.offset,
                                 !.reset = reset, !.reads = 0])
    /\ UNCHANGED <<store, faults>>

\* Mutant of Close: the next file does not wait for the end of this one.
CloseAlways(p) == [p EXCEPT !.at = "open", !.todo = Tail(@)]

\* isAdmFileFullyConsumed: then the next file, else the poll ends.
Close(p) == IF p.offset >= p.list[Head(p.todo)].size THEN [p EXCEPT !.at = "open", !.todo = Tail(@)] ELSE Idle

\* A session begins with its header, at the start of a file.
Header(offset) == offset = 0

\* A range is what the file has now; it may come shorter than asked for.  A header where
\* the poll goes on means a new session: it starts over.
Read ==
    /\ poll.at = "read"
    /\ LET f == Head(poll.todo) file == remote[poll.of.service][f]
           len == Min({RangeSize, poll.list[f].size - poll.offset})
           there == IF file.size > poll.offset THEN file.size - poll.offset ELSE 0
       IN IF poll.offset >= poll.list[f].size \/ poll.reads = MaxRanges
          THEN Goto(Close(poll)) /\ UNCHANGED faults
          ELSE \E got \in 0..Min({len, there}) :
             /\ IF got = Min({len, there}) THEN UNCHANGED faults
                ELSE faults < MaxFaults /\ faults' = faults + 1
             /\ Goto(IF got = 0 THEN Close(poll)
                     ELSE IF ~poll.reset /\ poll.offset > 0 /\ poll.reads = 0 /\ Header(poll.offset)
                     THEN [poll EXCEPT !.reset = TRUE, !.offset = 0]
                     ELSE [poll EXCEPT !.at = "store", !.reads = @ + 1, !.chunk = <<file.gen, got, len>>])
    /\ UNCHANGED store

\* The whole lines of the range, those stored before left out, with the cursor.  A range
\* without a whole line ends the poll, with an error if it was as long as asked for.
Store ==
    /\ poll.at = "store" /\ Fresh
    /\ LET f == Head(poll.todo)
           upto == Whole(poll.offset + poll.chunk[2])
           lines == {<<poll.of.version, f, poll.chunk[1], k>> : k \in (poll.offset \div 2 + 1)..(upto \div 2)}
       IN /\ \E new \in SetToSeqs(lines \ ToSet(stored)) :
                /\ \A i, j \in DOMAIN new : i < j => new[i][4] < new[j][4]
                /\ stored' = stored \o new
          /\ WriteCursor(f, upto, poll.reset /\ poll.reads = 1)
          /\ Goto(IF upto <= poll.offset THEN Idle ELSE [poll EXCEPT !.at = "read", !.offset = upto])
    /\ UNCHANGED <<skipped, faults>>

\* A call fails, the lock is held, or the process dies: the poll ends.
Fails == poll.at # "idle" /\ Busy

Abandon == poll.at \in {"tail", "store"} /\ Stale

Poll == Begin \/ ListDir \/ Baseline \/ Open \/ Read \/ Store \/ Abandon

Next ==
    \/ \E s \in Services : Write(s) \/ Replace(s) \/ Rebind(s) \/ (\E f \in Files : Rotate(s, f))
    \/ Poll \/ Fails

\* Polls go on, every thirty seconds.
Fairness == WF_vars(Poll)
Spec     == Init /\ [][Next]_vars /\ Fairness

-----------------------------------------------------------------------------
TypeOK ==
    /\ \A s \in Services, f \in Files : remote[s][f].size \in 0..MaxSize
    /\ cursor \in [(0..MaxRebinds) \X Files -> [offset : Nat, size : Nat, mtime : Nat]]
    /\ \A c \in DOMAIN cursor : cursor[c].offset % 2 = 0
    /\ poll.at \in {"idle", "list", "tail", "open", "read", "store"} /\ poll.reads \in 0..MaxRanges

\* Line l was written before line m.
Before(l, m) == l[2] < m[2] \/ (l[2] = m[2] /\ (l[3] < m[3] \/ (l[3] = m[3] /\ l[4] < m[4])))

\* What is stored for a binding comes in the order it was written, across files and
\* across polls that were cut off, and was written after it was bound.
InOrder ==
    /\ \A i, j \in DOMAIN stored : (i < j /\ stored[i][1] = stored[j][1]) => Before(stored[i], stored[j])
    /\ \A i \in DOMAIN stored : stored[i] \notin skipped

\* The game server went on to another file and left the last line of f cut off.
Torn(f) ==
    LET files == remote[binding.service]
    IN  files[f].size % 2 = 1 /\ \E g \in Existing(files) : g > f

\* Every line the game server finishes is stored at last, unless a baseline passed over
\* it, the connection is bound to another service, or an older file the binding reads
\* ends in a line that was never finished: the poll waits there for ever (ingestFile
\* makes an error of it).  Else no file is forgotten when a newer one appears, and none
\* blocks the newer ones for ever; the whole lines of the torn file arrive themselves.
LinesArrive ==
    \A v \in 0..MaxRebinds, f \in Files, k \in 1..(MaxSize \div 2) :
       LET l == <<v, f, 1, k>> IN
       (binding.version = v /\ l \in Lines(v, remote[binding.service]))
          ~> \/ l \in ToSet(stored) \/ l \in skipped \/ binding.version # v
             \/ \E g \in Files : g < f /\ Torn(g) /\ cursor[<<Space(v), g>>].mtime > 0

\* A cursor that follows the session the file now holds has not passed a line of it
\* that was neither stored nor passed over by the baseline.
NothingPassed ==
    \A f \in Files :
       LET file == remote[binding.service][f] c == cursor[<<Space(binding.version), f>>] IN
       c.mtime >= file.since => \A l \in LinesOf(binding.version, f, file) :
                                   2 * l[4] <= c.offset => l \in ToSet(stored) \union skipped
=============================================================================
