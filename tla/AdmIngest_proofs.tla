--------------------------- MODULE AdmIngest_proofs ---------------------------
(***************************************************************************)
(* What is stored of the logs comes in the order it was written, for any   *)
(* number of services, files, lines, polls, failures, new sessions and     *)
(* changes of the binding.                                                 *)
(* A gameplay feed, as an instance of GameplayFeed: its cursor passes no   *)
(* event without a delivery.                                               *)
(***************************************************************************)
EXTENDS AdmIngest, FiniteSetTheorems, SequenceTheorems, WellFoundedInduction, TLAPS

-----------------------------------------------------------------------------
(* The inductive invariant                                                 *)

Nums    == [gen : Nat, size : Nat, mtime : Nat, since : Nat]
Cursors == [offset : Nat, size : Nat, mtime : Nat]
Versions == 0..MaxRebinds
AllLines == Nat \X Files \X Nat \X Nat
Polls   == [at : {"idle", "list", "tail", "open", "read", "store"}, of : [service : Services, version : Nat],
            list : [Files -> Nums], todo : Seq(Files), offset : Nat, reset : BOOLEAN, reads : 0..MaxRanges,
            chunk : Nat \X Nat \X Nat]

\* It is for a binding there was, at the end of a line, and at a file where it reads.
PollFits(p) ==
    /\ p.of.version <= binding.version /\ p.offset % 2 = 0
    /\ p.at \in {"tail", "read", "store"} => p.todo # <<>>
Types ==
    /\ remote \in [Services -> [Files -> Nums]] /\ clock \in [Services -> Nat]
    /\ binding \in [service : Services, version : Nat] /\ binding.version = rebinds /\ rebinds \in Versions
    /\ cursor \in [Versions \X Files -> Cursors]
    /\ stored \in Seq(AllLines) /\ skipped \subseteq AllLines
    /\ poll \in Polls /\ PollFits(poll)

\* What the cursors of the binding, and the files they are about, look like now.
Now      == binding.version
Cur(f)   == cursor[<<Now, f>>]
File(f)  == remote[binding.service][f]
Followed == {f \in Files : Cur(f).mtime > 0}
Known    == ToSet(stored) \union skipped

\* Files come one after the other: when one is opened the older ones are left alone.
DiskSound(s) ==
    \A f \in Files : LET file == remote[s][f] IN
       /\ file.gen = 0 => file = NoFile
       /\ file.gen > 0 => 0 < file.since /\ file.since <= file.mtime /\ file.mtime <= clock[s]
       /\ \A g \in Files : f < g /\ remote[s][g].gen > 0 => file.gen > 0 /\ file.mtime < remote[s][g].since
Disk == \A s \in Services : DiskSound(s)

\* What a cursor or a list says of a file was so, and is no more when the file was written.
Seenly(c, file) ==
    /\ c.mtime <= file.mtime /\ c.size <= file.size
    /\ file.since <= c.mtime /\ c.mtime < file.mtime => c.size < file.size
Done(f) == Cur(f).offset = File(f).size /\ (File(f).since <= Cur(f).mtime \/ File(f).size = 0)
CursorsSound ==
    /\ \A v \in Versions, f \in Files : v > Now \/ cursor[<<v, f>>].mtime = 0 => cursor[<<v, f>>] = NoCursor
    /\ \A f \in Followed : File(f).gen > 0 /\ Seenly(Cur(f), File(f)) /\ Cur(f).offset <= Cur(f).size
    /\ \A f \in Files, g \in Followed : f < g => File(f).mtime < Cur(g).mtime /\ (f \in Followed => Done(f))

\* The line is of a session that is over, or the cursor of its session is past it.
Passed(l) ==
    \/ \E g \in Followed : l[2] < g
    \/ /\ l[2] \in Followed
       /\ l[3] = File(l[2]).gen => File(l[2]).since <= Cur(l[2]).mtime /\ 2 * l[4] <= Cur(l[2]).offset
LinesSound ==
    /\ \A l \in Known : /\ l[1] <= Now
                        /\ l[1] = Now => /\ 0 < l[3] /\ l[3] <= File(l[2]).gen
                                         /\ l[3] = File(l[2]).gen => 2 * l[4] <= File(l[2]).size
                                         /\ Followed # {} => Passed(l)
    /\ Followed = {} => \A l \in ToSet(stored) : l[1] # Now

\* The list of a poll that may still store: no file but the newest of it has changed since.
Working == Fresh /\ poll.at # "idle"
ListSound ==
    Working => \A f \in Files : LET file == poll.list[f] IN file.gen > 0 =>
       /\ file.gen = File(f).gen /\ file.since = File(f).since /\ 0 < file.since /\ file.since <= file.mtime
       /\ Seenly(file, File(f))
       /\ f \in Followed => Seenly(Cur(f), file)
       /\ \A g \in Files : f < g /\ poll.list[g].gen > 0 => file = File(f)

\* The baseline is of the newest file, and of every line known by then.
TailSound ==
    Working /\ poll.at = "tail" =>
       /\ Followed = {}
       /\ LET t == poll.todo[1] IN
          /\ poll.list[t].gen > 0
          /\ \A f \in Files : IF poll.list[f].gen > 0 THEN f <= t ELSE poll.list[f].size = 0
          /\ \A l \in Known : l[1] = Now =>
                l[2] <= t /\ (l[2] = t /\ l[3] = poll.list[t].gen => 2 * l[4] <= poll.list[t].size)

\* The oldest file comes first, and no file that is read is older than a file begun.
TodoSound ==
    Working /\ poll.at \in {"open", "read", "store"} =>
       /\ Followed # {}
       /\ \A i \in DOMAIN poll.todo : LET f == poll.todo[i] IN
          /\ poll.list[f].gen > 0
          /\ \A j \in DOMAIN poll.todo : i < j => f < poll.todo[j]
          /\ poll.list[f].size > 0 => \A g \in Followed : g <= f
          /\ \A g \in Followed : g < f => Done(g) \/ \E j \in DOMAIN poll.todo : poll.todo[j] = g

\* A file is read on from its cursor, or from the start when its session is new.
RangeSound ==
    Working /\ poll.at \in {"read", "store"} =>
       LET f == poll.todo[1] IN
       /\ \/ /\ poll.offset = Cur(f).offset
             /\ poll.at = "read" /\ f \in Followed /\ poll.offset >= poll.list[f].size
                  => poll.list[f].since <= Cur(f).mtime \/ poll.list[f].size = 0
          \/ /\ poll.offset = 0 /\ f \in Followed /\ Cur(f).mtime < poll.list[f].since
             /\ poll.reset /\ poll.reads = IF poll.at = "read" THEN 0 ELSE 1
       /\ poll.at = "store" => /\ poll.chunk[1] = poll.list[f].gen /\ 0 < poll.chunk[2]
                               /\ poll.offset + poll.chunk[2] <= poll.list[f].size

PollSound == ListSound /\ TailSound /\ TodoSound /\ RangeSound
Inv == Types /\ TypeOK /\ Disk /\ CursorsSound /\ LinesSound /\ PollSound /\ InOrder

-----------------------------------------------------------------------------
(* The operators of the model                                              *)

\* Natural numbers have a smallest one in each set of them.
LEMMA Smallest == ASSUME NEW T \in SUBSET Nat, T # {} PROVE \E m \in T : \A n \in T : m <= n
<1> DEFINE R == OpToRel(<, Nat)
<1>1. IsWellFoundedOn(R, Nat) BY NatLessThanWellFounded
<1>2. \A m, n \in Nat : m < n => <<m, n>> \in R BY DEF OpToRel
<1> HIDE DEF R
<1>3. PICK m \in T : \A n \in T : ~(<<n, m>> \in R) BY <1>1, WFMin
<1>4. ASSUME NEW n \in T PROVE m <= n
  <2>1. m \in Nat /\ n \in Nat OBVIOUS
  <2>2. ~(n < m) BY <1>2, <1>3, <2>1
  <2> QED BY <2>1, <2>2
<1> QED BY <1>4

\* The smaller of two numbers.
LEMMA MinOfTwo ==
    ASSUME NEW m \in Nat, NEW n \in Nat
    PROVE  Min({m, n}) \in Nat /\ Min({m, n}) <= m /\ Min({m, n}) <= n
<1>1. \E x \in {m, n} : \A y \in {m, n} : x <= y OBVIOUS
<1>2. Min({m, n}) \in {m, n} /\ \A y \in {m, n} : Min({m, n}) <= y BY <1>1 DEF Min
<1> QED BY <1>2

\* A sequence made of a finite set has all of it.
LEMMA SeqOfSet ==
    ASSUME NEW S, IsFiniteSet(S), NEW q \in SetToSeqs(S)
    PROVE  q \in Seq(S) /\ \A x \in S : \E i \in 1..Len(q) : q[i] = x
<1> DEFINE n == Cardinality(S)
<1>1. n \in Nat BY FS_CardinalityType
<1>2. q \in [1..n -> S] /\ \A i, j \in 1..n : i # j => q[i] # q[j] BY DEF SetToSeqs
<1> HIDE DEF n
<1>3. q \in Seq(S) /\ Len(q) = n BY <1>1, <1>2, IsASeq
<1>4. q \in Injection(1..n, S) BY <1>2 DEF Injection, IsInjective
<1>5. IsFiniteSet(1..n) /\ Cardinality(1..n) = n BY <1>1, FS_Interval
<1>6. q \in Surjection(1..n, S) BY <1>4, <1>5, FS_Injection DEF n
<1> QED BY <1>3, <1>6 DEF Surjection

\* The newest file is the last one.
LEMMA NewestIsLast ==
    ASSUME AdmAssumption, Types, NEW s \in Services, DiskSound(s), Existing(remote[s]) # {}
    PROVE  /\ Newest(remote[s]) \in Files /\ remote[s][Newest(remote[s])].gen > 0
           /\ \A g \in Files : Newest(remote[s]) < g => remote[s][g].gen = 0
<1> DEFINE files == remote[s]
           E == Existing(files)
           New(f) == \A g \in E \ {f} : Newer(files, f, g)
<1>1. PICK n \in Nat : Files = 1..n BY DEF AdmAssumption
<1>2. files \in [Files -> Nums] BY DEF Types
<1>3. \A f, g \in E : f < g => files[f].mtime < files[g].mtime
  <2> SUFFICES ASSUME NEW f \in E, NEW g \in E, f < g PROVE files[f].mtime < files[g].mtime OBVIOUS
  <2>1. files[f] \in Nums /\ files[g] \in Nums BY <1>2 DEF Existing
  <2>2. files[f].mtime < files[g].since /\ files[g].since <= files[g].mtime BY DEF DiskSound, Existing
  <2> QED BY <2>1, <2>2 DEF Nums
<1>4. PICK f \in E : \A g \in E : g <= f
  <2>1. {n - g : g \in E} \in SUBSET Nat /\ {n - g : g \in E} # {} BY <1>1 DEF Existing
  <2>2. PICK m \in {n - g : g \in E} : \A k \in {n - g : g \in E} : m <= k BY <2>1, Smallest
  <2>3. PICK f \in E : m = n - f BY <2>2
  <2>4. \A g \in E : n - f <= n - g BY <2>2, <2>3
  <2> QED BY <1>1, <2>3, <2>4 DEF Existing
<1> HIDE DEF E
<1>5. \A g \in E : g \in Nat /\ files[g].mtime \in Nat
  <2>1. E \subseteq Files BY DEF E, Existing
  <2>2. \A g \in Files : files[g].mtime \in Nat BY <1>2 DEF Nums
  <2> QED BY <1>1, <2>1, <2>2
<1>6. New(f) BY <1>3, <1>4, <1>5 DEF Newer
<1>7. Newest(files) \in E /\ New(Newest(files)) BY <1>4, <1>6 DEF Newest, E
<1>8. ASSUME NEW g \in E, Newest(files) < g PROVE FALSE
  <2>1. Newer(files, Newest(files), g) BY <1>5, <1>7, <1>8
  <2>2. files[Newest(files)].mtime < files[g].mtime BY <1>3, <1>7, <1>8
  <2> QED BY <1>5, <1>7, <1>8, <2>1, <2>2 DEF Newer
<1>9. \A g \in Files : g \notin E => files[g].gen = 0
  <2>1. \A g \in Files : files[g].gen \in Nat BY <1>2 DEF Nums
  <2> QED BY <2>1 DEF E, Existing
<1> QED BY <1>7, <1>8, <1>9 DEF E, Existing

-----------------------------------------------------------------------------
(* Types                                                                   *)

\* A row of each type has the fields of it.
LEMMA Rows ==
    ASSUME Types
    PROVE  /\ \A s \in Services, f \in Files : remote[s][f] \in Nums
           /\ \A v \in Versions, f \in Files : cursor[<<v, f>>] \in Cursors
           /\ \A f \in Files : File(f) \in Nums /\ Cur(f) \in Cursors /\ poll.list[f] \in Nums
           /\ Now \in Versions /\ Now \in Nat /\ binding.service \in Services
           /\ poll \in Polls /\ Seen(poll) \subseteq Files
<1>1. binding.service \in Services /\ Now \in Versions BY DEF Types, Now, Versions
<1>2. poll.list \in [Files -> Nums] BY DEF Types, Polls
<1> QED BY <1>1, <1>2 DEF Types, File, Cur, Now, Versions, Seen

\* A fresh poll looks at the cursors of the binding.
LEMMA FreshCursor == ASSUME Fresh PROVE (\A f \in Files : CursorOf(poll, f) = Cur(f)) /\ Seen(poll) = Followed
BY DEF Fresh, CursorOf, Cur, Now, Space, Seen, Followed

\* Whole is the even part.
LEMMA WholeIs == \A n \in Nat : Whole(n) \in Nat /\ Whole(n) % 2 = 0 /\ Whole(n) <= n /\ n < Whole(n) + 2
BY DEF Whole

\* A file is written.
LEMMA WriteFileTypes ==
    ASSUME Types, TypeOK, NEW s \in Services, NEW f \in Files, NEW file \in Nums, file.size <= MaxSize,
           MaxSize \in Nat,
           WriteFile(s, f, file)
    PROVE  Types' /\ TypeOK'
<1>1. remote' = [remote EXCEPT ![s][f] = file] /\ clock' = [clock EXCEPT ![s] = @ + 1]
      /\ UNCHANGED <<binding, cursor, stored, skipped, poll, rebinds>>
  BY DEF WriteFile, store
<1>2. remote' \in [Services -> [Files -> Nums]] /\ clock' \in [Services -> Nat] BY <1>1 DEF Types
<1>3. Types' BY <1>1, <1>2 DEF Types, PollFits
<1>4. ASSUME NEW t \in Services, NEW g \in Files PROVE remote'[t][g].size \in 0..MaxSize
  <2>1. remote'[t][g] = remote[t][g] \/ remote'[t][g] = file BY <1>1 DEF Types
  <2> QED BY <2>1 DEF TypeOK, Nums
<1> QED BY <1>1, <1>3, <1>4 DEF TypeOK

\* A cursor is written.
LEMMA WriteCursorTypes ==
    ASSUME Types, NEW f \in Files, NEW offset \in Nat, NEW reset \in BOOLEAN, WriteCursor(f, offset, reset), Fresh
    PROVE  /\ cursor' \in [Versions \X Files -> Cursors]
           /\ offset % 2 = 0 /\ TypeOK => \A c \in DOMAIN cursor' : cursor'[c].offset % 2 = 0
<1> DEFINE at == <<Now, f>>
           new == [offset |-> offset, size |-> poll.list[f].size, mtime |-> poll.list[f].mtime]
<1>1. new \in Cursors
  <2>1. poll.list[f] \in Nums BY Rows
  <2> QED BY <2>1 DEF Nums, Cursors
<1>2. cursor' = [cursor EXCEPT ![at] = new] \/ cursor' = cursor BY DEF WriteCursor, Space, Fresh, Now
<1>3. at \in Versions \X Files BY Rows
<1>4. cursor \in [Versions \X Files -> Cursors] BY DEF Types
<1>5. new.offset = offset OBVIOUS
<1> HIDE DEF at, new
<1>6. cursor' \in [Versions \X Files -> Cursors] BY <1>1, <1>2, <1>3, <1>4
<1>7. ASSUME offset % 2 = 0, TypeOK, NEW c \in DOMAIN cursor' PROVE cursor'[c].offset % 2 = 0
  <2>1. cursor[c].offset % 2 = 0 /\ cursor'[c] \in {cursor[c], new} BY <1>2, <1>4, <1>6, <1>7 DEF TypeOK
  <2> QED BY <1>5, <1>7, <2>1
<1> QED BY <1>6, <1>7

\* What a poll goes on with is a poll.
LEMMA IdleIsPoll == ASSUME AdmAssumption PROVE Idle \in Polls /\ Idle.of.version = 0 /\ Idle.reads = 0
  /\ Idle.at = "idle" /\ Idle.offset = 0
BY DEF AdmAssumption, Idle, NoFile, Polls, Nums

\* A poll goes on.
LEMMA GotoTypes ==
    ASSUME Types, TypeOK, NEW p \in Polls, PollFits(p), Goto(p),
           cursor' \in [Versions \X Files -> Cursors], \A c \in DOMAIN cursor' : cursor'[c].offset % 2 = 0,
           stored' \in Seq(AllLines), skipped' \subseteq AllLines
    PROVE  Types' /\ TypeOK'
<1>1. UNCHANGED <<remote, clock, binding, rebinds>> /\ poll' = p BY DEF Goto, source
<1>2. Types' BY <1>1 DEF Types, PollFits
<1>3. p.at \in {"idle", "list", "tail", "open", "read", "store"} /\ p.reads \in 0..MaxRanges BY DEF Polls
<1> QED BY <1>1, <1>2, <1>3 DEF TypeOK, Versions, Cursors

\* The same when nothing is stored.
LEMMA PollTypes ==
    ASSUME Types, TypeOK, NEW p \in Polls, PollFits(p), Goto(p), UNCHANGED store
    PROVE  Types' /\ TypeOK'
<1>1. UNCHANGED <<cursor, stored, skipped>> BY DEF store
<1> QED BY <1>1, GotoTypes DEF Types, TypeOK

\* Back to rest.
LEMMA RestTypes ==
    ASSUME AdmAssumption, Types, TypeOK, Goto(Idle), UNCHANGED store
    PROVE  Types' /\ TypeOK'
<1>1. PollFits(Idle) BY IdleIsPoll, Rows DEF PollFits, Now
<1> QED BY <1>1, IdleIsPoll, PollTypes

\* The lines a poll reads and passes over are lines.
LEMMA LinesAreLines ==
    ASSUME Types, NEW v \in Nat, NEW files \in [Files -> Nums]
    PROVE  Lines(v, files) \subseteq AllLines
<1> SUFFICES ASSUME NEW f \in Files, NEW k \in 1..(files[f].size \div 2)
      PROVE <<v, f, files[f].gen, k>> \in AllLines
  BY DEF Lines, LinesOf
<1>1. files[f].size \in Nat /\ files[f].gen \in Nat BY DEF Nums
<1>2. files[f].size \div 2 \in Nat BY <1>1
<1> QED BY <1>1, <1>2 DEF AllLines

\* The files of a list that are to be read, in any order.
LEMMA SomeFiles ==
    ASSUME AdmAssumption, NEW C \in SUBSET Files, NEW q \in SetToSeqs(C)
    PROVE  /\ q \in Seq(Files) /\ \A i \in 1..Len(q) : q[i] \in C
           /\ \A f \in C : \E i \in 1..Len(q) : q[i] = f
<1>1. PICK n \in Nat : Files = 1..n BY DEF AdmAssumption
<1>2. IsFiniteSet(C)
  <2>1. IsFiniteSet(1..n) BY <1>1, FS_Interval
  <2> QED BY <1>1, <2>1, FS_Subset
<1>3. q \in Seq(C) /\ \A f \in C : \E i \in 1..Len(q) : q[i] = f BY <1>2, SeqOfSet
<1>4. \A i \in 1..Len(q) : q[i] \in C BY <1>3, ElementOfSeq
<1>5. Seq(C) \subseteq Seq(Files) BY SeqMonotonic
<1> QED BY <1>3, <1>4, <1>5

\* The steps of the poll that store nothing.
LEMMA ListTypes ==
    ASSUME AdmAssumption, Types, TypeOK, ListDir, DiskSound(poll.of.service)
    PROVE  Types' /\ TypeOK'
<1> DEFINE list == remote[poll.of.service]
           p == [poll EXCEPT !.list = list]
           C == {f \in Files : Candidate(poll, list, f)}
<1>1. list \in [Files -> Nums] /\ p \in Polls /\ p.of = poll.of /\ poll.of.service \in Services
      /\ p.offset = poll.offset /\ UNCHANGED store
  BY DEF Types, Polls, ListDir
<1>2. CASE Existing(list) = {} BY <1>2, RestTypes DEF ListDir, store
<1>3. CASE Existing(list) # {} /\ Seen(poll) = {}
  <2>1. Newest(list) \in Files BY <1>1, <1>3, NewestIsLast
  <2>2. Goto([p EXCEPT !.at = "tail", !.todo = <<Newest(list)>>]) BY <1>3 DEF ListDir
  <2>3. <<Newest(list)>> \in Seq(Files) BY <2>1
  <2> DEFINE r == [p EXCEPT !.at = "tail", !.todo = <<Newest(list)>>]
  <2>4. r \in Polls /\ r.of = poll.of /\ r.todo # <<>> /\ r.offset = poll.offset
    <3> HIDE DEF p, list
    <3> QED BY <1>1, <2>3 DEF Polls
  <2>5. Goto(r) BY <2>2
  <2> HIDE DEF r
  <2> QED BY <1>1, <2>4, <2>5, PollTypes DEF Types, PollFits
<1>4. CASE Existing(list) # {} /\ Seen(poll) # {}
  <2>1. PICK q \in SetToSeqs(C) : Goto([p EXCEPT !.at = "open", !.todo = SubSeq(q, 1, Min({Len(q), MaxFiles}))])
    BY <1>4 DEF ListDir
  <2>2. q \in Seq(Files) BY SomeFiles
  <2> DEFINE m == Min({Len(q), MaxFiles})
             r == [p EXCEPT !.at = "open", !.todo = SubSeq(q, 1, m)]
  <2>3. m \in Nat /\ m <= Len(q) BY <2>2, MinOfTwo, LenProperties DEF AdmAssumption
  <2>4. SubSeq(q, 1, m) \in Seq(Files)
    <3> HIDE DEF m
    <3>1. \A i \in 1..m : q[i] \in Files BY <2>2, <2>3, LenProperties, ElementOfSeq
    <3> QED BY <2>3, <3>1, SubSeqProperties
  <2>5. r \in Polls /\ r.of = poll.of /\ r.at = "open" /\ r.offset = poll.offset
    <3> HIDE DEF p, m
    <3> QED BY <1>1, <2>4 DEF Polls
  <2>6. Goto(r) BY <2>1
  <2> HIDE DEF r
  <2> QED BY <1>1, <2>5, <2>6, PollTypes DEF Types, PollFits
<1> QED BY <1>2, <1>3, <1>4

\* The file a poll is at, and where it is in it.
LEMMA AtFile ==
    ASSUME Types, poll.at \in {"tail", "read", "store"}
    PROVE  /\ Head(poll.todo) \in Files /\ Head(poll.todo) = poll.todo[1] /\ Tail(poll.todo) \in Seq(Files)
           /\ poll.list[Head(poll.todo)] \in Nums /\ remote[poll.of.service][Head(poll.todo)] \in Nums
           /\ poll.offset \in Nat /\ poll.offset % 2 = 0 /\ poll.reads \in 0..MaxRanges
BY HeadTailProperties DEF Types, Polls, PollFits

\* A range that comes is of the file as it is, and no longer than the list says; the header
\* of a new session is not met on the way.
LEMMA ReadGoes ==
    ASSUME AdmAssumption, Types, Read
    PROVE  /\ UNCHANGED store
           /\ \/ Goto(Close(poll))
              \/ LET f == Head(poll.todo) IN
                 /\ poll.offset < poll.list[f].size /\ poll.reads # MaxRanges
                 /\ \E got \in Nat \ {0}, len \in Nat :
                      /\ poll.offset + got <= poll.list[f].size
                      /\ Goto([poll EXCEPT !.at = "store", !.reads = @ + 1,
                                           !.chunk = <<remote[poll.of.service][f].gen, got, len>>])
<1> DEFINE f == Head(poll.todo)
           file == remote[poll.of.service][f]
           len == Min({RangeSize, poll.list[f].size - poll.offset})
           there == IF file.size > poll.offset THEN file.size - poll.offset ELSE 0
           Goes(got) == [poll EXCEPT !.at = "store", !.reads = @ + 1, !.chunk = <<file.gen, got, len>>]
<1>1. UNCHANGED store BY DEF Read
<1>2. CASE poll.offset >= poll.list[f].size \/ poll.reads = MaxRanges BY <1>1, <1>2 DEF Read
<1>3. CASE ~(poll.offset >= poll.list[f].size \/ poll.reads = MaxRanges)
  <2>1. PICK got \in 0..Min({len, there}) :
           Goto(IF got = 0 THEN Close(poll)
                ELSE IF ~poll.reset /\ poll.offset > 0 /\ poll.reads = 0 /\ Header(poll.offset)
                THEN [poll EXCEPT !.reset = TRUE, !.offset = 0]
                ELSE Goes(got))
    BY <1>3 DEF Read
  <2>2. ~(poll.offset > 0 /\ Header(poll.offset)) BY DEF Header
  <2>3. f \in Files /\ poll.list[f] \in Nums /\ file \in Nums /\ poll.offset \in Nat BY AtFile DEF Read
  <2>4. poll.list[f].size \in Nat /\ file.size \in Nat BY <2>3 DEF Nums
  <2>5. poll.list[f].size - poll.offset \in Nat /\ there \in Nat BY <1>3, <2>3, <2>4
  <2>6. len \in Nat /\ len <= poll.list[f].size - poll.offset BY <2>5, MinOfTwo DEF AdmAssumption
  <2>7. Min({len, there}) \in Nat /\ Min({len, there}) <= len
    <3> HIDE DEF len, there
    <3> QED BY <2>5, <2>6, MinOfTwo
  <2>8. CASE got = 0 BY <1>1, <2>1, <2>8
  <2>9. CASE got # 0
    <3>1. Goto(Goes(got)) BY <2>1, <2>2, <2>9
    <3>2. got \in Nat \ {0} /\ poll.offset + got <= poll.list[f].size
      <4> HIDE DEF len, there
      <4> QED BY <2>1, <2>3, <2>4, <2>6, <2>7, <2>9
    <3>3. poll.offset < poll.list[f].size /\ poll.reads # MaxRanges BY <1>3, <2>3, <2>4
    <3> HIDE DEF len
    <3> QED BY <1>1, <2>6, <3>1, <3>2, <3>3
  <2> QED BY <2>8, <2>9
<1> QED BY <1>2, <1>3

\* The other steps of the poll.
LEMMA OpenTypes == ASSUME AdmAssumption, Types, TypeOK, Open PROVE Types' /\ TypeOK'
<1>1. CASE poll.todo = <<>> BY <1>1, RestTypes DEF Open
<1>2. CASE poll.todo # <<>>
  <2>1. UNCHANGED store /\ \E offset \in Nat, reset \in BOOLEAN :
            /\ offset % 2 = 0
            /\ Goto([poll EXCEPT !.at = "read", !.offset = offset, !.reset = reset, !.reads = 0])
    <3> DEFINE f == Head(poll.todo)
               reset == f \in Seen(poll) /\ (Restarted(poll.list[f], CursorOf(poll, f))
                           \/ CursorOf(poll, f).offset > poll.list[f].size
                              \/ poll.list[f].size < CursorOf(poll, f).size)
    <3>1. f \in Files BY <1>2, HeadTailProperties DEF Types, Polls
    <3>2. poll.of.version \in Versions
      <4>1. poll.of.version \in Nat /\ poll.of.version <= Now BY DEF Types, PollFits, Polls, Now
      <4> QED BY <4>1, Rows DEF Versions, AdmAssumption
    <3>0. <<poll.of.version, f>> \in Versions \X Files BY <3>1, <3>2
    <3>3. CursorOf(poll, f).offset \in Nat /\ CursorOf(poll, f).offset % 2 = 0
      BY <3>0, <3>1, <3>2, Rows DEF CursorOf, Space, Cursors, TypeOK, Types
    <3>4. Goto([poll EXCEPT !.at = "read", !.offset = IF reset THEN 0 ELSE CursorOf(poll, f).offset,
                            !.reset = reset, !.reads = 0])
      BY <1>2 DEF Open
    <3>5. reset \in BOOLEAN /\ UNCHANGED store BY DEF Open
    <3> DEFINE offset == IF reset THEN 0 ELSE CursorOf(poll, f).offset
    <3>6. offset \in Nat /\ offset % 2 = 0 BY <3>3
    <3>7. Goto([poll EXCEPT !.at = "read", !.offset = offset, !.reset = reset, !.reads = 0]) BY <3>4
    <3> HIDE DEF reset, offset
    <3> QED BY <3>5, <3>6, <3>7
  <2>2. PICK offset \in Nat, reset \in BOOLEAN :
            /\ offset % 2 = 0
            /\ Goto([poll EXCEPT !.at = "read", !.offset = offset, !.reset = reset, !.reads = 0]) BY <2>1
  <2> DEFINE p == [poll EXCEPT !.at = "read", !.offset = offset, !.reset = reset, !.reads = 0]
  <2>3. p \in Polls /\ p.of = poll.of /\ p.todo = poll.todo /\ p.offset = offset
    <3>1. 0 \in 0..MaxRanges BY DEF AdmAssumption
    <3> QED BY <3>1 DEF Types, Polls
  <2>4. Goto(p) BY <2>2
  <2> HIDE DEF p
  <2>5. PollFits(p) BY <1>2, <2>2, <2>3 DEF PollFits, Types
  <2> QED BY <2>1, <2>3, <2>4, <2>5, PollTypes
<1> QED BY <1>1, <1>2

\* A file is done with.
LEMMA CloseTypes ==
    ASSUME AdmAssumption, Types, TypeOK, poll.at = "read", Goto(Close(poll)), UNCHANGED store
    PROVE  Types' /\ TypeOK'
<1>1. CASE Close(poll) = Idle BY <1>1, RestTypes
<1>2. CASE Close(poll) = [poll EXCEPT !.at = "open", !.todo = Tail(@)]
  <2> DEFINE p == [poll EXCEPT !.at = "open", !.todo = Tail(@)]
  <2>1. p \in Polls /\ p.of = poll.of /\ p.at = "open" /\ p.offset = poll.offset BY AtFile DEF Types, Polls
  <2>2. Goto(p) BY <1>2
  <2> HIDE DEF p
  <2>3. PollFits(p) BY <2>1 DEF PollFits, Types
  <2> QED BY <2>1, <2>2, <2>3, PollTypes
<1> QED BY <1>1, <1>2 DEF Close

\* A range comes, or the file is done with.
LEMMA ReadTypes == ASSUME AdmAssumption, Types, TypeOK, Read PROVE Types' /\ TypeOK'
<1>1. CASE Goto(Close(poll)) BY <1>1, ReadGoes, CloseTypes DEF Read
<1>2. ASSUME NEW got \in Nat \ {0}, NEW len \in Nat, poll.reads # MaxRanges,
             Goto([poll EXCEPT !.at = "store", !.reads = @ + 1,
                               !.chunk = <<remote[poll.of.service][Head(poll.todo)].gen, got, len>>])
      PROVE  Types' /\ TypeOK'
  <2> DEFINE c == <<remote[poll.of.service][Head(poll.todo)].gen, got, len>>
             p == [poll EXCEPT !.at = "store", !.reads = @ + 1, !.chunk = c]
  <2>1. c \in Nat \X Nat \X Nat BY AtFile DEF Nums, Read
  <2>2. poll.reads + 1 \in 0..MaxRanges
    <3>1. poll.reads \in 0..MaxRanges BY AtFile DEF Read
    <3> QED BY <1>2, <3>1 DEF AdmAssumption
  <2>3. Goto(p) BY <1>2
  <2>4. poll \in Polls /\ poll.todo # <<>> BY DEF Types, PollFits, Read
  <2> HIDE DEF c
  <2>5. p \in Polls /\ p.of = poll.of /\ p.todo = poll.todo /\ p.offset = poll.offset
    BY <2>1, <2>2, <2>4 DEF Polls
  <2> HIDE DEF p
  <2>6. PollFits(p) BY <2>4, <2>5 DEF PollFits, Types
  <2>7. UNCHANGED store BY ReadGoes
  <2> QED BY <2>3, <2>5, <2>6, <2>7, PollTypes
<1> QED BY <1>1, <1>2, ReadGoes

\* Where a range ends.
LEMMA Upto ==
    ASSUME Types, poll.at = "store"
    PROVE  /\ Whole(poll.offset + poll.chunk[2]) \in Nat /\ Whole(poll.offset + poll.chunk[2]) % 2 = 0
           /\ poll.offset <= Whole(poll.offset + poll.chunk[2])
           /\ Whole(poll.offset + poll.chunk[2]) <= poll.offset + poll.chunk[2]
           /\ poll.chunk[1] \in Nat /\ poll.chunk[2] \in Nat /\ poll.offset \in Nat
<1>1. poll.chunk[1] \in Nat /\ poll.chunk[2] \in Nat /\ poll.offset \in Nat /\ poll.offset % 2 = 0
  BY DEF Types, Polls, PollFits
<1>2. poll.offset + poll.chunk[2] \in Nat BY <1>1
<1>3. poll.offset <= Whole(poll.offset + poll.chunk[2]) BY <1>1 DEF Whole
<1> QED BY <1>1, <1>2, <1>3, WholeIs

\* A baseline and a range that is stored.
LEMMA BaselineTypes == ASSUME AdmAssumption, Types, TypeOK, Baseline PROVE Types' /\ TypeOK'
<1> DEFINE f == Head(poll.todo)
           offset == Whole(poll.list[f].size)
<1>1. f \in Files /\ poll.list[f] \in Nums BY AtFile DEF Baseline
<1>2. offset \in Nat /\ offset % 2 = 0
  <2>1. poll.list[f].size \in Nat BY <1>1 DEF Nums
  <2> QED BY <2>1, WholeIs
<1>3. WriteCursor(f, offset, FALSE) /\ Fresh /\ Goto(Idle) /\ stored' = stored
      /\ skipped' = skipped \union Lines(poll.of.version, poll.list)
  BY DEF Baseline
<1> HIDE DEF f, offset
<1>4. cursor' \in [Versions \X Files -> Cursors] /\ \A c \in DOMAIN cursor' : cursor'[c].offset % 2 = 0
  BY <1>1, <1>2, <1>3, WriteCursorTypes
<1>5. skipped' \subseteq AllLines
  <2>1. poll.of.version \in Nat /\ poll.list \in [Files -> Nums] BY DEF Types, Polls
  <2> QED BY <1>3, <2>1, LinesAreLines DEF Types
<1>6. PollFits(Idle) /\ Idle \in Polls BY IdleIsPoll, Rows DEF PollFits, Now
<1> QED BY <1>3, <1>4, <1>5, <1>6, GotoTypes DEF Types

\* What a range adds to what is stored: lines of its own, in their order, up to its last whole one.
LEMMA StoreGoes ==
    ASSUME AdmAssumption, Types, Store
    PROVE  LET f == Head(poll.todo) upto == Whole(poll.offset + poll.chunk[2]) IN
           /\ \E new \in Seq(AllLines) :
                /\ stored' = stored \o new
                /\ \A i \in 1..Len(new) : /\ new[i] = <<Now, f, poll.chunk[1], new[i][4]>>
                                          /\ poll.offset < 2 * new[i][4] /\ 2 * new[i][4] <= upto
                /\ \A i, j \in 1..Len(new) : i < j => new[i][4] < new[j][4]
           /\ Fresh /\ WriteCursor(f, upto, poll.reset /\ poll.reads = 1) /\ skipped' = skipped
           /\ Goto(IF upto <= poll.offset THEN Idle ELSE [poll EXCEPT !.at = "read", !.offset = upto])
<1> DEFINE f == Head(poll.todo)
           upto == Whole(poll.offset + poll.chunk[2])
           lines == {<<poll.of.version, f, poll.chunk[1], k>> : k \in (poll.offset \div 2 + 1)..(upto \div 2)}
           L == lines \ ToSet(stored)
<1>1. PICK new \in SetToSeqs(L) : /\ \A i, j \in DOMAIN new : i < j => new[i][4] < new[j][4]
                                  /\ stored' = stored \o new
  BY DEF Store
<1>2. f \in Files /\ upto \in Nat /\ poll.offset \in Nat /\ poll.chunk[1] \in Nat /\ poll.offset % 2 = 0
  BY AtFile, Upto DEF Store
<1>3. poll.of.version = Now /\ Now \in Nat BY Rows DEF Store, Fresh, Now
<1>4. L \subseteq AllLines /\ IsFiniteSet(L)
  <2> DEFINE K == (poll.offset \div 2 + 1)..(upto \div 2)
  <2>1. K \subseteq Nat BY <1>2
  <2>2. IsFiniteSet(K)
    <3>1. poll.offset \div 2 + 1 \in Int /\ upto \div 2 \in Int BY <1>2
    <3> QED BY <3>1, FS_Interval
  <2>3. IsFiniteSet(lines)
    <3> DEFINE g == [k \in K |-> <<poll.of.version, f, poll.chunk[1], k>>]
    <3>1. g \in Surjection(K, lines) BY DEF Surjection
    <3> HIDE DEF K, lines, g
    <3> QED BY <2>2, <3>1, FS_Surjection
  <2>4. IsFiniteSet(L) BY <2>3, FS_Difference
  <2>5. lines \subseteq AllLines BY <1>2, <1>3, <2>1 DEF AllLines
  <2> QED BY <2>4, <2>5
<1>5. new \in Seq(L) BY <1>4, SeqOfSet
<1>6. new \in Seq(AllLines) BY <1>4, <1>5, SeqMonotonic
<1>7. \A i \in 1..Len(new) : new[i] \in lines BY <1>5, ElementOfSeq
<1>8. \A l \in lines : l = <<Now, f, poll.chunk[1], l[4]>> /\ poll.offset < 2 * l[4] /\ 2 * l[4] <= upto
  BY <1>2, <1>3
<1>9. DOMAIN new = 1..Len(new) BY <1>6, LenProperties
<1> QED BY <1>1, <1>6, <1>7, <1>8, <1>9 DEF Store

\* A range that is stored.
LEMMA StoreTypes == ASSUME AdmAssumption, Types, TypeOK, Store PROVE Types' /\ TypeOK'
<1> DEFINE f == Head(poll.todo)
           upto == Whole(poll.offset + poll.chunk[2])
           reset == poll.reset /\ poll.reads = 1
           p == IF upto <= poll.offset THEN Idle ELSE [poll EXCEPT !.at = "read", !.offset = upto]
<1>1. f \in Files BY AtFile DEF Store
<1>2. upto \in Nat /\ upto % 2 = 0 BY Upto DEF Store
<1>3. WriteCursor(f, upto, reset) /\ Fresh /\ Goto(p) /\ skipped' = skipped BY StoreGoes
<1>4. stored' \in Seq(AllLines)
  <2>1. stored \in Seq(AllLines) /\ \E new \in Seq(AllLines) : stored' = stored \o new BY StoreGoes DEF Types
  <2> QED BY <2>1, ConcatProperties
<1>5. reset \in BOOLEAN BY DEF Types, Polls
<1>6. p \in Polls /\ PollFits(p)
  <2>1. CASE upto <= poll.offset BY <2>1, IdleIsPoll, Rows DEF PollFits, Now
  <2>2. CASE ~(upto <= poll.offset)
    <3> DEFINE r == [poll EXCEPT !.at = "read", !.offset = upto]
    <3>1. r \in Polls /\ r.of = poll.of /\ r.todo = poll.todo /\ r.offset = upto BY <1>2 DEF Types, Polls
    <3>2. p = r BY <2>2
    <3> HIDE DEF r, p, upto
    <3> QED BY <1>2, <3>1, <3>2 DEF PollFits, Types, Store
  <2> QED BY <2>1, <2>2
<1> HIDE DEF f, upto, reset, p
<1>7. cursor' \in [Versions \X Files -> Cursors] /\ \A c \in DOMAIN cursor' : cursor'[c].offset % 2 = 0
  BY <1>1, <1>2, <1>3, <1>5, WriteCursorTypes
<1> QED BY <1>3, <1>4, <1>6, <1>7, GotoTypes DEF Types

\* The game server and the administrator.
LEMMA WriteTypes == ASSUME AdmAssumption, Types, TypeOK, Disk, NEW s \in Services, Write(s) PROVE Types' /\ TypeOK'
<1> DEFINE f == Newest(remote[s])
           file == [remote[s][f] EXCEPT !.size = @ + 1, !.mtime = clock[s] + 1]
<1>1. f \in Files BY NewestIsLast DEF Write, Disk
<1>2. remote[s][f] \in Nums /\ clock[s] \in Nat BY <1>1, Rows DEF Types
<1>3. remote[s][f].size < MaxSize /\ WriteFile(s, f, file) BY DEF Write
<1> HIDE DEF f
<1>4. remote[s][f].size \in Nat /\ file.size = remote[s][f].size + 1 BY <1>2 DEF Nums
<1>7. file \in Nums
  <2>1. remote[s][f].size + 1 \in Nat /\ clock[s] + 1 \in Nat BY <1>2, <1>4
  <2> QED BY <1>2, <2>1 DEF Nums
<1> HIDE DEF file
<1>5. MaxSize \in Nat BY DEF AdmAssumption
<1>6. file.size <= MaxSize BY <1>3, <1>4, <1>5
<1> QED BY <1>1, <1>3, <1>5, <1>6, <1>7, WriteFileTypes

\* A new file.
LEMMA RotateTypes ==
    ASSUME AdmAssumption, Types, TypeOK, NEW s \in Services, NEW f \in Files, Rotate(s, f)
    PROVE  Types' /\ TypeOK'
<1> DEFINE file == [gen |-> 1, size |-> 0, mtime |-> clock[s] + 1, since |-> clock[s] + 1]
<1>1. file \in Nums /\ file.size = 0 /\ WriteFile(s, f, file) BY DEF Types, Nums, Rotate
<1> HIDE DEF file
<1> QED BY <1>1, WriteFileTypes DEF AdmAssumption

\* A new session in the old file.
LEMMA ReplaceTypes == ASSUME AdmAssumption, Types, TypeOK, Disk, NEW s \in Services, Replace(s) PROVE Types'
  /\ TypeOK'
<1> DEFINE f == Newest(remote[s])
           file(n) == [gen |-> remote[s][f].gen + 1, size |-> n, mtime |-> clock[s] + 1, since |-> clock[s] + 1]
<1>1. f \in Files BY NewestIsLast DEF Replace, Disk
<1>2. remote[s][f] \in Nums /\ clock[s] \in Nat BY <1>1, Rows DEF Types
<1>3. PICK n \in {remote[s][f].size, remote[s][f].size + 2} : n <= MaxSize /\ WriteFile(s, f, file(n))
  BY DEF Replace
<1> HIDE DEF f
<1>4. file(n) \in Nums /\ file(n).size = n BY <1>2 DEF Nums
<1> HIDE DEF file
<1> QED BY <1>1, <1>3, <1>4, WriteFileTypes DEF AdmAssumption

\* Another service.
LEMMA RebindTypes == ASSUME AdmAssumption, Types, TypeOK, NEW s \in Services, Rebind(s) PROVE Types' /\ TypeOK'
<1>1. /\ binding' = [service |-> s, version |-> binding.version + 1] /\ rebinds < MaxRebinds
         /\ rebinds' = rebinds + 1
      /\ skipped' = skipped \union Lines(binding.version + 1, remote[s])
      /\ UNCHANGED <<remote, clock, cursor, stored, poll>>
  BY DEF Rebind, source
<1>2. rebinds \in 0..MaxRebinds /\ MaxRebinds \in Nat /\ binding.version = rebinds BY DEF Types, Versions,
      AdmAssumption
<1>3. rebinds' \in Versions /\ rebinds' \in Nat /\ binding'.version = rebinds' BY <1>1, <1>2 DEF Versions
<1>4. skipped' \subseteq AllLines
  <2>1. remote[s] \in [Files -> Nums] /\ binding.version + 1 \in Nat BY <1>1, <1>2, <1>3 DEF Types
  <2> QED BY <1>1, <2>1, LinesAreLines DEF Types
<1>5. PollFits(poll)'
  <2>1. poll.of.version \in Nat /\ poll.of.version <= binding.version BY DEF Types, PollFits, Polls
  <2> QED BY <1>1, <1>2, <1>3, <2>1 DEF Types, PollFits
<1>6. binding' \in [service : Services, version : Nat] BY <1>1, <1>3
<1>7. Types' BY <1>1, <1>3, <1>4, <1>5, <1>6 DEF Types
<1> QED BY <1>1, <1>7 DEF TypeOK

\* Every step keeps the types.
LEMMA TypesStep ==
    ASSUME AdmAssumption, Types, TypeOK, Disk, [Next]_vars
    PROVE  Types' /\ TypeOK'
<1>1. CASE \E s \in Services : Write(s) \/ Replace(s) \/ Rebind(s) \/ (\E f \in Files : Rotate(s, f))
  BY <1>1, WriteTypes, ReplaceTypes, RebindTypes, RotateTypes
<1>2. CASE Begin
  <2> DEFINE p == [Idle EXCEPT !.at = "list", !.of = binding]
  <2>1. p \in Polls /\ p.of = binding /\ p.at = "list" /\ p.offset = Idle.offset
    BY IdleIsPoll DEF Types, Polls
  <2>2. Goto(p) /\ UNCHANGED store BY <1>2 DEF Begin
  <2> HIDE DEF p
  <2>3. PollFits(p) BY <2>1, IdleIsPoll, Rows DEF PollFits, Now
  <2> QED BY <2>1, <2>2, <2>3, PollTypes
<1>3. CASE ListDir
  <2>1. poll.of.service \in Services BY DEF Types, Polls
  <2> QED BY <1>3, <2>1, ListTypes DEF Disk
<1>4. CASE Baseline \/ Open \/ Read \/ Store BY <1>4, BaselineTypes, OpenTypes, ReadTypes, StoreTypes
<1>5. CASE Abandon \/ Fails BY <1>5, RestTypes DEF Abandon, Stale, Fails, Busy
<1>6. CASE UNCHANGED vars BY <1>6 DEF vars, source, store, Types, TypeOK, PollFits
<1> QED BY <1>1, <1>2, <1>3, <1>4, <1>5, <1>6 DEF Next, Poll

\* So do the states the ingestion begins in.
LEMMA InitTypes == ASSUME AdmAssumption, Init PROVE Types /\ TypeOK

<1>1. PICK n \in {0, 2, 3} \intersect 0..MaxSize : remote = [s \in Services |-> [f \in Files |->
          IF f = 1 /\ n > 0 THEN [gen |-> 1, size |-> n, mtime |-> 1, since |-> 1] ELSE NoFile]]
  BY DEF Init
<1>2. [gen |-> 1, size |-> n, mtime |-> 1, since |-> 1] \in Nums /\ NoFile \in Nums BY DEF NoFile, Nums
<1>3. remote \in [Services -> [Files -> Nums]] BY <1>1, <1>2
<1>4. clock \in [Services -> Nat] /\ binding \in [service : Services, version : Nat] /\ binding.version = rebinds
      /\ rebinds \in Versions /\ stored \in Seq(AllLines) /\ skipped \subseteq AllLines
  BY EmptySeq DEF Init, AdmAssumption, Versions
<1>5. NoCursor \in Cursors /\ NoCursor.offset % 2 = 0 BY DEF NoCursor, Cursors
<1>6. cursor \in [Versions \X Files -> Cursors] /\ \A c \in DOMAIN cursor : cursor[c].offset % 2 = 0
  BY <1>5 DEF Init, Versions
<1>7. poll = Idle /\ poll \in Polls /\ PollFits(poll) BY IdleIsPoll DEF Init, PollFits
<1>8. ASSUME NEW s \in Services, NEW f \in Files PROVE remote[s][f].size \in 0..MaxSize
  BY <1>1 DEF NoFile, AdmAssumption
<1>9. Types BY <1>3, <1>4, <1>6, <1>7 DEF Types
<1> QED BY <1>6, <1>7, <1>8, <1>9 DEF TypeOK, Versions, Cursors, Polls

-----------------------------------------------------------------------------
(* The game server writes, or opens a file                                 *)

\* All that is compared are numbers.
LEMMA Numbers ==
    ASSUME Types
    PROVE  /\ \A f \in Files :
                /\ File(f).gen \in Nat /\ File(f).size \in Nat /\ File(f).mtime \in Nat /\ File(f).since \in Nat
                /\ Cur(f).offset \in Nat /\ Cur(f).size \in Nat /\ Cur(f).mtime \in Nat
                /\ poll.list[f].gen \in Nat /\ poll.list[f].size \in Nat
                /\ poll.list[f].mtime \in Nat /\ poll.list[f].since \in Nat
           /\ \A l \in AllLines : l[1] \in Nat /\ l[2] \in Files /\ l[3] \in Nat /\ l[4] \in Nat
           /\ Known \subseteq AllLines
<1>1. ToSet(stored) \subseteq AllLines
  <2>1. stored \in Seq(AllLines) BY DEF Types
  <2>2. \A i \in DOMAIN stored : stored[i] \in AllLines BY <2>1, ElementOfSeq, LenProperties
  <2> QED BY <2>2 DEF ToSet
<1>2. Known \subseteq AllLines BY <1>1 DEF Known, Types
<1>3. \A l \in AllLines : l[1] \in Nat /\ l[2] \in Files /\ l[3] \in Nat /\ l[4] \in Nat BY DEF AllLines
<1> QED BY <1>2, <1>3, Rows DEF Nums, Cursors

\* The same after a step, of the files.
LEMMA FutureNumbers ==
    ASSUME Types'
    PROVE  \A f \in Files : File(f)'.gen \in Nat /\ File(f)'.size \in Nat /\ File(f)'.mtime \in Nat
           /\ File(f)'.since \in Nat
<1>1. remote' \in [Services -> [Files -> Nums]] /\ binding'.service \in Services BY DEF Types
<1>2. \A f \in Files : File(f)' \in Nums BY <1>1 DEF File
<1> QED BY <1>2 DEF Nums

\* What is to be read are files.
LEMMA TodoFiles == ASSUME Types PROVE DOMAIN poll.todo = 1..Len(poll.todo)
  /\ \A i \in DOMAIN poll.todo : poll.todo[i] \in Files
<1>1. poll.todo \in Seq(Files) BY DEF Types, Polls
<1> QED BY <1>1, ElementOfSeq, LenProperties

\* A file is left alone, opened, or, the last one, written.
Grows(f) ==
    \/ File(f)' = File(f)
    \/ File(f).gen = 0
    \/ /\ File(f)'.gen = File(f).gen /\ File(f)'.since = File(f).since
       /\ File(f).mtime < File(f)'.mtime /\ File(f).size < File(f)'.size
       /\ \A g \in Files : f < g => File(g).gen = 0
Growth == /\ \A f \in Files : Grows(f)
          /\ UNCHANGED <<binding, cursor, stored, skipped, poll>>

\* Nothing else is touched.
LEMMA GrowthFrame ==
    ASSUME Growth
    PROVE  /\ Now' = Now /\ Followed' = Followed /\ Known' = Known /\ Working' = Working
           /\ \A f \in Files : Cur(f)' = Cur(f)
BY DEF Growth, Now, Followed, Known, Working, Fresh, Cur

\* The files somebody has seen exist, the older ones as they were.
LEMMA OldStay ==
    ASSUME AdmAssumption, Types, Types', Disk, CursorsSound, ListSound, Growth
    PROVE  /\ \A g \in Followed : File(g).gen > 0
           /\ \A f \in Files, g \in Files : f < g /\ File(g).gen > 0 => File(f)' = File(f)
           /\ \A f \in Files : File(f).gen > 0 =>
                 /\ File(f)'.gen = File(f).gen /\ File(f)'.since = File(f).since
                 /\ File(f).mtime <= File(f)'.mtime /\ File(f).size <= File(f)'.size
                 /\ File(f).mtime < File(f)'.mtime \/ File(f)' = File(f)
                 /\ File(f)' = File(f) \/ File(f).size < File(f)'.size
           /\ Working => \A f \in Files : poll.list[f].gen > 0 => File(f).gen > 0
<1>1. \A g \in Followed : File(g).gen > 0 BY DEF CursorsSound
<1>2. ASSUME NEW f \in Files, NEW g \in Files, f < g, File(g).gen > 0 PROVE File(f)' = File(f)
  <2>1. File(f).gen > 0 BY <1>2, Rows DEF Disk, DiskSound, File
  <2> QED BY <1>2, <2>1, Numbers DEF Growth, Grows
<1>3. ASSUME NEW f \in Files, File(f).gen > 0
      PROVE  /\ File(f)'.gen = File(f).gen /\ File(f)'.since = File(f).since
             /\ File(f).mtime <= File(f)'.mtime /\ File(f).size <= File(f)'.size
             /\ File(f).mtime < File(f)'.mtime \/ File(f)' = File(f)
             /\ File(f)' = File(f) \/ File(f).size < File(f)'.size
  BY <1>3, Numbers, FutureNumbers DEF Growth, Grows
<1>4. Working => \A f \in Files : poll.list[f].gen > 0 => File(f).gen > 0 BY DEF ListSound
<1> QED BY <1>1, <1>2, <1>3, <1>4

\* So what cursors, lines and polls say of them stays true.
LEMMA GrowthKeeps ==
    ASSUME AdmAssumption, Types, Types', Disk, CursorsSound, LinesSound, PollSound, InOrder, Growth
    PROVE  CursorsSound' /\ LinesSound' /\ PollSound' /\ InOrder'
<1> USE GrowthFrame, OldStay
<1>0. ListSound BY DEF PollSound
<1>1. CursorsSound'
  <2>1. \A v \in Versions, f \in Files : v > Now' \/ cursor'[<<v, f>>].mtime = 0 => cursor'[<<v, f>>] = NoCursor
    BY DEF CursorsSound, Growth
  <2>2. ASSUME NEW f \in Followed
        PROVE  File(f)'.gen > 0 /\ Seenly(Cur(f), File(f)') /\ Cur(f).offset <= Cur(f).size
    <3>1. f \in Files /\ File(f).gen > 0 /\ Seenly(Cur(f), File(f)) /\ Cur(f).offset <= Cur(f).size
      BY DEF CursorsSound, Followed
    <3> QED BY <1>0, <3>1, Numbers, FutureNumbers DEF Seenly
  <2>3. ASSUME NEW f \in Files, NEW g \in Followed, f < g
        PROVE  File(f)'.mtime < Cur(g).mtime /\ (f \in Followed => Done(f)')
    <3>1. g \in Files /\ File(g).gen > 0 /\ File(f)' = File(f) BY <1>0, <2>3 DEF Followed
    <3> QED BY <2>3, <3>1 DEF CursorsSound, Done
  <2> QED BY <2>1, <2>2, <2>3 DEF CursorsSound, Followed
<1>2. LinesSound'
  <2>1. ASSUME NEW l \in Known
        PROVE  /\ l[1] <= Now
               /\ l[1] = Now => /\ 0 < l[3] /\ l[3] <= File(l[2])'.gen
                                /\ l[3] = File(l[2])'.gen => 2 * l[4] <= File(l[2])'.size
                                /\ Followed # {} => Passed(l)'
    <3>1. l[2] \in Files /\ l[3] \in Nat /\ l[4] \in Nat BY Numbers
    <3>2. CASE l[1] = Now
      <4>1. 0 < l[3] /\ l[3] <= File(l[2]).gen /\ (l[3] = File(l[2]).gen => 2 * l[4] <= File(l[2]).size)
            /\ (Followed # {} => Passed(l))
        BY <3>2 DEF LinesSound
      <4>2. File(l[2]).gen > 0 BY <3>1, <4>1, Numbers
      <4>3. File(l[2])'.gen = File(l[2]).gen /\ File(l[2])'.since = File(l[2]).since
            /\ File(l[2]).size <= File(l[2])'.size
        BY <1>0, <3>1, <4>2
      <4>4. Passed(l) => Passed(l)' BY <3>1, <4>3 DEF Passed
      <4>5. File(l[2])'.size \in Nat /\ File(l[2]).size \in Nat BY <3>1, Numbers, FutureNumbers
      <4> QED BY <3>1, <3>2, <4>1, <4>3, <4>4, <4>5 DEF LinesSound
    <3> QED BY <3>2 DEF LinesSound
  <2>2. Followed = {} => \A l \in ToSet(stored)' : l[1] # Now BY DEF LinesSound, Growth
  <2> QED BY <2>1, <2>2 DEF LinesSound
<1>3. InOrder' BY DEF InOrder, Growth
<1>4. ListSound'
  <2> SUFFICES ASSUME Working, NEW f \in Files, poll.list[f].gen > 0
               PROVE  /\ poll.list[f].gen = File(f)'.gen /\ poll.list[f].since = File(f)'.since
                      /\ 0 < poll.list[f].since /\ poll.list[f].since <= poll.list[f].mtime
                      /\ Seenly(poll.list[f], File(f)')
                      /\ f \in Followed => Seenly(Cur(f), poll.list[f])
                      /\ \A g \in Files : f < g /\ poll.list[g].gen > 0 => poll.list[f] = File(f)'
    BY DEF ListSound, Growth
  <2>1. File(f).gen > 0 BY <1>0
  <2>2. Seenly(poll.list[f], File(f)) BY <1>0 DEF ListSound
  <2>3. Seenly(poll.list[f], File(f)') BY <1>0, <2>1, <2>2, Numbers, FutureNumbers DEF Seenly
  <2>4. ASSUME NEW g \in Files, f < g, poll.list[g].gen > 0 PROVE poll.list[f] = File(f)'
    <3>1. File(g).gen > 0 BY <1>0, <2>4
    <3> QED BY <1>0, <2>4, <3>1 DEF ListSound
  <2> QED BY <1>0, <2>1, <2>3, <2>4 DEF ListSound
<1>5. TailSound' BY DEF TailSound, Growth, PollSound
<1>6. TodoSound'
  <2> SUFFICES ASSUME Working, poll.at \in {"open", "read", "store"}, NEW i \in DOMAIN poll.todo,
    NEW g \in Followed,
                      g < poll.todo[i], Done(g)
               PROVE  Done(g)'
    BY DEF TodoSound, Growth, PollSound
  <2>1. poll.list[poll.todo[i]].gen > 0 BY DEF TodoSound, PollSound
  <2>2. poll.todo[i] \in Files BY TodoFiles
  <2>3. File(poll.todo[i]).gen > 0 /\ g \in Files BY <1>0, <2>1, <2>2 DEF Followed
  <2>4. File(g)' = File(g) BY <1>0, <2>2, <2>3
  <2> QED BY <2>3, <2>4 DEF Done
<1>7. RangeSound'
  <2>1. poll.at \in {"read", "store"} => poll.todo[1] \in Files BY AtFile
  <2> QED BY <2>1 DEF RangeSound, Growth, PollSound
<1> QED BY <1>1, <1>2, <1>3, <1>4, <1>5, <1>6, <1>7 DEF PollSound

\* The last file is written after all the others.
LEMMA WriteDisk ==
    ASSUME Types, Disk, NEW s \in Services, NEW f \in Files, NEW file \in Nums, WriteFile(s, f, file),
           file.gen > 0, 0 < file.since, file.since <= file.mtime, file.mtime = clock[s] + 1,
           \A g \in Files : f < g => remote[s][g].gen = 0,
           \A g \in Files : g < f => remote[s][g].gen > 0 /\ remote[s][g].mtime < file.since,
           Files \subseteq Nat
    PROVE  Disk'
<1>1. remote' = [remote EXCEPT ![s][f] = file] /\ clock' = [clock EXCEPT ![s] = @ + 1] BY DEF WriteFile
<1>2. remote \in [Services -> [Files -> Nums]] /\ clock \in [Services -> Nat] BY DEF Types
<1>3. \A t \in Services : t # s => remote'[t] = remote[t] /\ clock'[t] = clock[t] BY <1>1, <1>2
<1>4. remote'[s][f] = file /\ clock'[s] = clock[s] + 1 /\ \A g \in Files : g # f => remote'[s][g] = remote[s][g]
  BY <1>1, <1>2
<1>5. ASSUME NEW t \in Services, t # s PROVE DiskSound(t)' BY <1>3, <1>5 DEF Disk, DiskSound
<1>6. DiskSound(s)'
  <2> SUFFICES ASSUME NEW g \in Files
               PROVE  /\ remote'[s][g].gen = 0 => remote'[s][g] = NoFile
                      /\ remote'[s][g].gen > 0 => 0 < remote'[s][g].since
                         /\ remote'[s][g].since <= remote'[s][g].mtime
                                                  /\ remote'[s][g].mtime <= clock'[s]
                      /\ \A h \in Files : g < h /\ remote'[s][h].gen > 0
                           => remote'[s][g].gen > 0 /\ remote'[s][g].mtime < remote'[s][h].since
    BY DEF DiskSound
  <2>1. file.gen \in Nat /\ file.since \in Nat /\ file.mtime \in Nat /\ clock[s] \in Nat BY <1>2 DEF Nums
  <2>2. \A h \in Files : remote[s][h].gen \in Nat /\ remote[s][h].since \in Nat /\ remote[s][h].mtime \in Nat
    BY <1>2 DEF Nums
  <2>3. DiskSound(s) BY DEF Disk
  <2>4. CASE g = f
    <3>1. \A h \in Files : f < h => remote'[s][h].gen = 0 BY <1>4
    <3> QED BY <1>4, <2>1, <2>4, <3>1
  <2>5. CASE g # f
    <3>1. remote'[s][g] = remote[s][g] BY <1>4, <2>5
    <3>2. remote[s][g].gen > 0 => remote[s][g].mtime <= clock'[s]
      <4>1. remote[s][g].gen > 0 => remote[s][g].mtime <= clock[s] BY <2>3 DEF DiskSound
      <4>2. clock'[s] = clock[s] + 1 /\ remote[s][g].mtime \in Nat BY <1>4, <2>2
      <4> QED BY <2>1, <4>1, <4>2
    <3>3. ASSUME NEW h \in Files, g < h, remote'[s][h].gen > 0
          PROVE  remote'[s][g].gen > 0 /\ remote'[s][g].mtime < remote'[s][h].since
      <4>1. CASE h = f BY <1>4, <3>1, <3>3, <4>1
      <4>2. CASE h # f BY <1>4, <2>3, <3>1, <3>3, <4>2 DEF DiskSound
      <4> QED BY <4>1, <4>2
    <3> QED BY <2>3, <3>1, <3>2, <3>3 DEF DiskSound
  <2> QED BY <2>4, <2>5
<1> QED BY <1>5, <1>6 DEF Disk

\* Writing is growth where the poll looks.
LEMMA WriteGrows ==
    ASSUME Types, NEW s \in Services, NEW f \in Files, NEW file \in Nums, WriteFile(s, f, file),
           \/ remote[s][f].gen = 0
           \/ /\ file.gen = remote[s][f].gen /\ file.since = remote[s][f].since
              /\ remote[s][f].mtime < file.mtime /\ remote[s][f].size < file.size
              /\ \A g \in Files : f < g => remote[s][g].gen = 0
    PROVE  Growth
<1>1. remote' = [remote EXCEPT ![s][f] = file] /\ UNCHANGED <<binding, cursor, stored, skipped, poll>>
  BY DEF WriteFile, store
<1>2. remote \in [Services -> [Files -> Nums]] /\ binding.service \in Services BY DEF Types
<1>3. ASSUME NEW g \in Files PROVE Grows(g)
  <2>1. CASE s = binding.service /\ g = f
    <3>1. File(g) = remote[s][f] /\ File(g)' = file /\ \A h \in Files : File(h) = remote[s][h]
      BY <1>1, <1>2, <2>1 DEF File
    <3> QED BY <2>1, <3>1 DEF Grows
  <2>2. CASE ~(s = binding.service /\ g = f) BY <1>1, <1>2, <2>2 DEF File, Grows
  <2> QED BY <2>1, <2>2
<1> QED BY <1>1, <1>3 DEF Growth

\* The game server writes on in its last file, or opens the next one.
LEMMA GameStep ==
    ASSUME AdmAssumption, Types, TypeOK, Disk, NEW s \in Services, Write(s) \/ (\E f \in Files : Rotate(s, f))
    PROVE  Disk' /\ Growth
<1> Files \subseteq Nat BY DEF AdmAssumption
<1> \A f \in Files : remote[s][f] \in Nums BY Rows
<1>0. \A f \in Files : remote[s][f].gen \in Nat /\ remote[s][f].size \in Nat /\ remote[s][f].mtime \in Nat
         /\ remote[s][f].since \in Nat /\ clock[s] \in Nat
  BY DEF Nums, Types
<1>1. CASE Write(s)
  <2> DEFINE f == Newest(remote[s])
             file == [remote[s][f] EXCEPT !.size = @ + 1, !.mtime = clock[s] + 1]
  <2>1. f \in Files /\ remote[s][f].gen > 0 /\ \A g \in Files : f < g => remote[s][g].gen = 0
    BY <1>1, NewestIsLast DEF Write, Disk
  <2>2. WriteFile(s, f, file) BY <1>1 DEF Write
  <2> HIDE DEF f
  <2>3. remote[s][f].size + 1 \in Nat /\ clock[s] + 1 \in Nat BY <1>0, <2>1
  <2>4. file \in Nums /\ file.gen = remote[s][f].gen /\ file.since = remote[s][f].since
        /\ file.size = remote[s][f].size + 1 /\ file.mtime = clock[s] + 1
    BY <2>1, <2>3 DEF Nums
  <2> HIDE DEF file
  <2>5. 0 < file.since /\ file.since <= remote[s][f].mtime /\ remote[s][f].mtime <= clock[s]
    BY <2>1, <2>4 DEF Disk, DiskSound
  <2>6. remote[s][f].mtime < file.mtime /\ remote[s][f].size < file.size /\ file.since <= file.mtime
    BY <1>0, <2>1, <2>4, <2>5
  <2>7. \A g \in Files : g < f => remote[s][g].gen > 0 /\ remote[s][g].mtime < file.since
    BY <2>1, <2>4 DEF Disk, DiskSound
  <2>8. Disk' BY <2>1, <2>2, <2>4, <2>5, <2>6, <2>7, WriteDisk
  <2>9. Growth BY <2>1, <2>2, <2>4, <2>6, WriteGrows
  <2> QED BY <2>8, <2>9
<1>2. ASSUME NEW f \in Files, Rotate(s, f) PROVE Disk' /\ Growth
  <2> DEFINE file == [gen |-> 1, size |-> 0, mtime |-> clock[s] + 1, since |-> clock[s] + 1]
  <2>1. WriteFile(s, f, file) /\ \A g \in Files : (remote[s][g].gen > 0) = (g < f) BY <1>2 DEF Rotate
  <2>2. file \in Nums /\ file.gen = 1 /\ file.since = clock[s] + 1 /\ file.mtime = clock[s] + 1 BY <1>0 DEF Nums
  <2> HIDE DEF file
  <2>3. \A g \in Files : ~(g < f) => remote[s][g].gen = 0
    <3> SUFFICES ASSUME NEW g \in Files, ~(g < f) PROVE remote[s][g].gen = 0 OBVIOUS
    <3>1. ~(remote[s][g].gen > 0)
      <4>1. (remote[s][g].gen > 0) = (g < f) BY <2>1
      <4>2. (g < f) = FALSE OBVIOUS
      <4> QED BY <4>1, <4>2
    <3>2. remote[s][g].gen \in Nat BY <1>0
    <3> QED BY <3>1, <3>2
  <2>4. \A g \in Files : g < f => remote[s][g].gen > 0 /\ remote[s][g].mtime <= clock[s] BY <2>1 DEF Disk, DiskSound
  <2>5. \A g \in Files : g < f => remote[s][g].mtime < file.since BY <1>0, <2>2, <2>4
  <2>6. remote[s][f].gen = 0 /\ \A g \in Files : f < g => remote[s][g].gen = 0
    <3>1. ~(f < f) /\ \A g \in Files : f < g => ~(g < f) BY DEF AdmAssumption
    <3> QED BY <2>3, <3>1
  <2>7. Disk' BY <1>0, <2>1, <2>2, <2>4, <2>5, <2>6, WriteDisk
  <2>8. Growth BY <2>1, <2>2, <2>6, WriteGrows
  <2> QED BY <2>7, <2>8
<1> QED BY <1>1, <1>2

-----------------------------------------------------------------------------
(* A new session in the old file, and another service                      *)

\* A poll at rest, or for an older binding, says nothing.
LEMMA NoPoll == ASSUME ~Working PROVE PollSound
BY DEF PollSound, ListSound, TailSound, TodoSound, RangeSound

\* The cursor that is there follows the session that is over.
LEMMA ReplaceStep ==
    ASSUME AdmAssumption, Types, Types', Disk, CursorsSound, LinesSound, InOrder, NEW s \in Services, Replace(s)
    PROVE  Disk' /\ CursorsSound' /\ LinesSound' /\ PollSound' /\ InOrder'
<1> DEFINE f == Newest(remote[s])
<1>1. f \in Files /\ remote[s][f].gen > 0 /\ \A g \in Files : f < g => remote[s][g].gen = 0
  BY NewestIsLast DEF Replace, Disk
<1>2. PICK n \in {remote[s][f].size, remote[s][f].size + 2} :
         WriteFile(s, f, [gen |-> remote[s][f].gen + 1, size |-> n, mtime |-> clock[s] + 1, since |-> clock[s] + 1])
  BY DEF Replace
<1> DEFINE file == [gen |-> remote[s][f].gen + 1, size |-> n, mtime |-> clock[s] + 1, since |-> clock[s] + 1]
<1> HIDE DEF f
<1>3. remote[s][f].gen \in Nat /\ remote[s][f].size \in Nat /\ clock[s] \in Nat /\ Files \subseteq Nat
      /\ \A g \in Files : remote[s][g].mtime \in Nat
  <2>1. \A g \in Files : remote[s][g] \in Nums BY Rows
  <2>2. \A g \in Files : remote[s][g].gen \in Nat /\ remote[s][g].size \in Nat /\ remote[s][g].mtime \in Nat
    BY <2>1 DEF Nums
  <2>3. clock[s] \in Nat /\ Files \subseteq Nat BY DEF Types, AdmAssumption
  <2> QED BY <1>1, <2>2, <2>3
<1>4. file \in Nums /\ file.gen = remote[s][f].gen + 1 /\ file.since = clock[s] + 1 /\ file.mtime = clock[s] + 1
      /\ file.size = n /\ n \in Nat /\ remote[s][f].size <= n
  BY <1>2, <1>3 DEF Nums
<1>5. WriteFile(s, f, file) BY <1>2
<1> HIDE DEF file
<1>6. \A g \in Files : (g < f => remote[s][g].gen > 0) /\ (remote[s][g].gen > 0 => remote[s][g].mtime <= clock[s])
  BY <1>1 DEF Disk, DiskSound
<1>7. Disk'
  <2>1. \A g \in Files : g < f => remote[s][g].gen > 0 /\ remote[s][g].mtime < file.since BY <1>3, <1>4, <1>6
  <2> QED BY <1>1, <1>3, <1>4, <1>5, <2>1, WriteDisk
<1>8. s = binding.service /\ poll.at = "idle" /\ UNCHANGED <<binding, cursor, stored, skipped, poll>>
  BY <1>5 DEF Replace, WriteFile, store
<1>9. Now' = Now /\ Followed' = Followed /\ Known' = Known /\ \A g \in Files : Cur(g)' = Cur(g)
  BY <1>8 DEF Now, Followed, Known, Cur
<1>10. File(f) = remote[s][f] /\ \A g \in Files : File(g)' = IF g = f THEN file ELSE File(g)
  <2>1. remote' = [remote EXCEPT ![s][f] = file] BY <1>5 DEF WriteFile
  <2>2. remote \in [Services -> [Files -> Nums]] BY DEF Types
  <2>3. \A g \in Files : remote'[s][g] = IF g = f THEN file ELSE remote[s][g] BY <1>1, <2>1, <2>2
  <2> QED BY <1>1, <1>8, <2>3 DEF File
<1>11. File(f).mtime < file.since /\ File(f).size <= file.size /\ File(f).gen < file.gen
  BY <1>1, <1>3, <1>4, <1>6, <1>10
<1>12. \A g \in Followed : g \in Files /\ ~(f < g)
  <2> SUFFICES ASSUME NEW g \in Followed, f < g PROVE FALSE BY DEF Followed
  <2>1. g \in Files /\ File(g).gen > 0 BY DEF Followed, CursorsSound
  <2> QED BY <1>1, <1>8, <2>1 DEF File
<1>13. CursorsSound'
  <2>1. \A v \in Versions, g \in Files : v > Now' \/ cursor'[<<v, g>>].mtime = 0 => cursor'[<<v, g>>] = NoCursor
    BY <1>8, <1>9 DEF CursorsSound
  <2>2. ASSUME NEW g \in Followed
        PROVE  File(g)'.gen > 0 /\ Seenly(Cur(g), File(g)') /\ Cur(g).offset <= Cur(g).size
    <3>1. g \in Files /\ File(g).gen > 0 /\ Seenly(Cur(g), File(g)) /\ Cur(g).offset <= Cur(g).size
      BY DEF CursorsSound, Followed
    <3>2. CASE g # f BY <1>10, <3>1, <3>2
    <3>3. CASE g = f
      <4>1. Cur(f).mtime \in Nat /\ Cur(f).size \in Nat /\ File(f).mtime \in Nat /\ File(f).size \in Nat
        BY <1>1, Numbers
      <4>2. file.since \in Nat /\ file.mtime = file.since BY <1>3, <1>4
      <4>3. Cur(f).mtime < file.since /\ Cur(f).size <= file.size BY <1>4, <1>11, <3>1, <3>3, <4>1, <4>2 DEF Seenly
      <4>4. Seenly(Cur(f), file) BY <4>1, <4>2, <4>3 DEF Seenly
      <4>5. file.gen > 0 BY <1>3, <1>4
      <4> QED BY <1>10, <3>1, <3>3, <4>4, <4>5
    <3> QED BY <3>2, <3>3
  <2>3. ASSUME NEW e \in Files, NEW g \in Followed, e < g
        PROVE  File(e)'.mtime < Cur(g).mtime /\ (e \in Followed => Done(e)')
    <3>1. e # f BY <1>12, <2>3
    <3> QED BY <1>9, <1>10, <2>3, <3>1 DEF CursorsSound, Done
  <2> QED BY <1>9, <2>1, <2>2, <2>3 DEF CursorsSound, Followed
<1>14. LinesSound'
  <2>1. ASSUME NEW l \in Known
        PROVE  /\ l[1] <= Now
               /\ l[1] = Now => /\ 0 < l[3] /\ l[3] <= File(l[2])'.gen
                                /\ l[3] = File(l[2])'.gen => 2 * l[4] <= File(l[2])'.size
                                /\ Followed # {} => Passed(l)'
    <3>1. l[2] \in Files /\ l[3] \in Nat BY Numbers
    <3>2. CASE l[1] # Now \/ l[2] # f
      <4>1. l[2] # f => File(l[2])' = File(l[2]) /\ Cur(l[2])' = Cur(l[2]) BY <1>9, <1>10, <3>1
      <4>2. l[2] # f => Passed(l)' = Passed(l) BY <1>9, <4>1 DEF Passed
      <4> QED BY <3>2, <4>1, <4>2 DEF LinesSound
    <3>3. CASE l[1] = Now /\ l[2] = f
      <4>1. 0 < l[3] /\ l[3] <= File(f).gen /\ (Followed # {} => Passed(l)) BY <3>3 DEF LinesSound
      <4>2. l[3] # file.gen /\ l[3] <= file.gen BY <1>3, <1>4, <1>10, <3>1, <4>1
      <4>3. File(l[2])' = file BY <1>10, <3>1, <3>3
      <4>4. Passed(l) => Passed(l)' BY <1>9, <4>2, <4>3 DEF Passed
      <4> QED BY <1>9, <3>3, <4>1, <4>2, <4>3, <4>4 DEF LinesSound
    <3> QED BY <3>2, <3>3
  <2>2. Followed = {} => \A l \in ToSet(stored)' : l[1] # Now BY <1>8 DEF LinesSound
  <2> QED BY <1>9, <2>1, <2>2 DEF LinesSound
<1>15. InOrder' BY <1>8 DEF InOrder
<1>16. PollSound'
  <2>1. ~Working' BY <1>8 DEF Working
  <2> QED BY <2>1 DEF PollSound, ListSound, TailSound, TodoSound, RangeSound
<1> QED BY <1>7, <1>13, <1>14, <1>15, <1>16

\* Cursors, lines and polls are of the binding before.
LEMMA RebindStep ==
    ASSUME AdmAssumption, Types, Types', Disk, CursorsSound, LinesSound, InOrder, NEW s \in Services, Rebind(s)
    PROVE  Disk' /\ CursorsSound' /\ LinesSound' /\ PollSound' /\ InOrder'
<1>1. /\ binding' = [service |-> s, version |-> binding.version + 1] /\ rebinds < MaxRebinds
         /\ rebinds' = rebinds + 1
      /\ skipped' = skipped \union Lines(binding.version + 1, remote[s])
      /\ UNCHANGED <<remote, clock, cursor, stored, poll>>
  BY DEF Rebind, source
<1>2. Now' = Now + 1 /\ Now \in Nat /\ Now' \in Versions BY <1>1, Rows DEF Now, Types
<1>3. Disk' BY <1>1 DEF Disk, DiskSound
<1>4. \A f \in Files : Cur(f)' = NoCursor
  <2>1. \A v \in Versions, f \in Files : v > Now => cursor[<<v, f>>] = NoCursor BY DEF CursorsSound
  <2> QED BY <1>1, <1>2, <2>1 DEF Cur
<1>5. Followed' = {} BY <1>4 DEF Followed, NoCursor
<1>6. CursorsSound'
  <2>1. \A v \in Versions, f \in Files : v > Now' => v > Now BY <1>2 DEF Versions
  <2>2. \A v \in Versions, f \in Files : v > Now' \/ cursor'[<<v, f>>].mtime = 0 => cursor'[<<v, f>>] = NoCursor
    BY <1>1, <2>1 DEF CursorsSound
  <2> QED BY <1>5, <2>2 DEF CursorsSound
<1>7. \A l \in Known : l[1] <= Now /\ l[1] \in Nat BY Numbers DEF LinesSound
<1>8. \A l \in Known : l[1] < Now' BY <1>2, <1>7
<1>9. ASSUME NEW l \in Lines(Now', remote[s])
      PROVE  l[1] = Now' /\ l[2] \in Files /\ 0 < l[3] /\ l[3] = File(l[2])'.gen /\ 2 * l[4] <= File(l[2])'.size
  <2>0. PICK f \in Files : l \in LinesOf(Now', f, remote[s][f]) BY <1>9 DEF Lines
  <2>1. PICK k \in 1..(remote[s][f].size \div 2) : l = <<Now', f, remote[s][f].gen, k>> BY <2>0 DEF LinesOf
  <2>2. File(f)' = remote[s][f] BY <1>1 DEF File
  <2>3. remote[s][f].size \in Nat /\ remote[s][f].gen \in Nat
    <3>1. remote[s][f] \in Nums BY Rows
    <3> QED BY <3>1 DEF Nums
  <2>4. 2 * k <= remote[s][f].size /\ 0 < remote[s][f].size BY <2>1, <2>3
  <2>5. 0 < remote[s][f].gen
    <3>1. remote[s][f].gen = 0 => remote[s][f].size = 0 BY DEF Disk, DiskSound, NoFile
    <3> QED BY <2>3, <2>4, <3>1
  <2> QED BY <2>1, <2>2, <2>3, <2>4, <2>5
<1>10. LinesSound'
  <2>1. ASSUME NEW l \in Known'
        PROVE  l[1] <= Now' /\ (l[1] = Now' => 0 < l[3] /\ l[3] <= File(l[2])'.gen
                                               /\ (l[3] = File(l[2])'.gen => 2 * l[4] <= File(l[2])'.size))
    <3>1. l \in Known \/ l \in Lines(Now', remote[s]) BY <1>1, <1>2 DEF Known, Now
    <3>2. CASE l \in Known BY <1>2, <1>7, <1>8, <3>2
    <3>3. CASE l \in Lines(Now', remote[s])
      <4>1. File(l[2])'.gen \in Nat BY <1>9, <3>3, FutureNumbers
      <4> QED BY <1>2, <1>9, <3>3, <4>1
    <3> QED BY <3>1, <3>2, <3>3
  <2>2. \A l \in ToSet(stored)' : l[1] # Now' BY <1>1, <1>2, <1>7, <1>8 DEF Known
  <2> QED BY <1>5, <2>1, <2>2 DEF LinesSound
<1>11. InOrder'
  <2>1. ASSUME NEW i \in DOMAIN stored PROVE stored[i] \notin skipped'
    <3>1. stored[i] \in Known BY DEF Known, ToSet
    <3>2. stored[i][1] # Now' BY <1>2, <1>7, <1>8, <3>1
    <3>3. stored[i] \notin Lines(Now', remote[s]) BY <1>9, <3>2
    <3> QED BY <1>1, <1>2, <3>3 DEF InOrder, Now
  <2> QED BY <1>1, <2>1 DEF InOrder
<1>12. PollSound'
  <2>1. poll'.of.version # binding'.version
    <3>1. poll.of.version \in Nat /\ poll.of.version <= Now BY DEF Types, PollFits, Polls, Now
    <3> QED BY <1>1, <1>2, <3>1 DEF Now
  <2>2. ~Working' BY <2>1 DEF Working, Fresh
  <2> QED BY <2>2 DEF PollSound, ListSound, TailSound, TodoSound, RangeSound
<1> QED BY <1>3, <1>6, <1>10, <1>11, <1>12

-----------------------------------------------------------------------------
(* The poll lists, opens and reads                                         *)

\* A step that stores nothing leaves what cursors and lines say.
LEMMA PollFrame ==
    ASSUME NEW p, Goto(p), UNCHANGED store
    PROVE  /\ poll' = p /\ UNCHANGED <<remote, clock, binding, cursor, stored, skipped>>
           /\ Now' = Now /\ Followed' = Followed /\ Known' = Known
           /\ \A f \in Files : Cur(f)' = Cur(f) /\ File(f)' = File(f) /\ Done(f)' = Done(f)
<1>1. poll' = p /\ UNCHANGED <<remote, clock, binding, cursor, stored, skipped>> BY DEF Goto, source, store
<1> QED BY <1>1 DEF Now, Followed, Known, Cur, File, Done

\* Nor does it touch the files or what is stored.
LEMMA PollKeeps ==
    ASSUME NEW p, Goto(p), UNCHANGED store, Disk, CursorsSound, LinesSound, InOrder
    PROVE  Disk' /\ CursorsSound' /\ LinesSound' /\ InOrder'
<1>1. UNCHANGED <<remote, clock, binding, cursor, stored, skipped>> BY PollFrame
<1>2. Disk' BY <1>1 DEF Disk, DiskSound
<1>3. CursorsSound' BY <1>1 DEF CursorsSound, Now, Cur, File, Followed, Done
<1>4. LinesSound' BY <1>1 DEF LinesSound, Now, Cur, File, Followed, Known, Passed
<1>5. InOrder' BY <1>1 DEF InOrder
<1> QED BY <1>2, <1>3, <1>4, <1>5

\* A poll that rests, or is of another binding, says nothing.
LEMMA RestSound ==
    ASSUME NEW p, Goto(p), UNCHANGED store, p.at = "idle" \/ p.of # binding
    PROVE  PollSound'
<1>1. poll' = p /\ binding' = binding BY PollFrame
<1>2. ~Working' BY <1>1 DEF Working, Fresh
<1> QED BY <1>2 DEF PollSound, ListSound, TailSound, TodoSound, RangeSound

\* A list is what the files are when it comes.
LEMMA Listed ==
    ASSUME Types, Disk, CursorsSound, NEW p, Goto(p), UNCHANGED store, p.list = remote[binding.service]
    PROVE  ListSound'
<1> SUFFICES ASSUME NEW f \in Files, File(f).gen > 0
             PROVE  /\ 0 < File(f).since /\ File(f).since <= File(f).mtime /\ Seenly(File(f), File(f))
                    /\ f \in Followed => Seenly(Cur(f), File(f))
  BY PollFrame DEF ListSound, File
<1>1. 0 < File(f).since /\ File(f).since <= File(f).mtime BY Rows DEF Disk, DiskSound, File
<1> QED BY <1>1, Numbers DEF Seenly, CursorsSound

\* A file the poll leaves out has been read.
LEMMA LeftOutIsDone ==
    ASSUME Types, Disk, CursorsSound, Fresh, NEW f \in Followed, ~Candidate(poll, remote[binding.service], f)
    PROVE  Done(f)
<1>1. f \in Files /\ File(f).gen > 0 /\ Seenly(Cur(f), File(f)) /\ Cur(f).offset <= Cur(f).size
  BY DEF CursorsSound, Followed
<1>2. ~Restarted(File(f), Cur(f)) /\ File(f).size = Cur(f).offset /\ ~(File(f).size < Cur(f).size)
  BY <1>1, FreshCursor DEF Candidate, File
<1>3. File(f).size = Cur(f).size BY <1>1, <1>2, Numbers
<1>4. File(f).since <= File(f).mtime BY <1>1, Rows DEF Disk, DiskSound, File
<1> QED BY <1>1, <1>2, <1>3, <1>4, Numbers DEF Restarted, Done

\* A file the poll takes up is not older than one that has been begun, unless it is empty.
LEMMA TakenIsLast ==
    ASSUME Types, Disk, CursorsSound, Fresh, NEW f \in Files, Candidate(poll, remote[binding.service], f),
           File(f).size > 0, NEW h \in Followed, Files \subseteq Nat
    PROVE  h <= f
<1> SUFFICES ASSUME f < h PROVE FALSE BY DEF Followed
<1>1. h \in Files /\ File(f).mtime < Cur(h).mtime /\ (f \in Followed => Done(f)) BY DEF CursorsSound, Followed
<1>2. CASE f \in Followed
  <2>1. Cur(f).offset = File(f).size /\ File(f).since <= Cur(f).mtime BY <1>1, <1>2 DEF Done
  <2>2. Seenly(Cur(f), File(f)) /\ Cur(f).offset <= Cur(f).size BY <1>2 DEF CursorsSound
  <2>3. Restarted(File(f), Cur(f)) \/ File(f).size # Cur(f).offset \/ File(f).size < Cur(f).size
    BY <1>2, FreshCursor DEF Candidate, File
  <2> QED BY <2>1, <2>2, <2>3, Numbers DEF Seenly, Restarted
<1>3. CASE f \notin Followed
  <2>1. PICK g \in Followed :
           /\ \A x \in Followed \ {g} : Newer([y \in Files |-> Cur(y)], g, x)
           /\ File(f).mtime > Cur(g).mtime \/ (File(f).mtime = Cur(g).mtime /\ f > g)
    <3>1. \A y \in Files : CursorOf(poll, y) = Cur(y) BY FreshCursor
    <3>2. [y \in Files |-> CursorOf(poll, y)] = [y \in Files |-> Cur(y)] BY <3>1
    <3>3. Seen(poll) = Followed /\ Followed \subseteq Files BY FreshCursor DEF Followed
    <3> QED BY <1>3, <3>1, <3>2, <3>3 DEF Candidate, File
  <2>2. g \in Files BY DEF Followed
  <2>3. Cur(h).mtime <= Cur(g).mtime
    <3>1. CASE h = g BY <1>1, <3>1, Numbers
    <3>2. CASE h # g
      <4>1. Newer([y \in Files |-> Cur(y)], g, h) BY <2>1, <3>2
      <4> QED BY <1>1, <2>2, <4>1, Numbers DEF Newer
    <3> QED BY <3>1, <3>2
  <2> QED BY <1>1, <2>1, <2>2, <2>3, Numbers
<1> QED BY <1>2, <1>3

\* Files that are one newer than the other in a list have that order.
LEMMA NewerIsAfter ==
    ASSUME AdmAssumption, Types, NEW s \in Services, DiskSound(s), NEW f \in Files, NEW g \in Files,
           remote[s][f].gen > 0, remote[s][g].gen > 0, Newer(remote[s], g, f)
    PROVE  f < g
<1>1. Files \subseteq Nat BY DEF AdmAssumption
<1>2. remote[s][f].mtime \in Nat /\ remote[s][g].mtime \in Nat /\ remote[s][f].since \in Nat BY Rows DEF Nums
<1>3. CASE g < f
  <2>1. remote[s][g].mtime < remote[s][f].since /\ remote[s][f].since <= remote[s][f].mtime BY <1>3 DEF DiskSound
  <2> QED BY <1>1, <1>2, <1>3, <2>1 DEF Newer
<1>4. CASE g = f BY <1>1, <1>2, <1>4 DEF Newer
<1> QED BY <1>1, <1>3, <1>4

\* The files to be read are in their order, and all others that have a cursor are done.
LEMMA TodoListed ==
    ASSUME AdmAssumption, Types, Disk, CursorsSound, Fresh, NEW q,
           q \in SetToSeqs({f \in Files : Candidate(poll, remote[binding.service], f)}),
           Oldest(remote[binding.service], q), NEW m \in Nat, m <= Len(q), NEW i \in 1..m
    PROVE  /\ q[i] \in Files /\ File(q[i]).gen > 0
           /\ \A j \in 1..m : i < j => q[i] < q[j]
           /\ File(q[i]).size > 0 => \A g \in Followed : g <= q[i]
           /\ \A g \in Followed : g < q[i] => Done(g) \/ \E j \in 1..m : q[j] = g
<1> DEFINE C == {f \in Files : Candidate(poll, remote[binding.service], f)}
<1>1. q \in Seq(Files) /\ (\A j \in 1..Len(q) : q[j] \in C) /\ \A f \in C : \E j \in 1..Len(q) : q[j] = f
  <2>1. C \in SUBSET Files OBVIOUS
  <2> HIDE DEF C
  <2> QED BY <2>1, SomeFiles DEF C
<1>2. Files \subseteq Nat /\ Len(q) \in Nat /\ DOMAIN q = 1..Len(q) BY <1>1, LenProperties DEF AdmAssumption
<1>3. \A j \in 1..Len(q) : q[j] \in Files /\ File(q[j]).gen > 0 /\ Candidate(poll, remote[binding.service], q[j])
  BY <1>1 DEF Candidate, File
<1>4. \A j \in 1..Len(q), k \in 1..Len(q) : j < k => q[j] < q[k]
  <2> SUFFICES ASSUME NEW j \in 1..Len(q), NEW k \in 1..Len(q), j < k PROVE q[j] < q[k] OBVIOUS
  <2>1. Newer(remote[binding.service], q[k], q[j]) BY <1>2 DEF Oldest
  <2>2. binding.service \in Services /\ DiskSound(binding.service) BY Rows DEF Disk
  <2> HIDE DEF C
  <2> QED BY <1>3, <2>1, <2>2, NewerIsAfter DEF File
<1>5. i \in 1..Len(q) BY <1>2
<1>6. ASSUME NEW g \in Followed, g < q[i], ~Done(g) PROVE \E j \in 1..m : q[j] = g
  <2>1. g \in C BY <1>6, LeftOutIsDone DEF Followed
  <2>2. PICK j \in 1..Len(q) : q[j] = g BY <1>1, <2>1
  <2>3. ~(i < j) /\ i # j
    <3>1. q[i] \in Nat /\ g \in Nat BY <1>2, <1>3, <1>5, <2>1
    <3>2. i < j => q[i] < g BY <1>4, <1>5, <2>2
    <3> QED BY <1>6, <2>2, <3>1, <3>2
  <2>4. j \in 1..m BY <1>2, <2>3
  <2> QED BY <2>2, <2>4
<1>7. File(q[i]).size > 0 => \A g \in Followed : g <= q[i] BY <1>2, <1>3, <1>5, TakenIsLast
<1>8. \A j \in 1..m : i < j => q[i] < q[j] BY <1>2, <1>4, <1>5
<1> HIDE DEF C
<1> QED BY <1>3, <1>5, <1>6, <1>7, <1>8

\* The list of a poll.
LEMMA ListStep ==
    ASSUME AdmAssumption, Types, Disk, CursorsSound, LinesSound, ListDir
    PROVE  PollSound'
<1> DEFINE list == remote[poll.of.service]
           p == [poll EXCEPT !.list = list]
           C == {f \in Files : Candidate(poll, list, f)}
<1>0. UNCHANGED store /\ poll \in Polls /\ poll.of.service \in Services BY DEF ListDir, Types, Polls
<1>1. list \in [Files -> Nums] /\ p \in Polls /\ p.of = poll.of /\ p.list = list BY <1>0 DEF Types, Polls
<1>2. CASE Existing(list) = {}
  <2>1. Goto(Idle) BY <1>2 DEF ListDir
  <2> QED BY <1>0, <2>1, RestSound DEF Idle
<1>3. CASE Existing(list) # {} /\ Seen(poll) = {}
  <2> DEFINE t == Newest(list)
             r == [p EXCEPT !.at = "tail", !.todo = <<t>>]
  <2>1. Goto(r) BY <1>3 DEF ListDir
  <2>2. r.of = poll.of /\ r.list = list /\ r.at = "tail" /\ r.todo = <<t>>
    <3> HIDE DEF p, list, t
    <3> QED BY <1>1 DEF Polls
  <2> HIDE DEF r
  <2>3. CASE ~Fresh BY <1>0, <2>1, <2>2, <2>3, RestSound DEF Fresh
  <2>4. CASE Fresh
    <3>1. list = remote[binding.service] /\ Seen(poll) = Followed BY <2>4, FreshCursor DEF Fresh
    <3>2. ListSound' BY <1>0, <2>1, <2>2, <3>1, Listed
    <3>3. t \in Files /\ list[t].gen > 0 /\ \A g \in Files : t < g => list[g].gen = 0
      BY <1>0, <1>3, NewestIsLast DEF Disk
    <3>4. poll' = r /\ Followed' = Followed /\ Known' = Known /\ Now' = Now BY <1>0, <2>1, PollFrame
    <3> HIDE DEF t
    <3>5. \A f \in Files : list[f].gen > 0 => f <= t
      <4>1. Files \subseteq Nat BY DEF AdmAssumption
      <4> QED BY <3>3, <4>1
    <3>6. ASSUME NEW l \in Known, l[1] = Now
          PROVE  l[2] <= t /\ (l[2] = t /\ l[3] = list[t].gen => 2 * l[4] <= list[t].size)
      <4>1. 0 < l[3] /\ l[3] <= File(l[2]).gen /\ (l[3] = File(l[2]).gen => 2 * l[4] <= File(l[2]).size)
        BY <3>6 DEF LinesSound
      <4>2. l[2] \in Files /\ l[3] \in Nat BY Numbers
      <4>3. File(l[2]).gen > 0 BY <4>1, <4>2, Numbers
      <4> QED BY <3>1, <3>5, <4>1, <4>2, <4>3 DEF File
    <3>7. \A f \in Files : list[f].gen > 0 \/ list[f].size = 0
      <4>1. \A f \in Files : list[f].gen = 0 => list[f].size = 0 BY <1>0 DEF Disk, DiskSound, NoFile
      <4>2. \A f \in Files : list[f].gen \in Nat BY <1>1 DEF Nums
      <4> QED BY <4>1, <4>2
    <3> HIDE DEF list
    <3>8. TailSound' BY <1>3, <2>2, <3>1, <3>3, <3>4, <3>5, <3>6, <3>7 DEF TailSound
    <3>9. TodoSound' /\ RangeSound' BY <2>2, <3>4 DEF TodoSound, RangeSound
    <3> QED BY <3>2, <3>8, <3>9 DEF PollSound
  <2> QED BY <2>3, <2>4
<1>4. CASE Existing(list) # {} /\ Seen(poll) # {}
  <2>1. PICK q \in SetToSeqs(C) :
           /\ Oldest(list, q)
           /\ Goto([p EXCEPT !.at = "open", !.todo = SubSeq(q, 1, Min({Len(q), MaxFiles}))])
    BY <1>4 DEF ListDir
  <2> DEFINE m == Min({Len(q), MaxFiles})
             r == [p EXCEPT !.at = "open", !.todo = SubSeq(q, 1, m)]
  <2>2. q \in Seq(Files) BY SomeFiles
  <2>3. m \in Nat /\ m <= Len(q) BY <2>2, MinOfTwo, LenProperties DEF AdmAssumption
  <2>4. Goto(r) BY <2>1
  <2> HIDE DEF m
  <2>5. SubSeq(q, 1, m) \in Seq(Files) /\ Len(SubSeq(q, 1, m)) = m /\ \A i \in 1..m : SubSeq(q, 1, m)[i] = q[i]
    <3>1. \A i \in 1..m : q[i] \in Files BY <2>2, <2>3, LenProperties, ElementOfSeq
    <3>2. /\ SubSeq(q, 1, m) \in Seq(Files) /\ Len(SubSeq(q, 1, m)) = IF 1 <= m THEN m - 1 + 1 ELSE 0
          /\ \A i \in 1..m - 1 + 1 : SubSeq(q, 1, m)[i] = q[1 + i - 1]
      BY <2>3, <3>1, SubSeqProperties
    <3> QED BY <2>3, <3>2
  <2>6. r.of = poll.of /\ r.list = list /\ r.at = "open" /\ r.todo = SubSeq(q, 1, m)
    <3> HIDE DEF p, list
    <3> QED BY <1>1 DEF Polls
  <2> HIDE DEF r
  <2>7. CASE ~Fresh BY <1>0, <2>4, <2>6, <2>7, RestSound DEF Fresh
  <2>8. CASE Fresh
    <3>1. list = remote[binding.service] /\ Seen(poll) = Followed BY <2>8, FreshCursor DEF Fresh
    <3>2. ListSound' BY <1>0, <2>4, <2>6, <3>1, Listed
    <3>3. poll' = r /\ Followed' = Followed /\ Now' = Now /\ \A g \in Followed : Done(g)' = Done(g)
      BY <1>0, <2>4, PollFrame DEF Followed
    <3>4. DOMAIN r.todo = 1..m /\ \A i \in 1..m : r.todo[i] = q[i] BY <2>5, <2>6, LenProperties
    <3>5. \A i \in 1..m : /\ q[i] \in Files /\ list[q[i]].gen > 0
                          /\ \A j \in 1..m : i < j => q[i] < q[j]
                          /\ list[q[i]].size > 0 => \A g \in Followed : g <= q[i]
                          /\ \A g \in Followed : g < q[i] => Done(g) \/ \E j \in 1..m : q[j] = g
      BY <2>1, <2>3, <2>8, <3>1, TodoListed DEF File
    <3> HIDE DEF list
    <3>6. TodoSound'
      <4> SUFFICES /\ Followed # {}
                   /\ \A i \in DOMAIN r.todo :
                        /\ r.list[r.todo[i]].gen > 0
                        /\ \A j \in DOMAIN r.todo : i < j => r.todo[i] < r.todo[j]
                        /\ r.list[r.todo[i]].size > 0 => \A g \in Followed : g <= r.todo[i]
                        /\ \A g \in Followed : g < r.todo[i] => Done(g) \/ \E j \in DOMAIN r.todo : r.todo[j] = g
        BY <3>3 DEF TodoSound
      <4> QED BY <1>4, <2>6, <3>1, <3>4, <3>5
    <3>7. TailSound' /\ RangeSound' BY <2>6, <3>3 DEF TailSound, RangeSound
    <3> QED BY <3>2, <3>6, <3>7 DEF PollSound
  <2> QED BY <2>7, <2>8
<1> QED BY <1>2, <1>3, <1>4

\* A poll that goes on with its list, and with what is to be read.
LEMMA ListStays ==
    ASSUME ListSound, NEW p, Goto(p), UNCHANGED store, p.list = poll.list, p.of = poll.of, poll.at # "idle"
    PROVE  ListSound'
<1>1. poll' = p /\ binding' = binding BY PollFrame
<1>2. Working' => Working BY <1>1 DEF Working, Fresh
<1> QED BY <1>1, <1>2, PollFrame DEF ListSound

\* The same for what is to be read.
LEMMA TodoStays ==
    ASSUME TodoSound, NEW p, Goto(p), UNCHANGED store, p.list = poll.list, p.of = poll.of, p.todo = poll.todo,
           poll.at \in {"open", "read", "store"}
    PROVE  TodoSound'
<1>1. poll' = p /\ binding' = binding /\ Followed' = Followed BY PollFrame
<1>2. Working' => Working BY <1>1 DEF Working, Fresh
<1>3. \A g \in Followed : Done(g)' = Done(g) BY PollFrame DEF Followed
<1> QED BY <1>1, <1>2, <1>3 DEF TodoSound

\* A file is opened at its cursor, or, when its session is new, at the start.
LEMMA OpenStep == ASSUME AdmAssumption, Types, CursorsSound, PollSound, Open PROVE PollSound'
<1>1. CASE poll.todo = <<>>
  <2>1. Goto(Idle) /\ UNCHANGED store BY <1>1 DEF Open
  <2> QED BY <2>1, RestSound DEF Idle
<1>2. CASE poll.todo # <<>>
  <2>0. PICK f \in Files : f = Head(poll.todo) /\ f = poll.todo[1] /\ 1 \in DOMAIN poll.todo
    <3>1. poll.todo \in Seq(Files) BY DEF Types, Polls
    <3> QED BY <1>2, <3>1, HeadTailProperties, LenProperties
  <2> DEFINE reset == f \in Seen(poll) /\ (Restarted(poll.list[f], CursorOf(poll, f))
                         \/ CursorOf(poll, f).offset > poll.list[f].size
                            \/ poll.list[f].size < CursorOf(poll, f).size)
             offset == IF reset THEN 0 ELSE CursorOf(poll, f).offset
             p == [poll EXCEPT !.at = "read", !.offset = offset, !.reset = reset, !.reads = 0]
  <2>1. Goto(p) /\ UNCHANGED store BY <1>2, <2>0 DEF Open
  <2>2. /\ p.of = poll.of /\ p.list = poll.list /\ p.todo = poll.todo /\ p.at = "read"
        /\ p.offset = offset /\ p.reset = reset /\ p.reads = 0
    <3> HIDE DEF reset, offset
    <3> QED BY DEF Types, Polls
  <2> HIDE DEF p
  <2>3. CASE ~Fresh BY <2>1, <2>2, <2>3, RestSound DEF Fresh
  <2>4. CASE Fresh
    <3>1. Working BY <2>4 DEF Working, Open
    <3>2. f \in Files /\ f = poll.todo[1] /\ 1 \in DOMAIN poll.todo BY <2>0
    <3>3. Seen(poll) = Followed /\ CursorOf(poll, f) = Cur(f) BY <2>4, <3>2, FreshCursor
    <3>4. poll.list[f].gen > 0 BY <3>1, <3>2 DEF PollSound, TodoSound, Open
    <3>5. f \in Followed => Seenly(Cur(f), poll.list[f]) /\ Cur(f).offset <= Cur(f).size
      BY <3>1, <3>2, <3>4 DEF PollSound, ListSound, CursorsSound
    <3>6. poll.list[f].since <= poll.list[f].mtime BY <3>1, <3>2, <3>4 DEF PollSound, ListSound
    <3> DEFINE Place == \/ /\ offset = Cur(f).offset
                           /\ f \in Followed /\ offset >= poll.list[f].size => poll.list[f].since <= Cur(f).mtime
                        \/ offset = 0 /\ f \in Followed /\ Cur(f).mtime < poll.list[f].since /\ reset
    <3>7. ASSUME reset PROVE Place
      <4>1. f \in Followed /\ offset = 0 BY <3>3, <3>7
      <4>2. Cur(f).mtime < poll.list[f].since
        BY <3>2, <3>3, <3>5, <3>7, <4>1, Numbers DEF Restarted, Seenly
      <4> QED BY <3>7, <4>1, <4>2
    <3>8. ASSUME ~reset PROVE Place
      <4>1. offset = Cur(f).offset BY <3>3, <3>8
      <4>2. ASSUME f \in Followed, offset >= poll.list[f].size PROVE poll.list[f].since <= Cur(f).mtime
        <5>1. ~Restarted(poll.list[f], Cur(f)) /\ ~(poll.list[f].size < Cur(f).size) BY <3>3, <3>8, <4>2
        <5> QED BY <3>2, <3>5, <3>6, <4>1, <4>2, <5>1, Numbers DEF Restarted
      <4> QED BY <4>1, <4>2
    <3> HIDE DEF reset, offset
    <3>9. RangeSound'
      <4>1. poll' = p /\ Followed' = Followed /\ Now' = Now /\ cursor' = cursor BY <2>1, PollFrame
      <4>2. p.todo[1] = f BY <2>2, <3>2
      <4> QED BY <2>2, <3>7, <3>8, <4>1, <4>2 DEF RangeSound, Cur
    <3>10. ListSound' BY <2>1, <2>2, ListStays DEF PollSound, Open
    <3>11. TodoSound' BY <2>1, <2>2, TodoStays DEF PollSound, Open
    <3>12. TailSound' BY <2>1, <2>2, PollFrame DEF TailSound
    <3> QED BY <3>9, <3>10, <3>11, <3>12 DEF PollSound
  <2> QED BY <2>3, <2>4
<1> QED BY <1>1, <1>2

\* A file that the poll is at the end of is done; the next one is only opened then.
LEMMA EndIsDone ==
    ASSUME Types, CursorsSound, ListSound, RangeSound, Working, poll.at = "read",
           NEW f \in Followed, f = poll.todo[1],
           poll.offset >= poll.list[f].size, poll.list[f] = File(f)
    PROVE  Done(f)
<1>1. f \in Files /\ Seenly(Cur(f), File(f)) /\ Cur(f).offset <= Cur(f).size BY DEF Followed, CursorsSound
<1>2. poll.offset \in Nat BY AtFile
<1>3. CASE poll.offset = Cur(f).offset /\ (poll.list[f].since <= Cur(f).mtime \/ poll.list[f].size = 0)
  BY <1>1, <1>2, <1>3, Numbers DEF Seenly, Done
<1>4. CASE poll.offset = 0 BY <1>1, <1>2, <1>4, Numbers DEF Seenly, Done
<1> QED BY <1>3, <1>4 DEF RangeSound

\* The file is closed.
LEMMA CloseStep ==
    ASSUME AdmAssumption, Types, CursorsSound, PollSound, poll.at = "read", Goto(Close(poll)), UNCHANGED store
    PROVE  PollSound'
<1>0. PICK f \in Files : f = Head(poll.todo) /\ f = poll.todo[1]
  BY AtFile
<1>1. CASE poll.offset < poll.list[f].size
  <2>1. poll.offset \in Nat /\ poll.list[f].size \in Nat BY AtFile, Numbers
  <2>2. Close(poll) = Idle BY <1>0, <1>1, <2>1 DEF Close
  <2> QED BY <2>2, RestSound DEF Idle
<1>2. CASE ~(poll.offset < poll.list[f].size)
  <2> DEFINE p == [poll EXCEPT !.at = "open", !.todo = Tail(@)]
  <2>1. poll.offset >= poll.list[f].size
    <3>1. poll.offset \in Nat /\ poll.list[f].size \in Nat BY AtFile, Numbers
    <3> QED BY <1>2, <3>1
  <2>2. Goto(p) BY <1>0, <2>1 DEF Close
  <2>3. p.of = poll.of /\ p.list = poll.list /\ p.at = "open" /\ p.todo = Tail(poll.todo) BY DEF Types, Polls
  <2> HIDE DEF p
  <2>4. CASE ~Fresh BY <2>2, <2>3, <2>4, RestSound DEF Fresh
  <2>5. CASE Fresh
    <3>1. Working BY <2>5 DEF Working
    <3>2. ListSound' BY <2>2, <2>3, ListStays DEF PollSound
    <3>3. poll.todo \in Seq(Files) /\ poll.todo # <<>> BY DEF Types, Polls, PollFits
    <3>4. Tail(poll.todo) \in Seq(Files) /\ DOMAIN poll.todo = 1..Len(poll.todo) /\ Len(poll.todo) \in Nat
          /\ DOMAIN Tail(poll.todo) = 1..(Len(poll.todo) - 1)
          /\ \A i \in DOMAIN Tail(poll.todo) : Tail(poll.todo)[i] = poll.todo[i + 1] /\ i + 1 \in DOMAIN poll.todo
      BY <3>3, HeadTailProperties, LenProperties
    <3>5. TodoSound BY DEF PollSound
    <3>6. ASSUME NEW i \in DOMAIN Tail(poll.todo), NEW g \in Followed, g < Tail(poll.todo)[i]
          PROVE  Done(g) \/ \E j \in DOMAIN Tail(poll.todo) : Tail(poll.todo)[j] = g
      <4>1. i + 1 \in DOMAIN poll.todo /\ Tail(poll.todo)[i] = poll.todo[i + 1] BY <3>4
      <4>2. Done(g) \/ \E j \in DOMAIN poll.todo : poll.todo[j] = g BY <3>1, <3>5, <3>6, <4>1 DEF TodoSound
      <4>3. ASSUME NEW j \in DOMAIN poll.todo, poll.todo[j] = g, j # 1
            PROVE  \E k \in DOMAIN Tail(poll.todo) : Tail(poll.todo)[k] = g
        <5>1. j - 1 \in DOMAIN Tail(poll.todo) /\ (j - 1) + 1 = j BY <3>4, <4>3
        <5> QED BY <3>4, <4>3, <5>1
      <4>4. CASE g = f
        <5>1. poll.list[f].gen > 0 /\ poll.list[poll.todo[i + 1]].gen > 0 /\ f < poll.todo[i + 1]
              /\ poll.todo[i + 1] \in Files
          <6>1. 1 \in DOMAIN poll.todo /\ 1 < i + 1 BY <3>4
          <6> QED BY <1>0, <3>1, <3>5, <4>1, <6>1, TodoFiles DEF TodoSound
        <5>2. poll.list[f] = File(f) BY <3>1, <5>1 DEF PollSound, ListSound
        <5> QED BY <1>0, <2>1, <3>1, <4>4, <5>2, EndIsDone DEF PollSound
      <4> QED BY <1>0, <4>2, <4>3, <4>4
    <3>7. \A i \in DOMAIN p.todo :
                        /\ p.list[p.todo[i]].gen > 0
                        /\ \A j \in DOMAIN p.todo : i < j => p.todo[i] < p.todo[j]
                        /\ p.list[p.todo[i]].size > 0 => \A g \in Followed : g <= p.todo[i]
      <4> SUFFICES ASSUME NEW i \in DOMAIN Tail(poll.todo)
                   PROVE  /\ poll.list[Tail(poll.todo)[i]].gen > 0
                          /\ \A j \in DOMAIN Tail(poll.todo) : i < j => Tail(poll.todo)[i] < Tail(poll.todo)[j]
                          /\ poll.list[Tail(poll.todo)[i]].size > 0 => \A g \in Followed : g <= Tail(poll.todo)[i]
        BY <2>3
      <4>1. i + 1 \in DOMAIN poll.todo /\ Tail(poll.todo)[i] = poll.todo[i + 1] BY <3>4
      <4>2. ASSUME NEW j \in DOMAIN Tail(poll.todo), i < j PROVE Tail(poll.todo)[i] < Tail(poll.todo)[j]
        <5>1. j + 1 \in DOMAIN poll.todo /\ Tail(poll.todo)[j] = poll.todo[j + 1] /\ i + 1 < j + 1 BY <3>4, <4>2
        <5> QED BY <3>1, <3>5, <4>1, <5>1 DEF TodoSound
      <4> QED BY <3>1, <3>5, <4>1, <4>2 DEF TodoSound
    <3>8. TodoSound'
      <4>1. poll' = p /\ Followed' = Followed /\ \A g \in Followed : Done(g)' = Done(g) BY <2>2,
            PollFrame DEF Followed
      <4>2. Followed # {} BY <3>1, <3>5 DEF TodoSound
      <4>3. \A i \in DOMAIN p.todo : \A g \in Followed : g < p.todo[i] =>
               Done(g) \/ \E j \in DOMAIN p.todo : p.todo[j] = g
        BY <2>3, <3>6
      <4> SUFFICES /\ Followed # {}
                   /\ \A i \in DOMAIN p.todo :
                        /\ p.list[p.todo[i]].gen > 0
                        /\ \A j \in DOMAIN p.todo : i < j => p.todo[i] < p.todo[j]
                        /\ p.list[p.todo[i]].size > 0 => \A g \in Followed : g <= p.todo[i]
                        /\ \A g \in Followed : g < p.todo[i] => Done(g) \/ \E j \in DOMAIN p.todo : p.todo[j] = g
        BY <4>1 DEF TodoSound
      <4> QED BY <3>7, <4>2, <4>3
    <3>9. TailSound' /\ RangeSound' BY <2>2, <2>3, PollFrame DEF TailSound, RangeSound
    <3> QED BY <3>2, <3>8, <3>9 DEF PollSound
  <2> QED BY <2>4, <2>5
<1> QED BY <1>1, <1>2

\* A range comes.
LEMMA ReadStep == ASSUME AdmAssumption, Types, CursorsSound, PollSound, Read PROVE PollSound'
<1>1. CASE Goto(Close(poll)) BY <1>1, ReadGoes, CloseStep DEF Read
<1>2. ASSUME NEW got \in Nat \ {0}, NEW len \in Nat,
             poll.offset + got <= poll.list[Head(poll.todo)].size, poll.offset < poll.list[Head(poll.todo)].size,
             Goto([poll EXCEPT !.at = "store", !.reads = @ + 1,
                               !.chunk = <<remote[poll.of.service][Head(poll.todo)].gen, got, len>>])
      PROVE  PollSound'
  <2>0. PICK f \in Files : f = Head(poll.todo) /\ f = poll.todo[1] BY AtFile DEF Read
  <2> DEFINE c == <<remote[poll.of.service][f].gen, got, len>>
             p == [poll EXCEPT !.at = "store", !.reads = @ + 1, !.chunk = c]
  <2>1. Goto(p) /\ UNCHANGED store BY <1>2, <2>0, ReadGoes
  <2> HIDE DEF c
  <2>2. p.of = poll.of /\ p.list = poll.list /\ p.at = "store" /\ p.todo = poll.todo /\ p.chunk = c
        /\ p.offset = poll.offset /\ p.reset = poll.reset /\ p.reads = poll.reads + 1
    BY DEF Types, Polls
  <2> HIDE DEF p
  <2>3. CASE ~Fresh BY <2>1, <2>2, <2>3, RestSound DEF Fresh
  <2>4. CASE Fresh
    <3>1. Working /\ poll.at = "read" BY <2>4 DEF Working, Read
    <3>2. ListSound' BY <2>1, <2>2, <3>1, ListStays DEF PollSound
    <3>3. TodoSound' BY <2>1, <2>2, <3>1, TodoStays DEF PollSound
    <3>4. poll.list[f].gen > 0
      <4>1. 1 \in DOMAIN poll.todo
        <5>1. poll.todo \in Seq(Files) /\ poll.todo # <<>> BY <3>1 DEF Types, Polls, PollFits
        <5> QED BY <5>1, LenProperties
      <4> QED BY <2>0, <3>1, <4>1 DEF PollSound, TodoSound
    <3>5. c[1] = poll.list[f].gen /\ c[2] = got
      <4>1. remote[poll.of.service][f] = File(f) BY <2>4 DEF File, Fresh
      <4> QED BY <3>1, <3>4, <4>1 DEF c, PollSound, ListSound
    <3>6. \/ poll.offset = Cur(f).offset
          \/ poll.offset = 0 /\ f \in Followed /\ Cur(f).mtime < poll.list[f].since /\ poll.reset /\ poll.reads = 0
      BY <2>0, <3>1 DEF PollSound, RangeSound
    <3>7. poll.offset + got <= poll.list[f].size /\ 0 < got BY <1>2, <2>0
    <3>8. RangeSound'
      <4>1. poll' = p /\ Followed' = Followed /\ Now' = Now /\ cursor' = cursor BY <2>1, PollFrame
      <4>2. p.todo[1] = f /\ (poll.reads = 0 => p.reads = 1) BY <2>0, <2>2
      <4> QED BY <2>2, <3>5, <3>6, <3>7, <4>1, <4>2 DEF RangeSound, Cur
    <3>9. TailSound' BY <2>1, <2>2, PollFrame DEF TailSound
    <3> QED BY <3>2, <3>3, <3>8, <3>9 DEF PollSound
  <2> QED BY <2>3, <2>4
<1> QED BY <1>1, <1>2, ReadGoes

\* A poll begins without a list.
LEMMA BeginStep == ASSUME AdmAssumption, Types, Begin PROVE PollSound'
<1> DEFINE p == [Idle EXCEPT !.at = "list", !.of = binding]
<1>1. Goto(p) /\ UNCHANGED store BY DEF Begin
<1>2. p.at = "list" /\ p.list = [f \in Files |-> NoFile] BY DEF Idle
<1> HIDE DEF p
<1>3. poll' = p BY <1>1, PollFrame
<1>4. \A f \in Files : p.list[f].gen = 0 BY <1>2 DEF NoFile
<1> QED BY <1>2, <1>3, <1>4 DEF PollSound, ListSound, TailSound, TodoSound, RangeSound

-----------------------------------------------------------------------------
(* The poll stores                                                         *)

\* A cursor moves on in the newest file that has been begun, to where the list lets it.
MovesTo(f, offset) ==
    /\ cursor' = [cursor EXCEPT ![<<Now, f>>] =
                                   [offset |-> offset, size |-> poll.list[f].size, mtime |-> poll.list[f].mtime]]
    /\ UNCHANGED <<remote, clock, binding>>

\* The cursors stay sound when one moves on.
LEMMA CursorMoves ==
    ASSUME AdmAssumption, Types, Disk, CursorsSound, ListSound, Working, NEW f \in Files, poll.list[f].gen > 0,
           NEW offset \in Nat, offset <= poll.list[f].size, MovesTo(f, offset),
           \A g \in Followed : g <= f /\ (g < f => Done(g))
    PROVE  /\ Now' = Now /\ Followed' = Followed \union {f} /\ Disk' /\ CursorsSound'
           /\ File(f).since <= Cur(f)'.mtime /\ Cur(f)'.offset = offset
           /\ Cur(f)'.mtime = poll.list[f].mtime /\ Cur(f)'.size = poll.list[f].size
           /\ \A g \in Files : File(g)' = File(g) /\ (g # f => Cur(g)' = Cur(g))
<1> DEFINE new == [offset |-> offset, size |-> poll.list[f].size, mtime |-> poll.list[f].mtime]
<1>1. new.offset = offset /\ new.size = poll.list[f].size /\ new.mtime = poll.list[f].mtime OBVIOUS
<1>2. cursor' = [cursor EXCEPT ![<<Now, f>>] = new] /\ UNCHANGED <<remote, clock, binding>> BY DEF MovesTo
<1> HIDE DEF new
<1>3. cursor \in [Versions \X Files -> Cursors] /\ Now \in Versions /\ <<Now, f>> \in Versions \X Files
  BY Rows DEF Types
<1>4. cursor'[<<Now, f>>] = new
      /\ \A v \in Versions, g \in Files : v # Now \/ g # f => cursor'[<<v, g>>] = cursor[<<v, g>>]
  BY <1>2, <1>3
<1>5. Now' = Now /\ Disk' /\ \A g \in Files : File(g)' = File(g) BY <1>2 DEF Now, Disk, DiskSound, File
<1>6. \A g \in Files : Cur(g)' = IF g = f THEN new ELSE Cur(g) BY <1>3, <1>4, <1>5 DEF Cur
<1>7. /\ poll.list[f].gen = File(f).gen /\ poll.list[f].since = File(f).since
      /\ 0 < poll.list[f].since /\ poll.list[f].since <= poll.list[f].mtime /\ Seenly(poll.list[f], File(f))
  BY DEF ListSound
<1>8. new.mtime > 0 /\ File(f).since <= new.mtime BY <1>1, <1>7, Numbers
<1>9. Followed' = Followed \union {f}
  <2>1. \A g \in Files : g \in Followed' <=> g = f \/ g \in Followed BY <1>6, <1>8 DEF Followed
  <2> QED BY <2>1 DEF Followed
<1>10. CursorsSound'
  <2>1. ASSUME NEW v \in Versions, NEW g \in Files, v > Now \/ cursor'[<<v, g>>].mtime = 0
        PROVE  cursor'[<<v, g>>] = NoCursor
    <3>1. CASE v # Now \/ g # f BY <1>4, <2>1, <3>1 DEF CursorsSound
    <3>2. CASE v = Now /\ g = f
      <4>1. ~(v > Now) /\ new.mtime # 0 BY <1>1, <1>8, <3>2, Rows, Numbers
      <4> QED BY <1>4, <2>1, <3>2, <4>1
    <3> QED BY <3>1, <3>2
  <2>2. ASSUME NEW g \in Followed'
        PROVE  File(g)'.gen > 0 /\ Seenly(Cur(g)', File(g)') /\ Cur(g)'.offset <= Cur(g)'.size
    <3>1. g \in Files /\ (g = f \/ g \in Followed) BY <1>9 DEF Followed
    <3>2. CASE g = f
      <4>1. File(f).gen > 0 BY <1>7
      <4>2. Seenly(new, File(f)) BY <1>1, <1>7 DEF Seenly
      <4>3. Cur(g)' = new /\ File(g)' = File(f) BY <1>5, <1>6, <3>1, <3>2
      <4> QED BY <1>1, <4>1, <4>2, <4>3
    <3>3. CASE g # f
      <4>1. Cur(g)' = Cur(g) /\ File(g)' = File(g) BY <1>5, <1>6, <3>1, <3>3
      <4> QED BY <3>1, <3>3, <4>1 DEF CursorsSound
    <3> QED BY <3>2, <3>3
  <2>3. ASSUME NEW e \in Files, NEW g \in Followed', e < g
        PROVE  File(e)'.mtime < Cur(g)'.mtime /\ (e \in Followed' => Done(e)')
    <3>0. g \in Files /\ e \in Nat /\ g \in Nat /\ f \in Nat BY <1>9 DEF Followed, AdmAssumption
    <3>1. e # f
      <4>1. g <= f BY <1>9, <3>0
      <4> QED BY <2>3, <3>0, <4>1
    <3>2. Cur(e)' = Cur(e) /\ File(e)' = File(e) BY <1>5, <1>6, <3>1
    <3>3. Done(e)' = Done(e) BY <3>2 DEF Done
    <3>4. e \in Followed' => e \in Followed BY <1>9, <3>1
    <3>5. CASE g = f
      <4>1. File(e).mtime < File(f).since BY <1>7, <2>3, <3>5, Rows DEF Disk, DiskSound, File
      <4>2. File(e).mtime < new.mtime BY <1>1, <1>7, <4>1, Numbers
      <4> QED BY <1>6, <2>3, <3>0, <3>2, <3>3, <3>4, <3>5, <4>2
    <3>6. CASE g # f
      <4>1. g \in Followed /\ Cur(g)' = Cur(g) BY <1>6, <1>9, <3>0, <3>6
      <4> QED BY <2>3, <3>2, <3>3, <3>4, <4>1 DEF CursorsSound
    <3> QED BY <3>5, <3>6
  <2> QED BY <1>5, <1>9, <2>1, <2>2, <2>3 DEF CursorsSound
<1>11. Cur(f)' = new BY <1>6
<1> QED BY <1>1, <1>5, <1>6, <1>8, <1>9, <1>10, <1>11

\* Then a line is passed that is of an older file or session, or within what has been read.
LEMMA LinesPassed ==
    ASSUME Types, NEW f \in Files, NEW offset \in Nat,
           Now' = Now, Followed' = Followed \union {f}, File(f).since <= Cur(f)'.mtime, Cur(f)'.offset = offset,
           \A g \in Files : File(g)' = File(g),
           \A l \in Known' : /\ l[2] \in Files /\ l[1] <= Now
                             /\ l[1] = Now => /\ 0 < l[3] /\ l[3] <= File(l[2]).gen
                                              /\ l[3] = File(l[2]).gen => 2 * l[4] <= File(l[2]).size
                                              /\ l[2] < f \/ (l[2] = f /\ (l[3] = File(f).gen
                                                 => 2 * l[4] <= offset))
    PROVE  LinesSound'
<1>1. ASSUME NEW l \in Known', l[1] = Now PROVE Passed(l)'
  <2>1. CASE l[2] < f BY <2>1 DEF Passed
  <2>2. CASE l[2] = f /\ (l[3] = File(f).gen => 2 * l[4] <= offset)
    <3>1. File(l[2])' = File(f) /\ Cur(l[2])' = Cur(f)' BY <2>2 DEF Cur
    <3> QED BY <2>2, <3>1 DEF Passed
  <2> QED BY <1>1, <2>1, <2>2
<1> QED BY <1>1 DEF LinesSound

\* The first poll for a binding: what is there counts as read.
LEMMA BaselineStep ==
    ASSUME AdmAssumption, Types, Disk, CursorsSound, LinesSound, PollSound, InOrder, Baseline
    PROVE  Disk' /\ CursorsSound' /\ LinesSound' /\ PollSound' /\ InOrder'
<1>0. PICK f \in Files : f = Head(poll.todo) /\ f = poll.todo[1] BY AtFile DEF Baseline
<1> DEFINE offset == Whole(poll.list[f].size)
<1>1. /\ Working /\ Fresh /\ poll.at = "tail" /\ WriteCursor(f, offset, FALSE) /\ Goto(Idle) /\ stored' = stored
      /\ skipped' = skipped \union Lines(Now, poll.list)
  BY <1>0 DEF Baseline, Working, Fresh, Now
<1>2. UNCHANGED <<remote, clock, binding>> /\ poll' = Idle BY <1>1 DEF Goto, source
<1>3. /\ Followed = {} /\ poll.list[f].gen > 0
      /\ \A g \in Files : IF poll.list[g].gen > 0 THEN g <= f ELSE poll.list[g].size = 0
      /\ \A l \in Known : l[1] = Now =>
            l[2] <= f /\ (l[2] = f /\ l[3] = poll.list[f].gen => 2 * l[4] <= poll.list[f].size)
  BY <1>0, <1>1 DEF PollSound, TailSound
<1>4. \A g \in Files : poll.list[g].gen > 0 =>
         poll.list[g].gen = File(g).gen /\ poll.list[g].size <= File(g).size
  BY <1>1 DEF PollSound, ListSound, Seenly
<1>5. offset \in Nat /\ offset % 2 = 0 /\ offset <= poll.list[f].size /\ poll.list[f].size < offset + 2
      /\ poll.list[f].size \in Nat
  BY Numbers, WholeIs
<1> HIDE DEF offset
<1>6. MovesTo(f, offset)
  <2>1. Cur(f).mtime = 0 BY <1>3, Numbers DEF Followed
  <2>2. poll.of.version = Now BY <1>1 DEF Fresh, Now
  <2> QED BY <1>1, <1>2, <2>1, <2>2 DEF MovesTo, WriteCursor, Written, Space, Cur
<1>7. /\ Now' = Now /\ Followed' = Followed \union {f} /\ Disk' /\ CursorsSound'
      /\ File(f).since <= Cur(f)'.mtime /\ Cur(f)'.offset = offset
      /\ \A g \in Files : File(g)' = File(g)
  <2>1. \A g \in Followed : g <= f /\ (g < f => Done(g)) BY <1>3
  <2>2. ListSound BY DEF PollSound
  <2> QED BY <1>1, <1>3, <1>5, <1>6, <2>1, <2>2, CursorMoves
<1>8. Known' = Known \union Lines(Now, poll.list) BY <1>1 DEF Known
<1>9. ASSUME NEW l \in Lines(Now, poll.list)
      PROVE  /\ l[1] = Now /\ l[2] \in Files /\ 0 < l[3] /\ l[3] = File(l[2]).gen /\ 2 * l[4] <= File(l[2]).size
             /\ l[2] <= f /\ (l[2] = f => 2 * l[4] <= offset)
  <2>0. PICK g \in Files : l \in LinesOf(Now, g, poll.list[g]) BY DEF Lines
  <2>1. PICK k \in 1..(poll.list[g].size \div 2) : l = <<Now, g, poll.list[g].gen, k>> BY <2>0 DEF LinesOf
  <2>2. poll.list[g].size \in Nat /\ poll.list[g].gen \in Nat /\ File(g).size \in Nat BY Numbers
  <2>3. 2 * k <= poll.list[g].size /\ 0 < poll.list[g].size BY <2>1, <2>2
  <2>4. poll.list[g].gen > 0 /\ g <= f BY <1>3, <2>3
  <2>5. 2 * k <= File(g).size BY <1>4, <2>2, <2>3, <2>4
  <2>6. g = f => 2 * k <= offset BY <1>5, <2>3
  <2> QED BY <1>4, <2>1, <2>4, <2>5, <2>6
<1>10. LinesSound'
  <2>1. ASSUME NEW l \in Known'
        PROVE  /\ l[2] \in Files /\ l[1] <= Now
               /\ l[1] = Now => /\ 0 < l[3] /\ l[3] <= File(l[2]).gen
                                /\ l[3] = File(l[2]).gen => 2 * l[4] <= File(l[2]).size
                                /\ l[2] < f \/ (l[2] = f /\ (l[3] = File(f).gen => 2 * l[4] <= offset))
    <3>0. \A g \in Files : g <= f => g < f \/ g = f BY DEF AdmAssumption
    <3>1. CASE l \in Known
      <4>1. l[2] \in Files /\ l[4] \in Nat BY <3>1, Numbers
      <4>2. l[1] = Now /\ l[2] = f /\ l[3] = File(f).gen => 2 * l[4] <= offset BY <1>3, <1>4, <1>5, <3>1, <4>1
      <4>3. l[1] <= Now /\ (l[1] = Now => /\ 0 < l[3] /\ l[3] <= File(l[2]).gen
                                         /\ (l[3] = File(l[2]).gen => 2 * l[4] <= File(l[2]).size))
        BY <3>1 DEF LinesSound
      <4>4. l[1] = Now => l[2] <= f BY <1>3, <3>1
      <4>5. l[2] <= f => l[2] < f \/ l[2] = f BY <3>0, <4>1
      <4> QED BY <4>1, <4>2, <4>3, <4>4, <4>5
    <3>2. CASE l \in Lines(Now, poll.list)
      <4>1. Now \in Nat /\ \A g \in Files : File(g).gen \in Nat BY Rows, Numbers
      <4>2. l[2] < f \/ l[2] = f BY <1>9, <3>0, <3>2
      <4>3. l[3] <= File(l[2]).gen /\ l[1] <= Now BY <1>9, <3>2, <4>1
      <4> QED BY <1>9, <3>2, <4>2, <4>3
    <3> QED BY <1>8, <3>1, <3>2
  <2> QED BY <1>5, <1>7, <2>1, LinesPassed
<1>11. InOrder'
  <2>1. ASSUME NEW i \in DOMAIN stored PROVE stored[i] \notin skipped'
    <3>1. stored[i][1] # Now BY <1>3 DEF LinesSound, ToSet
    <3> QED BY <1>1, <1>9, <3>1 DEF InOrder
  <2> QED BY <1>1, <2>1 DEF InOrder
<1>12. PollSound'
  <2>1. ~Working' BY <1>2 DEF Working, Idle
  <2> QED BY <2>1 DEF PollSound, ListSound, TailSound, TodoSound, RangeSound
<1> QED BY <1>7, <1>10, <1>11, <1>12

\* A range that comes in time is of the newest file that has been begun, and behind every line
\* known of it.
LEMMA RangeIsNext ==
    ASSUME AdmAssumption, Types, CursorsSound, LinesSound, PollSound, Working, poll.at = "store",
           NEW f \in Files, f = poll.todo[1]
    PROVE  /\ 1 \in DOMAIN poll.todo /\ poll.list[f].gen > 0 /\ poll.chunk[1] = File(f).gen
           /\ Whole(poll.offset + poll.chunk[2]) <= poll.list[f].size
           /\ \A g \in Followed : g <= f /\ (g < f => Done(g))
           /\ \A l \in Known : l[1] = Now => l[2] < f \/ (l[2] = f /\ (l[3] = File(f).gen
              => 2 * l[4] <= poll.offset))
<1>1. 1 \in DOMAIN poll.todo
  <2>1. poll.todo \in Seq(Files) /\ poll.todo # <<>> BY DEF Types, Polls, PollFits
  <2> QED BY <2>1, LenProperties
<1>2. TodoSound /\ RangeSound /\ ListSound BY DEF PollSound
<1>3. Followed # {} /\ poll.list[f].gen > 0 BY <1>1, <1>2 DEF TodoSound
<1>4. poll.chunk[1] = File(f).gen BY <1>2, <1>3 DEF RangeSound, ListSound
<1>5. poll.offset + poll.chunk[2] <= poll.list[f].size /\ 0 < poll.chunk[2] BY <1>2 DEF RangeSound
<1>6. Whole(poll.offset + poll.chunk[2]) <= poll.list[f].size /\ poll.list[f].size > 0
  BY <1>5, Upto, Numbers
<1>7. \A g \in Followed : g <= f BY <1>1, <1>2, <1>6 DEF TodoSound
<1>8. ASSUME NEW g \in Followed, g < f PROVE Done(g)
  <2>1. Done(g) \/ \E j \in DOMAIN poll.todo : poll.todo[j] = g BY <1>1, <1>2, <1>8 DEF TodoSound
  <2>2. ASSUME NEW j \in DOMAIN poll.todo, poll.todo[j] = g PROVE FALSE
    <3>1. f \in Nat /\ g \in Nat BY DEF Followed, AdmAssumption
    <3>2. j # 1 BY <1>8, <2>2, <3>1
    <3>3. 1 < j BY <3>2, TodoFiles
    <3>4. f < g BY <1>1, <1>2, <2>2, <3>3 DEF TodoSound
    <3> QED BY <1>8, <3>1, <3>4
  <2> QED BY <2>1, <2>2
<1>9. ASSUME NEW l \in Known, l[1] = Now
      PROVE  l[2] < f \/ (l[2] = f /\ (l[3] = File(f).gen => 2 * l[4] <= poll.offset))
  <2>0. l[2] \in Files /\ (\A g \in Files, h \in Files : g < h /\ h <= f => g < f) /\ (\A g \in Files : g <= f
        => g < f \/ g = f)
    BY <1>9, Numbers DEF AdmAssumption
  <2>1. Passed(l) BY <1>3, <1>9 DEF LinesSound
  <2>2. CASE \E g \in Followed : l[2] < g BY <1>7, <2>0, <2>2 DEF Followed
  <2>3. CASE l[2] \in Followed /\ (l[3] = File(l[2]).gen => File(l[2]).since <= Cur(l[2]).mtime
        /\ 2 * l[4] <= Cur(l[2]).offset)
    <3>1. l[2] < f \/ l[2] = f BY <1>7, <2>0, <2>3
    <3>2. ASSUME l[2] = f, l[3] = File(f).gen PROVE 2 * l[4] <= poll.offset
      <4>1. File(f).since <= Cur(f).mtime /\ 2 * l[4] <= Cur(f).offset BY <2>3, <3>2
      <4>2. poll.list[f].since = File(f).since BY <1>2, <1>3 DEF ListSound
      <4>3. ~(Cur(f).mtime < poll.list[f].since) BY <4>1, <4>2, Numbers
      <4>4. poll.offset = Cur(f).offset BY <1>2, <4>3 DEF RangeSound
      <4> QED BY <4>1, <4>4
    <3> QED BY <3>1, <3>2
  <2> QED BY <2>1, <2>2, <2>3 DEF Passed
<1> QED BY <1>1, <1>3, <1>4, <1>6, <1>7, <1>8, <1>9

\* So its lines are after all that is stored.
LEMMA OrderStays ==
    ASSUME Types, InOrder, NEW f \in Files, NEW offset \in Nat, NEW new \in Seq(AllLines),
           stored' = stored \o new, skipped' = skipped,
           \A i \in 1..Len(new) : /\ new[i] = <<Now, f, File(f).gen, new[i][4]>> /\ offset < 2 * new[i][4],
           \A i, j \in 1..Len(new) : i < j => new[i][4] < new[j][4],
           \A l \in Known : l[1] = Now => /\ l[3] <= File(f).gen \/ l[2] # f
                                          /\ l[2] < f \/ (l[2] = f /\ (l[3] = File(f).gen => 2 * l[4] <= offset)),
           AdmAssumption
    PROVE  InOrder'
<1>1. stored \in Seq(AllLines) /\ Len(stored) \in Nat /\ Len(new) \in Nat BY LenProperties DEF Types
<1>2. /\ DOMAIN stored' = 1..(Len(stored) + Len(new)) /\ DOMAIN stored = 1..Len(stored)
      /\ \A i \in 1..Len(stored) : stored'[i] = stored[i]
      /\ \A i \in 1..(Len(stored) + Len(new)) : ~(i <= Len(stored)) => stored'[i] = new[i - Len(stored)]
  BY <1>1, ConcatProperties, LenProperties
<1>3. \A i \in 1..Len(new) : new[i][1] = Now /\ new[i][2] = f /\ new[i][3] = File(f).gen /\ new[i][4] \in Nat
  <2>1. \A i \in 1..Len(new) : new[i] \in AllLines BY <1>1, ElementOfSeq
  <2> QED BY <2>1, Numbers
<1>4. \A i \in 1..Len(stored) : stored[i] \in Known BY <1>2 DEF Known, ToSet
<1>5. ASSUME NEW i \in DOMAIN stored', NEW j \in DOMAIN stored', i < j, stored'[i][1] = stored'[j][1]
      PROVE  Before(stored'[i], stored'[j])
  <2>1. CASE j <= Len(stored)
    <3>1. i \in DOMAIN stored /\ j \in DOMAIN stored BY <1>1, <1>2, <1>5, <2>1
    <3> QED BY <1>2, <1>5, <3>1 DEF InOrder
  <2>2. CASE i <= Len(stored) /\ ~(j <= Len(stored))
    <3>1. PICK k \in 1..Len(new) : stored'[j] = new[k] BY <1>1, <1>2, <2>2
    <3>2. i \in 1..Len(stored) /\ stored'[i] = stored[i] BY <1>1, <1>2, <2>2
    <3> DEFINE l == stored[i]
    <3>3. l \in Known /\ l[1] = Now BY <1>3, <1>4, <1>5, <3>1, <3>2
    <3>4. new[k][2] = f /\ new[k][3] = File(f).gen /\ offset < 2 * new[k][4] /\ new[k][4] \in Nat BY <1>3
    <3>5. File(f).gen \in Nat /\ l[3] \in Nat /\ l[4] \in Nat BY <3>3, Numbers
    <3> HIDE DEF l
    <3>6. CASE l[2] < f BY <3>1, <3>2, <3>4, <3>6 DEF Before, l
    <3>7. CASE l[2] = f /\ l[3] <= File(f).gen /\ (l[3] = File(f).gen => 2 * l[4] <= offset)
      <4>1. l[3] < File(f).gen \/ (l[3] = File(f).gen /\ l[4] < new[k][4]) BY <3>4, <3>5, <3>7
      <4>2. Before(l, new[k]) BY <3>4, <3>7, <4>1 DEF Before
      <4> QED BY <3>1, <3>2, <4>2 DEF l
    <3> QED BY <3>3, <3>6, <3>7
  <2>3. CASE ~(i <= Len(stored))
    <3>1. i - Len(stored) \in 1..Len(new) /\ j - Len(stored) \in 1..Len(new) /\ i - Len(stored) < j - Len(stored)
          /\ ~(j <= Len(stored))
      BY <1>1, <1>2, <1>5, <2>3
    <3>2. stored'[i] = new[i - Len(stored)] /\ stored'[j] = new[j - Len(stored)] BY <1>2, <2>3, <3>1
    <3> HIDE DEF Before
    <3>3. Before(new[i - Len(stored)], new[j - Len(stored)]) BY <1>3, <3>1 DEF Before
    <3> QED BY <3>2, <3>3
  <2> QED BY <2>1, <2>2, <2>3
<1>6. ASSUME NEW i \in DOMAIN stored' PROVE stored'[i] \notin skipped'
  <2>1. CASE i <= Len(stored) BY <1>1, <1>2, <2>1 DEF InOrder
  <2>2. CASE ~(i <= Len(stored))
    <3>1. PICK k \in 1..Len(new) : stored'[i] = new[k] BY <1>1, <1>2, <2>2
    <3>2. ASSUME new[k] \in skipped PROVE FALSE
      <4>1. new[k] \in Known BY <3>2 DEF Known
      <4>2. ~(f < f) BY DEF AdmAssumption
      <4>3. 2 * new[k][4] <= offset BY <1>3, <4>1, <4>2
      <4> QED BY <1>3, <4>3
    <3> QED BY <3>1, <3>2
  <2> QED BY <2>1, <2>2
<1> QED BY <1>5, <1>6 DEF InOrder

\* The range is stored, and the cursor moves past it.
LEMMA StoreStep ==
    ASSUME AdmAssumption, Types, Disk, CursorsSound, LinesSound, PollSound, InOrder, Store
    PROVE  Disk' /\ CursorsSound' /\ LinesSound' /\ PollSound' /\ InOrder'
<1>0. PICK f \in Files : f = Head(poll.todo) /\ f = poll.todo[1] BY AtFile DEF Store
<1> DEFINE upto == Whole(poll.offset + poll.chunk[2])
           gen == File(f).gen
           p == IF upto <= poll.offset THEN Idle ELSE [poll EXCEPT !.at = "read", !.offset = upto]
<1>1. Working /\ Fresh /\ poll.at = "store" /\ poll.of.version = Now BY DEF Store, Working, Fresh, Now
<1>2. /\ 1 \in DOMAIN poll.todo /\ poll.list[f].gen > 0 /\ poll.chunk[1] = gen /\ upto <= poll.list[f].size
      /\ \A g \in Followed : g <= f /\ (g < f => Done(g))
      /\ \A l \in Known : l[1] = Now => l[2] < f \/ (l[2] = f /\ (l[3] = gen => 2 * l[4] <= poll.offset))
  BY <1>0, <1>1, RangeIsNext
<1>3. upto \in Nat /\ poll.offset \in Nat /\ poll.offset <= upto BY <1>1, Upto
<1>4. PICK new \in Seq(AllLines) :
         /\ stored' = stored \o new
         /\ \A i \in 1..Len(new) : /\ new[i] = <<Now, f, gen, new[i][4]>>
                                   /\ poll.offset < 2 * new[i][4] /\ 2 * new[i][4] <= upto
         /\ \A i, j \in 1..Len(new) : i < j => new[i][4] < new[j][4]
  BY <1>0, <1>2, StoreGoes
<1>5. WriteCursor(f, upto, poll.reset /\ poll.reads = 1) /\ skipped' = skipped /\ Goto(p)
  BY <1>0, StoreGoes
<1>6. poll' = p /\ UNCHANGED <<remote, clock, binding>> BY <1>5 DEF Goto, source
<1> HIDE DEF upto, p
<1>7. /\ ListSound /\ TodoSound /\ RangeSound
      /\ poll.list[f].gen = gen /\ poll.list[f].since = File(f).since /\ poll.list[f].size <= File(f).size
      /\ poll.list[f].since <= poll.list[f].mtime
      /\ f \in Followed => Cur(f).mtime <= poll.list[f].mtime
  BY <1>1, <1>2 DEF PollSound, ListSound, Seenly
<1>8. \A l \in Known : /\ l[2] \in Files /\ l[1] <= Now
                       /\ l[1] = Now => /\ 0 < l[3] /\ l[3] <= File(l[2]).gen
                                        /\ l[3] = File(l[2]).gen => 2 * l[4] <= File(l[2]).size
  BY Numbers DEF LinesSound
<1>9. InOrder'
  <2>1. \A l \in Known : l[1] = Now =>
           /\ l[3] <= File(f).gen \/ l[2] # f
           /\ l[2] < f \/ (l[2] = f /\ (l[3] = File(f).gen => 2 * l[4] <= poll.offset))
    BY <1>2, <1>8
  <2>2. /\ stored' = stored \o new /\ skipped' = skipped
        /\ \A i \in 1..Len(new) : new[i] = <<Now, f, File(f).gen, new[i][4]>> /\ poll.offset < 2 * new[i][4]
        /\ \A i, j \in 1..Len(new) : i < j => new[i][4] < new[j][4]
    BY <1>4, <1>5
  <2> HIDE DEF gen
  <2> QED BY <1>3, <2>1, <2>2, OrderStays
<1>10. ASSUME NEW l \in Known' PROVE l \in Known \/ \E i \in 1..Len(new) : l = new[i]
  <2>1. stored \in Seq(AllLines) /\ Len(stored) \in Nat /\ Len(new) \in Nat BY LenProperties DEF Types
  <2>2. CASE l \in skipped' BY <1>5, <2>2 DEF Known
  <2>3. CASE l \in ToSet(stored)'
    <3>1. PICK k \in 1..(Len(stored) + Len(new)) : l = stored'[k]
      BY <1>4, <2>1, <2>3, ConcatProperties, LenProperties DEF ToSet
    <3>2. CASE k <= Len(stored)
      <4>1. k \in DOMAIN stored /\ l = stored[k] BY <1>4, <2>1, <3>1, <3>2, ConcatProperties, LenProperties
      <4> QED BY <4>1 DEF Known, ToSet
    <3>3. CASE ~(k <= Len(stored))
      <4>1. k - Len(stored) \in 1..Len(new) /\ l = new[k - Len(stored)]
        BY <1>4, <2>1, <3>1, <3>3, ConcatProperties
      <4> QED BY <4>1
    <3> QED BY <3>2, <3>3
  <2> QED BY <1>10, <2>2, <2>3 DEF Known
<1>11. ASSUME NEW i \in 1..Len(new)
       PROVE  /\ new[i][1] = Now /\ new[i][2] = f /\ new[i][3] = gen /\ new[i][4] \in Nat
              /\ poll.offset < 2 * new[i][4] /\ 2 * new[i][4] <= upto
  <2>1. new[i] \in AllLines BY ElementOfSeq
  <2>2. new[i][4] \in Nat BY <2>1, Numbers
  <2> QED BY <1>4, <2>2
<1>12. ASSUME MovesTo(f, upto)
       PROVE  /\ Disk' /\ CursorsSound' /\ LinesSound' /\ Now' = Now /\ Followed' = Followed \union {f}
              /\ Cur(f)'.offset = upto /\ Cur(f)'.mtime = poll.list[f].mtime /\ Cur(f)'.size = poll.list[f].size
              /\ \A g \in Files : File(g)' = File(g) /\ (g # f => Cur(g)' = Cur(g))
  <2>1. /\ Now' = Now /\ Followed' = Followed \union {f} /\ Disk' /\ CursorsSound'
        /\ File(f).since <= Cur(f)'.mtime /\ Cur(f)'.offset = upto
        /\ Cur(f)'.mtime = poll.list[f].mtime /\ Cur(f)'.size = poll.list[f].size
        /\ \A g \in Files : File(g)' = File(g) /\ (g # f => Cur(g)' = Cur(g))
    BY <1>1, <1>2, <1>3, <1>7, <1>12, CursorMoves
  <2>2. ASSUME NEW l \in Known'
        PROVE  /\ l[2] \in Files /\ l[1] <= Now
               /\ l[1] = Now => /\ 0 < l[3] /\ l[3] <= File(l[2]).gen
                                /\ l[3] = File(l[2]).gen => 2 * l[4] <= File(l[2]).size
                                /\ l[2] < f \/ (l[2] = f /\ (l[3] = File(f).gen => 2 * l[4] <= upto))
    <3>1. CASE l \in Known
      <4>1. l[4] \in Nat BY <3>1, Numbers
      <4>2. 2 * l[4] <= poll.offset => 2 * l[4] <= upto BY <1>3, <4>1
      <4> QED BY <1>2, <1>8, <3>1, <4>2
    <3>2. CASE \E i \in 1..Len(new) : l = new[i]
      <4>1. l[1] = Now /\ l[2] = f /\ l[3] = gen /\ l[4] \in Nat /\ 2 * l[4] <= upto BY <1>11, <3>2
      <4>2. Now \in Nat /\ gen \in Nat /\ 0 < gen /\ File(f).size \in Nat /\ poll.list[f].size \in Nat
        BY <1>2, <1>7, Rows, Numbers
      <4>3. 2 * l[4] <= File(f).size BY <1>2, <1>3, <1>7, <4>1, <4>2
      <4> QED BY <4>1, <4>2, <4>3
    <3> QED BY <1>10, <3>1, <3>2
  <2>3. LinesSound' BY <1>3, <2>1, <2>2, LinesPassed
  <2> QED BY <2>1, <2>3
<1>13. CASE poll.offset < upto
  <2>1. MovesTo(f, upto)
    <3>1. Cur(f).mtime \in Nat /\ Cur(f).offset \in Nat /\ poll.list[f].mtime \in Nat BY Numbers
    <3>2. Cur(f).mtime = 0 \/ Cur(f).mtime <= poll.list[f].mtime BY <1>7, <3>1 DEF Followed
    <3>3. poll.offset = Cur(f).offset \/ (poll.reset /\ poll.reads = 1) BY <1>0, <1>1, <1>7 DEF RangeSound
    <3>4. upto > Cur(f).offset \/ (poll.reset /\ poll.reads = 1) BY <1>3, <1>13, <3>1, <3>3
    <3>5. cursor[<<Now, f>>] = Cur(f) BY DEF Cur
    <3>6. Written(Cur(f), [offset |-> upto, size |-> poll.list[f].size, mtime |-> poll.list[f].mtime],
                  poll.reset /\ poll.reads = 1)
      BY <3>1, <3>2, <3>4 DEF Written
    <3> QED BY <1>1, <1>5, <1>6, <3>5, <3>6 DEF MovesTo, WriteCursor, Space
  <2>2. /\ Disk' /\ CursorsSound' /\ LinesSound' /\ Now' = Now /\ Followed' = Followed \union {f}
        /\ Cur(f)'.offset = upto /\ Cur(f)'.mtime = poll.list[f].mtime /\ Cur(f)'.size = poll.list[f].size
        /\ \A g \in Files : File(g)' = File(g) /\ (g # f => Cur(g)' = Cur(g))
    BY <1>12, <2>1
  <2>3. p.of = poll.of /\ p.list = poll.list /\ p.at = "read" /\ p.todo = poll.todo /\ p.offset = upto
    <3>1. p = [poll EXCEPT !.at = "read", !.offset = upto] BY <1>3, <1>13 DEF p
    <3> QED BY <3>1 DEF Types, Polls
  <2>4. ListSound'
    <3>1. ASSUME NEW g \in Files, poll.list[g].gen > 0, g \in Followed'
          PROVE  Seenly(Cur(g)', poll.list[g])
      <4>1. CASE g = f BY <2>2, <4>1, Numbers DEF Seenly
      <4>2. CASE g # f
        <5>1. g \in Followed /\ Cur(g)' = Cur(g) BY <2>2, <3>1, <4>2
        <5> QED BY <1>1, <1>7, <3>1, <5>1 DEF ListSound
      <4> QED BY <4>1, <4>2
    <3> QED BY <1>1, <1>6, <1>7, <2>2, <2>3, <3>1 DEF ListSound
  <2>5. TodoSound'
    <3>1. ASSUME NEW i \in DOMAIN poll.todo, poll.list[poll.todo[i]].size > 0, NEW g \in Followed \union {f}
          PROVE  g <= poll.todo[i]
      <4>1. CASE g \in Followed BY <1>1, <1>7, <3>1, <4>1 DEF TodoSound
      <4>2. CASE g = f
        <5>1. f \in Nat /\ poll.todo[i] \in Nat BY TodoFiles DEF AdmAssumption
        <5>2. i = 1 \/ 1 < i BY TodoFiles
        <5>3. 1 < i => f < poll.todo[i] BY <1>0, <1>1, <1>2, <1>7 DEF TodoSound
        <5> QED BY <1>0, <4>2, <5>1, <5>2, <5>3
      <4> QED BY <3>1, <4>1, <4>2
    <3>2. ASSUME NEW i \in DOMAIN poll.todo, NEW g \in Followed \union {f}, g < poll.todo[i]
          PROVE  Done(g)' \/ \E j \in DOMAIN poll.todo : poll.todo[j] = g
      <4>1. CASE g = f BY <1>0, <1>2, <4>1
      <4>2. CASE g # f
        <5>1. g \in Followed /\ g \in Files BY <3>2, <4>2 DEF Followed
        <5>2. Done(g)' = Done(g) BY <2>2, <4>2, <5>1 DEF Done
        <5> QED BY <1>1, <1>7, <3>2, <5>1, <5>2 DEF TodoSound
      <4> QED BY <4>1, <4>2
    <3>3. \A i \in DOMAIN poll.todo : /\ poll.list[poll.todo[i]].gen > 0
                                      /\ \A j \in DOMAIN poll.todo : i < j => poll.todo[i] < poll.todo[j]
      BY <1>1, <1>7 DEF TodoSound
    <3> QED BY <1>6, <2>2, <2>3, <3>1, <3>2, <3>3 DEF TodoSound
  <2>6. RangeSound'
    <3>1. poll.list[f].since <= Cur(f)'.mtime BY <1>7, <2>2
    <3> QED BY <1>0, <1>6, <2>2, <2>3, <3>1 DEF RangeSound
  <2>7. TailSound' BY <1>6, <2>3 DEF TailSound
  <2> QED BY <1>9, <2>2, <2>4, <2>5, <2>6, <2>7 DEF PollSound
<1>14. CASE ~(poll.offset < upto)
  <2>1. PollSound'
    <3>1. upto <= poll.offset BY <1>3, <1>14
    <3>2. ~Working' BY <1>6, <3>1 DEF Working, Idle, p
    <3> QED BY <3>2 DEF PollSound, ListSound, TailSound, TodoSound, RangeSound
  <2>2. CASE MovesTo(f, upto) BY <1>9, <1>12, <2>1, <2>2
  <2>3. CASE ~MovesTo(f, upto)
    <3>1. cursor' = cursor BY <1>1, <1>5, <1>6, <2>3 DEF MovesTo, WriteCursor, Space
    <3>2. \A i \in 1..Len(new) : FALSE BY <1>3, <1>11, <1>14
    <3>3. Known' \subseteq Known BY <1>10, <3>2
    <3>4. Now' = Now /\ Followed' = Followed /\ \A g \in Files : Cur(g)' = Cur(g) /\ File(g)' = File(g)
      BY <1>6, <3>1 DEF Now, Followed, Cur, File
    <3>5. Disk' BY <1>6 DEF Disk, DiskSound
    <3>6. CursorsSound' BY <1>6, <3>1 DEF CursorsSound, Now, Cur, File, Followed, Done
    <3>7. \A l \in Known : Passed(l)' = Passed(l) BY <1>6, <3>1 DEF Passed, Now, Cur, File, Followed
    <3>8. Followed # {} BY <1>1, <1>7 DEF TodoSound
    <3>9. LinesSound'
      <4>1. \A l \in Known : File(l[2])' = File(l[2]) BY <1>8, <3>4
      <4> QED BY <3>3, <3>4, <3>7, <3>8, <4>1 DEF LinesSound
    <3> QED BY <1>9, <2>1, <3>5, <3>6, <3>9
  <2> QED BY <2>2, <2>3
<1> QED BY <1>3, <1>13, <1>14

-----------------------------------------------------------------------------
(* The theorems                                                            *)

\* At the start nothing has been read.
LEMMA InitInv == ASSUME AdmAssumption, Init PROVE Inv
<1>1. Types /\ TypeOK BY InitTypes
<1>2. PICK n \in {0, 2, 3} \intersect 0..MaxSize : remote = [s \in Services |-> [f \in Files |->
          IF f = 1 /\ n > 0 THEN [gen |-> 1, size |-> n, mtime |-> 1, since |-> 1] ELSE NoFile]]
  BY DEF Init
<1>3. /\ clock = [s \in Services |-> 1] /\ binding = [service |-> First, version |-> 0] /\ stored = <<>>
      /\ skipped = {} /\ poll = Idle /\ cursor = [c \in (0..MaxRebinds) \X Files |-> NoCursor]
  BY DEF Init
<1>4. \A s \in Services, f \in Files : \/ f = 1 /\ remote[s][f] = [gen |-> 1, size |-> n, mtime |-> 1, since |-> 1]
                                       \/ remote[s][f] = NoFile
  BY <1>2
<1>5. Disk
  <2> SUFFICES ASSUME NEW s \in Services, NEW f \in Files
               PROVE  /\ remote[s][f].gen = 0 => remote[s][f] = NoFile
                      /\ remote[s][f].gen > 0 => /\ 0 < remote[s][f].since
                         /\ remote[s][f].since <= remote[s][f].mtime
                                                 /\ remote[s][f].mtime <= clock[s]
                      /\ \A g \in Files : f < g /\ remote[s][g].gen > 0 =>
                            remote[s][f].gen > 0 /\ remote[s][f].mtime < remote[s][g].since
    BY DEF Disk, DiskSound
  <2>1. clock[s] = 1 BY <1>3
  <2>2. \A g \in Files : f < g => remote[s][g] = NoFile BY <1>4 DEF AdmAssumption
  <2> QED BY <1>4, <2>1, <2>2 DEF NoFile
<1>6. Now = 0 /\ Now \in Versions /\ Followed = {} /\ Known = {}
  <2>1. Now = 0 /\ Now \in Versions BY <1>3 DEF Now, Versions, AdmAssumption
  <2>2. \A f \in Files : Cur(f) = NoCursor BY <1>3, <2>1 DEF Cur, Versions
  <2>3. Followed = {} BY <2>2 DEF Followed, NoCursor
  <2>4. DOMAIN stored = {} BY <1>3
  <2>5. Known = {} BY <1>3, <2>4 DEF Known, ToSet
  <2> QED BY <2>1, <2>3, <2>5
<1>7. CursorsSound BY <1>3, <1>6 DEF CursorsSound, Versions
<1>8. LinesSound BY <1>6 DEF LinesSound, Known
<1>9. PollSound
  <2>1. ~Working BY <1>3 DEF Working, Idle
  <2> QED BY <2>1, NoPoll
<1>10. InOrder
  <2>1. DOMAIN stored = {} BY <1>3
  <2> QED BY <2>1 DEF InOrder
<1> QED BY <1>1, <1>5, <1>7, <1>8, <1>9, <1>10 DEF Inv

\* Every step keeps the invariant.
LEMMA StepInv == ASSUME AdmAssumption, Inv, [Next]_vars PROVE Inv'
<1>1. Types /\ TypeOK /\ Disk /\ CursorsSound /\ LinesSound /\ PollSound /\ InOrder BY DEF Inv
<1>2. Types' /\ TypeOK' BY <1>1, TypesStep
<1> SUFFICES Disk' /\ CursorsSound' /\ LinesSound' /\ PollSound' /\ InOrder' BY <1>2 DEF Inv
<1>3. ASSUME NEW s \in Services, Write(s) \/ (\E f \in Files : Rotate(s, f))
      PROVE  Disk' /\ CursorsSound' /\ LinesSound' /\ PollSound' /\ InOrder'
  BY <1>1, <1>2, <1>3, GameStep, GrowthKeeps
<1>4. ASSUME NEW s \in Services, Replace(s)
      PROVE  Disk' /\ CursorsSound' /\ LinesSound' /\ PollSound' /\ InOrder'
  BY <1>1, <1>2, <1>4, ReplaceStep
<1>5. ASSUME NEW s \in Services, Rebind(s)
      PROVE  Disk' /\ CursorsSound' /\ LinesSound' /\ PollSound' /\ InOrder'
  BY <1>1, <1>2, <1>5, RebindStep
<1>6. ASSUME NEW p, Goto(p), UNCHANGED store, PollSound'
      PROVE  Disk' /\ CursorsSound' /\ LinesSound' /\ PollSound' /\ InOrder'
  BY <1>1, <1>6, PollKeeps
<1>7. CASE Begin
  <2>1. PollSound' BY <1>1, <1>7, BeginStep
  <2> QED BY <1>6, <1>7, <2>1 DEF Begin
<1>8. CASE ListDir
  <2>1. PollSound' BY <1>1, <1>8, ListStep
  <2>2. UNCHANGED store /\ \E p : Goto(p) BY <1>8 DEF ListDir
  <2> QED BY <1>6, <2>1, <2>2
<1>9. CASE Baseline BY <1>1, <1>9, BaselineStep
<1>10. CASE Open
  <2>1. PollSound' BY <1>1, <1>10, OpenStep
  <2>2. UNCHANGED store /\ \E p : Goto(p) BY <1>10 DEF Open
  <2> QED BY <1>6, <2>1, <2>2
<1>11. CASE Read
  <2>1. PollSound' BY <1>1, <1>11, ReadStep
  <2>2. UNCHANGED store /\ \E p : Goto(p) BY <1>1, <1>11, ReadGoes
  <2> QED BY <1>6, <2>1, <2>2
<1>12. CASE Store BY <1>1, <1>12, StoreStep
<1>13. ASSUME Goto(Idle), UNCHANGED store
       PROVE  Disk' /\ CursorsSound' /\ LinesSound' /\ PollSound' /\ InOrder'
  <2>1. PollSound' BY <1>13, RestSound DEF Idle
  <2> QED BY <1>6, <1>13, <2>1
<1>14. CASE Abandon BY <1>13, <1>14 DEF Abandon, Stale
<1>15. CASE Fails BY <1>13, <1>15 DEF Fails, Busy
<1>16. CASE UNCHANGED vars
  <2>1. UNCHANGED <<remote, clock, binding, cursor, stored, skipped, poll>> BY <1>16 DEF vars, source, store
  <2>2. Growth BY <2>1 DEF Growth, Grows, File
  <2>3. Disk' BY <1>1, <2>1 DEF Disk, DiskSound
  <2> QED BY <1>1, <1>2, <2>2, <2>3, GrowthKeeps
<1> QED BY <1>3, <1>4, <1>5, <1>7, <1>8, <1>9, <1>10, <1>11, <1>12, <1>14, <1>15, <1>16 DEF Next, Poll

\* The inductive invariant holds.
LEMMA InvHolds == ASSUME AdmAssumption PROVE Spec => []Inv
<1>1. Init => Inv BY InitInv
<1>2. Inv /\ [Next]_vars => Inv' BY StepInv
<1> QED BY <1>1, <1>2, PTL DEF Spec

\* The ingestion stays within its types: sizes, cursors at the end of a line, and what a poll is at.
THEOREM IngestTypeOK == ASSUME AdmAssumption PROVE Spec => []TypeOK
<1>1. Inv => TypeOK BY DEF Inv
<1> QED BY <1>1, InvHolds, PTL

\* What is stored for a binding comes in the order it was written, across files, sessions, and polls
\* that were cut off, and no line is stored that a baseline passed over (runAdmLiveIngestTick,
\* readNewLines, commitAdmCursor).
THEOREM IngestInOrder == ASSUME AdmAssumption PROVE Spec => []InOrder
<1>1. Inv => InOrder BY DEF Inv
<1> QED BY <1>1, InvHolds, PTL

-----------------------------------------------------------------------------
(* What is stored is delivered: the gameplay feed                          *)

CONSTANTS Entries, Categories, Category, Batch, MaxAttempts, MaxChanges

VARIABLES logged, feed, delivery, sweep, shown, excused, changes, troubles

Feed == INSTANCE GameplayFeed WITH Events <- Entries, stored <- logged, posted <- shown, faults <- troubles

Statuses == {"NONE", "PENDING", "SENDING", "RETRY", "SENT", "SKIPPED", "FAILED"}
Places   == {"idle", "scan", "create", "cursor", "due", "claim", "check", "send", "mark"}

FeedTypes ==
    /\ logged \in Nat /\ 1..logged \subseteq Entries /\ shown \subseteq Entries /\ excused \subseteq Entries
    /\ feed \in [active : BOOLEAN, auto : BOOLEAN, filter : SUBSET Categories, cursor : Nat]
    /\ delivery \in [Entries -> [status : Statuses, attempts : Nat]]
    /\ sweep \in [at : Places, cursor : Nat, filter : SUBSET Categories, event : Nat, last : Nat]
    /\ changes \in 0..MaxChanges /\ troubles \in 0..MaxFaults

\* Nothing is known of an event before it is stored.
Stored ==
    /\ feed.cursor <= logged /\ sweep.cursor <= logged /\ sweep.event <= logged /\ sweep.last <= logged
    /\ \A e \in Entries : delivery[e].status # "NONE" => e <= logged

\* The delivery a run works on; a lease nobody works under is of a run that died.
Sending(e)  == sweep.at \in {"check", "send", "mark"} /\ sweep.event = e
Orphaned(e) == delivery[e].status = "SENDING" /\ ~Sending(e)
Handled ==
    /\ sweep.at \in {"claim", "check", "send", "mark"} => sweep.event \in Entries
    /\ sweep.at = "claim" => delivery[sweep.event].status \in {"PENDING", "RETRY"}
    /\ sweep.at \in {"check", "send", "mark"} => delivery[sweep.event].status = "SENDING"

\* Every attempt, and every orphan, took a failure.
Tries ==
    \A e \in Entries : /\ delivery[e].attempts <= troubles
                       /\ Orphaned(e) => delivery[e].attempts + 1 <= troubles

\* The event needs no delivery any more.
Has(x) == delivery[x].status # "NONE" \/ x \in excused
CursorsCover ==
    /\ (\A x \in 1..feed.cursor : Has(x)) /\ (\A x \in 1..sweep.cursor : Has(x))
    /\ sweep.at = "create" => /\ sweep.cursor < sweep.event /\ sweep.event <= sweep.last
                              /\ \A x \in 1..sweep.event : x < sweep.event => Has(x)
    /\ sweep.at = "cursor" => \A x \in 1..sweep.last : Has(x)

FeedInv == FeedTypes /\ Stored /\ Handled /\ Tries /\ CursorsCover

-----------------------------------------------------------------------------
\* What is covered stays covered: no delivery is taken back, nor an excuse.
LEMMA CoverStays ==
    ASSUME FeedTypes, NEW n \in Nat, n <= logged, \A x \in 1..n : Has(x), excused \subseteq excused',
           \A e \in Entries : delivery[e].status # "NONE" => delivery'[e].status # "NONE"
    PROVE  \A x \in 1..n : Has(x)'
<1> SUFFICES ASSUME NEW e \in 1..n PROVE Has(e)' OBVIOUS
<1>1. e \in Entries BY DEF FeedTypes
<1> QED BY <1>1 DEF Has

LEMMA InitFeed == ASSUME Feed!FeedAssumption, Feed!Init PROVE FeedInv
<1>1. FeedTypes BY DEF Feed!FeedAssumption, Feed!Init, Feed!NoDelivery, Feed!Resting, FeedTypes, Statuses, Places
<1>2. Stored /\ Handled BY DEF Feed!FeedAssumption, Feed!Init, Feed!NoDelivery, Feed!Resting, Stored, Handled
<1>3. Tries BY DEF Feed!Init, Feed!NoDelivery, Tries, Orphaned
<1>4. CursorsCover BY DEF Feed!Init, Feed!Resting, CursorsCover, Has
<1> QED BY <1>1, <1>2, <1>3, <1>4 DEF FeedInv

\* A new event, and a change of the feed: no delivery moves.
LEMMA OutsideStep ==
    ASSUME Feed!FeedAssumption, FeedInv,
           \/ Feed!Store \/ Feed!SwitchOn \/ Feed!SwitchOff \/ Feed!Resume
           \/ \E filter \in SUBSET Categories : Feed!SetFilter(filter)
    PROVE  FeedInv'
<1> USE DEF FeedInv
<1>1. UNCHANGED <<delivery, sweep, shown, troubles>> /\ logged <= logged' /\ excused \subseteq excused'
  BY DEF FeedTypes, Feed!Store, Feed!SwitchOn, Feed!SwitchOff, Feed!Resume, Feed!SwitchedOn, Feed!SetFilter
<1>2. \/ feed'.cursor = feed.cursor
      \/ /\ feed'.cursor = logged /\ logged' = logged
         /\ excused' = excused \union {e \in 1..logged : e > feed.cursor}
  BY DEF FeedTypes, Feed!Store, Feed!SwitchOn, Feed!SwitchOff, Feed!Resume, Feed!SwitchedOn, Feed!SetFilter
<1>3. FeedTypes'
  <2>1. CASE Feed!Store
    <3>1. 1..logged' \subseteq Entries BY <2>1 DEF Feed!Store, FeedTypes
    <3> QED BY <2>1, <3>1 DEF Feed!Store, FeedTypes
  <2>2. CASE Feed!SwitchOn
    <3>1. changes' \in 0..MaxChanges BY <2>2 DEF Feed!SwitchOn, Feed!Change, Feed!FeedAssumption, FeedTypes
    <3>2. feed' = [feed EXCEPT !.active = TRUE, !.auto = FALSE, !.cursor = logged] /\ logged' = logged
          /\ excused' = excused \union {e \in 1..logged : e > feed.cursor}
      BY <2>2 DEF Feed!SwitchOn, Feed!SwitchedOn
    <3> QED BY <1>1, <3>1, <3>2 DEF FeedTypes
  <2>3. CASE Feed!SwitchOff
    <3>1. changes' \in 0..MaxChanges BY <2>3 DEF Feed!SwitchOff, Feed!Change, Feed!FeedAssumption, FeedTypes
    <3>2. feed' = [feed EXCEPT !.active = FALSE, !.auto = FALSE] /\ UNCHANGED <<logged, excused>>
      BY <2>3 DEF Feed!SwitchOff
    <3> QED BY <1>1, <3>1, <3>2 DEF FeedTypes
  <2>4. CASE Feed!Resume BY <2>4 DEF FeedTypes, Feed!Resume, Feed!SwitchedOn
  <2>5. ASSUME NEW filter \in SUBSET Categories, Feed!SetFilter(filter) PROVE FeedTypes'
    BY <2>5 DEF FeedTypes, Feed!FeedAssumption, Feed!SetFilter, Feed!Change
  <2> QED BY <2>1, <2>2, <2>3, <2>4, <2>5
<1>4. Stored' BY <1>1, <1>2, <1>3 DEF FeedTypes, Feed!FeedAssumption, Stored
<1>5. Handled' /\ Tries' BY <1>1 DEF Handled, Tries, Orphaned, Sending
<1>6. CursorsCover'
  <2>1. (\A x \in 1..feed'.cursor : Has(x)')
    <3>1. CASE feed'.cursor = feed.cursor BY <1>1, <3>1 DEF CursorsCover, Has
    <3>2. CASE /\ feed'.cursor = logged /\ logged' = logged
               /\ excused' = excused \union {e \in 1..logged : e > feed.cursor}
      BY <1>1, <3>2 DEF CursorsCover, Has, FeedTypes
    <3> QED BY <1>2, <3>1, <3>2
  <2>2. (\A x \in 1..sweep'.cursor : Has(x)') BY <1>1 DEF CursorsCover, Has
  <2>3. sweep'.at = "create" =>
           /\ sweep'.cursor < sweep'.event /\ sweep'.event <= sweep'.last
           /\ \A e \in 1..sweep'.event : e < sweep'.event => Has(e)'
    BY <1>1 DEF CursorsCover, Has
  <2>4. sweep'.at = "cursor" => (\A x \in 1..sweep'.last : Has(x)') BY <1>1 DEF CursorsCover, Has
  <2> QED BY <2>1, <2>2, <2>3, <2>4 DEF CursorsCover, Has
<1> QED BY <1>3, <1>4, <1>5, <1>6

\* Leases of runs that died are taken back: each took a failure.
LEMMA RunBegins == ASSUME Feed!FeedAssumption, FeedInv, Feed!Begin PROVE FeedInv'
<1> USE DEF FeedInv
<1>1. /\ UNCHANGED <<logged, feed, shown, excused, changes, troubles>> /\ sweep.at = "idle"
      /\ delivery' = [e \in Entries |-> Feed!Expired(delivery[e])]
      /\ sweep' = IF feed.active
                  THEN [Feed!Resting EXCEPT !.at = "scan", !.cursor = feed.cursor, !.filter = feed.filter]
                  ELSE sweep
  BY DEF Feed!Begin, Feed!At
<1>2. \A e \in Entries : /\ delivery'[e].status \in Statuses /\ delivery'[e].status # "SENDING"
                         /\ delivery'[e] \in [status : Statuses, attempts : Nat]
                         /\ delivery'[e].status = "NONE" <=> delivery[e].status = "NONE"
                         /\ delivery'[e].attempts <= troubles
  <2> SUFFICES ASSUME NEW e \in Entries
               PROVE  /\ delivery'[e].status \in Statuses /\ delivery'[e].status # "SENDING"
                      /\ delivery'[e] \in [status : Statuses, attempts : Nat]
                      /\ delivery'[e].status = "NONE" <=> delivery[e].status = "NONE"
                      /\ delivery'[e].attempts <= troubles
    OBVIOUS
  <2>1. delivery'[e] = Feed!Expired(delivery[e]) BY <1>1
  <2>2. delivery[e].attempts \in Nat /\ delivery[e].status \in Statuses BY DEF FeedTypes
  <2>3. ~Sending(e) BY <1>1 DEF Sending
  <2> QED BY <2>1, <2>2, <2>3 DEF FeedTypes, Tries, Orphaned, Feed!Expired, Statuses
<1>3. FeedTypes' BY <1>1, <1>2 DEF FeedTypes, Feed!Resting, Places
<1>4. Stored' BY <1>1, <1>2 DEF Stored, Feed!Resting, FeedTypes
<1>5. sweep'.at \in {"idle", "scan"} /\ Handled' BY <1>1 DEF Handled, Feed!Resting
<1>6. Tries' BY <1>1, <1>2 DEF Tries, Orphaned
<1>7. CursorsCover'
  <2>1. (\A x \in 1..feed'.cursor : Has(x)') BY <1>1, <1>2, CoverStays DEF CursorsCover, Has, FeedTypes, Stored
  <2>2. (\A x \in 1..sweep.cursor : Has(x)') BY <1>1, <1>2, CoverStays DEF CursorsCover, Has, FeedTypes, Stored
  <2>3. sweep'.cursor \in {feed.cursor, sweep.cursor} BY <1>1 DEF Feed!Resting
  <2> QED BY <1>1, <1>5, <2>1, <2>2, <2>3 DEF CursorsCover, Has
<1> QED BY <1>3, <1>4, <1>5, <1>6, <1>7

\* Only the run moves: over the log, to a delivery, or to rest.
LEMMA MoveStep ==
    ASSUME Feed!FeedAssumption, FeedInv, Feed!Scan \/ Feed!MoveCursor \/ Feed!ReadDue PROVE FeedInv'
<1> USE DEF FeedInv
<1>1. UNCHANGED <<logged, delivery, shown, excused, changes, troubles>>
  BY DEF Feed!Scan, Feed!MoveCursor, Feed!ReadDue
<1>2. sweep.at \in {"scan", "cursor", "due"} BY DEF Feed!Scan, Feed!MoveCursor, Feed!ReadDue, Feed!At
<1>3. \A x : Has(x)' <=> Has(x) BY <1>1 DEF Has
<1>4. sweep'.at \notin {"check", "send", "mark"}
  <2>1. CASE Feed!Scan BY <2>1 DEF Feed!Scan, FeedTypes
  <2>2. CASE Feed!MoveCursor BY <2>2 DEF Feed!MoveCursor, FeedTypes
  <2>3. CASE Feed!ReadDue
    <3>1. sweep' = Feed!Resting \/ \E e \in Feed!Due : sweep' = [sweep EXCEPT !.at = "claim", !.event = e]
      BY <2>3 DEF Feed!ReadDue
    <3>2. sweep' = Feed!Resting => sweep'.at = "idle" BY DEF Feed!Resting
    <3>3. ASSUME NEW e \in Feed!Due, sweep' = [sweep EXCEPT !.at = "claim", !.event = e] PROVE sweep'.at = "claim"
      BY <3>3 DEF FeedTypes
    <3> QED BY <3>1, <3>2, <3>3
  <2> QED BY <2>1, <2>2, <2>3
<1>5. Tries' BY <1>1, <1>2, <1>4 DEF Tries, Orphaned, Sending
<1>6. CASE Feed!Scan
  <2> DEFINE end == IF logged < sweep.cursor + Batch THEN logged ELSE sweep.cursor + Batch
  <2>1. /\ UNCHANGED feed
        /\ sweep' = IF end = sweep.cursor THEN [sweep EXCEPT !.at = "due"]
                    ELSE [sweep EXCEPT !.at = "create", !.event = sweep.cursor + 1, !.last = end]
    BY <1>6 DEF Feed!Scan
  <2>2. end \in Nat /\ end <= logged /\ sweep.cursor <= end
    BY DEF FeedTypes, Stored, Feed!FeedAssumption
  <2>3. FeedTypes'
    <3>1. sweep.cursor + 1 \in Nat BY DEF FeedTypes
    <3>2. CASE end = sweep.cursor BY <1>1, <2>1, <3>2 DEF FeedTypes, Places
    <3>3. CASE end # sweep.cursor
      <4>1. sweep' = [sweep EXCEPT !.at = "create", !.event = sweep.cursor + 1, !.last = end] BY <2>1, <3>3
      <4> HIDE DEF end
      <4> QED BY <1>1, <2>1, <2>2, <3>1, <4>1 DEF FeedTypes, Places
    <3> QED BY <3>2, <3>3
  <2>4. Stored' /\ Handled' BY <1>1, <2>1, <2>2 DEF FeedTypes, Stored, Handled
  <2>5. sweep'.cursor = sweep.cursor /\ sweep'.at \in {"due", "create"} BY <2>1 DEF FeedTypes
  <2>6. sweep'.at = "create" => /\ sweep'.cursor < sweep'.event /\ sweep'.event <= sweep'.last
                                /\ sweep'.event = sweep.cursor + 1
    BY <2>1, <2>2 DEF FeedTypes
  <2>7. sweep'.at = "create" =>
           \A e \in 1..sweep'.event : e < sweep'.event => Has(e)'
    BY <1>1, <2>6 DEF CursorsCover, Has, FeedTypes
  <2>8. (\A x \in 1..feed'.cursor : Has(x)') /\ (\A x \in 1..sweep'.cursor : Has(x)')
    BY <1>3, <2>1, <2>5 DEF CursorsCover
  <2>9. CursorsCover' BY <2>5, <2>6, <2>7, <2>8 DEF CursorsCover, Has
  <2> QED BY <1>5, <2>3, <2>4, <2>9
<1>7. CASE Feed!MoveCursor
  <2>1. /\ sweep.at = "cursor" /\ feed' = [feed EXCEPT !.cursor = sweep.last]
        /\ \E place \in {"due", "scan"} : sweep' = [sweep EXCEPT !.cursor = sweep.last, !.at = place]
    BY <1>7 DEF Feed!MoveCursor, Feed!At
  <2>2. FeedTypes' /\ Stored' /\ Handled' BY <1>1, <2>1 DEF FeedTypes, Stored, Handled, Places
  <2>3. feed'.cursor = sweep.last /\ sweep'.cursor = sweep.last /\ sweep'.at \in {"due", "scan"}
    BY <2>1 DEF FeedTypes
  <2>4. CursorsCover' BY <1>3, <2>1, <2>3 DEF CursorsCover, Has
  <2> QED BY <1>5, <2>2, <2>4
<1>8. CASE Feed!ReadDue
  <2>1. /\ UNCHANGED feed
        /\ \/ sweep' = Feed!Resting
           \/ \E e \in Feed!Due : sweep' = [sweep EXCEPT !.at = "claim", !.event = e]
    BY <1>8 DEF Feed!ReadDue
  <2>2. CASE sweep' = Feed!Resting
    <3>1. FeedTypes' /\ Stored' /\ Handled' BY <1>1, <2>1, <2>2 DEF FeedTypes, Stored, Handled, Places, Feed!Resting
    <3>2. CursorsCover' BY <1>3, <2>1, <2>2 DEF CursorsCover, Has, Feed!Resting
    <3> QED BY <1>5, <3>1, <3>2
  <2>3. ASSUME NEW e \in Feed!Due, sweep' = [sweep EXCEPT !.at = "claim", !.event = e] PROVE FeedInv'
    <3>1. e \in Entries /\ e \in Nat /\ delivery[e].status \in {"PENDING", "RETRY"}
      BY DEF Feed!Due, Feed!FeedAssumption
    <3>2. sweep'.at = "claim" /\ sweep'.event = e /\ sweep'.cursor = sweep.cursor /\ sweep'.last = sweep.last
      BY <2>3 DEF FeedTypes
    <3>3. FeedTypes' BY <1>1, <2>1, <2>3, <3>1 DEF FeedTypes, Places
    <3>4. Stored' /\ Handled' BY <1>1, <2>1, <3>1, <3>2 DEF Stored, Handled
    <3>5. CursorsCover' BY <1>3, <2>1, <3>2 DEF CursorsCover, Has
    <3> QED BY <1>5, <3>3, <3>4, <3>5
  <2> QED BY <2>1, <2>2, <2>3
<1> QED BY <1>6, <1>7, <1>8

\* An event has a delivery or an excuse before the run goes on to the next one.
LEMMA CreateStep == ASSUME Feed!FeedAssumption, FeedInv, Feed!Create PROVE FeedInv'
<1> USE DEF FeedInv
<1> DEFINE e == sweep.event
<1>1. /\ UNCHANGED <<logged, feed, shown, changes, troubles>> /\ sweep.at = "create"
      /\ \/ UNCHANGED delivery
         \/ delivery[e].status = "NONE" /\ delivery' = [delivery EXCEPT ![e].status = "PENDING"]
      /\ excused' = excused \/ excused' = excused \union {e}
      /\ sweep' = IF e = sweep.last THEN [sweep EXCEPT !.at = "cursor"] ELSE [sweep EXCEPT !.event = e + 1]
  BY DEF Feed!Create, Feed!At, Feed!Become
<1>2. e \in Entries /\ e <= logged /\ sweep.cursor < e /\ e <= sweep.last
  BY <1>1 DEF CursorsCover, FeedTypes, Stored
<1>3. delivery'[e].status # "NONE" \/ e \in excused'
  <2>1. CASE Category[e] \in sweep.filter /\ delivery[e].status = "NONE"
    <3>1. delivery' = [delivery EXCEPT ![e].status = "PENDING"] BY <2>1 DEF Feed!Create, Feed!Become
    <3>2. delivery'[e].status = "PENDING" BY <1>2, <3>1 DEF FeedTypes
    <3> QED BY <3>2
  <2>2. CASE Category[e] \in sweep.filter /\ delivery[e].status # "NONE"
    <3>1. delivery' = delivery BY <2>2 DEF Feed!Create
    <3> QED BY <2>2, <3>1
  <2>3. CASE Category[e] \notin sweep.filter
    <3>1. e \in excused' BY <2>3 DEF Feed!Create
    <3> QED BY <3>1
  <2> QED BY <2>1, <2>2, <2>3
<1>4. FeedTypes' BY <1>1, <1>2 DEF FeedTypes, Statuses, Places
<1>5. \A f \in Entries : /\ delivery'[f].status = delivery[f].status \/ (f = e /\ delivery'[f].status = "PENDING")
                         /\ delivery'[f].attempts = delivery[f].attempts
  BY <1>1 DEF FeedTypes
<1>6. sweep'.at \in {"create", "cursor"} /\ sweep'.cursor = sweep.cursor /\ sweep'.last = sweep.last
  BY <1>1 DEF FeedTypes
<1>7. sweep'.event <= logged
  <2>1. sweep'.event = e \/ (e # sweep.last /\ sweep'.event = e + 1) BY <1>1 DEF FeedTypes
  <2>2. sweep.last <= logged BY DEF Stored
  <2>3. e \in Nat /\ sweep.last \in Nat /\ logged \in Nat BY DEF FeedTypes
  <2> QED BY <1>2, <2>1, <2>2, <2>3
<1>8. Stored' BY <1>1, <1>2, <1>5, <1>6, <1>7 DEF Stored
<1>9. Handled' BY <1>6 DEF Handled
<1>10. Tries' BY <1>1, <1>5, <1>6 DEF Tries, Orphaned, Sending
<1>11. \A f \in Entries : delivery[f].status # "NONE" => delivery'[f].status # "NONE" BY <1>5
<1>12. excused \subseteq excused' BY <1>1
<1>13. (\A x \in 1..feed'.cursor : Has(x)') /\ (\A x \in 1..sweep'.cursor : Has(x)')
  BY <1>1, <1>6, <1>11, <1>12, CoverStays DEF CursorsCover, Has, FeedTypes, Stored
<1>14. \A f \in 1..e : Has(f)'
  <2> SUFFICES ASSUME NEW f \in 1..e PROVE Has(f)' OBVIOUS
  <2>1. f \in Entries /\ (f < e \/ f = e) BY <1>2 DEF FeedTypes
  <2> QED BY <1>1, <1>3, <1>11, <1>12, <2>1 DEF CursorsCover, Has
<1>15. CASE e = sweep.last
  <2>1. sweep'.at = "cursor" BY <1>1, <1>15 DEF FeedTypes
  <2> QED BY <1>4, <1>6, <1>8, <1>9, <1>10, <1>13, <1>14, <1>15, <2>1 DEF CursorsCover, Has
<1>16. CASE e # sweep.last
  <2>1. sweep'.at = "create" /\ sweep'.event = e + 1 BY <1>1, <1>16 DEF FeedTypes
  <2>2. e \in Nat /\ sweep.cursor \in Nat /\ sweep.last \in Nat BY DEF FeedTypes
  <2>3. sweep'.cursor < sweep'.event /\ sweep'.event <= sweep'.last BY <1>2, <1>6, <1>16, <2>1, <2>2
  <2>4. \A f \in 1..sweep'.event : f < sweep'.event => Has(f)'
    BY <1>14, <2>1, <2>2
  <2>5. CursorsCover' BY <1>13, <2>1, <2>3, <2>4 DEF CursorsCover, Has
  <2> QED BY <1>4, <1>8, <1>9, <1>10, <2>5
<1> QED BY <1>15, <1>16

\* A run takes a delivery, or puts it back or aside; whatever fails leaves it to the next.
LEMMA SendStep ==
    ASSUME Feed!FeedAssumption, FeedInv,
           Feed!Claim \/ Feed!Check \/ Feed!Send \/ Feed!MarkSent \/ Feed!Fails \/ Feed!Crash
    PROVE  FeedInv'
<1> USE DEF FeedInv
<1> DEFINE e == sweep.event
<1>1. UNCHANGED <<logged, feed, excused, changes>>
  BY DEF Feed!Claim, Feed!Check, Feed!Send, Feed!MarkSent, Feed!Fails, Feed!Crash
<1>2. troubles' \in 0..MaxFaults /\ troubles <= troubles'
  BY DEF Feed!Claim, Feed!Check, Feed!Send, Feed!MarkSent, Feed!Fails, Feed!Crash, Feed!Fault, FeedTypes,
     Feed!FeedAssumption
<1>3. \/ sweep' = Feed!Resting
      \/ /\ sweep.at \in {"claim", "check", "send"}
         /\ \E place \in {"check", "send", "mark"} : sweep' = [sweep EXCEPT !.at = place]
  BY DEF Feed!Claim, Feed!Check, Feed!Send, Feed!MarkSent, Feed!Fails, Feed!Crash, Feed!At, Feed!Goto
<1>4. shown' \subseteq Entries
  BY DEF Feed!Claim, Feed!Check, Feed!Send, Feed!MarkSent, Feed!Fails, Feed!Crash, Feed!At, FeedTypes, Handled
<1>5. \/ UNCHANGED delivery
      \/ /\ e \in Entries /\ delivery[e].status # "NONE"
         /\ \E status \in Statuses \ {"NONE"}, n \in Nat :
               /\ delivery' = [delivery EXCEPT ![e] = [status |-> status, attempts |-> n]]
               /\ n <= troubles'
               /\ status = "SENDING" => sweep'.at = "check" /\ sweep'.event = e
  <2>1. CASE Feed!Crash \/ Feed!Send BY <2>1 DEF Feed!Crash, Feed!Send
  <2>2. CASE Feed!Claim
    <3>1. CASE feed.active
      <4>1. e \in Entries /\ delivery[e].status \in {"PENDING", "RETRY"} BY <2>2 DEF Feed!Claim, Feed!At, Handled
      <4>2. delivery' = [delivery EXCEPT ![e] = [status |-> "SENDING", attempts |-> delivery[e].attempts]]
        BY <2>2, <3>1, <4>1 DEF Feed!Claim, Feed!Become, FeedTypes
      <4>3. sweep'.at = "check" /\ sweep'.event = e BY <2>2, <3>1 DEF Feed!Claim, Feed!Goto, FeedTypes
      <4>4. delivery[e].attempts \in Nat /\ delivery[e].attempts <= troubles' BY <1>2, <4>1 DEF FeedTypes, Tries
      <4> QED BY <4>1, <4>2, <4>3, <4>4 DEF Statuses
    <3>2. CASE ~feed.active BY <2>2, <3>2 DEF Feed!Claim
    <3> QED BY <3>1, <3>2
  <2>3. CASE Feed!Check \/ Feed!MarkSent
    <3>1. e \in Entries /\ delivery[e].status = "SENDING" BY <2>3 DEF Feed!Check, Feed!MarkSent, Feed!At, Handled
    <3>2. delivery[e].attempts \in Nat /\ delivery[e].attempts <= troubles' BY <1>2, <3>1 DEF FeedTypes, Tries
    <3>3. UNCHANGED delivery \/ \E s \in {"SKIPPED", "PENDING", "SENT"} : delivery' = [delivery EXCEPT ![e].status = s]
      BY <2>3 DEF Feed!Check, Feed!MarkSent, Feed!Become
    <3>4. ASSUME NEW s \in {"SKIPPED", "PENDING", "SENT"}, delivery' = [delivery EXCEPT ![e].status = s]
          PROVE  delivery' = [delivery EXCEPT ![e] = [status |-> s, attempts |-> delivery[e].attempts]]
      <4>1. delivery[e] \in [status : Statuses, attempts : Nat] BY <3>1 DEF FeedTypes
      <4>2. [delivery[e] EXCEPT !.status = s] = [status |-> s, attempts |-> delivery[e].attempts] BY <4>1
      <4>3. delivery' = [delivery EXCEPT ![e] = [delivery[e] EXCEPT !.status = s]] BY <3>4
      <4> QED BY <4>2, <4>3
    <3> QED BY <3>1, <3>2, <3>3, <3>4 DEF Statuses
  <2>4. CASE Feed!Fails
    <3>1. e \in Entries /\ delivery[e].status = "SENDING" BY <2>4 DEF Feed!Fails, Handled
    <3>2. delivery[e].attempts + 1 \in Nat /\ delivery[e].attempts + 1 <= troubles'
      BY <2>4, <3>1 DEF Feed!Fails, Feed!Fault, FeedTypes, Tries
    <3>3. \E s \in {"FAILED", "RETRY"} :
             delivery' = [delivery EXCEPT ![e] = [status |-> s, attempts |-> delivery[e].attempts + 1]]
      BY <2>4 DEF Feed!Fails
    <3> QED BY <3>1, <3>2, <3>3 DEF Statuses
  <2> QED BY <2>1, <2>2, <2>3, <2>4
<1>6. FeedTypes' BY <1>1, <1>2, <1>3, <1>4, <1>5 DEF FeedTypes, Statuses, Places, Feed!Resting
<1>7. \A f \in Entries : delivery'[f].status # "NONE" <=> delivery[f].status # "NONE" BY <1>5 DEF FeedTypes
<1>8. Stored' BY <1>1, <1>3, <1>7 DEF Stored, FeedTypes, Feed!Resting
<1>9. Handled'
  <2>1. CASE sweep' = Feed!Resting BY <2>1 DEF Handled, Feed!Resting
  <2>2. CASE sweep' # Feed!Resting
    <3>1. \/ Feed!Claim /\ feed.active
          \/ Feed!Check /\ sweep' = [sweep EXCEPT !.at = "send"] /\ UNCHANGED delivery
          \/ Feed!Send
      BY <2>2 DEF Feed!Claim, Feed!Check, Feed!Send, Feed!MarkSent, Feed!Fails, Feed!Crash, Feed!Goto
    <3>2. e \in Entries BY <1>3, <2>2 DEF Handled
    <3>3. CASE Feed!Claim /\ feed.active
      BY <3>2, <3>3 DEF Feed!Claim, Feed!Become, Feed!Goto, Handled, FeedTypes
    <3>4. CASE Feed!Check /\ sweep' = [sweep EXCEPT !.at = "send"] /\ UNCHANGED delivery
      BY <3>2, <3>4 DEF Feed!Check, Feed!At, Handled, FeedTypes
    <3>5. CASE Feed!Send BY <3>2, <3>5 DEF Feed!Send, Feed!At, Feed!Goto, Handled, FeedTypes
    <3> QED BY <3>1, <3>3, <3>4, <3>5
  <2> QED BY <2>1, <2>2
<1>10. Tries'
  <2> SUFFICES ASSUME NEW f \in Entries
               PROVE  /\ delivery'[f].attempts <= troubles'
                      /\ Orphaned(f)' => delivery'[f].attempts + 1 <= troubles'
    BY DEF Tries
  <2>1. /\ delivery[f].attempts \in Nat /\ delivery[f].attempts <= troubles
        /\ Orphaned(f) => delivery[f].attempts + 1 <= troubles
    BY DEF FeedTypes, Tries
  <2>2. troubles \in Nat /\ troubles' \in Nat BY <1>2 DEF FeedTypes
  <2>3. CASE UNCHANGED delivery
    <3>1. Feed!Crash => troubles' = troubles + 1 BY DEF Feed!Crash, Feed!Fault
    <3>2. ~Feed!Crash /\ Orphaned(f)' => Orphaned(f)
      <4>1. CASE sweep' # Feed!Resting
        <5>1. sweep'.event = e /\ sweep'.at \in {"check", "send", "mark"} BY <1>3, <4>1 DEF FeedTypes
        <5>2. sweep.at = "claim" /\ e = f => delivery[f].status # "SENDING" BY DEF Handled
        <5> QED BY <2>3, <5>1, <5>2 DEF Orphaned, Sending
      <4>2. CASE sweep' = Feed!Resting /\ ~Feed!Crash
        <5>1. sweep.at \notin {"check", "send", "mark"}
          <6>1. CASE Feed!Claim BY <6>1 DEF Feed!Claim, Feed!At
          <6>2. CASE Feed!Check
            <7>1. e \in Entries /\ delivery[e].status = "SENDING" BY <6>2 DEF Feed!Check, Feed!At, Handled
            <7>2. sweep' # [sweep EXCEPT !.at = "send"] BY <4>2 DEF Feed!Resting, FeedTypes
            <7>3. delivery'[e].status \in {"SKIPPED", "PENDING"}
              BY <6>2, <7>1, <7>2 DEF Feed!Check, Feed!Become, Feed!Goto, FeedTypes
            <7> QED BY <2>3, <7>1, <7>3
          <6>3. CASE Feed!Send BY <4>2, <6>3 DEF Feed!Send, Feed!Goto, Feed!Resting, FeedTypes
          <6>4. CASE Feed!MarkSent
            <7>1. e \in Entries /\ delivery[e].status = "SENDING" BY <6>4 DEF Feed!MarkSent, Feed!At, Handled
            <7>2. delivery'[e].status = "SENT" BY <6>4, <7>1 DEF Feed!MarkSent, Feed!Become, FeedTypes
            <7> QED BY <2>3, <7>1, <7>2
          <6>5. CASE Feed!Fails
            <7>1. e \in Entries /\ delivery[e].status = "SENDING" BY <6>5 DEF Feed!Fails, Handled
            <7>2. delivery'[e].status \in {"FAILED", "RETRY"} BY <6>5, <7>1 DEF Feed!Fails, FeedTypes
            <7> QED BY <2>3, <7>1, <7>2
          <6> QED BY <4>2, <6>1, <6>2, <6>3, <6>4, <6>5
        <5> QED BY <2>3, <5>1 DEF Orphaned, Sending
      <4> QED BY <4>1, <4>2
    <3> QED BY <1>2, <2>1, <2>2, <2>3, <3>1, <3>2
  <2>4. CASE delivery' # delivery
    <3>1. PICK status \in Statuses \ {"NONE"}, n \in Nat :
             /\ e \in Entries /\ delivery' = [delivery EXCEPT ![e] = [status |-> status, attempts |-> n]]
             /\ n <= troubles' /\ (status = "SENDING" => sweep'.at = "check" /\ sweep'.event = e)
      BY <1>5, <2>4
    <3>2. CASE f = e
      <4>1. delivery'[f] = [status |-> status, attempts |-> n] BY <3>1, <3>2 DEF FeedTypes
      <4> QED BY <3>1, <3>2, <4>1 DEF Orphaned, Sending
    <3>3. CASE f # e
      <4>1. delivery'[f] = delivery[f] BY <3>1, <3>3 DEF FeedTypes
      <4>2. ~Sending(f) BY <3>3 DEF Sending
      <4> QED BY <1>2, <2>1, <2>2, <4>1, <4>2 DEF Orphaned
    <3> QED BY <3>2, <3>3
  <2> QED BY <2>3, <2>4
<1>11. CursorsCover'
  <2>1. (\A x \in 1..feed'.cursor : Has(x)') BY <1>1, <1>7, CoverStays DEF CursorsCover, Has, FeedTypes, Stored
  <2>2. (\A x \in 1..sweep.cursor : Has(x)') BY <1>1, <1>7, CoverStays DEF CursorsCover, Has, FeedTypes, Stored
  <2>3. sweep'.cursor \in {0, sweep.cursor} /\ sweep'.at \notin {"create", "cursor"} BY <1>3 DEF Feed!Resting, FeedTypes
  <2> QED BY <2>1, <2>2, <2>3 DEF CursorsCover, Has
<1> QED BY <1>6, <1>8, <1>9, <1>10, <1>11

LEMMA FeedStep == ASSUME Feed!FeedAssumption, FeedInv, [Feed!Next]_(Feed!vars) PROVE FeedInv'
<1>1. CASE UNCHANGED Feed!vars
  BY <1>1 DEF Feed!vars, FeedInv, FeedTypes, Stored, Handled, Tries, Orphaned, Sending, CursorsCover, Has
<1>2. CASE Feed!Next
  BY <1>2, OutsideStep, RunBegins, MoveStep, CreateStep, SendStep DEF Feed!Next, Feed!Sweep
<1> QED BY <1>1, <1>2

\* GameplayFeed: the variables keep their types; the attempts of a delivery stay bounded.
THEOREM FeedTypeOK == ASSUME Feed!FeedAssumption PROVE Feed!Spec => []Feed!TypeOK
<1>1. FeedInv => Feed!TypeOK
  BY DEF FeedInv, FeedTypes, Stored, Tries, Feed!TypeOK, Feed!Settled, Feed!FeedAssumption, Statuses, Places
<1> QED BY <1>1, InitFeed, FeedStep, PTL DEF Feed!Spec

\* GameplayFeed, runtime.ts: the cursor of a feed passes no event without a delivery,
\* unless a filter or a pause leaves it out, whatever dies between the two writes.
THEOREM FeedCursorCovers == ASSUME Feed!FeedAssumption PROVE Feed!Spec => []Feed!CursorCovers
<1>1. FeedInv => Feed!CursorCovers BY DEF FeedInv, CursorsCover, Has, Feed!CursorCovers
<1> QED BY <1>1, InitFeed, FeedStep, PTL DEF Feed!Spec
=============================================================================
