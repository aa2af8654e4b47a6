--------------------------- MODULE RadarBans_proofs ---------------------------
(***************************************************************************)
(* Whoever the radar bans stays on the game server of the offence, for any *)
(* players, services, offences, rebindings, commands and failures.         *)
(***************************************************************************)
EXTENDS RadarBans, TLAPS

\* The conjuncts of TypeOK, by who changes them.
Event == [status: Statuses, player: Players \union {None}, named: BOOLEAN, version: Nat,
          bound: Nat, home: Services \union {None}, attempts: 0..MaxAttempts]

Setting  == /\ zone \in [version: Nat, mode: {"off", "armed", "disarmed"}, live: BOOLEAN, allow: SUBSET Players]
            /\ binding \in [service: Services \union {None}, version: Nat]
Offended == event \in [Offences -> Event]
Registry == /\ ban \in [Rows -> BanRow]
            /\ ident \in [Rows -> Rows \union {None}]
            /\ fence \in [Rows -> [service: Services \union {None}, bound: Nat, valid: BOOLEAN]]
            /\ add \in [Rows -> Rows \union {None}] /\ rem \in [Rows -> BOOLEAN]
            /\ drift \in [Rows -> BOOLEAN]
Lists    == remote \in [Services -> SUBSET Rows]
Runtime  == auto \in [pc: {"idle", "claimed", "read", "answered"}, event: Offences \union {None}]
Worker   == work \in [pc: {"idle", "read", "call", "mark", "recheck"}, op: {"ADD", "REMOVE"},
                      row: Rows \union {None}, target: Rows \union {None}, found: BOOLEAN]
Reconciler == recon \in [pc: {"idle", "list", "rows"}, todo: SUBSET Snapshot, seen: SUBSET Rows]
Command  == cmd \in [pc: {"idle", "list", "commit"}, row: Rows \union {None},
                     service: Services \union {None}, bound: Nat, found: BOOLEAN]
Counted  == /\ ordered \in SUBSET Players
            /\ spent \in [saves: Nat, moves: Nat, commands: Nat, faults: Nat]

\* An event that is not settled has attempts left.
Trying == \A e \in Offences : event[e].status \notin Settled => event[e].attempts < MaxAttempts

Types == /\ Setting /\ Offended /\ Registry /\ Lists /\ Runtime /\ Worker /\ Reconciler /\ Command
         /\ Counted /\ Trying

\* The player was banned by a moderator, or for an offence on this service.
Entitled(s, p) == \/ p \in ordered
                  \/ \E e \in Offences : event[e].status = "APPLIED" /\ event[e].player = p /\ event[e].home = s

\* A version of the binding stands for one service.
Homes == \A e \in Offences : event[e].status # "NONE" =>
    /\ event[e].bound <= binding.version
    /\ event[e].bound = binding.version => event[e].home = binding.service

\* What the runtime has read was PROCESSING, and only a rebinding settles it meanwhile.
Judging ==
    /\ auto.pc # "idle" => auto.event \in Offences /\ event[auto.event].status # "NONE"
    /\ auto.pc = "read" => \/ event[auto.event].status = "PROCESSING"
                           \/ event[auto.event].bound < binding.version

\* A valid fence is of the service of an offence; an active ban without one is a moderator's.
Fences == \A r \in Rows :
    /\ fence[r] = NoFence \/ fence[r].service \in Services
    /\ fence[r].valid => Entitled(fence[r].service, r[1])
    /\ ban[r].active /\ fence[r] = NoFence => r[1] \in ordered

\* Row, stored identity, job and snapshot name one player; a service is compared with them.
RowsNamed == \A r \in Rows : /\ ident[r] # None => ident[r][1] = r[1]
                             /\ add[r] # None => add[r][1] = r[1]
Comparing == /\ \A x \in recon.todo : x.ident # None => x.ident[1] = x.row[1]
             /\ recon.pc # "idle" => binding.service \in Services
Named     == RowsNamed /\ Comparing

\* The execution has a job, and is about to put somebody on the list who belongs there.
Calling ==
    /\ work.pc # "idle" => work.row \in Rows
    /\ work.pc = "read" /\ work.op = "ADD" => add[work.row] # None
    /\ work.pc \in {"call", "mark", "recheck"} => work.target \in Rows /\ work.target[1] = work.row[1]
    /\ work.pc = "call" /\ work.op = "ADD" => Entitled(binding.service, work.row[1])

Targets == cmd.pc # "idle" => cmd.row \in Rows

Rules == Homes /\ Judging /\ Fences /\ Named /\ Calling /\ Targets
Inv   == Types /\ Rules /\ BanStaysHome

-----------------------------------------------------------------------------
(* Helpers *)

\* A settled offence keeps entitling whom it entitles.
AppliedKept == \A e \in Offences : event[e].status = "APPLIED" =>
    event'[e].status = "APPLIED" /\ event'[e].player = event[e].player /\ event'[e].home = event[e].home

\* Whoever is entitled stays so while orders are only added and offences only settled.
LEMMA EntitledKept ==
    ASSUME ordered \subseteq ordered', AppliedKept, NEW s, NEW p, Entitled(s, p)
    PROVE  Entitled(s, p)'
  BY DEF Entitled, AppliedKept

\* Whoever is on a list is entitled to it.
LEMMA HomeIsEntitled == BanStaysHome <=> \A s \in Services : \A i \in remote[s] : Entitled(s, i[1])
  BY DEF BanStaysHome, Entitled

\* The types are those of TypeOK.
LEMMA TypesAreTypeOK == Types => TypeOK
<1> SUFFICES ASSUME Types PROVE TypeOK
  OBVIOUS
<1>1. \A e \in Offences : event[e].status = "RETRY" => event[e].attempts < MaxAttempts
  BY DEF Types, Trying, Settled
<1> QED BY <1>1 DEF Types, Setting, Offended, Event, Registry, Lists, Runtime, Worker, Reconciler,
                    Command, Counted, TypeOK

\* Counters count.
LEMMA SpendTyped ==
    ASSUME Counted, NEW what \in {"saves", "moves", "commands", "faults"}, NEW bound, Spend(what, bound)
    PROVE  spent' \in [saves: Nat, moves: Nat, commands: Nat, faults: Nat]
  BY DEF Counted, Spend

\* A fault counts one more.
LEMMA FaultTyped ==
    ASSUME Counted, Fault
    PROVE  spent' \in [saves: Nat, moves: Nat, commands: Nat, faults: Nat]
  BY SpendTyped DEF Fault

\* Nobody at work: the states after a completion or a crash.
LEMMA IdleTyped ==
    /\ auto' = Idle => Runtime' /\ auto'.pc = "idle"
    /\ work' = NotWorking => Worker' /\ work'.pc = "idle"
    /\ recon' = NotReconciling => Reconciler' /\ recon'.todo = {} /\ recon'.pc = "idle"
    /\ cmd' = NoCommand => Command' /\ cmd'.pc = "idle"
<1>1. auto' = Idle => Runtime' /\ auto'.pc = "idle" BY DEF Idle, Runtime
<1>2. work' = NotWorking => Worker' /\ work'.pc = "idle" BY DEF NotWorking, Worker
<1>3. recon' = NotReconciling => Reconciler' /\ recon'.todo = {} /\ recon'.pc = "idle" BY DEF NotReconciling, Reconciler
<1>4. cmd' = NoCommand => Command' /\ cmd'.pc = "idle" BY DEF NoCommand, Command
<1> QED BY <1>1, <1>2, <1>3, <1>4

\* One offence goes on; where it happened and who did it stay.
Onward(e) ==
    /\ Offended' /\ Trying'
    /\ \A x \in Offences : x # e => event'[x] = event[x]
    /\ event[e].status # "NONE" /\ event'[e].status # "NONE"
    /\ event[e].status \in Settled => event'[e].status = event[e].status
    /\ event'[e].bound = event[e].bound /\ event'[e].player = event[e].player
    /\ event'[e].home = event[e].home

\* A status follows another that is open.
LEMMA BecomeOnward ==
    ASSUME Offended, Trying, NEW e \in Offences, NEW status \in Statuses \ {"NONE"}, Become(e, status),
           event[e].status # "NONE", event[e].status \in Settled => status = event[e].status
    PROVE  Onward(e) /\ event'[e].status = status
<1>1. event[e] \in Event BY DEF Offended
<1>2. event'[e] = [event[e] EXCEPT !.status = status] /\ \A x \in Offences : x # e => event'[x] = event[x]
  BY DEF Become, Offended
<1>3. /\ event'[e] \in Event /\ event'[e].status = status
      /\ event'[e].bound = event[e].bound /\ event'[e].player = event[e].player
      /\ event'[e].home = event[e].home /\ event'[e].attempts = event[e].attempts
  BY <1>1, <1>2 DEF Event
<1>4. Offended' BY <1>2, <1>3 DEF Offended, Become
<1>5. Trying' BY <1>2, <1>3 DEF Trying
<1> QED BY <1>2, <1>3, <1>4, <1>5 DEF Onward

\* One attempt more, or nothing.
LEMMA AttemptedOnward ==
    ASSUME Offended, Trying, NEW e \in Offences, Attempted(e), event[e].status # "NONE"
    PROVE  Onward(e)
<1>1. CASE event[e].status # "PROCESSING"
  <2>1. event' = event BY <1>1 DEF Attempted
  <2> QED BY <2>1 DEF Onward, Offended, Trying
<1>2. CASE event[e].status = "PROCESSING"
  <2> DEFINE n == event[e].attempts + 1
             status == IF n >= MaxAttempts THEN "FAILED" ELSE "RETRY"
  <2>1. event[e] \in Event /\ event[e].attempts \in Nat /\ event[e].attempts < MaxAttempts
    BY <1>2 DEF Offended, Event, Trying, Settled
  <2>2. n \in 0..MaxAttempts /\ status \in {"FAILED", "RETRY"} /\ (status = "RETRY" => n < MaxAttempts)
    BY <2>1, RadarBounds
  <2>3. event' = [event EXCEPT ![e] = [@ EXCEPT !.attempts = n, !.status = status]]
    BY <1>2 DEF Attempted
  <2> HIDE DEF n, status
  <2>4. event'[e] = [event[e] EXCEPT !.attempts = n, !.status = status]
        /\ \A x \in Offences : x # e => event'[x] = event[x]
    BY <2>3 DEF Offended
  <2>5. /\ event'[e] \in Event /\ event'[e].status = status /\ event'[e].attempts = n
        /\ event'[e].bound = event[e].bound /\ event'[e].player = event[e].player
        /\ event'[e].home = event[e].home
    BY <2>1, <2>2, <2>4 DEF Event, Statuses, Settled, Open
  <2>6. Offended' BY <2>3, <2>4, <2>5 DEF Offended
  <2>7. Trying' BY <2>2, <2>4, <2>5 DEF Trying, Settled
  <2> QED BY <1>2, <2>2, <2>4, <2>5, <2>6, <2>7 DEF Onward, Settled
<1> QED BY <1>1, <1>2

\* An offence that goes on keeps versions, homes and entitlements.
LEMMA OnwardKept ==
    ASSUME Homes, NEW e \in Offences, Onward(e), binding' = binding
    PROVE  Homes' /\ AppliedKept
  BY DEF Homes, Onward, AppliedKept, Settled

-----------------------------------------------------------------------------
(* The beginning *)

\* The variables have their types at the beginning.
LEMMA InitTyped == Init => Types
<1> SUFFICES ASSUME Init PROVE Types
  OBVIOUS
<1>1. Setting BY NoneIsNothing DEF Init, Setting
<1>2. Offended /\ Trying
  BY RadarBounds DEF Init, Offended, Trying, NoOffence, Event, Statuses
<1>3. Registry BY NoneIsNothing DEF Init, Registry, BanRow, NoFence
<1>4. Lists BY DEF Init, Lists
<1>5. Runtime /\ Worker /\ Reconciler /\ Command
  BY DEF Init, Runtime, Worker, Reconciler, Command, Idle, NotWorking, NotReconciling, NoCommand
<1>6. Counted BY DEF Init, Counted
<1> QED BY <1>1, <1>2, <1>3, <1>4, <1>5, <1>6 DEF Types

\* No offence, no ban, nobody on a list.
LEMMA InitInv == Init => Inv
<1> SUFFICES ASSUME Init PROVE Inv
  OBVIOUS
<1>1. Homes BY DEF Init, Homes, NoOffence
<1>2. Judging /\ Calling /\ Targets
  BY DEF Init, Judging, Calling, Targets, Idle, NotWorking, NoCommand
<1>3. Fences BY DEF Init, Fences, NoFence
<1>4. Named BY DEF Init, Named, RowsNamed, Comparing, NotReconciling
<1>5. BanStaysHome BY DEF Init, BanStaysHome
<1> QED BY <1>1, <1>2, <1>3, <1>4, <1>5, InitTyped DEF Inv, Rules

-----------------------------------------------------------------------------
(* The zone, the offences and the runtime before its decision *)

\* A step of the zone, of offences and of the runtime that leaves bans alone.
LEMMA EventsKept ==
    ASSUME Inv, Setting', Offended', Trying', Runtime', Homes', Judging', AppliedKept, Counted',
           UNCHANGED <<binding, bans, remote, work, recon, cmd, ordered>>
    PROVE  Inv'
<1>1. \A s, p : Entitled(s, p) => Entitled(s, p)' BY EntitledKept
<1>2. Registry' /\ Lists' /\ Worker' /\ Reconciler' /\ Command'
  BY DEF Inv, Types, bans, Registry, Lists, Worker, Reconciler, Command
<1>3. Fences' BY <1>1 DEF Inv, Rules, Fences, bans
<1>4. Named' /\ Targets' BY DEF Inv, Rules, Named, RowsNamed, Comparing, Targets, bans
<1>5. Calling' BY <1>1 DEF Inv, Rules, Calling, bans
<1>6. BanStaysHome'
  <2>1. \A s \in Services : \A i \in remote[s] : Entitled(s, i[1]) BY HomeIsEntitled DEF Inv
  <2>2. \A s \in Services : \A i \in remote'[s] : Entitled(s, i[1])' BY <1>1, <2>1
  <2> QED BY <2>2 DEF BanStaysHome, Entitled
<1> QED BY <1>2, <1>3, <1>4, <1>5, <1>6 DEF Inv, Types, Rules

\* The zone changes.
LEMMA ZoneKept ==
    ASSUME Inv, SaveZone \/ SwitchMap
    PROVE  Inv'
<1>1. UNCHANGED <<binding, event, bans, remote, runs, ordered>> BY DEF SaveZone, SwitchMap
<1>2. Counted'
  <2>1. spent' \in [saves: Nat, moves: Nat, commands: Nat, faults: Nat]
    BY SpendTyped DEF SaveZone, SwitchMap, Inv, Types
  <2> QED BY <1>1, <2>1 DEF Inv, Types, Counted
<1>3. Setting'
  <2>1. CASE SaveZone
    <3>1. zone.version + 1 \in Nat BY DEF Inv, Types, Setting
    <3>2. zone' \in [version: {zone.version + 1}, mode: {"off", "armed"}, live: BOOLEAN, allow: SUBSET Players]
      BY <2>1 DEF SaveZone
    <3>3. zone' \in [version: Nat, mode: {"off", "armed", "disarmed"}, live: BOOLEAN, allow: SUBSET Players]
      BY <3>1, <3>2
    <3> QED BY <1>1, <3>3 DEF Inv, Types, Setting
  <2>2. CASE SwitchMap
    <3>1. PICK n \in Nat, live \in BOOLEAN : zone' = [zone EXCEPT !.version = n, !.live = live]
      <4>1. zone.version + 1 \in Nat /\ (~zone.live) \in BOOLEAN BY DEF Inv, Types, Setting
      <4> QED BY <2>2, <4>1, Zenon DEF SwitchMap
    <3> QED BY <1>1, <3>1 DEF Inv, Types, Setting
  <2> QED BY <2>1, <2>2
<1>4. Offended' /\ Trying' /\ Runtime' /\ Homes' /\ Judging' /\ AppliedKept
  BY <1>1 DEF runs, Inv, Types, Rules, Offended, Trying, Runtime, Homes, Judging, AppliedKept
<1> QED BY <1>1, <1>2, <1>3, <1>4, EventsKept DEF runs

\* The log tells of an offence on the bound service.
LEMMA OffendKept ==
    ASSUME Inv, NEW e \in Offences, NEW p \in Players, Offend(e, p)
    PROVE  Inv'
<1>1. PICK named \in BOOLEAN :
        event' = [event EXCEPT ![e] = [status |-> "STORED", player |-> p, named |-> named,
                                       version |-> zone.version, bound |-> binding.version,
                                       home |-> binding.service, attempts |-> 0]]
  BY DEF Offend
<1> DEFINE new == [status |-> "STORED", player |-> p, named |-> named,
                   version |-> zone.version, bound |-> binding.version,
                   home |-> binding.service, attempts |-> 0]
<1>2. new \in Event /\ zone.version \in Nat /\ binding.version \in Nat
  BY RadarBounds DEF Inv, Types, Setting, Event, Statuses
<1>3. event'[e] = new /\ \A x \in Offences : x # e => event'[x] = event[x]
  BY <1>1 DEF Inv, Types, Offended
<1>4. Offended' BY <1>1, <1>2, <1>3 DEF Inv, Types, Offended
<1>5. Trying' /\ Homes'
  BY <1>2, <1>3, RadarBounds DEF Offend, Inv, Types, Rules, Trying, Homes
<1>6. Judging' /\ AppliedKept BY <1>3 DEF Offend, runs, Inv, Rules, Judging, AppliedKept
<1>7. Setting' /\ Runtime' /\ Counted' BY DEF Offend, runs, Inv, Types, Setting, Runtime, Counted
<1> QED BY <1>4, <1>5, <1>6, <1>7, EventsKept DEF Offend, runs

\* The detection and the trigger look at it; nobody judges it yet.
LEMMA DetectKept ==
    ASSUME Inv, NEW e \in Offences, Detect(e) \/ Insert(e)
    PROVE  Inv'
<1>1. /\ event[e].status \in {"STORED", "SEEN"}
      /\ UNCHANGED <<zone, binding, bans, remote, runs, ordered, spent>>
  BY DEF Detect, Insert
<1>2. PICK status \in Statuses \ {"NONE"} : Become(e, status)
  BY DEF Detect, Insert, Statuses, Settled, Open
<1>3. Onward(e) BY <1>1, <1>2, BecomeOnward DEF Inv, Types, Settled
<1>4. Homes' /\ AppliedKept BY <1>1, <1>3, OnwardKept DEF Inv, Rules
<1>5. Judging' BY <1>1, <1>3 DEF runs, Onward, Inv, Rules, Judging
<1>6. Setting' /\ Runtime' /\ Counted' BY <1>1 DEF runs, Inv, Types, Setting, Runtime, Counted
<1> QED BY <1>1, <1>3, <1>4, <1>5, <1>6, EventsKept DEF runs, Onward

\* The runtime claims an event and reads it.
LEMMA ClaimKept ==
    ASSUME Inv, (\E e \in Offences : Claim(e)) \/ ReadEvent \/ AutoDone
    PROVE  Inv'
<1>1. ASSUME NEW e \in Offences, Claim(e) PROVE Inv'
  <2>1. Onward(e) /\ event'[e].status = "PROCESSING"
    BY <1>1, BecomeOnward DEF Claim, Inv, Types, Settled, Statuses, Open
  <2>2. Homes' /\ AppliedKept BY <1>1, <2>1, OnwardKept DEF Claim, Inv, Rules
  <2>3. Runtime' /\ auto'.pc = "claimed" /\ auto'.event = e BY <1>1 DEF Claim, Runtime
  <2>4. Judging' BY <2>1, <2>3 DEF Judging
  <2>5. Setting' /\ Counted' BY <1>1 DEF Claim, Inv, Types, Setting, Counted
  <2> QED BY <1>1, <2>1, <2>2, <2>3, <2>4, <2>5, EventsKept DEF Claim, Onward
<1>2. CASE ReadEvent \/ AutoDone
  <2>1. UNCHANGED <<zone, binding, event, bans, remote, work, recon, cmd, ordered, spent>>
    BY <1>2 DEF ReadEvent, AutoDone
  <2>2. Setting' /\ Offended' /\ Trying' /\ Homes' /\ AppliedKept /\ Counted'
    BY <2>1 DEF Inv, Types, Rules, Setting, Offended, Trying, Homes, AppliedKept, Counted
  <2>3. Runtime' /\ Judging'
    <3>1. CASE auto' = Idle BY <3>1, IdleTyped DEF Judging
    <3>2. CASE /\ auto.pc = "claimed" /\ event[auto.event].status = "PROCESSING"
               /\ auto' = [auto EXCEPT !.pc = "read"]
      BY <2>1, <3>2 DEF Inv, Types, Rules, Runtime, Judging
    <3> QED BY <1>2, <3>1, <3>2 DEF ReadEvent, AutoDone
  <2> QED BY <2>1, <2>2, <2>3, EventsKept
<1> QED BY <1>1, <1>2

\* A failure, or the recovery of an orphaned event, counts an attempt.
LEMMA AttemptKept ==
    ASSUME Inv, AutoFails \/ \E e \in Offences : Recover(e)
    PROVE  Inv'
<1>1. CASE AutoFails
  <2> DEFINE e == auto.event
  <2>1. e \in Offences /\ event[e].status # "NONE" BY <1>1 DEF AutoFails, Inv, Rules, Judging
  <2> HIDE DEF e
  <2>2. Onward(e) BY <1>1, <2>1, AttemptedOnward DEF AutoFails, Inv, Types, e
  <2>3. Homes' /\ AppliedKept BY <1>1, <2>1, <2>2, OnwardKept DEF AutoFails, Inv, Rules
  <2>4. Runtime' /\ Judging' BY <1>1, IdleTyped DEF AutoFails, Judging
  <2>5. Setting' /\ Counted' BY <1>1, FaultTyped DEF AutoFails, Inv, Types, Setting, Counted
  <2> QED BY <1>1, <2>2, <2>3, <2>4, <2>5, EventsKept DEF AutoFails, Onward
<1>2. ASSUME NEW e \in Offences, Recover(e) PROVE Inv'
  <2>1. event[e].status = "PROCESSING" /\ auto.event # e BY <1>2 DEF Recover, Orphaned
  <2>2. Onward(e) BY <1>2, <2>1, AttemptedOnward DEF Recover, Inv, Types
  <2>3. Homes' /\ AppliedKept BY <1>2, <2>2, OnwardKept DEF Recover, Inv, Rules
  <2>4. Judging' BY <1>2, <2>1, <2>2 DEF Recover, runs, Onward, Inv, Rules, Judging
  <2>5. Setting' /\ Runtime' /\ Counted' BY <1>2 DEF Recover, runs, Inv, Types, Setting, Runtime, Counted
  <2> QED BY <1>2, <2>2, <2>3, <2>4, <2>5, EventsKept DEF Recover, runs, Onward
<1> QED BY <1>1, <1>2

-----------------------------------------------------------------------------
(* Bans and jobs *)

\* A job that is added keeps the player of its row, and takes no job away.
LEMMA EnqueueAddNamed ==
    ASSUME Registry, RowsNamed, NEW r \in Rows, NEW i \in Rows, i[1] = r[1], EnqueueAdd(r, i)
    PROVE  /\ ident' \in [Rows -> Rows \union {None}] /\ add' \in [Rows -> Rows \union {None}]
           /\ RowsNamed' /\ \A x \in Rows : add[x] # None => add'[x] # None
<1>1. i # None BY NoneIsNothing
<1>2. /\ ident' = [ident EXCEPT ![r] = i]
      /\ add' = [add EXCEPT ![r] = IF add[r] = None THEN i ELSE add[r]]
  BY DEF EnqueueAdd
<1>3. ident' \in [Rows -> Rows \union {None}] /\ add' \in [Rows -> Rows \union {None}]
  BY <1>2 DEF Registry
<1>4. \A x \in Rows : /\ ident'[x] = IF x = r THEN i ELSE ident[x]
                      /\ add'[x] = IF x = r /\ add[r] = None THEN i ELSE add[x]
  BY <1>2 DEF Registry
<1> QED BY <1>1, <1>3, <1>4 DEF RowsNamed

\* A step of bans, jobs, lists and runs that leaves offences and binding alone.
LEMMA BansKept ==
    ASSUME Inv, UNCHANGED <<zone, binding, event, auto>>,
           Registry', Lists', Worker', Reconciler', Command', Counted',
           Fences', Named', Calling', Targets', BanStaysHome'
    PROVE  Inv'
  BY DEF Inv, Types, Rules, Setting, Offended, Trying, Runtime, Homes, Judging

\* While nobody is added to a list and no entitlement ends, everyone stays at home.
LEMMA ListsKept ==
    ASSUME Inv, \A s, p : Entitled(s, p) => Entitled(s, p)',
           \A s \in Services : \A i \in remote'[s] : i \in remote[s] \/ Entitled(s, i[1])
    PROVE  BanStaysHome'
<1>1. \A s \in Services : \A i \in remote[s] : Entitled(s, i[1]) BY HomeIsEntitled DEF Inv
<1>2. \A s \in Services : \A i \in remote'[s] : Entitled(s, i[1])' BY <1>1
<1> QED BY <1>2 DEF BanStaysHome, Entitled

\* Nothing takes away an entitlement while the offences stay.
LEMMA StillEntitled ==
    ASSUME ordered \subseteq ordered', event' = event, NEW s, NEW p, Entitled(s, p)
    PROVE  Entitled(s, p)'
  BY EntitledKept DEF AppliedKept

\* A step of the runs alone.
LEMMA RunsKept ==
    ASSUME Inv, UNCHANGED <<zone, binding, event, bans, remote, auto, ordered>>,
           Worker', Reconciler', Command', Counted', Comparing', Calling', Targets'
    PROVE  Inv'
<1>1. \A s, p : Entitled(s, p) => Entitled(s, p)' BY StillEntitled
<1>2. Registry' /\ Lists' /\ RowsNamed'
  BY DEF bans, Inv, Types, Rules, Named, Registry, Lists, RowsNamed
<1>3. Fences' BY <1>1 DEF bans, Inv, Rules, Fences
<1>4. BanStaysHome' BY <1>1, ListsKept
<1> QED BY <1>2, <1>3, <1>4, BansKept DEF Named

-----------------------------------------------------------------------------
(* The runtime's decision *)

\* What the transaction writes of a ban that is justified: row, fence and job of the
\* player, on the service of the offence.
LEMMA DecisionFits ==
    ASSUME Inv, NEW e \in Offences, NEW p, p = event[e].player, NEW s, s = binding.service,
           Justified(e), Settle(e, "APPLIED"), UNCHANGED ordered,
           event[e].status = "PROCESSING" \/ event[e].bound < binding.version
    PROVE  s \in Services /\ Entitled(s, p)'
<1>1. event[e] \in Event /\ event[e].bound \in Nat /\ binding.version \in Nat /\ binding.service \in Services \union {None}
  BY DEF Inv, Types, Offended, Event, Setting
<1>2. event[e].bound = binding.version /\ s \in Services BY <1>1 DEF Justified
<1>3. event[e].status = "PROCESSING" /\ event[e].home = s
  BY <1>1, <1>2 DEF Inv, Rules, Homes
<1>4. event' = [event EXCEPT ![e].status = "APPLIED"] BY <1>3 DEF Settle, Become
<1>5. event'[e].status = "APPLIED" /\ event'[e].home = s /\ event'[e].player = p
  BY <1>1, <1>3, <1>4 DEF Inv, Types, Offended, Event
<1> QED BY <1>2, <1>5 DEF Entitled

\* Bans, fences and jobs after a decision on a row.
LEMMA DecisionKept ==
    ASSUME Inv, NEW r, NEW s \in Services, NEW n \in Nat, NEW named \in BOOLEAN,
           r[2] = "guid", \A x \in Rows : x = r => Entitled(s, x[1])',
           \A q, p : Entitled(q, p) => Entitled(q, p)', ordered' = ordered, rem' = rem, drift' = drift,
           ban' = [ban EXCEPT ![r] = [active |-> TRUE, applied |-> FALSE, byName |-> named]],
           fence' = [fence EXCEPT ![r] = [service |-> s, bound |-> n, valid |-> TRUE]],
           EnqueueAdd(r, IF named THEN NameOf(r[1]) ELSE r)
    PROVE  Registry' /\ Fences' /\ RowsNamed' /\ \A x \in Rows : add[x] # None => add'[x] # None
<1> DEFINE row == [active |-> TRUE, applied |-> FALSE, byName |-> named]
           new == [service |-> s, bound |-> n, valid |-> TRUE]
<1>1. row \in BanRow /\ new \in [service: Services \union {None}, bound: Nat, valid: BOOLEAN]
      /\ new.service = s /\ new # NoFence
  BY NoneIsNothing DEF BanRow, NoFence
<1>2. /\ ban' \in [Rows -> BanRow]
      /\ fence' \in [Rows -> [service: Services \union {None}, bound: Nat, valid: BOOLEAN]]
      /\ \A x \in Rows : x # r => fence'[x] = fence[x] /\ ban'[x] = ban[x]
      /\ \A x \in Rows : x = r => fence'[x] = new
  BY <1>1 DEF Inv, Types, Registry
<1>3. /\ ident' \in [Rows -> Rows \union {None}] /\ add' \in [Rows -> Rows \union {None}]
      /\ RowsNamed' /\ \A x \in Rows : add[x] # None => add'[x] # None
  <2>1. CASE r \in Rows
    <3>1. NameOf(r[1]) \in Rows /\ NameOf(r[1])[1] = r[1] BY <2>1 DEF NameOf, Rows
    <3> QED BY <2>1, <3>1, EnqueueAddNamed DEF Inv, Types, Rules, Named
  <2>2. CASE r \notin Rows
    <3>1. ident' = ident /\ add' = add BY <2>2 DEF EnqueueAdd, Inv, Types, Registry
    <3> QED BY <3>1 DEF Inv, Types, Rules, Named, Registry, RowsNamed
  <2> QED BY <2>1, <2>2
<1>4. Registry' BY <1>2, <1>3 DEF Inv, Types, Registry
<1> HIDE DEF new
<1>5. ASSUME NEW x \in Rows
      PROVE  /\ fence'[x] = NoFence \/ fence'[x].service \in Services
             /\ fence'[x].valid => Entitled(fence[x].service, x[1])'
             /\ ban'[x].active /\ fence'[x] = NoFence => x[1] \in ordered'
  <2>1. CASE x = r
    <3>1. fence'[x] = new BY <1>2, <2>1
    <3>2. Entitled(s, x[1])' BY <2>1
    <3>3. Entitled(fence[x].service, x[1])' BY <1>1, <3>1, <3>2 DEF Entitled
    <3> QED BY <1>1, <3>1, <3>3
  <2>2. CASE x # r
    <3>1. fence'[x] = fence[x] /\ ban'[x] = ban[x] BY <1>2, <2>2
    <3>2. PICK q : q = fence[x].service OBVIOUS
    <3>3. fence[x].valid => Entitled(q, x[1])' BY <3>2 DEF Inv, Rules, Fences
    <3>4. fence[x].valid => Entitled(fence[x].service, x[1])' BY <3>1, <3>2, <3>3 DEF Entitled
    <3> QED BY <3>1, <3>4 DEF Inv, Rules, Fences
  <2> QED BY <2>1, <2>2
<1>6. Fences' BY <1>5 DEF Fences
<1> QED BY <1>3, <1>4, <1>6

\* The offence is judged again, with nothing that changed since.
LEMMA DecideKept ==
    ASSUME Inv, Decide
    PROVE  Inv'
<1>1. PICK e \in Offences : e = auto.event BY DEF Decide, Inv, Rules, Judging
<1>2. /\ event[e].status # "NONE"
      /\ event[e].status = "PROCESSING" \/ event[e].bound < binding.version
  BY <1>1 DEF Decide, Inv, Rules, Judging
<1>3. PICK status \in {"SKIPPED", "APPLIED"} : Settle(e, status)
  BY <1>1 DEF Decide
<1> DEFINE next == IF event[e].status = "PROCESSING" THEN status ELSE event[e].status
<1>4. event[e].status \in Statuses BY DEF Inv, Types, Offended, Event
<1>5. next \in Statuses \ {"NONE"} /\ (event[e].status \in Settled => next = event[e].status)
  BY <1>2, <1>4 DEF Statuses, Settled
<1>6. Onward(e)
  <2>1. Become(e, next) BY <1>3 DEF Settle
  <2> HIDE DEF next
  <2> QED BY <1>2, <1>5, <2>1, BecomeOnward DEF Inv, Types
<1>7. UNCHANGED <<zone, binding, rem, drift, remote, work, recon, cmd, ordered, spent>> BY DEF Decide
<1>8. Homes' /\ AppliedKept BY <1>6, <1>7, OnwardKept DEF Inv, Rules
<1>9. \A s, p : Entitled(s, p) => Entitled(s, p)' BY <1>7, <1>8, EntitledKept
<1>10. Runtime' /\ auto'.pc = "answered" /\ auto'.event = e
  BY <1>1 DEF Decide, Inv, Types, Runtime
<1>11. Judging' BY <1>6, <1>10 DEF Onward, Judging
<1>12. Setting' /\ Lists' /\ Worker' /\ Reconciler' /\ Command' /\ Counted' /\ Comparing' /\ Targets'
  BY <1>7 DEF Inv, Types, Rules, Named, Setting, Lists, Worker, Reconciler, Command, Counted, Comparing, Targets
<1>13. BanStaysHome' BY <1>7, <1>9, ListsKept
<1>14. Registry' /\ Fences' /\ RowsNamed' /\ \A x \in Rows : add[x] # None => add'[x] # None
  <2>1. CASE UNCHANGED <<ban, fence, ident, add>>
    <3>1. Registry' /\ RowsNamed' BY <1>7, <2>1 DEF Inv, Types, Rules, Named, Registry, RowsNamed
    <3>2. Fences' BY <1>7, <1>9, <2>1 DEF Inv, Rules, Fences
    <3> QED BY <2>1, <3>1, <3>2
  <2>2. CASE ~UNCHANGED <<ban, fence, ident, add>>
    <3>1. PICK p, s, n, named : p = event[e].player /\ s = binding.service /\ n = binding.version /\ named = event[e].named
      OBVIOUS
    <3> DEFINE r == <<p, "guid">>
    <3>2. /\ Justified(e) /\ Settle(e, "APPLIED")
          /\ ban' = [ban EXCEPT ![r] = [active |-> TRUE, applied |-> FALSE, byName |-> named]]
          /\ fence' = [fence EXCEPT ![r] = [service |-> s, bound |-> n, valid |-> TRUE]]
          /\ EnqueueAdd(r, IF named THEN NameOf(r[1]) ELSE r)
      BY <1>1, <2>2, <3>1 DEF Decide
    <3>3. s \in Services /\ Entitled(s, p)' BY <1>2, <1>7, <3>1, <3>2, DecisionFits
    <3>4. n \in Nat /\ named \in BOOLEAN BY <3>1 DEF Inv, Types, Setting, Offended, Event
    <3>5. r[1] = p /\ r[2] = "guid" OBVIOUS
    <3> HIDE DEF r
    <3> QED BY <1>7, <1>9, <3>2, <3>3, <3>4, <3>5, DecisionKept
  <2> QED BY <2>1, <2>2
<1>15. Calling' BY <1>7, <1>9, <1>14 DEF Inv, Rules, Calling
<1> QED BY <1>6, <1>8, <1>10, <1>11, <1>12, <1>13, <1>14, <1>15 DEF Onward, Inv, Types, Rules, Named

-----------------------------------------------------------------------------
(* The worker *)

\* A job begins.
LEMMA TakeKept ==
    ASSUME Inv, NEW r \in Rows, NEW op \in {"ADD", "REMOVE"}, Take(r, op)
    PROVE  Inv'
<1>1. UNCHANGED <<zone, binding, event, bans, remote, auto, recon, cmd, ordered, spent>> BY DEF Take
<1>2. Worker' /\ work'.pc = "read" /\ work'.op = op /\ work'.row = r
  BY NoneIsNothing DEF Take, NotWorking, Worker
<1>3. Calling' BY <1>1, <1>2 DEF Take, bans, Calling
<1>4. Reconciler' /\ Command' /\ Counted' /\ Comparing' /\ Targets'
  BY <1>1 DEF Inv, Types, Rules, Named, Reconciler, Command, Counted, Comparing, Targets
<1> QED BY <1>1, <1>2, <1>3, <1>4, RunsKept

\* A job that ends leaves the players of the others.
LEMMA JobEndsNamed ==
    ASSUME Inv, JobEnds
    PROVE  /\ add' \in [Rows -> Rows \union {None}] /\ rem' \in [Rows -> BOOLEAN]
           /\ \A r \in Rows : add'[r] # None => add'[r] = add[r]
<1>1. CASE work.op = "ADD"
  <2>1. add' = [add EXCEPT ![work.row] = None] /\ rem' = rem BY <1>1 DEF JobEnds
  <2> QED BY <2>1 DEF Inv, Types, Registry
<1>2. CASE work.op # "ADD"
  <2>1. rem' = [rem EXCEPT ![work.row] = FALSE] /\ add' = add BY <1>2 DEF JobEnds
  <2> QED BY <2>1 DEF Inv, Types, Registry
<1> QED BY <1>1, <1>2

\* A step of the worker, which leaves rows, fences and identities alone.
LEMMA WorkKept ==
    ASSUME Inv, UNCHANGED <<zone, binding, event, auto, ban, ident, fence, drift, recon, cmd, ordered>>,
           add' \in [Rows -> Rows \union {None}], rem' \in [Rows -> BOOLEAN],
           \A r \in Rows : add'[r] # None => add'[r] = add[r],
           Worker', Calling', Lists', Counted',
           \A s \in Services : \A i \in remote'[s] : i \in remote[s] \/ Entitled(s, i[1])
    PROVE  Inv'
<1>1. \A s, p : Entitled(s, p) => Entitled(s, p)' BY StillEntitled
<1>2. Registry' /\ RowsNamed' BY DEF Inv, Types, Rules, Named, Registry, RowsNamed
<1>3. Fences' BY <1>1 DEF Inv, Rules, Fences
<1>4. Reconciler' /\ Command' /\ Comparing' /\ Targets'
  BY DEF Inv, Types, Rules, Named, Reconciler, Command, Comparing, Targets
<1>5. BanStaysHome' BY <1>1, ListsKept
<1> QED BY <1>2, <1>3, <1>4, <1>5, BansKept DEF Named

\* The fence lets an ADD pass to the service of the offence only.
LEMMA ReadBanKept ==
    ASSUME Inv, ReadBan
    PROVE  Inv'
<1>1. PICK r \in Rows : r = work.row BY DEF ReadBan, Inv, Rules, Calling
<1>2. UNCHANGED <<zone, binding, event, ban, ident, fence, drift, remote, auto, recon, cmd, ordered, spent>>
  BY DEF ReadBan
<1>3. Lists' /\ Counted' BY <1>2 DEF Inv, Types, Lists, Counted
<1>4. CASE work' = NotWorking /\ JobEnds
  <2>1. Worker' /\ Calling' BY <1>4, IdleTyped DEF Calling
  <2> QED BY <1>2, <1>3, <1>4, <2>1, JobEndsNamed, WorkKept
<1>5. CASE ~(work' = NotWorking /\ JobEnds)
  <2>1. PICK target : /\ work' = [work EXCEPT !.pc = "call", !.target = target]
                      /\ target = IF work.op = "ADD" THEN add[r] ELSE Listed(r, ban[r].byName, ident[r])
    BY <1>1, <1>5 DEF ReadBan
  <2>2. /\ UNCHANGED <<add, rem>>
        /\ work.op = "ADD" => ~Rejected(r) /\ ban[r].active
    BY <1>1, <1>5 DEF ReadBan
  <2>3. target \in Rows /\ target[1] = r[1]
    <3>1. CASE work.op = "ADD"
      <4>1. target = add[r] /\ add[r] # None BY <1>1, <2>1, <3>1 DEF ReadBan, Inv, Rules, Calling
      <4> QED BY <4>1 DEF Inv, Types, Rules, Named, Registry, RowsNamed
    <3>2. CASE work.op # "ADD"
      <4>1. target = r \/ (target = ident[r] /\ ident[r] # None) BY <2>1, <3>2 DEF Listed
      <4> QED BY <4>1 DEF Inv, Types, Rules, Named, Registry, RowsNamed
    <3> QED BY <3>1, <3>2
  <2>4. /\ Worker' /\ work'.pc = "call" /\ work'.op = work.op /\ work'.row = work.row
        /\ work'.target = target
    BY <2>1, <2>3 DEF Inv, Types, Worker
  <2>5. work.op = "ADD" => Entitled(binding.service, r[1])
    <3> SUFFICES ASSUME work.op = "ADD" PROVE Entitled(binding.service, r[1])
      OBVIOUS
    <3>1. CASE fence[r] = NoFence BY <2>2, <3>1 DEF Inv, Rules, Fences, Entitled
    <3>2. CASE fence[r] # NoFence
      <4>1. fence[r].service = binding.service /\ fence[r].valid BY <2>2, <3>2 DEF Rejected
      <4> QED BY <4>1 DEF Inv, Rules, Fences
    <3> QED BY <3>1, <3>2
  <2>6. Calling'
    <3>1. work'.op = "ADD" => Entitled(binding.service, work.row[1])'
      BY <1>1, <1>2, <2>4, <2>5 DEF Entitled
    <3> QED BY <1>1, <2>3, <2>4, <3>1 DEF Calling
  <2>7. add' \in [Rows -> Rows \union {None}] /\ rem' \in [Rows -> BOOLEAN]
    BY <2>2 DEF Inv, Types, Registry
  <2> QED BY <1>2, <1>3, <2>2, <2>4, <2>6, <2>7, WorkKept
<1> QED BY <1>4, <1>5

\* The call adds one who is entitled, or takes somebody off.
LEMMA ChangedFits ==
    ASSUME Inv, work.pc = "call", remote' = Changed
    PROVE  Lists' /\ \A s \in Services : \A i \in remote'[s] : i \in remote[s] \/ Entitled(s, i[1])
<1>1. work.target \in Rows /\ work.target[1] = work.row[1] BY DEF Inv, Rules, Calling
<1>2. CASE work.op = "ADD"
  <2>1. remote' = [remote EXCEPT ![binding.service] = @ \union {work.target}] BY <1>2 DEF Changed
  <2>2. Lists' BY <1>1, <2>1 DEF Inv, Types, Lists
  <2>3. Entitled(binding.service, work.target[1]) BY <1>1, <1>2 DEF Inv, Rules, Calling
  <2>4. \A s \in Services : \A i \in remote'[s] : i \in remote[s] \/ (i = work.target /\ s = binding.service)
    BY <2>1 DEF Inv, Types, Lists
  <2> QED BY <2>2, <2>3, <2>4
<1>3. CASE work.op # "ADD"
  <2>1. remote' = [remote EXCEPT ![binding.service] = @ \ {work.target}] BY <1>3 DEF Changed
  <2> QED BY <2>1 DEF Inv, Types, Lists
<1> QED BY <1>2, <1>3

\* The remote call of the worker puts nobody on the list of the service who does not belong there.
LEMMA CallKept ==
    ASSUME Inv, Call
    PROVE  Inv'
<1>1. PICK found \in BOOLEAN : work' = [work EXCEPT !.pc = "mark", !.found = found]
  <2>1. (work.target \in remote[binding.service]) \in BOOLEAN OBVIOUS
  <2> QED BY <2>1, Zenon DEF Call
<1>2. Worker' /\ work'.pc = "mark" /\ work'.row = work.row /\ work'.target = work.target
  BY <1>1 DEF Inv, Types, Worker
<1>3. Calling' BY <1>2 DEF Call, Inv, Rules, Calling
<1>4. UNCHANGED <<zone, binding, event, auto, ban, ident, fence, add, rem, drift, recon, cmd, ordered, spent>>
  BY DEF Call, bans
<1>5. Lists' /\ \A s \in Services : \A i \in remote'[s] : i \in remote[s] \/ Entitled(s, i[1])
  BY ChangedFits DEF Call
<1>6. add' \in [Rows -> Rows \union {None}] /\ rem' \in [Rows -> BOOLEAN] /\ Counted'
  BY <1>4 DEF Inv, Types, Registry, Counted
<1> QED BY <1>2, <1>3, <1>4, <1>5, <1>6, WorkKept

\* A call that throws may have taken effect, and its job may be over.
LEMMA WorkFailsKept ==
    ASSUME Inv, WorkFails
    PROVE  Inv'
<1>1. UNCHANGED <<zone, binding, event, auto, ban, ident, fence, drift, recon, cmd, ordered>>
  BY DEF WorkFails
<1>2. Worker' /\ Calling' BY IdleTyped DEF WorkFails, Calling
<1>3. Counted' BY <1>1, FaultTyped DEF WorkFails, Inv, Types, Counted
<1>4. Lists' /\ \A s \in Services : \A i \in remote'[s] : i \in remote[s] \/ Entitled(s, i[1])
  <2>1. CASE remote' = remote BY <2>1 DEF Inv, Types, Lists
  <2>2. CASE work.pc = "call" /\ remote' = Changed BY <2>2, ChangedFits
  <2> QED BY <2>1, <2>2 DEF WorkFails
<1>5. /\ add' \in [Rows -> Rows \union {None}] /\ rem' \in [Rows -> BOOLEAN]
      /\ \A r \in Rows : add'[r] # None => add'[r] = add[r]
  <2>1. CASE JobEnds BY <2>1, JobEndsNamed
  <2>2. CASE UNCHANGED <<add, rem>> BY <2>2 DEF Inv, Types, Registry
  <2> QED BY <2>1, <2>2 DEF WorkFails
<1> QED BY <1>1, <1>2, <1>3, <1>4, <1>5, WorkKept

\* The ban is confirmed.
LEMMA MarkAppliedKept ==
    ASSUME Inv, MarkApplied
    PROVE  Inv'
<1>1. UNCHANGED <<zone, binding, event, ident, fence, add, rem, drift, remote, auto, recon, cmd, ordered, spent>>
  BY DEF MarkApplied
<1>2. PICK applied \in BOOLEAN : ban' = [ban EXCEPT ![work.row].applied = applied]
  <2>1. (work.op = "ADD") \in BOOLEAN OBVIOUS
  <2> QED BY <2>1, Zenon DEF MarkApplied
<1>3. Registry' /\ \A r \in Rows : ban'[r].active = ban[r].active
  BY <1>1, <1>2 DEF Inv, Types, Registry, BanRow
<1>4. Worker' /\ work'.pc = "recheck" /\ work'.row = work.row /\ work'.target = work.target
  BY DEF MarkApplied, Inv, Types, Worker
<1>5. \A s, p : Entitled(s, p) => Entitled(s, p)' BY <1>1, StillEntitled
<1>6. Fences' BY <1>1, <1>3, <1>5 DEF Inv, Rules, Fences
<1>7. Calling' BY <1>4 DEF MarkApplied, Inv, Rules, Calling
<1>8. Named' /\ Targets' /\ Lists' /\ Reconciler' /\ Command' /\ Counted'
  BY <1>1 DEF Inv, Types, Rules, Named, RowsNamed, Comparing, Targets, Lists, Reconciler, Command, Counted
<1>9. BanStaysHome' BY <1>1, <1>5, ListsKept
<1> QED BY <1>1, <1>3, <1>4, <1>6, <1>7, <1>8, <1>9, BansKept

\* The row is read again; a REMOVE may give back what it took off.
LEMMA RecheckKept ==
    ASSUME Inv, Recheck
    PROVE  Inv'
<1>1. UNCHANGED <<zone, binding, event, ban, fence, drift, remote, auto, recon, cmd, ordered, spent>>
  BY DEF Recheck
<1>2. PICK r \in Rows : r = work.row BY DEF Recheck, Inv, Rules, Calling
<1>3. PICK target \in Rows : target = work.target /\ target[1] = r[1]
  BY <1>2 DEF Recheck, Inv, Rules, Calling
<1>4. /\ ident' \in [Rows -> Rows \union {None}] /\ add' \in [Rows -> Rows \union {None}]
      /\ RowsNamed' /\ rem' \in [Rows -> BOOLEAN]
  <2>1. CASE work.op = "ADD"
    <3>1. /\ add' = [add EXCEPT ![r] = None] /\ ident' = ident
          /\ rem' = [rem EXCEPT ![r] = @ \/ ~ban[r].active]
      BY <1>2, <2>1 DEF Recheck
    <3> QED BY <3>1 DEF Inv, Types, Rules, Named, Registry, RowsNamed
  <2>2. CASE work.op # "ADD" /\ UNCHANGED <<ident, add>>
    <3>1. rem' = [rem EXCEPT ![r] = FALSE] BY <1>2, <2>2 DEF Recheck
    <3> QED BY <2>2, <3>1 DEF Inv, Types, Rules, Named, Registry, RowsNamed
  <2>3. CASE work.op # "ADD" /\ EnqueueAdd(r, target)
    <3>1. rem' = [rem EXCEPT ![r] = FALSE] BY <1>2, <2>3 DEF Recheck
    <3>2. rem' \in [Rows -> BOOLEAN] BY <3>1 DEF Inv, Types, Registry
    <3> QED BY <1>3, <2>3, <3>2, EnqueueAddNamed DEF Inv, Types, Rules, Named
  <2> QED BY <1>2, <1>3, <2>1, <2>2, <2>3 DEF Recheck
<1>5. Registry' BY <1>1, <1>4 DEF Inv, Types, Registry
<1>6. \A s, p : Entitled(s, p) => Entitled(s, p)' BY <1>1, StillEntitled
<1>7. Fences' BY <1>1, <1>6 DEF Inv, Rules, Fences
<1>8. Worker' /\ Calling' BY IdleTyped DEF Recheck, Calling
<1>9. Comparing' /\ Targets' /\ Lists' /\ Reconciler' /\ Command' /\ Counted'
  BY <1>1 DEF Inv, Types, Rules, Named, Comparing, Targets, Lists, Reconciler, Command, Counted
<1>10. BanStaysHome' BY <1>1, <1>6, ListsKept
<1> QED BY <1>1, <1>4, <1>5, <1>7, <1>8, <1>9, <1>10, BansKept DEF Named

-----------------------------------------------------------------------------
(* The reconciliation *)

\* What it reads names the players of the rows.
LEMMA ReconReadKept ==
    ASSUME Inv, ReconRead \/ ReconList \/ ReconFails
    PROVE  Inv'
<1>1. UNCHANGED <<zone, binding, event, bans, remote, auto, work, cmd, ordered>>
  BY DEF ReconRead, ReconList, ReconFails
<1>2. Counted' BY <1>1, FaultTyped DEF ReconRead, ReconList, ReconFails, Inv, Types, Counted
<1>3. Reconciler' /\ Comparing'
  <2>1. CASE ReconRead
    <3> DEFINE row(r) == [row |-> r, active |-> ban[r].active, applied |-> ban[r].applied,
                          byName |-> ban[r].byName, ident |-> ident[r]]
    <3>1. \A r \in Rows : row(r) \in Snapshot /\ row(r).row = r /\ row(r).ident = ident[r]
      BY DEF Snapshot, Inv, Types, Registry, BanRow
    <3>2. recon' = [pc |-> "list", seen |-> {},
                    todo |-> {row(r) : r \in {x \in Rows : ban[x].active \/ ban[x].applied}}]
      BY <2>1 DEF ReconRead
    <3> HIDE DEF row
    <3>3. Reconciler' BY <3>1, <3>2 DEF Reconciler
    <3>4. \A x \in recon'.todo : \E r \in Rows : x = row(r) BY <3>2
    <3>5. binding'.service \in Services BY <1>1, <2>1 DEF ReconRead, Inv, Types, Setting
    <3> QED BY <3>1, <3>3, <3>4, <3>5 DEF Inv, Rules, Named, RowsNamed, Comparing
  <2>2. CASE ReconList
    <3>1. remote[binding.service] \in SUBSET Rows
      BY <2>2 DEF ReconList, Inv, Types, Rules, Named, Lists, Comparing
    <3>2. Reconciler' /\ recon'.todo = recon.todo
      BY <2>2, <3>1 DEF ReconList, Inv, Types, Reconciler
    <3> QED BY <1>1, <2>2, <3>2 DEF ReconList, Inv, Rules, Named, Comparing
  <2>3. CASE ReconFails BY <2>3, IdleTyped DEF ReconFails, Comparing
  <2> QED BY <2>1, <2>2, <2>3
<1>4. Worker' /\ Command' /\ Calling' /\ Targets'
  <2>1. \A s, p : Entitled(s, p) => Entitled(s, p)' BY <1>1, StillEntitled
  <2> QED BY <1>1, <2>1 DEF bans, Inv, Types, Rules, Worker, Command, Calling, Targets
<1> QED BY <1>1, <1>2, <1>3, <1>4, RunsKept

\* What becomes of one row of the snapshot: nobody is banned by it, and a job it adds
\* is of the row's player.
LEMMA ReconRowNamed ==
    ASSUME Inv, NEW x \in recon.todo,
           ReconForeign(x) \/ ReconFound(x) \/ ReconMissing(x) \/ ReconLifted(x)
    PROVE  /\ ban' \in [Rows -> BanRow] /\ \A r \in Rows : ban'[r].active = ban[r].active
           /\ ident' \in [Rows -> Rows \union {None}] /\ add' \in [Rows -> Rows \union {None}]
           /\ rem' \in [Rows -> BOOLEAN] /\ drift' \in [Rows -> BOOLEAN]
           /\ RowsNamed' /\ \A r \in Rows : add[r] # None => add'[r] # None
<1>1. x \in Snapshot /\ (x.ident # None => x.ident[1] = x.row[1])
  BY DEF Inv, Types, Rules, Named, Reconciler, Comparing
<1>2. PICK r \in Rows, i \in Rows \union {None} : r = x.row /\ i = x.ident
  <2>1. x.row \in Rows /\ x.ident \in Rows \union {None} BY <1>1 DEF Snapshot
  <2> QED BY <2>1
<1>3. x.applied \in BOOLEAN BY <1>1 DEF Snapshot
<1>4. CASE ReconForeign(x)
  BY <1>4 DEF ReconForeign, Inv, Types, Rules, Named, Registry, RowsNamed
<1>5. ASSUME NEW applied \in BOOLEAN, ban' = [ban EXCEPT ![r].applied = applied] \/ ban' = ban
      PROVE  ban' \in [Rows -> BanRow] /\ \A y \in Rows : ban'[y].active = ban[y].active
  <2>1. CASE ban' = ban BY <2>1 DEF Inv, Types, Registry
  <2>2. CASE ban' = [ban EXCEPT ![r].applied = applied]
    BY <2>2 DEF Inv, Types, Registry, BanRow
  <2> QED BY <1>5, <2>1, <2>2
<1>6. ASSUME NEW j \in Rows \union {None}, j # None => j[1] = r[1],
             ident' = [ident EXCEPT ![r] = j] \/ ident' = ident, add' = add
      PROVE  /\ ident' \in [Rows -> Rows \union {None}] /\ add' \in [Rows -> Rows \union {None}]
             /\ RowsNamed' /\ \A y \in Rows : add[y] # None => add'[y] # None
  BY <1>6 DEF Inv, Types, Rules, Named, Registry, RowsNamed
<1>7. CASE ReconFound(x)
  <2>1. PICK applied : ban' = [ban EXCEPT ![r].applied = applied] /\ applied = (ban[r].applied \/ (~x.applied /\ ban[r].active))
    BY <1>2, <1>7, Zenon DEF ReconFound
  <2>2. applied \in BOOLEAN BY <2>1
  <2>3. PICK j \in Rows \union {None} : (j # None => j[1] = r[1]) /\ (ident' = [ident EXCEPT ![r] = j] \/ ident' = ident)
    <3>1. CASE x.ident = None
      <4>1. ident' = [ident EXCEPT ![r] = r] BY <1>2, <1>7, <3>1 DEF ReconFound, Listed
      <4> QED BY <4>1
    <3>2. CASE x.ident # None
      <4>1. ident' = [ident EXCEPT ![r] = ident[r]] BY <1>2, <1>7, <3>2 DEF ReconFound
      <4>2. ident' = ident BY <4>1 DEF Inv, Types, Registry
      <4> QED BY <4>2
    <3> QED BY <3>1, <3>2
  <2>4. add' = add BY <1>7 DEF ReconFound
  <2>5. rem' \in [Rows -> BOOLEAN] /\ drift' \in [Rows -> BOOLEAN]
    BY <1>7 DEF ReconFound, Inv, Types, Registry
  <2> QED BY <1>5, <1>6, <2>1, <2>2, <2>3, <2>4, <2>5
<1>8. CASE ReconMissing(x)
  <2>1. ban' = ban /\ rem' = rem BY <1>8 DEF ReconMissing
  <2>2. drift' \in [Rows -> BOOLEAN] BY <1>3, <1>8 DEF ReconMissing, Inv, Types, Registry
  <2>3. \/ UNCHANGED <<ident, add>>
        \/ i # None /\ EnqueueAdd(r, i)
        \/ ident' = [ident EXCEPT ![r] = None] /\ UNCHANGED add
    BY <1>2, <1>8 DEF ReconMissing
  <2>4. CASE i # None /\ EnqueueAdd(r, i)
    <3>1. i \in Rows /\ i[1] = r[1] BY <1>1, <1>2, <2>4
    <3> QED BY <1>5, <2>1, <2>2, <2>4, <3>1, EnqueueAddNamed DEF Inv, Types, Rules, Named, Registry
  <2>5. CASE ~(i # None /\ EnqueueAdd(r, i))
    <3>1. add' = add /\ (ident' = ident \/ ident' = [ident EXCEPT ![r] = None]) BY <2>3, <2>5
    <3> QED BY <1>5, <1>6, <2>1, <2>2, <3>1 DEF Inv, Types, Registry
  <2> QED BY <2>4, <2>5
<1>9. CASE ReconLifted(x)
  <2>1. Seen(x) \in BOOLEAN BY DEF Seen
  <2>2. add' = add /\ drift' = drift BY <1>9 DEF ReconLifted
  <2>3. ban' = ban \/ ban' = [ban EXCEPT ![r].applied = Seen(x)] BY <1>2, <1>9 DEF ReconLifted
  <2>4. rem' \in [Rows -> BOOLEAN] BY <1>9 DEF ReconLifted, Inv, Types, Registry
  <2>5. ident' = ident \/ ident' = [ident EXCEPT ![r] = None]
    <3>1. ident' = [ident EXCEPT ![r] = ident[r]] \/ ident' = [ident EXCEPT ![r] = None]
      BY <1>2, <1>9 DEF ReconLifted
    <3> QED BY <3>1 DEF Inv, Types, Registry
  <2> QED BY <1>5, <1>6, <2>1, <2>2, <2>3, <2>4, <2>5 DEF Inv, Types, Registry
<1> QED BY <1>4, <1>7, <1>8, <1>9

\* The run takes one row after the other.
LEMMA ReconRowKept ==
    ASSUME Inv, ReconRow
    PROVE  Inv'
<1>1. UNCHANGED <<zone, binding, event, fence, remote, auto, work, cmd, ordered, spent>> BY DEF ReconRow
<1>2. PICK x \in recon.todo :
        /\ ReconForeign(x) \/ ReconFound(x) \/ ReconMissing(x) \/ ReconLifted(x)
        /\ recon' = NotReconciling \/ recon' = [recon EXCEPT !.todo = @ \ {x}]
  BY DEF ReconRow
<1>3. Registry' /\ RowsNamed' /\ (\A r \in Rows : ban'[r].active = ban[r].active)
      /\ \A r \in Rows : add[r] # None => add'[r] # None
  BY <1>1, <1>2, ReconRowNamed DEF Inv, Types, Registry
<1>4. Reconciler' /\ Comparing'
  <2>1. CASE recon' = NotReconciling BY <2>1, IdleTyped DEF Comparing
  <2>2. CASE recon' = [recon EXCEPT !.todo = @ \ {x}]
    <3>1. Reconciler' /\ recon'.todo \subseteq recon.todo /\ recon'.pc = recon.pc
      BY <2>2 DEF Inv, Types, Reconciler
    <3> QED BY <1>1, <3>1 DEF Inv, Rules, Named, Comparing
  <2> QED BY <1>2, <2>1, <2>2
<1>5. \A s, p : Entitled(s, p) => Entitled(s, p)' BY <1>1, StillEntitled
<1>6. Fences' BY <1>1, <1>3, <1>5 DEF Inv, Rules, Fences
<1>7. Calling' BY <1>1, <1>3, <1>5 DEF Inv, Rules, Calling
<1>8. Lists' /\ Worker' /\ Command' /\ Counted' /\ Targets'
  BY <1>1 DEF Inv, Types, Rules, Lists, Worker, Command, Counted, Targets
<1>9. BanStaysHome' BY <1>1, <1>5, ListsKept
<1> QED BY <1>1, <1>3, <1>4, <1>6, <1>7, <1>8, <1>9, BansKept DEF Named

-----------------------------------------------------------------------------
(* Moderators *)

\* Whom a moderator bans belongs everywhere.
LEMMA ServerBanKept ==
    ASSUME Inv, NEW r \in Rows, ServerBan(r)
    PROVE  Inv'
<1>1. UNCHANGED <<zone, binding, event, rem, drift, remote, auto, work, recon, cmd>> BY DEF ServerBan, runs
<1>2. ordered' = ordered \union {r[1]} /\ r[1] \in Players BY DEF ServerBan, Rows
<1>3. Counted' BY <1>2, SpendTyped DEF ServerBan, Inv, Types, Counted
<1>4. \A s, p : Entitled(s, p) => Entitled(s, p)' BY <1>1, <1>2, StillEntitled
<1>5. /\ ident' \in [Rows -> Rows \union {None}] /\ add' \in [Rows -> Rows \union {None}]
      /\ RowsNamed' /\ \A x \in Rows : add[x] # None => add'[x] # None
  BY EnqueueAddNamed DEF ServerBan, Inv, Types, Rules, Named
<1>6. /\ ban' = [ban EXCEPT ![r] = [active |-> TRUE, applied |-> FALSE, byName |-> FALSE]]
      /\ fence' = [fence EXCEPT ![r] = NoFence]
  BY DEF ServerBan
<1>7. Registry' BY <1>1, <1>5, <1>6 DEF Inv, Types, Registry, BanRow, NoFence
<1>8. Fences'
  <2>1. fence'[r] = NoFence /\ NoFence.valid = FALSE BY <1>6 DEF Inv, Types, Registry, NoFence
  <2>2. \A x \in Rows : x # r => fence'[x] = fence[x] /\ ban'[x] = ban[x] BY <1>6 DEF Inv, Types, Registry
  <2>3. ASSUME NEW x \in Rows, x # r
        PROVE  /\ fence'[x] = NoFence \/ fence'[x].service \in Services
               /\ fence'[x].valid => Entitled(fence[x].service, x[1])'
               /\ ban'[x].active /\ fence'[x] = NoFence => x[1] \in ordered'
    <3>1. PICK q : q = fence[x].service OBVIOUS
    <3>2. fence[x].valid => Entitled(q, x[1])' BY <1>4, <3>1 DEF Inv, Rules, Fences
    <3>3. fence[x].valid => Entitled(fence[x].service, x[1])' BY <2>2, <2>3, <3>1, <3>2 DEF Entitled
    <3> QED BY <1>2, <2>2, <2>3, <3>3 DEF Inv, Rules, Fences
  <2> QED BY <1>2, <2>1, <2>3 DEF Fences
<1>9. Calling' BY <1>1, <1>4, <1>5 DEF Inv, Rules, Calling
<1>10. Lists' /\ Worker' /\ Reconciler' /\ Command' /\ Comparing' /\ Targets'
  BY <1>1 DEF Inv, Types, Rules, Named, Lists, Worker, Reconciler, Command, Comparing, Targets
<1>11. BanStaysHome' BY <1>1, <1>4, ListsKept
<1> QED BY <1>1, <1>3, <1>5, <1>7, <1>8, <1>9, <1>10, <1>11, BansKept DEF Named

\* An unban begins, looks at the list, or is refused.
LEMMA UnbanStepKept ==
    ASSUME Inv, (\E r \in Rows : UnbanBegin(r)) \/ UnbanList \/ UnbanRefused
    PROVE  Inv'
<1>1. UNCHANGED <<zone, binding, event, bans, remote, auto, work, recon, ordered>>
  BY DEF UnbanBegin, UnbanList, UnbanRefused
<1>2. Counted' BY <1>1, SpendTyped DEF UnbanBegin, UnbanList, UnbanRefused, Inv, Types, Counted
<1>3. Command' /\ Targets'
  <2>1. ASSUME NEW r \in Rows, UnbanBegin(r) PROVE Command' /\ Targets'
    <3>1. cmd' = [pc |-> "list", row |-> r, service |-> binding.service, bound |-> binding.version, found |-> FALSE]
      BY <2>1 DEF UnbanBegin
    <3> QED BY <3>1 DEF Inv, Types, Setting, Command, Targets
  <2>2. CASE UnbanList
    <3>1. PICK found \in BOOLEAN : cmd' = [cmd EXCEPT !.pc = "commit", !.found = found]
      <4>1. (cmd.row \in remote[cmd.service]) \in BOOLEAN OBVIOUS
      <4> QED BY <2>2, <4>1, Zenon DEF UnbanList
    <3> QED BY <2>2, <3>1 DEF UnbanList, Inv, Types, Rules, Command, Targets
  <2>3. CASE UnbanRefused BY <2>3, IdleTyped DEF UnbanRefused, Targets
  <2> QED BY <2>1, <2>2, <2>3
<1>4. \A s, p : Entitled(s, p) => Entitled(s, p)' BY <1>1, StillEntitled
<1>5. Worker' /\ Reconciler' /\ Comparing' /\ Calling'
  BY <1>1, <1>4 DEF bans, Inv, Types, Rules, Named, Worker, Reconciler, Comparing, Calling
<1> QED BY <1>1, <1>2, <1>3, <1>5, RunsKept

\* An unban lifts ban and fence together.
LEMMA UnbanCommitKept ==
    ASSUME Inv, UnbanCommit
    PROVE  Inv'
<1>1. UNCHANGED <<zone, binding, event, ident, add, drift, remote, auto, work, recon, ordered, spent>>
  BY DEF UnbanCommit
<1>2. PICK r \in Rows : r = cmd.row BY DEF UnbanCommit, Inv, Rules, Targets
<1>3. PICK found \in BOOLEAN : found = cmd.found BY DEF Inv, Types, Command
<1>4. /\ ban' = [ban EXCEPT ![r] = [@ EXCEPT !.active = FALSE, !.applied = found]]
      /\ fence' = [fence EXCEPT ![r] = NoFence]
      /\ rem' = [rem EXCEPT ![r] = @ \/ found]
  BY <1>2, <1>3 DEF UnbanCommit
<1>5. /\ ban' \in [Rows -> BanRow] /\ ~ban'[r].active
      /\ \A x \in Rows : x # r => ban'[x] = ban[x]
  <2>1. PICK new : new = [ban[r] EXCEPT !.active = FALSE, !.applied = found] OBVIOUS
  <2>2. new \in BanRow /\ ~new.active BY <2>1 DEF Inv, Types, Registry, BanRow
  <2>3. ban' = [ban EXCEPT ![r] = new] BY <1>4, <2>1
  <2> QED BY <2>2, <2>3 DEF Inv, Types, Registry
<1>6. /\ fence' \in [Rows -> [service: Services \union {None}, bound: Nat, valid: BOOLEAN]]
      /\ fence'[r] = NoFence /\ NoFence.valid = FALSE
      /\ \A x \in Rows : x # r => fence'[x] = fence[x]
  BY <1>4 DEF Inv, Types, Registry, NoFence
<1>7. Registry' BY <1>1, <1>4, <1>5, <1>6 DEF Inv, Types, Registry
<1>8. \A s, p : Entitled(s, p) => Entitled(s, p)' BY <1>1, StillEntitled
<1>9. Fences'
  <2>1. ASSUME NEW x \in Rows, x # r
        PROVE  /\ fence'[x] = NoFence \/ fence'[x].service \in Services
               /\ fence'[x].valid => Entitled(fence[x].service, x[1])'
               /\ ban'[x].active /\ fence'[x] = NoFence => x[1] \in ordered'
    <3>1. PICK q : q = fence[x].service OBVIOUS
    <3>2. fence[x].valid => Entitled(q, x[1])' BY <1>8, <3>1 DEF Inv, Rules, Fences
    <3>3. fence[x].valid => Entitled(fence[x].service, x[1])' BY <1>6, <2>1, <3>1, <3>2 DEF Entitled
    <3> QED BY <1>1, <1>5, <1>6, <2>1, <3>3 DEF Inv, Rules, Fences
  <2> QED BY <1>5, <1>6, <2>1 DEF Fences
<1>10. Named' /\ Calling' BY <1>1, <1>8 DEF Inv, Rules, Named, RowsNamed, Comparing, Calling
<1>11. Lists' /\ Worker' /\ Reconciler' /\ Counted'
  BY <1>1 DEF Inv, Types, Lists, Worker, Reconciler, Counted
<1>12. Command' /\ Targets' BY IdleTyped DEF UnbanCommit, Targets
<1>13. BanStaysHome' BY <1>1, <1>8, ListsKept
<1> QED BY <1>1, <1>7, <1>9, <1>10, <1>11, <1>12, <1>13, BansKept

-----------------------------------------------------------------------------
(* Another service, and crashes *)

\* A rebinding ends what is open, and every fence and radar ban with it.
LEMMA RebindEvents ==
    ASSUME Inv, NEW s \in Services \union {None}, Rebind(s)
    PROVE  Setting' /\ Offended' /\ Trying' /\ Homes' /\ Judging' /\ AppliedKept
<1>1. /\ binding' = [service |-> s, version |-> binding.version + 1]
      /\ event' = [e \in Offences |-> IF event[e].status \in Open THEN [event[e] EXCEPT !.status = "SKIPPED"] ELSE event[e]]
      /\ zone' = zone \/ zone' = [zone EXCEPT !.mode = "disarmed", !.version = @ + 1]
      /\ auto' = auto
  BY DEF Rebind, runs
<1>2. Setting'
  <2>1. zone.version + 1 \in Nat /\ binding.version + 1 \in Nat BY DEF Inv, Types, Setting
  <2>2. PICK n \in Nat : zone' = zone \/ zone' = [zone EXCEPT !.mode = "disarmed", !.version = n]
    BY <1>1, <2>1
  <2>3. zone' \in [version: Nat, mode: {"off", "armed", "disarmed"}, live: BOOLEAN, allow: SUBSET Players]
    BY <2>2 DEF Inv, Types, Setting
  <2> QED BY <1>1, <2>1, <2>3 DEF Setting
<1>3. \A e \in Offences :
        /\ event'[e] \in Event /\ event'[e].bound = event[e].bound /\ event'[e].home = event[e].home
        /\ event'[e].player = event[e].player /\ event'[e].attempts = event[e].attempts
        /\ event'[e].status = IF event[e].status \in Open THEN "SKIPPED" ELSE event[e].status
  <2> SUFFICES ASSUME NEW e \in Offences
               PROVE  /\ event'[e] \in Event /\ event'[e].bound = event[e].bound /\ event'[e].home = event[e].home
                      /\ event'[e].player = event[e].player /\ event'[e].attempts = event[e].attempts
                      /\ event'[e].status = IF event[e].status \in Open THEN "SKIPPED" ELSE event[e].status
    OBVIOUS
  <2>1. event[e] \in Event BY DEF Inv, Types, Offended
  <2>2. event'[e] = IF event[e].status \in Open THEN [event[e] EXCEPT !.status = "SKIPPED"] ELSE event[e]
    BY <1>1
  <2> QED BY <2>1, <2>2 DEF Event, Statuses, Settled
<1>4. Offended' BY <1>1, <1>3 DEF Offended
<1>5. Trying' BY <1>3 DEF Inv, Types, Trying, Settled
<1>6. \A e \in Offences : event[e].bound \in Nat /\ binding.version \in Nat
  BY DEF Inv, Types, Offended, Event, Setting
<1>7. Homes' BY <1>1, <1>3, <1>6 DEF Inv, Rules, Homes, Open
<1>8. Judging' BY <1>1, <1>3, <1>6 DEF Inv, Rules, Homes, Judging, Open
<1>9. AppliedKept BY <1>3 DEF AppliedKept, Open
<1> QED BY <1>2, <1>4, <1>5, <1>7, <1>8, <1>9

LEMMA RebindKept ==
    ASSUME Inv, NEW s \in Services \union {None}, Rebind(s)
    PROVE  Inv'
<1> DEFINE fenced == {r \in Rows : fence[r] # NoFence}
<1>1. /\ fence' = [r \in Rows |-> IF r \in fenced THEN [fence[r] EXCEPT !.valid = FALSE] ELSE fence[r]]
      /\ ban' = [r \in Rows |-> [ban[r] EXCEPT !.active = @ /\ r \notin fenced, !.applied = FALSE]]
      /\ ident' = [r \in Rows |-> IF r \in fenced THEN None ELSE ident[r]]
      /\ add' = [r \in Rows |-> IF r \in fenced THEN None ELSE add[r]]
      /\ rem' = [r \in Rows |-> FALSE]
      /\ drift' = drift
  BY DEF Rebind
<1>2. work.pc = "idle" /\ recon.pc = "idle" /\ UNCHANGED <<remote, auto, work, recon, cmd, ordered>>
  BY DEF Rebind, LockFree, runs
<1>3. \A r \in Rows : /\ fence'[r] \in [service: Services \union {None}, bound: Nat, valid: BOOLEAN]
                      /\ fence'[r].service = fence[r].service
                      /\ fence[r] = NoFence => fence'[r] = NoFence
                      /\ fence[r] # NoFence => ~fence'[r].valid
  BY <1>1 DEF Inv, Types, Registry
<1>4. \A r \in Rows : ban'[r] \in BanRow /\ (ban'[r].active => ban[r].active /\ r \notin fenced)
  <2> SUFFICES ASSUME NEW r \in Rows PROVE ban'[r] \in BanRow /\ (ban'[r].active => ban[r].active /\ r \notin fenced)
    OBVIOUS
  <2>1. PICK a \in BOOLEAN : a <=> ban[r].active /\ r \notin fenced OBVIOUS
  <2>2. ban[r] \in BanRow BY DEF Inv, Types, Registry
  <2>3. ban'[r] = [ban[r] EXCEPT !.active = a, !.applied = FALSE]
    <3>1. (ban[r].active /\ r \notin fenced) = a BY <2>1, <2>2 DEF BanRow
    <3>2. ban'[r] = [ban[r] EXCEPT !.active = (ban[r].active /\ r \notin fenced), !.applied = FALSE] BY <1>1
    <3> HIDE DEF fenced
    <3> QED BY <3>1, <3>2
  <2> QED BY <2>1, <2>2, <2>3 DEF BanRow
<1>5. Registry'
  <2>1. ban' \in [Rows -> BanRow] BY <1>1, <1>4
  <2>2. fence' \in [Rows -> [service: Services \union {None}, bound: Nat, valid: BOOLEAN]] BY <1>1, <1>3
  <2>3. ident' \in [Rows -> Rows \union {None}] /\ add' \in [Rows -> Rows \union {None}]
        /\ rem' \in [Rows -> BOOLEAN]
    BY <1>1 DEF Inv, Types, Registry
  <2> QED BY <1>1, <2>1, <2>2, <2>3 DEF Inv, Types, Registry
<1>6. Setting' /\ Offended' /\ Trying' /\ Homes' /\ Judging' /\ AppliedKept BY RebindEvents
<1>7. \A q, p : Entitled(q, p) => Entitled(q, p)' BY <1>2, <1>6, EntitledKept
<1>8. Fences'
  <2>1. ASSUME NEW r \in Rows
        PROVE  /\ fence'[r] = NoFence \/ fence'[r].service \in Services
               /\ ~fence'[r].valid
               /\ ban'[r].active /\ fence'[r] = NoFence => r[1] \in ordered'
    <3>1. CASE fence[r] = NoFence
      <4>1. fence'[r] = NoFence /\ ~NoFence.valid BY <1>3, <3>1 DEF NoFence
      <4> QED BY <1>2, <1>4, <3>1, <4>1 DEF Inv, Rules, Fences
    <3>2. CASE fence[r] # NoFence
      <4>1. ~ban'[r].active /\ ~fence'[r].valid /\ fence'[r].service = fence[r].service
        BY <1>3, <1>4, <3>2
      <4> QED BY <3>2, <4>1 DEF Inv, Rules, Fences
    <3> QED BY <3>1, <3>2
  <2> QED BY <2>1 DEF Fences
<1>9. Named' BY <1>1, <1>2 DEF Inv, Rules, Named, RowsNamed, Comparing
<1>10. Calling' /\ Targets' BY <1>2 DEF Inv, Rules, Calling, Targets
<1>11. Lists' /\ Runtime' /\ Worker' /\ Reconciler' /\ Command'
  BY <1>2 DEF Inv, Types, Lists, Runtime, Worker, Reconciler, Command
<1>12. Counted'
  <2>1. Spend("moves", MaxMoves) BY DEF Rebind
  <2> QED BY <1>2, <2>1, SpendTyped DEF Inv, Types, Counted
<1>13. BanStaysHome' BY <1>2, <1>7, ListsKept
<1> QED BY <1>5, <1>6, <1>8, <1>9, <1>10, <1>11, <1>12, <1>13 DEF Inv, Types, Rules

\* A crash ends what is under way; an evaluation begins again.
LEMMA CrashKept ==
    ASSUME Inv, Crash
    PROVE  Inv'
<1>1. UNCHANGED <<zone, binding, bans, remote, ordered>> BY DEF Crash
<1>2. Runtime' /\ Worker' /\ Reconciler' /\ Command' /\ auto'.pc = "idle" /\ work'.pc = "idle"
      /\ recon'.todo = {} /\ recon'.pc = "idle" /\ cmd'.pc = "idle"
  BY IdleTyped DEF Crash
<1>3. \A e \in Offences :
        /\ event'[e] \in Event /\ event'[e].bound = event[e].bound /\ event'[e].home = event[e].home
        /\ event'[e].player = event[e].player /\ event'[e].attempts = event[e].attempts
        /\ event'[e].status = IF event[e].status = "SEEN" THEN "STORED" ELSE event[e].status
  <2> SUFFICES ASSUME NEW e \in Offences
               PROVE  /\ event'[e] \in Event /\ event'[e].bound = event[e].bound /\ event'[e].home = event[e].home
                      /\ event'[e].player = event[e].player /\ event'[e].attempts = event[e].attempts
                      /\ event'[e].status = IF event[e].status = "SEEN" THEN "STORED" ELSE event[e].status
    OBVIOUS
  <2>1. event[e] \in Event BY DEF Inv, Types, Offended
  <2>2. event'[e] = IF event[e].status = "SEEN" THEN [event[e] EXCEPT !.status = "STORED"] ELSE event[e]
    BY DEF Crash
  <2> QED BY <2>1, <2>2 DEF Event, Statuses
<1>4. Offended' BY <1>3 DEF Crash, Offended
<1>5. Trying' BY <1>3 DEF Inv, Types, Trying, Settled
<1>6. Homes' BY <1>1, <1>3 DEF Inv, Rules, Homes
<1>7. AppliedKept BY <1>3 DEF AppliedKept
<1>8. \A s, p : Entitled(s, p) => Entitled(s, p)' BY <1>1, <1>7, EntitledKept
<1>9. Setting' /\ Registry' /\ Lists' BY <1>1 DEF bans, Inv, Types, Setting, Registry, Lists
<1>10. Counted' BY <1>1, FaultTyped DEF Crash, Inv, Types, Counted
<1>11. Fences' BY <1>1, <1>8 DEF bans, Inv, Rules, Fences
<1>12. Judging' /\ Named' /\ Calling' /\ Targets'
  BY <1>1, <1>2 DEF bans, Inv, Rules, Judging, Named, RowsNamed, Comparing, Calling, Targets
<1>13. BanStaysHome' BY <1>1, <1>8, ListsKept
<1> QED BY <1>2, <1>4, <1>5, <1>6, <1>9, <1>10, <1>11, <1>12, <1>13 DEF Inv, Types, Rules

-----------------------------------------------------------------------------
(* The theorems *)

\* Every step keeps the invariant.
LEMMA StepKept == Inv /\ [Next]_vars => Inv'
<1> SUFFICES ASSUME Inv, [Next]_vars PROVE Inv'
  OBVIOUS
<1>1. CASE SaveZone \/ SwitchMap BY <1>1, ZoneKept
<1>2. ASSUME NEW e \in Offences, (\E p \in Players : Offend(e, p)) \/ Detect(e) \/ Insert(e) \/ Recover(e)
      PROVE  Inv'
  BY <1>2, OffendKept, DetectKept, AttemptKept
<1>3. CASE AutoBan \/ AutoFails
  <2>1. CASE (\E e \in Offences : Claim(e)) \/ ReadEvent \/ AutoDone BY <2>1, ClaimKept
  <2>2. CASE Decide BY <2>2, DecideKept
  <2>3. CASE AutoFails BY <2>3, AttemptKept
  <2> QED BY <1>3, <2>1, <2>2, <2>3 DEF AutoBan
<1>4. ASSUME NEW r \in Rows, (\E op \in {"ADD", "REMOVE"} : Take(r, op)) \/ ServerBan(r) \/ UnbanBegin(r)
      PROVE  Inv'
  BY <1>4, TakeKept, ServerBanKept, UnbanStepKept
<1>5. CASE Work \/ WorkFails
  BY <1>5, ReadBanKept, CallKept, MarkAppliedKept, RecheckKept, WorkFailsKept DEF Work
<1>6. CASE ReconRead \/ Reconcile \/ ReconFails BY <1>6, ReconReadKept, ReconRowKept DEF Reconcile
<1>7. CASE UnbanList \/ UnbanCommit \/ UnbanRefused BY <1>7, UnbanStepKept, UnbanCommitKept
<1>8. CASE (\E s \in Services \union {None} : Rebind(s)) \/ Crash BY <1>8, RebindKept, CrashKept
<1>9. CASE UNCHANGED vars
  <2>1. UNCHANGED <<zone, binding, event, bans, remote, auto, work, recon, cmd, ordered, spent>>
    BY <1>9 DEF vars, runs
  <2>2. \A s, p : Entitled(s, p) => Entitled(s, p)' BY <2>1, StillEntitled
  <2>3. Worker' /\ Reconciler' /\ Command' /\ Counted' /\ Comparing' /\ Calling' /\ Targets'
    BY <2>1, <2>2 DEF bans, Inv, Types, Rules, Named, Worker, Reconciler, Command, Counted, Comparing,
                      Calling, Targets
  <2> QED BY <2>1, <2>3, RunsKept
<1> QED BY <1>1, <1>2, <1>3, <1>4, <1>5, <1>6, <1>7, <1>8, <1>9 DEF Next

\* The variables keep their types; an event that is tried again has attempts left, however
\* failures, recoveries and rebindings follow on each other.
THEOREM TypeCorrect == Spec => []TypeOK
<1>1. Inv => TypeOK BY TypesAreTypeOK DEF Inv
<1> QED BY <1>1, InitInv, StepKept, PTL DEF Spec

\* rebindOutboxLifecycle.ts, banFence.ts: whoever is on the ban list of a service was banned
\* by a moderator or for an offence on that service, with any offences judged, jobs under
\* way, crashes and failures when the connection gets another service.
THEOREM BanStaysHomeHolds == Spec => []BanStaysHome
<1>1. Inv => BanStaysHome BY DEF Inv
<1> QED BY <1>1, InitInv, StepKept, PTL DEF Spec
=============================================================================
