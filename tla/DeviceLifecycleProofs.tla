------------------------ MODULE DeviceLifecycleProofs ------------------------
(***************************************************************************)
(* Proofs about DeviceLifecycle, for every number of rings, commands,      *)
(* changes and power-ups.                                                  *)
(*                                                                         *)
(* First where each step stands in the list of its call (Placed), and      *)
(* types. Then DeviceInv and WorkerInv, which hold whatever happens: they  *)
(* give MemoryOutlivesDevice and WorkerGoneFirst. Then Healthy, a table of *)
(* what the driver has reached at each step of each call, which holds      *)
(* until something is recorded in "disturbed": it gives                    *)
(* FaultNeedsDisturbance, HardwareInitIsTruthful and JoinEnds.             *)
(***************************************************************************)
EXTENDS DeviceLifecycle, SequenceTheorems, TLAPS

-----------------------------------------------------------------------------
(* The lists of steps                                                      *)

\* Every step a list may hold.
StepNames ==
    {"pci", "zero", "map", "features", "segments", "ctrl", "crsr", "queues", "pool",
     "ready", "go", "thread", "modes", "ask", "reply",
     "quiesce", "reset", "delete", "close", "destroy", "stop", "event", "join", "free"}

\* Concatenation, hidden from the provers, which get what CatFacts says of it.
Cat(s, t) == s \o t

\* The length and the elements of two lists of steps put together.
LEMMA CatFacts ==
    \A s, t \in Seq(StepNames) :
        /\ Cat(s, t) \in Seq(StepNames)
        /\ Len(Cat(s, t)) = Len(s) + Len(t)
        /\ \A i \in 1 .. Len(s) + Len(t) :
              Cat(s, t)[i] = IF i <= Len(s) THEN s[i] ELSE t[i - Len(s)]
<1>. SUFFICES ASSUME NEW s \in Seq(StepNames), NEW t \in Seq(StepNames)
              PROVE  /\ s \o t \in Seq(StepNames)
                     /\ Len(s \o t) = Len(s) + Len(t)
                     /\ \A i \in 1 .. Len(s) + Len(t) :
                          (s \o t)[i] = IF i <= Len(s) THEN s[i] ELSE t[i - Len(s)]
  BY Zenon DEF Cat
<1>. QED
  BY ConcatProperties, Zenon

\* Lists of steps, as sequences.
LEMMA ListFacts ==
    /\ UpSteps \in Seq(StepNames) /\ Len(UpSteps) = 8
    /\ CloseSteps \in Seq(StepNames) /\ Len(CloseSteps) = 4
    /\ FreeSteps \in Seq(StepNames) /\ Len(FreeSteps) = 4
<1>1. \A S : \A a, b, c, d \in S : <<a, b, c, d>> \in Seq(S)
  OBVIOUS
<1>2. \A S : \A a, b, c, d, e, f, g, h \in S : <<a, b, c, d, e, f, g, h>> \in Seq(S)
  OBVIOUS
<1>3. UpSteps \in Seq(StepNames)
  BY <1>2 DEF UpSteps, StepNames
<1>4. CloseSteps \in Seq(StepNames) /\ FreeSteps \in Seq(StepNames)
  BY <1>1 DEF CloseSteps, FreeSteps, StepNames
<1>. QED
  BY <1>3, <1>4 DEF UpSteps, CloseSteps, FreeSteps

\* The list of a power-up is that of VioGpuAdapterInit twice over.
LEMMA UpTable ==
    /\ Len(Steps["up"]) = 16 /\ DOMAIN Steps["up"] = 1..16
    /\ \A i \in 1..8 : Steps["up"][i] = UpSteps[i]
    /\ \A i \in 9..16 : Steps["up"][i] = UpSteps[i - 8]
<1>1. Steps["up"] = Cat(UpSteps, UpSteps)
  BY DEF Steps, Cat
<1>2. /\ Cat(UpSteps, UpSteps) \in Seq(StepNames)
      /\ Len(Cat(UpSteps, UpSteps)) = Len(UpSteps) + Len(UpSteps)
      /\ \A i \in 1 .. Len(UpSteps) + Len(UpSteps) :
            Cat(UpSteps, UpSteps)[i] = IF i <= Len(UpSteps) THEN UpSteps[i] ELSE UpSteps[i - Len(UpSteps)]
  BY ListFacts, CatFacts
<1>. QED
  BY <1>1, <1>2, ListFacts

\* The list of a power-down is that of closing the adapter twice over.
LEMMA DownTable ==
    /\ Len(Steps["down"]) = 8 /\ DOMAIN Steps["down"] = 1..8
    /\ \A i \in 1..4 : Steps["down"][i] = CloseSteps[i]
    /\ \A i \in 5..8 : Steps["down"][i] = CloseSteps[i - 4]
<1>1. Steps["down"] = Cat(CloseSteps, CloseSteps)
  BY DEF Steps, Cat
<1>2. /\ Cat(CloseSteps, CloseSteps) \in Seq(StepNames)
      /\ Len(Cat(CloseSteps, CloseSteps)) = Len(CloseSteps) + Len(CloseSteps)
      /\ \A i \in 1 .. Len(CloseSteps) + Len(CloseSteps) :
            Cat(CloseSteps, CloseSteps)[i] = IF i <= Len(CloseSteps) THEN CloseSteps[i] ELSE CloseSteps[i - Len(CloseSteps)]
  BY ListFacts, CatFacts
<1>. QED
  BY <1>1, <1>2, ListFacts

\* A removal destroys the resources, closes once, and frees.
LEMMA RemoveTable ==
    /\ Len(Steps["remove"]) = 9 /\ DOMAIN Steps["remove"] = 1..9
    /\ Steps["remove"][1] = "destroy"
    /\ \A i \in 2..5 : Steps["remove"][i] = CloseSteps[i - 1]
    /\ \A i \in 6..9 : Steps["remove"][i] = FreeSteps[i - 5]
<1>1. Steps["remove"] = Cat(Cat(<<"destroy">>, CloseSteps), FreeSteps)
  BY DEF Steps, Cat
<1>. DEFINE d == <<"destroy">>
<1>2. d \in Seq(StepNames) /\ Len(d) = 1 /\ d[1] = "destroy"
  BY DEF StepNames
<1>. HIDE DEF d
<1> DEFINE e == Cat(d, CloseSteps)
<1>3. /\ Cat(d, CloseSteps) \in Seq(StepNames)
      /\ Len(Cat(d, CloseSteps)) = Len(d) + Len(CloseSteps)
      /\ \A i \in 1 .. Len(d) + Len(CloseSteps) :
            Cat(d, CloseSteps)[i] = IF i <= Len(d) THEN d[i] ELSE CloseSteps[i - Len(d)]
  BY <1>2, ListFacts, CatFacts
<1>4. /\ e \in Seq(StepNames) /\ Len(e) = 5 /\ e[1] = "destroy"
      /\ \A i \in 2..5 : e[i] = CloseSteps[i - 1]
  BY <1>2, <1>3, ListFacts
<1>. HIDE DEF e
<1>6. /\ Cat(e, FreeSteps) \in Seq(StepNames)
      /\ Len(Cat(e, FreeSteps)) = Len(e) + Len(FreeSteps)
      /\ \A i \in 1 .. Len(e) + Len(FreeSteps) :
            Cat(e, FreeSteps)[i] = IF i <= Len(e) THEN e[i] ELSE FreeSteps[i - Len(e)]
  BY <1>4, ListFacts, CatFacts
<1>5. Steps["remove"] = Cat(e, FreeSteps)
  BY <1>1 DEF d, e
<1>. QED
  BY <1>4, <1>5, <1>6, ListFacts

\* The list of a start, which is written out, and the calls there are.
LEMMA StartTable ==
    /\ Len(Steps["start"]) = 15 /\ DOMAIN Steps["start"] = 1..15
    /\ DOMAIN Steps = {"start", "up", "down", "remove"}
BY DEF Steps

\* The steps of a list are numbered from 1; no list has more than 16.
LEMMA StepCount ==
    ASSUME NEW op \in DOMAIN Steps
    PROVE  /\ DOMAIN Steps[op] = 1..Len(Steps[op])
           /\ Len(Steps[op]) \in Nat /\ Len(Steps[op]) <= 16
<1>1. CASE op = "start"
  BY <1>1, StartTable
<1>2. CASE op = "up"
  BY <1>2, UpTable
<1>3. CASE op = "down"
  BY <1>3, DownTable
<1>4. CASE op = "remove"
  BY <1>4, RemoveTable
<1>. QED
  BY <1>1, <1>2, <1>3, <1>4, StartTable

\* Where in its list a step stands.
LEMMA UpAt ==
    ASSUME os.op = "up", os.at \in 1..16, NEW s, At(s)
    PROVE  /\ s = "zero" => os.at \in {1, 9}
           /\ s = "map" => os.at \in {2, 10}
           /\ s = "features" => os.at \in {3, 11}
           /\ s = "ctrl" => os.at \in {4, 12}
           /\ s = "crsr" => os.at \in {5, 13}
           /\ s = "queues" => os.at \in {6, 14}
           /\ s = "ready" => os.at \in {7, 15}
           /\ s = "go" => os.at \in {8, 16}
           /\ s \in {"zero", "map", "features", "ctrl", "crsr", "queues", "ready", "go"}
<1>1. CASE os.at \in 1..8
  <2>1. UpSteps[os.at] = s
    BY <1>1, UpTable DEF At
  <2>. QED
    BY <1>1, <2>1 DEF UpSteps
<1>2. CASE os.at \in 9..16
  <2>1. PICK i \in 1..8 : i = os.at - 8
    BY <1>2
  <2>2. UpSteps[i] = s
    BY <1>2, <2>1, UpTable DEF At
  <2>. QED
    BY <1>2, <2>1, <2>2 DEF UpSteps
<1>. QED
  BY <1>1, <1>2

\* The same, of a power-down.
LEMMA DownAt ==
    ASSUME os.op = "down", os.at \in 1..8, NEW s, At(s)
    PROVE  /\ s = "quiesce" => os.at \in {1, 5}
           /\ s = "reset" => os.at \in {2, 6}
           /\ s = "delete" => os.at \in {3, 7}
           /\ s = "close" => os.at \in {4, 8}
           /\ s \in {"quiesce", "reset", "delete", "close"}
<1>1. CASE os.at \in 1..4
  <2>1. CloseSteps[os.at] = s
    BY <1>1, DownTable DEF At
  <2>. QED
    BY <1>1, <2>1 DEF CloseSteps
<1>2. CASE os.at \in 5..8
  <2>1. PICK i \in 1..4 : i = os.at - 4
    BY <1>2
  <2>2. CloseSteps[i] = s
    BY <1>2, <2>1, DownTable DEF At
  <2>. QED
    BY <1>2, <2>1, <2>2 DEF CloseSteps
<1>. QED
  BY <1>1, <1>2

\* The same, of a removal.
LEMMA RemovalAt ==
    ASSUME os.op = "remove", os.at \in 1..9, NEW s, At(s)
    PROVE  /\ s = "destroy" => os.at = 1
           /\ s = "quiesce" => os.at = 2
           /\ s = "reset" => os.at = 3
           /\ s = "delete" => os.at = 4
           /\ s = "close" => os.at = 5
           /\ s = "stop" => os.at = 6
           /\ s = "event" => os.at = 7
           /\ s = "join" => os.at = 8
           /\ s = "free" => os.at = 9
           /\ s \in {"destroy", "quiesce", "reset", "delete", "close",
                     "stop", "event", "join", "free"}
<1>1. CASE os.at = 1
  BY <1>1, RemoveTable DEF At
<1>2. CASE os.at \in 2..5
  <2>1. PICK i \in 1..4 : i = os.at - 1
    BY <1>2
  <2>2. CloseSteps[i] = s
    BY <1>2, <2>1, RemoveTable DEF At
  <2>. QED
    BY <1>2, <2>1, <2>2 DEF CloseSteps
<1>3. CASE os.at \in 6..9
  <2>1. PICK i \in 1..4 : i = os.at - 5
    BY <1>3
  <2>2. FreeSteps[i] = s
    BY <1>3, <2>1, RemoveTable DEF At
  <2>. QED
    BY <1>3, <2>1, <2>2 DEF FreeSteps
<1>4. os.at = 1 \/ os.at \in 2..5 \/ os.at \in 6..9
  OBVIOUS
<1>. QED
  BY <1>1, <1>2, <1>3, <1>4

\* The same, of a start.
LEMMA StartAt ==
    ASSUME os.op = "start", os.at \in 1..15, NEW s, At(s)
    PROVE  s = (<<"pci", "zero", "map", "features", "segments", "ctrl", "crsr",
                  "queues", "pool", "ready", "go", "thread", "modes", "ask", "reply">>)[os.at]
BY DEF At, Steps

\* The call in progress and the place in its list.
OsOK ==
    /\ os \in [op : DOMAIN Steps \cup {"none"}, at : 0..20, powered : BOOLEAN,
               cmd : Cmds \cup {NULL},
               life : {"new", "started", "failed", "gone"}, ups : 0..MaxPowerUps]
    /\ os.op # "none" => os.at \in DOMAIN Steps[os.op]

\* The call in progress is op, at its step number at.
Where(op, at) == os.op = op /\ os.at = at

\* Every place in every list where a step of a given name stands.
LEMMA Placed ==
    ASSUME OsOK, NEW s, At(s)
    PROVE  /\ s = "pci" => Where("start", 1)
           /\ s = "zero" => Where("start", 2) \/ Where("up", 1) \/ Where("up", 9)
           /\ s = "map" => Where("start", 3) \/ Where("up", 2) \/ Where("up", 10)
           /\ s = "features" => Where("start", 4) \/ Where("up", 3) \/ Where("up", 11)
           /\ s = "segments" => Where("start", 5)
           /\ s = "ctrl" => Where("start", 6) \/ Where("up", 4) \/ Where("up", 12)
           /\ s = "crsr" => Where("start", 7) \/ Where("up", 5) \/ Where("up", 13)
           /\ s = "queues" => Where("start", 8) \/ Where("up", 6) \/ Where("up", 14)
           /\ s = "pool" => Where("start", 9)
           /\ s = "ready" => Where("start", 10) \/ Where("up", 7) \/ Where("up", 15)
           /\ s = "go" => Where("start", 11) \/ Where("up", 8) \/ Where("up", 16)
           /\ s = "thread" => Where("start", 12)
           /\ s = "modes" => Where("start", 13)
           /\ s = "ask" => Where("start", 14)
           /\ s = "reply" => Where("start", 15)
           /\ s = "destroy" => Where("remove", 1)
           /\ s = "quiesce" => Where("down", 1) \/ Where("down", 5) \/ Where("remove", 2)
           /\ s = "reset" => Where("down", 2) \/ Where("down", 6) \/ Where("remove", 3)
           /\ s = "delete" => Where("down", 3) \/ Where("down", 7) \/ Where("remove", 4)
           /\ s = "close" => Where("down", 4) \/ Where("down", 8) \/ Where("remove", 5)
           /\ s = "stop" => Where("remove", 6)
           /\ s = "event" => Where("remove", 7)
           /\ s = "join" => Where("remove", 8)
           /\ s = "free" => Where("remove", 9)
<1>1. os.op \in DOMAIN Steps /\ os.at \in DOMAIN Steps[os.op]
  BY DEF At, OsOK
<1>2. CASE os.op = "start"
  <2>1. os.at \in 1..15
    BY <1>1, <1>2, StartTable
  <2>. QED
    BY <1>2, <2>1, StartAt DEF Where
<1>3. CASE os.op = "up"
  <2>1. os.at \in 1..16
    BY <1>1, <1>3, UpTable
  <2>. QED
    BY <1>3, <2>1, UpAt DEF Where
<1>4. CASE os.op = "down"
  <2>1. os.at \in 1..8
    BY <1>1, <1>4, DownTable
  <2>. QED
    BY <1>4, <2>1, DownAt DEF Where
<1>5. CASE os.op = "remove"
  <2>1. os.at \in 1..9
    BY <1>1, <1>5, RemoveTable
  <2>. QED
    BY <1>5, <2>1, RemovalAt DEF Where
<1>. QED
  BY <1>1, <1>2, <1>3, <1>4, <1>5, StartTable

-----------------------------------------------------------------------------
(* Types                                                                   *)

\* Returning, going on, giving up and calling keep the type of os.
LEMMA ReturnType ==
    ASSUME OsOK, os.op # "none", NEW success \in BOOLEAN, Return(success)
    PROVE  OsOK'
<1>1. os' = [op |-> "none", at |-> 0, powered |-> os.op # "down", cmd |-> NULL,
             life |-> CASE os.op = "start" -> IF success THEN "started" ELSE "failed"
                        [] os.op = "remove" -> "gone"
                        [] OTHER -> os.life,
             ups |-> os.ups]
  BY DEF Return, OsOK
<1>. QED
  BY <1>1 DEF OsOK

\* Going on to the next step, or returning after the last.
LEMMA ProceedType ==
    ASSUME OsOK, os.op # "none", Proceed
    PROVE  OsOK'
<1>1. CASE os.at < Len(Steps[os.op])
  <2>1. os' = [os EXCEPT !.at = @ + 1]
    BY <1>1 DEF Proceed
  <2>2. /\ os.op \in DOMAIN Steps /\ DOMAIN Steps[os.op] = 1..Len(Steps[os.op])
        /\ Len(Steps[os.op]) \in Nat /\ Len(Steps[os.op]) <= 16
    BY StepCount DEF OsOK
  <2>4. PICK n \in Nat : n = Len(Steps[os.op]) /\ n <= 16
    BY <2>2
  <2>3. os.at \in 1..n /\ os.at < n
    BY <1>1, <2>2, <2>4 DEF OsOK
  <2>5. \A i \in 1..n : i < n => i + 1 \in 1..n /\ i + 1 \in 0..20
    BY <2>4
  <2>6. os.at + 1 \in DOMAIN Steps[os.op] /\ os.at + 1 \in 0..20
    BY <2>2, <2>3, <2>4, <2>5
  <2>. QED
    BY <2>1, <2>6 DEF OsOK
<1>2. CASE ~(os.at < Len(Steps[os.op]))
  BY <1>2, ReturnType DEF Proceed
<1>. QED
  BY <1>1, <1>2

\* A failure takes a power-up to its second round, and ends other calls.
LEMMA GiveUpType ==
    ASSUME OsOK, os.op # "none", GiveUp
    PROVE  OsOK'
<1>1. CASE os.op = "up" /\ os.at <= 8
  <2>1. os' = [os EXCEPT !.at = 9]
    BY <1>1, ListFacts DEF GiveUp
  <2>. QED
    BY <1>1, <2>1, UpTable DEF OsOK
<1>2. CASE ~(os.op = "up" /\ os.at <= 8)
  BY <1>2, ReturnType, ListFacts DEF GiveUp
<1>. QED
  BY <1>1, <1>2

\* A call starts at its first step.
LEMMA CallType ==
    ASSUME OsOK, NEW op \in DOMAIN Steps, Call(op)
    PROVE  OsOK'
<1>1. os' = [os EXCEPT !.op = op, !.at = 1, !.ups = IF op = "up" THEN @ + 1 ELSE @]
  BY DEF Call
<1>2. 1 \in DOMAIN Steps[op]
  BY StartTable, UpTable, DownTable, RemoveTable
<1>3. (IF op = "up" THEN os.ups + 1 ELSE os.ups) \in 0..MaxPowerUps
  BY LifecycleAssumption DEF Call, OsOK
<1>4. os' = [op |-> op, at |-> 1, powered |-> os.powered, cmd |-> os.cmd, life |-> os.life,
             ups |-> IF op = "up" THEN os.ups + 1 ELSE os.ups]
  BY <1>1 DEF OsOK
<1>. QED
  BY <1>2, <1>3, <1>4 DEF OsOK

\* The rest of TypeOK.
DrvOK ==
    drv \in [virtio_init : BOOLEAN, hw_init : BOOLEAN, mapped : BOOLEAN,
             segments : BOOLEAN, modes : BOOLEAN, info : [Queues -> Rings \cup {NULL}],
             queue : [Queues -> Rings \cup {NULL}]]
\* The memory of the virtqueues and the commands.
MemOK ==
    mem \in [alloc : SUBSET Rings, pool : SUBSET Cmds,
             posted : [Rings -> SUBSET Cmds], used : [Rings -> SUBSET Cmds],
             replied : SUBSET Cmds]
\* The device.
DevOK ==
    dev \in [status : SUBSET {"ACKNOWLEDGE", "DRIVER", "FEATURES_OK", "DRIVER_OK", "FAILED"},
             ring : [Queues -> Rings \cup {NULL}], isr : SUBSET {"QUEUE", "CONFIG"},
             events_read : BOOLEAN, changes : 0..MaxChanges]
\* Interrupt routine and DPC.
DpcOK ==
    dpc \in [irq : BOOLEAN, queued : BOOLEAN, on : BOOLEAN,
             pending : SUBSET {"DISPLAY", "CHANGE"}, reason : SUBSET {"DISPLAY", "CHANGE"}]
\* The worker.
WorkerOK ==
    worker \in [pc : {"none", "idle", "read", "ask", "wait", "clear", "gone"},
                cmd : Cmds \cup {NULL}, event : BOOLEAN, stop : BOOLEAN]
\* All of these: what TypeOK says beside OsOK and the flags.
Typed == /\ DrvOK /\ MemOK /\ DevOK /\ DpcOK /\ WorkerOK
         /\ fault \in BOOLEAN /\ disturbed \in BOOLEAN

\* TypeOK, taken apart.
LEMMA TypeParts == TypeOK <=> OsOK /\ Typed
BY Zenon DEF TypeOK, OsOK, Typed, DrvOK, MemOK, DevOK, DpcOK, WorkerOK

\* The type invariant holds at first.
LEMMA InitType == Init => TypeOK
<1>. SUFFICES ASSUME Init PROVE OsOK /\ Typed
  BY TypeParts
<1>1. OsOK
  BY LifecycleAssumption DEF Init, OsOK
<1>2. fault \in BOOLEAN /\ disturbed \in BOOLEAN
  BY Zenon DEF Init
<1>3. Typed
  BY <1>2, LifecycleAssumption DEF Init, Typed, DrvOK, MemOK, DevOK, DpcOK, WorkerOK, NoQueues, Queues
<1>. QED
  BY <1>1, <1>3

\* Every step keeps the type of os.
LEMMA NextOs == ASSUME TypeOK, Next PROVE OsOK'
<1>1. OsOK /\ UNCHANGED os => OsOK'
  BY DEF OsOK
<1>2. OsOK
  BY TypeParts
<1>3. ASSUME NEW op \in DOMAIN Steps, Call(op) PROVE OsOK'
  BY <1>2, <1>3, CallType
<1>4. CASE BringUp
  <2>0. os.op # "none"
    BY <1>4 DEF BringUp, At, PciResources, ZeroDevice, MapDevice, SetFeatures, InitSegments,
       SetupQueue, InitQueues, InitPool, DeviceReady, SetHardwareInit, CreateWorker,
       GetModeList, StartAsk, StartReplied
  <2>1. CASE StartAsk
    <3>1. PICK c \in mem.pool : os' = [os EXCEPT !.at = @ + 1, !.cmd = c]
      BY <2>1 DEF StartAsk
    <3>2. Where("start", 14)
      BY <1>2, <2>1, Placed, TypeParts DEF StartAsk
    <3>3. c \in Cmds
      BY TypeParts DEF Typed, MemOK
    <3>4. os' = [op |-> os.op, at |-> os.at + 1, powered |-> os.powered, cmd |-> c,
                 life |-> os.life, ups |-> os.ups]
      BY <1>2, <3>1 DEF OsOK
    <3>5. os.op = "start" /\ os.at + 1 = 15
      BY <3>2 DEF Where
    <3>. QED
      BY <1>2, <3>3, <3>4, <3>5, StartTable DEF OsOK
  <2>2. CASE StartReplied
    BY <1>2, <2>0, <2>2, ReturnType DEF StartReplied
  <2>3. CASE ~StartAsk /\ ~StartReplied
    <3>1. Proceed \/ GiveUp \/ UNCHANGED os
      BY <1>4, <2>3 DEF BringUp, PciResources, ZeroDevice, MapDevice, SetFeatures, InitSegments,
         SetupQueue, InitQueues, InitPool, DeviceReady, SetHardwareInit, CreateWorker,
         GetModeList, Fails, Crash
    <3>. QED
      BY <1>1, <1>2, <2>0, <3>1, ProceedType, GiveUpType
  <2>. QED
    BY <2>1, <2>2, <2>3
<1>5. CASE TakeDown
  <2>1. os.op # "none" /\ (Proceed \/ UNCHANGED os)
    BY <1>5 DEF TakeDown, At, DestroyResources, Quiesce, ResetDevice, Delete, CloseQueues,
       StopWorker, WakeWorker, JoinWorker, FreeMembers, Crash
  <2>. QED
    BY <1>1, <1>2, <2>1, ProceedType
<1>6. CASE Present \/ Worker \/ Interrupt \/ InterruptRead \/ Dpc \/ DevServe \/ DevChange
  <2>1. UNCHANGED os
    BY <1>6, Zenon DEF Present, Worker, WorkerWake, WorkerRead, WorkerAsk, WorkerReplied, WorkerClear,
       Interrupt, InterruptRead, Dpc, DpcStart, DpcExchange, DpcCollect, DpcChange, DevServe,
       DevChange, Crash
  <2>. QED
    BY <1>1, <1>2, <2>1
<1>. QED
  BY <1>3, <1>4, <1>5, <1>6 DEF Next

\* The history variable stays a Boolean.
LEMMA DisturbType == ASSUME NEW b, Disturb(b) PROVE disturbed' \in BOOLEAN
BY Zenon DEF Disturb

\* So does the fault.
LEMMA CrashType == ASSUME Crash PROVE fault' \in BOOLEAN
BY Zenon DEF Crash

\* Every step keeps the type of both.
LEMMA NextFlags ==
    ASSUME Typed, Next
    PROVE  fault' \in BOOLEAN /\ disturbed' \in BOOLEAN
<1>1. UNCHANGED fault \/ Crash
  BY Zenon DEF Next, Call, BringUp, PciResources, ZeroDevice, MapDevice, SetFeatures, InitSegments,
     SetupQueue, InitQueues, InitPool, DeviceReady, SetHardwareInit, CreateWorker,
     GetModeList, Fails, StartAsk, StartReplied, TakeDown, DestroyResources, Quiesce,
     ResetDevice, Delete, CloseQueues, StopWorker, WakeWorker, JoinWorker, FreeMembers,
     Present, Worker, WorkerWake, WorkerRead, WorkerAsk, WorkerReplied, WorkerClear,
     Interrupt, InterruptRead, Dpc, DpcStart, DpcExchange, DpcCollect, DpcChange, DevServe,
     DevChange
<1>2. UNCHANGED disturbed \/ (\E b : Disturb(b))
  BY Zenon DEF Next, Call, BringUp, PciResources, ZeroDevice, MapDevice, SetFeatures, InitSegments,
     SetupQueue, InitQueues, InitPool, DeviceReady, SetHardwareInit, CreateWorker,
     GetModeList, Fails, StartAsk, StartReplied, TakeDown, DestroyResources, Quiesce,
     ResetDevice, Delete, CloseQueues, StopWorker, WakeWorker, JoinWorker, FreeMembers,
     Present, Worker, WorkerWake, WorkerRead, WorkerAsk, WorkerReplied, WorkerClear,
     Interrupt, InterruptRead, Dpc, DpcStart, DpcExchange, DpcCollect, DpcChange, DevServe,
     DevChange
<1>. QED
  BY <1>1, <1>2, DisturbType, CrashType DEF Typed

\* Every step keeps the type of drv.
LEMMA NextDrv == ASSUME Typed, Next PROVE DrvOK'
<1>. USE DEF Typed
<1>0. UNCHANGED drv => DrvOK'
  BY DEF DrvOK
<1>1. NoQueues \in [Queues -> Rings \cup {NULL}]
  BY DEF NoQueues
<1>2. CASE BringUp
  <2>1. CASE ZeroDevice
    BY <1>1, <2>1 DEF DrvOK, ZeroDevice
  <2>2. CASE MapDevice
    BY <1>0, <2>2 DEF DrvOK, MapDevice
  <2>3. CASE InitSegments
    BY <1>0, <2>3 DEF DrvOK, InitSegments
  <2>4. ASSUME NEW q \in Queues, SetupQueue(q) PROVE DrvOK'
    <3>1. ASSUME NEW r \in Rings, drv' = [drv EXCEPT !.info[q] = r]
          PROVE  DrvOK'
      BY <3>1 DEF DrvOK
    <3>2. ASSUME drv' = [drv EXCEPT !.info = NoQueues]
          PROVE  DrvOK'
      BY <1>1, <3>2 DEF DrvOK
    <3>. QED
      BY <2>4, <3>1, <3>2, Zenon DEF SetupQueue, DeleteQueues
  <2>5. CASE InitQueues
    BY <2>5 DEF DrvOK, InitQueues
  <2>6. CASE SetHardwareInit
    BY <2>6 DEF DrvOK, SetHardwareInit
  <2>7. CASE GetModeList
    BY <1>0, <2>7 DEF DrvOK, GetModeList
  <2>8. PciResources \/ SetFeatures \/ InitPool \/ DeviceReady \/ CreateWorker \/ StartAsk
        \/ StartReplied => UNCHANGED drv
    BY DEF PciResources, SetFeatures, InitPool, DeviceReady, CreateWorker, StartAsk,
       StartReplied, Crash
  <2>. QED
    BY <1>0, <1>2, <2>1, <2>2, <2>3, <2>4, <2>5, <2>6, <2>7, <2>8 DEF BringUp
<1>3. CASE TakeDown
  <2>1. CASE Quiesce
    BY <2>1 DEF DrvOK, Quiesce
  <2>2. CASE Delete
    BY <1>0, <1>1, <2>2 DEF DrvOK, Delete, DeleteQueues
  <2>3. CASE CloseQueues
    BY <1>1, <2>3 DEF DrvOK, CloseQueues
  <2>4. CASE FreeMembers
    BY <2>4 DEF DrvOK, FreeMembers
  <2>5. DestroyResources \/ ResetDevice \/ StopWorker \/ WakeWorker \/ JoinWorker => UNCHANGED drv
    BY DEF DestroyResources, ResetDevice, StopWorker, WakeWorker, JoinWorker, Crash
  <2>. QED
    BY <1>0, <1>3, <2>1, <2>2, <2>3, <2>4, <2>5 DEF TakeDown
<1>4. ASSUME \/ \E op \in DOMAIN Steps : Call(op)
             \/ Present \/ Worker \/ Interrupt \/ InterruptRead \/ Dpc \/ DevServe \/ DevChange
      PROVE  UNCHANGED drv
  BY <1>4, Zenon DEF Call, Present, Worker, WorkerWake, WorkerRead, WorkerAsk, WorkerReplied,
     WorkerClear, Interrupt, InterruptRead, Dpc, DpcStart, DpcExchange, DpcCollect, DpcChange,
     DevServe, DevChange, Crash
<1>. QED
  BY <1>0, <1>2, <1>3, <1>4 DEF Next

\* Every step keeps the type of mem.
LEMMA NextMem == ASSUME Typed, Next PROVE MemOK'
<1>. USE DEF Typed
<1>0. UNCHANGED mem => MemOK'
  BY DEF MemOK
<1>1. ASSUME NEW c \in Cmds, Post(c) PROVE MemOK'
  BY <1>1 DEF MemOK, Post
<1>2. ASSUME NEW c \in Cmds, ReleaseReplied(c) PROVE MemOK'
  BY <1>2 DEF MemOK, ReleaseReplied
<1>3. mem.pool \subseteq Cmds /\ mem.replied \subseteq Cmds
  BY DEF MemOK
<1>4. CASE BringUp
  <2>1. ASSUME NEW q \in Queues, SetupQueue(q) PROVE MemOK'
    <3>1. mem.alloc \subseteq Rings
      BY DEF MemOK
    <3>2. ASSUME NEW r \in Rings \ mem.alloc,
                 mem' = [mem EXCEPT !.alloc = @ \cup {r}, !.posted[r] = {}, !.used[r] = {}]
          PROVE  MemOK'
      BY <3>2 DEF MemOK
    <3>3. DeleteQueues => MemOK'
      BY DEF MemOK, DeleteQueues
    <3>4. ASSUME NEW r \in Rings \ mem.alloc,
                 mem' = [mem EXCEPT !.alloc = (@ \ Range(drv.info)) \cup {r}]
          PROVE  MemOK'
      BY <3>4 DEF MemOK
    <3>. QED
      BY <2>1, <3>2, <3>3, <3>4 DEF SetupQueue
  <2>2. CASE InitPool
    BY <1>0, <2>2 DEF MemOK, InitPool
  <2>3. CASE StartAsk
    BY <1>1, <1>3, <2>3 DEF StartAsk
  <2>4. CASE StartReplied
    BY <1>2, <1>3, <2>4 DEF StartReplied
  <2>5. ASSUME \/ PciResources \/ ZeroDevice \/ MapDevice \/ SetFeatures \/ InitSegments \/ InitQueues
               \/ DeviceReady \/ SetHardwareInit \/ CreateWorker \/ GetModeList
      PROVE  UNCHANGED mem
    BY <2>5 DEF PciResources, ZeroDevice, MapDevice, SetFeatures, InitSegments, InitQueues,
       DeviceReady, SetHardwareInit, CreateWorker, GetModeList, Crash
  <2>. QED
    BY <1>0, <1>4, <2>1, <2>2, <2>3, <2>4, <2>5 DEF BringUp
<1>5. CASE TakeDown
  <2>1. CASE DestroyResources
    BY <1>0, <1>1, <1>3, <2>1 DEF DestroyResources, Crash
  <2>2. CASE Delete
    BY <1>0, <2>2 DEF MemOK, Delete, DeleteQueues
  <2>3. CASE FreeMembers
    BY <2>3 DEF MemOK, FreeMembers
  <2>4. Quiesce \/ ResetDevice \/ CloseQueues \/ StopWorker \/ WakeWorker \/ JoinWorker
        => UNCHANGED mem
    BY DEF Quiesce, ResetDevice, CloseQueues, StopWorker, WakeWorker, JoinWorker, Crash
  <2>. QED
    BY <1>0, <1>5, <2>1, <2>2, <2>3, <2>4 DEF TakeDown
<1>6. CASE Present
  BY <1>0, <1>1, <1>3, <1>6 DEF Present, Crash
<1>7. CASE WorkerAsk
  BY <1>0, <1>1, <1>3, <1>7 DEF WorkerAsk, Crash
<1>8. CASE WorkerReplied
  BY <1>0, <1>2, <1>3, <1>8 DEF WorkerReplied, Crash
<1>9. CASE DpcCollect
  <2>. SUFFICES ASSUME ~UNCHANGED mem PROVE MemOK'
    BY <1>0
  <2>. DEFINE q == drv.queue["ctrl"]
  <2>1. PICK c \in mem.used[q] :
            mem' = IF c \in {os.cmd, worker.cmd}
                   THEN [mem EXCEPT !.used[q] = @ \ {c}, !.replied = @ \cup {c}]
                   ELSE [mem EXCEPT !.used[q] = @ \ {c}, !.pool = @ \cup {c}]
    BY <1>9, Zenon DEF DpcCollect, Crash
  <2>2. q \in Rings
    BY <1>9 DEF DpcCollect, QueueLives, MemOK, Crash
  <2>3. c \in Cmds
    BY <2>2 DEF MemOK
  <2>. QED
    BY <2>1, <2>2, <2>3, Zenon DEF MemOK
<1>10. CASE DevServe
  <2>. DEFINE r == dev.ring["ctrl"]
  <2>1. PICK c \in mem.posted[r] :
            mem' = [mem EXCEPT !.posted[r] = @ \ {c}, !.used[r] = @ \cup {c}]
    BY <1>10 DEF DevServe
  <2>2. r \notin Rings => mem'.posted = mem.posted /\ mem'.used = mem.used
    BY <2>1 DEF MemOK
  <2>. QED
    BY <2>1, <2>2, ZenonT(60) DEF MemOK
<1>11. ASSUME \/ \E op \in DOMAIN Steps : Call(op)
             \/ WorkerWake \/ WorkerRead \/ WorkerClear \/ Interrupt \/ InterruptRead
             \/ DpcStart \/ DpcExchange \/ DpcChange \/ DevChange
      PROVE  UNCHANGED mem
  BY <1>11 DEF Call, WorkerWake, WorkerRead, WorkerClear, Interrupt, InterruptRead, DpcStart,
     DpcExchange, DpcChange, DevChange, Crash
<1>. QED
  BY <1>0, <1>4, <1>5, <1>6, <1>7, <1>8, <1>9, <1>10, <1>11 DEF Next, Worker, Dpc

\* Every step keeps the type of dev.
LEMMA NextDev == ASSUME Typed, Next PROVE DevOK'
<1>. USE DEF Typed
<1>0. UNCHANGED dev => DevOK'
  BY DEF DevOK
<1>1. NoQueues \in [Queues -> Rings \cup {NULL}]
  BY DEF NoQueues
<1>2. Fails => DevOK'
  BY DEF Fails, DevOK
<1>3. CASE BringUp
  <2>1. CASE MapDevice
    <3>1. ASSUME dev' = [dev EXCEPT !.status = {"ACKNOWLEDGE", "DRIVER"}, !.ring = NoQueues,
                                    !.isr = {}]
          PROVE  DevOK'
      BY <1>1, <3>1, Zenon DEF DevOK
    <3>. QED
      BY <1>0, <2>1, <3>1, Zenon DEF MapDevice
  <2>2. CASE SetFeatures
    BY <1>2, <2>2 DEF DevOK, SetFeatures
  <2>3. CASE InitSegments
    BY <1>0, <1>2, <2>3 DEF InitSegments
  <2>4. ASSUME NEW q \in Queues, SetupQueue(q) PROVE DevOK'
    <3>1. ASSUME NEW r \in Rings, dev' = [dev EXCEPT !.ring[q] = r]
          PROVE  DevOK'
      BY <3>1 DEF DevOK
    <3>. QED
      BY <1>2, <2>4, <3>1 DEF SetupQueue
  <2>5. CASE InitPool
    BY <1>0, <1>2, <2>5 DEF InitPool
  <2>6. CASE DeviceReady
    BY <2>6 DEF DevOK, DeviceReady
  <2>7. ASSUME \/ PciResources \/ ZeroDevice \/ InitQueues \/ SetHardwareInit \/ CreateWorker
               \/ GetModeList \/ StartAsk \/ StartReplied
      PROVE  UNCHANGED dev
    BY <2>7 DEF PciResources, ZeroDevice, InitQueues, SetHardwareInit, CreateWorker, GetModeList,
       StartAsk, StartReplied, Crash
  <2>. QED
    BY <1>0, <1>3, <2>1, <2>2, <2>3, <2>4, <2>5, <2>6, <2>7 DEF BringUp
<1>4. CASE TakeDown
  <2>1. CASE ResetDevice
    <3>1. UNCHANGED dev \/ dev' = [dev EXCEPT !.status = {}, !.ring = NoQueues, !.isr = {}]
      BY <2>1 DEF ResetDevice, Crash
    <3>. QED
      BY <1>0, <1>1, <3>1 DEF DevOK
  <2>2. ASSUME \/ DestroyResources \/ Quiesce \/ Delete \/ CloseQueues \/ StopWorker \/ WakeWorker
               \/ JoinWorker \/ FreeMembers
      PROVE  UNCHANGED dev
    BY <2>2 DEF DestroyResources, Quiesce, Delete, CloseQueues, StopWorker, WakeWorker,
       JoinWorker, FreeMembers, Crash
  <2>. QED
    BY <1>0, <1>4, <2>1, <2>2 DEF TakeDown
<1>5. CASE WorkerClear
  BY <1>0, <1>5 DEF DevOK, WorkerClear, Crash
<1>6. CASE InterruptRead
  BY <1>0, <1>6 DEF DevOK, InterruptRead, Crash
<1>7. CASE DevServe
  BY <1>7 DEF DevOK, DevServe
<1>8. CASE DevChange
  <2>1. dev.changes + 1 \in 0..MaxChanges
    BY <1>8, LifecycleAssumption DEF DevOK, DevChange
  <2>. QED
    BY <1>8, <2>1 DEF DevOK, DevChange
<1>9. ASSUME \/ \E op \in DOMAIN Steps : Call(op)
             \/ Present \/ WorkerWake \/ WorkerRead \/ WorkerAsk \/ WorkerReplied \/ Interrupt
             \/ Dpc
      PROVE  UNCHANGED dev
  BY <1>9, Zenon DEF Call, Present, WorkerWake, WorkerRead, WorkerAsk, WorkerReplied, Interrupt,
     Dpc, DpcStart, DpcExchange, DpcCollect, DpcChange, Crash
<1>. QED
  BY <1>0, <1>3, <1>4, <1>5, <1>6, <1>7, <1>8, <1>9 DEF Next, Worker

\* Every step keeps the type of dpc.
LEMMA NextDpc == ASSUME Typed, Next PROVE DpcOK'
<1>. USE DEF Typed
<1>0. UNCHANGED dpc => DpcOK'
  BY DEF DpcOK
<1>1. CASE Interrupt
  BY <1>1 DEF DpcOK, Interrupt
<1>2. CASE InterruptRead
  <2>. SUFFICES ASSUME ~UNCHANGED dpc PROVE DpcOK'
    BY <1>0
  <2>1. dpc' = [dpc EXCEPT !.irq = FALSE,
                   !.queued = @ \/ dev.isr # {},
                   !.pending = @ \cup CASE dev.isr = {} -> {}
                                        [] "CONFIG" \in dev.isr -> {"CHANGE"}
                                        [] OTHER -> {"DISPLAY"}]
    BY <1>2 DEF InterruptRead, Crash
  <2>2. (dpc.queued \/ dev.isr # {}) \in BOOLEAN
    BY Zenon
  <2>. QED
    BY <2>1, <2>2 DEF DpcOK
<1>3. CASE DpcStart
  BY <1>3 DEF DpcOK, DrvOK, DpcStart
<1>4. CASE DpcExchange
  <2>1. (dpc.pending # {}) \in BOOLEAN
    BY Zenon
  <2>. QED
    BY <1>4, <2>1 DEF DpcOK, DpcExchange
<1>5. CASE DpcCollect
  <2>1. UNCHANGED dpc \/ dpc' = [dpc EXCEPT !.reason = @ \ {"DISPLAY"}]
    BY <1>5 DEF DpcCollect, Crash
  <2>. QED
    BY <1>0, <2>1 DEF DpcOK
<1>6. CASE DpcChange
  BY <1>6 DEF DpcOK, DpcChange
<1>7. ASSUME \/ \E op \in DOMAIN Steps : Call(op)
             \/ BringUp \/ TakeDown \/ Present \/ Worker \/ DevServe \/ DevChange
      PROVE  UNCHANGED dpc
  BY <1>7, Zenon DEF Call, BringUp, PciResources, ZeroDevice, MapDevice, SetFeatures, InitSegments,
     SetupQueue, InitQueues, InitPool, DeviceReady, SetHardwareInit, CreateWorker,
     GetModeList, Fails, StartAsk, StartReplied, TakeDown, DestroyResources, Quiesce,
     ResetDevice, Delete, CloseQueues, StopWorker, WakeWorker, JoinWorker, FreeMembers,
     Present, Worker, WorkerWake, WorkerRead, WorkerAsk, WorkerReplied, WorkerClear,
     DevServe, DevChange, Crash
<1>. QED
  BY <1>0, <1>1, <1>2, <1>3, <1>4, <1>5, <1>6, <1>7 DEF Next, Dpc

\* Every step keeps the type of worker.
LEMMA NextWorker == ASSUME Typed, Next PROVE WorkerOK'
<1>. USE DEF Typed
<1>0. UNCHANGED worker => WorkerOK'
  BY DEF WorkerOK
<1>1. CASE CreateWorker
  BY <1>0, <1>1 DEF WorkerOK, CreateWorker
<1>2. CASE StopWorker
  BY <1>2 DEF WorkerOK, StopWorker
<1>3. CASE WakeWorker
  BY <1>3 DEF WorkerOK, WakeWorker
<1>4. CASE WorkerWake
  BY <1>4 DEF WorkerOK, WorkerWake
<1>5. CASE WorkerRead
  BY <1>0, <1>5 DEF WorkerOK, WorkerRead, Crash
<1>6. CASE WorkerAsk
  <2>1. mem.pool \subseteq Cmds
    BY DEF MemOK
  <2>. QED
    BY <1>0, <1>6, <2>1, ZenonT(60) DEF WorkerOK, WorkerAsk, Crash
<1>7. CASE WorkerReplied
  BY <1>0, <1>7 DEF WorkerOK, WorkerReplied, Crash
<1>8. CASE WorkerClear
  BY <1>0, <1>8 DEF WorkerOK, WorkerClear, Crash
<1>9. CASE DpcChange
  BY <1>9 DEF WorkerOK, DpcChange
<1>10. ASSUME BringUp, ~CreateWorker PROVE UNCHANGED worker
  BY <1>10 DEF BringUp, PciResources, ZeroDevice, MapDevice, SetFeatures, InitSegments,
     SetupQueue, InitQueues, InitPool, DeviceReady, SetHardwareInit,
     GetModeList, Fails, StartAsk, StartReplied, Crash
<1>11. ASSUME TakeDown, ~StopWorker, ~WakeWorker PROVE UNCHANGED worker
  BY <1>11 DEF TakeDown, DestroyResources, Quiesce, ResetDevice, Delete, CloseQueues,
     JoinWorker, FreeMembers, Crash
<1>12. ASSUME \/ \E op \in DOMAIN Steps : Call(op)
              \/ Present \/ Interrupt \/ InterruptRead \/ DpcStart \/ DpcExchange \/ DpcCollect
              \/ DevServe \/ DevChange
      PROVE  UNCHANGED worker
  BY <1>12, Zenon DEF Call, Present, Interrupt, InterruptRead, DpcStart, DpcExchange, DpcCollect,
     DevServe, DevChange, Crash
<1>. QED
  BY <1>0, <1>1, <1>2, <1>3, <1>4, <1>5, <1>6, <1>7, <1>8, <1>9, <1>10, <1>11, <1>12
  DEF Next, Worker, Dpc

\* Every step keeps the type invariant.
LEMMA NextType == ASSUME TypeOK, [Next]_vars PROVE TypeOK'
<1>1. CASE Next
  <2>1. Typed
    BY TypeParts
  <2>2. Typed'
    BY <1>1, <2>1, NextFlags, NextDrv, NextMem, NextDev, NextDpc, NextWorker DEF Typed
  <2>3. OsOK'
    BY <1>1, NextOs
  <2>4. TypeOK' <=> OsOK' /\ Typed'
    BY Zenon DEF TypeOK, OsOK, Typed, DrvOK, MemOK, DevOK, DpcOK, WorkerOK
  <2>. QED
    BY <2>2, <2>3, <2>4
<1>2. CASE UNCHANGED vars
  BY <1>2 DEF TypeOK, vars
<1>. QED
  BY <1>1, <1>2

\* TypeOK holds in every reachable state.
THEOREM TypeCorrect == Spec => []TypeOK
BY InitType, NextType, PTL DEF Spec

-----------------------------------------------------------------------------
(* A step of a call                                                        *)

\* The call is at its next step.
Onward == /\ os'.op = os.op /\ os'.at = os.at + 1
          /\ os'.life = os.life /\ os'.powered = os.powered
\* The call has returned.
Over(success) ==
    /\ os'.op = "none" /\ os'.powered = (os.op # "down")
    /\ os'.life = CASE os.op = "start" -> IF success THEN "started" ELSE "failed"
                    [] os.op = "remove" -> "gone"
                    [] OTHER -> os.life
\* A power-up is at the first step of its second round.
SecondRound == os'.op = "up" /\ os'.at = 9 /\ os'.life = os.life /\ os'.powered = os.powered

\* What Return makes of the call.
LEMMA ReturnEffect ==
    ASSUME OsOK, NEW success \in BOOLEAN, Return(success)
    PROVE  Over(success)
<1>1. os' = [op |-> "none", at |-> 0, powered |-> os.op # "down", cmd |-> NULL,
             life |-> CASE os.op = "start" -> IF success THEN "started" ELSE "failed"
                        [] os.op = "remove" -> "gone"
                        [] OTHER -> os.life,
             ups |-> os.ups]
  BY DEF Return, OsOK
<1>. QED
  BY <1>1 DEF Over

\* The last step of a list.
LastStep == \/ Where("start", 15) \/ Where("up", 16)
            \/ Where("down", 8) \/ Where("remove", 9)

\* There is a next step exactly if this one is not the last.
LEMMA LastIsLast ==
    ASSUME OsOK, os.op # "none"
    PROVE  os.at < Len(Steps[os.op]) <=> ~LastStep
<1>1. os.op \in DOMAIN Steps /\ os.at \in DOMAIN Steps[os.op]
  BY DEF OsOK
<1>2. CASE os.op = "start"
  <2>1. Len(Steps[os.op]) = 15 /\ os.at \in 1..15
    BY <1>1, <1>2, StartTable
  <2>. QED
    BY <1>2, <2>1 DEF LastStep, Where
<1>3. CASE os.op = "up"
  <2>1. Len(Steps[os.op]) = 16 /\ os.at \in 1..16
    BY <1>1, <1>3, UpTable
  <2>. QED
    BY <1>3, <2>1 DEF LastStep, Where
<1>4. CASE os.op = "down"
  <2>1. Len(Steps[os.op]) = 8 /\ os.at \in 1..8
    BY <1>1, <1>4, DownTable
  <2>. QED
    BY <1>4, <2>1 DEF LastStep, Where
<1>5. CASE os.op = "remove"
  <2>1. Len(Steps[os.op]) = 9 /\ os.at \in 1..9
    BY <1>1, <1>5, RemoveTable
  <2>. QED
    BY <1>5, <2>1 DEF LastStep, Where
<1>. QED
  BY <1>1, <1>2, <1>3, <1>4, <1>5, StartTable

\* What going on makes of the call.
LEMMA ProceedEffect ==
    ASSUME OsOK, os.op # "none", Proceed
    PROVE  IF LastStep THEN Over(TRUE) ELSE Onward
<1>1. CASE LastStep
  BY <1>1, LastIsLast, ReturnEffect DEF Proceed
<1>2. CASE ~LastStep
  <2>1. os' = [os EXCEPT !.at = @ + 1]
    BY <1>2, LastIsLast DEF Proceed
  <2>2. Onward
    BY <2>1 DEF OsOK, Onward
  <2>. QED
    BY <1>2, <2>2
<1>. QED
  BY <1>1, <1>2

\* What giving up makes of the call.
LEMMA GiveUpEffect ==
    ASSUME OsOK, os.op # "none", GiveUp
    PROVE  IF os.op = "up" /\ os.at <= 8 THEN SecondRound ELSE Over(FALSE)
<1>1. CASE os.op = "up" /\ os.at <= 8
  BY <1>1, ListFacts DEF GiveUp, SecondRound, OsOK
<1>2. CASE ~(os.op = "up" /\ os.at <= 8)
  BY <1>2, ListFacts, ReturnEffect DEF GiveUp
<1>. QED
  BY <1>1, <1>2

\* What a call makes of os.
LEMMA CallEffect ==
    ASSUME OsOK, NEW op \in DOMAIN Steps, Call(op)
    PROVE  os'.op = op /\ os'.at = 1 /\ os'.life = os.life /\ os'.powered = os.powered
BY DEF Call, OsOK

-----------------------------------------------------------------------------
(* What the device may use, and the worker's end                           *)

\* The call in progress is op, at one of its steps first to last.
OpAt(op, first, last) == os.op = op /\ first <= os.at /\ os.at <= last

\* The device may use its virtqueues.
Driven == "DRIVER_OK" \in dev.status

\* Device and transport know the same virtqueue, which is there.
RingsOf(q) == dev.ring[q] = drv.info[q] /\ drv.info[q] \in mem.alloc

\* Driven only from the end of an initialisation to the next reset, which an
\* adapter that has virtio_init gets; in between nothing is deleted.
DeviceInv ==
    /\ Driven => drv.virtio_init /\ \A q \in Queues : dev.ring[q] \in mem.alloc
    /\ os.life = "started" => drv.segments
    /\ os.life = "new" /\ os.op # "start" => ~Driven
    /\ os.op = "start" => os.life = "new"
    /\ OpAt("start", 1, 10) => ~Driven
    /\ OpAt("start", 6, 15) => drv.segments
    /\ os.op \in {"up", "down"} => os.life = "started"
    /\ os.op = "remove" => os.life \in {"started", "failed"}
    /\ OpAt("up", 3, 7) \/ OpAt("up", 11, 15) => ~Driven
    /\ OpAt("start", 7, 10) \/ OpAt("up", 5, 7) \/ OpAt("up", 13, 15) => RingsOf("ctrl")
    /\ OpAt("start", 8, 10) \/ OpAt("up", 6, 7) \/ OpAt("up", 14, 15) => RingsOf("crsr")
    /\ OpAt("start", 4, 15) \/ OpAt("up", 3, 8) \/ OpAt("up", 11, 16) => drv.virtio_init
    /\ OpAt("down", 3, 8) \/ OpAt("remove", 4, 9) => ~Driven

\* No worker before it is created, none after it was waited for.
WorkerInv ==
    /\ os.life = "new" /\ (os.op = "start" => os.at <= 12) => worker.pc = "none"
    /\ OpAt("remove", 9, 9) \/ os.life = "gone" => worker.pc \in {"none", "gone"}

\* Both invariants hold at first.
LEMMA InitDevice == Init => DeviceInv /\ WorkerInv
BY DEF Init, DeviceInv, WorkerInv, Driven, OpAt

\* Where the call stands, what the device was given, and what it can reach.
SameCall == os'.op = os.op /\ os'.at = os.at /\ os'.life = os.life
\* Nothing that DeviceInv speaks of changes.
SameDevice ==
    /\ dev'.status = dev.status /\ dev'.ring = dev.ring
    /\ drv'.virtio_init = drv.virtio_init /\ drv'.segments = drv.segments
    /\ drv'.info = drv.info /\ mem'.alloc = mem.alloc
\* The worker is not created, and does not return.
EndIsFinal == worker.pc \in {"none", "gone"} => worker'.pc = worker.pc

\* A step that changes none of this keeps both invariants.
LEMMA SameInv ==
    ASSUME DeviceInv, WorkerInv, SameCall, SameDevice, EndIsFinal
    PROVE  DeviceInv' /\ WorkerInv'
<1>1. Driven' = Driven /\ (\A q \in Queues : RingsOf(q)' = RingsOf(q))
      /\ (\A op, i, j : OpAt(op, i, j)' = OpAt(op, i, j))
  BY DEF SameDevice, SameCall, Driven, RingsOf, OpAt
<1>2. DeviceInv'
  BY <1>1 DEF DeviceInv, SameCall, SameDevice, Queues
<1>3. WorkerInv'
  BY <1>1 DEF WorkerInv, SameCall, EndIsFinal
<1>. QED
  BY <1>2, <1>3

\* A new call keeps both invariants.
LEMMA CallDevice ==
    ASSUME TypeOK, DeviceInv, WorkerInv, NEW op \in DOMAIN Steps, Call(op)
    PROVE  DeviceInv' /\ WorkerInv'
<1>1. /\ os'.op = op /\ os'.at = 1 /\ os'.life = os.life
      /\ os.op = "none" /\ UNCHANGED <<drv, mem, dev, worker>>
  BY CallEffect, TypeParts DEF Call
<1>2. /\ op = "start" => os.life = "new"
      /\ op \in {"up", "down"} => os.life = "started"
      /\ op = "remove" => os.life \in {"started", "failed"}
  BY DEF Call
<1>3. op \in {"start", "up", "down", "remove"}
  BY StartTable
<1>. QED
  BY <1>1, <1>2, <1>3 DEF DeviceInv, WorkerInv, Driven, RingsOf, OpAt

\* The steps of bringing the adapter up, one after the other.
LEMMA BringUpDevice ==
    ASSUME TypeOK, DeviceInv, WorkerInv, BringUp
    PROVE  DeviceInv' /\ WorkerInv'
<1>1. OsOK /\ DrvOK /\ MemOK /\ DevOK /\ WorkerOK
  BY TypeParts DEF Typed
<1>2. os.op # "none"
  BY DEF BringUp, At, PciResources, ZeroDevice, MapDevice, SetFeatures, InitSegments,
     SetupQueue, InitQueues, InitPool, DeviceReady, SetHardwareInit, CreateWorker,
     GetModeList, StartAsk, StartReplied
<1>3. os.at \in 0..20 /\ os.op \in {"start", "up", "down", "remove"}
  BY <1>1, <1>2, StartTable DEF OsOK
<1>4. Proceed => IF LastStep THEN Over(TRUE) ELSE Onward
  BY <1>1, <1>2, ProceedEffect
<1>5. GiveUp => IF os.op = "up" /\ os.at <= 8 THEN SecondRound ELSE Over(FALSE)
  BY <1>1, <1>2, GiveUpEffect
<1>. USE DEF DeviceInv, WorkerInv, Driven, RingsOf, OpAt, Where, Onward, Over, SecondRound,
             LastStep
<1>6. ASSUME Fails, drv'.virtio_init = drv.virtio_init,
             drv'.segments = drv.segments \/ os.op = "start",
             ~Driven, os.op \in {"start", "up"}
      PROVE  DeviceInv' /\ WorkerInv'
  <2>1. Driven' = FALSE /\ dev'.ring = dev.ring /\ UNCHANGED worker
    BY <1>1, <1>6 DEF Fails, DevOK
  <2>2. CASE os.op = "up" /\ os.at <= 8
    BY <1>5, <1>6, <2>1, <2>2 DEF Fails
  <2>3. CASE ~(os.op = "up" /\ os.at <= 8)
    BY <1>3, <1>5, <1>6, <2>1, <2>3 DEF Fails
  <2>. QED
    BY <2>2, <2>3
<1>7. CASE PciResources
  <2>1. Where("start", 1)
    BY <1>1, <1>7, Placed DEF PciResources
  <2>2. UNCHANGED <<drv, mem, dev, worker>> /\ (Proceed \/ UNCHANGED os)
    BY <1>7 DEF PciResources, Crash
  <2>3. CASE Proceed
    BY <1>4, <2>1, <2>2, <2>3
  <2>4. CASE UNCHANGED os
    BY <2>2, <2>4
  <2>. QED
    BY <2>2, <2>3, <2>4
<1>8. CASE ZeroDevice
  <2>1. Where("start", 2) \/ Where("up", 1) \/ Where("up", 9)
    BY <1>1, <1>8, Placed DEF ZeroDevice
  <2>2. drv'.virtio_init = drv.virtio_init /\ drv'.segments = drv.segments
        /\ UNCHANGED <<mem, dev, worker>>
    BY <1>1, <1>8 DEF ZeroDevice, DrvOK
  <2>. QED
    BY <1>4, <1>8, <2>1, <2>2 DEF ZeroDevice
<1>9. CASE MapDevice
  <2>1. Where("start", 3) \/ Where("up", 2) \/ Where("up", 10)
    BY <1>1, <1>9, Placed DEF MapDevice
  <2>2. UNCHANGED <<mem, worker>>
    BY <1>9 DEF MapDevice
  <2>3. ASSUME drv' = [drv EXCEPT !.mapped = TRUE, !.virtio_init = TRUE],
               dev' = [dev EXCEPT !.status = {"ACKNOWLEDGE", "DRIVER"}, !.ring = NoQueues,
                                  !.isr = {}],
               Proceed
        PROVE  DeviceInv' /\ WorkerInv'
    <3>1. drv'.virtio_init /\ drv'.segments = drv.segments /\ Driven' = FALSE
      BY <1>1, <2>3 DEF DrvOK, DevOK
    <3>. QED
      BY <1>4, <2>1, <2>2, <2>3, <3>1
  <2>4. ASSUME GiveUp, UNCHANGED <<drv, dev>> PROVE DeviceInv' /\ WorkerInv'
    BY <1>5, <2>1, <2>2, <2>4
  <2>. QED
    BY <1>9, <2>3, <2>4 DEF MapDevice
<1>10. CASE SetFeatures
  <2>1. Where("start", 4) \/ Where("up", 3) \/ Where("up", 11)
    BY <1>1, <1>10, Placed DEF SetFeatures
  <2>2. UNCHANGED <<drv, mem>> /\ ~Driven
    BY <1>10, <2>1 DEF SetFeatures
  <2>3. ASSUME dev' = [dev EXCEPT !.status = @ \cup {"FEATURES_OK"}], Proceed, UNCHANGED worker
        PROVE  DeviceInv' /\ WorkerInv'
    <3>1. Driven' = FALSE
      BY <1>1, <2>2, <2>3 DEF DevOK
    <3>. QED
      BY <1>4, <2>1, <2>2, <2>3, <3>1
  <2>. QED
    BY <1>6, <1>10, <2>1, <2>2, <2>3 DEF SetFeatures
<1>11. CASE InitSegments
  <2>1. Where("start", 5)
    BY <1>1, <1>11, Placed DEF InitSegments
  <2>2. UNCHANGED mem /\ ~Driven
    BY <1>11, <2>1 DEF InitSegments
  <2>3. CASE drv' = [drv EXCEPT !.segments = TRUE] /\ Proceed /\ UNCHANGED <<dev, worker>>
    <3>1. drv'.virtio_init = drv.virtio_init /\ drv'.segments
      BY <1>1, <2>3 DEF DrvOK
    <3>. QED
      BY <1>4, <2>1, <2>2, <2>3, <3>1
  <2>4. CASE drv' \in {drv, [drv EXCEPT !.segments = TRUE]} /\ Fails
    <3>1. drv'.virtio_init = drv.virtio_init
      BY <1>1, <2>4 DEF DrvOK
    <3>. QED
      BY <1>6, <2>1, <2>2, <2>4, <3>1
  <2>. QED
    BY <1>11, <2>3, <2>4 DEF InitSegments
<1>12. ASSUME NEW q \in Queues, SetupQueue(q) PROVE DeviceInv' /\ WorkerInv'
  <2>1. /\ q = "ctrl" => Where("start", 6) \/ Where("up", 4) \/ Where("up", 12)
        /\ q = "crsr" => Where("start", 7) \/ Where("up", 5) \/ Where("up", 13)
        /\ q \in {"ctrl", "crsr"}
    BY <1>1, <1>12, Placed DEF SetupQueue, Queues
  <2>2. ~Driven /\ os.op \in {"start", "up"}
    BY <2>1
  <2>3. ASSUME NEW r \in Rings \ mem.alloc,
               mem' = [mem EXCEPT !.alloc = @ \cup {r}, !.posted[r] = {}, !.used[r] = {}],
               drv' = [drv EXCEPT !.info[q] = r],
               dev' = [dev EXCEPT !.ring[q] = r],
               Proceed, UNCHANGED worker
        PROVE  DeviceInv' /\ WorkerInv'
    <3>1. mem'.alloc = mem.alloc \cup {r} /\ dev'.status = dev.status
          /\ drv'.virtio_init = drv.virtio_init /\ drv'.segments = drv.segments
      BY <1>1, <2>3 DEF MemOK, DrvOK, DevOK
    <3>2. \A p \in Queues : /\ drv'.info[p] = IF p = q THEN r ELSE drv.info[p]
                            /\ dev'.ring[p] = IF p = q THEN r ELSE dev.ring[p]
      BY <1>1, <2>3 DEF DrvOK, DevOK
    <3>3. CASE q = "ctrl"
      BY <1>4, <2>1, <2>2, <2>3, <3>1, <3>2, <3>3 DEF Queues
    <3>4. CASE q = "crsr"
      BY <1>4, <2>1, <2>2, <2>3, <3>1, <3>2, <3>4 DEF Queues
    <3>. QED
      BY <2>1, <3>3, <3>4
  <2>4. ASSUME drv' = [drv EXCEPT !.info = NoQueues], Fails
        PROVE  DeviceInv' /\ WorkerInv'
    <3>1. drv'.virtio_init = drv.virtio_init /\ drv'.segments = drv.segments
      BY <1>1, <2>4 DEF DrvOK
    <3>. QED
      BY <1>6, <2>2, <2>4, <3>1
  <2>. QED
    BY <1>12, <2>3, <2>4, Zenon DEF SetupQueue, DeleteQueues
<1>13. CASE InitQueues
  <2>1. Where("start", 8) \/ Where("up", 6) \/ Where("up", 14)
    BY <1>1, <1>13, Placed DEF InitQueues
  <2>2. drv'.virtio_init = drv.virtio_init /\ drv'.segments = drv.segments
        /\ drv'.info = drv.info /\ UNCHANGED <<mem, dev, worker>>
    BY <1>1, <1>13 DEF InitQueues, DrvOK
  <2>. QED
    BY <1>4, <1>13, <2>1, <2>2 DEF InitQueues
<1>14. CASE InitPool
  <2>1. Where("start", 9)
    BY <1>1, <1>14, Placed DEF InitPool
  <2>2. UNCHANGED drv /\ mem'.alloc = mem.alloc
    BY <1>1, <1>14 DEF InitPool, MemOK
  <2>3. CASE Proceed /\ UNCHANGED <<dev, worker>>
    BY <1>4, <2>1, <2>2, <2>3
  <2>. QED
    BY <1>6, <1>14, <2>1, <2>2, <2>3 DEF InitPool
<1>15. CASE DeviceReady
  <2>1. Where("start", 10) \/ Where("up", 7) \/ Where("up", 15)
    BY <1>1, <1>15, Placed DEF DeviceReady
  <2>2. UNCHANGED <<drv, mem, worker>> /\ dev'.ring = dev.ring
    BY <1>1, <1>15 DEF DeviceReady, DevOK
  <2>3. drv.virtio_init /\ \A q \in Queues : dev.ring[q] \in mem.alloc
    BY <2>1 DEF Queues
  <2>. QED
    BY <1>4, <1>15, <2>1, <2>2, <2>3 DEF DeviceReady
<1>16. CASE SetHardwareInit
  <2>1. Where("start", 11) \/ Where("up", 8) \/ Where("up", 16)
    BY <1>1, <1>16, Placed DEF SetHardwareInit
  <2>2. drv'.virtio_init = drv.virtio_init /\ drv'.segments = drv.segments
        /\ drv'.info = drv.info /\ UNCHANGED <<mem, dev, worker>>
    BY <1>1, <1>16 DEF SetHardwareInit, DrvOK
  <2>. QED
    BY <1>4, <1>16, <2>1, <2>2 DEF SetHardwareInit
<1>17. CASE CreateWorker
  <2>1. Where("start", 12)
    BY <1>1, <1>17, Placed DEF CreateWorker
  <2>2. UNCHANGED <<drv, mem, dev>> /\ (Proceed \/ GiveUp)
    BY <1>17 DEF CreateWorker
  <2>. QED
    BY <1>4, <1>5, <2>1, <2>2
<1>18. CASE GetModeList
  <2>1. Where("start", 13)
    BY <1>1, <1>18, Placed DEF GetModeList
  <2>2. UNCHANGED <<mem, dev>> /\ (Proceed \/ GiveUp)
    BY <1>18 DEF GetModeList
  <2>3. drv'.virtio_init = drv.virtio_init /\ drv'.segments = drv.segments
        /\ drv'.info = drv.info
    BY <1>1, <1>18 DEF GetModeList, DrvOK
  <2>. QED
    BY <1>4, <1>5, <2>1, <2>2, <2>3
<1>19. CASE StartAsk
  <2>1. Where("start", 14)
    BY <1>1, <1>19, Placed DEF StartAsk
  <2>2. UNCHANGED <<drv, dev>> /\ mem'.alloc = mem.alloc
    BY <1>1, <1>19 DEF StartAsk, Post, MemOK
  <2>3. Onward
    BY <1>1, <1>19 DEF StartAsk, OsOK
  <2>. QED
    BY <2>1, <2>2, <2>3
<1>20. CASE StartReplied
  <2>1. Where("start", 15)
    BY <1>1, <1>20, Placed DEF StartReplied
  <2>2. UNCHANGED <<drv, dev>> /\ mem'.alloc = mem.alloc
    BY <1>1, <1>20 DEF StartReplied, ReleaseReplied, MemOK
  <2>3. Over(TRUE) \/ Over(FALSE)
    BY <1>1, <1>20, ReturnEffect DEF StartReplied
  <2>. QED
    BY <2>1, <2>2, <2>3
<1>. QED
  BY <1>7, <1>8, <1>9, <1>10, <1>11, <1>12, <1>13, <1>14, <1>15, <1>16, <1>17, <1>18, <1>19,
     <1>20 DEF BringUp

\* The steps of taking it down.
LEMMA TakeDownDevice ==
    ASSUME TypeOK, DeviceInv, WorkerInv, TakeDown
    PROVE  DeviceInv' /\ WorkerInv'
<1>1. OsOK /\ DrvOK /\ MemOK /\ DevOK /\ WorkerOK
  BY TypeParts DEF Typed
<1>2. os.op # "none"
  BY DEF TakeDown, At, DestroyResources, Quiesce, ResetDevice, Delete, CloseQueues,
     StopWorker, WakeWorker, JoinWorker, FreeMembers
<1>3. os.at \in 0..20
  BY <1>1 DEF OsOK
<1>4. Proceed => IF LastStep THEN Over(TRUE) ELSE Onward
  BY <1>1, <1>2, ProceedEffect
<1>. USE DEF DeviceInv, WorkerInv, Driven, RingsOf, OpAt, Where, Onward, Over, LastStep
<1>5. CASE DestroyResources
  <2>1. Where("remove", 1)
    BY <1>1, <1>5, Placed DEF DestroyResources
  <2>2. UNCHANGED <<drv, dev, worker>> /\ mem'.alloc = mem.alloc /\ (Proceed \/ UNCHANGED os)
    BY <1>1, <1>5 DEF DestroyResources, Post, Crash, MemOK
  <2>3. CASE UNCHANGED os
    BY <2>2, <2>3
  <2>. QED
    BY <1>4, <2>1, <2>2, <2>3
<1>6. CASE Quiesce
  <2>1. Where("down", 1) \/ Where("down", 5) \/ Where("remove", 2)
    BY <1>1, <1>6, Placed DEF Quiesce
  <2>2. drv'.virtio_init = drv.virtio_init /\ drv'.segments = drv.segments
        /\ drv'.info = drv.info /\ UNCHANGED <<mem, dev, worker>> /\ Proceed
    BY <1>1, <1>6 DEF Quiesce, DrvOK
  <2>. QED
    BY <1>4, <2>1, <2>2
<1>7. CASE ResetDevice
  <2>1. Where("down", 2) \/ Where("down", 6) \/ Where("remove", 3)
    BY <1>1, <1>7, Placed DEF ResetDevice
  <2>2. CASE drv.virtio_init /\ ~drv.mapped
    <3>1. UNCHANGED <<os, drv, mem, dev, worker>>
      BY <1>7, <2>2 DEF ResetDevice, Crash
    <3>. QED
      BY <3>1
  <2>3. CASE ~(drv.virtio_init /\ ~drv.mapped)
    <3>1. UNCHANGED <<drv, mem, worker>> /\ Proceed
      BY <1>7, <2>3 DEF ResetDevice
    <3>2. dev' = IF drv.virtio_init
                 THEN [dev EXCEPT !.status = {}, !.ring = NoQueues, !.isr = {}] ELSE dev
      BY <1>7, <2>3 DEF ResetDevice
    <3>3. ~Driven'
      <4>1. CASE drv.virtio_init
        BY <1>1, <3>2, <4>1 DEF DevOK
      <4>2. CASE ~drv.virtio_init
        BY <3>2, <4>2
      <4>. QED
        BY <4>1, <4>2
    <3>. QED
      BY <1>4, <2>1, <3>1, <3>3
  <2>. QED
    BY <2>2, <2>3
<1>8. CASE Delete
  <2>1. Where("down", 3) \/ Where("down", 7) \/ Where("remove", 4)
    BY <1>1, <1>8, Placed DEF Delete
  <2>2. drv'.virtio_init = drv.virtio_init /\ drv'.segments = drv.segments
        /\ UNCHANGED <<dev, worker>> /\ Proceed
    BY <1>1, <1>8 DEF Delete, DeleteQueues, DrvOK
  <2>. QED
    BY <1>4, <2>1, <2>2
<1>9. CASE CloseQueues
  <2>1. Where("down", 4) \/ Where("down", 8) \/ Where("remove", 5)
    BY <1>1, <1>9, Placed DEF CloseQueues
  <2>2. drv'.segments = drv.segments /\ UNCHANGED <<dev, worker>> /\ Proceed
    BY <1>1, <1>9 DEF CloseQueues, DrvOK
  <2>. QED
    BY <1>4, <2>1, <2>2
<1>10. CASE StopWorker
  <2>1. Where("remove", 6)
    BY <1>1, <1>10, Placed DEF StopWorker
  <2>2. UNCHANGED <<drv, mem, dev>> /\ worker'.pc = worker.pc /\ Proceed
    BY <1>1, <1>10 DEF StopWorker, WorkerOK
  <2>. QED
    BY <1>4, <2>1, <2>2
<1>11. CASE WakeWorker
  <2>1. Where("remove", 7)
    BY <1>1, <1>11, Placed DEF WakeWorker
  <2>2. UNCHANGED <<drv, mem, dev>> /\ worker'.pc = worker.pc /\ Proceed
    BY <1>1, <1>11 DEF WakeWorker, WorkerOK
  <2>. QED
    BY <1>4, <2>1, <2>2
<1>12. CASE JoinWorker
  <2>1. Where("remove", 8)
    BY <1>1, <1>12, Placed DEF JoinWorker
  <2>2. UNCHANGED <<drv, mem, dev, worker>> /\ worker.pc \in {"none", "gone"} /\ Proceed
    BY <1>12 DEF JoinWorker
  <2>. QED
    BY <1>4, <2>1, <2>2
<1>13. CASE FreeMembers
  <2>1. Where("remove", 9)
    BY <1>1, <1>13, Placed DEF FreeMembers
  <2>2. UNCHANGED <<dev, worker>> /\ Proceed
    BY <1>13 DEF FreeMembers
  <2>. QED
    BY <1>4, <2>1, <2>2
<1>. QED
  BY <1>5, <1>6, <1>7, <1>8, <1>9, <1>10, <1>11, <1>12, <1>13 DEF TakeDown

\* What runs beside the calls: presents, the worker, the interrupt, the DPC, the device.
Beside == \/ Present \/ Worker \/ Interrupt \/ InterruptRead \/ Dpc \/ DevServe \/ DevChange

\* What runs beside the calls changes nothing that the invariants speak of.
LEMMA BesideDevice ==
    ASSUME TypeOK, Beside
    PROVE  SameCall /\ SameDevice /\ EndIsFinal
<1>1. MemOK /\ DevOK /\ WorkerOK
  BY TypeParts DEF Typed
<1>2. UNCHANGED <<os, drv>>
  BY Zenon DEF Beside, Present, Worker, WorkerWake, WorkerRead, WorkerAsk, WorkerReplied, WorkerClear,
     Interrupt, InterruptRead, Dpc, DpcStart, DpcExchange, DpcCollect, DpcChange, DevServe,
     DevChange, Crash
<1>3. mem'.alloc = mem.alloc
  <2>1. CASE Present
    BY <1>1, <2>1, Zenon DEF Present, Post, Crash, MemOK
  <2>2. CASE WorkerAsk
    BY <1>1, <2>2 DEF WorkerAsk, Post, Crash, MemOK
  <2>3. CASE WorkerReplied
    BY <1>1, <2>3 DEF WorkerReplied, ReleaseReplied, Crash, MemOK
  <2>4. CASE DpcCollect
    BY <1>1, <2>4 DEF DpcCollect, Crash, MemOK
  <2>5. CASE DevServe
    BY <1>1, <2>5 DEF DevServe, MemOK
  <2>6. ASSUME ~Present, ~WorkerAsk, ~WorkerReplied, ~DpcCollect, ~DevServe
        PROVE  UNCHANGED mem
    BY <2>6 DEF Beside, Worker, WorkerWake, WorkerRead, WorkerClear, Interrupt, InterruptRead,
       Dpc, DpcStart, DpcExchange, DpcChange, DevChange, Crash
  <2>. QED
    BY <2>1, <2>2, <2>3, <2>4, <2>5, <2>6
<1>4. dev'.status = dev.status /\ dev'.ring = dev.ring
  <2>1. CASE WorkerClear
    BY <1>1, <2>1 DEF WorkerClear, Crash, DevOK
  <2>2. CASE InterruptRead
    BY <1>1, <2>2 DEF InterruptRead, Crash, DevOK
  <2>3. CASE DevServe
    BY <1>1, <2>3 DEF DevServe, DevOK
  <2>4. CASE DevChange
    BY <1>1, <2>4 DEF DevChange, DevOK
  <2>5. ASSUME ~WorkerClear, ~InterruptRead, ~DevServe, ~DevChange
        PROVE  UNCHANGED dev
    BY <2>5, Zenon DEF Beside, Present, Worker, WorkerWake, WorkerRead, WorkerAsk, WorkerReplied,
       Interrupt, Dpc, DpcStart, DpcExchange, DpcCollect, DpcChange, Crash
  <2>. QED
    BY <2>1, <2>2, <2>3, <2>4, <2>5
<1>5. EndIsFinal
  <2>1. CASE Worker
    BY <2>1 DEF EndIsFinal, Worker, WorkerWake, WorkerRead, WorkerAsk, WorkerReplied,
       WorkerClear, Crash
  <2>2. CASE DpcChange
    BY <1>1, <2>2 DEF EndIsFinal, DpcChange, WorkerOK
  <2>3. ASSUME ~Worker, ~DpcChange PROVE UNCHANGED worker
    BY <2>3, Zenon DEF Beside, Present, Interrupt, InterruptRead, Dpc, DpcStart, DpcExchange,
       DpcCollect, DevServe, DevChange, Crash
  <2>. QED
    BY <2>1, <2>2, <2>3 DEF EndIsFinal
<1>. QED
  BY <1>2, <1>3, <1>4, <1>5 DEF SameCall, SameDevice

\* Every step keeps both invariants.
LEMMA NextDevice ==
    ASSUME TypeOK, DeviceInv, WorkerInv, [Next]_vars
    PROVE  DeviceInv' /\ WorkerInv'
<1>1. CASE Next
  BY <1>1, CallDevice, BringUpDevice, TakeDownDevice, BesideDevice, SameInv DEF Next, Beside
<1>2. CASE UNCHANGED vars
  BY <1>2, SameInv DEF vars, SameCall, SameDevice, EndIsFinal
<1>. QED
  BY <1>1, <1>2

\* The driver and the device agree on what the device may use, at every step of
\* every call, whichever step failed before.
THEOREM DeviceCorrect == Spec => [](TypeOK /\ DeviceInv /\ WorkerInv)
<1>1. Init => TypeOK /\ DeviceInv /\ WorkerInv
  BY InitType, InitDevice
<1>2. TypeOK /\ DeviceInv /\ WorkerInv /\ [Next]_vars => (TypeOK /\ DeviceInv /\ WorkerInv)'
  BY NextType, NextDevice
<1>. QED
  BY <1>1, <1>2, PTL DEF Spec

\* The device never reaches memory that was freed: whatever step of an
\* initialisation fails, a virtqueue it was given is deleted, and the memory of the
\* segments released, only after a reset.
THEOREM MemoryCorrect == Spec => []MemoryOutlivesDevice
<1>1. TypeOK /\ DeviceInv /\ WorkerInv => MemoryOutlivesDevice
  BY DEF DeviceInv, MemoryOutlivesDevice, Driven
<1>. QED
  BY <1>1, DeviceCorrect, PTL

\* The worker has left, or never ran, when the adapter is gone.
THEOREM WorkerCorrect == Spec => []WorkerGoneFirst
<1>1. TypeOK /\ DeviceInv /\ WorkerInv => WorkerGoneFirst
  BY DEF WorkerInv, WorkerGoneFirst
<1>. QED
  BY <1>1, DeviceCorrect, PTL

-----------------------------------------------------------------------------
(* As long as nothing has gone wrong                                       *)

\* Nothing runs beside the call.
Still ==
    /\ ~dpc.irq /\ ~dpc.queued /\ ~dpc.on
    /\ worker.pc \in {"none", "idle", "gone"}
    /\ worker.event => worker.stop
\* The device has nothing to report.
Silent == dev.isr = {} /\ (Driven => mem.posted[dev.ring["ctrl"]] = {})
\* The adapter runs: whatever runs beside the calls finds what it needs.
Live ==
    /\ drv.hw_init /\ drv.mapped /\ drv.virtio_init /\ drv.modes /\ Driven
    /\ drv.queue = drv.info /\ \A q \in Queues : RingsOf(q)
\* The transport can be used.
Open == drv.mapped /\ drv.virtio_init
\* The device was never driven, and there is no mode list to write to.
Asleep == Still /\ Silent /\ ~drv.modes

\* What a start has reached at each of its steps.
StartInv ==
    /\ OpAt("start", 1, 13) => Asleep
    /\ OpAt("start", 1, 11) => ~drv.hw_init
    /\ OpAt("start", 1, 3) => ~drv.virtio_init
    /\ OpAt("start", 4, 15) => Open
    /\ OpAt("start", 7, 13) => RingsOf("ctrl") /\ mem.posted[dev.ring["ctrl"]] = {}
    /\ OpAt("start", 8, 13) => RingsOf("crsr")
    /\ OpAt("start", 9, 13) => drv.queue = drv.info
    /\ OpAt("start", 11, 13) => Driven
    /\ OpAt("start", 12, 13) => drv.hw_init
    /\ OpAt("start", 14, 15) => Live
\* What a power-up has reached: its second round repeats the first on an adapter
\* with IsHardwareInit set.
UpInv ==
    /\ os.op = "up" => Still /\ Silent /\ drv.modes
    /\ OpAt("up", 1, 7) => ~drv.hw_init
    /\ OpAt("up", 3, 8) \/ OpAt("up", 11, 16) => Open
    /\ OpAt("up", 5, 8) \/ OpAt("up", 13, 16) =>
          RingsOf("ctrl") /\ mem.posted[dev.ring["ctrl"]] = {}
    /\ OpAt("up", 6, 8) \/ OpAt("up", 14, 16) => RingsOf("crsr")
    /\ OpAt("up", 7, 8) \/ OpAt("up", 15, 16) => drv.queue = drv.info
    /\ OpAt("up", 8, 8) \/ OpAt("up", 16, 16) => Driven
\* What a power-down has reached.
DownInv ==
    /\ os.op = "down" => drv.modes
    /\ OpAt("down", 1, 1) => Live
    /\ OpAt("down", 2, 2) => Open
    /\ OpAt("down", 2, 8) => Still /\ ~drv.hw_init
    /\ OpAt("down", 3, 8) => ~Driven /\ dev.isr = {}
    /\ OpAt("down", 5, 8) => ~drv.virtio_init
\* What a removal has reached: it finds the adapter running, or its start failed.
RemoveInv ==
    /\ OpAt("remove", 1, 2) => Live \/ (os.life = "failed" /\ Asleep)
    /\ OpAt("remove", 3, 9) => Still /\ ~drv.hw_init
    /\ OpAt("remove", 7, 9) => worker.stop
    /\ OpAt("remove", 8, 9) => worker.event \/ worker.pc \in {"none", "gone"}
\* What the calls leave behind.
BetweenInv ==
    os.op = "none" =>
        /\ os.life = "new" => Asleep /\ ~drv.hw_init /\ ~drv.virtio_init
        /\ os.life = "failed" => Live \/ Asleep
        /\ os.life = "gone" => Still /\ ~drv.hw_init
        /\ os.life = "started" /\ os.powered => Live
        /\ os.life = "started" /\ ~os.powered =>
              /\ Still /\ drv.modes /\ ~drv.hw_init /\ ~drv.virtio_init
              /\ ~Driven /\ dev.isr = {}

\* All of it, and that no pointer is null or dangling when it is used.
Sound ==
    /\ ~fault
    /\ drv.virtio_init => drv.mapped \/ OpAt("up", 2, 2) \/ OpAt("up", 10, 10)
    /\ worker.stop => OpAt("remove", 7, 9) \/ os.life = "gone"
    /\ StartInv /\ UpInv /\ DownInv /\ RemoveInv /\ BetweenInv

\* The invariant: all is sound as long as nothing has disturbed the driver.
Healthy == ~disturbed => Sound

\* It holds at first.
LEMMA InitHealthy == Init => Healthy
<1>. SUFFICES ASSUME Init PROVE Sound
  BY DEF Healthy
<1>1. ~fault /\ ~drv.virtio_init /\ ~drv.hw_init /\ ~drv.modes /\ ~worker.stop
      /\ ~worker.event /\ ~dpc.irq /\ ~dpc.queued /\ ~dpc.on
  BY Zenon DEF Init
<1>2. os.op = "none" /\ os.life = "new" /\ worker.pc = "none" /\ dev.isr = {} /\ ~Driven
  BY DEF Init, Driven
<1>3. Asleep
  BY <1>1, <1>2 DEF Asleep, Still, Silent
<1>. QED
  BY <1>1, <1>2, <1>3 DEF Sound, StartInv, UpInv, DownInv, RemoveInv, BetweenInv, OpAt

\* A new call finds what its first step expects.
LEMMA CallSound ==
    ASSUME TypeOK, Sound, NEW op \in DOMAIN Steps, Call(op)
    PROVE  Sound'
<1>1. /\ os'.op = op /\ os'.at = 1 /\ os'.life = os.life
      /\ os.op = "none" /\ UNCHANGED <<drv, mem, dev, dpc, worker, fault>>
  BY CallEffect, TypeParts DEF Call
<1>2. /\ op = "start" => os.life = "new"
      /\ op = "up" => os.life = "started" /\ ~os.powered
      /\ op = "down" => os.life = "started" /\ os.powered
      /\ op = "remove" => os.life \in {"started", "failed"} /\ os.powered
      /\ os.life # "gone"
  BY <1>1, StartTable DEF Call
<1>3. op \in {"start", "up", "down", "remove"}
  BY StartTable
<1>4. /\ Still' = Still /\ Silent' = Silent /\ Live' = Live /\ Asleep' = Asleep
      /\ Driven' = Driven
  BY <1>1 DEF Still, Silent, Live, Asleep, Driven, RingsOf
<1>5. BetweenInv /\ ~worker.stop /\ (drv.virtio_init => drv.mapped)
  BY <1>1, <1>2 DEF Sound, OpAt
<1>6. ~Driven => (Silent <=> dev.isr = {})
  BY DEF Silent
<1>7. StartInv'
  BY <1>1, <1>2, <1>3, <1>4, <1>5, <1>6 DEF StartInv, BetweenInv, OpAt
<1>8. UpInv'
  BY <1>1, <1>2, <1>3, <1>4, <1>5, <1>6 DEF UpInv, BetweenInv, OpAt
<1>9. DownInv'
  BY <1>1, <1>2, <1>3, <1>4, <1>5, <1>6 DEF DownInv, BetweenInv, Live, OpAt
<1>10. RemoveInv'
  BY <1>1, <1>2, <1>3, <1>4, <1>5, <1>6 DEF RemoveInv, BetweenInv, OpAt
<1>11. BetweenInv'
  BY <1>1, <1>3 DEF BetweenInv
<1>12. ~fault' /\ ~worker'.stop /\ (drv'.virtio_init => drv'.mapped)
  BY <1>1, <1>5 DEF Sound
<1>. QED
  BY <1>7, <1>8, <1>9, <1>10, <1>11, <1>12 DEF Sound

\* A running adapter goes on running beside the calls, and nothing is missing.
LEMMA BesideLive ==
    ASSUME TypeOK, Live, Beside
    PROVE  /\ UNCHANGED <<os, drv, fault>> /\ worker'.stop = worker.stop
           /\ Live'
<1>1. QueueLives /\ drv.mapped /\ drv.modes
  BY DEF Live, QueueLives, RingsOf, Queues
<1>2. UNCHANGED <<os, drv, fault>>
  BY <1>1, Zenon DEF Beside, Present, Worker, WorkerWake, WorkerRead, WorkerAsk, WorkerReplied,
     WorkerClear, Interrupt, InterruptRead, Dpc, DpcStart, DpcExchange, DpcCollect, DpcChange,
     DevServe, DevChange
<1>3. WorkerOK
  BY TypeParts DEF Typed
<1>4. worker'.stop = worker.stop
  <2>1. CASE Worker
    BY <1>1, <1>3, <2>1, Zenon DEF Worker, WorkerWake, WorkerRead, WorkerAsk, WorkerReplied,
       WorkerClear, WorkerOK
  <2>2. CASE DpcChange
    BY <1>3, <2>2 DEF DpcChange, WorkerOK
  <2>3. ASSUME ~Worker, ~DpcChange PROVE UNCHANGED worker
    BY <2>3, Zenon DEF Beside, Present, Interrupt, InterruptRead, Dpc, DpcStart, DpcExchange,
       DpcCollect, DevServe, DevChange, Crash
  <2>. QED
    BY <2>1, <2>2, <2>3
<1>5. Live'
  BY <1>2, BesideDevice DEF Live, SameDevice, RingsOf, Driven
<1>. QED
  BY <1>2, <1>4, <1>5

\* When nothing runs, nothing starts to, as long as no interrupt is taken.
LEMMA BesideStill ==
    ASSUME TypeOK, Still, ~drv.hw_init \/ dev.isr = {}, ~Present, Beside
    PROVE  /\ UNCHANGED <<os, drv, dpc, fault>> /\ worker'.stop = worker.stop
           /\ Still'
           /\ worker.event \/ worker.pc \in {"none", "gone"} =>
                 worker'.event \/ worker'.pc \in {"none", "gone"}
           /\ UNCHANGED <<mem, dev>> \/ DevServe \/ DevChange
<1>1. WorkerOK /\ DpcOK
  BY TypeParts DEF Typed
<1>2. WorkerWake \/ DevServe \/ DevChange
  BY Zenon DEF Beside, Still, Worker, WorkerRead, WorkerAsk, WorkerReplied, WorkerClear,
     Interrupt, InterruptRead, Dpc, DpcStart, DpcExchange, DpcCollect, DpcChange
<1>3. CASE WorkerWake
  <2>1. UNCHANGED <<os, drv, mem, dev, dpc, fault>> /\ worker.pc = "idle" /\ worker.event
        /\ worker.stop
    BY <1>3 DEF WorkerWake, Still
  <2>2. worker' = [worker EXCEPT !.event = FALSE, !.pc = "gone"]
    BY <1>3, <2>1 DEF WorkerWake
  <2>3. worker'.stop = worker.stop /\ ~worker'.event /\ worker'.pc = "gone"
    BY <1>1, <2>2 DEF WorkerOK
  <2>. QED
    BY <2>1, <2>3 DEF Still
<1>4. CASE DevServe \/ DevChange
  <2>1. UNCHANGED <<os, drv, dpc, worker, fault>>
    BY <1>4 DEF DevServe, DevChange
  <2>. QED
    BY <1>4, <2>1 DEF Still
<1>. QED
  BY <1>2, <1>3, <1>4

\* What runs beside the calls finds what it uses, and leaves it sound.
LEMMA BesideSound ==
    ASSUME TypeOK, Sound, Beside, ~disturbed'
    PROVE  Sound'
<1>1. SameCall /\ SameDevice
  BY BesideDevice
<1>2. UNCHANGED <<os, drv>>
  BY Zenon DEF Beside, Present, Worker, WorkerWake, WorkerRead, WorkerAsk, WorkerReplied, WorkerClear,
     Interrupt, InterruptRead, Dpc, DpcStart, DpcExchange, DpcCollect, DpcChange, DevServe,
     DevChange, Crash
<1>3. /\ Driven' = Driven /\ (\A q \in Queues : RingsOf(q)' = RingsOf(q))
      /\ dev'.ring = dev.ring /\ (\A op, i, j : OpAt(op, i, j)' = OpAt(op, i, j))
  BY <1>1, <1>2 DEF SameCall, SameDevice, Driven, RingsOf, OpAt
<1>4. OsOK
  BY TypeParts
<1>5. CASE Live /\ (OpAt("start", 14, 15) \/ OpAt("down", 1, 1) \/ OpAt("remove", 1, 2)
                    \/ (os.op = "none" /\ (os.life = "failed"
                                           \/ (os.life = "started" /\ os.powered))))
  <2>1. /\ UNCHANGED <<os, drv, fault>> /\ worker'.stop = worker.stop /\ Live'
    BY <1>5, BesideLive
  <2>2. StartInv'
    BY <1>3, <1>4, <1>5, <2>1 DEF Sound, StartInv, Open, OpAt, OsOK
  <2>3. UpInv' /\ DownInv'
    BY <1>3, <1>4, <1>5, <2>1 DEF Sound, UpInv, DownInv, Open, OpAt, OsOK
  <2>4. RemoveInv' /\ BetweenInv'
    BY <1>3, <1>4, <1>5, <2>1 DEF RemoveInv, BetweenInv, OpAt, OsOK
  <2>. QED
    BY <1>3, <2>1, <2>2, <2>3, <2>4 DEF Sound
<1>6. CASE ~(Live /\ (OpAt("start", 14, 15) \/ OpAt("down", 1, 1) \/ OpAt("remove", 1, 2)
                      \/ (os.op = "none" /\ (os.life = "failed"
                                             \/ (os.life = "started" /\ os.powered)))))
  <2>1. /\ os.op \in {"none", "start", "up", "down", "remove"}
        /\ os.op = "start" => os.at \in 1..15
        /\ os.op = "up" => os.at \in 1..16
        /\ os.op = "down" => os.at \in 1..8
        /\ os.op = "remove" => os.at \in 1..9
        /\ os.life \in {"new", "started", "failed", "gone"}
    BY <1>4, StartTable, UpTable, DownTable, RemoveTable DEF OsOK
  <2>2. \/ Asleep \/ os.op = "up"
        \/ OpAt("down", 2, 8) \/ OpAt("remove", 3, 9)
        \/ os.op = "none" /\ (os.life = "gone" \/ (os.life = "started" /\ ~os.powered))
    BY <1>6, <2>1 DEF Sound, StartInv, DownInv, RemoveInv, BetweenInv, OpAt
  <2>3. Still /\ (~drv.hw_init \/ dev.isr = {})
    BY <2>2 DEF Sound, UpInv, DownInv, RemoveInv, BetweenInv, Asleep, Silent
  <2>4. ~Present
    BY <1>6 DEF Present, Sound, BetweenInv
  <2>5. /\ UNCHANGED <<os, drv, dpc, fault>> /\ worker'.stop = worker.stop
        /\ Still'
        /\ worker.event \/ worker.pc \in {"none", "gone"} =>
              worker'.event \/ worker'.pc \in {"none", "gone"}
        /\ UNCHANGED <<mem, dev>> \/ DevServe \/ DevChange
    BY <2>3, <2>4, BesideStill
  <2>6. CASE UNCHANGED <<mem, dev>>
    <3>1. Silent' = Silent /\ Live' = Live /\ (Asleep => Asleep')
      BY <2>5, <2>6 DEF Silent, Live, Asleep, Driven, RingsOf
    <3>2. StartInv'
      BY <1>3, <2>5, <2>6, <3>1 DEF Sound, StartInv, Open, Queues
    <3>3. UpInv'
      BY <1>3, <2>5, <2>6, <3>1 DEF Sound, UpInv, Open, Queues
    <3>4. DownInv' /\ RemoveInv'
      BY <1>3, <2>5, <2>6, <3>1 DEF Sound, DownInv, RemoveInv, Open
    <3>5. BetweenInv'
      BY <1>3, <2>5, <2>6, <3>1 DEF Sound, BetweenInv
    <3>. QED
      BY <1>3, <2>5, <3>2, <3>3, <3>4, <3>5 DEF Sound
  <2>7. CASE DevServe \/ DevChange
    <3>1. Driven /\ ~Asleep /\ os.op # "up"
      <4>1. CASE DevServe
        BY <4>1 DEF DevServe, Driven, Asleep, Silent, Sound, UpInv
      <4>2. CASE DevChange
        BY <4>2 DEF DevChange, Driven, Asleep, Disturb
      <4>. QED
        BY <2>7, <4>1, <4>2
    <3>2. OpAt("down", 2, 2) \/ OpAt("remove", 3, 9) \/ (os.op = "none" /\ os.life = "gone")
      BY <2>1, <2>2, <3>1 DEF Sound, DownInv, BetweenInv, OpAt
    <3>3. StartInv' /\ UpInv'
      BY <1>3, <2>5, <3>2 DEF StartInv, UpInv, OpAt
    <3>4. DownInv' /\ RemoveInv'
      BY <1>3, <1>4, <2>5, <3>2 DEF Sound, DownInv, RemoveInv, Open, OpAt, OsOK
    <3>5. BetweenInv'
      BY <1>3, <2>5, <3>2 DEF Sound, BetweenInv, OpAt
    <3>. QED
      BY <1>3, <2>5, <3>3, <3>4, <3>5 DEF Sound
  <2>. QED
    BY <2>5, <2>6, <2>7
<1>. QED
  BY <1>5, <1>6

\* Bringing the adapter up: each step leaves what the next expects.
LEMMA BringUpSound ==
    ASSUME TypeOK, DeviceInv, Sound, BringUp, ~disturbed'
    PROVE  Sound'
<1>1. OsOK /\ DrvOK /\ MemOK /\ DevOK /\ WorkerOK
  BY TypeParts DEF Typed
<1>2. os.op # "none"
  BY DEF BringUp, At, PciResources, ZeroDevice, MapDevice, SetFeatures, InitSegments,
     SetupQueue, InitQueues, InitPool, DeviceReady, SetHardwareInit, CreateWorker,
     GetModeList, StartAsk, StartReplied
<1>3. os.at \in 0..20 /\ os.op \in {"start", "up", "down", "remove"}
  BY <1>1, <1>2, StartTable DEF OsOK
<1>4. Proceed => IF LastStep THEN Over(TRUE) ELSE Onward
  BY <1>1, <1>2, ProceedEffect
<1>5. GiveUp => IF os.op = "up" /\ os.at <= 8 THEN SecondRound ELSE Over(FALSE)
  BY <1>1, <1>2, GiveUpEffect
<1>6. ~fault /\ (worker.stop => OpAt("remove", 7, 9) \/ os.life = "gone")
      /\ StartInv /\ UpInv
  BY DEF Sound
<1>. USE DEF Driven, RingsOf, OpAt, Where, Onward, Over, LastStep
\* A start that fails before the device is ready leaves everything asleep.
<1>7. ASSUME Fails, OpAt("start", 4, 9) \/ OpAt("up", 1, 16),
             drv'.virtio_init = drv.virtio_init, drv'.mapped = drv.mapped,
             drv'.modes = drv.modes
      PROVE  Sound'
  <2>1. os.op # "up"
    BY <1>7, Zenon DEF Fails, Disturb
  <2>2. Over(FALSE) /\ OpAt("start", 4, 9) /\ UNCHANGED <<dpc, worker, fault>>
    BY <1>5, <1>7, <2>1 DEF Fails
  <2>3. ~Driven' /\ dev'.isr = dev.isr
    BY <1>1, <1>3, <1>7, <2>2 DEF Fails, DevOK, DeviceInv
  <2>4. Asleep'
    BY <1>3, <1>6, <1>7, <2>2, <2>3 DEF StartInv, Asleep, Still, Silent
  <2>5. drv'.virtio_init => drv'.mapped
    BY <1>7, <2>2 DEF Sound
  <2>6. ~worker'.stop /\ ~fault'
    BY <1>6, <2>2 DEF DeviceInv
  <2>. QED
    BY <2>2, <2>4, <2>5, <2>6 DEF Sound, StartInv, UpInv, DownInv, RemoveInv, BetweenInv
<1>8. PciResources => Proceed /\ UNCHANGED <<drv, mem, dev, dpc, worker, fault>>
  BY Zenon DEF PciResources, Disturb
<1>9. CASE PciResources
  <2>1. Where("start", 1)
    BY <1>1, <1>9, Placed DEF PciResources
  <2>. QED
    BY <1>4, <1>6, <1>8, <1>9, <2>1
    DEF Sound, StartInv, UpInv, DownInv, RemoveInv, BetweenInv, Asleep, Still, Silent, DeviceInv
<1>10. CASE ZeroDevice
  <2>1. Where("start", 2) \/ Where("up", 1) \/ Where("up", 9)
    BY <1>1, <1>10, Placed DEF ZeroDevice
  <2>2. /\ drv'.virtio_init = drv.virtio_init /\ drv'.modes = drv.modes
        /\ drv'.hw_init = drv.hw_init
        /\ UNCHANGED <<mem, dev, dpc, worker, fault>> /\ Onward
    BY <1>1, <1>4, <1>10, <2>1 DEF ZeroDevice, DrvOK
  <2>3. Still' = Still /\ Silent' = Silent /\ Asleep' = Asleep
    BY <2>2 DEF Still, Silent, Asleep
  <2>4. StartInv'
    BY <1>6, <2>1, <2>2, <2>3 DEF StartInv
  <2>5. UpInv'
    BY <1>6, <2>1, <2>2, <2>3 DEF UpInv
  <2>6. DownInv' /\ RemoveInv' /\ BetweenInv'
    BY <2>1, <2>2 DEF DownInv, RemoveInv, BetweenInv
  <2>7. drv'.virtio_init => drv'.mapped \/ OpAt("up", 2, 2)' \/ OpAt("up", 10, 10)'
    BY <1>6, <2>1, <2>2 DEF StartInv
  <2>8. ~fault' /\ ~worker'.stop
    BY <1>6, <2>1, <2>2 DEF DeviceInv
  <2>. QED
    BY <2>4, <2>5, <2>6, <2>7, <2>8 DEF Sound
\* A successful step that leaves worker, interrupt and flags alone; s is where it
\* takes the call.
<1>11. ASSUME Onward, UNCHANGED <<worker, dpc, fault>>, drv'.virtio_init => drv'.mapped,
              StartInv', UpInv', os.op \in {"start", "up"}
       PROVE  Sound'
  <2>1. ~fault' /\ ~worker'.stop
    BY <1>6, <1>11 DEF DeviceInv
  <2>. QED
    BY <1>11, <2>1 DEF Sound, DownInv, RemoveInv, BetweenInv
<1>12. CASE MapDevice
  <2>1. Where("start", 3) \/ Where("up", 2) \/ Where("up", 10)
    BY <1>1, <1>12, Placed DEF MapDevice
  <2>2. UNCHANGED <<mem, worker, dpc, fault>>
    BY <1>12 DEF MapDevice
  <2>3. ASSUME drv' = [drv EXCEPT !.mapped = TRUE, !.virtio_init = TRUE],
               dev' = [dev EXCEPT !.status = {"ACKNOWLEDGE", "DRIVER"}, !.ring = NoQueues,
                                  !.isr = {}],
               Proceed
        PROVE  Sound'
    <3>1. /\ drv'.virtio_init /\ drv'.mapped /\ drv'.modes = drv.modes
          /\ drv'.hw_init = drv.hw_init /\ ~Driven' /\ dev'.isr = {}
      BY <1>1, <2>3 DEF DrvOK, DevOK
    <3>2. Onward
      BY <1>4, <2>1, <2>3
    <3>3. Still' = Still /\ Silent' /\ (Asleep => Asleep')
      BY <2>2, <3>1 DEF Still, Silent, Asleep
    <3>4. StartInv'
      BY <1>6, <2>1, <2>2, <3>1, <3>2, <3>3 DEF StartInv, Open
    <3>5. UpInv'
      BY <1>6, <2>1, <2>2, <3>1, <3>2, <3>3 DEF UpInv, Open
    <3>. QED
      BY <1>11, <2>1, <2>2, <3>1, <3>2, <3>4, <3>5
  <2>4. ASSUME GiveUp, UNCHANGED <<drv, dev>>, Disturb(os.op = "up") PROVE Sound'
    <3>1. os.op # "up"
      BY <2>4, Zenon DEF Disturb
    <3>2. Over(FALSE) /\ Where("start", 3)
      BY <1>5, <2>1, <2>4, <3>1
    <3>3. Asleep' /\ ~drv.virtio_init /\ ~worker.stop
      BY <1>6, <2>2, <2>4, <3>2 DEF Asleep, Still, Silent, StartInv, DeviceInv
    <3>. QED
      BY <1>6, <2>2, <2>4, <3>2, <3>3
      DEF Sound, StartInv, UpInv, DownInv, RemoveInv, BetweenInv
  <2>. QED
    BY <1>12, <2>3, <2>4 DEF MapDevice
<1>13. CASE SetFeatures
  <2>1. Where("start", 4) \/ Where("up", 3) \/ Where("up", 11)
    BY <1>1, <1>13, Placed DEF SetFeatures
  <2>2. CASE dev' = [dev EXCEPT !.status = @ \cup {"FEATURES_OK"}] /\ Proceed
             /\ UNCHANGED <<dpc, worker, fault>>
    <3>1. ~Driven' /\ dev'.isr = dev.isr /\ dev'.ring = dev.ring /\ UNCHANGED <<drv, mem>>
      BY <1>1, <1>13, <2>1, <2>2 DEF SetFeatures, DevOK, DeviceInv
    <3>2. Onward
      BY <1>4, <2>1, <2>2
    <3>3. Still' = Still /\ (Silent => Silent') /\ (Asleep => Asleep')
      BY <2>2, <3>1 DEF Still, Silent, Asleep
    <3>4. StartInv'
      BY <1>6, <2>1, <3>1, <3>2, <3>3 DEF StartInv, Open
    <3>5. UpInv'
      BY <1>6, <2>1, <3>1, <3>2, <3>3 DEF UpInv, Open
    <3>6. drv'.virtio_init => drv'.mapped
      BY <1>6, <2>1, <3>1 DEF StartInv, UpInv, Open
    <3>. QED
      BY <1>11, <2>1, <2>2, <3>2, <3>4, <3>5, <3>6
  <2>. QED
    BY <1>7, <1>13, <2>1, <2>2 DEF SetFeatures
<1>14. CASE InitSegments
  <2>1. Where("start", 5)
    BY <1>1, <1>14, Placed DEF InitSegments
  <2>2. CASE drv' = [drv EXCEPT !.segments = TRUE] /\ Proceed /\ UNCHANGED <<dev, dpc, worker, fault>>
    <3>1. /\ drv'.virtio_init = drv.virtio_init /\ drv'.mapped = drv.mapped
          /\ drv'.modes = drv.modes /\ drv'.hw_init = drv.hw_init /\ UNCHANGED mem
      BY <1>1, <1>14, <2>2 DEF InitSegments, DrvOK
    <3>2. Onward
      BY <1>4, <2>1, <2>2
    <3>3. Still' = Still /\ Silent' = Silent /\ (Asleep => Asleep')
      BY <2>2, <3>1 DEF Still, Silent, Asleep
    <3>4. StartInv' /\ UpInv'
      BY <1>6, <2>1, <3>1, <3>2, <3>3 DEF StartInv, UpInv, Open
    <3>5. drv'.virtio_init => drv'.mapped
      BY <1>6, <2>1, <3>1 DEF StartInv, Open
    <3>. QED
      BY <1>11, <2>1, <2>2, <3>2, <3>4, <3>5
  <2>3. CASE drv' \in {drv, [drv EXCEPT !.segments = TRUE]} /\ Fails
    <3>1. drv'.virtio_init = drv.virtio_init /\ drv'.mapped = drv.mapped
          /\ drv'.modes = drv.modes
      BY <1>1, <2>3 DEF DrvOK
    <3>. QED
      BY <1>7, <2>1, <2>3, <3>1
  <2>. QED
    BY <1>14, <2>2, <2>3 DEF InitSegments
<1>15. ASSUME NEW q \in Queues, SetupQueue(q) PROVE Sound'
  <2>1. /\ q = "ctrl" => Where("start", 6) \/ Where("up", 4) \/ Where("up", 12)
        /\ q = "crsr" => Where("start", 7) \/ Where("up", 5) \/ Where("up", 13)
        /\ q \in {"ctrl", "crsr"}
    BY <1>1, <1>15, Placed DEF SetupQueue, Queues
  <2>2. ~Driven
    BY <2>1 DEF DeviceInv
  <2>3. ASSUME NEW r \in Rings \ mem.alloc,
               mem' = [mem EXCEPT !.alloc = @ \cup {r}, !.posted[r] = {}, !.used[r] = {}],
               drv' = [drv EXCEPT !.info[q] = r],
               dev' = [dev EXCEPT !.ring[q] = r],
               Proceed, UNCHANGED <<dpc, worker, fault>>
        PROVE  Sound'
    <3>1. /\ mem'.alloc = mem.alloc \cup {r} /\ dev'.status = dev.status
          /\ dev'.isr = dev.isr /\ drv'.modes = drv.modes /\ drv'.hw_init = drv.hw_init
          /\ drv'.virtio_init = drv.virtio_init /\ drv'.mapped = drv.mapped
      BY <1>1, <2>3 DEF MemOK, DrvOK, DevOK
    <3>2. /\ \A p \in Queues : /\ drv'.info[p] = IF p = q THEN r ELSE drv.info[p]
                               /\ dev'.ring[p] = IF p = q THEN r ELSE dev.ring[p]
          /\ mem'.posted[r] = {}
          /\ \A p \in mem.alloc : mem'.posted[p] = mem.posted[p]
      BY <1>1, <2>3 DEF DrvOK, DevOK, MemOK
    <3>3. Onward
      BY <1>4, <2>1, <2>3
    <3>4. Still' = Still /\ (Silent => Silent') /\ (Asleep => Asleep')
      BY <2>2, <2>3, <3>1 DEF Still, Silent, Asleep
    <3>5. ASSUME q = "ctrl" PROVE StartInv' /\ UpInv'
      <4>1. RingsOf("ctrl")' /\ mem'.posted[dev'.ring["ctrl"]] = {}
        BY <3>1, <3>2, <3>5 DEF Queues
      <4>2. StartInv'
        BY <1>6, <2>1, <3>1, <3>3, <3>4, <3>5, <4>1 DEF StartInv, Open
      <4>3. UpInv'
        BY <1>6, <2>1, <3>1, <3>3, <3>4, <3>5, <4>1 DEF UpInv, Open
      <4>. QED
        BY <4>2, <4>3
    <3>6. ASSUME q = "crsr" PROVE StartInv' /\ UpInv'
      <4>1. RingsOf("ctrl") /\ mem.posted[dev.ring["ctrl"]] = {}
        BY <1>6, <2>1, <3>6 DEF StartInv, UpInv
      <4>2. RingsOf("ctrl")' /\ RingsOf("crsr")' /\ mem'.posted[dev'.ring["ctrl"]] = {}
        BY <3>1, <3>2, <3>6, <4>1 DEF Queues
      <4>3. StartInv'
        BY <1>6, <2>1, <3>1, <3>3, <3>4, <3>6, <4>2 DEF StartInv, Open
      <4>4. UpInv'
        BY <1>6, <2>1, <3>1, <3>3, <3>4, <3>6, <4>2 DEF UpInv, Open
      <4>. QED
        BY <4>3, <4>4
    <3>7. drv'.virtio_init => drv'.mapped
      BY <1>6, <2>1, <3>1 DEF StartInv, UpInv, Open
    <3>. QED
      BY <1>11, <2>1, <2>3, <3>3, <3>5, <3>6, <3>7
  <2>4. ASSUME drv' = [drv EXCEPT !.info = NoQueues], Fails
        PROVE  Sound'
    <3>1. drv'.virtio_init = drv.virtio_init /\ drv'.mapped = drv.mapped
          /\ drv'.modes = drv.modes
      BY <1>1, <2>4 DEF DrvOK
    <3>. QED
      BY <1>7, <2>1, <2>4, <3>1
  <2>. QED
    BY <1>15, <2>3, <2>4, Zenon DEF SetupQueue, DeleteQueues
<1>16. CASE InitQueues
  <2>1. Where("start", 8) \/ Where("up", 6) \/ Where("up", 14)
    BY <1>1, <1>16, Placed DEF InitQueues
  <2>2. /\ drv'.virtio_init = drv.virtio_init /\ drv'.modes = drv.modes
        /\ drv'.hw_init = drv.hw_init /\ drv'.mapped = drv.mapped
        /\ drv'.info = drv.info /\ drv'.queue = drv.info
        /\ UNCHANGED <<mem, dev, dpc, worker, fault>> /\ Onward
    BY <1>1, <1>4, <1>16, <2>1 DEF InitQueues, DrvOK
  <2>3. Still' = Still /\ Silent' = Silent /\ Asleep' = Asleep
    BY <2>2 DEF Still, Silent, Asleep
  <2>4. StartInv'
    BY <1>6, <2>1, <2>2, <2>3 DEF StartInv, Open
  <2>5. UpInv'
    BY <1>6, <2>1, <2>2, <2>3 DEF UpInv, Open
  <2>6. drv'.virtio_init => drv'.mapped
    BY <1>6, <2>1, <2>2 DEF StartInv, UpInv, Open
  <2>. QED
    BY <1>11, <2>1, <2>2, <2>4, <2>5, <2>6
<1>17. CASE InitPool
  <2>1. Where("start", 9)
    BY <1>1, <1>17, Placed DEF InitPool
  <2>2. CASE Fails
    BY <1>7, <1>17, <2>1, <2>2 DEF InitPool
  <2>3. CASE mem' = [mem EXCEPT !.pool = Cmds] /\ Proceed /\ UNCHANGED <<drv, dev, dpc, worker, fault>>
    <3>1. mem'.alloc = mem.alloc /\ mem'.posted = mem.posted /\ Onward
      BY <1>1, <1>4, <2>1, <2>3 DEF MemOK
    <3>2. Asleep' = Asleep
      BY <2>3, <3>1 DEF Still, Silent, Asleep
    <3>3. StartInv' /\ UpInv'
      BY <1>6, <2>1, <2>3, <3>1, <3>2 DEF StartInv, UpInv, Open
    <3>4. drv'.virtio_init => drv'.mapped
      BY <1>6, <2>1, <2>3 DEF StartInv, Open
    <3>. QED
      BY <1>11, <2>1, <2>3, <3>1, <3>3, <3>4
  <2>. QED
    BY <1>17, <2>2, <2>3 DEF InitPool
<1>18. CASE DeviceReady
  <2>1. Where("start", 10) \/ Where("up", 7) \/ Where("up", 15)
    BY <1>1, <1>18, Placed DEF DeviceReady
  <2>2. UNCHANGED <<drv, mem, dpc, worker, fault>> /\ Onward
    BY <1>4, <1>18, <2>1 DEF DeviceReady
  <2>3. dev'.ring = dev.ring /\ dev'.isr = dev.isr /\ Driven'
    BY <1>1, <1>18 DEF DeviceReady, DevOK
  <2>4. mem.posted[dev.ring["ctrl"]] = {}
    BY <1>6, <2>1 DEF StartInv, UpInv
  <2>5. Still' = Still /\ (Silent => Silent') /\ (Asleep => Asleep')
    BY <2>2, <2>3, <2>4 DEF Still, Silent, Asleep
  <2>6. StartInv'
    BY <1>6, <2>1, <2>2, <2>3, <2>5 DEF StartInv, Open
  <2>7. UpInv'
    BY <1>6, <2>1, <2>2, <2>3, <2>5 DEF UpInv, Open
  <2>8. drv'.virtio_init => drv'.mapped
    BY <1>6, <2>1, <2>2 DEF StartInv, UpInv, Open
  <2>. QED
    BY <1>11, <2>1, <2>2, <2>6, <2>7, <2>8
<1>19. CASE SetHardwareInit
  <2>1. Where("start", 11) \/ Where("up", 8) \/ Where("up", 16)
    BY <1>1, <1>19, Placed DEF SetHardwareInit
  <2>2. /\ drv'.virtio_init = drv.virtio_init /\ drv'.modes = drv.modes
        /\ drv'.mapped = drv.mapped /\ drv'.hw_init
        /\ drv'.info = drv.info /\ drv'.queue = drv.queue
        /\ UNCHANGED <<mem, dev, dpc, worker, fault>> /\ Proceed
    BY <1>1, <1>19 DEF SetHardwareInit, DrvOK
  <2>3. Still' = Still /\ Silent' = Silent /\ Asleep' = Asleep
    BY <2>2 DEF Still, Silent, Asleep
  <2>4. drv'.virtio_init => drv'.mapped
    BY <1>6, <2>1, <2>2 DEF StartInv, UpInv, Open
  <2>5. CASE ~Where("up", 16)
    <3>1. Onward
      BY <1>4, <2>1, <2>2, <2>5
    <3>2. StartInv'
      BY <1>6, <2>1, <2>2, <2>3, <2>5, <3>1 DEF StartInv, Open
    <3>3. UpInv'
      BY <1>6, <2>1, <2>2, <2>3, <2>5, <3>1 DEF UpInv, Open
    <3>. QED
      BY <1>11, <2>1, <2>2, <2>4, <3>1, <3>2, <3>3
  <2>6. CASE Where("up", 16)
    <3>1. Over(TRUE) /\ os'.op = "none" /\ os'.life = "started" /\ os'.powered
      BY <1>4, <2>2, <2>6 DEF DeviceInv
    <3>2. Live'
      BY <1>6, <2>2, <2>6 DEF UpInv, Live, Open, Queues
    <3>3. ~fault' /\ ~worker'.stop
      BY <1>6, <2>2, <2>6 DEF DeviceInv
    <3>. QED
      BY <2>4, <3>1, <3>2, <3>3 DEF Sound, StartInv, UpInv, DownInv, RemoveInv, BetweenInv
  <2>. QED
    BY <2>5, <2>6
<1>20. CASE CreateWorker
  <2>1. Where("start", 12)
    BY <1>1, <1>20, Placed DEF CreateWorker
  <2>2. UNCHANGED <<drv, mem, dev, dpc, fault>>
    BY <1>20 DEF CreateWorker
  <2>3. Asleep /\ Open /\ ~worker.stop
    BY <1>6, <2>1 DEF StartInv, DeviceInv
  <2>4. CASE worker' = [worker EXCEPT !.pc = "idle"] /\ Proceed
    <3>1. worker'.pc = "idle" /\ worker'.event = worker.event /\ worker'.stop = worker.stop
      BY <1>1, <2>4 DEF WorkerOK
    <3>2. Asleep' /\ Onward
      BY <1>4, <2>1, <2>2, <2>3, <2>4, <3>1 DEF Asleep, Still, Silent
    <3>3. StartInv' /\ UpInv'
      BY <1>6, <2>1, <2>2, <3>2 DEF StartInv, UpInv, Open
    <3>. QED
      BY <1>6, <2>1, <2>2, <2>3, <3>1, <3>2, <3>3
      DEF Sound, DownInv, RemoveInv, BetweenInv, Open
  <2>5. CASE GiveUp /\ UNCHANGED worker
    <3>1. Over(FALSE) /\ Asleep'
      BY <1>5, <2>1, <2>2, <2>3, <2>5 DEF Asleep, Still, Silent
    <3>. QED
      BY <1>6, <2>1, <2>2, <2>3, <2>5, <3>1
      DEF Sound, StartInv, UpInv, DownInv, RemoveInv, BetweenInv, Open
  <2>. QED
    BY <1>20, <2>4, <2>5 DEF CreateWorker
<1>21. CASE GetModeList
  <2>1. Where("start", 13)
    BY <1>1, <1>21, Placed DEF GetModeList
  <2>2. UNCHANGED <<mem, dev, dpc, worker, fault>>
    BY <1>21 DEF GetModeList
  <2>3. Asleep /\ Open /\ ~worker.stop
    BY <1>6, <2>1 DEF StartInv, DeviceInv
  <2>4. CASE drv' = [drv EXCEPT !.modes = TRUE] /\ Proceed
    <3>1. /\ drv'.modes /\ drv'.hw_init = drv.hw_init /\ drv'.mapped = drv.mapped
          /\ drv'.virtio_init = drv.virtio_init
          /\ drv'.info = drv.info /\ drv'.queue = drv.queue
      BY <1>1, <2>4 DEF DrvOK
    <3>2. Onward
      BY <1>4, <2>1, <2>4
    <3>3. Live'
      BY <1>6, <2>1, <2>2, <2>3, <3>1 DEF StartInv, Live, Open, Queues
    <3>4. StartInv' /\ UpInv'
      BY <2>1, <3>2, <3>3 DEF StartInv, UpInv, Live, Open
    <3>5. drv'.virtio_init => drv'.mapped
      BY <2>3, <3>1 DEF Open
    <3>. QED
      BY <1>11, <2>1, <2>2, <3>2, <3>4, <3>5
  <2>5. CASE GiveUp /\ UNCHANGED drv
    <3>1. Over(FALSE) /\ Asleep'
      BY <1>5, <2>1, <2>2, <2>3, <2>5 DEF Asleep, Still, Silent
    <3>. QED
      BY <1>6, <2>1, <2>2, <2>3, <2>5, <3>1
      DEF Sound, StartInv, UpInv, DownInv, RemoveInv, BetweenInv, Open
  <2>. QED
    BY <1>21, <2>4, <2>5 DEF GetModeList
<1>22. CASE StartAsk
  <2>1. Where("start", 14)
    BY <1>1, <1>22, Placed DEF StartAsk
  <2>2. UNCHANGED <<drv, dev, dpc, worker, fault>> /\ mem'.alloc = mem.alloc
    BY <1>1, <1>22 DEF StartAsk, Post, MemOK
  <2>3. Onward
    BY <1>1, <1>22 DEF StartAsk, OsOK
  <2>4. Live'
    BY <1>6, <2>1, <2>2 DEF StartInv, Live
  <2>5. StartInv' /\ UpInv'
    BY <2>1, <2>3, <2>4 DEF StartInv, UpInv, Live, Open
  <2>6. drv'.virtio_init => drv'.mapped
    BY <2>4 DEF Live
  <2>. QED
    BY <1>11, <2>1, <2>2, <2>3, <2>5, <2>6
<1>23. CASE StartReplied
  <2>1. Where("start", 15)
    BY <1>1, <1>23, Placed DEF StartReplied
  <2>2. UNCHANGED <<drv, dev, dpc, worker, fault>> /\ mem'.alloc = mem.alloc
    BY <1>1, <1>23 DEF StartReplied, ReleaseReplied, MemOK
  <2>3. Over(TRUE) \/ Over(FALSE)
    BY <1>1, <1>23, ReturnEffect DEF StartReplied
  <2>4. Live' /\ ~worker.stop
    BY <1>6, <2>1, <2>2 DEF StartInv, Live, DeviceInv
  <2>. QED
    BY <1>6, <2>1, <2>2, <2>3, <2>4
    DEF Sound, StartInv, UpInv, DownInv, RemoveInv, BetweenInv, Live
<1>. QED
  BY <1>9, <1>10, <1>12, <1>13, <1>14, <1>15, <1>16, <1>17, <1>18, <1>19, <1>20, <1>21,
     <1>22, <1>23 DEF BringUp

\* Taking the adapter down: the calls find it running, or never started, and leave
\* nothing that runs beside them, if nothing was running when IsHardwareInit fell.
LEMMA TakeDownSound ==
    ASSUME TypeOK, DeviceInv, Sound, TakeDown, ~disturbed'
    PROVE  Sound'
<1>1. OsOK /\ DrvOK /\ MemOK /\ DevOK /\ WorkerOK
  BY TypeParts DEF Typed
<1>2. os.op # "none"
  BY DEF TakeDown, At, DestroyResources, Quiesce, ResetDevice, Delete, CloseQueues,
     StopWorker, WakeWorker, JoinWorker, FreeMembers
<1>3. os.at \in 0..20
  BY <1>1 DEF OsOK
<1>4. Proceed => IF LastStep THEN Over(TRUE) ELSE Onward
  BY <1>1, <1>2, ProceedEffect
<1>5. /\ ~fault /\ DownInv /\ RemoveInv
      /\ worker.stop => OpAt("remove", 7, 9) \/ os.life = "gone"
      /\ drv.virtio_init => drv.mapped \/ OpAt("up", 2, 2) \/ OpAt("up", 10, 10)
  BY DEF Sound
<1>. USE DEF Driven, RingsOf, OpAt, Where, Onward, Over, LastStep
\* A successful step on the way down, or on the way out.
<1>6. ASSUME Onward, UNCHANGED fault, drv'.virtio_init => drv'.mapped,
             worker'.stop => OpAt("remove", 7, 9)',
             DownInv', RemoveInv', os.op \in {"down", "remove"}
      PROVE  Sound'
  BY <1>3, <1>5, <1>6 DEF Sound, StartInv, UpInv, BetweenInv
<1>7. CASE DestroyResources
  <2>1. Where("remove", 1)
    BY <1>1, <1>7, Placed DEF DestroyResources
  <2>2. QueueLives \/ os.life = "failed"
    BY <1>5, <2>1 DEF RemoveInv, Live, QueueLives, Queues
  <2>3. UNCHANGED <<drv, dev, dpc, worker, fault>> /\ mem'.alloc = mem.alloc /\ Proceed
        /\ (os.life = "failed" => mem' = mem)
    BY <1>1, <1>7, <2>2 DEF DestroyResources, Post, MemOK
  <2>4. Onward /\ ~worker.stop
    BY <1>4, <1>5, <2>1, <2>3 DEF DeviceInv
  <2>5. (Live => Live') /\ (os.life = "failed" /\ Asleep => Asleep')
    BY <2>3 DEF Live, Asleep, Still, Silent
  <2>6. DownInv' /\ RemoveInv'
    BY <1>5, <2>1, <2>3, <2>4, <2>5 DEF DownInv, RemoveInv
  <2>. QED
    BY <1>5, <1>6, <2>1, <2>3, <2>4, <2>6
<1>8. CASE Quiesce
  <2>1. Where("down", 1) \/ Where("down", 5) \/ Where("remove", 2)
    BY <1>1, <1>8, Placed DEF Quiesce
  <2>2. /\ drv'.virtio_init = drv.virtio_init /\ drv'.mapped = drv.mapped
        /\ drv'.modes = drv.modes /\ ~drv'.hw_init
        /\ UNCHANGED <<mem, dev, dpc, worker, fault>> /\ Onward
    BY <1>1, <1>4, <1>8, <2>1 DEF Quiesce, DrvOK
  <2>3. Quiet
    BY <1>8, Zenon DEF Quiesce, Disturb
  <2>4. Still'
    BY <2>2, <2>3 DEF Quiet, Still
  <2>5. DownInv'
    BY <1>5, <2>1, <2>2, <2>4 DEF DownInv, Live, Open
  <2>6. RemoveInv'
    BY <1>5, <2>1, <2>2, <2>4 DEF RemoveInv
  <2>. QED
    BY <1>5, <1>6, <2>1, <2>2, <2>5, <2>6 DEF DeviceInv
<1>9. CASE ResetDevice
  <2>1. Where("down", 2) \/ Where("down", 6) \/ Where("remove", 3)
    BY <1>1, <1>9, Placed DEF ResetDevice
  <2>2. /\ dev' = IF drv.virtio_init
                  THEN [dev EXCEPT !.status = {}, !.ring = NoQueues, !.isr = {}] ELSE dev
        /\ UNCHANGED <<drv, mem, dpc, worker, fault>> /\ Onward
    BY <1>4, <1>5, <1>9, <2>1 DEF ResetDevice
  <2>3. Still' = Still
    BY <2>2 DEF Still
  <2>4. ~Where("remove", 3) => ~Driven' /\ dev'.isr = {}
    <3>1. CASE drv.virtio_init
      BY <1>1, <2>2, <3>1 DEF DevOK
    <3>2. CASE ~drv.virtio_init
      BY <1>5, <2>1, <2>2, <3>2 DEF DownInv, Open
    <3>. QED
      BY <3>1, <3>2
  <2>5. DownInv'
    BY <1>5, <2>1, <2>2, <2>3, <2>4 DEF DownInv
  <2>6. RemoveInv'
    BY <1>5, <2>1, <2>2, <2>3 DEF RemoveInv
  <2>. QED
    BY <1>5, <1>6, <2>1, <2>2, <2>5, <2>6 DEF DeviceInv
<1>10. CASE Delete
  <2>1. Where("down", 3) \/ Where("down", 7) \/ Where("remove", 4)
    BY <1>1, <1>10, Placed DEF Delete
  <2>2. /\ drv'.virtio_init = drv.virtio_init /\ drv'.mapped = drv.mapped
        /\ drv'.modes = drv.modes /\ drv'.hw_init = drv.hw_init
        /\ UNCHANGED <<dev, dpc, worker, fault>> /\ Onward
    BY <1>1, <1>4, <1>10, <2>1 DEF Delete, DeleteQueues, DrvOK
  <2>3. Still' = Still
    BY <2>2 DEF Still
  <2>4. DownInv' /\ RemoveInv'
    BY <1>5, <2>1, <2>2, <2>3 DEF DownInv, RemoveInv
  <2>. QED
    BY <1>5, <1>6, <2>1, <2>2, <2>4 DEF DeviceInv
<1>11. CASE CloseQueues
  <2>1. Where("down", 4) \/ Where("down", 8) \/ Where("remove", 5)
    BY <1>1, <1>11, Placed DEF CloseQueues
  <2>2. /\ ~drv'.virtio_init /\ drv'.modes = drv.modes /\ drv'.hw_init = drv.hw_init
        /\ UNCHANGED <<mem, dev, dpc, worker, fault>> /\ Proceed
    BY <1>1, <1>11 DEF CloseQueues, DrvOK
  <2>3. Still' = Still /\ ~worker'.stop /\ ~fault'
    BY <1>5, <2>1, <2>2 DEF Still, DeviceInv
  <2>4. CASE Where("down", 8)
    <3>1. /\ os'.op = "none" /\ os'.life = "started" /\ ~os'.powered
      BY <1>4, <2>2, <2>4 DEF DeviceInv
    <3>2. BetweenInv'
      BY <1>5, <2>2, <2>3, <2>4, <3>1 DEF BetweenInv, DownInv
    <3>. QED
      BY <2>2, <2>3, <3>1, <3>2 DEF Sound, StartInv, UpInv, DownInv, RemoveInv
  <2>5. CASE ~Where("down", 8)
    <3>1. Onward
      BY <1>4, <2>1, <2>2, <2>5
    <3>2. DownInv' /\ RemoveInv'
      BY <1>5, <2>1, <2>2, <2>3, <2>5, <3>1 DEF DownInv, RemoveInv
    <3>. QED
      BY <1>6, <2>1, <2>2, <2>3, <3>1, <3>2
  <2>. QED
    BY <2>4, <2>5
<1>12. CASE StopWorker
  <2>1. Where("remove", 6)
    BY <1>1, <1>12, Placed DEF StopWorker
  <2>2. worker'.pc = worker.pc /\ worker'.stop /\ UNCHANGED <<drv, dpc, fault>> /\ Onward
    BY <1>1, <1>4, <1>12, <2>1 DEF StopWorker, WorkerOK
  <2>3. DownInv' /\ RemoveInv'
    BY <1>5, <2>1, <2>2 DEF DownInv, RemoveInv, Still
  <2>. QED
    BY <1>5, <1>6, <2>1, <2>2, <2>3
<1>13. CASE WakeWorker
  <2>1. Where("remove", 7)
    BY <1>1, <1>13, Placed DEF WakeWorker
  <2>2. worker'.pc = worker.pc /\ worker'.stop = worker.stop /\ worker'.event
        /\ UNCHANGED <<drv, dpc, fault>> /\ Onward
    BY <1>1, <1>4, <1>13, <2>1 DEF WakeWorker, WorkerOK
  <2>3. DownInv' /\ RemoveInv'
    BY <1>5, <2>1, <2>2 DEF DownInv, RemoveInv, Still
  <2>. QED
    BY <1>5, <1>6, <2>1, <2>2, <2>3
<1>14. CASE JoinWorker
  <2>1. Where("remove", 8)
    BY <1>1, <1>14, Placed DEF JoinWorker
  <2>2. UNCHANGED <<drv, dpc, worker, fault>> /\ Onward
    BY <1>4, <1>14, <2>1 DEF JoinWorker
  <2>3. DownInv' /\ RemoveInv'
    BY <1>5, <2>1, <2>2 DEF DownInv, RemoveInv, Still
  <2>. QED
    BY <1>5, <1>6, <2>1, <2>2, <2>3
<1>15. CASE FreeMembers
  <2>1. Where("remove", 9)
    BY <1>1, <1>15, Placed DEF FreeMembers
  <2>2. /\ drv'.virtio_init = drv.virtio_init /\ drv'.mapped = drv.mapped
        /\ drv'.hw_init = drv.hw_init
        /\ UNCHANGED <<dpc, worker, fault>> /\ Over(TRUE)
    BY <1>1, <1>4, <1>15, <2>1 DEF FreeMembers, DrvOK
  <2>3. Still' /\ ~drv'.hw_init
    BY <1>5, <2>1, <2>2 DEF RemoveInv, Still
  <2>. QED
    BY <1>5, <2>1, <2>2, <2>3 DEF Sound, StartInv, UpInv, DownInv, RemoveInv, BetweenInv
<1>. QED
  BY <1>7, <1>8, <1>9, <1>10, <1>11, <1>12, <1>13, <1>14, <1>15 DEF TakeDown

\* What disturbs stays: disturbed never falls back.
LEMMA DisturbedStays ==
    ASSUME [Next]_vars, ~disturbed'
    PROVE  ~disturbed
<1>1. \A b : Disturb(b) => ~disturbed
  BY Zenon DEF Disturb
<1>2. UNCHANGED disturbed => ~disturbed
  OBVIOUS
<1>3. CASE \E op \in DOMAIN Steps : Call(op)
  BY <1>2, <1>3, Zenon DEF Call
<1>4. CASE BringUp
  <2>1. Fails => ~disturbed
    BY <1>1, Zenon DEF Fails
  <2>2. CASE PciResources
    BY <1>1, <1>2, <2>2, Zenon DEF PciResources
  <2>3. CASE MapDevice
    BY <1>1, <1>2, <2>3, Zenon DEF MapDevice
  <2>4. CASE ZeroDevice \/ InitQueues \/ DeviceReady \/ SetHardwareInit \/ CreateWorker
             \/ GetModeList \/ StartAsk \/ StartReplied
    BY <1>2, <2>4, Zenon DEF ZeroDevice, InitQueues, DeviceReady, SetHardwareInit, CreateWorker,
       GetModeList, StartAsk, StartReplied
  <2>5. CASE SetFeatures \/ InitSegments \/ InitPool \/ \E q \in Queues : SetupQueue(q)
    BY <1>2, <2>1, <2>5, Zenon DEF SetFeatures, InitSegments, InitPool, SetupQueue
  <2>. QED
    BY <1>4, <2>2, <2>3, <2>4, <2>5 DEF BringUp
<1>5. CASE TakeDown
  BY <1>1, <1>2, <1>5, Zenon DEF TakeDown, DestroyResources, Quiesce, ResetDevice, Delete,
     CloseQueues, StopWorker, WakeWorker, JoinWorker, FreeMembers
<1>6. CASE Beside
  <2>1. CASE Worker
    BY <1>2, <2>1, Zenon DEF Worker, WorkerWake, WorkerRead, WorkerAsk, WorkerReplied, WorkerClear
  <2>2. CASE Dpc
    BY <1>2, <2>2, Zenon DEF Dpc, DpcStart, DpcExchange, DpcCollect, DpcChange
  <2>3. CASE Present \/ Interrupt \/ InterruptRead \/ DevServe
    BY <1>2, <2>3, Zenon DEF Present, Interrupt, InterruptRead, DevServe
  <2>4. CASE DevChange
    BY <1>1, <2>4, Zenon DEF DevChange
  <2>. QED
    BY <1>6, <2>1, <2>2, <2>3, <2>4 DEF Beside
<1>7. CASE UNCHANGED vars
  BY <1>2, <1>7 DEF vars
<1>. QED
  BY <1>3, <1>4, <1>5, <1>6, <1>7 DEF Next, Beside

\* Every step keeps the invariant.
LEMMA NextHealthy ==
    ASSUME TypeOK, DeviceInv, Healthy, [Next]_vars
    PROVE  Healthy'
<1>. SUFFICES ASSUME ~disturbed' PROVE Sound'
  BY DEF Healthy
<1>1. Sound
  BY DisturbedStays DEF Healthy
<1>2. CASE Next
  BY <1>1, <1>2, CallSound, BringUpSound, TakeDownSound, BesideSound DEF Next, Beside
<1>3. CASE UNCHANGED vars
  <2>1. UNCHANGED <<os, drv, mem, dev, dpc, worker, fault>>
    BY <1>3 DEF vars
  <2>. QED
    BY <1>1, <2>1 DEF Sound, StartInv, UpInv, DownInv, RemoveInv, BetweenInv, OpAt,
       Asleep, Still, Silent, Live, Open, Driven, RingsOf
<1>. QED
  BY <1>2, <1>3

\* Until something happens that the code does not survive, every step of every call
\* finds what Sound says of it.
THEOREM HealthyCorrect == Spec => [](TypeOK /\ DeviceInv /\ Healthy)
<1>1. Init => Healthy
  BY InitHealthy
<1>2. TypeOK /\ DeviceInv /\ Healthy /\ [Next]_vars => Healthy'
  BY NextHealthy
<1>3. Spec => [](TypeOK /\ DeviceInv /\ WorkerInv)
  BY DeviceCorrect
<1>. QED
  BY <1>1, <1>2, <1>3, PTL DEF Spec

\* Nothing that runs beside a call uses a null pointer or a deleted queue, and no
\* call does, before something of what "disturbed" lists has happened.
THEOREM FaultCorrect == Spec => []FaultNeedsDisturbance
<1>1. TypeOK /\ DeviceInv /\ Healthy => FaultNeedsDisturbance
  BY Zenon DEF Healthy, Sound, FaultNeedsDisturbance
<1>. QED
  BY <1>1, HealthyCorrect, PTL

\* Between calls IsHardwareInit is true exactly while the adapter is powered and
\* the device runs, and then driver, transport and device agree on two live queues.
THEOREM TruthCorrect == Spec => []HardwareInitIsTruthful
<1>1. ASSUME TypeOK, DeviceInv, Healthy PROVE HardwareInitIsTruthful
  <2>. SUFFICES ASSUME os.op = "none", os.life = "started", ~disturbed
                PROVE  /\ drv.hw_init = os.powered
                       /\ drv.hw_init = ("DRIVER_OK" \in dev.status)
                       /\ drv.hw_init => /\ drv.mapped /\ drv.virtio_init
                                         /\ drv.queue = dev.ring /\ drv.info = dev.ring
                                         /\ Range(drv.queue) \subseteq mem.alloc
    BY DEF HardwareInitIsTruthful
  <2>1. BetweenInv /\ OsOK /\ DrvOK /\ DevOK
    BY <1>1, TypeParts DEF Healthy, Sound, Typed
  <2>2. os.powered \in BOOLEAN /\ drv.hw_init \in BOOLEAN
    BY <2>1 DEF OsOK, DrvOK
  <2>3. CASE os.powered
    <3>1. Live
      BY <2>1, <2>3 DEF BetweenInv
    <3>2. drv.hw_init /\ Driven /\ drv.mapped /\ drv.virtio_init
      BY <3>1 DEF Live
    <3>3. drv.queue = drv.info /\ \A q \in Queues : dev.ring[q] = drv.info[q] /\ drv.info[q] \in mem.alloc
      BY <3>1 DEF Live, RingsOf
    <3>4. drv.info \in [Queues -> Rings \cup {NULL}] /\ dev.ring \in [Queues -> Rings \cup {NULL}]
      BY <2>1 DEF DrvOK, DevOK
    <3>5. drv.info = dev.ring
      BY <3>3, <3>4
    <3>6. Range(drv.queue) \subseteq mem.alloc
      BY <3>3, <3>4 DEF Range
    <3>7. drv.hw_init = os.powered
      BY <2>2, <2>3, <3>2, Zenon
    <3>8. drv.hw_init = ("DRIVER_OK" \in dev.status)
      BY <2>2, <3>2, Zenon DEF Driven
    <3>. QED
      BY <3>2, <3>3, <3>5, <3>6, <3>7, <3>8, Zenon
  <2>4. CASE ~os.powered
    <3>1. ~drv.hw_init /\ ~Driven
      BY <2>1, <2>4 DEF BetweenInv
    <3>2. drv.hw_init = os.powered
      <4>1. drv.hw_init <=> os.powered
        BY <2>4, <3>1
      <4>. QED
        BY <2>2, <4>1
    <3>3. drv.hw_init = ("DRIVER_OK" \in dev.status)
      <4>1. drv.hw_init = FALSE
        BY <2>2, <3>1, Zenon
      <4>2. ("DRIVER_OK" \in dev.status) = FALSE
        BY <3>1 DEF Driven
      <4>. QED
        BY <4>1, <4>2, Zenon
    <3>. QED
      BY <3>1, <3>2, <3>3, Zenon
  <2>. QED
    BY <2>3, <2>4
<1>. QED
  BY <1>1, HealthyCorrect, PTL

\* The wait of HWClose for the worker, which has no timeout, ends: the worker is
\* gone, or idle with its event set and m_bStopWorkThread true.
THEOREM JoinCorrect == Spec => []JoinEnds
<1>1. ASSUME TypeOK, DeviceInv, Healthy PROVE JoinEnds
  <2>. SUFFICES ASSUME At("join"), ~disturbed
                PROVE  \/ worker.pc \in {"none", "gone"}
                       \/ worker.pc = "idle" /\ worker.event /\ worker.stop
    BY DEF JoinEnds
  <2>1. Where("remove", 8)
    BY <1>1, TypeParts, Placed
  <2>2. RemoveInv
    BY <1>1 DEF Healthy, Sound
  <2>. QED
    BY <2>1, <2>2 DEF RemoveInv, OpAt, Where, Still
<1>. QED
  BY <1>1, HealthyCorrect, PTL

=============================================================================
