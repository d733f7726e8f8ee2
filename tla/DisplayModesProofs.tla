------------------------- MODULE DisplayModesProofs -------------------------
(***************************************************************************)
(* Theorems about DisplayModes, for every list of standard sizes, every    *)
(* display and any number of changes, escapes and commits: what is drawn   *)
(* stays inside the frame buffer, a mode that dxgkrnl chose is shown, and  *)
(* the size of the host's display gets into dxgkrnl's list.                *)
(*                                                                         *)
(* Three setters write the list with no lock, two fields of an entry one   *)
(* after the other.  EntryInv says which entries are whole, CommitInv what *)
(* a commit has read of them, KeptInv which entries have not been written  *)
(* since dxgkrnl read them, StandardInv that the standard ones never are,  *)
(* and HostInv where the size of the display is, on its way from the host  *)
(* to the list.                                                            *)
(***************************************************************************)
EXTENDS DisplayModes, NumberSets

-----------------------------------------------------------------------------
(* The invariant                                                           *)

\* What the variables hold: sizes are in pixels, and a setter that writes has a custom slot.
Sizes == Nat \X Nat

\* The two custom slots at the end of the list.
Slots == {ModeCount - 1, ModeCount}

\* The steps and the records of the setters, of the list and of dxgkrnl's call.
SetterSteps == {"off", "ask", "load", "store", "read", "width", "height", "clear", "report"}
ModeInfo == [w : Nat, h : Nat, stride : Nat]
Setter == [at : SetterSteps, size : Sizes, slot : Nat]
Calls == {"idle", "enum", "search"} \cup Switching
Call == [at : Calls, k : Nat, size : Sizes, need : Nat, res : Sizes]

\* The type invariant.
Typed ==
    /\ m_ModeInfo \in [1..ModeCount -> ModeInfo]
    /\ m_CustomMode \in Slots
    /\ set \in [Setters -> Setter]
    /\ \A t \in Setters : set[t].at \in {"store", "width", "height"} => set[t].slot \in Slots
    /\ display \in HostSizes \cup {OFF}
    /\ os \in Call
    /\ os.at # "idle" => os.k \in 1..ModeCount
    /\ offered \subseteq Sizes /\ current \in Sizes
    /\ segment \in Nat
    /\ since \in 0..2

\* Nobody is between the two writes to entry i.
Unwritten(i) == \A t \in Setters : ~InEntry(t, i)

\* An entry is mixed while two setters are in it.  One that is alone in an entry finds there
\* the width that it wrote; an entry that nobody is in has the stride of its width.
EntryInv ==
    /\ \A t, u \in Setters : \A i \in Slots : InEntry(t, i) /\ InEntry(u, i) /\ t # u => i \in mixed
    /\ \A t \in Setters : \A i \in Slots \ mixed :
          InEntry(t, i) => m_ModeInfo[i].w = Width(Clamp(set[t].size))
    /\ \A i \in (1..ModeCount) \ mixed : Unwritten(i) => m_ModeInfo[i].stride = m_ModeInfo[i].w

\* The frame buffer has the size of the current mode.
Shown ==
    /\ ptr = "frame" /\ segment = Area(current)
    /\ frame # NULL /\ frame.res = current /\ frame.scanout = current

\* What a commit has done at each of its steps, and what the last one left.  Unless it is
\* raced, its entry stays as it was when it was found.
CommitInv ==
    /\ os.at \in Switching \cup {"search"} => os.size = current /\ ret = "none"
    /\ os.at \in Switching /\ ~raced =>
          /\ os.k \notin mixed /\ Unwritten(os.k)
          /\ SizeOf(m_ModeInfo[os.k]) = current
          /\ os.at = "init" => os.need = Area(current)
          /\ os.at = "finish" => segment = Area(current) /\ os.res = current
    /\ os.at \in {"init", "finish"} => ~FrameBufferIsActive
    /\ os.at \in {"idle", "enum"} =>
          /\ ret \in {"none", "OK", "FAIL"}
          /\ ret = "none" => ptr = "null"
          /\ ret = "FAIL" => ~FrameBufferIsActive
          /\ ret = "OK" => lost \/ raced \/ Shown

\* The slot that no setter has written since dxgkrnl began to read the list.
KeptSlot == IF since = 0 THEN m_CustomMode ELSE OtherSlot(m_CustomMode)

\* The entries that have not changed since then.
KeptEntries == (1..Len(Standard)) \cup {KeptSlot}

\* As long as m_CustomMode was stored at most once, no setter writes to these entries or will,
\* dxgkrnl's kept sizes are in them, and the search for one of them is not beyond it.
KeptInv ==
    /\ since < 2 =>
          /\ \A t \in Setters : set[t].at \in {"width", "height"} => set[t].slot # KeptSlot
          /\ since = 0 => \A t \in Setters :
                set[t].at # "read" /\ (set[t].at = "store" => set[t].slot # m_CustomMode)
          /\ os.at = "enum" => os.need = KeptSlot
          /\ \A size \in kept : \E i \in KeptEntries : SizeOf(m_ModeInfo[i]) = size
          /\ os.at = "search" /\ chosen =>
                \E i \in KeptEntries : i >= os.k /\ SizeOf(m_ModeInfo[i]) = os.size
    /\ ret = "OK" /\ lost => ~chosen \/ since = 2

\* The standard sizes stay where they are, and the search for one does not pass it.
StandardInv ==
    /\ \A i \in 1..Len(Standard) : SizeOf(m_ModeInfo[i]) = Standard[i]
    /\ os.at = "search" => \A i \in 1..Len(Standard) : i < os.k => Standard[i] # os.size
    /\ ret = "OK" /\ lost => current \notin Range(Standard)

\* A setter that meets no other puts its size into the newest slot.
AloneInv ==
    /\ \A t, u \in Setters : Busy(t) /\ Busy(u) /\ t # u => overlapped
    /\ ~overlapped => \A t \in Setters :
          /\ set[t].at \in {"width", "height"} => set[t].slot = m_CustomMode
          /\ set[t].at = "height" =>
                newestBy = t /\ m_ModeInfo[set[t].slot].w = Width(Clamp(set[t].size))

\* The worker will ask for the size of the display.
WillAsk ==
    \/ set["worker"].at = "ask"
    \/ m_ConfigUpdateEvent /\ events_read /\ set["worker"].at \in {"off", "report"}

\* The newest slot has the size of the display.
Listed == SizeOf(m_ModeInfo[m_CustomMode]) = Clamp(display)

\* Where the size of the display is: asked for, in the hands of a setter, or in the newest slot.
HostInv ==
    /\ set["start"].at \in {"off", "ask", "load", "store", "read", "width", "height"}
    /\ set["start"].at # "off" => reported /\ os.at = "idle"
    /\ ~missed /\ display # OFF =>
          /\ Busy("worker") => set["worker"].size = display
          /\ Busy("start") => overlapped \/ WillAsk \/ set["start"].size = display
          /\ \/ WillAsk \/ set["start"].at = "ask" \/ \E t \in Setters : Busy(t)
             \/ overlapped \/ newestBy = "escape"
             \/ Listed

\* A setter that reports to dxgkrnl is on its way to it.
Reporting == {"load", "store", "read", "width", "height", "clear", "report"}
Underway == \E t \in {"worker", "escape"} : set[t].at \in Reporting

\* dxgkrnl has the newest slot's size, or will be told to read the list again.
OfferInv ==
    \/ reported
    \/ Underway
    \/ os.at = "enum" /\ os.k <= m_CustomMode
    \/ SizeOf(m_ModeInfo[m_CustomMode]) \in offered

-----------------------------------------------------------------------------
(* The standard sizes, the slots and the sizes that are written            *)

\* The loop over gpu_disp_modes has what it should: the equation that defines it has a
\* solution.
LEMMA SuitableAmongIs ==
    LET n == Len(gpu_disp_modes) IN
    /\ SuitableAmong \in [0..n -> Seq(Sizes)]
    /\ SuitableAmong[0] = <<>>
    /\ \A i \in 1..n : SuitableAmong[i] =
          IF Suitable(gpu_disp_modes[i]) THEN Append(SuitableAmong[i - 1], gpu_disp_modes[i])
          ELSE SuitableAmong[i - 1]
<1> DEFINE n == Len(gpu_disp_modes)
           Next1(s, i) == IF Suitable(gpu_disp_modes[i]) THEN Append(s, gpu_disp_modes[i]) ELSE s
           Partial(m, f) == /\ f \in [0..m -> Seq(Sizes)]
                            /\ f[0] = <<>>
                            /\ \A i \in 1..m : f[i] = Next1(f[i - 1], i)
           S == {m \in Nat : \E f : Partial(m, f)}
<1>1. n \in Nat /\ \A i \in 1..n : gpu_disp_modes[i] \in Sizes
  BY SizesAssumption, SMTT(60) DEF Sizes
<1>2. \A s \in Seq(Sizes) : \A i \in 1..n : Next1(s, i) \in Seq(Sizes)
  <2> SUFFICES ASSUME NEW s \in Seq(Sizes), NEW i \in 1..n PROVE Next1(s, i) \in Seq(Sizes)
    OBVIOUS
  <2>1. gpu_disp_modes[i] \in Sizes
    BY <1>1
  <2>. QED
    BY <2>1
<1> HIDE DEF n, Next1
<1>3. 0 \in S
  <2>1. Partial(0, [i \in 0..0 |-> <<>>])
    OBVIOUS
  <2>. QED
    BY <2>1
<1>4. ASSUME NEW m \in 0..(n - 1), m \in S
      PROVE  m + 1 \in S
  <2>1. PICK f : Partial(m, f)
    BY <1>4
  <2> DEFINE g == [i \in 0..(m + 1) |-> IF i <= m THEN f[i] ELSE Next1(f[m], m + 1)]
  <2>2. f[m] \in Seq(Sizes) /\ m + 1 \in 1..n
    BY <1>1, <2>1
  <2>3. Next1(f[m], m + 1) \in Seq(Sizes)
    BY <1>2, <2>2
  <2>4. g \in [0..(m + 1) -> Seq(Sizes)]
    <3>1. ASSUME NEW i \in 0..(m + 1), i <= m
          PROVE  f[i] \in Seq(Sizes)
      BY <2>1, <3>1
    <3>. QED
      BY <2>3, <3>1
  <2>5. g[0] = <<>>
    BY <2>1
  <2>6. ASSUME NEW i \in 1..(m + 1)
        PROVE  g[i] = Next1(g[i - 1], i)
    <3>1. g[i - 1] = f[i - 1]
      OBVIOUS
    <3>2. CASE i = m + 1
      BY <3>1, <3>2
    <3>3. CASE i <= m
      BY <2>1, <3>1, <3>3
    <3>. QED
      BY <3>2, <3>3
  <2>7. Partial(m + 1, g)
    BY <2>4, <2>5, <2>6
  <2> HIDE DEF g, Partial
  <2>. QED
    BY <2>7
<1>5. n \in S
  <2>1. 0..n \subseteq S
    <3> HIDE DEF S
    <3>. QED
      BY <1>1, <1>3, <1>4, IntervalInduction
  <2>2. n \in 0..n
    BY <1>1
  <2> HIDE DEF S
  <2>. QED
    BY <2>1, <2>2
<1>6. PICK f : Partial(n, f)
  <2> HIDE DEF Partial
  <2>. QED
    BY <1>5
<1>7. f = [i \in 0..n |-> IF i = 0 THEN <<>>
                          ELSE IF Suitable(gpu_disp_modes[i]) THEN Append(f[i - 1], gpu_disp_modes[i])
                          ELSE f[i - 1]]
  <2>1. ASSUME NEW i \in 0..n
        PROVE  f[i] = IF i = 0 THEN <<>>
                      ELSE IF Suitable(gpu_disp_modes[i]) THEN Append(f[i - 1], gpu_disp_modes[i])
                      ELSE f[i - 1]
    <3>1. i = 0 \/ i \in 1..n
      BY <1>1
    <3>. QED
      BY <1>6, <3>1, Zenon DEF Next1
  <2>2. f = [i \in 0..n |-> f[i]]
    BY <1>6
  <2>. QED
    BY <2>1, <2>2, Zenon
<1> DEFINE g == SuitableAmong
<1>8. g = [i \in 0..n |-> IF i = 0 THEN <<>>
                          ELSE IF Suitable(gpu_disp_modes[i]) THEN Append(g[i - 1], gpu_disp_modes[i])
                          ELSE g[i - 1]]
  BY <1>7 DEF n, SuitableAmong
<1> HIDE DEF g
<1>9. g[0] = <<>> /\ \A i \in 1..n : g[i] = Next1(g[i - 1], i)
  <2>1. 0 \in 0..n /\ \A i \in 1..n : i \in 0..n /\ i # 0
    BY <1>1
  <2>2. g[0] = <<>>
    BY <1>8, <2>1, Zenon
  <2>3. ASSUME NEW i \in 1..n
        PROVE  g[i] = Next1(g[i - 1], i)
    <3>1. i \in 0..n /\ i # 0
      BY <2>1
    <3>2. g[i] = IF Suitable(gpu_disp_modes[i]) THEN Append(g[i - 1], gpu_disp_modes[i])
                 ELSE g[i - 1]
      BY <1>8, <3>1, Zenon
    <3>. QED
      BY <3>2 DEF Next1
  <2>. QED
    BY <2>2, <2>3
<1> DEFINE R == {i \in Nat : g[i] \in Seq(Sizes)}
<1>10. 0..n \subseteq R
  <2>1. 0 \in R
    <3>1. <<>> \in Seq(Sizes)
      OBVIOUS
    <3>. QED
      BY <1>9, <3>1
  <2>2. ASSUME NEW i \in 0..(n - 1), i \in R
        PROVE  i + 1 \in R
    <3>1. i + 1 \in 1..n /\ (i + 1) - 1 = i /\ g[i] \in Seq(Sizes)
      BY <1>1, <2>2
    <3>2. g[i + 1] = Next1(g[i], i + 1)
      BY <1>9, <3>1
    <3>. QED
      BY <1>2, <3>1, <3>2
  <2> HIDE DEF R
  <2>. QED
    BY <1>1, <2>1, <2>2, IntervalInduction
<1>11. g \in [0..n -> Seq(Sizes)]
  BY <1>8, <1>10
<1>. QED
  BY <1>9, <1>11 DEF g, n, Next1

\* Some standard size is suitable.
LEMMA StandardIs == Standard \in Seq(Sizes) /\ Len(Standard) >= 1
<1> DEFINE n == Len(gpu_disp_modes)
           f == SuitableAmong
<1>1. n \in Nat /\ \A i \in 1..n : gpu_disp_modes[i] \in Sizes
  BY SizesAssumption DEF Sizes
<1>2. /\ \A i \in 0..n : f[i] \in Seq(Sizes)
      /\ \A i \in 1..n : f[i] = IF Suitable(gpu_disp_modes[i]) THEN Append(f[i - 1], gpu_disp_modes[i])
                                ELSE f[i - 1]
  BY SuitableAmongIs
<1>3. PICK k \in 1..n : Suitable(gpu_disp_modes[k])
  BY SizesAssumption, SMTT(60)
<1> HIDE DEF n, f
<1>4. ASSUME NEW i \in 1..n
      PROVE  Len(f[i]) >= Len(f[i - 1]) /\ (Suitable(gpu_disp_modes[i]) => Len(f[i]) >= 1)
  <2>1. i - 1 \in 0..n /\ f[i - 1] \in Seq(Sizes)
    BY <1>1, <1>2
  <2>2. Len(f[i - 1]) \in Nat /\ Len(Append(f[i - 1], gpu_disp_modes[i])) = Len(f[i - 1]) + 1
    <3>1. gpu_disp_modes[i] \in Sizes
      BY <1>1
    <3>. QED
      BY <2>1, <3>1
  <2>3. f[i] = IF Suitable(gpu_disp_modes[i]) THEN Append(f[i - 1], gpu_disp_modes[i])
                ELSE f[i - 1]
    BY <1>2
  <2>. QED
    BY <2>2, <2>3
<1> DEFINE R == {i \in Nat : Len(f[i]) >= 1}
<1>5. k..n \subseteq R
  <2>1. k \in Nat /\ k \in R
    BY <1>1, <1>3, <1>4
  <2>2. ASSUME NEW i \in k..(n - 1), i \in R
        PROVE  i + 1 \in R
    <3>1. i + 1 \in 1..n /\ (i + 1) - 1 = i
      BY <1>1, <1>3
    <3>2. Len(f[i]) \in Nat /\ Len(f[i + 1]) \in Nat
      BY <1>1, <1>2, <3>1
    <3>. QED
      BY <1>4, <2>2, <3>1, <3>2
  <2> HIDE DEF R
  <2>. QED
    BY <1>1, <2>1, <2>2, IntervalInduction
<1>6. n \in k..n /\ n \in 0..n
  BY <1>1, <1>3
<1>7. f[n] \in Seq(Sizes) /\ Len(f[n]) >= 1
  BY <1>2, <1>5, <1>6
<1>. QED
  BY <1>7 DEF Standard, f, n

\* Where the custom slots are.
LEMMA SlotFacts ==
    /\ Len(Standard) \in Nat /\ Len(Standard) >= 1 /\ ModeCount = Len(Standard) + 2
    /\ \A i \in Slots : i \in 1..ModeCount /\ i \in Nat /\ i \notin 1..Len(Standard)
    /\ 1..Len(Standard) \subseteq 1..ModeCount
    /\ \A i \in Slots : /\ OtherSlot(i) \in Slots /\ OtherSlot(i) # i /\ OtherSlot(OtherSlot(i)) = i
                        /\ \A j \in Slots : j # i => j = OtherSlot(i)
<1>1. Len(Standard) \in Nat /\ Len(Standard) >= 1
  BY StandardIs
<1>. QED
  BY <1>1 DEF ModeCount, Slots, OtherSlot

\* What is written is not smaller than the smallest size, nor than the size asked for.
LEMMA ClampFacts ==
    /\ MinSize \in Sizes
    /\ HostSizes \subseteq Sizes
    /\ \A size \in Sizes : /\ Width(size) \in Nat /\ Height(size) \in Nat
                           /\ Width(Clamp(size)) \in Nat /\ Height(Clamp(size)) \in Nat
                           /\ Clamp(size) = <<Width(Clamp(size)), Height(Clamp(size))>>
                           /\ Area(size) \in Nat
<1>1. MinSize \in Sizes /\ HostSizes \subseteq Sizes
  BY SizesAssumption DEF Sizes
<1>2. ASSUME NEW a \in Nat, NEW b \in Nat
      PROVE  Max({a, b}) \in Nat
  <2>1. \E x \in {a, b} : \A y \in {a, b} : x >= y
    OBVIOUS
  <2>. QED
    BY <2>1 DEF Max
<1>3. ASSUME NEW size \in Sizes
      PROVE  /\ Width(size) \in Nat /\ Height(size) \in Nat
             /\ Width(Clamp(size)) \in Nat /\ Height(Clamp(size)) \in Nat
             /\ Clamp(size) = <<Width(Clamp(size)), Height(Clamp(size))>>
             /\ Area(size) \in Nat
  <2>1. Width(size) \in Nat /\ Height(size) \in Nat /\ Width(MinSize) \in Nat /\ Height(MinSize) \in Nat
    BY <1>1 DEF Sizes, Width, Height
  <2>2. Max({Width(size), Width(MinSize)}) \in Nat /\ Max({Height(size), Height(MinSize)}) \in Nat
    BY <1>2, <2>1
  <2>3. /\ Width(Clamp(size)) = Max({Width(size), Width(MinSize)})
        /\ Height(Clamp(size)) = Max({Height(size), Height(MinSize)})
        /\ Clamp(size) = <<Width(Clamp(size)), Height(Clamp(size))>>
    BY DEF Clamp, Width, Height
  <2>4. Area(size) \in Nat
    BY <2>1 DEF Area
  <2>. QED
    BY <2>1, <2>2, <2>3, <2>4
<1>. QED
  BY <1>1, <1>3

-----------------------------------------------------------------------------
(* What a step does to the setters                                         *)

\* Setter t goes to a step, with a size and a slot; the others stay where they are.
Moves(t, at, size, slot) ==
    /\ set' \in [Setters -> Setter]
    /\ set'[t].at = at /\ set'[t].size = size /\ set'[t].slot = slot
    /\ \A u \in Setters \ {t} : set'[u] = set[u]

\* A setter's record is put together from its fields.
LEMMA SetterIs ==
    ASSUME Typed, NEW t \in Setters
    PROVE  /\ set[t].at \in SetterSteps /\ set[t].size \in Sizes /\ set[t].slot \in Nat
           /\ set[t].at \in {"store", "width", "height"} => set[t].slot \in Slots
BY DEF Typed, Setter

\* The forms in which the actions change a setter.
LEMMA MovesIs ==
    ASSUME set \in [Setters -> Setter],
           NEW t \in Setters, NEW a \in SetterSteps, NEW s \in Sizes, NEW n \in Nat
    PROVE  /\ set' = [set EXCEPT ![t].at = a] => Moves(t, a, set[t].size, set[t].slot)
           /\ set' = [set EXCEPT ![t].at = a, ![t].size = s] => Moves(t, a, s, set[t].slot)
           /\ set' = [set EXCEPT ![t].at = a, ![t].slot = n] => Moves(t, a, set[t].size, n)
           /\ set' = [set EXCEPT ![t] = [at |-> a, size |-> s, slot |-> n]] => Moves(t, a, s, n)
<1>1. ASSUME NEW r \in Setter, NEW q
      PROVE  /\ q = [r EXCEPT !.at = a] =>
                   q \in Setter /\ q.at = a /\ q.size = r.size /\ q.slot = r.slot
             /\ q = [r EXCEPT !.at = a, !.size = s] =>
                   q \in Setter /\ q.at = a /\ q.size = s /\ q.slot = r.slot
             /\ q = [r EXCEPT !.at = a, !.slot = n] =>
                   q \in Setter /\ q.at = a /\ q.size = r.size /\ q.slot = n
             /\ q = [at |-> a, size |-> s, slot |-> n] =>
                   q \in Setter /\ q.at = a /\ q.size = s /\ q.slot = n
  <2>1. ASSUME q = [r EXCEPT !.at = a]
        PROVE  q \in Setter /\ q.at = a /\ q.size = r.size /\ q.slot = r.slot
    BY <2>1 DEF Setter
  <2>2. ASSUME q = [r EXCEPT !.at = a, !.size = s]
        PROVE  q \in Setter /\ q.at = a /\ q.size = s /\ q.slot = r.slot
    BY <2>2 DEF Setter
  <2>3. ASSUME q = [r EXCEPT !.at = a, !.slot = n]
        PROVE  q \in Setter /\ q.at = a /\ q.size = r.size /\ q.slot = n
    BY <2>3 DEF Setter
  <2>4. ASSUME q = [at |-> a, size |-> s, slot |-> n]
        PROVE  q \in Setter /\ q.at = a /\ q.size = s /\ q.slot = n
    BY <2>4 DEF Setter
  <2>. QED
    BY <2>1, <2>2, <2>3, <2>4
<1>2. /\ [set EXCEPT ![t].at = a] = [set EXCEPT ![t] = [set[t] EXCEPT !.at = a]]
      /\ [set EXCEPT ![t].at = a, ![t].size = s] = [set EXCEPT ![t] = [set[t] EXCEPT !.at = a, !.size = s]]
      /\ [set EXCEPT ![t].at = a, ![t].slot = n] = [set EXCEPT ![t] = [set[t] EXCEPT !.at = a, !.slot = n]]
  OBVIOUS
<1>3. set[t] \in Setter
  OBVIOUS
<1>4. ASSUME NEW r \in Setter, set' = [set EXCEPT ![t] = r]
      PROVE  Moves(t, r.at, r.size, r.slot)
  <2>1. /\ set'[t] = r /\ \A u \in Setters \ {t} : set'[u] = set[u]
        /\ set' \in [Setters -> Setter]
    BY <1>4
  <2>. QED
    BY <2>1 DEF Moves
<1>5. ASSUME set' = [set EXCEPT ![t].at = a]
      PROVE  Moves(t, a, set[t].size, set[t].slot)
  <2>1. PICK q : q = [set[t] EXCEPT !.at = a]
    OBVIOUS
  <2>2. q \in Setter /\ q.at = a /\ q.size = set[t].size /\ q.slot = set[t].slot
    BY <1>1, <1>3, <2>1, Zenon
  <2>3. set' = [set EXCEPT ![t] = q]
    BY <1>2, <1>5, <2>1, Zenon
  <2>. QED
    BY <1>4, <2>2, <2>3, Zenon
<1>6. ASSUME set' = [set EXCEPT ![t].at = a, ![t].size = s]
      PROVE  Moves(t, a, s, set[t].slot)
  <2>1. PICK q : q = [set[t] EXCEPT !.at = a, !.size = s]
    OBVIOUS
  <2>2. q \in Setter /\ q.at = a /\ q.size = s /\ q.slot = set[t].slot
    BY <1>1, <1>3, <2>1, Zenon
  <2>3. set' = [set EXCEPT ![t] = q]
    BY <1>2, <1>6, <2>1, Zenon
  <2>. QED
    BY <1>4, <2>2, <2>3, Zenon
<1>7. ASSUME set' = [set EXCEPT ![t].at = a, ![t].slot = n]
      PROVE  Moves(t, a, set[t].size, n)
  <2>1. PICK q : q = [set[t] EXCEPT !.at = a, !.slot = n]
    OBVIOUS
  <2>2. q \in Setter /\ q.at = a /\ q.size = set[t].size /\ q.slot = n
    BY <1>1, <1>3, <2>1, Zenon
  <2>3. set' = [set EXCEPT ![t] = q]
    BY <1>2, <1>7, <2>1, Zenon
  <2>. QED
    BY <1>4, <2>2, <2>3, Zenon
<1>8. ASSUME set' = [set EXCEPT ![t] = [at |-> a, size |-> s, slot |-> n]]
      PROVE  Moves(t, a, s, n)
  <2>1. PICK q : q = [at |-> a, size |-> s, slot |-> n]
    OBVIOUS
  <2>2. q \in Setter /\ q.at = a /\ q.size = s /\ q.slot = n
    BY <1>1, <1>3, <2>1, Zenon
  <2>3. set' = [set EXCEPT ![t] = q]
    BY <1>8, <2>1, Zenon
  <2>. QED
    BY <1>4, <2>2, <2>3, Zenon
<1>. QED
  BY <1>5, <1>6, <1>7, <1>8, Zenon

\* How the actions move their setter.
LEMMA SetterMoves ==
    ASSUME Typed
    PROVE  /\ ConfigChanged => Moves("worker", IF events_read THEN "ask" ELSE "off", MinSize, 0)
           /\ SetEventsClear => Moves("worker", "report", set["worker"].size, set["worker"].slot)
           /\ \A size \in HostSizes : Escape(size) => Moves("escape", "load", size, 0)
           /\ \A t \in Setters :
                 /\ GetDisplayInfo(t) /\ display = OFF => Moves(t, After(t), MinSize, 0)
                 /\ GetDisplayInfo(t) /\ display # OFF => Moves(t, "load", display, set[t].slot)
                 /\ Report(t) => Moves(t, "off", MinSize, 0)
                 /\ LoadCustomMode(t) => Moves(t, "store", set[t].size, OtherSlot(m_CustomMode))
                 /\ StoreCustomMode(t) => Moves(t, "read", set[t].size, 0)
                 /\ ReadCustomMode(t) => Moves(t, "width", set[t].size, m_CustomMode)
                 /\ SetWidth(t) => Moves(t, "height", set[t].size, set[t].slot)
                 /\ SetHeightAndStride(t) => Moves(t, After(t), MinSize, 0)
<1>1. set \in [Setters -> Setter] /\ "worker" \in Setters /\ "escape" \in Setters
  BY DEF Typed, Setters, Setter
<1>2. /\ \A x : At(x) = [at |-> x, size |-> MinSize, slot |-> 0]
      /\ Off = [at |-> "off", size |-> MinSize, slot |-> 0]
  BY DEF At, Off
<1>3. /\ MinSize \in Sizes /\ HostSizes \subseteq Sizes /\ 0 \in Nat
      /\ display # OFF => display \in Sizes
      /\ OtherSlot(m_CustomMode) \in Nat /\ m_CustomMode \in Nat
      /\ \A t \in Setters : After(t) \in SetterSteps /\ set[t].size \in Sizes /\ set[t].slot \in Nat
  BY ClampFacts, SlotFacts DEF Typed, After, Setters, SetterSteps, Setter
<1>4. SetterSteps = {"off", "ask", "load", "store", "read", "width", "height", "clear", "report"}
  BY DEF SetterSteps
<1> HIDE DEF Typed
<1>5. ConfigChanged => Moves("worker", IF events_read THEN "ask" ELSE "off", MinSize, 0)
  <2> DEFINE a == IF events_read THEN "ask" ELSE "off"
  <2>1. a \in SetterSteps
    BY <1>4
  <2>2. ConfigChanged => set' = [set EXCEPT !["worker"] = [at |-> a, size |-> MinSize, slot |-> 0]]
    BY <1>2, Zenon DEF ConfigChanged
  <2> HIDE DEF a
  <2>. QED
    BY <1>1, <1>3, <2>1, <2>2, MovesIs, Zenon DEF a
<1>6. SetEventsClear => Moves("worker", "report", set["worker"].size, set["worker"].slot)
  BY <1>1, <1>3, <1>4, MovesIs DEF SetEventsClear
<1>7. ASSUME NEW size \in HostSizes PROVE Escape(size) => Moves("escape", "load", size, 0)
  BY <1>1, <1>3, <1>4, MovesIs DEF Escape
<1>8. ASSUME NEW t \in Setters
      PROVE  /\ GetDisplayInfo(t) /\ display = OFF => Moves(t, After(t), MinSize, 0)
             /\ GetDisplayInfo(t) /\ display # OFF => Moves(t, "load", display, set[t].slot)
  BY <1>1, <1>2, <1>3, <1>4, MovesIs DEF GetDisplayInfo
<1>9. ASSUME NEW t \in Setters PROVE Report(t) => Moves(t, "off", MinSize, 0)
  BY <1>1, <1>2, <1>3, <1>4, MovesIs DEF Report
<1>10. ASSUME NEW t \in Setters
       PROVE  LoadCustomMode(t) => Moves(t, "store", set[t].size, OtherSlot(m_CustomMode))
  BY <1>1, <1>3, <1>4, MovesIs DEF LoadCustomMode
<1>13. ASSUME NEW t \in Setters PROVE StoreCustomMode(t) => Moves(t, "read", set[t].size, 0)
  BY <1>1, <1>3, <1>4, MovesIs DEF StoreCustomMode
<1>14. ASSUME NEW t \in Setters PROVE ReadCustomMode(t) => Moves(t, "width", set[t].size, m_CustomMode)
  BY <1>1, <1>3, <1>4, MovesIs DEF ReadCustomMode
<1>11. ASSUME NEW t \in Setters PROVE SetWidth(t) => Moves(t, "height", set[t].size, set[t].slot)
  BY <1>1, <1>3, <1>4, MovesIs DEF SetWidth
<1>12. ASSUME NEW t \in Setters PROVE SetHeightAndStride(t) => Moves(t, After(t), MinSize, 0)
  BY <1>1, <1>2, <1>3, <1>4, MovesIs DEF SetHeightAndStride
<1>. QED
  BY <1>5, <1>6, <1>7, <1>8, <1>9, <1>10, <1>11, <1>12, <1>13, <1>14

\* What the two writes do to the list.
LEMMA WritesIs ==
    ASSUME Typed, NEW t \in Setters
    PROVE  LET i == set[t].slot IN
           /\ SetWidth(t) =>
                 /\ i \in Slots /\ i \in 1..ModeCount
                 /\ m_ModeInfo'[i] = [m_ModeInfo[i] EXCEPT !.w = Width(Clamp(set[t].size))]
                 /\ \A j \in (1..ModeCount) \ {i} : m_ModeInfo'[j] = m_ModeInfo[j]
           /\ SetHeightAndStride(t) =>
                 /\ i \in Slots /\ i \in 1..ModeCount
                 /\ m_ModeInfo'[i] = [m_ModeInfo[i] EXCEPT !.h = Height(Clamp(set[t].size)),
                                                           !.stride = Width(Clamp(set[t].size))]
                 /\ \A j \in (1..ModeCount) \ {i} : m_ModeInfo'[j] = m_ModeInfo[j]
<1>1. m_ModeInfo \in [1..ModeCount -> ModeInfo]
  BY DEF Typed, Setter
<1>2. SetWidth(t) \/ SetHeightAndStride(t) => set[t].slot \in Slots /\ set[t].slot \in 1..ModeCount
  BY SlotFacts DEF Typed, SetWidth, SetHeightAndStride
<1> HIDE DEF Typed
<1>3. SetWidth(t) => m_ModeInfo' = [m_ModeInfo EXCEPT ![set[t].slot] =
                                      [m_ModeInfo[set[t].slot] EXCEPT !.w = Width(Clamp(set[t].size))]]
  BY <1>1, <1>2 DEF SetWidth
<1>4. SetHeightAndStride(t) =>
        m_ModeInfo' = [m_ModeInfo EXCEPT ![set[t].slot] =
                         [m_ModeInfo[set[t].slot] EXCEPT !.h = Height(Clamp(set[t].size)),
                                                         !.stride = Width(Clamp(set[t].size))]]
  BY <1>1, <1>2 DEF SetHeightAndStride
<1>. QED
  BY <1>1, <1>2, <1>3, <1>4

\* What the steps of dxgkrnl's calls do to the call.
LEMMA CallMoves ==
    ASSUME Typed
    PROVE  /\ Idle \in Call /\ Idle.at = "idle"
           /\ EnumVidPnCofuncModality =>
                 os' \in Call /\ os'.at = "enum" /\ os'.k = 1 /\ os'.need = m_CustomMode
           /\ AddSingleSourceMode /\ os.k = ModeCount => os' = Idle
           /\ AddSingleSourceMode /\ os.k # ModeCount =>
                 os' \in Call /\ os'.at = "enum" /\ os'.k = os.k + 1 /\ os'.need = os.need
           /\ \A size \in offered : SetSourceModeAndPath(size) =>
                 os' \in Call /\ os'.at = "search" /\ os'.k = 1 /\ os'.size = size
           /\ SearchMode /\ SizeOf(m_ModeInfo[os.k]) = os.size =>
                 os' \in Call /\ os'.at = "destroy" /\ os'.k = os.k /\ os'.size = os.size
           /\ SearchMode /\ SizeOf(m_ModeInfo[os.k]) # os.size /\ os.k < ModeCount =>
                 os' \in Call /\ os'.at = "search" /\ os'.k = os.k + 1 /\ os'.size = os.size
           /\ SearchMode /\ SizeOf(m_ModeInfo[os.k]) # os.size /\ ~(os.k < ModeCount) => os' = Idle
           /\ DestroyFrame =>
                 /\ os' \in Call /\ os'.at = "init" /\ os'.k = os.k /\ os'.size = os.size
                 /\ os'.need = m_ModeInfo[os.k].stride * m_ModeInfo[os.k].h
           /\ InitFrameSegment =>
                 \/ CommitFails
                 \/ /\ os' \in Call /\ os'.at = "finish" /\ os'.k = os.k /\ os'.size = os.size
                    /\ os'.res = SizeOf(m_ModeInfo[os.k]) /\ segment' = os.need /\ UNCHANGED outcome
<1>1. MinSize \in Sizes /\ m_CustomMode \in Nat /\ offered \subseteq Sizes /\ os \in Call
  BY ClampFacts, SlotFacts DEF Typed
<1>2. os.k \in Nat /\ os.k + 1 \in Nat
  BY <1>1 DEF Call
<1>3. os.at # "idle" => /\ m_ModeInfo[os.k].stride * m_ModeInfo[os.k].h \in Nat
                        /\ SizeOf(m_ModeInfo[os.k]) \in Sizes
  BY DEF Typed, ModeInfo, SizeOf, Sizes
<1> HIDE DEF Typed
<1>4. Idle \in Call /\ Idle.at = "idle"
  BY <1>1 DEF Idle, Call, Calls, Switching
<1>5. ASSUME EnumVidPnCofuncModality
      PROVE  os' \in Call /\ os'.at = "enum" /\ os'.k = 1 /\ os'.need = m_CustomMode
  <2>1. os' = [Idle EXCEPT !.at = "enum", !.k = 1, !.need = m_CustomMode]
    BY <1>5 DEF EnumVidPnCofuncModality
  <2>. QED
    BY <1>1, <1>4, <2>1 DEF Call, Calls
<1>6. ASSUME AddSingleSourceMode, os.k # ModeCount
      PROVE  os' \in Call /\ os'.at = "enum" /\ os'.k = os.k + 1 /\ os'.need = os.need
  <2>1. os' = [os EXCEPT !.k = @ + 1] /\ os.at = "enum"
    BY <1>6 DEF AddSingleSourceMode
  <2>. QED
    BY <1>1, <1>2, <2>1 DEF Call, Calls
<1>7. AddSingleSourceMode /\ os.k = ModeCount => os' = Idle
  BY DEF AddSingleSourceMode
<1>8. ASSUME NEW size \in offered, SetSourceModeAndPath(size)
      PROVE  os' \in Call /\ os'.at = "search" /\ os'.k = 1 /\ os'.size = size
  <2>1. os' = [Idle EXCEPT !.at = "search", !.k = 1, !.size = size] /\ size \in Sizes
    BY <1>1, <1>8 DEF SetSourceModeAndPath
  <2>. QED
    BY <1>4, <2>1 DEF Call, Calls
<1>9. ASSUME SearchMode, SizeOf(m_ModeInfo[os.k]) = os.size
      PROVE  os' \in Call /\ os'.at = "destroy" /\ os'.k = os.k /\ os'.size = os.size
  <2>1. os' = [os EXCEPT !.at = "destroy"]
    BY <1>9 DEF SearchMode
  <2>. QED
    BY <1>1, <2>1 DEF Call, Calls, Switching
<1>10. ASSUME SearchMode, SizeOf(m_ModeInfo[os.k]) # os.size, os.k < ModeCount
       PROVE  os' \in Call /\ os'.at = "search" /\ os'.k = os.k + 1 /\ os'.size = os.size
  <2>1. os' = [os EXCEPT !.k = @ + 1] /\ os.at = "search"
    BY <1>10 DEF SearchMode
  <2>. QED
    BY <1>1, <1>2, <2>1 DEF Call, Calls
<1>11. SearchMode /\ SizeOf(m_ModeInfo[os.k]) # os.size /\ ~(os.k < ModeCount) => os' = Idle
  BY DEF SearchMode
<1>12. ASSUME DestroyFrame
       PROVE  /\ os' \in Call /\ os'.at = "init" /\ os'.k = os.k /\ os'.size = os.size
              /\ os'.need = m_ModeInfo[os.k].stride * m_ModeInfo[os.k].h
  <2> DEFINE n == m_ModeInfo[os.k].stride * m_ModeInfo[os.k].h
  <2>1. n \in Nat
    BY <1>3, <1>12 DEF DestroyFrame
  <2>2. os' = [os EXCEPT !.at = "init", !.need = n]
    BY <1>12 DEF DestroyFrame
  <2> HIDE DEF n
  <2>3. os' \in Call /\ os'.at = "init" /\ os'.k = os.k /\ os'.size = os.size /\ os'.need = n
    BY <1>1, <2>1, <2>2 DEF Call, Calls, Switching
  <2>. QED
    BY <2>3 DEF n
<1>13. ASSUME InitFrameSegment, ~CommitFails
       PROVE  /\ os' \in Call /\ os'.at = "finish" /\ os'.k = os.k /\ os'.size = os.size
              /\ os'.res = SizeOf(m_ModeInfo[os.k]) /\ segment' = os.need /\ UNCHANGED outcome
  <2> DEFINE s == SizeOf(m_ModeInfo[os.k])
  <2>1. s \in Sizes
    BY <1>3, <1>13 DEF InitFrameSegment
  <2>2. os' = [os EXCEPT !.at = "finish", !.res = s] /\ segment' = os.need /\ UNCHANGED outcome
    BY <1>13 DEF InitFrameSegment
  <2> HIDE DEF s
  <2>3. os' \in Call /\ os'.at = "finish" /\ os'.k = os.k /\ os'.size = os.size /\ os'.res = s
    BY <1>1, <2>1, <2>2 DEF Call, Calls, Switching
  <2>. QED
    BY <2>2, <2>3 DEF s
<1>. QED
  BY <1>4, <1>5, <1>6, <1>7, <1>8, <1>9, <1>10, <1>11, <1>12, <1>13

-----------------------------------------------------------------------------
(* Types                                                                   *)

\* The count of changes stops at 2.
LEMMA SinceMoves ==
    ASSUME Typed, NEW t \in Setters, StoreCustomMode(t)
    PROVE  since' = IF since = 0 THEN 1 ELSE 2
<1>1. since \in 0..2 /\ since' = Min({since + 1, 2})
  BY DEF Typed, StoreCustomMode
<1>2. ASSUME NEW a \in Nat
      PROVE  Min({a, 2}) \in {a, 2} /\ Min({a, 2}) <= a /\ Min({a, 2}) <= 2
  <2>1. \E x \in {a, 2} : \A y \in {a, 2} : x <= y
    OBVIOUS
  <2>. QED
    BY <2>1 DEF Min
<1>3. /\ Min({since + 1, 2}) \in {since + 1, 2}
      /\ Min({since + 1, 2}) <= since + 1 /\ Min({since + 1, 2}) <= 2
  <2>1. since + 1 \in Nat
    BY <1>1
  <2>. QED
    BY <1>2, <2>1
<1>. QED
  BY <1>1, <1>3

\* A setter that moves keeps the types of all.
LEMMA MovesTyped ==
    ASSUME Typed, NEW t \in Setters, NEW a, NEW s, NEW n, Moves(t, a, s, n),
           a \in {"store", "width", "height"} => n \in Slots
    PROVE  /\ set' \in [Setters -> Setter]
           /\ \A u \in Setters : set'[u].at \in {"store", "width", "height"} => set'[u].slot \in Slots
BY DEF Typed, Moves

\* Every step keeps the types.
LEMMA NextTyped == Typed /\ [Next]_vars => Typed'
<1> SUFFICES ASSUME Typed, [Next]_vars PROVE Typed'
  OBVIOUS
<1> USE DEF list, host, modes, screen, outcome
<1> DEFINE SetOK == /\ set' \in [Setters -> Setter]
                    /\ \A u \in Setters : set'[u].at \in {"store", "width", "height"} => set'[u].slot \in Slots
<1>1. ASSUME UNCHANGED <<m_ModeInfo, m_CustomMode, set, os, offered, current, segment, since>>,
             display' \in HostSizes \cup {OFF}
      PROVE  Typed'
  BY <1>1 DEF Typed
<1>2. ASSUME UNCHANGED <<m_ModeInfo, display, os, offered, current, segment>>,
             m_CustomMode' \in Slots, since' \in 0..2, SetOK
      PROVE  Typed'
  BY <1>2 DEF Typed
<1>3. ASSUME UNCHANGED <<m_ModeInfo, m_CustomMode, set, display>>,
             os' \in Call, os'.at # "idle" => os'.k \in 1..ModeCount,
             offered' \subseteq Sizes, current' \in Sizes, segment' \in Nat, since' \in 0..2
      PROVE  Typed'
  BY <1>3 DEF Typed
<1>4. /\ m_CustomMode \in Slots /\ since \in 0..2 /\ os \in Call /\ offered \subseteq Sizes
      /\ current \in Sizes /\ segment \in Nat /\ OtherSlot(m_CustomMode) \in Slots
      /\ ModeCount \in Nat /\ ModeCount >= 3
      /\ os.at # "idle" => os.k \in 1..ModeCount
      /\ m_ModeInfo \in [1..ModeCount -> ModeInfo]
      /\ Setters = {"start", "worker", "escape"}
      /\ os.k \in Nat /\ os.need \in Nat
  BY SlotFacts DEF Typed, Setters, Call
<1>5. \A t \in Setters : /\ After(t) \notin {"store", "width", "height"}
                         /\ set[t].at \in {"store", "width", "height"} => set[t].slot \in Slots
  BY DEF Typed, Setters, After
<1>6. ASSUME NEW d \in HostSizes \cup {OFF}, HostChange(d)
      PROVE  Typed'
  BY <1>1, <1>6 DEF HostChange
<1>7. ASSUME ConfigChanged
      PROVE  Typed'
  <2>1. SetOK
    BY <1>4, <1>7, SetterMoves, MovesTyped
  <2>. QED
    BY <1>2, <1>4, <1>7, <2>1 DEF ConfigChanged
<1>8. ASSUME SetEventsClear
      PROVE  Typed'
  <2>1. SetOK
    BY <1>4, <1>8, SetterMoves, MovesTyped
  <2>. QED
    BY <1>2, <1>4, <1>8, <2>1 DEF SetEventsClear
<1>9. ASSUME NEW size \in HostSizes, Escape(size)
      PROVE  Typed'
  <2>1. SetOK
    BY <1>4, <1>9, SetterMoves, MovesTyped
  <2>. QED
    BY <1>2, <1>4, <1>9, <2>1 DEF Escape
<1>10. ASSUME NEW t \in Setters, GetDisplayInfo(t)
       PROVE  Typed'
  <2>1. SetOK
    BY <1>5, <1>10, SetterMoves, MovesTyped
  <2>. QED
    BY <1>2, <1>4, <1>10, <2>1 DEF GetDisplayInfo
<1>11. ASSUME NEW t \in Setters, LoadCustomMode(t) \/ ReadCustomMode(t)
       PROVE  Typed'
  <2>1. SetOK
    BY <1>4, <1>11, SetterMoves, MovesTyped
  <2>. QED
    BY <1>2, <1>4, <1>11, <2>1 DEF LoadCustomMode, ReadCustomMode
<1>22. ASSUME NEW t \in Setters, StoreCustomMode(t)
       PROVE  Typed'
  <2>1. SetOK
    BY <1>22, SetterMoves, MovesTyped
  <2>2. since' \in 0..2
    BY <1>22, SinceMoves
  <2>3. m_CustomMode' \in Slots
    BY <1>5, <1>22 DEF StoreCustomMode
  <2>. QED
    BY <1>2, <1>22, <2>1, <2>2, <2>3 DEF StoreCustomMode
<1>12. ASSUME NEW t \in Setters, UpdateChildStatus(t)
       PROVE  Typed'
  <2>1. SetOK
    BY <1>12, SetterMoves, MovesTyped DEF UpdateChildStatus
  <2>. QED
    BY <1>2, <1>4, <1>12, <2>1 DEF UpdateChildStatus, Report
<1>13. ASSUME NEW t \in Setters, SetWidth(t) \/ SetHeightAndStride(t)
       PROVE  Typed'
  <2>1. SetOK
    <3>1. set[t].slot \in Slots
      BY <1>5, <1>13 DEF SetWidth, SetHeightAndStride
    <3>. QED
      BY <1>5, <1>13, <3>1, SetterMoves, MovesTyped
  <2>2. m_CustomMode' \in Slots /\ since' \in 0..2
    BY <1>4, <1>13 DEF SetWidth, SetHeightAndStride
  <2>3. UNCHANGED <<display, os, offered, current, segment>>
    BY <1>13 DEF SetWidth, SetHeightAndStride, Writes
  <2>4. m_ModeInfo' \in [1..ModeCount -> ModeInfo]
    <3>1. /\ Width(Clamp(set[t].size)) \in Nat /\ Height(Clamp(set[t].size)) \in Nat
          /\ set[t].slot \in 1..ModeCount
      BY <1>13, ClampFacts, SetterIs, WritesIs
    <3>2. CASE SetWidth(t)
      <4>1. [m_ModeInfo[set[t].slot] EXCEPT !.w = Width(Clamp(set[t].size))] \in ModeInfo
        BY <1>4, <3>1 DEF ModeInfo
      <4>. QED
        BY <1>4, <3>1, <3>2, <4>1 DEF SetWidth
    <3>3. CASE SetHeightAndStride(t)
      <4>1. \A r \in ModeInfo : \A x, y \in Nat : [r EXCEPT !.h = x, !.stride = y] \in ModeInfo
        BY DEF ModeInfo
      <4>2. [m_ModeInfo[set[t].slot] EXCEPT !.h = Height(Clamp(set[t].size)),
                                            !.stride = Width(Clamp(set[t].size))] \in ModeInfo
        BY <1>4, <3>1, <4>1
      <4>. QED
        BY <1>4, <3>1, <3>3, <4>2 DEF SetHeightAndStride
    <3>. QED
      BY <1>13, <3>2, <3>3
  <2>. QED
    BY <2>1, <2>2, <2>3, <2>4 DEF Typed
<1>14. ASSUME EnumVidPnCofuncModality
       PROVE  Typed'
  <2>1. os' \in Call /\ os'.k \in 1..ModeCount
    BY <1>4, <1>14, CallMoves
  <2>2. UNCHANGED <<m_ModeInfo, m_CustomMode, set, display, current, segment>> /\ offered' = {}
        /\ since' \in 0..2
    BY <1>14 DEF EnumVidPnCofuncModality
  <2>. QED
    BY <1>3, <1>4, <2>1, <2>2
<1>15. ASSUME AddSingleSourceMode
       PROVE  Typed'
  <2>1. os.k \in 1..ModeCount /\ SizeOf(m_ModeInfo[os.k]) \in Sizes
    BY <1>4, <1>15 DEF AddSingleSourceMode, SizeOf, Sizes, ModeInfo
  <2>2. offered' \subseteq Sizes
    BY <1>4, <1>15, <2>1 DEF AddSingleSourceMode
  <2>3. os' \in Call /\ (os'.at # "idle" => os'.k \in 1..ModeCount)
    BY <1>4, <1>15, <2>1, CallMoves
  <2>. QED
    BY <1>3, <1>4, <1>15, <2>2, <2>3 DEF AddSingleSourceMode
<1>16. ASSUME NEW size \in offered, SetSourceModeAndPath(size)
       PROVE  Typed'
  <2>1. os' \in Call /\ os'.k \in 1..ModeCount
    BY <1>4, <1>16, CallMoves
  <2>2. UNCHANGED <<m_ModeInfo, m_CustomMode, set, display, offered, segment, since>> /\ current' = size
    BY <1>16 DEF SetSourceModeAndPath
  <2>3. size \in Sizes
    BY <1>4
  <2>. QED
    BY <1>3, <1>4, <2>1, <2>2, <2>3
<1>17. ASSUME SearchMode
       PROVE  Typed'
  <2>1. os.k \in 1..ModeCount
    BY <1>4, <1>17 DEF SearchMode
  <2>2. os' \in Call /\ (os'.at # "idle" => os'.k \in 1..ModeCount)
    BY <1>4, <1>17, <2>1, CallMoves
  <2>. QED
    BY <1>3, <1>4, <1>17, <2>2 DEF SearchMode
<1>18. ASSUME SetCurrentMode
       PROVE  Typed'
  <2>1. os' \in Call /\ os'.k \in 1..ModeCount
    BY <1>4, <1>18, CallMoves DEF SetCurrentMode, DestroyFrame
  <2>. QED
    BY <1>3, <1>4, <1>18, <2>1 DEF SetCurrentMode, DestroyFrame
<1>19. ASSUME InitFrameSegment
       PROVE  Typed'
  <2>1. os' \in Call /\ (os'.at # "idle" => os'.k \in 1..ModeCount) /\ segment' \in Nat
    BY <1>4, <1>19, CallMoves DEF InitFrameSegment, CommitFails
  <2>. QED
    BY <1>3, <1>4, <1>19, <2>1 DEF InitFrameSegment
<1>20. ASSUME InitFrameObject
       PROVE  Typed'
  <2>1. os' = Idle
    BY <1>20 DEF InitFrameObject, CommitFails
  <2>. QED
    BY <1>3, <1>4, <1>20, <2>1, CallMoves DEF InitFrameObject
<1>21. ASSUME \/ PresentDisplayOnly \/ \E v \in BOOLEAN : SetVidPnSourceVisibility(v)
              \/ StopDeviceAndReleasePostDisplayOwnership \/ SystemDisplayWrite \/ UNCHANGED vars
       PROVE  Typed'
  <2>1. UNCHANGED <<m_ModeInfo, m_CustomMode, set, os, offered, current, segment, since, display>>
    BY <1>21 DEF PresentDisplayOnly, SetVidPnSourceVisibility, BlackOutScreen, Write,
                 StopDeviceAndReleasePostDisplayOwnership, SystemDisplayWrite, vars
  <2>. QED
    BY <1>1, <2>1 DEF Typed
<1>. QED
  BY <1>6, <1>7, <1>8, <1>9, <1>10, <1>11, <1>12, <1>13, <1>14, <1>15, <1>16, <1>17, <1>18,
     <1>19, <1>20, <1>21, <1>22 DEF Next, SetCustomDisplay, CreateFrameBufferObj

-----------------------------------------------------------------------------
(* The kinds of steps                                                      *)

\* A step of dxgkrnl in a call.
CallStep ==
    \/ EnumVidPnCofuncModality \/ AddSingleSourceMode
    \/ \E size \in offered : SetSourceModeAndPath(size)
    \/ SearchMode \/ SetCurrentMode \/ InitFrameSegment \/ InitFrameObject

\* A step of setter t that writes nothing; it may load m_CustomMode.
Passes(t) ==
    \E a \in SetterSteps \ {"read", "height"}, s \in Sizes, n \in Nat :
        /\ Moves(t, a, s, n)
        /\ set[t].at \notin {"store", "width", "height"}
        /\ a = "store" => n = OtherSlot(m_CustomMode)
        /\ a = "width" => set[t].at = "read" /\ n = m_CustomMode

\* What neither the host, nor a setter that does not write, nor one who draws changes.
Unseen == <<m_ModeInfo, m_CustomMode, newestBy, mixed, since, offered, os, kept, screen, outcome>>

\* A step writes an entry, stores m_CustomMode, moves a setter that does neither, belongs to a
\* call, or none of these.
LEMMA StepKinds ==
    ASSUME Typed, [Next]_vars
    PROVE  \/ \E t \in Setters : SetWidth(t) \/ SetHeightAndStride(t)
           \/ \E t \in Setters : StoreCustomMode(t)
           \/ UNCHANGED Unseen /\ \E t \in Setters : Passes(t)
           \/ CallStep
           \/ UNCHANGED Unseen /\ UNCHANGED set
<1> USE DEF list, host, modes, screen, outcome, Unseen
<1>1. /\ MinSize \in Sizes /\ 0 \in Nat /\ HostSizes \subseteq Sizes
      /\ OtherSlot(m_CustomMode) \in Nat /\ m_CustomMode \in Nat
      /\ display # OFF => display \in Sizes
      /\ {"off", "ask", "load", "store", "width", "clear", "report"} \subseteq SetterSteps \ {"read", "height"}
      /\ Setters = {"start", "worker", "escape"}
  BY ClampFacts, SlotFacts DEF Typed, SetterSteps, Setters
<1>2. \A t \in Setters : set[t].size \in Sizes /\ set[t].slot \in Nat
  BY SetterIs
<1>3. \A t \in Setters : After(t) \in SetterSteps \ {"read", "height"} /\ After(t) \notin {"store", "width"}
  BY DEF After, Setters, SetterSteps
<1>4. ASSUME ConfigChanged
      PROVE  UNCHANGED Unseen /\ Passes("worker")
  <2>1. Moves("worker", IF events_read THEN "ask" ELSE "off", MinSize, 0)
    BY <1>4, SetterMoves
  <2>2. set["worker"].at = "off"
    BY <1>4 DEF ConfigChanged, Off
  <2>3. PICK a \in {"ask", "off"} : Moves("worker", a, MinSize, 0)
    BY <2>1
  <2>4. Passes("worker")
    BY <1>1, <2>2, <2>3 DEF Passes
  <2>. QED
    BY <1>4, <2>4 DEF ConfigChanged
<1>5. ASSUME SetEventsClear
      PROVE  UNCHANGED Unseen /\ Passes("worker")
  <2>1. Moves("worker", "report", set["worker"].size, set["worker"].slot) /\ set["worker"].at = "clear"
    BY <1>5, SetterMoves DEF SetEventsClear
  <2>2. Passes("worker")
    BY <1>1, <1>2, <2>1 DEF Passes
  <2>. QED
    BY <1>5, <2>2 DEF SetEventsClear
<1>6. ASSUME NEW size \in HostSizes, Escape(size)
      PROVE  UNCHANGED Unseen /\ Passes("escape")
  <2>1. Moves("escape", "load", size, 0) /\ set["escape"].at = "off"
    <3>1. Moves("escape", "load", size, 0)
      BY <1>6, SetterMoves
    <3>2. set["escape"].at = "off"
      BY <1>6 DEF Escape, Off
    <3>. QED
      BY <3>1, <3>2
  <2>2. Passes("escape")
    BY <1>1, <2>1 DEF Passes
  <2>. QED
    BY <1>6, <2>2 DEF Escape
<1>7. ASSUME NEW t \in Setters, GetDisplayInfo(t)
      PROVE  UNCHANGED Unseen /\ Passes(t)
  <2>1. set[t].at = "ask"
    BY <1>7 DEF GetDisplayInfo
  <2>2. CASE display = OFF
    <3>1. Moves(t, After(t), MinSize, 0)
      BY <1>7, <2>2, SetterMoves
    <3>2. Passes(t)
      BY <1>1, <1>3, <2>1, <3>1 DEF Passes
    <3>. QED
      BY <1>7, <3>2 DEF GetDisplayInfo
  <2>3. CASE display # OFF
    <3>1. Moves(t, "load", display, set[t].slot)
      BY <1>7, <2>3, SetterMoves
    <3>2. Passes(t)
      BY <1>1, <1>2, <2>1, <2>3, <3>1 DEF Passes
    <3>. QED
      BY <1>7, <3>2 DEF GetDisplayInfo
  <2>. QED
    BY <2>2, <2>3
<1>8. ASSUME NEW t \in Setters, LoadCustomMode(t)
      PROVE  UNCHANGED Unseen /\ Passes(t)
  <2>1. Moves(t, "store", set[t].size, OtherSlot(m_CustomMode)) /\ set[t].at = "load"
    BY <1>8, SetterMoves DEF LoadCustomMode
  <2>2. Passes(t)
    BY <1>1, <1>2, <2>1 DEF Passes
  <2>. QED
    BY <1>8, <2>2 DEF LoadCustomMode
<1>11. ASSUME NEW t \in Setters, ReadCustomMode(t)
       PROVE  UNCHANGED Unseen /\ Passes(t)
  <2>1. Moves(t, "width", set[t].size, m_CustomMode) /\ set[t].at = "read"
    BY <1>11, SetterMoves DEF ReadCustomMode
  <2>2. Passes(t)
    BY <1>1, <1>2, <2>1 DEF Passes
  <2>. QED
    BY <1>11, <2>2 DEF ReadCustomMode
<1>9. ASSUME NEW t \in Setters, UpdateChildStatus(t)
      PROVE  UNCHANGED Unseen /\ Passes(t)
  <2>1. Moves(t, "off", MinSize, 0) /\ set[t].at = "report"
    BY <1>9, SetterMoves DEF UpdateChildStatus, Report
  <2>2. Passes(t)
    BY <1>1, <2>1 DEF Passes
  <2>. QED
    BY <1>9, <2>2 DEF UpdateChildStatus, Report
<1>10. ASSUME \/ PresentDisplayOnly \/ \E v \in BOOLEAN : SetVidPnSourceVisibility(v)
              \/ StopDeviceAndReleasePostDisplayOwnership \/ SystemDisplayWrite \/ UNCHANGED vars
              \/ \E d \in HostSizes \cup {OFF} : HostChange(d)
       PROVE  UNCHANGED Unseen /\ UNCHANGED set
  BY <1>10 DEF PresentDisplayOnly, SetVidPnSourceVisibility, BlackOutScreen, Write, HostChange,
               StopDeviceAndReleasePostDisplayOwnership, SystemDisplayWrite, vars
<1> HIDE DEF list, host, modes, screen, outcome, Unseen
<1>. QED
  BY <1>1, <1>4, <1>5, <1>6, <1>7, <1>8, <1>9, <1>10, <1>11
     DEF Next, SetCustomDisplay, CreateFrameBufferObj, CallStep

\* A store changes m_CustomMode and counts, and nothing else of what is seen.
LEMMA StoreIs ==
    ASSUME Typed, NEW t \in Setters, StoreCustomMode(t)
    PROVE  /\ Moves(t, "read", set[t].size, 0) /\ set[t].at = "store"
           /\ set[t].slot \in Slots /\ m_CustomMode' = set[t].slot
           /\ UNCHANGED <<m_ModeInfo, overlapped, newestBy, mixed, host, modes, screen, outcome>>
<1>1. Moves(t, "read", set[t].size, 0)
  BY SetterMoves
<1>2. set[t].at = "store" /\ m_CustomMode' = set[t].slot
      /\ UNCHANGED <<m_ModeInfo, overlapped, newestBy, mixed, host, modes, screen, outcome>>
  BY DEF StoreCustomMode
<1>. QED
  BY <1>1, <1>2, SetterIs

\* A call writes nothing to the list.
LEMMA CallsRead ==
    ASSUME CallStep
    PROVE  UNCHANGED <<m_ModeInfo, m_CustomMode, set, overlapped, mixed, newestBy, host>>
BY DEF CallStep, EnumVidPnCofuncModality, AddSingleSourceMode, SetSourceModeAndPath, SearchMode,
       SetCurrentMode, DestroyFrame, InitFrameSegment, InitFrameObject, list

-----------------------------------------------------------------------------
(* The entries of the list                                                 *)

\* An entry is whole unless a setter is in it or two met in it.
LEMMA NextEntry == Typed /\ EntryInv /\ [Next]_vars => EntryInv'
<1> SUFFICES ASSUME Typed, EntryInv, [Next]_vars PROVE EntryInv'
  OBVIOUS
<1> HIDE DEF Typed
<1>1. ASSUME NEW t \in Setters, SetWidth(t) \/ SetHeightAndStride(t)
      PROVE  EntryInv'
  <2> DEFINE i == set[t].slot
             size == set[t].size
  <2>1. i \in Slots /\ i \in 1..ModeCount /\ m_ModeInfo[i] \in ModeInfo
        /\ Slots \subseteq 1..ModeCount
        /\ Width(Clamp(size)) \in Nat /\ Height(Clamp(size)) \in Nat
    BY <1>1, WritesIs, SetterIs, ClampFacts, SlotFacts, Zenon DEF Typed
  <2>2. \A j \in (1..ModeCount) \ {i} : m_ModeInfo'[j] = m_ModeInfo[j]
    BY <1>1, WritesIs
  <2>3. PICK a : Moves(t, a, set'[t].size, set'[t].slot) /\ (a = "height" <=> SetWidth(t))
                 /\ (a = "height" => set'[t].size = size /\ set'[t].slot = i)
    <3>1. SetWidth(t) => Moves(t, "height", size, i)
      BY SetterMoves
    <3>2. SetHeightAndStride(t) => Moves(t, After(t), MinSize, 0)
      BY SetterMoves
    <3>3. After(t) # "height" /\ (SetHeightAndStride(t) => ~SetWidth(t))
      BY DEF After, Setters, SetWidth, SetHeightAndStride
    <3>. QED
      BY <1>1, <3>1, <3>2, <3>3 DEF Moves
  <2>4. \A u \in Setters \ {t} : \A j : InEntry(u, j)' <=> InEntry(u, j)
    BY <2>3 DEF Moves, InEntry
  <2>5. \A j : InEntry(t, j)' <=> SetWidth(t) /\ j = i
    BY <2>3 DEF Moves, InEntry
  <2>6. mixed' = IF \E u \in Setters \ {t} : InEntry(u, i) THEN mixed \cup {i}
                 ELSE IF set[t].at = "width" THEN mixed \ {i} ELSE mixed
    BY <1>1 DEF SetWidth, SetHeightAndStride, Writes
  <2>7. \A j : j # i => (j \in mixed' <=> j \in mixed)
    BY <2>6
  <2>8. ASSUME NEW u \in Setters, NEW v \in Setters, NEW j \in Slots,
               InEntry(u, j)', InEntry(v, j)', u # v
        PROVE  j \in mixed'
    <3>1. CASE u # t /\ v # t
      <4>1. j \in mixed
        BY <2>4, <2>8, <3>1 DEF EntryInv
      <4>. QED
        BY <2>4, <2>6, <2>8, <3>1, <4>1
    <3>2. CASE u = t \/ v = t
      <4>1. j = i /\ \E x \in Setters \ {t} : InEntry(x, i)
        BY <2>4, <2>5, <2>8, <3>2
      <4>. QED
        BY <2>6, <4>1
    <3>. QED
      BY <3>1, <3>2
  <2>9. ASSUME NEW u \in Setters, NEW j \in Slots, j \notin mixed', InEntry(u, j)'
        PROVE  m_ModeInfo'[j].w = Width(Clamp(set'[u].size))
    <3>1. CASE u = t
      <4>1. j = i /\ SetWidth(t) /\ set'[t].size = size
        BY <2>3, <2>5, <2>9, <3>1
      <4>2. m_ModeInfo'[i] = [m_ModeInfo[i] EXCEPT !.w = Width(Clamp(size))]
        BY <4>1, WritesIs
      <4>3. m_ModeInfo'[i].w = Width(Clamp(size))
        BY <2>1, <4>2 DEF ModeInfo
      <4>. QED
        BY <3>1, <4>1, <4>3
    <3>2. CASE u # t
      <4>1. InEntry(u, j) /\ set'[u] = set[u]
        BY <2>3, <2>4, <2>9, <3>2 DEF Moves
      <4>2. j # i
        BY <2>6, <2>9, <3>2, <4>1
      <4>3. m_ModeInfo[j].w = Width(Clamp(set[u].size))
        BY <2>7, <2>9, <4>1, <4>2 DEF EntryInv
      <4>. QED
        BY <2>1, <2>2, <4>1, <4>2, <4>3
    <3>. QED
      BY <3>1, <3>2
  <2>10. ASSUME NEW j \in 1..ModeCount, j \notin mixed', Unwritten(j)'
         PROVE  m_ModeInfo'[j].stride = m_ModeInfo'[j].w
    <3>1. CASE j # i
      <4>1. ~InEntry(t, j)
        BY <3>1 DEF InEntry
      <4>2. Unwritten(j)
        BY <2>4, <2>10, <4>1 DEF Unwritten
      <4>3. j \notin mixed
        BY <2>7, <2>10, <3>1
      <4>. QED
        BY <2>2, <3>1, <4>2, <4>3 DEF EntryInv
    <3>2. CASE j = i
      <4>1. SetHeightAndStride(t) /\ InEntry(t, i)
        BY <1>1, <2>5, <2>10, <3>2 DEF Unwritten, SetHeightAndStride, InEntry
      <4>2. i \notin mixed
        BY <2>6, <2>10, <3>2, <4>1 DEF SetHeightAndStride
      <4>3. m_ModeInfo[i].w = Width(Clamp(size))
        BY <2>1, <4>1, <4>2 DEF EntryInv
      <4>4. m_ModeInfo'[i] = [m_ModeInfo[i] EXCEPT !.h = Height(Clamp(size)), !.stride = Width(Clamp(size))]
        BY <4>1, WritesIs
      <4>5. m_ModeInfo'[i].stride = Width(Clamp(size)) /\ m_ModeInfo'[i].w = m_ModeInfo[i].w
        BY <2>1, <4>4 DEF ModeInfo
      <4>. QED
        BY <3>2, <4>3, <4>5
    <3>. QED
      BY <3>1, <3>2
  <2>. QED
    BY <2>8, <2>9, <2>10 DEF EntryInv
<1>2. ASSUME UNCHANGED <<m_ModeInfo, mixed>>, \A t \in Setters : \A j : InEntry(t, j)' <=> InEntry(t, j),
             \A t \in Setters : set[t].at = "height" => set'[t] = set[t]
      PROVE  EntryInv'
  <2>1. \A t \in Setters : \A j : InEntry(t, j)' => set'[t].size = set[t].size
    BY <1>2 DEF InEntry
  <2>2. \A j : Unwritten(j)' <=> Unwritten(j)
    BY <1>2 DEF Unwritten
  <2>. QED
    BY <1>2, <2>1, <2>2 DEF EntryInv
<1>3. ASSUME UNCHANGED Unseen, NEW t \in Setters, Passes(t)
      PROVE  EntryInv'
  <2>1. UNCHANGED <<m_ModeInfo, mixed>>
    BY <1>3 DEF Unseen
  <2>2. \A u \in Setters : \A j : InEntry(u, j)' <=> InEntry(u, j)
    BY <1>3 DEF Passes, Moves, InEntry
  <2>3. \A u \in Setters : set[u].at = "height" => set'[u] = set[u]
    BY <1>3 DEF Passes, Moves
  <2>. QED
    BY <1>2, <2>1, <2>2, <2>3
<1>4. ASSUME UNCHANGED <<m_ModeInfo, mixed, set>>
      PROVE  EntryInv'
  BY <1>2, <1>4 DEF InEntry
<1>5. ASSUME NEW t \in Setters, StoreCustomMode(t)
      PROVE  EntryInv'
  <2>1. UNCHANGED <<m_ModeInfo, mixed>> /\ Moves(t, "read", set[t].size, 0) /\ set[t].at = "store"
    BY <1>5, StoreIs
  <2>2. \A u \in Setters : \A j : InEntry(u, j)' <=> InEntry(u, j)
    BY <2>1 DEF Moves, InEntry
  <2>3. \A u \in Setters : set[u].at = "height" => set'[u] = set[u]
    BY <2>1 DEF Moves
  <2>. QED
    BY <1>2, <2>1, <2>2, <2>3
<1>. QED
  BY <1>1, <1>3, <1>4, <1>5, StepKinds, CallsRead DEF Unseen

-----------------------------------------------------------------------------
(* Commits                                                                 *)

\* A commit that is not raced reads the same entry at each of its steps.
LEMMA NextCommit == Typed /\ EntryInv /\ CommitInv /\ [Next]_vars => CommitInv'
<1> SUFFICES ASSUME Typed, EntryInv, CommitInv, [Next]_vars PROVE CommitInv'
  OBVIOUS
<1> USE DEF Switching
<1>1. ASSUME NEW t \in Setters, SetWidth(t) \/ SetHeightAndStride(t)
      PROVE  CommitInv'
  <2> DEFINE i == set[t].slot
  <2>1. UNCHANGED <<os, screen, ret, lost, chosen>>
    BY <1>1 DEF SetWidth, SetHeightAndStride, Writes, modes
  <2>2. raced' = (raced \/ (os.at \in Switching /\ os.k = i))
    BY <1>1 DEF SetWidth, SetHeightAndStride, Writes
  <2>3. ASSUME os.at \in Switching, ~raced'
        PROVE  ~raced /\ os.k # i
    BY <2>2, <2>3
  <2>4. ASSUME os.at \in Switching, ~raced'
        PROVE  /\ os.k \notin mixed' /\ Unwritten(os.k)'
               /\ m_ModeInfo'[os.k] = m_ModeInfo[os.k]
    <3>1. os.k \notin mixed /\ Unwritten(os.k) /\ os.k \in 1..ModeCount /\ os.k # i
      BY <2>3, <2>4 DEF CommitInv, Typed
    <3>2. os.k \notin mixed'
      BY <1>1, <3>1 DEF SetWidth, SetHeightAndStride, Writes
    <3>3. m_ModeInfo'[os.k] = m_ModeInfo[os.k]
      BY <1>1, <3>1, WritesIs
    <3>4. \A u \in Setters : InEntry(u, os.k)' => InEntry(u, os.k)
      <4>1. PICK a, s, n : Moves(t, a, s, n) /\ (a = "height" => n = i)
        <5>1. SetWidth(t) => Moves(t, "height", set[t].size, i)
          BY SetterMoves
        <5>2. SetHeightAndStride(t) => Moves(t, After(t), MinSize, 0)
          BY SetterMoves
        <5>3. After(t) # "height"
          BY DEF After, Setters
        <5>. QED
          BY <1>1, <5>1, <5>2, <5>3
      <4>. QED
        BY <2>1, <3>1, <4>1 DEF Moves, InEntry
    <3>. QED
      BY <3>1, <3>2, <3>3, <3>4 DEF Unwritten
  <2>5. os.at \in Switching /\ ~raced' => ~raced
    BY <2>3
  <2>6. raced => raced'
    BY <2>2
  <2>7. Shown => Shown'
    BY <2>1 DEF screen, Shown, Area
  <2>8. ASSUME os.at \in Switching, ~raced'
        PROVE  /\ SizeOf(m_ModeInfo[os.k])' = current
               /\ os.at = "init" => os.need = Area(current)
               /\ os.at = "finish" => segment = Area(current) /\ os.res = current
    <3>1. SizeOf(m_ModeInfo'[os.k]) = SizeOf(m_ModeInfo[os.k])
      BY <2>4, <2>8
    <3>. QED
      BY <2>1, <2>5, <2>8, <3>1 DEF CommitInv
  <2> HIDE DEF i
  <2>. QED
    BY <2>1, <2>4, <2>6, <2>7, <2>8 DEF CommitInv, screen
<1>2. ASSUME UNCHANGED <<m_ModeInfo, mixed, os, screen, outcome>>,
             \A t \in Setters : \A j : InEntry(t, j)' <=> InEntry(t, j)
      PROVE  CommitInv'
  <2>1. UNCHANGED <<os, current, ptr, segment, frame, FrameBufferIsActive, chosen, ret, lost, raced,
                    m_ModeInfo, mixed>>
    BY <1>2 DEF screen, outcome
  <2>2. Shown' <=> Shown
    BY <2>1 DEF Shown
  <2>3. \A j : Unwritten(j)' <=> Unwritten(j)
    BY <1>2 DEF Unwritten
  <2>. QED
    BY <2>1, <2>2, <2>3 DEF CommitInv
<1>3. ASSUME NEW t \in Setters, Passes(t)
      PROVE  \A u \in Setters : \A j : InEntry(u, j)' <=> InEntry(u, j)
  BY <1>3 DEF Passes, Moves, InEntry
<1>4. Idle.at = "idle"
  BY DEF Idle
<1>5. ASSUME EnumVidPnCofuncModality
      PROVE  CommitInv'
  <2>1. os'.at = "enum" /\ os.at = "idle"
    BY <1>5, CallMoves DEF EnumVidPnCofuncModality, CallAllowed
  <2>2. UNCHANGED <<screen, ret, lost, raced>>
    BY <1>5 DEF EnumVidPnCofuncModality
  <2>3. Shown' <=> Shown
    BY <2>2 DEF Shown, screen
  <2>. QED
    BY <2>1, <2>2, <2>3 DEF CommitInv, screen
<1>6. ASSUME AddSingleSourceMode
      PROVE  CommitInv'
  <2>1. os'.at \in {"idle", "enum"} /\ os.at = "enum"
    BY <1>4, <1>6, CallMoves DEF AddSingleSourceMode
  <2>2. UNCHANGED <<screen, ret, lost, raced>>
    BY <1>6 DEF AddSingleSourceMode, outcome
  <2>3. Shown' <=> Shown
    BY <2>2 DEF Shown, screen
  <2>. QED
    BY <2>1, <2>2, <2>3 DEF CommitInv, screen
<1>7. ASSUME NEW size \in offered, SetSourceModeAndPath(size)
      PROVE  CommitInv'
  <2>1. os'.at = "search" /\ os'.size = size /\ current' = size /\ ret' = "none"
    BY <1>7, CallMoves DEF SetSourceModeAndPath
  <2>. QED
    BY <2>1 DEF CommitInv
<1>8. ASSUME SearchMode
      PROVE  CommitInv'
  <2>1. UNCHANGED <<screen, m_ModeInfo, mixed, set>> /\ os.at = "search" /\ os.size = current /\ ret = "none"
    BY <1>8 DEF SearchMode, list, CommitInv
  <2>2. CASE SizeOf(m_ModeInfo[os.k]) = os.size
    <3>1. os'.at = "destroy" /\ os'.k = os.k /\ os'.size = os.size
      BY <1>8, <2>2, CallMoves
    <3>2. raced' = (os.k \in mixed \/ \E t \in Setters : InEntry(t, os.k)) /\ ret' = ret
      BY <1>8, <2>2 DEF SearchMode
    <3>3. ~raced' => os.k \notin mixed' /\ Unwritten(os.k)'
      BY <2>1, <3>1, <3>2 DEF Unwritten, InEntry
    <3>. QED
      BY <2>1, <2>2, <3>1, <3>2, <3>3 DEF CommitInv, screen, SizeOf
  <2>3. CASE SizeOf(m_ModeInfo[os.k]) # os.size /\ os.k < ModeCount
    <3>1. os'.at = "search" /\ os'.size = os.size
      BY <1>8, <2>3, CallMoves
    <3>2. ret' = ret
      BY <1>8, <2>3 DEF SearchMode, outcome
    <3>. QED
      BY <2>1, <3>1, <3>2 DEF CommitInv, screen
  <2>4. CASE SizeOf(m_ModeInfo[os.k]) # os.size /\ ~(os.k < ModeCount)
    <3>1. os'.at = "idle" /\ ret' = "OK" /\ lost'
      BY <1>4, <1>8, <2>4 DEF SearchMode
    <3>. QED
      BY <3>1 DEF CommitInv
  <2>. QED
    BY <2>2, <2>3, <2>4
<1>9. ASSUME SetCurrentMode
      PROVE  CommitInv'
  <2>1. /\ os'.at = "init" /\ os'.k = os.k /\ os'.size = os.size /\ os.at = "destroy"
        /\ os'.need = m_ModeInfo[os.k].stride * m_ModeInfo[os.k].h
    BY <1>9, CallMoves DEF SetCurrentMode, DestroyFrame
  <2>2. UNCHANGED <<m_ModeInfo, mixed, set, current, ret, raced>> /\ ~FrameBufferIsActive'
    BY <1>9 DEF SetCurrentMode, DestroyFrame, list, outcome
  <2>3. Unwritten(os.k)' <=> Unwritten(os.k)
    BY <2>1, <2>2 DEF Unwritten, InEntry
  <2>4. ASSUME ~raced
        PROVE  os'.need = Area(current)
    <3>1. os.k \notin mixed /\ Unwritten(os.k) /\ SizeOf(m_ModeInfo[os.k]) = current
          /\ os.k \in 1..ModeCount
      BY <2>1, <2>4 DEF CommitInv, Typed
    <3>2. m_ModeInfo[os.k].stride = m_ModeInfo[os.k].w
      BY <3>1 DEF EntryInv
    <3>. QED
      BY <2>1, <3>1, <3>2 DEF Area, Width, Height, SizeOf
  <2>. QED
    BY <2>1, <2>2, <2>3, <2>4 DEF CommitInv, SizeOf
<1>10. ASSUME CommitFails, UNCHANGED FrameBufferIsActive, os.at \in {"init", "finish"}
       PROVE  CommitInv'
  <2>1. os'.at = "idle" /\ ret' = "FAIL" /\ ~FrameBufferIsActive'
    BY <1>4, <1>10 DEF CommitFails, CommitInv
  <2>. QED
    BY <2>1 DEF CommitInv
<1>11. ASSUME InitFrameSegment
       PROVE  CommitInv'
  <2>1. CASE CommitFails
    BY <1>10, <1>11, <2>1 DEF InitFrameSegment
  <2>2. CASE ~CommitFails
    <3>1. /\ os'.at = "finish" /\ os'.k = os.k /\ os'.size = os.size /\ os'.res = SizeOf(m_ModeInfo[os.k])
          /\ segment' = os.need /\ UNCHANGED outcome /\ os.at = "init"
      BY <1>11, <2>2, CallMoves DEF InitFrameSegment
    <3>2. UNCHANGED <<m_ModeInfo, mixed, set, current, FrameBufferIsActive, ret, raced>>
      BY <1>11, <3>1 DEF InitFrameSegment, list, outcome
    <3>3. Unwritten(os.k)' <=> Unwritten(os.k)
      BY <3>1, <3>2 DEF Unwritten, InEntry
    <3>. QED
      BY <3>1, <3>2, <3>3 DEF CommitInv, SizeOf
  <2>. QED
    BY <2>1, <2>2
<1>12. ASSUME InitFrameObject
       PROVE  CommitInv'
  <2>1. CASE CommitFails /\ UNCHANGED FrameBufferIsActive
    BY <1>10, <1>12, <2>1 DEF InitFrameObject
  <2>2. CASE ~(CommitFails /\ UNCHANGED FrameBufferIsActive)
    <3>1. /\ frame' = [res |-> os.res, scanout |-> SizeOf(m_ModeInfo[os.k])] /\ ptr' = "frame"
          /\ os' = Idle /\ ret' = "OK" /\ UNCHANGED <<raced, current, segment>> /\ os.at = "finish"
      BY <1>12, <2>2 DEF InitFrameObject
    <3>2. ~raced => Shown'
      <4> SUFFICES ASSUME ~raced PROVE Shown'
        OBVIOUS
      <4>1. segment = Area(current) /\ os.res = current /\ SizeOf(m_ModeInfo[os.k]) = current
        BY <3>1 DEF CommitInv
      <4>2. frame' = [res |-> current, scanout |-> current]
        BY <3>1, <4>1
      <4>3. current \in Nat \X Nat
        BY DEF Typed, Sizes
      <4>4. frame' # NULL
        BY <4>2, <4>3, NullAssumption
      <4>. QED
        BY <3>1, <4>1, <4>2, <4>4 DEF Shown, Area, Width, Height
    <3>. QED
      BY <1>4, <3>1, <3>2 DEF CommitInv
  <2>. QED
    BY <2>1, <2>2
<1>13. UNCHANGED set => \A u \in Setters : \A j : InEntry(u, j)' <=> InEntry(u, j)
  BY DEF InEntry
<1>14. UNCHANGED Unseen => UNCHANGED <<m_ModeInfo, mixed, os, screen, outcome>>
  BY DEF Unseen
<1>15. ASSUME NEW t \in Setters, StoreCustomMode(t)
       PROVE  CommitInv'
  <2>1. /\ Moves(t, "read", set[t].size, 0) /\ set[t].at = "store"
        /\ UNCHANGED <<m_ModeInfo, mixed, os, screen, outcome>>
    BY <1>15, StoreIs DEF modes
  <2>2. \A u \in Setters : \A j : InEntry(u, j)' <=> InEntry(u, j)
    BY <2>1 DEF Moves, InEntry
  <2>. QED
    BY <1>2, <2>1, <2>2
<1>. QED
  BY <1>1, <1>2, <1>3, <1>5, <1>6, <1>7, <1>8, <1>9, <1>11, <1>12, <1>13, <1>14, <1>15, StepKinds
     DEF CallStep

\* The list starts with whole entries, and no commit has begun.
LEMMA InitCommit == Init => Typed /\ EntryInv /\ CommitInv
<1> SUFFICES ASSUME Init PROVE Typed /\ EntryInv /\ CommitInv
  OBVIOUS
<1> USE DEF Init
<1>1. \A t \in Setters : set[t].at \in {"ask", "off"} /\ set[t].size = MinSize /\ set[t].slot = 0
  BY DEF At, Off
<1>2. MinSize \in Sizes /\ ModeCount \in Nat /\ m_CustomMode \in Slots
  BY ClampFacts, SlotFacts DEF Slots
<1>3. m_ModeInfo \in [1..ModeCount -> ModeInfo] /\ \A i \in 1..ModeCount : m_ModeInfo[i].stride = m_ModeInfo[i].w
  <2> DEFINE Whole == {r \in ModeInfo : r.stride = r.w}
             n == Len(Standard)
             standard == [i \in 1..n |-> Entry(Standard[i])]
             copied == IF MinSize \in Range(Standard) THEN Entry(MinSize) ELSE standard[1]
  <2>1. \A size \in Sizes : Entry(size) \in Whole
    <3> SUFFICES ASSUME NEW size \in Sizes PROVE Entry(size) \in Whole
      OBVIOUS
    <3>1. Width(size) \in Nat /\ Height(size) \in Nat
      BY ClampFacts
    <3>. QED
      BY <3>1 DEF Entry, ModeInfo
  <2>2. n \in Nat /\ n >= 1 /\ ModeCount = n + 2 /\ \A i \in 1..n : Standard[i] \in Sizes
    BY StandardIs, SlotFacts
  <2> HIDE DEF Whole, n
  <2>3. standard \in Seq(Whole) /\ Len(standard) = n /\ \A i \in 1..n : standard[i] \in Whole
    BY <2>1, <2>2
  <2>4. copied \in Whole
    BY <1>2, <2>1, <2>2, <2>3
  <2>5. m_ModeInfo = standard \o <<copied, copied>>
    BY DEF GetModeList, n
  <2> HIDE DEF standard, copied
  <2>6. m_ModeInfo \in Seq(Whole) /\ Len(m_ModeInfo) = n + 2
    BY <2>2, <2>3, <2>4, <2>5
  <2>7. m_ModeInfo \in [1..ModeCount -> Whole]
    BY <2>2, <2>6
  <2>. QED
    BY <2>7 DEF Whole
<1>4. set \in [Setters -> Setter]
  <2>1. At("ask") \in Setter /\ Off \in Setter
    BY <1>2 DEF At, Off, Setter, SetterSteps
  <2>. QED
    BY <2>1
<1>5. display \in HostSizes \cup {OFF}
  BY SizesAssumption
<1>6. os \in Call /\ os.at = "idle"
  BY <1>2 DEF Idle, Call, Calls, Switching
<1>7. Typed
  BY <1>1, <1>2, <1>3, <1>4, <1>5, <1>6 DEF Typed
<1>8. EntryInv
  BY <1>1, <1>3 DEF EntryInv, InEntry
<1>9. CommitInv
  BY <1>6 DEF CommitInv, Switching
<1>. QED
  BY <1>7, <1>8, <1>9

\* Presents, blackouts and the bugcheck screen (viogpudo.cpp:444, :2924 and :1669) write inside
\* the frame buffer, except after a commit that kept the old one, was raced or failed, and for
\* a bugcheck in the middle of one.
THEOREM DrawsCorrect == Spec => []DrawsInFrame
<1>1. Init => DrawsInFrame
  BY DEF Init, DrawsInFrame
<1>2. Typed /\ CommitInv /\ DrawsInFrame /\ [Next]_vars => DrawsInFrame'
  <2> SUFFICES ASSUME Typed, CommitInv, DrawsInFrame, [Next]_vars PROVE DrawsInFrame'
    OBVIOUS
  <2>1. Shown => Fits
    <3>1. Area(current) \in Nat
      BY ClampFacts DEF Typed
    <3>. QED
      BY <3>1 DEF Shown, Fits
  <2>2. ASSUME NEW who, NEW ok, Write(who, ok), fault = "none", who \in {"ExecutePresentDisplayOnly", "BlackOutScreen", "SystemDisplayWrite"},
               \/ ok \/ lost \/ raced
               \/ ret = "FAIL" /\ who # "BlackOutScreen"
               \/ os.at \in Switching \cup {"search"} /\ who = "SystemDisplayWrite"
        PROVE  DrawsInFrame'
    <3>1. UNCHANGED <<os, lost, raced, ret>> /\ fault' = IF ok THEN fault ELSE who
      BY <2>2 DEF Write, modes, outcome
    <3>. QED
      BY <2>2, <3>1 DEF DrawsInFrame
  <2>3. ASSUME fault = "none", os.at = "idle", BlackOutScreen
        PROVE  DrawsInFrame'
    <3> DEFINE ok == FrameBufferIsActive /\ ptr # "null" => Fits
    <3>1. ok \/ lost \/ raced
      BY <2>1, <2>3 DEF CommitInv
    <3>2. Write("BlackOutScreen", ok)
      BY <2>3 DEF BlackOutScreen
    <3> HIDE DEF ok
    <3>. QED
      BY <2>2, <2>3, <3>1, <3>2
  <2>4. ASSUME fault = "none", PresentDisplayOnly
        PROVE  DrawsInFrame'
    <3> DEFINE ok == Fits /\ frame # NULL
    <3>1. ok \/ lost \/ raced \/ ret = "FAIL"
      BY <2>1, <2>4 DEF PresentDisplayOnly, CallAllowed, CommitInv, Shown
    <3>2. Write("ExecutePresentDisplayOnly", ok)
      BY <2>4 DEF PresentDisplayOnly
    <3> HIDE DEF ok
    <3>. QED
      BY <2>2, <2>4, <3>1, <3>2
  <2>5. ASSUME fault = "none", SystemDisplayWrite
        PROVE  DrawsInFrame'
    <3>1. Fits \/ lost \/ raced \/ ret = "FAIL" \/ os.at \in Switching \cup {"search"}
      BY <2>1, <2>5 DEF SystemDisplayWrite, CommitInv, Typed, Call, Calls
    <3>2. Write("SystemDisplayWrite", Fits)
      BY <2>5 DEF SystemDisplayWrite
    <3>. QED
      BY <2>2, <2>5, <3>1, <3>2
  <2>6. ASSUME fault = "none", NEW v \in BOOLEAN, SetVidPnSourceVisibility(v)
        PROVE  DrawsInFrame'
    <3>1. CASE v
      BY <2>6, <3>1 DEF SetVidPnSourceVisibility, DrawsInFrame
    <3>2. CASE ~v
      BY <2>3, <2>6, <3>2 DEF SetVidPnSourceVisibility, CallAllowed
    <3>. QED
      BY <3>1, <3>2
  <2>7. fault = "none" /\ StopDeviceAndReleasePostDisplayOwnership => DrawsInFrame'
    BY <2>3 DEF StopDeviceAndReleasePostDisplayOwnership, CallAllowed
  <2>8. ASSUME fault = "none", UNCHANGED fault
        PROVE  DrawsInFrame'
    BY <2>8 DEF DrawsInFrame
  <2>9. UNCHANGED vars => DrawsInFrame'
    BY DEF vars, modes, outcome, DrawsInFrame
  <2>10. ASSUME NEW t \in Setters, \/ GetDisplayInfo(t) \/ SetCustomDisplay(t) \/ UpdateChildStatus(t)
         PROVE  UNCHANGED fault
    BY <2>10 DEF GetDisplayInfo, SetCustomDisplay, LoadCustomMode, StoreCustomMode, ReadCustomMode, SetWidth, SetHeightAndStride, Writes,
                 UpdateChildStatus, Report
  <2>11. \/ \E d \in HostSizes \cup {OFF} : HostChange(d)
         \/ ConfigChanged \/ SetEventsClear \/ \E size \in HostSizes : Escape(size)
         => UNCHANGED fault
    BY DEF HostChange, ConfigChanged, SetEventsClear, Escape
  <2>12. CallStep => UNCHANGED fault
    BY DEF CallStep, EnumVidPnCofuncModality, AddSingleSourceMode, SetSourceModeAndPath, SearchMode,
           SetCurrentMode, DestroyFrame, InitFrameSegment, InitFrameObject
  <2>. QED
    BY <2>4, <2>5, <2>6, <2>7, <2>8, <2>9, <2>10, <2>11, <2>12 DEF Next, CreateFrameBufferObj, CallStep
<1>. QED
  BY <1>1, <1>2, InitCommit, NextTyped, NextEntry, NextCommit, PTL DEF Spec

-----------------------------------------------------------------------------
(* The modes that dxgkrnl kept                                             *)

\* The kept slot is one of the two, and its entry is not a standard one's.
LEMMA KeptFacts ==
    ASSUME Typed
    PROVE  /\ KeptSlot \in Slots /\ KeptEntries \subseteq 1..ModeCount
           /\ \A i \in Slots : i # KeptSlot => i \notin KeptEntries
           /\ \A i \in KeptEntries : i \in Nat /\ i >= 1 /\ i <= ModeCount
<1>1. KeptSlot \in Slots
  BY SlotFacts DEF Typed, KeptSlot
<1>2. /\ Len(Standard) \in Nat /\ Len(Standard) >= 1 /\ ModeCount = Len(Standard) + 2
      /\ \A i \in Slots : i \in 1..ModeCount /\ i \in Nat /\ i \notin 1..Len(Standard)
  BY SlotFacts
<1> HIDE DEF Typed
<1>. QED
  BY <1>1, <1>2 DEF KeptEntries

\* A write that is not to the kept slot changes no kept entry.
LEMMA KeptStay ==
    ASSUME Typed, NEW t \in Setters, SetWidth(t) \/ SetHeightAndStride(t), set[t].slot # KeptSlot
    PROVE  \A i \in KeptEntries : m_ModeInfo'[i] = m_ModeInfo[i]
<1>1. set[t].slot \in Slots
  BY WritesIs
<1>. QED
  BY <1>1, WritesIs, KeptFacts, Zenon

\* One store of m_CustomMode takes only one custom slot.
LEMMA NextKept == Typed /\ CommitInv /\ KeptInv /\ [Next]_vars => KeptInv'
<1> SUFFICES ASSUME Typed, CommitInv, KeptInv, [Next]_vars PROVE KeptInv'
  OBVIOUS
<1>0. /\ since \in 0..2 /\ m_CustomMode \in Slots /\ Idle.at = "idle"
      /\ KeptSlot \in Slots /\ OtherSlot(m_CustomMode) # m_CustomMode
      /\ os.at # "idle" => os.k \in 1..ModeCount
  BY SlotFacts, KeptFacts DEF Typed, Idle
<1>1. ASSUME NEW t \in Setters, StoreCustomMode(t)
      PROVE  KeptInv'
  <2>1. /\ UNCHANGED <<m_ModeInfo, os, kept, ret, lost, chosen>>
        /\ m_CustomMode' = set[t].slot /\ set[t].at = "store" /\ set[t].slot \in Slots
        /\ Moves(t, "read", set[t].size, 0)
        /\ since' = IF since = 0 THEN 1 ELSE 2
    BY <1>1, StoreIs, SinceMoves DEF modes, outcome
  <2>2. CASE since = 0
    <3>1. set[t].slot # m_CustomMode
      BY <2>1, <2>2 DEF KeptInv
    <3>2. KeptSlot = m_CustomMode /\ OtherSlot(m_CustomMode') = m_CustomMode
      BY <1>0, <2>1, <2>2, <3>1, SlotFacts DEF KeptSlot
    <3>3. KeptSlot' = KeptSlot /\ KeptEntries' = KeptEntries
      BY <2>1, <2>2, <3>2 DEF KeptSlot, KeptEntries
    <3>4. \A u \in Setters : set'[u].at \in {"width", "height"} => set'[u].slot # KeptSlot
      BY <2>1, <2>2 DEF KeptInv, Moves
    <3>. QED
      BY <2>1, <2>2, <3>3, <3>4 DEF KeptInv, SizeOf
  <2>3. CASE since # 0
    BY <2>1, <2>3 DEF KeptInv
  <2>. QED
    BY <2>2, <2>3
<1>2. ASSUME NEW t \in Setters, SetWidth(t) \/ SetHeightAndStride(t)
      PROVE  KeptInv'
  <2>1. /\ UNCHANGED <<os, kept, ret, lost, chosen, m_CustomMode, since>>
        /\ set[t].at \in {"width", "height"}
    BY <1>2 DEF SetWidth, SetHeightAndStride, Writes, modes
  <2>2. KeptSlot' = KeptSlot /\ KeptEntries' = KeptEntries
    BY <2>1 DEF KeptSlot, KeptEntries
  <2>3. CASE since < 2
    <3>1. \A j \in KeptEntries : m_ModeInfo'[j] = m_ModeInfo[j]
      BY <1>2, <2>1, <2>3, KeptStay DEF KeptInv
    <3>2. PICK a, s, n : Moves(t, a, s, n) /\ a \notin {"store", "read", "width"}
                         /\ (a = "height" => n = set[t].slot)
      <4>1. After(t) \notin {"store", "read", "width", "height"}
        BY DEF After, Setters
      <4>. QED
        BY <1>2, <4>1, SetterMoves
    <3>3. /\ \A u \in Setters : set'[u].at \in {"width", "height"} => set'[u].slot # KeptSlot
          /\ since = 0 => \A u \in Setters :
                set'[u].at # "read" /\ (set'[u].at = "store" => set'[u].slot # m_CustomMode)
      BY <2>1, <2>3, <3>2 DEF KeptInv, Moves
    <3>4. \A size \in kept : \E j \in KeptEntries : SizeOf(m_ModeInfo'[j]) = size
      BY <2>3, <3>1 DEF KeptInv, SizeOf
    <3>5. os.at = "search" /\ chosen =>
             \E j \in KeptEntries : j >= os.k /\ SizeOf(m_ModeInfo'[j]) = os.size
      BY <2>3, <3>1 DEF KeptInv, SizeOf
    <3>. QED
      BY <2>1, <2>2, <2>3, <3>3, <3>4, <3>5 DEF KeptInv, SizeOf
  <2>4. CASE ~(since < 2)
    BY <1>0, <2>1, <2>4 DEF KeptInv
  <2>. QED
    BY <2>3, <2>4
<1>3. ASSUME UNCHANGED <<m_ModeInfo, m_CustomMode, since, os, kept, ret, lost, chosen>>,
             since < 2 =>
                /\ \A u \in Setters : set'[u].at \in {"width", "height"} => set'[u].slot # KeptSlot
                /\ since = 0 => \A u \in Setters :
                      set'[u].at # "read" /\ (set'[u].at = "store" => set'[u].slot # m_CustomMode)
      PROVE  KeptInv'
  <2>1. KeptSlot' = KeptSlot /\ KeptEntries' = KeptEntries
    BY <1>3 DEF KeptSlot, KeptEntries
  <2>. QED
    BY <1>3, <2>1 DEF KeptInv, SizeOf
<1>4. ASSUME UNCHANGED Unseen, NEW t \in Setters, Passes(t)
      PROVE  KeptInv'
  <2>1. UNCHANGED <<m_ModeInfo, m_CustomMode, since, os, kept, ret, lost, chosen>>
    BY <1>4 DEF Unseen, outcome
  <2>2. PICK a, s, n : /\ Moves(t, a, s, n) /\ a \notin {"read", "height"}
                       /\ a = "store" => n = OtherSlot(m_CustomMode)
                       /\ a = "width" => set[t].at = "read" /\ n = m_CustomMode
    BY <1>4 DEF Passes
  <2>3. ASSUME since < 2
        PROVE  /\ \A u \in Setters : set'[u].at \in {"width", "height"} => set'[u].slot # KeptSlot
               /\ since = 0 => \A u \in Setters :
                     set'[u].at # "read" /\ (set'[u].at = "store" => set'[u].slot # m_CustomMode)
    <3>1. a = "width" => n # KeptSlot
      <4>1. a = "width" => since # 0
        BY <2>2, <2>3 DEF KeptInv
      <4>. QED
        BY <1>0, <2>2, <4>1 DEF KeptSlot
    <3>2. /\ \A u \in Setters : set[u].at \in {"width", "height"} => set[u].slot # KeptSlot
          /\ since = 0 => \A u \in Setters :
                set[u].at # "read" /\ (set[u].at = "store" => set[u].slot # m_CustomMode)
      BY <2>3 DEF KeptInv
    <3>. QED
      BY <1>0, <2>2, <3>1, <3>2 DEF Moves
  <2>. QED
    BY <1>3, <2>1, <2>3
<1>5. ASSUME UNCHANGED Unseen, UNCHANGED set
      PROVE  KeptInv'
  <2>1. UNCHANGED <<m_ModeInfo, m_CustomMode, since, os, kept, ret, lost, chosen>>
    BY <1>5 DEF Unseen, outcome
  <2>. QED
    BY <1>3, <1>5, <2>1 DEF KeptInv
<1>6. ASSUME EnumVidPnCofuncModality
      PROVE  KeptInv'
  <2>1. os'.at = "enum" /\ os'.need = m_CustomMode
    BY <1>6, CallMoves
  <2>2. /\ UNCHANGED <<m_CustomMode, set>> /\ kept' = {} /\ chosen' = FALSE
        /\ since' = IF \E t \in Setters : OnItsWay(t) THEN 2 ELSE 0
    BY <1>6 DEF EnumVidPnCofuncModality
  <2>3. since' < 2 => since' = 0 /\ KeptSlot' = m_CustomMode /\ \A u \in Setters : ~OnItsWay(u)
    BY <2>2 DEF KeptSlot
  <2>4. \A u \in Setters : ~OnItsWay(u) =>
          /\ set[u].at # "read"
          /\ set[u].at \in {"store", "width", "height"} => set[u].slot # m_CustomMode
    BY DEF OnItsWay
  <2>. QED
    BY <2>1, <2>2, <2>3, <2>4 DEF KeptInv
<1>7. ASSUME UNCHANGED <<m_ModeInfo, m_CustomMode, since, set>>
      PROVE  /\ KeptSlot' = KeptSlot /\ KeptEntries' = KeptEntries
             /\ since < 2 =>
                   /\ \A u \in Setters : set'[u].at \in {"width", "height"} => set'[u].slot # KeptSlot'
                   /\ since = 0 => \A u \in Setters :
                         set'[u].at # "read" /\ (set'[u].at = "store" => set'[u].slot # m_CustomMode')
  BY <1>7 DEF KeptSlot, KeptEntries, KeptInv
<1>8. ASSUME AddSingleSourceMode
      PROVE  KeptInv'
  <2> DEFINE size == SizeOf(m_ModeInfo[os.k])
  <2>1. UNCHANGED <<m_ModeInfo, m_CustomMode, since, set, ret, lost, chosen>> /\ os.at = "enum"
        /\ kept' = IF os.k \in (1..Len(Standard)) \cup {os.need} THEN kept \cup {size} ELSE kept
    BY <1>8 DEF AddSingleSourceMode, list, outcome
  <2>2. os'.at = "idle" \/ (os'.at = "enum" /\ os'.need = os.need)
    <3>1. CASE os.k = ModeCount
      <4>1. os' = Idle
        BY <1>8, <3>1, CallMoves
      <4>. QED
        BY <1>0, <4>1, Zenon
    <3>2. CASE os.k # ModeCount
      BY <1>8, <3>2, CallMoves
    <3>. QED
      BY <3>1, <3>2
  <2>3. since < 2 => \A s \in kept' : \E i \in KeptEntries : SizeOf(m_ModeInfo[i]) = s
    <3> SUFFICES ASSUME since < 2, NEW s \in kept' PROVE \E i \in KeptEntries : SizeOf(m_ModeInfo[i]) = s
      OBVIOUS
    <3>1. CASE s \in kept
      BY <3>1 DEF KeptInv
    <3>2. CASE s = size /\ os.k \in (1..Len(Standard)) \cup {os.need}
      <4>1. os.k \in KeptEntries
        BY <2>1, <3>2 DEF KeptInv, KeptEntries
      <4>. QED
        BY <3>2, <4>1
    <3>. QED
      BY <2>1, <3>1, <3>2
  <2> HIDE DEF size
  <2>. QED
    BY <1>7, <2>1, <2>2, <2>3 DEF KeptInv, SizeOf
<1>9. ASSUME NEW size \in offered, SetSourceModeAndPath(size)
      PROVE  KeptInv'
  <2>1. os'.at = "search" /\ os'.k = 1 /\ os'.size = size
    BY <1>9, CallMoves
  <2>2. UNCHANGED <<m_ModeInfo, m_CustomMode, since, set, kept>> /\ ret' = "none" /\ chosen' = (size \in kept)
    BY <1>9 DEF SetSourceModeAndPath, list
  <2>3. since < 2 /\ chosen' => \E i \in KeptEntries : i >= 1 /\ SizeOf(m_ModeInfo[i]) = size
    BY <2>2, KeptFacts DEF KeptInv
  <2>. QED
    BY <1>7, <2>1, <2>2, <2>3 DEF KeptInv, SizeOf
<1>10. ASSUME SearchMode
       PROVE  KeptInv'
  <2>1. UNCHANGED <<m_ModeInfo, m_CustomMode, since, set, kept, chosen>> /\ os.at = "search"
        /\ os.k \in 1..ModeCount /\ ret = "none"
    BY <1>0, <1>10 DEF SearchMode, list, outcome, CommitInv
  <2>2. CASE SizeOf(m_ModeInfo[os.k]) = os.size
    <3>1. os'.at = "destroy" /\ ret' = ret
      BY <1>10, <2>2, CallMoves DEF SearchMode
    <3>. QED
      BY <1>7, <2>1, <3>1 DEF KeptInv, SizeOf
  <2>3. CASE SizeOf(m_ModeInfo[os.k]) # os.size /\ os.k < ModeCount
    <3>1. os'.at = "search" /\ os'.k = os.k + 1 /\ os'.size = os.size
      BY <1>10, <2>3, CallMoves
    <3>2. ret' = ret
      BY <1>10, <2>3 DEF SearchMode, outcome
    <3>3. since < 2 /\ chosen => \E i \in KeptEntries : i >= os.k + 1 /\ SizeOf(m_ModeInfo[i]) = os.size
      <4> SUFFICES ASSUME since < 2, chosen
                   PROVE  \E i \in KeptEntries : i >= os.k + 1 /\ SizeOf(m_ModeInfo[i]) = os.size
        OBVIOUS
      <4>1. PICK i \in KeptEntries : i >= os.k /\ SizeOf(m_ModeInfo[i]) = os.size
        BY <2>1 DEF KeptInv
      <4>2. i \in Nat /\ i # os.k /\ os.k \in Nat
        BY <2>1, <2>3, <4>1, KeptFacts
      <4>. QED
        BY <4>1, <4>2
    <3>. QED
      BY <1>7, <2>1, <3>1, <3>2, <3>3 DEF KeptInv, SizeOf
  <2>4. CASE SizeOf(m_ModeInfo[os.k]) # os.size /\ ~(os.k < ModeCount)
    <3>1. os' = Idle
      BY <1>10, <2>4, CallMoves
    <3>2. ~(since < 2 /\ chosen)
      <4> SUFFICES ASSUME since < 2, chosen PROVE FALSE
        OBVIOUS
      <4>1. PICK i \in KeptEntries : i >= os.k /\ SizeOf(m_ModeInfo[i]) = os.size
        BY <2>1 DEF KeptInv
      <4>2. i \in Nat /\ i # os.k /\ i <= ModeCount /\ ModeCount \in Nat
        BY <2>4, <4>1, KeptFacts, SlotFacts
      <4>. QED
        BY <2>1, <2>4, <4>1, <4>2
    <3>. QED
      BY <1>0, <1>7, <2>1, <3>1, <3>2 DEF KeptInv, SizeOf
  <2>. QED
    BY <2>2, <2>3, <2>4
<1>11. ASSUME SetCurrentMode
       PROVE  KeptInv'
  <2>1. UNCHANGED <<m_ModeInfo, m_CustomMode, since, set, kept, chosen, ret, lost>> /\ os'.at = "init"
    BY <1>11, CallMoves DEF SetCurrentMode, DestroyFrame, list, outcome
  <2>. QED
    BY <1>7, <2>1 DEF KeptInv, SizeOf
<1>12. ASSUME InitFrameSegment \/ InitFrameObject
       PROVE  KeptInv'
  <2>1. UNCHANGED <<m_ModeInfo, m_CustomMode, since, set, kept, chosen>>
    BY <1>12 DEF InitFrameSegment, InitFrameObject, CommitFails, list, outcome
  <2>2. os'.at \in {"idle", "finish"}
    BY <1>0, <1>12, CallMoves DEF InitFrameObject, CommitFails
  <2>3. \/ ret' = "FAIL"
        \/ ret' = "OK" /\ lost' = FALSE
        \/ UNCHANGED <<ret, lost>>
    BY <1>12 DEF InitFrameSegment, InitFrameObject, CommitFails, outcome
  <2>. QED
    BY <1>7, <2>1, <2>2, <2>3 DEF KeptInv, SizeOf
<1>. QED
  BY <1>1, <1>2, <1>4, <1>5, <1>6, <1>8, <1>9, <1>10, <1>11, <1>12, StepKinds DEF CallStep

\* No setter writes to a standard entry.
LEMMA StandardStay ==
    ASSUME Typed, NEW t \in Setters, SetWidth(t) \/ SetHeightAndStride(t)
    PROVE  \A i \in 1..Len(Standard) : m_ModeInfo'[i] = m_ModeInfo[i]
<1>1. set[t].slot \in Slots
  BY WritesIs
<1>2. \A i \in 1..Len(Standard) : i \in (1..ModeCount) \ {set[t].slot}
  BY <1>1, SlotFacts, Zenon
<1>. QED
  BY <1>2, WritesIs, Zenon

\* The search for a standard size finds it.
LEMMA NextStandard == Typed /\ CommitInv /\ StandardInv /\ [Next]_vars => StandardInv'
<1> SUFFICES ASSUME Typed, CommitInv, StandardInv, [Next]_vars PROVE StandardInv'
  OBVIOUS
<1>1. ASSUME \A i \in 1..Len(Standard) : m_ModeInfo'[i] = m_ModeInfo[i],
             UNCHANGED <<os, ret, lost, current>>
      PROVE  StandardInv'
  BY <1>1 DEF StandardInv, SizeOf
<1>2. ASSUME NEW t \in Setters, SetWidth(t) \/ SetHeightAndStride(t)
      PROVE  StandardInv'
  <2>1. UNCHANGED <<os, ret, lost, current>>
    BY <1>2 DEF SetWidth, SetHeightAndStride, Writes, modes, screen
  <2>. QED
    BY <1>1, <1>2, <2>1, StandardStay
<1>3. ASSUME NEW t \in Setters, StoreCustomMode(t)
      PROVE  StandardInv'
  <2>1. UNCHANGED <<m_ModeInfo, os, ret, lost, current>>
    BY <1>3, StoreIs DEF modes, screen, outcome
  <2>. QED
    BY <1>1, <2>1
<1>4. ASSUME UNCHANGED Unseen
      PROVE  StandardInv'
  <2>1. UNCHANGED <<m_ModeInfo, os, ret, lost, current>>
    BY <1>4 DEF Unseen, screen, outcome
  <2>. QED
    BY <1>1, <2>1
<1>5. ASSUME UNCHANGED m_ModeInfo,
             os'.at = "search" => \A i \in 1..Len(Standard) : i < os'.k => Standard[i] # os'.size,
             \/ ret' # "OK" \/ ~lost' \/ UNCHANGED <<ret, lost, current>>
             \/ current' \notin Range(Standard)
      PROVE  StandardInv'
  BY <1>5 DEF StandardInv, SizeOf
<1>6. Idle.at = "idle" /\ (os.at # "idle" => os.k \in 1..ModeCount)
  BY DEF Idle, Typed
<1>7. ASSUME EnumVidPnCofuncModality \/ AddSingleSourceMode
      PROVE  StandardInv'
  <2>1. UNCHANGED <<m_ModeInfo, ret, lost, current>>
    BY <1>7 DEF EnumVidPnCofuncModality, AddSingleSourceMode, list, screen, outcome
  <2>2. os'.at # "search"
    BY <1>6, <1>7, CallMoves
  <2>. QED
    BY <1>5, <2>1, <2>2
<1>8. ASSUME NEW size \in offered, SetSourceModeAndPath(size)
      PROVE  StandardInv'
  <2>1. UNCHANGED m_ModeInfo /\ ret' = "none"
    BY <1>8 DEF SetSourceModeAndPath, list
  <2>2. os'.k = 1
    BY <1>8, CallMoves
  <2>. QED
    BY <1>5, <2>1, <2>2, SlotFacts
<1>9. ASSUME SearchMode
      PROVE  StandardInv'
  <2>1. /\ UNCHANGED <<m_ModeInfo, current>> /\ os.at = "search" /\ os.k \in 1..ModeCount
        /\ ret = "none" /\ os.size = current
    BY <1>6, <1>9 DEF SearchMode, list, screen, CommitInv
  <2>2. CASE SizeOf(m_ModeInfo[os.k]) = os.size
    <3>1. os'.at = "destroy" /\ ret' = ret
      BY <1>9, <2>2, CallMoves DEF SearchMode
    <3>. QED
      BY <1>5, <2>1, <3>1
  <2>3. ASSUME SizeOf(m_ModeInfo[os.k]) # os.size
        PROVE  \A i \in 1..Len(Standard) : i <= os.k => Standard[i] # os.size
    <3>1. \A i \in 1..Len(Standard) : i < os.k => Standard[i] # os.size
      BY <2>1 DEF StandardInv
    <3>2. \A i \in 1..Len(Standard) : i = os.k => Standard[i] # os.size
      BY <2>3 DEF StandardInv
    <3>3. \A i \in 1..Len(Standard) : i <= os.k => i < os.k \/ i = os.k
      BY <2>1, SlotFacts
    <3>. QED
      BY <3>1, <3>2, <3>3
  <2>4. CASE SizeOf(m_ModeInfo[os.k]) # os.size /\ os.k < ModeCount
    <3>1. os'.at = "search" /\ os'.k = os.k + 1 /\ os'.size = os.size
      BY <1>9, <2>4, CallMoves
    <3>2. ret' = ret
      BY <1>9, <2>4 DEF SearchMode, outcome
    <3>3. \A i \in 1..Len(Standard) : i < os.k + 1 => i <= os.k
      BY <2>1, SlotFacts
    <3>. QED
      BY <1>5, <2>1, <2>3, <2>4, <3>1, <3>2, <3>3
  <2>5. CASE SizeOf(m_ModeInfo[os.k]) # os.size /\ ~(os.k < ModeCount)
    <3>1. os' = Idle
      BY <1>9, <2>5, CallMoves
    <3>2. \A i \in 1..Len(Standard) : i <= os.k
      BY <2>1, <2>5, SlotFacts
    <3>3. current \notin Range(Standard)
      BY <2>1, <2>3, <2>5, <3>2, StandardIs DEF Range
    <3>. QED
      BY <1>5, <1>6, <2>1, <3>1, <3>3
  <2>. QED
    BY <2>2, <2>4, <2>5
<1>10. ASSUME SetCurrentMode
       PROVE  StandardInv'
  <2>1. UNCHANGED <<m_ModeInfo, ret, lost, current>> /\ os'.at = "init"
    BY <1>10, CallMoves DEF SetCurrentMode, DestroyFrame, list, outcome
  <2>. QED
    BY <1>5, <2>1
<1>11. ASSUME InitFrameSegment \/ InitFrameObject
       PROVE  StandardInv'
  <2>1. UNCHANGED <<m_ModeInfo, current>>
    BY <1>11 DEF InitFrameSegment, InitFrameObject, list
  <2>2. os'.at \in {"idle", "finish"}
    BY <1>6, <1>11, CallMoves DEF InitFrameObject, CommitFails
  <2>3. \/ ret' = "FAIL"
        \/ ret' = "OK" /\ lost' = FALSE
        \/ UNCHANGED <<ret, lost>>
    BY <1>11 DEF InitFrameSegment, InitFrameObject, CommitFails, outcome
  <2>. QED
    BY <1>5, <2>1, <2>2, <2>3
<1>. QED
  BY <1>2, <1>3, <1>4, <1>7, <1>8, <1>9, <1>10, <1>11, StepKinds DEF CallStep

\* The list starts with the standard sizes.
LEMMA InitStandard == Init => StandardInv
<1> SUFFICES ASSUME Init PROVE StandardInv
  OBVIOUS
<1> DEFINE n == Len(Standard)
           standard == [i \in 1..n |-> Entry(Standard[i])]
           copied == IF MinSize \in Range(Standard) THEN Entry(MinSize) ELSE standard[1]
<1>1. n \in Nat /\ \A i \in 1..n : Standard[i] \in Sizes
  BY StandardIs
<1>2. \A size \in Sizes : SizeOf(Entry(size)) = size
  BY DEF SizeOf, Entry, Sizes, Width, Height
<1>3. m_ModeInfo = standard \o <<copied, copied>>
  BY DEF Init, GetModeList
<1> HIDE DEF n
<1>4. standard \in Seq({standard[i] : i \in 1..n}) /\ Len(standard) = n
  BY <1>1
<1>5. \A i \in 1..n : standard[i] = Entry(Standard[i])
  OBVIOUS
<1> HIDE DEF standard, copied
<1>6. \A i \in 1..n : m_ModeInfo[i] = standard[i]
  BY <1>1, <1>3, <1>4
<1>7. \A i \in 1..n : SizeOf(m_ModeInfo[i]) = Standard[i]
  BY <1>1, <1>2, <1>5, <1>6
<1>8. os.at = "idle" /\ ret = "none"
  BY DEF Init, Idle
<1>. QED
  BY <1>7, <1>8 DEF StandardInv, n

\* What a successful commit shows (viogpudo.cpp:1505) has the size that dxgkrnl found in the
\* list, unless its entry was written during the commit: a standard size always, that of the
\* newest slot if m_CustomMode was stored at most once since dxgkrnl began to read the list
\* and no setter was on its way to that slot then.
THEOREM CommittedCorrect == Spec => []CommittedIsShown
<1>1. Init => KeptInv
  <2> SUFFICES ASSUME Init PROVE KeptInv
    OBVIOUS
  <2>1. \A t \in Setters : set[t].at \in {"ask", "off"}
    BY DEF Init, At, Off
  <2>. QED
    BY <2>1 DEF Init, KeptInv, Idle
<1>2. Typed /\ CommitInv /\ KeptInv /\ StandardInv => CommittedIsShown
  <2> SUFFICES ASSUME Typed, CommitInv, KeptInv, StandardInv, os.at = "idle", ret = "OK", ~raced,
                      current \in Range(Standard) \/ (chosen /\ since < 2)
               PROVE  /\ frame # NULL /\ frame.res = current /\ frame.scanout = current
                      /\ segment = Area(current)
    BY DEF CommittedIsShown
  <2>1. ~lost
    BY DEF KeptInv, StandardInv, Typed
  <2>. QED
    BY <2>1 DEF CommitInv, Shown
<1>. QED
  BY <1>1, <1>2, InitCommit, InitStandard, NextTyped, NextEntry, NextCommit, NextKept, NextStandard,
     PTL DEF Spec

-----------------------------------------------------------------------------
(* The size of the host's display                                          *)

\* A setter with a size is busy.
LEMMA BusyNext ==
    ASSUME NEW t \in Setters, NEW a, NEW s, NEW n, Moves(t, a, s, n)
    PROVE  /\ Busy(t)' <=> a \in {"load", "store", "read", "width", "height"}
           /\ \A u \in Setters \ {t} : (Busy(u)' <=> Busy(u)) /\ set'[u] = set[u]
BY DEF Moves, Busy

\* Setters that are busy together have overlapped.
LEMMA NextAlone == Typed /\ AloneInv /\ [Next]_vars => AloneInv'
<1> SUFFICES ASSUME Typed, AloneInv, [Next]_vars PROVE AloneInv'
  OBVIOUS
<1> HIDE DEF Typed
<1>1. ASSUME NEW t \in Setters, SetWidth(t)
      PROVE  AloneInv'
  <2>1. Moves(t, "height", set[t].size, set[t].slot) /\ Busy(t)
    BY <1>1, SetterMoves DEF SetWidth, Busy
  <2>2. UNCHANGED <<overlapped, m_CustomMode>> /\ newestBy' = t
    BY <1>1 DEF SetWidth, Writes
  <2>3. m_ModeInfo'[set[t].slot].w = Width(Clamp(set[t].size))
    <3>1. m_ModeInfo[set[t].slot] \in ModeInfo
      BY <1>1, WritesIs, Zenon DEF Typed
    <3>2. m_ModeInfo'[set[t].slot] = [m_ModeInfo[set[t].slot] EXCEPT !.w = Width(Clamp(set[t].size))]
      BY <1>1, WritesIs
    <3>. QED
      BY <3>1, <3>2 DEF ModeInfo
  <2>4. \A u \in Setters : Busy(u)' <=> Busy(u)
    BY <2>1, BusyNext
  <2>5. ~overlapped => \A u \in Setters : set'[u].at \in {"width", "height"} => u = t
    BY <2>1, <2>4 DEF AloneInv, Moves, Busy
  <2>6. set'[t].slot = set[t].slot /\ set'[t].size = set[t].size
        /\ (~overlapped => set[t].slot = m_CustomMode)
    BY <1>1, <2>1 DEF Moves, AloneInv, SetWidth
  <2>. QED
    BY <2>2, <2>3, <2>4, <2>5, <2>6 DEF AloneInv
<1>2. ASSUME NEW t \in Setters, SetHeightAndStride(t)
      PROVE  AloneInv'
  <2>1. Moves(t, After(t), MinSize, 0) /\ Busy(t) /\ After(t) \notin {"load", "store", "read", "width", "height"}
    BY <1>2, SetterMoves DEF SetHeightAndStride, Busy, After, Setters
  <2>2. UNCHANGED overlapped
    BY <1>2 DEF SetHeightAndStride, Writes
  <2>3. \A u \in Setters : Busy(u)' => Busy(u) /\ u # t
    BY <2>1, BusyNext
  <2>4. ~overlapped => \A u \in Setters : set'[u].at \notin {"width", "height"}
    BY <2>1, <2>3 DEF AloneInv, Busy
  <2>. QED
    BY <2>2, <2>3, <2>4 DEF AloneInv
<1>3. ASSUME UNCHANGED <<m_ModeInfo, m_CustomMode, newestBy>>,
             NEW t \in Setters, NEW a, NEW s, NEW n, Moves(t, a, s, n),
             a # "height", set[t].at # "height", a = "width" => n = m_CustomMode,
             \/ overlapped' = overlapped /\ (a \in {"load", "store", "read", "width", "height"} => Busy(t))
             \/ overlapped' = \E u \in Setters \ {t} : Busy(u)
      PROVE  AloneInv'
  <2>1. /\ \A u \in Setters : set'[u].at = "height" => u # t /\ set'[u] = set[u]
        /\ \A u \in Setters : set'[u].at = "width" => set'[u] = set[u] \/ set'[u].slot = m_CustomMode
    BY <1>3 DEF Moves
  <2>2. \A u \in Setters \ {t} : Busy(u)' <=> Busy(u)
    BY <1>3, BusyNext
  <2>3. CASE overlapped' = overlapped /\ (a \in {"load", "store", "read", "width", "height"} => Busy(t))
    <3>1. \A u \in Setters : Busy(u)' => Busy(u)
      BY <1>3, <2>2, <2>3, BusyNext
    <3>. QED
      BY <1>3, <2>1, <2>3, <3>1 DEF AloneInv
  <2>4. CASE overlapped' = \E u \in Setters \ {t} : Busy(u)
    <3>1. ASSUME NEW u \in Setters, NEW v \in Setters, Busy(u)', Busy(v)', u # v
          PROVE  overlapped'
      BY <2>2, <2>4, <3>1
    <3>2. ~overlapped' => \A u \in Setters :
             set'[u].at # "height" /\ (set'[u].at = "width" => set'[u].slot = m_CustomMode)
      BY <1>3, <2>1, <2>2, <2>4 DEF Busy, Moves
    <3>. QED
      BY <1>3, <3>1, <3>2 DEF AloneInv
  <2>. QED
    BY <1>3, <2>3, <2>4
<1>4. "worker" \in Setters /\ "escape" \in Setters
  BY DEF Setters
<1>5. ASSUME ConfigChanged
      PROVE  AloneInv'
  <2>1. PICK a \in {"ask", "off"} : Moves("worker", a, MinSize, 0)
    BY <1>5, SetterMoves
  <2>2. UNCHANGED <<m_ModeInfo, m_CustomMode, newestBy, overlapped>> /\ set["worker"].at = "off"
    BY <1>5 DEF ConfigChanged, Off
  <2>. QED
    BY <1>3, <1>4, <2>1, <2>2
<1>6. ASSUME SetEventsClear
      PROVE  AloneInv'
  <2>1. Moves("worker", "report", set["worker"].size, set["worker"].slot)
    BY <1>6, SetterMoves
  <2>2. UNCHANGED <<m_ModeInfo, m_CustomMode, newestBy, overlapped>> /\ set["worker"].at = "clear"
    BY <1>6 DEF SetEventsClear
  <2>. QED
    BY <1>3, <1>4, <2>1, <2>2
<1>7. ASSUME NEW size \in HostSizes, Escape(size)
      PROVE  AloneInv'
  <2>1. Moves("escape", "load", size, 0)
    BY <1>7, SetterMoves
  <2>2. UNCHANGED <<m_ModeInfo, m_CustomMode, newestBy>> /\ set["escape"].at = "off" /\ set["start"].at = "off"
        /\ overlapped' = \E u \in {"start", "worker"} : Busy(u)
    BY <1>7 DEF Escape, Off
  <2>3. overlapped' = \E u \in Setters \ {"escape"} : Busy(u)
    <3>1. Setters \ {"escape"} = {"start", "worker"}
      BY DEF Setters
    <3>. QED
      BY <2>2, <3>1
  <2>. QED
    BY <1>3, <1>4, <2>1, <2>2, <2>3
<1>8. ASSUME NEW t \in Setters, GetDisplayInfo(t)
      PROVE  AloneInv'
  <2>1. UNCHANGED <<m_ModeInfo, m_CustomMode, newestBy>> /\ set[t].at = "ask"
    BY <1>8 DEF GetDisplayInfo
  <2>2. CASE display = OFF
    <3>1. Moves(t, After(t), MinSize, 0) /\ overlapped' = overlapped
          /\ After(t) \notin {"load", "store", "read", "width", "height"}
      BY <1>8, <2>2, SetterMoves DEF GetDisplayInfo, After, Setters
    <3>. QED
      BY <1>3, <2>1, <3>1
  <2>3. CASE display # OFF
    <3>1. Moves(t, "load", display, set[t].slot) /\ overlapped' = \E u \in Setters \ {t} : Busy(u)
      BY <1>8, <2>3, SetterMoves DEF GetDisplayInfo
    <3>. QED
      BY <1>3, <2>1, <3>1
  <2>. QED
    BY <2>2, <2>3
<1>9. ASSUME NEW t \in Setters, LoadCustomMode(t) \/ ReadCustomMode(t)
      PROVE  AloneInv'
  <2>1. PICK a, n : /\ Moves(t, a, set[t].size, n)
                    /\ a \in {"store", "width"} /\ (a = "width" => n = m_CustomMode)
    BY <1>9, SetterMoves
  <2>2. /\ UNCHANGED <<m_ModeInfo, m_CustomMode, newestBy, overlapped>>
        /\ set[t].at \in {"load", "read"} /\ Busy(t)
    BY <1>9 DEF LoadCustomMode, ReadCustomMode, Busy
  <2>. QED
    BY <1>3, <2>1, <2>2
<1>14. ASSUME NEW t \in Setters, StoreCustomMode(t)
       PROVE  AloneInv'
  <2>1. /\ Moves(t, "read", set[t].size, 0) /\ Busy(t)
        /\ UNCHANGED <<m_ModeInfo, newestBy, overlapped>>
    BY <1>14, StoreIs DEF Busy
  <2>2. \A u \in Setters : Busy(u)' <=> Busy(u)
    BY <2>1, BusyNext
  <2>3. ~overlapped => \A u \in Setters : set'[u].at \notin {"width", "height"}
    BY <2>1, <2>2 DEF AloneInv, Moves, Busy
  <2>. QED
    BY <2>1, <2>2, <2>3 DEF AloneInv
<1>10. ASSUME NEW t \in Setters, UpdateChildStatus(t)
       PROVE  AloneInv'
  <2>1. Moves(t, "off", MinSize, 0)
    BY <1>10, SetterMoves DEF UpdateChildStatus
  <2>2. UNCHANGED <<m_ModeInfo, m_CustomMode, newestBy, overlapped>> /\ set[t].at = "report"
    BY <1>10 DEF UpdateChildStatus, Report
  <2>. QED
    BY <1>3, <2>1, <2>2
<1>11. ASSUME UNCHANGED <<m_ModeInfo, m_CustomMode, newestBy, overlapped, set>>
       PROVE  AloneInv'
  BY <1>11 DEF AloneInv, Busy
<1>12. ASSUME \/ PresentDisplayOnly \/ \E v \in BOOLEAN : SetVidPnSourceVisibility(v)
              \/ StopDeviceAndReleasePostDisplayOwnership \/ SystemDisplayWrite \/ UNCHANGED vars
              \/ \E d \in HostSizes \cup {OFF} : HostChange(d)
       PROVE  UNCHANGED <<m_ModeInfo, m_CustomMode, newestBy, overlapped, set>>
  BY <1>12 DEF PresentDisplayOnly, SetVidPnSourceVisibility, BlackOutScreen, Write, HostChange, list,
               StopDeviceAndReleasePostDisplayOwnership, SystemDisplayWrite, vars
<1>13. CallStep => UNCHANGED <<m_ModeInfo, m_CustomMode, newestBy, overlapped, set>>
  BY CallsRead
<1>. QED
  BY <1>1, <1>2, <1>5, <1>6, <1>7, <1>8, <1>9, <1>10, <1>11, <1>12, <1>13, <1>14
     DEF Next, SetCustomDisplay, CreateFrameBufferObj, CallStep

\* A setter that finishes alone has put its size into the newest slot.
LEMMA AloneLists ==
    ASSUME Typed, AloneInv, NEW t \in Setters, SetHeightAndStride(t), ~overlapped
    PROVE  /\ newestBy' = t
           /\ SizeOf(m_ModeInfo[m_CustomMode])' = Clamp(set[t].size)
<1> DEFINE i == set[t].slot
           size == set[t].size
<1>1. m_CustomMode = i /\ newestBy = t /\ m_ModeInfo[i].w = Width(Clamp(size))
  BY DEF AloneInv, SetHeightAndStride
<1>2. UNCHANGED <<m_CustomMode, newestBy>>
  BY DEF SetHeightAndStride
<1>3. m_ModeInfo[i] \in ModeInfo /\ size \in Sizes
  BY SetterIs, WritesIs DEF Typed
<1>4. Width(Clamp(size)) \in Nat /\ Height(Clamp(size)) \in Nat
      /\ Clamp(size) = <<Width(Clamp(size)), Height(Clamp(size))>>
  BY <1>3, ClampFacts
<1>5. m_ModeInfo'[i] = [m_ModeInfo[i] EXCEPT !.h = Height(Clamp(size)), !.stride = Width(Clamp(size))]
  BY WritesIs
<1>6. m_ModeInfo'[i].w = m_ModeInfo[i].w /\ m_ModeInfo'[i].h = Height(Clamp(size))
  BY <1>3, <1>4, <1>5 DEF ModeInfo
<1> HIDE DEF i, size
<1>7. SizeOf(m_ModeInfo'[i]) = Clamp(size)
  BY <1>1, <1>4, <1>6 DEF SizeOf
<1>. QED
  BY <1>1, <1>2, <1>7 DEF SizeOf, i, size

\* Nobody but a later escape or a second setter takes the size of the display away.
LEMMA NextHost == Typed /\ AloneInv /\ HostInv /\ [Next]_vars => HostInv'
<1> SUFFICES ASSUME Typed, AloneInv, HostInv, [Next]_vars PROVE HostInv'
  OBVIOUS
<1> HIDE DEF Typed
<1>0. Setters = {"start", "worker", "escape"} /\ After("start") = "off" /\ After("worker") = "clear"
      /\ After("escape") = "report"
  BY DEF Setters, After
<1>1. ASSUME NEW t \in Setters, SetWidth(t) \/ StoreCustomMode(t)
      PROVE  HostInv'
  <2>1. PICK a, n : Moves(t, a, set[t].size, n) /\ a \in {"read", "height"}
                    /\ set[t].at \in {"store", "width"}
    BY <1>1, SetterMoves DEF SetWidth, StoreCustomMode
  <2>2. UNCHANGED <<host, os, reported, overlapped>>
    BY <1>1 DEF SetWidth, StoreCustomMode, Writes, modes
  <2>3. \A u \in Setters : (Busy(u)' <=> Busy(u)) /\ set'[u].size = set[u].size
                           /\ (set'[u].at = set[u].at \/ set'[u].at \in {"read", "height"})
    BY <2>1, BusyNext DEF Moves, Busy
  <2>4. Busy(t)'
    BY <2>1, BusyNext
  <2>5. WillAsk' <=> WillAsk
    BY <1>0, <2>1, <2>2 DEF WillAsk, host, Moves
  <2>6. set["start"].at = "off" <=> set'["start"].at = "off"
    BY <1>0, <2>1 DEF Moves
  <2>. QED
    BY <1>0, <2>2, <2>3, <2>4, <2>5, <2>6 DEF HostInv, host
<1>2. ASSUME NEW t \in Setters, SetHeightAndStride(t)
      PROVE  HostInv'
  <2>1. Moves(t, After(t), MinSize, 0) /\ set[t].at = "height" /\ Busy(t)
    BY <1>2, SetterMoves DEF SetHeightAndStride, Busy
  <2>2. UNCHANGED <<host, os, reported, overlapped, newestBy>>
    BY <1>2 DEF SetHeightAndStride, Writes, modes
  <2>3. /\ \A u \in Setters \ {t} : (Busy(u)' <=> Busy(u)) /\ set'[u] = set[u]
        /\ ~Busy(t)'
    BY <1>0, <2>1, BusyNext
  <2>4. t # "worker" => (WillAsk' <=> WillAsk)
    BY <1>0, <2>2, <2>3 DEF WillAsk, host
  <2>5. set'["start"].at \in {"off", "ask", "load", "store", "read", "width", "height"}
        /\ (set'["start"].at # "off" => reported' /\ os'.at = "idle")
    BY <1>0, <2>1, <2>2, <2>3 DEF HostInv, Moves
  <2>6. ASSUME ~missed, display # OFF, ~overlapped
        PROVE  WillAsk' \/ newestBy' = "escape" \/ Listed'
    <3>1. newestBy' = t /\ SizeOf(m_ModeInfo[m_CustomMode])' = Clamp(set[t].size)
      BY <1>2, <2>6, AloneLists
    <3>2. display' = display
      BY <2>2 DEF host
    <3>3. CASE t = "escape"
      BY <3>1, <3>3
    <3>4. CASE t = "worker"
      <4>1. set[t].size = display
        BY <2>1, <2>6, <3>4 DEF HostInv
      <4>. QED
        BY <3>1, <3>2, <4>1 DEF Listed
    <3>5. CASE t = "start"
      <4>1. WillAsk \/ set[t].size = display
        BY <2>1, <2>6, <3>5 DEF HostInv
      <4>2. WillAsk => WillAsk'
        BY <2>4, <3>5
      <4>. QED
        BY <3>1, <3>2, <4>1, <4>2 DEF Listed
    <3>. QED
      BY <1>0, <3>3, <3>4, <3>5
  <2>7. ASSUME ~missed, display # OFF
        PROVE  /\ Busy("worker")' => set'["worker"].size = display
               /\ Busy("start")' => overlapped \/ WillAsk' \/ set'["start"].size = display
    <3>1. Busy("worker")' => Busy("worker") /\ set'["worker"] = set["worker"]
      BY <1>0, <2>3
    <3>2. Busy("start")' => Busy("start") /\ set'["start"] = set["start"] /\ t # "start"
      BY <1>0, <2>3
    <3>3. Busy("start")' /\ t = "worker" => overlapped
      BY <1>0, <2>1, <3>2 DEF AloneInv
    <3>. QED
      BY <2>4, <2>7, <3>1, <3>2, <3>3 DEF HostInv
  <2>. QED
    BY <2>2, <2>5, <2>6, <2>7 DEF HostInv, Listed, host
<1>3. ASSUME UNCHANGED <<m_ModeInfo, m_CustomMode, newestBy, os, display>>, reported => reported',
             set'["start"].at \in {"off", "ask", "load", "store", "read", "width", "height"},
             set["start"].at = "off" => set'["start"].at = "off",
             ~missed' /\ display # OFF =>
                /\ Busy("worker")' => set'["worker"].size = display
                /\ Busy("start")' => overlapped' \/ WillAsk' \/ set'["start"].size = display
                /\ \/ WillAsk' \/ set'["start"].at = "ask" \/ (\E t \in Setters : Busy(t)')
                   \/ overlapped' \/ newestBy = "escape" \/ Listed
      PROVE  HostInv'
  BY <1>3 DEF HostInv, Listed
<1>4. ASSUME UNCHANGED <<host, overlapped>>, NEW t \in Setters, NEW a, NEW s, NEW n, Moves(t, a, s, n),
             a \in {"load", "store", "read", "width", "height"} => Busy(t) /\ s = set[t].size,
             Busy(t) => a \in {"load", "store", "read", "width", "height"},
             set[t].at # "ask",
             t = "worker" /\ set[t].at \in {"off", "report"} => a \in {"off", "report", "ask"}
      PROVE  ~missed' /\ display # OFF =>
                /\ Busy("worker")' => set'["worker"].size = display
                /\ Busy("start")' => overlapped' \/ WillAsk' \/ set'["start"].size = display
                /\ \/ WillAsk' \/ set'["start"].at = "ask" \/ (\E u \in Setters : Busy(u)')
                   \/ overlapped' \/ newestBy = "escape" \/ Listed
  <2>1. \A u \in Setters : (Busy(u)' <=> Busy(u)) /\ (Busy(u) => set'[u].size = set[u].size)
    BY <1>4, BusyNext DEF Moves
  <2>2. WillAsk => WillAsk'
    BY <1>0, <1>4 DEF WillAsk, Moves, host
  <2>3. set["start"].at = "ask" => set'["start"].at = "ask"
    BY <1>0, <1>4 DEF Moves
  <2>. QED
    BY <1>0, <1>4, <2>1, <2>2, <2>3 DEF HostInv, Listed, host
<1>5. ASSUME ConfigChanged
      PROVE  HostInv'
  <2>1. PICK a \in {"ask", "off"} : Moves("worker", a, MinSize, 0) /\ (a = "ask" <=> events_read)
    BY <1>5, SetterMoves
  <2>2. UNCHANGED <<m_ModeInfo, m_CustomMode, newestBy, os, display, reported, overlapped, missed>>
        /\ set["worker"].at = "off"
    BY <1>5 DEF ConfigChanged, Off, modes
  <2>3. \A u \in Setters : (Busy(u)' <=> Busy(u)) /\ (u # "worker" => set'[u] = set[u])
    BY <1>0, <2>1, <2>2, BusyNext DEF Busy
  <2>4. WillAsk => WillAsk'
    BY <1>0, <2>1, <2>2 DEF WillAsk, Moves
  <2>5. ~Busy("worker")
    BY <2>2 DEF Busy
  <2>. QED
    BY <1>0, <1>3, <2>2, <2>3, <2>4, <2>5 DEF HostInv, Listed
<1>6. ASSUME SetEventsClear
      PROVE  HostInv'
  <2>1. Moves("worker", "report", set["worker"].size, set["worker"].slot)
    BY <1>6, SetterMoves
  <2>2. UNCHANGED <<m_ModeInfo, m_CustomMode, newestBy, os, display, reported, overlapped, missed>>
        /\ set["worker"].at = "clear"
    BY <1>6 DEF SetEventsClear, modes
  <2>3. \A u \in Setters : (Busy(u)' <=> Busy(u)) /\ (u # "worker" => set'[u] = set[u])
    BY <1>0, <2>1, <2>2, BusyNext DEF Busy
  <2>4. ~WillAsk /\ ~Busy("worker")
    BY <2>2 DEF WillAsk, Busy
  <2>. QED
    BY <1>0, <1>3, <2>2, <2>3, <2>4 DEF HostInv, Listed
<1>7. ASSUME NEW size \in HostSizes, Escape(size)
      PROVE  HostInv'
  <2>1. Moves("escape", "load", size, 0) /\ set["start"].at = "off"
    <3>1. Moves("escape", "load", size, 0)
      BY <1>7, SetterMoves
    <3>2. set["start"].at = "off"
      BY <1>7 DEF Escape, Off
    <3>. QED
      BY <3>1, <3>2
  <2>2. UNCHANGED <<m_ModeInfo, m_CustomMode, newestBy, os, display, reported, missed>>
    BY <1>7 DEF Escape, modes, host
  <2>3. Busy("escape")' /\ \A u \in Setters : u # "escape" => (Busy(u)' <=> Busy(u)) /\ set'[u] = set[u]
    BY <1>0, <2>1, BusyNext
  <2>4. ~Busy("start")
    BY <2>1 DEF Busy
  <2>. QED
    BY <1>0, <1>3, <2>1, <2>2, <2>3, <2>4 DEF HostInv
<1>8. ASSUME NEW t \in Setters, GetDisplayInfo(t)
      PROVE  HostInv'
  <2>1. UNCHANGED <<m_ModeInfo, m_CustomMode, newestBy, os, display, reported>> /\ set[t].at = "ask"
        /\ missed' = (missed /\ t # "worker")
    BY <1>8 DEF GetDisplayInfo, modes
  <2>2. CASE display = OFF
    <3>1. Moves(t, After(t), MinSize, 0)
      BY <1>8, <2>2, SetterMoves
    <3>2. set'["start"].at \in {"off", "ask", "load", "store", "read", "width", "height"}
          /\ (set["start"].at = "off" => set'["start"].at = "off")
      BY <1>0, <2>1, <3>1 DEF HostInv, Moves
    <3>. QED
      BY <1>3, <2>1, <2>2, <3>2
  <2>3. CASE display # OFF
    <3>1. Moves(t, "load", display, set[t].slot) /\ overlapped' = \E u \in Setters \ {t} : Busy(u)
      BY <1>8, <2>3, SetterMoves DEF GetDisplayInfo
    <3>2. set'["start"].at \in {"off", "ask", "load", "store", "read", "width", "height"}
          /\ (set["start"].at = "off" => set'["start"].at = "off")
      BY <1>0, <2>1, <3>1 DEF HostInv, Moves
    <3>3. Busy(t)' /\ set'[t].size = display
          /\ \A u \in Setters \ {t} : (Busy(u)' <=> Busy(u)) /\ set'[u] = set[u]
      BY <3>1, BusyNext DEF Moves
    <3>4. t # "start" => (Busy("start")' => overlapped')
      BY <1>0, <3>1, <3>3
    <3>5. ~missed' => (Busy("worker")' => set'["worker"].size = display)
      <4>1. CASE t = "worker"
        BY <3>3, <4>1
      <4>2. CASE t # "worker"
        BY <1>0, <2>1, <2>3, <3>3, <4>2 DEF HostInv
      <4>. QED
        BY <4>1, <4>2
    <3>. QED
      BY <1>3, <2>1, <3>2, <3>3, <3>4, <3>5
  <2>. QED
    BY <2>2, <2>3
<1>9. ASSUME NEW t \in Setters, LoadCustomMode(t) \/ ReadCustomMode(t)
      PROVE  HostInv'
  <2>1. PICK a, n : /\ Moves(t, a, set[t].size, n) /\ a \in {"store", "width"}
                    /\ set[t].at \in {"load", "read"} /\ Busy(t)
    BY <1>9, SetterMoves DEF LoadCustomMode, ReadCustomMode, Busy
  <2>2. UNCHANGED <<m_ModeInfo, m_CustomMode, newestBy, os, reported, host, overlapped>>
    BY <1>9 DEF LoadCustomMode, ReadCustomMode, modes
  <2>3. set'["start"].at \in {"off", "ask", "load", "store", "read", "width", "height"}
        /\ (set["start"].at = "off" => set'["start"].at = "off")
    BY <1>0, <2>1 DEF HostInv, Moves
  <2>. QED
    BY <1>3, <1>4, <2>1, <2>2, <2>3 DEF host
<1>10. ASSUME NEW t \in Setters, UpdateChildStatus(t)
       PROVE  HostInv'
  <2>1. Moves(t, "off", MinSize, 0) /\ set[t].at = "report" /\ ~Busy(t)
    BY <1>10, SetterMoves DEF UpdateChildStatus, Report, Busy
  <2>2. UNCHANGED <<m_ModeInfo, m_CustomMode, newestBy, os, host, overlapped>> /\ reported'
    BY <1>10 DEF UpdateChildStatus, Report, host
  <2>3. set'["start"].at \in {"off", "ask", "load", "store", "read", "width", "height"}
        /\ (set["start"].at = "off" => set'["start"].at = "off")
    BY <1>0, <2>1 DEF HostInv, Moves
  <2>. QED
    BY <1>3, <1>4, <2>1, <2>2, <2>3 DEF host
<1>11. ASSUME NEW d \in HostSizes \cup {OFF}, HostChange(d)
       PROVE  HostInv'
  <2>1. UNCHANGED <<m_ModeInfo, m_CustomMode, newestBy, os, reported, set, overlapped>>
        /\ events_read' /\ m_ConfigUpdateEvent'
        /\ missed' = (missed \/ set["worker"].at \in {"load", "store", "read", "width", "height", "clear"})
    BY <1>11 DEF HostChange, list, modes
  <2>2. ASSUME ~missed'
        PROVE  WillAsk' /\ ~Busy("worker")'
    <3>1. set["worker"].at \in {"off", "ask", "report"}
      BY <1>0, <2>1, <2>2, SetterIs DEF SetterSteps
    <3>. QED
      BY <2>1, <3>1 DEF WillAsk, Busy
  <2>. QED
    BY <2>1, <2>2 DEF HostInv
<1>12. ASSUME CallStep
       PROVE  HostInv'
  <2>1. UNCHANGED <<m_ModeInfo, m_CustomMode, set, overlapped, newestBy, host>>
    BY <1>12, CallsRead
  <2>2. set["start"].at = "off"
    <3>1. os.at # "idle" \/ set["start"] = Off
      BY <1>12 DEF CallStep, EnumVidPnCofuncModality, AddSingleSourceMode, SetSourceModeAndPath, SearchMode,
                  SetCurrentMode, DestroyFrame, InitFrameSegment, InitFrameObject, CallAllowed
    <3>. QED
      BY <3>1 DEF HostInv, Off
  <2>3. (WillAsk' <=> WillAsk) /\ \A u \in Setters : Busy(u)' <=> Busy(u)
    BY <2>1 DEF WillAsk, Busy, host
  <2>. QED
    BY <1>0, <2>1, <2>2, <2>3 DEF HostInv, Listed, host
<1>13. ASSUME \/ PresentDisplayOnly \/ \E v \in BOOLEAN : SetVidPnSourceVisibility(v)
              \/ StopDeviceAndReleasePostDisplayOwnership \/ SystemDisplayWrite \/ UNCHANGED vars
       PROVE  HostInv'
  <2>1. UNCHANGED <<m_ModeInfo, m_CustomMode, set, overlapped, newestBy, host, os, reported>>
    BY <1>13 DEF PresentDisplayOnly, SetVidPnSourceVisibility, BlackOutScreen, Write, list, modes,
               StopDeviceAndReleasePostDisplayOwnership, SystemDisplayWrite, vars
  <2>2. (WillAsk' <=> WillAsk) /\ \A u \in Setters : Busy(u)' <=> Busy(u)
    BY <2>1 DEF WillAsk, Busy, host
  <2>. QED
    BY <1>0, <2>1, <2>2 DEF HostInv, Listed, host
<1>. QED
  BY <1>1, <1>2, <1>5, <1>6, <1>7, <1>8, <1>9, <1>10, <1>11, <1>12, <1>13
     DEF Next, SetCustomDisplay, CreateFrameBufferObj, CallStep

\* If the newest slot's size is not in dxgkrnl's list, then dxgkrnl will read the list again.
LEMMA NextOffer == Typed /\ HostInv /\ OfferInv /\ [Next]_vars => OfferInv'
<1> SUFFICES ASSUME Typed, HostInv, OfferInv, [Next]_vars PROVE OfferInv'
  OBVIOUS
<1> HIDE DEF Typed
<1>0. /\ Setters = {"start", "worker", "escape"}
      /\ After("start") = "off" /\ After("worker") = "clear" /\ After("escape") = "report"
      /\ Reporting = {"load", "store", "read", "width", "height", "clear", "report"}
  BY DEF Setters, After, Reporting
<1>1. /\ OfferInv <=> \/ reported
                      \/ Underway
                      \/ (os.at = "enum" /\ os.k <= m_CustomMode)
                      \/ SizeOf(m_ModeInfo[m_CustomMode]) \in offered
      /\ OfferInv' <=> \/ reported'
                       \/ Underway'
                       \/ (os'.at = "enum" /\ os'.k <= m_CustomMode')
                       \/ SizeOf(m_ModeInfo'[m_CustomMode']) \in offered'
  BY DEF OfferInv, Underway, Reporting, SizeOf
<1> HIDE DEF OfferInv, Reporting
<1>2. ASSUME UNCHANGED <<m_ModeInfo, m_CustomMode, os, offered>>, reported => reported',
             NEW t \in Setters, NEW a, NEW s, NEW n, Moves(t, a, s, n),
             t # "start" /\ set[t].at \in Reporting => a \in Reporting \/ reported'
      PROVE  OfferInv'
  <2>1. \A u \in Setters : u # t => set'[u] = set[u]
    BY <1>2 DEF Moves
  <2>2. Underway => Underway' \/ reported'
    BY <1>0, <1>2, <2>1 DEF Underway, Moves
  <2>. QED
    BY <1>1, <1>2, <2>2
<1>3. ASSUME NEW t \in Setters, StoreCustomMode(t) \/ SetWidth(t) \/ SetHeightAndStride(t)
      PROVE  OfferInv'
  <2>1. UNCHANGED reported
    BY <1>3 DEF StoreCustomMode, SetWidth, SetHeightAndStride, Writes, modes
  <2>2. CASE t = "start"
    <3>1. reported
      BY <1>3, <2>2 DEF HostInv, StoreCustomMode, SetWidth, SetHeightAndStride
    <3>. QED
      BY <1>1, <2>1, <3>1
  <2>3. CASE t # "start"
    <3>1. PICK a \in {"read", "height", After(t)} : set'[t].at = a
      BY <1>3, SetterMoves DEF Moves
    <3>2. a \in Reporting
      BY <1>0, <2>3
    <3>. QED
      BY <1>0, <1>1, <2>3, <3>1, <3>2 DEF Underway
  <2>. QED
    BY <2>2, <2>3
<1>4. ASSUME ConfigChanged
      PROVE  OfferInv'
  <2>1. PICK a \in {"ask", "off"} : Moves("worker", a, MinSize, 0)
    BY <1>4, SetterMoves
  <2>2. UNCHANGED <<m_ModeInfo, m_CustomMode, os, offered, reported>> /\ set["worker"].at = "off"
    BY <1>4 DEF ConfigChanged, Off, modes
  <2>. QED
    BY <1>0, <1>2, <2>1, <2>2
<1>5. ASSUME SetEventsClear
      PROVE  OfferInv'
  <2>1. Moves("worker", "report", set["worker"].size, set["worker"].slot)
    BY <1>5, SetterMoves
  <2>2. UNCHANGED <<m_ModeInfo, m_CustomMode, os, offered, reported>>
    BY <1>5 DEF SetEventsClear, modes
  <2>. QED
    BY <1>0, <1>2, <2>1, <2>2
<1>6. ASSUME NEW size \in HostSizes, Escape(size)
      PROVE  OfferInv'
  <2>1. Moves("escape", "load", size, 0)
    BY <1>6, SetterMoves
  <2>2. UNCHANGED <<m_ModeInfo, m_CustomMode, os, offered, reported>>
    BY <1>6 DEF Escape, modes
  <2>. QED
    BY <1>0, <1>2, <2>1, <2>2
<1>7. ASSUME NEW t \in Setters, GetDisplayInfo(t)
      PROVE  OfferInv'
  <2>1. PICK a, s, n : a \in {"load", After(t)} /\ Moves(t, a, s, n)
    BY <1>7, SetterMoves
  <2>2. UNCHANGED <<m_ModeInfo, m_CustomMode, os, offered, reported>>
    BY <1>7 DEF GetDisplayInfo, modes
  <2>3. t # "start" => a \in Reporting
    BY <1>0, <2>1
  <2>. QED
    BY <1>2, <2>1, <2>2, <2>3
<1>8. ASSUME NEW t \in Setters, LoadCustomMode(t) \/ ReadCustomMode(t)
      PROVE  OfferInv'
  <2>1. PICK a, n : Moves(t, a, set[t].size, n) /\ a \in {"store", "width"}
    BY <1>8, SetterMoves
  <2>2. UNCHANGED <<m_ModeInfo, m_CustomMode, os, offered, reported>>
    BY <1>8 DEF LoadCustomMode, ReadCustomMode, modes
  <2>. QED
    BY <1>0, <1>2, <2>1, <2>2
<1>9. ASSUME NEW t \in Setters, UpdateChildStatus(t)
      PROVE  OfferInv'
  BY <1>1, <1>9 DEF UpdateChildStatus, Report
<1>10. ASSUME UNCHANGED <<m_ModeInfo, m_CustomMode, set, reported, offered>>,
              os.at = "enum" => UNCHANGED os
       PROVE  OfferInv'
  BY <1>1, <1>10 DEF Underway
<1>11. ASSUME EnumVidPnCofuncModality
       PROVE  OfferInv'
  <2>1. os'.at = "enum" /\ os'.k = 1 /\ m_CustomMode' = m_CustomMode
    BY <1>11, CallMoves DEF EnumVidPnCofuncModality
  <2>2. m_CustomMode \in Nat /\ m_CustomMode >= 1
    BY SlotFacts DEF Typed
  <2>. QED
    BY <1>1, <2>1, <2>2
<1>12. ASSUME AddSingleSourceMode
       PROVE  OfferInv'
  <2>1. UNCHANGED <<m_ModeInfo, m_CustomMode, set, reported>> /\ os.at = "enum"
        /\ offered' = offered \cup {SizeOf(m_ModeInfo[os.k])}
    BY <1>12 DEF AddSingleSourceMode, list
  <2>2. Underway => Underway'
    BY <2>1 DEF Underway
  <2>3. ASSUME os.k <= m_CustomMode, os.k # m_CustomMode
        PROVE  os'.at = "enum" /\ os'.k <= m_CustomMode
    <3>1. os.k \in Nat /\ m_CustomMode \in Nat /\ m_CustomMode <= ModeCount /\ ModeCount \in Nat
      BY <2>1, SlotFacts DEF Typed
    <3>2. os.k # ModeCount /\ os.k + 1 <= m_CustomMode
      BY <2>3, <3>1
    <3>. QED
      BY <1>12, <3>2, CallMoves
  <2>. QED
    BY <1>1, <2>1, <2>2, <2>3
<1>13. ASSUME \/ \E size \in offered : SetSourceModeAndPath(size)
              \/ SearchMode \/ SetCurrentMode \/ InitFrameSegment \/ InitFrameObject
       PROVE  OfferInv'
  <2>1. UNCHANGED <<m_ModeInfo, m_CustomMode, set, reported, offered>> /\ os.at # "enum"
    BY <1>13 DEF SetSourceModeAndPath, CallAllowed, SearchMode, SetCurrentMode, DestroyFrame,
                 InitFrameSegment, InitFrameObject, list
  <2>. QED
    BY <1>10, <2>1
<1>14. ASSUME \/ PresentDisplayOnly \/ \E v \in BOOLEAN : SetVidPnSourceVisibility(v)
              \/ StopDeviceAndReleasePostDisplayOwnership \/ SystemDisplayWrite \/ UNCHANGED vars
              \/ \E d \in HostSizes \cup {OFF} : HostChange(d)
       PROVE  OfferInv'
  <2>1. UNCHANGED <<m_ModeInfo, m_CustomMode, set, reported, offered, os>>
    BY <1>14 DEF PresentDisplayOnly, SetVidPnSourceVisibility, BlackOutScreen, Write, HostChange, list, modes,
               StopDeviceAndReleasePostDisplayOwnership, SystemDisplayWrite, vars
  <2>. QED
    BY <1>10, <2>1
<1>. QED
  BY <1>3, <1>4, <1>5, <1>6, <1>7, <1>8, <1>9, <1>11, <1>12, <1>13, <1>14
     DEF Next, SetCustomDisplay, CreateFrameBufferObj

\* At the start of the device the size of the display is still to be asked for.
LEMMA InitHost == Init => AloneInv /\ HostInv /\ OfferInv
<1> SUFFICES ASSUME Init PROVE AloneInv /\ HostInv /\ OfferInv
  OBVIOUS
<1>1. /\ "start" \in Setters /\ set["start"].at = "ask"
      /\ \A t \in Setters : set[t].at \in {"ask", "off"}
      /\ os.at = "idle" /\ reported
  BY DEF Init, Setters, At, Off, Idle
<1>2. \A t \in Setters : ~Busy(t)
  BY <1>1 DEF Busy
<1>3. "worker" \in Setters
  BY DEF Setters
<1>4. AloneInv
  BY <1>1, <1>2 DEF AloneInv
<1>5. HostInv
  BY <1>1, <1>2, <1>3 DEF HostInv
<1>6. OfferInv
  BY <1>1 DEF OfferInv
<1>. QED
  BY <1>4, <1>5, <1>6

\* The size of the host's display gets into dxgkrnl's list: GetDisplayInfo (viogpudo.cpp:2740)
\* asks for it, SetCustomDisplay writes it into the list, and the report of a new monitor makes
\* dxgkrnl read the list again.  When all is quiet the list that dxgkrnl read has that size,
\* unless the display changed before the worker cleared its event, two setters met, or an
\* escape wrote later.
THEOREM HostSizeCorrect == Spec => []HostSizeOffered
<1>1. Typed /\ HostInv /\ OfferInv => HostSizeOffered
  <2> SUFFICES ASSUME Typed, HostInv, OfferInv, AtRest, display # OFF, ~missed, ~overlapped,
                      newestBy # "escape"
               PROVE  Clamp(display) \in offered
    BY DEF HostSizeOffered
  <2>1. ~m_ConfigUpdateEvent /\ ~reported /\ os.at = "idle"
        /\ \A t \in Setters : set[t].at = "off"
    BY DEF AtRest, Off
  <2>2. Setters = {"start", "worker", "escape"}
    BY DEF Setters
  <2>3. ~WillAsk /\ set["start"].at # "ask" /\ \A t \in Setters : ~Busy(t)
    BY <2>1, <2>2 DEF WillAsk, Busy
  <2>4. Listed
    BY <2>3 DEF HostInv, Listed
  <2>5. SizeOf(m_ModeInfo[m_CustomMode]) \in offered
    BY <2>1, <2>2 DEF OfferInv, Underway, Reporting
  <2>. QED
    BY <2>4, <2>5 DEF Listed
<1>. QED
  BY <1>1, InitCommit, InitHost, NextTyped, NextAlone, NextHost, NextOffer, PTL DEF Spec
=============================================================================
