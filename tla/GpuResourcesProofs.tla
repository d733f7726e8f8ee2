-------------------------- MODULE GpuResourcesProofs --------------------------
(***************************************************************************)
(* Theorems about GpuResources, for every bitmap, every number of memory   *)
(* regions, shapes and commands in flight.                                 *)
(*                                                                         *)
(* TypeOK is strengthened by what a thread's position says of its ids      *)
(* (IdKnown): a thread that is to name an object in a command can.         *)
(*                                                                         *)
(* That ids are accounted for (until an allocation fails) needs more of    *)
(* the same: before an object is destroyed the thread and the object hold  *)
(* the same id, and before a new id is taken neither holds one (Handover). *)
(* So when GetId is called at most one id is held, by the other thread,    *)
(* and the bitmap has a clear bit.                                         *)
(*                                                                         *)
(* What the driver believes of the host follows, then the pointer's image, *)
(* then the memory the driver frees.                                       *)
(***************************************************************************)
EXTENDS GpuResources, NumberSets

\* The object that thread t replaces: m_pFrameBuf or m_pCursorBuf.
Obj(t) == IF t = "frame" THEN frame ELSE cursor

IdKnown ==
    /\ \A t \in Threads :
          thr[t].pc \notin {"idle", "segment", "getid"} => thr[t].id # NULL
    /\ thr["cursor"].pc \in {"transfer", "wait", "update"} => cursor # NULL
    /\ thr["frame"].pc \in {"scanout", "transfer", "flush"} => thr["frame"].obj # NULL

TypeInv == TypeOK /\ IdKnown

ThreadState == [pc : Positions, id : Ids \cup {NULL}, obj : Ids \cup {NULL}]

-----------------------------------------------------------------------------
LEMMA IdFacts ==
    /\ NULL \notin Ids
    /\ 0 \in Ids /\ NoId \in Ids
    /\ 0..MaxId \subseteq Ids
    /\ NoId \notin 0..MaxId
BY IdAssumption DEF Ids, NoId

\* RtlFindClearBitsAndSet finds a clear bit if there is one.
LEMMA FirstClearIsClear ==
    ASSUME Clear # {}
    PROVE  FirstClear \in Clear /\ FirstClear \in Ids
<1>1. Clear \in SUBSET Nat
  BY DEF Clear
<1>2. \E i \in Clear : \A j \in Clear : i <= j
  BY <1>1, LeastElement
<1>3. FirstClear \in Clear
  BY <1>2 DEF FirstClear
<1>. QED
  BY <1>3, IdFacts DEF Clear

LEMMA InitType == Init => TypeInv
<1>1. Init => failed \in BOOLEAN
  BY Zenon DEF Init
<1>. QED
  BY <1>1, IdFacts, BoundAssumption
  DEF Init, TypeInv, TypeOK, IdKnown, Idle, Positions, Threads, StartIndex, Ids, NoId

\* What Post does to the types.
LEMMA PostType ==
    ASSUME TypeInv, NEW t \in Threads, NEW next \in Positions,
           NEW cmd \in {"create", "scanout", "transfer", "flush", "detach", "unref"},
           Post(t, cmd, next),
           next \in {"unref", "putid", "attach", "transfer", "flush"},
           t = "frame" /\ next \in {"transfer", "flush"} => thr["frame"].obj # NULL,
           t = "cursor" => next \notin {"transfer"}
    PROVE  TypeInv'
<1>1. thr[t].id \in Ids /\ thr[t] \in ThreadState
  BY DEF TypeInv, TypeOK, IdKnown, Post, ThreadState
<1>2. ctrl' \in Seq(CtrlCommand)
  BY <1>1 DEF TypeInv, TypeOK, Post, Send, CtrlCommand
<1>3. TypeOK'
  BY <1>1, <1>2, ZenonT(60) DEF TypeInv, TypeOK, Post, ids, memory, device
<1>4. IdKnown'
  BY <1>1, IdFacts DEF TypeInv, TypeOK, IdKnown, Post, ids, Threads
<1>. QED
  BY <1>3, <1>4 DEF TypeInv

\* Every step preserves the types and what positions say of ids.
LEMMA NextType ==
    ASSUME TypeInv, [Next]_vars
    PROVE  TypeInv'
<1>. USE DEF TypeInv, TypeOK, IdKnown
<1>1. \A t \in Threads : thr[t] \in ThreadState
  BY DEF ThreadState
<1>2. ASSUME NEW t \in Threads, InvalBacking(t) \/ UnrefResource(t) \/ CreateResource(t)
      PROVE  TypeInv'
  <2>1. CASE InvalBacking(t)
    BY <2>1, PostType, Zenon DEF InvalBacking, Positions
  <2>2. CASE UnrefResource(t)
    BY <2>2, PostType, Zenon DEF UnrefResource, Positions
  <2>3. CASE CreateResource(t)
    BY <2>3, PostType DEF CreateResource, Positions
  <2>. QED
    BY <1>2, <2>1, <2>2, <2>3, Zenon
<1>3. CASE SetScanout \/ TransferFrame
  <2>1. CASE SetScanout
    <3>1. thr["frame"].obj # NULL
      BY <2>1 DEF SetScanout, Post
    <3>. QED
      BY <2>1, <3>1, PostType, Zenon DEF SetScanout, Positions, Threads
  <2>2. CASE TransferFrame
    <3>1. thr["frame"].obj # NULL
      BY <2>2 DEF TransferFrame, Post
    <3>. QED
      BY <2>2, <3>1, PostType DEF TransferFrame, Positions, Threads
  <2>. QED
    BY <1>3, <2>1, <2>2, Zenon
<1>4. ASSUME NEW t \in Threads, GetId(t)
      PROVE  TypeInv'
  <2>1. /\ thr'[t].id \in Ids /\ thr'[t].id # NULL
        /\ used' \subseteq Ids
    BY <1>1, <1>4, FirstClearIsClear, IdFacts DEF GetId, ThreadState
  <2>2. thr' = [thr EXCEPT ![t].pc = "create", ![t].id = thr'[t].id]
    BY <1>1, <1>4 DEF GetId, ThreadState
  <2>. QED
    BY <1>1, <1>4, <2>1, <2>2, SMTT(60)
    DEF GetId, ThreadState, memory, device, Positions, Threads
<1>5. ASSUME NEW t \in Threads, PutId(t)
      PROVE  TypeInv'
  BY <1>1, <1>5, IdFacts DEF PutId, ThreadState, memory, device, Positions, Threads
<1>6. CASE SetCurrentMode
  BY <1>1, <1>6 DEF SetCurrentMode, StartReplacing, ThreadState, ids, memory, device,
                    Positions, Threads
<1>7. CASE ReplaceSegment
  <2>1. failed' \in BOOLEAN
    BY <1>7, Zenon DEF ReplaceSegment
  <2>2. /\ segment' \in FrameMems \cup {NULL}
        /\ \/ thr' = [thr EXCEPT !["frame"].pc = "getid"]
           \/ thr' = [thr EXCEPT !["frame"] = Idle]
        /\ UNCHANGED <<ids, shape, pixels, ctrl, crsr, device>>
    BY <1>7, Zenon DEF ReplaceSegment
  <2>. QED
    BY <1>1, <2>1, <2>2 DEF Idle, ThreadState, ids, device, Positions, Threads
<1>8. CASE AttachFrame
  <2>1. thr["frame"].id \in Ids /\ thr["frame"].id # NULL /\ 0 # NULL
    BY <1>1, <1>8, IdFacts DEF AttachFrame, ThreadState, Threads
  <2>2. ctrl' \in Seq(CtrlCommand)
    <3>1. [cmd |-> "attach", id |-> thr["frame"].id, mem |-> segment, event |-> FALSE]
            \in CtrlCommand
      BY <2>1 DEF CtrlCommand, Mems
    <3>2. ctrl' = ctrl \/ Send("attach", thr["frame"].id, segment, FALSE)
      BY <1>8 DEF AttachFrame
    <3>3. ctrl \in Seq(CtrlCommand)
      OBVIOUS
    <3>4. PICK c \in CtrlCommand :
            c = [cmd |-> "attach", id |-> thr["frame"].id, mem |-> segment, event |-> FALSE]
      BY <3>1
    <3>5. ctrl' = ctrl \/ ctrl' = Append(ctrl, c)
      BY <3>2, <3>4, Zenon DEF Send
    <3>. QED
      BY <3>3, <3>5
  <2>3. PICK obj \in Ids :
          /\ thr' = [thr EXCEPT !["frame"].pc = "scanout", !["frame"].obj = obj]
          /\ obj # NULL
    BY <1>8, <2>1, IdFacts DEF AttachFrame
  <2>. QED
    BY <1>1, <1>8, <2>1, <2>2, <2>3
    DEF AttachFrame, ThreadState, ids, memory, device, Positions, Threads
<1>9. CASE Present
  BY <1>1, <1>9 DEF Present, ThreadState, ids, memory, device, Positions, Threads
<1>10. CASE ResFlush
  <2>1. thr["frame"].id \in Ids
    BY <1>1, <1>10 DEF ResFlush, ThreadState, Threads
  <2>2. ctrl' \in Seq(CtrlCommand)
    BY <1>10, <2>1 DEF ResFlush, Send, CtrlCommand
  <2>. QED
    BY <1>1, <1>10, <2>2
    DEF ResFlush, Idle, ThreadState, memory, device, Positions, Threads
<1>11. CASE SetPointerShape
  BY <1>1, <1>11, BoundAssumption
  DEF SetPointerShape, StartReplacing, ThreadState, ids, device, Positions, Threads
<1>12. CASE AttachCursor
  <2>1. thr["cursor"].id \in Ids /\ thr["cursor"].id # NULL
    BY <1>1, <1>12, IdFacts DEF AttachCursor, ThreadState, Threads
  <2>2. ctrl' \in Seq(CtrlCommand)
    <3>1. [cmd |-> "attach", id |-> thr["cursor"].id, mem |-> CursorMem, event |-> FALSE]
            \in CtrlCommand
      BY <2>1 DEF CtrlCommand, Mems
    <3>. QED
      BY <1>12, <3>1, SMTT(60) DEF AttachCursor, Send
  <2>3. \/ thr' = [thr EXCEPT !["cursor"].pc = "transfer"] /\ cursor' = thr["cursor"].id
        \/ thr' = [thr EXCEPT !["cursor"] = Idle]
    BY <1>12 DEF AttachCursor
  <2>4. cursor' \in Ids \cup {NULL}
    BY <1>12, <2>1 DEF AttachCursor
  <2>5. CASE thr' = [thr EXCEPT !["cursor"].pc = "transfer"] /\ cursor' = thr["cursor"].id
    BY <1>1, <1>12, <2>1, <2>2, <2>4, <2>5
    DEF AttachCursor, ThreadState, memory, device, Positions, Threads
  <2>6. CASE thr' = [thr EXCEPT !["cursor"] = Idle]
    BY <1>1, <1>12, <2>2, <2>4, <2>6
    DEF AttachCursor, Idle, ThreadState, memory, device, Positions, Threads
  <2>. QED
    BY <2>3, <2>5, <2>6
<1>13. CASE TransferCursor
  <2>1. thr["cursor"].id \in Ids
    BY <1>1, <1>13 DEF TransferCursor, ThreadState, Threads
  <2>2. ctrl' \in Seq(CtrlCommand)
    BY <1>13, <2>1 DEF TransferCursor, Send, CtrlCommand
  <2>. QED
    BY <1>1, <1>13, <2>2 DEF TransferCursor, ThreadState, ids, device, Positions, Threads
<1>14. CASE TransferWait
  BY <1>1, <1>14 DEF TransferWait, ThreadState, ids, memory, device, Positions, Threads
<1>15. CASE UpdateCursor
  <2>1. cursor \in Ids
    BY <1>15 DEF UpdateCursor
  <2>2. crsr' \in Seq(CrsrCommand)
    BY <1>15, <2>1 DEF UpdateCursor, CrsrCommand
  <2>. QED
    BY <1>1, <1>15, <2>2
    DEF UpdateCursor, Idle, ThreadState, ids, memory, device, Positions, Threads
<1>16. ASSUME NEW visible \in BOOLEAN, MoveCursor(visible)
       PROVE  TypeInv'
  <2>1. crsr' \in Seq(CrsrCommand)
    BY <1>16, IdFacts, BoundAssumption DEF MoveCursor, CrsrCommand
  <2>. QED
    BY <1>16, <2>1 DEF MoveCursor, ids, memory, device
<1>17. CASE HostCtrl
  <2>1. Head(ctrl) \in CtrlCommand /\ ctrl' \in Seq(CtrlCommand)
    BY <1>17 DEF HostCtrl
  <2>2. /\ DOMAIN host' \subseteq Ids /\ host' \in [DOMAIN host' -> Resource]
        /\ scanout' \in Ids
    <3>1. CASE ~Accepts(Head(ctrl))
      BY <1>17, <3>1 DEF HostCtrl, device
    <3>2. CASE Accepts(Head(ctrl))
      <4>. DEFINE c == Head(ctrl)
      <4>1. Execute(c) /\ Accepts(c) /\ c \in CtrlCommand
        BY <1>17, <2>1, <3>2 DEF HostCtrl
      <4>. HIDE DEF c
      <4>2. CASE c.cmd = "create"
        BY <4>1, <4>2, BoundAssumption DEF Execute, Resource, CtrlCommand
      <4>3. CASE c.cmd = "attach"
        <5>1. c.id \in DOMAIN host /\ c.mem \in Mems \cup {NULL}
          BY <4>1, <4>3 DEF Accepts, CtrlCommand
        <5>2. host' = [host EXCEPT ![c.id].mem = c.mem] /\ scanout' = scanout
          BY <4>1, <4>3 DEF Execute
        <5>3. [host[c.id] EXCEPT !.mem = c.mem] \in Resource
          BY <5>1, ZenonT(60) DEF Resource
        <5>. QED
          BY <5>1, <5>2, <5>3
      <4>4. CASE c.cmd = "detach"
        <5>1. c.id \in DOMAIN host
          BY <4>1, <4>4 DEF Accepts
        <5>2. host' = [host EXCEPT ![c.id].mem = NULL] /\ scanout' = scanout
          BY <4>1, <4>4 DEF Execute
        <5>3. [host[c.id] EXCEPT !.mem = NULL] \in Resource
          BY <5>1, ZenonT(60) DEF Resource
        <5>. QED
          BY <5>1, <5>2, <5>3
      <4>5. CASE c.cmd = "transfer"
        BY <4>1, <4>5, BoundAssumption, SMTT(60) DEF Execute, Accepts, Resource, CtrlCommand
      <4>6. CASE c.cmd = "unref"
        BY <4>1, <4>6, IdFacts DEF Execute, Accepts, Resource, CtrlCommand
      <4>7. CASE c.cmd \in {"scanout", "flush"}
        BY <4>1, <4>7 DEF Execute, Accepts, Resource, CtrlCommand
      <4>. QED
        BY <4>1, <4>2, <4>3, <4>4, <4>5, <4>6, <4>7 DEF CtrlCommand
    <3>. QED
      BY <3>1, <3>2
  <2>. QED
    BY <1>17, <2>1, <2>2 DEF HostCtrl, ids, memory
<1>18. CASE HostCrsr
  BY <1>18 DEF HostCrsr, ids, memory, device
<1>19. CASE UNCHANGED vars
  BY <1>19 DEF vars
<1>. QED
  BY <1>2, <1>3, <1>4, <1>5, <1>6, <1>7, <1>8, <1>9, <1>10, <1>11, <1>12, <1>13,
     <1>14, <1>15, <1>16, <1>17, <1>18, <1>19
  DEF Next, Destroy, Create, Frame, Cursor, Host

\* Type correctness, whatever fails: in particular no command ever names the null
\* object, whichever thread posts it and however the other one interferes.
THEOREM TypeCorrect == Spec => []TypeOK
<1>1. Init => TypeInv
  BY InitType
<1>2. TypeInv /\ [Next]_vars => TypeInv'
  BY NextType
<1>3. TypeInv => TypeOK
  BY DEF TypeInv
<1>. QED
  BY <1>1, <1>2, <1>3, PTL DEF Spec

-----------------------------------------------------------------------------
(* Ids                                                                     *)

\* How thread t and the object it replaces pass an id to each other.
Handover(t) ==
    /\ thr[t].pc \in {"detach", "unref", "putid"} => thr[t].id = Obj(t)
    /\ thr[t].pc \in {"segment", "getid", "create", "attach"} => Obj(t) = NULL
    /\ thr[t].pc \in {"idle", "segment", "getid"} => thr[t].id = NULL
    /\ thr[t].pc \in {"scanout", "transfer", "flush", "wait", "update"}
          => Obj(t) \in {NULL, thr[t].id}

IdInv ==
    /\ TypeInv
    /\ \A t \in Threads : Handover(t) /\ HeldBy(t) \subseteq StartIndex..MaxId
    /\ thr["frame"].pc \in {"scanout", "transfer", "flush"} =>
          thr["frame"].obj = thr["frame"].id
    /\ BitmapMatches

LEMMA InitIds == Init => IdInv
BY InitType, IdFacts
DEF Init, IdInv, Handover, Obj, HeldBy, BitmapMatches, Idle, Threads

\* A step that leaves to each thread the ids it has, and the bitmap alone, is
\* right if it respects the handover.
LEMMA SameHolders ==
    ASSUME IdInv, TypeInv', used' = used,
           \A t \in Threads : HeldBy(t)' = HeldBy(t) /\ Handover(t)',
           thr'["frame"].pc \in {"scanout", "transfer", "flush"} =>
             thr'["frame"].obj = thr'["frame"].id
    PROVE  IdInv'
<1>1. HeldBy("frame")' = HeldBy("frame") /\ HeldBy("cursor")' = HeldBy("cursor")
  BY DEF Threads
<1>2. BitmapMatches'
  BY <1>1 DEF IdInv, BitmapMatches
<1>. QED
  BY <1>1, <1>2 DEF IdInv, Threads

\* Posting a command moves no id.
LEMMA PostIds ==
    ASSUME IdInv, TypeInv', NEW t \in Threads, NEW cmd, NEW next, Post(t, cmd, next),
           <<cmd, next>> \in {<<"detach", "unref">>, <<"unref", "putid">>,
                              <<"create", "attach">>, <<"scanout", "transfer">>,
                              <<"transfer", "flush">>}
    PROVE  IdInv'
<1>1. thr' = [thr EXCEPT ![t].pc = next] /\ thr[t].pc = cmd
      /\ UNCHANGED <<used, frame, cursor>>
  BY DEF Post, ids
<1>2. thr \in [Threads -> ThreadState]
  BY DEF IdInv, TypeInv, TypeOK, ThreadState
<1>3. \A u \in Threads : thr'[u].id = thr[u].id /\ thr'[u].obj = thr[u].obj
                       /\ Obj(u)' = Obj(u)
  BY <1>1, <1>2 DEF ThreadState, Obj
<1>4. \A u \in Threads : HeldBy(u)' = HeldBy(u)
  BY <1>1, <1>3 DEF HeldBy
<1>5. \A u \in Threads : Handover(u)'
  BY <1>1, <1>2, <1>3 DEF Handover, IdInv, ThreadState
<1>6. thr'["frame"].pc \in {"scanout", "transfer", "flush"} =>
        thr'["frame"].obj = thr'["frame"].id
  BY <1>1, <1>2, <1>3 DEF IdInv, ThreadState, Threads
<1>. QED
  BY <1>1, <1>4, <1>5, <1>6, SameHolders

\* With room for two ids, a thread that holds none finds a clear bit.
LEMMA RoomForTwo ==
    ASSUME IdInv, NEW t \in Threads, thr[t].pc = "getid"
    PROVE  /\ Clear # {}
           /\ FirstClear \in (StartIndex..MaxId) \ used
           /\ HeldBy(t) = {}
<1>1. HeldBy(t) = {}
  BY DEF IdInv, Handover, HeldBy, Obj
<1>2. \E x \in 0..MaxId : used \subseteq {0, x} /\ 0 \in used
  <2>1. \A u \in Threads : \E x \in 0..MaxId : HeldBy(u) \subseteq {x}
    <3>. SUFFICES ASSUME NEW u \in Threads
                  PROVE  \E x \in 0..MaxId : HeldBy(u) \subseteq {x}
      OBVIOUS
    <3>1. thr[u].id = NULL \/ Obj(u) = NULL \/ thr[u].id = Obj(u)
      BY DEF IdInv, Handover, TypeInv, TypeOK, Positions
    <3>2. HeldBy(u) = {thr[u].id, Obj(u)} \ {NULL}
      BY DEF HeldBy, Obj
    <3>3. HeldBy(u) \subseteq 0..MaxId /\ 0 \in 0..MaxId
      BY IdAssumption DEF IdInv, StartIndex
    <3>4. CASE HeldBy(u) = {}
      BY <3>3, <3>4
    <3>5. CASE HeldBy(u) # {}
      BY <3>1, <3>2, <3>3, <3>5
    <3>. QED
      BY <3>4, <3>5
  <2>2. used = 0..0 \cup HeldBy("frame") \cup HeldBy("cursor")
    BY DEF IdInv, BitmapMatches, StartIndex
  <2>3. t = "frame" \/ t = "cursor"
    BY DEF Threads
  <2>4. used = {0} \cup HeldBy("cursor") \/ used = {0} \cup HeldBy("frame")
    BY <1>1, <2>2, <2>3
  <2>. QED
    BY <2>1, <2>4 DEF Threads
<1>3. 1 \in Clear \/ 2 \in Clear
  BY <1>2, IdAssumption DEF Clear
<1>4. Clear # {} /\ FirstClear \in Clear
  BY <1>3, FirstClearIsClear
<1>. QED
  BY <1>1, <1>2, <1>4 DEF Clear, StartIndex

\* A failure is not forgotten.
LEMMA FailedStays ==
    ASSUME [Next]_vars, failed
    PROVE  failed'
BY DEF Next, Destroy, Create, Frame, Cursor, Host, InvalBacking, UnrefResource, PutId,
       GetId, CreateResource, SetCurrentMode, ReplaceSegment, AttachFrame, SetScanout,
       Present, TransferFrame, ResFlush, SetPointerShape, AttachCursor, TransferCursor,
       TransferWait, UpdateCursor, MoveCursor, HostCtrl, HostCrsr, Post, memory, vars

LEMMA NextIds ==
    ASSUME IdInv, [Next]_vars, ~failed'
    PROVE  IdInv'
<1>1. TypeInv'
  BY NextType DEF IdInv
<1>2. thr \in [Threads -> ThreadState]
  BY DEF IdInv, TypeInv, TypeOK, ThreadState
<1>3. ASSUME NEW t \in Threads, InvalBacking(t) \/ UnrefResource(t) \/ CreateResource(t)
      PROVE  IdInv'
  BY <1>1, <1>3, PostIds DEF InvalBacking, UnrefResource, CreateResource
<1>4. CASE SetScanout \/ TransferFrame
  BY <1>1, <1>4, PostIds DEF SetScanout, TransferFrame, Threads
<1>5. ASSUME NEW t \in Threads, GetId(t)
      PROVE  IdInv'
  <2>1. /\ FirstClear \in (StartIndex..MaxId) \ used
        /\ HeldBy(t) = {} /\ Clear # {} /\ Obj(t) = NULL
    BY <1>5, RoomForTwo DEF GetId, IdInv, Handover
  <2>2. /\ used' = used \cup {FirstClear}
        /\ thr' = [thr EXCEPT ![t].pc = "create", ![t].id = FirstClear]
        /\ UNCHANGED <<frame, cursor>>
    BY <1>5, <2>1 DEF GetId
  <2>3. \A u \in Threads : Obj(u)' = Obj(u)
    BY <2>2 DEF Obj
  <2>4. FirstClear # NULL
    BY <2>1, IdFacts DEF StartIndex
  <2>5. HeldBy(t)' = {FirstClear}
    BY <1>2, <2>1, <2>2, <2>3, <2>4 DEF HeldBy, Obj, ThreadState
  <2>6. \A u \in Threads \ {t} : HeldBy(u)' = HeldBy(u) /\ thr'[u] = thr[u]
    BY <1>2, <2>2, <2>3 DEF HeldBy, Obj, ThreadState
  <2>7. \A u \in Threads : Handover(u)'
    BY <1>2, <2>1, <2>2, <2>3, <2>6 DEF Handover, IdInv, ThreadState
  <2>8. BitmapMatches'
    <3>1. FirstClear \notin HeldBy("frame") \cup HeldBy("cursor")
      BY <2>1 DEF IdInv, BitmapMatches
    <3>2. CASE t = "frame"
      BY <2>1, <2>2, <2>5, <2>6, <3>1, <3>2 DEF IdInv, BitmapMatches, Threads
    <3>3. CASE t = "cursor"
      BY <2>1, <2>2, <2>5, <2>6, <3>1, <3>3 DEF IdInv, BitmapMatches, Threads
    <3>. QED
      BY <3>2, <3>3 DEF Threads
  <2>9. thr'["frame"].pc \in {"scanout", "transfer", "flush"} =>
          thr'["frame"].obj = thr'["frame"].id
    BY <1>2, <2>2 DEF IdInv, ThreadState, Threads
  <2>. QED
    BY <1>1, <2>1, <2>5, <2>6, <2>7, <2>8, <2>9 DEF IdInv
<1>6. ASSUME NEW t \in Threads, PutId(t)
      PROVE  IdInv'
  <2>1. thr[t].id = Obj(t) /\ thr[t].id # NULL /\ thr[t].pc = "putid"
    BY <1>6 DEF PutId, IdInv, Handover, TypeInv, IdKnown
  <2>2. HeldBy(t) = {thr[t].id}
    BY <2>1 DEF HeldBy, Obj
  <2>3. Obj(t)' = NULL /\ \A u \in Threads \ {t} : Obj(u)' = Obj(u)
    BY <1>6 DEF PutId, Obj, Threads
  <2>4. /\ thr' = [thr EXCEPT ![t].pc = IF t = "frame" THEN "segment" ELSE "getid",
                             ![t].id = NULL]
        /\ used' = used \ HeldBy(t)
    BY <1>6, <2>2 DEF PutId
  <2>5. HeldBy(t)' = {}
    BY <1>2, <2>3, <2>4 DEF HeldBy, Obj, ThreadState
  <2>6. \A u \in Threads \ {t} : HeldBy(u)' = HeldBy(u) /\ thr'[u] = thr[u]
    BY <1>2, <2>3, <2>4 DEF HeldBy, Obj, ThreadState
  <2>7. \A u \in Threads : Handover(u)'
    BY <1>2, <2>3, <2>4, <2>6 DEF Handover, IdInv, ThreadState
  <2>8. BitmapMatches'
    <3>1. HeldBy(t) \subseteq StartIndex..MaxId
      BY DEF IdInv
    <3>2. (0..(StartIndex - 1)) \cap HeldBy(t) = {}
      BY <3>1 DEF StartIndex
    <3>3. CASE t = "frame"
      BY <2>4, <2>5, <2>6, <3>2, <3>3 DEF IdInv, BitmapMatches, Threads
    <3>4. CASE t = "cursor"
      BY <2>4, <2>5, <2>6, <3>2, <3>4 DEF IdInv, BitmapMatches, Threads
    <3>. QED
      BY <3>3, <3>4 DEF Threads
  <2>9. thr'["frame"].pc \in {"scanout", "transfer", "flush"} =>
          thr'["frame"].obj = thr'["frame"].id
    BY <1>2, <2>4 DEF IdInv, ThreadState, Threads
  <2>. QED
    BY <1>1, <2>5, <2>6, <2>7, <2>8, <2>9 DEF IdInv
<1>7. CASE SetCurrentMode
  <2>1. /\ \A u \in Threads : HeldBy(u)' = HeldBy(u) /\ Handover(u)'
        /\ thr'["frame"].pc \notin {"scanout", "transfer", "flush"}
    BY <1>2, <1>7 DEF SetCurrentMode, StartReplacing, IdInv, Handover, HeldBy, Obj,
                      ThreadState, ids, Threads
  <2>. QED
    BY <1>1, <1>7, <2>1, SameHolders DEF SetCurrentMode, ids
<1>8. CASE ReplaceSegment
  <2>1. /\ \A u \in Threads : HeldBy(u)' = HeldBy(u) /\ Handover(u)'
        /\ thr'["frame"].pc \notin {"scanout", "transfer", "flush"}
    BY <1>2, <1>8 DEF ReplaceSegment, IdInv, Handover, HeldBy, Obj, ThreadState, ids, Threads
  <2>. QED
    BY <1>1, <1>8, <2>1, SameHolders DEF ReplaceSegment, ids
<1>9. CASE AttachFrame
  <2>1. thr' = [thr EXCEPT !["frame"].pc = "scanout", !["frame"].obj = thr["frame"].id]
        /\ thr["frame"].pc = "attach"
        /\ UNCHANGED <<used, frame, cursor>>
    BY <1>9 DEF AttachFrame, ids
  <2>2. /\ thr'["frame"].id = thr["frame"].id /\ thr'["frame"].obj = thr["frame"].id
        /\ thr'["frame"].pc = "scanout" /\ thr'["cursor"] = thr["cursor"]
    BY <1>2, <2>1 DEF ThreadState, Threads
  <2>3. \A u \in Threads : HeldBy(u)' = HeldBy(u)
    BY <2>1, <2>2 DEF HeldBy, Threads
  <2>4. \A u \in Threads : Handover(u)'
    BY <2>1, <2>2, ZenonT(60) DEF IdInv, Handover, Obj, Threads
  <2>. QED
    BY <1>1, <2>1, <2>2, <2>3, <2>4, SameHolders
<1>10. CASE Present
  <2>1. /\ \A u \in Threads : HeldBy(u)' = HeldBy(u) /\ Handover(u)'
        /\ thr'["frame"].obj = thr'["frame"].id
    BY <1>2, <1>10 DEF Present, IdInv, Handover, HeldBy, Obj, ThreadState, ids, Threads
  <2>. QED
    BY <1>1, <1>10, <2>1, SameHolders DEF Present, ids
<1>11. CASE ResFlush
  <2>1. /\ \A u \in Threads : HeldBy(u)' = HeldBy(u) /\ Handover(u)'
        /\ thr'["frame"].pc \notin {"scanout", "transfer", "flush"}
    BY <1>2, <1>11 DEF ResFlush, Idle, IdInv, Handover, HeldBy, Obj, ThreadState, Threads
  <2>. QED
    BY <1>1, <1>11, <2>1, SameHolders DEF ResFlush
<1>12. CASE SetPointerShape
  <2>1. /\ \A u \in Threads : HeldBy(u)' = HeldBy(u) /\ Handover(u)'
        /\ thr'["frame"] = thr["frame"]
    BY <1>2, <1>12 DEF SetPointerShape, StartReplacing, IdInv, Handover, HeldBy, Obj,
                       ThreadState, ids, Threads
  <2>. QED
    BY <1>1, <1>12, <2>1, SameHolders DEF SetPointerShape, ids, IdInv
<1>13. CASE AttachCursor
  <2>1. /\ thr'["frame"] = thr["frame"] /\ UNCHANGED <<used, frame>>
        /\ thr["cursor"].pc = "attach" /\ cursor = NULL
        /\ cursor' = thr["cursor"].id
        /\ \/ thr'["cursor"].id = thr["cursor"].id /\ thr'["cursor"].pc = "transfer"
           \/ thr'["cursor"].id = NULL /\ thr'["cursor"].pc = "idle"
    <3>1. /\ \/ thr' = [thr EXCEPT !["cursor"].pc = "transfer"]
             \/ thr' = [thr EXCEPT !["cursor"] = Idle]
          /\ UNCHANGED <<used, frame>>
          /\ thr["cursor"].pc = "attach" /\ cursor' = thr["cursor"].id
      BY <1>13 DEF AttachCursor
    <3>2. cursor = NULL
      BY <3>1 DEF IdInv, Handover, Obj, Threads
    <3>3. CASE thr' = [thr EXCEPT !["cursor"].pc = "transfer"]
      BY <1>2, <3>1, <3>2, <3>3 DEF ThreadState, Threads
    <3>4. CASE thr' = [thr EXCEPT !["cursor"] = Idle]
      BY <1>2, <3>1, <3>2, <3>4 DEF Idle, ThreadState, Threads
    <3>. QED
      BY <3>1, <3>3, <3>4
  <2>2. \A u \in Threads : HeldBy(u)' = HeldBy(u)
    BY <2>1 DEF HeldBy, Threads
  <2>3. \A u \in Threads : Handover(u)'
    BY <2>1 DEF IdInv, Handover, Obj, Threads
  <2>. QED
    BY <1>1, <2>1, <2>2, <2>3, SameHolders DEF IdInv
<1>14. CASE TransferCursor \/ TransferWait
  <2>1. /\ thr'["frame"] = thr["frame"] /\ UNCHANGED <<used, frame, cursor>>
        /\ thr'["cursor"].id = thr["cursor"].id
        /\ thr["cursor"].pc \in {"transfer", "wait"}
        /\ thr'["cursor"].pc \in {"wait", "update"}
    <3>1. thr' = [thr EXCEPT !["cursor"].pc = "wait"] \/ thr' = [thr EXCEPT !["cursor"].pc = "update"]
      BY <1>14, Zenon DEF TransferCursor, TransferWait
    <3>2. UNCHANGED <<used, frame, cursor>> /\ thr["cursor"].pc \in {"transfer", "wait"}
      BY <1>14, Zenon DEF TransferCursor, TransferWait, ids
    <3>. QED
      BY <1>2, <3>1, <3>2 DEF ThreadState, Threads
  <2>2. \A u \in Threads : HeldBy(u)' = HeldBy(u)
    BY <2>1 DEF HeldBy, Threads
  <2>3. \A u \in Threads : Handover(u)'
    BY <2>1 DEF IdInv, Handover, Obj, Threads
  <2>. QED
    BY <1>1, <2>1, <2>2, <2>3, SameHolders DEF IdInv
<1>15. CASE UpdateCursor
  <2>1. cursor # NULL /\ cursor = thr["cursor"].id
    BY <1>15 DEF UpdateCursor, IdInv, TypeInv, IdKnown, Handover, Obj, Threads
  <2>2. /\ \A u \in Threads : HeldBy(u)' = HeldBy(u) /\ Handover(u)'
        /\ thr'["frame"] = thr["frame"]
    BY <1>2, <1>15, <2>1 DEF UpdateCursor, Idle, IdInv, Handover, HeldBy, Obj,
                             ThreadState, ids, Threads
  <2>. QED
    BY <1>1, <1>15, <2>2, SameHolders DEF UpdateCursor, ids, IdInv
<1>16. CASE (\E visible \in BOOLEAN : MoveCursor(visible)) \/ Host \/ UNCHANGED vars
  <2>1. UNCHANGED <<used, frame, cursor, thr>>
    BY <1>16 DEF MoveCursor, Host, HostCtrl, HostCrsr, ids, vars
  <2>2. \A u \in Threads : HeldBy(u)' = HeldBy(u) /\ Handover(u)'
    BY <2>1 DEF IdInv, Handover, HeldBy, Obj
  <2>. QED
    BY <1>1, <2>1, <2>2, SameHolders DEF IdInv
<1>. QED
  BY <1>3, <1>4, <1>5, <1>6, <1>7, <1>8, <1>9, <1>10, <1>11, <1>12, <1>13, <1>14,
     <1>15, <1>16
  DEF Next, Destroy, Create, Frame, Cursor

\* Until an allocation fails, the bitmap of VioGpuIdr marks exactly the ids that are
\* held, and no id is held twice, for any interleaving of the two threads.
THEOREM IdsCorrect == Spec => []IdsAccounted
<1>. DEFINE Inv == TypeInv /\ (~failed => IdInv)
<1>1. Init => Inv
  BY InitType, InitIds
<1>2. Inv /\ [Next]_vars => Inv'
  BY NextType, NextIds, FailedStays
<1>3. Inv => IdsAccounted
  BY DEF IdInv, IdsAccounted
<1>. QED
  BY <1>1, <1>2, <1>3, PTL DEF Spec

\* Nor does PutId see an id below the first until then.  (When attaching memory to a
\* frame buffer fails, the object keeps the id 0, and PutId does see it.)
THEOREM PutIdCorrect == Spec => []PutIdUnlessFailed
<1>. DEFINE Inv == TypeInv /\ (~failed => IdInv)
<1>1. Init => Inv
  BY InitType, InitIds
<1>2. Inv /\ [Next]_vars => Inv'
  BY NextType, NextIds, FailedStays
<1>3. Inv => PutIdUnlessFailed
  <2>. SUFFICES ASSUME IdInv, NEW t \in Threads, thr[t].pc = "putid"
                PROVE  thr[t].id >= StartIndex
    BY DEF PutIdInRange, PutIdUnlessFailed
  <2>1. thr[t].id \in HeldBy(t)
    BY DEF IdInv, TypeInv, IdKnown, HeldBy
  <2>. QED
    BY <2>1, IdAssumption DEF IdInv, StartIndex
<1>. QED
  BY <1>1, <1>2, <1>3, PTL DEF Spec

-----------------------------------------------------------------------------
(***************************************************************************)
(* Driver and host, until an allocation fails.                             *)
(*                                                                         *)
(* The positions of the two threads and the ids they hold say what the     *)
(* host has once it executed all that is posted (Belief).  The inductive   *)
(* invariant is that the control queue leads there: there are states, from *)
(* the one the host is in to the one the driver believes in, such that the *)
(* host accepts each command in the state before it and goes to the state  *)
(* after it (Leads).  Posting a command appends a state, executing one     *)
(* drops the first, and neither thread can spoil what the other believes   *)
(* as long as they hold different ids (IdInv).                             *)
(***************************************************************************)

-----------------------------------------------------------------------------
(* The host's state as the control commands see it: for each id {} if there *)
(* is no such resource, else the set with its memory (or NULL).             *)

\* What the host has: the memory of each resource, and the one it shows.
State == [mem : [Ids -> SUBSET (Mems \cup {NULL})], shown : Ids]

\* The host as it is.
HostState ==
    [mem |-> [id \in Ids |-> IF id \in DOMAIN host THEN {host[id].mem} ELSE {}],
     shown |-> scanout]

\* Is the command accepted in state s?  A transfer that is waited for reads the
\* memory of the pointer.
Fits(s, c) ==
    /\ c.cmd = "create" => c.id # 0 /\ s.mem[c.id] = {}
    /\ c.cmd = "attach" => s.mem[c.id] = {NULL}
    /\ c.cmd = "transfer" => s.mem[c.id] \notin {{}, {NULL}}
    /\ c.cmd \in {"scanout", "flush", "detach", "unref"} => s.mem[c.id] # {}
    /\ c.event => s.mem[c.id] = {CursorMem}

\* The memory a resource has after a command.
Memory(s, c) ==
    CASE c.cmd \in {"create", "detach"} -> {NULL}
      [] c.cmd = "attach" -> {c.mem}
      [] c.cmd = "unref" -> {}
      [] OTHER -> s.mem[c.id]

\* The host after a command.
After(s, c) ==
    [mem |-> [s.mem EXCEPT ![c.id] = Memory(s, c)],
     shown |-> CASE c.cmd = "scanout" -> c.id
                 [] c.cmd = "unref" /\ s.shown = c.id -> 0
                 [] OTHER -> s.shown]

\* The commands of queue q are accepted one after the other and lead from s to z.
Leads(q, s, z) ==
    \E st \in [1..(Len(q) + 1) -> State] :
        /\ st[1] = s /\ st[Len(q) + 1] = z
        /\ \A i \in 1..Len(q) : Fits(st[i], q[i]) /\ st[i + 1] = After(st[i], q[i])

-----------------------------------------------------------------------------
(* What the driver believes                                                *)

\* The memory of the resource that thread t holds, if it holds one.
Believed(t) ==
    CASE thr[t].pc \in {"unref", "attach"} -> {NULL}
      [] thr[t].pc \in {"putid", "create"} -> {}
      [] OTHER -> {IF t = "frame" THEN segment ELSE CursorMem}

\* The memory the driver takes a resource to have.
BelievedOf(id) ==
    IF id \in HeldBy("frame") THEN Believed("frame")
    ELSE IF id \in HeldBy("cursor") THEN Believed("cursor") ELSE {}

\* The resource the driver takes to be shown.
BelievedShown ==
    CASE thr["frame"].pc \in {"putid", "segment", "getid", "create", "attach", "scanout"} -> 0
      [] thr["frame"].pc \in {"transfer", "flush"} -> thr["frame"].id
      [] OTHER -> IF frame = NULL THEN 0 ELSE frame

\* The host as the driver believes it to be.
Belief == [mem |-> [id \in Ids |-> BelievedOf(id)], shown |-> BelievedShown]

\* The frame buffer has memory from the moment an id is taken for it.
SegmentKnown ==
    frame # NULL \/ thr["frame"].pc \in {"getid", "create", "attach", "scanout",
                                         "transfer", "flush"} => segment # NULL

\* The commands on their way lead the host to what the driver believes.
HostInv == IdInv /\ SegmentKnown /\ Leads(ctrl, HostState, Belief)

-----------------------------------------------------------------------------
(* Queues of commands                                                      *)

\* A command leads from a host state to a host state.
LEMMA AfterType ==
    ASSUME NEW s \in State, NEW c \in CtrlCommand
    PROVE  After(s, c) \in State
<1>1. Memory(s, c) \in SUBSET (Mems \cup {NULL})
  BY DEF Memory, State, CtrlCommand
<1>2. (CASE c.cmd = "scanout" -> c.id
         [] c.cmd = "unref" /\ s.shown = c.id -> 0
         [] OTHER -> s.shown) \in Ids
  BY IdFacts DEF State, CtrlCommand
<1>. QED
  BY <1>1, <1>2 DEF After, State

\* An empty queue leads nowhere else.
LEMMA LeadsNowhere ==
    ASSUME NEW s \in State, NEW z
    PROVE  Leads(<<>>, s, z) <=> z = s
<1>1. Leads(<<>>, s, z) => z = s
  BY DEF Leads
<1>2. Leads(<<>>, s, s)
  <2>. DEFINE st == [i \in 1..1 |-> s]
  <2>1. /\ st \in [1..(Len(<<>>) + 1) -> State] /\ st[1] = s /\ st[Len(<<>>) + 1] = s
        /\ 1..Len(<<>>) = {}
    OBVIOUS
  <2>. HIDE DEF st
  <2>. QED
    BY <2>1 DEF Leads
<1>. QED
  BY <1>1, <1>2

\* A command that is accepted in the last state can be appended.
LEMMA LeadsAppend ==
    ASSUME NEW q \in Seq(CtrlCommand), NEW s, NEW z \in State, NEW c \in CtrlCommand,
           Leads(q, s, z), Fits(z, c)
    PROVE  Leads(Append(q, c), s, After(z, c))
<1>1. PICK st \in [1..(Len(q) + 1) -> State] :
        /\ st[1] = s /\ st[Len(q) + 1] = z
        /\ \A i \in 1..Len(q) : Fits(st[i], q[i]) /\ st[i + 1] = After(st[i], q[i])
  BY DEF Leads
<1>. DEFINE n == Len(q)
            r == Append(q, c)
            ft == [i \in 1..(n + 2) |-> IF i <= n + 1 THEN st[i] ELSE After(z, c)]
<1>2. n \in Nat /\ Len(r) = n + 1 /\ r[n + 1] = c /\ \A i \in 1..n : r[i] = q[i]
  OBVIOUS
<1>3. /\ ft \in [1..(Len(r) + 1) -> State]
      /\ ft[1] = s /\ ft[Len(r) + 1] = After(z, c)
  BY <1>1, <1>2, AfterType
<1>4. ASSUME NEW i \in 1..Len(r)
      PROVE  Fits(ft[i], r[i]) /\ ft[i + 1] = After(ft[i], r[i])
  <2>1. CASE i \in 1..n
    <3>1. ft[i] = st[i] /\ ft[i + 1] = st[i + 1] /\ r[i] = q[i]
      BY <1>2, <2>1
    <3>. QED
      BY <1>1, <2>1, <3>1
  <2>2. CASE i = n + 1
    <3>1. ft[i] = z /\ ft[i + 1] = After(z, c) /\ r[i] = c
      BY <1>1, <1>2, <2>2
    <3>. QED
      BY <3>1
  <2>. QED
    BY <1>2, <2>1, <2>2
<1>. HIDE DEF ft
<1>. QED
  BY <1>3, <1>4 DEF Leads

\* The first command is accepted in the first state, and the others lead on from
\* the state after it.
LEMMA LeadsTail ==
    ASSUME NEW q \in Seq(CtrlCommand), q # <<>>, NEW s, NEW z, Leads(q, s, z)
    PROVE  Fits(s, Head(q)) /\ Leads(Tail(q), After(s, Head(q)), z)
<1>1. PICK st \in [1..(Len(q) + 1) -> State] :
        /\ st[1] = s /\ st[Len(q) + 1] = z
        /\ \A i \in 1..Len(q) : Fits(st[i], q[i]) /\ st[i + 1] = After(st[i], q[i])
  BY DEF Leads
<1>. DEFINE n == Len(q)
            r == Tail(q)
            ft == [i \in 1..n |-> st[i + 1]]
<1>2. /\ n \in Nat /\ n >= 1 /\ Len(r) = n - 1 /\ Head(q) = q[1]
      /\ \A i \in 1..(n - 1) : r[i] = q[i + 1]
  OBVIOUS
<1>3. Fits(s, Head(q)) /\ st[2] = After(s, Head(q))
  BY <1>1, <1>2
<1>4. /\ ft \in [1..(Len(r) + 1) -> State]
      /\ ft[1] = After(s, Head(q)) /\ ft[Len(r) + 1] = z
  BY <1>1, <1>2, <1>3
<1>5. ASSUME NEW i \in 1..Len(r)
      PROVE  Fits(ft[i], r[i]) /\ ft[i + 1] = After(ft[i], r[i])
  <2>1. /\ ft[i] = st[i + 1] /\ ft[i + 1] = st[(i + 1) + 1] /\ r[i] = q[i + 1]
        /\ i + 1 \in 1..n
    BY <1>2
  <2>. QED
    BY <1>1, <2>1
<1>. HIDE DEF ft
<1>. QED
  BY <1>3, <1>4, <1>5 DEF Leads

-----------------------------------------------------------------------------
(* The types of what the driver believes                                   *)

\* The host is a host state.
LEMMA HostStateType ==
    ASSUME TypeOK
    PROVE  HostState \in State
<1>1. \A id \in Ids : id \in DOMAIN host => host[id].mem \in Mems \cup {NULL}
  BY DEF TypeOK, Resource
<1>. QED
  BY <1>1 DEF TypeOK, HostState, State

\* The driver's belief is a host state.
LEMMA BeliefType ==
    ASSUME IdInv
    PROVE  Belief \in State
<1>1. \A t \in Threads : Believed(t) \in SUBSET (Mems \cup {NULL})
  BY DEF IdInv, TypeInv, TypeOK, Believed, Mems
<1>2. \A id \in Ids : BelievedOf(id) \in SUBSET (Mems \cup {NULL})
  BY <1>1 DEF BelievedOf, Threads
<1>3. BelievedShown \in Ids
  <2>1. thr["frame"] \in ThreadState /\ frame \in Ids \cup {NULL}
    BY DEF IdInv, TypeInv, TypeOK, ThreadState, Threads
  <2>2. thr["frame"].pc \in {"transfer", "flush"} => thr["frame"].id # NULL
    BY DEF IdInv, TypeInv, IdKnown, Threads
  <2>. QED
    BY <2>1, <2>2, IdFacts DEF BelievedShown, ThreadState
<1>. QED
  BY <1>2, <1>3 DEF Belief, State

\* What is believed of an id by the thread that holds it, and of one that no
\* thread holds.
LEMMA HolderBelieves ==
    ASSUME IdInv, NEW t \in Threads, NEW id \in HeldBy(t)
    PROVE  BelievedOf(id) = Believed(t)
BY DEF IdInv, BitmapMatches, BelievedOf, Threads

\* A step of thread t that leaves the other thread's ids and what it believes of
\* them alone changes the belief at most for the ids of t.
LEMMA OthersUndisturbed ==
    ASSUME IdInv, IdInv', NEW t \in Threads, NEW u \in Threads \ {t},
           HeldBy(u)' = HeldBy(u), HeldBy(u) # {} => Believed(u)' = Believed(u)
    PROVE  \A id \in Ids : id \notin HeldBy(t) \cup HeldBy(t)' =>
              BelievedOf(id)' = BelievedOf(id)
<1>1. (t = "frame" /\ u = "cursor") \/ (t = "cursor" /\ u = "frame")
  BY DEF Threads
<1>. QED
  BY <1>1 DEF BelievedOf

\* A step after which each id of t is believed to be what it was before it.
LEMMA SameBelief ==
    ASSUME IdInv, IdInv', NEW t \in Threads, NEW u \in Threads \ {t},
           HeldBy(u)' = HeldBy(u), HeldBy(u) # {} => Believed(u)' = Believed(u),
           \A id \in HeldBy(t) \cup HeldBy(t)' : BelievedOf(id)' = BelievedOf(id),
           BelievedShown' = BelievedShown
    PROVE  Belief' = Belief
<1>1. \A id \in Ids : BelievedOf(id)' = BelievedOf(id)
  BY OthersUndisturbed
<1>. QED
  BY <1>1 DEF Belief

\* A step after which the one id of t is believed to be what command c makes of it.
LEMMA CommandBelief ==
    ASSUME IdInv, IdInv', NEW t \in Threads, NEW u \in Threads \ {t},
           HeldBy(u)' = HeldBy(u), HeldBy(u) # {} => Believed(u)' = Believed(u),
           NEW c \in CtrlCommand, HeldBy(t) = {c.id}, HeldBy(t)' = {c.id},
           Believed(t)' = Memory(Belief, c), BelievedShown' = After(Belief, c).shown
    PROVE  Belief' = After(Belief, c)
<1>1. c.id \in Ids
  BY DEF CtrlCommand
<1>2. BelievedOf(c.id)' = Believed(t)'
  BY DEF IdInv, BitmapMatches, BelievedOf, Threads
<1>3. \A id \in Ids \ {c.id} : BelievedOf(id)' = BelievedOf(id)
  BY OthersUndisturbed
<1>4. [id \in Ids |-> BelievedOf(id)'] =
        [[id \in Ids |-> BelievedOf(id)] EXCEPT ![c.id] = Memory(Belief, c)]
  BY <1>1, <1>2, <1>3
<1>5. Belief.mem = [id \in Ids |-> BelievedOf(id)] /\ Belief'.mem = [id \in Ids |-> BelievedOf(id)']
  BY DEF Belief
<1>6. Belief'.mem = After(Belief, c).mem /\ Belief'.shown = After(Belief, c).shown
  BY <1>4, <1>5 DEF After, Belief
<1>. QED
  BY <1>6 DEF Belief, After

-----------------------------------------------------------------------------
(* Steps of the driver                                                     *)

\* A thread that is past taking an id holds one; before that it holds none.
LEMMA Holds ==
    ASSUME IdInv, NEW t \in Threads
    PROVE  /\ thr[t].pc \notin {"idle", "segment", "getid"} =>
                 /\ HeldBy(t) = {thr[t].id} /\ thr[t].id # NULL /\ thr[t].id # 0
                 /\ thr[t].id \in Ids
                 /\ BelievedOf(thr[t].id) = Believed(t)
           /\ thr[t].pc \in {"segment", "getid"} => HeldBy(t) = {}
           /\ thr[t].pc = "idle" => HeldBy(t) = {Obj(t)} \ {NULL}
<1>1. thr[t] \in ThreadState
  BY DEF IdInv, TypeInv, TypeOK, ThreadState
<1>2. HeldBy(t) = {thr[t].id, Obj(t)} \ {NULL}
  BY DEF HeldBy, Obj
<1>3. ASSUME thr[t].pc \notin {"idle", "segment", "getid"}
      PROVE  /\ HeldBy(t) = {thr[t].id} /\ thr[t].id # NULL /\ thr[t].id # 0
             /\ thr[t].id \in Ids
             /\ BelievedOf(thr[t].id) = Believed(t)
  <2>1. thr[t].id # NULL /\ Obj(t) \in {NULL, thr[t].id}
    BY <1>1, <1>3 DEF IdInv, TypeInv, IdKnown, Handover, ThreadState, Positions
  <2>2. HeldBy(t) = {thr[t].id}
    BY <1>2, <2>1
  <2>3. thr[t].id \in StartIndex..MaxId
    BY <2>2 DEF IdInv
  <2>. QED
    BY <1>1, <2>1, <2>2, <2>3, HolderBelieves, IdAssumption DEF ThreadState, StartIndex
<1>4. ASSUME thr[t].pc \in {"segment", "getid"}
      PROVE  HeldBy(t) = {}
  BY <1>2, <1>4 DEF IdInv, Handover
<1>5. ASSUME thr[t].pc = "idle"
      PROVE  HeldBy(t) = {Obj(t)} \ {NULL}
  BY <1>2, <1>5 DEF IdInv, Handover
<1>. QED
  BY <1>3, <1>4, <1>5

\* The resource that is shown, if there is one, is held as the frame buffer.
LEMMA ShownIsHeld ==
    ASSUME IdInv
    PROVE  BelievedShown \in {0} \cup HeldBy("frame")
<1>1. "frame" \in Threads /\ thr["frame"] \in ThreadState
  BY DEF IdInv, TypeInv, TypeOK, ThreadState, Threads
<1>2. CASE thr["frame"].pc \in {"transfer", "flush"}
  BY <1>1, <1>2, Holds DEF BelievedShown
<1>3. CASE thr["frame"].pc \notin {"transfer", "flush"}
  BY <1>3 DEF BelievedShown, HeldBy
<1>. QED
  BY <1>2, <1>3

\* Posting a command that fits, and believing what it will do.
LEMMA Posting ==
    ASSUME HostInv, IdInv', SegmentKnown', NEW c \in CtrlCommand,
           ctrl' = Append(ctrl, c), UNCHANGED device,
           Fits(Belief, c), Belief' = After(Belief, c)
    PROVE  HostInv'
<1>1. HostState' = HostState
  BY DEF HostState, device
<1>2. Leads(ctrl', HostState, After(Belief, c))
  BY BeliefType, LeadsAppend DEF HostInv, IdInv, TypeInv, TypeOK
<1>. QED
  BY <1>1, <1>2 DEF HostInv

\* Posting nothing, and believing what was believed before.
LEMMA NotPosting ==
    ASSUME HostInv, IdInv', SegmentKnown', UNCHANGED <<ctrl, device>>, Belief' = Belief
    PROVE  HostInv'
<1>1. HostState' = HostState
  BY DEF HostState, device
<1>. QED
  BY <1>1 DEF HostInv

\* The driver posts a command, and believes what it will do.
LEMMA PostHost ==
    ASSUME HostInv, IdInv', NEW t \in Threads, NEW cmd, NEW next, Post(t, cmd, next),
           <<cmd, next>> \in {<<"detach", "unref">>, <<"unref", "putid">>,
                              <<"create", "attach">>, <<"scanout", "transfer">>,
                              <<"transfer", "flush">>},
           t = "cursor" => cmd \in {"detach", "unref", "create"}
    PROVE  HostInv'
<1>. DEFINE id == thr[t].id
            c == [cmd |-> cmd, id |-> id, mem |-> NULL, event |-> FALSE]
<1>1. PICK u \in Threads \ {t} : TRUE
  BY DEF Threads
<1>2. /\ thr[t].pc = cmd /\ thr' = [thr EXCEPT ![t].pc = next]
      /\ ctrl' = Append(ctrl, c)
      /\ UNCHANGED <<frame, cursor, segment, device>>
  BY DEF Post, Send, ids, memory
<1>3. thr \in [Threads -> ThreadState]
  BY DEF HostInv, IdInv, TypeInv, TypeOK, ThreadState
<1>4. /\ thr'[t].pc = next /\ thr'[t].id = id /\ thr'[u] = thr[u]
      /\ \A v \in Threads : thr'[v].id = thr[v].id
  BY <1>2, <1>3 DEF ThreadState
<1>5. \A v \in Threads : HeldBy(v)' = HeldBy(v)
  BY <1>2, <1>4 DEF HeldBy
<1>6. Believed(u)' = Believed(u)
  BY <1>2, <1>4 DEF Believed
<1>7. /\ HeldBy(t) = {id} /\ id \in Ids /\ id # 0 /\ id # NULL
      /\ Belief.mem[id] = Believed(t)
  <2>1. IdInv /\ thr[t].pc \notin {"idle", "segment", "getid"}
    BY <1>2 DEF HostInv
  <2>2. HeldBy(t) = {id} /\ id \in Ids /\ id # 0 /\ id # NULL /\ BelievedOf(id) = Believed(t)
    BY <2>1, Holds
  <2>. QED
    BY <2>2 DEF Belief
<1>8. c \in CtrlCommand
  BY <1>7 DEF CtrlCommand
<1>9. SegmentKnown'
  BY <1>2, <1>4 DEF HostInv, SegmentKnown, Threads
<1>10. Believed(t)' = Memory(Belief, c)
  BY <1>2, <1>4, <1>7 DEF Believed, Memory
<1>11. Fits(Belief, c)
  <2>1. cmd = "transfer" => segment # NULL /\ t = "frame"
    BY <1>2 DEF HostInv, SegmentKnown, Threads
  <2>2. CursorMem # NULL
    BY MemAssumption
  <2>. QED
    BY <1>2, <1>7, <2>1, <2>2 DEF Fits, Believed
<1>12. BelievedShown' = After(Belief, c).shown
  <2>1. After(Belief, c).shown = CASE cmd = "scanout" -> id
                                   [] cmd = "unref" /\ BelievedShown = id -> 0
                                   [] OTHER -> BelievedShown
    BY DEF After, Belief
  <2>2. CASE t = "frame"
    <3>1. cmd = "unref" => frame = id
      BY <1>2, <2>2 DEF HostInv, IdInv, Handover, Obj
    <3>. QED
      BY <1>2, <1>4, <1>7, <2>1, <2>2, <3>1 DEF BelievedShown
  <2>3. CASE t = "cursor"
    <3>1. BelievedShown' = BelievedShown
      BY <1>1, <1>2, <1>4, <2>3 DEF BelievedShown, Threads
    <3>2. BelievedShown # id
      BY <1>7, <2>3, ShownIsHeld DEF HostInv, IdInv, BitmapMatches
    <3>. QED
      BY <2>1, <2>3, <3>1, <3>2
  <2>. QED
    BY <2>2, <2>3 DEF Threads
<1>13. Belief' = After(Belief, c)
  <2>1. HeldBy(t) = {c.id} /\ HeldBy(t)' = {c.id} /\ HeldBy(u)' = HeldBy(u)
    BY <1>5, <1>7
  <2>. HIDE DEF c
  <2>. QED
    BY <1>6, <1>8, <1>10, <1>12, <2>1, CommandBelief DEF HostInv
<1>. HIDE DEF c
<1>. QED
  BY <1>2, <1>8, <1>9, <1>11, <1>13, Posting

\* GetId and PutId: an id that is taken or given back names no resource.
LEMMA IdHost ==
    ASSUME HostInv, IdInv', NEW t \in Threads, GetId(t) \/ PutId(t)
    PROVE  HostInv'
<1>1. PICK u \in Threads \ {t} : TRUE
  BY DEF Threads
<1>2. thr \in [Threads -> ThreadState] /\ thr' \in [Threads -> ThreadState]
  BY DEF HostInv, IdInv, TypeInv, TypeOK, ThreadState
<1>3. /\ thr'[u] = thr[u] /\ Obj(u)' = Obj(u) /\ segment' = segment
      /\ UNCHANGED <<ctrl, device>>
  <2>1. CASE GetId(t)
    BY <1>2, <2>1 DEF GetId, memory, Obj, ThreadState
  <2>2. CASE PutId(t)
    BY <1>1, <1>2, <2>2 DEF PutId, memory, Obj, ThreadState, Threads
  <2>. QED
    BY <2>1, <2>2
<1>4. HeldBy(u)' = HeldBy(u) /\ Believed(u)' = Believed(u)
  BY <1>3 DEF HeldBy, Obj, Believed
<1>5. CASE GetId(t)
  <2>1. /\ thr[t].pc = "getid" /\ thr'[t].pc = "create"
        /\ UNCHANGED <<frame, cursor>>
    BY <1>2, <1>5 DEF GetId, ThreadState
  <2>2. HeldBy(t) = {}
    BY <2>1, Holds DEF HostInv
  <2>3. \A id \in HeldBy(t)' : BelievedOf(id)' = Believed(t)'
    BY HolderBelieves DEF IdInv, BitmapMatches, BelievedOf, Threads
  <2>4. Believed(t)' = {}
    BY <2>1 DEF Believed
  <2>5. \A id \in HeldBy(t)' : BelievedOf(id) = {}
    <3>1. \A id \in HeldBy(t)' : id \notin HeldBy(u)
      BY <1>1, <1>4 DEF IdInv, BitmapMatches, Threads
    <3>. QED
      BY <1>1, <2>2, <3>1 DEF BelievedOf, Threads
  <2>6. BelievedShown' = BelievedShown
    BY <1>1, <1>3, <2>1 DEF BelievedShown, Threads
  <2>7. SegmentKnown'
    BY <1>1, <1>3, <2>1 DEF HostInv, SegmentKnown, Threads
  <2>. QED
    BY <1>3, <1>4, <2>2, <2>3, <2>4, <2>5, <2>6, <2>7, SameBelief, NotPosting DEF HostInv
<1>6. CASE PutId(t)
  <2>1. /\ thr[t].pc = "putid"
        /\ thr'[t].pc = (IF t = "frame" THEN "segment" ELSE "getid")
        /\ Obj(t)' = NULL /\ thr'[t].id = NULL
    BY <1>2, <1>6 DEF PutId, ThreadState, Obj, Threads
  <2>2. HeldBy(t)' = {}
    BY <2>1 DEF HeldBy, Obj
  <2>3. \A id \in HeldBy(t) : BelievedOf(id) = {}
    <3>1. Believed(t) = {}
      BY <2>1 DEF Believed
    <3>. QED
      BY <3>1, HolderBelieves DEF HostInv
  <2>4. \A id \in HeldBy(t) : BelievedOf(id)' = {}
    <3>1. \A id \in HeldBy(t) : id \notin HeldBy(u)
      BY <1>1 DEF HostInv, IdInv, BitmapMatches, Threads
    <3>. QED
      BY <1>1, <1>4, <2>2, <3>1 DEF BelievedOf, Threads
  <2>5. BelievedShown' = BelievedShown
    <3>1. CASE t = "frame"
      BY <2>1, <3>1 DEF BelievedShown
    <3>2. CASE t = "cursor"
      BY <1>1, <1>3, <3>2 DEF BelievedShown, Obj, Threads
    <3>. QED
      BY <3>1, <3>2 DEF Threads
  <2>6. SegmentKnown'
    <3>1. CASE t = "frame"
      BY <2>1, <3>1 DEF SegmentKnown, Obj
    <3>2. CASE t = "cursor"
      BY <1>1, <1>3, <3>2 DEF HostInv, SegmentKnown, Obj, Threads
    <3>. QED
      BY <3>1, <3>2 DEF Threads
  <2>. QED
    BY <1>3, <1>4, <2>2, <2>3, <2>4, <2>5, <2>6, SameBelief, NotPosting DEF HostInv
<1>. QED
  BY <1>5, <1>6

\* A step that posts nothing, keeps the ids of both threads, and believes of those
\* of t what it believed before.
LEMMA QuietHost ==
    ASSUME HostInv, IdInv', SegmentKnown', NEW t \in Threads, NEW u \in Threads \ {t},
           \A v \in Threads : HeldBy(v)' = HeldBy(v),
           HeldBy(t) # {} => Believed(t)' = Believed(t),
           HeldBy(u) # {} => Believed(u)' = Believed(u),
           BelievedShown' = BelievedShown, UNCHANGED <<ctrl, device>>
    PROVE  HostInv'
<1>1. \A id \in HeldBy(t) : BelievedOf(id) = Believed(t)
  BY HolderBelieves DEF HostInv
<1>2. \A id \in HeldBy(t) : BelievedOf(id)' = Believed(t)'
  BY DEF IdInv, BitmapMatches, BelievedOf, Threads
<1>3. \A id \in HeldBy(t) \cup HeldBy(t)' : BelievedOf(id)' = BelievedOf(id)
  BY <1>1, <1>2
<1>. QED
  BY <1>3, SameBelief, NotPosting DEF HostInv

\* The steps of the frame buffer's thread that are not a mere Post.
LEMMA FrameHost ==
    ASSUME HostInv, IdInv', ~failed',
           SetCurrentMode \/ ReplaceSegment \/ AttachFrame \/ Present \/ ResFlush
    PROVE  HostInv'
<1>. DEFINE id == thr["frame"].id
<1>1. "frame" \in Threads /\ "cursor" \in Threads \ {"frame"}
  BY DEF Threads
<1>2. thr \in [Threads -> ThreadState] /\ thr' \in [Threads -> ThreadState]
  BY DEF HostInv, IdInv, TypeInv, TypeOK, ThreadState
<1>3. thr'["cursor"] = thr["cursor"] /\ cursor' = cursor /\ device' = device
  BY <1>1, <1>2 DEF SetCurrentMode, ReplaceSegment, AttachFrame, Present, ResFlush,
                    StartReplacing, ids, ThreadState
<1>4. HeldBy("cursor")' = HeldBy("cursor") /\ Believed("cursor")' = Believed("cursor")
  BY <1>3 DEF HeldBy, Believed
<1>5. CASE SetCurrentMode
  <2>1. /\ thr["frame"].pc = "idle"
        /\ thr'["frame"].pc = (IF frame = NULL THEN "segment" ELSE "detach")
        /\ thr'["frame"].id = frame
        /\ UNCHANGED <<frame, segment, ctrl>>
    BY <1>1, <1>2, <1>5 DEF SetCurrentMode, StartReplacing, ids, memory
  <2>2. HeldBy("frame") = {frame} \ {NULL}
    BY <1>1, <2>1, Holds DEF HostInv, Obj
  <2>3. HeldBy("frame")' = {frame} \ {NULL}
    BY <2>1 DEF HeldBy
  <2>4. HeldBy("frame") # {} => Believed("frame")' = Believed("frame")
    BY <2>1, <2>2 DEF Believed
  <2>5. BelievedShown' = BelievedShown
    BY <2>1 DEF BelievedShown
  <2>6. SegmentKnown'
    BY <2>1 DEF HostInv, SegmentKnown
  <2>. QED
    BY <1>1, <1>3, <1>4, <2>1, <2>2, <2>3, <2>4, <2>5, <2>6, QuietHost DEF Threads
<1>6. CASE ReplaceSegment
  <2>1. /\ thr["frame"].pc = "segment" /\ thr'["frame"].pc = "getid"
        /\ segment' \in FrameMems
        /\ UNCHANGED <<frame, ctrl>>
    BY <1>1, <1>2, <1>6 DEF ReplaceSegment, ids, ThreadState
  <2>2. HeldBy("frame") = {}
    BY <1>1, <2>1, Holds DEF HostInv
  <2>3. thr'["frame"].id = thr["frame"].id
    BY <1>1, <1>2, <1>6 DEF ReplaceSegment, ThreadState
  <2>4. HeldBy("frame")' = HeldBy("frame")
    BY <2>1, <2>3 DEF HeldBy
  <2>5. BelievedShown' = BelievedShown
    BY <2>1 DEF BelievedShown
  <2>6. SegmentKnown'
    BY <2>1, MemAssumption DEF SegmentKnown
  <2>. QED
    BY <1>1, <1>3, <1>4, <2>1, <2>2, <2>4, <2>5, <2>6, QuietHost DEF Threads
<1>7. CASE Present
  <2>1. /\ thr["frame"].pc = "idle" /\ frame # NULL
        /\ thr'["frame"].pc = "transfer" /\ thr'["frame"].id = frame
        /\ UNCHANGED <<frame, segment, ctrl>>
    BY <1>1, <1>2, <1>7 DEF Present, ids, memory
  <2>2. HeldBy("frame") = {frame} \ {NULL}
    BY <1>1, <2>1, Holds DEF HostInv, Obj
  <2>3. HeldBy("frame")' = {frame} \ {NULL}
    BY <2>1 DEF HeldBy
  <2>4. Believed("frame")' = Believed("frame")
    BY <2>1 DEF Believed
  <2>5. BelievedShown' = BelievedShown
    BY <2>1 DEF BelievedShown
  <2>6. SegmentKnown'
    BY <2>1 DEF HostInv, SegmentKnown
  <2>. QED
    BY <1>1, <1>3, <1>4, <2>1, <2>2, <2>3, <2>4, <2>5, <2>6, QuietHost DEF Threads
<1>8. CASE AttachFrame
  <2>. DEFINE c == [cmd |-> "attach", id |-> id, mem |-> segment, event |-> FALSE]
  <2>1. /\ thr["frame"].pc = "attach"
        /\ thr' = [thr EXCEPT !["frame"].pc = "scanout", !["frame"].obj = thr["frame"].id]
        /\ ctrl' = Append(ctrl, c)
        /\ UNCHANGED <<frame, segment>>
    BY <1>8 DEF AttachFrame, Send, ids
  <2>2. thr'["frame"].pc = "scanout" /\ thr'["frame"].id = id
    BY <1>1, <1>2, <2>1 DEF ThreadState
  <2>3. /\ HeldBy("frame") = {id} /\ id \in Ids /\ id # NULL
        /\ BelievedOf(id) = Believed("frame")
    BY <1>1, <2>1, Holds DEF HostInv
  <2>4. HeldBy("frame")' = {id}
    BY <2>1, <2>2, <2>3 DEF HeldBy
  <2>5. Belief.mem[id] = {NULL}
    BY <2>1, <2>3 DEF Belief, Believed
  <2>6. c \in CtrlCommand
    BY <2>3 DEF CtrlCommand, Mems, HostInv, IdInv, TypeInv, TypeOK
  <2>7. Fits(Belief, c) /\ Memory(Belief, c) = {segment}
    BY <2>5 DEF Fits, Memory
  <2>8. Believed("frame")' = {segment}
    BY <2>1, <2>2 DEF Believed
  <2>9. BelievedShown' = After(Belief, c).shown
    BY <2>1, <2>2 DEF BelievedShown, After, Belief
  <2>10. SegmentKnown'
    BY <2>1 DEF HostInv, SegmentKnown
  <2>11. c.id = id
    OBVIOUS
  <2>. HIDE DEF c
  <2>12. Belief' = After(Belief, c)
    BY <1>1, <1>4, <2>3, <2>4, <2>6, <2>7, <2>8, <2>9, <2>11, CommandBelief DEF HostInv
  <2>. QED
    BY <1>3, <2>1, <2>6, <2>7, <2>10, <2>12, Posting
<1>9. CASE ResFlush
  <2>. DEFINE c == [cmd |-> "flush", id |-> id, mem |-> NULL, event |-> FALSE]
  <2>1. /\ thr["frame"].pc = "flush" /\ thr'["frame"] = Idle
        /\ ctrl' = Append(ctrl, c) /\ frame' = thr["frame"].obj
        /\ segment' = segment
    BY <1>1, <1>2, <1>9 DEF ResFlush, Send, memory
  <2>2. frame' = id
    BY <2>1 DEF HostInv, IdInv
  <2>3. /\ HeldBy("frame") = {id} /\ id \in Ids /\ id # NULL
        /\ BelievedOf(id) = Believed("frame")
    BY <1>1, <2>1, Holds DEF HostInv
  <2>4. HeldBy("frame")' = {id}
    BY <2>1, <2>2, <2>3 DEF HeldBy, Idle
  <2>5. segment # NULL
    BY <2>1 DEF HostInv, SegmentKnown
  <2>6. Belief.mem[id] = {segment}
    BY <2>1, <2>3 DEF Belief, Believed
  <2>7. c \in CtrlCommand
    BY <2>3 DEF CtrlCommand
  <2>8. Fits(Belief, c) /\ Memory(Belief, c) = {segment}
    BY <2>6 DEF Fits, Memory
  <2>9. Believed("frame")' = {segment}
    BY <2>1 DEF Believed, Idle
  <2>10. BelievedShown' = After(Belief, c).shown
    BY <2>1, <2>2, <2>3 DEF BelievedShown, After, Belief, Idle
  <2>11. SegmentKnown'
    BY <2>1, <2>5 DEF SegmentKnown
  <2>12. c.id = id
    OBVIOUS
  <2>. HIDE DEF c
  <2>13. Belief' = After(Belief, c)
    BY <1>1, <1>4, <2>3, <2>4, <2>7, <2>8, <2>9, <2>10, <2>12, CommandBelief DEF HostInv
  <2>. QED
    BY <1>3, <2>1, <2>7, <2>8, <2>11, <2>13, Posting
<1>. QED
  BY <1>5, <1>6, <1>7, <1>8, <1>9

\* The steps of the pointer's thread that are not a mere Post.
LEMMA CursorHost ==
    ASSUME HostInv, IdInv', ~failed', Cursor
    PROVE  HostInv'
<1>. DEFINE id == thr["cursor"].id
<1>1. "cursor" \in Threads /\ "frame" \in Threads \ {"cursor"}
  BY DEF Threads
<1>2. thr \in [Threads -> ThreadState] /\ thr' \in [Threads -> ThreadState]
  BY DEF HostInv, IdInv, TypeInv, TypeOK, ThreadState
<1>3. /\ thr'["frame"] = thr["frame"]
      /\ UNCHANGED <<frame, segment, host, scanout>>
  <2>1. CASE AttachCursor
    BY <1>1, <1>2, <2>1 DEF AttachCursor, device
  <2>2. CASE SetPointerShape \/ TransferCursor \/ TransferWait \/ UpdateCursor
    BY <1>1, <1>2, <2>2 DEF SetPointerShape, TransferCursor, TransferWait, UpdateCursor,
                            StartReplacing, ids, memory, device
  <2>3. CASE \E visible \in BOOLEAN : MoveCursor(visible)
    BY <2>3 DEF MoveCursor, ids, memory, device
  <2>. QED
    BY <2>1, <2>2, <2>3 DEF Cursor
<1>4. /\ HeldBy("frame")' = HeldBy("frame") /\ Believed("frame")' = Believed("frame")
      /\ BelievedShown' = BelievedShown /\ SegmentKnown'
  BY <1>3 DEF HeldBy, Believed, BelievedShown, HostInv, SegmentKnown
<1>5. CASE SetPointerShape
  <2>1. /\ thr["cursor"].pc = "idle"
        /\ thr'["cursor"].pc = (IF cursor = NULL THEN "getid" ELSE "detach")
        /\ thr'["cursor"].id = cursor
        /\ UNCHANGED <<cursor, ctrl>>
    BY <1>1, <1>2, <1>5 DEF SetPointerShape, StartReplacing, ids
  <2>2. HeldBy("cursor") = {cursor} \ {NULL}
    BY <1>1, <2>1, Holds DEF HostInv, Obj
  <2>3. HeldBy("cursor")' = {cursor} \ {NULL}
    BY <2>1 DEF HeldBy
  <2>4. Believed("cursor")' = Believed("cursor")
    BY <2>1 DEF Believed
  <2>. QED
    BY <1>1, <1>3, <1>4, <2>1, <2>2, <2>3, <2>4, QuietHost DEF Threads, device
<1>6. CASE AttachCursor
  <2>. DEFINE c == [cmd |-> "attach", id |-> id, mem |-> CursorMem, event |-> FALSE]
  <2>1. /\ thr["cursor"].pc = "attach"
        /\ ctrl' = Append(ctrl, c) /\ cursor' = id
        /\ \/ thr' = [thr EXCEPT !["cursor"].pc = "transfer"]
           \/ thr' = [thr EXCEPT !["cursor"] = Idle]
    BY <1>6 DEF AttachCursor, Send
  <2>2. \/ thr'["cursor"].pc = "transfer" /\ thr'["cursor"].id = id
        \/ thr'["cursor"].pc = "idle" /\ thr'["cursor"].id = NULL
    <3>1. CASE thr' = [thr EXCEPT !["cursor"].pc = "transfer"]
      BY <1>1, <1>2, <3>1 DEF ThreadState
    <3>2. CASE thr' = [thr EXCEPT !["cursor"] = Idle]
      BY <1>1, <1>2, <3>2 DEF Idle
    <3>. QED
      BY <2>1, <3>1, <3>2
  <2>3. /\ HeldBy("cursor") = {id} /\ id \in Ids /\ id # NULL
        /\ BelievedOf(id) = Believed("cursor")
    BY <1>1, <2>1, Holds DEF HostInv
  <2>4. HeldBy("cursor")' = {id}
    BY <2>1, <2>2, <2>3 DEF HeldBy
  <2>5. Belief.mem[id] = {NULL}
    BY <2>1, <2>3 DEF Belief, Believed
  <2>6. c \in CtrlCommand
    BY <2>3 DEF CtrlCommand, Mems
  <2>7. Fits(Belief, c) /\ Memory(Belief, c) = {CursorMem}
    BY <2>5 DEF Fits, Memory
  <2>8. Believed("cursor")' = {CursorMem}
    BY <2>2 DEF Believed
  <2>9. BelievedShown' = After(Belief, c).shown
    BY <1>4 DEF After, Belief
  <2>10. c.id = id
    OBVIOUS
  <2>. HIDE DEF c
  <2>11. Belief' = After(Belief, c)
    BY <1>1, <1>4, <2>3, <2>4, <2>6, <2>7, <2>8, <2>9, <2>10, CommandBelief DEF HostInv
  <2>. QED
    BY <1>3, <1>4, <2>1, <2>6, <2>7, <2>11, Posting DEF device
<1>7. CASE TransferCursor
  <2>. DEFINE c == [cmd |-> "transfer", id |-> id, mem |-> NULL, event |-> TRUE]
  <2>1. /\ thr["cursor"].pc = "transfer" /\ thr' = [thr EXCEPT !["cursor"].pc = "wait"]
        /\ ctrl' = Append(ctrl, c) /\ cursor' = cursor
    BY <1>7 DEF TransferCursor, Send, ids
  <2>2. thr'["cursor"].pc = "wait" /\ thr'["cursor"].id = id
    BY <1>1, <1>2, <2>1 DEF ThreadState
  <2>3. /\ HeldBy("cursor") = {id} /\ id \in Ids
        /\ BelievedOf(id) = Believed("cursor")
    BY <1>1, <2>1, Holds DEF HostInv
  <2>4. HeldBy("cursor")' = {id}
    BY <2>1, <2>2, <2>3 DEF HeldBy
  <2>5. Belief.mem[id] = {CursorMem} /\ CursorMem # NULL
    BY <2>1, <2>3, MemAssumption DEF Belief, Believed
  <2>6. c \in CtrlCommand
    BY <2>3 DEF CtrlCommand
  <2>7. Fits(Belief, c) /\ Memory(Belief, c) = {CursorMem}
    BY <2>5 DEF Fits, Memory
  <2>8. Believed("cursor")' = {CursorMem}
    BY <2>2 DEF Believed
  <2>9. BelievedShown' = After(Belief, c).shown
    BY <1>4 DEF After, Belief
  <2>10. c.id = id
    OBVIOUS
  <2>. HIDE DEF c
  <2>11. Belief' = After(Belief, c)
    BY <1>1, <1>4, <2>3, <2>4, <2>6, <2>7, <2>8, <2>9, <2>10, CommandBelief DEF HostInv
  <2>. QED
    BY <1>3, <1>4, <2>1, <2>6, <2>7, <2>11, Posting DEF device
<1>8. CASE TransferWait
  <2>1. /\ thr["cursor"].pc = "wait" /\ thr'["cursor"].pc = "update" /\ thr'["cursor"].id = id
        /\ UNCHANGED <<cursor, ctrl>>
    BY <1>1, <1>2, <1>8 DEF TransferWait, ids, ThreadState
  <2>2. HeldBy("cursor")' = HeldBy("cursor") /\ Believed("cursor")' = Believed("cursor")
    BY <2>1 DEF HeldBy, Believed
  <2>. QED
    BY <1>1, <1>3, <1>4, <2>1, <2>2, QuietHost DEF Threads, device
<1>9. CASE UpdateCursor
  <2>1. /\ thr["cursor"].pc = "update" /\ thr'["cursor"] = Idle
        /\ UNCHANGED <<cursor, ctrl>>
    BY <1>1, <1>2, <1>9 DEF UpdateCursor, ids
  <2>2. cursor # NULL /\ cursor = id
    BY <1>1, <2>1 DEF HostInv, IdInv, TypeInv, IdKnown, Handover, Obj
  <2>3. HeldBy("cursor")' = HeldBy("cursor") /\ Believed("cursor")' = Believed("cursor")
    BY <2>1, <2>2 DEF HeldBy, Believed, Idle
  <2>. QED
    BY <1>1, <1>3, <1>4, <2>1, <2>3, QuietHost DEF Threads, device
<1>10. CASE \E visible \in BOOLEAN : MoveCursor(visible)
  <2>1. UNCHANGED <<thr, cursor, ctrl>>
    BY <1>10 DEF MoveCursor, ids
  <2>2. HeldBy("cursor")' = HeldBy("cursor") /\ Believed("cursor")' = Believed("cursor")
    BY <2>1 DEF HeldBy, Believed
  <2>. QED
    BY <1>1, <1>3, <1>4, <2>1, <2>2, QuietHost DEF Threads, device
<1>. QED
  BY <1>5, <1>6, <1>7, <1>8, <1>9, <1>10 DEF Cursor

-----------------------------------------------------------------------------
(* Steps of the host                                                       *)

\* A command that fits the state the host is in is executed, not refused, and
\* changes the host as the driver expects.
LEMMA ExecuteFits ==
    ASSUME TypeOK, NEW c \in CtrlCommand, Fits(HostState, c)
    PROVE  /\ Accepts(c)
           /\ Execute(c) => HostState' = After(HostState, c)
<1>1. c.id \in Ids /\ HostState.mem[c.id] = IF c.id \in DOMAIN host THEN {host[c.id].mem} ELSE {}
  BY DEF CtrlCommand, HostState
<1>2. Accepts(c)
  BY <1>1 DEF Fits, Accepts, CtrlCommand
<1>3. ASSUME Execute(c)
      PROVE  HostState' = After(HostState, c)
  <2>1. scanout' = After(HostState, c).shown
    BY <1>3 DEF Execute, After, HostState
  <2>2. \A id \in Ids : (IF id \in DOMAIN host' THEN {host'[id].mem} ELSE {})
                          = IF id = c.id THEN Memory(HostState, c) ELSE HostState.mem[id]
    <3>1. CASE c.cmd = "create"
      BY <1>3, <3>1 DEF Execute, HostState, Memory
    <3>2. CASE c.cmd = "attach"
      <4>1. c.id \in DOMAIN host
        BY <1>2, <3>2 DEF Accepts
      <4>2. host' = [host EXCEPT ![c.id].mem = c.mem]
        BY <1>3, <3>2 DEF Execute
      <4>3. DOMAIN host' = DOMAIN host /\ host'[c.id].mem = c.mem
            /\ \A id \in DOMAIN host : id # c.id => host'[id] = host[id]
        BY <4>1, <4>2 DEF TypeOK, Resource
      <4>4. Memory(HostState, c) = {c.mem}
        BY <3>2 DEF Memory
      <4>. QED
        BY <4>1, <4>3, <4>4 DEF HostState
    <3>3. CASE c.cmd = "detach"
      BY <1>1, <1>2, <1>3, <3>3 DEF Execute, HostState, Memory, Accepts, TypeOK, Resource
    <3>4. CASE c.cmd = "transfer"
      <4>1. c.id \in DOMAIN host
        BY <1>2, <3>4 DEF Accepts
      <4>2. PICK p : host' = [host EXCEPT ![c.id].pix = p]
        BY <1>3, <3>4 DEF Execute
      <4>3. DOMAIN host' = DOMAIN host /\ \A id \in DOMAIN host : host'[id].mem = host[id].mem
        BY <4>1, <4>2 DEF TypeOK, Resource
      <4>4. Memory(HostState, c) = HostState.mem[c.id]
        BY <3>4 DEF Memory
      <4>. QED
        BY <4>1, <4>3, <4>4 DEF HostState
    <3>5. CASE c.cmd = "unref"
      BY <1>3, <3>5 DEF Execute, HostState, Memory
    <3>6. CASE c.cmd \in {"scanout", "flush"}
      BY <1>1, <1>3, <3>6 DEF Execute, HostState, Memory
    <3>. QED
      BY <3>1, <3>2, <3>3, <3>4, <3>5, <3>6 DEF CtrlCommand
  <2>. QED
    BY <1>1, <2>1, <2>2, ZenonT(60) DEF HostState, After
<1>. QED
  BY <1>2, <1>3

\* The host carries out the next command.
LEMMA CtrlHost ==
    ASSUME HostInv, IdInv', HostCtrl
    PROVE  HostInv'
<1>1. Head(ctrl) \in CtrlCommand /\ ctrl \in Seq(CtrlCommand) /\ ctrl # <<>> /\ TypeOK
  BY DEF HostCtrl, HostInv, IdInv, TypeInv, TypeOK
<1>2. Fits(HostState, Head(ctrl)) /\ Leads(Tail(ctrl), After(HostState, Head(ctrl)), Belief)
  BY <1>1, LeadsTail DEF HostInv
<1>3. HostState' = After(HostState, Head(ctrl))
  BY <1>1, <1>2, ExecuteFits DEF HostCtrl
<1>4. UNCHANGED <<frame, cursor, segment, thr>> /\ ctrl' = Tail(ctrl)
  BY DEF HostCtrl, ids, memory
<1>5. Belief' = Belief
  BY <1>4 DEF Belief, BelievedOf, BelievedShown, Believed, HeldBy
<1>6. SegmentKnown'
  BY <1>4 DEF HostInv, SegmentKnown
<1>. QED
  BY <1>2, <1>3, <1>4, <1>5, <1>6 DEF HostInv

-----------------------------------------------------------------------------
(* The theorems about resources                                            *)

\* Host and driver agree at the beginning.
LEMMA InitHost == Init => HostInv
<1>. SUFFICES ASSUME Init
              PROVE  HostInv
  OBVIOUS
<1>1. IdInv /\ TypeOK
  BY InitIds DEF IdInv, TypeInv
<1>2. /\ frame = NULL /\ cursor = NULL /\ ctrl = <<>> /\ DOMAIN host = {} /\ scanout = 0
      /\ \A t \in Threads : thr[t].pc = "idle" /\ thr[t].id = NULL
  BY DEF Init, Idle
<1>3. SegmentKnown
  BY <1>2 DEF SegmentKnown, Threads
<1>4. HeldBy("frame") = {} /\ HeldBy("cursor") = {}
  BY <1>2 DEF HeldBy, Threads
<1>5. Belief = HostState
  BY <1>2, <1>4 DEF Belief, HostState, BelievedOf, BelievedShown, Threads
<1>. QED
  BY <1>1, <1>2, <1>3, <1>5, HostStateType, LeadsNowhere DEF HostInv

\* Every step keeps the commands leading to the belief.
LEMMA NextHost ==
    ASSUME HostInv, [Next]_vars, ~failed'
    PROVE  HostInv'
<1>1. IdInv'
  BY NextIds DEF HostInv
<1>2. ASSUME NEW t \in Threads, Destroy(t) \/ Create(t)
      PROVE  HostInv'
  <2>1. CASE InvalBacking(t) \/ UnrefResource(t) \/ CreateResource(t)
    BY <1>1, <2>1, PostHost DEF InvalBacking, UnrefResource, CreateResource
  <2>2. CASE GetId(t) \/ PutId(t)
    BY <1>1, <2>2, IdHost
  <2>. QED
    BY <1>2, <2>1, <2>2 DEF Destroy, Create
<1>3. CASE Frame
  <2>1. CASE SetScanout \/ TransferFrame
    BY <1>1, <2>1, PostHost DEF SetScanout, TransferFrame, Threads
  <2>. QED
    BY <1>1, <1>3, <2>1, FrameHost DEF Frame
<1>4. CASE Cursor
  BY <1>1, <1>4, CursorHost
<1>5. CASE HostCtrl
  BY <1>1, <1>5, CtrlHost
<1>6. CASE HostCrsr \/ UNCHANGED vars
  <2>1. UNCHANGED <<frame, cursor, segment, thr, ctrl, device>>
    BY <1>6 DEF HostCrsr, ids, memory, device, vars
  <2>2. Belief' = Belief /\ SegmentKnown'
    BY <2>1 DEF Belief, BelievedOf, BelievedShown, Believed, HeldBy, HostInv, SegmentKnown
  <2>. QED
    BY <1>1, <2>1, <2>2, NotPosting
<1>. QED
  BY <1>2, <1>3, <1>4, <1>5, <1>6 DEF Next, Host

\* Until an allocation fails, the host never has to refuse a command of the control
\* queue, however late it executes it and however the two threads interleave: what
\* a command names was created, has the backing it needs, and is not destroyed yet.
THEOREM CommandsCorrect == Spec => []CommandsNameLiveResources
<1>. DEFINE Inv == TypeInv /\ (~failed => HostInv)
<1>1. Init => Inv
  BY InitType, InitHost
<1>2. Inv /\ [Next]_vars => Inv'
  BY NextType, NextHost, FailedStays
<1>3. Inv => CommandsNameLiveResources
  <2>. SUFFICES ASSUME TypeOK, HostInv, ctrl # <<>>
                PROVE  Accepts(Head(ctrl))
    BY DEF TypeInv, CommandsNameLiveResources
  <2>1. Head(ctrl) \in CtrlCommand /\ ctrl \in Seq(CtrlCommand)
    BY DEF TypeOK
  <2>2. Fits(HostState, Head(ctrl))
    BY <2>1, LeadsTail DEF HostInv
  <2>. QED
    BY <2>1, <2>2, ExecuteFits
<1>. QED
  BY <1>1, <1>2, <1>3, PTL DEF Spec

\* Until then also: when both threads are idle and the queue is empty, the host has
\* exactly the driver's two objects, backed by the memory the driver gave them, and
\* shows the frame buffer.
THEOREM HostCorrect == Spec => []HostMatchesDriver
<1>. DEFINE Inv == TypeInv /\ (~failed => HostInv)
<1>1. Init => Inv
  BY InitType, InitHost
<1>2. Inv /\ [Next]_vars => Inv'
  BY NextType, NextHost, FailedStays
<1>3. Inv => HostMatchesDriver
  <2>. SUFFICES ASSUME TypeOK, HostInv, ctrl = <<>>, \A t \in Threads : thr[t].pc = "idle"
                PROVE  /\ DOMAIN host = {frame, cursor} \ {NULL}
                       /\ scanout = IF frame = NULL THEN 0 ELSE frame
                       /\ frame # NULL => host[frame].mem = segment
                       /\ cursor # NULL => host[cursor].mem = CursorMem
    BY DEF TypeInv, HostMatchesDriver
  <2>1. Belief = HostState
    BY HostStateType, LeadsNowhere DEF HostInv
  <2>2. \A id \in Ids : BelievedOf(id) = IF id \in DOMAIN host THEN {host[id].mem} ELSE {}
    BY <2>1 DEF Belief, HostState
  <2>3. BelievedShown = scanout
    BY <2>1 DEF Belief, HostState
  <2>4. "frame" \in Threads /\ "cursor" \in Threads
    BY DEF Threads
  <2>5. HeldBy("frame") = {frame} \ {NULL} /\ HeldBy("cursor") = {cursor} \ {NULL}
    BY <2>4, Holds DEF HostInv, Obj
  <2>6. Believed("frame") = {segment} /\ Believed("cursor") = {CursorMem}
    BY <2>4 DEF Believed
  <2>7. HeldBy("frame") \cap HeldBy("cursor") = {}
    BY DEF HostInv, IdInv, BitmapMatches
  <2>8. DOMAIN host \subseteq Ids /\ {frame, cursor} \ {NULL} \subseteq Ids
    BY DEF TypeOK
  <2>9. \A id \in Ids : id \in DOMAIN host <=> id \in {frame, cursor} \ {NULL}
    BY <2>2, <2>5, <2>6 DEF BelievedOf
  <2>10. DOMAIN host = {frame, cursor} \ {NULL}
    BY <2>8, <2>9
  <2>11. frame # NULL => host[frame].mem = segment
    BY <2>2, <2>5, <2>6, <2>8, <2>10 DEF BelievedOf
  <2>12. cursor # NULL => host[cursor].mem = CursorMem
    BY <2>2, <2>5, <2>6, <2>7, <2>8, <2>10 DEF BelievedOf
  <2>13. scanout = IF frame = NULL THEN 0 ELSE frame
    BY <2>3, <2>4 DEF BelievedShown
  <2>. QED
    BY <2>10, <2>11, <2>12, <2>13
<1>. QED
  BY <1>1, <1>2, <1>3, PTL DEF Spec

\* Until then SetPointerPosition, called between two other calls for the pointer,
\* finds a pointer once a shape was set.
THEOREM PointerCorrect == Spec => []PointerToMove
<1>. DEFINE Inv == TypeInv /\ PointerToMove
<1>1. Init => Inv
  BY InitType DEF Init, PointerToMove
<1>2. Inv /\ [Next]_vars => Inv'
  <2>. SUFFICES ASSUME Inv, [Next]_vars
                PROVE  PointerToMove'
    BY NextType
  <2>. SUFFICES ASSUME ~failed'
                PROVE  shape' > 0 /\ thr'["cursor"].pc = "idle" => cursor' # NULL
    BY DEF PointerToMove
  <2>1. ~failed /\ (shape > 0 /\ thr["cursor"].pc = "idle" => cursor # NULL)
    BY FailedStays DEF PointerToMove
  <2>2. thr \in [Threads -> ThreadState] /\ {"frame", "cursor"} = Threads
    BY DEF TypeInv, TypeOK, ThreadState, Threads
  <2>3. ASSUME NEW t \in Threads, Destroy(t) \/ Create(t)
        PROVE  shape' > 0 /\ thr'["cursor"].pc = "idle" => cursor' # NULL
    <3>1. shape' = shape
      BY <2>3 DEF Destroy, Create, InvalBacking, UnrefResource, PutId, GetId,
                  CreateResource, Post, memory
    <3>2. CASE t = "cursor"
      <4>1. CASE InvalBacking(t) \/ UnrefResource(t) \/ CreateResource(t)
        BY <2>2, <3>2, <4>1, ZenonT(60) DEF InvalBacking, UnrefResource, CreateResource, Post, ThreadState
      <4>2. CASE PutId(t) \/ GetId(t)
        BY <2>2, <3>2, <4>2 DEF PutId, GetId, ThreadState
      <4>. QED
        BY <2>3, <4>1, <4>2 DEF Destroy, Create
    <3>3. CASE t = "frame"
      BY <2>1, <2>2, <2>3, <3>1, <3>3 DEF Destroy, Create, InvalBacking, UnrefResource,
                  PutId, GetId, CreateResource, Post, ids, ThreadState
    <3>. QED
      BY <2>2, <3>2, <3>3
  <2>4. CASE Frame
    BY <2>1, <2>2, <2>4 DEF Frame, SetCurrentMode, StartReplacing, ReplaceSegment,
          AttachFrame, SetScanout, Present, TransferFrame, ResFlush, Post, ids, memory,
          ThreadState
  <2>5. CASE SetPointerShape
    BY <2>2, <2>5 DEF SetPointerShape, StartReplacing
  <2>6. CASE AttachCursor
    <3>1. cursor' = thr["cursor"].id /\ thr["cursor"].pc = "attach"
      BY <2>6 DEF AttachCursor
    <3>. QED
      BY <2>2, <3>1 DEF TypeInv, IdKnown
  <2>7. CASE TransferCursor \/ TransferWait
    BY <2>2, <2>7 DEF TransferCursor, TransferWait, ThreadState
  <2>8. CASE UpdateCursor
    BY <2>2, <2>8 DEF UpdateCursor, ids, TypeInv, IdKnown
  <2>9. CASE (\E visible \in BOOLEAN : MoveCursor(visible)) \/ Host \/ UNCHANGED vars
    <3>1. UNCHANGED <<shape, cursor, thr>>
      BY <2>9 DEF MoveCursor, Host, HostCtrl, HostCrsr, ids, memory, vars
    <3>. QED
      BY <2>1, <3>1
  <2>. QED
    BY <2>3, <2>4, <2>5, <2>6, <2>7, <2>8, <2>9 DEF Next, Cursor
<1>3. Inv => PointerToMove
  OBVIOUS
<1>. QED
  BY <1>1, <1>2, <1>3, PTL DEF Spec

-----------------------------------------------------------------------------
(* The image of the pointer                                                *)

\* No command behind the i-th of the control queue names the pointer's resource.
Settled(i) == \A j \in (i + 1)..Len(ctrl) : ctrl[j].id # cursor

\* The host's pointer has the shape that was last set, and will keep it.
Drawn ==
    /\ Settled(0)
    /\ cursor \in DOMAIN host /\ host[cursor].pix = shape

\* No transfer on its way is one the cursor thread waits for.
NoEvent == \A i \in DOMAIN ctrl : ~ctrl[i].event

\* The transfer that is waited for is the last command to name the pointer; once it
\* is done the pointer is drawn, until all of the cursor queue is executed.
CursorInv ==
    /\ \A i \in DOMAIN ctrl : ctrl[i].event =>
          /\ thr["cursor"].pc = "wait"
          /\ ctrl[i].cmd = "transfer" /\ ctrl[i].id = cursor /\ Settled(i)
    /\ thr["cursor"].pc \in {"wait", "update"} => pixels = shape
    /\ thr["cursor"].pc = "update" \/ (thr["cursor"].pc = "wait" /\ NoEvent) => Drawn
    /\ crsr # <<>> => thr["cursor"].pc = "idle"
    /\ \A i \in DOMAIN crsr : crsr[i].cmd = "update" =>
          crsr[i].id = cursor /\ crsr[i].shape = shape /\ Drawn

\* A step of the pointer's thread between setting a shape and the transfer: nothing
\* is waited for, and the cursor queue is empty.
LEMMA NotDrawnYet ==
    ASSUME CursorInv, TypeOK, TypeOK', crsr = <<>>, crsr' = crsr,
           thr["cursor"].pc # "wait", thr'["cursor"].pc \notin {"wait", "update"},
           \/ ctrl' = ctrl
           \/ \E c \in CtrlCommand : ctrl' = Append(ctrl, c) /\ ~c.event
    PROVE  CursorInv'
<1>1. NoEvent
  BY DEF CursorInv, NoEvent
<1>2. NoEvent'
  <2>1. CASE ctrl' = ctrl
    BY <1>1, <2>1 DEF NoEvent
  <2>2. ASSUME NEW c \in CtrlCommand, ctrl' = Append(ctrl, c), ~c.event
        PROVE  NoEvent'
    BY <1>1, <2>2 DEF NoEvent, TypeOK
  <2>. QED
    BY <2>1, <2>2
<1>. QED
  BY <1>2 DEF CursorInv, NoEvent

\* A step of the frame buffer's thread, whose commands name another resource.
LEMMA FrameLeavesPointer ==
    ASSUME CursorInv, TypeOK, TypeOK',
           UNCHANGED <<cursor, shape, pixels, crsr, host>>, thr'["cursor"] = thr["cursor"],
           \/ ctrl' = ctrl
           \/ \E c \in CtrlCommand : ctrl' = Append(ctrl, c) /\ ~c.event /\ c.id # cursor
    PROVE  CursorInv'
<1>1. CASE ctrl' = ctrl
  <2>1. /\ \A i \in DOMAIN ctrl : Settled(i)' <=> Settled(i)
        /\ Drawn' <=> Drawn
        /\ NoEvent' <=> NoEvent
    BY <1>1 DEF Settled, Drawn, NoEvent
  <2>. QED
    BY <1>1, <2>1 DEF CursorInv
<1>2. ASSUME NEW c \in CtrlCommand, ctrl' = Append(ctrl, c), ~c.event, c.id # cursor
      PROVE  CursorInv'
  <2>. DEFINE n == Len(ctrl)
  <2>1. /\ n \in Nat /\ Len(ctrl') = n + 1 /\ ctrl'[n + 1] = c
        /\ \A i \in 1..n : ctrl'[i] = ctrl[i]
        /\ DOMAIN ctrl = 1..n /\ DOMAIN ctrl' = 1..(n + 1)
    BY <1>2 DEF TypeOK
  <2>2. \A i \in 0..n : Settled(i) => Settled(i)'
    <3>. SUFFICES ASSUME NEW i \in 0..n, Settled(i), NEW j \in (i + 1)..(n + 1)
                  PROVE  ctrl'[j].id # cursor
      BY <2>1 DEF Settled
    <3>1. CASE j = n + 1
      BY <1>2, <2>1, <3>1
    <3>2. CASE j # n + 1
      BY <2>1, <3>2 DEF Settled
    <3>. QED
      BY <3>1, <3>2
  <2>3. Drawn => Drawn'
    BY <2>1, <2>2 DEF Drawn
  <2>4. \A i \in DOMAIN ctrl' : i = n + 1 \/ (i \in DOMAIN ctrl /\ ctrl'[i] = ctrl[i])
    BY <2>1
  <2>5. /\ \A i \in DOMAIN ctrl' : ctrl'[i].event => i \in DOMAIN ctrl /\ ctrl'[i] = ctrl[i]
        /\ NoEvent' => NoEvent
    <3>1. ~ctrl'[n + 1].event
      BY <1>2, <2>1, Zenon
    <3>2. \A i \in DOMAIN ctrl : i \in DOMAIN ctrl' /\ ctrl'[i] = ctrl[i]
      BY <2>1
    <3>. QED
      BY <2>4, <3>1, <3>2, Zenon DEF NoEvent
  <2>6. \A i \in DOMAIN ctrl' : ctrl'[i].event =>
          thr'["cursor"].pc = "wait" /\ ctrl'[i].cmd = "transfer" /\ ctrl'[i].id = cursor'
          /\ Settled(i)'
    BY <2>1, <2>2, <2>5 DEF CursorInv
  <2>. QED
    BY <2>3, <2>5, <2>6 DEF CursorInv
<1>. QED
  BY <1>1, <1>2

\* What the commands of the frame buffer's thread name is not the pointer.
LEMMA FrameIsNotPointer ==
    ASSUME IdInv, thr["frame"].pc \notin {"idle", "segment", "getid"}
    PROVE  thr["frame"].id # cursor /\ thr["frame"].id \in Ids
<1>1. HeldBy("frame") = {thr["frame"].id} /\ thr["frame"].id # NULL /\ thr["frame"].id \in Ids
  BY Holds DEF Threads
<1>2. cursor # NULL => cursor \in HeldBy("cursor")
  BY DEF HeldBy
<1>. QED
  BY <1>1, <1>2 DEF IdInv, BitmapMatches

\* The host executes a command.
LEMMA CtrlDraws ==
    ASSUME HostInv, CursorInv, HostCtrl
    PROVE  CursorInv'
<1>. DEFINE n == Len(ctrl)
            c == Head(ctrl)
<1>1. /\ ctrl \in Seq(CtrlCommand) /\ ctrl' = Tail(ctrl) /\ TypeOK
      /\ UNCHANGED <<cursor, shape, pixels, thr, crsr>>
  BY DEF HostCtrl, HostInv, IdInv, TypeInv, TypeOK, ids, memory
<1>2. /\ n \in Nat /\ n > 0 /\ c \in CtrlCommand /\ c = ctrl[1]
      /\ Len(ctrl') = n - 1 /\ \A i \in 1..(n - 1) : ctrl'[i] = ctrl[i + 1]
      /\ DOMAIN ctrl = 1..n /\ DOMAIN ctrl' = 1..(n - 1)
  BY <1>1 DEF HostCtrl
<1>3. Fits(HostState, c) /\ Accepts(c) /\ Execute(c)
  <2>1. Fits(HostState, c)
    BY <1>1, LeadsTail DEF HostInv, HostCtrl
  <2>2. Accepts(c)
    BY <1>1, <1>2, <2>1, ExecuteFits
  <2>. QED
    BY <2>1, <2>2 DEF HostCtrl
<1>4. \A i \in 0..(n - 1) : Settled(i + 1) <=> Settled(i)'
  <2>. SUFFICES ASSUME NEW i \in 0..(n - 1)
                PROVE  Settled(i + 1) <=> Settled(i)'
    OBVIOUS
  <2>1. Settled(i + 1) => Settled(i)'
    <3>. SUFFICES ASSUME Settled(i + 1), NEW j \in (i + 1)..(n - 1)
                  PROVE  ctrl'[j].id # cursor
      BY <1>1, <1>2 DEF Settled
    <3>1. j + 1 \in (i + 1 + 1)..n /\ ctrl'[j] = ctrl[j + 1]
      BY <1>2
    <3>. QED
      BY <3>1 DEF Settled
  <2>2. Settled(i)' => Settled(i + 1)
    <3>. SUFFICES ASSUME Settled(i)', NEW j \in (i + 1 + 1)..n
                  PROVE  ctrl[j].id # cursor
      BY DEF Settled
    <3>1. j - 1 \in (i + 1)..(n - 1) /\ ctrl'[j - 1] = ctrl[j]
      BY <1>2
    <3>. QED
      BY <1>1, <1>2, <3>1 DEF Settled
  <2>. QED
    BY <2>1, <2>2
<1>. HIDE DEF c
<1>5. c.id # cursor /\ cursor \in DOMAIN host =>
        cursor \in DOMAIN host' /\ host'[cursor] = host[cursor]
  BY <1>2, <1>3 DEF Execute, Accepts, TypeOK, CtrlCommand
<1>6. Drawn => Drawn'
  <2>. SUFFICES ASSUME Drawn
                PROVE  Drawn'
    OBVIOUS
  <2>1. c.id # cursor
    BY <1>2 DEF Drawn, Settled
  <2>2. Settled(1)
    BY DEF Drawn, Settled
  <2>3. Settled(0)'
    BY <1>2, <1>4, <2>2
  <2>. QED
    BY <1>1, <1>5, <2>1, <2>3 DEF Drawn
<1>7. \A i \in DOMAIN ctrl' : ctrl'[i].event =>
          thr'["cursor"].pc = "wait" /\ ctrl'[i].cmd = "transfer" /\ ctrl'[i].id = cursor'
          /\ Settled(i)'
  <2>. SUFFICES ASSUME NEW i \in 1..(n - 1), ctrl'[i].event
                PROVE  thr["cursor"].pc = "wait" /\ ctrl'[i].cmd = "transfer"
                       /\ ctrl'[i].id = cursor /\ Settled(i)'
    BY <1>1, <1>2
  <2>1. i + 1 \in DOMAIN ctrl /\ ctrl'[i] = ctrl[i + 1] /\ i \in 0..(n - 1)
    BY <1>2
  <2>. QED
    BY <1>4, <2>1 DEF CursorInv
<1>8. thr["cursor"].pc = "wait" /\ NoEvent' => Drawn'
  <2>. SUFFICES ASSUME thr["cursor"].pc = "wait", NoEvent'
                PROVE  Drawn'
    OBVIOUS
  <2>1. CASE c.event
    <3>1. c.cmd = "transfer" /\ c.id = cursor /\ Settled(1)
      BY <1>2, <2>1 DEF CursorInv
    <3>2. HostState.mem[c.id] = {CursorMem} /\ c.id \in Ids
      BY <1>2, <1>3, <2>1 DEF Fits, CtrlCommand
    <3>3. c.id \in DOMAIN host /\ host[c.id].mem = CursorMem
      BY <3>2 DEF HostState
    <3>4. cursor \in DOMAIN host' /\ host'[cursor].pix = pixels
      <4>1. host' = [host EXCEPT ![c.id].pix = pixels]
        BY <1>3, <3>1, <3>3 DEF Execute
      <4>2. host[c.id] \in Resource
        BY <1>1, <3>3 DEF TypeOK
      <4>. QED
        BY <3>1, <3>3, <4>1, <4>2 DEF Resource
    <3>5. Settled(0)'
      BY <1>2, <1>4, <3>1
    <3>6. pixels = shape
      BY DEF CursorInv
    <3>. QED
      BY <1>1, <3>4, <3>5, <3>6 DEF Drawn
  <2>2. CASE ~c.event
    <3>1. NoEvent
      <4>. SUFFICES ASSUME NEW i \in 1..n
                    PROVE  ~ctrl[i].event
        BY <1>2 DEF NoEvent
      <4>1. CASE i = 1
        BY <1>2, <2>2, <4>1
      <4>2. CASE i # 1
        <5>1. i - 1 \in 1..(n - 1) /\ ctrl'[i - 1] = ctrl[i]
          BY <1>2, <4>2
        <5>. QED
          BY <1>2, <5>1 DEF NoEvent
      <4>. QED
        BY <4>1, <4>2
    <3>. QED
      BY <1>6, <3>1 DEF CursorInv
  <2>. QED
    BY <2>1, <2>2
<1>9. thr["cursor"].pc = "update" => Drawn'
  BY <1>6 DEF CursorInv
<1>10. \A i \in DOMAIN crsr : crsr[i].cmd = "update" =>
          crsr[i].id = cursor /\ crsr[i].shape = shape /\ Drawn'
  BY <1>6 DEF CursorInv
<1>. QED
  BY <1>1, <1>7, <1>8, <1>9, <1>10 DEF CursorInv

\* The driver takes a step.
LEMMA DriverDraws ==
    ASSUME CursorKeepsUp, HostInv, HostInv', CursorInv,
           (\E t \in Threads : Destroy(t) \/ Create(t)) \/ Frame \/ Cursor, ~failed'
    PROVE  CursorInv'
<1>. DEFINE id == thr["cursor"].id
<1>1. TypeOK /\ TypeOK' /\ IdInv
  BY DEF HostInv, IdInv, TypeInv
<1>2. /\ thr \in [Threads -> ThreadState] /\ thr' \in [Threads -> ThreadState]
      /\ "frame" \in Threads /\ "cursor" \in Threads
  BY <1>1 DEF TypeOK, ThreadState, Threads
<1>3. \A t \in Threads : thr[t].pc \notin {"idle", "segment", "getid"} => thr[t].id \in Ids
  BY <1>1, Holds
<1>4. ASSUME Frame \/ Destroy("frame") \/ Create("frame")
      PROVE  CursorInv'
  <2>1. /\ UNCHANGED <<cursor, shape, pixels, crsr, host>>
        /\ thr'["cursor"] = thr["cursor"]
    <3>1. CASE Destroy("frame") \/ Create("frame")
      BY <1>2, <3>1 DEF Destroy, Create, InvalBacking, UnrefResource, PutId, GetId,
                        CreateResource, Post, ids, memory, device
    <3>2. CASE Frame
      BY <1>2, <3>2 DEF Frame, SetCurrentMode, StartReplacing, ReplaceSegment,
            AttachFrame, SetScanout, Present, TransferFrame, ResFlush, Post, ids, memory,
            device
    <3>. QED
      BY <1>4, <3>1, <3>2
  <2>2. \/ ctrl' = ctrl
        \/ \E c \in CtrlCommand : ctrl' = Append(ctrl, c) /\ ~c.event /\ c.id # cursor
    <3>1. CASE PutId("frame") \/ GetId("frame") \/ SetCurrentMode \/ ReplaceSegment
                 \/ Present
      BY <3>1 DEF PutId, GetId, SetCurrentMode, ReplaceSegment, Present
    <3>2. ASSUME NEW cmd, NEW next, Post("frame", cmd, next),
                 cmd \in {"detach", "unref", "create", "scanout", "transfer"}
          PROVE  \E c \in CtrlCommand : ctrl' = Append(ctrl, c) /\ ~c.event /\ c.id # cursor
      <4>1. thr["frame"].id # cursor /\ thr["frame"].id \in Ids
        BY <1>1, <3>2, FrameIsNotPointer DEF Post
      <4>2. [cmd |-> cmd, id |-> thr["frame"].id, mem |-> NULL, event |-> FALSE] \in CtrlCommand
        BY <3>2, <4>1 DEF CtrlCommand
      <4>. QED
        BY <3>2, <4>1, <4>2 DEF Post, Send
    <3>3. CASE InvalBacking("frame") \/ UnrefResource("frame") \/ CreateResource("frame")
                 \/ SetScanout \/ TransferFrame
      BY <3>2, <3>3 DEF InvalBacking, UnrefResource, CreateResource, SetScanout, TransferFrame
    <3>4. CASE AttachFrame
      <4>1. thr["frame"].id # cursor /\ thr["frame"].id \in Ids
        BY <1>1, <3>4, FrameIsNotPointer DEF AttachFrame
      <4>2. [cmd |-> "attach", id |-> thr["frame"].id, mem |-> segment, event |-> FALSE]
              \in CtrlCommand
        BY <1>1, <4>1 DEF CtrlCommand, TypeOK, Mems
      <4>. QED
        BY <3>4, <4>1, <4>2 DEF AttachFrame, Send
    <3>5. CASE ResFlush
      <4>1. thr["frame"].id # cursor /\ thr["frame"].id \in Ids
        BY <1>1, <3>5, FrameIsNotPointer DEF ResFlush
      <4>2. [cmd |-> "flush", id |-> thr["frame"].id, mem |-> NULL, event |-> FALSE]
              \in CtrlCommand
        BY <4>1 DEF CtrlCommand
      <4>. QED
        BY <3>5, <4>1, <4>2 DEF ResFlush, Send
    <3>. QED
      BY <1>4, <3>1, <3>3, <3>4, <3>5 DEF Frame, Destroy, Create
  <2>. QED
    BY <1>1, <2>1, <2>2, FrameLeavesPointer
<1>5. ASSUME Destroy("cursor") \/ Create("cursor") \/ AttachCursor \/ SetPointerShape
      PROVE  CursorInv'
  <2>1. /\ thr["cursor"].pc \in {"detach", "unref", "putid", "getid", "create", "attach",
                                 "idle"}
        /\ crsr = <<>> /\ crsr' = crsr
    <3>1. CASE SetPointerShape
      BY <3>1 DEF SetPointerShape
    <3>2. CASE Destroy("cursor") \/ Create("cursor") \/ AttachCursor
      BY <3>2 DEF CursorInv, Destroy, Create, InvalBacking, UnrefResource, PutId, GetId,
                  CreateResource, AttachCursor, Post
    <3>. QED
      BY <1>5, <3>1, <3>2
  <2>2. thr'["cursor"].pc \notin {"wait", "update"}
    <3>1. CASE InvalBacking("cursor") \/ UnrefResource("cursor") \/ CreateResource("cursor")
      BY <1>2, <3>1, ZenonT(60) DEF InvalBacking, UnrefResource, CreateResource, Post, ThreadState
    <3>2. CASE PutId("cursor") \/ GetId("cursor")
      BY <1>2, <3>2 DEF PutId, GetId, ThreadState
    <3>3. CASE SetPointerShape
      BY <1>2, <3>3 DEF SetPointerShape, StartReplacing
    <3>4. CASE AttachCursor
      <4>1. \/ thr' = [thr EXCEPT !["cursor"].pc = "transfer"]
            \/ thr' = [thr EXCEPT !["cursor"] = Idle]
        BY <3>4 DEF AttachCursor
      <4>. QED
        BY <1>2, <4>1 DEF Idle, ThreadState
    <3>. QED
      BY <1>5, <3>1, <3>2, <3>3, <3>4 DEF Destroy, Create
  <2>3. \/ ctrl' = ctrl
        \/ \E c \in CtrlCommand : ctrl' = Append(ctrl, c) /\ ~c.event
    <3>1. CASE PutId("cursor") \/ GetId("cursor") \/ SetPointerShape
      BY <3>1 DEF PutId, GetId, SetPointerShape
    <3>2. ASSUME NEW cmd, NEW next, Post("cursor", cmd, next),
                 cmd \in {"detach", "unref", "create"}
          PROVE  \E c \in CtrlCommand : ctrl' = Append(ctrl, c) /\ ~c.event
      <4>1. [cmd |-> cmd, id |-> id, mem |-> NULL, event |-> FALSE] \in CtrlCommand
        BY <1>2, <1>3, <3>2 DEF CtrlCommand, Post
      <4>. QED
        BY <3>2, <4>1 DEF Post, Send
    <3>3. CASE InvalBacking("cursor") \/ UnrefResource("cursor") \/ CreateResource("cursor")
      BY <3>2, <3>3 DEF InvalBacking, UnrefResource, CreateResource
    <3>4. CASE AttachCursor
      <4>1. [cmd |-> "attach", id |-> id, mem |-> CursorMem, event |-> FALSE] \in CtrlCommand
        BY <1>2, <1>3, <3>4 DEF CtrlCommand, AttachCursor, Mems
      <4>. QED
        BY <3>4, <4>1 DEF AttachCursor, Send
    <3>. QED
      BY <1>5, <3>1, <3>3, <3>4 DEF Destroy, Create
  <2>. QED
    BY <1>1, <2>1, <2>2, <2>3, NotDrawnYet
<1>6. CASE TransferCursor
  <2>. DEFINE c == [cmd |-> "transfer", id |-> id, mem |-> NULL, event |-> TRUE]
              n == Len(ctrl)
  <2>1. /\ thr["cursor"].pc = "transfer" /\ thr'["cursor"].pc = "wait"
        /\ ctrl' = Append(ctrl, c) /\ pixels' = shape
        /\ UNCHANGED <<cursor, shape, crsr>>
    BY <1>2, <1>6 DEF TransferCursor, Send, ids, ThreadState
  <2>2. cursor = id
    BY <1>1, <1>2, <2>1 DEF IdInv, TypeInv, IdKnown, Handover, Obj
  <2>3. NoEvent /\ crsr = <<>>
    BY <2>1 DEF CursorInv, NoEvent
  <2>4. /\ n \in Nat /\ Len(ctrl') = n + 1 /\ ctrl'[n + 1] = c
        /\ \A i \in DOMAIN ctrl' : i = n + 1 \/ (i \in DOMAIN ctrl /\ ctrl'[i] = ctrl[i])
        /\ n + 1 \in DOMAIN ctrl'
    BY <1>1, <2>1 DEF TypeOK
  <2>5. c.event /\ c.cmd = "transfer" /\ c.id = id
    OBVIOUS
  <2>. HIDE DEF c
  <2>6. /\ \A i \in DOMAIN ctrl' : ctrl'[i].event => i = n + 1
        /\ ~NoEvent'
    BY <2>3, <2>4, <2>5, Zenon DEF NoEvent
  <2>7. \A i \in {n + 1} : Settled(i)'
    BY <2>4 DEF Settled
  <2>8. \A i \in DOMAIN ctrl' : ctrl'[i].event =>
          thr'["cursor"].pc = "wait" /\ ctrl'[i].cmd = "transfer" /\ ctrl'[i].id = cursor'
          /\ Settled(i)'
    <3>. SUFFICES ASSUME NEW i \in DOMAIN ctrl', ctrl'[i].event
                  PROVE  thr'["cursor"].pc = "wait" /\ ctrl'[i].cmd = "transfer"
                         /\ ctrl'[i].id = cursor' /\ Settled(i)'
      OBVIOUS
    <3>1. i = n + 1
      BY <2>6
    <3>2. ctrl'[i] = c
      BY <2>4, <3>1
    <3>3. Settled(i)'
      BY <2>7, <3>1
    <3>. QED
      BY <2>1, <2>2, <2>5, <3>2, <3>3
  <2>. QED
    BY <2>1, <2>3, <2>6, <2>8 DEF CursorInv
<1>7. CASE TransferWait
  <2>1. /\ thr["cursor"].pc = "wait" /\ thr'["cursor"].pc = "update" /\ NoEvent
        /\ UNCHANGED <<cursor, shape, pixels, ctrl, crsr, host>>
    BY <1>2, <1>7 DEF TransferWait, NoEvent, ids, memory, device, ThreadState
  <2>2. Drawn /\ crsr = <<>> /\ pixels = shape
    BY <2>1 DEF CursorInv
  <2>3. Drawn' /\ NoEvent'
    BY <2>1, <2>2 DEF Drawn, Settled, NoEvent
  <2>. QED
    BY <2>1, <2>2, <2>3 DEF CursorInv, NoEvent
<1>8. CASE UpdateCursor
  <2>1. /\ thr["cursor"].pc = "update" /\ thr'["cursor"].pc = "idle"
        /\ crsr' = Append(crsr, [cmd |-> "update", id |-> cursor, shape |-> shape])
        /\ UNCHANGED <<cursor, shape, pixels, ctrl, host>>
    BY <1>2, <1>8 DEF UpdateCursor, ids, memory, device, Idle
  <2>2. Drawn /\ crsr = <<>> /\ NoEvent
    BY <2>1 DEF CursorInv, NoEvent
  <2>3. Drawn' /\ NoEvent'
    BY <2>1, <2>2 DEF Drawn, Settled, NoEvent
  <2>4. \A i \in DOMAIN crsr' : crsr'[i].id = cursor' /\ crsr'[i].shape = shape'
    BY <2>1, <2>2
  <2>. QED
    BY <2>1, <2>3, <2>4 DEF CursorInv, NoEvent
<1>9. CASE \E visible \in BOOLEAN : MoveCursor(visible)
  <2>1. PICK m \in CrsrCommand : m.cmd = "move" /\ crsr' = Append(crsr, m)
    <3>1. PICK v \in Ids : crsr' = Append(crsr, [cmd |-> "move", id |-> v, shape |-> 0])
      BY <1>1, <1>9, IdFacts DEF MoveCursor, TypeOK
    <3>2. [cmd |-> "move", id |-> v, shape |-> 0] \in CrsrCommand
      BY BoundAssumption DEF CrsrCommand
    <3>. QED
      BY <3>1, <3>2
  <2>2. /\ thr["cursor"].pc = "idle"
        /\ UNCHANGED <<cursor, shape, pixels, thr, ctrl, host>>
    BY <1>9 DEF MoveCursor, ids, memory, device
  <2>3. NoEvent /\ NoEvent' /\ (Drawn' <=> Drawn)
    BY <2>2 DEF CursorInv, NoEvent, Drawn, Settled
  <2>4. \A i \in DOMAIN crsr' : crsr'[i].cmd = "update" =>
          i \in DOMAIN crsr /\ crsr'[i] = crsr[i]
    BY <1>1, <2>1 DEF TypeOK
  <2>5. \A i \in DOMAIN crsr' : crsr'[i].cmd = "update" =>
          crsr'[i].id = cursor' /\ crsr'[i].shape = shape' /\ Drawn'
    BY <2>2, <2>3, <2>4 DEF CursorInv
  <2>. QED
    BY <2>2, <2>3, <2>5 DEF CursorInv, NoEvent
<1>. QED
  BY <1>4, <1>5, <1>6, <1>7, <1>8, <1>9 DEF Cursor, Threads

\* The host executes a command of the cursor queue.
LEMMA CrsrDraws ==
    ASSUME CursorInv, TypeOK, HostCrsr
    PROVE  CursorInv'
<1>1. /\ crsr \in Seq(CrsrCommand) /\ crsr # <<>> /\ crsr' = Tail(crsr)
      /\ UNCHANGED <<cursor, shape, pixels, thr, ctrl, host>>
  BY DEF HostCrsr, TypeOK, ids, memory, device
<1>2. \A i \in DOMAIN crsr' : i + 1 \in DOMAIN crsr /\ crsr'[i] = crsr[i + 1]
  BY <1>1
<1>3. /\ Drawn' <=> Drawn
      /\ NoEvent' <=> NoEvent
      /\ \A i \in DOMAIN ctrl : Settled(i)' <=> Settled(i)
  BY <1>1 DEF Drawn, NoEvent, Settled
<1>4. \A i \in DOMAIN crsr' : crsr'[i].cmd = "update" =>
        crsr'[i].id = cursor' /\ crsr'[i].shape = shape' /\ Drawn'
  BY <1>1, <1>2, <1>3 DEF CursorInv
<1>. QED
  BY <1>1, <1>3, <1>4 DEF CursorInv

\* When the cursor queue keeps up with the shapes, and until an allocation fails,
\* UPDATE_CURSOR finds the pointer's resource with the shape it was posted for:
\* SetPointerShape waits for the transfer, and nothing else touches the resource
\* before the host executes the update, for any interleaving of the two threads and
\* the two queues.
THEOREM CursorCorrect ==
    ASSUME CursorKeepsUp
    PROVE  Spec => []CursorShown
<1>. DEFINE Inv == TypeInv /\ (~failed => HostInv /\ CursorInv)
<1>1. Init => Inv
  <2>1. Init => CursorInv
    BY DEF Init, Idle, CursorInv, NoEvent, Threads
  <2>. QED
    BY <2>1, InitType, InitHost
<1>2. Inv /\ [Next]_vars => Inv'
  <2>. SUFFICES ASSUME TypeInv, HostInv, CursorInv, [Next]_vars, ~failed'
                PROVE  CursorInv'
    BY NextType, NextHost, FailedStays
  <2>1. HostInv'
    BY NextHost
  <2>2. CASE (\E t \in Threads : Destroy(t) \/ Create(t)) \/ Frame \/ Cursor
    BY <2>1, <2>2, DriverDraws
  <2>3. CASE HostCtrl
    BY <2>3, CtrlDraws
  <2>4. CASE HostCrsr
    BY <2>4, CrsrDraws DEF TypeInv
  <2>5. CASE UNCHANGED vars
    BY <2>5 DEF vars, CursorInv, NoEvent, Drawn, Settled
  <2>. QED
    BY <2>2, <2>3, <2>4, <2>5 DEF Next, Host
<1>3. Inv => CursorShown
  <2>. SUFFICES ASSUME TypeOK, CursorInv, crsr # <<>>, Head(crsr).cmd = "update"
                PROVE  /\ Head(crsr).id \in DOMAIN host
                       /\ host[Head(crsr).id].pix = Head(crsr).shape
    BY DEF TypeInv, CursorShown
  <2>1. 1 \in DOMAIN crsr /\ Head(crsr) = crsr[1]
    BY DEF TypeOK
  <2>. QED
    BY <2>1 DEF CursorInv, Drawn
<1>. QED
  BY <1>1, <1>2, <1>3, PTL DEF Spec

-----------------------------------------------------------------------------
(* Memory that the driver frees                                            *)
(*                                                                         *)
(* Failed allocations leak ids, and bring the id 0 and the shared NoId     *)
(* into use; the other ids still have one holder at most.                  *)

\* The ids the driver hands out.
RealIds == 1..MaxId

\* What holds even after an allocation failed: the ids in use are marked in the bitmap,
\* and the two threads hold different ones.
LeakInv ==
    /\ TypeInv
    /\ \A t \in Threads : Handover(t) /\ HeldBy(t) \cap RealIds \subseteq used
    /\ HeldBy("frame") \cap HeldBy("cursor") \cap RealIds = {}
    /\ thr["frame"].pc \in {"scanout", "transfer", "flush"} =>
          thr["frame"].obj \in {0, thr["frame"].id} /\ frame \in {NULL, thr["frame"].obj}
    /\ thr["frame"].pc \notin {"scanout", "transfer", "flush"} => thr["frame"].obj = NULL

\* At the beginning there is no resource.
LEMMA InitLeak == Init => LeakInv
BY InitType, IdFacts DEF Init, LeakInv, Handover, Obj, HeldBy, Idle, Threads

\* A step of thread t after which it holds no real id it did not hold before.
LEMMA KeepsIds ==
    ASSUME LeakInv, TypeInv', NEW t \in Threads, NEW u \in Threads \ {t},
           thr'[u] = thr[u], Obj(u)' = Obj(u), used' = used, Handover(t)',
           HeldBy(t)' \cap RealIds \subseteq HeldBy(t)
    PROVE  /\ \A v \in Threads : Handover(v)' /\ HeldBy(v)' \cap RealIds \subseteq used'
           /\ HeldBy("frame")' \cap HeldBy("cursor")' \cap RealIds = {}
<1>1. Threads = {t, u} /\ Threads = {"frame", "cursor"}
  BY DEF Threads
<1>2. HeldBy(u)' = HeldBy(u) /\ (Handover(u)' <=> Handover(u))
  BY DEF HeldBy, Obj, Handover
<1>. QED
  BY <1>1, <1>2 DEF LeakInv

\* Every step keeps LeakInv.
LEMMA NextLeak ==
    ASSUME LeakInv, [Next]_vars
    PROVE  LeakInv'
<1>1. TypeInv' /\ TypeInv
  BY NextType DEF LeakInv
<1>2. /\ thr \in [Threads -> ThreadState] /\ thr' \in [Threads -> ThreadState]
      /\ "frame" \in Threads /\ "cursor" \in Threads \ {"frame"}
      /\ "frame" \in Threads \ {"cursor"} /\ "cursor" \in Threads
  BY <1>1 DEF TypeInv, TypeOK, ThreadState, Threads
<1>. DEFINE ObjKnown ==
              /\ thr["frame"].pc \in {"scanout", "transfer", "flush"} =>
                    thr["frame"].obj \in {0, thr["frame"].id}
                    /\ frame \in {NULL, thr["frame"].obj}
              /\ thr["frame"].pc \notin {"scanout", "transfer", "flush"} =>
                    thr["frame"].obj = NULL
<1>3. ObjKnown
  BY DEF LeakInv
<1>4. ASSUME NEW t \in Threads, InvalBacking(t) \/ UnrefResource(t) \/ CreateResource(t)
      PROVE  LeakInv'
  <2>1. PICK u \in Threads \ {t} : TRUE
    BY DEF Threads
  <2>2. PICK cmd \in {"detach", "unref", "create"}, next \in {"unref", "putid", "attach"} :
          /\ thr[t].pc = cmd /\ thr' = [thr EXCEPT ![t].pc = next]
          /\ <<cmd, next>> \in {<<"detach", "unref">>, <<"unref", "putid">>,
                                <<"create", "attach">>}
          /\ UNCHANGED <<used, frame, cursor>>
    BY <1>4 DEF InvalBacking, UnrefResource, CreateResource, Post, ids
  <2>3. /\ thr'[u] = thr[u] /\ thr'[t].id = thr[t].id /\ thr'[t].obj = thr[t].obj
        /\ thr'[t].pc = next /\ Obj(u)' = Obj(u) /\ Obj(t)' = Obj(t)
    BY <1>2, <2>2 DEF ThreadState, Obj
  <2>4. Handover(t)' /\ HeldBy(t)' = HeldBy(t)
    BY <2>2, <2>3 DEF LeakInv, Handover, HeldBy
  <2>5. ObjKnown'
    BY <1>2, <1>3, <2>2 DEF ThreadState
  <2>. QED
    BY <1>1, <2>2, <2>3, <2>4, <2>5, KeepsIds DEF LeakInv
<1>5. CASE SetScanout \/ TransferFrame
  <2>1. PICK cmd \in {"scanout", "transfer"}, next \in {"transfer", "flush"} :
          /\ thr["frame"].pc = cmd /\ thr' = [thr EXCEPT !["frame"].pc = next]
          /\ UNCHANGED <<used, frame, cursor>>
    BY <1>5 DEF SetScanout, TransferFrame, Post, ids
  <2>2. /\ thr'["cursor"] = thr["cursor"] /\ thr'["frame"].id = thr["frame"].id
        /\ thr'["frame"].obj = thr["frame"].obj
        /\ thr'["frame"].pc = next
        /\ Obj("cursor")' = Obj("cursor") /\ Obj("frame")' = Obj("frame")
    BY <1>2, <2>1 DEF ThreadState, Obj
  <2>3. Handover("frame")' /\ HeldBy("frame")' = HeldBy("frame")
    BY <1>2, <2>1, <2>2 DEF LeakInv, Handover, HeldBy
  <2>4. ObjKnown'
    BY <1>2, <1>3, <2>1 DEF ThreadState
  <2>. QED
    BY <1>1, <1>2, <2>1, <2>2, <2>3, <2>4, KeepsIds DEF LeakInv
<1>6. ASSUME NEW t \in Threads, GetId(t)
      PROVE  LeakInv'
  <2>1. PICK u \in Threads \ {t} : Threads = {t, u}
    BY DEF Threads
  <2>2. PICK x \in Ids :
          /\ thr' = [thr EXCEPT ![t].pc = "create", ![t].id = x]
          /\ x \in RealIds => x \notin used /\ x \in used'
          /\ used \subseteq used'
          /\ x # NULL
    <3>1. CASE Clear = {}
      <4>1. /\ thr' = [thr EXCEPT ![t].pc = "create", ![t].id = NoId] /\ used' = used
        BY <1>6, <3>1 DEF GetId
      <4>2. NoId \in Ids /\ NoId \notin RealIds /\ NoId # NULL
        BY IdFacts, IdAssumption DEF RealIds, NoId
      <4>. QED
        BY <4>1, <4>2
    <3>2. CASE Clear # {}
      <4>1. /\ thr' = [thr EXCEPT ![t].pc = "create", ![t].id = FirstClear]
            /\ used' = used \cup {FirstClear}
        BY <1>6, <3>2 DEF GetId
      <4>2. FirstClear \in Ids /\ FirstClear \notin used /\ FirstClear # NULL
        BY <3>2, FirstClearIsClear, IdFacts DEF Clear
      <4>. QED
        BY <4>1, <4>2
    <3>. QED
      BY <3>1, <3>2
  <2>3. /\ thr'[u] = thr[u] /\ thr'[t].id = x /\ thr'[t].pc = "create"
        /\ thr'[t].obj = thr[t].obj /\ thr[t].pc = "getid"
        /\ Obj(u)' = Obj(u) /\ Obj(t)' = Obj(t) /\ frame' = frame
    BY <1>2, <1>6, <2>2 DEF GetId, Obj, ThreadState
  <2>4. HeldBy(u)' = HeldBy(u) /\ HeldBy(t)' = {x} /\ Handover(u)' /\ Handover(t)'
    BY <2>2, <2>3 DEF LeakInv, HeldBy, Handover, Obj
  <2>5. \A v \in Threads : Handover(v)' /\ HeldBy(v)' \cap RealIds \subseteq used'
    BY <2>1, <2>2, <2>4 DEF LeakInv
  <2>6. x \in RealIds => x \notin HeldBy(u)
    BY <2>2 DEF LeakInv
  <2>7. HeldBy("frame")' \cap HeldBy("cursor")' \cap RealIds = {}
    BY <2>1, <2>4, <2>6 DEF Threads
  <2>8. ObjKnown'
    BY <1>3, <2>1, <2>3 DEF Threads
  <2>. QED
    BY <1>1, <2>5, <2>7, <2>8 DEF LeakInv
<1>7. ASSUME NEW t \in Threads, PutId(t)
      PROVE  LeakInv'
  <2>1. PICK u \in Threads \ {t} : Threads = {t, u}
    BY DEF Threads
  <2>2. /\ thr'[u] = thr[u] /\ thr'[t].id = NULL /\ thr'[t].pc \in {"segment", "getid"}
        /\ thr'[t].obj = thr[t].obj /\ thr[t].pc = "putid"
        /\ Obj(u)' = Obj(u) /\ Obj(t)' = NULL /\ used' = used \ {thr[t].id}
        /\ thr[t].id # NULL
    BY <1>1, <1>2, <1>7, <2>1 DEF PutId, Obj, ThreadState, Threads, TypeInv, IdKnown
  <2>3. HeldBy(u)' = HeldBy(u) /\ HeldBy(t)' = {} /\ Handover(u)' /\ Handover(t)'
    BY <2>2 DEF LeakInv, HeldBy, Handover, Obj
  <2>4. thr[t].id \in HeldBy(t)
    BY <2>2 DEF HeldBy
  <2>5. thr[t].id \in RealIds => thr[t].id \notin HeldBy(u)
    BY <2>1, <2>4 DEF LeakInv, Threads
  <2>6. \A v \in Threads : Handover(v)' /\ HeldBy(v)' \cap RealIds \subseteq used'
    BY <2>1, <2>2, <2>3, <2>5 DEF LeakInv
  <2>7. HeldBy("frame")' \cap HeldBy("cursor")' \cap RealIds = {}
    BY <2>1, <2>3 DEF Threads
  <2>8. ObjKnown'
    <3>1. CASE t = "frame"
      BY <1>3, <2>2, <3>1
    <3>2. CASE u = "frame"
      BY <1>3, <2>2, <3>2 DEF Obj
    <3>. QED
      BY <2>1, <3>1, <3>2 DEF Threads
  <2>. QED
    BY <1>1, <2>6, <2>7, <2>8 DEF LeakInv
<1>8. CASE SetCurrentMode
  <2>1. /\ thr'["cursor"] = thr["cursor"] /\ UNCHANGED <<used, frame, cursor>>
        /\ thr["frame"].pc = "idle" /\ thr'["frame"].obj = NULL /\ thr'["frame"].id = frame
        /\ thr'["frame"].pc = (IF frame = NULL THEN "segment" ELSE "detach")
    BY <1>2, <1>8 DEF SetCurrentMode, StartReplacing, ids
  <2>2. /\ Obj("cursor")' = Obj("cursor") /\ Handover("frame")'
        /\ HeldBy("frame")' \subseteq HeldBy("frame") /\ ObjKnown'
    BY <1>2, <2>1 DEF LeakInv, Handover, HeldBy, Obj
  <2>. QED
    BY <1>1, <1>2, <2>1, <2>2, KeepsIds DEF LeakInv
<1>9. CASE ReplaceSegment
  <2>1. /\ \/ thr' = [thr EXCEPT !["frame"].pc = "getid"]
           \/ thr' = [thr EXCEPT !["frame"] = Idle]
        /\ UNCHANGED <<used, frame, cursor>> /\ thr["frame"].pc = "segment"
    BY <1>9 DEF ReplaceSegment, ids
  <2>2. thr["frame"].obj = NULL /\ thr["frame"].id = NULL /\ frame = NULL
    BY <1>2, <2>1 DEF LeakInv, Handover, Obj
  <2>3. /\ thr'["cursor"] = thr["cursor"]
        /\ thr'["frame"].pc \in {"getid", "idle"}
        /\ thr'["frame"].id = NULL /\ thr'["frame"].obj = NULL
    <3>1. CASE thr' = [thr EXCEPT !["frame"].pc = "getid"]
      BY <1>2, <2>2, <3>1 DEF ThreadState
    <3>2. CASE thr' = [thr EXCEPT !["frame"] = Idle]
      BY <1>2, <3>2 DEF Idle
    <3>. QED
      BY <2>1, <3>1, <3>2
  <2>4. /\ Obj("cursor")' = Obj("cursor") /\ Handover("frame")'
        /\ HeldBy("frame")' = {} /\ ObjKnown'
    BY <2>1, <2>2, <2>3 DEF Handover, HeldBy, Obj
  <2>. QED
    BY <1>1, <1>2, <2>1, <2>3, <2>4, KeepsIds DEF LeakInv
<1>10. CASE AttachFrame
  <2>1. PICK obj \in {0, thr["frame"].id} :
          /\ thr' = [thr EXCEPT !["frame"].pc = "scanout", !["frame"].obj = obj]
          /\ UNCHANGED <<used, frame, cursor>> /\ thr["frame"].pc = "attach"
    BY <1>10 DEF AttachFrame, ids
  <2>2. /\ thr'["cursor"] = thr["cursor"]
        /\ thr'["frame"].pc = "scanout" /\ thr'["frame"].obj = obj
        /\ thr'["frame"].id = thr["frame"].id /\ frame = NULL
    <3>1. frame = NULL
      BY <1>2, <2>1 DEF LeakInv, Handover, Obj
    <3>2. obj \in Ids \cup {NULL}
      BY <1>2, IdFacts DEF ThreadState
    <3>. QED
      BY <1>2, <2>1, <3>1, <3>2 DEF ThreadState
  <2>3. /\ Obj("cursor")' = Obj("cursor") /\ Handover("frame")'
        /\ HeldBy("frame")' = HeldBy("frame") /\ ObjKnown'
    BY <2>1, <2>2 DEF Handover, HeldBy, Obj
  <2>. QED
    BY <1>1, <1>2, <2>1, <2>2, <2>3, KeepsIds DEF LeakInv
<1>11. CASE Present
  <2>1. /\ thr'["cursor"] = thr["cursor"] /\ UNCHANGED <<used, frame, cursor>>
        /\ thr["frame"].pc = "idle" /\ thr'["frame"].pc = "transfer"
        /\ thr'["frame"].obj = frame /\ thr'["frame"].id = frame
    BY <1>2, <1>11 DEF Present, ids
  <2>2. /\ Obj("cursor")' = Obj("cursor") /\ Handover("frame")'
        /\ HeldBy("frame")' \subseteq HeldBy("frame") /\ ObjKnown'
    BY <1>2, <2>1 DEF LeakInv, Handover, HeldBy, Obj
  <2>. QED
    BY <1>1, <1>2, <2>1, <2>2, KeepsIds DEF LeakInv
<1>12. CASE ResFlush
  <2>1. /\ thr'["cursor"] = thr["cursor"] /\ UNCHANGED <<used, cursor>>
        /\ thr["frame"].pc = "flush" /\ thr'["frame"] = Idle /\ frame' = thr["frame"].obj
    BY <1>2, <1>12 DEF ResFlush
  <2>2. frame' \in {0, thr["frame"].id}
    BY <2>1 DEF LeakInv
  <2>3. /\ Obj("cursor")' = Obj("cursor") /\ Handover("frame")'
        /\ HeldBy("frame")' \cap RealIds \subseteq HeldBy("frame") /\ ObjKnown'
    BY <2>1, <2>2 DEF Handover, HeldBy, Obj, Idle, RealIds
  <2>. QED
    BY <1>1, <1>2, <2>1, <2>3, KeepsIds DEF LeakInv
<1>13. ASSUME SetPointerShape \/ AttachCursor \/ TransferCursor \/ TransferWait
                \/ UpdateCursor
       PROVE  LeakInv'
  <2>1. /\ thr'["frame"] = thr["frame"] /\ UNCHANGED <<used, frame>>
    <3>1. CASE AttachCursor
      <4>1. \/ thr' = [thr EXCEPT !["cursor"].pc = "transfer"]
            \/ thr' = [thr EXCEPT !["cursor"] = Idle]
        BY <3>1 DEF AttachCursor
      <4>. QED
        BY <1>2, <3>1, <4>1 DEF AttachCursor
    <3>2. CASE ~AttachCursor
      BY <1>2, <1>13, <3>2 DEF SetPointerShape, TransferCursor, TransferWait,
            UpdateCursor, StartReplacing, ids
    <3>. QED
      BY <3>1, <3>2
  <2>2. Handover("cursor")' /\ HeldBy("cursor")' \subseteq HeldBy("cursor")
    <3>1. CASE SetPointerShape
      <4>1. /\ thr["cursor"].pc = "idle" /\ cursor' = cursor /\ thr'["cursor"].id = cursor
            /\ thr'["cursor"].pc = (IF cursor = NULL THEN "getid" ELSE "detach")
        BY <1>2, <3>1 DEF SetPointerShape, StartReplacing, ids
      <4>. QED
        BY <1>2, <4>1 DEF Handover, HeldBy, Obj
    <3>2. CASE AttachCursor
      <4>1. /\ \/ thr' = [thr EXCEPT !["cursor"].pc = "transfer"]
                  /\ cursor' = thr["cursor"].id
               \/ thr' = [thr EXCEPT !["cursor"] = Idle]
                  /\ cursor' \in {thr["cursor"].id, cursor}
            /\ thr["cursor"].pc = "attach"
        BY <3>2 DEF AttachCursor
      <4>2. CASE thr' = [thr EXCEPT !["cursor"].pc = "transfer"] /\ cursor' = thr["cursor"].id
        <5>1. thr'["cursor"].pc = "transfer" /\ thr'["cursor"].id = thr["cursor"].id
          BY <1>2, <4>2 DEF ThreadState
        <5>. QED
          BY <4>2, <5>1 DEF Handover, HeldBy, Obj
      <4>3. CASE thr' = [thr EXCEPT !["cursor"] = Idle] /\ cursor' \in {thr["cursor"].id, cursor}
        <5>1. thr'["cursor"].pc = "idle" /\ thr'["cursor"].id = NULL
          BY <1>2, <4>3 DEF Idle
        <5>. QED
          BY <4>3, <5>1 DEF Handover, HeldBy, Obj
      <4>. QED
        BY <4>1, <4>2, <4>3
    <3>3. CASE TransferCursor \/ TransferWait
      <4>1. /\ thr["cursor"].pc \in {"transfer", "wait"}
            /\ thr'["cursor"].pc \in {"wait", "update"}
            /\ thr'["cursor"].id = thr["cursor"].id /\ cursor' = cursor
        <5>1. CASE TransferCursor
          BY <1>2, <5>1 DEF TransferCursor, ids, ThreadState
        <5>2. CASE TransferWait
          BY <1>2, <5>2 DEF TransferWait, ids, ThreadState
        <5>. QED
          BY <3>3, <5>1, <5>2
      <4>. QED
        BY <1>2, <4>1 DEF LeakInv, Handover, HeldBy, Obj
    <3>4. CASE UpdateCursor
      <4>1. thr'["cursor"] = Idle /\ cursor' = cursor
        BY <1>2, <3>4 DEF UpdateCursor, ids
      <4>2. thr'["cursor"].pc = "idle" /\ thr'["cursor"].id = NULL
        BY <4>1 DEF Idle
      <4>. QED
        BY <4>1, <4>2 DEF Handover, HeldBy, Obj
    <3>. QED
      BY <1>13, <3>1, <3>2, <3>3, <3>4
  <2>3. Obj("frame")' = Obj("frame") /\ ObjKnown'
    BY <1>3, <2>1 DEF Obj
  <2>. QED
    BY <1>1, <1>2, <2>1, <2>2, <2>3, KeepsIds DEF LeakInv
<1>14. CASE (\E visible \in BOOLEAN : MoveCursor(visible)) \/ Host \/ UNCHANGED vars
  <2>1. UNCHANGED <<used, frame, cursor, thr>>
    BY <1>14 DEF MoveCursor, Host, HostCtrl, HostCrsr, ids, vars
  <2>. QED
    BY <1>1, <2>1 DEF LeakInv, Handover, HeldBy, Obj
<1>. QED
  BY <1>4, <1>5, <1>6, <1>7, <1>8, <1>9, <1>10, <1>11, <1>12, <1>13, <1>14
  DEF Next, Destroy, Create, Frame, Cursor

\* The frame buffer that the driver has, or is setting up, is this one.
Live(id) == id \in {frame, thr["frame"].obj} /\ thr["frame"].pc \notin {"unref", "putid"}

\* The resource was created anew by the thread that holds the id.
Renewed(id) ==
    \E t \in Threads :
        id \in HeldBy(t) /\ thr[t].pc \notin {"create", "detach", "unref", "putid"}

\* Memory m backs the resource on the host (p = 0), or will once the host has
\* executed the command at p.
Backs(p, id, m) ==
    IF p = 0 THEN id \in DOMAIN host /\ host[id].mem = m
    ELSE ctrl[p].cmd = "attach" /\ ctrl[p].id = id /\ ctrl[p].mem = m

\* Command i takes the memory of id away from the host.
TakesAway(i, id) == ctrl[i].cmd \in {"detach", "unref"} /\ ctrl[i].id = id
\* Command k creates id.
Creates(k, id) == ctrl[k].cmd = "create" /\ ctrl[k].id = id
\* Command j makes the host read the memory of id.
Transfers(j, id) == ctrl[j].cmd = "transfer" /\ ctrl[j].id = id

\* The command at i takes the memory away, and nothing after it uses it: a transfer
\* that follows, or may be posted now, is of a resource created after it.
WithdrawnAt(i, id) ==
    /\ TakesAway(i, id)
    /\ \A j \in (i + 1)..Len(ctrl) : Transfers(j, id) => \E k \in i..j : Creates(k, id)
    /\ Renewed(id) => \E k \in i..Len(ctrl) : Creates(k, id)

\* A command after p takes the memory of id away.
Withdrawn(p, id) == \E i \in (p + 1)..Len(ctrl) : WithdrawnAt(i, id)

\* Memory that was freed is withdrawn before the host can read it.
BackingInv ==
    \A id \in RealIds, p \in 0..Len(ctrl), m \in FrameMems :
        Backs(p, id, m) => (Live(id) /\ m = segment) \/ Withdrawn(p, id)

\* The inductive invariant of FreedBackingIsWithdrawn.
WithdrawInv == LeakInv /\ 0 \notin DOMAIN host /\ BackingInv

\* A step that posts nothing.
LEMMA NothingPosted ==
    ASSUME BackingInv, UNCHANGED <<ctrl, host>>,
           \A id \in RealIds : Live(id) => Live(id)' /\ segment' = segment,
           \A id \in RealIds : Renewed(id)' => Renewed(id)
    PROVE  BackingInv'
<1>. SUFFICES ASSUME NEW id \in RealIds, NEW p \in 0..Len(ctrl), NEW m \in FrameMems,
                     Backs(p, id, m), ~(Live(id)' /\ m = segment')
              PROVE  Withdrawn(p, id)'
  BY DEF BackingInv, Backs
<1>1. Withdrawn(p, id)
  BY DEF BackingInv
<1>2. PICK i \in (p + 1)..Len(ctrl) : WithdrawnAt(i, id)
  BY <1>1 DEF Withdrawn
<1>3. WithdrawnAt(i, id)'
  BY <1>2 DEF WithdrawnAt, TakesAway, Transfers, Creates
<1>. QED
  BY <1>3 DEF Withdrawn

\* A step that posts command c.
LEMMA OnePosted ==
    ASSUME BackingInv, TypeOK, NEW c \in CtrlCommand,
           ctrl' = Append(ctrl, c), UNCHANGED <<host, segment>>,
           \A id \in RealIds : Live(id) /\ ~Live(id)' =>
              c.cmd \in {"detach", "unref"} /\ c.id = id /\ ~Renewed(id)',
           \A id \in RealIds : Renewed(id)' =>
              Renewed(id) \/ (c.cmd = "create" /\ c.id = id),
           c.cmd = "transfer" /\ c.id \in RealIds => Renewed(c.id),
           c.cmd = "attach" /\ c.id \in RealIds /\ c.mem \in FrameMems =>
              Live(c.id)' /\ c.mem = segment
    PROVE  BackingInv'
<1>. DEFINE n == Len(ctrl)
<1>1. /\ n \in Nat /\ Len(ctrl') = n + 1 /\ ctrl'[n + 1] = c
      /\ \A i \in 1..n : ctrl'[i] = ctrl[i]
  BY DEF TypeOK
<1>. SUFFICES ASSUME NEW id \in RealIds, NEW p \in 0..(n + 1), NEW m \in FrameMems,
                     Backs(p, id, m)', ~(Live(id)' /\ m = segment')
              PROVE  Withdrawn(p, id)'
  BY <1>1 DEF BackingInv
<1>2. p # n + 1
  BY <1>1 DEF Backs
<1>3. p \in 0..n /\ Backs(p, id, m)
  BY <1>1, <1>2 DEF Backs
<1>4. CASE Live(id) /\ m = segment
  <2>1. c.cmd \in {"detach", "unref"} /\ c.id = id /\ ~Renewed(id)'
    BY <1>4
  <2>2. \A i \in {n + 1} : WithdrawnAt(i, id)'
    BY <1>1, <2>1 DEF WithdrawnAt, TakesAway
  <2>. QED
    BY <1>1, <1>3, <2>2 DEF Withdrawn
<1>5. CASE ~(Live(id) /\ m = segment)
  <2>1. PICK i \in (p + 1)..n : WithdrawnAt(i, id)
    BY <1>3, <1>5 DEF BackingInv, Withdrawn
  <2>2. i \in 1..n /\ TakesAway(i, id)'
    BY <1>1, <2>1 DEF WithdrawnAt, TakesAway
  <2>3. \A k \in 1..n : Creates(k, id) => Creates(k, id)'
    BY <1>1 DEF Creates
  <2>4. \A j \in (i + 1)..(n + 1) : Transfers(j, id)' => \E k \in i..j : Creates(k, id)'
    <3>. SUFFICES ASSUME NEW j \in (i + 1)..(n + 1), Transfers(j, id)'
                  PROVE  \E k \in i..j : Creates(k, id)'
      OBVIOUS
    <3>1. CASE j = n + 1
      <4>1. Renewed(id)
        BY <1>1, <3>1 DEF Transfers
      <4>2. PICK k \in i..n : Creates(k, id)
        BY <2>1, <4>1 DEF WithdrawnAt
      <4>. QED
        BY <2>2, <2>3, <3>1, <4>2
    <3>2. CASE j # n + 1
      <4>1. j \in (i + 1)..n /\ Transfers(j, id)
        BY <1>1, <2>2, <3>2 DEF Transfers
      <4>2. PICK k \in i..j : Creates(k, id)
        BY <2>1, <4>1 DEF WithdrawnAt
      <4>. QED
        BY <2>2, <2>3, <4>1, <4>2
    <3>. QED
      BY <3>1, <3>2
  <2>5. Renewed(id)' => \E k \in i..(n + 1) : Creates(k, id)'
    <3>. SUFFICES ASSUME Renewed(id)'
                  PROVE  \E k \in i..(n + 1) : Creates(k, id)'
      OBVIOUS
    <3>1. CASE Renewed(id)
      <4>1. PICK k \in i..n : Creates(k, id)
        BY <2>1, <3>1 DEF WithdrawnAt
      <4>. QED
        BY <2>2, <2>3, <4>1
    <3>2. CASE c.cmd = "create" /\ c.id = id
      <4>1. \A k \in {n + 1} : Creates(k, id)'
        BY <1>1, <3>2 DEF Creates
      <4>. QED
        BY <2>2, <4>1
    <3>. QED
      BY <3>1, <3>2
  <2>6. WithdrawnAt(i, id)'
    BY <1>1, <2>2, <2>4, <2>5 DEF WithdrawnAt
  <2>7. i \in (p + 1)..Len(ctrl')
    BY <1>1, <2>1
  <2>. QED
    BY <2>6, <2>7 DEF Withdrawn
<1>. QED
  BY <1>4, <1>5

\* The host executes a command.
LEMMA OneExecuted ==
    ASSUME WithdrawInv, HostCtrl
    PROVE  0 \notin DOMAIN host' /\ BackingInv'
<1>. DEFINE n == Len(ctrl)
            c == Head(ctrl)
<1>1. /\ ctrl \in Seq(CtrlCommand) /\ ctrl' = Tail(ctrl) /\ TypeOK
      /\ UNCHANGED <<used, frame, cursor, segment, thr>>
  BY DEF HostCtrl, WithdrawInv, LeakInv, TypeInv, TypeOK, ids, memory
<1>2. /\ n \in Nat /\ n > 0 /\ c \in CtrlCommand /\ c = ctrl[1]
      /\ Len(ctrl') = n - 1 /\ \A i \in 1..(n - 1) : ctrl'[i] = ctrl[i + 1]
  BY <1>1 DEF HostCtrl
<1>3. \A id \in RealIds : (Live(id)' <=> Live(id)) /\ (Renewed(id)' <=> Renewed(id))
  BY <1>1 DEF Live, Renewed, HeldBy
<1>4. IF Accepts(c) THEN Execute(c) ELSE host' = host
  BY DEF HostCtrl, device
<1>. HIDE DEF c
<1>5. 0 \notin DOMAIN host'
  BY <1>2, <1>4 DEF WithdrawInv, Accepts, Execute, CtrlCommand
<1>6. ASSUME NEW id \in RealIds, NEW m \in FrameMems, Backs(0, id, m)'
      PROVE  \/ c.cmd = "attach" /\ c.id = id /\ c.mem = m
             \/ Backs(0, id, m) /\ ~(c.cmd \in {"detach", "unref"} /\ c.id = id)
  <2>1. id \in DOMAIN host' /\ host'[id].mem = m /\ NULL # m
    BY <1>6, MemAssumption DEF Backs
  <2>2. CASE ~Accepts(c)
    <3>1. id \in DOMAIN host /\ host[id].mem = m
      BY <1>4, <2>1, <2>2
    <3>2. ~(c.cmd \in {"detach", "unref"} /\ c.id = id)
      BY <2>2, <3>1 DEF Accepts
    <3>. QED
      BY <3>1, <3>2 DEF Backs
  <2>3. CASE Accepts(c)
    <3>1. Execute(c)
      BY <1>4, <2>3
    <3>2. CASE c.cmd = "create"
      BY <2>1, <3>1, <3>2 DEF Execute, Backs
    <3>3. CASE c.cmd = "attach"
      BY <1>1, <2>1, <2>3, <3>1, <3>3 DEF Execute, Backs, Accepts, TypeOK, Resource
    <3>4. CASE c.cmd = "detach"
      BY <1>1, <2>1, <2>3, <3>1, <3>4 DEF Execute, Backs, Accepts, TypeOK, Resource
    <3>5. CASE c.cmd = "transfer"
      BY <1>1, <2>1, <2>3, <3>1, <3>5 DEF Execute, Backs, Accepts, TypeOK, Resource
    <3>6. CASE c.cmd = "unref"
      BY <2>1, <3>1, <3>6 DEF Execute, Backs
    <3>7. CASE c.cmd \in {"scanout", "flush"}
      BY <2>1, <3>1, <3>7 DEF Execute, Backs
    <3>. QED
      BY <1>2, <3>2, <3>3, <3>4, <3>5, <3>6, <3>7 DEF CtrlCommand
  <2>. QED
    BY <2>2, <2>3
<1>7. ASSUME NEW id \in RealIds, NEW i \in 2..n, WithdrawnAt(i, id)
      PROVE  \A h \in {i - 1} : WithdrawnAt(h, id)'
  <2>1. TakesAway(i, id) => \A h \in {i - 1} : TakesAway(h, id)'
    BY <1>2 DEF TakesAway
  <2>2. \A j \in 1..(n - 1) : Transfers(j, id)' => Transfers(j + 1, id)
    BY <1>2 DEF Transfers
  <2>3. \A k \in 2..n : Creates(k, id) => \A h \in {k - 1} : Creates(h, id)'
    <3>. SUFFICES ASSUME NEW k \in 2..n, Creates(k, id), NEW h \in {k - 1}
                  PROVE  Creates(h, id)'
      OBVIOUS
    <3>1. h \in 1..(n - 1) /\ h + 1 = k
      BY <1>2
    <3>2. ctrl'[h] = ctrl[k]
      BY <1>2, <3>1
    <3>. QED
      BY <3>2 DEF Creates
  <2>4. \A j \in i..(n - 1) : Transfers(j, id)' => \E k \in (i - 1)..j : Creates(k, id)'
    <3>. SUFFICES ASSUME NEW j \in i..(n - 1), Transfers(j, id)'
                  PROVE  \E k \in (i - 1)..j : Creates(k, id)'
      OBVIOUS
    <3>1. j + 1 \in (i + 1)..n /\ Transfers(j + 1, id)
      BY <1>2, <2>2
    <3>2. PICK k \in i..(j + 1) : Creates(k, id)
      BY <1>7, <3>1 DEF WithdrawnAt
    <3>3. k \in 2..n /\ k - 1 \in (i - 1)..j
      BY <3>1
    <3>. QED
      BY <2>3, <3>2, <3>3
  <2>5. Renewed(id)' => \E k \in (i - 1)..(n - 1) : Creates(k, id)'
    <3>. SUFFICES ASSUME Renewed(id)
                  PROVE  \E k \in (i - 1)..(n - 1) : Creates(k, id)'
      BY <1>3
    <3>1. PICK k \in i..n : Creates(k, id)
      BY <1>7 DEF WithdrawnAt
    <3>2. k \in 2..n /\ k - 1 \in (i - 1)..(n - 1)
      BY <1>2
    <3>. QED
      BY <2>3, <3>1, <3>2
  <2>6. TakesAway(i, id)
    BY <1>7 DEF WithdrawnAt
  <2>. QED
    <3>. SUFFICES ASSUME NEW h, h = i - 1
                  PROVE  WithdrawnAt(h, id)'
      OBVIOUS
    <3>1. h + 1 = i /\ Len(ctrl') = n - 1
      BY <1>2
    <3>2. TakesAway(h, id)'
      BY <2>1, <2>6
    <3>. QED
      BY <2>4, <2>5, <3>1, <3>2 DEF WithdrawnAt
<1>8. ASSUME NEW id \in RealIds, NEW p \in 0..(n - 1), NEW m \in FrameMems, Backs(p, id, m)'
      PROVE  (Live(id)' /\ m = segment') \/ Withdrawn(p, id)'
  <2>1. \/ Backs(p + 1, id, m)
        \/ p = 0 /\ Backs(0, id, m) /\ ~(c.cmd \in {"detach", "unref"} /\ c.id = id)
    <3>1. CASE p = 0
      <4>1. Backs(0, id, m)'
        BY <1>8, <3>1
      <4>. QED
        BY <1>2, <1>6, <3>1, <4>1 DEF Backs
    <3>2. CASE p # 0
      BY <1>2, <1>8, <3>2 DEF Backs
    <3>. QED
      BY <3>1, <3>2
  <2>. SUFFICES ASSUME ~(Live(id) /\ m = segment)
                PROVE  Withdrawn(p, id)'
    BY <1>1, <1>3
  <2>2. \E i \in (p + 2)..n : WithdrawnAt(i, id)
    <3>1. CASE Backs(p + 1, id, m)
      <4>1. Withdrawn(p + 1, id)
        BY <1>2, <3>1 DEF WithdrawInv, BackingInv
      <4>. QED
        BY <4>1 DEF Withdrawn
    <3>2. CASE p = 0 /\ Backs(0, id, m) /\ ~(c.cmd \in {"detach", "unref"} /\ c.id = id)
      <4>1. PICK i \in 1..n : WithdrawnAt(i, id)
        BY <1>2, <3>2 DEF WithdrawInv, BackingInv, Withdrawn
      <4>2. i # 1
        BY <1>2, <3>2, <4>1 DEF WithdrawnAt, TakesAway
      <4>. QED
        BY <3>2, <4>1, <4>2
    <3>. QED
      BY <2>1, <3>1, <3>2
  <2>3. PICK i \in (p + 2)..n : WithdrawnAt(i, id)
    BY <2>2
  <2>4. i \in 2..n /\ i - 1 \in (p + 1)..Len(ctrl')
    BY <1>2
  <2>. QED
    BY <1>7, <2>3, <2>4 DEF Withdrawn
<1>. QED
  BY <1>2, <1>5, <1>8 DEF BackingInv

\* What the ids of the threads say of a frame buffer that is live or renewed.
LEMMA RealHeld ==
    ASSUME LeakInv, NEW t \in Threads
    PROVE  /\ \A id \in RealIds : id # NULL
           /\ thr[t].id # NULL => thr[t].id \in HeldBy(t)
           /\ Obj(t) # NULL => Obj(t) \in HeldBy(t)
           /\ HeldBy(t) = {thr[t].id, Obj(t)} \ {NULL}
BY IdFacts, IdAssumption DEF HeldBy, Obj, RealIds

\* Posting a command that names the thread's id.
LEMMA PostWithdraws ==
    ASSUME WithdrawInv, LeakInv', NEW t \in Threads, NEW cmd, NEW next, Post(t, cmd, next),
           <<cmd, next>> \in {<<"detach", "unref">>, <<"unref", "putid">>,
                              <<"create", "attach">>, <<"scanout", "transfer">>,
                              <<"transfer", "flush">>},
           t = "cursor" => cmd \in {"detach", "unref", "create"}
    PROVE  BackingInv'
<1>. DEFINE x == thr[t].id
            c == [cmd |-> cmd, id |-> x, mem |-> NULL, event |-> FALSE]
<1>1. PICK u \in Threads \ {t} : (t = "frame" /\ u = "cursor") \/ (t = "cursor" /\ u = "frame")
  BY DEF Threads
<1>2. /\ thr[t].pc = cmd /\ thr' = [thr EXCEPT ![t].pc = next]
      /\ ctrl' = Append(ctrl, c)
      /\ UNCHANGED <<frame, cursor, segment, host>>
  BY DEF Post, Send, ids, memory, device
<1>3. thr \in [Threads -> ThreadState] /\ TypeOK
  BY DEF WithdrawInv, LeakInv, TypeInv, TypeOK, ThreadState
<1>4. /\ thr'[t].pc = next /\ thr'[t].id = x /\ thr'[t].obj = thr[t].obj /\ thr'[u] = thr[u]
      /\ Obj(t)' = Obj(t) /\ Obj(u)' = Obj(u)
  BY <1>2, <1>3 DEF ThreadState, Obj
<1>5. HeldBy(t)' = HeldBy(t) /\ HeldBy(u)' = HeldBy(u) /\ Threads = {t, u}
  BY <1>1, <1>2, <1>4 DEF HeldBy, Threads
<1>6. x \in Ids /\ x # NULL /\ x \in HeldBy(t) /\ c \in CtrlCommand
  <2>1. x # NULL
    BY <1>2 DEF WithdrawInv, LeakInv, TypeInv, IdKnown
  <2>2. x \in Ids /\ x \in HeldBy(t)
    BY <1>3, <2>1 DEF ThreadState, HeldBy
  <2>. QED
    BY <2>1, <2>2 DEF CtrlCommand
<1>7. \A id \in RealIds : Renewed(id)' => Renewed(id) \/ (cmd = "create" /\ x = id)
  <2>. SUFFICES ASSUME NEW id \in RealIds, Renewed(id)'
                PROVE  Renewed(id) \/ (cmd = "create" /\ x = id)
    OBVIOUS
  <2>1. CASE id \in HeldBy(u) /\ thr[u].pc \notin {"create", "detach", "unref", "putid"}
    BY <2>1 DEF Renewed
  <2>2. CASE id \in HeldBy(t) /\ next \notin {"create", "detach", "unref", "putid"}
    <3>1. CASE cmd = "create"
      <4>1. HeldBy(t) = {x}
        BY <1>2, <1>6, <3>1 DEF WithdrawInv, LeakInv, Handover, HeldBy, Obj
      <4>. QED
        BY <2>2, <3>1, <4>1
    <3>2. CASE cmd # "create"
      BY <1>2, <2>2, <3>2 DEF Renewed
    <3>. QED
      BY <3>1, <3>2
  <2>. QED
    BY <1>4, <1>5, <2>1, <2>2 DEF Renewed
<1>8. cmd = "transfer" /\ x \in RealIds => Renewed(x)
  BY <1>2, <1>6 DEF Renewed
<1>9. \A id \in RealIds : Live(id) /\ ~Live(id)' =>
        cmd \in {"detach", "unref"} /\ x = id /\ ~Renewed(id)'
  <2>. SUFFICES ASSUME NEW id \in RealIds, Live(id), ~Live(id)'
                PROVE  cmd \in {"detach", "unref"} /\ x = id /\ ~Renewed(id)'
    OBVIOUS
  <2>1. t = "frame"
    BY <1>1, <1>2, <1>4 DEF Live
  <2>2. next \in {"unref", "putid"} /\ cmd = "detach"
    BY <1>2, <1>4, <2>1 DEF Live
  <2>3. thr["frame"].obj = NULL /\ frame = x
    BY <1>2, <2>1, <2>2 DEF WithdrawInv, LeakInv, Handover, Obj
  <2>4. id = x
    BY <2>3, IdFacts, IdAssumption DEF Live, RealIds
  <2>5. id \notin HeldBy("cursor")
    BY <1>6, <2>1, <2>4 DEF WithdrawInv, LeakInv
  <2>6. ~Renewed(id)'
    BY <1>1, <1>4, <1>5, <2>1, <2>2, <2>5 DEF Renewed
  <2>. QED
    BY <2>2, <2>4, <2>6
<1>10. c.cmd = cmd /\ c.id = x /\ cmd # "attach"
  OBVIOUS
<1>. HIDE DEF c
<1>. QED
  BY <1>2, <1>3, <1>6, <1>7, <1>8, <1>9, <1>10, OnePosted DEF WithdrawInv

\* Every step keeps BackingInv.
LEMMA NextWithdraws ==
    ASSUME WithdrawInv, [Next]_vars
    PROVE  WithdrawInv'
<1>1. LeakInv /\ LeakInv' /\ BackingInv /\ 0 \notin DOMAIN host /\ TypeOK
  BY NextLeak DEF WithdrawInv, LeakInv, TypeInv
<1>2. /\ thr \in [Threads -> ThreadState] /\ thr' \in [Threads -> ThreadState]
      /\ "frame" \in Threads /\ "cursor" \in Threads /\ Threads = {"frame", "cursor"}
  BY <1>1 DEF LeakInv, TypeInv, TypeOK, ThreadState, Threads
<1>3. CASE HostCtrl
  BY <1>1, <1>3, OneExecuted DEF WithdrawInv
<1>4. SUFFICES ASSUME ~HostCtrl
               PROVE  host' = host /\ BackingInv'
  BY <1>1, <1>3 DEF WithdrawInv
<1>5. host' = host
  BY <1>4 DEF Next, Destroy, Create, Frame, Cursor, Host, InvalBacking, UnrefResource, PutId,
       GetId, CreateResource, SetCurrentMode, ReplaceSegment, AttachFrame, SetScanout,
       Present, TransferFrame, ResFlush, SetPointerShape, AttachCursor, TransferCursor,
       TransferWait, UpdateCursor, MoveCursor, HostCrsr, Post, device, vars
<1>6. ASSUME NEW t \in Threads, InvalBacking(t) \/ UnrefResource(t) \/ CreateResource(t)
      PROVE  BackingInv'
  <2>1. CASE InvalBacking(t)
    BY <1>1, <2>1, PostWithdraws DEF InvalBacking
  <2>2. CASE UnrefResource(t)
    BY <1>1, <2>2, PostWithdraws DEF UnrefResource
  <2>3. CASE CreateResource(t)
    BY <1>1, <2>3, PostWithdraws DEF CreateResource
  <2>. QED
    BY <1>6, <2>1, <2>2, <2>3
<1>7. CASE SetScanout \/ TransferFrame
  <2>1. CASE SetScanout
    BY <1>1, <1>2, <1>5, <2>1, PostWithdraws DEF SetScanout
  <2>2. CASE TransferFrame
    BY <1>1, <1>2, <1>5, <2>2, PostWithdraws DEF TransferFrame
  <2>. QED
    BY <1>7, <2>1, <2>2
<1>8. ASSUME NEW t \in Threads, GetId(t)
      PROVE  BackingInv'
  <2>1. PICK u \in Threads \ {t} : Threads = {t, u}
    BY <1>2
  <2>2. PICK x : thr' = [thr EXCEPT ![t].pc = "create", ![t].id = x]
    BY <1>8 DEF GetId
  <2>3. /\ thr'[u] = thr[u] /\ thr'[t].pc = "create" /\ thr[t].pc = "getid"
        /\ thr'[t].obj = thr[t].obj
        /\ UNCHANGED <<frame, cursor, segment, ctrl>>
    BY <1>2, <1>8, <2>2 DEF GetId, memory, ThreadState
  <2>4. HeldBy(u)' = HeldBy(u)
    BY <2>3 DEF HeldBy
  <2>5. \A id \in RealIds : Renewed(id)' => Renewed(id)
    BY <2>1, <2>3, <2>4 DEF Renewed
  <2>6. \A id \in RealIds : Live(id) => Live(id)'
    BY <1>2, <2>1, <2>3 DEF Live
  <2>. QED
    BY <1>1, <1>5, <2>3, <2>5, <2>6, NothingPosted
<1>9. ASSUME NEW t \in Threads, PutId(t)
      PROVE  BackingInv'
  <2>1. PICK u \in Threads \ {t} : Threads = {t, u}
    BY <1>2
  <2>2. /\ thr'[u] = thr[u] /\ thr'[t].id = NULL /\ thr[t].pc = "putid"
        /\ Obj(u)' = Obj(u) /\ Obj(t)' = NULL
        /\ thr'[t].obj = thr[t].obj
        /\ UNCHANGED <<segment, ctrl>>
    BY <1>2, <1>9, <2>1 DEF PutId, memory, ThreadState, Obj
  <2>3. HeldBy(u)' = HeldBy(u) /\ HeldBy(t)' = {}
    BY <2>2 DEF HeldBy, Obj
  <2>4. \A id \in RealIds : Renewed(id)' => Renewed(id)
    BY <2>1, <2>2, <2>3 DEF Renewed
  <2>5. \A id \in RealIds : Live(id) => Live(id)'
    <3>1. CASE t = "frame"
      BY <2>2, <3>1 DEF Live
    <3>2. CASE u = "frame"
      BY <2>2, <3>2 DEF Live, Obj
    <3>. QED
      BY <1>2, <2>1, <3>1, <3>2
  <2>. QED
    BY <1>1, <1>5, <2>2, <2>4, <2>5, NothingPosted
<1>10. CASE SetCurrentMode \/ Present
  <2>1. /\ thr'["cursor"] = thr["cursor"] /\ UNCHANGED <<frame, cursor, segment, ctrl>>
        /\ thr["frame"].pc = "idle" /\ thr'["frame"].id = frame
        /\ \/ thr'["frame"].pc = "transfer" /\ thr'["frame"].obj = frame
           \/ thr'["frame"].pc = "detach" /\ thr'["frame"].obj = NULL
           \/ thr'["frame"].pc = "segment" /\ thr'["frame"].obj = NULL /\ frame = NULL
    BY <1>2, <1>10 DEF SetCurrentMode, StartReplacing, Present, ids, memory
  <2>2. thr["frame"].id = NULL /\ thr["frame"].obj = NULL /\ \A id \in RealIds : id # NULL
    BY <1>1, <1>2, <2>1, RealHeld DEF LeakInv, Handover
  <2>3. HeldBy("cursor")' = HeldBy("cursor") /\ HeldBy("frame")' \subseteq HeldBy("frame")
    BY <2>1 DEF HeldBy
  <2>4. \A id \in RealIds : Renewed(id)' => Renewed(id)
    BY <1>2, <2>1, <2>3 DEF Renewed
  <2>5. \A id \in RealIds : Live(id) => Live(id)'
    BY <2>1, <2>2 DEF Live
  <2>. QED
    BY <1>1, <1>5, <2>1, <2>4, <2>5, NothingPosted
<1>11. CASE ReplaceSegment
  <2>1. /\ \/ thr' = [thr EXCEPT !["frame"].pc = "getid"]
           \/ thr' = [thr EXCEPT !["frame"] = Idle]
        /\ UNCHANGED <<frame, cursor, ctrl>> /\ thr["frame"].pc = "segment"
    BY <1>11 DEF ReplaceSegment, ids
  <2>2. /\ thr["frame"].obj = NULL /\ thr["frame"].id = NULL /\ frame = NULL
        /\ \A id \in RealIds : id # NULL
    BY <1>1, <1>2, <2>1, RealHeld DEF LeakInv, Handover, Obj
  <2>3. thr'["cursor"] = thr["cursor"] /\ thr'["frame"].id = NULL
    <3>1. CASE thr' = [thr EXCEPT !["frame"].pc = "getid"]
      BY <1>2, <2>2, <3>1 DEF ThreadState
    <3>2. CASE thr' = [thr EXCEPT !["frame"] = Idle]
      BY <1>2, <3>2 DEF Idle
    <3>. QED
      BY <2>1, <3>1, <3>2
  <2>4. HeldBy("cursor")' = HeldBy("cursor") /\ HeldBy("frame")' = {}
    BY <2>1, <2>2, <2>3 DEF HeldBy
  <2>5. \A id \in RealIds : Renewed(id)' => Renewed(id)
    BY <1>2, <2>3, <2>4 DEF Renewed
  <2>6. \A id \in RealIds : ~Live(id)
    BY <2>2 DEF Live
  <2>. QED
    BY <1>1, <1>5, <2>1, <2>5, <2>6, NothingPosted
<1>12. CASE AttachFrame
  <2>1. PICK obj \in {0, thr["frame"].id} :
          /\ thr' = [thr EXCEPT !["frame"].pc = "scanout", !["frame"].obj = obj]
          /\ UNCHANGED <<frame, cursor, segment>> /\ thr["frame"].pc = "attach"
          /\ \/ ctrl' = ctrl
             \/ /\ Send("attach", thr["frame"].id, segment, FALSE)
                /\ obj = thr["frame"].id
    BY <1>12 DEF AttachFrame, ids
  <2>2. /\ frame = NULL /\ thr["frame"].obj = NULL /\ \A id \in RealIds : id # NULL
        /\ thr["frame"].id # NULL /\ thr["frame"].id \in Ids
    BY <1>1, <1>2, <2>1, RealHeld DEF LeakInv, Handover, Obj, TypeInv, IdKnown, ThreadState
  <2>3. /\ thr'["cursor"] = thr["cursor"] /\ thr'["frame"].obj = obj
        /\ thr'["frame"].pc = "scanout" /\ thr'["frame"].id = thr["frame"].id
    BY <1>2, <2>1, <2>2, IdFacts DEF ThreadState
  <2>4. HeldBy("cursor")' = HeldBy("cursor") /\ HeldBy("frame")' = HeldBy("frame")
    BY <2>1, <2>3 DEF HeldBy
  <2>5. \A id \in RealIds : Renewed(id)' => Renewed(id)
    BY <1>2, <2>1, <2>3, <2>4 DEF Renewed
  <2>6. \A id \in RealIds : ~Live(id)
    BY <2>2 DEF Live
  <2>7. CASE ctrl' = ctrl
    BY <1>1, <1>5, <2>1, <2>5, <2>6, <2>7, NothingPosted
  <2>8. CASE Send("attach", thr["frame"].id, segment, FALSE) /\ obj = thr["frame"].id
    <3>1. [cmd |-> "attach", id |-> thr["frame"].id, mem |-> segment, event |-> FALSE]
            \in CtrlCommand
      BY <1>1, <2>2 DEF CtrlCommand, Mems, TypeOK
    <3>2. PICK c \in CtrlCommand :
            ctrl' = Append(ctrl, c) /\ c.cmd = "attach" /\ c.id = obj /\ c.mem = segment
      BY <2>8, <3>1 DEF Send
    <3>3. Live(c.id)'
      BY <2>3, <3>2 DEF Live
    <3>. QED
      BY <1>1, <1>5, <2>1, <2>5, <2>6, <3>2, <3>3, OnePosted
  <2>. QED
    BY <2>1, <2>7, <2>8
<1>13. CASE ResFlush
  <2>. DEFINE c == [cmd |-> "flush", id |-> thr["frame"].id, mem |-> NULL, event |-> FALSE]
  <2>1. /\ thr'["cursor"] = thr["cursor"] /\ UNCHANGED <<cursor, segment>>
        /\ thr["frame"].pc = "flush" /\ thr'["frame"] = Idle /\ frame' = thr["frame"].obj
        /\ ctrl' = Append(ctrl, c)
    BY <1>2, <1>13 DEF ResFlush, Send, memory
  <2>2. /\ thr["frame"].obj \in {0, thr["frame"].id} /\ frame \in {NULL, thr["frame"].obj}
        /\ thr["frame"].id # NULL /\ thr["frame"].id \in Ids
        /\ \A id \in RealIds : id # NULL /\ id # 0
    BY <1>1, <1>2, <2>1, RealHeld DEF LeakInv, TypeInv, IdKnown, ThreadState, RealIds
  <2>3. /\ thr'["frame"].pc = "idle" /\ thr'["frame"].id = NULL /\ thr'["frame"].obj = NULL
    BY <2>1 DEF Idle
  <2>4. /\ HeldBy("cursor")' = HeldBy("cursor")
        /\ HeldBy("frame")' \cap RealIds \subseteq HeldBy("frame")
    BY <2>1, <2>2, <2>3 DEF HeldBy
  <2>5. \A id \in RealIds : Renewed(id)' => Renewed(id)
    BY <1>2, <2>1, <2>4 DEF Renewed
  <2>6. \A id \in RealIds : Live(id) => Live(id)'
    BY <2>1, <2>2, <2>3 DEF Live
  <2>7. c \in CtrlCommand
    BY <2>2 DEF CtrlCommand
  <2>8. c.cmd = "flush"
    OBVIOUS
  <2>. HIDE DEF c
  <2>. QED
    BY <1>1, <1>5, <2>1, <2>5, <2>6, <2>7, <2>8, OnePosted
<1>14. CASE AttachCursor
  <2>1. /\ thr'["frame"] = thr["frame"] /\ UNCHANGED <<frame, segment>>
        /\ thr["cursor"].pc = "attach" /\ cursor' \in {cursor, thr["cursor"].id}
        /\ thr'["cursor"].id \in {NULL, thr["cursor"].id}
    <3>1. \/ thr' = [thr EXCEPT !["cursor"].pc = "transfer"]
          \/ thr' = [thr EXCEPT !["cursor"] = Idle]
      BY <1>14 DEF AttachCursor
    <3>2. CASE thr' = [thr EXCEPT !["cursor"].pc = "transfer"]
      BY <1>2, <1>14, <3>2, ZenonT(60) DEF AttachCursor, ThreadState
    <3>3. CASE thr' = [thr EXCEPT !["cursor"] = Idle]
      BY <1>2, <1>14, <3>3 DEF AttachCursor, Idle
    <3>. QED
      BY <3>1, <3>2, <3>3
  <2>2. thr["cursor"].id # NULL /\ thr["cursor"].id \in Ids
    BY <1>1, <1>2, <2>1 DEF LeakInv, TypeInv, IdKnown, ThreadState
  <2>3. HeldBy("frame")' = HeldBy("frame") /\ HeldBy("cursor")' \subseteq HeldBy("cursor")
    BY <2>1 DEF HeldBy
  <2>4. \A id \in RealIds : Renewed(id)' => Renewed(id)
    BY <1>2, <2>1, <2>3 DEF Renewed
  <2>5. \A id \in RealIds : Live(id) => Live(id)'
    BY <2>1 DEF Live
  <2>6. ctrl' = ctrl \/ Send("attach", thr["cursor"].id, CursorMem, FALSE)
    BY <1>14 DEF AttachCursor
  <2>7. CASE ctrl' = ctrl
    BY <1>1, <1>5, <2>1, <2>4, <2>5, <2>7, NothingPosted
  <2>8. CASE Send("attach", thr["cursor"].id, CursorMem, FALSE)
    <3>. DEFINE c == [cmd |-> "attach", id |-> thr["cursor"].id, mem |-> CursorMem,
                      event |-> FALSE]
    <3>1. c \in CtrlCommand
      BY <2>2 DEF CtrlCommand, Mems
    <3>2. ctrl' = Append(ctrl, c) /\ c.cmd = "attach" /\ c.mem \notin FrameMems
      BY <2>8, MemAssumption DEF Send
    <3>. HIDE DEF c
    <3>. QED
      BY <1>1, <1>5, <2>1, <2>4, <2>5, <3>1, <3>2, OnePosted
  <2>. QED
    BY <2>6, <2>7, <2>8
<1>15. CASE TransferCursor
  <2>. DEFINE c == [cmd |-> "transfer", id |-> thr["cursor"].id, mem |-> NULL, event |-> TRUE]
  <2>1. /\ thr'["frame"] = thr["frame"] /\ UNCHANGED <<frame, cursor, segment>>
        /\ thr["cursor"].pc = "transfer" /\ thr'["cursor"].id = thr["cursor"].id
        /\ ctrl' = Append(ctrl, c)
    BY <1>2, <1>15 DEF TransferCursor, Send, ids, ThreadState
  <2>2. thr["cursor"].id # NULL /\ thr["cursor"].id \in Ids
    BY <1>1, <1>2, <2>1 DEF LeakInv, TypeInv, IdKnown, ThreadState
  <2>3. HeldBy("frame")' = HeldBy("frame") /\ HeldBy("cursor")' = HeldBy("cursor")
    BY <2>1 DEF HeldBy
  <2>4. \A id \in RealIds : Renewed(id)' => Renewed(id)
    BY <1>2, <2>1, <2>3 DEF Renewed
  <2>5. \A id \in RealIds : Live(id) => Live(id)'
    BY <2>1 DEF Live
  <2>6. Renewed(c.id)
    BY <1>2, <2>1, <2>2 DEF Renewed, HeldBy
  <2>7. c \in CtrlCommand
    BY <2>2 DEF CtrlCommand
  <2>8. c.cmd = "transfer"
    OBVIOUS
  <2>. HIDE DEF c
  <2>. QED
    BY <1>1, <1>5, <2>1, <2>4, <2>5, <2>6, <2>7, <2>8, OnePosted
<1>16. ASSUME SetPointerShape \/ TransferWait \/ UpdateCursor
       PROVE  BackingInv'
  <2>1. /\ thr'["frame"] = thr["frame"] /\ UNCHANGED <<frame, cursor, segment, ctrl>>
    BY <1>2, <1>16 DEF SetPointerShape, StartReplacing, TransferWait, UpdateCursor, ids, memory
  <2>2. /\ HeldBy("cursor")' \subseteq HeldBy("cursor")
        /\ thr["cursor"].pc \notin {"create", "detach", "unref", "putid"}
    <3>1. CASE SetPointerShape
      BY <1>2, <2>1, <3>1 DEF SetPointerShape, StartReplacing, HeldBy
    <3>2. CASE TransferWait
      BY <1>2, <2>1, <3>2 DEF TransferWait, HeldBy, ThreadState
    <3>3. CASE UpdateCursor
      BY <1>2, <2>1, <3>3 DEF UpdateCursor, HeldBy, Idle
    <3>. QED
      BY <1>16, <3>1, <3>2, <3>3
  <2>3. HeldBy("frame")' = HeldBy("frame")
    BY <2>1 DEF HeldBy
  <2>4. \A id \in RealIds : Renewed(id)' => Renewed(id)
    BY <1>2, <2>1, <2>2, <2>3 DEF Renewed
  <2>5. \A id \in RealIds : Live(id) => Live(id)'
    BY <2>1 DEF Live
  <2>. QED
    BY <1>1, <1>5, <2>1, <2>4, <2>5, NothingPosted
<1>17. CASE (\E visible \in BOOLEAN : MoveCursor(visible)) \/ HostCrsr \/ UNCHANGED vars
  <2>1. UNCHANGED <<frame, cursor, thr, segment, ctrl>>
    BY <1>17 DEF MoveCursor, HostCrsr, ids, memory, vars
  <2>2. \A id \in RealIds : (Renewed(id)' <=> Renewed(id)) /\ (Live(id)' <=> Live(id))
    BY <2>1 DEF Renewed, HeldBy, Live
  <2>. QED
    BY <1>1, <1>5, <2>1, <2>2, NothingPosted
<1>. QED
  BY <1>4, <1>5, <1>6, <1>7, <1>8, <1>9, <1>10, <1>11, <1>12, <1>13, <1>14, <1>15, <1>16,
     <1>17 DEF Next, Destroy, Create, Frame, Cursor, Host

\* Whatever fails, memory that m_FrameSegment has freed and the host still has is being
\* taken away, and no transfer that is posted later reads it: every command that frees
\* it is behind every command that gave it, for every id but the shared NoId.
THEOREM WithdrawCorrect == Spec => []FreedBackingIsWithdrawn
<1>1. Init => WithdrawInv
  <2>1. Init => LeakInv /\ DOMAIN host = {} /\ ctrl = <<>>
    BY InitLeak DEF Init
  <2>. QED
    BY <2>1 DEF WithdrawInv, BackingInv, Backs
<1>2. WithdrawInv /\ [Next]_vars => WithdrawInv'
  BY NextWithdraws
<1>3. WithdrawInv => FreedBackingIsWithdrawn
  <2>. SUFFICES ASSUME WithdrawInv, NEW id \in DOMAIN host \ {NoId},
                       host[id].mem \in FrameMems \ {segment}
                PROVE  \E i \in DOMAIN ctrl :
                          /\ ctrl[i].cmd \in {"detach", "unref"} /\ ctrl[i].id = id
                          /\ \A j \in (i + 1)..Len(ctrl) :
                                ctrl[j].id = id /\ ctrl[j].cmd = "transfer" =>
                                  \E k \in i..j : ctrl[k].cmd = "create" /\ ctrl[k].id = id
    BY DEF FreedBackingIsWithdrawn
  <2>1. TypeOK
    BY DEF WithdrawInv, LeakInv, TypeInv
  <2>2. id \in RealIds
    BY <2>1, IdAssumption DEF WithdrawInv, TypeOK, RealIds, Ids, NoId
  <2>3. ctrl \in Seq(CtrlCommand) /\ Len(ctrl) \in Nat /\ DOMAIN ctrl = 1..Len(ctrl)
    BY <2>1 DEF TypeOK
  <2>4. Backs(0, id, host[id].mem) /\ 0 \in 0..Len(ctrl)
    BY <2>3 DEF Backs
  <2>5. Withdrawn(0, id)
    BY <2>2, <2>4 DEF WithdrawInv, BackingInv
  <2>6. PICK i \in 1..Len(ctrl) : WithdrawnAt(i, id)
    BY <2>5 DEF Withdrawn
  <2>. QED
    BY <2>3, <2>6 DEF WithdrawnAt, TakesAway, Transfers, Creates
<1>. QED
  BY <1>1, <1>2, <1>3, PTL DEF Spec
=============================================================================
