----------------------------- MODULE DisplayModes -----------------------------
(***************************************************************************)
(* The mode list of viogpudo.cpp and those who use it, without a lock:     *)
(*                                                                         *)
(*  - setters: the start of the device and the worker ask the host for the *)
(*    size of its display, an escape brings one, and SetCustomDisplay      *)
(*    writes it into one of the two custom slots at the end of the list;   *)
(*  - dxgkrnl reads the list (AddSingleSourceMode), then commits a mode    *)
(*    that it found there: SetSourceModeAndPath looks the size up again,   *)
(*    and CreateFrameBufferObj reads the entry once more;                  *)
(*  - presents, blackouts and the bugcheck screen write to the frame       *)
(*    buffer through FrameBuffer.Ptr, as large as the mode in DispInfo.    *)
(*                                                                         *)
(* A size is <<width, height>> in pixels, memory is counted in pixels.     *)
(* dxgkrnl's calls are serialised, but for the escape and the bugcheck.    *)
(* What the commands do at the host is GpuResources'; how an interrupt     *)
(* reaches the worker is GpuQueues'.                                       *)
(***************************************************************************)
EXTENDS Naturals, Sequences, SequencesExt, FiniteSetsExt

CONSTANTS gpu_disp_modes,   \* the standard sizes
          MinSize,          \* <<MIN_WIDTH_SIZE, MIN_HEIGHT_SIZE>>
          PostSize,         \* the size of the firmware's display, or MinSize
          FirstDisplay,     \* the host's display when the device starts
          HostSizes,        \* what the host's display and an escape may ask for
          OFF,              \* the host's display is disabled
          NULL,
          MaxChanges        \* bound: changes at the host, and escapes

Width(size) == size[1]
Height(size) == size[2]
Area(size) == Width(size) * Height(size)

Suitable(size) == Width(size) >= Width(PostSize) /\ Height(size) >= Height(PostSize)
Clamp(size) == <<Max({Width(size), Width(MinSize)}), Max({Height(size), Height(MinSize)})>>

ASSUME SizesAssumption ==
    /\ gpu_disp_modes \in Seq(Nat \X Nat)
    /\ MinSize \in (Nat \ {0}) \X (Nat \ {0})
    /\ HostSizes \subseteq Nat \X Nat /\ OFF \notin HostSizes
    /\ FirstDisplay \in HostSizes \cup {OFF}
    /\ \E i \in DOMAIN gpu_disp_modes : Suitable(gpu_disp_modes[i])
ASSUME NullAssumption == NULL \notin [res : Nat \X Nat, scanout : Nat \X Nat]

VARIABLES
    m_ModeInfo,     \* the mode list: width, height and stride of each entry
    m_CustomMode,   \* the newest custom slot
    set,            \* set[t]: how far setter t is; its size; the slot it computed
                    \* or read
    display,        \* the host's display: a size, or OFF
    events_read,    \* the device's VIRTIO_GPU_EVENT_DISPLAY
    m_ConfigUpdateEvent,
    reported,       \* dxgkrnl was told of a change and has not enumerated since
    offered,        \* the sizes that the last enumeration found
    os,             \* dxgkrnl's call: its step, loop index, size and what it read
    current,        \* m_CurrentModes[0].DispInfo, and SrcModeWidth and -Height
    SourceNotVisible, FrameBufferIsActive,
    DriverStarted,
    ptr,            \* FrameBuffer.Ptr: "null", "frame" or, once freed, "stale"
    segment,        \* the size of m_FrameSegment's memory, 0 if it has none
    frame,          \* m_pFrameBuf: NULL, or the host's resource and scanout
    fault,          \* who wrote to the frame buffer and missed it
    (* history *)
    changes,
    kept,           \* offered standard sizes, and that of the newest slot
    since,          \* how often m_CustomMode was stored since the list was read (at
                    \* most 2), or 2 if a setter was on its way to the newest slot
    missed,         \* the display changed between the reply and events_clear
    overlapped,     \* the last setter began while another was busy
    mixed,          \* entries that two setters wrote at once
    newestBy,       \* who wrote to a slot last
    chosen,         \* the last commit came after that enumeration, from kept
    ret,            \* how the last commit ended: "none", "OK" or "FAIL"
    lost,           \* the last commit found no entry and kept the old frame
    raced           \* the entry of the last commit was half written, mixed, or
                    \* written during the commit

list == <<m_ModeInfo, m_CustomMode, set, overlapped, mixed, newestBy, since>>
host == <<display, events_read, m_ConfigUpdateEvent, missed>>
modes == <<offered, os, kept, reported>>
screen == <<current, ptr, segment, frame, FrameBufferIsActive>>
outcome == <<chosen, ret, lost, raced>>
vars == <<list, host, modes, screen, SourceNotVisible, DriverStarted, fault,
          changes, outcome>>
-----------------------------------------------------------------------------
Setters == {"start", "worker", "escape"}

\* The suitable ones among the first n sizes.
SuitableAmong[n \in 0..Len(gpu_disp_modes)] ==
    IF n = 0 THEN <<>>
    ELSE IF Suitable(gpu_disp_modes[n]) THEN Append(SuitableAmong[n - 1], gpu_disp_modes[n])
    ELSE SuitableAmong[n - 1]

Standard == SuitableAmong[Len(gpu_disp_modes)]
ModeCount == Len(Standard) + 2

Entry(size) == [w |-> Width(size), h |-> Height(size), stride |-> Width(size)]
SizeOf(entry) == <<entry.w, entry.h>>

\* GetModeList: the suitable standard modes, then two copies of one of them.
GetModeList ==
    LET standard == [i \in 1..Len(Standard) |-> Entry(Standard[i])]
        copied == IF MinSize \in Range(Standard) THEN Entry(MinSize) ELSE standard[1]
    IN  standard \o <<copied, copied>>

Off == [at |-> "off", size |-> MinSize, slot |-> 0]
At(step) == [Off EXCEPT !.at = step]
Idle == [at |-> "idle", k |-> 0, size |-> MinSize, need |-> 0, res |-> MinSize]

\* In HWInit, between the loops of GetModeList and its call of GetDisplayInfo.
Init ==
    /\ m_ModeInfo = GetModeList
    /\ m_CustomMode = Len(Standard) + 1
    /\ set = [t \in Setters |-> IF t = "start" THEN At("ask") ELSE Off]
    /\ display = FirstDisplay
    /\ events_read = FALSE /\ m_ConfigUpdateEvent = FALSE
    /\ reported = TRUE
    /\ offered = {} /\ os = Idle
    /\ current = MinSize
    /\ SourceNotVisible = FALSE /\ FrameBufferIsActive = FALSE
    /\ DriverStarted = TRUE
    /\ ptr = "null" /\ segment = 0 /\ frame = NULL
    /\ fault = "none"
    /\ changes = 0 /\ kept = {} /\ since = 0
    /\ missed = FALSE /\ overlapped = FALSE /\ mixed = {} /\ newestBy = "start"
    /\ chosen = FALSE /\ ret = "none" /\ lost = FALSE /\ raced = FALSE

-----------------------------------------------------------------------------
(* The host and the worker                                                 *)

\* The interrupt and the DPC of a change are one step with it.
HostChange(d) ==
    /\ changes < MaxChanges /\ changes' = changes + 1
    /\ d # display /\ display' = d
    /\ events_read' = TRUE
    /\ m_ConfigUpdateEvent' = TRUE
    /\ missed' = (missed \/ set["worker"].at \in
                      {"load", "store", "read", "width", "height", "clear"})
    /\ UNCHANGED <<list, modes, screen, SourceNotVisible, DriverStarted, fault, outcome>>

\* The wait resets the event.  ConfigChanged does nothing unless events_read says
\* that the display changed.
ConfigChanged ==
    /\ m_ConfigUpdateEvent /\ set["worker"] = Off
    /\ m_ConfigUpdateEvent' = FALSE
    /\ set' = [set EXCEPT !["worker"] = At(IF events_read THEN "ask" ELSE "off")]
    /\ UNCHANGED <<m_ModeInfo, m_CustomMode, overlapped, mixed, newestBy, since, display,
                   events_read, missed, modes, screen, SourceNotVisible,
                   DriverStarted, fault, changes, outcome>>

After(t) == CASE t = "worker" -> "clear" [] t = "escape" -> "report" [] t = "start" -> "off"
Busy(t) == set[t].at \in {"load", "store", "read", "width", "height"}

\* The device's reply to AskDisplayInfo, and what GetDisplayInfo reads in it.
GetDisplayInfo(t) ==
    /\ set[t].at = "ask"
    /\ set' = IF display = OFF
              THEN [set EXCEPT ![t] = At(After(t))]
              ELSE [set EXCEPT ![t].at = "load", ![t].size = display]
    /\ overlapped' = IF display = OFF THEN overlapped ELSE \E u \in Setters \ {t} : Busy(u)
    /\ missed' = (missed /\ t # "worker")
    /\ UNCHANGED <<m_ModeInfo, m_CustomMode, mixed, newestBy, since, display, events_read,
                   m_ConfigUpdateEvent, modes, screen, SourceNotVisible, DriverStarted,
                   fault, changes, outcome>>

SetEventsClear ==
    /\ set["worker"].at = "clear"
    /\ events_read' = FALSE
    /\ set' = [set EXCEPT !["worker"].at = "report"]
    /\ UNCHANGED <<m_ModeInfo, m_CustomMode, overlapped, mixed, newestBy, since, display,
                   m_ConfigUpdateEvent, missed, modes, screen, SourceNotVisible,
                   DriverStarted, fault, changes, outcome>>

Report(t) ==
    /\ set[t].at = "report"
    /\ reported' = TRUE
    /\ set' = [set EXCEPT ![t] = Off]
    /\ UNCHANGED <<m_ModeInfo, m_CustomMode, overlapped, mixed, newestBy, since, offered, os,
                   kept, screen, SourceNotVisible, DriverStarted, fault, changes, outcome,
                   display, events_read, missed>>

UpdateChildStatusThenReset(t) ==    \* the event is reset when the worker is done
    /\ Report(t)
    /\ m_ConfigUpdateEvent' = (m_ConfigUpdateEvent /\ t # "worker")

\* The worker reports the monitor gone and back, an escape only back.
UpdateChildStatus(t) == Report(t) /\ UNCHANGED m_ConfigUpdateEvent

Escape(size) ==
    /\ set["start"] = Off /\ set["escape"] = Off
    /\ DriverStarted
    /\ changes < MaxChanges /\ changes' = changes + 1
    /\ set' = [set EXCEPT !["escape"] = [at |-> "load", size |-> size, slot |-> 0]]
    /\ overlapped' = \E u \in {"start", "worker"} : Busy(u)
    /\ UNCHANGED <<m_ModeInfo, m_CustomMode, mixed, newestBy, since, host, modes, screen,
                   SourceNotVisible, DriverStarted, fault, outcome>>

-----------------------------------------------------------------------------
(* SetCustomDisplay and SetVideoModeInfo                                   *)

LastSlotOnly(custom) == ModeCount
\* The other one of the two custom slots, except for the first time.
OtherSlot(custom) == IF custom = ModeCount THEN ModeCount - 1 ELSE ModeCount

\* m_CustomMode is loaded to compute the slot, stored, and read once more to index
\* the entry: another setter may store its own in between.
LoadCustomMode(t) ==
    /\ set[t].at = "load"
    /\ set' = [set EXCEPT ![t].at = "store", ![t].slot = OtherSlot(m_CustomMode)]
    /\ UNCHANGED <<m_ModeInfo, m_CustomMode, overlapped, mixed, newestBy, since, host, modes, screen,
                   SourceNotVisible, DriverStarted, fault, changes, outcome>>

StoreCustomMode(t) ==
    /\ set[t].at = "store"
    /\ m_CustomMode' = set[t].slot
    /\ set' = [set EXCEPT ![t].at = "read", ![t].slot = 0]
    /\ since' = Min({since + 1, 2})
    /\ UNCHANGED <<m_ModeInfo, overlapped, mixed, newestBy, host, modes, screen,
                   SourceNotVisible, DriverStarted, fault, changes, outcome>>

ReadCustomMode(t) ==
    /\ set[t].at = "read"
    /\ set' = [set EXCEPT ![t].at = "width", ![t].slot = m_CustomMode]
    /\ UNCHANGED <<m_ModeInfo, m_CustomMode, overlapped, mixed, newestBy, since, host, modes, screen,
                   SourceNotVisible, DriverStarted, fault, changes, outcome>>

\* The steps in which a commit reads the entry that it chose, again.
Switching == {"destroy", "init", "finish"}

InEntry(t, i) == set[t].at = "height" /\ set[t].slot = i

\* Setter t writes to its entry.
Writes(t) ==
    LET i == set[t].slot IN
    /\ mixed' = IF \E u \in Setters \ {t} : InEntry(u, i) THEN mixed \cup {i}
                ELSE IF set[t].at = "width" THEN mixed \ {i} ELSE mixed
    /\ raced' = (raced \/ (os.at \in Switching /\ os.k = i))
    /\ UNCHANGED <<overlapped, host, modes, screen, SourceNotVisible, DriverStarted, fault,
                   changes, chosen, ret, lost>>

SetWidth(t) ==
    /\ set[t].at = "width"
    /\ m_ModeInfo' = [m_ModeInfo EXCEPT ![set[t].slot].w = Width(Clamp(set[t].size))]
    /\ set' = [set EXCEPT ![t].at = "height"]
    /\ newestBy' = t
    /\ UNCHANGED <<m_CustomMode, since>>
    /\ Writes(t)

SetHeightAndStride(t) ==
    /\ set[t].at = "height"
    /\ m_ModeInfo' = [m_ModeInfo EXCEPT ![set[t].slot].h = Height(Clamp(set[t].size)),
                                        ![set[t].slot].stride = Width(Clamp(set[t].size))]
    /\ set' = [set EXCEPT ![t] = At(After(t))]
    /\ UNCHANGED <<m_CustomMode, newestBy, since>>
    /\ Writes(t)

SetCustomDisplay(t) ==
    \/ LoadCustomMode(t) \/ StoreCustomMode(t) \/ ReadCustomMode(t)
    \/ SetWidth(t) \/ SetHeightAndStride(t)

-----------------------------------------------------------------------------
(* Enumeration                                                             *)

CallAllowed == os.at = "idle" /\ set["start"] = Off /\ DriverStarted

\* Setter t will write to the newest slot, if nobody stores m_CustomMode any more.
OnItsWay(t) ==
    \/ set[t].at = "read"
    \/ set[t].at \in {"store", "width", "height"} /\ set[t].slot = m_CustomMode

EnumVidPnCofuncModality ==
    /\ CallAllowed
    /\ reported
    /\ reported' = FALSE
    /\ os' = [Idle EXCEPT !.at = "enum", !.k = 1, !.need = m_CustomMode]
    /\ offered' = {} /\ kept' = {}
    /\ since' = IF \E t \in Setters : OnItsWay(t) THEN 2 ELSE 0
    /\ chosen' = FALSE
    /\ UNCHANGED <<m_ModeInfo, m_CustomMode, set, overlapped, mixed, newestBy, host, screen,
                   SourceNotVisible, DriverStarted, fault, changes, ret, lost, raced>>

\* os.need is the slot that was the newest when the loop began.
AddSingleSourceMode ==
    /\ os.at = "enum"
    /\ LET size == SizeOf(m_ModeInfo[os.k]) IN
       /\ offered' = offered \cup {size}
       /\ kept' = IF os.k \in (1..Len(Standard)) \cup {os.need} THEN kept \cup {size} ELSE kept
    /\ os' = IF os.k = ModeCount THEN Idle ELSE [os EXCEPT !.k = @ + 1]
    /\ UNCHANGED <<list, host, reported, screen, SourceNotVisible, DriverStarted, fault,
                   changes, outcome>>

-----------------------------------------------------------------------------
(* Commit: SetSourceModeAndPath, SetCurrentMode, CreateFrameBufferObj      *)

SetSourceModeAndPath(size) ==
    /\ CallAllowed
    /\ size \in offered
    /\ current' = size
    /\ os' = [Idle EXCEPT !.at = "search", !.k = 1, !.size = size]
    /\ chosen' = (size \in kept) /\ ret' = "none"
    /\ UNCHANGED <<list, host, offered, kept, reported, ptr, segment, frame,
                   FrameBufferIsActive, SourceNotVisible, DriverStarted, fault, changes,
                   lost, raced>>

\* No entry of this size: success, and the frame buffer stays what it was.
SearchMode ==
    /\ os.at = "search"
    /\ IF SizeOf(m_ModeInfo[os.k]) = os.size
       THEN /\ os' = [os EXCEPT !.at = "destroy"]
            /\ raced' = (os.k \in mixed \/ \E t \in Setters : InEntry(t, os.k))
            /\ UNCHANGED <<chosen, ret, lost>>
       ELSE IF os.k < ModeCount
       THEN os' = [os EXCEPT !.k = @ + 1] /\ UNCHANGED outcome
       ELSE os' = Idle /\ ret' = "OK" /\ lost' = TRUE /\ UNCHANGED <<chosen, raced>>
    /\ UNCHANGED <<list, host, offered, kept, reported, screen, SourceNotVisible,
                   DriverStarted, fault, changes>>

\* DestroyFrameBufferObj; CreateFrameBufferObj computes the size of the new memory
\* and frees the old.
DestroyFrame ==
    /\ os.at = "destroy"
    /\ frame' = NULL
    /\ os' = [os EXCEPT !.at = "init",
                        !.need = m_ModeInfo[os.k].stride * m_ModeInfo[os.k].h]
    /\ segment' = 0
    /\ ptr' = IF ptr = "frame" THEN "stale" ELSE ptr
    /\ UNCHANGED <<list, host, offered, kept, reported, current, SourceNotVisible,
                   DriverStarted, fault, changes, outcome>>

SetCurrentModeStaysActive == DestroyFrame /\ UNCHANGED FrameBufferIsActive

SetCurrentMode == DestroyFrame /\ FrameBufferIsActive' = FALSE

CommitFails ==
    /\ os' = Idle
    /\ ret' = "FAIL" /\ lost' = FALSE
    /\ UNCHANGED <<chosen, raced>>

\* m_FrameSegment.Init, then CreateResource with what the entry holds now.
InitFrameSegment ==
    /\ os.at = "init"
    /\ \/ /\ os' = [os EXCEPT !.at = "finish", !.res = SizeOf(m_ModeInfo[os.k])]
          /\ segment' = os.need
          /\ UNCHANGED outcome
       \/ CommitFails /\ UNCHANGED segment
    /\ UNCHANGED <<list, host, offered, kept, reported, current, ptr, frame,
                   FrameBufferIsActive, SourceNotVisible, DriverStarted, fault, changes>>

\* obj->Init; SetScanout, TransferToHost2D and ResFlush read the entry again.
InitFrameObject ==
    /\ os.at = "finish"
    /\ \/ /\ frame' = [res |-> os.res, scanout |-> SizeOf(m_ModeInfo[os.k])]
          /\ ptr' = "frame" /\ FrameBufferIsActive' = TRUE
          /\ os' = Idle
          /\ ret' = "OK" /\ lost' = FALSE
          /\ UNCHANGED <<chosen, raced>>
       \/ CommitFails /\ UNCHANGED <<frame, ptr, FrameBufferIsActive>>
    /\ UNCHANGED <<list, host, offered, kept, reported, current, segment, SourceNotVisible,
                   DriverStarted, fault, changes>>

CreateFrameBufferObj == InitFrameSegment \/ InitFrameObject

-----------------------------------------------------------------------------
(* Writers                                                                 *)

\* Writing a picture of the current size through FrameBuffer.Ptr stays inside
\* the frame buffer.
Fits == ptr = "frame" /\ Area(current) <= segment

Write(who, ok) ==
    /\ fault' = IF ok THEN fault ELSE who
    /\ UNCHANGED <<list, host, modes, screen, changes, outcome>>

\* A present draws, then names m_pFrameBuf's id to the host.
PresentDisplayOnly ==
    /\ CallAllowed
    /\ ret # "none"             \* dxgkrnl presents only after a commit
    /\ ~SourceNotVisible
    /\ Write("ExecutePresentDisplayOnly", Fits /\ frame # NULL)
    /\ UNCHANGED <<SourceNotVisible, DriverStarted>>

BlackOutScreen ==
    Write("BlackOutScreen", FrameBufferIsActive /\ ptr # "null" => Fits)

SetVidPnSourceVisibility(Visible) ==
    /\ CallAllowed
    /\ IF Visible THEN UNCHANGED <<list, host, modes, screen, changes, outcome, fault>>
                  ELSE BlackOutScreen
    /\ SourceNotVisible' = ~Visible
    /\ UNCHANGED DriverStarted

StopDeviceAndReleasePostDisplayOwnership ==
    /\ CallAllowed
    /\ BlackOutScreen
    /\ DriverStarted' = FALSE
    /\ UNCHANGED SourceNotVisible

\* The bugcheck screen, at any moment.  SystemDisplayEnable refuses without a
\* FrameBuffer.Ptr, and reports the current size.
SystemDisplayWrite ==
    /\ ptr # "null"
    /\ Write("SystemDisplayWrite", Fits)
    /\ UNCHANGED <<SourceNotVisible, DriverStarted>>

\* A bad write ends what can be said, and a stop what is of interest here.
Next ==
    /\ fault = "none" /\ DriverStarted
    /\ \/ \E d \in HostSizes \cup {OFF} : HostChange(d)
       \/ ConfigChanged \/ SetEventsClear
       \/ \E size \in HostSizes : Escape(size)
       \/ \E t \in Setters :
             GetDisplayInfo(t) \/ SetCustomDisplay(t) \/ UpdateChildStatus(t)
       \/ EnumVidPnCofuncModality \/ AddSingleSourceMode
       \/ \E size \in offered : SetSourceModeAndPath(size)
       \/ SearchMode \/ SetCurrentMode \/ CreateFrameBufferObj
       \/ PresentDisplayOnly
       \/ \E Visible \in BOOLEAN : SetVidPnSourceVisibility(Visible)
       \/ StopDeviceAndReleasePostDisplayOwnership
       \/ SystemDisplayWrite

Spec == Init /\ [][Next]_vars
-----------------------------------------------------------------------------
(* Properties                                                              *)

\* Whatever is drawn stays inside the frame buffer, except: after a commit that
\* found no entry of its size and kept the smaller frame buffer; after one whose
\* entry changed under it; after one that failed, but not for a blackout, which
\* FrameBufferIsActive protects; and for a bugcheck in the middle of a commit.
DrawsInFrame ==
    fault # "none" =>
        \/ lost \/ raced
        \/ ret = "FAIL" /\ fault # "BlackOutScreen"
        \/ os.at \in Switching \cup {"search"} /\ fault = "SystemDisplayWrite"

\* What the two custom slots are for.  A commit that succeeds gives memory, resource
\* and scanout the size that dxgkrnl found in the list, unless its entry changed
\* during the commit: a standard size always; that of the newest custom slot if
\* m_CustomMode was stored at most once since dxgkrnl began to read the list, and no
\* setter was on its way to that slot then.
CommittedIsShown ==
    /\ os.at = "idle" /\ ret = "OK" /\ ~raced
    /\ current \in Range(Standard) \/ (chosen /\ since < 2)
    =>  /\ frame # NULL /\ frame.res = current /\ frame.scanout = current
        /\ segment = Area(current)

AtRest ==
    /\ ~m_ConfigUpdateEvent /\ ~reported
    /\ \A t \in Setters : set[t] = Off
    /\ os.at = "idle"

\* A change of the host's display gets into dxgkrnl's list: when all is quiet, that
\* has the size of the display, unless the display changed between the reply and the
\* write of events_clear, two setters met, or an escape wrote later.
HostSizeOffered ==
    AtRest /\ display # OFF /\ ~missed /\ ~overlapped /\ newestBy # "escape" =>
        Clamp(display) \in offered
=============================================================================
