-------------------------------- MODULE VidPn --------------------------------
(***************************************************************************)
(* The mode negotiation of viogpudo.cpp: dxgkrnl asks the miniport which   *)
(* modes go together (EnumVidPnCofuncModality), which modes the monitor    *)
(* has (RecommendMonitorModes), and tells it which to use (CommitVidPn,    *)
(* UpdateActiveVidPnPresentPath).                                          *)
(*                                                                         *)
(* Each of these calls is a sequence of callbacks into dxgkrnl that        *)
(* acquire, create, assign and release mode sets, mode infos and path      *)
(* infos; every callback may fail, and the rest of the call must clean up. *)
(* pc is <<step, side>>, the callback to come: a mode set is a source's,   *)
(* a target's or the monitor's ("src", "tgt", "mon").  Objects are         *)
(* numbered in the order in which a call obtains them.                     *)
(*                                                                         *)
(* There is one video present source (MAX_VIEWS).  dxgkrnl and its VidPn   *)
(* objects are external.                                                   *)
(***************************************************************************)
EXTENDS Naturals, Sequences, SequencesExt

CONSTANTS ModeList,     \* the sizes in the driver's mode list
          MaxChildren,  \* MAX_CHILDREN
          VidPns,       \* the VidPns dxgkrnl may pass
          MaxFailures,  \* bound: callbacks that fail in one call
          NULL

Sizes == Range(ModeList)
ASSUME ModeListAssumption == ModeList \in Seq(Sizes) \ {<<>>}
ASSUME NullAssumption == NULL \notin Nat     \* objects are numbers

\* format stands for the fields IsVidPnSourceModeFieldsValid looks at.
Mode == [size : Sizes, format : {"argb", "other"}]
Rotations == {"identity", "90", "180", "notspecified", "unpinned"}
Scalings == {"identity", "centered", "stretched", "unpinned"}
\* plain: no gamma ramp and a linear colour basis.
Path == [target : 0..MaxChildren, pinned : BOOLEAN, scaling : Scalings,
         rotation : Rotations, plain : BOOLEAN]

ASSUME VidPnsAssumption ==
    \A v \in VidPns : v.mode \in Mode \cup {NULL} /\ v.path \in Seq(Path)

Pivots == [type : {"none", "source", "target", "scaling", "rotation"},
           target : 0..(MaxChildren - 1)]

VARIABLES
    pc, ddi,        \* the call in progress: "none", "enum", "monitor" or "commit"
    vidpn, pivot,   \* its arguments
    k, m,           \* loop indexes: path of the topology, mode of the list
    status,         \* of the call in progress, or of the last one
    local,          \* the objects that the call's local variables name
    live,           \* objects obtained and not yet given back
    made,           \* how many were obtained
    modes,          \* modes[side]: the mode set being filled
    offer,          \* what the last enumeration offered, for dxgkrnl to choose from
    current,        \* m_CurrentModes[0]: size and rotation
    committed,      \* the size and rotation dxgkrnl was last told were set
    (* history *)
    failures,
    refused,        \* objects that dxgkrnl refused to take back
    stale,          \* an object was used or released after it was given back
    leftOut,        \* pfnAcquireNextPathInfo failed and left its result alone
    cleaned,        \* the end of the call had something to release
    half            \* a commit failed after it had changed current

args == <<ddi, vidpn, pivot>>
objects == <<local, live, made, refused, stale>>
screen == <<current, committed, half>>
vars == <<pc, args, k, m, status, objects, modes, offer, screen, failures,
          leftOut, cleaned>>
-----------------------------------------------------------------------------
Slots == {"srcSet", "tgtSet", "srcPin", "tgtPin", "path", "temp", "info"}
SetOf == [src |-> "srcSet", tgt |-> "tgtSet"]
PinOf == [src |-> "srcPin", tgt |-> "tgtPin"]
Idle == <<"idle", "none">>
Exit(i) == <<"exit", i>>

\* What the three queries of IsSupportedVidPn add up to.
IsSupportedVidPn(v) == Len(v.path) <= MaxChildren

IsVidPnSourceModeFieldsValid(mode) == mode.format = "argb"

IsVidPnPathFieldsValid(p) ==
    /\ p.target < MaxChildren
    /\ p.scaling \in {"identity", "centered"}
    /\ p.rotation \in {"identity", "90", "notspecified"}
    /\ p.plain

NoOffer == [mode |-> {}, rotation |-> <<>>, scaling |-> <<>>]

\* Nothing is left of a call between calls.
NoCall ==
    [ddi |-> "none", vidpn |-> [mode |-> NULL, path |-> <<>>],
     pivot |-> [type |-> "none", target |-> 0], local |-> [s \in Slots |-> NULL],
     modes |-> [side \in {"src", "tgt", "mon"} |-> {}]]

Init ==
    /\ pc = Idle
    /\ ddi = NoCall.ddi /\ vidpn = NoCall.vidpn /\ pivot = NoCall.pivot
    /\ k = 1 /\ m = 0 /\ status = "OK"
    /\ local = NoCall.local /\ live = {} /\ made = 0
    /\ modes = NoCall.modes
    /\ failures = 0 /\ refused = {} /\ stale = FALSE
    /\ leftOut = FALSE /\ cleaned = FALSE
    /\ offer = NoOffer
    /\ current = [size |-> ModeList[1], rotation |-> "identity"]
    /\ committed = current /\ half = FALSE

-----------------------------------------------------------------------------
(* The shapes of a callback                                                *)

\* It fails: the code breaks out of the loop or jumps to the exit label.
Fail ==
    /\ failures < MaxFailures
    /\ failures' = failures + 1
    /\ status' = "FAIL"
    /\ pc' = Exit(1)

Obtain(slot) ==
    /\ local' = [local EXCEPT ![slot] = made + 1]
    /\ live' = live \cup {made + 1}
    /\ made' = made + 1
    /\ UNCHANGED <<refused, stale>>

\* A mode info lives in its set: it is gone once the set is.
Gone(slot) ==
    \/ local[slot] \notin live
    \/ slot = "srcPin" /\ local["srcSet"] \notin live
    \/ slot = "tgtPin" /\ local["tgtSet"] \notin live

\* Released, assigned, or added to a set: the driver is done with it.
GiveBack(slot) ==
    /\ live' = live \ {local[slot]}
    /\ stale' = (stale \/ Gone(slot))
    /\ local' = [local EXCEPT ![slot] = NULL]
    /\ UNCHANGED <<made, refused>>

Refuse(slot) ==
    /\ refused' = refused \cup {local[slot]}
    /\ stale' = (stale \/ Gone(slot))
    /\ UNCHANGED <<local, live, made>>

\* A call that obtains the object in slot, and goes on at next.
ObtainOrFail(slot, next) ==
    \/ Obtain(slot) /\ pc' = next /\ UNCHANGED <<status, failures>>
    \/ Fail /\ UNCHANGED objects

\* A call that releases the object in slot, and goes on at next.
ReleaseOrFail(slot, next) ==
    \/ GiveBack(slot) /\ pc' = next /\ UNCHANGED <<status, failures>>
    \/ Refuse(slot) /\ Fail

-----------------------------------------------------------------------------
(* Calls begin                                                             *)

Begin(call, v) ==
    /\ pc = Idle
    /\ ddi' = call
    /\ vidpn' = v
    /\ UNCHANGED <<k, m, status, objects, screen, failures, leftOut, cleaned>>

Targets(v) == {v.path[i].target : i \in DOMAIN v.path}
PathTo(v, t) == CHOOSE p \in Range(v.path) : p.target = t

\* EnumVidPnCofuncModality up to its loop.  A query that fails is returned at
\* once: with nothing acquired yet, this is what AcquireFirstPathInfo does then.
EnumVidPnCofuncModality(v, pv) ==
    /\ v.path # <<>>
    /\ Begin("enum", v)
    /\ pivot' = pv
    /\ offer' = [mode |-> {}, rotation |-> [t \in Targets(v) |-> {PathTo(v, t).rotation}],
                 scaling |-> [t \in Targets(v) |-> {PathTo(v, t).scaling}]]
    /\ pc' = <<"begin", "enum">>
    /\ UNCHANGED modes

AcquireFirstPathInfo ==
    /\ pc = <<"begin", "enum">>
    /\ ObtainOrFail("path", <<"acquire", "src">>)
    /\ UNCHANGED <<args, k, m, modes, offer, screen, leftOut, cleaned>>

\* RecommendMonitorModes, for a monitor that may know some modes by itself.
RecommendMonitorModes(known) ==
    /\ Begin("monitor", vidpn)
    /\ modes' = [modes EXCEPT !["mon"] = known]
    /\ pc' = <<"create", "mon">>
    /\ UNCHANGED <<pivot, offer>>

\* CommitVidPn up to the source mode set.  PathPoweredOff, and a VidPn without
\* paths, end it with success and nothing done; a query that fails is a failure
\* of AcquireModeSet.
CommitVidPn(v, PathPoweredOff) ==
    /\ Begin("commit", v)
    /\ pc' = IF PathPoweredOff \/ v.path = <<>> THEN Exit(1) ELSE <<"acquire", "src">>
    /\ UNCHANGED <<pivot, modes, offer>>

UpdateActiveVidPnPresentPath(p) ==
    /\ pc = Idle
    /\ IsVidPnPathFieldsValid(p)      \* else it is refused and nothing changes
    /\ current' = [current EXCEPT !.rotation = p.rotation]
    /\ committed' = [committed EXCEPT !.rotation = p.rotation]
    /\ UNCHANGED <<pc, args, k, m, status, objects, modes, offer, half, failures,
                   leftOut, cleaned>>

-----------------------------------------------------------------------------
(* Mode sets (enumeration and commit)                                      *)

ThisPath == vidpn.path[k]
SourceIsPivot == pivot.type = "source"
TargetIsPivot == pivot.type = "target" /\ pivot.target = ThisPath.target
PathIsPivot == pivot.target = ThisPath.target

AfterSource == IF TargetIsPivot THEN <<"tail", "src">> ELSE <<"acquire", "tgt">>
After(side) == IF side = "src" THEN AfterSource ELSE <<"tail", "src">>

AcquireModeSet(side) ==
    /\ pc = <<"acquire", side>>
    /\ ObtainOrFail(SetOf[side], <<"pinned", side>>)
    /\ UNCHANGED <<args, k, m, modes, offer, screen, leftOut, cleaned>>

Pinned(side) == IF side = "src" THEN vidpn.mode # NULL ELSE ThisPath.pinned

AfterPinnedKept(side) ==        \* a pinned target mode is not let go
    IF ddi = "commit" THEN <<"check", side>>
    ELSE CASE Pinned(side) /\ side = "tgt" -> <<"tail", "src">>
           [] ~Pinned(side) /\ ~(side = "src" /\ SourceIsPivot) -> <<"rebuild", side>>
           [] OTHER -> AfterSource

AfterPinned(side) ==
    IF ddi = "commit" THEN <<"check", side>>
    ELSE CASE Pinned(side) /\ side = "tgt" -> <<"unpin", side>>
           [] ~Pinned(side) /\ ~(side = "src" /\ SourceIsPivot) -> <<"rebuild", side>>
           [] OTHER -> AfterSource

\* An unpinned set yields no mode info, with success.
AcquirePinnedModeInfo(side) ==
    /\ pc = <<"pinned", side>>
    /\ \/ Pinned(side) /\ ObtainOrFail(PinOf[side], AfterPinned(side))
       \/ /\ ~Pinned(side)
          /\ \/ pc' = AfterPinned(side) /\ UNCHANGED <<status, failures>>
             \/ Fail
          /\ UNCHANGED objects
    /\ UNCHANGED <<args, k, m, modes, offer, screen, leftOut, cleaned>>

\* The acquired set is released, to make place for a new one.
ReleaseOldModeSet(side) ==
    /\ pc = <<"rebuild", side>>
    /\ ReleaseOrFail(SetOf[side], <<"new", side>>)
    /\ UNCHANGED <<args, k, m, modes, offer, screen, leftOut, cleaned>>

CreateNewModeSet(side) ==
    /\ pc = <<"new", side>>
    /\ ObtainOrFail(SetOf[side], <<"create", side>>)
    /\ m' = 1
    /\ modes' = [modes EXCEPT ![side] = {}]
    /\ UNCHANGED <<args, k, offer, screen, leftOut, cleaned>>

AssignModeSet(side) ==
    /\ pc = <<"assign", side>>
    /\ ReleaseOrFail(SetOf[side], After(side))
    /\ offer' = IF side = "src" /\ pc' # Exit(1)
                THEN [offer EXCEPT !.mode = modes[side]] ELSE offer
    /\ UNCHANGED <<args, k, m, modes, screen, leftOut, cleaned>>

\* A pinned target mode only has to be let go again, and then its set.
ReleasePinnedTarget ==
    /\ pc = <<"unpin", "tgt">>
    /\ IF local["tgtPin"] # NULL
       THEN ReleaseOrFail("tgtPin", pc)
       ELSE ReleaseOrFail("tgtSet", <<"tail", "src">>)
    /\ UNCHANGED <<args, k, m, modes, offer, screen, leftOut, cleaned>>

ModeSetStep(side) ==
    \/ AcquireModeSet(side) \/ AcquirePinnedModeInfo(side)
    \/ ReleaseOldModeSet(side) \/ CreateNewModeSet(side) \/ AssignModeSet(side)

SourceModes == ModeSetStep("src")
TargetModes == ModeSetStep("tgt") \/ ReleasePinnedTarget

-----------------------------------------------------------------------------
(* AddSingleSourceMode, AddSingleTargetMode, AddSingleMonitorMode          *)

\* The size that goes into a set: the target's loop asks for the mode whose
\* index is the source's id every time; the monitor's set starts with the
\* current mode.
SizeToAdd(side) ==
    CASE side = "src" -> ModeList[m]
      [] side = "tgt" -> ModeList[1]
      [] side = "mon" -> IF m = 0 THEN current.size ELSE ModeList[m]

\* Where these functions return, with success or with the status as it is.
Filled(side) == IF side = "mon" THEN Exit(1) ELSE <<"assign", side>>
NextModeShort(side) ==          \* one mode too few
    IF m + 1 < Len(ModeList) THEN <<"create", side>> ELSE Filled(side)
NextMode(side) == IF m < Len(ModeList) THEN <<"create", side>> ELSE Filled(side)

CreateNewModeInfo(side) ==
    /\ pc = <<"create", side>>
    /\ \/ Obtain("info") /\ pc' = <<"add", side>> /\ status' = "OK"
          /\ UNCHANGED failures
       \/ Fail /\ UNCHANGED objects
    /\ UNCHANGED <<args, k, m, modes, offer, screen, leftOut, cleaned>>

AddMode(side) ==
    /\ pc = <<"add", side>>
    /\ SizeToAdd(side) \notin modes[side]
    /\ GiveBack("info")
    /\ modes' = [modes EXCEPT ![side] = @ \cup {SizeToAdd(side)}]
    /\ pc' = NextMode(side) /\ m' = m + 1
    /\ UNCHANGED <<args, k, status, offer, screen, failures, leftOut, cleaned>>

\* The mode does not go in and its info is released.  why is the status of
\* pfnAddMode ("ALREADY" in the set, or "FAIL"), released that of the release.
\* The source's loop ends on "FAIL"; the target's goes on in any case, and the
\* monitor's does so after its first mode, with the status of the release.
AddModeRefused(side, why, released) ==
    /\ pc = <<"add", side>>
    /\ why = "ALREADY" <=> SizeToAdd(side) \in modes[side]
    /\ LET errors == Cardinality({x \in {<<"add", why>>, <<"release", released>>} : x[2] = "FAIL"})
       IN  failures + errors <= MaxFailures /\ failures' = failures + errors
    /\ IF released = "OK" THEN GiveBack("info") ELSE Refuse("info")
    /\ m' = m + 1
    /\ IF (side = "mon" /\ m = 0) \/ (side = "src" /\ why = "FAIL")
       THEN pc' = Exit(1) ELSE pc' = NextMode(side)
    /\ status' = CASE side = "mon" /\ m = 0 -> IF why = "ALREADY" THEN "OK" ELSE why
                   [] side = "mon" /\ m > 0 -> released
                   [] side = "src" -> IF why = "ALREADY" THEN "OK" ELSE why
                   [] side = "tgt" -> "OK"
    /\ UNCHANGED <<args, k, modes, offer, screen, leftOut, cleaned>>

AddSingleMode(side) ==
    \/ CreateNewModeInfo(side) \/ AddMode(side)
    \/ \E why \in {"ALREADY", "FAIL"}, released \in {"OK", "FAIL"} :
          AddModeRefused(side, why, released)

AddSingleSourceMode == AddSingleMode("src")
AddSingleTargetMode == AddSingleMode("tgt")
AddSingleMonitorMode == AddSingleMode("mon")

-----------------------------------------------------------------------------
(* The end of the enumeration's loop                                       *)

ReleaseSource ==
    /\ pc = <<"tail", "src">>
    /\ \/ local["srcPin"] # NULL /\ ReleaseOrFail("srcPin", pc)
       \/ /\ local["srcPin"] = NULL /\ local["srcSet"] # NULL
          /\ ReleaseOrFail("srcSet", pc)
    /\ UNCHANGED <<args, k, m, modes, offer, screen, leftOut, cleaned>>

OffersScaling ==
    /\ ThisPath.scaling = "unpinned"
    /\ ~(pivot.type = "scaling" /\ PathIsPivot)

\* The rotation is offered for the path that is the pivot only if the rotation
\* is the pivot.
OffersRotation ==
    /\ ThisPath.rotation = "unpinned"
    /\ ~(pivot.type # "rotation" /\ PathIsPivot)

AllRotations == {"identity", "90", "180"}
SupportedRotations == {"identity", "90"}
SupportedScalings == {"identity", "centered"}

UpdatePathSupportInfo ==
    /\ pc = <<"tail", "src">> /\ local["srcPin"] = NULL /\ local["srcSet"] = NULL
    /\ \/ /\ pc' = <<"next", "path">>
          /\ offer' = [offer EXCEPT
                !.scaling[ThisPath.target] = IF OffersScaling THEN SupportedScalings ELSE @,
                !.rotation[ThisPath.target] = IF OffersRotation THEN SupportedRotations ELSE @]
          /\ UNCHANGED <<status, failures>>
       \/ (OffersScaling \/ OffersRotation) /\ Fail /\ UNCHANGED offer
    /\ UNCHANGED <<args, k, m, objects, modes, screen, leftOut, cleaned>>

\* The path in hand becomes pVidPnPresentPathTemp.  After the last path the
\* result is null, with the status NO_MORE_ELEMENTS_IN_DATASET; a call that
\* fails may null its result or leave it alone.
AcquireNextPathInfo ==
    /\ pc = <<"next", "path">>
    /\ \/ /\ k < Len(vidpn.path)
          /\ local' = [local EXCEPT !["temp"] = local["path"], !["path"] = made + 1]
          /\ live' = live \cup {made + 1} /\ made' = made + 1
          /\ pc' = <<"release", "temp">>
          /\ UNCHANGED <<status, failures, leftOut>>
       \/ /\ k = Len(vidpn.path)
          /\ local' = [local EXCEPT !["temp"] = local["path"], !["path"] = NULL]
          /\ pc' = <<"release", "temp">>
          /\ UNCHANGED <<live, made, status, failures, leftOut>>
       \/ /\ Fail
          /\ leftOut' \in BOOLEAN
          /\ local' = [local EXCEPT !["temp"] = local["path"],
                                    !["path"] = IF leftOut' THEN @ ELSE NULL]
          /\ UNCHANGED <<live, made>>
    /\ UNCHANGED <<args, k, m, refused, stale, modes, offer, screen, cleaned>>

ReleaseLastPath ==
    /\ pc = <<"release", "temp">>
    /\ ReleaseOrFail("temp", IF k < Len(vidpn.path) THEN <<"acquire", "src">> ELSE Exit(1))
    /\ k' = k + 1
    /\ UNCHANGED <<args, m, modes, offer, screen, leftOut, cleaned>>

-----------------------------------------------------------------------------
(* The rest of CommitVidPn                                                 *)

\* No pinned mode: nothing to set.  pfnGetNumPathsFromSource may fail.
CheckSourceMode ==
    /\ pc = <<"check", "src">>
    /\ \/ /\ vidpn.mode = NULL
          /\ pc' = Exit(1) /\ UNCHANGED <<status, failures>>
       \/ /\ vidpn.mode # NULL /\ ~IsVidPnSourceModeFieldsValid(vidpn.mode)
          /\ pc' = Exit(1) /\ status' = "INVALID" /\ UNCHANGED failures
       \/ /\ vidpn.mode # NULL /\ IsVidPnSourceModeFieldsValid(vidpn.mode)
          /\ \/ pc' = <<"acquire", "path">> /\ UNCHANGED <<status, failures>>
             \/ Fail
    /\ UNCHANGED <<args, k, m, objects, modes, offer, screen, leftOut, cleaned>>

\* pfnEnumPathTargetsFromSource and pfnAcquirePathInfo.
AcquirePathInfo ==
    /\ pc = <<"acquire", "path">>
    /\ ObtainOrFail("path", <<"set", "path">>)
    /\ half' = (half \/ (status' = "FAIL" /\ k > 1))
    /\ UNCHANGED <<args, k, m, modes, offer, current, committed, leftOut, cleaned>>

SetSourceModeAndPathFirst ==     \* the path is checked after it was used
    /\ pc = <<"set", "path">>
    /\ current' = [size |-> vidpn.mode.size, rotation |-> ThisPath.rotation]
    /\ IF IsVidPnPathFieldsValid(ThisPath)
       THEN \/ pc' = <<"done", "path">> /\ UNCHANGED <<status, half, failures>>
            \/ half' = TRUE /\ Fail
       ELSE /\ pc' = Exit(1) /\ status' = "INVALID"
            /\ half' = (half \/ k > 1)
            /\ UNCHANGED failures
    /\ UNCHANGED <<args, k, m, objects, modes, offer, committed, leftOut, cleaned>>

\* IsVidPnPathFieldsValid, then SetSourceModeAndPath, which fills in the current
\* mode before the switch that can fail.
SetSourceModeAndPath ==
    /\ pc = <<"set", "path">>
    /\ IF IsVidPnPathFieldsValid(ThisPath)
       THEN /\ current' = [size |-> vidpn.mode.size, rotation |-> ThisPath.rotation]
            /\ \/ pc' = <<"done", "path">> /\ UNCHANGED <<status, half, failures>>
               \/ half' = TRUE /\ Fail
            /\ UNCHANGED committed
       ELSE /\ pc' = Exit(1) /\ status' = "INVALID"
            /\ half' = (half \/ k > 1)
            /\ UNCHANGED <<current, committed, failures>>
    /\ UNCHANGED <<args, k, m, objects, modes, offer, leftOut, cleaned>>

ReleasePathInfo ==
    /\ pc = <<"done", "path">>
    /\ ReleaseOrFail("path", IF k < Len(vidpn.path) THEN <<"acquire", "path">> ELSE Exit(1))
    /\ half' = (half \/ status' = "FAIL")
    /\ k' = k + 1
    /\ UNCHANGED <<args, m, modes, offer, current, committed, leftOut, cleaned>>

-----------------------------------------------------------------------------
(* The end of the calls                                                    *)

ExitOrderSetsFirst ==
    [enum |-> <<"srcSet", "tgtSet", "srcPin", "tgtPin", "path", "temp">>,
     commit |-> <<"srcSet", "srcPin", "path">>, monitor |-> <<>>]
ExitOrder ==
    [enum |-> <<"srcPin", "tgtPin", "path", "temp", "srcSet", "tgtSet">>,
     commit |-> <<"srcPin", "srcSet", "path">>, monitor |-> <<>>]

ToClean == {i \in DOMAIN ExitOrder[ddi] : local[ExitOrder[ddi][i]] # NULL}

\* Release what the local variables still name.  The locals keep their values
\* here, and the status of these calls is dropped.
CleanUp(i) ==
    /\ pc[1] = "exit" /\ pc[2] <= i
    /\ i \in ToClean /\ \A j \in ToClean : j >= pc[2] => i <= j
    /\ LET slot == ExitOrder[ddi][i] IN
       /\ stale' = (stale \/ Gone(slot))
       /\ \/ live' = live \ {local[slot]} /\ UNCHANGED <<refused, failures>>
          \/ /\ failures < MaxFailures /\ failures' = failures + 1
             /\ refused' = refused \cup {local[slot]} /\ UNCHANGED live
    /\ cleaned' = TRUE
    /\ pc' = Exit(i + 1)
    /\ UNCHANGED <<args, k, m, status, local, made, modes, offer, screen, leftOut>>

\* The cleanup is over, and status is what the call returns.
Ended == pc[1] = "exit" /\ \A i \in ToClean : i < pc[2]

\* A commit that succeeds and has a mode for a path sets that mode.  dxgkrnl uses
\* the answer of an enumeration only if it succeeded.
Return ==
    /\ Ended
    /\ LET sets == /\ ddi = "commit" /\ status = "OK"
                   /\ local["srcSet"] # NULL /\ vidpn.mode # NULL
       IN  /\ committed' = IF sets THEN [size |-> vidpn.mode.size,
                                         rotation |-> Last(vidpn.path).rotation]
                           ELSE committed
           /\ half' = (half /\ ~sets)
    /\ offer' = IF ddi = "enum" /\ status # "OK" THEN NoOffer ELSE offer
    /\ pc' = Idle
    /\ ddi' = NoCall.ddi /\ vidpn' = NoCall.vidpn /\ pivot' = NoCall.pivot
    /\ k' = 1 /\ m' = 0 /\ status' = "OK"
    /\ local' = NoCall.local /\ live' = {} /\ made' = 0
    /\ modes' = NoCall.modes
    /\ failures' = 0 /\ refused' = {} /\ stale' = FALSE
    /\ leftOut' = FALSE /\ cleaned' = FALSE
    /\ UNCHANGED current

Next ==
    \/ \E v \in VidPns :
          /\ IsSupportedVidPn(v)
          /\ \/ \E pv \in Pivots : EnumVidPnCofuncModality(v, pv)
             \/ \E off \in BOOLEAN : CommitVidPn(v, off)
    \/ \E known \in SUBSET Sizes : RecommendMonitorModes(known)
    \/ \E v \in VidPns : \E p \in Range(v.path) : UpdateActiveVidPnPresentPath(p)
    \/ AcquireFirstPathInfo
    \/ SourceModes \/ TargetModes
    \/ AddSingleSourceMode \/ AddSingleTargetMode \/ AddSingleMonitorMode
    \/ ReleaseSource \/ UpdatePathSupportInfo \/ AcquireNextPathInfo \/ ReleaseLastPath
    \/ CheckSourceMode \/ AcquirePathInfo \/ SetSourceModeAndPath \/ ReleasePathInfo
    \/ \E i \in 1..6 : CleanUp(i)
    \/ Return

Spec == Init /\ [][Next]_vars
-----------------------------------------------------------------------------
(* Properties                                                              *)

\* However a call ends, everything it obtained was given back, unless dxgkrnl
\* refused to take it; and nothing is released twice or used after its release,
\* unless pfnAcquireNextPathInfo failed and left the last path in its result:
\* then the cleanup releases that path twice.
GivenBackOnce ==
    /\ Ended => live \subseteq refused
    /\ stale => leftOut

\* "In normal execution everything should be released by this point": an
\* enumeration that succeeds leaves its cleanup nothing to do.
SuccessNeedsNoCleanup ==
    Ended /\ ddi = "enum" /\ status = "OK" => ~cleaned

\* A commit of what the last enumeration offered is never refused as invalid:
\* the modes and supports that the driver reports are those it accepts.
OfferIsAccepted ==
    LET chosen ==
          /\ vidpn.mode # NULL
          /\ vidpn.mode.format = "argb" /\ vidpn.mode.size \in offer.mode
          /\ \A p \in Range(vidpn.path) :
                /\ p.target \in DOMAIN offer.rotation /\ p.plain
                /\ p.rotation \in offer.rotation[p.target] \ {"unpinned"}
                /\ p.scaling \in offer.scaling[p.target] \ {"unpinned"}
    IN  ddi = "commit" /\ chosen => status # "INVALID"

\* Between calls the driver draws with the size and rotation that dxgkrnl was
\* last told were set, unless a commit failed halfway.
CurrentIsCommitted == pc = Idle /\ ~half => current = committed

\* A set that the driver fills has what it should have. The source mode set it
\* assigns has every size of the mode list; the target's has the list's first, and
\* no other. A monitor's set has the current size when the call succeeds, and if
\* that was the driver's to add (m > 1), every size of the list. A callback that
\* refuses one mode is not an error to the last two, so there none has failed.
WholeListOffered ==
    /\ pc[1] = "assign" /\ pc[2] = "src" => modes["src"] = Sizes
    /\ pc[1] = "assign" /\ pc[2] = "tgt" /\ failures = 0 => modes["tgt"] = {ModeList[1]}
    /\ Ended /\ ddi = "monitor" /\ status = "OK" =>
          /\ current.size \in modes["mon"]
          /\ failures = 0 /\ m > 1 => Sizes \subseteq modes["mon"]
=============================================================================
