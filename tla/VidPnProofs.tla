---------------------------- MODULE VidPnProofs ----------------------------
(***************************************************************************)
(* That the calls of the mode negotiation (VidPn) keep their promises, for *)
(* every mode list, every set of VidPns and every bound on failures.       *)
(*                                                                         *)
(* Inv is what the five properties need. PlaceInv says which call can      *)
(* stand where, and with which path in hand. ObjectInv has two halves: as  *)
(* long as the call runs, every object it holds is named by exactly one    *)
(* local variable (Owned), and the place says which local variables name   *)
(* one (Named); from the exit label on, what is left to release is named   *)
(* by a local variable whose turn is still to come (ExitInv). Owned fails  *)
(* at one step only, a pfnAcquireNextPathInfo that fails and leaves its    *)
(* result alone, and leftOut remembers it.                                 *)
(*                                                                         *)
(* CurrentInv follows m_CurrentModes through a commit: the path set last   *)
(* is the one before k, and the last of them is what dxgkrnl is told.      *)
(* FillInv is the loop invariant of the mode lists. OfferInv carries what  *)
(* an enumeration offered to the commit that chooses from it.              *)
(*                                                                         *)
(* The order: objects one at a time, then ends of calls, then one lemma    *)
(* per action.                                                             *)
(***************************************************************************)
EXTENDS VidPn, FiniteSetTheorems, TLAPS

\* The local variable slot names an object.
Have(slot) == local[slot] # NULL

\* Where a call can stand.
SetSteps == {"acquire", "pinned", "rebuild", "new", "create", "add", "assign"}
\* The places of a mode set of one side.
SetPlaces(side) == SetSteps \X {side}
\* The places of EnumVidPnCofuncModality.
EnumPlaces ==
    SetPlaces("src") \cup SetPlaces("tgt")
      \cup {<<"begin", "enum">>, <<"unpin", "tgt">>, <<"tail", "src">>,
            <<"next", "path">>, <<"release", "temp">>}
\* The places of CommitVidPn.
CommitPlaces ==
    {<<"acquire", "src">>, <<"pinned", "src">>, <<"check", "src">>,
     <<"acquire", "path">>, <<"set", "path">>, <<"done", "path">>}
\* The places of RecommendMonitorModes.
MonitorPlaces == {<<"create", "mon">>, <<"add", "mon">>}
\* The places between a call's beginning and its exit label.
Places == EnumPlaces \cup CommitPlaces \cup MonitorPlaces
\* The exit label, and the objects of at most six local variables after it.
Exits == {Exit(i) : i \in 1..7}

\* Which call can stand where.  While a call of an enumeration or a commit goes on,
\* nothing has failed in it and it has a path in hand.
PlaceInv ==
    /\ pc \in Places \cup Exits \cup {Idle}
    /\ ddi = "none" <=> pc = Idle
    /\ ddi = "none" => vidpn = NoCall.vidpn
    /\ ddi = "monitor" => pc \in MonitorPlaces \cup Exits
    /\ ddi = "enum" => pc \in EnumPlaces \cup Exits
    /\ ddi = "commit" => pc \in CommitPlaces \cup Exits
    /\ ddi \in {"none", "enum", "commit", "monitor"}
    /\ vidpn \in VidPns \cup {NoCall.vidpn}
    /\ pc \in EnumPlaces \cup CommitPlaces => k \in DOMAIN vidpn.path
    /\ pc \in Places /\ ddi # "monitor" => status = "OK"
    /\ pc = Idle => k = 1 /\ m = 0 /\ status = "OK"

\* Objects that were obtained, have not been given back, and are not in vain, are named
\* by one local variable each.
Owned ==
    /\ made \in Nat /\ live \subseteq 1..made
    /\ local \in [Slots -> 1..made \cup {NULL}]
    /\ \A s \in Slots : Have(s) => local[s] \in live
    /\ \A s, t \in Slots : Have(s) /\ local[s] = local[t] => s = t
    /\ \A o \in live : o \in refused \/ \E s \in Slots : local[s] = o
    /\ Have("srcPin") => Have("srcSet")
    /\ Have("tgtPin") => Have("tgtSet")
    /\ ~stale

\* The places where a call has a mode set of its side in hand.
InSet(side) == {<<a, side>> : a \in {"pinned", "rebuild", "create", "add", "assign"}}
\* What the local variables name at each place of a call.
Named ==
    /\ Have("info") => pc[1] = "add" \/ local["info"] \in refused
    /\ pc[1] = "add" => Have("info")
    /\ Have("temp") <=> pc = <<"release", "temp">>
    /\ Have("path") <=>
          \/ ddi = "enum" /\ pc # <<"begin", "enum">>
                /\ (pc = <<"release", "temp">> => k < Len(vidpn.path))
          \/ pc \in {<<"set", "path">>, <<"done", "path">>}
    /\ pc \in InSet("src") \cup (CommitPlaces \ {<<"acquire", "src">>}) => Have("srcSet")
    /\ pc \in {<<"acquire", "src">>, <<"new", "src">>, <<"next", "path">>, <<"release", "temp">>,
               <<"begin", "enum">>} \cup MonitorPlaces \cup {Idle} => ~Have("srcSet")
    /\ pc \in SetPlaces("src") => ~Have("srcPin")
    /\ pc = <<"check", "src">> => (Have("srcPin") <=> vidpn.mode # NULL)
    /\ pc \in {<<"acquire", "path">>, <<"set", "path">>, <<"done", "path">>} => vidpn.mode # NULL
    /\ Have("tgtSet") <=> pc \in InSet("tgt") \cup {<<"unpin", "tgt">>}
    /\ Have("tgtPin") => pc = <<"unpin", "tgt">>

\* What is left to clean up at the end of a call.
Left == {i \in DOMAIN ExitOrder[ddi] : pc[2] <= i}
\* From the exit label on: what was obtained is refused or its turn to be released is
\* still to come, and an enumeration that succeeded has nothing to release.
ExitInv ==
    /\ made \in Nat /\ live \subseteq 1..made
    /\ local \in [Slots -> 1..made \cup {NULL}]
    /\ \A o \in live : o \in refused \/ \E i \in Left : local[ExitOrder[ddi][i]] = o
    /\ stale => leftOut
    /\ ~leftOut =>
          /\ \A i \in Left : Have(ExitOrder[ddi][i]) => local[ExitOrder[ddi][i]] \in live
          /\ \A s, t \in Slots : Have(s) /\ local[s] = local[t] => s = t
          /\ Have("srcPin") => Have("srcSet")
          /\ Have("tgtPin") => Have("tgtSet")
    /\ ddi = "enum" /\ status = "OK" => ToClean = {} /\ ~cleaned

\* Objects, before and after the exit label.
ObjectInv ==
    /\ pc \in Places \cup {Idle} => Owned /\ Named /\ ~leftOut /\ ~cleaned
    /\ pc \in Exits => ExitInv

\* The places of a commit that has begun to set modes.
Setting == {<<"acquire", "path">>, <<"set", "path">>, <<"done", "path">>}

\* What SetSourceModeAndPath makes of path i.
SetTo(i) == [size |-> vidpn.mode.size, rotation |-> vidpn.path[i].rotation]
\* The commit is one that Return reports as having set a mode.
WillSet == /\ ddi = "commit" /\ status = "OK"
           /\ local["srcSet"] # NULL /\ vidpn.mode # NULL
\* The current mode through a commit: the committed one until the first path is set, then
\* that of the path set last, and at the end that of the last path; half tells of the rest.
CurrentInv ==
    /\ ddi = "commit" /\ pc \in CommitPlaces \ Setting => k = 1
    /\ pc = <<"done", "path">> => current = SetTo(k)
    /\ pc \in {<<"acquire", "path">>, <<"set", "path">>} /\ k > 1 => current = SetTo(k - 1)
    /\ pc \in CommitPlaces /\ (pc \in {<<"acquire", "path">>, <<"set", "path">>} => k = 1)
          /\ pc # <<"done", "path">> /\ ~half => current = committed
    /\ ddi # "commit" /\ ~half => current = committed
    /\ pc \in Exits /\ WillSet => current = [size |-> vidpn.mode.size, rotation |-> Last(vidpn.path).rotation]
    /\ pc \in Exits /\ ~WillSet /\ ~half => current = committed

\* The call fills three sets, and counts the callbacks that fail.
ModesOK == DOMAIN modes = {"src", "tgt", "mon"} /\ failures \in Nat
\* What a monitor's mode set has at the end.
MonitorFilled ==
    /\ current.size \in modes["mon"]
    /\ failures = 0 /\ m > 1 => Sizes \subseteq modes["mon"]
\* The loops over the mode list: what has gone into the set so far.
FillInv ==
    /\ pc \in {<<"create", "src">>, <<"add", "src">>} =>
          /\ m \in DOMAIN ModeList
          /\ modes["src"] = {ModeList[j] : j \in 1..(m - 1)}
    /\ pc = <<"assign", "src">> => modes["src"] = Sizes
    /\ pc \in {<<"create", "tgt">>, <<"add", "tgt">>} =>
          /\ m \in Nat \ {0} /\ modes["tgt"] \subseteq {ModeList[1]}
          /\ failures = 0 /\ m > 1 => ModeList[1] \in modes["tgt"]
    /\ pc = <<"assign", "tgt">> /\ failures = 0 => modes["tgt"] = {ModeList[1]}
    /\ pc \in MonitorPlaces =>
          /\ m \in Nat /\ (m > 0 => current.size \in modes["mon"])
          /\ failures = 0 => \A j \in 1..(m - 1) : ModeList[j] \in modes["mon"]
    /\ pc \in Exits /\ ddi = "monitor" /\ status = "OK" => MonitorFilled

\* The rotations IsVidPnPathFieldsValid lets pass.
ValidRotations == {"identity", "90", "notspecified"}
\* The scalings IsVidPnPathFieldsValid lets pass.
ValidScalings == {"identity", "centered"}
\* What dxgkrnl has pinned of the paths when it asks for modes, it was offered.
PathsOffered ==
    \A v \in VidPns : v.mode = NULL /\ IsSupportedVidPn(v) =>
       \A p \in Range(v.path) : /\ p.target < MaxChildren
                                /\ p.rotation \in ValidRotations \cup {"unpinned"}
                                /\ p.scaling \in ValidScalings \cup {"unpinned"}
\* Whatever is taken from the offer passes IsVidPnPathFieldsValid.
Acceptable ==
    PathsOffered =>
       /\ DOMAIN offer.scaling = DOMAIN offer.rotation
       /\ \A t \in DOMAIN offer.rotation :
             /\ t < MaxChildren
             /\ offer.rotation[t] \subseteq ValidRotations \cup {"unpinned"}
             /\ offer.scaling[t] \subseteq ValidScalings \cup {"unpinned"}
\* The VidPn being committed takes its mode, scaling and rotation from the offer.
Chosen ==
    /\ PathsOffered
    /\ vidpn.mode # NULL
    /\ vidpn.mode.format = "argb" /\ vidpn.mode.size \in offer.mode
    /\ \A p \in Range(vidpn.path) :
          /\ p.target \in DOMAIN offer.rotation /\ p.plain
          /\ p.rotation \in offer.rotation[p.target] \ {"unpinned"}
          /\ p.scaling \in offer.scaling[p.target] \ {"unpinned"}
\* The offer is acceptable whenever it has a mode in it: the source mode set is filled
\* only when no mode is pinned, and such an enumeration began with an acceptable offer.
OfferInv ==
    /\ offer = [mode |-> offer.mode, rotation |-> offer.rotation, scaling |-> offer.scaling]
    /\ offer.mode # {} => Acceptable
    /\ ddi = "enum" /\ vidpn.mode = NULL => Acceptable
    /\ ddi = "enum" /\ vidpn.mode # NULL => offer.mode = {}
    /\ pc \in SetPlaces("src") \ {<<"acquire", "src">>, <<"pinned", "src">>} => vidpn.mode = NULL
    /\ ddi = "commit" /\ status = "INVALID" => ~Chosen

\* The inductive invariant.
Inv == PlaceInv /\ ObjectInv /\ CurrentInv /\ FillInv /\ OfferInv

-----------------------------------------------------------------------------
(* Objects                                                                 *)

\* A new object is named by the local variable it goes into, which named none, or
\* one that was refused.
LEMMA ObtainOwned ==
    ASSUME Owned, NEW slot \in Slots, Obtain(slot),
           Have(slot) => local[slot] \in refused,
           slot = "srcPin" => Have("srcSet"), slot = "tgtPin" => Have("tgtSet")
    PROVE  /\ Owned' /\ Have(slot)'
           /\ \A s \in Slots : s # slot => local'[s] = local[s]
           /\ UNCHANGED refused
<1>1. /\ made' = made + 1 /\ made' \in Nat /\ made' # NULL /\ live' = live \cup {made'}
      /\ UNCHANGED <<refused, stale>>
  BY NullAssumption DEF Owned, Obtain
<1>2. made' \in 1..made' /\ \A o \in 1..made : o \in 1..made'
  BY <1>1 DEF Owned
<1>3. local' = [local EXCEPT ![slot] = made'] /\ local \in [Slots -> 1..made \cup {NULL}]
  BY <1>1 DEF Owned, Obtain
<1>4. /\ local'[slot] = made' /\ \A s \in Slots : s # slot => local'[s] = local[s]
      /\ local' \in [Slots -> 1..made' \cup {NULL}]
  BY <1>2, <1>3
<1>5. \A o \in live : o # made'
  BY <1>1 DEF Owned
<1>6. \A o \in live' : o \in refused' \/ \E s \in Slots : local'[s] = o
  <2>. SUFFICES ASSUME NEW o \in live, o \notin refused
                PROVE  \E s \in Slots : local'[s] = o
    BY <1>1, <1>4
  <2>1. PICK s \in Slots : local[s] = o
    BY DEF Owned
  <2>2. s # slot
    BY <1>1, <2>1, NullAssumption DEF Owned, Have
  <2>. QED
    BY <1>4, <2>1, <2>2
<1>7. /\ \A s \in Slots : Have(s)' => local'[s] \in live'
      /\ \A s, t \in Slots : Have(s)' /\ local'[s] = local'[t] => s = t
  BY <1>1, <1>4, <1>5 DEF Owned, Have
<1>8. /\ Have("srcPin")' => Have("srcSet")'
      /\ Have("tgtPin")' => Have("tgtSet")'
  BY <1>1, <1>4 DEF Owned, Have, Slots
<1>9. live' \subseteq 1..made' /\ ~stale'
  BY <1>1, <1>2 DEF Owned
<1>. QED
  BY <1>1, <1>4, <1>6, <1>7, <1>8, <1>9 DEF Owned, Have

\* An object given back is in nobody's way: it was not used after its end.
LEMMA GiveBackOwned ==
    ASSUME Owned, NEW slot \in Slots, GiveBack(slot), Have(slot),
           slot = "srcSet" => ~Have("srcPin"), slot = "tgtSet" => ~Have("tgtPin")
    PROVE  /\ Owned' /\ ~Have(slot)'
           /\ \A s \in Slots : s # slot => local'[s] = local[s]
           /\ UNCHANGED refused
<1>1. /\ live' = live \ {local[slot]} /\ UNCHANGED <<made, refused>>
      /\ local' = [local EXCEPT ![slot] = NULL]
  BY DEF GiveBack
<1>2. /\ local'[slot] = NULL /\ \A s \in Slots : s # slot => local'[s] = local[s]
      /\ local' \in [Slots -> 1..made' \cup {NULL}]
  BY <1>1 DEF Owned
<1>3. ~Gone(slot)
  BY DEF Owned, Gone, Have, Slots
<1>4. ~stale'
  BY <1>3 DEF GiveBack, Owned
<1>5. \A o \in live' : o \in refused' \/ \E s \in Slots : local'[s] = o
  BY <1>1, <1>2 DEF Owned
<1>6. /\ \A s \in Slots : Have(s)' => local'[s] \in live'
      /\ \A s, t \in Slots : Have(s)' /\ local'[s] = local'[t] => s = t
  BY <1>1, <1>2 DEF Owned, Have
<1>7. /\ Have("srcPin")' => Have("srcSet")'
      /\ Have("tgtPin")' => Have("tgtSet")'
  BY <1>1, <1>2 DEF Owned, Have, Slots
<1>8. made' \in Nat /\ live' \subseteq 1..made'
  BY <1>1 DEF Owned
<1>. QED
  BY <1>1, <1>2, <1>4, <1>5, <1>6, <1>7, <1>8 DEF Owned, Have

\* An object that dxgkrnl refuses to take is still named.
LEMMA RefuseOwned ==
    ASSUME Owned, NEW slot \in Slots, Refuse(slot), Have(slot)
    PROVE  /\ Owned' /\ local[slot] \in refused' /\ refused \subseteq refused'
           /\ UNCHANGED <<local, live, made>>
<1>1. ~Gone(slot)
  BY DEF Owned, Gone, Have, Slots
<1>2. ~stale' /\ refused' = refused \cup {local[slot]} /\ UNCHANGED <<local, live, made>>
  BY <1>1 DEF Refuse, Owned
<1>. QED
  BY <1>2 DEF Owned, Have

-----------------------------------------------------------------------------
(* The end of a call                                                       *)

\* The order in which the locals are released.
LEMMA ExitOrderFacts ==
    /\ DOMAIN ExitOrder["enum"] = 1..6 /\ DOMAIN ExitOrder["commit"] = 1..3
    /\ DOMAIN ExitOrder["monitor"] = {}
    /\ ExitOrder["enum"][1] = "srcPin" /\ ExitOrder["enum"][2] = "tgtPin"
    /\ ExitOrder["enum"][3] = "path" /\ ExitOrder["enum"][4] = "temp"
    /\ ExitOrder["enum"][5] = "srcSet" /\ ExitOrder["enum"][6] = "tgtSet"
    /\ ExitOrder["commit"][1] = "srcPin" /\ ExitOrder["commit"][2] = "srcSet"
    /\ ExitOrder["commit"][3] = "path"
BY DEF ExitOrder

\* Places, exits and Idle are three things.
LEMMA PlaceFacts ==
    /\ \A p \in Places : p[1] # "exit" /\ p # Idle /\ p \notin Exits
    /\ \A p \in Exits : p[1] = "exit" /\ p[2] \in 1..7 /\ p # Idle /\ p \notin Places
    /\ Idle \notin Places \cup Exits /\ Idle[1] # "exit"
    /\ \A i \in 1..7 : Exit(i) \in Exits
<1>1. \A p \in Places : p[1] # "exit" /\ p # Idle
  BY DEF Places, EnumPlaces, CommitPlaces, MonitorPlaces, SetPlaces, SetSteps, Idle
<1>2. \A p \in Exits : p[1] = "exit" /\ p[2] \in 1..7
  BY DEF Exits, Exit
<1>3. Idle[1] # "exit"
  BY DEF Idle
<1>4. \A i \in 1..7 : Exit(i) \in Exits
  BY DEF Exits
<1>. QED
  BY <1>1, <1>2, <1>3, <1>4

\* Every slot but that of a mode info is one that the call releases at its end.
LEMMA ExitSlots ==
    ASSUME PlaceInv, ObjectInv, pc \in Places
    PROVE  /\ \A i \in DOMAIN ExitOrder[ddi] : ExitOrder[ddi][i] \in Slots /\ i \in 1..6
           /\ \A s \in Slots : Have(s) /\ s # "info" =>
                 \E i \in DOMAIN ExitOrder[ddi] : ExitOrder[ddi][i] = s
<1>1. Named
  BY DEF ObjectInv
<1>2. CASE ddi = "enum"
  BY <1>2, ExitOrderFacts DEF Slots
<1>3. CASE ddi = "commit"
  <2>1. pc \in CommitPlaces
    BY <1>3, PlaceFacts DEF PlaceInv
  <2>2. ~Have("temp") /\ ~Have("tgtSet") /\ ~Have("tgtPin")
    BY <1>1, <2>1 DEF Named, CommitPlaces, InSet
  <2>. QED
    BY <1>3, <2>2, ExitOrderFacts DEF Slots
<1>4. CASE ddi = "monitor"
  <2>1. pc \in MonitorPlaces
    BY <1>4, PlaceFacts DEF PlaceInv
  <2>2. ~Have("temp") /\ ~Have("tgtSet") /\ ~Have("tgtPin") /\ ~Have("path") /\ ~Have("srcSet")
    BY <1>1, <1>4, <2>1 DEF Named, MonitorPlaces, InSet
  <2>3. ~Have("srcPin")
    BY <2>2, PlaceFacts DEF ObjectInv, Owned
  <2>. QED
    BY <1>4, <2>2, <2>3, ExitOrderFacts DEF Slots
<1>5. ddi # "none"
  BY PlaceFacts DEF PlaceInv
<1>. QED
  BY <1>2, <1>3, <1>4, <1>5 DEF PlaceInv

\* When a call comes to its end, the cleanup finds every object of it that dxgkrnl
\* has not refused.
LEMMA EndsObject ==
    ASSUME PlaceInv, ObjectInv, pc \in Places, pc' = Exit(1), UNCHANGED <<ddi, vidpn, cleaned>>,
           Owned', ~leftOut', Have("info")' => local'["info"] \in refused',
           \A s \in Slots : s # "info" /\ Have(s)' => Have(s),
           ddi = "enum" /\ status' = "OK" => \A s \in Slots : s # "info" => ~Have(s)'
    PROVE  PlaceInv' /\ ObjectInv'
<1>1. /\ \A i \in DOMAIN ExitOrder[ddi] : ExitOrder[ddi][i] \in Slots /\ i \in 1..6
      /\ \A s \in Slots : Have(s)' /\ s # "info" =>
            \E i \in DOMAIN ExitOrder[ddi] : ExitOrder[ddi][i] = s
  BY ExitSlots
<1>2. pc'[2] = 1 /\ pc' \in Exits
  BY PlaceFacts DEF Exit
<1>3. Left' = DOMAIN ExitOrder[ddi]
  BY <1>1, <1>2 DEF Left
<1>4. \A o \in live' : o \in refused' \/ \E i \in Left' : local'[ExitOrder[ddi][i]] = o
  <2>. SUFFICES ASSUME NEW o \in live', o \notin refused'
                PROVE  \E i \in Left' : local'[ExitOrder[ddi][i]] = o
    OBVIOUS
  <2>1. PICK s \in Slots : local'[s] = o
    BY DEF Owned
  <2>2. o # NULL
    BY NullAssumption DEF Owned
  <2>3. s # "info"
    BY <2>1, <2>2 DEF Have
  <2>. QED
    BY <1>1, <1>3, <2>1, <2>2, <2>3 DEF Have
<1>5. ddi = "enum" /\ status' = "OK" => ToClean' = {} /\ ~cleaned'
  <2>1. ~cleaned
    BY DEF ObjectInv
  <2>2. \A i \in DOMAIN ExitOrder["enum"] : ExitOrder["enum"][i] # "info"
    BY ExitOrderFacts
  <2>. QED
    BY <1>1, <2>1, <2>2 DEF ToClean, Have
<1>6. ExitInv'
  BY <1>1, <1>3, <1>4, <1>5 DEF ExitInv, Owned, Have
<1>7. ObjectInv'
  BY <1>2, <1>6, PlaceFacts DEF ObjectInv
<1>8. PlaceInv'
  BY <1>2, PlaceFacts DEF PlaceInv, Places
<1>. QED
  BY <1>7, <1>8

\* A call that has failed: whatever its cleanup finds, it sets nothing.
LEMMA FailedInv ==
    ASSUME Inv, pc \in Places, pc' = Exit(1), UNCHANGED <<ddi, vidpn, offer>>,
           PlaceInv', ObjectInv', status' # "OK", ~half' => current' = committed',
           status' = "INVALID" => ~Chosen
    PROVE  Inv'
<1>1. pc' \in Exits
  BY PlaceFacts
<1>2. CurrentInv'
  <2>1. ~WillSet'
    BY DEF WillSet
  <2>2. pc' \notin CommitPlaces
    BY <1>1, PlaceFacts DEF Places
  <2>. QED
    BY <1>1, <2>1, <2>2 DEF CurrentInv, CommitPlaces
<1>3. FillInv'
  BY <1>1, PlaceFacts DEF FillInv, Places, EnumPlaces, SetPlaces, SetSteps, MonitorPlaces
<1>4. OfferInv'
  <2>1. Acceptable' = Acceptable /\ Chosen' = Chosen
    BY DEF Acceptable, Chosen
  <2>2. pc' \notin SetPlaces("src")
    BY <1>1, PlaceFacts DEF Places, EnumPlaces
  <2>. QED
    BY <2>1, <2>2 DEF OfferInv, Inv
<1>. QED
  BY <1>2, <1>3, <1>4 DEF Inv

\* A call that fails where it stands.
LEMMA FailsInv ==
    ASSUME Inv, pc \in Places, pc' = Exit(1), UNCHANGED <<ddi, vidpn, cleaned, offer>>,
           Owned', ~leftOut', Have("info")' => local'["info"] \in refused',
           \A s \in Slots : s # "info" /\ Have(s)' => Have(s),
           status' # "OK", ~half' => current' = committed',
           status' = "INVALID" => ~Chosen
    PROVE  Inv'
<1>1. PlaceInv' /\ ObjectInv'
  BY EndsObject DEF Inv
<1>. QED
  BY <1>1, FailedInv

\* A callback fails before any mode is set: as long as nothing is half set, the current
\* mode is the committed one.
LEMMA NotSetting ==
    ASSUME Inv, pc \in Places, pc \notin Setting, UNCHANGED screen
    PROVE  ~half' => current' = committed'
<1>1. CASE ddi = "commit"
  BY <1>1, PlaceFacts DEF Inv, PlaceInv, CurrentInv, Setting, screen
<1>2. CASE ddi # "commit"
  BY <1>2 DEF Inv, CurrentInv, screen
<1>. QED
  BY <1>1, <1>2

\* A callback that obtains something, or nothing, fails.
LEMMA FailPlain ==
    ASSUME Inv, pc \in Places, pc \notin Setting, pc[1] # "add", Fail, UNCHANGED objects,
           UNCHANGED <<ddi, vidpn, offer, screen, leftOut, cleaned>>
    PROVE  Inv'
<1>1. Owned /\ Named /\ ~leftOut
  BY DEF Inv, ObjectInv
<1>2. Owned' /\ (Have("info")' => local'["info"] \in refused') /\ UNCHANGED local
  BY <1>1 DEF objects, Owned, Have, Named
<1>3. ~half' => current' = committed'
  BY NotSetting
<1>. QED
  BY <1>1, <1>2, <1>3, FailsInv DEF Fail, Have

\* A callback that takes something back fails.
LEMMA FailRelease ==
    ASSUME Inv, pc \in Places, pc \notin Setting, pc[1] # "add",
           NEW slot \in Slots, Have(slot), Refuse(slot), Fail,
           UNCHANGED <<ddi, vidpn, offer, screen, leftOut, cleaned>>
    PROVE  Inv'
<1>1. Owned /\ Named /\ ~leftOut
  BY DEF Inv, ObjectInv
<1>2. Owned' /\ refused \subseteq refused' /\ UNCHANGED local
  BY <1>1, RefuseOwned
<1>3. ~half' => current' = committed'
  BY NotSetting
<1>. QED
  BY <1>1, <1>2, <1>3, FailsInv DEF Fail, Have, Named

\* A call that sets no mode comes to its end.
LEMMA EndsInv ==
    ASSUME Inv, pc \in Places, ddi # "commit", pc' = Exit(1),
           UNCHANGED <<ddi, vidpn, cleaned, offer, screen>>,
           Owned', ~leftOut', Have("info")' => local'["info"] \in refused',
           \A s \in Slots : s # "info" /\ Have(s)' => Have(s),
           ddi = "enum" /\ status' = "OK" => \A s \in Slots : s # "info" => ~Have(s)',
           ddi = "monitor" /\ status' = "OK" => MonitorFilled'
    PROVE  Inv'
<1>1. PlaceInv' /\ ObjectInv'
  BY EndsObject DEF Inv
<1>2. pc' \in Exits /\ pc' \notin Places
  BY PlaceFacts
<1>3. CurrentInv'
  BY <1>2 DEF Inv, CurrentInv, WillSet, Places, CommitPlaces, screen
<1>4. FillInv'
  BY <1>2 DEF FillInv, Places, EnumPlaces, SetPlaces, SetSteps, MonitorPlaces, screen
<1>5. OfferInv'
  <2>1. pc' \notin SetPlaces("src")
    BY <1>2 DEF Places, EnumPlaces
  <2>. QED
    BY <2>1 DEF OfferInv, Inv, Acceptable
<1>. QED
  BY <1>1, <1>3, <1>4, <1>5 DEF Inv

\* A call that goes on.
LEMMA GoesOnInv ==
    ASSUME Inv, pc \in Places, UNCHANGED <<ddi, vidpn, cleaned, leftOut>>,
           ddi # "commit" => UNCHANGED screen,
           Owned', Named', FillInv', OfferInv',
           ddi = "enum" => pc' \in EnumPlaces, ddi = "commit" => pc' \in CommitPlaces /\ CurrentInv',
           ddi = "monitor" => pc' \in MonitorPlaces,
           ddi # "monitor" => k' \in DOMAIN vidpn.path /\ status' = "OK"
    PROVE  Inv'
<1>1. ddi \in {"enum", "commit", "monitor"} /\ pc' \in Places
  BY PlaceFacts DEF Inv, PlaceInv, Places
<1>2. PlaceInv'
  <2>1. ddi = "monitor" => pc' \notin EnumPlaces \cup CommitPlaces
    BY DEF EnumPlaces, CommitPlaces, MonitorPlaces, SetPlaces
  <2>. QED
    BY <1>1, <2>1, PlaceFacts DEF Inv, PlaceInv
<1>3. ObjectInv'
  BY <1>1, PlaceFacts DEF Inv, ObjectInv
<1>4. CurrentInv'
  <2>1. CASE ddi # "commit"
    <3>1. pc' \notin {<<"done", "path">>, <<"acquire", "path">>, <<"set", "path">>}
      BY <1>1, <2>1 DEF EnumPlaces, MonitorPlaces, SetPlaces, SetSteps
    <3>2. ~half => current = committed
      BY <2>1 DEF Inv, CurrentInv
    <3>. QED
      BY <1>1, <2>1, <3>1, <3>2, PlaceFacts DEF CurrentInv, screen
  <2>. QED
    BY <2>1
<1>. QED
  BY <1>2, <1>3, <1>4 DEF Inv

\* A step that leaves the offer alone.
LEMMA OfferSame ==
    ASSUME OfferInv, UNCHANGED <<ddi, vidpn, offer>>, status' = "INVALID" => status = "INVALID",
           pc' \in SetPlaces("src") \ {<<"acquire", "src">>, <<"pinned", "src">>} => vidpn.mode = NULL
    PROVE  OfferInv'
BY DEF OfferInv, Acceptable, Chosen

\* Where a call that negotiates modes stands.
LEMMA SidePlaces ==
    ASSUME PlaceInv, NEW side \in {"src", "tgt"}, NEW a \in SetSteps, pc = <<a, side>>
    PROVE  /\ pc \in Places
           /\ ddi = "enum" \/ (ddi = "commit" /\ side = "src" /\ a \in {"acquire", "pinned"})
           /\ k \in DOMAIN vidpn.path /\ status = "OK"
<1>1. pc \in EnumPlaces
  BY DEF EnumPlaces, SetPlaces
<1>2. pc \in Places
  BY <1>1 DEF Places
<1>3. ddi \in {"enum", "commit", "monitor"}
  BY <1>2, PlaceFacts DEF PlaceInv
<1>4. ddi # "monitor"
  BY <1>2, PlaceFacts DEF PlaceInv, MonitorPlaces
<1>5. ddi = "commit" => side = "src" /\ a \in {"acquire", "pinned"}
  BY <1>2, PlaceFacts DEF PlaceInv, CommitPlaces, SetSteps
<1>. QED
  BY <1>1, <1>2, <1>3, <1>4, <1>5 DEF PlaceInv

-----------------------------------------------------------------------------
(* Mode sets                                                               *)

\* The driver's mode list is a sequence that is not empty.
LEMMA ModeListFacts ==
    /\ Len(ModeList) \in Nat /\ Len(ModeList) >= 1 /\ DOMAIN ModeList = 1..Len(ModeList)
    /\ \A i \in 1..Len(ModeList) : ModeList[i] \in Sizes
    /\ Sizes = {ModeList[i] : i \in 1..Len(ModeList)}
<1>1. ModeList \in Seq(Sizes) /\ ModeList # <<>>
  BY ModeListAssumption
<1>. QED
  BY <1>1 DEF Sizes, Range

\* A mode set is acquired.
LEMMA AcquireModeSetInv ==
    ASSUME Inv, NEW side \in {"src", "tgt"}, AcquireModeSet(side)
    PROVE  Inv'
<1>1. pc = <<"acquire", side>> /\ UNCHANGED <<ddi, vidpn, pivot, k, m, modes, offer, screen, leftOut, cleaned>>
  BY DEF AcquireModeSet, args
<1>2. /\ pc \in Places /\ k \in DOMAIN vidpn.path /\ status = "OK"
      /\ ddi = "enum" \/ (ddi = "commit" /\ side = "src")
  BY <1>1, SidePlaces DEF Inv, SetSteps
<1>3. Owned /\ Named /\ ~leftOut /\ ~cleaned
  BY <1>2 DEF Inv, ObjectInv
<1>4. SetOf[side] \in Slots /\ SetOf[side] = IF side = "src" THEN "srcSet" ELSE "tgtSet"
  BY DEF SetOf, Slots
<1>5. CASE Fail /\ UNCHANGED objects
  BY <1>1, <1>2, <1>5, FailPlain DEF Setting
<1>6. CASE Obtain(SetOf[side]) /\ pc' = <<"pinned", side>> /\ UNCHANGED <<status, failures>>
  <2>1. ~Have(SetOf[side])
    BY <1>1, <1>3, <1>4 DEF Named, InSet
  <2>2. /\ Owned' /\ Have(SetOf[side])'
        /\ \A s \in Slots : s # SetOf[side] => local'[s] = local[s]
        /\ UNCHANGED refused
    BY <1>3, <1>4, <1>6, <2>1, ObtainOwned
  <2>3. Named'
    BY <1>1, <1>2, <1>3, <1>4, <1>6, <2>2 DEF Named, Have, Slots, InSet, SetPlaces, SetSteps,
       CommitPlaces, MonitorPlaces, Idle
  <2>4. FillInv'
    BY <1>2, <1>6, PlaceFacts DEF FillInv, MonitorPlaces, Exits, Exit
  <2>5. OfferInv'
    <3>1. pc' \notin SetPlaces("src") \ {<<"acquire", "src">>, <<"pinned", "src">>}
      BY <1>6 DEF SetPlaces
    <3>. QED
      BY <1>1, <1>6, <3>1, OfferSame DEF Inv
  <2>6. ddi = "commit" => pc' \in CommitPlaces /\ CurrentInv'
    BY <1>1, <1>2, <1>6 DEF CurrentInv, CommitPlaces, Setting, Inv, screen, Exits, Exit
  <2>7. ddi = "enum" => pc' \in EnumPlaces
    BY <1>6 DEF EnumPlaces, SetPlaces, SetSteps
  <2>. QED
    BY <1>1, <1>2, <1>6, <2>2, <2>3, <2>4, <2>5, <2>6, <2>7, GoesOnInv
<1>. QED
  BY <1>5, <1>6 DEF AcquireModeSet, ObtainOrFail

\* The pinned mode of a set is acquired, if it has one.
LEMMA AcquirePinnedModeInfoInv ==
    ASSUME Inv, NEW side \in {"src", "tgt"}, AcquirePinnedModeInfo(side)
    PROVE  Inv'
<1>1. pc = <<"pinned", side>>
      /\ UNCHANGED <<ddi, vidpn, pivot, k, m, modes, offer, screen, leftOut, cleaned>>
  BY DEF AcquirePinnedModeInfo, args
<1>2. /\ pc \in Places /\ k \in DOMAIN vidpn.path /\ status = "OK"
      /\ ddi = "enum" \/ (ddi = "commit" /\ side = "src")
  BY <1>1, SidePlaces DEF Inv, SetSteps
<1>3. Owned /\ Named /\ ~leftOut /\ ~cleaned
  BY <1>2 DEF Inv, ObjectInv
<1>4. PinOf[side] \in Slots /\ PinOf[side] = IF side = "src" THEN "srcPin" ELSE "tgtPin"
  BY DEF PinOf, Slots
\* Where it goes on from here.
<1>5. /\ ddi = "commit" => AfterPinned(side) = <<"check", "src">>
      /\ ddi = "enum" /\ Pinned(side) /\ side = "tgt" => AfterPinned(side) = <<"unpin", "tgt">>
      /\ ddi = "enum" /\ Pinned(side) /\ side = "src" =>
            AfterPinned(side) \in {<<"tail", "src">>, <<"acquire", "tgt">>}
      /\ ddi = "enum" /\ ~Pinned(side) /\ side = "tgt" => AfterPinned(side) = <<"rebuild", "tgt">>
      /\ ddi = "enum" /\ ~Pinned(side) /\ side = "src" =>
            \/ AfterPinned(side) \in {<<"tail", "src">>, <<"acquire", "tgt">>}
            \/ AfterPinned(side) = <<"rebuild", "src">> /\ vidpn.mode = NULL
  <2>1. AfterSource \in {<<"tail", "src">>, <<"acquire", "tgt">>}
    BY DEF AfterSource
  <2>2. ddi = "commit" => AfterPinned(side) = <<"check", "src">>
    BY <1>2 DEF AfterPinned
  <2>3. ddi = "enum" /\ Pinned(side) => AfterPinned(side) =
           IF side = "tgt" THEN <<"unpin", "tgt">> ELSE AfterSource
    BY <1>2 DEF AfterPinned
  <2>4. ddi = "enum" /\ ~Pinned(side) /\ side = "tgt" => AfterPinned(side) = <<"rebuild", "tgt">>
    BY DEF AfterPinned
  <2>5. ddi = "enum" /\ ~Pinned(side) /\ side = "src" =>
           AfterPinned(side) \in {AfterSource, <<"rebuild", "src">>}
    BY DEF AfterPinned
  <2>6. side = "src" /\ ~Pinned(side) => vidpn.mode = NULL
    BY DEF Pinned
  <2>. QED
    BY <2>1, <2>2, <2>3, <2>4, <2>5, <2>6
<1>6. CASE Fail /\ UNCHANGED objects
  BY <1>1, <1>2, <1>6, FailPlain DEF Setting
\* What every successful case has in common.
<1>7. ASSUME pc' = AfterPinned(side), UNCHANGED status, Owned', Named' PROVE Inv'
  <2>1. FillInv'
    BY <1>2, <1>5, <1>7, PlaceFacts DEF FillInv, MonitorPlaces, Exits, Exit
  <2>2. OfferInv'
    <3>1. pc' \in SetPlaces("src") \ {<<"acquire", "src">>, <<"pinned", "src">>} => vidpn.mode = NULL
      BY <1>2, <1>5, <1>7 DEF SetPlaces, SetSteps
    <3>. QED
      BY <1>1, <1>7, <3>1, OfferSame DEF Inv
  <2>3. ddi = "commit" => pc' \in CommitPlaces /\ CurrentInv'
    BY <1>1, <1>2, <1>5, <1>7 DEF CurrentInv, CommitPlaces, Setting, Inv, screen, Exits, Exit
  <2>4. ddi = "enum" => pc' \in EnumPlaces
    BY <1>2, <1>5, <1>7 DEF EnumPlaces, SetPlaces, SetSteps
  <2>. QED
    BY <1>1, <1>2, <1>7, <2>1, <2>2, <2>3, <2>4, GoesOnInv
<1>8. ASSUME Pinned(side), Obtain(PinOf[side]), pc' = AfterPinned(side), UNCHANGED status PROVE Inv'
  <2>1. ~Have(PinOf[side]) /\ Have(SetOf[side])
    BY <1>1, <1>2, <1>3, <1>4 DEF Named, InSet, SetPlaces, SetSteps, SetOf
  <2>2. /\ Owned' /\ Have(PinOf[side])'
        /\ \A s \in Slots : s # PinOf[side] => local'[s] = local[s]
        /\ UNCHANGED refused
    BY <1>3, <1>4, <1>8, <2>1, ObtainOwned DEF SetOf
  <2>3. Named'
    BY <1>1, <1>2, <1>3, <1>4, <1>5, <1>8, <2>2 DEF Named, Have, Slots, InSet, SetPlaces, SetSteps,
       CommitPlaces, MonitorPlaces, Idle, Pinned
  <2>. QED
    BY <1>7, <1>8, <2>2, <2>3
<1>9. ASSUME ~Pinned(side), UNCHANGED objects, pc' = AfterPinned(side), UNCHANGED status PROVE Inv'
  <2>1. Owned' /\ UNCHANGED <<local, refused>>
    BY <1>3, <1>9 DEF objects, Owned, Have
  <2>2. Named'
    BY <1>1, <1>2, <1>3, <1>5, <1>9, <2>1 DEF Named, Have, InSet, SetPlaces, SetSteps,
       CommitPlaces, MonitorPlaces, Idle, Pinned
  <2>. QED
    BY <1>7, <1>9, <2>1, <2>2
<1>. QED
  BY <1>6, <1>8, <1>9 DEF AcquirePinnedModeInfo, ObtainOrFail

\* The acquired set is released, to make place.
LEMMA ReleaseOldModeSetInv ==
    ASSUME Inv, NEW side \in {"src", "tgt"}, ReleaseOldModeSet(side)
    PROVE  Inv'
<1>1. pc = <<"rebuild", side>>
      /\ UNCHANGED <<ddi, vidpn, pivot, k, m, modes, offer, screen, leftOut, cleaned>>
  BY DEF ReleaseOldModeSet, args
<1>2. pc \in Places /\ k \in DOMAIN vidpn.path /\ status = "OK" /\ ddi = "enum"
  BY <1>1, SidePlaces DEF Inv, SetSteps
<1>3. Owned /\ Named /\ ~leftOut /\ ~cleaned
  BY <1>2 DEF Inv, ObjectInv
<1>4. SetOf[side] \in Slots /\ SetOf[side] = IF side = "src" THEN "srcSet" ELSE "tgtSet"
  BY DEF SetOf, Slots
<1>5. Have(SetOf[side]) /\ (side = "src" => ~Have("srcPin")) /\ (side = "tgt" => ~Have("tgtPin"))
  BY <1>1, <1>3, <1>4 DEF Named, InSet, SetPlaces, SetSteps
<1>6. CASE Refuse(SetOf[side]) /\ Fail
  BY <1>1, <1>2, <1>4, <1>5, <1>6, FailRelease DEF Setting
<1>7. CASE GiveBack(SetOf[side]) /\ pc' = <<"new", side>> /\ UNCHANGED <<status, failures>>
  <2>1. /\ Owned' /\ ~Have(SetOf[side])'
        /\ \A s \in Slots : s # SetOf[side] => local'[s] = local[s]
        /\ UNCHANGED refused
    BY <1>3, <1>4, <1>5, <1>7, GiveBackOwned
  <2>2. Named'
    BY <1>1, <1>2, <1>3, <1>4, <1>7, <2>1 DEF Named, Have, Slots, InSet, SetPlaces, SetSteps,
       CommitPlaces, MonitorPlaces, Idle
  <2>3. FillInv'
    BY <1>2, <1>7, PlaceFacts DEF FillInv, MonitorPlaces, Exits, Exit
  <2>4. OfferInv'
    <3>1. pc' \in SetPlaces("src") => vidpn.mode = NULL
      BY <1>1, <1>7 DEF Inv, OfferInv, SetPlaces, SetSteps
    <3>. QED
      BY <1>1, <1>7, <3>1, OfferSame DEF Inv
  <2>5. pc' \in EnumPlaces
    BY <1>7 DEF EnumPlaces, SetPlaces, SetSteps
  <2>. QED
    BY <1>1, <1>2, <1>7, <2>1, <2>2, <2>3, <2>4, <2>5, GoesOnInv
<1>. QED
  BY <1>6, <1>7 DEF ReleaseOldModeSet, ReleaseOrFail

\* A new set begins empty, with the loop at the first mode.
LEMMA CreateNewModeSetInv ==
    ASSUME Inv, ModesOK, NEW side \in {"src", "tgt"}, CreateNewModeSet(side)
    PROVE  Inv'
<1>1. pc = <<"new", side>> /\ m' = 1 /\ modes' = [modes EXCEPT ![side] = {}]
      /\ UNCHANGED <<ddi, vidpn, pivot, k, offer, screen, leftOut, cleaned>>
  BY DEF CreateNewModeSet, args
<1>2. pc \in Places /\ k \in DOMAIN vidpn.path /\ status = "OK" /\ ddi = "enum"
  BY <1>1, SidePlaces DEF Inv, SetSteps
<1>3. Owned /\ Named /\ ~leftOut /\ ~cleaned
  BY <1>2 DEF Inv, ObjectInv
<1>4. SetOf[side] \in Slots /\ SetOf[side] = IF side = "src" THEN "srcSet" ELSE "tgtSet"
  BY DEF SetOf, Slots
<1>5. CASE Fail /\ UNCHANGED objects
  BY <1>1, <1>2, <1>5, FailPlain DEF Setting
<1>6. CASE Obtain(SetOf[side]) /\ pc' = <<"create", side>> /\ UNCHANGED <<status, failures>>
  <2>1. ~Have(SetOf[side])
    BY <1>1, <1>3, <1>4 DEF Named, InSet
  <2>2. /\ Owned' /\ Have(SetOf[side])'
        /\ \A s \in Slots : s # SetOf[side] => local'[s] = local[s]
        /\ UNCHANGED refused
    BY <1>3, <1>4, <1>6, <2>1, ObtainOwned
  <2>3. Named'
    BY <1>1, <1>2, <1>3, <1>4, <1>6, <2>2 DEF Named, Have, Slots, InSet, SetPlaces, SetSteps,
       CommitPlaces, MonitorPlaces, Idle
  <2>4. FillInv'
    <3>1. m' \in DOMAIN ModeList /\ {ModeList[j] : j \in 1..(m' - 1)} = {}
      BY <1>1, ModeListFacts
    <3>2. m' = 1 /\ modes'[side] = {}
      BY <1>1 DEF ModesOK
    <3>. QED
      BY <1>2, <1>6, <3>1, <3>2, PlaceFacts DEF FillInv, MonitorPlaces, Exits, Exit
  <2>5. OfferInv'
    <3>1. pc' \in SetPlaces("src") => vidpn.mode = NULL
      BY <1>1, <1>6 DEF Inv, OfferInv, SetPlaces, SetSteps
    <3>. QED
      BY <1>1, <1>6, <3>1, OfferSame DEF Inv
  <2>6. pc' \in EnumPlaces
    BY <1>6 DEF EnumPlaces, SetPlaces, SetSteps
  <2>. QED
    BY <1>1, <1>2, <1>6, <2>2, <2>3, <2>4, <2>5, <2>6, GoesOnInv
<1>. QED
  BY <1>5, <1>6 DEF CreateNewModeSet, ObtainOrFail

\* The filled set is assigned; that of the source becomes the offer.
LEMMA AssignModeSetInv ==
    ASSUME Inv, NEW side \in {"src", "tgt"}, AssignModeSet(side)
    PROVE  Inv'
<1>1. pc = <<"assign", side>>
      /\ UNCHANGED <<ddi, vidpn, pivot, k, m, modes, screen, leftOut, cleaned>>
  BY DEF AssignModeSet, args
<1>2. pc \in Places /\ k \in DOMAIN vidpn.path /\ status = "OK" /\ ddi = "enum"
  BY <1>1, SidePlaces DEF Inv, SetSteps
<1>3. Owned /\ Named /\ ~leftOut /\ ~cleaned
  BY <1>2 DEF Inv, ObjectInv
<1>4. SetOf[side] \in Slots /\ SetOf[side] = IF side = "src" THEN "srcSet" ELSE "tgtSet"
  BY DEF SetOf, Slots
<1>5. Have(SetOf[side]) /\ (side = "src" => ~Have("srcPin")) /\ (side = "tgt" => ~Have("tgtPin"))
  BY <1>1, <1>3, <1>4 DEF Named, InSet, SetPlaces, SetSteps
<1>6. CASE Refuse(SetOf[side]) /\ Fail
  <2>1. UNCHANGED offer
    BY <1>6 DEF AssignModeSet, Fail
  <2>. QED
    BY <1>1, <1>2, <1>4, <1>5, <1>6, <2>1, FailRelease DEF Setting
<1>7. CASE GiveBack(SetOf[side]) /\ pc' = After(side) /\ UNCHANGED <<status, failures>>
  <2>1. /\ Owned' /\ ~Have(SetOf[side])'
        /\ \A s \in Slots : s # SetOf[side] => local'[s] = local[s]
        /\ UNCHANGED refused
    BY <1>3, <1>4, <1>5, <1>7, GiveBackOwned
  <2>2. pc' \in {<<"tail", "src">>, <<"acquire", "tgt">>}
    BY <1>7 DEF After, AfterSource
  <2>3. Named'
    BY <1>1, <1>2, <1>3, <1>4, <1>7, <2>1, <2>2 DEF Named, Have, Slots, InSet, SetPlaces, SetSteps,
       CommitPlaces, MonitorPlaces, Idle
  <2>4. FillInv'
    BY <1>2, <2>2, PlaceFacts DEF FillInv, MonitorPlaces, Exits, Exit
  <2>5. OfferInv'
    <3>1. pc' \notin SetPlaces("src")
      BY <2>2 DEF SetPlaces, SetSteps
    <3>2. offer' = offer \/ (side = "src" /\ offer' = [offer EXCEPT !.mode = modes[side]])
      BY DEF AssignModeSet
    <3>3. side = "src" => vidpn.mode = NULL
      BY <1>1 DEF Inv, OfferInv, SetPlaces, SetSteps
    <3>4. offer'.rotation = offer.rotation /\ offer'.scaling = offer.scaling
          /\ (offer'.mode = offer.mode \/ side = "src")
          /\ offer' = [mode |-> offer'.mode, rotation |-> offer'.rotation, scaling |-> offer'.scaling]
      BY <3>2 DEF Inv, OfferInv
    <3>5. Acceptable' = Acceptable
      BY <3>4 DEF Acceptable
    <3>. QED
      BY <1>1, <1>2, <3>1, <3>3, <3>4, <3>5 DEF Inv, OfferInv
  <2>6. pc' \in EnumPlaces
    BY <2>2 DEF EnumPlaces, SetPlaces, SetSteps
  <2>. QED
    BY <1>1, <1>2, <1>7, <2>1, <2>3, <2>4, <2>5, <2>6, GoesOnInv
<1>. QED
  BY <1>6, <1>7 DEF AssignModeSet, ReleaseOrFail

\* A pinned target mode is let go, then its set.
LEMMA ReleasePinnedTargetInv ==
    ASSUME Inv, ReleasePinnedTarget
    PROVE  Inv'
<1>1. pc = <<"unpin", "tgt">>
      /\ UNCHANGED <<ddi, vidpn, pivot, k, m, modes, offer, screen, leftOut, cleaned>>
  BY DEF ReleasePinnedTarget, args
<1>2. pc \in Places /\ k \in DOMAIN vidpn.path /\ status = "OK" /\ ddi = "enum"
  <2>1. pc \in EnumPlaces /\ pc \notin CommitPlaces \cup MonitorPlaces
    BY <1>1 DEF EnumPlaces, CommitPlaces, MonitorPlaces
  <2>2. pc \in Places
    BY <2>1 DEF Places
  <2>. QED
    BY <2>1, <2>2, PlaceFacts DEF Inv, PlaceInv
<1>3. Owned /\ Named /\ ~leftOut /\ ~cleaned
  BY <1>2 DEF Inv, ObjectInv
<1>4. Have("tgtSet")
  BY <1>1, <1>3 DEF Named
<1>5. PICK slot \in {"tgtPin", "tgtSet"} :
         /\ ReleaseOrFail(slot, IF slot = "tgtPin" THEN pc ELSE <<"tail", "src">>)
         /\ Have(slot) /\ (slot = "tgtSet" => ~Have("tgtPin"))
  BY <1>4 DEF ReleasePinnedTarget, Have
<1>6. CASE Refuse(slot) /\ Fail
  BY <1>1, <1>2, <1>5, <1>6, FailRelease DEF Setting, Slots
<1>7. CASE GiveBack(slot) /\ pc' = (IF slot = "tgtPin" THEN pc ELSE <<"tail", "src">>)
           /\ UNCHANGED <<status, failures>>
  <2>1. /\ Owned' /\ ~Have(slot)'
        /\ \A s \in Slots : s # slot => local'[s] = local[s]
        /\ UNCHANGED refused
    BY <1>3, <1>5, <1>7, GiveBackOwned DEF Slots
  <2>2. \/ slot = "tgtPin" /\ pc' = <<"unpin", "tgt">>
        \/ slot = "tgtSet" /\ pc' = <<"tail", "src">> /\ ~Have("tgtPin")
    BY <1>1, <1>5, <1>7
  <2>3. Named'
    BY <1>1, <1>2, <1>3, <1>4, <1>7, <2>1, <2>2 DEF Named, Have, Slots, InSet, SetPlaces, SetSteps,
       CommitPlaces, MonitorPlaces, Idle
  <2>4. FillInv'
    BY <1>2, <2>2, PlaceFacts DEF FillInv, MonitorPlaces, Exits, Exit
  <2>5. OfferInv'
    <3>1. pc' \notin SetPlaces("src")
      BY <2>2 DEF SetPlaces, SetSteps
    <3>. QED
      BY <1>1, <1>7, <3>1, OfferSame DEF Inv
  <2>6. pc' \in EnumPlaces
    BY <2>2 DEF EnumPlaces
  <2>. QED
    BY <1>1, <1>2, <1>7, <2>1, <2>3, <2>4, <2>5, <2>6, GoesOnInv
<1>. QED
  BY <1>5, <1>6, <1>7 DEF ReleaseOrFail

-----------------------------------------------------------------------------
(* Modes                                                                   *)

\* Which call fills a set.
LEMMA FillPlaces ==
    ASSUME PlaceInv, NEW side \in {"src", "tgt", "mon"}, NEW a \in {"create", "add"},
           pc = <<a, side>>
    PROVE  /\ pc \in Places /\ ddi = IF side = "mon" THEN "monitor" ELSE "enum"
           /\ side # "mon" => k \in DOMAIN vidpn.path /\ status = "OK"
<1>1. CASE side = "mon"
  <2>1. pc \in MonitorPlaces /\ pc \notin EnumPlaces \cup CommitPlaces
    BY <1>1 DEF EnumPlaces, CommitPlaces, MonitorPlaces, SetPlaces
  <2>2. pc \in Places
    BY <2>1 DEF Places
  <2>. QED
    BY <1>1, <2>1, <2>2, PlaceFacts DEF PlaceInv
<1>2. CASE side # "mon"
  BY <1>2, SidePlaces DEF SetSteps
<1>. QED
  BY <1>1, <1>2

\* A mode info is created for the mode in hand.
LEMMA CreateNewModeInfoInv ==
    ASSUME Inv, NEW side \in {"src", "tgt", "mon"}, CreateNewModeInfo(side)
    PROVE  Inv'
<1>1. pc = <<"create", side>>
      /\ UNCHANGED <<ddi, vidpn, pivot, k, m, modes, offer, screen, leftOut, cleaned>>
  BY DEF CreateNewModeInfo, args
<1>2. /\ pc \in Places /\ ddi = IF side = "mon" THEN "monitor" ELSE "enum"
      /\ side # "mon" => k \in DOMAIN vidpn.path
  BY <1>1, FillPlaces DEF Inv
<1>3. Owned /\ Named /\ ~leftOut /\ ~cleaned
  BY <1>2 DEF Inv, ObjectInv
<1>4. CASE Fail /\ UNCHANGED objects
  BY <1>1, <1>2, <1>4, FailPlain DEF Setting
<1>5. CASE Obtain("info") /\ pc' = <<"add", side>> /\ status' = "OK" /\ UNCHANGED failures
  <2>1. Have("info") => local["info"] \in refused
    BY <1>1, <1>3 DEF Named
  <2>2. /\ Owned' /\ Have("info")'
        /\ \A s \in Slots : s # "info" => local'[s] = local[s]
        /\ UNCHANGED refused
    BY <1>3, <1>5, <2>1, ObtainOwned DEF Slots
  <2>3. Named'
    BY <1>1, <1>2, <1>3, <1>5, <2>2 DEF Named, Have, Slots, InSet, SetPlaces, SetSteps,
       CommitPlaces, MonitorPlaces, Idle
  <2>4. FillInv'
    BY <1>1, <1>2, <1>5, PlaceFacts DEF Inv, FillInv, MonitorPlaces, Exits, Exit, screen
  <2>5. OfferInv'
    <3>1. pc' \in SetPlaces("src") => vidpn.mode = NULL
      BY <1>1, <1>5 DEF Inv, OfferInv, SetPlaces, SetSteps
    <3>. QED
      BY <1>1, <1>5, <3>1, OfferSame DEF Inv
  <2>6. /\ side # "mon" => pc' \in EnumPlaces
        /\ side = "mon" => pc' \in MonitorPlaces
    BY <1>5 DEF EnumPlaces, MonitorPlaces, SetPlaces, SetSteps
  <2>. QED
    BY <1>1, <1>2, <1>5, <2>2, <2>3, <2>4, <2>5, <2>6, GoesOnInv
<1>. QED
  BY <1>4, <1>5 DEF CreateNewModeInfo

\* The indices up to n are those before n, and n.
LEMMA UpToNext ==
    \A l \in Nat : \A n \in 1..l : \A j : j \in 1..n <=> j \in 1..(n - 1) \/ j = n
OBVIOUS

\* A callback that refuses a mode, other than one in its set, is counted as a failure.
LEMMA RefusalCounted ==
    ASSUME failures \in Nat, NEW side, NEW why \in {"ALREADY", "FAIL"},
           NEW released \in {"OK", "FAIL"}, AddModeRefused(side, why, released)
    PROVE  failures' \in Nat /\ (failures' = 0 => failures = 0 /\ why # "FAIL")
<1>. DEFINE calls == {<<"add", why>>, <<"release", released>>}
            failed == {x \in calls : x[2] = "FAIL"}
<1>1. failures' = failures + Cardinality(failed)
  BY Zenon DEF AddModeRefused
<1>2. IsFiniteSet(failed)
  <2>1. IsFiniteSet(calls)
    <3>1. IsFiniteSet({<<"add", why>>})
      BY FS_Singleton, Zenon
    <3>2. IsFiniteSet({<<"add", why>>} \cup {<<"release", released>>})
      BY <3>1, FS_AddElement, Zenon
    <3>3. calls = {<<"add", why>>} \cup {<<"release", released>>}
      OBVIOUS
    <3>. QED
      BY <3>2, <3>3
  <2>. QED
    BY <2>1, FS_Subset
<1>3. Cardinality(failed) \in Nat /\ (Cardinality(failed) = 0 <=> failed = {})
  BY <1>2, FS_CardinalityType, FS_EmptySet
<1>4. why = "FAIL" => <<"add", why>> \in failed
  OBVIOUS
<1>. HIDE DEF failed
<1>. QED
  BY <1>1, <1>3, <1>4

\* A mode info has gone into its set, or been given up, and the loop goes round.
LEMMA NextModeInv ==
    ASSUME Inv, ModesOK, NEW side \in {"src", "tgt", "mon"}, pc = <<"add", side>>,
           pc' = NextMode(side), m' = m + 1,
           UNCHANGED <<ddi, vidpn, k, offer, screen, leftOut, cleaned>>,
           side # "mon" => status' = "OK",
           Owned', Have("info")' => local'["info"] \in refused',
           \A s \in Slots : s # "info" => local'[s] = local[s],
           ModesOK', \A t \in {"src", "tgt", "mon"} : t # side => modes'[t] = modes[t],
           failures' = 0 => failures = 0,
           \/ modes'[side] = modes[side] \cup {SizeToAdd(side)}
           \/ /\ side = "tgt" \/ (side = "mon" /\ m > 0)
              /\ modes'[side] = modes[side] /\ failures' # 0
    PROVE  Inv'
<1>1. /\ pc \in Places /\ ddi = IF side = "mon" THEN "monitor" ELSE "enum"
      /\ side # "mon" => k \in DOMAIN vidpn.path
  BY FillPlaces DEF Inv
<1>2. Owned /\ Named /\ ~leftOut /\ ~cleaned
  BY <1>1 DEF Inv, ObjectInv
<1>3. /\ side = "src" => m \in 1..Len(ModeList) /\ modes["src"] = {ModeList[j] : j \in 1..(m - 1)}
      /\ side = "mon" =>
            /\ m \in Nat /\ (m > 0 => current.size \in modes["mon"])
            /\ failures = 0 => \A j \in 1..(m - 1) : ModeList[j] \in modes["mon"]
      /\ side = "tgt" => m \in Nat \ {0} /\ modes["tgt"] \subseteq {ModeList[1]}
  BY ModeListFacts DEF Inv, FillInv, MonitorPlaces
<1>4. side = "mon" => /\ current.size \in modes'["mon"]
                      /\ failures' = 0 => \A j \in 1..m : ModeList[j] \in modes'["mon"]
  <2>1. side = "mon" => current.size \in modes'["mon"]
    BY <1>3 DEF SizeToAdd
  <2>2. ASSUME side = "mon", failures' = 0, NEW j \in 1..m PROVE ModeList[j] \in modes'["mon"]
    <3>1. modes'["mon"] = modes["mon"] \cup {SizeToAdd("mon")} /\ m \in Nat /\ m > 0
      BY <1>3, <2>2
    <3>2. SizeToAdd("mon") = ModeList[m]
      BY <3>1 DEF SizeToAdd
    <3>3. j = m \/ j \in 1..(m - 1)
      BY <3>1
    <3>. QED
      BY <1>3, <2>2, <3>1, <3>2, <3>3
  <2>. QED
    BY <2>1, <2>2
<1>4a. side = "tgt" => /\ modes'["tgt"] \subseteq {ModeList[1]}
                       /\ failures' = 0 => ModeList[1] \in modes'["tgt"]
  BY <1>3 DEF SizeToAdd
<1>5. side = "src" => modes'["src"] = {ModeList[j] : j \in 1..m}
  <2>. SUFFICES ASSUME side = "src" PROVE modes'["src"] = {ModeList[j] : j \in 1..m}
    OBVIOUS
  <2>1. modes'["src"] = {ModeList[j] : j \in 1..(m - 1)} \cup {ModeList[m]}
    BY <1>3 DEF SizeToAdd
  <2>2. \A j : j \in 1..m <=> j \in 1..(m - 1) \/ j = m
    BY <1>3, ModeListFacts, UpToNext, Zenon
  <2>. QED
    BY <2>1, <2>2
<1>6. ASSUME pc' = <<"create", side>>, side # "tgt" => m < Len(ModeList) PROVE Inv'
  <2>1. Named'
    BY <1>1, <1>2, <1>6 DEF Named, Have, Slots, InSet, SetPlaces, SetSteps,
       CommitPlaces, MonitorPlaces, Idle
  <2>2. FillInv'
    <3>1. CASE side = "src"
      <4>1. m' \in DOMAIN ModeList /\ m' - 1 = m
        <5>1. m \in 1..Len(ModeList) /\ m < Len(ModeList)
          BY <1>3, <1>6, <3>1
        <5>2. Len(ModeList) \in Nat /\ DOMAIN ModeList = 1..Len(ModeList) /\ m' = m + 1
          BY ModeListFacts
        <5>. QED
          BY <5>1, <5>2
      <4>2. modes'["src"] = {ModeList[j] : j \in 1..(m' - 1)}
        BY <1>5, <3>1, <4>1
      <4>3. pc' = <<"create", "src">> /\ pc' \notin MonitorPlaces \cup Exits
        BY <1>6, <3>1, PlaceFacts DEF MonitorPlaces, Exits, Exit
      <4>. QED
        BY <4>1, <4>2, <4>3 DEF FillInv
    <3>2. CASE side = "mon"
      BY <1>1, <1>3, <1>4, <1>6, <3>2, PlaceFacts DEF FillInv, MonitorPlaces, Exits, Exit, screen
    <3>3. CASE side = "tgt"
      <4>1. m' \in Nat \ {0}
        BY <1>3, <3>3
      <4>. QED
        BY <1>1, <1>4a, <1>6, <3>3, <4>1, PlaceFacts DEF FillInv, MonitorPlaces, Exits, Exit
    <3>. QED
      BY <3>1, <3>2, <3>3
  <2>3. OfferInv'
    <3>1. pc' \in SetPlaces("src") => vidpn.mode = NULL
      BY <1>6 DEF Inv, OfferInv, SetPlaces, SetSteps
    <3>2. ddi # "commit"
      BY <1>1
    <3>. QED
      BY <3>1, <3>2 DEF Inv, OfferInv, Acceptable
  <2>4. /\ side # "mon" => pc' \in EnumPlaces
        /\ side = "mon" => pc' \in MonitorPlaces
    BY <1>6 DEF EnumPlaces, MonitorPlaces, SetPlaces, SetSteps
  <2>. QED
    BY <1>1, <2>1, <2>2, <2>3, <2>4, GoesOnInv
<1>7. ASSUME pc' = <<"assign", side>>, side # "mon", side = "src" => m = Len(ModeList) PROVE Inv'
  <2>1. Named'
    BY <1>1, <1>2, <1>7 DEF Named, Have, Slots, InSet, SetPlaces, SetSteps,
       CommitPlaces, MonitorPlaces, Idle
  <2>2. FillInv'
    <3>1. side = "src" => modes'["src"] = Sizes
      BY <1>5, <1>7, ModeListFacts
    <3>2. side = "tgt" /\ failures' = 0 => modes'["tgt"] = {ModeList[1]}
      BY <1>4a
    <3>. QED
      BY <1>1, <1>7, <3>1, <3>2, PlaceFacts DEF FillInv, MonitorPlaces, Exits, Exit
  <2>3. OfferInv'
    <3>1. pc' \in SetPlaces("src") => vidpn.mode = NULL
      BY <1>7 DEF Inv, OfferInv, SetPlaces, SetSteps
    <3>2. ddi # "commit"
      BY <1>1, <1>7
    <3>. QED
      BY <3>1, <3>2 DEF Inv, OfferInv, Acceptable
  <2>4. pc' \in EnumPlaces
    BY <1>7 DEF EnumPlaces, SetPlaces, SetSteps
  <2>. QED
    BY <1>1, <1>7, <2>1, <2>2, <2>3, <2>4, GoesOnInv
<1>8. ASSUME pc' = Exit(1), side = "mon", ~(m < Len(ModeList)) PROVE Inv'
  <2>1. \A s \in Slots : s # "info" /\ Have(s)' => Have(s)
    BY DEF Have
  <2>2. failures' = 0 => Sizes \subseteq modes'["mon"]
    <3>1. 1..Len(ModeList) \subseteq 1..m
      BY <1>3, <1>8, ModeListFacts
    <3>. QED
      BY <1>4, <1>8, <3>1, ModeListFacts
  <2>3. MonitorFilled'
    BY <1>4, <1>8, <2>2 DEF MonitorFilled, screen
  <2>. QED
    BY <1>1, <1>2, <1>8, <2>1, <2>3, EndsInv
<1>. QED
  <2>1. CASE m < Len(ModeList)
    BY <1>6, <2>1 DEF NextMode
  <2>2. CASE ~(m < Len(ModeList))
    <3>1. side = "src" => m = Len(ModeList)
      BY <1>3, <2>2, ModeListFacts
    <3>2. pc' = IF side = "mon" THEN Exit(1) ELSE <<"assign", side>>
      BY <2>2 DEF NextMode, Filled
    <3>. QED
      BY <1>7, <1>8, <2>2, <3>1, <3>2
  <2>. QED
    BY <2>1, <2>2

\* The mode goes into its set.
LEMMA AddModeInv ==
    ASSUME Inv, ModesOK, NEW side \in {"src", "tgt", "mon"}, AddMode(side)
    PROVE  Inv'
<1>1. pc = <<"add", side>> /\ pc' = NextMode(side) /\ m' = m + 1
      /\ UNCHANGED <<ddi, vidpn, k, status, offer, screen, failures, leftOut, cleaned>>
      /\ modes' = [modes EXCEPT ![side] = @ \cup {SizeToAdd(side)}]
  BY DEF AddMode, args
<1>2. pc \in Places /\ (side # "mon" => status = "OK")
  BY <1>1, FillPlaces DEF Inv
<1>3. Owned /\ Have("info")
  BY <1>1, <1>2 DEF Inv, ObjectInv, Named
<1>4. /\ Owned' /\ ~Have("info")'
      /\ \A s \in Slots : s # "info" => local'[s] = local[s]
  BY <1>3, GiveBackOwned DEF AddMode, Slots
<1>5. /\ ModesOK' /\ \A t \in {"src", "tgt", "mon"} : t # side => modes'[t] = modes[t]
      /\ modes'[side] = modes[side] \cup {SizeToAdd(side)}
  BY <1>1 DEF ModesOK
<1>. QED
  BY <1>1, <1>2, <1>4, <1>5, NextModeInv

\* The mode does not go in: the source's loop ends unless the mode was there already, the
\* monitor's only if it was the current mode.
LEMMA AddModeRefusedInv ==
    ASSUME Inv, ModesOK, NEW side \in {"src", "tgt", "mon"}, NEW why \in {"ALREADY", "FAIL"},
           NEW released \in {"OK", "FAIL"}, AddModeRefused(side, why, released)
    PROVE  Inv'
<1>1. pc = <<"add", side>> /\ m' = m + 1
      /\ UNCHANGED <<ddi, vidpn, k, modes, offer, screen, leftOut, cleaned>>
      /\ (why = "ALREADY" <=> SizeToAdd(side) \in modes[side])
  BY DEF AddModeRefused, args
<1>2. /\ pc \in Places /\ (side # "mon" => status = "OK")
      /\ ddi = IF side = "mon" THEN "monitor" ELSE "enum"
  BY <1>1, FillPlaces DEF Inv
<1>3. Owned /\ Have("info") /\ ~leftOut
  BY <1>1, <1>2 DEF Inv, ObjectInv, Named
<1>4. /\ Owned' /\ (Have("info")' => local'["info"] \in refused')
      /\ \A s \in Slots : s # "info" => local'[s] = local[s]
  <2>1. CASE released = "OK"
    BY <1>3, <2>1, GiveBackOwned DEF AddModeRefused, Slots
  <2>2. CASE released # "OK"
    BY <1>3, <2>2, RefuseOwned DEF AddModeRefused, Slots
  <2>. QED
    BY <2>1, <2>2
<1>5. \A s \in Slots : s # "info" /\ Have(s)' => Have(s)
  BY <1>4 DEF Have
<1>6. m \in Nat \/ side = "tgt"
  BY <1>1, ModeListFacts, SMTT(60) DEF Inv, FillInv, MonitorPlaces
<1>6a. failures' \in Nat /\ (failures' = 0 => failures = 0 /\ why # "FAIL")
  BY RefusalCounted DEF ModesOK
<1>7. CASE side = "src" /\ why = "FAIL"
  <2>1. pc' = Exit(1) /\ status' = "FAIL"
    BY <1>7 DEF AddModeRefused
  <2>2. ~half' => current' = committed'
    BY <1>1, <1>2, <1>7, NotSetting DEF Setting
  <2>. QED
    BY <1>1, <1>2, <1>3, <1>4, <1>5, <2>1, <2>2, FailsInv
<1>8. CASE side = "mon" /\ m = 0
  <2>1. pc' = Exit(1) /\ status' = IF why = "ALREADY" THEN "OK" ELSE why
    BY <1>8 DEF AddModeRefused
  <2>2. status' = "OK" => MonitorFilled'
    BY <1>1, <1>8, <2>1 DEF SizeToAdd, MonitorFilled, screen
  <2>. QED
    BY <1>1, <1>2, <1>3, <1>4, <1>5, <1>8, <2>1, <2>2, EndsInv
<1>9. CASE ~(side = "src" /\ why = "FAIL") /\ ~(side = "mon" /\ m = 0)
  <2>1. pc' = NextMode(side)
    BY <1>9 DEF AddModeRefused
  <2>2. side # "mon" => status' = "OK"
    BY <1>9 DEF AddModeRefused
  <2>3. side = "mon" => m > 0
    BY <1>6, <1>9
  <2>4. \/ modes'[side] = modes[side] \cup {SizeToAdd(side)}
        \/ /\ side = "tgt" \/ (side = "mon" /\ m > 0)
           /\ modes'[side] = modes[side] /\ failures' # 0
    BY <1>1, <1>6a, <1>9, <2>3
  <2>. QED
    BY <1>1, <1>4, <1>6a, <2>1, <2>2, <2>4, NextModeInv DEF ModesOK
<1>. QED
  BY <1>7, <1>8, <1>9

-----------------------------------------------------------------------------
(* The rest of the enumeration                                             *)

\* The paths of a VidPn are a sequence.
LEMMA PathFacts ==
    ASSUME PlaceInv
    PROVE  /\ Len(vidpn.path) \in Nat /\ DOMAIN vidpn.path = 1..Len(vidpn.path)
           /\ \A i \in DOMAIN vidpn.path : vidpn.path[i] \in Path /\ vidpn.path[i] \in Range(vidpn.path)
           /\ vidpn.path # <<>> => Len(vidpn.path) \in DOMAIN vidpn.path
<1>1. vidpn.path \in Seq(Path)
  <2>1. CASE vidpn \in VidPns
    BY <2>1, VidPnsAssumption
  <2>2. CASE vidpn = NoCall.vidpn
    <3>1. vidpn.path = <<>>
      BY <2>2 DEF NoCall
    <3>2. \A S : <<>> \in Seq(S)
      OBVIOUS
    <3>. QED
      BY <3>1, <3>2
  <2>. QED
    BY <2>1, <2>2 DEF PlaceInv
<1>. QED
  BY <1>1 DEF Range

\* Where an enumeration alone can stand.
LEMMA TailPlaces ==
    ASSUME Inv, pc \in {<<"begin", "enum">>, <<"tail", "src">>, <<"next", "path">>,
                        <<"release", "temp">>}
    PROVE  /\ pc \in Places /\ pc \notin Setting /\ pc[1] # "add"
           /\ ddi = "enum" /\ k \in DOMAIN vidpn.path /\ status = "OK"
           /\ Owned /\ Named /\ ~leftOut /\ ~cleaned
<1>1. pc \in EnumPlaces /\ pc \notin CommitPlaces \cup MonitorPlaces /\ pc \notin Setting /\ pc[1] # "add"
  BY DEF EnumPlaces, CommitPlaces, MonitorPlaces, Setting
<1>2. pc \in Places
  BY <1>1 DEF Places
<1>. QED
  BY <1>1, <1>2, PlaceFacts DEF Inv, PlaceInv, ObjectInv

\* An enumeration goes on at a place where no mode set is being filled.
LEMMA TailGoesOn ==
    ASSUME Inv, pc \in Places, ddi = "enum", Owned', Named', k' \in DOMAIN vidpn.path, status' = "OK",
           pc' \in {<<"tail", "src">>, <<"next", "path">>, <<"release", "temp">>, <<"acquire", "src">>},
           UNCHANGED <<ddi, vidpn, offer, cleaned, leftOut, screen>>
    PROVE  Inv'
<1>1. FillInv'
  BY PlaceFacts DEF FillInv, MonitorPlaces, Exits, Exit
<1>2. OfferInv'
  <2>1. pc' \notin SetPlaces("src") \ {<<"acquire", "src">>, <<"pinned", "src">>}
    BY DEF SetPlaces, SetSteps
  <2>. QED
    BY <2>1, OfferSame DEF Inv
<1>3. pc' \in EnumPlaces
  BY DEF EnumPlaces, SetPlaces, SetSteps
<1>. QED
  BY <1>1, <1>2, <1>3, GoesOnInv

\* The enumeration takes its first path.
LEMMA AcquireFirstPathInfoInv ==
    ASSUME Inv, AcquireFirstPathInfo
    PROVE  Inv'
<1>1. pc = <<"begin", "enum">>
      /\ UNCHANGED <<ddi, vidpn, k, offer, screen, leftOut, cleaned>>
  BY DEF AcquireFirstPathInfo, args
<1>2. /\ pc \in Places /\ pc \notin Setting /\ pc[1] # "add"
      /\ ddi = "enum" /\ k \in DOMAIN vidpn.path /\ status = "OK"
      /\ Owned /\ Named /\ ~leftOut /\ ~cleaned
  BY <1>1, TailPlaces
<1>3. CASE Fail /\ UNCHANGED objects
  BY <1>1, <1>2, <1>3, FailPlain
<1>4. CASE Obtain("path") /\ pc' = <<"acquire", "src">> /\ UNCHANGED <<status, failures>>
  <2>1. ~Have("path")
    BY <1>1, <1>2 DEF Named
  <2>2. /\ Owned' /\ Have("path")'
        /\ \A s \in Slots : s # "path" => local'[s] = local[s]
        /\ UNCHANGED refused
    BY <1>2, <1>4, <2>1, ObtainOwned DEF Slots
  <2>3. ~Have("srcPin")
    BY <1>1, <1>2 DEF Named, Owned
  <2>4. Named'
    BY <1>1, <1>2, <1>4, <2>2, <2>3 DEF Named, Have, Slots, InSet, SetPlaces, SetSteps,
       CommitPlaces, MonitorPlaces, Idle
  <2>. QED
    BY <1>1, <1>2, <1>4, <2>2, <2>4, TailGoesOn
<1>. QED
  BY <1>3, <1>4 DEF AcquireFirstPathInfo, ObtainOrFail

\* The source's pinned mode goes first, then its set.
LEMMA ReleaseSourceInv ==
    ASSUME Inv, ReleaseSource
    PROVE  Inv'
<1>1. pc = <<"tail", "src">>
      /\ UNCHANGED <<ddi, vidpn, k, offer, screen, leftOut, cleaned>>
  BY DEF ReleaseSource, args
<1>2. /\ pc \in Places /\ pc \notin Setting /\ pc[1] # "add"
      /\ ddi = "enum" /\ k \in DOMAIN vidpn.path /\ status = "OK"
      /\ Owned /\ Named /\ ~leftOut /\ ~cleaned
  BY <1>1, TailPlaces
<1>3. PICK slot \in {"srcPin", "srcSet"} :
         ReleaseOrFail(slot, pc) /\ Have(slot) /\ (slot = "srcSet" => ~Have("srcPin"))
  BY DEF ReleaseSource, Have
<1>4. CASE Refuse(slot) /\ Fail
  BY <1>1, <1>2, <1>3, <1>4, FailRelease DEF Slots
<1>5. CASE GiveBack(slot) /\ pc' = pc /\ UNCHANGED <<status, failures>>
  <2>1. /\ Owned' /\ ~Have(slot)'
        /\ \A s \in Slots : s # slot => local'[s] = local[s]
        /\ UNCHANGED refused
    BY <1>2, <1>3, <1>5, GiveBackOwned DEF Slots
  <2>2. Named'
    BY <1>1, <1>2, <1>3, <1>5, <2>1 DEF Named, Have, Slots, InSet, SetPlaces, SetSteps,
       CommitPlaces, MonitorPlaces, Idle
  <2>. QED
    BY <1>1, <1>2, <1>5, <2>1, <2>2, TailGoesOn
<1>. QED
  BY <1>3, <1>4, <1>5 DEF ReleaseOrFail

\* The supports that the driver reports are acceptable ones.
LEMMA UpdatePathSupportInfoInv ==
    ASSUME Inv, UpdatePathSupportInfo
    PROVE  Inv'
<1>1. pc = <<"tail", "src">> /\ ~Have("srcPin") /\ ~Have("srcSet")
      /\ UNCHANGED <<ddi, vidpn, k, objects, screen, leftOut, cleaned>>
  BY DEF UpdatePathSupportInfo, args, Have
<1>2. /\ pc \in Places /\ pc \notin Setting /\ pc[1] # "add"
      /\ ddi = "enum" /\ k \in DOMAIN vidpn.path /\ status = "OK"
      /\ Owned /\ Named /\ ~leftOut /\ ~cleaned
  BY <1>1, TailPlaces
<1>3. CASE Fail /\ UNCHANGED offer
  BY <1>1, <1>2, <1>3, FailPlain
<1>4. ASSUME pc' = <<"next", "path">>, UNCHANGED <<status, failures>>,
             offer' = [offer EXCEPT
                !.scaling[ThisPath.target] = IF OffersScaling THEN SupportedScalings ELSE @,
                !.rotation[ThisPath.target] = IF OffersRotation THEN SupportedRotations ELSE @]
      PROVE  Inv'
  <2>1. Owned' /\ UNCHANGED <<local, refused>>
    BY <1>1, <1>2 DEF objects, Owned, Have
  <2>2. Named'
    BY <1>1, <1>2, <1>4, <2>1 DEF Named, Have, Slots, InSet, SetPlaces, SetSteps,
       CommitPlaces, MonitorPlaces, Idle
  <2>. DEFINE t == ThisPath.target
              S == IF OffersScaling THEN SupportedScalings ELSE offer.scaling[t]
              R == IF OffersRotation THEN SupportedRotations ELSE offer.rotation[t]
  <2>3. offer' = [mode |-> offer.mode, scaling |-> [offer.scaling EXCEPT ![t] = S],
                  rotation |-> [offer.rotation EXCEPT ![t] = R]]
    BY <1>4 DEF Inv, OfferInv
  <2>4. Acceptable => Acceptable'
    <3>1. /\ DOMAIN offer'.scaling = DOMAIN offer.scaling
          /\ DOMAIN offer'.rotation = DOMAIN offer.rotation
          /\ \A u \in DOMAIN offer.scaling :
                offer'.scaling[u] = IF u = t THEN S ELSE offer.scaling[u]
          /\ \A u \in DOMAIN offer.rotation :
                offer'.rotation[u] = IF u = t THEN R ELSE offer.rotation[u]
      BY <2>3
    <3>2. SupportedScalings \subseteq ValidScalings /\ SupportedRotations \subseteq ValidRotations
      BY DEF SupportedScalings, ValidScalings, SupportedRotations, ValidRotations
    <3>. QED
      BY <3>1, <3>2 DEF Acceptable
  <2>5. offer'.mode = offer.mode
        /\ offer' = [mode |-> offer'.mode, rotation |-> offer'.rotation, scaling |-> offer'.scaling]
    BY <2>3
  <2>6. FillInv'
    BY <1>2, <1>4, PlaceFacts DEF FillInv, MonitorPlaces, Exits, Exit
  <2>7. OfferInv'
    <3>1. pc' \notin SetPlaces("src")
      BY <1>4 DEF SetPlaces, SetSteps
    <3>. QED
      BY <1>1, <1>2, <2>4, <2>5, <3>1 DEF Inv, OfferInv
  <2>8. pc' \in EnumPlaces
    BY <1>4 DEF EnumPlaces
  <2>. QED
    BY <1>1, <1>2, <1>4, <2>1, <2>2, <2>6, <2>7, <2>8, GoesOnInv
<1>. QED
  BY <1>3, <1>4 DEF UpdatePathSupportInfo

\* The next path is taken before the last one is given back; a failure may leave both
\* local variables with the same path, and only then is leftOut set.
LEMMA AcquireNextPathInfoInv ==
    ASSUME Inv, AcquireNextPathInfo
    PROVE  Inv'
<1>1. pc = <<"next", "path">>
      /\ UNCHANGED <<ddi, vidpn, k, offer, refused, stale, screen, cleaned>>
  BY DEF AcquireNextPathInfo, args
<1>2. /\ pc \in Places /\ pc \notin Setting /\ pc[1] # "add"
      /\ ddi = "enum" /\ k \in DOMAIN vidpn.path /\ status = "OK"
      /\ Owned /\ Named /\ ~leftOut /\ ~cleaned
  BY <1>1, TailPlaces
<1>3. /\ Have("path") /\ ~Have("temp") /\ ~Have("srcSet") /\ ~Have("srcPin")
      /\ ~Have("tgtSet") /\ ~Have("tgtPin") /\ (Have("info") => local["info"] \in refused)
  BY <1>1, <1>2 DEF Named, Owned, InSet
<1>4. /\ made \in Nat /\ live \subseteq 1..made /\ local \in [Slots -> 1..made \cup {NULL}]
      /\ local["path"] \in live /\ local["path"] # NULL
  BY <1>2, <1>3 DEF Owned, Have, Slots
\* The path in hand has become the last one, and the next is v.
<1>5. ASSUME NEW v, local' = [local EXCEPT !["temp"] = local["path"], !["path"] = v]
      PROVE  /\ local'["temp"] = local["path"] /\ local'["path"] = v
             /\ \A s \in Slots : s \notin {"temp", "path"} => local'[s] = local[s]
             /\ \A S : v \in S /\ local \in [Slots -> S] => local' \in [Slots -> S]
  BY <1>4, <1>5 DEF Slots
<1>6. ASSUME k < Len(vidpn.path),
             local' = [local EXCEPT !["temp"] = local["path"], !["path"] = made + 1],
             live' = live \cup {made + 1}, made' = made + 1,
             pc' = <<"release", "temp">>, UNCHANGED <<status, leftOut>>
      PROVE  Inv'
  <2>1. /\ made' \in Nat /\ made' # NULL /\ made' \notin live /\ made' \in 1..made'
        /\ \A o \in 1..made : o \in 1..made'
    BY <1>4, <1>6, NullAssumption
  <2>2. /\ local'["temp"] = local["path"] /\ local'["path"] = made'
        /\ \A s \in Slots : s \notin {"temp", "path"} => local'[s] = local[s]
    BY <1>5, <1>6
  <2>3. local' \in [Slots -> 1..made' \cup {NULL}]
    <3>1. local \in [Slots -> 1..made' \cup {NULL}]
      BY <1>4, <2>1
    <3>. QED
      BY <1>5, <1>6, <2>1, <3>1
  <2>4. Owned'
    <3>1. live' \subseteq 1..made' /\ ~stale'
      BY <1>1, <1>2, <1>4, <1>6, <2>1 DEF Owned
    <3>2. \A s \in Slots : Have(s)' => local'[s] \in live'
      BY <1>2, <1>4, <1>6, <2>2 DEF Owned, Have
    <3>3. \A s, t \in Slots : Have(s)' /\ local'[s] = local'[t] => s = t
      <4>. SUFFICES ASSUME NEW s \in Slots, NEW t \in Slots, Have(s)', local'[s] = local'[t]
                    PROVE  s = t
        OBVIOUS
      <4>1. \A r \in Slots : Have(r) => local[r] # made'
        BY <1>2, <2>1 DEF Owned
      <4>2. \A r \in Slots \ {"temp", "path"} : Have(r) => local[r] # local["path"]
        BY <1>2, <1>4 DEF Owned, Have, Slots
      <4>3. local["path"] # made'
        BY <1>4, <2>1
      <4>4. s \in {"temp", "path"} \/ t \in {"temp", "path"} => s = t
        BY <1>4, <2>1, <2>2, <4>1, <4>2, <4>3 DEF Have
      <4>. QED
        BY <1>2, <2>2, <4>4 DEF Owned, Have
    <3>4. \A o \in live' : o \in refused' \/ \E s \in Slots : local'[s] = o
      <4>. SUFFICES ASSUME NEW o \in live, o \notin refused PROVE \E s \in Slots : local'[s] = o
        BY <1>1, <1>6, <2>2 DEF Slots
      <4>1. PICK s \in Slots : local[s] = o
        BY <1>2 DEF Owned
      <4>2. s # "temp"
        BY <1>3, <1>4, <4>1, NullAssumption DEF Have
      <4>. QED
        BY <2>2, <4>1, <4>2 DEF Slots
    <3>5. ~Have("srcPin")' /\ ~Have("tgtPin")'
      BY <1>3, <2>2 DEF Have, Slots
    <3>. QED
      BY <2>1, <2>3, <3>1, <3>2, <3>3, <3>4, <3>5 DEF Owned, Have
  <2>5. Named'
    BY <1>1, <1>2, <1>3, <1>4, <1>6, <2>1, <2>2 DEF Named, Have, Slots, InSet, SetPlaces, SetSteps,
       CommitPlaces, MonitorPlaces, Idle
  <2>. QED
    BY <1>1, <1>2, <1>6, <2>4, <2>5, TailGoesOn
\* Nothing follows, or nothing is given.
<1>7. ASSUME local' = [local EXCEPT !["temp"] = local["path"], !["path"] = NULL],
             UNCHANGED <<live, made>>
      PROVE  /\ Owned' /\ Have("temp")' /\ ~Have("path")'
             /\ \A s \in Slots : s \notin {"temp", "path"} => local'[s] = local[s]
  <2>1. /\ local'["temp"] = local["path"] /\ local'["path"] = NULL
        /\ \A s \in Slots : s \notin {"temp", "path"} => local'[s] = local[s]
        /\ local' \in [Slots -> 1..made' \cup {NULL}]
    BY <1>4, <1>5, <1>7
  <2>2. \A s, t \in Slots : Have(s)' /\ local'[s] = local'[t] => s = t
    BY <1>2, <1>4, <2>1 DEF Owned, Have, Slots
  <2>3. \A o \in live' : o \in refused' \/ \E s \in Slots : local'[s] = o
    <3>. SUFFICES ASSUME NEW o \in live, o \notin refused PROVE \E s \in Slots : local'[s] = o
      BY <1>1, <1>7
    <3>1. PICK s \in Slots : local[s] = o
      BY <1>2 DEF Owned
    <3>2. s # "temp"
      BY <1>3, <1>4, <3>1, NullAssumption DEF Have
    <3>. QED
      BY <2>1, <3>1, <3>2 DEF Slots
  <2>. QED
    BY <1>1, <1>2, <1>3, <1>4, <1>7, <2>1, <2>2, <2>3 DEF Owned, Have, Slots
<1>8. ASSUME k = Len(vidpn.path),
             local' = [local EXCEPT !["temp"] = local["path"], !["path"] = NULL],
             pc' = <<"release", "temp">>, UNCHANGED <<live, made, status, leftOut>>
      PROVE  Inv'
  <2>1. Named'
    BY <1>1, <1>2, <1>3, <1>7, <1>8 DEF Named, Have, Slots, InSet, SetPlaces, SetSteps,
       CommitPlaces, MonitorPlaces, Idle
  <2>. QED
    BY <1>1, <1>2, <1>7, <1>8, <2>1, TailGoesOn
<1>9. ASSUME Fail, leftOut' \in BOOLEAN, UNCHANGED <<live, made>>,
             local' = [local EXCEPT !["temp"] = local["path"],
                                    !["path"] = IF leftOut' THEN @ ELSE NULL]
      PROVE  Inv'
  <2>1. pc' = Exit(1) /\ status' = "FAIL" /\ pc' \in Exits /\ pc'[2] = 1
    BY <1>9, PlaceFacts DEF Fail, Exit
  <2>2. ~half' => current' = committed'
    BY <1>1, <1>2, NotSetting
  <2>3. CASE ~leftOut'
    <3>1. /\ Owned' /\ Have("temp")' /\ ~Have("path")'
          /\ \A s \in Slots : s \notin {"temp", "path"} => local'[s] = local[s]
      BY <1>7, <1>9, <2>3
    <3>2. PlaceInv' /\ ObjectInv'
      <4>1. \A i \in Left' : ExitOrder[ddi][i] \in Slots
        BY <1>1, <1>2, ExitOrderFacts DEF Left, Slots
      <4>2. \A o \in live' : o \in refused' \/ \E i \in Left' : local'[ExitOrder[ddi][i]] = o
        <5>. SUFFICES ASSUME NEW o \in live', o \notin refused'
                      PROVE  \E i \in Left' : local'[ExitOrder[ddi][i]] = o
          OBVIOUS
        <5>1. PICK s \in Slots : local'[s] = o
          BY <3>1 DEF Owned
        <5>2. o # NULL
          BY <3>1, NullAssumption DEF Owned
        <5>3. s = "temp"
          BY <1>1, <1>3, <3>1, <5>1, <5>2 DEF Have, Slots
        <5>4. 4 \in Left' /\ ExitOrder[ddi][4] = "temp"
          BY <1>1, <1>2, <2>1, ExitOrderFacts DEF Left
        <5>. QED
          BY <5>1, <5>3, <5>4
      <4>3. ExitInv'
        BY <1>1, <2>1, <3>1, <4>1, <4>2 DEF ExitInv, Owned, Have
      <4>4. PlaceInv'
        BY <1>1, <1>2, <2>1, PlaceFacts DEF Inv, PlaceInv, Places
      <4>. QED
        BY <2>1, <4>3, <4>4, PlaceFacts DEF ObjectInv
    <3>. QED
      BY <1>1, <1>2, <2>1, <2>2, <3>2, FailedInv
  \* The result still names the path: it will be released twice.
  <2>4. CASE leftOut'
    <3>1. /\ local'["temp"] = local["path"] /\ local'["path"] = local["path"]
          /\ \A s \in Slots : s \notin {"temp", "path"} => local'[s] = local[s]
          /\ local' \in [Slots -> 1..made' \cup {NULL}]
      <4>1. local' = [local EXCEPT !["temp"] = local["path"], !["path"] = local["path"]]
        BY <1>9, <2>4
      <4>. QED
        BY <1>4, <1>5, <1>9, <4>1 DEF Slots
    <3>2. \A o \in live' : o \in refused' \/ \E i \in Left' : local'[ExitOrder[ddi][i]] = o
      <4>. SUFFICES ASSUME NEW o \in live, o \notin refused
                    PROVE  \E i \in Left' : local'[ExitOrder[ddi][i]] = o
        BY <1>1, <1>9
      <4>1. PICK s \in Slots : local[s] = o
        BY <1>2 DEF Owned
      <4>2. s = "path"
        BY <1>3, <1>4, <4>1, NullAssumption DEF Have, Slots
      <4>3. 3 \in Left' /\ ExitOrder[ddi][3] = "path"
        BY <1>1, <1>2, <2>1, ExitOrderFacts DEF Left
      <4>. QED
        BY <3>1, <4>1, <4>2, <4>3
    <3>3. ExitInv'
      <4>1. leftOut' = TRUE
        BY <1>9, <2>4
      <4>2. made' \in Nat /\ live' \subseteq 1..made'
        BY <1>4, <1>9
      <4>3. status' # "OK"
        BY <2>1
      <4>. QED
        BY <1>1, <3>1, <3>2, <4>1, <4>2, <4>3 DEF ExitInv
    <3>4. PlaceInv'
      BY <1>1, <1>2, <2>1, PlaceFacts DEF Inv, PlaceInv, Places
    <3>. QED
      BY <1>1, <1>2, <2>1, <2>2, <3>3, <3>4, PlaceFacts, FailedInv DEF ObjectInv
  <2>. QED
    BY <1>9, <2>3, <2>4
<1>. QED
  BY <1>6, <1>8, <1>9 DEF AcquireNextPathInfo

\* The last path goes, and after the last of all nothing is held.
LEMMA ReleaseLastPathInv ==
    ASSUME Inv, ReleaseLastPath
    PROVE  Inv'
<1>1. pc = <<"release", "temp">> /\ k' = k + 1
      /\ UNCHANGED <<ddi, vidpn, offer, modes, screen, leftOut, cleaned>>
  BY DEF ReleaseLastPath, args
<1>2. /\ pc \in Places /\ pc \notin Setting /\ pc[1] # "add"
      /\ ddi = "enum" /\ k \in DOMAIN vidpn.path /\ status = "OK"
      /\ Owned /\ Named /\ ~leftOut /\ ~cleaned
  BY <1>1, TailPlaces
<1>3. /\ Have("temp") /\ ~Have("srcSet") /\ ~Have("srcPin") /\ ~Have("tgtSet") /\ ~Have("tgtPin")
      /\ (Have("path") <=> k < Len(vidpn.path)) /\ (Have("info") => local["info"] \in refused)
  BY <1>1, <1>2 DEF Named, Owned, InSet
<1>4. CASE Refuse("temp") /\ Fail
  BY <1>1, <1>2, <1>3, <1>4, FailRelease DEF Slots
<1>5. ASSUME GiveBack("temp"), UNCHANGED <<status, failures>>,
             pc' = IF k < Len(vidpn.path) THEN <<"acquire", "src">> ELSE Exit(1)
      PROVE  Inv'
  <2>1. /\ Owned' /\ ~Have("temp")'
        /\ \A s \in Slots : s # "temp" => local'[s] = local[s]
        /\ UNCHANGED refused
    BY <1>2, <1>3, <1>5, GiveBackOwned DEF Slots
  <2>2. CASE k < Len(vidpn.path)
    <3>1. k' \in DOMAIN vidpn.path
      BY <1>1, <1>2, <2>2, PathFacts DEF Inv
    <3>2. Named'
      BY <1>1, <1>2, <1>3, <1>5, <2>1, <2>2 DEF Named, Have, Slots, InSet, SetPlaces, SetSteps,
         CommitPlaces, MonitorPlaces, Idle
    <3>. QED
      BY <1>1, <1>2, <1>5, <2>1, <2>2, <3>1, <3>2, TailGoesOn
  <2>3. CASE ~(k < Len(vidpn.path))
    <3>1. \A s \in Slots : s # "info" => ~Have(s)'
      BY <1>3, <2>1, <2>3 DEF Have, Slots
    <3>2. Have("info")' => local'["info"] \in refused'
      BY <1>3, <2>1 DEF Have, Slots
    <3>. QED
      BY <1>1, <1>2, <1>5, <2>1, <2>3, <3>1, <3>2, EndsInv
  <2>. QED
    BY <2>2, <2>3
<1>. QED
  BY <1>4, <1>5 DEF ReleaseLastPath, ReleaseOrFail

-----------------------------------------------------------------------------
(* The rest of the commit                                                  *)

\* Where a commit alone can stand.
LEMMA CommitStands ==
    ASSUME Inv, pc \in {<<"check", "src">>, <<"acquire", "path">>, <<"set", "path">>,
                        <<"done", "path">>}
    PROVE  /\ pc \in Places /\ pc \in CommitPlaces /\ ddi = "commit"
           /\ k \in DOMAIN vidpn.path /\ status = "OK"
           /\ Owned /\ Named /\ ~leftOut /\ ~cleaned
           /\ Have("info") => local["info"] \in refused
<1>1. pc \in CommitPlaces /\ pc \notin EnumPlaces \cup MonitorPlaces /\ pc[1] # "add"
  BY DEF EnumPlaces, CommitPlaces, MonitorPlaces, SetPlaces, SetSteps
<1>2. pc \in Places
  BY <1>1 DEF Places
<1>. QED
  BY <1>1, <1>2, PlaceFacts DEF Inv, PlaceInv, ObjectInv, Named

\* A commit goes on with the paths.
LEMMA CommitGoesOn ==
    ASSUME Inv, pc \in Places, ddi = "commit", Owned', Named', k' \in DOMAIN vidpn.path,
           status' = "OK", pc' \in Setting, CurrentInv',
           UNCHANGED <<ddi, vidpn, offer, cleaned, leftOut>>
    PROVE  Inv'
<1>1. FillInv'
  BY PlaceFacts DEF FillInv, MonitorPlaces, Setting, Exits, Exit
<1>2. OfferInv'
  <2>1. pc' \notin SetPlaces("src")
    BY DEF SetPlaces, SetSteps, Setting
  <2>. QED
    BY <2>1, OfferSame DEF Inv
<1>3. pc' \in CommitPlaces
  BY DEF CommitPlaces, Setting
<1>. QED
  BY <1>1, <1>2, <1>3, GoesOnInv

\* A commit comes to its end with nothing having failed.
LEMMA CommitEnds ==
    ASSUME Inv, pc \in Places, ddi = "commit", pc' = Exit(1),
           UNCHANGED <<ddi, vidpn, offer, cleaned, status>>, status = "OK",
           Owned', ~leftOut', Have("info")' => local'["info"] \in refused',
           \A s \in Slots : s # "info" /\ Have(s)' => Have(s), CurrentInv'
    PROVE  Inv'
<1>1. PlaceInv' /\ ObjectInv'
  BY EndsObject DEF Inv
<1>2. pc' \in Exits
  BY PlaceFacts
<1>3. FillInv'
  BY <1>2, PlaceFacts DEF FillInv, Places, EnumPlaces, SetPlaces, SetSteps, MonitorPlaces
<1>4. OfferInv'
  <2>1. pc' \notin SetPlaces("src")
    BY <1>2, PlaceFacts DEF Places, EnumPlaces
  <2>. QED
    BY <2>1, OfferSame DEF Inv
<1>. QED
  BY <1>1, <1>3, <1>4 DEF Inv

\* The commit looks at the source mode.
LEMMA CheckSourceModeInv ==
    ASSUME Inv, CheckSourceMode
    PROVE  Inv'
<1>1. pc = <<"check", "src">>
      /\ UNCHANGED <<ddi, vidpn, k, m, objects, modes, offer, screen, leftOut, cleaned>>
  BY DEF CheckSourceMode, args
<1>2. /\ pc \in Places /\ pc \in CommitPlaces /\ ddi = "commit"
      /\ k \in DOMAIN vidpn.path /\ status = "OK"
      /\ Owned /\ Named /\ ~leftOut /\ ~cleaned
      /\ Have("info") => local["info"] \in refused
  BY <1>1, CommitStands
<1>3. /\ Owned' /\ UNCHANGED <<local, refused>>
      /\ (Have("info")' => local'["info"] \in refused')
      /\ \A s \in Slots : s # "info" /\ Have(s)' => Have(s)
  BY <1>1, <1>2 DEF objects, Owned, Have
<1>4. (~half => current = committed) /\ (~half' => current' = committed') /\ k = 1
  BY <1>1, <1>2 DEF Inv, CurrentInv, Setting, CommitPlaces, screen
<1>5. CASE Fail
  BY <1>1, <1>2, <1>5, FailPlain DEF Setting
<1>6. CASE vidpn.mode # NULL /\ ~IsVidPnSourceModeFieldsValid(vidpn.mode)
           /\ pc' = Exit(1) /\ status' = "INVALID"
  <2>1. ~Chosen
    BY <1>6 DEF Chosen, IsVidPnSourceModeFieldsValid
  <2>. QED
    BY <1>1, <1>2, <1>3, <1>4, <1>6, <2>1, FailsInv
<1>7. CASE vidpn.mode = NULL /\ pc' = Exit(1) /\ UNCHANGED <<status, failures>>
  <2>1. CurrentInv'
    <3>1. ~WillSet'
      BY <1>1, <1>7 DEF WillSet
    <3>2. pc' \in Exits /\ pc' \notin CommitPlaces
      BY <1>7, PlaceFacts DEF Places
    <3>. QED
      BY <1>1, <1>2, <1>4, <3>1, <3>2 DEF CurrentInv, CommitPlaces
  <2>. QED
    BY <1>1, <1>2, <1>3, <1>7, <2>1, CommitEnds
<1>8. CASE vidpn.mode # NULL /\ pc' = <<"acquire", "path">> /\ UNCHANGED <<status, failures>>
  <2>1. Named'
    BY <1>1, <1>2, <1>3, <1>8 DEF Named, Have, Slots, InSet, SetPlaces, SetSteps,
       CommitPlaces, MonitorPlaces, Idle
  <2>2. CurrentInv'
    BY <1>1, <1>2, <1>4, <1>8, PlaceFacts DEF CurrentInv, CommitPlaces, Setting, Exits, Exit
  <2>. QED
    BY <1>1, <1>2, <1>3, <1>8, <2>1, <2>2, CommitGoesOn DEF Setting
<1>. QED
  BY <1>5, <1>6, <1>7, <1>8 DEF CheckSourceMode

\* The commit takes a path; a failure after the first leaves the modes half set.
LEMMA AcquirePathInfoInv ==
    ASSUME Inv, AcquirePathInfo
    PROVE  Inv'
<1>1. pc = <<"acquire", "path">> /\ half' = (half \/ (status' = "FAIL" /\ k > 1))
      /\ UNCHANGED <<ddi, vidpn, k, m, modes, offer, current, committed, leftOut, cleaned>>
  BY DEF AcquirePathInfo, args
<1>2. /\ pc \in Places /\ pc \in CommitPlaces /\ ddi = "commit"
      /\ k \in DOMAIN vidpn.path /\ status = "OK"
      /\ Owned /\ Named /\ ~leftOut /\ ~cleaned
      /\ Have("info") => local["info"] \in refused
  BY <1>1, CommitStands
<1>3. k \in Nat /\ k >= 1 /\ (~(k > 1) => k = 1)
  BY <1>2, PathFacts DEF Inv
<1>4. /\ k = 1 /\ ~half => current = committed
      /\ k > 1 => current = SetTo(k - 1)
  BY <1>1, <1>2 DEF Inv, CurrentInv, CommitPlaces
<1>5. CASE Fail /\ UNCHANGED objects
  <2>1. /\ Owned' /\ UNCHANGED <<local, refused>>
        /\ (Have("info")' => local'["info"] \in refused')
        /\ \A s \in Slots : s # "info" /\ Have(s)' => Have(s)
    BY <1>2, <1>5 DEF objects, Owned, Have
  <2>2. ~half' => current' = committed'
    BY <1>1, <1>3, <1>4, <1>5 DEF Fail
  <2>. QED
    BY <1>1, <1>2, <1>5, <2>1, <2>2, FailsInv DEF Fail
<1>6. CASE Obtain("path") /\ pc' = <<"set", "path">> /\ UNCHANGED <<status, failures>>
  <2>1. ~Have("path")
    BY <1>1, <1>2 DEF Named
  <2>2. /\ Owned' /\ Have("path")'
        /\ \A s \in Slots : s # "path" => local'[s] = local[s]
        /\ UNCHANGED refused
    BY <1>2, <1>6, <2>1, ObtainOwned DEF Slots
  <2>3. Named'
    BY <1>1, <1>2, <1>6, <2>2 DEF Named, Have, Slots, InSet, SetPlaces, SetSteps,
       CommitPlaces, MonitorPlaces, Idle
  <2>4. CurrentInv'
    <3>1. SetTo(k - 1)' = SetTo(k - 1) /\ (half' <=> half)
      BY <1>1, <1>2, <1>6 DEF SetTo
    <3>. QED
      BY <1>1, <1>2, <1>4, <1>6, <3>1, PlaceFacts DEF CurrentInv, CommitPlaces, Setting, Exits, Exit
  <2>. QED
    BY <1>1, <1>2, <1>6, <2>2, <2>3, <2>4, CommitGoesOn DEF Setting
<1>. QED
  BY <1>5, <1>6 DEF AcquirePathInfo, ObtainOrFail

\* A path that was offered is valid.
LEMMA ChosenIsValid ==
    ASSUME Inv, Chosen, k \in DOMAIN vidpn.path
    PROVE  IsVidPnPathFieldsValid(ThisPath)
<1>1. Acceptable
  BY DEF Inv, OfferInv, Chosen
<1>2. ThisPath \in Range(vidpn.path)
  BY PathFacts DEF Inv, ThisPath
<1>. DEFINE t == ThisPath.target
<1>3. /\ t \in DOMAIN offer.rotation /\ ThisPath.plain
      /\ ThisPath.rotation \in offer.rotation[t] \ {"unpinned"}
      /\ ThisPath.scaling \in offer.scaling[t] \ {"unpinned"}
  BY <1>2 DEF Chosen
<1>4. /\ t < MaxChildren
      /\ offer.rotation[t] \subseteq ValidRotations \cup {"unpinned"}
      /\ offer.scaling[t] \subseteq ValidScalings \cup {"unpinned"}
  BY <1>1, <1>3 DEF Acceptable, Chosen
<1>. QED
  BY <1>3, <1>4 DEF IsVidPnPathFieldsValid, ValidRotations, ValidScalings

\* The path is set, or refused as invalid, which an offered one never is.
LEMMA SetSourceModeAndPathInv ==
    ASSUME Inv, SetSourceModeAndPath
    PROVE  Inv'
<1>1. pc = <<"set", "path">>
      /\ UNCHANGED <<ddi, vidpn, k, m, objects, modes, offer, committed, leftOut, cleaned>>
  BY DEF SetSourceModeAndPath, args
<1>2. /\ pc \in Places /\ pc \in CommitPlaces /\ ddi = "commit"
      /\ k \in DOMAIN vidpn.path /\ status = "OK"
      /\ Owned /\ Named /\ ~leftOut /\ ~cleaned
      /\ Have("info") => local["info"] \in refused
  BY <1>1, CommitStands
<1>3. /\ Owned' /\ UNCHANGED <<local, refused>>
      /\ (Have("info")' => local'["info"] \in refused')
      /\ \A s \in Slots : s # "info" /\ Have(s)' => Have(s)
  BY <1>1, <1>2 DEF objects, Owned, Have
<1>4. k \in Nat /\ k >= 1 /\ (~(k > 1) => k = 1)
  BY <1>2, PathFacts DEF Inv
<1>5. k = 1 /\ ~half => current = committed
  BY <1>1, <1>2 DEF Inv, CurrentInv, CommitPlaces
<1>6. CASE half' = TRUE /\ Fail
  BY <1>1, <1>2, <1>3, <1>6, FailsInv DEF Fail
<1>7. CASE ~IsVidPnPathFieldsValid(ThisPath) /\ pc' = Exit(1) /\ status' = "INVALID"
           /\ half' = (half \/ k > 1) /\ UNCHANGED <<current, committed, failures>>
  <2>1. ~Chosen
    BY <1>2, <1>7, ChosenIsValid
  <2>2. ~half' => current' = committed'
    BY <1>4, <1>5, <1>7
  <2>. QED
    BY <1>1, <1>2, <1>3, <1>7, <2>1, <2>2, FailsInv
<1>8. CASE /\ current' = [size |-> vidpn.mode.size, rotation |-> ThisPath.rotation]
           /\ pc' = <<"done", "path">> /\ UNCHANGED <<status, half, failures>>
  <2>1. Named'
    BY <1>1, <1>2, <1>3, <1>8 DEF Named, Have, Slots, InSet, SetPlaces, SetSteps,
       CommitPlaces, MonitorPlaces, Idle
  <2>2. CurrentInv'
    <3>1. current' = SetTo(k)'
      BY <1>1, <1>8 DEF SetTo, ThisPath
    <3>. QED
      BY <1>1, <1>2, <1>8, <3>1, PlaceFacts DEF CurrentInv, CommitPlaces, Setting, Exits, Exit
  <2>. QED
    BY <1>1, <1>2, <1>3, <1>8, <2>1, <2>2, CommitGoesOn DEF Setting
<1>. QED
  BY <1>6, <1>7, <1>8 DEF SetSourceModeAndPath

\* The path is given back, and after the last one the current mode is the new one.
LEMMA ReleasePathInfoInv ==
    ASSUME Inv, ReleasePathInfo
    PROVE  Inv'
<1>1. pc = <<"done", "path">> /\ half' = (half \/ status' = "FAIL") /\ k' = k + 1
      /\ UNCHANGED <<ddi, vidpn, m, modes, offer, current, committed, leftOut, cleaned>>
  BY DEF ReleasePathInfo, args
<1>2. /\ pc \in Places /\ pc \in CommitPlaces /\ ddi = "commit"
      /\ k \in DOMAIN vidpn.path /\ status = "OK"
      /\ Owned /\ Named /\ ~leftOut /\ ~cleaned
      /\ Have("info") => local["info"] \in refused
  BY <1>1, CommitStands
<1>3. k \in 1..Len(vidpn.path) /\ Len(vidpn.path) \in Nat /\ DOMAIN vidpn.path = 1..Len(vidpn.path)
  BY <1>2, PathFacts DEF Inv
<1>4. current = SetTo(k) /\ Have("path") /\ Have("srcSet") /\ vidpn.mode # NULL
  BY <1>1, <1>2 DEF Inv, CurrentInv, Named
<1>5. CASE Refuse("path") /\ Fail
  <2>1. /\ Owned' /\ refused \subseteq refused' /\ UNCHANGED local
    BY <1>2, <1>4, <1>5, RefuseOwned DEF Slots
  <2>2. half' = TRUE /\ status' = "FAIL" /\ pc' = Exit(1)
    BY <1>1, <1>5 DEF Fail
  <2>. QED
    BY <1>1, <1>2, <2>1, <2>2, FailsInv DEF Have
<1>6. ASSUME GiveBack("path"), UNCHANGED <<status, failures>>,
             pc' = IF k < Len(vidpn.path) THEN <<"acquire", "path">> ELSE Exit(1)
      PROVE  Inv'
  <2>1. /\ Owned' /\ ~Have("path")'
        /\ \A s \in Slots : s # "path" => local'[s] = local[s]
        /\ UNCHANGED refused
    BY <1>2, <1>4, <1>6, GiveBackOwned DEF Slots
  <2>2. half' <=> half
    BY <1>1, <1>2, <1>6
  <2>3. CASE k < Len(vidpn.path)
    <3>1. k' \in DOMAIN vidpn.path /\ k' - 1 = k /\ k' > 1
      BY <1>1, <1>3, <2>3
    <3>2. Named'
      BY <1>1, <1>2, <1>4, <1>6, <2>1, <2>3 DEF Named, Have, Slots, InSet, SetPlaces, SetSteps,
         CommitPlaces, MonitorPlaces, Idle
    <3>3. CurrentInv'
      <4>1. current' = SetTo(k - 1)'
        BY <1>1, <1>4, <3>1 DEF SetTo
      <4>2. k' # 1
        BY <1>1, <1>3
      <4>. QED
        BY <1>1, <1>2, <1>6, <2>3, <3>1, <4>1, <4>2, PlaceFacts
           DEF CurrentInv, CommitPlaces, Setting, Exits, Exit
    <3>. QED
      BY <1>1, <1>2, <1>6, <2>1, <2>3, <3>1, <3>2, <3>3, CommitGoesOn DEF Setting
  <2>4. CASE ~(k < Len(vidpn.path))
    <3>1. k = Len(vidpn.path)
      BY <1>3, <2>4
    <3>2. WillSet'
      BY <1>1, <1>2, <1>4, <1>6, <2>1 DEF WillSet, Have, Slots
    <3>3. current' = [size |-> vidpn'.mode.size, rotation |-> Last(vidpn'.path).rotation]
      BY <1>1, <1>4, <3>1 DEF SetTo, Last
    <3>4. pc' \in Exits /\ pc' \notin CommitPlaces
      BY <1>6, <2>4, PlaceFacts DEF Places
    <3>5. CurrentInv'
      BY <1>1, <1>2, <3>2, <3>3, <3>4 DEF CurrentInv, CommitPlaces
    <3>6. /\ (Have("info")' => local'["info"] \in refused')
          /\ \A s \in Slots : s # "info" /\ Have(s)' => Have(s)
      BY <1>2, <2>1 DEF Have, Slots
    <3>. QED
      BY <1>1, <1>2, <1>6, <2>1, <2>4, <3>5, <3>6, CommitEnds
  <2>. QED
    BY <2>3, <2>4
<1>. QED
  BY <1>5, <1>6 DEF ReleasePathInfo, ReleaseOrFail

-----------------------------------------------------------------------------
(* The end of the calls                                                    *)

\* A call at its exit label.
LEMMA AtExit ==
    ASSUME Inv, pc[1] = "exit"
    PROVE  /\ pc \in Exits /\ pc \notin Places /\ pc # Idle /\ ExitInv
           /\ pc[2] \in 1..7 /\ ddi \in {"enum", "commit", "monitor"}
           /\ \A i \in DOMAIN ExitOrder[ddi] : ExitOrder[ddi][i] \in Slots /\ i \in 1..6
           /\ \A i, j \in DOMAIN ExitOrder[ddi] : ExitOrder[ddi][i] = ExitOrder[ddi][j] => i = j
<1>1. pc \in Exits
  BY PlaceFacts DEF Inv, PlaceInv
<1>2. pc \notin Places /\ pc # Idle /\ pc[2] \in 1..7
  BY <1>1, PlaceFacts
<1>3. ExitInv /\ ddi \in {"enum", "commit", "monitor"}
  BY <1>1, <1>2 DEF Inv, PlaceInv, ObjectInv
<1>4. \A i \in DOMAIN ExitOrder[ddi] : ExitOrder[ddi][i] \in Slots /\ i \in 1..6
  BY <1>3, ExitOrderFacts DEF Slots
<1>5. \A i, j \in DOMAIN ExitOrder[ddi] : ExitOrder[ddi][i] = ExitOrder[ddi][j] => i = j
  BY <1>3, ExitOrderFacts
<1>. QED
  BY <1>1, <1>2, <1>3, <1>4, <1>5

\* The cleanup goes on: it touches nothing but the objects.
LEMMA StillAtExit ==
    ASSUME Inv, pc[1] = "exit", pc' \in Exits, ExitInv', ddi # "monitor",
           UNCHANGED <<ddi, vidpn, k, m, status, local, modes, offer, screen>>
    PROVE  Inv'
<1>1. pc \in Exits /\ pc \notin Places /\ pc # Idle /\ ddi \in {"enum", "commit", "monitor"}
  BY AtExit
<1>2. pc' \notin Places /\ pc' # Idle /\ pc' \in Exits
  BY PlaceFacts
<1>3. PlaceInv'
  BY <1>1, <1>2 DEF Inv, PlaceInv, Places
<1>4. ObjectInv'
  BY <1>2 DEF ObjectInv
<1>5. CurrentInv'
  <2>1. (WillSet' <=> WillSet) /\ pc \notin CommitPlaces /\ pc' \notin CommitPlaces
    BY <1>1, <1>2 DEF WillSet, Places
  <2>. QED
    BY <1>1, <1>2, <2>1 DEF Inv, CurrentInv, CommitPlaces, screen
<1>6. FillInv'
  BY <1>1, <1>2 DEF Inv, FillInv, Places, EnumPlaces, SetPlaces, SetSteps, MonitorPlaces, screen
<1>7. OfferInv'
  <2>1. pc' \notin SetPlaces("src")
    BY <1>2 DEF Places, EnumPlaces
  <2>. QED
    BY <2>1, OfferSame DEF Inv
<1>. QED
  BY <1>3, <1>4, <1>5, <1>6, <1>7 DEF Inv

\* One object is released at the exit label; the locals keep their values.
LEMMA CleanUpInv ==
    ASSUME Inv, NEW i \in 1..6, CleanUp(i)
    PROVE  Inv'
<1>. DEFINE slot == ExitOrder[ddi][i]
<1>1. /\ pc[1] = "exit" /\ pc[2] <= i /\ i \in ToClean /\ \A j \in ToClean : j >= pc[2] => i <= j
      /\ stale' = (stale \/ Gone(slot)) /\ pc' = Exit(i + 1)
      /\ \/ live' = live \ {local[slot]} /\ refused' = refused
         \/ refused' = refused \cup {local[slot]} /\ live' = live
      /\ UNCHANGED <<ddi, vidpn, k, m, status, local, made, modes, offer, screen, leftOut>>
  BY DEF CleanUp, args
<1>2. /\ ExitInv /\ pc[2] \in 1..7 /\ ddi \in {"enum", "commit", "monitor"}
      /\ \A j \in DOMAIN ExitOrder[ddi] : ExitOrder[ddi][j] \in Slots /\ j \in 1..6
      /\ \A j, n \in DOMAIN ExitOrder[ddi] : ExitOrder[ddi][j] = ExitOrder[ddi][n] => j = n
  BY <1>1, AtExit
<1>3. i \in DOMAIN ExitOrder[ddi] /\ slot \in Slots /\ Have(slot) /\ i \in Left
  BY <1>1, <1>2 DEF ToClean, Have, Left
<1>4. pc' \in Exits /\ pc'[2] = i + 1
  BY <1>1 DEF Exits, Exit
<1>5. \A j \in Left' : j \in Left /\ j # i
  BY <1>1, <1>2, <1>4 DEF Left
<1>6. \A j \in Left : Have(ExitOrder[ddi][j]) /\ j # i => j \in Left'
  <2>. SUFFICES ASSUME NEW j \in Left, Have(ExitOrder[ddi][j]), j # i PROVE j \in Left'
    OBVIOUS
  <2>1. j \in ToClean /\ j >= pc[2] /\ j \in 1..6 /\ j \in DOMAIN ExitOrder[ddi]
    BY <1>2 DEF ToClean, Have, Left
  <2>2. i <= j
    BY <1>1, <2>1
  <2>3. i + 1 <= j
    BY <2>1, <2>2
  <2>. QED
    BY <1>1, <1>4, <2>1, <2>3 DEF Left
<1>7. \A o \in live' : o \in refused' \/ \E j \in Left' : local'[ExitOrder[ddi][j]] = o
  <2>. SUFFICES ASSUME NEW o \in live', o \notin refused'
                PROVE  \E j \in Left' : local'[ExitOrder[ddi][j]] = o
    OBVIOUS
  <2>1. o \in live /\ o \notin refused /\ o # local[slot]
    BY <1>1
  <2>2. PICK j \in Left : local[ExitOrder[ddi][j]] = o
    BY <1>2, <2>1 DEF ExitInv
  <2>3. o # NULL /\ j # i
    BY <1>2, <2>1, <2>2, NullAssumption DEF ExitInv
  <2>. QED
    BY <1>1, <1>6, <2>2, <2>3 DEF Have
<1>8. stale' => leftOut'
  <2>. SUFFICES ASSUME ~leftOut PROVE ~stale'
    BY <1>1
  <2>1. ~stale /\ local[slot] \in live
    BY <1>2, <1>3 DEF ExitInv
  <2>2. ASSUME NEW p \in {"srcPin", "tgtPin"}, slot = p
        PROVE  local[IF p = "srcPin" THEN "srcSet" ELSE "tgtSet"] \in live
    <3>. DEFINE set == IF p = "srcPin" THEN "srcSet" ELSE "tgtSet"
    <3>1. Have(set)
      BY <1>2, <1>3, <2>2 DEF ExitInv
    <3>2. PICK j \in DOMAIN ExitOrder[ddi] : ExitOrder[ddi][j] = set /\ i <= j
      BY <1>2, <1>3, <2>2, ExitOrderFacts
    <3>3. j \in Left
      BY <1>1, <1>2, <1>3, <3>2 DEF Left
    <3>. QED
      BY <1>2, <3>1, <3>2, <3>3 DEF ExitInv
  <2>3. ~Gone(slot)
    BY <2>1, <2>2 DEF Gone
  <2>. QED
    BY <1>1, <2>1, <2>3
<1>9. ASSUME ~leftOut, NEW j \in Left', Have(ExitOrder[ddi][j])
      PROVE  local[ExitOrder[ddi][j]] \in live'
  <2>1. j \in Left /\ j # i /\ j \in DOMAIN ExitOrder[ddi]
    BY <1>5 DEF Left
  <2>2. local[ExitOrder[ddi][j]] \in live /\ ExitOrder[ddi][j] # slot /\ ExitOrder[ddi][j] \in Slots
    BY <1>2, <1>3, <1>9, <2>1 DEF ExitInv
  <2>3. local[ExitOrder[ddi][j]] # local[slot]
    BY <1>2, <1>3, <1>9, <2>2 DEF ExitInv
  <2>. QED
    BY <1>1, <2>2, <2>3
<1>10. ~(ddi = "enum" /\ status = "OK")
  BY <1>1, <1>2 DEF ExitInv
<1>11. ExitInv'
  <2>1. made' \in Nat /\ live' \subseteq 1..made' /\ local' \in [Slots -> 1..made' \cup {NULL}]
    BY <1>1, <1>2 DEF ExitInv
  <2>2. ~leftOut' => \A j \in Left' : Have(ExitOrder[ddi][j])' => local'[ExitOrder[ddi][j]] \in live'
    BY <1>1, <1>9 DEF Have
  <2>3. ~leftOut' => /\ \A s, t \in Slots : Have(s)' /\ local'[s] = local'[t] => s = t
                     /\ Have("srcPin")' => Have("srcSet")'
                     /\ Have("tgtPin")' => Have("tgtSet")'
    BY <1>1, <1>2 DEF ExitInv, Have
  <2>. QED
    BY <1>1, <1>7, <1>8, <1>10, <2>1, <2>2, <2>3 DEF ExitInv
<1>. QED
  BY <1>1, <1>3, <1>4, <1>11, ExitOrderFacts, StillAtExit

\* Between two calls nothing is held, and nothing is left of the call before.
LEMMA IdleInv ==
    ASSUME pc' = Idle, ddi' = "none", vidpn' = NoCall.vidpn, k' = 1, m' = 0, status' = "OK",
           local' = NoCall.local, live' = {}, made' = 0, ~stale', ~leftOut', ~cleaned',
           ~half' => current' = committed',
           offer' = [mode |-> offer'.mode, rotation |-> offer'.rotation, scaling |-> offer'.scaling],
           offer'.mode # {} => Acceptable'
    PROVE  Inv'
<1>1. pc' \notin Places \cup Exits /\ pc'[1] # "exit"
  BY PlaceFacts
<1>2. pc' \notin EnumPlaces /\ pc' \notin CommitPlaces /\ pc' \notin MonitorPlaces
  BY <1>1 DEF Places
<1>3. PlaceInv'
  BY <1>1, <1>2 DEF PlaceInv
<1>4. local' = [s \in Slots |-> NULL]
  BY DEF NoCall
<1>5. \A s \in Slots : local'[s] = NULL
  BY <1>4
<1>6. Owned'
  <2>1. local' \in [Slots -> 1..made' \cup {NULL}]
    BY <1>4
  <2>2. \A s \in Slots : ~Have(s)'
    BY <1>5 DEF Have
  <2>3. ~Have("srcPin")' /\ ~Have("tgtPin")'
    BY <2>2 DEF Slots
  <2>. QED
    BY <2>1, <2>2, <2>3 DEF Owned
<1>7. Named'
  <2>1. /\ ~Have("info")' /\ ~Have("temp")' /\ ~Have("path")' /\ ~Have("srcSet")'
        /\ ~Have("srcPin")' /\ ~Have("tgtSet")' /\ ~Have("tgtPin")'
    BY <1>5 DEF Have, Slots
  <2>2. pc' = <<"idle", "none">>
    BY DEF Idle
  <2>. QED
    BY <2>1, <2>2 DEF Named, InSet, SetPlaces, SetSteps, CommitPlaces
<1>8. ObjectInv'
  BY <1>1, <1>6, <1>7 DEF ObjectInv
<1>9. CurrentInv'
  BY <1>1, <1>2 DEF CurrentInv, CommitPlaces
<1>10. FillInv'
  BY <1>1, <1>2 DEF FillInv, EnumPlaces, SetPlaces, SetSteps
<1>11. OfferInv'
  BY <1>2 DEF OfferInv, EnumPlaces
<1>. QED
  BY <1>3, <1>8, <1>9, <1>10, <1>11 DEF Inv

\* The call returns, and dxgkrnl learns which mode was set.
LEMMA ReturnInv ==
    ASSUME Inv, Return
    PROVE  Inv' /\ ModesOK'
<1>1. /\ pc[1] = "exit" /\ pc' = Idle /\ ddi' = "none" /\ vidpn' = NoCall.vidpn
      /\ k' = 1 /\ m' = 0 /\ status' = "OK" /\ local' = NoCall.local /\ live' = {} /\ made' = 0
      /\ modes' = NoCall.modes /\ stale' = FALSE /\ leftOut' = FALSE /\ cleaned' = FALSE
      /\ current' = current /\ (offer' = offer \/ offer' = NoOffer)
      /\ committed' = IF WillSet THEN [size |-> vidpn.mode.size,
                                       rotation |-> Last(vidpn.path).rotation] ELSE committed
      /\ half' = (half /\ ~WillSet)
  BY DEF Return, Ended, WillSet, NoCall
<1>2. pc \in Exits
  BY <1>1, AtExit
<1>3. ~half' => current' = committed'
  BY <1>1, <1>2 DEF Inv, CurrentInv
<1>4. /\ offer' = [mode |-> offer'.mode, rotation |-> offer'.rotation, scaling |-> offer'.scaling]
      /\ offer'.mode # {} => Acceptable'
  <2>1. CASE offer' = offer
    BY <2>1 DEF Inv, OfferInv, Acceptable
  <2>2. CASE offer' = NoOffer
    BY <2>2 DEF NoOffer
  <2>. QED
    BY <1>1, <2>1, <2>2
<1>5. ModesOK'
  BY DEF Return, ModesOK, NoCall
<1>. QED
  BY <1>1, <1>3, <1>4, <1>5, IdleInv

-----------------------------------------------------------------------------
(* Calls begin                                                             *)

\* Between calls.
LEMMA AtIdle ==
    ASSUME Inv, pc = Idle
    PROVE  /\ pc \notin Places /\ pc \notin Exits /\ ddi = "none" /\ vidpn = NoCall.vidpn
           /\ k = 1 /\ m = 0 /\ status = "OK" /\ (~half => current = committed)
           /\ Owned /\ ~leftOut /\ ~cleaned /\ (Have("info") => local["info"] \in refused)
           /\ \A s \in Slots : s # "info" => ~Have(s)
<1>1. pc \notin Places /\ pc \notin Exits /\ ddi = "none" /\ vidpn = NoCall.vidpn
      /\ k = 1 /\ m = 0 /\ status = "OK"
  BY PlaceFacts DEF Inv, PlaceInv
<1>2. Owned /\ Named /\ ~leftOut /\ ~cleaned
  BY DEF Inv, ObjectInv
<1>3. Have("info") => local["info"] \in refused
  BY <1>2 DEF Named, Idle
<1>4. ~Have("temp") /\ ~Have("path") /\ ~Have("srcSet") /\ ~Have("tgtSet") /\ ~Have("tgtPin")
  BY <1>1, <1>2 DEF Named, Idle, InSet
<1>5. ~Have("srcPin")
  BY <1>2, <1>4 DEF Owned
<1>6. \A s \in Slots : s # "info" => ~Have(s)
  BY <1>4, <1>5 DEF Slots
<1>7. ~half => current = committed
  BY <1>1 DEF Inv, CurrentInv
<1>. QED
  BY <1>1, <1>2, <1>3, <1>6, <1>7

\* A call begins, and will do something.
LEMMA BeginsInv ==
    ASSUME Inv, pc = Idle, pc' \in Places, UNCHANGED <<k, m, status, objects, screen, leftOut, cleaned>>,
           \/ ddi' = "enum" /\ pc' = <<"begin", "enum">>
           \/ ddi' = "commit" /\ pc' = <<"acquire", "src">>
           \/ ddi' = "monitor" /\ pc' = <<"create", "mon">>,
           vidpn' \in VidPns \cup {NoCall.vidpn}, ddi' # "monitor" => vidpn'.path # <<>>, OfferInv'
    PROVE  Inv'
<1>1. /\ pc \notin Places /\ pc \notin Exits /\ ddi = "none" /\ vidpn = NoCall.vidpn
      /\ k = 1 /\ m = 0 /\ status = "OK" /\ (~half => current = committed)
      /\ Owned /\ ~leftOut /\ ~cleaned /\ (Have("info") => local["info"] \in refused)
      /\ \A s \in Slots : s # "info" => ~Have(s)
  BY AtIdle
<1>2. ddi' # "monitor" => k' \in DOMAIN vidpn'.path
  <2>1. CASE vidpn' \in VidPns
    <3>1. vidpn'.path \in Seq(Path)
      BY <2>1, VidPnsAssumption
    <3>. QED
      BY <1>1, <3>1
  <2>2. CASE vidpn' = NoCall.vidpn
    BY <2>2 DEF NoCall
  <2>. QED
    BY <2>1, <2>2
<1>3. pc' \notin Exits /\ pc' # Idle
  BY PlaceFacts
<1>4. PlaceInv'
  BY <1>1, <1>2, <1>3 DEF PlaceInv, Places, EnumPlaces, CommitPlaces, MonitorPlaces, SetPlaces, SetSteps
<1>5. Owned' /\ UNCHANGED <<local, refused>> /\ ~leftOut' /\ ~cleaned'
  BY <1>1 DEF objects, Owned, Have
<1>6. Named'
  <2>1. /\ ~Have("temp")' /\ ~Have("path")' /\ ~Have("srcSet")'
        /\ ~Have("srcPin")' /\ ~Have("tgtSet")' /\ ~Have("tgtPin")'
        /\ (Have("info")' => local'["info"] \in refused')
    BY <1>1, <1>5 DEF Have, Slots
  <2>. QED
    BY <2>1 DEF Named, InSet, SetPlaces, SetSteps, CommitPlaces
<1>7. ObjectInv'
  BY <1>3, <1>5, <1>6 DEF ObjectInv
<1>8. CurrentInv'
  BY <1>1, <1>3 DEF CurrentInv, CommitPlaces, Setting, screen
<1>9. FillInv'
  BY <1>1, <1>3 DEF FillInv, MonitorPlaces
<1>. QED
  BY <1>4, <1>7, <1>8, <1>9 DEF Inv

\* An enumeration begins with the paths' own scalings and rotations as the offer.
LEMMA EnumVidPnCofuncModalityInv ==
    ASSUME Inv, NEW v \in VidPns, IsSupportedVidPn(v), NEW pv, EnumVidPnCofuncModality(v, pv)
    PROVE  Inv'
<1>1. /\ pc = Idle /\ ddi' = "enum" /\ vidpn' = v /\ v.path # <<>> /\ pc' = <<"begin", "enum">>
      /\ offer' = [mode |-> {}, rotation |-> [t \in Targets(v) |-> {PathTo(v, t).rotation}],
                   scaling |-> [t \in Targets(v) |-> {PathTo(v, t).scaling}]]
      /\ UNCHANGED <<k, m, status, objects, screen, leftOut, cleaned>>
  BY DEF EnumVidPnCofuncModality, Begin
<1>2. pc' \in Places
  BY <1>1 DEF Places, EnumPlaces
<1>3. v.mode = NULL => Acceptable'
  <2>. SUFFICES ASSUME v.mode = NULL, PathsOffered PROVE Acceptable'
    BY DEF Acceptable
  <2>1. ASSUME NEW t \in Targets(v)
        PROVE  /\ t < MaxChildren
               /\ PathTo(v, t).rotation \in ValidRotations \cup {"unpinned"}
               /\ PathTo(v, t).scaling \in ValidScalings \cup {"unpinned"}
    <3>1. \E p \in Range(v.path) : p.target = t
      BY DEF Targets, Range
    <3>2. PathTo(v, t) \in Range(v.path) /\ PathTo(v, t).target = t
      BY <3>1 DEF PathTo
    <3>. QED
      BY <3>2 DEF PathsOffered
  <2>2. /\ DOMAIN offer'.rotation = Targets(v) /\ DOMAIN offer'.scaling = Targets(v)
        /\ \A t \in Targets(v) : /\ offer'.rotation[t] = {PathTo(v, t).rotation}
                                 /\ offer'.scaling[t] = {PathTo(v, t).scaling}
    BY <1>1
  <2>. QED
    BY <2>1, <2>2 DEF Acceptable
<1>4. OfferInv'
  <2>1. pc' \notin SetPlaces("src")
    BY <1>1 DEF SetPlaces, SetSteps
  <2>2. /\ offer' = [mode |-> offer'.mode, rotation |-> offer'.rotation, scaling |-> offer'.scaling]
        /\ offer'.mode = {}
    BY <1>1
  <2>. QED
    BY <1>1, <1>3, <2>1, <2>2 DEF OfferInv
<1>. QED
  BY <1>1, <1>2, <1>4, BeginsInv

\* A monitor's modes are asked for.
LEMMA RecommendMonitorModesInv ==
    ASSUME Inv, ModesOK, NEW known, RecommendMonitorModes(known)
    PROVE  Inv' /\ ModesOK'
<1>1. /\ pc = Idle /\ ddi' = "monitor" /\ vidpn' = vidpn /\ pc' = <<"create", "mon">>
      /\ modes' = [modes EXCEPT !["mon"] = known]
      /\ UNCHANGED <<k, m, status, objects, offer, screen, failures, leftOut, cleaned>>
  BY DEF RecommendMonitorModes, Begin
<1>2. pc' \in Places
  BY <1>1 DEF Places, MonitorPlaces
<1>3. OfferInv'
  <2>1. pc' \notin SetPlaces("src")
    BY <1>1 DEF SetPlaces, SetSteps
  <2>. QED
    BY <1>1, <2>1 DEF Inv, OfferInv, Acceptable
<1>4. vidpn' \in VidPns \cup {NoCall.vidpn}
  BY <1>1 DEF Inv, PlaceInv
<1>. QED
  BY <1>1, <1>2, <1>3, <1>4, BeginsInv DEF ModesOK

\* A commit begins, or ends at once with nothing done.
LEMMA CommitVidPnInv ==
    ASSUME Inv, NEW v \in VidPns, NEW off \in BOOLEAN, CommitVidPn(v, off)
    PROVE  Inv'
<1>1. /\ pc = Idle /\ ddi' = "commit" /\ vidpn' = v
      /\ pc' = IF off \/ v.path = <<>> THEN Exit(1) ELSE <<"acquire", "src">>
      /\ UNCHANGED <<k, m, status, objects, modes, offer, screen, leftOut, cleaned>>
  BY DEF CommitVidPn, Begin
<1>2. /\ pc \notin Places /\ pc \notin Exits /\ ddi = "none" /\ vidpn = NoCall.vidpn
      /\ k = 1 /\ m = 0 /\ status = "OK" /\ (~half => current = committed)
      /\ Owned /\ ~leftOut /\ ~cleaned /\ (Have("info") => local["info"] \in refused)
      /\ \A s \in Slots : s # "info" => ~Have(s)
  BY <1>1, AtIdle
<1>3. pc' \notin SetPlaces("src") \ {<<"acquire", "src">>}
  BY <1>1 DEF SetPlaces, SetSteps, Exit
<1>4. OfferInv'
  BY <1>1, <1>2, <1>3 DEF Inv, OfferInv, Acceptable
<1>5. CASE ~(off \/ v.path = <<>>)
  <2>1. pc' \in Places
    BY <1>1, <1>5 DEF Places, CommitPlaces
  <2>. QED
    BY <1>1, <1>4, <1>5, <2>1, BeginsInv
\* Nothing to do.
<1>6. CASE off \/ v.path = <<>>
  <2>1. pc' \in Exits /\ pc' \notin Places /\ pc' # Idle
    BY <1>1, <1>6, PlaceFacts
  <2>2. PlaceInv'
    BY <1>1, <1>2, <2>1 DEF PlaceInv, Places
  <2>3. UNCHANGED <<local, live, made, refused, stale>>
    BY <1>1 DEF objects
  <2>4. \A o \in live' : o \in refused'
    <3>. SUFFICES ASSUME NEW o \in live, o \notin refused PROVE FALSE
      BY <2>3
    <3>1. PICK s \in Slots : local[s] = o
      BY <1>2 DEF Owned
    <3>2. o # NULL
      BY <1>2, NullAssumption DEF Owned
    <3>. QED
      BY <1>2, <3>1, <3>2 DEF Have
  <2>5. \A i \in Left' : ExitOrder["commit"][i] \in Slots \ {"info"}
    BY <1>1, ExitOrderFacts DEF Left, Slots
  <2>6. ExitInv'
    BY <1>1, <1>2, <2>3, <2>4, <2>5 DEF ExitInv, Owned, Have, Slots
  <2>7. ObjectInv'
    BY <2>1, <2>6 DEF ObjectInv
  <2>8. CurrentInv'
    <3>1. ~WillSet'
      BY <1>2, <2>3 DEF WillSet, Have, Slots
    <3>. QED
      BY <1>1, <1>2, <2>1, <3>1 DEF CurrentInv, Places, CommitPlaces, screen
  <2>9. FillInv'
    BY <1>1, <2>1 DEF FillInv, Places, EnumPlaces, SetPlaces, SetSteps, MonitorPlaces
  <2>. QED
    BY <1>4, <2>2, <2>7, <2>8, <2>9 DEF Inv
<1>. QED
  BY <1>5, <1>6

\* A path is turned: the current and the committed rotation change together.
LEMMA UpdateActiveVidPnPresentPathInv ==
    ASSUME Inv, NEW p, UpdateActiveVidPnPresentPath(p)
    PROVE  Inv'
<1>1. /\ pc = Idle /\ current' = [current EXCEPT !.rotation = p.rotation]
      /\ committed' = [committed EXCEPT !.rotation = p.rotation]
      /\ UNCHANGED <<pc, ddi, vidpn, k, m, status, local, live, made, refused, stale, modes,
                     offer, half, leftOut, cleaned>>
  BY DEF UpdateActiveVidPnPresentPath, args, objects
<1>2. /\ pc \notin Places /\ pc \notin Exits /\ ddi = "none"
      /\ (~half => current = committed)
  BY <1>1, AtIdle
<1>3. PlaceInv'
  BY <1>1 DEF Inv, PlaceInv
<1>4. ObjectInv'
  <2>1. Owned /\ Named /\ ~leftOut /\ ~cleaned
    BY <1>1 DEF Inv, ObjectInv
  <2>2. Owned'
    BY <1>1, <2>1 DEF Owned, Have
  <2>3. Named'
    BY <1>1, <2>1 DEF Named, Have
  <2>. QED
    BY <1>1, <1>2, <2>1, <2>2, <2>3 DEF ObjectInv
<1>5. CurrentInv'
  <2>1. pc' \notin CommitPlaces /\ pc' \notin Exits /\ ddi' # "commit"
    BY <1>1, <1>2 DEF Places
  <2>2. ~half' => current' = committed'
    BY <1>1, <1>2
  <2>. QED
    BY <2>1, <2>2 DEF CurrentInv, CommitPlaces
<1>6. FillInv'
  BY <1>1, <1>2 DEF FillInv, Places, EnumPlaces, SetPlaces, SetSteps
<1>7. OfferInv'
  BY <1>1, <1>2 DEF Inv, OfferInv, Acceptable, Places, EnumPlaces
<1>. QED
  BY <1>3, <1>4, <1>5, <1>6, <1>7 DEF Inv

-----------------------------------------------------------------------------
(* The invariant                                                           *)

\* Before the first call.
LEMMA InitInv == Init => Inv /\ ModesOK
<1>. SUFFICES ASSUME Init PROVE Inv /\ ModesOK
  OBVIOUS
<1>. USE DEF Init
<1>1. ddi = "none" /\ vidpn = NoCall.vidpn /\ pc = Idle /\ k = 1 /\ m = 0 /\ status = "OK"
  BY DEF NoCall
<1>2. pc \notin Places \cup Exits
  BY <1>1, PlaceFacts
<1>3. pc \notin EnumPlaces /\ pc \notin CommitPlaces /\ pc \notin MonitorPlaces
  BY <1>2 DEF Places
<1>4. PlaceInv
  BY <1>1, <1>2, <1>3 DEF PlaceInv
<1>5. local = [s \in Slots |-> NULL]
  BY DEF NoCall
<1>6. \A s \in Slots : ~Have(s)
  BY <1>5 DEF Have
<1>7. Owned
  BY <1>5, <1>6 DEF Owned, Slots
<1>8. Named
  BY <1>1, <1>6 DEF Named, InSet, SetPlaces, SetSteps, CommitPlaces, Idle, Slots
<1>9. ObjectInv
  BY <1>2, <1>7, <1>8 DEF ObjectInv
<1>10. CurrentInv
  BY <1>1, <1>2, <1>3 DEF CurrentInv, CommitPlaces
<1>11. FillInv
  BY <1>1, <1>2, <1>3 DEF FillInv, EnumPlaces, SetPlaces, SetSteps
<1>12. OfferInv
  BY <1>1, <1>3 DEF OfferInv, NoOffer, EnumPlaces
<1>13. ModesOK
  BY DEF ModesOK, NoCall
<1>. QED
  BY <1>4, <1>9, <1>10, <1>11, <1>12, <1>13 DEF Inv

\* A step keeps the three sets that a call may fill apart, and counts on.
LEMMA ModesNext == ModesOK /\ [Next]_vars => ModesOK'
<1>. SUFFICES ASSUME ModesOK, [Next]_vars PROVE ModesOK'
  OBVIOUS
<1>1. CASE UNCHANGED vars
  BY <1>1 DEF vars, ModesOK
<1>2. CASE \E v \in VidPns :
              /\ IsSupportedVidPn(v)
              /\ \/ \E pv \in Pivots : EnumVidPnCofuncModality(v, pv)
                 \/ \E off \in BOOLEAN : CommitVidPn(v, off)
  BY <1>2 DEF EnumVidPnCofuncModality, CommitVidPn, Begin, ModesOK
<1>3. CASE \E known \in SUBSET Sizes : RecommendMonitorModes(known)
  BY <1>3 DEF RecommendMonitorModes, Begin, ModesOK
<1>4. CASE \E v \in VidPns : \E p \in Range(v.path) : UpdateActiveVidPnPresentPath(p)
  BY <1>4 DEF UpdateActiveVidPnPresentPath, ModesOK
<1>5. ASSUME NEW side, ModeSetStep(side) PROVE ModesOK'
  BY <1>5 DEF ModeSetStep, AcquireModeSet, AcquirePinnedModeInfo, ReleaseOldModeSet,
     CreateNewModeSet, AssignModeSet, ObtainOrFail, ReleaseOrFail, Fail, ModesOK
<1>6. ASSUME NEW side, AddSingleMode(side) PROVE ModesOK'
  <2>1. CASE CreateNewModeInfo(side) \/ AddMode(side)
    BY <2>1 DEF CreateNewModeInfo, AddMode, Fail, ModesOK
  <2>2. ASSUME NEW why \in {"ALREADY", "FAIL"}, NEW released \in {"OK", "FAIL"},
               AddModeRefused(side, why, released)
        PROVE  ModesOK'
    <3>1. failures' \in Nat
      BY <2>2, RefusalCounted DEF ModesOK
    <3>2. UNCHANGED modes
      BY <2>2 DEF AddModeRefused
    <3>. QED
      BY <3>1, <3>2 DEF ModesOK
  <2>. QED
    BY <1>6, <2>1, <2>2 DEF AddSingleMode
<1>7. CASE \/ AcquireFirstPathInfo \/ ReleasePinnedTarget \/ ReleaseSource \/ UpdatePathSupportInfo
           \/ AcquireNextPathInfo \/ ReleaseLastPath \/ CheckSourceMode \/ AcquirePathInfo
           \/ SetSourceModeAndPath \/ ReleasePathInfo
  BY <1>7 DEF AcquireFirstPathInfo, ReleasePinnedTarget, ReleaseSource, UpdatePathSupportInfo,
     AcquireNextPathInfo, ReleaseLastPath, CheckSourceMode, AcquirePathInfo,
     SetSourceModeAndPath, ReleasePathInfo, ObtainOrFail, ReleaseOrFail, Fail, ModesOK
<1>8. CASE \E i \in 1..6 : CleanUp(i)
  BY <1>8 DEF CleanUp, ModesOK
<1>9. CASE Return
  BY <1>9 DEF Return, ModesOK, NoCall
<1>. QED
  BY <1>1, <1>2, <1>3, <1>4, <1>5, <1>6, <1>7, <1>8, <1>9 DEF Next, SourceModes, TargetModes,
     AddSingleSourceMode, AddSingleTargetMode, AddSingleMonitorMode

\* Every step of a call keeps the invariant.
LEMMA InvNext == Inv /\ ModesOK /\ [Next]_vars => Inv'
<1>. SUFFICES ASSUME Inv, ModesOK, [Next]_vars PROVE Inv'
  OBVIOUS
<1>1. CASE UNCHANGED vars
  <2>1. UNCHANGED <<pc, ddi, vidpn, k, m, status, local, live, made, refused, stale, modes,
                    offer, current, committed, half, failures, leftOut, cleaned>>
    BY <1>1 DEF vars, args, objects, screen
  <2>2. PlaceInv'
    BY <2>1 DEF Inv, PlaceInv
  <2>3. (Owned => Owned') /\ (Named => Named') /\ (ExitInv => ExitInv')
    <3>1. Owned => Owned'
      BY <2>1 DEF Owned, Have
    <3>2. Named => Named'
      BY <2>1 DEF Named, Have
    <3>3. ExitInv => ExitInv'
      BY <2>1 DEF ExitInv, Left, ToClean, Have
    <3>. QED
      BY <3>1, <3>2, <3>3
  <2>4. ObjectInv'
    BY <2>1, <2>3 DEF Inv, ObjectInv
  <2>5. CurrentInv'
    BY <2>1 DEF Inv, CurrentInv, WillSet, SetTo
  <2>6. FillInv'
    BY <2>1 DEF Inv, FillInv, MonitorFilled
  <2>7. OfferInv'
    BY <2>1 DEF Inv, OfferInv, Acceptable, Chosen
  <2>. QED
    BY <2>2, <2>4, <2>5, <2>6, <2>7 DEF Inv
<1>2. CASE \E v \in VidPns :
              /\ IsSupportedVidPn(v)
              /\ \/ \E pv \in Pivots : EnumVidPnCofuncModality(v, pv)
                 \/ \E off \in BOOLEAN : CommitVidPn(v, off)
  BY <1>2, EnumVidPnCofuncModalityInv, CommitVidPnInv
<1>3. CASE \E known \in SUBSET Sizes : RecommendMonitorModes(known)
  BY <1>3, RecommendMonitorModesInv
<1>4. CASE \E v \in VidPns : \E p \in Range(v.path) : UpdateActiveVidPnPresentPath(p)
  BY <1>4, UpdateActiveVidPnPresentPathInv
<1>5. ASSUME NEW side \in {"src", "tgt"}, ModeSetStep(side) PROVE Inv'
  BY <1>5, AcquireModeSetInv, AcquirePinnedModeInfoInv, ReleaseOldModeSetInv, CreateNewModeSetInv,
     AssignModeSetInv DEF ModeSetStep
<1>6. ASSUME NEW side \in {"src", "tgt", "mon"}, AddSingleMode(side) PROVE Inv'
  BY <1>6, CreateNewModeInfoInv, AddModeInv, AddModeRefusedInv DEF AddSingleMode
<1>7. CASE AcquireFirstPathInfo \/ ReleaseSource \/ UpdatePathSupportInfo
           \/ AcquireNextPathInfo \/ ReleaseLastPath \/ ReleasePinnedTarget
  BY <1>7, AcquireFirstPathInfoInv, ReleaseSourceInv, UpdatePathSupportInfoInv,
     AcquireNextPathInfoInv, ReleaseLastPathInv, ReleasePinnedTargetInv
<1>8. CASE CheckSourceMode \/ AcquirePathInfo \/ SetSourceModeAndPath \/ ReleasePathInfo
  BY <1>8, CheckSourceModeInv, AcquirePathInfoInv, SetSourceModeAndPathInv, ReleasePathInfoInv
<1>9. CASE \E i \in 1..6 : CleanUp(i)
  BY <1>9, CleanUpInv
<1>10. CASE Return
  BY <1>10, ReturnInv
<1>. QED
  BY <1>1, <1>2, <1>3, <1>4, <1>5, <1>6, <1>7, <1>8, <1>9, <1>10 DEF Next, SourceModes, TargetModes,
     AddSingleSourceMode, AddSingleTargetMode, AddSingleMonitorMode

\* Every state of the mode negotiation satisfies the inductive invariant: what the calls
\* hold at each of their places, which mode is current, what has been filled and offered.
THEOREM NegotiationCorrect == Spec => [](Inv /\ ModesOK)
<1>1. Init => Inv /\ ModesOK
  BY InitInv
<1>2. Inv /\ ModesOK /\ [Next]_vars => (Inv /\ ModesOK)'
  BY InvNext, ModesNext
<1>. QED
  BY <1>1, <1>2, PTL DEF Spec

\* However a call of the mode negotiation ends, and whichever of its callbacks failed, all it
\* obtained from dxgkrnl is given back once, unless pfnAcquireNextPathInfo left its result.
THEOREM GivenBackOnceCorrect == Spec => []GivenBackOnce
<1>1. Inv => GivenBackOnce
  <2>. SUFFICES ASSUME Inv PROVE GivenBackOnce
    OBVIOUS
  <2>1. ASSUME Ended PROVE live \subseteq refused
    <3>1. pc[1] = "exit" /\ \A i \in ToClean : i < pc[2]
      BY <2>1 DEF Ended
    <3>2. ExitInv /\ pc[2] \in 1..7 /\ \A i \in DOMAIN ExitOrder[ddi] : i \in 1..6
      BY <3>1, AtExit
    <3>. SUFFICES ASSUME NEW o \in live, o \notin refused PROVE FALSE
      OBVIOUS
    <3>3. PICK i \in Left : local[ExitOrder[ddi][i]] = o
      BY <3>2 DEF ExitInv
    <3>4. i \in ToClean /\ pc[2] <= i /\ i \in 1..6
      BY <3>2, <3>3, NullAssumption DEF ExitInv, ToClean, Left
    <3>. QED
      BY <3>1, <3>2, <3>4
  <2>2. stale => leftOut
    BY DEF Inv, PlaceInv, ObjectInv, Owned, ExitInv
  <2>. QED
    BY <2>1, <2>2 DEF GivenBackOnce
<1>. QED
  BY <1>1, NegotiationCorrect, PTL

\* An enumeration that succeeds leaves its exit label nothing to do: "in normal execution
\* everything should be released by this point".
THEOREM SuccessCorrect == Spec => []SuccessNeedsNoCleanup
<1>1. Inv => SuccessNeedsNoCleanup
  <2>. SUFFICES ASSUME Inv, Ended, ddi = "enum", status = "OK" PROVE ~cleaned
    BY DEF SuccessNeedsNoCleanup
  <2>1. ExitInv
    BY AtExit DEF Ended
  <2>. QED
    BY <2>1 DEF ExitInv
<1>. QED
  BY <1>1, NegotiationCorrect, PTL

\* Between calls m_CurrentModes holds what dxgkrnl was told, unless a commit failed halfway.
THEOREM CurrentCorrect == Spec => []CurrentIsCommitted
<1>1. Inv => CurrentIsCommitted
  BY AtIdle DEF CurrentIsCommitted
<1>. QED
  BY <1>1, NegotiationCorrect, PTL

\* AddSingleSourceMode assigns the whole mode list, AddSingleTargetMode its first mode, and
\* AddSingleMonitorMode, when it succeeds, has the current mode in its set, and the whole
\* list if the monitor did not know the current mode and no callback failed.
THEOREM WholeListCorrect == Spec => []WholeListOffered
<1>1. Inv => WholeListOffered
  <2>. SUFFICES ASSUME Inv PROVE WholeListOffered
    OBVIOUS
  <2>1. ASSUME pc[1] = "assign", NEW side \in {"src", "tgt"}, pc[2] = side
        PROVE  pc = <<"assign", side>>
    <3>1. pc \in EnumPlaces
      BY <2>1, PlaceFacts DEF Inv, PlaceInv, Places, CommitPlaces, MonitorPlaces, Exits, Exit, Idle
    <3>. QED
      BY <2>1, <3>1 DEF EnumPlaces, SetPlaces, SetSteps
  <2>2. ASSUME Ended, ddi = "monitor", status = "OK" PROVE MonitorFilled
    <3>1. pc \in Exits
      BY <2>2, AtExit DEF Ended
    <3>. QED
      BY <2>2, <3>1 DEF Inv, FillInv
  <2>3. pc[1] = "assign" /\ pc[2] = "src" => modes["src"] = Sizes
    BY <2>1 DEF Inv, FillInv
  <2>4. pc[1] = "assign" /\ pc[2] = "tgt" /\ failures = 0 => modes["tgt"] = {ModeList[1]}
    BY <2>1 DEF Inv, FillInv
  <2>. QED
    BY <2>2, <2>3, <2>4 DEF MonitorFilled, WholeListOffered
<1>. QED
  BY <1>1, NegotiationCorrect, PTL

\* CommitVidPn never refuses as invalid what the last EnumVidPnCofuncModality offered, if
\* dxgkrnl pins only what the driver can do before it asks (PathsOffered).
THEOREM OfferCorrect == ASSUME PathsOffered PROVE Spec => []OfferIsAccepted
<1>1. Inv => OfferIsAccepted
  BY DEF Inv, OfferInv, Chosen, OfferIsAccepted
<1>. QED
  BY <1>1, NegotiationCorrect, PTL

=============================================================================
