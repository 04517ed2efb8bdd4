------------------------- MODULE FPDCommunityProofs -------------------------
(***************************************************************************)
(* What holds of FPDCommunity for any clients, templates and names, and    *)
(* whatever the sensor library does.                                       *)
(*                                                                         *)
(* Every theorem is by induction over the steps, one proof step for each   *)
(* handler.                                                                *)
(***************************************************************************)
EXTENDS FPDCommunity, WellFoundedInduction, TLAPS

-----------------------------------------------------------------------------
(* What the operators on the map and on its file return.                   *)

LEMMA EmptyMapType == EmptyMap \in FingerMaps
BY DEF EmptyMap, FingerMaps

(* Loading, for whatever the file holds, yields a map that lists exactly   *)
(* the templates of the sensor.                                            *)
LEMMA LoadedMapKeys ==
  ASSUME TypeOK, NEW fingers \in SUBSET Fingers
  PROVE  /\ LoadedMap(fingers) \in FingerMaps
         /\ Keys(LoadedMap(fingers)) = fingers
<1>1. ReadDatabase \in FingerMaps
  BY EmptyMapType DEF ReadDatabase, TypeOK
<1>2. DropMissing(ReadDatabase, fingers) \in FingerMaps
  BY <1>1 DEF DropMissing, FingerMaps
<1>3. \A k \in FingerIds : UnknownName[k] \in Names
  BY ConstantsAssumption
<1>4. LoadedMap(fingers) \in FingerMaps
  BY <1>2, <1>3 DEF LoadedMap, AddUnknown, FingerMaps
<1>5. \A k \in FingerIds : LoadedMap(fingers)[k] # Absent <=> k \in fingers
  BY <1>1, <1>2, <1>3, ConstantsAssumption
     DEF LoadedMap, AddUnknown, DropMissing, FingerMaps
<1> QED
  BY <1>4, <1>5 DEF Keys, FingerIds

LEMMA SavedType ==
  ASSUME TypeOK, NEW map \in FingerMaps, saveFingers(map)
  PROVE  database' \in FingerMaps \union {Unreadable}
<1>1. PICK outcome \in SaveOutcomes : database' = SaveResult(map, outcome)
  BY DEF saveFingers
<1>2. outcome \in {"written", "notOpened", "truncated"}
  BY ConstantsAssumption
<1> QED
  BY <1>1, <1>2 DEF SaveResult, TypeOK

(* The loop of Remove finds the first key of a name, and only misses a     *)
(* name that is not listed.                                                *)
Less == OpToRel(<, Nat)

LEMMA LeastNumber ==
  ASSUME NEW T \in SUBSET Nat, T # {}
  PROVE  \E k \in T : \A j \in T : k <= j
<1>1. IsWellFoundedOn(Less, Nat)
  BY NatLessThanWellFounded DEF Less
<1>2. PICK k \in T : \A j \in T : ~(<<j, k>> \in Less)
  BY <1>1, WFMin
<1>3. ASSUME NEW i \in Nat, NEW j \in Nat, j < i PROVE <<j, i>> \in Less
  BY <1>3 DEF OpToRel, Less
<1>4. ASSUME NEW j \in T PROVE k <= j
  <2>1. ~(j < k)
    BY <1>2, <1>3, Zenon
  <2> QED
    BY <2>1
<1> QED
  BY <1>4

LEMMA KeyOfIsFirst ==
  ASSUME NEW map, NEW name
  PROVE  /\ KeyOf(map, name) \in FingerIds
         /\ \A k \in FingerIds : map[k] = name
              => map[KeyOf(map, name)] = name /\ KeyOf(map, name) <= k
<1> DEFINE T == {k \in FingerIds : map[k] = name}
<1>1. CASE T = {}
  BY <1>1 DEF KeyOf, FingerIds
<1>2. CASE T # {}
  <2>1. T \in SUBSET Nat
    <3>1. FingerIds \subseteq Nat
      BY ConstantsAssumption DEF FingerIds, NoFinger
    <3> QED
      BY <3>1
  <2>2. PICK first \in T : \A k \in T : first <= k
    BY <1>2, <2>1, LeastNumber
  <2> DEFINE First(k) == map[k] = name /\ \A j \in FingerIds : map[j] = name => k <= j
  <2>3. \E k \in FingerIds : First(k)
    BY <2>2
  <2>4. KeyOf(map, name) = CHOOSE k \in FingerIds : First(k)
    BY <2>3, Zenon DEF KeyOf
  <2>5. KeyOf(map, name) \in FingerIds /\ First(KeyOf(map, name))
    <3> HIDE DEF First
    <3> QED
      BY <2>3, <2>4, Zenon
  <2>6. ASSUME NEW k \in FingerIds, map[k] = name
        PROVE  map[KeyOf(map, name)] = name /\ KeyOf(map, name) <= k
    BY <2>5, <2>6
  <2> QED
    BY <2>5, <2>6, Zenon
<1> QED
  BY <1>1, <1>2

LEMMA MapWithFinger ==
  ASSUME NEW map \in FingerMaps, NEW finger \in FingerIds,
         NEW value \in Names \union {Absent}
  PROVE  [map EXCEPT ![finger] = value] \in FingerMaps
BY DEF FingerMaps

-----------------------------------------------------------------------------
(* Type correctness.                                                       *)

(* What the operators shared by the handlers leave behind.                 *)
OutputOK ==
  /\ m_state' \in States
  /\ m_dbusCaller' \in Clients \union {NoCaller}
  /\ \A s \in signals' : s.name \in SignalNames

LEMMA StartType ==
  ASSUME NEW state \in ClientStates, NEW caller \in Clients, NEW ret,
         NEW owner \in Clients \union {NoCaller},
         NEW more, \A s \in more : s.name \in SignalNames,
         Start(state, caller, ret, owner, more)
  PROVE  OutputOK
<1>1. \A from, to : \A s \in StateChanged(from, to) : s.name \in SignalNames
  BY DEF StateChanged, EmitWith, SignalNames
<1>2. \A s \in {EmitWith("ErrorInfo", ret), Emit("Failed")} : s.name \in SignalNames
  BY DEF Emit, EmitWith, SignalNames
<1> QED
  BY <1>1, <1>2 DEF Start, OutputOK, States

LEMMA GoIdleType ==
  ASSUME NEW more, \A s \in more : s.name \in SignalNames, GoIdle(more)
  PROVE  OutputOK
<1>1. \A from, to : \A s \in StateChanged(from, to) : s.name \in SignalNames
  BY DEF StateChanged, EmitWith, SignalNames
<1> QED
  BY <1>1 DEF GoIdle, OutputOK, States

LEMMA ReplyTypes ==
  ASSUME NEW caller \in Clients, NEW finger
  PROVE  /\ EnrollReply(caller, finger) \in Replies
         /\ IdentifyReply(caller) \in Replies
         /\ VerifyReply(caller) \in Replies
         /\ RemoveReply(caller, finger) \in Replies
         /\ AbortReply(caller) \in Replies
BY DEF EnrollReply, IdentifyReply, VerifyReply, RemoveReply, AbortReply, Replies

LEMMA ReturnType ==
  ASSUME NEW method \in Methods, NEW caller \in Clients, NEW code \in Replies,
         Return(method, caller, code)
  PROVE  reply' \in {NoReply} \union
                    [method : Methods, to : Clients, code : Replies]
BY DEF Return

LEMMA RefuseType ==
  ASSUME TypeOK, NEW method \in Methods, NEW caller \in Clients,
         NEW code \in Replies, Refuse(method, caller, code)
  PROVE  TypeOK'
BY ReturnType DEF Refuse, TypeOK, volatile

LEMMA TypeInit == Init => TypeOK
BY EmptyMapType, ConstantsAssumption
   DEF Init, TypeOK, StartState, States, AcquiredStates

LEMMA TypeOfMethods ==
  ASSUME TypeOK, NEW caller \in Clients, NEW ret \in Statuses,
         MethodCall(caller, ret)
  PROVE  TypeOK'
<1> USE DEF Methods
<1>0. "FPREPLY_STARTED" \in Replies /\ "void" \in Replies
  BY DEF Replies
<1>p. \A s \in {EmitWith("EnrollProgressChanged", 0)} : s.name \in SignalNames
  BY DEF EmitWith, SignalNames
<1>1. ASSUME NEW finger \in ClientNames, Enroll(caller, finger, ret)
      PROVE  TypeOK'
  <2>1. CASE EnrollReply(caller, finger) = "FPREPLY_STARTED"
    <3>1. OutputOK
      BY <1>1, <2>1, <1>p, StartType DEF Enroll, ClientStates
    <3>2. Return("Enroll", caller, "FPREPLY_STARTED")
      BY <1>1, <2>1 DEF Enroll
    <3>3. m_addingFinger' \in Names
      BY <1>1, <2>1, ConstantsAssumption DEF Enroll
    <3>4. UNCHANGED <<m_fingerMap, m_acquired, m_cancelTimer, database>>
      BY <1>1, <2>1 DEF Enroll
    <3> QED
      BY <3>1, <3>2, <3>3, <3>4, <1>0, ReturnType DEF OutputOK, TypeOK
  <2>2. CASE EnrollReply(caller, finger) # "FPREPLY_STARTED"
    BY <1>1, <2>2, RefuseType, ReplyTypes DEF Enroll
  <2> QED
    BY <2>1, <2>2
<1>2. CASE Identify(caller, ret)
  <2>1. CASE IdentifyReply(caller) = "FPREPLY_STARTED"
    <3>1. OutputOK
      BY <1>2, <2>1, StartType DEF Identify, ClientStates
    <3>2. Return("Identify", caller, "FPREPLY_STARTED") /\ m_cancelTimer' = TRUE
      BY <1>2, <2>1 DEF Identify, startTimer
    <3>3. UNCHANGED <<m_fingerMap, m_addingFinger, m_acquired, database>>
      BY <1>2, <2>1 DEF Identify
    <3> QED
      BY <3>1, <3>2, <3>3, <1>0, ReturnType DEF OutputOK, TypeOK
  <2>2. CASE IdentifyReply(caller) # "FPREPLY_STARTED"
    BY <1>2, <2>2, RefuseType, ReplyTypes DEF Identify
  <2> QED
    BY <2>1, <2>2
<1>3. CASE Clear(caller, ret)
  <2>1. CASE ClearAccepted(caller)
    <3>1. OutputOK
      BY <1>3, <2>1, StartType DEF Clear, ClientStates
    <3>2. /\ Return("Clear", caller, "void")
          /\ UNCHANGED <<m_fingerMap, m_addingFinger, m_acquired, m_cancelTimer,
                         database>>
      BY <1>3, <2>1 DEF Clear
    <3> QED
      BY <3>1, <3>2, <1>0, ReturnType DEF OutputOK, TypeOK
  <2>2. CASE ~ClearAccepted(caller)
    BY <1>3, <2>2, <1>0, RefuseType DEF Clear
  <2> QED
    BY <2>1, <2>2
<1>4. CASE Verify(caller, ret)
  <2>1. CASE VerifyReply(caller) = "FPREPLY_STARTED"
    <3>1. OutputOK
      BY <1>4, <2>1, <1>p, StartType DEF Verify, ClientStates
    <3>2. /\ Return("Verify", caller, "FPREPLY_STARTED")
          /\ UNCHANGED <<m_fingerMap, m_addingFinger, m_acquired, m_cancelTimer,
                         database>>
      BY <1>4, <2>1 DEF Verify
    <3> QED
      BY <3>1, <3>2, <1>0, ReturnType DEF OutputOK, TypeOK
  <2>2. CASE VerifyReply(caller) # "FPREPLY_STARTED"
    BY <1>4, <2>2, RefuseType, ReplyTypes DEF Verify
  <2> QED
    BY <2>1, <2>2
<1>5. ASSUME NEW finger \in ClientNames, Remove(caller, finger, ret)
      PROVE  TypeOK'
  <2>1. CASE RemoveReply(caller, finger) = "FPREPLY_STARTED"
    <3>1. OutputOK
      BY <1>5, <2>1, StartType DEF Remove, ClientStates
    <3>2. /\ Return("Remove", caller, "FPREPLY_STARTED")
          /\ UNCHANGED <<m_fingerMap, m_addingFinger, m_acquired, m_cancelTimer,
                         database>>
      BY <1>5, <2>1 DEF Remove
    <3> QED
      BY <3>1, <3>2, <1>0, ReturnType DEF OutputOK, TypeOK
  <2>2. CASE RemoveReply(caller, finger) # "FPREPLY_STARTED"
    BY <1>5, <2>2, RefuseType, ReplyTypes DEF Remove
  <2> QED
    BY <2>1, <2>2
<1>6. CASE Abort(caller)
  <2>1. CASE AbortReply(caller) = "FPREPLY_STARTED"
    <3>1. OutputOK
      <4>1. \A s \in {} \union {Emit("Aborted")} : s.name \in SignalNames
        BY DEF Emit, SignalNames
      <4> QED
        BY <1>6, <2>1, <4>1, GoIdleType DEF Abort, abort
    <3>2. /\ Return("Abort", caller, "FPREPLY_STARTED")
          /\ m_cancelTimer' = FALSE
          /\ UNCHANGED <<m_fingerMap, m_addingFinger, m_acquired, database>>
      BY <1>6, <2>1 DEF Abort, abort
    <3> QED
      BY <3>1, <3>2, <1>0, ReturnType DEF OutputOK, TypeOK
  <2>2. CASE AbortReply(caller) # "FPREPLY_STARTED"
    BY <1>6, <2>2, RefuseType, ReplyTypes DEF Abort
  <2> QED
    BY <2>1, <2>2
<1> QED
  BY <1>1, <1>2, <1>3, <1>4, <1>5, <1>6 DEF MethodCall

LEMMA TypeOfSlots ==
  ASSUME TypeOK, Slot
  PROVE  TypeOK'
<1>1. ASSUME NEW percent, slot_enrollProgress(percent)
      PROVE  TypeOK'
  <2>1. \A s \in {EmitWith("EnrollProgressChanged", percent)} :
          s.name \in SignalNames
    BY DEF EmitWith, SignalNames
  <2>2. OutputOK /\ m_cancelTimer' \in BOOLEAN
    <3>1. CASE m_state = "FPSTATE_VERIFYING"
      <4>1. \A s \in ({EmitWith("EnrollProgressChanged", percent)}
                        \union {Emit("Verified")}) \union {Emit("Aborted")} :
              s.name \in SignalNames
        BY <2>1 DEF Emit, SignalNames
      <4> QED
        BY <1>1, <3>1, <4>1, GoIdleType DEF slot_enrollProgress, abort
    <3>2. CASE m_state # "FPSTATE_VERIFYING"
      BY <1>1, <3>2, <2>1 DEF slot_enrollProgress, OutputOK, TypeOK
    <3> QED
      BY <3>1, <3>2
  <2>3. /\ reply' = NoReply
        /\ UNCHANGED <<m_fingerMap, m_addingFinger, m_acquired, database>>
    BY <1>1 DEF slot_enrollProgress
  <2> QED
    BY <2>2, <2>3 DEF OutputOK, TypeOK
<1>2. ASSUME NEW finger \in Fingers, slot_succeeded(finger)
      PROVE  TypeOK'
  <2>1. OutputOK
    <3>1. \A s \in {EmitWith("Added", m_addingFinger), Emit("ListChanged")} :
            s.name \in SignalNames
      BY DEF Emit, EmitWith, SignalNames
    <3> QED
      BY <1>2, <3>1, GoIdleType DEF slot_succeeded
  <2>2. m_fingerMap' \in FingerMaps
    BY <1>2, MapWithFinger DEF slot_succeeded, WithFinger, TypeOK, FingerIds
  <2>3. database' \in FingerMaps \union {Unreadable}
    BY <1>2, <2>2, SavedType DEF slot_succeeded
  <2>4. /\ reply' = NoReply
        /\ m_addingFinger' \in Names
        /\ UNCHANGED <<m_acquired, m_cancelTimer>>
    BY <1>2, ConstantsAssumption DEF slot_succeeded
  <2> QED
    BY <2>1, <2>2, <2>3, <2>4 DEF OutputOK, TypeOK
<1>3. ASSUME NEW message, slot_failed(message)
      PROVE  TypeOK'
  <2>1. OutputOK
    <3>1. \A s \in {EmitWith("ErrorInfo", message)} \union {Emit("Failed")} :
            s.name \in SignalNames
      BY DEF Emit, EmitWith, SignalNames
    <3>2. CASE UNCHANGED <<m_state, m_dbusCaller>>
               /\ signals' = {EmitWith("ErrorInfo", message)}
      BY <3>1, <3>2 DEF OutputOK, TypeOK
    <3>3. CASE GoIdle({EmitWith("ErrorInfo", message)} \union {Emit("Failed")})
      BY <3>1, <3>3, GoIdleType
    <3> QED
      BY <1>3, <3>2, <3>3 DEF slot_failed
  <2>2. /\ reply' = NoReply
        /\ UNCHANGED <<m_fingerMap, m_addingFinger, m_acquired, m_cancelTimer,
                       database>>
    BY <1>3 DEF slot_failed
  <2> QED
    BY <2>1, <2>2 DEF OutputOK, TypeOK
<1>4. ASSUME NEW info, slot_acquired(info)
      PROVE  TypeOK'
  <2>1. m_acquired' \in AcquiredStates
    BY <1>4 DEF slot_acquired, AcquiredState, AcquiredStates
  <2>2. \A s \in signals' : s.name \in SignalNames
    BY <1>4 DEF slot_acquired, EmitWith, SignalNames
  <2> QED
    BY <1>4, <2>1, <2>2 DEF slot_acquired, TypeOK
<1>5. ASSUME NEW finger \in FingerIds, slot_removed(finger)
      PROVE  TypeOK'
  <2>1. OutputOK
    <3>1. \A n : \A s \in {EmitWith("Removed", n)} : s.name \in SignalNames
      BY DEF EmitWith, SignalNames
    <3>2. Emit("ListChanged").name \in SignalNames
      BY DEF Emit, SignalNames
    <3>3. CASE GoIdle({EmitWith("Removed", NameAt(finger)), Emit("ListChanged")})
      BY <3>1, <3>2, <3>3, GoIdleType
    <3>4. CASE GoIdle({EmitWith("Removed", n) : n \in Values(m_fingerMap)}
                      \union {Emit("ListChanged")})
      BY <3>1, <3>2, <3>4, GoIdleType
    <3> QED
      BY <1>5, <3>3, <3>4 DEF slot_removed
  <2>2. m_fingerMap' \in FingerMaps
    BY <1>5, MapWithFinger, EmptyMapType DEF slot_removed, TypeOK
  <2>3. database' \in FingerMaps \union {Unreadable}
    BY <1>5, <2>2, SavedType DEF slot_removed
  <2>4. reply' = NoReply /\ UNCHANGED <<m_addingFinger, m_acquired, m_cancelTimer>>
    BY <1>5 DEF slot_removed
  <2> QED
    BY <2>1, <2>2, <2>3, <2>4 DEF OutputOK, TypeOK
<1>6. ASSUME NEW finger \in Fingers, slot_authenticated(finger)
      PROVE  TypeOK'
  <2>1. OutputOK
    <3>1. \A n : \A s \in {EmitWith("Identified", n)} : s.name \in SignalNames
      BY DEF EmitWith, SignalNames
    <3> QED
      BY <1>6, <3>1, GoIdleType DEF slot_authenticated
  <2>2. /\ reply' = NoReply
        /\ m_cancelTimer' = FALSE
        /\ UNCHANGED <<m_fingerMap, m_addingFinger, m_acquired, database>>
    BY <1>6 DEF slot_authenticated
  <2> QED
    BY <2>1, <2>2 DEF OutputOK, TypeOK
<1>7. ASSUME NEW fingers \in SUBSET Fingers, slot_enumerated(fingers)
      PROVE  TypeOK'
  <2>1. OutputOK
    <3>1. \A s \in {Emit("ListChanged")} : s.name \in SignalNames
      BY DEF Emit, SignalNames
    <3> QED
      BY <1>7, <3>1, GoIdleType DEF slot_enumerated
  <2>2. m_fingerMap' \in FingerMaps
    BY <1>7, LoadedMapKeys DEF slot_enumerated
  <2>3. database' \in FingerMaps \union {Unreadable}
    BY <1>7, <2>2, SavedType DEF slot_enumerated
  <2>4. reply' = NoReply /\ UNCHANGED <<m_addingFinger, m_acquired, m_cancelTimer>>
    BY <1>7 DEF slot_enumerated
  <2> QED
    BY <2>1, <2>2, <2>3, <2>4 DEF OutputOK, TypeOK
<1>8. CASE slot_cancelIdentify
  <2>1. OutputOK
    <3>1. \A s \in {Emit("Failed")} : s.name \in SignalNames
      BY DEF Emit, SignalNames
    <3> QED
      BY <1>8, <3>1, GoIdleType DEF slot_cancelIdentify
  <2>2. /\ reply' = NoReply
        /\ m_cancelTimer' = FALSE
        /\ UNCHANGED <<m_fingerMap, m_addingFinger, m_acquired, database>>
    BY <1>8 DEF slot_cancelIdentify
  <2> QED
    BY <2>1, <2>2 DEF OutputOK, TypeOK
<1> QED
  BY <1>1, <1>2, <1>3, <1>4, <1>5, <1>6, <1>7, <1>8 DEF Slot

LEMMA TypeOfRestart ==
  ASSUME TypeOK, NEW ret, NEW file \in {database, Unreadable},
         Restart(ret, file)
  PROVE  TypeOK'
BY EmptyMapType, ConstantsAssumption
   DEF Restart, StartState, TypeOK, States, AcquiredStates

LEMMA TypeStep == TypeOK /\ [Next]_vars => TypeOK'
<1> SUFFICES ASSUME TypeOK, [Next]_vars PROVE TypeOK'
  OBVIOUS
<1>1. CASE Next
  <2>1. CASE Elsewhere
    BY <2>1 DEF Elsewhere, volatile, TypeOK
  <2> QED
    BY <1>1, <2>1, TypeOfMethods, TypeOfSlots, TypeOfRestart DEF Next
<1>2. CASE UNCHANGED vars
  BY <1>2 DEF vars, volatile, output, TypeOK
<1> QED
  BY <1>1, <1>2

(* The daemon's variables always have their types: no id becomes a key     *)
(* that the map cannot hold, whatever the sensor sends.                    *)
THEOREM TypeCorrect == Spec => []TypeOK
BY TypeInit, TypeStep, PTL DEF Spec

-----------------------------------------------------------------------------
(* Every step does one of four things to the operation and its owner.      *)

Begins(caller) ==
  \E state \in ClientStates :
    /\ m_state = "FPSTATE_IDLE"
    /\ m_state' = state
    /\ m_dbusCaller' = caller
    /\ state = "FPSTATE_IDENTIFYING" => m_cancelTimer'

Ends == m_state' = "FPSTATE_IDLE"

Keeps ==
  /\ UNCHANGED <<m_state, m_dbusCaller>>
  /\ m_state = "FPSTATE_IDENTIFYING" => m_cancelTimer' = m_cancelTimer

StartsOver ==
  /\ m_state' \in {"FPSTATE_ENUMERATING", "FPSTATE_IDLE"}
  /\ m_dbusCaller' = NoCaller

LEMMA StartBegins ==
  ASSUME NEW state \in ClientStates, NEW caller \in Clients, NEW ret, NEW owner,
         NEW more, Start(state, caller, ret, owner, more),
         m_state = "FPSTATE_IDLE",
         state = "FPSTATE_IDENTIFYING" => m_cancelTimer'
  PROVE  Begins(caller) \/ Ends
BY DEF Start, Begins, Ends

LEMMA RefuseKeeps ==
  ASSUME NEW method, NEW caller, NEW code, Refuse(method, caller, code)
  PROVE  Keeps
BY DEF Refuse, Keeps, volatile

LEMMA MethodKinds ==
  ASSUME NEW caller \in Clients, NEW ret \in Statuses, MethodCall(caller, ret)
  PROVE  Begins(caller) \/ Ends \/ Keeps
<1> USE DEF ClientStates
<1>1. ASSUME NEW finger \in ClientNames, Enroll(caller, finger, ret)
      PROVE  Begins(caller) \/ Ends \/ Keeps
  <2>1. CASE EnrollReply(caller, finger) = "FPREPLY_STARTED"
    BY <1>1, <2>1, StartBegins DEF Enroll, EnrollReply
  <2>2. CASE EnrollReply(caller, finger) # "FPREPLY_STARTED"
    BY <1>1, <2>2, RefuseKeeps DEF Enroll
  <2> QED
    BY <2>1, <2>2
<1>2. CASE Identify(caller, ret)
  <2>1. CASE IdentifyReply(caller) = "FPREPLY_STARTED"
    BY <1>2, <2>1, StartBegins DEF Identify, IdentifyReply, startTimer
  <2>2. CASE IdentifyReply(caller) # "FPREPLY_STARTED"
    BY <1>2, <2>2, RefuseKeeps DEF Identify
  <2> QED
    BY <2>1, <2>2
<1>3. CASE Clear(caller, ret)
  BY <1>3, StartBegins, RefuseKeeps DEF Clear, ClearAccepted
<1>4. CASE Verify(caller, ret)
  <2>1. CASE VerifyReply(caller) = "FPREPLY_STARTED"
    BY <1>4, <2>1, StartBegins DEF Verify, VerifyReply
  <2>2. CASE VerifyReply(caller) # "FPREPLY_STARTED"
    BY <1>4, <2>2, RefuseKeeps DEF Verify
  <2> QED
    BY <2>1, <2>2
<1>5. ASSUME NEW finger \in ClientNames, Remove(caller, finger, ret)
      PROVE  Begins(caller) \/ Ends \/ Keeps
  <2>1. CASE RemoveReply(caller, finger) = "FPREPLY_STARTED"
    BY <1>5, <2>1, StartBegins DEF Remove, RemoveReply
  <2>2. CASE RemoveReply(caller, finger) # "FPREPLY_STARTED"
    BY <1>5, <2>2, RefuseKeeps DEF Remove
  <2> QED
    BY <2>1, <2>2
<1>6. CASE Abort(caller)
  BY <1>6, RefuseKeeps DEF Abort, abort, GoIdle, Ends
<1> QED
  BY <1>1, <1>2, <1>3, <1>4, <1>5, <1>6 DEF MethodCall

LEMMA SlotKinds ==
  ASSUME Slot
  PROVE  Ends \/ Keeps
<1>1. ASSUME NEW percent, slot_enrollProgress(percent) PROVE Ends \/ Keeps
  BY <1>1 DEF slot_enrollProgress, abort, GoIdle, Ends, Keeps
<1>2. ASSUME NEW finger, slot_succeeded(finger) PROVE Ends
  BY <1>2 DEF slot_succeeded, GoIdle, Ends
<1>3. ASSUME NEW message, slot_failed(message) PROVE Ends \/ Keeps
  BY <1>3 DEF slot_failed, GoIdle, Ends, Keeps
<1>4. ASSUME NEW info, slot_acquired(info) PROVE Keeps
  BY <1>4 DEF slot_acquired, Keeps
<1>5. ASSUME NEW finger, slot_removed(finger) PROVE Ends
  BY <1>5 DEF slot_removed, GoIdle, Ends
<1>6. ASSUME NEW finger, slot_authenticated(finger) PROVE Ends
  BY <1>6 DEF slot_authenticated, GoIdle, Ends
<1>7. ASSUME NEW fingers, slot_enumerated(fingers) PROVE Ends
  BY <1>7 DEF slot_enumerated, GoIdle, Ends
<1>8. CASE slot_cancelIdentify
  BY <1>8 DEF slot_cancelIdentify, GoIdle, Ends
<1> QED
  BY <1>1, <1>2, <1>3, <1>4, <1>5, <1>6, <1>7, <1>8 DEF Slot

LEMMA StepKinds ==
  ASSUME [Next]_vars
  PROVE  \/ \E caller \in Clients : Begins(caller)
         \/ Ends \/ Keeps \/ StartsOver
<1>1. ASSUME NEW ret, NEW file, Restart(ret, file) PROVE StartsOver
  BY <1>1 DEF Restart, StartState, StartsOver
<1>2. CASE UNCHANGED vars
  BY <1>2 DEF vars, volatile, Keeps
<1>3. CASE Elsewhere
  BY <1>3 DEF Elsewhere, volatile, Keeps
<1> QED
  BY <1>1, <1>2, <1>3, MethodKinds, SlotKinds DEF Next

-----------------------------------------------------------------------------
(* The owner and the time limit.                                           *)

(* An operation of a client has its owner from the method that starts it   *)
(* to the signal that ends it, and Identify has its timer for as long,     *)
(* although slot_failed never looks at the timer and slot_cancelIdentify   *)
(* never looks at the state.                                               *)
THEOREM OperationsAreOwnedAndTimed == Spec => [](BusyHasOwner /\ IdentifyingIsTimed)
<1> DEFINE Inv == BusyHasOwner /\ IdentifyingIsTimed
<1>0. Init => Inv
  BY DEF Init, StartState, BusyHasOwner, IdentifyingIsTimed, ClientStates
<1>1. Inv /\ [Next]_vars => Inv'
  <2> SUFFICES ASSUME Inv, [Next]_vars PROVE Inv'
    OBVIOUS
  <2> USE DEF BusyHasOwner, IdentifyingIsTimed, ClientStates
  <2>1. CASE \E caller \in Clients : Begins(caller)
    BY <2>1 DEF Begins
  <2>2. CASE Ends
    BY <2>2 DEF Ends
  <2>3. CASE Keeps
    BY <2>3 DEF Keeps
  <2>4. CASE StartsOver
    BY <2>4 DEF StartsOver
  <2> QED
    BY <2>1, <2>2, <2>3, <2>4, StepKinds
<1> QED
  BY <1>0, <1>1, PTL DEF Spec

(* In particular no Identify can outlast its time limit.                   *)
THEOREM IdentifyingHasItsLimit == Spec => []IdentifyingIsTimed
BY OperationsAreOwnedAndTimed, PTL

-----------------------------------------------------------------------------
(* The list on disk.                                                       *)

LEMMA WrittenIsMap ==
  ASSUME NEW map, saveFingers(map), SaveOutcomes = {"written"}
  PROVE  database' = map
BY DEF saveFingers, SaveResult

(* Only three slots and a restart touch the list or the file.              *)
LEMMA ListKept ==
  ASSUME NEW caller, NEW ret, MethodCall(caller, ret)
  PROVE  UNCHANGED <<m_fingerMap, database>>
BY DEF MethodCall, Enroll, Identify, Clear, Verify, Remove, Abort, Refuse, volatile

(* With a disk that takes the writes, no handler leaves a list behind that *)
(* is not also in the file, so a crash between handlers loses no name.     *)
THEOREM ListIsOnDisk == Spec => []MapIsSaved
<1>1. Init => MapIsSaved
  BY DEF Init, MapIsSaved
<1>2. MapIsSaved /\ [Next]_vars => MapIsSaved'
  <2> SUFFICES ASSUME MapIsSaved, [Next]_vars, SaveOutcomes = {"written"}
               PROVE  m_fingerMap' = EmptyMap \/ database' = m_fingerMap'
    BY DEF MapIsSaved, EmptyMap
  <2>k. ASSUME UNCHANGED <<m_fingerMap, database>>
        PROVE  m_fingerMap' = EmptyMap \/ database' = m_fingerMap'
    BY <2>k DEF MapIsSaved
  <2>1. ASSUME NEW caller, NEW ret, MethodCall(caller, ret)
        PROVE  UNCHANGED <<m_fingerMap, database>>
    BY <2>1, ListKept
  <2>2. ASSUME NEW finger, slot_succeeded(finger)
        PROVE  database' = m_fingerMap'
    BY <2>2, WrittenIsMap DEF slot_succeeded
  <2>3. ASSUME NEW finger, slot_removed(finger)
        PROVE  database' = m_fingerMap'
    BY <2>3, WrittenIsMap DEF slot_removed
  <2>4. ASSUME NEW fingers, slot_enumerated(fingers)
        PROVE  database' = m_fingerMap'
    BY <2>4, WrittenIsMap DEF slot_enumerated
  <2>5. ASSUME NEW arg, \/ slot_enrollProgress(arg)
                        \/ slot_failed(arg)
                        \/ slot_acquired(arg)
                        \/ slot_authenticated(arg)
                        \/ slot_cancelIdentify
        PROVE  UNCHANGED <<m_fingerMap, database>>
    BY <2>5 DEF slot_enrollProgress, slot_failed, slot_acquired,
                slot_authenticated, slot_cancelIdentify
  <2>6. ASSUME NEW ret, NEW file, Restart(ret, file)
        PROVE  m_fingerMap' = EmptyMap
    BY <2>6 DEF Restart
  <2>7. CASE UNCHANGED vars
    BY <2>7, <2>k DEF vars, volatile
  <2>8. CASE Slot
    BY <2>8, <2>k, <2>2, <2>3, <2>4, <2>5 DEF Slot
  <2>9. CASE Elsewhere
    BY <2>9, <2>k DEF Elsewhere, volatile
  <2> QED
    BY <2>k, <2>1, <2>6, <2>7, <2>8, <2>9 DEF Next
<1> QED
  BY <1>1, <1>2, PTL DEF Spec

-----------------------------------------------------------------------------
(* What a step may never do.                                               *)

LEMMA MethodOfOther ==
  ASSUME NEW caller \in Clients, NEW ret, MethodCall(caller, ret),
         BusyByOther(caller)
  PROVE  UNCHANGED <<volatile, database>> /\ signals' = {}
BY DEF MethodCall, Enroll, Identify, Clear, Verify, Remove, Abort, Refuse,
       EnrollReply, IdentifyReply, VerifyReply, RemoveReply, AbortReply,
       ClearAccepted

LEMMA MethodReplies ==
  ASSUME NEW caller \in Clients, NEW ret, MethodCall(caller, ret)
  PROVE  reply'.to = caller /\ reply' # NoReply
<1>1. reply'.to = caller /\ reply'.method \in Methods
  BY DEF MethodCall, Enroll, Identify, Clear, Verify, Remove, Abort, Refuse,
         Return, Methods
<1>2. NoReply.method = "none" /\ "none" \notin Methods
  BY DEF NoReply, Methods
<1> QED
  BY <1>1, <1>2

LEMMA SlotReplies ==
  ASSUME Slot PROVE reply' = NoReply
BY DEF Slot, slot_enrollProgress, slot_succeeded, slot_failed, slot_acquired,
       slot_removed, slot_authenticated, slot_cancelIdentify, slot_enumerated

(* A client whose operation runs is never disturbed by the calls of other  *)
(* clients, in any state the daemon can get into.                          *)
THEOREM OwnerIsUndisturbed == Spec => OthersCannotInterfere
<1>1. [Next]_vars => [ /\ reply' # NoReply
                       /\ m_dbusCaller # NoCaller
                       /\ reply'.to # m_dbusCaller
                       => UNCHANGED <<volatile, database>> /\ signals' = {} ]_vars
  <2> SUFFICES ASSUME Next, reply' # NoReply, m_dbusCaller # NoCaller,
                      reply'.to # m_dbusCaller
               PROVE  UNCHANGED <<volatile, database>> /\ signals' = {}
    OBVIOUS
  <2>1. ASSUME NEW caller \in Clients, NEW ret, MethodCall(caller, ret)
        PROVE  UNCHANGED <<volatile, database>> /\ signals' = {}
    BY <2>1, MethodOfOther, MethodReplies DEF BusyByOther
  <2>2. ~Slot
    BY SlotReplies
  <2>3. ASSUME NEW ret, NEW file PROVE ~Restart(ret, file)
    BY DEF Restart
  <2> QED
    BY <2>1, <2>2, <2>3 DEF Next, Elsewhere
<1> QED
  BY <1>1, PTL DEF Spec, OthersCannotInterfere

(* The daemon implements the session: an operation begins only when        *)
(* nothing goes on, belongs to the client whose call began it until it     *)
(* ends, and no call of another client ends it, whatever the sensor does.  *)
LEMMA CallsInSession ==
  ASSUME TypeOK, BusyHasOwner, NEW client \in Clients, NEW ret \in Statuses,
         MethodCall(client, ret)
  PROVE  \/ \E kind \in ClientStates : Session!Begin(client, kind)
         \/ Session!Cancel(client)
         \/ Session!Answer(client)
<1> USE DEF SessionOwner
<1>0. reply' # NoReply /\ reply'.to = client
  BY MethodReplies
<1>1. CASE BusyByOther(client)
  BY <1>0, <1>1, MethodOfOther DEF Session!Answer, volatile
<1>2. CASE ~BusyByOther(client)
  <2>1. CASE Begins(client)
    BY <1>0, <2>1 DEF Begins, Session!Begin, ClientStates
  <2>2. CASE Ends /\ m_state = "FPSTATE_IDLE"
    BY <1>0, <2>2 DEF Ends, Session!Answer
  <2>3. CASE Ends /\ m_state = "FPSTATE_ENUMERATING"
    BY <1>0, <2>3 DEF Ends, Session!Cancel
  <2>4. CASE Ends /\ m_state \in ClientStates
    <3>1. m_dbusCaller = client /\ m_state # "FPSTATE_IDLE"
      BY <1>2, <2>4, ConstantsAssumption DEF BusyByOther, BusyHasOwner, ClientStates
    <3> QED
      BY <1>0, <2>4, <3>1 DEF Ends, Session!Cancel
  <2>5. CASE Keeps
    BY <1>0, <2>5 DEF Keeps, Session!Answer
  <2> QED
    BY <2>1, <2>2, <2>3, <2>4, <2>5, MethodKinds DEF TypeOK, States
<1> QED
  BY <1>1, <1>2

(* Of all calls only the owner's can end an operation of a client; what    *)
(* else ends it is a step of the daemon, in which nobody calls.            *)
THEOREM Refinement == Spec => ImplementsSession
<1>1. Init => Session!Init
  BY DEF Init, StartState, Session!Init, SessionOwner
<1>2. TypeOK /\ BusyHasOwner /\ [Next]_vars => [Session!Next]_(Session!session)
  <2> SUFFICES ASSUME TypeOK, BusyHasOwner, [Next]_vars
               PROVE  [Session!Next]_(Session!session)
    OBVIOUS
  <2> USE DEF Session!Next, Session!session
  <2>1. ASSUME NEW caller \in Clients, NEW ret \in Statuses,
               MethodCall(caller, ret)
        PROVE  Session!Next
    BY <2>1, CallsInSession
  <2>2. CASE Slot
    BY <2>2, SlotReplies, SlotKinds
       DEF Ends, Keeps, Session!Finish, Session!Proceed, SessionOwner
  <2>3. CASE Elsewhere
    BY <2>3 DEF Elsewhere, volatile, Session!Proceed, SessionOwner
  <2>4. ASSUME NEW ret, NEW file, Restart(ret, file)
        PROVE  Session!Reset
    BY <2>4 DEF Restart, StartState, Session!Reset, SessionOwner
  <2>5. CASE UNCHANGED vars
    BY <2>5 DEF vars, volatile, output, SessionOwner
  <2> QED
    BY <2>1, <2>2, <2>3, <2>4, <2>5 DEF Next
<1> QED
  BY <1>1, <1>2, TypeCorrect, OperationsAreOwnedAndTimed, PTL
     DEF Spec, ImplementsSession, Session!Spec

(* A start that fails on the spot is told by slot_failed.                  *)
LEMMA FailedStartIsTold ==
  ASSUME NEW state \in ClientStates, NEW caller, NEW ret, NEW owner, NEW more,
         Start(state, caller, ret, owner, more), m_state' = "FPSTATE_IDLE"
  PROVE  Announced'
<1>1. Emit("Failed") \in signals'
  BY DEF Start, ClientStates
<1> QED
  BY <1>1 DEF Announced, Emit

LEMMA AnnouncedBy ==
  ASSUME NEW more, GoIdle(more),
         \E s \in more :
           s.name \in {"Failed", "Aborted", "Identified", "ListChanged"}
  PROVE  Announced'
BY DEF GoIdle, Announced

(* Nothing that was going on ends in silence: Failed, Aborted, Identified  *)
(* or ListChanged is sent by the very step in which it ends, whatever the  *)
(* sensor answers, except when the process dies; and a method that cannot  *)
(* start what it was asked for tells so, whatever its reply says.          *)
THEOREM EndsAreAnnounced == Spec => EndIsAnnounced
<1>1. [Next]_vars =>
        [ (m_state # "FPSTATE_IDLE" \/ Accepted) /\ m_state' = "FPSTATE_IDLE"
          => Announced' \/ NewProcess ]_vars
  <2> SUFFICES ASSUME Next, m_state # "FPSTATE_IDLE" \/ Accepted,
                      m_state' = "FPSTATE_IDLE", ~NewProcess
               PROVE  Announced'
    OBVIOUS
  <2> USE DEF Emit, EmitWith
  <2>1. ASSUME NEW caller \in Clients, NEW ret \in Statuses,
               MethodCall(caller, ret)
        PROVE  Announced'
    <3> USE DEF ClientStates
    <3>0. reply'.to = caller
      BY <2>1, MethodReplies
    <3>1. ASSUME NEW finger \in ClientNames, Enroll(caller, finger, ret)
          PROVE  Announced'
      BY <3>1, FailedStartIsTold
         DEF Enroll, EnrollReply, Refuse, Return, Accepted, volatile
    <3>2. CASE Identify(caller, ret)
      BY <3>2, FailedStartIsTold
         DEF Identify, IdentifyReply, Refuse, Return, Accepted, volatile
    <3>3. CASE Clear(caller, ret)
      BY <3>0, <3>3, FailedStartIsTold
         DEF Clear, ClearAccepted, Refuse, Return, Accepted, volatile
    <3>4. CASE Verify(caller, ret)
      BY <3>4, FailedStartIsTold
         DEF Verify, VerifyReply, Refuse, Return, Accepted, volatile
    <3>5. ASSUME NEW finger \in ClientNames, Remove(caller, finger, ret)
          PROVE  Announced'
      BY <3>5, FailedStartIsTold
         DEF Remove, RemoveReply, Refuse, Return, Accepted, volatile
    <3>6. CASE Abort(caller)
      <4>1. ~Accepted
        BY <3>6 DEF Abort, Refuse, Return, Accepted
      <4>2. abort({})
        BY <3>6, <4>1 DEF Abort, Refuse, volatile
      <4> QED
        BY <4>2, AnnouncedBy DEF abort
    <3> QED
      BY <2>1, <3>1, <3>2, <3>3, <3>4, <3>5, <3>6 DEF MethodCall
  <2>n. ASSUME reply' = NoReply PROVE ~Accepted
    BY <2>n DEF Accepted, NoReply
  <2>2. ASSUME NEW percent, slot_enrollProgress(percent) PROVE Announced'
    <3> DEFINE progress == {EmitWith("EnrollProgressChanged", percent)}
    <3>1. /\ m_state = "FPSTATE_VERIFYING"
          /\ GoIdle((progress \union {Emit("Verified")}) \union {Emit("Aborted")})
      BY <2>2, <2>n DEF slot_enrollProgress, abort
    <3>2. \E s \in (progress \union {Emit("Verified")}) \union {Emit("Aborted")} :
            s.name \in {"Failed", "Aborted", "Identified", "ListChanged"}
      OBVIOUS
    <3> QED
      BY <3>1, <3>2, AnnouncedBy
  <2>3. ASSUME NEW finger, slot_succeeded(finger) PROVE Announced'
    BY <2>3, AnnouncedBy DEF slot_succeeded
  <2>4. ASSUME NEW message, slot_failed(message) PROVE Announced'
    <3>1. GoIdle({EmitWith("ErrorInfo", message)} \union {Emit("Failed")})
      BY <2>4, <2>n DEF slot_failed
    <3>2. \E s \in {EmitWith("ErrorInfo", message)} \union {Emit("Failed")} :
            s.name \in {"Failed", "Aborted", "Identified", "ListChanged"}
      OBVIOUS
    <3> QED
      BY <3>1, <3>2, AnnouncedBy
  <2>5. ASSUME NEW info, slot_acquired(info) PROVE FALSE
    BY <2>5, <2>n DEF slot_acquired
  <2>6. ASSUME NEW finger, slot_removed(finger) PROVE Announced'
    <3>1. PICK more : GoIdle(more) /\ Emit("ListChanged") \in more
      <4>1. Emit("ListChanged") \in {EmitWith("Removed", NameAt(finger)),
                                     Emit("ListChanged")}
        OBVIOUS
      <4>2. Emit("ListChanged") \in
              {EmitWith("Removed", n) : n \in Values(m_fingerMap)}
              \union {Emit("ListChanged")}
        OBVIOUS
      <4> QED
        BY <2>6, <4>1, <4>2 DEF slot_removed
    <3> QED
      BY <3>1, AnnouncedBy
  <2>7. ASSUME NEW finger, slot_authenticated(finger) PROVE Announced'
    BY <2>7, AnnouncedBy DEF slot_authenticated
  <2>8. ASSUME NEW fingers, slot_enumerated(fingers) PROVE Announced'
    BY <2>8, AnnouncedBy DEF slot_enumerated
  <2>9. CASE slot_cancelIdentify
    BY <2>9, AnnouncedBy DEF slot_cancelIdentify
  <2>10. CASE Slot
    BY <2>10, <2>2, <2>3, <2>4, <2>5, <2>6, <2>7, <2>8, <2>9 DEF Slot
  <2>11. ~Elsewhere
    BY <2>n DEF Elsewhere, volatile
  <2> QED
    BY <2>1, <2>10, <2>11 DEF Next, NewProcess
<1> QED
  BY <1>1, PTL DEF Spec, EndIsAnnounced

-----------------------------------------------------------------------------
(* What clients can learn of the list.                                     *)

(* One step that tells of everything, and one as ListFollowsSignals wants  *)
(* it, but for a new process.                                              *)
Tells ==
  /\ m_fingerMap' # m_fingerMap => Emit("ListChanged") \in signals'
  /\ \A k \in FingerIds : Told(k)

FollowsSignals ==
  /\ m_fingerMap' # m_fingerMap => Emit("ListChanged") \in signals'
  /\ \/ \E fingers \in SUBSET Fingers : slot_enumerated(fingers)
     \/ \A k \in FingerIds : Told(k) \/ Replaces(k)

LEMMA KeptListTells ==
  ASSUME UNCHANGED m_fingerMap
  PROVE  Tells
BY DEF Tells, Told

(* slot_succeeded tells of all but the name that its template had before.  *)
LEMMA SucceededTells ==
  ASSUME TypeOK, NEW finger \in Fingers, slot_succeeded(finger)
  PROVE  /\ Emit("ListChanged") \in signals'
         /\ \A k \in FingerIds : Told(k) \/ (k = finger /\ k \in Keys(m_fingerMap))
<1>1. /\ m_fingerMap' = [m_fingerMap EXCEPT ![finger] = m_addingFinger]
      /\ EmitWith("Added", m_addingFinger) \in signals'
      /\ Emit("ListChanged") \in signals'
  BY DEF slot_succeeded, WithFinger, GoIdle
<1>2. /\ m_fingerMap \in [FingerIds -> Names \union {Absent}]
      /\ m_addingFinger \in Names
      /\ Absent \notin Names
      /\ finger \in FingerIds
  BY ConstantsAssumption DEF TypeOK, FingerMaps, FingerIds
<1>3. ASSUME NEW k \in FingerIds
      PROVE  Told(k) \/ (k = finger /\ k \in Keys(m_fingerMap))
  <2>1. CASE k = finger /\ m_fingerMap[k] # Absent
    BY <1>2, <2>1 DEF Keys
  <2>2. CASE k = finger /\ m_fingerMap[k] = Absent
    BY <1>1, <1>2, <2>2 DEF Told
  <2>3. CASE k # finger
    BY <1>1, <1>2, <2>3 DEF Told
  <2> QED
    BY <2>1, <2>2, <2>3
<1> QED
  BY <1>1, <1>3

(* The name is read before the entry goes.                                 *)
LEMMA RemovedTells ==
  ASSUME TypeOK, NEW finger \in FingerIds, slot_removed(finger)
  PROVE  Tells
<1>1. m_fingerMap \in [FingerIds -> Names \union {Absent}]
  BY DEF TypeOK, FingerMaps
<1>2. CASE finger # NoFinger
  <2>1. /\ m_fingerMap' = [m_fingerMap EXCEPT ![finger] = Absent]
        /\ EmitWith("Removed", NameAt(finger)) \in signals'
        /\ Emit("ListChanged") \in signals'
    BY <1>2 DEF slot_removed, GoIdle
  <2>2. \A k \in FingerIds : Told(k)
    BY <1>1, <2>1 DEF Told, NameAt
  <2> QED
    BY <2>1, <2>2 DEF Tells
<1>3. CASE finger = NoFinger
  <2>1. /\ m_fingerMap' = EmptyMap
        /\ \A n \in Values(m_fingerMap) : EmitWith("Removed", n) \in signals'
        /\ Emit("ListChanged") \in signals'
    BY <1>3 DEF slot_removed, GoIdle
  <2>2. \A k \in FingerIds : m_fingerMap'[k] = Absent
    BY <2>1 DEF EmptyMap
  <2>3. \A k \in FingerIds : m_fingerMap[k] # Absent
          => m_fingerMap[k] \in Values(m_fingerMap)
    BY DEF Values, Keys
  <2>4. \A k \in FingerIds : Told(k)
    BY <2>1, <2>2, <2>3 DEF Told
  <2> QED
    BY <2>1, <2>4 DEF Tells
<1> QED
  BY <1>2, <1>3

(* Every change of the list is told, and every name that comes or goes by  *)
(* name, except for the list that is loaded and for the name of a template *)
(* whose id the sensor gives to another one.                               *)
THEOREM SignalsTellTheList == Spec => ListFollowsSignals
<1>1. TypeOK /\ [Next]_vars => [NewProcess \/ FollowsSignals]_vars
  <2> SUFFICES ASSUME TypeOK, Next, ~NewProcess PROVE FollowsSignals
    OBVIOUS
  <2>0. Tells => FollowsSignals
    BY DEF Tells, FollowsSignals
  <2>1. ASSUME NEW caller, NEW ret, MethodCall(caller, ret)
        PROVE  FollowsSignals
    BY <2>0, <2>1, ListKept, KeptListTells
  <2>2. ASSUME NEW arg, \/ slot_enrollProgress(arg)
                        \/ slot_failed(arg)
                        \/ slot_acquired(arg)
                        \/ slot_authenticated(arg)
                        \/ slot_cancelIdentify
        PROVE  FollowsSignals
    BY <2>0, <2>2, KeptListTells
    DEF slot_enrollProgress, slot_failed, slot_acquired, slot_authenticated,
        slot_cancelIdentify
  <2>3. ASSUME NEW fingers \in SUBSET Fingers, slot_enumerated(fingers)
        PROVE  FollowsSignals
    BY <2>3 DEF slot_enumerated, GoIdle, FollowsSignals
  <2>4. ASSUME NEW finger \in Fingers, slot_succeeded(finger)
        PROVE  FollowsSignals
    BY <2>4, SucceededTells DEF FollowsSignals, Replaces
  <2>5. CASE Slot
    BY <2>0, <2>2, <2>3, <2>4, <2>5, RemovedTells DEF Slot
  <2>6. CASE Elsewhere
    BY <2>0, <2>6, KeptListTells DEF Elsewhere, volatile
  <2> QED
    BY <2>1, <2>5, <2>6 DEF Next, NewProcess
<1>2. [NewProcess \/ FollowsSignals]_vars <=>
        [ \/ NewProcess
          \/ /\ m_fingerMap' # m_fingerMap => Emit("ListChanged") \in signals'
             /\ \/ \E fingers \in SUBSET Fingers : slot_enumerated(fingers)
                \/ \A k \in FingerIds : Told(k) \/ Replaces(k) ]_vars
  BY DEF FollowsSignals
<1> QED
  BY <1>1, <1>2, TypeCorrect, PTL DEF Spec, ListFollowsSignals
=============================================================================
