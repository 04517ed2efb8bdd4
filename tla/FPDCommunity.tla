---------------------------- MODULE FPDCommunity ----------------------------
(***************************************************************************)
(* The fingerprint daemon object: class FPDCommunity of fpdcommunity.cpp.  *)
(*                                                                         *)
(* It runs on the Qt main thread only.  An action below is one whole       *)
(* handler: a D-Bus method, a slot or the constructor of a new process.    *)
(* Nothing interleaves with a handler, because FPDCommunity's own state is *)
(* touched by the main thread alone.                                       *)
(*                                                                         *)
(* The module is open: the status `ret` with which the adapter's call into *)
(* the sensor library returns, and the arguments of the adapter's signals, *)
(* are parameters.  Next lets them take any value at any time, so what is  *)
(* proved from Spec holds whatever the sensor does.                        *)
(***************************************************************************)
EXTENDS Integers, FiniteSets

CONSTANTS
  Clients,        \* unique bus names of the callers (message.service())
  NoCaller,       \* the empty m_dbusCaller
  Fingers,        \* ids the sensor gives to templates: uint32_t, never 0
  Names,          \* the strings a template can be listed under
  ClientNames,    \* those of them that clients pass to Enroll and Remove
  UnknownName,    \* "Unknown %1", for each id
  Absent,         \* "this id is not a key of the map"
  Unreadable,     \* database file that is missing, empty or cut short
  SaveOutcomes,   \* what saving may do: written, notOpened, truncated
  AcquiredInfos,  \* ACQUIRED_* values the adapter sends on
  Percents        \* values of the progress of an enrolment

NoFinger == 0
FingerIds == Fingers \union {NoFinger}
EmptyName == ""
Statuses == {"SYS_OK", "SYS_ERROR"}  \* UHardwareBiometryRequestStatus, 0 or not

ASSUME ConstantsAssumption ==
  /\ Fingers \subseteq Nat \ {NoFinger}
  /\ NoCaller \notin Clients
  /\ EmptyName \in Names
  /\ ClientNames \subseteq Names
  /\ UnknownName \in [FingerIds -> Names]
  /\ Absent \notin Names
  /\ SaveOutcomes \subseteq {"written", "notOpened", "truncated"}
  /\ SaveOutcomes # {}

FingerMaps == [FingerIds -> Names \union {Absent}]   \* QMap<uint32_t, QString>

ASSUME UnreadableAssumption == Unreadable \notin FingerMaps

VARIABLES
  m_state,         \* FPSTATE_*
  m_dbusCaller,    \* the client that the current operation belongs to
  m_fingerMap,     \* the list of templates, id -> name
  m_addingFinger,  \* the name the running enrolment was asked for
  m_acquired,      \* the last FPACQUIRED_* sent out
  m_cancelTimer,   \* is the 30 s single shot timer of Identify running?
  database,        \* content of fingerprints.db
  reply,           \* the method return of the last step
  signals          \* the D-Bus signals of the last step

volatile == <<m_state, m_dbusCaller, m_fingerMap, m_addingFinger, m_acquired,
              m_cancelTimer>>
output == <<reply, signals>>
vars == <<volatile, database, output>>

ClientStates == {"FPSTATE_ENROLLING", "FPSTATE_IDENTIFYING",
                 "FPSTATE_REMOVING", "FPSTATE_VERIFYING"}
States == ClientStates \union {"FPSTATE_IDLE", "FPSTATE_ENUMERATING"}
AcquiredStates == {"FPACQUIRED_UNSPECIFIED", "FPACQUIRED_GOOD",
                   "FPACQUIRED_PARTIAL", "FPACQUIRED_INSUFFICIENT",
                   "FPACQUIRED_IMAGER_DIRTY", "FPACQUIRED_TOO_SLOW",
                   "FPACQUIRED_TOO_FAST", "FPACQUIRED_UNRECOGNIZED"}
Methods == {"Enroll", "Identify", "Clear", "Abort", "Verify", "Remove"}
Replies == {"FPREPLY_STARTED", "FPREPLY_ALREADY_IDLE", "FPREPLY_ALREADY_BUSY",
            "FPREPLY_KEY_ALREADY_EXISTS", "FPREPLY_KEY_DOES_NOT_EXIST",
            "FPREPLY_NO_KEYS_AVAILABLE", "void"}
SignalNames == {"Added", "Removed", "Identified", "Aborted", "Failed",
                "Verified", "StateChanged", "EnrollProgressChanged",
                "AcquisitionInfo", "ErrorInfo", "ListChanged"}

NoReply == [method |-> "none"]
Emit(name) == [name |-> name]
EmitWith(name, arg) == [name |-> name, arg |-> arg]
StateChanged(from, to) ==
  IF from = to THEN {} ELSE {EmitWith("StateChanged", to)}

-----------------------------------------------------------------------------
(* The finger map and its file.                                            *)

EmptyMap == [k \in FingerIds |-> Absent]
Keys(map) == {k \in FingerIds : map[k] # Absent}
Values(map) == {map[k] : k \in Keys(map)}

(* The loop of Remove: the first key in id order that carries the name, or *)
(* 0, which is also what the code takes for "not found".                   *)
KeyOf(map, name) ==
  IF \E k \in FingerIds : map[k] = name
  THEN CHOOSE k \in FingerIds :
         map[k] = name /\ \A j \in FingerIds : map[j] = name => k <= j
  ELSE NoFinger

(* saveFingers: the file is truncated by open(), and the write itself is   *)
(* never checked.                                                          *)
SaveResult(map, outcome) ==
  CASE outcome = "written"   -> map
    [] outcome = "notOpened" -> database
    [] outcome = "truncated" -> Unreadable

(* Seeded fault: the list is saved before it is changed.                   *)
saveFingers_Early(map) ==
  \E outcome \in SaveOutcomes : database' = SaveResult(m_fingerMap, outcome)

saveFingers(map) ==
  \E outcome \in SaveOutcomes : database' = SaveResult(map, outcome)

(* loadFingers up to its save: read, drop what the sensor did not          *)
(* enumerate, add what only the sensor knows.                              *)
ReadDatabase == IF database = Unreadable THEN EmptyMap ELSE database
DropMissing(map, fingers) ==
  [k \in FingerIds |-> IF k \in fingers THEN map[k] ELSE Absent]
(* Seeded fault: what only the sensor knows stays unlisted.                *)
AddUnknown_Skipped(map, fingers) == map

AddUnknown(map, fingers) ==
  [k \in FingerIds |-> IF k \in fingers /\ map[k] = Absent
                       THEN UnknownName[k] ELSE map[k]]
LoadedMap(fingers) ==
  AddUnknown(DropMissing(ReadDatabase, fingers), fingers)

-----------------------------------------------------------------------------
(* D-Bus methods.  The reply operators are the early returns in the order  *)
(* of the code.                                                            *)

BusyByOther(caller) == m_dbusCaller # NoCaller /\ m_dbusCaller # caller

(* Seeded fault: a name that is on the list already is not looked for.     *)
EnrollReply_NoNameCheck(caller, finger) ==
  IF BusyByOther(caller) \/ m_state # "FPSTATE_IDLE" THEN "FPREPLY_ALREADY_BUSY"
  ELSE "FPREPLY_STARTED"

EnrollReply(caller, finger) ==
  IF BusyByOther(caller) THEN "FPREPLY_ALREADY_BUSY"
  ELSE IF finger \in Values(m_fingerMap) THEN "FPREPLY_KEY_ALREADY_EXISTS"
  ELSE IF m_state = "FPSTATE_IDLE" THEN "FPREPLY_STARTED"
  ELSE "FPREPLY_ALREADY_BUSY"

IdentifyReply(caller) ==
  IF BusyByOther(caller) \/ m_state # "FPSTATE_IDLE" THEN "FPREPLY_ALREADY_BUSY"
  ELSE IF Keys(m_fingerMap) = {} THEN "FPREPLY_NO_KEYS_AVAILABLE"
  ELSE "FPREPLY_STARTED"

(* Seeded fault: Verify relies on the owner check alone.                   *)
VerifyReply_NoStateCheck(caller) ==
  IF BusyByOther(caller) THEN "FPREPLY_ALREADY_IDLE" ELSE "FPREPLY_STARTED"

VerifyReply(caller) ==
  IF BusyByOther(caller) THEN "FPREPLY_ALREADY_IDLE"
  ELSE IF m_state # "FPSTATE_IDLE" THEN "FPREPLY_ALREADY_BUSY"
  ELSE "FPREPLY_STARTED"

RemoveReply(caller, finger) ==
  IF BusyByOther(caller) \/ m_state # "FPSTATE_IDLE" THEN "FPREPLY_ALREADY_BUSY"
  ELSE IF KeyOf(m_fingerMap, finger) = NoFinger THEN "FPREPLY_KEY_DOES_NOT_EXIST"
  ELSE "FPREPLY_STARTED"

(* Seeded fault: Abort does not ask whose operation it ends.               *)
AbortReply_AnyCaller(caller) ==
  IF m_state = "FPSTATE_IDLE" THEN "FPREPLY_ALREADY_IDLE"
  ELSE "FPREPLY_STARTED"

AbortReply(caller) ==
  IF BusyByOther(caller) \/ m_state = "FPSTATE_IDLE" THEN "FPREPLY_ALREADY_IDLE"
  ELSE "FPREPLY_STARTED"

ClearAccepted(caller) == ~BusyByOther(caller) /\ m_state = "FPSTATE_IDLE"

Return(method, caller, code) ==
  reply' = [method |-> method, to |-> caller, code |-> code]

Refuse(method, caller, code) ==
  /\ Return(method, caller, code)
  /\ signals' = {}
  /\ UNCHANGED <<volatile, database>>

(* setState(state) followed by a call into the adapter.  When the call     *)
(* fails, the adapter emits failed() on this very thread, so slot_failed   *)
(* has run, and has cleared the caller, before the call returns.  `owner`  *)
(* is m_dbusCaller at the end of the method in that case.                  *)
(* Seeded fault: the caller is forgotten by the setState that follows.     *)
Start_NoOwner(state, caller, ret, owner, more) ==
  /\ m_state' = IF ret = "SYS_OK" THEN state ELSE "FPSTATE_IDLE"
  /\ m_dbusCaller' = NoCaller
  /\ signals' = more

Start(state, caller, ret, owner, more) ==
  IF ret = "SYS_OK"
  THEN /\ m_state' = state
       /\ m_dbusCaller' = caller
       /\ signals' = more \union StateChanged(m_state, state)
  ELSE /\ m_state' = "FPSTATE_IDLE"
       /\ m_dbusCaller' = owner
       /\ signals' = more \union StateChanged(m_state, state)
                          \union StateChanged(state, "FPSTATE_IDLE")
                          \union {EmitWith("ErrorInfo", ret), Emit("Failed")}

Enroll(caller, finger, ret) ==
  \/ /\ EnrollReply(caller, finger) = "FPREPLY_STARTED"
     /\ Start("FPSTATE_ENROLLING", caller, ret, NoCaller,
              {EmitWith("EnrollProgressChanged", 0)})
     /\ m_addingFinger' = finger
     /\ Return("Enroll", caller, "FPREPLY_STARTED")
     /\ UNCHANGED <<m_fingerMap, m_acquired, m_cancelTimer, database>>
  \/ /\ EnrollReply(caller, finger) # "FPREPLY_STARTED"
     /\ Refuse("Enroll", caller, EnrollReply(caller, finger))

(* Seeded fault: the timer is configured, but never started.               *)
startTimer_Dropped == UNCHANGED m_cancelTimer
startTimer == m_cancelTimer' = TRUE

(* The timer is started before the call, and slot_failed does not stop it. *)
Identify(caller, ret) ==
  \/ /\ IdentifyReply(caller) = "FPREPLY_STARTED"
     /\ Start("FPSTATE_IDENTIFYING", caller, ret, NoCaller, {})
     /\ startTimer
     /\ Return("Identify", caller, "FPREPLY_STARTED")
     /\ UNCHANGED <<m_fingerMap, m_addingFinger, m_acquired, database>>
  \/ /\ IdentifyReply(caller) # "FPREPLY_STARTED"
     /\ Refuse("Identify", caller, IdentifyReply(caller))

Clear(caller, ret) ==
  \/ /\ ClearAccepted(caller)
     /\ Start("FPSTATE_REMOVING", caller, ret, NoCaller, {})
     /\ Return("Clear", caller, "void")
     /\ UNCHANGED <<m_fingerMap, m_addingFinger, m_acquired, m_cancelTimer,
                    database>>
  \/ /\ ~ClearAccepted(caller)
     /\ Refuse("Clear", caller, "void")

(* Verify and Remove set m_dbusCaller after the call: a call that failed   *)
(* leaves the caller in an idle daemon.                                    *)
Verify(caller, ret) ==
  \/ /\ VerifyReply(caller) = "FPREPLY_STARTED"
     /\ Start("FPSTATE_VERIFYING", caller, ret, caller,
              {EmitWith("EnrollProgressChanged", 0)})
     /\ Return("Verify", caller, "FPREPLY_STARTED")
     /\ UNCHANGED <<m_fingerMap, m_addingFinger, m_acquired, m_cancelTimer,
                    database>>
  \/ /\ VerifyReply(caller) # "FPREPLY_STARTED"
     /\ Refuse("Verify", caller, VerifyReply(caller))

Remove(caller, finger, ret) ==
  \/ /\ RemoveReply(caller, finger) = "FPREPLY_STARTED"
     /\ Start("FPSTATE_REMOVING", caller, ret, caller, {})
     /\ Return("Remove", caller, "FPREPLY_STARTED")
     /\ UNCHANGED <<m_fingerMap, m_addingFinger, m_acquired, m_cancelTimer,
                    database>>
  \/ /\ RemoveReply(caller, finger) # "FPREPLY_STARTED"
     /\ Refuse("Remove", caller, RemoveReply(caller, finger))

(* setState(FPSTATE_IDLE), whose first act is to forget the caller.        *)
GoIdle(more) ==
  /\ m_state' = "FPSTATE_IDLE"
  /\ m_dbusCaller' = NoCaller
  /\ signals' = more \union StateChanged(m_state, "FPSTATE_IDLE")

(* Seeded fault: abort() does not tell its client.                         *)
abort_Silent(more) == m_cancelTimer' = FALSE /\ GoIdle(more)

(* The private abort().                                                    *)
abort(more) ==
  /\ m_cancelTimer' = FALSE
  /\ GoIdle(more \union {Emit("Aborted")})

Abort(caller) ==
  \/ /\ AbortReply(caller) = "FPREPLY_STARTED"
     /\ abort({})
     /\ Return("Abort", caller, "FPREPLY_STARTED")
     /\ UNCHANGED <<m_fingerMap, m_addingFinger, m_acquired, database>>
  \/ /\ AbortReply(caller) # "FPREPLY_STARTED"
     /\ Refuse("Abort", caller, AbortReply(caller))

-----------------------------------------------------------------------------
(* Slots.                                                                  *)

slot_enrollProgress(percent) ==
  LET progress == {EmitWith("EnrollProgressChanged", percent)} IN
  /\ reply' = NoReply
  /\ \/ /\ m_state = "FPSTATE_VERIFYING"
        /\ abort(progress \union {Emit("Verified")})
     \/ /\ m_state # "FPSTATE_VERIFYING"
        /\ signals' = progress
        /\ UNCHANGED <<m_state, m_dbusCaller, m_cancelTimer>>
  /\ UNCHANGED <<m_fingerMap, m_addingFinger, m_acquired, database>>

(* Seeded fault: the name is reset before it is used.                      *)
WithFinger_NameReset(finger) == [m_fingerMap EXCEPT ![finger] = EmptyName]

WithFinger(finger) == [m_fingerMap EXCEPT ![finger] = m_addingFinger]

slot_succeeded(finger) ==
  /\ m_fingerMap' = WithFinger(finger)
  /\ m_addingFinger' = EmptyName
  /\ saveFingers(m_fingerMap')
  /\ GoIdle({EmitWith("Added", m_addingFinger), Emit("ListChanged")})
  /\ reply' = NoReply
  /\ UNCHANGED <<m_acquired, m_cancelTimer>>

slot_failed(message) ==
  LET error == {EmitWith("ErrorInfo", message)}
      keepsTrying == /\ m_state = "FPSTATE_IDENTIFYING"
                     /\ message = "FINGER_NOT_RECOGNIZED"
  IN
  /\ \/ /\ m_state = "FPSTATE_IDLE" \/ keepsTrying
        /\ signals' = error
        /\ UNCHANGED <<m_state, m_dbusCaller>>
     \/ /\ m_state # "FPSTATE_IDLE" /\ ~keepsTrying
        /\ GoIdle(error \union {Emit("Failed")})
  /\ reply' = NoReply
  /\ UNCHANGED <<m_fingerMap, m_addingFinger, m_acquired, m_cancelTimer,
                 database>>

AcquiredState(info) ==
  CASE info = "ACQUIRED_GOOD"         -> "FPACQUIRED_GOOD"
    [] info = "ACQUIRED_PARTIAL"      -> "FPACQUIRED_PARTIAL"
    [] info = "ACQUIRED_INSUFFICIENT" -> "FPACQUIRED_INSUFFICIENT"
    [] info = "ACQUIRED_IMAGER_DIRTY" -> "FPACQUIRED_IMAGER_DIRTY"
    [] info = "ACQUIRED_TOO_SLOW"     -> "FPACQUIRED_TOO_SLOW"
    [] info = "ACQUIRED_TOO_FAST"     -> "FPACQUIRED_TOO_FAST"
    [] info = "ACQUIRED_VENDOR"       -> "FPACQUIRED_UNRECOGNIZED"
    [] OTHER                          -> "FPACQUIRED_GOOD"

slot_acquired(info) ==
  /\ m_acquired' = AcquiredState(info)
  /\ signals' = IF m_acquired' # m_acquired
                THEN {EmitWith("AcquisitionInfo", m_acquired')} ELSE {}
  /\ reply' = NoReply
  /\ UNCHANGED <<m_state, m_dbusCaller, m_fingerMap, m_addingFinger,
                 m_cancelTimer, database>>

(* Seeded fault: the name is looked up after the entry is gone.            *)
NameAt_AfterRemoval(finger) == EmptyName

(* m_fingerMap[finger] of an id that is no key is the empty string.        *)
NameAt(finger) ==
  IF m_fingerMap[finger] = Absent THEN EmptyName ELSE m_fingerMap[finger]

slot_removed(finger) ==
  /\ \/ /\ finger # NoFinger
        /\ m_fingerMap' = [m_fingerMap EXCEPT ![finger] = Absent]
        /\ GoIdle({EmitWith("Removed", NameAt(finger)), Emit("ListChanged")})
     \/ /\ finger = NoFinger
        /\ m_fingerMap' = EmptyMap
        /\ GoIdle({EmitWith("Removed", n) : n \in Values(m_fingerMap)}
                  \union {Emit("ListChanged")})
  /\ saveFingers(m_fingerMap')
  /\ reply' = NoReply
  /\ UNCHANGED <<m_addingFinger, m_acquired, m_cancelTimer>>

slot_authenticated(finger) ==
  /\ m_cancelTimer' = FALSE
  /\ GoIdle({EmitWith("Identified", IF finger \in Keys(m_fingerMap)
                                    THEN m_fingerMap[finger]
                                    ELSE UnknownName[finger])})
  /\ reply' = NoReply
  /\ UNCHANGED <<m_fingerMap, m_addingFinger, m_acquired, database>>

(* timeout() of m_cancelTimer.  It does not ask what the state is.         *)
slot_cancelIdentify ==
  /\ m_cancelTimer
  /\ m_cancelTimer' = FALSE
  /\ GoIdle({Emit("Failed")})
  /\ reply' = NoReply
  /\ UNCHANGED <<m_fingerMap, m_addingFinger, m_acquired, database>>

(* `fingers` is what AndroidFP::fingerprints() returns in loadFingers.     *)
slot_enumerated(fingers) ==
  /\ m_fingerMap' = LoadedMap(fingers)
  /\ saveFingers(m_fingerMap')
  /\ GoIdle({Emit("ListChanged")})
  /\ reply' = NoReply
  /\ UNCHANGED <<m_addingFinger, m_acquired, m_cancelTimer>>

-----------------------------------------------------------------------------
(* The constructor: setUser -> enumerate.  A refused setActiveGroup leaves *)
(* the fresh, idle object as it is.  The object is put on the bus last, so *)
(* nothing it emits before that is sent.                                   *)

(* Seeded fault: a failed start is shown in a state of its own.            *)
StartState_Unset(ret) ==
  IF ret = "SYS_OK" THEN "FPSTATE_ENUMERATING" ELSE "FPSTATE_UNSET"

StartState(ret) ==
  IF ret = "SYS_OK" THEN "FPSTATE_ENUMERATING" ELSE "FPSTATE_IDLE"

Init ==
  /\ m_state \in {StartState(ret) : ret \in Statuses}
  /\ m_dbusCaller = NoCaller
  /\ m_fingerMap = EmptyMap
  /\ m_addingFinger = EmptyName
  /\ m_acquired = "FPACQUIRED_UNSPECIFIED"
  /\ m_cancelTimer = FALSE
  /\ database = Unreadable
  /\ reply = NoReply
  /\ signals = {}

(* The process ends, on SIGTERM or in a crash, and systemd starts another  *)
(* (Restart=always).  A crash inside saveFingers leaves the file cut short.*)
Restart(ret, file) ==
  /\ m_state' = StartState(ret)
  /\ m_dbusCaller' = NoCaller
  /\ m_fingerMap' = EmptyMap
  /\ m_addingFinger' = EmptyName
  /\ m_acquired' = "FPACQUIRED_UNSPECIFIED"
  /\ m_cancelTimer' = FALSE
  /\ database' = file
  /\ reply' = NoReply
  /\ signals' = {}

MethodCall(caller, ret) ==
  \/ \E finger \in ClientNames : Enroll(caller, finger, ret)
  \/ Identify(caller, ret)
  \/ Clear(caller, ret)
  \/ Verify(caller, ret)
  \/ \E finger \in ClientNames : Remove(caller, finger, ret)
  \/ Abort(caller)

Slot ==
  \/ \E percent \in Percents : slot_enrollProgress(percent)
  \/ \E finger \in Fingers : slot_succeeded(finger)
  \/ \E message \in {"FINGER_NOT_RECOGNIZED", "ERROR"} : slot_failed(message)
  \/ \E info \in AcquiredInfos : slot_acquired(info)
  \/ \E finger \in FingerIds : slot_removed(finger)
  \/ \E finger \in Fingers : slot_authenticated(finger)
  \/ \E fingers \in SUBSET Fingers : slot_enumerated(fingers)
  \/ slot_cancelIdentify

(* A step of the sensor or of another thread, as the main thread sees it.  *)
Elsewhere == reply' = NoReply /\ signals' = {} /\ UNCHANGED <<volatile, database>>

Next ==
  \/ \E caller \in Clients, ret \in Statuses : MethodCall(caller, ret)
  \/ Slot
  \/ Elsewhere
  \/ \E ret \in Statuses, file \in {database, Unreadable} : Restart(ret, file)

Spec == Init /\ [][Next]_vars

(* Qt fires an active timer once its interval is over.                     *)
FairSpec == Spec /\ WF_vars(slot_cancelIdentify)
-----------------------------------------------------------------------------
(* Properties.                                                             *)

(* Type invariant.  FPSTATE_ABORTING, FPSTATE_TERMINATING and the other    *)
(* states that fpdcommunity.h declares are never entered.                  *)
TypeOK ==
  /\ m_state \in States
  /\ m_dbusCaller \in Clients \union {NoCaller}
  /\ m_fingerMap \in FingerMaps
  /\ m_addingFinger \in Names
  /\ m_acquired \in AcquiredStates
  /\ m_cancelTimer \in BOOLEAN
  /\ database \in FingerMaps \union {Unreadable}
  /\ reply \in {NoReply} \union
              [method : Methods, to : Clients, code : Replies]
  /\ \A s \in signals : s.name \in SignalNames

(* A client's operation has an owner for as long as it lasts, however it   *)
(* was started and whatever the sensor reports meanwhile; the daemon's own *)
(* enumeration has none.  Without it any client could end or take over the *)
(* operation of another (the busy checks test for an empty m_dbusCaller).  *)
BusyHasOwner ==
  /\ m_state \in ClientStates => m_dbusCaller \in Clients
  /\ m_state = "FPSTATE_ENUMERATING" => m_dbusCaller = NoCaller

(* An Identify is never without its running time limit: no path out of the *)
(* state leaves the timer stopped on a path back in, and none stops it     *)
(* early.                                                                  *)
IdentifyingIsTimed == m_state = "FPSTATE_IDENTIFYING" => m_cancelTimer

(* When writing the file works, a list that is not empty is on disk before *)
(* the handler that made it ends: a crash between two handlers loses no    *)
(* name.  (An empty list may be one that was never loaded.)                *)
MapIsSaved ==
  SaveOutcomes = {"written"} =>
    m_fingerMap = EmptyMap \/ database = m_fingerMap

NewProcess ==
  \E ret \in Statuses, file \in {database, Unreadable} : Restart(ret, file)

(* While the daemon belongs to one client, a call of another changes       *)
(* nothing at all: it cannot start, end or even disturb an operation.      *)
OthersCannotInterfere ==
  [][ /\ reply' # NoReply
      /\ m_dbusCaller # NoCaller
      /\ reply'.to # m_dbusCaller
      => UNCHANGED <<volatile, database>> /\ signals' = {} ]_vars

(* The method of this step has started an operation, or has tried to.      *)
Accepted ==
  \/ reply' \in [method : Methods \ {"Abort", "Clear"}, to : Clients,
                 code : {"FPREPLY_STARTED"}]
  \/ reply'.method = "Clear" /\ ClearAccepted(reply'.to)

Announced ==
  \E s \in signals :
    s.name \in {"Failed", "Aborted", "Identified", "ListChanged"}

(* A client learns of every end of an operation from a signal of its own,  *)
(* whichever of the six ways out the daemon takes, and even when the       *)
(* operation ends inside the method that begins it: the methods do not ask *)
(* for the outcome of their call into the adapter, slot_failed tells it.   *)
EndIsAnnounced ==
  [][ (m_state # "FPSTATE_IDLE" \/ Accepted) /\ m_state' = "FPSTATE_IDLE"
      => Announced' \/ NewProcess ]_vars

(* What becomes of an entry is told with the very names: the one that goes *)
(* by Removed, the one that comes by Added.                                *)
Told(k) ==
  m_fingerMap'[k] # m_fingerMap[k] =>
    /\ m_fingerMap[k] # Absent => EmitWith("Removed", m_fingerMap[k]) \in signals'
    /\ m_fingerMap'[k] # Absent => EmitWith("Added", m_fingerMap'[k]) \in signals'

(* slot_succeeded does not look whether the id is on the list: the name    *)
(* that it had goes without Removed.                                       *)
Replaces(k) == k \in Keys(m_fingerMap) /\ slot_succeeded(k)

(* Every change of the list comes with ListChanged, and every name that    *)
(* comes or goes is told, but for two: the list that is loaded at the      *)
(* start, and the old name of an id that the sensor has used twice.        *)
ListFollowsSignals ==
  [][ \/ NewProcess
      \/ /\ m_fingerMap' # m_fingerMap => Emit("ListChanged") \in signals'
         /\ \/ \E fingers \in SUBSET Fingers : slot_enumerated(fingers)
            \/ \A k \in FingerIds : Told(k) \/ Replaces(k) ]_vars

(* Whoever is told that an operation has started has one.  Claimed by the  *)
(* description of FPREPLY_STARTED in fpdcommunity.h; does not hold when    *)
(* the sensor library refuses the call.                                    *)
StartedMeansStarted ==
  reply \in [method : {"Enroll", "Identify", "Verify", "Remove"}, to : Clients,
             code : {"FPREPLY_STARTED"}]
    => m_state \in ClientStates /\ m_dbusCaller = reply.to

(* A caller is told that the daemon is busy only while it is.  Claimed by  *)
(* the description of FPREPLY_ALREADY_BUSY in fpdcommunity.h; does not     *)
(* hold after a Verify or Remove that failed at once.                      *)
BusyReplyMeansBusy ==
  reply \in [method : {"Enroll", "Identify"}, to : Clients,
             code : {"FPREPLY_ALREADY_BUSY"}] => m_state # "FPSTATE_IDLE"

(* Every Identify ends, even when the sensor never answers.                *)
IdentifyEnds ==
  m_state = "FPSTATE_IDENTIFYING" ~> m_state # "FPSTATE_IDENTIFYING"

(* The daemon as a ClientSession.  An idle daemon is nobody's, even when   *)
(* m_dbusCaller is left behind by a failed Verify or Remove.               *)
SessionOwner ==
  IF m_state = "FPSTATE_IDLE" THEN NoCaller ELSE m_dbusCaller

Session == INSTANCE ClientSession WITH
  Nobody <- NoCaller,
  Operations <- ClientStates,
  Nothing <- "FPSTATE_IDLE",
  Enumeration <- "FPSTATE_ENUMERATING",
  operation <- m_state,
  owner <- SessionOwner,
  caller <- IF reply = NoReply THEN NoCaller ELSE reply.to

ImplementsSession == Session!Spec
=============================================================================
