------------------------------ MODULE FPDSystem ------------------------------
(***************************************************************************)
(* The whole program on one device: the daemon object of "FPDCommunity",   *)
(* the adapter with its two threads of "AndroidFP" and the sensor of       *)
(* "BiometryHal".  A step of the main thread is a handler of FPDCommunity  *)
(* together with what the calls that it makes do to the other two; between *)
(* two of them the binder thread, the sensor, a crash or a restart may     *)
(* step in anywhere.                                                       *)
(***************************************************************************)
EXTENDS FPDCommunity, Sequences

CONSTANTS Samples, SensorInfos, ErrorCodes, Undefined, MaxCallbacks, MaxEvents

VARIABLES
  m_enrollRemaining, m_removingFinger, m_fingers, inEnroll, binder, events,
  sensor, store, callbacks,
  (* History, for the properties.                                          *)
  loaded,      \* has this process loaded its list?
  outOfStep,   \* has it done what it cannot recover from, see GetsOutOfStep
  overlapped,  \* did the last operation begin before the one before was over?
  asked,       \* the name the last enrolment was asked for
  enrolledAs   \* the name each template was made for

Adapter == INSTANCE AndroidFP
Hal == INSTANCE BiometryHal

adapter == <<m_enrollRemaining, m_removingFinger, m_fingers, inEnroll, binder,
             events>>
hal == <<sensor, store, callbacks>>

ASSUME SamplesAssumption == Samples \in Nat \ {0}
ASSUME ProgressAssumption == Adapter!ProgressValues \subseteq Percents
ASSUME InfosAssumption == Hal!PassedInfos \subseteq AcquiredInfos
ASSUME ErrorsAssumption == ErrorCodes \subseteq {"ERROR", "ERROR_NO_ERROR"}
ASSUME BoundsAssumption == MaxCallbacks \in Nat \ {0} /\ MaxEvents \in Nat \ {0}

history == <<loaded, outOfStep, overlapped, asked, enrolledAs>>
systemVars == <<vars, adapter, hal, history>>

NobodyAsked == [finger \in Fingers |-> Absent]

(* Nothing is left of any earlier operation.                               *)
Quiet ==
  /\ sensor = Hal!Idle
  /\ callbacks = <<>>
  /\ binder = Adapter!Free
  /\ events = <<>>

-----------------------------------------------------------------------------
(* The main thread: D-Bus methods.                                         *)

GetsOutOfStep(if) ==
  /\ outOfStep' = (outOfStep \/ if)
  /\ enrolledAs' = IF if THEN NobodyAsked ELSE enrolledAs

(* An operation that begins before the last one is over may be taken for   *)
(* it by everything that comes in.                                         *)
Operation(name) ==
  /\ overlapped' = ~Quiet
  /\ GetsOutOfStep(overlapped')
  /\ asked' = name
  /\ UNCHANGED loaded

Refused(ret) ==
  ret = "SYS_OK" /\ UNCHANGED <<adapter, hal, history>>

CallEnroll(caller, finger, ret) ==
  /\ Enroll(caller, finger, ret)
  /\ IF EnrollReply(caller, finger) = "FPREPLY_STARTED"
     THEN Adapter!enroll(ret) /\ Hal!enroll(ret) /\ Operation(finger)
     ELSE Refused(ret)

CallIdentify(caller, ret) ==
  /\ Identify(caller, ret)
  /\ IF IdentifyReply(caller) = "FPREPLY_STARTED"
     THEN Hal!authenticate(ret) /\ Operation(asked) /\ UNCHANGED adapter
     ELSE Refused(ret)

CallClear(caller, ret) ==
  /\ Clear(caller, ret)
  /\ IF ClearAccepted(caller)
     THEN Adapter!clear /\ Hal!remove(ret, NoFinger) /\ Operation(asked)
     ELSE Refused(ret)

CallVerify(caller, ret) ==
  /\ Verify(caller, ret)
  /\ IF VerifyReply(caller) = "FPREPLY_STARTED"
     THEN Adapter!enroll(ret) /\ Hal!enroll(ret) /\ Operation(Absent)
     ELSE Refused(ret)

CallRemove(caller, finger, ret) ==
  LET key == KeyOf(m_fingerMap, finger) IN
  /\ Remove(caller, finger, ret)
  /\ IF RemoveReply(caller, finger) = "FPREPLY_STARTED"
     THEN Adapter!remove(key) /\ Hal!remove(ret, key) /\ Operation(asked)
     ELSE Refused(ret)

CallAbort(caller) ==
  /\ Abort(caller)
  /\ IF AbortReply(caller) = "FPREPLY_STARTED" THEN Hal!cancel
                                               ELSE UNCHANGED hal
  /\ UNCHANGED <<adapter, history>>

Call ==
  /\ ~inEnroll
  /\ \E caller \in Clients, ret \in Statuses :
       \/ \E finger \in ClientNames : CallEnroll(caller, finger, ret)
       \/ CallIdentify(caller, ret)
       \/ CallClear(caller, ret)
       \/ CallVerify(caller, ret)
       \/ \E finger \in ClientNames : CallRemove(caller, finger, ret)
       \/ CallAbort(caller)

-----------------------------------------------------------------------------
(* The main thread: the event loop.                                        *)

OnEnrollProgress(event) ==
  /\ event.signal = "enrollProgress"
  /\ slot_enrollProgress(event.percent)
  /\ IF m_state = "FPSTATE_VERIFYING" THEN Hal!cancel ELSE UNCHANGED hal
  /\ UNCHANGED history

OnSucceeded(event) ==
  /\ event.signal = "succeeded"
  /\ slot_succeeded(event.finger)
  /\ UNCHANGED <<hal, history>>

OnFailed(event) ==
  /\ event.signal = "failed"
  /\ slot_failed(event.message)
  /\ UNCHANGED <<hal, history>>

OnRemoved(event) ==
  /\ event.signal = "removed"
  /\ slot_removed(event.finger)
  /\ UNCHANGED <<hal, history>>

OnAuthenticated(event) ==
  /\ event.signal = "authenticated"
  /\ slot_authenticated(event.finger)
  /\ UNCHANGED <<hal, history>>

OnAcquired(event) ==
  /\ event.signal = "acquired"
  /\ slot_acquired(event.info)
  /\ UNCHANGED <<hal, history>>

OnEnumerated(event) ==
  /\ event.signal = "enumerated"
  /\ slot_enumerated(m_fingers)
  /\ loaded' = TRUE
  /\ UNCHANGED <<hal, outOfStep, overlapped, asked, enrolledAs>>

Dispatch ==
  /\ Adapter!TakeEvent
  /\ LET event == Head(events) IN
       \/ OnEnrollProgress(event)
       \/ OnSucceeded(event)
       \/ OnFailed(event)
       \/ OnRemoved(event)
       \/ OnAuthenticated(event)
       \/ OnAcquired(event)
       \/ OnEnumerated(event)

Timeout ==
  /\ ~inEnroll
  /\ slot_cancelIdentify
  /\ Hal!cancel
  /\ UNCHANGED <<adapter, history>>

EnrollReturns ==
  /\ Adapter!enrollReturns
  /\ Elsewhere
  /\ UNCHANGED <<hal, history>>

-----------------------------------------------------------------------------
(* The binder thread: the callbacks of the bridge, in the order in which   *)
(* the sensor sent them.                                                   *)

Deliver ==
  /\ callbacks # <<>>
  /\ callbacks' = Tail(callbacks)
  /\ LET callback == Head(callbacks) IN
       \/ /\ callback.on = "EnrollResult"
          /\ Adapter!enrollCallback(callback.finger, callback.remaining)
       \/ /\ callback.on = "Removed"
          /\ Adapter!removeCallback(callback.finger, callback.remaining)
       \/ /\ callback.on = "Enumerate"
          /\ Adapter!enumerateCallback(callback.finger, callback.remaining)
       \/ /\ callback.on = "Authenticated"
          /\ Adapter!authenticated_cb(callback.finger)
       \/ /\ callback.on = "Acquired"
          /\ Adapter!acquired_cb(callback.info)
       \/ /\ callback.on = "Error"
          /\ Adapter!error_cb(callback.error)
  /\ UNCHANGED <<sensor, store, history>>

(* A template that postEnroll refuses stays in the sensor, unlisted.       *)
PostEnroll(ret) ==
  /\ Adapter!postEnroll(ret)
  /\ GetsOutOfStep(ret # "SYS_OK")
  /\ UNCHANGED <<hal, loaded, overlapped, asked>>

Binder ==
  /\ \/ Deliver
     \/ \E ret \in Statuses : PostEnroll(ret)
     \/ /\ Adapter!enrollProgress \/ Adapter!emitRemoved \/ Adapter!forgetRemoving
        /\ UNCHANGED <<hal, history>>
  /\ Elsewhere

-----------------------------------------------------------------------------
(* The sensor.  Its ids are random 32 bit numbers: one that the daemon     *)
(* still knows, or is about to hear of, is not drawn again.                *)

Reported == {callbacks[i].finger :
               i \in {j \in 1..Len(callbacks) :
                       callbacks[j].on \in {"EnrollResult", "Enumerate"}}}
Announcing ==
  {events[i].finger : i \in {j \in 1..Len(events) : events[j].signal = "succeeded"}}
    \union {finger \in Fingers : binder = [at |-> "postEnroll", finger |-> finger]}
Enumeration ==
  \/ sensor.op = "enumerate"
  \/ \E i \in 1..Len(callbacks) : callbacks[i].on = "Enumerate"
  \/ \E i \in 1..Len(events) : events[i].signal = "enumerated"
KnownIds ==
  Keys(m_fingerMap) \union Keys(ReadDatabase) \union Reported \union Announcing
    \union {finger \in m_fingers : Enumeration}

Sample(finger) ==
  /\ Hal!Sample(finger)
  /\ finger \notin KnownIds
  /\ enrolledAs' = IF store' = store \/ outOfStep THEN enrolledAs
                   ELSE [enrolledAs EXCEPT ![finger] = asked]
  /\ UNCHANGED <<loaded, outOfStep, overlapped, asked>>

(* Clear that fails halfway: what it did is never told to the daemon.      *)
Fail ==
  /\ Hal!Fail
  /\ GetsOutOfStep(sensor.op = "remove" /\ sensor.left # sensor.all)
  /\ UNCHANGED <<loaded, overlapped, asked>>

Sensor ==
  /\ \/ \E finger \in Fingers : Sample(finger)
     \/ Fail
     \/ /\ \/ Hal!Reject
           \/ \E finger \in FingerIds : \/ Hal!Match(finger)
                                        \/ Hal!RemoveNext(finger)
                                        \/ Hal!EnumerateNext(finger)
        /\ UNCHANGED history
  /\ Elsewhere
  /\ UNCHANGED adapter

(* Apart from Sensor, which is fair: a sensor that only ever reports       *)
(* touches does not end what it has begun.                                 *)
Acquire ==
  /\ \E info \in SensorInfos : Hal!Acquire(info)
  /\ Elsewhere
  /\ UNCHANGED <<adapter, history>>

-----------------------------------------------------------------------------
SystemInit ==
  /\ Init
  /\ Adapter!Init
  /\ callbacks = <<>>
  /\ store \in SUBSET Fingers
  /\ sensor = IF m_state = "FPSTATE_IDLE" THEN Hal!Idle ELSE Hal!Enumerating(store)
  /\ loaded = FALSE
  /\ outOfStep = FALSE
  /\ overlapped = FALSE
  /\ asked = Absent
  /\ enrolledAs = NobodyAsked

SavingEvent ==
  /\ ~inEnroll
  /\ events # <<>>
  /\ Head(events).signal \in {"succeeded", "removed", "enumerated"}

(* A crash between any two steps, or while the file is being written, and  *)
(* the next process.  Callbacks to the dead one are lost; whether the      *)
(* sensor goes on with what it was doing is its own affair.                *)
Crash ==
  /\ \E ret \in Statuses, file \in {database, Unreadable},
        running \in {sensor, Hal!Idle} :
       /\ file = database \/ SavingEvent
       /\ Restart(ret, file)
       /\ \/ ret = "SYS_OK" /\ running = Hal!Idle /\ sensor' = Hal!Enumerating(store)
          \/ ret # "SYS_OK" /\ sensor' = running
       /\ outOfStep' = (ret # "SYS_OK" /\ running # Hal!Idle)
  /\ callbacks' = <<>>
  /\ m_enrollRemaining' = 0
  /\ m_removingFinger' = NoFinger
  /\ m_fingers' = {}
  /\ inEnroll' = FALSE
  /\ binder' = Adapter!Free
  /\ events' = <<>>
  /\ loaded' = FALSE
  /\ overlapped' = FALSE
  /\ enrolledAs' = IF outOfStep' THEN NobodyAsked ELSE enrolledAs
  /\ UNCHANGED <<store, asked>>

SystemNext ==
  \/ Call
  \/ Dispatch
  \/ Timeout
  \/ EnrollReturns
  \/ Binder
  \/ Sensor
  \/ Acquire
  \/ Crash

SystemSpec == SystemInit /\ [][SystemNext]_systemVars

(* The threads keep running, Qt fires its timer, and the sensor ends what  *)
(* it has begun: it answers, or it gives up with an error (enrolment after *)
(* the 60 s that the adapter passes).  Nobody has to call anything.        *)
SystemFairSpec ==
  /\ SystemSpec
  /\ WF_systemVars(Dispatch)
  /\ WF_systemVars(Timeout)
  /\ WF_systemVars(EnrollReturns)
  /\ WF_systemVars(Binder)
  /\ WF_systemVars(Sensor)

-----------------------------------------------------------------------------
(* Properties.                                                             *)

SystemTypeOK ==
  /\ TypeOK
  /\ Adapter!TypeOK
  /\ Hal!TypeOK
  /\ loaded \in BOOLEAN
  /\ outOfStep \in BOOLEAN
  /\ overlapped \in BOOLEAN
  /\ asked \in ClientNames \union {Absent}
  /\ enrolledAs \in [Fingers -> ClientNames \union {Absent}]

(* Once nothing is under way, the list is exactly what the sensor holds:   *)
(* through failures, aborts, refusals, time limits, crashes and restarts,  *)
(* as long as no operation was begun before the last one was quite over,   *)
(* and the sensor did not fail in the middle of one.                       *)
ListMatchesStore ==
  loaded /\ ~outOfStep /\ Quiet => Keys(m_fingerMap) = store

(* A name is never given to another template than it was enrolled for.     *)
(* (What a Verify makes was enrolled for no name, see VerifyAddsNothing,   *)
(* and is listed under the name that the last Enroll has left.)            *)
NamesAreRight ==
  loaded /\ ~outOfStep =>
    \A finger \in Keys(m_fingerMap) :
      m_fingerMap[finger] # UnknownName[finger] /\ enrolledAs[finger] # Absent
        => m_fingerMap[finger] = enrolledAs[finger]

(* The list as a TemplateList: between two results it lags behind the      *)
(* sensor, but never by more than one, and each result brings it level, in *)
(* whatever order calls, callbacks, time limits and crashes come.          *)
List == INSTANCE TemplateList WITH
  Templates <- Fingers,
  Lost <- Absent,
  stored <- store,
  listed <- IF loaded /\ ~outOfStep THEN Keys(m_fingerMap) ELSE Absent

ImplementsTemplateList == List!Spec

(* What the adapter may have to say about the operation of a state.        *)
AnswersTo(state) ==
  {"failed", "acquired"} \union
  CASE state \in {"FPSTATE_ENROLLING", "FPSTATE_VERIFYING"} ->
         {"enrollProgress", "succeeded"}
    [] state = "FPSTATE_IDENTIFYING" -> {"authenticated"}
    [] state = "FPSTATE_REMOVING"    -> {"removed"}
    [] state = "FPSTATE_ENUMERATING" -> {"enumerated"}

(* The slots do not ask what the state is before they end the operation.   *)
(* An operation that begins before the one before it is quite over may get *)
(* the answer to that one; but one that begins in quiet gets only its own, *)
(* whatever was mixed up before it: one pause repairs what aborts, time    *)
(* limits, failures and crashes have left behind.                          *)
AnswersFitOperation ==
  ~overlapped /\ m_state # "FPSTATE_IDLE" =>
    \A i \in 1..Len(events) : events[i].signal \in AnswersTo(m_state)

(* A template that was recognized is on the list and still in the sensor   *)
(* when slot_authenticated looks up its name, however long the signal was  *)
(* queued: the code that makes up an "Unknown" for a template that is not  *)
(* on the list is reached only by a process that is out of step, or has    *)
(* not loaded its list.                                                    *)
IdentifiedIsListed ==
  loaded /\ ~outOfStep =>
    \A i \in 1..Len(events) :
      events[i].signal = "authenticated"
        => events[i].finger \in Keys(m_fingerMap) \intersect store

(* The check of Enroll against the list still holds when slot_succeeded    *)
(* uses the name, and for a name that a failed enrolment left behind: no   *)
(* other template has come to the list under it meanwhile.  (The names     *)
(* that AddUnknown makes up at a start are not compared with the others.)  *)
NameIsFree ==
  ~outOfStep =>
    m_addingFinger = EmptyName \/ m_addingFinger \notin Values(m_fingerMap)

(* Every change of the list comes with ListChanged, and every name that    *)
(* comes or goes is told by Added and Removed: a client that follows the   *)
(* signals knows the list, also when results arrive late or in another     *)
(* operation.  (But for the list that is loaded at the start.)             *)
NamesAreTold ==
  [][ \/ Crash
      \/ /\ m_fingerMap' # m_fingerMap => Emit("ListChanged") \in signals'
         /\ \/ Dispatch /\ Head(events).signal = "enumerated"
            \/ \A k \in FingerIds : Told(k) ]_systemVars

(* The daemon never waits for a sensor that has nothing left to say.       *)
WaitsForSomething == m_state # "FPSTATE_IDLE" => ~Quiet

(* Every operation ends, unless the process keeps crashing.                *)
OperationEnds ==
  <>[][~Crash]_systemVars
    => (m_state # "FPSTATE_IDLE" ~> m_state = "FPSTATE_IDLE")

(* The composition only takes steps that FPDCommunity takes, so what is    *)
(* proved of the open daemon holds of the one in the system.               *)
ImplementsDaemon == Spec

(* The progress of an enrolment that is told to the main thread is 0..1.   *)
(* Claimed by androidfp.h; does not hold.                                  *)
ProgressInRange ==
  \A i \in 1..Len(events) :
    events[i].signal = "enrollProgress" => events[i].percent \in 0..100

(* What the daemon strikes from its list as removed, the sensor has no     *)
(* more.  Claimed by androidfp.h, which keeps removed(0) for Clear; does   *)
(* not hold.                                                               *)
RemovedIsGone ==
  [][ \A finger \in Keys(m_fingerMap) \ Keys(m_fingerMap') :
        (Dispatch /\ Head(events).signal = "removed") => finger \notin store ]_systemVars

(* Once nothing is under way, GetAll answers with what is in the sensor.   *)
(* Claimed by fpdcommunity.h; does not hold: what is lost when postEnroll  *)
(* is refused, a Clear fails halfway or the end of a removal is not        *)
(* recognized stays lost.                                                  *)
GetAllIsStore ==
  loaded /\ m_state = "FPSTATE_IDLE" /\ Quiet => Keys(m_fingerMap) = store

(* No template is made for a Verify.  Claimed by a comment of              *)
(* slot_enrollProgress; does not hold.                                     *)
VerifyAddsNothing == [][ store' \subseteq store \/ asked # Absent ]_systemVars

(* The file is written by a process that has read it.  Claimed by a        *)
(* comment of setUser; does not hold.                                      *)
SavedAfterLoad == [][ database' # database => loaded' \/ Crash ]_systemVars
=============================================================================
