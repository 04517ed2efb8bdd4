------------------------- MODULE FPDSystemWaitProofs -------------------------
(***************************************************************************)
(* The daemon never waits for a sensor that has nothing left to say.  What *)
(* ends an operation travels: the sensor runs it, its last callback is on  *)
(* its way, the binder thread has it, its last signal is queued.  The      *)
(* invariant says that it is always at one of these places, and that none  *)
(* of them loses it: removeCallback would, if m_removingFinger named       *)
(* another template than the one that the sensor removes.                  *)
(***************************************************************************)
EXTENDS FPDSystemProofs

-----------------------------------------------------------------------------
(* Queues.                                                                 *)

Contains(queue, set) == \E i \in 1..Len(queue) : queue[i] \in set

LEMMA TailContains ==
  ASSUME NEW T, NEW queue \in Seq(T), queue # <<>>, NEW set,
         Contains(queue, set), Head(queue) \notin set
  PROVE  Contains(Tail(queue), set)
<1>1. PICK i \in 1..Len(queue) : queue[i] \in set
  BY DEF Contains
<1>2. i # 1 /\ i - 1 \in 1..Len(Tail(queue)) /\ Tail(queue)[i - 1] = queue[i]
  BY <1>1
<1> QED
  BY <1>1, <1>2 DEF Contains

LEMMA AppendContains ==
  ASSUME NEW T, NEW queue \in Seq(T), NEW last \in T, NEW set,
         Contains(queue, set) \/ last \in set
  PROVE  Contains(Append(queue, last), set)
<1> DEFINE longer == Append(queue, last)
<1>1. /\ Len(longer) = Len(queue) + 1
      /\ longer[Len(queue) + 1] = last
      /\ \A i \in 1..Len(queue) : longer[i] = queue[i]
      /\ Len(queue) \in Nat
  OBVIOUS
<1>2. CASE Contains(queue, set)
  <2>1. PICK i \in 1..Len(queue) : queue[i] \in set
    BY <1>2 DEF Contains
  <2>2. i \in 1..Len(longer) /\ longer[i] \in set
    BY <1>1, <2>1
  <2> QED
    BY <2>2 DEF Contains
<1>3. CASE last \in set
  <2>1. Len(longer) \in 1..Len(longer) /\ longer[Len(longer)] \in set
    BY <1>1, <1>3
  <2> QED
    BY <2>1 DEF Contains
<1> QED
  BY <1>2, <1>3

-----------------------------------------------------------------------------
(* The invariant.                                                          *)

(* Signals that end every operation.  (FINGER_NOT_RECOGNIZED does not end  *)
(* an Identify.)                                                           *)
LastEvents ==
  {event \in Adapter!Events :
     \/ event.signal \in {"succeeded", "removed", "authenticated", "enumerated"}
     \/ event.signal = "failed" /\ event.message = "ERROR"}

(* Callbacks from which the adapter makes such a signal.                   *)
LastCallbacks ==
  {callback \in Hal!Callbacks :
     \/ callback.on \in {"EnrollResult", "Enumerate"} /\ callback.remaining = 0
     \/ /\ callback.on = "Removed" /\ callback.remaining = 0
        /\ m_removingFinger \in {callback.finger, NoFinger}
     \/ callback.on = "Authenticated" /\ callback.finger # NoFinger
     \/ callback.on = "Error" /\ callback.error # "ERROR_NO_ERROR"}

(* The sensor runs something that it will end with such a callback.        *)
WillReport ==
  /\ sensor # Hal!Idle
  /\ sensor.op = "remove" => \/ m_removingFinger = NoFinger
                             \/ sensor.left = {m_removingFinger}

Pending ==
  \/ WillReport
  \/ Contains(callbacks, LastCallbacks)
  \/ binder.at \in {"postEnroll", "removed"}
  \/ Contains(events, LastEvents)

EndIsPending == m_state # "FPSTATE_IDLE" => Pending

LEMMA PendingKept ==
  ASSUME Pending, UNCHANGED <<sensor, callbacks, m_removingFinger, binder, events>>
  PROVE  Pending'
BY DEF Pending, WillReport, LastCallbacks, LastEvents, Contains

-----------------------------------------------------------------------------
(* Steps of the main thread.                                               *)

LEMMA CallPending ==
  ASSUME SystemTypeOK, EndIsPending, Call
  PROVE  EndIsPending'
<1> SUFFICES ASSUME m_state' # "FPSTATE_IDLE" PROVE Pending'
  BY DEF EndIsPending
<1>1. ASSUME NEW ret, Refused(ret), UNCHANGED m_state PROVE Pending'
  <2>1. UNCHANGED <<adapter, hal>>
    BY <1>1, Zenon DEF Refused
  <2>2. Pending
    BY <1>1 DEF EndIsPending
  <2> QED
    BY <2>1, <2>2, PendingKept DEF adapter, hal
<1>2. ASSUME NEW operation, operation.op # "none", operation.op # "remove",
             Hal!Request("SYS_OK", operation)
      PROVE  Pending'
  BY <1>2 DEF Hal!Request, Hal!Idle, Pending, WillReport
<1>3. ASSUME NEW caller, NEW finger, NEW ret, CallEnroll(caller, finger, ret)
      PROVE  Pending'
  <2>1. CASE EnrollReply(caller, finger) = "FPREPLY_STARTED"
    <3>1. ret = "SYS_OK" /\ Hal!Request(ret, Hal!Enrolling(Samples))
      BY <1>3, <2>1 DEF CallEnroll, Enroll, Start, Hal!enroll
    <3> QED
      BY <1>2, <3>1 DEF Hal!Enrolling
  <2>2. CASE EnrollReply(caller, finger) # "FPREPLY_STARTED"
    BY <1>1, <1>3, <2>2 DEF CallEnroll, Enroll, Refuse, volatile
  <2> QED
    BY <2>1, <2>2
<1>4. ASSUME NEW caller, NEW ret, CallIdentify(caller, ret)
      PROVE  Pending'
  <2>1. CASE IdentifyReply(caller) = "FPREPLY_STARTED"
    <3>1. ret = "SYS_OK" /\ Hal!Request(ret, Hal!Authenticating)
      BY <1>4, <2>1 DEF CallIdentify, Identify, Start, Hal!authenticate
    <3> QED
      BY <1>2, <3>1 DEF Hal!Authenticating
  <2>2. CASE IdentifyReply(caller) # "FPREPLY_STARTED"
    BY <1>1, <1>4, <2>2 DEF CallIdentify, Identify, Refuse, volatile
  <2> QED
    BY <2>1, <2>2
<1>5. ASSUME NEW caller, NEW ret, CallVerify(caller, ret)
      PROVE  Pending'
  <2>1. CASE VerifyReply(caller) = "FPREPLY_STARTED"
    <3>1. ret = "SYS_OK" /\ Hal!Request(ret, Hal!Enrolling(Samples))
      BY <1>5, <2>1 DEF CallVerify, Verify, Start, Hal!enroll
    <3> QED
      BY <1>2, <3>1 DEF Hal!Enrolling
  <2>2. CASE VerifyReply(caller) # "FPREPLY_STARTED"
    BY <1>1, <1>5, <2>2 DEF CallVerify, Verify, Refuse, volatile
  <2> QED
    BY <2>1, <2>2
<1>6. ASSUME NEW finger, Hal!remove("SYS_OK", finger), Adapter!remove(finger)
      PROVE  Pending'
  BY <1>6 DEF Hal!remove, Hal!Request, Hal!Removing, Hal!Idle, Hal!NoFinger,
              Adapter!remove, NoFinger, Pending, WillReport
<1>7. ASSUME NEW caller, NEW ret, CallClear(caller, ret)
      PROVE  Pending'
  <2>1. CASE ClearAccepted(caller)
    <3>1. ret = "SYS_OK" /\ Hal!remove(ret, NoFinger) /\ Adapter!remove(NoFinger)
      BY <1>7, <2>1 DEF CallClear, Clear, Start, Adapter!clear, Adapter!NoFinger,
                        NoFinger
    <3> QED
      BY <1>6, <3>1
  <2>2. CASE ~ClearAccepted(caller)
    BY <1>1, <1>7, <2>2 DEF CallClear, Clear, Refuse, volatile
  <2> QED
    BY <2>1, <2>2
<1>8. ASSUME NEW caller, NEW finger, NEW ret, CallRemove(caller, finger, ret)
      PROVE  Pending'
  <2>1. CASE RemoveReply(caller, finger) = "FPREPLY_STARTED"
    <3> DEFINE key == KeyOf(m_fingerMap, finger)
    <3>1. ret = "SYS_OK" /\ Hal!remove(ret, key) /\ Adapter!remove(key)
      BY <1>8, <2>1 DEF CallRemove, Remove, Start
    <3> QED
      BY <1>6, <3>1
  <2>2. CASE RemoveReply(caller, finger) # "FPREPLY_STARTED"
    BY <1>1, <1>8, <2>2 DEF CallRemove, Remove, Refuse, volatile
  <2> QED
    BY <2>1, <2>2
<1>9. ASSUME NEW caller, CallAbort(caller)
      PROVE  Pending'
  <2>1. UNCHANGED m_state /\ AbortReply(caller) # "FPREPLY_STARTED"
    BY <1>9 DEF CallAbort, Abort, abort, GoIdle, Refuse, volatile
  <2>2. UNCHANGED <<adapter, hal>> /\ Pending
    BY <1>9, <2>1 DEF CallAbort, EndIsPending
  <2> QED
    BY <2>2, PendingKept DEF adapter, hal
<1> QED
  BY <1>3, <1>4, <1>5, <1>7, <1>8, <1>9, Zenon DEF Call

(* A signal that is one of the last ends the operation; any other leaves   *)
(* what is behind it in the queue.                                         *)
LEMMA DispatchPending ==
  ASSUME SystemTypeOK, EndIsPending, Dispatch
  PROVE  EndIsPending'
<1> SUFFICES ASSUME m_state' # "FPSTATE_IDLE" PROVE Pending'
  BY DEF EndIsPending
<1> DEFINE event == Head(events)
<1>1. /\ events \in Seq(Adapter!Events) /\ events # <<>> /\ events' = Tail(events)
      /\ UNCHANGED <<m_removingFinger, binder>>
  BY DEF SystemTypeOK, Adapter!TypeOK, Dispatch, Adapter!TakeEvent
<1>2. /\ m_state # "FPSTATE_IDLE"
      /\ event \notin LastEvents
      /\ UNCHANGED hal
  <2> USE DEF GoIdle, LastEvents
  <2>1. CASE OnEnrollProgress(event)
    BY <2>1 DEF OnEnrollProgress, slot_enrollProgress, abort
  <2>2. CASE OnFailed(event)
    BY <2>2 DEF OnFailed, slot_failed
  <2>3. CASE OnAcquired(event)
    BY <2>3 DEF OnAcquired, slot_acquired
  <2>4. CASE OnSucceeded(event) \/ OnRemoved(event) \/ OnAuthenticated(event)
             \/ OnEnumerated(event)
    BY <2>4 DEF OnSucceeded, OnRemoved, OnAuthenticated, OnEnumerated,
                slot_succeeded, slot_removed, slot_authenticated, slot_enumerated
  <2> QED
    BY <2>1, <2>2, <2>3, <2>4 DEF Dispatch
<1>3. Contains(events, LastEvents) => Contains(events', LastEvents)
  BY <1>1, <1>2, TailContains
<1> QED
  BY <1>1, <1>2, <1>3
  DEF EndIsPending, Pending, WillReport, LastCallbacks, LastEvents, Contains, hal

-----------------------------------------------------------------------------
(* Steps of the binder thread.                                             *)

(* What is queued stays queued, and a last signal is one more reason.      *)
LEMMA EmitPending ==
  ASSUME events \in Seq(Adapter!Events), NEW event \in Adapter!Events,
         Adapter!Emit(event), Contains(events, LastEvents) \/ event \in LastEvents
  PROVE  Contains(events', LastEvents)
BY AppendContains DEF Adapter!Emit

LEMMA DeliverPending ==
  ASSUME SystemTypeOK, Pending, Deliver
  PROVE  Pending'
<1> DEFINE callback == Head(callbacks)
<1> USE DEF Adapter!UnchangedShared, Adapter!NoFinger, NoFinger
<1>1. /\ callbacks \in Seq(Hal!Callbacks) /\ callbacks # <<>>
      /\ callbacks' = Tail(callbacks)
      /\ UNCHANGED sensor
      /\ callback \in Hal!Callbacks
      /\ events \in Seq(Adapter!Events)
      /\ Hal!TypeOK /\ Adapter!TypeOK
  BY DEF SystemTypeOK, Adapter!TypeOK, Hal!TypeOK, Deliver
<1>2. /\ UNCHANGED m_removingFinger
      /\ binder.at \notin {"postEnroll", "removed"}
  BY DEF Deliver, Adapter!enrollCallback, Adapter!removeCallback,
         Adapter!enumerateCallback, Adapter!authenticated_cb,
         Adapter!acquired_cb, Adapter!error_cb, Adapter!Ready, Adapter!Free
<1>3. WillReport => WillReport'
  BY <1>1, <1>2 DEF WillReport
<1>4. LastCallbacks' = LastCallbacks
  BY <1>2 DEF LastCallbacks
<1>5. Contains(callbacks, LastCallbacks) /\ callback \notin LastCallbacks
        => Contains(callbacks', LastCallbacks')
  BY <1>1, <1>4, TailContains
<1>6. /\ Adapter!TypeOK'
      /\ LastEvents' = LastEvents
  BY <1>1, DeliverTypes DEF LastEvents
<1>7. ASSUME NEW event, Adapter!Emit(event), Contains(events, LastEvents) \/ event \in LastEvents,
             event \in Adapter!Events
      PROVE  Contains(events', LastEvents)
  BY <1>1, <1>7, EmitPending
<1>8. /\ Contains(events, LastEvents) => Contains(events', LastEvents)
      /\ callback \in LastCallbacks
           => \/ Contains(events', LastEvents)
              \/ binder'.at \in {"postEnroll", "removed"}
  <2>1. CASE /\ callback.on = "EnrollResult"
             /\ Adapter!enrollCallback(callback.finger, callback.remaining)
    <3>1. Adapter!EnrollProgress(100) \in Adapter!Events
      BY DEF Adapter!EnrollProgress, Adapter!Events, Adapter!ProgressValues
    <3>2. Contains(events, LastEvents) => Contains(events', LastEvents)
      BY <1>7, <2>1, <3>1 DEF Adapter!enrollCallback
    <3>3. callback \in LastCallbacks => binder'.at = "postEnroll"
      BY <2>1 DEF LastCallbacks, Adapter!enrollCallback
    <3> QED
      BY <3>2, <3>3
  <2>2. CASE /\ callback.on = "Removed"
             /\ Adapter!removeCallback(callback.finger, callback.remaining)
    BY <2>2 DEF LastCallbacks, Adapter!removeCallback
  <2>3. CASE /\ callback.on = "Enumerate"
             /\ Adapter!enumerateCallback(callback.finger, callback.remaining)
    <3>1. /\ Adapter!Enumerated \in Adapter!Events
          /\ Adapter!Enumerated \in LastEvents
      BY DEF Adapter!Enumerated, Adapter!Events, LastEvents
    <3>2. callback \in LastCallbacks => callback.remaining = 0
      BY <2>3 DEF LastCallbacks
    <3> QED
      BY <1>7, <2>3, <3>1, <3>2 DEF Adapter!enumerateCallback
  <2>4. CASE /\ callback.on = "Authenticated"
             /\ Adapter!authenticated_cb(callback.finger)
    <3> DEFINE event == IF callback.finger # 0
                        THEN Adapter!Authenticated(callback.finger)
                        ELSE Adapter!Failed("FINGER_NOT_RECOGNIZED")
    <3>1. callback.finger \in Fingers \union {0}
      BY <1>1, <2>4 DEF Hal!Callbacks, Hal!FingerIds, Hal!NoFinger
    <3>2. event \in Adapter!Events /\ Adapter!Emit(event)
      BY <2>4, <3>1 DEF Adapter!Authenticated, Adapter!Failed, Adapter!Events,
                        Adapter!authenticated_cb
    <3>3. callback \in LastCallbacks => event \in LastEvents
      BY <2>4, <3>2 DEF LastCallbacks, LastEvents, Adapter!Authenticated
    <3> QED
      BY <1>7, <3>2, <3>3
  <2>5. CASE callback.on = "Acquired" /\ Adapter!acquired_cb(callback.info)
    <3>1. Adapter!Acquired(callback.info) \in Adapter!Events
      BY <1>1, <2>5, InfosAssumption DEF Hal!Callbacks, Adapter!Acquired, Adapter!Events
    <3>2. callback \notin LastCallbacks
      BY <2>5 DEF LastCallbacks
    <3> QED
      BY <1>7, <2>5, <3>1, <3>2 DEF Adapter!acquired_cb
  <2>6. CASE callback.on = "Error" /\ Adapter!error_cb(callback.error)
    <3>1. callback.error \in {"ERROR", "ERROR_NO_ERROR"}
      BY <1>1, <2>6, ErrorsAssumption DEF Hal!Callbacks
    <3>2. CASE callback.error = "ERROR"
      <4>1. Adapter!Failed("ERROR") \in LastEvents
        BY DEF Adapter!Failed, Adapter!Events, LastEvents
      <4>2. LastEvents \subseteq Adapter!Events
        BY DEF LastEvents
      <4> QED
        BY <1>7, <2>6, <3>2, <4>1, <4>2 DEF Adapter!error_cb
    <3>3. CASE callback.error = "ERROR_NO_ERROR"
      BY <2>6, <3>3 DEF Adapter!error_cb, LastCallbacks
    <3> QED
      BY <3>1, <3>2, <3>3
  <2> QED
    BY <2>1, <2>2, <2>3, <2>4, <2>5, <2>6 DEF Deliver
<1> QED
  BY <1>2, <1>3, <1>5, <1>6, <1>8 DEF Pending

LEMMA BinderPending ==
  ASSUME SystemTypeOK, EndIsPending, Binder
  PROVE  EndIsPending'
<1> SUFFICES ASSUME m_state' # "FPSTATE_IDLE" PROVE Pending'
  BY DEF EndIsPending
<1> USE DEF Adapter!UnchangedShared, Adapter!NoFinger, NoFinger
<1>1. UNCHANGED m_state /\ Pending
  BY DEF Binder, Elsewhere, volatile, EndIsPending
<1>2. /\ Adapter!TypeOK
      /\ events \in Seq(Adapter!Events)
      /\ LastEvents' = LastEvents
  BY DEF SystemTypeOK, Adapter!TypeOK, LastEvents
<1>3. CASE Deliver
  BY <1>1, <1>3, DeliverPending
<1>4. ASSUME NEW ret, PostEnroll(ret)
      PROVE  Pending'
  <2> DEFINE event == IF ret = "SYS_OK" THEN Adapter!Succeeded(binder.finger)
                      ELSE Adapter!Failed("ERROR")
  <2>1. binder.finger \in Fingers /\ Adapter!Emit(event)
    BY <1>2, <1>4 DEF PostEnroll, Adapter!postEnroll, Adapter!TypeOK,
                      Adapter!BinderStates, Adapter!Free
  <2>2. event \in Adapter!Events /\ event \in LastEvents
    BY <2>1 DEF Adapter!Succeeded, Adapter!Failed, Adapter!Events, LastEvents
  <2>3. Contains(events', LastEvents)
    BY <1>2, <2>1, <2>2, EmitPending
  <2> QED
    BY <1>2, <2>3 DEF Pending
<1>5. CASE Adapter!emitRemoved
  <2> DEFINE event == Adapter!Removed(IF m_removingFinger = 0 THEN 0 ELSE binder.finger)
  <2>1. binder.finger \in Fingers \union {0} /\ Adapter!Emit(event)
    BY <1>2, <1>5 DEF Adapter!emitRemoved, Adapter!TypeOK, Adapter!BinderStates,
                      Adapter!Free
  <2>2. event \in Adapter!Events /\ event \in LastEvents
    BY <2>1 DEF Adapter!Removed, Adapter!Events, LastEvents
  <2>3. Contains(events', LastEvents)
    BY <1>2, <2>1, <2>2, EmitPending
  <2> QED
    BY <1>2, <2>3 DEF Pending
<1>6. CASE Adapter!enrollProgress /\ UNCHANGED hal
  <2> DEFINE event == Adapter!EnrollProgress(Adapter!Percent(binder.remaining))
  <2>1. binder.remaining \in 1..Samples /\ binder.at = "progress"
    BY <1>2, <1>6 DEF Adapter!enrollProgress, Adapter!TypeOK, Adapter!BinderStates,
                      Adapter!Free
  <2>2. event \in Adapter!Events
    BY <1>2, <2>1, PercentType DEF Adapter!EnrollProgress, Adapter!Events
  <2>3. Contains(events, LastEvents) => Contains(events', LastEvents)
    BY <1>2, <1>6, <2>2, EmitPending DEF Adapter!enrollProgress
  <2> QED
    BY <1>1, <1>2, <1>6, <2>1, <2>3
    DEF Adapter!enrollProgress, Pending, WillReport, LastCallbacks, Contains, hal
<1>7. CASE Adapter!forgetRemoving /\ UNCHANGED hal
  <2>1. WillReport => WillReport'
    BY <1>7 DEF Adapter!forgetRemoving, WillReport, hal
  <2>2. LastCallbacks \subseteq LastCallbacks'
    BY <1>7 DEF Adapter!forgetRemoving, LastCallbacks
  <2> QED
    BY <1>1, <1>2, <1>7, <2>1, <2>2
    DEF Adapter!forgetRemoving, Pending, Contains, hal
<1> QED
  BY <1>3, <1>4, <1>5, <1>6, <1>7 DEF Binder

-----------------------------------------------------------------------------
(* Steps of the sensor.                                                    *)

LEMMA SendPending ==
  ASSUME callbacks \in Seq(Hal!Callbacks), NEW callback \in Hal!Callbacks,
         Hal!Send(callback), UNCHANGED m_removingFinger,
         Contains(callbacks, LastCallbacks) \/ callback \in LastCallbacks
  PROVE  Contains(callbacks', LastCallbacks')
<1>1. LastCallbacks' = LastCallbacks
  BY DEF LastCallbacks
<1> QED
  BY <1>1, AppendContains DEF Hal!Send

(* The sensor goes on, or it sends the last callback.                      *)
LEMMA ReportPending ==
  ASSUME SystemTypeOK, Pending, UNCHANGED <<m_removingFinger, binder, events>>,
         NEW callback \in Hal!Callbacks, Hal!Send(callback),
         WillReport => WillReport' \/ callback \in LastCallbacks
  PROVE  Pending'
<1>1. callbacks \in Seq(Hal!Callbacks)
  BY DEF SystemTypeOK, Hal!TypeOK
<1>2. CASE WillReport
  BY <1>1, <1>2, SendPending DEF Pending
<1>3. CASE Contains(callbacks, LastCallbacks)
  BY <1>1, <1>3, SendPending DEF Pending
<1>4. LastEvents' = LastEvents
  BY DEF LastEvents
<1> QED
  BY <1>2, <1>3, <1>4 DEF Pending, Contains

LEMMA SensorPending ==
  ASSUME SystemTypeOK, EndIsPending, Sensor \/ Acquire,
         "ERROR_NO_ERROR" \notin ErrorCodes
  PROVE  EndIsPending'
<1> SUFFICES ASSUME m_state' # "FPSTATE_IDLE" PROVE Pending'
  BY DEF EndIsPending
<1> USE DEF Hal!Callbacks, Hal!FingerIds, Hal!NoFinger, NoFinger, FingerIds
<1>1. /\ Pending /\ Hal!TypeOK
      /\ UNCHANGED <<m_removingFinger, binder, events>>
  BY DEF Sensor, Acquire, Elsewhere, volatile, EndIsPending, SystemTypeOK, adapter
<1>2. ASSUME NEW finger \in Fingers, Hal!Sample(finger)
      PROVE  Pending'
  <2>1. sensor.samples \in 1..Samples
    BY <1>1, <1>2 DEF Hal!Sample, Hal!TypeOK, Hal!Operations, Hal!Idle,
                      Hal!Authenticating
  <2>2. CASE sensor.samples > 1
    <3> DEFINE callback == Hal!OnEnrollResult(0, sensor.samples - 1)
    <3>1. callback \in Hal!Callbacks
      BY <2>1, <2>2, SamplesAssumption DEF Hal!OnEnrollResult
    <3>2. Hal!Send(callback) /\ WillReport'
      BY <1>2, <2>2 DEF Hal!Sample, Hal!Enrolling, Hal!Idle, WillReport
    <3> QED
      BY <1>1, <3>1, <3>2, ReportPending
  <2>3. CASE sensor.samples = 1
    <3> DEFINE callback == Hal!OnEnrollResult(finger, 0)
    <3>1. callback \in Hal!Callbacks
      BY SamplesAssumption DEF Hal!OnEnrollResult
    <3>2. Hal!Send(callback) /\ callback \in LastCallbacks
      BY <1>2, <2>3, <3>1 DEF Hal!Sample, Hal!OnEnrollResult, LastCallbacks
    <3> QED
      BY <1>1, <3>1, <3>2, ReportPending
  <2> QED
    BY <1>2, <2>2, <2>3 DEF Hal!Sample
<1>3. CASE Hal!Fail
  <2>1. PICK error \in ErrorCodes : Hal!Send(Hal!OnError(error))
    BY <1>3 DEF Hal!Fail
  <2>2. Hal!OnError(error) \in Hal!Callbacks /\ Hal!OnError(error) \in LastCallbacks
    BY DEF Hal!OnError, LastCallbacks
  <2> QED
    BY <1>1, <2>1, <2>2, ReportPending
<1>4. CASE Hal!Reject
  <2>1. Hal!OnAuthenticated(0) \in Hal!Callbacks
    BY DEF Hal!OnAuthenticated
  <2>2. Hal!Send(Hal!OnAuthenticated(0)) /\ (WillReport => WillReport')
    BY <1>1, <1>4 DEF Hal!Reject, WillReport
  <2> QED
    BY <1>1, <2>1, <2>2, ReportPending
<1>5. ASSUME NEW finger \in FingerIds, Hal!Match(finger)
      PROVE  Pending'
  <2>1. finger \in Fingers /\ finger # 0
    BY <1>1, <1>5, ConstantsAssumption DEF Hal!Match, Hal!TypeOK
  <2>2. Hal!OnAuthenticated(finger) \in LastCallbacks
    BY <2>1 DEF Hal!OnAuthenticated, LastCallbacks
  <2>3. Hal!OnAuthenticated(finger) \in Hal!Callbacks
    BY <2>2 DEF LastCallbacks
  <2> QED
    BY <1>1, <1>5, <2>2, <2>3, ReportPending DEF Hal!Match
<1>6. ASSUME NEW finger \in FingerIds, Hal!RemoveNext(finger)
      PROVE  Pending'
  <2> DEFINE callback == Hal!OnRemoved(finger, Hal!Remaining(finger))
  <2>1. callback \in Hal!Callbacks
    BY DEF Hal!OnRemoved, Hal!Remaining
  <2>2. WillReport /\ Hal!Remaining(finger) = 0 => callback \in LastCallbacks
    BY <1>6, <2>1 DEF Hal!RemoveNext, Hal!OnRemoved, WillReport, LastCallbacks
  <2>3. WillReport /\ Hal!Remaining(finger) # 0 => WillReport'
    BY <1>1, <1>6 DEF Hal!RemoveNext, Hal!Remaining, Hal!Removing, Hal!Idle, WillReport
  <2> QED
    BY <1>1, <1>6, <2>1, <2>2, <2>3, ReportPending DEF Hal!RemoveNext
<1>7. ASSUME NEW finger \in FingerIds, Hal!EnumerateNext(finger)
      PROVE  Pending'
  <2> DEFINE callback == Hal!OnEnumerate(finger, Hal!Remaining(finger))
  <2>1. callback \in Hal!Callbacks
    BY DEF Hal!OnEnumerate, Hal!Remaining
  <2>2. Hal!Remaining(finger) = 0 => callback \in LastCallbacks
    BY <2>1 DEF Hal!OnEnumerate, LastCallbacks
  <2>3. Hal!Remaining(finger) # 0 => WillReport'
    BY <1>7 DEF Hal!EnumerateNext, Hal!Enumerating, Hal!Idle, WillReport
  <2> QED
    BY <1>1, <1>7, <2>1, <2>2, <2>3, ReportPending DEF Hal!EnumerateNext
<1>8. CASE Acquire
  <2>1. PICK info \in SensorInfos : Hal!Acquire(info)
    BY <1>8 DEF Acquire
  <2>2. Hal!OnAcquired(info) \in Hal!Callbacks
    BY AcquiredCallback
  <2>3. Hal!Send(Hal!OnAcquired(info)) /\ (WillReport => WillReport')
    BY <1>1, <2>1 DEF Hal!Acquire, WillReport
  <2> QED
    BY <1>1, <2>2, <2>3, ReportPending
<1> QED
  BY <1>2, <1>3, <1>4, <1>5, <1>6, <1>7, <1>8 DEF Sensor, Sample, Fail

-----------------------------------------------------------------------------
(* When every error of the sensor is one that the bridge knows, the end of *)
(* every operation is on its way as long as the operation lasts, through   *)
(* aborts, refusals, late completions and restarts.  (An error that the    *)
(* bridge does not know is dropped by the adapter, and with it the end.)   *)
THEOREM NothingWaitsInVain ==
  ASSUME "ERROR_NO_ERROR" \notin ErrorCodes
  PROVE  SystemSpec => []WaitsForSomething
<1>1. SystemInit => EndIsPending
  BY DEF SystemInit, Hal!Enumerating, Hal!Idle, EndIsPending, Pending, WillReport
<1>2. SystemTypeOK /\ EndIsPending /\ [SystemNext]_systemVars => EndIsPending'
  <2> SUFFICES ASSUME SystemTypeOK, EndIsPending, [SystemNext]_systemVars
               PROVE  EndIsPending'
    OBVIOUS
  <2>1. CASE Timeout
    BY <2>1 DEF Timeout, slot_cancelIdentify, GoIdle, EndIsPending
  <2>2. CASE EnrollReturns
    <3>1. UNCHANGED <<m_state, sensor, callbacks, m_removingFinger, binder, events>>
      BY <2>2 DEF EnrollReturns, Adapter!enrollReturns, Elsewhere, volatile, hal
    <3> QED
      BY <3>1, PendingKept DEF EndIsPending
  <2>3. CASE Crash
    BY <2>3 DEF Crash, Restart, StartState, Hal!Enumerating, Hal!Idle,
                EndIsPending, Pending, WillReport
  <2>4. CASE UNCHANGED systemVars
    <3>1. UNCHANGED <<m_state, sensor, callbacks, m_removingFinger, binder, events>>
      BY <2>4 DEF systemVars, vars, volatile, adapter, hal
    <3> QED
      BY <3>1, PendingKept DEF EndIsPending
  <2> QED
    BY <2>1, <2>2, <2>3, <2>4, CallPending, DispatchPending, BinderPending,
       SensorPending DEF SystemNext
<1>3. EndIsPending => WaitsForSomething
  <2> SUFFICES ASSUME Pending, Quiet PROVE FALSE
    BY DEF EndIsPending, WaitsForSomething
  <2> QED
    BY DEF Pending, WillReport, Contains, Quiet, Adapter!Free
<1> QED
  BY <1>1, <1>2, <1>3, SystemTypeCorrect, PTL DEF SystemSpec
=============================================================================
