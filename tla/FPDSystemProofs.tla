--------------------------- MODULE FPDSystemProofs ---------------------------
(***************************************************************************)
(* The composed system takes only steps of the open FPDCommunity, for any  *)
(* number of samples, templates and clients and any bounds on the queues.  *)
(* What FPDCommunityProofs shows of the daemon holds of the whole program. *)
(***************************************************************************)
EXTENDS FPDSystem, FPDCommunityProofs

-----------------------------------------------------------------------------
(* What the sensor sends.                                                  *)

LEMMA RequestType ==
  ASSUME Hal!TypeOK, NEW ret, NEW operation \in Hal!Operations,
         Hal!Request(ret, operation)
  PROVE  Hal!TypeOK'
BY DEF Hal!Request, Hal!TypeOK

LEMMA RequestTypes ==
  ASSUME Hal!TypeOK, NEW ret, NEW finger \in FingerIds,
         \/ Hal!enroll(ret)
         \/ Hal!authenticate(ret)
         \/ Hal!remove(ret, finger)
  PROVE  Hal!TypeOK'
<1> USE DEF Hal!Operations
<1>1. CASE Hal!enroll(ret)
  <2>1. Hal!Enrolling(Samples) \in Hal!Operations
    BY SamplesAssumption DEF Hal!Enrolling
  <2> QED
    BY <1>1, <2>1, RequestType DEF Hal!enroll
<1>2. CASE Hal!authenticate(ret)
  BY <1>2, RequestType DEF Hal!authenticate
<1>3. CASE Hal!remove(ret, finger)
  <2> DEFINE which == IF finger = Hal!NoFinger THEN store ELSE {finger}
  <2>1. which \in SUBSET Fingers
    BY DEF Hal!TypeOK, Hal!NoFinger, FingerIds, NoFinger
  <2>2. Hal!Removing(which, which) \in Hal!Operations
    BY <2>1 DEF Hal!Removing
  <2> QED
    BY <1>3, <2>2, RequestType DEF Hal!remove
<1> QED
  BY <1>1, <1>2, <1>3

LEMMA SendType ==
  ASSUME Hal!TypeOK, NEW callback \in Hal!Callbacks, Hal!Send(callback),
         callback.on = "EnrollResult" /\ callback.remaining = 0
           => callback.finger \in Fingers
  PROVE  /\ callbacks' \in Seq(Hal!Callbacks)
         /\ \A i \in 1..Len(callbacks') :
              callbacks'[i].on = "EnrollResult" /\ callbacks'[i].remaining = 0
                => callbacks'[i].finger \in Fingers
<1>1. /\ callbacks \in Seq(Hal!Callbacks)
      /\ callbacks' = Append(callbacks, callback)
  BY DEF Hal!TypeOK, Hal!Send
<1>2. callbacks' \in Seq(Hal!Callbacks)
  BY <1>1
<1>3. \A i \in 1..Len(callbacks') :
        callbacks'[i] = IF i <= Len(callbacks) THEN callbacks[i] ELSE callback
  BY <1>1
<1> QED
  BY <1>1, <1>2, <1>3 DEF Hal!TypeOK

LEMMA ErrorType ==
  ASSUME NEW error \in ErrorCodes \union {"ERROR"}
  PROVE  /\ Hal!OnError(error) \in Hal!Callbacks
         /\ Hal!OnError(error).on # "EnrollResult"
BY DEF Hal!OnError, Hal!Callbacks

LEMMA CancelType ==
  ASSUME Hal!TypeOK, Hal!cancel
  PROVE  Hal!TypeOK'
<1>1. CASE sensor' = Hal!Idle /\ Hal!Send(Hal!OnError("ERROR"))
  BY <1>1, SendType, ErrorType DEF Hal!cancel, Hal!TypeOK, Hal!Operations
<1>2. CASE UNCHANGED <<sensor, callbacks>>
  BY <1>2 DEF Hal!cancel, Hal!TypeOK
<1> QED
  BY <1>1, <1>2 DEF Hal!cancel

LEMMA SensorTypes ==
  ASSUME Hal!TypeOK, Sensor
  PROVE  Hal!TypeOK'
<1> USE DEF Hal!Operations, Hal!Callbacks, Hal!FingerIds, Hal!NoFinger
<1>1. ASSUME NEW finger \in Fingers, Hal!Sample(finger)
      PROVE  Hal!TypeOK'
  <2>1. sensor.samples \in 1..Samples
    BY <1>1 DEF Hal!Sample, Hal!TypeOK, Hal!Idle, Hal!Authenticating
  <2>2. CASE sensor.samples > 1
    <3>1. Hal!OnEnrollResult(Hal!NoFinger, sensor.samples - 1) \in Hal!Callbacks
      BY <2>1, <2>2, SamplesAssumption DEF Hal!OnEnrollResult
    <3>2. Hal!Enrolling(sensor.samples - 1) \in Hal!Operations
      BY <2>1, <2>2, SamplesAssumption DEF Hal!Enrolling
    <3>3. Hal!OnEnrollResult(Hal!NoFinger, sensor.samples - 1).remaining # 0
      BY <2>1, <2>2, SamplesAssumption DEF Hal!OnEnrollResult
    <3> QED
      BY <1>1, <2>2, <3>1, <3>2, <3>3, SendType DEF Hal!Sample, Hal!TypeOK
  <2>3. CASE sensor.samples = 1
    <3>1. /\ Hal!OnEnrollResult(finger, 0) \in Hal!Callbacks
          /\ Hal!OnEnrollResult(finger, 0).finger \in Fingers
      BY SamplesAssumption DEF Hal!OnEnrollResult
    <3> QED
      BY <1>1, <2>3, <3>1, SendType DEF Hal!Sample, Hal!TypeOK
  <2> QED
    BY <1>1, <2>2, <2>3 DEF Hal!Sample
<1>2. CASE Hal!Fail
  <2>1. PICK error \in ErrorCodes : Hal!Send(Hal!OnError(error))
    BY <1>2 DEF Hal!Fail
  <2> QED
    BY <1>2, <2>1, SendType, ErrorType DEF Hal!Fail, Hal!TypeOK
<1>3. CASE Hal!Reject
  <2>1. /\ Hal!OnAuthenticated(Hal!NoFinger) \in Hal!Callbacks
        /\ Hal!OnAuthenticated(Hal!NoFinger).on # "EnrollResult"
    BY DEF Hal!OnAuthenticated
  <2> QED
    BY <1>3, <2>1, SendType DEF Hal!Reject, Hal!TypeOK
<1>4. ASSUME NEW finger \in FingerIds, Hal!Match(finger)
      PROVE  Hal!TypeOK'
  <2>1. /\ Hal!OnAuthenticated(finger) \in Hal!Callbacks
        /\ Hal!OnAuthenticated(finger).on # "EnrollResult"
    BY DEF Hal!OnAuthenticated, FingerIds, NoFinger
  <2> QED
    BY <1>4, <2>1, SendType DEF Hal!Match, Hal!TypeOK
<1>5. ASSUME NEW finger \in FingerIds, Hal!RemoveNext(finger)
      PROVE  Hal!TypeOK'
  <2>1. /\ Hal!OnRemoved(finger, Hal!Remaining(finger)) \in Hal!Callbacks
        /\ Hal!OnRemoved(finger, Hal!Remaining(finger)).on # "EnrollResult"
    BY DEF Hal!OnRemoved, Hal!Remaining, FingerIds, NoFinger
  <2>2. sensor' \in Hal!Operations
    BY <1>5 DEF Hal!RemoveNext, Hal!TypeOK, Hal!Idle, Hal!Authenticating,
                Hal!Removing
  <2> QED
    BY <1>5, <2>1, <2>2, SendType DEF Hal!RemoveNext, Hal!TypeOK
<1>6. ASSUME NEW finger \in FingerIds, Hal!EnumerateNext(finger)
      PROVE  Hal!TypeOK'
  <2>1. /\ Hal!OnEnumerate(finger, Hal!Remaining(finger)) \in Hal!Callbacks
        /\ Hal!OnEnumerate(finger, Hal!Remaining(finger)).on # "EnrollResult"
    BY DEF Hal!OnEnumerate, Hal!Remaining, FingerIds, NoFinger
  <2>2. sensor' \in Hal!Operations
    BY <1>6 DEF Hal!EnumerateNext, Hal!TypeOK, Hal!Idle, Hal!Authenticating,
                Hal!Enumerating
  <2> QED
    BY <1>6, <2>1, <2>2, SendType DEF Hal!EnumerateNext, Hal!TypeOK
<1> QED
  BY <1>1, <1>2, <1>3, <1>4, <1>5, <1>6 DEF Sensor, Sample, Fail

LEMMA AcquiredCallback ==
  ASSUME NEW info \in SensorInfos
  PROVE  Hal!OnAcquired(info) \in Hal!Callbacks /\ Hal!OnAcquired(info).on = "Acquired"
<1>1. Hal!HIDLToUFingerprintAcquiredInfo(info) \in Hal!PassedInfos
  BY DEF Hal!PassedInfos
<1> QED
  BY <1>1 DEF Hal!OnAcquired, Hal!Callbacks

LEMMA AcquireType ==
  ASSUME Hal!TypeOK, Acquire
  PROVE  Hal!TypeOK'
<1>1. PICK info \in SensorInfos : Hal!Acquire(info)
  BY DEF Acquire
<1> QED
  BY <1>1, AcquiredCallback, SendType DEF Hal!Acquire, Hal!TypeOK

-----------------------------------------------------------------------------
(* What the binder thread queues.                                          *)

LEMMA EmitType ==
  ASSUME events \in Seq(Adapter!Events), NEW event \in Adapter!Events,
         Adapter!Emit(event)
  PROVE  events' \in Seq(Adapter!Events)
BY DEF Adapter!Emit

(* A progress that is not 0 .. 100 can only be the undefined one.          *)
LEMMA PercentType ==
  ASSUME Adapter!TypeOK, NEW remaining \in 1..Samples
  PROVE  Adapter!Percent(remaining) \in Adapter!ProgressValues
<1>1. m_enrollRemaining \in 0..Samples
  BY DEF Adapter!TypeOK
<1>2. CASE m_enrollRemaining = 0
  BY <1>2 DEF Adapter!Percent, Adapter!ProgressValues
<1>3. CASE m_enrollRemaining # 0
  <2>1. m_enrollRemaining \in 1..Samples
    BY <1>1, <1>3, SamplesAssumption
  <2> QED
    BY <1>3, <2>1 DEF Adapter!Percent, Adapter!ProgressValues
<1> QED
  BY <1>2, <1>3

LEMMA MainThreadTypes ==
  ASSUME Adapter!TypeOK, NEW ret, NEW finger \in FingerIds,
         \/ Adapter!enroll(ret)
         \/ Adapter!remove(finger)
         \/ Adapter!clear
         \/ Adapter!enrollReturns
         \/ Adapter!TakeEvent
  PROVE  Adapter!TypeOK'
<1>0. 0 \in 0..Samples
  BY SamplesAssumption
<1>1. CASE Adapter!enroll(ret)
  BY <1>0, <1>1, Zenon DEF Adapter!enroll, Adapter!TypeOK
<1>2. CASE Adapter!remove(finger)
  BY <1>2 DEF Adapter!remove, Adapter!TypeOK, Adapter!NoFinger, FingerIds, NoFinger
<1>3. CASE Adapter!clear
  BY <1>3 DEF Adapter!clear, Adapter!remove, Adapter!TypeOK, Adapter!NoFinger
<1>4. CASE Adapter!enrollReturns
  BY <1>0, <1>4, Zenon DEF Adapter!enrollReturns, Adapter!TypeOK
<1>5. CASE Adapter!TakeEvent
  <2>1. events' \in Seq(Adapter!Events)
    BY <1>5 DEF Adapter!TakeEvent, Adapter!TypeOK
  <2> QED
    BY <1>5, <2>1, Zenon DEF Adapter!TakeEvent, Adapter!TypeOK
<1> QED
  BY <1>1, <1>2, <1>3, <1>4, <1>5

LEMMA HeadTypes ==
  ASSUME Hal!TypeOK, callbacks # <<>>, callbacks' = Tail(callbacks),
         UNCHANGED <<sensor, store>>
  PROVE  /\ Head(callbacks) \in Hal!Callbacks
         /\ Head(callbacks).on = "EnrollResult" /\ Head(callbacks).remaining = 0
              => Head(callbacks).finger \in Fingers
         /\ Hal!TypeOK'
<1>1. callbacks \in Seq(Hal!Callbacks) /\ Len(callbacks) \in Nat \ {0}
  BY DEF Hal!TypeOK
<1>2. Head(callbacks) = callbacks[1] /\ 1 \in 1..Len(callbacks)
  BY <1>1
<1>3. /\ callbacks' \in Seq(Hal!Callbacks)
      /\ \A i \in 1..Len(callbacks') :
           i + 1 \in 1..Len(callbacks) /\ callbacks'[i] = callbacks[i + 1]
  BY <1>1
<1> QED
  BY <1>1, <1>2, <1>3 DEF Hal!TypeOK

LEMMA DeliverTypes ==
  ASSUME Adapter!TypeOK, Hal!TypeOK, Deliver
  PROVE  Adapter!TypeOK' /\ Hal!TypeOK'
<1> DEFINE callback == Head(callbacks)
<1> USE DEF Adapter!NoFinger, Hal!NoFinger, Hal!FingerIds
<1>1. /\ callback \in Hal!Callbacks
      /\ callback.on = "EnrollResult" /\ callback.remaining = 0
           => callback.finger \in Fingers
      /\ Hal!TypeOK'
  BY HeadTypes DEF Deliver
<1> SUFFICES Adapter!TypeOK'
  BY <1>1
<1>2. CASE /\ callback.on = "EnrollResult"
           /\ Adapter!enrollCallback(callback.finger, callback.remaining)
  <2>1. callback.remaining \in 0..(Samples - 1)
    BY <1>1, <1>2 DEF Hal!Callbacks
  <2>2. CASE callback.remaining = 0
    <3>1. Adapter!EnrollProgress(100) \in Adapter!Events
      BY DEF Adapter!EnrollProgress, Adapter!Events, Adapter!ProgressValues
    <3> QED
      BY <1>1, <1>2, <2>2, <3>1, EmitType
      DEF Adapter!enrollCallback, Adapter!TypeOK, Adapter!BinderStates
  <2>3. CASE callback.remaining > 0
    <3>1. callback.remaining \in 1..Samples /\ callback.remaining + 1 \in 0..Samples
      BY <2>1, <2>3, SamplesAssumption
    <3> QED
      BY <1>2, <2>3, <3>1
      DEF Adapter!enrollCallback, Adapter!TypeOK, Adapter!BinderStates
  <2> QED
    BY <1>1, <2>1, <2>2, <2>3, SamplesAssumption
<1>3. CASE /\ callback.on = "Removed"
           /\ Adapter!removeCallback(callback.finger, callback.remaining)
  <2>1. callback.finger \in Fingers \union {0}
    BY <1>1, <1>3 DEF Hal!Callbacks
  <2> QED
    BY <1>3, <2>1 DEF Adapter!removeCallback, Adapter!UnchangedShared,
                      Adapter!TypeOK, Adapter!BinderStates, Adapter!Free
<1>4. CASE /\ callback.on = "Enumerate"
           /\ Adapter!enumerateCallback(callback.finger, callback.remaining)
  <2>1. callback.finger \in Fingers \union {0}
    BY <1>1, <1>4 DEF Hal!Callbacks
  <2>2. Adapter!Enumerated \in Adapter!Events
    BY DEF Adapter!Enumerated, Adapter!Events
  <2> QED
    BY <1>4, <2>1, <2>2, EmitType DEF Adapter!enumerateCallback, Adapter!TypeOK
<1>5. CASE /\ callback.on = "Authenticated"
           /\ Adapter!authenticated_cb(callback.finger)
  <2>1. callback.finger \in Fingers \union {0}
    BY <1>1, <1>5 DEF Hal!Callbacks
  <2>2. (IF callback.finger # 0 THEN Adapter!Authenticated(callback.finger)
         ELSE Adapter!Failed("FINGER_NOT_RECOGNIZED")) \in Adapter!Events
    BY <2>1 DEF Adapter!Authenticated, Adapter!Failed, Adapter!Events
  <2> QED
    BY <1>5, <2>2, EmitType
    DEF Adapter!authenticated_cb, Adapter!UnchangedShared, Adapter!TypeOK
<1>6. CASE callback.on = "Error" /\ Adapter!error_cb(callback.error)
  <2>1. callback.error \in {"ERROR", "ERROR_NO_ERROR"}
    BY <1>1, <1>6, ErrorsAssumption DEF Hal!Callbacks
  <2>2. callback.error # "ERROR_NO_ERROR"
          => Adapter!Failed(callback.error) \in Adapter!Events
    BY <2>1 DEF Adapter!Failed, Adapter!Events
  <2> QED
    BY <1>6, <2>2, EmitType
    DEF Adapter!error_cb, Adapter!UnchangedShared, Adapter!TypeOK
<1>7. CASE callback.on = "Acquired" /\ Adapter!acquired_cb(callback.info)
  <2>1. callback.info \in AcquiredInfos
    BY <1>1, <1>7, InfosAssumption DEF Hal!Callbacks
  <2>2. Adapter!Acquired(callback.info) \in Adapter!Events
    BY <2>1 DEF Adapter!Acquired, Adapter!Events
  <2> QED
    BY <1>7, <2>2, EmitType
    DEF Adapter!acquired_cb, Adapter!UnchangedShared, Adapter!TypeOK
<1> QED
  BY <1>1, <1>2, <1>3, <1>4, <1>5, <1>6, <1>7 DEF Deliver

LEMMA BinderTypes ==
  ASSUME Adapter!TypeOK, Hal!TypeOK, Binder
  PROVE  Adapter!TypeOK' /\ Hal!TypeOK'
<1> USE DEF Adapter!NoFinger, Adapter!UnchangedShared, Adapter!BinderStates,
            Adapter!Free
<1>1. CASE Deliver
  BY <1>1, DeliverTypes
<1>2. ASSUME UNCHANGED hal
      PROVE  Hal!TypeOK'
  BY <1>2 DEF Hal!TypeOK, hal
<1>3. ASSUME NEW ret \in Statuses, PostEnroll(ret)
      PROVE  Adapter!TypeOK'
  <2>1. binder.finger \in Fingers
    BY <1>3 DEF PostEnroll, Adapter!postEnroll, Adapter!TypeOK
  <2>2. (IF ret = "SYS_OK" THEN Adapter!Succeeded(binder.finger)
         ELSE Adapter!Failed("ERROR")) \in Adapter!Events
    BY <2>1 DEF Adapter!Succeeded, Adapter!Failed, Adapter!Events
  <2> QED
    BY <1>3, <2>2, EmitType DEF PostEnroll, Adapter!postEnroll, Adapter!TypeOK
<1>4. ASSUME Adapter!enrollProgress
      PROVE  Adapter!TypeOK'
  <2>1. binder.remaining \in 1..Samples
    BY <1>4 DEF Adapter!enrollProgress, Adapter!TypeOK
  <2>2. Adapter!EnrollProgress(Adapter!Percent(binder.remaining)) \in Adapter!Events
    BY <2>1, PercentType DEF Adapter!EnrollProgress, Adapter!Events
  <2> QED
    BY <1>4, <2>2, EmitType DEF Adapter!enrollProgress, Adapter!TypeOK
<1>5. ASSUME Adapter!emitRemoved
      PROVE  Adapter!TypeOK'
  <2>1. binder.finger \in Fingers \union {0}
    BY <1>5 DEF Adapter!emitRemoved, Adapter!TypeOK
  <2>2. Adapter!Removed(IF m_removingFinger = 0 THEN 0 ELSE binder.finger)
          \in Adapter!Events
    BY <2>1 DEF Adapter!Removed, Adapter!Events
  <2> QED
    BY <1>5, <2>2, EmitType DEF Adapter!emitRemoved, Adapter!TypeOK
<1>6. ASSUME Adapter!forgetRemoving
      PROVE  Adapter!TypeOK'
  BY <1>6 DEF Adapter!forgetRemoving, Adapter!TypeOK
<1> QED
  BY <1>1, <1>2, <1>3, <1>4, <1>5, <1>6 DEF Binder, PostEnroll

-----------------------------------------------------------------------------
(* The other steps, and the invariant.                                     *)

LEMMA CallTypes ==
  ASSUME SystemTypeOK, Call
  PROVE  Adapter!TypeOK' /\ Hal!TypeOK'
<1>1. Adapter!TypeOK /\ Hal!TypeOK
  BY DEF SystemTypeOK
<1>2. ASSUME UNCHANGED adapter PROVE Adapter!TypeOK'
  BY <1>1, <1>2, Zenon DEF Adapter!TypeOK, adapter
<1>3. ASSUME UNCHANGED hal PROVE Hal!TypeOK'
  BY <1>1, <1>3 DEF Hal!TypeOK, hal
<1>4. NoFinger \in FingerIds
  BY DEF FingerIds
<1>5. ASSUME NEW ret, Refused(ret) PROVE Adapter!TypeOK' /\ Hal!TypeOK'
  BY <1>2, <1>3, <1>5, Zenon DEF Refused
<1>6. ASSUME NEW caller, NEW finger, NEW ret, CallEnroll(caller, finger, ret)
      PROVE  Adapter!TypeOK' /\ Hal!TypeOK'
  BY <1>1, <1>4, <1>5, <1>6, MainThreadTypes, RequestTypes DEF CallEnroll
<1>7. ASSUME NEW caller, NEW ret, CallIdentify(caller, ret)
      PROVE  Adapter!TypeOK' /\ Hal!TypeOK'
  BY <1>1, <1>2, <1>4, <1>5, <1>7, RequestTypes DEF CallIdentify
<1>8. ASSUME NEW caller, NEW ret, CallClear(caller, ret)
      PROVE  Adapter!TypeOK' /\ Hal!TypeOK'
  BY <1>1, <1>4, <1>5, <1>8, MainThreadTypes, RequestTypes DEF CallClear
<1>9. ASSUME NEW caller, NEW ret, CallVerify(caller, ret)
      PROVE  Adapter!TypeOK' /\ Hal!TypeOK'
  BY <1>1, <1>4, <1>5, <1>9, MainThreadTypes, RequestTypes DEF CallVerify
<1>10. ASSUME NEW caller, NEW finger, NEW ret, CallRemove(caller, finger, ret)
       PROVE  Adapter!TypeOK' /\ Hal!TypeOK'
  BY <1>1, <1>5, <1>10, KeyOfIsFirst, MainThreadTypes, RequestTypes DEF CallRemove
<1>11. ASSUME NEW caller, CallAbort(caller)
       PROVE  Adapter!TypeOK' /\ Hal!TypeOK'
  <2>1. UNCHANGED adapter
    BY <1>11, Zenon DEF CallAbort
  <2>2. Hal!cancel \/ UNCHANGED hal
    BY <1>11, Zenon DEF CallAbort
  <2> QED
    BY <1>1, <1>2, <1>3, <2>1, <2>2, CancelType, Zenon
<1> QED
  BY <1>6, <1>7, <1>8, <1>9, <1>10, <1>11, Zenon DEF Call

LEMMA DispatchTypes ==
  ASSUME SystemTypeOK, Dispatch
  PROVE  Adapter!TypeOK' /\ Hal!TypeOK'
<1>1. Adapter!TypeOK /\ Hal!TypeOK
  BY DEF SystemTypeOK
<1>2. Adapter!TypeOK'
  <2>1. NoFinger \in FingerIds
    BY DEF FingerIds
  <2> QED
    BY <1>1, <2>1, MainThreadTypes DEF Dispatch
<1>3. Hal!cancel \/ UNCHANGED hal
  BY Zenon DEF Dispatch, OnEnrollProgress, OnSucceeded, OnFailed, OnRemoved,
               OnAuthenticated, OnAcquired, OnEnumerated
<1>4. ASSUME UNCHANGED hal PROVE Hal!TypeOK'
  BY <1>1, <1>4 DEF Hal!TypeOK, hal
<1> QED
  BY <1>1, <1>2, <1>3, <1>4, CancelType

LEMMA CrashTypes ==
  ASSUME SystemTypeOK, Crash
  PROVE  Adapter!TypeOK' /\ Hal!TypeOK'
<1>1. Adapter!TypeOK'
  <2>1. 0 \in 0..Samples /\ <<>> \in Seq(Adapter!Events)
    BY SamplesAssumption
  <2> QED
    BY <2>1 DEF Crash, Adapter!TypeOK, Adapter!NoFinger, NoFinger,
                Adapter!BinderStates
<1>2. store' \subseteq Fingers /\ callbacks' = <<>>
  BY DEF Crash, SystemTypeOK, Hal!TypeOK
<1>3. sensor' \in Hal!Operations
  <2>1. /\ sensor \in Hal!Operations
        /\ Hal!Enumerating(store) \in Hal!Operations
        /\ Hal!Idle \in Hal!Operations
    BY DEF SystemTypeOK, Hal!TypeOK, Hal!Operations, Hal!Enumerating
  <2> QED
    BY <2>1, Zenon DEF Crash
<1> QED
  BY <1>1, <1>2, <1>3 DEF Hal!TypeOK

HistoryOK ==
  /\ loaded \in BOOLEAN
  /\ outOfStep \in BOOLEAN
  /\ overlapped \in BOOLEAN
  /\ asked \in ClientNames \union {Absent}
  /\ enrolledAs \in [Fingers -> ClientNames \union {Absent}]

LEMMA OutOfStepType ==
  ASSUME HistoryOK, NEW if \in BOOLEAN, GetsOutOfStep(if)
  PROVE  /\ outOfStep' \in BOOLEAN
         /\ enrolledAs' \in [Fingers -> ClientNames \union {Absent}]
<1>1. NobodyAsked \in [Fingers -> ClientNames \union {Absent}]
  BY DEF NobodyAsked
<1> QED
  BY <1>1, Zenon DEF GetsOutOfStep, HistoryOK

LEMMA OperationHistory ==
  ASSUME HistoryOK, NEW name \in ClientNames \union {Absent}, Operation(name)
  PROVE  HistoryOK'
<1>1. (~Quiet) \in BOOLEAN
  OBVIOUS
<1> QED
  BY <1>1, OutOfStepType, Zenon DEF Operation, HistoryOK

LEMMA CallHistory ==
  ASSUME HistoryOK, Call
  PROVE  HistoryOK'
<1>1. ASSUME UNCHANGED history PROVE HistoryOK'
  BY <1>1, Zenon DEF HistoryOK, history
<1>2. asked \in ClientNames \union {Absent}
  BY DEF HistoryOK
<1>3. \A finger \in ClientNames \union {Absent} : Operation(finger) => HistoryOK'
  BY OperationHistory
<1>4. PICK caller \in Clients, ret \in Statuses :
       \/ \E finger \in ClientNames : CallEnroll(caller, finger, ret)
       \/ CallIdentify(caller, ret)
       \/ CallClear(caller, ret)
       \/ CallVerify(caller, ret)
       \/ \E finger \in ClientNames : CallRemove(caller, finger, ret)
       \/ CallAbort(caller)
  BY DEF Call
<1>5. \/ UNCHANGED history
      \/ Operation(asked)
      \/ Operation(Absent)
      \/ \E finger \in ClientNames : Operation(finger)
  BY <1>4, Zenon DEF CallEnroll, CallIdentify, CallClear, CallVerify, CallRemove,
                     CallAbort, Refused
<1> QED
  BY <1>1, <1>2, <1>3, <1>5

LEMMA OtherHistory ==
  ASSUME HistoryOK, \/ Dispatch \/ Timeout \/ EnrollReturns \/ Binder
                    \/ Sensor \/ Acquire \/ Crash
  PROVE  HistoryOK'
<1>0. ASSUME UNCHANGED history PROVE HistoryOK'
  BY <1>0, Zenon DEF HistoryOK, history
<1>1. CASE Dispatch
  <2>1. /\ UNCHANGED <<outOfStep, overlapped, asked, enrolledAs>>
        /\ UNCHANGED loaded \/ loaded' = TRUE
    BY <1>1, Zenon
    DEF Dispatch, OnEnrollProgress, OnSucceeded, OnFailed, OnRemoved,
        OnAuthenticated, OnAcquired, OnEnumerated, history
  <2> QED
    BY <2>1, Zenon DEF HistoryOK
<1>2. CASE Timeout \/ EnrollReturns \/ Acquire
  BY <1>0, <1>2, Zenon DEF Timeout, EnrollReturns, Acquire
<1>3. CASE Binder
  <2>1. ASSUME NEW ret, PostEnroll(ret) PROVE HistoryOK'
    <3>1. (ret # "SYS_OK") \in BOOLEAN
      OBVIOUS
    <3> QED
      BY <2>1, <3>1, OutOfStepType, Zenon DEF PostEnroll, HistoryOK
  <2>2. CASE Deliver
    BY <1>0, <2>2, Zenon DEF Deliver
  <2> QED
    BY <1>0, <1>3, <2>1, <2>2, Zenon DEF Binder
<1>4. CASE Sensor
  <2>1. ASSUME NEW finger \in Fingers, Sample(finger) PROVE HistoryOK'
    <3>1. enrolledAs' \in [Fingers -> ClientNames \union {Absent}]
      BY <2>1 DEF Sample, HistoryOK
    <3> QED
      BY <2>1, <3>1, Zenon DEF Sample, HistoryOK
  <2>2. CASE Fail
    <3>1. (sensor.op = "remove" /\ sensor.left # sensor.all) \in BOOLEAN
      OBVIOUS
    <3> QED
      BY <2>2, <3>1, OutOfStepType, Zenon DEF Fail, HistoryOK
  <2> QED
    BY <1>0, <1>4, <2>1, <2>2, Zenon DEF Sensor
<1>5. CASE Crash
  <2>1. NobodyAsked \in [Fingers -> ClientNames \union {Absent}]
    BY DEF NobodyAsked
  <2>2. outOfStep' \in BOOLEAN
    BY <1>5, Zenon DEF Crash
  <2> QED
    BY <1>5, <2>1, <2>2, Zenon DEF Crash, HistoryOK
<1> QED
  BY <1>1, <1>2, <1>3, <1>4, <1>5

(* A step of any of the three parts is one of the daemon's, and what comes *)
(* out of the queue is what its slots are made for.                        *)
LEMMA DispatchIsSlot ==
  ASSUME SystemTypeOK, Dispatch
  PROVE  Slot
<1> DEFINE event == Head(events)
<1>1. event \in Adapter!Events
  BY DEF SystemTypeOK, Adapter!TypeOK, Dispatch, Adapter!TakeEvent
<1> USE DEF Adapter!Events, Adapter!NoFinger
<1>2. CASE OnEnrollProgress(event)
  <2>1. event.percent \in Percents
    BY <1>1, <1>2, ProgressAssumption DEF OnEnrollProgress
  <2> QED
    BY <1>2, <2>1, Zenon DEF OnEnrollProgress, Slot
<1>3. CASE OnSucceeded(event)
  <2>1. event.finger \in Fingers
    BY <1>1, <1>3 DEF OnSucceeded
  <2> QED
    BY <1>3, <2>1, Zenon DEF OnSucceeded, Slot
<1>4. CASE OnFailed(event)
  <2>1. event.message \in {"FINGER_NOT_RECOGNIZED", "ERROR"}
    BY <1>1, <1>4 DEF OnFailed
  <2> QED
    BY <1>4, <2>1, Zenon DEF OnFailed, Slot
<1>5. CASE OnRemoved(event)
  <2>1. event.finger \in FingerIds
    BY <1>1, <1>5 DEF OnRemoved, FingerIds, NoFinger
  <2> QED
    BY <1>5, <2>1, Zenon DEF OnRemoved, Slot
<1>6. CASE OnAuthenticated(event)
  <2>1. event.finger \in Fingers
    BY <1>1, <1>6 DEF OnAuthenticated
  <2> QED
    BY <1>6, <2>1, Zenon DEF OnAuthenticated, Slot
<1>7. CASE OnEnumerated(event)
  <2>1. m_fingers \in SUBSET Fingers
    BY DEF SystemTypeOK, Adapter!TypeOK
  <2> QED
    BY <1>7, <2>1, Zenon DEF OnEnumerated, Slot
<1>8. CASE OnAcquired(event)
  <2>1. event.info \in AcquiredInfos
    BY <1>1, <1>8 DEF OnAcquired
  <2> QED
    BY <1>8, <2>1, Zenon DEF OnAcquired, Slot
<1> QED
  BY <1>2, <1>3, <1>4, <1>5, <1>6, <1>7, <1>8, Zenon DEF Dispatch

LEMMA CallIsMethodCall ==
  ASSUME Call
  PROVE  \E caller \in Clients, ret \in Statuses : MethodCall(caller, ret)
BY Zenon DEF Call, CallEnroll, CallIdentify, CallClear, CallVerify, CallRemove,
             CallAbort, MethodCall

LEMMA StepIsDaemonStep ==
  ASSUME SystemTypeOK, [SystemNext]_systemVars
  PROVE  [Next]_vars
<1>1. CASE Call
  BY <1>1, CallIsMethodCall DEF Next
<1>2. CASE Dispatch
  BY <1>2, DispatchIsSlot, Zenon DEF Next
<1>3. CASE Timeout
  BY <1>3, Zenon DEF Timeout, Slot, Next
<1>4. CASE EnrollReturns \/ Binder \/ Sensor \/ Acquire
  BY <1>4, Zenon DEF EnrollReturns, Binder, Sensor, Acquire, Next
<1>5. CASE Crash
  BY <1>5, Zenon DEF Crash, Next
<1>6. CASE UNCHANGED systemVars
  BY <1>6, Zenon DEF systemVars
<1> QED
  BY <1>1, <1>2, <1>3, <1>4, <1>5, <1>6 DEF SystemNext

(* The type invariant of the composition: what the sensor, the binder      *)
(* thread and the event queue can hold, crashes included.                  *)
THEOREM SystemTypeCorrect == SystemSpec => []SystemTypeOK
<1>1. SystemInit => SystemTypeOK
  <2> SUFFICES ASSUME SystemInit PROVE SystemTypeOK
    OBVIOUS
  <2>1. TypeOK
    BY TypeInit DEF SystemInit
  <2>2. Adapter!TypeOK
    <3>1. 0 \in 0..Samples /\ <<>> \in Seq(Adapter!Events)
      BY SamplesAssumption
    <3> QED
      BY <3>1 DEF SystemInit, Adapter!Init, Adapter!TypeOK, Adapter!NoFinger,
                  Adapter!BinderStates
  <2>3. Hal!TypeOK
    BY DEF SystemInit, Hal!TypeOK, Hal!Operations, Hal!Enumerating
  <2>4. HistoryOK
    BY DEF SystemInit, HistoryOK, NobodyAsked
  <2> QED
    BY <2>1, <2>2, <2>3, <2>4, Zenon DEF SystemTypeOK, HistoryOK
<1>2. SystemTypeOK /\ [SystemNext]_systemVars => SystemTypeOK'
  <2> SUFFICES ASSUME SystemTypeOK, [SystemNext]_systemVars PROVE SystemTypeOK'
    OBVIOUS
  <2>1. Adapter!TypeOK /\ Hal!TypeOK /\ HistoryOK /\ TypeOK
    BY Zenon DEF SystemTypeOK, HistoryOK
  <2>2. TypeOK'
    BY <2>1, StepIsDaemonStep, TypeStep
  <2>3. ASSUME UNCHANGED adapter PROVE Adapter!TypeOK'
    BY <2>1, <2>3, Zenon DEF Adapter!TypeOK, adapter
  <2>4. ASSUME UNCHANGED hal PROVE Hal!TypeOK'
    BY <2>1, <2>4 DEF Hal!TypeOK, hal
  <2>5. Adapter!TypeOK' /\ Hal!TypeOK'
    <3>1. CASE Call
      BY <3>1, CallTypes
    <3>2. CASE Dispatch
      BY <3>2, DispatchTypes
    <3>3. CASE Timeout
      BY <2>1, <2>3, <3>3, CancelType, Zenon DEF Timeout
    <3>4. CASE EnrollReturns
      <4>1. NoFinger \in FingerIds
        BY DEF FingerIds
      <4> QED
        BY <2>1, <2>4, <3>4, <4>1, MainThreadTypes DEF EnrollReturns
    <3>5. CASE Binder
      BY <2>1, <3>5, BinderTypes
    <3>6. CASE Sensor
      BY <2>1, <2>3, <3>6, SensorTypes DEF Sensor
    <3>7. CASE Crash
      BY <3>7, CrashTypes
    <3>8. CASE UNCHANGED systemVars
      BY <2>3, <2>4, <3>8, Zenon DEF systemVars
    <3>9. CASE Acquire
      <4>1. UNCHANGED adapter
        BY <3>9, Zenon DEF Acquire
      <4> QED
        BY <2>1, <2>3, <3>9, <4>1, AcquireType
    <3> QED
      BY <3>1, <3>2, <3>3, <3>4, <3>5, <3>6, <3>7, <3>8, <3>9 DEF SystemNext
  <2>6. HistoryOK'
    <3>1. CASE UNCHANGED systemVars
      BY <2>1, <3>1, Zenon DEF systemVars, history, HistoryOK
    <3> QED
      BY <2>1, <3>1, CallHistory, OtherHistory DEF SystemNext
  <2> QED
    BY <2>2, <2>5, <2>6, Zenon DEF SystemTypeOK, HistoryOK
<1> QED
  BY <1>1, <1>2, PTL DEF SystemSpec

(* The system refines the open daemon: nothing the adapter and the sensor  *)
(* can bring about is missing from what the daemon is proved against.      *)
THEOREM SystemRefinesDaemon == SystemSpec => ImplementsDaemon
<1>1. SystemInit => Init
  BY DEF SystemInit
<1>2. SystemTypeOK /\ [SystemNext]_systemVars => [Next]_vars
  BY StepIsDaemonStep
<1> QED
  BY <1>1, <1>2, SystemTypeCorrect, PTL DEF SystemSpec, ImplementsDaemon, Spec

(* So in the running system too, no call of another client disturbs an     *)
(* operation, every operation has its owner and its time limit, a list is  *)
(* on disk before the handler that made it ends, and every end is told.    *)
THEOREM SystemKeepsDaemonPromises ==
  SystemSpec => /\ [](BusyHasOwner /\ IdentifyingIsTimed)
                /\ []MapIsSaved
                /\ OthersCannotInterfere
                /\ EndIsAnnounced
                /\ ImplementsSession
BY SystemRefinesDaemon, OperationsAreOwnedAndTimed, ListIsOnDisk,
   OwnerIsUndisturbed, EndsAreAnnounced, Refinement, PTL
DEF ImplementsDaemon
=============================================================================
