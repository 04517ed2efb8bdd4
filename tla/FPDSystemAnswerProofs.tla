------------------------ MODULE FPDSystemAnswerProofs ------------------------
(***************************************************************************)
(* What the slots take for granted when they do not look at the state: the *)
(* signal they serve answers the operation that runs, a template that was  *)
(* recognized is still there, and the name of an enrolment is still free.  *)
(* All three hold because whatever is under way, from the sensor to the    *)
(* queue of the main thread, is of one kind of operation, unless the       *)
(* running operation began before the one before it was over.              *)
(***************************************************************************)
EXTENDS FPDSystemStoreProofs

-----------------------------------------------------------------------------
(* The invariant.                                                          *)

Kinds == {"enroll", "authenticate", "remove", "enumerate"}

StatesOf(kind) ==
  CASE kind = "enroll"       -> {"FPSTATE_ENROLLING", "FPSTATE_VERIFYING"}
    [] kind = "authenticate" -> {"FPSTATE_IDENTIFYING"}
    [] kind = "remove"       -> {"FPSTATE_REMOVING"}
    [] kind = "enumerate"    -> {"FPSTATE_ENUMERATING"}

ReportOf(kind) ==
  CASE kind = "enroll"       -> "EnrollResult"
    [] kind = "authenticate" -> "Authenticated"
    [] kind = "remove"       -> "Removed"
    [] kind = "enumerate"    -> "Enumerate"

PlacesOf(kind) ==
  {"none", "forget"} \union
  CASE kind = "enroll"       -> {"progress", "postEnroll"}
    [] kind = "authenticate" -> {}
    [] kind = "remove"       -> {"removed"}
    [] kind = "enumerate"    -> {}

SignalsOf(kind) ==
  {"failed", "acquired"} \union
  CASE kind = "enroll"       -> {"enrollProgress", "succeeded"}
    [] kind = "authenticate" -> {"authenticated"}
    [] kind = "remove"       -> {"removed"}
    [] kind = "enumerate"    -> {"enumerated"}

(* Reports and signals that do not belong to the kind, or name a template  *)
(* as recognized that is gone.                                             *)
OtherReports(kind) ==
  {callback \in Hal!Callbacks :
     \/ callback.on \notin {"Acquired", "Error", ReportOf(kind)}
     \/ callback.on = "Authenticated" /\ callback.finger \notin store \union {NoFinger}}
OtherEvents(kind) ==
  {event \in Adapter!Events :
     \/ event.signal \notin SignalsOf(kind)
     \/ event.signal = "authenticated" /\ event.finger \notin store}

Only(kind) ==
  /\ m_state \in StatesOf(kind) \union {"FPSTATE_IDLE"}
  /\ sensor.op \in {"none", kind}
  /\ ~Contains(callbacks, OtherReports(kind))
  /\ binder.at \in PlacesOf(kind)
  /\ ~Contains(events, OtherEvents(kind))
  /\ kind = "enumerate" => m_addingFinger = EmptyName

(* What overlaps is mixed up, until an operation begins in quiet.          *)
KindInv ==
  /\ overlapped => outOfStep
  /\ overlapped \/ \E kind \in Kinds : Only(kind)

LEMMA OtherSetsStay ==
  ASSUME NEW kind \in Kinds, kind = "authenticate" => UNCHANGED store
  PROVE  OtherReports(kind)' = OtherReports(kind) /\ OtherEvents(kind)' = OtherEvents(kind)
BY DEF OtherReports, OtherEvents, Kinds, ReportOf, SignalsOf

(* Steps that go on with the operation, or end it.                         *)
LEMMA OnlyKept ==
  ASSUME SystemTypeOK, NEW kind \in Kinds, Only(kind),
         m_state' \in {m_state, "FPSTATE_IDLE"},
         m_addingFinger' \in {m_addingFinger, EmptyName},
         kind = "authenticate" => UNCHANGED store,
         sensor'.op \in {sensor.op, "none"},
         Thins(callbacks, callbacks', Hal!Callbacks, OtherReports(kind)),
         Thins(events, events', Adapter!Events, OtherEvents(kind)),
         binder'.at \in PlacesOf(kind)
  PROVE  Only(kind)'
<1>1. callbacks \in Seq(Hal!Callbacks) /\ events \in Seq(Adapter!Events)
  BY DEF SystemTypeOK, Hal!TypeOK, Adapter!TypeOK
<1>2. ~Contains(callbacks', OtherReports(kind)) /\ ~Contains(events', OtherEvents(kind))
  BY <1>1, ThinsKeeps DEF Only
<1> QED
  BY <1>2, OtherSetsStay DEF Only, PlacesOf, StatesOf

(* The first step of an operation, with nothing left of the last.          *)
LEMMA OnlyStarted ==
  ASSUME NEW kind \in Kinds,
         m_state' \in StatesOf(kind) \union {"FPSTATE_IDLE"},
         sensor'.op \in {"none", kind},
         callbacks' = <<>>, binder' = Adapter!Free, events' = <<>>,
         kind = "enumerate" => m_addingFinger' = EmptyName
  PROVE  Only(kind)'
<1>1. \A set : ~Contains(callbacks', set) /\ ~Contains(events', set)
  BY DEF Contains
<1>2. binder'.at \in PlacesOf(kind)
  BY DEF Adapter!Free, PlacesOf
<1> QED
  BY <1>1, <1>2 DEF Only, PlacesOf, StatesOf

LEMMA KindKept ==
  ASSUME SystemTypeOK, KindInv, UNCHANGED overlapped, outOfStep => outOfStep',
         m_state' \in {m_state, "FPSTATE_IDLE"},
         m_addingFinger' \in {m_addingFinger, EmptyName},
         UNCHANGED <<store, binder>>,
         sensor'.op \in {sensor.op, "none"},
         \A kind \in Kinds : Thins(callbacks, callbacks', Hal!Callbacks, OtherReports(kind)),
         \A kind \in Kinds : Thins(events, events', Adapter!Events, OtherEvents(kind))
  PROVE  KindInv'
<1>1. ASSUME NEW kind \in Kinds, Only(kind) PROVE Only(kind)'
  BY <1>1, OnlyKept DEF Only
<1> QED
  BY <1>1 DEF KindInv

(* Only a crash ends being out of step.                                    *)
LEMMA OutOfStepStays ==
  ASSUME Binder \/ Sensor \/ Acquire
  PROVE  (outOfStep => outOfStep') /\ UNCHANGED overlapped
<1>1. ASSUME NEW ret, PostEnroll(ret) PROVE (outOfStep => outOfStep') /\ UNCHANGED overlapped
  BY <1>1 DEF PostEnroll, GetsOutOfStep
<1>2. ASSUME NEW finger, Sample(finger) PROVE (outOfStep => outOfStep') /\ UNCHANGED overlapped
  BY <1>2 DEF Sample
<1>3. CASE Fail
  BY <1>3 DEF Fail, GetsOutOfStep
<1>4. CASE UNCHANGED history
  BY <1>4 DEF history
<1>5. Binder => (\E ret : PostEnroll(ret)) \/ UNCHANGED history
  BY DEF Binder, Deliver
<1>6. Sensor => (\E finger : Sample(finger)) \/ Fail \/ UNCHANGED history
  BY DEF Sensor
<1> QED
  BY <1>1, <1>2, <1>3, <1>4, <1>5, <1>6 DEF Acquire

-----------------------------------------------------------------------------
(* Steps of the main thread.                                               *)

LEMMA CancelledKind ==
  ASSUME Hal!cancel
  PROVE  /\ \A kind \in Kinds :
              Thins(callbacks, callbacks', Hal!Callbacks, OtherReports(kind))
         /\ sensor'.op \in {sensor.op, "none"}
         /\ UNCHANGED store
<1>1. \A kind \in Kinds : Hal!OnError("ERROR") \in Hal!Callbacks \ OtherReports(kind)
  BY DEF Hal!OnError, Hal!Callbacks, OtherReports
<1> QED
  BY <1>1 DEF Hal!cancel, Hal!Send, Hal!Idle, Thins

LEMMA StartedKind ==
  ASSUME KindInv, NEW name, Operation(name), NEW kind \in Kinds \ {"enumerate"},
         UNCHANGED <<callbacks, binder, events>>,
         m_state' \in StatesOf(kind) \union {"FPSTATE_IDLE"},
         sensor' = sensor \/ sensor'.op = kind
  PROVE  KindInv'
<1>1. CASE ~Quiet
  BY <1>1 DEF Operation, GetsOutOfStep, KindInv
<1>2. CASE Quiet
  <2>1. Only(kind)'
    BY <1>2, OnlyStarted DEF Quiet, Hal!Idle
  <2>2. overlapped' = FALSE
    BY <1>2 DEF Operation
  <2> QED
    BY <2>1, <2>2 DEF KindInv
<1> QED
  BY <1>1, <1>2

LEMMA StateStarted ==
  ASSUME NEW state, NEW caller, NEW ret, NEW owner, NEW more,
         Start(state, caller, ret, owner, more)
  PROVE  m_state' \in {state, "FPSTATE_IDLE"}
BY DEF Start

LEMMA CallKind ==
  ASSUME SystemTypeOK, KindInv, Call
  PROVE  KindInv'
<1>1. ASSUME NEW ret, Refused(ret), UNCHANGED <<volatile, database>>
      PROVE  KindInv'
  BY <1>1, KindKept DEF Refused, volatile, adapter, hal, history, Thins
<1>2. ASSUME NEW caller, NEW finger, NEW ret, CallEnroll(caller, finger, ret)
      PROVE  KindInv'
  <2>1. CASE EnrollReply(caller, finger) = "FPREPLY_STARTED"
    <3>1. /\ UNCHANGED <<binder, events, callbacks>> /\ Operation(finger)
          /\ sensor' = sensor \/ sensor'.op = "enroll"
      BY <1>2, <2>1 DEF CallEnroll, Adapter!enroll, Hal!enroll, Hal!Request, Hal!Enrolling
    <3>2. m_state' \in {"FPSTATE_ENROLLING", "FPSTATE_IDLE"}
      BY <1>2, <2>1, StateStarted DEF CallEnroll, Enroll
    <3> QED
      BY <3>1, <3>2, StartedKind DEF Kinds, StatesOf
  <2>2. CASE EnrollReply(caller, finger) # "FPREPLY_STARTED"
    BY <1>1, <1>2, <2>2 DEF CallEnroll, Enroll, Refuse
  <2> QED
    BY <2>1, <2>2
<1>3. ASSUME NEW caller, NEW ret, CallIdentify(caller, ret)
      PROVE  KindInv'
  <2>1. CASE IdentifyReply(caller) = "FPREPLY_STARTED"
    <3>1. /\ UNCHANGED <<binder, events, callbacks>> /\ Operation(asked)
          /\ sensor' = sensor \/ sensor'.op = "authenticate"
      BY <1>3, <2>1 DEF CallIdentify, Hal!authenticate, Hal!Request,
                        Hal!Authenticating, adapter
    <3>2. m_state' \in {"FPSTATE_IDENTIFYING", "FPSTATE_IDLE"}
      BY <1>3, <2>1, StateStarted DEF CallIdentify, Identify
    <3> QED
      BY <3>1, <3>2, StartedKind DEF Kinds, StatesOf
  <2>2. CASE IdentifyReply(caller) # "FPREPLY_STARTED"
    BY <1>1, <1>3, <2>2 DEF CallIdentify, Identify, Refuse
  <2> QED
    BY <2>1, <2>2
<1>4. ASSUME NEW caller, NEW ret, CallVerify(caller, ret)
      PROVE  KindInv'
  <2>1. CASE VerifyReply(caller) = "FPREPLY_STARTED"
    <3>1. /\ UNCHANGED <<binder, events, callbacks>> /\ Operation(Absent)
          /\ sensor' = sensor \/ sensor'.op = "enroll"
      BY <1>4, <2>1 DEF CallVerify, Adapter!enroll, Hal!enroll, Hal!Request, Hal!Enrolling
    <3>2. m_state' \in {"FPSTATE_VERIFYING", "FPSTATE_IDLE"}
      BY <1>4, <2>1, StateStarted DEF CallVerify, Verify
    <3> QED
      BY <3>1, <3>2, StartedKind DEF Kinds, StatesOf
  <2>2. CASE VerifyReply(caller) # "FPREPLY_STARTED"
    BY <1>1, <1>4, <2>2 DEF CallVerify, Verify, Refuse
  <2> QED
    BY <2>1, <2>2
<1>5. ASSUME NEW caller, NEW ret, CallClear(caller, ret)
      PROVE  KindInv'
  <2>1. CASE ClearAccepted(caller)
    <3>1. /\ UNCHANGED <<binder, events, callbacks>> /\ Operation(asked)
          /\ sensor' = sensor \/ sensor'.op = "remove"
      BY <1>5, <2>1 DEF CallClear, Adapter!clear, Adapter!remove, Hal!remove,
                        Hal!Request, Hal!Removing
    <3>2. m_state' \in {"FPSTATE_REMOVING", "FPSTATE_IDLE"}
      BY <1>5, <2>1, StateStarted DEF CallClear, Clear
    <3> QED
      BY <3>1, <3>2, StartedKind DEF Kinds, StatesOf
  <2>2. CASE ~ClearAccepted(caller)
    BY <1>1, <1>5, <2>2 DEF CallClear, Clear, Refuse
  <2> QED
    BY <2>1, <2>2
<1>6. ASSUME NEW caller, NEW finger, NEW ret, CallRemove(caller, finger, ret)
      PROVE  KindInv'
  <2>1. CASE RemoveReply(caller, finger) = "FPREPLY_STARTED"
    <3>1. /\ UNCHANGED <<binder, events, callbacks>> /\ Operation(asked)
          /\ sensor' = sensor \/ sensor'.op = "remove"
      BY <1>6, <2>1 DEF CallRemove, Adapter!remove, Hal!remove, Hal!Request, Hal!Removing
    <3>2. m_state' \in {"FPSTATE_REMOVING", "FPSTATE_IDLE"}
      BY <1>6, <2>1, StateStarted DEF CallRemove, Remove
    <3> QED
      BY <3>1, <3>2, StartedKind DEF Kinds, StatesOf
  <2>2. CASE RemoveReply(caller, finger) # "FPREPLY_STARTED"
    BY <1>1, <1>6, <2>2 DEF CallRemove, Remove, Refuse
  <2> QED
    BY <2>1, <2>2
<1>7. ASSUME NEW caller, CallAbort(caller)
      PROVE  KindInv'
  <2>1. /\ UNCHANGED <<m_addingFinger, outOfStep, overlapped, events, binder>>
        /\ m_state' \in {m_state, "FPSTATE_IDLE"}
        /\ Hal!cancel \/ UNCHANGED hal
    BY <1>7 DEF CallAbort, Abort, abort, GoIdle, Refuse, volatile, adapter, history
  <2>2. CASE Hal!cancel
    BY <2>1, <2>2, CancelledKind, KindKept DEF Thins
  <2>3. CASE UNCHANGED hal
    BY <2>1, <2>3, KindKept DEF hal, Thins
  <2> QED
    BY <2>1, <2>2, <2>3
<1> QED
  BY <1>2, <1>3, <1>4, <1>5, <1>6, <1>7, Zenon DEF Call

LEMMA DispatchKind ==
  ASSUME SystemTypeOK, KindInv, Dispatch
  PROVE  KindInv'
<1> DEFINE event == Head(events)
<1>1. /\ \A kind \in Kinds : Thins(events, events', Adapter!Events, OtherEvents(kind))
      /\ UNCHANGED binder
  BY DEF Dispatch, Adapter!TakeEvent, Thins
<1>2. CASE OnEnrollProgress(event)
  <2>1. /\ UNCHANGED <<m_addingFinger, outOfStep, overlapped>>
        /\ m_state' \in {m_state, "FPSTATE_IDLE"}
        /\ Hal!cancel \/ UNCHANGED hal
    BY <1>2 DEF OnEnrollProgress, slot_enrollProgress, abort, GoIdle, history
  <2>2. CASE Hal!cancel
    BY <1>1, <2>1, <2>2, CancelledKind, KindKept
  <2>3. CASE UNCHANGED hal
    BY <1>1, <2>1, <2>3, KindKept DEF hal, Thins
  <2> QED
    BY <2>1, <2>2, <2>3
<1>3. CASE \/ OnFailed(event) \/ OnAuthenticated(event) \/ OnAcquired(event)
           \/ OnRemoved(event) \/ OnSucceeded(event) \/ OnEnumerated(event)
  <2>1. /\ m_addingFinger' \in {m_addingFinger, EmptyName}
        /\ m_state' \in {m_state, "FPSTATE_IDLE"}
    BY <1>3 DEF OnFailed, OnAuthenticated, OnAcquired, OnRemoved, OnSucceeded,
                OnEnumerated, slot_failed, slot_authenticated, slot_acquired,
                slot_removed, slot_succeeded, slot_enumerated, GoIdle
  <2>2. UNCHANGED <<outOfStep, overlapped, sensor, callbacks, store>>
    BY <1>3 DEF OnFailed, OnAuthenticated, OnAcquired, OnRemoved, OnSucceeded,
                OnEnumerated, hal, history
  <2> QED
    BY <1>1, <2>1, <2>2, KindKept DEF Thins
<1> QED
  BY <1>2, <1>3 DEF Dispatch

-----------------------------------------------------------------------------
(* Steps of the binder thread.                                             *)

LEMMA EmitsOwn ==
  ASSUME NEW event \in Adapter!Events, Adapter!Emit(event),
         NEW kind \in Kinds, event \notin OtherEvents(kind)
  PROVE  Thins(events, events', Adapter!Events, OtherEvents(kind))
BY DEF Adapter!Emit, Thins

(* A callback is of the kind that is under way, so what the adapter makes  *)
(* of it is too.                                                           *)
LEMMA DeliverOnly ==
  ASSUME SystemTypeOK, Deliver, Elsewhere, NEW kind \in Kinds, Only(kind)
  PROVE  Only(kind)'
<1> DEFINE callback == Head(callbacks)
<1> USE DEF Adapter!NoFinger, NoFinger
<1>1. /\ callbacks \in Seq(Hal!Callbacks) /\ callbacks # <<>>
      /\ callbacks' = Tail(callbacks)
      /\ callback \in Hal!Callbacks
      /\ UNCHANGED <<m_state, m_addingFinger, store, sensor>>
      /\ Thins(callbacks, callbacks', Hal!Callbacks, OtherReports(kind))
  BY DEF SystemTypeOK, Hal!TypeOK, Deliver, Elsewhere, volatile, Thins
<1>2. /\ callback.on \in {"Acquired", "Error", ReportOf(kind)}
      /\ callback.on = "Authenticated" => callback.finger \in store \union {0}
  <2>1. 1 \in 1..Len(callbacks) /\ callback = callbacks[1]
    BY <1>1
  <2>2. callback \notin OtherReports(kind)
    BY <2>1 DEF Only, Contains
  <2> QED
    BY <1>1, <2>2 DEF OtherReports
<1>3. ASSUME Thins(events, events', Adapter!Events, OtherEvents(kind)),
             binder'.at \in PlacesOf(kind)
      PROVE  Only(kind)'
  BY <1>1, <1>3, OnlyKept
<1>4. /\ UNCHANGED events => Thins(events, events', Adapter!Events, OtherEvents(kind))
      /\ UNCHANGED binder => binder'.at \in PlacesOf(kind)
  BY DEF Thins, Only
<1>5. CASE /\ callback.on = "EnrollResult"
           /\ Adapter!enrollCallback(callback.finger, callback.remaining)
  <2>1. kind = "enroll"
    BY <1>2, <1>5 DEF Kinds, ReportOf
  <2>2. binder'.at \in {"progress", "postEnroll"}
    BY <1>5 DEF Adapter!enrollCallback
  <2>3. /\ Adapter!EnrollProgress(100) \in Adapter!Events
        /\ Adapter!EnrollProgress(100) \notin OtherEvents(kind)
    BY <2>1 DEF Adapter!EnrollProgress, Adapter!Events, Adapter!ProgressValues,
                OtherEvents, SignalsOf
  <2>4. UNCHANGED events \/ Adapter!Emit(Adapter!EnrollProgress(100))
    BY <1>5 DEF Adapter!enrollCallback
  <2> QED
    BY <1>3, <1>4, <2>1, <2>2, <2>3, <2>4, EmitsOwn DEF PlacesOf
<1>6. CASE /\ callback.on = "Removed"
           /\ Adapter!removeCallback(callback.finger, callback.remaining)
  <2>1. kind = "remove"
    BY <1>2, <1>6 DEF Kinds, ReportOf
  <2>2. binder'.at \in {"removed", "none"} /\ UNCHANGED events
    BY <1>6 DEF Adapter!removeCallback, Adapter!Free
  <2> QED
    BY <1>3, <1>4, <2>1, <2>2 DEF PlacesOf
<1>7. CASE /\ callback.on = "Enumerate"
           /\ Adapter!enumerateCallback(callback.finger, callback.remaining)
  <2>1. kind = "enumerate"
    BY <1>2, <1>7 DEF Kinds, ReportOf
  <2>2. Adapter!Enumerated \in Adapter!Events /\ Adapter!Enumerated \notin OtherEvents(kind)
    BY <2>1 DEF Adapter!Enumerated, Adapter!Events, OtherEvents, SignalsOf
  <2>3. UNCHANGED binder /\ (UNCHANGED events \/ Adapter!Emit(Adapter!Enumerated))
    BY <1>7 DEF Adapter!enumerateCallback
  <2> QED
    BY <1>3, <1>4, <2>2, <2>3, EmitsOwn
<1>8. CASE callback.on = "Authenticated" /\ Adapter!authenticated_cb(callback.finger)
  <2> DEFINE event == IF callback.finger # 0
                      THEN Adapter!Authenticated(callback.finger)
                      ELSE Adapter!Failed("FINGER_NOT_RECOGNIZED")
  <2>1. kind = "authenticate"
    BY <1>2, <1>8 DEF Kinds, ReportOf
  <2>2. callback.finger \in Fingers \union {0} /\ callback.finger \in store \union {0}
    BY <1>1, <1>2, <1>8 DEF Hal!Callbacks, Hal!FingerIds, Hal!NoFinger
  <2>3. event \in Adapter!Events /\ event \notin OtherEvents(kind)
    BY <2>1, <2>2 DEF Adapter!Authenticated, Adapter!Failed, Adapter!Events,
                      OtherEvents, SignalsOf
  <2>4. Adapter!Emit(event) /\ UNCHANGED binder
    BY <1>8 DEF Adapter!authenticated_cb
  <2> QED
    BY <1>3, <1>4, <2>3, <2>4, EmitsOwn
<1>9. CASE callback.on = "Acquired" /\ Adapter!acquired_cb(callback.info)
  <2> DEFINE event == Adapter!Acquired(callback.info)
  <2>1. event \in Adapter!Events /\ event \notin OtherEvents(kind)
    BY <1>1, <1>9, InfosAssumption
    DEF Hal!Callbacks, Adapter!Acquired, Adapter!Events, OtherEvents, SignalsOf
  <2>2. Adapter!Emit(event) /\ UNCHANGED binder
    BY <1>9 DEF Adapter!acquired_cb
  <2> QED
    BY <1>3, <1>4, <2>1, <2>2, EmitsOwn
<1>10. CASE callback.on = "Error" /\ Adapter!error_cb(callback.error)
  <2>1. callback.error \in {"ERROR", "ERROR_NO_ERROR"}
    BY <1>1, <1>10, ErrorsAssumption DEF Hal!Callbacks
  <2>2. Adapter!Failed("ERROR") \in Adapter!Events /\ Adapter!Failed("ERROR") \notin OtherEvents(kind)
    BY DEF Adapter!Failed, Adapter!Events, OtherEvents, SignalsOf
  <2>3. UNCHANGED binder /\ (UNCHANGED events \/ Adapter!Emit(Adapter!Failed("ERROR")))
    BY <1>10, <2>1 DEF Adapter!error_cb
  <2> QED
    BY <1>3, <1>4, <2>2, <2>3, EmitsOwn
<1> QED
  BY <1>5, <1>6, <1>7, <1>8, <1>9, <1>10 DEF Deliver

LEMMA PassedOnKind ==
  ASSUME SystemTypeOK, NEW kind \in Kinds, Only(kind), Elsewhere,
         NEW event \in Adapter!Events, Adapter!Emit(event), event \notin OtherEvents(kind),
         binder'.at \in {"none", "forget"}, UNCHANGED hal
  PROVE  Only(kind)'
<1>1. UNCHANGED <<m_state, m_addingFinger, callbacks, sensor, store>>
  BY DEF Elsewhere, volatile, hal
<1> QED
  BY <1>1, EmitsOwn, OnlyKept DEF Thins, PlacesOf

LEMMA BinderKind ==
  ASSUME SystemTypeOK, KindInv, Binder
  PROVE  KindInv'
<1> USE DEF Adapter!NoFinger, NoFinger
<1>1. Elsewhere /\ Adapter!TypeOK
  BY DEF Binder, SystemTypeOK
<1>2. CASE Deliver
  BY <1>1, <1>2, DeliverOnly DEF KindInv, Deliver, history
<1>3. ASSUME NEW ret, PostEnroll(ret)
      PROVE  KindInv'
  <2>1. (outOfStep => outOfStep') /\ UNCHANGED overlapped
    BY <1>3 DEF PostEnroll, GetsOutOfStep
  <2> SUFFICES ASSUME NEW kind \in Kinds, Only(kind) PROVE Only(kind)'
    BY <2>1 DEF KindInv
  <2> DEFINE event == IF ret = "SYS_OK" THEN Adapter!Succeeded(binder.finger)
                                        ELSE Adapter!Failed("ERROR")
  <2>2. /\ binder.at = "postEnroll" /\ binder' = Adapter!Free
        /\ Adapter!Emit(event) /\ binder.finger \in Fingers /\ UNCHANGED hal
    BY <1>1, <1>3 DEF PostEnroll, Adapter!postEnroll, Adapter!TypeOK,
                      Adapter!BinderStates, Adapter!Free
  <2>3. kind = "enroll"
    BY <2>2 DEF Only, Kinds, PlacesOf
  <2>4. event \in Adapter!Events /\ event \notin OtherEvents(kind)
    BY <2>2, <2>3 DEF Adapter!Succeeded, Adapter!Failed, Adapter!Events, OtherEvents, SignalsOf
  <2> QED
    BY <1>1, <2>2, <2>4, PassedOnKind DEF Adapter!Free
<1>4. CASE Adapter!enrollProgress /\ UNCHANGED <<hal, history>>
  <2> SUFFICES ASSUME NEW kind \in Kinds, Only(kind) PROVE Only(kind)'
    BY <1>4 DEF KindInv, history
  <2> DEFINE event == Adapter!EnrollProgress(Adapter!Percent(binder.remaining))
  <2>1. /\ binder.at = "progress" /\ binder' = Adapter!Free
        /\ binder.remaining \in 1..Samples /\ Adapter!Emit(event)
    BY <1>1, <1>4 DEF Adapter!enrollProgress, Adapter!TypeOK, Adapter!BinderStates,
                      Adapter!Free
  <2>2. kind = "enroll"
    BY <2>1 DEF Only, Kinds, PlacesOf
  <2>3. event \in Adapter!Events /\ event \notin OtherEvents(kind)
    BY <1>1, <2>1, <2>2, PercentType
    DEF Adapter!EnrollProgress, Adapter!Events, OtherEvents, SignalsOf
  <2> QED
    BY <1>1, <1>4, <2>1, <2>3, PassedOnKind DEF Adapter!Free
<1>5. CASE Adapter!emitRemoved /\ UNCHANGED <<hal, history>>
  <2> SUFFICES ASSUME NEW kind \in Kinds, Only(kind) PROVE Only(kind)'
    BY <1>5 DEF KindInv, history
  <2> DEFINE event == Adapter!Removed(IF m_removingFinger = 0 THEN 0 ELSE binder.finger)
  <2>1. /\ binder.at = "removed" /\ binder' = [at |-> "forget"]
        /\ binder.finger \in Fingers \union {0} /\ Adapter!Emit(event)
    BY <1>1, <1>5 DEF Adapter!emitRemoved, Adapter!TypeOK, Adapter!BinderStates,
                      Adapter!Free
  <2>2. kind = "remove"
    BY <2>1 DEF Only, Kinds, PlacesOf
  <2>3. event \in Adapter!Events /\ event \notin OtherEvents(kind)
    BY <2>1, <2>2 DEF Adapter!Removed, Adapter!Events, OtherEvents, SignalsOf
  <2> QED
    BY <1>1, <1>5, <2>1, <2>3, PassedOnKind
<1>6. CASE Adapter!forgetRemoving /\ UNCHANGED <<hal, history>>
  <2> SUFFICES ASSUME NEW kind \in Kinds, Only(kind) PROVE Only(kind)'
    BY <1>6 DEF KindInv, history
  <2>1. /\ UNCHANGED <<m_state, m_addingFinger, callbacks, sensor, store, events>>
        /\ binder'.at = "none"
    BY <1>1, <1>6 DEF Elsewhere, volatile, hal, Adapter!forgetRemoving, Adapter!Free
  <2> QED
    BY <2>1, OnlyKept DEF Thins, PlacesOf
<1> QED
  BY <1>2, <1>3, <1>4, <1>5, <1>6 DEF Binder

-----------------------------------------------------------------------------
(* Steps of the sensor.                                                    *)

LEMMA ReportsOwn ==
  ASSUME SystemTypeOK, NEW kind \in Kinds, Only(kind), Elsewhere, UNCHANGED adapter,
         NEW callback \in Hal!Callbacks, Hal!Send(callback), callback \notin OtherReports(kind),
         sensor'.op \in {sensor.op, "none"}, kind = "authenticate" => UNCHANGED store
  PROVE  Only(kind)'
<1>1. UNCHANGED <<m_state, m_addingFinger, binder, events>>
  BY DEF Elsewhere, volatile, adapter
<1>2. Thins(callbacks, callbacks', Hal!Callbacks, OtherReports(kind))
  BY DEF Hal!Send, Thins
<1> QED
  BY <1>1, <1>2, OnlyKept DEF Thins, Only

LEMMA SampleOnly ==
  ASSUME SystemTypeOK, NEW kind \in Kinds, Only(kind), Elsewhere, UNCHANGED adapter,
         NEW finger \in Fingers, Hal!Sample(finger)
  PROVE  Only(kind)'
<1> USE DEF Hal!Callbacks, Hal!FingerIds, Hal!NoFinger
<1>1. kind = "enroll" /\ sensor.samples \in 1..Samples
  BY DEF Hal!Sample, Only, Kinds, SystemTypeOK, Hal!TypeOK, Hal!Operations, Hal!Idle,
         Hal!Authenticating
<1> DEFINE callback == IF sensor.samples > 1
                       THEN Hal!OnEnrollResult(0, sensor.samples - 1)
                       ELSE Hal!OnEnrollResult(finger, 0)
<1>2. callback \in Hal!Callbacks
  BY <1>1, SamplesAssumption DEF Hal!OnEnrollResult
<1>3. callback \notin OtherReports(kind)
  BY <1>1 DEF Hal!OnEnrollResult, OtherReports, ReportOf
<1>4. Hal!Send(callback) /\ sensor'.op \in {sensor.op, "none"}
  BY DEF Hal!Sample, Hal!Enrolling, Hal!Idle
<1> QED
  BY <1>1, <1>2, <1>3, <1>4, ReportsOwn

LEMMA RemoveNextOnly ==
  ASSUME SystemTypeOK, NEW kind \in Kinds, Only(kind), Elsewhere, UNCHANGED adapter,
         NEW finger \in FingerIds, Hal!RemoveNext(finger)
  PROVE  Only(kind)'
<1> DEFINE callback == Hal!OnRemoved(finger, Hal!Remaining(finger))
<1>1. kind = "remove"
  BY DEF Hal!RemoveNext, Only, Kinds
<1>2. callback \in Hal!Callbacks
  BY DEF Hal!OnRemoved, Hal!Remaining, Hal!Callbacks, Hal!FingerIds, Hal!NoFinger,
         FingerIds, NoFinger
<1>3. callback \notin OtherReports(kind)
  BY <1>1 DEF Hal!OnRemoved, OtherReports, ReportOf
<1>4. Hal!Send(callback) /\ sensor'.op \in {sensor.op, "none"}
  BY DEF Hal!RemoveNext, Hal!Removing, Hal!Idle
<1> QED
  BY <1>1, <1>2, <1>3, <1>4, ReportsOwn

LEMMA EnumerateNextOnly ==
  ASSUME SystemTypeOK, NEW kind \in Kinds, Only(kind), Elsewhere, UNCHANGED adapter,
         NEW finger \in FingerIds, Hal!EnumerateNext(finger)
  PROVE  Only(kind)'
<1> DEFINE callback == Hal!OnEnumerate(finger, Hal!Remaining(finger))
<1>1. kind = "enumerate"
  BY DEF Hal!EnumerateNext, Only, Kinds
<1>2. callback \in Hal!Callbacks
  BY DEF Hal!OnEnumerate, Hal!Remaining, Hal!Callbacks, Hal!FingerIds, Hal!NoFinger,
         FingerIds, NoFinger
<1>3. callback \notin OtherReports(kind)
  BY <1>1 DEF Hal!OnEnumerate, OtherReports, ReportOf
<1>4. Hal!Send(callback) /\ sensor'.op \in {sensor.op, "none"}
  BY DEF Hal!EnumerateNext, Hal!Enumerating, Hal!Idle
<1> QED
  BY <1>1, <1>2, <1>3, <1>4, ReportsOwn

(* A template is recognized only while it is in the store.                 *)
LEMMA MatchOnly ==
  ASSUME SystemTypeOK, NEW kind \in Kinds, Only(kind), Elsewhere, UNCHANGED adapter,
         NEW finger \in FingerIds, Hal!Match(finger) \/ (finger = NoFinger /\ Hal!Reject)
  PROVE  Only(kind)'
<1> DEFINE callback == Hal!OnAuthenticated(finger)
<1> USE DEF Hal!NoFinger, NoFinger
<1>1. /\ sensor = Hal!Authenticating /\ UNCHANGED store /\ finger \in store \union {0}
      /\ Hal!Send(callback)
  BY DEF Hal!Match, Hal!Reject
<1>2. kind = "authenticate" /\ sensor'.op \in {sensor.op, "none"}
  BY <1>1 DEF Hal!Authenticating, Hal!Match, Hal!Reject, Hal!Idle, Only, Kinds
<1>3. callback \in Hal!Callbacks
  BY DEF Hal!OnAuthenticated, Hal!Callbacks, Hal!FingerIds, FingerIds
<1>4. callback \notin OtherReports(kind)
  BY <1>1, <1>2 DEF Hal!OnAuthenticated, OtherReports, ReportOf
<1> QED
  BY <1>1, <1>2, <1>3, <1>4, ReportsOwn

LEMMA SensorKind ==
  ASSUME SystemTypeOK, KindInv, Sensor \/ Acquire
  PROVE  KindInv'
<1>1. /\ Elsewhere /\ UNCHANGED adapter
      /\ (outOfStep => outOfStep') /\ UNCHANGED overlapped
  BY OutOfStepStays DEF Sensor, Acquire
<1> SUFFICES ASSUME NEW kind \in Kinds, Only(kind) PROVE Only(kind)'
  BY <1>1 DEF KindInv
<1>2. ASSUME NEW finger \in Fingers, Sample(finger) PROVE Only(kind)'
  BY <1>1, <1>2, SampleOnly DEF Sample
<1>3. CASE Fail
  <2>1. PICK error \in ErrorCodes : Hal!Send(Hal!OnError(error))
    BY <1>3 DEF Fail, Hal!Fail
  <2>2. Hal!OnError(error) \in Hal!Callbacks /\ Hal!OnError(error) \notin OtherReports(kind)
    BY DEF Hal!OnError, Hal!Callbacks, OtherReports
  <2>3. sensor'.op = "none" /\ UNCHANGED store
    BY <1>3 DEF Fail, Hal!Fail, Hal!Idle
  <2> QED
    BY <1>1, <2>1, <2>2, <2>3, ReportsOwn
<1>4. CASE Hal!Reject
  BY <1>1, <1>4, MatchOnly DEF FingerIds
<1>5. ASSUME NEW finger \in FingerIds,
             Hal!Match(finger) \/ Hal!RemoveNext(finger) \/ Hal!EnumerateNext(finger)
      PROVE  Only(kind)'
  BY <1>1, <1>5, MatchOnly, RemoveNextOnly, EnumerateNextOnly
<1>6. CASE Acquire
  <2>1. PICK info \in SensorInfos : Hal!Acquire(info)
    BY <1>6 DEF Acquire
  <2>2. Hal!OnAcquired(info) \in Hal!Callbacks /\ Hal!OnAcquired(info) \notin OtherReports(kind)
    BY AcquiredCallback DEF OtherReports
  <2> QED
    BY <1>1, <2>1, <2>2, ReportsOwn DEF Hal!Acquire
<1> QED
  BY <1>2, <1>3, <1>4, <1>5, <1>6 DEF Sensor

-----------------------------------------------------------------------------
(* A crash clears all but the sensor.                                      *)
LEMMA CrashKind ==
  ASSUME SystemTypeOK, Crash
  PROVE  KindInv'
<1>1. /\ callbacks' = <<>> /\ binder' = Adapter!Free /\ events' = <<>>
      /\ m_addingFinger' = EmptyName
      /\ overlapped' = FALSE
  BY DEF Crash, Restart
<1>2. \E kind \in Kinds : /\ sensor'.op \in {"none", kind}
                         /\ m_state' \in StatesOf(kind) \union {"FPSTATE_IDLE"}
  <2>1. CASE m_state' = "FPSTATE_ENUMERATING" /\ sensor' = Hal!Enumerating(store)
    <3>1. sensor'.op = "enumerate"
      BY <2>1 DEF Hal!Enumerating
    <3> QED
      BY <2>1, <3>1 DEF Kinds, StatesOf
  <2>2. CASE m_state' = "FPSTATE_IDLE" /\ sensor' \in {sensor, Hal!Idle}
    <3>1. sensor'.op \in Kinds \union {"none"}
      BY <2>2 DEF SystemTypeOK, Hal!TypeOK, Hal!Operations, Hal!Idle,
                  Hal!Authenticating, Kinds
    <3> QED
      BY <2>2, <3>1 DEF Kinds
  <2> QED
    BY <2>1, <2>2 DEF Crash, Restart, StartState
<1>3. \E kind \in Kinds : Only(kind)'
  BY <1>1, <1>2, OnlyStarted
<1> QED
  BY <1>1, <1>3 DEF KindInv

(* Unless an operation overlaps the last, all that is under way is of one  *)
(* kind.                                                                   *)
THEOREM OneKindAtATime == SystemSpec => []KindInv
<1>1. SystemInit => KindInv
  <2> SUFFICES ASSUME SystemInit PROVE Only("enumerate")
    BY DEF KindInv, Kinds, SystemInit
  <2>1. /\ callbacks = <<>> /\ binder = Adapter!Free /\ events = <<>>
        /\ m_addingFinger = EmptyName
        /\ m_state \in {"FPSTATE_ENUMERATING", "FPSTATE_IDLE"}
        /\ sensor = Hal!Idle \/ sensor = Hal!Enumerating(store)
    BY DEF SystemInit, Init, StartState, Adapter!Init
  <2>2. sensor.op \in {"none", "enumerate"} /\ binder.at = "none"
    BY <2>1 DEF Hal!Idle, Hal!Enumerating, Adapter!Free
  <2>3. \A set : ~Contains(callbacks, set) /\ ~Contains(events, set)
    BY <2>1 DEF Contains
  <2> QED
    BY <2>1, <2>2, <2>3 DEF Only, StatesOf, PlacesOf
<1>2. SystemTypeOK /\ KindInv /\ [SystemNext]_systemVars => KindInv'
  <2> SUFFICES ASSUME SystemTypeOK, KindInv, [SystemNext]_systemVars PROVE KindInv'
    OBVIOUS
  <2>1. CASE Timeout
    <3>1. /\ UNCHANGED <<m_addingFinger, outOfStep, overlapped, events, binder>>
          /\ m_state' = "FPSTATE_IDLE" /\ Hal!cancel
      BY <2>1 DEF Timeout, slot_cancelIdentify, GoIdle, adapter, history
    <3> QED
      BY <3>1, CancelledKind, KindKept DEF Thins
  <2>2. CASE EnrollReturns \/ UNCHANGED systemVars
    <3>1. /\ UNCHANGED <<m_state, m_addingFinger, outOfStep, overlapped, events, binder>>
          /\ UNCHANGED <<callbacks, sensor, store>>
      BY <2>2 DEF EnrollReturns, Adapter!enrollReturns, Elsewhere, systemVars, vars,
                  volatile, adapter, hal, history
    <3> QED
      BY <3>1, KindKept DEF Thins
  <2> QED
    BY <2>1, <2>2, CallKind, DispatchKind, BinderKind, SensorKind, CrashKind
    DEF SystemNext
<1> QED
  BY <1>1, <1>2, SystemTypeCorrect, PTL DEF SystemSpec

LEMMA EventIsOwn ==
  ASSUME SystemTypeOK, NEW kind, Only(kind), NEW i \in 1..Len(events)
  PROVE  /\ events[i].signal \in SignalsOf(kind)
         /\ events[i].signal = "authenticated" => events[i].finger \in store
<1>1. events[i] \in Adapter!Events
  BY DEF SystemTypeOK, Adapter!TypeOK
<1>2. events[i] \notin OtherEvents(kind)
  BY DEF Only, Contains
<1> QED
  BY <1>1, <1>2 DEF OtherEvents

(* No slot ends an operation that has begun in quiet with the answer to    *)
(* another, whatever was mixed up before it, for any number of clients and *)
(* templates and any lengths of the queues.                                *)
THEOREM AnswersAlwaysFit == SystemSpec => []AnswersFitOperation
<1>1. SystemTypeOK /\ KindInv => AnswersFitOperation
  <2> SUFFICES ASSUME SystemTypeOK, NEW kind \in Kinds, Only(kind),
                      m_state # "FPSTATE_IDLE", NEW i \in 1..Len(events)
               PROVE  events[i].signal \in AnswersTo(m_state)
    BY DEF KindInv, AnswersFitOperation
  <2>1. m_state \in StatesOf(kind)
    BY DEF Only
  <2>2. SignalsOf(kind) = AnswersTo(m_state)
    BY <2>1 DEF StatesOf, SignalsOf, AnswersTo, Kinds
  <2> QED
    BY <2>2, EventIsOwn
<1> QED
  BY <1>1, SystemTypeCorrect, OneKindAtATime, PTL

(* Whoever was recognized is still on the list and in the sensor when the  *)
(* name is looked up: an identification and a change of the list are never *)
(* under way together.                                                     *)
THEOREM IdentifiedAreListed == SystemSpec => []IdentifiedIsListed
<1>1. SystemTypeOK /\ StoreInv /\ KindInv => IdentifiedIsListed
  <2> SUFFICES ASSUME SystemTypeOK, StoreInv, loaded, ~outOfStep,
                      NEW kind \in Kinds, Only(kind),
                      NEW i \in 1..Len(events), events[i].signal = "authenticated"
               PROVE  events[i].finger \in Keys(m_fingerMap) \intersect store
    BY DEF KindInv, IdentifiedIsListed
  <2>1. kind = "authenticate" /\ events[i].finger \in store
    BY EventIsOwn DEF SignalsOf, Kinds
  <2>2. LastReports \subseteq OtherReports(kind) /\ Results \subseteq OtherEvents(kind)
    BY <2>1 DEF LastReports, OtherReports, ReportOf, Results, OtherEvents, SignalsOf
  <2>3. NoResult
    BY <2>1, <2>2 DEF NoResult, Only, PlacesOf, Changing, Holding, Contains
  <2>4. store = Keys(m_fingerMap)
    BY <2>3 DEF StoreInv, Accounted, Account, Settled, Listed
  <2> QED
    BY <2>1, <2>4
<1> QED
  BY <1>1, SystemTypeCorrect, ResultsAreAccountedFor, OneKindAtATime, PTL

-----------------------------------------------------------------------------
(* The name of an enrolment.                                               *)

LEMMA NameStaysFree ==
  ASSUME NameIsFree, outOfStep => outOfStep',
         m_addingFinger' \in {m_addingFinger, EmptyName},
         Values(m_fingerMap') \subseteq Values(m_fingerMap)
  PROVE  NameIsFree'
BY DEF NameIsFree

LEMMA CallFreeName ==
  ASSUME NameIsFree, Call
  PROVE  NameIsFree'
<1>1. ASSUME UNCHANGED <<m_fingerMap, m_addingFinger>>, outOfStep => outOfStep'
      PROVE  NameIsFree'
  BY <1>1, NameStaysFree
<1>2. ASSUME NEW ret, Refused(ret), UNCHANGED <<volatile, database>>
      PROVE  NameIsFree'
  BY <1>1, <1>2 DEF Refused, volatile, history
<1>3. ASSUME NEW name, Operation(name), UNCHANGED <<m_fingerMap, m_addingFinger>>
      PROVE  NameIsFree'
  BY <1>1, <1>3 DEF Operation, GetsOutOfStep
<1>4. ASSUME NEW caller, NEW finger, NEW ret, CallEnroll(caller, finger, ret)
      PROVE  NameIsFree'
  <2>1. CASE EnrollReply(caller, finger) = "FPREPLY_STARTED"
    <3>1. m_addingFinger' = finger /\ UNCHANGED m_fingerMap
      BY <1>4, <2>1 DEF CallEnroll, Enroll
    <3>2. finger \notin Values(m_fingerMap)
      BY <2>1 DEF EnrollReply
    <3> QED
      BY <3>1, <3>2 DEF NameIsFree
  <2>2. CASE EnrollReply(caller, finger) # "FPREPLY_STARTED"
    BY <1>2, <1>4, <2>2 DEF CallEnroll, Enroll, Refuse
  <2> QED
    BY <2>1, <2>2
<1>5. ASSUME NEW caller, NEW ret,
             CallIdentify(caller, ret) \/ CallVerify(caller, ret) \/ CallClear(caller, ret)
      PROVE  NameIsFree'
  <2>1. /\ UNCHANGED <<m_fingerMap, m_addingFinger>>
        /\ (\E name : Operation(name)) \/ Refused(ret)
    BY <1>5 DEF CallIdentify, CallVerify, CallClear, Identify, Verify, Clear, Refuse,
                volatile
  <2> QED
    BY <1>1, <1>3, <2>1 DEF Refused, history
<1>6. ASSUME NEW caller, NEW finger, NEW ret, CallRemove(caller, finger, ret)
      PROVE  NameIsFree'
  <2>1. /\ UNCHANGED <<m_fingerMap, m_addingFinger>>
        /\ Operation(asked) \/ Refused(ret)
    BY <1>6 DEF CallRemove, Remove, Refuse, volatile
  <2> QED
    BY <1>1, <1>3, <2>1 DEF Refused, history
<1>7. ASSUME NEW caller, CallAbort(caller)
      PROVE  NameIsFree'
  BY <1>1, <1>7 DEF CallAbort, Abort, Refuse, volatile, history
<1> QED
  BY <1>4, <1>5, <1>6, <1>7, Zenon DEF Call

LEMMA DispatchFreeName ==
  ASSUME SystemTypeOK, KindInv, NameIsFree, Dispatch
  PROVE  NameIsFree'
<1> DEFINE event == Head(events)
<1>1. /\ m_fingerMap \in FingerMaps
      /\ events # <<>> /\ events \in Seq(Adapter!Events)
  BY DEF SystemTypeOK, TypeOK, Adapter!TypeOK, Dispatch, Adapter!TakeEvent
<1>2. ASSUME UNCHANGED <<m_fingerMap, m_addingFinger, outOfStep>> PROVE NameIsFree'
  BY <1>2, NameStaysFree
<1>3. CASE OnEnrollProgress(event)
  BY <1>2, <1>3 DEF OnEnrollProgress, slot_enrollProgress, history
<1>4. CASE OnFailed(event) \/ OnAuthenticated(event) \/ OnAcquired(event)
  BY <1>2, <1>4 DEF OnFailed, OnAuthenticated, OnAcquired, slot_failed,
                    slot_authenticated, slot_acquired, history
<1>5. CASE OnSucceeded(event)
  BY <1>5 DEF OnSucceeded, slot_succeeded, NameIsFree
<1>6. CASE OnRemoved(event)
  <2>1. /\ UNCHANGED <<m_addingFinger, outOfStep>>
        /\ \/ m_fingerMap' = [m_fingerMap EXCEPT ![event.finger] = Absent]
           \/ m_fingerMap' = EmptyMap
    BY <1>6 DEF OnRemoved, slot_removed, history
  <2>2. \A k \in Keys(m_fingerMap') : k \in Keys(m_fingerMap) /\ m_fingerMap'[k] = m_fingerMap[k]
    BY <1>1, <2>1 DEF Keys, EmptyMap, FingerMaps
  <2>3. Values(m_fingerMap') \subseteq Values(m_fingerMap)
    BY <2>2 DEF Values
  <2> QED
    BY <2>1, <2>3, NameStaysFree
<1>7. CASE OnEnumerated(event)
  <2>1. UNCHANGED <<m_addingFinger, outOfStep>> /\ event.signal = "enumerated"
    BY <1>7 DEF OnEnumerated, slot_enumerated
  <2>2. CASE outOfStep
    BY <2>1, <2>2 DEF NameIsFree
  <2>3. ASSUME NEW kind \in Kinds, Only(kind) PROVE m_addingFinger = EmptyName
    <3>1. 1 \in 1..Len(events) /\ event = events[1]
      BY <1>1
    <3>2. "enumerated" \in SignalsOf(kind)
      BY <2>1, <2>3, <3>1, EventIsOwn
    <3>3. kind = "enumerate"
      BY <3>2 DEF Kinds, SignalsOf
    <3> QED
      BY <2>3, <3>3 DEF Only
  <2>4. CASE ~outOfStep
    <3>1. m_addingFinger' = EmptyName
      BY <2>1, <2>3, <2>4 DEF KindInv
    <3> QED
      BY <3>1 DEF NameIsFree
  <2> QED
    BY <2>2, <2>4
<1> QED
  BY <1>3, <1>4, <1>5, <1>6, <1>7 DEF Dispatch

(* The check of Enroll still holds when slot_succeeded lists the name, and *)
(* a name that a failed enrolment left behind harms nobody.                *)
THEOREM NamesStayFree == SystemSpec => []NameIsFree
<1>1. SystemInit => NameIsFree
  BY DEF SystemInit, Init, NameIsFree
<1>2. SystemTypeOK /\ KindInv /\ NameIsFree /\ [SystemNext]_systemVars => NameIsFree'
  <2> SUFFICES ASSUME SystemTypeOK, KindInv, NameIsFree, [SystemNext]_systemVars
               PROVE  NameIsFree'
    OBVIOUS
  <2>1. ASSUME UNCHANGED <<m_fingerMap, m_addingFinger>>, outOfStep => outOfStep'
        PROVE  NameIsFree'
    BY <2>1, NameStaysFree
  <2>2. CASE Timeout
    BY <2>1, <2>2 DEF Timeout, slot_cancelIdentify, history
  <2>3. CASE EnrollReturns
    BY <2>1, <2>3 DEF EnrollReturns, Elsewhere, volatile, history
  <2>4. CASE Binder \/ Sensor \/ Acquire
    <3>1. UNCHANGED <<m_fingerMap, m_addingFinger>>
      BY <2>4 DEF Binder, Sensor, Acquire, Elsewhere, volatile
    <3> QED
      BY <2>1, <2>4, <3>1, OutOfStepStays
  <2>5. CASE Crash
    BY <2>5 DEF Crash, Restart, NameIsFree
  <2>6. CASE UNCHANGED systemVars
    BY <2>1, <2>6 DEF systemVars, vars, volatile, history
  <2> QED
    BY <2>2, <2>3, <2>4, <2>5, <2>6, CallFreeName, DispatchFreeName DEF SystemNext
<1> QED
  BY <1>1, <1>2, SystemTypeCorrect, OneKindAtATime, PTL DEF SystemSpec
=============================================================================
