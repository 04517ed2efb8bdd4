------------------------ MODULE FPDSystemListProofs ------------------------
(***************************************************************************)
(* What can be said of the list.  To the sensor: the program keeps the     *)
(* promise of "TemplateList", each step of the system that changes the     *)
(* store or the list is one that the abstract list may take; that the      *)
(* sensor never runs ahead of the list by more than one change follows     *)
(* from where the results are, see "FPDSystemStoreProofs".  And to the     *)
(* clients: every name that comes or goes is told.                         *)
(***************************************************************************)
EXTENDS FPDSystemStoreProofs

Known == loaded /\ ~outOfStep
Follows == [List!Next]_(List!templateVars)

(* The list stays as it is, or is lost track of.                           *)
LEMMA ListGoesOn ==
  ASSUME UNCHANGED store, Known' => Known /\ Listed' = Listed
  PROVE  Follows
BY DEF Known, Listed, Follows, List!Next, List!LoseTrack, List!templateVars

(* A result brings the list level with the store.                          *)
LEMMA ListUpdated ==
  ASSUME UNCHANGED store, Known' => Settled'
  PROVE  Follows
BY DEF Known, Settled, Listed, Follows, List!Next, List!LoseTrack, List!Update

(* A step of the main thread that the list does not follow from a result.  *)
LEMMA CallFollows ==
  ASSUME Call \/ Timeout \/ EnrollReturns, SystemTypeOK
  PROVE  Follows
<1>1. ASSUME NEW ret, Refused(ret), UNCHANGED <<volatile, database>>
      PROVE  Follows
  BY <1>1, ListGoesOn DEF Refused, volatile, hal, history, Known, Listed, Keys
<1>2. ASSUME NEW name, Operation(name), UNCHANGED <<m_fingerMap, store>>
      PROVE  Follows
  BY <1>2, ListGoesOn DEF Operation, GetsOutOfStep, Known, Listed, Keys
<1>3. ASSUME UNCHANGED <<m_fingerMap, store, loaded, outOfStep>>
      PROVE  Follows
  BY <1>3, ListGoesOn DEF Known, Listed, Keys
<1>4. ASSUME NEW caller, NEW finger, NEW ret, CallEnroll(caller, finger, ret)
      PROVE  Follows
  <2>1. CASE EnrollReply(caller, finger) = "FPREPLY_STARTED"
    BY <1>2, <1>4, <2>1 DEF CallEnroll, Enroll, Hal!enroll, Hal!Request
  <2>2. CASE EnrollReply(caller, finger) # "FPREPLY_STARTED"
    BY <1>1, <1>4, <2>2 DEF CallEnroll, Enroll, Refuse
  <2> QED
    BY <2>1, <2>2
<1>5. ASSUME NEW caller, NEW ret, CallIdentify(caller, ret)
      PROVE  Follows
  <2>1. CASE IdentifyReply(caller) = "FPREPLY_STARTED"
    BY <1>2, <1>5, <2>1 DEF CallIdentify, Identify, Hal!authenticate, Hal!Request
  <2>2. CASE IdentifyReply(caller) # "FPREPLY_STARTED"
    BY <1>1, <1>5, <2>2 DEF CallIdentify, Identify, Refuse
  <2> QED
    BY <2>1, <2>2
<1>6. ASSUME NEW caller, NEW ret, CallVerify(caller, ret)
      PROVE  Follows
  <2>1. CASE VerifyReply(caller) = "FPREPLY_STARTED"
    BY <1>2, <1>6, <2>1 DEF CallVerify, Verify, Hal!enroll, Hal!Request
  <2>2. CASE VerifyReply(caller) # "FPREPLY_STARTED"
    BY <1>1, <1>6, <2>2 DEF CallVerify, Verify, Refuse
  <2> QED
    BY <2>1, <2>2
<1>7. ASSUME NEW caller, NEW ret, CallClear(caller, ret)
      PROVE  Follows
  <2>1. CASE ClearAccepted(caller)
    BY <1>2, <1>7, <2>1 DEF CallClear, Clear, Hal!remove, Hal!Request
  <2>2. CASE ~ClearAccepted(caller)
    BY <1>1, <1>7, <2>2 DEF CallClear, Clear, Refuse
  <2> QED
    BY <2>1, <2>2
<1>8. ASSUME NEW caller, NEW finger, NEW ret, CallRemove(caller, finger, ret)
      PROVE  Follows
  <2>1. CASE RemoveReply(caller, finger) = "FPREPLY_STARTED"
    BY <1>2, <1>8, <2>1 DEF CallRemove, Remove, Hal!remove, Hal!Request
  <2>2. CASE RemoveReply(caller, finger) # "FPREPLY_STARTED"
    BY <1>1, <1>8, <2>2 DEF CallRemove, Remove, Refuse
  <2> QED
    BY <2>1, <2>2
<1>9. ASSUME NEW caller, CallAbort(caller)
      PROVE  Follows
  BY <1>3, <1>9 DEF CallAbort, Abort, Refuse, volatile, hal, history, Hal!cancel
<1>10. CASE Timeout
  BY <1>3, <1>10 DEF Timeout, slot_cancelIdentify, Hal!cancel, history
<1>11. CASE EnrollReturns
  BY <1>3, <1>11 DEF EnrollReturns, Elsewhere, volatile, hal, history
<1>12. CASE Call
  BY <1>4, <1>5, <1>6, <1>7, <1>8, <1>9, <1>12, Zenon DEF Call
<1> QED
  BY <1>10, <1>11, <1>12

(* A result is the only one: once it is taken none is left.                *)
LEMMA ResultTaken ==
  ASSUME SystemTypeOK, Accounted, Dispatch, Head(events) \in Results,
         UNCHANGED <<sensor, callbacks>>
  PROVE  NoResult'
<1>1. /\ events \in Seq(Adapter!Events) /\ events # <<>> /\ events' = Tail(events)
      /\ UNCHANGED binder
  BY DEF SystemTypeOK, Adapter!TypeOK, Dispatch, Adapter!TakeEvent
<1>2. Contains(events, Results) /\ ~Contains(events', Results)
  BY <1>1, TakesOne DEF Accounted, OneResult
<1> QED
  BY <1>1, <1>2, SetsStay DEF Accounted, OneResult, NoResult, Changing, Holding

LEMMA DispatchFollows ==
  ASSUME SystemTypeOK, StoreInv, StoreInv', Dispatch
  PROVE  Follows
<1> DEFINE event == Head(events)
<1>1. event \in Adapter!Events
  BY DEF SystemTypeOK, Adapter!TypeOK, Dispatch, Adapter!TakeEvent
<1>2. ASSUME UNCHANGED <<m_fingerMap, store, loaded, outOfStep>>
      PROVE  Follows
  BY <1>2, ListGoesOn DEF Known, Listed, Keys
<1>3. ASSUME event \in Results, UNCHANGED <<store, sensor, callbacks, outOfStep>>
      PROVE  Follows
  <2>1. ~outOfStep => NoResult'
    BY <1>3, ResultTaken DEF StoreInv
  <2>2. Known' => Settled'
    BY <1>3, <2>1 DEF StoreInv, Accounted, Account, Known
  <2> QED
    BY <1>3, <2>2, ListUpdated
<1>4. CASE OnEnrollProgress(event)
  BY <1>2, <1>4 DEF OnEnrollProgress, slot_enrollProgress, Hal!cancel, hal, history
<1>5. CASE OnFailed(event) \/ OnAuthenticated(event) \/ OnAcquired(event)
  BY <1>2, <1>5 DEF OnFailed, OnAuthenticated, OnAcquired, slot_failed,
                    slot_authenticated, slot_acquired, hal, history
<1>6. CASE OnSucceeded(event) \/ OnRemoved(event) \/ OnEnumerated(event)
  <2>1. event \in Results
    BY <1>1, <1>6 DEF OnSucceeded, OnRemoved, OnEnumerated, Results
  <2> QED
    BY <1>3, <1>6, <2>1 DEF OnSucceeded, OnRemoved, OnEnumerated, hal, history
<1> QED
  BY <1>4, <1>5, <1>6 DEF Dispatch

(* What the binder thread does, the list learns of later.                  *)
LEMMA BinderFollows ==
  ASSUME Binder
  PROVE  Follows
<1>1. UNCHANGED <<m_fingerMap, store, loaded>> /\ (outOfStep => outOfStep')
  <2>1. UNCHANGED m_fingerMap
    BY DEF Binder, Elsewhere, volatile
  <2>2. Deliver \/ (\E ret : PostEnroll(ret)) \/ UNCHANGED <<hal, history>>
    BY DEF Binder
  <2>3. CASE Deliver \/ UNCHANGED <<hal, history>>
    BY <2>1, <2>3 DEF Deliver, hal, history
  <2>4. ASSUME NEW ret, PostEnroll(ret)
        PROVE  UNCHANGED <<store, loaded>> /\ (outOfStep => outOfStep')
    BY <2>4 DEF PostEnroll, GetsOutOfStep, hal
  <2> QED
    BY <2>1, <2>2, <2>3, <2>4
<1> QED
  BY <1>1, ListGoesOn DEF Known, Listed, Keys

LEMMA SensorFollows ==
  ASSUME SystemTypeOK, StoreInv, Sensor \/ Acquire
  PROVE  Follows
<1>1. UNCHANGED m_fingerMap /\ UNCHANGED loaded
  BY DEF Sensor, Acquire, Sample, Fail, Elsewhere, volatile, history
<1>2. ASSUME UNCHANGED store, outOfStep => outOfStep'
      PROVE  Follows
  BY <1>1, <1>2, ListGoesOn DEF Known, Listed, Keys
<1>3. ASSUME NEW finger \in Fingers, Sample(finger)
      PROVE  Follows
  <2>1. CASE UNCHANGED store
    BY <1>2, <1>3, <2>1 DEF Sample
  <2>2. CASE store' # store
    <3>1. /\ sensor.op = "enroll" /\ finger \notin store
          /\ store' = store \union {finger} /\ UNCHANGED outOfStep
      BY <1>3, <2>2 DEF Sample, Hal!Sample
    <3>2. Known => store = Listed
      BY <3>1 DEF Known, StoreInv, Accounted, Account, RightSensor, Settled
    <3>3. List!Enrol(finger)
      BY <1>1, <3>1, <3>2 DEF List!Enrol, Known, Listed
    <3> QED
      BY <3>3 DEF Follows, List!Next
  <2> QED
    BY <2>1, <2>2
<1>4. ASSUME NEW finger \in FingerIds, Hal!RemoveNext(finger), UNCHANGED history
      PROVE  Follows
  <2>1. /\ sensor.op = "remove" /\ store' = store \ {finger}
        /\ UNCHANGED outOfStep
    BY <1>4 DEF Hal!RemoveNext, history
  <2>2. Known => store \subseteq Listed
    BY <2>1 DEF Known, StoreInv, Accounted, Account, RightSensor, Settled
  <2>3. CASE finger \in Fingers
    <3>1. List!Remove(finger)
      BY <1>1, <2>1, <2>2 DEF List!Remove, Known, Listed
    <3> QED
      BY <2>3, <3>1 DEF Follows, List!Next
  <2>4. CASE finger = NoFinger
    <3>1. UNCHANGED store
      BY <2>1, <2>4, ConstantsAssumption DEF SystemTypeOK, Hal!TypeOK
    <3> QED
      BY <1>2, <2>1, <3>1
  <2> QED
    BY <2>3, <2>4 DEF FingerIds
<1>5. CASE Fail
  BY <1>2, <1>5 DEF Fail, Hal!Fail, GetsOutOfStep
<1>6. ASSUME UNCHANGED history, NEW finger,
             Hal!Reject \/ Hal!Match(finger) \/ Hal!EnumerateNext(finger)
      PROVE  Follows
  BY <1>2, <1>6 DEF Hal!Reject, Hal!Match, Hal!EnumerateNext, history
<1>7. CASE Acquire
  BY <1>2, <1>7 DEF Acquire, Hal!Acquire, history
<1> QED
  BY <1>3, <1>4, <1>5, <1>6, <1>7 DEF Sensor

(* The list of the program follows the store of the sensor as TemplateList *)
(* promises, for any templates, touches, clients and lengths of the        *)
(* queues: it is never two changes behind, and whenever it changes it is   *)
(* what is stored at that moment.                                          *)
THEOREM ListFollowsStore == SystemSpec => ImplementsTemplateList
<1>1. SystemInit => List!Init
  BY DEF SystemInit, List!Init
<1>2. SystemTypeOK /\ StoreInv /\ StoreInv' /\ [SystemNext]_systemVars => Follows
  <2> SUFFICES ASSUME SystemTypeOK, StoreInv, StoreInv', [SystemNext]_systemVars
               PROVE  Follows
    OBVIOUS
  <2>1. CASE Crash
    BY <2>1, ListGoesOn DEF Crash, Known
  <2>2. CASE UNCHANGED systemVars
    BY <2>2, ListGoesOn DEF systemVars, vars, volatile, hal, history, Known, Listed, Keys
  <2> QED
    BY <2>1, <2>2, CallFollows, DispatchFollows, BinderFollows, SensorFollows
    DEF SystemNext
<1> QED
  BY <1>1, <1>2, SystemTypeCorrect, ResultsAreAccountedFor, PTL
  DEF SystemSpec, ImplementsTemplateList, List!Spec, Follows

-----------------------------------------------------------------------------
(* What a client can learn of the list.  A name goes without Removed only  *)
(* when slot_succeeded comes for an id that is listed already.  It does    *)
(* not: a template that is on its way there is neither listed nor about to *)
(* be, by another success or by an enumeration that is not over yet.       *)

MadeAs(k) == {callback \in EnrolledCallbacks : callback.finger = k}
SucceededAs(k) == {event \in SucceededEvents : event.finger = k}
EnumeratedEvents == {event \in Adapter!Events : event.signal = "enumerated"}
InPostEnroll(k) == binder.at = "postEnroll" /\ binder.finger = k

OnItsWay(k) ==
  \/ Contains(callbacks, MadeAs(k))
  \/ InPostEnroll(k)
  \/ Contains(events, SucceededAs(k))

OnItsWayOnce(k) ==
  /\ AtMostOne(callbacks, MadeAs(k))
  /\ AtMostOne(events, SucceededAs(k))
  /\ Contains(callbacks, MadeAs(k)) => ~InPostEnroll(k)
  /\ Contains(callbacks, MadeAs(k)) \/ InPostEnroll(k)
       => ~Contains(events, SucceededAs(k))

Enumerating ==
  \/ sensor.op = "enumerate"
  \/ Contains(callbacks, Enumerates)
  \/ Contains(events, EnumeratedEvents)

Unheard(k) ==
  /\ k \notin Keys(m_fingerMap)
  /\ Enumerating => /\ sensor.op # "enumerate"
                    /\ k \notin m_fingers
                    /\ ~Contains(callbacks, EnumeratesOf(k))

Fresh(k) == OnItsWayOnce(k) /\ (OnItsWay(k) => Unheard(k))
FreshInv == \A k \in Fingers : Fresh(k)

LEMMA ThinsPart ==
  ASSUME NEW T, NEW queue, NEW next, NEW set, NEW part \in SUBSET set,
         Thins(queue, next, T, set)
  PROVE  Thins(queue, next, T, part)
BY DEF Thins

LEMMA FreshSets ==
  /\ Enumerates' = Enumerates /\ EnumeratedEvents' = EnumeratedEvents
  /\ \A k : /\ MadeAs(k)' = MadeAs(k) /\ SucceededAs(k)' = SucceededAs(k)
            /\ EnumeratesOf(k)' = EnumeratesOf(k)
            /\ MadeAs(k) \in SUBSET EnrolledCallbacks
            /\ SucceededAs(k) \in SUBSET SucceededEvents
            /\ EnumeratesOf(k) \in SUBSET Enumerates
BY DEF MadeAs, SucceededAs, EnrolledCallbacks, SucceededEvents, EnumeratedEvents,
       Enumerates, EnumeratesOf

(* A step that is not one of the template's.                               *)
LEMMA FreshStays ==
  ASSUME SystemTypeOK, NEW k, Fresh(k),
         Thins(callbacks, callbacks', Hal!Callbacks, MadeAs(k)),
         Thins(events, events', Adapter!Events, SucceededAs(k)),
         InPostEnroll(k)' => InPostEnroll(k),
         Unheard(k) /\ OnItsWay(k) => Unheard(k)'
  PROVE  Fresh(k)'
<1>1. callbacks \in Seq(Hal!Callbacks) /\ events \in Seq(Adapter!Events)
  BY DEF SystemTypeOK, Hal!TypeOK, Adapter!TypeOK
<1>2. /\ Contains(callbacks', MadeAs(k)) => Contains(callbacks, MadeAs(k))
      /\ AtMostOne(callbacks, MadeAs(k)) => AtMostOne(callbacks', MadeAs(k))
      /\ Contains(events', SucceededAs(k)) => Contains(events, SucceededAs(k))
      /\ AtMostOne(events, SucceededAs(k)) => AtMostOne(events', SucceededAs(k))
  BY <1>1, ThinsKeeps
<1>3. OnItsWay(k)' => OnItsWay(k)
  BY <1>2, FreshSets DEF OnItsWay
<1>4. OnItsWayOnce(k)'
  BY <1>2, FreshSets DEF Fresh, OnItsWayOnce
<1> QED
  BY <1>3, <1>4 DEF Fresh

LEMMA UnheardStays ==
  ASSUME NEW k, Unheard(k),
         k \in Keys(m_fingerMap') => k \in Keys(m_fingerMap),
         Enumerating' => Enumerating,
         sensor'.op = "enumerate" => sensor.op = "enumerate",
         Enumerating /\ k \in m_fingers' => k \in m_fingers,
         Contains(callbacks', EnumeratesOf(k)) => Contains(callbacks, EnumeratesOf(k))
  PROVE  Unheard(k)'
<1>1. Keys(m_fingerMap)' = Keys(m_fingerMap')
  BY DEF Keys
<1> QED
  BY <1>1, FreshSets DEF Unheard

(* Steps of no template at all.                                            *)
LEMMA FreshKept ==
  ASSUME SystemTypeOK, FreshInv,
         Keys(m_fingerMap') \subseteq Keys(m_fingerMap), UNCHANGED m_fingers,
         binder' = binder \/ binder'.at # "postEnroll",
         sensor'.op = "enumerate" => sensor.op = "enumerate",
         Thins(callbacks, callbacks', Hal!Callbacks, EnrolledCallbacks \union Enumerates),
         Thins(events, events', Adapter!Events, SucceededEvents \union EnumeratedEvents)
  PROVE  FreshInv'
<1>1. callbacks \in Seq(Hal!Callbacks) /\ events \in Seq(Adapter!Events)
  BY DEF SystemTypeOK, Hal!TypeOK, Adapter!TypeOK
<1>2. /\ \A part \in SUBSET (EnrolledCallbacks \union Enumerates) :
           /\ Thins(callbacks, callbacks', Hal!Callbacks, part)
           /\ Contains(callbacks', part) => Contains(callbacks, part)
      /\ \A part \in SUBSET (SucceededEvents \union EnumeratedEvents) :
           /\ Thins(events, events', Adapter!Events, part)
           /\ Contains(events', part) => Contains(events, part)
  BY <1>1, ThinsPart, ThinsKeeps
<1>3. Enumerating' => Enumerating
  BY <1>2, FreshSets DEF Enumerating
<1>4. ASSUME NEW k \in Fingers PROVE Fresh(k)'
  <2>1. /\ MadeAs(k) \in SUBSET (EnrolledCallbacks \union Enumerates)
        /\ EnumeratesOf(k) \in SUBSET (EnrolledCallbacks \union Enumerates)
        /\ SucceededAs(k) \in SUBSET (SucceededEvents \union EnumeratedEvents)
    BY FreshSets
  <2>2. InPostEnroll(k)' => InPostEnroll(k)
    BY DEF InPostEnroll
  <2>3. Unheard(k) => Unheard(k)'
    BY <1>2, <1>3, <2>1, UnheardStays
  <2> QED
    BY <1>2, <2>1, <2>2, <2>3, FreshStays DEF FreshInv
<1> QED
  BY <1>4 DEF FreshInv

(* With none on its way there is nothing to say.                           *)
LEMMA FreshNone ==
  ASSUME NEW k, ~OnItsWay(k)'
  PROVE  Fresh(k)'
BY DEF Fresh, OnItsWay, OnItsWayOnce, AtMostOne, Contains

(* The main thread puts nothing on the way but Hal!cancel's error.         *)
LEMMA CancelledFresh ==
  ASSUME Hal!cancel
  PROVE  /\ Thins(callbacks, callbacks', Hal!Callbacks, EnrolledCallbacks \union Enumerates)
         /\ sensor'.op = "enumerate" => sensor.op = "enumerate"
<1>1. Hal!OnError("ERROR") \in Hal!Callbacks \ (EnrolledCallbacks \union Enumerates)
  BY DEF Hal!OnError, Hal!Callbacks, EnrolledCallbacks, Enumerates
<1> QED
  BY <1>1 DEF Hal!cancel, Hal!Send, Hal!Idle, Thins

LEMMA CallFresh ==
  ASSUME SystemTypeOK, FreshInv, Call \/ Timeout \/ EnrollReturns
  PROVE  FreshInv'
<1>1. UNCHANGED m_fingerMap
  BY CallIsMethodCall, ListKept
  DEF Timeout, slot_cancelIdentify, EnrollReturns, Elsewhere, volatile
<1>2. UNCHANGED <<m_fingers, binder, events>>
  BY DEF Call, CallEnroll, CallIdentify, CallClear, CallVerify, CallRemove, CallAbort,
         Refused, Timeout, EnrollReturns, adapter, Adapter!enroll, Adapter!clear,
         Adapter!remove, Adapter!enrollReturns
<1>3. \/ Hal!cancel \/ UNCHANGED hal
      \/ \E ret : \/ Hal!enroll(ret) \/ Hal!authenticate(ret)
                  \/ \E finger : Hal!remove(ret, finger)
  BY DEF Call, CallEnroll, CallIdentify, CallClear, CallVerify, CallRemove, CallAbort,
         Refused, Timeout, EnrollReturns
<1>4. /\ Thins(callbacks, callbacks', Hal!Callbacks, EnrolledCallbacks \union Enumerates)
      /\ sensor'.op = "enumerate" => sensor.op = "enumerate"
  <2>1. CASE Hal!cancel
    BY <2>1, CancelledFresh
  <2>2. CASE UNCHANGED hal
    BY <2>2 DEF hal, Thins
  <2>3. ASSUME NEW ret, NEW finger,
               Hal!enroll(ret) \/ Hal!authenticate(ret) \/ Hal!remove(ret, finger)
        PROVE  /\ UNCHANGED callbacks
               /\ sensor'.op = "enumerate" => sensor.op = "enumerate"
    BY <2>3 DEF Hal!enroll, Hal!authenticate, Hal!remove, Hal!Request, Hal!Enrolling,
                Hal!Authenticating, Hal!Removing
  <2> QED
    BY <1>3, <2>1, <2>2, <2>3 DEF Thins
<1> QED
  BY <1>1, <1>2, <1>4, FreshKept DEF Thins

(* A success comes for an id that is not listed, and is its last trace.    *)
LEMMA SucceededIsFresh ==
  ASSUME SystemTypeOK, FreshInv, Dispatch, OnSucceeded(Head(events))
  PROVE  /\ Head(events).finger \in Fingers
         /\ Head(events).finger \notin Keys(m_fingerMap)
         /\ FreshInv'
<1> DEFINE event == Head(events)
<1>0. PICK finger : finger = event.finger
  OBVIOUS
<1>1. /\ events \in Seq(Adapter!Events) /\ events # <<>> /\ events' = Tail(events)
      /\ event \in Adapter!Events
      /\ UNCHANGED <<binder, m_fingers, hal>>
      /\ m_fingerMap \in FingerMaps
  BY DEF SystemTypeOK, Adapter!TypeOK, TypeOK, Dispatch, Adapter!TakeEvent, OnSucceeded
<1>2. finger \in Fingers /\ event \in SucceededAs(finger)
  BY <1>0, <1>1 DEF OnSucceeded, SucceededAs, SucceededEvents, Adapter!Events
<1>3. /\ Contains(events, SucceededAs(finger))
      /\ AtMostOne(events, SucceededAs(finger)) => ~Contains(events', SucceededAs(finger))
  BY <1>1, <1>2, TakesOne
<1>4. Fresh(finger) /\ Unheard(finger)
  BY <1>2, <1>3 DEF FreshInv, Fresh, OnItsWay
<1>5. ~OnItsWay(finger)'
  BY <1>1, <1>3, <1>4, FreshSets
  DEF Fresh, OnItsWayOnce, OnItsWay, InPostEnroll, hal
<1>6. ASSUME NEW k \in Fingers, k # finger PROVE Fresh(k)'
  <2>1. m_fingerMap' = [m_fingerMap EXCEPT ![finger] = m_addingFinger]
    BY <1>0, <1>1 DEF OnSucceeded, slot_succeeded, WithFinger
  <2>2. k \in Keys(m_fingerMap') => k \in Keys(m_fingerMap)
    BY <1>1, <1>6, <2>1 DEF Keys, FingerMaps, FingerIds
  <2>3. Contains(events', EnumeratedEvents) => Contains(events, EnumeratedEvents)
    BY <1>1, ThinsKeeps DEF Thins
  <2>4. Unheard(k) => Unheard(k)'
    BY <1>1, <2>2, <2>3, FreshSets, UnheardStays DEF Enumerating, hal
  <2> QED
    BY <1>1, <1>6, <2>4, FreshStays DEF FreshInv, Thins, InPostEnroll, hal
<1> QED
  <2>1. ASSUME NEW k \in Fingers PROVE Fresh(k)'
    BY <1>5, <1>6, FreshNone
  <2>2. finger \notin Keys(m_fingerMap)
    BY <1>4 DEF Unheard
  <2> QED
    BY <1>0, <1>2, <2>1, <2>2 DEF FreshInv

LEMMA DispatchFresh ==
  ASSUME SystemTypeOK, FreshInv, Dispatch
  PROVE  FreshInv'
<1> DEFINE event == Head(events)
<1>1. /\ events \in Seq(Adapter!Events) /\ events # <<>> /\ events' = Tail(events)
      /\ \A set : Thins(events, events', Adapter!Events, set)
      /\ UNCHANGED <<binder, m_fingers>>
      /\ m_fingerMap \in FingerMaps
  BY DEF SystemTypeOK, Adapter!TypeOK, TypeOK, Dispatch, Adapter!TakeEvent, Thins
<1>2. ASSUME Keys(m_fingerMap') \subseteq Keys(m_fingerMap), Hal!cancel \/ UNCHANGED hal
      PROVE  FreshInv'
  <2>1. /\ Thins(callbacks, callbacks', Hal!Callbacks, EnrolledCallbacks \union Enumerates)
        /\ sensor'.op = "enumerate" => sensor.op = "enumerate"
    BY <1>2, CancelledFresh DEF hal, Thins
  <2> QED
    BY <1>1, <1>2, <2>1, FreshKept
<1>3. CASE \/ OnEnrollProgress(event) \/ OnFailed(event) \/ OnAuthenticated(event)
           \/ OnAcquired(event)
  <2>1. UNCHANGED m_fingerMap /\ (Hal!cancel \/ UNCHANGED hal)
    BY <1>3 DEF OnEnrollProgress, OnFailed, OnAuthenticated, OnAcquired,
                slot_enrollProgress, slot_failed, slot_authenticated, slot_acquired
  <2> QED
    BY <1>2, <2>1
<1>4. CASE OnRemoved(event)
  <2>1. /\ \/ m_fingerMap' = [m_fingerMap EXCEPT ![event.finger] = Absent]
           \/ m_fingerMap' = EmptyMap
        /\ UNCHANGED hal
    BY <1>4 DEF OnRemoved, slot_removed
  <2>2. Keys(m_fingerMap') \subseteq Keys(m_fingerMap)
    BY <1>1, <2>1 DEF Keys, EmptyMap, FingerMaps
  <2> QED
    BY <1>2, <2>1, <2>2
<1>5. CASE OnEnumerated(event)
  <2>1. /\ slot_enumerated(m_fingers) /\ UNCHANGED hal
        /\ m_fingers \in SUBSET Fingers /\ event.signal = "enumerated"
    BY <1>5 DEF OnEnumerated, SystemTypeOK, Adapter!TypeOK
  <2>2. Keys(m_fingerMap') = m_fingers
    BY <2>1, LoadedMapKeys DEF slot_enumerated, SystemTypeOK
  <2>3. Enumerating
    <3>1. 1 \in 1..Len(events) /\ events[1] \in EnumeratedEvents
      BY <1>1, <2>1 DEF EnumeratedEvents
    <3> QED
      BY <3>1 DEF Enumerating, Contains
  <2>4. ASSUME NEW k \in Fingers PROVE Fresh(k)'
    <3>1. Keys(m_fingerMap)' = m_fingers
      BY <2>2 DEF Keys
    <3>2. Unheard(k) => Unheard(k)'
      BY <1>1, <2>1, <2>3, <3>1, FreshSets DEF Unheard, hal
    <3>3. Thins(callbacks, callbacks', Hal!Callbacks, MadeAs(k))
      BY <2>1 DEF Thins, hal
    <3> QED
      BY <1>1, <3>2, <3>3, FreshStays DEF FreshInv, InPostEnroll
  <2> QED
    BY <2>4 DEF FreshInv
<1>6. CASE OnSucceeded(event)
  BY <1>6, SucceededIsFresh
<1> QED
  BY <1>3, <1>4, <1>5, <1>6 DEF Dispatch

(* What the binder thread does to the rest.                                *)
LEMMA OtherEventFresh ==
  ASSUME NEW event \in Adapter!Events, Adapter!Emit(event),
         event.signal \notin {"succeeded", "enumerated"}
  PROVE  Thins(events, events', Adapter!Events, SucceededEvents \union EnumeratedEvents)
BY DEF Adapter!Emit, Thins, SucceededEvents, EnumeratedEvents

(* A template goes from the callbacks to the binder thread.                *)
LEMMA MadeFresh ==
  ASSUME SystemTypeOK, FreshInv, callbacks # <<>>, callbacks' = Tail(callbacks),
         NEW finger \in Fingers, Head(callbacks) \in MadeAs(finger),
         binder' = [at |-> "postEnroll", finger |-> finger],
         Adapter!Emit(Adapter!EnrollProgress(100)),
         UNCHANGED <<m_fingerMap, m_fingers, sensor>>
  PROVE  FreshInv'
<1>1. callbacks \in Seq(Hal!Callbacks) /\ events \in Seq(Adapter!Events)
  BY DEF SystemTypeOK, Hal!TypeOK, Adapter!TypeOK
<1>2. Thins(events, events', Adapter!Events, SucceededEvents \union EnumeratedEvents)
  <2>1. /\ Adapter!EnrollProgress(100) \in Adapter!Events
        /\ Adapter!EnrollProgress(100).signal \notin {"succeeded", "enumerated"}
    BY DEF Adapter!EnrollProgress, Adapter!Events, Adapter!ProgressValues
  <2> QED
    BY <2>1, OtherEventFresh
<1>3. /\ \A part : Thins(callbacks, callbacks', Hal!Callbacks, part)
      /\ \A part : Contains(callbacks', part) => Contains(callbacks, part)
  BY <1>1, ThinsKeeps DEF Thins
<1>4. \A part \in SUBSET (SucceededEvents \union EnumeratedEvents) :
        /\ Thins(events, events', Adapter!Events, part)
        /\ Contains(events', part) => Contains(events, part)
        /\ AtMostOne(events, part) => AtMostOne(events', part)
  BY <1>1, <1>2, ThinsPart, ThinsKeeps
<1>5. ASSUME NEW k \in Fingers, Unheard(k) PROVE Unheard(k)'
  <2>1. Enumerating' => Enumerating
    BY <1>3, <1>4, FreshSets DEF Enumerating
  <2> QED
    BY <1>3, <1>5, <2>1, UnheardStays
<1>6. ASSUME NEW k \in Fingers, k # finger PROVE Fresh(k)'
  <2>1. InPostEnroll(k)' => InPostEnroll(k)
    BY <1>6 DEF InPostEnroll
  <2>2. SucceededAs(k) \in SUBSET (SucceededEvents \union EnumeratedEvents)
    BY FreshSets
  <2> QED
    BY <1>3, <1>4, <1>5, <2>1, <2>2, FreshStays DEF FreshInv
<1>7. Fresh(finger)'
  <2>1. /\ Contains(callbacks, MadeAs(finger))
        /\ AtMostOne(callbacks, MadeAs(finger)) => ~Contains(callbacks', MadeAs(finger))
    BY <1>1, TakesOne
  <2>2. OnItsWayOnce(finger) /\ Unheard(finger)
    BY <2>1 DEF FreshInv, Fresh, OnItsWay
  <2>3. /\ ~Contains(callbacks', MadeAs(finger)) /\ ~Contains(events', SucceededAs(finger))
    BY <1>4, <2>1, <2>2, FreshSets DEF OnItsWayOnce
  <2>4. OnItsWayOnce(finger)'
    BY <2>3, FreshSets DEF OnItsWayOnce, AtMostOne, Contains
  <2> QED
    BY <1>5, <2>2, <2>4 DEF Fresh
<1> QED
  BY <1>6, <1>7 DEF FreshInv

(* An enumerated template is none of those that are on their way.          *)
LEMMA EnumerateFresh ==
  ASSUME SystemTypeOK, FreshInv, callbacks # <<>>, callbacks' = Tail(callbacks),
         Head(callbacks) \in Enumerates,
         Adapter!enumerateCallback(Head(callbacks).finger, Head(callbacks).remaining),
         UNCHANGED <<m_fingerMap, sensor>>
  PROVE  FreshInv'
<1> DEFINE callback == Head(callbacks)
<1>1. /\ callbacks \in Seq(Hal!Callbacks) /\ events \in Seq(Adapter!Events)
      /\ UNCHANGED binder
      /\ m_fingers' \subseteq m_fingers \union {callback.finger}
  BY DEF SystemTypeOK, Hal!TypeOK, Adapter!TypeOK, Adapter!enumerateCallback
<1>2. Thins(events, events', Adapter!Events, SucceededEvents)
  BY DEF Adapter!enumerateCallback, Adapter!Emit, Adapter!Enumerated, Adapter!Events,
         SucceededEvents, Thins
<1>3. \A set : Contains(callbacks, set) <=> callback \in set \/ Contains(callbacks', set)
  BY <1>1, HeadOrTail
<1>4. ASSUME NEW k \in Fingers PROVE Fresh(k)'
  <2>1. Thins(events, events', Adapter!Events, SucceededAs(k))
    BY <1>2, ThinsPart, FreshSets
  <2>2. ASSUME Unheard(k) PROVE Unheard(k)'
    <3>1. callback.finger # k /\ k \notin m_fingers /\ sensor.op # "enumerate"
          /\ ~Contains(callbacks, EnumeratesOf(k))
      BY <1>3, <2>2 DEF Unheard, Enumerating, EnumeratesOf
    <3>2. Keys(m_fingerMap)' = Keys(m_fingerMap)
      BY DEF Keys
    <3> QED
      BY <1>1, <1>3, <2>2, <3>1, <3>2, FreshSets DEF Unheard
  <2> QED
    BY <1>1, <2>1, <2>2, FreshStays DEF FreshInv, Thins, InPostEnroll
<1> QED
  BY <1>4 DEF FreshInv

LEMMA DeliverFresh ==
  ASSUME SystemTypeOK, FreshInv, Deliver, Elsewhere
  PROVE  FreshInv'
<1> DEFINE callback == Head(callbacks)
<1> USE DEF Adapter!NoFinger, NoFinger
<1>1. /\ callbacks \in Seq(Hal!Callbacks) /\ callbacks # <<>>
      /\ callbacks' = Tail(callbacks)
      /\ callback \in Hal!Callbacks
      /\ UNCHANGED <<m_fingerMap, sensor>>
  BY DEF SystemTypeOK, Hal!TypeOK, Deliver, Elsewhere, volatile
<1>2. ASSUME UNCHANGED m_fingers, binder' = binder \/ binder'.at # "postEnroll",
             \/ UNCHANGED events
             \/ \E event \in Adapter!Events : /\ Adapter!Emit(event)
                                              /\ event.signal \notin {"succeeded", "enumerated"}
      PROVE  FreshInv'
  <2>1. Thins(events, events', Adapter!Events, SucceededEvents \union EnumeratedEvents)
    BY <1>2, OtherEventFresh DEF Thins
  <2>2. Keys(m_fingerMap') = Keys(m_fingerMap)
    BY <1>1
  <2> QED
    BY <1>1, <1>2, <2>1, <2>2, FreshKept DEF Thins
<1>3. CASE /\ callback.on = "EnrollResult"
           /\ Adapter!enrollCallback(callback.finger, callback.remaining)
  <2>1. CASE callback.remaining > 0 /\ UNCHANGED events
    <3>1. UNCHANGED m_fingers /\ binder'.at # "postEnroll"
      BY <1>3, <2>1 DEF Adapter!enrollCallback
    <3> QED
      BY <1>2, <2>1, <3>1
  <2>2. CASE callback.remaining = 0 /\ Adapter!Emit(Adapter!EnrollProgress(100))
    <3>1. callback.finger \in Fingers
      <4>1. 1 \in 1..Len(callbacks) /\ callbacks[1] = callback
        BY <1>1
      <4> QED
        BY <1>3, <2>2, <4>1 DEF SystemTypeOK, Hal!TypeOK
    <3>2. callback \in MadeAs(callback.finger)
      BY <1>1, <1>3, <2>2 DEF MadeAs, EnrolledCallbacks
    <3>3. /\ binder' = [at |-> "postEnroll", finger |-> callback.finger]
          /\ UNCHANGED m_fingers
      BY <1>3, <2>2 DEF Adapter!enrollCallback
    <3> QED
      BY <1>1, <2>2, <3>1, <3>2, <3>3, MadeFresh
  <2> QED
    BY <1>3, <2>1, <2>2 DEF Adapter!enrollCallback
<1>4. CASE /\ callback.on = "Removed"
           /\ Adapter!removeCallback(callback.finger, callback.remaining)
  BY <1>2, <1>4 DEF Adapter!removeCallback, Adapter!UnchangedShared, Adapter!Free
<1>5. CASE /\ callback.on = "Enumerate"
           /\ Adapter!enumerateCallback(callback.finger, callback.remaining)
  <2>1. callback \in Enumerates
    BY <1>1, <1>5 DEF Enumerates
  <2> QED
    BY <1>1, <1>5, <2>1, EnumerateFresh
<1>6. CASE callback.on = "Authenticated" /\ Adapter!authenticated_cb(callback.finger)
  <2> DEFINE event == IF callback.finger # 0
                      THEN Adapter!Authenticated(callback.finger)
                      ELSE Adapter!Failed("FINGER_NOT_RECOGNIZED")
  <2>1. callback.finger \in Fingers \union {0}
    BY <1>1, <1>6 DEF Hal!Callbacks, Hal!FingerIds, Hal!NoFinger
  <2>2. event \in Adapter!Events /\ Adapter!Emit(event)
        /\ event.signal \notin {"succeeded", "enumerated"}
    BY <1>6, <2>1 DEF Adapter!Authenticated, Adapter!Failed, Adapter!Events,
                      Adapter!authenticated_cb
  <2>3. UNCHANGED <<binder, m_fingers>>
    BY <1>6 DEF Adapter!authenticated_cb, Adapter!UnchangedShared
  <2> QED
    BY <1>2, <2>2, <2>3
<1>7. CASE callback.on = "Acquired" /\ Adapter!acquired_cb(callback.info)
  <2>1. /\ Adapter!Acquired(callback.info) \in Adapter!Events
        /\ Adapter!Acquired(callback.info).signal \notin {"succeeded", "enumerated"}
    BY <1>1, <1>7, InfosAssumption DEF Hal!Callbacks, Adapter!Acquired, Adapter!Events
  <2>2. UNCHANGED <<binder, m_fingers>> /\ Adapter!Emit(Adapter!Acquired(callback.info))
    BY <1>7 DEF Adapter!acquired_cb, Adapter!UnchangedShared
  <2> QED
    BY <1>2, <2>1, <2>2
<1>8. CASE callback.on = "Error" /\ Adapter!error_cb(callback.error)
  <2>1. callback.error \in {"ERROR", "ERROR_NO_ERROR"}
    BY <1>1, <1>8, ErrorsAssumption DEF Hal!Callbacks
  <2>2. /\ Adapter!Failed("ERROR") \in Adapter!Events
        /\ Adapter!Failed("ERROR").signal \notin {"succeeded", "enumerated"}
    BY DEF Adapter!Failed, Adapter!Events
  <2>3. /\ UNCHANGED <<binder, m_fingers>>
        /\ UNCHANGED events \/ Adapter!Emit(Adapter!Failed("ERROR"))
    BY <1>8, <2>1 DEF Adapter!error_cb, Adapter!UnchangedShared
  <2> QED
    BY <1>2, <2>2, <2>3
<1> QED
  BY <1>3, <1>4, <1>5, <1>6, <1>7, <1>8 DEF Deliver

(* From the binder thread to the main thread.                              *)
LEMMA PostEnrollFresh ==
  ASSUME SystemTypeOK, FreshInv, Elsewhere, NEW ret, PostEnroll(ret)
  PROVE  FreshInv'
<1>1. /\ callbacks \in Seq(Hal!Callbacks) /\ events \in Seq(Adapter!Events)
      /\ binder \in Adapter!BinderStates /\ binder.at = "postEnroll"
      /\ binder' = Adapter!Free
      /\ UNCHANGED <<m_fingerMap, m_fingers, sensor, callbacks>>
  BY DEF SystemTypeOK, Hal!TypeOK, Adapter!TypeOK, PostEnroll, Adapter!postEnroll,
         Adapter!UnchangedShared, Elsewhere, volatile, hal
<1>2. CASE ret # "SYS_OK"
  <2>1. /\ Adapter!Emit(Adapter!Failed("ERROR"))
        /\ Adapter!Failed("ERROR") \in Adapter!Events
        /\ Adapter!Failed("ERROR").signal \notin {"succeeded", "enumerated"}
    BY <1>2 DEF PostEnroll, Adapter!postEnroll, Adapter!Failed, Adapter!Events
  <2>2. Thins(events, events', Adapter!Events, SucceededEvents \union EnumeratedEvents)
    BY <2>1, OtherEventFresh
  <2>3. binder'.at # "postEnroll" /\ Keys(m_fingerMap') = Keys(m_fingerMap)
    BY <1>1 DEF Adapter!Free
  <2> QED
    BY <1>1, <2>2, <2>3, FreshKept DEF Thins
<1>3. CASE ret = "SYS_OK"
  <2>1. PICK finger \in Fingers : binder.finger = finger
    BY <1>1 DEF Adapter!BinderStates, Adapter!Free
  <2> DEFINE event == Adapter!Succeeded(finger)
  <2>2. /\ event \in Adapter!Events /\ events' = Append(events, event)
        /\ event \in SucceededAs(finger)
        /\ event \notin EnumeratedEvents
        /\ \A k : k # finger => event \notin SucceededAs(k)
    BY <1>3, <2>1 DEF PostEnroll, Adapter!postEnroll, Adapter!Succeeded, Adapter!Emit,
                      Adapter!Events, SucceededAs, SucceededEvents, EnumeratedEvents
  <2>3. Contains(events', EnumeratedEvents) => Contains(events, EnumeratedEvents)
    BY <1>1, <2>2, FrontOrLast
  <2>4. ASSUME NEW k \in Fingers, Unheard(k) PROVE Unheard(k)'
    BY <1>1, <2>3, <2>4, UnheardStays, FreshSets DEF Enumerating
  <2>5. ASSUME NEW k \in Fingers, k # finger PROVE Fresh(k)'
    <3>1. Thins(events, events', Adapter!Events, SucceededAs(k))
      BY <2>2, <2>5 DEF Thins
    <3>2. ~InPostEnroll(k)' /\ Thins(callbacks, callbacks', Hal!Callbacks, MadeAs(k))
      BY <1>1 DEF InPostEnroll, Adapter!Free, Thins
    <3> QED
      BY <2>4, <2>5, <3>1, <3>2, FreshStays DEF FreshInv
  <2>6. Fresh(finger)'
    <3>1. InPostEnroll(finger)
      BY <1>1, <2>1 DEF InPostEnroll
    <3>2. OnItsWayOnce(finger) /\ Unheard(finger)
      BY <3>1 DEF FreshInv, Fresh, OnItsWay
    <3>3. ~Contains(callbacks, MadeAs(finger)) /\ ~Contains(events, SucceededAs(finger))
      BY <3>1, <3>2 DEF OnItsWayOnce
    <3>4. AtMostOne(events', SucceededAs(finger))
      <4>1. AtMostOne(Append(events, event), SucceededAs(finger))
        BY <1>1, <2>2, <3>3, AddsOne, {} \in SUBSET SucceededAs(finger), event \notin {}
      <4> QED
        BY <2>2, <4>1
    <3>5. ~InPostEnroll(finger)' /\ ~Contains(callbacks', MadeAs(finger))
      BY <1>1, <3>3 DEF InPostEnroll, Adapter!Free
    <3>6. OnItsWayOnce(finger)'
      BY <3>4, <3>5, FreshSets DEF OnItsWayOnce, AtMostOne, Contains
    <3> QED
      BY <2>4, <3>2, <3>6 DEF Fresh
  <2> QED
    BY <2>5, <2>6 DEF FreshInv
<1> QED
  BY <1>2, <1>3

LEMMA BinderFresh ==
  ASSUME SystemTypeOK, FreshInv, Binder
  PROVE  FreshInv'
<1> USE DEF Adapter!NoFinger, NoFinger
<1>1. Elsewhere /\ UNCHANGED m_fingerMap /\ Adapter!TypeOK
  BY DEF Binder, Elsewhere, volatile, SystemTypeOK
<1>2. ASSUME UNCHANGED hal, UNCHANGED m_fingers, binder'.at # "postEnroll",
             \/ UNCHANGED events
             \/ \E event \in Adapter!Events : /\ Adapter!Emit(event)
                                              /\ event.signal \notin {"succeeded", "enumerated"}
      PROVE  FreshInv'
  <2>1. Thins(events, events', Adapter!Events, SucceededEvents \union EnumeratedEvents)
    BY <1>2, OtherEventFresh DEF Thins
  <2>2. Keys(m_fingerMap') = Keys(m_fingerMap)
    BY <1>1
  <2> QED
    BY <1>1, <1>2, <2>1, <2>2, FreshKept DEF Thins, hal
<1>3. CASE Adapter!enrollProgress /\ UNCHANGED hal
  <2> DEFINE event == Adapter!EnrollProgress(Adapter!Percent(binder.remaining))
  <2>1. /\ binder.remaining \in 1..Samples /\ Adapter!Emit(event)
        /\ binder'.at # "postEnroll" /\ UNCHANGED m_fingers
    BY <1>1, <1>3 DEF Adapter!enrollProgress, Adapter!TypeOK, Adapter!BinderStates,
                      Adapter!Free, Adapter!UnchangedShared
  <2>2. event \in Adapter!Events /\ event.signal \notin {"succeeded", "enumerated"}
    BY <1>1, <2>1, PercentType DEF Adapter!EnrollProgress, Adapter!Events
  <2> QED
    BY <1>2, <1>3, <2>1, <2>2
<1>4. CASE Adapter!emitRemoved /\ UNCHANGED hal
  <2> DEFINE event == Adapter!Removed(IF m_removingFinger = 0 THEN 0 ELSE binder.finger)
  <2>1. /\ binder.finger \in Fingers \union {0} /\ Adapter!Emit(event)
        /\ binder'.at # "postEnroll" /\ UNCHANGED m_fingers
    BY <1>1, <1>4 DEF Adapter!emitRemoved, Adapter!TypeOK, Adapter!BinderStates,
                      Adapter!Free, Adapter!UnchangedShared
  <2>2. event \in Adapter!Events /\ event.signal \notin {"succeeded", "enumerated"}
    BY <2>1 DEF Adapter!Removed, Adapter!Events
  <2> QED
    BY <1>2, <1>4, <2>1, <2>2
<1>5. CASE Adapter!forgetRemoving /\ UNCHANGED hal
  BY <1>2, <1>5 DEF Adapter!forgetRemoving, Adapter!Free
<1> QED
  BY <1>1, <1>3, <1>4, <1>5, DeliverFresh, PostEnrollFresh DEF Binder

(* The sensor makes a template whose id is known nowhere.                  *)
LEMMA UnknownId ==
  ASSUME SystemTypeOK, NEW finger \in Fingers, finger \notin KnownIds
  PROVE  /\ ~OnItsWay(finger)
         /\ finger \notin Keys(m_fingerMap)
         /\ ~Contains(callbacks, EnumeratesOf(finger))
         /\ Contains(callbacks, Enumerates) \/ Contains(events, EnumeratedEvents)
              => finger \notin m_fingers
<1>1. finger \notin Reported /\ finger \notin Announcing /\ finger \notin Keys(m_fingerMap)
      /\ (Enumeration => finger \notin m_fingers)
  BY DEF KnownIds
<1>2. ~Contains(callbacks, MadeAs(finger)) /\ ~Contains(callbacks, EnumeratesOf(finger))
  BY <1>1 DEF Reported, Contains, MadeAs, EnrolledCallbacks, EnumeratesOf, Enumerates
<1>3. ~Contains(events, SucceededAs(finger))
  BY <1>1 DEF Announcing, Contains, SucceededAs, SucceededEvents
<1>4. ~InPostEnroll(finger)
  <2>1. binder.at = "postEnroll" =>
          binder = [at |-> "postEnroll", finger |-> binder.finger]
    BY DEF SystemTypeOK, Adapter!TypeOK, Adapter!BinderStates, Adapter!Free
  <2> QED
    BY <1>1, <2>1 DEF InPostEnroll, Announcing
<1>5. Contains(callbacks, Enumerates) \/ Contains(events, EnumeratedEvents) => Enumeration
  BY DEF Contains, Enumerates, EnumeratedEvents, Enumeration
<1> QED
  BY <1>1, <1>2, <1>3, <1>4, <1>5 DEF OnItsWay

LEMMA SampleFresh ==
  ASSUME SystemTypeOK, FreshInv, Elsewhere, UNCHANGED adapter,
         NEW finger \in Fingers, Sample(finger)
  PROVE  FreshInv'
<1> USE DEF Hal!NoFinger
<1>1. /\ sensor.op = "enroll" /\ sensor.samples \in 1..Samples
      /\ callbacks \in Seq(Hal!Callbacks)
      /\ UNCHANGED <<m_fingerMap, m_fingers, binder, events>>
      /\ finger \notin KnownIds
  BY DEF Sample, Hal!Sample, SystemTypeOK, Hal!TypeOK, Hal!Operations, Hal!Idle,
         Hal!Authenticating, Elsewhere, volatile, adapter
<1>2. CASE sensor.samples > 1
  <2> DEFINE callback == Hal!OnEnrollResult(0, sensor.samples - 1)
  <2>1. callback \in Hal!Callbacks \ (EnrolledCallbacks \union Enumerates)
    BY <1>1, <1>2, SamplesAssumption
    DEF Hal!OnEnrollResult, Hal!Callbacks, Hal!FingerIds, EnrolledCallbacks, Enumerates
  <2>2. callbacks' = Append(callbacks, callback) /\ sensor'.op = "enroll"
    BY <1>2 DEF Sample, Hal!Sample, Hal!Enrolling, Hal!Send
  <2>3. Thins(callbacks, callbacks', Hal!Callbacks, EnrolledCallbacks \union Enumerates)
    BY <2>1, <2>2 DEF Thins
  <2>4. Keys(m_fingerMap') = Keys(m_fingerMap)
    BY <1>1
  <2> QED
    BY <1>1, <2>2, <2>3, <2>4, FreshKept DEF Thins
<1>3. CASE sensor.samples = 1
  <2> DEFINE callback == Hal!OnEnrollResult(finger, 0)
  <2>1. /\ callback \in Hal!Callbacks /\ callback \notin Enumerates
        /\ \A k : k # finger => callback \notin MadeAs(k)
    BY SamplesAssumption
    DEF Hal!OnEnrollResult, Hal!Callbacks, Hal!FingerIds, MadeAs, Enumerates
  <2>2. callbacks' = Append(callbacks, callback) /\ sensor'.op = "none"
    BY <1>3 DEF Sample, Hal!Sample, Hal!Idle, Hal!Send
  <2>3. /\ Contains(callbacks', Enumerates) => Contains(callbacks, Enumerates)
        /\ \A k : Contains(callbacks', EnumeratesOf(k)) => Contains(callbacks, EnumeratesOf(k))
    BY <1>1, <2>1, <2>2, FrontOrLast DEF EnumeratesOf
  <2>4. ASSUME NEW k \in Fingers, k # finger PROVE Fresh(k)'
    <3>1. Unheard(k) => Unheard(k)'
      BY <1>1, <2>2, <2>3, UnheardStays, FreshSets DEF Enumerating
    <3> QED
      BY <1>1, <2>1, <2>2, <2>4, <3>1, FreshStays DEF FreshInv, Thins, InPostEnroll
  <2>5. Fresh(finger)'
    <3>1. /\ ~OnItsWay(finger)
          /\ finger \notin Keys(m_fingerMap)
          /\ ~Contains(callbacks, EnumeratesOf(finger))
          /\ Contains(callbacks, Enumerates) \/ Contains(events, EnumeratedEvents)
               => finger \notin m_fingers
      BY <1>1, UnknownId
    <3>2. AtMostOne(callbacks', MadeAs(finger))
      <4>1. ~Contains(callbacks, MadeAs(finger))
        BY <3>1 DEF OnItsWay
      <4>2. AtMostOne(Append(callbacks, callback), MadeAs(finger))
        BY <1>1, <2>1, <4>1, AddsOne, {} \in SUBSET MadeAs(finger), callback \notin {}
      <4> QED
        BY <2>2, <4>2
    <3>3. ~InPostEnroll(finger)' /\ ~Contains(events', SucceededAs(finger))
      BY <1>1, <3>1 DEF OnItsWay, InPostEnroll
    <3>4. OnItsWayOnce(finger)'
      BY <3>2, <3>3, FreshSets DEF OnItsWayOnce, AtMostOne, Contains
    <3>5. Unheard(finger)'
      <4>1. Keys(m_fingerMap)' = Keys(m_fingerMap)
        BY <1>1 DEF Keys
      <4> QED
        BY <1>1, <2>2, <2>3, <3>1, <4>1, FreshSets DEF Unheard, Enumerating
    <3> QED
      BY <3>4, <3>5 DEF Fresh
  <2> QED
    BY <2>4, <2>5 DEF FreshInv
<1> QED
  BY <1>1, <1>2, <1>3

(* While the sensor enumerates, no template is on its way.                 *)
LEMMA EnumerateNextFresh ==
  ASSUME SystemTypeOK, FreshInv, UNCHANGED adapter,
         NEW finger \in FingerIds, Hal!EnumerateNext(finger)
  PROVE  FreshInv'
<1> DEFINE callback == Hal!OnEnumerate(finger, Hal!Remaining(finger))
<1>1. /\ sensor.op = "enumerate" /\ callbacks \in Seq(Hal!Callbacks)
      /\ callbacks' = Append(callbacks, callback)
      /\ callback \in Hal!Callbacks /\ callback \notin EnrolledCallbacks
      /\ UNCHANGED <<binder, events>>
  BY DEF Hal!EnumerateNext, Hal!OnEnumerate, Hal!Remaining, Hal!Send, Hal!Callbacks,
         Hal!FingerIds, Hal!NoFinger, FingerIds, NoFinger, EnrolledCallbacks,
         SystemTypeOK, Hal!TypeOK, adapter
<1>2. ASSUME NEW k \in Fingers PROVE Fresh(k)'
  <2>1. ~OnItsWay(k)
    BY <1>1 DEF FreshInv, Fresh, Unheard, Enumerating
  <2>2. Contains(callbacks', MadeAs(k)) => Contains(callbacks, MadeAs(k))
    BY <1>1, FrontOrLast DEF MadeAs
  <2>3. ~OnItsWay(k)'
    BY <1>1, <2>1, <2>2, FreshSets DEF OnItsWay, InPostEnroll
  <2> QED
    BY <2>3, FreshNone
<1> QED
  BY <1>2 DEF FreshInv

LEMMA SensorFresh ==
  ASSUME SystemTypeOK, FreshInv, Sensor \/ Acquire
  PROVE  FreshInv'
<1> USE DEF Hal!Callbacks, Hal!FingerIds, Hal!NoFinger, NoFinger, FingerIds
<1>1. Elsewhere /\ UNCHANGED adapter /\ UNCHANGED <<m_fingerMap, m_fingers, binder, events>>
  BY DEF Sensor, Acquire, Elsewhere, volatile, adapter
<1>2. ASSUME NEW callback \in Hal!Callbacks, Hal!Send(callback),
             callback.on \notin {"EnrollResult", "Enumerate"},
             sensor'.op = "enumerate" => sensor.op = "enumerate"
      PROVE  FreshInv'
  <2>1. Thins(callbacks, callbacks', Hal!Callbacks, EnrolledCallbacks \union Enumerates)
    BY <1>2 DEF Hal!Send, Thins, EnrolledCallbacks, Enumerates
  <2>2. Keys(m_fingerMap') = Keys(m_fingerMap)
    BY <1>1
  <2> QED
    BY <1>1, <1>2, <2>1, <2>2, FreshKept DEF Thins
<1>3. ASSUME NEW finger \in Fingers, Sample(finger) PROVE FreshInv'
  BY <1>1, <1>3, SampleFresh
<1>4. CASE Fail
  <2>1. PICK error \in ErrorCodes : Hal!Send(Hal!OnError(error))
    BY <1>4 DEF Fail, Hal!Fail
  <2>2. /\ Hal!OnError(error) \in Hal!Callbacks
        /\ Hal!OnError(error).on = "Error" /\ sensor'.op = "none"
    BY <1>4 DEF Hal!OnError, Fail, Hal!Fail, Hal!Idle
  <2> QED
    BY <1>2, <2>1, <2>2
<1>5. CASE Hal!Reject
  <2>1. /\ Hal!OnAuthenticated(0) \in Hal!Callbacks /\ Hal!Send(Hal!OnAuthenticated(0))
        /\ Hal!OnAuthenticated(0).on = "Authenticated" /\ UNCHANGED sensor
    BY <1>5 DEF Hal!OnAuthenticated, Hal!Reject
  <2> QED
    BY <1>2, <2>1
<1>6. ASSUME NEW finger \in FingerIds, Hal!Match(finger) PROVE FreshInv'
  <2>1. /\ Hal!OnAuthenticated(finger) \in Hal!Callbacks
        /\ Hal!Send(Hal!OnAuthenticated(finger))
        /\ Hal!OnAuthenticated(finger).on = "Authenticated" /\ sensor'.op = "none"
    BY <1>6 DEF Hal!OnAuthenticated, Hal!Match, Hal!Idle
  <2> QED
    BY <1>2, <2>1
<1>7. ASSUME NEW finger \in FingerIds, Hal!RemoveNext(finger) PROVE FreshInv'
  <2>1. /\ Hal!OnRemoved(finger, Hal!Remaining(finger)) \in Hal!Callbacks
        /\ Hal!Send(Hal!OnRemoved(finger, Hal!Remaining(finger)))
        /\ Hal!OnRemoved(finger, Hal!Remaining(finger)).on = "Removed"
        /\ sensor'.op # "enumerate"
    BY <1>7 DEF Hal!OnRemoved, Hal!RemoveNext, Hal!Remaining, Hal!Idle, Hal!Removing
  <2> QED
    BY <1>2, <2>1
<1>8. ASSUME NEW finger \in FingerIds, Hal!EnumerateNext(finger) PROVE FreshInv'
  BY <1>1, <1>8, EnumerateNextFresh
<1>9. CASE Acquire
  <2>1. PICK info \in SensorInfos : Hal!Acquire(info)
    BY <1>9 DEF Acquire
  <2>2. /\ Hal!OnAcquired(info) \in Hal!Callbacks
        /\ Hal!Send(Hal!OnAcquired(info)) /\ UNCHANGED sensor
        /\ Hal!OnAcquired(info).on = "Acquired"
    BY <2>1, AcquiredCallback DEF Hal!Acquire, Hal!OnAcquired
  <2> QED
    BY <1>2, <2>2
<1> QED
  BY <1>3, <1>4, <1>5, <1>6, <1>7, <1>8, <1>9 DEF Sensor

(* No template is known twice: what is on its way to the list is nowhere   *)
(* on it yet, however calls, callbacks, time limits and crashes come.      *)
LEMMA FreshAlways == SystemSpec => []FreshInv
<1>1. SystemInit => FreshInv
  <2> SUFFICES ASSUME SystemInit PROVE FreshInv
    OBVIOUS
  <2>1. /\ callbacks = <<>> /\ events = <<>> /\ binder = Adapter!Free
    BY DEF SystemInit, Adapter!Init
  <2>2. \A k : ~OnItsWay(k)
    BY <2>1 DEF OnItsWay, Contains, InPostEnroll, Adapter!Free
  <2> QED
    BY <2>1, <2>2 DEF FreshInv, Fresh, OnItsWayOnce, OnItsWay, AtMostOne, Contains
<1>2. SystemTypeOK /\ FreshInv /\ [SystemNext]_systemVars => FreshInv'
  <2> SUFFICES ASSUME SystemTypeOK, FreshInv, [SystemNext]_systemVars PROVE FreshInv'
    OBVIOUS
  <2>1. CASE Crash
    <3>1. ASSUME NEW k \in Fingers PROVE ~OnItsWay(k)'
      BY <2>1 DEF Crash, OnItsWay, Contains, InPostEnroll, Adapter!Free
    <3> QED
      BY <3>1, FreshNone DEF FreshInv
  <2>2. CASE UNCHANGED systemVars
    <3>1. UNCHANGED <<m_fingerMap, m_fingers, binder, sensor, callbacks, events>>
      BY <2>2 DEF systemVars, vars, volatile, adapter, hal
    <3>2. Keys(m_fingerMap') = Keys(m_fingerMap)
      BY <3>1
    <3> QED
      BY <3>1, <3>2, FreshKept DEF Thins
  <2> QED
    BY <2>1, <2>2, CallFresh, DispatchFresh, BinderFresh, SensorFresh DEF SystemNext
<1> QED
  BY <1>1, <1>2, SystemTypeCorrect, PTL DEF SystemSpec

(* A client that follows Added, Removed and ListChanged knows the list:    *)
(* no name comes or goes untold, but for those of the start.               *)
THEOREM NamesAreAlwaysTold == SystemSpec => NamesAreTold
<1> DEFINE Follow ==
      \/ Crash
      \/ /\ m_fingerMap' # m_fingerMap => Emit("ListChanged") \in signals'
         /\ \/ Dispatch /\ Head(events).signal = "enumerated"
            \/ \A k \in FingerIds : Told(k)
<1>1. SystemTypeOK /\ FreshInv /\ [SystemNext]_systemVars => [Follow]_systemVars
  <2> SUFFICES ASSUME SystemTypeOK, FreshInv, SystemNext PROVE Follow
    OBVIOUS
  <2>0. TypeOK /\ (Tells => Follow)
    BY DEF SystemTypeOK, Tells, Follow
  <2>1. ASSUME UNCHANGED m_fingerMap PROVE Follow
    BY <2>0, <2>1, KeptListTells
  <2>2. CASE Call \/ Timeout \/ EnrollReturns
    <3>1. UNCHANGED m_fingerMap
      BY <2>2, CallIsMethodCall, ListKept
      DEF Timeout, slot_cancelIdentify, EnrollReturns, Elsewhere, volatile
    <3> QED
      BY <2>1, <3>1
  <2>3. CASE Binder \/ Sensor \/ Acquire
    BY <2>1, <2>3 DEF Binder, Sensor, Acquire, Elsewhere, volatile
  <2>4. CASE Dispatch
    <3> DEFINE event == Head(events)
    <3>1. event \in Adapter!Events
      BY <2>4 DEF SystemTypeOK, Adapter!TypeOK, Dispatch, Adapter!TakeEvent
    <3>2. CASE \/ OnEnrollProgress(event) \/ OnFailed(event) \/ OnAuthenticated(event)
               \/ OnAcquired(event)
      BY <2>1, <3>2 DEF OnEnrollProgress, OnFailed, OnAuthenticated, OnAcquired,
                        slot_enrollProgress, slot_failed, slot_authenticated, slot_acquired
    <3>3. CASE OnSucceeded(event)
      <4>1. event.finger \in Fingers /\ event.finger \notin Keys(m_fingerMap)
        BY <2>4, <3>3, SucceededIsFresh
      <4>2. slot_succeeded(event.finger)
        BY <3>3 DEF OnSucceeded
      <4> QED
        BY <2>0, <4>1, <4>2, SucceededTells DEF Tells
    <3>4. CASE OnRemoved(event)
      <4>1. event.finger \in FingerIds /\ slot_removed(event.finger)
        BY <3>1, <3>4 DEF OnRemoved, Adapter!Events, Adapter!NoFinger, NoFinger, FingerIds
      <4> QED
        BY <2>0, <4>1, RemovedTells
    <3>5. CASE OnEnumerated(event)
      <4>1. event.signal = "enumerated" /\ Emit("ListChanged") \in signals'
        BY <3>5 DEF OnEnumerated, slot_enumerated, GoIdle
      <4> QED
        BY <2>4, <4>1
    <3> QED
      BY <2>4, <3>2, <3>3, <3>4, <3>5 DEF Dispatch
  <2>5. CASE Crash
    BY <2>5
  <2> QED
    BY <2>2, <2>3, <2>4, <2>5 DEF SystemNext
<1> QED
  BY <1>1, SystemTypeCorrect, FreshAlways, PTL DEF SystemSpec, NamesAreTold
=============================================================================
