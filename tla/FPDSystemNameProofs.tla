------------------------- MODULE FPDSystemNameProofs -------------------------
(***************************************************************************)
(* No template is listed under a name that it was not enrolled for.  The   *)
(* name and the template meet only in slot_succeeded: the name waits in    *)
(* m_addingFinger, the template comes through callbacks, binder thread and *)
(* queue.  As long as each operation begins when the last is over, at most *)
(* one enrolled template is on that way, and m_addingFinger is its name.   *)
(***************************************************************************)
EXTENDS FPDSystemWaitProofs

-----------------------------------------------------------------------------
(* Queues with at most one member of a set.                                *)

AtMostOne(queue, set) ==
  \A i, j \in 1..Len(queue) : queue[i] \in set /\ queue[j] \in set => i = j

(* The queue has lost its head, or got an entry that is not of the set.    *)
Thins(queue, next, T, set) ==
  \/ next = queue
  \/ queue # <<>> /\ next = Tail(queue)
  \/ \E last \in T \ set : next = Append(queue, last)

LEMMA TailEntries ==
  ASSUME NEW T, NEW queue \in Seq(T), queue # <<>>
  PROVE  \A i \in 1..Len(Tail(queue)) :
           i + 1 \in 1..Len(queue) /\ Tail(queue)[i] = queue[i + 1]
OBVIOUS

LEMMA AppendEntries ==
  ASSUME NEW T, NEW queue \in Seq(T), NEW last \in T
  PROVE  /\ Len(Append(queue, last)) = Len(queue) + 1
         /\ Append(queue, last)[Len(queue) + 1] = last
         /\ \A i \in 1..Len(queue) : Append(queue, last)[i] = queue[i]
         /\ Len(queue) \in Nat
OBVIOUS

LEMMA ThinsKeeps ==
  ASSUME NEW T, NEW queue \in Seq(T), NEW next, NEW set, NEW part \in SUBSET set,
         Thins(queue, next, T, set)
  PROVE  /\ Contains(next, set) => Contains(queue, set)
         /\ Contains(next, part) => Contains(queue, part)
         /\ AtMostOne(queue, set) => AtMostOne(next, set)
<1>1. CASE next = queue
  BY <1>1
<1>2. CASE queue # <<>> /\ next = Tail(queue)
  <2>1. \A i \in 1..Len(next) : i + 1 \in 1..Len(queue) /\ next[i] = queue[i + 1]
    BY <1>2, TailEntries
  <2>2. ASSUME NEW any, Contains(next, any) PROVE Contains(queue, any)
    <3>1. PICK i \in 1..Len(next) : next[i] \in any
      BY <2>2 DEF Contains
    <3> QED
      BY <2>1, <3>1 DEF Contains
  <2>3. ASSUME AtMostOne(queue, set) PROVE AtMostOne(next, set)
    <3> SUFFICES ASSUME NEW i \in 1..Len(next), NEW j \in 1..Len(next),
                        next[i] \in set, next[j] \in set
                 PROVE  i = j
      BY DEF AtMostOne
    <3>1. i + 1 = j + 1
      BY <2>1, <2>3 DEF AtMostOne
    <3> QED
      BY <3>1
  <2> QED
    BY <2>2, <2>3
<1>3. CASE \E last \in T \ set : next = Append(queue, last)
  <2>1. PICK last \in T \ set : next = Append(queue, last)
    BY <1>3
  <2>2. \A i \in 1..Len(next) : next[i] \in set => i \in 1..Len(queue) /\ next[i] = queue[i]
    BY <2>1, AppendEntries
  <2> QED
    BY <2>2 DEF Contains, AtMostOne
<1> QED
  BY <1>1, <1>2, <1>3 DEF Thins

LEMMA AddsOne ==
  ASSUME NEW T, NEW queue \in Seq(T), NEW last \in T, NEW set, NEW part \in SUBSET set,
         ~Contains(queue, set), last \notin part
  PROVE  /\ AtMostOne(Append(queue, last), set)
         /\ ~Contains(Append(queue, last), part)
<1> DEFINE next == Append(queue, last)
<1>1. \A i \in 1..Len(next) : next[i] \in set => i = Len(queue) + 1 /\ next[i] = last
  BY AppendEntries DEF Contains
<1> QED
  BY <1>1 DEF Contains, AtMostOne

LEMMA TakesOne ==
  ASSUME NEW T, NEW queue \in Seq(T), queue # <<>>, NEW set, Head(queue) \in set
  PROVE  /\ Contains(queue, set)
         /\ AtMostOne(queue, set) => ~Contains(Tail(queue), set)
<1>1. 1 \in 1..Len(queue) /\ queue[1] \in set
  OBVIOUS
<1>2. \A i \in 1..Len(Tail(queue)) : i + 1 \in 1..Len(queue) /\ i + 1 # 1
                                     /\ Tail(queue)[i] = queue[i + 1]
  BY TailEntries
<1> QED
  BY <1>1, <1>2 DEF Contains, AtMostOne

-----------------------------------------------------------------------------
(* The invariant.                                                          *)

(* A list, or a file, in which every template has the name that it was     *)
(* enrolled for, or the one that the daemon gives to an unknown template.  *)
RightNames(map, names) ==
  /\ Keys(map) \subseteq Fingers
  /\ \A finger \in Keys(map) :
       map[finger] # UnknownName[finger] /\ names[finger] # Absent
         => map[finger] = names[finger]

ListsAreRight ==
  /\ RightNames(m_fingerMap, enrolledAs)
  /\ RightNames(ReadDatabase, enrolledAs)

(* A process that is out of step is asked for nothing more.                *)
NobodyIsAsked == outOfStep => enrolledAs = NobodyAsked

EnrolledCallbacks ==
  {callback \in Hal!Callbacks : callback.on = "EnrollResult" /\ callback.remaining = 0}
SucceededEvents == {event \in Adapter!Events : event.signal = "succeeded"}

Fits(finger) == enrolledAs[finger] \in {Absent, m_addingFinger}
MisfitCallbacks == {callback \in EnrolledCallbacks : ~Fits(callback.finger)}
MisfitEvents == {event \in SucceededEvents : ~Fits(event.finger)}

(* What is on its way to slot_succeeded has its name in m_addingFinger.    *)
NamesFit ==
  /\ ~Contains(callbacks, MisfitCallbacks)
  /\ ~Contains(events, MisfitEvents)
  /\ binder.at = "postEnroll" => Fits(binder.finger)

OneOnItsWay ==
  /\ AtMostOne(callbacks, EnrolledCallbacks)
  /\ AtMostOne(events, SucceededEvents)
  /\ Contains(callbacks, EnrolledCallbacks) => /\ binder.at # "postEnroll"
                                               /\ ~Contains(events, SucceededEvents)
  /\ binder.at = "postEnroll" => ~Contains(events, SucceededEvents)

NoneOnItsWay ==
  /\ ~Contains(callbacks, EnrolledCallbacks)
  /\ ~Contains(events, SucceededEvents)
  /\ binder.at # "postEnroll"

EnrolsForName ==
  sensor.op = "enroll" => NoneOnItsWay /\ asked \in {Absent, m_addingFinger}

InStep == NamesFit /\ OneOnItsWay /\ EnrolsForName

NameInv == ListsAreRight /\ NobodyIsAsked /\ (outOfStep \/ InStep)

LEMMA NoneFits ==
  ASSUME NoneOnItsWay'
  PROVE  NamesFit' /\ OneOnItsWay'
BY DEF NoneOnItsWay, NamesFit, OneOnItsWay, MisfitCallbacks, MisfitEvents,
       Contains, AtMostOne

LEMMA QuietHasNone ==
  ASSUME Quiet
  PROVE  NoneOnItsWay
BY DEF Quiet, NoneOnItsWay, Contains, Adapter!Free

(* Steps that neither enrol nor pass on an enrolled template.              *)
LEMMA InStepKept ==
  ASSUME callbacks \in Seq(Hal!Callbacks), events \in Seq(Adapter!Events), InStep,
         UNCHANGED <<m_addingFinger, enrolledAs, asked>>,
         Thins(callbacks, callbacks', Hal!Callbacks, EnrolledCallbacks),
         Thins(events, events', Adapter!Events, SucceededEvents),
         binder' = binder \/ binder'.at # "postEnroll",
         sensor'.op = "enroll" => sensor.op = "enroll"
  PROVE  InStep'
<1>1. /\ EnrolledCallbacks' = EnrolledCallbacks
      /\ SucceededEvents' = SucceededEvents
      /\ MisfitCallbacks' = MisfitCallbacks /\ MisfitCallbacks \in SUBSET EnrolledCallbacks
      /\ MisfitEvents' = MisfitEvents /\ MisfitEvents \in SUBSET SucceededEvents
  BY DEF EnrolledCallbacks, SucceededEvents, MisfitCallbacks, MisfitEvents, Fits
<1>2. /\ Contains(callbacks', EnrolledCallbacks) => Contains(callbacks, EnrolledCallbacks)
      /\ Contains(callbacks', MisfitCallbacks) => Contains(callbacks, MisfitCallbacks)
      /\ AtMostOne(callbacks, EnrolledCallbacks) => AtMostOne(callbacks', EnrolledCallbacks)
  BY <1>1, ThinsKeeps
<1>3. /\ Contains(events', SucceededEvents) => Contains(events, SucceededEvents)
      /\ Contains(events', MisfitEvents) => Contains(events, MisfitEvents)
      /\ AtMostOne(events, SucceededEvents) => AtMostOne(events', SucceededEvents)
  BY <1>1, ThinsKeeps
<1>4. /\ binder'.at = "postEnroll" => binder' = binder
      /\ \A finger : Fits(finger)' <=> enrolledAs[finger] \in {Absent, m_addingFinger}
  BY DEF Fits
<1>5. NamesFit'
  BY <1>1, <1>2, <1>3, <1>4 DEF InStep, NamesFit, Fits
<1>6. OneOnItsWay'
  BY <1>1, <1>2, <1>3, <1>4 DEF InStep, OneOnItsWay
<1>7. EnrolsForName'
  BY <1>1, <1>2, <1>3, <1>4 DEF InStep, EnrolsForName, NoneOnItsWay
<1> QED
  BY <1>5, <1>6, <1>7 DEF InStep

LEMMA ListsKept ==
  ASSUME ListsAreRight, UNCHANGED <<m_fingerMap, database>>,
         enrolledAs' \in {enrolledAs, NobodyAsked}
  PROVE  ListsAreRight'
<1>1. UNCHANGED ReadDatabase
  BY DEF ReadDatabase
<1>2. \A map : RightNames(map, enrolledAs) => RightNames(map, enrolledAs')
  BY DEF RightNames, NobodyAsked
<1> QED
  BY <1>1, <1>2 DEF ListsAreRight

(* Steps that change neither the lists nor what was asked for.             *)
LEMMA NamesKept ==
  ASSUME SystemTypeOK, NameInv,
         UNCHANGED <<m_fingerMap, database, outOfStep, m_addingFinger, enrolledAs, asked>>,
         Thins(callbacks, callbacks', Hal!Callbacks, EnrolledCallbacks),
         Thins(events, events', Adapter!Events, SucceededEvents),
         binder' = binder \/ binder'.at # "postEnroll",
         sensor'.op = "enroll" => sensor.op = "enroll"
  PROVE  NameInv'
<1>1. callbacks \in Seq(Hal!Callbacks) /\ events \in Seq(Adapter!Events)
  BY DEF SystemTypeOK, Hal!TypeOK, Adapter!TypeOK
<1>2. outOfStep' \/ InStep'
  BY <1>1, InStepKept DEF NameInv
<1>3. ListsAreRight'
  BY ListsKept DEF NameInv
<1>4. NobodyIsAsked'
  BY DEF NameInv, NobodyIsAsked, NobodyAsked
<1> QED
  BY <1>2, <1>3, <1>4 DEF NameInv

(* A step out of step clears what was asked for.                           *)
LEMMA OutOfStepNames ==
  ASSUME NameInv, UNCHANGED <<m_fingerMap, database>>, GetsOutOfStep(TRUE)
  PROVE  NameInv'
<1>1. outOfStep' /\ enrolledAs' = NobodyAsked
  BY DEF GetsOutOfStep
<1>2. ListsAreRight'
  BY <1>1, ListsKept DEF NameInv
<1> QED
  BY <1>1, <1>2 DEF NameInv, NobodyIsAsked, NobodyAsked

-----------------------------------------------------------------------------
(* Steps of the main thread.                                               *)

(* The first step of an operation: what is left of an earlier one is lost  *)
(* track of, and when nothing is left, its name is the one that waits.     *)
LEMMA StartedNames ==
  ASSUME SystemTypeOK, NameInv, NEW name, Operation(name),
         UNCHANGED <<callbacks, binder, events, m_fingerMap, database>>,
         \/ sensor' = sensor
         \/ sensor'.op # "enroll"
         \/ name \in {Absent, m_addingFinger'}
  PROVE  NameInv'
<1>1. CASE ~Quiet
  <2>1. GetsOutOfStep(TRUE)
    BY <1>1 DEF Operation, GetsOutOfStep
  <2> QED
    BY <2>1, OutOfStepNames
<1>2. CASE Quiet
  <2>1. UNCHANGED <<outOfStep, enrolledAs>> /\ asked' = name
    BY <1>2 DEF Operation, GetsOutOfStep, SystemTypeOK
  <2>2. NoneOnItsWay'
    BY <1>2, QuietHasNone
    DEF NoneOnItsWay, EnrolledCallbacks, SucceededEvents, Contains
  <2>3. NamesFit' /\ OneOnItsWay'
    BY <2>2, NoneFits
  <2>4. EnrolsForName'
    BY <1>2, <2>1, <2>2 DEF EnrolsForName, Quiet, Hal!Idle
  <2>5. ListsAreRight'
    BY <2>1, ListsKept DEF NameInv
  <2> QED
    BY <2>1, <2>3, <2>4, <2>5 DEF NameInv, InStep, NobodyIsAsked, NobodyAsked
<1> QED
  BY <1>1, <1>2

(* Abort, Verified and the time limit of Identify.                         *)
LEMMA CancelledNames ==
  ASSUME SystemTypeOK, Hal!cancel
  PROVE  /\ Thins(callbacks, callbacks', Hal!Callbacks, EnrolledCallbacks)
         /\ sensor'.op = "enroll" => sensor.op = "enroll"
<1>1. Hal!OnError("ERROR") \in Hal!Callbacks \ EnrolledCallbacks
  BY DEF Hal!OnError, Hal!Callbacks, EnrolledCallbacks
<1> QED
  BY <1>1 DEF Hal!cancel, Hal!Send, Hal!Idle, Thins

LEMMA CallNames ==
  ASSUME SystemTypeOK, NameInv, Call
  PROVE  NameInv'
<1>1. ASSUME NEW ret, Refused(ret), UNCHANGED <<volatile, database>>
      PROVE  NameInv'
  BY <1>1, NamesKept DEF Refused, volatile, adapter, hal, history, Thins
<1>2. ASSUME NEW caller, NEW finger, NEW ret, CallEnroll(caller, finger, ret)
      PROVE  NameInv'
  <2>1. CASE EnrollReply(caller, finger) = "FPREPLY_STARTED"
    <3>1. /\ UNCHANGED <<m_fingerMap, database, binder, events, callbacks>>
          /\ m_addingFinger' = finger /\ Operation(finger)
      BY <1>2, <2>1 DEF CallEnroll, Enroll, Adapter!enroll, Hal!enroll, Hal!Request
    <3> QED
      BY <3>1, StartedNames
  <2>2. CASE EnrollReply(caller, finger) # "FPREPLY_STARTED"
    BY <1>1, <1>2, <2>2 DEF CallEnroll, Enroll, Refuse
  <2> QED
    BY <2>1, <2>2
<1>3. ASSUME NEW caller, NEW ret, CallIdentify(caller, ret)
      PROVE  NameInv'
  <2>1. CASE IdentifyReply(caller) = "FPREPLY_STARTED"
    <3>1. /\ UNCHANGED <<m_fingerMap, database, binder, events, callbacks>>
          /\ Operation(asked)
          /\ sensor' = sensor \/ sensor'.op # "enroll"
      BY <1>3, <2>1 DEF CallIdentify, Identify, Hal!authenticate, Hal!Request,
                        Hal!Authenticating, adapter
    <3> QED
      BY <3>1, StartedNames
  <2>2. CASE IdentifyReply(caller) # "FPREPLY_STARTED"
    BY <1>1, <1>3, <2>2 DEF CallIdentify, Identify, Refuse
  <2> QED
    BY <2>1, <2>2
<1>4. ASSUME NEW caller, NEW ret, CallVerify(caller, ret)
      PROVE  NameInv'
  <2>1. CASE VerifyReply(caller) = "FPREPLY_STARTED"
    <3>1. /\ UNCHANGED <<m_fingerMap, database, binder, events, callbacks>>
          /\ Operation(Absent)
      BY <1>4, <2>1 DEF CallVerify, Verify, Adapter!enroll, Hal!enroll, Hal!Request
    <3> QED
      BY <3>1, StartedNames
  <2>2. CASE VerifyReply(caller) # "FPREPLY_STARTED"
    BY <1>1, <1>4, <2>2 DEF CallVerify, Verify, Refuse
  <2> QED
    BY <2>1, <2>2
<1>5. ASSUME NEW caller, NEW ret, CallClear(caller, ret)
      PROVE  NameInv'
  <2>1. CASE ClearAccepted(caller)
    <3>1. /\ UNCHANGED <<m_fingerMap, database, binder, events, callbacks>>
          /\ Operation(asked)
          /\ sensor' = sensor \/ sensor'.op # "enroll"
      BY <1>5, <2>1 DEF CallClear, Clear, Adapter!clear, Adapter!remove,
                        Hal!remove, Hal!Request, Hal!Removing
    <3> QED
      BY <3>1, StartedNames
  <2>2. CASE ~ClearAccepted(caller)
    BY <1>1, <1>5, <2>2 DEF CallClear, Clear, Refuse
  <2> QED
    BY <2>1, <2>2
<1>6. ASSUME NEW caller, NEW finger, NEW ret, CallRemove(caller, finger, ret)
      PROVE  NameInv'
  <2>1. CASE RemoveReply(caller, finger) = "FPREPLY_STARTED"
    <3>1. /\ UNCHANGED <<m_fingerMap, database, binder, events, callbacks>>
          /\ Operation(asked)
          /\ sensor' = sensor \/ sensor'.op # "enroll"
      BY <1>6, <2>1 DEF CallRemove, Remove, Adapter!remove,
                        Hal!remove, Hal!Request, Hal!Removing
    <3> QED
      BY <3>1, StartedNames
  <2>2. CASE RemoveReply(caller, finger) # "FPREPLY_STARTED"
    BY <1>1, <1>6, <2>2 DEF CallRemove, Remove, Refuse
  <2> QED
    BY <2>1, <2>2
<1>7. ASSUME NEW caller, CallAbort(caller)
      PROVE  NameInv'
  <2>1. /\ UNCHANGED <<m_fingerMap, database, m_addingFinger>>
        /\ UNCHANGED <<outOfStep, enrolledAs, asked, events, binder>>
        /\ Hal!cancel \/ UNCHANGED hal
    BY <1>7 DEF CallAbort, Abort, Refuse, volatile, adapter, history
  <2>2. /\ Thins(callbacks, callbacks', Hal!Callbacks, EnrolledCallbacks)
        /\ sensor'.op = "enroll" => sensor.op = "enroll"
    BY <2>1, CancelledNames DEF hal, Thins
  <2> QED
    BY <2>1, <2>2, NamesKept DEF Thins
<1> QED
  BY <1>2, <1>3, <1>4, <1>5, <1>6, <1>7, Zenon DEF Call

(* A new list that is right stays right in the file.                       *)
LEMMA SavedNames ==
  ASSUME ListsAreRight, UNCHANGED enrolledAs, RightNames(m_fingerMap', enrolledAs),
         saveFingers(m_fingerMap'), m_fingerMap' # Unreadable
  PROVE  ListsAreRight'
<1>1. RightNames(EmptyMap, enrolledAs)
  BY DEF RightNames, EmptyMap, Keys
<1>2. database' \in {m_fingerMap', database, Unreadable}
  BY ConstantsAssumption DEF saveFingers, SaveResult
<1>3. ReadDatabase' \in {m_fingerMap', ReadDatabase, EmptyMap}
  BY <1>2 DEF ReadDatabase, EmptyMap
<1> QED
  BY <1>1, <1>3 DEF ListsAreRight

LEMMA DispatchNames ==
  ASSUME SystemTypeOK, TypeOK', NameInv, Dispatch
  PROVE  NameInv'
<1> DEFINE event == Head(events)
<1> USE DEF Adapter!NoFinger, NoFinger
<1>1. /\ events \in Seq(Adapter!Events) /\ events # <<>> /\ events' = Tail(events)
      /\ event \in Adapter!Events
      /\ UNCHANGED binder
      /\ Thins(events, events', Adapter!Events, SucceededEvents)
      /\ m_fingerMap' # Unreadable
      /\ callbacks \in Seq(Hal!Callbacks)
      /\ m_fingerMap \in FingerMaps
  BY UnreadableAssumption
  DEF SystemTypeOK, Adapter!TypeOK, Hal!TypeOK, TypeOK, Dispatch,
      Adapter!TakeEvent, Thins
<1>2. CASE OnEnrollProgress(event)
  <2>1. /\ UNCHANGED <<m_fingerMap, database, m_addingFinger>>
        /\ UNCHANGED <<outOfStep, enrolledAs, asked>>
        /\ Hal!cancel \/ UNCHANGED hal
    BY <1>2 DEF OnEnrollProgress, slot_enrollProgress, history
  <2>2. /\ Thins(callbacks, callbacks', Hal!Callbacks, EnrolledCallbacks)
        /\ sensor'.op = "enroll" => sensor.op = "enroll"
    BY <2>1, CancelledNames DEF hal, Thins
  <2> QED
    BY <1>1, <2>1, <2>2, NamesKept
<1>3. CASE OnFailed(event) \/ OnAuthenticated(event) \/ OnAcquired(event)
  <2>1. /\ UNCHANGED <<m_fingerMap, database, m_addingFinger>>
        /\ UNCHANGED <<outOfStep, enrolledAs, asked, callbacks, sensor>>
    BY <1>3 DEF OnFailed, OnAuthenticated, OnAcquired, slot_failed,
                slot_authenticated, slot_acquired, hal, history
  <2> QED
    BY <1>1, <2>1, NamesKept DEF Thins
<1>4. ASSUME UNCHANGED <<m_addingFinger, outOfStep, enrolledAs, asked, callbacks, sensor>>,
             RightNames(m_fingerMap', enrolledAs), saveFingers(m_fingerMap')
      PROVE  NameInv'
  <2>1. ListsAreRight'
    BY <1>1, <1>4, SavedNames DEF NameInv
  <2>2. outOfStep' \/ InStep'
    BY <1>1, <1>4, InStepKept DEF NameInv, Thins
  <2> QED
    BY <1>4, <2>1, <2>2 DEF NameInv, NobodyIsAsked, NobodyAsked
<1>5. CASE OnRemoved(event)
  <2>1. /\ slot_removed(event.finger)
        /\ UNCHANGED <<m_addingFinger, outOfStep, enrolledAs, asked, callbacks, sensor>>
    BY <1>5 DEF OnRemoved, slot_removed, hal, history
  <2>2. \/ m_fingerMap' = [m_fingerMap EXCEPT ![event.finger] = Absent]
        \/ m_fingerMap' = EmptyMap
    BY <2>1 DEF slot_removed
  <2>3. \A k \in Keys(m_fingerMap') : k \in Keys(m_fingerMap) /\ m_fingerMap'[k] = m_fingerMap[k]
    BY <1>1, <2>2 DEF Keys, EmptyMap, FingerMaps
  <2>4. RightNames(m_fingerMap', enrolledAs)
    BY <2>3 DEF NameInv, ListsAreRight, RightNames
  <2> QED
    BY <1>4, <2>1, <2>4 DEF slot_removed
<1>6. CASE OnEnumerated(event)
  <2>1. /\ slot_enumerated(m_fingers)
        /\ UNCHANGED <<m_addingFinger, outOfStep, enrolledAs, asked, callbacks, sensor>>
    BY <1>6 DEF OnEnumerated, slot_enumerated, hal
  <2>2. m_fingerMap' = LoadedMap(m_fingers) /\ m_fingers \in SUBSET Fingers
    BY <2>1 DEF slot_enumerated, SystemTypeOK, Adapter!TypeOK
  <2>3. Keys(m_fingerMap') = m_fingers
    BY <2>2, LoadedMapKeys DEF SystemTypeOK
  <2>4. \A k \in m_fingers :
          m_fingerMap'[k] = UnknownName[k] \/ (/\ k \in Keys(ReadDatabase)
                                              /\ m_fingerMap'[k] = ReadDatabase[k])
    BY <2>2 DEF LoadedMap, AddUnknown, DropMissing, Keys, FingerIds
  <2>5. RightNames(m_fingerMap', enrolledAs)
    BY <2>2, <2>3, <2>4 DEF NameInv, ListsAreRight, RightNames
  <2> QED
    BY <1>4, <2>1, <2>5 DEF slot_enumerated
<1>7. CASE OnSucceeded(event)
  <2> DEFINE finger == event.finger
  <2>1. /\ event.signal = "succeeded"
        /\ slot_succeeded(finger)
        /\ UNCHANGED <<outOfStep, enrolledAs, asked, callbacks, sensor>>
    BY <1>7 DEF OnSucceeded, hal, history
  <2>2. event \in SucceededEvents /\ finger \in Fingers
    BY <1>1, <2>1 DEF SucceededEvents, Adapter!Events
  <2>3. outOfStep \/ Fits(finger)
    <3> SUFFICES ASSUME InStep PROVE Fits(finger)
      BY DEF NameInv
    <3>1. 1 \in 1..Len(events) /\ event = events[1]
      BY <1>1
    <3>2. event \notin MisfitEvents
      BY <3>1 DEF InStep, NamesFit, Contains
    <3> QED
      BY <2>2, <3>2 DEF MisfitEvents
  <2>4. enrolledAs[finger] \in {Absent, m_addingFinger}
    BY <2>2, <2>3 DEF Fits, NameInv, NobodyIsAsked, NobodyAsked
  <2>5. m_fingerMap' = [m_fingerMap EXCEPT ![finger] = m_addingFinger]
    BY <2>1 DEF slot_succeeded, WithFinger
  <2>6. \A k \in Keys(m_fingerMap') :
          \/ k = finger /\ m_fingerMap'[k] = m_addingFinger
          \/ k \in Keys(m_fingerMap) /\ m_fingerMap'[k] = m_fingerMap[k]
    BY <1>1, <2>2, <2>5 DEF Keys, FingerMaps, FingerIds
  <2>7. RightNames(m_fingerMap', enrolledAs)
    BY <2>2, <2>4, <2>6 DEF NameInv, ListsAreRight, RightNames
  <2>8. ListsAreRight'
    BY <1>1, <2>1, <2>7, SavedNames DEF NameInv, slot_succeeded
  <2>9. ASSUME InStep PROVE InStep'
    <3>1. Contains(events, SucceededEvents) /\ ~Contains(events', SucceededEvents)
      BY <1>1, <2>2, <2>9, TakesOne DEF InStep, OneOnItsWay
    <3>2. NoneOnItsWay'
      BY <1>1, <2>1, <2>9, <3>1
      DEF InStep, OneOnItsWay, NoneOnItsWay, EnrolledCallbacks, SucceededEvents, Contains
    <3>3. sensor'.op # "enroll"
      BY <2>1, <2>9, <3>1 DEF InStep, EnrolsForName, NoneOnItsWay
    <3>4. NamesFit' /\ OneOnItsWay'
      BY <3>2, NoneFits
    <3> QED
      BY <3>3, <3>4 DEF InStep, EnrolsForName
  <2> QED
    BY <2>1, <2>8, <2>9 DEF NameInv, NobodyIsAsked, NobodyAsked
<1> QED
  BY <1>2, <1>3, <1>5, <1>6, <1>7 DEF Dispatch

-----------------------------------------------------------------------------
(* Steps of the binder thread.                                             *)

(* The last sample reaches the adapter: the template is now in postEnroll. *)
LEMMA LastSampleNames ==
  ASSUME SystemTypeOK, InStep, callbacks # <<>>, callbacks' = Tail(callbacks),
         Head(callbacks) \in EnrolledCallbacks,
         Thins(events, events', Adapter!Events, SucceededEvents),
         binder' = [at |-> "postEnroll", finger |-> Head(callbacks).finger],
         UNCHANGED <<sensor, m_addingFinger, enrolledAs, asked>>
  PROVE  InStep'
<1> DEFINE callback == Head(callbacks)
<1>1. /\ callbacks \in Seq(Hal!Callbacks) /\ events \in Seq(Adapter!Events)
      /\ EnrolledCallbacks' = EnrolledCallbacks
      /\ SucceededEvents' = SucceededEvents
      /\ MisfitCallbacks \subseteq EnrolledCallbacks
      /\ MisfitEvents \subseteq SucceededEvents
      /\ MisfitCallbacks' = MisfitCallbacks /\ MisfitEvents' = MisfitEvents
  BY DEF SystemTypeOK, Hal!TypeOK, Adapter!TypeOK, EnrolledCallbacks,
         SucceededEvents, MisfitCallbacks, MisfitEvents, Fits
<1>2. Contains(callbacks, EnrolledCallbacks) /\ ~Contains(callbacks', EnrolledCallbacks)
  BY <1>1, TakesOne DEF InStep, OneOnItsWay
<1>3. ~Contains(events', SucceededEvents)
  <2>1. ~Contains(events, SucceededEvents)
    BY <1>2 DEF InStep, OneOnItsWay
  <2> QED
    BY <1>1, <2>1, ThinsKeeps
<1>4. Fits(callback.finger)
  <2>1. 1 \in 1..Len(callbacks) /\ callback = callbacks[1]
    BY <1>1
  <2>2. callback \notin MisfitCallbacks
    BY <2>1 DEF InStep, NamesFit, Contains
  <2> QED
    BY <2>2 DEF MisfitCallbacks
<1>5. binder'.at = "postEnroll" /\ binder'.finger = callback.finger
  OBVIOUS
<1>6. NamesFit'
  BY <1>1, <1>2, <1>3, <1>4, <1>5 DEF NamesFit, Fits, Contains
<1>7. OneOnItsWay'
  BY <1>1, <1>2, <1>3 DEF OneOnItsWay, AtMostOne, Contains
<1>8. sensor'.op # "enroll"
  BY <1>2 DEF InStep, EnrolsForName, NoneOnItsWay
<1> QED
  BY <1>6, <1>7, <1>8 DEF InStep, EnrolsForName

(* An entry that is no template of an enrolment.                           *)
LEMMA OtherEvent ==
  ASSUME NEW event \in Adapter!Events, Adapter!Emit(event), event.signal # "succeeded"
  PROVE  Thins(events, events', Adapter!Events, SucceededEvents)
BY DEF Adapter!Emit, SucceededEvents, Thins

LEMMA DeliverNames ==
  ASSUME SystemTypeOK, NameInv, Deliver, Elsewhere
  PROVE  NameInv'
<1> DEFINE callback == Head(callbacks)
<1> USE DEF Adapter!NoFinger, NoFinger
<1>1. /\ callbacks \in Seq(Hal!Callbacks) /\ callbacks # <<>>
      /\ callbacks' = Tail(callbacks)
      /\ callback \in Hal!Callbacks
      /\ UNCHANGED <<m_fingerMap, database, outOfStep, m_addingFinger, enrolledAs, asked>>
      /\ UNCHANGED sensor
      /\ Thins(callbacks, callbacks', Hal!Callbacks, EnrolledCallbacks)
  BY DEF SystemTypeOK, Hal!TypeOK, Deliver, Elsewhere, volatile, history, Thins
<1>2. ASSUME Thins(events, events', Adapter!Events, SucceededEvents),
             binder'.at # "postEnroll"
      PROVE  NameInv'
  BY <1>1, <1>2, NamesKept
<1>3. UNCHANGED events => Thins(events, events', Adapter!Events, SucceededEvents)
  BY DEF Thins
<1>4. Adapter!Ready => binder.at # "postEnroll"
  BY DEF Adapter!Ready, Adapter!Free
<1>5. CASE /\ callback.on = "EnrollResult"
           /\ Adapter!enrollCallback(callback.finger, callback.remaining)
  <2>1. CASE callback.remaining > 0 /\ UNCHANGED events
    <3>1. binder'.at # "postEnroll"
      BY <1>5, <2>1 DEF Adapter!enrollCallback
    <3> QED
      BY <1>2, <1>3, <2>1, <3>1
  <2>2. CASE callback.remaining = 0 /\ Adapter!Emit(Adapter!EnrollProgress(100))
    <3>1. Adapter!EnrollProgress(100) \in Adapter!Events
      BY DEF Adapter!EnrollProgress, Adapter!Events, Adapter!ProgressValues
    <3>2. Thins(events, events', Adapter!Events, SucceededEvents)
      BY <2>2, <3>1, OtherEvent DEF Adapter!EnrollProgress
    <3>3. binder' = [at |-> "postEnroll", finger |-> callback.finger]
      BY <1>5, <2>2 DEF Adapter!enrollCallback
    <3>4. callback \in EnrolledCallbacks
      BY <1>1, <1>5, <2>2 DEF EnrolledCallbacks
    <3>5. outOfStep' \/ InStep'
      BY <1>1, <3>2, <3>3, <3>4, LastSampleNames DEF NameInv
    <3>6. ListsAreRight'
      BY <1>1, ListsKept DEF NameInv
    <3> QED
      BY <1>1, <3>5, <3>6 DEF NameInv, NobodyIsAsked, NobodyAsked
  <2> QED
    BY <1>5, <2>1, <2>2 DEF Adapter!enrollCallback
<1>6. CASE /\ callback.on = "Removed"
           /\ Adapter!removeCallback(callback.finger, callback.remaining)
  <2>1. binder'.at # "postEnroll" /\ UNCHANGED events
    BY <1>6 DEF Adapter!removeCallback, Adapter!Free
  <2> QED
    BY <1>2, <1>3, <2>1
<1>7. CASE /\ callback.on = "Enumerate"
           /\ Adapter!enumerateCallback(callback.finger, callback.remaining)
  <2>1. Adapter!Enumerated \in Adapter!Events /\ Adapter!Enumerated.signal = "enumerated"
    BY DEF Adapter!Enumerated, Adapter!Events
  <2>2. Thins(events, events', Adapter!Events, SucceededEvents)
    BY <1>3, <1>7, <2>1, OtherEvent DEF Adapter!enumerateCallback
  <2> QED
    BY <1>2, <1>4, <1>7, <2>2 DEF Adapter!enumerateCallback
<1>8. CASE callback.on = "Authenticated" /\ Adapter!authenticated_cb(callback.finger)
  <2> DEFINE event == IF callback.finger # 0
                      THEN Adapter!Authenticated(callback.finger)
                      ELSE Adapter!Failed("FINGER_NOT_RECOGNIZED")
  <2>1. callback.finger \in Fingers \union {0}
    BY <1>1, <1>8 DEF Hal!Callbacks, Hal!FingerIds, Hal!NoFinger
  <2>2. event \in Adapter!Events /\ Adapter!Emit(event) /\ event.signal # "succeeded"
    BY <1>8, <2>1 DEF Adapter!Authenticated, Adapter!Failed, Adapter!Events,
                      Adapter!authenticated_cb
  <2>3. Thins(events, events', Adapter!Events, SucceededEvents)
    BY <2>2, OtherEvent
  <2> QED
    BY <1>2, <1>4, <1>8, <2>3 DEF Adapter!authenticated_cb, Adapter!UnchangedShared
<1>9. CASE callback.on = "Acquired" /\ Adapter!acquired_cb(callback.info)
  <2>1. /\ Adapter!Acquired(callback.info) \in Adapter!Events
        /\ Adapter!Acquired(callback.info).signal # "succeeded"
    BY <1>1, <1>9, InfosAssumption DEF Hal!Callbacks, Adapter!Acquired, Adapter!Events
  <2>2. Thins(events, events', Adapter!Events, SucceededEvents)
    BY <1>9, <2>1, OtherEvent DEF Adapter!acquired_cb
  <2> QED
    BY <1>2, <1>4, <1>9, <2>2 DEF Adapter!acquired_cb
<1>10. CASE callback.on = "Error" /\ Adapter!error_cb(callback.error)
  <2>1. callback.error \in {"ERROR", "ERROR_NO_ERROR"}
    BY <1>1, <1>10, ErrorsAssumption DEF Hal!Callbacks
  <2>2. /\ Adapter!Failed("ERROR") \in Adapter!Events
        /\ Adapter!Failed("ERROR").signal # "succeeded"
    BY DEF Adapter!Failed, Adapter!Events
  <2>3. Thins(events, events', Adapter!Events, SucceededEvents)
    BY <1>3, <1>10, <2>1, <2>2, OtherEvent DEF Adapter!error_cb
  <2> QED
    BY <1>2, <1>4, <1>10, <2>3 DEF Adapter!error_cb
<1> QED
  BY <1>5, <1>6, <1>7, <1>8, <1>9, <1>10 DEF Deliver

(* postEnroll lets go of the template by telling the main thread of it.    *)
LEMMA PostEnrollNames ==
  ASSUME SystemTypeOK, NameInv, PostEnroll("SYS_OK"), Elsewhere
  PROVE  NameInv'
<1> DEFINE finger == binder.finger
           event == Adapter!Succeeded(finger)
<1>1. /\ events \in Seq(Adapter!Events) /\ events' = Append(events, event)
      /\ binder.at = "postEnroll" /\ binder' = Adapter!Free
      /\ finger \in Fingers
      /\ UNCHANGED <<callbacks, sensor, m_fingerMap, database, m_addingFinger>>
  BY DEF SystemTypeOK, Adapter!TypeOK, Adapter!BinderStates, Adapter!Free,
         PostEnroll, Adapter!postEnroll, Adapter!Emit, hal, Elsewhere, volatile
<1>2. UNCHANGED <<outOfStep, enrolledAs, asked>>
  BY DEF PostEnroll, GetsOutOfStep, SystemTypeOK
<1>3. event \in Adapter!Events
  BY <1>1 DEF Adapter!Succeeded, Adapter!Events
<1>4. ASSUME InStep PROVE InStep'
  <2>1. /\ EnrolledCallbacks' = EnrolledCallbacks /\ SucceededEvents' = SucceededEvents
        /\ MisfitCallbacks' = MisfitCallbacks /\ MisfitEvents' = MisfitEvents
        /\ MisfitEvents \in SUBSET SucceededEvents
    BY <1>1, <1>2 DEF EnrolledCallbacks, SucceededEvents, MisfitCallbacks,
                      MisfitEvents, Fits
  <2>2. /\ ~Contains(callbacks, EnrolledCallbacks)
        /\ ~Contains(events, SucceededEvents)
        /\ Fits(finger)
    BY <1>1, <1>4 DEF InStep, OneOnItsWay, NamesFit
  <2>3. event \notin MisfitEvents
    BY <2>2 DEF MisfitEvents, Adapter!Succeeded
  <2>4. AtMostOne(events', SucceededEvents) /\ ~Contains(events', MisfitEvents)
    BY <1>1, <1>3, <2>1, <2>2, <2>3, AddsOne
  <2>5. ~Contains(callbacks', EnrolledCallbacks') /\ binder'.at = "none"
    BY <1>1, <2>1, <2>2 DEF Contains, Adapter!Free
  <2>6. NamesFit'
    BY <1>1, <1>4, <2>1, <2>4, <2>5 DEF InStep, NamesFit, Contains
  <2>7. OneOnItsWay'
    BY <2>1, <2>4, <2>5 DEF OneOnItsWay, Contains, AtMostOne
  <2>8. sensor'.op # "enroll"
    BY <1>1, <1>4 DEF InStep, EnrolsForName, NoneOnItsWay
  <2> QED
    BY <2>6, <2>7, <2>8 DEF InStep, EnrolsForName
<1>5. ListsAreRight'
  BY <1>1, <1>2, ListsKept DEF NameInv
<1> QED
  BY <1>2, <1>4, <1>5 DEF NameInv, NobodyIsAsked, NobodyAsked

LEMMA BinderNames ==
  ASSUME SystemTypeOK, NameInv, Binder
  PROVE  NameInv'
<1> USE DEF Adapter!NoFinger, NoFinger
<1>1. /\ Elsewhere
      /\ Adapter!TypeOK
      /\ UNCHANGED <<m_fingerMap, database, m_addingFinger>>
  BY DEF Binder, Elsewhere, volatile, SystemTypeOK
<1>2. CASE Deliver
  BY <1>1, <1>2, DeliverNames
<1>3. ASSUME NEW ret, PostEnroll(ret)
      PROVE  NameInv'
  <2>1. CASE ret = "SYS_OK"
    BY <1>1, <1>3, <2>1, PostEnrollNames
  <2>2. CASE ret # "SYS_OK"
    BY <1>1, <1>3, <2>2, OutOfStepNames DEF PostEnroll, GetsOutOfStep
  <2> QED
    BY <2>1, <2>2
<1>4. ASSUME UNCHANGED hal, UNCHANGED history, binder'.at # "postEnroll",
             Thins(events, events', Adapter!Events, SucceededEvents)
      PROVE  NameInv'
  BY <1>1, <1>4, NamesKept DEF hal, history, Thins
<1>5. CASE Adapter!enrollProgress /\ UNCHANGED <<hal, history>>
  <2> DEFINE event == Adapter!EnrollProgress(Adapter!Percent(binder.remaining))
  <2>1. binder.remaining \in 1..Samples /\ Adapter!Emit(event)
    BY <1>1, <1>5 DEF Adapter!enrollProgress, Adapter!TypeOK, Adapter!BinderStates,
                      Adapter!Free
  <2>2. event \in Adapter!Events /\ event.signal # "succeeded"
    BY <1>1, <2>1, PercentType DEF Adapter!EnrollProgress, Adapter!Events
  <2>3. Thins(events, events', Adapter!Events, SucceededEvents)
    BY <2>1, <2>2, OtherEvent
  <2> QED
    BY <1>4, <1>5, <2>3 DEF Adapter!enrollProgress, Adapter!Free
<1>6. CASE Adapter!emitRemoved /\ UNCHANGED <<hal, history>>
  <2> DEFINE event == Adapter!Removed(IF m_removingFinger = 0 THEN 0 ELSE binder.finger)
  <2>1. binder.finger \in Fingers \union {0} /\ Adapter!Emit(event)
    BY <1>1, <1>6 DEF Adapter!emitRemoved, Adapter!TypeOK, Adapter!BinderStates,
                      Adapter!Free
  <2>2. event \in Adapter!Events /\ event.signal # "succeeded"
    BY <2>1 DEF Adapter!Removed, Adapter!Events
  <2>3. Thins(events, events', Adapter!Events, SucceededEvents)
    BY <2>1, <2>2, OtherEvent
  <2> QED
    BY <1>4, <1>6, <2>3 DEF Adapter!emitRemoved
<1>7. CASE Adapter!forgetRemoving /\ UNCHANGED <<hal, history>>
  BY <1>4, <1>7 DEF Adapter!forgetRemoving, Adapter!Free, Thins
<1> QED
  BY <1>2, <1>3, <1>5, <1>6, <1>7 DEF Binder

-----------------------------------------------------------------------------
(* Steps of the sensor.                                                    *)

(* A report that brings no template.                                       *)
LEMMA ReportNames ==
  ASSUME SystemTypeOK, NameInv, Elsewhere, UNCHANGED adapter, UNCHANGED history,
         NEW callback \in Hal!Callbacks, Hal!Send(callback),
         callback \notin EnrolledCallbacks,
         sensor'.op = "enroll" => sensor.op = "enroll"
  PROVE  NameInv'
<1>1. Thins(callbacks, callbacks', Hal!Callbacks, EnrolledCallbacks)
  BY DEF Hal!Send, Thins
<1>2. /\ UNCHANGED <<m_fingerMap, database, outOfStep, m_addingFinger, enrolledAs, asked>>
      /\ UNCHANGED <<binder, events>>
  BY DEF Elsewhere, volatile, adapter, history
<1> QED
  BY <1>1, <1>2, NamesKept DEF Thins

(* The last touch makes the template, for the name that waits.             *)
LEMMA TemplateNames ==
  ASSUME SystemTypeOK, NameInv, Elsewhere, UNCHANGED adapter,
         NEW finger \in Fingers, Sample(finger), sensor.samples = 1
  PROVE  NameInv'
<1> DEFINE callback == Hal!OnEnrollResult(finger, 0)
<1>1. /\ callbacks \in Seq(Hal!Callbacks) /\ callbacks' = Append(callbacks, callback)
      /\ sensor.op = "enroll" /\ sensor' = Hal!Idle
      /\ UNCHANGED <<binder, events, m_fingerMap, database, m_addingFinger>>
      /\ UNCHANGED <<outOfStep, asked>>
      /\ store' # store
      /\ finger \notin Keys(m_fingerMap) \union Keys(ReadDatabase)
      /\ enrolledAs \in [Fingers -> ClientNames \union {Absent}]
  BY DEF SystemTypeOK, Hal!TypeOK, Sample, Hal!Sample, Hal!Send, adapter,
         Elsewhere, volatile, KnownIds
<1>2. callback \in Hal!Callbacks /\ callback \in EnrolledCallbacks /\ callback.finger = finger
  BY SamplesAssumption
  DEF Hal!OnEnrollResult, Hal!Callbacks, Hal!FingerIds, EnrolledCallbacks
<1>3. CASE outOfStep
  <2>1. UNCHANGED enrolledAs
    BY <1>3 DEF Sample
  <2>2. ListsAreRight'
    BY <1>1, <2>1, ListsKept DEF NameInv
  <2> QED
    BY <1>1, <1>3, <2>1, <2>2 DEF NameInv, NobodyIsAsked, NobodyAsked
<1>4. CASE ~outOfStep
  <2>1. enrolledAs' = [enrolledAs EXCEPT ![finger] = asked]
    BY <1>1, <1>4 DEF Sample
  <2>2. NoneOnItsWay /\ asked \in {Absent, m_addingFinger}
    BY <1>1, <1>4 DEF NameInv, InStep, EnrolsForName
  <2>3. /\ EnrolledCallbacks' = EnrolledCallbacks /\ SucceededEvents' = SucceededEvents
        /\ MisfitCallbacks' \in SUBSET EnrolledCallbacks
        /\ MisfitEvents' \subseteq SucceededEvents
    BY DEF EnrolledCallbacks, SucceededEvents, MisfitCallbacks, MisfitEvents
  <2>4. Fits(finger)'
    BY <1>1, <2>1, <2>2 DEF Fits
  <2>5. callback \notin MisfitCallbacks'
    BY <1>2, <2>4 DEF MisfitCallbacks, Fits
  <2>6. AtMostOne(callbacks', EnrolledCallbacks) /\ ~Contains(callbacks', MisfitCallbacks')
    BY <1>1, <1>2, <2>2, <2>3, <2>5, AddsOne DEF NoneOnItsWay
  <2>7. ~Contains(events', SucceededEvents') /\ binder'.at # "postEnroll"
    BY <1>1, <2>2, <2>3 DEF NoneOnItsWay, Contains
  <2>8. NamesFit'
    BY <2>3, <2>6, <2>7 DEF NamesFit, Contains
  <2>9. OneOnItsWay'
    BY <2>3, <2>6, <2>7 DEF OneOnItsWay, AtMostOne, Contains
  <2>10. \A map : RightNames(map, enrolledAs) /\ finger \notin Keys(map)
                    => RightNames(map, enrolledAs')
    BY <1>1, <2>1 DEF RightNames
  <2>11. ListsAreRight'
    BY <1>1, <2>10 DEF NameInv, ListsAreRight, ReadDatabase
  <2> QED
    BY <1>1, <1>4, <2>8, <2>9, <2>11
    DEF NameInv, InStep, EnrolsForName, NobodyIsAsked, Hal!Idle
<1> QED
  BY <1>3, <1>4

LEMMA SensorNames ==
  ASSUME SystemTypeOK, NameInv, Sensor \/ Acquire
  PROVE  NameInv'
<1> USE DEF Hal!Callbacks, Hal!FingerIds, Hal!NoFinger, NoFinger, FingerIds
<1>1. Elsewhere /\ UNCHANGED adapter /\ Hal!TypeOK
  BY DEF Sensor, Acquire, SystemTypeOK
<1>2. ASSUME NEW finger \in Fingers, Sample(finger)
      PROVE  NameInv'
  <2>1. sensor.samples \in 1..Samples
    BY <1>1, <1>2 DEF Sample, Hal!Sample, Hal!TypeOK, Hal!Operations, Hal!Idle,
                      Hal!Authenticating
  <2>2. CASE sensor.samples > 1
    <3> DEFINE callback == Hal!OnEnrollResult(0, sensor.samples - 1)
    <3>1. callback \in Hal!Callbacks /\ callback \notin EnrolledCallbacks
      BY <2>1, <2>2, SamplesAssumption DEF Hal!OnEnrollResult, EnrolledCallbacks
    <3>2. Hal!Send(callback) /\ sensor.op = "enroll" /\ UNCHANGED store
      BY <1>2, <2>2 DEF Sample, Hal!Sample
    <3>3. UNCHANGED history
      BY <1>2, <3>2 DEF Sample, history
    <3> QED
      BY <1>1, <3>1, <3>2, <3>3, ReportNames
  <2>3. CASE sensor.samples = 1
    BY <1>1, <1>2, <2>3, TemplateNames
  <2> QED
    BY <2>1, <2>2, <2>3
<1>3. CASE Fail
  <2>1. PICK error \in ErrorCodes : Hal!Send(Hal!OnError(error))
    BY <1>3 DEF Fail, Hal!Fail
  <2>2. /\ Hal!OnError(error) \in Hal!Callbacks
        /\ Hal!OnError(error) \notin EnrolledCallbacks
    BY DEF Hal!OnError, EnrolledCallbacks
  <2>3. CASE sensor.op = "remove" /\ sensor.left # sensor.all
    <3>1. GetsOutOfStep(TRUE)
      BY <1>3, <2>3 DEF Fail, GetsOutOfStep
    <3> QED
      BY <1>1, <3>1, OutOfStepNames DEF Elsewhere, volatile
  <2>4. CASE ~(sensor.op = "remove" /\ sensor.left # sensor.all)
    <3>1. UNCHANGED history
      BY <1>3, <2>4 DEF Fail, GetsOutOfStep, history, SystemTypeOK
    <3>2. sensor'.op = "none"
      BY <1>3 DEF Fail, Hal!Fail, Hal!Idle
    <3> QED
      BY <1>1, <2>1, <2>2, <3>1, <3>2, ReportNames
  <2> QED
    BY <2>3, <2>4
<1>4. ASSUME UNCHANGED history, Hal!Reject PROVE NameInv'
  <2>1. /\ Hal!OnAuthenticated(0) \in Hal!Callbacks
        /\ Hal!OnAuthenticated(0) \notin EnrolledCallbacks
    BY DEF Hal!OnAuthenticated, EnrolledCallbacks
  <2>2. Hal!Send(Hal!OnAuthenticated(0)) /\ UNCHANGED sensor
    BY <1>4 DEF Hal!Reject
  <2> QED
    BY <1>1, <1>4, <2>1, <2>2, ReportNames
<1>5. ASSUME UNCHANGED history, NEW finger \in FingerIds, Hal!Match(finger)
      PROVE  NameInv'
  <2>1. /\ Hal!OnAuthenticated(finger) \in Hal!Callbacks
        /\ Hal!OnAuthenticated(finger) \notin EnrolledCallbacks
    BY DEF Hal!OnAuthenticated, EnrolledCallbacks
  <2>2. Hal!Send(Hal!OnAuthenticated(finger)) /\ sensor'.op = "none"
    BY <1>5 DEF Hal!Match, Hal!Idle
  <2> QED
    BY <1>1, <1>5, <2>1, <2>2, ReportNames
<1>6. ASSUME UNCHANGED history, NEW finger \in FingerIds, Hal!RemoveNext(finger)
      PROVE  NameInv'
  <2> DEFINE callback == Hal!OnRemoved(finger, Hal!Remaining(finger))
  <2>1. callback \in Hal!Callbacks /\ callback \notin EnrolledCallbacks
    BY DEF Hal!OnRemoved, Hal!Remaining, EnrolledCallbacks
  <2>2. Hal!Send(callback) /\ sensor'.op # "enroll"
    BY <1>6 DEF Hal!RemoveNext, Hal!Idle, Hal!Removing
  <2> QED
    BY <1>1, <1>6, <2>1, <2>2, ReportNames
<1>7. ASSUME UNCHANGED history, NEW finger \in FingerIds, Hal!EnumerateNext(finger)
      PROVE  NameInv'
  <2> DEFINE callback == Hal!OnEnumerate(finger, Hal!Remaining(finger))
  <2>1. callback \in Hal!Callbacks /\ callback \notin EnrolledCallbacks
    BY DEF Hal!OnEnumerate, Hal!Remaining, EnrolledCallbacks
  <2>2. Hal!Send(callback) /\ sensor'.op # "enroll"
    BY <1>7 DEF Hal!EnumerateNext, Hal!Idle, Hal!Enumerating
  <2> QED
    BY <1>1, <1>7, <2>1, <2>2, ReportNames
<1>8. CASE Acquire
  <2>1. PICK info \in SensorInfos : Hal!Acquire(info)
    BY <1>8 DEF Acquire
  <2>2. /\ Hal!OnAcquired(info) \in Hal!Callbacks
        /\ Hal!OnAcquired(info) \notin EnrolledCallbacks
    BY AcquiredCallback DEF EnrolledCallbacks
  <2>3. Hal!Send(Hal!OnAcquired(info)) /\ UNCHANGED sensor /\ UNCHANGED history
    BY <1>8, <2>1 DEF Acquire, Hal!Acquire
  <2> QED
    BY <1>1, <2>2, <2>3, ReportNames
<1> QED
  BY <1>2, <1>3, <1>4, <1>5, <1>6, <1>7, <1>8 DEF Sensor

-----------------------------------------------------------------------------
(* A new process starts with nothing on its way, or out of step.           *)
LEMMA CrashNames ==
  ASSUME NameInv, Crash
  PROVE  NameInv'
<1>1. /\ database' \in {database, Unreadable} /\ m_fingerMap' = EmptyMap
      /\ callbacks' = <<>> /\ events' = <<>> /\ binder' = Adapter!Free
      /\ enrolledAs' = IF outOfStep' THEN NobodyAsked ELSE enrolledAs
      /\ outOfStep' \/ sensor' = Hal!Idle \/ sensor' = Hal!Enumerating(store)
  BY DEF Crash, Restart
<1>2. ReadDatabase' \in {ReadDatabase, EmptyMap} /\ Keys(EmptyMap) = {}
  BY <1>1 DEF ReadDatabase, EmptyMap, Keys
<1>3. \A map : RightNames(map, enrolledAs) => RightNames(map, enrolledAs')
  BY <1>1 DEF RightNames, NobodyAsked
<1>4. ListsAreRight'
  BY <1>1, <1>2, <1>3 DEF NameInv, ListsAreRight, RightNames
<1>5. NoneOnItsWay'
  BY <1>1 DEF NoneOnItsWay, Contains, Adapter!Free
<1>6. outOfStep' \/ sensor'.op # "enroll"
  BY <1>1 DEF Hal!Idle, Hal!Enumerating
<1> QED
  BY <1>1, <1>4, <1>5, <1>6, NoneFits DEF NameInv, InStep, EnrolsForName, NobodyIsAsked

(* No template is ever listed under a name that it was not enrolled for:   *)
(* through aborts, failures, late templates, lost files and restarts, as   *)
(* long as each operation begins when the last one is quite over.          *)
THEOREM NamesStayRight == SystemSpec => []NamesAreRight
<1>1. SystemInit => NameInv
  <2> SUFFICES ASSUME SystemInit PROVE NameInv
    OBVIOUS
  <2>1. m_fingerMap = EmptyMap /\ ReadDatabase = EmptyMap /\ Keys(EmptyMap) = {}
    BY DEF SystemInit, Init, ReadDatabase, EmptyMap, Keys
  <2>2. ListsAreRight
    BY <2>1 DEF ListsAreRight, RightNames
  <2>3. NoneOnItsWay /\ sensor.op # "enroll"
    BY DEF SystemInit, Adapter!Init, Adapter!Free, Hal!Idle, Hal!Enumerating,
           NoneOnItsWay, Contains
  <2>4. InStep
    BY <2>3 DEF InStep, NamesFit, OneOnItsWay, EnrolsForName, NoneOnItsWay,
                MisfitCallbacks, MisfitEvents, Contains, AtMostOne
  <2> QED
    BY <2>2, <2>4 DEF NameInv, NobodyIsAsked, SystemInit
<1>2. SystemTypeOK /\ SystemTypeOK' /\ NameInv /\ [SystemNext]_systemVars => NameInv'
  <2> SUFFICES ASSUME SystemTypeOK, SystemTypeOK', NameInv, [SystemNext]_systemVars
               PROVE  NameInv'
    OBVIOUS
  <2>1. CASE Dispatch
    BY <2>1, DispatchNames DEF SystemTypeOK
  <2>2. CASE Timeout
    <3>1. /\ UNCHANGED <<m_fingerMap, database, m_addingFinger>>
          /\ UNCHANGED <<outOfStep, enrolledAs, asked, events, binder>>
          /\ Hal!cancel
      BY <2>2 DEF Timeout, slot_cancelIdentify, adapter, history
    <3> QED
      BY <3>1, CancelledNames, NamesKept DEF Thins
  <2>3. CASE EnrollReturns
    <3>1. /\ UNCHANGED <<m_fingerMap, database, m_addingFinger>>
          /\ UNCHANGED <<outOfStep, enrolledAs, asked, events, binder, callbacks, sensor>>
      BY <2>3 DEF EnrollReturns, Adapter!enrollReturns, Elsewhere, volatile, hal, history
    <3> QED
      BY <3>1, NamesKept DEF Thins
  <2>4. CASE UNCHANGED systemVars
    <3>1. /\ UNCHANGED <<m_fingerMap, database, m_addingFinger>>
          /\ UNCHANGED <<outOfStep, enrolledAs, asked, events, binder, callbacks, sensor>>
      BY <2>4 DEF systemVars, vars, volatile, adapter, hal, history
    <3> QED
      BY <3>1, NamesKept DEF Thins
  <2> QED
    BY <2>1, <2>2, <2>3, <2>4, CallNames, BinderNames, SensorNames, CrashNames
    DEF SystemNext
<1>3. NameInv => NamesAreRight
  BY DEF NameInv, ListsAreRight, RightNames, NamesAreRight
<1> QED
  BY <1>1, <1>2, <1>3, SystemTypeCorrect, PTL DEF SystemSpec
=============================================================================
