------------------------ MODULE FPDSystemStoreProofs ------------------------
(***************************************************************************)
(* When nothing is under way, the list is exactly what the sensor holds.   *)
(* What the sensor does to its store is told to the list once, much later: *)
(* by the last report of the operation, which goes through callbacks,      *)
(* binder thread and queue.  The invariant says where that result is, that *)
(* there is only one, and how the store and the list differ until then.    *)
(***************************************************************************)
EXTENDS FPDSystemNameProofs

-----------------------------------------------------------------------------
(* More on queues.                                                         *)

LEMMA HeadOrTail ==
  ASSUME NEW T, NEW queue \in Seq(T), queue # <<>>, NEW set
  PROVE  Contains(queue, set) <=> Head(queue) \in set \/ Contains(Tail(queue), set)
<1>1. ASSUME Head(queue) \in set PROVE Contains(queue, set)
  <2>1. 1 \in 1..Len(queue) /\ queue[1] \in set
    BY <1>1
  <2> QED
    BY <2>1 DEF Contains
<1>2. ASSUME Contains(Tail(queue), set) PROVE Contains(queue, set)
  <2>1. PICK i \in 1..Len(Tail(queue)) : Tail(queue)[i] \in set
    BY <1>2 DEF Contains
  <2>2. i + 1 \in 1..Len(queue) /\ Tail(queue)[i] = queue[i + 1]
    BY TailEntries
  <2> QED
    BY <2>1, <2>2 DEF Contains
<1>3. Contains(queue, set) /\ Head(queue) \notin set => Contains(Tail(queue), set)
  BY TailContains
<1> QED
  BY <1>1, <1>2, <1>3

LEMMA FrontOrLast ==
  ASSUME NEW T, NEW queue \in Seq(T), NEW last \in T, NEW set
  PROVE  Contains(Append(queue, last), set) <=> Contains(queue, set) \/ last \in set
<1>1. ASSUME Contains(Append(queue, last), set), last \notin set
      PROVE  Contains(queue, set)
  <2>1. PICK i \in 1..Len(Append(queue, last)) : Append(queue, last)[i] \in set
    BY <1>1 DEF Contains
  <2>2. i \in 1..Len(queue) /\ queue[i] \in set
    BY <1>1, <2>1, AppendEntries
  <2> QED
    BY <2>2 DEF Contains
<1> QED
  BY <1>1, AppendContains

(* No entry of the set comes after one of the others.                      *)
ComesBefore(queue, set, others) ==
  \A i, j \in 1..Len(queue) : queue[i] \in others /\ queue[j] \in set => j <= i

LEMMA TailComesBefore ==
  ASSUME NEW T, NEW queue \in Seq(T), queue # <<>>, NEW set, NEW others,
         ComesBefore(queue, set, others)
  PROVE  /\ ComesBefore(Tail(queue), set, others)
         /\ Head(queue) \in others => ~Contains(Tail(queue), set)
<1>1. \A i \in 1..Len(Tail(queue)) :
        i \in Int /\ i >= 1 /\ i + 1 \in 1..Len(queue) /\ Tail(queue)[i] = queue[i + 1]
  BY TailEntries
<1>2. ASSUME NEW i \in 1..Len(Tail(queue)), NEW j \in 1..Len(Tail(queue)),
             Tail(queue)[i] \in others, Tail(queue)[j] \in set
      PROVE  j <= i
  <2>1. j + 1 <= i + 1
    BY <1>1, <1>2 DEF ComesBefore
  <2> QED
    BY <1>1, <2>1
<1>3. ASSUME Head(queue) \in others, Contains(Tail(queue), set) PROVE FALSE
  <2>1. PICK j \in 1..Len(Tail(queue)) : Tail(queue)[j] \in set
    BY <1>3 DEF Contains
  <2>2. 1 \in 1..Len(queue) /\ queue[1] \in others
    BY <1>3
  <2>3. j + 1 <= 1
    BY <1>1, <2>1, <2>2 DEF ComesBefore
  <2> QED
    BY <1>1, <2>3
<1> QED
  BY <1>2, <1>3 DEF ComesBefore

LEMMA AppendComesBefore ==
  ASSUME NEW T, NEW queue \in Seq(T), NEW last \in T, NEW set, NEW others,
         ComesBefore(queue, set, others), last \notin set \/ ~Contains(queue, others)
  PROVE  ComesBefore(Append(queue, last), set, others)
<1> DEFINE next == Append(queue, last)
<1> SUFFICES ASSUME NEW i \in 1..Len(next), NEW j \in 1..Len(next),
                    next[i] \in others, next[j] \in set
             PROVE  j <= i
  BY DEF ComesBefore
<1>1. /\ Len(next) = Len(queue) + 1 /\ Len(queue) \in Nat
      /\ next[Len(queue) + 1] = last
      /\ \A k \in 1..Len(queue) : next[k] = queue[k]
  BY AppendEntries
<1>2. CASE i = Len(queue) + 1
  BY <1>1, <1>2
<1>3. CASE i \in 1..Len(queue)
  <2>1. Contains(queue, others)
    BY <1>1, <1>3 DEF Contains
  <2>2. j # Len(queue) + 1
    BY <1>1, <2>1
  <2>3. j \in 1..Len(queue)
    BY <1>1, <2>2
  <2> QED
    BY <1>1, <1>3, <2>3 DEF ComesBefore
<1> QED
  BY <1>1, <1>2, <1>3

(* The queue has lost or got an entry that is not of the set, if any.      *)
Retains(queue, next, T, set) ==
  \/ next = queue
  \/ queue # <<>> /\ Head(queue) \notin set /\ next = Tail(queue)
  \/ \E last \in T \ set : next = Append(queue, last)

LEMMA RetainsAll ==
  ASSUME NEW T, NEW queue \in Seq(T), NEW next, NEW set, Retains(queue, next, T, set)
  PROVE  \A part \in SUBSET set :
           /\ Contains(next, part) <=> Contains(queue, part)
           /\ AtMostOne(queue, part) => AtMostOne(next, part)
           /\ \A others \in SUBSET set :
                ComesBefore(queue, part, others) => ComesBefore(next, part, others)
<1> SUFFICES ASSUME NEW part \in SUBSET set, NEW others \in SUBSET set
             PROVE  /\ Contains(next, part) <=> Contains(queue, part)
                    /\ AtMostOne(queue, part) => AtMostOne(next, part)
                    /\ ComesBefore(queue, part, others) => ComesBefore(next, part, others)
  OBVIOUS
<1>1. AtMostOne(queue, part) => AtMostOne(next, part)
  <2>1. Thins(queue, next, T, part)
    BY DEF Retains, Thins
  <2> QED
    BY <2>1, ThinsKeeps
<1>2. CASE next = queue
  BY <1>2
<1>3. CASE queue # <<>> /\ Head(queue) \notin set /\ next = Tail(queue)
  BY <1>1, <1>3, HeadOrTail, TailComesBefore
<1>4. CASE \E last \in T \ set : next = Append(queue, last)
  <2>1. PICK last \in T \ set : next = Append(queue, last)
    BY <1>4
  <2> QED
    BY <1>1, <2>1, FrontOrLast, AppendComesBefore
<1> QED
  BY <1>2, <1>3, <1>4 DEF Retains

-----------------------------------------------------------------------------
(* The invariant.                                                          *)

(* A result is an entry that will change the list, or binder's finger.     *)
LastReports ==
  {callback \in Hal!Callbacks :
     callback.on \in {"EnrollResult", "Removed", "Enumerate"} /\ callback.remaining = 0}
Results ==
  {event \in Adapter!Events : event.signal \in {"succeeded", "removed", "enumerated"}}
Holding == binder.at \in {"postEnroll", "removed"}

(* The sensor is at work on a result.                                      *)
Changing == sensor.op \in {"enroll", "remove", "enumerate"}

Enumerates == {callback \in Hal!Callbacks : callback.on = "Enumerate"}
EnumeratesOf(finger) == {callback \in Enumerates : callback.finger = finger}

(* A result is at one place, and m_removingFinger is reset before the next *)
(* one is sought.                                                          *)
OneResult ==
  /\ AtMostOne(callbacks, LastReports)
  /\ AtMostOne(events, Results)
  /\ Changing \/ Contains(callbacks, LastReports)
       => ~Contains(events, Results) /\ ~Holding /\ binder.at # "forget"
  /\ Changing => ~Contains(callbacks, LastReports)
  /\ Holding => ~Contains(events, Results)

(* Templates are enumerated before the result, and not after it.           *)
LastIsLast ==
  /\ ComesBefore(callbacks, Enumerates, LastReports)
  /\ Holding \/ Contains(events, Results) => ~Contains(callbacks, Enumerates)

(* What the list, the adapter and the sensor know, and what a result says. *)
Listed == Keys(m_fingerMap)
Foretold == m_fingers \union
        {finger \in Fingers : Contains(callbacks, EnumeratesOf(finger))}

Settled == loaded => store = Listed
HasAdded(finger) == loaded => store = Listed \union {finger}
HasRemoved(finger) ==
  loaded => store = IF finger = NoFinger THEN {} ELSE Listed \ {finger}
Removes(finger) == m_removingFinger \in {finger, NoFinger} /\ HasRemoved(m_removingFinger)

RightSensor ==
  /\ sensor.op = "enroll" => Settled
  /\ sensor.op = "remove" =>
       \/ /\ m_removingFinger = NoFinger
          /\ sensor.left = store
          /\ loaded => sensor.all = Listed /\ store \subseteq Listed
       \/ /\ m_removingFinger # NoFinger
          /\ sensor.left = {m_removingFinger}
          /\ sensor.all = {m_removingFinger}
          /\ Settled
  /\ sensor.op = "enumerate" => ~loaded /\ store = Foretold \union sensor.left

RightReport(callback) ==
  /\ callback.on = "EnrollResult" => HasAdded(callback.finger)
  /\ callback.on = "Removed" => Removes(callback.finger)
  /\ callback.on = "Enumerate" => store = Foretold
WrongReports == {callback \in LastReports : ~RightReport(callback)}

RightBinder ==
  /\ binder.at = "postEnroll" => HasAdded(binder.finger)
  /\ binder.at = "removed" => Removes(binder.finger)

RightEvent(event) ==
  /\ event.signal = "succeeded" => HasAdded(event.finger)
  /\ event.signal = "removed" => HasRemoved(event.finger)
  /\ event.signal = "enumerated" => store = m_fingers
WrongEvents == {event \in Results : ~RightEvent(event)}

NoResult ==
  /\ ~Changing
  /\ ~Contains(callbacks, LastReports)
  /\ ~Holding
  /\ ~Contains(events, Results)

Account ==
  /\ RightSensor
  /\ ~Contains(callbacks, WrongReports)
  /\ RightBinder
  /\ ~Contains(events, WrongEvents)
  /\ NoResult => Settled

Accounted == OneResult /\ LastIsLast /\ Account

StoreInv == outOfStep \/ Accounted

-----------------------------------------------------------------------------
(* The places of a result.                                                 *)

LEMMA SetsStay ==
  /\ LastReports' = LastReports /\ Results' = Results
  /\ Enumerates' = Enumerates
  /\ \A finger : EnumeratesOf(finger)' = EnumeratesOf(finger)
  /\ WrongReports \in SUBSET LastReports /\ WrongReports' \in SUBSET LastReports
  /\ WrongEvents \in SUBSET Results /\ WrongEvents' \in SUBSET Results
  /\ \A finger : EnumeratesOf(finger) \in SUBSET Enumerates
  /\ LastReports \in SUBSET Hal!Callbacks /\ Results \in SUBSET Adapter!Events
BY DEF LastReports, Results, Enumerates, EnumeratesOf, WrongReports, WrongEvents

(* There is no result yet, or no more.                                     *)
LEMMA AtSensor ==
  ASSUME ~Contains(callbacks', LastReports), ~Contains(events', Results), ~Holding',
         Changing' => binder'.at # "forget",
         ~Changing' => Settled',
         RightSensor'
  PROVE  Accounted'
<1>1. ~Contains(callbacks', WrongReports') /\ ~Contains(events', WrongEvents')
  BY SetsStay DEF Contains
<1>2. OneResult'
  BY SetsStay DEF OneResult, AtMostOne, Contains
<1>3. LastIsLast'
  BY SetsStay DEF LastIsLast, ComesBefore, Contains
<1>4. Account'
  BY <1>1, SetsStay DEF Account, NoResult, RightBinder, Holding
<1> QED
  BY <1>2, <1>3, <1>4 DEF Accounted

LEMMA InCallbacks ==
  ASSUME callbacks \in Seq(Hal!Callbacks), ~Contains(callbacks, LastReports),
         NEW callback \in LastReports, Hal!Send(callback), callback \notin WrongReports',
         ~Contains(events', Results), ~Holding', binder'.at # "forget", ~Changing'
  PROVE  Accounted'
<1>1. callbacks' = Append(callbacks, callback) /\ callback \in Hal!Callbacks
  BY SetsStay DEF Hal!Send
<1>2. AtMostOne(callbacks', LastReports) /\ ~Contains(callbacks', WrongReports')
  BY <1>1, SetsStay, AddsOne
<1>3. Contains(callbacks', LastReports)
  BY <1>1, FrontOrLast
<1>4. ComesBefore(callbacks', Enumerates, LastReports)
  <2>1. ComesBefore(callbacks, Enumerates, LastReports)
    BY DEF ComesBefore, Contains
  <2> QED
    BY <1>1, <2>1, AppendComesBefore
<1>5. ~Contains(events', WrongEvents')
  BY SetsStay DEF Contains
<1>6. OneResult'
  BY <1>2, SetsStay DEF OneResult, AtMostOne, Contains
<1>7. LastIsLast'
  BY <1>4, SetsStay DEF LastIsLast
<1>8. Account'
  BY <1>2, <1>3, <1>5, SetsStay
  DEF Account, NoResult, RightBinder, RightSensor, Holding, Changing
<1> QED
  BY <1>6, <1>7, <1>8 DEF Accounted

LEMMA InBinder ==
  ASSUME Holding', RightBinder', ~Changing', ~Contains(callbacks', LastReports),
         ~Contains(callbacks', Enumerates), ~Contains(events', Results)
  PROVE  Accounted'
<1>1. ~Contains(callbacks', WrongReports') /\ ~Contains(events', WrongEvents')
  BY SetsStay DEF Contains
<1>2. OneResult'
  BY SetsStay DEF OneResult, AtMostOne, Contains
<1>3. LastIsLast'
  BY SetsStay DEF LastIsLast, ComesBefore, Contains
<1>4. Account'
  BY <1>1 DEF Account, NoResult, RightSensor, Changing
<1> QED
  BY <1>2, <1>3, <1>4 DEF Accounted

LEMMA InEvents ==
  ASSUME events \in Seq(Adapter!Events), ~Contains(events, Results),
         NEW event \in Results, Adapter!Emit(event), event \notin WrongEvents',
         ~Changing', ~Contains(callbacks', LastReports),
         ~Contains(callbacks', Enumerates), ~Holding'
  PROVE  Accounted'
<1>1. events' = Append(events, event) /\ event \in Adapter!Events
  BY SetsStay DEF Adapter!Emit
<1>2. AtMostOne(events', Results) /\ ~Contains(events', WrongEvents')
  BY <1>1, SetsStay, AddsOne
<1>3. Contains(events', Results)
  BY <1>1, FrontOrLast
<1>4. ~Contains(callbacks', WrongReports')
  BY SetsStay DEF Contains
<1>5. OneResult'
  BY <1>2, SetsStay DEF OneResult, AtMostOne, Contains
<1>6. LastIsLast'
  BY SetsStay DEF LastIsLast, ComesBefore, Contains
<1>7. Account'
  BY <1>2, <1>3, <1>4, SetsStay
  DEF Account, NoResult, RightBinder, RightSensor, Holding, Changing
<1> QED
  BY <1>5, <1>6, <1>7 DEF Accounted

(* Steps that neither make, move nor use a result.                         *)
LEMMA AccountKept ==
  ASSUME callbacks \in Seq(Hal!Callbacks), events \in Seq(Adapter!Events), Accounted,
         UNCHANGED <<m_fingerMap, store, loaded, m_fingers, m_removingFinger>>,
         Retains(callbacks, callbacks', Hal!Callbacks, LastReports \union Enumerates),
         Retains(events, events', Adapter!Events, Results),
         \/ binder' = binder
         \/ ~Holding /\ ~Holding' /\ binder'.at # "forget",
         \/ sensor' = sensor
         \/ sensor.op = "enroll" /\ sensor'.op = "enroll"
         \/ ~Changing' /\ (Changing => Settled)
  PROVE  Accounted'
<1>1. \A part \in SUBSET (LastReports \union Enumerates) :
        /\ Contains(callbacks', part) <=> Contains(callbacks, part)
        /\ AtMostOne(callbacks, part) => AtMostOne(callbacks', part)
        /\ \A others \in SUBSET (LastReports \union Enumerates) :
             ComesBefore(callbacks, part, others) => ComesBefore(callbacks', part, others)
  BY RetainsAll
<1>2. \A part \in SUBSET Results :
        /\ Contains(events', part) <=> Contains(events, part)
        /\ AtMostOne(events, part) => AtMostOne(events', part)
  BY RetainsAll
<1>3. /\ Contains(callbacks', LastReports) <=> Contains(callbacks, LastReports)
      /\ Contains(callbacks', Enumerates) <=> Contains(callbacks, Enumerates)
      /\ AtMostOne(callbacks, LastReports) => AtMostOne(callbacks', LastReports)
      /\ ComesBefore(callbacks, Enumerates, LastReports)
           => ComesBefore(callbacks', Enumerates, LastReports)
      /\ Contains(events', Results) <=> Contains(events, Results)
      /\ AtMostOne(events, Results) => AtMostOne(events', Results)
  BY <1>1, <1>2
<1>4. Foretold' = Foretold
  <2>1. \A finger : Contains(callbacks', EnumeratesOf(finger)) <=> Contains(callbacks, EnumeratesOf(finger))
    BY <1>1, SetsStay
  <2> QED
    BY <2>1, SetsStay DEF Foretold
<1>5. /\ Listed' = Listed /\ (Settled' <=> Settled)
      /\ \A finger : /\ HasAdded(finger)' <=> HasAdded(finger)
                     /\ HasRemoved(finger)' <=> HasRemoved(finger)
                     /\ Removes(finger)' <=> Removes(finger)
  BY DEF Listed, Keys, Settled, HasAdded, HasRemoved, Removes
<1>6. WrongReports' = WrongReports /\ WrongEvents' = WrongEvents
  BY <1>4, <1>5, SetsStay DEF WrongReports, WrongEvents, RightReport, RightEvent
<1>7. /\ Contains(callbacks', WrongReports') <=> Contains(callbacks, WrongReports)
      /\ Contains(events', WrongEvents') <=> Contains(events, WrongEvents)
  BY <1>1, <1>2, <1>6, SetsStay
<1>8. Changing' => Changing
  BY DEF Changing
<1>9. /\ Holding' <=> Holding
      /\ Changing' \/ Contains(callbacks', LastReports) => binder'.at # "forget"
  BY <1>3, <1>8 DEF Accounted, OneResult, Holding
<1>10. OneResult'
  BY <1>3, <1>8, <1>9, SetsStay DEF Accounted, OneResult
<1>11. LastIsLast'
  BY <1>3, <1>9, SetsStay DEF Accounted, LastIsLast
<1>12. RightSensor'
  BY <1>4, <1>5 DEF Accounted, Account, RightSensor, Changing
<1>13. RightBinder'
  BY <1>5, <1>9 DEF Accounted, Account, RightBinder, Holding
<1>14. NoResult' => Settled'
  BY <1>3, <1>5, <1>9, SetsStay DEF Accounted, Account, NoResult, Changing
<1> QED
  BY <1>7, <1>10, <1>11, <1>12, <1>13, <1>14 DEF Accounted, Account

LEMMA StoreKept ==
  ASSUME SystemTypeOK, StoreInv,
         UNCHANGED <<m_fingerMap, store, loaded, m_fingers, m_removingFinger, outOfStep>>,
         Retains(callbacks, callbacks', Hal!Callbacks, LastReports \union Enumerates),
         Retains(events, events', Adapter!Events, Results),
         \/ binder' = binder
         \/ ~Holding /\ ~Holding' /\ binder'.at # "forget",
         \/ sensor' = sensor
         \/ sensor.op = "enroll" /\ sensor'.op = "enroll"
         \/ ~Changing' /\ (Accounted /\ Changing => Settled)
  PROVE  StoreInv'
<1>1. callbacks \in Seq(Hal!Callbacks) /\ events \in Seq(Adapter!Events)
  BY DEF SystemTypeOK, Hal!TypeOK, Adapter!TypeOK
<1> QED
  BY <1>1, AccountKept DEF StoreInv

-----------------------------------------------------------------------------
(* Steps of the main thread.                                               *)

(* The first step of an operation: only when all is settled it is in step. *)
LEMMA StartedStore ==
  ASSUME SystemTypeOK, StoreInv, NEW name, Operation(name),
         UNCHANGED <<callbacks, binder, events, m_fingerMap, store>>,
         \/ sensor' = sensor
         \/ sensor'.op \in {"enroll", "authenticate"}
         \/ /\ sensor'.op = "remove" /\ m_removingFinger' = NoFinger
            /\ sensor'.left = store /\ sensor'.all = store
         \/ /\ sensor'.op = "remove" /\ m_removingFinger' # NoFinger
            /\ sensor'.left = {m_removingFinger'} /\ sensor'.all = {m_removingFinger'}
  PROVE  StoreInv'
<1>1. CASE outOfStep \/ ~Quiet
  BY <1>1 DEF Operation, GetsOutOfStep, StoreInv
<1>2. CASE ~outOfStep /\ Quiet
  <2>1. NoResult
    BY <1>2 DEF Quiet, NoResult, Changing, Holding, Contains, Hal!Idle, Adapter!Free
  <2>2. Settled
    BY <1>2, <2>1 DEF StoreInv, Accounted, Account
  <2>3. UNCHANGED loaded
    BY DEF Operation
  <2>4. Listed' = Listed /\ Settled'
    BY <2>2, <2>3 DEF Listed, Keys, Settled
  <2>5. RightSensor'
    BY <1>2, <2>2, <2>3, <2>4 DEF RightSensor, Settled, Quiet, Hal!Idle
  <2>6. /\ ~Contains(callbacks', LastReports) /\ ~Contains(events', Results)
        /\ ~Holding' /\ binder'.at # "forget"
    BY <1>2, <2>1 DEF NoResult, Holding, Quiet, Adapter!Free
  <2> QED
    BY <2>4, <2>5, <2>6, AtSensor DEF StoreInv
<1> QED
  BY <1>1, <1>2

LEMMA CancelledStore ==
  ASSUME SystemTypeOK, Hal!cancel
  PROVE  /\ Retains(callbacks, callbacks', Hal!Callbacks, LastReports \union Enumerates)
         /\ UNCHANGED store
         /\ sensor' = sensor \/ (~Changing' /\ (Accounted /\ Changing => Settled))
<1>1. Hal!OnError("ERROR") \in Hal!Callbacks \ (LastReports \union Enumerates)
  BY DEF Hal!OnError, Hal!Callbacks, LastReports, Enumerates
<1> QED
  BY <1>1 DEF Hal!cancel, Hal!Send, Hal!Idle, Retains, Changing, Accounted, Account,
              RightSensor

LEMMA CallStore ==
  ASSUME SystemTypeOK, StoreInv, Call
  PROVE  StoreInv'
<1>1. ASSUME NEW ret, Refused(ret), UNCHANGED <<volatile, database>>
      PROVE  StoreInv'
  BY <1>1, StoreKept DEF Refused, volatile, adapter, hal, history, Retains
<1>2. ASSUME NEW caller, NEW finger, NEW ret, CallEnroll(caller, finger, ret)
      PROVE  StoreInv'
  <2>1. CASE EnrollReply(caller, finger) = "FPREPLY_STARTED"
    <3>1. /\ UNCHANGED <<m_fingerMap, binder, events, callbacks, store>>
          /\ Operation(finger)
          /\ sensor' = sensor \/ sensor'.op = "enroll"
      BY <1>2, <2>1 DEF CallEnroll, Enroll, Adapter!enroll, Hal!enroll, Hal!Request,
                        Hal!Enrolling
    <3> QED
      BY <3>1, StartedStore
  <2>2. CASE EnrollReply(caller, finger) # "FPREPLY_STARTED"
    BY <1>1, <1>2, <2>2 DEF CallEnroll, Enroll, Refuse
  <2> QED
    BY <2>1, <2>2
<1>3. ASSUME NEW caller, NEW ret, CallIdentify(caller, ret)
      PROVE  StoreInv'
  <2>1. CASE IdentifyReply(caller) = "FPREPLY_STARTED"
    <3>1. /\ UNCHANGED <<m_fingerMap, binder, events, callbacks, store>>
          /\ Operation(asked)
          /\ sensor' = sensor \/ sensor'.op = "authenticate"
      BY <1>3, <2>1 DEF CallIdentify, Identify, Hal!authenticate, Hal!Request,
                        Hal!Authenticating, adapter
    <3> QED
      BY <3>1, StartedStore
  <2>2. CASE IdentifyReply(caller) # "FPREPLY_STARTED"
    BY <1>1, <1>3, <2>2 DEF CallIdentify, Identify, Refuse
  <2> QED
    BY <2>1, <2>2
<1>4. ASSUME NEW caller, NEW ret, CallVerify(caller, ret)
      PROVE  StoreInv'
  <2>1. CASE VerifyReply(caller) = "FPREPLY_STARTED"
    <3>1. /\ UNCHANGED <<m_fingerMap, binder, events, callbacks, store>>
          /\ Operation(Absent)
          /\ sensor' = sensor \/ sensor'.op = "enroll"
      BY <1>4, <2>1 DEF CallVerify, Verify, Adapter!enroll, Hal!enroll, Hal!Request,
                        Hal!Enrolling
    <3> QED
      BY <3>1, StartedStore
  <2>2. CASE VerifyReply(caller) # "FPREPLY_STARTED"
    BY <1>1, <1>4, <2>2 DEF CallVerify, Verify, Refuse
  <2> QED
    BY <2>1, <2>2
<1>5. ASSUME NEW caller, NEW ret, CallClear(caller, ret)
      PROVE  StoreInv'
  <2>1. CASE ClearAccepted(caller)
    <3>1. /\ UNCHANGED <<m_fingerMap, binder, events, callbacks, store>>
          /\ Operation(asked) /\ m_removingFinger' = NoFinger
          /\ sensor' = sensor \/ sensor' = Hal!Removing(store, store)
      BY <1>5, <2>1 DEF CallClear, Clear, Adapter!clear, Adapter!remove,
                        Adapter!NoFinger, NoFinger, Hal!remove, Hal!NoFinger, Hal!Request
    <3> QED
      BY <3>1, StartedStore DEF Hal!Removing
  <2>2. CASE ~ClearAccepted(caller)
    BY <1>1, <1>5, <2>2 DEF CallClear, Clear, Refuse
  <2> QED
    BY <2>1, <2>2
<1>6. ASSUME NEW caller, NEW finger, NEW ret, CallRemove(caller, finger, ret)
      PROVE  StoreInv'
  <2>1. CASE RemoveReply(caller, finger) = "FPREPLY_STARTED"
    <3> DEFINE key == KeyOf(m_fingerMap, finger)
    <3>1. key # NoFinger
      BY <2>1 DEF RemoveReply
    <3>2. /\ UNCHANGED <<m_fingerMap, binder, events, callbacks, store>>
          /\ Operation(asked) /\ m_removingFinger' = key
          /\ sensor' = sensor \/ sensor' = Hal!Removing({key}, {key})
      BY <1>6, <2>1, <3>1 DEF CallRemove, Remove, Adapter!remove, NoFinger,
                              Hal!remove, Hal!NoFinger, Hal!Request
    <3> QED
      BY <3>1, <3>2, StartedStore DEF Hal!Removing
  <2>2. CASE RemoveReply(caller, finger) # "FPREPLY_STARTED"
    BY <1>1, <1>6, <2>2 DEF CallRemove, Remove, Refuse
  <2> QED
    BY <2>1, <2>2
<1>7. ASSUME NEW caller, CallAbort(caller)
      PROVE  StoreInv'
  <2>1. /\ UNCHANGED <<m_fingerMap, loaded, m_fingers, m_removingFinger, outOfStep>>
        /\ UNCHANGED <<events, binder>>
        /\ Hal!cancel \/ UNCHANGED hal
    BY <1>7 DEF CallAbort, Abort, Refuse, volatile, adapter, history
  <2>2. CASE Hal!cancel
    BY <2>1, <2>2, CancelledStore, StoreKept DEF Retains
  <2>3. CASE UNCHANGED hal
    BY <2>1, <2>3, StoreKept DEF hal, Retains
  <2> QED
    BY <2>1, <2>2, <2>3
<1> QED
  BY <1>2, <1>3, <1>4, <1>5, <1>6, <1>7, Zenon DEF Call

LEMMA DispatchStore ==
  ASSUME SystemTypeOK, StoreInv, Dispatch
  PROVE  StoreInv'
<1> DEFINE event == Head(events)
<1> USE DEF Adapter!NoFinger, NoFinger
<1>1. /\ events \in Seq(Adapter!Events) /\ events # <<>> /\ events' = Tail(events)
      /\ event \in Adapter!Events
      /\ UNCHANGED <<m_fingers, m_removingFinger, binder>>
      /\ m_fingerMap \in FingerMaps /\ m_addingFinger \in Names
      /\ m_fingers \in SUBSET Fingers
  BY DEF SystemTypeOK, Adapter!TypeOK, TypeOK, Dispatch, Adapter!TakeEvent
<1>2. event \notin Results => Retains(events, events', Adapter!Events, Results)
  BY <1>1 DEF Retains
<1>3. CASE OnEnrollProgress(event)
  <2>1. /\ UNCHANGED <<m_fingerMap, loaded, outOfStep>>
        /\ event \notin Results
        /\ Hal!cancel \/ UNCHANGED hal
    BY <1>3 DEF OnEnrollProgress, slot_enrollProgress, history, Results
  <2>2. CASE Hal!cancel
    BY <1>1, <1>2, <2>1, <2>2, CancelledStore, StoreKept
  <2>3. CASE UNCHANGED hal
    BY <1>1, <1>2, <2>1, <2>3, StoreKept DEF hal, Retains
  <2> QED
    BY <2>1, <2>2, <2>3
<1>4. CASE OnFailed(event) \/ OnAuthenticated(event) \/ OnAcquired(event)
  <2>1. /\ UNCHANGED <<m_fingerMap, loaded, outOfStep, callbacks, sensor, store>>
        /\ event \notin Results
    BY <1>4 DEF OnFailed, OnAuthenticated, OnAcquired, slot_failed, Results,
                slot_authenticated, slot_acquired, hal, history
  <2> QED
    BY <1>1, <1>2, <2>1, StoreKept DEF Retains
<1>5. ASSUME event \in Results, UNCHANGED <<sensor, callbacks, store, outOfStep>>,
             Accounted /\ RightEvent(event) => Settled'
      PROVE  StoreInv'
  <2> SUFFICES ASSUME Accounted PROVE Accounted'
    BY <1>5 DEF StoreInv
  <2>1. Contains(events, Results) /\ ~Contains(events', Results)
    BY <1>1, <1>5, TakesOne DEF Accounted, OneResult
  <2>2. ~Changing /\ ~Contains(callbacks, LastReports) /\ ~Holding
    BY <2>1 DEF Accounted, OneResult
  <2>3. event \notin WrongEvents
    BY <1>1, HeadOrTail DEF Accounted, Account
  <2>4. Settled'
    BY <1>5, <2>3 DEF WrongEvents
  <2>5. ~Changing' /\ ~Contains(callbacks', LastReports) /\ ~Holding' /\ RightSensor'
    BY <1>1, <1>5, <2>2 DEF Changing, Holding, RightSensor
  <2> QED
    BY <2>1, <2>4, <2>5, AtSensor
<1>6. CASE OnSucceeded(event)
  <2> DEFINE finger == event.finger
  <2>1. /\ event \in Results /\ event.signal = "succeeded" /\ finger \in Fingers
        /\ UNCHANGED <<sensor, callbacks, store, outOfStep, loaded>>
        /\ m_fingerMap' = [m_fingerMap EXCEPT ![finger] = m_addingFinger]
    BY <1>1, <1>6 DEF OnSucceeded, slot_succeeded, WithFinger, hal, history,
                      Results, Adapter!Events
  <2>2. Listed' = Listed \union {finger}
    BY <1>1, <2>1, ConstantsAssumption DEF Listed, Keys, FingerMaps, FingerIds
  <2>3. RightEvent(event) => Settled'
    BY <2>1, <2>2 DEF RightEvent, HasAdded, Settled
  <2> QED
    BY <1>5, <2>1, <2>3
<1>7. CASE OnRemoved(event)
  <2> DEFINE finger == event.finger
  <2>1. /\ event \in Results /\ event.signal = "removed" /\ finger \in FingerIds
        /\ UNCHANGED <<sensor, callbacks, store, outOfStep, loaded>>
        /\ m_fingerMap' = IF finger = 0 THEN EmptyMap
                           ELSE [m_fingerMap EXCEPT ![finger] = Absent]
    BY <1>1, <1>7 DEF OnRemoved, slot_removed, hal, history, Results,
                      Adapter!Events, FingerIds
  <2>2. Listed' = IF finger = 0 THEN {} ELSE Listed \ {finger}
    BY <1>1, <2>1 DEF Listed, Keys, FingerMaps, EmptyMap
  <2>3. RightEvent(event) => Settled'
    BY <2>1, <2>2 DEF RightEvent, HasRemoved, Settled
  <2> QED
    BY <1>5, <2>1, <2>3
<1>8. CASE OnEnumerated(event)
  <2>1. /\ event \in Results /\ event.signal = "enumerated"
        /\ UNCHANGED <<sensor, callbacks, store, outOfStep>>
        /\ m_fingerMap' = LoadedMap(m_fingers)
    BY <1>1, <1>8 DEF OnEnumerated, slot_enumerated, hal, Results
  <2>2. Listed' = m_fingers
    BY <1>1, <2>1, LoadedMapKeys DEF Listed, Keys, SystemTypeOK
  <2>3. RightEvent(event) => Settled'
    BY <2>1, <2>2 DEF RightEvent, Settled
  <2> QED
    BY <1>5, <2>1, <2>3
<1> QED
  BY <1>3, <1>4, <1>6, <1>7, <1>8 DEF Dispatch

-----------------------------------------------------------------------------
(* Steps of the binder thread.                                             *)

(* What a delivered last report says, and what is left without it.         *)
LEMMA HeadIsResult ==
  ASSUME SystemTypeOK, Accounted, callbacks # <<>>, callbacks' = Tail(callbacks),
         Head(callbacks) \in LastReports
  PROVE  /\ RightReport(Head(callbacks))
         /\ ~Contains(callbacks', LastReports) /\ ~Contains(callbacks', Enumerates)
         /\ ~Contains(events, Results)
         /\ ~Changing
<1>1. callbacks \in Seq(Hal!Callbacks)
  BY DEF SystemTypeOK, Hal!TypeOK
<1>2. Contains(callbacks, LastReports) /\ ~Contains(callbacks', LastReports)
  BY <1>1, TakesOne DEF Accounted, OneResult
<1>3. ~Contains(callbacks', Enumerates)
  BY <1>1, TailComesBefore DEF Accounted, LastIsLast
<1>4. Head(callbacks) \notin WrongReports
  BY <1>1, HeadOrTail DEF Accounted, Account
<1> QED
  BY <1>2, <1>3, <1>4 DEF Accounted, OneResult, WrongReports

LEMMA OtherEventRetained ==
  ASSUME NEW event \in Adapter!Events, Adapter!Emit(event), event \notin Results
  PROVE  Retains(events, events', Adapter!Events, Results)
BY DEF Adapter!Emit, Retains

(* A template of the enumeration: it is told before and after.             *)
LEMMA EnumerateStore ==
  ASSUME SystemTypeOK, Accounted, callbacks # <<>>, callbacks' = Tail(callbacks),
         Head(callbacks) \in Enumerates,
         Adapter!enumerateCallback(Head(callbacks).finger, Head(callbacks).remaining),
         UNCHANGED <<sensor, store, m_fingerMap, loaded>>
  PROVE  Accounted'
<1> DEFINE callback == Head(callbacks)
           finger == callback.finger
<1> USE DEF Adapter!NoFinger, NoFinger
<1>1. /\ callbacks \in Seq(Hal!Callbacks) /\ events \in Seq(Adapter!Events)
      /\ finger \in Fingers \union {0}
      /\ m_fingers \subseteq Fingers
      /\ binder = Adapter!Free /\ UNCHANGED binder /\ UNCHANGED m_removingFinger
      /\ m_fingers' = m_fingers \union ({finger} \ {0})
      /\ callback.on = "Enumerate" /\ callback \in Hal!Callbacks
  BY DEF SystemTypeOK, Hal!TypeOK, Adapter!TypeOK, Enumerates, Hal!Callbacks,
         Hal!FingerIds, Hal!NoFinger, Adapter!enumerateCallback, Adapter!Ready
<1>2. \A set : Contains(callbacks, set) <=> callback \in set \/ Contains(callbacks', set)
  BY <1>1, HeadOrTail
<1>3. Foretold' = Foretold
  <2>1. \A g \in Fingers : callback \in EnumeratesOf(g) <=> g = finger
    BY DEF EnumeratesOf
  <2>2. finger \in Fingers => finger # 0
    BY ConstantsAssumption
  <2> QED
    BY <1>1, <1>2, <2>1, <2>2, SetsStay DEF Foretold
<1>4. /\ ~Holding' /\ binder'.at # "forget" /\ ~Holding
  BY <1>1 DEF Adapter!Free, Holding
<1>5. ~Contains(events, Results)
  BY <1>2 DEF Accounted, LastIsLast
<1>6. CASE callback.remaining = 0
  <2>1. callback \in LastReports
    BY <1>1, <1>6 DEF LastReports
  <2>2. /\ store = Foretold
        /\ ~Contains(callbacks', LastReports) /\ ~Contains(callbacks', Enumerates)
        /\ ~Changing'
    BY <1>1, <2>1, HeadIsResult DEF RightReport, Changing
  <2>3. \A g \in Fingers : ~Contains(callbacks', EnumeratesOf(g)')
    BY <2>2, SetsStay DEF Contains
  <2>4. store' = m_fingers'
    BY <1>3, <2>2, <2>3 DEF Foretold
  <2>5. Adapter!Enumerated \in Results /\ Adapter!Emit(Adapter!Enumerated)
    BY <1>6 DEF Adapter!Enumerated, Adapter!Events, Results, Adapter!enumerateCallback
  <2>6. Adapter!Enumerated \notin WrongEvents'
    BY <2>4 DEF Adapter!Enumerated, WrongEvents, RightEvent
  <2> QED
    BY <1>1, <1>4, <1>5, <2>2, <2>5, <2>6, InEvents
<1>7. CASE callback.remaining # 0
  <2>1. UNCHANGED events /\ callback \notin LastReports
    BY <1>7 DEF Adapter!enumerateCallback, LastReports
  <2>2. Contains(callbacks', LastReports) <=> Contains(callbacks, LastReports)
    BY <1>2, <2>1
  <2>3. /\ Listed' = Listed /\ (Settled' <=> Settled)
        /\ \A g : /\ HasAdded(g)' <=> HasAdded(g)
                  /\ Removes(g)' <=> Removes(g)
    BY <1>1 DEF Listed, Keys, Settled, HasAdded, HasRemoved, Removes
  <2>4. WrongReports' = WrongReports
    BY <1>3, <2>3, SetsStay DEF WrongReports, RightReport
  <2>5. ~Contains(callbacks', WrongReports') /\ ~Contains(events', WrongEvents')
    BY <1>2, <1>5, <2>1, <2>4, SetsStay DEF Accounted, Account, Contains
  <2>6. AtMostOne(callbacks', LastReports)
    <3>1. Thins(callbacks, callbacks', Hal!Callbacks, LastReports)
      BY DEF Thins
    <3> QED
      BY <1>1, <3>1, ThinsKeeps DEF Accounted, OneResult
  <2>7. OneResult'
    BY <1>4, <1>5, <2>1, <2>2, <2>6, SetsStay
    DEF Accounted, OneResult, Changing, AtMostOne
  <2>8. LastIsLast'
    BY <1>1, <1>4, <1>5, <2>1, TailComesBefore, SetsStay DEF Accounted, LastIsLast
  <2>9. RightSensor'
    BY <1>1, <1>3, <2>3 DEF Accounted, Account, RightSensor
  <2>10. NoResult' => Settled'
    BY <1>4, <1>5, <2>2, <2>3, SetsStay DEF Accounted, Account, NoResult, Changing
  <2> QED
    BY <1>4, <2>5, <2>7, <2>8, <2>9, <2>10
    DEF Accounted, Account, RightBinder, Holding
<1> QED
  BY <1>6, <1>7

LEMMA DeliverStore ==
  ASSUME SystemTypeOK, StoreInv, Deliver, Elsewhere
  PROVE  StoreInv'
<1> DEFINE callback == Head(callbacks)
<1> USE DEF Adapter!NoFinger, NoFinger
<1>1. /\ callbacks \in Seq(Hal!Callbacks) /\ callbacks # <<>>
      /\ callbacks' = Tail(callbacks)
      /\ callback \in Hal!Callbacks
      /\ UNCHANGED <<m_fingerMap, loaded, outOfStep, store, sensor, m_removingFinger>>
  BY DEF SystemTypeOK, Hal!TypeOK, Deliver, Elsewhere, volatile, history,
         Adapter!enrollCallback, Adapter!removeCallback, Adapter!enumerateCallback,
         Adapter!authenticated_cb, Adapter!acquired_cb, Adapter!error_cb,
         Adapter!UnchangedShared
<1>2. ASSUME callback \notin LastReports \union Enumerates, UNCHANGED m_fingers,
             Retains(events, events', Adapter!Events, Results),
             ~Holding, ~Holding', binder'.at # "forget"
      PROVE  StoreInv'
  BY <1>1, <1>2, StoreKept DEF Retains
<1>3. ASSUME callback \in LastReports, UNCHANGED m_fingers,
             ~Contains(events, Results) => ~Contains(events', Results),
             Holding', Accounted /\ RightReport(callback) => RightBinder'
      PROVE  StoreInv'
  <2> SUFFICES ASSUME Accounted PROVE Accounted'
    BY <1>1 DEF StoreInv
  <2>1. /\ RightReport(callback)
        /\ ~Contains(callbacks', LastReports) /\ ~Contains(callbacks', Enumerates)
        /\ ~Contains(events', Results)
        /\ ~Changing'
    BY <1>1, <1>3, HeadIsResult DEF Changing
  <2> QED
    BY <1>3, <2>1, InBinder
<1>4. /\ Adapter!Ready => ~Holding /\ binder.at # "forget"
      /\ UNCHANGED events => Retains(events, events', Adapter!Events, Results)
      /\ UNCHANGED binder => (Holding' <=> Holding)
  BY DEF Adapter!Ready, Adapter!Free, Holding, Retains
<1>5. CASE /\ callback.on = "EnrollResult"
           /\ Adapter!enrollCallback(callback.finger, callback.remaining)
  <2>1. CASE callback.remaining > 0 /\ UNCHANGED events
    <3>1. callback \notin LastReports \union Enumerates
      BY <1>5, <2>1 DEF LastReports, Enumerates
    <3>2. UNCHANGED m_fingers /\ ~Holding' /\ binder'.at # "forget"
      BY <1>5, <2>1 DEF Adapter!enrollCallback, Holding
    <3> QED
      BY <1>2, <1>4, <1>5, <2>1, <3>1, <3>2 DEF Adapter!enrollCallback
  <2>2. CASE callback.remaining = 0 /\ Adapter!Emit(Adapter!EnrollProgress(100))
    <3>1. /\ Adapter!EnrollProgress(100) \in Adapter!Events
          /\ Adapter!EnrollProgress(100) \notin Results
      BY DEF Adapter!EnrollProgress, Adapter!Events, Adapter!ProgressValues, Results
    <3>2. ~Contains(events, Results) => ~Contains(events', Results)
      <4>1. events \in Seq(Adapter!Events) /\ events' = Append(events, Adapter!EnrollProgress(100))
        BY <2>2 DEF SystemTypeOK, Adapter!TypeOK, Adapter!Emit
      <4> QED
        BY <3>1, <4>1, FrontOrLast
    <3>3. /\ binder' = [at |-> "postEnroll", finger |-> callback.finger]
          /\ UNCHANGED m_fingers
      BY <1>5, <2>2 DEF Adapter!enrollCallback
    <3>4. callback \in LastReports
      BY <1>1, <1>5, <2>2 DEF LastReports
    <3>5. Holding' /\ (RightReport(callback) => RightBinder')
      BY <1>1, <1>5, <3>3 DEF Holding, RightReport, RightBinder, HasAdded, Listed, Keys
    <3> QED
      BY <1>3, <3>2, <3>3, <3>4, <3>5
  <2> QED
    BY <1>5, <2>1, <2>2 DEF Adapter!enrollCallback
<1>6. CASE /\ callback.on = "Removed"
           /\ Adapter!removeCallback(callback.finger, callback.remaining)
  <2>1. UNCHANGED <<events, m_fingers>> /\ Adapter!Ready
    BY <1>6 DEF Adapter!removeCallback, Adapter!UnchangedShared
  <2>2. CASE callback.remaining = 0
    <3>1. callback \in LastReports
      BY <1>1, <1>6, <2>2 DEF LastReports
    <3>2. CASE m_removingFinger \in {callback.finger, 0}
      <4>1. binder' = [at |-> "removed", finger |-> callback.finger]
        BY <1>6, <2>2, <3>2 DEF Adapter!removeCallback
      <4>2. Holding' /\ (RightReport(callback) => RightBinder')
        BY <1>1, <1>6, <4>1
        DEF Holding, RightReport, RightBinder, Removes, HasRemoved, Listed, Keys
      <4> QED
        BY <1>3, <2>1, <3>1, <4>2
    <3>3. CASE m_removingFinger \notin {callback.finger, 0}
      <4>1. ~RightReport(callback)
        BY <1>6, <3>3 DEF RightReport, Removes
      <4>2. ~Accounted
        BY <1>1, <3>1, <4>1, HeadIsResult
      <4> QED
        BY <1>1, <4>2 DEF StoreInv
    <3> QED
      BY <3>2, <3>3
  <2>3. CASE callback.remaining # 0
    <3>1. callback \notin LastReports \union Enumerates
      BY <1>6, <2>3 DEF LastReports, Enumerates
    <3>2. ~Holding' /\ binder'.at # "forget"
      BY <1>6, <2>3 DEF Adapter!removeCallback, Adapter!Free, Holding
    <3> QED
      BY <1>2, <1>4, <2>1, <3>1, <3>2
  <2> QED
    BY <2>2, <2>3
<1>7. CASE /\ callback.on = "Enumerate"
           /\ Adapter!enumerateCallback(callback.finger, callback.remaining)
  <2>1. callback \in Enumerates
    BY <1>1, <1>7 DEF Enumerates
  <2> QED
    BY <1>1, <1>7, <2>1, EnumerateStore DEF StoreInv
<1>8. CASE callback.on = "Authenticated" /\ Adapter!authenticated_cb(callback.finger)
  <2> DEFINE event == IF callback.finger # 0
                      THEN Adapter!Authenticated(callback.finger)
                      ELSE Adapter!Failed("FINGER_NOT_RECOGNIZED")
  <2>1. callback.finger \in Fingers \union {0}
    BY <1>1, <1>8 DEF Hal!Callbacks, Hal!FingerIds, Hal!NoFinger
  <2>2. event \in Adapter!Events /\ Adapter!Emit(event) /\ event \notin Results
    BY <1>8, <2>1 DEF Adapter!Authenticated, Adapter!Failed, Adapter!Events,
                      Adapter!authenticated_cb, Results
  <2>3. Retains(events, events', Adapter!Events, Results)
    BY <2>2, OtherEventRetained
  <2>4. callback \notin LastReports \union Enumerates
    BY <1>8 DEF LastReports, Enumerates
  <2>5. Adapter!Ready /\ UNCHANGED <<binder, m_fingers>>
    BY <1>8 DEF Adapter!authenticated_cb, Adapter!UnchangedShared
  <2> QED
    BY <1>2, <1>4, <2>3, <2>4, <2>5
<1>9. CASE callback.on = "Acquired" /\ Adapter!acquired_cb(callback.info)
  <2>1. /\ Adapter!Acquired(callback.info) \in Adapter!Events
        /\ Adapter!Acquired(callback.info) \notin Results
    BY <1>1, <1>9, InfosAssumption DEF Hal!Callbacks, Adapter!Acquired, Adapter!Events, Results
  <2>2. Retains(events, events', Adapter!Events, Results)
    BY <1>9, <2>1, OtherEventRetained DEF Adapter!acquired_cb
  <2>3. callback \notin LastReports \union Enumerates
    BY <1>9 DEF LastReports, Enumerates
  <2>4. Adapter!Ready /\ UNCHANGED <<binder, m_fingers>>
    BY <1>9 DEF Adapter!acquired_cb, Adapter!UnchangedShared
  <2> QED
    BY <1>2, <1>4, <2>2, <2>3, <2>4
<1>10. CASE callback.on = "Error" /\ Adapter!error_cb(callback.error)
  <2>1. callback.error \in {"ERROR", "ERROR_NO_ERROR"}
    BY <1>1, <1>10, ErrorsAssumption DEF Hal!Callbacks
  <2>2. Adapter!Failed("ERROR") \in Adapter!Events /\ Adapter!Failed("ERROR") \notin Results
    BY DEF Adapter!Failed, Adapter!Events, Results
  <2>3. Retains(events, events', Adapter!Events, Results)
    BY <1>4, <1>10, <2>1, <2>2, OtherEventRetained DEF Adapter!error_cb
  <2>4. callback \notin LastReports \union Enumerates
    BY <1>10 DEF LastReports, Enumerates
  <2>5. Adapter!Ready /\ UNCHANGED <<binder, m_fingers>>
    BY <1>10 DEF Adapter!error_cb, Adapter!UnchangedShared
  <2> QED
    BY <1>2, <1>4, <2>3, <2>4, <2>5
<1> QED
  BY <1>5, <1>6, <1>7, <1>8, <1>9, <1>10 DEF Deliver

(* postEnroll and emitRemoved pass the result on to the main thread.       *)
LEMMA PassedOnStore ==
  ASSUME SystemTypeOK, Accounted, Holding, ~Holding', NEW event \in Results,
         Adapter!Emit(event), event \notin WrongEvents',
         UNCHANGED <<callbacks, sensor>>
  PROVE  Accounted'
<1>1. events \in Seq(Adapter!Events)
  BY DEF SystemTypeOK, Adapter!TypeOK
<1>2. /\ ~Changing /\ ~Contains(callbacks, LastReports)
      /\ ~Contains(events, Results) /\ ~Contains(callbacks, Enumerates)
  BY DEF Accounted, OneResult, LastIsLast
<1> QED
  BY <1>1, <1>2, InEvents DEF Changing

LEMMA BinderStore ==
  ASSUME SystemTypeOK, StoreInv, Binder
  PROVE  StoreInv'
<1> USE DEF Adapter!NoFinger, NoFinger, Adapter!UnchangedShared
<1>1. /\ Elsewhere
      /\ Adapter!TypeOK
      /\ UNCHANGED m_fingerMap
  BY DEF Binder, Elsewhere, volatile, SystemTypeOK
<1>2. CASE Deliver
  BY <1>1, <1>2, DeliverStore
<1>3. ASSUME NEW ret, PostEnroll(ret)
      PROVE  StoreInv'
  <2>1. CASE ret = "SYS_OK"
    <3> DEFINE event == Adapter!Succeeded(binder.finger)
    <3>1. /\ binder.at = "postEnroll" /\ binder' = Adapter!Free
          /\ binder.finger \in Fingers /\ Adapter!Emit(event)
          /\ UNCHANGED <<callbacks, sensor, store, m_fingers, m_removingFinger, loaded>>
      BY <1>1, <1>3, <2>1 DEF PostEnroll, Adapter!postEnroll, Adapter!TypeOK,
                              Adapter!BinderStates, Adapter!Free, hal
    <3>2. UNCHANGED outOfStep
      BY <1>3, <2>1 DEF PostEnroll, GetsOutOfStep, SystemTypeOK
    <3>3. event \in Results
      BY <3>1 DEF Adapter!Succeeded, Adapter!Events, Results
    <3>4. Accounted => event \notin WrongEvents'
      BY <1>1, <3>1 DEF Accounted, Account, RightBinder, HasAdded, Listed, Keys,
                        WrongEvents, RightEvent, Adapter!Succeeded
    <3>5. Holding /\ ~Holding'
      BY <3>1 DEF Holding, Adapter!Free
    <3> QED
      BY <3>1, <3>2, <3>3, <3>4, <3>5, PassedOnStore DEF StoreInv
  <2>2. CASE ret # "SYS_OK"
    BY <1>3, <2>2 DEF PostEnroll, GetsOutOfStep, StoreInv
  <2> QED
    BY <2>1, <2>2
<1>4. CASE Adapter!enrollProgress /\ UNCHANGED <<hal, history>>
  <2> DEFINE event == Adapter!EnrollProgress(Adapter!Percent(binder.remaining))
  <2>1. binder.remaining \in 1..Samples /\ Adapter!Emit(event)
    BY <1>1, <1>4 DEF Adapter!enrollProgress, Adapter!TypeOK, Adapter!BinderStates,
                      Adapter!Free
  <2>2. event \in Adapter!Events /\ event \notin Results
    BY <1>1, <2>1, PercentType DEF Adapter!EnrollProgress, Adapter!Events, Results
  <2>3. Retains(events, events', Adapter!Events, Results)
    BY <2>1, <2>2, OtherEventRetained
  <2>4. /\ ~Holding /\ ~Holding' /\ binder'.at # "forget"
        /\ UNCHANGED <<m_fingers, m_removingFinger>>
        /\ UNCHANGED <<callbacks, sensor, store, loaded, outOfStep>>
    BY <1>4 DEF Adapter!enrollProgress, Adapter!Free, Holding, hal, history
  <2> QED
    BY <1>1, <2>3, <2>4, StoreKept DEF Retains
<1>5. CASE Adapter!emitRemoved /\ UNCHANGED <<hal, history>>
  <2> DEFINE event == Adapter!Removed(IF m_removingFinger = 0 THEN 0 ELSE binder.finger)
  <2>1. /\ binder.at = "removed" /\ binder' = [at |-> "forget"]
        /\ binder.finger \in Fingers \union {0} /\ Adapter!Emit(event)
        /\ UNCHANGED <<callbacks, sensor, store, m_fingers, m_removingFinger>>
        /\ UNCHANGED <<loaded, outOfStep>>
    BY <1>1, <1>5 DEF Adapter!emitRemoved, Adapter!TypeOK, Adapter!BinderStates,
                      Adapter!Free, hal, history
  <2>2. event \in Results
    BY <2>1 DEF Adapter!Removed, Adapter!Events, Results
  <2>3. Accounted => event \notin WrongEvents'
    <3>1. Accounted => HasRemoved(IF m_removingFinger = 0 THEN 0 ELSE binder.finger)
      BY <2>1 DEF Accounted, Account, RightBinder, Removes
    <3> QED
      BY <1>1, <2>1, <3>1 DEF HasRemoved, Listed, Keys, WrongEvents, RightEvent,
                              Adapter!Removed
  <2>4. Holding /\ ~Holding'
    BY <2>1 DEF Holding
  <2> QED
    BY <2>1, <2>2, <2>3, <2>4, PassedOnStore DEF StoreInv
<1>6. CASE Adapter!forgetRemoving /\ UNCHANGED <<hal, history>>
  <2>1. /\ binder.at = "forget" /\ binder' = Adapter!Free
        /\ UNCHANGED <<callbacks, events, sensor, store, m_fingers, m_fingerMap>>
        /\ UNCHANGED <<loaded, outOfStep>>
    BY <1>1, <1>6 DEF Adapter!forgetRemoving, hal, history
  <2> SUFFICES ASSUME Accounted PROVE Accounted'
    BY <2>1 DEF StoreInv
  <2>2. /\ ~Changing /\ ~Contains(callbacks, LastReports)
        /\ ~Changing' /\ ~Contains(callbacks', LastReports)
        /\ ~Holding /\ ~Holding'
    BY <2>1 DEF Accounted, OneResult, Changing, Holding, Adapter!Free
  <2>3. ~Contains(callbacks', WrongReports')
    BY <2>2, SetsStay DEF Contains
  <2>4. /\ WrongEvents' = WrongEvents
        /\ Settled' <=> Settled
    BY <2>1, SetsStay DEF WrongEvents, RightEvent, HasAdded, HasRemoved, Settled,
                          Listed, Keys
  <2>5. OneResult' /\ LastIsLast'
    BY <2>1, <2>2, SetsStay DEF Accounted, OneResult, LastIsLast
  <2>6. Account'
    BY <2>1, <2>2, <2>3, <2>4, SetsStay
    DEF Accounted, Account, NoResult, RightSensor, RightBinder, Changing, Holding
  <2> QED
    BY <2>5, <2>6 DEF Accounted
<1> QED
  BY <1>2, <1>3, <1>4, <1>5, <1>6 DEF Binder

-----------------------------------------------------------------------------
(* Steps of the sensor.                                                    *)

LEMMA ReportStore ==
  ASSUME SystemTypeOK, StoreInv, Elsewhere, UNCHANGED adapter,
         UNCHANGED <<store, loaded, outOfStep>>,
         NEW callback \in Hal!Callbacks, Hal!Send(callback),
         callback \notin LastReports \union Enumerates,
         \/ sensor' = sensor
         \/ sensor.op = "enroll" /\ sensor'.op = "enroll"
         \/ ~Changing' /\ (Accounted /\ Changing => Settled)
  PROVE  StoreInv'
<1>1. Retains(callbacks, callbacks', Hal!Callbacks, LastReports \union Enumerates)
  BY DEF Hal!Send, Retains
<1>2. /\ UNCHANGED <<m_fingerMap, m_fingers, m_removingFinger>>
      /\ UNCHANGED <<binder, events>>
  BY DEF Elsewhere, volatile, adapter
<1> QED
  BY <1>1, <1>2, StoreKept DEF Retains

(* The sensor is done, and says so.                                        *)
LEMMA DoneStore ==
  ASSUME SystemTypeOK, Accounted, Elsewhere, UNCHANGED adapter, Changing,
         ~Changing', NEW callback \in LastReports, Hal!Send(callback),
         callback \notin WrongReports'
  PROVE  Accounted'
<1>1. UNCHANGED <<binder, events>> /\ callbacks \in Seq(Hal!Callbacks)
  BY DEF adapter, SystemTypeOK, Hal!TypeOK
<1>2. /\ ~Contains(callbacks, LastReports) /\ ~Contains(events, Results)
      /\ ~Holding /\ binder.at # "forget"
  BY DEF Accounted, OneResult
<1> QED
  BY <1>1, <1>2, InCallbacks, SetsStay DEF Holding

(* The sensor has told of a template, and goes on.                         *)
LEMMA GoesOnStore ==
  ASSUME SystemTypeOK, Accounted, Elsewhere, UNCHANGED adapter, Changing, Changing',
         NEW callback \in Hal!Callbacks, callback \notin LastReports,
         Hal!Send(callback), RightSensor'
  PROVE  Accounted'
<1>1. UNCHANGED <<binder, events>> /\ callbacks \in Seq(Hal!Callbacks)
  BY DEF adapter, SystemTypeOK, Hal!TypeOK
<1>2. /\ ~Contains(callbacks, LastReports) /\ ~Contains(events, Results)
      /\ ~Holding /\ binder.at # "forget"
  BY DEF Accounted, OneResult
<1>3. ~Contains(callbacks', LastReports)
  BY <1>1, <1>2, FrontOrLast DEF Hal!Send
<1> QED
  BY <1>1, <1>2, <1>3, AtSensor DEF Holding

LEMMA SampleStore ==
  ASSUME SystemTypeOK, StoreInv, Elsewhere, UNCHANGED adapter,
         NEW finger \in Fingers, Sample(finger)
  PROVE  StoreInv'
<1> USE DEF Hal!Callbacks, Hal!FingerIds, Hal!NoFinger
<1>1. /\ sensor.op = "enroll" /\ sensor.samples \in 1..Samples
      /\ UNCHANGED <<loaded, outOfStep, m_fingerMap>>
  BY DEF Sample, Hal!Sample, SystemTypeOK, Hal!TypeOK, Hal!Operations, Hal!Idle,
         Hal!Authenticating, Elsewhere, volatile
<1>2. CASE sensor.samples > 1
  <2> DEFINE callback == Hal!OnEnrollResult(0, sensor.samples - 1)
  <2>1. callback \in Hal!Callbacks /\ callback \notin LastReports \union Enumerates
    BY <1>1, <1>2, SamplesAssumption DEF Hal!OnEnrollResult, LastReports, Enumerates
  <2>2. Hal!Send(callback) /\ sensor'.op = "enroll" /\ UNCHANGED store
    BY <1>2 DEF Sample, Hal!Sample, Hal!Enrolling
  <2> QED
    BY <1>1, <2>1, <2>2, ReportStore
<1>3. CASE sensor.samples = 1
  <2> DEFINE callback == Hal!OnEnrollResult(finger, 0)
  <2> SUFFICES ASSUME Accounted PROVE Accounted'
    BY <1>1 DEF StoreInv
  <2>1. /\ Hal!Send(callback) /\ sensor'.op = "none"
        /\ store' = store \union {finger}
    BY <1>3 DEF Sample, Hal!Sample, Hal!Idle
  <2>2. callback \in LastReports
    BY SamplesAssumption DEF Hal!OnEnrollResult, LastReports
  <2>3. Settled
    BY <1>1 DEF Accounted, Account, RightSensor
  <2>4. HasAdded(finger)'
    BY <1>1, <2>1, <2>3 DEF Settled, HasAdded, Listed, Keys
  <2>5. callback \notin WrongReports'
    BY <2>4 DEF WrongReports, RightReport, HasAdded, Hal!OnEnrollResult
  <2> QED
    BY <1>1, <2>1, <2>2, <2>5, DoneStore DEF Changing
<1> QED
  BY <1>1, <1>2, <1>3

LEMMA RemoveStore ==
  ASSUME SystemTypeOK, StoreInv, Elsewhere, UNCHANGED adapter, UNCHANGED history,
         NEW finger \in FingerIds, Hal!RemoveNext(finger)
  PROVE  StoreInv'
<1> DEFINE rest == Hal!Remaining(finger)
           callback == Hal!OnRemoved(finger, rest)
<1> USE DEF Hal!NoFinger, NoFinger
<1>1. /\ sensor.op = "remove" /\ Hal!Send(callback)
      /\ finger \in sensor.left \/ (sensor.left = {} /\ finger = 0)
      /\ store' = store \ {finger}
      /\ store \subseteq Fingers /\ 0 \notin Fingers
      /\ UNCHANGED <<loaded, outOfStep, m_fingerMap, m_removingFinger>>
  BY ConstantsAssumption
  DEF Hal!RemoveNext, SystemTypeOK, Hal!TypeOK, Elsewhere, volatile, history, adapter
<1> SUFFICES ASSUME Accounted PROVE Accounted'
  BY <1>1 DEF StoreInv
<1>2. callback \in Hal!Callbacks /\ (callback \in LastReports <=> rest = 0)
  BY DEF Hal!OnRemoved, Hal!Remaining, Hal!Callbacks, Hal!FingerIds, FingerIds, LastReports
<1>3. CASE rest = 0
  <2>1. sensor'.op = "none" /\ sensor.left \subseteq {finger}
    BY <1>3 DEF Hal!RemoveNext, Hal!Remaining, Hal!Idle
  <2>2. m_removingFinger' \in {finger, 0} /\ HasRemoved(m_removingFinger)'
    <3>1. CASE m_removingFinger = 0
      <4>1. store' = {}
        BY <1>1, <2>1, <3>1 DEF Accounted, Account, RightSensor
      <4> QED
        BY <1>1, <3>1, <4>1 DEF HasRemoved
    <3>2. CASE m_removingFinger # 0
      <4>1. finger = m_removingFinger /\ Settled
        BY <1>1, <3>2 DEF Accounted, Account, RightSensor
      <4> QED
        BY <1>1, <3>2, <4>1 DEF HasRemoved, Settled, Listed, Keys
    <3> QED
      BY <3>1, <3>2
  <2>3. callback \notin WrongReports'
    BY <2>2 DEF WrongReports, RightReport, Removes, Hal!OnRemoved
  <2> QED
    BY <1>1, <1>2, <1>3, <2>1, <2>3, DoneStore DEF Changing
<1>4. CASE rest # 0
  <2>1. /\ sensor' = Hal!Removing(sensor.left \ {finger}, sensor.all)
        /\ ~(sensor.left \subseteq {finger})
    BY <1>4 DEF Hal!RemoveNext, Hal!Remaining
  <2>2. m_removingFinger = 0 /\ sensor.left = store /\ (loaded => sensor.all = Listed)
    BY <1>1, <2>1 DEF Accounted, Account, RightSensor
  <2>3. RightSensor'
    BY <1>1, <2>1, <2>2 DEF Accounted, Account, RightSensor, Hal!Removing, Listed, Keys
  <2>4. Changing /\ Changing'
    BY <1>1, <2>1 DEF Changing, Hal!Removing
  <2> QED
    BY <1>1, <1>2, <1>4, <2>3, <2>4, GoesOnStore
<1> QED
  BY <1>3, <1>4

LEMMA ToldNext ==
  ASSUME SystemTypeOK, NEW finger \in FingerIds, NEW rest \in {0, 1},
         Hal!Send(Hal!OnEnumerate(finger, rest)), UNCHANGED m_fingers
  PROVE  Foretold' = Foretold \union ({finger} \ {NoFinger})
<1> DEFINE callback == Hal!OnEnumerate(finger, rest)
<1>1. /\ callbacks \in Seq(Hal!Callbacks) /\ callbacks' = Append(callbacks, callback)
      /\ callback \in Enumerates /\ callback \in Hal!Callbacks
  BY DEF SystemTypeOK, Hal!TypeOK, Hal!Send, Hal!OnEnumerate, Hal!Callbacks,
         Hal!FingerIds, Hal!NoFinger, FingerIds, NoFinger, Enumerates
<1>2. \A set : Contains(callbacks', set) <=> Contains(callbacks, set) \/ callback \in set
  BY <1>1, FrontOrLast
<1>3. \A g : callback \in EnumeratesOf(g) <=> g = finger
  BY <1>1 DEF EnumeratesOf, Hal!OnEnumerate
<1>4. {finger} \ {NoFinger} = {g \in Fingers : g = finger}
  BY ConstantsAssumption DEF FingerIds
<1> QED
  BY <1>2, <1>3, <1>4, SetsStay DEF Foretold

LEMMA EnumerateNextStore ==
  ASSUME SystemTypeOK, StoreInv, Elsewhere, UNCHANGED adapter, UNCHANGED history,
         NEW finger \in FingerIds, Hal!EnumerateNext(finger)
  PROVE  StoreInv'
<1> DEFINE rest == Hal!Remaining(finger)
           callback == Hal!OnEnumerate(finger, rest)
<1> USE DEF Hal!NoFinger, NoFinger
<1>1. /\ sensor.op = "enumerate" /\ Hal!Send(callback)
      /\ finger \in sensor.left \/ (sensor.left = {} /\ finger = 0)
      /\ rest \in {0, 1}
      /\ sensor.left \subseteq Fingers /\ 0 \notin Fingers
      /\ UNCHANGED <<loaded, outOfStep, store, m_fingers>>
  BY ConstantsAssumption
  DEF Hal!EnumerateNext, SystemTypeOK, Hal!TypeOK, Hal!Operations, Hal!Idle,
      Hal!Authenticating, Hal!Remaining, history, adapter
<1> SUFFICES ASSUME Accounted PROVE Accounted'
  BY <1>1 DEF StoreInv
<1>2. callback \in Hal!Callbacks /\ (callback \in LastReports <=> rest = 0)
  BY <1>1 DEF Hal!OnEnumerate, Hal!Callbacks, Hal!FingerIds, FingerIds, LastReports
<1>3. ~loaded /\ store = Foretold \union sensor.left
  BY <1>1 DEF Accounted, Account, RightSensor
<1>4. Foretold' = Foretold \union ({finger} \ {0})
  BY <1>1, ToldNext
<1>5. CASE rest = 0
  <2>1. sensor'.op = "none" /\ sensor.left \subseteq {finger}
    BY <1>5 DEF Hal!EnumerateNext, Hal!Remaining, Hal!Idle
  <2>2. store' = Foretold'
    BY <1>1, <1>3, <1>4, <2>1
  <2>3. callback \notin WrongReports'
    BY <2>2 DEF WrongReports, RightReport, Hal!OnEnumerate
  <2> QED
    BY <1>1, <1>2, <1>5, <2>1, <2>3, DoneStore DEF Changing
<1>6. CASE rest # 0
  <2>1. /\ sensor' = Hal!Enumerating(sensor.left \ {finger})
        /\ ~(sensor.left \subseteq {finger})
    BY <1>6 DEF Hal!EnumerateNext, Hal!Remaining
  <2>2. RightSensor'
    BY <1>1, <1>3, <1>4, <2>1 DEF RightSensor, Hal!Enumerating
  <2>3. Changing /\ Changing'
    BY <1>1, <2>1 DEF Changing, Hal!Enumerating
  <2> QED
    BY <1>1, <1>2, <1>6, <2>2, <2>3, GoesOnStore
<1> QED
  BY <1>1, <1>5, <1>6

LEMMA SensorStore ==
  ASSUME SystemTypeOK, StoreInv, Sensor \/ Acquire
  PROVE  StoreInv'
<1> USE DEF Hal!Callbacks, Hal!FingerIds, Hal!NoFinger, NoFinger, FingerIds
<1>1. Elsewhere /\ UNCHANGED adapter /\ Hal!TypeOK
  BY DEF Sensor, Acquire, SystemTypeOK
<1>2. ASSUME NEW finger \in Fingers, Sample(finger) PROVE StoreInv'
  BY <1>1, <1>2, SampleStore
<1>3. CASE Fail
  <2>1. PICK error \in ErrorCodes : Hal!Send(Hal!OnError(error))
    BY <1>3 DEF Fail, Hal!Fail
  <2>2. /\ Hal!OnError(error) \in Hal!Callbacks
        /\ Hal!OnError(error) \notin LastReports \union Enumerates
    BY DEF Hal!OnError, LastReports, Enumerates
  <2>3. CASE sensor.op = "remove" /\ sensor.left # sensor.all
    BY <1>3, <2>3 DEF Fail, GetsOutOfStep, StoreInv
  <2>4. CASE ~(sensor.op = "remove" /\ sensor.left # sensor.all)
    <3>1. UNCHANGED <<store, loaded, outOfStep>> /\ ~Changing'
      BY <1>3, <2>4 DEF Fail, Hal!Fail, Hal!Idle, GetsOutOfStep, Changing, SystemTypeOK
    <3>2. Accounted /\ Changing => Settled
      BY <2>4 DEF Accounted, Account, RightSensor, Changing, Settled
    <3> QED
      BY <1>1, <2>1, <2>2, <3>1, <3>2, ReportStore
  <2> QED
    BY <2>3, <2>4
<1>4. ASSUME UNCHANGED history, Hal!Reject PROVE StoreInv'
  <2>1. /\ Hal!OnAuthenticated(0) \in Hal!Callbacks
        /\ Hal!OnAuthenticated(0) \notin LastReports \union Enumerates
    BY DEF Hal!OnAuthenticated, LastReports, Enumerates
  <2>2. Hal!Send(Hal!OnAuthenticated(0)) /\ UNCHANGED <<sensor, store, loaded, outOfStep>>
    BY <1>4 DEF Hal!Reject, history
  <2> QED
    BY <1>1, <2>1, <2>2, ReportStore
<1>5. ASSUME UNCHANGED history, NEW finger \in FingerIds, Hal!Match(finger)
      PROVE  StoreInv'
  <2>1. /\ Hal!OnAuthenticated(finger) \in Hal!Callbacks
        /\ Hal!OnAuthenticated(finger) \notin LastReports \union Enumerates
    BY DEF Hal!OnAuthenticated, LastReports, Enumerates
  <2>2. /\ Hal!Send(Hal!OnAuthenticated(finger))
        /\ UNCHANGED <<store, loaded, outOfStep>>
        /\ ~Changing /\ ~Changing'
    BY <1>5 DEF Hal!Match, Hal!Authenticating, Hal!Idle, Changing, history
  <2> QED
    BY <1>1, <2>1, <2>2, ReportStore
<1>6. ASSUME UNCHANGED history, NEW finger \in FingerIds,
             Hal!RemoveNext(finger) \/ Hal!EnumerateNext(finger)
      PROVE  StoreInv'
  BY <1>1, <1>6, RemoveStore, EnumerateNextStore
<1>7. CASE Acquire
  <2>1. PICK info \in SensorInfos : Hal!Acquire(info)
    BY <1>7 DEF Acquire
  <2>2. /\ Hal!OnAcquired(info) \in Hal!Callbacks
        /\ Hal!OnAcquired(info) \notin LastReports \union Enumerates
    BY AcquiredCallback DEF LastReports, Enumerates
  <2>3. Hal!Send(Hal!OnAcquired(info)) /\ UNCHANGED <<sensor, store, loaded, outOfStep>>
    BY <1>7, <2>1 DEF Acquire, Hal!Acquire, history
  <2> QED
    BY <1>1, <2>2, <2>3, ReportStore
<1> QED
  BY <1>2, <1>3, <1>4, <1>5, <1>6, <1>7 DEF Sensor

-----------------------------------------------------------------------------
(* A new process knows nothing, has nothing loaded and starts to enumerate *)
(* all that the sensor holds, or it has lost track.                        *)
LEMMA FreshStore ==
  ASSUME callbacks' = <<>>, events' = <<>>, binder' = Adapter!Free, m_fingers' = {},
         ~loaded', sensor' = Hal!Idle \/ sensor' = Hal!Enumerating(store')
  PROVE  Accounted'
<1>1. /\ ~Contains(callbacks', LastReports) /\ ~Contains(events', Results)
      /\ ~Holding' /\ binder'.at # "forget" /\ Settled'
  BY DEF Contains, Holding, Adapter!Free, Settled
<1>2. Foretold' = {}
  BY SetsStay DEF Foretold, Contains
<1>3. RightSensor'
  BY <1>2 DEF RightSensor, Hal!Idle, Hal!Enumerating
<1> QED
  BY <1>1, <1>3, AtSensor

LEMMA CrashStore ==
  ASSUME Crash
  PROVE  StoreInv'
<1>1. /\ callbacks' = <<>> /\ events' = <<>> /\ binder' = Adapter!Free
      /\ m_fingers' = {} /\ ~loaded' /\ UNCHANGED store
      /\ outOfStep' \/ sensor' = Hal!Idle \/ sensor' = Hal!Enumerating(store)
  BY DEF Crash
<1>2. Hal!Enumerating(store)' = Hal!Enumerating(store)
  BY <1>1 DEF Hal!Enumerating
<1>3. outOfStep' \/ Accounted'
  BY <1>1, <1>2, FreshStore DEF Hal!Enumerating
<1> QED
  BY <1>3 DEF StoreInv

(* In every state of the system the result of an operation is accounted    *)
(* for, at the sensor, in one of the queues or in the binder thread, or    *)
(* the process is out of step.                                             *)
THEOREM ResultsAreAccountedFor == SystemSpec => []StoreInv
<1>1. SystemInit => StoreInv
  <2> SUFFICES ASSUME SystemInit PROVE Accounted
    BY DEF StoreInv
  <2>1. /\ callbacks = <<>> /\ events = <<>> /\ binder = Adapter!Free
        /\ m_fingers = {} /\ ~loaded
        /\ sensor = Hal!Idle \/ sensor = Hal!Enumerating(store)
    BY DEF SystemInit, Adapter!Init
  <2>2. \A set : ~Contains(callbacks, set) /\ ~Contains(events, set)
    BY <2>1 DEF Contains
  <2>3. ~Holding /\ binder.at # "forget" /\ Settled /\ Foretold = {}
    BY <2>1, <2>2 DEF Holding, Adapter!Free, Settled, Foretold
  <2>4. RightSensor
    BY <2>1, <2>3 DEF RightSensor, Hal!Idle, Hal!Enumerating
  <2>5. OneResult /\ LastIsLast
    BY <2>1, <2>2, <2>3 DEF OneResult, LastIsLast, AtMostOne, ComesBefore
  <2>6. Account
    BY <2>2, <2>3, <2>4 DEF Account, RightBinder, Holding
  <2> QED
    BY <2>5, <2>6 DEF Accounted
<1>2. SystemTypeOK /\ StoreInv /\ [SystemNext]_systemVars => StoreInv'
  <2> SUFFICES ASSUME SystemTypeOK, StoreInv, [SystemNext]_systemVars PROVE StoreInv'
    OBVIOUS
  <2>1. CASE Timeout
    <3>1. /\ UNCHANGED <<m_fingerMap, loaded, m_fingers, m_removingFinger, outOfStep>>
          /\ UNCHANGED <<events, binder>>
          /\ Hal!cancel
      BY <2>1 DEF Timeout, slot_cancelIdentify, adapter, history
    <3> QED
      BY <3>1, CancelledStore, StoreKept DEF Retains
  <2>2. CASE EnrollReturns
    <3>1. /\ UNCHANGED <<m_fingerMap, loaded, m_fingers, m_removingFinger, outOfStep>>
          /\ UNCHANGED <<events, binder, callbacks, sensor, store>>
      BY <2>2 DEF EnrollReturns, Adapter!enrollReturns, Elsewhere, volatile, hal, history
    <3> QED
      BY <3>1, StoreKept DEF Retains
  <2>3. CASE UNCHANGED systemVars
    <3>1. /\ UNCHANGED <<m_fingerMap, loaded, m_fingers, m_removingFinger, outOfStep>>
          /\ UNCHANGED <<events, binder, callbacks, sensor, store>>
      BY <2>3 DEF systemVars, vars, volatile, adapter, hal, history
    <3> QED
      BY <3>1, StoreKept DEF Retains
  <2> QED
    BY <2>1, <2>2, <2>3, CallStore, DispatchStore, BinderStore, SensorStore, CrashStore
    DEF SystemNext
<1> QED
  BY <1>1, <1>2, SystemTypeCorrect, PTL DEF SystemSpec

(* Once nothing is under way, the list is exactly what the sensor holds:   *)
(* for any templates, touches and lengths of the queues, through failures, *)
(* aborts, refusals, time limits, late results, crashes and restarts.      *)
THEOREM ListStaysStore == SystemSpec => []ListMatchesStore
<1>1. StoreInv => ListMatchesStore
  <2> SUFFICES ASSUME Accounted, loaded, Quiet PROVE Keys(m_fingerMap) = store
    BY DEF StoreInv, ListMatchesStore
  <2>1. NoResult
    BY DEF Quiet, NoResult, Changing, Holding, Contains, Hal!Idle, Adapter!Free
  <2> QED
    BY <2>1 DEF Accounted, Account, Settled, Listed
<1> QED
  BY <1>1, ResultsAreAccountedFor, PTL
=============================================================================
