----------------------------- MODULE BiometryHal -----------------------------
(***************************************************************************)
(* The fingerprint sensor as the daemon sees it through the bridge library *)
(* biometry_fp_hidl_for_hybris.cpp.  The HIDL service behind the bridge is *)
(* not part of the repository; it is modelled from the calls that the      *)
(* bridge makes and from the callbacks that it forwards.  A request either *)
(* is refused at once, with any status but SYS_OK, or starts an operation  *)
(* that reports by oneway callbacks, which arrive in order but later.      *)
(***************************************************************************)
EXTENDS Naturals, Sequences

CONSTANTS
  Fingers,       \* template ids
  Samples,       \* touches that an enrolment takes
  SensorInfos,   \* FingerprintAcquiredInfo values that the sensor sends
  ErrorCodes,    \* what onError brings: ERROR, or a code the bridge does not know
  MaxCallbacks   \* bound: requests and reports wait while so many are pending

VARIABLES
  sensor,     \* the operation that the sensor is running
  store,      \* ids of the templates in the active group
  callbacks   \* sent to the bridge and not yet delivered

NoFinger == 0
Idle == [op |-> "none"]
Enrolling(samples) == [op |-> "enroll", samples |-> samples]
Authenticating == [op |-> "authenticate"]
Removing(left, all) == [op |-> "remove", left |-> left, all |-> all]
Enumerating(left) == [op |-> "enumerate", left |-> left]

FingerIds == Fingers \union {NoFinger}

Operations ==
  {Idle, Authenticating}
    \union [op : {"enroll"}, samples : 1..Samples]
    \union [op : {"remove"}, left : SUBSET Fingers, all : SUBSET Fingers]
    \union [op : {"enumerate"}, left : SUBSET Fingers]

(* The bridge makes ACQUIRED_GOOD of a value that it does not know.        *)
KnownInfos == {"ACQUIRED_GOOD", "ACQUIRED_PARTIAL", "ACQUIRED_INSUFFICIENT",
               "ACQUIRED_IMAGER_DIRTY", "ACQUIRED_TOO_SLOW",
               "ACQUIRED_TOO_FAST", "ACQUIRED_VENDOR"}
HIDLToUFingerprintAcquiredInfo(info) ==
  IF info \in KnownInfos THEN info ELSE "ACQUIRED_GOOD"
PassedInfos == {HIDLToUFingerprintAcquiredInfo(info) : info \in SensorInfos}

Callbacks ==
  [on : {"EnrollResult"}, finger : FingerIds, remaining : 0..(Samples - 1)]
    \union [on : {"Authenticated"}, finger : FingerIds]
    \union [on : {"Removed", "Enumerate"}, finger : FingerIds, remaining : {0, 1}]
    \union [on : {"Acquired"}, info : PassedInfos]
    \union [on : {"Error"}, error : ErrorCodes \union {"ERROR"}]

(* The last callback of an enrolment names its template.                   *)
TypeOK ==
  /\ sensor \in Operations
  /\ store \subseteq Fingers
  /\ callbacks \in Seq(Callbacks)
  /\ \A i \in 1..Len(callbacks) :
       callbacks[i].on = "EnrollResult" /\ callbacks[i].remaining = 0
         => callbacks[i].finger \in Fingers

-----------------------------------------------------------------------------
(* The calls of the bridge: fpHal == nullptr is one of the refusals.       *)

Room == Len(callbacks) < MaxCallbacks

Request(ret, operation) ==
  /\ \/ ret = "SYS_OK" /\ sensor = Idle /\ Room /\ sensor' = operation
     \/ ret # "SYS_OK" /\ UNCHANGED sensor
  /\ UNCHANGED <<store, callbacks>>

(* preEnroll, the password of the Gatekeeper and its token, and at last    *)
(* enroll: any of them can fail before the sensor starts.                  *)
enroll(ret) == Request(ret, Enrolling(Samples))
authenticate(ret) == Request(ret, Authenticating)
remove(ret, finger) ==
  LET which == IF finger = NoFinger THEN store ELSE {finger} IN
  Request(ret, Removing(which, which))

Send(callback) == callbacks' = Append(callbacks, callback)
OnEnrollResult(finger, remaining) ==
  [on |-> "EnrollResult", finger |-> finger, remaining |-> remaining]
OnAuthenticated(finger) == [on |-> "Authenticated", finger |-> finger]
OnRemoved(finger, remaining) ==
  [on |-> "Removed", finger |-> finger, remaining |-> remaining]
OnEnumerate(finger, remaining) ==
  [on |-> "Enumerate", finger |-> finger, remaining |-> remaining]
OnAcquired(info) ==
  [on |-> "Acquired", info |-> HIDLToUFingerprintAcquiredInfo(info)]
OnError(error) == [on |-> "Error", error |-> error]

(* Enrolment and authentication are the two that cancel() stops.           *)
cancel ==
  /\ IF sensor.op \in {"enroll", "authenticate"}
     THEN sensor' = Idle /\ Send(OnError("ERROR"))
     ELSE UNCHANGED <<sensor, callbacks>>
  /\ UNCHANGED store

-----------------------------------------------------------------------------
(* What the sensor does by itself.                                         *)

(* The quality of a touch, before anything comes of it.                    *)
Acquire(info) ==
  /\ Room
  /\ sensor.op \in {"enroll", "authenticate"}
  /\ Send(OnAcquired(info))
  /\ UNCHANGED <<sensor, store>>

(* A touch; the last one makes the template.                               *)
Sample(finger) ==
  /\ Room
  /\ sensor.op = "enroll"
  /\ \/ /\ sensor.samples > 1
        /\ sensor' = Enrolling(sensor.samples - 1)
        /\ Send(OnEnrollResult(NoFinger, sensor.samples - 1))
        /\ UNCHANGED store
     \/ /\ sensor.samples = 1
        /\ finger \notin store
        /\ sensor' = Idle
        /\ store' = store \union {finger}
        /\ Send(OnEnrollResult(finger, 0))

Match(finger) ==
  /\ Room
  /\ sensor = Authenticating
  /\ finger \in store
  /\ sensor' = Idle
  /\ Send(OnAuthenticated(finger))
  /\ UNCHANGED store

Reject ==
  /\ Room
  /\ sensor = Authenticating
  /\ Send(OnAuthenticated(NoFinger))
  /\ UNCHANGED <<sensor, store>>

(* Template by template, counting down, and template 0 when there is none. *)
(* Of the count, only whether it has come to 0 is kept.                    *)
Remaining(finger) == IF sensor.left \subseteq {finger} THEN 0 ELSE 1

RemoveNext(finger) ==
  /\ Room
  /\ sensor.op = "remove"
  /\ finger \in sensor.left \/ (sensor.left = {} /\ finger = NoFinger)
  /\ store' = store \ {finger}
  /\ sensor' = IF Remaining(finger) = 0 THEN Idle
               ELSE Removing(sensor.left \ {finger}, sensor.all)
  /\ Send(OnRemoved(finger, Remaining(finger)))

EnumerateNext(finger) ==
  /\ Room
  /\ sensor.op = "enumerate"
  /\ finger \in sensor.left \/ (sensor.left = {} /\ finger = NoFinger)
  /\ sensor' = IF Remaining(finger) = 0 THEN Idle
               ELSE Enumerating(sensor.left \ {finger})
  /\ Send(OnEnumerate(finger, Remaining(finger)))
  /\ UNCHANGED store

(* ERROR_TIMEOUT, ERROR_UNABLE_TO_REMOVE ...  HIDLToUFingerprintError      *)
(* makes ERROR_NO_ERROR of a code that it does not know.                   *)
Fail ==
  /\ Room
  /\ sensor # Idle
  /\ sensor' = Idle
  /\ \E error \in ErrorCodes : Send(OnError(error))
  /\ UNCHANGED store
=============================================================================
