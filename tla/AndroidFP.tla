------------------------------ MODULE AndroidFP ------------------------------
(***************************************************************************)
(* The adapter between the daemon and the sensor: class AndroidFP of       *)
(* androidfp.cpp.  Two threads work on it without a lock.  The main thread *)
(* calls enroll, remove and clear (and enumerate, once, at the start, with *)
(* m_fingers empty); the binder thread runs the callbacks, one at a time,  *)
(* and a callback that reads what the main thread writes is several steps. *)
(* A signal that the binder thread emits is queued for the main thread;    *)
(* one that the main thread emits is a direct call, which "FPDCommunity"   *)
(* makes part of the method.                                               *)
(***************************************************************************)
EXTENDS Integers, Sequences

CONSTANTS
  Fingers,     \* template ids
  Samples,     \* touches that an enrolment takes
  AcquiredInfos,  \* ACQUIRED_* values the bridge passes on
  Undefined,   \* (int) of a float that is not finite
  MaxEvents    \* bound: the binder thread waits while so many are queued

VARIABLES
  m_enrollRemaining,  \* samples of the running enrolment, or 0
  m_removingFinger,   \* the id being removed, 0 for all
  m_fingers,          \* the ids enumerated so far
  inEnroll,           \* the main thread is in enroll(), the sensor has started
  binder,             \* where the binder thread is
  events              \* signals queued for the main thread

NoFinger == 0
Free == [at |-> "none"]

BinderStates ==
  {Free} \union [at : {"progress"}, remaining : 1..Samples]
         \union [at : {"postEnroll"}, finger : Fingers]
         \union [at : {"removed"}, finger : Fingers \union {NoFinger}]
         \union [at : {"forget"}]

(* (1 - remaining / m_enrollRemaining) * 100, and 100 of the last sample.  *)
ProgressValues ==
  {100, Undefined} \union
  {((all - remaining) * 100) \div all : all, remaining \in 1..Samples}

Events ==
  [signal : {"enrollProgress"}, percent : ProgressValues]
    \union [signal : {"succeeded", "authenticated"}, finger : Fingers]
    \union [signal : {"removed"}, finger : Fingers \union {NoFinger}]
    \union [signal : {"failed"}, message : {"FINGER_NOT_RECOGNIZED", "ERROR"}]
    \union [signal : {"acquired"}, info : AcquiredInfos]
    \union [signal : {"enumerated"}]

TypeOK ==
  /\ m_enrollRemaining \in 0..Samples
  /\ m_removingFinger \in Fingers \union {NoFinger}
  /\ m_fingers \subseteq Fingers
  /\ inEnroll \in BOOLEAN
  /\ binder \in BinderStates
  /\ events \in Seq(Events)

Init ==
  /\ m_enrollRemaining = 0
  /\ m_removingFinger = NoFinger
  /\ m_fingers = {}
  /\ inEnroll = FALSE
  /\ binder = Free
  /\ events = <<>>

-----------------------------------------------------------------------------
(* The main thread.                                                        *)

(* The samples are forgotten after the sensor was started.                 *)
enroll(ret) ==
  /\ IF ret = "SYS_OK" THEN inEnroll' = TRUE /\ UNCHANGED m_enrollRemaining
                       ELSE m_enrollRemaining' = 0 /\ UNCHANGED inEnroll
  /\ UNCHANGED <<m_removingFinger, m_fingers, binder, events>>

enrollReturns ==
  /\ inEnroll
  /\ inEnroll' = FALSE
  /\ m_enrollRemaining' = 0
  /\ UNCHANGED <<m_removingFinger, m_fingers, binder, events>>

(* The finger is noted before the sensor is asked, and stays noted when it *)
(* refuses.                                                                *)
remove(finger) ==
  /\ m_removingFinger' = finger
  /\ UNCHANGED <<m_enrollRemaining, m_fingers, inEnroll, binder, events>>

clear == remove(NoFinger)

TakeEvent ==
  /\ ~inEnroll
  /\ events # <<>>
  /\ events' = Tail(events)
  /\ UNCHANGED <<m_enrollRemaining, m_removingFinger, m_fingers, inEnroll, binder>>

-----------------------------------------------------------------------------
(* The binder thread.                                                      *)

EnrollProgress(percent) == [signal |-> "enrollProgress", percent |-> percent]
Succeeded(finger) == [signal |-> "succeeded", finger |-> finger]
Failed(message) == [signal |-> "failed", message |-> message]
Removed(finger) == [signal |-> "removed", finger |-> finger]
Authenticated(finger) == [signal |-> "authenticated", finger |-> finger]
Acquired(info) == [signal |-> "acquired", info |-> info]
Enumerated == [signal |-> "enumerated"]

Emit(event) == events' = Append(events, event)
Ready == binder = Free /\ Len(events) < MaxEvents
UnchangedShared == UNCHANGED <<m_enrollRemaining, m_removingFinger, m_fingers,
                               inEnroll>>

enrollCallback(finger, remaining) ==
  /\ Ready
  /\ \/ /\ remaining > 0
        /\ m_enrollRemaining' = IF m_enrollRemaining = 0 THEN remaining + 1
                                ELSE m_enrollRemaining
        /\ binder' = [at |-> "progress", remaining |-> remaining]
        /\ UNCHANGED events
     \/ /\ remaining = 0
        /\ Emit(EnrollProgress(100))
        /\ binder' = [at |-> "postEnroll", finger |-> finger]
        /\ UNCHANGED m_enrollRemaining
  /\ UNCHANGED <<m_removingFinger, m_fingers, inEnroll>>

Percent(remaining) ==
  IF m_enrollRemaining = 0 THEN Undefined
  ELSE ((m_enrollRemaining - remaining) * 100) \div m_enrollRemaining

enrollProgress ==
  /\ binder.at = "progress"
  /\ Emit(EnrollProgress(Percent(binder.remaining)))
  /\ binder' = Free
  /\ UnchangedShared

postEnroll(ret) ==
  /\ binder.at = "postEnroll"
  /\ Emit(IF ret = "SYS_OK" THEN Succeeded(binder.finger) ELSE Failed("ERROR"))
  /\ binder' = Free
  /\ UnchangedShared

(* Seeded fault: every template that a Clear removes is taken for the last.*)
removeCallback_First(finger, remaining) ==
  /\ Ready
  /\ binder' = IF m_removingFinger \in {finger, NoFinger}
               THEN [at |-> "removed", finger |-> finger] ELSE Free
  /\ UNCHANGED events
  /\ UnchangedShared

(* removeCallback compares with m_removingFinger, reads it again, emits,   *)
(* and resets it last.  The comparison, two reads in the code, is one step.*)
removeCallback(finger, remaining) ==
  /\ Ready
  /\ binder' = IF m_removingFinger \in {finger, NoFinger} /\ remaining = 0
               THEN [at |-> "removed", finger |-> finger] ELSE Free
  /\ UNCHANGED events
  /\ UnchangedShared

(* Seeded fault: Clear is reported as the removal of its last template.    *)
emitRemoved_NoZero ==
  /\ binder.at = "removed"
  /\ Emit(Removed(binder.finger))
  /\ binder' = [at |-> "forget"]
  /\ UnchangedShared

emitRemoved ==
  /\ binder.at = "removed"
  /\ Emit(Removed(IF m_removingFinger = NoFinger THEN NoFinger
                  ELSE binder.finger))
  /\ binder' = [at |-> "forget"]
  /\ UnchangedShared

forgetRemoving ==
  /\ binder.at = "forget"
  /\ m_removingFinger' = NoFinger
  /\ binder' = Free
  /\ UNCHANGED <<m_enrollRemaining, m_fingers, inEnroll, events>>

(* Seeded fault: the 0 that stands for "no template" is listed.            *)
enumerateCallback_KeepsZero(finger, remaining) ==
  /\ Ready
  /\ m_fingers' = m_fingers \union {finger}
  /\ IF remaining = 0 THEN Emit(Enumerated) ELSE UNCHANGED events
  /\ UNCHANGED <<m_enrollRemaining, m_removingFinger, inEnroll, binder>>

enumerateCallback(finger, remaining) ==
  /\ Ready
  /\ m_fingers' = m_fingers \union ({finger} \ {NoFinger})
  /\ IF remaining = 0 THEN Emit(Enumerated) ELSE UNCHANGED events
  /\ UNCHANGED <<m_enrollRemaining, m_removingFinger, inEnroll, binder>>

(* Seeded fault: of two signals with the same argument the wrong one.      *)
authenticated_cb_Succeeds(finger) ==
  /\ Ready
  /\ Emit(IF finger # NoFinger THEN Succeeded(finger)
          ELSE Failed("FINGER_NOT_RECOGNIZED"))
  /\ UNCHANGED binder
  /\ UnchangedShared

authenticated_cb(finger) ==
  /\ Ready
  /\ Emit(IF finger # NoFinger THEN Authenticated(finger)
          ELSE Failed("FINGER_NOT_RECOGNIZED"))
  /\ UNCHANGED binder
  /\ UnchangedShared

acquired_cb(info) ==
  /\ Ready
  /\ Emit(Acquired(info))
  /\ UNCHANGED binder
  /\ UnchangedShared

(* Seeded fault: only errors that are none are reported.                   *)
error_cb_Inverted(error) ==
  /\ Ready
  /\ IF error = "ERROR_NO_ERROR" THEN Emit(Failed(error)) ELSE UNCHANGED events
  /\ UNCHANGED binder
  /\ UnchangedShared

error_cb(error) ==
  /\ Ready
  /\ IF error = "ERROR_NO_ERROR" THEN UNCHANGED events ELSE Emit(Failed(error))
  /\ UNCHANGED binder
  /\ UnchangedShared
=============================================================================
