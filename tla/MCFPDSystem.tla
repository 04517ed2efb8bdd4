----------------------------- MODULE MCFPDSystem -----------------------------
(* FPDSystem for TLC.                                                      *)
EXTENDS FPDSystem, TLC

MCUnknownName == [k \in FingerIds |-> "Unknown " \o ToString(k)]

(* Every progress that an enrolment of Samples touches can show.           *)
MCPercents ==
  {100, Undefined} \union
  {((all - left) * 100) \div all : all, left \in 1..Samples}

(* What was sent in the last step is looked at by properties of steps, and *)
(* by no action, so two states that differ only there are one.             *)
WithoutOutput == <<volatile, database, adapter, hal, history>>

(* Nor does a value matter that is written again before it is looked at:   *)
(* the ids enumerated and the id being removed outside an enumeration and  *)
(* a removal (a new process and remove set them), the name asked for       *)
(* outside an enrolment and whether the last operation overlapped once it  *)
(* is over (Operation sets them), the name that a template was made for    *)
(* once the template is neither stored, listed nor in the file (Sample     *)
(* sets it).  Nor what decides about a value that is sent and nothing      *)
(* else: m_acquired, and what the progress of an enrolment is made of.     *)
(* Nor, with one client, m_dbusCaller: it is that client in its operations *)
(* (BusyHasOwner), nobody in the enumeration, and looked at by no reply of *)
(* an idle daemon but to tell one client from another.                     *)
Removal ==
  \/ sensor.op = "remove"
  \/ binder.at \in {"removed", "forget"}
  \/ \E i \in 1..Len(callbacks) : callbacks[i].on = "Removed"
ButForProgress(record) ==
  [field \in DOMAIN record \ {"remaining", "percent"} |-> record[field]]
Relevant == <<
  m_state, m_fingerMap, m_addingFinger, m_cancelTimer, database,
  hal, inEnroll, ButForProgress(binder),
  [i \in DOMAIN events |-> ButForProgress(events[i])], loaded, outOfStep,
  m_state # "FPSTATE_IDLE" /\ overlapped,
  {finger \in m_fingers : Enumeration},
  IF Removal THEN m_removingFinger ELSE NoFinger,
  IF sensor.op = "enroll" THEN asked ELSE Absent,
  [k \in (store \union Keys(m_fingerMap) \union Keys(ReadDatabase)) \ {NoFinger} |->
     enrolledAs[k]] >>

(* Constraint: the start has gone well.                                    *)
LosesTrackAfterLoading == outOfStep => loaded
=============================================================================
