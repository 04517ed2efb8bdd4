------------------------------- MODULE Bridge -------------------------------
(***************************************************************************)
(* The bridge library biometry_fp_hidl_for_hybris.cpp in its process: how  *)
(* it comes by its handle of the sensor's service, and enroll(), which     *)
(* opens a session with preEnroll and fetches a token for it from the      *)
(* Gatekeeper before it asks the sensor.  "BiometryHal" has all of enroll  *)
(* as one request; here the binder thread and the services step in.  The   *)
(* two services are external.  A call through the handle of a service that *)
(* has died does not return: a failed HIDL Return must not be converted,   *)
(* and ends the process, so every call below requires fpHal # "dead".      *)
(***************************************************************************)
EXTENDS Integers, Sequences

CONSTANTS
  Tries,         \* how often u_hardware_biometry_new asks for the service
  Challenges,    \* what preEnroll returns
  Uninitialized, \* auth_token before it is assigned
  Groups,        \* store paths, for setActiveGroup
  MaxCallbacks   \* bound on the callbacks that are on their way

ASSUME TriesAssumption == Tries \in Nat \ {0}
ASSUME ChallengesAssumption == Challenges \subseteq Nat \ {0}
ASSUME MaxCallbacksAssumption == MaxCallbacks \in Nat \ {0}
ASSUME TokenAssumption == Uninitialized \notin Nat

VARIABLES
  fpHal,        \* "null", "live", or "dead": its service is no more
  tries,        \* turns of the loop in u_hardware_biometry_new
  enrolment,    \* where enroll() is, with its locals
  (* The sensor's service.                                                *)
  service,      \* can it be found?
  listener,     \* the process that gets its callbacks
  activeGroup,  \* the store that it uses
  running,      \* what it does
  challenge,    \* of the session that is open, or NoChallenge
  callbacks     \* sent and not yet delivered

NoChallenge == 0
NoGroup == "none"
hal == <<service, listener, activeGroup, running, challenge, callbacks>>
bridge == <<fpHal, tries, enrolment>>

NotEnrolling == [at |-> "none"]
Gatekeeping(place, challange) == [at |-> place, challange |-> challange]
Calling(challange, token) == [at |-> "hal", challange |-> challange, token |-> token]
Returned(ret) == [at |-> "returned", ret |-> ret]

BridgeTypeOK ==
  /\ fpHal \in {"null", "live", "dead"}
  /\ tries \in 0..Tries
  /\ enrolment \in {NotEnrolling, Returned("SYS_OK"), Returned("SYS_ERROR")}
       \union [at : {"gatekeeper", "verify"}, challange : Challenges]
       \union [at : {"hal"}, challange : Challenges,
               token : Challenges \union {NoChallenge, Uninitialized}]
  /\ service \in BOOLEAN
  /\ listener \in {"none", "old", "ours"}
  /\ activeGroup \in Groups \union {NoGroup}
  /\ running \in {"none", "enumerate", "enroll"}
  /\ challenge \in Challenges \union {NoChallenge}
  /\ callbacks \in Seq({"enumerated", "enrolled", "error"})

-----------------------------------------------------------------------------
(* u_hardware_biometry_new.  After the last turn it returns the object it  *)
(* has deleted, whose methods find fpHal == nullptr.                       *)

(* Seeded fault: the turns are not counted.                                *)
init_Forever ==
  /\ fpHal' = IF service THEN "live" ELSE "null"
  /\ UNCHANGED <<tries, enrolment, hal>>

init ==
  /\ fpHal' = IF service THEN "live" ELSE "null"
  /\ tries' = IF service THEN tries ELSE tries + 1
  /\ UNCHANGED <<enrolment, hal>>

(* Seeded fault: one turn too many.                                        *)
NewReturns_OffByOne == fpHal' = "live" \/ tries' > Tries
NewReturns == fpHal' = "live" \/ tries' = Tries

(* Seeded fault: the callbacks of an earlier process stay registered.      *)
setNotify_Once ==
  /\ fpHal # "dead"
  /\ listener' = IF fpHal = "live" /\ listener = "none" THEN "ours" ELSE listener
  /\ UNCHANGED <<bridge, service, activeGroup, running, challenge, callbacks>>

setNotify ==
  /\ fpHal # "dead"
  /\ listener' = IF fpHal = "live" THEN "ours" ELSE listener
  /\ UNCHANGED <<bridge, service, activeGroup, running, challenge, callbacks>>

Room == Len(callbacks) < MaxCallbacks

(* Whatever fpHal == nullptr or the sensor refuses is an error.            *)
May(ret) == fpHal # "dead" /\ (ret = "SYS_OK" => fpHal = "live")

setActiveGroup(ret, path) ==
  /\ May(ret)
  /\ activeGroup' = IF ret = "SYS_OK" THEN path ELSE activeGroup
  /\ UNCHANGED <<bridge, service, listener, running, challenge, callbacks>>

Request(ret, operation) ==
  /\ May(ret)
  /\ ret = "SYS_OK" => running = "none" /\ Room
  /\ running' = IF ret = "SYS_OK" THEN operation ELSE running
  /\ UNCHANGED <<service, listener, activeGroup, challenge, callbacks>>

enumerate(ret) == Request(ret, "enumerate") /\ UNCHANGED bridge

cancel ==
  /\ fpHal # "dead"
  /\ IF fpHal = "live" /\ running = "enroll"
     THEN running' = "none" /\ callbacks' = Append(callbacks, "error")
     ELSE UNCHANGED <<running, callbacks>>
  /\ UNCHANGED <<bridge, service, listener, activeGroup, challenge>>

-----------------------------------------------------------------------------
(* enroll(), step by step.                                                 *)

Enrolls(place) == enrolment' = place /\ UNCHANGED <<fpHal, tries>>
Refused == Enrolls(Returned("SYS_ERROR"))

preEnroll(challange) ==
  /\ fpHal # "dead"
  /\ IF fpHal = "live"
     THEN /\ Enrolls(Gatekeeping("gatekeeper", challange))
          /\ challenge' = challange
     ELSE Refused /\ UNCHANGED challenge
  /\ UNCHANGED <<service, listener, activeGroup, running, callbacks>>

(* What a call of the Gatekeeper brings: the code and time of its answer,  *)
(* and whether it has data, or a failed Return.                            *)
STATUS_OK == 0
STATUS_REENROLL == 1
ERROR_RETRY_TIMEOUT == -2
NoAnswer == [ok |-> FALSE]
Answers ==
  {NoAnswer}
    \union [ok : {TRUE}, code : {STATUS_OK, STATUS_REENROLL}, timeout : {0}, data : BOOLEAN]
    \union [ok : {TRUE}, code : {ERROR_RETRY_TIMEOUT}, timeout : {0, 30}, data : {FALSE}]

(* Seeded fault: the time to wait is taken for the result, be it 0 or not. *)
Result_Timeout(answer) ==
  IF answer.code >= STATUS_OK THEN 0 ELSE answer.timeout

Result(answer) ==
  IF answer.code >= STATUS_OK THEN 0
  ELSE IF answer.code = ERROR_RETRY_TIMEOUT /\ answer.timeout > 0
       THEN answer.timeout ELSE answer.code

Fails(answer) == ~answer.ok \/ Result(answer) # 0

(* getService of the Gatekeeper, and a new password handle from it.        *)
GatekeeperEnroll(answer) ==
  /\ enrolment.at = "gatekeeper"
  /\ IF Fails(answer) THEN Refused
                      ELSE Enrolls(Gatekeeping("verify", enrolment.challange))
  /\ UNCHANGED hal

(* The token that the answer leaves in auth_token; NoChallenge has length  *)
(* 0.                                                                      *)
TokenOf(answer) ==
  IF answer.code < STATUS_OK THEN Uninitialized
  ELSE IF answer.data THEN enrolment.challange ELSE NoChallenge

GatekeeperVerify(answer) ==
  /\ enrolment.at = "verify"
  /\ IF Fails(answer) \/ TokenOf(answer) = NoChallenge
     THEN Refused
     ELSE Enrolls(Calling(enrolment.challange, TokenOf(answer)))
  /\ UNCHANGED hal

HalEnroll(ret) ==
  /\ enrolment.at = "hal"
  /\ ret = "SYS_OK" => enrolment.token = challenge
  /\ Request(ret, "enroll")
  /\ Enrolls(Returned(ret))

postEnroll(ret) ==
  /\ May(ret)
  /\ challenge' = IF ret = "SYS_OK" THEN NoChallenge ELSE challenge
  /\ UNCHANGED <<bridge, service, listener, activeGroup, running, callbacks>>

-----------------------------------------------------------------------------
(* The sensor's service by itself.  Callbacks to a process that is gone    *)
(* are lost.                                                               *)

Finish(callback) ==
  /\ Room
  /\ \/ running = "enumerate" /\ callback \in {"enumerated", "error"}
     \/ running = "enroll" /\ callback \in {"enrolled", "error"}
  /\ running' = "none"
  /\ callbacks' = IF listener = "ours" THEN Append(callbacks, callback) ELSE callbacks
  /\ UNCHANGED <<bridge, service, listener, activeGroup, challenge>>

ServiceDies ==
  /\ service
  /\ service' = FALSE
  /\ fpHal' = IF fpHal = "live" THEN "dead" ELSE fpHal
  /\ listener' = "none"
  /\ activeGroup' = NoGroup
  /\ running' = "none"
  /\ challenge' = NoChallenge
  /\ UNCHANGED <<tries, enrolment, callbacks>>

ServiceComes ==
  /\ ~service
  /\ service' = TRUE
  /\ UNCHANGED <<bridge, listener, activeGroup, running, challenge, callbacks>>
=============================================================================
