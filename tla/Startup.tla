------------------------------ MODULE Startup ------------------------------
(***************************************************************************)
(* A process of the daemon from main() to its event loop, and again after  *)
(* a crash: the constructors of AndroidFP and FPDCommunity with setUser    *)
(* and registerDBus, on top of "Bridge" and "StorePaths".  What the loop   *)
(* does is in "FPDSystem"; of it only what the start leads to is kept: the *)
(* end of the enumeration, an enrolment and its abort.  systemd, the bus   *)
(* and the services are external.                                          *)
(***************************************************************************)
EXTENDS Bridge, StorePaths

VARIABLES
  main,        \* where the main thread is, see Places
  groupPath,   \* andrPath of setUser
  apiLevels,   \* the properties of the device: first_api_level and sdk
  ownsName,    \* has the process SERVICE_NAME, and its object on the bus?
  onBus,
  m_state,
  binder,      \* is the binder thread about to call postEnroll?
  events,      \* signal of the binder thread, queued for the main thread
  overlapped   \* history: did the enrolment begin before the last was over?

object == <<groupPath, ownsName, onBus, m_state>>
threads == <<binder, events, overlapped>>
startVars == <<bridge, hal, storePaths, main, apiLevels, object, threads>>

ASSUME GroupsAssumption == Groups = GroupPaths

Places == {"down", "new", "setNotify", "setUser", "makePath", "setGroup",
           "enumerate", "registerService", "registerObject", "exec"}
Statuses == {"SYS_OK", "SYS_ERROR"}

StartTypeOK ==
  /\ BridgeTypeOK
  /\ StoreTypeOK
  /\ main \in Places
  /\ groupPath \in GroupPaths \union {NoGroup}
  /\ apiLevels \in [first : ApiLevels \union {Unset}, sdk : ApiLevels]
  /\ ownsName \in BOOLEAN /\ onBus \in BOOLEAN
  /\ m_state \in {"FPSTATE_IDLE", "FPSTATE_ENUMERATING", "FPSTATE_ENROLLING"}
  /\ binder \in BOOLEAN
  /\ events \in {"none", "succeeded", "other"}
  /\ overlapped \in BOOLEAN

FreshProcess ==
  /\ fpHal' = "null" /\ tries' = 0 /\ enrolment' = NotEnrolling
  /\ making' = NotMaking /\ unmade' = {}
  /\ groupPath' = NoGroup
  /\ ownsName' = FALSE /\ onBus' = FALSE
  /\ m_state' = "FPSTATE_IDLE"
  /\ binder' = FALSE /\ events' = "none" /\ overlapped' = FALSE

StartInit ==
  /\ fpHal = "null" /\ tries = 0 /\ enrolment = NotEnrolling
  /\ service \in BOOLEAN
  /\ listener = "none" /\ activeGroup = NoGroup /\ running = "none"
  /\ challenge = NoChallenge /\ callbacks = <<>>
  /\ dirs = [path \in Paths |-> [level \in Levels |-> "missing"]]
  /\ making = NotMaking /\ unmade = {}
  /\ main = "down"
  /\ groupPath = NoGroup
  /\ apiLevels \in [first : ApiLevels \union {Unset}, sdk : ApiLevels]
  /\ ownsName = FALSE /\ onBus = FALSE
  /\ m_state = "FPSTATE_IDLE"
  /\ binder = FALSE /\ events = "none" /\ overlapped = FALSE

-----------------------------------------------------------------------------
(* The constructors.                                                       *)

At(here, next) == main = here /\ main' = next

Start ==
  /\ At("down", "new")
  /\ UNCHANGED <<bridge, hal, storePaths, apiLevels, object, threads>>

New ==
  /\ main = "new"
  /\ init
  /\ main' = IF NewReturns THEN "setNotify" ELSE "new"
  /\ UNCHANGED <<storePaths, apiLevels, object, threads>>

SetNotify ==
  /\ At("setNotify", "setUser")
  /\ setNotify
  /\ UNCHANGED <<storePaths, apiLevels, object, threads>>

SetUser(first, sdk) ==
  /\ At("setUser", "makePath")
  /\ groupPath' = getDefaultGroupPath(first, sdk)
  /\ makePath(groupPath')
  /\ UNCHANGED <<bridge, hal, dirs, unmade, apiLevels, ownsName, onBus, m_state, threads>>

MakeOwnPath ==
  /\ At("makePath", "setGroup")
  /\ making = NotMaking
  /\ makePath(FpdPath)
  /\ UNCHANGED <<bridge, hal, dirs, unmade, apiLevels, object, threads>>

(* A syscall of makePath.  A path that could not be made is only warned of.*)
Make ==
  /\ MakeStep \/ MakeFails
  /\ UNCHANGED <<bridge, hal, main, apiLevels, object, threads>>

(* What setGroup emits when it fails goes to nobody: the object is not on  *)
(* the bus yet.                                                            *)
SetGroup(ret) ==
  /\ At("setGroup", "enumerate")
  /\ making = NotMaking
  /\ setActiveGroup(ret, groupPath)
  /\ UNCHANGED <<storePaths, apiLevels, groupPath, ownsName, onBus, m_state,
                 threads>>

StateAfter(state, ret) == IF ret = "SYS_OK" THEN state ELSE "FPSTATE_IDLE"

Enumerate(ret) ==
  /\ At("enumerate", "registerService")
  /\ enumerate(ret)
  /\ m_state' = StateAfter("FPSTATE_ENUMERATING", ret)
  /\ UNCHANGED <<storePaths, apiLevels, groupPath, ownsName, onBus, threads>>

(* quit() before exec() has no effect: a process that could not register   *)
(* runs its event loop all the same.                                       *)
RegisterService ==
  /\ At("registerService", "registerObject")
  /\ ownsName' = TRUE
  /\ UNCHANGED <<bridge, hal, storePaths, apiLevels, groupPath, onBus, m_state, threads>>

RegisterObject ==
  /\ At("registerObject", "exec")
  /\ onBus' = TRUE
  /\ UNCHANGED <<bridge, hal, storePaths, apiLevels, groupPath, ownsName,
                 m_state, threads>>

RefuseService ==
  /\ At("registerService", "exec")
  /\ UNCHANGED <<bridge, hal, storePaths, apiLevels, object, threads>>

RefuseObject ==
  /\ At("registerObject", "exec")
  /\ UNCHANGED <<bridge, hal, storePaths, apiLevels, object, threads>>

Constructor ==
  \/ Start
  \/ New
  \/ SetNotify
  \/ \E first \in Outputs(apiLevels.first), sdk \in Outputs(apiLevels.sdk) :
       SetUser(first, sdk)
  \/ MakeOwnPath
  \/ Make
  \/ \E ret \in Statuses : SetGroup(ret) \/ Enumerate(ret)
  \/ RegisterService
  \/ RegisterObject

-----------------------------------------------------------------------------
(* The event loop, with a client that enrols and aborts.                   *)

Looping == main = "exec" /\ enrolment = NotEnrolling

Quiet == running = "none" /\ callbacks = <<>> /\ ~binder /\ events = "none"

Enroll ==
  /\ Looping /\ onBus /\ m_state = "FPSTATE_IDLE"
  /\ \E challange \in Challenges \ {challenge} : preEnroll(challange)
  /\ m_state' = "FPSTATE_ENROLLING"
  /\ overlapped' = ~Quiet
  /\ UNCHANGED <<storePaths, main, apiLevels, groupPath, ownsName, onBus, binder, events>>

Enrolling ==
  /\ \/ \E answer \in Answers : GatekeeperEnroll(answer) \/ GatekeeperVerify(answer)
     \/ \E ret \in Statuses : HalEnroll(ret)
  /\ UNCHANGED <<storePaths, main, apiLevels, object, threads>>

EnrollReturns ==
  /\ enrolment.at = "returned"
  /\ Enrolls(NotEnrolling)
  /\ m_state' = StateAfter(m_state, enrolment.ret)
  /\ UNCHANGED <<hal, storePaths, main, apiLevels, groupPath, ownsName, onBus, threads>>

Abort ==
  /\ Looping /\ onBus /\ m_state # "FPSTATE_IDLE"
  /\ cancel
  /\ m_state' = "FPSTATE_IDLE"
  /\ UNCHANGED <<storePaths, main, apiLevels, groupPath, ownsName, onBus, threads>>

(* Each of the signals ends the operation, whichever it is.                *)
Dispatch ==
  /\ Looping /\ events # "none"
  /\ events' = "none"
  /\ m_state' = "FPSTATE_IDLE"
  /\ UNCHANGED <<bridge, hal, storePaths, main, apiLevels, groupPath, ownsName,
                 onBus, binder, overlapped>>

(* The binder thread: the last callback of an enrolment calls postEnroll,  *)
(* the others emit at once.                                                *)
Deliver ==
  /\ ~binder /\ events = "none" /\ callbacks # <<>>
  /\ callbacks' = Tail(callbacks)
  /\ binder' = (Head(callbacks) = "enrolled")
  /\ events' = IF binder' THEN events ELSE "other"
  /\ UNCHANGED <<bridge, service, listener, activeGroup, running, challenge,
                 storePaths, main, apiLevels, object, overlapped>>

PostEnroll(ret) ==
  /\ binder
  /\ postEnroll(ret)
  /\ binder' = FALSE
  /\ events' = IF ret = "SYS_OK" THEN "succeeded" ELSE "other"
  /\ UNCHANGED <<storePaths, main, apiLevels, object, overlapped>>

Binder == Deliver \/ \E ret \in Statuses : PostEnroll(ret)

-----------------------------------------------------------------------------
(* The end of a process: a crash, also of a NULL pointer when the library  *)
(* has not the symbol, a call through a dead handle, or systemd, which     *)
(* waits for the name only so long (Type=dbus).                            *)
ProcessEnds ==
  /\ main # "down"
  /\ main' = "down"
  /\ FreshProcess
  /\ listener' = IF listener = "ours" THEN "old" ELSE listener
  /\ callbacks' = <<>>
  /\ UNCHANGED <<service, activeGroup, running, challenge, dirs, apiLevels>>

CallsDeadService ==
  /\ fpHal = "dead"
  /\ \/ main \in {"setNotify", "enumerate"}
     \/ main = "setGroup" /\ making = NotMaking
     \/ enrolment.at = "hal" \/ binder
  /\ ProcessEnds

StartTimeout == main = "exec" /\ ~ownsName /\ ProcessEnds

Service ==
  /\ \/ ServiceDies \/ ServiceComes
     \/ \E callback \in {"enumerated", "enrolled", "error"} : Finish(callback)
  /\ UNCHANGED <<storePaths, main, apiLevels, object, threads>>

StartNext ==
  \/ Constructor
  \/ RefuseService
  \/ RefuseObject
  \/ Enroll
  \/ Enrolling
  \/ EnrollReturns
  \/ Abort
  \/ Dispatch
  \/ Binder
  \/ CallsDeadService
  \/ StartTimeout
  \/ ProcessEnds
  \/ Service

StartSpec == StartInit /\ [][StartNext]_startVars

(* systemd restarts the process (Restart=always; that its limit of starts  *)
(* in a short time is not reached is assumed) and stops one that takes no  *)
(* name; a thread goes on until it waits for events, and a call through a  *)
(* dead handle ends.                                                       *)
StartFairSpec ==
  /\ StartSpec
  /\ WF_startVars(Constructor)
  /\ WF_startVars(CallsDeadService)
  /\ WF_startVars(StartTimeout)

-----------------------------------------------------------------------------
(* Properties.                                                             *)

(* Whatever earlier starts have left behind, after one in which no step of *)
(* makePath failed both paths are there when setActiveGroup is called.     *)
StoresExist ==
  main \in {"enumerate", "registerService", "registerObject", "exec"}
    => \A path \in {groupPath, FpdPath} \ unmade : Exists(path, Depth)

(* A start never goes on below a directory of its own that has not got its *)
(* permissions and owner.                                                  *)
MadePathsAreComplete ==
  making # NotMaking =>
    \A level \in making.from..(making.level - 1) :
      dirs[making.path][level] = "complete"

(* An operation waits for something: the service runs one of which this    *)
(* process gets the callbacks, or its report is on its way; the exception  *)
(* is a service that has died, which nothing watches.                      *)
WaitsForReport ==
  m_state # "FPSTATE_IDLE" /\ enrolment = NotEnrolling /\ fpHal # "dead"
    => (running # "none" /\ listener = "ours") \/ callbacks # <<>> \/ binder
       \/ events # "none"

(* The token that goes to the sensor is one of the session that is open    *)
(* there.  (The postEnroll of an aborted enrolment that was over already   *)
(* can close the session of the next.)                                     *)
TokenFitsSession ==
  enrolment.at = "hal" /\ fpHal = "live" /\ ~overlapped
    => enrolment.token = challenge /\ challenge # NoChallenge

Serving == main = "exec" /\ ownsName /\ onBus

(* What is left when the object could not be registered: systemd sees the  *)
(* name, and no caller finds anything.                                     *)
Mute == main = "exec" /\ ownsName /\ ~onBus

(* An end of the process that neither its code nor systemd is to blame for.*)
Killed == ProcessEnds /\ fpHal # "dead" /\ ~(main = "exec" /\ ~ownsName)
Fault == Killed \/ RefuseService \/ ServiceDies

(* Unless something keeps failing the daemon comes up, from any leftovers  *)
(* of earlier starts and with or without a sensor: neither the handle of a *)
(* dead service nor systemd's time limit make it start over for ever.      *)
(* Only a process that is refused its object stays as it is: the quit()    *)
(* that should end it has no effect before exec().                         *)
ComesUp == <>[][~Fault]_startVars => <>[](Serving \/ Mute)
=============================================================================
