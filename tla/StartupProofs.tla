---------------------------- MODULE StartupProofs ----------------------------
(***************************************************************************)
(* What holds of every start, for any depth of the paths, number of tries, *)
(* challenges and bound on the callbacks.                                  *)
(***************************************************************************)
EXTENDS Startup, TLAPS

USE DEF Statuses

-----------------------------------------------------------------------------
(* Types.                                                                  *)

LEMMA StartInitTypes ==
  ASSUME StartInit
  PROVE  StartTypeOK
<1>1. BridgeTypeOK
  BY TriesAssumption
  DEF StartInit, BridgeTypeOK, NotEnrolling, NoGroup, NoChallenge
<1>2. StoreTypeOK
  BY DEF StartInit, StoreTypeOK
<1> QED
  BY <1>1, <1>2 DEF StartInit, StartTypeOK, Places

(* The steps that are one step of makePath and nothing else.               *)
LEMMA StorePathTypes ==
  ASSUME StoreTypeOK, NEW path \in Paths,
         \/ makePath(path) /\ UNCHANGED <<dirs, unmade>>
         \/ MakeStep
         \/ MakeFails
  PROVE  StoreTypeOK'
<1>1. CASE makePath(path) /\ UNCHANGED <<dirs, unmade>>
  BY <1>1 DEF StoreTypeOK, makePath
<1>2. CASE MakeStep
  <2>1. making \in [path : Paths, from : Levels, level : Levels]
    BY <1>2 DEF StoreTypeOK, MakeStep
  <2>2. dirs' \in [Paths -> [Levels -> {"missing", "made", "complete"}]]
    BY <1>2, <2>1 DEF StoreTypeOK, MakeStep
  <2>3. making' \in {NotMaking} \union [path : Paths, from : Levels, level : Levels]
    BY <1>2, <2>1, DepthAssumption DEF StoreTypeOK, MakeStep, Levels
  <2> QED
    BY <1>2, <2>2, <2>3 DEF StoreTypeOK, MakeStep
<1>3. CASE MakeFails
  <2>1. making \in [path : Paths, from : Levels, level : Levels]
    BY <1>3 DEF StoreTypeOK, MakeFails
  <2> QED
    BY <1>3, <2>1 DEF StoreTypeOK, MakeFails
<1> QED
  BY <1>1, <1>2, <1>3

(* The calls of the bridge and what the sensor's service does by itself.   *)
LEMMA BridgeTypes ==
  ASSUME BridgeTypeOK,
         \/ init /\ tries < Tries
         \/ setNotify
         \/ \E ret \in Statuses, path \in Groups : setActiveGroup(ret, path)
         \/ \E ret \in Statuses : enumerate(ret)
         \/ cancel
         \/ \E challange \in Challenges : preEnroll(challange)
         \/ \E ret \in Statuses : postEnroll(ret)
  PROVE  BridgeTypeOK'
<1> USE DEF BridgeTypeOK, May
<1>1. CASE init /\ tries < Tries
  BY <1>1, TriesAssumption DEF init, hal
<1>2. CASE setNotify
  BY <1>2 DEF setNotify, bridge
<1>3. CASE \E ret \in Statuses, path \in Groups : setActiveGroup(ret, path)
  BY <1>3 DEF setActiveGroup, bridge
<1>4. CASE \E ret \in Statuses : enumerate(ret)
  BY <1>4 DEF enumerate, Request, bridge
<1>5. CASE cancel
  BY <1>5 DEF cancel, bridge
<1>6. CASE \E challange \in Challenges : preEnroll(challange)
  BY <1>6 DEF preEnroll, Enrolls, Gatekeeping, Refused, Returned
<1>7. CASE \E ret \in Statuses : postEnroll(ret)
  BY <1>7 DEF postEnroll, bridge
<1> QED
  BY <1>1, <1>2, <1>3, <1>4, <1>5, <1>6, <1>7

LEMMA EnrolmentHasChallenge ==
  ASSUME BridgeTypeOK, enrolment.at \in {"gatekeeper", "verify", "hal"}
  PROVE  enrolment.challange \in Challenges
BY DEF BridgeTypeOK, NotEnrolling, Returned

LEMMA ReturnedIs ==
  ASSUME BridgeTypeOK, enrolment.at = "returned"
  PROVE  enrolment \in {Returned("SYS_OK"), Returned("SYS_ERROR")}
BY DEF BridgeTypeOK, NotEnrolling

(* The steps of enroll() behind the first.                                 *)
LEMMA EnrollingTypes ==
  ASSUME BridgeTypeOK,
         \/ \E answer \in Answers : GatekeeperEnroll(answer)
         \/ \E answer \in Answers : GatekeeperVerify(answer)
         \/ \E ret \in Statuses : HalEnroll(ret)
         \/ Enrolls(NotEnrolling) /\ UNCHANGED hal
  PROVE  BridgeTypeOK'
<1> USE DEF BridgeTypeOK, Enrolls, Refused, Returned
<1>1. ASSUME NEW answer \in Answers, GatekeeperEnroll(answer)
      PROVE  BridgeTypeOK'
  <2>1. enrolment.challange \in Challenges
    BY <1>1, EnrolmentHasChallenge DEF GatekeeperEnroll
  <2>2. enrolment' \in {Returned("SYS_ERROR")}
          \union [at : {"gatekeeper", "verify"}, challange : Challenges]
    BY <1>1, <2>1 DEF GatekeeperEnroll, Gatekeeping
  <2> QED
    BY <1>1, <2>2 DEF GatekeeperEnroll, hal
<1>2. ASSUME NEW answer \in Answers, GatekeeperVerify(answer)
      PROVE  BridgeTypeOK'
  <2>1. enrolment.challange \in Challenges
    BY <1>2, EnrolmentHasChallenge DEF GatekeeperVerify
  <2>2. TokenOf(answer) \in Challenges \union {NoChallenge, Uninitialized}
    BY <2>1 DEF TokenOf
  <2>3. enrolment' \in {Returned("SYS_ERROR")}
          \union [at : {"hal"}, challange : Challenges,
                  token : Challenges \union {NoChallenge, Uninitialized}]
    BY <1>2, <2>1, <2>2 DEF GatekeeperVerify, Calling
  <2> QED
    BY <1>2, <2>3 DEF GatekeeperVerify, hal
<1>3. CASE \E ret \in Statuses : HalEnroll(ret)
  BY <1>3 DEF HalEnroll, Request
<1>4. CASE Enrolls(NotEnrolling) /\ UNCHANGED hal
  BY <1>4 DEF hal
<1> QED
  BY <1>1, <1>2, <1>3, <1>4

LEMMA ServiceTypes ==
  ASSUME BridgeTypeOK,
         \/ \E callback \in {"enumerated", "enrolled", "error"} : Finish(callback)
         \/ ServiceDies
         \/ ServiceComes
  PROVE  BridgeTypeOK'
<1> USE DEF BridgeTypeOK, bridge
<1>1. CASE \E callback \in {"enumerated", "enrolled", "error"} : Finish(callback)
  BY <1>1 DEF Finish
<1>2. CASE ServiceDies
  BY <1>2 DEF ServiceDies
<1>3. CASE ServiceComes
  BY <1>3 DEF ServiceComes
<1> QED
  BY <1>1, <1>2, <1>3

(* The same of a process that ends, and of its variables.                  *)
LEMMA EndTypes ==
  ASSUME StartTypeOK, ProcessEnds
  PROVE  StartTypeOK'
<1>1. BridgeTypeOK'
  BY TriesAssumption DEF StartTypeOK, BridgeTypeOK, ProcessEnds, FreshProcess
<1>2. StoreTypeOK'
  BY DEF StartTypeOK, StoreTypeOK, ProcessEnds, FreshProcess
<1> QED
  BY <1>1, <1>2 DEF StartTypeOK, ProcessEnds, FreshProcess, Places

LEMMA GroupPathTypes == \A first, sdk : getDefaultGroupPath(first, sdk) \in GroupPaths
BY DEF getDefaultGroupPath, PathOfLevel, GroupPaths

(* The turns of the loop in u_hardware_biometry_new are counted; without   *)
(* this the types are not inductive.                                       *)
TurnsLeft == main \in {"down", "new"} => tries < Tries

LEMMA ConstructorTypes ==
  ASSUME StartTypeOK, TurnsLeft, Constructor
  PROVE  StartTypeOK'
<1> USE DEF StartTypeOK, object, threads, At, Places
<1>0. UNCHANGED <<bridge, hal>> => BridgeTypeOK'
  BY DEF BridgeTypeOK, bridge, hal
<1>00. UNCHANGED storePaths => StoreTypeOK'
  BY DEF StoreTypeOK, storePaths
<1>1. CASE Start
  BY <1>1, <1>0, <1>00 DEF Start
<1>2. CASE New
  <2>1. BridgeTypeOK'
    BY <1>2, BridgeTypes DEF New, TurnsLeft
  <2> QED
    BY <1>2, <2>1, <1>00 DEF New
<1>3. CASE SetNotify
  <2>1. BridgeTypeOK'
    BY <1>3, BridgeTypes DEF SetNotify
  <2> QED
    BY <1>3, <2>1, <1>00 DEF SetNotify
<1>4. ASSUME NEW first, NEW sdk, SetUser(first, sdk)
      PROVE  StartTypeOK'
  <2>1. groupPath' \in GroupPaths
    BY <1>4, GroupPathTypes DEF SetUser
  <2>2. StoreTypeOK'
    BY <1>4, <2>1, StorePathTypes DEF SetUser, Paths
  <2> QED
    BY <1>4, <2>1, <2>2, <1>0 DEF SetUser
<1>5. CASE MakeOwnPath
  <2>1. StoreTypeOK'
    BY <1>5, StorePathTypes DEF MakeOwnPath, Paths
  <2> QED
    BY <1>5, <2>1, <1>0 DEF MakeOwnPath
<1>6. CASE Make
  <2>1. StoreTypeOK'
    BY <1>6, StorePathTypes DEF Make, Paths
  <2> QED
    BY <1>6, <2>1, <1>0 DEF Make
<1>7. ASSUME NEW ret \in Statuses, SetGroup(ret)
      PROVE  StartTypeOK'
  <2>1. groupPath \in GroupPaths => BridgeTypeOK'
    BY <1>7, BridgeTypes, GroupsAssumption DEF SetGroup
  <2>2. BridgeTypeOK'
    BY <1>7, <2>1 DEF SetGroup, setActiveGroup, BridgeTypeOK, bridge, May
  <2> QED
    BY <1>7, <2>2, <1>00 DEF SetGroup
<1>8. ASSUME NEW ret \in Statuses, Enumerate(ret)
      PROVE  StartTypeOK'
  <2>1. BridgeTypeOK'
    BY <1>8, BridgeTypes DEF Enumerate
  <2> QED
    BY <1>8, <2>1, <1>00 DEF Enumerate, StateAfter
<1>9. CASE RegisterService \/ RegisterObject
  BY <1>9, <1>0, <1>00 DEF RegisterService, RegisterObject
<1> QED
  BY <1>1, <1>2, <1>3, <1>4, <1>5, <1>6, <1>7, <1>8, <1>9 DEF Constructor

LEMMA LoopTypes ==
  ASSUME StartTypeOK,
         \/ Enroll \/ Enrolling \/ EnrollReturns \/ Abort \/ Dispatch \/ Binder
         \/ Service \/ RefuseService \/ RefuseObject
  PROVE  StartTypeOK'
<1> USE DEF StartTypeOK, object, threads, At, Places
<1>0. UNCHANGED <<bridge, hal>> => BridgeTypeOK'
  BY DEF BridgeTypeOK, bridge, hal
<1>00. UNCHANGED storePaths => StoreTypeOK'
  BY DEF StoreTypeOK, storePaths
<1>1. CASE Enroll
  <2>1. BridgeTypeOK'
    BY <1>1, BridgeTypes DEF Enroll
  <2>2. overlapped' \in BOOLEAN
    BY <1>1 DEF Enroll
  <2> QED
    BY <1>1, <2>1, <2>2, <1>00 DEF Enroll
<1>2. CASE Enrolling
  <2>1. BridgeTypeOK'
    BY <1>2, EnrollingTypes DEF Enrolling
  <2> QED
    BY <1>2, <2>1, <1>00 DEF Enrolling
<1>3. CASE EnrollReturns
  <2>1. BridgeTypeOK'
    BY <1>3, EnrollingTypes DEF EnrollReturns
  <2> QED
    BY <1>3, <2>1, <1>00 DEF EnrollReturns, StateAfter
<1>4. CASE Abort
  <2>1. BridgeTypeOK'
    BY <1>4, BridgeTypes DEF Abort
  <2> QED
    BY <1>4, <2>1, <1>00 DEF Abort
<1>5. CASE Dispatch
  BY <1>5, <1>0, <1>00 DEF Dispatch
<1>6. CASE Deliver
  <2>1. BridgeTypeOK'
    BY <1>6 DEF Deliver, BridgeTypeOK, bridge
  <2>2. binder' \in BOOLEAN
    BY <1>6 DEF Deliver
  <2> QED
    BY <1>6, <2>1, <2>2, <1>00 DEF Deliver
<1>7. ASSUME NEW ret \in Statuses, PostEnroll(ret)
      PROVE  StartTypeOK'
  <2>1. BridgeTypeOK'
    BY <1>7, BridgeTypes DEF PostEnroll
  <2> QED
    BY <1>7, <2>1, <1>00 DEF PostEnroll
<1>8. CASE Service
  <2>1. BridgeTypeOK'
    BY <1>8, ServiceTypes DEF Service
  <2> QED
    BY <1>8, <2>1, <1>00 DEF Service
<1>9. CASE RefuseService \/ RefuseObject
  BY <1>9, <1>0, <1>00 DEF RefuseService, RefuseObject
<1> QED
  BY <1>1, <1>2, <1>3, <1>4, <1>5, <1>6, <1>7, <1>8, <1>9 DEF Binder

LEMMA TypesStep ==
  ASSUME StartTypeOK, TurnsLeft, [StartNext]_startVars
  PROVE  StartTypeOK'
<1>1. CASE UNCHANGED startVars
  BY <1>1 DEF startVars, bridge, hal, storePaths, object, threads, StartTypeOK,
              BridgeTypeOK, StoreTypeOK
<1>2. CASE CallsDeadService \/ StartTimeout \/ ProcessEnds
  BY <1>2, EndTypes DEF CallsDeadService, StartTimeout
<1> QED
  BY <1>1, <1>2, ConstructorTypes, LoopTypes DEF StartNext

LEMMA TurnsStep ==
  ASSUME StartTypeOK, TurnsLeft, [StartNext]_startVars
  PROVE  TurnsLeft'
<1> USE DEF TurnsLeft, At
<1>1. CASE CallsDeadService \/ StartTimeout \/ ProcessEnds
  BY <1>1, TriesAssumption DEF CallsDeadService, StartTimeout, ProcessEnds, FreshProcess
<1>2. CASE New
  <2>1. tries \in 0..Tries /\ tries < Tries
    BY <1>2 DEF New, StartTypeOK, BridgeTypeOK
  <2>2. main' = "new" => tries' = tries + 1 /\ tries' # Tries
    BY <1>2 DEF New, init, NewReturns
  <2>3. main' # "down"
    BY <1>2 DEF New
  <2> QED
    BY <2>1, <2>2, <2>3, TriesAssumption
<1>3. CASE Start \/ UNCHANGED startVars
  BY <1>3 DEF Start, startVars, bridge
<1>4. CASE Make \/ Service \/ Dispatch \/ Enroll \/ Enrolling \/ EnrollReturns \/ Abort
  BY <1>4 DEF Make, Service, Dispatch, Enroll, Enrolling, EnrollReturns, Abort,
    bridge, Finish, ServiceDies, ServiceComes, Enrolls, GatekeeperEnroll,
    GatekeeperVerify, HalEnroll, cancel, preEnroll, Refused
<1>5. CASE Binder
  BY <1>5 DEF Binder, Deliver, PostEnroll, postEnroll, bridge
<1>6. CASE \/ SetNotify \/ MakeOwnPath \/ RegisterService \/ RegisterObject
           \/ RefuseService \/ RefuseObject
           \/ \E first \in Outputs(apiLevels.first), sdk \in Outputs(apiLevels.sdk) :
                SetUser(first, sdk)
           \/ \E ret \in Statuses : SetGroup(ret) \/ Enumerate(ret)
  BY <1>6 DEF SetNotify, MakeOwnPath, RegisterService, RegisterObject,
    RefuseService, RefuseObject, SetUser, SetGroup, Enumerate
<1>7. CASE Constructor
  BY <1>2, <1>3, <1>4, <1>6, <1>7 DEF Constructor
<1> QED
  BY <1>1, <1>3, <1>4, <1>5, <1>6, <1>7 DEF StartNext

(* The types hold of every start.                                          *)
THEOREM StartTypesCorrect == StartSpec => []StartTypeOK
<1>1. StartInit => StartTypeOK /\ TurnsLeft
  <2>1. StartInit => tries = 0
    BY DEF StartInit
  <2> QED
    BY <2>1, StartInitTypes, TriesAssumption DEF TurnsLeft
<1>2. StartTypeOK /\ TurnsLeft /\ [StartNext]_startVars => (StartTypeOK /\ TurnsLeft)'
  BY TypesStep, TurnsStep
<1> QED
  BY <1>1, <1>2, PTL DEF StartSpec

-----------------------------------------------------------------------------
(* Paths.                                                                  *)

Early == {"down", "new", "setNotify", "setUser"}
Late == {"enumerate", "registerService", "registerObject", "exec"}

(* All but four kinds of steps leave the paths alone, and stay before or   *)
(* behind the part of setUser that makes them.                             *)
LEMMA PathSteps ==
  ASSUME [StartNext]_startVars
  PROVE  \/ ProcessEnds
         \/ \E first, sdk : SetUser(first, sdk)
         \/ MakeOwnPath
         \/ Make
         \/ \E ret : SetGroup(ret)
         \/ /\ UNCHANGED <<storePaths, groupPath>>
            /\ \/ main' = main
               \/ main \in Early /\ main' \in Early
               \/ main \in Late /\ main' \in Late
<1> USE DEF Early, Late, At, object
<1>1. CASE UNCHANGED startVars
  BY <1>1 DEF startVars
<1>2. CASE CallsDeadService \/ StartTimeout
  BY <1>2 DEF CallsDeadService, StartTimeout
<1>3. CASE Start \/ New \/ SetNotify
  BY <1>3 DEF Start, New, SetNotify
<1>4. CASE RegisterService \/ RegisterObject \/ RefuseService \/ RefuseObject
  BY <1>4 DEF RegisterService, RegisterObject, RefuseService, RefuseObject
<1>5. CASE \E ret \in Statuses : Enumerate(ret)
  BY <1>5 DEF Enumerate
<1>6. CASE Enroll \/ Enrolling \/ EnrollReturns \/ Abort \/ Dispatch \/ Service
  BY <1>6 DEF Enroll, Enrolling, EnrollReturns, Abort, Dispatch, Service
<1>7. CASE Binder
  BY <1>7 DEF Binder, Deliver, PostEnroll
<1> QED
  BY <1>1, <1>2, <1>3, <1>4, <1>5, <1>6, <1>7 DEF StartNext, Constructor

(* MadePathsAreComplete is inductive as it stands: a directory is left     *)
(* behind only when it is complete, and no call undoes that.               *)
LEMMA MadePathsStep ==
  ASSUME StartTypeOK, MadePathsAreComplete, [StartNext]_startVars
  PROVE  MadePathsAreComplete'
<1>0. ASSUME NEW path, makePath(path), UNCHANGED dirs
      PROVE  MadePathsAreComplete'
  <2>1. making' = making \/ \E first \in Levels :
          making' = [path |-> path, from |-> first, level |-> first]
    BY <1>0 DEF makePath
  <2>2. ASSUME NEW first \in Levels,
               making' = [path |-> path, from |-> first, level |-> first]
        PROVE  MadePathsAreComplete'
    <3>1. making'.from..(making'.level - 1) = {}
      BY <2>2 DEF Levels
    <3> QED
      BY <3>1 DEF MadePathsAreComplete
  <2>3. CASE making' = making
    BY <1>0, <2>3 DEF MadePathsAreComplete
  <2> QED
    BY <2>1, <2>2, <2>3
<1>1. CASE ProcessEnds
  BY <1>1 DEF ProcessEnds, FreshProcess, MadePathsAreComplete
<1>2. CASE \E first, sdk : SetUser(first, sdk)
  BY <1>2, <1>0 DEF SetUser
<1>3. CASE MakeOwnPath
  BY <1>3, <1>0 DEF MakeOwnPath
<1>4. CASE MakeStep
  <2> DEFINE path == making.path
             level == making.level
  <2>1. /\ making # NotMaking
        /\ path \in Paths /\ level \in Levels /\ making.from \in Levels
        /\ making \in [path : Paths, from : Levels, level : Levels]
        /\ dirs \in [Paths -> [Levels -> {"missing", "made", "complete"}]]
    BY <1>4 DEF MakeStep, StartTypeOK, StoreTypeOK
  <2>2. \A other \in Levels \ {level} : dirs'[path][other] = dirs[path][other]
    BY <1>4, <2>1 DEF MakeStep
  <2>3. \A other \in making.from..(level - 1) :
          other \in Levels \ {level} /\ dirs[path][other] = "complete"
    BY <2>1, DepthAssumption DEF MadePathsAreComplete, Levels
  <2>4. CASE making' = making
    BY <2>2, <2>3, <2>4 DEF MadePathsAreComplete
  <2>5. CASE making' = NotMaking
    BY <2>5 DEF MadePathsAreComplete
  <2>6. CASE /\ making' = [making EXCEPT !.level = level + 1]
             /\ dirs' = [dirs EXCEPT ![path][level] = "complete"]
    <3>1. making'.path = path /\ making'.from = making.from /\ making'.level = level + 1
      BY <2>1, <2>6
    <3>2. making.from..((level + 1) - 1) \subseteq making.from..(level - 1) \union {level}
      BY <2>1 DEF Levels
    <3>3. dirs'[path][level] = "complete"
      BY <2>1, <2>6
    <3> QED
      BY <2>2, <2>3, <3>1, <3>2, <3>3 DEF MadePathsAreComplete
  <2> QED
    BY <1>4, <2>4, <2>5, <2>6 DEF MakeStep
<1>5. CASE MakeFails
  BY <1>5 DEF MakeFails, MadePathsAreComplete
<1>6. CASE UNCHANGED storePaths
  BY <1>6 DEF storePaths, MadePathsAreComplete
<1>7. CASE \E ret : SetGroup(ret)
  BY <1>6, <1>7 DEF SetGroup
<1> QED
  BY <1>1, <1>2, <1>3, <1>4, <1>5, <1>6, <1>7, PathSteps DEF Make, storePaths

(* A path is there, or is being made, or could not be made.                *)
Sought(path) ==
  \/ Exists(path, Depth)
  \/ path \in unmade
  \/ making # NotMaking /\ making.path = path

PathsInv ==
  /\ making # NotMaking =>
       \/ main = "makePath" /\ making.path = groupPath
       \/ main = "setGroup" /\ making.path = FpdPath
  /\ main \notin Early => groupPath \in GroupPaths /\ Sought(groupPath)
  /\ main \in Late \union {"setGroup"} => Sought(FpdPath)

(* A step of makePath never loses a path that was sought.                  *)
LEMMA SoughtStays ==
  ASSUME StoreTypeOK, NEW path \in Paths, Sought(path), MakeStep \/ MakeFails
  PROVE  Sought(path)'
<1>1. Depth \in Levels
  BY DepthAssumption DEF Levels
<1>2. /\ making \in [path : Paths, from : Levels, level : Levels]
      /\ making # NotMaking
      /\ dirs \in [Paths -> [Levels -> {"missing", "made", "complete"}]]
  BY DEF StoreTypeOK, MakeStep, MakeFails
<1>3. CASE MakeFails
  BY <1>3 DEF MakeFails, Sought, Exists
<1>4. CASE MakeStep
  <2>1. Exists(path, Depth) => Exists(path, Depth)'
    BY <1>1, <1>2, <1>4 DEF MakeStep, Exists
  <2>2. unmade' = unmade
    BY <1>4 DEF MakeStep
  <2>3. CASE making' = making
    BY <2>1, <2>2, <2>3 DEF Sought
  <2>4. CASE making' = NotMaking /\ making.level = Depth
             /\ dirs' = [dirs EXCEPT ![making.path][making.level] = "complete"]
    <3>1. dirs'[making.path][Depth] # "missing"
      BY <1>1, <1>2, <2>4
    <3> QED
      BY <2>1, <2>2, <3>1 DEF Sought, Exists
  <2>5. CASE making' = [making EXCEPT !.level = making.level + 1]
    <3>1. making'.path = making.path
      BY <1>2, <2>5
    <3>2. making.path \in Paths /\ "none" \notin Paths
      BY <1>2 DEF Paths, GroupPaths, LegacyPath, VendorPath, FpdPath
    <3>3. making' # NotMaking
      BY <3>1, <3>2 DEF NotMaking
    <3> QED
      BY <2>1, <2>2, <3>1, <3>3 DEF Sought
  <2> QED
    BY <1>4, <2>3, <2>4, <2>5 DEF MakeStep
<1> QED
  BY <1>3, <1>4

LEMMA PathsStep ==
  ASSUME StartTypeOK, PathsInv, [StartNext]_startVars
  PROVE  PathsInv'
<1>0. /\ main \in Places
      /\ StoreTypeOK
      /\ GroupPaths \subseteq Paths /\ FpdPath \in Paths
      /\ Early \intersect (Late \union {"makePath", "setGroup"}) = {}
      /\ Places = Early \union Late \union {"makePath", "setGroup"}
  BY DEF StartTypeOK, Paths, Early, Late, Places
<1>1. ASSUME NEW path \in Paths, makePath(path), UNCHANGED <<dirs, unmade>>,
             making = NotMaking
      PROVE  /\ Sought(path)'
             /\ making' # NotMaking => making'.path = path
             /\ \A other : Sought(other) => Sought(other)'
  <2>1. \A other : Sought(other) => Sought(other)'
    BY <1>1 DEF Sought, Exists
  <2>2. CASE Exists(path, Depth)
    BY <1>1, <2>1, <2>2 DEF makePath, Sought
  <2>3. CASE ~Exists(path, Depth)
    <3>1. PICK first \in Levels :
            making' = [path |-> path, from |-> first, level |-> first]
      BY <1>1, <2>3 DEF makePath
    <3>2. making'.path = path /\ path # "none"
      BY <3>1 DEF Paths, GroupPaths, LegacyPath, VendorPath, FpdPath
    <3> QED
      BY <2>1, <3>2 DEF Sought, NotMaking
  <2> QED
    BY <2>2, <2>3
<1>2. CASE ProcessEnds
  BY <1>2 DEF ProcessEnds, FreshProcess, PathsInv, Early, Late
<1>3. CASE \E first, sdk : SetUser(first, sdk)
  <2>1. making = NotMaking
    BY <1>3 DEF SetUser, At, PathsInv
  <2>2. groupPath' \in GroupPaths /\ main' = "makePath"
    BY <1>3, GroupPathTypes DEF SetUser, At
  <2>3. Sought(groupPath)' /\ (making' # NotMaking => making'.path = groupPath')
    <3>1. makePath(groupPath') /\ UNCHANGED <<dirs, unmade>> /\ groupPath' \in Paths
      BY <1>0, <1>3, <2>2 DEF SetUser
    <3> QED
      BY <1>1, <2>1, <3>1 DEF Sought
  <2> QED
    BY <2>2, <2>3 DEF PathsInv, Late
<1>4. CASE MakeOwnPath
  <2>1. Sought(FpdPath)' /\ (making' # NotMaking => making'.path = FpdPath)
    BY <1>0, <1>1, <1>4 DEF MakeOwnPath
  <2>2. Sought(groupPath)'
    BY <1>0, <1>1, <1>4 DEF MakeOwnPath, PathsInv, At, Early, object, Sought
  <2>3. main' = "setGroup" /\ groupPath' = groupPath /\ groupPath \in GroupPaths
    BY <1>4 DEF MakeOwnPath, PathsInv, At, Early, object
  <2> QED
    BY <2>1, <2>2, <2>3 DEF PathsInv
<1>5. CASE Make
  <2>1. \A path \in Paths : Sought(path) => Sought(path)'
    BY <1>0, <1>5, SoughtStays DEF Make
  <2>2. main' = main /\ groupPath' = groupPath
    BY <1>5 DEF Make, object
  <2>3. making' # NotMaking => making # NotMaking /\ making'.path = making.path
    <3>1. making # NotMaking => making \in [path : Paths, from : Levels, level : Levels]
      BY <1>0 DEF StoreTypeOK
    <3> QED
      BY <1>5, <3>1 DEF Make, MakeStep, MakeFails
  <2>4. Sought(groupPath) /\ groupPath \in Paths => Sought(groupPath)'
    BY <2>1, <2>2 DEF Sought
  <2> QED
    BY <1>0, <2>1, <2>2, <2>3, <2>4 DEF PathsInv
<1>6. CASE \E ret : SetGroup(ret)
  BY <1>6 DEF SetGroup, At, storePaths, PathsInv, Sought, Exists, Early, Late
<1>7. CASE UNCHANGED <<storePaths, groupPath, main>>
  BY <1>7 DEF storePaths, PathsInv, Sought, Exists
<1>8. CASE /\ UNCHANGED <<storePaths, groupPath>>
           /\ \/ main \in Early /\ main' \in Early
              \/ main \in Late /\ main' \in Late
  BY <1>0, <1>8 DEF storePaths, PathsInv, Sought, Exists, Early, Late
<1> QED
  BY <1>2, <1>3, <1>4, <1>5, <1>6, <1>7, <1>8, PathSteps

(* A start never builds on a directory of its own that is not complete:    *)
(* whatever failed or crashed, makePath has left for good what it could    *)
(* not finish, or it made owner and permissions right before it went on.   *)
THEOREM MadePathsStayComplete == StartSpec => []MadePathsAreComplete
<1>1. StartInit => MadePathsAreComplete
  BY DEF StartInit, MadePathsAreComplete
<1> QED
  BY <1>1, MadePathsStep, StartTypesCorrect, PTL DEF StartSpec

(* Behind makePath the two paths are there or were reported not to be,     *)
(* whatever earlier starts have left.                                      *)
THEOREM PathsAreMade == StartSpec => []StoresExist
<1>1. StartInit => PathsInv
  BY DEF StartInit, PathsInv, Early, Late
<1>2. StartTypeOK /\ PathsInv /\ [StartNext]_startVars => PathsInv'
  BY PathsStep
<1>3. PathsInv => StoresExist
  BY DEF PathsInv, StoresExist, Sought, Early, Late
<1> QED
  BY <1>1, <1>2, <1>3, StartTypesCorrect, PTL DEF StartSpec

-----------------------------------------------------------------------------
(* The handle, the operation and the session.                              *)

(* Once setNotify has been called on a live handle the callbacks are ours; *)
(* without a handle nothing is under way but a call that is about to fail. *)
HandleInv ==
  /\ fpHal = "live" /\ main \notin {"down", "new", "setNotify"} => listener = "ours"
  /\ fpHal = "null" => /\ m_state = "FPSTATE_IDLE" \/ enrolment # NotEnrolling
                       /\ enrolment # Returned("SYS_OK")
  /\ enrolment # NotEnrolling => main = "exec"
  /\ m_state # "FPSTATE_IDLE" => main \in {"registerService", "registerObject", "exec"}

Awaited ==
  \/ running # "none" /\ listener = "ours"
  \/ callbacks # <<>>
  \/ binder
  \/ events # "none"

(* Also between the sensor's consent and the return of enroll().           *)
AwaitInv ==
  fpHal # "dead" =>
    /\ m_state # "FPSTATE_IDLE" /\ enrolment = NotEnrolling => Awaited
    /\ enrolment = Returned("SYS_OK") => Awaited

(* While enroll() runs, nothing of an earlier enrolment can touch the      *)
(* session, which is therefore the one it has opened.                      *)
SessionInv ==
  /\ ~overlapped /\ fpHal = "live" /\ enrolment.at \in {"gatekeeper", "verify", "hal"}
       => Quiet /\ challenge = enrolment.challange
  /\ enrolment.at = "hal" => enrolment.token = enrolment.challange

(* What the token is when the Gatekeeper has not refused: auth_token is    *)
(* never read uninitialized.                                               *)
LEMMA TokenIsAssigned ==
  ASSUME NEW answer \in Answers, ~Fails(answer), TokenOf(answer) # NoChallenge
  PROVE  TokenOf(answer) = enrolment.challange
<1>1. answer.ok /\ Result(answer) = 0
  BY DEF Fails
<1>2. answer # NoAnswer
  BY <1>1 DEF NoAnswer
<1>3. /\ answer.code \in {STATUS_OK, STATUS_REENROLL, ERROR_RETRY_TIMEOUT}
      /\ answer.timeout \in {0, 30}
  BY <1>2, Zenon DEF Answers
<1>4. answer.code >= STATUS_OK
  BY <1>1, <1>3 DEF Result, STATUS_OK, STATUS_REENROLL, ERROR_RETRY_TIMEOUT
<1>5. ~(answer.code < STATUS_OK)
  BY <1>3, <1>4 DEF STATUS_OK, STATUS_REENROLL, ERROR_RETRY_TIMEOUT
<1> QED
  BY <1>5 DEF TokenOf

LEMMA HandleStep ==
  ASSUME StartTypeOK, HandleInv, [StartNext]_startVars
  PROVE  HandleInv'
<1> USE DEF HandleInv, At, object, bridge, hal
<1>1. CASE UNCHANGED startVars
  BY <1>1 DEF startVars
<1>2. CASE CallsDeadService \/ StartTimeout \/ ProcessEnds
  BY <1>2 DEF CallsDeadService, StartTimeout, ProcessEnds, FreshProcess, NotEnrolling, Returned
<1>3. CASE Start \/ New \/ SetNotify
  <2>1. m_state = "FPSTATE_IDLE" /\ enrolment = NotEnrolling
    BY <1>3 DEF Start, New, SetNotify
  <2>2. CASE Start
    BY <2>2 DEF Start
  <2>3. CASE New
    <3>1. main' \in {"new", "setNotify"}
      BY <2>3 DEF New
    <3>2. m_state' = m_state /\ enrolment' = enrolment
      BY <2>3 DEF New, init
    <3> QED
      BY <2>1, <3>1, <3>2 DEF NotEnrolling, Returned
  <2>4. CASE SetNotify
    BY <2>4 DEF SetNotify, setNotify
  <2> QED
    BY <1>3, <2>2, <2>3, <2>4
<1>4. CASE \/ MakeOwnPath \/ RegisterService \/ RegisterObject
           \/ RefuseService \/ RefuseObject \/ Make
           \/ \E first, sdk : SetUser(first, sdk)
  BY <1>4 DEF MakeOwnPath, RegisterService, RegisterObject, RefuseService,
    RefuseObject, Make, SetUser
<1>5. CASE \E ret \in Statuses : SetGroup(ret) \/ Enumerate(ret)
  BY <1>5 DEF SetGroup, Enumerate, setActiveGroup, enumerate, Request, May, StateAfter
<1>6. CASE Enroll
  BY <1>6 DEF Enroll, Looping, preEnroll, Enrolls, Refused, Gatekeeping, Returned, NotEnrolling
<1>7. CASE Enrolling
  <2>1. enrolment # NotEnrolling
    BY <1>7 DEF Enrolling, GatekeeperEnroll, GatekeeperVerify, HalEnroll, NotEnrolling
  <2>2. UNCHANGED <<main, m_state, listener, fpHal>>
    BY <1>7 DEF Enrolling, GatekeeperEnroll, GatekeeperVerify, HalEnroll, Request,
      Refused, Enrolls
  <2>3. enrolment' = Returned("SYS_OK") => fpHal = "live"
    <3>1. ASSUME NEW answer \in Answers, GatekeeperEnroll(answer) \/ GatekeeperVerify(answer)
          PROVE  enrolment' # Returned("SYS_OK")
      BY <3>1 DEF GatekeeperEnroll, GatekeeperVerify, Enrolls, Refused, Gatekeeping,
        Calling, Returned
    <3>2. ASSUME NEW ret \in Statuses, HalEnroll(ret)
          PROVE  enrolment' = Returned("SYS_OK") => fpHal = "live"
      BY <3>2 DEF HalEnroll, Request, May, Enrolls, Returned
    <3> QED
      BY <1>7, <3>1, <3>2 DEF Enrolling
  <2>4. enrolment' # NotEnrolling
    BY <1>7 DEF Enrolling, GatekeeperEnroll, GatekeeperVerify, HalEnroll, Enrolls,
      Refused, Gatekeeping, Calling, Returned, NotEnrolling
  <2> QED
    BY <2>1, <2>2, <2>3, <2>4
<1>8. CASE EnrollReturns
  <2>1. enrolment \in {Returned("SYS_OK"), Returned("SYS_ERROR")}
    BY <1>8, ReturnedIs DEF EnrollReturns, StartTypeOK
  <2>2. enrolment # NotEnrolling /\ enrolment' = NotEnrolling /\ NotEnrolling # Returned("SYS_OK")
    BY <1>8 DEF EnrollReturns, Enrolls, NotEnrolling, Returned
  <2>3. enrolment = Returned("SYS_ERROR") => m_state' = "FPSTATE_IDLE"
    BY <1>8 DEF EnrollReturns, StateAfter, Returned
  <2>4. UNCHANGED <<main, listener, fpHal>>
    BY <1>8 DEF EnrollReturns, Enrolls
  <2> QED
    BY <2>1, <2>2, <2>3, <2>4
<1>9. CASE Abort \/ Dispatch
  BY <1>9 DEF Abort, Dispatch, Looping, cancel
<1>10. CASE Binder
  BY <1>10 DEF Binder, Deliver, PostEnroll, postEnroll
<1>11. CASE Service
  BY <1>11 DEF Service, Finish, ServiceDies, ServiceComes
<1> QED
  BY <1>1, <1>2, <1>3, <1>4, <1>5, <1>6, <1>7, <1>8, <1>9, <1>10, <1>11
  DEF StartNext, Constructor

LEMMA AwaitStep ==
  ASSUME StartTypeOK, HandleInv, AwaitInv, [StartNext]_startVars
  PROVE  AwaitInv'
<1> USE DEF AwaitInv, At, object, bridge, hal, threads
<1>0. ASSUME UNCHANGED <<fpHal, m_state, enrolment>>, Awaited => Awaited'
      PROVE  AwaitInv'
  BY <1>0
<1>1. CASE UNCHANGED startVars
  BY <1>1, <1>0 DEF startVars, Awaited
<1>2. CASE CallsDeadService \/ StartTimeout \/ ProcessEnds
  BY <1>2 DEF CallsDeadService, StartTimeout, ProcessEnds, FreshProcess,
     NotEnrolling, Returned
<1>3. CASE \/ Start \/ New \/ SetNotify \/ MakeOwnPath
           \/ \E first, sdk : SetUser(first, sdk)
  <2>1. m_state = "FPSTATE_IDLE" /\ enrolment = NotEnrolling
    BY <1>3 DEF Start, New, SetNotify, MakeOwnPath, SetUser, HandleInv
  <2>2. UNCHANGED <<m_state, enrolment>>
    BY <1>3 DEF Start, New, init, SetNotify, setNotify, MakeOwnPath, SetUser
  <2> QED
    BY <2>1, <2>2 DEF NotEnrolling, Returned
<1>4. CASE \/ Make \/ RegisterService \/ RegisterObject \/ RefuseService \/ RefuseObject
           \/ \E ret \in Statuses : SetGroup(ret)
  BY <1>4, <1>0 DEF Make, RegisterService, RegisterObject, RefuseService,
     RefuseObject, SetGroup, setActiveGroup, Awaited
<1>5. ASSUME NEW ret \in Statuses, Enumerate(ret)
      PROVE  AwaitInv'
  <2>1. m_state' # "FPSTATE_IDLE" => ret = "SYS_OK"
    BY <1>5 DEF Enumerate, StateAfter
  <2>2. ret = "SYS_OK" => running' # "none" /\ listener' = "ours"
    BY <1>5 DEF Enumerate, enumerate, Request, May, HandleInv
  <2>3. enrolment = NotEnrolling /\ enrolment' = enrolment
    BY <1>5 DEF Enumerate, enumerate, HandleInv
  <2> QED
    BY <2>1, <2>2, <2>3 DEF Awaited, NotEnrolling, Returned
<1>6. CASE Enroll
  <2>1. enrolment' # NotEnrolling /\ enrolment' # Returned("SYS_OK")
    BY <1>6 DEF Enroll, preEnroll, Enrolls, Refused, Gatekeeping, Returned, NotEnrolling
  <2> QED
    BY <2>1
<1>7. ASSUME NEW answer \in Answers, GatekeeperEnroll(answer) \/ GatekeeperVerify(answer)
      PROVE  AwaitInv'
  <2>1. enrolment' # NotEnrolling /\ enrolment' # Returned("SYS_OK")
    BY <1>7 DEF GatekeeperEnroll, GatekeeperVerify, Enrolls, Refused, Gatekeeping,
      Calling, Returned, NotEnrolling
  <2> QED
    BY <2>1
<1>8. ASSUME NEW ret \in Statuses, HalEnroll(ret)
      PROVE  AwaitInv'
  <2>1. enrolment' = Returned(ret)
    BY <1>8 DEF HalEnroll, Enrolls
  <2>2. enrolment' # NotEnrolling /\ (enrolment' = Returned("SYS_OK") => ret = "SYS_OK")
    BY <2>1 DEF Returned, NotEnrolling
  <2>3. main = "exec"
    BY <1>8 DEF HalEnroll, HandleInv, NotEnrolling
  <2>4. ret = "SYS_OK" => running' # "none" /\ listener' = "ours"
    BY <1>8, <2>3 DEF HalEnroll, Request, May, HandleInv
  <2> QED
    BY <2>2, <2>4 DEF Awaited
<1>9. CASE EnrollReturns
  <2>1. enrolment \in {Returned("SYS_OK"), Returned("SYS_ERROR")}
    BY <1>9, ReturnedIs DEF EnrollReturns, StartTypeOK
  <2>2. enrolment' # Returned("SYS_OK")
    BY <1>9 DEF EnrollReturns, Enrolls, NotEnrolling, Returned
  <2>3. enrolment = Returned("SYS_ERROR") => m_state' = "FPSTATE_IDLE"
    BY <1>9 DEF EnrollReturns, StateAfter, Returned
  <2>4. fpHal' = fpHal /\ (Awaited => Awaited')
    BY <1>9 DEF EnrollReturns, Enrolls, Awaited
  <2> QED
    BY <2>1, <2>2, <2>3, <2>4
<1>10. CASE Abort \/ Dispatch
  <2>1. m_state' = "FPSTATE_IDLE" /\ enrolment' = NotEnrolling
    BY <1>10 DEF Abort, Dispatch, Looping, cancel
  <2> QED
    BY <2>1 DEF NotEnrolling, Returned
<1>11. CASE Deliver
  <2>1. Awaited'
    <3>1. binder' \/ events' # "none"
      BY <1>11 DEF Deliver
    <3> QED
      BY <3>1 DEF Awaited
  <2> QED
    BY <1>11, <1>0, <2>1 DEF Deliver
<1>12. ASSUME NEW ret \in Statuses, PostEnroll(ret)
       PROVE  AwaitInv'
  <2>1. Awaited'
    BY <1>12 DEF PostEnroll, Awaited
  <2> QED
    BY <1>12, <1>0, <2>1 DEF PostEnroll, postEnroll
<1>13. ASSUME NEW callback, Finish(callback), UNCHANGED <<m_state, binder, events>>
       PROVE  AwaitInv'
  <2>1. Awaited => Awaited'
    <3>1. listener = "ours" => callbacks' # <<>>
      BY <1>13 DEF Finish, StartTypeOK, BridgeTypeOK
    <3>2. callbacks # <<>> => callbacks' # <<>>
      BY <1>13 DEF Finish, StartTypeOK, BridgeTypeOK
    <3> QED
      BY <1>13, <3>1, <3>2 DEF Awaited, Finish
  <2> QED
    BY <1>13, <1>0, <2>1 DEF Finish
<1>14. CASE ServiceDies /\ UNCHANGED m_state
  <2>1. fpHal' # "dead" => fpHal = "null"
    BY <1>14 DEF ServiceDies, StartTypeOK, BridgeTypeOK
  <2>2. enrolment' = enrolment
    BY <1>14 DEF ServiceDies
  <2> QED
    BY <1>14, <2>1, <2>2 DEF HandleInv
<1>15. CASE ServiceComes /\ UNCHANGED <<m_state, binder, events>>
  BY <1>15, <1>0 DEF ServiceComes, Awaited
<1>16. CASE Service
  BY <1>13, <1>14, <1>15, <1>16 DEF Service
<1> QED
  BY <1>1, <1>2, <1>3, <1>4, <1>5, <1>6, <1>7, <1>8, <1>9, <1>10, <1>11, <1>12, <1>16
  DEF StartNext, Constructor, Enrolling, Binder

LEMMA SessionStep ==
  ASSUME StartTypeOK, HandleInv, SessionInv, [StartNext]_startVars
  PROVE  SessionInv'
<1> USE DEF SessionInv, At, object, bridge, hal, threads
<1>0. ASSUME UNCHANGED <<overlapped, fpHal, enrolment, challenge>>,
             Quiet => Quiet'
      PROVE  SessionInv'
  BY <1>0
<1>00. ASSUME enrolment' = NotEnrolling
       PROVE  SessionInv'
  BY <1>00 DEF NotEnrolling
<1>1. CASE UNCHANGED startVars
  BY <1>1, <1>0 DEF startVars, Quiet
<1>2. CASE CallsDeadService \/ StartTimeout \/ ProcessEnds
  BY <1>2 DEF CallsDeadService, StartTimeout, ProcessEnds, FreshProcess, NotEnrolling
<1>3. CASE \/ Start \/ New \/ SetNotify \/ MakeOwnPath \/ RegisterService
           \/ RegisterObject \/ RefuseService \/ RefuseObject
           \/ \E first, sdk : SetUser(first, sdk)
           \/ \E ret \in Statuses : SetGroup(ret) \/ Enumerate(ret)
  <2>1. enrolment = NotEnrolling
    BY <1>3 DEF Start, New, SetNotify, MakeOwnPath, RegisterService, RegisterObject,
      RefuseService, RefuseObject, SetUser, SetGroup, Enumerate, HandleInv
  <2>2. UNCHANGED <<overlapped, enrolment, challenge>>
    BY <1>3 DEF Start, New, init, SetNotify, setNotify, MakeOwnPath, RegisterService,
      RegisterObject, RefuseService, RefuseObject, SetUser, SetGroup, setActiveGroup,
      Enumerate, enumerate, Request
  <2> QED
    BY <1>00, <2>1, <2>2
<1>4. CASE Make
  BY <1>4, <1>0 DEF Make, Quiet
<1>5. CASE Enroll
  <2>1. ~overlapped' => Quiet
    BY <1>5 DEF Enroll
  <2>2. Quiet => Quiet'
    BY <1>5 DEF Enroll, preEnroll, Quiet
  <2>3. \/ /\ enrolment'.at = "gatekeeper"
           /\ challenge' = enrolment'.challange
        \/ enrolment'.at = "returned"
    BY <1>5 DEF Enroll, preEnroll, Enrolls, Refused, Gatekeeping, Returned
  <2> QED
    BY <2>1, <2>2, <2>3
<1>6. ASSUME NEW answer \in Answers, GatekeeperEnroll(answer), UNCHANGED threads
      PROVE  SessionInv'
  <2>1. \/ /\ enrolment'.at = "verify"
           /\ enrolment'.challange = enrolment.challange
        \/ enrolment'.at = "returned"
    BY <1>6 DEF GatekeeperEnroll, Enrolls, Refused, Gatekeeping, Returned
  <2>2. enrolment.at = "gatekeeper" /\ UNCHANGED <<hal, fpHal>> /\ (Quiet => Quiet')
    BY <1>6 DEF GatekeeperEnroll, Enrolls, Refused, Quiet
  <2> QED
    BY <1>6, <2>1, <2>2
<1>7. ASSUME NEW answer \in Answers, GatekeeperVerify(answer), UNCHANGED threads
      PROVE  SessionInv'
  <2>1. \/ /\ enrolment'.at = "hal"
           /\ enrolment'.challange = enrolment.challange
           /\ enrolment'.token = enrolment.challange
        \/ enrolment'.at = "returned"
    BY <1>7, TokenIsAssigned DEF GatekeeperVerify, Enrolls, Refused, Calling, Returned
  <2>2. enrolment.at = "verify" /\ UNCHANGED <<hal, fpHal>> /\ (Quiet => Quiet')
    BY <1>7 DEF GatekeeperVerify, Enrolls, Refused, Quiet
  <2> QED
    BY <1>7, <2>1, <2>2
<1>8. ASSUME NEW ret \in Statuses, HalEnroll(ret), UNCHANGED threads
      PROVE  SessionInv'
  <2>1. enrolment'.at = "returned" /\ challenge' = challenge
    BY <1>8 DEF HalEnroll, Request, Enrolls, Returned
  <2> QED
    BY <1>8, <2>1
<1>9. CASE EnrollReturns
  BY <1>9, <1>00 DEF EnrollReturns, Enrolls
<1>10. CASE Abort \/ Dispatch
  BY <1>10, <1>00 DEF Abort, Dispatch, Looping, cancel
<1>11. CASE Deliver
  <2>1. ~Quiet
    BY <1>11 DEF Deliver, Quiet
  <2>2. UNCHANGED <<overlapped, fpHal, enrolment>>
    BY <1>11 DEF Deliver
  <2> QED
    BY <2>1, <2>2
<1>12. ASSUME NEW ret \in Statuses, PostEnroll(ret)
       PROVE  SessionInv'
  <2>1. ~Quiet
    BY <1>12 DEF PostEnroll, Quiet
  <2>2. UNCHANGED <<overlapped, fpHal, enrolment>>
    BY <1>12 DEF PostEnroll, postEnroll
  <2> QED
    BY <2>1, <2>2
<1>13. ASSUME NEW callback, Finish(callback), UNCHANGED threads
       PROVE  SessionInv'
  <2>1. ~Quiet
    BY <1>13 DEF Finish, Quiet
  <2>2. UNCHANGED <<overlapped, fpHal, enrolment, challenge>>
    BY <1>13 DEF Finish
  <2> QED
    BY <2>1, <2>2
<1>14. CASE ServiceDies /\ UNCHANGED threads
  <2>1. fpHal' # "live" /\ challenge' = NoChallenge /\ enrolment' = enrolment
    BY <1>14 DEF ServiceDies, StartTypeOK, BridgeTypeOK
  <2> QED
    BY <1>14, <2>1
<1>15. CASE ServiceComes /\ UNCHANGED threads
  BY <1>15, <1>0 DEF ServiceComes, Quiet
<1>16. CASE Service
  BY <1>13, <1>14, <1>15, <1>16 DEF Service
<1>17. CASE Enrolling
  BY <1>6, <1>7, <1>8, <1>17 DEF Enrolling
<1> QED
  BY <1>1, <1>2, <1>3, <1>4, <1>5, <1>9, <1>10, <1>11, <1>12, <1>16, <1>17
  DEF StartNext, Constructor, Binder

StartInv == HandleInv /\ AwaitInv /\ SessionInv

LEMMA StartInvHolds == StartSpec => [](StartTypeOK /\ StartInv)
<1>1. StartInit => StartInv
  BY DEF StartInit, StartInv, HandleInv, AwaitInv, SessionInv,
    NotEnrolling, Returned
<1>2. StartTypeOK /\ StartInv /\ [StartNext]_startVars => StartInv'
  BY HandleStep, AwaitStep, SessionStep DEF StartInv
<1> QED
  BY <1>1, <1>2, StartTypesCorrect, PTL DEF StartSpec

(* No operation waits for nothing, however starts, crashes and the sensor's*)
(* service interleave, unless that service has died.                       *)
THEOREM OperationsAreAwaited == StartSpec => []WaitsForReport
<1>1. StartInv => WaitsForReport
  BY DEF StartInv, AwaitInv, Awaited, WaitsForReport
<1> QED
  BY <1>1, StartInvHolds, PTL

(* The token that the sensor is given is one of the session that is open,  *)
(* however often the Gatekeeper refuses, delays or answers with nothing.   *)
THEOREM TokensFitTheirSession == StartSpec => []TokenFitsSession
<1>1. StartTypeOK /\ StartInv => TokenFitsSession
  <2>1. StartTypeOK /\ enrolment.at = "hal" => enrolment.challange \in Challenges
    BY EnrolmentHasChallenge DEF StartTypeOK
  <2> QED
    BY <2>1, ChallengesAssumption
    DEF StartInv, SessionInv, TokenFitsSession, NoChallenge
<1> QED
  BY <1>1, StartInvHolds, PTL
=============================================================================
