# sailfish-fpd-community in TLA+

A model of the fingerprint daemon of Sailfish OS ports, checked with TLC and
proved about with TLAPS. Paths below are those of the repository.

## The system

Clients (settings, device lock) call the daemon on the system D-Bus. The daemon
drives the Android fingerprint HAL through a bridge library and keeps a list of
template names in a file.

clients --D-Bus--> FPDCommunity --calls--> AndroidFP --C API--> bridge --HIDL-->
sensor <-signals- <-signals- <-callbacks (binder thread)--

| component | state | operations |
|---|---|---|
| `FPDCommunity` (src/fpdcommunity.cpp) | `m_state`, `m_dbusCaller`, `m_fingerMap`, `m_addingFinger`, `m_acquired`, `m_cancelTimer`, `fingerprints.db` | D-Bus methods `Enroll Identify Clear Abort Verify Remove GetState GetAll`; slots for the adapter's seven signals; the 30 s timer |
| `AndroidFP` (src/androidfp.cpp) | `m_enrollRemaining`, `m_removingFinger`, `m_fingers`, unlocked and shared by two threads | calls on the main thread; callbacks on the binder thread |
| bridge (android/hybris/biometry_fp_hidl_for_hybris.cpp) | the HAL handle, the callback table | one call per request, with Gatekeeper steps inside `enroll`; conversion of status and error codes |
| HAL service (not in the repository) | templates, the operation it runs | one operation at a time, oneway callbacks |
| Gatekeeper (used by the bridge) | password handle, token | `enroll`, `verify` inside the bridge's `enroll` |
| start-up (src/sailfish-fpd-community.cpp, constructors, service file) | HAL handle, bus registration | 50 tries for the HAL, `setNotify`, `setUser`, `registerDBus`; systemd restarts the process |
| store paths (`makePath`, `do_chown`, `getDefaultGroupPath`, `util/property_store`) | directories | recursive mkdir and chown at start |
| C API, bridge headers | none | forwarding through dlsym |

What is hard here:

* A call that fails at once emits `failed()` on the calling thread, so
  `slot_failed` runs in the middle of the method that made the call.
* Callbacks arrive on a binder thread, signals of that thread are queued for the
  main thread. An answer may be handled in a later operation than its own.
* The two threads share members of the adapter without a lock.
* The timer, `Abort` and the sensor's answer race with each other.
* The file is truncated and rewritten on every change, unchecked; the process
  may die at any moment and is restarted; the sensor does not notice.
* A start goes through many calls that may fail or be cut off, on top of what
  earlier starts have left: directories, the callbacks registered with the HAL,
  its active group, its open session. The HAL may come late, or die, unwatched.
* `enroll` of the bridge is a pipeline over two services, and the binder
  thread's `postEnroll` ends what it opens.

`PROJECT.json` lists these hazards with their lines and the properties that
are about them; a note says where a property stops short of one.

## Modules

| module | models | |
|---|---|---|
| `ClientSession` | abstract | exclusive use as clients are promised it |
| `TemplateList` | abstract | how far the list may lag behind the sensor |
| `FPDCommunity` | the daemon object, open | one action per method and slot, with every call it makes |
| `AndroidFP` | the adapter | steps of both threads |
| `BiometryHal` | bridge and sensor | requests, callbacks; the sensor is external |
| `FPDSystem` | all three composed | `INSTANCE`s over shared variables |
| `StorePaths` | `makePath`, `getDefaultGroupPath` | one step per system call |
| `Bridge` | the bridge in its process: HAL handle, `enroll` in full | the two services are external |
| `Startup` | main, constructors, registration, systemd | `EXTENDS` the two above |
| `MCFPDCommunity`, `MCFPDSystem`, `MCStartup` | values and a constraint for TLC | |
| `FPDCommunityProofs`, `StartupProofs` | theorems | |
| `FPDSystemProofs`, `FPDSystemWaitProofs`, `FPDSystemNameProofs`, `FPDSystemStoreProofs` | theorems of the composition, one question each | each `EXTENDS` the one before |
| `FPDSystemAnswerProofs`, `FPDSystemListProofs` | answers and their operations; refinement of `TemplateList`, and what clients are told of the list | both `EXTENDS FPDSystemStoreProofs` |

There are two composed models, because the daemon in operation and the daemon
coming up are hard for different reasons. `FPDSystem` takes the bridge for
granted and has every operation; `Startup` has the bridge, the directories and
the registration in full, and of the operations only what the start leads to:
the enumeration, and an enrolment with its abort.

**ClientSession.** `operation`, `owner` and `caller`, the client whose call the
last step was. From its `Begin` on, an operation can be cancelled by a call of
its owner only; `Answer` is any other call, which changes nothing; `Finish` and
`Reset` are steps in which nobody calls. The daemon's first enumeration has no
owner, and any client may cancel it, as fpdcommunity.cpp:308 lets it. Which
result ends an operation `ClientSession` does not say: in the code that may be
a late one, see `AnswersFitOperation`.

**FPDCommunity.** Variables have the names of the members. A handler runs on
the main thread and nothing interleaves with it, so it is one action. `Start`
is `setState` followed by the adapter's call; on failure it contains the run of
`slot_failed` inside that call, and `owner` is what `m_dbusCaller` is after the
method has gone on: the empty caller where the assignment comes before the call
(`Enroll`, `Identify`, `Clear`), the caller where it comes after (`Verify`,
`Remove`). `reply` and `signals` hold the last step's method return and D-Bus
signals, as a set: their order within one handler is abstracted. The status of
a call and the arguments of the adapter's signals are parameters that `Next`
lets take any value at any time. `SaveOutcomes` says what saving may do; a
reader of a torn file gets the empty map, as QDataStream clears the container.
A crash inside a save is `Restart` with the file `Unreadable`.

**AndroidFP.** A callback that reads what the main thread writes is several steps
with a program counter `binder`: `enrollCallback` sets `m_enrollRemaining`, then
divides by it; `removeCallback` tests `m_removingFinger`, reads it again to emit,
then resets it. (The test itself reads the member twice, androidfp.cpp:190; it is
one step here. An interleaving between the two takes a Remove or Clear begun
before the last was over.) Of `enroll` the return is a step of its own, since the
sensor may report before `m_enrollRemaining` is reset (`inEnroll`; the main thread
does nothing else meanwhile). The two data races are those interleavings; the
progress of a division by zero is `Undefined`. Rounding of the float percentage is
abstracted to the integer quotient. The other calls' data accesses all come before
the HAL call, so each is one step.

**BiometryHal.** A request is refused with any status but `SYS_OK` or starts an
operation; a busy sensor refuses. Callbacks are delivered in order, later. Of
`remaining` in removals and enumerations only 0 or not is kept; `cancel` stops
enrolment and authentication and reports an error. The numbers of templates a
sensor reports (0 of 0 when there is none), its ending after one match and its
going on after a mismatch are assumptions about the service, taken from how the
daemon uses it. An acquisition message (`Acquire`) may come at any time while a
touch is awaited; codes that the bridge does not know become `ACQUIRED_GOOD`
(`HIDLToUFingerprintAcquiredInfo`), errors it does not know `ERROR_NO_ERROR`.

**FPDSystem.** Steps of the main thread (`Call`, `Dispatch`, `Timeout`,
`EnrollReturns`), the binder thread (`Binder`), the sensor and `Crash`. A crash
loses the queue and the callbacks under way; the sensor either stops or runs on.
The sensor's ids are random 32 bit numbers: one that the list or the file has, or
that is on its way to the daemon (`KnownIds`), is not drawn again. Five history
variables serve the properties: `loaded`, `asked`, `enrolledAs`, `overlapped`,
which says that the last operation began before the one before it was over, and
`outOfStep`, which records that this process did something the code does not
recover from before its next start: an operation that overlapped, a Clear that
failed halfway, a refused `postEnroll`, an enumeration refused by a sensor that
was still busy for a dead process.

What these two leave out is part of the result. An answer that arrives in a
later operation does end that one, and a Remove begun after an aborted one does
leave a ghost on the list; no property denies it. `ListMatchesStore`,
`NamesAreRight`, `NameIsFree`, `IdentifiedIsListed` and the refinement of
`TemplateList` say that nothing but the four causes above leads to such a state,
and that a start whose enumeration runs repairs it; `AnswersFitOperation` says that a
single pause does, since it looks at `overlapped` alone. `WaitsForSomething`,
`OperationEnds`, `NamesAreTold` and all of the daemon's own properties make no
exception.

**TemplateList.** Two variables: the templates `stored` in the sensor and those
`listed`, or `Lost`. The sensor may enrol only when the list is level with it,
and remove only while the list has all that is stored; an update makes the list
what is stored at that moment. `FPDSystem` implements it under the mapping
`stored <- store`, `listed <- Keys(m_fingerMap)`, or `Lost` as long as the list is
not loaded or the process is out of step (`List`, `ImplementsTemplateList`). The
list is updated by `slot_succeeded`, `slot_removed` and `slot_enumerated`,
calls, signals and threads away from the sensor's step; the refinement says
that none of them comes too early, too late, or with the wrong template.

**StorePaths.** A path is a chain of `Depth` directories that may be missing.
`makePath` goes up to a directory that exists (whatever its owner) and then
makes the rest downwards: mkdir, then permissions and owner (`MakeStep`, a
directory is "made" and then "complete"). Each of them may fail (`MakeFails`),
which leaves the rest undone and is only warned of (`unmade`). Of the output of
getprop only its emptiness and `atoi` matter; an unset property prints a
newline, so `api_level.empty()` is true only when getprop cannot run, the
fallback to the sdk level is not taken for an unset property, and the legacy
path is chosen.

**Bridge.** `init` is a turn of the loop in `u_hardware_biometry_new`, which
returns after the last turn whether it has a handle or not. The handle is
"dead" once its service is no more; a call through it ends the process
(`CallsDeadService`). `enroll` is four steps: preEnroll, Gatekeeper enroll,
Gatekeeper verify, HAL enroll, each with all its refusals; `Result` is the
code's arithmetic on the answer, `TokenOf` what the answer leaves in
`auth_token`, uninitialized included. The services are external: the sensor
takes an operation only when idle and a token only of the open session.

**Startup.** `main` is the place of the main thread from `down` to `exec`. A
refused `setActiveGroup` is ignored by the code, and so here: the enumeration that
follows is then one of another group, and no property denies it (what is
enumerated is not in this model, so that `activeGroup` is read by none).
`RefuseService` and `RefuseObject` lead to `exec`: `quit()` before `exec()` has no
effect. `ProcessEnds` may happen anywhere and keeps what outlives a process:
directories and the state of the sensor's service, whose callbacks then go
nowhere. `overlapped` records that an enrolment began before the last was over:
then the `postEnroll` of the old one may close the session of the new one.

## Runs

Values: two clients and two templates (`daemon`), one client and two templates
(`system`), one and one (`system_live`), two touches per enrolment, one callback
and one event in flight (`MaxCallbacks`, `MaxEvents`, the only bounds; a full
queue makes its writer wait, but the error that a cancel causes comes on top of
a full callback queue). Two clients are enough for interference, and the clients
differ in nothing else, which is why one does in the system runs. Two templates
make "the other one" and a partial Clear possible. Clients enrol as "thumb" or
under a name that `AddUnknown` may make up for the other template ("Unknown 2").
One event and one callback, the binder thread's own step, and the sensor's state
are four places in which an answer can be late. Torn files come from crashes
during a write (`Restart` with the file `Unreadable`); writes that fail silently
(`SaveOutcomes`) are left to the theorems, as are longer queues. `system` sends
one acquisition message, with a code that the bridge does not know; elsewhere
there are none, as they only delay what is behind them. No symmetry is declared:
the sets that are symmetric have at most two members, and the liveness runs
could not use it.

`VIEW WithoutOutput` takes `reply` and `signals` out of the state: no action
reads them, and what is said of them is said of steps. `VIEW Relevant`, in
`system`, also takes out values that are written again before anything looks at
them, or that decide about nothing but what is sent (the percentages: their range
is checked of one of the states that differ in them only, and proved of all);
MCFPDSystem.tla gives the reason for each.

| run | shows |
|---|---|
| `daemon` | `BusyHasOwner`, `IdentifyingIsTimed`, `MapIsSaved`, `OthersCannotInterfere`, `EndIsAnnounced`, `ImplementsSession`, `IdentifyEnds` of the open daemon |
| `system` | `ListMatchesStore`, `WaitsForSomething`, `AnswersFitOperation`, `IdentifiedIsListed`, `NamesAreRight`, `NameIsFree`, `NamesAreTold`, and the refinement `ImplementsTemplateList` |
| `system_live` | `OperationEnds`, and the refinement `ImplementsDaemon` |
| `startup` | `WaitsForReport`, `TokenFitsSession`, `ComesUp` |
| `store_paths` | `StoresExist`, `MadePathsAreComplete`, with paths of three directories |

`startup` has paths of one directory (`Depth`), two turns for the HAL (`Tries`:
a turn that is the last and one that is not), two challenges (an old and a new
session), one callback under way and one signal queued. API level 28 and an
unset property lead to both paths, so a start may pick another than the last.
`store_paths` follows each start until its paths are made (`UntilPathsAreMade`),
which pays for the depth: one directory to build upon, one cut off in the
middle, one missing.

Seven more runs find a statement of the repository violated; `findings` in
`PROJECT.json` quotes each:

| run | what happens |
|---|---|
| `busy_reply` | Verify or Remove fails at once; the idle daemon keeps the caller and calls itself busy |
| `started_reply` | the sensor library refuses the operation; its client is sent Failed, and told FPREPLY_STARTED |
| `get_all` | a Clear removes one of two templates and fails; its report was dropped, and GetAll still names the template |
| `progress` | `m_enrollRemaining` is reset between the two uses of a callback |
| `removed_zero` | Remove, Abort, Clear refused by the busy sensor; then the completion of Remove empties the list |
| `verify_enrols` | the sensor ends the enrolment of a Verify before it is cancelled |
| `save_unloaded` | the start's enumeration is refused; the next save overwrites the file |

`get_all` is about a process whose start has gone well: its constraint
`LosesTrackAfterLoading` cuts off those that were out of step before their list
was loaded. `started_reply` and `busy_reply` are about the same cause, a call that
fails at once, and two different promises. That Abort answers another client with
FPREPLY_ALREADY_IDLE while an operation runs (fpdcommunity.cpp:310, against
fpdcommunity.h:74) is plain from the code and has no run.

Deadlock is not checked: a bounded queue can stay full, and in some runs
nothing need happen any more.

**Fairness.** `FairSpec`: Qt fires a running timer. `SystemFairSpec`: the main
thread's event loop, the binder thread and `enroll`'s return go on, and the
sensor ends what it began, by an answer or an error (the adapter passes a 60 s
limit for enrolment; messages about touches alone are not an end, so `Acquire`
is outside of the fair `Sensor`). No client has to call anything. `OperationEnds`
assumes that the process does not crash for ever. Errors the bridge does not know are
left out of that run: the adapter drops them, and an operation other than
Identify would wait for ever. `StartFairSpec`: the main thread goes on
(`Constructor`) until it waits for events, a call through a dead handle ends the
process, and systemd stops a process that takes no name in time (Type=dbus) and
starts another (Restart=always; its limit of starts in a short time is assumed
not to be reached). `ComesUp` assumes that from some time on nothing fails
(`Fault`): no crash, no refusal by the bus, no death of the sensor's service; it
does not assume that there is a sensor. A process that ends because it calls
through the handle of a dead service, or because systemd stops it for want of
its name, is no fault: that these do not go round for ever is part of what is
shown. Registration of the object may still be refused
before that time, and such a process stays as it is (`Mute`).

## Proofs

For any clients, templates, names, touches and bounds, under the named
assumptions on the constants (`ConstantsAssumption`, `UnreadableAssumption`,
`SamplesAssumption`, `ProgressAssumption`, `InfosAssumption`, `ErrorsAssumption`
and `BoundsAssumption` of the daemon and the system; `TriesAssumption`,
`ChallengesAssumption`, `MaxCallbacksAssumption`, `TokenAssumption`,
`DepthAssumption`, `ApiLevelsAssumption` and `GroupsAssumption` of the start):

* `TypeCorrect`: types of the daemon. The lemmas `StartType`, `GoIdleType`,
  `SavedType`, `LoadedMapKeys` say what the helpers return.
* `OperationsAreOwnedAndTimed`: `BusyHasOwner` and `IdentifyingIsTimed` are
  inductive together. `StepKinds` sorts every step into four kinds (an operation
  begins, ends, is kept, or the process starts over), and the invariant is
  checked against the kinds.
* `Refinement`: the same four kinds are the steps of `ClientSession`, under the
  mapping that an idle daemon is nobody's. A step that ends an operation and has
  a caller is an Abort, which `ClientSession` allows the owner only, or anyone
  while the operation is the enumeration: that is the test of `AbortReply`.
* `ListIsOnDisk`, `OwnerIsUndisturbed`: from the handlers, case by case.
* `EndsAreAnnounced`: `EndIsAnnounced`. It covers an operation that ends inside
  the method that begins it: the methods ignore the status of the adapter's
  call, and that its failure is told all the same is because `slot_failed` runs
  inside the call.
* `KeyOfIsFirst` (lemma): the loop of `Remove` finds the first key of a name;
  the least element comes from the well-foundedness of the natural numbers.
* `SystemTypeCorrect`: types of the composition, every queue entry included.
  It is the inductive invariant that the next theorem needs: an event is only
  dispatched to a slot that can take it because of what the queue may hold.
* `SystemRefinesDaemon`: each step of `FPDSystem` is a step of `FPDCommunity` or
  leaves it alone.
* `SystemKeepsDaemonPromises`: hence all that is proved of the daemon, here and
  below, holds of the program.

* `SignalsTellTheList`: `ListFollowsSignals` of the open daemon, by cases over the
  three slots that touch the list. It has two exceptions: the list that a start
  loads is told by `ListChanged` alone, and a name that `slot_succeeded`
  overwrites goes without `Removed` (`Replaces`). The second is there because the
  open daemon may be given any id; `NamesAreAlwaysTold` shows that the program
  does not need it. No run checks it of the open daemon.
* `NamesAreAlwaysTold`: `NamesAreTold`, of the whole program. The inductive
  invariant `FreshInv` says that a template on its way to `slot_succeeded`, in a
  callback, at `postEnroll` or queued, is on its way once, and neither on the list
  nor in an enumeration that is not over yet; it needs no process in step. It
  rests on `KnownIds`, that the sensor does not draw an id again that the daemon
  knows.
* `NothingWaitsInVain`: `WaitsForSomething`, if the bridge knows every error of
  the sensor. The inductive invariant `EndIsPending` follows the end of an
  operation: the sensor runs it, its last callback is on its way, the binder
  thread has it, its last signal is queued. The delicate place is
  `removeCallback`, which drops a completion that is not of `m_removingFinger`:
  the invariant says that what the sensor removes for a daemon that waits is
  that finger, or that the member is 0.
* `NamesStayRight`: `NamesAreRight`. The name and the template meet only in
  `slot_succeeded`. The inductive invariant `NameInv` says that the list and the
  file are right, that in a process which is in step at most one enrolled
  template is on its way (`OneOnItsWay`), that `m_addingFinger` is its name
  (`NamesFit`), and that none is on its way while the sensor enrols
  (`EnrolsForName`). It needs that every operation begins when all is quiet,
  which is what `outOfStep` is about. A template that a Verify makes was enrolled
  for no name, and nothing is said of its name.
* `ListStaysStore`: `ListMatchesStore`. What the sensor does to its store reaches
  the list once, by the operation's result: a last callback, then a place of the
  binder thread, then a signal. `StoreInv` says that there is only one result
  (`OneResult`), that no template is enumerated after it (`LastIsLast`), and, for
  each place where it can be, how store and list differ until it arrives
  (`Account`). `ListMatchesStore` alone is not inductive: it says nothing while
  anything is under way. The delicate places are again `m_removingFinger`, which
  the binder thread reads and resets after its signal is out, and `m_fingers`,
  which must be complete when `enumerated` is taken. `ResultsAreAccountedFor` is
  the invariant itself.
* `ListFollowsStore`: `ImplementsTemplateList`, from `StoreInv`. A step of the
  sensor that changes the store is an `Enrol` or a `Remove` because `Account`
  gives its guard; a result that reaches a slot is an `Update` because the list
  differs from the store by that result alone; what puts the process out of step,
  and a crash, is `LoseTrack`; every other step stutters.
* `OneKindAtATime`: unless the running operation began before the one before it
  was over (`overlapped`), everything under way, the operation of the daemon,
  that of the sensor, callbacks, the binder thread and the queue, is of one kind
  of operation (`KindInv`), in a process that is out of step as well. A new kind
  begins only when all of them are empty. The invariant also keeps a recognized
  template in the store, since nothing removes while the sensor authenticates.
* `AnswersAlwaysFit`: `AnswersFitOperation`, from `KindInv`: in an operation that
  began in quiet the slots, which end whatever operation runs, need not ask which
  one it is.
* `IdentifiedAreListed`: `IdentifiedIsListed`, from `KindInv` (the template is in
  the store) and `StoreInv` (the list is level with it).
* `NamesStayFree`: `NameIsFree`, by induction with `KindInv`, which is needed
  where an enumeration puts `Unknown n` on the list: no enrolment is under way
  then.
* `StartTypesCorrect`: types, with `TurnsLeft` for the loop of
  `u_hardware_biometry_new`.
* `PathsAreMade` and `MadePathsStayComplete`: `StoresExist` and
  `MadePathsAreComplete` for any depth, from `PathsInv`: which path is being made
  where, and that a path once sought is there, is being made, or is in `unmade`.
* `OperationsAreAwaited` and `TokensFitTheirSession` (`TokenFitsSession`): from
  `StartInv`, which joins what the handle says of the place in `main`
  (`HandleInv`), what an operation or the return of `enroll` waits for
  (`AwaitInv`), and the session while `enroll` runs (`SessionInv`);
  `TokenIsAssigned` shows that an answer without data or with a refusal never
  leads to a token.

Every invariant, action property and refinement of the passing runs is a theorem.
The runs of `FPDSystem` hold one callback and one signal at a time, to keep the
product small; the theorems are about queues of any length. Only model-checked
are the liveness properties `IdentifyEnds`, `OperationEnds` and `ComesUp`, since
liveness under fairness is beyond the prover.

## Not modelled

* `GetState`, `GetAll`: they only read.
* The C API and the bridge headers: every call is forwarded through dlsym by
  macros; the only state is the library's handle. A symbol that is missing ends
  the process, one of the crashes of `Startup`.
* `getAuthenticatorId` and the C API's `preEnroll`: called by nobody.
* Reading the deleted object that `u_hardware_biometry_new` may return is
  undefined; it is modelled as an object without a handle, or as a crash.
* Build files, logging, umask, chdir, the conversion of enums to strings.
* The order of the signals of one handler: they are a set.
* Which templates a group has: `setActiveGroup` and its refusal are in `Startup`,
  the store of `FPDSystem` is that of one group.
* The operations that `Startup` leaves to `FPDSystem` are not joined with the
  bridge's pipeline in one model: the product is beyond TLC, and what the
  pipeline can do to the daemon is a status of `enroll` and of `postEnroll`,
  which `FPDSystem` lets take any value.

## Plan

Done: all modules above, and a theorem for every invariant, action property and
refinement that the runs check. What is left is of less weight: `TemplateList`
for the names, not only the templates, would add little to `NamesAreRight` and
`NamesAreTold`, which are proved; joining `Startup` with `FPDSystem` waits
for a checker that can take the product; the liveness properties stay with TLC.
