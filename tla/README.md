# Formal models of Web Swing Controls

TLA+ modules, TLC configurations and TLAPS proofs for the mod in this
repository: a DLL that lets the player choose the side of a web swing, the
script proxy that loads it and the companion that installs it. Paths below are
relative to `src/WebSwingControls/src/` unless they say otherwise; line
numbers of every definition are in `PROJECT.json`, "map".

## The system

The game has one web. The mod decides, from raw mouse edges and polled
analog triggers, when the player wants it and on which side; it publishes a
*side request*, drives the game's own Swing input (left Shift for the mouse,
the right trigger for the controller), and intercepts the game's rope
submission so that the request picks the anchor.

| Part | State | Operations | Talks to |
|---|---|---|---|
| Controller policy (`ControllerWebInputPolicy.h`) | source, two Schmitt triggers (down, captured, armed), owner, held | `Update(sample)`, `CancelAndReset` | called by the device-update hook, answers with a decision |
| Mouse policy (`AirborneWebInputPolicy.h`) | captured and owning buttons | `Update(edge, eligibility)`, `CancelNativeHold`, `Reset` | called by the dispatch hook |
| Source route (`ControllerSourceRoute.h`) | current device, source epoch | `Update`, `Reset` | device-update hook |
| Trigger bridge (`ControllerTriggerBridge.h`) | none | `ResolveControllerTriggerBridge` | device-update hook writes its answer into the game's device |
| Input adapter (`ManualWebRuntime.cpp`) | synthetic, physical and bridged Shift flags | `HookInputDispatch`, `HookInputDeviceUpdate`, `CancelManualHold` | both policies, the request, the game's key parser |
| Side request | side or canceling, hero identity, under an SRW lock | publish, mark canceling, clear, read | input adapter writes, the submission reads and holds the lock for the native call |
| Hero publication | a sequence lock over seven fields | `PublishHero`, `ReadHero` | hunter hook writes; eligibility and submission read |
| Rope submission (`HookSwingPointSubmit`, `NativeAnchorSidePolicy.h`) | the hunter's selected anchor | submit, refuse, choose anchor | traversal thread |
| Mover resolution (`MoverBinding.cpp`) | none; generation-checked handles into the game's table | resolve, revalidate | hunter hook, eligibility, submission |
| Hook installation (`ControlsOnlyRuntime.cpp`, `controls_dllmain.cpp`, vendored MinHook) | start state, ready flag, MinHook's hook table | start, install, roll back | script loader and two exports call it, threads of the game run through the hooks |
| Evidence and Enter claims (`ManualWebRuntime.cpp`) | ring of queued submissions, pending publication, claims | submit, publish, cancel, consume, claim | submitting hook, transition hooks, executor; only built without `TRUESWING_CONTROLS_ONLY` |
| Script proxy (`ScriptsProxy/`) | exports of the real DLL, loaded scripts, the process's DLL directory | attach, ParseArgs hook, injection | loads and enables the mod |
| Game build check (`GameBuild.cpp`) | none | verify the executable | gates the start |
| Companion (`SMPCToolCompanion/`) | files, backups, manifest | prepare, commit, roll back | file system |

What is hard here: the input thread and the traversal thread meet in the
request and the hero publication; ups get lost when the window loses focus; a
raw packet may carry several edges in an unknown order; the player's own Shift
and the injected one share a key; analog values jitter around thresholds and
devices come and go; a device write may fail half way. The game replaces the
mover that a press has proved, and reuses its slot and its address, before the rope is
submitted. The installation of four hooks may fail at any of its steps while threads of
the game already run through the first ones, and several threads may start it.
"hazards" in `PROJECT.json` lists each of these at its line.

## Modules

| Module | Models |
|---|---|
| `SideHold` | abstract: a rope held by one side at a time, and submissions under it |
| `ControllerPolicy` | the controller policy, one action per outcome of `Update` |
| `ControllerMonitor` | the same with observers of the samples; its properties |
| `ControllerProofs` | proofs about it |
| `MousePolicy` | the mouse policy, one action per outcome of `Down` and `Up` |
| `MouseMonitor` | the same with a physical mouse that may lose ups and send both edges at once, and what the game sees |
| `MouseProofs` | proofs about it |
| `InputRuntime` | both policies composed with the route, the bridge, the keys, the request and the submission |
| `InputProperties` | its properties, fairness and refinement |
| `HeroRegister` | abstract: an atomic register |
| `HeroPublication` | the sequence lock, access by access |
| `HeroProofs` | proofs about it |
| `InputProofs` | proofs about the composition |
| `AnchorChoice` | the scan that chooses an anchor for a side, against its definition |
| `RopeSubmission` | from a hunter's mover by publication, press and request to the submission, which runs `AnchorChoice` |
| `RopeProofs` | proofs about both |
| `StartOnce` | abstract: one installation at a time, never undone once announced |
| `MinHook` | MinHook's table, each call one operator with its failures |
| `ModStart` | the start on several threads over that table, and threads of the game in the hooks |
| `ScriptsProxy` | the proxy around `ModStart`: attach, parse hook, script loading |
| `StartProofs` | proofs about the start within the proxy |
| `SubmitEvidence` | the evidence ring from a submission to the claim of its Enter |
| `EvidenceProofs` | proofs about it |
| `Installer` | the companion's Install: plan, mutex, backups, writes, roll back |
| `InstallerProofs` | proofs about it |
| `MC*` | model-checking instances |

**Policies.** The two buttons or triggers become the set `Sides`; a pair of
flags (`leftCaptured_`, `rightCaptured_`) becomes a subset of it. The returned
decision is the variable `decision`. A trigger value is an integer number of
hundredths; only its order with respect to the two thresholds is ever used.
`gate` stands for the conjunction of the three gameplay flags of a sample.

**MouseMonitor.** `PressButton` and `ReleaseButton` are packets with one edge of a button. A packet with both
edges does not tell their order: for a button that was up it is down before up, for one that was down it is up before
down, and it leaves the button where it was. `handleAmbiguousPair` takes the pair for the up if the button is captured and
keeps it from the game (`StripPair`); otherwise both edges go to the game past the policy (`PassPair`).
`blurred` are the buttons that a stripped pair has left physically down without a latch.

**InputRuntime.** `pc` is the handler the input thread runs and `work` the
effects of the last decision still to be carried out, in the order of
`ApplyDecision`: publish, press, mark canceling, lift, clear. Each effect is a
step, because the traversal thread can see it apart; what happens between two
effects touches only the input thread's own state and is one step with the
decision. A submission is two steps, begin and end, and holds the lock in
between: `submit = NoSide` says that the lock is free. The game state that the
eligibility checks read and that nothing here changes (bindings, window,
mirror flag, the mover's airborne byte, Space) is chosen freely at every check; Shift,
the hero publication and the other device's hold are state.
`proven` is the hero snapshot taken when the press was judged.
The failure branch of `ApplyDecision` (an attach without a proved hero) is not
modelled: both policies attach only under a gate that includes the proof.

**HeroPublication.** Every load and store of `g_hero` is a step. Fields hold
the number of the publication that wrote them. Accesses are sequentially
consistent, as x64 makes these: C++ alone would allow the relaxed field loads
to sink below the second sequence load; the model does not cover a build or
a processor that does this.

**RopeSubmission.** A mover is known by manager, slot, address and handle; a handle is
the generation of a slot, counted modulo 2^12 with 0 left out as in the game. `Update` is
`HookHunterUpdate` with `MoverBinding`'s resolution, `Prove` a press's look at the
publication, `BeginSubmit` the second proof under the lock. Instead of a clock, a publication
and a hunter's last update have ages, which `Tick` lets grow up to `Expired`. `Leap` toggles the byte that says that the
mover is in the air. `IsFresh` also guards against a tick count that steps back (`ManualWebRuntime.cpp:745-748`);
`GetTickCount64` counts the time since the system was started and never does, so ages only grow here. The records are read and written whole here, since
`HeroPublication` has their parts. Candidates are given by distances in units of the margin and a
score; reading them from guarded memory is a choice of the bank.

**ModStart, MinHook.** A MinHook call holds the library's lock, so it is one step,
which succeeds or fails as hook.c lets it: also half way, where `MH_ApplyQueued` enables some
hooks and stops. `pc` and `at` are a starter's place in `InstallControlsOnlyHooks`. A
trampoline is named by its hook and the heap it was made under, and `live` are those not freed; a game thread is
outside, in a detour, or in a trampoline; `inRollback` says that its call began while a start was being
rolled back. `resisted` is history: the hooks whose `MH_RemoveHook` failed under the present heap. Not modelled is the relocation that `Freeze` applies to
frozen threads: it looks for threads within the first bytes of target or trampoline only, and
`MH_DisableHook` passes it `ACTION_ENABLE` (hook.c:742), so that threads in a
trampoline are not moved.

**ScriptsProxy** instantiates nothing: it extends `ModStart`, and its `EnableScript` on the mod
is `ModStart!ScriptEnable` on the loader's thread. The exported forwarders are `Exports`;
scripts are loaded in order, and a second call enables the earlier ones again, as the code does.
The DLL directory goes through the buffer `pre` as the code sends it: an unset directory leaves the empty string there and one that
does not fit leaves it unwritten, nobody looks at the result, and what is in the buffer is set at the end,
so that the process does not always get its directory back. `listed` and `enabled` are history of one call.

**SubmitEvidence.** What the hooks do under `g_sideRequestLock` is one step. A
transition's bytes are its points and a sequence number modulo 2^8; all points are equal here, so
transitions of a machine look alike when their numbers are congruent. That is the worst
case for the search of the ring. `posted` and `granted` are history.

**Installer.** A content is a set of entries: for a DLL the set of its one
version, for a text file its lines or arguments; hashes are compared as the contents they
stand for. `pc` and `at` are a companion's phase and the file its loop is at; the
local variables of `Install` vanish when it returns or is killed. Every look at a file
and every write is a step; any of them may fail as the code lets it, and the
companion may be killed between two. `plan` keeps what `InstallAction` keeps,
`existed` and `saved` are the `CommitRecord`; what the list `committed` holds at a failure follows
from `at`. `entry` is history: the folder when the mutex was taken. There is one mutex for the folder:
its name is local to the session and a hash of the path as it was given (`InstallerCore.cs:208-209`), so companions in two
sessions, or that spell the path differently, would not exclude each other and are outside of this model.

Assumed of the environment: the game calls `HookInputDispatch` and
`HookInputDeviceUpdate` from one thread (the policies are unsynchronised
globals), its key parser applies an injected edge at once, and its
original device update rewrites both triggers with physical values.

## Runs

| Run | Instance | Shows |
|---|---|---|
| `controller_policy` | values 0, 25, 26, 49, 50, 100, three epochs | a hold starts on a fresh press only, is justified by the last sample, captures last until neutral, edges are reported once, of two triggers that cross in one sample neither starts a hold |
| `mouse_policy` | two buttons, complete | with lost ups and ambiguous packets: matched edges for the game but for two cases (below), no leaked press, every hold has its button, `SideHold` is implemented |
| `input_runtime` | two devices, one hero or none, triggers released or fully pressed, epoch counter modulo 3, with fairness | mouse and controller never hold together, the request is the hold, no stuck Shift, no stock submission on the mod's own input, injected edges are edges, `SideHold` is implemented with the real submissions; every effect completes, a cancellation ends, a driven trigger is withdrawn |
| `focus_forces_up` | one device, one hero | a finding, below |
| `rope_submission` | two hunters, two managers (three movers and one), two addresses, generations modulo 3, age up to 1, banks of up to two of eight kinds of candidates | a side rope is of the mover generation proved at the press and within its hunter's lease, its anchor is the best of the side |
| `mod_start` | two starting threads, one game thread, four hooks, two heaps, two hosts, two script lists, a DLL directory never set, short or too long, two ParseArgs calls, executables right and wrong | ready means all hooks on the exact build, a patched function can be called, a failed start is undone but for the hooks that resist, no call that began outside of a roll back runs into a freed trampoline, every listed script that loads is enabled, one installation at a time (`StartOnce`) |
| `submit_evidence` | two machines, two requests, two transitions each, a ring of two, sequence numbers modulo 1 | evidence that can still authorise is of the held request, a request owns its own transitions only, released ones whose evidence is in the ring are rejected, no transition owns two Enters |
| `installers` | two companions, both DLLs and the list, every initial folder | one commits at a time, nothing of anybody else's is lost, a complete roll back restores, `scripts.txt` never comes to name a missing DLL, an undisturbed success is complete, also after earlier failures and crashes |
| `stale_plan`, `appeared_file` | two companions; one and another program | findings, below |
| `refused_evidence` | one machine, one request, two transitions | a finding, below |
| `hero_publication` | two writers, two readers, three publications, two fields, two attempts | no torn snapshot, proofs are current, an atomic register is implemented |

**Why the bounds are enough.** The controller's code compares a value with
two constants only, so six values that sit on, next to and far from them
distinguish every outcome; a change of epoch is only ever tested for equality,
so two live epochs besides 0 suffice. The full band is explored in
`controller_policy`; `input_runtime` keeps the two extremes because the
adapter looks at nothing but the press threshold. An epoch counter modulo 3
wraps within a few reconnections, where the code's needs 2^64. Two devices
are needed for a direct switch. The adapter compares the request's hero with the published one; one hero or none gives both
outcomes, and what a change of identity does is `RopeSubmission`'s subject. Two fields tear if any do; with two attempts both a retry and the
last failure happen; three publications let one reader meet two changes.
`MaxSequence` bounds the publications; symmetry is used for writers,
readers, addresses, machines and companions, which are interchangeable, and only with safety properties.
Generations modulo 3 take the two values 1 and 2, and `MaxSpawns` (three movers of one
manager) lets a generation come round once, which is what
`RopeOfProvedMover` says of the code: it cannot tell movers a full turn apart. `MaxHeaps` allows one failed start
and its repetition, in a fresh MinHook or, where a hook resisted, on the one that is still there; three DLL directories give every content of
the proxy's buffer. A ring of two with two requests overwrites entries; sequence numbers
modulo 1 make all transitions of a machine alike, so that the ambiguous matches occur.
`MaxTokens`, `MaxQueued` and `MaxParses` end these counters only.
The installer's state is finite without bounds: installs, failures and crashes may be
repeated for ever. Two companions show every order of a write of one and
a look of the other. The fourth file, the arguments, is a text like the list and is treated the same way.
The findings of the installer need only the first two files, that of the evidence ring one request with unlike transitions.

**Fairness** (`InputProperties!Fairness`). Weak fairness of the input thread
within a handler and of the end of a submission: the mod's code does not block and the
native call returns. Strong fairness of the effects that take the request lock: submissions
release it again and again, and a waiter on an SRW lock is assumed not to be
overtaken for ever. Strong fairness of the device poll: the game polls every frame,
between other handlers. This last one is the game's promise, not the mod's;
only `TriggerWithdrawn` uses it. A poll with `updateDevices` false returns at
once in the code and is not a poll here.

## Findings

`focus_forces_up`: `CancelManualHold` says at `ManualWebRuntime.cpp:1208-1209`
that a focus boundary forces the native action up. For a hold driven by the controller
the native action is the right trigger, which the device hook wrote at 1.0;
the focus path ends the hold and clears the request but writes nothing to the
device, so until the next device update the game still sees the trigger
driven and no request guards a submission. `TriggerWithdrawn` shows
that a later poll repairs it.

`stale_plan`: the plan is made before the mutex is taken, and what it calls
Unchanged is not looked at again. Planned during another companion's commit that is then
rolled back, an install reports success without a file. A companion that nobody has
disturbed since it began to plan cannot do this (`UndisturbedIsComplete` in `installers`, proved in general).

`appeared_file`: a file that another program creates between the plan and the commit is
recorded as existing and then written over without a backup, against
`SMPCToolCompanion/README.md:37`. The other program writes only while no
companion commits. With nobody else writing, `NothingLost` and the property of this run hold, for any number of
companions (both proved).

`refused_evidence`: the comment at `ManualWebRuntime.cpp:1148-1150` says that the cancelled evidence "rejects any
already-returned transition after the request itself is cleared". `PublishQueuedSubmitEvidenceLocked` refuses evidence of a
request that has had a transition consumed (603-604), so a second transition queued under the same held request returns without
evidence. Executed after the release and the clearing of the request, it matches nothing and counts as the
game's own. Transitions that have evidence in the ring are rejected as the comment says (`ReleasedIsRejected`, proved).

## What the properties except

Where the code does not keep a promise in every case, the property names the case:

- `NoUnmatchedUp` (`mouse_policy`): a button held over a focus reset, whose latch is dropped, and one whose up and next
  down came in one packet that was taken for the up. In both cases the next up reaches the game without a down.
- `NoDanglingCall` (`mod_start`): calls that begin while a start is being rolled back. When `MH_ApplyQueued` fails after some hooks are
  enabled, the roll back disables and removes them while threads of the game may be in them, and frees the trampolines without
  waiting. The model has such calls and they do dangle; no line of the repository says that they do not. What the property
  says is of all others: in a mod that is up, and in hooks that a roll back could not remove, whatever starts follow.
- `FailedStartIsUndone` (`mod_start`): hooks whose own removal failed, and only those. If one of them is still enabled in the end
  MinHook stays initialised, so that every later start fails, and the detour passes through because the mod
  never becomes ready.
- `ReleasedIsRejected` (`submit_evidence`): transitions without evidence in the ring, which are those not yet
  published, refused (the finding above) or overwritten by `Capacity` later ones; and transitions that look like another of their machine.
  One request may be granted several Enters if two of its submissions were queued before the first was executed; what holds is that no
  transition owns two. The test for ambiguous matches never decides: cancelled evidence has made the answer already.
- `RollBackRestores` (`installers`): roll backs that report an error. `ListedIsInstalled`: files whose own roll back failed.

Of the DLL directory nothing is claimed: the process may end up with the scripts' folder (without a
`scripts.txt`), with the empty string instead of the default, or with whatever a buffer held.

## Proofs

`tlapm` on `ControllerProofs`, `MouseProofs`, `InputProofs`, `HeroProofs`, `RopeProofs`, `StartProofs`,
`EvidenceProofs` and `InstallerProofs`. Every invariant and every action property that a passing run checks, and
every refinement, is a theorem for all values of the constants.

*Controller.* For every set of integer values, all thresholds with release
below press and every set of epochs that contains 0 (`ThresholdAssumption`): the invariant
`IInv` is the conjunction of `MonitorTypeOK`, `HoldJustified`,
`CaptureConsistent` and `TieStartsNothing`. It is inductive as it stands: a hold is justified because
its owner is captured, a captured trigger is down, and a trigger that is still down
after an update is above the release threshold; that two triggers cross together is seen by the policy because
its armed triggers are exactly those that rested. The three action properties
follow from it step by step. That release is below
press is needed: otherwise one value would be a press and a release.

*Mouse.* The checked invariants are not inductive together: a capture could
meet a button that the game sees down for no known reason. `SeenExplained`
(what the game sees down is physically down or lost its up) closes the gap. A stripped pair is an up of the
policy without one of the button, which is what `blurred` records.

*Input adapter.* For every set of devices, heroes and trigger levels and every width of the epoch
counter of at least 3 (`RuntimeAssumption`). None of the checked
invariants is inductive alone: between the effects of a decision the request, the
keys and the policies disagree. `InputInv` says in which way. `WorkInv` lists the situations there are: nothing is
due and everything agrees (`Settled`), a press is on its way into the game (`Attaching`, `AttachingPad`), or an
ended hold on its way out (`Releasing`), each with the effects that are left. `PhaseInv` says that a
decision outlives no handler, `StockInv` that the request changes between submissions only,
`ShiftInv` is the part of `NoStuckShift` that holds at every step. What the policies may answer is stated
in `MouseDown`, `MouseUp`, `MouseCancel`, `PadCancel` and `PadUpdate`; then each action has its lemma.
All properties of `input_runtime` but the two of liveness follow, the refinement of `SideHold` included.

*Hero publication.* For every set of writers and of readers, every number of
fields and attempts (`PublicationAssumption`). The invariant says who may
store (`WriterInv`: the flag excludes a second writer, the sequence is odd
exactly while one stores), what the record then holds (`CellInv`: all fields of the
last publication at an even sequence, a prefix of the next one otherwise)
and what a reader has (`ReaderInv`: as long as the sequence has not moved, its
fields are of the publication it started with). The last part is what makes the second
sequence load enough. `Published` and `Odd` are expanded in one lemma,
`Parity`; every other step uses its facts. In the refinement a publication takes
effect at the second increment and a read at its last check.

*Anchor choice and rope.* For every bank of candidates and every margin the scan's best so far is the
best (`ChoiceInv`); that the code turns the game's row round and its comparisons with it is one lemma,
`EligibleServes`. For every number of hunters, managers, addresses and generations (`RopeAssumption`),
`RopeInv` counts movers: the n-th of a manager has the generation that n gives modulo the ring
(`EntriesCounted`, `PressCounted`), so that equal generations mean a whole number of turns; `Leased` says
that a publication is no younger than its hunter's last update, and `Submitted` that what is being submitted is what
was proved. The lemmas about the choice alone give the choice within a submission.

*Installer.* For every set of companions and every list of files without repetition
(`InstallerAssumption`). `InstallerInv`: what is planned contains what is to be installed (`PlanInv`); what an
undisturbed companion has planned is still there, and what it has written stays (`FreshInv`); while a companion
holds the mutex its complete records are those of the folder at the beginning, and the files it has not
yet written, or has restored, are as they were (`CommitInv`). `StepOf` says once what a step of one companion may
change for the others. `OneCommitter` is needed for the last two parts. That nothing is lost needs a second
invariant, `KeptInv(T)`. For a text, `T.foreign` is what is not the mod's in it, which never changes, not even while the
file comes and goes. `T.missing` are the files that may be missing; these are only ever ours, so
that what a plan takes for absent cannot be somebody else's by the time it is written. What is to be replaced is in a
backup as it was when the mutex was taken (`SavedInv`), and what a roll back takes away is what the commit has put
there (`DoneInv`). `ListedIsInstalled` follows from both invariants and from the order of the files, which is its
theorem's hypothesis (`ListAfterDll`): the DLL comes before `scripts.txt`, so it is written before and restored after it.

*Start of the mod.* For every number of hooks, of starting threads, of threads of the game, of hosts and of script
lists (`HookAssumption`, `ProxyAssumption`). None of the checked invariants says what a start has achieved at the
statement it has reached; `ModInv` does. `WorkerInv`: one thread is between the compare and exchange of `g_startState`
and its last store, and it alone has set `g_ready`. `PhaseInv`: which hooks are created and queued where it stands,
that the build was verified, which hooks a roll back has still to remove (`Remaining`), and that no call has begun in an
installation before it could be rolled back (`NoneInside`). `Leftover` is what a failed start leaves and the next one finds. `EntryInv`: every entry of
MinHook's table is of the present heap and has a live trampoline. `HookInv`: all hooks are enabled while the mod is up.
`ThreadInv`: a call that did not begin in a roll back is in a hook that is enabled, and nobody frees that one's trampoline: `MH_RemoveHook`
does not remove a hook it cannot disable, and a start that finds MinHook initialised gives up before it could roll anything back. Every call of MinHook has a lemma of what
it does to the table whether it succeeds or fails, so that the steps of the start never look into it. `StartOnce` is implemented
because only the worker stores. `ListedAreEnabled` needs an invariant of its own, `ListInv`: what was listed and loads is still among the
lines, or among the scripts, or enabled, and the directory is the scripts' one as long as scripts are loaded.

*Submit evidence.* For every number of machines, requests and transitions, every capacity of the ring and every width of the
sequence number (`EvidenceAssumption`). `EvidenceInv`: what stands in the ring names the request its transition was queued
for, and was not consumed but by a transition that looks like its own (`RingInv`); the last publications
are where they were written, the n-th last n places before `next` around the ring (`PlaceInv`); what is granted is
executed, and is neither in the open scope nor in the claim (`GrantInv`). `EvidenceOfHeldOnly` is
part of it. Steps that only cancel or consume are one relation, `Marks`, which keeps `RingInv` and `PlaceInv`; the step that
publishes is the only one that moves places (`PlacesShift`). `ReleasedIsRejected` then finds the evidence of the
transition by its place, and `Unique` leaves no other that matches it.

Only model-checked: liveness under fairness (`EffectsComplete`, `TriggerWithdrawn`), which TLAPS cannot prove, and the
violations under Findings. Also proved are the type invariants of both policies' monitors, the
input adapter, the hero publication, the rope submission, the start, the submit evidence and the installer, which no run lists as properties.

## Not modelled

The plan of this project is carried out: every part that keeps state of the program's own is
modelled. What is left out, and why:

- The companion's window is a user interface over `Installer`; it keeps no state of its own that matters.
- Logging and guarded memory reads are input and output. A failed read is a choice of the
  environment wherever its caller can see it.
- The build check's reading and hashing of files is a choice of what it found (`Executables`);
  its verdict and what depends on it are in `ModStart`.
- The shoulder and zoom rewrites of the trigger bridge, double clicks and Space do not touch the hold.
  `ControllerSourceRoute::Reset` runs only when the installation is rolled back, while the hooks pass everything through.
- The bodies of the generated export forwarders are jumps.
- The steering policy is a pure key mask that the shipped DLL does not contain. `SubmitEvidence` is also of code that the
  shipped build leaves out (no target of the build files is without `TRUESWING_CONTROLS_ONLY`);
  nested executor scopes and a failed read of a queued payload are not modelled.
