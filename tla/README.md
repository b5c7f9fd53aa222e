# Synqueen: a TLA+ model

Synqueen keeps folders in step through a cloud directory. A background service watches each
folder, commits changes to a Mercurial repository in it, bundles new changesets into patch
files, exchanges the files with other devices through a cloud folder, and applies what it
receives. This directory models the service's core, checks it with TLC and proves part of it
with TLAPS. Paths below are relative to `service/corelib/src` unless they start with `service/`.

## 1. The system

| Component | State | Operations | Works with |
|---|---|---|---|
| `HgProcess` (patch/hgprocess.cpp) | `commandsQueue`, `commandInFlight`, `process`, `processToStop`, three pipes, completers | `runCommand`, runner, start, stdout/stderr/exit/close callbacks, `stopHgProcess` | the `hg serve --cmdserver` child, every caller of hg |
| `HgProtocol` (patch/hgprotocol.cpp) | input buffers, the frame being read | `prepareCommand`, `feedStdOutput`, `tryParseHelloMessage`, `reset` | called by `HgProcess` |
| `HgBackend` (patch/hgbackend.cpp) | none but the hg store | `checkLocalState`, `preparePatch`, `applyPatches`, `addAndCommit`, `initRepoFolder` | `HgProcess` |
| `FolderManager` (foldermanager.cpp) | `isSynchronizing`, `nextOutgoingPatchIndex`, `lastOutgoingCommit` | `synchronize`, `loadFolderState` | `HgBackend`, `PatchStorage`; called by the timer and by `PatchStorage`'s incoming notifier |
| `PatchStorage` (patchstorage.cpp) | three directories and the maps that mirror them | move to apply, stage as applied, move to outgoing, load | notifies `FolderManager` and `CloudDestination` |
| `CloudDestination`, `LocalFolderGate` (cloud/) | none | `synchronize`, list, download, upload | `PatchStorage`, the shared folder |
| `Synchronizer` (synchronizer.cpp) | folders, nursery, events | `run`, `shutdown`, `checkAllLocal`, `checkAllRemotes`, `addFolder` | all of the above |
| `TimerWatcher` (watchers/) | a uv timer | `startWatch`, `stopWatch` | `checkAllLocal` |
| `Core` (corelib.cpp) | `coreInstance`, the loop, a promise, the stop event | `initialize`, `run`, `stop`, `deinitialize` | called by the host's two threads |
| `Settings` (settings.cpp) | settings file | `load`, `save`, the default file | `Core`, `addFolder` |
| `TaskScheduler`, `Completer` (utils/) | one async handle per task; one-shot results | `runOnMainThread`, `runOnMainThreadAsync`, `complete` | gRPC threads; `HgProcess` |
| gRPC gate (uigate/) | the server, a reactor per call | `AddFolder`, `ListFolders`, server start and end | its own threads post tasks to the loop |
| Windows host (service/windows/) | `SignalsHandler`'s thread and events | `main`, `serviceMain`, `serviceCtrlHandler` | `Core` |
| paths, logging, uuid, system information | | | see section 6 |

What is hard in it:

- **Re-entrancy on one thread.** There are no locks. A libuv callback completes a `Completer`,
  which resumes the awaiting coroutine at once, in the middle of the callback, and that
  coroutine may call back into the same object.
- **A child process** that may fail to start, greet late, ask for input, die at any moment, or
  ignore SIGINT.
- **Shutdown** with commands in flight: some awaits cannot be cancelled, and a coroutine that is
  cancelled elsewhere never replies.
- **State held across awaits.** A folder's task reads the repository's status, then commits,
  bundles and applies, while the user edits and other callbacks download patches.
- **Dropped notifications.** `FolderManager::synchronize` returns if a task is running.
- **Crashes and failures** between commit, bundle, move and upload. The position of the next
  bundle survives only in the names of the outgoing files.
- **Two threads** and gRPC's own: a stop, a signal or a call may arrive while Core is being made,
  is running, or is on its way out.
- **A byte stream** cut anywhere, whose data may look like headers.
- **Several devices** that copy files to and from one folder without any protocol.

What makes each part correct:

- `HgProcess`: each command is answered once, with hg's reply to that command or an error;
  first come, first served; never two hg; `stopHgProcess` returns and the child is gone.
- Folder synchronisation: published patches never have a hole; an applied patch is in the
  store; nothing is skipped after a crash; what is bundled reaches every device; what is
  committed is bundled.
- `PatchStorage` files: a file under its final name is complete, if its source was, and a patch
  moves from one directory to the next at once or not at all.
- `HgProtocol`: however the bytes are cut, each command gets exactly its own result, and hg reads
  the arguments that were given.
- `Core`: a `stop()` that returns has ended everything; if hg answers, every stop returns and every
  call is finished; Core is not deleted while it is used.
- `Settings`/`addFolder`: a folder is entered and served once; one that was reported as added is
  never forgotten; a stop does not cut a save.

`PROJECT.json` lists the hazards line by line with the property that covers each.

## 2. Modules

| Module | What it is |
|---|---|
| `HgProcess` | the command queue and the life of the hg child |
| `CommandService` | the abstract service that `HgProcess` implements |
| `HgProcessProofs` | theorems about `HgProcess`, with the refinement of `CommandService` |
| `FolderSync` | folder tasks, patch storage and cloud exchange on several devices |
| `ChangesetExchange` | what `FolderSync` promises about changesets, without patch files |
| `FolderSyncProofs` | theorems about `FolderSync` |
| `FolderExchangeProofs` | theorems about what becomes of patch files, with the refinement of `ChangesetExchange` |
| `PatchFiles` | the files of one `PatchStorage`: `moveFile`, failures, crashes, reload |
| `PatchPlaces` | what the storage promises: one place per patch, atomic moves |
| `PatchFilesProofs` | theorems about `PatchFiles`, with the refinement of `PatchPlaces` |
| `HgProtocol` | the two byte streams between the service and hg |
| `HgProtocolProofs` | theorems about `HgProtocol`: nothing is lost, doubled or mixed up |
| `FolderCalls` | the calls of the gRPC interface |
| `CoreService` | the life of one service process: its threads, loop, server and stop |
| `FolderRegistry` | settings file, folders in memory, repositories, `addFolder` |
| `Service` | `CoreService` and `FolderRegistry` together, with kills and restarts |
| `CoreServiceProofs`, `FolderRegistryProofs`, `ServiceProofs` | theorems about these three |
| `MCHgProcess`, `MCFolderSync`, `MCService`, `MCPatchFiles`, `MCHgProtocol` | constants for TLC |

Definitions whose name has a suffix (`RunCommand_PushFront`, `Known_NotApplied`) are slips: what
a plausible mistake would turn the definition after them into. No specification uses them; each
is listed in `PROJECT.json` with the property that catches it.

### HgProcess and the code

The loop thread runs one callback at a time. `at` says what it executes: `loop` (free to
dispatch), `schedule` (the runner started by `scheduleNextCommand`), `write` (`runNextCommand`
once the process is there) and `complete` (in `finishCommand` or `failCommand`, between the
answer and the pop). Because the caller is resumed in `complete`, `RunCommand` is enabled there:
that is the re-entrancy at hgprocess.cpp:96. `exiting` says that `onProcessExit` is on the stack
below it, between its call of `finishCommand` (line 351) and the reset of the pipes (line 354).
`process`, `processToStop` and `closing` are the two pointers and the handles given to
`uv_close`, whose callback comes later. `pipes` is the child the current pipes belong to.
`os`, `inbox`, `outbox` and `signal` are the child itself.

| Code | Actions |
|---|---|
| `runCommand` | `RunCommand`; the caller's resumption is `TakeAnswer` |
| `scheduleNextCommand`, `runNextCommand` | `PopAndScheduleNext`, `AlreadyStarted`, `WriteCommand`, `PrepareFails`, `WriteFails`, `WriteIsUndefined` |
| `startHgProcess` | `StartHgProcess`, `StartHgProcessDeaf` (`uv_read_start` of stdout, or of stderr only, fails), `SpawnFails` |
| `finishCommand`, `failCommand` | `CompleteFront`, `FailFront`, then `PopAndScheduleNext` |
| `onProcessStdoutRead` | `ReadHello`, `ReadAnswer` |
| `onProcessExit`, close callback | `OnProcessExit`, `OnProcessExitReset`, `ProcessClosed` |
| `stopHgProcess` | `Shutdown`, `StopTimer`, `StopResumed` |

A child is a model value that returns to `unborn` when its handle is closed, so that two values
stand for any number of restarts. `Faults` says what may go wrong in a run.

### CommandService

A queue of callers and their answers: submit, answer the first, take the answer. The mapping is
`pending <- Pending`, the queue without the command whose caller has just been answered.

### FolderSync and the code

Each device is one service process with one folder and one cloud destination. `pc` is where the
coroutine of `FolderManager::synchronize` is; every value but `list` and `stage` is a
`co_await` of an hg command, at which other callbacks run. `cloudTask` is where
`CloudDestination::synchronize` is. The local gate's tasks are ready at once, so this coroutine
never gives up the thread: `Free(d)` keeps the device's other callbacks out while the other
device, and a crash, interleave file by file. When the folder task wakes the cloud task
(`movePatchToOutgoing` notifies), the model lets either go on first.

A changeset is a number, `history` its ancestors, `repo` a store, `parent` the working
directory's parent. A patch is the pair that makes its file name, with the changesets bundled
in it and whether the file is complete. `SortsBefore` is the order of `std::map` over file
names: digit by digit, `_` after every digit. `outgoing`, `toApply` and `applied` are the three
maps of `PatchStorage`. `unlisted`, `arrived` and `kept` are files that its directories hold
besides: when `moveFile` has given a copy its final name and cannot remove the source, it throws
although the patch has moved. A patch in `unlisted` is in the outgoing directory and one in
`arrived` in that of the patches to apply, both in no map; a patch in `kept` is in the applied
directory and still where it was to apply. A restart lists them all.

| Code | Actions |
|---|---|
| `FolderManager::synchronize` | `CheckLocal` (timer) or `NotifyIncoming` (notifier), then the rows below |
| `checkLocalState` | `CheckLocalState`, `SummaryFatal` (exit code 255) |
| `preparePatch`, `movePatchToOutgoing` | `PrepareCommit`, `MovePatchToOutgoing`, `MoveThenFail` |
| `applyPatches` | `ListPatchesToApply`, `ApplyCommit`, `Unbundle`, `UnbundleFails`, `Update` |
| `stagePatchAsApplied` | `StagePatchAsApplied`, `StageFails`, `StageThenFail` |
| the exception paths | `HgFails`, `CommitThenFail`, `UpdateThenFail` |
| `CloudDestination::synchronize`, `LocalFolderGate` | `CheckRemotes`, `ListAndDownload`, `MovePatchToApply`, `NotifyIncoming`, `UploadFile`, `UploadBegins`, `UploadEnds`, `CloudFails`, `ArriveThenFail` |
| constructors after a restart | `Crash`, with `Loaded` for `loadFolderState` |

hg is external: `commit` adds a changeset on top of `parent`; `bundle --base x` takes every
changeset of the store that is not an ancestor of `x`; `unbundle` takes its files one after the
other, each in its own transaction, and refuses one whose parents are missing; `update` goes to
a head that descends from `parent`.

### ChangesetExchange

Changesets, stores and what each device has published, and no patch files: a device makes a
changeset on top of one it has, publishes more of its store together with the ancestors, or
receives some of what another has published, never without the ancestors. The mapping is
`store <- repo` and, for what is published, `Bundled(d)`: the contents of the outgoing patches
together. A device whose bundle fails and whose next one starts from the wrong base would publish
a changeset without its ancestors; a torn or early patch would bring one into a store.

### PatchFiles, PatchPlaces and the code

`temp`, `final` and `interim` are the files of each patch in the temporary directory and in the
three directories of the storage, with the suffix `.interim` or without; a file is torn while it
is written. `known` is the three maps. Everything in `moveFile` runs without waiting, so `move`
is one call, and its `at` the next file operation:

| Code | Actions |
|---|---|
| `PatchStorage::PatchStorage`, `cleanInterimFiles`, `loadPatches` | `Load`, `LoadFails` |
| `movePatchesToApply`, `movePatchToOutgoing`, `stagePatchAsApplied` | `MovePatch`, and `Return` or `Throw` at the end of `moveFile` |
| `moveFile` | `AlreadyThere`, `Rename`, or `RenameFails` and then `InterimExists` or `CopyBegins`, `CopyEnds`, `Settle`, `Remove`; each may fail |
| the process dies; `makeSureFoldersExist` empties the temporary directory | `Crash` |

`PatchPlaces` has one variable, the place of each patch, and one action that moves a patch to the
next. The mapping `place` is the furthest directory in which the patch has its final name. It is
what lets `FolderSync` treat what a move does to the files as one step. It does not say what the
caller is told: after `RemoveFails` the patch has moved and the caller gets an exception, which
`FolderSync` has in `MoveThenFail`, `StageThenFail` and `ArriveThenFail`.

One corner is outside `FolderSync`, and with it outside all of its properties: an interim file that
an earlier failure left makes a second attempt report a move that did not happen
(patchstorage.cpp:119). A patch would then be published, counted as applied or remembered as sent
without a file in its directory. `KnownIsOnDisk` records it as the one way a map may be wrong.

All of this is relative to whole sources. A download that fails half way can leave a torn file in
the temporary directory, and `update_existing` keeps it on the retry, being the newer one
(localfoldergate.cpp:55). `FolderSync` takes what is downloaded for the cloud's file; of torn files
it has those that were uploaded so far only in part.

### HgProtocol and the code

`buffer`, `readState` and `pid` are the members of the class; `stdout` is what hg has written and
the service not yet read. `Feed(n)` is one read callback with `n` bytes. `Frames` is the loop of
`feedStdOutput`, a recursive function over positions of the buffer, which is parsed from its start
at every read. `ParseNothing`, `ParseResult`, `ParseLine` and `ParseThrows` are its four ways to
end. `Write` is a command from `prepareCommand`; `HgAnswers` takes it apart again. A length has
four digits of base `Radix`.

A request for a line of input (`L`) is answered with an empty result and nothing is erased, and an
unknown required channel throws and leaves it in the buffer: either way nothing later is
understood until hg is started anew. After a request for a line it is worse: `feedStdOutput` finds
the same request at every read and completes another command with an empty success, the next
command is written, and hg, which waits for the line, takes it for that. All three properties are
about what comes before such a request (`Understood`): `ResultsMatch` and `CommandsArrive` say of
each result and command that nothing before it was misunderstood.

### CoreService, FolderRegistry, Service and the code

`main` is where the thread of `Core::run` is, `host` where the one that calls `stop` and
`deinitialize` is: `SignalsHandler`'s thread with `--app`, the service manager's otherwise.
`promise` and `fulfilled` are `Core::stopPromise`, which `stop()` replaces only after it has sent
the event. `task` is the async handle of each gRPC call; in the states `Abandoned` nothing will
finish the call any more: `lost` (`uv_async_init` has failed), `unsent` (`uv_async_send` has failed,
and the handle stays open, which keeps the loop running) and `dropped` (cancelled with the nursery).

| Code | Actions |
|---|---|
| `initialize`, `Core::initialize` | `Construct`, `InitializeCore`, `InitializeFails`; in `Service` also `InitializeLoads` |
| `run`, `Synchronizer::run`, `initAsync` | `EnterRun`, `EnterRunNoServer`, `RunNothing` |
| `Core::stop`, `stop`, `deinitialize` | `HostStop`, `ReplacePromise`, `StopReturns`, `Deinitialize` |
| `stopAsync`, `Synchronizer::shutdown` | `StopAsync`, then `AddCancelled` (with `AddDropped`) and `NurseryEnds` |
| the end of `Core::run` | `LoopEnds`, `ServerShutdown`, `ServerGone`, `SetValue`, `LeaveRun` |
| `TaskScheduler`, gRPC reactors | `Post` (posted, lost or unsent), `ListTask`, `AddTask`, `AddTaskTooLate`, `AddEnds` |
| `loadSettingsFromJson`, `createDefaultSettingsFile` | `LoadSettings`, `CreateDefaultSettingsFile`, `DefaultSettings`, `LoadThrows` |
| `loadFoldersAsync` | `LoadFolders` |
| `addFolder`, `initRepoFolderImpl` | `AddBegins`, `HgInit`, `InitRepoThrows`, `EnterFolder`, `SaveThrows`, `ServeFolder`, `ServeThrows` |
| `saveSettingsToJson` | `SaveSettings`, `SaveCut` (disk full), `SaveElsewhere` (the dangling path) |

Behaviour that is undefined ends in a value `ub_...` of `main`, after which nothing is said.
`Service` conjoins the steps that one callback makes in both: the task of AddFolder is
`AddTask /\ AddBegins`, its end `AddEnds /\ AddReturns`, its cancellation
`AddCancelled /\ AddDropped`; while `addFolder` is between its save and its end, the loop runs
nothing else. A cancelled nursery does not interrupt the wait for hg (the awaits of
hgprocess.cpp:37 and 41 cannot be cancelled): when hg has answered, `addFolder` may go on
or end before its next command or its save, and when hg does not answer it waits for ever.

## 3. Runs

| Run | Bounds | Result |
|---|---|---|
| `hgprocess_safety` | 3 callers (one with a malformed command), 2 children, every fault | passes |
| `hgprocess_live` | 3 callers, 2 children, failing spawns | passes; also finds no deadlock |
| `hgprocess_stop` | 2 callers, 2 children, exits and a shutdown at any time | passes |
| `hgprocess_exit` | 2 callers, hg may end by itself | **violated** |
| `hgprocess_stop_hangs` | 2 callers, a shutdown at any time | **violated** |
| `folder_safety` | 2 devices, files in both when added, 2 edits, 2 crashes, every failure | passes |
| `folder_live` | 2 devices, 2 edits, 1 crash, remote checks | passes; also finds no deadlock |
| `folder_order` | 2 devices, 2 edits, Radix 2 | **violated** |
| `folder_stranded` | 2 devices, 2 edits, no failure | **violated** |
| `patchfiles` | 2 patches to receive, 1 to send, 2 crashes, every failure | passes |
| `hgprotocol` | 3 commands given, 2 hellos, 6 answers, 1 restart of hg, every cut | passes |
| `service` | both hosts, 2 calls, 2 folders, 1 restart, every failure | passes |

What the passing runs show:

- `hgprocess_safety`: the queue holds each waiting caller's command once; the flag matches the
  queue; there is one hg; what hg says next is for the front of the queue; `CommandService` is
  implemented.
- `hgprocess_live`: without exits every command is answered, also those queued behind a failed
  start, and `front()` is never called on an empty queue. (That no null stream is written to
  cannot fail here; it is proved for more faults, see section 4.)
- `hgprocess_stop`: the stop returns within its two timeouts and the handle is closed, even if
  the child ignores SIGINT.
- `folder_safety`: whatever fails, and wherever the service dies, a device's published patches
  up to any index contain every ancestor; a patch counted as applied is in the store; and the stores
  exchange changesets as `ChangesetExchange` says. Two properties name what a move that throws when
  the patch is in place makes of them: memory is what a restart may read, but for a patch with the
  next index in `unlisted` (`MemoryMatchesDisk`), and no patch is both applied and to apply, but for
  one in `kept` (`StoredOnce`).
- `folder_live`: if every device is told to check the remotes again and again
  (`RemoteChecksHappen`), every bundled commit reaches every device; and hg finds the parents of
  every file of a batch. The service does not provide the assumption: its timer asks for checks of
  the local folder only, and nothing calls `checkRemoteChanges`. A device without edits never lists
  the cloud folder by itself, so that what others publish does not reach it.
- `patchfiles`: a file under a final name is never torn, if its source was not; a name in a map has
  a file, but for the leftover interim file; each patch moves in single steps and never back. TLC
  finds no state in which the process must stop, but the bound on crashes and a finished set of
  patches end it.
- `hgprotocol`: cut anywhere, each command gets its result and no other; nothing is held back once
  all is read; the arguments arrive, up to a request that is not understood.
- `service`: what section 1 asks of `Core` and of `addFolder`. The properties name the cases in
  which the code does not deliver, so that the rest is known to hold:
  - `StopReturnsUnless` assumes that hg answers (`HgAnswers`). Even then a stop may hang if the
    loop's thread reaches `set_value` before `stop()` has replaced the promise, or if there is a call
    that nothing will finish (`NeverFinishes`), for the destructor of the server waits for it: one
    whose task could not be sent, was posted after the loop's end, or was cancelled. If the port
    was taken, the loop never ends by itself and the stop fails an assertion (`ub_shutdown`).
  - `ServiceKeepsItsCore` holds as a service only: with `--app` a signal during `initialize`
    deletes Core under the other thread.
  - `AddedIsKept`: a settings file that exists and cannot be opened is replaced by a default, and
    the path that is saved to is a dangling reference (corelib.cpp:176). `mishaps` records both, and
    nothing is claimed once there is one, nor of a torn file. What is left is that the memory and
    every file that can be loaded hold every folder reported as added.
  - `CallsFinish` assumes that hg answers too, is about tasks that reach the loop, and ends with a
    stop: calls may then be dropped.
  - `StopLeavesNoSave`: a stop that returns finds no `addFolder` before its end. One that the nursery
    cancelled had not begun to save.

What the violated runs show is in `PROJECT.json` under "findings":

- `hgprocess_exit`: hg ends while two commands are queued. `onProcessExit` answers the first and
  starts the second, which is written to the dead child, whose handle `process` still holds. Its
  caller waits forever, and so does everyone after it.
- `hgprocess_stop_hangs`: a runner that waits for hello, or a caller queued behind the one the
  exit answers, is never resumed. The nursery does not empty, and `stop()` does not return.
- `folder_order`: "10_" sorts before "9_". A device that downloads both at once gives hg the
  later patch first; hg refuses, and each retry is the same.
- `folder_stranded`: an edit between `hg summary` and the commit at the start of `applyPatches`
  is committed and not bundled. The folder is clean from then on, so the commit stays on its
  device until the next edit.

### Why the bounds are enough

Three callers are the front, one behind it, and one that arrives or fails meanwhile. Two children
are the one being stopped or closed and its successor. Two devices are a publisher and a receiver,
and either may be both. In `folder_safety` a device can make three commits, of which the first two
are a patch and a commit left behind by a failure, and the third is in the patch that has to make up
for it. A crash can fall between any two steps, and the second one into the recovery from the first.
`MaxCrashes` bounds crashes and moves that throw when they are done together, so that one of these
can be followed by a restart, a second one, or a retry.
`MaxEdits` and `MaxCrashes` only end behaviours early; every property in the runs talks about
prefixes, or about commits that have been made. In `folder_order` the radix is 2 so that patches 1
and 2 stand for 9 and 10: the only thing it changes is where the number of digits grows. Device and
caller symmetry is used in the two safety runs only.

Two calls are enough for one to overtake another at each step of `addFolder` and for a task to be
posted late; two folders, for the same and for different ones; one restart, for what is on the disk
to be read back. `CallsFinish` is checked for one of the two calls (`CallFinishes(c1)`): nothing in
the specification tells calls apart. Two crashes in
`patchfiles` are one that leaves an interim file and one in the recovery; an incoming patch has the
longest way, and two of them and an outgoing one show that moves do not disturb each other. In
`hgprotocol` the radix is 2, which makes lengths of the data used need two or three digits; three
commands are one, its successor, and one that is written after the answer to the first was
misunderstood.

### Fairness

`HgProcess`: a step that the thread is in the middle of is taken; a ready callback is dispatched
in the end although other callbacks come between (strong fairness for reads, exit and close);
hg greets and answers while it runs; SIGKILL works. No fairness for callers, spontaneous exits,
or a child's reaction to SIGINT.

`FolderSync`: the cloud task is never suspended (weak fairness); the loop dispatches answers of
hg and timers although other callbacks come between (strong fairness). The user adds the folder
on every device in the end (`AddFolder` is weakly fair). `CheckRemotes` is not fair: at this commit
`TimerWatcher` asks for local checks only, and only tests call `checkAllRemotes`. That remote checks
happen again and again is an assumption of the one property that needs it, `PatchesSpread`; it says
what the protocol achieves *if* they do.

`Service`: both threads run on, and the loop dispatches what is pending. Nothing is assumed of hg:
an `addFolder` that waits for it may wait for ever, and the nursery, with hg's own coroutines in it,
need not become empty (`hgprocess_exit` and `hgprocess_stop_hangs` show when that happens). That it
does answer and the nursery empties is `HgAnswers`, the assumption of `StopReturnsUnless` and
`CallsFinish`, which are about the rest of a stop and of a call. Nothing is assumed of the host, of
gRPC's clients or of kills. `PatchFiles` and `HgProtocol` are checked for safety only.

## 4. Proofs

`HgProcessProofs` proves of `HgProcess!Spec`, for every set of callers, malformed commands,
children, prompts and faults that satisfies `ConstantsAssumption`:

| Theorem | Statement |
|---|---|
| `TypeCorrect` | `Spec => []TypeOK` |
| `NoCommandLost` | `Spec => []QueueHoldsWaiting` |
| `FlagIsExact` | `Spec => []FlagMatchesQueue` |
| `OnlyOneServer` | `Spec => []OneServer` |

All follow from `Invariance`: `Spec => []IInv`. The four properties are not inductive. `HandleInv`
adds where the pointers point: a child exists exactly while it is `process` or `processToStop`;
before the stop there is only `process` and after it only `processToStop`; a handle is closed, and
`onProcessExit` is on the stack, only for a child whose exit has been handled; and no runner starts
once the nursery is cancelled. That is what makes `ExitedHandle` a handle (the type invariant needs
it) and what keeps `StartHgProcess` from adding a second child. `QueueInv` adds that the thread is
in `complete` only with a non-empty queue, so that the pop removes exactly the command that is no
longer waited for. Each is proved preserved by one lemma with one step per action (`TypeStep`,
`HandleStep`, `QueueStep`).

Its second part goes on from there:

| Theorem | Statement |
|---|---|
| `OnlyTheFrontIsOutstanding` | `Spec => []FrontIsOutstanding` |
| `HgProcessServes` | `Spec => ImplementsService`, if `"L" \notin Prompts` |
| `DefinedWithoutExits` | `Spec => []NoUndefinedBehaviour`, if `"exit" \notin Faults` |

`OutInv` says what a child can owe: nothing, the answer to the front, or that answer already in its
pipe, perhaps behind a hello; and something only while the thread is back in the loop with a command
at the front. A child whose hello is awaited owes nothing, so the runner that hello resumes writes
to a child with empty pipes. Since all other children are unborn (`HandleInv`), a step about one
child needs a look at that child alone (`OneChild`). `FrontIsOutstanding` is then what makes an
answer that is read the answer of the front's own command, which is the one step of the refinement
that is not bookkeeping; the others follow from `QueueInv`. Both conditions are needed: a request
for a line of input answers its command with an empty success, and an hg that exits by itself leaves
a moment in which `process` is set and the pipes are not, where a new command is written to a null
stream (the hazards at hgprotocol.cpp:83 and hgprocess.cpp:351).

`FolderSyncProofs` proves of `FolderSync!Spec`, for every finite set of devices, every bound on
edits and crashes, every radix and every set of events that satisfies `ConstantsAssumption`:

| Theorem | Statement |
|---|---|
| `TypeCorrect` | `Spec => []TypeOK` |
| `AppliedMeansUnbundled` | `Spec => []AppliedIsInStore` |
| `PublishedWithoutHoles` | `Spec => []NoHoleInOutgoing` |
| `RestartReadsBack` | `Spec => []MemoryMatchesDisk` |
| `NeverAppliedTwice` | `Spec => []StoredOnce` |

Again all follow from `Spec => []IInv`, and none is inductive. `StoreInv` says what hg keeps true:
ancestry is reflexive and transitive and every store is closed under it. `IndexInv`: the position in
memory is behind the last patch of the map, and a file that is in the directory only has at most the
next index. `BaseInv`: every outgoing file, listed or not, is named after an ancestor of the working
directory, since only commits and updates move that, and a task that is about to bundle has
something new. `CoverInv`: what such a file relies on is in it or in the listed patches up to its
index. So a new patch, which holds everything in the store that is not an ancestor of the base,
leaves no hole, whichever of two files with one index a restart takes for the latest. `ApplyInv`
follows a batch: what has left `todo` is in the store, and stores only grow. `TurnsInv`: staging and
downloading never overlap on one device, because `stage` is entered only when no cloud task is on
the thread, and a name is in the applied directory and in the other only if it is in `kept`. What a
step can do to the hg stores, to the published patches and to a batch is classified first
(`HgSteps`, `OutgoingSteps`, `ApplySteps`), so that each part has a few cases in place of all
actions. hg itself is assumed to behave as section 2 says, and two processes never share a folder.

`FolderExchangeProofs` goes on from that invariant, under the same assumption:

| Theorem | Statement |
|---|---|
| `FoldersExchange` | `Spec => ImplementsExchange`, the refinement of `ChangesetExchange` |
| `OrderHoldsForOneDigit` | `Spec => [](OneDigit => OrderDoesNotMatter)` |
| `OrderNeverMatters` | `Spec => []OrderDoesNotMatter`, if `MaxEdits < Radix` |

For the refinement, `OriginInv` says that whatever lies in a cloud folder, in a storage or in a
batch is a file some device has bundled, so that unbundling it is a `Receive` from that device;
by `BundledInv`, which follows from `CoverInv`, what the listed patches hold is closed under
ancestors, so that a new bundle, and a restart that finds one more file, is a `Publish`. A partial
upload is a file, but not a complete one, and hg refuses it.

That the order of a batch does not matter is a claim about files on their way through six lists of
two devices. The inductive form is `OrderInv`: every patch relies on nothing, or on what comes with
a patch of a smaller index, its *anchor* (the predecessor of the same device), and for every list it
says where the anchors of its files are: in the list or where its files go. Files that moved
although their move threw are lists too (`Unlisted`, `ToApplyFiles`). Each list is emptied in the
order of file names; if that is the order of indexes, what leaves a list has its anchor already
there (`TakeFirst`). The crash in the middle of an upload or of a download is why the condition is
on each list and not on the batch alone. File names sort as indexes only while these have one digit
(`OneDigitSorts`), hence `OneDigit`, and by `EditsInv` (each patch has cost an edit, also one in the
directory that waits for a restart to be counted) fewer edits than the radix are enough.
`folder_order` has as many edits as the radix and is violated: the condition is as weak as it can
be.

`CoreServiceProofs`, `FolderRegistryProofs` and `ServiceProofs` prove, for every set of calls and
folders and any number of restarts:

| Theorem | Statement |
|---|---|
| `CoreTypeCorrect`, `StopIsComplete`, `CoreOutlivesRun` | `CoreSpec => []CoreTypeOK`, `[]StopMeansStopped`, `[]ServiceKeepsItsCore` |
| `RegistryTypeCorrect`, `EachFolderOnce`, `AddedFoldersStay` | `RegistrySpec => []RegistryTypeOK`, `[]OneManagerPerFolder`, `[]AddedIsKept` |
| `ServiceRefinesCore`, `ServiceRefinesRegistry` | `Spec => CoreSpec`, `Spec => RegistrySpec` |
| `ServiceKeepsEachFolderOnce`, `ServiceKeepsAddedFolders` | the same two of the composed process |
| `StopCutsNothingShort` | `Spec => []StopLeavesNoSave` |

`AddedIsKept` is as weak in the theorems as in the run: nothing is claimed after a mishap, nor of a
torn file.

For `CoreService` the invariant adds `EndInv`, what the end of `run()` has reached when a promise
is kept, and `HostInv`, which promise the host waits for. For `FolderRegistry`, `OwnInv` says what
keeps a folder from being entered twice: a call that has got past `hg init` owns the repository,
no other call can, and every entry has a repository. `FileInv` follows the settings file through
its being cut. The composition needs two facts more: no call outlives `run()` (`TaskInv`), and
`addFolder` runs only inside its task (`AddInv`), which ends, or is cancelled, with it.

`PatchFilesProofs` proves, for any sets of patches and any bound on crashes:

| Theorem | Statement |
|---|---|
| `TypeCorrect` | `Spec => []TypeOK` |
| `NeverTorn` | `Spec => []FinalIsWhole` |
| `NamesHaveFiles` | `Spec => []KnownIsOnDisk` |
| `StorageMovesAtomically` | `Spec => MovesAreAtomic`, the refinement of `PatchPlaces` |

`MoveInv` says what holds at each file operation of `moveFile`: the source is there, the destination
is not before `Settle`, the interim file is this move's. `DiskInv`: a patch is only in the
directories of its kind, and one on the disk as applied is in a map, so that it is not fetched and
moved again. A source in the temporary directory is taken as whole. From these each `Rename` and
`Settle` is a step of `PatchPlaces`, and the other steps leave the place alone.

`HgProtocolProofs` proves, for every radix above 1, any commands, hellos and answers of hg, any
number of commands and restarts, and every way to cut what hg writes:

| Theorem | Statement |
|---|---|
| `StreamsInvariant` | `Spec => []IInv` |
| `ResultsMatchAnswers` | `Spec => []ResultsMatch` |
| `NothingIsWithheld` | `Spec => []NothingWithheld` |
| `CommandsArriveWhole` | `Spec => []CommandsArrive` |

The assumptions are on what passes through: a hello has a pid field and a length that fits four
digits (`HellosAssumption`); a command has arguments without null bytes and fits too
(`CommandsAssumption`); an answer is a sequence of frames of which exactly the last is a result, of
four bytes, or a request (`AnswersAssumption`). `StreamsInv` says that while everything has been
understood, the buffer, the two pipes and the counts of commands, answers and results are in one of
four states: the rest of the hello message, nothing, one whole command on its way, or the rest of
one answer. The other parts remember what has been handed over before.

Most of the proof is about data. `BigEndian`: four digits give back the length. `FlattenLayout`:
where each part of a joined sequence begins. `SplitJoined`: hg takes apart what `prepareCommand` has
joined. `FrameWhole` and `FrameCut`: a frame whose bytes are there is recognized, and of one that is
cut nothing is said, whatever its data look like. `FramesOf`: the search through the beginning of an
answer finds exactly its whole frames, and a last one only if all is there; so `feedStdOutput`
returns a result with the last byte of an answer and not before (`FeedWhole`). `Split`, `Frames` and
`FlattenSeq` are recursive functions. The induction theorems of the library take an operator, which
the provers cannot instantiate, so `Induction` is stated over a set of numbers and derived from the
least element of a set that is well-founded (`LeastNatural`). From it follows that each recursive
definition has a function that satisfies it (`FlattenExists`, `SplitExists`, `SearchExists`), and
then what the function computes.

Only model-checked: all liveness (`EveryCommandAnswered`, `StopTerminates`, `StopReapsChild`,
`PatchesSpread`, `StopReturnsUnless`, `CallsFinish`), which is out of the prover's reach. Every
safety property, action property and refinement of a passing run is proved, under the conditions
named above.

## 5. Bounds of the abstraction

- Formats, log messages and the content of files are not modelled. In `HgProcess` a frame of the
  command server arrives as a whole; `HgProtocol` shows that the cuts make no difference.
- A file move in `FolderSync` is done or not done, as `PatchFiles` shows, and the caller may get an
  exception in either case. The interim file of an earlier failure (section 2) is left out there.
- A download is a copy of the cloud's file or a failure; the torn temporary file that a failed
  download may leave for the next one is left out.
- What the code does when it calls into undefined behaviour, and what the dangling path of
  corelib.cpp:176 names, is not followed.
- Lengths in `HgProtocol` stay far below 2^32; the sum in hgprotocol.cpp:102 does not wrap.
- `FolderRegistry` has no cloud destinations: the gRPC interface passes none. (The schema wants
  their `gateType` as a string where the code reads and writes a number, so a settings file with
  one could not be loaded.)
- `uv_async_init` from gRPC's threads is taken as safe, though libuv does not promise that.
- hg never leaves unresolved files: an `hg update` over an edited file that conflicts is not
  modelled. The code has a TODO there (hgbackend.cpp:147).
- One folder and one destination per device; the tasks of several folders meet only in
  `HgProcess`, whose callers they are.

## 6. Not modelled

`RcloneCloudGate` is a stub, `Synchronizer::removeFolder` is empty, and the gRPC method
`RemoveFolder` returns no reactor. Logging, uuid, system information and the string utilities
format and query without state that a property speaks of. Of the paths only the emptied temporary
directory is modelled, of the Windows host only the two threads and what they call: the states
reported to the service manager are left out. In `HgBackend` a merge with unresolved files and the
contents of `hgrc` and of ignore files are left out.
