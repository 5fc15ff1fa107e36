# HGBTool in TLA+

HGBTool is a collection of iOS components in Objective-C: some two hundred
independent tools, controllers and views, most of them a thin wrapper of a
system framework. This directory holds TLA+ models of the parts that keep state
of their own across calls, callbacks and restarts, the TLC configurations that
check them, and proofs that TLAPS checks. The components do not call each other
(each is copied into an application on its own), so the models compose within a
component and its platform, not across components.

Contents: 1 inventory, 2 plan, 3 the modules and the code, 4 runs, 5 bounds,
6 fairness, 7 proofs, 8 where the code and its documents part, 9 what is
abstracted or not modelled, 10 how to run it.

## 1. Inventory

Paths are relative to `src/`. `PROJECT.json` lists every component with its
files and its status.

| Component | State | Operations | Interacts through | What is hard | What makes it correct |
|---|---|---|---|---|---|
| Download manager, `Tool/HGBTool/DownLoadTool/…/HGBDownLoadTool.m` | registry of tasks, set of tasks in progress, a plist on disk, an `NSURLSession` and a transfer per task | add, start, cancel, suspend, resume, delete, cancel all, suspend all; three delegate callbacks; launch, termination | calls from the program; blocks on a global queue; session callbacks on the main queue; the plist across processes | a start block that runs late, callbacks that come after a cancel or a delete, a process that dies between two writes | the plist is the registry; a mark "in progress" is always cleared; a finished download is recorded with its file; a suspend, a cancel, a delete take effect and last |
| Background part of the manager (same file, "后台") | the UIKit background task, a repeating timer | resign and become active, two expiration handlers, timer ticks, end of the last download | UIKit notifications; the manager's finish handler | any order of these; identifiers are overwritten | every task begun is ended; it is not ended under a transfer |
| Download task, `HGBDownLoadTask.m` | the fields of one download | init, setUrl, to and from a dictionary | the plist | keys written by hand, setters with side effects, `floatValue` | what is saved is what is read back |
| Download screen, `HGBDownLoadController.m` | none of its own | on every appearance: restart the cancelled tasks, pause some of them again | the manager's calls | its loop does not wait for the blocks it causes | cancelled tasks come back; a task restarted to stay paused stays paused |
| Socket client, `Tool/HGBHardwareTool/SocketTool/…/HGBClientSocketTool.m` | one `GCDAsyncSocket`, connection flags, heartbeat timers | connect, disconnect, send, heartbeat; three delegate methods | main thread, timers, delegate blocks on a concurrent queue, a peer | blocks in any order and in the middle of a call; reconnection against a deliberate disconnection | a connection can receive; a loss is repaired; a disconnection that was asked for is kept |
| Socket server, `…/HGBServerSocketTool.m` | listening socket, a flag | listen, disconnect, send; delegate methods | peers | owns no accepted socket | planned, `SocketLink` |
| USB service and client, `Tool/HGBHardwareTool/USB/…` | a peertalk channel, a peer | connect, frames by tag, reconnection timer | a device | connect and disconnect races | planned, `USBLink` |
| In-app purchase, `Tool/HGBTool/PurchaseTool/…/HGBPurchaseTool.m` | the gate of the product request, the receipt in memory, the receipts on disk | start and stop, request products, pay; the answers of StoreKit; the transactions of the payment queue | StoreKit on the main thread; blocks on two concurrent queues; the disk and the payment queue across processes | a process that dies between payment, receipt and finish; a gate nothing opens again; a stop that overtakes a start | a paid transaction is closed only under a receipt that is kept; what is settled is concluded; the gate can be opened |
| Keyboard cipher, `Component/PopComponent/CustomKeyBord/…/TTAlgorithmSM4/` | the key schedule, the iv, the buffers of a call | encrypt and decrypt a text in two modes | the keyboard, which encrypts what was typed | lengths at the edge of a block, NULs, longs of 64 bits where 32 are meant, an iv that is overwritten | the decryption undoes the encryption; the cipher is SM4 |
| Gesture lock, `Component/FullComponent/GraphLockPass/…` | nodes touched, the two passes, attempts | touches, continue, confirm, cancel; attempts | the user, a delegate | long sequences of legal gestures | a path that is set was drawn twice; planned, `LockPass` |
| Bluetooth, `Tool/HGBHardwareTool/INBluetoothTool/…` | central manager, peripherals | scan, connect, write | CoreBluetooth callbacks | one pending result block shared by operations | planned, `Bluetooth` |
| Audio, `Tool/HGBHardwareTool/AudioTool/…` | recorder and player states | record, pause, stop, play | AVFoundation, interruptions | interrupted states | planned, `AudioTool` |
| Log files, `Tool/HGBTool/Log/…` | one file per day | append | several threads | read-modify-write without a lock | planned, `LogFile` |
| URL schemes, `Tool/HGBTool/URLTool/…` | none | analyse, build | nearly every tool has a copy | its two functions must be inverse | planned, `URLTool` |
| Carousel, `Component/ItemComponent/CirculateScrollView/…` | page index, timer, drag | scroll, tick | UIScrollView | index arithmetic around the ends | planned, `CirculateScroll` |
| Database, defaults, keychain, storage clearing, notifications, media, video, location, steps, threads, requests, version, exceptions | none across calls | single calls on a system service | system frameworks | nothing a model tells more about than the code | not modelled |
| Encryption, compression, popups, pickers, base classes, vendored code | none, or layout | computations, display | | calls of CommonCrypto and openssl, a second copy of the SM4 above; the rest is not this repository's logic | not modelled |

The behaviours that are hard to test are listed with their lines under
`hazards` in `PROJECT.json`; each names the properties aimed at it, or says why
none is.

## 2. Plan

In the order of importance for a program that embeds the tools:

1. `DownLoadBackground`, `DownLoadTool` (EXTENDS it), `DownLoadController`
   (EXTENDS that), `DownLoadTask`, `TaskRegistry`: **done**, with proofs.
2. `ClientSocket`: **done**, with proofs.
3. `Purchase` and its abstract specification `PaymentDelivery`: **done**, with
   proofs. The specification promises that no paid purchase is lost; *at most
   once* is the server's business, since every start sends all receipts again.
4. `KeybordSM4`, and `KeybordWidth` (EXTENDS it, and INSTANCEs it with 32 bits):
   **done**, with proofs.
5. `LockPass`: the touches of `HGBLockView` and the two controllers on top of it.
   To state: a path given to the delegate was drawn twice. The code does not
   keep that (`HGBSetLockController.m:151-177`: a path that is too short clears
   the path and leaves 继续 enabled), which the module should show.
6. `SocketLink`: the client composed with the server (accepted sockets that are
   not retained, reads armed on the listening socket), and `SocketMessages`, the
   coding of messages (`HGBClientSocketTool.m:203-287`): which values survive.
7. `DownLoadStore`: the manager with `task.queue` set, where callbacks run on
   another thread. The read-modify-write of the plist is taken apart into its
   two halves and must be refuted, or confined to callers that are sequential.
8. `USBLink`, `Bluetooth`, `AudioTool`, `LogFile`: components with one shared
   handler or one shared file; `URLTool`, `CirculateScroll`: algorithms against
   reference definitions.

Abstract specifications worth stating beside `TaskRegistry` and
`PaymentDelivery`: a reconnecting channel for `ClientSocket` and `USBLink`.
Theorems planned: types and one inductive invariant for each of 5 to 7.

## 3. The modules and the code

### DownLoadBackground and DownLoadTool

`DownLoadBackground` is the state of the section "后台": the application's
state, `self.backTask`, the expiration handler UIKit holds for every identifier
it handed out, `self.timer` and the timers still on the run loop. Its operators
`startBackgroundTask`, `applyForMoreTime`, `stopBackgroundTask` are the methods
of that name; its actions are the two notifications, the two expiration blocks
and the tick.

`DownLoadTool` adds the manager. `taskModels`, `downLoadTaskModels`, `status`,
`data`, `session` and `downLoadTask` are the properties of these names, of the
manager and of the task objects. `plist` and `files` are the disk; of a task's
path `files` keeps whether a file lies there and, as history, whether a download
came to its end without leaving one (`"missed"`). `xfer`, `net`,
`written` and `cancels` hold, per `NSURLSessionDownloadTask`, what lies outside
the tool: how far its start block is, its session state, and the callbacks that
wait on the main queue.

| Action | Code |
|---|---|
| `addDownLoadTask`, `startDownLoad`, `cancelDownLoad`, `suspendDownLoad`, `resumeDownLoad`, `deleteDownLoadTask`, `cancelAllTasks`, `suspendAllTasks` | the methods of these names, guard and early returns included, with the `changeDownLoadTask…` they end in |
| `CreateTransfer`, `ResumeTransfer` | the two statements of the block `startDownLoad…` puts on a global queue |
| `didWriteData`, `didFinishDownloading` + `MoveFile`, `CancelCompletes` | the callbacks, on the main queue |
| `NetProgress`, `NetEnds` | the network |
| `Crash`, `appTerminate` | the process dies and `initDownLoadManage` runs in the next one; the user ends it and `saveAllTasks` runs first |

Every handler of the main thread is one action, because nothing else on that
thread interrupts it. The exception is `didFinishDownloading`: it writes the
plist and then moves the file, and a process that dies in between leaves one
without the other, so `finishing` splits it. `MoveFile` moves the file or, with
`"disk"` in `Faults`, does not: `moveFilePath` returns `NO` when the directory
cannot be made (its parent is missing) or the file cannot be moved, and
`didFinishDownloading` goes on all the same. The start block is split because it
runs on another thread. `Caller` tells two programs apart: `"any"` calls in any
order; `"careful"` starts a task only when its last transfer is over and cancels
or suspends it only when no start block is still to run. Nothing in the tool asks
for that care, so a property that needs it says what a program must do to get it.

`TaskRegistry` is the abstract specification: tasks are registered or not, an
object has a status and perhaps resume data, a restart keeps the registered ones
exactly. `Registry` in `DownLoadTool` is the refinement mapping (`registered` is
`taskModels`, `fields` the status and data of the objects) and
`ImplementsRegistry` the claim. The plist does not occur in it: that a crash
between any two steps loses nothing is exactly what has to be shown.

`Forgotten(t)` says that nothing of a task is left: it is not registered, and no
block, transfer or completion of it is under way. `ForgottenStays` is what holds
of a deletion where `DeletedStaysDeleted` does not (section 8): a forgotten task
comes back by an `add` or a `start` of the program only.

### DownLoadController and DownLoadTask

`DownLoadController` is the loop of `viewDidAppear` on the manager: `todo` is
what `monitorDataChange` still has to start, `pausing` the task between its start
and its suspend. While the loop is under way no other handler of the main thread
runs; blocks and network do. Its proofs instantiate the whole manager with the
screen as its caller (`Manager` in `DownLoadController_proofs`).

`DownLoadTask` is the record of one download with its setters, `dictionaryFromTaskModel` and `taskModelFormDictionary`, key by key
and in the order of the code, misspelt key included; `floatValue` rounds to the
nearest float, ties to even: the floats below `Precision` are the integers, and
above it they are multiples of the distance `Ulp(x)` in `Ulps`, which doubles
from one binade to the next (2^24 and 1, 2, 4, ... in the code).

### ClientSocket

The variables `isConnect`, `isMakeDisConnect`, `clinetIp` are the properties of
the tool; `timers` counts the heartbeat timers, which nobody invalidates;
`socket`, `reads` and `first` are the flags and queues of the `GCDAsyncSocket`
(its source is in the repository, and its operations are mapped to it);
`callbacks` counts, per delegate method, the blocks that wait on the concurrent
queue. A block that waits may run at any time, in any order. `connectActionIp` is
two actions, since it keeps the result of `connectToHost` and assigns it later.
An address is one of `Hosts`, `nil` (`NoHost`) or the empty string (`EmptyHost`);
an attempt refuses both of the latter, but the heartbeat reads `clinetIp` through its
getter, which replaces `nil` by the default address for good (`Address`), so that
only the empty string keeps a timer from connecting.
`asked` and `begunBy` are history variables.

### Purchase and PaymentDelivery

`goodsRequestFinished` and `receipt` are the properties of these names, `queue`
is the payment queue as StoreKit keeps it across processes, `receipts` the
directory of plists, `sent` the receipts whose parameters
`sendAppStoreRequestBuyPlist:` has made in this process. `requests` counts the
product requests under way; `startBlocks` and `stopBlocks` hold the blocks that
wait, the former at the statement they have reached. `offered` and `started` are
history variables of the gate.

| Action | Code |
|---|---|
| `startManager`, `startOpensGate`, `startObserves`, `startChecks` | the call, and the three statements of its block |
| `stopManager`, `stopUnobserves` | the call and its block |
| `requestProductsWithId`, `didReceiveResponse`, `didFailWithError`, `payProduct` | the methods of these names |
| `updatedPurchased`, `saveReceipt`, `updatedChecks`, `completeTransaction` | the four calls for a purchased transaction, apart, since blocks run and the process may die between them |
| `dropTransaction` | `failedTransaction:` and `restoreTransaction:` |
| `Settles` | StoreKit |
| `Crash` | the process dies; the next one starts the tool when it has launched |

`handling` is where the main thread is in `updatedTransactions`; while it is busy
no other handler runs. A receipt of the application stands for every purchase
that is not finished, so a receipt is the set of those transactions.
`PaymentDelivery` knows only what is paid, kept and closed; the mapping takes
them from `queue` and `receipts`, and the process does not occur in it.

### KeybordSM4

A state machine of one encryption and the decryption of its result: `Subkey` and
`Round` are the iterations of the loops of `sm4_setkey` and `sm4_one_round`,
`Begin` and `End` the head and the tail of the loops over blocks in
`hgbkeybordsm4_crypt_ecb` and `_cbc`, `NextIv` what the two `memcpy` of `_cbc` leave
in `iv`, `setkeyEnds` the swaps of `setkey_dec`,
`encryptionReturns` and `decryptionReturns` the ends of the two methods of
`HGBKeybordTTAlgorithmSM4`. `k`, `sk`, `ulbuf`, `iv`, `input` and `output` are the
variables of these names. A word is the set of its bits that are 1, so that `^` is
the symmetric difference and the width of a `long` is a constant. The padding and
its removal are the loops over C strings, written as what they leave in the
buffer. `plain`, `cipher`, `schedule` and `trace` are history variables; the
second call recomputes everything from the key and its own buffers.

A round trip alone says little of a mode: one that forgot to replace the iv, on
both sides, would give every text back. `CipherIsOneToOne` looks at the cipher
text: two of its blocks are equal exactly if what was enciphered is, which in CBC
mode is the block of the text combined with the cipher text before it.

`KeybordWidth` is about the width: the code was written for a `long` of 32 bits,
and with 64 `SHL` lets bits pile up above the 32nd. `Narrow` is `KeybordSM4` a
second time with `LongBits` 32 and the low bits of every word, and `LongsAreWords`
says that the long program implements it.

### Conventions

A definition placed directly before another one with the same parameters is a
mutant of it, a plausible bug that a property of the runs must catch; the list is
under `mutants` in `PROJECT.json`. MC modules hold symmetry sets and the values of
function-valued constants; `MCKeybordSM4` has the tables of the code, and the
property that compares the cipher with the example of its standard.

## 4. Runs

| Run | Specification and instance | Properties | What it shows |
|---|---|---|---|
| `DownLoad_any` | any caller, one task, two transfers, two cancels at once, moves that fail, crashes and terminations | `TypeOK`, `PlistMirrorsMemory`, `InProgressIsLive`, `CompletedHasFile`, `EndIsRecorded`, `ForgottenStays`, `ImplementsRegistry` | whatever the order of calls: the plist is the registry, a mark has something that clears it, the end of the last transfer is recorded, a deleted task that nothing holds stays deleted, a completed task lacks its file only if its move failed or was forestalled by a death of the process, a restart loses nothing |
| `DownLoad_careful` | careful caller, two tasks, two transfers, failing transfers, background part on, two timers | `HeldIsKnown`, `ActiveHoldsNone`, `TransferIsMarked`, `BackgroundCoversTransfers`, `SuspendStopsTransfer` | no background task is lost or left over, one is not ended under a transfer, a suspend stops the transfer |
| `DownLoad_live` | any caller, one task, two transfers, crashes, fair queues | `StartIsServed`, `FinishIsRecorded`, `CancelIsServed` | starts reach the network, ends are recorded, cancels take the task out of the tasks in progress |
| `Controller_appear` | the screen on the manager, two tasks, two transfers, crashes | `CtlTypeOK`, `AppearRestartsCancelled`, `ImplementsRegistry` | after its loop every cancelled task has a transfer on its way, and a death within the loop loses nothing either |
| `Task_codec` | two ids, two addresses, sizes to 20 bytes, floats exact up to 8 | `TaskTypeOK`, `DownloadedWithinTotal`, `IdentitySurvives`, `SizesSurvive` | what a restart preserves of a task, and how precisely |
| `ClientSocket_link` | two addresses, `nil` and the empty one, three waiting blocks, two timers, fair queues and timers | `TypeOK`, `ReadIsArmed`, `ConnectionIsWatched`, `GreetingLeads`, `SettledDisconnectIsKept`, `LossIsRepaired` | a connection can receive and is watched, opens with its greeting when the program began it, stays down when asked in a settled state, comes back otherwise, also after `nil` was given as address |
| `Purchase_crash` | two transactions, two requests under way, one waiting block of each kind, crashes anywhere, fair queues | `PurchaseTypeOK`, `ClosedGateHasKey`, `ImplementsDelivery`, `SettledIsConcluded`, `KeptIsSent` | no paid purchase is closed without a receipt on disk, the gate can always be opened, what StoreKit settled is concluded by the process that stays, a receipt left by a dead process is sent by the next |
| `KeybordSM4_text` | eight texts of 1 to 32 bytes in two modes, 64-bit longs, the tables of the code | `KeybordTypeOK`, `RoundsAreRetraced`, `BlocksSurvive`, `CipherIsOneToOne`, `TextSurvives`, `IsSM4`, `LongsAreWords` | the loops stay in their arrays, the decryption retraces the rounds, gives back blocks and text, equal blocks of a text do not show in CBC mode, the result is that of the standard, and the bits above the 32nd reach nothing |
| `DownLoad_deleted` | as `DownLoad_any`, no faults | `DeletedStaysDeleted`, **violated** | cancel, delete, completion: the task is back |
| `DownLoad_failure` | failing transfers, fair queues | `FailureIsReported`, **violated** | a failed transfer is never reported |
| `Controller_paused` | the screen, one task | `PausedStays`, **violated** | the suspend overtakes the start block, the download runs |
| `ClientSocket_asked` | the socket, two waiting blocks | `ReconnectsOnlyWhenAsked`, **violated** | a deliberate disconnection is undone by the next heartbeat |

Deadlock is not checked in the download runs: with every transfer used up and no
call left that changes anything, the system stops; nor in `KeybordSM4_text`,
which ends when the text is decrypted. The socket and the purchase tool never
stop, so there it is checked.

## 5. Bounds and why they are enough

- `Xfers` (2): two transfers are what it takes for a second start to drop the
  first one from `downLoadTask`, for two blocks to resume each other's transfer,
  for a second download to follow a cancelled one, and for two tasks to download
  at once. A third repeats one of these.
- `Tasks` (1 or 2): tasks touch each other only through `downLoadTaskModels`
  becoming empty and through `cancelAllTasks` and `suspendAllTasks`; two show
  both. Liveness uses one, where one task's obligations are the whole property.
- `MaxCancels` (1, and 2 in `DownLoad_any`): with two, a second completion runs
  after a first has already cleared the mark.
- `BgIds`, `Timers` (2): one identifier held and one new; one timer leaked and
  one current. An expiration that finds no timer left is not taken.
- `MaxSize` 20, `Precision` 8, `Ulps` 1, 2 and 4: sizes fall into two binades
  above the exact ones, with ties in each. `MaxSize` is a float itself, so that
  rounding does not leave the bound (`MaxSizeAssumption`).
- `MaxCallbacks` (3): one block of each delegate method waits at once, or several
  of a lost connection beside one of the next. `MaxTimers` (2): the timers differ
  only in their number; the second stands for every further one. `Hosts` (2): the
  default address and another; an address matters only in being one.

- `Transactions` (2): one receipt stands for both when they are paid together,
  and one is saved while the other waits. `MaxRequests` (2): a second request
  gets out after a start has opened the gate under the first. `MaxStarts`,
  `MaxStops` (1): a start and a stop race; the block launched with the process
  races a second start at the statements after it.
- `Texts`: 1, 15, 16, 17 and 32 bytes, and a NUL at the beginning, in the middle
  and at the end. The text of 32 bytes repeats its first block, so that two blocks
  that are equal meet in either mode. One key and one iv: the properties do not depend on them,
  which is what the theorems say; `IsSM4` is a fact about one example.

The theorems of section 7 hold for all values of these constants.

## 6. Fairness

`FairSpec` of the manager: the blocks put on a global queue run, the callbacks
put on the main queue run, a handler that began goes on. That is what GCD and the
run loop provide. The user and the network owe nothing, so that no property holds
because somebody finally presses a button; each states what happens to a start,
a cancel or an end *once it has occurred*, unless the process dies.

`FairSpec` of the socket: a call returns, a waiting block runs (weak fairness),
a timer fires between two calls however often the program calls (strong fairness on
`heartConnect`: the main run loop fires what is due on every pass, and a call to the
tool is over before the next pass), and an attempt that is repeated for ever succeeds
at some point (strong fairness on `ConnectSucceeds`: the server is reachable now and
then).
Nothing keeps a connection up. `LossIsRepaired` needs the last two: a program that
calls `connectActionIp` with `nil` over and over leaves the attempts to the timer,
and with a server that always refuses the client tries for ever.

`FairSpec` of the purchase tool: a block that waits runs, a handler that began
goes on (weak fairness), and StoreKit tells an observer of a transaction that is
settled. The last is strong fairness, because the main thread is busy with other
handlers in between: the callbacks of the main queue run in order, so one of them
cannot be passed over for ever. `SettledIsConcluded` starts from a tool that stays
an observer, `KeptIsSent` from a last crash: with a process that dies again and
again before its first statement nothing can be promised.

## 7. Proofs

The modules `…_proofs` hold for every set of tasks, transfers, identifiers, timers,
addresses and transactions, every bound, and, for the cipher, every substitution,
parameter, text, key and iv and every width of a long from 32 bits up. The assumptions are those of the modules: `Nil`,
`Invalid`, `NoTimer`, `NoHost`, `EmptyHost` differ from the values they stand beside,
`DefaultHost` is an address, bounds are natural numbers, `Faults` and `Caller` are among the values named. For the
coding of a task they say what floats are: `Precision` is even, `Ulps` has with
every distance but 1 its half and reaches to `MaxSize`, and `MaxSize` is a float.

| Theorem | Says | Extra assumption |
|---|---|---|
| `TypeCorrect`, `BackgroundCorrect`, `ActiveCorrect` | types; `HeldIsKnown`; `ActiveHoldsNone` | none |
| `EndCorrect` | `EndIsRecorded` | no failing transfer (as in the run; a failure is not reported, section 8) |
| `PlistCorrect` | `PlistMirrorsMemory` | none |
| `ForgottenCorrect` | `ForgottenStays` | none |
| `DownLoadRegistry_proofs`: `RegistryImplemented` | the manager implements `TaskRegistry` | none |
| `ProgressCorrect` | `InProgressIsLive` | no failing transfer (it is part of the property) |
| `CompletedCorrect` | `CompletedHasFile`, through crashes and failing moves | none |
| `MarkCorrect`, `SuspendCorrect`, `BackgroundCovers` | `TransferIsMarked`, `SuspendStopsTransfer`, `BackgroundCoversTransfers` | careful caller |
| `DownLoadController_proofs`: `CtlTypeCorrect`, `AppearCorrect` | `CtlTypeOK`, `AppearRestartsCancelled` | none; no failing transfer |
| `DownLoadController_proofs`: `ScreenIsCaller` | a behavior of the screen is one of the manager under some caller | none |
| `DownLoadController_proofs`: `CtlPlistCorrect`, `CtlProgressCorrect`, `CtlEndCorrect`, `CtlRegistryImplemented` | `PlistMirrorsMemory`, `InProgressIsLive`, `EndIsRecorded`, `ImplementsRegistry`, under the screen | as for the manager |
| `DownLoadController_proofs`: `ScreenRevivesNothing` | under the screen a forgotten task comes back by the application's own calls only, never by the loop | none |
| `DownLoadTask_proofs`: `TaskTypeCorrect`, `WithinTotalCorrect`, `IdentityCorrect`, `SizesCorrect` | `TaskTypeOK`, `DownloadedWithinTotal`, `IdentitySurvives`, `SizesSurvive` | none |
| `DownLoadTask_proofs`: `RoundTrip` | reading the dictionary of a model gives the model but for the progress and the precision of the sizes | the model has a url, hence a path and a name |
| `ClientSocket_proofs`: `TypeCorrect`, `ArmedCorrect`, `WatchedCorrect`, `SettledCorrect`, `GreetingCorrect` | `TypeOK`, `ReadIsArmed`, `ConnectionIsWatched`, `SettledDisconnectIsKept`, `GreetingLeads` | none |
| `Purchase_proofs`: `TypeCorrect`, `GateCorrect`, `DeliveryImplemented` | `PurchaseTypeOK`, `ClosedGateHasKey`, `ImplementsDelivery` | none |
| `Purchase_proofs`: `DeliveredCorrect` | what was paid and is off the queue has its receipt on disk; a receipt on disk stands for what was paid | none |
| `KeybordSM4_proofs`: `TypeCorrect`, `RoundsCorrect`, `BlocksCorrect`, `TextCorrect` | `KeybordTypeOK`, `RoundsAreRetraced`, `BlocksSurvive`, `TextSurvives` | none |
| `KeybordSM4_proofs`: `OneToOneCorrect` | `CipherIsOneToOne` | none |
| `KeybordSM4_proofs`: `WidthImplemented` | `LongsAreWords`: longs of any width from 32 bits up implement words of 32 | none |

The inductive invariants, and why the properties alone are not inductive:

- `TypeInv` = types + `OwnerOK` + the background invariant. `OwnerOK` says that a
  transfer's block and callbacks belong to a task and that `downLoadTask` is a
  transfer of that task that has been created: without it a callback could change
  the fields of `Nil`, and a resume could reach a foreign transfer.
- `PlistMirrorsMemory` is inductive over `TypeInv`: `ChangeMirrors` is the lemma
  for every handler that ends in `changeDownLoadTask`, and a restart reads back
  what was written because no entry equals `Nil` (`NilAssumption`).
- `ProgressInv` adds to the marks that a created transfer has a session state and
  that none failed: a mark is cleared by the step that ends its last live thing.
- `CompletedInv` speaks of *every* object, deleted ones too, because the
  completion of a cancel may register a deleted task again, and of the task whose
  file is about to be moved. A launch keeps it because the status it reads is the one
  the object had (`PlistMirrorsMemory`): no crash invents a completion
  (`LaunchCompletes`).
- `CarefulInv` says that a task has at most one live transfer, that the tool can
  reach it, and that a cancelled transfer does not go on running; only then does
  clearing a mark never hide a second transfer.
- `SettledInv` adds that no block of a disconnection waits, for only such a block
  clears `isMakeDisConnect`; `GreetingInv` adds that an idle socket holds no packet
  and that a connection begun by a call has the call still running until its
  greeting is queued.

- `LoopInv` says that, while the screen's loop runs, what it has still to start is
  registered and every other cancelled task has a transfer on its way. The lemmas
  `StartAddsLive`, `SuspendKeepsLive` and `BesideKeepsLive` say that nothing that
  can run beside the loop takes one away; a failing transfer would. They stand in
  `DownLoadTool_proofs`, where `EndCorrect` uses them too: no call of the API and no
  block ever ends a live transfer (a cancel only asks), so the step that ends a
  task's last one is a callback of that task (`CallbackRecordsEnd`), which writes
  the status in the same handler, in whichever order the two callbacks come.
- `TaskInv` says that the dictionary is that of some model which differs from the
  task in memory at most by its url, the progress and a rounding of its sizes
  (`SavedAs`): a second restart reads the same dictionary, and `setUrl` may have come
  between. `RoundTrip` is the lemma for a restart, key by key. `DownloadedWithinTotal`
  survives because rounding is monotone (`FloatMonotone`): within a binade it is
  rounding to multiples, and the ends of a binade are floats. `FloatNear` bounds
  the error by half the distance of two floats, which is at most x / `Precision`.
- `HandlerInv` follows `updatedTransactions` through its four calls: the transaction
  it works for is purchased until it is finished, `receipt` stands for it before the
  save, and a receipt on disk does after it. With it every step maps to one of
  `PaymentDelivery`, a crash to a stutter.
- The invariant of the cipher ties the second call to the first: the subkeys done
  so far are those of the first call's key schedule (in reverse once `setkey_dec`
  has swapped them), `trace` holds a run of the rounds for every block that was
  encrypted, the cipher text is made of their outcomes, and in CBC mode each block
  went in combined with the one before. A round then undoes the opposite one on the
  low 32 bits: the substitution occurs twice and cancels, so that nothing has to be
  known of it, and a bit above the 32nd never reaches a lower one, since `^` works
  bit by bit and `sm4Lt` reads only the four low bytes of its argument. `KeybordWords_proofs`
  has the lemmas about words, blocks and C strings: the last byte before the first
  NUL of the padded text is the length of the padding, whether or not the text
  contains a NUL.
- `NarrowStep` needs of that invariant only the ranges of the indices. `ROTL` of a
  word without high bits has, on the low ones, the rotation of 32 bits
  (`NarrowRotl`); the substitution never leaves high bits; so `sm4Lt` and
  `sm4CalciRK` commute with `Low`, and with them every action. A rotation of a word
  that was shifted and combined before would break it, which is the mutant of
  `LongsAreWords`: the round trip still works and no test that decrypts what it
  encrypted would notice.

- `ForgottenCorrect` needs no more than the types and `PlistMirrorsMemory`: a callback
  or a completion is of a task that has something under way, so it is not of a
  forgotten one (one lemma per handler, `CancelForgets` to `TransferForgets`), and a
  launch reads a plist that does not name the task (`LaunchForgets`).
- What is proved of the manager is not proved again for the screen. `ManagerStep` maps
  every step of the screen to one of the manager under the caller `"any"`: the start
  and the suspend of `monitorDataChange` are calls of its API, the rest of the loop
  stutters. The theorems of the manager, instantiated in `Manager`, then hold of the
  screen (`CtlPlistCorrect`, `CtlProgressCorrect`, `CtlEndCorrect`). Only what is said
  of single steps needs an argument of its own: `ScreenRevivesNothing`, because the
  loop starts what `LoopInv` says is registered, and `CtlRegistryImplemented`, where
  `StartRegisters` and `SuspendRegisters` are the two calls of the loop.
- `OneToOneCorrect` takes two runs of the rounds under the same subkeys. If they begin
  with the same words, so do all later ones (`SameWords`); if they end with the same
  block, their last words have the same low bits, and undoing the rounds one by one
  gives the same low bits down to the first words (`SameLows`, by `RoundUndone`), which
  are the block that went in (`SameStart`).
- `DeliveredCorrect` is an invariant of `PaymentDelivery`, proved there in three lines
  of steps and carried over by `DeliveryImplemented`.

`RegistryImplemented` maps every action to a step of `TaskRegistry` or to a
stutter, and uses `PlistMirrorsMemory` for `Crash` and `appTerminate` only.

Model-checked only: everything under fairness (`StartIsServed`,
`FinishIsRecorded`, `CancelIsServed`, `LossIsRepaired`, `SettledIsConcluded`,
`KeptIsSent`), which is out of the prover's reach, and `IsSM4`, a computation on
one example.

## 8. Where the code and its documents part

Four runs end in a violation and `PROJECT.json` quotes the line each contradicts:
a deleted task returns (`DownLoad_deleted`; `ForgottenStays` says from when on it
does not), `下载失败` is declared and never
assigned (`DownLoad_failure`), the suspend of the screen is lost
(`Controller_paused`), a deliberate disconnection is undone (`ClientSocket_asked`).

Further things TLC shows of the code, on which no document takes a position, so
that no run claims them:

- a completed task has no file when the process died between the write of the plist
  and the move (`HGBDownLoadTool.m:263`), or when the move failed, whose result
  nobody reads (265): `CompletedHasFile` without its `"missed"` is refuted either
  way, and with it these two ways are the only ones;
- the timer that asks for more time is never invalidated once its expiration
  handler has reset `backTask`;
- `suspendAllTasks` turns a completed task into a suspended one;
- a task saved as 下载中 has no transfer after a restart, and the screen restarts
  cancelled tasks only;
- the progress is written under `progress` and read under `progross`, so it is 0
  after every launch, and negative while the server does not tell the length;
- `isConnect` may stay `YES` after a failed attempt and becomes `NO` when a live
  socket is asked to connect again;
- a user who is shown products and pays for none leaves the gate of the purchase
  tool closed: only a transaction or a new start opens it (`HGBPurchaseTool.m:163`);
- what follows the first NUL of a text is lost when it is encrypted;
- a connection that a heartbeat begins has no greeting, and every connection adds
  one more heartbeat timer.

## 9. What is abstracted, what is not modelled

- One task object per id; a program that makes a second object with the same id
  is outside the model. `task.queue` is `nil`, so callbacks are on the main queue
  (`DownLoadStore` of the plan is about the other case).
- A write of the plist succeeds; `taskDescription`, groups, names, paths and
  result blocks are left to `DownLoadTask` or left out. `session` is only whether
  there is one. `downLoadTask` is read by the start block in one step, as the old
  or the new value.
- The order of the main queue is kept where the tool depends on it: data before
  the end of the same transfer, the end before a cancel that came too late.
- Of what is written to a socket only the first packet of a connection is kept,
  of what is read only that something was. The call-back for a half-closed stream
  is left out: the socket is made with the default configuration, which closes it
  instead. A write has no timeout (`withTimeout:-1`).
- Of the purchase tool: a receipt can be read and its plist written (with a write
  that fails, 289, the purchase would be closed without one); what sends a receipt
  and removes it again is compiled only under `HHHHH`, which nothing defines, so the
  directory only grows; product requests answer once, although the tool does not
  retain them (122). Two plists with the same receipt are one element of `receipts`.
- Of the cipher: Base64 gives back the bytes it was given; key and iv have 16 bytes,
  as the methods check in characters; a text has at least one byte, as they check
  too; the cipher text is one the encryption made, under the same key. A text with
  multi-byte characters is its UTF-8 bytes.
- The table cell of the download screen never calls its delegate, since its
  buttons get no target; the handlers behind it are unreachable.
- Nearly all the lines of the repository are vendored libraries (sqlcipher, openssl,
  minizip, the compression libraries, AFNetworking, peertalk, vendors' SDKs), which
  have their own tests and owners; the models cover the repository's own Objective-C
  and the C files of the keyboard.
- The components marked `not_modelled` in `PROJECT.json`, each with the reason.

## 10. Running it

    tlc -workers 2 -config DownLoad_any.cfg MCDownLoadTool
    tlc -workers 2 -config ClientSocket_link.cfg ClientSocket
    tlc -workers 2 -config KeybordSM4_text.cfg MCKeybordSM4
    tlapm DownLoadRegistry_proofs.tla

Each cfg is named after its run; the module of a run is in `PROJECT.json`. The
longest run, `DownLoad_live`, takes about a minute and a half, `Controller_appear` a little less.
