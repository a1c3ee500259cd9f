# A model of exynos9820-common in TLA+

This directory models the parts of the device tree `exynos9820-common` that are programs or the
contract of one: the S Pen HAL service, the app SPenActions that keeps the S Pen connected and turns
what it sends into key events, the commands of an OTA package that write the bootloader's
partitions, the USB gadget as init drives it, the camera provider process, and the contract between
camera framework and camera HAL that `include/hardware/camera3.h` writes down. TLC checks the models
on small instances, liveness included; TLAPS proofs show their safety properties for every value of
the constants.

The rest of the tree is not a program: properties, manifests, overlays, sepolicy, audio, power and
thermal tables, and most init scripts. Section 8 lists them with the reasons why they are left out.

## 1. The system

| Component | State | Operations | Who calls it |
|---|---|---|---|
| S Pen HAL (`aidl/spen`) | address file under `/mnt/vendor/efs`, factory file under `/efs`, charge node of the digitizer | `getMACAddress`, `setMACAddress`, `isCharging`, `setCharging` | SPenActions, over binder, from its main thread and from GATT callbacks |
| Connection management (`SPenConnectionManager`, `BluetoothReceiver`, `SPenActionsService`, `BluetoothUtils`, settings) | per manager `mSpen`, `mGatt`, `mCurBleSpenAddr`; the preference; scans | `connect`, `disconnect`, `onConnected`, `resetSPenMAC`, `onReceive`, `onStartCommand` | broadcasts, the settings screen, scan results, a timer, callbacks of the stack |
| Events (`SPenGattCallback`, `MotionEvent`, `ButtonAction`, `SPenMode`) | per callback object `mButtonDownTime`, `mButtonHadGesture`; the mode preference | `onServicesDiscovered`, `onDescriptorWrite`, `onCharacteristicChanged`, `sendEvent` | the Bluetooth stack; the result goes to the input manager |
| Firmware update (`releasetools`, `recovery`) | the bota partitions (header and image records), the simple partitions, the version of the bootloader | `mark_header_bt`, `write_data_bt`, `verify_no_downgrade`, `package_extract_file` | the installer script, run by recovery; its result is read by the bootloader |
| USB gadget (`init.exynos9820.usb.rc`) | `sys.usb.config`, `sys.usb.ffs.ready`, `sys.usb.state`; init's queue; functions, ids, class and power of the gadget; adbd, `ss_conn_daemon2_service` | one trigger per configuration, with and without adb | init, when the framework or adbd changes a property |
| Camera session (`camera3.h`, operations and callbacks) | streams, captures in flight, buffers lent, the settings that NULL stands for | `configure_streams`, `process_capture_request`, `flush`, `close`; `notify`, `process_capture_result` | the camera framework; the HAL calls back from its own threads |
| 3A (`camera3.h`, section S4) | state of auto-focus, exposure and white balance, triggers and locks | the settings of each request; the HAL's scans | requests of the application, through the framework |
| Buffer management (`camera3.h`, version 3.6) | buffers with the service, with the HAL and under way | `request_stream_buffers`, `return_stream_buffers`, `signal_stream_flush`, `configure_streams` | both sides call each other |
| Camera provider (`hidl/camera/provider`) | the camera ids present and their number, the module, whether construction failed | the constructor, `main` | init starts the process; hwservicemanager gets the service |
| Shims (`utils32`, `sensorndkbridge`) | one reference of a thread object; a mutex around the creation and deletion of loopers | `Thread::run`; `ALooper_forCamera`, `ALooper_release_forCamera`, `ALooper_pollOnce_camera` | camera blobs, in the provider process |

How they interact:

* SPenActions reads the pen's address from the HAL in `connect()`, stores it in `onConnected()` and
  in `onScanResult`, and switches the charging of the pen. The HAL serves calls one at a time; a
  call ends with an exception when the process dies.
* Connecting produces a GATT client with a new `SPenGattCallback`. Its connection callback calls
  back into the manager (`onConnected`, `connect`), on a binder thread and without a lock. Its other
  callbacks are the events component.
* The framework switches USB by writing `sys.usb.config`, first `none` and then the new value, and
  waits for `sys.usb.state`. With adb, the trigger for the new value only starts adbd; adbd sets
  `sys.usb.ffs.ready`, and a second trigger enables the gadget.
* The camera framework calls the HAL through `camera3_device_ops` and is called back through
  `camera3_callback_ops`; both are tables of functions, and both sides have several threads. The HAL
  is a blob that runs in the provider process, where the shims serve it.
* Firmware update, S Pen, USB and camera share no state with each other.

What is hard about it:

* *Threads.* `connect()` runs on the main thread and in callbacks, and neither locks anything;
  `mGatt`, `mSpen` and `mCurBleSpenAddr` are plain fields. `flush()` may run beside
  `process_capture_request()`, and every callback beside every call.
* *Order.* A switch of the adapter, real or faked, is two broadcasts, delivered later and between
  which anything may happen. init runs the commands of a trigger after the properties may have
  changed again. Captures return metadata, buffers and errors in any order, and an answer to
  `request_stream_buffers` may be overtaken by a reconfiguration.
* *Failure.* The HAL process may die between two calls, or between opening and writing its file, and
  its accesses to files may fail without its noticing, as may the updater's to partitions; the
  adapter may go off under any step; recovery may stop, or lose power, between two commands or
  within one; adbd may die while the gadget uses it; a capture may fail altogether, in part, or with
  its device.
* *Decoding and arithmetic.* Motions are signed 16-bit numbers in two bytes; the records of a bota
  partition follow each other at computed offsets.

What makes each correct: the HAL behaves as one atomic store and does not answer "no address" while
one is known; the app has a client for the pen whenever it should, closes what it opens, survives,
and does not lose the address; a press is a click or a gesture and never both, and no key stays
down; a bota with a magic can be used, a script that reports success has written everything, and no
sequence of updates goes back to an older bootloader; when init is done the gadget is what was asked
for last, and what the framework was told is so; framework and camera HAL agree about every frame,
buffer and setting, and flush and reconfiguration end; a lock of focus or exposure is there exactly
while it is asked for; every camera that is fitted is offered, and a thread that runs has its
object.

## 2. The modules

| Module | Models |
|---|---|
| `ISPen` | requests and answers of the AIDL interface |
| `SPenStore` | what the HAL promises: every call takes effect at one instant; faults are explicit |
| `SPenHal` | what the HAL does: file streams, one binder thread, init, the page cache |
| `SPenConnection` | the connection management of SPenActions |
| `SPenGatt` | the events of SPenActions |
| `FirmwareUpdate` | the installer script, the updater functions and the partitions |
| `UsbGadget` | the triggers of the USB script, init, adbd, and the framework that switches |
| `Camera3Device` | the session between camera framework and HAL |
| `Camera3A` | the state machines of focus, exposure and white balance |
| `Camera3Buffers` | the buffer management of version 3.6 |
| `SamsungCameraProvider` | the provider's constructor and `main()` |
| `CameraProcess` | the provider's process: `SamsungCameraProvider` with a thread of the `utils32` shim |
| `SPenHal_proofs`, `SPenConnection_proofs`, `SPenGatt_proofs`, `FirmwareUpdate_proofs`, `UsbGadget_proofs`, `Camera3Device_proofs`, `Camera3Buffers_proofs` | theorems and proofs about the module they are named after |
| `Camera_proofs` | theorems and proofs about the two smallest models of the camera, `Camera3A` and `CameraProcess`, which share no name |
| `MC...` | values for TLC |

`SPenHal` is shown to implement `SPenStore` (`ImplementsStore`), and this is what allows
`SPenConnection` to make a call of the HAL one step: its `HalDies` is `SPenStore`'s `Fault`. The
store's other faults, calls of which an access to a file failed unnoticed (`Unnoticed`) and power
cuts, are left out of `SPenConnection`, where a HAL that lives does what it is asked.
`SPenConnection` and `SPenGatt` split `SPenGattCallback` at the connection: what happens up to
`STATE_CONNECTED` and after `STATE_DISCONNECTED` is in the first, everything between is in the
second, where `Connect` and `Disconnect` stand for any behaviour of the first. The three `Camera3`
modules split the header at its sections, which share only the configured streams: `Camera3Device`
has buffers come with the request, as before 3.6, and `Camera3Buffers` leaves out all of a capture
but its buffers.

Each module has a type invariant `TypeOK` (`ProcessTypeOK` in `CameraProcess`), and it is proved of
each. It is not among the properties of the runs, which are kept for what could go wrong in the
code.

Definitions that begin with a comment "Mutant:" are deliberately wrong variants of the definition
below them. No specification uses them; put in the place of the right one, each makes the property
it is listed with in `PROJECT.json` fail.

### SPenHal

A call goes from `idle` to `queued` (`Invoke`), is taken by the thread (`Dispatch`), makes its steps
and is `done`. The steps are the accesses to files in `SPen.cpp`: `std::ofstream` truncates the file
when it is opened (`Truncate`) and fills it when it is written (`Write`); `getMACAddress` first
probes the file (`Probe`) and then opens it or the other again (`Read`); `setCharging` writes the
node and reads it back (`Charge`, `Status`). Nobody looks at a stream but to see whether a value was
read, so each of these accesses has a counterpart that fails (`AccessFails`): a file that is there
and cannot be opened sends `getMACAddress` to the factory's (`ProbeFails`), one that cannot be read
makes it answer the default (`ReadFails`); a set whose file cannot be opened leaves the old address
(`OpenFails`), one whose write fails an empty file (`WriteFails`), and both answer like one that
worked; a charge node that cannot be written leaves the charger as it is (`ChargeFails`), and one
that cannot be read says that it is off (`StatusFails`). `mnt` is the file as the system sees it,
`disk` what a power cut leaves. `Crash` ends every call with `Dead`; init restarts the service
because its `.rc` file says neither `oneshot` nor `disabled`. Only the thread of `joinThreadPool`
serves, as the pool has size 0.

The refinement mapping lets a set take effect when it truncates, since the old address is gone from
there on, a `setCharging` when it writes the node, to be answered with what the node holds, and a
`getMACAddress` when it reads the file, or at its probe if that sends it on to the factory's, which
nobody writes. The store has a fault for what the failed accesses look like to a caller.

### SPenConnection

Threads are the main thread and one binder thread per client. `frame[t]` is what a thread executes:
the call it makes next, for which manager, and the local variables. A step is what a thread does
between two accesses another thread can notice, so the check of `mGatt` (`Check`), `connectGatt`
(`ConnectGatt`) and the assignment (`Assign`) are three steps, and so are the reads of `mGatt` in
`disconnect()` (`GattDisconnect`, `GattClose`). The main thread takes broadcasts, scan results,
timers and user actions only when it is idle.

Read from the code and from how it uses the framework:

* An uncaught exception on the main thread ends the process (`ProcessDies`); in a callback, where
  the binder layer catches it, only the callback.
* `getConnectionState` is answered for the adapter, not for the client, so `linked` is a set of
  pens. With `LinkLingers` a link outlives its last client for a while, as links of the stack do,
  which is asynchronous; without it the link is gone at once.
* A scan posts its results to the main thread, where the one that is delivered first stops it; what
  was posted before that is delivered too. The delayed `stopScan` is posted whether or not the stack
  accepted the scan.
* `mSpen.disconnect()` disconnects profiles, of which the pen has none, and is left out, like the
  log.
* A binder of a HAL that died stays dead. Who holds one is in `stale`: managers get theirs once,
  `resetSPenMAC` for every use.
* The settings screen stores the preference after it has sent the two broadcasts, but before they
  are delivered, as both happen on the main thread.

`MaxUser`, `MaxDrops` and `MaxHalFaults` bound the user's actions, lost links and deaths of the HAL
each by itself, and `MaxEvents` all of them together (`Room`); `MaxFinds` bounds scan results.

### SPenGatt

A client with its callback object and the queue of callbacks not yet run. The chain of descriptor
writes goes from `onServicesDiscovered` through `onDescriptorWrite`, one characteristic after the
other. The stack is busy from a write to its callback and refuses another write meanwhile; `refused`
records that. `Notify` puts what the pen sends in the queue of every client that has registered.
`OnDown`, `OnUp` and `OnMove` are the branches of `onCharacteristicChanged`; the two key events of a
branch are injected one by one (`sendEvent`), while the mode may change. Motions are numbers, which
the pen sends as `Bytes` and `extractShortValue` decodes. The time of a press is the number of the
press. The pen moves only while its button is held, and notifications that a lost connection has not
delivered are lost.

### FirmwareUpdate

`OTA_InstallEnd(pkg)` is the list of commands that `releasetools.py` writes for a package; the loop
over the one bota partition (`SingleBotaLoop`) computes the offsets and the number of images. Which
of the two platforms it is, with one bota or with one per image, is chosen in `Init` (`single`) and
never changes. A run of the script carries out one command per step. A bota is a header (magic,
number of images) and a set of records with offset, size and the package they come from; writing a
record removes or tears what it overlaps (`Overwrite`). A reader starts behind the header and
follows the sizes (`Offsets`). Of the bootloader no more is assumed than that it takes its own image
from a bota only where the magic is there and such a reader finds that image whole, which a
signature tells (`Bootable`); it may always find something wrong and take nothing, and it cannot
tell which package a record is from (`Boot`).

Failures as the code treats them:

* `ErrorAbort`, which ends the script (`CommandFails`), and a script that is killed (`Kill`). Of a
  record that is cut short in this way the name and the size are taken to be written.
* Results that nobody looks at (`Ignore`): the header's two `write()`s, the `lseek()` and the two
  `write()`s of a record, and a `package_extract_file` without an assert. A failed `lseek()` puts
  the record over the header (`Misplaced`), whose number is then some bytes of a name (`Garbage`).
* Power cuts. Neither the header nor the records are synced, so the kernel may have written back any
  of it in any order (`WriteBack`): with each step a whole partition, or one more block of it, the
  magic, the number, a record or a torn one (`Flushed`). A power cut leaves what is on disk.

The version of a package is the package itself; `Long` says that both conditions on lengths in
`verify_no_downgrade` hold for it. `Models` are the models a package lists and has a version for; a
package without any has no commands for the firmware and no abort. The magic value is there or not:
`atoi` of a number beyond `INT_MAX` is undefined, and wraps to the right value in the 64-bit
updater. A comma is missing in lines 89 and 90 of `releasetools.py`: the names of `dqmdbg.bin` and
`param.bin` run into their destinations, and the script has no command for these images whatever
the package has (`Misnamed`, `Firmware`).

### UsbGadget

A value of `sys.usb.config` is a record of its functions without adb and of whether adb is one of
them. `Configs` are the values for which the script has triggers; `Functions`, `Product` and `Class`
are what they write. A change of a property goes into init's `queue`; `Dispatch` takes one, and
`Triggered` is the trigger that fires for it, which looks at the value the change had and at the
other property as it is by then. Its commands go into `commands` and run one by one (`Configure`,
`Enable`, `Ack`, `StartAdbd`, ...), with `${sys.usb.config}` read when the command runs. Commands
between two that read a property, or whose effect another process sees, are one step.

`Switch`, `SwitchOn` and `SwitchDone` are the framework, which gives up waiting after a while
(`hasty`). adbd opens its endpoints and sets the property (`AdbdServes`), and may die at any time
and be restarted (`AdbdDies`). A host sees the gadget only while it is enabled.

The comment in line 334 says that `diag,acm,adb` is used for the Hidden Menu, but no trigger names
this value: the framework then waits for ever. The model has it among the requests, and `SwitchEnds`
leaves it out. `diag` and `mass_storage` are functions the script links although it never makes
them; what the kernel does with such a link is not modelled.

### Camera3Device

The module has an account of the framework (`view`, `lent`, `session`) and one of the HAL (`hal`).
No action of one side reads a variable of the other, save for the arguments of a call and the
messages it takes part in; the properties say that the accounts agree. Every call of
`camera3_device_ops` that changes state is a step for the call and one for the return, so that
callbacks, `flush()` and errors come in between. A callback that carries several things is several
steps. A capture is `pending` until exposure or reprocessing begins, then `running`, and `dropped`
when it has failed altogether (ERROR_REQUEST). Metadata comes in `PartialCount` parts. A buffer that
could not be filled is returned with an error status and announced by ERROR_BUFFER, in either order.
`Fail` is the fatal error; the framework learns of it from a return value or from ERROR_DEVICE,
whichever comes first (`LearnsDead`), and may only close. `Malformed` is what
`process_capture_request` refuses with -EINVAL.

### Camera3A

`Request` applies a request as the header has it: the modes, whose change resets machines
(`Resets`), then the triggers, then the locks. `InForce` computes the modes in force from
`CONTROL_MODE`, the scene and the user's selection. The other actions are the steps the tables mark
as the HAL's own. Table and text differ at one place: in line 758 the table for AUTO and MACRO has
NOT_FOCUSED_LOCKED with the remark "If AF successful", a slip, as the rows around it show; the model
follows the meaning.

### Camera3Buffers

The three roles are the service (`out`, `phase`), the HAL (`held`, `told`, `known`) and the calls
under way (`call`, `returning`). `Quiesce` begins a reconfiguration; the service then sends
`signal_stream_flush`, waits for captures and for the buffers of the streams that go, and
configures. `request_stream_buffers` may be answered before, during or after that (`late`): an
answer that a `configure_streams` has overtaken carries no news about a configuration to come and is
not acted on. A stream that is unknown to the service is both an illegal argument and disconnected,
and the model allows both answers. A HAL that could not get a buffer ends the capture with
ERROR_REQUEST. The header advises to ask again for a stream without buffers after having returned at
least one; a HAL that takes this by the letter and holds none never asks again, so in the model the
HAL may ask again at any time.

### SamsungCameraProvider and CameraProcess

`Start` is the constructor of the base class, which counts cameras or fails; the loop over
`mExtraIDs` is `NoCamera`, `VersionFails`, `AddCamera`, one camera per step. `Register` is `main()`,
which registers the service without asking whether construction failed. Ids that were added before a
failed version check stay in the map while the module is gone (`SamsungCameraProvider.cpp:55`).
`CameraProcess` composes it with a thread that the blobs in it run: an object with the references of
its owner, of `android::Thread` and the one that `Thread::run` takes and never gives back. A death
of the process clears it.

## 3. What the runs show

| Run | Instance | States | Shows |
|---|---|---|---|
| `spen_hal` | 2 callers, 2 pens, 1 fault, fairness | 735 k | `KnownAddressIsServed`, `ImplementsStore`, `CallsEnd` |
| `connection` | 1 manager, 3 clients, 3 scans, 2 pens, lingering links; 2 of: user actions, one lost link, one death of the HAL; 2 starts, 1 scan result; fairness | 608 k | `ClientWhenQuiet`, `OrphanPerDrop`, `MacNeverLost`, `DiesOnlyAfterOff`, `Reconnects` |
| `connection_two` | 2 managers, 5 clients, 2 scans, 2 pens, a lost link, a death of the HAL and a scan result, lingering links | 381 k | `OrphanPerDrop` |
| `connection_off` | 1 manager, 1 pen, 1 user action, 1 lost link, links gone at once | | violation of `DisabledCloses`, section 5 |
| `connection_found` | 1 manager, 2 pens, 1 user action, links gone at once | | violation of `FoundPenConnects`, section 5 |
| `gatt` | 1 client, 3 connections, 2 presses, 1 motion per press out of 6 corner cases, 1 change of mode, fairness | 65 k | `NeverRefused`, `NoStuckKey`, `ClickIffStill`, `GestureFollowsMotion`, `ButtonsWork` |
| `firmware` | one bota and three, 4 packages, 3 installs; 2 of: a failure, an ignored failure, a power cut, which counts twice; 1 write-back | 1.73 M | `BotaSound`, `DoneMeansWritten`, `NoDowngrade` |
| `usb_gadget` | 4 requests: mtp with conn_gadget, rndis with adb, ncm, and one no trigger names; 1 wait that times out, 1 death of adbd, fairness | 64 k | `QuiescentIsRight`, `AckIsTrue`, `HostSeesOneDevice`, `SwitchEnds` |
| `camera3_device` | an output and a bidirectional stream of 2 buffers, 4 shapes of requests, 2 frames, fairness | 335 k | `CallbacksExpected`, `EveryFrameAnswered`, `BuffersConserved`, `SomethingComes`, `SettingsAgree`, `FlushQuiesces`, `FlushEnds` |
| `camera3_3a` | 3 scenes, 13 selections of modes, fairness | 2.8 k | `StatesFitModes`, `LockIsAsked`, `LockIsHeld`, `FocusStays`, `TriggerEndsLocked` |
| `camera3_buffers` | 2 streams of 2 and 1 buffers, one may be abandoned, 3 changes of the configuration, fairness | 46 k | `BooksAgree`, `RemovedOwnsNothing`, `QuiescingConfigures`, `GoneIsEmptied` |
| `camera_process` | 4 models, up to 2 cameras counted, 2 crashes, 3 runs of the thread | 5.9 k | `EveryCameraShown`, `RunKeepsThread` |

What the properties say is written above each of them in its module. Some need a word more:

* `ClientWhenQuiet` is the feature seen from outside: once the app and the stack have nothing left
  to do, a client is open for the very pen whose address the HAL remembers, provided the adapter is
  on and the preference set. Unless a link was lost, it is the client that the manager of it knows.
  Three things excuse it (`Wanted`): a death of the HAL, whose binder stays dead; a `connect()` that
  was content with a link whose client `disconnect()` had closed (`misled`); and an address that was
  stored, or made the one to connect to, over one that had replaced it (`overtaken`). The last two
  are the races of section 5, and count only until an address is read again.
* `OrphanPerDrop` bounds what goes wrong at the unlocked check in `connect()`. A client can be
  leaked, when a callback and the main thread open one each; the property says that each lost link
  leaks at most one.
* `MacNeverLost` excuses a death of the HAL, from which nothing in the code recovers.
* `Reconnects` says that as long as a client for the pen is wanted and not there, one comes, with
  the excuses of `Wanted` and no others: also if links linger, and whatever users and pens do
  meanwhile. A client that `disconnect()` is closing may end it, because its callback will connect,
  for which `MaxDrops` may leave no room.
* `DiesOnlyAfterOff` does not say that the app never dies: a `stopScan` after the adapter was
  switched off ends it, and so does a `mGatt` that a callback set to null between check and use. It
  says that both need an adapter that has been off.
* `ClickIffStill` is about presses a callback has heard from the beginning. A client that connects
  while the button is held gets an UP only, and sends a click with down time 0.
* `ButtonsWork` excuses a pen that lacks a descriptor or whose write for the button event failed,
  because the code has no other way on. A failed write for the battery level is no excuse.
* `BotaSound` is about updates without power cuts and without ignored failures: with either it does
  not hold, since header and records are neither synced nor their writing checked. With a bota for
  each image `NoDowngrade` survives both. With one bota it is claimed only where neither
  happened: a magic that is left in front of the records of two packages may lead the bootloader to
  an image that `verify_no_downgrade` never compared with what runs by then.
* `DoneMeansWritten` holds after any cuts and failures, for each script that succeeds, but for the
  partitions on which that script ignored a failure, and for `dqmdbg` and `param`.
* `QuiescentIsRight` holds whatever the framework did not wait for. `AckIsTrue` and
  `HostSeesOneDevice` do not: when a wait timed out, or adbd died and its return set the gadget up
  once more, init may still be at the commands of an earlier trigger and write what belongs to a
  later one. Both are stated without these two (`Undisturbed`).
* `EveryFrameAnswered` and `BuffersConserved` say that what the contract makes the HAL send is
  enough for the framework to keep its books, whatever part of a capture fails and in whatever order
  the messages come. `SomethingComes` is the line between the errors: a capture of which nothing
  valid is left must end with ERROR_REQUEST.
* `FlushQuiesces` allows for one frame: a request that is being handed over while `flush()` returns.
* `FlushEnds` is checked with as many requests as the run has frames. A `flush()` that an endless
  stream of requests keeps from ending is not within its bounds.
* `QuiescingConfigures` has a HAL that lets `configure_streams` return while a return of buffers is
  blocked; one that waits for the blocked return is not modelled.
* `LockIsAsked` is the core of the focus tables: a focus is locked, or on its way to be, exactly
  while a trigger stands that nobody took back. `FocusStays` is the header's rule that in a scene
  the user's own selection is ignored, seen over time.
* `EveryCameraShown` says of a failed provider that it holds no module. It does not say that it
  shows no cameras: it may, see section 6.
* `RunKeepsThread` does not say that the object is ever destroyed: it is not, the reference of
  `run()` leaks by design.

**The bounds.** Two callers are enough for the HAL, as calls meet only in the queue and in the file.
A leak or a wrong address needs one callback beside the main thread, thus one lost link, and a
client for each `connect()` that may be under way; `ClientsSuffice` was checked as an invariant of
the instances, so no run loses behaviours for want of a client. `connection` loses none for want of
a scan either (`ScansSuffice`); in `connection_two`, where two managers may search for the pen again
and again, a third scan waits for one of two to end. One scan result gives the pen an address, or
another one than it had; two results of one scan are in the instances of the findings. The service
starts twice, on top of the first or after a death of the process. Two presses show a flag that
leaks from one to the next, three connections one that leaks across a lost link. Three installs and
two failures give a partition with records of up to three packages whose records do not lie at the
same places; in the packages one image is missing and one is empty. `MaxFlushes = 1` lets one
write-back of one block or of all of a partition come before the power cut; the proofs have any
number of them. The USB requests are one of each kind of trigger: a daemon of its own and a class
that must be written back, adb, a class of its own, and a value without trigger. Two frames are
enough for a request that overtakes another or falls into a flush, and a bidirectional stream for a
reprocessing request, whose buffer is lent twice. The selections of the 3A run hold every focus
mode, modes with and without an algorithm for exposure and white balance, and every way to bring a
mode into force: by choice, by CONTROL_MODE OFF, by a scene that overrides, and by the scene that
does not. The three configuration changes remove a stream, bring it back, and keep all with one
designated; one stream of two buffers makes partial answers, one of a single buffer makes it starve.
The four models have no, one, two and two different extra cameras. Names that begin with `Max` bound
how often the environment interferes; they have no counterpart in the code, except for `MaxBuffers`
(`max_buffers`).

**Symmetry** is used for pens, clients and managers in `connection_two`, which checks safety only.

**Deadlock.** In `SPenConnection`, `SPenGatt` and `FirmwareUpdate` a behaviour really may end: the
user does nothing more, the pen is out of range, the bounds are used up. In `UsbGadget` the
framework really may wait for a configuration no trigger names, and in `CameraProcess` the provider
may serve for ever without anything to do. Their runs do not check it; all others do.

**Fairness.** The HAL's thread serves whenever it has work, and init restarts the service. The main
looper and the binder threads run. The adapter ends its transitions and tears down links that have
no client; the stack answers a discovery and a write, and tells of a link that is lost. init runs
its queue, adbd opens its endpoints, the framework goes on when it sees what it waits for. The
camera HAL answers calls and brings to an end what it holds: captures, sweeps, the scan a trigger
waits for. All of this is weak fairness. Strong fairness is stated at two places in
`Camera3Buffers`: for `signal_stream_flush`, since a service that goes through reconfigurations
again and again sends the hint sometime, and for the calls a HAL makes for one stream, since a HAL
with several streams serves them in turn, and a call for one excludes those for the others. Nothing
is demanded of users, of pens, of callers, or of anything that fails; the camera HAL need not fail,
and the framework need not call. `CameraProcess` has safety properties only.

## 4. What is proved

TLAPS proves every safety property of the passing runs, and the refinement, for any callers, pens,
clients, managers, packages, sizes, configurations, streams, shapes of requests, scenes, modes,
models, limits and bounds. What is assumed of the constants is named `...Assumption` in the
modules: special values are distinct, bounds are natural numbers, the sets of clients and of streams
are finite, every package has the images that `releasetools.py` installs without looking for them
(`dtbo` and `vbmeta`), and the like.

| Module | Theorems |
|---|---|
| `SPenHal_proofs` | `TypeCorrect`, `KnownAddressServed`, `Implementation` (`ImplementsStore`) |
| `SPenConnection_proofs` | `TypeCorrect`, `MacIsNeverLost`, `NoDeathWhileOn` (`DiesOnlyAfterOff`), `OrphansAreBounded` (`OrphanPerDrop`), `PenKeepsItsClient` (`ClientWhenQuiet`) |
| `SPenGatt_proofs` | `TypeCorrect`, `OneOperationAtATime` (`NeverRefused`), `KeysAreReleased` (`NoStuckKey`), `PressesMeanOneThing` (`ClickIffStill`), `GesturesAreDecoded` (`GestureFollowsMotion`) |
| `FirmwareUpdate_proofs` | `TypeCorrect`, `NeverOlder` (`NoDowngrade`), `BotasAreSound` (`BotaSound`), `SuccessIsComplete` (`DoneMeansWritten`) |
| `UsbGadget_proofs` | `TypeCorrect`, `QuiescentRight`, `AcksAreTrue`, `OneDeviceSeen` (`HostSeesOneDevice`) |
| `Camera3Device_proofs` | `TypeCorrect`, `CallbacksAreExpected`, `FramesAnswered`, `BuffersAreConserved`, `SomethingStillComes`, `SettingsAgreed`, `FlushHasQuiesced` |
| `Camera3Buffers_proofs` | `TypeCorrect`, `BuffersConserved` (`BooksAgree`), `RemovedIsEmpty` |
| `Camera_proofs` | `TypeCorrect`, `FitModes`, `LocksAsked`, `LocksHeld`, `FocusIsKept`; `ProcessTypeCorrect`, `CamerasAreShown`, `ThreadIsKept` |

In every module the argument is the same: an inductive invariant, one lemma per action or group of
actions that keeps it, and the property as a consequence of it or of a step from it. The invariants
were model-checked on the instances of section 3 before they were proved. What each needs beyond its
property is the interesting part.

**The HAL.** `TypeOK` is not inductive by itself: that a call at `write` has an address requires
that only `setMACAddress` gets there (`StepsOK`). `HalInv` adds that at most one call is served
(`OneAtATime`), hence that what a call knows about the files still holds at its next step
(`FilesOK`: a file that was probed is still there, one that was truncated is still empty, and only a
failed access sends a call to the factory's file although there is another), that addresses in files
have been offered or given before (`StoredOK`), and that without faults a known address is in the
files or about to be written (`Kept`). `KnownAddressServed` follows, and the refinement is shown
from it step by step: `Truncate`, `Charge`, the `Read` of the usual file, the `Probe` that finds
none and the `Status` of `isCharging` are `Perform`, `Crash` and `WriteFails` are `Fault`, all other
failing accesses are `Unnoticed`, the power cut is `LosePower`, and all others stutter.

**The connection.** `TypeInv` strengthens the types by what a thread relies on at its step
(`FrameOK`), and by what is known about clients and scans.

* For `MacNeverLost` the difficulty is that `onConnected()` stores a field another thread may be
  writing, and that `connect()` writes it before it has looked at the address. `MacInv` says who may
  store the default: nobody, because every client that can have a callback was opened after its
  manager had a real address, every thread within a callback runs while an address is stored, and a
  thread about to write the default to the field can only exist while none is.
* For `DiesOnlyAfterOff`, `AliveInv` says that as long as the adapter was never off no thread is
  about to assign null to `mGatt`, and that the main thread, once it has seen a client, finds it at
  `close()`.
* `OrphanPerDrop` counts clients that are already lost; a count of those alone grows at the assign
  step, where nothing was dropped. `DropInv` counts what a drop may yet lose with them (`Owed`): a
  callback that has been or will be told of a disconnection and may open a client, and the client of
  such a callback that the main thread, past its own check, is about to overwrite. Only the report
  of a disconnection adds to this set; that every other step only moves clients within it needs
  `KnownInv`, which says who can know a client: a thread about to assign it, and the manager it was
  opened for.
* `ClientWhenQuiet` is proved through what keeps the hope for the pen's client alive before it is
  quiet (`HopeInv`): while a client is wanted, a broadcast is waiting, or the main thread is in
  `disconnect()`, or a thread is in `connect()` and `Aimed` at the pen whose address is stored, or
  that pen has a client, or a callback will be told of a lost link and connect (`Promising`). A
  thread that aims at another pen is what `overtaken` is about, and a check that stops short of a
  client what `misled` is about; that nothing else gets in the way needs that no binder is dead
  (`StaleOK`) and that while the adapter is on, a `disconnect()` that is not followed by `connect()`
  is followed by a broadcast that says so (`LastOn`). That the client is the one its manager knows
  comes from `KnownInv` and `DropInv`.

**The events.** `GattInv` says of each client that at most one callback of the setup is in its queue
and answers the operation under way (`InTurn`), which is why no operation is refused, and that the
keys still to be sent are the rest of one stroke (`KeysOK`), whatever the mode has become. For
`ClickIffStill` the fields of a callback object lag behind the pen by all that is queued. `Learns`
replays the queue on the fields and says that at its end they agree with the press, and that each UP
in it finds them right; it is kept when the pen appends an event and when the callback takes one.
`GestureFollowsMotion` rests on `Decoded`: for all pairs of shorts the two bytes the pen sends are
put together to what it meant, sign included.

**The firmware.** `FirmwareInv` is about downgrades: the record a reader of the bootable bota
reaches first is never older than the bootloader that runs (`NotOlder`), on the flash and in the
cache, and a script that has firmware commands left is one that was allowed to write them. With a
bota for each image there is one record that can be reached, and this survives every failure, every
write-back and every power cut, since whatever they leave is made of records that were each allowed
when they were written. With one bota a reader goes on to `sboot`, and what keeps that from being
older is that a magic stands for records of one package (`BotasUsable`); hence the condition `Kept`.
Records at the same offset are of one package throughout (`Alike`), so that what is reached does
not depend on a choice.
`PlanInv` is about completeness and goes forward through the script: the commands that are left lead
from the partition as it is to one that is complete (`Planned`). That the script starts like this is
a statement about `OTA_InstallEnd`, put together from lemmas about its parts (`Fills`): the offsets
it computes are where the records before end, whatever the sizes, with images that are missing or
empty, and the number in the header is that of the records.

**The gadget.** Init lags behind the framework by its queue and by its commands. `GadgetInv` relates
both to the properties: while a change to `none` is still in the queue, anything may be
(`GadgetOK`), since that change clears it all; after the last one there is at most one more change,
to what `sys.usb.config` is now (`QueueOK`), and the commands that are left say how far the gadget
is (`Disabled`, `Plain`, `Adb`). `TooEarly` is the case that is easily overlooked: an adbd that was
ready before makes init set up the new configuration before its turn, and without adbd.
`InStep` adds what holds if every wait was answered: in which order framework, init and adbd are
where, from which `AckIsTrue` and `HostSeesOneDevice` follow.

**The device.** `DeviceInv` matches the two accounts frame by frame (`Match`): what the HAL has yet
to send is what the framework waits for, and of failed buffers those returned and not announced, or
announced and not returned, are the same on both sides. `CallOK` covers the frame that is being
handed over. `BuffersConserved` counts lent buffers with cardinalities of sets of frames, for which
`CountChange` is the lemma. `FlushQuiesces` is an action property and follows from the invariant at
the step that returns.

**The 3A machines.** `Inv3A` is the type invariant and the three invariants of the run together, and
is inductive: that a lock is asked for needs to know which states a mode can be in
(`StatesFitModes`), since the end of a scan turns into a lock only in some. Lemmas state for each
operator of the tables (`AfOn`, `AeOnRequest`, `AwbOnRequest`) that it leads from a state that fits
the modes to one that does. `FocusIsKept` follows from the invariant: within `FocusStays`'s
condition nothing resets the focus machine.

**The buffers.** `BooksAgree` is nearly inductive; what it needs is the limits, that `out` never
goes below what a return takes away, and in what order a reconfiguration looks at things.
`BuffersInv` adds the domains of functions and records (`Shape`), and that streams which are to go
are among those the service has waited for and are empty once it configures (`DesignatedEmpty`).
From the latter follows that a stream that was removed owns nothing, also not in an answer on its
way.

**The provider's process.** `ProviderInv` is the invariant of the loop over `mExtraIDs`: the ids in
the map are those the base class counted and, of the extra ids passed so far, those that are fitted
(`LoopOK`). That the number agrees needs lists without repetition (`ExtraIDs`, proved from the
list's definition for every model) and extra ids beyond those counted, for which `MaxCounted` is at
most 50. `ThreadInv` adds to
`RunKeepsThread` that a thread runs only after a `run()`, whose reference is never given back.

Only model-checked, because liveness is beyond the prover: `CallsEnd`, `Reconnects`, `ButtonsWork`,
`SwitchEnds`, `FlushEnds`, `TriggerEndsLocked`, `QuiescingConfigures`, `GoneIsEmptied`.

## 5. Where the code and its comments disagree

1. `connection_off`, `DisabledCloses`. "Simulate bluetooth switch on/off to apply the new settings"
   (`SPenSettingsFragment.java:61`). The callback of a lost link connects again without a look at
   the preference. If it is under way when the user switches the feature off, it opens a client
   after `disconnect()` has closed the other, and the pen stays connected.
2. `connection_found`, `FoundPenConnects`. "Simulate bluetooth switch on/off to apply the new MAC"
   (`BluetoothUtils.java:71`). A link to the old pen that comes up at the same time makes
   `onConnected()` store the old address over that of the pen that was found. There is a second way,
   which needs one pen only and `LinkLingers = TRUE`: `disconnect()` does not reset `mGatt`
   (`SPenConnectionManager.java:78`), so `connect()` opens a client only if the adapter no longer
   reports the link; a stack that takes its time leaves the pen without one. This is what `misled`
   records, and a callback that puts an old address back is what `overtaken` records, so that the
   runs and proofs of `ClientWhenQuiet` and `Reconnects` can say that there is no third way. Nor is
   the field `mSpen` safe from a found pen: the callback of a lost link that has read the old
   address sets it for the old pen after the main thread has connected to the new one.

## 6. Hazards

`PROJECT.json` lists them with their lines, and the property that would notice each going wrong. Two
have none. A HAL that was restarted, whose binder the managers keep for good, is in the model, and
nothing in the code recovers from it. A looper that one thread deletes while another polls it is
not: the shim takes the lock for the one and not for the other, and whether they meet is up to the
blobs (section 8).

Not in the list, since the code gives up there or nothing in the repository says what should happen:

* the adapter is switched on against the user's will by a `connect()` from a callback
  (`SPenConnectionManager.java:63`);
* the broadcast `onDestroy` fakes may reach nobody (`SPenActionsService.java:59`);
* a characteristic without its descriptor ends the chain (`SPenGattCallback.java:172`), and a client
  that connects while the button is held gets an UP without a DOWN (`SPenGattCallback.java:132`);
* the header of a bota goes through the page cache unsynced, and what `write()` returns is not
  looked at (`recovery_updater.cpp:75`), so that with one bota a power cut may lead to an older
  bootloader; `atoi` of a value beyond `INT_MAX`
  (`recovery_updater.cpp:66`); bota partitions validated one by one, so that a cut between two
  leaves images of two packages (`releasetools.py:71`); the missing comma, for which two images are
  never written (`releasetools.py:89`);
* the provider offers ids of a construction that failed (`SamsungCameraProvider.cpp:55`), and writes
  its map without the lock that callbacks take (`SamsungCameraProvider.cpp:69`);
* a HAL that asks for more buffers than `max_buffers` (`camera3.h:2239`): it is refused, and
  `BooksAgree` has the refusal.

## 7. Plan

Done: all modules of section 2, and the proofs of section 4. Next, in this order:

1. `SPenConnection`: `onDestroy` (the leaked receivers, the broadcast nobody gets) as an action, the
   manager's own receiver for pairing requests; then the proofs of the new cases.
2. `SPenConnection` composed with `SPenStore`, its step of a HAL call replaced by a call and its
   answer, to show, and to prove, that the abstraction loses nothing.

Recursion is written as recursive functions throughout, and no module declares a RECURSIVE operator,
so that every module can be proved about.

## 8. Not modelled

* SPenActions: the settings screen's layout, `BootReceiver` (one call of `startServiceAsUser`, whose
  effect is `StartService`), log lines, `onDestroy`, and the receiver for pairing requests, which
  answers the stack and changes nothing in the app.
* `camera3.h`: coordinates and cropping (section S5), whose second example ("1280x720: (500, 543,
  750, 414)") contradicts the rule before it; use cases, notes for tuning and for reprocessing;
  fences, formats, timing, physical cameras, dump, deprecated operations, and
  `is_reconfiguration_required`, which changes no state. The header has no implementation in this
  repository: the HAL is a blob and the framework is outside, so what is modelled is the contract as
  written at the declarations.
* USB: the charger's trigger and the gadget's strings, which are written once.
* Camera provider: the base class but for its constructor's result, `addDeviceNames`, and the HAL's
  status callbacks.
* The looper shim (`sensorndkbridge`): it creates and deletes loopers under a mutex and polls them
  without, takes any pointer from any thread, and has no other state. Which thread releases a
  looper, and whether another polls it then, is up to the camera blobs; an assumption about them
  would be all that a model of the shim could show.
* The stub shims (`libaudioparams`, `liboemcrypto`, `libsfpex`) have no state.
* Init scripts other than USB, fstab, kernel command lines, overlays, audio, NFC, power and thermal
  tables, key layouts, manifests, properties and sepolicy are data for programs outside the
  repository. Makefiles and `extract-files.sh` run once on a build host.
