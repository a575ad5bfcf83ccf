# A verification project for mozart-patches

TLA+ models of the code this repository maintains for the Huawei MediaPad M2
8.0: what the sensors multi-HAL, the MAC address service, the display overlay,
the SensorManager shim with its binder interface and the USB triggers do, checked with TLC on small instances, and proved
with TLAPS where that is possible. Source paths below are relative to
`device/huawei/mozart/` unless they start with `patches/` or `scripts/`.

## The system and its parts

| component | state | operations | what makes it hard | what makes it correct |
|---|---|---|---|---|
| sensor event queue (`sensors/SensorEventQueue.cpp`) | ring of 36 events: `mStart`, `mSize`, `mData`; a condition variable | `getWritableRegion`, `markAsWritten`, `peek`, `dequeue`, `waitForSpace` | the region is used after the lock is released; two clamps, a wrap | region and readable records never overlap; only written slots are read |
| multi-HAL event path (`sensors/multihal.cpp`) | `queues`, `queue_mutex`, `waiting_for_data`, `nextReadIndex` | `writerTask` for each sub-HAL, `poll()` | threads, two kinds of condition variables, conditional broadcasts, dropped events | FIFO, nothing lost or invented, no lost wake-up, nobody starved |
| multi-HAL control calls (same file) | `sensors_enable_state`, `sensors_batch_list` | `activate`, `setDelay`, `batch`, `flush`, `inject_sensor_data` | `batch()` before `activate()` on sub-HALs that have neither; two calls that may fail separately | the accepted period is in force or saved; success is true |
| multi-HAL start-up (same file) | module list, version map, device vector, handle maps | `lazy_init_modules`, `open_sensors`, `lazy_init_sensors_list`, `close` | two lazy initialisations in either order, a mutex locked in one call and unlocked in another, sub-HALs that fail to load or open, threads that outlive their device | maps are inverses, calls reach the owner, the mutex is handed over, only known causes end the process |
| MAC address service (`macaddr/mac_addr_normalization.cpp`) | two files and their temporary files | `main`: check, vendor's helper, generate, store | a crash or power failure between any two system calls, reruns on every boot | what is installed is whole; a valid address is kept; success is true |
| DSS overlay (`patches/hardware/interfaces/hwc2onfbadapter-hisi-dss-overlay-fallback.patch`) | overlay state of the HWC2 adapter | layer validation, posting, fall-back | validate and present are separate calls; sticky error and a debug switch | every layer is shown by exactly one path; no overlay after an error |
| SensorManager shim (`libshims/gui/SensorManager.cpp`) | server proxy, sensor list | `assertStateLocked`, list, queue creation, death observer | the server dies at any time; notifications are late | no use of a dead server's list |
| binder interface of the shim (`libshims/gui/ISensorServer.cpp`) | none but the parcels | four transactions, each with a writing and a reading end | two pieces of code must agree field by field; nobody looks at a status | arguments and answers keep their places; a failed call reads as empty |
| USB triggers (`rootdir/etc/init.hi3635.usb.rc`, `init.hi3635.chip.usb.rc`) | init properties, gadget files, services | `on property:` blocks | triggers queue up, expand properties late and set properties themselves | gadget, `sys.usb.state` and services are those of one mode, the one asked for last |
| patch installation (`scripts/`) | source trees | `apply_once`, install, extract | reruns after a partial run | idempotent |
| GNSS geofence limit (`patches/frameworks/base/gnss-geofence-native-timeout.patch`) | a task on a handler thread | `runOnHandlerThread` | late answers | caller never blocks for ever |

The rest is small functions without state (variant detection in `libinit/`,
`dlopener/`), single-condition patches inside code that is
not in this repository, and declarative data. `PROJECT.json` lists each with
the reason it is left out.

Within the sensors process the components meet as follows. The framework's
thread calls `open_sensors`, which opens every sub-HAL, creates one
`SensorEventQueue` and one `writerTask` thread for each, and leaves
`queue_mutex` locked; the first `get_sensors_list` builds the handle maps that
`poll()` and every control call look things up in, and unlocks it. From then on
the writers and the caller of `poll()` share the queues under `queue_mutex`,
while the control calls, which the framework serialises, share only the
handle maps with them. The SensorManager shim is linked into vendor programs and
talks over binder to the sensor service, whose process hosts the multi-HAL and
may die. The overlay meets SurfaceFlinger only, the MAC address service nobody;
the USB triggers are run by init for the framework, which sets their properties.

## Modules

**`SensorEventQueue`** holds the class as a record and each method as an
operator. A writable region is a first slot and a length.

**`MultiHalPoll`** is the event path. `wpc[d]` is where the `writerTask` of
device `d` is; `ppc` is where the caller of `poll()` is. The two critical
sections of a writer are one step each (`WriterTop`, `WriterMark`), because
they touch nothing outside the mutex; the scan of `poll()` is one step for
each queue it looks at, with the mutex held throughout. Between the two critical
sections the sub-HAL stores one event in the region for each `DevicePut`, at
any time, and returns with `DeviceReturn` or, on error, `DeviceReturnNone`. A
thread woken from a condition variable still has to get the mutex
(`spaceWoken`, `woken`), and may wake for no reason. `full_to_global` is a
constant here: poll() can only run once the list is built (`mutex = "open"`
until then). With no device at all `poll()` never returns; `N > 0` is assumed.

**`SensorEventStream`** is what the event path promises: bounded FIFO streams
with no ring, lock or thread. `StreamSpec` in `MultiHalPoll` states that
`MultiHalPoll` implements it.

**`MultiHalControl`** is the control calls, one action for each case of each
handler. `active` and `delay` are what the sub-HAL has accepted; `asked` and
`forgotten` are history variables, `last` records the latest call for the
properties. A call into a sub-HAL may fail. Flags and timeouts are not
told apart from the period. `SetDelay` is enabled on active sensors only, which
the code (516-521) does not test: the framework calls `setDelay` of this device for
no other.

**`MultiHalInit`** is the start-up: the thread that opens and closes the HAL, the
listing thread and the writers' use of `queue_mutex`. `lazy_init_modules` is one
step, under its own mutex, and any part of the file's libraries may load. `made`
says which of the three pointers of the file are not NULL. The devices, the
writers and the failures are kept for each context, that is for each call of
`open_sensors`; `device__close` takes away the devices of a context and leaves
maps, list, mutex and threads as they are, as the code does. A null dereference,
an uncaught exception and a `poll()` of a closed device (`PollClosed`) are
`crashed`. A module stands for its line of the configuration file.

**`MacAddrNormalization`** is the service, one action for each system call that
changes something. `path` is what programs see, `disk` the states a power
failure may leave: `rename` adds the new content, and, if `fsync` has not
returned, junk too. An address is its first octet and a summary of the other
five. The vendor's helper is not in this repository and may leave, write or delete
each of the files, with junk (whatever the service refuses) or with an address it accepts.

**`HwcOverlay`** is the HWC2 adapter with the overlay patch, one action for each
hook, and SurfaceFlinger as far as its calls depend on the answers: `callerType`
is its own record of the composition types, `targetSet` whether it has drawn
since it validated, `screen` the last frame as a history variable. It calls
`setClientTarget` and `presentDisplay` as it does after an accepted validation,
and all other hooks in any order. What DSS can do is two functions of a layer:
the kind of its buffer and an area, 0 standing for a transform, alpha, frame or
crop that rules the overlay out. A layer that gets such a geometry is marked
modified, so a validation comes before the next post, and it makes no difference that
`fillDssLayer` does not test transform and alpha again. `PresentOverlay`, `PresentFallBack` and
`PresentBuffer` are the three ways through `postBuffer`; the fall-back may be
taken at any time, since `open` and `ioctl` may fail. The hooks whose code the
patch does not touch are marked external. **`DisplayFrames`** is what the adapter
promises: a frame is whole, or the overlay fails in it, which cannot happen again
before a validation has seen the property off. `FrameSpec` states the refinement.

**`SensorManagerShim`** is one instance of the class with the threads that call
it. `assertStateLocked` is a step for each statement that touches shared state,
because the observer and the service move in between: `PingAlive` or `PingDead`,
`GetService` up to `Tries` times, `LinkToDeath`, `FetchList`, `AllocList`,
`FillList`. All public methods begin and end alike (`Call`, `Return`). The
service, the service manager and the obituary of the binder driver are external:
the service manager may go on answering with a dead service for a while, and the
obituary may come late. An error of `getService` is always "not found", the only one it
can return, so lines 171-173 are not a step. `raced` records that the observer ran beside the
constructor. A list is known by the incarnation of the service it came from.

**`SensorService`** is the service as a client sees it: what it may answer at a
moment, and that it may change, die and come back. It is external.
**`SensorServiceCalls`** says what `ISensorServer` promises: a call is carried out
at one moment by the service alive then, or not at all, and returns that answer
or, when the transaction failed, the empty one. **`ISensorServer`** is the code: a
parcel is a sequence of typed fields, `Request` and `Result` are the proxy's
methods, `Unmarshal` and `Reply` the cases of `onTransact`, with one action each
for sending, serving, receiving and failing. A read past the end yields zero, one
of the wrong type `Garbage`; a transaction may fail before or after it was carried
out, and the proxy does not look. Names, sensors and ints are model values, since
only their places in a parcel matter. `CallSpec` states the refinement.

**`UsbConfig`** is init executing the property triggers. `ModeBlock`, `NoneBlock`,
`DiagBlock`, `ModemBlock` and `PersistBlock` are the blocks as sequences of
commands; `NextEvent` takes a change from the queue and loads its block; one
action executes each kind of command, and between two of them `SetByOther` may
set `sys.usb.config` or its persistent twin. `${...}` is expanded when its command
runs, and a property without a value makes the command fail. Which functions and
identifiers a mode writes is abstracted to the mode's name, or to what
`sys.usb.config` holds where the block says so: that is the difference that lets
two modes mix. init itself (the queue, the expansion) is external.

**`MC…`** modules give the constants their values. **`…Proofs`** modules hold
the theorems. Operators whose name ends in a description after an underscore
(`ScanTake_NoBroadcast`) are plausible bugs; each property is shown to notice
one of them.

## What is checked

| run | instance | shows |
|---|---|---|
| `poll_two` | two sub-HALs, two slots each, up to two events for each `poll()` | `RegionSafe`, `ReadableWritten`, `NoLostDataWakeup`, `NoLostSpaceWakeup`, `EmptiesInv`, and `StreamSpec` |
| `poll_live` | two sub-HALs, one slot each, three kinds of events | `EveryQueueServed`, `BlockedWriterResumes`, `EventsReachCaller` |
| `poll_corrupt` | one sub-HAL and a flush-complete event of an unknown handle | finding 1 |
| `control_calls` | a sensor of a 1.0 sub-HAL, one of a 1.4 sub-HAL, one without device; four-bit `int`, periods 1 and 9, of which the second does not fit | `RateAsAsked`, `SuccessIsTrue` |
| `init_start` | three lines, any of which may not load, two of which may not open; two contexts | `RoutedToOwner`, `CrashNeedsFailedOpen`, `HandlesConsistent`, `UnlockIsOwed`, `UnlockedByOwner`, `WritersGetGoing` |
| `init_shifted` | three lines, one context | finding 2 |
| `mac_boots` | two files, two runs | `SuccessMeansValid`, `InstalledWhole`, `StaleTmpHarmless`, `ValidIsKept` |
| `hwc_frames` | two layers ever, two areas and none, three kinds of buffers, three types | `TypesAgreed`, `OnePath`, `FrameSpec` |
| `shim_calls` | two threads, three incarnations of the service, two attempts | `OnePiece`, `CrashNeedsRace`, `FreshList`, `CallsReturn` |
| `shim_construct` | one thread, two incarnations | finding 3 |
| `binder_calls` | two clients, two names, two ints, two built-in sensors, three lists of dynamic ones | `ArgumentsIntact`, `CallSpec` |
| `usb_modes` | six modes (off, without and with adb, diagnosis, modem, `hisi_debug`), three persisted values, three requests at any moment | `SettledAgrees`, `ServicesFollow`, `Settles` |

The first passing run of each module also checks its type invariant, `TypeOK`, but
for `mac_boots`: that of `MacAddrNormalization` is part of its inductive invariant and
proved (`TypeCorrect`).

Why these bounds are enough. The ring code compares positions with `mStart` and
with the end of the array only; two slots give regions that are cut at either,
rings that are empty, half full and full, and the wrap, and what four slots would
add is proved for every capacity. Queues interact only through the mutex, the
reader's flag and the round robin, for which two are the smallest case and a
third adds nothing new. Liveness is checked with one slot, where a writer blocks
after every event. The start-up needs a module before and one after the one that
fails, and a second context to be opened after, or beside, a first. One run of
the MAC service can meet any leftover of the one before, and nothing of a run
survives but the files. The overlay is one layer against all others, so one video
and one other layer, each of which may be either, give every case; all but
liveness is proved for any number. Of the service's incarnations a call can meet
the one it knows, a dead one the service manager still answers with, and a new
one, which is three; of 60 attempts two show a retry and the last. Binder calls
share nothing but the service, so a second client stands for all others. The
blocks of the modes fall into the six shapes the instance has; three requests let
two come in the middle of the block of a third, and `SettledAgrees` and
`ServicesFollow` are proved for any number and every mode.

### Fairness

`FairSpec` of `MultiHalPoll` assumes that the framework asks for the list and
calls `poll()` again after each return (that is the loop of SensorService), that
the polling thread runs while it can, and that a writer that asks for
`queue_mutex` again and again gets it (strong fairness: the mutex is free again
and again, but not continuously). Nothing is assumed of a sub-HAL, whose
`poll()` may block for ever, or of spurious wake-ups. `FairSpec` of `MultiHalInit`
assumes that a call of `open_sensors` runs on, that the framework does ask for the
list, and strong fairness for a writer that wants the mutex; nothing makes the
framework open a second time, or close. `FairSpec` of `UsbConfig` assumes that
init goes on while it has something to do, and nothing of other processes.
`FairSpec` of `SensorManagerShim` assumes
that a thread inside a method runs on (every call of `assertStateLocked` has a
time limit: a ping, five seconds of `getService`, one of sleep). Nothing is
assumed of the service, which may die or stay away for ever, of the obituaries,
or of when a thread calls next. The other modules claim no liveness.

### Findings

1. `multihal.cpp:369` tests only the `sensor` field; a meta-data event with an
   unknown inner handle is delivered with `meta_data.sensor = -1`, against the
   comment at 370.
2. `multihal.cpp:836`: a sub-HAL that does not open shifts the devices of all
   later ones, against the comment at 830.
3. `SensorManager.cpp:131` runs `assertStateLocked` without the lock, and the
   observer it links at 190 may clear what 192-199 use, against the comment at 130.

Seen while modelling, without a run of their own: `multihal.cpp:190` passes the
64-bit period through an `int`, so a period above 2^31 - 1 ns is not the one saved
(`RateAsAsked` admits this change, `Narrow`, for sub-HALs older than 1.1, and no other);
after a second open nothing unlocks `queue_mutex` (686; `UnlockIsOwed` holds up to the
lock of that open, `WritersGetGoing` up to its start), and after a close the writers go
on polling (482; `CrashNeedsFailedOpen` admits a writer that is between its unlock and
its lock in a closed context); 505 calls
`setDelay()` although `activate()` failed, against the comment at 545; 467 gives
a sub-HAL the proxy's device and a global handle; 746 needs a version map that
only `open_sensors` makes, against the comment at 613 (`CrashNeedsFailedOpen`
allows for it); after a ping that failed, `SensorManager.cpp:194` drops the old
array without freeing it; a `getSensorList` that failed leaves the shim with an
empty list until the service dies the next time (193, `ISensorServer.cpp:58`). The
USB blocks start and stop what their own mode needs and rely on "none" in between
for the rest: a direct change from a mode with adb to one without leaves adbd
running, and a "none" that is overtaken may report the next mode's name while the
gadget is still disabled, until that mode's block runs. After an overlay error
SurfaceFlinger falls back until a validation sees the property off (line 752 of the
patch), not "for that process" as the repository's `README.md:53` has it.

## What is proved

For every value of the constants that satisfies the named assumptions:

- **`MultiHalPollProofs`**: `TypeOK`, `RegionSafe`, `ReadableWritten`,
  `EmptiesInv`, `NoLostDataWakeup` and `NoLostSpaceWakeup` are invariants of
  `Spec`, and `Spec => StreamSpec`. None but the first is inductive. The inductive
  invariant adds `ClaimInv` (a region in use starts at slot `mStart + mSize` and
  fits in the free part, which `dequeue` only enlarges) and `ReaderInv`; by
  `EmptiesInv` the queues counted as empty are the ones just behind
  `nextReadIndex`, so a count of `N` means all. The modular arithmetic of the ring
  is in lemmas about the operators of `SensorEventQueue`. The refinement rests on
  lemmas that say what each of them does to `Contents`, the readable slots as a
  sequence: storing into a region changes nothing, `markAsWritten` appends what
  was stored, `dequeue` takes the head. Every step of a thread is then a step of
  the streams or a stutter.
- **`MultiHalControlProofs`**: `TypeOK`, `RateAsAsked` and `SuccessIsTrue`, for any
  width of `int`. The invariant adds that a request is saved only for an inactive
  sensor of an old sub-HAL.
- **`MultiHalInitProofs`**: `TypeOK`, `HandlesConsistent`, `UnlockIsOwed`,
  `CrashNeedsFailedOpen`, `UnlockedByOwner` and `RoutedToOwner`, for every
  configuration file and any number of contexts. The invariant follows the first
  open and the only run of `lazy_init_sensors_list` that does anything: until the
  list is made, the lock of the first `open_sensors` keeps every writer and every
  later open waiting (`BeforeList`), so the versions looked up are those of the
  first context, which has dealt with every module (`FirstContext`) unless the list
  came early (`InTime`). `ListModule` keeps the two maps inverses because a module's
  local handles are distinct and its index is new.
  `RoutedToOwner` has the hypothesis `NoSilentGap`: a sub-HAL that may fail to open
  and has no sensors has none with sensors behind it in the file. That is a condition
  on the configuration which nothing in the code provides, and it cannot be dropped:
  finding 2 is a counterexample without it, while `init_start` satisfies it. The
  invariant for it is `RoutingInv`: a context's devices are in step with the modules
  up to the first that failed (`Parallel`); no library is loaded twice, and none both
  opens and fails in a context (`Apart`); a sub-HAL whose sensors are listed has a
  device in the first context (`Listed`), since the list asks for its version. So
  one that failed there had no sensors, and lies behind all that have.
- **`MacAddrProofs`**: `TypeOK`, `InstalledWhole`, `SuccessMeansValid`, `StaleTmpHarmless` and
  `ValidIsKept`, for any number of files and runs. The invariant follows `StoreMac`:
  what the temporary file holds, whose it is and whether it is synced at each point
  up to the rename. A second one, `PassedValid`, follows `main`: the files it
  has passed are valid while no call has failed, and a file with a valid address is
  stored anew only after a look at it failed. `GeneratedAccepted` shows that
  `ParseMac` accepts whatever `GenerateMac` makes.
- **`HwcOverlayProofs`**: `TypeOK`, `TypesAgreed`, `OnePath` and `Spec => FrameSpec`.
  The inductive invariant adds that SurfaceFlinger's record is the requested type,
  that requested and validated type differ for listed layers only and for none once
  VALIDATED, that a target set since validation shows exactly the layers
  SurfaceFlinger draws, that the overlay goes with a target if and only if there are
  other layers, and that there is an overlay only while the property was on. From
  these a frame is complete, because the drawn layers are all but the overlay, and
  every hook is a step of `DisplayFrames` or leaves frame, switch and trust alone.
- **`SensorManagerShimProofs`**: `TypeOK`, `OnePiece`, `CrashNeedsRace` and
  `FreshList`. The invariant says for each step of `assertStateLocked` what has
  been put together by then (`Stage`), as long as no death was observed during
  construction; that one thread at most is inside, because no lock is taken before
  the constructor is through; and that a running service is younger than any that
  was dead when the call began.
- **`ISensorServerProofs`**: `TypeOK`, `ArgumentsIntact` and `Spec => CallSpec`, for
  any lists, names and number of clients. Its core is three lemmas about parcels:
  `RequestRead` (onTransact reads the call that was written), `ReplyRead` (the
  proxy reads the answer that was written, lists included) and `EmptyRead` (an
  empty reply reads as the empty answer).
- **`UsbConfigProofs`**: `TypeOK`, `SettledAgrees` and `ServicesFollow`, for all
  modes and any number of requests. The invariant says that the last queued change
  of `sys.usb.config` names its current value, and, once no such change is queued,
  that what is left of the block brings each file and the reported state to what the
  current mode wants, or finds them so: the last write of a file decides. A second
  one, `ServicesOnTheirWay`, follows the services over the same time: the block
  is still to start or stop a service itself, or to set the switch of its servers,
  or the switch's value is the last of its kind in the queue, or the block that the
  switch triggers is being run or has been.

The six liveness properties (`EveryQueueServed`, `BlockedWriterResumes`,
`EventsReachCaller`, `WritersGetGoing`, `CallsReturn`, `Settles`) are only
model-checked: liveness under fairness is beyond the prover. Every other property of
a passing run is proved.

## Plan

1. The shim as an implementation of an abstract cache, empty or of one incarnation,
   where that says more than `OnePiece` and `FreshList` together.
2. `PatchStack`.

## Not modelled

The ten-second sleep and the logs; `fix_sensor_flags`, which sets two bits of a
list entry from a table; the flattening of a `Sensor` inside a parcel, which is
libgui's; the triggers of AOSP's own `init.usb.rc`, which is not in this repository
and whose blocks init would run beside these; the parameters of the USB functions
and the `on boot` block; the variant detection in `libinit/`, a table from one
property to names; the geofence time limit, whose handler thread and native layer
are not here; everything whose behaviour lies in code outside this
repository (kernel, build system, OTA scripts, framework patches of one
condition); data files. The destructor of the queue and the code after
`batch()`'s version test at `multihal.cpp:402-428`, which nothing reaches:
`device__batch` has already handled older sub-HALs.
