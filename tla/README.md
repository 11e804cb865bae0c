# VoodooSMBus in TLA+

Specifications of [VoodooSMBus](../src/README.md), a macOS kernel extension with
a driver for Intel's i801 SMBus host controller and a driver for the ELAN touchpad
behind it. The source under `../src` is the reference: every action is translated from
it, and `PROJECT.json` ("map") gives the lines each definition stands for.

## 1. The system

| Part | State it keeps | Operations | Talks to |
| --- | --- | --- | --- |
| `VoodooSMBusControllerDriver` | `adapter` (registers' base, `status`, retries, timeout), command gate, work loop, interrupt source, `device_nubs`, `awake` | `start`, `stop`, `setPowerState`, `handleInterrupt`, `readByteData` ... `writeBlockData` (all through `transfer`) | host controller (I/O ports), nub |
| `i2c_i801.cpp` | the host controller's registers; for byte-by-byte transfers `cmd`, `len`, `count`, `data` | `i801_access` and below, run inside the command gate; `i801_isr_byte_done` in the handler | host controller |
| `VoodooSMBusDeviceNub` | `slave_device` (address, flags) | forwards transfers; `handleHostNotify` starts a thread per notification | controller, touchpad driver (`messageClient`) |
| `ELANTouchpadDriver` | `awake`, `ignoreall`, `ts_last_keyboard`, `ts_last_trackpoint`, `trackpointScrolling`, transducers | `handleHostNotify`, `message` (from the keyboard driver), `setPowerState`, `initialize`, `start`, `stop` | nub, VoodooI2C's multitouch interface, `TrackpointDevice` |
| `TrackpointDevice`, `Configuration`, `VoodooSMBusIntelLpssI2C` | none | forward events; look up two kinds of settings; nothing | IOKit |

What makes it hard:

* **Threads.** `transfer` is called by one thread per host notification, by the thread
  in `ELANTouchpadDriver::start` (initialisation takes seconds) and by the power management
  thread. `handleInterrupt` runs on the work loop thread. The command gate excludes them
  from each other, *except* while a call sleeps in `commandSleep`: it gives the gate
  up there, and has to, because the handler needs it to wake the call.
* **One set of registers.** Address, command, data, status, the block buffer bit and
  `adapter->status` belong to the controller, not to a call. The comment in
  `i801_check_post` says "all this code is serialized"; in Linux the bus lock does that,
  here nothing does.
* **Time.** A call may time out while its transaction is on the wire. In fact
  `commandSleep(&status, (UInt32)abstime)` selects the overload of `IOCommandGate` that
  takes no deadline, so the source as it stands never times out.
* **Power.** The gate is disabled while calls may be asleep; the host loses power.
* **Input.** Two clocks' readings are subtracted unsigned, one of them read by another driver some time ago;
  reports may overtake each other, and filters drop reports that carry a release; all threads fill the same transducers.
* **Beginning and end.** `start`, `stop` and `releaseResources` take no lock and wait for nobody,
  while the handler, notify threads, sleeping calls and the power manager use what they make and release.
  Memory may run out at any step, and most results are ignored.

The hazards, each at its line and with the properties that watch it, are in `PROJECT.json`.

What makes each part correct: a call of `transfer` returns, once, the result of its own
transaction (`SMBusTransfer`); the handler wakes every sleeper whose transaction is over
and loses no notification; the block buffer is off outside block operations; a disabled gate
keeps the bus quiet. For the touchpad: a report that arrives after the quiet time is
delivered, one inside it is not, scrolling ends with the middle button, an event says what its
report says, and the touchpad sleeps when its driver is off. For both: nothing is used before it is
made or after it is released, a failed `start` takes back what it made, and a teardown ends.

## 2. Modules

| Module | What it is |
| --- | --- |
| `SMBusTransfer` | What a call of `transfer` promises its caller, as long as it meets no other. Abstract: invoke, meet, begin, end, return. |
| `GateCalls` | What the gate, the sleeping calls and the host owe each other. Abstract: the interface of the two models of the controller driver. |
| `I801Controller` | The controller driver: all calls, the handler, `setPowerState`, the host's registers. |
| `I801Overlap` | `I801Controller` with the history of which calls have met, the refinement mapping to `SMBusTransfer`, and what a call that meets no other can rely on. |
| `I801Serialized` | `I801Overlap` under the discipline the port assumes: nobody meets. |
| `I801ControllerProofs`, `I801SerializedProofs` | Theorems about the three. |
| `I801ByteByByte` | A block operation without the 32-byte buffer: caller, `i801_isr_byte_done`, host and device, byte by byte. |
| `ELANInput` | The touchpad driver's notify threads and the keyboard's messages: filters, scrolling mode. |
| `WorkLoopInit` | `getWorkLoop`, the lock-free one-time initialisation, and the other writes of `work_loop`. |
| `ControllerLifecycle` | The controller driver from `start` to `stop`, against everything that runs meanwhile. Extends `WorkLoopInit` and implements its specification. |
| `ELANLifecycle` | The touchpad driver from `probe` to `stop`: initialisation, power, notify threads. |
| `ELANReport` | Decoding of reports into the shared transducers; the trackpoint's movement. |
| `I801ByteByByteProofs`, `ELANInputProofs`, `WorkLoopInitProofs`, `ControllerLifecycleProofs`, `ELANLifecycleProofs`, `ELANReportProofs` | Theorems about the six. |
| `MCI801Controller`, `MCI801Serialized`, `MCELANInput`, `MCELANReport` | Instances for TLC (symmetry of calls and threads, reports). |

How they fit together. `I801Controller` begins where `start` ends and takes the objects of the driver
for granted; `ControllerLifecycle` has those objects and reduces a call to in the gate, asleep, gone.
The two share the interface of `setPowerState` and of the handler, each at its own grain. That they mean the same calls
is not left to the reader: `GateCalls` says when a call may start the host, sleep, be woken and return, what the gate has
to do with it and when an end is reported, and both models are shown to implement it (`ImplementsGateCalls` in
each). So what `ControllerLifecycle` leaves out of a call, `I801Controller` cannot contradict. `ELANLifecycle`
sees the controller as a gate that is enabled or not and a transfer as one step that succeeds or
fails, which is what `SMBusTransfer` promises. `ELANInput` decides whether a report is passed on and
`ELANReport` what becomes of it.

### I801Controller

An element of `Call` is one call of `transfer`. `pc` says where it is:

| `pc` | In the code |
| --- | --- |
| `new`, `gate` | not made; in `runAction`, waiting for the gate |
| `setup` | `transferGated`, at the head of a try |
| `pre` | registers written, before `i801_check_pre` |
| `sleep` | in `commandSleep`, gate given up |
| `wake` | woken (or timed out), waiting to get the gate back |
| `post` | `i801_transaction` has its result; `i801_access` is about to end |
| `done` | returned |

`setup`, `pre` and `post` are the stages that hold the gate; that it is free is derived from
them. The actions are `transfer`, `transferGated`, `i801_access` (with `LoadData` and
`i801_set_block_buffer_mode`), `CheckPreFails` and `StartAndSleep` (the two outcomes of
`i801_check_pre`, and the start), `TakeStatus` (with `i801_check_post`), `TimeOut`,
`LeaveAccess` (buffer off, data collected, next try or return), `HandleHostNotify` and
`HandleCompletion` (the two halves of `handleInterrupt`), the four steps of `setPowerState`,
and the environment: `HostCompletes`, `TouchpadNotifies`, `PowerIsLost`. Steps of one call
inside the gate are separate wherever the *host* can do something in between, because
the gate does not stop the hardware.

Abstractions. Data is who wrote it: a data register holds the request of a call
or the answer to it. Address and command registers are left out (they are written
in the same step as the data and nothing else changes them). The five operations the
driver offers are kept; quick, word and I2C block transfers, which nobody calls, are not.
PEC is never asked for: `transferGated` keeps only flags that nobody sets, so `hwpec` is 0 and
only the leftover `CRCE` flag matters. The interrupt is a level: it stays asserted while
a flag is set and enabled. `bus` is a history variable, the fate of a call's latest transaction.
Definitions such as `PreKeepsFlags`, each just before the definition it varies, are faulty
variants (in the other modules too), used to show that a property notices the fault; no action uses them.

Constants. `SleepTimesOut` is FALSE for the code as it is and TRUE for what the caller of
`commandSleep` meant; the safety results hold for both. `PowerManaged` lets the system go to
sleep. `BiosNotify` is the bit of `SMBSLVCMD` found at start. `Garbage` is what the
uninitialised `adapter->status` may hold.

### GateCalls

`stage` of a call: not made, asks for the gate, asleep, woken, over; `wire` the calls whose transaction the host
executes; `ended` an end that no interrupt has reported yet. Seen from `I801Controller`, a call *asks* until its first
start (registers, buffer and `i801_check_pre` change nothing outside), a call whose later try is being prepared is
still *woken*, `ended` is any flag of a transaction with its interrupt enabled, and the gate is on or off. Seen from
`ControllerLifecycle` the gate may also not be there or be removed, a call in the thread of a host notify is not made yet,
and an end is reported by the handler's two steps. `LoseEnd` and the flags that `Return` may clear are the driver's weakness
behind `LostWakeUp`: the interface has to allow them, because the detailed calls do it. `OneOnTheWire`, `NobodyLeavesEarly` and
`ClosedGateIsQuiet` are what both sides can rely on all the same.

### I801Overlap and I801Serialized

`met` grows, with every step, by the calls that are then inside `transferGated` together (`Meeting`); `Lone` are the
others. `SMBusTransfer` has the same set as `disturbed`: it lets a disturbed call return a success that was not its
own, or begin again after a success, and promises the others everything. `Shared` is the mapping: `new` maps to
idle, `done` to returned, everything between to busy, `bus` to the wire, `met` to `disturbed`. `ImplementsShared` is about the
driver *as it is*. It says exactly how far the two violations below reach: to calls that have been inside together, and no further.

`I801Serialized` has one more guard: a call enters `transferGated` only if no other call is inside it. This is what the
comments assume, not what the source enforces; the module says what a bus lock would buy. Then `met` stays empty, and
`ImplementsTransfer` is the same mapping with nobody disturbed.

### I801ByteByByte

If `i801_set_block_buffer_mode` fails, `i801_block_transaction` moves the block itself.
The module stands beside `I801Controller`, not inside it: one caller at a time, so that what
can go wrong is the hand-over of bytes between the caller, the handler and the host. `START` is
what reads and writes have in common, `StartRead` and `StartWrite(n)` the rest up to
`commandSleep`, `Return` and `TimeOut` its two ends. `handleInterrupt` is the whole of the handler
below the host notify: `i801_isr_byte_done` (`TakeLength`, `ReadNextByte` and `SetLastByte`, or
`WriteNextByte`), clearing, wake-up. The handler reads `SMBHSTSTS` once, and while `BYTE_DONE` is
up the host moves no byte, so it is one step. Byte `i` of a message is the number `i`: enough to
see a byte lost, doubled or misplaced. The host is external: it stretches the
clock while `BYTE_DONE` is up, also after the last byte; a device may claim an illegal length
and send more bytes than the block holds. Whether the host ends a one-byte read by itself
is left open on both sides: `i801_isr_byte_done` never sets `LAST_BYTE` for it (`count` is
already past `len - 1` when the length is known), so the model allows extra bytes, which the
driver discards, and relies on the host to end.

### ELANInput

One element of `Thread` per host notification, `pc` at each access to a member of the driver or
to the clock, since nothing is locked: `getReport`, `CheckIgnore`, `ReadClock`, `FilterTyping`,
`FilterTrackpoint`, `reportAbsolute`; of `reportTrackpoint`, `ReadUse`, `StoreUse`, `EnableScrolling`,
`DisableScrolling`, `Send`. `KeyPress` and `SetTouchStatus` are the keyboard drivers' messages, `Tick` the
uptime. An element of `Press` is one key press: `PressKey`, in the keyboard's driver, reads the clock and sends a
message with what it has read; `KeyPress`, at any later time, is `message` storing that `argument`. So a press made before a
report is read may be told after the report has passed the filter, and of two presses the later one may be told first; then
`ts_last_keyboard` goes back. Subtraction is that of `uint64_t`: `Minus` wraps at `Word`. A report is its kind, the middle
button, and which coordinates are not zero. `lone` is a history variable: the thread has
not met another one. The properties of a *sequence* of reports hold for lone threads only, because
nothing in the source keeps two threads apart. `told`, `known`, `passed` and `moved` are history too: the presses the driver has
been told of, up to the one told last (the later ones it has forgotten), what of them it knew when a thread was in the
typing filter, when that was, and the movements of the trackpoint.

### WorkLoopInit and ControllerLifecycle

`WorkLoopInit` has one step per access to `work_loop`: the test, the compare-and-swap, the store of what
was allocated (or of `NULL`), the spin, and the second reading in `return work_loop`. Pointers are numbers, as the
test `(vm_address_t) work_loop >> 1` has it: 0, the marker 1, work loops above. `StoreWorkLoop` and
`DropWorkLoop` are the writes of `start` and `releaseResources`.

`life` in `ControllerLifecycle` is the program counter of `start`, then of `releaseResources` and `stop`:

| `life` | In the code |
| --- | --- |
| `new`, `loop`, `irq`, `gate`, `power`, `nub`, `irqOn`, `notifyOn` | `start`, before the statement of that name |
| `up` | started |
| `quiet`, `nubs`, `gateOut`, `gateNull`, `irqOut`, `loopOut` | `releaseResources`, from `goto exit` or from `stop` |
| `pmstop`, `stopped`; `failed`; `refused` | `stop`; after a failed `start`; after an early return of it |

Every allocation and every `addEventSource` may fail. `irq` and `gate` are the two event sources from `NULL` over
made and added to removed; `loopRefs` and `nubRefs` count references. `pm` is `setPowerState` in four steps,
`handler` the interrupt handler between looking up the nub (or clearing the flags) and using it (or the gate).
A call is in front of the gate, asleep, woken or gone: `transfer` finds the host busy or goes to sleep (`StartAndSleep`), a
woken one returns (`Leave`, with or without clearing what has ended) or tries again, in a gate that must still be there;
`removeEventSource`, like the handler, needs the work loop's lock, nothing else in the teardown does. A use of something that is gone is recorded in `fault` and ends the
behaviour; `late` records what was going on when `releaseResources` ran, `early` a power change before `start` was
over, and `reset` that `work_loop` has gone back to `NULL`. `stop` runs after the clients of the nub are gone, as
IOKit orders it. IOKit's handling of references at attach and detach is external.

### ELANLifecycle

`life` again follows `probe`, `start`, `stop` and `releaseResources`; `init` is where a caller of
`tryInitialize` (`start`, or the power manager) is between hello packet, enabling and absolute mode, `failed` how
often it has failed, `touchpad` the state these and the sleep command leave the device in. A transfer that fails may
or may not have had its effect. `gate` is the controller's command gate. `PowerTree` says whether IOKit has made the
driver a power child of the controller: the nub, the provider, never calls `PMinit`, so `joinPMtree` may put it
elsewhere, and then the order of the two drivers is not fixed. A notify thread reads its report and uses what
`reportAbsolute` and `reportTrackpoint` need; `fault` is the first use of something that is not there. `left` is a
touchpad that the firmware has left reporting, `sleepLost` a last sleep command that failed. `PowerTree` also
means that the driver is off when the controller goes off, and the controller on when the driver comes on.

### ELANReport

A step of a thread is one access to a field of a transducer, because nothing is locked: `MarkContact` the stores before
`reportContact`, `TakeX`, `PutX`, `TakeY`, `PutY`, `PutTip` its three `update` calls, arguments and store apart,
`NextFinger`, and `SendEvent`. `finger_data` advances with the contacts, not with the fingers. The coordinates are
put together from the bytes as in the source, `Movement` of the trackpoint with its complemented sign bits. `lone` and
`before` are history: a thread that has met no other one, and the transducers when it started. `Decoded` is the
reference: what a report means for a finger, with the position of its data from the number of contacts before it.

## 3. Runs

| Run | Question | Bounds |
| --- | --- | --- |
| `I801Concurrent` | What holds of the driver as it is, whatever interleaves, and what does a call that meets no other get? | three calls, one from a notify thread, a block read and a send byte, one retry, time-outs |
| `I801Power` | And with power cycles? Do calls behave as the life cycle takes them to (`GateCalls`)? Does a call that meets no other return? | two calls, unlimited power cycles, time-outs that may come or not |
| `I801Serial` | Does the serialized driver implement `SMBusTransfer`? | three calls, time-outs, power cycles |
| `I801SerialLive` | Without time-outs, does every call return, is a request or the block buffer disturbed? | three calls, block read and block write |
| `OwnAnswer` | Does a read return its own answer? **No.** | two calls |
| `LostWakeUp` | Does every call return with the `commandSleep` of the source? **No.** | two calls |
| `I801ByteByByte` | Are blocks moved whole, within bounds, to an end? | blocks of up to 4 bytes, lengths 0 to 5 from the device, any number of operations, failures, time-outs |
| `ELANInput` | What do the filters and the scrolling mode guarantee? | two threads, two key presses, two ticks beyond the timeouts |
| `ELANTyping` | Does a key press close the typing filter? **Not always.** | one thread, one key press |
| `ControllerLifecycle` | What may a teardown pull away, and from whom? What does a failed start leave? Does a teardown end? | one call of `getWorkLoop` beside `start`'s, two work loops, one call of `transfer`, unlimited power changes |
| `ELANLifecycle` | What is used before it is made or after it is released? Does the touchpad sleep, wake, get initialised? | two notify threads, two tries, a power tree |
| `ELANReport` | Does an event say what its report says? Is every finger on the pad? | two threads, two fingers, nine reports |

Two calls are enough for every interference between a pair; the third makes a call wait for
the gate while two others meet. One retry reaches both branches of the loop; `retries` is 3 in
the code, and nothing depends on the number (the proofs are for any). A block read
and a send byte (no data registers, no buffer) differ in everything the driver distinguishes;
the run about data uses block writes. Initial states cover flags and a PEC error left by the BIOS
and two values of the uninitialised `adapter->status`. `CHECK_DEADLOCK` stays on
but in the two life-cycle runs, whose drivers end, stopped, refused or with a fault: elsewhere the touchpad may always
notify, a transfer start, a keyboard switch the touchpad. Four bytes have a first, a
last and two in the middle; 0 and 5 stand for every illegal length. The counter
`moved` is bounded by the block size plus one (one byte too many is enough to be
discarded). Two ticks after start let a report lie inside, at the edge of and
outside the timeouts of 2; two threads meet in every way two threads can, and which of
them is lone does not depend on more. Two key presses can be told in the wrong order, and one of them be told
too late. `ELANInput` has a view (`Live`): it leaves out local variables that nobody will read again.

One other caller is enough to meet `start` in `getWorkLoop`, to find the marker, and to allocate a second time after a
failure; the second work loop is the last that any interleaving can make of two calls. One call of `transfer` can be a
notify thread or the touchpad driver's own and be caught at each stage of the teardown; two at once matter on the wire,
which is `I801Controller`. Two tries reach both branches of the retry loop (10 in the source, any number in the
proof). Two fingers are one with a contact before it and one without; the reports have no contact, one on either
finger, two, the first or both over the maximum, the corner of the pad, both signs of a movement, and a wrong length. The
life-cycle run of the touchpad is for `PowerTree`; without it the safety properties are proved.

What they show. Interleaved as it is, the driver never counts a transaction
as successful before it is over, never mistakes an old flag for a new one at the start,
never leaves the block buffer on, and starts nothing but retries behind a disabled gate. To a call that
meets no other inside the gate it keeps every promise of `SMBusTransfer`, whatever other calls do to each other, and it
returns (`LoneCallReturns`).
What it does *not* do is give each call its own result when they meet. The counterexamples:

* `OwnAnswer`: A's transaction has failed and its interrupt is pending. B enters the gate,
  `i801_check_pre` clears A's flags, B is started and succeeds; its wake-up wakes both, and
  A takes B's status: success, with data that is not its answer.
* `LostWakeUp`: A is woken but not resumed. B gets the gate first, starts, and ends with the
  same flags. A resumes, and `i801_check_post` writes its flags to `SMBHSTSTS` again: B's are
  cleared before the handler has seen them. B sleeps for ever.
* `ELANTyping`: a key press between the thread's reading of the clock and its reading of
  `ts_last_keyboard` makes the difference wrap, and the touch passes.

What the typing filter does give (`KeyPressDeactivates`): a report read within the timeout of any press the driver knows of when the
report is in the filter is dropped, unless one of these presses is later than the report's own reading of the clock (that is
`ELANTyping`). It does not know of a press whose message is late, and has forgotten a press whose message was
followed by one about an earlier press; nothing in the source can help that.

The life cycles show which teardowns are safe and what an unsafe one needs. `MisuseHasACause`: if `stop` finds no call, no
transaction, no notify and no power change under way, and none comes up, nothing is used after it is gone. Otherwise
each loss has its cause: a transaction that ends between `command_gate = NULL` and `interrupt_source->disable()`
has the handler wake sleepers through `NULL`; a call asleep at `stop` goes on in a gate that is gone; a notify in
progress starts a thread on a nub that `flushCollection` frees; `setPowerState` finds its gate gone because
`PMstop` comes last. `FaultHasACause` is the same for the touchpad driver: beside the teardown, the causes are
a touchpad that the firmware left reporting (host notifies are on before `start` has made anything), an interface
that could not be allocated, whose results nobody looks at, and a power change before `start` is over (`early`):
`setPowerState` may have enabled the touchpad before `start` has made what a report needs. `NubKept` holds only because two mistakes cancel:
`publishNub` keeps a reference it should give back, `ELANTouchpadDriver` drops one it never took.

Disagreements seen while modelling that have no run of their own:

* Line 398 of `ELANTouchpadDriver.cpp` says scrolling is disabled "always when middle button is released", but a
  release that the filters drop leaves `trackpointScrolling` on. `ScrollsWithMiddleButton` shows that this stays
  without effect on reports that come one at a time.
* Two block calls at once: the one that finds the bus busy returns `EBUSY` and turns the block buffer off
  under the other's transaction (`i2c_i801.cpp:654`; line 485 says the buffer is used "to process this transaction").
  `BlockBufferOnInFlight` therefore speaks of calls that have met no other.
* A block call asleep when the system goes to sleep leaves the buffer on, although lines 650-652 turn it off because of
  BIOSes that do not like it "at reboot or resume time": `setPowerState` does not wait for the call.
* The byte-by-byte path passes a local `status` to `i801_check_post` that was never assigned (`i2c_i801.cpp:420`), so its
  result has nothing to do with how the transaction ended. `ReadIsWhole` and `WriteIsWhole` are about the
  data, which does not depend on it.
* A disabled SMBus or SMI mode makes `start` return with the PCI device open and retained (`StartRefuses`), and the work
  loop of a driver that was up keeps one reference (`LoopCounted`).

Serialized, all of it holds, and the driver implements `SMBusTransfer`: this is the argument
for holding a lock over the whole of `transferGated` (or waking and checking per call).

## 4. Fairness

`Fairness` gives weak fairness to each thread inside the gate, to the end of a transaction (SMBus bounds how long a slave may take) and to the
host-notify half of the handler. The completion half gets strong fairness: the handler returns
after a host notify without looking at `SMBHSTSTS`, so a completion is only served when no
notification is pending; the touchpad sends one every few milliseconds at most, and the
interrupt, a level, fires again. Waiting for the gate needs only weak fairness because there
are finitely many calls and each leaves the gate after finitely many steps. In `I801ByteByByte`, interrupts are
served, a woken thread runs, and the host goes on with a message; failures and time-outs
are never owed. Nobody has to
make a call, to notify, or to wake the system; `EveryCallReturns` and `LoneCallReturns` except a system that is off. No time-out
is owed anywhere: `commandSleep` is given no deadline. So a call returns by way of its own transaction, interrupt and wake-up or
not at all: `LoneCallReturns` says that it does if it meets no other, `I801SerialLive` that every call does if none meet, and
`LostWakeUp` that one that has met another may not.

In `ControllerLifecycle` the handler runs when an interrupt is pending (weak), and the teardown, which waits for the work
loop's lock in `removeEventSource`, gets strong fairness: a handler that is triggered again and again lets it go in
between, and IOKit's lock is given to those who wait. In `ELANLifecycle` the transfers of `tryInitialize` and of the sleep
command return while the gate is enabled, and `setPowerState` goes on when they have; that they return is what
`LoneCallReturns` says of the controller, and `LostWakeUp` when it does not. Nothing obliges the power to be
changed, a touchpad to notify, or `stop` to be called.

The safety halves of the liveness properties are proved, for every value of the constants; fairness only has to add that
the steps are taken. `EveryCallReturns` of the controller: no step takes a call back, and each one that moves it brings it
nearer to its return, at most `5 * Retries + 7` of them (`CallsAdvance`); and a sleeper that has met nobody has a transaction
on the wire or flags pending (`WakeUpIsComing`), which is what `LostWakeUp` shows to fail for those that have. The same of
`I801ByteByByte`: `SleeperIsServed`, and every interrupt and host step brings the end nearer (`SleepAdvances`). `PowerChangesEnd`: a transfer, failed or not, is a step
forward (`InitializationAdvances`); that the gate is enabled when the touchpad driver needs it is what `PowerTree` means. `ReleaseEnds` is about waiting for a lock only and has no such half.

## 5. Proofs

`I801ControllerProofs` proves `Spec => []IInv` for every set of calls, any number of retries and
either value of every switch. The safety properties are not inductive alone:
`SuccessAfterCompletion` needs that a wake-up finds no transaction open, which needs that the
host executes exactly the transaction that `bus` calls open (`OpenIsInFlight`), that a
sleeper has been started (`SleeperHasStarted`) and that flags and a running transaction
exclude each other (`FlagsAreOfThisTransaction`). `StalePecErrorNotBlamed` needs that a start
clears `CRCE`; `OffStartsOnlyRetries` that the gate was free when it was disabled (`OffMeansRetry`). There is one lemma per group of conjuncts, one step per action.
`CallsImplementGateCalls` maps every step to one of `GateCalls` or to a stutter; it needs of the invariant that no call in front of the gate has
had a transaction and every call inside a disabled gate has (`NotStarted`, `OffMeansStarted`), that a transaction on the wire will
interrupt (`HostInterrupts`), and the conjuncts above.
What the abstract module promises is proved of it once (`Relied`) and carried over by the refinement:
`SleeperOwnsTheWire`, `ClosedGateKeepsQuiet`.

`I801SerializedProofs` is about the driver as it is first: `OverlapSpec => []LoneInv`. `LoneInv` follows a call that has met
nobody through its stages: a sleeper either is in flight or its flags tell its transaction's outcome, with the answer in the
registers (`SleeperWaits`); what a woken call finds in `status` is about itself (`WokenIsTold`); so is its result
(`ResultIsTrue`), and so is what it returned (`SuccessIsTrue`). `AloneInside`, that whoever is inside with it would have met it, is what
keeps other calls out of these facts, and every one of them has to survive the steps of calls that *have* met, at any stage, which
is where time-outs matter: one of those may leave its transaction on the wire. From `LoneInv` follow
`WakeUpIsComing`, `BlockBufferOnInFlight`, `LoneSendsOwnRequest` and, step by step (`SharedStep`), `DriverImplementsShared`;
from that, with an invariant of the abstract module (`SharedInv`), `ResultsHold` and `NothingSentTwice` of the driver. The serialized
driver is a special case: `SerialInv` is `LoneInv` with one call inside and `met` empty, and gives `ReadsOwnAnswer`,
`SendsOwnRequest` and `ImplementsTransfer` for every call.

`I801ByteByByteProofs` proves the invariant for every block size. `ReadIsWhole` is not inductive: `ReadProgress`
and `WriteProgress` say, between any two interrupts, that `count` is the number of bytes the host
has moved less the one that `BYTE_DONE` still announces, that the block is filled so far and no
further, and that `LAST_BYTE` is one byte ahead; `TypeOK` has `count <= len <= I2C_SMBUS_BLOCK_MAX`, so
no interrupt writes outside the block whatever the device claims.

`ELANInputProofs` proves the invariant for any number of threads and key presses. The key is the order of the time
stamps: `LatestPress` (`ts_last_keyboard` is the latest of the presses the driver has been told of and not forgotten), `LatestMove` (it never falls behind a
lone thread's movement although racing threads may store older times over newer ones), `LoneStamp`
and `LoneOrder` (what a lone thread reads of the clock is between what was stored before it and
after it), and `Alone`.

`WorkLoopInitProofs` proves `LoopInv` for any number of callers: until `work_loop` goes back to `NULL`, whoever
allocates is alone and the marker is in `work_loop`, whoever has left the initialisation finds a work loop.

`ControllerLifecycleProofs` shows by refinement (`UsesWorkLoop`) that the driver's life is a behaviour of
`LoopSpec`, so that `OneWorkLoop` carries over, and proves `IInv` on top of `LoopInv`, one lemma per conjunct,
one step per action. What the properties need beyond themselves: how far `start` and
`releaseResources` have got in terms of the objects made (`SourcesFollowLife`, `PowerFollowsLife`), the exact number of
references to work loops and nub (`LoopCounted`, `NubCounted`), that nothing runs before there are event sources and that
what runs in a teardown ran when it began (`QuietBeforeAndAfter`), and what `SMBSLVCMD` holds (`NotifyKept`).
`CallsInv` (the call on the wire sleeps, an end is reported once, a driver that is off has closed its gate) is proved on top
of it, and from it `LifeImplementsCalls`: the second half of the interface, also through every teardown.

`ELANLifecycleProofs` proves `IInv` in a power tree and without one. `MembersFollowLife` is the state of the members,
`InitializersFollow` who is initialising and that tries are left, `SilentBeforeAndAfter` that no report comes where
none can be taken, `InitialisedAtLast` what the last to initialise has achieved.

`ELANReportProofs` proves `IInv` for any set of reports. `EventIsReport` needs, finger by finger and field by field, how
much a lone thread has written (`LoneWrites`), that the count is that of the contacts before the finger (`Counted`), and
`OnPad` that a value taken is on the pad and a contact over the maximum never gets that far (`WithinMax`, `ValueOnPad`).

Assumptions: those named in the modules (`CallAssumption`, ...), which TLC evaluates on every
run. `TypeOK`, `IInv` and the properties were model-checked before they were proved; those no run lists (`CallsAdvance`,
`SleepAdvances`, `InitializationAdvances`, `LoneSendsOwnRequest`, `OffStartsOnlyRetries`, `CallsInv` and the life cycle's
`ImplementsGateCalls`) by adding them to the configuration of the module's run, the last also with two calls in place of two
callers of `getWorkLoop`. Only model-checked: the liveness properties (`EveryCallReturns`, `LoneCallReturns`, `ReleaseEnds`, `PowerChangesEnd`), which are
beyond the prover, and the violations.

## 6. Not modelled, and the plan

Not modelled: the polling mode (dead code: `FEATURE_IRQ` is always set), quick, word and I2C
block transfers (no caller), logging, an interrupt line shared with other devices,
`THREAD_INTERRUPTED` from `commandSleep` (kernel threads are not aborted), the areas and pressure `reportContact`
computes and does not use, `Configuration` (two look-ups with a default, run once), `TrackpointDevice` (forwards to
IOHIPointing) and `VoodooSMBusIntelLpssI2C` (empty). `free` of the drivers is the end of the object: nothing that is modelled
comes after it.

The two models of the controller driver meet in `GateCalls`. The other modules are not composed, where their interfaces are
narrow: the byte-by-byte path and `I801Controller` (what
another call may do to a byte-by-byte transfer at `commandSleep` is what it may do to any), the two life cycles (each has
the other as a client, or a gate), the filters and the decoding (a report passes or does not).

What could be added: the byte-by-byte path inside `I801Controller`, so that a call may take it under
another's transaction; liveness of the filters (input comes back after the last key press), which needs fairness of
the touchpad that the source does not give; the I2C block form, should a caller appear.
