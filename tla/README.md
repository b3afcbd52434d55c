# Verification of the AU Teensy firmware

TLA+ models, TLC runs and TLAPS proofs for the Teensy boards of the vehicle. All
paths are relative to the repository's root, written `src/...` here and in
`PROJECT.json`. `driver/` stands for
`src/lib/libuavcan/libuavcan/libuavcan_drivers/nxpk20/driver/`, `dropper/` for
`src/src/dropper_torpedo/`.

## 1. The system

Every board is a Teensy 3.2: one thread that runs `loop()` for ever, interrupts that
preempt it (interval timers, the FlexCAN message interrupt), and a CAN bus on which
libuavcan speaks UAVCAN. A turn of `loop()` polls its inputs (`cmdPoll()` for serial
lines, `cycleNode()` for frames) and runs the board's own routines. There is no
scheduler and there are no locks except the interrupt mask that the CAN driver sets
around its rings. A watchdog restarts a board whose turn takes too long.

| Component | State | Operations | Talks to | What is hard |
|---|---|---|---|---|
| Torpedo firing, `dropper/torpedoControl.hpp` | state and pending `launch` of each torpedo, level of its solenoid pin, its fire timer | `armTorpedo`, `disarmTorpedo`, `requestLaunch`, `torpedoRoutine` (with `fireTorpedo`, `cleanUpTorpedoTimer`), `trpControl0/1` | commands by serial and CAN, parameters, LED alerts | timer interrupts between any two writes of `loop()`; commands in orders no test tries; a reset during a pulse; a pulse length the timer refuses |
| LED strip, `dropper/dropperTorpedo.cpp:99`, `ledIndicationControl.hpp`, `subscriber.hpp:36` | who owns the strip, strobe, wave timer | `indicatorRoutine`, `lightsControlCallback`, `setLEDColour`, `pulseLED` | torpedo states, battery and pressure alerts, parameters | alerts that start and end between light commands; strobe timer racing a later command |
| Battery and pressure status, `dropper/batteryStatus.hpp`, `pressureStatus.hpp` | last voltages, first pressure, alert | `storeVoltageInfo`, `checkVoltages`, `checkPressure` | CAN callbacks, LED strip | stale values, first sample as the reference, lost messages |
| Parameter store, `dropper/parameter.hpp` | table in RAM, copy in EEPROM | assign, reset, load, save | parameter server, serial commands, all routines | cut save, erased EEPROM or one of other firmware, unchecked type tag |
| Servos, `dropper/servoControl.hpp` | one `servoAngle` for twelve servos | angle command, status | CAN actuator commands, PWM driver | shared angle |
| CAN driver, `driver/src/FlexCAN.cpp`, `can.cpp` | two ring buffers, 16 mailboxes, interrupt flags | `write`, `read`, `message_isr`, `CanIface::send/receive`, `CanDriver::select` | the controller, libuavcan's I/O manager | interrupt against main thread, rings at their limit, flags cleared after the refill, deadlines |
| libuavcan I/O manager and queue, `transport/uc_can_io.cpp`, `can_io.hpp`, `uc_dynamic_memory.cpp` | queue of frames in the order of the bus, its quota, the node's memory pool | `send`, `receive`, `push`, `peek`, `remove` | CAN driver below, senders and dispatcher above | queue at its quota, pool empty, expiry, the interrupt that frees a mailbox between two offers |
| libuavcan scheduler, `node/uc_scheduler.cpp`, `uc_timer.cpp`, `transport/uc_dispatcher.cpp` | list of timers by deadline | `spinOnce`, `startPeriodic`, `pollAndGetMonotonicTime` | I/O manager, callbacks of the boards | a busy bus that keeps the loop of the dispatcher going |
| libuavcan transfers, `transport/uc_transfer_receiver.cpp`, `uc_transfer_listener.cpp`, `uc_transfer_sender.cpp`, `uc_outgoing_transfer_registry.cpp` | transfer identifier of the sender; interface, identifier, toggle, buffer and CRC of the receiver | `send`, `addFrame`, `handleReception`, `cleanup` | dispatcher | lost and late frames, copies of two interfaces, identifiers that wrap, time-outs on either side |
| libuavcan parameter server, `protocol/param_server.hpp` | (none) | `handleGetSet`, `handleExecuteOpcode` | parameter store | a request by name against a table read by position |
| Internal environment board, `src/src/internal_env_board/` | running averages, last sensor bytes, LCD counter | measure, average, publish, display | I2C sensors, CAN | stale sensor bytes, restart between two messages |
| Battery monitoring, `src/src/batt_monitoring/` | sample queue and its sum, publishers | `push`, `getAveragePower`, publishing | CAN | integer queue against float sum, publisher pointers |
| Node glue and watchdog, `src/lib/libuavcan/teensy_uavcan.hpp`, `src/lib/watchdog/watchdog.h` | start of the cycle | `cycleNode`, `cycleWait` | every loop | time left may be negative |
| Serial line editor, `src/lib/CmdArduino/Cmd.cpp` | line buffer and index | `cmd_handler`, `cmd_parse` | serial commands | buffer limit |
| PWM driver, device libraries, example boards, other CAN drivers | registers | I/O | I2C, pins | (pure I/O, or unused) |

What makes the main ones correct:

* *Torpedo firing*: a solenoid is energised only in a shot, each shot has an arming of its own,
  a timer never outlives its shot, a request is neither lost nor left over, every shot ends.
* *LED strip*: one owner at a time, the documented priority, the strip given back, pulses that end.
* *Parameters*: a completed save or erase lasts, a cut one damages one entry, a request by name changes what the
  firmware reads by position.
* *CAN driver*: no frame lost, doubled or reordered by the driver's own doing; the
  transmitter never falls asleep with frames in its ring.
* *I/O manager*: what waits is in the order of the bus; a frame is sent once or counted as rejected; the
  least one is given up first; what waits is drained even by a thread that only receives.
* *Transfers*: delivered unchanged, at most once from an interface, mixed no more than the driver mixes frames (in
  order with one transmit mailbox), and delivered if they came whole.
* *Pressure*: an alarm has a real drop behind it and follows a pressure that lasts.

`PROJECT.json` lists every hazard found, at its line, with the properties that
cover it or the reason why none does.

## 2. Modules

| Module | Models |
|---|---|
| `TorpedoControl` | torpedo firing of the dropper/torpedo board, with loop, interrupts, commands, resets |
| `TorpedoOneShot` | abstract specification: the lock-out of one solenoid |
| `LedIndicator` | ownership of the LED strip, alerts, strobe and wave timers |
| `ParamStore` | the parameters in RAM and EEPROM of the dropper/torpedo board, and of the example board |
| `LeakAlarm` | the hull pressure from the sensor of one board to the alarm of the other |
| `PowerMonitor` | the average power of the battery monitoring board |
| `CanRing` | `ringbuffer_t` as pure operators |
| `FlexCan` | rings, mailboxes, `message_isr()`, `send`, `receive`, and the controller as environment; extends `CanRing` |
| `TxWindow` | abstract specification of its transmit side: a window of as many frames as there are mailboxes |
| `CanTxQueue` | order, choice and expiry in libuavcan's transmit queue, as pure operators |
| `CanNode` | a libuavcan node: scheduler, dispatcher, I/O manager, queue, quota and pool, timers, over the driver; extends `CanTxQueue` |
| `TransferReceiver` | `TransferReceiver::addFrame()` and what it calls, as operators on a record |
| `TransferLink` | sender with its registry, lossy interfaces, listener with the receiver; extends `TransferReceiver` |
| `LossyLink` | abstract specification: transfers may be lost, and are otherwise delivered unchanged, once from an interface and within the window of its driver |
| `TorpedoControl_proofs`, `LedIndicator_proofs`, `ParamStore_proofs`, `CanRing_proofs`, `FlexCan_proofs`, `CanNode_proofs`, `TransferLink_proofs`, `LeakAlarm_proofs` | theorems |
| `MCTorpedoControl`, `MCLedIndicator`, `MCParamStore`, `MCFlexCan`, `MCCanNode`, `MCTransferLink` | constants and symmetry for TLC |

How they fit: `CanRing` is inside `FlexCan`, which implements `TxWindow`; `CanNode` stands on the part of the
driver that `TxWindow` and the ring promise (a ring and some mailboxes); `TransferLink` stands on
interfaces that lose frames (in `CanNode` they expire or are displaced, on a bus they fail), delay them, and mix as many as the
driver has transmit mailboxes, which is what `TxWindow` allows: a frame is sent only while fewer than `numTxMailboxes`
older ones are pending. A frame that overtakes those in libuavcan's queue as well (finding `can_reorder`) makes this window wider by the quota of the queue; the theorems of
`TransferLink` hold for any window, the run has two.
`LeakAlarm` stands on messages that may get lost, which is what `LossyLink` allows; its alarm is an
input of `LedIndicator`, like the torpedo states of `TorpedoControl`; `ParamStore` decides what the parameters are
that both of these take as inputs.

### TorpedoControl

`pc` is the place in `loop()`: `indicator`, `routine` (with `i`, the torpedo that
`torpedoRoutine()` visits), the writes of `fireTorpedo()` and of the ARMED case one by one
(`fire`: pin; `clearLaunch`; `begin`: timer; `mark`: state = FIRING), `cleanUp`, `serial`, `spin`.
`state`, `launch`, `pin`, `timer` are indexed by torpedo; `actId` and `pulse` are the
parameters that the component reads; `refused` is a history variable for one property: the pending request was reported as
"Unable to fire" by `torpedoRoutine()`, and none came since.

* `trpControl(t)` may happen between any two writes while `timer[t]`: the interval timer is periodic.
* The clean-up is one step: its guard (`pin` low, no `launch`) is read in `CheckPulseOver`,
  and after `end()` no interrupt can come.
* Commands act in `serial` (one torpedo by number) or in `spin` (every torpedo whose actuator id matches:
  ids are parameters and may coincide). They are not split, because they touch only torpedoes whose timer is off
  (`TimerOnlyInPulse`, proved).
* `~launch` on a `bool` is promoted to `int`, so `BitwiseNot` yields TRUE for both values.
* `pulse \in UsablePulses` is what `IntervalTimer::begin()` accepts; its result is ignored by the code.
* `Reset` is a watchdog, power or remote restart at any step. It reloads any parameters.
* Left out: `changeInterval()` (no caller), messages, and the strip (`LedIndicator`).

### LedIndicator

One step per `indicatorRoutine()` and per callback, for they run in one thread and the interrupt
of the wave timer only advances the brightness. `enableExternalLEDActions` is the owner,
`shown` what the strip was last set to (a pattern, `steady`, `pulse`, `off`), `sinWaveTimer` the
period of the wave timer, `strobeActivated` and `elapsed` the strobe. Voltages are kept as the
thresholds tell them apart. A light array is its commands one after the other. Torpedo states
move freely, a superset of what `TorpedoControl` does. Left out: colours, `activateStrobe()`,
`resetAlert()` (no callers).

### FlexCan, CanRing and TxWindow

The main thread masks the interrupt while it works on a ring, so `send` and
`receive` are one step each and need `~isr`; `message_isr()` is one step on entry (copy of IFLAG1), one
per mailbox and one on exit (the bits of the copy are cleared). The controller is external:
`TxDone(m)` ends the frame of any transmit mailbox, `RxArrive` files a frame in the first
free receive mailbox or overruns the last. A frame is its number. `written`, `arrived`, `sent`, `got`,
`lost` are history, and so is `slow`: did a mailbox ever end its frame while `message_isr()` still held that mailbox's
flag, or a frame arrive while it ran? The code RX_EMPTY stands for "free to receive" (a
mailbox that was read keeps the code FULL in the hardware but counts as free). Filters accept everything, as the boards configure them.
`TxIsWindow` maps the pending frames of `TxWindow` to those in the transmit mailboxes and in the ring.
Left out: listeners and per-mailbox rings (no board uses them), `end()`, bit timing, pins, statistics (never enabled).

### CanNode and CanTxQueue

One thread: `pc` is the place in it. `app` is the application between two calls, `select` the start of
`CanIOManager::receive()`, `read` its read part, `handle` the callbacks of a received frame, `poll` the loop of
`DeadlineScheduler`, `timer` a timer's event; `peek`, `head`, `offer`, `push`, `cleanup` are the steps of `send()` and
`sendFromTxQueue()`, split where the thread reads something that the interrupt or the clock can change: each offer to the driver
is one step (the driver masks the interrupt), each reading of the clock another. `send` may be called from
`app`, `handle` and `timer`, and `caller` remembers where to return. `Others` is what receivers take from and give back
to the pool. `used_blocks` is the quota's own count, which is not always the length of the queue (finding `quota_leak`).
The priority of a frame is one number, which is what `CanFrame::priorityHigherThan()` makes of the identifier.
Of the driver, ring and mailboxes are kept; a mailbox sends its frame when the bus lets it (`TxDone`).
Timers are periodic; they are re-inserted before their event, as the code does.
Left out: a second interface and deadlines for blocking (no board has them), loopback, the free list of the pool.

### TransferReceiver, TransferLink and LossyLink

A frame is the transfer `n` it belongs to, its place `k` in it, and the bits of its tail byte. `TransferReceiver` is the code of
`addFrame()` case by case; `mem` says whether there was memory (any choice), `switch` whether the interface switch
delay has passed (any choice once some time has, because the delay follows the measured interval of transfers). The CRC is ideal: it tells a transfer from
any mixture (`Garbage`). Ages replace timestamps and stop at what the code compares them with, so time has no bound.
`registryCleanup` is the expiry of the sender's entry, after which identifiers begin again with 0; `cleanup` is that of the receiver.
`send` is the code's, without a guard of its own; `publish` is what calls it: a burst of transfers of the kind at once, as the four
`BatteryInfo` of `cyclePublisher()`, and one in a unit of time on average (`credit`, which comes back with the clock). `Nodes` are the drivers that
are considered: a number of transmit mailboxes and the interfaces of the board. An interface loses any frame, delays it by `MaxLag` at most, and brings any
of its first `numTxMailboxes` frames next (`Window`). The boards have two mailboxes and one interface; the receiver's rule for redundant interfaces is
checked with drivers that keep the order.
`top` and `heard` are history: the latest transfer of which a frame came before an older frame, and what an unbroken reading of one interface would have, a
transfer whose first frame was overtaken by a later transfer excepted. `got` is what each interface delivered. Left out: several senders (each has its
receiver), anonymous transfers, marshalling.

### LeakAlarm and PowerMonitor

`LeakAlarm`: `sample` is a turn of the measuring board in which its `Metro` timer is due (reading, averaging, publishing
are one thread); `pressureInfoCallback` is the other board's `checkPressure()`. `answered` says
whether the sensor did: if not, the old bytes are averaged again, zeroes after a restart. `lose` loses a
message, each board may restart. `highest` and `drop` are history. Averages are of whole numbers.

`PowerMonitor`: powers are tenths of a watt, `Stored` is the conversion to `int` that `Queue` makes. `getAveragePower`
rounds down, which only lowers what the finding says is too high.

### ParamStore

The firmware reads its parameters by position, requests set them by name, and the names are in the table that
`EEPROM.get()` loads over the defaults. So an EEPROM that was never written, or was written by firmware with another
order of parameters (`Flash`, `Layouts`), decides which position a request reaches. Readme.md:94 of `dropper/` asks
for an erase in these cases; `initialised` remembers that it was completed. `EEPROM.put()` is external: it
writes entry after entry (`put` is the next one), and a `Reset` may cut it inside one, whose name and value
are then any mixture where the old and the new differ (`Cut`). `Junk` stands for a name or value that nobody chose.
An assignment of another type dereferences a null pointer: it stores `Junk`, or the fault ends in a `Reset`. A request
by index is one for the name found there. The example board keeps its names in the code, looks at the
type, and its erase does not write the EEPROM: `StoresNames`, `ChecksTag`, `EraseWrites`. Left out: entries 26 to 63 of the
table, which nothing reads. `goal`, `old`, `erased`, `initialised` are history.

## 3. Runs

Passing runs:

| Run | Bounds | Distinct states | Shows |
|---|---|---|---|
| `torpedo` | 2 torpedoes, 2 ids, one usable and one unusable pulse | 10,680 | `HighOnlyInPulse`, `TimerOnlyInPulse`, `NoRequestInPulse`, `RequestConsumedByFiring`, `TimerBehindPulse` with interrupts and resets anywhere; `OneShot`, the refinement of `TorpedoOneShot`; a pulse ends (`FiringEnds`, `OneShotEnds`) and a request is served unless disarmed (`RequestServed`), as long as the pulse is usable |
| `led_alerts` | 1 battery, pressures 0, 1, 2 with threshold 1 | 185,856 | `OneOwner`, `WaveFitsPattern`, `PriorityKept`; `PressureIsShown`, `GivenBack`, `PulseEnds` |
| `param_store` | 3 parameters, 2 values, 2 orders | 366,130 | `SetReachesReader`, `SaveSurvives`, `OneCut`, `EraseIsDurable` |
| `flexcan` | 2 mailboxes each way, rings of 2 slots (one frame), 4 frames out, 3 in | 274,017 | `TxIsWindow`, the refinement of `TxWindow`, also with a slow interrupt; `TxNeverStalls`, `RxInOrder` through ring overflow and overrun; `AcceptedIsSent` |
| `can_node` | quota 2, pool of 2 blocks shared with receivers, 1 mailbox, ring of 1 frame, 4 frames of two kinds (one expires after 1 unit), 1 frame waiting to be read, 1 timer, clock to 2 | 487,353 | `QueueInOrder`, `Accounted`, `LowestDropped`; `Drained` |
| `transfer` | 5 identifiers, beginning with 3; one interface with 2 mailboxes, or 2 (symmetric) with 1; transfers of 1 and 2 frames in bursts of 2, lag 1, receiver time-out 1, registry entry 3, 4 transfers | 333,724 | `DeliversAsSent`, the refinement of `LossyLink`; `IntactIsDelivered` |
| `leak_alarm` | 3 pressures with threshold 2, 3 samples to a message, 1 message on its way, 1 restart | 50,658 | `AlarmIsFounded`; `AlarmFollowsHull` |

Each also checks its module's `TypeOK`.

Runs that find a disagreement (each checks what a comment or document says; see `findings`):

| Run | The document says | The code does |
|---|---|---|
| `torpedo_stale_launch` | a request in READY is refused: "Not ARMED. Unable to fire." (torpedoControl.hpp:130) | `launch = ~launch` (torpedoControl.hpp:131) leaves the request set. A torpedo is armed, asked and disarmed; a turn finds it in READY and refuses the request; then it is armed, and the next turn fires the request that was refused |
| `led_continuous` | id 0 is continuous control | a colour set after a pulse is turned off when the pulse's interval passes |
| `can_reorder` | the "or equal" test avoids reordering of frames (can_io.hpp:111) | the head of the queue is refused by a full driver, the interrupt frees a place, and the new frame of the same priority is offered next and accepted: it overtakes |
| `quota_leak` | `push()` finds no block when there is "no memory left in the pool" (uc_can_io.cpp:123) | each allocation that the pool refuses is counted against the quota for good; `push()` then gets no block from a pool that has some |
| `power_drift` | the published value is the average power of the last 10 seconds | the float sum loses only the whole watts of the samples that leave, so that the average rises above every power measured |

Why the bounds are enough. Two torpedoes are what the board has, and they interact only through
coinciding ids. A ring of 2 slots can be empty and full, and its indices wrap with every second frame; the frames are enough for
both rings and all mailboxes to overflow; two mailboxes of a kind are
the fewest whose order can differ (the board sends with 2). No property
compares batteries; with three parameters a cut has entries before and after it, and two of them can change
places while the third stays; three pressures of the LED run allow the baseline 0 ("no baseline yet"), a drop, and no
drop. In `can_node` driver and queue hold four frames between them, one more than the pool and quota let wait, so that refusal, expiry,
displacement in both directions and a counted but refused block all happen; the clock lets a frame of one kind expire in each place. In `transfer`
identifiers wrap after the second transfer and the expiry of the entry takes them back to 0, a burst can be wholly in the mailboxes so that any two frames
of its transfers change places (the last of one and the first of the next, or two whole transfers), and every time-out of either side can pass between any
two transfers. With `Pressures` 1, 2, 4 and averages of three samples an
average can fall on either side of the threshold and between the pressures. The theorems of section 5 do not depend on the bounds.

`TransferLink` assumes what the protocol rests on, as the named assumption `TransferLinkAssumption`. In a unit of time one transfer of the kind is sent on average, and
`Burst` at once at most. Then

* `TidTimeout + MaxLag + Burst < TidCount`: fewer than all identifiers pass in the time in which an old frame or an old receiver may still be there;
* `MaxLag + Burst <= TidCount - Half`: a change of the interface, which is judged by half the ring of identifiers, tells new transfers from old ones;
* `MaxLag <= TidTimeout`, and `Lifetime > TidTimeout + MaxLag`: the entry of a sender outlives the receivers' time-out by more than the lag.

In the code there are 32 identifiers and a time-out of 1000 ms, and an entry lives 2000 ms more than the transmission deadline. The battery board sends four
`BatteryInfo` a second: with a unit of 250 ms, `Burst` is 4, the time-out 4 units, and all of this holds for a lag of up to 4 units, one second, several orders above the time of a
frame on the bus.

`CHECK_DEADLOCK FALSE` is in `flexcan`, `can_node`, `can_reorder`, `quota_leak`, `transfer` and `power_drift` only: there the bounds on frames and
time stop the model. The other modules cannot stop.

## 4. Fairness

* `TorpedoControl`: weak fairness of the loop's own steps (`Advance`: `loop()` is called
  for ever, and `cmdPoll()` and `spinOnce()` return once the bytes and frames they found are used up) and of
  each `trpControl(t)` (a running interval timer interrupts). No input has fairness.
* `LedIndicator`: weak fairness of `indicatorRoutine` (once per turn) and of `Elapse` (time passes).
  `PulseEnds` allows that light commands never stop: each pulse command restarts the interval.
* `FlexCan`: weak fairness of `message_isr` (a pending interrupt of the highest priority is
  served and returns) and of `TxDone` (the controller sends what is in its mailboxes: other nodes do
  not occupy the bus for ever). `send`, `receive` and arrivals have none.
* `CanNode`: weak fairness of `Thread` (the thread goes on; sending is not part of it), of `TxDone` and `message_isr` as above, and of `Tick`.
  Arrivals and `Others` have none, so that `Drained` also holds when there is always a frame to read.
* `LeakAlarm`: weak fairness of `sample(TRUE)` (the `Metro` goes off again and again and the sensor answers now and then) and strong
  fairness of `pressureInfoCallback` (of infinitely many messages not all are lost). Nothing keeps messages from being lost in between.

## 5. Proofs

All theorems are for every value of the constants that the named assumptions allow.

**TorpedoControl** (`TorpedoAssumption`: at least one torpedo, defaults in range). The inductive
invariant `IInv` is `TypeOK`, `StepInv` (what holds of torpedo `i` at each write of
`fireTorpedo()` and at the clean-up), `HighOnlyInPulse`, `TimerOnlyInPulse` and `NoRequestInPulse`.
`StepInv` is needed because the three properties allow exceptions at exactly those steps: it says that the torpedo is
still ARMED with its timer off until it is marked, and that the clean-up finds the pin low and no request.
Theorems: `TypeCorrect` (with it, DISCHARGED is dead code), `PinSafety`, `TimerSafety`, `RequestSafety`,
`RequestKept` (action property), `PulseHasTimer` (`TimerBehindPulse` under `PulseValues \subseteq UsablePulses`; with an
unusable value it is false, see the hazard at torpedoControl.hpp:69), and `Refinement`: every step is a step of `TorpedoOneShot` or a
stutter under the mapping `phase`.

**CanRing**. No assumption but a positive size. `Wrap` and `After` replace `%` by a case
distinction; `AddType`, `RemoveType`, `CountType` type the operations; `Slot`, `AddCount`, `HeadSlot`, `NextSlot`
relate slots to positions. `AddAppends` and `RemoveTakesFirst`: with `entries(ring)` the sequence a ring stands for, adding to a
ring that is not full appends, removing from one that is not empty takes the head.

**FlexCan** (`FlexCanAssumption`). `IInv` is `TypeOK`, `Quiet` (outside the interrupt its copy of the
flags is empty) and `TxNeverStalls`. `TypeCorrect` holds however slow
the interrupt is. `NoStall`: if the interrupt was never slower than the bus, some mailbox is still sending, or has an
interrupt to come, whenever the ring is not empty. Without that it is false: a mailbox that is refilled in the interrupt
and ends its frame before the exit loses its flag (FlexCAN.cpp:1276). At 1 Mbit/s the shortest frame takes 47 us.
`WindowRefinement` needs no such condition: `Ascending` says that the frames of the ring are in ascending order and above those of the
mailboxes, which all differ, so that a frame leaves one place only, and only frames of the other mailboxes are older than the
one that is sent. `ReceivesInOrder` is about the other direction, again for an interrupt that is shorter than a frame (`RxInv`): what was read, then the
receive ring, then the full mailboxes in the order of their numbers are one ascending sequence (`OrderInv`), in which only lost frames are missing (`Complete`). It rests
on `FiledInv`: mailboxes are filled and emptied from the first on, and nothing arrives while the interrupt empties them. With a slow
interrupt a frame may be filed in a mailbox in front of an older one.

**CanNode** (`CanNodeAssumption`). `QInv` says that the queue is sorted, that a frame in the hands of `send()` is younger than all that
wait (`Older`), and that there is none elsewhere. `QueueOrder` follows from it, with lemmas about insertion (`InsertSorted`), removal
(`RemoveSorted`) and the expiry of a prefix (`SuffixSorted`). `DropsLowest`: a step that drops a frame before its deadline drops one
that `NotBetter` puts below every frame that stays, because the order of `LowestQos` is total. `FramesAccounted`: `AInv` says that the frames held by the node and
those given to the driver are disjoint and no identity is ahead of `handed`; a sorted queue has no frame twice, so that k entries dropped are
k frames, and each step is a `Moves(S, G, N)` (drop S, give G to the driver, take N from the caller) that counts S. `TypeCorrect`: `ThreadInv`, `MemoryInv` and
`DriverInv`; the length of the queue is at most the quota's count, which may be more. `EarliestTimer`: the list of
timers stays in the order of deadlines (`TInv`), so that no timer waits while a later one is handled (`EarliestFirst`, which has no
run: with a single timer, as in `can_node`, it would say nothing).

**LedIndicator** (`LedAssumption`). `IInv` is the types, `OneOwner` and `WaveFitsPattern`; the last
two need each other, because the strip is given back according to the owner and the timer is judged by the
pattern. Theorems: `TypeCorrect`, `StripHasOneOwner`, `WaveTimerFits`, and `FirstAlertWins`,
which needs `OneOwner` to see that a strip without alerts shows no pattern.

**ParamStore** (`ParamAssumption`: the names of a layout differ, defaults in range). `IInv` is `TypeOK`, `PutInv` (the
EEPROM is new before the entry that is being written and old from it on, and the table in RAM stands still),
`NameInv` (after a completed erase both tables hold the firmware's names in place, and an erase in progress writes them) and
`EraseInv` (after an erase the defaults are in RAM and are what was to be written). `SetReachesReader` needs
`NameInv` of both tables, because a restart loads one over the other. Theorems: `TypeCorrect`, `SetReaches`, `Survives`, `CutsOnce`, and
`EraseLasts` for boards whose erase writes the EEPROM.

**TransferLink** (`TransferLinkAssumption`, section 3). Identifiers are positions on a ring (`DistanceTells`, `DistanceGrows`, `DistanceShrinks`,
`DistanceBetween`): transfer n has the distance `sent + 1 - n` to the sender's next identifier, without wrapping, as long as one of its frames is on its way, because
what the publishers may still send (`credit`) bounds what they have sent since. So has a receiver that has not timed out, of which `Expected` is the transfer that its identifier means. The inductive
invariant `IInv` is `Typed` and:

* `BusInv`: the frames that wait on an interface are in order, each with the identifier, toggle and ends of its transfer, and no younger than what was sent since;
* `RecvInv`: toggle and position agree, and what the buffer holds was sent;
* `LiveInv`: the interface of a receiver that has not timed out brings neither an older first frame, other than of a transfer that was overtaken, nor again the one that was begun;
* `OrderInv`: with one mailbox nothing is overtaken, and a receiver that has not timed out expects a transfer later than all that were delivered;
* `AgeInv`: once a receiver has timed out, no frame is on its way of a transfer that was delivered, of one in its buffer, or of one being heard. `Settled(n)` says so for
  every age: frames of n and before are at least as old as what the receiver began;
* `HeardInv`: of a transfer heard on the receiver's interface without a gap, the receiver has everything;
* `OnceInv`: the last frame of what an interface delivered is not on its way there any more;
* `WindowInv`: the older transfers that an interface delivered after a transfer, or may still deliver, are fewer than the mailboxes.

`LiveInv` is false for a timed-out receiver, whose identifier may mean any transfer; that it does no harm is what `AgeInv` is for. A restart on another
interface is judged by half the ring (`RestartIsNew`), which is where `MaxLag + Burst <= TidCount - Half` is needed. `AddFrameIs` and `ReceiveIs` say what `addFrame()` and `receive()` come
to; a frame is then ignored or lost (`ShrinkKeeps`), or taken (by one lemma for each part of the
invariant, `TakingTyped`, `TakingRecv`, ...). `TypeCorrect`, `WholeIsDelivered` and `DeliveredAsSent`, the refinement of `LossyLink` for any numbers of mailboxes, follow. The CRC that tells a mixture of transfers
from each of them is a premise of the model.

**LeakAlarm** (`LeakAlarmAssumption`; the pressures have a highest one, as those of a sensor do). What `Sums` computes is shown by the least number for which it
would fail (`LeastNumber`, from the library's `WFMin`), so that `AverageBetween` holds for any number of samples. `IInv` is `SampleInv` (the buffer is empty or full, with samples that were
taken), `MessageInv` (neither a later message nor a sample since the last message is further below an earlier message or the reference than some sample fell) and
`AlarmInv`. `MessageInv` needs that a message averages over samples that all follow those of the one before: the buffer is as
long as the interval of messages. Theorems: `TypeCorrect` and `AlarmFounded`.

Only model-checked: all liveness (`FiringEnds`, `OneShotEnds`, `RequestServed`, `PressureIsShown`, `GivenBack`, `PulseEnds`, `AcceptedIsSent`, `Drained`,
`AlarmFollowsHull`), which needs ENABLED and fairness and is outside the prover's reach. `PowerMonitor` has a run that finds its error and nothing to prove.

## 6. Observations without a run

One is a divergence: `eraseAllParams()` of the example board (`uavcan_example/parameter.hpp:130`) resets the table in RAM and leaves the EEPROM as it is, against "Clear the
non-volatile storage" (param_server.hpp:68). `ParamStore` has it as `EraseWrites = FALSE`, for which `EraseIsDurable` is false; the run is of the dropper board, whose erase
writes the EEPROM.

Of the others no text of the repository says otherwise:

* With two transmit mailboxes (the default, which the boards keep) transfers of a burst may be delivered in another order than they were sent: the receiver takes the step back of an
  identifier for a restart, as the library's own test of `TransferReceiver` accepts. FlexCAN.cpp:805 warns of it. `DeliversAsSent` bounds it by the number of mailboxes.
* A transfer of several frames that is overtaken by the first frame of the next is lost.
* Redundant interfaces with several mailboxes each would deliver some transfers twice, once from each; no board has them.
* After a CRC error a receiver keeps its buffer with its length; a shorter transfer that follows is written over its beginning, is
  compared with its CRC together with the rest of the old one, and is thrown away (`IntactIsDelivered` leaves this case out).
* The reference for the leak alarm is the first average received. One over a sensor that had not answered yet, or taken after
  the leak, is too low, and the leak is never shown. `AlarmFollowsHull` is about the reference that was taken.
* A frame is not looked at any more once the driver has it: it may be sent after its deadline.
* A frame whose deadline is the present moment is neither sent (`now >= deadline`, can.cpp) nor dropped (`now > deadline`, can_io.hpp): it waits for the next moment.
* `freeTxBuffer()` reports 1 when the ring is full (a ring of `size` slots holds `size - 1`); with it `select()` always
  finds the interface ready to send.
* The loss statistics of the driver are never enabled, so a lost frame is not counted anywhere.
* The LCD counter of the internal environment board is 16 bits, taken modulo 6: it jumps when it wraps (`main.cpp:113`).
* Readme.md:52 says the alert comes "when pressure drops below desired threshold"; the code compares the drop from the first
  sample with the threshold, and the parameter's name allows both.

## 7. Not modelled

* *Servos*: one assignment and one multiplication per command; the shared angle is listed as a hazard. Readme.md:20 of `dropper/` says
  that `getAngle()` returns the angle of the servo on its channel; it returns the one that all share, which one reading of the code shows.
* *PWM driver, device libraries, display, statistics, bit timing, filters*: register-level I/O without control worth checking.
* *`cycleWait()`, the watchdog's time-out*: real time of a turn; the reset itself is an action of `TorpedoControl`, `ParamStore` and `LeakAlarm`.
* *Serial line editor*: a character buffer with one writer; the models take complete commands.
* *Publishers of the battery board*: their pointer arithmetic between separate objects is undefined, a model could only allow everything.
* *libuavcan: marshalling and generated types* (data, no control), *dynamic node ids with its Raft core, time synchronisation, file server, panic, redundant
  interfaces on the sending side* (no board uses them), *services above transfers* (one request and one answer, which the parameter server
  models at its callback).
* *Drivers for stm32, Linux and lpc11c24*: vendored, no board is built with them.

Most of the repository's lines are in the last two groups and in device libraries; the map covers the firmware of the boards and the
path of a frame through the library, not the vendored rest.
