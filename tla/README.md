# A verification project for lora-ns3

`lora-ns3` is an ns-3 module that simulates LoRaWAN: class A end devices, gateways, a
network server, applications that steer the devices with MAC commands, and a variant
(RS-LoRa) driven by beacons. This directory holds TLA+ models of its state machines,
codecs and programs, the TLC configurations that check them and TLAPS proofs about
most of them.

ns-3 is a single-threaded discrete-event simulator. No data is shared between threads,
but a handler is a short atomic step and everything of interest is spread over many of
them: timers, their handles, cancelled and forgotten events, callbacks from the radio
and copies of one frame that reach the server along several gateways. Concurrency here
is the interleaving of events, and that is what the models keep.

## 1. The system

All paths are below `src/`.

| Component | State | Operations | Talks to |
|---|---|---|---|
| Class A MAC, `model/lora-net-device.cc` | `m_state`, the queue, `m_currentPkt`, retransmission, frame and ADR counters, `nbRep`, data rates, channel table, the handles `m_event`, `m_event2`, `m_freeChannel` | `SendFrom`, `TryAgain`, `StartTransmissionNoArgs`, `NotifyTransmissionEnd`, `FreeChannel`, `PrepareReception`, `CheckReception`, `CheckReception2`, `NotifyReceptionStart/EndOk/EndError`, the setters that MAC commands call | radio (calls and callbacks), application (queue in, `m_rxCallback` out) |
| End-device radio, `model/lora-phy.cc` | `m_state`, `m_params` (the signal it is locked on), `m_event` (its `EndRx`), `m_transmission`, noise and channel usage | `ChangeState`, `StartTx`, `EndTx`, `StartRx`, `EndRx` | MAC, spectrum channel |
| Gateway MAC, `model/lora-gw-net-device.cc` | `m_pendingPackets` | `SendFrom`, `CheckAckSend`, `NotifyTransmissionEnd`, `NotifyReceptionEndOk` | gateway radio, sink application |
| Gateway radio, `model/lora-gw-phy.cc` | list of concurrent receptions, `m_transmission` | `StartTx`, `EndTx`, `StartRx`, `EndRx` | gateway MAC, channel |
| Network server, `model/lora-network.cc` | white list, `m_latest`, `m_packetToTransmit`, `m_stats`, settings per device | `MessageReceived`, `Send`, `SendAck`, `WhiteListDevice`, `GetCount`, `GetMargin` | sinks (sockets), applications (trace sources, `Send`) |
| Header and commands, `model/lora-mac-header.cc`, `model/commands/` | fields of a header, list of commands | `Serialize`, `Deserialize`, `SetMacCommand`, `Merge`, each command's `Execute` | all MACs and applications |
| RS-LoRa device and gateway, `model/lora-rs-*.cc` | the class A state plus beacon timers and the allocation of the last beacon | `ReceiveBeacon`, `BeaconTimeout`, `SchedulePacket` | as class A |
| Controllers, `model/lora-*power*.cc`, `model/lora-sf-controller-application.cc`, `model/sf-mab.cc` | statistics per device, bandit values | react to reported frames, send `LinkAdrReq`, `NewChannelReq` | network server |
| Traffic, sink and test applications, `model/lora-application.cc`, ... | timers, counters, sockets | produce and forward packets | MAC, network server |
| Helpers and programs, `helper/lora-helper.cc`, `examples/` | address counter, maps of statistics | build a network, run it several times, count and write | everything, before a simulation and through its traces |
| Energy model, `model/lora-radio-energy-model.cc` | energy per radio state | `ChangeLoRaState` | radio |
| Signals, noise, errors, `model/lora-error-model.cc`, `model/noise-ism.cc`, ... | spectra, random mixtures | floating point | radios |

What makes each of them hard, and what would make it correct:

* **Device.** The MAC has two event handles, but a state has up to four pending events.
  `TryAgain` can be scheduled with and without a handle; `Simulator::Remove(m_event)`
  removes whatever `m_event` refers to at that moment. A reception may begin in one
  window and end after the other has been prepared. Correct means: no handler meets a
  state it asserts against, no event loses its handle, the device always has something
  pending that moves it on, frames are resolved, the queue is served, a channel rests for
  its duty cycle, and seen from outside the device is a class A device.
* **Network server.** Copies, retransmissions and the next frame all enter
  `MessageReceived`; what is sent back is decided by whoever last wrote one slot per
  device. Correct means: each frame is reported once and in order, each window closes,
  each heard frame that wants an answer gets one, through the gateway that heard it best,
  and what applications send is not lost.
* **Gateway.** Downlinks are matched to a device by address only, timers of several
  uplinks look at one pending packet, and two downlinks may overlap on air.
* **Radios.** Signals overlap in any order; which of them survives depends on which came
  first, on strengths and on tables indexed with frequencies. Correct means: a signal is
  lost only to one that can harm it, and delivered only if nothing has.
* **RS-LoRa device.** A beacon every minute, whatever the device is doing: in the middle
  of a window, with a transmission scheduled from the last one, or after a beacon that
  was not heard. Correct means: the radio is not left listening, a frame goes out on the
  channel that was chosen for it, and it does go out.
* **Commands.** A request is merged into another packet, taken apart, executed and
  answered one frame later, while either direction loses packets. Correct means: bytes
  are read as they were written, each request is executed once, as it was sent, and
  answered, and an application is not told of a change the device did not make.
* **SF controller.** Counts are sampled at different events, an observation has to find
  all arms it is about by shifting bits, and a confirmation carries no reference to
  what it confirms.
* **Energy model.** Two accounts, brought up to date at different times.
* **Programs.** Several simulations in one process share a static counter and global
  maps; measurements start while frames are on air.

`PROJECT.json` lists every component with its status and, under `hazards`, each place
in the code where one of these difficulties bites, with the properties that cover it.

## 2. What is modelled

| Module | Models |
|---|---|
| `LoRaPhy` | the device's radio: mode, lock on a signal, frame on air |
| `LoRaNetDevice` | the class A MAC, composed with `LoRaPhy`; its properties; the mapping to `ClassA` |
| `LoRaNetDeviceDuty` | the same with a history of the duty cycle |
| `ClassA` | what a class A device promises, without events, queue or channels |
| `LoRaNetwork` | the network server, between devices heard by several gateways and an application |
| `LoRaGwNetDevice` | the MAC of one gateway and the transmitting side of its radio, between devices and the network |
| `LoRaSpectrumSignal` | signals: bands, bins, density, who is whose rival |
| `LoRaGwPhy` | the receivers of a gateway |
| `LoRaPhyReception` | the receiver of a device with its signals, which implements `LoRaPhy` |
| `LoRaSpectrum` | one channel with both radios, noise and the device's own use of its radio |
| `Bytes`, `LoRaMacCommand`, `LoRaMacHeader`, `Mac32Address` | integers, commands, headers, trailers and addresses as bytes; pure operators |
| `LoRaDeviceSettings` | what each command does to the settings of a device; pure operators |
| `LoRaCommandExchange` | commands on their way between applications, network, gateway and device |
| `SfMab` | the arm arithmetic of a bandit |
| `LoRaSfControllerApplication` | the controller with its bandits, and devices that follow it |
| `LoRaRsNetDevice` | the RS-LoRa device on `LoRaPhy`, and the beacons of its gateway |
| `LoRaRadioEnergyModel` | the energy model and its source, on `LoRaPhy` |
| `LoRaSimulation` | the example programs, on `LoRaNetwork` |
| `LoRaNetDeviceProofs`, `LoRaGwNetDeviceProofs`, `LoRaCommandExchangeProofs`, `LoRaSpectrumProofs`, `LoRaRsNetDeviceProofs`, `LoRaRadioEnergyModelProofs`, `LoRaSimulationProofs`, `LoRaSfControllerApplicationProofs` | theorems about the module each is named after; those of the device also about its duty cycle, those of the exchange about the codec, and those of the programs about `LoRaNetwork`, whose actions they take |
| `MC...` | the values the configurations use |

Definitions whose comment calls them a "Mutant of X" are not part of the
models. Each is X with a plausible mistake; replacing X by it must violate the property
that `PROJECT.json` pairs it with, which shows that the property depends on that code.

### The device and its radio

One action stands for one simulator event or one call from above. Calls and callbacks
between MAC and radio are synchronous, so an action conjoins the MAC's handler with the
radio's operator, e.g. `NotifyTransmissionEnd` is `EndTx` together with the callback.

* `event` and `event2` are what `m_event` and `m_event2` will run if they are still
  pending. `strayTryAgain` counts the `TryAgain` events of the present instant that no
  handle refers to: the one of `SendFrom`, and those whose handle was overwritten.
  `opening` is the radio's `ChangeState(RX)` that `DoPrepareReception` schedules for the
  same instant. `freeing[c]` counts the pending `FreeChannel` events of a channel and
  `freeChannel` says which of them `m_freeChannel` can still cancel.
* Time is reduced to the order of events. `InstantOver` lets the events of the present
  instant go first, as `ScheduleNow` does. The preparation and the check of window 1
  come before the preparation of window 2 (0.99, 1.02 and 1.99 s after the
  transmission, with the default delay). Nothing else is assumed of delays:
  `FreeChannel` may come at any time, a reception may end within its window, or run past
  the preparation and the check of window 2. Two events of different origin in the very
  same nanosecond are not considered.
* `receiving` stands for `m_params != 0` together with the pending `EndRx`.
  Whether the radio locks on a signal, and how a reception ends, is the environment's
  choice; `EndRx` with an error and a strong interferer in `StartRx` have the same
  effect and are one action.
* `datarate` is one number: the 16 entries of `datarate[]`, `minDatarate[]` and
  `maxDatarate[]` start out equal and `LinkAdrReq` changes them alike. `NewChannelReq`,
  which gives a channel its own limits, is in `LoRaDeviceSettings`.
* A downlink carries one `LinkAdrReq` or none. `LinkAdrReq::Execute` runs within
  `NotifyReceptionEndOk` as in the code, including `SetChannelMask` with its cancelled
  wait and its partly applied masks. Each data downlink counts as an acknowledgement
  (`IsAcknowledgment` holds for the frame type), so it clears the current frame.
* Left out: statistics, and header contents other than the counter, the confirmed flag
  and the ADR request. Power, frequencies and `m_answers` are in `LoRaDeviceSettings`.
* An accepted mask makes every channel it names available, also one that rests.
  `unrested` of `LoRaNetDeviceDuty` remembers those, so that `DutyCycleKept` can be
  claimed for all others.

### The network server

`MessageReceived` handles one copy: `FirstCopy` opens the window and `AnotherCopy` is
counted. `NetRx` is the `ScheduleNow`'d trace that tells the applications. `Answer` is
an application's reaction, which may call `Send` and may look up `GetMargin` or
`GetCount` (whose `operator[]` creates a missing entry). `SendAck` closes the window.
`NewFrame` and `Retransmission` are the device and the gateways that hear it: any set
of them, with any strengths. The history variables `heard`, `reported`, `downlinks` and
`owed` only serve the properties.

* A report and the reaction to it (200 ms in the applications of the library) precede
  `SendAck`, 500 ms after the first copy. A device sends again only when its copies
  have arrived and its window is closed: the device waits for its own windows, 2 s, and
  then a second or more. A copy may arrive after `SendAck`, and opens a window of its own.
* A message is what it acknowledges, and whether it has commands or data.
  `Merged` spells out what the size comparison of `Send` amounts to: the stored packet
  always ends in a trailer, so it never looks like a bare header.
* Left out: the receive settings per device (nothing in the library changes them) and
  the promiscuous trace.

### The gateway

`pending` is `m_pendingPackets`, of which `SendFrom` keeps one entry per device. `checks`,
`starts` and `onAir` are the scheduled events: `CheckAckSend`, `StartTransmission` and the
radio's `EndTx`. `SendFrom` has its three outcomes as operators: `Accept` (nothing pending, or
the pending packet is taken for an earlier version and replaced), `Withdraw` (a
message without the ACK bit deletes what is pending) and `Reject`. `CheckAckSend` strips the
trailer of the packet in the list, not of the copy it schedules, and `trailer` counts it.

* The network answers the uplinks of a device in turn, through this gateway (`SendFrom`),
  through another one, which this gateway may hear (`Overhear`) or not (`Miss`), or not at
  all (`PassOver`).
* `LinkSpeeds` says how links may be. When they are fast, the network has dealt with an
  uplink when its check runs: it decides 0.5 s after its first copy, the check comes after
  1 s, and the links of the examples take 60 ns. When they are slow, nothing is assumed.
* `Quiet`: a device transmits again only after the downlink of its last uplink. The
  transmission starts 2 s after the uplink and takes at most 0.7 s (the slowest data
  rate); the device waits for its second window, then at least a second more.
* `SameSize` compares a stored packet with a bare header. The trailer has 7 bytes, a
  `LinkAdrReq` 5 and a `NewChannelReq` 6, so the sizes only agree once the trailer is
  off and both messages have commands, or neither has.
* Left out: frequency, data rate and power of a downlink and group addresses. The
  receivers are in `LoRaGwPhy`.

### Radios and signals

`LoRaSpectrum` has one action per event of the channel: a signal starts or ends, noise
(`NoiseIsm`) starts or ends, and the device opens a window, sleeps or sends. Both radios
get each signal; `SignalStarts` is `StartRx` of both, `SignalEnds` is `EndRx` of both.

* A frequency is in units of 100 Hz as in the code, so the bins of a signal, their overlap
  and the unsigned distance of channels are those of the code. Power is a small number: only
  comparisons of densities matter. Bins in which a signal has no density (the last one of
  a band that ends on a boundary) count for nothing, as in the sums of the code.
* `usage` is `m_channelUsage` as the flat memory it is: a bin beyond column 29 lies in a
  later row. The places beyond the table itself are taken to be cells that
  nothing else uses.
* How many bits are wrong depends on random numbers and on the error model; a level of bit
  errors (`none`, `few`, `many`) or its presence is a choice at each `UpdateBer`. The errors a
  stronger signal causes are not a choice.
* `before` remembers which signals were on air when one started; `atGateway` and `atDevice`
  remember what became of each.
* `ImplementsLoRaPhy` is the bridge to the MAC: the radio with signals does only
  what the radio of `LoRaNetDevice` may do.

### Commands

A packet is the sequence of its bytes. `LoRaCommandExchange` has the device, one gateway, the
network and a set of applications take turns (`phase`): timers are left to the other modules, losses
and retransmissions are kept. `MessageReceived`, `Answer` (with `Send` and its
merging), `SendAck` and `NotifyReceptionEndOk` do to the bytes what the code does:
peek, remove, change, add.

* A field that no constructor sets (the adaptive bit of a header) holds any value of
  `StrayBits`.
* The applications send what those of the library send (`PowerRequest`, `NoPowerRequest`, the
  test application's commands). `GetSetting` of the power application never finds a
  strength, because nothing fills its table; its request is therefore always the same,
  with fields in an order that makes its mask 0.
* Whether a retransmission is slower is left open; the lengths of transmissions are left out.

### The controller

`CalculateSetting` sorts the devices into ten groups, has the bandits of one frequency judge the
last selection (`Judged`, `NewObservation`) and select anew (`Select`). `NewPacket` is what a
frame does: it counts, takes a `NewChannelAns` for a confirmation and tells a
device that has not confirmed. Which arm `GetSf` draws is a choice among `Selectable`.
`StopApplication` is modelled for a caller that stops the application early; in the programs
`Simulator::Stop` comes first.

### RS-LoRa

`ReceiveBeacon`, `SendBeacon` of the gateway and `BeaconTimeout` recur each minute;
`SchedulePacket` picks a channel, masks all others and schedules the transmission. `scheduling` is the
pending `SchedulePacket`, `locked` what the radio receives, `crossing` and `early` keep
the order of events that their times give (the windows follow a frame within two seconds,
the wait for a beacon lasts 0.4 s). The loop that draws an offset is
taken to end with a time before the next beacon.

### Energy

`RadioChanges` is any change of `LoRaPhy`, with the trace that tells the model; `PeriodicUpdate`
is the source's own. Time is in seconds and currents are in units of 20 nA, so that both accounts are
exact integers. Nothing stops when the source is empty: the handlers of its notifications are
empty functions.

### Programs

`MainBody`, `MainBodyLoRaBattery` and `MainBodyRsExample` are the three `mainBody`s with the helper
functions they call: addresses, offsets of beacons, sinks, traffic. A simulation is
the actions of `LoRaNetwork` with the traces the programs count by; `EndIteration...` ends it,
writes the rows and destroys everything but the statics. `deviceMap` is a ghost: to which
device of which simulation an address belongs. As it stands `lora.cc` lacks a closing quote in
line 473, and `rs-example.cc` calls `GenerateTraffic` with six arguments in line 256 where the helper
takes seven; both are modelled as if this were mended, the latter without random delays.

## 3. What is checked

The configuration of each run has its name. Every property is commented where it is
defined.

| Run | Result | Shows |
|---|---|---|
| `device` | pass | `TypeOK`, `AssertionsHold`, `RadioFollowsMac`, `NoTimerOrphaned`, `ChannelReserved`, `NeverStranded`, `BackoffAfterRequest`, `DutyCycleKept`, and that the device implements `ClassA`, with rejected, accepted and partly applied masks; each frame is resolved, and the queue is served unless the device has starved, which only a mask that names none of its channels can bring about (`QueueServedUnlessStarved`). Deadlock is checked. |
| `network` | pass | one device, three gateways, late copies, unprompted messages: one report per frame but for a first one numbered `Unheard`, windows close, heard frames are answered through the best gateway, commands sent in answer are not lost |
| `gateway` | pass | no frame is cut, however slow the network is; with fast links each accepted answer is sent, in the window of the uplink it answers, and none is left behind |
| `commands` | pass | bytes are read as written; requests are executed as sent and answered; settings stay usable; with power and data rate exchanged, no setting is confirmed that was not applied (`ConfirmedAsExecuted`) |
| `sf_controller` | pass | until a device's frame numbers start anew, the unsigned difference of two of them is how far they lie apart and at most that many frames are counted as received, one more while the number last judged is 0 (`ReceivedWereSent`); an observation updates exactly the arms it is about, a device that confirmed in time follows the selection |
| `rs_device` | pass | assertions hold, the radio is attended, frames go out, on the channel chosen |
| `radios` | pass | which signal survives at the gateway and at the device; the device's radio implements `LoRaPhy` |
| `energy` | pass | the accounts of model and source agree |
| `simulation` | pass | counts bound each other, lines of the output are of one device each, devices listen to the nearest gateway |
| `device_mask_rejected` | violation | a rejected mask cancels the only pending wait, and no channel becomes free again |
| `confirmations` | violation | the power `LoRaPowerApplication` asks for is refused and confirmed |
| `radios_table` | violation | a downlink in the second window makes another device refuse an orthogonal one in its first window |

The violations are disagreements between the code and what its own comments promise;
`PROJECT.json` quotes each under `findings`. Two of them have a counterpart that passes and says
how far the disagreement goes:

* `QueueServed` is refuted by `device_mask_rejected`. `QueueServedUnlessStarved`, with the same
  masks and more, holds: nothing but such a mask makes the device starve.
* `ConfirmedTruthfully`, an application is told of a setting only if the device has made the
  change, is refuted by `confirmations`. `LinkAdrReq::Execute` gives `LinkAdrAns` the result of
  the data rate as that of the power and the other way round
  (`commands/link-adr-req.cc:108`, `commands/link-adr-ans.cc:39`), so power 0, which
  the device refuses, is confirmed along with data rate 0, which it accepts. `ConfirmedAsExecuted`
  is the same property with the two names exchanged (`About`), for all five settings; it holds, and so the exchange is the
  only thing that makes a confirmation false, with any losses and retransmissions. For the channel mask and the
  settings of a new channel, whose names are right, it is what `ConfirmedTruthfully` says.

Some properties are claimed for a part of the behaviours only, because the code does not have
them in general. A device that is handed two packets in one instant, or told a
repetition count of 2, may wait for ever; a message an application sends between two
uplinks is discarded; a first frame that has the number 255 is taken for a duplicate;
the controller's difference of frame numbers wraps to nearly 2^32 when they start anew after 2^16 frames;
answers over slow links come a frame late; a confirmation of an older setting is taken for
one of the newer. The bounds below and the premises of the properties (`fast`, `overtaken`) say
where each claim ends.

### Bounds

| Constant | Code | Runs | Why that is enough |
|---|---|---|---|
| `Channels`, `MaskBits` | 6 of 16, 3 enabled | 2, plus one empty slot | none, one and both channels free, masks with and without empty slots; channels are otherwise alike |
| `QueueLimit` | 100 packets (`helper/lora-helper.cc:183`) | 2; 1 in `device_mask_rejected` | an empty, a partly filled and a full queue |
| `MaxTries`, `BackoffTries` | 9, {3,5,7} | 3, {2} | tries before, at and after a slower data rate, and the last try |
| `MaxDr` | 5 | 1 | a data rate that can and one that cannot be lowered |
| `AdrAckReq`, `AdrAckLimit`, `AckCntMod` | 60, 64, 256 | 1, 1, 3 | below, at and above both limits, and the wrap |
| `SeqMod`, `FrmMod` | 2^16 | 2; 4 | numbers differ from their neighbours; wrap of the device's counter |
| `NbReps` | any `uint8_t` | {0, 1}; {2} in `rs_device` | 0 and 1 are what a `LinkAdrReq` can carry |
| `MaxBurst` | - | 1 | packets handed over in one instant; an application sends one per timer |
| `MaxFreeing` | - | 2; 1 in `commands` | waits a channel may have pending; a second one needs a mask that makes a resting channel usable |
| `Unheard` | 255 | 2; 3 in `simulation` | in `network` frames are numbered below it and up to it: the mark may be the first number heard, or a later one |
| `FrameNumbers`, `Words` | 2^16, 2^32 | 3, 8 | numbers that start anew, and a difference that then wraps |
| `MaxFrames` | - | 2 to 4 | consecutive frames of a device, each with any number of retransmissions |
| `MaxUplinks` | - | 2 | an answer that is still pending, or late, when the next uplink is heard |
| `Devices` | any | 1 or 2 | downlinks to two devices overlap at a gateway, two devices share a group of the controller; the network keeps nothing that devices share |
| `Gateways`, `MaxRssi` | any | 2 or 3, 1 or 2 | equal and different strengths, in any order of arrival |
| `Applications`, `Requests` | any | 1, nine requests | every class of command; the ones the library sends, ones refused in part or in whole; two of them for two frames |
| `LinkChecks`, `Energies`, `Snrs` | - | TRUE, {100}, {-40} | a full battery and a margin beyond the range that is sent, the two ends of `DevStatusReq` |
| `Rssis`, `Used`, `Selectable` | any | two devices of which one moves; one frequency used; any arm on one frequency | devices change groups and share one; every arm is judged |
| `MaxCalculations` | - | 4 | each frequency once and the first again |
| `MaxCount` | - | 3 | transmissions of a frame, beyond `NbReps` |
| `Signals`, their channels and powers | any | 4 | two overlapping channels with equal spreading factors and both orders of strength, two orthogonal signals on one of them; noise at any time |
| `MaxReceptions` | 8 | 1 | one reception too many, and the refusal of the next |
| `MaxTime`, `InitialEnergy` | any | 6, three seconds of sending | the battery runs out in the middle, by any mixture of states |
| `Programs`, `Places` | three programs | all of their options; near one gateway, near the other, between | `reporting` = `Duration` is left out: its report and the last one are two lines of one time |
| `Duration`, `Interval`, `MaxTransmissions`, `MaxIterations` | hours, minutes | 2, 1, 2, 2 | a measurement that starts in the middle, a report in the middle, and a second simulation |

The device's safety properties are proved for all values of these constants (section 4); its run has the
size that liveness allows.

The `network`, `gateway`, `commands`, `sf_controller` and `simulation` runs say
`CHECK_DEADLOCK FALSE`: they stop after so many frames, calculations or simulations.

### Fairness

`LoRaNetDevice!Fairness` is weak fairness of every event the device has scheduled and
of the end of a reception: ns-3 runs every event that is scheduled and not cancelled,
and each transmission has a finite duration. The application (`SendFrom`), whoever
configures the device and the other radios (`NotifyReceptionStart`) owe nothing.
`LoRaNetwork!Fairness` is weak fairness of copies on their way, of the report, of the
application's scheduled reaction and of `SendAck`, for the same reason; devices may
stop sending. `LoRaGwNetDevice!Fairness` is that of its scheduled events, and of the
network's decision on each uplink (`SendAck` is always scheduled).
`LoRaRsNetDevice!Fairness` is strong for the events that wait for the present instant to be
over (`InstantOver`), because that condition comes and goes while
the event stays scheduled; weak for `TryAgain`, for the end of a transmission and for the next beacon. That a
beacon is heard is not assumed. The other modules have no liveness properties.

## 4. What is proved

The theorems hold for every value of the constants that satisfies the assumptions of the
module: any set of devices, gateways, channels, signals, any numbers of frames. A theorem
that needs more says so in its own `ASSUME`; the column *Provided* names it, and the
paragraphs below say why the code justifies it. Each is `Spec => []P` or `Spec => P` for
the specification the runs check, and follows from an invariant `Inv` with
`Init => Inv`, `Inv /\ [Next]_vars => Inv'` and `Inv => P`; there is one lemma per action
where an action can disturb the invariant.

| Module | Theorem | Property | Provided |
|---|---|---|---|
| `LoRaNetDeviceProofs` | `TypeCorrectness`, `AssertionSafety`, `RadioCoherence`, `TimerOwnership`, `ReservedChannel`, `NoStranding`, `BackoffJustified`, `ClassARefinement` | `TypeOK`, `AssertionsHold`, `RadioFollowsMac`, `NoTimerOrphaned`, `ChannelReserved`, `NeverStranded`, `BackoffAfterRequest`, `ImplementsClassA` | `UsedAsShipped` |
| | `DutyCycleIsKept` | `DutyCycleKept` | |
| `LoRaSimulationProofs`, on `LoRaNetwork` | `EveryWindowCloses` | `WindowsClose` | |
| | `NoDuplicates`, `EveryFrameTold`, and from both `EachFrameReportedOnce` | `ReportedOnce` | |
| | `BestGatewayAnswers` | `AnswersBestGateway` | |
| | `AnswersAreKept` | `NothingOwedIsLost` | `CommandsOnly` |
| `LoRaGwNetDeviceProofs` | `FramesAreWhole`, `LastUplinkAnswered`, `NothingIsLeftBehind` | `StrippedOnce`, `AnswersLastUplink`, `NothingLeftBehind` | |
| | `AcceptedIsNeverLost` | the safety half of `AcceptedIsSent` | |
| `LoRaSpectrumProofs` | `DeviceCaptures` | `DeviceCapture` | |
| | `GatewayCaptures` | `GatewayCapture` | `BelowBin(25)` |
| | `RefusalsAreJustified` | `RefusedOnlyByRival` | `RowsApart`, `BandsApart` |
| | `SpectrumImplementsLoRaPhy` | `ImplementsLoRaPhy` | |
| `LoRaRadioEnergyModelProofs` | `ModelFollowsRadio`, `AccountsAlwaysAgree` | `AccountsAgree` | |
| `LoRaRsNetDeviceProofs` | `AssertionsNeverFail`, `RadioAlwaysAttended`, `ChannelAsScheduled` | `AssertionsHold`, `RadioAttended`, `SentAsScheduled` | |
| `LoRaSimulationProofs`, on the programs | `DevicesListenToNearest` | `ListensToNearest` | |
| | `FileTellsDevicesApart`, `CountsBoundEachOther` | `LinesOfOneDevice`, `StatisticsSound` | `AddressesSuffice` |
| `LoRaCommandExchangeProofs` | `CommandsReadBack`, `HeadersReadBack` | the codec: what is written is read back | |
| | `PacketsAreFaithful`, `SettingsStayCoherent`, `ConfirmationsAreOfChanges` | `WireFaithful`, `SettingsCoherent`, `ConfirmedAsExecuted` | |
| | `CommandsAreExecutedAsRequested`, `CommandsAreAnswered` | `ExecutedAsRequested`, `AnswersComplete` | `OneApplication` |
| `LoRaSfControllerApplicationProofs` | `ReceivedAreSent`, `ConfirmedFollow`, `ComparableArmsLearn` | `ReceivedWereSent`, `ConfirmedInTimeIsFollowed`, `EachComparableArmOnce` | |

### The device

*Used as shipped* is the assumption `UsedAsShipped`: at most one
`SendFrom` per instant on an idle device, and `nbRep` 0 or 1. That is what the library does: its
applications send one packet per timer, nothing calls `SetNbRep` but `LinkAdrReq`, and
`LinkAdrReq` puts `m_nbRep && 0x7` on the wire, 0 or 1. Without the first, the second of two
`TryAgain`s removes the transmission the first one has scheduled (`lora-net-device.cc:742`);
without the second, a downlink after the first of two transmissions leaves the device in
RETRANSMISSION with nothing scheduled (line 758). `NeverStranded` fails in both cases.

None of the properties is inductive. `NeverStranded`, for example, says that something
is pending, but not that it is the right thing: it is satisfied by a device in TIMEOUT with
nothing but a stray `TryAgain`, which strands it in the next step. `IInv` says, for each state of
the MAC, exactly which events may be pending, what the radio does and what is known
of the current frame (`IdleInv`, `TimeoutInv`, `TxInv`, ...); `FrameInv` relates the
frame to its counters and the ADR request, `SettingsInv` bounds `nbRep` and ties
`m_freeChannel` to a wait that is really pending. For the refinement each action
is shown to be one step of `ClassA` or a stutter: `FrameStep` for `TryAgain`, which may
take or drop a frame, `UplinkStep`, `DownlinkStep`, `AdvancingSteps` for the windows and
`SilentSteps` for the rest. Receptions that run from window 1 past the preparation of
window 2 are where `IInv` is needed most.

The duty cycle needs nothing of this: whatever the MAC does and however it is used, a
channel is available, or carries a frame, only when no wait for it is pending or a mask has
lifted the wait (`DutyInv`). A second wait is then always one of a channel a mask has
lifted the first of, which is why `FreeChannel` may make a channel available while
another wait is pending.

### The network server

`WindowInv`, `ReportsInv`, `ReportedInv` and `LatestInv` tie together what `MessageReceived`
spreads over several containers: an entry of `m_stats` exists exactly while its `SendAck` is
scheduled, what was heard and what is being reported belongs to the device's last transmission,
and `m_latest` is the last number that was, or is about to be, reported. Copies on their
way are of that transmission too (`CopiesInv`), so a late copy reopens a window but is not
reported again. `BestInv` says that while a window is open the recorded gateway heard the
device with the recorded strength, and none better; `AckInv` that an acknowledgement which
waits is for the frame whose window is open. `OwedInv` adds that nothing is owed once the
window is closed.

* `ReportedOnce` names its exception, a first frame with the number 255, the value `m_latest` is
  created with (`lora-network.cc:212`), and the theorems need no hypothesis.
* `CommandsOnly`: the applications of the library send headers with commands and no data.
  `Send` drops data when something else is stored.

### The gateway

`TrailerInv` is the heart of `StrippedOnce`: a packet that has lost its trailer has no check
to come, and a downlink of it under way. `ChecksInv` holds for any links because a device is
not heard while a downlink to it is under way. `FastInv` says for fast links that everything
known of a device, at this gateway, on air and elsewhere, is about its last uplink. The
hypothesis on links is inside the properties (`fast`), not on the theorems. `AcceptedIsNeverLost` is what safety
can say of `AcceptedIsSent`: an accepted answer is on air, or has been, or is pending with its
check to come, or its transmission is scheduled.

### Radios

`IInv` ties the table of the device to what is on air (`UsageInv`: each cell is the sum of the
densities of the signals on air that reach it), the lock to the state of the radio, and what
the gateway tracks to what is on air. `DeviceInv` and `GatewayInv` strengthen the capture properties to
signals that are still being received.

The radios add densities with the folds of the community modules. The first part of
`LoRaSpectrumProofs` is a theory of such sums: they exist, are unique, are
independent of the order, and change by one summand when a signal starts or ends. It goes by
induction over the subsets of a finite set, from the well-foundedness of the natural numbers
(`WFMin`), which needs no theorem with an operator parameter.

* `BelowBin(25)`: a gateway compares the first 25 bins. The channels every device starts with,
  and those up to 868.5 MHz, lie in them.
* `RowsApart`: bands lie in the 30 columns of `m_channelUsage`, whose index is not checked. Without it
  the run `radios_table` refutes the property. `BandsApart`: bands that do not overlap have no bin in
  common. The channels of the specification, 200 kHz apart, satisfy it; two bands that
  share a bin would cover each other there.

### RS-LoRa

A beacon may meet any window of the last frame. `WindowInv` says in which order the
events of windows and beacon are still to come, including the case that window 2 opens with
the check of window 1. `ScheduleInv` and `ChannelInv` say that from `SchedulePacket` to the
transmission nobody else uses the radio, and that one channel is available: the chosen one.
Bursts of packets and any repetition count are allowed.

### Energy

The two accounts agree because each change of state makes the source update itself first:
`lastUpdateTime <= sourceUpdateTime <= now`, and what was drawn between two times adds up
(`Drawn`). A battery that is empty stays empty, so the difference is only ever what was asked of an empty one.

### Programs

`SimulationInv` has three parts. `LinesInv` relates the static counter of `Allocate`, the loop,
the clock, the maps and the rows. `NetworkInv` is `LoRaNetwork`'s own `IInv`: the lemmas
about the network are used action by action, as the programs interleave them with their own.
`StatisticsInv` strengthens `StatisticsSound`, which is not inductive: what has been counted
is bounded together with what can still be counted, the copies that are on their way and the
reports that are pending, also when the measurement starts in the middle of a transmission.
`AddressesSuffice` says that ten simulations need fewer than 2^32 addresses, which is what
four bytes hold; left to its defaults, no program runs more than ten.

### The controller

`ReceivedWereSent` is a difference of counters that three handlers move. `CountsInv`
adds what they rely on: a device is listed with its first frame, the last number heard
has been sent, and the number at which a frequency was judged is never beyond it. All of it holds as long as
the device has sent at most 2^16 frames: the controller takes the 16-bit number of a frame for the count of
frames, and once the numbers start anew the one last heard lies below the one last judged. The subtraction
in `SentSince` has the 32 bits of the code, so that it does not wrap before is part of what is
proved. Frame 0 is the one frame that a difference of numbers does not count: until a frequency
is judged at a number above 0, one frame more may have been received than the difference says, and the share
exceed 1.

`FollowInv` follows a selection from the controller to the device and back. A request on its way
asks an unconfirmed device for rates of the selection calculated last. A
device uses the selection of the frequency calculated last once it has confirmed
it, or an answer that will confirm it is on its way; on the other frequencies it uses the
one it confirmed then. `UnheardInv` says that nothing is asked of a device before it is heard.

`ComparableArmsLearn` rests on the arithmetic of `SfMab`. The arms are the runs of one to three
adjacent spreading factors (`ArmRun`, `RunsComparable`), and a round of either loop goes to runs one
longer or one shorter. An observation is the concatenation of at most three
intervals of arms, which are disjoint, so no arm is told twice (`OnceEach`).

### Commands and packets

`CommandsReadBack` and `HeadersReadBack` are about the codec alone. A command is read from the
bytes it was written in, whatever bytes follow; a header is read field by field, and its
commands in their order, for *every* list of commands that takes at most fifteen bytes. The
loops of the code over lists are folds in the model. A fold is shown to exist as a function and to take one
step per element (`FoldSteps`), which is what induction over a list comes to here (`UpTo`); so
the bytes of each command lie where the sizes before it say (`CommandBytes`), and each round of the reader
finds the next command (`ReadCommandsBack`).

The invariant of the exchange has a packet's contents in it: what is on its way is what a header
serialises to, followed by bytes whose length is known (`IsPacket`). Then every reader,
device, network or application, has the header its writer had.

* `DeviceInv`: the settings are coherent, which takes more than `SettingsCoherent` says: a channel that only
  *waits* to be available has a frequency too (`FreeChannel`). What the device is
  about to answer confirms only what it has applied.
* `UplinkInv`: the same of the answers in its packet, in what the network reports and in what the applications
  read, with respect to what was applied when the packet was made (`carried`), as the
  device goes on while they are on their way. An answer counts for what `About` says it is about. Whether a
  command is accepted depends on the frequencies and on the maximal data rates, which therefore have to be alike
  in the device that executes and in the one `AppliesAll` looks at (`Alike`).
* `DownlinkInv`, `RequestedInv`: the packet stored for the device is one that fits, and its commands are those
  requested in this round, however often `Merge` has taken it apart.

* `AnsweredInv`, for `AnswersComplete`: with one application the network asks for at most one command
  for a frame, and until the device's next frame the answers it owes are to what it has executed, with perhaps a
  request for a link check before or after them. Both fit in a header (`OwedFit`), so what
  `SetMacCommand` drops when fifteen bytes are full is never an answer.

`OneApplication` is what the run `commands` has, and `ExecutedAsRequested` needs it: with two
applications TLC finds it violated. `LoRaNetwork::Send` peeks and then removes the stored
header into the same object (`lora-network.cc:278` and 293), to which reading adds; the second
application's message is merged with commands of the first that are there twice, and may then
no longer fit. `AnswersComplete` is open for several: without that bound the answers owed need not
fit, though a small instance with two applications showed TLC no counterexample.
The other three properties hold for any number of applications.

### What the proofs changed

Proving led to corrections of the models, none of which changed what the runs find: the outcomes of
`SignalEnds` in `LoRaSpectrum` overlapped and are exclusive now, as the `if`s of the code are;
`LoRaSimulation` assumes one to seven gateways, as the programs have, where it had
allowed none. The loops of a bandit are written as the rounds they can run, where
`SfMab` had recursive operators, and so is the loop of `LoRaMacHeader::Deserialize` over commands: the
length has four bits and a command at least one byte. `AnswersComplete` filters its two lists with a fold
(`Without`), as `SelectSeq` is defined by a recursion the prover does not unfold. `LoRaCommandExchange` assumes what its
configuration had taken for granted: requests fit their fields (`FromBase`), `NewChannelReq` names a slot and a
frequency, as the controller that sends it does, the energy is a percentage. The constants of the controller are
assumed to be apart: `NoData` is no entry and `NoRequest` no request.

## 5. What is only model-checked

* Liveness: `FrameEventuallyResolved`, `QueueServedUnlessStarved`, `AnswerForwarded`, `AcceptedIsSent` and `FrameSent`
  need fairness and ENABLED, which the prover does not handle.
* With more than one application `AnswersComplete` is not proved, and no run covers it; `ExecutedAsRequested` is false then (section 4). Several applications could also ask for more answers than a
  header holds; no program has more than one.

Every other property of the runs that pass is stated by a theorem, for every value of the
constants that its hypotheses allow.

## 6. What is not modelled, and why

* Error rates, path loss and the values of bandit arms: floating point and random numbers.
  Their outcomes are choices. `LoRaErrorModel::GetBER` (`lora-error-model.cc:40`)
  may take the square root of a negative number; what follows from that is inside the choice.
* `lora-phy-gw.cc` and `test/lora-ack-test.cc` are not built.
* `LoRaRsGwNetDevice::DoCheckAckSend` (`lora-rs-gw-net-device.cc:110`) is never called:
  its parameter is a `Ptr<const Packet>`, so it does not override the function of
  `LoRaGwNetDevice`. `CalculatePower` and `GetSpreading` of the power application
  work on a table nothing fills. `LoRaMacTrailer` and `Mac32Address::GetMulticast` are not used.
* Pcap and ascii traces, positions, buildings, and the choice of the network application in
  `lora.cc`: wiring without state the properties could tell apart.
* Timers against bytes and signals in one model: the device's timers, its settings and the
  signals are three models that meet at stated interfaces (`ImplementsLoRaPhy`, the
  turns of `LoRaCommandExchange`); their product is too large for TLC.
* The receive settings per device of the network: no code changes them.
* The start of noise: `lora-helper.cc:682` schedules it for 86400 s; the model
  lets it come at any time.

## 7. Plan

Done: the device, the network server, both sides of the gateway, the radios, RS-LoRa, energy, the
codec with the commands, the controller and the programs, each checked and with proofs. Left is
their composition: the settings of `LoRaDeviceSettings` inside the device's state machine, with small
tables, so that a `NewChannelReq` meets a transmission that is already scheduled.
