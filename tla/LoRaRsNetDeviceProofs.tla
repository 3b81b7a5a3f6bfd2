------------------------ MODULE LoRaRsNetDeviceProofs ------------------------
(***************************************************************************)
(* Proofs about LoRaRsNetDevice, for any channels, data rates, repetition  *)
(* counts, queue and bursts of packets.                                    *)
(***************************************************************************)
EXTENDS LoRaRsNetDevice, TLAPS

States == {"IDLE", "TIMEOUT", "TX", "RX", "RX1_PENDING", "RX2_PENDING",
           "RETRANSMISSION", "BEACON"}

RadioTypes ==
  /\ PhyTypeOK
  /\ state \in States
  /\ locked \in {"None", "Beacon", "Window"}

FrameTypes ==
  /\ queue \in 0..QueueLimit
  /\ currentPkt \in BOOLEAN
  /\ retransmissionCount \in 0..MaxCount
  /\ nbRep \in NbReps \cup {1}
  /\ tryAgain \in Nat

ChannelTypes ==
  /\ heard \in BOOLEAN
  /\ channelAvailable \subseteq Channels
  /\ {channelIndex, freeChannel, selected} \subseteq Channels \cup {NoChannel}
  /\ datarate \in 0..MaxDr

EventTypes ==
  /\ event \in {"None", "StartTransmission", "Prepare1", "Check1"}
  /\ event2 \in {"None", "Prepare2", "Check2"}
  /\ scheduling \in {"None", "Now", "Later"}
  /\ {beaconTimeout, beaconDue, crossing, early} \subseteq BOOLEAN

TypeOK == RadioTypes /\ FrameTypes /\ ChannelTypes /\ EventTypes

-----------------------------------------------------------------------------
(* The inductive invariant *)

RadioOff == phyState = "IDLE" /\ ~receiving

(* The radio receives when it is set to, and transmits in TX. *)
RadioInv ==
  /\ receiving => phyState = "RX"
  /\ receiving <=> locked # "None"
  /\ transmission <=> state = "TX"
  /\ transmission <=> phyState = "TX"

(* Somebody will turn the radio off.  In RX that is the end of a reception; *)
(* in BEACON it is the wait for the beacon, even if a check of a window    *)
(* comes first and leaves the radio alone.                                 *)
ListeningInv ==
  /\ RadioAttended
  /\ state = "RX" /\ phyState = "RX" => receiving
  /\ state = "BEACON" /\ phyState = "RX" => beaconTimeout

(* A beacon is sent, and then received, while the device waits for it. *)
BeaconInv ==
  /\ beaconDue \/ locked = "Beacon" => beaconTimeout
  /\ locked = "Beacon" => ~beaconDue

(* A transmission that is to be scheduled or started has the device to      *)
(* itself: no window, no beacon, a radio that is off.                      *)
ScheduleInv ==
  scheduling # "None" \/ event = "StartTransmission" =>
    /\ state = "TIMEOUT"
    /\ currentPkt
    /\ RadioOff
    /\ event2 = "None"
    /\ ~beaconTimeout
    /\ scheduling # "None" => event = "None"

TxInv == state = "TX" => event = "None" /\ event2 = "None" /\ ~beaconTimeout

(* The windows come in order, and windows that a beacon has met are those   *)
(* of a frame before it.  Window 1 skipped for the beacon leaves           *)
(* RX1_PENDING behind, and window 2 then opens with the first one's check. *)
WindowInv ==
  /\ event = "Prepare1" => event2 = "Prepare2"
  /\ event2 = "Check2" => event = "None"
  /\ beaconTimeout /\ ~WindowsOver => crossing
  /\ event2 = "Prepare2" /\ event = "None" /\ state = "RX1_PENDING" => crossing
  /\ event = "Check1" /\ event2 = "None" => crossing /\ ~beaconTimeout
  /\ state = "RETRANSMISSION" => event2 = "None"

(* From SchedulePacket to the transmission there is one channel to take. *)
ChannelInv ==
  event = "StartTransmission" =>
    channelAvailable = {selected} /\ freeChannel = NoChannel

IInv ==
  /\ TypeOK
  /\ RadioInv
  /\ ListeningInv
  /\ BeaconInv
  /\ ScheduleInv
  /\ TxInv
  /\ WindowInv
  /\ ChannelInv

-----------------------------------------------------------------------------
(* The steps below unfold the invariant; each names its action's helpers. *)
USE
  DEF
    IInv, TypeOK, RadioTypes, PhyTypeOK, States, FrameTypes, EventTypes, RadioInv,
    ListeningInv, RadioAttended, BeaconInv, ScheduleInv, RadioOff, TxInv, WindowInv,
    WindowsOver, Windows, ChannelInv, frameVars, channelVars, eventVars, orderVars,
    radioVars, phyVars

(* A packet waits in the queue. *)
LEMMA SendFromStep ==
  ASSUME IInv, SendFrom
  PROVE  IInv'
<1> USE DEF SendFrom
<1>1. TypeOK'
  BY RsConstants DEF ChannelTypes
<1>2. RadioInv' /\ ListeningInv' /\ BeaconInv'
  OBVIOUS
<1>3. ScheduleInv' /\ TxInv' /\ ChannelInv' /\ WindowInv'
  OBVIOUS
<1> QED BY <1>1, <1>2, <1>3

(* The state only changes where no window and no transmission is to come. *)
LEMMA TryAgainStep ==
  ASSUME IInv, TryAgain
  PROVE  IInv'
<1> USE DEF TryAgain, DoTryAgain
<1>1. TypeOK'
  <2>1. RadioTypes'
    OBVIOUS
  <2>2. FrameTypes'
    <3>1. queue' \in 0..QueueLimit
      BY RsConstants
    <3>2. currentPkt' \in BOOLEAN
      OBVIOUS
    <3>3. retransmissionCount' \in 0..MaxCount
      BY RsConstants
    <3> QED BY <3>1, <3>2, <3>3
  <2>3. ChannelTypes'
    BY RsConstants DEF ChannelTypes
  <2>4. EventTypes'
    OBVIOUS
  <2> QED BY <2>1, <2>2, <2>3, <2>4
<1>2. RadioInv' /\ ListeningInv' /\ BeaconInv'
  OBVIOUS
<1>3. ScheduleInv' /\ TxInv' /\ ChannelInv' /\ WindowInv'
  OBVIOUS
<1> QED BY <1>1, <1>2, <1>3

(* Windows that the beacon meets are those of the frame before it. *)
LEMMA ReceiveBeaconStep ==
  ASSUME IInv, ReceiveBeacon
  PROVE  IInv'
<1> USE DEF ReceiveBeacon, ChangeState
<1>1. TypeOK'
  BY RsConstants DEF ChannelTypes
<1>2. RadioInv' /\ ListeningInv' /\ BeaconInv'
  OBVIOUS
<1>3. ScheduleInv' /\ TxInv' /\ ChannelInv' /\ WindowInv'
  OBVIOUS
<1> QED BY <1>1, <1>2, <1>3

(* The beacon is received while the device waits for it. *)
LEMMA SendBeaconStep ==
  ASSUME IInv, SendBeacon
  PROVE  IInv'
<1> USE DEF SendBeacon, StartRx, NotifyReceptionStart
<1>1. TypeOK'
  <2>1. RadioTypes'
    OBVIOUS
  <2>2. FrameTypes'
    OBVIOUS
  <2>3. ChannelTypes'
    BY RsConstants DEF ChannelTypes
  <2>4. EventTypes'
    OBVIOUS
  <2> QED BY <2>1, <2>2, <2>3, <2>4
<1>2. RadioInv' /\ ListeningInv' /\ BeaconInv'
  OBVIOUS
<1>3. ScheduleInv' /\ TxInv' /\ ChannelInv' /\ WindowInv'
  OBVIOUS
<1> QED BY <1>1, <1>2, <1>3

(* What is scheduled without a beacon has no window to come, as after one. *)
LEMMA BeaconTimeoutStep ==
  ASSUME IInv, BeaconTimeout
  PROVE  IInv'
<1> USE DEF BeaconTimeout, AtBeacon, ListenNoMore, ChangeState
<1>1. TypeOK'
  <2>1. RadioTypes'
    OBVIOUS
  <2>2. FrameTypes'
    OBVIOUS
  <2>3. ChannelTypes'
    BY RsConstants DEF ChannelTypes
  <2>4. EventTypes'
    OBVIOUS
  <2> QED BY <2>1, <2>2, <2>3, <2>4
<1>2. RadioInv' /\ ListeningInv' /\ BeaconInv'
  OBVIOUS
<1>3. ScheduleInv' /\ TxInv' /\ ChannelInv' /\ WindowInv'
  OBVIOUS
<1> QED BY <1>1, <1>2, <1>3

(* The channel chosen is the only one there is. *)
LEMMA SchedulePacketStep ==
  ASSUME IInv, SchedulePacket
  PROVE  IInv'
<1> USE DEF SchedulePacket
<1>1. TypeOK'
  BY RsConstants DEF ChannelTypes
<1>2. RadioInv' /\ ListeningInv' /\ BeaconInv'
  OBVIOUS
<1>3. ScheduleInv' /\ TxInv' /\ ChannelInv' /\ WindowInv'
  OBVIOUS
<1> QED BY <1>1, <1>2, <1>3

(* A transmission finds the radio off, and is alone. *)
LEMMA StartTransmissionNoArgsStep ==
  ASSUME IInv, StartTransmissionNoArgs
  PROVE  IInv'
<1> USE DEF StartTransmissionNoArgs, StartTx
<1>1. TypeOK'
  BY RsConstants DEF ChannelTypes
<1>2. RadioInv' /\ ListeningInv' /\ BeaconInv'
  OBVIOUS
<1>3. ScheduleInv' /\ TxInv' /\ ChannelInv' /\ WindowInv'
  OBVIOUS
<1> QED BY <1>1, <1>2, <1>3

(* The windows follow a transmission. *)
LEMMA NotifyTransmissionEndStep ==
  ASSUME IInv, NotifyTransmissionEnd
  PROVE  IInv'
<1> USE DEF NotifyTransmissionEnd, EndTx
<1>1. TypeOK'
  BY RsConstants DEF ChannelTypes
<1>2. RadioInv' /\ ListeningInv' /\ BeaconInv'
  OBVIOUS
<1>3. ScheduleInv' /\ TxInv' /\ ChannelInv' /\ WindowInv'
  OBVIOUS
<1> QED BY <1>1, <1>2, <1>3

(* A channel is freed before another one is chosen, or not at all. *)
LEMMA FreeChannelStep ==
  ASSUME IInv, FreeChannel
  PROVE  IInv'
<1> USE DEF FreeChannel
<1>1. TypeOK'
  <2>1. RadioTypes'
    OBVIOUS
  <2>2. FrameTypes'
    OBVIOUS
  <2>3. ChannelTypes'
    BY RsConstants DEF ChannelTypes
  <2>4. EventTypes'
    OBVIOUS
  <2> QED BY <2>1, <2>2, <2>3, <2>4
<1>2. RadioInv' /\ ListeningInv' /\ BeaconInv'
  OBVIOUS
<1>3. ScheduleInv' /\ TxInv' /\ ChannelInv' /\ WindowInv'
  OBVIOUS
<1> QED BY <1>1, <1>2, <1>3

(* Window 1 opens, unless the device waits for a beacon. *)
LEMMA PrepareReception1Step ==
  ASSUME IInv, PrepareReception1
  PROVE  IInv'
<1> USE DEF PrepareReception1, DoPrepareReception, Pending, ChangeState
<1>1. TypeOK'
  BY RsConstants DEF ChannelTypes
<1>2. RadioInv' /\ ListeningInv' /\ BeaconInv'
  OBVIOUS
<1>3. ScheduleInv' /\ TxInv' /\ ChannelInv' /\ WindowInv'
  OBVIOUS
<1> QED BY <1>1, <1>2, <1>3

(* Window 2 comes after window 1, skipped or not. *)
LEMMA PrepareReception2Step ==
  ASSUME IInv, PrepareReception2
  PROVE  IInv'
<1> USE DEF PrepareReception2, DoPrepareReception, Pending, ChangeState
<1>1. TypeOK'
  BY RsConstants DEF ChannelTypes
<1>2. RadioInv' /\ ListeningInv' /\ BeaconInv'
  OBVIOUS
<1>3. ScheduleInv' /\ TxInv' /\ ChannelInv' /\ WindowInv'
  OBVIOUS
<1> QED BY <1>1, <1>2, <1>3

(* The check of window 1 leaves a reception or a wait for a beacon alone. *)
LEMMA CheckReceptionStep ==
  ASSUME IInv, CheckReception
  PROVE  IInv'
<1> USE DEF CheckReception, ListenNoMore, ChangeState
<1>1. TypeOK'
  <2>1. RadioTypes'
    OBVIOUS
  <2>2. FrameTypes'
    OBVIOUS
  <2>3. ChannelTypes'
    BY RsConstants DEF ChannelTypes
  <2>4. EventTypes'
    OBVIOUS
  <2> QED BY <2>1, <2>2, <2>3, <2>4
<1>2. RadioInv' /\ ListeningInv' /\ BeaconInv'
  OBVIOUS
<1>3. ScheduleInv' /\ TxInv' /\ ChannelInv' /\ WindowInv'
  OBVIOUS
<1> QED BY <1>1, <1>2, <1>3

(* After the check of window 2 no window is to come. *)
LEMMA CheckReception2Step ==
  ASSUME IInv, CheckReception2
  PROVE  IInv'
<1> USE DEF CheckReception2, ListenNoMore, ChangeState, AdrBackoff
<1>1. TypeOK'
  <2>1. RadioTypes'
    OBVIOUS
  <2>2. FrameTypes'
    OBVIOUS
  <2>3. ChannelTypes'
    BY RsConstants DEF ChannelTypes
  <2>4. EventTypes'
    OBVIOUS
  <2> QED BY <2>1, <2>2, <2>3, <2>4
<1>2. RadioInv' /\ ListeningInv' /\ BeaconInv'
  OBVIOUS
<1>3. ScheduleInv' /\ TxInv' /\ ChannelInv' /\ WindowInv'
  OBVIOUS
<1> QED BY <1>1, <1>2, <1>3

(* A signal is received by a radio that listens. *)
LEMMA WindowSignalStep ==
  ASSUME IInv, WindowSignal
  PROVE  IInv'
<1> USE DEF WindowSignal, StartRx, NotifyReceptionStart
<1>1. TypeOK'
  BY RsConstants DEF ChannelTypes
<1>2. RadioInv' /\ ListeningInv' /\ BeaconInv'
  OBVIOUS
<1>3. ScheduleInv' /\ TxInv' /\ ChannelInv' /\ WindowInv'
  OBVIOUS
<1> QED BY <1>1, <1>2, <1>3

(* A reception without a result: the radio is off, window 2 may be to come. *)
LEMMA NotifyReceptionEndErrorStep ==
  ASSUME IInv, NotifyReceptionEndError
  PROVE  IInv'
<1> USE DEF NotifyReceptionEndError, ReceptionOver, EndRx, AdrBackoff
<1>1. TypeOK'
  <2>1. RadioTypes'
    OBVIOUS
  <2>2. FrameTypes'
    OBVIOUS
  <2>3. ChannelTypes'
    BY RsConstants DEF ChannelTypes
  <2>4. EventTypes'
    OBVIOUS
  <2> QED BY <2>1, <2>2, <2>3, <2>4
<1>2. RadioInv' /\ ListeningInv' /\ BeaconInv'
  OBVIOUS
<1>3. ScheduleInv' /\ TxInv' /\ ChannelInv' /\ WindowInv'
  OBVIOUS
<1> QED BY <1>1, <1>2, <1>3

(* After the beacon the device does not wait for it any more. *)
LEMMA BeaconReceivedStep ==
  ASSUME IInv, BeaconReceived
  PROVE  IInv'
<1> USE DEF BeaconReceived, ReceptionOver, EndRx, AtBeacon
<1>1. TypeOK'
  <2>1. RadioTypes'
    OBVIOUS
  <2>2. FrameTypes'
    OBVIOUS
  <2>3. ChannelTypes'
    BY RsConstants DEF ChannelTypes
  <2>4. EventTypes'
    OBVIOUS
  <2> QED BY <2>1, <2>2, <2>3, <2>4
<1>2. RadioInv' /\ ListeningInv' /\ BeaconInv'
  OBVIOUS
<1>3. ScheduleInv' /\ TxInv' /\ ChannelInv' /\ WindowInv'
  OBVIOUS
<1> QED BY <1>1, <1>2, <1>3

(* A downlink ends the exchange; nothing is scheduled then. *)
LEMMA DownlinkReceivedStep ==
  ASSUME IInv, DownlinkReceived
  PROVE  IInv'
<1> USE DEF DownlinkReceived, ReceptionOver, EndRx
<1>1. TypeOK'
  <2>1. RadioTypes'
    OBVIOUS
  <2>2. FrameTypes'
    <3>1. nbRep' \in NbReps \cup {1}
      OBVIOUS
    <3>2. currentPkt' \in BOOLEAN
      OBVIOUS
    <3>3. tryAgain' \in Nat
      OBVIOUS
    <3> QED BY <3>1, <3>2, <3>3
  <2>3. ChannelTypes'
    BY RsConstants DEF ChannelTypes
  <2>4. EventTypes'
    OBVIOUS
  <2> QED BY <2>1, <2>2, <2>3, <2>4
<1>2. RadioInv' /\ ListeningInv' /\ BeaconInv'
  OBVIOUS
<1>3. ScheduleInv' /\ TxInv' /\ ChannelInv' /\ WindowInv'
  OBVIOUS
<1> QED BY <1>1, <1>2, <1>3

(* A downlink to another device ends a window like an error. *)
LEMMA OtherReceivedStep ==
  ASSUME IInv, OtherReceived
  PROVE  IInv'
<1> USE DEF OtherReceived, ReceptionOver, EndRx
<1>1. TypeOK'
  <2>1. RadioTypes'
    OBVIOUS
  <2>2. FrameTypes'
    OBVIOUS
  <2>3. ChannelTypes'
    BY RsConstants DEF ChannelTypes
  <2>4. EventTypes'
    OBVIOUS
  <2> QED BY <2>1, <2>2, <2>3, <2>4
<1>2. RadioInv' /\ ListeningInv' /\ BeaconInv'
  OBVIOUS
<1>3. ScheduleInv' /\ TxInv' /\ ChannelInv' /\ WindowInv'
  OBVIOUS
<1> QED BY <1>1, <1>2, <1>3

-----------------------------------------------------------------------------
(* A device that holds nothing and waits for nothing. *)
LEMMA Initially == Init => IInv
<1> SUFFICES ASSUME Init PROVE IInv
  OBVIOUS
<1> USE DEF Init, PhyInit
<1>1. RadioTypes /\ EventTypes
  OBVIOUS
<1>2. FrameTypes
  <2>1. QueueLimit \in Nat /\ MaxCount \in Nat
    BY RsConstants
  <2>2. 0 \in 0..QueueLimit /\ 0 \in 0..MaxCount
    BY <2>1
  <2>3. currentPkt \in BOOLEAN /\ nbRep \in NbReps \cup {1} /\ tryAgain \in Nat
    OBVIOUS
  <2> QED BY <2>2, <2>3
<1>3. ChannelTypes
  <2>1. MaxDr \in 0..MaxDr
    BY RsConstants
  <2> QED BY <2>1 DEF ChannelTypes
<1>4. RadioInv /\ ListeningInv /\ BeaconInv
  OBVIOUS
<1>5. ScheduleInv /\ TxInv /\ WindowInv /\ ChannelInv
  OBVIOUS
<1> QED BY <1>1, <1>2, <1>3, <1>4, <1>5

(* Steps that change nothing. *)
LEMMA Stuttering == IInv /\ UNCHANGED vars => IInv'
<1> SUFFICES ASSUME IInv, UNCHANGED vars PROVE IInv'
  OBVIOUS
<1> USE DEF vars
<1>1. TypeOK'
  BY DEF ChannelTypes
<1>2. RadioInv' /\ ListeningInv' /\ BeaconInv'
  OBVIOUS
<1>3. ScheduleInv' /\ TxInv' /\ WindowInv' /\ ChannelInv'
  OBVIOUS
<1> QED BY <1>1, <1>2, <1>3

HIDE
  DEF
    IInv, TypeOK, RadioTypes, PhyTypeOK, States, FrameTypes, EventTypes, RadioInv,
    ListeningInv, RadioAttended, BeaconInv, ScheduleInv, RadioOff, TxInv, WindowInv,
    WindowsOver, Windows, ChannelInv, frameVars, channelVars, eventVars, orderVars,
    radioVars, phyVars

-----------------------------------------------------------------------------
(* The inductive invariant: for each state of the MAC, what is scheduled    *)
(* and what the radio does (lora-rs-net-device.cc).                         *)
THEOREM Invariance == Spec => []IInv
<1>1. ASSUME IInv, Next PROVE IInv'
  <2>1. CASE SendFrom \/ WindowSignal
    BY <1>1, <2>1, SendFromStep, WindowSignalStep
  <2>2. CASE Timers
    BY <1>1, <2>2, TryAgainStep, ReceiveBeaconStep, SendBeaconStep, BeaconTimeoutStep,
       SchedulePacketStep, StartTransmissionNoArgsStep, NotifyTransmissionEndStep,
       FreeChannelStep, PrepareReception1Step, PrepareReception2Step,
       CheckReceptionStep, CheckReception2Step
    DEF Timers
  <2>3. CASE ReceptionEnd
    BY <1>1, <2>3, NotifyReceptionEndErrorStep, BeaconReceivedStep,
       DownlinkReceivedStep, OtherReceivedStep
    DEF ReceptionEnd
  <2> QED BY <1>1, <2>1, <2>2, <2>3 DEF Next
<1> QED BY <1>1, Initially, Stuttering, PTL DEF Spec

(* Every field of LoRaRsNetDevice keeps its type. *)
THEOREM TypeCorrectness == Spec => []TypeOK
BY Invariance, PTL DEF IInv

(* The assertions of lora-rs-net-device.cc hold: windows do not open in     *)
(* RETRANSMISSION or TX, SchedulePacket has a frame, and a transmission     *)
(* starts in TIMEOUT with a frame and a channel, whichever windows a beacon *)
(* has met.                                                                 *)
THEOREM AssertionsNeverFail == Spec => []AssertionsHold
<1>1. IInv => AssertionsHold
  BY DEF AssertionsHold, IInv, ScheduleInv, TxInv, WindowInv, ChannelInv
<1> QED BY <1>1, Invariance, PTL

(* A radio that is set to receive has somebody to turn it off: a check of a *)
(* window, the end of the beacon or that of a reception.                    *)
THEOREM RadioAlwaysAttended == Spec => []RadioAttended
BY Invariance, PTL DEF IInv, ListeningInv

(* A frame goes out on the channel SchedulePacket has chosen for it. *)
THEOREM ChannelAsScheduled == Spec => SentAsScheduled
<1>1. IInv /\ [Next]_vars
        => [transmission' /\ ~transmission => channelIndex' = selected]_vars
  <2>1. ASSUME IInv, StartTransmissionNoArgs PROVE channelIndex' = selected
    BY <2>1 DEF StartTransmissionNoArgs, IInv, ChannelInv
  <2>2. ASSUME Next, transmission', ~transmission PROVE StartTransmissionNoArgs
    <3> USE
      DEF
        SendFrom, TryAgain, ReceiveBeacon, ChangeState, SendBeacon, StartRx,
        BeaconTimeout, ListenNoMore, SchedulePacket, NotifyTransmissionEnd, EndTx,
        FreeChannel, PrepareReception1, PrepareReception2, DoPrepareReception,
        CheckReception, CheckReception2, WindowSignal, NotifyReceptionEndError,
        ReceptionOver, EndRx, BeaconReceived, DownlinkReceived, OtherReceived,
        eventVars, radioVars, phyVars
    <3>1. CASE Timers
      BY <2>2, <3>1 DEF Timers
    <3>2. CASE ReceptionEnd
      BY <2>2, <3>2 DEF ReceptionEnd
    <3>3. CASE SendFrom \/ WindowSignal
      BY <2>2, <3>3
    <3> QED BY <2>2, <3>1, <3>2, <3>3 DEF Next
  <2> QED BY <2>1, <2>2
<1> QED BY <1>1, Invariance, PTL DEF Spec, SentAsScheduled

=============================================================================
