-------------------------- MODULE LoRaRsNetDevice --------------------------
(***************************************************************************)
(* The MAC of an RS-LoRa device (model/lora-rs-net-device.cc) on the radio *)
(* of LoRaPhy, and the beacons of its gateway                              *)
(* (model/lora-rs-gw-net-device.cc).  Once a minute the device listens to  *)
(* a beacon, takes channel and data rate for the frame it holds from it,   *)
(* and sends the frame before the next beacon.  It derives from            *)
(* LoRaNetDevice, whose transmissions and duty-cycle waits it uses;        *)
(* TryAgain, the windows and the receptions are its own.                   *)
(*                                                                         *)
(* Time is abstracted to order.  A frame ends before the next beacon, as   *)
(* SchedulePacket takes care of, but the windows that follow within two    *)
(* seconds may meet the beacon; they are over before the one after.  The   *)
(* gateway sends 10 ms after the device listens, the beacon is shorter     *)
(* than the 0.4 s the device waits, and only one of the windows, which are *)
(* a second apart, falls into them.  A ScheduleNow'd change of the radio   *)
(* belongs to the event that schedules it.                                 *)
(***************************************************************************)
EXTENDS Integers, LoRaPhy

CONSTANTS
  Channels,     \* the channels a beacon is about, all of them with a frequency
  MaxDr,        \* 5: the fastest data rate of every channel
  NbReps,       \* numbers of repetitions a LinkAdrReq may carry
  QueueLimit,   \* packets the drop-tail queue holds
  MaxBurst,     \* bound: calls of SendFrom in one instant
  MaxCount,     \* bound: transmissions of a frame are counted up to this
  NoChannel     \* no channel

ASSUME RsConstants ==
  /\ Channels \subseteq 0..5 /\ Channels # {}
  /\ MaxDr \in 0..5
  /\ NbReps \subseteq Nat
  /\ {QueueLimit, MaxBurst} \subseteq Nat \ {0}
  /\ MaxCount \in Nat /\ \A n \in NbReps \cup {1} : n < MaxCount
  /\ NoChannel \notin Channels

VARIABLES
  state,                \* m_state
  queue,                \* how many packets m_queue holds
  currentPkt,           \* m_currentPkt # 0
  retransmissionCount,  \* transmissions of it
  nbRep,                \* m_nbRep
  heard,                \* m_channelRssiValues is not empty
  channelAvailable,     \* the channels with channelAvailable[i]
  channelIndex,         \* m_channelIndex
  freeChannel,          \* the channel m_freeChannel will free
  datarate,             \* datarate[], the same for every channel
  event,                \* what m_event will run, if it is pending
  event2,               \* what m_event2 will run, if it is pending
  scheduling,           \* m_transmission: SchedulePacket runs now, later or not
  beaconTimeout,        \* m_beaconTimeout is pending
  tryAgain,             \* TryAgain events of this instant
  beaconDue,            \* the gateway's SendBeacon of this minute is pending
  locked,               \* what the radio is locked on: "Beacon", "Window", "None"
  crossing,             \* the windows are those of a frame before this beacon
  early,                \* window 1 fell into the wait for this beacon
  selected              \* history: channel and data rate SchedulePacket chose

frameVars == <<queue, currentPkt, retransmissionCount>>
channelVars == <<channelAvailable, channelIndex, freeChannel>>
eventVars == <<event, event2, scheduling, beaconTimeout, tryAgain>>
orderVars == <<beaconDue, crossing, early>>
radioVars == <<phyVars, locked>>
vars == <<state, frameVars, nbRep, heard, channelVars, datarate, eventVars,
          orderVars, radioVars, selected>>

Windows == {"Prepare1", "Check1", "Prepare2", "Check2"}

Init ==
  /\ PhyInit
  /\ state = "IDLE"
  /\ queue = 0
  /\ currentPkt = FALSE
  /\ retransmissionCount = 0
  /\ nbRep = 1
  /\ heard = FALSE
  /\ channelAvailable = Channels \cap 0..2
  /\ channelIndex = NoChannel
  /\ freeChannel = NoChannel
  /\ datarate = MaxDr
  /\ event = "None"
  /\ event2 = "None"
  /\ scheduling = "None"
  /\ beaconTimeout = FALSE
  /\ tryAgain = 0
  /\ beaconDue = FALSE
  /\ locked = "None"
  /\ crossing = FALSE
  /\ early = FALSE
  /\ selected = NoChannel

-----------------------------------------------------------------------------
(* Helpers *)

(* Events of the current instant go before every event scheduled for later. *)
InstantOver == tryAgain = 0 /\ scheduling # "Now"

WindowsOver == event \notin Windows /\ event2 = "None"

(* The answer counter is left out: a window without an answer may be the    *)
(* one after which the device tries a slower data rate.                     *)
AdrBackoff == \/ UNCHANGED datarate
              \/ datarate > 0 /\ datarate' = datarate - 1

ListenNoMore == ChangeState("IDLE") /\ locked' = "None"

-----------------------------------------------------------------------------
(* From above *)

SendFrom ==
  /\ tryAgain < MaxBurst
  /\ tryAgain' = tryAgain + 1
  /\ queue' = IF queue < QueueLimit THEN queue + 1 ELSE queue
  /\ UNCHANGED <<state, currentPkt, retransmissionCount, nbRep, heard, channelVars,
                 datarate, event, event2, scheduling, beaconTimeout, orderVars,
                 radioVars, selected>>

(* The frame, or no frame, is done after nbRep transmissions: frames are    *)
(* unconfirmed. The next one waits for a beacon.                            *)
DoTryAgain ==
  LET done == retransmissionCount >= nbRep
      kept == currentPkt /\ ~done
  IN IF state \in {"IDLE", "RETRANSMISSION", "BEACON"}
     THEN /\ scheduling' = IF done THEN "None" ELSE scheduling
          /\ \/ /\ ~kept /\ queue > 0
                /\ queue' = queue - 1
                /\ currentPkt' = TRUE
                /\ retransmissionCount' = 0
                /\ state' = "TIMEOUT"
             \/ /\ kept \/ queue = 0
                /\ currentPkt' = kept
                /\ state' = IF done THEN "IDLE" ELSE state
                /\ UNCHANGED <<queue, retransmissionCount>>
     ELSE UNCHANGED <<state, frameVars, scheduling>>

TryAgain ==
  /\ tryAgain > 0
  /\ tryAgain' = tryAgain - 1
  /\ DoTryAgain
  /\ UNCHANGED <<nbRep, heard, channelVars, datarate, event, event2, beaconTimeout,
                 orderVars, radioVars, selected>>

-----------------------------------------------------------------------------
(* Beacons *)

(* The device listens, whatever it was doing. *)
ReceiveBeacon ==
  /\ ~beaconDue /\ ~beaconTimeout
  /\ scheduling = "None" /\ event # "StartTransmission" /\ ~transmission
  /\ crossing => WindowsOver /\ ~receiving
  /\ state' = "BEACON"
  /\ ChangeState("RX")
  /\ beaconTimeout' = TRUE
  /\ beaconDue' = TRUE
  /\ crossing' = (~WindowsOver \/ receiving)
  /\ early' = FALSE
  /\ UNCHANGED <<frameVars, nbRep, heard, channelVars, datarate, event, event2,
                 scheduling, tryAgain, locked, selected>>

(* What the radio's ReceptionStart callback does. *)
NotifyReceptionStart == state' = IF state = "BEACON" THEN state ELSE "RX"

(* The gateway's beacon is on air; the radio locks on it or does not. *)
SendBeacon ==
  /\ beaconDue
  /\ InstantOver
  /\ beaconDue' = FALSE
  /\ \/ StartRx /\ locked' = "Beacon" /\ NotifyReceptionStart
     \/ UNCHANGED <<radioVars, state>>
  /\ UNCHANGED <<frameVars, nbRep, heard, channelVars, datarate, eventVars,
                 crossing, early, selected>>

(* Mutant of AtBeacon: a frame that has a window to come is scheduled too. *)
AtBeaconUnguarded(when, otherwise) ==
  IF currentPkt /\ heard'
  THEN scheduling' = when /\ state' = "TIMEOUT"
  ELSE state' = otherwise /\ UNCHANGED scheduling

(* Mutant of AtBeacon: without a beacon nothing is scheduled. *)
AtBeaconOnly(when, otherwise) ==
  IF currentPkt /\ event2 = "None" /\ when = "Now"
  THEN scheduling' = when /\ state' = "TIMEOUT"
  ELSE state' = otherwise /\ UNCHANGED scheduling

(* The frame the device holds is scheduled, unless a window is to come. *)
AtBeacon(when, otherwise) ==
  IF currentPkt /\ event2 = "None" /\ heard'
  THEN scheduling' = when /\ state' = "TIMEOUT"
  ELSE state' = otherwise /\ UNCHANGED scheduling

(* Without a beacon, the last one that was heard serves again. *)
BeaconTimeout ==
  /\ beaconTimeout
  /\ InstantOver
  /\ ~beaconDue /\ locked # "Beacon"
  /\ beaconTimeout' = FALSE
  /\ UNCHANGED heard
  /\ IF state = "RX" THEN UNCHANGED <<state, scheduling, radioVars>>
     ELSE ListenNoMore /\ AtBeacon("Later", "IDLE")
  /\ UNCHANGED <<frameVars, nbRep, channelVars, datarate, event, event2, tryAgain,
                 orderVars, selected>>

(* Mutant of SchedulePacket: the mask does not end the duty-cycle wait.     *)
SchedulePacketRemasked ==
  /\ scheduling # "None"
  /\ scheduling = "Later" => InstantOver
  /\ scheduling' = "None"
  /\ \E c \in Channels, dr \in 0..MaxDr :
       /\ channelAvailable' = {c}
       /\ datarate' = dr
       /\ selected' = c
  /\ event' = "StartTransmission"
  /\ UNCHANGED <<state, frameVars, nbRep, heard, channelIndex, freeChannel, event2,
                 beaconTimeout, tryAgain, orderVars, radioVars>>

(* The channel and the data rate depend on the strengths in the beacon and  *)
(* on chance; the mask of that channel makes it available, cancels the      *)
(* duty-cycle wait and takes all others away. The frame starts when there   *)
(* is time for it before the next beacon.                                   *)
SchedulePacket ==
  /\ scheduling # "None"
  /\ scheduling = "Later" => InstantOver
  /\ scheduling' = "None"
  /\ \E c \in Channels, dr \in 0..MaxDr :
       /\ channelAvailable' = {c}
       /\ datarate' = dr
       /\ selected' = c
  /\ freeChannel' = NoChannel
  /\ event' = "StartTransmission"
  /\ UNCHANGED <<state, frameVars, nbRep, heard, channelIndex, event2, beaconTimeout,
                 tryAgain, orderVars, radioVars>>

-----------------------------------------------------------------------------
(* The transmission, as LoRaNetDevice has it *)

StartTransmissionNoArgs ==
  /\ event = "StartTransmission"
  /\ InstantOver
  /\ event' = "None"
  /\ channelIndex' \in channelAvailable
  /\ retransmissionCount' = IF retransmissionCount < MaxCount
                            THEN retransmissionCount + 1 ELSE MaxCount
  /\ state' = "TX"
  /\ StartTx
  /\ UNCHANGED <<queue, currentPkt, nbRep, heard, channelAvailable, freeChannel,
                 datarate, event2, scheduling, beaconTimeout, tryAgain, orderVars,
                 locked, selected>>

NotifyTransmissionEnd ==
  /\ InstantOver
  /\ EndTx
  /\ state' = "RX1_PENDING"
  /\ channelAvailable' = channelAvailable \ {channelIndex}
  /\ freeChannel' = channelIndex
  /\ event' = "Prepare1"
  /\ event2' = "Prepare2"
  /\ crossing' = FALSE
  /\ UNCHANGED <<frameVars, nbRep, heard, channelIndex, datarate, scheduling,
                 beaconTimeout, tryAgain, beaconDue, early, locked, selected>>

FreeChannel ==
  /\ freeChannel # NoChannel
  /\ InstantOver
  /\ channelAvailable' = channelAvailable \cup {freeChannel}
  /\ freeChannel' = NoChannel
  /\ UNCHANGED <<state, frameVars, nbRep, heard, channelIndex, datarate, eventVars,
                 orderVars, radioVars, selected>>

-----------------------------------------------------------------------------
(* The windows *)

Pending == {"RX1_PENDING", "RX2_PENDING"}

(* A window opens, with the check its state asks for, unless the device is  *)
(* waiting for a beacon. recovered is the state it is in if it had another. *)
DoPrepareReception(recovered) ==
  LET s == IF state \in Pending THEN state ELSE recovered
  IN /\ state' = s
     /\ IF beaconTimeout THEN UNCHANGED radioVars
        ELSE ChangeState("RX") /\ UNCHANGED locked
     /\ event' = IF ~beaconTimeout /\ s = "RX1_PENDING" THEN "Check1"
                 ELSE IF recovered = "RX1_PENDING" THEN "None" ELSE event
     /\ event2' = IF ~beaconTimeout /\ s = "RX2_PENDING" THEN "Check2"
                  ELSE IF recovered = "RX2_PENDING" THEN "None" ELSE event2

PrepareReception1 ==
  /\ event = "Prepare1"
  /\ InstantOver
  /\ early' = beaconTimeout
  /\ DoPrepareReception("RX1_PENDING")
  /\ UNCHANGED <<frameVars, nbRep, heard, channelVars, datarate, scheduling,
                 beaconTimeout, tryAgain, beaconDue, crossing, selected>>

PrepareReception2 ==
  /\ event2 = "Prepare2"
  /\ event \notin {"Prepare1", "Check1"}
  /\ early => ~beaconTimeout
  /\ InstantOver
  /\ DoPrepareReception("RX2_PENDING")
  /\ UNCHANGED <<frameVars, nbRep, heard, channelVars, datarate, scheduling,
                 beaconTimeout, tryAgain, orderVars, selected>>

CheckReception ==
  /\ event = "Check1"
  /\ InstantOver
  /\ event' = "None"
  /\ IF state \in {"RX", "BEACON"} THEN UNCHANGED <<state, radioVars>>
     ELSE ListenNoMore /\ state' = "RX2_PENDING"
  /\ UNCHANGED <<frameVars, nbRep, heard, channelVars, datarate, event2, scheduling,
                 beaconTimeout, tryAgain, orderVars, selected>>

CheckReception2 ==
  /\ event2 = "Check2"
  /\ InstantOver
  /\ event2' = "None"
  /\ IF state = "RX" THEN UNCHANGED <<state, radioVars, datarate, tryAgain>>
     ELSE /\ AdrBackoff
          /\ tryAgain' = tryAgain + 1
          /\ IF state = "BEACON" THEN UNCHANGED <<state, radioVars>>
             ELSE ListenNoMore /\ state' = "RETRANSMISSION"
  /\ UNCHANGED <<frameVars, nbRep, heard, channelVars, event, scheduling,
                 beaconTimeout, orderVars, selected>>

-----------------------------------------------------------------------------
(* Receptions *)

(* A downlink starts while the device listens for one. *)
WindowSignal ==
  /\ ~beaconTimeout
  /\ InstantOver
  /\ StartRx
  /\ locked' = "Window"
  /\ NotifyReceptionStart
  /\ UNCHANGED <<frameVars, nbRep, heard, channelVars, datarate, eventVars, orderVars,
                 selected>>

(* What remains of a reception: the radio is idle. *)
ReceptionOver == InstantOver /\ EndRx /\ locked' = "None"

NotifyReceptionEndError ==
  /\ ReceptionOver
  /\ IF event2 = "None"
     THEN state' = "RETRANSMISSION" /\ tryAgain' = tryAgain + 1 /\ AdrBackoff
     ELSE state' = "RX2_PENDING" /\ UNCHANGED <<tryAgain, datarate>>
  /\ UNCHANGED <<frameVars, nbRep, heard, channelVars, event, event2, scheduling,
                 beaconTimeout, orderVars, selected>>

(* NotifyReceptionEndOk of a beacon. *)
BeaconReceived ==
  /\ locked = "Beacon"
  /\ ReceptionOver
  /\ beaconTimeout' = FALSE
  /\ heard' = TRUE
  /\ AtBeacon("Now", state)
  /\ UNCHANGED <<frameVars, nbRep, channelVars, datarate, event, event2, tryAgain,
                 orderVars, selected>>

(* NotifyReceptionEndOk of a downlink to this device: whatever frame it     *)
(* holds is taken to be answered. A LinkAdrReq may be in it; of that only   *)
(* the number of repetitions outlasts the next SchedulePacket.              *)
DownlinkReceived ==
  /\ locked = "Window"
  /\ ReceptionOver
  /\ state' = "RETRANSMISSION"
  /\ currentPkt' = FALSE
  /\ scheduling' = "None"
  /\ event' = "None"
  /\ event2' = "None"
  /\ tryAgain' = tryAgain + 1
  /\ nbRep' \in NbReps \cup {nbRep}
  /\ UNCHANGED <<queue, retransmissionCount, heard, channelVars, datarate,
                 beaconTimeout, orderVars, selected>>

(* NotifyReceptionEndOk of a downlink to another device. *)
OtherReceived ==
  /\ locked = "Window"
  /\ ReceptionOver
  /\ IF event2 = "None" THEN state' = "RETRANSMISSION" /\ tryAgain' = tryAgain + 1
     ELSE state' = "RX2_PENDING" /\ UNCHANGED tryAgain
  /\ UNCHANGED <<frameVars, nbRep, heard, channelVars, datarate, event, event2,
                 scheduling, beaconTimeout, orderVars, selected>>

-----------------------------------------------------------------------------
Timers ==
  \/ TryAgain \/ ReceiveBeacon \/ SendBeacon \/ BeaconTimeout
  \/ SchedulePacket \/ StartTransmissionNoArgs \/ NotifyTransmissionEnd \/ FreeChannel
  \/ PrepareReception1 \/ PrepareReception2 \/ CheckReception \/ CheckReception2

ReceptionEnd ==
  NotifyReceptionEndError \/ BeaconReceived \/ DownlinkReceived \/ OtherReceived

Next == SendFrom \/ Timers \/ WindowSignal \/ ReceptionEnd

(* Every scheduled event runs and every reception ends, even if the         *)
(* application sends again and again: it does not do so in one instant, and *)
(* time goes on; hence strong fairness for those that others can hold up.   *)
(* Beacons need not be heard, nor downlinks come.                           *)
Fairness ==
  /\ WF_vars(TryAgain)
  /\ WF_vars(ReceiveBeacon)
  /\ SF_vars(SendBeacon)
  /\ SF_vars(BeaconTimeout)
  /\ SF_vars(SchedulePacket)
  /\ SF_vars(StartTransmissionNoArgs)
  /\ WF_vars(NotifyTransmissionEnd)
  /\ SF_vars(PrepareReception1)
  /\ SF_vars(PrepareReception2)
  /\ SF_vars(CheckReception)
  /\ SF_vars(CheckReception2)
  /\ SF_vars(ReceptionEnd)

Spec == Init /\ [][Next]_vars
FairSpec == Spec /\ Fairness

-----------------------------------------------------------------------------
(* Properties *)

(* The assertions of the code hold when they are reached: a window does not *)
(* open in RETRANSMISSION or TX, SchedulePacket has a frame to schedule, a  *)
(* transmission starts in TIMEOUT with a frame, and has a channel.          *)
AssertionsHold ==
  /\ event = "Prepare1" /\ InstantOver => state \notin {"RETRANSMISSION", "TX"}
  /\ event2 = "Prepare2" /\ event = "None" /\ InstantOver =>
       state \notin {"RETRANSMISSION", "TX"}
  /\ scheduling # "None" => currentPkt
  /\ event = "StartTransmission" =>
       state = "TIMEOUT" /\ currentPkt /\ channelAvailable # {}

(* The radio is never left listening: a check, the end of the wait for a    *)
(* beacon or the end of a reception will turn it off. It is in TX exactly   *)
(* during a transmission.                                                   *)
RadioAttended ==
  /\ phyState = "RX" =>
       beaconTimeout \/ receiving \/ event = "Check1" \/ event2 = "Check2"
  /\ phyState = "TX" <=> transmission

(* A frame goes out on the channel SchedulePacket chose for it by what the  *)
(* beacon said, not on one whose duty-cycle wait happened to end meanwhile. *)
SentAsScheduled == [][ transmission' /\ ~transmission => channelIndex' = selected ]_vars

(* A device that has heard a beacon at some time does not hold a frame for  *)
(* good without sending it, whether or not further beacons are heard.       *)
FrameSent ==
  heard /\ currentPkt /\ retransmissionCount = 0 ~>
    retransmissionCount > 0 \/ ~currentPkt

=============================================================================
