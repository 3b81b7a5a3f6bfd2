---------------------------- MODULE LoRaNetDevice ----------------------------
(***************************************************************************)
(* The class A MAC of an end device (model/lora-net-device.cc) together    *)
(* with the radio it drives (LoRaPhy).                                     *)
(*                                                                         *)
(* The MAC keeps one frame at a time: it takes it from the queue, sends    *)
(* it on a channel whose duty-cycle wait is over, listens in two receive   *)
(* windows and then retries, gives up or takes the next frame.  All of     *)
(* that is spread over simulator events.  m_event and m_event2 are the     *)
(* handles of the two pending events the MAC may cancel; an event whose    *)
(* handle has been overwritten, or that never had one, still fires.        *)
(*                                                                         *)
(* Time is abstracted to the order of events.  Events scheduled with       *)
(* ScheduleNow run before any later event; the first window is prepared    *)
(* m_delay - 0.01 s after the transmission and checked 0.03 s later, the   *)
(* second one m_delay + 0.99 s after it, so the events of window 1 are     *)
(* over when window 2 is prepared.  Nothing else is assumed about delays:  *)
(* a reception may be shorter than a window or span both.                  *)
(***************************************************************************)
EXTENDS Integers, Sequences, LoRaPhy

CONSTANTS
  Channels,      \* indices with frequencies[i] # 0
  MaskBits,      \* indices a channel mask may name (Channels and empty slots)
  QueueLimit,    \* packets the drop-tail queue holds
  MaxTries,      \* 9: transmissions of a confirmed frame before it is given up
  BackoffTries,  \* {3, 5, 7}: the tries after which the data rate is lowered
  MaxDr,         \* 5: the fastest data rate of every channel
  AdrAckReq,     \* 60: unanswered frames after which an answer is asked for
  AdrAckLimit,   \* 64: unanswered frames after which the data rate is lowered
  AckCntMod,     \* 2^8: m_ackCnt is a uint8_t
  SeqMod,        \* 2^16: m_seqNum is a uint16_t
  Commands,      \* the LinkAdrReq commands a downlink may carry
  NbReps,        \* values SetNbRep may be called with
  MaxBurst,      \* calls of SendFrom in one instant on an idle device
  MaxFreeing,    \* bound: pending FreeChannel events of one channel
  NoPacket,      \* m_currentPkt = 0
  NoCommand      \* a downlink without a command

NoChannel == 127   \* what GetFreeChannel returns when no channel is free

LinkAdrReq == [dr : Nat, mask : SUBSET MaskBits, nbRep : Nat]
Packet == [confirmed : BOOLEAN, seq : Nat, adrAck : BOOLEAN]

ASSUME ChannelsAssumption ==
  /\ Channels \subseteq 0..15
  /\ Channels \cap {0, 1, 2} # {}
  /\ Channels \subseteq MaskBits
  /\ MaskBits \subseteq 0..15
ASSUME BoundsAssumption ==
  /\ {QueueLimit, MaxTries, AdrAckReq, SeqMod, AckCntMod, MaxBurst, MaxFreeing}
       \subseteq Nat \ {0}
  /\ {MaxDr, AdrAckLimit} \subseteq Nat
  /\ AdrAckReq < AckCntMod
  /\ AdrAckReq <= AdrAckLimit
  /\ NbReps \subseteq Nat
ASSUME CommandsAssumption ==
  /\ \A c \in Commands : c.dr \in Nat /\ c.nbRep \in Nat /\ c.mask \subseteq MaskBits
  /\ NoCommand \notin Commands
ASSUME NoPacketAssumption == NoPacket \notin Packet

VARIABLES
  state,                \* m_state
  queue,                \* m_queue, each packet by its "confirmed" flag
  currentPkt,           \* m_currentPkt
  retransmissionCount,  \* transmissions of m_currentPkt so far
  seqNum,               \* m_seqNum, the counter of the next new frame
  ackCnt,               \* m_ackCnt, new frames since the last downlink
  nbRep,                \* m_nbRep
  datarate,             \* datarate[], the same for every channel
  channelAvailable,     \* the indices with channelAvailable[i]
  channelIndex,         \* m_channelIndex
  freeing,              \* pending FreeChannel events of each channel
  freeChannel,          \* the channel of the one m_freeChannel still refers to
  event,                \* what m_event will run, if it is pending
  event2,               \* what m_event2 will run, if it is pending
  strayTryAgain,        \* TryAgain events of this instant without a handle
  opening               \* the ScheduleNow'd ChangeState(RX) is pending

macVars == <<state, queue, currentPkt, retransmissionCount, seqNum, ackCnt,
             nbRep, datarate>>
channelVars == <<channelAvailable, channelIndex, freeing, freeChannel>>
eventVars == <<event, event2, strayTryAgain, opening>>
vars == <<macVars, channelVars, eventVars, phyVars>>

-----------------------------------------------------------------------------
(* Helpers *)

Confirmed == currentPkt # NoPacket /\ currentPkt.confirmed

(* Events of the current instant go before every event scheduled for later. *)
InstantOver == strayTryAgain = 0 /\ event # "TryAgainNow" /\ ~opening

(* m_event = ScheduleNow(TryAgain) without a Remove: a TryAgain the handle  *)
(* still referred to stays scheduled.                                       *)
TryAgainNow ==
  /\ event' = "TryAgainNow"
  /\ strayTryAgain' = strayTryAgain + (IF event = "TryAgainNow" THEN 1 ELSE 0)

Slower(dr) == IF dr > 0 THEN dr - 1 ELSE dr

(* Mutant of AdrBackoff: the limit is forgotten. *)
AdrBackoffAtOnce ==
  IF ackCnt > 0
  THEN datarate' = Slower(datarate) /\ ackCnt' = 0
  ELSE UNCHANGED <<datarate, ackCnt>>

(* More than AdrAckLimit frames went unanswered: try a slower data rate. *)
AdrBackoff ==
  IF ackCnt > AdrAckLimit
  THEN datarate' = Slower(datarate) /\ ackCnt' = 0
  ELSE UNCHANGED <<datarate, ackCnt>>

(* Mutant of Masked: bits of empty slots are applied too. *)
MaskedUnchecked(mask) == IF mask = {} THEN channelAvailable ELSE mask

(* SetChannelMask on the available channels: a mask without a usable bit is *)
(* rejected, one with a bit of an empty slot is applied up to that bit.     *)
Masked(mask) ==
  LET valid == mask \cap Channels
      bad   == mask \ Channels
  IN  IF valid = {}
      THEN channelAvailable
      ELSE {c \in valid : \A b \in bad : c < b}
             \cup {c \in channelAvailable : \E b \in bad : b < c}

(* SetChannelMask cancels the latest duty-cycle wait before it looks at the *)
(* mask, whether or not it then accepts it.                                 *)
SetChannelMask(mask) ==
  /\ channelAvailable' = Masked(mask)
  /\ freeing' = IF freeChannel = NoChannel THEN freeing
                ELSE [freeing EXCEPT ![freeChannel] = @ - 1]
  /\ freeChannel' = NoChannel
  /\ UNCHANGED channelIndex

SetMaxDataRate(dr) == datarate' = IF dr <= MaxDr THEN dr ELSE datarate

(* LinkAdrReq::Execute *)
Execute(cmd) ==
  IF cmd = NoCommand
  THEN UNCHANGED <<datarate, nbRep, channelVars>>
  ELSE /\ SetMaxDataRate(cmd.dr)
       /\ SetChannelMask(cmd.mask)
       /\ nbRep' = cmd.nbRep

Init ==
  /\ PhyInit
  /\ state = "IDLE"
  /\ queue = <<>>
  /\ currentPkt = NoPacket
  /\ retransmissionCount = 0
  /\ seqNum = 0
  /\ ackCnt \in 1..AdrAckReq
  /\ nbRep = 1
  /\ datarate = MaxDr
  /\ channelAvailable = Channels \cap {0, 1, 2}
  /\ channelIndex = NoChannel
  /\ freeing = [c \in Channels |-> 0]
  /\ freeChannel = NoChannel
  /\ event = "None"
  /\ event2 = "None"
  /\ strayTryAgain = 0
  /\ opening = FALSE

-----------------------------------------------------------------------------
(* Called from above: the application and whoever configures the device *)

(* SendFrom.  On an idle device it cancels the pending m_event and runs     *)
(* TryAgain in the same instant, through an event it keeps no handle of.    *)
(* MaxBurst bounds how many packets are handed over in one such instant.    *)
SendFrom(confirmed) ==
  /\ queue' = IF Len(queue) < QueueLimit THEN Append(queue, confirmed) ELSE queue
  /\ \/ /\ state = "IDLE"
        /\ strayTryAgain < MaxBurst
        /\ event' = "None"
        /\ strayTryAgain' = strayTryAgain + 1
     \/ /\ state # "IDLE"
        /\ UNCHANGED <<event, strayTryAgain>>
  /\ UNCHANGED <<state, currentPkt, retransmissionCount, seqNum, ackCnt, nbRep,
                 datarate, channelVars, event2, opening, phyVars>>

SetNbRep(n) ==
  /\ nbRep' = n
  /\ UNCHANGED <<state, queue, currentPkt, retransmissionCount, seqNum, ackCnt,
                 datarate, channelVars, eventVars, phyVars>>

-----------------------------------------------------------------------------
(* TryAgain decides what to send next *)

(* Mutants of Finished: a confirmed frame loses its last try; an            *)
(* unconfirmed one is to be sent more than nbRep times.                    *)
FinishedEarly ==
  \/ Confirmed /\ retransmissionCount = MaxTries - 1
  \/ ~Confirmed /\ retransmissionCount >= nbRep
FinishedLate ==
  \/ Confirmed /\ retransmissionCount = MaxTries
  \/ ~Confirmed /\ retransmissionCount > nbRep

(* A confirmed frame is given up after MaxTries transmissions, an          *)
(* unconfirmed one (and no frame at all) is finished after nbRep.          *)
Finished ==
  \/ Confirmed /\ retransmissionCount = MaxTries
  \/ ~Confirmed /\ retransmissionCount >= nbRep

Kept   == IF Finished THEN NoPacket ELSE currentPkt
Rested == IF Finished THEN "IDLE" ELSE state

(* The next packet of the queue becomes the current frame. *)
TakeFromQueue ==
  /\ Kept = NoPacket
  /\ channelAvailable # {}
  /\ queue # <<>>
  /\ queue' = Tail(queue)
  /\ currentPkt' = [confirmed |-> Head(queue), seq |-> seqNum,
                    adrAck |-> ackCnt >= AdrAckReq]
  /\ ackCnt' = (ackCnt + 1) % AckCntMod
  /\ seqNum' = (seqNum + 1) % SeqMod
  /\ retransmissionCount' = 0
  /\ state' = "TIMEOUT"
  /\ event' = "StartTransmission"
  /\ UNCHANGED datarate

NothingToSend ==
  /\ Kept = NoPacket
  /\ channelAvailable # {}
  /\ queue = <<>>
  /\ state' = Rested
  /\ currentPkt' = NoPacket
  /\ event' = "None"
  /\ UNCHANGED <<queue, retransmissionCount, seqNum, ackCnt, datarate>>

(* Mutant of Retransmit: no channel has to be free. *)
RetransmitAnyway ==
  /\ Kept # NoPacket
  /\ Confirmed
  /\ state' = "TIMEOUT"
  /\ event' = "StartTransmission"
  /\ UNCHANGED <<queue, currentPkt, retransmissionCount, seqNum, ackCnt, datarate>>

(* Another try of an unanswered confirmed frame, slower after some tries. *)
Retransmit ==
  /\ Kept # NoPacket
  /\ Confirmed
  /\ channelAvailable # {}
  /\ datarate' = IF retransmissionCount \in BackoffTries THEN Slower(datarate)
                                                         ELSE datarate
  /\ state' = "TIMEOUT"
  /\ event' = "StartTransmission"
  /\ UNCHANGED <<queue, currentPkt, retransmissionCount, seqNum, ackCnt>>

(* Mutant of Postpone: nothing is scheduled. *)
PostponeForGood ==
  /\ \/ channelAvailable = {}
     \/ Kept # NoPacket /\ ~Confirmed
  /\ state' = Rested
  /\ currentPkt' = Kept
  /\ event' = "None"
  /\ UNCHANGED <<queue, retransmissionCount, seqNum, ackCnt, datarate>>

(* Ask again in a second: no channel is free, or the frame is unconfirmed  *)
(* and not finished.                                                       *)
Postpone ==
  /\ \/ channelAvailable = {}
     \/ Kept # NoPacket /\ ~Confirmed
  /\ state' = Rested
  /\ currentPkt' = Kept
  /\ event' = "TryAgain"
  /\ UNCHANGED <<queue, retransmissionCount, seqNum, ackCnt, datarate>>

(* DoTryAgain cancels m_event first, also when the state makes it do        *)
(* nothing else.                                                           *)
DoTryAgain ==
  /\ \/ /\ state \in {"IDLE", "RETRANSMISSION"}
        /\ TakeFromQueue \/ NothingToSend \/ Retransmit \/ Postpone
     \/ /\ state \notin {"IDLE", "RETRANSMISSION"}
        /\ event' = "None"
        /\ UNCHANGED <<state, queue, currentPkt, retransmissionCount, seqNum,
                       ackCnt, datarate>>
  /\ UNCHANGED <<nbRep, channelVars, event2, opening, phyVars>>

(* A TryAgain without a handle was scheduled before the one m_event has. *)
TryAgain ==
  /\ \/ strayTryAgain > 0 /\ strayTryAgain' = strayTryAgain - 1
     \/ /\ strayTryAgain = 0
        /\ event \in {"TryAgainNow", "TryAgain"}
        /\ UNCHANGED strayTryAgain
  /\ DoTryAgain

-----------------------------------------------------------------------------
(* The transmission *)

(* GetFreeChannel picks any available channel. *)
StartTransmissionNoArgs ==
  /\ event = "StartTransmission"
  /\ InstantOver
  /\ \/ \E c \in channelAvailable :
          /\ channelIndex' = c
          /\ retransmissionCount' = retransmissionCount + 1
          /\ state' = "TX"
          /\ event' = "None"
          /\ StartTx
     \/ /\ channelAvailable = {}
        /\ state' = "RETRANSMISSION"
        /\ event' = "TryAgain"
        /\ UNCHANGED <<channelIndex, retransmissionCount, phyVars>>
  /\ UNCHANGED <<queue, currentPkt, seqNum, ackCnt, nbRep, datarate,
                 channelAvailable, freeing, freeChannel, event2, strayTryAgain,
                 opening>>

(* Mutant of DutyCycleWait: the channel stays available. *)
DutyCycleUnmarked ==
  /\ freeing[channelIndex] < MaxFreeing
  /\ freeing' = [freeing EXCEPT ![channelIndex] = @ + 1]
  /\ freeChannel' = channelIndex
  /\ UNCHANGED <<channelAvailable, channelIndex>>

(* The channel of the transmission is taken until FreeChannel runs. The     *)
(* waits of a channel are bounded by MaxFreeing.                           *)
DutyCycleWait ==
  /\ freeing[channelIndex] < MaxFreeing
  /\ channelAvailable' = channelAvailable \ {channelIndex}
  /\ freeing' = [freeing EXCEPT ![channelIndex] = @ + 1]
  /\ freeChannel' = channelIndex
  /\ UNCHANGED channelIndex

(* The radio's EndTx calls back: the channel starts its duty-cycle wait and *)
(* both receive windows are scheduled.                                      *)
NotifyTransmissionEnd ==
  /\ InstantOver
  /\ EndTx
  /\ DutyCycleWait
  /\ state' = "RX1_PENDING"
  /\ event' = "PrepareReception"
  /\ event2' = "PrepareReception"
  /\ UNCHANGED <<queue, currentPkt, retransmissionCount, seqNum, ackCnt, nbRep,
                 datarate, strayTryAgain, opening>>

(* A duty-cycle wait is over. The handle refers to the latest wait only. *)
FreeChannel(c) ==
  /\ freeing[c] > 0
  /\ channelAvailable' = channelAvailable \cup {c}
  /\ freeing' = [freeing EXCEPT ![c] = @ - 1]
  /\ \/ freeChannel = c /\ freeChannel' = NoChannel
     \/ (freeChannel # c \/ freeing[c] > 1) /\ UNCHANGED freeChannel
  /\ UNCHANGED <<macVars, channelIndex, eventVars, phyVars>>

-----------------------------------------------------------------------------
(* The receive windows *)

(* DoPrepareReception, from the event that the caller names as fired: the   *)
(* state, not the event, decides which window is opened.                    *)
DoPrepareReception(firedEvent, firedEvent2) ==
  /\ \/ /\ state = "RX"
        /\ event' = firedEvent
        /\ event2' = firedEvent2
        /\ UNCHANGED opening
     \/ /\ state = "RX1_PENDING"
        /\ event' = "CheckReception"
        /\ event2' = firedEvent2
        /\ opening' = TRUE
     \/ /\ state \notin {"RX", "RX1_PENDING"}
        /\ event' = firedEvent
        /\ event2' = "CheckReception2"
        /\ opening' = TRUE
  /\ UNCHANGED <<macVars, channelVars, strayTryAgain, phyVars>>

PrepareReception1 ==
  /\ event = "PrepareReception"
  /\ InstantOver
  /\ DoPrepareReception("None", event2)

PrepareReception2 ==
  /\ event2 = "PrepareReception"
  /\ InstantOver
  /\ event \notin {"PrepareReception", "CheckReception"}
  /\ DoPrepareReception(event, "None")

(* The ScheduleNow'd ChangeState(RX) of the radio. *)
OpenReceiver ==
  /\ opening
  /\ opening' = FALSE
  /\ ChangeState("RX")
  /\ UNCHANGED <<macVars, channelVars, event, event2, strayTryAgain>>

CheckReception ==
  /\ event = "CheckReception"
  /\ InstantOver
  /\ event' = "None"
  /\ \/ /\ state # "RX"
        /\ state' = "RX2_PENDING"
        /\ ChangeState("IDLE")
     \/ /\ state = "RX"
        /\ UNCHANGED <<state, phyVars>>
  /\ UNCHANGED <<queue, currentPkt, retransmissionCount, seqNum, ackCnt, nbRep,
                 datarate, channelVars, event2, strayTryAgain, opening>>

CheckReception2 ==
  /\ event2 = "CheckReception2"
  /\ InstantOver
  /\ event2' = "None"
  /\ TryAgainNow
  /\ \/ /\ state # "RX"
        /\ state' = "RETRANSMISSION"
        /\ ChangeState("IDLE")
        /\ AdrBackoff
     \/ /\ state = "RX"
        /\ UNCHANGED <<state, datarate, ackCnt, phyVars>>
  /\ UNCHANGED <<queue, currentPkt, retransmissionCount, seqNum, nbRep,
                 channelVars, opening>>

(* The radio locks on a signal: NotifyReceptionStart. *)
NotifyReceptionStart ==
  /\ StartRx
  /\ state' = "RX"
  /\ UNCHANGED <<queue, currentPkt, retransmissionCount, seqNum, ackCnt, nbRep,
                 datarate, channelVars, eventVars>>

(* Mutant of BackToWindow2: m_event is not removed. *)
BackToWindow2KeepingEvent ==
  /\ event2 # "None"
  /\ state' = "RX2_PENDING"
  /\ UNCHANGED <<event, strayTryAgain>>

(* What both end-of-reception handlers do with a frame that is of no use:  *)
(* wait for window 2, unless m_event2 has nothing pending any more.        *)
BackToWindow2 ==
  /\ event2 # "None"
  /\ state' = "RX2_PENDING"
  /\ event' = "None"
  /\ UNCHANGED strayTryAgain

(* Mutants of WindowsOver: window 2 is not looked at; nobody is told. *)
WindowsOverEarly ==
  /\ state' = "RETRANSMISSION"
  /\ TryAgainNow
WindowsOverSilent ==
  /\ event2 = "None"
  /\ state' = "RETRANSMISSION"
  /\ event' = "None"
  /\ UNCHANGED strayTryAgain

WindowsOver ==
  /\ event2 = "None"
  /\ state' = "RETRANSMISSION"
  /\ TryAgainNow

(* The reception ended with bit errors or was destroyed by an interferer. *)
NotifyReceptionEndError ==
  /\ EndRx
  /\ \/ BackToWindow2 /\ UNCHANGED <<ackCnt, datarate>>
     \/ WindowsOver /\ AdrBackoff
  /\ UNCHANGED <<queue, currentPkt, retransmissionCount, seqNum, nbRep,
                 channelVars, event2, opening>>

(* A frame for another device, or from one. *)
NotifyReceptionEndOther ==
  /\ EndRx
  /\ BackToWindow2 \/ WindowsOver
  /\ UNCHANGED <<queue, currentPkt, retransmissionCount, seqNum, ackCnt, nbRep,
                 datarate, channelVars, event2, opening>>

(* A downlink for this device.  Every data downlink counts as the answer to *)
(* the current frame.  Its command is executed before TryAgain runs.        *)
NotifyReceptionEndOk(cmd) ==
  /\ EndRx
  /\ state' = "RETRANSMISSION"
  /\ event2' = "None"
  /\ event' = "TryAgainNow"
  /\ ackCnt' = 0
  /\ currentPkt' = NoPacket
  /\ Execute(cmd)
  /\ UNCHANGED <<queue, retransmissionCount, seqNum, strayTryAgain, opening>>

-----------------------------------------------------------------------------
ReceptionEnd ==
  \/ NotifyReceptionEndError
  \/ NotifyReceptionEndOther
  \/ \E cmd \in Commands \cup {NoCommand} : NotifyReceptionEndOk(cmd)

Next ==
  \/ \E confirmed \in BOOLEAN : SendFrom(confirmed)
  \/ \E n \in NbReps : SetNbRep(n)
  \/ TryAgain
  \/ StartTransmissionNoArgs
  \/ NotifyTransmissionEnd
  \/ \E c \in Channels : FreeChannel(c)
  \/ PrepareReception1
  \/ PrepareReception2
  \/ OpenReceiver
  \/ CheckReception
  \/ CheckReception2
  \/ NotifyReceptionStart
  \/ ReceptionEnd

(* Every scheduled simulator event runs, and every reception ends.  The     *)
(* application and the other radios owe nothing.                            *)
Fairness ==
  /\ WF_vars(TryAgain)
  /\ WF_vars(StartTransmissionNoArgs)
  /\ WF_vars(NotifyTransmissionEnd)
  /\ \A c \in Channels : WF_vars(FreeChannel(c))
  /\ WF_vars(PrepareReception1)
  /\ WF_vars(PrepareReception2)
  /\ WF_vars(OpenReceiver)
  /\ WF_vars(CheckReception)
  /\ WF_vars(CheckReception2)
  /\ WF_vars(ReceptionEnd)

Spec == Init /\ [][Next]_vars
FairSpec == Spec /\ Fairness

-----------------------------------------------------------------------------
(* Properties *)

(* The types of the variables. *)
TypeOK ==
  /\ PhyTypeOK
  /\ state \in {"IDLE", "TIMEOUT", "TX", "RX", "RETRANSMISSION",
                "RX1_PENDING", "RX2_PENDING"}
  /\ queue \in Seq(BOOLEAN)
  /\ currentPkt \in Packet \cup {NoPacket}
  /\ retransmissionCount \in Nat
  /\ seqNum \in Nat
  /\ ackCnt \in Nat
  /\ nbRep \in Nat
  /\ datarate \in Nat
  /\ strayTryAgain \in Nat
  /\ channelAvailable \subseteq Channels
  /\ channelIndex \in Channels \cup {NoChannel}
  /\ freeing \in [Channels -> Nat]
  /\ freeChannel \in Channels \cup {NoChannel}
  /\ event \in {"None", "TryAgain", "TryAgainNow", "StartTransmission",
                "PrepareReception", "CheckReception"}
  /\ event2 \in {"None", "PrepareReception", "CheckReception2"}
  /\ opening \in BOOLEAN

(* The assertions of the handlers hold whenever the event that runs the     *)
(* handler is pending and may fire: StartTransmissionNoArgs has a frame and *)
(* is in TIMEOUT (lines 495, 497), DoPrepareReception is not called while   *)
(* transmitting or retrying (686, 687), the two checks of the windows find  *)
(* the window's own state or a reception (724, 821).                        *)
AssertionsHold ==
  /\ event = "StartTransmission" => currentPkt # NoPacket /\ state = "TIMEOUT"
  /\ event = "PrepareReception" \/ event2 = "PrepareReception"
       => state \notin {"RETRANSMISSION", "TX"}
  /\ event = "CheckReception" => state \in {"RX", "RX1_PENDING"}
  /\ event2 = "CheckReception2" => state \in {"RX", "RX2_PENDING"}

(* MAC and radio agree although each changes state on its own events: the   *)
(* MAC is in RX exactly while the radio is locked on a signal and in TX     *)
(* exactly while a frame is on air, and the receiver never stays powered    *)
(* once no check and no end of reception is left to switch it off.          *)
RadioFollowsMac ==
  /\ (state = "RX") = receiving
  /\ (state = "TX") = transmission
  /\ (phyState = "TX") = transmission
  /\ phyState = "RX" =>
       receiving \/ event = "CheckReception" \/ event2 = "CheckReception2"

(* No handler overwrites a handle whose timed event is still pending, which *)
(* would leave an event nobody can cancel: the end of a transmission finds  *)
(* both handles free, the end of the windows finds m_event free.            *)
NoTimerOrphaned ==
  /\ transmission => event = "None" /\ event2 = "None"
  /\ receiving /\ event2 = "None" => event \in {"None", "TryAgainNow"}
  /\ event2 = "CheckReception2" => event = "None"
  /\ event2 = "PrepareReception" /\ state \notin {"RX", "RX1_PENDING"} => event = "None"

(* "This should not be the case, but anyway" (line 500): between the time   *)
(* a frame is scheduled and the time it is sent, a channel stays free.      *)
ChannelReserved == state = "TIMEOUT" => channelAvailable # {}

(* The device is never stranded: out of IDLE something is pending that      *)
(* brings it back, and an idle device with queued packets has a TryAgain    *)
(* scheduled to take the next one.                                          *)
NeverStranded ==
  state # "IDLE" \/ queue # <<>> =>
    \/ event # "None"
    \/ event2 # "None"
    \/ strayTryAgain > 0
    \/ transmission
    \/ receiving

(* A data rate is given up for lack of answers only by a device whose last  *)
(* frame asked the network for one.                                         *)
BackoffAfterRequest ==
  [][ ackCnt > 0 /\ ackCnt' = 0 /\ datarate' # datarate /\ state' = "RETRANSMISSION"
        /\ currentPkt' # NoPacket
      => currentPkt.adrAck ]_vars

(* Every frame is resolved: acknowledged, finished or given up. *)
FrameEventuallyResolved ==
  \A s \in 0..SeqMod - 1 :
    (currentPkt # NoPacket /\ currentPkt.seq = s)
      ~> (currentPkt = NoPacket \/ currentPkt.seq # s)

(* The head of the queue is eventually taken: TryAgain asks for a channel   *)
(* until FreeChannel has made one available. Not with a mask that           *)
(* SetChannelMask rejects.                                                  *)
QueueServed ==
  \A s \in 0..SeqMod - 1 : (queue # <<>> /\ seqNum = s) ~> seqNum # s

(* No channel is available and none ever will be. *)
Starved == channelAvailable = {} /\ \A c \in Channels : freeing[c] = 0

(* The head of the queue is eventually taken, whatever else arrives or is   *)
(* sent, unless the device starves, and nothing makes it starve but a       *)
(* downlink with a mask that names none of its channels: no other path      *)
(* through SetChannelMask, CancelFreeChannel and FreeChannel leaves it      *)
(* without a channel to wait for.                                           *)
QueueServedUnlessStarved ==
  /\ \A s \in 0..SeqMod - 1 :
       (queue # <<>> /\ seqNum = s) ~> (seqNum # s \/ Starved)
  /\ [][ ~Starved /\ Starved' =>
           \E cmd \in Commands :
             cmd.mask \cap Channels = {} /\ NotifyReceptionEndOk(cmd) ]_vars

-----------------------------------------------------------------------------
(* The exchange the events amount to *)

Phase ==
  CASE state = "TX" -> "uplink"
    [] state = "RX1_PENDING" ->
         IF event = "CheckReception" /\ ~opening THEN "window1" ELSE "gap1"
    [] state = "RX2_PENDING" ->
         IF event2 = "CheckReception2" /\ ~opening THEN "window2" ELSE "gap2"
    [] state = "RX" ->
         IF event2 = "PrepareReception" THEN "window1" ELSE "window2"
    [] OTHER -> "standby"

Exchange == INSTANCE ClassA WITH
  phase <- Phase, frame <- currentPkt, tries <- retransmissionCount,
  counter <- seqNum, NoFrame <- NoPacket

(* Whatever the interleaving of its events, the device behaves as a class A *)
(* device: one frame at a time, and no uplink before the receive windows of *)
(* the previous one are over.                                               *)
ImplementsClassA == Exchange!Spec

=============================================================================
