------------------------ MODULE LoRaNetDeviceProofs -------------------------
(***************************************************************************)
(* Proofs about LoRaNetDevice, for any channels, queue, limits and         *)
(* commands.  They hold of a device that is used the way the library's own *)
(* applications use it: one packet per instant, and the repetition counts  *)
(* a LinkAdrReq can carry.  Neither can be dropped: of two packets in one   *)
(* instant the second TryAgain removes the transmission the first one has  *)
(* scheduled, and with nbRep = 2 a downlink after the first transmission   *)
(* leaves the device in RETRANSMISSION with nothing scheduled.             *)
(***************************************************************************)
EXTENDS LoRaNetDeviceDuty, TLAPS

(* One call of SendFrom per instant; nbRep is 0 or 1. *)
UsedAsShipped ==
  /\ MaxBurst = 1
  /\ NbReps \subseteq {0, 1}
  /\ \A c \in Commands : c.nbRep \in {0, 1}

-----------------------------------------------------------------------------
(* The inductive invariant: for every state of the MAC, which events are    *)
(* pending, what the radio does and what is known of the current frame.     *)

RadioOff == phyState = "IDLE" /\ ~receiving /\ ~transmission /\ ~opening

IdleInv ==
  state = "IDLE" =>
    /\ RadioOff
    /\ event2 = "None"
    /\ event \in {"None", "TryAgain"}
    /\ strayTryAgain \in {0, 1}
    /\ currentPkt = NoPacket
    /\ queue # <<>> => strayTryAgain = 1 \/ event = "TryAgain"

TimeoutInv ==
  state = "TIMEOUT" =>
    /\ RadioOff
    /\ event2 = "None"
    /\ event = "StartTransmission"
    /\ strayTryAgain = 0
    /\ currentPkt # NoPacket
    /\ channelAvailable # {}
    /\ IF currentPkt.confirmed THEN retransmissionCount # MaxTries
                               ELSE retransmissionCount = 0

TxInv ==
  state = "TX" =>
    /\ phyState = "TX"
    /\ transmission
    /\ ~receiving
    /\ ~opening
    /\ event = "None"
    /\ event2 = "None"
    /\ strayTryAgain = 0
    /\ channelIndex \in Channels

Rx1PendingInv ==
  state = "RX1_PENDING" =>
    /\ ~receiving
    /\ ~transmission
    /\ strayTryAgain = 0
    /\ event2 = "PrepareReception"
    /\ \/ event = "PrepareReception" /\ phyState = "IDLE" /\ ~opening
       \/ event = "CheckReception" /\ phyState = "IDLE" /\ opening
       \/ event = "CheckReception" /\ phyState = "RX" /\ ~opening

Rx2PendingInv ==
  state = "RX2_PENDING" =>
    /\ ~receiving
    /\ ~transmission
    /\ strayTryAgain = 0
    /\ event = "None"
    /\ \/ event2 = "PrepareReception" /\ phyState = "IDLE" /\ ~opening
       \/ event2 = "CheckReception2" /\ phyState = "IDLE"
       \/ event2 = "CheckReception2" /\ phyState = "RX" /\ ~opening

RxInv ==
  state = "RX" =>
    /\ phyState = "RX"
    /\ receiving
    /\ ~transmission
    /\ ~opening
    /\ strayTryAgain = 0
    /\ \/ event2 = "PrepareReception" /\ event \in {"None", "CheckReception"}
       \/ event2 = "CheckReception2" /\ event = "None"
       \/ event2 = "None" /\ event \in {"None", "TryAgainNow"}

RetransmissionInv ==
  state = "RETRANSMISSION" =>
    /\ RadioOff
    /\ event2 = "None"
    /\ \/ event = "TryAgainNow" /\ strayTryAgain \in {0, 1}
       \/ event = "TryAgain" /\ strayTryAgain = 0

(* While the frame is in an exchange it exists and has been sent. *)
FrameInv ==
  /\ state \in {"TX", "RX1_PENDING", "RX2_PENDING", "RX"} => currentPkt # NoPacket
  /\ state \in {"TX", "RX1_PENDING", "RX2_PENDING", "RX", "RETRANSMISSION"}
       => retransmissionCount > 0
  /\ currentPkt # NoPacket /\ ackCnt > AdrAckReq => currentPkt.adrAck

SettingsInv ==
  /\ nbRep \in {0, 1}
  /\ freeChannel # NoChannel => freeing[freeChannel] > 0

StateInv ==
  /\ IdleInv
  /\ TimeoutInv
  /\ TxInv
  /\ Rx1PendingInv
  /\ Rx2PendingInv
  /\ RxInv
  /\ RetransmissionInv

IInv == TypeOK /\ StateInv /\ FrameInv /\ SettingsInv

-----------------------------------------------------------------------------
(* A counter that wraps stays a natural number and never jumps ahead. *)
LEMMA Wrap ==
  ASSUME NEW n \in Nat, NEW m \in Nat \ {0}
  PROVE  n % m \in Nat /\ n % m <= n
OBVIOUS

(* A transmission is only ever ended in TX, on one of the channels. *)
LEMMA Transmitting ==
  ASSUME IInv, transmission
  PROVE  state = "TX" /\ channelIndex \in Channels
BY DEF IInv, TypeOK, StateInv, RadioOff, IdleInv, TimeoutInv, TxInv, Rx1PendingInv,
       Rx2PendingInv, RxInv, RetransmissionInv

(* A reception is only ever ended in RX. *)
LEMMA Receiving ==
  ASSUME IInv, receiving
  PROVE  state = "RX"
BY DEF IInv, TypeOK, StateInv, RadioOff, IdleInv, TimeoutInv, TxInv, Rx1PendingInv,
       Rx2PendingInv, RetransmissionInv

(* A transmission is only ever started in TIMEOUT, with a frame and a free  *)
(* channel.                                                                *)
LEMMA Starting ==
  ASSUME IInv, event = "StartTransmission"
  PROVE  state = "TIMEOUT" /\ currentPkt # NoPacket /\ channelAvailable # {}
BY DEF IInv, TypeOK, StateInv, IdleInv, TimeoutInv, TxInv, Rx1PendingInv,
       Rx2PendingInv, RxInv, RetransmissionInv

(* Each action preserves the invariant. Setting the repetition count. *)
LEMMA SetNbRepStep ==
  ASSUME UsedAsShipped, IInv, NEW n \in NbReps, SetNbRep(n)
  PROVE  IInv'
<1>1. TypeOK'
  BY BoundsAssumption
  DEF IInv, TypeOK, PhyTypeOK, channelVars, eventVars, phyVars, SetNbRep
<1>2. StateInv'
  BY DEF IInv, StateInv, RadioOff, IdleInv, TimeoutInv, TxInv, Rx1PendingInv,
         Rx2PendingInv, RxInv, RetransmissionInv, channelVars, eventVars, phyVars,
         SetNbRep
<1>3. FrameInv' /\ SettingsInv'
  BY DEF IInv, FrameInv, SettingsInv, UsedAsShipped, channelVars, SetNbRep
<1> QED BY <1>1, <1>2, <1>3 DEF IInv

(* A frame goes on air: there is a channel for it. *)
LEMMA StartTransmissionStep ==
  ASSUME UsedAsShipped, IInv, StartTransmissionNoArgs
  PROVE  IInv'
<1>0. PICK c \in channelAvailable :
        /\ channelIndex' = c
        /\ retransmissionCount' = retransmissionCount + 1
        /\ state' = "TX"
        /\ event' = "None"
        /\ StartTx
  BY Starting DEF StartTransmissionNoArgs
<1>1. TypeOK'
  <2>1. c \in Channels /\ retransmissionCount' \in Nat
    BY <1>0 DEF IInv, TypeOK
  <2> QED BY <1>0 DEF IInv, TypeOK, PhyTypeOK, StartTransmissionNoArgs, StartTx
<1>2. StateInv'
  BY DEF IInv, TypeOK, StateInv, RadioOff, IdleInv, TimeoutInv, TxInv, Rx1PendingInv,
         Rx2PendingInv, RxInv, RetransmissionInv, StartTransmissionNoArgs, StartTx
<1>3. FrameInv' /\ SettingsInv'
  BY Starting DEF IInv, TypeOK, FrameInv, SettingsInv, StartTransmissionNoArgs
<1> QED BY <1>1, <1>2, <1>3 DEF IInv

(* The end of a transmission schedules both windows. *)
LEMMA TransmissionEndStep ==
  ASSUME UsedAsShipped, IInv, NotifyTransmissionEnd
  PROVE  IInv'
<1>1. TypeOK'
  <2>1. channelIndex \in Channels /\ freeing' \in [Channels -> Nat]
    BY Transmitting DEF IInv, TypeOK, NotifyTransmissionEnd, DutyCycleWait, EndTx
  <2> QED BY <2>1
          DEF IInv, TypeOK, PhyTypeOK, NotifyTransmissionEnd, DutyCycleWait, EndTx
<1>2. StateInv'
  BY DEF IInv, TypeOK, StateInv, RadioOff, IdleInv, TimeoutInv, TxInv, Rx1PendingInv,
         Rx2PendingInv, RxInv, RetransmissionInv, NotifyTransmissionEnd,
         DutyCycleWait, EndTx
<1>3. FrameInv' /\ SettingsInv'
  BY Transmitting
  DEF IInv, TypeOK, FrameInv, SettingsInv, NotifyTransmissionEnd, DutyCycleWait, EndTx
<1> QED BY <1>1, <1>2, <1>3 DEF IInv

(* The end of a duty-cycle wait touches the channels only. *)
LEMMA FreeChannelStep ==
  ASSUME UsedAsShipped, IInv, NEW c \in Channels, FreeChannel(c)
  PROVE  IInv'
<1>1. TypeOK'
  BY DEF IInv, TypeOK, PhyTypeOK, macVars, eventVars, phyVars, FreeChannel
<1>2. StateInv'
  BY DEF IInv, StateInv, RadioOff, IdleInv, TimeoutInv, TxInv, Rx1PendingInv,
         Rx2PendingInv, RxInv, RetransmissionInv, macVars, eventVars, phyVars,
         FreeChannel
<1>3. FrameInv' /\ SettingsInv'
  BY DEF IInv, TypeOK, FrameInv, SettingsInv, macVars, FreeChannel
<1> QED BY <1>1, <1>2, <1>3 DEF IInv

(* Window 1 is prepared. *)
LEMMA Prepare1Step ==
  ASSUME UsedAsShipped, IInv, PrepareReception1
  PROVE  IInv'
<1>1. TypeOK'
  BY DEF IInv, TypeOK, PhyTypeOK, StateInv, RxInv, RetransmissionInv, UsedAsShipped,
         macVars, channelVars, phyVars, PrepareReception1, DoPrepareReception
<1>2. StateInv'
  BY DEF IInv, StateInv, IdleInv, TimeoutInv, TxInv, Rx1PendingInv, Rx2PendingInv,
         RxInv, RetransmissionInv, macVars, phyVars, PrepareReception1,
         DoPrepareReception
<1>3. FrameInv' /\ SettingsInv'
  BY DEF IInv, FrameInv, SettingsInv, macVars, channelVars, PrepareReception1,
         DoPrepareReception
<1> QED BY <1>1, <1>2, <1>3 DEF IInv

(* Window 2 is prepared, or skipped in the middle of a reception. *)
LEMMA Prepare2Step ==
  ASSUME UsedAsShipped, IInv, PrepareReception2
  PROVE  IInv'
<1>1. TypeOK'
  BY DEF IInv, TypeOK, PhyTypeOK, StateInv, TimeoutInv, TxInv, Rx2PendingInv, RxInv,
         RetransmissionInv, macVars, channelVars, phyVars, PrepareReception2,
         DoPrepareReception
<1>2. StateInv'
  BY DEF IInv, StateInv, IdleInv, TimeoutInv, TxInv, Rx1PendingInv, Rx2PendingInv,
         RxInv, RetransmissionInv, macVars, phyVars, PrepareReception2,
         DoPrepareReception
<1>3. FrameInv' /\ SettingsInv'
  BY DEF IInv, FrameInv, SettingsInv, macVars, channelVars, PrepareReception2,
         DoPrepareReception
<1> QED BY <1>1, <1>2, <1>3 DEF IInv

(* The receiver is switched on in the instant a window is prepared. *)
LEMMA OpenReceiverStep ==
  ASSUME UsedAsShipped, IInv, OpenReceiver
  PROVE  IInv'
<1>1. TypeOK'
  BY DEF IInv, TypeOK, PhyTypeOK, StateInv, TxInv, Rx1PendingInv, Rx2PendingInv,
         RxInv, RetransmissionInv, macVars, channelVars, OpenReceiver, ChangeState
<1>2. StateInv'
  BY DEF IInv, StateInv, RadioOff, IdleInv, TimeoutInv, TxInv, Rx1PendingInv,
         Rx2PendingInv, RxInv, RetransmissionInv, macVars, OpenReceiver, ChangeState
<1>3. FrameInv' /\ SettingsInv'
  BY DEF IInv, FrameInv, SettingsInv, macVars, channelVars, OpenReceiver
<1> QED BY <1>1, <1>2, <1>3 DEF IInv

(* Window 1 closes, unless a reception is going on. *)
LEMMA Check1Step ==
  ASSUME UsedAsShipped, IInv, CheckReception
  PROVE  IInv'
<1>1. TypeOK'
  BY DEF IInv, TypeOK, PhyTypeOK, StateInv, channelVars, phyVars, CheckReception,
         ChangeState
<1>2. StateInv'
  BY BoundsAssumption, NoPacketAssumption
  DEF IInv, TypeOK, PhyTypeOK, StateInv, RadioOff, IdleInv, TimeoutInv, TxInv,
      Rx1PendingInv, Rx2PendingInv, RxInv, RetransmissionInv, FrameInv, macVars,
      channelVars, eventVars, phyVars, CheckReception, ChangeState, InstantOver
<1>3. FrameInv' /\ SettingsInv'
  BY DEF IInv, TypeOK, StateInv, IdleInv, TimeoutInv, RetransmissionInv, FrameInv,
         SettingsInv, channelVars, CheckReception
<1> QED BY <1>1, <1>2, <1>3 DEF IInv

(* Window 2 closes, or leaves its work to the end of the reception. *)
LEMMA Check2Step ==
  ASSUME UsedAsShipped, IInv, CheckReception2
  PROVE  IInv'
<1>1. TypeOK'
  BY BoundsAssumption
  DEF IInv, TypeOK, PhyTypeOK, StateInv, RadioOff, IdleInv, TimeoutInv, TxInv,
      Rx1PendingInv, Rx2PendingInv, RxInv, RetransmissionInv, SettingsInv,
      UsedAsShipped, macVars, channelVars, eventVars, phyVars, CheckReception2,
      ChangeState, InstantOver, TryAgainNow, AdrBackoff, Slower
<1>2. StateInv'
  BY BoundsAssumption, NoPacketAssumption
  DEF IInv, TypeOK, PhyTypeOK, StateInv, RadioOff, IdleInv, TimeoutInv, TxInv,
      Rx1PendingInv, Rx2PendingInv, RxInv, RetransmissionInv, FrameInv, macVars,
      channelVars, eventVars, phyVars, CheckReception2, ChangeState, InstantOver,
      TryAgainNow, AdrBackoff, Slower
<1>3. FrameInv' /\ SettingsInv'
  BY BoundsAssumption
  DEF IInv, TypeOK, StateInv, IdleInv, TimeoutInv, FrameInv, SettingsInv, channelVars,
      CheckReception2, AdrBackoff
<1> QED BY <1>1, <1>2, <1>3 DEF IInv

(* The radio locks on a signal. *)
LEMMA ReceptionStartStep ==
  ASSUME UsedAsShipped, IInv, NotifyReceptionStart
  PROVE  IInv'
<1>1. TypeOK'
  BY DEF IInv, TypeOK, PhyTypeOK, channelVars, eventVars, NotifyReceptionStart,
         StartRx
<1>2. StateInv'
  BY DEF IInv, TypeOK, StateInv, RadioOff, IdleInv, TimeoutInv, TxInv, Rx1PendingInv,
         Rx2PendingInv, RxInv, RetransmissionInv, eventVars, NotifyReceptionStart,
         StartRx
<1>3. FrameInv' /\ SettingsInv'
  BY DEF IInv, TypeOK, StateInv, RadioOff, IdleInv, TimeoutInv, RetransmissionInv,
         FrameInv, SettingsInv, channelVars, NotifyReceptionStart, StartRx
<1> QED BY <1>1, <1>2, <1>3 DEF IInv

(* A reception ends with errors or is destroyed. *)
LEMMA ReceptionErrorStep ==
  ASSUME UsedAsShipped, IInv, NotifyReceptionEndError
  PROVE  IInv'
<1>1. TypeOK'
  <2>1. strayTryAgain' \in Nat /\ ackCnt' \in Nat /\ datarate' \in Nat
    BY DEF IInv, TypeOK, NotifyReceptionEndError, BackToWindow2, WindowsOver,
           TryAgainNow, AdrBackoff, Slower
  <2>2. /\ state' \in {"RX2_PENDING", "RETRANSMISSION"}
        /\ event' \in {"None", "TryAgainNow"}
    BY DEF NotifyReceptionEndError, BackToWindow2, WindowsOver, TryAgainNow
  <2> QED BY <2>1, <2>2
          DEF IInv, TypeOK, PhyTypeOK, channelVars, NotifyReceptionEndError, EndRx
<1>2. StateInv'
  BY DEF IInv, TypeOK, StateInv, RadioOff, IdleInv, TimeoutInv, TxInv, Rx1PendingInv,
         Rx2PendingInv, RxInv, RetransmissionInv, NotifyReceptionEndError, EndRx,
         BackToWindow2, WindowsOver, TryAgainNow
<1>3. FrameInv' /\ SettingsInv'
  BY Receiving, BoundsAssumption
  DEF IInv, FrameInv, SettingsInv, channelVars, NotifyReceptionEndError, EndRx,
      AdrBackoff
<1> QED BY <1>1, <1>2, <1>3 DEF IInv

(* A reception was meant for another device. *)
LEMMA ReceptionOtherStep ==
  ASSUME UsedAsShipped, IInv, NotifyReceptionEndOther
  PROVE  IInv'
<1>1. TypeOK'
  <2>1. strayTryAgain' \in Nat /\ ackCnt' \in Nat /\ datarate' \in Nat
    BY DEF IInv, TypeOK, NotifyReceptionEndOther, BackToWindow2, WindowsOver,
           TryAgainNow
  <2>2. /\ state' \in {"RX2_PENDING", "RETRANSMISSION"}
        /\ event' \in {"None", "TryAgainNow"}
    BY DEF NotifyReceptionEndOther, BackToWindow2, WindowsOver, TryAgainNow
  <2> QED BY <2>1, <2>2
          DEF IInv, TypeOK, PhyTypeOK, channelVars, NotifyReceptionEndOther, EndRx
<1>2. StateInv'
  BY Receiving, BoundsAssumption, NoPacketAssumption
  DEF IInv, TypeOK, PhyTypeOK, StateInv, RadioOff, IdleInv, TimeoutInv, TxInv,
      Rx1PendingInv, Rx2PendingInv, RxInv, RetransmissionInv, FrameInv, macVars,
      channelVars, eventVars, phyVars, NotifyReceptionEndOther, EndRx, BackToWindow2,
      WindowsOver, TryAgainNow
<1>3. FrameInv' /\ SettingsInv'
  BY Receiving
  DEF IInv, FrameInv, SettingsInv, channelVars, NotifyReceptionEndOther, EndRx
<1> QED BY <1>1, <1>2, <1>3 DEF IInv

(* A packet handed over, on an idle device or on a busy one. *)
LEMMA SendFromStep ==
  ASSUME UsedAsShipped, IInv, NEW confirmed \in BOOLEAN, SendFrom(confirmed)
  PROVE  IInv'
<1>1. queue' \in Seq(BOOLEAN)
  <2>1. CASE Len(queue) < QueueLimit
    BY <2>1 DEF SendFrom, IInv, TypeOK
  <2>2. CASE ~(Len(queue) < QueueLimit)
    BY <2>2 DEF SendFrom, IInv, TypeOK
  <2> QED BY <2>1, <2>2
<1>2. TypeOK'
  BY <1>1 DEF IInv, TypeOK, PhyTypeOK, SendFrom, channelVars, phyVars
<1>3. StateInv'
  BY DEF IInv, StateInv, RadioOff, IdleInv, TimeoutInv, TxInv, Rx1PendingInv,
         Rx2PendingInv, RxInv, RetransmissionInv, UsedAsShipped, SendFrom,
         channelVars, phyVars
<1>4. FrameInv' /\ SettingsInv'
  BY DEF IInv, FrameInv, SettingsInv, SendFrom, channelVars
<1> QED BY <1>2, <1>3, <1>4 DEF IInv

(* A rejected or partial mask still leaves a set of existing channels. *)
LEMMA MaskStep ==
  ASSUME IInv, NEW mask, SetChannelMask(mask)
  PROVE  /\ channelAvailable' \subseteq Channels
         /\ freeing' \in [Channels -> Nat]
         /\ freeChannel' = NoChannel
         /\ channelIndex' = channelIndex
<1>1. Masked(mask) \subseteq Channels
  BY DEF IInv, TypeOK, Masked
<1>2. freeing' \in [Channels -> Nat]
  <2>1. CASE freeChannel = NoChannel
    BY <2>1 DEF IInv, TypeOK, SetChannelMask
  <2>2. CASE freeChannel # NoChannel
    BY DEF IInv, TypeOK, SettingsInv, SetChannelMask
  <2> QED BY <2>1, <2>2
<1> QED BY <1>1, <1>2 DEF SetChannelMask

(* A downlink answers the frame and may carry a command. *)
LEMMA ReceptionOkStep ==
  ASSUME UsedAsShipped, IInv,
         NEW cmd \in Commands \cup {NoCommand}, NotifyReceptionEndOk(cmd)
  PROVE  IInv'
<1>1. /\ datarate' \in Nat
      /\ nbRep' \in {0, 1}
      /\ channelAvailable' \subseteq Channels
      /\ freeing' \in [Channels -> Nat]
      /\ freeChannel' \in Channels \cup {NoChannel}
      /\ channelIndex' = channelIndex
      /\ freeChannel' # NoChannel => freeing'[freeChannel'] > 0
  <2>1. CASE cmd = NoCommand
    BY <2>1 DEF NotifyReceptionEndOk, Execute, channelVars, IInv, TypeOK, SettingsInv
  <2>2. CASE cmd # NoCommand
    BY <2>2, MaskStep, CommandsAssumption
    DEF NotifyReceptionEndOk, Execute, SetMaxDataRate, IInv, TypeOK, UsedAsShipped
  <2> QED BY <2>1, <2>2
<1>2. TypeOK'
  <2>1. /\ ackCnt' \in Nat /\ nbRep' \in Nat
        /\ currentPkt' \in Packet \cup {NoPacket}
        /\ state' = "RETRANSMISSION"
        /\ event' = "TryAgainNow" /\ event2' = "None"
        /\ UNCHANGED <<queue, retransmissionCount, seqNum, strayTryAgain, opening>>
    BY <1>1 DEF NotifyReceptionEndOk
  <2>2. PhyTypeOK'
    BY DEF IInv, TypeOK, PhyTypeOK, NotifyReceptionEndOk, EndRx
  <2> QED BY <1>1, <2>1, <2>2 DEF IInv, TypeOK
<1>3. StateInv'
  BY Receiving
  DEF IInv, StateInv, RadioOff, IdleInv, TimeoutInv, TxInv, Rx1PendingInv,
      Rx2PendingInv, RxInv, RetransmissionInv, NotifyReceptionEndOk, EndRx
<1>4. FrameInv' /\ SettingsInv'
  BY <1>1, Receiving DEF IInv, FrameInv, SettingsInv, NotifyReceptionEndOk, EndRx
<1> QED BY <1>2, <1>3, <1>4 DEF IInv

(* Whatever TryAgain decides to do next. *)
LEMMA TryAgainStep ==
  ASSUME UsedAsShipped, IInv, TryAgain
  PROVE  IInv'
<1>1. /\ state \in {"IDLE", "RETRANSMISSION", "RX"}
      /\ strayTryAgain' = 0
      /\ UNCHANGED <<nbRep, channelVars, event2, opening, phyVars>>
  BY DEF IInv, TypeOK, StateInv, IdleInv, TimeoutInv, TxInv, Rx1PendingInv,
         Rx2PendingInv, RxInv, RetransmissionInv, TryAgain, DoTryAgain
<1>2. CASE state = "RX"
  <2>1. /\ event' = "None"
        /\ UNCHANGED <<state, queue, currentPkt, retransmissionCount, seqNum,
                       ackCnt, datarate>>
    BY <1>2 DEF TryAgain, DoTryAgain
  <2>2. event2 = "None"
    BY <1>2 DEF IInv, StateInv, RxInv, TryAgain
  <2> QED BY <1>1, <1>2, <2>1
          DEF IInv, TypeOK, PhyTypeOK, StateInv, IdleInv, TimeoutInv, TxInv,
              Rx1PendingInv, Rx2PendingInv, RxInv, RetransmissionInv, FrameInv,
              SettingsInv, channelVars, phyVars
<1>3. CASE state # "RX"
  <2>0. /\ RadioOff
        /\ event2 = "None"
        /\ state = "RETRANSMISSION" => retransmissionCount > 0
        /\ Kept # NoPacket => /\ currentPkt # NoPacket
                              /\ Kept = currentPkt
                              /\ currentPkt.confirmed
                              /\ retransmissionCount # MaxTries
                              /\ state = "RETRANSMISSION"
                              /\ Rested = "RETRANSMISSION"
    BY <1>1, <1>3
    DEF IInv, TypeOK, StateInv, IdleInv, RetransmissionInv, FrameInv, SettingsInv,
        Kept, Rested, Finished, Confirmed
  <2>1. Kept = NoPacket => Rested = "IDLE"
    BY <1>1 DEF IInv, TypeOK, FrameInv, SettingsInv, Kept, Rested, Finished, Confirmed
  <2>2. CASE TakeFromQueue
    <3>1. /\ queue' \in Seq(BOOLEAN)
          /\ currentPkt' \in Packet
          /\ currentPkt'.confirmed \in BOOLEAN
      BY <2>2 DEF TakeFromQueue, IInv, TypeOK, Packet
    <3>2. ackCnt >= AdrAckReq => currentPkt'.adrAck
      BY <2>2, Zenon DEF TakeFromQueue
    <3>3. /\ ackCnt' \in Nat
          /\ ackCnt' <= ackCnt + 1
          /\ seqNum' \in Nat
      <4>1. /\ ackCnt + 1 \in Nat /\ seqNum + 1 \in Nat
            /\ AckCntMod \in Nat \ {0} /\ SeqMod \in Nat \ {0}
        BY BoundsAssumption DEF IInv, TypeOK
      <4>2. /\ (ackCnt + 1) % AckCntMod \in Nat
            /\ (ackCnt + 1) % AckCntMod <= ackCnt + 1
            /\ (seqNum + 1) % SeqMod \in Nat
        BY <4>1
      <4> QED BY <2>2, <4>2 DEF TakeFromQueue
    <3>4. /\ Kept = NoPacket /\ channelAvailable # {}
          /\ retransmissionCount' = 0
          /\ state' = "TIMEOUT"
          /\ event' = "StartTransmission"
          /\ UNCHANGED datarate
      BY <2>2 DEF TakeFromQueue
    <3>5. TypeOK'
      BY <1>1, <3>1, <3>3, <3>4 DEF IInv, TypeOK, PhyTypeOK, channelVars, phyVars
    <3>6. StateInv'
      BY <1>1, <2>0, <3>1, <3>4, BoundsAssumption, NoPacketAssumption
      DEF StateInv, RadioOff, IdleInv, TimeoutInv, TxInv, Rx1PendingInv,
          Rx2PendingInv, RxInv, RetransmissionInv, channelVars, phyVars
    <3>7. FrameInv' /\ SettingsInv'
      BY <1>1, <3>3, <3>4, <3>2, BoundsAssumption
      DEF IInv, TypeOK, FrameInv, SettingsInv, channelVars
    <3> QED BY <3>5, <3>6, <3>7 DEF IInv
  <2>3. CASE NothingToSend
    BY <1>1, <2>0, <2>1, <2>3
    DEF NothingToSend, IInv, TypeOK, PhyTypeOK, StateInv, RadioOff, IdleInv,
        TimeoutInv, TxInv, Rx1PendingInv, Rx2PendingInv, RxInv, RetransmissionInv,
        FrameInv, SettingsInv, channelVars, phyVars
  <2>4. CASE Retransmit
    <3>1. datarate' \in Nat
      BY <2>4 DEF Retransmit, Slower, IInv, TypeOK
    <3> QED BY <1>1, <2>0, <2>4, <3>1
            DEF Retransmit, IInv, TypeOK, PhyTypeOK, StateInv, RadioOff, IdleInv,
                TimeoutInv, TxInv, Rx1PendingInv, Rx2PendingInv, RxInv,
                RetransmissionInv, FrameInv, SettingsInv, channelVars, phyVars
  <2>5. CASE Postpone
    BY <1>1, <2>0, <2>1, <2>5
    DEF Postpone, IInv, TypeOK, PhyTypeOK, StateInv, RadioOff, IdleInv, TimeoutInv,
        TxInv, Rx1PendingInv, Rx2PendingInv, RxInv, RetransmissionInv, FrameInv,
        SettingsInv, channelVars, phyVars
  <2> QED BY <1>1, <1>3, <2>2, <2>3, <2>4, <2>5 DEF TryAgain, DoTryAgain
<1> QED BY <1>2, <1>3

(* The initial states satisfy the invariant. *)
LEMMA Initially ==
  ASSUME Init
  PROVE  IInv
<1>1. TypeOK
  <2>1. freeing \in [Channels -> Nat] /\ ackCnt \in Nat /\ datarate \in Nat
    BY BoundsAssumption DEF Init
  <2>2. queue \in Seq(BOOLEAN)
    BY DEF Init
  <2> QED BY <2>1, <2>2 DEF Init, PhyInit, TypeOK, PhyTypeOK
<1>2. StateInv
  BY DEF Init, PhyInit, StateInv, RadioOff, IdleInv, TimeoutInv, TxInv, Rx1PendingInv,
         Rx2PendingInv, RxInv, RetransmissionInv
<1>3. FrameInv /\ SettingsInv
  BY DEF Init, FrameInv, SettingsInv
<1> QED BY <1>1, <1>2, <1>3 DEF IInv

(* So does a step that changes nothing. *)
LEMMA Stuttering ==
  ASSUME IInv, UNCHANGED vars
  PROVE  IInv'
BY DEF vars, macVars, channelVars, eventVars, phyVars, IInv, TypeOK, PhyTypeOK,
       StateInv, RadioOff, IdleInv, TimeoutInv, TxInv, Rx1PendingInv, Rx2PendingInv,
       RxInv, RetransmissionInv, FrameInv, SettingsInv

(* The invariant is inductive: one lemma per action. *)
LEMMA Step ==
  ASSUME UsedAsShipped, IInv, [Next]_vars
  PROVE  IInv'
BY SendFromStep, SetNbRepStep, TryAgainStep, StartTransmissionStep,
   TransmissionEndStep, FreeChannelStep, Prepare1Step, Prepare2Step, OpenReceiverStep,
   Check1Step, Check2Step, ReceptionStartStep, ReceptionErrorStep, ReceptionOtherStep,
   ReceptionOkStep, Stuttering
DEF Next, ReceptionEnd

-----------------------------------------------------------------------------
(* The invariant holds in every reachable state. *)
THEOREM Invariance ==
  ASSUME UsedAsShipped
  PROVE  Spec => []IInv
BY Initially, Step, PTL DEF Spec

(* What the runs check on small instances follows for every instance.      *)

(* The types of the variables. *)
THEOREM TypeCorrectness ==
  ASSUME UsedAsShipped
  PROVE  Spec => []TypeOK
<1>1. IInv => TypeOK
  BY DEF IInv
<1> QED BY <1>1, Invariance, PTL

(* No handler runs into one of its assertions. *)
THEOREM AssertionSafety ==
  ASSUME UsedAsShipped
  PROVE  Spec => []AssertionsHold
<1>1. IInv => AssertionsHold
  BY DEF IInv, TypeOK, StateInv, IdleInv, TimeoutInv, TxInv, Rx1PendingInv,
         Rx2PendingInv, RxInv, RetransmissionInv, AssertionsHold
<1> QED BY <1>1, Invariance, PTL

(* MAC and radio never disagree. *)
THEOREM RadioCoherence ==
  ASSUME UsedAsShipped
  PROVE  Spec => []RadioFollowsMac
<1>1. IInv => RadioFollowsMac
  BY DEF IInv, TypeOK, PhyTypeOK, StateInv, RadioOff, IdleInv, TimeoutInv, TxInv,
         Rx1PendingInv, Rx2PendingInv, RxInv, RetransmissionInv, RadioFollowsMac
<1> QED BY <1>1, Invariance, PTL

(* No pending timer ever loses its handle. *)
THEOREM TimerOwnership ==
  ASSUME UsedAsShipped
  PROVE  Spec => []NoTimerOrphaned
<1>1. IInv => NoTimerOrphaned
  BY DEF IInv, TypeOK, StateInv, RadioOff, IdleInv, TimeoutInv, TxInv, Rx1PendingInv,
         Rx2PendingInv, RxInv, RetransmissionInv, NoTimerOrphaned
<1> QED BY <1>1, Invariance, PTL

(* A transmission never finds all channels taken. *)
THEOREM ReservedChannel ==
  ASSUME UsedAsShipped
  PROVE  Spec => []ChannelReserved
<1>1. IInv => ChannelReserved
  BY DEF IInv, StateInv, TimeoutInv, ChannelReserved
<1> QED BY <1>1, Invariance, PTL

(* The device never waits for an event that is not scheduled. *)
THEOREM NoStranding ==
  ASSUME UsedAsShipped
  PROVE  Spec => []NeverStranded
<1>1. IInv => NeverStranded
  BY DEF IInv, TypeOK, StateInv, IdleInv, TimeoutInv, TxInv, Rx1PendingInv,
         Rx2PendingInv, RxInv, RetransmissionInv, NeverStranded
<1> QED BY <1>1, Invariance, PTL

(* The data rate is lowered for lack of answers only after a request: the   *)
(* count that triggers it is beyond AdrAckReq while the frame is the        *)
(* device's own.                                                           *)
THEOREM BackoffJustified ==
  ASSUME UsedAsShipped
  PROVE  Spec => BackoffAfterRequest
<1> DEFINE Justified ==
      ackCnt > 0 /\ ackCnt' = 0 /\ datarate' # datarate /\ state' = "RETRANSMISSION"
        /\ currentPkt' # NoPacket
      => currentPkt.adrAck
<1>1. ASSUME IInv, AdrBackoff, currentPkt' = currentPkt
      PROVE  Justified
  BY <1>1, BoundsAssumption DEF AdrBackoff, IInv, TypeOK, FrameInv
<1>2. ASSUME IInv, TryAgain
      PROVE  Justified
  <2>1. CASE TakeFromQueue
    BY <2>1 DEF TakeFromQueue
  <2>2. CASE Retransmit
    BY <2>2 DEF Retransmit
  <2>3. CASE ~TakeFromQueue /\ ~Retransmit
    BY <1>2, <2>3 DEF TryAgain, DoTryAgain, NothingToSend, Postpone
  <2> QED BY <2>1, <2>2, <2>3
<1>3. IInv /\ [Next]_vars => [Justified]_vars
  <2> SUFFICES ASSUME IInv, Next PROVE Justified
    OBVIOUS
  <2>1. CASE CheckReception2
    BY <2>1, <1>1 DEF CheckReception2
  <2>2. CASE ReceptionEnd
    BY <2>2, <1>1
    DEF ReceptionEnd, NotifyReceptionEndError, NotifyReceptionEndOther,
        NotifyReceptionEndOk
  <2>3. CASE TryAgain
    BY <2>3, <1>2
  <2>4. CASE ~CheckReception2 /\ ~ReceptionEnd /\ ~TryAgain
    <3>1. datarate' = datarate
      BY <2>4
      DEF Next, SendFrom, SetNbRep, StartTransmissionNoArgs, NotifyTransmissionEnd,
          DutyCycleWait, FreeChannel, PrepareReception1, PrepareReception2,
          DoPrepareReception, OpenReceiver, CheckReception, NotifyReceptionStart,
          macVars
    <3> QED BY <3>1
  <2> QED BY <2>1, <2>2, <2>3, <2>4
<1> QED BY <1>3, Invariance, PTL DEF Spec, BackoffAfterRequest

-----------------------------------------------------------------------------
(* The device implements ClassA. *)

exchangeVars == <<Phase, currentPkt, retransmissionCount, seqNum>>

(* Steps of the device that are not steps of the exchange. *)
LEMMA SilentSteps ==
  ASSUME UsedAsShipped, IInv,
         \/ \E confirmed \in BOOLEAN : SendFrom(confirmed)
         \/ \E n \in NbReps : SetNbRep(n)
         \/ \E c \in Channels : FreeChannel(c)
         \/ PrepareReception1
         \/ NotifyReceptionStart
         \/ UNCHANGED vars
  PROVE  UNCHANGED exchangeVars
<1>1. CASE \/ \E confirmed \in BOOLEAN : SendFrom(confirmed)
           \/ \E n \in NbReps : SetNbRep(n)
  BY <1>1 DEF SendFrom, SetNbRep, exchangeVars, Phase, eventVars
<1>2. CASE \E c \in Channels : FreeChannel(c)
  BY <1>2 DEF FreeChannel, exchangeVars, Phase, macVars
<1>3. CASE PrepareReception1
  BY <1>3 DEF PrepareReception1, DoPrepareReception, exchangeVars, Phase, macVars
<1>4. CASE NotifyReceptionStart
  BY <1>4
  DEF NotifyReceptionStart, StartRx, exchangeVars, Phase, eventVars, IInv, TypeOK,
      StateInv, RadioOff, IdleInv, TimeoutInv, TxInv, Rx1PendingInv, Rx2PendingInv,
      RetransmissionInv
<1>5. CASE UNCHANGED vars
  BY <1>5 DEF vars, macVars, exchangeVars, Phase
<1> QED BY <1>1, <1>2, <1>3, <1>4, <1>5

(* Steps that take the exchange further, or one that is due already. *)
LEMMA AdvancingSteps ==
  ASSUME UsedAsShipped, IInv,
         \/ NotifyTransmissionEnd
         \/ PrepareReception2
         \/ OpenReceiver
         \/ CheckReception
         \/ CheckReception2
         \/ NotifyReceptionEndError
         \/ NotifyReceptionEndOther
  PROVE  Exchange!Advance \/ UNCHANGED exchangeVars
<1> USE DEF Exchange!Advance, exchangeVars, Phase, IInv, TypeOK, StateInv,
            RadioOff, IdleInv, TimeoutInv, TxInv, Rx1PendingInv,
            Rx2PendingInv, RxInv, RetransmissionInv
<1>1. CASE NotifyTransmissionEnd
  BY <1>1 DEF NotifyTransmissionEnd, DutyCycleWait, EndTx
<1>2. CASE PrepareReception2
  BY <1>2 DEF PrepareReception2, DoPrepareReception, macVars
<1>3. CASE OpenReceiver
  BY <1>3 DEF OpenReceiver, macVars
<1>4. CASE CheckReception
  BY <1>4 DEF CheckReception, InstantOver
<1>5. CASE CheckReception2
  BY <1>5 DEF CheckReception2, InstantOver
<1>6. CASE NotifyReceptionEndError
  BY <1>6 DEF NotifyReceptionEndError, EndRx, BackToWindow2, WindowsOver
<1>7. CASE NotifyReceptionEndOther
  BY <1>7 DEF NotifyReceptionEndOther, EndRx, BackToWindow2, WindowsOver
<1> QED BY <1>1, <1>2, <1>3, <1>4, <1>5, <1>6, <1>7

(* A transmission is an uplink of a frame that still needs one. *)
LEMMA UplinkStep ==
  ASSUME UsedAsShipped, IInv, StartTransmissionNoArgs
  PROVE  Exchange!Uplink
BY Starting
DEF StartTransmissionNoArgs, Exchange!Uplink, Exchange!Done, Phase, IInv, TypeOK,
    StateInv, TimeoutInv, Packet

(* A downlink ends the exchange. *)
LEMMA DownlinkStep ==
  ASSUME UsedAsShipped, IInv, NEW cmd, NotifyReceptionEndOk(cmd)
  PROVE  Exchange!Downlink
BY Receiving DEF NotifyReceptionEndOk, EndRx, Exchange!Downlink, Phase

(* TryAgain replaces or drops a frame only when it is done with. *)
LEMMA FrameStep ==
  ASSUME UsedAsShipped, IInv, TryAgain
  PROVE  Exchange!NewFrame \/ Exchange!DropFrame \/ UNCHANGED exchangeVars
<1>1. CASE state = "RX"
  <2>1. event2 = "None" /\ event2' = event2
    BY <1>1 DEF TryAgain, DoTryAgain, IInv, StateInv, RxInv
  <2> QED BY <1>1 DEF TryAgain, DoTryAgain, exchangeVars, Phase
<1>2. CASE state # "RX"
  <2>1. /\ state \in {"IDLE", "RETRANSMISSION"}
        /\ TakeFromQueue \/ NothingToSend \/ Retransmit \/ Postpone
    BY <1>2
    DEF TryAgain, DoTryAgain, IInv, TypeOK, StateInv, TimeoutInv, TxInv,
        Rx1PendingInv, Rx2PendingInv
  <2>2. Phase = "standby"
    BY <2>1 DEF Phase
  <2>3. Kept = NoPacket => Exchange!Done
    BY <2>1
    DEF Kept, Finished, Confirmed, Exchange!Done, IInv, StateInv, IdleInv, FrameInv
  <2>4. CASE TakeFromQueue
    <3>1. Phase' = "standby"
      BY <2>4 DEF TakeFromQueue, Phase
    <3>2. \E confirmed, adrAck \in BOOLEAN :
            currentPkt' = [confirmed |-> confirmed, seq |-> seqNum, adrAck |-> adrAck]
      <4>1. Head(queue) \in BOOLEAN
        BY <2>4 DEF TakeFromQueue, IInv, TypeOK
      <4>2. (ackCnt >= AdrAckReq) \in BOOLEAN
        OBVIOUS
      <4> QED BY <2>4, <4>1, <4>2, Zenon DEF TakeFromQueue
    <3> QED BY <2>2, <2>3, <2>4, <3>1, <3>2 DEF TakeFromQueue, Exchange!NewFrame
  <2>5. CASE NothingToSend
    <3>1. Phase' = "standby"
      BY <2>1, <2>5 DEF NothingToSend, Rested, Phase
    <3> QED BY <2>2, <2>3, <2>5, <3>1 DEF NothingToSend, Exchange!DropFrame
  <2>6. CASE Retransmit
    <3>1. Phase' = "standby"
      BY <2>6 DEF Retransmit, Phase
    <3> QED BY <2>2, <2>6, <3>1 DEF Retransmit, exchangeVars
  <2>7. CASE Postpone
    <3>1. Phase' = "standby"
      BY <2>1, <2>7 DEF Postpone, Rested, Phase
    <3>2. Kept \in {NoPacket, currentPkt}
      BY DEF Kept
    <3> QED BY <2>2, <2>3, <2>7, <3>1, <3>2
            DEF Postpone, Exchange!DropFrame, exchangeVars
  <2> QED BY <2>1, <2>4, <2>5, <2>6, <2>7
<1> QED BY <1>1, <1>2

(* Every behaviour of the device, seen through Phase, is one of ClassA. *)
THEOREM ClassARefinement ==
  ASSUME UsedAsShipped
  PROVE  Spec => ImplementsClassA
<1>1. Init => Exchange!Init
  BY DEF Init, Exchange!Init, Phase
<1>2. IInv /\ [Next]_vars => [Exchange!Next]_exchangeVars
  BY SilentSteps, AdvancingSteps, UplinkStep, DownlinkStep, FrameStep
  DEF Next, ReceptionEnd, Exchange!Next
<1> QED BY <1>1, <1>2, Invariance, PTL
        DEF Spec, ImplementsClassA, Exchange!Spec, Exchange!classAVars, exchangeVars

-----------------------------------------------------------------------------
(* That the device keeps its duty cycle, for any channels, masks and       *)
(* packets. It needs nothing of the other events of the MAC, so it holds   *)
(* without UsedAsShipped.                                                  *)

(* The channels and the waits of their duty cycles. The handle refers to a *)
(* wait that is pending.                                                   *)
ChannelsInv ==
  /\ channelAvailable \subseteq Channels
  /\ channelIndex \in Channels \cup {NoChannel}
  /\ freeing \in [Channels -> Nat]
  /\ freeChannel \in Channels \cup {NoChannel}
  /\ freeChannel # NoChannel => freeing[freeChannel] > 0
  /\ transmission => channelIndex \in Channels

RestedOrMasked(c) == freeing[c] = 0 \/ c \in unrested

(* A channel is available, or carries a frame, only if its wait is over or *)
(* a mask has lifted it, and so a second wait is only ever one of a        *)
(* channel a mask has lifted the first of.                                 *)
DutyInv ==
  /\ \A c \in channelAvailable : RestedOrMasked(c)
  /\ transmission => RestedOrMasked(channelIndex)
  /\ \A c \in Channels : freeing[c] > 1 => c \in unrested

RestInv == ChannelsInv /\ DutyInv

-----------------------------------------------------------------------------
(* What the history keeps. *)
LEMMA StaysUnrested ==
  ASSUME NextDuty, NEW c \in Channels, c \in unrested, freeing'[c] > 0
  PROVE  c \in unrested'
BY DEF NextDuty

(* Most steps leave the channels and the transmission alone. *)
LEMMA ChannelsUntouched ==
  ASSUME RestInv, NextDuty, UNCHANGED channelVars,
         transmission' => transmission
  PROVE  RestInv'
<1>1. UNCHANGED <<channelAvailable, channelIndex, freeing, freeChannel>>
  BY DEF channelVars
<1>2. ChannelsInv'
  BY <1>1 DEF RestInv, ChannelsInv
<1>3. ASSUME NEW c \in Channels, RestedOrMasked(c) PROVE RestedOrMasked(c)'
  BY <1>1, <1>3, StaysUnrested DEF RestedOrMasked, RestInv, ChannelsInv
<1>4. ASSUME NEW c \in Channels, freeing'[c] > 1 PROVE c \in unrested'
  BY <1>1, <1>4, StaysUnrested DEF RestInv, ChannelsInv, DutyInv
<1> QED BY <1>1, <1>2, <1>3, <1>4 DEF RestInv, ChannelsInv, DutyInv

(* A frame is sent: on a channel that is available. *)
LEMMA RestStartTransmissionStep ==
  ASSUME RestInv, NextDuty, StartTransmissionNoArgs
  PROVE  RestInv'
<1>1. UNCHANGED <<channelAvailable, freeing, freeChannel>>
  BY DEF StartTransmissionNoArgs
<1>2. \/ channelIndex' \in channelAvailable
      \/ channelIndex' = channelIndex /\ transmission' = transmission
  BY DEF StartTransmissionNoArgs, phyVars
<1>3. ChannelsInv'
  BY <1>1, <1>2 DEF RestInv, ChannelsInv
<1>4. ASSUME NEW c \in Channels, RestedOrMasked(c) PROVE RestedOrMasked(c)'
  BY <1>1, <1>4, StaysUnrested DEF RestedOrMasked, RestInv, ChannelsInv
<1>5. ASSUME NEW c \in Channels, freeing'[c] > 1 PROVE c \in unrested'
  BY <1>1, <1>5, StaysUnrested DEF RestInv, ChannelsInv, DutyInv
<1> QED BY <1>1, <1>2, <1>3, <1>4, <1>5 DEF RestInv, ChannelsInv, DutyInv

(* It ends: its channel becomes unavailable. *)
LEMMA RestTransmissionEndStep ==
  ASSUME RestInv, NextDuty, NotifyTransmissionEnd
  PROVE  RestInv'
<1> USE DEF RestInv, ChannelsInv
<1>1. /\ transmission /\ ~transmission'
      /\ channelAvailable' = channelAvailable \ {channelIndex}
      /\ freeing' = [freeing EXCEPT ![channelIndex] = freeing[channelIndex] + 1]
      /\ freeChannel' = channelIndex
      /\ channelIndex' = channelIndex
  BY DEF NotifyTransmissionEnd, EndTx, DutyCycleWait
<1>2. channelIndex \in Channels
  BY <1>1
<1>3. ChannelsInv'
  BY <1>1, <1>2
<1>4. ASSUME NEW c \in channelAvailable' PROVE RestedOrMasked(c)'
  <2>1. c \in channelAvailable /\ c # channelIndex /\ freeing'[c] = freeing[c]
    BY <1>1, <1>4
  <2> QED BY <2>1, StaysUnrested DEF RestedOrMasked, DutyInv
<1>5. ASSUME NEW c \in Channels, freeing'[c] > 1 PROVE c \in unrested'
  <2>1. c \in unrested
    BY <1>1, <1>2, <1>5 DEF DutyInv, RestedOrMasked
  <2> QED BY <1>5, <2>1, <1>3, StaysUnrested
<1> QED BY <1>1, <1>3, <1>4, <1>5 DEF DutyInv

(* A wait ends: its channel becomes available, with no other wait left      *)
(* unless the mask had lifted one.                                         *)
LEMMA RestFreeChannelStep ==
  ASSUME RestInv, NextDuty, NEW c \in Channels, FreeChannel(c)
  PROVE  RestInv'
<1> USE DEF RestInv, ChannelsInv
<1>1. /\ freeing[c] > 0
      /\ channelAvailable' = channelAvailable \cup {c}
      /\ freeing' = [freeing EXCEPT ![c] = freeing[c] - 1]
      /\ \/ freeChannel = c /\ freeChannel' = NoChannel
         \/ (freeChannel # c \/ freeing[c] > 1) /\ freeChannel' = freeChannel
      /\ channelIndex' = channelIndex /\ transmission' = transmission
  BY DEF FreeChannel, phyVars
<1>2. ChannelsInv'
  BY <1>1
<1>3. ASSUME NEW b \in Channels, RestedOrMasked(b) PROVE RestedOrMasked(b)'
  BY <1>1, <1>2, <1>3, StaysUnrested DEF RestedOrMasked
<1>4. RestedOrMasked(c)'
  <2>1. CASE freeing[c] = 1
    BY <1>1, <2>1 DEF RestedOrMasked
  <2>2. CASE freeing[c] > 1
    <3>1. c \in unrested
      BY <2>2 DEF DutyInv
    <3> QED BY <1>3, <3>1 DEF RestedOrMasked
  <2> QED BY <1>1, <2>1, <2>2
<1>5. ASSUME NEW b \in Channels, freeing'[b] > 1 PROVE b \in unrested'
  <2>1. freeing[b] > 1
    BY <1>1, <1>5
  <2> QED BY <1>2, <1>5, <2>1, StaysUnrested DEF DutyInv
<1> QED BY <1>1, <1>2, <1>3, <1>4, <1>5 DEF DutyInv

(* A downlink ends, perhaps with a mask: what that makes available is       *)
(* rested or recorded.                                                     *)
LEMMA ReceptionEndStep ==
  ASSUME RestInv, NextDuty, ReceptionEnd
  PROVE  RestInv'
<1> USE DEF RestInv, ChannelsInv
<1>1. receiving /\ ~receiving' /\ transmission' = transmission
  BY DEF ReceptionEnd, NotifyReceptionEndError, NotifyReceptionEndOther,
         NotifyReceptionEndOk, EndRx
<1>2. /\ channelAvailable' \subseteq Channels
      /\ channelIndex' = channelIndex
      /\ \/ UNCHANGED <<freeing, freeChannel>>
         \/ /\ freeChannel' = NoChannel
            /\ freeing' =
                 IF freeChannel = NoChannel THEN freeing
                 ELSE [freeing EXCEPT ![freeChannel] = freeing[freeChannel] - 1]
  <2>1. CASE UNCHANGED channelVars
    BY <2>1 DEF channelVars
  <2>2. ASSUME NEW cmd, SetChannelMask(cmd.mask)
        PROVE  /\ channelAvailable' \subseteq Channels
               /\ channelIndex' = channelIndex
               /\ freeChannel' = NoChannel
               /\ freeing' =
                    IF freeChannel = NoChannel THEN freeing
                    ELSE [freeing EXCEPT ![freeChannel] = freeing[freeChannel] - 1]
    <3>1. Masked(cmd.mask) \subseteq Channels
      BY DEF Masked
    <3> QED BY <2>2, <3>1 DEF SetChannelMask
  <2> QED BY <2>1, <2>2 DEF ReceptionEnd, NotifyReceptionEndError,
             NotifyReceptionEndOther, NotifyReceptionEndOk, Execute
<1>3. /\ freeing' \in [Channels -> Nat]
      /\ \A c \in Channels : freeing'[c] <= freeing[c]
  BY <1>2
<1>4. ChannelsInv'
  BY <1>1, <1>2, <1>3
<1>5. ASSUME NEW c \in channelAvailable' PROVE RestedOrMasked(c)'
  <2>1. freeing'[c] > 0 => c \in unrested'
    BY <1>1, <1>2 DEF NextDuty
  <2> QED BY <1>2, <1>3, <2>1 DEF RestedOrMasked
<1>6. ASSUME NEW c \in Channels, RestedOrMasked(c) PROVE RestedOrMasked(c)'
  <2>1. freeing[c] = 0 => freeing'[c] = 0
    BY <1>3
  <2>2. freeing'[c] # 0 => freeing'[c] > 0
    BY <1>3
  <2> QED BY <1>6, <2>1, <2>2, StaysUnrested DEF RestedOrMasked
<1>7. ASSUME NEW c \in Channels, freeing'[c] > 1 PROVE c \in unrested'
  <2>1. freeing[c] > 1 /\ freeing'[c] > 0
    BY <1>3, <1>7
  <2> QED BY <2>1, StaysUnrested DEF DutyInv
<1> QED BY <1>1, <1>2, <1>4, <1>5, <1>6, <1>7 DEF DutyInv

(* The events of the windows and of the queue do none of that. *)
LEMMA OtherSteps ==
  ASSUME \/ \E confirmed \in BOOLEAN : SendFrom(confirmed)
         \/ \E n \in NbReps : SetNbRep(n)
         \/ TryAgain
         \/ PrepareReception1 \/ PrepareReception2 \/ OpenReceiver
         \/ CheckReception \/ CheckReception2 \/ NotifyReceptionStart
  PROVE  UNCHANGED channelVars /\ transmission' = transmission
BY DEF SendFrom, SetNbRep, TryAgain, DoTryAgain, PrepareReception1, PrepareReception2,
       DoPrepareReception, OpenReceiver, CheckReception, CheckReception2,
       NotifyReceptionStart, ChangeState, StartRx, phyVars

-----------------------------------------------------------------------------
(* The inductive invariant: the waits of lora-net-device.cc and the         *)
(* channels they keep unavailable.                                          *)
THEOREM RestInvariance == SpecDuty => []RestInv
<1>1. InitDuty => RestInv
  BY DEF InitDuty, Init, PhyInit, RestInv, ChannelsInv, DutyInv, RestedOrMasked
<1>2. RestInv /\ [NextDuty]_<<vars, unrested>> => RestInv'
  <2> SUFFICES ASSUME RestInv, [NextDuty]_<<vars, unrested>> PROVE RestInv'
    OBVIOUS
  <2>1. CASE UNCHANGED <<vars, unrested>>
    BY <2>1 DEF RestInv, ChannelsInv, DutyInv, RestedOrMasked, vars, channelVars, phyVars
  <2>2. CASE NextDuty
    <3>1. Next
      BY <2>2 DEF NextDuty
    <3>2. CASE UNCHANGED channelVars /\ transmission' = transmission
      BY <2>2, <3>2, ChannelsUntouched
    <3>3. CASE StartTransmissionNoArgs
      BY <2>2, <3>3, RestStartTransmissionStep
    <3>4. CASE NotifyTransmissionEnd
      BY <2>2, <3>4, RestTransmissionEndStep
    <3>5. ASSUME NEW c \in Channels, FreeChannel(c) PROVE RestInv'
      BY <2>2, <3>5, RestFreeChannelStep
    <3>6. CASE ReceptionEnd
      BY <2>2, <3>6, ReceptionEndStep
    <3> QED BY <3>1, <3>2, <3>3, <3>4, <3>5, <3>6, OtherSteps DEF Next
  <2> QED BY <2>1, <2>2
<1> QED BY <1>1, <1>2, PTL DEF SpecDuty

(* A frame is sent only on a channel whose wait is over or was lifted by an *)
(* accepted mask (GetFreeChannel, FreeChannel and SetChannelMask of         *)
(* lora-net-device.cc), for any channels, masks and number of waits.        *)
THEOREM DutyCycleIsKept == SpecDuty => DutyCycleKept
<1>1. RestInv /\ [NextDuty]_<<vars, unrested>> =>
        [ transmission' /\ ~transmission =>
            freeing[channelIndex'] = 0 \/ channelIndex' \in unrested ]_vars
  <2> SUFFICES ASSUME RestInv, NextDuty, transmission', ~transmission
               PROVE  freeing[channelIndex'] = 0 \/ channelIndex' \in unrested
    BY DEF vars
  <2>1. Next
    BY DEF NextDuty
  <2>2. StartTransmissionNoArgs
    BY <2>1, OtherSteps DEF Next, NotifyTransmissionEnd, EndTx, FreeChannel, phyVars,
       ReceptionEnd, NotifyReceptionEndError, NotifyReceptionEndOther,
       NotifyReceptionEndOk, EndRx
  <2>3. channelIndex' \in channelAvailable
    BY <2>2 DEF StartTransmissionNoArgs, phyVars
  <2> QED BY <2>3 DEF RestInv, DutyInv, RestedOrMasked
<1> QED BY <1>1, RestInvariance, PTL DEF SpecDuty, DutyCycleKept

=============================================================================
