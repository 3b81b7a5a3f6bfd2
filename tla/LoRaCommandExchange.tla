------------------------- MODULE LoRaCommandExchange -------------------------
(***************************************************************************)
(* MAC commands on their way: an application answers a frame with a        *)
(* request, the network merges it into the ack it is about to send, the    *)
(* device executes what arrives and the answers travel with its next new   *)
(* frame.  One device, one gateway; every packet is the bytes the code     *)
(* writes and reads.                                                       *)
(*                                                                         *)
(* The timers of the device and the windows of the network are the subject *)
(* of LoRaNetDevice and LoRaNetwork; here a transmission is followed by    *)
(* the network's window and that by the device's, in the order their       *)
(* delays give.  How often a frame is sent, and when its retransmissions   *)
(* are slower, is left open.                                               *)
(***************************************************************************)
EXTENDS LoRaMacHeader, LoRaDeviceSettings

CONSTANTS
  Applications,   \* applications that listen to the network
  Requests,       \* the commands they may send
  Energies,       \* states of the battery, NoSource for none
  Snrs,           \* how well the device may hear a downlink
  StrayBits,      \* what the adaptive bit of a new header may hold
  MaxFrames,      \* bound: new frames
  MaxFreeing,     \* bound: pending FreeChannel events
  LinkChecks,     \* the device asks for link checks, as SetMacAnswer allows
  NoPacket        \* a null Ptr<Packet>

Commands ==
  {"LinkAdrReq", "DutyCycleReq", "RxParamSetupReq", "DevStatusReq", "NewChannelReq",
   "RxTimingSetupReq", "LinkCheckAns"}

(* Requests fit their fields on the air; the one application that sends     *)
(* NewChannelReq names a slot of the table and the frequency it knows it by *)
(* (lora-sf-controller-application.cc:289).                                 *)
ASSUME ExchangeConstants ==
  /\ \A c \in Requests : c.kind \in Commands
  /\ {MaxFrames, MaxFreeing} \subseteq Nat \ {0}
  /\ LinkChecks \in BOOLEAN
  /\ Requests \subseteq FromBase
  /\ \A c \in Requests : c.kind = "NewChannelReq" => c.chIndex \in Slots /\ c.freq # 0
  /\ Energies \subseteq 0..100 \cup {NoSource}
  /\ Snrs \subseteq Int
  /\ StrayBits \subseteq {0, 1}
  /\ NoPacket \notin Seq(Byte)

VARIABLES
  dev,         \* the device's settings
  seqNum,      \* m_seqNum
  currentPkt,  \* m_currentPkt
  phase,       \* whose turn it is: "device", "uplink", "network" or "downlink"
  latest,      \* m_latest of the device
  slot,        \* m_packetToTransmit of the device
  report,      \* the packet the trace source passes to the applications
  answering,   \* the applications that have not answered it yet
  downlink,    \* the packet the gateway was given
  requested,   \* history: what the applications have sent in this window
  executed,    \* history: what the device executed since its last new frame
  applied,     \* history: which settings that changed
  carried,     \* history: which settings the answers in currentPkt are about
  told         \* history: which settings were confirmed to applications

deviceVars == <<dev, seqNum, currentPkt>>
networkVars == <<latest, slot, report, answering>>
historyVars == <<requested, executed, applied, carried, told>>
vars == <<deviceVars, phase, networkVars, downlink, historyVars>>

(* LoRaHelper::Install drops the first address, for base stations. *)
DevAddr == Allocate(2)
Payload == <<0>>
Strength == 40            \* how well the gateway hears the device, in dB above -160
Unheard == 255            \* m_latest of a device that has not been heard

Init ==
  /\ \E energy \in Energies : dev = NewDevice(energy)
  /\ seqNum = 0
  /\ currentPkt = NoPacket
  /\ phase = "device"
  /\ latest = Unheard
  /\ slot = NoPacket
  /\ report = NoPacket
  /\ answering = {}
  /\ downlink = NoPacket
  /\ requested = <<>>
  /\ executed = <<>>
  /\ applied = {}
  /\ carried = {}
  /\ told = {}

-----------------------------------------------------------------------------
(* The device sends *)

(* StartTransmission and NotifyTransmissionEnd: a free channel is used, and *)
(* rests.                                                                   *)
Transmit(d) ==
  /\ \E i \in FreeChannels(d) :
       d.freeing[i] < MaxFreeing /\ dev' = Rest(d, i)
  /\ phase' = "uplink"
  /\ UNCHANGED <<networkVars, downlink>>

(* A frame as SendFrom makes it. *)
DataFrame(adr) ==
  SerializeHeader(SetPort(SetAddr(NewHeader(CONFIRMED_DATA_UP, 1, adr), DevAddr), 1))
    \o Payload

(* The frame taken from the queue gets its number and the answers, as many  *)
(* as fit.                                                                  *)
WithAnswers(packet, answers, adrAck) ==
  LET header == SetFrmCounter(PeekHeader(packet), seqNum)
      asking == IF adrAck THEN SetAdrAck(header) ELSE header
  IN SerializeHeader(SetMacCommands(asking, answers)) \o AfterHeader(packet)

NewFrame ==
  /\ phase = "device"
  /\ currentPkt = NoPacket
  /\ seqNum < MaxFrames
  /\ \E adr \in StrayBits, adrAck \in BOOLEAN :
       currentPkt' = WithAnswers(DataFrame(adr), dev.answers, adrAck)
  /\ seqNum' = seqNum + 1
  /\ Transmit([dev EXCEPT !.answers = <<>>])
  /\ executed' = <<>>
  /\ applied' = {}
  /\ carried' = applied
  /\ told' = {}
  /\ UNCHANGED requested

Retransmit ==
  /\ phase = "device"
  /\ currentPkt # NoPacket
  /\ \/ Transmit(dev)
     \/ Transmit(Slower(dev))
  /\ UNCHANGED <<seqNum, currentPkt, historyVars>>

(* After nine transmissions the frame is given up. *)
GiveUp ==
  /\ phase = "device"
  /\ currentPkt # NoPacket
  /\ currentPkt' = NoPacket
  /\ UNCHANGED <<dev, seqNum, phase, networkVars, downlink, historyVars>>

ChannelFree ==
  /\ phase = "device"
  /\ \E i \in Slots, last \in BOOLEAN :
       MayFree(dev, i, last) /\ dev' = FreeChannel(dev, i, last)
  /\ UNCHANGED <<seqNum, currentPkt, phase, networkVars, downlink, historyVars>>

(* The answers of a device are not only answers: a link check goes the same *)
(* way.                                                                     *)
AskLinkCheck ==
  /\ LinkChecks
  /\ phase = "device"
  /\ ~Contains(dev.answers, LinkCheckReq)
  /\ dev' = SetMacAnswer(dev, LinkCheckReq)
  /\ UNCHANGED <<seqNum, currentPkt, phase, networkVars, downlink, historyVars>>

UplinkLost ==
  /\ phase = "uplink"
  /\ phase' = "device"
  /\ UNCHANGED <<deviceVars, networkVars, downlink, historyVars>>

-----------------------------------------------------------------------------
(* The network *)

(* What the gateway passes on: the frame and how it was received. *)
Received(frame) ==
  frame \o GwTrailerBytes(GwTrailer(Strength, 0, 12, 125000, 8681000))

(* The settings of the device as WhiteListDevice notes them: no library     *)
(* code changes them afterwards.                                            *)
Settings == NetworkTrailer(1, 0, 0, 8695250)

Ack(header, adr) ==
  SerializeHeader(SetAck(SetAddr(
    NewHeader(UNCONFIRMED_DATA_DOWN, header.counter, adr), header.addr)))
    \o NetworkTrailerBytes(Settings)

MessageReceived ==
  /\ phase = "uplink"
  /\ phase' = "network"
  /\ LET packet == Received(AfterPhyHeader(OnAir(currentPkt)))
         header == PeekHeader(packet)
     IN /\ latest' = header.counter
        /\ \/ /\ latest # header.counter
              /\ report' = packet
              /\ answering' = Applications
           \/ /\ latest = header.counter
              /\ UNCHANGED <<report, answering>>
        /\ IF NeedsAck(header) \/ header.adrAckReq
           THEN \E adr \in StrayBits : slot' = Ack(header, adr)
           ELSE slot' = IF latest = header.counter THEN slot ELSE NoPacket
  /\ requested' = <<>>
  /\ UNCHANGED <<deviceVars, downlink, executed, applied, carried, told>>

(* The stored packet after a message without data was merged into it. Send  *)
(* peeks at the stored header and then removes it into the same object.     *)
MergedInto(stored, mac) ==
  LET mac2 == DeserializeInto(PeekHeader(stored), stored)
  IN SerializeHeader(Merge(mac2, mac)) \o AfterHeader(stored)

(* What Send leaves in m_packetToTransmit. A packet with data would only    *)
(* replace a stored one without a trailer, of which there is none.          *)
Stored(packet) ==
  LET mac == PeekHeader(packet)
      mac2 == PeekHeader(slot)
  IN CASE slot = NoPacket -> packet \o NetworkTrailerBytes(Settings)
       [] slot # NoPacket
          /\ (HeaderSize(mac2) = Len(slot) \/ HeaderSize(mac) = Len(packet)) ->
            IF Len(packet) > HeaderSize(mac)
            THEN SerializeHeader(Merge(DeserializeInto(mac, packet), mac2))
                   \o AfterHeader(packet)
            ELSE MergedInto(slot, mac)
       [] OTHER -> slot

(* The strength is in dB above -160; GetMargin is at most 254. *)
GetMargin(strength) == IF strength > 254 THEN 254 ELSE strength

(* The answers of a device that confirm a setting to an application. *)
Confirms(c) ==
  CASE c.kind = "LinkAdrAns" ->
         {s \in {"power", "datarate", "channelmask"} : c[s]}
    [] c.kind = "NewChannelAns" ->
         (IF c.freqOk THEN {"frequency"} ELSE {})
           \cup (IF c.datarateOk THEN {"channelRate"} ELSE {})
    [] OTHER -> {}

(* What LoRaNoPowerApplication answers every frame with: full power, data   *)
(* rate 1 and the first three channels.                                     *)
NoPowerRequest == LinkAdrReq(5, 1, 57344, 1)

(* GetSetting of LoRaPowerApplication. Nothing is ever put into m_RSSI, so  *)
(* NewRssi and CalculateSetting, which look there for devices, find none    *)
(* and no setting is ever saved.                                            *)
GetSetting == [channelMask |-> 0, datarate |-> 0, power |-> 0]

(* What it answers every frame with: the parts of a setting in the order    *)
(* mask, data rate, power, where LinkAdrReq expects power, data rate, mask. *)
PowerRequest ==
  LinkAdrReq(GetSetting.channelMask, GetSetting.datarate, GetSetting.power, 1)

(* The packet an application makes for one command, <<>> for none. *)
Message(header, command, adr) ==
  SerializeHeader(SetMacCommands(
    SetType(SetAddr(DefaultHeader(adr), header.addr), UNCONFIRMED_DATA_DOWN), command))

(* The application executes the answers in the frame; a link check becomes  *)
(* the command it sends, otherwise that is a request or nothing.            *)
Answer(a) ==
  /\ a \in answering
  /\ answering' = answering \ {a}
  /\ LET header == PeekHeader(report)
         Sendable ==
           IF Contains(header.commands, LinkCheckReq)
           THEN {<<LinkCheckAns(GetMargin(Strength), 1)>>}
           ELSE {<<c>> : c \in Requests} \cup {<<>>}
     IN /\ told' = told \cup UNION {Confirms(c) : c \in ToSet(header.commands)}
        /\ \/ /\ NeedsAck(header)
              /\ \E command \in Sendable, adr \in StrayBits :
                   /\ slot' = Stored(Message(header, command, adr))
                   /\ requested' = requested \o command
           \/ ~NeedsAck(header) /\ UNCHANGED <<slot, requested>>
  /\ report' = IF answering' = {} THEN NoPacket ELSE report
  /\ UNCHANGED <<deviceVars, phase, latest, downlink, executed, applied, carried>>

(* The window ends: the gateway gets what there is to send. *)
SendAck ==
  /\ phase = "network"
  /\ answering = {}
  /\ downlink' = slot
  /\ slot' = NoPacket
  /\ phase' = IF slot = NoPacket THEN "device" ELSE "downlink"
  /\ UNCHANGED <<deviceVars, latest, report, answering, historyVars>>

-----------------------------------------------------------------------------
(* The device receives *)

(* The gateway sends in the second window, at the time and with the rate    *)
(* and frequency of the trailer. The device hears it there only if its own  *)
(* settings are the same.                                                   *)
InReach(t) ==
  t.delay = dev.delay /\ t.rx2Dr = dev.rx2Datarate /\ t.rx2Freq = dev.rx2Freq

(* Which settings executing c changes on d. *)
Applies(d, c) ==
  CASE c.kind = "LinkAdrReq" ->
         (IF SetMaxDataRate(d, c.datarate).ok THEN {"datarate"} ELSE {})
           \cup (IF SetMaxPower(d, c.power).ok THEN {"power"} ELSE {})
           \cup (IF SetChannelMask(d, c.mask).ok THEN {"channelmask"} ELSE {})
    [] c.kind = "NewChannelReq" -> {"frequency", "channelRate"}
    [] OTHER -> {}

AppliesAll(d, commands) ==
  FoldLeft(LAMBDA r, c :
             [dev |-> Execute(r.dev, c), set |-> r.set \cup Applies(r.dev, c)],
           [dev |-> d, set |-> {}], commands).set

(* Any downlink of its own ends the device's frame, and its commands are    *)
(* executed in order.                                                       *)
NotifyReceptionEndOk ==
  /\ phase = "downlink"
  /\ InReach(PeekNetworkTrailer(downlink))
  /\ LET header == PeekHeader(AfterPhyHeader(OnAir(AfterNetworkTrailer(downlink))))
     IN /\ header.addr = DevAddr \/ IsBroadcast(header.addr) \/ IsGroup(header.addr)
        /\ GetDirection(header) = "FROMBASE"
        /\ currentPkt' = IF IsAcknowledgment(header) THEN NoPacket ELSE currentPkt
        /\ \E snr \in Snrs :
             dev' = [ExecuteAll([dev EXCEPT !.snr = snr], header.commands)
                       EXCEPT !.snr = 0]
        /\ executed' = executed \o header.commands
        /\ applied' = applied \cup AppliesAll(dev, header.commands)
  /\ phase' = "device"
  /\ downlink' = NoPacket
  /\ requested' = <<>>
  /\ UNCHANGED <<seqNum, networkVars, carried, told>>

DownlinkLost ==
  /\ phase = "downlink"
  /\ phase' = "device"
  /\ downlink' = NoPacket
  /\ requested' = <<>>
  /\ UNCHANGED <<deviceVars, networkVars, executed, applied, carried, told>>

-----------------------------------------------------------------------------
Next ==
  \/ NewFrame
  \/ Retransmit
  \/ GiveUp
  \/ ChannelFree
  \/ AskLinkCheck
  \/ UplinkLost
  \/ MessageReceived
  \/ \E a \in Applications : Answer(a)
  \/ SendAck
  \/ NotifyReceptionEndOk
  \/ DownlinkLost

Spec == Init /\ [][Next]_vars

-----------------------------------------------------------------------------
(* Properties *)

Packets == {currentPkt, slot, report, downlink} \ {NoPacket}

(* What is read from a packet is what was written: a header that is written *)
(* again is the same bytes, and its size is what reading it consumes. The   *)
(* network and the device count on it each time they remove a header, add   *)
(* to it and put it back. The length of its commands fits in four bits.     *)
WireFaithful ==
  \A p \in Packets :
    LET header == PeekHeader(p)
    IN /\ SerializeHeader(header) \o AfterHeader(p) = p
       /\ HeaderSize(header) = BytesRead(p)
       /\ GetCommandsLength(header) < 16

(* The device executes the commands the applications sent for the frame it  *)
(* is answered for, in their order and with their parameters: none is lost, *)
(* altered or left over from an earlier frame by storing, merging and       *)
(* passing on.                                                              *)
ExecutedAsRequested ==
  [][ NotifyReceptionEndOk => executed' = executed \o requested ]_vars

AnswerTo ==
  [LinkAdrReq |-> "LinkAdrAns", DutyCycleReq |-> "DutyCycleAns",
   RxParamSetupReq |-> "RxParamSetupAns", DevStatusReq |-> "DevStatusAns",
   NewChannelReq |-> "NewChannelAns", RxTimingSetupReq |-> "RxTimingSetupAns"]

(* The commands of a list but those of a kind. *)
Without(commands, kind) ==
  FoldLeft(LAMBDA rest, c : IF c.kind = kind THEN rest ELSE Append(rest, c),
           <<>>, commands)

(* The next new frame answers every command the device has executed since   *)
(* its last one, in their order, although SetMacCommand drops what does not *)
(* fit and DoTryAgain has taken it from m_answers by then.                  *)
AnswersComplete ==
  [][ seqNum' # seqNum =>
        LET answers == Without(PeekHeader(currentPkt').commands, "LinkCheckReq")
            asked == Without(executed, "LinkCheckAns")
        IN [i \in DOMAIN answers |-> answers[i].kind]
             = [i \in DOMAIN asked |-> AnswerTo[asked[i].kind]] ]_vars

(* A channel never uses a faster rate than its maximum, is only available   *)
(* with a frequency, and the power is one of the table, whatever sequence   *)
(* of requests has arrived: StartTransmission indexes the tables with them. *)
SettingsCoherent ==
  /\ \A i \in Slots :
       /\ dev.datarate[i] <= dev.maxDatarate[i]
       /\ dev.available[i] => dev.frequencies[i] # 0
  /\ dev.powerIndex \in PowerIndices

(* "ConfirmPower confirms the power setting of a node that was addressed    *)
(* with a LinkAdrReq command" (lora-network-application.h:87), and so for   *)
(* the data rate, the channel mask and the frequency: an application is     *)
(* told of a setting only if the device made the change that the answers in *)
(* its last new frame are about, whatever was lost or sent again in         *)
(* between. LinkAdrReq::Execute makes it false.                             *)
ConfirmedTruthfully == told \subseteq carried

(* What a confirmation is about: LinkAdrReq::Execute hands the results of   *)
(* the data rate and of the power to LinkAdrAns in the other order.         *)
About(setting) ==
  CASE setting = "power" -> "datarate"
    [] setting = "datarate" -> "power"
    [] OTHER -> setting

(* Power and data rate taken for each other, every confirmation is true: of *)
(* the channel mask and of new channels as they are named.                  *)
ConfirmedAsExecuted == {About(s) : s \in told} \subseteq carried

=============================================================================
