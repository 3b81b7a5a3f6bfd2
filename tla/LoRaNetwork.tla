----------------------------- MODULE LoRaNetwork -----------------------------
(***************************************************************************)
(* The network server (model/lora-network.cc) between the gateways, which  *)
(* pass it every copy of an uplink they hear, and the applications, which  *)
(* are told of each frame once and may answer it.                          *)
(*                                                                         *)
(* The first copy of a transmission opens a window of half a second: the   *)
(* frame is reported, an ack is prepared, later copies are only counted,   *)
(* and SendAck closes the window by passing what there is to send to the   *)
(* gateway that heard the device best.                                     *)
(*                                                                         *)
(* Time is abstracted to order.  A report is a ScheduleNow'd event and an  *)
(* application reacts to it within 200 ms, so both precede SendAck.  The   *)
(* copies of a transmission reach the network before the device sends      *)
(* again (it takes seconds), but they may come after the window has        *)
(* closed.                                                                 *)
(***************************************************************************)
EXTENDS Integers, Sequences, SequencesExt

CONSTANTS
  Devices,
  Gateways,
  MaxRssi,      \* received strengths are 1..MaxRssi
  FrmMod,       \* 2^16: frame counters are uint16_t
  Unheard,      \* 255: what m_latest holds before a frame has been heard
  MaxFrames,    \* bound: frames a device sends
  Unprompted,   \* applications also send when they have not been told of a frame
  Messages,     \* what applications send
  NoMessage,    \* a null Ptr<Packet>
  NoStats,      \* an address m_stats has no entry for
  NoGateway     \* an invalid Address

Kinds == {"confirmed", "adrAck", "plain"}

NoAck == FrmMod   \* a downlink that acknowledges nothing

Message == [ack : 0..FrmMod, command : BOOLEAN, data : BOOLEAN]
Stats == [maxRssi : 0..MaxRssi, gwCount : Nat,
          strongestGateway : Gateways \cup {NoGateway}]

ASSUME NetworkBounds ==
  /\ {MaxRssi, FrmMod, MaxFrames} \subseteq Nat \ {0}
  /\ Unheard \in 0..FrmMod - 1
  /\ MaxFrames <= FrmMod
  /\ Unprompted \in BOOLEAN
ASSUME NetworkValues ==
  /\ \A m \in Messages : m \in Message /\ m.ack = NoAck
  /\ NoMessage \notin Message
  /\ NoStats \notin Stats
  /\ NoGateway \notin Gateways

VARIABLES
  whiteList,         \* m_whiteList
  latest,            \* m_latest
  packetToTransmit,  \* m_packetToTransmit
  stats,             \* m_stats
  sendAck,           \* pending SendAck events of each device
  netRx,             \* pending m_netRxTrace events, oldest first
  answering,         \* devices an application is about to answer
  sent,              \* frames each device has sent, the last one numbered sent - 1
  kind,              \* that frame is confirmed, asks for an ADR answer, or is plain
  copies,            \* copies of it on their way from the gateways
  heard,             \* history: the copies that came in the present window
  reported,          \* history: the frames reported to the applications
  downlinks,         \* history: downlinks since the device last transmitted
  owed               \* history: what they answered and no gateway has got

networkVars == <<whiteList, latest, packetToTransmit, stats, sendAck, netRx>>
deviceVars == <<sent, kind>>
vars == <<networkVars, answering, deviceVars, copies, heard, reported, downlinks, owed>>

Counter(n) == n % FrmMod

Init ==
  /\ whiteList = {}
  /\ latest = [d \in Devices |-> 0]
  /\ packetToTransmit = [d \in Devices |-> NoMessage]
  /\ stats = [d \in Devices |-> NoStats]
  /\ sendAck = [d \in Devices |-> 0]
  /\ netRx = <<>>
  /\ answering = {}
  /\ sent = [d \in Devices |-> 0]
  /\ kind = [d \in Devices |-> "plain"]
  /\ copies = {}
  /\ heard = [d \in Devices |-> {}]
  /\ reported = [d \in Devices |-> <<>>]
  /\ downlinks = [d \in Devices |-> <<>>]
  /\ owed = [d \in Devices |-> {}]

-----------------------------------------------------------------------------
(* The devices and the gateways that hear them *)

CopiesOf(d) == {c \in copies : c.dev = d}

(* A device waits for its receive windows and at least a second more before *)
(* it sends again, so that the network is done with its last transmission.  *)
Quiet(d) == CopiesOf(d) = {} /\ sendAck[d] = 0

(* Each gateway in reach passes on one copy, with the strength it received. *)
Transmit(d, n, k) ==
  /\ Quiet(d)
  /\ \E rssi \in [Gateways -> 0..MaxRssi] :
       copies' = copies \cup {[dev |-> d, gw |-> g, rssi |-> rssi[g], num |-> n,
                               wantsAck |-> k # "plain"] :
                                g \in {h \in Gateways : rssi[h] > 0}}
  /\ downlinks' = [downlinks EXCEPT ![d] = <<>>]
  /\ UNCHANGED <<networkVars, answering, heard, reported, owed>>

NewFrame(d) ==
  /\ sent[d] < MaxFrames
  /\ sent' = [sent EXCEPT ![d] = @ + 1]
  /\ \E k \in Kinds : kind' = [kind EXCEPT ![d] = k] /\ Transmit(d, sent[d], k)

Retransmission(d) ==
  /\ sent[d] > 0
  /\ kind[d] = "confirmed"
  /\ Transmit(d, sent[d] - 1, "confirmed")
  /\ UNCHANGED deviceVars

-----------------------------------------------------------------------------
(* The network *)

WhiteListDevice(d) ==
  /\ d \notin whiteList
  /\ whiteList' = whiteList \cup {d}
  /\ latest' = [latest EXCEPT ![d] = Unheard]
  /\ UNCHANGED <<packetToTransmit, stats, sendAck, netRx, answering, deviceVars,
                 copies, heard, reported, downlinks, owed>>

Ack(n) == [ack |-> Counter(n), command |-> FALSE, data |-> FALSE]

(* Mutant of ScheduleSendAck: only for frames that want an ack. *)
ScheduleSendAckIfWanted(c) ==
  sendAck' = [sendAck EXCEPT ![c.dev] = @ + (IF c.wantsAck THEN 1 ELSE 0)]

ScheduleSendAck(c) == sendAck' = [sendAck EXCEPT ![c.dev] = @ + 1]

(* A copy is counted, and the gateway remembered that heard it best. *)
Counted(s, c) ==
  IF s.maxRssi < c.rssi
  THEN [maxRssi |-> c.rssi, gwCount |-> s.gwCount + 1, strongestGateway |-> c.gw]
  ELSE [s EXCEPT !.gwCount = s.gwCount + 1]

(* A copy of a transmission whose window is open: only its strength counts. *)
AnotherCopy(c) ==
  /\ stats[c.dev] # NoStats
  /\ stats' = [stats EXCEPT ![c.dev] = Counted(@, c)]
  /\ UNCHANGED <<latest, packetToTransmit, sendAck, netRx>>

(* Mutant of NewNumber: only the first number is new. *)
NewNumberOnce(c) == latest[c.dev] = Unheard

NewNumber(c) == latest[c.dev] # Counter(c.num)

(* Mutant of AfterFirstCopy: a retransmission is not acknowledged again. *)
AfterFirstCopyOnce(c) ==
  IF NewNumber(c) THEN IF c.wantsAck THEN Ack(c.num) ELSE NoMessage
  ELSE packetToTransmit[c.dev]

(* What is to be sent in the window that a copy opens: an ack for a frame   *)
(* that wants one. Anything left over is dropped by a frame with a new      *)
(* number, and replaced by the ack of a retransmission.                     *)
AfterFirstCopy(c) ==
  IF c.wantsAck THEN Ack(c.num)
  ELSE IF NewNumber(c) THEN NoMessage
  ELSE packetToTransmit[c.dev]

(* The copy that opens a window. *)
FirstCopy(c) ==
  /\ stats[c.dev] = NoStats
  /\ stats' = [stats EXCEPT ![c.dev] =
       [maxRssi |-> c.rssi, gwCount |-> 1, strongestGateway |-> c.gw]]
  /\ latest' = [latest EXCEPT ![c.dev] = Counter(c.num)]
  /\ netRx' = IF NewNumber(c) THEN Append(netRx, [dev |-> c.dev, num |-> c.num])
                              ELSE netRx
  /\ packetToTransmit' = [packetToTransmit EXCEPT ![c.dev] = AfterFirstCopy(c)]
  /\ ScheduleSendAck(c)

MessageReceived(c) ==
  /\ c \in copies
  /\ copies' = copies \ {c}
  /\ \/ /\ c.dev \in whiteList
        /\ AnotherCopy(c) \/ FirstCopy(c)
        /\ heard' = [heard EXCEPT ![c.dev] = @ \cup {[gw |-> c.gw, rssi |-> c.rssi]}]
     \/ /\ c.dev \notin whiteList
        /\ UNCHANGED <<latest, packetToTransmit, stats, sendAck, netRx, heard>>
  /\ UNCHANGED <<whiteList, answering, deviceVars, reported, downlinks, owed>>

(* The trace sources tell the applications of a new frame. *)
NetRx ==
  /\ netRx # <<>>
  /\ netRx' = Tail(netRx)
  /\ reported' = [reported EXCEPT ![Head(netRx).dev] = Append(@, Head(netRx).num)]
  /\ answering' = answering \cup {Head(netRx).dev}
  /\ UNCHANGED <<whiteList, latest, packetToTransmit, stats, sendAck, deviceVars,
                 copies, heard, downlinks, owed>>

Contents(m) ==
  IF m = NoMessage THEN {}
  ELSE {i \in {"command", "data"} : m[i]}

(* Mutant of Merged: what is stored wins. *)
MergedDropping(stored, m) == IF stored = NoMessage THEN m ELSE stored

(* What Send leaves to be sent. The stored packet carries a trailer, which  *)
(* makes it look like one with data: only commands can be merged into it.   *)
Merged(stored, m) ==
  CASE stored = NoMessage           -> m
    [] stored # NoMessage /\ m.data -> stored
    [] OTHER -> [stored EXCEPT !.command = @ \/ m.command]

Send(d, m) == packetToTransmit' = [packetToTransmit EXCEPT ![d] = Merged(@, m)]

(* An application reacts to the frame it was told of. It may look up how    *)
(* well the frame was heard: operator[] of m_stats adds what is missing.    *)
Answer(d) ==
  /\ d \in answering
  /\ answering' = answering \ {d}
  /\ \/ \E m \in Messages :
          /\ Send(d, m)
          /\ owed' = [owed EXCEPT ![d] = @ \cup Contents(m)]
     \/ UNCHANGED <<packetToTransmit, owed>>
  /\ stats' = [stats EXCEPT ![d] =
       IF @ # NoStats THEN @
       ELSE [maxRssi |-> 0, gwCount |-> 0, strongestGateway |-> NoGateway]]
  /\ UNCHANGED <<whiteList, latest, sendAck, netRx, deviceVars, copies, heard,
                 reported, downlinks>>

UnpromptedSend(d) ==
  /\ Unprompted
  /\ d \in whiteList
  /\ \E m \in Messages : Send(d, m)
  /\ UNCHANGED <<whiteList, latest, stats, sendAck, netRx, answering, deviceVars,
                 copies, heard, reported, downlinks, owed>>

(* Mutant of Downlink: any gateway will do. *)
DownlinkAnywhere(d) ==
  IF packetToTransmit[d] = NoMessage
  THEN UNCHANGED <<packetToTransmit, downlinks, owed>>
  ELSE /\ \E g \in Gateways :
            downlinks' = [downlinks EXCEPT ![d] =
              Append(@, [gw |-> g, msg |-> packetToTransmit[d]])]
       /\ packetToTransmit' = [packetToTransmit EXCEPT ![d] = NoMessage]
       /\ owed' = [owed EXCEPT ![d] = @ \ Contents(packetToTransmit[d])]

(* What is to be sent goes to the gateway that heard the device best. *)
Downlink(d) ==
  IF packetToTransmit[d] = NoMessage
  THEN UNCHANGED <<packetToTransmit, downlinks, owed>>
  ELSE /\ downlinks' = [downlinks EXCEPT ![d] =
            Append(@, [gw  |-> IF stats[d] = NoStats THEN NoGateway
                               ELSE stats[d].strongestGateway,
                       msg |-> packetToTransmit[d]])]
       /\ packetToTransmit' = [packetToTransmit EXCEPT ![d] = NoMessage]
       /\ owed' = [owed EXCEPT ![d] = @ \ Contents(packetToTransmit[d])]

(* Half a second after the first copy the window is closed. *)
SendAck(d) ==
  /\ sendAck[d] > 0
  /\ netRx = <<>>
  /\ d \notin answering
  /\ Downlink(d)
  /\ stats' = [stats EXCEPT ![d] = NoStats]
  /\ sendAck' = [sendAck EXCEPT ![d] = @ - 1]
  /\ heard' = [heard EXCEPT ![d] = {}]
  /\ UNCHANGED <<whiteList, latest, netRx, answering, deviceVars, copies, reported>>

-----------------------------------------------------------------------------
Next ==
  \/ \E d \in Devices :
       \/ NewFrame(d)
       \/ Retransmission(d)
       \/ WhiteListDevice(d)
       \/ Answer(d)
       \/ UnpromptedSend(d)
       \/ SendAck(d)
  \/ \E c \in copies : MessageReceived(c)
  \/ NetRx

(* Copies on their way arrive and scheduled events run. *)
Fairness ==
  /\ WF_vars(\E c \in copies : MessageReceived(c))
  /\ WF_vars(NetRx)
  /\ \A d \in Devices : WF_vars(Answer(d)) /\ WF_vars(SendAck(d))

Spec == Init /\ [][Next]_vars
FairSpec == Spec /\ Fairness

-----------------------------------------------------------------------------
(* Properties *)

(* A device has an entry in m_stats exactly while the SendAck that erases   *)
(* it is scheduled. An entry nobody erases would make the network take      *)
(* every later transmission of the device for another copy, for good.       *)
WindowsClose ==
  \A d \in Devices : sendAck[d] = (IF stats[d] = NoStats THEN 0 ELSE 1)

(* "This function shows only filtered messages. I.e. no duplicates"         *)
(* (lora-network.h): however often a frame is sent, however many gateways   *)
(* pass it on and whenever the copies arrive, the applications are told of  *)
(* each frame the network has heard from a device it controls, in the order *)
(* of the numbers, and of none twice. One case is not so: a frame that is   *)
(* the first to be heard and has the number m_latest is made with is taken  *)
(* for a duplicate, and no other frame ever is.                             *)
ReportedOnce ==
  \A d \in Devices :
    /\ \A i, j \in DOMAIN reported[d] : i < j => reported[d][i] < reported[d][j]
    /\ heard[d] # {} =>
         \/ Contains(reported[d], sent[d] - 1)
         \/ Contains(netRx, [dev |-> d, num |-> sent[d] - 1])
         \/ sent[d] - 1 = Unheard /\ reported[d] = <<>>

(* What an application answers to a frame is not lost: it waits to be sent  *)
(* until a gateway gets it, whatever else is sent to the device meanwhile.  *)
NothingOwedIsLost ==
  \A d \in Devices : owed[d] \subseteq Contents(packetToTransmit[d])

(* A downlink goes to a gateway that heard the transmission it answers, and *)
(* none of those whose copies came in time heard it better, so a window has *)
(* one downlink at most; an ack is for the frame the device sent last.      *)
AnswersBestGateway ==
  [][ \A d \in Devices :
        Len(downlinks'[d]) > Len(downlinks[d]) =>
          LET down == Last(downlinks'[d]) IN
          /\ \E h \in heard[d] :
               h.gw = down.gw /\ \A other \in heard[d] : other.rssi <= h.rssi
          /\ down.msg.ack \in {NoAck, Counter(sent[d] - 1)} ]_vars

(* A frame that wants an answer and was heard gets one. *)
AnswerForwarded ==
  \A d \in Devices :
    (heard[d] # {} /\ kind[d] # "plain")
      ~> \E i \in DOMAIN downlinks[d] : downlinks[d][i].msg.ack # NoAck

=============================================================================
