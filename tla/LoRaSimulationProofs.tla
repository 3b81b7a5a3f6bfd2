------------------------- MODULE LoRaSimulationProofs -------------------------
(***************************************************************************)
(* Proofs about LoRaNetwork and about LoRaSimulation, whose programs take  *)
(* the network's actions among their own.                                  *)
(*                                                                         *)
(* The first part is about the network alone (Spec), for any devices,      *)
(* gateways and strengths, any messages of the applications and any number *)
(* of frames up to the width of the frame counter.  The second is about    *)
(* the programs (SpecSimulation), for any places, options and times.       *)
(***************************************************************************)
EXTENDS LoRaSimulation, FiniteSetTheorems, WellFoundedInduction, TLAPS

Copy == [dev : Devices, gw : Gateways, rssi : 1..MaxRssi, num : Nat,
         wantsAck : BOOLEAN]
Reception == [gw : Gateways, rssi : 1..MaxRssi]
Report == [dev : Devices, num : Nat]
Sending == [gw : Gateways \cup {NoGateway}, msg : Message]

TypeOK ==
  /\ whiteList \subseteq Devices
  /\ latest \in [Devices -> Nat]
  /\ packetToTransmit \in [Devices -> Message \cup {NoMessage}]
  /\ stats \in [Devices -> Stats \cup {NoStats}]
  /\ sendAck \in [Devices -> Nat]
  /\ netRx \in Seq(Report)
  /\ answering \subseteq Devices
  /\ sent \in [Devices -> 0..MaxFrames]
  /\ kind \in [Devices -> Kinds]
  /\ copies \subseteq Copy
  /\ heard \in [Devices -> SUBSET Reception]
  /\ reported \in [Devices -> Seq(Nat)]
  /\ downlinks \in [Devices -> Seq(Sending)]
  /\ owed \in [Devices -> SUBSET {"command", "data"}]

-----------------------------------------------------------------------------
(* The inductive invariant *)

(* A copy on its way is one of the device's last transmission. *)
CopiesInv == \A c \in copies : c.num = sent[c.dev] - 1

(* The network knows something of a transmission only while its window is   *)
(* open, and opens windows for devices it controls only.                   *)
WindowInv ==
  /\ WindowsClose
  /\ \A d \in Devices :
       stats[d] = NoStats => heard[d] = {} /\ d \notin answering
  /\ \A d \in Devices \ whiteList : stats[d] = NoStats /\ reported[d] = <<>>

(* A report on its way to the applications is the one of an open window. *)
ReportsInv ==
  \A i \in 1..Len(netRx) :
    LET d == netRx[i].dev IN
    /\ stats[d] # NoStats
    /\ netRx[i].num = sent[d] - 1
    /\ latest[d] = netRx[i].num
    /\ \A j \in 1..Len(reported[d]) : reported[d][j] < netRx[i].num
    /\ \A j \in 1..Len(netRx) : netRx[j].dev = d => j = i

(* The applications are told of the frames of a device in the order of      *)
(* their numbers, and so of none twice.                                    *)
ReportedInOrder ==
  \A d \in Devices : \A i, j \in 1..Len(reported[d]) :
    i < j => reported[d][i] < reported[d][j]

ReportedInv ==
  /\ ReportedInOrder
  /\ \A d \in Devices : \A i \in 1..Len(reported[d]) :
       reported[d][i] <= latest[d] /\ latest[d] < sent[d]

(* The applications have been told of the frame, or are about to be. *)
Told(d, n) ==
  \/ \E i \in 1..Len(reported[d]) : reported[d][i] = n
  \/ \E i \in 1..Len(netRx) : netRx[i].dev = d /\ netRx[i].num = n

(* They are told of every frame m_latest has held.  The number it holds at  *)
(* first is the exception, until another frame has been heard.             *)
LatestInv ==
  \A d \in whiteList :
    \/ Told(d, latest[d])
    \/ latest[d] = Unheard /\ reported[d] = <<>>

(* While the window of a transmission is open, the entry in m_stats is the  *)
(* strongest of the copies that came, and m_latest holds the frame.        *)
BestInv ==
  \A d \in Devices :
    stats[d] # NoStats =>
      /\ latest[d] = sent[d] - 1
      /\ sent[d] > 0
      /\ \E h \in heard[d] :
           h.gw = stats[d].strongestGateway /\ h.rssi = stats[d].maxRssi
      /\ \A h \in heard[d] : h.rssi <= stats[d].maxRssi

(* An ack is prepared in the window of the frame it is for. *)
AckInv ==
  \A d \in Devices :
    packetToTransmit[d] # NoMessage =>
      \/ packetToTransmit[d].ack = NoAck
      \/ stats[d] # NoStats /\ packetToTransmit[d].ack = Counter(sent[d] - 1)

IInv ==
  /\ TypeOK
  /\ CopiesInv
  /\ WindowInv
  /\ ReportsInv
  /\ ReportedInv
  /\ LatestInv
  /\ BestInv
  /\ AckInv

(* Whatever an application answers waits in the open window. *)
OwedInv ==
  /\ NothingOwedIsLost
  /\ \A d \in Devices : stats[d] = NoStats => owed[d] = {}

-----------------------------------------------------------------------------
(* The bounds keep frame counters from wrapping. *)
LEMMA CounterIsNumber ==
  ASSUME NEW n \in Nat, n < MaxFrames
  PROVE  Counter(n) = n
BY NetworkBounds DEF Counter

(* What is stored is of the type of what is sent, and keeps the ack it has. *)
LEMMA MergedMessage ==
  ASSUME NEW kept \in Message \cup {NoMessage}, NEW m \in Messages
  PROVE  /\ Merged(kept, m) \in Message
         /\ kept = NoMessage => Merged(kept, m).ack = NoAck
         /\ kept # NoMessage => Merged(kept, m).ack = kept.ack
<1>1. m \in Message /\ m.ack = NoAck
  BY NetworkValues
<1>2. CASE kept = NoMessage
  BY <1>1, <1>2, NetworkValues DEF Merged
<1>3. CASE kept # NoMessage /\ m.data
  BY <1>3 DEF Merged
<1>4. CASE kept # NoMessage /\ ~m.data
  <2>1. Merged(kept, m) = [kept EXCEPT !.command = @ \/ m.command]
    BY <1>4 DEF Merged
  <2>2. kept \in Message
    BY <1>4
  <2>3. (kept.command \/ m.command) \in BOOLEAN
    OBVIOUS
  <2> QED BY <1>4, <2>1, <2>2, <2>3 DEF Message
<1> QED BY <1>2, <1>3, <1>4

(* A network that controls nothing. *)
LEMMA Initially == Init => IInv
<1> SUFFICES ASSUME Init PROVE IInv
  OBVIOUS
<1>1. TypeOK
  BY NetworkBounds DEF Init, TypeOK, Kinds
<1>2. CopiesInv /\ WindowInv /\ ReportsInv
  BY DEF Init, CopiesInv, WindowInv, WindowsClose, ReportsInv
<1>3. ReportedInv /\ LatestInv /\ BestInv /\ AckInv
  BY DEF Init, ReportedInv, ReportedInOrder, LatestInv, BestInv, AckInv
<1> QED BY <1>1, <1>2, <1>3 DEF IInv

(* A device that transmits has no window open and no report on its way. *)
LEMMA Silent ==
  ASSUME IInv, NEW d \in Devices, Quiet(d)
  PROVE  /\ stats[d] = NoStats
         /\ \A c \in copies : c.dev # d
         /\ \A i \in 1..Len(netRx) : netRx[i].dev # d
BY DEF IInv, TypeOK, Quiet, CopiesOf, WindowInv, WindowsClose, ReportsInv

(* The gateways pass on copies of what the device transmits. *)
LEMMA TransmitCopies ==
  ASSUME IInv, NEW d \in Devices, NEW n \in Nat, NEW k, Transmit(d, n, k)
  PROVE  /\ copies' \subseteq Copy
         /\ \A c \in copies' \ copies : c.dev = d /\ c.num = n
<1>1. PICK rssi \in [Gateways -> 0..MaxRssi] :
        copies' = copies \cup {[dev |-> d, gw |-> g, rssi |-> rssi[g], num |-> n,
                                wantsAck |-> k # "plain"] :
                                 g \in {h \in Gateways : rssi[h] > 0}}
  BY DEF Transmit
<1>2. \A g \in {h \in Gateways : rssi[h] > 0} : rssi[g] \in 1..MaxRssi
  BY NetworkBounds
<1>3. copies \subseteq Copy
  BY DEF IInv, TypeOK
<1>4. ASSUME NEW c \in copies' \ copies
      PROVE  c \in Copy /\ c.dev = d /\ c.num = n
  <2>1. PICK g \in {h \in Gateways : rssi[h] > 0} :
          c = [dev |-> d, gw |-> g, rssi |-> rssi[g], num |-> n,
               wantsAck |-> k # "plain"]
    BY <1>1, <1>4
  <2>2. (k # "plain") \in BOOLEAN
    OBVIOUS
  <2> QED BY <1>2, <2>1, <2>2 DEF Copy
<1> QED BY <1>3, <1>4

(* A new frame makes the number of the last one larger. *)
LEMMA NewFrameStep ==
  ASSUME IInv, NEW d \in Devices, NewFrame(d)
  PROVE  IInv'
<1> USE DEF IInv, TypeOK
<1>1. PICK k \in Kinds : kind' = [kind EXCEPT ![d] = k] /\ Transmit(d, sent[d], k)
  BY DEF NewFrame
<1>2. /\ sent[d] < MaxFrames
      /\ sent' = [sent EXCEPT ![d] = @ + 1]
      /\ downlinks' = [downlinks EXCEPT ![d] = <<>>]
      /\ UNCHANGED <<networkVars, answering, heard, reported, owed>>
  BY <1>1 DEF NewFrame, Transmit
<1>3. /\ copies' \subseteq Copy
      /\ \A c \in copies' \ copies : c.dev = d /\ c.num = sent[d]
  <2>1. sent[d] \in Nat
    BY NetworkBounds
  <2> QED BY <1>1, <2>1, TransmitCopies
<1>4. /\ stats[d] = NoStats
      /\ \A c \in copies : c.dev # d
      /\ \A i \in 1..Len(netRx) : netRx[i].dev # d
  BY <1>1, Silent DEF Transmit
<1>5. TypeOK'
  <2>1. sent' \in [Devices -> 0..MaxFrames] /\ kind' \in [Devices -> Kinds]
    BY <1>1, <1>2, NetworkBounds
  <2>2. downlinks' \in [Devices -> Seq(Sending)]
    BY <1>2
  <2> QED BY <1>2, <1>3, <2>1, <2>2 DEF networkVars
<1>6. CopiesInv'
  BY <1>2, <1>3, <1>4 DEF CopiesInv, Copy
<1>7. WindowInv' /\ LatestInv'
  BY <1>2 DEF WindowInv, WindowsClose, LatestInv, Told, networkVars
<1>10. ReportsInv'
  <2>1. UNCHANGED <<netRx, stats, latest, reported>>
    BY <1>2 DEF networkVars
  <2>2. \A i \in 1..Len(netRx) : sent'[netRx[i].dev] = sent[netRx[i].dev]
    <3> TAKE i \in 1..Len(netRx)
    <3>1. netRx[i] \in Report /\ netRx[i].dev # d
      BY <1>4
    <3>2. netRx[i].dev \in Devices
      BY <3>1 DEF Report
    <3> QED BY <1>2, <3>1, <3>2
  <2> QED BY <2>1, <2>2 DEF ReportsInv
<1>8. ReportedInv'
  <2>1. UNCHANGED <<latest, reported>>
    BY <1>2 DEF networkVars
  <2>2. ReportedInOrder'
    BY <2>1 DEF ReportedInv, ReportedInOrder
  <2>3. \A e \in Devices : {sent[e], sent'[e]} \subseteq Nat /\ sent[e] <= sent'[e]
    BY <1>2, NetworkBounds
  <2> SUFFICES ASSUME NEW e \in Devices, NEW i \in 1..Len(reported[e])
               PROVE  reported[e][i] <= latest[e] /\ latest[e] < sent'[e]
    BY <2>1, <2>2 DEF ReportedInv
  <2>4. reported[e][i] <= latest[e] /\ latest[e] < sent[e]
    BY DEF ReportedInv
  <2>5. latest[e] \in Nat
    OBVIOUS
  <2> QED BY <2>3, <2>4, <2>5
<1>9. BestInv' /\ AckInv'
  BY <1>2, <1>4 DEF BestInv, AckInv, networkVars
<1> QED BY <1>5, <1>6, <1>7, <1>8, <1>9, <1>10

(* A retransmission keeps the number. *)
LEMMA RetransmissionStep ==
  ASSUME IInv, NEW d \in Devices, Retransmission(d)
  PROVE  IInv'
<1> USE DEF IInv, TypeOK
<1>1. sent[d] > 0 /\ sent[d] - 1 \in Nat /\ Transmit(d, sent[d] - 1, "confirmed")
  BY DEF Retransmission
<1>2. /\ downlinks' = [downlinks EXCEPT ![d] = <<>>]
      /\ UNCHANGED <<networkVars, answering, heard, reported, owed, deviceVars>>
  BY DEF Retransmission, Transmit
<1>3. /\ copies' \subseteq Copy
      /\ \A c \in copies' \ copies : c.dev = d /\ c.num = sent[d] - 1
  BY <1>1, TransmitCopies
<1>4. TypeOK'
  <2>1. downlinks' \in [Devices -> Seq(Sending)]
    BY <1>2
  <2> QED BY <1>2, <1>3, <2>1 DEF networkVars, deviceVars
<1>5. CopiesInv'
  BY <1>2, <1>3 DEF CopiesInv, deviceVars
<1>6. WindowInv' /\ ReportsInv' /\ LatestInv'
  BY <1>2
  DEF WindowInv, WindowsClose, ReportsInv, LatestInv, Told, networkVars, deviceVars
<1>7. ReportedInv' /\ BestInv' /\ AckInv'
  BY <1>2
  DEF ReportedInv, ReportedInOrder, BestInv, AckInv, networkVars, deviceVars
<1> QED BY <1>4, <1>5, <1>6, <1>7

(* A device is known from then on; nothing has been reported of it. *)
LEMMA WhiteListDeviceStep ==
  ASSUME IInv, NEW d \in Devices, WhiteListDevice(d)
  PROVE  IInv'
<1> USE DEF IInv, TypeOK, WhiteListDevice, deviceVars
<1>1. stats[d] = NoStats /\ reported[d] = <<>>
  BY DEF WindowInv
<1>2. TypeOK'
  <2>1. latest' \in [Devices -> Nat]
    BY NetworkBounds
  <2> QED BY <2>1
<1>3. CopiesInv' /\ WindowInv' /\ ReportsInv'
  BY <1>1 DEF CopiesInv, WindowInv, WindowsClose, ReportsInv
<1>4. ReportedInv' /\ BestInv' /\ AckInv'
  BY <1>1, SMTT(30) DEF ReportedInv, ReportedInOrder, BestInv, AckInv
<1>5. LatestInv'
  BY <1>1 DEF LatestInv, Told
<1> QED BY <1>2, <1>3, <1>4, <1>5

(* Of a device that is not controlled no copy is looked at. *)
LEMMA UnknownDeviceStep ==
  ASSUME IInv, NEW c \in copies,
         copies' = copies \ {c},
         UNCHANGED <<networkVars, answering, deviceVars, heard, reported, downlinks,
                     owed>>
  PROVE  IInv'
<1> USE DEF IInv, TypeOK, networkVars, deviceVars
<1>1. TypeOK' /\ CopiesInv'
  BY DEF CopiesInv
<1>2. WindowInv' /\ ReportsInv' /\ LatestInv'
  BY DEF WindowInv, WindowsClose, ReportsInv, LatestInv, Told
<1>3. ReportedInv' /\ BestInv' /\ AckInv'
  BY DEF ReportedInv, ReportedInOrder, BestInv, AckInv
<1> QED BY <1>1, <1>2, <1>3

(* A copy in an open window moves the maximum if it is stronger. *)
LEMMA AnotherCopyStep ==
  ASSUME IInv, NEW c \in copies,
         AnotherCopy(c),
         c.dev \in whiteList,
         copies' = copies \ {c},
         heard' = [heard EXCEPT ![c.dev] = @ \cup {[gw |-> c.gw, rssi |-> c.rssi]}],
         UNCHANGED <<whiteList, answering, deviceVars, reported, downlinks, owed>>
  PROVE  IInv'
<1> USE DEF IInv, TypeOK, deviceVars
<1> DEFINE d == c.dev
           h == [gw |-> c.gw, rssi |-> c.rssi]
           s == Counted(stats[d], c)
<1>1. /\ d \in Devices
      /\ h \in Reception /\ h.gw = c.gw /\ h.rssi = c.rssi
      /\ c.rssi \in 1..MaxRssi /\ c.gw \in Gateways
  BY DEF Copy, Reception
<1>2. stats[d] \in Stats
  BY <1>1 DEF AnotherCopy
<1>3. /\ stats' = [stats EXCEPT ![d] = s]
      /\ heard' = [heard EXCEPT ![d] = @ \cup {h}]
      /\ UNCHANGED <<latest, packetToTransmit, sendAck, netRx>>
  BY DEF AnotherCopy
<1>4. /\ s \in Stats
      /\ \/ /\ stats[d].maxRssi < h.rssi
            /\ s.maxRssi = h.rssi /\ s.strongestGateway = h.gw
         \/ /\ h.rssi <= stats[d].maxRssi
            /\ s.maxRssi = stats[d].maxRssi
            /\ s.strongestGateway = stats[d].strongestGateway
  <2>1. CASE stats[d].maxRssi < c.rssi
    BY <1>1, <1>2, <2>1, NetworkBounds, SMTT(30) DEF Stats, Counted
  <2>2. CASE ~(stats[d].maxRssi < c.rssi)
    <3>1. s = [stats[d] EXCEPT !.gwCount = stats[d].gwCount + 1]
      BY <2>2 DEF Counted
    <3>2. stats[d].gwCount + 1 \in Nat
      BY <1>2 DEF Stats
    <3>3. /\ s \in Stats
          /\ s.maxRssi = stats[d].maxRssi
          /\ s.strongestGateway = stats[d].strongestGateway
      BY <1>2, <3>1, <3>2 DEF Stats
    <3>4. h.rssi <= stats[d].maxRssi
      BY <1>1, <1>2, <2>2, NetworkBounds DEF Stats
    <3> QED BY <3>3, <3>4
  <2> QED BY <2>1, <2>2
<1>5. s # NoStats /\ stats[d] # NoStats
  BY <1>2, <1>4, NetworkValues
<1> HIDE DEF h, s
<1>6. TypeOK'
  <2>1. stats' \in [Devices -> Stats \cup {NoStats}]
    BY <1>1, <1>3, <1>4
  <2>2. heard' \in [Devices -> SUBSET Reception]
    BY <1>1, <1>3
  <2> QED BY <1>3, <2>1, <2>2
<1>7. CopiesInv'
  BY DEF CopiesInv
<1>8. \A e \in Devices : stats'[e] = NoStats <=> stats[e] = NoStats
  BY <1>1, <1>3, <1>5
<1>9. WindowInv'
  BY <1>1, <1>3, <1>5, <1>8 DEF WindowInv, WindowsClose
<1>10. ReportsInv'
  BY <1>3, <1>5, SMTT(30) DEF ReportsInv
<1>11. ReportedInv' /\ LatestInv'
  BY <1>3 DEF ReportedInv, ReportedInOrder, LatestInv, Told
<1>12. AckInv'
  BY <1>3, <1>8 DEF AckInv
<1>13. BestInv'
  <2> SUFFICES ASSUME NEW e \in Devices, stats'[e] # NoStats
               PROVE  /\ \E g \in heard'[e] :
                            /\ g.gw = stats'[e].strongestGateway
                            /\ g.rssi = stats'[e].maxRssi
                      /\ \A g \in heard'[e] : g.rssi <= stats'[e].maxRssi
    BY <1>3, <1>8 DEF BestInv
  <2>1. CASE e # d
    BY <1>1, <1>3, <1>8, <2>1 DEF BestInv
  <2>2. CASE e = d
    <3>1. stats'[d] = s /\ heard'[d] = heard[d] \cup {h}
      BY <1>1, <1>3
    <3>2. /\ \E g \in heard[d] :
               g.gw = stats[d].strongestGateway /\ g.rssi = stats[d].maxRssi
          /\ \A g \in heard[d] : g.rssi <= stats[d].maxRssi
      BY <1>1, <1>5 DEF BestInv
    <3>3. \A g \in heard[d] \cup {h} : g.rssi \in Int
      BY <1>1 DEF Reception
    <3>4. stats[d].maxRssi \in Int
      BY <1>2, NetworkBounds DEF Stats
    <3> QED BY <1>4, <2>2, <3>1, <3>2, <3>3, <3>4
  <2> QED BY <2>1, <2>2
<1> QED BY <1>6, <1>7, <1>9, <1>10, <1>11, <1>12, <1>13

(* The copy that opens a window: its frame is the last one the device sent, *)
(* and a report of a new one is the only report of the device on its way.  *)
LEMMA FirstCopyStep ==
  ASSUME IInv, NEW c \in copies,
         FirstCopy(c),
         c.dev \in whiteList,
         copies' = copies \ {c},
         heard' = [heard EXCEPT ![c.dev] = @ \cup {[gw |-> c.gw, rssi |-> c.rssi]}],
         UNCHANGED <<whiteList, answering, deviceVars, reported, downlinks, owed>>
  PROVE  IInv'
<1> USE DEF IInv, TypeOK, deviceVars
<1> DEFINE d == c.dev
           h == [gw |-> c.gw, rssi |-> c.rssi]
           s == [maxRssi |-> c.rssi, gwCount |-> 1, strongestGateway |-> c.gw]
           r == [dev |-> d, num |-> c.num]
<1>1. /\ d \in Devices
      /\ h \in Reception /\ h.gw = c.gw /\ h.rssi = c.rssi
      /\ c.rssi \in 1..MaxRssi /\ c.gw \in Gateways /\ c.num \in Nat
      /\ r \in Report /\ r.dev = d /\ r.num = c.num
      /\ c.wantsAck \in BOOLEAN
  BY DEF Copy, Reception, Report
<1>2. /\ c.num = sent[d] - 1
      /\ sent[d] > 0
      /\ c.num < MaxFrames
  BY <1>1, NetworkBounds DEF CopiesInv
<1>3. Counter(c.num) = c.num
  BY <1>1, <1>2, CounterIsNumber
<1>4. /\ s \in Stats
      /\ s.maxRssi = h.rssi /\ s.strongestGateway = h.gw
      /\ s # NoStats
  BY <1>1, NetworkBounds, NetworkValues DEF Stats
<1> HIDE DEF h, s
<1>5. /\ stats[d] = NoStats
      /\ stats' = [stats EXCEPT ![d] = s]
      /\ latest' = [latest EXCEPT ![d] = c.num]
      /\ sendAck' = [sendAck EXCEPT ![d] = @ + 1]
      /\ heard' = [heard EXCEPT ![d] = @ \cup {h}]
  BY <1>3 DEF FirstCopy, ScheduleSendAck, s, h
<1>6. /\ latest[d] # c.num => netRx' = Append(netRx, r)
      /\ latest[d] = c.num => netRx' = netRx
  BY <1>3 DEF FirstCopy, NewNumber
<1> HIDE DEF r
<1>7. /\ sendAck[d] = 0
      /\ heard[d] = {}
      /\ d \notin answering
      /\ \A i \in 1..Len(netRx) : netRx[i].dev # d
  BY <1>1, <1>5 DEF WindowInv, WindowsClose, ReportsInv
<1>8. AfterFirstCopy(c) = NoMessage
      \/ /\ AfterFirstCopy(c) \in Message
         /\ AfterFirstCopy(c).ack \in {NoAck, Counter(sent[d] - 1)}
  <2>1. CASE c.wantsAck
    <3>1. AfterFirstCopy(c) = Ack(c.num)
      BY <2>1 DEF AfterFirstCopy
    <3>2. Counter(c.num) \in 0..FrmMod
      BY <1>1, <1>2, <1>3, NetworkBounds
    <3> QED BY <1>2, <3>1, <3>2 DEF Ack, Message
  <2>2. CASE ~c.wantsAck
    <3>1. AfterFirstCopy(c) \in {NoMessage, packetToTransmit[d]}
      BY <2>2 DEF AfterFirstCopy
    <3>2. packetToTransmit[d] # NoMessage =>
            packetToTransmit[d] \in Message /\ packetToTransmit[d].ack = NoAck
      BY <1>1, <1>5 DEF AckInv
    <3> QED BY <3>1, <3>2
  <2> QED BY <2>1, <2>2
<1>9. packetToTransmit' = [packetToTransmit EXCEPT ![d] = AfterFirstCopy(c)]
  BY DEF FirstCopy
<1>10. TypeOK'
  <2>1. /\ stats' \in [Devices -> Stats \cup {NoStats}]
        /\ heard' \in [Devices -> SUBSET Reception]
        /\ latest' \in [Devices -> Nat]
        /\ sendAck' \in [Devices -> Nat]
    BY <1>1, <1>4, <1>5
  <2>2. packetToTransmit' \in [Devices -> Message \cup {NoMessage}]
    BY <1>1, <1>8, <1>9
  <2>3. netRx' \in Seq(Report)
    <3>1. Append(netRx, r) \in Seq(Report)
      BY <1>1
    <3> QED BY <1>6, <3>1
  <2> QED BY <2>1, <2>2, <2>3
<1>11. CopiesInv'
  BY DEF CopiesInv
<1>12. WindowInv'
  BY <1>1, <1>4, <1>5, <1>7 DEF WindowInv, WindowsClose
<1>13. AckInv'
  BY <1>1, <1>4, <1>5, <1>8, <1>9 DEF AckInv
<1>14. BestInv'
  <2> SUFFICES ASSUME NEW e \in Devices, stats'[e] # NoStats
               PROVE  /\ latest'[e] = sent[e] - 1
                      /\ sent[e] > 0
                      /\ \E g \in heard'[e] :
                            /\ g.gw = stats'[e].strongestGateway
                            /\ g.rssi = stats'[e].maxRssi
                      /\ \A g \in heard'[e] : g.rssi <= stats'[e].maxRssi
    BY DEF BestInv
  <2>1. CASE e # d
    BY <1>1, <1>5, <2>1 DEF BestInv
  <2>2. CASE e = d
    <3>1. stats'[d] = s /\ heard'[d] = {h} /\ latest'[d] = c.num
      BY <1>1, <1>5, <1>7
    <3> QED BY <1>1, <1>2, <1>4, <2>2, <3>1
  <2> QED BY <2>1, <2>2
<1>15. ReportedInv'
  <2>1. \A i \in 1..Len(reported[d]) : reported[d][i] <= c.num
    BY <1>1, <1>2 DEF ReportedInv
  <2> QED BY <1>1, <1>2, <1>5, <2>1, SMTT(30) DEF ReportedInv, ReportedInOrder
<1>16. CASE latest[d] # c.num
  <2>1. netRx' = Append(netRx, r)
    BY <1>6, <1>16
  <2>2. /\ Len(netRx') = Len(netRx) + 1
        /\ netRx'[Len(netRx) + 1] = r
        /\ \A i \in 1..Len(netRx) : netRx'[i] = netRx[i]
    BY <1>1, <2>1
  <2>3. Len(netRx) \in Nat
    OBVIOUS
  <2>4. \A j \in 1..Len(reported[d]) : reported[d][j] < c.num
    BY <1>1, <1>2, <1>16, SMTT(30) DEF ReportedInv
  <2>5. ReportsInv'
    <3>1. ASSUME NEW i \in 1..Len(netRx)
          PROVE  /\ stats'[netRx[i].dev] # NoStats
                 /\ netRx[i].num = sent[netRx[i].dev] - 1
                 /\ latest'[netRx[i].dev] = netRx[i].num
                 /\ \A j \in 1..Len(reported[netRx[i].dev]) :
                      reported[netRx[i].dev][j] < netRx[i].num
                 /\ \A j \in 1..Len(netRx) : netRx[j].dev = netRx[i].dev => j = i
                 /\ netRx[i].dev # d
      BY <1>1, <1>5, <1>7 DEF ReportsInv
    <3>2. stats'[d] # NoStats /\ latest'[d] = c.num
      BY <1>1, <1>4, <1>5
    <3>3. \A i \in 1..Len(netRx') : i \in 1..Len(netRx) \/ i = Len(netRx) + 1
      BY <2>2, <2>3
    <3> SUFFICES ASSUME NEW i \in 1..Len(netRx')
                 PROVE  /\ stats'[netRx'[i].dev] # NoStats
                        /\ netRx'[i].num = sent[netRx'[i].dev] - 1
                        /\ latest'[netRx'[i].dev] = netRx'[i].num
                        /\ \A j \in 1..Len(reported[netRx'[i].dev]) :
                             reported[netRx'[i].dev][j] < netRx'[i].num
                        /\ \A j \in 1..Len(netRx') :
                             netRx'[j].dev = netRx'[i].dev => j = i
      BY DEF ReportsInv
    <3>4. CASE i \in 1..Len(netRx)
      <4>1. netRx'[i] = netRx[i] /\ netRx[i].dev # d
        BY <2>2, <3>1, <3>4
      <4>2. \A j \in 1..Len(netRx') : netRx'[j].dev = netRx[i].dev => j = i
        BY <1>1, <2>2, <3>1, <3>3, <3>4, <4>1
      <4> QED BY <3>1, <3>4, <4>1, <4>2
    <3>5. CASE i = Len(netRx) + 1
      <4>1. netRx'[i] = r
        BY <2>2, <3>5
      <4>2. \A j \in 1..Len(netRx') : netRx'[j].dev = d => j = i
        BY <2>2, <3>1, <3>3, <3>5
      <4> QED BY <1>1, <1>2, <2>4, <3>2, <4>1, <4>2
    <3> QED BY <3>3, <3>4, <3>5
  <2>6. LatestInv'
    <3>1. \A e \in whiteList, n \in Nat : Told(e, n) => Told(e, n)'
      <4> SUFFICES ASSUME NEW e \in whiteList, NEW n \in Nat, Told(e, n) PROVE Told(e, n)'
        OBVIOUS
      <4>1. reported' = reported
        BY <1>1
      <4>2. CASE \E i \in 1..Len(reported[e]) : reported[e][i] = n
        BY <4>1, <4>2 DEF Told
      <4>3. CASE \E i \in 1..Len(netRx) : netRx[i].dev = e /\ netRx[i].num = n
        <5>1. PICK i \in 1..Len(netRx) : netRx[i].dev = e /\ netRx[i].num = n
          BY <4>3
        <5>2. i \in 1..Len(netRx') /\ netRx'[i] = netRx[i]
          BY <2>2, <2>3, <5>1
        <5> QED BY <5>1, <5>2 DEF Told
      <4> QED BY <4>2, <4>3 DEF Told
    <3>2. Told(d, c.num)'
      <4>1. /\ Len(netRx) + 1 \in 1..Len(netRx')
            /\ netRx'[Len(netRx) + 1].dev = d /\ netRx'[Len(netRx) + 1].num = c.num
        BY <1>1, <2>2, <2>3
      <4> HIDE DEF d
      <4> QED BY <4>1 DEF Told
    <3> QED BY <1>1, <1>5, <3>1, <3>2 DEF LatestInv
  <2> QED BY <1>10, <1>11, <1>12, <1>13, <1>14, <1>15, <2>5, <2>6
<1>17. CASE latest[d] = c.num
  <2>1. netRx' = netRx
    BY <1>6, <1>17
  <2>2. latest' = latest
    BY <1>5, <1>17
  <2>3. ReportsInv'
    BY <1>1, <1>4, <1>5, <2>1, <2>2 DEF ReportsInv
  <2>4. LatestInv'
    BY <2>1, <2>2 DEF LatestInv, Told
  <2> QED BY <1>10, <1>11, <1>12, <1>13, <1>14, <1>15, <2>3, <2>4
<1> QED BY <1>16, <1>17

(* A copy arrives, from whatever device. *)
LEMMA MessageReceivedStep ==
  ASSUME IInv, NEW c \in copies, MessageReceived(c)
  PROVE  IInv'
<1>1. CASE c.dev \in whiteList
  BY <1>1, AnotherCopyStep, FirstCopyStep DEF MessageReceived
<1>2. CASE c.dev \notin whiteList
  BY <1>2, UnknownDeviceStep DEF MessageReceived, networkVars
<1> QED BY <1>1, <1>2

(* What is reported comes after all that has been reported of the device,   *)
(* and the application has until the end of the window to react.           *)
LEMMA NetRxStep ==
  ASSUME IInv, NetRx
  PROVE  IInv'
<1> USE DEF IInv, TypeOK, deviceVars
<1> DEFINE r == Head(netRx)
           d == r.dev
<1>1. /\ netRx' = Tail(netRx)
      /\ reported' = [reported EXCEPT ![d] = Append(@, r.num)]
      /\ answering' = answering \cup {d}
      /\ UNCHANGED <<whiteList, latest, packetToTransmit, stats, sendAck, deviceVars,
                     copies, heard, downlinks, owed>>
  BY DEF NetRx
<1>2. /\ netRx # <<>> /\ 1 \in 1..Len(netRx) /\ r = netRx[1]
      /\ Len(netRx) \in Nat /\ Len(netRx') = Len(netRx) - 1
      /\ \A i \in 1..Len(netRx') : i + 1 \in 1..Len(netRx) /\ netRx'[i] = netRx[i + 1]
      /\ netRx' \in Seq(Report)
  BY DEF NetRx
<1>3. r \in Report /\ d \in Devices /\ r.num \in Nat
  <2>1. netRx[1] \in Report
    BY <1>2
  <2>2. r \in Report
    BY <1>2, <2>1
  <2> HIDE DEF r
  <2> QED BY <2>2 DEF Report
<1> HIDE DEF r
<1>4. /\ stats[d] # NoStats
      /\ r.num = sent[d] - 1
      /\ latest[d] = r.num
      /\ \A j \in 1..Len(reported[d]) : reported[d][j] < r.num
      /\ \A j \in 1..Len(netRx) : netRx[j].dev = d => j = 1
  BY <1>2 DEF ReportsInv
<1>5. /\ Len(reported[d]) \in Nat
      /\ Len(reported'[d]) = Len(reported[d]) + 1
      /\ reported'[d][Len(reported[d]) + 1] = r.num
      /\ \A j \in 1..Len(reported[d]) : reported'[d][j] = reported[d][j]
      /\ \A e \in Devices \ {d} : reported'[e] = reported[e]
  BY <1>1, <1>3
<1>6. TypeOK'
  <2>1. reported' \in [Devices -> Seq(Nat)]
    BY <1>1, <1>3
  <2> QED BY <1>1, <1>2, <1>3, <2>1
<1>7. CopiesInv'
  BY <1>1 DEF CopiesInv
<1>8. WindowInv'
  BY <1>1, <1>3, <1>4 DEF WindowInv, WindowsClose
<1>9. BestInv' /\ AckInv'
  BY <1>1 DEF BestInv, AckInv
<1>10. \A i \in 1..Len(netRx') : netRx'[i].dev # d /\ netRx'[i].dev \in Devices
  <2> TAKE i \in 1..Len(netRx')
  <2>1. netRx'[i] = netRx[i + 1] /\ i + 1 \in 1..Len(netRx) /\ i + 1 # 1
    BY <1>2
  <2>2. netRx[i + 1] \in Report
    BY <2>1
  <2> QED BY <1>4, <2>1, <2>2 DEF Report
<1>11. ReportsInv'
  <2> SUFFICES ASSUME NEW i \in 1..Len(netRx')
               PROVE  /\ stats[netRx'[i].dev] # NoStats
                      /\ netRx'[i].num = sent[netRx'[i].dev] - 1
                      /\ latest[netRx'[i].dev] = netRx'[i].num
                      /\ \A j \in 1..Len(reported'[netRx'[i].dev]) :
                           reported'[netRx'[i].dev][j] < netRx'[i].num
                      /\ \A j \in 1..Len(netRx') :
                           netRx'[j].dev = netRx'[i].dev => j = i
    BY <1>1 DEF ReportsInv
  <2>1. reported'[netRx'[i].dev] = reported[netRx'[i].dev]
    BY <1>5, <1>10
  <2>2. i + 1 \in 1..Len(netRx) /\ netRx'[i] = netRx[i + 1]
    BY <1>2
  <2>3. \A j \in 1..Len(netRx') : netRx'[j].dev = netRx'[i].dev => j + 1 = i + 1
    <3> TAKE j \in 1..Len(netRx')
    <3> HAVE netRx'[j].dev = netRx'[i].dev
    <3>1. j + 1 \in 1..Len(netRx) /\ netRx'[j] = netRx[j + 1]
      BY <1>2
    <3> QED BY <2>2, <3>1 DEF ReportsInv
  <2>4. \A j \in 1..Len(netRx') : netRx'[j].dev = netRx'[i].dev => j = i
    BY <1>2, <2>2, <2>3
  <2> QED BY <2>1, <2>2, <2>4 DEF ReportsInv
<1>12. ReportedInv'
  <2>1. \A j \in 1..Len(reported'[d]) :
          j \in 1..Len(reported[d]) \/ j = Len(reported[d]) + 1
    BY <1>5
  <2>2. \A j, k \in 1..Len(reported'[d]) : j < k => reported'[d][j] < reported'[d][k]
    <3> TAKE j, k \in 1..Len(reported'[d])
    <3> HAVE j < k
    <3>1. j \in 1..Len(reported[d])
      BY <1>5
    <3>2. CASE k \in 1..Len(reported[d])
      BY <1>3, <1>5, <3>1, <3>2 DEF ReportedInv, ReportedInOrder
    <3>3. CASE k = Len(reported[d]) + 1
      BY <1>4, <1>5, <3>1, <3>3
    <3> QED BY <2>1, <3>2, <3>3
  <2>3. \A j \in 1..Len(reported'[d]) :
          reported'[d][j] <= latest[d] /\ latest[d] < sent[d]
    <3> TAKE j \in 1..Len(reported'[d])
    <3>1. sent[d] \in Nat
      BY <1>3, NetworkBounds
    <3>2. CASE j \in 1..Len(reported[d])
      BY <1>3, <1>5, <3>2 DEF ReportedInv
    <3>3. CASE j = Len(reported[d]) + 1
      BY <1>3, <1>4, <1>5, <3>1, <3>3
    <3> QED BY <2>1, <3>2, <3>3
  <2> QED BY <1>1, <1>5, <2>2, <2>3 DEF ReportedInv, ReportedInOrder
<1>13. LatestInv'
  <2>1. ASSUME NEW e \in whiteList, NEW n \in Nat, Told(e, n)
        PROVE  Told(e, n)'
    <3>1. CASE \E j \in 1..Len(reported[e]) : reported[e][j] = n
      <4>1. PICK j \in 1..Len(reported[e]) : reported[e][j] = n
        BY <3>1
      <4>2. CASE e = d
        <5>1. j \in 1..Len(reported'[d]) /\ reported'[d][j] = n
          <6>1. j \in 1..Len(reported[d]) /\ reported[d][j] = n
            BY <4>1, <4>2
          <6>2. reported'[d][j] = reported[d][j]
            BY <1>5, <6>1
          <6>3. Len(reported[d]) \in Nat /\ Len(reported'[d]) = Len(reported[d]) + 1
            BY <1>5
          <6> QED BY ONLY <6>1, <6>2, <6>3
        <5> QED BY <4>2, <5>1 DEF Told
      <4>3. CASE e # d
        <5>1. reported'[e] = reported[e]
          BY <1>5, <4>3
        <5> QED BY <4>1, <5>1 DEF Told
      <4> QED BY <4>2, <4>3
    <3>2. CASE \E j \in 1..Len(netRx) : netRx[j].dev = e /\ netRx[j].num = n
      <4>1. PICK j \in 1..Len(netRx) : netRx[j].dev = e /\ netRx[j].num = n
        BY <3>2
      <4>2. CASE j = 1
        BY <1>2, <1>5, <4>1, <4>2, SMTT(30) DEF Told
      <4>3. CASE j # 1
        <5>1. j - 1 \in 1..Len(netRx') /\ (j - 1) + 1 = j
          BY <1>2, <4>3
        <5>2. netRx'[j - 1] = netRx[j]
          BY <1>2, <5>1
        <5> QED BY <4>1, <5>1, <5>2 DEF Told
      <4> QED BY <4>2, <4>3
    <3> QED BY <2>1, <3>1, <3>2 DEF Told
  <2> SUFFICES ASSUME NEW e \in whiteList
               PROVE  \/ Told(e, latest[e])'
                      \/ latest[e] = Unheard /\ reported'[e] = <<>>
    BY <1>1 DEF LatestInv
  <2>3. CASE Told(e, latest[e])
    BY <1>1, <2>1, <2>3
  <2>4. CASE e # d /\ latest[e] = Unheard /\ reported[e] = <<>>
    BY <1>5, <2>4
  <2>5. CASE e = d
    <3>1. Len(reported[e]) + 1 \in 1..Len(reported'[e])
      BY <1>5, <2>5
    <3>2. latest[e] = r.num /\ reported'[e][Len(reported[e]) + 1] = r.num
      BY <1>4, <1>5, <2>5
    <3> QED BY <1>1, <3>1, <3>2 DEF Told
  <2>6. Told(e, latest[e]) \/ (latest[e] = Unheard /\ reported[e] = <<>>)
    BY DEF LatestInv
  <2> QED BY <2>3, <2>4, <2>5, <2>6
<1> QED BY <1>6, <1>7, <1>8, <1>9, <1>11, <1>12, <1>13

(* An application that answers does so in the window, so that it finds an   *)
(* entry in m_stats and does not add one.                                  *)
LEMMA AnswerStep ==
  ASSUME IInv, NEW d \in Devices, Answer(d)
  PROVE  IInv'
<1> USE DEF IInv, TypeOK, deviceVars
<1>1. /\ d \in answering
      /\ answering' = answering \ {d}
      /\ UNCHANGED <<whiteList, latest, sendAck, netRx, deviceVars, copies, heard,
                     reported, downlinks>>
  BY DEF Answer
<1>2. stats[d] # NoStats
  BY <1>1 DEF WindowInv
<1>3. stats' = stats
  BY <1>2 DEF Answer
<1>4. /\ packetToTransmit' \in [Devices -> Message \cup {NoMessage}]
      /\ owed' \in [Devices -> SUBSET {"command", "data"}]
      /\ AckInv'
  <2>1. CASE \E m \in Messages :
               Send(d, m) /\ owed' = [owed EXCEPT ![d] = @ \cup Contents(m)]
    <3>1. PICK m \in Messages :
            Send(d, m) /\ owed' = [owed EXCEPT ![d] = @ \cup Contents(m)]
      BY <2>1
    <3>2. packetToTransmit' =
            [packetToTransmit EXCEPT ![d] = Merged(packetToTransmit[d], m)]
      BY <3>1 DEF Send
    <3>3. /\ Merged(packetToTransmit[d], m) \in Message
          /\ packetToTransmit[d] = NoMessage =>
               Merged(packetToTransmit[d], m).ack = NoAck
          /\ packetToTransmit[d] # NoMessage =>
               Merged(packetToTransmit[d], m).ack = packetToTransmit[d].ack
      BY MergedMessage
    <3>4. Contents(m) \subseteq {"command", "data"}
      BY DEF Contents
    <3> QED BY <1>1, <1>3, <3>1, <3>2, <3>3, <3>4 DEF AckInv
  <2>2. CASE UNCHANGED <<packetToTransmit, owed>>
    BY <1>1, <1>3, <2>2 DEF AckInv
  <2> QED BY <2>1, <2>2 DEF Answer
<1>5. TypeOK' /\ CopiesInv'
  BY <1>1, <1>3, <1>4 DEF CopiesInv
<1>6. WindowInv' /\ ReportsInv' /\ LatestInv'
  BY <1>1, <1>3 DEF WindowInv, WindowsClose, ReportsInv, LatestInv, Told
<1>7. ReportedInv' /\ BestInv'
  BY <1>1, <1>3 DEF ReportedInv, ReportedInOrder, BestInv
<1> QED BY <1>4, <1>5, <1>6, <1>7

(* Whenever else an application sends, only what is to be sent changes. *)
LEMMA UnpromptedSendStep ==
  ASSUME IInv, NEW d \in Devices, UnpromptedSend(d)
  PROVE  IInv'
<1> USE DEF IInv, TypeOK, deviceVars
<1>1. UNCHANGED <<whiteList, latest, stats, sendAck, netRx, answering, deviceVars,
                  copies, heard, reported, downlinks, owed>>
  BY DEF UnpromptedSend
<1>2. PICK m \in Messages :
        packetToTransmit' =
          [packetToTransmit EXCEPT ![d] = Merged(packetToTransmit[d], m)]
  BY DEF UnpromptedSend, Send
<1>3. /\ Merged(packetToTransmit[d], m) \in Message
      /\ packetToTransmit[d] = NoMessage => Merged(packetToTransmit[d], m).ack = NoAck
      /\ packetToTransmit[d] # NoMessage =>
           Merged(packetToTransmit[d], m).ack = packetToTransmit[d].ack
  BY MergedMessage
<1>4. TypeOK' /\ CopiesInv' /\ AckInv'
  BY <1>1, <1>2, <1>3 DEF CopiesInv, AckInv
<1>5. WindowInv' /\ ReportsInv' /\ LatestInv'
  BY <1>1 DEF WindowInv, WindowsClose, ReportsInv, LatestInv, Told
<1>6. ReportedInv' /\ BestInv'
  BY <1>1 DEF ReportedInv, ReportedInOrder, BestInv
<1> QED BY <1>4, <1>5, <1>6

(* When the window closes there is nothing left of it: what was to be sent  *)
(* is sent.                                                                *)
LEMMA SendAckStep ==
  ASSUME IInv, NEW d \in Devices, SendAck(d)
  PROVE  IInv'
<1> USE DEF IInv, TypeOK, deviceVars
<1>1. /\ netRx = <<>>
      /\ d \notin answering
      /\ stats' = [stats EXCEPT ![d] = NoStats]
      /\ heard' = [heard EXCEPT ![d] = {}]
      /\ UNCHANGED <<whiteList, latest, netRx, answering, deviceVars, copies, reported>>
  BY DEF SendAck
<1>2. stats[d] # NoStats /\ sendAck' = [sendAck EXCEPT ![d] = 0]
  <2>1. sendAck[d] > 0 /\ sendAck' = [sendAck EXCEPT ![d] = sendAck[d] - 1]
    BY DEF SendAck
  <2>2. stats[d] # NoStats /\ sendAck[d] = 1
    BY <2>1 DEF WindowInv, WindowsClose
  <2> QED BY <2>1, <2>2
<1>3. /\ packetToTransmit' = [packetToTransmit EXCEPT ![d] = NoMessage]
      /\ downlinks' \in [Devices -> Seq(Sending)]
      /\ owed' \in [Devices -> SUBSET {"command", "data"}]
  <2>1. CASE packetToTransmit[d] = NoMessage
    BY <2>1 DEF SendAck, Downlink
  <2>2. CASE packetToTransmit[d] # NoMessage
    <3> DEFINE s == [gw  |-> stats[d].strongestGateway, msg |-> packetToTransmit[d]]
    <3>1. s \in Sending
      BY <1>2, <2>2 DEF Stats, Sending
    <3>2. downlinks' = [downlinks EXCEPT ![d] = Append(@, s)]
      BY <1>2, <2>2 DEF SendAck, Downlink
    <3>3. /\ packetToTransmit' = [packetToTransmit EXCEPT ![d] = NoMessage]
          /\ owed' = [owed EXCEPT ![d] = @ \ Contents(packetToTransmit[d])]
      BY <2>2 DEF SendAck, Downlink
    <3> HIDE DEF s
    <3> QED BY <3>1, <3>2, <3>3
  <2> QED BY <2>1, <2>2
<1>4. TypeOK'
  BY <1>1, <1>2, <1>3
<1>5. CopiesInv' /\ ReportsInv' /\ LatestInv'
  BY <1>1 DEF CopiesInv, ReportsInv, LatestInv, Told
<1>6. WindowInv'
  BY <1>1, <1>2 DEF WindowInv, WindowsClose
<1>7. ReportedInv' /\ BestInv' /\ AckInv'
  BY <1>1, <1>3 DEF ReportedInv, ReportedInOrder, BestInv, AckInv
<1> QED BY <1>4, <1>5, <1>6, <1>7

-----------------------------------------------------------------------------
(* The inductive invariant: windows, reports, numbers and acks fit together *)
(* in every state of the handlers of lora-network.cc.                       *)
THEOREM Invariance == Spec => []IInv
<1>1. ASSUME IInv, [Next]_vars PROVE IInv'
  <2>1. CASE UNCHANGED vars
    BY <1>1, <2>1
    DEF vars, networkVars, deviceVars, IInv, TypeOK, CopiesInv, WindowInv,
        WindowsClose, ReportsInv, ReportedInv, ReportedInOrder, LatestInv, Told,
        BestInv, AckInv
  <2>2. CASE Next
    BY <1>1, <2>2, NewFrameStep, RetransmissionStep, WhiteListDeviceStep, AnswerStep,
       UnpromptedSendStep, SendAckStep, MessageReceivedStep, NetRxStep
    DEF Next
  <2> QED BY <1>1, <2>1, <2>2
<1> QED BY <1>1, Initially, PTL DEF Spec

(* Every field of LoRaNetwork keeps its type. *)
THEOREM TypeCorrectness == Spec => []TypeOK
BY Invariance, PTL DEF IInv

(* A device has an entry in m_stats exactly while the SendAck that erases   *)
(* it is scheduled (MessageReceived, GetCount and SendAck of                *)
(* lora-network.cc).                                                        *)
THEOREM EveryWindowCloses == Spec => []WindowsClose
BY Invariance, PTL DEF IInv, WindowInv

(* MessageReceived reports the frames of a device in the order of their     *)
(* numbers and none twice, however often frames are sent and however many   *)
(* gateways pass them on.                                                   *)
THEOREM NoDuplicates == Spec => []ReportedInOrder
BY Invariance, PTL DEF IInv, ReportedInv

(* The frames the network hears from a device it controls are all reported, *)
(* but for one case: the number m_latest holds at first, 255, is not if    *)
(* that frame is the first that is heard.                                  *)
HeardIsTold ==
  \A d \in Devices :
    heard[d] # {} =>
      \/ Told(d, sent[d] - 1)
      \/ sent[d] - 1 = Unheard /\ reported[d] = <<>>

(* MessageReceived reports every frame it hears from a device it controls,  *)
(* but one that has the number m_latest is made with.                       *)
THEOREM EveryFrameTold == Spec => []HeardIsTold
<1>1. IInv => HeardIsTold
  <2> SUFFICES ASSUME IInv, NEW d \in Devices, heard[d] # {}
               PROVE  \/ Told(d, sent[d] - 1)
                      \/ sent[d] - 1 = Unheard /\ reported[d] = <<>>
    BY DEF HeardIsTold
  <2>1. stats[d] # NoStats
    BY DEF IInv, WindowInv
  <2>2. d \in whiteList /\ latest[d] = sent[d] - 1
    BY <2>1 DEF IInv, WindowInv, BestInv
  <2> QED BY <2>2 DEF IInv, LatestInv
<1> QED BY <1>1, Invariance, PTL

(* MessageReceived reports each frame it hears once, also with copies that  *)
(* come late, retransmissions and numbers beyond 255; it only takes a frame *)
(* that is the first and has the number 255 for a duplicate.                *)
THEOREM EachFrameReportedOnce == Spec => []ReportedOnce
<1>1. IInv /\ HeardIsTold => ReportedOnce
  <2> SUFFICES ASSUME IInv, HeardIsTold, NEW d \in Devices
               PROVE  /\ \A i, j \in DOMAIN reported[d] :
                           i < j => reported[d][i] < reported[d][j]
                      /\ heard[d] # {} =>
                           \/ Contains(reported[d], sent[d] - 1)
                           \/ Contains(netRx, [dev |-> d, num |-> sent[d] - 1])
                           \/ sent[d] - 1 = Unheard /\ reported[d] = <<>>
    BY DEF ReportedOnce
  <2> USE DEF IInv, TypeOK
  <2>1. reported[d] \in Seq(Nat) /\ DOMAIN reported[d] = 1..Len(reported[d])
    OBVIOUS
  <2>2. \A i, j \in DOMAIN reported[d] : i < j => reported[d][i] < reported[d][j]
    BY <2>1 DEF ReportedInv, ReportedInOrder
  <2>3. ASSUME heard[d] # {}
        PROVE  \/ Contains(reported[d], sent[d] - 1)
               \/ Contains(netRx, [dev |-> d, num |-> sent[d] - 1])
               \/ sent[d] - 1 = Unheard /\ reported[d] = <<>>
    <3>1. Told(d, sent[d] - 1) \/ (sent[d] - 1 = Unheard /\ reported[d] = <<>>)
      BY <2>3 DEF HeardIsTold
    <3>2. CASE \E i \in 1..Len(reported[d]) : reported[d][i] = sent[d] - 1
      BY <3>2 DEF Contains
    <3>3. CASE \E i \in 1..Len(netRx) :
                 netRx[i].dev = d /\ netRx[i].num = sent[d] - 1
      <4>1. PICK i \in 1..Len(netRx) : netRx[i].dev = d /\ netRx[i].num = sent[d] - 1
        BY <3>3
      <4>2. netRx[i] \in Report
        OBVIOUS
      <4>3. netRx[i] = [dev |-> d, num |-> sent[d] - 1]
        BY <4>1, <4>2 DEF Report
      <4> QED BY <4>3 DEF Contains
    <3> QED BY <3>1, <3>2, <3>3 DEF Told
  <2> QED BY <2>2, <2>3
<1> QED BY <1>1, Invariance, EveryFrameTold, PTL

-----------------------------------------------------------------------------
(* A window has one downlink at most: SendAck passes it to a gateway whose  *)
(* copy of the last transmission came in time and that heard it no worse    *)
(* than the others, and an ack in it is for that transmission.              *)
THEOREM BestGatewayAnswers == Spec => AnswersBestGateway
<1> DEFINE Best(d) ==
      Len(downlinks'[d]) > Len(downlinks[d]) =>
        LET down == Last(downlinks'[d]) IN
        /\ \E h \in heard[d] :
             h.gw = down.gw /\ \A other \in heard[d] : other.rssi <= h.rssi
        /\ down.msg.ack \in {NoAck, Counter(sent[d] - 1)}
<1>1. ASSUME IInv, Next, NEW d \in Devices PROVE Best(d)
  <2> USE <1>1 DEF IInv, TypeOK
  <2>1. Len(downlinks[d]) \in Nat
    OBVIOUS
  <2>2. ASSUME NEW e \in Devices, downlinks' = [downlinks EXCEPT ![e] = <<>>]
        PROVE  Best(d)
    BY <2>1, <2>2
  <2>3. ASSUME downlinks' = downlinks PROVE Best(d)
    BY <2>1, <2>3
  <2>4. ASSUME NEW e \in Devices, SendAck(e) PROVE Best(d)
    <3>1. stats[e] # NoStats
      BY <2>4 DEF SendAck, WindowInv, WindowsClose
    <3>2. CASE packetToTransmit[e] = NoMessage
      BY <2>3, <2>4, <3>2 DEF SendAck, Downlink
    <3>3. CASE packetToTransmit[e] # NoMessage
      <4> DEFINE s == [gw |-> stats[e].strongestGateway, msg |-> packetToTransmit[e]]
      <4>1. s.gw = stats[e].strongestGateway /\ s.msg = packetToTransmit[e]
        OBVIOUS
      <4>2. s \in Sending
        BY <3>1, <3>3 DEF Stats, Sending
      <4>3. downlinks' = [downlinks EXCEPT ![e] = Append(@, s)]
        BY <2>4, <3>1, <3>3 DEF SendAck, Downlink
      <4> HIDE DEF s
      <4>4. CASE d # e
        BY <2>1, <4>3, <4>4
      <4>5. CASE d = e
        <5>1. downlinks'[d] = Append(downlinks[d], s)
          BY <4>3, <4>5
        <5>2. Last(downlinks'[d]) = s
          BY <4>2, <5>1 DEF Last
        <5>3. /\ \E h \in heard[d] :
                   h.gw = stats[d].strongestGateway /\ h.rssi = stats[d].maxRssi
              /\ \A h \in heard[d] : h.rssi <= stats[d].maxRssi
          BY <3>1, <4>5 DEF BestInv
        <5>4. packetToTransmit[d].ack \in {NoAck, Counter(sent[d] - 1)}
          BY <3>3, <4>5 DEF AckInv
        <5> QED BY <4>1, <4>5, <5>2, <5>3, <5>4
      <4> QED BY <4>4, <4>5
    <3> QED BY <3>2, <3>3
  <2>5. ASSUME NEW e \in Devices, NewFrame(e) PROVE Best(d)
    <3>1. downlinks' = [downlinks EXCEPT ![e] = <<>>]
      BY <2>5 DEF NewFrame, Transmit
    <3> QED BY <2>2, <3>1
  <2>6. ASSUME NEW e \in Devices, Retransmission(e) PROVE Best(d)
    <3>1. downlinks' = [downlinks EXCEPT ![e] = <<>>]
      BY <2>6 DEF Retransmission, Transmit
    <3> QED BY <2>2, <3>1
  <2>7. CASE \E e \in Devices :
               WhiteListDevice(e) \/ Answer(e) \/ UnpromptedSend(e)
    BY <2>3, <2>7 DEF WhiteListDevice, Answer, UnpromptedSend
  <2>8. CASE (\E c \in copies : MessageReceived(c)) \/ NetRx
    BY <2>3, <2>8 DEF MessageReceived, NetRx
  <2> HIDE DEF Best
  <2> QED BY <1>1, <2>4, <2>5, <2>6, <2>7, <2>8 DEF Next
<1>2. IInv /\ [Next]_vars => [\A d \in Devices : Best(d)]_vars
  BY <1>1
<1> QED BY <1>2, Invariance, PTL DEF Spec, AnswersBestGateway

-----------------------------------------------------------------------------
(* The applications of the library send a header with commands and no data. *)
CommandsOnly == \A m \in Messages : ~m.data

(* Of messages without data none is dropped: commands are merged. *)
LEMMA MergedContents ==
  ASSUME CommandsOnly, NEW kept \in Message \cup {NoMessage}, NEW m \in Messages
  PROVE  Contents(kept) \cup Contents(m) \subseteq Contents(Merged(kept, m))
<1>1. m \in Message /\ m # NoMessage /\ ~m.data
  BY NetworkValues DEF CommandsOnly
<1>2. CASE kept = NoMessage
  BY <1>1, <1>2 DEF Merged, Contents
<1>3. CASE kept # NoMessage
  <2> DEFINE r == Merged(kept, m)
  <2>1. kept \in Message /\ r \in Message /\ r # NoMessage
    BY <1>3, MergedMessage, NetworkValues
  <2>2. r = [kept EXCEPT !.command = @ \/ m.command]
    BY <1>1, <1>3 DEF Merged
  <2>3. /\ r.data = kept.data
        /\ r.command = (kept.command \/ m.command)
    BY <2>1, <2>2 DEF Message
  <2> HIDE DEF r
  <2>4. ASSUME NEW k \in Message, k # NoMessage
        PROVE  /\ "command" \in Contents(k) <=> k.command
               /\ "data" \in Contents(k) <=> k.data
               /\ Contents(k) \subseteq {"command", "data"}
    BY <2>4 DEF Contents
  <2> QED BY <1>1, <1>3, <2>1, <2>3, <2>4 DEF r
<1> QED BY <1>2, <1>3

(* No step loses what is owed. *)
LEMMA OwedStep ==
  ASSUME CommandsOnly, IInv, OwedInv, Next
  PROVE  OwedInv'
<1> USE DEF IInv, TypeOK
<1>1. ASSUME NEW d \in Devices, Answer(d) PROVE OwedInv'
  <2>1. stats[d] # NoStats
    BY <1>1 DEF Answer, WindowInv
  <2>2. stats' = stats
    BY <1>1, <2>1 DEF Answer
  <2>3. CASE UNCHANGED <<packetToTransmit, owed>>
    BY <2>2, <2>3 DEF OwedInv, NothingOwedIsLost
  <2>4. ASSUME NEW m \in Messages,
               Send(d, m), owed' = [owed EXCEPT ![d] = @ \cup Contents(m)]
        PROVE  OwedInv'
    <3>1. packetToTransmit' =
            [packetToTransmit EXCEPT ![d] = Merged(packetToTransmit[d], m)]
      BY <2>4 DEF Send
    <3>2. Contents(packetToTransmit[d]) \cup Contents(m)
            \subseteq Contents(Merged(packetToTransmit[d], m))
      BY MergedContents
    <3> QED BY <2>1, <2>2, <2>4, <3>1, <3>2 DEF OwedInv, NothingOwedIsLost
  <2> QED BY <1>1, <2>3, <2>4 DEF Answer
<1>2. ASSUME NEW d \in Devices, UnpromptedSend(d) PROVE OwedInv'
  <2>1. PICK m \in Messages :
          packetToTransmit' =
            [packetToTransmit EXCEPT ![d] = Merged(packetToTransmit[d], m)]
    BY <1>2 DEF UnpromptedSend, Send
  <2>2. Contents(packetToTransmit[d]) \subseteq Contents(Merged(packetToTransmit[d], m))
    BY MergedContents
  <2>3. UNCHANGED <<stats, owed>>
    BY <1>2 DEF UnpromptedSend
  <2> QED BY <2>1, <2>2, <2>3 DEF OwedInv, NothingOwedIsLost
<1>3. ASSUME NEW d \in Devices, SendAck(d) PROVE OwedInv'
  <2>1. Contents(NoMessage) = {}
    BY DEF Contents
  <2>2. owed' = [owed EXCEPT ![d] = {}]
    <3>1. CASE packetToTransmit[d] = NoMessage
      BY <1>3, <2>1, <3>1 DEF SendAck, Downlink, OwedInv, NothingOwedIsLost
    <3>2. CASE packetToTransmit[d] # NoMessage
      <4>1. owed[d] \ Contents(packetToTransmit[d]) = {}
        BY DEF OwedInv, NothingOwedIsLost
      <4>2. owed' = [owed EXCEPT ![d] = owed[d] \ Contents(packetToTransmit[d])]
        BY <1>3, <3>2 DEF SendAck, Downlink
      <4> QED BY <4>1, <4>2
    <3> QED BY <3>1, <3>2
  <2>3. /\ stats' = [stats EXCEPT ![d] = NoStats]
        /\ \A e \in Devices \ {d} : packetToTransmit'[e] = packetToTransmit[e]
    BY <1>3 DEF SendAck, Downlink
  <2> QED BY <2>2, <2>3 DEF OwedInv, NothingOwedIsLost
<1>4. ASSUME NEW c \in copies, MessageReceived(c) PROVE OwedInv'
  <2>1. c.dev \in Devices /\ owed' = owed
    BY <1>4 DEF MessageReceived, Copy
  <2>2. CASE AnotherCopy(c)
    <3>1. /\ stats[c.dev] # NoStats
          /\ packetToTransmit' = packetToTransmit
          /\ \A e \in Devices \ {c.dev} : stats'[e] = stats[e]
      BY <2>1, <2>2 DEF AnotherCopy
    <3>2. \A e \in Devices : stats'[e] = NoStats => e = c.dev \/ stats[e] = NoStats
      BY <3>1
    <3>3. WindowInv'
      BY <1>4, MessageReceivedStep
    <3>4. sendAck' = sendAck
      BY <2>2 DEF AnotherCopy
    <3>5. stats'[c.dev] # NoStats
      BY <2>1, <3>1, <3>3, <3>4 DEF WindowInv, WindowsClose
    <3> QED BY <2>1, <3>1, <3>2, <3>5 DEF OwedInv, NothingOwedIsLost
  <2>3. CASE FirstCopy(c)
    <3>1. stats[c.dev] = NoStats /\ owed[c.dev] = {}
      BY <2>1, <2>3 DEF FirstCopy, OwedInv
    <3>2. /\ \A e \in Devices \ {c.dev} : packetToTransmit'[e] = packetToTransmit[e]
          /\ \A e \in Devices \ {c.dev} : stats'[e] = stats[e]
      BY <2>1, <2>3 DEF FirstCopy
    <3> QED BY <2>1, <3>1, <3>2 DEF OwedInv, NothingOwedIsLost
  <2>4. CASE UNCHANGED <<stats, packetToTransmit>>
    BY <2>1, <2>4 DEF OwedInv, NothingOwedIsLost
  <2> QED BY <1>4, <2>2, <2>3, <2>4 DEF MessageReceived
<1>5. CASE UNCHANGED <<stats, packetToTransmit, owed>>
  BY <1>5 DEF OwedInv, NothingOwedIsLost
<1>6. CASE NetRx \/ \E d \in Devices :
                     NewFrame(d) \/ Retransmission(d) \/ WhiteListDevice(d)
  BY <1>5, <1>6
  DEF NetRx, NewFrame, Retransmission, WhiteListDevice, Transmit, networkVars
<1> QED BY <1>1, <1>2, <1>3, <1>4, <1>6 DEF Next

(* What an application answers to a frame waits in m_packetToTransmit until *)
(* a gateway gets it, whatever else is sent to the device meanwhile. It is  *)
(* so as long as applications send no data, which Send takes only if        *)
(* nothing else is stored.                                                  *)
THEOREM AnswersAreKept ==
  ASSUME CommandsOnly
  PROVE  Spec => []NothingOwedIsLost
<1>1. Init => OwedInv
  BY DEF Init, OwedInv, NothingOwedIsLost
<1>2. IInv /\ OwedInv /\ [Next]_vars => OwedInv'
  BY OwedStep DEF vars, networkVars, OwedInv, NothingOwedIsLost
<1>3. OwedInv => NothingOwedIsLost
  BY DEF OwedInv
<1> QED BY <1>1, <1>2, <1>3, Invariance, PTL DEF Spec

-----------------------------------------------------------------------------
(* The programs. *)

N == Cardinality(Devices)
G == Cardinality(Gateways)

Running == phase = "running"

(* The steps that begin a simulation, those that end one and the others. *)
SetUp == MainBody \/ MainBodyLoRaBattery \/ MainBodyRsExample
TearDown == EndIteration \/ EndIterationLoRaBattery \/ EndIterationRsExample
Meanwhile ==
  \/ \E d \in Devices :
       Sense(d) \/ DelayedSend(d) \/ DeviceTransmits(d) \/ NetworkAnswers(d)
  \/ \E c \in copies : NetworkReceives(c)
  \/ NetworkReports
  \/ ScheduleStoring
  \/ TimePasses

-----------------------------------------------------------------------------
(* Offsets *)

(* A set of natural numbers has a least one. *)
LEMMA LeastNumber ==
  ASSUME NEW S \in SUBSET Nat, S # {}
  PROVE  \E x \in S : \A y \in S : x <= y
<1> DEFINE Less == {p \in Nat \X Nat : p[1] < p[2]}
<1>1. PICK x \in S : \A y \in S : <<y, x>> \notin Less
  <2>1. IsWellFoundedOn(Less, Nat)
    BY NatLessThanWellFounded DEF OpToRel
  <2> HIDE DEF Less
  <2> QED BY <2>1, WFMin
<1>2. \A y \in S : ~(y < x)
  BY <1>1
<1> QED BY <1>2

(* GetClosestGateway finds a gateway, and none is nearer. *)
LEMMA ClosestIsNearest ==
  ASSUME NEW where \in Places
  PROVE  /\ GetClosestGateway(where) \in Gateways
         /\ \A h \in Gateways : where[GetClosestGateway(where)] <= where[h]
<1> DEFINE S == {g \in Gateways : \A h \in Gateways : where[g] <= where[h]}
           Distances == {where[g] : g \in Gateways}
<1>1. where \in [Gateways -> Nat] /\ Gateways # {} /\ Gateways \subseteq Nat
  <2>1. G \in 1..7 /\ Gateways = 1..G
    BY SimulationAssumption DEF G
  <2>2. 1 \in Gateways
    BY <2>1
  <2>3. Gateways \subseteq Nat
    BY <2>1
  <2>4. Places \subseteq [Gateways -> Nat]
    BY SimulationAssumption
  <2> QED BY <2>2, <2>3, <2>4
<1>2. S # {}
  <2>1. PICK m \in Distances : \A y \in Distances : m <= y
    <3>1. Distances \in SUBSET Nat /\ Distances # {}
      BY <1>1
    <3> HIDE DEF Distances
    <3> QED BY <3>1, LeastNumber
  <2>2. PICK g \in Gateways : m = where[g]
    OBVIOUS
  <2> QED BY <2>1, <2>2
<1>3. \E x \in S : \A y \in S : x <= y
  <2>1. S \in SUBSET Nat
    BY <1>1
  <2> HIDE DEF S
  <2> QED BY <1>2, <2>1, LeastNumber
<1>4. GetClosestGateway(where) = Min(S)
  BY DEF GetClosestGateway, GatewayNode
<1>5. Min(S) \in S
  <2> HIDE DEF S
  <2> QED BY <1>3 DEF Min
<1> QED BY <1>4, <1>5

(* Places are known, and with RS-LoRa the programs have given gateways and  *)
(* devices their offsets.                                                  *)
OffsetInv ==
  /\ program \in Programs
  /\ place \in [Devices -> Places]
  /\ Running /\ program.rslora =>
       /\ offset = [g \in Gateways |-> Offsets[g] - 1]
       /\ offset2 = [d \in Devices |-> Offsets[GetClosestGateway(place[d])] - 1]

(* A step within a simulation leaves alone what was set up. *)
LEMMA MeanwhileKeeps ==
  ASSUME Meanwhile
  PROVE  UNCHANGED <<setup, phase, iteration>>
BY DEF Meanwhile, Sense, DelayedSend, DeviceTransmits, NetworkAnswers,
       NetworkReceives, NetworkReports, ScheduleStoring, TimePasses, clock

(* Nor does one that ends it, but for the sinks. *)
LEMMA TearDownKeeps ==
  ASSUME TearDown
  PROVE  /\ UNCHANGED <<program, id, address, place, offset, offset2, deviceMap>>
         /\ phase = "running" /\ phase' = "main"
BY DEF TearDown, EndIteration, EndIterationLoRaBattery, EndIterationRsExample, Finish

(* The programs that use RS-LoRa give their gateways and devices offsets. *)
LEMMA SetUpOffsets ==
  ASSUME SetUp, program \in Programs
  PROVE  OffsetInv'
<1>1. place' \in [Devices -> Places] /\ program' = program
  BY DEF SetUp, MainBody, MainBodyLoRaBattery, MainBodyRsExample, Begin, Connect
<1>2. ASSUME program.rslora
      PROVE  offset' = SetOffset(InstallRsGateways) /\ SetOffset2
  BY <1>2
  DEF SetUp, MainBody, MainBodyLoRaBattery, MainBodyRsExample, LoRaBattery
<1> QED BY <1>1, <1>2 DEF OffsetInv, SetOffset, SetOffset2, InstallRsGateways

(* A device listens to the beacons of a gateway nearest to it.  mainBody of *)
(* lora.cc and rs-example.cc gives each gateway its offset and each device  *)
(* that of the gateway GetClosestGateway finds.                            *)
THEOREM DevicesListenToNearest == SpecSimulation => []ListensToNearest
<1>1. InitSimulation => OffsetInv
  BY DEF InitSimulation, OffsetInv, Running
<1>2. ASSUME OffsetInv, [NextSimulation]_simulationVars PROVE OffsetInv'
  <2>1. CASE Meanwhile
    BY <1>2, <2>1, MeanwhileKeeps DEF OffsetInv, Running, setup
  <2>2. CASE TearDown
    BY <1>2, <2>2, TearDownKeeps DEF OffsetInv, Running
  <2>3. CASE SetUp
    BY <1>2, <2>3, SetUpOffsets DEF OffsetInv
  <2>4. CASE UNCHANGED simulationVars
    BY <1>2, <2>4 DEF OffsetInv, Running, simulationVars, setup, clock
  <2> QED BY <1>2, <2>1, <2>2, <2>3, <2>4
          DEF NextSimulation, Meanwhile, TearDown, SetUp
<1>3. OffsetInv => ListensToNearest
  <2> SUFFICES ASSUME OffsetInv, Running, program.rslora, NEW d \in Devices
               PROVE  \E g \in Gateways :
                        /\ offset2[d] = offset[g]
                        /\ \A h \in Gateways : place[d][g] <= place[d][h]
    BY DEF ListensToNearest, Running
  <2>1. place[d] \in Places
    BY DEF OffsetInv
  <2> DEFINE g == GetClosestGateway(place[d])
  <2>2. g \in Gateways /\ \A h \in Gateways : place[d][g] <= place[d][h]
    BY <2>1, ClosestIsNearest
  <2>3. offset2[d] = Offsets[g] - 1
    BY DEF OffsetInv
  <2> HIDE DEF g
  <2>4. offset[g] = Offsets[g] - 1
    BY <2>2 DEF OffsetInv
  <2> QED BY <2>2, <2>3, <2>4
<1> QED BY <1>1, <1>2, <1>3, PTL DEF SpecSimulation

-----------------------------------------------------------------------------
(* Addresses *)

(* The addresses of ten simulations, and no program has more, each with one *)
(* for the gateways, are fewer than four bytes hold.                       *)
AddressesSuffice == 10 * (N + 1) < 2^32

(* Allocate has made as many addresses as the simulations needed. *)
LoopInv ==
  /\ phase \in {"main", "running"}
  /\ iteration \in 0..10 /\ (Running => iteration < 10)
  /\ id \in Nat
  /\ id <= (IF Running THEN iteration + 1 ELSE iteration) * (N + 1)

(* The devices of a simulation have the last of them. *)
AddressInv ==
  Running => N <= id /\ address = [d \in Devices |-> Allocate(id - N + d)]

(* Devices are numbers from one on. *)
LEMMA DeviceNumbers ==
  /\ N \in Nat /\ Devices = 1..N /\ IsFiniteSet(Devices)
<1>1. N \in Nat /\ Devices = 1..N
  BY SimulationAssumption DEF N
<1> QED BY <1>1, FS_Interval

(* Different numbers make different addresses. *)
LEMMA AllocateInjective ==
  ASSUME NEW n \in Nat, NEW m \in Nat, n < 2^32, m < 2^32,
         Allocate(n) = Allocate(m)
  PROVE  n = m
<1>1. /\ Bits(n, 24, 8) = Bits(m, 24, 8) /\ Bits(n, 16, 8) = Bits(m, 16, 8)
      /\ Bits(n, 8, 8) = Bits(m, 8, 8) /\ Bits(n, 0, 8) = Bits(m, 0, 8)
  BY DEF Allocate
<1> QED BY <1>1, SMT DEF Bits

(* A product grows with its first factor. *)
LEMMA ProductBound ==
  ASSUME NEW i \in 0..10, NEW k \in Nat
  PROVE  /\ i * k \in Nat /\ i * k <= 10 * k
         /\ (i + 1) * k = i * k + k
OBVIOUS

(* The counter stays below what four bytes hold, *)
LEMMA FewAddresses ==
  ASSUME AddressesSuffice, NEW k \in 0..10, NEW i \in Nat, i <= k * (N + 1)
  PROVE  i < 2^32
<1>1. N + 1 \in Nat
  BY DeviceNumbers
<1>2. k * (N + 1) \in Nat /\ k * (N + 1) <= 10 * (N + 1)
  BY <1>1, ProductBound
<1> QED BY <1>1, <1>2, SMT DEF AddressesSuffice

(* No two devices of a simulation have the same address. *)
LEMMA AddressesDiffer ==
  ASSUME NEW i \in Nat, N <= i, i < 2^32,
         NEW d \in Devices, NEW e \in Devices,
         Allocate(i - N + d) = Allocate(i - N + e)
  PROVE  d = e
<1>1. N \in Nat /\ d \in 1..N /\ e \in 1..N
  BY DeviceNumbers
<1>2. /\ i - N + d \in Nat /\ i - N + d < 2^32
      /\ i - N + e \in Nat /\ i - N + e < 2^32
  BY <1>1, SMT
<1>3. i - N + d = i - N + e
  BY <1>2, AllocateInjective
<1> QED BY <1>1, <1>3

(* Nor has a device the address of one made before. *)
LEMMA AddressesNew ==
  ASSUME NEW i \in Nat, NEW j \in Nat, i + N <= j, j < 2^32,
         NEW n \in 1..i, NEW d \in Devices
  PROVE  Allocate(n) # Allocate(j - N + d)
<1>1. N \in Nat /\ d \in 1..N
  BY DeviceNumbers
<1>2. /\ n \in Nat /\ n < 2^32
      /\ j - N + d \in Nat /\ j - N + d < 2^32 /\ n # j - N + d
  BY <1>1, SMT
<1> QED BY <1>2, AllocateInjective

(* So Allocate does not wrap, *)
LEMMA IdBound ==
  ASSUME AddressesSuffice, LoopInv
  PROVE  id < 2^32
<1> DEFINE i == IF Running THEN iteration + 1 ELSE iteration
<1>1. i \in 0..10 /\ id <= i * (N + 1)
  BY DEF LoopInv
<1> HIDE DEF i
<1> QED BY <1>1, FewAddresses DEF LoopInv

(* and the devices of a simulation have addresses of their own. *)
LEMMA AddressInjective ==
  ASSUME AddressesSuffice, LoopInv, AddressInv, Running,
         NEW d \in Devices, NEW e \in Devices, address[d] = address[e]
  PROVE  d = e
<1>1. id \in Nat /\ N <= id /\ id < 2^32
  BY IdBound DEF AddressInv, LoopInv
<1>2. Allocate(id - N + d) = Allocate(id - N + e)
  BY DEF AddressInv
<1> QED BY <1>1, <1>2, AddressesDiffer

(* The programs begin with new addresses, *)
LEMMA SetUpAddresses ==
  ASSUME SetUp, LoopInv
  PROVE  /\ phase = "main" /\ phase' = "running"
         /\ LoopInv' /\ AddressInv'
         /\ id + N <= id'
<1>1. /\ phase = "main" /\ phase' = "running" /\ iteration' = iteration
      /\ iteration < program.iterations /\ program.iterations \in {5, 10}
  BY DEF SetUp, MainBody, MainBodyLoRaBattery, MainBodyRsExample, Begin, Connect,
         LoRa, LoRaBattery, RsExample
<1>2. Install \/ InstallRs
  BY DEF SetUp, MainBody, MainBodyLoRaBattery, MainBodyRsExample
<1>3. N \in Nat /\ Devices = 1..N
  BY DeviceNumbers
<1>4. id' = id + 1 + N \/ id' = id + N
  BY <1>2 DEF Install, InstallRs, N
<1>5. LoopInv'
  <2>1. id <= iteration * (N + 1) /\ iteration \in 0..10 /\ iteration < 10
    BY <1>1 DEF LoopInv, Running
  <2>2. (iteration + 1) * (N + 1) = iteration * (N + 1) + (N + 1)
    BY <1>3, <2>1, ProductBound
  <2>3. iteration * (N + 1) \in Nat
    BY <1>3, <2>1, ProductBound
  <2>4. id \in Nat
    BY DEF LoopInv
  <2>5. id' \in Nat /\ id' <= (iteration + 1) * (N + 1)
    BY <1>3, <1>4, <2>1, <2>2, <2>3, <2>4
  <2> QED BY <1>1, <2>1, <2>5 DEF LoopInv, Running
<1>6. AddressInv' /\ id + N <= id'
  <2>1. id \in Nat
    BY DEF LoopInv
  <2>2. CASE Install
    <3>1. id' = id + 1 + N
      BY <2>2 DEF Install, N
    <3>2. \A d \in Devices : id + 1 + d = id' - N + d
      BY <1>3, <2>1, <3>1
    <3>3. address' = [d \in Devices |-> Allocate(id + 1 + d)]
      BY <2>2 DEF Install
    <3> QED BY <1>3, <2>1, <3>1, <3>2, <3>3 DEF AddressInv
  <2>3. CASE InstallRs
    <3>1. id' = id + N
      BY <2>3 DEF InstallRs, N
    <3>2. \A d \in Devices : id + d = id' - N + d
      BY <1>3, <2>1, <3>1
    <3>3. address' = [d \in Devices |-> Allocate(id + d)]
      BY <2>3 DEF InstallRs
    <3> QED BY <1>3, <2>1, <3>1, <3>2, <3>3 DEF AddressInv
  <2> QED BY <1>2, <2>2, <2>3
<1> QED BY <1>1, <1>5, <1>6

(* and end before the loop counter, of eight bits in lora.cc, wraps. *)
LEMMA TearDownLoop ==
  ASSUME TearDown, LoopInv
  PROVE  LoopInv' /\ AddressInv'
<1>1. /\ id' = id /\ phase = "running" /\ phase' = "main"
  BY TearDownKeeps
<1>2. iteration' \in {iteration + 1, (iteration + 1) % 256}
  BY DEF TearDown, EndIteration, EndIterationLoRaBattery, EndIterationRsExample
<1>3. iteration \in 0..9
  BY <1>1 DEF LoopInv, Running
<1>4. iteration' = iteration + 1
  BY <1>2, <1>3
<1> QED BY <1>1, <1>3, <1>4 DEF LoopInv, AddressInv, Running

-----------------------------------------------------------------------------
(* The output file *)

Counts == [transmitted : Nat, received : Nat, unique : Nat, closest : Nat]
NoCounts == [transmitted |-> 0, received |-> 0, unique |-> 0, closest |-> 0]
Entry == [simulation : Nat, dev : Devices]
Addresses == {Allocate(n) : n \in Nat}
Row == [addr : Addresses, device : Entry, time : Nat, transmitted : Nat]

ClockInv == now \in Nat /\ stored \in Nat /\ stored <= now /\ stored < Duration

(* While a simulation runs, the maps have an entry for each address, of the *)
(* device that has it; between simulations nothing is counted.             *)
MapInv ==
  /\ Running =>
       /\ errorMap \in [Range(address) -> Counts]
       /\ \A d \in Devices :
            deviceMap[address[d]] \in Entry /\ deviceMap[address[d]].dev = d
  /\ phase = "main" => errorMap \in [{} -> Counts]

(* Lines have addresses that have been allocated; those of the simulation   *)
(* that runs tell of its devices, and do not count more than the map does.  *)
RowsInv ==
  /\ rows \in Seq(Row)
  /\ \A i \in 1..Len(rows) : \E n \in 1..id : rows[i].addr = Allocate(n)
  /\ Running => \A i \in 1..Len(rows) :
       rows[i].addr \in Range(address) =>
         /\ rows[i].device = deviceMap[rows[i].addr]
         /\ rows[i].time <= stored
         /\ rows[i].transmitted <= errorMap[rows[i].addr].transmitted

LinesInv == LoopInv /\ AddressInv /\ ClockInv /\ MapInv /\ RowsInv /\ LinesOfOneDevice

(* SetToSeq lists each element of a finite set once. *)
LEMMA SetToSeqLists ==
  ASSUME NEW S, IsFiniteSet(S)
  PROVE  /\ SetToSeq(S) \in Seq(S)
         /\ \A i, j \in 1..Len(SetToSeq(S)) : SetToSeq(S)[i] = SetToSeq(S)[j] => i = j
<1> DEFINE n == Cardinality(S)
<1>1. n \in Nat /\ ExistsBijection(1..n, S)
  BY FS_CardinalityType
<1>2. \E f \in [1..n -> S] : IsInjective(f)
  BY <1>1 DEF ExistsBijection, Bijection, Injection
<1>3. SetToSeq(S) \in [1..n -> S] /\ IsInjective(SetToSeq(S))
  BY <1>2 DEF SetToSeq
<1> HIDE DEF n
<1>4. SetToSeq(S) \in Seq(S) /\ Len(SetToSeq(S)) = n
  BY <1>1, <1>3
<1> QED BY <1>3, <1>4 DEF IsInjective

(* There are finitely many addresses in a simulation. *)
LEMMA AddressesFinite ==
  ASSUME AddressInv, Running
  PROVE  IsFiniteSet(Range(address)) /\ Range(address) = {address[d] : d \in Devices}
<1>1. DOMAIN address = Devices
  BY DEF AddressInv
<1>2. Range(address) = {address[d] : d \in Devices}
  BY <1>1 DEF Range
<1>3. address \in Surjection(Devices, Range(address))
  BY <1>2 DEF Surjection, AddressInv
<1> QED BY <1>2, <1>3, DeviceNumbers, FS_Surjection

(* What the programs count is counted upwards. *)
LEMMA CountsGrow ==
  ASSUME NEW A, errorMap \in [A -> Counts],
         \/ UNCHANGED errorMap
         \/ \E a, field : Count(a, field) /\ field \in {"transmitted", "unique"}
         \/ \E c : CountReceived(c)
  PROVE  /\ errorMap' \in [A -> Counts]
         /\ \A a \in A : errorMap[a].transmitted <= errorMap'[a].transmitted
<1>1. CASE UNCHANGED errorMap
  BY <1>1 DEF Counts
<1>2. ASSUME NEW a, NEW r \in Counts,
             a \in A => errorMap[a].transmitted <= r.transmitted,
             errorMap' = [errorMap EXCEPT ![a] = r]
      PROVE  /\ errorMap' \in [A -> Counts]
             /\ \A x \in A : errorMap[x].transmitted <= errorMap'[x].transmitted
  <2>1. \A x \in A : errorMap[x].transmitted \in Nat
    BY DEF Counts
  <2>2. \A x \in A : errorMap'[x] = IF x = a THEN r ELSE errorMap[x]
    BY <1>2
  <2>3. errorMap' \in [A -> Counts]
    BY <1>2
  <2>4. \A x \in A : errorMap[x].transmitted <= errorMap'[x].transmitted
    BY <1>2, <2>1, <2>2
  <2> QED BY <2>3, <2>4
<1>3. ASSUME NEW a, a \notin A, \E r : errorMap' = [errorMap EXCEPT ![a] = r]
      PROVE  errorMap' = errorMap
  BY <1>3
<1>4. ASSUME NEW a, NEW field \in {"transmitted", "unique"}, Count(a, field)
      PROVE  /\ errorMap' \in [A -> Counts]
             /\ \A x \in A : errorMap[x].transmitted <= errorMap'[x].transmitted
  <2> DEFINE r == [errorMap[a] EXCEPT ![field] = errorMap[a][field] + 1]
  <2>1. errorMap' = [errorMap EXCEPT ![a] = r]
    BY <1>4 DEF Count
  <2>2. a \in A => r \in Counts /\ errorMap[a].transmitted <= r.transmitted
    BY DEF Counts
  <2> HIDE DEF r
  <2> QED BY <1>1, <1>2, <1>3, <2>1, <2>2
<1>5. ASSUME NEW c, CountReceived(c)
      PROVE  /\ errorMap' \in [A -> Counts]
             /\ \A x \in A : errorMap[x].transmitted <= errorMap'[x].transmitted
  <2> DEFINE near == GatewayNode(c.gw) =
                       GetClosestGateway(place[deviceMap[address[c.dev]].dev])
             one == IF near THEN 1 ELSE 0
             a == address[c.dev]
             r == [errorMap[a] EXCEPT !.received = errorMap[a].received + 1,
                                      !.closest = errorMap[a].closest + one]
  <2>1. one \in Nat
    OBVIOUS
  <2>2. errorMap' = [errorMap EXCEPT ![a].received = @ + 1, ![a].closest = @ + one]
    BY <1>5 DEF CountReceived
  <2> HIDE DEF one, a
  <2>3. errorMap' = [errorMap EXCEPT ![a] = r]
    BY <2>2
  <2>4. ASSUME a \in A PROVE r \in Counts /\ errorMap[a].transmitted <= r.transmitted
    <3>1. errorMap[a] \in Counts
      BY <2>4
    <3>2. /\ errorMap[a].received + 1 \in Nat /\ errorMap[a].closest + one \in Nat
          /\ errorMap[a].transmitted \in Nat
      BY <2>1, <3>1 DEF Counts
    <3>3. r \in Counts
      BY <3>1, <3>2 DEF Counts
    <3>4. r.transmitted = errorMap[a].transmitted
      BY <3>1 DEF Counts
    <3> QED BY <3>2, <3>3, <3>4
  <2> HIDE DEF r
  <2> QED BY <1>1, <1>2, <1>3, <2>3, <2>4
<1> QED BY <1>1, <1>4, <1>5

(* StoreData writes a line for each address of the simulation, that tells   *)
(* of its device.                                                          *)
LEMMA StoreDataRows ==
  ASSUME LoopInv, AddressInv, MapInv, ClockInv, rows \in Seq(Row), Running, StoreData
  PROVE  /\ rows' \in Seq(Row) /\ Len(rows) <= Len(rows')
         /\ \A i \in 1..Len(rows) : rows'[i] = rows[i]
         /\ \A i \in 1..Len(rows') \ 1..Len(rows) :
              /\ rows'[i].addr \in Range(address)
              /\ rows'[i].device = deviceMap[rows'[i].addr]
              /\ rows'[i].time = now
              /\ rows'[i].transmitted = errorMap[rows'[i].addr].transmitted
         /\ \A i, j \in 1..Len(rows') \ 1..Len(rows) :
              rows'[i].addr = rows'[j].addr => i = j
<1> DEFINE L(a) == [addr |-> a, device |-> deviceMap[a], time |-> now,
                    transmitted |-> errorMap[a].transmitted]
           S == {L(a) : a \in Range(address)}
           T == SetToSeq(S)
<1>1. /\ IsFiniteSet(Range(address))
      /\ Range(address) = {address[d] : d \in Devices}
      /\ errorMap \in [Range(address) -> Counts]
  BY AddressesFinite DEF MapInv
<1>2. rows' = rows \o T
  BY <1>1 DEF StoreData
<1>3. ASSUME NEW a \in Range(address)
      PROVE  /\ L(a) \in Row
             /\ L(a).addr = a /\ L(a).device = deviceMap[a] /\ L(a).time = now
             /\ L(a).transmitted = errorMap[a].transmitted
  <2>1. PICK d \in Devices : a = address[d]
    BY <1>1
  <2>2. deviceMap[a] \in Entry
    BY <2>1 DEF MapInv
  <2>3. a \in Addresses
    <3>1. id - N + d \in Nat
      BY DeviceNumbers DEF LoopInv, AddressInv
    <3>2. a = Allocate(id - N + d)
      BY <2>1 DEF AddressInv
    <3> QED BY <3>1, <3>2 DEF Addresses
  <2>4. errorMap[a].transmitted \in Nat
    BY <1>1 DEF Counts
  <2> QED BY <2>2, <2>3, <2>4 DEF Row, ClockInv
<1>4. IsFiniteSet(S)
  <2> DEFINE f == [a \in Range(address) |-> L(a)]
  <2>1. f \in Surjection(Range(address), S)
    BY DEF Surjection
  <2> HIDE DEF f, S
  <2> QED BY <1>1, <2>1, FS_Surjection
<1>5. S \subseteq Row
  BY <1>3
<1>6. \A l \in S : /\ l.addr \in Range(address) /\ l.device = deviceMap[l.addr]
                   /\ l.time = now /\ l.transmitted = errorMap[l.addr].transmitted
  BY <1>3
<1>7. \A k, l \in S : k.addr = l.addr => k = l
  BY <1>3
<1>8. T \in Seq(S) /\ \A i, j \in 1..Len(T) : T[i] = T[j] => i = j
  <2> HIDE DEF S
  <2> QED BY <1>4, SetToSeqLists
<1> HIDE DEF S, T
<1>9. \A i \in 1..Len(T) : T[i] \in S
  BY <1>8
<1>10. /\ Len(rows') = Len(rows) + Len(T) /\ Len(T) \in Nat /\ Len(rows) \in Nat
       /\ \A i \in 1..Len(rows) : rows'[i] = rows[i]
       /\ \A i \in 1..Len(rows') \ 1..Len(rows) :
            i - Len(rows) \in 1..Len(T) /\ rows'[i] = T[i - Len(rows)]
  BY <1>2, <1>8
<1>11. rows' \in Seq(Row)
  <2>1. T \in Seq(Row)
    BY <1>5, <1>8
  <2> QED BY <1>2, <2>1
<1>12. ASSUME NEW i \in 1..Len(rows') \ 1..Len(rows)
       PROVE  rows'[i] \in S /\ i - Len(rows) \in 1..Len(T) /\ i \in Int
  BY <1>9, <1>10
<1>13. ASSUME NEW i \in 1..Len(rows') \ 1..Len(rows),
              NEW j \in 1..Len(rows') \ 1..Len(rows),
              rows'[i].addr = rows'[j].addr
       PROVE  i = j
  <2>1. T[i - Len(rows)] = T[j - Len(rows)]
    BY <1>7, <1>10, <1>12, <1>13
  <2>2. i - Len(rows) = j - Len(rows)
    BY <1>8, <1>12, <2>1
  <2> QED BY <1>10, <1>12, <2>2
<1> QED BY <1>6, <1>10, <1>11, <1>12, <1>13

(* The programs put the new devices into the maps, and no line in the file  *)
(* is of an address of theirs.                                             *)
LEMMA SetUpLines ==
  ASSUME AddressesSuffice, LinesInv, SetUp
  PROVE  LinesInv'
<1> USE DEF LinesInv
<1>1. /\ phase = "main" /\ phase' = "running"
      /\ LoopInv' /\ AddressInv' /\ id + N <= id'
  BY SetUpAddresses
<1>2. HookUp /\ UNCHANGED <<iteration, now, stored, rows>>
  BY DEF SetUp, MainBody, MainBodyLoRaBattery, MainBodyRsExample, Connect
<1>3. /\ id' \in Nat /\ id \in Nat /\ N \in Nat /\ N <= id' /\ id' < 2^32
      /\ id + N <= id'
      /\ address' = [d \in Devices |-> Allocate(id' - N + d)]
  <2>1. id' \in Nat /\ id' <= (iteration + 1) * (N + 1) /\ iteration + 1 \in 0..10
    BY <1>1, <1>2 DEF LoopInv, Running
  <2>2. id' < 2^32
    BY <2>1, FewAddresses
  <2> QED BY <1>1, <2>1, <2>2, DeviceNumbers DEF LoopInv, AddressInv, Running
<1>4. \A d, e \in Devices : address'[d] = address'[e] => d = e
  BY <1>3, AddressesDiffer
<1>5. Range(address') = {address'[d] : d \in Devices}
  BY <1>3 DEF Range
<1>6. MapInv'
  <2> DEFINE A == Range(address')
             devices == [a \in A |-> [simulation |-> iteration,
                                      dev |-> CHOOSE d \in Devices : address'[d] = a]]
             counts == [a \in A |-> NoCounts]
  <2>1. DOMAIN errorMap = {}
    BY <1>1 DEF MapInv
  <2>2. deviceMap' = Stored(devices, deviceMap) /\ errorMap' = Stored(counts, errorMap)
    BY <1>2 DEF HookUp, NoCounts
  <2>3. errorMap' \in [A -> Counts]
    BY <2>1, <2>2 DEF Stored, NoCounts, Counts
  <2>4. ASSUME NEW d \in Devices
        PROVE  deviceMap'[address'[d]] \in Entry /\ deviceMap'[address'[d]].dev = d
    <3>1. address'[d] \in A
      BY <1>5
    <3>2. (CHOOSE e \in Devices : address'[e] = address'[d]) = d
      BY <1>4
    <3>3. iteration \in Nat
      BY DEF LoopInv
    <3>4. deviceMap'[address'[d]] = devices[address'[d]]
      BY <2>2, <3>1 DEF Stored
    <3>5. devices[address'[d]] = [simulation |-> iteration, dev |-> d]
      BY <3>1, <3>2
    <3> QED BY <3>3, <3>4, <3>5 DEF Entry
  <2> QED BY <1>1, <2>3, <2>4 DEF MapInv
<1>7. RowsInv'
  <2>1. \A i \in 1..Len(rows) : \E n \in 1..id : rows[i].addr = Allocate(n)
    BY DEF RowsInv
  <2>2. \A n \in 1..id : n \in 1..id'
    BY <1>3
  <2>3. ASSUME NEW i \in 1..Len(rows), rows[i].addr \in Range(address')
        PROVE  FALSE
    <3>1. PICK n \in 1..id : rows[i].addr = Allocate(n)
      BY <2>1
    <3>2. PICK d \in Devices : rows[i].addr = address'[d]
      BY <1>5, <2>3
    <3>3. Allocate(n) = Allocate(id' - N + d)
      BY <1>3, <3>1, <3>2
    <3> QED BY <1>3, <3>3, AddressesNew
  <2> QED BY <1>2, <2>1, <2>2, <2>3 DEF RowsInv
<1>8. ClockInv' /\ LinesOfOneDevice'
  BY <1>2 DEF ClockInv, LinesOfOneDevice
<1> QED BY <1>1, <1>6, <1>7, <1>8

(* StoreData adds later lines on no fewer transmissions. *)
LEMMA StoreDataLines ==
  ASSUME LinesInv, Running, StoreData, stored < now
  PROVE  /\ rows' \in Seq(Row) /\ LinesOfOneDevice'
         /\ \A i \in 1..Len(rows') : \E n \in 1..id : rows'[i].addr = Allocate(n)
         /\ \A i \in 1..Len(rows') :
              rows'[i].addr \in Range(address) =>
                /\ rows'[i].device = deviceMap[rows'[i].addr]
                /\ rows'[i].time <= now
                /\ rows'[i].transmitted <= errorMap[rows'[i].addr].transmitted
<1> USE DEF LinesInv
<1> DEFINE old == 1..Len(rows)
           new == 1..Len(rows') \ 1..Len(rows)
<1>1. /\ rows \in Seq(Row) /\ rows' \in Seq(Row) /\ Len(rows) <= Len(rows')
      /\ Len(rows) \in Nat /\ Len(rows') \in Nat
      /\ \A i \in old : rows'[i] = rows[i]
      /\ \A i \in new :
           /\ rows'[i].addr \in Range(address)
           /\ rows'[i].device = deviceMap[rows'[i].addr]
           /\ rows'[i].time = now
           /\ rows'[i].transmitted = errorMap[rows'[i].addr].transmitted
      /\ \A i, j \in new : rows'[i].addr = rows'[j].addr => i = j
  BY StoreDataRows DEF RowsInv
<1>2. /\ now \in Nat /\ stored \in Nat
      /\ \A a \in Range(address) : errorMap[a].transmitted \in Nat
  BY DEF ClockInv, MapInv, Counts
<1>3. \A i \in old : rows[i].time \in Nat /\ rows[i].transmitted \in Nat
  <2>1. \A i \in old : rows[i] \in Row
    BY <1>1
  <2> QED BY <2>1 DEF Row
<1>4. \A i \in old :
        rows[i].addr \in Range(address) =>
          /\ rows[i].device = deviceMap[rows[i].addr]
          /\ rows[i].time <= stored
          /\ rows[i].transmitted <= errorMap[rows[i].addr].transmitted
  BY DEF RowsInv
<1>5. \A i \in 1..Len(rows') : i \in old \/ i \in new
  OBVIOUS
<1>6. \A i \in 1..Len(rows') :
        rows'[i].addr \in Range(address) =>
          /\ rows'[i].device = deviceMap[rows'[i].addr]
          /\ rows'[i].time <= now
          /\ rows'[i].transmitted <= errorMap[rows'[i].addr].transmitted
  BY <1>1, <1>2, <1>3, <1>4, <1>5
<1>7. ASSUME NEW i \in 1..Len(rows') PROVE \E n \in 1..id : rows'[i].addr = Allocate(n)
  <2>1. CASE i \in old
    BY <1>1, <2>1 DEF RowsInv
  <2>2. CASE i \in new
    <3>1. rows'[i].addr \in Range(address)
      BY <1>1, <2>2
    <3>2. PICK d \in Devices : rows'[i].addr = address[d]
      BY <3>1, AddressesFinite
    <3>3. rows'[i].addr = Allocate(id - N + d)
      BY <3>2 DEF AddressInv
    <3>4. id - N + d \in 1..id
      BY DeviceNumbers DEF AddressInv, LoopInv
    <3> QED BY <3>3, <3>4
  <2> QED BY <1>5, <2>1, <2>2
<1>8. ASSUME NEW i \in 1..Len(rows'), NEW j \in 1..Len(rows'),
             i < j, rows'[i].addr = rows'[j].addr
      PROVE  /\ rows'[i].device = rows'[j].device
             /\ rows'[i].time < rows'[j].time
             /\ rows'[i].transmitted <= rows'[j].transmitted
  <2>1. CASE j \in old
    <3>1. i \in old
      BY <1>1, <1>8, <2>1
    <3>2. DOMAIN rows = old
      BY <1>1
    <3> QED BY <1>1, <1>8, <2>1, <3>1, <3>2 DEF LinesOfOneDevice
  <2>2. CASE i \in old /\ j \in new
    BY <1>1, <1>2, <1>3, <1>4, <1>8, <2>2
  <2>3. CASE i \in new
    <3>1. j \in new
      BY <1>1, <1>8, <2>3
    <3> QED BY <1>1, <1>8, <2>3, <3>1
  <2> QED BY <1>5, <2>1, <2>2, <2>3
<1>9. DOMAIN rows' = 1..Len(rows')
  BY <1>1
<1> QED BY <1>1, <1>6, <1>7, <1>8, <1>9 DEF LinesOfOneDevice

(* The file of a simulation that has ended is complete. *)
LEMMA TearDownLines ==
  ASSUME LinesInv, TearDown
  PROVE  LinesInv'
<1> USE DEF LinesInv
<1>1. /\ StoreData /\ errorMap' = <<>> /\ now = Duration /\ now' = 0 /\ stored' = 0
  BY DEF TearDown, EndIteration, EndIterationLoRaBattery, EndIterationRsExample,
         Finish, Cleared, Destroy
<1>2. /\ id' = id /\ phase = "running" /\ phase' = "main"
  BY TearDownKeeps
<1>3. stored < now
  BY <1>1 DEF ClockInv
<1>4. LoopInv' /\ AddressInv'
  BY TearDownLoop
<1>5. ClockInv'
  BY <1>1, SimulationAssumption DEF ClockInv
<1>6. MapInv' /\ RowsInv' /\ LinesOfOneDevice'
  BY <1>1, <1>2, <1>3, StoreDataLines DEF MapInv, RowsInv, Running
<1> QED BY <1>4, <1>5, <1>6

(* Within a simulation either nothing is written, or a report. *)
LEMMA MeanwhileLines ==
  ASSUME LinesInv, Meanwhile
  PROVE  LinesInv'
<1> USE DEF LinesInv
<1>1. UNCHANGED <<setup, phase, iteration>>
  BY MeanwhileKeeps
<1>2. LoopInv' /\ AddressInv'
  BY <1>1 DEF LoopInv, AddressInv, Running, setup
<1>3. CASE ScheduleStoring
  <2>1. /\ Running /\ StoreData /\ stored' = now /\ stored < now /\ now < Duration
        /\ UNCHANGED <<now, errorMap>>
    BY <1>3 DEF ScheduleStoring, ReportDue, Running
  <2>2. ClockInv' /\ MapInv'
    BY <1>1, <2>1 DEF ClockInv, MapInv, Running, setup
  <2>3. RowsInv' /\ LinesOfOneDevice'
    BY <1>1, <2>1, StoreDataLines DEF RowsInv, Running, setup
  <2> QED BY <1>2, <2>2, <2>3
<1>4. CASE ~ScheduleStoring
  <2>1. UNCHANGED <<stored, rows>> /\ now' \in {now, now + 1}
    BY <1>4 DEF Meanwhile, Sense, DelayedSend, DeviceTransmits, NetworkAnswers,
                NetworkReceives, NetworkReports, TimePasses, clock
  <2>2. \/ UNCHANGED errorMap
        \/ \E a, field : Count(a, field) /\ field \in {"transmitted", "unique"}
        \/ \E c : CountReceived(c)
    BY <1>4 DEF Meanwhile, Sense, DelayedSend, DeviceTransmits, NetworkAnswers,
                NetworkReceives, NetworkReports, TimePasses, Transmitted, Received,
                ReceivedUnique, CountTransmitted, CountUnique
  <2>3. ClockInv' /\ LinesOfOneDevice'
    BY <2>1 DEF ClockInv, LinesOfOneDevice
  <2>4. CASE Running
    <3>1. errorMap \in [Range(address) -> Counts]
      BY <2>4 DEF MapInv
    <3>2. /\ errorMap' \in [Range(address) -> Counts]
          /\ \A a \in Range(address) :
               errorMap[a].transmitted <= errorMap'[a].transmitted
      BY <2>2, <3>1, CountsGrow
    <3>3. MapInv'
      BY <1>1, <2>4, <3>2 DEF MapInv, Running, setup
    <3>4. \A a \in Range(address) :
            errorMap[a].transmitted \in Nat /\ errorMap'[a].transmitted \in Nat
      BY <3>1, <3>2 DEF Counts
    <3>5. \A i \in 1..Len(rows) : rows[i].transmitted \in Nat
      <4>1. \A i \in 1..Len(rows) : rows[i] \in Row
        BY DEF RowsInv
      <4> QED BY <4>1 DEF Row
    <3>6. RowsInv'
      <4>1. UNCHANGED <<id, address, deviceMap, phase, rows, stored>>
        BY <1>1, <2>1 DEF setup
      <4>2. ASSUME NEW i \in 1..Len(rows), rows[i].addr \in Range(address)
            PROVE  /\ rows[i].device = deviceMap[rows[i].addr]
                   /\ rows[i].time <= stored
                   /\ rows[i].transmitted <= errorMap'[rows[i].addr].transmitted
        <5>1. /\ rows[i].device = deviceMap[rows[i].addr]
              /\ rows[i].time <= stored
              /\ rows[i].transmitted <= errorMap[rows[i].addr].transmitted
          BY <2>4, <4>2 DEF RowsInv
        <5> DEFINE a == rows[i].addr
        <5>2. /\ errorMap[a].transmitted <= errorMap'[a].transmitted
              /\ errorMap[a].transmitted \in Nat /\ errorMap'[a].transmitted \in Nat
              /\ rows[i].transmitted \in Nat
          BY <3>2, <3>4, <3>5, <4>2
        <5> QED BY <5>1, <5>2
      <4> QED BY <4>1, <4>2 DEF RowsInv, Running
    <3> QED BY <1>2, <2>3, <3>3, <3>6
  <2>5. CASE ~Running
    <3>1. RowsInv'
      BY <1>1, <2>1, <2>5 DEF RowsInv, Running, setup
    <3>2. phase = "main" /\ phase' = "main"
      BY <1>1, <2>5 DEF LoopInv, Running
    <3>3. errorMap' \in [{} -> Counts]
      <4>1. errorMap \in [{} -> Counts]
        BY <3>2 DEF MapInv
      <4> QED BY <2>2, <4>1, CountsGrow
    <3> QED BY <1>1, <1>2, <2>3, <3>1, <3>2, <3>3 DEF MapInv, Running
  <2> QED BY <2>4, <2>5
<1> QED BY <1>3, <1>4

(* At first nothing is in the maps or the file. *)
LEMMA InitiallyLines == InitSimulation => LinesInv
<1> SUFFICES ASSUME InitSimulation PROVE LinesInv
  OBVIOUS
<1>1. 0 * (N + 1) = 0
  BY DeviceNumbers
<1>2. LoopInv /\ AddressInv /\ ClockInv /\ MapInv
  BY <1>1, SimulationAssumption
  DEF InitSimulation, LoopInv, AddressInv, ClockInv, MapInv, Running
<1>3. RowsInv /\ LinesOfOneDevice
  BY DEF InitSimulation, RowsInv, LinesOfOneDevice, Running
<1> QED BY <1>2, <1>3 DEF LinesInv

(* Every step of the programs keeps the lines as they should be. *)
LEMMA LinesStep ==
  ASSUME AddressesSuffice, LinesInv, [NextSimulation]_simulationVars
  PROVE  LinesInv'
<1>1. CASE UNCHANGED simulationVars
  BY <1>1
  DEF LinesInv, LoopInv, AddressInv, ClockInv, MapInv, RowsInv, LinesOfOneDevice,
      Running, simulationVars, setup, clock
<1> QED BY <1>1, MeanwhileLines, SetUpLines, TearDownLines
        DEF NextSimulation, Meanwhile, SetUp, TearDown

(* The files of StoreData: as long as there are addresses for ten           *)
(* simulations, a line is of one device, and its lines are reports of ever  *)
(* later times on ever more transmissions.                                 *)
THEOREM FileTellsDevicesApart ==
  ASSUME AddressesSuffice
  PROVE  SpecSimulation => []LinesOfOneDevice
<1>1. LinesInv => LinesOfOneDevice
  BY DEF LinesInv
<1> QED BY <1>1, InitiallyLines, LinesStep, PTL DEF SpecSimulation

-----------------------------------------------------------------------------
(* The network in a simulation *)

(* Between simulations the network is as at first. *)
BetweenInv ==
  phase = "main" => Init /\ \A d \in Devices : transmissions[d] = 0

TransmissionsInv == DOMAIN transmissions = Devices

(* No gateway has passed on two copies that are on their way. *)
CopyInv == \A c, k \in copies : c.dev = k.dev /\ c.gw = k.gw => c = k

NetworkInv == IInv /\ BetweenInv /\ TransmissionsInv /\ CopyInv

(* A step that does not touch the network. *)
LEMMA UnchangedNetwork ==
  ASSUME IInv, UNCHANGED vars
  PROVE  IInv'
BY DEF vars, networkVars, deviceVars, IInv, TypeOK, CopiesInv, WindowInv,
       WindowsClose, ReportsInv, ReportedInv, ReportedInOrder, LatestInv, Told,
       BestInv, AckInv

(* Initially, of the state after a step. *)
LEMMA InitiallyNext == Init' => IInv'
BY Initially, PTL

(* InstallBackend makes all devices known to the network. *)
LEMMA SetUpNetwork ==
  ASSUME NetworkInv, SetUp
  PROVE  NetworkInv'
<1>1. /\ phase = "main" /\ phase' = "running"
      /\ whiteList' = Devices /\ latest' = [d \in Devices |-> Unheard]
      /\ UNCHANGED <<packetToTransmit, stats, sendAck, netRx, answering, deviceVars,
                     copies, heard, reported, downlinks, owed, transmissions>>
  BY DEF SetUp, MainBody, MainBodyLoRaBattery, MainBodyRsExample, Begin, Connect,
         InstallBackend
<1>2. Init
  BY <1>1 DEF NetworkInv, BetweenInv
<1>3. IInv'
  <2> USE <1>1, <1>2 DEF Init, deviceVars
  <2>1. TypeOK'
    BY NetworkBounds DEF TypeOK, Kinds
  <2>2. CopiesInv' /\ WindowInv' /\ ReportsInv'
    BY DEF CopiesInv, WindowInv, WindowsClose, ReportsInv
  <2>3. ReportedInv' /\ LatestInv' /\ BestInv' /\ AckInv'
    BY DEF ReportedInv, ReportedInOrder, LatestInv, BestInv, AckInv
  <2> QED BY <2>1, <2>2, <2>3 DEF IInv
<1>4. BetweenInv' /\ TransmissionsInv' /\ CopyInv'
  BY <1>1, <1>2 DEF NetworkInv, BetweenInv, TransmissionsInv, CopyInv, Init
<1> QED BY <1>3, <1>4 DEF NetworkInv

(* Simulator::Destroy leaves nothing of it. *)
LEMMA TearDownNetwork ==
  ASSUME TearDown
  PROVE  NetworkInv'
<1>1. Destroy
  BY DEF TearDown, EndIteration, EndIterationLoRaBattery, EndIterationRsExample, Finish
<1>2. Init' /\ CopyInv' /\ BetweenInv' /\ TransmissionsInv'
  BY <1>1 DEF Destroy, Init, CopyInv, BetweenInv, TransmissionsInv
<1> QED BY <1>2, InitiallyNext DEF NetworkInv

(* Each gateway passes on one copy of a transmission. *)
LEMMA TransmitOnce ==
  ASSUME IInv, CopyInv, NEW d \in Devices, NEW n, NEW k, Transmit(d, n, k)
  PROVE  /\ CopyInv'
         /\ copies \subseteq copies'
         /\ \A c \in copies' \ copies : c.dev = d /\ c.gw \in Gateways
         /\ \A c \in copies : c.dev # d
<1>1. PICK rssi \in [Gateways -> 0..MaxRssi] :
        copies' = copies \cup {[dev |-> d, gw |-> g, rssi |-> rssi[g], num |-> n,
                                wantsAck |-> k # "plain"] :
                                 g \in {h \in Gateways : rssi[h] > 0}}
  BY DEF Transmit
<1>2. \A c \in copies : c.dev # d
  BY Silent DEF Transmit
<1>3. ASSUME NEW c \in copies', c \notin copies
      PROVE  /\ c.dev = d /\ c.gw \in Gateways
             /\ c = [dev |-> d, gw |-> c.gw, rssi |-> rssi[c.gw], num |-> n,
                     wantsAck |-> k # "plain"]
  BY <1>1, <1>3
<1>4. ASSUME NEW c \in copies', NEW e \in copies', c.dev = e.dev, c.gw = e.gw
      PROVE  c = e
  <2>1. CASE c \in copies
    BY <1>2, <1>3, <1>4, <2>1 DEF CopyInv
  <2>2. CASE c \notin copies
    <3>1. e \notin copies
      BY <1>2, <1>3, <1>4, <2>2
    <3> QED BY <1>3, <1>4, <2>2, <3>1
  <2> QED BY <2>1, <2>2
<1> QED BY <1>1, <1>2, <1>3, <1>4 DEF CopyInv

(* What happens meanwhile are steps of the network. *)
LEMMA MeanwhileNetwork ==
  ASSUME NetworkInv, Meanwhile
  PROVE  NetworkInv'
<1> USE DEF NetworkInv
<1>1. phase' = phase /\ TransmissionsInv'
  <2>1. DOMAIN transmissions' = DOMAIN transmissions
    BY DEF Meanwhile, Sense, DelayedSend, DeviceTransmits, NetworkAnswers,
           NetworkReceives, NetworkReports, ScheduleStoring, TimePasses, traffic
  <2> QED BY <2>1, MeanwhileKeeps DEF TransmissionsInv
<1>2. ASSUME NEW d \in Devices, DeviceTransmits(d) PROVE NetworkInv'
  <2>1. NewFrame(d) \/ Retransmission(d)
    BY <1>2 DEF DeviceTransmits
  <2>2. IInv'
    BY <2>1, NewFrameStep, RetransmissionStep
  <2>3. \E n, k : Transmit(d, n, k)
    BY <2>1 DEF NewFrame, Retransmission
  <2>4. CopyInv'
    BY <2>3, TransmitOnce
  <2>5. BetweenInv'
    BY <1>1, <1>2 DEF DeviceTransmits, BetweenInv
  <2> QED BY <1>1, <2>2, <2>4, <2>5
<1>3. ASSUME NEW c \in copies, NetworkReceives(c) PROVE NetworkInv'
  <2>1. MessageReceived(c)
    BY <1>3 DEF NetworkReceives
  <2>2. IInv'
    BY <2>1, MessageReceivedStep
  <2>3. CopyInv'
    BY <2>1 DEF MessageReceived, CopyInv
  <2>4. phase # "main"
    BY DEF BetweenInv, Init
  <2> QED BY <1>1, <2>2, <2>3, <2>4 DEF BetweenInv
<1>4. ASSUME NetworkReports PROVE NetworkInv'
  <2>1. NetRx
    BY <1>4 DEF NetworkReports
  <2>2. phase # "main"
    BY <2>1 DEF BetweenInv, Init, NetRx
  <2>3. CopyInv'
    BY <2>1 DEF CopyInv, NetRx
  <2> QED BY <1>1, <2>1, <2>2, <2>3, NetRxStep DEF BetweenInv
<1>5. ASSUME NEW d \in Devices, NetworkAnswers(d) PROVE NetworkInv'
  <2>1. Answer(d) \/ SendAck(d)
    BY <1>5 DEF NetworkAnswers
  <2>2. phase # "main"
    BY <2>1 DEF BetweenInv, Init, Answer, SendAck
  <2>3. CopyInv'
    BY <2>1 DEF CopyInv, Answer, SendAck
  <2> QED BY <1>1, <2>1, <2>2, <2>3, AnswerStep, SendAckStep DEF BetweenInv
<1>6. CASE UNCHANGED vars /\ UNCHANGED transmissions
  BY <1>1, <1>6, UnchangedNetwork
  DEF vars, networkVars, deviceVars, BetweenInv, Init, CopyInv
<1>7. CASE \/ \E d \in Devices : Sense(d) \/ DelayedSend(d)
           \/ ScheduleStoring \/ TimePasses
  BY <1>6, <1>7 DEF Sense, DelayedSend, ScheduleStoring, TimePasses, traffic
<1> QED BY <1>2, <1>3, <1>4, <1>5, <1>7 DEF Meanwhile

-----------------------------------------------------------------------------
(* The statistics *)

Nearest(d) == GetClosestGateway(place[d])

(* The gateways whose copies of a device's transmission are on their way,   *)
(* whether the nearest one is among them, the reports that are pending, and *)
(* whether a copy on its way would be reported.                            *)
OnTheirWay(d) == {g \in Gateways : \E c \in copies : c.dev = d /\ c.gw = g}
NearOnItsWay(d) == IF Nearest(d) \in OnTheirWay(d) THEN 1 ELSE 0
Pending(d) == IF \E i \in 1..Len(netRx) : netRx[i].dev = d THEN 1 ELSE 0
Fresh(d) == IF OnTheirWay(d) # {} /\ latest[d] # sent[d] - 1 THEN 1 ELSE 0

On == IF Measuring THEN 1 ELSE 0

(* The transmissions that can have been received: those counted, and one    *)
(* before that if there was one.                                           *)
Most(t, s) == s.transmitted + (IF t > s.transmitted THEN 1 ELSE 0)

(* What can still be counted is bounded as what has been: t transmissions   *)
(* and the counts s of a device, w copies on their way, near of them from   *)
(* the nearest gateway, p reports pending and f to come, and on = 1 as soon *)
(* as the measurement has started.                                         *)
Bounded(t, s, w, near, p, f, on) ==
  /\ t \in Nat /\ s \in Counts /\ s.transmitted <= t
  /\ on = 0 => s = NoCounts
  /\ s.received + w <= G * Most(t, s)
  /\ s.closest + near <= Most(t, s)
  /\ s.unique + p + f <= Most(t, s)
  /\ s.closest <= s.received
  /\ on = 1 => s.unique + p <= s.received

DeviceBounded(d) ==
  Bounded(transmissions[d], errorMap[address[d]], Cardinality(OnTheirWay(d)),
          NearOnItsWay(d), Pending(d), Fresh(d), On)

StatisticsInv == Running => \A d \in Devices : DeviceBounded(d)

(* There are one to seven gateways. *)
LEMMA GatewayNumber == G \in 1..7 /\ IsFiniteSet(Gateways)
<1>1. G \in 1..7 /\ Gateways = 1..G
  BY SimulationAssumption DEF G
<1> QED BY <1>1, FS_Interval

(* One more transmission may be received by each gateway. *)
LEMMA TransmissionBounded ==
  ASSUME NEW t, NEW s, NEW w, NEW near, NEW p, NEW f, NEW on \in 0..1,
         Bounded(t, s, w, near, p, f, on),
         NEW w1 \in 0..G, NEW near1 \in 0..1, NEW f1 \in 0..1,
         w \in Nat, near \in Nat, p = 0, f \in Nat,
         NEW s1, s1 = IF on = 1 THEN [s EXCEPT !.transmitted = s.transmitted + 1] ELSE s
  PROVE  Bounded(t + 1, s1, w1, near1, 0, f1, on)
<1> USE DEF Bounded, Most
<1>1. /\ s \in Counts /\ s.transmitted \in Nat /\ s.received \in Nat
      /\ s.unique \in Nat /\ s.closest \in Nat /\ t \in Nat /\ G \in Nat
  BY GatewayNumber DEF Counts
<1> DEFINE m == Most(t, s)
<1>2. m \in Nat /\ G * (m + 1) = G * m + G
  BY <1>1
<1>3. CASE on = 1
  <2>1. /\ s1 \in Counts /\ s1.transmitted = s.transmitted + 1
        /\ s1.received = s.received /\ s1.unique = s.unique /\ s1.closest = s.closest
    BY <1>1, <1>3 DEF Counts
  <2>2. Most(t + 1, s1) = m + 1
    BY <1>1, <2>1
  <2>3. s.received + w <= G * m /\ G * m \in Nat
    BY <1>1, <1>2
  <2>4. s1.received + w1 <= G * Most(t + 1, s1)
    BY <1>1, <1>2, <2>1, <2>2, <2>3
  <2> QED BY <1>1, <1>3, <2>1, <2>2, <2>4
<1>4. CASE on = 0
  <2>1. s1 = NoCounts /\ s = NoCounts
    BY <1>4
  <2>2. Most(t + 1, s1) = 1 /\ G * 1 = G
    BY <1>1, <2>1 DEF NoCounts
  <2> QED BY <1>1, <1>4, <2>1, <2>2 DEF NoCounts
<1> QED BY <1>3, <1>4

(* A copy that has come is no longer on its way. *)
LEMMA ReceptionBounded ==
  ASSUME NEW t, NEW s, NEW w \in Nat, NEW near \in 0..1, NEW p \in 0..1,
         NEW f \in 0..1, NEW on \in 0..1,
         Bounded(t, s, w + 1, near, p, f, on),
         NEW one \in 0..1, one <= near, NEW near1 \in 0..1, near1 + one <= near,
         NEW p1 \in 0..1, NEW f1 \in 0..1, p1 + f1 <= p + f, p1 <= p + 1,
         NEW s1, s1 = IF on = 1 THEN [s EXCEPT !.received = s.received + 1,
                                               !.closest = s.closest + one] ELSE s
  PROVE  Bounded(t, s1, w, near1, p1, f1, on)
<1> USE DEF Bounded
<1>1. /\ s \in Counts /\ s.transmitted \in Nat /\ s.received \in Nat
      /\ s.unique \in Nat /\ s.closest \in Nat /\ t \in Nat /\ G \in Nat
  BY GatewayNumber DEF Counts
<1>2. Most(t, s) \in Nat /\ G * Most(t, s) \in Nat
  <2>1. Most(t, s) \in Nat
    BY <1>1 DEF Most
  <2> QED BY <1>1, <2>1
<1>3. CASE on = 1
  <2>1. /\ s1 \in Counts /\ s1.transmitted = s.transmitted
        /\ s1.received = s.received + 1 /\ s1.unique = s.unique
        /\ s1.closest = s.closest + one
    <3>1. s.received + 1 \in Nat /\ s.closest + one \in Nat
      BY <1>1
    <3>2. s1 = [s EXCEPT !.received = s.received + 1, !.closest = s.closest + one]
      BY <1>3
    <3> QED BY <1>1, <3>1, <3>2 DEF Counts
  <2>2. Most(t, s1) = Most(t, s)
    BY <2>1 DEF Most
  <2> QED BY <1>1, <1>2, <1>3, <2>1, <2>2
<1>4. CASE on = 0
  <2>1. s1 = s
    BY <1>4
  <2> QED BY <1>1, <1>2, <1>4, <2>1
<1> QED BY <1>3, <1>4

(* Nor is a report that has been made pending. *)
LEMMA ReportBounded ==
  ASSUME NEW t, NEW s, NEW w \in Nat, NEW near \in 0..1, NEW f \in 0..1,
         NEW on \in 0..1, Bounded(t, s, w, near, 1, f, on),
         NEW s1, s1 = IF on = 1 THEN [s EXCEPT !.unique = s.unique + 1] ELSE s
  PROVE  Bounded(t, s1, w, near, 0, f, on)
<1> USE DEF Bounded
<1>1. /\ s \in Counts /\ s.transmitted \in Nat /\ s.received \in Nat
      /\ s.unique \in Nat /\ s.closest \in Nat /\ t \in Nat
  BY DEF Counts
<1>2. Most(t, s) \in Nat
  BY <1>1 DEF Most
<1>3. CASE on = 1
  <2>1. /\ s1 \in Counts /\ s1.transmitted = s.transmitted
        /\ s1.received = s.received /\ s1.unique = s.unique + 1
        /\ s1.closest = s.closest
    BY <1>1, <1>3 DEF Counts
  <2>2. Most(t, s1) = Most(t, s)
    BY <2>1 DEF Most
  <2> QED BY <1>1, <1>2, <1>3, <2>1, <2>2
<1>4. CASE on = 0
  BY <1>1, <1>2, <1>4
<1> QED BY <1>3, <1>4

(* When the measurement starts, nothing has been counted. *)
LEMMA StartBounded ==
  ASSUME NEW t, NEW s, NEW w, NEW near, NEW f, NEW on \in 0..1,
         Bounded(t, s, w, near, 0, f, on)
  PROVE  Bounded(t, s, w, near, 0, f, 1)
BY DEF Bounded, NoCounts

-----------------------------------------------------------------------------
(* Steps of the statistics *)

SimulationInv == LinesInv /\ NetworkInv /\ StatisticsInv

(* What is bounded is in the ranges the lemmas about bounds speak of. *)
Sized ==
  \A d \in Devices :
    /\ OnTheirWay(d) \subseteq Gateways
    /\ Cardinality(OnTheirWay(d)) \in 0..G
    /\ NearOnItsWay(d) \in 0..1 /\ Pending(d) \in 0..1 /\ Fresh(d) \in 0..1
    /\ On \in 0..1

(* They are, in every state, *)
LEMMA AlwaysSized == Sized
<1>1. ASSUME NEW d \in Devices
      PROVE  OnTheirWay(d) \subseteq Gateways /\ Cardinality(OnTheirWay(d)) \in 0..G
  <2>1. OnTheirWay(d) \subseteq Gateways
    BY DEF OnTheirWay
  <2>2. Cardinality(OnTheirWay(d)) \in Nat /\ Cardinality(OnTheirWay(d)) <= G
    BY <2>1, GatewayNumber, FS_Subset, FS_CardinalityType DEF G
  <2> QED BY <2>1, <2>2, GatewayNumber
<1>2. /\ \A d \in Devices :
           NearOnItsWay(d) \in 0..1 /\ Pending(d) \in 0..1 /\ Fresh(d) \in 0..1
      /\ On \in 0..1
  BY DEF NearOnItsWay, Pending, Fresh, On
<1> QED BY <1>1, <1>2 DEF Sized

(* and so in the one after a step. *)
LEMMA NextSized == Sized'
BY AlwaysSized, PTL

(* The statistics of a device nothing happens to stay bounded. *)
LEMMA UnaffectedDevice ==
  ASSUME NEW d \in Devices, DeviceBounded(d),
         errorMap'[address'[d]] = errorMap[address[d]],
         transmissions'[d] = transmissions[d],
         OnTheirWay(d)' = OnTheirWay(d), Pending(d)' = Pending(d),
         latest'[d] = latest[d], sent'[d] = sent[d], place'[d] = place[d],
         On' = On
  PROVE  DeviceBounded(d)'
<1>1. NearOnItsWay(d)' = NearOnItsWay(d) /\ Fresh(d)' = Fresh(d)
  BY DEF NearOnItsWay, Fresh, Nearest
<1> QED BY <1>1 DEF DeviceBounded

(* What is counted for a device is counted for no other one. *)
LEMMA OneCounts ==
  ASSUME AddressesSuffice, LinesInv, Running, UNCHANGED address,
         NEW d \in Devices, NEW s, errorMap' = [errorMap EXCEPT ![address[d]] = s]
  PROVE  /\ errorMap'[address'[d]] = s
         /\ \A e \in Devices \ {d} : errorMap'[address'[e]] = errorMap[address[e]]
<1>1. \A e \in Devices : address[e] \in DOMAIN errorMap
  <2>1. Range(address) = {address[e] : e \in Devices}
    BY AddressesFinite DEF LinesInv
  <2> QED BY <2>1 DEF LinesInv, MapInv
<1>2. \A e \in Devices \ {d} : address[e] # address[d]
  BY AddressInjective DEF LinesInv
<1> QED BY <1>1, <1>2

(* A new simulation has counted nothing. *)
LEMMA SetUpStatistics ==
  ASSUME SimulationInv, SetUp, LinesInv'
  PROVE  StatisticsInv'
<1>1. /\ phase = "main" /\ phase' = "running"
      /\ HookUp /\ UNCHANGED <<copies, netRx, transmissions>>
  BY DEF SetUp, MainBody, MainBodyLoRaBattery, MainBodyRsExample, Begin, Connect
<1>2. Init /\ \A d \in Devices : transmissions[d] = 0
  BY <1>1 DEF SimulationInv, NetworkInv, BetweenInv
<1>3. ASSUME NEW d \in Devices PROVE errorMap'[address'[d]] = NoCounts
  <2>1. address'[d] \in Range(address')
    BY <1>1 DEF LinesInv, AddressInv, Running, Range
  <2> DEFINE A == Range(address')
             counts == [a \in A |-> NoCounts]
  <2>2. errorMap' = Stored(counts, errorMap)
    BY <1>1 DEF HookUp, NoCounts
  <2>3. address'[d] \in DOMAIN counts
    BY <2>1
  <2>4. errorMap'[address'[d]] = counts[address'[d]]
    BY <2>2, <2>3 DEF Stored
  <2> QED BY <2>1, <2>4
<1>4. ASSUME NEW d \in Devices PROVE DeviceBounded(d)'
  <2>1. OnTheirWay(d)' = {} /\ Pending(d)' = 0
    BY <1>1, <1>2 DEF OnTheirWay, Pending, Init
  <2>2. /\ Cardinality(OnTheirWay(d)') = 0 /\ NearOnItsWay(d)' = 0 /\ Fresh(d)' = 0
    BY <2>1, FS_EmptySet DEF NearOnItsWay, Fresh
  <2>3. transmissions'[d] = 0
    BY <1>1, <1>2
  <2>4. NoCounts \in Counts /\ Most(0, NoCounts) = 0 /\ G * 0 = 0
    BY GatewayNumber DEF NoCounts, Counts, Most
  <2>5. \A on : Bounded(0, NoCounts, 0, 0, 0, 0, on)
    BY <2>4 DEF Bounded, NoCounts
  <2> QED BY <1>3, <2>1, <2>2, <2>3, <2>5 DEF DeviceBounded
<1> QED BY <1>4 DEF StatisticsInv

(* A transmission is counted, and may be received by every gateway. *)
LEMMA DeviceTransmitsStatistics ==
  ASSUME AddressesSuffice, SimulationInv, NEW d \in Devices, DeviceTransmits(d)
  PROVE  StatisticsInv'
<1> USE DEF SimulationInv, NetworkInv
<1>1. /\ Running /\ transmissions' = [transmissions EXCEPT ![d] = @ + 1]
      /\ NewFrame(d) \/ Retransmission(d)
      /\ Transmitted(d)
      /\ UNCHANGED <<address, place, program, now>>
  BY DEF DeviceTransmits, setup, clock, Running
<1>2. PICK n, k : Transmit(d, n, k)
  BY <1>1 DEF NewFrame, Retransmission
<1>3. UNCHANGED <<netRx, latest>> /\ Pending(d) = 0
  BY <1>2, Silent DEF Transmit, networkVars, Pending
<1>4. /\ copies \subseteq copies'
      /\ \A c \in copies' \ copies : c.dev = d
  BY <1>2, TransmitOnce
<1>5. On' = On
  BY <1>1 DEF On, Measuring
<1>6. \A e \in Devices : DeviceBounded(e)
  BY <1>1 DEF StatisticsInv
<1>7. \A e \in Devices \ {d} :
        sent'[e] = sent[e] /\ transmissions'[e] = transmissions[e]
  BY <1>1 DEF NewFrame, Retransmission, deviceVars, IInv, TypeOK
<1> DEFINE s == errorMap[address[d]]
           s1 == IF On = 1 THEN [s EXCEPT !.transmitted = s.transmitted + 1] ELSE s
<1>8. errorMap' = [errorMap EXCEPT ![address[d]] = s1]
  <2>1. CASE Measuring
    BY <1>1, <2>1 DEF Transmitted, CountTransmitted, Count, On
  <2>2. CASE ~Measuring
    <3>1. errorMap' = errorMap /\ s1 = s
      BY <1>1, <2>2 DEF Transmitted, On
    <3>2. errorMap = [errorMap EXCEPT ![address[d]] = s]
      BY <1>1 DEF LinesInv, MapInv
    <3> QED BY <3>1, <3>2
  <2> QED BY <2>1, <2>2
<1>9. /\ errorMap'[address'[d]] = s1
      /\ \A e \in Devices \ {d} : errorMap'[address'[e]] = errorMap[address[e]]
  <2> HIDE DEF s1
  <2> QED BY <1>1, <1>8, OneCounts
<1>10. ASSUME NEW e \in Devices \ {d} PROVE DeviceBounded(e)'
  <2>1. OnTheirWay(e)' = OnTheirWay(e) /\ Pending(e)' = Pending(e)
    BY <1>3, <1>4 DEF OnTheirWay, Pending
  <2> QED BY <1>1, <1>3, <1>5, <1>6, <1>7, <1>9, <2>1, UnaffectedDevice
<1>11. DeviceBounded(d)'
  <2>1. transmissions'[d] = transmissions[d] + 1
    <3>1. d \in DOMAIN transmissions
      BY DEF TransmissionsInv
    <3> QED BY <1>1, <3>1
  <2>2. Pending(d)' = 0
    BY <1>3 DEF Pending
  <2>3. Bounded(transmissions[d], s, Cardinality(OnTheirWay(d)), NearOnItsWay(d),
                Pending(d), Fresh(d), On)
    BY <1>6 DEF DeviceBounded
  <2> HIDE DEF s
  <2>4. Bounded(transmissions[d] + 1, s1, Cardinality(OnTheirWay(d)'),
                NearOnItsWay(d)', 0, Fresh(d)', On)
    BY <1>3, <2>3, AlwaysSized, NextSized, TransmissionBounded DEF Sized
  <2> QED BY <1>5, <1>9, <2>1, <2>2, <2>4 DEF DeviceBounded
<1> QED BY <1>10, <1>11 DEF StatisticsInv

(* A copy that comes is counted, at most once as the one of the nearest     *)
(* gateway, and opens at most one report.                                  *)
LEMMA NetworkReceivesStatistics ==
  ASSUME AddressesSuffice, SimulationInv, NEW c \in copies, NetworkReceives(c)
  PROVE  StatisticsInv'
<1> USE DEF SimulationInv, NetworkInv
<1> DEFINE d == c.dev
<1>1. /\ MessageReceived(c) /\ Received(c)
      /\ copies' = copies \ {c}
      /\ UNCHANGED <<address, place, program, now, phase, transmissions, sent>>
  BY DEF NetworkReceives, MessageReceived, deviceVars, setup, clock, traffic
<1>2. Running
  BY DEF BetweenInv, Init, LinesInv, LoopInv, Running
<1>3. d \in Devices /\ c.gw \in Gateways /\ copies \subseteq Copy
  BY DEF IInv, TypeOK, Copy
<1>4. On' = On
  BY <1>1 DEF On, Measuring
<1>5. \A e \in Devices : DeviceBounded(e)
  BY <1>2 DEF StatisticsInv
<1> DEFINE s == errorMap[address[d]]
           one == IF c.gw = Nearest(d) THEN 1 ELSE 0
           s1 == IF On = 1 THEN [s EXCEPT !.received = s.received + 1,
                                          !.closest = s.closest + one] ELSE s
<1>6. errorMap' = [errorMap EXCEPT ![address[d]] = s1]
  <2>1. CASE Measuring
    <3>1. deviceMap[address[d]].dev = d
      BY <1>2, <1>3 DEF LinesInv, MapInv
    <3>2. errorMap' = [errorMap EXCEPT ![address[d]].received = @ + 1,
                                       ![address[d]].closest = @ + one]
      BY <1>1, <2>1, <3>1 DEF Received, CountReceived, Nearest, GatewayNode
    <3> HIDE DEF one
    <3> QED BY <2>1, <3>2 DEF On
  <2>2. CASE ~Measuring
    <3>1. errorMap' = errorMap /\ s1 = s
      BY <1>1, <2>2 DEF Received, On
    <3>2. errorMap = [errorMap EXCEPT ![address[d]] = s]
      BY <1>2 DEF LinesInv, MapInv
    <3> QED BY <3>1, <3>2
  <2> QED BY <2>1, <2>2
<1>7. /\ errorMap'[address'[d]] = s1
      /\ \A e \in Devices \ {d} : errorMap'[address'[e]] = errorMap[address[e]]
  <2> HIDE DEF s1, d
  <2> QED BY <1>1, <1>2, <1>3, <1>6, OneCounts
<1>8. /\ OnTheirWay(d)' = OnTheirWay(d) \ {c.gw} /\ c.gw \in OnTheirWay(d)
      /\ \A e \in Devices \ {d} : OnTheirWay(e)' = OnTheirWay(e)
  BY <1>1, <1>3 DEF OnTheirWay, CopyInv
<1>9. \/ /\ UNCHANGED latest /\ UNCHANGED netRx
      \/ /\ latest[d] = sent[d] - 1 /\ latest' = [latest EXCEPT ![d] = sent[d] - 1]
         /\ UNCHANGED netRx
      \/ /\ latest[d] # sent[d] - 1 /\ latest' = [latest EXCEPT ![d] = sent[d] - 1]
         /\ Pending(d) = 0 /\ netRx' = Append(netRx, [dev |-> d, num |-> c.num])
  <2>1. CASE FirstCopy(c)
    <3>1. Counter(c.num) = c.num /\ c.num = sent[d] - 1
      <4>1. c.num = sent[d] - 1 /\ c.num \in Nat /\ sent[d] \in 0..MaxFrames
        BY <1>3 DEF IInv, TypeOK, CopiesInv, Copy
      <4>2. c.num < MaxFrames
        BY <4>1, NetworkBounds
      <4> QED BY <4>1, <4>2, CounterIsNumber
    <3>2. stats[d] = NoStats /\ latest' = [latest EXCEPT ![d] = Counter(c.num)]
      BY <2>1 DEF FirstCopy
    <3>3. Pending(d) = 0
      BY <3>2 DEF Pending, IInv, ReportsInv
    <3>4. netRx' = IF latest[d] # Counter(c.num)
                   THEN Append(netRx, [dev |-> d, num |-> c.num]) ELSE netRx
      BY <2>1 DEF FirstCopy, NewNumber
    <3> QED BY <3>1, <3>2, <3>3, <3>4
  <2>2. CASE UNCHANGED <<latest, netRx>>
    BY <2>2
  <2> QED BY <1>1, <2>1, <2>2 DEF MessageReceived, AnotherCopy
<1>10. latest \in [Devices -> Nat] /\ netRx \in Seq(Report)
  BY DEF IInv, TypeOK
<1>11. ASSUME NEW e \in Devices \ {d} PROVE DeviceBounded(e)'
  <2>1. latest'[e] = latest[e]
    BY <1>9, <1>10
  <2>2. Pending(e)' = Pending(e)
    <3>1. CASE UNCHANGED netRx
      BY <3>1 DEF Pending
    <3>2. CASE netRx' = Append(netRx, [dev |-> d, num |-> c.num])
      <4> HIDE DEF d
      <4>1. /\ Len(netRx') = Len(netRx) + 1 /\ Len(netRx) \in Nat
            /\ \A i \in 1..Len(netRx) : netRx'[i] = netRx[i]
            /\ netRx'[Len(netRx) + 1].dev = d
        BY <1>10, <3>2
      <4>2. \A i \in 1..Len(netRx') : netRx'[i].dev = e => i \in 1..Len(netRx)
        BY <4>1
      <4>3. \A i \in 1..Len(netRx) : i \in 1..Len(netRx')
        BY <4>1
      <4> QED BY <4>1, <4>2, <4>3 DEF Pending
    <3> QED BY <1>9, <3>1, <3>2
  <2> QED BY <1>1, <1>4, <1>5, <1>7, <1>8, <2>1, <2>2, UnaffectedDevice
<1>12. DeviceBounded(d)'
  <2>1. Cardinality(OnTheirWay(d)) = Cardinality(OnTheirWay(d)') + 1
    <3>1. IsFiniteSet(OnTheirWay(d))
      BY GatewayNumber, FS_Subset DEF OnTheirWay
    <3>2. Cardinality(OnTheirWay(d)') = Cardinality(OnTheirWay(d)) - 1
      BY <1>8, <3>1, FS_RemoveElement
    <3> QED BY <1>3, <3>2, AlwaysSized DEF Sized
  <2>2. /\ one \in 0..1 /\ one <= NearOnItsWay(d)
        /\ NearOnItsWay(d)' + one <= NearOnItsWay(d)
    BY <1>1, <1>3, <1>8 DEF NearOnItsWay, Nearest
  <2>3. OnTheirWay(d)' # {} => OnTheirWay(d) # {}
    BY <1>8
  <2>4. /\ Pending(d)' + Fresh(d)' <= Pending(d) + Fresh(d)
        /\ Pending(d)' <= Pending(d) + 1
    <3>1. sent'[d] = sent[d]
      BY <1>1
    <3>2. CASE UNCHANGED latest /\ UNCHANGED netRx
      <4>1. Pending(d)' = Pending(d) /\ Fresh(d)' <= Fresh(d)
        BY <2>3, <3>1, <3>2 DEF Pending, Fresh
      <4> QED BY <1>3, <4>1, AlwaysSized, NextSized DEF Sized
    <3>3. CASE latest' = [latest EXCEPT ![d] = sent[d] - 1] /\ UNCHANGED netRx
      <4>1. latest'[d] = sent'[d] - 1
        BY <1>3, <1>10, <3>1, <3>3
      <4>2. Pending(d)' = Pending(d) /\ Fresh(d)' = 0
        BY <3>3, <4>1 DEF Pending, Fresh
      <4> QED BY <1>3, <4>2, AlwaysSized, NextSized DEF Sized
    <3>4. CASE /\ latest[d] # sent[d] - 1 /\ Pending(d) = 0
               /\ latest' = [latest EXCEPT ![d] = sent[d] - 1]
      <4>1. latest'[d] = sent'[d] - 1
        BY <1>3, <1>10, <3>1, <3>4
      <4>2. Fresh(d)' = 0 /\ Fresh(d) = 1
        BY <1>8, <3>4, <4>1 DEF Fresh
      <4> QED BY <1>3, <3>4, <4>2, AlwaysSized, NextSized DEF Sized
    <3> QED BY <1>9, <3>2, <3>3, <3>4
  <2>5. Bounded(transmissions[d], s, Cardinality(OnTheirWay(d)') + 1,
                NearOnItsWay(d), Pending(d), Fresh(d), On)
    BY <1>3, <1>5, <2>1 DEF DeviceBounded
  <2>6. /\ NearOnItsWay(d) \in 0..1 /\ Pending(d) \in 0..1 /\ Fresh(d) \in 0..1
        /\ NearOnItsWay(d)' \in 0..1 /\ Pending(d)' \in 0..1 /\ Fresh(d)' \in 0..1
        /\ On \in 0..1 /\ Cardinality(OnTheirWay(d)') \in Nat
    BY <1>3, AlwaysSized, NextSized DEF Sized
  <2> HIDE DEF s, one, d
  <2>7. Bounded(transmissions[d], s1, Cardinality(OnTheirWay(d)'), NearOnItsWay(d)',
                Pending(d)', Fresh(d)', On)
    BY <2>2, <2>4, <2>5, <2>6, ReceptionBounded
  <2> QED BY <1>1, <1>4, <1>7, <2>7 DEF DeviceBounded
<1> QED BY <1>11, <1>12 DEF StatisticsInv

(* A report is counted once. *)
LEMMA NetworkReportsStatistics ==
  ASSUME AddressesSuffice, SimulationInv, NetworkReports
  PROVE  StatisticsInv'
<1> USE DEF SimulationInv, NetworkInv
<1>1. /\ netRx # <<>> /\ netRx' = Tail(netRx) /\ ReceivedUnique(Head(netRx).dev)
      /\ UNCHANGED <<address, place, program, now, phase, transmissions, sent, latest,
                     copies>>
  BY DEF NetworkReports, NetRx, deviceVars, setup, clock, traffic
<1>2. Running
  BY <1>1 DEF BetweenInv, Init, LinesInv, LoopInv, Running
<1>3. PICK d \in Devices : d = netRx[1].dev /\ d = Head(netRx).dev
  <2>1. netRx \in Seq(Report) /\ Len(netRx) \in Nat \ {0} /\ Head(netRx) = netRx[1]
    BY <1>1 DEF IInv, TypeOK
  <2>2. netRx[1] \in Report
    BY <2>1
  <2> QED BY <2>1, <2>2 DEF Report
<1>13. netRx \in Seq(Report) /\ Len(netRx) \in Nat \ {0}
  BY <1>1 DEF IInv, TypeOK
<1>4. On' = On
  BY <1>1 DEF On, Measuring
<1>5. \A e \in Devices : DeviceBounded(e)
  BY <1>2 DEF StatisticsInv
<1> DEFINE s == errorMap[address[d]]
           s1 == IF On = 1 THEN [s EXCEPT !.unique = s.unique + 1] ELSE s
<1>6. errorMap' = [errorMap EXCEPT ![address[d]] = s1]
  <2>1. CASE Measuring
    BY <1>1, <1>3, <2>1 DEF ReceivedUnique, CountUnique, Count, On
  <2>2. CASE ~Measuring
    <3>1. errorMap' = errorMap /\ s1 = s
      BY <1>1, <1>3, <2>2 DEF ReceivedUnique, On
    <3>2. errorMap = [errorMap EXCEPT ![address[d]] = s]
      BY <1>2 DEF LinesInv, MapInv
    <3> QED BY <3>1, <3>2
  <2> QED BY <2>1, <2>2
<1>7. /\ errorMap'[address'[d]] = s1
      /\ \A e \in Devices \ {d} : errorMap'[address'[e]] = errorMap[address[e]]
  <2> HIDE DEF s1
  <2> QED BY <1>1, <1>2, <1>3, <1>6, OneCounts
<1>8. /\ Len(netRx') = Len(netRx) - 1
      /\ \A i \in 1..Len(netRx') : netRx'[i] = netRx[i + 1]
  BY <1>1, <1>13
<1>9. \A i \in 1..Len(netRx) : netRx[i].dev = d => i = 1
  <2>1. \A i \in 1..Len(netRx) : \A j \in 1..Len(netRx) :
          netRx[j].dev = netRx[i].dev => j = i
    BY DEF IInv, ReportsInv
  <2>2. 1 \in 1..Len(netRx)
    BY <1>13
  <2> QED BY <1>3, <2>1, <2>2
<1>10. Pending(d) = 1 /\ Pending(d)' = 0
  <2>1. \A i \in 1..Len(netRx') : netRx'[i].dev # d
    BY <1>13, <1>8, <1>9
  <2>2. 1 \in 1..Len(netRx)
    BY <1>13
  <2> QED BY <1>3, <2>1, <2>2 DEF Pending
<1>11. ASSUME NEW e \in Devices \ {d} PROVE DeviceBounded(e)'
  <2>1. (\E i \in 1..Len(netRx') : netRx'[i].dev = e)
          <=> \E i \in 1..Len(netRx) : netRx[i].dev = e
    <3>1. ASSUME NEW i \in 1..Len(netRx), netRx[i].dev = e
          PROVE  i - 1 \in 1..Len(netRx') /\ netRx'[i - 1].dev = e
      <4>1. i # 1
        BY <1>3, <3>1
      <4>2. i - 1 \in 1..Len(netRx') /\ (i - 1) + 1 = i
        BY <1>13, <1>8, <4>1
      <4> QED BY <1>8, <3>1, <4>2
    <3>2. ASSUME NEW i \in 1..Len(netRx'), netRx'[i].dev = e
          PROVE  i + 1 \in 1..Len(netRx) /\ netRx[i + 1].dev = e
      BY <1>13, <1>8, <3>2
    <3> QED BY <3>1, <3>2
  <2>2. Pending(e)' = Pending(e)
    BY <2>1 DEF Pending
  <2>3. OnTheirWay(e)' = OnTheirWay(e)
    BY <1>1 DEF OnTheirWay
  <2> QED BY <1>1, <1>4, <1>5, <1>7, <2>2, <2>3, UnaffectedDevice
<1>12. DeviceBounded(d)'
  <2>1. OnTheirWay(d)' = OnTheirWay(d)
    BY <1>1 DEF OnTheirWay
  <2>2. NearOnItsWay(d)' = NearOnItsWay(d) /\ Fresh(d)' = Fresh(d)
    BY <1>1, <2>1 DEF NearOnItsWay, Fresh, Nearest
  <2>3. Bounded(transmissions[d], s, Cardinality(OnTheirWay(d)), NearOnItsWay(d), 1,
                Fresh(d), On)
    BY <1>3, <1>5, <1>10 DEF DeviceBounded
  <2> HIDE DEF s
  <2>4. Bounded(transmissions[d], s1, Cardinality(OnTheirWay(d)), NearOnItsWay(d), 0,
                Fresh(d), On)
    BY <1>3, <2>3, AlwaysSized, ReportBounded DEF Sized
  <2> QED BY <1>1, <1>4, <1>7, <1>10, <2>1, <2>2, <2>4 DEF DeviceBounded
<1> QED BY <1>11, <1>12 DEF StatisticsInv

(* The other steps count nothing; time may reach the start of measurements. *)
LEMMA QuietStatistics ==
  ASSUME SimulationInv, UNCHANGED <<phase, address, place, program, errorMap>>,
         UNCHANGED <<transmissions, copies, netRx, latest, sent>>,
         On' = On \/ (On' = 1 /\ netRx = <<>>)
  PROVE  StatisticsInv'
<1> SUFFICES ASSUME Running, NEW d \in Devices PROVE DeviceBounded(d)'
  BY DEF StatisticsInv, Running
<1>1. DeviceBounded(d)
  BY DEF SimulationInv, StatisticsInv
<1>2. OnTheirWay(d)' = OnTheirWay(d) /\ Pending(d)' = Pending(d)
  BY DEF OnTheirWay, Pending
<1>3. NearOnItsWay(d)' = NearOnItsWay(d) /\ Fresh(d)' = Fresh(d)
  BY <1>2 DEF NearOnItsWay, Fresh, Nearest
<1>4. CASE On' = On
  BY <1>1, <1>2, <1>4, UnaffectedDevice
<1>5. CASE On' = 1 /\ netRx = <<>>
  <2>1. Pending(d) = 0 /\ On \in 0..1
    BY <1>5, AlwaysSized DEF Pending, Sized
  <2>2. Bounded(transmissions[d], errorMap[address[d]], Cardinality(OnTheirWay(d)),
                NearOnItsWay(d), 0, Fresh(d), On)
    BY <1>1, <2>1 DEF DeviceBounded
  <2>3. Bounded(transmissions[d], errorMap[address[d]], Cardinality(OnTheirWay(d)),
                NearOnItsWay(d), 0, Fresh(d), 1)
    BY <2>1, <2>2, StartBounded
  <2> QED BY <1>2, <1>3, <1>5, <2>1, <2>3 DEF DeviceBounded
<1> QED BY <1>4, <1>5

(* Every step within a simulation keeps the statistics bounded. *)
LEMMA MeanwhileStatistics ==
  ASSUME AddressesSuffice, SimulationInv, Meanwhile
  PROVE  StatisticsInv'
<1>1. UNCHANGED <<phase, address, place, program>>
  BY MeanwhileKeeps DEF setup
<1>2. CASE \/ \E d \in Devices : Sense(d) \/ DelayedSend(d) \/ NetworkAnswers(d)
           \/ ScheduleStoring
  <2>1. UNCHANGED <<transmissions, copies, netRx, latest, sent, now, errorMap>>
    BY <1>2
    DEF Sense, DelayedSend, NetworkAnswers, ScheduleStoring, Answer, SendAck, vars,
        networkVars, deviceVars, clock, traffic
  <2>2. On' = On
    BY <1>1, <2>1 DEF On, Measuring
  <2> QED BY <1>1, <2>1, <2>2, QuietStatistics
<1>3. CASE TimePasses
  <2>1. /\ UNCHANGED <<transmissions, copies, netRx, latest, sent, errorMap>>
        /\ netRx = <<>> /\ now' = now + 1
    BY <1>3 DEF TimePasses, vars, networkVars, deviceVars, traffic
  <2>2. Measuring => Measuring'
    <3>1. program \in LoRa => program.start \in Int
      BY SimulationAssumption DEF LoRa
    <3>2. now \in Nat
      BY DEF SimulationInv, LinesInv, ClockInv
    <3> QED BY <1>1, <2>1, <3>1, <3>2 DEF Measuring
  <2>3. On' = On \/ On' = 1
    BY <2>2 DEF On
  <2> QED BY <1>1, <2>1, <2>3, QuietStatistics
<1> QED BY <1>2, <1>3, DeviceTransmitsStatistics, NetworkReceivesStatistics,
           NetworkReportsStatistics
        DEF Meanwhile

(* The inductive invariant: the maps and the file are of the devices of the *)
(* simulation, the network works in it as in LoRaNetwork, and what has been *)
(* counted is bounded together with what is on its way.                    *)
THEOREM SimulationInvariance ==
  ASSUME AddressesSuffice
  PROVE  SpecSimulation => []SimulationInv
<1>1. InitSimulation => SimulationInv
  <2> SUFFICES ASSUME InitSimulation PROVE SimulationInv
    OBVIOUS
  <2>1. LinesInv
    BY InitiallyLines
  <2>2. NetworkInv
    BY Initially
    DEF InitSimulation, NetworkInv, BetweenInv, TransmissionsInv, CopyInv, Init
  <2>3. StatisticsInv
    BY DEF InitSimulation, StatisticsInv, Running
  <2> QED BY <2>1, <2>2, <2>3 DEF SimulationInv
<1>2. ASSUME SimulationInv, [NextSimulation]_simulationVars PROVE SimulationInv'
  <2> USE <1>2 DEF SimulationInv
  <2>1. LinesInv'
    BY LinesStep
  <2>2. CASE UNCHANGED simulationVars
    <3>1. /\ UNCHANGED vars
          /\ UNCHANGED <<phase, address, place, program, errorMap, transmissions, now>>
      BY <2>2 DEF simulationVars, setup, clock, traffic
    <3>2. UNCHANGED <<copies, netRx, latest, sent>> /\ On' = On
      BY <3>1 DEF vars, networkVars, deviceVars, On, Measuring
    <3>3. NetworkInv'
      BY <3>1, UnchangedNetwork
      DEF NetworkInv, BetweenInv, TransmissionsInv, CopyInv, Init, vars, networkVars,
          deviceVars
    <3> QED BY <2>1, <3>1, <3>2, <3>3, QuietStatistics
  <2>3. CASE Meanwhile
    BY <2>1, <2>3, MeanwhileNetwork, MeanwhileStatistics
  <2>4. CASE SetUp
    BY <2>1, <2>4, SetUpNetwork, SetUpStatistics
  <2>5. CASE TearDown
    <3>1. StatisticsInv'
      BY <2>5, TearDownKeeps DEF StatisticsInv, Running
    <3> QED BY <2>1, <2>5, <3>1, TearDownNetwork
  <2> QED BY <1>2, <2>2, <2>3, <2>4, <2>5
          DEF NextSimulation, Meanwhile, SetUp, TearDown
<1> QED BY <1>1, <1>2, PTL DEF SpecSimulation

(* Transmitted, Received and ReceivedUnique of lora.cc, lora_battery.cc and *)
(* rs-example.cc: the counts of a device bound each other as their names    *)
(* say.                                                                    *)
THEOREM CountsBoundEachOther ==
  ASSUME AddressesSuffice
  PROVE  SpecSimulation => []StatisticsSound
<1>1. SimulationInv => StatisticsSound
  <2> SUFFICES ASSUME SimulationInv, Running, NEW d \in Devices
               PROVE  LET count     == errorMap[address[d]]
                          straddles ==
                            IF transmissions[d] > count.transmitted THEN 1 ELSE 0
                          most      == count.transmitted + straddles
                      IN  /\ count.unique <= most
                          /\ count.closest <= most
                          /\ count.received <= Cardinality(Gateways) * most
                          /\ {count.unique, count.closest} \subseteq 0..count.received
    BY DEF StatisticsSound, Running
  <2> DEFINE s == errorMap[address[d]]
             most == Most(transmissions[d], s)
             w == Cardinality(OnTheirWay(d))
  <2>1. /\ Bounded(transmissions[d], s, w, NearOnItsWay(d), Pending(d), Fresh(d), On)
    BY DEF SimulationInv, StatisticsInv, DeviceBounded
  <2>2. /\ s.transmitted \in Nat /\ s.received \in Nat /\ s.unique \in Nat
        /\ s.closest \in Nat /\ transmissions[d] \in Nat /\ G \in Nat
    BY <2>1, GatewayNumber DEF Bounded, Counts
  <2>3. most \in Nat /\ G * most \in Nat
    <3>1. most \in Nat
      BY <2>2 DEF Most
    <3> HIDE DEF most
    <3> QED BY <2>2, <3>1
  <2>4. /\ w \in Nat /\ NearOnItsWay(d) \in 0..1 /\ Pending(d) \in 0..1
        /\ Fresh(d) \in 0..1 /\ On \in 0..1
    BY AlwaysSized, GatewayNumber DEF Sized
  <2> HIDE DEF w
  <2>5. s.unique <= most /\ s.closest <= most /\ s.received <= G * most
    <3>1. /\ s.received + w <= G * most /\ s.closest + NearOnItsWay(d) <= most
          /\ s.unique + Pending(d) + Fresh(d) <= most
      BY <2>1 DEF Bounded
    <3> HIDE DEF most
    <3> QED BY <2>2, <2>3, <2>4, <3>1
  <2>6. s.closest <= s.received
    BY <2>1 DEF Bounded
  <2>7. s.unique <= s.received
    <3>1. CASE On = 1
      <4>1. s.unique + Pending(d) <= s.received
        BY <2>1, <3>1 DEF Bounded
      <4> QED BY <2>2, <2>4, <4>1
    <3>2. CASE On = 0
      BY <2>1, <3>2 DEF Bounded, NoCounts
    <3> QED BY <2>4, <3>1, <3>2
  <2> QED BY <2>2, <2>5, <2>6, <2>7 DEF Most, G
<1> QED BY <1>1, SimulationInvariance, PTL

=============================================================================
