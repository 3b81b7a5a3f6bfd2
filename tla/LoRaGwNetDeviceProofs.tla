----------------------- MODULE LoRaGwNetDeviceProofs ------------------------
(***************************************************************************)
(* Proofs about LoRaGwNetDevice, for any devices and any number of         *)
(* uplinks: the properties the gateway run checks, and the safety half of  *)
(* AcceptedIsSent.                                                         *)
(***************************************************************************)
EXTENDS LoRaGwNetDevice, TLAPS

TypeOK ==
  /\ pending \in [Devices -> Packet \cup {NoPacket}]
  /\ checks \in [Devices -> {0, 1}]
  /\ starts \subseteq Downlink
  /\ onAir \subseteq Downlink
  /\ transmission \in BOOLEAN
  /\ fast \in BOOLEAN
  /\ uplinks \in [Devices -> 0..MaxUplinks]
  /\ due \in [Devices -> SUBSET (1..MaxUplinks)]
  /\ others \in [Devices -> SUBSET (1..MaxUplinks)]
  /\ accepted \in [Devices -> SUBSET (1..MaxUplinks)]
  /\ answered \in [Devices -> SUBSET (1..MaxUplinks)]

-----------------------------------------------------------------------------
(* The inductive invariant.  A pending packet has its trailer until the     *)
(* check that strips it, and no check follows while what it has sent is    *)
(* under way, however late the network stores or replaces a packet.        *)
TrailerInv ==
  /\ StrippedOnce
  /\ \A d \in Devices :
       pending[d] # NoPacket =>
         /\ pending[d].trailer \in {0, 1}
         /\ pending[d].trailer = 0 => checks[d] = 0 /\ DownlinksTo(d) # {}

(* With fast links everything that is known of a device, here, on air or at *)
(* another gateway, is about its last uplink.                              *)
FastDevice(d) ==
  /\ due[d] \subseteq {uplinks[d]}
  /\ checks[d] = 0 => due[d] = {}
  /\ others[d] \subseteq {uplinks[d]}
  /\ \A f \in DownlinksTo(d) : f.pkt.up = uplinks[d]
  /\ pending[d] # NoPacket =>
       /\ pending[d].up = uplinks[d]
       /\ uplinks[d] \notin due[d] \cup others[d]
       /\ checks[d] = 1 \/ DownlinksTo(d) # {}
  /\ due[d] # {} => others[d] = {}

FastInv == fast => \A d \in Devices : FastDevice(d)

(* A device is not heard again while a downlink to it is under way. *)
ChecksInv == \A d \in Devices : checks[d] = 1 => DownlinksTo(d) = {}

(* What is on air counts as answered. *)
AnsweredInv == \A f \in onAir : f.pkt.up \in answered[f.dev]

(* The answer is still on its way to the air: it is pending with its check  *)
(* to come, or its transmission is scheduled.                              *)
OnItsWay(d, n) ==
  \/ checks[d] = 1 /\ pending[d] # NoPacket /\ pending[d].up = n
  \/ \E f \in starts : f.dev = d /\ f.pkt.up = n

(* With fast links an answer SendFrom has accepted is on its way until it   *)
(* is on air: nothing that happens at the gateway loses it.  This is the   *)
(* safety half of AcceptedIsSent.                                          *)
AcceptedIsKept ==
  fast => \A d \in Devices, n \in 1..MaxUplinks :
            n \in accepted[d] => n \in answered[d] \/ OnItsWay(d, n)

IInv ==
  TypeOK /\ TrailerInv /\ ChecksInv /\ FastInv /\ AnsweredInv /\ AcceptedIsKept

-----------------------------------------------------------------------------
(* The gateway starts with nothing pending, scheduled or on air. *)
LEMMA Initially == Init => IInv
<1> SUFFICES ASSUME Init PROVE IInv
  OBVIOUS
<1>1. TypeOK
  <2>1. fast \in BOOLEAN
    BY GatewayBounds, Zenon DEF Init
  <2>2. 0 \in 0..MaxUplinks
    BY GatewayBounds
  <2> QED BY <2>1, <2>2 DEF Init, TypeOK
<1>2. TrailerInv /\ ChecksInv
  BY DEF Init, TrailerInv, StrippedOnce, ChecksInv, DownlinksTo
<1>3. FastInv
  BY DEF Init, FastInv, FastDevice, DownlinksTo
<1>4. AnsweredInv /\ AcceptedIsKept
  BY DEF Init, AnsweredInv, AcceptedIsKept
<1> QED BY <1>1, <1>2, <1>3, <1>4 DEF IInv

(* A device that is heard has nothing under way, so a new check finds what  *)
(* answers the new uplink.                                                 *)
LEMMA NotifyReceptionEndOkStep ==
  ASSUME IInv, NEW d \in Devices, NotifyReceptionEndOk(d)
  PROVE  IInv'
<1> USE DEF IInv, TypeOK, NotifyReceptionEndOk, Quiet
<1>1. TypeOK'
  BY GatewayBounds
<1>2. (\A e \in Devices : DownlinksTo(e)' = DownlinksTo(e)) /\ DownlinksTo(d) = {}
  BY DEF DownlinksTo
<1>3. TrailerInv'
  BY <1>2 DEF TrailerInv, StrippedOnce
<1>4. ChecksInv'
  BY <1>2 DEF ChecksInv
<1>5. FastInv'
  <2> SUFFICES ASSUME fast, NEW e \in Devices PROVE FastDevice(e)'
    BY DEF FastInv
  <2>1. FastDevice(e)
    BY DEF FastInv
  <2>2. CASE e = d
    BY <1>2, <2>1, <2>2 DEF FastDevice
  <2>3. CASE e # d
    BY <1>2, <2>1, <2>3 DEF FastDevice
  <2> QED BY <2>2, <2>3
<1>6. AnsweredInv'
  BY DEF AnsweredInv
<1>7. AcceptedIsKept'
  BY DEF AcceptedIsKept, OnItsWay
<1> QED BY <1>1, <1>3, <1>4, <1>5, <1>6, <1>7

(* What another gateway sends answers an uplink that nothing here does. *)
LEMMA OverhearStep ==
  ASSUME IInv, NEW d \in Devices, Overhear(d)
  PROVE  IInv'
<1> USE DEF IInv, TypeOK, Overhear, RemoveFromPending
<1>1. TypeOK'
  OBVIOUS
<1>2. \A e \in Devices : DownlinksTo(e)' = DownlinksTo(e)
  BY DEF DownlinksTo
<1>3. TrailerInv' /\ ChecksInv'
  BY <1>2 DEF TrailerInv, StrippedOnce, ChecksInv
<1>4. FastInv'
  BY <1>2 DEF FastInv, FastDevice
<1>5. AnsweredInv'
  BY DEF AnsweredInv
<1>6. AcceptedIsKept'
  BY DEF AcceptedIsKept, OnItsWay, FastInv, FastDevice
<1> QED BY <1>1, <1>3, <1>4, <1>5, <1>6

(* Nothing changes here. *)
LEMMA MissStep ==
  ASSUME IInv, NEW d \in Devices, Miss(d)
  PROVE  IInv'
<1> USE DEF IInv, TypeOK, Miss, gwVars
<1>1. TypeOK'
  OBVIOUS
<1>2. \A e \in Devices : DownlinksTo(e)' = DownlinksTo(e)
  BY DEF DownlinksTo
<1>3. TrailerInv' /\ ChecksInv' /\ AnsweredInv'
  BY <1>2 DEF TrailerInv, StrippedOnce, ChecksInv, AnsweredInv
<1>4. FastInv'
  BY <1>2 DEF FastInv, FastDevice
<1>5. AcceptedIsKept'
  BY DEF AcceptedIsKept, OnItsWay
<1> QED BY <1>1, <1>3, <1>4, <1>5

(* An accepted answer is stored with its trailer on; a rejected one changes *)
(* nothing.  With fast links there is never an older packet to replace or  *)
(* to withdraw.                                                            *)
LEMMA SendFromStep ==
  ASSUME IInv, NEW d \in Devices, NEW ack \in BOOLEAN, NEW commands \in BOOLEAN,
         SendFrom(d, ack, commands)
  PROVE  IInv'
<1> USE DEF IInv, TypeOK
<1>1. PICK n \in due[d] :
        /\ NextDue(d, n)
        /\ due' = [due EXCEPT ![d] = @ \ {n}]
        /\ \/ Accept(d, n, ack, commands)
           \/ Withdraw(d, ack)
           \/ Reject(d, ack, commands)
  BY DEF SendFrom
<1>2. UNCHANGED <<checks, starts, onAir, transmission, fast, uplinks, others, answered>>
  BY DEF SendFrom
<1>3. n \in 1..MaxUplinks /\ due' \in [Devices -> SUBSET (1..MaxUplinks)]
  BY <1>1
<1>4. \A e \in Devices : DownlinksTo(e)' = DownlinksTo(e)
  BY <1>2 DEF DownlinksTo
<1>5. StrippedOnce' /\ ChecksInv' /\ AnsweredInv'
  BY <1>2, <1>4 DEF TrailerInv, StrippedOnce, ChecksInv, AnsweredInv
<1>6. \A e \in Devices : FastDevice(e) =>
        /\ due'[e] \subseteq {uplinks'[e]}
        /\ checks'[e] = 0 => due'[e] = {}
        /\ others'[e] \subseteq {uplinks'[e]}
        /\ \A f \in DownlinksTo(e)' : f.pkt.up = uplinks'[e]
        /\ due'[e] # {} => others'[e] = {}
  BY <1>1, <1>2, <1>4 DEF FastDevice
<1>7. CASE Accept(d, n, ack, commands)
  <2> DEFINE p == [up |-> n, ack |-> ack, commands |-> commands, trailer |-> 1]
  <2>1. p \in Packet /\ p.up = n /\ p.trailer = 1
    BY <1>3 DEF Packet
  <2>2. /\ pending' = [pending EXCEPT ![d] = p]
        /\ accepted' = [accepted EXCEPT ![d] = @ \cup {n}]
    BY <1>7 DEF Accept, Store
  <2> HIDE DEF p
  <2>3. TypeOK'
    BY <1>2, <1>3, <2>1, <2>2
  <2>4. TrailerInv'
    BY <1>2, <1>4, <1>5, <2>1, <2>2 DEF TrailerInv
  <2>5. fast => /\ FastDevice(d)
                /\ n = uplinks[d] /\ pending[d] = NoPacket /\ checks[d] = 1
    BY <1>1 DEF FastInv, FastDevice
  <2>6. FastInv'
    <3> SUFFICES ASSUME fast, NEW e \in Devices PROVE FastDevice(e)'
      BY <1>2 DEF FastInv
    <3>1. FastDevice(e)
      BY DEF FastInv
    <3>2. CASE e = d
      BY <1>1, <1>2, <1>4, <1>6, <2>1, <2>2, <2>5, <3>1, <3>2 DEF FastDevice
    <3>3. CASE e # d
      BY <1>1, <1>2, <1>4, <1>6, <2>2, <3>1, <3>3 DEF FastDevice
    <3> QED BY <3>2, <3>3
  <2>7. AcceptedIsKept'
    <3> SUFFICES ASSUME fast, NEW e \in Devices, NEW m \in 1..MaxUplinks,
                        m \in accepted'[e]
                 PROVE  m \in answered'[e] \/ OnItsWay(e, m)'
      BY <1>2 DEF AcceptedIsKept
    <3>1. CASE e = d /\ m = n
      BY <1>2, <2>1, <2>2, <2>5, <3>1, NoPacketAssumption DEF OnItsWay
    <3>2. CASE ~(e = d /\ m = n)
      BY <1>2, <2>2, <2>5, <3>2 DEF AcceptedIsKept, OnItsWay
    <3> QED BY <3>1, <3>2
  <2> QED BY <1>5, <2>3, <2>4, <2>6, <2>7
<1>8. CASE Withdraw(d, ack)
  <2>1. /\ pending[d] # NoPacket
        /\ pending' = [pending EXCEPT ![d] = NoPacket]
        /\ accepted' = accepted
    BY <1>8 DEF Withdraw, RemoveFromPending
  <2>2. ~fast
    BY <1>1, <2>1 DEF FastInv, FastDevice
  <2>3. TypeOK' /\ TrailerInv'
    BY <1>2, <1>3, <1>4, <1>5, <2>1 DEF TrailerInv
  <2> QED BY <1>2, <1>5, <2>2, <2>3 DEF FastInv, AcceptedIsKept
<1>9. CASE Reject(d, ack, commands)
  <2>1. pending' = pending /\ accepted' = accepted
    BY <1>9 DEF Reject
  <2>2. TypeOK' /\ TrailerInv'
    BY <1>2, <1>3, <1>4, <1>5, <2>1 DEF TrailerInv
  <2>3. FastInv'
    BY <1>1, <1>2, <1>4, <1>6, <2>1 DEF FastInv, FastDevice
  <2>4. AcceptedIsKept'
    BY <1>2, <2>1 DEF AcceptedIsKept, OnItsWay
  <2> QED BY <1>5, <2>2, <2>3, <2>4
<1> QED BY <1>1, <1>7, <1>8, <1>9

(* An uplink the network passes over has no answer here, so the other       *)
(* gateway's cannot remove one.                                            *)
LEMMA PassOverStep ==
  ASSUME IInv, NEW d \in Devices, PassOver(d)
  PROVE  IInv'
<1> USE DEF IInv, TypeOK, gwVars
<1>1. PICK n \in due[d] :
        /\ due' = [due EXCEPT ![d] = @ \ {n}]
        /\ others' = [others EXCEPT ![d] = @ \cup {n}] \/ others' = others
  BY DEF PassOver
<1>2. UNCHANGED <<gwVars, fast, uplinks, accepted, answered>>
  BY DEF PassOver
<1>3. TypeOK'
  BY <1>1, <1>2
<1>4. \A e \in Devices : DownlinksTo(e)' = DownlinksTo(e)
  BY <1>2 DEF DownlinksTo
<1>5. TrailerInv' /\ ChecksInv' /\ AnsweredInv'
  BY <1>2, <1>4 DEF TrailerInv, StrippedOnce, ChecksInv, AnsweredInv
<1>6. FastInv'
  <2> SUFFICES ASSUME fast, NEW e \in Devices PROVE FastDevice(e)'
    BY <1>2 DEF FastInv
  <2>1. FastDevice(e)
    BY DEF FastInv
  <2>2. CASE e = d
    BY <1>1, <1>2, <1>4, <2>1, <2>2 DEF FastDevice
  <2>3. CASE e # d
    BY <1>1, <1>2, <1>4, <2>1, <2>3 DEF FastDevice
  <2> QED BY <2>2, <2>3
<1>7. AcceptedIsKept'
  BY <1>2 DEF AcceptedIsKept, OnItsWay
<1> QED BY <1>3, <1>5, <1>6, <1>7

(* The check strips the trailer of a packet that still has it, and what it  *)
(* schedules is then the only downlink to the device.                      *)
LEMMA CheckAckSendStep ==
  ASSUME IInv, NEW d \in Devices, CheckAckSend(d)
  PROVE  IInv'
<1> USE DEF IInv, TypeOK
<1>1. /\ checks[d] = 1
      /\ checks' = [checks EXCEPT ![d] = 0]
      /\ fast => due[d] = {}
      /\ UNCHANGED <<onAir, transmission, netVars, accepted, answered>>
  <2>1. checks[d] = 1
    BY DEF CheckAckSend
  <2>2. checks[d] - 1 = 0
    BY <2>1
  <2>3. checks' = [checks EXCEPT ![d] = checks[d] - 1]
    BY DEF CheckAckSend
  <2> QED BY <2>1, <2>2, <2>3, Zenon DEF CheckAckSend
<1>2. DownlinksTo(d) = {}
  BY <1>1 DEF ChecksInv
<1>3. CASE pending[d] = NoPacket
  <2>1. UNCHANGED <<pending, starts>>
    BY <1>3 DEF CheckAckSend
  <2>2. TypeOK'
    BY <1>1, <2>1 DEF netVars
  <2>3. \A e \in Devices : DownlinksTo(e)' = DownlinksTo(e)
    BY <1>1, <2>1 DEF DownlinksTo
  <2>4. TrailerInv' /\ ChecksInv' /\ AnsweredInv'
    BY <1>1, <1>3, <2>1, <2>3
    DEF TrailerInv, StrippedOnce, ChecksInv, AnsweredInv
  <2>5. FastInv'
    BY <1>1, <1>3, <2>1, <2>3 DEF FastInv, FastDevice, netVars
  <2>6. AcceptedIsKept'
    BY <1>1, <1>3, <2>1 DEF AcceptedIsKept, OnItsWay, netVars
  <2> QED BY <2>2, <2>4, <2>5, <2>6
<1>4. CASE pending[d] # NoPacket
  <2> DEFINE p == [pending[d] EXCEPT !.trailer = 0]
             s == [dev |-> d, pkt |-> p]
  <2>1. pending[d] \in Packet /\ pending[d].trailer = 1
    BY <1>1, <1>4 DEF TrailerInv
  <2>2. p \in Packet /\ p.trailer = 0 /\ p.up = pending[d].up
    BY <2>1 DEF Packet
  <2>3. pending' = [pending EXCEPT ![d] = p]
    BY <1>4, <2>1 DEF CheckAckSend
  <2>4. starts' = starts \cup {s}
    BY <1>4, <2>3 DEF CheckAckSend
  <2>5. s \in Downlink /\ s.dev = d /\ s.pkt = p
    BY <2>2 DEF Downlink
  <2> HIDE DEF p, s
  <2>6. TypeOK'
    BY <1>1, <2>2, <2>3, <2>4, <2>5 DEF netVars
  <2>7. /\ DownlinksTo(d)' = {s}
        /\ \A e \in Devices \ {d} : DownlinksTo(e)' = DownlinksTo(e)
    BY <1>1, <1>2, <2>4, <2>5 DEF DownlinksTo
  <2>8. TrailerInv'
    <3>1. StrippedOnce'
      BY <1>1, <2>2, <2>4, <2>5 DEF TrailerInv, StrippedOnce
    <3> QED BY <1>1, <2>2, <2>3, <2>7, <3>1 DEF TrailerInv
  <2>9. ChecksInv' /\ AnsweredInv'
    BY <1>1, <2>7 DEF ChecksInv, AnsweredInv
  <2>10. FastInv'
    <3> SUFFICES ASSUME fast, NEW e \in Devices PROVE FastDevice(e)'
      BY <1>1 DEF FastInv, netVars
    <3>1. FastDevice(e)
      BY DEF FastInv
    <3>2. CASE e = d
      BY <1>1, <1>4, <2>2, <2>3, <2>5, <2>7, <3>1, <3>2 DEF FastDevice, netVars
    <3>3. CASE e # d
      BY <1>1, <2>3, <2>7, <3>1, <3>3 DEF FastDevice, netVars
    <3> QED BY <3>2, <3>3
  <2>11. AcceptedIsKept'
    BY <1>1, <2>2, <2>3, <2>4, <2>5 DEF AcceptedIsKept, OnItsWay, netVars
  <2> QED BY <2>6, <2>8, <2>9, <2>10, <2>11
<1> QED BY <1>3, <1>4

(* A transmission moves from the schedule to the air. *)
LEMMA StartTransmissionStep ==
  ASSUME IInv, NEW s \in starts, StartTransmission(s)
  PROVE  IInv'
<1> USE DEF IInv, TypeOK, StartTransmission
<1>1. s \in Downlink /\ s.dev \in Devices /\ s.pkt.up \in 1..MaxUplinks
  BY DEF Downlink, Packet
<1>2. TypeOK'
  BY <1>1 DEF netVars
<1>3. starts' \cup onAir' = starts \cup onAir
  OBVIOUS
<1>4. \A e \in Devices : DownlinksTo(e)' = DownlinksTo(e)
  BY <1>3 DEF DownlinksTo
<1>5. TrailerInv' /\ ChecksInv'
  BY <1>3, <1>4 DEF TrailerInv, StrippedOnce, ChecksInv
<1>6. FastInv'
  BY <1>4 DEF FastInv, FastDevice, netVars
<1>7. \A e \in Devices : answered[e] \subseteq answered'[e]
  BY <1>1
<1>8. AnsweredInv'
  BY <1>1 DEF AnsweredInv, Downlink
<1>9. AcceptedIsKept'
  BY <1>1, <1>7 DEF AcceptedIsKept, OnItsWay, netVars
<1> QED BY <1>2, <1>5, <1>6, <1>8, <1>9

(* At the end of a transmission no check of the device is scheduled: what   *)
(* is removed is what has been sent.                                       *)
LEMMA NotifyTransmissionEndStep ==
  ASSUME IInv, NEW f \in onAir, NotifyTransmissionEnd(f)
  PROVE  IInv'
<1> USE DEF IInv, TypeOK, NotifyTransmissionEnd, RemoveFromPending
<1>1. f.dev \in Devices /\ f \in DownlinksTo(f.dev)
  BY DEF Downlink, DownlinksTo
<1>2. checks[f.dev] = 0
  BY <1>1 DEF ChecksInv
<1>3. TypeOK'
  BY <1>1 DEF netVars
<1>4. /\ \A e \in Devices : DownlinksTo(e)' \subseteq DownlinksTo(e)
      /\ \A e \in Devices \ {f.dev} : DownlinksTo(e)' = DownlinksTo(e)
  BY DEF DownlinksTo
<1>5. TrailerInv' /\ ChecksInv' /\ AnsweredInv'
  BY <1>1, <1>4 DEF TrailerInv, StrippedOnce, ChecksInv, AnsweredInv
<1>6. FastInv'
  BY <1>1, <1>4 DEF FastInv, FastDevice, netVars
<1>7. AcceptedIsKept'
  BY <1>1, <1>2 DEF AcceptedIsKept, OnItsWay, netVars
<1> QED BY <1>3, <1>5, <1>6, <1>7

-----------------------------------------------------------------------------
(* The inductive invariant: what is pending, checked, scheduled and on air  *)
(* fits together in every state of the handlers of lora-gw-net-device.cc.   *)
THEOREM Invariance == Spec => []IInv
<1>1. ASSUME IInv, [Next]_vars PROVE IInv'
  <2>1. CASE UNCHANGED vars
    BY <1>1, <2>1
    DEF vars, gwVars, netVars, IInv, TypeOK, TrailerInv, StrippedOnce, ChecksInv,
        FastInv, FastDevice, AnsweredInv, AcceptedIsKept, OnItsWay, DownlinksTo
  <2>2. CASE Next
    BY <1>1, <2>2, NotifyReceptionEndOkStep, OverhearStep, MissStep, SendFromStep,
       PassOverStep, CheckAckSendStep, StartTransmissionStep,
       NotifyTransmissionEndStep
    DEF Next
  <2> QED BY <1>1, <2>1, <2>2
<1> QED BY <1>1, Initially, PTL DEF Spec

(* Every field keeps its type; a device has at most one check scheduled     *)
(* (m_pendingPackets of lora-gw-net-device.cc).                             *)
THEOREM TypeCorrectness == Spec => []TypeOK
BY Invariance, PTL DEF IInv

(* No frame on its way to a device has lost more than its trailer, however  *)
(* late the answers of the network reach the gateway and replace one        *)
(* another: CheckAckSend strips a packet once (lora-gw-net-device.cc).      *)
THEOREM FramesAreWhole == Spec => []StrippedOnce
BY Invariance, PTL DEF IInv, TrailerInv

(* With fast links what CheckAckSend sends to a device answers its last     *)
(* uplink.                                                                  *)
THEOREM LastUplinkAnswered == Spec => []AnswersLastUplink
<1>1. IInv => AnswersLastUplink
  BY DEF IInv, TypeOK, AnswersLastUplink, FastInv, FastDevice, DownlinksTo, Downlink
<1> QED BY <1>1, Invariance, PTL

(* With fast links a silent device has nothing in the pending list that     *)
(* SendFrom could take for the answer of its next uplink.                   *)
THEOREM NothingIsLeftBehind == Spec => []NothingLeftBehind
<1>1. IInv => NothingLeftBehind
  BY DEF IInv, NothingLeftBehind, FastInv, FastDevice, Quiet
<1> QED BY <1>1, Invariance, PTL

(* With fast links an answer SendFrom has accepted stays pending with its   *)
(* check to come, or scheduled, until it is on air.                         *)
THEOREM AcceptedIsNeverLost == Spec => []AcceptedIsKept
BY Invariance, PTL DEF IInv

=============================================================================
