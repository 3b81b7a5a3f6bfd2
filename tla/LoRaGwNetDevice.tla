--------------------------- MODULE LoRaGwNetDevice ---------------------------
(***************************************************************************)
(* The MAC of one gateway (model/lora-gw-net-device.cc) with the           *)
(* transmitting side of its radio (model/lora-gw-phy.cc).                  *)
(*                                                                         *)
(* An uplink is passed to the network, and a second later CheckAckSend     *)
(* looks whether the network has answered: if a packet is pending for the  *)
(* device, its transmission is scheduled for the device's second window.   *)
(* The packet stays pending until that transmission is over, or until      *)
(* another gateway is heard answering the device.                          *)
(*                                                                         *)
(* Time is abstracted to order.  When links are fast, what the network     *)
(* has to say about an uplink arrives before its check; when they are      *)
(* slow, whenever.  Either way a device is silent until its windows are    *)
(* over and at least a second more, more than the longest downlink takes.  *)
(***************************************************************************)
EXTENDS Integers, FiniteSets

CONSTANTS
  Devices,
  LinkSpeeds,   \* whether links are fast: a set of BOOLEAN to choose from
  MaxUplinks,   \* bound: uplinks heard of a device
  NoPacket      \* no pending packet for a device

(* A downlink: the uplink it answers, the ACK bit, whether MAC commands are *)
(* in its header, and the trailers it ends in: 1 as the network sent it, 0  *)
(* for the frame itself, less if bytes of the frame have been cut off.      *)
Packet == [up : 1..MaxUplinks, ack : BOOLEAN, commands : BOOLEAN, trailer : Int]

ASSUME GatewayBounds == MaxUplinks \in Nat \ {0} /\ LinkSpeeds \subseteq BOOLEAN
ASSUME NoPacketAssumption == NoPacket \notin Packet

VARIABLES
  pending,       \* m_pendingPackets: SendFrom keeps at most one per device
  checks,        \* scheduled CheckAckSend events of each device
  starts,        \* scheduled StartTransmission events
  onAir,         \* downlinks on air, each with its EndTx scheduled
  transmission,  \* m_transmission of the radio
  fast,          \* whether links are fast
  uplinks,       \* uplinks heard of each device
  due,           \* uplinks the network has not dealt with
  others,        \* uplinks answered by another gateway, on air or still to be
  accepted,      \* history: uplinks whose answer is or was pending here
  answered       \* history: uplinks whose answer has been put on air here

gwVars == <<pending, checks, starts, onAir, transmission>>
netVars == <<fast, uplinks, due, others>>
vars == <<gwVars, netVars, accepted, answered>>

Init ==
  /\ pending = [d \in Devices |-> NoPacket]
  /\ checks = [d \in Devices |-> 0]
  /\ starts = {}
  /\ onAir = {}
  /\ transmission = FALSE
  /\ fast \in LinkSpeeds
  /\ uplinks = [d \in Devices |-> 0]
  /\ due = [d \in Devices |-> {}]
  /\ others = [d \in Devices |-> {}]
  /\ accepted = [d \in Devices |-> {}]
  /\ answered = [d \in Devices |-> {}]

-----------------------------------------------------------------------------
(* The radio *)

DownlinksTo(d) == {f \in starts \cup onAir : f.dev = d}

Quiet(d) == checks[d] = 0 /\ DownlinksTo(d) = {} /\ (fast => others[d] = {})

(* Mutant of NotifyReceptionEndOk: a check for each of the two windows. *)
NotifyReceptionEndOkTwoChecks(d) ==
  /\ Quiet(d)
  /\ uplinks[d] < MaxUplinks
  /\ uplinks' = [uplinks EXCEPT ![d] = @ + 1]
  /\ due' = [due EXCEPT ![d] = @ \cup {uplinks'[d]}]
  /\ checks' = [checks EXCEPT ![d] = @ + 2]
  /\ UNCHANGED <<pending, starts, onAir, transmission, fast, others, accepted,
                 answered>>

(* NotifyReceptionEndOk of an uplink: it goes up to the network, and a      *)
(* check is scheduled.                                                     *)
NotifyReceptionEndOk(d) ==
  /\ Quiet(d)
  /\ uplinks[d] < MaxUplinks
  /\ uplinks' = [uplinks EXCEPT ![d] = @ + 1]
  /\ due' = [due EXCEPT ![d] = @ \cup {uplinks'[d]}]
  /\ checks' = [checks EXCEPT ![d] = @ + 1]
  /\ UNCHANGED <<pending, starts, onAir, transmission, fast, others, accepted,
                 answered>>

(* Mutant of RemoveFromPending: only a packet that has not been scheduled. *)
RemoveUnscheduled(d) ==
  pending' = [pending EXCEPT ![d] =
    IF @ # NoPacket /\ @.trailer = 1 THEN NoPacket ELSE @]

RemoveFromPending(d) == pending' = [pending EXCEPT ![d] = NoPacket]

(* NotifyReceptionEndOk of what another gateway sends to a device. *)
Overhear(d) ==
  /\ \E n \in others[d] : others' = [others EXCEPT ![d] = @ \ {n}]
  /\ RemoveFromPending(d)
  /\ UNCHANGED <<checks, starts, onAir, transmission, fast, uplinks, due, accepted,
                 answered>>

(* It is out of reach, or NotifyReceptionEndError. *)
Miss(d) ==
  /\ \E n \in others[d] : others' = [others EXCEPT ![d] = @ \ {n}]
  /\ UNCHANGED <<gwVars, fast, uplinks, due, accepted, answered>>

(* Mutant of NotifyTransmissionEnd: it acts on acks only. *)
NotifyTransmissionEndOfAcks(f) ==
  /\ f \in onAir
  /\ onAir' = onAir \ {f}
  /\ transmission' = FALSE
  /\ IF f.pkt.ack THEN RemoveFromPending(f.dev) ELSE UNCHANGED pending
  /\ UNCHANGED <<checks, starts, netVars, accepted, answered>>

(* The radio's EndTx calls NotifyTransmissionEnd. *)
NotifyTransmissionEnd(f) ==
  /\ f \in onAir
  /\ onAir' = onAir \ {f}
  /\ transmission' = FALSE
  /\ RemoveFromPending(f.dev)
  /\ UNCHANGED <<checks, starts, netVars, accepted, answered>>

-----------------------------------------------------------------------------
(* The network, which answers the uplinks of a device in turn *)

NextDue(d, n) == n \in due[d] /\ \A m \in due[d] : n <= m

(* GetSize of a stored packet against GetSerializedSize of a new header. *)
SameSize(stored, commands) == stored.trailer = 0 /\ stored.commands = commands

Store(d, n, ack, commands) ==
  /\ pending' = [pending EXCEPT ![d] =
       [up |-> n, ack |-> ack, commands |-> commands, trailer |-> 1]]
  /\ accepted' = [accepted EXCEPT ![d] = @ \cup {n}]

(* Nothing is pending for the device, or a packet that has lost its trailer *)
(* is replaced.                                                            *)
Accept(d, n, ack, commands) ==
  /\ \/ pending[d] = NoPacket
     \/ pending[d] # NoPacket /\ ack /\ SameSize(pending[d], commands)
  /\ Store(d, n, ack, commands)

(* Without the ACK bit it stands for: there is no need to transmit. *)
Withdraw(d, ack) ==
  /\ pending[d] # NoPacket
  /\ ~ack
  /\ RemoveFromPending(d)
  /\ UNCHANGED accepted

Reject(d, ack, commands) ==
  /\ pending[d] # NoPacket
  /\ ack
  /\ ~SameSize(pending[d], commands)
  /\ UNCHANGED <<pending, accepted>>

(* SendFrom *)
SendFrom(d, ack, commands) ==
  /\ \E n \in due[d] :
       /\ NextDue(d, n)
       /\ due' = [due EXCEPT ![d] = @ \ {n}]
       /\ \/ Accept(d, n, ack, commands)
          \/ Withdraw(d, ack)
          \/ Reject(d, ack, commands)
  /\ UNCHANGED <<checks, starts, onAir, transmission, fast, uplinks, others, answered>>

(* The network does not answer, or does so through another gateway. *)
PassOver(d) ==
  /\ \E n \in due[d] :
       /\ NextDue(d, n)
       /\ due' = [due EXCEPT ![d] = @ \ {n}]
       /\ \/ others' = [others EXCEPT ![d] = @ \cup {n}]
          \/ UNCHANGED others
  /\ UNCHANGED <<gwVars, fast, uplinks, accepted, answered>>

-----------------------------------------------------------------------------
(* Mutant of CheckAckSend: not while the radio is transmitting. *)
CheckAckSendIfFree(d) ==
  /\ checks[d] > 0
  /\ fast => due[d] = {}
  /\ checks' = [checks EXCEPT ![d] = @ - 1]
  /\ \/ /\ pending[d] # NoPacket /\ ~transmission
        /\ pending' = [pending EXCEPT ![d].trailer = @ - 1]
        /\ starts' = starts \cup {[dev |-> d, pkt |-> pending'[d]]}
     \/ /\ pending[d] = NoPacket \/ transmission
        /\ UNCHANGED <<pending, starts>>
  /\ UNCHANGED <<onAir, transmission, netVars, accepted, answered>>

(* CheckAckSend and DoCheckAckSend: RemoveTrailer works on the pending      *)
(* packet itself, the transmission gets a copy.                            *)
CheckAckSend(d) ==
  /\ checks[d] > 0
  /\ fast => due[d] = {}
  /\ checks' = [checks EXCEPT ![d] = @ - 1]
  /\ \/ /\ pending[d] # NoPacket
        /\ pending' = [pending EXCEPT ![d].trailer = @ - 1]
        /\ starts' = starts \cup {[dev |-> d, pkt |-> pending'[d]]}
     \/ /\ pending[d] = NoPacket
        /\ UNCHANGED <<pending, starts>>
  /\ UNCHANGED <<onAir, transmission, netVars, accepted, answered>>

(* StartTransmission and the radio's StartTx, which does not care what else *)
(* is on air.                                                              *)
StartTransmission(s) ==
  /\ s \in starts
  /\ starts' = starts \ {s}
  /\ onAir' = onAir \cup {s}
  /\ transmission' = TRUE
  /\ answered' = [answered EXCEPT ![s.dev] = @ \cup {s.pkt.up}]
  /\ UNCHANGED <<pending, checks, netVars, accepted>>

-----------------------------------------------------------------------------
Next ==
  \/ \E d \in Devices :
       \/ NotifyReceptionEndOk(d)
       \/ Overhear(d)
       \/ Miss(d)
       \/ \E ack, commands \in BOOLEAN : SendFrom(d, ack, commands)
       \/ PassOver(d)
       \/ CheckAckSend(d)
  \/ \E s \in starts : StartTransmission(s)
  \/ \E f \in onAir : NotifyTransmissionEnd(f)

(* Scheduled events run and transmissions end; the network deals with every *)
(* uplink; devices may fall silent.                                        *)
Fairness ==
  /\ \A d \in Devices :
       /\ WF_vars(CheckAckSend(d))
       /\ WF_vars(\/ PassOver(d)
                  \/ \E ack, commands \in BOOLEAN : SendFrom(d, ack, commands))
  /\ WF_vars(\E s \in starts : StartTransmission(s))
  /\ WF_vars(\E f \in onAir : NotifyTransmissionEnd(f))

Spec == Init /\ [][Next]_vars
FairSpec == Spec /\ Fairness

-----------------------------------------------------------------------------
(* Properties *)

Downlink == [dev : Devices, pkt : Packet]

(* RemoveTrailer in DoCheckAckSend works on the pending packet, which later *)
(* checks may meet again.  No frame may lose its own last bytes that way,  *)
(* however late the network is.                                            *)
StrippedOnce == \A f \in starts \cup onAir : f.pkt.trailer = 0

(* CheckAckSend looks for a packet by address alone.  With fast links what *)
(* it finds answers the last uplink, never an earlier one.                 *)
AnswersLastUplink ==
  fast => \A f \in starts \cup onAir : f.pkt.up = uplinks[f.dev]

(* With fast links NotifyTransmissionEnd has removed what was sent by the   *)
(* time a device transmits again: SendFrom then finds no old packet that   *)
(* could make it reject or withdraw an answer.                             *)
NothingLeftBehind ==
  fast => \A d \in Devices :
            Quiet(d) /\ due[d] = {} => pending[d] = NoPacket

(* With fast links every answer SendFrom has accepted, returning true, goes *)
(* on air.                                                                 *)
AcceptedIsSent ==
  \A d \in Devices, n \in 1..MaxUplinks :
    (fast /\ n \in accepted[d]) ~> (n \in answered[d])

=============================================================================
