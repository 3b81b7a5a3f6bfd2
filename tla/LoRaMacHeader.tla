---------------------------- MODULE LoRaMacHeader ----------------------------
(***************************************************************************)
(* The MAC header (model/lora-mac-header.cc), the trailers of the backbone *)
(* (model/gw-trailer.cc, model/lora-network-trailer.cc) and the header of  *)
(* the radio (model/lora-phy-header.cc).  A packet is the sequence of its  *)
(* bytes, a header a record of the fields the program sets; the code that  *)
(* packs them keeps their widths.                                          *)
(***************************************************************************)
EXTENDS LoRaMacCommand, Mac32Address

JOIN_REQUEST == 0
JOIN_ACCEPT == 1
UNCONFIRMED_DATA_UP == 2
UNCONFIRMED_DATA_DOWN == 3
CONFIRMED_DATA_UP == 4
CONFIRMED_DATA_DOWN == 5
BEACON == 6
PROPRIETARY == 7

-----------------------------------------------------------------------------
(* Fields *)

(* A header with the fields the constructors set. No constructor sets the   *)
(* adaptive bit, so it holds whatever was in memory: adr.                   *)
NewHeader(type, frmCounter, adr) ==
  [type |-> type, version |-> 0, adaptive |-> adr, adrAckReq |-> FALSE, ack |-> FALSE,
   pending |-> FALSE, port |-> 0, addr |-> NoAddress, counter |-> frmCounter,
   commands |-> <<>>, channels |-> <<>>]

(* LoRaMacHeader header; a CONFIRMED_DATA_UP with counter 0. *)
DefaultHeader(adr) == NewHeader(CONFIRMED_DATA_UP, 0, adr)

SetAddr(h, a) == [h EXCEPT !.addr = a]
SetAck(h) == [h EXCEPT !.ack = TRUE]
SetAdrAck(h) == [h EXCEPT !.adrAckReq = TRUE]
SetPort(h, p) == [h EXCEPT !.port = p]
SetType(h, type) == [h EXCEPT !.type = type]
SetFrmCounter(h, n) == [h EXCEPT !.counter = n % 2^16]

(* The types whose bits have no meaning are proprietary. *)
GetType(h) == IF h.type \in 0..6 THEN h.type ELSE PROPRIETARY

IsBeacon(h) == h.type = BEACON
NeedsAck(h) == h.type \in {CONFIRMED_DATA_UP, CONFIRMED_DATA_DOWN}
IsAcknowledgment(h) ==
  h.ack \/ h.type \in {CONFIRMED_DATA_DOWN, UNCONFIRMED_DATA_DOWN}

GetDirection(h) ==
  IF h.type \in {CONFIRMED_DATA_DOWN, UNCONFIRMED_DATA_DOWN, BEACON, JOIN_ACCEPT}
  THEN "FROMBASE" ELSE "TOBASE"

WithChannel(h, rssi, sf) == [h EXCEPT !.channels = Append(@, <<rssi, sf>>)]

-----------------------------------------------------------------------------
(* Commands *)

GetCommandsLength(h) ==
  FoldLeft(LAMBDA n, c : n + GetSerializedSize(c), 0, h.commands)

(* A command that would not leave the length in four bits is dropped. *)
SetMacCommand(h, c) ==
  IF GetCommandsLength(h) + GetSerializedSize(c) < 16
  THEN [h EXCEPT !.commands = Append(@, c)]
  ELSE h

SetMacCommands(h, commands) == FoldLeft(SetMacCommand, h, commands)

(* Mutant of Merge: the commands are not taken over. *)
MergePort(h, other) == IF h.port = 0 THEN SetPort(h, other.port) ELSE h

(* What h has become once other is merged into it. *)
Merge(h, other) ==
  IF GetDirection(h) # GetDirection(other) \/ h.addr # other.addr THEN h
  ELSE LET confirmed ==
             IF GetDirection(h) = "FROMBASE" THEN CONFIRMED_DATA_DOWN
                                             ELSE CONFIRMED_DATA_UP
           typed == IF GetType(other) = confirmed THEN SetType(h, confirmed) ELSE h
           all == SetMacCommands(typed, other.commands)
       IN IF h.port = 0 THEN SetPort(all, other.port) ELSE all

-----------------------------------------------------------------------------
(* On the air *)

GetMacHeader(h) == 32 * Bits(h.type, 0, 3) + Bits(h.version, 0, 2)

GetFrameControl(h) ==
  128 * h.adaptive + 64 * Bit(h.adrAckReq) + 32 * Bit(h.ack) + 16 * Bit(h.pending)
    + Bits(GetCommandsLength(h), 0, 4)

HeaderSize(h) ==
  GetCommandsLength(h) + (IF IsBeacon(h) THEN 2 * Len(h.channels) + 10 ELSE 9)

SerializeCommands(h) ==
  FlattenSeq([i \in DOMAIN h.commands |-> Serialize(h.commands[i])])
SerializeChannels(h) ==
  IF IsBeacon(h) THEN <<Len(h.channels)>> \o FlattenSeq(h.channels) ELSE <<>>

SerializeHeader(h) ==
  <<GetMacHeader(h)>> \o h.addr \o <<GetFrameControl(h)>> \o U16(h.counter)
    \o SerializeChannels(h) \o SerializeCommands(h) \o <<h.port>>

ReadFrom(b, i) == SubSeq(b, i, i + 3)

(* The length bytes of commands that b holds from byte i on, as objects.    *)
(* Fifteen rounds are enough: the length has four bits, and each command at *)
(* least one byte.                                                          *)
ReadCommands(b, i, length, direction) ==
  LET after[round \in 0..15] ==
        IF round = 0 THEN [next |-> i, commands |-> <<>>]
        ELSE LET before == after[round - 1]
                 c == CommandBasedOnCid(b[before.next], direction,
                                        SubSeq(b, before.next, Len(b)))
             IN IF before.next >= i + length THEN before
                ELSE [next |-> before.next + GetSerializedSize(c),
                      commands |-> Append(before.commands, c)]
  IN after[15].commands

ReadChannels(b, type) ==
  IF type # BEACON THEN <<>>
  ELSE [j \in 1..b[9] |-> <<b[8 + 2 * j], b[9 + 2 * j]>>]

(* What the header object h is after Deserialize has read b into it. The    *)
(* fields are overwritten, but commands and channels are added to those the *)
(* object has: nothing clears the lists.                                    *)
DeserializeInto(h, b) ==
  LET type == Bits(b[1], 5, 3)
      control == b[6]
      start == IF type = BEACON THEN 10 + 2 * b[9] ELSE 9
      length == Bits(control, 0, 4)
      fields == [h EXCEPT
        !.type = type, !.version = Bits(b[1], 0, 2), !.addr = ReadFrom(b, 2),
        !.adaptive = Bits(control, 7, 1), !.adrAckReq = IsSet(control, 6),
        !.ack = IsSet(control, 5), !.pending = IsSet(control, 4),
        !.counter = ReadU16(b, 7), !.channels = @ \o ReadChannels(b, type),
        !.port = b[start + length]]
  IN SetMacCommands(fields, ReadCommands(b, start, length, GetDirection(fields)))

(* Mutant of BytesRead: a fixed length is returned. *)
BytesReadFixed(b) == 9

(* The bytes Deserialize has read when it returns. *)
BytesRead(b) ==
  9 + Bits(b[6], 0, 4) + (IF Bits(b[1], 5, 3) = BEACON THEN 1 + 2 * b[9] ELSE 0)

(* LoRaMacHeader header; packet->PeekHeader (header). *)
PeekHeader(b) == DeserializeInto(DefaultHeader(0), b)

(* What packet->RemoveHeader leaves. *)
AfterHeader(b) == SubSeq(b, BytesRead(b) + 1, Len(b))

-----------------------------------------------------------------------------
(* Trailers and the preamble *)

(* LoRaNetworkTrailer: how a gateway is to reach the device. *)
NetworkTrailer(delay, rx1Offset, rx2Dr, rx2Freq) ==
  [delay |-> delay, rx1Offset |-> rx1Offset, rx2Dr |-> rx2Dr, rx2Freq |-> rx2Freq]
NetworkTrailerBytes(t) == <<t.delay, t.rx1Offset, t.rx2Dr>> \o U32(t.rx2Freq)
NetworkTrailerSize == 7

(* The trailer that ends b. *)
PeekNetworkTrailer(b) ==
  LET s == Len(b) - NetworkTrailerSize
  IN NetworkTrailer(b[s + 1], b[s + 2], b[s + 3], ReadU32(b, s + 4))
AfterNetworkTrailer(b) == SubSeq(b, 1, Len(b) - NetworkTrailerSize)

(* GwTrailer: how a gateway received a frame. The strength is a double,     *)
(* whose eight bytes are copied as they are.                                *)
GwTrailer(rssi, gateway, sf, bandwidth, frequency) ==
  [rssi |-> rssi, gateway |-> gateway, sf |-> sf, bandwidth |-> bandwidth,
   frequency |-> frequency]
GwTrailerBytes(t) ==
  [i \in 1..8 |-> t.rssi] \o U32(t.gateway) \o <<t.sf>> \o U32(t.bandwidth)
    \o U32(t.frequency)
GwTrailerSize == 21
PeekGwTrailer(b) ==
  LET s == Len(b) - GwTrailerSize
  IN GwTrailer(b[s + 1], ReadU32(b, s + 9), b[s + 13], ReadU32(b, s + 14),
               ReadU32(b, s + 18))

(* LoRaPhyHeader: a preamble and, unless it is a beacon, a header, neither  *)
(* of which says anything. Nobody changes what the constructor sets.       *)
PhyHeader == [preamble |-> 8, beacon |-> FALSE]
PhyHeaderSize == PhyHeader.preamble + (IF PhyHeader.beacon THEN 0 ELSE 2)
PhyHeaderBytes == [i \in 1..PhyHeaderSize |-> 8]

(* The radio adds one to what it sends and removes one from what it gets. *)
OnAir(b) == PhyHeaderBytes \o b
AfterPhyHeader(b) == SubSeq(b, PhyHeaderSize + 1, Len(b))

=============================================================================
