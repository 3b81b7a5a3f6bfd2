--------------------------- MODULE LoRaMacCommand ---------------------------
(***************************************************************************)
(* The MAC commands (model/lora-mac-command.cc and model/commands) and     *)
(* their form on the air.  A command is a record with its class as kind    *)
(* and one field per parameter; for each class there is a constructor, the *)
(* bytes Serialize writes and the command Deserialize reads from bytes     *)
(* that start with one.                                                    *)
(***************************************************************************)
EXTENDS Bytes, Sequences, SequencesExt

LINK_CHECK == 2
LINK_ADR == 3
DUTY_CYCLE == 4
RX_PARAM_SETUP == 5
DEV_STATUS == 6
NEW_CHANNEL == 7
RX_TIMING == 8

Directions == {"TOBASE", "FROMBASE"}

-----------------------------------------------------------------------------
(* Requests of the network *)

LinkAdrReq(datarate, power, mask, nbRep) ==
  [kind |-> "LinkAdrReq", datarate |-> datarate, power |-> power, mask |-> mask,
   nbRep |-> nbRep]

(* The repetitions are written, and read, as m_nbRep && 0x7: 0 or 1. *)
LinkAdrReqBytes(c) ==
  <<LINK_ADR, 16 * Bits(c.datarate, 0, 3) + Bits(c.power, 0, 3)>>
    \o U16(c.mask) \o <<Bit(c.nbRep # 0)>>
LinkAdrReqRead(b) ==
  LinkAdrReq(Bits(b[2], 4, 3), Bits(b[2], 0, 3), ReadU16(b, 3), Bit(b[5] # 0))

DutyCycleReq(dutyCycle) == [kind |-> "DutyCycleReq", dutyCycle |-> dutyCycle]
DutyCycleReqBytes(c) == <<DUTY_CYCLE, c.dutyCycle>>
DutyCycleReqRead(b) == DutyCycleReq(b[2])

RxParamSetupReq(rx1Offset, rx2Dr, rx2Freq) ==
  [kind |-> "RxParamSetupReq", rx1Offset |-> rx1Offset, rx2Dr |-> rx2Dr,
   rx2Freq |-> rx2Freq]
RxParamSetupReqBytes(c) ==
  <<RX_PARAM_SETUP, 16 * Bits(c.rx1Offset, 0, 3) + c.rx2Dr,
    Bits(c.rx2Freq, 16, 8), Bits(c.rx2Freq, 8, 8), Bits(c.rx2Freq, 0, 8)>>
RxParamSetupReqRead(b) ==
  RxParamSetupReq(Bits(b[2], 4, 3), Bits(b[2], 0, 4),
                  2^16 * b[3] + 2^8 * b[4] + b[5])

DevStatusReq == [kind |-> "DevStatusReq"]
DevStatusReqBytes == <<DEV_STATUS>>

NewChannelReq(chIndex, freq, minDr, maxDr) ==
  [kind |-> "NewChannelReq", chIndex |-> chIndex, freq |-> freq, minDr |-> minDr,
   maxDr |-> maxDr]
NewChannelReqBytes(c) ==
  <<NEW_CHANNEL, c.chIndex, Bits(c.freq, 16, 8)>> \o U16(Bits(c.freq, 0, 16))
    \o <<16 * Bits(c.maxDr, 0, 4) + Bits(c.minDr, 0, 4)>>
NewChannelReqRead(b) ==
  NewChannelReq(b[2], 2^16 * b[3] + ReadU16(b, 4), Bits(b[6], 0, 4), Bits(b[6], 4, 4))

RxTimingSetupReq(delay) == [kind |-> "RxTimingSetupReq", delay |-> delay]
RxTimingSetupReqBytes(c) == <<RX_TIMING, c.delay>>
RxTimingSetupReqRead(b) == RxTimingSetupReq(b[2])

LinkCheckAns(margin, count) ==
  [kind |-> "LinkCheckAns", margin |-> margin, count |-> count]
LinkCheckAnsBytes(c) == <<LINK_CHECK, c.margin, c.count>>
LinkCheckAnsRead(b) == LinkCheckAns(b[2], b[3])

-----------------------------------------------------------------------------
(* Answers of a device, and its own request *)

LinkCheckReq == [kind |-> "LinkCheckReq"]
LinkCheckReqBytes == <<LINK_CHECK>>

(* The parameters in the order the constructor is defined with. *)
LinkAdrAns(power, datarate, channelmask) ==
  [kind |-> "LinkAdrAns", power |-> power, datarate |-> datarate,
   channelmask |-> channelmask]

(* Mutant of LinkAdrAnsBytes: the bits are in the reverse order. *)
LinkAdrAnsBytesReversed(c) ==
  <<LINK_ADR, Bit(c.power) + 2 * Bit(c.datarate) + 4 * Bit(c.channelmask)>>

LinkAdrAnsBytes(c) ==
  <<LINK_ADR, 4 * Bit(c.power) + 2 * Bit(c.datarate) + Bit(c.channelmask)>>
LinkAdrAnsRead(b) == LinkAdrAns(IsSet(b[2], 2), IsSet(b[2], 1), IsSet(b[2], 0))

DutyCycleAns == [kind |-> "DutyCycleAns"]
DutyCycleAnsBytes == <<DUTY_CYCLE>>

RxParamSetupAns(offset, dr, channel) ==
  [kind |-> "RxParamSetupAns", offsetAck |-> offset, drAck |-> dr,
   channelAck |-> channel]
RxParamSetupAnsBytes(c) ==
  <<RX_PARAM_SETUP, 4 * Bit(c.offsetAck) + 2 * Bit(c.drAck) + Bit(c.channelAck)>>
RxParamSetupAnsRead(b) ==
  RxParamSetupAns(IsSet(b[2], 2), IsSet(b[2], 1), IsSet(b[2], 0))

(* The margin is an int8_t, sent through a union with a uint8_t. *)
DevStatusAns(battery, margin) ==
  [kind |-> "DevStatusAns", battery |-> battery, margin |-> margin]

DevStatusAnsBytes(c) == <<DEV_STATUS, c.battery, c.margin % 256>>
DevStatusAnsRead(b) ==
  DevStatusAns(b[2], IF b[3] < 128 THEN b[3] ELSE b[3] - 256)

NewChannelAns(datarateOk, freqOk) ==
  [kind |-> "NewChannelAns", datarateOk |-> datarateOk, freqOk |-> freqOk]
NewChannelAnsBytes(c) == <<NEW_CHANNEL, Bit(c.freqOk) + 2 * Bit(c.datarateOk)>>
NewChannelAnsRead(b) == NewChannelAns(IsSet(b[2], 1), IsSet(b[2], 0))

RxTimingSetupAns == [kind |-> "RxTimingSetupAns"]
RxTimingSetupAnsBytes == <<RX_TIMING>>

-----------------------------------------------------------------------------
(* All classes *)

(* The commands whose parameters fit their fields on the air. *)
ToBase ==
  [kind : {"LinkCheckReq", "DutyCycleAns", "RxTimingSetupAns"}]
    \cup [kind : {"LinkAdrAns"}, power : BOOLEAN, datarate : BOOLEAN, channelmask : BOOLEAN]
    \cup [kind : {"RxParamSetupAns"}, offsetAck : BOOLEAN, drAck : BOOLEAN,
          channelAck : BOOLEAN]
    \cup [kind : {"DevStatusAns"}, battery : Byte, margin : -128..127]
    \cup [kind : {"NewChannelAns"}, datarateOk : BOOLEAN, freqOk : BOOLEAN]
FromBase ==
  [kind : {"DevStatusReq"}]
    \cup [kind : {"LinkAdrReq"}, datarate : 0..7, power : 0..7, mask : 0..2^16 - 1,
          nbRep : 0..1]
    \cup [kind : {"DutyCycleReq"}, dutyCycle : Byte]
    \cup [kind : {"RxParamSetupReq"}, rx1Offset : 0..7, rx2Dr : 0..15,
          rx2Freq : 0..2^24 - 1]
    \cup [kind : {"NewChannelReq"}, chIndex : Byte, freq : 0..2^24 - 1, minDr : 0..15,
          maxDr : 0..15]
    \cup [kind : {"RxTimingSetupReq"}, delay : Byte]
    \cup [kind : {"LinkCheckAns"}, margin : Byte, count : Byte]

(* GetSerializedSize of each class. *)
Size ==
  [LinkCheckReq |-> 1, LinkCheckAns |-> 3, LinkAdrReq |-> 5, LinkAdrAns |-> 2,
   DutyCycleReq |-> 2, DutyCycleAns |-> 1, RxParamSetupReq |-> 5,
   RxParamSetupAns |-> 2, DevStatusReq |-> 1, DevStatusAns |-> 3,
   NewChannelReq |-> 6, NewChannelAns |-> 2, RxTimingSetupReq |-> 2,
   RxTimingSetupAns |-> 1]

GetSerializedSize(c) == Size[c.kind]

Serialize(c) ==
  CASE c.kind = "LinkCheckReq"     -> LinkCheckReqBytes
    [] c.kind = "LinkCheckAns"     -> LinkCheckAnsBytes(c)
    [] c.kind = "LinkAdrReq"       -> LinkAdrReqBytes(c)
    [] c.kind = "LinkAdrAns"       -> LinkAdrAnsBytes(c)
    [] c.kind = "DutyCycleReq"     -> DutyCycleReqBytes(c)
    [] c.kind = "DutyCycleAns"     -> DutyCycleAnsBytes
    [] c.kind = "RxParamSetupReq"  -> RxParamSetupReqBytes(c)
    [] c.kind = "RxParamSetupAns"  -> RxParamSetupAnsBytes(c)
    [] c.kind = "DevStatusReq"     -> DevStatusReqBytes
    [] c.kind = "DevStatusAns"     -> DevStatusAnsBytes(c)
    [] c.kind = "NewChannelReq"    -> NewChannelReqBytes(c)
    [] c.kind = "NewChannelAns"    -> NewChannelAnsBytes(c)
    [] c.kind = "RxTimingSetupReq" -> RxTimingSetupReqBytes(c)
    [] c.kind = "RxTimingSetupAns" -> RxTimingSetupAnsBytes

(* The class of a command follows from its first byte and the direction of  *)
(* the frame; any other first byte is a fatal error. The command reads its  *)
(* parameters from b itself.                                                *)
CommandBasedOnCid(cid, direction, b) ==
  IF direction = "TOBASE"
  THEN CASE cid = LINK_CHECK     -> LinkCheckReq
         [] cid = LINK_ADR       -> LinkAdrAnsRead(b)
         [] cid = DUTY_CYCLE     -> DutyCycleAns
         [] cid = RX_PARAM_SETUP -> RxParamSetupAnsRead(b)
         [] cid = DEV_STATUS     -> DevStatusAnsRead(b)
         [] cid = NEW_CHANNEL    -> NewChannelAnsRead(b)
         [] cid = RX_TIMING      -> RxTimingSetupAns
  ELSE CASE cid = LINK_CHECK     -> LinkCheckAnsRead(b)
         [] cid = LINK_ADR       -> LinkAdrReqRead(b)
         [] cid = DUTY_CYCLE     -> DutyCycleReqRead(b)
         [] cid = RX_PARAM_SETUP -> RxParamSetupReqRead(b)
         [] cid = DEV_STATUS     -> DevStatusReq
         [] cid = NEW_CHANNEL    -> NewChannelReqRead(b)
         [] cid = RX_TIMING      -> RxTimingSetupReqRead(b)

=============================================================================
