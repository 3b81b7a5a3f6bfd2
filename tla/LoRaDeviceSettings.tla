------------------------- MODULE LoRaDeviceSettings -------------------------
(***************************************************************************)
(* The settings of an end device (model/lora-net-device.cc) that MAC       *)
(* commands change, and what each command of the network does to them      *)
(* (Execute in model/commands).  A device is a record dev; an operator     *)
(* named after a method gives what the method leaves, and, where the       *)
(* method returns a bool, the pair of that and the bool.                   *)
(***************************************************************************)
EXTENDS LoRaMacCommand

Slots == 0..15
NoSlot == 127      \* what GetFreeChannel returns when no channel is available

(* A device as constructed. Its radio and its battery are not part of it,   *)
(* but DevStatusReq reads them: snr is that of the last packet, energy the  *)
(* percentage left or NoSource.                                             *)
NoSource == -1
NewDevice(energy) ==
  [frequencies |-> [i \in Slots |-> IF i > 5 THEN 0 ELSE 8681000 + 2000 * (i % 3)],
   available |-> [i \in Slots |-> i < 3],
   datarate |-> [i \in Slots |-> 5], maxDatarate |-> [i \in Slots |-> 5],
   minDatarate |-> [i \in Slots |-> 0],
   freeing |-> [i \in Slots |-> 0], freeChannel |-> NoSlot,
   powerIndex |-> 1, waitingFactor |-> 99, delay |-> 1, nbRep |-> 1,
   rx2Datarate |-> 0, rx2Freq |-> 8695250, rx1Offset |-> 0,
   answers |-> <<>>, snr |-> 0, energy |-> energy]

Result(dev, ok) == [dev |-> dev, ok |-> ok]

-----------------------------------------------------------------------------
(* Settings *)

(* The powers of the table that are not 0. *)
PowerIndices == 1..5

SetMaxPower(dev, p) ==
  IF p \in PowerIndices THEN Result([dev EXCEPT !.powerIndex = p], TRUE)
                        ELSE Result(dev, FALSE)

(* Mutant of SetMaxDataRate: the maximum of a channel is not respected. *)
SetMaxDataRateUnchecked(dev, dr) ==
  Result([dev EXCEPT !.datarate = [i \in Slots |-> dr]], TRUE)

(* Every channel that allows it uses data rate dr. *)
SetMaxDataRate(dev, dr) ==
  LET allows == {i \in Slots : dr <= dev.maxDatarate[i]}
  IN Result([dev EXCEPT !.datarate =
               [i \in Slots |-> IF i \in allows THEN dr ELSE @[i]]],
            allows # {})

SetMaxDataRateOf(dev, dr, i) ==
  [dev EXCEPT !.datarate[i] = dr, !.maxDatarate[i] = dr]
SetMinDataRateOf(dev, dr, i) == [dev EXCEPT !.minDatarate[i] = dr]

SetDelay(dev, delay) == [dev EXCEPT !.delay = delay]
SetNbRep(dev, repetitions) == [dev EXCEPT !.nbRep = repetitions]
SetDutyCycle(dev, dutyCycle) == [dev EXCEPT !.waitingFactor = 2^dutyCycle - 1]
SetRx2Settings(dev, dr, freq) == [dev EXCEPT !.rx2Datarate = dr, !.rx2Freq = freq]
SetDlOffset(dev, offset) == [dev EXCEPT !.rx1Offset = offset]

(* Mutant of SetMacAnswer: only the last answer is kept. *)
SetMacAnswerLast(dev, c) == [dev EXCEPT !.answers = <<c>>]

SetMacAnswer(dev, c) == [dev EXCEPT !.answers = Append(@, c)]

-----------------------------------------------------------------------------
(* Channels *)

AddChannel(dev, i, freq) ==
  [dev EXCEPT !.frequencies[i] = freq, !.available[i] = TRUE]

(* The FreeChannel event m_freeChannel refers to does not happen any more. *)
CancelFreeChannel(dev) ==
  IF dev.freeChannel = NoSlot THEN dev
  ELSE [dev EXCEPT !.freeing[dev.freeChannel] = @ - 1, !.freeChannel = NoSlot]

(* The channels a mask names: the highest bit is channel 0. *)
Named(mask) == {i \in Slots : IsSet(mask, 15 - i)}
InUse(dev) == {i \in Slots : dev.frequencies[i] # 0}

(* The loop stops at the first named channel that has no frequency, and     *)
(* leaves those before it as it has set them.                               *)
SetChannelMask(dev, mask) ==
  LET unusable == Named(mask) \ InUse(dev)
      done == {i \in Slots : \A j \in unusable : i < j}
  IN IF Named(mask) \subseteq unusable THEN Result(CancelFreeChannel(dev), FALSE)
     ELSE Result([CancelFreeChannel(dev) EXCEPT
                    !.available = [i \in Slots |-> IF i \in done THEN i \in Named(mask)
                                                                 ELSE @[i]]],
                 unusable = {})

(* The channels GetFreeChannel may return: any available one, as steps of 7 *)
(* from any of the first three reach all sixteen.                           *)
FreeChannels(dev) == {i \in Slots : dev.available[i]}

(* NotifyTransmissionEnd: the channel rests, FreeChannel ends that. *)
Rest(dev, i) ==
  [dev EXCEPT !.available[i] = FALSE, !.freeing[i] = @ + 1, !.freeChannel = i]

(* A FreeChannel event runs; last, if it is the one m_freeChannel refers to *)
(* (an older one of the same channel may still be pending).                 *)
MayFree(dev, i, last) ==
  /\ dev.freeing[i] > 0
  /\ IF last THEN dev.freeChannel = i ELSE dev.freeChannel # i \/ dev.freeing[i] > 1
FreeChannel(dev, i, last) ==
  [dev EXCEPT !.available[i] = TRUE, !.freeing[i] = @ - 1,
              !.freeChannel = IF last THEN NoSlot ELSE @]

-----------------------------------------------------------------------------
(* Commands *)

(* The answer is constructed with the data rate first. *)
LinkAdrReqExecute(dev, c) ==
  LET rate == SetMaxDataRate(dev, c.datarate)
      power == SetMaxPower(rate.dev, c.power)
      mask == SetChannelMask(power.dev, c.mask)
  IN SetMacAnswer(SetNbRep(mask.dev, c.nbRep), LinkAdrAns(rate.ok, power.ok, mask.ok))

DutyCycleReqExecute(dev, c) ==
  SetMacAnswer(SetDutyCycle(dev, c.dutyCycle), DutyCycleAns)

RxParamSetupReqExecute(dev, c) ==
  SetMacAnswer(SetRx2Settings(SetDlOffset(dev, c.rx1Offset), c.rx2Dr, c.rx2Freq),
               RxParamSetupAns(TRUE, TRUE, TRUE))

(* The margin is kept within -32..32; a battery of 0 means mains power. *)
DevStatusReqExecute(dev) ==
  LET margin == IF dev.snr > 32 THEN 32 ELSE IF dev.snr < -32 THEN -32 ELSE dev.snr
      battery == IF dev.energy = NoSource THEN 0 ELSE (254 * dev.energy) \div 100 + 1
  IN SetMacAnswer(dev, DevStatusAns(battery, margin))

(* Every channel and data rate is accepted: RemoveChannel is never called. *)
NewChannelReqExecute(dev, c) ==
  LET added == AddChannel(dev, c.chIndex, c.freq)
      limited == SetMinDataRateOf(SetMaxDataRateOf(added, c.maxDr, c.chIndex),
                                  c.minDr, c.chIndex)
  IN SetMacAnswer(limited, NewChannelAns(TRUE, TRUE))

RxTimingSetupReqExecute(dev, c) ==
  SetMacAnswer(SetDelay(dev, c.delay), RxTimingSetupAns)

Execute(dev, c) ==
  CASE c.kind = "LinkAdrReq"       -> LinkAdrReqExecute(dev, c)
    [] c.kind = "DutyCycleReq"     -> DutyCycleReqExecute(dev, c)
    [] c.kind = "RxParamSetupReq"  -> RxParamSetupReqExecute(dev, c)
    [] c.kind = "DevStatusReq"     -> DevStatusReqExecute(dev)
    [] c.kind = "NewChannelReq"    -> NewChannelReqExecute(dev, c)
    [] c.kind = "RxTimingSetupReq" -> RxTimingSetupReqExecute(dev, c)
    [] c.kind = "LinkCheckAns"     -> dev

ExecuteAll(dev, commands) == FoldLeft(Execute, dev, commands)

(* A slower data rate where the channel allows one. *)
Slower(dev) ==
  [dev EXCEPT !.datarate = [i \in Slots |-> IF @[i] > dev.minDatarate[i] THEN @[i] - 1
                                                                         ELSE @[i]]]

=============================================================================
