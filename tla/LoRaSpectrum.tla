----------------------------- MODULE LoRaSpectrum -----------------------------
(***************************************************************************)
(* One spectrum channel with the radio of a gateway (LoRaGwPhy) and the    *)
(* radio of an end device (LoRaPhyReception), which hear the same signals  *)
(* with different powers.                                                  *)
(*                                                                         *)
(* The channel hands a signal to every radio when it starts, each with a   *)
(* copy of its parameters of its own (lora-spectrum-signal-parameters.cc). *)
(* Every radio then schedules the end of the signal for itself. Signals    *)
(* come from other nodes and are sent once; the device's own transmission  *)
(* and its windows are operations of its MAC, at any time it may make      *)
(* them.                                                                   *)
(***************************************************************************)
EXTENDS LoRaPhyReception     \* Power is that of each signal at the device

CONSTANTS
  GatewayPower,     \* the power of each signal at the gateway
  MaxReceptions     \* the gateway receives one more than these at a time

ASSUME SpectrumAssumption ==
  /\ GatewayPower \in [Signals -> Nat \ {0}]
  /\ MaxReceptions \in Nat

VARIABLES
  ber,          \* the gateway
  \* the environment, and what the properties remember
  onAir,        \* the signals on air
  before,       \* those that were on air when a signal started
  atGateway,    \* what became of each signal at the gateway
  atDevice      \* and at the device

Gateway == INSTANCE LoRaGwPhy WITH Power <- GatewayPower

environment == <<onAir, before, atGateway, atDevice>>
vars == <<ber, phyVars, environment>>

Sent == {s \in Signals : atGateway[s] # "Unsent"}

Init ==
  /\ Gateway!GwPhyInit
  /\ PhyInit
  /\ onAir = {}
  /\ before = [s \in Signals |-> {}]
  /\ atGateway = [s \in Signals |-> "Unsent"]
  /\ atDevice = [s \in Signals |-> "Unsent"]

-----------------------------------------------------------------------------

(* A signal starts and reaches both radios. *)
SignalStarts(s) ==
  /\ s \notin Sent
  /\ Gateway!StartRx(s)
  /\ StartRx(s)
  /\ onAir' = onAir \cup {s}
  /\ before' = [before EXCEPT ![s] = onAir]
  /\ atGateway' = [atGateway EXCEPT ![s] = "OnAir"]
  /\ atDevice' = [r \in Signals |->
       CASE r = s /\ locked' = s -> "OnAir"
         [] r = s /\ locked' # s ->
              IF phyState = "RX" /\ Matches(s) /\ locked = NoSignal
              THEN "Refused" ELSE "Lost"
         [] r = locked /\ locked' = NoSignal -> "Lost"
         [] OTHER -> atDevice[r]]

(* It ends at the gateway and at the device. *)
SignalEnds(s) ==
  /\ s \in onAir
  /\ \E delivered \in BOOLEAN :
       /\ Gateway!EndRx(s, delivered)
       /\ atGateway' = [atGateway EXCEPT ![s] = IF delivered THEN "Delivered"
                                                 ELSE "Lost"]
  /\ EndRx(s)
  /\ onAir' = onAir \ {s}
  /\ atDevice' = [atDevice EXCEPT ![s] =
                    CASE locked # s -> atDevice[s]
                      [] locked = s /\ bitErrors' -> "Lost"
                      [] OTHER -> "Delivered"]
  /\ UNCHANGED before

(* A message of another technology starts or ends (NoiseIsm): it counts in *)
(* the noise of both radios and nowhere else, so signals may get errors.   *)
Noise ==
  /\ ber' \in Gateway!UpdateBer
  /\ \E errors \in BOOLEAN : UpdateBer(errors) /\ bitErrors' = errors
  /\ UNCHANGED <<phyState, transmission, tuned, locked, usage, environment>>

Elsewhere == UNCHANGED <<ber, onAir, before, atGateway>>

(* The MAC of the device opens a window, also while a signal is received:  *)
(* the settings of window 2 are scheduled for now, and a signal of window  *)
(* 1 may start first;                                                      *)
OpenWindow ==
  /\ phyState # "TX"
  /\ \E t \in Windows : Listen(t)
  /\ Elsewhere
  /\ UNCHANGED atDevice

(* it turns the radio off,                                                 *)
Sleep ==
  /\ phyState = "RX"
  /\ ChangeState("IDLE")
  /\ atDevice' = [s \in Signals |-> IF s = locked THEN "Lost" ELSE atDevice[s]]
  /\ Elsewhere

(* or sends,                                                               *)
Transmit ==
  /\ phyState = "IDLE"
  /\ ~transmission
  /\ StartTx
  /\ Elsewhere
  /\ UNCHANGED atDevice

(* and the radio is done with it.                                          *)
EndTransmission ==
  /\ EndTx
  /\ Elsewhere
  /\ UNCHANGED atDevice

Next ==
  \/ \E s \in Signals : SignalStarts(s) \/ SignalEnds(s)
  \/ Noise
  \/ OpenWindow \/ Sleep \/ Transmit \/ EndTransmission

Spec == Init /\ [][Next]_vars

-----------------------------------------------------------------------------

Together(r, s) == r \in before[s] \/ s \in before[r]

(* A gateway delivers a signal only if it was more than 6 dB stronger than *)
(* every signal of its band and spreading factor it shared the air with,   *)
(* whichever came first (StartRx, UpdateBer, EndRx of lora-gw-phy.cc).     *)
GatewayCapture ==
  \A s, r \in Signals :
    atGateway[s] = "Delivered" /\ Together(r, s) /\ Gateway!Rivals(r, s)
      => GatewayPower[s] > 4 * GatewayPower[r]

LaterWeaker(s, r) == s \in before[r] => 4 * Power[r] <= Power[s]

(* A device delivers a signal only if no earlier signal of its spreading   *)
(* factor was stronger in any part of its band, and no later one, on its   *)
(* own channel or one below, came within 6 dB of it (the two tests of      *)
(* StartRx in lora-phy.cc).                                                *)
DeviceCapture ==
  \A s, r \in Signals :
    /\ atDevice[s] = "Delivered"
    /\ Rivals(r, s)
    => /\ r \in before[s] =>
            \A i \in Bins(s) : Psd(s, i) > 0 => Psd(r, i) <= Psd(s, i)
       /\ Channel[r] <= Channel[s] => LaterWeaker(s, r)

(* A device that listens for a signal and is not receiving refuses it only *)
(* because of another one in the same band with the same spreading factor: *)
(* other spreading factors are orthogonal (StartRx, m_channelUsage).       *)
RefusedOnlyByRival ==
  \A s \in Signals :
    atDevice[s] = "Refused" => \E r \in before[s] : Rivals(r, s)

Radio == INSTANCE LoRaPhy WITH receiving <- locked # NoSignal

(* Without its signals the radio is the one LoRaNetDevice is built on:     *)
(* what it locks on, loses and delivers are steps of LoRaPhy, so what is a *)
(* free choice there covers all that interference can do.                  *)
ImplementsLoRaPhy ==
  [][\/ \E s \in {"IDLE", "RX"} : Radio!ChangeState(s)
     \/ Radio!StartTx
     \/ Radio!EndTx
     \/ Radio!StartRx
     \/ Radio!EndRx]_<<phyState, locked # NoSignal, transmission>>

=============================================================================
