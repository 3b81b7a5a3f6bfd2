-------------------------- MODULE LoRaSpectrumSignal --------------------------
(***************************************************************************)
(* The signals of one spectrum channel and how a receiver sees them        *)
(* (model/lora-spectrum-signal-parameters.cc, the spectrum model and the   *)
(* power densities of model/lora-phy.cc).                                  *)
(*                                                                         *)
(* Frequencies are in units of 100 Hz, as in the code. A signal is 125 kHz *)
(* wide, the bandwidth of data rates 0 to 5.                              *)
(* Power stands for the density of the signal at one receiver, after the   *)
(* path to it; it is a small number because only comparisons matter.       *)
(***************************************************************************)
EXTENDS Integers, FiniteSetsExt

CONSTANTS
  Signals,      \* what is sent
  Channel,      \* Channel[s]: the centre of its band
  Spreading,    \* Spreading[s]: its spreading factor
  Power         \* Power[s]: its power at this receiver

ASSUME SignalAssumption ==
  /\ IsFiniteSet(Signals)
  /\ Channel \in [Signals -> Nat]
  /\ Spreading \in [Signals -> 7..12]
  /\ Power \in [Signals -> Nat \ {0}]
  /\ \A s \in Signals : /\ Channel[s] >= 8680000 + 626
                         /\ Channel[s] <= 8680000 + 15500

Half == 625           \* half a bandwidth
BinWidth == 250

Low(s) == Channel[s] - 8680000 - Half
High(s) == Channel[s] - 8680000 + Half

\* The bins the receivers' loops visit for a signal.
Bins(s) == (Low(s) \div BinWidth)..(High(s) \div BinWidth)

\* How much of a bin lies in the signal's band.
Share(s, i) ==
  LET from == IF Low(s) > i * BinWidth THEN Low(s) ELSE i * BinWidth
      to   == IF High(s) < (i + 1) * BinWidth THEN High(s) ELSE (i + 1) * BinWidth
  IN  IF to > from THEN to - from ELSE 0

\* The density of a signal in a bin, in the receiver's spectrum model.
Psd(s, i) == Power[s] * Share(s, i)

\* The density of a signal, added up over some bins.
PowerIn(s, bins) == MapThenSumSet(LAMBDA i : Psd(s, i), bins)

\* The bands of two signals overlap, and they are not orthogonal.
Rivals(r, s) ==
  /\ r # s
  /\ Spreading[r] = Spreading[s]
  /\ Channel[r] - Channel[s] \in -(2 * Half - 1)..(2 * Half - 1)

=============================================================================
