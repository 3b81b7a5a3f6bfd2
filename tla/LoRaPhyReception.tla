--------------------------- MODULE LoRaPhyReception ---------------------------
(***************************************************************************)
(* The receiver of an end device with its signals (model/lora-phy.cc):     *)
(* which one it locks on, which one is lost to an interferer, and the      *)
(* table in which it adds up the power of what is on air. LoRaPhy is this  *)
(* radio without the signals.                                              *)
(***************************************************************************)
EXTENDS LoRaSpectrumSignal

CONSTANTS
  Windows,      \* the settings of the device's windows: a channel and a spreading
  NoSignal

ASSUME ReceptionAssumption ==
  /\ NoSignal \notin Signals
  /\ Windows # {}
  /\ Windows \subseteq [channel : Nat, spreading : 7..12]

VARIABLES
  phyState,      \* m_state
  transmission,  \* m_transmission
  tuned,         \* m_channelIndex and m_spreadingfactor
  locked,        \* m_params: the signal being received, or NoSignal
  bitErrors,     \* m_params->GetBer() > 0
  usage          \* m_channelUsage, [8][30] doubles, by the cell's place in it

phyVars == <<phyState, transmission, tuned, locked, bitErrors, usage>>

(* Mutant of Cell: one row for all spreading factors. *)
CellOfBin(s, i) == i

(* Row and bin of the table. A bin above 29 lies in a later row: nothing   *)
(* checks the index, and the spectrum has 70 bins.                         *)
Cell(s, i) == (12 - Spreading[s]) * 30 + i

Cells == {Cell(s, i) : s \in Signals, i \in UNION {Bins(r) : r \in Signals}}

PhyInit ==
  /\ phyState = "IDLE"
  /\ transmission = FALSE
  /\ tuned \in Windows
  /\ locked = NoSignal
  /\ bitErrors = FALSE
  /\ usage = [c \in Cells |-> 0]

-----------------------------------------------------------------------------

(* ChangeState. *)
ChangeState(s) ==
  /\ phyState' = s
  /\ locked' = IF s = "IDLE" THEN NoSignal ELSE locked
  /\ UNCHANGED <<transmission, tuned, bitErrors, usage>>

(* SetChannelIndex, SetSpreadingFactor and ChangeState(RX), one right      *)
(* after the other when the MAC opens a window.                            *)
Listen(t) ==
  /\ phyState' = "RX"
  /\ tuned' = t
  /\ UNCHANGED <<transmission, locked, bitErrors, usage>>

(* StartTx, after the MAC has put the radio in TX. *)
StartTx ==
  /\ phyState' = "TX"
  /\ transmission' = TRUE
  /\ UNCHANGED <<tuned, locked, bitErrors, usage>>

EndTx ==
  /\ transmission
  /\ phyState' = "IDLE"
  /\ transmission' = FALSE
  /\ UNCHANGED <<tuned, locked, bitErrors, usage>>

-----------------------------------------------------------------------------

(* Some bin the signal has power in already holds more than that. *)
Covered(s) == \E i \in Bins(s) : Psd(s, i) > 0 /\ usage[Cell(s, i)] > Psd(s, i)

PowerOver == [s \in Signals |-> [r \in Signals |-> PowerIn(s, Bins(r))]]

(* Mutant of Interferes: only a stronger signal destroys the other one. *)
InterferesStronger(s) ==
  /\ locked # NoSignal
  /\ Channel[locked] - Channel[s] \in 0..(2 * Half - 1)
  /\ Spreading[locked] = Spreading[s]
  /\ PowerOver[s][s] > PowerOver[locked][s]

(* The new signal destroys the one being received. The distance of their   *)
(* channels is an unsigned number: an interferer on a higher channel is    *)
(* always far away.                                                        *)
Interferes(s) ==
  /\ locked # NoSignal
  /\ Channel[locked] - Channel[s] \in 0..(2 * Half - 1)
  /\ Spreading[locked] = Spreading[s]
  /\ 4 * PowerOver[s][s] > PowerOver[locked][s]

Matches(s) == tuned = [channel |-> Channel[s], spreading |-> Spreading[s]]

(* UpdateBer: errors can only be added to the signal being received. *)
UpdateBer(errors) == errors = bitErrors \/ (locked # NoSignal /\ errors)

(* What a signal puts in the cells of the table.                           *)
Contribution ==
  [s \in Signals |->
     [c \in Cells |-> PowerIn(s, {i \in Bins(s) : Cell(s, i) = c})]]

AddSignal(s) == usage' = [c \in Cells |-> usage[c] + Contribution[s][c]]

(* EndSignal *)
EndSignal(s) == usage' = [c \in Cells |-> usage[c] - Contribution[s][c]]

(* Mutant of Release: the radio is left listening. *)
ReleaseOnly ==
  /\ locked' = NoSignal
  /\ UNCHANGED phyState

(* A reception ends, with or without success: the receiver is turned off.  *)
Release ==
  /\ locked' = NoSignal
  /\ phyState' = "IDLE"

(* StartRx: the signal is added to the table, then it destroys the one     *)
(* being received, or is received itself, or neither.                      *)
StartRx(s) ==
  /\ AddSignal(s)
  /\ \E errors \in BOOLEAN :
       /\ UpdateBer(errors)
       /\ \/ /\ Interferes(s)
             /\ Release
             /\ bitErrors' = errors
          \/ /\ ~Interferes(s)
             /\ ~Covered(s) /\ phyState = "RX" /\ Matches(s) /\ locked = NoSignal
             /\ locked' = s
             /\ bitErrors' = FALSE
             /\ UNCHANGED phyState
          \/ /\ ~Interferes(s)
             /\ Covered(s) \/ phyState # "RX" \/ ~Matches(s) \/ locked # NoSignal
             /\ bitErrors' = errors
             /\ UNCHANGED <<phyState, locked>>
  /\ UNCHANGED <<transmission, tuned>>

(* EndNoise, EndSignal and, for the signal being received, EndRx, all      *)
(* three scheduled by the same StartRx for the same time.                  *)
EndRx(s) ==
  /\ EndSignal(s)
  /\ \E errors \in BOOLEAN :
       /\ UpdateBer(errors)
       /\ bitErrors' = errors
  /\ IF locked = s
     THEN Release
     ELSE UNCHANGED <<phyState, locked>>
  /\ UNCHANGED <<transmission, tuned>>

=============================================================================
