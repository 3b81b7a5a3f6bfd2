------------------------------- MODULE LoRaPhy -------------------------------
(***************************************************************************)
(* The half-duplex transceiver of an end device (model/lora-phy.cc).       *)
(*                                                                         *)
(* The radio is driven by its MAC (ChangeState, StartTx) and by the        *)
(* spectrum channel (StartRx, and the EndTx and EndRx events it schedules  *)
(* for itself).  Each operator below is the whole effect of one of those   *)
(* entry points on the radio; the callbacks they make into the MAC are     *)
(* conjoined by LoRaNetDevice, because the calls are synchronous.          *)
(*                                                                         *)
(* Signal strength, interference and bit errors are abstracted: which      *)
(* signal the receiver locks on, and whether a reception ends with errors  *)
(* or is cut short by an interferer, is a choice of the environment.       *)
(***************************************************************************)

VARIABLES
  phyState,      \* m_state: what the radio is set to
  receiving,     \* m_params # 0: locked on a signal, its EndRx event m_event pending
  transmission   \* m_transmission: a frame is on air, its EndTx event pending

phyVars == <<phyState, receiving, transmission>>

PhyTypeOK ==
  /\ phyState \in {"IDLE", "TX", "RX"}
  /\ receiving \in BOOLEAN
  /\ transmission \in BOOLEAN

PhyInit ==
  /\ phyState = "IDLE"
  /\ receiving = FALSE
  /\ transmission = FALSE

-----------------------------------------------------------------------------

(* ChangeState: leaving for IDLE also drops the signal being received. *)
ChangeState(s) ==
  /\ phyState' = s
  /\ receiving' = (receiving /\ s # "IDLE")
  /\ UNCHANGED transmission

(* StartTx, right after the MAC has put the radio in TX: the only state in *)
(* which StartTx accepts a frame. Nothing resets m_params here.            *)
StartTx ==
  /\ phyState' = "TX"
  /\ transmission' = TRUE
  /\ UNCHANGED receiving

(* EndTx assigns m_state itself and does not go through ChangeState. *)
EndTx ==
  /\ transmission
  /\ phyState' = "IDLE"
  /\ transmission' = FALSE
  /\ UNCHANGED receiving

(* StartRx of a signal that matches the radio's channel and spreading      *)
(* factor, while it listens and has not locked on another one.             *)
StartRx ==
  /\ phyState = "RX"
  /\ ~receiving
  /\ receiving' = TRUE
  /\ UNCHANGED <<phyState, transmission>>

(* Mutant of EndRx: the radio keeps the state the callback has set. *)
EndRxListening ==
  /\ receiving
  /\ receiving' = FALSE
  /\ UNCHANGED <<phyState, transmission>>

(* The reception is over: EndRx, or StartRx of an interferer strong enough *)
(* to destroy it. Both leave the radio in IDLE, whatever the callback they *)
(* make in between has set.                                                *)
EndRx ==
  /\ receiving
  /\ phyState' = "IDLE"
  /\ receiving' = FALSE
  /\ UNCHANGED transmission

=============================================================================
