------------------------ MODULE LoRaRadioEnergyModel ------------------------
(***************************************************************************)
(* The energy a device's radio uses (model/lora-radio-energy-model.cc) and *)
(* the battery it takes it from (ns-3's BasicEnergySource).                *)
(*                                                                         *)
(* Both keep an account. The model adds up what it used each time the      *)
(* radio changes state, which it is told through the StateValue trace of   *)
(* the radio (LoRaRadioEnergyModelHelper::DoInstall); the source subtracts *)
(* what the model draws at such a change, and every second in between. The *)
(* supply voltage is constant and taken as 1.                              *)
(***************************************************************************)
EXTENDS Integers, LoRaPhy

CONSTANTS
  Current,         \* the current drawn in each state of the radio
  InitialEnergy,   \* of the battery
  MaxTime          \* bound: how long a run takes

ASSUME EnergyAssumption ==
  /\ Current \in [{"IDLE", "RX", "TX"} -> Nat]
  /\ {InitialEnergy, MaxTime} \subseteq Nat

VARIABLES
  now,                     \* Simulator::Now ()
  currentState,            \* m_currentState
  totalEnergyConsumption,  \* m_totalEnergyConsumption
  lastUpdateTime,          \* m_lastUpdateTime
  remainingEnergy,         \* of the source
  sourceUpdateTime,        \* when that was brought up to date
  drained                  \* the source has run out

modelVars == <<currentState, totalEnergyConsumption, lastUpdateTime>>
sourceVars == <<remainingEnergy, sourceUpdateTime, drained>>
vars == <<phyVars, now, modelVars, sourceVars>>

(* The currents of a new model (IdleCurrentA, RxCurrentA, TxCurrentA), in   *)
(* units of 20 nA.                                                         *)
DefaultCurrents == [IDLE |-> 26, RX |-> 25000, TX |-> 350000]

(* SetEnergySource on a new device. *)
Init ==
  /\ PhyInit
  /\ now = 0
  /\ currentState = "IDLE"
  /\ totalEnergyConsumption = 0
  /\ lastUpdateTime = 0
  /\ remainingEnergy = InitialEnergy
  /\ sourceUpdateTime = 0
  /\ drained = FALSE

-----------------------------------------------------------------------------

(* Mutant of DoGetCurrentA: the state the radio is changing to. *)
CurrentOfNewState == Current[phyState']

DoGetCurrentA == Current[currentState]

(* The source takes what has been drawn since it was last brought up to    *)
(* date, as far as there is any, and tells the models when it is empty.    *)
UpdateEnergySource ==
  LET drawn == (now - sourceUpdateTime) * DoGetCurrentA
  IN  /\ remainingEnergy' =
           IF drawn < remainingEnergy THEN remainingEnergy - drawn ELSE 0
      /\ sourceUpdateTime' = now
      /\ drained' = (drained \/ drawn >= remainingEnergy)

SetLoRaRadioState(state) == currentState' = state

(* The handlers of the source's notifications are empty, so                *)
(* m_sourcedepleted stays 0 and the new state is always set.               *)
ChangeLoRaState(newState) ==
  /\ totalEnergyConsumption' =
       totalEnergyConsumption + (now - lastUpdateTime) * Current[currentState]
  /\ lastUpdateTime' = now
  /\ UpdateEnergySource
  /\ SetLoRaRadioState(newState)

(* The trace StateValue of the radio, to which the helper has connected    *)
(* the model, fires when the value changes.                                *)
StateValue ==
  IF phyState' = phyState
  THEN UNCHANGED <<modelVars, sourceVars>>
  ELSE ChangeLoRaState(phyState')

(* The radio changes as its MAC and the signals make it. *)
RadioChanges ==
  /\ \/ \E s \in {"IDLE", "RX"} : phyState # "TX" /\ ChangeState(s)
     \/ phyState = "IDLE" /\ StartTx
     \/ EndTx
     \/ StartRx
     \/ EndRx
  /\ StateValue
  /\ UNCHANGED now

(* The source's own update, once a second. *)
PeriodicUpdate ==
  /\ UNCHANGED <<phyVars, now, modelVars>>
  /\ UpdateEnergySource

(* Time passes until something happens, the next update at the latest. *)
TimePasses ==
  /\ now < MaxTime
  /\ now' = now + 1
  /\ UNCHANGED <<phyVars, modelVars, sourceVars>>

Next == RadioChanges \/ PeriodicUpdate \/ TimePasses

Spec == Init /\ [][Next]_vars

-----------------------------------------------------------------------------

(* The two accounts agree, although each is brought up to date at times of *)
(* its own: until the battery is empty it has lost what the model has used *)
(* and what the radio has drawn, in the state it is really in, since the   *)
(* model last looked; an empty one has lost no more.                       *)
AccountsAgree ==
  LET used == totalEnergyConsumption
                + (sourceUpdateTime - lastUpdateTime) * Current[phyState]
  IN  IF drained THEN used >= InitialEnergy ELSE remainingEnergy = InitialEnergy - used

=============================================================================
