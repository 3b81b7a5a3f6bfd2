---------------------- MODULE LoRaRadioEnergyModelProofs ----------------------
(***************************************************************************)
(* Proofs about LoRaRadioEnergyModel, for any currents, any battery and    *)
(* runs of any length.                                                     *)
(***************************************************************************)
EXTENDS LoRaRadioEnergyModel, TLAPS

TypeOK ==
  /\ PhyTypeOK
  /\ now \in Nat
  /\ currentState \in {"IDLE", "RX", "TX"}
  /\ totalEnergyConsumption \in Nat
  /\ lastUpdateTime \in Nat
  /\ remainingEnergy \in Nat
  /\ sourceUpdateTime \in Nat
  /\ drained \in BOOLEAN

(* The model knows the state the radio is in; the source has been brought   *)
(* up to date since the model last looked, because the model makes it; and  *)
(* an empty battery stays empty.                                           *)
IInv ==
  /\ TypeOK
  /\ currentState = phyState
  /\ lastUpdateTime <= sourceUpdateTime
  /\ sourceUpdateTime <= now
  /\ drained => remainingEnergy = 0
  /\ AccountsAgree

(* What has been used when the source is brought up to date: by the model's *)
(* account, and since the model last looked.                               *)
UsedAt(time) ==
  totalEnergyConsumption + (time - lastUpdateTime) * Current[phyState]

-----------------------------------------------------------------------------
(* What is drawn in two periods of one state adds up. *)
LEMMA Drawn ==
  ASSUME NEW a \in Int, NEW b \in Int, NEW c \in Int, NEW current \in Int
  PROVE  (c - a) * current = (b - a) * current + (c - b) * current
OBVIOUS

(* Energies are products of natural numbers. *)
LEMMA Products ==
  ASSUME NEW a \in Nat, NEW b \in Nat
  PROVE  a * b \in Nat
OBVIOUS

(* Every state draws a current. *)
LEMMA Currents ==
  ASSUME IInv
  PROVE  Current[phyState] \in Nat /\ Current[currentState] \in Nat
BY EnergyAssumption DEF IInv, TypeOK, PhyTypeOK

(* Bringing the source up to date keeps its account right. *)
LEMMA SourceUpToDate ==
  ASSUME IInv, UpdateEnergySource
  PROVE  /\ remainingEnergy' \in Nat
         /\ drained' \in BOOLEAN
         /\ sourceUpdateTime' = now
         /\ drained' => remainingEnergy' = 0
         /\ UsedAt(now) \in Nat
         /\ IF drained' THEN UsedAt(now) >= InitialEnergy
                        ELSE remainingEnergy' = InitialEnergy - UsedAt(now)
<1> DEFINE c == Current[phyState]
           drawn == (now - sourceUpdateTime) * c
           before == (sourceUpdateTime - lastUpdateTime) * c
           used == totalEnergyConsumption + before
<1>1. /\ now \in Nat /\ sourceUpdateTime \in Nat /\ lastUpdateTime \in Nat
      /\ totalEnergyConsumption \in Nat /\ remainingEnergy \in Nat
      /\ now - sourceUpdateTime \in Nat /\ sourceUpdateTime - lastUpdateTime \in Nat
      /\ InitialEnergy \in Nat /\ drained \in BOOLEAN
  BY EnergyAssumption DEF IInv, TypeOK
<1>2. c \in Nat
  BY Currents
<1>3. drawn \in Nat /\ before \in Nat /\ UsedAt(now) = used + drawn
  <2>1. drawn \in Nat /\ before \in Nat
    BY <1>1, <1>2, Products
  <2>2. (now - lastUpdateTime) * c = before + drawn
    BY <1>1, <1>2, Drawn
  <2> QED BY <1>1, <2>1, <2>2 DEF UsedAt
<1>4. /\ remainingEnergy' =
           IF drawn < remainingEnergy THEN remainingEnergy - drawn ELSE 0
      /\ sourceUpdateTime' = now
      /\ drained' = (drained \/ drawn >= remainingEnergy)
  BY DEF UpdateEnergySource, DoGetCurrentA, IInv
<1>5. /\ drained => remainingEnergy = 0
      /\ IF drained THEN used >= InitialEnergy
                    ELSE remainingEnergy = InitialEnergy - used
  BY DEF IInv, AccountsAgree
<1>6. drained' \in BOOLEAN
  BY <1>4, Zenon
<1>7. used \in Nat
  BY <1>1, <1>3
<1> HIDE DEF drawn, before, used
<1>8. UsedAt(now) \in Nat
  BY <1>1, <1>3, <1>7
<1>9. CASE drained \/ drawn >= remainingEnergy
  <2>1. drained' /\ remainingEnergy' = 0
    <3>1. drawn >= remainingEnergy
      BY <1>1, <1>3, <1>5, <1>9
    <3>2. remainingEnergy' = 0
      BY <1>1, <1>3, <1>4, <3>1
    <3>3. drained'
      BY <1>4, <3>1, Zenon
    <3> QED BY <3>2, <3>3
  <2>2. UsedAt(now) >= InitialEnergy
    BY <1>1, <1>3, <1>5, <1>7, <1>9
  <2> QED BY <1>4, <1>6, <1>8, <2>1, <2>2
<1>10. CASE ~(drained \/ drawn >= remainingEnergy)
  <2>1. ~drained' /\ remainingEnergy' = remainingEnergy - drawn
    BY <1>1, <1>3, <1>4, <1>10
  <2> QED BY <1>1, <1>3, <1>4, <1>5, <1>6, <1>7, <1>8, <1>10, <2>1
<1> QED BY <1>9, <1>10

(* The energy is what the radio has used in each state it has been in. *)
LEMMA RadioChangesStep ==
  ASSUME IInv, RadioChanges
  PROVE  IInv'
<1>1. PhyTypeOK'
  BY DEF RadioChanges, IInv, TypeOK, PhyTypeOK, ChangeState, StartTx, EndTx, StartRx,
         EndRx
<1>2. CASE phyState' = phyState
  BY <1>1, <1>2
  DEF RadioChanges, StateValue, modelVars, sourceVars, IInv, TypeOK, AccountsAgree
<1>3. CASE phyState' # phyState
  <2>1. ChangeLoRaState(phyState') /\ now' = now
    BY <1>3 DEF RadioChanges, StateValue
  <2>2. /\ remainingEnergy' \in Nat
        /\ drained' \in BOOLEAN
        /\ sourceUpdateTime' = now
        /\ drained' => remainingEnergy' = 0
        /\ UsedAt(now) \in Nat
        /\ IF drained' THEN UsedAt(now) >= InitialEnergy
                       ELSE remainingEnergy' = InitialEnergy - UsedAt(now)
    BY <2>1, SourceUpToDate DEF ChangeLoRaState
  <2>3. /\ totalEnergyConsumption' = UsedAt(now)
        /\ lastUpdateTime' = now
        /\ currentState' = phyState'
    BY <2>1 DEF ChangeLoRaState, SetLoRaRadioState, UsedAt, IInv
  <2>4. now \in Nat
    BY DEF IInv, TypeOK
  <2>5. TypeOK'
    BY <1>1, <2>1, <2>2, <2>3, <2>4 DEF TypeOK, PhyTypeOK
  <2>6. AccountsAgree'
    <3>1. Current[phyState'] \in Nat
      BY <1>1, EnergyAssumption DEF PhyTypeOK
    <3>2. (sourceUpdateTime' - lastUpdateTime') * Current[phyState'] = 0
      <4>1. sourceUpdateTime' - lastUpdateTime' = 0
        BY <2>2, <2>3, <2>4
      <4> QED BY <3>1, <4>1
    <3> QED BY <2>2, <2>3, <3>2 DEF AccountsAgree
  <2> QED BY <2>1, <2>2, <2>3, <2>4, <2>5, <2>6 DEF IInv
<1> QED BY <1>2, <1>3

(* The source looks at the model and accounts for the current of the        *)
(* moment.                                                                  *)
LEMMA PeriodicUpdateStep ==
  ASSUME IInv, PeriodicUpdate
  PROVE  IInv'
<1>1. UNCHANGED <<phyVars, now, modelVars>> /\ UpdateEnergySource
  BY DEF PeriodicUpdate
<1>2. /\ remainingEnergy' \in Nat
      /\ drained' \in BOOLEAN
      /\ sourceUpdateTime' = now
      /\ drained' => remainingEnergy' = 0
      /\ IF drained' THEN UsedAt(now) >= InitialEnergy
                     ELSE remainingEnergy' = InitialEnergy - UsedAt(now)
  BY <1>1, SourceUpToDate
<1>3. TypeOK'
  BY <1>1, <1>2 DEF IInv, TypeOK, PhyTypeOK, phyVars, modelVars
<1>4. AccountsAgree'
  BY <1>1, <1>2 DEF AccountsAgree, UsedAt, phyVars, modelVars
<1>5. lastUpdateTime <= now /\ now <= now
  BY DEF IInv, TypeOK
<1> QED BY <1>1, <1>2, <1>3, <1>4, <1>5 DEF IInv, phyVars, modelVars

(* Both accounts get older. *)
LEMMA TimePassesStep ==
  ASSUME IInv, TimePasses
  PROVE  IInv'
BY DEF TimePasses, IInv, TypeOK, PhyTypeOK, AccountsAgree, phyVars, modelVars,
       sourceVars

-----------------------------------------------------------------------------
(* The inductive invariant: what each account still has to add covers the   *)
(* same time at the same current (ChangeState and DoGetCurrentA of          *)
(* lora-radio-energy-model.cc).                                             *)
THEOREM Invariance == Spec => []IInv
<1>1. Init => IInv
  <2> SUFFICES ASSUME Init PROVE IInv
    OBVIOUS
  <2>1. TypeOK
    BY EnergyAssumption DEF Init, PhyInit, TypeOK, PhyTypeOK
  <2>2. Current["IDLE"] \in Nat
    BY EnergyAssumption
  <2>3. (0 - 0) * Current["IDLE"] = 0
    BY <2>2
  <2> QED BY <2>1, <2>3, EnergyAssumption DEF Init, PhyInit, IInv, AccountsAgree
<1>2. IInv /\ [Next]_vars => IInv'
  <2>1. IInv /\ UNCHANGED vars => IInv'
    BY DEF vars, IInv, TypeOK, PhyTypeOK, AccountsAgree, phyVars, modelVars, sourceVars
  <2> QED BY <2>1, RadioChangesStep, PeriodicUpdateStep, TimePassesStep DEF Next
<1> QED BY <1>1, <1>2, PTL DEF Spec

(* Every field keeps its type, the energy that remains included: it never   *)
(* goes below zero.                                                         *)
THEOREM TypeCorrectness == Spec => []TypeOK
BY Invariance, PTL DEF IInv

(* The model always accounts for the state the radio is in: every change of *)
(* it reaches ChangeState of lora-radio-energy-model.cc.                    *)
THEOREM ModelFollowsRadio == Spec => [](currentState = phyState)
BY Invariance, PTL DEF IInv

(* The account of the model (ChangeState) and that of the battery (its      *)
(* periodic updates) agree, whenever each is brought up to date.            *)
THEOREM AccountsAlwaysAgree == Spec => []AccountsAgree
BY Invariance, PTL DEF IInv

=============================================================================
