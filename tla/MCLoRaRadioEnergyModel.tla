----------------------- MODULE MCLoRaRadioEnergyModel -----------------------
EXTENDS LoRaRadioEnergyModel

(* A battery for three seconds of sending. *)
MCInitialEnergy == 3 * DefaultCurrents.TX

=============================================================================
