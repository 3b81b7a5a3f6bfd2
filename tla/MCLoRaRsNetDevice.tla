------------------------- MODULE MCLoRaRsNetDevice -------------------------
(* Instances of LoRaRsNetDevice for model checking. *)
EXTENDS LoRaRsNetDevice
=============================================================================
