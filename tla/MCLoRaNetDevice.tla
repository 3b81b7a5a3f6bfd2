--------------------------- MODULE MCLoRaNetDevice ---------------------------
(* Instances of LoRaNetDevice for model checking. *)
EXTENDS LoRaNetDevice

Adr(dr, mask, n) == [dr |-> dr, mask |-> mask, nbRep |-> n]

(* A mask that names no channel is rejected. *)
MCRejectedMask == {Adr(0, {}, 1)}

(* A mask that is rejected, one that names an empty slot after a channel    *)
(* (applied in part), one that is accepted, and one that leaves a channel.  *)
MCAllCommands ==
  MCRejectedMask \cup {Adr(1, {0, 6}, 1), Adr(1, {0, 1}, 0), Adr(0, {1}, 0)}

=============================================================================
