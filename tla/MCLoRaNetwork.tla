---------------------------- MODULE MCLoRaNetwork ----------------------------
(* Instances of LoRaNetwork for model checking. *)
EXTENDS LoRaNetwork

(* What the applications of the library send: a header with a command. *)
MCCommand == {[ack |-> NoAck, command |-> TRUE, data |-> FALSE]}

=============================================================================
