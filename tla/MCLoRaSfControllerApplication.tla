------------------- MODULE MCLoRaSfControllerApplication -------------------
(* Instances of LoRaSfControllerApplication for model checking. *)
EXTENDS LoRaSfControllerApplication

(* The first device moves, the second is always heard well. *)
MCRssis == [d \in Devices |-> IF d = 1 THEN {1, 3} ELSE {2}]

(* The group of the device heard best may be told any arm of the frequency  *)
(* that is calculated twice; elsewhere there is one.                        *)
MCSelectable ==
  [f \in Frequencies |->
     [g \in Groups |-> IF f = 2 /\ g = 0 THEN Arms ELSE {8}]]

=============================================================================
