--------------------------- MODULE MCLoRaSimulation ---------------------------
EXTENDS LoRaSimulation

MCDevices == 1..1
MCGateways == 1..2

(* Near the first gateway, near the second, and between the two. *)
MCPlaces == {<<1, 3>>, <<3, 1>>, <<2, 2>>}

MCMessages == {}
MCPrograms == LoRa \cup {LoRaBattery, RsExample}

=============================================================================
