----------------------- MODULE MCLoRaCommandExchange -----------------------
(* Instances of LoRaCommandExchange for model checking. *)
EXTENDS LoRaCommandExchange

(* The mask of the second channel. *)
Second == 16384

(* The requests of the library's applications, the ones its tests have      *)
(* commented out, and those a device refuses in part or in whole.           *)
MCRequests ==
  {PowerRequest, NoPowerRequest, LinkAdrReq(3, 6, Second, 0),
   NewChannelReq(1, 8683000, 0, 3), NewChannelReq(6, 8671234, 2, 4), DutyCycleReq(0),
   RxParamSetupReq(1, 5, 8681230), RxTimingSetupReq(3), DevStatusReq}

(* What LoRaPowerApplication answers every frame with. *)
MCPowerApplication == {PowerRequest}

MCEnergies == {100}
MCSnr == {-40}

=============================================================================
