------------------------------ MODULE LoRaGwPhy ------------------------------
(***************************************************************************)
(* The receivers of a gateway (model/lora-gw-phy.cc).                      *)
(*                                                                         *)
(* A gateway listens on every channel and spreading factor at once: each   *)
(* signal that starts is tracked until it ends, with the number of its bit *)
(* errors. 0, 1 to 4 and more are all the code tells apart: a signal with  *)
(* none counts as a reception, one with fewer than 5 is delivered, and a   *)
(* destroyed one has 10. Which bits are wrong is the environment's choice. *)
(*                                                                         *)
(* StartTx leaves the receivers alone but for the noise: a gateway is      *)
(* full duplex.                                                            *)
(***************************************************************************)
EXTENDS LoRaSpectrumSignal, FiniteSets

CONSTANT MaxReceptions     \* 8 in the code

VARIABLE ber        \* m_params: the level of bit errors of each tracked signal

Levels == {"none", "few", "many"}

Tracked == {s \in Signals : ber[s] # "untracked"}

GwPhyInit == ber = [s \in Signals |-> "untracked"]

-----------------------------------------------------------------------------

\* The levels a signal can have after the bits received since the last check.
Later(level) ==
  CASE level = "none" -> Levels
    [] level = "few"  -> {"few", "many"}
    [] OTHER          -> {level}

(* UpdateBer: what the errors of the tracked signals can be by now. *)
UpdateBer ==
  {[s \in Signals |-> IF s \in Tracked THEN level[s] ELSE ber[s]] :
     level \in {l \in [Tracked -> Levels] : \A s \in Tracked : l[s] \in Later(ber[s])}}

(* The powers StartRx compares. Only the first 25 bins are added up: a     *)
(* signal above 868.625 MHz has no power there.                            *)
Compared == [s \in Signals |-> PowerIn(s, Bins(s) \cap 0..24)]

Overpowers(r, s) == Compared[r] > 4 * Compared[s]

(* Mutant of Destroyed: the signals that were there first survive. *)
DestroyedNewcomer(s, tracked) ==
  IF \E r \in tracked : Rivals(r, s) /\ ~Overpowers(s, r) THEN {s} ELSE {}

(* The signals destroyed by the collisions of newcomer s with those that   *)
(* are tracked: of each pair, the one the other overpowers, or both.       *)
Destroyed(s, tracked) ==
  LET met == {r \in tracked : Rivals(r, s)}
  IN  {r \in met : ~Overpowers(r, s)}
        \cup (IF \E r \in met : ~Overpowers(s, r) THEN {s} ELSE {})

(* GetReceptions: the tracked signals without any error. *)
GetReceptions(b) == Cardinality({s \in Signals : b[s] = "none"})

(* Too many receptions to track one more; the newcomer is not counted. *)
Full(b) == GetReceptions(b) > MaxReceptions

(* StartRx *)
StartRx(s) ==
  \E now \in UpdateBer :
    LET lost == Destroyed(s, Tracked)
        b    == [r \in Signals |-> IF r \in lost THEN "many" ELSE now[r]]
    IN  ber' = [b EXCEPT ![s] = IF s \in lost \/ Full(b) THEN "many" ELSE "none"]

(* EndNoise and EndRx, scheduled together: the signal is delivered with    *)
(* fewer than 5 bit errors, and an error is reported otherwise.            *)
EndRx(s, delivered) ==
  \E now \in UpdateBer :
    /\ s \in Tracked
    /\ delivered = (now[s] # "many")
    /\ ber' = [now EXCEPT ![s] = "untracked"]

=============================================================================
