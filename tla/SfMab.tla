------------------------------- MODULE SfMab -------------------------------
(***************************************************************************)
(* The bandit that selects spreading factors (model/sf-mab.cc).  Its arms  *)
(* are the runs of one, two or three adjacent spreading factors.  A set of *)
(* spreading factors, a byte in the code, is the set of its bits: bit b is *)
(* spreading factor 7 + b.  The values of the arms are left out: what an   *)
(* observation does is the sequence of the arms it updates.                *)
(***************************************************************************)
EXTENDS Integers, Sequences

Combinations == 3
Sfs == 5
ByteBits == 0..7

(* How many arms have at most n spreading factors. *)
ArmsOfAtMost(n) == n * Sfs - (n * (n - 1)) \div 2

Arms == 1..ArmsOfAtMost(Combinations)
NoArm == 255          \* 0xFFFFFFFF in the code: beyond every arm

Lowest(S) == CHOOSE b \in S : \A other \in S : b <= other

(* The spreading factors of an arm; all bits for one that does not exist. *)
GetSpreadingFactors(arm) ==
  LET sizes == {n \in 1..Combinations : arm - ArmsOfAtMost(n - 1) + n - 1 < Sfs + 1}
      first == arm - ArmsOfAtMost(Lowest(sizes) - 1) - 1
  IN IF sizes = {} THEN ByteBits ELSE (first..first + Lowest(sizes) - 1) \cap ByteBits

(* The bits above the first run of bits. *)
Above(sfs) == {b \in ByteBits \ sfs : b > Lowest(sfs)}

(* Mutant of GetArm: every size is taken to have as many arms as the first. *)
GetArmUndiscounted(sfs) ==
  IF sfs = {} \/ Above(sfs) = {} THEN NoArm
  ELSE Lowest(sfs) + 1 + (Lowest(Above(sfs)) - Lowest(sfs) - 1) * Sfs

(* The arm of the first run of bits; none if nothing ends the run. *)
GetArm(sfs) ==
  IF sfs = {} \/ Above(sfs) = {} THEN NoArm
  ELSE Lowest(sfs) + 1 + ArmsOfAtMost(Lowest(Above(sfs)) - Lowest(sfs) - 1)

Up(sfs) == {b + 1 : b \in sfs} \cap ByteBits
Down(sfs) == {b - 1 : b \in sfs} \cap ByteBits

FromTo(low, high) == [k \in 1..high - low + 1 |-> low + k - 1]

(* A loop of NewObservation goes over arms with one spreading factor more,  *)
(* or less, in each round: from the arm reached downwards to the one        *)
(* reached upwards.                                                         *)
Begin(arm) == [low |-> arm, high |-> arm, arms |-> <<>>, over |-> FALSE]

(* The first loop: the arms that have the selection and more beside it.     *)
WiderRound(loop) ==
  LET min == GetSpreadingFactors(loop.low)
      max == GetSpreadingFactors(loop.high)
      last == ArmsOfAtMost(Combinations)
  IN IF loop.over THEN loop
     ELSE [low |-> GetArm(min \cup IF 0 \in min THEN Up(min) ELSE Down(min)),
           high |-> GetArm(max \cup IF Sfs - 1 \in max THEN Down(max) ELSE Up(max)),
           arms |-> loop.arms
                      \o FromTo(loop.low, IF loop.high > last THEN last ELSE loop.high),
           over |-> max = ByteBits]

(* The second loop: the arms that have only a part of the selection. The    *)
(* bounds are not compared with the number of arms here.                    *)
NarrowerRound(loop) ==
  LET min == Down(GetSpreadingFactors(loop.low)) \cap GetSpreadingFactors(loop.low)
      max == Up(GetSpreadingFactors(loop.high)) \cap GetSpreadingFactors(loop.high)
  IN IF loop.over THEN loop
     ELSE [low |-> GetArm(min),
           high |-> GetArm(max),
           arms |-> loop.arms
                      \o IF min = {} THEN <<>> ELSE FromTo(GetArm(min), GetArm(max)),
           over |-> min = {}]

(* The arms such a loop updates. *)
Looped(Round(_), arm) ==
  LET after[round \in 0..Combinations] ==
        IF round = 0 THEN Begin(arm) ELSE Round(after[round - 1])
  IN after[Combinations].arms

(* The arms UpdateValue is called for when the observation is about arm. *)
NewObservation(arm) == Looped(WiderRound, arm) \o Looped(NarrowerRound, arm)

=============================================================================
