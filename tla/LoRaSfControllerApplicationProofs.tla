----------------- MODULE LoRaSfControllerApplicationProofs -----------------
(***************************************************************************)
(* Proofs about the controller of the spreading factors and its bandits,   *)
(* for any devices, strengths, losses and choices of the bandits.          *)
(***************************************************************************)
EXTENDS LoRaSfControllerApplication, FiniteSetTheorems, TLAPS

-----------------------------------------------------------------------------
(* The arms: five of one spreading factor, four of two, three of three.    *)

LEMMA ArmNumbers ==
  /\ ArmsOfAtMost(0) = 0 /\ ArmsOfAtMost(1) = 5
  /\ ArmsOfAtMost(2) = 9 /\ ArmsOfAtMost(3) = 12
  /\ Arms = 1..12
BY DEF ArmsOfAtMost, Sfs, Combinations, Arms

LEMMA ByteLists == ByteBits = {0, 1, 2, 3, 4, 5, 6, 7}
BY DEF ByteBits

LEMMA LowestOf ==
  ASSUME NEW S \in SUBSET Int, NEW low \in S, \A other \in S : low <= other
  PROVE  Lowest(S) = low
<1>1. \A b \in S : (\A other \in S : b <= other) => b = low
  OBVIOUS
<1> QED BY <1>1 DEF Lowest

LEMMA HighestOf ==
  ASSUME NEW S \in SUBSET Int, NEW high \in S, \A other \in S : high >= other
  PROVE  Highest(S) = high
<1>1. \A b \in S : (\A other \in S : b >= other) => b = high
  OBVIOUS
<1> QED BY <1>1 DEF Highest

(* The runs of spreading factors the arms stand for (GetSpreadingFactors of *)
(* sf-mab.cc).                                                              *)
LEMMA Runs ==
  /\ \A arm \in 1..5 : GetSpreadingFactors(arm) = {arm - 1}
  /\ \A arm \in 6..9 : GetSpreadingFactors(arm) = {arm - 6, arm - 5}
  /\ \A arm \in 10..12 : GetSpreadingFactors(arm) = {arm - 10, arm - 9, arm - 8}
  /\ \A arm \in {13, 14, NoArm} : GetSpreadingFactors(arm) = ByteBits
<1> DEFINE sizes(arm) ==
      {n \in 1..Combinations : arm - ArmsOfAtMost(n - 1) + n - 1 < Sfs + 1}
<1>1. ASSUME NEW arm \in Nat
      PROVE  /\ sizes(arm) \subseteq 1..3
             /\ 1 \in sizes(arm) <=> arm <= 5
             /\ 2 \in sizes(arm) <=> arm <= 9
             /\ 3 \in sizes(arm) <=> arm <= 12
  BY ArmNumbers DEF Combinations, Sfs
<1>2. ASSUME NEW arm \in Nat, NEW n \in sizes(arm), \A m \in sizes(arm) : n <= m
      PROVE  GetSpreadingFactors(arm) =
               LET first == arm - ArmsOfAtMost(n - 1) - 1
               IN (first..first + n - 1) \cap ByteBits
  <2>1. Lowest(sizes(arm)) = n
    <3>1. sizes(arm) \in SUBSET Int
      BY <1>1
    <3> HIDE DEF sizes
    <3> QED BY <1>2, <3>1, LowestOf
  <2>2. sizes(arm) # {}
    BY <1>2
  <2> QED BY <2>1, <2>2, Zenon DEF GetSpreadingFactors
<1>3. ASSUME NEW arm \in 1..5 PROVE GetSpreadingFactors(arm) = {arm - 1}
  <2>1. 1 \in sizes(arm) /\ \A m \in sizes(arm) : 1 <= m
    BY <1>1
  <2>2. GetSpreadingFactors(arm) = (arm - 1..arm - 1) \cap ByteBits
    <3> HIDE DEF sizes
    <3> QED BY <1>2, <2>1, ArmNumbers
  <2>3. arm - 1 \in ByteBits
    BY DEF ByteBits
  <2> QED BY <2>2, <2>3
<1>4. ASSUME NEW arm \in 6..9 PROVE GetSpreadingFactors(arm) = {arm - 6, arm - 5}
  <2>1. 2 \in sizes(arm) /\ \A m \in sizes(arm) : 2 <= m
    BY <1>1
  <2>2. GetSpreadingFactors(arm) = (arm - 6..arm - 5) \cap ByteBits
    <3> HIDE DEF sizes
    <3> QED BY <1>2, <2>1, ArmNumbers
  <2> QED BY <2>2, ByteLists
<1>5. ASSUME NEW arm \in 10..12
      PROVE  GetSpreadingFactors(arm) = {arm - 10, arm - 9, arm - 8}
  <2>1. 3 \in sizes(arm) /\ \A m \in sizes(arm) : 3 <= m
    BY <1>1
  <2>2. GetSpreadingFactors(arm) = (arm - 10..arm - 8) \cap ByteBits
    <3> HIDE DEF sizes
    <3> QED BY <1>2, <2>1, ArmNumbers
  <2> QED BY <2>2, ByteLists
<1>6. ASSUME NEW arm \in {13, 14, NoArm} PROVE GetSpreadingFactors(arm) = ByteBits
  <2>1. sizes(arm) = {}
    BY <1>1 DEF NoArm
  <2> QED BY <2>1 DEF GetSpreadingFactors
<1> QED BY <1>3, <1>4, <1>5, <1>6

(* The arm of a run that something ends (GetArm of sf-mab.cc).             *)
LEMMA RunArm ==
  ASSUME NEW low \in 0..6, NEW size \in 1..4, low + size < 8
  PROVE  GetArm(low..low + size - 1) = low + 1 + ArmsOfAtMost(size - 1)
<1> DEFINE run == low..low + size - 1
<1>1. Lowest(run) = low
  <2>1. run \in SUBSET Int /\ low \in run /\ \A other \in run : low <= other
    OBVIOUS
  <2> HIDE DEF run
  <2> QED BY <2>1, LowestOf
<1>2. Above(run) = low + size..7
  <2>1. ASSUME NEW b \in ByteBits
        PROVE  b \notin run /\ b > low <=> b \in low + size..7
    BY DEF ByteBits
  <2>2. low + size..7 \subseteq ByteBits
    BY DEF ByteBits
  <2> HIDE DEF run
  <2> QED BY <1>1, <2>1, <2>2 DEF Above
<1>3. Lowest(low + size..7) = low + size
  <2> DEFINE above == low + size..7
  <2>1. /\ above \in SUBSET Int /\ low + size \in above
        /\ \A other \in above : low + size <= other
    OBVIOUS
  <2> HIDE DEF above
  <2>2. Lowest(above) = low + size
    BY <2>1, LowestOf
  <2> QED BY <2>2 DEF above
<1>4. run # {} /\ Above(run) # {}
  <2>1. low \in run /\ low + size \in low + size..7
    OBVIOUS
  <2> HIDE DEF run
  <2> QED BY <1>2, <2>1
<1>5. GetArm(run) = low + 1 + ArmsOfAtMost(low + size - low - 1)
  <2> HIDE DEF run
  <2> QED BY <1>1, <1>2, <1>3, <1>4, SMT DEF GetArm
<1>6. low + size - low - 1 = size - 1
  OBVIOUS
<1> QED BY <1>5, <1>6

(* A run grows by one spreading factor, or shrinks by one, at an end.      *)
LEMMA GrownUp ==
  ASSUME NEW low \in 0..6, NEW high \in low..6
  PROVE  (low..high) \cup Up(low..high) = low..high + 1
<1>1. Up(low..high) \subseteq low..high + 1
  BY DEF Up
<1>2. high + 1 \in Up(low..high)
  BY DEF Up, ByteBits
<1> QED BY <1>1, <1>2

LEMMA GrownDown ==
  ASSUME NEW low \in 1..7, NEW high \in low..7
  PROVE  (low..high) \cup Down(low..high) = low - 1..high
<1>1. Down(low..high) \subseteq low - 1..high
  BY DEF Down
<1>2. low - 1 \in Down(low..high)
  BY DEF Down, ByteBits
<1> QED BY <1>1, <1>2

LEMMA Shrunk ==
  ASSUME NEW low \in 0..7, NEW high \in low..7
  PROVE  /\ Down(low..high) \cap (low..high) = low..high - 1
         /\ Up(low..high) \cap (low..high) = low + 1..high
<1>1. Down(low..high) \cap (low..high) \subseteq low..high - 1
  BY DEF Down
<1>2. ASSUME NEW b \in low..high - 1 PROVE b \in Down(low..high)
  <2>1. b + 1 \in low..high /\ b = (b + 1) - 1 /\ b \in ByteBits
    BY DEF ByteBits
  <2> QED BY <2>1 DEF Down
<1>3. Up(low..high) \cap (low..high) \subseteq low + 1..high
  BY DEF Up
<1>4. ASSUME NEW b \in low + 1..high PROVE b \in Up(low..high)
  <2>1. b - 1 \in low..high /\ b = (b - 1) + 1 /\ b \in ByteBits
    BY DEF ByteBits
  <2> QED BY <2>1 DEF Up
<1> QED BY <1>1, <1>2, <1>3, <1>4

(* The arm of a run of n spreading factors, the lowest of them b.          *)
Arm(b, n) == b + 1 + ArmsOfAtMost(n - 1)

LEMMA ArmRun ==
  ASSUME NEW n \in 1..3, NEW b \in 0..5 - n
  PROVE  GetSpreadingFactors(Arm(b, n)) = b..b + n - 1
<1>1. CASE n = 1
  BY <1>1, ArmNumbers, Runs DEF Arm
<1>2. CASE n = 2
  <2>1. Arm(b, n) = b + 6 /\ b + 6 \in 6..9
    BY <1>2, ArmNumbers DEF Arm
  <2>2. GetSpreadingFactors(b + 6) = {b, b + 1}
    BY <2>1, Runs
  <2>3. {b, b + 1} = b..b + 1 /\ b + n - 1 = b + 1
    BY <1>2
  <2> QED BY <2>1, <2>2, <2>3, Zenon
<1>3. CASE n = 3
  <2>1. Arm(b, n) = b + 10 /\ b + 10 \in 10..12
    BY <1>3, ArmNumbers DEF Arm
  <2>2. GetSpreadingFactors(b + 10) = {b, b + 1, b + 2}
    BY <2>1, Runs
  <2>3. {b, b + 1, b + 2} = b..b + 2 /\ b + n - 1 = b + 2
    BY <1>3
  <2> QED BY <2>1, <2>2, <2>3, Zenon
<1> QED BY <1>1, <1>2, <1>3

LEMMA RunArms ==
  ASSUME NEW n \in 1..4, NEW b \in 0..5 - n, NEW high, high = b + n - 1
  PROVE  GetArm(b..high) = Arm(b, n)
<1>1. b \in 0..6 /\ b + n < 8
  OBVIOUS
<1>2. GetArm(b..b + n - 1) = b + 1 + ArmsOfAtMost(n - 1)
  BY <1>1, RunArm, Zenon
<1> QED BY <1>2, Zenon DEF Arm

(* The lowest and the highest run that contain a run and one more          *)
(* spreading factor.                                                       *)
LowStart(b) == IF b = 0 THEN 0 ELSE b - 1
HighStart(b, n) == IF b + n = 5 THEN b - 1 ELSE b

LEMMA WiderRoundIs ==
  ASSUME NEW n \in 1..3, NEW b \in 0..5 - n, NEW c \in 0..5 - n, NEW arms
  PROVE  WiderRound([low |-> Arm(b, n), high |-> Arm(c, n), arms |-> arms, over |-> FALSE])
           = [low |-> Arm(LowStart(b), n + 1), high |-> Arm(HighStart(c, n), n + 1),
              arms |-> arms \o FromTo(Arm(b, n), Arm(c, n)), over |-> FALSE]
<1> DEFINE min == b..b + n - 1
           max == c..c + n - 1
<1>1. min = GetSpreadingFactors(Arm(b, n)) /\ max = GetSpreadingFactors(Arm(c, n))
  BY ArmRun
<1>2. GetArm(min \cup IF 0 \in min THEN Up(min) ELSE Down(min)) = Arm(LowStart(b), n + 1)
  <2>1. CASE b = 0
    <3>1. min \cup Up(min) = b..b + n - 1 + 1
      <4>1. b \in 0..6 /\ b + n - 1 \in b..6
        BY <2>1
      <4> QED BY <4>1, GrownUp, Zenon
    <3>2. GetArm(b..b + n - 1 + 1) = Arm(0, n + 1)
      BY <2>1, RunArms
    <3>3. 0 \in min
      BY <2>1
    <3> HIDE DEF min
    <3> QED BY <2>1, <3>1, <3>2, <3>3 DEF LowStart
  <2>2. CASE b # 0
    <3>1. min \cup Down(min) = b - 1..b + n - 1
      <4>1. b \in 1..7 /\ b + n - 1 \in b..7
        BY <2>2
      <4> QED BY <4>1, GrownDown, Zenon
    <3>2. GetArm(b - 1..b + n - 1) = Arm(b - 1, n + 1)
      BY <2>2, RunArms
    <3>3. 0 \notin min
      BY <2>2
    <3> HIDE DEF min
    <3> QED BY <2>2, <3>1, <3>2, <3>3 DEF LowStart
  <2> QED BY <2>1, <2>2
<1>3. GetArm(max \cup IF Sfs - 1 \in max THEN Down(max) ELSE Up(max))
        = Arm(HighStart(c, n), n + 1)
  <2>1. CASE c + n = 5
    <3>1. max \cup Down(max) = c - 1..c + n - 1
      <4>1. c \in 1..7 /\ c + n - 1 \in c..7
        BY <2>1
      <4> QED BY <4>1, GrownDown, Zenon
    <3>2. GetArm(c - 1..c + n - 1) = Arm(c - 1, n + 1)
      BY <2>1, RunArms
    <3>3. Sfs - 1 \in max
      BY <2>1 DEF Sfs
    <3> HIDE DEF max
    <3> QED BY <2>1, <3>1, <3>2, <3>3 DEF HighStart
  <2>2. CASE c + n # 5
    <3>1. max \cup Up(max) = c..c + n - 1 + 1
      <4>1. c \in 0..6 /\ c + n - 1 \in c..6
        BY <2>2
      <4> QED BY <4>1, GrownUp, Zenon
    <3>2. GetArm(c..c + n - 1 + 1) = Arm(c, n + 1)
      BY <2>2, RunArms
    <3>3. Sfs - 1 \notin max
      BY <2>2 DEF Sfs
    <3> HIDE DEF max
    <3> QED BY <2>2, <3>1, <3>2, <3>3 DEF HighStart
  <2> QED BY <2>1, <2>2
<1>4. ~(Arm(c, n) > ArmsOfAtMost(Combinations)) /\ max # ByteBits
  <2>1. 7 \in ByteBits /\ 7 \notin max
    BY DEF ByteBits
  <2> QED BY <2>1, ArmNumbers DEF Arm, Combinations
<1> HIDE DEF min, max
<1> QED BY <1>1, <1>2, <1>3, <1>4 DEF WiderRound

(* A run of four is no arm; the loop ends there.                           *)
LEMMA WiderRoundEnds ==
  ASSUME NEW low \in {13, 14}, NEW high \in {13, 14}, NEW arms \in Seq(Nat)
  PROVE  LET ended == WiderRound([low |-> low, high |-> high, arms |-> arms, over |-> FALSE])
         IN ended.arms = arms /\ WiderRound(ended) = ended
<1> DEFINE loop == [low |-> low, high |-> high, arms |-> arms, over |-> FALSE]
<1>1. FromTo(low, 12) = <<>>
  BY DEF FromTo
<1>2. GetSpreadingFactors(high) = ByteBits
  BY Runs
<1>3. WiderRound(loop).arms = arms \o <<>> /\ WiderRound(loop).over
  <2>1. ArmsOfAtMost(Combinations) = 12 /\ high > 12
    BY ArmNumbers DEF Combinations
  <2> QED BY <1>1, <1>2, <2>1 DEF WiderRound
<1>4. ASSUME NEW ended, ended.over PROVE WiderRound(ended) = ended
  BY <1>4 DEF WiderRound
<1>5. arms \o <<>> = arms
  OBVIOUS
<1> HIDE DEF loop
<1>6. WiderRound(loop).arms = arms /\ WiderRound(WiderRound(loop)) = WiderRound(loop)
  BY <1>3, <1>4, <1>5
<1> QED BY <1>6 DEF loop

(* The lowest and the highest run a run contains with one spreading factor *)
(* less.                                                                   *)
LEMMA NarrowerRoundIs ==
  ASSUME NEW n \in 2..3, NEW b \in 0..5 - n, NEW c \in 0..5 - n, NEW arms
  PROVE  NarrowerRound([low |-> Arm(b, n), high |-> Arm(c, n), arms |-> arms, over |-> FALSE])
           = [low |-> Arm(b, n - 1), high |-> Arm(c + 1, n - 1),
              arms |-> arms \o FromTo(Arm(b, n - 1), Arm(c + 1, n - 1)), over |-> FALSE]
<1> DEFINE min == b..b + n - 1
           max == c..c + n - 1
<1>1. min = GetSpreadingFactors(Arm(b, n)) /\ max = GetSpreadingFactors(Arm(c, n))
  <2>1. n \in 1..3
    OBVIOUS
  <2> QED BY <2>1, ArmRun
<1>2. Down(min) \cap min = b..b + n - 1 - 1
  <2> DEFINE top == b + n - 1
  <2>1. b \in 0..7 /\ top \in b..7
    OBVIOUS
  <2> HIDE DEF top
  <2>2. Down(b..top) \cap (b..top) = b..top - 1
    BY <2>1, Shrunk
  <2> QED BY <2>2 DEF top
<1>3. Up(max) \cap max = c + 1..c + n - 1
  <2>1. c \in 0..7 /\ c + n - 1 \in c..7
    OBVIOUS
  <2> QED BY <2>1, Shrunk, Zenon
<1>4. GetArm(b..b + n - 1 - 1) = Arm(b, n - 1)
  BY RunArms
<1>5. GetArm(c + 1..c + n - 1) = Arm(c + 1, n - 1)
  BY RunArms
<1>6. Down(min) \cap min # {}
  <2>1. b \in b..b + n - 1 - 1
    OBVIOUS
  <2> QED BY <1>2, <2>1
<1> HIDE DEF min, max
<1> QED BY <1>1, <1>2, <1>3, <1>4, <1>5, <1>6 DEF NarrowerRound

(* Nothing is less than one spreading factor; the loop ends there.          *)
LEMMA NarrowerRoundEnds ==
  ASSUME NEW b \in 0..4, NEW high, NEW arms \in Seq(Nat)
  PROVE  LET ended == NarrowerRound([low |-> Arm(b, 1), high |-> high, arms |-> arms,
                                     over |-> FALSE])
         IN ended.arms = arms /\ NarrowerRound(ended) = ended
<1> DEFINE loop == [low |-> Arm(b, 1), high |-> high, arms |-> arms, over |-> FALSE]
<1>1. GetSpreadingFactors(Arm(b, 1)) = b..b
  BY ArmRun
<1>2. Down(b..b) \cap (b..b) = {}
  <2>1. b \in 0..7 /\ b \in b..7
    OBVIOUS
  <2>2. Down(b..b) \cap (b..b) = b..b - 1
    BY <2>1, Shrunk
  <2>3. b..b - 1 = {}
    OBVIOUS
  <2> QED BY <2>2, <2>3, Zenon
<1>3. NarrowerRound(loop).arms = arms \o <<>> /\ NarrowerRound(loop).over
  BY <1>1, <1>2 DEF NarrowerRound
<1>4. ASSUME NEW ended, ended.over PROVE NarrowerRound(ended) = ended
  BY <1>4 DEF NarrowerRound
<1>5. arms \o <<>> = arms
  OBVIOUS
<1> HIDE DEF loop
<1>6. NarrowerRound(loop).arms = arms /\ NarrowerRound(NarrowerRound(loop)) = NarrowerRound(loop)
  BY <1>3, <1>4, <1>5
<1> QED BY <1>6 DEF loop

(* The loops have three rounds.                                             *)
LEMMA LoopedIs ==
  ASSUME NEW arm
  PROVE  /\ Looped(WiderRound, arm) = WiderRound(WiderRound(WiderRound(Begin(arm)))).arms
         /\ Looped(NarrowerRound, arm)
              = NarrowerRound(NarrowerRound(NarrowerRound(Begin(arm)))).arms
<1>1. Looped(WiderRound, arm) = WiderRound(WiderRound(WiderRound(Begin(arm)))).arms
  <2> DEFINE Rounds(f) == [round \in 0..Combinations |->
                             IF round = 0 THEN Begin(arm) ELSE WiderRound(f[round - 1])]
             one == WiderRound(Begin(arm))
             w == [round \in 0..Combinations |->
                     IF round = 0 THEN Begin(arm)
                     ELSE IF round = 1 THEN one
                     ELSE IF round = 2 THEN WiderRound(one) ELSE WiderRound(WiderRound(one))]
             after == CHOOSE f : f = Rounds(f)
  <2>1. w = Rounds(w)
    BY DEF Combinations
  <2>2. after = Rounds(after)
    <3> HIDE DEF w, Rounds
    <3> QED BY <2>1
  <2> HIDE DEF after
  <2>3. after[3] = WiderRound(WiderRound(WiderRound(Begin(arm))))
    BY <2>2 DEF Combinations
  <2> QED BY <2>3 DEF Looped, after, Combinations
<1>2. Looped(NarrowerRound, arm)
        = NarrowerRound(NarrowerRound(NarrowerRound(Begin(arm)))).arms
  <2> DEFINE Rounds(f) == [round \in 0..Combinations |->
                             IF round = 0 THEN Begin(arm) ELSE NarrowerRound(f[round - 1])]
             one == NarrowerRound(Begin(arm))
             w == [round \in 0..Combinations |->
                     IF round = 0 THEN Begin(arm)
                     ELSE IF round = 1 THEN one
                     ELSE IF round = 2 THEN NarrowerRound(one)
                                       ELSE NarrowerRound(NarrowerRound(one))]
             after == CHOOSE f : f = Rounds(f)
  <2>1. w = Rounds(w)
    BY DEF Combinations
  <2>2. after = Rounds(after)
    <3> HIDE DEF w, Rounds
    <3> QED BY <2>1
  <2> HIDE DEF after
  <2>3. after[3] = NarrowerRound(NarrowerRound(NarrowerRound(Begin(arm))))
    BY <2>2 DEF Combinations
  <2> QED BY <2>3 DEF Looped, after, Combinations
<1> QED BY <1>1, <1>2

-----------------------------------------------------------------------------
LEMMA FromToIs ==
  ASSUME NEW low \in Int
  PROVE  FromTo(low, low) = <<low>>
BY DEF FromTo

LEMMA ArmsAre ==
  /\ Arm(0, 1) = 1 /\ Arm(1, 1) = 2 /\ Arm(2, 1) = 3 /\ Arm(3, 1) = 4 /\ Arm(4, 1) = 5
  /\ Arm(0, 2) = 6 /\ Arm(1, 2) = 7 /\ Arm(2, 2) = 8 /\ Arm(3, 2) = 9
  /\ Arm(0, 3) = 10 /\ Arm(1, 3) = 11 /\ Arm(2, 3) = 12
  /\ Arm(0, 4) = 13 /\ Arm(1, 4) = 14
BY ArmNumbers DEF Arm

(* The first loop of NewObservation in sf-mab.cc: the arms that have the    *)
(* selection and one spreading factor more, then two.                      *)
OneWider(b, n) == FromTo(Arm(LowStart(b), n + 1), Arm(HighStart(b, n), n + 1))
TwoWider(b, n) == FromTo(Arm(LowStart(LowStart(b)), n + 2),
                         Arm(HighStart(HighStart(b, n), n + 1), n + 2))

LEMMA WiderLoop ==
  /\ \A b \in 0..4 : Looped(WiderRound, Arm(b, 1))
                       = (<<Arm(b, 1)>> \o OneWider(b, 1)) \o TwoWider(b, 1)
  /\ \A b \in 0..3 : Looped(WiderRound, Arm(b, 2)) = <<Arm(b, 2)>> \o OneWider(b, 2)
  /\ \A b \in 0..2 : Looped(WiderRound, Arm(b, 3)) = <<Arm(b, 3)>>
<1> DEFINE Loop(low, high, arms) ==
      [low |-> low, high |-> high, arms |-> arms, over |-> FALSE]
<1>1. ASSUME NEW n \in 1..3, NEW b \in 0..5 - n
      PROVE  WiderRound(Begin(Arm(b, n)))
               = Loop(Arm(LowStart(b), n + 1), Arm(HighStart(b, n), n + 1), <<Arm(b, n)>>)
  <2>1. Arm(b, n) \in Int
    BY ArmNumbers DEF Arm
  <2>2. <<>> \o FromTo(Arm(b, n), Arm(b, n)) = <<Arm(b, n)>>
    BY <2>1, FromToIs
  <2> QED BY <2>2, WiderRoundIs DEF Begin
<1>2. ASSUME NEW n \in 1..2, NEW b \in 0..5 - n
      PROVE  WiderRound(WiderRound(Begin(Arm(b, n))))
               = Loop(Arm(LowStart(LowStart(b)), n + 2),
                      Arm(HighStart(HighStart(b, n), n + 1), n + 2),
                      <<Arm(b, n)>> \o OneWider(b, n))
  <2> DEFINE m == n + 1
             low == LowStart(b)
             high == HighStart(b, n)
             arms == <<Arm(b, n)>>
  <2>1. m \in 1..3 /\ low \in 0..5 - m /\ high \in 0..5 - m /\ m + 1 = n + 2
    BY DEF LowStart, HighStart
  <2>2. n \in 1..3
    OBVIOUS
  <2>3. WiderRound(Begin(Arm(b, n))) = Loop(Arm(low, m), Arm(high, m), arms)
    BY <1>1, <2>2
  <2> HIDE DEF m, low, high, arms
  <2>4. WiderRound(Loop(Arm(low, m), Arm(high, m), arms))
          = Loop(Arm(LowStart(low), m + 1), Arm(HighStart(high, m), m + 1),
                 arms \o FromTo(Arm(low, m), Arm(high, m)))
    BY <2>1, WiderRoundIs, Zenon
  <2>5. WiderRound(WiderRound(Begin(Arm(b, n))))
          = Loop(Arm(LowStart(low), n + 2), Arm(HighStart(high, m), n + 2),
                 arms \o FromTo(Arm(low, m), Arm(high, m)))
    BY <2>1, <2>3, <2>4, Zenon
  <2> QED BY <2>5, Zenon DEF m, low, high, arms, OneWider
<1>3. ASSUME NEW b \in 0..4
      PROVE  Looped(WiderRound, Arm(b, 1))
               = (<<Arm(b, 1)>> \o OneWider(b, 1)) \o TwoWider(b, 1)
  <2> DEFINE low == LowStart(LowStart(b))
             high == HighStart(HighStart(b, 1), 2)
  <2>1. low \in 0..2 /\ high \in 0..2
    BY DEF LowStart, HighStart
  <2> HIDE DEF low, high
  <2>2. WiderRound(Loop(Arm(low, 3), Arm(high, 3), <<Arm(b, 1)>> \o OneWider(b, 1))).arms
          = (<<Arm(b, 1)>> \o OneWider(b, 1)) \o FromTo(Arm(low, 3), Arm(high, 3))
    <3>1. low \in 0..5 - 3 /\ high \in 0..5 - 3 /\ 3 \in 1..3
      BY <2>1
    <3>2. WiderRound(Loop(Arm(low, 3), Arm(high, 3), <<Arm(b, 1)>> \o OneWider(b, 1)))
            = Loop(Arm(LowStart(low), 3 + 1), Arm(HighStart(high, 3), 3 + 1),
                   (<<Arm(b, 1)>> \o OneWider(b, 1)) \o FromTo(Arm(low, 3), Arm(high, 3)))
      BY <3>1, WiderRoundIs, Zenon
    <3>3. ASSUME NEW r, NEW l, NEW h, NEW a, r = Loop(l, h, a) PROVE r.arms = a
      BY <3>3
    <3> QED BY <3>2, <3>3, Zenon
  <2>3. WiderRound(WiderRound(Begin(Arm(b, 1))))
          = Loop(Arm(low, 3), Arm(high, 3), <<Arm(b, 1)>> \o OneWider(b, 1))
    <3>1. 1 \in 1..2 /\ b \in 0..5 - 1 /\ 1 + 2 = 3 /\ 1 + 1 = 2
      OBVIOUS
    <3> QED BY <1>2, <3>1 DEF low, high
  <2>4. TwoWider(b, 1) = FromTo(Arm(low, 3), Arm(high, 3))
    BY DEF low, high, TwoWider
  <2> QED BY <2>2, <2>3, <2>4, LoopedIs
<1>4. ASSUME NEW b \in 0..3
      PROVE  Looped(WiderRound, Arm(b, 2)) = <<Arm(b, 2)>> \o OneWider(b, 2)
  <2> DEFINE low == Arm(LowStart(LowStart(b)), 4)
             high == Arm(HighStart(HighStart(b, 2), 3), 4)
             arms == <<Arm(b, 2)>> \o OneWider(b, 2)
  <2>1. low \in {13, 14} /\ high \in {13, 14}
    BY ArmsAre DEF LowStart, HighStart
  <2>2. arms \in Seq(Nat)
    BY ArmNumbers DEF OneWider, FromTo, Arm, LowStart, HighStart
  <2>3. WiderRound(WiderRound(Begin(Arm(b, 2)))) = Loop(low, high, arms)
    <3>1. 2 \in 1..2 /\ b \in 0..5 - 2 /\ 2 + 2 = 4 /\ 2 + 1 = 3
      OBVIOUS
    <3> QED BY <1>2, <3>1
  <2> HIDE DEF low, high, arms
  <2>4. WiderRound(Loop(low, high, arms)).arms = arms
    BY <2>1, <2>2, WiderRoundEnds
  <2> QED BY <2>3, <2>4, LoopedIs DEF arms
<1>5. ASSUME NEW b \in 0..2
      PROVE  Looped(WiderRound, Arm(b, 3)) = <<Arm(b, 3)>>
  <2> DEFINE low == Arm(LowStart(b), 4)
             high == Arm(HighStart(b, 3), 4)
             arms == <<Arm(b, 3)>>
  <2>1. low \in {13, 14} /\ high \in {13, 14}
    BY ArmsAre DEF LowStart, HighStart
  <2>2. arms \in Seq(Nat)
    BY ArmNumbers DEF Arm
  <2>3. WiderRound(Begin(Arm(b, 3))) = Loop(low, high, arms)
    BY <1>1
  <2> HIDE DEF low, high, arms
  <2>4. WiderRound(WiderRound(Loop(low, high, arms))).arms = arms
    BY <2>1, <2>2, WiderRoundEnds
  <2> QED BY <2>3, <2>4, LoopedIs DEF arms
<1> QED BY <1>3, <1>4, <1>5

(* The second one: the arms that have one spreading factor less, then two.  *)
OneNarrower(b, n) == FromTo(Arm(b, n - 1), Arm(b + 1, n - 1))
TwoNarrower(b, n) == FromTo(Arm(b, n - 2), Arm(b + 2, n - 2))

LEMMA NarrowerLoop ==
  /\ \A b \in 0..4 : Looped(NarrowerRound, Arm(b, 1)) = <<>>
  /\ \A b \in 0..3 : Looped(NarrowerRound, Arm(b, 2)) = OneNarrower(b, 2)
  /\ \A b \in 0..2 : Looped(NarrowerRound, Arm(b, 3))
                       = OneNarrower(b, 3) \o TwoNarrower(b, 3)
<1> DEFINE Loop(low, high, arms) ==
      [low |-> low, high |-> high, arms |-> arms, over |-> FALSE]
<1>1. ASSUME NEW n \in 2..3, NEW b \in 0..5 - n
      PROVE  /\ NarrowerRound(Begin(Arm(b, n)))
                  = Loop(Arm(b, n - 1), Arm(b + 1, n - 1), OneNarrower(b, n))
             /\ OneNarrower(b, n) \in Seq(Nat)
  <2>1. OneNarrower(b, n) \in Seq(Nat)
    <3>1. CASE n = 2
      BY <3>1, ArmNumbers DEF OneNarrower, FromTo, Arm
    <3>2. CASE n = 3
      BY <3>2, ArmNumbers DEF OneNarrower, FromTo, Arm
    <3> QED BY <3>1, <3>2
  <2>2. <<>> \o OneNarrower(b, n) = OneNarrower(b, n)
    BY <2>1
  <2> QED BY <2>1, <2>2, NarrowerRoundIs DEF Begin, OneNarrower
<1>2. ASSUME NEW b \in 0..4 PROVE Looped(NarrowerRound, Arm(b, 1)) = <<>>
  <2>1. /\ NarrowerRound(Begin(Arm(b, 1))).arms = <<>>
        /\ NarrowerRound(NarrowerRound(Begin(Arm(b, 1)))) = NarrowerRound(Begin(Arm(b, 1)))
    <3>1. <<>> \in Seq(Nat)
      OBVIOUS
    <3> QED BY <3>1, NarrowerRoundEnds, Zenon DEF Begin
  <2> QED BY <2>1, LoopedIs
<1>3. ASSUME NEW b \in 0..3
      PROVE  Looped(NarrowerRound, Arm(b, 2)) = OneNarrower(b, 2)
  <2> DEFINE next == NarrowerRound(Begin(Arm(b, 2)))
  <2>1. next = Loop(Arm(b, 1), Arm(b + 1, 1), OneNarrower(b, 2))
    BY <1>1
  <2> HIDE DEF next
  <2>2. /\ NarrowerRound(next).arms = OneNarrower(b, 2)
        /\ NarrowerRound(NarrowerRound(next)) = NarrowerRound(next)
    BY <1>1, <2>1, NarrowerRoundEnds
  <2> QED BY <2>2, LoopedIs DEF next
<1>4. ASSUME NEW b \in 0..2
      PROVE  Looped(NarrowerRound, Arm(b, 3)) = OneNarrower(b, 3) \o TwoNarrower(b, 3)
  <2> DEFINE next == NarrowerRound(NarrowerRound(Begin(Arm(b, 3))))
             arms == OneNarrower(b, 3) \o TwoNarrower(b, 3)
  <2>1. NarrowerRound(Begin(Arm(b, 3))) = Loop(Arm(b, 2), Arm(b + 1, 2), OneNarrower(b, 3))
    BY <1>1
  <2>2. next = Loop(Arm(b, 1), Arm(b + 2, 1), arms)
    <3> DEFINE c == b + 1
    <3>1. /\ b \in 0..5 - 2 /\ c \in 0..5 - 2 /\ c + 1 = b + 2 /\ 2 \in 2..3
          /\ 2 - 1 = 1 /\ 3 - 2 = 1
      OBVIOUS
    <3> HIDE DEF c
    <3>2. NarrowerRound(Loop(Arm(b, 2), Arm(c, 2), OneNarrower(b, 3)))
            = Loop(Arm(b, 2 - 1), Arm(c + 1, 2 - 1),
                   OneNarrower(b, 3) \o FromTo(Arm(b, 2 - 1), Arm(c + 1, 2 - 1)))
      BY <3>1, NarrowerRoundIs, Zenon
    <3>3. TwoNarrower(b, 3) = FromTo(Arm(b, 2 - 1), Arm(c + 1, 2 - 1))
      BY <3>1 DEF TwoNarrower
    <3> QED BY <2>1, <3>1, <3>2, <3>3 DEF c
  <2>3. arms \in Seq(Nat)
    <3>1. TwoNarrower(b, 3) \in Seq(Nat)
      BY ArmNumbers DEF TwoNarrower, FromTo, Arm
    <3> QED BY <1>1, <3>1
  <2> HIDE DEF next, arms
  <2>4. NarrowerRound(next).arms = arms
    BY <2>2, <2>3, NarrowerRoundEnds
  <2> QED BY <2>4, LoopedIs DEF next, arms
<1> QED BY <1>2, <1>3, <1>4

-----------------------------------------------------------------------------
(* A sequence that holds each member of A once, and nothing else.          *)
OnceEach(s, A) ==
  /\ s \in Seq(Int)
  /\ \A k \in 1..Len(s) : s[k] \in A
  /\ \A x \in A : \E k \in 1..Len(s) : s[k] = x
  /\ \A k, m \in 1..Len(s) : s[k] = s[m] => k = m

LEMMA IntervalOnce ==
  ASSUME NEW low \in Nat, NEW high \in Nat, low <= high + 1
  PROVE  OnceEach(FromTo(low, high), low..high)
<1> DEFINE s == FromTo(low, high)
<1>1. s \in Seq(Int) /\ Len(s) = high - low + 1
  BY DEF FromTo
<1>2. \A k \in 1..high - low + 1 : s[k] = low + k - 1
  BY DEF FromTo
<1>3. ASSUME NEW x \in low..high PROVE \E k \in 1..Len(s) : s[k] = x
  <2>1. x - low + 1 \in 1..high - low + 1 /\ low + (x - low + 1) - 1 = x
    OBVIOUS
  <2> HIDE DEF s
  <2> QED BY <1>1, <1>2, <2>1
<1> HIDE DEF s
<1>4. OnceEach(s, low..high)
  BY <1>1, <1>2, <1>3, SMTT(30) DEF OnceEach
<1> QED BY <1>4 DEF s

LEMMA SingleOnce ==
  ASSUME NEW x \in Int
  PROVE  OnceEach(<<x>>, {x})
BY DEF OnceEach

LEMMA ConcatenationOnce ==
  ASSUME NEW s, NEW t, NEW A, NEW B, OnceEach(s, A), OnceEach(t, B), A \cap B = {}
  PROVE  OnceEach(s \o t, A \cup B)
<1> DEFINE u == s \o t
           p == Len(s)
           q == Len(t)
<1>1. u \in Seq(Int) /\ Len(u) = p + q /\ p \in Nat /\ q \in Nat
  BY DEF OnceEach
<1>2. \A k \in 1..p : u[k] = s[k] /\ s[k] \in A
  BY DEF OnceEach
<1>3. \A k \in p + 1..p + q : u[k] = t[k - p] /\ k - p \in 1..q
  BY DEF OnceEach
<1>4. \A m \in 1..q : t[m] \in B
  BY DEF OnceEach
<1>5. \A k, m \in 1..p : s[k] = s[m] => k = m
  BY DEF OnceEach
<1>6. \A k, m \in 1..q : t[k] = t[m] => k = m
  BY DEF OnceEach
<1>7. \A x \in A : \E k \in 1..p : s[k] = x
  BY DEF OnceEach
<1>8. \A x \in B : \E m \in 1..q : t[m] = x
  BY DEF OnceEach
<1> HIDE DEF u, p, q
<1>9. \A k \in 1..p + q : k \in 1..p \/ k \in p + 1..p + q
  BY <1>1
<1>10. ASSUME NEW k \in 1..p + q PROVE u[k] \in A \cup B
  BY <1>2, <1>3, <1>4, <1>9
<1>11. ASSUME NEW x \in A PROVE \E k \in 1..p + q : u[k] = x
  <2>1. PICK k \in 1..p : s[k] = x
    BY <1>7
  <2>2. k \in 1..p + q
    BY <1>1
  <2> QED BY <1>2, <2>1, <2>2
<1>12. ASSUME NEW x \in B PROVE \E k \in 1..p + q : u[k] = x
  <2>1. PICK m \in 1..q : t[m] = x
    BY <1>8
  <2>2. m + p \in p + 1..p + q /\ (m + p) - p = m /\ m + p \in 1..p + q
    BY <1>1
  <2>3. u[m + p] = t[(m + p) - p]
    BY <1>3, <2>2
  <2> QED BY <2>1, <2>2, <2>3
<1>13. ASSUME NEW k \in 1..p + q, NEW m \in 1..p + q, u[k] = u[m] PROVE k = m
  <2>1. CASE k \in 1..p /\ m \in 1..p
    BY <1>2, <1>5, <1>13, <2>1
  <2>2. CASE k \in p + 1..p + q /\ m \in p + 1..p + q
    <3>1. t[k - p] = t[m - p] /\ k - p \in 1..q /\ m - p \in 1..q
      BY <1>3, <1>13, <2>2
    <3>2. k - p = m - p
      BY <1>6, <3>1
    <3> QED BY <1>1, <3>2
  <2>3. CASE k \in 1..p /\ m \in p + 1..p + q
    <3>1. u[k] \in A /\ u[m] \in B
      BY <1>2, <1>3, <1>4, <2>3
    <3> QED BY <1>13, <3>1
  <2>4. CASE k \in p + 1..p + q /\ m \in 1..p
    <3>1. u[k] \in B /\ u[m] \in A
      BY <1>2, <1>3, <1>4, <2>4
    <3> QED BY <1>13, <3>1
  <2> QED BY <1>9, <2>1, <2>2, <2>3, <2>4
<1>14. OnceEach(u, A \cup B)
  BY <1>1, <1>10, <1>11, <1>12, <1>13 DEF OnceEach
<1> QED BY <1>14 DEF u

LEMMA OccurrencesCounted ==
  ASSUME NEW s, NEW A, OnceEach(s, A), NEW x
  PROVE  Cardinality({k \in DOMAIN s : s[k] = x}) = IF x \in A THEN 1 ELSE 0
<1>1. DOMAIN s = 1..Len(s)
  BY DEF OnceEach
<1>2. CASE x \in A
  <2>1. PICK k \in 1..Len(s) : s[k] = x
    BY <1>2 DEF OnceEach
  <2>2. {m \in DOMAIN s : s[m] = x} = {k}
    BY <1>1, <2>1 DEF OnceEach
  <2> QED BY <1>2, <2>2, FS_Singleton
<1>3. CASE x \notin A
  <2>1. {m \in DOMAIN s : s[m] = x} = {}
    BY <1>1, <1>3 DEF OnceEach
  <2> QED BY <1>3, <2>1, FS_EmptySet
<1> QED BY <1>2, <1>3

-----------------------------------------------------------------------------
(* The arms whose runs contain the run of b and n or are contained in it.  *)
Learning(b, n) ==
  {x \in Arms : Comparable(GetSpreadingFactors(x), GetSpreadingFactors(Arm(b, n)))}

LEMMA ArmCases ==
  /\ \A b \in 0..4 : Arm(b, 1) = b + 1
  /\ \A b \in 0..3 : Arm(b, 2) = b + 6
  /\ \A b \in 0..2 : Arm(b, 3) = b + 10
  /\ \A x \in Arms : \E m \in 1..3 : \E c \in 0..5 - m : x = Arm(c, m)
<1>1. /\ \A b \in 0..4 : Arm(b, 1) = b + 1
      /\ \A b \in 0..3 : Arm(b, 2) = b + 6
      /\ \A b \in 0..2 : Arm(b, 3) = b + 10
  BY ArmNumbers DEF Arm
<1>2. ASSUME NEW x \in Arms PROVE \E m \in 1..3 : \E c \in 0..5 - m : x = Arm(c, m)
  <2>1. CASE x \in 1..5
    <3>1. x - 1 \in 0..5 - 1 /\ 1 \in 1..3 /\ x = Arm(x - 1, 1)
      BY <1>1, <2>1
    <3> QED BY <3>1
  <2>2. CASE x \in 6..9
    <3>1. x - 6 \in 0..5 - 2 /\ 2 \in 1..3 /\ x = Arm(x - 6, 2)
      BY <1>1, <2>2
    <3> QED BY <3>1
  <2>3. CASE x \in 10..12
    <3>1. x - 10 \in 0..5 - 3 /\ 3 \in 1..3 /\ x = Arm(x - 10, 3)
      BY <1>1, <2>3
    <3> QED BY <3>1
  <2> QED BY <2>1, <2>2, <2>3, ArmNumbers
<1> QED BY <1>1, <1>2

LEMMA RunsComparable ==
  ASSUME NEW n \in 1..3, NEW b \in 0..5 - n, NEW m \in 1..3, NEW c \in 0..5 - m
  PROVE  Comparable(GetSpreadingFactors(Arm(c, m)), GetSpreadingFactors(Arm(b, n)))
           <=> \/ b <= c /\ c + m <= b + n
               \/ c <= b /\ b + n <= c + m
<1>1. /\ GetSpreadingFactors(Arm(c, m)) = c..c + m - 1
      /\ GetSpreadingFactors(Arm(b, n)) = b..b + n - 1
  BY ArmRun
<1>2. c..c + m - 1 \subseteq b..b + n - 1 <=> b <= c /\ c + m <= b + n
  <2>1. c \in c..c + m - 1 /\ c + m - 1 \in c..c + m - 1
    OBVIOUS
  <2> QED BY <2>1
<1>3. b..b + n - 1 \subseteq c..c + m - 1 <=> c <= b /\ b + n <= c + m
  <2>1. b \in b..b + n - 1 /\ b + n - 1 \in b..b + n - 1
    OBVIOUS
  <2> QED BY <2>1
<1> QED BY <1>1, <1>2, <1>3 DEF Comparable

(* Every arm that learns is updated once (NewObservation of sf-mab.cc).    *)
LEMMA ObservedOnce ==
  ASSUME NEW arm \in Arms
  PROVE  OnceEach(NewObservation(arm),
                  {x \in Arms : Comparable(GetSpreadingFactors(x), GetSpreadingFactors(arm))})
<1>1. ASSUME NEW b \in 0..4
      PROVE  OnceEach(NewObservation(Arm(b, 1)), Learning(b, 1))
  <2> DEFINE l1 == Arm(LowStart(b), 2)
             h1 == Arm(HighStart(b, 1), 2)
             l2 == Arm(LowStart(LowStart(b)), 3)
             h2 == Arm(HighStart(HighStart(b, 1), 2), 3)
             a == Arm(b, 1)
  <2>1. a \in 1..5 /\ l1 \in 6..9 /\ h1 \in l1..9 /\ l2 \in 10..12 /\ h2 \in l2..12
    BY ArmCases DEF LowStart, HighStart
  <2>2. NewObservation(a) = ((<<a>> \o FromTo(l1, h1)) \o FromTo(l2, h2)) \o <<>>
    <3>1. OneWider(b, 1) = FromTo(l1, h1) /\ TwoWider(b, 1) = FromTo(l2, h2)
      BY DEF OneWider, TwoWider
    <3> QED BY <3>1, WiderLoop, NarrowerLoop, Zenon DEF NewObservation
  <2>3. Learning(b, 1) = ({a} \cup (l1..h1)) \cup (l2..h2)
    <3>1. ASSUME NEW m \in 1..3, NEW c \in 0..5 - m
          PROVE  Arm(c, m) \in ({a} \cup (l1..h1)) \cup (l2..h2)
                   <=> (b <= c /\ c + m <= b + 1) \/ (c <= b /\ b + 1 <= c + m)
      <4>1. CASE m = 1
        BY <4>1, ArmCases DEF LowStart, HighStart
      <4>2. CASE m = 2
        BY <4>2, ArmCases DEF LowStart, HighStart
      <4>3. CASE m = 3
        BY <4>3, ArmCases DEF LowStart, HighStart
      <4> QED BY <4>1, <4>2, <4>3
    <3>2. ({a} \cup (l1..h1)) \cup (l2..h2) \subseteq Arms
      BY <2>1, ArmNumbers
    <3>3. \A m \in 1..3 : \A c \in 0..5 - m :
            Comparable(GetSpreadingFactors(Arm(c, m)), GetSpreadingFactors(a))
              <=> Arm(c, m) \in ({a} \cup (l1..h1)) \cup (l2..h2)
      BY <3>1, RunsComparable
    <3> HIDE DEF a, l1, h1, l2, h2
    <3>4. \A x \in Arms : Comparable(GetSpreadingFactors(x), GetSpreadingFactors(a))
                            <=> x \in ({a} \cup (l1..h1)) \cup (l2..h2)
      BY <3>3, ArmCases
    <3> QED BY <3>2, <3>4 DEF Learning, a
  <2> HIDE DEF a, l1, h1, l2, h2
  <2>4. /\ OnceEach(<<a>>, {a})
        /\ OnceEach(FromTo(l1, h1), l1..h1) /\ OnceEach(FromTo(l2, h2), l2..h2)
    BY <2>1, SingleOnce, IntervalOnce
  <2>5. {a} \cap (l1..h1) = {} /\ ({a} \cup (l1..h1)) \cap (l2..h2) = {}
    BY <2>1
  <2> DEFINE s == (<<a>> \o FromTo(l1, h1)) \o FromTo(l2, h2)
  <2>6. OnceEach(s, ({a} \cup (l1..h1)) \cup (l2..h2))
    BY <2>4, <2>5, ConcatenationOnce
  <2>7. s \o <<>> = s
    BY <2>6 DEF OnceEach
  <2> HIDE DEF s
  <2> QED BY <2>2, <2>3, <2>6, <2>7 DEF s, a
<1>2. ASSUME NEW b \in 0..3
      PROVE  OnceEach(NewObservation(Arm(b, 2)), Learning(b, 2))
  <2> DEFINE l1 == Arm(LowStart(b), 3)
             h1 == Arm(HighStart(b, 2), 3)
             l2 == Arm(b, 1)
             h2 == Arm(b + 1, 1)
             a == Arm(b, 2)
  <2>1. a \in 6..9 /\ l1 \in 10..12 /\ h1 \in l1..12 /\ l2 \in 1..5 /\ h2 \in l2..5
    BY ArmCases DEF LowStart, HighStart
  <2>2. NewObservation(a) = (<<a>> \o FromTo(l1, h1)) \o FromTo(l2, h2)
    <3>1. OneWider(b, 2) = FromTo(l1, h1) /\ OneNarrower(b, 2) = FromTo(l2, h2)
      BY DEF OneWider, OneNarrower
    <3> QED BY <3>1, WiderLoop, NarrowerLoop, Zenon DEF NewObservation
  <2>3. Learning(b, 2) = ({a} \cup (l1..h1)) \cup (l2..h2)
    <3>1. ASSUME NEW m \in 1..3, NEW c \in 0..5 - m
          PROVE  Arm(c, m) \in ({a} \cup (l1..h1)) \cup (l2..h2)
                   <=> (b <= c /\ c + m <= b + 2) \/ (c <= b /\ b + 2 <= c + m)
      <4>1. CASE m = 1
        BY <4>1, ArmCases DEF LowStart, HighStart
      <4>2. CASE m = 2
        BY <4>2, ArmCases DEF LowStart, HighStart
      <4>3. CASE m = 3
        BY <4>3, ArmCases DEF LowStart, HighStart
      <4> QED BY <4>1, <4>2, <4>3
    <3>2. ({a} \cup (l1..h1)) \cup (l2..h2) \subseteq Arms
      BY <2>1, ArmNumbers
    <3>3. \A m \in 1..3 : \A c \in 0..5 - m :
            Comparable(GetSpreadingFactors(Arm(c, m)), GetSpreadingFactors(a))
              <=> Arm(c, m) \in ({a} \cup (l1..h1)) \cup (l2..h2)
      BY <3>1, RunsComparable
    <3> HIDE DEF a, l1, h1, l2, h2
    <3>4. \A x \in Arms : Comparable(GetSpreadingFactors(x), GetSpreadingFactors(a))
                            <=> x \in ({a} \cup (l1..h1)) \cup (l2..h2)
      BY <3>3, ArmCases
    <3> QED BY <3>2, <3>4 DEF Learning, a
  <2> HIDE DEF a, l1, h1, l2, h2
  <2>4. /\ OnceEach(<<a>>, {a})
        /\ OnceEach(FromTo(l1, h1), l1..h1) /\ OnceEach(FromTo(l2, h2), l2..h2)
    BY <2>1, SingleOnce, IntervalOnce
  <2>5. {a} \cap (l1..h1) = {} /\ ({a} \cup (l1..h1)) \cap (l2..h2) = {}
    BY <2>1
  <2> DEFINE s == (<<a>> \o FromTo(l1, h1)) \o FromTo(l2, h2)
  <2>6. OnceEach(s, ({a} \cup (l1..h1)) \cup (l2..h2))
    BY <2>4, <2>5, ConcatenationOnce
  <2> HIDE DEF s
  <2> QED BY <2>2, <2>3, <2>6 DEF s, a
<1>3. ASSUME NEW b \in 0..2
      PROVE  OnceEach(NewObservation(Arm(b, 3)), Learning(b, 3))
  <2> DEFINE l1 == Arm(b, 2)
             h1 == Arm(b + 1, 2)
             l2 == Arm(b, 1)
             h2 == Arm(b + 2, 1)
             a == Arm(b, 3)
  <2>1. a \in 10..12 /\ l1 \in 6..9 /\ h1 \in l1..9 /\ l2 \in 1..5 /\ h2 \in l2..5
    BY ArmCases
  <2>2. NewObservation(a) = <<a>> \o (FromTo(l1, h1) \o FromTo(l2, h2))
    <3>1. OneNarrower(b, 3) = FromTo(l1, h1) /\ TwoNarrower(b, 3) = FromTo(l2, h2)
      BY DEF OneNarrower, TwoNarrower
    <3> QED BY <3>1, WiderLoop, NarrowerLoop, Zenon DEF NewObservation
  <2>3. Learning(b, 3) = {a} \cup ((l1..h1) \cup (l2..h2))
    <3>1. ASSUME NEW m \in 1..3, NEW c \in 0..5 - m
          PROVE  Arm(c, m) \in {a} \cup ((l1..h1) \cup (l2..h2))
                   <=> (b <= c /\ c + m <= b + 3) \/ (c <= b /\ b + 3 <= c + m)
      <4>1. CASE m = 1
        BY <4>1, ArmCases DEF LowStart, HighStart
      <4>2. CASE m = 2
        BY <4>2, ArmCases DEF LowStart, HighStart
      <4>3. CASE m = 3
        BY <4>3, ArmCases DEF LowStart, HighStart
      <4> QED BY <4>1, <4>2, <4>3
    <3>2. {a} \cup ((l1..h1) \cup (l2..h2)) \subseteq Arms
      BY <2>1, ArmNumbers
    <3>3. \A m \in 1..3 : \A c \in 0..5 - m :
            Comparable(GetSpreadingFactors(Arm(c, m)), GetSpreadingFactors(a))
              <=> Arm(c, m) \in {a} \cup ((l1..h1) \cup (l2..h2))
      BY <3>1, RunsComparable
    <3> HIDE DEF a, l1, h1, l2, h2
    <3>4. \A x \in Arms : Comparable(GetSpreadingFactors(x), GetSpreadingFactors(a))
                            <=> x \in {a} \cup ((l1..h1) \cup (l2..h2))
      BY <3>3, ArmCases
    <3> QED BY <3>2, <3>4 DEF Learning, a
  <2> HIDE DEF a, l1, h1, l2, h2
  <2>4. /\ OnceEach(<<a>>, {a})
        /\ OnceEach(FromTo(l1, h1), l1..h1) /\ OnceEach(FromTo(l2, h2), l2..h2)
    BY <2>1, SingleOnce, IntervalOnce
  <2>5. (l1..h1) \cap (l2..h2) = {} /\ {a} \cap ((l1..h1) \cup (l2..h2)) = {}
    BY <2>1
  <2> DEFINE s == <<a>> \o (FromTo(l1, h1) \o FromTo(l2, h2))
  <2>6. OnceEach(s, {a} \cup ((l1..h1) \cup (l2..h2)))
    BY <2>4, <2>5, ConcatenationOnce
  <2> HIDE DEF s
  <2> QED BY <2>2, <2>3, <2>6 DEF s, a
<1>4. PICK n \in 1..3 : \E b \in 0..5 - n : arm = Arm(b, n)
  BY ArmCases
<1> PICK b \in 0..5 - n : arm = Arm(b, n)
  BY <1>4
<1>5. OnceEach(NewObservation(Arm(b, n)), Learning(b, n))
  BY <1>1, <1>2, <1>3
<1> QED BY <1>5 DEF Learning

-----------------------------------------------------------------------------
(* What a group, or a device's entry, is told to use.                      *)
Selections == {GetSpreadingFactors(arm) : arm \in Arms} \cup {{}}

Settings == [sfs : [Frequencies -> Selections], acked : BOOLEAN]

TypeOK ==
  /\ data \in [Devices -> Entries \cup {NoData}]
  /\ settings \in [Devices -> Settings]
  /\ selection \in [Frequencies -> [Groups -> Arms]]
  /\ lastChannel \in Frequencies
  /\ limits \in [Devices -> [Frequencies -> [min : 0..5, max : 0..5]]]
  /\ answers \in [Devices -> Nat]
  /\ seqNum \in [Devices -> Nat]
  /\ downlink \in [Devices -> Request \cup {NoRequest}]
  /\ calculated \in Nat
  /\ overtaken \in BOOLEAN

(* A device whose frames have not been heard has no setting, no request on  *)
(* its way and nothing to answer.                                           *)
UnheardInv ==
  \A d \in Devices :
    data[d] = NoData =>
      /\ settings[d].sfs = [f \in Frequencies |-> {}]
      /\ downlink[d] = NoRequest
      /\ answers[d] = 0

(* What is counted of a device's frames until their numbers start anew: the *)
(* last one judged on a frequency came before the last one heard, that one  *)
(* has been sent, and no more are counted as received than lie between      *)
(* them.                                                                    *)
CountsInv ==
  \A d \in Listed, f \in Frequencies : seqNum[d] <= FrameNumbers =>
    /\ data[d].lastValue[f] <= data[d].lastPacketNumber
    /\ data[d].lastPacketNumber < seqNum[d]
    /\ data[d].received[f] + data[d].lastValue[f]
         <= data[d].lastPacketNumber + (IF data[d].lastValue[f] = 0 THEN 1 ELSE 0)

(* A request asks for the selection of the frequency calculated last, of a  *)
(* device that has not confirmed.                                           *)
Asks(request, setting) ==
  LET sfs == setting.sfs[lastChannel]
  IN /\ ~setting.acked
     /\ sfs # {}
     /\ request.channel = lastChannel
     /\ request.min = GetMinDr(sfs)
     /\ request.max \in GetMinDr(sfs)..GetMaxDr(sfs)

Follows(used, sfs) == used.min..used.max \subseteq {5 - b : b \in sfs}

(* As long as every setting was confirmed in time: a device follows what it *)
(* has confirmed or executed, and on the other frequencies, which were      *)
(* calculated earlier, all it was told.                                     *)
FollowInv ==
  ~overtaken =>
    \A d \in Devices :
      /\ downlink[d] # NoRequest => Asks(downlink[d], settings[d])
      /\ \A f \in Frequencies :
           /\ settings[d].sfs[f] # {}
           /\ f # lastChannel \/ settings[d].acked \/ answers[d] > 0
           => Follows(limits[d][f], settings[d].sfs[f])

IInv == TypeOK /\ UnheardInv /\ CountsInv /\ FollowInv

-----------------------------------------------------------------------------
(* A selection is a run of spreading factors, and the data rates between    *)
(* GetMinDr and any rate up to GetMaxDr are those of the run.               *)
LEMMA SelectionFollowed ==
  ASSUME NEW sfs \in Selections, sfs # {}, NEW maxDr \in GetMinDr(sfs)..GetMaxDr(sfs)
  PROVE  /\ GetMinDr(sfs) \in 0..5 /\ maxDr \in 0..5
         /\ Follows([min |-> GetMinDr(sfs), max |-> maxDr], sfs)
<1>1. PICK n \in 1..3 : \E b \in 0..5 - n : sfs = b..b + n - 1
  <2>1. PICK arm \in Arms : sfs = GetSpreadingFactors(arm)
    BY DEF Selections
  <2>2. \E m \in 1..3 : \E c \in 0..5 - m : arm = Arm(c, m)
    BY ArmCases
  <2> QED BY <2>1, <2>2, ArmRun
<1> PICK b \in 0..5 - n : sfs = b..b + n - 1
  BY <1>1
<1>2. /\ sfs \in SUBSET Int /\ b \in sfs /\ b + n - 1 \in sfs
      /\ \A other \in sfs : b <= other /\ b + n - 1 >= other
  OBVIOUS
<1>3. Lowest(sfs) = b
  BY <1>2, LowestOf
<1>4. Highest(sfs) = b + n - 1
  BY <1>2, HighestOf
<1>5. GetMinDr(sfs) = 5 - (b + n - 1) /\ GetMaxDr(sfs) = 5 - b
  BY <1>3, <1>4 DEF GetMinDr, GetMaxDr
<1>6. ASSUME NEW dr \in GetMinDr(sfs)..maxDr PROVE dr \in {5 - c : c \in sfs}
  <2>1. 5 - dr \in b..b + n - 1 /\ dr = 5 - (5 - dr)
    BY <1>5
  <2> QED BY <2>1
<1> QED BY <1>5, <1>6 DEF Follows

LEMMA JudgedEntry ==
  ASSUME NEW entry \in Entries, NEW f \in Frequencies
  PROVE  /\ Judged(entry, f) \in Entries
         /\ Judged(entry, f).lastPacketNumber = entry.lastPacketNumber
         /\ \A other \in Frequencies :
              /\ Judged(entry, f).lastValue[other]
                   = IF other = f THEN entry.lastPacketNumber ELSE entry.lastValue[other]
              /\ Judged(entry, f).received[other]
                   = IF other = f THEN 0 ELSE entry.received[other]
BY DEF Judged, Entries

LEMMA SelectSetting ==
  ASSUME NEW setting \in Settings, NEW f \in Frequencies, NEW sfs \in Selections
  PROVE  /\ Select(setting, f, sfs) \in Settings
         /\ Select(setting, f, sfs).acked <=> setting.sfs[f] = sfs /\ setting.acked
         /\ \A other \in Frequencies :
              Select(setting, f, sfs).sfs[other]
                = IF other = f THEN sfs ELSE setting.sfs[other]
BY DEF Select, Settings

LEMMA Initially == Init => IInv
<1> SUFFICES ASSUME Init PROVE IInv
  OBVIOUS
<1>1. {} \in Selections /\ Arms # {} /\ 1 \in Arms
  BY ArmNumbers DEF Selections
<1>2. TypeOK
  <2>1. [sfs |-> [f \in Frequencies |-> {}], acked |-> FALSE] \in Settings
    BY <1>1 DEF Settings
  <2>2. [f \in Frequencies |-> [min |-> 0, max |-> 5]]
          \in [Frequencies -> [min : 0..5, max : 0..5]]
    OBVIOUS
  <2>3. [f \in Frequencies |-> [g \in Groups |-> 1]] \in [Frequencies -> [Groups -> Arms]]
    BY <1>1
  <2>4. lastChannel \in Frequencies
    BY DEF Init, Frequencies
  <2> QED BY <2>1, <2>2, <2>3, <2>4 DEF Init, TypeOK
<1>3. UnheardInv
  BY DEF Init, UnheardInv
<1>4. CountsInv
  BY DEF Init, CountsInv, Listed
<1>5. FollowInv
  BY DEF Init, FollowInv
<1> QED BY <1>2, <1>3, <1>4, <1>5 DEF IInv

LEMMA CalculateSettingStep ==
  ASSUME IInv, CalculateSetting
  PROVE  IInv'
<1> USE DEF IInv
<1> DEFINE f == lastChannel'
<1>1. /\ calculated' = calculated + 1
      /\ lastChannel' = (calculated + 2) % 3
      /\ overtaken' = (overtaken \/ \E d \in Listed :
           ~settings[d].acked \/ downlink[d] # NoRequest \/ answers[d] > 0)
      /\ data' = [d \in Devices |-> IF d \in Listed THEN Judged(data[d], f) ELSE NoData]
      /\ UNCHANGED <<limits, answers, seqNum, downlink>>
  BY DEF CalculateSetting, deviceVars
<1>2. PICK arm \in [{Group(d) : d \in Listed} -> Arms] :
        /\ selection' = [selection EXCEPT
             ![f] = [g \in Groups |-> IF g \in {Group(d) : d \in Listed}
                                      THEN arm[g] ELSE @[g]]]
        /\ settings' = [d \in Devices |->
             IF d \in Listed
             THEN Select(settings[d], f, GetSpreadingFactors(arm[Group(d)]))
             ELSE settings[d]]
  BY DEF CalculateSetting
<1>3. f \in Frequencies
  BY <1>1 DEF TypeOK, Frequencies
<1> DEFINE told(d) == GetSpreadingFactors(arm[Group(d)])
<1>4. \A d \in Listed : told(d) \in Selections
  BY <1>2 DEF Selections
<1>5. \A d \in Devices : d \notin Listed => data[d] = NoData
  BY DEF Listed
<1>6. \A d \in Listed : d \in Devices /\ data[d] \in Entries /\ settings[d] \in Settings
  BY DEF Listed, TypeOK
<1> HIDE DEF f
<1>7. \A d \in Listed : data'[d] \in Entries /\ settings'[d] \in Settings
  BY <1>1, <1>2, <1>3, <1>4, <1>6, JudgedEntry, SelectSetting
<1>8. TypeOK'
  <2>1. data' \in [Devices -> Entries \cup {NoData}]
    BY <1>1, <1>7
  <2>2. settings' \in [Devices -> Settings]
    BY <1>2, <1>7 DEF TypeOK
  <2>3. selection' \in [Frequencies -> [Groups -> Arms]]
    BY <1>2, <1>3 DEF TypeOK
  <2>4. lastChannel' \in Frequencies
    BY <1>3 DEF f
  <2>5. calculated' \in Nat /\ overtaken' \in BOOLEAN
    BY <1>1 DEF TypeOK
  <2> QED BY <1>1, <2>1, <2>2, <2>3, <2>4, <2>5 DEF TypeOK
<1>9. \A d \in Devices : data'[d] = NoData <=> d \notin Listed
  BY <1>1, <1>7, ControllerConstants
<1>10. UnheardInv'
  BY <1>1, <1>2, <1>5, <1>9 DEF UnheardInv
<1>11. CountsInv'
  <2> SUFFICES ASSUME NEW d \in Listed', NEW other \in Frequencies,
                      seqNum'[d] <= FrameNumbers
               PROVE  /\ data'[d].lastValue[other] <= data'[d].lastPacketNumber
                      /\ data'[d].lastPacketNumber < seqNum'[d]
                      /\ data'[d].received[other] + data'[d].lastValue[other]
                           <= data'[d].lastPacketNumber
                              + (IF data'[d].lastValue[other] = 0 THEN 1 ELSE 0)
    BY DEF CountsInv
  <2>1. d \in Listed /\ d \in Devices
    BY <1>9 DEF Listed
  <2>2. data'[d] = Judged(data[d], f)
    BY <1>1, <2>1
  <2>3. /\ data[d].lastValue[other] <= data[d].lastPacketNumber
        /\ data[d].lastPacketNumber < seqNum[d]
        /\ data[d].received[other] + data[d].lastValue[other]
             <= data[d].lastPacketNumber + (IF data[d].lastValue[other] = 0 THEN 1 ELSE 0)
    BY <1>1, <2>1 DEF CountsInv
  <2>4. data[d].lastPacketNumber \in Nat
    BY <1>6, <2>1 DEF Entries
  <2> QED BY <1>1, <1>3, <1>6, <2>1, <2>2, <2>3, <2>4, JudgedEntry
<1>12. FollowInv'
  <2> SUFFICES ASSUME ~overtaken', NEW d \in Devices
               PROVE  /\ downlink'[d] # NoRequest => Asks(downlink[d], settings[d])'
                      /\ \A other \in Frequencies :
                           /\ settings'[d].sfs[other] # {}
                           /\ other # lastChannel' \/ settings'[d].acked \/ answers'[d] > 0
                           => Follows(limits'[d][other], settings'[d].sfs[other])
    BY DEF FollowInv, Follows
  <2>1. ~overtaken
    BY <1>1
  <2>2. CASE d \notin Listed
    <3>1. settings'[d].sfs = [other \in Frequencies |-> {}] /\ downlink'[d] = NoRequest
      BY <1>1, <1>2, <1>5, <2>2 DEF UnheardInv
    <3> QED BY <3>1
  <2>3. CASE d \in Listed
    <3>1. settings[d].acked /\ downlink[d] = NoRequest /\ ~(answers[d] > 0)
      BY <1>1, <2>3
    <3>2. ASSUME NEW other \in Frequencies, settings[d].sfs[other] # {}
          PROVE  Follows(limits[d][other], settings[d].sfs[other])
      BY <2>1, <3>1, <3>2 DEF FollowInv
    <3>3. settings'[d] = Select(settings[d], f, told(d))
      BY <1>2, <2>3
    <3> HIDE DEF told
    <3>4. ASSUME NEW other \in Frequencies, settings'[d].sfs[other] # {},
                 other # f \/ settings'[d].acked
          PROVE  settings'[d].sfs[other] = settings[d].sfs[other]
      BY <1>3, <1>4, <1>6, <2>3, <3>3, <3>4, SelectSetting
    <3> QED BY <1>1, <3>1, <3>2, <3>4 DEF f
  <2> QED BY <2>2, <2>3
<1> QED BY <1>8, <1>10, <1>11, <1>12

LEMMA NewChannelReqStep ==
  ASSUME IInv, NEW d \in Devices, NewChannelReq(d)
  PROVE  IInv'
<1> USE DEF IInv
<1>1. /\ downlink[d] # NoRequest
      /\ limits' = [limits EXCEPT
           ![d][downlink[d].channel] = [min |-> downlink[d].min, max |-> downlink[d].max]]
      /\ answers' = [answers EXCEPT ![d] = @ + 1]
      /\ downlink' = [downlink EXCEPT ![d] = NoRequest]
      /\ UNCHANGED <<data, settings, selection, lastChannel, seqNum, calculated, overtaken>>
  BY DEF NewChannelReq, controllerVars, historyVars
<1>2. downlink[d] \in Request
  BY <1>1 DEF TypeOK
<1>3. TypeOK'
  BY <1>1, <1>2 DEF TypeOK, Request
<1>4. UnheardInv'
  BY <1>1 DEF UnheardInv, TypeOK
<1>5. CountsInv'
  BY <1>1 DEF CountsInv, Listed
<1>6. FollowInv'
  <2> SUFFICES ASSUME ~overtaken, NEW e \in Devices
               PROVE  /\ downlink'[e] # NoRequest => Asks(downlink[e], settings[e])'
                      /\ \A f \in Frequencies :
                           /\ settings[e].sfs[f] # {}
                           /\ f # lastChannel \/ settings[e].acked \/ answers'[e] > 0
                           => Follows(limits'[e][f], settings[e].sfs[f])
    BY <1>1 DEF FollowInv, Follows
  <2>1. CASE e # d
    BY <1>1, <2>1 DEF FollowInv, Asks, TypeOK
  <2>2. CASE e = d
    <3>1. downlink'[d] = NoRequest
      BY <1>1 DEF TypeOK
    <3> DEFINE sfs == settings[d].sfs[lastChannel]
    <3>2. /\ sfs # {} /\ downlink[d].channel = lastChannel /\ downlink[d].min = GetMinDr(sfs)
          /\ downlink[d].max \in GetMinDr(sfs)..GetMaxDr(sfs)
      BY <1>1 DEF FollowInv, Asks
    <3>3. limits'[d][lastChannel] = [min |-> downlink[d].min, max |-> downlink[d].max]
      BY <1>1, <1>2, <3>2 DEF TypeOK
    <3>4. sfs \in Selections
      BY DEF TypeOK, Settings
    <3>5. Follows(limits'[d][lastChannel], sfs)
      BY <3>2, <3>3, <3>4, SelectionFollowed
    <3>6. ASSUME NEW f \in Frequencies, f # lastChannel
          PROVE  limits'[d][f] = limits[d][f]
      BY <1>1, <1>2, <3>2, <3>6 DEF TypeOK
    <3> QED BY <2>2, <3>1, <3>5, <3>6 DEF FollowInv
  <2> QED BY <2>1, <2>2
<1> QED BY <1>3, <1>4, <1>5, <1>6

LEMMA DownlinkLostStep ==
  ASSUME IInv, NEW d \in Devices, DownlinkLost(d)
  PROVE  IInv'
<1> USE DEF IInv
<1>1. /\ downlink' = [downlink EXCEPT ![d] = NoRequest]
      /\ UNCHANGED <<data, settings, selection, lastChannel, limits, answers, seqNum,
                     calculated, overtaken>>
  BY DEF DownlinkLost, controllerVars, deviceVars, historyVars
<1>2. TypeOK'
  BY <1>1 DEF TypeOK
<1>3. UnheardInv'
  BY <1>1 DEF UnheardInv, TypeOK
<1>4. CountsInv'
  BY <1>1 DEF CountsInv, Listed
<1>5. FollowInv'
  BY <1>1 DEF FollowInv, Asks, Follows, TypeOK
<1> QED BY <1>2, <1>3, <1>4, <1>5

(* A frame of d: its number is beyond all that were heard; if it is heard,  *)
(* its answers confirm, and a device that has not confirmed is asked again. *)
LEMMA SendStep ==
  ASSUME IInv, NEW d \in Devices, Send(d)
  PROVE  IInv'
<1> USE DEF IInv
<1>1. /\ downlink[d] = NoRequest
      /\ seqNum' = [seqNum EXCEPT ![d] = @ + 1]
      /\ answers' = [answers EXCEPT ![d] = 0]
      /\ UNCHANGED <<selection, lastChannel, limits, calculated, overtaken>>
  BY DEF Send, historyVars
<1>2. CASE UNCHANGED <<data, settings, downlink>>
  <2>1. TypeOK'
    BY <1>1, <1>2 DEF TypeOK
  <2>2. UnheardInv'
    BY <1>1, <1>2 DEF UnheardInv, TypeOK
  <2>3. CountsInv'
    <3>1. ASSUME NEW e \in Devices PROVE seqNum[e] \in Nat /\ seqNum'[e] \in Nat /\ seqNum[e] <= seqNum'[e]
      BY <1>1 DEF TypeOK
    <3>2. ASSUME NEW e \in Listed, data[e].lastPacketNumber < seqNum[e]
          PROVE  data[e].lastPacketNumber < seqNum'[e]
      <4>1. data[e].lastPacketNumber \in Nat /\ e \in Devices
        BY DEF TypeOK, Entries, Listed
      <4> QED BY <3>1, <3>2, <4>1
    <3>3. \A e \in Listed : seqNum'[e] <= FrameNumbers => seqNum[e] <= FrameNumbers
      BY <3>1, ControllerConstants DEF Listed
    <3> QED BY <1>2, <3>2, <3>3 DEF CountsInv, Listed
  <2>4. FollowInv'
    <3>1. \A e \in Devices : answers'[e] > 0 => answers[e] > 0
      BY <1>1 DEF TypeOK
    <3>2. UNCHANGED <<settings, downlink, limits, lastChannel, overtaken>>
      BY <1>1, <1>2
    <3> QED BY <3>1, <3>2 DEF FollowInv, Asks, Follows
  <2> QED BY <2>1, <2>2, <2>3, <2>4
<1>3. ASSUME NEW g \in Used, NEW rssi \in Rssis[d], NewPacket(d, g, rssi) PROVE IInv'
  <2> DEFINE setting == IF answers[d] > 0 THEN ConfirmDataRate(settings[d]) ELSE settings[d]
             sfs == setting.sfs[lastChannel]
             told == [setting EXCEPT !.acked = @ \/ sfs = {}]
             entry == [Entry(d) EXCEPT !.rssi = rssi, !.received[g] = @ + 1,
                                       !.lastPacketNumber = seqNum[d] % FrameNumbers]
  <2>1. /\ data' = [data EXCEPT ![d] = entry]
        /\ settings' = [settings EXCEPT ![d] = told]
        /\ IF setting.acked \/ sfs = {} THEN UNCHANGED downlink
           ELSE \E maxDr \in GetMinDr(sfs)..GetMaxDr(sfs) :
                  downlink' = [downlink EXCEPT
                    ![d] = [channel |-> lastChannel, min |-> GetMinDr(sfs), max |-> maxDr]]
    BY <1>3 DEF NewPacket
  <2>2. g \in Frequencies /\ rssi \in Nat
    BY ControllerConstants
  <2>3. Entry(d) \in Entries
    BY DEF Entry, TypeOK, Entries
  <2>4. /\ entry \in Entries
        /\ entry.lastPacketNumber = seqNum[d] % FrameNumbers
        /\ entry.lastValue = Entry(d).lastValue
        /\ \A f \in Frequencies :
             entry.received[f] = IF f = g THEN Entry(d).received[f] + 1 ELSE Entry(d).received[f]
    <3>1. ASSUME NEW old \in Entries, NEW n \in Nat
          PROVE  LET new == [old EXCEPT !.rssi = rssi, !.received[g] = @ + 1,
                                        !.lastPacketNumber = n]
                 IN /\ new \in Entries
                    /\ new.lastPacketNumber = n
                    /\ new.lastValue = old.lastValue
                    /\ \A f \in Frequencies :
                         new.received[f] = IF f = g THEN old.received[f] + 1 ELSE old.received[f]
      <4> DEFINE new == [old EXCEPT !.rssi = rssi, !.received[g] = @ + 1,
                                    !.lastPacketNumber = n]
      <4>1. new \in Entries
        <5> DEFINE one == [old EXCEPT !.rssi = rssi]
                   two == [one EXCEPT !.received[g] = @ + 1]
        <5>1. one \in Entries
          BY <2>2 DEF Entries
        <5>2. two \in Entries
          <6> HIDE DEF one
          <6> QED BY <2>2, <5>1 DEF Entries
        <5>3. new = [two EXCEPT !.lastPacketNumber = n]
          OBVIOUS
        <5> HIDE DEF two, new
        <5> QED BY <5>2, <5>3 DEF Entries
      <4>2. new.lastPacketNumber = n /\ new.lastValue = old.lastValue
        BY DEF Entries
      <4>3. new.received[g] = old.received[g] + 1
        BY <2>2 DEF Entries
      <4>4. \A f \in Frequencies : f # g => new.received[f] = old.received[f]
        BY <2>2 DEF Entries
      <4> HIDE DEF new
      <4>5. /\ new \in Entries /\ new.lastPacketNumber = n /\ new.lastValue = old.lastValue
            /\ \A f \in Frequencies :
                 new.received[f] = IF f = g THEN old.received[f] + 1 ELSE old.received[f]
        BY <4>1, <4>2, <4>3, <4>4
      <4> QED BY <4>5 DEF new
    <3>2. seqNum[d] % FrameNumbers \in Nat
      <4>1. seqNum[d] \in Nat
        BY DEF TypeOK
      <4> QED BY <4>1, ControllerConstants
    <3> QED BY <2>3, <3>1, <3>2, Zenon
  <2>5. /\ setting \in Settings
        /\ setting.sfs = settings[d].sfs
        /\ setting.acked <=> settings[d].acked \/ answers[d] > 0
    BY DEF ConfirmDataRate, Settings, TypeOK
  <2> HIDE DEF setting
  <2>6. /\ told \in Settings
        /\ told.sfs = settings[d].sfs
        /\ told.acked <=> settings[d].acked \/ answers[d] > 0 \/ sfs = {}
    BY <2>5 DEF Settings
  <2> HIDE DEF entry, told
  <2>7. \/ downlink' = downlink
        \/ /\ ~setting.acked /\ sfs # {}
           /\ \E maxDr \in GetMinDr(sfs)..GetMaxDr(sfs) :
                downlink' = [downlink EXCEPT
                  ![d] = [channel |-> lastChannel, min |-> GetMinDr(sfs), max |-> maxDr]]
    BY <2>1
  <2>8. sfs \in Selections
    BY <2>5 DEF TypeOK, Settings
  <2>9. TypeOK'
    <3>1. downlink' \in [Devices -> Request \cup {NoRequest}]
      <4>1. CASE downlink' = downlink
        BY <4>1 DEF TypeOK
      <4>2. ASSUME sfs # {}, NEW maxDr \in GetMinDr(sfs)..GetMaxDr(sfs),
                   downlink' = [downlink EXCEPT
                     ![d] = [channel |-> lastChannel, min |-> GetMinDr(sfs), max |-> maxDr]]
            PROVE  downlink' \in [Devices -> Request \cup {NoRequest}]
        <5>1. GetMinDr(sfs) \in 0..5 /\ maxDr \in 0..5
          BY <2>8, <4>2, SelectionFollowed
        <5> QED BY <4>2, <5>1 DEF TypeOK, Request
      <4> QED BY <2>7, <4>1, <4>2
    <3>2. data' \in [Devices -> Entries \cup {NoData}]
      BY <2>1, <2>4 DEF TypeOK
    <3>3. settings' \in [Devices -> Settings]
      BY <2>1, <2>6 DEF TypeOK
    <3>4. seqNum' \in [Devices -> Nat] /\ answers' \in [Devices -> Nat]
      BY <1>1 DEF TypeOK
    <3> QED BY <1>1, <3>1, <3>2, <3>3, <3>4 DEF TypeOK
  <2>10. \A e \in Devices : e # d => data'[e] = data[e] /\ settings'[e] = settings[e]
                                     /\ downlink'[e] = downlink[e] /\ answers'[e] = answers[e]
                                     /\ seqNum'[e] = seqNum[e]
    BY <1>1, <2>1, <2>7 DEF TypeOK
  <2>11. data'[d] = entry /\ settings'[d] = told /\ entry # NoData /\ answers'[d] = 0
         /\ seqNum'[d] = seqNum[d] + 1
    BY <1>1, <2>1, <2>4, ControllerConstants DEF TypeOK
  <2>12. UnheardInv'
    BY <2>10, <2>11 DEF UnheardInv
  <2>13. CountsInv'
    <3>0. /\ seqNum[d] \in Nat /\ seqNum'[d] = seqNum[d] + 1
          /\ seqNum'[d] <= FrameNumbers =>
               seqNum[d] <= FrameNumbers /\ seqNum[d] % FrameNumbers = seqNum[d]
      <4>1. seqNum[d] \in Nat /\ seqNum'[d] = seqNum[d] + 1
        BY <2>11 DEF TypeOK
      <4>2. ASSUME seqNum'[d] <= FrameNumbers
            PROVE  seqNum[d] <= FrameNumbers /\ seqNum[d] \in 0..(FrameNumbers - 1)
        BY <4>1, <4>2, ControllerConstants
      <4>3. seqNum[d] \in 0..(FrameNumbers - 1) => seqNum[d] % FrameNumbers = seqNum[d]
        BY ControllerConstants
      <4> QED BY <4>1, <4>2, <4>3
    <3>1. ASSUME NEW f \in Frequencies, seqNum'[d] <= FrameNumbers
          PROVE  /\ entry.lastValue[f] <= entry.lastPacketNumber
                 /\ entry.received[f] + entry.lastValue[f]
                      <= entry.lastPacketNumber + (IF entry.lastValue[f] = 0 THEN 1 ELSE 0)
      <4>1. seqNum[d] \in Nat
        BY DEF TypeOK
      <4>2. Entry(d).lastValue[f] \in Nat /\ Entry(d).received[f] \in Nat
        BY <2>3 DEF Entries
      <4>3. CASE data[d] = NoData
        <5>1. Entry(d).lastValue[f] = 0 /\ Entry(d).received[f] = 0
          BY <4>3 DEF Entry
        <5> QED BY <2>4, <3>0, <3>1, <4>1, <5>1
      <4>4. CASE data[d] # NoData
        <5>1. Entry(d) = data[d] /\ d \in Listed
          BY <4>4 DEF Entry, Listed
        <5>2. data[d].lastPacketNumber \in Nat
          BY <2>3, <5>1 DEF Entries
        <5>3. /\ data[d].lastValue[f] <= data[d].lastPacketNumber
              /\ data[d].lastPacketNumber < seqNum[d]
              /\ data[d].received[f] + data[d].lastValue[f]
                   <= data[d].lastPacketNumber + (IF data[d].lastValue[f] = 0 THEN 1 ELSE 0)
          BY <3>0, <3>1, <5>1 DEF CountsInv
        <5> QED BY <2>4, <3>0, <3>1, <4>1, <4>2, <5>1, <5>2, <5>3
      <4> QED BY <4>3, <4>4
    <3>2. seqNum'[d] <= FrameNumbers => entry.lastPacketNumber < seqNum'[d]
      BY <2>4, <3>0
    <3>3. \A e \in Listed' : e = d \/ (e # d /\ e \in Listed)
      BY <2>10 DEF Listed
    <3> QED BY <2>10, <2>11, <3>1, <3>2, <3>3 DEF CountsInv, Listed
  <2>14. FollowInv'
    <3> SUFFICES ASSUME ~overtaken, NEW e \in Devices
                 PROVE  /\ downlink'[e] # NoRequest => Asks(downlink[e], settings[e])'
                        /\ \A f \in Frequencies :
                             /\ settings'[e].sfs[f] # {}
                             /\ f # lastChannel \/ settings'[e].acked \/ answers'[e] > 0
                             => Follows(limits[e][f], settings'[e].sfs[f])
      BY <1>1 DEF FollowInv, Follows
    <3>1. CASE e # d
      BY <1>1, <2>10, <3>1 DEF FollowInv, Asks
    <3>2. CASE e = d
      <4>1. downlink'[d] # NoRequest => Asks(downlink[d], settings[d])'
        <5> SUFFICES ASSUME downlink'[d] # NoRequest PROVE Asks(downlink[d], settings[d])'
          OBVIOUS
        <5>1. PICK maxDr \in GetMinDr(sfs)..GetMaxDr(sfs) :
                downlink' = [downlink EXCEPT
                  ![d] = [channel |-> lastChannel, min |-> GetMinDr(sfs), max |-> maxDr]]
          BY <1>1, <2>7
        <5>2. ~setting.acked /\ sfs # {}
          BY <1>1, <2>7
        <5>3. downlink'[d] = [channel |-> lastChannel, min |-> GetMinDr(sfs), max |-> maxDr]
          BY <5>1 DEF TypeOK
        <5>4. sfs = settings'[d].sfs[lastChannel']
          BY <1>1, <2>5, <2>6, <2>11
        <5>5. ~settings'[d].acked
          BY <2>5, <2>6, <2>11, <5>2
        <5> HIDE DEF sfs
        <5> QED BY <1>1, <5>2, <5>3, <5>4, <5>5 DEF Asks
      <4>2. ASSUME NEW f \in Frequencies, settings'[d].sfs[f] # {},
                   f # lastChannel \/ settings'[d].acked \/ answers'[d] > 0
            PROVE  Follows(limits[d][f], settings'[d].sfs[f])
        <5>1. settings'[d].sfs[f] = settings[d].sfs[f]
          BY <2>6, <2>11
        <5>2. f # lastChannel \/ settings[d].acked \/ answers[d] > 0
          BY <2>5, <2>6, <2>11, <4>2
        <5> QED BY <4>2, <5>1, <5>2 DEF FollowInv
      <4> QED BY <3>2, <4>1, <4>2
    <3> QED BY <3>1, <3>2
  <2> QED BY <2>9, <2>12, <2>13, <2>14
<1> QED BY <1>2, <1>3 DEF Send

-----------------------------------------------------------------------------
(* The invariant of lora-sf-controller-application.cc and of the devices    *)
(* that answer it.                                                          *)
THEOREM Invariance == Spec => []IInv
<1>1. IInv /\ [Next]_vars => IInv'
  <2> SUFFICES ASSUME IInv, [Next]_vars PROVE IInv'
    OBVIOUS
  <2>1. CASE UNCHANGED vars
    BY <2>1 DEF IInv, TypeOK, UnheardInv, CountsInv, FollowInv, Listed, Asks, Follows, vars,
       controllerVars, deviceVars, historyVars
  <2>2. CASE CalculateSetting
    BY <2>2, CalculateSettingStep
  <2>3. CASE StopApplication
    BY <2>3 DEF StopApplication, IInv, TypeOK, UnheardInv, CountsInv, FollowInv, Listed, Asks,
       Follows, deviceVars, historyVars
  <2>4. ASSUME NEW d \in Devices, Send(d) \/ NewChannelReq(d) \/ DownlinkLost(d) PROVE IInv'
    BY <2>4, SendStep, NewChannelReqStep, DownlinkLostStep
  <2> QED BY <2>1, <2>2, <2>3, <2>4 DEF Next
<1> QED BY <1>1, Initially, PTL DEF Spec

(* Every group's last selection is an arm of its bandit, every setting a    *)
(* run of spreading factors a bandit can select, and every request names    *)
(* data rates that exist.                                                   *)
THEOREM TypeCorrectness == Spec => []TypeOK
<1>1. IInv => TypeOK
  BY DEF IInv
<1> QED BY <1>1, Invariance, PTL

(* For any devices and losses, and until a device's 16-bit frame numbers    *)
(* start anew: the numbers CalculateSetting subtracts are in order, so that *)
(* the unsigned difference is how far they lie apart, and no more frames    *)
(* are counted as received than that, or than one more as long as the       *)
(* number last judged is 0.                                                 *)
THEOREM ReceivedAreSent == Spec => []ReceivedWereSent
<1>1. IInv => ReceivedWereSent
  <2> SUFFICES ASSUME IInv, NEW d \in Listed, NEW f \in Frequencies,
                      seqNum[d] <= FrameNumbers
               PROVE  /\ data[d].lastValue[f] <= data[d].lastPacketNumber
                      /\ data[d].received[f] <= SentSince(data[d], f)
                           + (IF data[d].lastValue[f] = 0 THEN 1 ELSE 0)
    BY DEF ReceivedWereSent
  <2>1. data[d] \in Entries /\ seqNum[d] \in Nat
    BY DEF IInv, TypeOK, Listed
  <2>2. /\ data[d].lastPacketNumber \in Nat /\ data[d].lastValue[f] \in Nat
        /\ data[d].received[f] \in Nat
    BY <2>1 DEF Entries
  <2>3. /\ data[d].lastValue[f] <= data[d].lastPacketNumber
        /\ data[d].lastPacketNumber < seqNum[d]
        /\ data[d].received[f] + data[d].lastValue[f]
             <= data[d].lastPacketNumber + (IF data[d].lastValue[f] = 0 THEN 1 ELSE 0)
    BY DEF IInv, CountsInv
  <2>4. SentSince(data[d], f) = data[d].lastPacketNumber - data[d].lastValue[f]
    <3>1. data[d].lastPacketNumber - data[d].lastValue[f] \in 0..(Words - 1)
      BY <2>1, <2>2, <2>3, ControllerConstants
    <3> QED BY <3>1, ControllerConstants DEF SentSince
  <2> QED BY <2>2, <2>3, <2>4
<1> QED BY <1>1, Invariance, PTL

(* As long as no setting was replaced before everybody had confirmed it, a  *)
(* device that is taken to have confirmed uses only data rates of the       *)
(* spreading factors selected for it, whatever frames and downlinks are     *)
(* lost and whatever the bandits select.                                    *)
THEOREM ConfirmedFollow == Spec => []ConfirmedInTimeIsFollowed
<1>1. IInv => ConfirmedInTimeIsFollowed
  BY DEF IInv, TypeOK, FollowInv, Follows, ConfirmedInTimeIsFollowed
<1> QED BY <1>1, Invariance, PTL

(* Each observation of CalculateSetting updates every arm that is           *)
(* comparable with the judged one exactly once, and no other, whatever arm  *)
(* the bandit had selected.                                                 *)
THEOREM ComparableArmsLearn == Spec => EachComparableArmOnce
<1> DEFINE Learnt ==
      \A g \in Groups :
        calculated' # calculated /\ updated'[g] # <<>> =>
          LET judged == selection[lastChannel'][g]
          IN \A arm \in Arms :
               Cardinality({k \in DOMAIN updated'[g] : updated'[g][k] = arm})
                 = IF Comparable(GetSpreadingFactors(arm), GetSpreadingFactors(judged))
                   THEN 1 ELSE 0
<1>1. IInv /\ [Next]_vars => [Learnt]_vars
  <2> SUFFICES ASSUME IInv, Next, NEW g \in Groups, calculated' # calculated,
                      updated'[g] # <<>>, NEW arm \in Arms
               PROVE  Cardinality({k \in DOMAIN updated'[g] : updated'[g][k] = arm})
                        = IF Comparable(GetSpreadingFactors(arm),
                                        GetSpreadingFactors(selection[lastChannel'][g]))
                          THEN 1 ELSE 0
    OBVIOUS
  <2>1. CalculateSetting
    BY DEF Next, StopApplication, Send, NewChannelReq, DownlinkLost, historyVars
  <2>2. lastChannel' \in Frequencies
    BY <2>1 DEF CalculateSetting, IInv, TypeOK, Frequencies
  <2>3. selection[lastChannel'][g] \in Arms
    BY <2>2 DEF IInv, TypeOK
  <2>4. updated'[g] = NewObservation(selection[lastChannel'][g])
    BY <2>1 DEF CalculateSetting
  <2> DEFINE judged == selection[lastChannel'][g]
             A == {x \in Arms : Comparable(GetSpreadingFactors(x), GetSpreadingFactors(judged))}
  <2>5. OnceEach(updated'[g], A)
    BY <2>3, <2>4, ObservedOnce
  <2>6. arm \in A <=> Comparable(GetSpreadingFactors(arm), GetSpreadingFactors(judged))
    OBVIOUS
  <2> HIDE DEF A, judged
  <2>7. Cardinality({k \in DOMAIN updated'[g] : updated'[g][k] = arm})
          = IF arm \in A THEN 1 ELSE 0
    BY <2>5, OccurrencesCounted
  <2> QED BY <2>6, <2>7 DEF judged
<1> QED BY <1>1, Invariance, PTL DEF Spec, EachComparableArmOnce

=============================================================================
