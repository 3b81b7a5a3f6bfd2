---------------------- MODULE LoRaCommandExchangeProofs ----------------------
(***************************************************************************)
(* Proofs about LoRaCommandExchange and the codec it uses (LoRaMacHeader   *)
(* and LoRaMacCommand), for any commands of the network, any losses and    *)
(* any number of rounds.                                                   *)
(*                                                                         *)
(* First the codec: what a header serializes to is read back as that       *)
(* header.  Then the device: a command leaves its settings coherent and    *)
(* its answer true.  Last the exchange: every packet in transit is what a  *)
(* header serializes to, so each reader has what the writer meant.         *)
(***************************************************************************)
EXTENDS LoRaCommandExchange, SequenceTheorems, WellFoundedInduction, TLAPS

-----------------------------------------------------------------------------
(* Folds: the loops of the code over lists *)

(* Induction up to n. *)
LEMMA UpTo ==
  ASSUME NEW n \in Nat, NEW Good, 0 \in Good,
         \A k \in Nat : k < n /\ k \in Good => k + 1 \in Good
  PROVE  \A k \in 0..n : k \in Good
<1> SUFFICES ASSUME NEW m \in 0..n, m \notin Good PROVE FALSE
  OBVIOUS
<1> DEFINE Missing == {k \in Nat : k <= n /\ k \notin Good}
           Less == {p \in Nat \X Nat : p[1] < p[2]}
<1>1. Missing # {} /\ Missing \subseteq Nat
  OBVIOUS
<1>2. PICK k \in Missing : \A j \in Missing : <<j, k>> \notin Less
  <2>1. IsWellFoundedOn(Less, Nat)
    BY NatLessThanWellFounded DEF OpToRel
  <2> HIDE DEF Missing, Less
  <2> QED BY <1>1, <2>1, WFMin
<1>3. \A j \in Missing : ~(j < k)
  BY <1>2
<1>4. k \in Nat /\ k # 0 /\ k <= n /\ k \notin Good
  OBVIOUS
<1>5. k - 1 \in Nat /\ k - 1 < k /\ k - 1 < n /\ (k - 1) + 1 = k
  BY <1>4
<1>6. k - 1 \in Good
  BY <1>3, <1>4, <1>5
<1> QED BY <1>4, <1>5, <1>6

(* A function that folds seq as FoldLeft does, F[x][c] being the operator.  *)
FoldsBy(iter, F, base, seq) ==
  \A s \in SUBSET DOMAIN seq :
    iter[s] = IF s = {} THEN base ELSE F[iter[s \ {Max(s)}]][seq[Max(s)]]

(* Such a function exists: the code's loops over lists, which the model     *)
(* folds, take one step per element.                                        *)
LEMMA FoldExists ==
  ASSUME NEW S, NEW C, NEW F \in [S -> [C -> S]], NEW base \in S, NEW seq \in Seq(C)
  PROVE  \E iter \in [SUBSET DOMAIN seq -> S] : FoldsBy(iter, F, base, seq)
<1> DEFINE n == Len(seq)
           Folds(k, f) ==
             \A s \in SUBSET (1..k) :
               f[s] = IF s = {} THEN base ELSE F[f[s \ {Max(s)}]][seq[Max(s)]]
           Good == {k \in 0..n : \E f \in [SUBSET (1..k) -> S] : Folds(k, f)}
<1>1. n \in Nat /\ DOMAIN seq = 1..n
  OBVIOUS
<1>2. 0 \in Good
  <2>1. [s \in SUBSET (1..0) |-> base] \in [SUBSET (1..0) -> S]
    OBVIOUS
  <2>2. \A s \in SUBSET (1..0) : s = {}
    OBVIOUS
  <2>3. Folds(0, [s \in SUBSET (1..0) |-> base])
    BY <2>2
  <2>4. \E f \in [SUBSET (1..0) -> S] : Folds(0, f)
    BY <2>1, <2>3
  <2>5. 0 \in 0..n
    BY <1>1
  <2> HIDE DEF Folds, n
  <2> QED BY <2>4, <2>5
<1>3. ASSUME NEW k \in Nat, k < n, k \in Good PROVE k + 1 \in Good
  <2>1. PICK f \in [SUBSET (1..k) -> S] : Folds(k, f)
    BY <1>3
  <2> DEFINE g == [s \in SUBSET (1..k + 1) |->
                     IF k + 1 \in s THEN F[f[s \ {k + 1}]][seq[k + 1]] ELSE f[s]]
  <2>2. seq[k + 1] \in C
    BY <1>3
  <2>3. \A s \in SUBSET (1..k + 1) :
          /\ s \ {k + 1} \in SUBSET (1..k)
          /\ k + 1 \notin s => s \in SUBSET (1..k)
    OBVIOUS
  <2>4. ASSUME NEW s \in SUBSET (1..k + 1) PROVE g[s] \in S
    <3>1. CASE k + 1 \in s
      <4>1. f[s \ {k + 1}] \in S
        BY <2>3
      <4> QED BY <2>2, <3>1, <4>1, SMTT(30)
    <3>2. CASE k + 1 \notin s
      BY <2>3, <3>2
    <3> QED BY <3>1, <3>2
  <2>5. g \in [SUBSET (1..k + 1) -> S]
    BY <2>4
  <2>6. ASSUME NEW s \in SUBSET (1..k + 1)
        PROVE  g[s] = IF s = {} THEN base ELSE F[g[s \ {Max(s)}]][seq[Max(s)]]
    <3>1. CASE s = {}
      <4>1. k + 1 \notin s /\ s \in SUBSET (1..k)
        BY <3>1
      <4>2. g[s] = f[s] /\ f[s] = base
        BY <2>1, <3>1, <4>1
      <4> QED BY <3>1, <4>2
    <3>2. CASE k + 1 \in s
      <4>1. Max(s) = k + 1
        <5>1. k + 1 \in s /\ \A y \in s : k + 1 >= y
          BY <3>2
        <5>2. \A x \in s : (\A y \in s : x >= y) => x = k + 1
          BY <5>1
        <5> QED BY <5>1, <5>2 DEF Max
      <4>2. s \ {k + 1} \in SUBSET (1..k) /\ s \ {k + 1} \in SUBSET (1..k + 1)
        BY <2>3
      <4>3. g[s] = F[f[s \ {k + 1}]][seq[k + 1]] /\ g[s \ {k + 1}] = f[s \ {k + 1}]
        BY <3>2, <4>2
      <4> QED BY <3>2, <4>1, <4>3
    <3>3. CASE k + 1 \notin s /\ s # {}
      <4>1. s \in SUBSET (1..k)
        BY <2>3, <3>3
      <4>2. s \ {Max(s)} \in SUBSET (1..k) /\ k + 1 \notin s \ {Max(s)}
        BY <4>1, <3>3
      <4>3. s \ {Max(s)} \in SUBSET (1..k + 1)
        OBVIOUS
      <4>4. g[s] = f[s] /\ g[s \ {Max(s)}] = f[s \ {Max(s)}]
        BY <3>3, <4>1, <4>2, <4>3
      <4>5. f[s] = F[f[s \ {Max(s)}]][seq[Max(s)]]
        BY <2>1, <3>3, <4>1
      <4> QED BY <3>3, <4>4, <4>5
    <3> QED BY <3>1, <3>2, <3>3
  <2> HIDE DEF g
  <2>7. Folds(k + 1, g)
    BY <2>6
  <2>8. k + 1 \in 0..n
    BY <1>3, <1>1
  <2> HIDE DEF Folds
  <2> QED BY <2>5, <2>7, <2>8
<1> HIDE DEF Good
<1>4. \A k \in Nat : k < n /\ k \in Good => k + 1 \in Good
  BY <1>3
<1>5. n \in Good
  <2> HIDE DEF n
  <2>1. \A k \in 0..n : k \in Good
    BY <1>2, <1>1, <1>4, UpTo
  <2> QED BY <1>1, <2>1
<1>6. PICK f \in [SUBSET (1..n) -> S] : Folds(n, f)
  BY <1>5 DEF Good
<1> QED BY <1>1, <1>6 DEF FoldsBy

(* A set of numbers up to n has a greatest one. *)
LEMMA Greatest ==
  ASSUME NEW n \in Nat, NEW s \in SUBSET (1..n), s # {}
  PROVE  \E x \in s : \A y \in s : x >= y
<1> DEFINE Good == {k \in 0..n : \A t \in SUBSET (1..k) : t # {} =>
                      \E x \in t : \A y \in t : x >= y}
<1>1. 0 \in Good
  <2>1. \A t \in SUBSET (1..0) : t = {}
    OBVIOUS
  <2>2. 0 \in 0..n
    OBVIOUS
  <2> QED BY <2>1, <2>2
<1>2. ASSUME NEW k \in Nat, k < n, k \in Good PROVE k + 1 \in Good
  <2>1. ASSUME NEW t \in SUBSET (1..k + 1), t # {}
        PROVE  \E x \in t : \A y \in t : x >= y
    <3>1. CASE k + 1 \in t
      BY <3>1
    <3>2. CASE k + 1 \notin t
      <4>1. t \in SUBSET (1..k)
        BY <3>2
      <4> QED BY <1>2, <2>1, <4>1
    <3> QED BY <3>1, <3>2
  <2>2. k + 1 \in 0..n
    BY <1>2
  <2> QED BY <2>1, <2>2
<1> HIDE DEF Good
<1>3. n \in Good
  <2>1. \A k \in 0..n : k \in Good
    BY <1>1, <1>2, UpTo
  <2> QED BY <2>1
<1> QED BY <1>3 DEF Good

(* It only takes values of S, and goes from one element of seq to the next. *)
LEMMA FoldValues ==
  ASSUME NEW S, NEW C, NEW seq \in Seq(C), NEW iter \in [SUBSET DOMAIN seq -> S],
         NEW s \in SUBSET DOMAIN seq, s # {}
  PROVE  s \ {Max(s)} \in SUBSET DOMAIN seq /\ iter[s \ {Max(s)}] \in S /\ seq[Max(s)] \in C
<1>1. DOMAIN seq = 1..Len(seq) /\ Len(seq) \in Nat
  OBVIOUS
<1>2. \E x \in s : \A y \in s : x >= y
  BY <1>1, Greatest
<1>3. Max(s) \in s
  BY <1>2 DEF Max
<1> QED BY <1>3

(* The indices up to k: the last of them and the others. *)
LEMMA FirstOnes ==
  ASSUME NEW k \in Nat, k # 0
  PROVE  1..k # {} /\ Max(1..k) = k /\ (1..k) \ {k} = 1..k - 1
<1>1. k \in 1..k /\ \A y \in 1..k : k >= y
  OBVIOUS
<1>2. \A x \in 1..k : (\A y \in 1..k : x >= y) => x = k
  BY <1>1
<1>3. Max(1..k) = k
  BY <1>1, <1>2 DEF Max
<1> QED BY <1>1, <1>3

(* The states such a function goes through. *)
LEMMA FoldSteps ==
  ASSUME NEW seq, DOMAIN seq = 1..Len(seq), Len(seq) \in Nat, NEW iter
  PROVE  \A k \in 1..Len(seq) :
           /\ 1..k \in SUBSET DOMAIN seq /\ 1..k - 1 \in SUBSET DOMAIN seq
           /\ 1..k # {} /\ Max(1..k) = k /\ iter[(1..k) \ {Max(1..k)}] = iter[1..k - 1]
<1> TAKE k \in 1..Len(seq)
<1>1. 1..k # {} /\ Max(1..k) = k /\ (1..k) \ {k} = 1..k - 1
  BY FirstOnes
<1>3. 1..k \in SUBSET DOMAIN seq /\ 1..k - 1 \in SUBSET DOMAIN seq
  OBVIOUS
<1> QED BY <1>1, <1>3

(* u consists of s and t. *)
Joins(u, s, t) ==
  /\ Len(u) = Len(s) + Len(t)
  /\ \A i \in 1..Len(s) : u[i] = s[i]
  /\ \A j \in 1..Len(t) : u[Len(s) + j] = t[j]

(* The elements of a concatenation are those of its two parts. *)
LEMMA ConcatParts ==
  ASSUME NEW X, NEW s \in Seq(X), NEW t \in Seq(X)
  PROVE  s \o t \in Seq(X) /\ Joins(s \o t, s, t)
<1> DEFINE u == s \o t
           p == Len(s)
           q == Len(t)
<1>1. p \in Nat /\ q \in Nat
  OBVIOUS
<1>2. /\ u \in Seq(X) /\ Len(u) = p + q
      /\ \A i \in 1..p + q : u[i] = IF i <= p THEN s[i] ELSE t[i - p]
  BY ConcatProperties
<1> HIDE DEF u, p, q
<1>3. \A i \in 1..p : i \in 1..p + q /\ i <= p
  BY <1>1
<1>4. \A j \in 1..q : p + j \in 1..p + q /\ ~(p + j <= p) /\ (p + j) - p = j
  BY <1>1
<1>5. \A i \in 1..p : u[i] = s[i]
  BY <1>2, <1>3
<1>6. ASSUME NEW j \in 1..q PROVE u[p + j] = t[j]
  <2>1. u[p + j] = t[(p + j) - p]
    BY <1>2, <1>4
  <2> QED BY <1>4, <2>1
<1> QED BY <1>2, <1>5, <1>6 DEF u, p, q, Joins

(* Concatenation in a row: the parts are found at the offsets o. *)
LEMMA Flattened ==
  ASSUME NEW X, NEW seqs \in Seq(Seq(X)), NEW o \in [0..Len(seqs) -> Nat], o[0] = 0,
         \A k \in 1..Len(seqs) : o[k] = o[k - 1] + Len(seqs[k])
  PROVE  /\ FlattenSeq(seqs) \in Seq(X)
         /\ Len(FlattenSeq(seqs)) = o[Len(seqs)]
         /\ \A k \in 1..Len(seqs) : \A j \in 1..Len(seqs[k]) :
              FlattenSeq(seqs)[o[k - 1] + j] = seqs[k][j]
<1> DEFINE n == Len(seqs)
<1>0. /\ n \in Nat /\ DOMAIN seqs = 1..n
      /\ \A k \in 1..n : seqs[k] \in Seq(X) /\ Len(seqs[k]) \in Nat
      /\ \A k \in 0..n : o[k] \in Nat
  <2>1. n \in Nat /\ DOMAIN seqs = 1..n
    OBVIOUS
  <2>2. \A k \in 0..n : o[k] \in Nat
    OBVIOUS
  <2>3. ASSUME NEW k \in 1..n PROVE seqs[k] \in Seq(X) /\ Len(seqs[k]) \in Nat
    <3>1. seqs[k] \in Seq(X)
      OBVIOUS
    <3> QED BY <3>1
  <2> QED BY <2>1, <2>2, <2>3
<1>1. CASE n = 0
  <2>1. seqs = <<>>
    BY <1>1
  <2>2. FlattenSeq(seqs) = <<>>
    BY <1>1, <2>1 DEF FlattenSeq
  <2> QED BY <1>1, <2>2
<1>2. CASE n # 0
  <2> DEFINE F == [x \in Seq(X) |-> [c \in Seq(X) |-> x \o c]]
             Is(f) == f = [i \in 1..n |-> IF i = 1 THEN seqs[i] ELSE f[i - 1] \o seqs[i]]
  <2>1. \E f : Is(f)
    <3>1. F \in [Seq(X) -> [Seq(X) -> Seq(X)]] /\ <<>> \in Seq(X)
      OBVIOUS
    <3>2. PICK iter \in [SUBSET DOMAIN seqs -> Seq(X)] : FoldsBy(iter, F, <<>>, seqs)
      <4> DEFINE S == Seq(X)
      <4>1. F \in [S -> [S -> S]] /\ <<>> \in S /\ seqs \in Seq(S)
        BY <3>1
      <4> HIDE DEF F, S
      <4>2. \E iter \in [SUBSET DOMAIN seqs -> S] : FoldsBy(iter, F, <<>>, seqs)
        BY <4>1, FoldExists
      <4> QED BY <4>2 DEF S
    <3> DEFINE f == [i \in 1..n |-> iter[1..i]]
    <3>3. iter[{}] = <<>>
      BY <3>2 DEF FoldsBy
    <3>4. \A i \in 1..n :
            /\ 1..i \in SUBSET DOMAIN seqs /\ 1..i - 1 \in SUBSET DOMAIN seqs
            /\ 1..i # {} /\ Max(1..i) = i
            /\ iter[(1..i) \ {Max(1..i)}] = iter[1..i - 1]
      BY <1>0, FoldSteps, ZenonT(60)
    <3>5. ASSUME NEW i \in 1..n PROVE iter[1..i] = iter[1..i - 1] \o seqs[i]
      <4>1. /\ 1..i \in SUBSET DOMAIN seqs /\ 1..i - 1 \in SUBSET DOMAIN seqs
            /\ 1..i # {} /\ Max(1..i) = i
            /\ iter[(1..i) \ {Max(1..i)}] = iter[1..i - 1]
        BY <3>4
      <4>2. iter[1..i] = F[iter[1..i - 1]][seqs[i]]
        <5> HIDE DEF F
        <5> QED BY <3>2, <4>1 DEF FoldsBy
      <4>3. iter[1..i - 1] \in Seq(X) /\ seqs[i] \in Seq(X)
        BY <4>1
      <4> QED BY <4>2, <4>3
    <3>6. ASSUME NEW i \in 1..n
          PROVE  f[i] = IF i = 1 THEN seqs[i] ELSE f[i - 1] \o seqs[i]
      <4>1. CASE i = 1
        <5>1. 1..i - 1 = {}
          BY <4>1
        <5>2. f[i] = <<>> \o seqs[i]
          BY <3>3, <3>5, <5>1
        <5>3. seqs[i] \in Seq(X)
          OBVIOUS
        <5> QED BY <4>1, <5>2, <5>3
      <4>2. CASE i # 1
        <5>1. i - 1 \in 1..n
          BY <4>2
        <5> QED BY <3>5, <4>2, <5>1
      <4> QED BY <4>1, <4>2
    <3>7. Is(f)
      BY <3>6
    <3> QED BY <3>7
  <2> DEFINE flat == CHOOSE f : Is(f)
  <2>2. Is(flat)
    BY <2>1
  <2>3. FlattenSeq(seqs) = flat[n]
    BY <1>2 DEF FlattenSeq
  <2> HIDE DEF flat
  <2>4. \A i \in 1..n : flat[i] = IF i = 1 THEN seqs[i] ELSE flat[i - 1] \o seqs[i]
    BY <2>2
  <2> DEFINE Whole(k) ==
               /\ flat[k] \in Seq(X) /\ Len(flat[k]) = o[k]
               /\ \A m \in 1..k : \A j \in 1..Len(seqs[m]) :
                    flat[k][o[m - 1] + j] = seqs[m][j]
             Good == {k \in 0..n : k = 0 \/ Whole(k)}
  <2>5. ASSUME NEW k \in Nat, k < n, k \in Good PROVE k + 1 \in Good
    <3>1. k + 1 \in 1..n /\ (k + 1) - 1 = k /\ k \in 0..n
      <4> HIDE DEF Good, n
      <4> QED BY <1>0, <2>5
    <3>2. seqs[k + 1] \in Seq(X) /\ o[k + 1] = o[k] + Len(seqs[k + 1]) /\ o[k] \in Nat
      BY <1>0, <3>1
    <3>3. CASE k = 0
      <4>1. flat[1] = seqs[1] /\ k + 1 = 1
        BY <2>4, <3>1, <3>3
      <4>2. o[0] = 0 /\ o[1] = Len(seqs[1])
        BY <3>2, <3>3
      <4>3. ASSUME NEW m \in 1..1, NEW j \in 1..Len(seqs[m])
            PROVE  flat[1][o[m - 1] + j] = seqs[m][j]
        <5>1. m = 1 /\ m - 1 = 0
          OBVIOUS
        <5> QED BY <3>2, <3>3, <4>1, <4>2, <5>1
      <4>4. Whole(1)
        BY <3>2, <4>1, <4>2, <4>3
      <4> HIDE DEF Whole
      <4> QED BY <3>1, <4>1, <4>4
    <3>4. CASE k # 0
      <4>1. Whole(k)
        BY <2>5, <3>4
      <4>2. flat[k + 1] = flat[k] \o seqs[k + 1]
        <5>1. k + 1 # 1
          BY <3>4
        <5> QED BY <2>4, <3>1, <5>1
      <4>3. /\ flat[k + 1] \in Seq(X)
            /\ Len(flat[k + 1]) = o[k] + Len(seqs[k + 1])
            /\ \A j \in 1..o[k] : flat[k + 1][j] = flat[k][j]
            /\ \A j \in 1..Len(seqs[k + 1]) : flat[k + 1][o[k] + j] = seqs[k + 1][j]
        <5>1. flat[k] \in Seq(X) /\ Len(flat[k]) = o[k]
          BY <4>1
        <5> HIDE DEF Whole, flat
        <5>2. flat[k + 1] \in Seq(X) /\ Joins(flat[k + 1], flat[k], seqs[k + 1])
          BY <3>2, <4>2, <5>1, ConcatParts
        <5> QED BY <3>2, <5>1, <5>2 DEF Joins
      <4>4. \A m \in 1..k : \A j \in 1..Len(seqs[m]) : o[m - 1] + j \in 1..o[k]
        <5>1. \A m \in 1..k : o[m] <= o[k]
          <6> DEFINE Below == {i \in 0..k : \A m \in 1..i : o[m] <= o[i]}
          <6>1. 0 \in Below
            BY <3>1
          <6>2. ASSUME NEW i \in Nat, i < k, i \in Below PROVE i + 1 \in Below
            <7>1. i + 1 \in 1..n /\ (i + 1) - 1 = i /\ i \in 0..n
              BY <3>1, <6>2
            <7>2. o[i] <= o[i + 1]
              <8>1. Len(seqs[i + 1]) \in Nat /\ o[i] \in Nat
                BY <1>0, <7>1
              <8>2. o[i + 1] = o[i] + Len(seqs[i + 1])
                BY <7>1
              <8> QED BY <8>1, <8>2
            <7>3. \A m \in 1..i + 1 : m \in 1..i \/ m = i + 1
              OBVIOUS
            <7>4. \A m \in 1..i + 1 : o[m] \in Nat
              BY <1>0, <7>1
            <7>5. \A m \in 1..i + 1 : o[m] <= o[i + 1]
              BY <6>2, <7>1, <7>2, <7>3, <7>4
            <7> QED BY <6>2, <7>5
          <6> HIDE DEF Below
          <6>3. k \in Nat /\ k \in 0..k
            BY <3>1
          <6>4. \A i \in 0..k : i \in Below
            BY <6>1, <6>2, <6>3, UpTo
          <6>5. k \in Below
            BY <6>3, <6>4
          <6> QED BY <6>5 DEF Below
        <5>2. ASSUME NEW m \in 1..k, NEW j \in 1..Len(seqs[m])
              PROVE  o[m - 1] + j \in 1..o[k]
          <6>1. m \in 1..n /\ m - 1 \in 0..n /\ seqs[m] \in Seq(X)
            BY <3>1
          <6>2. o[m] = o[m - 1] + Len(seqs[m]) /\ o[m - 1] \in Nat /\ Len(seqs[m]) \in Nat
            BY <1>0, <6>1
          <6>3. o[m] <= o[k] /\ o[k] \in Nat
            BY <3>2, <5>1
          <6> QED BY <6>2, <6>3
        <5> QED BY <5>2
      <4>5. ASSUME NEW m \in 1..k + 1, NEW j \in 1..Len(seqs[m])
            PROVE  flat[k + 1][o[m - 1] + j] = seqs[m][j]
        <5>1. CASE m \in 1..k
          BY <4>1, <4>3, <4>4, <5>1
        <5>2. CASE m = k + 1
          BY <3>1, <4>3, <5>2
        <5> QED BY <3>1, <5>1, <5>2
      <4>6. Whole(k + 1)
        BY <3>2, <4>3, <4>5
      <4> HIDE DEF Whole
      <4> QED BY <3>1, <4>6
    <3> QED BY <3>3, <3>4
  <2>6. 0 \in Good
    BY <1>0
  <2> HIDE DEF Good
  <2>7. \A k \in 0..n : k \in Good
    BY <1>0, <2>5, <2>6, UpTo
  <2>8. n \in Good
    BY <1>0, <2>7
  <2>9. Whole(n)
    BY <1>2, <2>8 DEF Good
  <2> QED BY <2>3, <2>9
<1> QED BY <1>1, <1>2

-----------------------------------------------------------------------------
(* The commands of LoRaMacCommand on the air *)

(* A number is its low byte and the rest. *)
LEMMA LowByte ==
  ASSUME NEW x \in Nat
  PROVE  \E q \in Nat, r \in Byte : q = x \div 256 /\ r = x % 256 /\ x = 256 * q + r
<1>1. x \div 256 \in Nat /\ x % 256 \in Byte
  BY SMT DEF Byte
<1>2. PICK q \in Nat : q = x \div 256
  BY <1>1
<1>3. PICK r \in Byte : r = x % 256
  BY <1>1
<1>4. x = 256 * q + r
  BY <1>2, <1>3, SMT DEF Byte
<1> QED BY <1>2, <1>3, <1>4

(* The two bytes in which a buffer writes 16 bits give the number back. *)
LEMMA U16Read ==
  ASSUME NEW x \in 0..2^16 - 1
  PROVE  \E y, z \in Byte : U16(x) = <<y, z>> /\ y + 256 * z = x
<1>1. PICK q \in Nat, r \in Byte : q = x \div 256 /\ r = x % 256 /\ x = 256 * q + r
  <2>1. x \in Nat
    BY SMT
  <2> QED BY <2>1, LowByte
<1>2. x < 65536
  BY SMT
<1>3. q < 256
  BY <1>1, <1>2, SMT DEF Byte
<1>4. q % 256 = q /\ q \in Byte
  BY <1>3, SMT DEF Byte
<1>5. Bits(x, 8, 8) = q % 256 /\ Bits(x, 0, 8) = r
  <2>1. Bits(x, 8, 8) = (x \div 256) % 256 /\ Bits(x, 0, 8) = x % 256
    BY SMT DEF Bits
  <2> QED BY <1>1, <2>1
<1>6. r + 256 * q = x
  BY <1>1, SMT DEF Byte
<1>7. U16(x) = <<r, q>>
  BY <1>4, <1>5 DEF U16
<1> QED BY <1>4, <1>6, <1>7

(* The three bytes of a frequency give it back, in the order                *)
(* RxParamSetupReq reads them and in that of NewChannelReq.                 *)
LEMMA U24Read ==
  ASSUME NEW x \in 0..2^24 - 1
  PROVE  \E u, v, w \in Byte :
           /\ u = Bits(x, 16, 8) /\ v = Bits(x, 8, 8) /\ w = Bits(x, 0, 8)
           /\ U16(Bits(x, 0, 16)) = <<w, v>>
           /\ 2^16 * u + 2^8 * v + w = x /\ 2^16 * u + (w + 256 * v) = x
<1>1. PICK q \in Nat, r \in Byte : q = x \div 256 /\ r = x % 256 /\ x = 256 * q + r
  <2>1. x \in Nat
    BY SMT
  <2> QED BY <2>1, LowByte
<1>2. PICK z \in Nat, y \in Byte : z = q \div 256 /\ y = q % 256 /\ q = 256 * z + y
  BY LowByte
<1>3. x = 65536 * z + 256 * y + r
  BY <1>1, <1>2, SMT DEF Byte
<1>4. x < 16777216
  BY SMT
<1>5. z < 256
  BY <1>3, <1>4, SMT DEF Byte
<1>6. x \div 65536 = z
  BY <1>3, SMT DEF Byte
<1>7. z % 256 = z /\ z \in Byte
  BY <1>5, SMT DEF Byte
<1>8. Bits(x, 16, 8) = z /\ Bits(x, 8, 8) = y /\ Bits(x, 0, 8) = r
  <2>1. Bits(x, 16, 8) = (x \div 65536) % 256
    BY SMT DEF Bits
  <2>2. Bits(x, 8, 8) = (x \div 256) % 256 /\ Bits(x, 0, 8) = x % 256
    BY SMT DEF Bits
  <2>3. Bits(x, 16, 8) = z
    BY <1>6, <1>7, <2>1, SMT
  <2> QED BY <1>1, <1>2, <2>2, <2>3
<1>9. U16(Bits(x, 0, 16)) = <<r, y>>
  <2>1. PICK l : l = Bits(x, 0, 16)
    OBVIOUS
  <2>2. l = 256 * y + r
    <3>1. l = x % 65536
      BY <2>1, SMT DEF Bits
    <3> QED BY <1>3, <3>1, SMT DEF Byte
  <2>3. l \in 0..2^16 - 1 /\ l % 256 = r /\ (l \div 256) % 256 = y
    BY <2>2, SMT DEF Byte
  <2>4. Bits(l, 0, 8) = l % 256 /\ Bits(l, 8, 8) = (l \div 256) % 256
    BY <2>3, SMT DEF Bits
  <2>5. U16(l) = <<r, y>>
    BY <2>3, <2>4, SMT DEF U16
  <2> QED BY <2>1, <2>5
<1>10. 2^16 * z + 2^8 * y + r = x /\ 2^16 * z + (r + 256 * y) = x
  BY <1>3, SMT DEF Byte
<1> QED BY <1>7, <1>8, <1>9, <1>10

(* Records of each class, field by field. *)
LEMMA ClassesToBase ==
  ASSUME NEW c \in ToBase
  PROVE  \/ c \in {LinkCheckReq, DutyCycleAns, RxTimingSetupAns}
         \/ \E p, d, m \in BOOLEAN : c = LinkAdrAns(p, d, m) \/ c = RxParamSetupAns(p, d, m)
         \/ \E v \in Byte, m \in -128..127 : c = DevStatusAns(v, m)
         \/ \E d, f \in BOOLEAN : c = NewChannelAns(d, f)
<1>1. CASE c \in [kind : {"LinkCheckReq", "DutyCycleAns", "RxTimingSetupAns"}]
  BY <1>1 DEF LinkCheckReq, DutyCycleAns, RxTimingSetupAns
<1>2. CASE c \in [kind : {"LinkAdrAns"}, power : BOOLEAN, datarate : BOOLEAN,
                  channelmask : BOOLEAN]
  BY <1>2 DEF LinkAdrAns
<1>3. CASE c \in [kind : {"RxParamSetupAns"}, offsetAck : BOOLEAN, drAck : BOOLEAN,
                  channelAck : BOOLEAN]
  BY <1>3 DEF RxParamSetupAns
<1>4. CASE c \in [kind : {"DevStatusAns"}, battery : Byte, margin : -128..127]
  BY <1>4 DEF DevStatusAns
<1>5. CASE c \in [kind : {"NewChannelAns"}, datarateOk : BOOLEAN, freqOk : BOOLEAN]
  BY <1>5 DEF NewChannelAns
<1> QED BY <1>1, <1>2, <1>3, <1>4, <1>5 DEF ToBase

(* The commands the network sends are those of the seven classes. *)
LEMMA ClassesFromBase ==
  ASSUME NEW c \in FromBase
  PROVE  \/ c = DevStatusReq
         \/ \E d, p \in 0..7, m \in 0..2^16 - 1, n \in 0..1 : c = LinkAdrReq(d, p, m, n)
         \/ \E v \in Byte : c = DutyCycleReq(v) \/ c = RxTimingSetupReq(v)
         \/ \E o \in 0..7, d \in 0..15, f \in 0..2^24 - 1 : c = RxParamSetupReq(o, d, f)
         \/ \E i \in Byte, f \in 0..2^24 - 1, m, n \in 0..15 : c = NewChannelReq(i, f, m, n)
         \/ \E m, n \in Byte : c = LinkCheckAns(m, n)
<1>1. CASE c \in [kind : {"DevStatusReq"}]
  <2>1. c = DevStatusReq
    BY <1>1, SMT DEF DevStatusReq
  <2> QED BY <2>1
<1> DEFINE Masks == 0..2^16 - 1
           Freqs == 0..2^24 - 1
<1> HIDE DEF Masks, Freqs
<1>2. CASE c \in [kind : {"LinkAdrReq"}, datarate : 0..7, power : 0..7, mask : Masks,
                  nbRep : 0..1]
  <2>1. c = LinkAdrReq(c.datarate, c.power, c.mask, c.nbRep)
    BY <1>2, SMT DEF LinkAdrReq
  <2>2. c.datarate \in 0..7 /\ c.power \in 0..7 /\ c.mask \in Masks /\ c.nbRep \in 0..1
    BY <1>2, SMT
  <2> QED BY <2>1, <2>2, Zenon DEF Masks
<1>3. CASE c \in [kind : {"DutyCycleReq"}, dutyCycle : Byte]
  BY <1>3 DEF DutyCycleReq
<1>4. CASE c \in [kind : {"RxParamSetupReq"}, rx1Offset : 0..7, rx2Dr : 0..15,
                  rx2Freq : Freqs]
  <2>1. c = RxParamSetupReq(c.rx1Offset, c.rx2Dr, c.rx2Freq)
    BY <1>4, SMT DEF RxParamSetupReq
  <2>2. c.rx1Offset \in 0..7 /\ c.rx2Dr \in 0..15 /\ c.rx2Freq \in Freqs
    BY <1>4, SMT
  <2> QED BY <2>1, <2>2, Zenon DEF Freqs
<1>5. CASE c \in [kind : {"NewChannelReq"}, chIndex : Byte, freq : Freqs, minDr : 0..15,
                  maxDr : 0..15]
  <2>1. c = NewChannelReq(c.chIndex, c.freq, c.minDr, c.maxDr)
    BY <1>5, SMT DEF NewChannelReq
  <2>2. c.chIndex \in Byte /\ c.freq \in Freqs /\ c.minDr \in 0..15 /\ c.maxDr \in 0..15
    BY <1>5, SMT
  <2> QED BY <2>1, <2>2, Zenon DEF Freqs
<1>6. CASE c \in [kind : {"RxTimingSetupReq"}, delay : Byte]
  BY <1>6 DEF RxTimingSetupReq
<1>7. CASE c \in [kind : {"LinkCheckAns"}, margin : Byte, count : Byte]
  BY <1>7 DEF LinkCheckAns
<1> QED BY <1>1, <1>2, <1>3, <1>4, <1>5, <1>6, <1>7, Zenon DEF FromBase, Masks, Freqs

(* The commands of a direction that fit their fields. *)
OnAirCommands(direction) == IF direction = "TOBASE" THEN ToBase ELSE FromBase

(* Flags written side by side in a byte are read one by one. *)
LEMMA Flags ==
  ASSUME NEW p \in BOOLEAN, NEW q \in BOOLEAN, NEW r \in BOOLEAN
  PROVE  /\ IsSet(4 * Bit(p) + 2 * Bit(q) + Bit(r), 2) = p
         /\ IsSet(4 * Bit(p) + 2 * Bit(q) + Bit(r), 1) = q
         /\ IsSet(4 * Bit(p) + 2 * Bit(q) + Bit(r), 0) = r
         /\ IsSet(Bit(r) + 2 * Bit(q), 1) = q /\ IsSet(Bit(r) + 2 * Bit(q), 0) = r
         /\ 4 * Bit(p) + 2 * Bit(q) + Bit(r) \in Byte /\ Bit(r) + 2 * Bit(q) \in Byte
BY SMT DEF IsSet, Bits, Bit, Byte

(* Two numbers written in the halves of a byte are read one by one. *)
LEMMA Nibbles ==
  ASSUME NEW x \in 0..15, NEW y \in 0..15
  PROVE  /\ Bits(16 * x + y, 4, 4) = x /\ Bits(16 * x + y, 0, 4) = y
         /\ Bits(x, 0, 4) = x /\ 16 * x + y \in Byte
         /\ x < 8 => Bits(16 * x + y, 4, 3) = x /\ Bits(x, 0, 3) = x
         /\ y < 8 => Bits(16 * x + y, 0, 3) = y /\ Bits(y, 0, 3) = y
BY SMT DEF Bits, Byte

(* b starts with the bytes of t. *)
StartsWith(b, t) == \A j \in 1..Len(t) : b[j] = t[j]

(* CommandBasedOnCid picks the class by the CID and the direction. *)
LEMMA Dispatch ==
  ASSUME NEW b
  PROVE  /\ CommandBasedOnCid(2, "TOBASE", b) = LinkCheckReq
         /\ CommandBasedOnCid(3, "TOBASE", b) = LinkAdrAnsRead(b)
         /\ CommandBasedOnCid(4, "TOBASE", b) = DutyCycleAns
         /\ CommandBasedOnCid(5, "TOBASE", b) = RxParamSetupAnsRead(b)
         /\ CommandBasedOnCid(6, "TOBASE", b) = DevStatusAnsRead(b)
         /\ CommandBasedOnCid(7, "TOBASE", b) = NewChannelAnsRead(b)
         /\ CommandBasedOnCid(8, "TOBASE", b) = RxTimingSetupAns
         /\ CommandBasedOnCid(2, "FROMBASE", b) = LinkCheckAnsRead(b)
         /\ CommandBasedOnCid(3, "FROMBASE", b) = LinkAdrReqRead(b)
         /\ CommandBasedOnCid(4, "FROMBASE", b) = DutyCycleReqRead(b)
         /\ CommandBasedOnCid(5, "FROMBASE", b) = RxParamSetupReqRead(b)
         /\ CommandBasedOnCid(6, "FROMBASE", b) = DevStatusReq
         /\ CommandBasedOnCid(7, "FROMBASE", b) = NewChannelReqRead(b)
         /\ CommandBasedOnCid(8, "FROMBASE", b) = RxTimingSetupReqRead(b)
BY DEF CommandBasedOnCid, LINK_CHECK, LINK_ADR, DUTY_CYCLE, RX_PARAM_SETUP, DEV_STATUS,
       NEW_CHANNEL, RX_TIMING
(* Five values written two by two. *)
LEMMA Five ==
  ASSUME NEW S, NEW a \in S, NEW b \in S, NEW c \in S, NEW d \in S, NEW e \in S
  PROVE  <<a, b>> \o <<c, d>> \o <<e>> = <<a, b, c, d, e>>
<1> DEFINE u == <<a, b>> \o <<c, d>> \o <<e>>
           v == <<a, b, c, d, e>>
<1>1. v \in Seq(S) /\ Len(v) = 5
  OBVIOUS
<1>2. u \in Seq(S) /\ Len(u) = 5
  OBVIOUS
<1>3. u[1] = a /\ u[2] = b /\ u[3] = c /\ u[4] = d /\ u[5] = e
  OBVIOUS
<1>4. \A i \in 1..5 : u[i] = v[i]
  BY <1>3
<1> HIDE DEF u, v
<1>5. u = v
  BY <1>1, <1>2, <1>4, SeqEqual
<1> QED BY <1>5 DEF u, v
(* Six values written by threes and twos. *)
LEMMA Six ==
  ASSUME NEW S, NEW a \in S, NEW b \in S, NEW c \in S, NEW d \in S, NEW e \in S, NEW f \in S
  PROVE  <<a, b, c>> \o <<d, e>> \o <<f>> = <<a, b, c, d, e, f>>
<1> DEFINE u == <<a, b, c>> \o <<d, e>> \o <<f>>
           v == <<a, b, c, d, e, f>>
<1>1. v \in Seq(S) /\ Len(v) = 6
  OBVIOUS
<1>2. u \in Seq(S) /\ Len(u) = 6
  OBVIOUS
<1>3. u[1] = a /\ u[2] = b /\ u[3] = c /\ u[4] = d /\ u[5] = e /\ u[6] = f
  OBVIOUS
<1>4. \A i \in 1..6 : u[i] = v[i]
  BY <1>3
<1> HIDE DEF u, v
<1>5. u = v
  BY <1>1, <1>2, <1>4, SeqEqual
<1> QED BY <1>5 DEF u, v

(* What Serialize writes for c is what is read back, whatever follows.      *)
ReadsBack(direction, c) ==
  /\ Serialize(c) \in Seq(Byte)
  /\ Len(Serialize(c)) = GetSerializedSize(c)
  /\ GetSerializedSize(c) \in 1..6
  /\ \A b : StartsWith(b, Serialize(c)) => CommandBasedOnCid(b[1], direction, b) = c

(* The commands of the device that are a CID and nothing else. *)
LEMMA ConstantAnswers ==
  /\ ReadsBack("TOBASE", LinkCheckReq)
  /\ ReadsBack("TOBASE", DutyCycleAns)
  /\ ReadsBack("TOBASE", RxTimingSetupAns)
<1>1. ReadsBack("TOBASE", LinkCheckReq)
  <2>1. Serialize(LinkCheckReq) = <<2>> /\ GetSerializedSize(LinkCheckReq) = 1
    BY DEF Serialize, LinkCheckReq, LinkCheckReqBytes, LINK_CHECK, GetSerializedSize, Size
  <2> QED BY <2>1, Dispatch DEF ReadsBack, StartsWith, Byte
<1>2. ReadsBack("TOBASE", DutyCycleAns)
  <2>1. Serialize(DutyCycleAns) = <<4>> /\ GetSerializedSize(DutyCycleAns) = 1
    BY DEF Serialize, DutyCycleAns, DutyCycleAnsBytes, DUTY_CYCLE, GetSerializedSize, Size
  <2> QED BY <2>1, Dispatch DEF ReadsBack, StartsWith, Byte
<1>3. ReadsBack("TOBASE", RxTimingSetupAns)
  <2>1. Serialize(RxTimingSetupAns) = <<8>> /\ GetSerializedSize(RxTimingSetupAns) = 1
    BY DEF Serialize, RxTimingSetupAns, RxTimingSetupAnsBytes, RX_TIMING, GetSerializedSize, Size
  <2> QED BY <2>1, Dispatch DEF ReadsBack, StartsWith, Byte
<1> QED BY <1>1, <1>2, <1>3

(* The answers of the device that are a byte of flags. *)
LEMMA FlaggedAnswers ==
  ASSUME NEW p \in BOOLEAN, NEW q \in BOOLEAN, NEW r \in BOOLEAN
  PROVE  /\ ReadsBack("TOBASE", LinkAdrAns(p, q, r))
         /\ ReadsBack("TOBASE", RxParamSetupAns(p, q, r))
         /\ ReadsBack("TOBASE", NewChannelAns(q, r))
<1> DEFINE x == 4 * Bit(p) + 2 * Bit(q) + Bit(r)
           y == Bit(r) + 2 * Bit(q)
<1>1. /\ x \in Byte /\ IsSet(x, 2) = p /\ IsSet(x, 1) = q /\ IsSet(x, 0) = r
      /\ y \in Byte /\ IsSet(y, 1) = q /\ IsSet(y, 0) = r
  BY Flags
<1>2. ReadsBack("TOBASE", LinkAdrAns(p, q, r))
  <2> DEFINE c == LinkAdrAns(p, q, r)
  <2>1. Serialize(c) = <<3, x>> /\ GetSerializedSize(c) = 2
    BY DEF Serialize, LinkAdrAns, LinkAdrAnsBytes, LINK_ADR, GetSerializedSize, Size
  <2> HIDE DEF x
  <2>2. ASSUME NEW b, StartsWith(b, Serialize(c)) PROVE CommandBasedOnCid(b[1], "TOBASE", b) = c
    <3>1. b[1] = 3 /\ b[2] = x
      BY <2>1, <2>2 DEF StartsWith
    <3>2. LinkAdrAnsRead(b) = c
      BY <1>1, <3>1 DEF LinkAdrAnsRead
    <3> QED BY <3>1, <3>2, Dispatch
  <2> HIDE DEF c
  <2>3. ReadsBack("TOBASE", c)
    BY <1>1, <2>1, <2>2 DEF ReadsBack, Byte
  <2> QED BY <2>3 DEF c
<1>3. ReadsBack("TOBASE", RxParamSetupAns(p, q, r))
  <2> DEFINE c == RxParamSetupAns(p, q, r)
  <2>1. Serialize(c) = <<5, x>> /\ GetSerializedSize(c) = 2
    BY DEF Serialize, RxParamSetupAns, RxParamSetupAnsBytes, RX_PARAM_SETUP, GetSerializedSize, Size
  <2> HIDE DEF x
  <2>2. ASSUME NEW b, StartsWith(b, Serialize(c)) PROVE CommandBasedOnCid(b[1], "TOBASE", b) = c
    <3>1. b[1] = 5 /\ b[2] = x
      BY <2>1, <2>2 DEF StartsWith
    <3>2. RxParamSetupAnsRead(b) = c
      BY <1>1, <3>1 DEF RxParamSetupAnsRead
    <3> QED BY <3>1, <3>2, Dispatch
  <2> HIDE DEF c
  <2>3. ReadsBack("TOBASE", c)
    BY <1>1, <2>1, <2>2 DEF ReadsBack, Byte
  <2> QED BY <2>3 DEF c
<1>4. ReadsBack("TOBASE", NewChannelAns(q, r))
  <2> DEFINE c == NewChannelAns(q, r)
  <2>1. Serialize(c) = <<7, y>> /\ GetSerializedSize(c) = 2
    BY DEF Serialize, NewChannelAns, NewChannelAnsBytes, NEW_CHANNEL, GetSerializedSize, Size
  <2> HIDE DEF y
  <2>2. ASSUME NEW b, StartsWith(b, Serialize(c)) PROVE CommandBasedOnCid(b[1], "TOBASE", b) = c
    <3>1. b[1] = 7 /\ b[2] = y
      BY <2>1, <2>2 DEF StartsWith
    <3>2. NewChannelAnsRead(b) = c
      BY <1>1, <3>1 DEF NewChannelAnsRead
    <3> QED BY <3>1, <3>2, Dispatch
  <2> HIDE DEF c
  <2>3. ReadsBack("TOBASE", c)
    BY <1>1, <2>1, <2>2 DEF ReadsBack, Byte
  <2> QED BY <2>3 DEF c
<1> QED BY <1>2, <1>3, <1>4

(* A signed byte is read with its sign. *)
LEMMA Margins ==
  ASSUME NEW m \in -128..127
  PROVE  m % 256 \in Byte /\ (IF m % 256 < 128 THEN m % 256 ELSE (m % 256) - 256) = m
BY SMT DEF Byte

(* DevStatusAns: the battery and the signed margin. *)
LEMMA DevStatusAnswer ==
  ASSUME NEW v \in Byte, NEW m \in -128..127
  PROVE  ReadsBack("TOBASE", DevStatusAns(v, m))
<1> DEFINE c == DevStatusAns(v, m)
           x == m % 256
<1>1. x \in Byte /\ (IF x < 128 THEN x ELSE x - 256) = m
  BY Margins
<1>2. Serialize(c) = <<6, v, x>> /\ GetSerializedSize(c) = 3
  BY DEF Serialize, DevStatusAns, DevStatusAnsBytes, DEV_STATUS, GetSerializedSize, Size
<1> HIDE DEF x
<1>3. ASSUME NEW b, StartsWith(b, Serialize(c)) PROVE CommandBasedOnCid(b[1], "TOBASE", b) = c
  <2>1. b[1] = 6 /\ b[2] = v /\ b[3] = x
    BY <1>2, <1>3 DEF StartsWith
  <2>2. DevStatusAnsRead(b) = c
    BY <1>1, <2>1 DEF DevStatusAnsRead
  <2> QED BY <2>1, <2>2, Dispatch
<1> HIDE DEF c
<1>4. ReadsBack("TOBASE", c)
  BY <1>1, <1>2, <1>3 DEF ReadsBack, Byte
<1> QED BY <1>4 DEF c

(* The commands of the network whose parameters are whole bytes. *)
LEMMA ByteRequests ==
  ASSUME NEW v \in Byte, NEW w \in Byte
  PROVE  /\ ReadsBack("FROMBASE", DevStatusReq)
         /\ ReadsBack("FROMBASE", DutyCycleReq(v))
         /\ ReadsBack("FROMBASE", RxTimingSetupReq(v))
         /\ ReadsBack("FROMBASE", LinkCheckAns(v, w))
<1>1. ReadsBack("FROMBASE", DevStatusReq)
  <2>1. Serialize(DevStatusReq) = <<6>> /\ GetSerializedSize(DevStatusReq) = 1
    BY DEF Serialize, DevStatusReq, DevStatusReqBytes, DEV_STATUS, GetSerializedSize, Size
  <2> QED BY <2>1, Dispatch DEF ReadsBack, StartsWith, Byte
<1>2. ReadsBack("FROMBASE", DutyCycleReq(v))
  <2> DEFINE c == DutyCycleReq(v)
  <2>1. Serialize(c) = <<4, v>> /\ GetSerializedSize(c) = 2
    BY DEF Serialize, DutyCycleReq, DutyCycleReqBytes, DUTY_CYCLE, GetSerializedSize, Size
  <2>2. ASSUME NEW b, StartsWith(b, Serialize(c)) PROVE CommandBasedOnCid(b[1], "FROMBASE", b) = c
    <3>1. b[1] = 4 /\ b[2] = v
      BY <2>1, <2>2 DEF StartsWith
    <3> QED BY <3>1, Dispatch DEF DutyCycleReqRead
  <2> HIDE DEF c
  <2>3. ReadsBack("FROMBASE", c)
    BY <2>1, <2>2 DEF ReadsBack, Byte
  <2> QED BY <2>3 DEF c
<1>3. ReadsBack("FROMBASE", RxTimingSetupReq(v))
  <2> DEFINE c == RxTimingSetupReq(v)
  <2>1. Serialize(c) = <<8, v>> /\ GetSerializedSize(c) = 2
    BY DEF Serialize, RxTimingSetupReq, RxTimingSetupReqBytes, RX_TIMING, GetSerializedSize, Size
  <2>2. ASSUME NEW b, StartsWith(b, Serialize(c)) PROVE CommandBasedOnCid(b[1], "FROMBASE", b) = c
    <3>1. b[1] = 8 /\ b[2] = v
      BY <2>1, <2>2 DEF StartsWith
    <3> QED BY <3>1, Dispatch DEF RxTimingSetupReqRead
  <2> HIDE DEF c
  <2>3. ReadsBack("FROMBASE", c)
    BY <2>1, <2>2 DEF ReadsBack, Byte
  <2> QED BY <2>3 DEF c
<1>4. ReadsBack("FROMBASE", LinkCheckAns(v, w))
  <2> DEFINE c == LinkCheckAns(v, w)
  <2>1. Serialize(c) = <<2, v, w>> /\ GetSerializedSize(c) = 3
    BY DEF Serialize, LinkCheckAns, LinkCheckAnsBytes, LINK_CHECK, GetSerializedSize, Size
  <2>2. ASSUME NEW b, StartsWith(b, Serialize(c)) PROVE CommandBasedOnCid(b[1], "FROMBASE", b) = c
    <3>1. b[1] = 2 /\ b[2] = v /\ b[3] = w
      BY <2>1, <2>2 DEF StartsWith
    <3> QED BY <3>1, Dispatch DEF LinkCheckAnsRead
  <2> HIDE DEF c
  <2>3. ReadsBack("FROMBASE", c)
    BY <2>1, <2>2 DEF ReadsBack, Byte
  <2> QED BY <2>3 DEF c
<1> QED BY <1>1, <1>2, <1>3, <1>4

(* LinkAdrReq: rate, power, mask and repetitions. *)
LEMMA LinkAdrRequest ==
  ASSUME NEW d \in 0..7, NEW p \in 0..7, NEW m \in 0..2^16 - 1, NEW n \in 0..1
  PROVE  ReadsBack("FROMBASE", LinkAdrReq(d, p, m, n))
<1> DEFINE c == LinkAdrReq(d, p, m, n)
           x == 16 * Bits(d, 0, 3) + Bits(p, 0, 3)
           y == Bits(m, 0, 8)
           z == Bits(m, 8, 8)
<1>1. y \in Byte /\ z \in Byte /\ y + 256 * z = m
  <2>1. PICK u, v \in Byte : U16(m) = <<u, v>> /\ u + 256 * v = m
    BY U16Read
  <2> QED BY <2>1 DEF U16
<1>2. x \in Byte /\ Bits(x, 4, 3) = d /\ Bits(x, 0, 3) = p
  BY Nibbles, SMT
<1>3. Bit(n # 0) = n
  BY DEF Bit
<1> HIDE DEF y, z, x
<1>4. Serialize(c) = <<3, x, y, z, n>>
  <2>1. Serialize(c) = <<3, x>> \o <<y, z>> \o <<Bit(n # 0)>>
    BY DEF Serialize, LinkAdrReqBytes, LinkAdrReq, U16, x, y, z, LINK_ADR
  <2> HIDE DEF c
  <2>2. 3 \in Byte /\ n \in Byte /\ x \in Byte /\ y \in Byte /\ z \in Byte
    BY <1>1, <1>2 DEF Byte
  <2>3. <<3, x>> \o <<y, z>> \o <<n>> = <<3, x, y, z, n>>
    BY <2>2, Five
  <2> QED BY <1>3, <2>1, <2>3
<1>5. GetSerializedSize(c) = 5
  BY DEF GetSerializedSize, Size, LinkAdrReq
<1>6. ASSUME NEW b, StartsWith(b, Serialize(c)) PROVE CommandBasedOnCid(b[1], "FROMBASE", b) = c
  <2>1. b[1] = 3 /\ b[2] = x /\ b[3] = y /\ b[4] = z /\ b[5] = n
    BY <1>4, <1>6 DEF StartsWith
  <2>2. LinkAdrReqRead(b) = c
    BY <1>1, <1>2, <1>3, <2>1 DEF LinkAdrReqRead, ReadU16
  <2> QED BY <2>1, <2>2, Dispatch
<1> HIDE DEF c
<1>7. <<3, x, y, z, n>> \in Seq(Byte) /\ Len(<<3, x, y, z, n>>) = 5
  BY <1>1, <1>2 DEF Byte
<1>8. ReadsBack("FROMBASE", c)
  BY <1>4, <1>5, <1>6, <1>7 DEF ReadsBack
<1> QED BY <1>8 DEF c

(* RxParamSetupReq: offset, rate and frequency. *)
LEMMA RxParamSetupRequest ==
  ASSUME NEW o \in 0..7, NEW d \in 0..15, NEW f \in 0..2^24 - 1
  PROVE  ReadsBack("FROMBASE", RxParamSetupReq(o, d, f))
<1> DEFINE c == RxParamSetupReq(o, d, f)
           x == 16 * Bits(o, 0, 3) + d
<1>1. PICK u, v, w \in Byte :
        /\ u = Bits(f, 16, 8) /\ v = Bits(f, 8, 8) /\ w = Bits(f, 0, 8)
        /\ U16(Bits(f, 0, 16)) = <<w, v>>
        /\ 2^16 * u + 2^8 * v + w = f /\ 2^16 * u + (w + 256 * v) = f
  BY U24Read
<1>3. x \in Byte /\ Bits(x, 4, 3) = o /\ Bits(x, 0, 4) = d
  BY Nibbles, SMT
<1> HIDE DEF x
<1>4. Serialize(c) = <<5, x, u, v, w>>
  BY <1>1, SMT DEF Serialize, RxParamSetupReqBytes, RxParamSetupReq, x, RX_PARAM_SETUP
<1>5. GetSerializedSize(c) = 5
  BY DEF GetSerializedSize, Size, RxParamSetupReq
<1>6. ASSUME NEW b, StartsWith(b, Serialize(c)) PROVE CommandBasedOnCid(b[1], "FROMBASE", b) = c
  <2>1. b[1] = 5 /\ b[2] = x /\ b[3] = u /\ b[4] = v /\ b[5] = w
    BY <1>4, <1>6 DEF StartsWith
  <2>2. 2^16 * b[3] + 2^8 * b[4] + b[5] = f
    BY <1>1, <2>1
  <2>3. RxParamSetupReqRead(b) = c
    BY <1>3, <2>1, <2>2 DEF RxParamSetupReqRead
  <2> QED BY <2>1, <2>3, Dispatch
<1> HIDE DEF c
<1>7. <<5, x, u, v, w>> \in Seq(Byte) /\ Len(<<5, x, u, v, w>>) = 5
  BY <1>3 DEF Byte
<1>8. ReadsBack("FROMBASE", c)
  BY <1>4, <1>5, <1>6, <1>7 DEF ReadsBack
<1> QED BY <1>8 DEF c

(* NewChannelReq: slot, frequency and rates. *)
LEMMA NewChannelRequest ==
  ASSUME NEW i \in Byte, NEW f \in 0..2^24 - 1, NEW m \in 0..15, NEW n \in 0..15
  PROVE  ReadsBack("FROMBASE", NewChannelReq(i, f, m, n))
<1> DEFINE c == NewChannelReq(i, f, m, n)
           x == 16 * Bits(n, 0, 4) + Bits(m, 0, 4)
<1>1. PICK u, v, w \in Byte :
        /\ u = Bits(f, 16, 8) /\ v = Bits(f, 8, 8) /\ w = Bits(f, 0, 8)
        /\ U16(Bits(f, 0, 16)) = <<w, v>>
        /\ 2^16 * u + 2^8 * v + w = f /\ 2^16 * u + (w + 256 * v) = f
  BY U24Read
<1>4. x \in Byte /\ Bits(x, 4, 4) = n /\ Bits(x, 0, 4) = m
  BY Nibbles, SMT
<1> HIDE DEF x
<1>6. Serialize(c) = <<7, i, u, w, v, x>>
  <2>1. Serialize(c) = <<7, i, u>> \o <<w, v>> \o <<x>>
    BY <1>1 DEF Serialize, NewChannelReqBytes, NewChannelReq, x, NEW_CHANNEL
  <2> HIDE DEF c
  <2>2. 7 \in Byte /\ x \in Byte
    BY <1>4 DEF Byte
  <2>3. <<7, i, u>> \o <<w, v>> \o <<x>> = <<7, i, u, w, v, x>>
    BY <2>2, Six
  <2> QED BY <2>1, <2>3
<1>7. GetSerializedSize(c) = 6
  BY DEF GetSerializedSize, Size, NewChannelReq
<1>8. ASSUME NEW b, StartsWith(b, Serialize(c)) PROVE CommandBasedOnCid(b[1], "FROMBASE", b) = c
  <2>1. b[1] = 7 /\ b[2] = i /\ b[3] = u /\ b[4] = w /\ b[5] = v /\ b[6] = x
    BY <1>6, <1>8 DEF StartsWith
  <2>2. 2^16 * b[3] + ReadU16(b, 4) = f
    BY <1>1, <2>1 DEF ReadU16
  <2>3. NewChannelReqRead(b) = c
    BY <1>4, <2>1, <2>2 DEF NewChannelReqRead
  <2> QED BY <2>1, <2>3, Dispatch
<1> HIDE DEF c
<1>9. <<7, i, u, w, v, x>> \in Seq(Byte) /\ Len(<<7, i, u, w, v, x>>) = 6
  BY <1>4 DEF Byte
<1>10. ReadsBack("FROMBASE", c)
  BY <1>6, <1>7, <1>8, <1>9 DEF ReadsBack
<1> QED BY <1>10 DEF c

(* Every command of LoRaMacCommand whose parameters fit their fields is     *)
(* read by CommandBasedOnCid and Deserialize as Serialize wrote it, from    *)
(* the bytes GetSerializedSize says, whatever bytes follow.                 *)
THEOREM CommandsReadBack ==
  ASSUME NEW direction \in Directions, NEW c \in OnAirCommands(direction)
  PROVE  ReadsBack(direction, c)
<1>1. CASE direction = "TOBASE"
  <2>1. c \in ToBase
    BY <1>1 DEF OnAirCommands
  <2> QED BY <1>1, <2>1, ClassesToBase, ConstantAnswers, FlaggedAnswers, DevStatusAnswer
<1>2. CASE direction = "FROMBASE"
  <2>1. c \in FromBase
    BY <1>2 DEF OnAirCommands
  <2>2. 0 \in Byte
    BY DEF Byte
  <2> QED BY <1>2, <2>1, <2>2, ClassesFromBase, ByteRequests, LinkAdrRequest,
             RxParamSetupRequest, NewChannelRequest, Zenon
<1> QED BY <1>1, <1>2 DEF Directions

-----------------------------------------------------------------------------
(* The length of the commands *)

(* The bytes of commands, and how they add up. *)
Length(commands) == FoldLeft(LAMBDA n, c : n + GetSerializedSize(c), 0, commands)

(* g[k] is what the first k commands take on the air. *)
AddsUp(g, commands) ==
  /\ g \in [0..Len(commands) -> Nat]
  /\ g[0] = 0
  /\ \A k \in 1..Len(commands) : g[k] = g[k - 1] + GetSerializedSize(commands[k])

(* Lists of commands that fit their fields. *)
OnAirSequences == Seq(ToBase \cup FromBase)

(* A command takes one to six bytes. *)
LEMMA Sizes ==
  ASSUME NEW c \in ToBase \cup FromBase
  PROVE  GetSerializedSize(c) \in 1..6
BY CommandsReadBack DEF ReadsBack, OnAirCommands, Directions

(* GetCommandsLength adds the size of each command in turn. *)
LEMMA LengthSteps ==
  ASSUME NEW commands \in OnAirSequences
  PROVE  \E g : AddsUp(g, commands) /\ Length(commands) = g[Len(commands)]
<1> DEFINE C == ToBase \cup FromBase
           n == Len(commands)
           F == [x \in Nat |-> [c \in C |-> x + GetSerializedSize(c)]]
           Is(f) == f = [s \in SUBSET DOMAIN commands |->
                           IF s = {} THEN 0
                           ELSE f[s \ {Max(s)}] + GetSerializedSize(commands[Max(s)])]
<1>0. commands \in Seq(C) /\ n \in Nat /\ DOMAIN commands = 1..n
  BY DEF OnAirSequences
<1>1. F \in [Nat -> [C -> Nat]]
  BY Sizes
<1>2. PICK iter \in [SUBSET DOMAIN commands -> Nat] : FoldsBy(iter, F, 0, commands)
  <2> HIDE DEF F, C
  <2> QED BY <1>0, <1>1, FoldExists
<1>3. ASSUME NEW s \in SUBSET DOMAIN commands, s # {}
      PROVE  iter[s] = iter[s \ {Max(s)}] + GetSerializedSize(commands[Max(s)])
  <2>1. iter[s \ {Max(s)}] \in Nat /\ commands[Max(s)] \in C
    <3> HIDE DEF C
    <3> QED BY <1>0, <1>3, FoldValues
  <2>2. iter[s] = F[iter[s \ {Max(s)}]][commands[Max(s)]]
    BY <1>2, <1>3 DEF FoldsBy
  <2> HIDE DEF C
  <2> QED BY <2>1, <2>2
<1>4. iter[{}] = 0
  BY <1>2 DEF FoldsBy
<1>5. Is(iter)
  <2> HIDE DEF F, C
  <2> QED BY <1>3, <1>4
<1> DEFINE f == CHOOSE f : Is(f)
<1>6. Is(f)
  BY <1>5
<1>7. Length(commands) = f[DOMAIN commands]
  BY DEF Length, FoldLeft, MapThenFoldSet
<1> HIDE DEF f, F, C
<1>8. \A k \in 1..n :
        /\ 1..k \in SUBSET DOMAIN commands /\ 1..k - 1 \in SUBSET DOMAIN commands
        /\ 1..k # {} /\ Max(1..k) = k /\ f[(1..k) \ {Max(1..k)}] = f[1..k - 1]
  BY <1>0, FoldSteps, Zenon
<1>9. \A k \in 1..n : f[1..k] = f[1..k - 1] + GetSerializedSize(commands[k])
  BY <1>6, <1>8
<1>10. f[1..0] = 0
  <2>1. 1..0 = {}
    OBVIOUS
  <2> QED BY <1>6, <2>1
<1> DEFINE g == [k \in 0..n |-> f[1..k]]
<1>11. \A k \in 1..n : GetSerializedSize(commands[k]) \in Nat
  <2>1. \A k \in 1..n : commands[k] \in ToBase \cup FromBase
    BY <1>0 DEF C
  <2>2. \A k \in 1..n : GetSerializedSize(commands[k]) \in 1..6
    BY <2>1, Sizes
  <2> QED BY <2>2
<1>12. \A k \in 0..n : f[1..k] \in Nat
  <2> DEFINE Good == {k \in 0..n : f[1..k] \in Nat}
  <2>1. 0 \in Good
    BY <1>0, <1>10
  <2>2. ASSUME NEW k \in Nat, k < n, k \in Good PROVE k + 1 \in Good
    <3>1. k + 1 \in 1..n /\ (k + 1) - 1 = k
      BY <1>0, <2>2
    <3>2. f[1..k + 1] = f[1..k] + GetSerializedSize(commands[k + 1])
      BY <1>9, <3>1
    <3> QED BY <1>11, <2>2, <3>1, <3>2
  <2> HIDE DEF Good
  <2>3. \A k \in 0..n : k \in Good
    BY <1>0, <2>1, <2>2, UpTo
  <2> QED BY <2>3 DEF Good
<1>13. AddsUp(g, commands)
  <2>1. g \in [0..n -> Nat]
    BY <1>12
  <2>2. g[0] = 0
    BY <1>0, <1>10
  <2>3. \A k \in 1..n : k - 1 \in 0..n /\ k \in 0..n
    BY <1>0
  <2>4. \A k \in 1..n : g[k] = g[k - 1] + GetSerializedSize(commands[k])
    BY <1>9, <2>3
  <2> QED BY <2>1, <2>2, <2>4 DEF AddsUp
<1>14. g[n] = f[DOMAIN commands]
  BY <1>0
<1> QED BY <1>7, <1>13, <1>14

(* Two sums of the same sizes are equal. *)
LEMMA SameSum ==
  ASSUME NEW m \in Nat, NEW f, NEW g, NEW size, f[0] = g[0],
         \A k \in 1..m : f[k] = f[k - 1] + size[k] /\ g[k] = g[k - 1] + size[k]
  PROVE  f[m] = g[m]
<1> DEFINE Good == {k \in 0..m : f[k] = g[k]}
<1>1. 0 \in Good
  OBVIOUS
<1>2. ASSUME NEW k \in Nat, k < m, k \in Good PROVE k + 1 \in Good
  <2>1. k + 1 \in 1..m /\ (k + 1) - 1 = k
    BY <1>2
  <2>2. f[k + 1] = f[k] + size[k + 1] /\ g[k + 1] = g[k] + size[k + 1]
    BY <2>1
  <2> QED BY <1>2, <2>1, <2>2
<1> HIDE DEF Good
<1>3. \A k \in 0..m : k \in Good
  BY <1>1, <1>2, UpTo
<1> QED BY <1>3 DEF Good

(* The length of the commands is any such sum. *)
LEMMA LengthIs ==
  ASSUME NEW commands \in OnAirSequences, NEW g, AddsUp(g, commands)
  PROVE  Length(commands) = g[Len(commands)]
<1>1. PICK f : AddsUp(f, commands) /\ Length(commands) = f[Len(commands)]
  BY LengthSteps
<1> DEFINE size == [k \in 1..Len(commands) |-> GetSerializedSize(commands[k])]
<1>2. Len(commands) \in Nat
  BY DEF OnAirSequences
<1>3. /\ f[0] = g[0]
      /\ \A k \in 1..Len(commands) : f[k] = f[k - 1] + size[k] /\ g[k] = g[k - 1] + size[k]
  BY <1>1 DEF AddsUp
<1>4. f[Len(commands)] = g[Len(commands)]
  <2> HIDE DEF size
  <2> QED BY <1>2, <1>3, SameSum
<1> QED BY <1>1, <1>4

(* No commands take no bytes. *)
LEMMA LengthOfNone == Length(<<>>) = 0
<1>1. <<>> \in OnAirSequences /\ Len(<<>>) = 0
  BY DEF OnAirSequences
<1>2. PICK g : AddsUp(g, <<>>) /\ Length(<<>>) = g[0]
  BY <1>1, LengthSteps
<1> QED BY <1>2 DEF AddsUp

(* A command more takes its bytes more. *)
LEMMA LengthAppend ==
  ASSUME NEW commands \in OnAirSequences, NEW c \in ToBase \cup FromBase
  PROVE  /\ Append(commands, c) \in OnAirSequences
         /\ Length(commands) \in Nat
         /\ Length(Append(commands, c)) = Length(commands) + GetSerializedSize(c)
<1> DEFINE n == Len(commands)
           more == Append(commands, c)
<1>1. n \in Nat /\ more \in OnAirSequences /\ Len(more) = n + 1
      /\ (\A k \in 1..n : more[k] = commands[k]) /\ more[n + 1] = c
  BY DEF OnAirSequences
<1>2. PICK g : AddsUp(g, commands) /\ Length(commands) = g[n]
  BY LengthSteps
<1> DEFINE f == [k \in 0..n + 1 |-> IF k = n + 1 THEN g[n] + GetSerializedSize(c) ELSE g[k]]
<1>3. GetSerializedSize(c) \in Nat
  BY Sizes
<1>4. /\ g[0] = 0 /\ (\A k \in 0..n : g[k] \in Nat)
      /\ \A k \in 1..n : g[k] = g[k - 1] + GetSerializedSize(commands[k])
  BY <1>2 DEF AddsUp
<1> HIDE DEF more, n
<1>5. AddsUp(f, more)
  <2>1. f \in [0..n + 1 -> Nat]
    <3>1. g[n] \in Nat
      BY <1>1, <1>4
    <3>2. g[n] + GetSerializedSize(c) \in Nat
      BY <1>3, <3>1
    <3>3. \A k \in 0..n + 1 : k # n + 1 => k \in 0..n
      BY <1>1
    <3> QED BY <1>4, <3>2, <3>3
  <2>2. f[0] = 0
    BY <1>1, <1>4
  <2>3. ASSUME NEW k \in 1..n + 1
        PROVE  f[k] = f[k - 1] + GetSerializedSize(more[k])
    <3>1. CASE k = n + 1
      <4>1. k - 1 = n /\ n # n + 1 /\ n \in 0..n + 1
        BY <1>1, <3>1
      <4> QED BY <1>1, <3>1, <4>1
    <3>2. CASE k # n + 1
      <4>1. k \in 1..n /\ k - 1 # n + 1 /\ k - 1 \in 0..n + 1 /\ k \in 0..n + 1
        BY <1>1, <3>2
      <4> QED BY <1>1, <1>4, <3>2, <4>1
    <3> QED BY <3>1, <3>2
  <2> QED BY <1>1, <2>1, <2>2, <2>3 DEF AddsUp
<1>6. f[n + 1] = g[n] + GetSerializedSize(c)
  BY <1>1
<1>7. Length(more) = f[n + 1]
  <2> HIDE DEF f
  <2> QED BY <1>1, <1>5, LengthIs
<1>8. g[n] \in Nat
  BY <1>1, <1>4
<1> QED BY <1>1, <1>2, <1>6, <1>7, <1>8 DEF more, n

-----------------------------------------------------------------------------
(* The layout of a header *)

(* The bytes of a header, and what follows them, by their places. *)
Laid(a, addr, f, y, z, body, port) ==
  <<a>> \o addr \o <<f>> \o <<y, z>> \o <<>> \o body \o <<port>>

(* Where a reader finds each of them in p. *)
Lies(p, a, addr, f, y, z, body, port, rest) ==
  /\ Len(p) = 9 + Len(body) + Len(rest)
  /\ p[1] = a /\ p[6] = f /\ p[7] = y /\ p[8] = z /\ p[9 + Len(body)] = port
  /\ p[2] = addr[1] /\ p[3] = addr[2] /\ p[4] = addr[3] /\ p[5] = addr[4]
  /\ \A j \in 1..Len(body) : p[8 + j] = body[j]
  /\ \A j \in 1..Len(rest) : p[9 + Len(body) + j] = rest[j]

(* What is laid out is found in its place, whatever follows. *)
LEMMA Layout ==
  ASSUME NEW X, NEW a \in X, NEW addr \in Seq(X), Len(addr) = 4, NEW f \in X,
         NEW y \in X, NEW z \in X, NEW body \in Seq(X), NEW port \in X, NEW rest \in Seq(X)
  PROVE  /\ Laid(a, addr, f, y, z, body, port) \o rest \in Seq(X)
         /\ Lies(Laid(a, addr, f, y, z, body, port) \o rest, a, addr, f, y, z, body, port, rest)
<1> DEFINE p == Laid(a, addr, f, y, z, body, port) \o rest
           s1 == <<a>> \o addr
           s2 == s1 \o <<f>>
           s3 == s2 \o <<y, z>>
           s4 == s3 \o <<>>
           s5 == s4 \o body
           s6 == s5 \o <<port>>
<1>0. <<a>> \in Seq(X) /\ <<f>> \in Seq(X) /\ <<y, z>> \in Seq(X) /\ <<port>> \in Seq(X)
  OBVIOUS
<1>1. s1 \in Seq(X) /\ Joins(s1, <<a>>, addr)
  BY <1>0, ConcatParts
<1>2. s2 \in Seq(X) /\ Joins(s2, s1, <<f>>)
  <2> HIDE DEF s1
  <2> QED BY <1>0, <1>1, ConcatParts
<1>3. s3 \in Seq(X) /\ Joins(s3, s2, <<y, z>>)
  <2> HIDE DEF s2
  <2> QED BY <1>0, <1>2, ConcatParts
<1>4. s4 = s3
  <2> HIDE DEF s3
  <2> QED BY <1>3
<1>5. s5 \in Seq(X) /\ Joins(s5, s3, body)
  <2> HIDE DEF s3, s4
  <2>1. s5 = s3 \o body
    BY <1>4
  <2> HIDE DEF s5
  <2> QED BY <1>3, <2>1, ConcatParts
<1>6. s6 \in Seq(X) /\ Joins(s6, s5, <<port>>)
  <2> HIDE DEF s5
  <2> QED BY <1>0, <1>5, ConcatParts
<1>7. p \in Seq(X) /\ Joins(p, s6, rest)
  <2>1. p = s6 \o rest
    BY DEF Laid
  <2> HIDE DEF s6
  <2> QED BY <1>6, <2>1, ConcatParts
<1> HIDE DEF s1, s2, s3, s4, s5, s6, p
<1>8. Len(body) \in Nat /\ Len(rest) \in Nat
  OBVIOUS
<1>9. /\ Len(s1) = 5 /\ s1[1] = a /\ s1[2] = addr[1] /\ s1[3] = addr[2]
      /\ s1[4] = addr[3] /\ s1[5] = addr[4]
  <2>1. Len(<<a>>) = 1
    OBVIOUS
  <2>2. \A j \in 1..4 : s1[1 + j] = addr[j]
    BY <1>1, <2>1 DEF Joins
  <2>3. s1[1 + 1] = addr[1] /\ s1[1 + 2] = addr[2] /\ s1[1 + 3] = addr[3] /\ s1[1 + 4] = addr[4]
    BY <2>2
  <2>4. s1[1] = a
    BY <1>1, <2>1 DEF Joins
  <2> QED BY <1>1, <2>1, <2>3, <2>4 DEF Joins
<1>10. /\ Len(s2) = 6 /\ s2[6] = f /\ \A i \in 1..5 : s2[i] = s1[i]
  <2>1. s2[5 + 1] = f
    BY <1>2, <1>9 DEF Joins
  <2> QED BY <1>2, <1>9, <2>1 DEF Joins
<1>11. /\ Len(s3) = 8 /\ s3[7] = y /\ s3[8] = z /\ \A i \in 1..6 : s3[i] = s2[i]
  <2>1. s3[6 + 1] = y /\ s3[6 + 2] = z
    BY <1>3, <1>10 DEF Joins
  <2> QED BY <1>3, <1>10, <2>1 DEF Joins
<1>12. /\ Len(s5) = 8 + Len(body) /\ (\A i \in 1..8 : s5[i] = s3[i])
       /\ \A j \in 1..Len(body) : s5[8 + j] = body[j]
  BY <1>5, <1>11 DEF Joins
<1>13. /\ Len(s6) = 9 + Len(body) /\ (\A i \in 1..8 + Len(body) : s6[i] = s5[i])
       /\ s6[9 + Len(body)] = port
  <2>1. s6[(8 + Len(body)) + 1] = port
    BY <1>6, <1>12 DEF Joins
  <2> QED BY <1>6, <1>8, <1>12, <2>1 DEF Joins
<1>14. /\ Len(p) = 9 + Len(body) + Len(rest) /\ (\A i \in 1..9 + Len(body) : p[i] = s6[i])
       /\ \A j \in 1..Len(rest) : p[9 + Len(body) + j] = rest[j]
  BY <1>7, <1>8, <1>13 DEF Joins
<1>15. \A i \in 1..8 : p[i] = s3[i]
  BY <1>8, <1>12, <1>13, <1>14
<1>16. \A j \in 1..Len(body) : p[8 + j] = body[j]
  <2> TAKE j \in 1..Len(body)
  <2>1. 8 + j \in 1..8 + Len(body) /\ 8 + j \in 1..9 + Len(body)
    BY <1>8
  <2> QED BY <1>12, <1>13, <1>14, <2>1
<1>17. p[9 + Len(body)] = port
  <2>1. 9 + Len(body) \in 1..9 + Len(body)
    BY <1>8
  <2> QED BY <1>13, <1>14, <2>1
<1>18. p[1] = a /\ p[2] = addr[1] /\ p[3] = addr[2] /\ p[4] = addr[3] /\ p[5] = addr[4]
       /\ p[6] = f /\ p[7] = y /\ p[8] = z
  <2>1. \A i \in 1..5 : p[i] = s1[i]
    BY ONLY <1>10, <1>11, <1>15
  <2>2. p[1] = s1[1] /\ p[2] = s1[2] /\ p[3] = s1[3] /\ p[4] = s1[4] /\ p[5] = s1[5]
    BY <2>1
  <2>3. p[6] = s2[6]
    BY ONLY <1>11, <1>15
  <2>4. p[7] = s3[7] /\ p[8] = s3[8]
    BY ONLY <1>15
  <2> QED BY <1>9, <1>10, <1>11, <2>2, <2>3, <2>4
<1> QED BY <1>7, <1>14, <1>16, <1>17, <1>18, Zenon DEF Lies, p

(* Headers the exchange makes: their fields and commands fit on the air.    *)
Addresses == {a \in Seq(Byte) : Len(a) = 4}

(* The types of the data frames of a direction. *)
Types(direction) ==
  IF direction = "TOBASE" THEN {CONFIRMED_DATA_UP}
                          ELSE {UNCONFIRMED_DATA_DOWN, CONFIRMED_DATA_DOWN}

(* The headers of a direction whose fields have their width. *)
Fields(direction) ==
  [type : Types(direction), version : {0}, adaptive : {0, 1}, adrAckReq : BOOLEAN,
   ack : BOOLEAN, pending : BOOLEAN, port : Byte, addr : Addresses,
   counter : 0..2^16 - 1, commands : Seq(OnAirCommands(direction)), channels : {<<>>}]

(* Those that can be written: their commands take at most fifteen bytes,    *)
(* the four bits of their length.                                           *)
Headers(direction) == {h \in Fields(direction) : GetCommandsLength(h) < 16}

(* The two bytes of a header that hold several fields. *)
LEMMA FirstByte ==
  ASSUME NEW type \in {3, 4, 5}
  PROVE  LET b == 32 * Bits(type, 0, 3) + Bits(0, 0, 2)
         IN b \in Byte /\ Bits(b, 5, 3) = type /\ Bits(b, 0, 2) = 0
BY SMT DEF Bits, Byte

(* The byte of flags and length. *)
Control(p, q, r, s, n) ==
  128 * p + 64 * Bit(q) + 32 * Bit(r) + 16 * Bit(s) + Bits(n, 0, 4)

(* What is read from it. *)
Controls(b, p, q, r, s, n) ==
  /\ b \in Byte /\ Bits(b, 7, 1) = p /\ IsSet(b, 6) = q /\ IsSet(b, 5) = r
  /\ IsSet(b, 4) = s /\ Bits(b, 0, 4) = n

(* The flags and the length are read as they were written. *)
LEMMA ControlByte ==
  ASSUME NEW p \in {0, 1}, NEW q \in BOOLEAN, NEW r \in BOOLEAN, NEW s \in BOOLEAN,
         NEW n \in 0..15
  PROVE  Controls(Control(p, q, r, s, n), p, q, r, s, n)
<1> DEFINE b == Control(p, q, r, s, n)
<1>1. Bits(n, 0, 4) = n
  BY Nibbles
<1>2. b = 128 * p + 64 * Bit(q) + 32 * Bit(r) + 16 * Bit(s) + n
  BY <1>1 DEF Control
<1> HIDE DEF b
<1>3. /\ b \in Byte /\ Bits(b, 7, 1) = p /\ IsSet(b, 6) = q /\ IsSet(b, 5) = r
      /\ IsSet(b, 4) = s /\ Bits(b, 0, 4) = n
  BY <1>2, SMT DEF Bits, Byte, IsSet, Bit
<1> QED BY <1>3 DEF Controls, b

-----------------------------------------------------------------------------
(* Reading the commands back *)

(* What SerializeCommands writes for a header with these commands. *)
Body(commands) == FlattenSeq([i \in DOMAIN commands |-> Serialize(commands[i])])

(* The bytes of each command are where the sizes of those before it say.    *)
Placed(b, start, commands, g) ==
  \A k \in 1..Len(commands) : \A j \in 1..Len(Serialize(commands[k])) :
    b[start + g[k - 1] + j] = Serialize(commands[k])[j]

(* The commands lie one after the other, each further than those before it. *)
LEMMA Growing ==
  ASSUME NEW commands \in OnAirSequences, NEW g, AddsUp(g, commands)
  PROVE  /\ \A k \in 0..Len(commands) : k <= g[k]
         /\ \A k \in 0..Len(commands) : k # Len(commands) => g[k] < g[Len(commands)]
<1> DEFINE n == Len(commands)
<1>1. n \in Nat /\ \A k \in 1..n : GetSerializedSize(commands[k]) \in 1..6
  BY Sizes DEF OnAirSequences
<1>2. /\ g[0] = 0 /\ \A k \in 0..n : g[k] \in Nat
      /\ \A k \in 1..n : g[k] = g[k - 1] + GetSerializedSize(commands[k])
  BY DEF AddsUp
<1> HIDE DEF n
<1>3. ASSUME NEW k \in Nat, k < n PROVE g[k] + 1 <= g[k + 1] /\ g[k] \in Nat /\ g[k + 1] \in Nat
  <2>1. k + 1 \in 1..n /\ (k + 1) - 1 = k /\ k \in 0..n /\ k + 1 \in 0..n
    BY <1>1, <1>3
  <2> QED BY <1>1, <1>2, <2>1
<1>4. \A k \in 0..n : k <= g[k]
  <2> DEFINE Good == {k \in 0..n : k <= g[k]}
  <2>1. 0 \in Good
    BY <1>1, <1>2
  <2>2. ASSUME NEW k \in Nat, k < n, k \in Good PROVE k + 1 \in Good
    BY <1>1, <1>3, <2>2
  <2> HIDE DEF Good
  <2>3. \A k \in 0..n : k \in Good
    BY <1>1, <2>1, <2>2, UpTo
  <2> QED BY <2>3 DEF Good
<1>5. \A k \in 0..n : \A m \in 0..k - 1 : g[m] < g[k]
  <2> DEFINE Good == {k \in 0..n : \A m \in 0..k - 1 : g[m] < g[k]}
  <2>1. 0 \in Good
    BY <1>1
  <2>2. ASSUME NEW k \in Nat, k < n, k \in Good PROVE k + 1 \in Good
    <3>1. \A m \in 0..(k + 1) - 1 : m \in 0..k - 1 \/ m = k
      BY <2>2
    <3>2. \A m \in 0..k : g[m] \in Nat
      BY <1>1, <1>2, <2>2
    <3>3. \A m \in 0..(k + 1) - 1 : g[m] < g[k + 1]
      BY <1>3, <2>2, <3>1, <3>2
    <3>4. k + 1 \in 0..n
      BY <1>1, <2>2
    <3> QED BY <3>3, <3>4
  <2> HIDE DEF Good
  <2>3. \A k \in 0..n : k \in Good
    BY <1>1, <2>1, <2>2, UpTo
  <2> QED BY <2>3 DEF Good
<1>6. \A k \in 0..n : k # n => k \in 0..n - 1
  BY <1>1
<1>7. n \in 0..n
  BY <1>1
<1> QED BY <1>4, <1>5, <1>6, <1>7 DEF n

(* The bytes of the commands lie where the sum of the sizes before them     *)
(* says.                                                                    *)
LEMMA CommandBytes ==
  ASSUME NEW commands \in OnAirSequences, NEW g, AddsUp(g, commands)
  PROVE  /\ Body(commands) \in Seq(Byte) /\ Len(Body(commands)) = g[Len(commands)]
         /\ Placed(Body(commands), 0, commands, g)
<1> DEFINE n == Len(commands)
           seqs == [i \in DOMAIN commands |-> Serialize(commands[i])]
<1>1. n \in Nat /\ DOMAIN commands = 1..n /\ \A k \in 1..n : commands[k] \in ToBase \cup FromBase
  BY DEF OnAirSequences
<1>2. \A k \in 1..n : /\ Serialize(commands[k]) \in Seq(Byte)
                      /\ Len(Serialize(commands[k])) = GetSerializedSize(commands[k])
  BY <1>1, CommandsReadBack DEF ReadsBack, OnAirCommands, Directions
<1>3. /\ g \in [0..n -> Nat] /\ g[0] = 0
      /\ \A k \in 1..n : g[k] = g[k - 1] + GetSerializedSize(commands[k])
  BY DEF AddsUp
<1> HIDE DEF n
<1>4. seqs \in Seq(Seq(Byte)) /\ Len(seqs) = n /\ \A k \in 1..n : seqs[k] = Serialize(commands[k])
  <2> DEFINE S == Seq(Byte)
  <2>1. \A k \in 1..n : Serialize(commands[k]) \in S
    BY <1>2
  <2> HIDE DEF S
  <2>2. seqs \in Seq(S) /\ Len(seqs) = n /\ \A k \in 1..n : seqs[k] = Serialize(commands[k])
    BY <1>1, <2>1
  <2> QED BY <2>2 DEF S
<1>5. \A k \in 1..n : g[k] = g[k - 1] + Len(seqs[k])
  BY <1>2, <1>3, <1>4
<1> HIDE DEF seqs
<1>6. /\ FlattenSeq(seqs) \in Seq(Byte) /\ Len(FlattenSeq(seqs)) = g[n]
      /\ \A k \in 1..n : \A j \in 1..Len(seqs[k]) : FlattenSeq(seqs)[g[k - 1] + j] = seqs[k][j]
  <2>1. /\ g \in [0..Len(seqs) -> Nat] /\ seqs \in Seq(Seq(Byte))
        /\ \A k \in 1..Len(seqs) : g[k] = g[k - 1] + Len(seqs[k])
    BY <1>3, <1>4, <1>5
  <2>2. /\ FlattenSeq(seqs) \in Seq(Byte) /\ Len(FlattenSeq(seqs)) = g[Len(seqs)]
        /\ \A k \in 1..Len(seqs) : \A j \in 1..Len(seqs[k]) :
             FlattenSeq(seqs)[g[k - 1] + j] = seqs[k][j]
    BY <1>3, <2>1, Flattened, Zenon
  <2> QED BY <1>4, <2>2
<1>7. Body(commands) = FlattenSeq(seqs)
  BY DEF Body, seqs
<1>8. Placed(FlattenSeq(seqs), 0, commands, g)
  <2>1. \A k \in 1..n : k - 1 \in 0..n /\ g[k - 1] \in Nat
    BY <1>1, <1>3
  <2>2. ASSUME NEW k \in 1..n, NEW j \in 1..Len(Serialize(commands[k]))
        PROVE  FlattenSeq(seqs)[0 + g[k - 1] + j] = Serialize(commands[k])[j]
    <3>1. 0 + g[k - 1] + j = g[k - 1] + j
      BY <2>1
    <3> QED BY <1>4, <1>6, <3>1
  <2> QED BY <2>2 DEF Placed, n
<1> QED BY <1>6, <1>7, <1>8 DEF n

(* Where the bytes of a command lie in the packet. *)
LEMMA Offsets ==
  ASSUME NEW x \in Nat, NEW y \in Nat, NEW z \in Nat, NEW n \in 1..6, x + n <= y, 8 + y <= z
  PROVE  /\ 9 + x \in 1..z /\ z \in 1..z /\ 1 \in 1..n /\ 8 + x + 1 = 9 + x
         /\ \A j \in 1..n : j \in 1..z - (9 + x) + 1 /\ (9 + x) + j - 1 = 8 + x + j
OBVIOUS

(* Reading the commands of a header back. *)
LEMMA ReadCommandsBack ==
  ASSUME NEW direction \in Directions, NEW commands \in Seq(OnAirCommands(direction)),
         NEW g, AddsUp(g, commands), g[Len(commands)] < 16, NEW p \in Seq(Byte),
         Len(p) >= 8 + g[Len(commands)], Placed(p, 8, commands, g)
  PROVE  ReadCommands(p, 9, g[Len(commands)], direction) = commands
<1> DEFINE n == Len(commands)
           C == OnAirCommands(direction)
           Start == [next |-> 9, commands |-> <<>>]
           Read(before) == CommandBasedOnCid(p[before.next], direction,
                                             SubSeq(p, before.next, Len(p)))
           Round(before) ==
             IF before.next >= 9 + g[n] THEN before
             ELSE [next |-> before.next + GetSerializedSize(Read(before)),
                   commands |-> Append(before.commands, Read(before))]
           Is(f) == f = [round \in 0..15 |-> IF round = 0 THEN Start ELSE Round(f[round - 1])]
           AtMost(r) == IF r < n THEN r ELSE n
           w == [r \in 0..15 |-> [next |-> 9 + g[AtMost(r)],
                                  commands |-> SubSeq(commands, 1, AtMost(r))]]
<1>1. n \in Nat /\ commands \in OnAirSequences /\ \A k \in 1..n : commands[k] \in C
  <2>1. C \subseteq ToBase \cup FromBase
    BY DEF OnAirCommands
  <2> HIDE DEF C
  <2>2. commands \in Seq(C) /\ \A k \in 1..n : commands[k] \in C
    BY DEF C
  <2>3. commands \in Seq(ToBase \cup FromBase)
    BY <2>1, <2>2
  <2> QED BY <2>2, <2>3 DEF OnAirSequences
<1>2. /\ g[0] = 0 /\ (\A k \in 0..n : g[k] \in Nat /\ k <= g[k])
      /\ (\A k \in 1..n : g[k] = g[k - 1] + GetSerializedSize(commands[k]))
      /\ (\A k \in 0..n : k # n => g[k] < g[n])
  <2>1. \A k \in 0..n : g[k] \in Nat
    BY DEF AddsUp
  <2> QED BY <1>1, <2>1, Growing DEF AddsUp
<1>3. n <= 15
  <2>1. n \in 0..n
    BY <1>1
  <2> HIDE DEF n
  <2>2. n <= g[n] /\ g[n] \in Nat
    BY <1>2, <2>1
  <2>3. g[n] < 16
    BY DEF n
  <2> QED BY <1>1, <2>2, <2>3
<1>4. ASSUME NEW k \in 1..n
      PROVE  CommandBasedOnCid(p[9 + g[k - 1]], direction, SubSeq(p, 9 + g[k - 1], Len(p)))
               = commands[k]
  <2> DEFINE b == SubSeq(p, 9 + g[k - 1], Len(p))
             s == Serialize(commands[k])
  <2>1. ReadsBack(direction, commands[k])
    BY <1>1, CommandsReadBack
  <2>2. s \in Seq(Byte) /\ Len(s) = GetSerializedSize(commands[k])
        /\ GetSerializedSize(commands[k]) \in 1..6
    BY <2>1 DEF ReadsBack
  <2>3. /\ k - 1 \in 0..n /\ k \in 0..n /\ g[k - 1] \in Nat /\ g[k] \in Nat /\ g[n] \in Nat
        /\ g[k] = g[k - 1] + Len(s) /\ g[k] <= g[n]
    <3>1. k - 1 \in 0..n /\ k \in 0..n /\ n \in 0..n
      BY <1>1
    <3> QED BY <1>2, <2>2, <3>1
  <2>4. Len(p) \in Nat /\ g[k - 1] + Len(s) <= g[n] /\ 8 + g[n] <= Len(p) /\ Len(s) \in 1..6
    BY <2>2, <2>3
  <2> HIDE DEF s, n
  <2>5. \A j \in 1..Len(s) : b[j] = p[8 + g[k - 1] + j]
    <3> DEFINE m == 9 + g[k - 1]
    <3>1. m \in 1..Len(p) /\ Len(p) \in 1..Len(p)
      BY <2>3, <2>4, Offsets, Zenon
    <3>2. \A j \in 1..Len(s) : j \in 1..Len(p) - m + 1 /\ m + j - 1 = 8 + g[k - 1] + j
      <4> HIDE DEF b, w, Is, Round
      <4>1. \A j \in 1..Len(s) : /\ j \in 1..Len(p) - (9 + g[k - 1]) + 1
                                 /\ (9 + g[k - 1]) + j - 1 = 8 + g[k - 1] + j
        <5>1. PICK x \in Nat : x = g[k - 1]
          BY <2>3
        <5>2. PICK l \in 1..6 : l = Len(s)
          BY <2>4
        <5>3. PICK y \in Nat : y = g[n]
          BY <2>3
        <5>4. PICK z \in Nat : z = Len(p)
          BY <2>4
        <5>5. x + l <= y /\ 8 + y <= z
          BY <2>4, <5>1, <5>2, <5>3, <5>4, Zenon
        <5>6. \A j \in 1..l : j \in 1..z - (9 + x) + 1 /\ (9 + x) + j - 1 = 8 + x + j
          BY ONLY <5>5
        <5> QED BY <5>1, <5>2, <5>4, <5>6, Zenon
      <4> QED BY <4>1
    <3> TAKE j \in 1..Len(s)
    <3> HIDE DEF m
    <3>3. \A i \in m..Len(p) : p[i] \in Byte
      BY <3>1
    <3>4. SubSeq(p, m, Len(p))[j] = p[m + j - 1]
      BY <3>1, <3>2, <3>3, SubSeqProperties
    <3> QED BY <3>2, <3>4 DEF m
  <2>6. \A j \in 1..Len(s) : p[8 + g[k - 1] + j] = s[j]
    BY DEF Placed, s, n
  <2>7. b[1] = p[9 + g[k - 1]]
    <3> HIDE DEF b
    <3>1. 1 \in 1..Len(s) /\ 8 + g[k - 1] + 1 = 9 + g[k - 1]
      BY <2>3, <2>4, Offsets, Zenon
    <3> QED BY <2>5, <3>1
  <2> HIDE DEF b
  <2>8. StartsWith(b, Serialize(commands[k]))
    BY <2>5, <2>6 DEF StartsWith, s
  <2>9. CommandBasedOnCid(b[1], direction, b) = commands[k]
    BY <2>1, <2>8 DEF ReadsBack
  <2> QED BY <2>7, <2>9 DEF b
<1> HIDE DEF C
<1>5. ASSUME NEW r \in 1..15 PROVE w[r] = Round(w[r - 1])
  <2>1. r - 1 \in 0..15 /\ r \in 0..15
    OBVIOUS
  <2>2. CASE r - 1 >= n
    <3>1. AtMost(r) = n /\ AtMost(r - 1) = n
      BY <1>1, <2>2
    <3>2. w[r] = w[r - 1] /\ w[r - 1].next = 9 + g[n]
      BY <2>1, <3>1
    <3>3. g[n] \in Nat
      BY <1>1, <1>2
    <3> QED BY <3>2, <3>3
  <2>3. CASE ~(r - 1 >= n)
    <3>1. AtMost(r) = r /\ AtMost(r - 1) = r - 1 /\ r \in 1..n
      BY <1>1, <2>3
    <3>2. /\ w[r] = [next |-> 9 + g[r], commands |-> SubSeq(commands, 1, r)]
          /\ w[r - 1] = [next |-> 9 + g[r - 1], commands |-> SubSeq(commands, 1, r - 1)]
      BY <2>1, <3>1
    <3>3. Read(w[r - 1]) = commands[r]
      <4>1. w[r - 1].next = 9 + g[r - 1]
        BY <3>2
      <4> QED BY <1>4, <3>1, <4>1
    <3>4. g[r - 1] \in Nat /\ g[r - 1] < g[n] /\ g[n] \in Nat
          /\ g[r] = g[r - 1] + GetSerializedSize(commands[r])
          /\ GetSerializedSize(commands[r]) \in 1..6
      <4>1. r - 1 \in 0..n /\ r - 1 # n /\ n \in 0..n
        BY <1>1, <3>1
      <4>2. GetSerializedSize(commands[r]) \in 1..6
        BY <1>1, <3>1, Sizes DEF OnAirSequences
      <4> QED BY <1>2, <3>1, <4>1, <4>2
    <3>5. Append(SubSeq(commands, 1, r - 1), commands[r]) = SubSeq(commands, 1, r)
      <4>1. commands \in Seq(ToBase \cup FromBase)
        BY <1>1 DEF OnAirSequences
      <4> QED BY <3>1, <4>1
    <3>6. 9 + g[r - 1] + GetSerializedSize(commands[r]) = 9 + g[r]
      BY <3>4, SMTT(30)
    <3>7. ~(9 + g[r - 1] >= 9 + g[n])
      BY <3>4
    <3>8. w[r - 1].next = 9 + g[r - 1] /\ w[r - 1].commands = SubSeq(commands, 1, r - 1)
      <4> HIDE DEF w
      <4> QED BY <3>2
    <3> HIDE DEF w, n, Read
    <3>9. Round(w[r - 1]) = [next |-> 9 + g[r - 1] + GetSerializedSize(commands[r]),
                             commands |-> Append(SubSeq(commands, 1, r - 1), commands[r])]
      BY <3>3, <3>7, <3>8, Zenon
    <3>10. Round(w[r - 1]) = [next |-> 9 + g[r], commands |-> SubSeq(commands, 1, r)]
      BY <3>5, <3>6, <3>9, Zenon
    <3> QED BY <3>2, <3>10, Zenon
  <2> QED BY <1>1, <2>2, <2>3
<1>6. w[0] = Start
  <2>1. AtMost(0) = 0
    BY <1>1
  <2>2. SubSeq(commands, 1, 0) = <<>>
    <3>1. commands \in Seq(ToBase \cup FromBase)
      BY <1>1 DEF OnAirSequences
    <3> QED BY <3>1
  <2> QED BY <1>2, <2>1, <2>2
<1>7. w[15].commands = commands
  <2>1. AtMost(15) = n
    BY <1>1, <1>3
  <2>2. SubSeq(commands, 1, n) = commands
    <3>1. commands \in Seq(ToBase \cup FromBase)
      BY <1>1 DEF OnAirSequences
    <3> QED BY <3>1
  <2> QED BY <2>1, <2>2, SMTT(30)
<1>8. Is(w)
  <2>1. \A r \in 0..15 : w[r] = IF r = 0 THEN Start ELSE Round(w[r - 1])
    <3> TAKE r \in 0..15
    <3> HIDE DEF Round, Start
    <3>1. CASE r = 0
      BY <1>6, <3>1
    <3>2. CASE r # 0
      <4>1. r \in 1..15
        BY <3>2
      <4> HIDE DEF w
      <4> QED BY <1>5, <3>2, <4>1
    <3> QED BY <3>1, <3>2
  <2> QED BY <2>1
<1> HIDE DEF w
<1> DEFINE after == CHOOSE f : Is(f)
<1>9. Is(after)
  BY <1>8
<1>10. ReadCommands(p, 9, g[n], direction) = after[15].commands
  BY DEF ReadCommands
<1> HIDE DEF after
<1>11. after[15] = w[15]
  <2> DEFINE Good == {r \in 0..15 : after[r] = w[r]}
  <2>1. 0 \in Good
    <3> HIDE DEF Round, Start
    <3>1. after[0] = Start
      BY <1>9
    <3> QED BY <1>6, <3>1
  <2>2. ASSUME NEW r \in Nat, r < 15, r \in Good PROVE r + 1 \in Good
    <3>1. r + 1 \in 1..15 /\ r + 1 \in 0..15 /\ (r + 1) - 1 = r /\ r + 1 # 0
      BY <2>2
    <3>2. after[r + 1] = Round(after[r])
      <4> HIDE DEF Round
      <4> QED BY <1>9, <3>1
    <3>3. w[r + 1] = Round(w[r])
      <4> HIDE DEF Round
      <4> QED BY <1>5, <3>1
    <3> QED BY <2>2, <3>1, <3>2, <3>3
  <2> HIDE DEF Good
  <2>3. \A r \in 0..15 : r \in Good
    BY <2>1, <2>2, UpTo
  <2> QED BY <2>3 DEF Good
<1> QED BY <1>7, <1>10, <1>11

-----------------------------------------------------------------------------
(* Reading a header back *)

(* The commands of one direction are commands. *)
LEMMA OnAirSubset ==
  ASSUME NEW direction \in Directions, NEW commands \in Seq(OnAirCommands(direction))
  PROVE  commands \in OnAirSequences
<1> DEFINE C == OnAirCommands(direction)
<1>1. C \subseteq ToBase \cup FromBase
  BY DEF OnAirCommands
<1> HIDE DEF C
<1>2. commands \in Seq(C)
  BY DEF C
<1>3. commands \in Seq(ToBase \cup FromBase)
  BY <1>1, <1>2
<1> QED BY <1>3 DEF OnAirSequences

(* The fields of a header, and what its type tells. *)
LEMMA FieldsOf ==
  ASSUME NEW direction \in Directions, NEW h \in Fields(direction)
  PROVE  /\ h.type \in {3, 4, 5} /\ h.version = 0 /\ h.adaptive \in {0, 1}
         /\ h.adrAckReq \in BOOLEAN /\ h.ack \in BOOLEAN /\ h.pending \in BOOLEAN
         /\ h.port \in Byte /\ h.addr \in Seq(Byte) /\ Len(h.addr) = 4
         /\ h.counter \in 0..2^16 - 1 /\ h.commands \in Seq(OnAirCommands(direction))
         /\ h.channels = <<>> /\ h.type # BEACON /\ GetDirection(h) = direction
         /\ GetCommandsLength(h) = Length(h.commands) /\ Length(h.commands) \in Nat
<1> DEFINE C == OnAirCommands(direction)
           Numbers == 0..2^16 - 1
<1>1. h.type \in Types(direction) /\ h.version = 0 /\ h.adaptive \in {0, 1}
      /\ h.adrAckReq \in BOOLEAN /\ h.ack \in BOOLEAN /\ h.pending \in BOOLEAN
      /\ h.port \in Byte /\ h.addr \in Addresses
      /\ h.counter \in Numbers /\ h.commands \in Seq(C) /\ h.channels = <<>>
  <2> HIDE DEF C, Numbers
  <2>1. h \in [type : Types(direction), version : {0}, adaptive : {0, 1},
               adrAckReq : BOOLEAN, ack : BOOLEAN, pending : BOOLEAN, port : Byte,
               addr : Addresses, counter : Numbers, commands : Seq(C), channels : {<<>>}]
    BY DEF Fields, C, Numbers
  <2> QED BY <2>1
<1>2. h.type \in {3, 4, 5} /\ h.type # BEACON /\ GetDirection(h) = direction
  BY <1>1 DEF Types, Directions, GetDirection, CONFIRMED_DATA_UP, UNCONFIRMED_DATA_DOWN,
              CONFIRMED_DATA_DOWN, BEACON, JOIN_ACCEPT
<1>3. h.addr \in Seq(Byte) /\ Len(h.addr) = 4
  BY <1>1 DEF Addresses
<1>4. h.commands \in OnAirSequences
  BY <1>1, OnAirSubset
<1>5. Length(h.commands) \in Nat
  <2>1. PICK g : AddsUp(g, h.commands) /\ Length(h.commands) = g[Len(h.commands)]
    BY <1>4, LengthSteps
  <2>2. Len(h.commands) \in 0..Len(h.commands)
    BY <1>4 DEF OnAirSequences
  <2> QED BY <2>1, <2>2 DEF AddsUp
<1>6. GetCommandsLength(h) = Length(h.commands)
  BY DEF GetCommandsLength, Length
<1> QED BY <1>1, <1>2, <1>3, <1>5, <1>6

(* What a packet that starts with a header holds, and where. *)
ReadsAs(p, h, length, direction, rest) ==
  /\ length \in 0..15
  /\ p \in Seq(Byte) /\ Len(p) = 9 + length + Len(rest)
  /\ Bits(p[1], 5, 3) = h.type /\ Bits(p[1], 0, 2) = h.version
  /\ Bits(p[6], 7, 1) = h.adaptive /\ IsSet(p[6], 6) = h.adrAckReq
  /\ IsSet(p[6], 5) = h.ack /\ IsSet(p[6], 4) = h.pending
  /\ Bits(p[6], 0, 4) = length
  /\ ReadFrom(p, 2) = h.addr /\ ReadU16(p, 7) = h.counter /\ p[9 + length] = h.port
  /\ ReadCommands(p, 9, length, direction) = h.commands
  /\ SubSeq(p, 9 + length + 1, Len(p)) = rest

(* What SerializeHeader writes is read field by field. *)
LEMMA HeaderBytes ==
  ASSUME NEW direction \in Directions, NEW h \in Headers(direction), NEW rest \in Seq(Byte)
  PROVE  ReadsAs(SerializeHeader(h) \o rest, h, Length(h.commands), direction, rest)
<1> DEFINE p == SerializeHeader(h) \o rest
           length == Length(h.commands)
           a == GetMacHeader(h)
           f == GetFrameControl(h)
           body == Body(h.commands)
           n == Len(h.commands)
<1>1. h \in Fields(direction) /\ GetCommandsLength(h) < 16
  BY DEF Headers
<1>2. /\ h.type \in {3, 4, 5} /\ h.version = 0 /\ h.adaptive \in {0, 1}
      /\ h.adrAckReq \in BOOLEAN /\ h.ack \in BOOLEAN /\ h.pending \in BOOLEAN
      /\ h.port \in Byte /\ h.addr \in Seq(Byte) /\ Len(h.addr) = 4
      /\ h.commands \in Seq(OnAirCommands(direction)) /\ h.type # BEACON
      /\ GetCommandsLength(h) = length
  BY <1>1, FieldsOf
<1>0. length = Length(h.commands)
  OBVIOUS
<1> HIDE DEF length
<1>3. length \in 0..15
  <2>1. length \in Nat /\ length < 16
    BY <1>0, <1>1, FieldsOf
  <2> QED BY <2>1
<1>4. h.commands \in OnAirSequences
  BY <1>2, OnAirSubset
<1>5. PICK g : AddsUp(g, h.commands) /\ length = g[n]
  BY <1>0, <1>4, LengthSteps
<1>6. body \in Seq(Byte) /\ Len(body) = length /\ Placed(body, 0, h.commands, g)
  BY <1>4, <1>5, CommandBytes
<1>7. PICK y, z \in Byte : U16(h.counter) = <<y, z>> /\ y + 256 * z = h.counter
  <2>1. h.counter \in 0..2^16 - 1
    BY <1>1, FieldsOf
  <2> QED BY <2>1, U16Read
<1>8. a \in Byte /\ Bits(a, 5, 3) = h.type /\ Bits(a, 0, 2) = h.version
  <2>1. a = 32 * Bits(h.type, 0, 3) + Bits(0, 0, 2)
    BY <1>2 DEF GetMacHeader
  <2> HIDE DEF a
  <2> QED BY <1>2, <2>1, FirstByte
<1>9. /\ f \in Byte /\ Bits(f, 7, 1) = h.adaptive /\ IsSet(f, 6) = h.adrAckReq
      /\ IsSet(f, 5) = h.ack /\ IsSet(f, 4) = h.pending /\ Bits(f, 0, 4) = length
  <2>1. f = Control(h.adaptive, h.adrAckReq, h.ack, h.pending, length)
    BY <1>2 DEF GetFrameControl, Control
  <2> HIDE DEF f
  <2>2. Controls(f, h.adaptive, h.adrAckReq, h.ack, h.pending, length)
    BY <1>2, <1>3, <2>1, ControlByte, ZenonT(60)
  <2> QED BY <2>2 DEF Controls
<1>10. p = Laid(a, h.addr, f, y, z, body, h.port) \o rest
  <2>1. SerializeChannels(h) = <<>>
    BY <1>2 DEF SerializeChannels, IsBeacon
  <2>2. SerializeCommands(h) = body
    BY DEF SerializeCommands, Body
  <2> HIDE DEF a, f, body
  <2>3. SerializeHeader(h) = Laid(a, h.addr, f, y, z, body, h.port)
    BY <1>7, <2>1, <2>2, Zenon DEF SerializeHeader, a, f, Laid
  <2> QED BY <2>3, Zenon
<1> HIDE DEF a, f, body, p
<1>11. /\ p \in Seq(Byte) /\ Len(p) = 9 + length + Len(rest)
       /\ p[1] = a /\ p[6] = f /\ p[7] = y /\ p[8] = z /\ p[9 + length] = h.port
       /\ p[2] = h.addr[1] /\ p[3] = h.addr[2] /\ p[4] = h.addr[3] /\ p[5] = h.addr[4]
       /\ (\A j \in 1..length : p[8 + j] = body[j])
       /\ \A j \in 1..Len(rest) : p[9 + length + j] = rest[j]
  <2>1. /\ p \in Seq(Byte) /\ Len(p) = 9 + Len(body) + Len(rest)
        /\ p[1] = a /\ p[6] = f /\ p[7] = y /\ p[8] = z /\ p[9 + Len(body)] = h.port
        /\ p[2] = h.addr[1] /\ p[3] = h.addr[2] /\ p[4] = h.addr[3] /\ p[5] = h.addr[4]
        /\ (\A j \in 1..Len(body) : p[8 + j] = body[j])
        /\ \A j \in 1..Len(rest) : p[9 + Len(body) + j] = rest[j]
    <3>1. a \in Byte /\ f \in Byte /\ body \in Seq(Byte) /\ h.addr \in Seq(Byte)
          /\ Len(h.addr) = 4 /\ h.port \in Byte
      BY <1>2, <1>6, <1>8, <1>9, Zenon
    <3>2. y \in Byte /\ z \in Byte /\ rest \in Seq(Byte)
      OBVIOUS
    <3> DEFINE t == Laid(a, h.addr, f, y, z, body, h.port) \o rest
    <3>3. t \in Seq(Byte) /\ Lies(t, a, h.addr, f, y, z, body, h.port, rest)
      BY <3>1, <3>2, Layout
    <3> HIDE DEF t
    <3>4. p = t
      BY <1>10 DEF t
    <3> QED BY <3>3, <3>4, Zenon DEF Lies
  <2> QED BY <1>6, <2>1, Zenon
<1>12. ReadFrom(p, 2) = h.addr
  <2> DEFINE q == SubSeq(p, 2, 5)
  <2>1. Len(p) >= 9 /\ Len(p) \in Nat
    BY ONLY <1>3, <1>11, rest \in Seq(Byte)
  <2>2. q \in Seq(Byte) /\ Len(q) = 4 /\ q[1] = p[2] /\ q[2] = p[3] /\ q[3] = p[4] /\ q[4] = p[5]
    BY ONLY <1>11, <2>1
  <2>3. \A i \in 1..4 : q[i] = h.addr[i]
    BY ONLY <1>11, <2>2
  <2>4. q = h.addr
    <3> HIDE DEF q
    <3> QED BY <1>2, <2>2, <2>3, SeqEqual
  <2>5. ReadFrom(p, 2) = SubSeq(p, 2, 2 + 3) /\ 2 + 3 = 5
    BY DEF ReadFrom
  <2> QED BY <2>4, <2>5
<1>13. ReadU16(p, 7) = h.counter
  <2>1. ReadU16(p, 7) = p[7] + 256 * p[7 + 1] /\ 7 + 1 = 8
    BY ONLY TRUE DEF ReadU16
  <2> QED BY <1>7, <1>11, <2>1, Zenon
<1>14. ReadCommands(p, 9, length, direction) = h.commands
  <2>1. Placed(p, 8, h.commands, g)
    <3>1. ASSUME NEW k \in 1..n, NEW j \in 1..Len(Serialize(h.commands[k]))
          PROVE  p[8 + g[k - 1] + j] = Serialize(h.commands[k])[j]
      <4>1. h.commands[k] \in ToBase \cup FromBase /\ n \in Nat
        BY <1>4 DEF OnAirSequences
      <4>2. Len(Serialize(h.commands[k])) = GetSerializedSize(h.commands[k])
            /\ GetSerializedSize(h.commands[k]) \in 1..6
        BY <4>1, CommandsReadBack DEF ReadsBack, OnAirCommands, Directions
      <4>3. k - 1 \in 0..n /\ k \in 0..n /\ n \in 0..n /\ k # 0
        BY <4>1
      <4>4. g[k] = g[k - 1] + GetSerializedSize(h.commands[k]) /\ g[k - 1] \in Nat
        BY <1>5, <4>3 DEF AddsUp
      <4>5. g[k] <= length
        <5>1. CASE k = n
          BY <1>3, <1>5, <5>1
        <5>2. CASE k # n
          <6>1. g[k] < g[n]
            BY <1>4, <1>5, <4>3, <5>2, Growing
          <6>2. g[k] \in Nat
            BY <4>2, <4>4
          <6>3. g[k] < length
            BY <1>5, <6>1, Zenon
          <6> QED BY ONLY <1>3, <6>2, <6>3
        <5> QED BY <5>1, <5>2
      <4>6. PICK x \in Nat, s \in 1..6 :
              x = g[k - 1] /\ s = Len(Serialize(h.commands[k])) /\ x + s <= length
        BY <4>2, <4>4, <4>5, Zenon
      <4>7. g[k - 1] + j \in 1..length /\ 8 + (g[k - 1] + j) = 8 + g[k - 1] + j
            /\ 0 + g[k - 1] + j = g[k - 1] + j
        <5>1. j \in 1..s
          BY <4>6
        <5>2. x + j \in 1..length /\ 8 + (x + j) = 8 + x + j /\ 0 + x + j = x + j
          BY ONLY <1>3, <4>6, <5>1
        <5> QED BY <4>6, <5>2, Zenon
      <4>8. p[8 + (g[k - 1] + j)] = body[g[k - 1] + j]
        BY <1>11, <4>7, Zenon
      <4>9. body[0 + g[k - 1] + j] = Serialize(h.commands[k])[j]
        BY <1>6 DEF Placed
      <4> QED BY <4>7, <4>8, <4>9, Zenon
    <3> QED BY <3>1 DEF Placed
  <2>2. Len(p) >= 8 + length
    BY ONLY <1>3, <1>11, rest \in Seq(Byte)
  <2>3. g[n] < 16 /\ Len(p) >= 8 + g[n] /\ p \in Seq(Byte)
    <3>1. length < 16
      BY ONLY <1>3
    <3> QED BY <1>5, <1>11, <2>2, <3>1, Zenon
  <2>4. ReadCommands(p, 9, g[n], direction) = h.commands
    BY <1>2, <1>5, <2>1, <2>3, ReadCommandsBack, Zenon
  <2> QED BY <1>5, <2>4, Zenon
<1>15. SubSeq(p, 9 + length + 1, Len(p)) = rest
  <2> DEFINE m == 9 + length + 1
             q == SubSeq(p, m, Len(p))
  <2>1. PICK l \in Nat : l = Len(rest)
    OBVIOUS
  <2>2. Len(p) = 9 + length + l
    BY <1>11, <2>1, Zenon
  <2>3. m \in Nat /\ m >= 1 /\ Len(p) \in Nat /\ Len(p) - m + 1 = l /\ (m <= Len(p) <=> l # 0)
    BY ONLY <1>3, <2>2
  <2>4. \A i \in m..Len(p) : p[i] \in Byte
    BY ONLY <1>11, <2>3
  <2> HIDE DEF m
  <2>5. /\ q \in Seq(Byte) /\ Len(q) = IF m <= Len(p) THEN Len(p) - m + 1 ELSE 0
        /\ \A i \in 1..Len(p) - m + 1 : q[i] = p[m + i - 1]
    BY <2>3, <2>4, SubSeqProperties
  <2> HIDE DEF q
  <2>6. Len(q) = l
    BY ONLY <2>3, <2>5
  <2>7. \A i \in 1..l : m + i - 1 = 9 + length + i
    BY ONLY <1>3 DEF m
  <2>8. \A i \in 1..l : q[i] = rest[i]
    BY <1>11, <2>1, <2>3, <2>5, <2>7, Zenon
  <2>9. q = rest
    BY <2>1, <2>5, <2>6, <2>8, SeqEqual
  <2> QED BY <2>9 DEF q, m
<1>16. ReadsAs(p, h, length, direction, rest)
  BY <1>3, <1>8, <1>9, <1>11, <1>12, <1>13, <1>14, <1>15, Zenon DEF ReadsAs
<1> QED BY <1>16 DEF p, length

(* A header is what its fields are. *)
HeaderOf(type, version, adaptive, adrAckReq, ack, pending, port, addr, counter, commands) ==
  [type |-> type, version |-> version, adaptive |-> adaptive, adrAckReq |-> adrAckReq,
   ack |-> ack, pending |-> pending, port |-> port, addr |-> addr, counter |-> counter,
   commands |-> commands, channels |-> <<>>]

(* A header is its fields. *)
LEMMA HeaderIs ==
  ASSUME NEW direction \in Directions, NEW h \in Fields(direction)
  PROVE  /\ h = HeaderOf(h.type, h.version, h.adaptive, h.adrAckReq, h.ack, h.pending, h.port,
                         h.addr, h.counter, h.commands)
         /\ \A commands : [h EXCEPT !.commands = commands]
              = HeaderOf(h.type, h.version, h.adaptive, h.adrAckReq, h.ack, h.pending, h.port,
                         h.addr, h.counter, commands)
<1> DEFINE Numbers == 0..2^16 - 1
           Lists == Seq(OnAirCommands(direction))
<1>1. h \in [type : Types(direction), version : {0}, adaptive : {0, 1},
             adrAckReq : BOOLEAN, ack : BOOLEAN, pending : BOOLEAN, port : Byte,
             addr : Addresses, counter : Numbers, commands : Lists, channels : {<<>>}]
  BY DEF Fields
<1> HIDE DEF Numbers, Lists
<1>2. h = HeaderOf(h.type, h.version, h.adaptive, h.adrAckReq, h.ack, h.pending, h.port,
                   h.addr, h.counter, h.commands)
  BY <1>1 DEF HeaderOf
<1>3. ASSUME NEW commands
      PROVE  [h EXCEPT !.commands = commands]
               = HeaderOf(h.type, h.version, h.adaptive, h.adrAckReq, h.ack, h.pending, h.port,
                          h.addr, h.counter, commands)
  BY <1>1 DEF HeaderOf
<1> QED BY <1>2, <1>3

(* A header object that takes every field of h but its commands is h but    *)
(* for them.                                                                *)
LEMMA Rebuilt ==
  ASSUME NEW direction \in Directions, NEW h \in Fields(direction),
         NEW other \in Directions, NEW g \in Fields(other)
  PROVE  [g EXCEPT !.type = h.type, !.version = h.version, !.addr = h.addr,
            !.adaptive = h.adaptive, !.adrAckReq = h.adrAckReq, !.ack = h.ack,
            !.pending = h.pending, !.counter = h.counter, !.channels = <<>>, !.port = h.port]
           = [h EXCEPT !.commands = g.commands]
<1> DEFINE Numbers == 0..2^16 - 1
           Lists == Seq(OnAirCommands(other))
           r == [g EXCEPT !.type = h.type, !.version = h.version, !.addr = h.addr,
                   !.adaptive = h.adaptive, !.adrAckReq = h.adrAckReq, !.ack = h.ack,
                   !.pending = h.pending, !.counter = h.counter, !.channels = <<>>,
                   !.port = h.port]
           t == HeaderOf(h.type, h.version, h.adaptive, h.adrAckReq, h.ack, h.pending, h.port,
                         h.addr, h.counter, g.commands)
           D == {"type", "version", "adaptive", "adrAckReq", "ack", "pending", "port",
                 "addr", "counter", "commands", "channels"}
<1>1. g \in [type : Types(other), version : {0}, adaptive : {0, 1},
             adrAckReq : BOOLEAN, ack : BOOLEAN, pending : BOOLEAN, port : Byte,
             addr : Addresses, counter : Numbers, commands : Lists, channels : {<<>>}]
  BY DEF Fields
<1> HIDE DEF Numbers, Lists
<1>2. DOMAIN g = D
  BY <1>1
<1>3. /\ r.type = h.type /\ r.version = h.version /\ r.adaptive = h.adaptive
      /\ r.adrAckReq = h.adrAckReq /\ r.ack = h.ack /\ r.pending = h.pending
      /\ r.port = h.port /\ r.addr = h.addr /\ r.counter = h.counter
      /\ r.commands = g.commands /\ r.channels = <<>>
  BY <1>2
<1>4. DOMAIN r = D /\ r = [x \in DOMAIN r |-> r[x]]
  BY <1>2
<1>5. DOMAIN t = D /\ t = [x \in DOMAIN t |-> t[x]]
  BY DEF HeaderOf
<1>6. \A x \in D : r[x] = t[x]
  <2> HIDE DEF r
  <2> QED BY <1>3 DEF HeaderOf
<1>7. r = t
  <2> HIDE DEF r, t, D
  <2> QED BY <1>4, <1>5, <1>6
<1> QED BY <1>7, HeaderIs

(* What a header object becomes when it reads the bytes of h. *)
LEMMA Deserialized ==
  ASSUME NEW direction \in Directions, NEW h \in Headers(direction),
         NEW other \in Directions, NEW g \in Fields(other),
         NEW rest \in Seq(Byte), NEW p, p = SerializeHeader(h) \o rest
  PROVE  /\ DeserializeInto(g, p)
              = SetMacCommands([h EXCEPT !.commands = g.commands], h.commands)
         /\ BytesRead(p) = HeaderSize(h) /\ AfterHeader(p) = rest
<1> DEFINE length == Length(h.commands)
<1>1. h \in Fields(direction)
  BY DEF Headers
<1>2. /\ length \in 0..15
      /\ Bits(p[1], 5, 3) = h.type /\ Bits(p[1], 0, 2) = h.version
      /\ Bits(p[6], 7, 1) = h.adaptive /\ IsSet(p[6], 6) = h.adrAckReq
      /\ IsSet(p[6], 5) = h.ack /\ IsSet(p[6], 4) = h.pending
      /\ Bits(p[6], 0, 4) = length
      /\ ReadFrom(p, 2) = h.addr /\ ReadU16(p, 7) = h.counter /\ p[9 + length] = h.port
      /\ ReadCommands(p, 9, length, direction) = h.commands
      /\ SubSeq(p, 9 + length + 1, Len(p)) = rest
  <2>1. ReadsAs(p, h, length, direction, rest)
    BY HeaderBytes
  <2> HIDE DEF length
  <2> QED BY <2>1, Zenon DEF ReadsAs
<1>3. /\ h.type # BEACON /\ GetDirection(h) = direction /\ GetCommandsLength(h) = length
      /\ g.channels = <<>>
  BY <1>1, FieldsOf
<1> HIDE DEF length
<1>4. BytesRead(p) = 9 + length
  <2>1. BytesRead(p) = 9 + length + 0
    BY <1>2, <1>3, Zenon DEF BytesRead
  <2> QED BY ONLY <1>2, <2>1
<1>5. HeaderSize(h) = 9 + length
  BY <1>2, <1>3 DEF HeaderSize, IsBeacon
<1>6. AfterHeader(p) = rest
  BY <1>2, <1>4 DEF AfterHeader
<1> DEFINE fields == [h EXCEPT !.commands = g.commands]
<1>7. GetDirection(fields) = direction
  <2>1. fields.type = h.type
    <3> DEFINE Numbers == 0..2^16 - 1
               Lists == Seq(OnAirCommands(direction))
    <3>1. h \in [type : Types(direction), version : {0}, adaptive : {0, 1},
                 adrAckReq : BOOLEAN, ack : BOOLEAN, pending : BOOLEAN, port : Byte,
                 addr : Addresses, counter : Numbers, commands : Lists, channels : {<<>>}]
      BY <1>1 DEF Fields
    <3> HIDE DEF Numbers, Lists
    <3> QED BY <3>1
  <2> QED BY <1>3, <2>1 DEF GetDirection
<1>8. g.channels \o ReadChannels(p, h.type) = <<>>
  <2>1. ReadChannels(p, h.type) = <<>>
    BY <1>3 DEF ReadChannels
  <2> QED BY <1>3, <2>1
<1>9. [g EXCEPT !.type = h.type, !.version = h.version, !.addr = h.addr,
            !.adaptive = h.adaptive, !.adrAckReq = h.adrAckReq, !.ack = h.ack,
            !.pending = h.pending, !.counter = h.counter,
            !.channels = @ \o ReadChannels(p, h.type), !.port = h.port] = fields
  <2>1. [g EXCEPT !.type = h.type, !.version = h.version, !.addr = h.addr,
            !.adaptive = h.adaptive, !.adrAckReq = h.adrAckReq, !.ack = h.ack,
            !.pending = h.pending, !.counter = h.counter, !.channels = <<>>, !.port = h.port]
          = fields
    BY <1>1, Rebuilt
  <2> HIDE DEF fields
  <2> QED BY <1>8, <2>1
<1>10. DeserializeInto(g, p) = SetMacCommands(fields, ReadCommands(p, 9, length, direction))
  <2> HIDE DEF fields
  <2> QED BY <1>2, <1>3, <1>7, <1>9, ZenonT(60) DEF DeserializeInto
<1> QED BY <1>2, <1>4, <1>5, <1>6, <1>10

-----------------------------------------------------------------------------
(* Adding commands to a header *)

(* The headers SetMacCommands goes through. *)
Adds(t, commands, h) ==
  /\ t[0] = h
  /\ \A k \in 1..Len(commands) : t[k] = SetMacCommand(t[k - 1], commands[k])

(* SetMacCommands adds the commands one by one. *)
LEMMA SetMacCommandsSteps ==
  ASSUME NEW H, NEW C, NEW h \in H, NEW commands \in Seq(C),
         \A x \in H : \A c \in C : SetMacCommand(x, c) \in H
  PROVE  \E t \in [0..Len(commands) -> H] :
           Adds(t, commands, h) /\ SetMacCommands(h, commands) = t[Len(commands)]
<1> DEFINE n == Len(commands)
           F == [x \in H |-> [c \in C |-> SetMacCommand(x, c)]]
           Is(f) == f = [s \in SUBSET DOMAIN commands |->
                           IF s = {} THEN h
                           ELSE SetMacCommand(f[s \ {Max(s)}], commands[Max(s)])]
<1>0. commands \in Seq(C) /\ n \in Nat /\ DOMAIN commands = 1..n
  OBVIOUS
<1>1. F \in [H -> [C -> H]]
  OBVIOUS
<1>2. PICK iter \in [SUBSET DOMAIN commands -> H] : FoldsBy(iter, F, h, commands)
  <2> HIDE DEF F
  <2> QED BY <1>0, <1>1, FoldExists
<1>3. ASSUME NEW s \in SUBSET DOMAIN commands, s # {}
      PROVE  iter[s] = SetMacCommand(iter[s \ {Max(s)}], commands[Max(s)])
  <2>1. iter[s \ {Max(s)}] \in H /\ commands[Max(s)] \in C
    BY <1>0, <1>3, FoldValues
  <2>2. iter[s] = F[iter[s \ {Max(s)}]][commands[Max(s)]]
    BY <1>2, <1>3 DEF FoldsBy
  <2> QED BY <2>1, <2>2
<1>4. iter[{}] = h
  BY <1>2 DEF FoldsBy
<1>5. Is(iter)
  <2> HIDE DEF F
  <2> QED BY <1>3, <1>4
<1> DEFINE f == CHOOSE f : Is(f)
<1>6. Is(f)
  BY <1>5
<1>7. SetMacCommands(h, commands) = f[DOMAIN commands]
  BY DEF SetMacCommands, FoldLeft, MapThenFoldSet
<1> HIDE DEF f, F
<1>8. \A k \in 1..n :
        /\ 1..k \in SUBSET DOMAIN commands /\ 1..k - 1 \in SUBSET DOMAIN commands
        /\ 1..k # {} /\ Max(1..k) = k /\ f[(1..k) \ {Max(1..k)}] = f[1..k - 1]
  BY <1>0, FoldSteps, Zenon
<1>9. \A k \in 1..n : f[1..k] = SetMacCommand(f[1..k - 1], commands[k])
  BY <1>6, <1>8
<1>10. f[1..0] = h
  <2>1. 1..0 = {}
    OBVIOUS
  <2> QED BY <1>6, <2>1
<1> DEFINE t == [k \in 0..n |-> f[1..k]]
<1>11. \A k \in 0..n : f[1..k] \in H
  <2> DEFINE Good == {k \in 0..n : f[1..k] \in H}
  <2>1. 0 \in Good
    BY <1>0, <1>10
  <2>2. ASSUME NEW k \in Nat, k < n, k \in Good PROVE k + 1 \in Good
    <3>1. k + 1 \in 1..n /\ (k + 1) - 1 = k
      BY <1>0, <2>2
    <3>2. f[1..k + 1] = SetMacCommand(f[1..k], commands[k + 1])
      BY <1>9, <3>1
    <3>3. commands[k + 1] \in C
      BY <1>0, <3>1
    <3> QED BY <2>2, <3>1, <3>2, <3>3
  <2> HIDE DEF Good
  <2>3. \A k \in 0..n : k \in Good
    BY <1>0, <2>1, <2>2, UpTo
  <2> QED BY <2>3 DEF Good
<1>12. t \in [0..n -> H]
  BY <1>11
<1>13. Adds(t, commands, h)
  <2>1. t[0] = h
    BY <1>0, <1>10
  <2>2. \A k \in 1..n : k - 1 \in 0..n /\ k \in 0..n
    BY <1>0
  <2>3. \A k \in 1..n : t[k] = SetMacCommand(t[k - 1], commands[k])
    BY <1>9, <2>2
  <2> QED BY <2>1, <2>3 DEF Adds
<1>14. t[n] = f[DOMAIN commands]
  BY <1>0
<1> QED BY <1>7, <1>12, <1>13, <1>14

(* What the commands of a header are taken from is all it can end up with:  *)
(* any set of headers that each single command leaves is left by all.       *)
LEMMA SetMacCommandsKeep ==
  ASSUME NEW H, NEW C, NEW h \in H, NEW commands \in Seq(C),
         \A x \in H : \A c \in C : SetMacCommand(x, c) \in H
  PROVE  SetMacCommands(h, commands) \in H
<1>1. PICK t \in [0..Len(commands) -> H] :
        Adds(t, commands, h) /\ SetMacCommands(h, commands) = t[Len(commands)]
  BY SetMacCommandsSteps
<1>2. Len(commands) \in 0..Len(commands)
  OBVIOUS
<1> QED BY <1>1, <1>2

(* Headers with other fields are still headers. *)
LEMMA FieldsSet ==
  ASSUME NEW direction \in Directions, NEW h \in Fields(direction)
  PROVE  /\ \A v \in Types(direction) : LET r == SetType(h, v) IN
              /\ r \in Fields(direction) /\ r.type = v /\ r.addr = h.addr /\ r.port = h.port
              /\ r.commands = h.commands
         /\ \A v \in Byte : LET r == SetPort(h, v) IN
              /\ r \in Fields(direction) /\ r.type = h.type /\ r.addr = h.addr
              /\ r.commands = h.commands
         /\ \A v \in Addresses : LET r == SetAddr(h, v) IN
              /\ r \in Fields(direction) /\ r.type = h.type /\ r.addr = v
              /\ r.commands = h.commands
         /\ \A v \in Nat : LET r == SetFrmCounter(h, v) IN
              /\ r \in Fields(direction) /\ r.type = h.type /\ r.addr = h.addr
              /\ r.commands = h.commands
         /\ LET r == SetAdrAck(h) IN
              /\ r \in Fields(direction) /\ r.type = h.type /\ r.addr = h.addr
              /\ r.commands = h.commands
         /\ LET r == SetAck(h) IN
              /\ r \in Fields(direction) /\ r.type = h.type /\ r.addr = h.addr
              /\ r.commands = h.commands
         /\ \A v \in Seq(OnAirCommands(direction)) : LET r == [h EXCEPT !.commands = v] IN
              /\ r \in Fields(direction) /\ r.type = h.type /\ r.addr = h.addr
              /\ r.commands = v
<1> DEFINE Numbers == 0..2^16 - 1
           Lists == Seq(OnAirCommands(direction))
           Whole == [type : Types(direction), version : {0}, adaptive : {0, 1},
                     adrAckReq : BOOLEAN, ack : BOOLEAN, pending : BOOLEAN, port : Byte,
                     addr : Addresses, counter : Numbers, commands : Lists, channels : {<<>>}]
<1>1. h \in Whole /\ Fields(direction) = Whole
  BY DEF Fields
<1>2. \A v \in Nat : v % 2^16 \in Numbers
  BY SMT
<1> HIDE DEF Numbers, Lists
<1>3. \A v \in Types(direction) : LET r == SetType(h, v) IN
        /\ r \in Whole /\ r.type = v /\ r.addr = h.addr /\ r.port = h.port
        /\ r.commands = h.commands
  BY <1>1 DEF SetType
<1>4. \A v \in Byte : LET r == SetPort(h, v) IN
        /\ r \in Whole /\ r.type = h.type /\ r.addr = h.addr /\ r.commands = h.commands
  BY <1>1 DEF SetPort
<1>5. \A v \in Addresses : LET r == SetAddr(h, v) IN
        /\ r \in Whole /\ r.type = h.type /\ r.addr = v /\ r.commands = h.commands
  BY <1>1 DEF SetAddr
<1>6. ASSUME NEW v \in Nat
      PROVE  LET r == SetFrmCounter(h, v) IN
             /\ r \in Whole /\ r.type = h.type /\ r.addr = h.addr /\ r.commands = h.commands
  <2>1. PICK m \in Numbers : m = v % 2^16
    BY <1>2
  <2>2. SetFrmCounter(h, v) = [h EXCEPT !.counter = m]
    BY <2>1 DEF SetFrmCounter
  <2> QED BY <1>1, <2>2
<1>7. LET r == SetAdrAck(h) IN
        /\ r \in Whole /\ r.type = h.type /\ r.addr = h.addr /\ r.commands = h.commands
  BY <1>1 DEF SetAdrAck
<1>8. LET r == SetAck(h) IN
        /\ r \in Whole /\ r.type = h.type /\ r.addr = h.addr /\ r.commands = h.commands
  BY <1>1 DEF SetAck
<1>9. \A v \in Lists : LET r == [h EXCEPT !.commands = v] IN
        /\ r \in Whole /\ r.type = h.type /\ r.addr = h.addr /\ r.commands = v
  BY <1>1
<1> HIDE DEF Whole
<1> QED BY <1>1, <1>3, <1>4, <1>5, <1>6, <1>7, <1>8, <1>9, Zenon DEF Lists

(* So is one with other commands. *)
LEMMA CommandsSet ==
  ASSUME NEW direction \in Directions, NEW h \in Fields(direction),
         NEW v \in Seq(OnAirCommands(direction))
  PROVE  LET r == [h EXCEPT !.commands = v] IN
         /\ r \in Fields(direction) /\ r.type = h.type /\ r.addr = h.addr
         /\ r.commands = v
BY FieldsSet, SMTT(40)

(* A new header has its fields in their width and no commands. *)
LEMMA NewHeaderFields ==
  ASSUME NEW direction \in Directions, NEW type \in Types(direction),
         NEW counter \in 0..2^16 - 1, NEW adr \in {0, 1}
  PROVE  /\ NewHeader(type, counter, adr) \in Fields(direction)
         /\ NewHeader(type, counter, adr).commands = <<>>
         /\ NewHeader(type, counter, adr).type = type
<1> DEFINE Numbers == 0..2^16 - 1
           Lists == Seq(OnAirCommands(direction))
<1>1. /\ <<>> \in Lists /\ counter \in Numbers /\ 0 \in Byte
      /\ NoAddress \in Seq(Byte) /\ Len(NoAddress) = 4
  BY DEF NoAddress, Byte
<1>2. NoAddress \in Addresses
  BY <1>1 DEF Addresses
<1> HIDE DEF Numbers, Lists
<1>3. NewHeader(type, counter, adr)
        \in [type : Types(direction), version : {0}, adaptive : {0, 1},
             adrAckReq : BOOLEAN, ack : BOOLEAN, pending : BOOLEAN, port : Byte,
             addr : Addresses, counter : Numbers, commands : Lists, channels : {<<>>}]
  BY <1>1, <1>2 DEF NewHeader
<1>4. NewHeader(type, counter, adr).commands = <<>> /\ NewHeader(type, counter, adr).type = type
  BY DEF NewHeader
<1> QED BY <1>3, <1>4 DEF Fields, Numbers, Lists

(* Adding a command, or leaving it. *)
LEMMA SetMacCommandKeeps ==
  ASSUME NEW direction \in Directions, NEW h \in Fields(direction),
         NEW c \in OnAirCommands(direction)
  PROVE  LET r == SetMacCommand(h, c) IN
         /\ r \in Fields(direction) /\ r.type = h.type /\ r.addr = h.addr
         /\ \/ r = h /\ Length(h.commands) + GetSerializedSize(c) >= 16
            \/ /\ r = [h EXCEPT !.commands = Append(h.commands, c)]
               /\ r.commands = Append(h.commands, c)
               /\ Length(r.commands) = Length(h.commands) + GetSerializedSize(c)
               /\ Length(r.commands) < 16
<1> DEFINE C == OnAirCommands(direction)
           size == GetSerializedSize(c)
           more == Append(h.commands, c)
<1>1. h.commands \in Seq(C) /\ GetCommandsLength(h) = Length(h.commands)
      /\ Length(h.commands) \in Nat
  BY FieldsOf
<1>2. h.commands \in OnAirSequences /\ c \in ToBase \cup FromBase
  BY <1>1, OnAirSubset DEF OnAirCommands
<1>3. Length(more) = Length(h.commands) + size
  BY <1>2, LengthAppend
<1>4. more \in Seq(C)
  BY <1>1
<1>5. size \in 1..6
  BY <1>2, Sizes
<1> HIDE DEF size, more
<1>6. CASE GetCommandsLength(h) + size < 16
  <2>1. SetMacCommand(h, c) = [h EXCEPT !.commands = more]
    BY <1>6 DEF SetMacCommand, more, size
  <2> DEFINE r == [h EXCEPT !.commands = more]
  <2>2. /\ r \in Fields(direction) /\ r.type = h.type /\ r.addr = h.addr /\ r.commands = more
    BY <1>4, CommandsSet
  <2> HIDE DEF r
  <2>3. r = [h EXCEPT !.commands = more] /\ SetMacCommand(h, c) = r
    BY <2>1 DEF r
  <2>4. Length(more) < 16
    BY <1>1, <1>3, <1>6
  <2> QED BY <1>3, <2>2, <2>3, <2>4, Zenon DEF more, size
<1>7. CASE ~(GetCommandsLength(h) + size < 16)
  <2>1. SetMacCommand(h, c) = h
    BY <1>7 DEF SetMacCommand, size
  <2>2. Length(h.commands) + size >= 16
    BY <1>1, <1>5, <1>7
  <2> QED BY <2>1, <2>2, Zenon DEF size
<1> QED BY <1>6, <1>7

(* Headers from, or to, an address with commands of C. *)
Bearing(direction, addr, C) ==
  {h \in Headers(direction) : h.addr = addr /\ \A i \in DOMAIN h.commands : h.commands[i] \in C}

(* Adding commands of C to a header keeps it writable, and leaves its type: *)
(* what would not fit in fifteen bytes is left out.                         *)
LEMMA CommandsAdded ==
  ASSUME NEW direction \in Directions, NEW addr, NEW C, C \subseteq OnAirCommands(direction),
         NEW h \in Bearing(direction, addr, C), NEW commands \in Seq(C)
  PROVE  /\ SetMacCommands(h, commands) \in Bearing(direction, addr, C)
         /\ SetMacCommands(h, commands).type = h.type
<1> DEFINE H == {x \in Bearing(direction, addr, C) : x.type = h.type}
<1>1. ASSUME NEW x \in H, NEW c \in C PROVE SetMacCommand(x, c) \in H
  <2> DEFINE r == SetMacCommand(x, c)
  <2>1. x \in Fields(direction) /\ x.addr = addr /\ x.type = h.type
        /\ (\A i \in DOMAIN x.commands : x.commands[i] \in C)
        /\ GetCommandsLength(x) < 16 /\ c \in OnAirCommands(direction)
    BY DEF Bearing, Headers
  <2>2. /\ r \in Fields(direction) /\ r.type = x.type /\ r.addr = x.addr
        /\ \/ r = x
           \/ /\ r.commands = Append(x.commands, c)
              /\ Length(r.commands) < 16
    BY <2>1, SetMacCommandKeeps
  <2> HIDE DEF r
  <2>3. CASE r = x
    BY <2>3 DEF r
  <2>4. CASE r.commands = Append(x.commands, c) /\ Length(r.commands) < 16
    <3>1. GetCommandsLength(r) < 16
      BY <2>4 DEF GetCommandsLength, Length
    <3>2. x.commands \in Seq(OnAirCommands(direction))
      BY <2>1, FieldsOf
    <3>3. \A i \in DOMAIN r.commands : r.commands[i] \in C
      <4> DEFINE s == x.commands
      <4>1. s \in Seq(OnAirCommands(direction)) /\ \A i \in DOMAIN s : s[i] \in C
        BY <2>1, <3>2
      <4> HIDE DEF s
      <4>2. \A i \in DOMAIN Append(s, c) : Append(s, c)[i] \in C
        BY <4>1
      <4> QED BY <2>4, <4>2 DEF s
    <3>4. r \in Bearing(direction, addr, C)
      BY <2>1, <2>2, <3>1, <3>3 DEF Bearing, Headers
    <3> QED BY <2>1, <2>2, <3>4 DEF r
  <2> QED BY <2>2, <2>3, <2>4
<1>2. h \in H
  OBVIOUS
<1> HIDE DEF H
<1>3. SetMacCommands(h, commands) \in H
  BY <1>1, <1>2, SetMacCommandsKeep
<1> QED BY <1>3 DEF H

(* An element added to the second part is added to the whole. *)
LEMMA AppendConcat ==
  ASSUME NEW X, NEW s \in Seq(X), NEW t \in Seq(X), NEW c \in X
  PROVE  Append(s \o t, c) = s \o Append(t, c) /\ s \o t \in Seq(X)
<1> DEFINE u == Append(s \o t, c)
           w == Append(t, c)
           v == s \o w
           p == Len(s)
           q == Len(t)
<1>1. p \in Nat /\ q \in Nat /\ s \o t \in Seq(X) /\ Joins(s \o t, s, t)
  BY ConcatParts
<1>2. /\ u \in Seq(X) /\ Len(u) = p + q + 1 /\ u[p + q + 1] = c
      /\ \A i \in 1..p + q : u[i] = (s \o t)[i]
  <2> DEFINE x == s \o t
  <2>1. x \in Seq(X) /\ Len(x) = p + q
    BY <1>1 DEF Joins
  <2> HIDE DEF x, p, q
  <2> QED BY <1>1, <2>1 DEF x
<1>3. w \in Seq(X) /\ Len(w) = q + 1 /\ w[q + 1] = c /\ \A i \in 1..q : w[i] = t[i]
  OBVIOUS
<1>4. v \in Seq(X) /\ Joins(v, s, w)
  <2> HIDE DEF w
  <2> QED BY <1>3, ConcatParts
<1> HIDE DEF u, w, v, p, q
<1>5. Len(v) = p + q + 1
  BY <1>1, <1>3, <1>4 DEF Joins, p
<1>6. ASSUME NEW i \in 1..p + q + 1 PROVE u[i] = v[i]
  <2>1. CASE i \in 1..p
    <3>1. i \in 1..p + q
      BY <1>1, <2>1
    <3>2. u[i] = s[i] /\ v[i] = s[i]
      BY <1>1, <1>2, <1>4, <2>1, <3>1 DEF Joins, p
    <3> QED BY <3>2
  <2>2. CASE i \in p + 1..p + q
    <3> DEFINE j == i - p
    <3>1. j \in 1..q /\ i = p + j /\ j \in 1..q + 1 /\ i \in 1..p + q
      BY <1>1, <2>2
    <3> HIDE DEF j
    <3>2. u[i] = (s \o t)[p + j] /\ (s \o t)[p + j] = t[j]
      BY <1>1, <1>2, <3>1 DEF Joins, p, q
    <3>3. v[i] = w[j] /\ w[j] = t[j]
      BY <1>3, <1>4, <3>1 DEF Joins, p
    <3> QED BY <3>2, <3>3
  <2>3. CASE i = p + q + 1
    <3>1. q + 1 \in 1..q + 1 /\ p + (q + 1) = i
      BY <1>1, <2>3
    <3>2. v[p + (q + 1)] = w[q + 1]
      BY <1>3, <1>4, <3>1 DEF Joins, p
    <3> QED BY <1>2, <1>3, <2>3, <3>1, <3>2
  <2> QED BY <1>1, <2>1, <2>2, <2>3
<1>7. u = v
  BY <1>2, <1>4, <1>5, <1>6, SeqEqual
<1> QED BY <1>1, <1>7 DEF u, v, w

(* Commands that fit are all added. *)
LEMMA CommandsFit ==
  ASSUME NEW direction \in Directions, NEW h \in Fields(direction),
         NEW commands \in Seq(OnAirCommands(direction)),
         Length(h.commands) + Length(commands) < 16
  PROVE  SetMacCommands(h, commands) = [h EXCEPT !.commands = h.commands \o commands]
<1> DEFINE C == OnAirCommands(direction)
           H == Fields(direction)
           n == Len(commands)
           start == h.commands
           With(s) == [h EXCEPT !.commands = s]
<1>1. \A x \in H : \A c \in C : SetMacCommand(x, c) \in H
  BY SetMacCommandKeeps
<1>2. PICK t \in [0..n -> H] : Adds(t, commands, h) /\ SetMacCommands(h, commands) = t[n]
  <2> HIDE DEF C, H
  <2> QED BY <1>1, SetMacCommandsSteps DEF C, H
<1>3. commands \in OnAirSequences
  BY OnAirSubset
<1>4. PICK g : AddsUp(g, commands) /\ Length(commands) = g[n]
  BY <1>3, LengthSteps
<1>5. start \in Seq(C) /\ Length(start) \in Nat
  BY FieldsOf
<1>6. n \in Nat /\ commands \in Seq(C) /\ \A k \in 1..n : commands[k] \in C
  <2> HIDE DEF C
  <2> QED BY DEF C
<1>7. /\ g[0] = 0 /\ (\A k \in 0..n : g[k] \in Nat)
      /\ (\A k \in 1..n : g[k] = g[k - 1] + GetSerializedSize(commands[k]))
      /\ (\A k \in 0..n : g[k] <= g[n])
  <2>1. \A k \in 0..n : g[k] \in Nat
    BY <1>4 DEF AddsUp
  <2>2. \A k \in 0..n : k # n => g[k] < g[n]
    BY <1>3, <1>4, Growing
  <2>3. n \in 0..n
    BY <1>6
  <2>4. \A k \in 0..n : g[k] <= g[n]
    <3> HIDE DEF n
    <3> QED BY <2>1, <2>2, <2>3
  <2> QED BY <1>4, <2>1, <2>4 DEF AddsUp
<1> HIDE DEF C, H, n, start
<1>8. \A s \in Seq(C) : With(s) \in H /\ With(s).commands = s
  BY CommandsSet DEF C, H
<1>9. \A s \in Seq(C), u \in Seq(C) : [With(s) EXCEPT !.commands = u] = With(u)
  OBVIOUS
<1> DEFINE Good == {k \in 0..n : t[k] = With(start \o SubSeq(commands, 1, k))
                                   /\ Length(t[k].commands) = Length(start) + g[k]}
<1>10. 0 \in Good
  <2>1. start \o SubSeq(commands, 1, 0) = start
    BY <1>5, <1>6
  <2>2. t[0] = h /\ h = With(start)
    <3>1. t[0] = h
      BY <1>2 DEF Adds
    <3>2. h = [h EXCEPT !.commands = h.commands]
      <4>1. /\ h = HeaderOf(h.type, h.version, h.adaptive, h.adrAckReq, h.ack, h.pending,
                            h.port, h.addr, h.counter, h.commands)
            /\ [h EXCEPT !.commands = h.commands]
                 = HeaderOf(h.type, h.version, h.adaptive, h.adrAckReq, h.ack, h.pending,
                            h.port, h.addr, h.counter, h.commands)
        BY HeaderIs
      <4> QED BY <4>1, Zenon
    <3> QED BY <3>1, <3>2 DEF start
  <2> HIDE DEF With
  <2>3. Length(t[0].commands) = Length(start) + g[0]
    <3>1. t[0].commands = start
      BY <2>2 DEF start
    <3> QED BY <1>5, <1>7, <3>1
  <2> QED BY <1>6, <2>1, <2>2, <2>3
<1>11. ASSUME NEW k \in Nat, k < n, k \in Good PROVE k + 1 \in Good
  <2> DEFINE s == start \o SubSeq(commands, 1, k)
             u == start \o SubSeq(commands, 1, k + 1)
             c == commands[k + 1]
  <2>1. k + 1 \in 1..n /\ (k + 1) - 1 = k /\ k \in 0..n /\ k + 1 \in 0..n
    BY <1>6, <1>11
  <2>2. c \in C /\ s \in Seq(C) /\ u \in Seq(C) /\ Append(s, c) = u
    <3> DEFINE v == SubSeq(commands, 1, k)
               w == SubSeq(commands, 1, k + 1)
    <3>1. c \in C /\ v \in Seq(C) /\ w \in Seq(C) /\ w = Append(v, c)
      BY <1>6, <2>1
    <3> HIDE DEF v, w, c
    <3>2. Append(start \o v, c) = start \o Append(v, c) /\ start \o v \in Seq(C)
      BY <1>5, <3>1, AppendConcat
    <3>3. start \o w \in Seq(C)
      BY <1>5, <3>1, ConcatParts
    <3> QED BY <3>1, <3>2, <3>3, Zenon DEF v, w
  <2>3. t[k + 1] = SetMacCommand(t[k], c)
    BY <1>2, <2>1 DEF Adds, n
  <2>4. t[k] = With(s) /\ Length(t[k].commands) = Length(start) + g[k] /\ t[k] \in H
    BY <1>2, <1>11, <2>1
  <2>5. g[k + 1] = g[k] + GetSerializedSize(c) /\ g[k] \in Nat /\ g[k + 1] \in Nat
        /\ g[k + 1] <= g[n] /\ Length(start) + g[n] < 16 /\ g[n] \in Nat
        /\ GetSerializedSize(c) \in 1..6
    <3>1. GetSerializedSize(c) \in 1..6
      BY <2>2, Sizes DEF C, OnAirCommands
    <3>2. Length(start) + g[n] < 16
      BY <1>4 DEF start
    <3>3. n \in 0..n
      BY <1>6
    <3> QED BY <1>7, <2>1, <3>1, <3>2, <3>3
  <2>6. ~(Length(t[k].commands) + GetSerializedSize(c) >= 16)
    <3>1. Length(t[k].commands) = Length(start) + g[k]
      BY <2>4
    <3>2. PICK x \in Nat : x = Length(start)
      BY <1>5
    <3>3. PICK y \in Nat, z \in Nat, m \in 1..6 :
            y = g[k] /\ z = g[k + 1] /\ m = GetSerializedSize(c)
      BY <2>5
    <3>4. PICK l \in Nat : l = g[n]
      BY <2>5
    <3>5. z = y + m /\ z <= l /\ x + l < 16 /\ Length(t[k].commands) = x + y
      BY <2>5, <3>1, <3>2, <3>3, <3>4, Zenon
    <3>6. ~((x + y) + m >= 16)
      BY ONLY <3>5
    <3> QED BY <3>3, <3>5, <3>6, Zenon
  <2>7. /\ t[k + 1] = [t[k] EXCEPT !.commands = Append(t[k].commands, c)]
        /\ Length(t[k + 1].commands) = Length(t[k].commands) + GetSerializedSize(c)
    <3>1. LET r == SetMacCommand(t[k], c) IN
            \/ r = t[k] /\ Length(t[k].commands) + GetSerializedSize(c) >= 16
            \/ /\ r = [t[k] EXCEPT !.commands = Append(t[k].commands, c)]
               /\ r.commands = Append(t[k].commands, c)
               /\ Length(r.commands) = Length(t[k].commands) + GetSerializedSize(c)
               /\ Length(r.commands) < 16
      BY <2>2, <2>4, SetMacCommandKeeps DEF C, H
    <3> QED BY <2>3, <2>6, <3>1
  <2>8. t[k].commands = s
    BY <1>8, <2>2, <2>4
  <2>9. t[k + 1] = With(u)
    <3> HIDE DEF s, u, c
    <3>1. t[k + 1] = [With(s) EXCEPT !.commands = u]
      BY <2>2, <2>4, <2>7, <2>8
    <3> QED BY <1>9, <2>2, <3>1
  <2>10. Length(t[k + 1].commands) = Length(start) + g[k + 1]
    BY <1>5, <2>4, <2>5, <2>7, SMTT(30)
  <2> QED BY <2>1, <2>9, <2>10
<1> HIDE DEF Good
<1>12. \A k \in 0..n : k \in Good
  BY <1>6, <1>10, <1>11, UpTo
<1>13. t[n] = With(start \o SubSeq(commands, 1, n))
  <2>1. n \in Good
    BY <1>6, <1>12
  <2> QED BY <2>1 DEF Good
<1>14. SubSeq(commands, 1, n) = commands
  BY <1>6 DEF n
<1> QED BY <1>2, <1>13, <1>14 DEF start

(* PeekHeader gives the header that was written, whatever follows it in the *)
(* packet: every field of LoRaMacHeader and every command, in their order.  *)
THEOREM HeadersReadBack ==
  ASSUME NEW direction \in Directions, NEW h \in Headers(direction), NEW rest \in Seq(Byte)
  PROVE  PeekHeader(SerializeHeader(h) \o rest) = h
<1> DEFINE p == SerializeHeader(h) \o rest
           g == DefaultHeader(0)
           h0 == [h EXCEPT !.commands = <<>>]
<1>1. "TOBASE" \in Directions /\ g \in Fields("TOBASE") /\ g.commands = <<>>
  <2>1. CONFIRMED_DATA_UP \in Types("TOBASE")
    BY DEF Types
  <2>2. 0 \in 0..2^16 - 1
    BY SMT
  <2> QED BY <2>1, <2>2, NewHeaderFields DEF Directions, DefaultHeader
<1>2. h \in Fields(direction) /\ GetCommandsLength(h) < 16
  BY DEF Headers
<1>3. h.commands \in Seq(OnAirCommands(direction)) /\ Length(h.commands) < 16
      /\ Length(h.commands) \in Nat
  BY <1>2, FieldsOf
<1>4. h0 \in Fields(direction) /\ h0.commands = <<>>
  <2>1. <<>> \in Seq(OnAirCommands(direction))
    OBVIOUS
  <2>2. \A v \in Seq(OnAirCommands(direction)) :
          [h EXCEPT !.commands = v] \in Fields(direction) /\ [h EXCEPT !.commands = v].commands = v
    BY <1>2, CommandsSet
  <2> QED BY <2>1, <2>2
<1>5. DeserializeInto(g, p) = SetMacCommands(h0, h.commands)
  <2> HIDE DEF g
  <2>1. DeserializeInto(g, p) = SetMacCommands([h EXCEPT !.commands = g.commands], h.commands)
    BY <1>1, Deserialized
  <2> QED BY <1>1, <2>1
<1>6. [h0 EXCEPT !.commands = <<>> \o h.commands] = h
  <2>1. <<>> \o h.commands = h.commands
    BY <1>3
  <2>2. [h0 EXCEPT !.commands = h.commands] = [h EXCEPT !.commands = h.commands]
    OBVIOUS
  <2>3. [h EXCEPT !.commands = h.commands] = h
    <3>1. /\ h = HeaderOf(h.type, h.version, h.adaptive, h.adrAckReq, h.ack, h.pending,
                          h.port, h.addr, h.counter, h.commands)
          /\ [h EXCEPT !.commands = h.commands]
               = HeaderOf(h.type, h.version, h.adaptive, h.adrAckReq, h.ack, h.pending,
                          h.port, h.addr, h.counter, h.commands)
      BY <1>2, HeaderIs
    <3> QED BY <3>1, Zenon
  <2> QED BY <2>1, <2>2, <2>3
<1> HIDE DEF h0
<1>7. SetMacCommands(h0, h.commands) = [h0 EXCEPT !.commands = <<>> \o h.commands]
  <2>1. Length(h0.commands) + Length(h.commands) < 16
    BY <1>3, <1>4, LengthOfNone
  <2> QED BY <1>3, <1>4, <2>1, CommandsFit
<1> QED BY <1>5, <1>6, <1>7 DEF PeekHeader

-----------------------------------------------------------------------------
(* The invariant *)

(* The commands of the network that leave the device's settings coherent: a *)
(* new channel has a frequency.                                             *)
Sound == {c \in FromBase : c.kind = "NewChannelReq" => c.freq # 0}

(* What an answer's confirmations are about, power and data rate exchanged, *)
(* and the answers whose confirmations are about none but these settings.   *)
AboutAll(c) == {About(s) : s \in Confirms(c)}
Confirming(settings) == {c \in ToBase : AboutAll(c) \subseteq settings}
AllSettings == {"power", "datarate", "channelmask", "frequency", "channelRate"}

(* Settings with which the device can go on. *)
DeviceFields ==
  {"frequencies", "available", "datarate", "maxDatarate", "minDatarate", "freeing",
   "freeChannel", "powerIndex", "waitingFactor", "delay", "nbRep", "rx2Datarate", "rx2Freq",
   "rx1Offset", "answers", "snr", "energy"}

(* The fields, their types, and the two facts that make them usable: no     *)
(* channel is faster than its maximum, and none is used or about to be that *)
(* has no frequency.                                                        *)
Coherent(d) ==
  /\ DOMAIN d = DeviceFields
  /\ d.frequencies \in [Slots -> Nat] /\ d.available \in [Slots -> BOOLEAN]
  /\ d.datarate \in [Slots -> Nat] /\ d.maxDatarate \in [Slots -> Nat]
  /\ d.minDatarate \in [Slots -> Nat] /\ d.freeing \in [Slots -> Int]
  /\ d.freeChannel \in Slots \cup {NoSlot} /\ d.powerIndex \in PowerIndices
  /\ d.answers \in Seq(ToBase) /\ d.snr \in Int /\ d.energy \in 0..100 \cup {NoSource}
  /\ \A i \in Slots :
       /\ d.datarate[i] <= d.maxDatarate[i]
       /\ d.available[i] \/ d.freeing[i] > 0 => d.frequencies[i] # 0

(* p is the bytes of a header of H and the rest. *)
IsPacket(p, H, rest) ==
  PeekHeader(p) \in H /\ p = SerializeHeader(PeekHeader(p)) \o rest

(* The packets of the device and of the network, and the rest of their      *)
(* bytes.                                                                   *)
Uplinks(settings) == Bearing("TOBASE", DevAddr, Confirming(settings))
Downlinks == Bearing("FROMBASE", DevAddr, Sound)
Trailer == NetworkTrailerBytes(Settings)
Reception == GwTrailerBytes(GwTrailer(Strength, 0, 12, 125000, 8681000))

(* The device is coherent, and its answers confirm only what it has         *)
(* applied.                                                                 *)
DeviceInv ==
  /\ Coherent(dev)
  /\ seqNum \in Nat
  /\ phase \in {"device", "uplink", "network", "downlink"}
  /\ \A i \in DOMAIN dev.answers : dev.answers[i] \in Confirming(applied)

(* What the device sends, what the network reports of it and what the       *)
(* applications read is a header the device wrote, whose answers confirm    *)
(* only what was applied when it was written.                               *)
UplinkInv ==
  /\ currentPkt # NoPacket => IsPacket(currentPkt, Uplinks(carried), Payload)
  /\ phase \in {"uplink", "network"} => currentPkt # NoPacket
  /\ report # NoPacket => IsPacket(report, Uplinks(AllSettings), Payload \o Reception)
  /\ answering # {} =>
       /\ phase = "network"
       /\ report # NoPacket
       /\ PeekHeader(report) \in Uplinks(carried)
  /\ answering \subseteq Applications

(* What the network stores and sends is a header it wrote. *)
DownlinkInv ==
  /\ slot # NoPacket => IsPacket(slot, Downlinks, Trailer)
  /\ downlink # NoPacket => IsPacket(downlink, Downlinks, Trailer)
  /\ phase = "network" => slot # NoPacket
  /\ phase = "downlink" => downlink # NoPacket

(* At most one application answers the frames. *)
OneApplication == \A a, b \in Applications : a = b

(* With one application, what is stored is what it has asked for. *)
RequestedInv ==
  OneApplication =>
    /\ phase = "network" =>
         /\ requested = PeekHeader(slot).commands
         /\ answering # {} => requested = <<>>
    /\ phase = "downlink" => requested = PeekHeader(downlink).commands

(* The inductive invariant.  The type of a packet is that it is what a      *)
(* header serializes to: without it, nothing could be said of what is read  *)
(* from one.                                                                *)
IInv == DeviceInv /\ UplinkInv /\ DownlinkInv /\ RequestedInv /\ ConfirmedAsExecuted

-----------------------------------------------------------------------------
(* The device's settings *)

(* r is like d in what the results of commands depend on. *)
Alike(r, d) == r.frequencies = d.frequencies /\ r.maxDatarate = d.maxDatarate

USE DEF Alike

(* r is like d, has its answers, and stays coherent. *)
Keeps(r, d) == Coherent(r) /\ Alike(r, d) /\ r.answers = d.answers

(* The rate of the channels changes within their maximum. *)
LEMMA RateKeeps ==
  ASSUME NEW d, Coherent(d), NEW dr \in Nat
  PROVE  Keeps(SetMaxDataRate(d, dr).dev, d)
<1> DEFINE rates == [i \in Slots |-> IF i \in {j \in Slots : dr <= d.maxDatarate[j]}
                                     THEN dr ELSE d.datarate[i]]
           r == [d EXCEPT !.datarate = rates]
<1>1. SetMaxDataRate(d, dr).dev = r
  BY DEF SetMaxDataRate, Result
<1>2. rates \in [Slots -> Nat] /\ \A i \in Slots : rates[i] <= d.maxDatarate[i]
  BY DEF Coherent
<1> HIDE DEF rates
<1>3. /\ DOMAIN r = DeviceFields
      /\ r.frequencies = d.frequencies /\ r.available = d.available /\ r.datarate = rates
      /\ r.maxDatarate = d.maxDatarate /\ r.minDatarate = d.minDatarate
      /\ r.freeing = d.freeing /\ r.freeChannel = d.freeChannel
      /\ r.powerIndex = d.powerIndex /\ r.answers = d.answers /\ r.snr = d.snr
      /\ r.energy = d.energy
  BY DEF Coherent, DeviceFields
<1> HIDE DEF r
<1>4. Keeps(r, d)
  BY <1>2, <1>3 DEF Coherent, Keeps
<1> QED BY <1>1, <1>4

(* The power changes, or the request is rejected. *)
LEMMA PowerKeeps ==
  ASSUME NEW d, Coherent(d), NEW p
  PROVE  Keeps(SetMaxPower(d, p).dev, d)
<1>1. CASE p \in PowerIndices
  <2> DEFINE r == [d EXCEPT !.powerIndex = p]
  <2>1. SetMaxPower(d, p).dev = r
    BY <1>1 DEF SetMaxPower, Result
  <2>2. /\ DOMAIN r = DeviceFields
        /\ r.frequencies = d.frequencies /\ r.available = d.available /\ r.datarate = d.datarate
        /\ r.maxDatarate = d.maxDatarate /\ r.minDatarate = d.minDatarate
        /\ r.freeing = d.freeing /\ r.freeChannel = d.freeChannel
        /\ r.powerIndex = p /\ r.answers = d.answers /\ r.snr = d.snr
        /\ r.energy = d.energy
    BY DEF Coherent, DeviceFields
  <2> HIDE DEF r
  <2>3. Keeps(r, d)
    BY <1>1, <2>2 DEF Coherent, Keeps
  <2> QED BY <2>1, <2>3
<1>2. CASE p \notin PowerIndices
  BY <1>2 DEF SetMaxPower, Result, Keeps
<1> QED BY <1>1, <1>2

(* Cancelling the wait for a channel makes none usable. *)
LEMMA CancelKeeps ==
  ASSUME NEW d, Coherent(d)
  PROVE  Keeps(CancelFreeChannel(d), d) /\ CancelFreeChannel(d).available = d.available
         /\ \A i \in Slots : CancelFreeChannel(d).freeing[i] <= d.freeing[i]
<1>1. CASE d.freeChannel = NoSlot
  <2>1. CancelFreeChannel(d) = d
    BY <1>1 DEF CancelFreeChannel
  <2>2. \A i \in Slots : d.freeing[i] <= d.freeing[i]
    BY DEF Coherent
  <2> QED BY <2>1, <2>2 DEF Keeps
<1>2. CASE d.freeChannel # NoSlot
  <2> DEFINE r == CancelFreeChannel(d)
             fewer == [d.freeing EXCEPT ![d.freeChannel] = @ - 1]
  <2>1. fewer \in [Slots -> Int] /\ \A i \in Slots : fewer[i] <= d.freeing[i]
    BY <1>2 DEF Coherent
  <2> HIDE DEF fewer
  <2>2. r = [d EXCEPT !.freeing[d.freeChannel] = @ - 1, !.freeChannel = NoSlot]
    BY <1>2 DEF CancelFreeChannel
  <2>3. /\ DOMAIN r = DeviceFields
        /\ r.frequencies = d.frequencies /\ r.available = d.available /\ r.datarate = d.datarate
        /\ r.maxDatarate = d.maxDatarate /\ r.minDatarate = d.minDatarate
        /\ r.freeing = fewer /\ r.freeChannel = NoSlot
        /\ r.powerIndex = d.powerIndex /\ r.answers = d.answers /\ r.snr = d.snr
        /\ r.energy = d.energy
    BY <2>2 DEF Coherent, DeviceFields, fewer
  <2> HIDE DEF r
  <2>4. \A i \in Slots : fewer[i] > 0 => d.freeing[i] > 0
    BY <2>1 DEF Coherent
  <2>5. Coherent(r)
    BY <2>1, <2>3, <2>4 DEF Coherent
  <2>6. Keeps(r, d) /\ r.available = d.available /\ \A i \in Slots : r.freeing[i] <= d.freeing[i]
    BY <2>1, <2>3, <2>5 DEF Keeps
  <2> QED BY <2>6 DEF r
<1> QED BY <1>1, <1>2

(* A mask is applied to channels that have a frequency, or rejected. *)
LEMMA MaskKeeps ==
  ASSUME NEW d, Coherent(d), NEW mask
  PROVE  Keeps(SetChannelMask(d, mask).dev, d)
<1> DEFINE unusable == Named(mask) \ InUse(d)
           done == {i \in Slots : \A j \in unusable : i < j}
           c == CancelFreeChannel(d)
           avail == [i \in Slots |-> IF i \in done THEN i \in Named(mask) ELSE c.available[i]]
           r == [c EXCEPT !.available = avail]
<1>1. Keeps(c, d)
  BY CancelKeeps
<1>2. SetChannelMask(d, mask).dev = IF Named(mask) \subseteq unusable THEN c ELSE r
  BY DEF SetChannelMask, Result
<1>3. \A i \in Slots : avail[i] => d.frequencies[i] # 0
  <2>1. ASSUME NEW i \in Slots, avail[i] PROVE d.frequencies[i] # 0
    <3>1. CASE i \in done
      <4>1. i \in Named(mask)
        BY <2>1, <3>1
      <4>2. i \notin unusable
        BY <3>1 DEF Slots
      <4> QED BY <4>1, <4>2 DEF InUse
    <3>2. CASE i \notin done
      <4>1. c.available[i]
        BY <2>1, <3>2
      <4> HIDE DEF c
      <4> QED BY <1>1, <4>1 DEF Keeps, Coherent
    <3> QED BY <3>1, <3>2
  <2> QED BY <2>1
<1>4. avail \in [Slots -> BOOLEAN]
  <2> HIDE DEF c
  <2>1. \A i \in Slots : c.available[i] \in BOOLEAN
    BY <1>1 DEF Keeps, Coherent
  <2>2. \A i \in Slots : (IF i \in done THEN i \in Named(mask) ELSE c.available[i]) \in BOOLEAN
    <3> TAKE i \in Slots
    <3> HIDE DEF done
    <3>1. (i \in Named(mask)) \in BOOLEAN
      OBVIOUS
    <3>2. CASE i \in done
      BY <3>1, <3>2
    <3>3. CASE i \notin done
      BY <2>1, <3>3
    <3> QED BY <3>2, <3>3
  <2> HIDE DEF done
  <2> QED BY <2>2
<1> HIDE DEF c, avail
<1>5. /\ DOMAIN r = DeviceFields
      /\ r.frequencies = c.frequencies /\ r.available = avail /\ r.datarate = c.datarate
      /\ r.maxDatarate = c.maxDatarate /\ r.minDatarate = c.minDatarate
      /\ r.freeing = c.freeing /\ r.freeChannel = c.freeChannel
      /\ r.powerIndex = c.powerIndex /\ r.answers = c.answers /\ r.snr = c.snr
      /\ r.energy = c.energy
  BY <1>1 DEF Keeps, Coherent, DeviceFields
<1> HIDE DEF r
<1>6. Keeps(r, d)
  <2>1. Coherent(r)
    BY <1>1, <1>3, <1>4, <1>5 DEF Keeps, Coherent
  <2> QED BY <1>1, <1>5, <2>1 DEF Keeps
<1> QED BY <1>1, <1>2, <1>6

(* r is d with one answer more, which confirms only what executing c        *)
(* applies.                                                                 *)
Answered(r, d, c, answer) ==
  /\ Coherent(r)
  /\ answer \in ToBase
  /\ r.answers = Append(d.answers, answer)
  /\ answer.kind = AnswerTo[c.kind]
  /\ \A e : Alike(e, d) => AboutAll(answer) \subseteq Applies(e, c)

(* Queueing an answer changes nothing else. *)
LEMMA AnswerKeeps ==
  ASSUME NEW d, Coherent(d), NEW answer \in ToBase
  PROVE  LET r == SetMacAnswer(d, answer) IN
         /\ Coherent(r) /\ Alike(r, d) /\ r.answers = Append(d.answers, answer)
<1> DEFINE r == SetMacAnswer(d, answer)
           more == Append(d.answers, answer)
<1>1. more \in Seq(ToBase)
  BY DEF Coherent
<1> HIDE DEF more
<1>2. /\ DOMAIN r = DeviceFields
      /\ r.frequencies = d.frequencies /\ r.available = d.available /\ r.datarate = d.datarate
      /\ r.maxDatarate = d.maxDatarate /\ r.minDatarate = d.minDatarate
      /\ r.freeing = d.freeing /\ r.freeChannel = d.freeChannel
      /\ r.powerIndex = d.powerIndex /\ r.answers = more /\ r.snr = d.snr
      /\ r.energy = d.energy
  BY DEF Coherent, DeviceFields, SetMacAnswer, more
<1> HIDE DEF r
<1>3. Coherent(r)
  BY <1>1, <1>2 DEF Coherent
<1> QED BY <1>2, <1>3 DEF r, more

(* Settings that nothing else depends on. *)
LEMMA OthersKeep ==
  ASSUME NEW d, Coherent(d)
  PROVE  /\ \A v : Keeps(SetDelay(d, v), d) /\ Keeps(SetNbRep(d, v), d)
                   /\ Keeps(SetDutyCycle(d, v), d) /\ Keeps(SetDlOffset(d, v), d)
         /\ \A v, w : Keeps(SetRx2Settings(d, v, w), d)
         /\ \A v \in Int : Keeps([d EXCEPT !.snr = v], d)
<1> DEFINE Like(r) ==
             /\ DOMAIN r = DeviceFields
             /\ r.frequencies = d.frequencies /\ r.available = d.available
             /\ r.datarate = d.datarate
             /\ r.maxDatarate = d.maxDatarate /\ r.minDatarate = d.minDatarate
             /\ r.freeing = d.freeing /\ r.freeChannel = d.freeChannel
             /\ r.powerIndex = d.powerIndex /\ r.answers = d.answers /\ r.snr \in Int
             /\ r.energy = d.energy
<1>1. DOMAIN d = DeviceFields /\ d.snr \in Int
  BY DEF Coherent
<1>2. ASSUME NEW r, Like(r) PROVE Keeps(r, d)
  BY <1>2 DEF Coherent, Keeps
<1>3. ASSUME NEW v
      PROVE  Like(SetDelay(d, v)) /\ Like(SetNbRep(d, v)) /\ Like(SetDutyCycle(d, v))
             /\ Like(SetDlOffset(d, v))
  BY <1>1 DEF SetDelay, SetNbRep, SetDutyCycle, SetDlOffset, DeviceFields
<1>4. ASSUME NEW v, NEW w PROVE Like(SetRx2Settings(d, v, w))
  BY <1>1 DEF SetRx2Settings, DeviceFields
<1>5. ASSUME NEW v \in Int PROVE Like([d EXCEPT !.snr = v])
  BY <1>1 DEF DeviceFields
<1> HIDE DEF Like
<1> QED BY <1>2, <1>3, <1>4, <1>5

(* LinkAdrReq: what its answer confirms was applied, the data rate under    *)
(* the name of the power and the power under that of the data rate.         *)
LEMMA LinkAdrKeeps ==
  ASSUME NEW d, Coherent(d), NEW dr \in 0..7, NEW p, NEW mask, NEW n
  PROVE  LET c == LinkAdrReq(dr, p, mask, n)
             r == LinkAdrReqExecute(d, c)
         IN Alike(r, d) /\ \E a : Answered(r, d, c, a)
<1> DEFINE c == LinkAdrReq(dr, p, mask, n)
           d1 == SetMaxDataRate(d, dr).dev
           d2 == SetMaxPower(d1, p).dev
           d3 == SetChannelMask(d2, mask).dev
           d4 == SetNbRep(d3, n)
           ok1 == SetMaxDataRate(d, dr).ok
           ok2 == SetMaxPower(d1, p).ok
           ok3 == SetChannelMask(d2, mask).ok
           a == LinkAdrAns(ok1, ok2, ok3)
           r == LinkAdrReqExecute(d, c)
<1>1. c.datarate = dr /\ c.power = p /\ c.mask = mask /\ c.nbRep = n /\ c.kind = "LinkAdrReq"
  BY DEF LinkAdrReq
<1>2. r = SetMacAnswer(d4, a)
  <2> HIDE DEF c
  <2> QED BY <1>1 DEF LinkAdrReqExecute
<1>3. ok1 \in BOOLEAN /\ ok2 \in BOOLEAN
  <2>1. ok1 \in BOOLEAN
    BY DEF SetMaxDataRate, Result
  <2>2. ok2 \in BOOLEAN
    <3> HIDE DEF d1
    <3> QED BY DEF SetMaxPower, Result
  <2> QED BY <2>1, <2>2
<1>4. ok3 \in BOOLEAN
  <2> HIDE DEF d2
  <2> QED BY DEF SetChannelMask, Result
<1>5. Keeps(d1, d)
  BY RateKeeps
<1> HIDE DEF d1
<1>6. Keeps(d2, d1)
  BY <1>5, PowerKeeps DEF Keeps
<1> HIDE DEF d2
<1>7. Keeps(d3, d2)
  BY <1>6, MaskKeeps DEF Keeps
<1> HIDE DEF d3
<1>8. Keeps(d4, d3)
  BY <1>7, OthersKeep DEF Keeps
<1> HIDE DEF d4
<1> HIDE DEF ok1, ok2, ok3
<1>9. a \in ToBase /\ a.kind = "LinkAdrAns" /\ a.power = ok1 /\ a.datarate = ok2
      /\ a.channelmask = ok3
  <2>1. a \in [kind : {"LinkAdrAns"}, power : BOOLEAN, datarate : BOOLEAN,
               channelmask : BOOLEAN]
    BY <1>3, <1>4 DEF LinkAdrAns
  <2> QED BY <2>1 DEF ToBase, LinkAdrAns
<1> HIDE DEF a, c, r
<1>10. Coherent(r) /\ Alike(r, d) /\ r.answers = Append(d.answers, a)
  <2>1. Coherent(r) /\ Alike(r, d4) /\ r.answers = Append(d4.answers, a)
    BY <1>2, <1>8, <1>9, AnswerKeeps DEF Keeps
  <2> QED BY <2>1, <1>5, <1>6, <1>7, <1>8 DEF Keeps
<1>11. ASSUME NEW e, Alike(e, d)
       PROVE  AboutAll(a) \subseteq Applies(e, c)
  <2>1. Applies(e, c) =
          (IF SetMaxDataRate(e, dr).ok THEN {"datarate"} ELSE {})
            \cup (IF SetMaxPower(e, p).ok THEN {"power"} ELSE {})
            \cup (IF SetChannelMask(e, mask).ok THEN {"channelmask"} ELSE {})
    BY <1>1 DEF Applies
  <2>2. ok1 => SetMaxDataRate(e, dr).ok
    BY <1>11 DEF ok1, SetMaxDataRate, Result
  <2>3. ok2 => SetMaxPower(e, p).ok
    BY DEF ok2, SetMaxPower, Result
  <2>4. ok3 => SetChannelMask(e, mask).ok
    <3>1. d2.frequencies = e.frequencies
      BY <1>5, <1>6, <1>11 DEF Keeps
    <3>2. InUse(d2) = InUse(e)
      BY <3>1 DEF InUse
    <3> QED BY <3>2 DEF ok3, SetChannelMask, Result
  <2>5. ASSUME NEW s \in Confirms(a) PROVE About(s) \in Applies(e, c)
    <3>1. s \in {"power", "datarate", "channelmask"} /\ a[s]
      BY <1>9 DEF Confirms
    <3>2. CASE s = "power"
      <4>1. About(s) = "datarate" /\ ok1
        BY <1>9, <3>1, <3>2 DEF About
      <4> QED BY <2>1, <2>2, <4>1
    <3>3. CASE s = "datarate"
      <4>1. About(s) = "power" /\ ok2
        BY <1>9, <3>1, <3>3 DEF About
      <4> QED BY <2>1, <2>3, <4>1
    <3>4. CASE s = "channelmask"
      <4>1. About(s) = "channelmask" /\ ok3
        BY <1>9, <3>1, <3>4 DEF About
      <4> QED BY <2>1, <2>4, <4>1
    <3> QED BY <3>1, <3>2, <3>3, <3>4
  <2> QED BY <2>5 DEF AboutAll
<1>12. Answered(r, d, c, a)
  BY <1>1, <1>9, <1>10, <1>11 DEF Answered, AnswerTo
<1> QED BY <1>10, <1>12 DEF r, c

(* Which class a command of the network is of. *)
LEMMA Kinds ==
  ASSUME NEW c \in FromBase
  PROVE  /\ c.kind = "LinkAdrReq" =>
              \E d, p \in 0..7, m \in 0..2^16 - 1, n \in 0..1 : c = LinkAdrReq(d, p, m, n)
         /\ c.kind = "NewChannelReq" =>
              \E i \in Byte, f \in 0..2^24 - 1, m, n \in 0..15 : c = NewChannelReq(i, f, m, n)
         /\ c.kind \notin {"LinkAdrReq", "NewChannelReq", "LinkCheckAns"} =>
              \/ c = DevStatusReq
              \/ \E v \in Byte : c = DutyCycleReq(v) \/ c = RxTimingSetupReq(v)
              \/ \E o \in 0..7, d \in 0..15, f \in 0..2^24 - 1 : c = RxParamSetupReq(o, d, f)
<1> DEFINE Masks == 0..2^16 - 1
           Frequencies == 0..2^24 - 1
           Adr == \E d, p \in 0..7, m \in Masks, n \in 0..1 : c = LinkAdrReq(d, p, m, n)
           Channel == \E i \in Byte, f \in Frequencies, m, n \in 0..15 :
                        c = NewChannelReq(i, f, m, n)
           Values == \E v \in Byte : c = DutyCycleReq(v) \/ c = RxTimingSetupReq(v)
           Params == \E o \in 0..7, d \in 0..15, f \in Frequencies :
                       c = RxParamSetupReq(o, d, f)
           Check == \E m, n \in Byte : c = LinkCheckAns(m, n)
<1>1. c = DevStatusReq \/ Adr \/ Values \/ Params \/ Channel \/ Check
  <2> HIDE DEF Masks, Frequencies
  <2> QED BY ClassesFromBase, Zenon DEF Masks, Frequencies
<1> HIDE DEF Masks, Frequencies
<1>2. c = DevStatusReq => c.kind = "DevStatusReq"
  BY DEF DevStatusReq
<1>3. Adr => c.kind = "LinkAdrReq"
  BY DEF LinkAdrReq
<1>4. Values => c.kind \in {"DutyCycleReq", "RxTimingSetupReq"}
  BY DEF DutyCycleReq, RxTimingSetupReq
<1>5. Params => c.kind = "RxParamSetupReq"
  BY DEF RxParamSetupReq
<1>6. Channel => c.kind = "NewChannelReq"
  BY DEF NewChannelReq
<1>7. Check => c.kind = "LinkCheckAns"
  BY DEF LinkCheckAns
<1> HIDE DEF Adr, Values, Params, Channel, Check
<1>8. /\ c.kind = "LinkAdrReq" => Adr
      /\ c.kind = "NewChannelReq" => Channel
      /\ c.kind \notin {"LinkAdrReq", "NewChannelReq", "LinkCheckAns"} =>
           c = DevStatusReq \/ Values \/ Params
  BY <1>1, <1>2, <1>3, <1>4, <1>5, <1>6, <1>7
<1> QED BY <1>8, Zenon DEF Adr, Values, Params, Channel, Masks, Frequencies

(* NewChannelReq: the slot has the frequency, and the answer says so. *)
LEMMA NewChannelKeeps ==
  ASSUME NEW d, Coherent(d), NEW i \in Byte, NEW freq \in Nat \ {0}, NEW low \in Nat,
         NEW high \in Nat
  PROVE  LET c == NewChannelReq(i, freq, low, high)
             r == NewChannelReqExecute(d, c)
         IN /\ r.frequencies = [d.frequencies EXCEPT ![i] = freq]
            /\ r.maxDatarate = [d.maxDatarate EXCEPT ![i] = high]
            /\ \E a : Answered(r, d, c, a)
<1> DEFINE c == NewChannelReq(i, freq, low, high)
           d1 == AddChannel(d, i, freq)
           d2 == SetMaxDataRateOf(d1, high, i)
           d3 == SetMinDataRateOf(d2, low, i)
           a == NewChannelAns(TRUE, TRUE)
           r == NewChannelReqExecute(d, c)
           freqs == [d.frequencies EXCEPT ![i] = freq]
           avail == [d.available EXCEPT ![i] = TRUE]
           rates == [d.datarate EXCEPT ![i] = high]
           maxes == [d.maxDatarate EXCEPT ![i] = high]
           mins == [d.minDatarate EXCEPT ![i] = low]
<1>1. c.chIndex = i /\ c.freq = freq /\ c.minDr = low /\ c.maxDr = high
      /\ c.kind = "NewChannelReq"
  BY DEF NewChannelReq
<1>2. r = SetMacAnswer(d3, a)
  <2> HIDE DEF c
  <2> QED BY <1>1 DEF NewChannelReqExecute
<1>3. /\ freqs \in [Slots -> Nat] /\ avail \in [Slots -> BOOLEAN] /\ rates \in [Slots -> Nat]
      /\ maxes \in [Slots -> Nat] /\ mins \in [Slots -> Nat]
      /\ \A j \in Slots : /\ rates[j] <= maxes[j]
                          /\ avail[j] \/ d.freeing[j] > 0 => freqs[j] # 0
  <2>1. freqs \in [Slots -> Nat]
    BY DEF Coherent
  <2>2. avail \in [Slots -> BOOLEAN]
    BY DEF Coherent
  <2>3. rates \in [Slots -> Nat]
    BY DEF Coherent
  <2>4. maxes \in [Slots -> Nat]
    BY DEF Coherent
  <2>5. mins \in [Slots -> Nat]
    BY DEF Coherent
  <2>6. ASSUME NEW j \in Slots
        PROVE  rates[j] <= maxes[j] /\ (avail[j] \/ d.freeing[j] > 0 => freqs[j] # 0)
    <3>1. CASE j = i
      <4>1. rates[j] = high /\ maxes[j] = high /\ freqs[j] = freq
        BY <3>1 DEF Coherent
      <4> QED BY <4>1
    <3>2. CASE j # i
      <4>1. rates[j] = d.datarate[j] /\ maxes[j] = d.maxDatarate[j]
            /\ freqs[j] = d.frequencies[j] /\ avail[j] = d.available[j]
        BY <3>2 DEF Coherent
      <4> QED BY <4>1 DEF Coherent
    <3> QED BY <3>1, <3>2
  <2> QED BY <2>1, <2>2, <2>3, <2>4, <2>5, <2>6
<1>4. /\ DOMAIN d1 = DeviceFields
      /\ d1.frequencies = freqs /\ d1.available = avail /\ d1.datarate = d.datarate
      /\ d1.maxDatarate = d.maxDatarate /\ d1.minDatarate = d.minDatarate
      /\ d1.freeing = d.freeing /\ d1.freeChannel = d.freeChannel
      /\ d1.powerIndex = d.powerIndex /\ d1.answers = d.answers /\ d1.snr = d.snr
      /\ d1.energy = d.energy
  BY DEF Coherent, DeviceFields, AddChannel
<1> HIDE DEF d1, freqs, avail
<1>5. /\ DOMAIN d2 = DeviceFields
      /\ d2.frequencies = freqs /\ d2.available = avail /\ d2.datarate = rates
      /\ d2.maxDatarate = maxes /\ d2.minDatarate = d.minDatarate
      /\ d2.freeing = d.freeing /\ d2.freeChannel = d.freeChannel
      /\ d2.powerIndex = d.powerIndex /\ d2.answers = d.answers /\ d2.snr = d.snr
      /\ d2.energy = d.energy
  BY <1>4 DEF DeviceFields, SetMaxDataRateOf
<1> HIDE DEF d2, rates, maxes
<1>6. /\ DOMAIN d3 = DeviceFields
      /\ d3.frequencies = freqs /\ d3.available = avail /\ d3.datarate = rates
      /\ d3.maxDatarate = maxes /\ d3.minDatarate = mins
      /\ d3.freeing = d.freeing /\ d3.freeChannel = d.freeChannel
      /\ d3.powerIndex = d.powerIndex /\ d3.answers = d.answers /\ d3.snr = d.snr
      /\ d3.energy = d.energy
  BY <1>5 DEF DeviceFields, SetMinDataRateOf
<1> HIDE DEF d3, mins
<1>7. Coherent(d3)
  BY <1>3, <1>6 DEF Coherent
<1>8. a \in ToBase /\ a.kind = "NewChannelAns"
  BY DEF ToBase, NewChannelAns
<1>9. AboutAll(a) \subseteq {"frequency", "channelRate"}
  <2>1. Confirms(a) \subseteq {"frequency", "channelRate"}
    BY DEF Confirms, NewChannelAns
  <2>2. \A s \in {"frequency", "channelRate"} : About(s) = s
    BY DEF About
  <2> HIDE DEF a
  <2> QED BY <2>1, <2>2 DEF AboutAll
<1>10. \A e : Applies(e, c) = {"frequency", "channelRate"}
  <2> HIDE DEF c
  <2> QED BY <1>1 DEF Applies
<1> HIDE DEF a, c, r
<1>11. /\ Coherent(r) /\ r.frequencies = freqs /\ r.maxDatarate = maxes
       /\ r.answers = Append(d.answers, a)
  BY <1>2, <1>6, <1>7, <1>8, AnswerKeeps
<1>12. \A e : AboutAll(a) \subseteq Applies(e, c)
  BY <1>9, <1>10
<1>13. Answered(r, d, c, a)
  BY <1>1, <1>8, <1>11, <1>12 DEF Answered, AnswerTo
<1> QED BY <1>11, <1>13 DEF r, c, freqs, maxes

(* The other requests leave the channels as they are. *)
LEMMA OtherRequestsKeep ==
  ASSUME NEW d, Coherent(d), NEW e \in Sound,
         e.kind \notin {"LinkAdrReq", "NewChannelReq", "LinkCheckAns"}
  PROVE  Alike(Execute(d, e), d) /\ \E a : Answered(Execute(d, e), d, e, a)
<1> DEFINE r == Execute(d, e)
<1>1. ASSUME NEW x, Keeps(x, d), NEW a \in ToBase, Confirms(a) = {}, a.kind = AnswerTo[e.kind],
             r = SetMacAnswer(x, a)
      PROVE  Alike(r, d) /\ Answered(r, d, e, a)
  <2> HIDE DEF r
  <2>1. Coherent(r) /\ Alike(r, x) /\ r.answers = Append(x.answers, a)
    BY <1>1, AnswerKeeps DEF Keeps
  <2>2. Alike(x, d) /\ x.answers = d.answers
    BY <1>1 DEF Keeps
  <2>3. AboutAll(a) = {}
    BY <1>1 DEF AboutAll
  <2> QED BY <1>1, <2>1, <2>2, <2>3 DEF Answered
<1>2. CASE e = DevStatusReq
  <2> DEFINE margin == IF d.snr > 32 THEN 32 ELSE IF d.snr < -32 THEN -32 ELSE d.snr
             battery == IF d.energy = NoSource THEN 0 ELSE (254 * d.energy) \div 100 + 1
             a == DevStatusAns(battery, margin)
  <2>1. margin \in -128..127
    <3>1. PICK s \in Int : s = d.snr
      BY DEF Coherent
    <3>2. (IF s > 32 THEN 32 ELSE IF s < -32 THEN -32 ELSE s) \in -128..127
      BY ONLY SMT
    <3> QED BY <3>1, <3>2
  <2>2. battery \in Byte
    <3>1. CASE d.energy = NoSource
      BY <3>1 DEF Byte
    <3>2. CASE d.energy # NoSource
      <4>1. PICK n \in 0..100 : n = d.energy
        BY <3>2 DEF Coherent
      <4>2. (254 * n) \div 100 + 1 \in Byte
        BY ONLY SMT DEF Byte
      <4> QED BY <3>2, <4>1, <4>2
    <3> QED BY <3>1, <3>2
  <2>3. r = SetMacAnswer(d, a)
    BY <1>2 DEF Execute, DevStatusReq, DevStatusReqExecute
  <2> HIDE DEF margin, battery
  <2>4. a \in ToBase
    BY <2>1, <2>2 DEF ToBase, DevStatusAns
  <2>5. Confirms(a) = {} /\ a.kind = AnswerTo[e.kind]
    BY <1>2 DEF Confirms, DevStatusAns, DevStatusReq, AnswerTo
  <2> HIDE DEF a, r
  <2> QED BY <1>1, <2>3, <2>4, <2>5 DEF Keeps, r
<1>3. ASSUME NEW v \in Byte, e = DutyCycleReq(v)
      PROVE  Alike(r, d) /\ \E a : Answered(r, d, e, a)
  <2>1. r = SetMacAnswer(SetDutyCycle(d, v), DutyCycleAns)
    BY <1>3 DEF Execute, DutyCycleReq, DutyCycleReqExecute
  <2>2. DutyCycleAns \in ToBase /\ Confirms(DutyCycleAns) = {}
        /\ DutyCycleAns.kind = AnswerTo[e.kind]
    BY <1>3 DEF ToBase, DutyCycleAns, Confirms, DutyCycleReq, AnswerTo
  <2> QED BY <1>1, <2>1, <2>2, OthersKeep
<1>4. ASSUME NEW v \in Byte, e = RxTimingSetupReq(v)
      PROVE  Alike(r, d) /\ \E a : Answered(r, d, e, a)
  <2>1. r = SetMacAnswer(SetDelay(d, v), RxTimingSetupAns)
    BY <1>4 DEF Execute, RxTimingSetupReq, RxTimingSetupReqExecute
  <2>2. RxTimingSetupAns \in ToBase /\ Confirms(RxTimingSetupAns) = {}
        /\ RxTimingSetupAns.kind = AnswerTo[e.kind]
    BY <1>4 DEF ToBase, RxTimingSetupAns, Confirms, RxTimingSetupReq, AnswerTo
  <2> QED BY <1>1, <2>1, <2>2, OthersKeep
<1>5. ASSUME NEW o, NEW dr, NEW f, e = RxParamSetupReq(o, dr, f)
      PROVE  Alike(r, d) /\ \E a : Answered(r, d, e, a)
  <2> DEFINE d1 == SetDlOffset(d, o)
             d2 == SetRx2Settings(d1, dr, f)
             a == RxParamSetupAns(TRUE, TRUE, TRUE)
  <2>1. r = SetMacAnswer(d2, a)
    BY <1>5 DEF Execute, RxParamSetupReq, RxParamSetupReqExecute
  <2>2. a \in ToBase /\ Confirms(a) = {} /\ a.kind = AnswerTo[e.kind]
    BY <1>5 DEF ToBase, RxParamSetupAns, Confirms, RxParamSetupReq, AnswerTo
  <2>3. Keeps(d1, d)
    BY OthersKeep
  <2> HIDE DEF d1
  <2>4. Keeps(d2, d1)
    BY <2>3, OthersKeep DEF Keeps
  <2> HIDE DEF d2, a, r
  <2>5. Keeps(d2, d)
    BY <2>3, <2>4 DEF Keeps
  <2> QED BY <1>1, <2>1, <2>2, <2>5 DEF r
<1>6. \/ e = DevStatusReq
      \/ \E v \in Byte : e = DutyCycleReq(v) \/ e = RxTimingSetupReq(v)
      \/ \E o, dr, f : e = RxParamSetupReq(o, dr, f)
  <2> DEFINE Frequencies == 0..2^24 - 1
  <2>1. e \in FromBase
    BY DEF Sound
  <2>2. \/ e = DevStatusReq
        \/ \E v \in Byte : e = DutyCycleReq(v) \/ e = RxTimingSetupReq(v)
        \/ \E o \in 0..7, dr \in 0..15, f \in Frequencies : e = RxParamSetupReq(o, dr, f)
    BY <2>1, Kinds
  <2> HIDE DEF Frequencies
  <2> QED BY ONLY <2>2, Zenon
<1> QED BY <1>1, <1>2, <1>3, <1>4, <1>5, <1>6, Zenon

(* Every command that may arrive leaves coherent settings, leaves alike     *)
(* devices alike, and is answered.                                          *)
LEMMA ExecuteKeeps ==
  ASSUME NEW d, Coherent(d), NEW c \in Sound
  PROVE  /\ Coherent(Execute(d, c))
         /\ \/ c.kind = "LinkCheckAns" /\ Execute(d, c) = d
            \/ c.kind # "LinkCheckAns" /\ \E a : Answered(Execute(d, c), d, c, a)
         /\ \A e : Coherent(e) /\ Alike(e, d) => Alike(Execute(e, c), Execute(d, c))
<1>1. CASE c.kind = "LinkCheckAns"
  <2>1. \A e : Execute(e, c) = e
    BY <1>1 DEF Execute
  <2> QED BY <1>1, <2>1
<1>2. CASE c.kind = "LinkAdrReq"
  <2>1. PICK dr \in 0..7, p \in 0..7, m \in 0..2^16 - 1, n \in 0..1 : c = LinkAdrReq(dr, p, m, n)
    <3>1. c \in FromBase
      BY DEF Sound
    <3> QED BY <1>2, <3>1, Kinds, Zenon
  <2>2. \A x : Execute(x, c) = LinkAdrReqExecute(x, c)
    BY <1>2 DEF Execute
  <2>3. \A x : Coherent(x) => Alike(LinkAdrReqExecute(x, c), x)
    BY <2>1, LinkAdrKeeps
  <2>4. \E a : Answered(LinkAdrReqExecute(d, c), d, c, a)
    BY <2>1, LinkAdrKeeps
  <2> QED BY <1>2, <2>2, <2>3, <2>4 DEF Answered
<1>3. CASE c.kind = "NewChannelReq"
  <2>1. PICK i \in Byte, f \in 0..2^24 - 1, m \in 0..15, n \in 0..15 :
          c = NewChannelReq(i, f, m, n)
    <3>1. c \in FromBase
      BY DEF Sound
    <3> QED BY <1>3, <3>1, Kinds, Zenon
  <2>2. \A x : Execute(x, c) = NewChannelReqExecute(x, c)
    BY <1>3 DEF Execute
  <2>3. f \in Nat \ {0} /\ m \in Nat /\ n \in Nat
    <3>1. c.freq = f /\ c.freq # 0
      BY <1>3, <2>1 DEF Sound, NewChannelReq
    <3>2. f \in Nat
      BY SMT
    <3> QED BY <3>1, <3>2
  <2>4. \A x : Coherent(x) => /\ NewChannelReqExecute(x, c).frequencies
                                   = [x.frequencies EXCEPT ![i] = f]
                              /\ NewChannelReqExecute(x, c).maxDatarate
                                   = [x.maxDatarate EXCEPT ![i] = n]
                              /\ \E a : Answered(NewChannelReqExecute(x, c), x, c, a)
    BY <2>1, <2>3, NewChannelKeeps
  <2>5. \E a : Answered(NewChannelReqExecute(d, c), d, c, a)
    BY <2>4
  <2>6. \A e : Coherent(e) /\ Alike(e, d) => Alike(Execute(e, c), Execute(d, c))
    <3> TAKE e
    <3> HAVE Coherent(e) /\ Alike(e, d)
    <3>1. /\ Execute(e, c).frequencies = [e.frequencies EXCEPT ![i] = f]
          /\ Execute(e, c).maxDatarate = [e.maxDatarate EXCEPT ![i] = n]
      BY <2>2, <2>4
    <3>2. /\ Execute(d, c).frequencies = [d.frequencies EXCEPT ![i] = f]
          /\ Execute(d, c).maxDatarate = [d.maxDatarate EXCEPT ![i] = n]
      BY <2>2, <2>4
    <3> QED BY <3>1, <3>2
  <2>7. Coherent(Execute(d, c)) /\ \E a : Answered(Execute(d, c), d, c, a)
    BY <2>2, <2>5 DEF Answered
  <2> QED BY <1>3, <2>6, <2>7, Zenon
<1>4. CASE c.kind \notin {"LinkAdrReq", "NewChannelReq", "LinkCheckAns"}
  <2>1. \A x : Coherent(x) => /\ Alike(Execute(x, c), x)
                              /\ \E a : Answered(Execute(x, c), x, c, a)
    BY <1>4, OtherRequestsKeep
  <2>2. \E a : Answered(Execute(d, c), d, c, a)
    BY <2>1
  <2> QED BY <1>4, <2>1, <2>2 DEF Answered
<1> QED BY <1>1, <1>2, <1>3, <1>4

-----------------------------------------------------------------------------
(* Executing the commands of a downlink *)

(* The functions FoldLeft chooses to execute commands and to note what they *)
(* apply.                                                                   *)
Executes(f, d, commands) ==
  f = [s \in SUBSET DOMAIN commands |->
         IF s = {} THEN d ELSE Execute(f[s \ {Max(s)}], commands[Max(s)])]

(* There is a sequence of settings in which each command follows the other. *)
LEMMA ExecutesExists ==
  ASSUME NEW d, NEW C, NEW commands \in Seq(C)
  PROVE  \E f : Executes(f, d, commands)
<1> DEFINE n == Len(commands)
           Folds(k, f) ==
             /\ DOMAIN f = SUBSET (1..k)
             /\ \A s \in SUBSET (1..k) :
                  f[s] = IF s = {} THEN d ELSE Execute(f[s \ {Max(s)}], commands[Max(s)])
           Good == {k \in 0..n : \E f : Folds(k, f)}
<1>1. n \in Nat /\ DOMAIN commands = 1..n
  OBVIOUS
<1>2. 0 \in Good
  <2>1. \A s \in SUBSET (1..0) : s = {}
    OBVIOUS
  <2>2. Folds(0, [s \in SUBSET (1..0) |-> d])
    BY <2>1
  <2>3. 0 \in 0..n
    BY <1>1
  <2> HIDE DEF Folds, n
  <2> QED BY <2>2, <2>3
<1>3. ASSUME NEW k \in Nat, k < n, k \in Good PROVE k + 1 \in Good
  <2>1. PICK f : Folds(k, f)
    BY <1>3
  <2> DEFINE g == [s \in SUBSET (1..k + 1) |->
                     IF k + 1 \in s THEN Execute(f[s \ {k + 1}], commands[k + 1]) ELSE f[s]]
  <2>2. \A s \in SUBSET (1..k + 1) :
          /\ s \ {k + 1} \in SUBSET (1..k)
          /\ k + 1 \notin s => s \in SUBSET (1..k)
    OBVIOUS
  <2>3. ASSUME NEW s \in SUBSET (1..k + 1)
        PROVE  g[s] = IF s = {} THEN d ELSE Execute(g[s \ {Max(s)}], commands[Max(s)])
    <3>1. CASE s = {}
      <4>1. k + 1 \notin s /\ s \in SUBSET (1..k)
        BY <3>1
      <4>2. g[s] = f[s] /\ f[s] = d
        BY <2>1, <3>1, <4>1
      <4> QED BY <3>1, <4>2
    <3>2. CASE k + 1 \in s
      <4>1. Max(s) = k + 1
        <5>1. k + 1 \in s /\ \A y \in s : k + 1 >= y
          BY <3>2
        <5>2. \A x \in s : (\A y \in s : x >= y) => x = k + 1
          BY <5>1
        <5> QED BY <5>1, <5>2 DEF Max
      <4>2. s \ {k + 1} \in SUBSET (1..k) /\ s \ {k + 1} \in SUBSET (1..k + 1)
        BY <2>2
      <4>3. /\ g[s] = Execute(f[s \ {k + 1}], commands[k + 1])
            /\ g[s \ {k + 1}] = f[s \ {k + 1}]
        BY <3>2, <4>2
      <4> QED BY <3>2, <4>1, <4>3
    <3>3. CASE k + 1 \notin s /\ s # {}
      <4>1. s \in SUBSET (1..k)
        BY <2>2, <3>3
      <4>2. s \ {Max(s)} \in SUBSET (1..k) /\ k + 1 \notin s \ {Max(s)}
        BY <4>1, <3>3
      <4>3. s \ {Max(s)} \in SUBSET (1..k + 1)
        OBVIOUS
      <4>4. g[s] = f[s] /\ g[s \ {Max(s)}] = f[s \ {Max(s)}]
        BY <3>3, <4>1, <4>2, <4>3
      <4>5. f[s] = Execute(f[s \ {Max(s)}], commands[Max(s)])
        BY <2>1, <3>3, <4>1
      <4> QED BY <3>3, <4>4, <4>5
    <3> QED BY <3>1, <3>2, <3>3
  <2>4. DOMAIN g = SUBSET (1..k + 1)
    OBVIOUS
  <2> HIDE DEF g
  <2>5. Folds(k + 1, g)
    BY <2>3, <2>4
  <2>6. k + 1 \in 0..n
    BY <1>1, <1>3
  <2> HIDE DEF Folds
  <2> QED BY <2>5, <2>6
<1> HIDE DEF Good
<1>4. \A k \in Nat : k < n /\ k \in Good => k + 1 \in Good
  BY <1>3
<1>5. n \in Good
  <2> HIDE DEF n
  <2>1. \A k \in 0..n : k \in Good
    BY <1>1, <1>2, <1>4, UpTo
  <2> QED BY <1>1, <2>1
<1>6. PICK f : Folds(n, f)
  BY <1>5 DEF Good
<1> DEFINE g == [s \in SUBSET DOMAIN commands |-> f[s]]
<1>7. ASSUME NEW s \in SUBSET DOMAIN commands
      PROVE  g[s] = IF s = {} THEN d ELSE Execute(g[s \ {Max(s)}], commands[Max(s)])
  <2>1. s \in SUBSET (1..n) /\ s \ {Max(s)} \in SUBSET DOMAIN commands
    BY <1>1
  <2>2. g[s] = f[s] /\ g[s \ {Max(s)}] = f[s \ {Max(s)}]
    BY <2>1
  <2>3. f[s] = IF s = {} THEN d ELSE Execute(f[s \ {Max(s)}], commands[Max(s)])
    BY <1>6, <2>1
  <2> QED BY <2>2, <2>3
<1>8. g = [s \in SUBSET DOMAIN commands |->
             IF s = {} THEN d ELSE Execute(g[s \ {Max(s)}], commands[Max(s)])]
  BY <1>7
<1> QED BY <1>8 DEF Executes

(* The devices executing goes through. *)
Runs(t, d, commands) ==
  /\ t[0] = d
  /\ \A k \in 1..Len(commands) : t[k] = Execute(t[k - 1], commands[k])

(* The device executes the commands one after the other. *)
LEMMA ExecuteAllSteps ==
  ASSUME NEW d, NEW C, NEW commands \in Seq(C)
  PROVE  \E t : Runs(t, d, commands) /\ ExecuteAll(d, commands) = t[Len(commands)]
<1> DEFINE n == Len(commands)
           f == CHOOSE f : Executes(f, d, commands)
           t == [k \in 0..n |-> f[1..k]]
<1>1. n \in Nat /\ DOMAIN commands = 1..n
  OBVIOUS
<1>2. Executes(f, d, commands)
  BY ExecutesExists
<1>3. ExecuteAll(d, commands) = f[DOMAIN commands]
  BY DEF ExecuteAll, FoldLeft, MapThenFoldSet, Executes
<1> HIDE DEF f
<1>4. \A k \in 1..n :
        /\ 1..k \in SUBSET DOMAIN commands /\ 1..k - 1 \in SUBSET DOMAIN commands
        /\ 1..k # {} /\ Max(1..k) = k /\ f[(1..k) \ {Max(1..k)}] = f[1..k - 1]
  BY <1>1, FoldSteps, Zenon
<1>5. \A k \in 1..n : f[1..k] = Execute(f[1..k - 1], commands[k])
  BY <1>2, <1>4 DEF Executes
<1>6. f[1..0] = d
  <2>1. 1..0 = {}
    OBVIOUS
  <2> QED BY <1>2, <2>1 DEF Executes
<1>7. Runs(t, d, commands)
  <2>1. t[0] = d
    BY <1>1, <1>6
  <2>2. \A k \in 1..n : k - 1 \in 0..n /\ k \in 0..n
    BY <1>1
  <2>3. \A k \in 1..n : t[k] = Execute(t[k - 1], commands[k])
    BY <1>5, <2>2
  <2> QED BY <2>1, <2>3 DEF Runs
<1>8. t[n] = f[DOMAIN commands]
  BY <1>1
<1> QED BY <1>3, <1>7, <1>8

(* The settings they change on the way. *)
Noted(u, t, commands) ==
  /\ u[0] = {}
  /\ \A k \in 1..Len(commands) : u[k] = u[k - 1] \cup Applies(t[k - 1], commands[k])

(* So are the settings noted that each of them applies. *)
LEMMA AppliesAllSteps ==
  ASSUME NEW d, NEW C, NEW commands \in Seq(C)
  PROVE  \E t, u : /\ Runs(t, d, commands) /\ Noted(u, t, commands)
                   /\ AppliesAll(d, commands) = u[Len(commands)]
<1> DEFINE n == Len(commands)
           Op(r, c) == [dev |-> Execute(r.dev, c), set |-> r.set \cup Applies(r.dev, c)]
           base == [dev |-> d, set |-> {}]
           Is(g) == g = [s \in SUBSET DOMAIN commands |->
                           IF s = {} THEN base
                           ELSE Op(g[s \ {Max(s)}], commands[Max(s)])]
<1>1. n \in Nat /\ DOMAIN commands = 1..n
  OBVIOUS
<1>2. PICK f : Executes(f, d, commands)
  BY ExecutesExists
<1> DEFINE Below(s, i) == {j \in s : j < i}
           noted(s) == UNION {Applies(f[Below(s, i)], commands[i]) : i \in s}
           witness == [s \in SUBSET DOMAIN commands |-> [dev |-> f[s], set |-> noted(s)]]
<1>3. ASSUME NEW s \in SUBSET DOMAIN commands, s # {}
      PROVE  witness[s] = Op(witness[s \ {Max(s)}], commands[Max(s)])
  <2> DEFINE m == Max(s)
  <2>1. m \in s /\ \A y \in s : m >= y
    <3>1. \E x \in s : \A y \in s : x >= y
      BY <1>1, <1>3, Greatest
    <3> QED BY <3>1 DEF Max
  <2> HIDE DEF m
  <2>2. s \ {m} \in SUBSET DOMAIN commands
    OBVIOUS
  <2>3. Below(s, m) = s \ {m}
    BY <1>1, <2>1
  <2>4. \A i \in s \ {m} : Below(s, i) = Below(s \ {m}, i)
    BY <1>1, <2>1
  <2>5. noted(s) = noted(s \ {m}) \cup Applies(f[s \ {m}], commands[m])
    <3> HIDE DEF Below
    <3>1. ASSUME NEW x \in noted(s)
          PROVE  x \in noted(s \ {m}) \cup Applies(f[s \ {m}], commands[m])
      <4>1. PICK i \in s : x \in Applies(f[Below(s, i)], commands[i])
        BY <3>1
      <4>2. CASE i = m
        BY <2>3, <4>1, <4>2
      <4>3. CASE i # m
        <5>1. i \in s \ {m} /\ x \in Applies(f[Below(s \ {m}, i)], commands[i])
          BY <2>4, <4>1, <4>3
        <5> QED BY <5>1
      <4> QED BY <4>2, <4>3
    <3>2. ASSUME NEW x \in noted(s \ {m}) PROVE x \in noted(s)
      <4>1. PICK i \in s \ {m} : x \in Applies(f[Below(s \ {m}, i)], commands[i])
        BY <3>2
      <4>2. x \in Applies(f[Below(s, i)], commands[i]) /\ i \in s
        BY <2>4, <4>1
      <4> QED BY <4>2
    <3>3. ASSUME NEW x \in Applies(f[s \ {m}], commands[m]) PROVE x \in noted(s)
      BY <2>1, <2>3, <3>3
    <3> HIDE DEF noted
    <3> QED BY <3>1, <3>2, <3>3
  <2>6. f[s] = Execute(f[s \ {m}], commands[m])
    BY <1>2, <1>3 DEF Executes, m
  <2> HIDE DEF noted
  <2>7. witness[s] = Op(witness[s \ {m}], commands[m])
    BY <2>2, <2>5, <2>6
  <2> QED BY <2>7 DEF m
<1>4. witness[{}] = base
  <2>1. noted({}) = {}
    OBVIOUS
  <2>2. f[{}] = d
    BY <1>2 DEF Executes
  <2> HIDE DEF noted
  <2> QED BY <2>1, <2>2
<1>5. Is(witness)
  <2> DEFINE Step(s) == IF s = {} THEN base ELSE Op(witness[s \ {Max(s)}], commands[Max(s)])
  <2>1. \A s \in SUBSET DOMAIN commands : witness[s] = Step(s)
    <3> HIDE DEF witness, Op, base
    <3> QED BY <1>3, <1>4
  <2>2. witness = [s \in SUBSET DOMAIN commands |-> witness[s]]
    OBVIOUS
  <2> HIDE DEF witness, Op, base, Step
  <2>3. witness = [s \in SUBSET DOMAIN commands |-> Step(s)]
    BY <2>1, <2>2
  <2> QED BY <2>3 DEF Step
<1> DEFINE g == CHOOSE g : Is(g)
<1>6. Is(g)
  <2> HIDE DEF witness, Is
  <2> QED BY <1>5
<1>7. AppliesAll(d, commands) = g[DOMAIN commands].set
  BY DEF AppliesAll, FoldLeft, MapThenFoldSet
<1> HIDE DEF g, witness
<1>8. \A k \in 1..n :
        /\ 1..k \in SUBSET DOMAIN commands /\ 1..k - 1 \in SUBSET DOMAIN commands
        /\ 1..k # {} /\ Max(1..k) = k /\ g[(1..k) \ {Max(1..k)}] = g[1..k - 1]
  BY <1>1, FoldSteps, Zenon
<1> HIDE DEF Op, base
<1>9. \A k \in 1..n : g[1..k] = Op(g[1..k - 1], commands[k])
  BY <1>6, <1>8
<1>10. g[1..0] = base
  <2>1. 1..0 = {}
    OBVIOUS
  <2> QED BY <1>6, <2>1
<1> DEFINE t == [k \in 0..n |-> g[1..k].dev]
           u == [k \in 0..n |-> g[1..k].set]
<1> HIDE DEF Is, n
<1>11. \A k \in 1..n : k - 1 \in 0..n /\ k \in 0..n
  BY <1>1
<1>12. t[0] = d /\ u[0] = {}
  BY <1>1, <1>10 DEF base
<1>13. ASSUME NEW k \in 1..n
       PROVE  t[k] = Execute(t[k - 1], commands[k])
              /\ u[k] = u[k - 1] \cup Applies(t[k - 1], commands[k])
  <2>1. /\ g[1..k].dev = Execute(g[1..k - 1].dev, commands[k])
        /\ g[1..k].set = g[1..k - 1].set \cup Applies(g[1..k - 1].dev, commands[k])
    <3>1. g[1..k] = Op(g[1..k - 1], commands[k])
      BY <1>9
    <3>2. \A r, c : /\ Op(r, c).dev = Execute(r.dev, c)
                    /\ Op(r, c).set = r.set \cup Applies(r.dev, c)
      BY DEF Op
    <3> QED BY <3>1, <3>2
  <2> QED BY <1>11, <2>1
<1>14. AppliesAll(d, commands) = u[n]
  BY <1>1, <1>7
<1> HIDE DEF t, u
<1>15. Runs(t, d, commands) /\ Noted(u, t, commands)
  BY <1>12, <1>13 DEF Runs, Noted, n
<1> QED BY <1>14, <1>15 DEF n

(* An answer that is true of some settings is true of more. *)
LEMMA ConfirmingMore ==
  ASSUME NEW A, NEW B, A \subseteq B
  PROVE  Confirming(A) \subseteq Confirming(B)
BY DEF Confirming

(* The elements of a list with one more. *)
LEMMA Appended ==
  ASSUME NEW S, NEW s \in Seq(S), NEW a \in S, NEW i \in DOMAIN Append(s, a)
  PROVE  Append(s, a)[i] = a \/ (i \in DOMAIN s /\ Append(s, a)[i] = s[i])
<1> DEFINE u == Append(s, a)
<1>1. Len(s) \in Nat /\ DOMAIN s = 1..Len(s)
  OBVIOUS
<1>2. /\ DOMAIN u = 1..Len(s) + 1 /\ u[Len(s) + 1] = a
      /\ \A j \in 1..Len(s) : u[j] = s[j]
  BY AppendProperties
<1> HIDE DEF u
<1>3. i \in 1..Len(s) + 1
  BY <1>2 DEF u
<1>4. u[i] = a \/ (i \in DOMAIN s /\ u[i] = s[i])
  BY <1>1, <1>2, <1>3
<1> QED BY <1>4 DEF u

(* Whatever commands arrive, the settings stay coherent, and the answers    *)
(* confirm no more than the commands apply - to a device that differs in    *)
(* what the commands do not depend on.                                      *)
LEMMA ExecuteAllKeeps ==
  ASSUME NEW d, Coherent(d), NEW e, Coherent(e), Alike(e, d),
         NEW A, \A i \in DOMAIN d.answers : d.answers[i] \in Confirming(A),
         NEW commands \in Seq(Sound)
  PROVE  LET r == ExecuteAll(d, commands) IN
         /\ Coherent(r)
         /\ \A i \in DOMAIN r.answers :
              r.answers[i] \in Confirming(A \cup AppliesAll(e, commands))
<1> DEFINE n == Len(commands)
<1>1. n \in Nat /\ \A k \in 1..n : commands[k] \in Sound
  OBVIOUS
<1>2. PICK t : Runs(t, d, commands) /\ ExecuteAll(d, commands) = t[n]
  BY ExecuteAllSteps
<1>3. PICK x, u : Runs(x, e, commands) /\ Noted(u, x, commands) /\ AppliesAll(e, commands) = u[n]
  BY AppliesAllSteps
<1> DEFINE Inv(k) ==
             /\ Coherent(t[k]) /\ Coherent(x[k]) /\ Alike(x[k], t[k])
             /\ \A i \in DOMAIN t[k].answers : t[k].answers[i] \in Confirming(A \cup u[k])
           Good == {k \in 0..n : Inv(k)}
<1>4. 0 \in Good
  <2>1. t[0] = d /\ x[0] = e
    BY <1>2, <1>3 DEF Runs
  <2>2. Confirming(A) \subseteq Confirming(A \cup u[0])
    BY ConfirmingMore
  <2>3. Inv(0)
    BY <2>1, <2>2
  <2> HIDE DEF Inv
  <2> QED BY <1>1, <2>3
<1>5. ASSUME NEW k \in Nat, k < n, k \in Good PROVE k + 1 \in Good
  <2>1. Inv(k)
    BY <1>5
  <2> DEFINE c == commands[k + 1]
  <2>2. k + 1 \in 1..n /\ (k + 1) - 1 = k
    BY <1>1, <1>5
  <2>3. c \in Sound
    BY <1>1, <2>2
  <2>4. t[k + 1] = Execute(t[k], c) /\ x[k + 1] = Execute(x[k], c)
    BY <1>2, <1>3, <2>2 DEF Runs
  <2>5. u[k + 1] = u[k] \cup Applies(x[k], c)
    BY <1>3, <2>2 DEF Noted
  <2> HIDE DEF c, n
  <2>6. Coherent(t[k + 1]) /\ Coherent(x[k + 1]) /\ Alike(x[k + 1], t[k + 1])
    BY <2>1, <2>3, <2>4, ExecuteKeeps
  <2>7. A \cup u[k] \subseteq A \cup u[k + 1]
    BY <2>5
  <2>8. Confirming(A \cup u[k]) \subseteq Confirming(A \cup u[k + 1])
    BY <2>7, ConfirmingMore
  <2>9. \A i \in DOMAIN t[k + 1].answers :
          t[k + 1].answers[i] \in Confirming(A \cup u[k + 1])
    <3>1. CASE t[k + 1] = t[k]
      BY <2>1, <2>8, <3>1
    <3>2. ASSUME NEW a, Answered(t[k + 1], t[k], c, a)
          PROVE  \A i \in DOMAIN t[k + 1].answers :
                   t[k + 1].answers[i] \in Confirming(A \cup u[k + 1])
      <4>1. t[k].answers \in Seq(ToBase) /\ t[k + 1].answers = Append(t[k].answers, a)
        BY <2>1, <3>2 DEF Coherent, Answered
      <4>2. a \in ToBase /\ AboutAll(a) \subseteq Applies(x[k], c)
        BY <2>1, <3>2 DEF Answered
      <4>3. a \in Confirming(A \cup u[k + 1])
        BY <2>5, <4>2 DEF Confirming
      <4>4. ASSUME NEW i \in DOMAIN t[k + 1].answers
            PROVE  \/ t[k + 1].answers[i] = a
                   \/ /\ i \in DOMAIN t[k].answers
                      /\ t[k + 1].answers[i] = t[k].answers[i]
        BY <4>1, <4>2, <4>4, Appended
      <4> HIDE DEF Inv
      <4>5. \A i \in DOMAIN t[k].answers : t[k].answers[i] \in Confirming(A \cup u[k])
        BY <2>1 DEF Inv
      <4> QED BY <2>8, <4>3, <4>4, <4>5
    <3>3. t[k + 1] = t[k] \/ \E a : Answered(t[k + 1], t[k], c, a)
      BY <2>1, <2>3, <2>4, ExecuteKeeps
    <3> HIDE DEF Inv
    <3> QED BY <3>1, <3>2, <3>3
  <2>10. Inv(k + 1)
    BY <2>6, <2>9
  <2>11. k + 1 \in 0..n
    BY <1>1, <2>2
  <2> HIDE DEF Inv
  <2> QED BY <2>10, <2>11
<1> HIDE DEF Good
<1>6. n \in Good
  <2> HIDE DEF n
  <2>1. \A k \in 0..n : k \in Good
    BY <1>1, <1>4, <1>5, UpTo
  <2> QED BY <1>1, <2>1
<1>7. Inv(n)
  <2> HIDE DEF Inv
  <2> QED BY <1>6 DEF Good
<1> QED BY <1>2, <1>3, <1>7

(* The other steps of a device. *)
LEMMA SnrKeeps ==
  ASSUME NEW d, Coherent(d), NEW v \in Int
  PROVE  Keeps([d EXCEPT !.snr = v], d)
BY OthersKeep

(* Sending the answers leaves the rest. *)
LEMMA EmptyKeeps ==
  ASSUME NEW d, Coherent(d)
  PROVE  LET r == [d EXCEPT !.answers = <<>>] IN
         Coherent(r) /\ r.answers = <<>>
<1> DEFINE r == [d EXCEPT !.answers = <<>>]
<1>2. /\ DOMAIN r = DeviceFields
      /\ r.frequencies = d.frequencies /\ r.available = d.available /\ r.datarate = d.datarate
      /\ r.maxDatarate = d.maxDatarate /\ r.minDatarate = d.minDatarate
      /\ r.freeing = d.freeing /\ r.freeChannel = d.freeChannel
      /\ r.powerIndex = d.powerIndex /\ r.answers = <<>> /\ r.snr = d.snr
      /\ r.energy = d.energy
  BY DEF Coherent, DeviceFields
<1>3. <<>> \in Seq(ToBase)
  OBVIOUS
<1> HIDE DEF r
<1>4. Coherent(r)
  BY <1>2, <1>3 DEF Coherent
<1> QED BY <1>2, <1>4 DEF r

(* A channel that rests is not available but stays a channel. *)
LEMMA RestKeeps ==
  ASSUME NEW d, Coherent(d), NEW i \in FreeChannels(d)
  PROVE  Coherent(Rest(d, i)) /\ Rest(d, i).answers = d.answers
<1> DEFINE r == Rest(d, i)
           avail == [d.available EXCEPT ![i] = FALSE]
           more == [d.freeing EXCEPT ![i] = @ + 1]
<1>1. i \in Slots /\ d.available[i]
  BY DEF FreeChannels
<1>2. avail \in [Slots -> BOOLEAN]
  BY DEF Coherent
<1>3. more \in [Slots -> Int]
  <2>1. d.freeing \in [Slots -> Int] /\ d.freeing[i] + 1 \in Int
    BY <1>1 DEF Coherent
  <2> QED BY <1>1, <2>1
<1>4. /\ DOMAIN r = DeviceFields
      /\ r.frequencies = d.frequencies /\ r.available = avail /\ r.datarate = d.datarate
      /\ r.maxDatarate = d.maxDatarate /\ r.minDatarate = d.minDatarate
      /\ r.freeing = more /\ r.freeChannel = i
      /\ r.powerIndex = d.powerIndex /\ r.answers = d.answers /\ r.snr = d.snr
      /\ r.energy = d.energy
  BY DEF Coherent, DeviceFields, Rest
<1>5. \A j \in Slots : avail[j] \/ more[j] > 0 => d.frequencies[j] # 0
  <2> TAKE j \in Slots
  <2>1. CASE j = i
    BY <1>1, <2>1 DEF Coherent
  <2>2. CASE j # i
    <3>1. avail[j] = d.available[j] /\ more[j] = d.freeing[j]
      BY <2>2 DEF Coherent
    <3> QED BY <3>1 DEF Coherent
  <2> QED BY <2>1, <2>2
<1> HIDE DEF r, avail, more
<1>6. Coherent(r)
  BY <1>1, <1>2, <1>3, <1>4, <1>5 DEF Coherent
<1> QED BY <1>4, <1>6 DEF r

(* Falling back to a slower rate keeps the settings. *)
LEMMA SlowerKeeps ==
  ASSUME NEW d, Coherent(d)
  PROVE  Keeps(Slower(d), d)
<1> DEFINE r == Slower(d)
           rates == [i \in Slots |-> IF d.datarate[i] > d.minDatarate[i] THEN d.datarate[i] - 1
                                                                         ELSE d.datarate[i]]
<1>1. /\ rates \in [Slots -> Nat]
      /\ \A i \in Slots : rates[i] <= d.datarate[i]
  <2>1. ASSUME NEW i \in Slots
        PROVE  rates[i] \in Nat /\ rates[i] <= d.datarate[i]
    <3>1. PICK p \in Nat, q \in Nat : p = d.datarate[i] /\ q = d.minDatarate[i]
      BY DEF Coherent
    <3>2. (IF p > q THEN p - 1 ELSE p) \in Nat /\ (IF p > q THEN p - 1 ELSE p) <= p
      BY ONLY SMT
    <3> QED BY <3>1, <3>2
  <2> QED BY <2>1
<1>2. \A i \in Slots : rates[i] <= d.maxDatarate[i]
  BY <1>1 DEF Coherent
<1>3. r = [d EXCEPT !.datarate = rates]
  BY DEF Slower
<1> HIDE DEF rates, r
<1>4. /\ DOMAIN r = DeviceFields
      /\ r.frequencies = d.frequencies /\ r.available = d.available /\ r.datarate = rates
      /\ r.maxDatarate = d.maxDatarate /\ r.minDatarate = d.minDatarate
      /\ r.freeing = d.freeing /\ r.freeChannel = d.freeChannel
      /\ r.powerIndex = d.powerIndex /\ r.answers = d.answers /\ r.snr = d.snr
      /\ r.energy = d.energy
  BY <1>3 DEF Coherent, DeviceFields
<1>5. Coherent(r)
  BY <1>1, <1>2, <1>4 DEF Coherent
<1> QED BY <1>4, <1>5 DEF Keeps, r

(* Freeing a channel that waits makes a channel with a frequency usable. *)
LEMMA FreeKeeps ==
  ASSUME NEW d, Coherent(d), NEW i \in Slots, NEW last, MayFree(d, i, last)
  PROVE  Coherent(FreeChannel(d, i, last)) /\ FreeChannel(d, i, last).answers = d.answers
<1> DEFINE r == FreeChannel(d, i, last)
           avail == [d.available EXCEPT ![i] = TRUE]
           fewer == [d.freeing EXCEPT ![i] = @ - 1]
           channel == IF last THEN NoSlot ELSE d.freeChannel
<1>1. d.freeing[i] > 0 /\ d.frequencies[i] # 0
  BY DEF MayFree, Coherent
<1>2. avail \in [Slots -> BOOLEAN]
  BY DEF Coherent
<1>3. fewer \in [Slots -> Int]
  BY DEF Coherent
<1>4. channel \in Slots \cup {NoSlot}
  BY DEF Coherent
<1>5. \A j \in Slots : avail[j] \/ fewer[j] > 0 => d.frequencies[j] # 0
  <2> TAKE j \in Slots
  <2>1. CASE j = i
    BY <1>1, <2>1
  <2>2. CASE j # i
    <3>1. avail[j] = d.available[j] /\ fewer[j] = d.freeing[j]
      BY <2>2 DEF Coherent
    <3> QED BY <3>1 DEF Coherent
  <2> QED BY <2>1, <2>2
<1>6. /\ DOMAIN r = DeviceFields
      /\ r.frequencies = d.frequencies /\ r.available = avail /\ r.datarate = d.datarate
      /\ r.maxDatarate = d.maxDatarate /\ r.minDatarate = d.minDatarate
      /\ r.freeing = fewer /\ r.freeChannel = channel
      /\ r.powerIndex = d.powerIndex /\ r.answers = d.answers /\ r.snr = d.snr
      /\ r.energy = d.energy
  BY DEF Coherent, DeviceFields, FreeChannel
<1> HIDE DEF r, avail, fewer, channel
<1>7. Coherent(r)
  BY <1>2, <1>3, <1>4, <1>5, <1>6 DEF Coherent
<1> QED BY <1>6, <1>7 DEF r

(* A new device is coherent and has nothing to answer. *)
LEMMA NewDeviceCoherent ==
  ASSUME NEW energy \in 0..100 \cup {NoSource}
  PROVE  Coherent(NewDevice(energy)) /\ NewDevice(energy).answers = <<>>
<1> DEFINE r == NewDevice(energy)
           freqs == [i \in Slots |-> IF i > 5 THEN 0 ELSE 8681000 + 2000 * (i % 3)]
           avail == [i \in Slots |-> i < 3]
           fives == [i \in Slots |-> 5]
           zeros == [i \in Slots |-> 0]
<1>1. freqs \in [Slots -> Nat] /\ \A i \in Slots : i < 3 => freqs[i] # 0
  BY SMT DEF Slots
<1>2. avail \in [Slots -> BOOLEAN] /\ fives \in [Slots -> Nat] /\ zeros \in [Slots -> Nat]
      /\ zeros \in [Slots -> Int]
  BY SMT
<1>3. <<>> \in Seq(ToBase)
  BY SMT
<1>4. /\ DOMAIN r = DeviceFields
      /\ r.frequencies = freqs /\ r.available = avail /\ r.datarate = fives
      /\ r.maxDatarate = fives /\ r.minDatarate = zeros
      /\ r.freeing = zeros /\ r.freeChannel = NoSlot
      /\ r.powerIndex = 1 /\ r.answers = <<>> /\ r.snr = 0 /\ r.energy = energy
  <2> HIDE DEF freqs
  <2> QED BY SMT DEF NewDevice, DeviceFields, freqs
<1>5. /\ \A i \in Slots : fives[i] <= fives[i]
      /\ \A i \in Slots : avail[i] \/ zeros[i] > 0 => freqs[i] # 0
  <2> HIDE DEF freqs
  <2>1. \A i \in Slots : fives[i] = 5 /\ zeros[i] = 0 /\ (avail[i] <=> i < 3)
    OBVIOUS
  <2> QED BY <1>1, <2>1
<1> HIDE DEF r, freqs, avail, fives, zeros
<1>6. 1 \in PowerIndices
  BY DEF PowerIndices
<1>7. Coherent(r)
  BY <1>1, <1>2, <1>3, <1>4, <1>5, <1>6 DEF Coherent
<1> QED BY <1>4, <1>7 DEF r

(* The bytes of a header alone. *)
LEMMA HeaderInBytes ==
  ASSUME NEW direction \in Directions, NEW h \in Headers(direction)
  PROVE  SerializeHeader(h) \in Seq(Byte)
<1> DEFINE a == GetMacHeader(h)
           f == GetFrameControl(h)
           body == Body(h.commands)
<1>1. h \in Fields(direction) /\ GetCommandsLength(h) < 16
  BY DEF Headers
<1>2. /\ h.type \in {3, 4, 5} /\ h.version = 0 /\ h.adaptive \in {0, 1}
      /\ h.adrAckReq \in BOOLEAN /\ h.ack \in BOOLEAN /\ h.pending \in BOOLEAN
      /\ h.port \in Byte /\ h.addr \in Seq(Byte)
      /\ h.commands \in Seq(OnAirCommands(direction)) /\ h.type # BEACON
      /\ h.counter \in 0..2^16 - 1
      /\ GetCommandsLength(h) = Length(h.commands) /\ Length(h.commands) \in Nat
  BY <1>1, FieldsOf
<1>3. body \in Seq(Byte)
  <2>1. h.commands \in OnAirSequences
    BY <1>2, OnAirSubset
  <2>2. PICK g : AddsUp(g, h.commands)
    BY <2>1, LengthSteps
  <2> QED BY <2>1, <2>2, CommandBytes
<1>4. PICK y, z \in Byte : U16(h.counter) = <<y, z>>
  BY <1>2, U16Read
<1>5. a \in Byte
  <2>1. a = 32 * Bits(h.type, 0, 3) + Bits(0, 0, 2)
    BY <1>2 DEF GetMacHeader
  <2> HIDE DEF a
  <2> QED BY <1>2, <2>1, FirstByte
<1>6. f \in Byte
  <2>1. Length(h.commands) \in 0..15
    BY <1>1, <1>2, SMTT(30)
  <2>2. f = Control(h.adaptive, h.adrAckReq, h.ack, h.pending, Length(h.commands))
    BY <1>2 DEF GetFrameControl, Control
  <2> HIDE DEF f
  <2>3. Controls(f, h.adaptive, h.adrAckReq, h.ack, h.pending, Length(h.commands))
    BY <1>2, <2>1, <2>2, ControlByte, ZenonT(60)
  <2> QED BY <2>3 DEF Controls
<1>7. SerializeHeader(h)
        = <<a>> \o h.addr \o <<f>> \o <<y, z>> \o <<>> \o body \o <<h.port>>
  <2>1. SerializeChannels(h) = <<>>
    BY <1>2 DEF SerializeChannels, IsBeacon
  <2>2. SerializeCommands(h) = body
    BY DEF SerializeCommands, Body
  <2> HIDE DEF a, f, body
  <2> QED BY <1>4, <2>1, <2>2, Zenon DEF SerializeHeader, a, f
<1> HIDE DEF a, f, body
<1> QED BY ONLY <1>2, <1>3, <1>5, <1>6, <1>7, y \in Byte, z \in Byte

(* What is read from a packet. *)
LEMMA PacketRead ==
  ASSUME NEW direction \in Directions, NEW h \in Headers(direction), NEW rest \in Seq(Byte),
         ExchangeConstants
  PROVE  LET p == SerializeHeader(h) \o rest IN
         /\ p \in Seq(Byte) /\ p # NoPacket
         /\ Len(p) = HeaderSize(h) + Len(rest)
         /\ PeekHeader(p) = h /\ BytesRead(p) = HeaderSize(h) /\ AfterHeader(p) = rest
<1> DEFINE p == SerializeHeader(h) \o rest
<1>1. PeekHeader(p) = h
  BY HeadersReadBack
<1>2. p \in Seq(Byte) /\ Len(p) = 9 + Length(h.commands) + Len(rest)
  <2>1. ReadsAs(p, h, Length(h.commands), direction, rest)
    BY HeaderBytes
  <2> HIDE DEF p
  <2> QED BY <2>1, Zenon DEF ReadsAs
<1>3. HeaderSize(h) = 9 + Length(h.commands)
  <2>1. h \in Fields(direction)
    BY DEF Headers
  <2>2. h.type # BEACON /\ GetCommandsLength(h) = Length(h.commands)
        /\ Length(h.commands) \in Nat
    BY <2>1, FieldsOf
  <2> QED BY <2>2 DEF HeaderSize, IsBeacon
<1>4. BytesRead(p) = HeaderSize(h) /\ AfterHeader(p) = rest
  <2>1. "TOBASE" \in Directions /\ CONFIRMED_DATA_UP \in Types("TOBASE")
    BY DEF Directions, Types
  <2>2. 0 \in 0..2^16 - 1
    BY SMT
  <2>3. DefaultHeader(0) \in Fields("TOBASE")
    BY <2>1, <2>2, NewHeaderFields DEF DefaultHeader
  <2> HIDE DEF p
  <2>4. p = SerializeHeader(h) \o rest
    BY DEF p
  <2> QED BY <2>1, <2>3, <2>4, Deserialized
<1>5. p # NoPacket
  BY <1>2 DEF ExchangeConstants
<1> QED BY <1>1, <1>2, <1>3, <1>4, <1>5

(* What is read from a packet of H. *)
LEMMA IsPacketRead ==
  ASSUME NEW direction \in Directions, NEW H, H \subseteq Headers(direction),
         NEW rest \in Seq(Byte), NEW p, IsPacket(p, H, rest), ExchangeConstants
  PROVE  /\ p \in Seq(Byte) /\ p # NoPacket
         /\ PeekHeader(p) \in Headers(direction)
         /\ Len(p) = HeaderSize(PeekHeader(p)) + Len(rest)
         /\ BytesRead(p) = HeaderSize(PeekHeader(p)) /\ AfterHeader(p) = rest
         /\ p = SerializeHeader(PeekHeader(p)) \o rest
<1>1. PeekHeader(p) \in Headers(direction) /\ p = SerializeHeader(PeekHeader(p)) \o rest
  BY DEF IsPacket
<1> QED BY <1>1, PacketRead

(* Writing a header of H makes a packet of H. *)
LEMMA PacketMade ==
  ASSUME NEW direction \in Directions, NEW H, H \subseteq Headers(direction), NEW h \in H,
         NEW rest \in Seq(Byte), ExchangeConstants
  PROVE  /\ IsPacket(SerializeHeader(h) \o rest, H, rest)
         /\ SerializeHeader(h) \o rest # NoPacket
         /\ PeekHeader(SerializeHeader(h) \o rest) = h
<1>1. h \in Headers(direction)
  OBVIOUS
<1> QED BY <1>1, PacketRead DEF IsPacket

-----------------------------------------------------------------------------
(* The fixed parts *)

(* Parts of a number are bytes and numbers. *)
LEMMA LowBits ==
  ASSUME NEW x \in Nat
  PROVE  Bits(x, 0, 8) \in Byte /\ Bits(x, 8, 8) \in Byte /\ Bits(x, 16, 8) \in Byte
         /\ Bits(x, 24, 8) \in Byte /\ Bits(x, 0, 16) \in Nat /\ x \div 2^16 \in Nat
<1>1. Bits(x, 0, 8) \in Byte
  BY SMT DEF Bits, Byte
<1>2. Bits(x, 8, 8) \in Byte
  BY SMT DEF Bits, Byte
<1>3. Bits(x, 16, 8) \in Byte
  BY SMT DEF Bits, Byte
<1>4. Bits(x, 24, 8) \in Byte
  BY SMT DEF Bits, Byte
<1>5. Bits(x, 0, 16) \in Nat
  BY SMT DEF Bits
<1>6. x \div 2^16 \in Nat
  BY SMT
<1> QED BY <1>1, <1>2, <1>3, <1>4, <1>5, <1>6, Zenon

(* Numbers of 16 and 32 bits are two and four bytes. *)
LEMMA WordBytes ==
  ASSUME NEW x \in Nat
  PROVE  U16(x) \in Seq(Byte) /\ Len(U16(x)) = 2 /\ U32(x) \in Seq(Byte) /\ Len(U32(x)) = 4
<1>1. ASSUME NEW y \in Nat PROVE U16(y) \in Seq(Byte) /\ Len(U16(y)) = 2
  <2>1. PICK u, v \in Byte : U16(y) = <<u, v>>
    BY LowBits, Zenon DEF U16
  <2> QED BY <2>1
<1>2. U16(Bits(x, 0, 16)) \in Seq(Byte) /\ Len(U16(Bits(x, 0, 16))) = 2
  BY <1>1, LowBits
<1>3. U16(x \div 2^16) \in Seq(Byte) /\ Len(U16(x \div 2^16)) = 2
  BY <1>1, LowBits
<1>4. PICK s, t \in Seq(Byte) : s = U16(Bits(x, 0, 16)) /\ t = U16(x \div 2^16)
                                /\ Len(s) = 2 /\ Len(t) = 2
  BY <1>2, <1>3, Zenon
<1>5. U32(x) = s \o t
  BY <1>4, Zenon DEF U32
<1>6. s \o t \in Seq(Byte) /\ Len(s \o t) = 4
  <2>1. s \o t \in Seq(Byte) /\ Len(s \o t) = Len(s) + Len(t)
    BY ConcatProperties
  <2>2. Len(s) = 2 /\ Len(t) = 2
    BY <1>4, Zenon
  <2> QED BY ONLY <2>1, <2>2
<1> QED BY <1>1, <1>5, <1>6, Zenon

(* The payload, the trailers and the address have their lengths. *)
LEMMA FixedParts ==
  /\ Payload \in Seq(Byte) /\ Len(Payload) = 1
  /\ Trailer \in Seq(Byte) /\ Len(Trailer) = 7
  /\ Reception \in Seq(Byte) /\ Payload \o Reception \in Seq(Byte)
  /\ DevAddr \in Addresses
<1>1. Payload \in Seq(Byte) /\ Len(Payload) = 1
  BY DEF Payload, Byte
<1>2. Trailer \in Seq(Byte) /\ Len(Trailer) = 7
  <2> DEFINE f == 8695250
  <2>1. U32(f) \in Seq(Byte) /\ Len(U32(f)) = 4
    <3>1. f \in Nat
      BY SMT
    <3> QED BY <3>1, WordBytes
  <2> HIDE DEF f
  <2>2. Trailer = <<1, 0, 0>> \o U32(f)
    BY SMT DEF Trailer, NetworkTrailerBytes, Settings, NetworkTrailer, f
  <2>3. <<1, 0, 0>> \in Seq(Byte)
    BY DEF Byte
  <2>4. PICK s \in Seq(Byte) : s = U32(f) /\ Len(s) = 4
    BY <2>1
  <2>5. <<1, 0, 0>> \o s \in Seq(Byte) /\ Len(<<1, 0, 0>> \o s) = 7
    <3> DEFINE u == <<1, 0, 0>>
    <3>1. Len(u) = 3
      OBVIOUS
    <3> HIDE DEF u
    <3>2. u \o s \in Seq(Byte) /\ Len(u \o s) = Len(u) + Len(s)
      BY <2>3, ConcatProperties DEF u
    <3> QED BY <2>4, <3>1, <3>2 DEF u
  <2> QED BY <2>2, <2>4, <2>5, Zenon
<1>3. Reception \in Seq(Byte)
  <2> DEFINE b == 125000
             f == 8681000
             strength == [i \in 1..8 |-> Strength]
  <2>1. U32(b) \in Seq(Byte) /\ U32(f) \in Seq(Byte) /\ U32(0) \in Seq(Byte)
    <3>1. b \in Nat /\ f \in Nat /\ 0 \in Nat
      BY SMT
    <3> QED BY <3>1, WordBytes
  <2> HIDE DEF b, f
  <2>2. strength \in Seq(Byte) /\ <<12>> \in Seq(Byte)
    BY DEF Strength, Byte
  <2> HIDE DEF strength
  <2>3. Reception = strength \o U32(0) \o <<12>> \o U32(b) \o U32(f)
    BY SMT DEF Reception, GwTrailerBytes, GwTrailer, b, f, strength
  <2>4. \A s, t \in Seq(Byte) : s \o t \in Seq(Byte)
    OBVIOUS
  <2>5. strength \o U32(0) \in Seq(Byte)
    BY <2>1, <2>2, <2>4, Zenon
  <2>6. strength \o U32(0) \o <<12>> \in Seq(Byte)
    BY <2>2, <2>4, <2>5, Zenon
  <2>7. strength \o U32(0) \o <<12>> \o U32(b) \in Seq(Byte)
    BY <2>1, <2>4, <2>6, Zenon
  <2>8. strength \o U32(0) \o <<12>> \o U32(b) \o U32(f) \in Seq(Byte)
    BY <2>1, <2>4, <2>7, Zenon
  <2> QED BY <2>3, <2>8, Zenon
<1>4. DevAddr \in Addresses
  <2>1. 2 \in Nat
    OBVIOUS
  <2>2. PICK s, t, u, v \in Byte : DevAddr = <<s, t, u, v>>
    BY <2>1, LowBits, Zenon DEF DevAddr, Allocate
  <2>3. <<s, t, u, v>> \in Seq(Byte) /\ Len(<<s, t, u, v>>) = 4
    OBVIOUS
  <2> QED BY <2>2, <2>3, Zenon DEF Addresses
<1>5. Payload \o Reception \in Seq(Byte)
  BY <1>1, <1>3
<1> QED BY <1>1, <1>2, <1>3, <1>4, <1>5, Zenon

(* The radio's header comes off as it went on, and so does the trailer. *)
LEMMA PhyHeaderOff ==
  ASSUME NEW s \in Seq(Byte)
  PROVE  AfterPhyHeader(OnAir(s)) = s
<1> DEFINE pre == [i \in 1..10 |-> 8]
           b == pre \o s
<1>1. PhyHeaderSize = 10 /\ PhyHeaderBytes = pre
  BY DEF PhyHeaderSize, PhyHeader, PhyHeaderBytes
<1>2. pre \in Seq(Byte) /\ Len(pre) = 10
  BY DEF Byte
<1> HIDE DEF pre
<1>3. b \in Seq(Byte) /\ Len(b) = 10 + Len(s) /\ \A j \in 1..Len(s) : b[10 + j] = s[j]
  <2>1. b \in Seq(Byte) /\ Joins(b, pre, s)
    BY <1>2, ConcatParts
  <2> HIDE DEF b
  <2> QED BY <1>2, <2>1 DEF Joins
<1> HIDE DEF b
<1>4. SubSeq(b, 11, Len(b)) = s
  <2> DEFINE t == SubSeq(b, 11, Len(b))
  <2>1. Len(s) \in Nat
    OBVIOUS
  <2>2. t \in Seq(Byte) /\ Len(t) = Len(s) /\ \A j \in 1..Len(s) : t[j] = b[10 + j]
    BY <1>3, <2>1
  <2> HIDE DEF t
  <2> QED BY <1>3, <2>2 DEF t
<1> QED BY <1>1, <1>4 DEF AfterPhyHeader, OnAir, b

(* Removing the network's trailer leaves what is before it. *)
LEMMA TrailerOff ==
  ASSUME NEW s \in Seq(Byte), NEW t \in Seq(Byte), Len(t) = 7
  PROVE  AfterNetworkTrailer(s \o t) = s
<1> DEFINE b == s \o t
<1>1. Len(s) \in Nat /\ b \in Seq(Byte) /\ Len(b) = Len(s) + 7
      /\ \A j \in 1..Len(s) : b[j] = s[j]
  <2>1. b \in Seq(Byte) /\ Joins(b, s, t)
    BY ConcatParts
  <2> HIDE DEF b
  <2> QED BY <2>1 DEF Joins
<1> HIDE DEF b
<1>2. SubSeq(b, 1, Len(s)) = s
  <2> DEFINE u == SubSeq(b, 1, Len(s))
  <2>1. u \in Seq(Byte) /\ Len(u) = Len(s) /\ \A j \in 1..Len(s) : u[j] = b[j]
    BY <1>1
  <2> HIDE DEF u
  <2> QED BY <1>1, <2>1 DEF u
<1>3. Len(b) - NetworkTrailerSize = Len(s)
  BY <1>1 DEF NetworkTrailerSize
<1> QED BY <1>2, <1>3 DEF AfterNetworkTrailer, b

-----------------------------------------------------------------------------
(* The headers that are made *)

(* What the constants and the types are. *)
LEMMA Constants ==
  /\ "TOBASE" \in Directions /\ "FROMBASE" \in Directions
  /\ CONFIRMED_DATA_UP \in Types("TOBASE")
  /\ UNCONFIRMED_DATA_DOWN \in Types("FROMBASE") /\ CONFIRMED_DATA_DOWN \in Types("FROMBASE")
  /\ 0 \in 0..2^16 - 1 /\ 1 \in 0..2^16 - 1
  /\ Sound \subseteq OnAirCommands("FROMBASE")
  /\ \A A : Confirming(A) \subseteq OnAirCommands("TOBASE")
  /\ StrayBits \subseteq {0, 1}
<1>1. "TOBASE" \in Directions /\ "FROMBASE" \in Directions
  BY DEF Directions
<1>2. /\ CONFIRMED_DATA_UP \in Types("TOBASE")
      /\ UNCONFIRMED_DATA_DOWN \in Types("FROMBASE") /\ CONFIRMED_DATA_DOWN \in Types("FROMBASE")
  BY DEF Types
<1>3. 0 \in 0..2^16 - 1 /\ 1 \in 0..2^16 - 1
  BY SMT
<1>4. Sound \subseteq OnAirCommands("FROMBASE")
  BY DEF Sound, OnAirCommands
<1>5. \A A : Confirming(A) \subseteq OnAirCommands("TOBASE")
  BY DEF Confirming, OnAirCommands
<1>6. StrayBits \subseteq {0, 1}
  BY ExchangeConstants DEF ExchangeConstants
<1> QED BY <1>1, <1>2, <1>3, <1>4, <1>5, <1>6, Zenon

(* What the setters do, one by one. *)
LEMMA Setters ==
  ASSUME NEW direction \in Directions, NEW h \in Fields(direction)
  PROVE  /\ \A v \in Types(direction) :
              /\ SetType(h, v) \in Fields(direction) /\ SetType(h, v).type = v
              /\ SetType(h, v).addr = h.addr /\ SetType(h, v).commands = h.commands
         /\ \A v \in Byte :
              /\ SetPort(h, v) \in Fields(direction) /\ SetPort(h, v).type = h.type
              /\ SetPort(h, v).addr = h.addr /\ SetPort(h, v).commands = h.commands
         /\ \A v \in Addresses :
              /\ SetAddr(h, v) \in Fields(direction) /\ SetAddr(h, v).type = h.type
              /\ SetAddr(h, v).addr = v /\ SetAddr(h, v).commands = h.commands
         /\ \A v \in Nat :
              /\ SetFrmCounter(h, v) \in Fields(direction)
              /\ SetFrmCounter(h, v).addr = h.addr
              /\ SetFrmCounter(h, v).commands = h.commands
         /\ /\ SetAdrAck(h) \in Fields(direction) /\ SetAdrAck(h).addr = h.addr
            /\ SetAdrAck(h).commands = h.commands
         /\ /\ SetAck(h) \in Fields(direction) /\ SetAck(h).addr = h.addr
            /\ SetAck(h).commands = h.commands
<1>1. \A v \in Types(direction) :
        /\ SetType(h, v) \in Fields(direction) /\ SetType(h, v).type = v
        /\ SetType(h, v).addr = h.addr /\ SetType(h, v).commands = h.commands
  BY FieldsSet, SMTT(30)
<1>2. \A v \in Byte :
        /\ SetPort(h, v) \in Fields(direction) /\ SetPort(h, v).type = h.type
        /\ SetPort(h, v).addr = h.addr /\ SetPort(h, v).commands = h.commands
  BY FieldsSet, SMTT(30)
<1>3. \A v \in Addresses :
        /\ SetAddr(h, v) \in Fields(direction) /\ SetAddr(h, v).type = h.type
        /\ SetAddr(h, v).addr = v /\ SetAddr(h, v).commands = h.commands
  BY FieldsSet, SMTT(30)
<1>4. \A v \in Nat :
        /\ SetFrmCounter(h, v) \in Fields(direction)
        /\ SetFrmCounter(h, v).addr = h.addr
        /\ SetFrmCounter(h, v).commands = h.commands
  BY FieldsSet, ZenonT(60)
<1>5. /\ SetAdrAck(h) \in Fields(direction) /\ SetAdrAck(h).addr = h.addr
      /\ SetAdrAck(h).commands = h.commands
  BY FieldsSet, SMTT(30)
<1>6. /\ SetAck(h) \in Fields(direction) /\ SetAck(h).addr = h.addr
      /\ SetAck(h).commands = h.commands
  BY FieldsSet, SMTT(30)
<1> QED BY <1>1, <1>2, <1>3, <1>4, <1>5, <1>6, Zenon

(* A header without commands is one of any. *)
LEMMA BareHeader ==
  ASSUME NEW direction \in Directions, NEW h \in Fields(direction), h.commands = <<>>,
         NEW addr, h.addr = addr, NEW C
  PROVE  h \in Bearing(direction, addr, C)
<1>1. GetCommandsLength(h) = 0
  <2>1. GetCommandsLength(h) = Length(h.commands)
    BY FieldsOf
  <2> QED BY <2>1, LengthOfNone
<1>2. DOMAIN h.commands = {}
  OBVIOUS
<1> QED BY <1>1, <1>2 DEF Bearing, Headers

(* The header of a new frame of the device. *)
LEMMA DataHeader ==
  ASSUME NEW adr \in {0, 1}
  PROVE  LET h == SetPort(SetAddr(NewHeader(CONFIRMED_DATA_UP, 1, adr), DevAddr), 1)
         IN h \in Fields("TOBASE") /\ h.commands = <<>> /\ h.addr = DevAddr
<1> DEFINE h1 == NewHeader(CONFIRMED_DATA_UP, 1, adr)
           h2 == SetAddr(h1, DevAddr)
           h3 == SetPort(h2, 1)
<1>1. h1 \in Fields("TOBASE") /\ h1.commands = <<>>
  <2>1. "TOBASE" \in Directions /\ CONFIRMED_DATA_UP \in Types("TOBASE")
    BY Constants
  <2>2. 1 \in 0..2^16 - 1
    BY SMT
  <2> QED BY <2>1, <2>2, NewHeaderFields
<1> HIDE DEF h1
<1>2. h2 \in Fields("TOBASE") /\ h2.commands = <<>> /\ h2.addr = DevAddr
  <2>1. \A v \in Addresses : SetAddr(h1, v) \in Fields("TOBASE") /\ SetAddr(h1, v).addr = v
                             /\ SetAddr(h1, v).commands = h1.commands
    BY <1>1, Constants, Setters, Zenon
  <2> QED BY <1>1, <2>1, FixedParts
<1> HIDE DEF h2
<1>3. h3 \in Fields("TOBASE") /\ h3.commands = <<>> /\ h3.addr = DevAddr
  <2>1. 1 \in Byte
    BY DEF Byte
  <2>2. \A v \in Byte : SetPort(h2, v) \in Fields("TOBASE") /\ SetPort(h2, v).addr = h2.addr
                        /\ SetPort(h2, v).commands = h2.commands
    BY <1>2, Constants, Setters, Zenon
  <2> QED BY <1>2, <2>1, <2>2
<1> HIDE DEF h3
<1> QED BY <1>3 DEF h3, h2, h1

(* The header of a new frame bears the answers that fit: all of them, if    *)
(* they fit together.                                                       *)
LEMMA NewFrameMade ==
  ASSUME NEW adr \in {0, 1}, NEW n \in Nat, n = seqNum, NEW adrAck \in BOOLEAN, NEW A,
         NEW answers \in Seq(Confirming(A))
  PROVE  LET p == WithAnswers(DataFrame(adr), answers, adrAck) IN
         /\ IsPacket(p, Uplinks(A), Payload)
         /\ p # NoPacket
         /\ Length(answers) < 16 => PeekHeader(p).commands = answers
<1> DEFINE h == SetPort(SetAddr(NewHeader(CONFIRMED_DATA_UP, 1, adr), DevAddr), 1)
           frame == DataFrame(adr)
           numbered == SetFrmCounter(h, n)
           asking == IF adrAck THEN SetAdrAck(numbered) ELSE numbered
           full == SetMacCommands(asking, answers)
<1>1. h \in Fields("TOBASE") /\ h.commands = <<>> /\ h.addr = DevAddr
  BY DataHeader
<1>2. frame = SerializeHeader(h) \o Payload
  BY DEF DataFrame
<1> HIDE DEF h, frame
<1>3. h \in Headers("TOBASE")
  BY <1>1, BareHeader, Constants DEF Bearing
<1>4. PeekHeader(frame) = h /\ AfterHeader(frame) = Payload
  BY <1>2, <1>3, Constants, FixedParts, PacketRead, ExchangeConstants
<1>5. numbered \in Fields("TOBASE") /\ numbered.commands = <<>> /\ numbered.addr = DevAddr
  <2>1. \A v \in Nat : /\ SetFrmCounter(h, v) \in Fields("TOBASE")
                       /\ SetFrmCounter(h, v).addr = h.addr
                       /\ SetFrmCounter(h, v).commands = h.commands
    BY <1>1, Constants, Setters, Zenon
  <2> QED BY <1>1, <2>1
<1> HIDE DEF numbered
<1>6. asking \in Fields("TOBASE") /\ asking.commands = <<>> /\ asking.addr = DevAddr
  <2>1. /\ SetAdrAck(numbered) \in Fields("TOBASE")
        /\ SetAdrAck(numbered).addr = numbered.addr
        /\ SetAdrAck(numbered).commands = numbered.commands
    BY <1>5, Constants, Setters, Zenon
  <2> QED BY <1>5, <2>1
<1> HIDE DEF asking
<1>7. asking \in Bearing("TOBASE", DevAddr, Confirming(A))
  BY <1>6, BareHeader, Constants
<1>8. full \in Uplinks(A)
  BY <1>7, CommandsAdded, Constants DEF Uplinks
<1>9. Length(answers) < 16 => full.commands = answers
  <2> SUFFICES ASSUME Length(answers) < 16 PROVE full.commands = answers
    OBVIOUS
  <2>1. answers \in Seq(OnAirCommands("TOBASE")) /\ answers \in OnAirSequences
    <3>1. answers \in Seq(OnAirCommands("TOBASE"))
      BY Constants
    <3> QED BY <3>1, Constants, OnAirSubset
  <2>2. Length(answers) \in Nat
    BY <2>1, LengthAppend, LengthSteps DEF AddsUp, OnAirSequences
  <2>3. Length(asking.commands) + Length(answers) < 16
    BY <1>6, <2>2, LengthOfNone
  <2>4. full = [asking EXCEPT !.commands = asking.commands \o answers]
    BY <1>6, <2>1, <2>3, Constants, CommandsFit
  <2>5. asking.commands \o answers = answers
    BY <1>6, <2>1
  <2>6. full = [asking EXCEPT !.commands = answers]
    BY <2>4, <2>5, Zenon
  <2> HIDE DEF full
  <2>7. [asking EXCEPT !.commands = answers].commands = answers
    BY <1>6, <2>1, Constants, CommandsSet
  <2> QED BY <2>6, <2>7
<1> HIDE DEF full
<1>10. WithAnswers(frame, answers, adrAck) = SerializeHeader(full) \o Payload
  BY <1>4, Zenon DEF WithAnswers, full, asking, numbered
<1>11. Uplinks(A) \subseteq Headers("TOBASE")
  BY DEF Uplinks, Bearing
<1>12. /\ IsPacket(SerializeHeader(full) \o Payload, Uplinks(A), Payload)
       /\ SerializeHeader(full) \o Payload # NoPacket
       /\ PeekHeader(SerializeHeader(full) \o Payload) = full
  BY <1>8, <1>11, Constants, FixedParts, PacketMade, ExchangeConstants
<1> QED BY <1>9, <1>10, <1>12, Zenon DEF frame

(* An ack has no commands yet. *)
LEMMA AckMade ==
  ASSUME NEW h \in Headers("TOBASE"), h.addr = DevAddr, NEW adr \in {0, 1}
  PROVE  /\ IsPacket(Ack(h, adr), Downlinks, Trailer) /\ Ack(h, adr) # NoPacket
         /\ PeekHeader(Ack(h, adr)).commands = <<>>
<1> DEFINE h1 == NewHeader(UNCONFIRMED_DATA_DOWN, h.counter, adr)
           h2 == SetAddr(h1, DevAddr)
           h3 == SetAck(h2)
<1>1. h.counter \in 0..2^16 - 1
  <2>1. h \in Fields("TOBASE")
    BY DEF Headers
  <2> QED BY <2>1, Constants, FieldsOf
<1>2. h1 \in Fields("FROMBASE") /\ h1.commands = <<>>
  <2>1. "FROMBASE" \in Directions /\ UNCONFIRMED_DATA_DOWN \in Types("FROMBASE")
    BY Constants
  <2> QED BY <1>1, <2>1, NewHeaderFields
<1> HIDE DEF h1
<1>3. h2 \in Fields("FROMBASE") /\ h2.commands = <<>> /\ h2.addr = DevAddr
  <2>1. \A v \in Addresses : SetAddr(h1, v) \in Fields("FROMBASE") /\ SetAddr(h1, v).addr = v
                             /\ SetAddr(h1, v).commands = h1.commands
    BY <1>2, Constants, Setters, Zenon
  <2> QED BY <1>2, <2>1, FixedParts
<1> HIDE DEF h2
<1>4. h3 \in Fields("FROMBASE") /\ h3.commands = <<>> /\ h3.addr = DevAddr
  <2>1. /\ SetAck(h2) \in Fields("FROMBASE") /\ SetAck(h2).addr = h2.addr
        /\ SetAck(h2).commands = h2.commands
    BY <1>3, Constants, Setters, Zenon
  <2> QED BY <1>3, <2>1
<1> HIDE DEF h3
<1>5. h3 \in Downlinks
  BY <1>4, BareHeader, Constants DEF Downlinks
<1>6. Ack(h, adr) = SerializeHeader(h3) \o Trailer
  BY Zenon DEF Ack, Trailer, h3, h2, h1
<1>7. Downlinks \subseteq Headers("FROMBASE")
  BY DEF Downlinks, Bearing
<1>8. /\ IsPacket(SerializeHeader(h3) \o Trailer, Downlinks, Trailer)
      /\ SerializeHeader(h3) \o Trailer # NoPacket
      /\ PeekHeader(SerializeHeader(h3) \o Trailer) = h3
  BY <1>5, <1>7, Constants, FixedParts, PacketMade, ExchangeConstants
<1> QED BY <1>4, <1>6, <1>8, Zenon

(* The header of an application's message. *)
LEMMA MessageHeader ==
  ASSUME NEW adr \in {0, 1}
  PROVE  LET h == SetType(SetAddr(DefaultHeader(adr), DevAddr), UNCONFIRMED_DATA_DOWN)
         IN h \in Fields("FROMBASE") /\ h.commands = <<>> /\ h.addr = DevAddr
            /\ h.type = UNCONFIRMED_DATA_DOWN
<1> DEFINE h1 == DefaultHeader(adr)
           h2 == SetAddr(h1, DevAddr)
           h == SetType(h2, UNCONFIRMED_DATA_DOWN)
           Numbers == 0..2^16 - 1
           Lists == Seq(OnAirCommands("TOBASE"))
           Others == Seq(OnAirCommands("FROMBASE"))
<1>1. h1 \in Fields("TOBASE") /\ h1.commands = <<>>
  <2>1. "TOBASE" \in Directions /\ CONFIRMED_DATA_UP \in Types("TOBASE")
    BY Constants
  <2>2. 0 \in 0..2^16 - 1
    BY SMT
  <2> QED BY <2>1, <2>2, NewHeaderFields DEF DefaultHeader
<1> HIDE DEF h1
<1>2. h2 \in Fields("TOBASE") /\ h2.commands = <<>> /\ h2.addr = DevAddr
  <2>1. \A v \in Addresses : SetAddr(h1, v) \in Fields("TOBASE") /\ SetAddr(h1, v).addr = v
                             /\ SetAddr(h1, v).commands = h1.commands
    BY <1>1, Constants, Setters, Zenon
  <2> QED BY <1>1, <2>1, FixedParts
<1> HIDE DEF h2
<1>3. h2 \in [type : Types("TOBASE"), version : {0}, adaptive : {0, 1}, adrAckReq : BOOLEAN,
              ack : BOOLEAN, pending : BOOLEAN, port : Byte, addr : Addresses,
              counter : Numbers, commands : Lists, channels : {<<>>}]
  BY <1>2 DEF Fields
<1>4. <<>> \in Others
  OBVIOUS
<1> HIDE DEF Numbers, Lists, Others
<1>5. h \in [type : Types("FROMBASE"), version : {0}, adaptive : {0, 1}, adrAckReq : BOOLEAN,
             ack : BOOLEAN, pending : BOOLEAN, port : Byte, addr : Addresses,
             counter : Numbers, commands : Others, channels : {<<>>}]
      /\ h.commands = <<>> /\ h.addr = DevAddr /\ h.type = UNCONFIRMED_DATA_DOWN
  <2>1. UNCONFIRMED_DATA_DOWN \in Types("FROMBASE")
    BY Constants
  <2> QED BY <1>2, <1>3, <1>4, <2>1 DEF SetType
<1> HIDE DEF h
<1>6. h \in Fields("FROMBASE")
  BY <1>5 DEF Fields, Numbers, Others
<1> QED BY <1>5, <1>6 DEF h, h2, h1

(* What an application may send. *)
LEMMA CommandLists ==
  ASSUME NEW command, \/ command = <<LinkCheckAns(GetMargin(Strength), 1)>>
                      \/ command = <<>>
                      \/ \E c \in Requests : command = <<c>>
  PROVE  command \in Seq(Sound) /\ Length(command) < 16
         /\ command \in Seq(OnAirCommands("FROMBASE"))
<1>1. command \in Seq(Sound) /\ (command = <<>> \/ \E c \in Sound : command = <<c>>)
  <2>1. CASE command = <<>>
    BY <2>1
  <2>2. CASE \E c \in Requests : command = <<c>>
    <3>1. Requests \subseteq Sound
      BY ExchangeConstants DEF ExchangeConstants, Sound
    <3> QED BY <2>2, <3>1
  <2>3. CASE command = <<LinkCheckAns(GetMargin(Strength), 1)>>
    <3>1. GetMargin(Strength) \in Byte /\ 1 \in Byte
      BY DEF GetMargin, Strength, Byte
    <3>2. LinkCheckAns(GetMargin(Strength), 1) \in Sound
      <4> DEFINE m == GetMargin(Strength)
      <4> HIDE DEF m
      <4>1. m \in Byte
        BY <3>1 DEF m
      <4>2. LinkCheckAns(m, 1) \in [kind : {"LinkCheckAns"}, margin : Byte, count : Byte]
        BY <3>1, <4>1 DEF LinkCheckAns
      <4>3. LinkCheckAns(m, 1).kind = "LinkCheckAns"
        BY DEF LinkCheckAns
      <4>4. LinkCheckAns(m, 1) \in FromBase
        BY <4>2, Zenon DEF FromBase
      <4> QED BY <4>3, <4>4 DEF Sound, m
    <3> DEFINE c == LinkCheckAns(GetMargin(Strength), 1)
    <3> HIDE DEF c
    <3> QED BY <2>3, <3>2 DEF c
  <2> QED BY <2>1, <2>2, <2>3
<1>2. command \in Seq(OnAirCommands("FROMBASE"))
  BY <1>1, Constants
<1>3. Length(command) < 16
  <2>1. CASE command = <<>>
    BY <2>1, LengthOfNone
  <2>2. ASSUME NEW c \in Sound, command = <<c>> PROVE Length(command) < 16
    <3>1. c \in ToBase \cup FromBase
      BY DEF Sound
    <3>2. <<>> \in OnAirSequences
      BY DEF OnAirSequences
    <3>3. Length(Append(<<>>, c)) = 0 + GetSerializedSize(c)
      BY <3>1, <3>2, LengthAppend, LengthOfNone
    <3>4. GetSerializedSize(c) \in 1..6
      BY <3>1, Sizes
    <3>5. Append(<<>>, c) = <<c>>
      OBVIOUS
    <3>6. Length(<<c>>) = 0 + GetSerializedSize(c)
      BY <3>3, <3>5, Zenon
    <3>7. PICK m \in 1..6 : m = GetSerializedSize(c)
      BY <3>4
    <3>8. Length(command) = 0 + m
      BY <2>2, <3>6, <3>7, Zenon
    <3> QED BY ONLY <3>8, m \in 1..6
  <2> QED BY <1>1, <2>1, <2>2
<1> QED BY <1>1, <1>2, <1>3

-----------------------------------------------------------------------------
(* Storing a message *)

(* Setting the commands of a header to what they are changes nothing. *)
LEMMA SameHeader ==
  ASSUME NEW direction \in Directions, NEW h \in Fields(direction)
  PROVE  [h EXCEPT !.commands = h.commands] = h
<1>1. /\ h = HeaderOf(h.type, h.version, h.adaptive, h.adrAckReq, h.ack, h.pending,
                      h.port, h.addr, h.counter, h.commands)
      /\ [h EXCEPT !.commands = h.commands]
           = HeaderOf(h.type, h.version, h.adaptive, h.adrAckReq, h.ack, h.pending,
                      h.port, h.addr, h.counter, h.commands)
  BY HeaderIs
<1> QED BY <1>1, Zenon

(* What of a header in transit is used. *)
LEMMA DownlinkFields ==
  ASSUME NEW h \in Downlinks
  PROVE  /\ h \in Headers("FROMBASE") /\ h \in Fields("FROMBASE") /\ h.addr = DevAddr
         /\ h.commands \in Seq(Sound) /\ h.commands \in Seq(OnAirCommands("FROMBASE"))
         /\ Length(h.commands) < 16 /\ GetDirection(h) = "FROMBASE" /\ h.port \in Byte
         /\ IsAcknowledgment(h)
<1>1. h \in Headers("FROMBASE") /\ h.addr = DevAddr /\ GetCommandsLength(h) < 16
      /\ h \in Fields("FROMBASE") /\ \A i \in DOMAIN h.commands : h.commands[i] \in Sound
  BY DEF Downlinks, Bearing, Headers
<1>2. /\ h.commands \in Seq(OnAirCommands("FROMBASE")) /\ GetDirection(h) = "FROMBASE"
      /\ GetCommandsLength(h) = Length(h.commands) /\ h.port \in Byte
  BY <1>1, Constants, FieldsOf
<1>3. h.commands \in Seq(Sound)
  <2> DEFINE s == h.commands
  <2>1. s \in Seq(OnAirCommands("FROMBASE")) /\ \A i \in DOMAIN s : s[i] \in Sound
    BY <1>1, <1>2
  <2> HIDE DEF s
  <2>2. s \in Seq(Sound)
    BY <2>1
  <2> QED BY <2>2 DEF s
<1>4. h.type \in Types("FROMBASE")
  <2> DEFINE Numbers == 0..2^16 - 1
             Lists == Seq(OnAirCommands("FROMBASE"))
  <2>1. h \in [type : Types("FROMBASE"), version : {0}, adaptive : {0, 1}, adrAckReq : BOOLEAN,
               ack : BOOLEAN, pending : BOOLEAN, port : Byte, addr : Addresses,
               counter : Numbers, commands : Lists, channels : {<<>>}]
    BY <1>1 DEF Fields
  <2> HIDE DEF Numbers, Lists
  <2> QED BY <2>1
<1>5. IsAcknowledgment(h)
  BY <1>4 DEF Types, IsAcknowledgment
<1> QED BY <1>1, <1>2, <1>3, <1>5, Zenon

(* What is merged into a stored message can be written, and its commands    *)
(* are those of the message when the stored one has none.                   *)
LEMMA MergeKeeps ==
  ASSUME NEW h \in Downlinks, NEW m \in Downlinks, m.type = UNCONFIRMED_DATA_DOWN
  PROVE  /\ Merge(h, m) \in Downlinks
         /\ h.commands = <<>> => Merge(h, m).commands = m.commands
<1> DEFINE all == SetMacCommands(h, m.commands)
<1>1. GetDirection(h) = "FROMBASE" /\ GetDirection(m) = "FROMBASE" /\ h.addr = m.addr
      /\ m.commands \in Seq(Sound) /\ m.port \in Byte
  BY DownlinkFields
<1>2. GetType(m) # CONFIRMED_DATA_DOWN
  BY DEF GetType, UNCONFIRMED_DATA_DOWN, CONFIRMED_DATA_DOWN
<1>3. Merge(h, m) = IF h.port = 0 THEN SetPort(all, m.port) ELSE all
  <2> HIDE DEF all
  <2> QED BY <1>1, <1>2 DEF Merge, all
<1>4. all \in Downlinks
  BY <1>1, CommandsAdded, Constants DEF Downlinks
<1>5. h.commands = <<>> => all.commands = m.commands
  <2> SUFFICES ASSUME h.commands = <<>> PROVE all.commands = m.commands
    OBVIOUS
  <2>1. m.commands \in Seq(OnAirCommands("FROMBASE")) /\ Length(m.commands) < 16
        /\ h \in Fields("FROMBASE")
    BY DownlinkFields
  <2>2. Length(m.commands) \in Nat
    <3>1. m \in Fields("FROMBASE")
      BY DownlinkFields
    <3> QED BY <3>1, Constants, FieldsOf
  <2>3. Length(h.commands) + Length(m.commands) < 16
    BY <2>1, <2>2, LengthOfNone
  <2>4. all = [h EXCEPT !.commands = h.commands \o m.commands]
    <3>1. "FROMBASE" \in Directions
      BY Constants
    <3> QED BY <2>1, <2>3, <3>1, CommandsFit
  <2>5. <<>> \o m.commands = m.commands
    BY <2>1
  <2>6. all = [h EXCEPT !.commands = m.commands]
    BY <2>4, <2>5
  <2>7. [h EXCEPT !.commands = m.commands].commands = m.commands
    BY <2>1, Constants, CommandsSet
  <2> HIDE DEF all
  <2> QED BY <2>6, <2>7
<1> HIDE DEF all
<1>6. all \in Fields("FROMBASE") /\ all.addr = DevAddr /\ all \in Headers("FROMBASE")
  BY <1>4, DownlinkFields
<1>7. /\ SetPort(all, m.port) \in Fields("FROMBASE")
      /\ SetPort(all, m.port).addr = all.addr
      /\ SetPort(all, m.port).commands = all.commands
  BY <1>1, <1>6, Constants, Setters, Zenon
<1>8. SetPort(all, m.port) \in Downlinks
  <2> DEFINE r == SetPort(all, m.port)
  <2> HIDE DEF r
  <2>1. r \in Fields("FROMBASE") /\ r.addr = DevAddr /\ r.commands = all.commands
    BY <1>6, <1>7 DEF r
  <2>2. GetCommandsLength(r) < 16
    BY <1>6, <2>1 DEF Headers, GetCommandsLength
  <2>3. \A i \in DOMAIN r.commands : r.commands[i] \in Sound
    BY <1>4, <2>1 DEF Downlinks, Bearing
  <2>4. r \in Downlinks
    BY <2>1, <2>2, <2>3 DEF Downlinks, Bearing, Headers
  <2> QED BY <2>4 DEF r
<1> QED BY <1>3, <1>4, <1>5, <1>7, <1>8

(* Send reads the stored header into the object it has read it into. *)
LEMMA ReadTwice ==
  ASSUME NEW p, IsPacket(p, Downlinks, Trailer)
  PROVE  LET h == PeekHeader(p)
             r == DeserializeInto(h, p)
         IN h \in Downlinks /\ r \in Downlinks /\ (h.commands = <<>> => r.commands = <<>>)
<1> DEFINE h == PeekHeader(p)
           r == DeserializeInto(h, p)
<1>1. h \in Downlinks /\ p = SerializeHeader(h) \o Trailer
  BY DEF IsPacket
<1> HIDE DEF h
<1>2. /\ h \in Headers("FROMBASE") /\ h \in Fields("FROMBASE") /\ h.commands \in Seq(Sound)
      /\ h.commands \in Seq(OnAirCommands("FROMBASE"))
  BY <1>1, DownlinkFields
<1>3. r = SetMacCommands([h EXCEPT !.commands = h.commands], h.commands)
  BY <1>1, <1>2, Constants, FixedParts, Deserialized
<1>4. r = SetMacCommands(h, h.commands)
  <2>1. [h EXCEPT !.commands = h.commands] = h
    BY <1>2, Constants, SameHeader
  <2> QED BY <1>3, <2>1
<1> HIDE DEF r
<1>5. r \in Downlinks
  BY <1>1, <1>2, <1>4, CommandsAdded, Constants DEF Downlinks
<1>6. ASSUME h.commands = <<>> PROVE r.commands = <<>>
  <2>1. Length(h.commands) + Length(h.commands) < 16
    BY <1>6, LengthOfNone
  <2>2. r = [h EXCEPT !.commands = h.commands \o h.commands]
    BY <1>2, <1>4, <2>1, Constants, CommandsFit
  <2>3. h.commands \o h.commands = h.commands
    BY <1>6
  <2>4. r = h
    BY <1>2, <2>2, <2>3, Constants, SameHeader
  <2> QED BY <1>6, <2>4
<1> QED BY <1>1, <1>5, <1>6 DEF h, r

(* An application's message is a header with its commands. *)
LEMMA MessageMade ==
  ASSUME NEW header, header.addr = DevAddr, NEW adr \in {0, 1}, NEW command \in Seq(Sound),
         command \in Seq(OnAirCommands("FROMBASE")), Length(command) < 16
  PROVE  \E m \in Downlinks :
           /\ Message(header, command, adr) = SerializeHeader(m)
           /\ m.type = UNCONFIRMED_DATA_DOWN /\ m.commands = command
<1> DEFINE h == SetType(SetAddr(DefaultHeader(adr), DevAddr), UNCONFIRMED_DATA_DOWN)
           m == SetMacCommands(h, command)
<1>1. h \in Fields("FROMBASE") /\ h.commands = <<>> /\ h.addr = DevAddr
      /\ h.type = UNCONFIRMED_DATA_DOWN
  BY MessageHeader
<1>2. Message(header, command, adr) = SerializeHeader(m)
  BY Zenon DEF Message
<1> HIDE DEF h
<1>3. h \in Downlinks
  BY <1>1, BareHeader, Constants DEF Downlinks
<1>4. m \in Downlinks /\ m.type = UNCONFIRMED_DATA_DOWN
  BY <1>1, <1>3, CommandsAdded, Constants DEF Downlinks
<1>5. m.commands = command
  <2>1. Length(command) \in Nat
    <3>1. command \in OnAirSequences
      BY Constants, OnAirSubset
    <3>2. PICK g : AddsUp(g, command) /\ Length(command) = g[Len(command)]
      BY <3>1, LengthSteps
    <3>3. Len(command) \in 0..Len(command)
      OBVIOUS
    <3> QED BY <3>2, <3>3 DEF AddsUp
  <2>2. Length(h.commands) + Length(command) < 16
    BY <1>1, <2>1, LengthOfNone
  <2>3. m = [h EXCEPT !.commands = h.commands \o command]
    BY <1>1, <2>2, Constants, CommandsFit
  <2>4. h.commands \o command = command
    BY <1>1
  <2>5. [h EXCEPT !.commands = command].commands = command
    BY <1>1, Constants, CommandsSet
  <2> HIDE DEF m
  <2> QED BY <2>3, <2>4, <2>5
<1> QED BY <1>2, <1>4, <1>5

(* Storing a message: what is stored can be written, and with nothing       *)
(* stored before it bears the commands of the message.                      *)
LEMMA StoredKeeps ==
  ASSUME IsPacket(slot, Downlinks, Trailer), NEW header, header.addr = DevAddr,
         NEW adr \in {0, 1}, NEW command \in Seq(Sound),
         command \in Seq(OnAirCommands("FROMBASE")), Length(command) < 16
  PROVE  LET s == Stored(Message(header, command, adr)) IN
         /\ IsPacket(s, Downlinks, Trailer) /\ s # NoPacket
         /\ PeekHeader(slot).commands = <<>> => PeekHeader(s).commands = command
<1>1. PICK m \in Downlinks : /\ Message(header, command, adr) = SerializeHeader(m)
                             /\ m.type = UNCONFIRMED_DATA_DOWN /\ m.commands = command
  BY MessageMade
<1> DEFINE p == SerializeHeader(m)
<1>2. Downlinks \subseteq Headers("FROMBASE")
  BY DEF Downlinks, Bearing
<1>3. PeekHeader(p) = m /\ HeaderSize(m) = Len(p) /\ HeaderSize(m) \in Nat
  <2>1. p \in Seq(Byte)
    BY <1>2, Constants, HeaderInBytes
  <2> DEFINE q == p \o <<>>
  <2>2. q = p /\ <<>> \in Seq(Byte) /\ Len(<<>>) = 0 /\ Len(p) \in Nat
    <3> HIDE DEF p
    <3> QED BY <2>1
  <2>3. PeekHeader(q) = m /\ Len(q) = HeaderSize(m) + Len(<<>>)
    BY <1>2, <2>2, Constants, PacketRead, ExchangeConstants
  <2>4. HeaderSize(m) \in Nat
    <3>1. m \in Fields("FROMBASE")
      BY DownlinkFields
    <3>2. GetCommandsLength(m) = Length(m.commands) /\ Length(m.commands) \in Nat
          /\ m.type # BEACON
      BY <3>1, Constants, FieldsOf
    <3> QED BY <3>2 DEF HeaderSize, IsBeacon
  <2> HIDE DEF p, q
  <2> QED BY <2>2, <2>3, <2>4
<1>4. /\ slot # NoPacket
      /\ AfterHeader(slot) = Trailer
  <2>1. "FROMBASE" \in Directions /\ Trailer \in Seq(Byte)
    BY Constants, FixedParts
  <2> QED BY <1>2, <2>1, IsPacketRead, ExchangeConstants
<1>5. Stored(p) = MergedInto(slot, m)
  <2> HIDE DEF p
  <2>1. ~(Len(p) > HeaderSize(m))
    BY <1>3
  <2> QED BY <1>3, <1>4, <2>1 DEF Stored
<1> DEFINE r == DeserializeInto(PeekHeader(slot), slot)
           t == Merge(r, m)
<1>6. r \in Downlinks /\ (PeekHeader(slot).commands = <<>> => r.commands = <<>>)
  BY ReadTwice
<1> HIDE DEF p
<1>7. MergedInto(slot, m) = SerializeHeader(t) \o Trailer
  BY <1>4, Zenon DEF MergedInto
<1> HIDE DEF r
<1>8. t \in Downlinks /\ (r.commands = <<>> => t.commands = command)
  BY <1>1, <1>6, MergeKeeps
<1> HIDE DEF t
<1>9. /\ IsPacket(SerializeHeader(t) \o Trailer, Downlinks, Trailer)
      /\ SerializeHeader(t) \o Trailer # NoPacket
      /\ PeekHeader(SerializeHeader(t) \o Trailer) = t
  BY <1>2, <1>8, Constants, FixedParts, PacketMade, ExchangeConstants
<1> QED BY <1>1, <1>5, <1>6, <1>7, <1>8, <1>9, Zenon DEF p

-----------------------------------------------------------------------------
(* Each action keeps the invariant *)

(* The device begins with coherent settings and no packet is on its way. *)
LEMMA InitInv == Init => IInv
<1> SUFFICES ASSUME Init PROVE IInv
  OBVIOUS
<1>1. PICK energy \in Energies : dev = NewDevice(energy)
  BY DEF Init
<1>2. Coherent(dev) /\ dev.answers = <<>>
  BY <1>1, NewDeviceCoherent, ExchangeConstants DEF ExchangeConstants
<1>3. DeviceInv
  BY <1>2 DEF Init, DeviceInv
<1>4. UplinkInv
  BY DEF Init, UplinkInv
<1>5. DownlinkInv
  BY DEF Init, DownlinkInv
<1>6. RequestedInv /\ ConfirmedAsExecuted
  BY DEF Init, RequestedInv, ConfirmedAsExecuted
<1> QED BY <1>3, <1>4, <1>5, <1>6 DEF IInv

(* A transmission leaves the device as Rest does. *)
LEMMA TransmitKeeps ==
  ASSUME NEW d, Coherent(d), Transmit(d)
  PROVE  /\ Coherent(dev') /\ dev'.answers = d.answers /\ phase' = "uplink"
         /\ UNCHANGED <<networkVars, downlink>>
<1>1. PICK i \in FreeChannels(d) : dev' = Rest(d, i)
  BY DEF Transmit
<1>2. Coherent(Rest(d, i)) /\ Rest(d, i).answers = d.answers
  BY RestKeeps
<1> QED BY <1>1, <1>2 DEF Transmit

(* A new frame bears the answers and empties them. *)
LEMMA NewFrameInv == IInv /\ NewFrame => IInv'
<1> SUFFICES ASSUME IInv, NewFrame PROVE IInv'
  OBVIOUS
<1> DEFINE d == [dev EXCEPT !.answers = <<>>]
<1>1. PICK adr \in StrayBits, adrAck \in BOOLEAN :
        currentPkt' = WithAnswers(DataFrame(adr), dev.answers, adrAck)
  BY DEF NewFrame
<1>2. /\ phase = "device" /\ seqNum' = seqNum + 1 /\ Transmit(d)
      /\ applied' = {} /\ carried' = applied /\ told' = {} /\ UNCHANGED requested
  BY DEF NewFrame
<1>3. Coherent(dev) /\ seqNum \in Nat /\ dev.answers \in Seq(Confirming(applied))
  <2>1. Coherent(dev) /\ seqNum \in Nat
    BY DEF IInv, DeviceInv
  <2> DEFINE s == dev.answers
  <2>2. s \in Seq(ToBase) /\ \A i \in DOMAIN s : s[i] \in Confirming(applied)
    BY DEF IInv, DeviceInv, Coherent
  <2> HIDE DEF s
  <2>3. s \in Seq(Confirming(applied))
    BY <2>2
  <2> QED BY <2>1, <2>3 DEF s
<1>4. Coherent(d) /\ d.answers = <<>>
  BY <1>3, EmptyKeeps
<1> HIDE DEF d
<1>5. Coherent(dev') /\ dev'.answers = <<>> /\ phase' = "uplink"
      /\ UNCHANGED <<networkVars, downlink>>
  BY <1>2, <1>4, TransmitKeeps
<1>6. IsPacket(currentPkt', Uplinks(carried'), Payload) /\ currentPkt' # NoPacket
  <2>1. adr \in {0, 1}
    BY ExchangeConstants DEF ExchangeConstants
  <2>2. /\ IsPacket(WithAnswers(DataFrame(adr), dev.answers, adrAck), Uplinks(applied), Payload)
        /\ WithAnswers(DataFrame(adr), dev.answers, adrAck) # NoPacket
    BY <1>3, <2>1, NewFrameMade
  <2> QED BY <1>1, <1>2, <2>2
<1>7. DeviceInv'
  BY <1>2, <1>3, <1>5 DEF DeviceInv
<1>8. UplinkInv'
  BY <1>2, <1>5, <1>6 DEF IInv, UplinkInv, networkVars
<1>9. DownlinkInv'
  BY <1>2, <1>5 DEF IInv, DownlinkInv, networkVars
<1>10. RequestedInv' /\ ConfirmedAsExecuted'
  BY <1>2, <1>5 DEF RequestedInv, ConfirmedAsExecuted
<1> QED BY <1>7, <1>8, <1>9, <1>10 DEF IInv

(* A retransmission changes the flag and the counter in the frame it has. *)
LEMMA RetransmitInv == IInv /\ Retransmit => IInv'
<1> SUFFICES ASSUME IInv, Retransmit PROVE IInv'
  OBVIOUS
<1>1. /\ phase = "device" /\ currentPkt # NoPacket
      /\ Transmit(dev) \/ Transmit(Slower(dev))
      /\ UNCHANGED <<seqNum, currentPkt, historyVars>>
  BY DEF Retransmit
<1>2. Coherent(dev)
  BY DEF IInv, DeviceInv
<1>3. Coherent(Slower(dev)) /\ Slower(dev).answers = dev.answers
  BY <1>2, SlowerKeeps DEF Keeps
<1>4. Coherent(dev') /\ dev'.answers = dev.answers /\ phase' = "uplink"
      /\ UNCHANGED <<networkVars, downlink>>
  BY <1>1, <1>2, <1>3, TransmitKeeps
<1>5. DeviceInv'
  BY <1>1, <1>4 DEF IInv, DeviceInv, historyVars
<1>6. UplinkInv'
  BY <1>1, <1>4 DEF IInv, UplinkInv, networkVars, historyVars
<1>7. DownlinkInv'
  BY <1>1, <1>4 DEF IInv, DownlinkInv, networkVars
<1>8. RequestedInv' /\ ConfirmedAsExecuted'
  BY <1>1, <1>4 DEF IInv, RequestedInv, ConfirmedAsExecuted, historyVars
<1> QED BY <1>5, <1>6, <1>7, <1>8 DEF IInv

(* Giving up a frame leaves what was sent. *)
LEMMA GiveUpInv == IInv /\ GiveUp => IInv'
<1> SUFFICES ASSUME IInv, GiveUp PROVE IInv'
  OBVIOUS
<1>1. /\ phase = "device" /\ currentPkt' = NoPacket
      /\ UNCHANGED <<dev, seqNum, phase, networkVars, downlink, historyVars>>
  BY DEF GiveUp
<1>2. DeviceInv'
  BY <1>1 DEF IInv, DeviceInv, historyVars
<1>3. UplinkInv'
  BY <1>1 DEF IInv, UplinkInv, networkVars, historyVars
<1>4. DownlinkInv'
  BY <1>1 DEF IInv, DownlinkInv, networkVars
<1>5. RequestedInv' /\ ConfirmedAsExecuted'
  BY <1>1 DEF IInv, RequestedInv, ConfirmedAsExecuted, historyVars
<1> QED BY <1>2, <1>3, <1>4, <1>5 DEF IInv

(* A channel that becomes free has a frequency. *)
LEMMA ChannelFreeInv == IInv /\ ChannelFree => IInv'
<1> SUFFICES ASSUME IInv, ChannelFree PROVE IInv'
  OBVIOUS
<1>1. PICK i \in Slots, last \in BOOLEAN :
        MayFree(dev, i, last) /\ dev' = FreeChannel(dev, i, last)
  BY DEF ChannelFree
<1>2. UNCHANGED <<seqNum, currentPkt, phase, networkVars, downlink, historyVars>>
  BY DEF ChannelFree
<1>3. Coherent(dev') /\ dev'.answers = dev.answers
  <2>1. Coherent(dev)
    BY DEF IInv, DeviceInv
  <2> QED BY <1>1, <2>1, FreeKeeps
<1>4. DeviceInv'
  BY <1>2, <1>3 DEF IInv, DeviceInv, historyVars
<1>5. UplinkInv'
  BY <1>2 DEF IInv, UplinkInv, networkVars, historyVars
<1>6. DownlinkInv'
  BY <1>2 DEF IInv, DownlinkInv, networkVars
<1>7. RequestedInv' /\ ConfirmedAsExecuted'
  BY <1>2 DEF IInv, RequestedInv, ConfirmedAsExecuted, historyVars, networkVars
<1> QED BY <1>4, <1>5, <1>6, <1>7 DEF IInv

(* A request for a link check confirms nothing. *)
LEMMA AskLinkCheckInv == IInv /\ AskLinkCheck => IInv'
<1> SUFFICES ASSUME IInv, AskLinkCheck PROVE IInv'
  OBVIOUS
<1>1. dev' = SetMacAnswer(dev, LinkCheckReq)
      /\ UNCHANGED <<seqNum, currentPkt, phase, networkVars, downlink, historyVars>>
  BY DEF AskLinkCheck
<1>2. Coherent(dev) /\ dev.answers \in Seq(ToBase)
      /\ \A i \in DOMAIN dev.answers : dev.answers[i] \in Confirming(applied)
  BY DEF IInv, DeviceInv, Coherent
<1>3. LinkCheckReq \in ToBase /\ Confirms(LinkCheckReq) = {}
  BY DEF ToBase, LinkCheckReq, Confirms
<1>4. Coherent(dev') /\ dev'.answers = Append(dev.answers, LinkCheckReq)
  BY <1>1, <1>2, <1>3, AnswerKeeps
<1>5. LinkCheckReq \in Confirming(applied)
  BY <1>3 DEF Confirming, AboutAll
<1>6. \A i \in DOMAIN dev'.answers : dev'.answers[i] \in Confirming(applied)
  <2> TAKE i \in DOMAIN dev'.answers
  <2>1. \/ dev'.answers[i] = LinkCheckReq
        \/ i \in DOMAIN dev.answers /\ dev'.answers[i] = dev.answers[i]
    BY <1>2, <1>3, <1>4, Appended
  <2> QED BY <1>2, <1>5, <2>1
<1>7. DeviceInv'
  BY <1>1, <1>4, <1>6 DEF IInv, DeviceInv, historyVars
<1>8. UplinkInv'
  BY <1>1 DEF IInv, UplinkInv, networkVars, historyVars
<1>9. DownlinkInv'
  BY <1>1 DEF IInv, DownlinkInv, networkVars
<1>10. RequestedInv' /\ ConfirmedAsExecuted'
  BY <1>1 DEF IInv, RequestedInv, ConfirmedAsExecuted, historyVars, networkVars
<1> QED BY <1>7, <1>8, <1>9, <1>10 DEF IInv

(* A lost uplink leaves the device as it is. *)
LEMMA UplinkLostInv == IInv /\ UplinkLost => IInv'
<1> SUFFICES ASSUME IInv, UplinkLost PROVE IInv'
  OBVIOUS
<1>1. phase = "uplink" /\ phase' = "device"
      /\ UNCHANGED <<deviceVars, networkVars, downlink, historyVars>>
  BY DEF UplinkLost
<1>2. DeviceInv'
  BY <1>1 DEF IInv, DeviceInv, deviceVars, historyVars
<1>3. UplinkInv'
  BY <1>1 DEF IInv, UplinkInv, deviceVars, networkVars, historyVars
<1>4. DownlinkInv'
  BY <1>1 DEF IInv, DownlinkInv, networkVars
<1>5. RequestedInv' /\ ConfirmedAsExecuted'
  BY <1>1 DEF IInv, RequestedInv, ConfirmedAsExecuted, historyVars
<1> QED BY <1>2, <1>3, <1>4, <1>5 DEF IInv

(* The network sends what it has stored. *)
LEMMA SendAckInv == IInv /\ SendAck => IInv'
<1> SUFFICES ASSUME IInv, SendAck PROVE IInv'
  OBVIOUS
<1>1. /\ phase = "network" /\ answering = {} /\ downlink' = slot /\ slot' = NoPacket
      /\ phase' = IF slot = NoPacket THEN "device" ELSE "downlink"
      /\ UNCHANGED <<deviceVars, latest, report, answering, historyVars>>
  BY DEF SendAck
<1>2. slot # NoPacket /\ IsPacket(slot, Downlinks, Trailer)
  BY <1>1 DEF IInv, DownlinkInv
<1>3. DeviceInv'
  BY <1>1 DEF IInv, DeviceInv, deviceVars, historyVars
<1>4. UplinkInv'
  BY <1>1, <1>2 DEF IInv, UplinkInv, deviceVars, historyVars
<1>5. DownlinkInv'
  BY <1>1, <1>2 DEF DownlinkInv
<1>6. RequestedInv' /\ ConfirmedAsExecuted'
  BY <1>1, <1>2 DEF IInv, RequestedInv, ConfirmedAsExecuted, historyVars
<1> QED BY <1>3, <1>4, <1>5, <1>6 DEF IInv

(* A lost downlink leaves the device as it is. *)
LEMMA DownlinkLostInv == IInv /\ DownlinkLost => IInv'
<1> SUFFICES ASSUME IInv, DownlinkLost PROVE IInv'
  OBVIOUS
<1>1. /\ phase = "downlink" /\ phase' = "device" /\ downlink' = NoPacket
      /\ UNCHANGED <<deviceVars, networkVars, executed, applied, carried, told>>
  BY DEF DownlinkLost
<1>2. DeviceInv'
  BY <1>1 DEF IInv, DeviceInv, deviceVars
<1>3. UplinkInv'
  BY <1>1 DEF IInv, UplinkInv, deviceVars, networkVars
<1>4. DownlinkInv'
  BY <1>1 DEF IInv, DownlinkInv, networkVars
<1>5. RequestedInv' /\ ConfirmedAsExecuted'
  BY <1>1 DEF IInv, RequestedInv, ConfirmedAsExecuted
<1> QED BY <1>2, <1>3, <1>4, <1>5 DEF IInv

(* An uplink is of the device, asks for an ack and bears answers. *)
LEMMA UplinkFields ==
  ASSUME NEW A, NEW h \in Uplinks(A)
  PROVE  /\ h \in Headers("TOBASE") /\ h.addr = DevAddr /\ NeedsAck(h)
         /\ h.commands \in Seq(Confirming(A))
<1>1. h \in Headers("TOBASE") /\ h \in Fields("TOBASE") /\ h.addr = DevAddr
      /\ \A i \in DOMAIN h.commands : h.commands[i] \in Confirming(A)
  BY DEF Uplinks, Bearing, Headers
<1>2. h.commands \in Seq(Confirming(A))
  <2> DEFINE s == h.commands
  <2>1. s \in Seq(OnAirCommands("TOBASE")) /\ \A i \in DOMAIN s : s[i] \in Confirming(A)
    BY <1>1, Constants, FieldsOf
  <2> HIDE DEF s
  <2>2. s \in Seq(Confirming(A))
    BY <2>1
  <2> QED BY <2>2 DEF s
<1>3. h.type \in Types("TOBASE")
  <2> DEFINE Numbers == 0..2^16 - 1
             Lists == Seq(OnAirCommands("TOBASE"))
  <2>1. h \in [type : Types("TOBASE"), version : {0}, adaptive : {0, 1}, adrAckReq : BOOLEAN,
               ack : BOOLEAN, pending : BOOLEAN, port : Byte, addr : Addresses,
               counter : Numbers, commands : Lists, channels : {<<>>}]
    BY <1>1 DEF Fields
  <2> HIDE DEF Numbers, Lists
  <2> QED BY <2>1
<1>4. NeedsAck(h)
  BY <1>3 DEF Types, NeedsAck
<1> QED BY <1>1, <1>2, <1>4

(* An uplink is one of any set of settings that confirms more. *)
LEMMA UplinksMore ==
  ASSUME NEW A, NEW B, Confirming(A) \subseteq Confirming(B)
  PROVE  Uplinks(A) \subseteq Uplinks(B)
BY DEF Uplinks, Bearing

(* Whatever an answer confirms is one of the settings.                      *)
LEMMA AllConfirming ==
  ASSUME NEW A
  PROVE  Confirming(A) \subseteq Confirming(AllSettings)
<1>1. ASSUME NEW c \in ToBase PROVE AboutAll(c) \subseteq AllSettings
  <2>1. Confirms(c) \subseteq AllSettings
    BY DEF Confirms, AllSettings
  <2>2. \A s \in AllSettings : About(s) \in AllSettings
    BY DEF About, AllSettings
  <2> QED BY <2>1, <2>2 DEF AboutAll
<1> QED BY <1>1 DEF Confirming

(* What the network gets is the frame and its reception. *)
LEMMA FrameReceived ==
  ASSUME NEW A, NEW p, IsPacket(p, Uplinks(A), Payload)
  PROVE  LET q == Received(AfterPhyHeader(OnAir(p))) IN
         /\ IsPacket(q, Uplinks(A), Payload \o Reception) /\ q # NoPacket
         /\ PeekHeader(q) \in Uplinks(A)
<1> DEFINE h == PeekHeader(p)
           s == SerializeHeader(h)
           q == Received(AfterPhyHeader(OnAir(p)))
<1>1. h \in Uplinks(A) /\ p = s \o Payload
  BY DEF IsPacket
<1>2. Uplinks(A) \subseteq Headers("TOBASE")
  BY DEF Uplinks, Bearing
<1> HIDE DEF h
<1>3. s \in Seq(Byte)
  BY <1>1, <1>2, Constants, HeaderInBytes
<1> HIDE DEF s
<1>4. p \in Seq(Byte)
  BY <1>1, <1>3, FixedParts
<1>5. q = p \o Reception
  <2>1. AfterPhyHeader(OnAir(p)) = p
    BY <1>4, PhyHeaderOff
  <2>2. \A f : Received(f) = f \o Reception
    BY SMT DEF Received, Reception
  <2> QED BY <2>1, <2>2, Zenon
<1>6. (s \o Payload) \o Reception = s \o (Payload \o Reception)
  <2>1. Payload \in Seq(Byte) /\ Reception \in Seq(Byte)
    BY FixedParts
  <2> QED BY <1>3, <2>1, ConcatAssociative
<1>7. q = SerializeHeader(h) \o (Payload \o Reception)
  BY <1>1, <1>5, <1>6, Zenon DEF s
<1> HIDE DEF q
<1>8. Payload \o Reception \in Seq(Byte)
  BY FixedParts
<1>9. /\ IsPacket(SerializeHeader(h) \o (Payload \o Reception), Uplinks(A), Payload \o Reception)
      /\ SerializeHeader(h) \o (Payload \o Reception) # NoPacket
      /\ PeekHeader(SerializeHeader(h) \o (Payload \o Reception)) = h
  <2> DEFINE rest == Payload \o Reception
  <2>1. rest \in Seq(Byte) /\ "TOBASE" \in Directions
    BY <1>8, Constants
  <2> HIDE DEF rest
  <2>2. /\ IsPacket(SerializeHeader(h) \o rest, Uplinks(A), rest)
        /\ SerializeHeader(h) \o rest # NoPacket
        /\ PeekHeader(SerializeHeader(h) \o rest) = h
    BY <1>1, <1>2, <2>1, PacketMade, ExchangeConstants
  <2> QED BY <2>2 DEF rest
<1>10. IsPacket(q, Uplinks(A), Payload \o Reception) /\ q # NoPacket /\ PeekHeader(q) \in Uplinks(A)
  BY <1>1, <1>7, <1>9, Zenon
<1> QED BY <1>10 DEF q

(* The network reads the frame, stores an ack for it and reports it. *)
LEMMA MessageReceivedInv == IInv /\ MessageReceived => IInv'
<1> SUFFICES ASSUME IInv, MessageReceived PROVE IInv'
  OBVIOUS
<1> DEFINE packet == Received(AfterPhyHeader(OnAir(currentPkt)))
           header == PeekHeader(packet)
<1>1. /\ phase = "uplink" /\ phase' = "network" /\ requested' = <<>>
      /\ UNCHANGED <<deviceVars, downlink, executed, applied, carried, told>>
  BY DEF MessageReceived
<1>2. /\ \/ report' = packet /\ answering' = Applications
         \/ UNCHANGED <<report, answering>>
      /\ IF NeedsAck(header) \/ header.adrAckReq
         THEN \E adr \in StrayBits : slot' = Ack(header, adr)
         ELSE slot' = IF latest = header.counter THEN slot ELSE NoPacket
  <2> HIDE DEF packet
  <2> QED BY DEF MessageReceived, packet
<1>3. IsPacket(currentPkt, Uplinks(carried), Payload) /\ answering = {}
      /\ (report # NoPacket => IsPacket(report, Uplinks(AllSettings), Payload \o Reception))
  BY <1>1 DEF IInv, UplinkInv
<1>4. IsPacket(packet, Uplinks(carried), Payload \o Reception) /\ packet # NoPacket
      /\ header \in Uplinks(carried)
  BY <1>3, FrameReceived
<1> HIDE DEF packet
<1>5. Uplinks(carried) \subseteq Uplinks(AllSettings)
  BY AllConfirming, UplinksMore
<1>6. IsPacket(packet, Uplinks(AllSettings), Payload \o Reception)
  BY <1>4, <1>5 DEF IsPacket
<1> HIDE DEF header
<1>7. PICK adr \in StrayBits : slot' = Ack(header, adr)
  <2>1. NeedsAck(header)
    BY <1>4, UplinkFields
  <2> QED BY <1>2, <2>1
<1>8. IsPacket(slot', Downlinks, Trailer) /\ slot' # NoPacket
      /\ PeekHeader(slot').commands = <<>>
  <2>1. header \in Headers("TOBASE") /\ header.addr = DevAddr
    BY <1>4, UplinkFields
  <2>2. adr \in {0, 1}
    BY Constants
  <2>3. /\ IsPacket(Ack(header, adr), Downlinks, Trailer) /\ Ack(header, adr) # NoPacket
        /\ PeekHeader(Ack(header, adr)).commands = <<>>
    BY <2>1, <2>2, AckMade
  <2> QED BY <1>7, <2>3
<1>9. DeviceInv'
  BY <1>1 DEF IInv, DeviceInv, deviceVars
<1>10. UplinkInv'
  <2>1. currentPkt' # NoPacket /\ IsPacket(currentPkt', Uplinks(carried'), Payload)
    BY <1>1 DEF IInv, UplinkInv, deviceVars
  <2>2. CASE report' = packet /\ answering' = Applications
    <3>1. PeekHeader(report') \in Uplinks(carried')
      BY <1>1, <1>4, <2>2 DEF header
    <3> QED BY <1>1, <1>4, <1>6, <2>1, <2>2, <3>1 DEF UplinkInv
  <2>3. CASE UNCHANGED <<report, answering>>
    BY <1>1, <1>3, <2>1, <2>3 DEF UplinkInv
  <2> QED BY <1>2, <2>2, <2>3
<1>11. DownlinkInv'
  BY <1>1, <1>8 DEF IInv, DownlinkInv
<1>12. RequestedInv' /\ ConfirmedAsExecuted'
  BY <1>1, <1>8 DEF IInv, RequestedInv, ConfirmedAsExecuted
<1> QED BY <1>9, <1>10, <1>11, <1>12 DEF IInv

(* An application reads the report and stores its requests. *)
LEMMA AnswerInv ==
  ASSUME NEW a \in Applications
  PROVE  IInv /\ Answer(a) => IInv'
<1> SUFFICES ASSUME IInv, Answer(a) PROVE IInv'
  OBVIOUS
<1> DEFINE header == PeekHeader(report)
           Sendable == IF Contains(header.commands, LinkCheckReq)
                       THEN {<<LinkCheckAns(GetMargin(Strength), 1)>>}
                       ELSE {<<c>> : c \in Requests} \cup {<<>>}
<1>1. /\ a \in answering /\ answering' = answering \ {a}
      /\ report' = IF answering' = {} THEN NoPacket ELSE report
      /\ UNCHANGED <<deviceVars, phase, latest, downlink, executed, applied, carried>>
  BY DEF Answer
<1>2. /\ told' = told \cup UNION {Confirms(c) : c \in ToSet(header.commands)}
      /\ \/ /\ NeedsAck(header)
            /\ \E command \in Sendable, adr \in StrayBits :
                 /\ slot' = Stored(Message(header, command, adr))
                 /\ requested' = requested \o command
         \/ ~NeedsAck(header) /\ UNCHANGED <<slot, requested>>
  BY Zenon DEF Answer
<1>3. /\ phase = "network" /\ report # NoPacket /\ header \in Uplinks(carried)
      /\ IsPacket(report, Uplinks(AllSettings), Payload \o Reception)
      /\ IsPacket(slot, Downlinks, Trailer) /\ answering \subseteq Applications
  BY <1>1 DEF IInv, UplinkInv, DownlinkInv
<1> HIDE DEF header
<1>4. NeedsAck(header) /\ header.addr = DevAddr /\ header.commands \in Seq(Confirming(carried))
  BY <1>3, UplinkFields
<1>5. PICK command \in Sendable, adr \in StrayBits :
        slot' = Stored(Message(header, command, adr)) /\ requested' = requested \o command
  BY <1>2, <1>4
<1>6. command \in Seq(Sound) /\ Length(command) < 16
      /\ command \in Seq(OnAirCommands("FROMBASE"))
  <2>1. \/ command = <<LinkCheckAns(GetMargin(Strength), 1)>>
        \/ command = <<>>
        \/ \E c \in Requests : command = <<c>>
    <3> DEFINE check == <<LinkCheckAns(GetMargin(Strength), 1)>>
    <3> HIDE DEF check
    <3>1. command \in {check} \/ command \in {<<c>> : c \in Requests} \cup {<<>>}
      BY Zenon DEF check
    <3> QED BY <3>1 DEF check
  <2> HIDE DEF Sendable
  <2> QED BY <2>1, CommandLists
<1> HIDE DEF Sendable
<1>7. /\ IsPacket(slot', Downlinks, Trailer) /\ slot' # NoPacket
      /\ PeekHeader(slot).commands = <<>> => PeekHeader(slot').commands = command
  <2>1. adr \in {0, 1}
    BY Constants
  <2>2. LET s == Stored(Message(header, command, adr)) IN
        /\ IsPacket(s, Downlinks, Trailer) /\ s # NoPacket
        /\ PeekHeader(slot).commands = <<>> => PeekHeader(s).commands = command
    BY <1>3, <1>4, <1>6, <2>1, StoredKeeps
  <2> QED BY <1>5, <2>2
<1>8. DeviceInv'
  BY <1>1 DEF IInv, DeviceInv, deviceVars
<1>9. UplinkInv'
  <2>1. currentPkt' = currentPkt /\ carried' = carried /\ phase' = phase
    BY <1>1 DEF deviceVars
  <2>2. answering' # {} => report' = report
    BY <1>1
  <2>3. report' # NoPacket => report' = report
    BY <1>1
  <2>4. answering' \subseteq Applications
    BY <1>1, <1>3
  <2> QED BY <1>3, <2>1, <2>2, <2>3, <2>4 DEF IInv, UplinkInv, header
<1>10. DownlinkInv'
  BY <1>1, <1>3, <1>7 DEF IInv, DownlinkInv
<1>11. ConfirmedAsExecuted'
  <2>1. \A c \in ToSet(header.commands) : AboutAll(c) \subseteq carried
    <3> TAKE c \in ToSet(header.commands)
    <3>1. c \in Confirming(carried)
      BY <1>4 DEF ToSet
    <3> QED BY <3>1 DEF Confirming
  <2>2. {About(s) : s \in told} \subseteq carried
    BY DEF IInv, ConfirmedAsExecuted
  <2>3. ASSUME NEW s \in told' PROVE About(s) \in carried
    <3>1. CASE s \in told
      BY <2>2, <3>1
    <3>2. ASSUME NEW c \in ToSet(header.commands), s \in Confirms(c) PROVE About(s) \in carried
      BY <2>1, <3>2 DEF AboutAll
    <3> QED BY <1>2, <3>1, <3>2
  <2> QED BY <1>1, <2>3 DEF ConfirmedAsExecuted
<1>12. RequestedInv'
  <2> SUFFICES ASSUME OneApplication
               PROVE  /\ requested' = PeekHeader(slot').commands
                      /\ answering' # {} => requested' = <<>>
    BY <1>1, <1>3 DEF RequestedInv
  <2>1. answering' = {}
    BY <1>1, <1>3 DEF OneApplication
  <2>2. requested = PeekHeader(slot).commands /\ requested = <<>>
    BY <1>1, <1>3 DEF IInv, RequestedInv
  <2>3. requested' = command
    <3>1. <<>> \o command = command
      BY <1>6
    <3> QED BY <1>5, <2>2, <3>1
  <2> QED BY <1>7, <2>1, <2>2, <2>3
<1> QED BY <1>8, <1>9, <1>10, <1>11, <1>12 DEF IInv

(* What the device gets of a downlink. *)
LEMMA DownlinkReceived ==
  ASSUME NEW p, IsPacket(p, Downlinks, Trailer)
  PROVE  LET h == PeekHeader(AfterPhyHeader(OnAir(AfterNetworkTrailer(p)))) IN
         h = PeekHeader(p) /\ h \in Downlinks
<1> DEFINE h == PeekHeader(p)
           s == SerializeHeader(h)
<1>1. h \in Downlinks /\ p = s \o Trailer
  BY DEF IsPacket
<1>2. Downlinks \subseteq Headers("FROMBASE")
  BY DEF Downlinks, Bearing
<1> HIDE DEF h
<1>3. s \in Seq(Byte)
  BY <1>1, <1>2, Constants, HeaderInBytes
<1>4. PeekHeader(s) = h
  <2>1. <<>> \in Seq(Byte)
    OBVIOUS
  <2>2. PeekHeader(s \o <<>>) = h
    BY <1>1, <1>2, <2>1, Constants, HeadersReadBack
  <2>3. s \o <<>> = s
    <3> HIDE DEF s
    <3> QED BY <1>3
  <2> QED BY <2>2, <2>3, Zenon
<1> HIDE DEF s
<1>5. AfterNetworkTrailer(p) = s
  <2>1. AfterNetworkTrailer(s \o Trailer) = s
    BY <1>3, FixedParts, TrailerOff
  <2> QED BY <1>1, <2>1
<1>6. AfterPhyHeader(OnAir(s)) = s
  BY <1>3, PhyHeaderOff
<1> QED BY <1>1, <1>4, <1>5, <1>6, Zenon DEF h

(* The device reads the downlink, executes its commands and queues the      *)
(* answers.                                                                 *)
LEMMA NotifyReceptionEndOkInv == IInv /\ NotifyReceptionEndOk => IInv'
<1> SUFFICES ASSUME IInv, NotifyReceptionEndOk PROVE IInv'
  OBVIOUS
<1> DEFINE header == PeekHeader(AfterPhyHeader(OnAir(AfterNetworkTrailer(downlink))))
<1>1. /\ phase = "downlink" /\ phase' = "device" /\ downlink' = NoPacket /\ requested' = <<>>
      /\ UNCHANGED <<seqNum, networkVars, carried, told>>
      /\ applied' = applied \cup AppliesAll(dev, header.commands)
  BY Zenon DEF NotifyReceptionEndOk
<1>2. /\ currentPkt' = IF IsAcknowledgment(header) THEN NoPacket ELSE currentPkt
      /\ \E snr \in Snrs :
           dev' = [ExecuteAll([dev EXCEPT !.snr = snr], header.commands) EXCEPT !.snr = 0]
  BY Zenon DEF NotifyReceptionEndOk
<1>3. IsPacket(downlink, Downlinks, Trailer)
  BY <1>1 DEF IInv, DownlinkInv
<1>4. header \in Downlinks
  BY <1>3, DownlinkReceived
<1> HIDE DEF header
<1>5. IsAcknowledgment(header) /\ header.commands \in Seq(Sound)
  BY <1>4, DownlinkFields
<1>6. PICK snr \in Snrs :
        dev' = [ExecuteAll([dev EXCEPT !.snr = snr], header.commands) EXCEPT !.snr = 0]
  BY <1>2
<1> DEFINE d == [dev EXCEPT !.snr = snr]
           r == ExecuteAll(d, header.commands)
<1>7. Coherent(dev) /\ \A i \in DOMAIN dev.answers : dev.answers[i] \in Confirming(applied)
  BY DEF IInv, DeviceInv
<1>8. Keeps(d, dev)
  <2>1. snr \in Int
    BY ExchangeConstants DEF ExchangeConstants
  <2> QED BY <1>7, <2>1, SnrKeeps
<1> HIDE DEF d
<1>9. /\ Coherent(r)
      /\ \A i \in DOMAIN r.answers :
           r.answers[i] \in Confirming(applied \cup AppliesAll(dev, header.commands))
  BY <1>5, <1>7, <1>8, ExecuteAllKeeps DEF Keeps
<1> HIDE DEF r
<1>10. dev' = [r EXCEPT !.snr = 0]
  BY <1>6 DEF r, d
<1>11. Keeps(dev', r)
  BY <1>9, <1>10, SnrKeeps
<1>12. DeviceInv'
  BY <1>1, <1>9, <1>11 DEF IInv, DeviceInv, Keeps
<1>13. UplinkInv'
  BY <1>1, <1>2, <1>5 DEF IInv, UplinkInv, networkVars
<1>14. DownlinkInv'
  BY <1>1 DEF IInv, DownlinkInv, networkVars
<1>15. RequestedInv' /\ ConfirmedAsExecuted'
  BY <1>1 DEF IInv, RequestedInv, ConfirmedAsExecuted
<1> QED BY <1>12, <1>13, <1>14, <1>15 DEF IInv

(* Nothing changes when nothing happens. *)
LEMMA StutterInv == IInv /\ UNCHANGED vars => IInv'
BY DEF IInv, DeviceInv, UplinkInv, DownlinkInv, RequestedInv, ConfirmedAsExecuted, vars,
       deviceVars, networkVars, historyVars

(* Every step keeps the invariant. *)
LEMMA NextInv == IInv /\ [Next]_vars => IInv'
<1> SUFFICES ASSUME IInv, [Next]_vars PROVE IInv'
  OBVIOUS
<1> QED BY NewFrameInv, RetransmitInv, GiveUpInv, ChannelFreeInv, AskLinkCheckInv,
           UplinkLostInv, MessageReceivedInv, AnswerInv, SendAckInv, NotifyReceptionEndOkInv,
           DownlinkLostInv, StutterInv DEF Next

-----------------------------------------------------------------------------
(* Answering what was executed *)

(* A list of two.                                                           *)
LEMMA Pair ==
  ASSUME NEW a, NEW b
  PROVE  Append(<<a>>, b) = <<a, b>>
<1> DEFINE u == Append(<<a>>, b)
<1>1. u \in Seq({a, b}) /\ Len(u) = 2 /\ u[1] = a /\ u[2] = b
  OBVIOUS
<1> HIDE DEF u
<1>2. u = <<a, b>>
  BY <1>1
<1> QED BY <1>2 DEF u

(* Without takes a list element by element. *)
LEMMA WithoutSteps ==
  ASSUME NEW C, NEW s \in Seq(C), NEW kind
  PROVE  \E t : /\ t[0] = <<>>
                /\ \A k \in 1..Len(s) :
                     t[k] = IF s[k].kind = kind THEN t[k - 1] ELSE Append(t[k - 1], s[k])
                /\ Without(s, kind) = t[Len(s)]
<1> DEFINE n == Len(s)
           H == Seq(C)
           More(x, c) == IF c.kind = kind THEN x ELSE Append(x, c)
           F == [x \in H |-> [c \in C |-> More(x, c)]]
           Is(f) == f = [u \in SUBSET DOMAIN s |->
                           IF u = {} THEN <<>> ELSE More(f[u \ {Max(u)}], s[Max(u)])]
<1>1. s \in Seq(C) /\ n \in Nat /\ DOMAIN s = 1..n /\ <<>> \in H
  OBVIOUS
<1>2. F \in [H -> [C -> H]]
  OBVIOUS
<1>3. PICK iter \in [SUBSET DOMAIN s -> H] : FoldsBy(iter, F, <<>>, s)
  <2> HIDE DEF F, H
  <2> QED BY <1>1, <1>2, FoldExists
<1>4. ASSUME NEW u \in SUBSET DOMAIN s, u # {}
      PROVE  iter[u] = More(iter[u \ {Max(u)}], s[Max(u)])
  <2>1. iter[u \ {Max(u)}] \in H /\ s[Max(u)] \in C
    <3> HIDE DEF H
    <3> QED BY <1>1, <1>4, FoldValues
  <2>2. iter[u] = F[iter[u \ {Max(u)}]][s[Max(u)]]
    BY <1>3, <1>4 DEF FoldsBy
  <2> HIDE DEF H, More
  <2> QED BY <2>1, <2>2
<1>5. iter[{}] = <<>>
  BY <1>3 DEF FoldsBy
<1>6. Is(iter)
  <2> HIDE DEF F, H, More
  <2> QED BY <1>4, <1>5
<1> DEFINE f == CHOOSE f : Is(f)
<1>7. Is(f)
  BY <1>6
<1>8. Without(s, kind) = f[DOMAIN s]
  BY DEF Without, FoldLeft, MapThenFoldSet
<1> HIDE DEF f, F, H
<1>9. \A k \in 1..n :
        /\ 1..k \in SUBSET DOMAIN s /\ 1..k - 1 \in SUBSET DOMAIN s
        /\ 1..k # {} /\ Max(1..k) = k /\ f[(1..k) \ {Max(1..k)}] = f[1..k - 1]
  BY <1>1, FoldSteps, Zenon
<1>10. \A k \in 1..n : f[1..k] = More(f[1..k - 1], s[k])
  <2> HIDE DEF More
  <2> QED BY <1>7, <1>9
<1>11. f[1..0] = <<>>
  <2>1. 1..0 = {}
    OBVIOUS
  <2> HIDE DEF More
  <2> QED BY <1>7, <2>1
<1> DEFINE t == [k \in 0..n |-> f[1..k]]
<1>12. t[0] = <<>> /\ t[n] = f[DOMAIN s]
  BY <1>1, <1>11
<1>13. \A k \in 1..n : t[k] = More(t[k - 1], s[k])
  <2>1. \A k \in 1..n : k - 1 \in 0..n /\ k \in 0..n
    BY <1>1
  <2> HIDE DEF More
  <2> QED BY <1>10, <2>1
<1> QED BY <1>8, <1>12, <1>13

(* What is left of lists of at most two commands. *)
LEMMA WithoutShort ==
  ASSUME NEW kind
  PROVE  /\ Without(<<>>, kind) = <<>>
         /\ \A a : Without(<<a>>, kind) = IF a.kind = kind THEN <<>> ELSE <<a>>
         /\ \A a, b : Without(<<a, b>>, kind) =
              IF a.kind = kind THEN (IF b.kind = kind THEN <<>> ELSE <<b>>)
                               ELSE (IF b.kind = kind THEN <<a>> ELSE <<a, b>>)
<1>1. Without(<<>>, kind) = <<>>
  <2> DEFINE s == <<>>
  <2>1. s \in Seq({}) /\ Len(s) = 0
    OBVIOUS
  <2> HIDE DEF s
  <2>2. PICK t : /\ t[0] = <<>>
                 /\ \A k \in 1..Len(s) :
                      t[k] = IF s[k].kind = kind THEN t[k - 1] ELSE Append(t[k - 1], s[k])
                 /\ Without(s, kind) = t[Len(s)]
    BY <2>1, WithoutSteps
  <2> QED BY <2>1, <2>2 DEF s
<1>2. ASSUME NEW a PROVE Without(<<a>>, kind) = IF a.kind = kind THEN <<>> ELSE <<a>>
  <2> DEFINE s == <<a>>
  <2>1. s \in Seq({a}) /\ Len(s) = 1 /\ s[1] = a
    OBVIOUS
  <2> HIDE DEF s
  <2>2. PICK t : /\ t[0] = <<>>
                 /\ \A k \in 1..Len(s) :
                      t[k] = IF s[k].kind = kind THEN t[k - 1] ELSE Append(t[k - 1], s[k])
                 /\ Without(s, kind) = t[Len(s)]
    BY <2>1, WithoutSteps
  <2>3. 1 \in 1..Len(s) /\ 1 - 1 = 0
    BY <2>1
  <2>5. Append(<<>>, a) = <<a>>
    OBVIOUS
  <2>4. t[1] = IF a.kind = kind THEN <<>> ELSE <<a>>
    BY <2>1, <2>2, <2>3, <2>5
  <2> QED BY <2>1, <2>2, <2>4 DEF s
<1>3. ASSUME NEW a, NEW b
      PROVE  Without(<<a, b>>, kind) =
               IF a.kind = kind THEN (IF b.kind = kind THEN <<>> ELSE <<b>>)
                                ELSE (IF b.kind = kind THEN <<a>> ELSE <<a, b>>)
  <2> DEFINE s == <<a, b>>
  <2>1. s \in Seq({a, b}) /\ Len(s) = 2 /\ s[1] = a /\ s[2] = b
    OBVIOUS
  <2> HIDE DEF s
  <2>2. PICK t : /\ t[0] = <<>>
                 /\ \A k \in 1..Len(s) :
                      t[k] = IF s[k].kind = kind THEN t[k - 1] ELSE Append(t[k - 1], s[k])
                 /\ Without(s, kind) = t[Len(s)]
    BY <2>1, WithoutSteps
  <2>3. 1 \in 1..Len(s) /\ 2 \in 1..Len(s) /\ 1 - 1 = 0 /\ 2 - 1 = 1
    BY <2>1
  <2>4. Append(<<>>, a) = <<a>> /\ Append(<<>>, b) = <<b>> /\ Append(<<a>>, b) = <<a, b>>
    <3>1. Append(<<>>, a) = <<a>>
      OBVIOUS
    <3>2. Append(<<>>, b) = <<b>>
      OBVIOUS
    <3> QED BY <3>1, <3>2, Pair
  <2>5. t[1] = IF a.kind = kind THEN <<>> ELSE <<a>>
    BY <2>1, <2>2, <2>3, <2>4
  <2>6. t[2] = IF b.kind = kind THEN t[1] ELSE Append(t[1], b)
    BY <2>1, <2>2, <2>3
  <2>7. Without(s, kind) = t[2]
    BY <2>1, <2>2
  <2> HIDE DEF s
  <2>8. CASE a.kind = kind
    BY <2>4, <2>5, <2>6, <2>7, <2>8 DEF s
  <2>9. CASE a.kind # kind
    BY <2>4, <2>5, <2>6, <2>7, <2>9 DEF s
  <2> QED BY <2>8, <2>9
<1> QED BY <1>1, <1>2, <1>3

(* The device owes nothing but, perhaps, a request for a link check; or the *)
(* answer to the one command it has executed as well.                       *)
Alone == {<<>>, <<LinkCheckReq>>}
Answers(a) == {<<a>>, <<LinkCheckReq, a>>, <<a, LinkCheckReq>>}
Owes(answers, commands) ==
  \/ commands = <<>> /\ answers \in Alone
  \/ \E c \in Sound :
       /\ commands = <<c>>
       /\ IF c.kind = "LinkCheckAns" THEN answers \in Alone
          ELSE \E a \in ToBase : a.kind = AnswerTo[c.kind] /\ answers \in Answers(a)

(* The kinds of commands and of answers. *)
LEMMA AnswerKinds ==
  ASSUME NEW c \in Sound, c.kind # "LinkCheckAns"
  PROVE  /\ c.kind \in DOMAIN AnswerTo
         /\ AnswerTo[c.kind] # "LinkCheckReq"
<1>1. c \in FromBase
  BY DEF Sound
<1>2. c.kind \in Commands
  <2> DEFINE Frequencies == 0..2^24 - 1
             Values == \E v \in Byte : c = DutyCycleReq(v) \/ c = RxTimingSetupReq(v)
             Params == \E o \in 0..7, d \in 0..15, f \in Frequencies :
                         c = RxParamSetupReq(o, d, f)
  <2>1. c.kind \notin {"LinkAdrReq", "NewChannelReq", "LinkCheckAns"} =>
          c = DevStatusReq \/ Values \/ Params
    BY <1>1, Kinds, Zenon
  <2> HIDE DEF Frequencies
  <2>2. /\ c = DevStatusReq => c.kind = "DevStatusReq"
        /\ Values => c.kind \in {"DutyCycleReq", "RxTimingSetupReq"}
        /\ Params => c.kind = "RxParamSetupReq"
    BY DEF DevStatusReq, DutyCycleReq, RxTimingSetupReq, RxParamSetupReq
  <2> HIDE DEF Values, Params
  <2> QED BY <2>1, <2>2 DEF Commands
<1> QED BY <1>2 DEF Commands, AnswerTo

(* What the device owes are the answers to what it has executed. *)
LEMMA OwedAnswers ==
  ASSUME NEW answers, NEW commands, Owes(answers, commands)
  PROVE  LET given == Without(answers, "LinkCheckReq")
             asked == Without(commands, "LinkCheckAns")
         IN [i \in DOMAIN given |-> given[i].kind]
              = [i \in DOMAIN asked |-> AnswerTo[asked[i].kind]]
<1> DEFINE given == Without(answers, "LinkCheckReq")
           asked == Without(commands, "LinkCheckAns")
           L == LinkCheckReq
           Same == [i \in DOMAIN given |-> given[i].kind]
                     = [i \in DOMAIN asked |-> AnswerTo[asked[i].kind]]
<1>1. L.kind = "LinkCheckReq"
  BY DEF LinkCheckReq
<1> HIDE DEF L
<1>2. ASSUME answers \in Alone PROVE given = <<>>
  <2>1. answers = <<>> \/ answers = <<L>>
    BY <1>2 DEF Alone, L
  <2> QED BY <1>1, <2>1, WithoutShort
<1>3. ASSUME given = <<>>, asked = <<>>
      PROVE  Same
  <2> HIDE DEF given, asked
  <2> QED BY <1>3
<1>4. ASSUME commands = <<>>, answers \in Alone
      PROVE  Same
  <2>1. asked = <<>>
    BY <1>4, WithoutShort
  <2> QED BY <1>2, <1>3, <1>4, <2>1
<1>5. ASSUME NEW c \in Sound, commands = <<c>>, c.kind = "LinkCheckAns", answers \in Alone
      PROVE  given = <<>> /\ asked = <<>>
  <2>1. asked = <<>>
    BY <1>5, WithoutShort
  <2> QED BY <1>2, <1>5, <2>1
<1>6. ASSUME NEW c \in Sound, commands = <<c>>, c.kind # "LinkCheckAns",
             NEW a \in ToBase, a.kind = AnswerTo[c.kind], answers \in Answers(a)
      PROVE  given = <<a>> /\ asked = <<c>>
  <2>1. asked = <<c>>
    BY <1>6, WithoutShort
  <2>2. a.kind # "LinkCheckReq"
    BY <1>6, AnswerKinds
  <2>3. answers = <<a>> \/ answers = <<L, a>> \/ answers = <<a, L>>
    BY <1>6 DEF Answers, L
  <2>4. given = <<a>>
    <3>1. CASE answers = <<a>>
      BY <2>2, <3>1, WithoutShort
    <3>2. CASE answers = <<L, a>>
      BY <1>1, <2>2, <3>2, WithoutShort
    <3>3. CASE answers = <<a, L>>
      <4>1. given = IF a.kind = "LinkCheckReq"
                    THEN (IF L.kind = "LinkCheckReq" THEN <<>> ELSE <<L>>)
                    ELSE (IF L.kind = "LinkCheckReq" THEN <<a>> ELSE <<a, L>>)
        <5>1. \A x, y : Without(<<x, y>>, "LinkCheckReq") =
                IF x.kind = "LinkCheckReq"
                THEN (IF y.kind = "LinkCheckReq" THEN <<>> ELSE <<y>>)
                ELSE (IF y.kind = "LinkCheckReq" THEN <<x>> ELSE <<x, y>>)
          BY WithoutShort
        <5> QED BY <3>3, <5>1
      <4> QED BY <1>1, <2>2, <4>1
    <3> QED BY <2>3, <3>1, <3>2, <3>3
  <2> QED BY <2>1, <2>4
<1>7. ASSUME NEW c, NEW a, a.kind = AnswerTo[c.kind], given = <<a>>, asked = <<c>>
      PROVE  Same
  <2>1. DOMAIN <<a>> = {1} /\ DOMAIN <<c>> = {1} /\ <<a>>[1] = a /\ <<c>>[1] = c
    OBVIOUS
  <2> HIDE DEF given, asked
  <2>2. DOMAIN given = {1} /\ DOMAIN asked = {1} /\ given[1] = a /\ asked[1] = c
    BY <1>7, <2>1
  <2> QED BY <1>7, <2>2
<1> HIDE DEF given, asked, Same
<1>8. ASSUME \E c \in Sound :
               /\ commands = <<c>>
               /\ IF c.kind = "LinkCheckAns" THEN answers \in Alone
                  ELSE \E a \in ToBase : a.kind = AnswerTo[c.kind] /\ answers \in Answers(a)
      PROVE  Same
  <2>1. PICK c \in Sound :
          /\ commands = <<c>>
          /\ IF c.kind = "LinkCheckAns" THEN answers \in Alone
             ELSE \E a \in ToBase : a.kind = AnswerTo[c.kind] /\ answers \in Answers(a)
    BY <1>8
  <2>2. CASE c.kind = "LinkCheckAns"
    BY <1>3, <1>5, <2>1, <2>2
  <2>3. CASE c.kind # "LinkCheckAns"
    <3>1. PICK a \in ToBase : a.kind = AnswerTo[c.kind] /\ answers \in Answers(a)
      BY <2>1, <2>3
    <3>2. given = <<a>> /\ asked = <<c>>
      BY <1>6, <2>1, <2>3, <3>1
    <3> QED BY <1>7, <3>1, <3>2
  <2> QED BY <2>2, <2>3
<1>9. Same
  BY <1>4, <1>8 DEF Owes
<1> QED BY <1>9 DEF given, asked, Same

(* With one application the network asks for at most one command for a      *)
(* frame, and the device answers it in its next one: until then the answers *)
(* it owes are those to what it has executed.                               *)
AnsweredInv ==
  OneApplication =>
    /\ phase \in {"network", "downlink"} => Len(requested) <= 1
    /\ executed # <<>> => phase = "device" /\ currentPkt = NoPacket
    /\ Owes(dev.answers, executed)

(* A device that has executed nothing owes nothing.                         *)
LEMMA OwesNothing ==
  ASSUME NEW answers
  PROVE  Owes(answers, <<>>) <=> answers \in Alone
<1>1. \A c : <<>> # <<c>>
  OBVIOUS
<1> QED BY <1>1 DEF Owes

(* The answers to one command and a request for a link check fit in a       *)
(* header.                                                                  *)
LEMMA OwedFit ==
  ASSUME NEW answers, NEW commands, Owes(answers, commands)
  PROVE  Length(answers) < 16
<1>1. LinkCheckReq \in ToBase
  BY DEF ToBase, LinkCheckReq
<1>2. Length(<<>>) = 0 /\ <<>> \in OnAirSequences
  BY LengthOfNone DEF OnAirSequences
<1>3. ASSUME NEW a \in ToBase
      PROVE  <<a>> \in OnAirSequences /\ Length(<<a>>) \in 1..6
  <2>1. Append(<<>>, a) = <<a>>
    OBVIOUS
  <2>2. /\ Append(<<>>, a) \in OnAirSequences
        /\ Length(Append(<<>>, a)) = 0 + GetSerializedSize(a)
    BY <1>2, LengthAppend
  <2>3. GetSerializedSize(a) \in 1..6
    BY Sizes
  <2> QED BY <2>1, <2>2, <2>3
<1>4. ASSUME NEW a \in ToBase, NEW b \in ToBase PROVE Length(<<a, b>>) \in 2..12
  <2>1. Append(<<a>>, b) = <<a, b>>
    BY Pair
  <2>2. Length(Append(<<a>>, b)) = Length(<<a>>) + GetSerializedSize(b)
    BY <1>3, LengthAppend
  <2>3. GetSerializedSize(b) \in 1..6
    BY Sizes
  <2>4. PICK x \in 1..6, y \in 1..6 : x = Length(<<a>>) /\ y = GetSerializedSize(b)
    BY <1>3, <2>3
  <2>5. Length(<<a, b>>) = x + y
    BY <2>1, <2>2, <2>4, Zenon
  <2> QED BY <2>5
<1>5. ASSUME answers \in Alone PROVE Length(answers) < 16
  BY <1>1, <1>2, <1>3, <1>5 DEF Alone
<1>6. ASSUME NEW a \in ToBase, answers \in Answers(a) PROVE Length(answers) < 16
  <2>1. CASE answers = <<a>>
    BY <1>3, <2>1
  <2>2. CASE answers = <<LinkCheckReq, a>>
    <3>1. Length(answers) \in 2..12
      BY <1>1, <1>4, <2>2
    <3> QED BY <3>1
  <2>3. CASE answers = <<a, LinkCheckReq>>
    <3>1. Length(answers) \in 2..12
      BY <1>1, <1>4, <2>3
    <3> QED BY <3>1
  <2> QED BY <1>6, <2>1, <2>2, <2>3 DEF Answers
<1> QED BY <1>5, <1>6 DEF Owes

(* A request for a link check more, if there is none.                       *)
LEMMA OwesCheck ==
  ASSUME NEW answers, NEW commands, Owes(answers, commands), ~Contains(answers, LinkCheckReq)
  PROVE  Owes(Append(answers, LinkCheckReq), commands)
<1> DEFINE L == LinkCheckReq
<1>1. /\ Append(<<>>, L) = <<L>>
      /\ Contains(<<L>>, L)
      /\ \A a : Contains(<<L, a>>, L) /\ Contains(<<a, L>>, L)
  <2>1. Append(<<>>, L) = <<L>>
    OBVIOUS
  <2>2. Contains(<<L>>, L)
    BY DEF Contains
  <2>3. ASSUME NEW a PROVE Contains(<<L, a>>, L) /\ Contains(<<a, L>>, L)
    BY DEF Contains
  <2> QED BY <2>1, <2>2, <2>3
<1>2. ASSUME NEW a PROVE Append(<<a>>, L) = <<a, L>>
  BY Pair
<1> HIDE DEF L
<1>3. ~Contains(answers, L)
  BY DEF L
<1>4. ASSUME answers \in Alone PROVE Append(answers, L) \in Alone
  <2>1. answers = <<>> \/ answers = <<L>>
    BY <1>4 DEF Alone, L
  <2>2. answers = <<>>
    BY <1>1, <1>3, <2>1
  <2> QED BY <1>1, <2>2 DEF Alone, L
<1>5. ASSUME NEW a, answers \in Answers(a) PROVE Append(answers, L) \in Answers(a)
  <2>1. answers = <<a>> \/ answers = <<L, a>> \/ answers = <<a, L>>
    BY <1>5 DEF Answers, L
  <2>2. answers = <<a>>
    BY <1>1, <1>3, <2>1
  <2> QED BY <1>2, <2>2 DEF Answers, L
<1>6. Owes(Append(answers, L), commands)
  <2>1. CASE commands = <<>> /\ answers \in Alone
    BY <1>4, <2>1 DEF Owes
  <2>2. CASE ~(commands = <<>> /\ answers \in Alone)
    <3>1. PICK c \in Sound :
            /\ commands = <<c>>
            /\ IF c.kind = "LinkCheckAns" THEN answers \in Alone
               ELSE \E a \in ToBase : a.kind = AnswerTo[c.kind] /\ answers \in Answers(a)
      BY <2>2 DEF Owes
    <3>2. CASE c.kind = "LinkCheckAns"
      BY <1>4, <3>1, <3>2 DEF Owes
    <3>3. CASE c.kind # "LinkCheckAns"
      <4>1. PICK a \in ToBase : a.kind = AnswerTo[c.kind] /\ answers \in Answers(a)
        BY <3>1, <3>3
      <4>2. Append(answers, L) \in Answers(a)
        BY <1>5, <4>1
      <4> QED BY <3>1, <3>3, <4>1, <4>2 DEF Owes
    <3> QED BY <3>2, <3>3
  <2> QED BY <2>1, <2>2
<1> QED BY <1>6 DEF L

(* Executing at most one command: it is answered, unless it is an answer    *)
(* itself.                                                                  *)
LEMMA ExecutedOnce ==
  ASSUME NEW d, Coherent(d), d.answers \in Alone, NEW commands \in Seq(Sound),
         Len(commands) <= 1
  PROVE  Owes(ExecuteAll(d, commands).answers, commands)
<1>1. PICK t : Runs(t, d, commands) /\ ExecuteAll(d, commands) = t[Len(commands)]
  BY ExecuteAllSteps
<1>2. CASE commands = <<>>
  <2>1. Len(commands) = 0
    BY <1>2
  <2>2. ExecuteAll(d, commands) = d
    BY <1>1, <2>1 DEF Runs
  <2> QED BY <1>2, <2>2, OwesNothing
<1>3. CASE commands # <<>>
  <2> DEFINE c == commands[1]
  <2>1. Len(commands) = 1 /\ 1 \in 1..Len(commands) /\ 1 - 1 = 0 /\ c \in Sound
    <3>1. Len(commands) \in Nat /\ Len(commands) # 0
      BY <1>3, EmptySeq
    <3>2. PICK n \in Nat : n = Len(commands)
      BY <3>1
    <3>3. n = 1
      BY <3>1, <3>2
    <3>4. 1 \in 1..n /\ 1 - 1 = 0
      BY <3>3
    <3>5. c \in Sound
      <4> HIDE DEF c
      <4>1. \A i \in 1..Len(commands) : commands[i] \in Sound
        OBVIOUS
      <4> QED BY <3>2, <3>4, <4>1 DEF c
    <3> QED BY <3>2, <3>3, <3>4, <3>5
  <2>2. commands = <<c>>
    BY <2>1
  <2>3. ExecuteAll(d, commands) = Execute(d, c)
    BY <1>1, <2>1 DEF Runs
  <2> HIDE DEF c
  <2>4. CASE c.kind = "LinkCheckAns"
    <3>1. Execute(d, c) = d
      BY <2>1, <2>4, ExecuteKeeps
    <3> QED BY <2>1, <2>2, <2>3, <2>4, <3>1 DEF Owes
  <2>5. CASE c.kind # "LinkCheckAns"
    <3>1. PICK a : Answered(Execute(d, c), d, c, a)
      BY <2>1, <2>5, ExecuteKeeps
    <3>2. a \in ToBase /\ a.kind = AnswerTo[c.kind]
          /\ Execute(d, c).answers = Append(d.answers, a)
      BY <3>1 DEF Answered
    <3>3. Append(d.answers, a) \in Answers(a)
      <4> DEFINE L == LinkCheckReq
      <4>1. Append(<<>>, a) = <<a>>
        OBVIOUS
      <4>2. Append(<<L>>, a) = <<L, a>>
        BY Pair
      <4> HIDE DEF L
      <4>3. d.answers = <<>> \/ d.answers = <<L>>
        BY DEF Alone, L
      <4> QED BY <4>1, <4>2, <4>3 DEF Answers, L
    <3> QED BY <2>1, <2>2, <2>3, <2>5, <3>2, <3>3 DEF Owes
  <2> QED BY <2>4, <2>5
<1> QED BY <1>2, <1>3

(* At first nothing is owed.                                                *)
LEMMA InitAnswered == Init => AnsweredInv
<1> SUFFICES ASSUME Init PROVE AnsweredInv
  OBVIOUS
<1>1. PICK energy \in Energies : dev = NewDevice(energy)
  BY DEF Init
<1>2. dev.answers = <<>>
  BY <1>1, NewDeviceCoherent, ExchangeConstants DEF ExchangeConstants
<1>3. Owes(dev.answers, <<>>)
  BY <1>2, OwesNothing DEF Alone
<1> QED BY <1>3 DEF Init, AnsweredInv

(* A new frame takes what is owed along.                                    *)
LEMMA NewFrameAnswered == IInv /\ AnsweredInv /\ NewFrame => AnsweredInv'
<1> SUFFICES ASSUME IInv, NewFrame PROVE AnsweredInv'
  OBVIOUS
<1> DEFINE d == [dev EXCEPT !.answers = <<>>]
<1>1. Transmit(d) /\ executed' = <<>>
  BY DEF NewFrame
<1>2. Coherent(dev)
  BY DEF IInv, DeviceInv
<1>3. Coherent(d) /\ d.answers = <<>>
  BY <1>2, EmptyKeeps
<1> HIDE DEF d
<1>4. dev'.answers = <<>> /\ phase' = "uplink"
  BY <1>1, <1>3, TransmitKeeps
<1>5. Owes(<<>>, <<>>)
  BY OwesNothing DEF Alone
<1> QED BY <1>1, <1>4, <1>5 DEF AnsweredInv

(* A retransmission follows no command.                                     *)
LEMMA RetransmitAnswered == IInv /\ AnsweredInv /\ Retransmit => AnsweredInv'
<1> SUFFICES ASSUME IInv, AnsweredInv, Retransmit PROVE AnsweredInv'
  OBVIOUS
<1>1. /\ phase = "device" /\ currentPkt # NoPacket
      /\ Transmit(dev) \/ Transmit(Slower(dev))
      /\ UNCHANGED <<seqNum, currentPkt, historyVars>>
  BY DEF Retransmit
<1>2. Coherent(dev)
  BY DEF IInv, DeviceInv
<1>3. Coherent(Slower(dev)) /\ Slower(dev).answers = dev.answers
  BY <1>2, SlowerKeeps DEF Keeps
<1>4. dev'.answers = dev.answers /\ phase' = "uplink"
  BY <1>1, <1>2, <1>3, TransmitKeeps
<1> QED BY <1>1, <1>4 DEF AnsweredInv, historyVars

(* A channel that becomes free is no answer.                                *)
LEMMA ChannelFreeAnswered == IInv /\ AnsweredInv /\ ChannelFree => AnsweredInv'
<1> SUFFICES ASSUME IInv, AnsweredInv, ChannelFree PROVE AnsweredInv'
  OBVIOUS
<1>1. PICK i \in Slots, last \in BOOLEAN :
        MayFree(dev, i, last) /\ dev' = FreeChannel(dev, i, last)
  BY DEF ChannelFree
<1>2. phase = "device" /\ UNCHANGED <<seqNum, currentPkt, phase, networkVars, downlink, historyVars>>
  BY DEF ChannelFree
<1>3. dev'.answers = dev.answers
  <2>1. Coherent(dev)
    BY DEF IInv, DeviceInv
  <2> QED BY <1>1, <2>1, FreeKeeps
<1> QED BY <1>2, <1>3 DEF AnsweredInv, historyVars

(* A request for a link check is queued once.                               *)
LEMMA AskLinkCheckAnswered == IInv /\ AnsweredInv /\ AskLinkCheck => AnsweredInv'
<1> SUFFICES ASSUME IInv, AnsweredInv, AskLinkCheck PROVE AnsweredInv'
  OBVIOUS
<1>1. /\ phase = "device" /\ ~Contains(dev.answers, LinkCheckReq)
      /\ dev' = SetMacAnswer(dev, LinkCheckReq)
      /\ UNCHANGED <<seqNum, currentPkt, phase, networkVars, downlink, historyVars>>
  BY DEF AskLinkCheck
<1>2. Coherent(dev)
  BY DEF IInv, DeviceInv
<1>3. LinkCheckReq \in ToBase
  BY DEF ToBase, LinkCheckReq
<1>4. dev'.answers = Append(dev.answers, LinkCheckReq)
  BY <1>1, <1>2, <1>3, AnswerKeeps
<1>5. OneApplication => Owes(dev'.answers, executed)
  BY <1>1, <1>4, OwesCheck DEF AnsweredInv
<1> QED BY <1>1, <1>5 DEF AnsweredInv, historyVars

(* An application asks for at most one command.                             *)
LEMMA AnswerAnswered ==
  ASSUME NEW a \in Applications
  PROVE  IInv /\ AnsweredInv /\ Answer(a) => AnsweredInv'
<1> SUFFICES ASSUME IInv, AnsweredInv, Answer(a), OneApplication PROVE AnsweredInv'
  BY DEF AnsweredInv
<1> DEFINE header == PeekHeader(report)
           Sendable == IF Contains(header.commands, LinkCheckReq)
                       THEN {<<LinkCheckAns(GetMargin(Strength), 1)>>}
                       ELSE {<<c>> : c \in Requests} \cup {<<>>}
<1>1. a \in answering /\ UNCHANGED <<deviceVars, phase, latest, downlink, executed, applied, carried>>
  BY DEF Answer
<1>2. \/ \E command \in Sendable : requested' = requested \o command
      \/ UNCHANGED requested
  BY Zenon DEF Answer
<1>3. phase = "network" /\ requested = <<>>
  BY <1>1 DEF IInv, UplinkInv, RequestedInv
<1>4. \A command \in Sendable : \E S : command \in Seq(S) /\ Len(command) <= 1
  <2> DEFINE check == LinkCheckAns(GetMargin(Strength), 1)
  <2> HIDE DEF check
  <2>1. \A c : <<c>> \in Seq({c}) /\ Len(<<c>>) <= 1
    OBVIOUS
  <2>2. <<>> \in Seq({}) /\ Len(<<>>) <= 1
    OBVIOUS
  <2>3. \A command \in Sendable : command = <<>> \/ \E c : command = <<c>>
    <3> HIDE DEF header
    <3> QED BY DEF check
  <2> HIDE DEF Sendable
  <2> QED BY <2>1, <2>2, <2>3
<1> HIDE DEF Sendable
<1>5. Len(requested') <= 1
  <2>1. CASE UNCHANGED requested
    BY <1>3, <2>1
  <2>2. ASSUME NEW command \in Sendable, requested' = requested \o command
        PROVE  Len(requested') <= 1
    <3>1. PICK S : command \in Seq(S) /\ Len(command) <= 1
      BY <1>4
    <3>2. <<>> \o command = command
      BY <3>1
    <3> QED BY <1>3, <2>2, <3>1, <3>2
  <2> QED BY <1>2, <2>1, <2>2
<1> QED BY <1>1, <1>3, <1>5 DEF AnsweredInv, deviceVars

(* The device executes what was requested, and ends its frame.              *)
LEMMA NotifyReceptionEndOkAnswered ==
  IInv /\ AnsweredInv /\ NotifyReceptionEndOk => AnsweredInv'
<1> SUFFICES ASSUME IInv, AnsweredInv, NotifyReceptionEndOk, OneApplication PROVE AnsweredInv'
  BY DEF AnsweredInv
<1> DEFINE header == PeekHeader(AfterPhyHeader(OnAir(AfterNetworkTrailer(downlink))))
<1>1. phase = "downlink" /\ phase' = "device" /\ executed' = executed \o header.commands
  BY Zenon DEF NotifyReceptionEndOk
<1>2. /\ currentPkt' = IF IsAcknowledgment(header) THEN NoPacket ELSE currentPkt
      /\ \E snr \in Snrs :
           dev' = [ExecuteAll([dev EXCEPT !.snr = snr], header.commands) EXCEPT !.snr = 0]
  BY Zenon DEF NotifyReceptionEndOk
<1>3. IsPacket(downlink, Downlinks, Trailer) /\ requested = PeekHeader(downlink).commands
  BY <1>1 DEF IInv, DownlinkInv, RequestedInv
<1>4. header = PeekHeader(downlink) /\ header \in Downlinks
  BY <1>3, DownlinkReceived
<1> HIDE DEF header
<1> DEFINE commands == header.commands
<1>5. IsAcknowledgment(header) /\ commands \in Seq(Sound)
  BY <1>4, DownlinkFields
<1>6. Len(commands) <= 1 /\ executed = <<>> /\ Owes(dev.answers, <<>>)
  BY <1>1, <1>3, <1>4 DEF AnsweredInv
<1>7. dev.answers \in Alone /\ executed' = commands
  <2>1. <<>> \o commands = commands
    BY <1>5
  <2> QED BY <1>1, <1>6, <2>1, OwesNothing
<1>8. PICK snr \in Snrs :
        dev' = [ExecuteAll([dev EXCEPT !.snr = snr], commands) EXCEPT !.snr = 0]
  BY <1>2
<1> DEFINE d == [dev EXCEPT !.snr = snr]
           r == ExecuteAll(d, commands)
<1>9. Coherent(dev) /\ \A i \in DOMAIN dev.answers : dev.answers[i] \in Confirming(applied)
  BY DEF IInv, DeviceInv
<1>10. Keeps(d, dev)
  <2>1. snr \in Int
    BY ExchangeConstants DEF ExchangeConstants
  <2> QED BY <1>9, <2>1, SnrKeeps
<1> HIDE DEF d
<1>11. Coherent(r)
  BY <1>5, <1>9, <1>10, ExecuteAllKeeps DEF Keeps
<1>12. Owes(r.answers, commands)
  BY <1>5, <1>6, <1>7, <1>10, ExecutedOnce DEF Keeps
<1> HIDE DEF r
<1>13. dev' = [r EXCEPT !.snr = 0]
  BY <1>8 DEF r, d
<1>14. Keeps(dev', r)
  BY <1>11, <1>13, SnrKeeps
<1> HIDE DEF commands
<1>15. currentPkt' = NoPacket /\ Owes(dev'.answers, executed')
  BY <1>2, <1>5, <1>7, <1>12, <1>14 DEF Keeps
<1> QED BY <1>1, <1>15 DEF AnsweredInv

(* The other steps change neither what is owed nor what was executed.       *)
LEMMA OthersAnswered ==
  AnsweredInv /\ (GiveUp \/ UplinkLost \/ MessageReceived \/ SendAck \/ DownlinkLost
                    \/ UNCHANGED vars) => AnsweredInv'
<1>1. AnsweredInv /\ GiveUp => AnsweredInv'
  BY DEF AnsweredInv, GiveUp, historyVars
<1>2. AnsweredInv /\ UplinkLost => AnsweredInv'
  BY DEF AnsweredInv, UplinkLost, deviceVars, historyVars
<1>3. AnsweredInv /\ MessageReceived => AnsweredInv'
  <2> SUFFICES ASSUME AnsweredInv, MessageReceived PROVE AnsweredInv'
    OBVIOUS
  <2>1. /\ phase = "uplink" /\ phase' = "network" /\ requested' = <<>>
        /\ UNCHANGED <<deviceVars, downlink, executed, applied, carried, told>>
    BY Zenon DEF MessageReceived
  <2>2. Len(<<>>) <= 1
    OBVIOUS
  <2> QED BY <2>1, <2>2 DEF AnsweredInv, deviceVars
<1>4. AnsweredInv /\ SendAck => AnsweredInv'
  BY DEF AnsweredInv, SendAck, deviceVars, historyVars
<1>5. AnsweredInv /\ DownlinkLost => AnsweredInv'
  BY DEF AnsweredInv, DownlinkLost, deviceVars
<1>6. AnsweredInv /\ UNCHANGED vars => AnsweredInv'
  BY DEF AnsweredInv, vars, deviceVars, historyVars
<1> QED BY <1>1, <1>2, <1>3, <1>4, <1>5, <1>6

(* Every step keeps it.                                                     *)
LEMMA NextAnswered == IInv /\ AnsweredInv /\ [Next]_vars => AnsweredInv'
<1> SUFFICES ASSUME IInv, AnsweredInv, [Next]_vars PROVE AnsweredInv'
  OBVIOUS
<1> QED BY NewFrameAnswered, RetransmitAnswered, ChannelFreeAnswered, AskLinkCheckAnswered,
           AnswerAnswered, NotifyReceptionEndOkAnswered, OthersAnswered DEF Next

-----------------------------------------------------------------------------
(* The theorems *)

(* The invariant holds in every reachable state of the exchange between     *)
(* LoRaNetDevice, the gateway, LoRaNetwork and the applications.            *)
THEOREM Invariance == Spec => []IInv
BY InitInv, NextInv, PTL DEF Spec

(* Writing again what was read from a packet gives the packet. *)
LEMMA PacketsFaithful ==
  ASSUME NEW direction \in Directions, NEW H, H \subseteq Headers(direction),
         NEW rest \in Seq(Byte), NEW p, IsPacket(p, H, rest)
  PROVE  LET header == PeekHeader(p) IN
         /\ SerializeHeader(header) \o AfterHeader(p) = p
         /\ HeaderSize(header) = BytesRead(p)
         /\ GetCommandsLength(header) < 16
<1>1. PeekHeader(p) \in Headers(direction) /\ BytesRead(p) = HeaderSize(PeekHeader(p))
      /\ AfterHeader(p) = rest /\ p = SerializeHeader(PeekHeader(p)) \o rest
  BY IsPacketRead, ExchangeConstants
<1>2. GetCommandsLength(PeekHeader(p)) < 16
  BY <1>1 DEF Headers
<1> QED BY <1>1, <1>2

(* The packets in transit are such packets. *)
LEMMA IInvWireFaithful == IInv => WireFaithful
<1> SUFFICES ASSUME IInv, NEW p \in Packets
             PROVE  LET header == PeekHeader(p) IN
                    /\ SerializeHeader(header) \o AfterHeader(p) = p
                    /\ HeaderSize(header) = BytesRead(p)
                    /\ GetCommandsLength(header) < 16
  BY DEF WireFaithful
<1>1. Downlinks \subseteq Headers("FROMBASE") /\ \A A : Uplinks(A) \subseteq Headers("TOBASE")
  BY DEF Downlinks, Uplinks, Bearing
<1>2. /\ "TOBASE" \in Directions /\ "FROMBASE" \in Directions /\ Payload \in Seq(Byte)
      /\ Trailer \in Seq(Byte) /\ Payload \o Reception \in Seq(Byte)
  BY Constants, FixedParts
<1>3. CASE p = currentPkt
  <2>1. IsPacket(p, Uplinks(carried), Payload)
    BY <1>3 DEF IInv, UplinkInv, Packets
  <2> QED BY <1>1, <1>2, <2>1, PacketsFaithful
<1>4. CASE p = report
  <2> DEFINE rest == Payload \o Reception
  <2>1. IsPacket(p, Uplinks(AllSettings), rest) /\ rest \in Seq(Byte)
    BY <1>2, <1>4 DEF IInv, UplinkInv, Packets
  <2> HIDE DEF rest
  <2> QED BY <1>1, <1>2, <2>1, PacketsFaithful
<1>5. CASE p = slot \/ p = downlink
  <2>1. IsPacket(p, Downlinks, Trailer)
    BY <1>5 DEF IInv, DownlinkInv, Packets
  <2> QED BY <1>1, <1>2, <2>1, PacketsFaithful
<1> QED BY <1>3, <1>4, <1>5 DEF Packets

(* Every packet of the exchange, the device's current one, the report, the  *)
(* stored and the sent downlink, is read by LoRaMacHeader::Deserialize as   *)
(* it was written by Serialize: writing it again gives the same bytes, the  *)
(* reader stops where the writer did and the commands fit the four bits of  *)
(* their length.                                                            *)
THEOREM PacketsAreFaithful == Spec => []WireFaithful
BY Invariance, IInvWireFaithful, PTL

(* Coherent settings are those SettingsCoherent is about. *)
LEMMA IInvSettings == IInv => SettingsCoherent
BY DEF IInv, DeviceInv, Coherent, SettingsCoherent

(* Whatever commands the device executes, in whatever order and with        *)
(* whatever losses, no channel of LoRaNetDevice is used without a frequency *)
(* nor has a rate above its maximum.                                        *)
THEOREM SettingsStayCoherent == Spec => []SettingsCoherent
BY Invariance, IInvSettings, PTL

(* The invariant has this part. *)
LEMMA IInvConfirmed == IInv => ConfirmedAsExecuted
BY DEF IInv

(* With the names of power and data rate exchanged, as LinkAdrReq::Execute  *)
(* exchanges them, the applications are told of a setting only if the       *)
(* device has made the change, whatever is lost or sent again.  As the      *)
(* names stand, of the channel mask and of new channels.                    *)
THEOREM ConfirmationsAreOfChanges == Spec => []ConfirmedAsExecuted
BY Invariance, IInvConfirmed, PTL

(* The downlink that arrives bears what was requested. *)
LEMMA ReceivedAsRequested ==
  ASSUME OneApplication
  PROVE  IInv /\ [Next]_vars =>
           [NotifyReceptionEndOk => executed' = executed \o requested]_vars
<1> SUFFICES ASSUME IInv, NotifyReceptionEndOk PROVE executed' = executed \o requested
  OBVIOUS
<1> DEFINE header == PeekHeader(AfterPhyHeader(OnAir(AfterNetworkTrailer(downlink))))
<1>1. phase = "downlink" /\ executed' = executed \o header.commands
  BY Zenon DEF NotifyReceptionEndOk
<1>2. IsPacket(downlink, Downlinks, Trailer) /\ requested = PeekHeader(downlink).commands
  BY <1>1 DEF IInv, DownlinkInv, RequestedInv
<1>3. header = PeekHeader(downlink)
  BY <1>2, DownlinkReceived
<1> QED BY <1>1, <1>2, <1>3, Zenon

(* With one application the device executes the commands the application    *)
(* has asked for in the round, each once and in their order, whatever       *)
(* LoRaNetwork merges them with.  With two the stored message loses those   *)
(* of the first (LoRaNetwork::Send reads the stored header twice).          *)
THEOREM CommandsAreExecutedAsRequested ==
  ASSUME OneApplication
  PROVE  Spec => ExecutedAsRequested
<1>1. Spec => []IInv /\ [][Next]_vars
  BY Invariance, PTL DEF Spec
<1>2. IInv /\ [Next]_vars => [NotifyReceptionEndOk => executed' = executed \o requested]_vars
  BY ReceivedAsRequested
<1> QED BY <1>1, <1>2, PTL DEF ExecutedAsRequested

(* The new frame bears what was owed.                                       *)
LEMMA OwedAreSent ==
  ASSUME OneApplication
  PROVE  IInv /\ AnsweredInv /\ [Next]_vars =>
           [seqNum' # seqNum =>
              LET answers == Without(PeekHeader(currentPkt').commands, "LinkCheckReq")
                  asked == Without(executed, "LinkCheckAns")
              IN [i \in DOMAIN answers |-> answers[i].kind]
                   = [i \in DOMAIN asked |-> AnswerTo[asked[i].kind]] ]_vars
<1> SUFFICES ASSUME IInv, AnsweredInv, Next, seqNum' # seqNum
             PROVE  LET answers == Without(PeekHeader(currentPkt').commands, "LinkCheckReq")
                        asked == Without(executed, "LinkCheckAns")
                    IN [i \in DOMAIN answers |-> answers[i].kind]
                         = [i \in DOMAIN asked |-> AnswerTo[asked[i].kind]]
  BY Zenon
<1>1. NewFrame
  BY DEF Next, Retransmit, GiveUp, ChannelFree, AskLinkCheck, UplinkLost, MessageReceived,
         Answer, SendAck, NotifyReceptionEndOk, DownlinkLost, deviceVars
<1>2. PICK adr \in StrayBits, adrAck \in BOOLEAN :
        currentPkt' = WithAnswers(DataFrame(adr), dev.answers, adrAck)
  BY <1>1 DEF NewFrame
<1>3. Owes(dev.answers, executed)
  BY DEF AnsweredInv
<1>4. seqNum \in Nat /\ dev.answers \in Seq(Confirming(applied))
  <2> DEFINE s == dev.answers
  <2>1. s \in Seq(ToBase) /\ \A i \in DOMAIN s : s[i] \in Confirming(applied)
    BY DEF IInv, DeviceInv, Coherent
  <2> HIDE DEF s
  <2>2. s \in Seq(Confirming(applied))
    BY <2>1
  <2> QED BY <2>2 DEF s, IInv, DeviceInv
<1>5. PeekHeader(currentPkt').commands = dev.answers
  <2>1. adr \in {0, 1}
    BY ExchangeConstants DEF ExchangeConstants
  <2>2. Length(dev.answers) < 16
    BY <1>3, OwedFit
  <2> QED BY <1>2, <1>4, <2>1, <2>2, NewFrameMade
<1> QED BY <1>3, <1>5, OwedAnswers

(* With one application the next new frame of the device answers every      *)
(* command it has executed since its last one, in their order: nothing      *)
(* SetMacCommand drops is an answer, as a command and a link check fit in a *)
(* header together.                                                         *)
THEOREM CommandsAreAnswered ==
  ASSUME OneApplication
  PROVE  Spec => AnswersComplete
<1>1. Spec => [](IInv /\ AnsweredInv) /\ [][Next]_vars
  <2>1. Init => IInv /\ AnsweredInv
    BY InitInv, InitAnswered
  <2>2. IInv /\ AnsweredInv /\ [Next]_vars => (IInv /\ AnsweredInv)'
    BY NextInv, NextAnswered
  <2> QED BY <2>1, <2>2, PTL DEF Spec
<1>2. IInv /\ AnsweredInv /\ [Next]_vars =>
        [seqNum' # seqNum =>
           LET answers == Without(PeekHeader(currentPkt').commands, "LinkCheckReq")
               asked == Without(executed, "LinkCheckAns")
           IN [i \in DOMAIN answers |-> answers[i].kind]
                = [i \in DOMAIN asked |-> AnswerTo[asked[i].kind]] ]_vars
  BY OwedAreSent
<1> QED BY <1>1, <1>2, PTL DEF AnswersComplete

=============================================================================
