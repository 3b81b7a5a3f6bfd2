-------------------------- MODULE LoRaSpectrumProofs --------------------------
(***************************************************************************)
(* Proofs about LoRaSpectrum, for any set of signals, powers, channels and *)
(* settings of the windows.                                                *)
(*                                                                         *)
(* The radios add up power densities with the folds of the community       *)
(* modules, so the first part is a small theory of such sums over finite   *)
(* sets.  The rest follows the components: the gateway, the device.        *)
(***************************************************************************)
EXTENDS LoRaSpectrum, FiniteSetTheorems, WellFoundedInduction, TLAPS

(* Sums over finite sets *)

(* A set of subsets of a finite set has them all, if it has each one whose *)
(* proper subsets it has.                                                  *)
LEMMA SubsetInduction ==
  ASSUME NEW S, IsFiniteSet(S),
         NEW Good \in SUBSET SUBSET S,
         \A t \in SUBSET S : (\A u \in SUBSET t : u # t => u \in Good) => t \in Good
  PROVE  Good = SUBSET S
<1> SUFFICES ASSUME Good # SUBSET S PROVE FALSE
  OBVIOUS
<1> DEFINE Missing == {t \in SUBSET S : t \notin Good}
           Sizes == {n \in Nat : \E t \in Missing : Cardinality(t) = n}
           Less == {p \in Nat \X Nat : p[1] < p[2]}
<1>1. Sizes # {}
  <2>1. PICK t \in SUBSET S : t \notin Good
    OBVIOUS
  <2>2. Cardinality(t) \in Nat
    BY FS_Subset, FS_CardinalityType
  <2> QED BY <2>1, <2>2
<1>2. Sizes \subseteq Nat
  OBVIOUS
<1>3. PICK n \in Sizes : \A m \in Sizes : <<m, n>> \notin Less
  <2>1. IsWellFoundedOn(Less, Nat)
    BY NatLessThanWellFounded DEF OpToRel
  <2> HIDE DEF Sizes, Less
  <2> QED BY <1>1, <1>2, <2>1, WFMin, ZenonT(60)
<1>4. \A m \in Sizes : ~(m < n)
  BY <1>3
<1>5. PICK t \in SUBSET S : t \notin Good /\ Cardinality(t) = n
  OBVIOUS
<1>6. ASSUME NEW u \in SUBSET t, u # t PROVE u \in Good
  <2>1. IsFiniteSet(t)
    BY FS_Subset
  <2>2. /\ IsFiniteSet(u) /\ Cardinality(u) \in Nat
        /\ Cardinality(u) <= Cardinality(t) /\ Cardinality(u) # Cardinality(t)
    BY <1>6, <2>1, FS_Subset, FS_CardinalityType
  <2> QED BY <1>4, <1>5, <1>6, <2>2
<1> QED BY <1>5, <1>6

(* A function that adds up f as the folds of the community modules do. *)
SumsUp(h, f, S) ==
  h = [t \in SUBSET S |->
         IF t = {} THEN 0
         ELSE LET x == CHOOSE x \in t : TRUE IN f[x] + h[t \ {x}]]

(* What such a function returns, one element at a time. *)
LEMMA SumStep ==
  ASSUME NEW f, NEW S, NEW h, SumsUp(h, f, S)
  PROVE  /\ h[{}] = 0
         /\ \A t \in SUBSET S : t # {} =>
              \E x \in t : h[t] = f[x] + h[t \ {x}] /\ x = CHOOSE y \in t : TRUE
<1>1. {} \in SUBSET S
  OBVIOUS
<1>2. h[{}] = 0
  BY <1>1 DEF SumsUp
<1>3. ASSUME NEW t \in SUBSET S, t # {}
      PROVE  \E x \in t : h[t] = f[x] + h[t \ {x}] /\ x = CHOOSE y \in t : TRUE
  <2>1. PICK x \in t : x = CHOOSE y \in t : TRUE
    BY <1>3
  <2>2. h[t] = f[x] + h[t \ {x}]
    BY <1>3, <2>1 DEF SumsUp
  <2> QED BY <2>1, <2>2
<1> QED BY <1>2, <1>3

(* There is only one, also when it is looked at on a smaller set. *)
LEMMA SumUnique ==
  ASSUME NEW S, NEW T, NEW f, NEW g, NEW h,
         SumsUp(g, f, S), SumsUp(h, f, T),
         NEW U, U \subseteq S, U \subseteq T, IsFiniteSet(U)
  PROVE  g[U] = h[U]
<1> DEFINE Good == {t \in SUBSET U : g[t] = h[t]}
<1>1. ASSUME NEW t \in SUBSET U, \A u \in SUBSET t : u # t => u \in Good
      PROVE  t \in Good
  <2>1. CASE t = {}
    BY <2>1, SumStep
  <2>2. CASE t # {}
    <3>1. PICK x \in t : x = CHOOSE y \in t : TRUE
      BY <2>2
    <3>2. g[t] = f[x] + g[t \ {x}] /\ h[t] = f[x] + h[t \ {x}]
      <4>1. t \in SUBSET S /\ t \in SUBSET T
        OBVIOUS
      <4>2. /\ \E y \in t : g[t] = f[y] + g[t \ {y}] /\ y = CHOOSE z \in t : TRUE
            /\ \E y \in t : h[t] = f[y] + h[t \ {y}] /\ y = CHOOSE z \in t : TRUE
        BY <2>2, <4>1, SumStep
      <4> QED BY <3>1, <4>2
    <3>3. t \ {x} \in Good
      BY <1>1, <3>1
    <3> QED BY <3>2, <3>3
  <2> QED BY <2>1, <2>2
<1>2. Good = SUBSET U
  <2>1. Good \in SUBSET SUBSET U
    OBVIOUS
  <2> HIDE DEF Good
  <2> QED BY <1>1, <2>1, SubsetInduction
<1>3. U \in Good
  BY <1>2
<1> QED BY <1>3

(* Whichever element is left out, the rest is added up to the same. *)
InAnyOrder(h, f, S) ==
  \A t \in SUBSET S : /\ h[t] \in Int
                      /\ \A x \in t : h[t] = f[x] + h[t \ {x}]

HasIntegers(f, S) == \A x \in S : f[x] \in Int

(* The order does not matter: any element can be the last one added. *)
LEMMA SumOfRest ==
  ASSUME NEW S, IsFiniteSet(S), NEW f, HasIntegers(f, S),
         NEW h, SumsUp(h, f, S)
  PROVE  InAnyOrder(h, f, S)
<1> USE DEF HasIntegers
<1> DEFINE Sound(t) == h[t] \in Int /\ \A x \in t : h[t] = f[x] + h[t \ {x}]
           Good == {t \in SUBSET S : Sound(t)}
<1>1. ASSUME NEW t \in SUBSET S, \A u \in SUBSET t : u # t => u \in Good
      PROVE  t \in Good
  <2>1. CASE t = {}
    BY <2>1, SumStep
  <2>2. CASE t # {}
    <3>1. PICK c \in t : h[t] = f[c] + h[t \ {c}]
      BY <2>2, SumStep
    <3>2. \A y \in t : /\ h[t \ {y}] \in Int
                       /\ \A x \in t \ {y} : h[t \ {y}] = f[x] + h[(t \ {y}) \ {x}]
      BY <1>1
    <3>3. h[t] \in Int /\ \A y \in t : f[y] \in Int
      <4>1. h[t \ {c}] \in Int /\ \A y \in t : f[y] \in Int
        BY <3>2
      <4> QED BY <3>1, <4>1
    <3>4. ASSUME NEW x \in t PROVE h[t] = f[x] + h[t \ {x}]
      <4>1. CASE x = c
        BY <3>1, <4>1
      <4>2. CASE x # c
        <5>1. PICK r : r = (t \ {c}) \ {x} /\ r = (t \ {x}) \ {c}
          OBVIOUS
        <5>2. h[t \ {c}] = f[x] + h[r] /\ h[t \ {x}] = f[c] + h[r]
          BY <3>2, <4>2, <5>1
        <5>3. r \in Good
          BY <1>1, <5>1
        <5>4. h[r] \in Int
          BY <5>3
        <5> HIDE DEF Good, Sound
        <5> QED BY <3>1, <3>3, <5>2, <5>4
      <4> QED BY <4>1, <4>2
    <3> QED BY <3>3, <3>4
  <2> QED BY <2>1, <2>2
<1>2. Good = SUBSET S
  <2>1. Good \in SUBSET SUBSET S
    OBVIOUS
  <2> HIDE DEF Good
  <2> QED BY <1>1, <2>1, SubsetInduction
<1> QED BY <1>2 DEF InAnyOrder

(* There is such a function for every finite set. *)
LEMMA SumExists ==
  ASSUME NEW S, IsFiniteSet(S), NEW f
  PROVE  \E h : SumsUp(h, f, S)
<1> DEFINE Good == {t \in SUBSET S : \E h : SumsUp(h, f, t)}
<1>1. ASSUME NEW t \in SUBSET S, \A u \in SUBSET t : u # t => u \in Good
      PROVE  t \in Good
  <2>1. PICK g : \A u \in SUBSET t : u # t => SumsUp(g[u], f, u)
    <3> DEFINE k == [u \in SUBSET t |-> CHOOSE h : SumsUp(h, f, u)]
    <3>1. \A u \in SUBSET t : u # t => SumsUp(k[u], f, u)
      BY <1>1
    <3> QED BY <3>1
  <2> DEFINE x(u) == CHOOSE y \in u : TRUE
             h == [u \in SUBSET t |->
                     IF u = {} THEN 0 ELSE f[x(u)] + g[u \ {x(u)}][u \ {x(u)}]]
  <2>2. \A u \in SUBSET t : u # {} => x(u) \in u
    OBVIOUS
  <2>3. h[{}] = 0
    OBVIOUS
  <2>4. ASSUME NEW u \in SUBSET t, u # {}
        PROVE  h[u] = f[x(u)] + g[u \ {x(u)}][u \ {x(u)}]
    BY <2>4
  <2>5. h = [u \in SUBSET t |-> h[u]]
    OBVIOUS
  <2> HIDE DEF h
  <2>6. ASSUME NEW u \in SUBSET t, u # t PROVE h[u] = g[u][u]
    <3>1. SumsUp(g[u], f, u)
      BY <2>1, <2>6
    <3>2. CASE u = {}
      BY <2>3, <3>1, <3>2, SumStep
    <3>3. CASE u # {}
      <4>1. g[u][u] = f[x(u)] + g[u][u \ {x(u)}]
        <5>1. \E y \in u : /\ g[u][u] = f[y] + g[u][u \ {y}]
                          /\ y = CHOOSE z \in u : TRUE
          <6> HIDE DEF x
          <6> QED BY <3>1, <3>3, SumStep
        <5> QED BY <5>1
      <4>2. PICK v : v = u \ {x(u)}
        OBVIOUS
      <4>3. v \in SUBSET t /\ v # t /\ v \subseteq u
        BY <2>2, <3>3, <4>2
      <4>4. IsFiniteSet(v)
        BY <4>3, FS_Subset
      <4>5. SumsUp(g[v], f, v)
        BY <2>1, <4>3
      <4>6. g[u][v] = g[v][v]
        BY <3>1, <4>3, <4>4, <4>5, SumUnique
      <4> QED BY <2>4, <3>3, <4>1, <4>2, <4>6
    <3> QED BY <3>2, <3>3
  <2>7. \A u \in SUBSET t : h[u] = IF u = {} THEN 0 ELSE f[x(u)] + h[u \ {x(u)}]
    <3> SUFFICES ASSUME NEW u \in SUBSET t, u # {}
                 PROVE  h[u] = f[x(u)] + h[u \ {x(u)}]
      BY <2>3
    <3>1. u \ {x(u)} \in SUBSET t /\ u \ {x(u)} # t
      BY <2>2
    <3>2. h[u \ {x(u)}] = g[u \ {x(u)}][u \ {x(u)}]
      BY <2>6, <3>1
    <3> QED BY <2>4, <3>2
  <2>8. SumsUp(h, f, t)
    BY <2>5, <2>7 DEF SumsUp
  <2> QED BY <2>8
<1>2. Good = SUBSET S
  <2>1. Good \in SUBSET SUBSET S
    OBVIOUS
  <2> HIDE DEF Good
  <2> QED BY <1>1, <2>1, SubsetInduction
<1>3. S \in Good
  BY <1>2
<1> QED BY <1>3

(* A sum that is spelled out: a signal fills six bins. *)
LEMMA SumOfSix ==
  ASSUME NEW b \in Int, NEW f, HasIntegers(f, b..(b + 5)),
         NEW h, SumsUp(h, f, b..(b + 5))
  PROVE  h[b..(b + 5)] =
           f[b] + f[b + 1] + f[b + 2] + f[b + 3] + f[b + 4] + f[b + 5]
<1>1. IsFiniteSet(b..(b + 5))
  BY FS_Interval
<1>7. InAnyOrder(h, f, b..(b + 5))
  BY <1>1, SumOfRest
<1>2. ASSUME NEW k \in 0..5
      PROVE  h[b..(b + k)] = f[b + k] + h[b..(b + k - 1)]
  <2>1. b..(b + k) \in SUBSET (b..(b + 5)) /\ b + k \in b..(b + k)
    OBVIOUS
  <2>2. (b..(b + k)) \ {b + k} = b..(b + k - 1)
    OBVIOUS
  <2>3. h[b..(b + k)] = f[b + k] + h[(b..(b + k)) \ {b + k}]
    BY <1>7, <2>1 DEF InAnyOrder
  <2> QED BY <2>2, <2>3
<1>3. h[b..(b - 1)] = 0
  <2>1. b..(b - 1) = {}
    OBVIOUS
  <2> QED BY <2>1, SumStep
<1>4. /\ h[b..(b + 0)] = f[b + 0] + h[b..(b + 0 - 1)]
      /\ h[b..(b + 1)] = f[b + 1] + h[b..(b + 1 - 1)]
      /\ h[b..(b + 2)] = f[b + 2] + h[b..(b + 2 - 1)]
      /\ h[b..(b + 3)] = f[b + 3] + h[b..(b + 3 - 1)]
      /\ h[b..(b + 4)] = f[b + 4] + h[b..(b + 4 - 1)]
      /\ h[b..(b + 5)] = f[b + 5] + h[b..(b + 5 - 1)]
  BY <1>2
<1>5. /\ b + 0 = b /\ b + 0 - 1 = b - 1 /\ b + 1 - 1 = b /\ b + 2 - 1 = b + 1
      /\ b + 3 - 1 = b + 2 /\ b + 4 - 1 = b + 3 /\ b + 5 - 1 = b + 4
  OBVIOUS
<1>6. /\ f[b] \in Int /\ f[b + 1] \in Int /\ f[b + 2] \in Int
      /\ f[b + 3] \in Int /\ f[b + 4] \in Int /\ f[b + 5] \in Int
  BY DEF HasIntegers
<1> QED BY <1>3, <1>4, <1>5, <1>6, SMTT(30)

(* A sum of natural numbers is one, it is at least each of them, and it is *)
(* 0 only if they all are.                                                 *)
LEMMA SumOfNaturals ==
  ASSUME NEW S, IsFiniteSet(S), NEW f, \A x \in S : f[x] \in Nat,
         NEW h, SumsUp(h, f, S)
  PROVE  /\ h[S] \in Nat
         /\ \A x \in S : f[x] <= h[S]
         /\ h[S] # 0 => \E x \in S : f[x] # 0
<1> DEFINE Sound(t) == /\ h[t] \in Nat
                       /\ h[t] # 0 => \E x \in t : f[x] # 0
           Good == {t \in SUBSET S : Sound(t)}
<1>1. \A t \in SUBSET S : \A x \in t : h[t] = f[x] + h[t \ {x}]
  <2>1. HasIntegers(f, S)
    BY DEF HasIntegers
  <2>2. InAnyOrder(h, f, S)
    BY <2>1, SumOfRest
  <2> QED BY <2>2 DEF InAnyOrder
<1>2. ASSUME NEW t \in SUBSET S, \A u \in SUBSET t : u # t => u \in Good
      PROVE  t \in Good
  <2>1. CASE t = {}
    BY <2>1, SumStep
  <2>2. CASE t # {}
    <3>1. PICK x \in t : h[t] = f[x] + h[t \ {x}]
      BY <1>1, <2>2
    <3>2. t \ {x} \in Good
      BY <1>2, <3>1
    <3>3. f[x] \in Nat
      OBVIOUS
    <3> QED BY <3>1, <3>2, <3>3
  <2> QED BY <2>1, <2>2
<1>3. Good = SUBSET S
  <2>1. Good \in SUBSET SUBSET S
    OBVIOUS
  <2> HIDE DEF Good
  <2> QED BY <1>2, <2>1, SubsetInduction
<1>4. ASSUME NEW x \in S PROVE f[x] <= h[S]
  <2>1. h[S] = f[x] + h[S \ {x}]
    BY <1>1
  <2>2. h[S \ {x}] \in Nat
    <3>1. S \ {x} \in Good
      BY <1>3
    <3> QED BY <3>1
  <2> QED BY <2>1, <2>2
<1>5. Sound(S)
  <2>1. S \in Good
    BY <1>3
  <2> QED BY <2>1
<1> QED BY <1>4, <1>5

-----------------------------------------------------------------------------
(* Bands and powers *)

Width == 2 * Half     \* of a band

(* Where the band of a signal lies, and the six bins it touches. *)
LEMMA Bands ==
  ASSUME NEW s \in Signals
  PROVE  /\ Channel[s] \in Nat /\ Spreading[s] \in 7..12
         /\ Power[s] \in Nat /\ GatewayPower[s] \in Nat
         /\ Low(s) \in Nat
         /\ High(s) = Low(s) + Width
         /\ \E b, m \in Nat : /\ m < BinWidth /\ Low(s) = BinWidth * b + m
                              /\ Bins(s) = b..(b + 5)
<1>1. /\ Channel[s] \in Nat /\ Spreading[s] \in 7..12
      /\ Power[s] \in Nat /\ GatewayPower[s] \in Nat
      /\ Channel[s] >= 8680000 + 626 /\ Channel[s] <= 8680000 + 15500
  BY SignalAssumption, SpectrumAssumption, SMTT(30)
<1>2. Low(s) \in Nat /\ High(s) = Low(s) + Width
  <2>1. PICK k \in Nat : k = Channel[s] - 8680000 /\ k >= 626
    BY <1>1, SMTT(30)
  <2>2. Low(s) = k - Half /\ High(s) = k + Half
    BY <2>1, SMT DEF Low, High
  <2>3. k \in Nat /\ k >= 626
    BY <2>1, SMT
  <2> QED BY <2>2, <2>3, SMTT(30) DEF Half, Width
<1>3. \E b, m \in Nat : /\ m < BinWidth /\ Low(s) = BinWidth * b + m
                        /\ Bins(s) = b..(b + 5)
  <2> DEFINE b == Low(s) \div BinWidth
             m == Low(s) % BinWidth
  <2>1. b \in Nat /\ m \in Nat /\ m < BinWidth /\ Low(s) = BinWidth * b + m
    BY <1>2 DEF BinWidth
  <2>2. High(s) \div BinWidth = b + 5
    <3>1. High(s) = BinWidth * (b + 5) + m
      BY <1>2, <2>1 DEF BinWidth, Width, Half
    <3> QED BY <2>1, <3>1 DEF BinWidth
  <2>3. Bins(s) = b..(b + 5)
    BY <2>2 DEF Bins
  <2> QED BY <2>1, <2>3
<1> QED BY <1>1, <1>2, <1>3

(* There are finitely many. *)
LEMMA BinsAreFinite ==
  ASSUME NEW s \in Signals
  PROVE  Bins(s) \in SUBSET Int /\ IsFiniteSet(Bins(s))
<1>1. PICK b \in Nat : Bins(s) = b..(b + 5)
  BY Bands
<1>2. b \in Int /\ b + 5 \in Int
  OBVIOUS
<1> QED BY <1>1, <1>2, FS_Interval

(* Densities are products of natural numbers. *)
LEMMA Products ==
  ASSUME NEW p \in Nat, NEW x \in Nat
  PROVE  p * x \in Nat
OBVIOUS

(* A signal has no density outside its bins. *)
LEMMA Shares ==
  ASSUME NEW s \in Signals, NEW i \in Int
  PROVE  /\ Share(s, i) \in Nat
         /\ Psd(s, i) \in Nat
         /\ Psd(s, i) = Power[s] * Share(s, i)
         /\ i \notin Bins(s) => Psd(s, i) = 0
<1>1. Share(s, i) \in Nat
  BY Bands DEF Share, BinWidth, Width, Half
<1>2. Power[s] \in Nat
  BY Bands
<1>3. Psd(s, i) = Power[s] * Share(s, i)
  BY DEF Psd
<1>4. Psd(s, i) \in Nat
  BY <1>1, <1>2, <1>3, Products
<1>5. ASSUME i \notin Bins(s) PROVE Psd(s, i) = 0
  <2>1. Share(s, i) = 0
    BY <1>5, Bands DEF Share, BinWidth, Width, Half
  <2> QED BY <1>2, <1>3, <2>1
<1> QED BY <1>1, <1>3, <1>4, <1>5

(* What lies in the bins of a signal: the whole of its own band, and no     *)
(* more of that of another one.                                            *)
LEMMA SharesOfSix ==
  ASSUME NEW s \in Signals, NEW r \in Signals, NEW b \in Nat, NEW m \in Nat,
         m < BinWidth, Low(r) = BinWidth * b + m
  PROVE  LET sum == Share(s, b) + Share(s, b + 1) + Share(s, b + 2)
                      + Share(s, b + 3) + Share(s, b + 4) + Share(s, b + 5)
         IN  sum <= Width /\ (s = r => sum = Width)
<1>1. Low(s) \in Nat /\ High(s) = Low(s) + Width
  BY Bands
<1> QED BY <1>1 DEF Share, BinWidth, Width, Half

(* The power in some bins is the sum of the densities there. *)
LEMMA PowerInIsSum ==
  ASSUME NEW s \in Signals, NEW S \in SUBSET Int, IsFiniteSet(S)
  PROVE  \E h : /\ SumsUp(h, [i \in Int |-> Psd(s, i)], S)
                /\ PowerIn(s, S) = h[S]
<1> DEFINE f == [i \in Int |-> Psd(s, i)]
           Fold(h) == h = [t \in SUBSET S |->
                             IF t = {} THEN 0
                             ELSE LET x == CHOOSE x \in t : TRUE
                                  IN  Psd(s, x) + h[t \ {x}]]
<1>1. \A h : SumsUp(h, f, S) <=> Fold(h)
  <2>1. \A t \in SUBSET S : t # {} => (CHOOSE x \in t : TRUE) \in Int
    OBVIOUS
  <2> QED BY <2>1 DEF SumsUp
<1>2. \E h : Fold(h)
  <2>1. \E h : SumsUp(h, f, S)
    <3> HIDE DEF f
    <3> QED BY SumExists
  <2> HIDE DEF f, Fold
  <2> QED BY <1>1, <2>1
<1>3. Fold(CHOOSE h : Fold(h))
  BY <1>2
<1>4. PowerIn(s, S) = (CHOOSE h : Fold(h))[S]
  BY DEF PowerIn, MapThenSumSet, MapThenFoldSet
<1> QED BY <1>1, <1>3, <1>4

(* A signal of power p, added up over the bins of another one. *)
LEMMA SumOverBand ==
  ASSUME NEW s \in Signals, NEW r \in Signals, NEW p \in Nat,
         NEW f, \A i \in Int : f[i] = p * Share(s, i),
         NEW h, SumsUp(h, f, Bins(r))
  PROVE  /\ h[Bins(r)] \in Int
         /\ h[Bins(r)] <= Width * p
         /\ s = r => h[Bins(r)] = Width * p
<1>1. PICK b \in Nat, m \in Nat : /\ m < BinWidth /\ Low(r) = BinWidth * b + m
                                  /\ Bins(r) = b..(b + 5)
  BY Bands
<1>2. HasIntegers(f, b..(b + 5))
  BY Shares, Products DEF HasIntegers
<1>3. h[Bins(r)] = f[b] + f[b + 1] + f[b + 2] + f[b + 3] + f[b + 4] + f[b + 5]
  <2>1. SumsUp(h, f, b..(b + 5)) /\ b \in Int
    BY <1>1
  <2> QED BY <1>1, <1>2, <2>1, SumOfSix
<1> DEFINE x0 == Share(s, b)      x1 == Share(s, b + 1)  x2 == Share(s, b + 2)
           x3 == Share(s, b + 3)  x4 == Share(s, b + 4)  x5 == Share(s, b + 5)
           sum == x0 + x1 + x2 + x3 + x4 + x5
<1>4. /\ x0 \in Nat /\ x1 \in Nat /\ x2 \in Nat
      /\ x3 \in Nat /\ x4 \in Nat /\ x5 \in Nat
  <2>1. \A i \in Int : Share(s, i) \in Nat
    BY Shares
  <2> QED BY <2>1
<1>5. /\ f[b] = p * x0 /\ f[b + 1] = p * x1 /\ f[b + 2] = p * x2
      /\ f[b + 3] = p * x3 /\ f[b + 4] = p * x4 /\ f[b + 5] = p * x5
  OBVIOUS
<1>6. sum <= Width /\ (s = r => sum = Width)
  BY <1>1, SharesOfSix
<1> HIDE DEF x0, x1, x2, x3, x4, x5
<1>7. sum \in Nat
  BY <1>4
<1>8. h[Bins(r)] = p * sum
  BY <1>3, <1>4, <1>5
<1> HIDE DEF sum
<1>9. p * (Width - sum) \in Nat
  <2>1. Width - sum \in Nat
    BY <1>6, <1>7 DEF Width, Half
  <2> QED BY <2>1, Products
<1>10. p * sum <= p * Width
  BY <1>7, <1>9 DEF Width, Half
<1> QED BY <1>6, <1>7, <1>8, <1>10 DEF Width, Half

(* What the test for interference compares. *)
LEMMA PowerOverBounds ==
  ASSUME NEW s \in Signals, NEW r \in Signals
  PROVE  /\ PowerOver[s][r] \in Int
         /\ PowerOver[s][r] <= Width * Power[s]
         /\ s = r => PowerOver[s][r] = Width * Power[s]
<1> DEFINE f == [i \in Int |-> Psd(s, i)]
<1>1. PICK h : SumsUp(h, f, Bins(r)) /\ PowerOver[s][r] = h[Bins(r)]
  <2>1. Bins(r) \in SUBSET Int /\ IsFiniteSet(Bins(r))
    BY BinsAreFinite
  <2>2. PowerOver[s][r] = PowerIn(s, Bins(r))
    BY DEF PowerOver
  <2> QED BY <2>1, <2>2, PowerInIsSum
<1>2. Power[s] \in Nat /\ \A i \in Int : f[i] = Power[s] * Share(s, i)
  BY Bands, Shares
<1> HIDE DEF f
<1> QED BY <1>1, <1>2, SumOverBand

(* The power in one bin is the density in it. *)
LEMMA PowerInOneBin ==
  ASSUME NEW s \in Signals, NEW i \in Int
  PROVE  PowerIn(s, {i}) = Psd(s, i)
<1> DEFINE f == [j \in Int |-> Psd(s, j)]
<1>1. IsFiniteSet({i}) /\ {i} \in SUBSET Int
  BY FS_Singleton
<1>2. PICK h : SumsUp(h, f, {i}) /\ PowerIn(s, {i}) = h[{i}]
  BY <1>1, PowerInIsSum
<1>3. f[i] = Psd(s, i) /\ f[i] \in Int
  BY Shares
<1> HIDE DEF f
<1>4. InAnyOrder(h, f, {i})
  BY <1>1, <1>2, <1>3, SumOfRest DEF HasIntegers
<1>5. h[{i}] = f[i] + h[{i} \ {i}] /\ {i} \ {i} = {}
  BY <1>4 DEF InAnyOrder
<1>6. h[{}] = 0
  BY <1>2, SumStep
<1> QED BY <1>2, <1>3, <1>5, <1>6

(* The gateway: it adds up the whole band of a signal if that lies below    *)
(* its twenty-fifth bin.                                                   *)
BelowBin(n) == \A s \in Signals : High(s) < n * BinWidth

(* The same for the powers at the gateway. *)
LEMMA GatewayPowerInIsSum ==
  ASSUME NEW s \in Signals, NEW S \in SUBSET Int, IsFiniteSet(S)
  PROVE  \E h : /\ SumsUp(h, [i \in Int |-> Gateway!Psd(s, i)], S)
                /\ Gateway!PowerIn(s, S) = h[S]
<1> DEFINE f == [i \in Int |-> Gateway!Psd(s, i)]
           Fold(h) == h = [t \in SUBSET S |->
                             IF t = {} THEN 0
                             ELSE LET x == CHOOSE x \in t : TRUE
                                  IN  Gateway!Psd(s, x) + h[t \ {x}]]
<1>1. \A h : SumsUp(h, f, S) <=> Fold(h)
  <2>1. \A t \in SUBSET S : t # {} => (CHOOSE x \in t : TRUE) \in Int
    OBVIOUS
  <2> QED BY <2>1 DEF SumsUp
<1>2. \E h : Fold(h)
  <2>1. \E h : SumsUp(h, f, S)
    <3> HIDE DEF f
    <3> QED BY SumExists
  <2> HIDE DEF f, Fold
  <2> QED BY <1>1, <2>1
<1>3. Fold(CHOOSE h : Fold(h))
  BY <1>2
<1>4. Gateway!PowerIn(s, S) = (CHOOSE h : Fold(h))[S]
  BY DEF Gateway!PowerIn, Gateway!MapThenSumSet, Gateway!MapThenFoldSet
<1> QED BY <1>1, <1>3, <1>4

(* What the gateway compares is the power, up to a factor. *)
LEMMA ComparedIsPower ==
  ASSUME BelowBin(25), NEW s \in Signals
  PROVE  Gateway!Compared[s] = Width * GatewayPower[s]
<1> DEFINE f == [i \in Int |-> Gateway!Psd(s, i)]
<1>1. Gateway!Bins(s) \cap 0..24 = Bins(s)
  <2>1. Gateway!Bins(s) = Bins(s)
    BY DEF Gateway!Bins, Gateway!Low, Gateway!High, Gateway!BinWidth, Gateway!Half,
           Bins, Low, High, BinWidth, Half
  <2>2. PICK b \in Nat, m \in Nat : /\ m < BinWidth /\ Low(s) = BinWidth * b + m
                                    /\ Bins(s) = b..(b + 5)
    BY Bands
  <2>3. b + 5 < 25
    <3>1. High(s) < 25 * BinWidth /\ High(s) = Low(s) + Width
      BY Bands DEF BelowBin
    <3> QED BY <2>2, <3>1 DEF Width, Half, BinWidth
  <2>4. b..(b + 5) \subseteq 0..24
    BY <2>3
  <2> QED BY <2>1, <2>2, <2>4
<1>2. PICK h : SumsUp(h, f, Bins(s)) /\ Gateway!Compared[s] = h[Bins(s)]
  <2>1. Bins(s) \in SUBSET Int /\ IsFiniteSet(Bins(s))
    BY BinsAreFinite
  <2>2. Gateway!Compared[s] = Gateway!PowerIn(s, Bins(s))
    BY <1>1 DEF Gateway!Compared
  <2> QED BY <2>1, <2>2, GatewayPowerInIsSum
<1>3. GatewayPower[s] \in Nat /\ \A i \in Int : f[i] = GatewayPower[s] * Share(s, i)
  <2>1. ASSUME NEW i \in Int PROVE Gateway!Psd(s, i) = GatewayPower[s] * Share(s, i)
    BY DEF Gateway!Psd, Gateway!Share, Gateway!Low, Gateway!High, Gateway!BinWidth,
           Gateway!Half, Share, Low, High, BinWidth, Half
  <2> QED BY <2>1, Bands
<1> HIDE DEF f
<1> QED BY <1>2, <1>3, SumOverBand

-----------------------------------------------------------------------------
(* The table of the device *)

(* The cells a signal adds to are in the table. *)
LEMMA CellTypes ==
  ASSUME NEW s \in Signals, NEW i \in Bins(s)
  PROVE  /\ i \in Int
         /\ Cell(s, i) \in Cells
         /\ Cell(s, i) \in Int
<1>1. i \in Int
  BY BinsAreFinite
<1>2. Cell(s, i) \in Cells
  BY DEF Cells
<1> QED BY <1>1, <1>2, Bands DEF Cell

(* A signal adds its density in a bin to one cell, and nothing to others. *)
LEMMA Contributions ==
  ASSUME NEW s \in Signals, NEW c \in Cells
  PROVE  /\ Contribution[s][c] \in Nat
         /\ \A i \in Bins(s) : Cell(s, i) = c => Contribution[s][c] = Psd(s, i)
         /\ Contribution[s][c] # 0 =>
              \E i \in Bins(s) : Cell(s, i) = c /\ Psd(s, i) > 0
<1> DEFINE bins == {i \in Bins(s) : Cell(s, i) = c}
<1>1. Contribution[s][c] = PowerIn(s, bins)
  BY DEF Contribution
<1>2. CASE bins = {}
  <2>1. IsFiniteSet({}) /\ {} \in SUBSET Int
    BY FS_EmptySet
  <2>2. PICK h : /\ SumsUp(h, [i \in Int |-> Psd(s, i)], {})
                 /\ PowerIn(s, {}) = h[{}]
    BY <2>1, PowerInIsSum
  <2>3. PowerIn(s, {}) = 0
    BY <2>2, SumStep
  <2>4. Contribution[s][c] = 0
    BY <1>1, <1>2, <2>3
  <2> QED BY <1>2, <2>4
<1>3. ASSUME NEW i \in Bins(s), Cell(s, i) = c
      PROVE  Contribution[s][c] = Psd(s, i) /\ Psd(s, i) \in Nat
  <2>1. i \in Int /\ \A j \in Bins(s) : j \in Int
    BY CellTypes
  <2>2. \A j \in Bins(s) : Cell(s, j) = c => j = i
    BY <1>3, <2>1, Bands, SMTT(30) DEF Cell
  <2>3. bins = {i}
    BY <1>3, <2>2
  <2> QED BY <1>1, <2>1, <2>3, PowerInOneBin, Shares
<1> HIDE DEF bins
<1>4. CASE bins # {}
  <2>1. PICK i \in Bins(s) : Cell(s, i) = c
    BY <1>4 DEF bins
  <2>2. Contribution[s][c] = Psd(s, i) /\ Psd(s, i) \in Nat
    BY <1>3, <2>1
  <2> QED BY <1>3, <2>1, <2>2
<1> QED BY <1>2, <1>4

(* What a set of signals adds up to in a cell. *)
Level(S, c) == MapThenSumSet(LAMBDA s : Contribution[s][c], S)

(* It is the sum of the contributions. *)
LEMMA LevelIsSum ==
  ASSUME NEW c \in Cells, NEW S \in SUBSET Signals
  PROVE  \E h : /\ SumsUp(h, [s \in Signals |-> Contribution[s][c]], S)
                /\ Level(S, c) = h[S]
<1> DEFINE f == [s \in Signals |-> Contribution[s][c]]
           Fold(h) == h = [t \in SUBSET S |->
                             IF t = {} THEN 0
                             ELSE LET x == CHOOSE x \in t : TRUE
                                  IN  Contribution[x][c] + h[t \ {x}]]
<1>1. \A h : SumsUp(h, f, S) <=> Fold(h)
  <2>1. \A t \in SUBSET S : t # {} => (CHOOSE x \in t : TRUE) \in Signals
    OBVIOUS
  <2> QED BY <2>1 DEF SumsUp
<1>2. \E h : Fold(h)
  <2>1. IsFiniteSet(S)
    BY FS_Subset, SignalAssumption
  <2>2. \E h : SumsUp(h, f, S)
    <3> HIDE DEF f
    <3> QED BY <2>1, SumExists
  <2> HIDE DEF f, Fold
  <2> QED BY <1>1, <2>2
<1>3. Fold(CHOOSE h : Fold(h))
  BY <1>2
<1>4. Level(S, c) = (CHOOSE h : Fold(h))[S]
  BY DEF Level, MapThenSumSet, MapThenFoldSet
<1> QED BY <1>1, <1>3, <1>4

(* It is at least each of them, and something if one is. *)
LEMMA Levels ==
  ASSUME NEW c \in Cells, NEW S \in SUBSET Signals
  PROVE  /\ Level(S, c) \in Nat
         /\ \A s \in S : Contribution[s][c] <= Level(S, c)
         /\ Level(S, c) # 0 => \E s \in S : Contribution[s][c] # 0
<1> DEFINE f == [s \in Signals |-> Contribution[s][c]]
<1>1. PICK h : SumsUp(h, f, S) /\ Level(S, c) = h[S]
  BY LevelIsSum
<1>2. IsFiniteSet(S)
  BY FS_Subset, SignalAssumption
<1>3. \A s \in S : f[s] \in Nat /\ f[s] = Contribution[s][c]
  BY Contributions
<1> HIDE DEF f
<1>4. /\ h[S] \in Nat
      /\ \A x \in S : f[x] <= h[S]
      /\ h[S] # 0 => \E x \in S : f[x] # 0
  BY <1>1, <1>2, <1>3, SumOfNaturals
<1> QED BY <1>1, <1>3, <1>4

(* An empty channel adds nothing. *)
LEMMA LevelOfNone ==
  ASSUME NEW c \in Cells
  PROVE  Level({}, c) = 0
<1>1. PICK h : /\ SumsUp(h, [s \in Signals |-> Contribution[s][c]], {})
               /\ Level({}, c) = h[{}]
  BY LevelIsSum
<1> QED BY <1>1, SumStep

(* One signal more adds its contribution. *)
LEMMA LevelWithAnother ==
  ASSUME NEW c \in Cells, NEW S \in SUBSET Signals, NEW s \in Signals, s \notin S
  PROVE  Level(S \cup {s}, c) = Level(S, c) + Contribution[s][c]
<1> DEFINE f == [r \in Signals |-> Contribution[r][c]]
           T == S \cup {s}
<1>1. T \in SUBSET Signals /\ T \ {s} = S /\ s \in T /\ S \subseteq T /\ T \in SUBSET T
  OBVIOUS
<1>2. PICK g : SumsUp(g, f, S) /\ Level(S, c) = g[S]
  BY LevelIsSum
<1>3. PICK h : SumsUp(h, f, T) /\ Level(T, c) = h[T]
  BY <1>1, LevelIsSum
<1>4. IsFiniteSet(S) /\ IsFiniteSet(T)
  BY <1>1, FS_Subset, SignalAssumption
<1>5. f[s] = Contribution[s][c] /\ \A r \in T : f[r] \in Nat
  BY Contributions
<1> HIDE DEF f, T
<1>6. InAnyOrder(h, f, T)
  BY <1>3, <1>4, <1>5, SumOfRest DEF HasIntegers
<1>7. h[T] = f[s] + h[S]
  BY <1>1, <1>6 DEF InAnyOrder
<1>8. h[S] = g[S]
  BY <1>1, <1>2, <1>3, <1>4, SumUnique
<1>9. g[S] \in Nat /\ f[s] \in Nat
  BY <1>1, <1>2, <1>5, Levels
<1>10. Level(T, c) = Level(S, c) + Contribution[s][c]
  BY <1>2, <1>3, <1>5, <1>7, <1>8, <1>9
<1> QED BY <1>10 DEF T

-----------------------------------------------------------------------------
(* The inductive invariant *)

Fates == {"Unsent", "OnAir", "Lost", "Delivered"}

TypeOK ==
  /\ phyState \in {"IDLE", "TX", "RX"}
  /\ transmission \in BOOLEAN
  /\ tuned \in Windows
  /\ locked \in Signals \cup {NoSignal}
  /\ bitErrors \in BOOLEAN
  /\ usage \in [Cells -> Int]
  /\ ber \in [Signals -> Gateway!Levels \cup {"untracked"}]
  /\ onAir \in SUBSET Signals
  /\ before \in [Signals -> SUBSET Signals]
  /\ atGateway \in [Signals -> Fates]
  /\ atDevice \in [Signals -> Fates \cup {"Refused"}]

(* What is on air is what the gateway tracks; what has been on air has been *)
(* sent, and nothing is known of what has not.                             *)
AirInv ==
  \A s \in Signals :
    /\ s \in onAir <=> ber[s] # "untracked"
    /\ s \in onAir <=> atGateway[s] = "OnAir"
    /\ atGateway[s] = "Unsent" <=> atDevice[s] = "Unsent"
    /\ before[s] \subseteq Sent
    /\ s \notin Sent => before[s] = {}

(* The device receives signals that are on air, while it is set to. *)
ReceiverInv ==
  /\ locked # NoSignal => phyState = "RX" /\ locked \in onAir
  /\ transmission => phyState = "TX"
  /\ \A s \in Signals : /\ atDevice[s] = "OnAir" <=> locked = s
                        /\ atDevice[s] = "Delivered" => s \notin onAir

(* Its table holds what is on air. *)
UsageInv == \A c \in Cells : usage[c] = Level(onAir, c)

CapturesAtDevice(s) ==
  \A r \in Signals :
    Rivals(r, s) =>
      /\ r \in before[s] =>
           \A i \in Bins(s) : Psd(s, i) > 0 => Psd(r, i) <= Psd(s, i)
      /\ Channel[r] <= Channel[s] => LaterWeaker(s, r)

DeviceInv ==
  \A s \in Signals : atDevice[s] \in {"OnAir", "Delivered"} => CapturesAtDevice(s)

IInv == TypeOK /\ AirInv /\ ReceiverInv /\ UsageInv /\ DeviceInv

-----------------------------------------------------------------------------
(* The operations of the gateway *)

(* Bit errors only ever get more, and only tracked signals get any. *)
LEMMA GatewayUpdates ==
  ASSUME TypeOK, NEW now \in Gateway!UpdateBer
  PROVE  \A s \in Signals :
           /\ ber[s] = "untracked" => now[s] = "untracked"
           /\ ber[s] # "untracked" => now[s] \in Gateway!Levels
           /\ ber[s] = "many" => now[s] = "many"
<1>1. PICK level \in [Gateway!Tracked -> Gateway!Levels] :
        /\ \A s \in Gateway!Tracked : level[s] \in Gateway!Later(ber[s])
        /\ now = [s \in Signals |-> IF s \in Gateway!Tracked THEN level[s] ELSE ber[s]]
  BY DEF Gateway!UpdateBer
<1>2. \A s \in Signals : s \in Gateway!Tracked <=> ber[s] # "untracked"
  BY DEF Gateway!Tracked
<1>3. Gateway!Later("many") = {"many"}
  BY DEF Gateway!Later
<1> QED BY <1>1, <1>2, <1>3

(* Among rivals that are on air when a signal starts, only what overpowers *)
(* the others can still be delivered.                                      *)
LEMMA GatewayStarts ==
  ASSUME TypeOK, NEW s \in Signals, Gateway!StartRx(s)
  PROVE  /\ ber' \in [Signals -> Gateway!Levels \cup {"untracked"}]
         /\ ber'[s] # "untracked"
         /\ \A r \in Signals \ {s} :
              /\ ber'[r] = "untracked" <=> ber[r] = "untracked"
              /\ ber[r] = "many" => ber'[r] = "many"
              /\ ber[r] # "untracked" /\ Gateway!Rivals(r, s) =>
                   /\ ber'[r] # "many" => Gateway!Overpowers(r, s)
                   /\ ber'[s] # "many" => Gateway!Overpowers(s, r)
<1> DEFINE lost == Gateway!Destroyed(s, Gateway!Tracked)
<1>1. PICK now \in Gateway!UpdateBer :
        ber' = [[r \in Signals |-> IF r \in lost THEN "many" ELSE now[r]]
                  EXCEPT ![s] = IF s \in lost
                                     \/ Gateway!Full([r \in Signals |->
                                          IF r \in lost THEN "many" ELSE now[r]])
                                  THEN "many" ELSE "none"]
  BY DEF Gateway!StartRx
<1>2. \A r \in Signals :
        /\ ber[r] = "untracked" => now[r] = "untracked"
        /\ ber[r] # "untracked" => now[r] \in Gateway!Levels
        /\ ber[r] = "many" => now[r] = "many"
  BY GatewayUpdates
<1>3. \A r \in Signals : r \in Gateway!Tracked <=> ber[r] # "untracked"
  BY DEF Gateway!Tracked
<1>4. \A r \in Signals \ {s} :
        /\ r \in lost => r \in Gateway!Tracked
        /\ r \in Gateway!Tracked /\ Gateway!Rivals(r, s) =>
             /\ r \notin lost => Gateway!Overpowers(r, s)
             /\ s \notin lost => Gateway!Overpowers(s, r)
  BY DEF Gateway!Destroyed
<1>5. {"none", "many"} \subseteq Gateway!Levels /\ "untracked" \notin Gateway!Levels
  BY DEF Gateway!Levels
<1> HIDE DEF lost
<1>6. /\ \A r \in Signals \ {s} : ber'[r] = IF r \in lost THEN "many" ELSE now[r]
      /\ ber'[s] \in {"none", "many"}
      /\ s \in lost => ber'[s] = "many"
      /\ DOMAIN ber' = Signals
      /\ ber' = [r \in Signals |-> ber'[r]]
  BY <1>1
<1>7. ASSUME NEW r \in Signals
      PROVE  ber'[r] \in Gateway!Levels \cup {"untracked"}
  BY <1>2, <1>5, <1>6
<1>8. ber' \in [Signals -> Gateway!Levels \cup {"untracked"}]
  BY <1>6, <1>7
<1>9. ASSUME NEW r \in Signals \ {s}
      PROVE  /\ ber'[r] = "untracked" <=> ber[r] = "untracked"
             /\ ber[r] = "many" => ber'[r] = "many"
             /\ ber[r] # "untracked" /\ Gateway!Rivals(r, s) =>
                  /\ ber'[r] # "many" => Gateway!Overpowers(r, s)
                  /\ ber'[s] # "many" => Gateway!Overpowers(s, r)
  BY <1>2, <1>3, <1>4, <1>5, <1>6
<1> QED BY <1>6, <1>8, <1>9

(* A signal that ends is delivered only if it has not been destroyed. *)
LEMMA GatewayEnds ==
  ASSUME TypeOK, NEW s \in Signals, NEW delivered \in BOOLEAN,
         Gateway!EndRx(s, delivered)
  PROVE  /\ ber' \in [Signals -> Gateway!Levels \cup {"untracked"}]
         /\ ber[s] # "untracked" /\ ber'[s] = "untracked"
         /\ delivered => ber[s] # "many"
         /\ \A r \in Signals \ {s} :
              /\ ber'[r] = "untracked" <=> ber[r] = "untracked"
              /\ ber[r] = "many" => ber'[r] = "many"
<1>1. PICK now \in Gateway!UpdateBer :
        /\ s \in Gateway!Tracked
        /\ delivered = (now[s] # "many")
        /\ ber' = [now EXCEPT ![s] = "untracked"]
  BY DEF Gateway!EndRx
<1>2. \A r \in Signals :
        /\ ber[r] = "untracked" => now[r] = "untracked"
        /\ ber[r] # "untracked" => now[r] \in Gateway!Levels
        /\ ber[r] = "many" => now[r] = "many"
  BY GatewayUpdates
<1>3. DOMAIN now = Signals /\ now = [r \in Signals |-> now[r]]
  BY DEF Gateway!UpdateBer
<1>4. "untracked" \notin Gateway!Levels
  BY DEF Gateway!Levels
<1>5. \A r \in Signals \ {s} : ber'[r] = now[r]
  BY <1>1, <1>3
<1>6. ber'[s] = "untracked" /\ ber' = [r \in Signals |-> ber'[r]]
  BY <1>1, <1>3
<1>7. ber[s] # "untracked"
  BY <1>1 DEF Gateway!Tracked
<1> QED BY <1>1, <1>2, <1>4, <1>5, <1>6, <1>7

-----------------------------------------------------------------------------
(* The operations of the device *)

(* A signal starts: it destroys the one being received, is received itself, *)
(* or neither.                                                             *)
LEMMA DeviceStarts ==
  ASSUME IInv, NEW s \in Signals, SignalStarts(s)
  PROVE  /\ UNCHANGED <<transmission, tuned>>
         /\ bitErrors' \in BOOLEAN
         /\ usage' = [c \in Cells |-> usage[c] + Contribution[s][c]]
         /\ \/ /\ locked \in Signals \ {s} /\ locked' = NoSignal
               /\ atDevice' = [atDevice EXCEPT ![s] = "Lost", ![locked] = "Lost"]
               /\ phyState' = "IDLE"
            \/ /\ locked = NoSignal /\ locked' = s
               /\ ~Covered(s)
               /\ atDevice' = [atDevice EXCEPT ![s] = "OnAir"]
               /\ phyState = "RX" /\ phyState' = "RX"
            \/ /\ locked' = locked /\ locked # s
               /\ ~Interferes(s)
               /\ \/ atDevice' = [atDevice EXCEPT ![s] = "Lost"]
                  \/ Covered(s) /\ atDevice' = [atDevice EXCEPT ![s] = "Refused"]
               /\ phyState' = phyState
<1> USE DEF IInv, TypeOK
<1>1. /\ s \notin Sent
      /\ StartRx(s)
      /\ atDevice' = [r \in Signals |->
           CASE r = s /\ locked' = s -> "OnAir"
             [] r = s /\ locked' # s ->
                  IF phyState = "RX" /\ Matches(s) /\ locked = NoSignal
                  THEN "Refused" ELSE "Lost"
             [] r = locked /\ locked' = NoSignal -> "Lost"
             [] OTHER -> atDevice[r]]
  BY DEF SignalStarts
<1>2. /\ NoSignal \notin Signals
      /\ locked # s
  <2>1. s \notin onAir
    BY <1>1 DEF Sent, AirInv
  <2> QED BY <2>1, ReceptionAssumption DEF ReceiverInv
<1>3. /\ UNCHANGED <<transmission, tuned>>
      /\ usage' = [c \in Cells |-> usage[c] + Contribution[s][c]]
  BY <1>1 DEF StartRx, AddSignal
<1>4. CASE Interferes(s)
  <2>1. /\ locked # NoSignal /\ locked' = NoSignal /\ phyState' = "IDLE"
        /\ bitErrors' \in BOOLEAN
    BY <1>1, <1>4 DEF StartRx, Release, Interferes
  <2>2. atDevice' = [atDevice EXCEPT ![s] = "Lost", ![locked] = "Lost"]
    BY <1>1, <1>2, <2>1
  <2> QED BY <1>2, <1>3, <2>1, <2>2
<1>5. CASE /\ ~Interferes(s)
           /\ ~Covered(s) /\ phyState = "RX" /\ Matches(s) /\ locked = NoSignal
  <2>1. locked' = s /\ phyState' = phyState /\ bitErrors' = FALSE
    BY <1>1, <1>5 DEF StartRx
  <2>2. atDevice' = [atDevice EXCEPT ![s] = "OnAir"]
    BY <1>1, <1>2, <1>5, <2>1
  <2> QED BY <1>3, <1>5, <2>1, <2>2
<1>6. CASE /\ ~Interferes(s)
           /\ Covered(s) \/ phyState # "RX" \/ ~Matches(s) \/ locked # NoSignal
  <2>1. locked' = locked /\ phyState' = phyState /\ bitErrors' \in BOOLEAN
    BY <1>1, <1>6 DEF StartRx
  <2>2. \/ atDevice' = [atDevice EXCEPT ![s] = "Lost"]
        \/ Covered(s) /\ atDevice' = [atDevice EXCEPT ![s] = "Refused"]
    <3>1. \A r \in Signals : r = locked => locked' # NoSignal
      BY <1>2, <2>1
    <3>2. CASE phyState = "RX" /\ Matches(s) /\ locked = NoSignal
      <4>1. atDevice' = [atDevice EXCEPT ![s] = "Refused"]
        BY <1>1, <1>2, <2>1, <3>1, <3>2
      <4> QED BY <1>6, <3>2, <4>1
    <3>3. CASE ~(phyState = "RX" /\ Matches(s) /\ locked = NoSignal)
      BY <1>1, <1>2, <2>1, <3>1, <3>3
    <3> QED BY <3>2, <3>3
  <2> QED BY <1>2, <1>3, <1>6, <2>1, <2>2
<1> QED BY <1>4, <1>5, <1>6

(* What already fills a bin of a signal is in the table. *)
LEMMA TableShowsRivals ==
  ASSUME TypeOK, UsageInv, NEW s \in Signals, ~Covered(s),
         NEW r \in onAir, Rivals(r, s)
  PROVE  \A i \in Bins(s) : Psd(s, i) > 0 => Psd(r, i) <= Psd(s, i)
<1> SUFFICES ASSUME NEW i \in Bins(s), Psd(s, i) > 0
             PROVE  Psd(r, i) <= Psd(s, i)
  OBVIOUS
<1>1. i \in Int /\ r \in Signals /\ Psd(r, i) \in Nat /\ Psd(s, i) \in Nat
  BY CellTypes, Shares DEF TypeOK
<1>2. CASE i \notin Bins(r)
  BY <1>1, <1>2, Shares
<1>3. CASE i \in Bins(r)
  <2>1. Cell(s, i) = Cell(r, i) /\ Cell(s, i) \in Cells
    BY CellTypes DEF Rivals, Cell
  <2>2. usage[Cell(s, i)] \in Int /\ ~(usage[Cell(s, i)] > Psd(s, i))
    BY <2>1 DEF Covered, TypeOK
  <2>3. Contribution[r][Cell(s, i)] = Psd(r, i)
    BY <1>1, <1>3, <2>1, Contributions
  <2>4. Psd(r, i) <= usage[Cell(s, i)]
    BY <2>1, <2>3, Levels DEF UsageInv, TypeOK
  <2> QED BY <1>1, <2>2, <2>4
<1> QED BY <1>2, <1>3

(* What does not interfere is 6 dB weaker. *)
LEMMA NotInterfering ==
  ASSUME NEW s \in Signals, ~Interferes(s), locked \in Signals,
         Rivals(s, locked), Channel[s] <= Channel[locked]
  PROVE  4 * Power[s] <= Power[locked]
<1>1. locked # NoSignal
  BY ReceptionAssumption
<1>2. Channel[locked] - Channel[s] \in 0..(2 * Half - 1)
  <2>1. Channel[s] \in Nat /\ Channel[locked] \in Nat
    BY Bands
  <2>2. Channel[s] - Channel[locked] \in -(2 * Half - 1)..(2 * Half - 1)
    BY DEF Rivals
  <2> QED BY <2>1, <2>2, SMTT(30) DEF Half
<1>3. ~(4 * PowerOver[s][s] > PowerOver[locked][s])
  BY <1>1, <1>2 DEF Interferes, Rivals
<1>4. /\ PowerOver[s][s] = Width * Power[s]
      /\ PowerOver[locked][s] \in Int
      /\ PowerOver[locked][s] <= Width * Power[locked]
      /\ Power[s] \in Nat /\ Power[locked] \in Nat
  BY PowerOverBounds, Bands
<1> QED BY <1>3, <1>4 DEF Width, Half

(* A signal starts: it shares the air with what is in the table. *)
LEMMA SignalStartsStep ==
  ASSUME IInv, NEW s \in Signals, SignalStarts(s)
  PROVE  IInv'
<1> USE DEF IInv, TypeOK
<1>1. /\ atGateway[s] = "Unsent" /\ s \notin Sent
      /\ Gateway!StartRx(s)
      /\ onAir' = onAir \cup {s}
      /\ before' = [before EXCEPT ![s] = onAir]
      /\ atGateway' = [atGateway EXCEPT ![s] = "OnAir"]
  BY DEF SignalStarts, Sent
<1>2. /\ s \notin onAir /\ atDevice[s] = "Unsent" /\ before[s] = {}
      /\ \A r \in Signals : s \notin before[r]
      /\ NoSignal \notin Signals
  BY <1>1, ReceptionAssumption DEF AirInv
<1>3. /\ ber' \in [Signals -> Gateway!Levels \cup {"untracked"}]
      /\ ber'[s] # "untracked"
      /\ \A r \in Signals \ {s} : ber'[r] = "untracked" <=> ber[r] = "untracked"
  BY <1>1, GatewayStarts
<1>4. /\ UNCHANGED <<transmission, tuned>>
      /\ bitErrors' \in BOOLEAN
      /\ usage' = [c \in Cells |-> usage[c] + Contribution[s][c]]
      /\ \/ /\ locked \in Signals \ {s} /\ locked' = NoSignal
            /\ atDevice' = [atDevice EXCEPT ![s] = "Lost", ![locked] = "Lost"]
            /\ phyState' = "IDLE"
         \/ /\ locked = NoSignal /\ locked' = s
            /\ ~Covered(s)
            /\ atDevice' = [atDevice EXCEPT ![s] = "OnAir"]
            /\ phyState = "RX" /\ phyState' = "RX"
         \/ /\ locked' = locked /\ locked # s
            /\ ~Interferes(s)
            /\ \/ atDevice' = [atDevice EXCEPT ![s] = "Lost"]
               \/ Covered(s) /\ atDevice' = [atDevice EXCEPT ![s] = "Refused"]
            /\ phyState' = phyState
  BY DeviceStarts
<1>5. TypeOK'
  <2>1. usage' \in [Cells -> Int]
    BY <1>4, Contributions
  <2>2. atDevice' \in [Signals -> Fates \cup {"Refused"}]
    BY <1>4 DEF Fates
  <2>3. locked' \in Signals \cup {NoSignal} /\ phyState' \in {"IDLE", "TX", "RX"}
    BY <1>4
  <2>4. /\ atGateway' \in [Signals -> Fates]
        /\ before' \in [Signals -> SUBSET Signals]
        /\ onAir' \in SUBSET Signals
    BY <1>1 DEF Fates
  <2> QED BY <1>3, <1>4, <2>1, <2>2, <2>3, <2>4
<1>6. AirInv'
  <2>1. Sent' = Sent \cup {s} /\ onAir \subseteq Sent
    BY <1>1 DEF Sent, AirInv
  <2> SUFFICES ASSUME NEW r \in Signals
               PROVE  /\ r \in onAir' <=> ber'[r] # "untracked"
                      /\ r \in onAir' <=> atGateway'[r] = "OnAir"
                      /\ atGateway'[r] = "Unsent" <=> atDevice'[r] = "Unsent"
                      /\ before'[r] \subseteq Sent'
                      /\ r \notin Sent' => before'[r] = {}
    BY DEF AirInv
  <2>2. CASE r = s
    BY <1>1, <1>3, <1>4, <2>1, <2>2
  <2>3. CASE r # s
    <3>1. atDevice'[r] = "Unsent" <=> atDevice[r] = "Unsent"
      <4>1. locked \in Signals => atDevice[locked] # "Unsent"
        BY <1>2 DEF ReceiverInv, AirInv
      <4> QED BY <1>4, <2>3, <4>1
    <3> QED BY <1>1, <1>3, <2>1, <2>3, <3>1 DEF AirInv
  <2> QED BY <2>2, <2>3
<1>7. ReceiverInv'
  BY <1>1, <1>2, <1>4 DEF ReceiverInv
<1>8. UsageInv'
  <2> SUFFICES ASSUME NEW c \in Cells PROVE usage'[c] = Level(onAir', c)
    BY DEF UsageInv
  <2>1. usage[c] = Level(onAir, c)
    BY DEF UsageInv
  <2>2. Level(onAir \cup {s}, c) = Level(onAir, c) + Contribution[s][c]
    BY <1>2, LevelWithAnother
  <2> QED BY <1>1, <1>4, <2>1, <2>2
<1>9. DeviceInv'
  <2> SUFFICES ASSUME NEW t \in Signals, atDevice'[t] \in {"OnAir", "Delivered"},
                      NEW r \in Signals, Rivals(r, t)
               PROVE  /\ r \in before'[t] =>
                           \A i \in Bins(t) : Psd(t, i) > 0 => Psd(r, i) <= Psd(t, i)
                      /\ Channel[r] <= Channel[t] /\ t \in before'[r] =>
                           4 * Power[r] <= Power[t]
    BY DEF DeviceInv, CapturesAtDevice, LaterWeaker
  <2>1. CASE t = s
    <3>1. ~Covered(s)
      BY <1>2, <1>4, <2>1
    <3>2. before'[s] = onAir /\ s \notin before'[r]
      BY <1>1, <1>2, <2>1 DEF Rivals
    <3> QED BY <2>1, <3>1, <3>2, TableShowsRivals
  <2>2. CASE t # s
    <3>1. atDevice[t] = atDevice'[t] /\ before'[t] = before[t]
      BY <1>1, <1>4, <2>2
    <3>2. CapturesAtDevice(t)
      BY <3>1 DEF DeviceInv
    <3>3. CASE r # s
      BY <1>1, <3>1, <3>2, <3>3 DEF CapturesAtDevice, LaterWeaker
    <3>4. CASE r = s
      <4>1. s \notin before[t]
        BY <1>2
      <4>2. ASSUME Channel[s] <= Channel[t], t \in onAir
            PROVE  4 * Power[s] <= Power[t]
        <5>1. atDevice[t] = "OnAir" /\ locked = t
          BY <3>1, <4>2 DEF ReceiverInv
        <5>2. locked' = locked /\ ~Interferes(s)
          BY <1>2, <1>4, <3>1, <5>1
        <5>3. Rivals(s, locked)
          BY <3>4, <5>1
        <5> QED BY <4>2, <5>1, <5>2, <5>3, NotInterfering
      <4> QED BY <1>1, <3>1, <3>4, <4>1, <4>2
    <3> QED BY <3>3, <3>4
  <2> QED BY <2>1, <2>2
<1> QED BY <1>5, <1>6, <1>7, <1>8, <1>9

(* A signal ends: what it has put in the table is taken out again. *)
LEMMA SignalEndsStep ==
  ASSUME IInv, NEW s \in Signals, SignalEnds(s)
  PROVE  IInv'
<1> USE DEF IInv, TypeOK
<1>1. PICK delivered \in BOOLEAN :
        /\ Gateway!EndRx(s, delivered)
        /\ atGateway' = [atGateway EXCEPT ![s] = IF delivered THEN "Delivered"
                                                   ELSE "Lost"]
  BY DEF SignalEnds
<1>2. /\ s \in onAir
      /\ EndRx(s)
      /\ onAir' = onAir \ {s}
      /\ before' = before
      /\ atDevice' = [atDevice EXCEPT ![s] =
                        CASE locked # s -> atDevice[s]
                          [] locked = s /\ bitErrors' -> "Lost"
                          [] OTHER -> "Delivered"]
  BY DEF SignalEnds
<1>3. /\ ber' \in [Signals -> Gateway!Levels \cup {"untracked"}]
      /\ ber'[s] = "untracked"
      /\ \A r \in Signals \ {s} : ber'[r] = "untracked" <=> ber[r] = "untracked"
  BY <1>1, GatewayEnds
<1>4. /\ UNCHANGED <<transmission, tuned>>
      /\ bitErrors' \in BOOLEAN
      /\ usage' = [c \in Cells |-> usage[c] - Contribution[s][c]]
      /\ locked = s => locked' = NoSignal /\ phyState' = "IDLE"
      /\ locked # s => locked' = locked /\ phyState' = phyState
  BY <1>2 DEF EndRx, EndSignal, Release
<1>5. /\ \A r \in Signals \ {s} : atDevice'[r] = atDevice[r]
      /\ locked # s => atDevice' = atDevice
      /\ locked = s => atDevice'[s] \in {"Lost", "Delivered"}
      /\ atDevice' = [r \in Signals |-> atDevice'[r]]
  <2>1. CASE locked # s
    <3>1. atDevice' = [atDevice EXCEPT ![s] = atDevice[s]]
      BY <1>2, <2>1
    <3>2. atDevice' = atDevice
      BY <3>1
    <3> QED BY <2>1, <3>2
  <2>2. CASE locked = s /\ bitErrors'
    BY <1>2, <2>2
  <2>3. CASE locked = s /\ ~bitErrors'
    BY <1>2, <2>3
  <2> QED BY <2>1, <2>2, <2>3
<1>6. TypeOK'
  <2>1. usage' \in [Cells -> Int]
    BY <1>4, Contributions
  <2>2. atDevice' \in [Signals -> Fates \cup {"Refused"}]
    BY <1>5 DEF Fates
  <2>3. locked' \in Signals \cup {NoSignal} /\ phyState' \in {"IDLE", "TX", "RX"}
    BY <1>4
  <2>4. atGateway' \in [Signals -> Fates] /\ onAir' \in SUBSET Signals
    BY <1>1, <1>2 DEF Fates
  <2> QED BY <1>2, <1>3, <1>4, <2>1, <2>2, <2>3, <2>4
<1>7. AirInv'
  <2>1. /\ Sent' = Sent
        /\ atGateway[s] # "Unsent" /\ atDevice[s] # "Unsent"
    BY <1>1, <1>2 DEF Sent, AirInv
  <2> SUFFICES ASSUME NEW r \in Signals
               PROVE  /\ r \in onAir' <=> ber'[r] # "untracked"
                      /\ r \in onAir' <=> atGateway'[r] = "OnAir"
                      /\ atGateway'[r] = "Unsent" <=> atDevice'[r] = "Unsent"
                      /\ before'[r] \subseteq Sent'
                      /\ r \notin Sent' => before'[r] = {}
    BY DEF AirInv
  <2>2. CASE r = s
    BY <1>1, <1>2, <1>3, <1>5, <2>1, <2>2 DEF AirInv
  <2>3. CASE r # s
    BY <1>1, <1>2, <1>3, <1>5, <2>1, <2>3 DEF AirInv
  <2> QED BY <2>2, <2>3
<1>8. ReceiverInv'
  <2>1. /\ locked' # NoSignal => phyState' = "RX" /\ locked' \in onAir'
        /\ transmission' => phyState' = "TX"
    <3>1. CASE locked = s
      <4>1. phyState = "RX"
        BY <3>1, ReceptionAssumption DEF ReceiverInv
      <4>2. ~transmission
        BY <4>1 DEF ReceiverInv
      <4> QED BY <1>4, <3>1, <4>2
    <3>2. CASE locked # s
      BY <1>2, <1>4, <3>2 DEF ReceiverInv
    <3> QED BY <3>1, <3>2
  <2>2. ASSUME NEW r \in Signals
        PROVE  /\ atDevice'[r] = "OnAir" <=> locked' = r
               /\ atDevice'[r] = "Delivered" => r \notin onAir'
    <3>1. CASE r = s
      BY <1>2, <1>4, <1>5, <3>1, ReceptionAssumption DEF ReceiverInv
    <3>2. CASE r # s
      BY <1>2, <1>4, <1>5, <3>2, ReceptionAssumption DEF ReceiverInv
    <3> QED BY <3>1, <3>2
  <2> QED BY <2>1, <2>2 DEF ReceiverInv
<1>9. UsageInv'
  <2> SUFFICES ASSUME NEW c \in Cells PROVE usage'[c] = Level(onAir', c)
    BY DEF UsageInv
  <2>1. usage[c] = Level(onAir, c)
    BY DEF UsageInv
  <2>2. Level((onAir \ {s}) \cup {s}, c) = Level(onAir \ {s}, c) + Contribution[s][c]
    BY LevelWithAnother
  <2>3. (onAir \ {s}) \cup {s} = onAir
    BY <1>2
  <2>4. Level(onAir \ {s}, c) \in Nat /\ Contribution[s][c] \in Nat
    BY Levels, Contributions
  <2>5. Level(onAir, c) = Level(onAir \ {s}, c) + Contribution[s][c]
    BY <2>2, <2>3
  <2>6. usage'[c] = usage[c] - Contribution[s][c]
    BY <1>4
  <2> QED BY <1>2, <2>1, <2>4, <2>5, <2>6
<1>10. DeviceInv'
  <2> SUFFICES ASSUME NEW t \in Signals, atDevice'[t] \in {"OnAir", "Delivered"}
               PROVE  CapturesAtDevice(t)'
    BY DEF DeviceInv
  <2>1. CASE t = s
    <3>1. atDevice[s] \in {"OnAir", "Delivered"} \/ locked = s
      BY <1>5, <2>1
    <3>2. atDevice[s] \in {"OnAir", "Delivered"}
      BY <3>1 DEF ReceiverInv
    <3> QED BY <1>2, <2>1, <3>2 DEF DeviceInv, CapturesAtDevice, LaterWeaker
  <2>2. CASE t # s
    BY <1>2, <1>5, <2>2 DEF DeviceInv, CapturesAtDevice, LaterWeaker
  <2> QED BY <2>1, <2>2
<1> QED BY <1>6, <1>7, <1>8, <1>9, <1>10

(* The other operations leave the air, the table and the fates of the       *)
(* signals as they are, but for the one the device gives up.               *)
LEMMA MacStep ==
  ASSUME IInv,
         Noise \/ OpenWindow \/ Sleep \/ Transmit \/ EndTransmission
  PROVE  IInv'
<1> USE DEF IInv, TypeOK
<1>1. UNCHANGED <<onAir, before, atGateway, usage>>
  BY DEF Noise, OpenWindow, Sleep, Transmit, EndTransmission, Elsewhere, environment,
         Listen, ChangeState, StartTx, EndTx
<1>2. /\ ber' \in [Signals -> Gateway!Levels \cup {"untracked"}]
      /\ \A s \in Signals : ber'[s] = "untracked" <=> ber[s] = "untracked"
  <2>1. CASE Noise
    <3>1. ber' \in Gateway!UpdateBer
      BY <2>1 DEF Noise
    <3>2. \A s \in Signals :
            /\ ber[s] = "untracked" => ber'[s] = "untracked"
            /\ ber[s] # "untracked" => ber'[s] \in Gateway!Levels
      BY <3>1, GatewayUpdates
    <3>3. ber' = [s \in Signals |-> ber'[s]]
      BY <3>1 DEF Gateway!UpdateBer
    <3>4. "untracked" \notin Gateway!Levels
      BY DEF Gateway!Levels
    <3> QED BY <3>2, <3>3, <3>4
  <2>2. CASE ber' = ber
    BY <2>2
  <2> QED BY <2>1, <2>2 DEF OpenWindow, Sleep, Transmit, EndTransmission, Elsewhere
<1>3. /\ phyState' \in {"IDLE", "TX", "RX"}
      /\ transmission' \in BOOLEAN /\ bitErrors' \in BOOLEAN
      /\ tuned' \in Windows
  BY DEF Noise, OpenWindow, Sleep, Transmit, EndTransmission, Elsewhere, environment,
         Listen, ChangeState, StartTx, EndTx
<1>4. \/ locked' = locked /\ atDevice' = atDevice
      \/ /\ locked' = NoSignal
         /\ atDevice' = [s \in Signals |-> IF s = locked THEN "Lost" ELSE atDevice[s]]
  BY DEF Noise, OpenWindow, Sleep, Transmit, EndTransmission, Elsewhere, environment,
         Listen, ChangeState, StartTx, EndTx
<1>5. TypeOK'
  <2>1. locked' \in Signals \cup {NoSignal}
    BY <1>4
  <2>2. atDevice' \in [Signals -> Fates \cup {"Refused"}]
    BY <1>4 DEF Fates
  <2> QED BY <1>1, <1>2, <1>3, <2>1, <2>2
<1>6. AirInv'
  <2>1. \A s \in Signals : atDevice'[s] = "Unsent" <=> atDevice[s] = "Unsent"
    <3>1. locked \in Signals => atDevice[locked] # "Unsent"
      BY ReceptionAssumption DEF ReceiverInv, AirInv
    <3> QED BY <1>4, <3>1
  <2> QED BY <1>1, <1>2, <2>1 DEF AirInv, Sent
<1>7. ReceiverInv'
  <2>1. locked' # NoSignal => phyState' = "RX" /\ locked' = locked
    <3>1. CASE Noise
      BY <3>1 DEF ReceiverInv, Noise
    <3>2. CASE OpenWindow
      BY <3>2 DEF ReceiverInv, OpenWindow, Listen
    <3>3. CASE Sleep
      BY <3>3 DEF Sleep, ChangeState
    <3>4. CASE Transmit
      BY <3>4 DEF ReceiverInv, Transmit, StartTx
    <3>5. CASE EndTransmission
      BY <3>5 DEF ReceiverInv, EndTransmission, EndTx
    <3> QED BY <3>1, <3>2, <3>3, <3>4, <3>5
  <2>2. transmission' => phyState' = "TX"
    BY DEF ReceiverInv, Noise, OpenWindow, Sleep, Transmit, EndTransmission,
           Listen, ChangeState, StartTx, EndTx
  <2>3. ASSUME NEW s \in Signals
        PROVE  /\ atDevice'[s] = "OnAir" <=> locked' = s
               /\ atDevice'[s] = "Delivered" => s \notin onAir
    BY <1>4, ReceptionAssumption DEF ReceiverInv
  <2> QED BY <1>1, <2>1, <2>2, <2>3 DEF ReceiverInv
<1>8. UsageInv'
  BY <1>1 DEF UsageInv
<1>9. DeviceInv'
  BY <1>1, <1>4 DEF DeviceInv, CapturesAtDevice, LaterWeaker
<1> QED BY <1>5, <1>6, <1>7, <1>8, <1>9

(* The radios start idle, on a silent channel. *)
LEMMA Initially ==
  ASSUME Init
  PROVE  IInv
<1> USE DEF Init, PhyInit, Gateway!GwPhyInit
<1>1. TypeOK
  <2>1. usage \in [Cells -> Int]
    OBVIOUS
  <2>2. ber \in [Signals -> Gateway!Levels \cup {"untracked"}]
    OBVIOUS
  <2>3. /\ onAir \in SUBSET Signals
        /\ before \in [Signals -> SUBSET Signals]
    OBVIOUS
  <2>4. /\ atGateway \in [Signals -> Fates]
        /\ atDevice \in [Signals -> Fates \cup {"Refused"}]
    BY DEF Fates
  <2>5. /\ phyState \in {"IDLE", "TX", "RX"}
        /\ transmission \in BOOLEAN /\ bitErrors \in BOOLEAN
        /\ tuned \in Windows
        /\ locked \in Signals \cup {NoSignal}
    OBVIOUS
  <2> QED BY <2>1, <2>2, <2>3, <2>4, <2>5 DEF TypeOK
<1>2. AirInv
  BY DEF AirInv, Sent
<1>3. ReceiverInv
  BY ReceptionAssumption DEF ReceiverInv
<1>4. UsageInv
  BY LevelOfNone DEF UsageInv
<1>5. DeviceInv
  BY DEF DeviceInv
<1> QED BY <1>1, <1>2, <1>3, <1>4, <1>5 DEF IInv

(* Every step keeps the invariant. *)
LEMMA EveryStep ==
  ASSUME IInv, [Next]_vars
  PROVE  IInv'
<1>1. ASSUME NEW s \in Signals, SignalStarts(s) PROVE IInv'
  BY <1>1, SignalStartsStep
<1>2. ASSUME NEW s \in Signals, SignalEnds(s) PROVE IInv'
  BY <1>2, SignalEndsStep
<1>3. CASE Noise \/ OpenWindow \/ Sleep \/ Transmit \/ EndTransmission
  BY <1>3, MacStep
<1>4. CASE UNCHANGED vars
  BY <1>4 DEF IInv, TypeOK, AirInv, ReceiverInv, UsageInv, DeviceInv, CapturesAtDevice,
              LaterWeaker, Sent, vars, phyVars, environment
<1> QED BY <1>1, <1>2, <1>3, <1>4 DEF Next

-----------------------------------------------------------------------------
(* The gateway: a signal it may still deliver has been the strongest of its *)
(* rivals all the time.                                                    *)

CapturesAtGateway(s) ==
  \A r \in Signals :
    Together(r, s) /\ Gateway!Rivals(r, s) => GatewayPower[s] > 4 * GatewayPower[r]

GatewayInv ==
  /\ \A s \in onAir : ber[s] # "many" => CapturesAtGateway(s)
  /\ GatewayCapture

(* What overpowers another signal is more than 6 dB stronger. *)
LEMMA OverpowersIsStronger ==
  ASSUME BelowBin(25), NEW s \in Signals, NEW r \in Signals, Gateway!Overpowers(s, r)
  PROVE  GatewayPower[s] > 4 * GatewayPower[r]
<1>1. Width * GatewayPower[s] > 4 * (Width * GatewayPower[r])
  BY ComparedIsPower DEF Gateway!Overpowers
<1>2. GatewayPower[s] \in Nat /\ GatewayPower[r] \in Nat
  BY Bands
<1> QED BY <1>1, <1>2 DEF Width, Half

(* A distance is the same from both ends. *)
LEMMA EitherWay ==
  ASSUME NEW a \in Nat, NEW b \in Nat, a - b \in -1249..1249
  PROVE  b - a \in -1249..1249
OBVIOUS

(* So rivalry is mutual. *)
LEMMA RivalsBothWays ==
  ASSUME NEW r \in Signals, NEW t \in Signals, Gateway!Rivals(r, t)
  PROVE  Gateway!Rivals(t, r)
<1> DEFINE a == Channel[r]
           b == Channel[t]
<1>1. a \in Nat /\ b \in Nat
  BY Bands
<1>2. r # t /\ Spreading[r] = Spreading[t]
  BY DEF Gateway!Rivals
<1>3. a - b \in -1249..1249
  BY DEF Gateway!Rivals, Gateway!Half
<1>4. b - a \in -1249..1249
  <2> HIDE DEF a, b
  <2> QED BY <1>1, <1>3, EitherWay
<1> QED BY <1>2, <1>4 DEF Gateway!Rivals, Gateway!Half

(* A signal starts at the gateway, among the tracked ones. *)
LEMMA GatewaySignalStarts ==
  ASSUME BelowBin(25), IInv, GatewayInv, NEW s \in Signals, SignalStarts(s)
  PROVE  GatewayInv'
<1> USE DEF IInv, TypeOK
<1>1. /\ atGateway[s] = "Unsent" /\ s \notin Sent
      /\ Gateway!StartRx(s)
      /\ onAir' = onAir \cup {s}
      /\ before' = [before EXCEPT ![s] = onAir]
      /\ atGateway' = [atGateway EXCEPT ![s] = "OnAir"]
  BY DEF SignalStarts, Sent
<1>2. s \notin onAir /\ \A r \in Signals : s \notin before[r]
  BY <1>1 DEF AirInv
<1>3. \A r \in Signals \ {s} :
        /\ ber'[r] = "untracked" <=> ber[r] = "untracked"
        /\ ber[r] = "many" => ber'[r] = "many"
        /\ ber[r] # "untracked" /\ Gateway!Rivals(r, s) =>
             /\ ber'[r] # "many" => Gateway!Overpowers(r, s)
             /\ ber'[s] # "many" => Gateway!Overpowers(s, r)
  BY <1>1, GatewayStarts
<1>4. \A r, t \in Signals : Gateway!Rivals(r, t) => Gateway!Rivals(t, r)
  BY RivalsBothWays
<1>5. ASSUME NEW t \in onAir', ber'[t] # "many",
             NEW r \in Signals, Together(r, t)', Gateway!Rivals(r, t)
      PROVE  GatewayPower[t] > 4 * GatewayPower[r]
  <2>1. t \in Signals /\ r # t
    BY <1>1, <1>5 DEF Gateway!Rivals
  <2>2. CASE t = s
    <3>1. r \in onAir /\ ber[r] # "untracked"
      BY <1>1, <1>2, <1>5, <2>1, <2>2 DEF Together, AirInv
    <3>2. Gateway!Overpowers(s, r)
      BY <1>3, <1>5, <2>1, <2>2, <3>1
    <3> QED BY <2>2, <3>2, OverpowersIsStronger
  <2>3. CASE r = s
    <3>1. t \in onAir /\ ber[t] # "untracked" /\ Gateway!Rivals(t, s)
      BY <1>1, <1>4, <1>5, <2>1, <2>3 DEF AirInv
    <3>2. Gateway!Overpowers(t, s)
      BY <1>3, <1>5, <2>1, <2>3, <3>1
    <3> QED BY <2>1, <2>3, <3>2, OverpowersIsStronger
  <2>4. CASE t # s /\ r # s
    <3>1. t \in onAir /\ ber[t] # "many" /\ Together(r, t)
      BY <1>1, <1>3, <1>5, <2>1, <2>4 DEF Together
    <3> QED BY <1>5, <3>1 DEF GatewayInv, CapturesAtGateway
  <2> QED BY <2>2, <2>3, <2>4
<1>6. ASSUME NEW t \in Signals, NEW r \in Signals, atGateway'[t] = "Delivered",
             Together(r, t)', Gateway!Rivals(r, t)
      PROVE  GatewayPower[t] > 4 * GatewayPower[r]
  <2>1. t # s /\ atGateway[t] = "Delivered" /\ t \notin onAir
    BY <1>1, <1>6 DEF AirInv
  <2>2. Together(r, t)
    BY <1>1, <1>2, <1>6, <2>1 DEF Together
  <2> QED BY <1>6, <2>1, <2>2 DEF GatewayInv, GatewayCapture
<1> QED BY <1>5, <1>6 DEF GatewayInv, GatewayCapture, CapturesAtGateway

(* It ends there. *)
LEMMA GatewaySignalEnds ==
  ASSUME IInv, GatewayInv, NEW s \in Signals, SignalEnds(s)
  PROVE  GatewayInv'
<1> USE DEF IInv, TypeOK
<1>1. PICK delivered \in BOOLEAN :
        /\ Gateway!EndRx(s, delivered)
        /\ atGateway' = [atGateway EXCEPT ![s] = IF delivered THEN "Delivered"
                                                   ELSE "Lost"]
  BY DEF SignalEnds
<1>2. s \in onAir /\ onAir' = onAir \ {s} /\ before' = before
  BY DEF SignalEnds
<1>3. /\ delivered => ber[s] # "many"
      /\ \A r \in Signals \ {s} : ber[r] = "many" => ber'[r] = "many"
  BY <1>1, GatewayEnds
<1>4. ASSUME NEW t \in onAir', ber'[t] # "many" PROVE CapturesAtGateway(t)
  BY <1>2, <1>3, <1>4 DEF GatewayInv
<1>5. ASSUME NEW t \in Signals, atGateway'[t] = "Delivered" PROVE CapturesAtGateway(t)
  <2>1. CASE t = s
    <3>1. delivered
      BY <1>1, <1>5, <2>1
    <3> QED BY <1>2, <1>3, <2>1, <3>1 DEF GatewayInv
  <2>2. CASE t # s
    BY <1>1, <1>5, <2>2 DEF GatewayInv, GatewayCapture, CapturesAtGateway
  <2> QED BY <2>1, <2>2
<1> QED BY <1>2, <1>4, <1>5 DEF GatewayInv, GatewayCapture, CapturesAtGateway, Together

(* Noise only adds errors, and the device is not heard. *)
LEMMA GatewayOtherSteps ==
  ASSUME IInv, GatewayInv,
         Noise \/ OpenWindow \/ Sleep \/ Transmit \/ EndTransmission
  PROVE  GatewayInv'
<1> USE DEF IInv, TypeOK
<1>1. UNCHANGED <<onAir, before, atGateway>>
  BY DEF Noise, OpenWindow, Sleep, Transmit, EndTransmission, Elsewhere, environment
<1>2. \A s \in Signals : ber[s] = "many" => ber'[s] = "many"
  <2>1. CASE Noise
    <3>1. ber' \in Gateway!UpdateBer
      BY <2>1 DEF Noise
    <3> QED BY <3>1, GatewayUpdates
  <2>2. CASE ber' = ber
    BY <2>2
  <2> QED BY <2>1, <2>2 DEF OpenWindow, Sleep, Transmit, EndTransmission, Elsewhere
<1> QED BY <1>1, <1>2 DEF GatewayInv, GatewayCapture, CapturesAtGateway, Together

-----------------------------------------------------------------------------
(* What the table tells of the spreading factors: it is right as long as    *)
(* every row keeps to itself and no bin belongs to two bands side by side.  *)

RowsApart == BelowBin(30)

BandsApart ==
  \A r, s \in Signals :
    \/ Channel[r] - Channel[s] \in -(2 * Half - 1)..(2 * Half - 1)
    \/ Bins(r) \cap Bins(s) = {}

(* A signal stays in the row of its spreading factor. *)
LEMMA RowHasThirtyBins ==
  ASSUME RowsApart, NEW s \in Signals, NEW i \in Bins(s)
  PROVE  i \in 0..29
<1>1. PICK b \in Nat, m \in Nat : /\ m < BinWidth /\ Low(s) = BinWidth * b + m
                                  /\ Bins(s) = b..(b + 5)
  BY Bands
<1>2. High(s) < 30 * BinWidth /\ High(s) = Low(s) + Width
  BY Bands DEF RowsApart, BelowBin
<1>3. b + 5 < 30
  BY <1>1, <1>2 DEF Width, Half, BinWidth
<1>4. i \in b..(b + 5)
  BY <1>1
<1> QED BY <1>3, <1>4

(* A cell of the table tells the row and the bin. *)
LEMMA CellTellsRowAndBin ==
  ASSUME RowsApart, NEW s \in Signals, NEW i \in Bins(s),
         NEW r \in Signals, NEW j \in Bins(r), Cell(r, j) = Cell(s, i)
  PROVE  Spreading[r] = Spreading[s] /\ j = i
<1> DEFINE a == Spreading[r]
           b == Spreading[s]
<1>1. i \in 0..29 /\ j \in 0..29
  BY RowHasThirtyBins
<1>2. a \in 7..12 /\ b \in 7..12
  BY Bands
<1>3. (12 - a) * 30 + j = (12 - b) * 30 + i
  BY DEF Cell
<1> HIDE DEF a, b
<1>4. a = b
  BY <1>1, <1>2, <1>3
<1>5. j = i
  BY <1>1, <1>2, <1>3, <1>4
<1> QED BY <1>4, <1>5 DEF a, b

(* A signal is held back only by a rival on air. *)
LEMMA CoveredByRival ==
  ASSUME RowsApart, BandsApart, IInv, NEW s \in Signals, s \notin onAir, Covered(s)
  PROVE  \E r \in onAir : Rivals(r, s)
<1>1. PICK i \in Bins(s) : Psd(s, i) > 0 /\ usage[Cell(s, i)] > Psd(s, i)
  BY DEF Covered
<1>2. i \in Int /\ Cell(s, i) \in Cells /\ Psd(s, i) \in Nat
  BY CellTypes, Shares
<1>3. onAir \in SUBSET Signals
  BY DEF IInv, TypeOK
<1>4. usage[Cell(s, i)] = Level(onAir, Cell(s, i))
  BY <1>2 DEF IInv, UsageInv
<1>5. Level(onAir, Cell(s, i)) # 0
  BY <1>1, <1>2, <1>4
<1>6. PICK r \in onAir : Contribution[r][Cell(s, i)] # 0
  BY <1>2, <1>3, <1>5, Levels
<1>7. r \in Signals /\ r # s
  BY <1>3
<1>8. PICK j \in Bins(r) : Cell(r, j) = Cell(s, i)
  BY <1>2, <1>6, <1>7, Contributions
<1>9. Spreading[r] = Spreading[s] /\ i \in Bins(r)
  BY <1>7, <1>8, CellTellsRowAndBin
<1>10. Channel[r] - Channel[s] \in -(2 * Half - 1)..(2 * Half - 1)
  BY <1>7, <1>9 DEF BandsApart
<1> QED BY <1>7, <1>9, <1>10 DEF Rivals

(* Every step keeps the reason of a refusal on record. *)
LEMMA RefusalsStep ==
  ASSUME RowsApart, BandsApart, IInv, RefusedOnlyByRival, [Next]_vars
  PROVE  RefusedOnlyByRival'
<1> SUFFICES ASSUME NEW t \in Signals, atDevice'[t] = "Refused"
             PROVE  \E r \in before'[t] : Rivals(r, t)
  BY DEF RefusedOnlyByRival
<1> USE DEF IInv, TypeOK
<1>1. CASE atDevice[t] = "Refused" /\ before'[t] = before[t]
  BY <1>1 DEF RefusedOnlyByRival
<1>2. ASSUME NEW s \in Signals, SignalStarts(s)
      PROVE  \E r \in before'[t] : Rivals(r, t)
  <2>1. /\ s \notin Sent
        /\ before' = [before EXCEPT ![s] = onAir]
    BY <1>2 DEF SignalStarts
  <2>2. s \notin onAir
    BY <2>1 DEF Sent, AirInv
  <2>3. \/ atDevice' = [atDevice EXCEPT ![s] = "Lost", ![locked] = "Lost"]
        \/ atDevice' = [atDevice EXCEPT ![s] = "OnAir"]
        \/ atDevice' = [atDevice EXCEPT ![s] = "Lost"]
        \/ Covered(s) /\ atDevice' = [atDevice EXCEPT ![s] = "Refused"]
    BY <1>2, DeviceStarts
  <2>4. CASE t = s
    <3>1. Covered(s)
      BY <2>3, <2>4
    <3> QED BY <2>1, <2>2, <2>4, <3>1, CoveredByRival
  <2>5. CASE t # s
    <3>1. atDevice[t] = "Refused" /\ before'[t] = before[t]
      BY <2>1, <2>3, <2>5
    <3> QED BY <1>1, <3>1
  <2> QED BY <2>4, <2>5
<1>3. ASSUME NEW s \in Signals, SignalEnds(s)
      PROVE  \E r \in before'[t] : Rivals(r, t)
  <2>1. /\ before' = before
        /\ \/ atDevice' = [atDevice EXCEPT ![s] = atDevice[s]]
           \/ atDevice' = [atDevice EXCEPT ![s] = "Lost"]
           \/ atDevice' = [atDevice EXCEPT ![s] = "Delivered"]
    <3>1. CASE locked # s
      BY <1>3, <3>1 DEF SignalEnds
    <3>2. CASE locked = s /\ bitErrors'
      BY <1>3, <3>2 DEF SignalEnds
    <3>3. CASE locked = s /\ ~bitErrors'
      BY <1>3, <3>3 DEF SignalEnds
    <3> QED BY <3>1, <3>2, <3>3
  <2>2. atDevice[t] = "Refused"
    BY <2>1
  <2> QED BY <1>1, <2>1, <2>2
<1>4. CASE Noise \/ OpenWindow \/ Sleep \/ Transmit \/ EndTransmission
  <2>1. /\ before' = before
        /\ \/ atDevice' = atDevice
           \/ atDevice' = [s \in Signals |-> IF s = locked THEN "Lost" ELSE atDevice[s]]
    BY <1>4 DEF Noise, OpenWindow, Sleep, Transmit, EndTransmission, Elsewhere,
                environment
  <2>2. atDevice[t] = "Refused"
    BY <2>1
  <2> QED BY <1>1, <2>1, <2>2
<1>5. CASE UNCHANGED vars
  BY <1>1, <1>5 DEF vars, environment
<1> QED BY <1>2, <1>3, <1>4, <1>5 DEF Next

-----------------------------------------------------------------------------
(* The theorems *)

(* The inductive invariant: what is on air, what each radio knows of it and *)
(* what is in the table (lora-phy.cc, lora-gw-phy.cc) fit together.         *)
THEOREM Invariance == Spec => []IInv
<1>1. Init => IInv
  BY Initially
<1>2. IInv /\ [Next]_vars => IInv'
  BY EveryStep
<1> QED BY <1>1, <1>2, PTL DEF Spec

(* Every field of both radios keeps its type (lora-phy.cc, lora-gw-phy.cc). *)
THEOREM TypeCorrectness == Spec => []TypeOK
<1>1. IInv => TypeOK
  BY DEF IInv
<1> QED BY <1>1, Invariance, PTL

(* What a device receives to the end is the capture effect's winner: no     *)
(* earlier signal of its spreading factor was stronger in any bin of its    *)
(* band, and no later one came within 6 dB (StartRx of lora-phy.cc), on any *)
(* channels, powers and spreading factors whatever.                         *)
THEOREM DeviceCaptures == Spec => []DeviceCapture
<1>1. IInv => DeviceCapture
  BY DEF IInv, DeviceInv, CapturesAtDevice, DeviceCapture
<1> QED BY <1>1, Invariance, PTL

(* What a gateway delivers was more than 6 dB above every rival it shared   *)
(* the air with (StartRx and EndRx of lora-gw-phy.cc), as long as the bands *)
(* lie in the 25 bins the gateway adds up: those of the channels up to      *)
(* 868.5 MHz every device starts with do.                                   *)
THEOREM GatewayCaptures ==
  ASSUME BelowBin(25)
  PROVE  Spec => []GatewayCapture
<1>1. Init => GatewayInv
  BY DEF Init, GatewayInv, GatewayCapture
<1>2. IInv /\ GatewayInv /\ [Next]_vars => GatewayInv'
  <2> SUFFICES ASSUME IInv, GatewayInv, [Next]_vars PROVE GatewayInv'
    OBVIOUS
  <2>1. ASSUME NEW s \in Signals, SignalStarts(s) PROVE GatewayInv'
    BY <2>1, GatewaySignalStarts
  <2>2. ASSUME NEW s \in Signals, SignalEnds(s) PROVE GatewayInv'
    BY <2>2, GatewaySignalEnds
  <2>3. CASE Noise \/ OpenWindow \/ Sleep \/ Transmit \/ EndTransmission
    BY <2>3, GatewayOtherSteps
  <2>4. CASE UNCHANGED vars
    BY <2>4 DEF GatewayInv, GatewayCapture, CapturesAtGateway, Together, vars,
                environment
  <2> QED BY <2>1, <2>2, <2>3, <2>4 DEF Next
<1>3. GatewayInv => GatewayCapture
  BY DEF GatewayInv
<1> QED BY <1>1, <1>2, <1>3, Invariance, PTL DEF Spec

(* A device refuses a signal only because of a rival on air, as long as the *)
(* bands lie in the 30 bins of a row of m_channelUsage and are apart: the   *)
(* index of the row is not checked (StartRx of lora-phy.cc), and without    *)
(* RowsApart the run radios_table refutes it.                               *)
THEOREM RefusalsAreJustified ==
  ASSUME RowsApart, BandsApart
  PROVE  Spec => []RefusedOnlyByRival
<1>1. Init => RefusedOnlyByRival
  BY DEF Init, RefusedOnlyByRival
<1>2. IInv /\ RefusedOnlyByRival /\ [Next]_vars => RefusedOnlyByRival'
  BY RefusalsStep
<1> QED BY <1>1, <1>2, Invariance, PTL DEF Spec

(* With its signals the radio does nothing LoRaPhy, on which LoRaNetDevice  *)
(* is built, leaves out: ChangeState, StartTx, EndTx, StartRx and EndRx of  *)
(* lora-phy.cc, and nothing else, change what the MAC sees of it.           *)
THEOREM SpectrumImplementsLoRaPhy == Spec => ImplementsLoRaPhy
<1> DEFINE seen == <<phyState, locked # NoSignal, transmission>>
           Step == \/ \E s \in {"IDLE", "RX"} : Radio!ChangeState(s)
                   \/ Radio!StartTx
                   \/ Radio!EndTx
                   \/ Radio!StartRx
                   \/ Radio!EndRx
<1>1. IInv /\ [Next]_vars => [Step]_seen
  <2> SUFFICES ASSUME IInv, [Next]_vars PROVE Step \/ UNCHANGED seen
    OBVIOUS
  <2> USE DEF Radio!ChangeState, Radio!StartTx, Radio!EndTx, Radio!StartRx, Radio!EndRx
  <2>1. ASSUME NEW s \in Signals, SignalStarts(s) PROVE Step \/ UNCHANGED seen
    <3>1. StartRx(s) /\ s # NoSignal
      BY <2>1, ReceptionAssumption DEF SignalStarts
    <3>2. transmission' = transmission
      BY <3>1 DEF StartRx
    <3>3. \/ locked # NoSignal /\ locked' = NoSignal /\ phyState' = "IDLE"
          \/ phyState = "RX" /\ locked = NoSignal /\ locked' = s /\ phyState' = phyState
          \/ UNCHANGED <<phyState, locked>>
      BY <3>1 DEF StartRx, Interferes, Release
    <3> QED BY <3>1, <3>2, <3>3
  <2>2. ASSUME NEW s \in Signals, SignalEnds(s) PROVE Step \/ UNCHANGED seen
    <3>1. EndRx(s) /\ s # NoSignal
      BY <2>2, ReceptionAssumption DEF SignalEnds
    <3>2. CASE locked = s
      BY <3>1, <3>2 DEF EndRx, Release
    <3>3. CASE locked # s
      BY <3>1, <3>3 DEF EndRx
    <3> QED BY <3>2, <3>3
  <2>3. CASE Noise
    BY <2>3 DEF Noise
  <2>4. CASE OpenWindow
    BY <2>4 DEF OpenWindow, Listen
  <2>5. CASE Sleep
    BY <2>5 DEF Sleep, ChangeState
  <2>6. CASE Transmit
    BY <2>6 DEF Transmit, StartTx
  <2>7. CASE EndTransmission
    BY <2>7 DEF EndTransmission, EndTx
  <2>8. CASE UNCHANGED vars
    BY <2>8 DEF vars, phyVars
  <2> QED BY <2>1, <2>2, <2>3, <2>4, <2>5, <2>6, <2>7, <2>8 DEF Next
<1> QED BY <1>1, Invariance, PTL DEF Spec, ImplementsLoRaPhy

=============================================================================
