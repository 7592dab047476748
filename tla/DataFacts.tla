------------------------------- MODULE DataFacts ------------------------------
(***************************************************************************)
(* Facts about numbers, sequences and the operators of the community       *)
(* modules, for the proofs of the components.  Induction is over a set of  *)
(* numbers, which is empty if it has no least member: so what a recursive  *)
(* definition computes can be told for every input.                        *)
(***************************************************************************)
EXTENDS Integers, Sequences, FiniteSets, SequencesExt, FiniteSetsExt, Functions,
        WellFoundedInduction, NaturalsInduction, FiniteSetTheorems, TLAPS

-----------------------------------------------------------------------------
(* Numbers.                                                                 *)

(* A set of numbers that is not empty has a least one.                      *)
LEMMA LeastNumber ==
  ASSUME NEW T, T \subseteq Nat, T # {}
  PROVE  \E n \in T : \A m \in T : n <= m
PROOF
  <1>1. IsWellFoundedOn(OpToRel(<, Nat), Nat)
    BY NatLessThanWellFounded
  <1>2. PICK n \in T : \A m \in T : ~ (<<m, n>> \in OpToRel(<, Nat))
    BY <1>1, WFMin
  <1>3. ASSUME NEW m \in T
        PROVE  n <= m
    <2>1. m < n => <<m, n>> \in OpToRel(<, Nat)
      BY DEF OpToRel
    <2>2. m \in Nat /\ n \in Nat
      OBVIOUS
    <2>3. ~ (m < n)
      BY <1>2, <2>1, Zenon
    <2> QED
      BY <2>2, <2>3
  <1> QED
    BY <1>2, <1>3

(* Induction up to a number.                                                *)
LEMMA CountingUp ==
  ASSUME NEW l \in Nat, NEW T, 0 \in T, \A n \in 0..l : n \in T /\ n < l => n + 1 \in T
  PROVE  0..l \subseteq T
PROOF
  <1> SUFFICES ASSUME (0..l) \ T # {} PROVE FALSE
    OBVIOUS
  <1>0. (0..l) \ T \subseteq Nat
    OBVIOUS
  <1>1. PICK n \in (0..l) \ T : \A m \in (0..l) \ T : n <= m
    BY <1>0, LeastNumber
  <1>2. n # 0 /\ n - 1 \in 0..l /\ n - 1 < l /\ ~ (n <= n - 1)
    BY <1>1
  <1>3. n - 1 \in T
    BY <1>1, <1>2
  <1>4. (n - 1) + 1 \in T
    BY <1>2, <1>3
  <1> QED
    BY <1>1, <1>4

LEMMA Distributes == ASSUME NEW i \in Int, NEW j \in Int, NEW k \in Int PROVE (i + j) * k = i * k + j * k
OBVIOUS

LEMMA Multiples ==
  ASSUME NEW k \in Int, NEW w \in Nat
  PROVE  /\ k * w \in Int
         /\ k >= 2 => k * w >= 2 * w
         /\ k <= -2 => k * w <= -2 * w
         /\ k >= 0 => k * w >= 0
         /\ k = 1 => k * w = w
         /\ k = 0 => k * w = 0
         /\ k = -1 => k * w = -w
  OBVIOUS

LEMMA DivMod ==
  ASSUME NEW b \in Nat \ {0}, NEW x \in Nat
  PROVE  x \div b \in Nat /\ x % b \in 0..b - 1 /\ x = (x \div b) * b + (x % b)
PROOF
  <1>1. x \div b \in Nat
    OBVIOUS
  <1>2. x % b \in 0..b - 1
    OBVIOUS
  <1>3. x = (x \div b) * b + (x % b)
    OBVIOUS
  <1> QED
    BY <1>1, <1>2, <1>3

LEMMA NegativeMod ==
  ASSUME NEW w \in Nat \ {0}, NEW x \in Int, -w < x, x < w
  PROVE  x % w = IF x >= 0 THEN x ELSE x + w
PROOF
  <1>q. PICK q, left : q = x \div w /\ left = x % w
    OBVIOUS
  <1>1. q \in Int /\ left \in 0..w - 1 /\ x = q * w + left
    BY <1>q
  <1>y. PICK y : y = q * w
    OBVIOUS
  <1>2. /\ y \in Int /\ (q >= 2 => y >= 2 * w) /\ (q <= -2 => y <= -2 * w)
        /\ (q = 1 => y = w) /\ (q = 0 => y = 0) /\ (q = -1 => y = -w)
    BY <1>1, <1>y, Multiples
  <1>3. x = y + left
    BY <1>1, <1>y, Zenon
  <1>4. left = IF x >= 0 THEN x ELSE x + w
    BY <1>1, <1>2, <1>3
  <1> QED
    BY <1>q, <1>4

-----------------------------------------------------------------------------
(* Sequences of numbers that rise.                                          *)
Rising(x) == \A i, j \in DOMAIN x : i < j => x[i] < x[j]
Precedes(X, Y) == \A a \in X, b \in Y : a < b

LEMMA Nothing == Rising(<<>>) /\ Range(<<>>) = {} /\ <<>> \in Seq(Nat) /\ Len(<<>>) = 0
PROOF
  BY DEF Rising, Range

(* What one sequence after another holds.                                   *)
LEMMA Joined ==
  ASSUME NEW x \in Seq(Nat), NEW y \in Seq(Nat)
  PROVE  /\ x \o y \in Seq(Nat)
         /\ Range(x \o y) = Range(x) \cup Range(y)
         /\ Rising(x) /\ Rising(y) /\ Precedes(Range(x), Range(y)) => Rising(x \o y)
         /\ (x \o y = <<>>) <=> (x = <<>> /\ y = <<>>)
PROOF
  <1> PICK z, k, l : z = x \o y /\ k = Len(x) /\ l = Len(y)
    OBVIOUS
  <1>1. z \in Seq(Nat) /\ Len(z) = k + l /\ k \in Nat /\ l \in Nat
    OBVIOUS
  <1>2. DOMAIN z = 1..k + l /\ DOMAIN x = 1..k /\ DOMAIN y = 1..l
    BY <1>1
  <1>3. \A i \in 1..k + l : z[i] = IF i <= k THEN x[i] ELSE y[i - k]
    OBVIOUS
  <1>4. Range(z) = Range(x) \cup Range(y)
    <2>1. \A i \in 1..k : i \in 1..k + l /\ z[i] = x[i]
      BY <1>1, <1>3
    <2>2. ASSUME NEW i \in 1..l
          PROVE  \E j \in 1..k + l : z[j] = y[i]
      <3> PICK j : j = i + k
        OBVIOUS
      <3>1. j \in 1..k + l /\ ~ (j <= k) /\ j - k = i
        BY <1>1
      <3>2. z[j] = y[j - k]
        BY <1>3, <3>1
      <3>3. y[j - k] = y[i]
        BY <3>1, Zenon
      <3> QED
        BY <3>1, <3>2, <3>3
    <2>3. \A i \in 1..k + l : (i \in 1..k /\ z[i] = x[i]) \/ (i - k \in 1..l /\ z[i] = y[i - k])
      BY <1>1, <1>3
    <2>4. ASSUME NEW e
          PROVE  e \in Range(z) <=> e \in Range(x) \/ e \in Range(y)
      <3>1. e \in Range(z) <=> \E i \in 1..k + l : e = z[i]
        BY <1>2 DEF Range
      <3>2. e \in Range(x) <=> \E i \in 1..k : e = x[i]
        BY <1>2 DEF Range
      <3>3. e \in Range(y) <=> \E i \in 1..l : e = y[i]
        BY <1>2 DEF Range
      <3>4. ASSUME e \in Range(z)
            PROVE  e \in Range(x) \/ e \in Range(y)
        BY <2>3, <3>1, <3>2, <3>3, <3>4
      <3>5. e \in Range(x) => e \in Range(z)
        BY <2>1, <3>1, <3>2
      <3>6. e \in Range(y) => e \in Range(z)
        BY <2>2, <3>1, <3>3
      <3> QED
        BY <3>4, <3>5, <3>6
    <2> QED
      BY <2>4
  <1>5. ASSUME Rising(x), Rising(y), Precedes(Range(x), Range(y))
        PROVE  Rising(z)
    <2> SUFFICES ASSUME NEW i \in 1..k + l, NEW j \in 1..k + l, i < j
                 PROVE  z[i] < z[j]
      BY <1>2 DEF Rising
    <2>0. /\ \A a, b \in 1..k : a < b => x[a] < x[b]
          /\ \A a, b \in 1..l : a < b => y[a] < y[b]
      BY <1>2, <1>5 DEF Rising
    <2>1. CASE j <= k
      <3>1. i \in 1..k /\ j \in 1..k
        BY <1>1, <2>1
      <3> QED
        BY <1>3, <2>0, <3>1
    <2>2. CASE i > k
      <3>1. i - k \in 1..l /\ j - k \in 1..l /\ i - k < j - k
        BY <1>1, <2>2
      <3>2. z[i] = y[i - k] /\ z[j] = y[j - k]
        BY <1>1, <1>3, <2>2, <3>1
      <3> QED
        BY <2>0, <3>1, <3>2
    <2>3. CASE i <= k /\ j > k
      <3>1. i \in 1..k /\ j - k \in 1..l
        BY <1>1, <2>3
      <3>2. x[i] \in Range(x) /\ y[j - k] \in Range(y)
        BY <1>2, <3>1 DEF Range
      <3> QED
        BY <1>1, <1>3, <1>5, <2>3, <3>2 DEF Precedes
    <2> QED
      BY <1>1, <2>1, <2>2, <2>3
  <1>6. (z = <<>>) <=> (x = <<>> /\ y = <<>>)
    OBVIOUS
  <1> QED
    BY <1>1, <1>4, <1>5, <1>6

(* One element more.                                                        *)
LEMMA Appended ==
  ASSUME NEW x \in Seq(Nat), NEW e \in Nat
  PROVE  /\ Append(x, e) \in Seq(Nat) /\ Append(x, e) # <<>>
         /\ Range(Append(x, e)) = Range(x) \cup {e}
         /\ Rising(x) /\ Precedes(Range(x), {e}) => Rising(Append(x, e))
         /\ Append(x, e)[1] = IF x = <<>> THEN e ELSE x[1]
         /\ Len(Append(x, e)) = Len(x) + 1
PROOF
  <1>1. Append(x, e) = x \o <<e>> /\ <<e>> \in Seq(Nat)
    OBVIOUS
  <1>2. Range(<<e>>) = {e} /\ Rising(<<e>>)
    BY DEF Range, Rising
  <1>3. /\ Append(x, e) # <<>> /\ Len(Append(x, e)) = Len(x) + 1
        /\ Append(x, e)[1] = IF x = <<>> THEN e ELSE x[1]
    <2>1. Append(x, e) # <<>> /\ Len(Append(x, e)) = Len(x) + 1
      OBVIOUS
    <2>2. CASE x = <<>>
      BY <2>2
    <2>3. CASE x # <<>>
      <3>1. 1 \in 1..Len(x) /\ \A i \in 1..Len(x) : Append(x, e)[i] = x[i]
        BY <2>3
      <3> QED
        BY <2>1, <2>3, <3>1
    <2> QED
      BY <2>1, <2>2, <2>3
  <1> PICK y : y = <<e>> /\ y \in Seq(Nat) /\ Append(x, e) = x \o y
    BY <1>1
  <1>4. Range(y) = {e} /\ Rising(y)
    BY <1>2
  <1>5. /\ x \o y \in Seq(Nat) /\ Range(x \o y) = Range(x) \cup {e}
        /\ Rising(x) /\ Precedes(Range(x), {e}) => Rising(x \o y)
    BY <1>4, Joined
  <1> QED
    BY <1>3, <1>5

(* A sequence is its elements: its first is the least of them if it rises.  *)
LEMMA Elements1 ==
  ASSUME NEW x \in Seq(Nat)
  PROVE  /\ Range(x) \subseteq Nat
         /\ Range(x) = {} <=> x = <<>>
         /\ x # <<>> => x[1] \in Range(x) /\ Last(x) \in Range(x)
         /\ Rising(x) /\ x # <<>> => \A a \in Range(x) : x[1] <= a /\ a <= Last(x)
PROOF
  <1>1. DOMAIN x = 1..Len(x) /\ Len(x) \in Nat /\ \A i \in 1..Len(x) : x[i] \in Nat
    OBVIOUS
  <1>2. x = <<>> <=> Len(x) = 0
    OBVIOUS
  <1>3. x # <<>> => 1 \in DOMAIN x /\ Len(x) \in DOMAIN x
    BY <1>1, <1>2
  <1>4. Range(x) \subseteq Nat /\ (Range(x) = {} <=> x = <<>>)
    <2>1. Range(x) = {x[i] : i \in 1..Len(x)}
      BY <1>1 DEF Range
    <2>2. Len(x) = 0 => 1..Len(x) = {}
      BY <1>1
    <2>3. Len(x) # 0 => 1 \in 1..Len(x)
      BY <1>1
    <2> QED
      BY <1>1, <1>2, <2>1, <2>2, <2>3
  <1>5. x # <<>> => x[1] \in Range(x) /\ Last(x) \in Range(x)
    BY <1>1, <1>3 DEF Range, Last
  <1>6. ASSUME Rising(x), x # <<>>, NEW a \in Range(x)
        PROVE  x[1] <= a /\ a <= Last(x)
    <2> PICK i \in 1..Len(x) : a = x[i]
      BY <1>1 DEF Range
    <2>1. \A j, n \in 1..Len(x) : j < n => x[j] < x[n]
      BY <1>1, <1>6 DEF Rising
    <2>2. 1 \in 1..Len(x) /\ Len(x) \in 1..Len(x)
      BY <1>1, <1>3, <1>6
    <2>3. x[1] <= x[i] /\ x[i] <= x[Len(x)]
      BY <1>1, <2>1, <2>2
    <2> QED
      BY <2>3 DEF Last
  <1> QED
    BY <1>4, <1>5, <1>6

(* What FlattenSeq computes on its way.                                     *)
ChainOf(f, parts, l) ==
  /\ \A n \in 1..l : f[n] = IF n = 1 THEN parts[1] ELSE f[n - 1] \o parts[n]
  /\ FlattenSeq(parts) = IF l = 0 THEN <<>> ELSE f[l]

LEMMA FlatChain ==
  ASSUME NEW S, NEW parts, NEW l \in Nat, parts \in [1..l -> Seq(S)]
  PROVE  \E f : ChainOf(f, parts, l)
PROOF
  <1>0. Len(parts) = l /\ DOMAIN parts = 1..l
    OBVIOUS
  <1> DEFINE Flat(f, n) == f = [i \in 1..n |-> IF i = 1 THEN parts[i] ELSE f[i - 1] \o parts[i]]
  <1> DEFINE Shape == {n \in 0..l : \E f : Flat(f, n)}
  <1>1. \E f : Flat(f, l)
    <2>1. 0 \in Shape
      <3> PICK e : e = [i \in {} |-> 0]
        OBVIOUS
      <3>1. Flat(e, 0)
        OBVIOUS
      <3> HIDE DEF Flat
      <3> QED
        BY <3>1
    <2>2. ASSUME NEW n \in 0..l, n \in Shape, n < l
          PROVE  n + 1 \in Shape
      <3> PICK f : Flat(f, n)
        BY <2>2
      <3> PICK g : g = [i \in 1..n + 1 |-> IF i <= n THEN f[i] ELSE IF n = 0 THEN parts[1] ELSE f[n] \o parts[n + 1]]
        OBVIOUS
      <3>1. Flat(g, n + 1)
        <4>1. ASSUME NEW i \in 1..n + 1
              PROVE  g[i] = IF i = 1 THEN parts[i] ELSE g[i - 1] \o parts[i]
          <5>1. CASE i <= n /\ i # 1
            <6>1. i \in 1..n /\ i - 1 \in 1..n + 1 /\ i - 1 <= n
              BY <5>1
            <6>2. g[i] = f[i] /\ g[i - 1] = f[i - 1]
              BY <5>1, <6>1
            <6> QED
              BY <5>1, <6>1, <6>2
          <5>2. CASE i <= n /\ i = 1
            BY <5>2
          <5>3. CASE ~ (i <= n) /\ n # 0
            <6>1. i = n + 1 /\ i # 1 /\ i - 1 = n /\ n \in 1..n + 1 /\ n <= n
              BY <5>3
            <6>2. g[n] = f[n]
              BY <6>1
            <6> QED
              BY <5>3, <6>1, <6>2
          <5>4. CASE ~ (i <= n) /\ n = 0
            BY <5>4
          <5> QED
            BY <5>1, <5>2, <5>3, <5>4
        <4> QED
          BY <4>1
      <3>2. n + 1 \in 0..l
        BY <2>2
      <3> HIDE DEF Flat
      <3> QED
        BY <3>1, <3>2
    <2> HIDE DEF Shape
    <2>3. 0..l \subseteq Shape
      BY <2>1, <2>2, CountingUp, Zenon
    <2>4. l \in Shape
      BY <2>3
    <2> QED
      BY <2>4 DEF Shape
  <1> PICK f : f = CHOOSE g : Flat(g, l)
    OBVIOUS
  <1>2. Flat(f, l)
    <2> HIDE DEF Flat
    <2> QED
      BY <1>1
  <1>3. FlattenSeq(parts) = IF l = 0 THEN <<>> ELSE f[l]
    <2>1. l = 0 => parts = <<>>
      BY <1>0
    <2> QED
      BY <1>0, <2>1 DEF FlattenSeq
  <1>4. \A n \in 1..l : f[n] = IF n = 1 THEN parts[1] ELSE f[n - 1] \o parts[n]
    <2> PICK g : g = [i \in 1..l |-> IF i = 1 THEN parts[i] ELSE f[i - 1] \o parts[i]]
      OBVIOUS
    <2>1. \A n \in 1..l : g[n] = IF n = 1 THEN parts[1] ELSE f[n - 1] \o parts[n]
      OBVIOUS
    <2>2. f = g
      BY <1>2
    <2> QED
      BY <2>1, <2>2, Zenon
  <1>5. ChainOf(f, parts, l)
    BY <1>3, <1>4 DEF ChainOf
  <1> QED
    BY <1>5

(* Of whatever the members are.                                             *)
LEMMA FlattenedOver ==
  ASSUME NEW S, NEW parts, NEW l \in Nat, parts \in [1..l -> Seq(S)]
  PROVE  FlattenSeq(parts) \in Seq(S)
PROOF
  <1> PICK f : ChainOf(f, parts, l)
    BY FlatChain
  <1>1. FlattenSeq(parts) = IF l = 0 THEN <<>> ELSE f[l]
    BY DEF ChainOf
  <1>2. \A n \in 1..l : f[n] = IF n = 1 THEN parts[1] ELSE f[n - 1] \o parts[n]
    BY DEF ChainOf
  <1> DEFINE Done == {n \in 0..l : n = 0 \/ f[n] \in Seq(S)}
  <1>3. ASSUME NEW n \in 0..l, n \in Done, n < l
        PROVE  n + 1 \in Done
    <2>1. n + 1 \in 1..l /\ parts[n + 1] \in Seq(S) /\ (n + 1) - 1 = n
      BY <1>3
    <2>2. CASE n = 0
      BY <1>2, <2>1, <2>2
    <2>3. CASE n # 0
      <3> PICK k : k = n + 1
        OBVIOUS
      <3>0. k \in 1..l /\ k # 1 /\ k - 1 = n
        BY <2>1, <2>3
      <3>1. f[k] = f[n] \o parts[k]
        BY <1>2, <3>0
      <3>2. f[n] \in Seq(S)
        BY <1>3, <2>3
      <3>3. f[n + 1] \in Seq(S)
        BY <2>1, <3>1, <3>2
      <3> QED
        BY <2>1, <3>3
    <2> QED
      BY <2>2, <2>3
  <1>4. 0..l \subseteq Done
    <2>1. 0 \in Done
      OBVIOUS
    <2> HIDE DEF Done
    <2> QED
      BY <1>3, <2>1, CountingUp
  <1>5. l # 0 => f[l] \in Seq(S)
    BY <1>4
  <1> QED
    BY <1>1, <1>5

(* A sequence of sequences of numbers, flattened: what it holds, and that   *)
(* it rises if each of its parts does and comes before the next ones.       *)
FlatOf(x, parts, l) ==
  /\ x \in Seq(Nat)
  /\ Range(x) = UNION {Range(parts[i]) : i \in 1..l}
  /\ (/\ \A i \in 1..l : Rising(parts[i])
      /\ \A i, j \in 1..l : i < j => Precedes(Range(parts[i]), Range(parts[j])))
     => Rising(x)

LEMMA Flattened ==
  ASSUME NEW parts, NEW l \in Nat, parts \in [1..l -> Seq(Nat)]
  PROVE  FlatOf(FlattenSeq(parts), parts, l)
PROOF
  <1> PICK f : ChainOf(f, parts, l)
    BY FlatChain
  <1>3. FlattenSeq(parts) = IF l = 0 THEN <<>> ELSE f[l]
    BY DEF ChainOf
  <1>4. \A n \in 1..l : f[n] = IF n = 1 THEN parts[1] ELSE f[n - 1] \o parts[n]
    BY DEF ChainOf
  <1> DEFINE Held(n) == UNION {Range(parts[i]) : i \in 1..n}
  <1> DEFINE Good(n) ==
        /\ f[n] \in Seq(Nat) /\ Range(f[n]) = Held(n)
        /\ (/\ \A i \in 1..l : Rising(parts[i])
            /\ \A i, j \in 1..l : i < j => Precedes(Range(parts[i]), Range(parts[j])))
           => Rising(f[n])
  <1>5. \A n \in 1..l : parts[n] \in Seq(Nat)
    OBVIOUS
  <1> DEFINE Done == {n \in 0..l : n = 0 \/ Good(n)}
  <1>6. ASSUME NEW n \in 0..l, n \in Done, n < l
        PROVE  n + 1 \in Done
    <2>1. CASE n = 0
      <3> HIDE DEF Good, Held, Done
      <3>1. 1 \in 1..l /\ n + 1 = 1
        BY <1>6, <2>1
      <3>2. f[1] = parts[1]
        BY <1>4, <3>1
      <3> USE DEF Held
      <3>3. Held(1) = Range(parts[1])
        <4>1. 1..1 = {1}
          OBVIOUS
        <4> QED
          BY <4>1
      <3> HIDE DEF Held
      <3>4. Good(1)
        BY <1>5, <3>1, <3>2, <3>3 DEF Good
      <3> QED
        BY <1>6, <3>1, <3>4 DEF Done
    <2>2. CASE n # 0
      <3>0. n \in 1..l /\ n + 1 \in 1..l /\ n + 1 # 1 /\ (n + 1) - 1 = n
        BY <1>6, <2>2
      <3>1. f[n + 1] = f[n] \o parts[n + 1]
        BY <1>4, <3>0
      <3>2. Good(n)
        BY <1>6, <2>2
      <3> PICK x : x = f[n]
        OBVIOUS
      <3> PICK y : y = parts[n + 1]
        OBVIOUS
      <3>3. x \in Seq(Nat) /\ y \in Seq(Nat) /\ f[n + 1] = x \o y /\ Range(x) = Held(n)
        BY <1>5, <3>0, <3>1, <3>2
      <3>4. /\ x \o y \in Seq(Nat) /\ Range(x \o y) = Range(x) \cup Range(y)
            /\ Rising(x) /\ Rising(y) /\ Precedes(Range(x), Range(y)) => Rising(x \o y)
        <4> HIDE DEF Held, Good, Done
        <4> QED
          BY <3>3, Joined
      <3>5. Held(n + 1) = Held(n) \cup Range(y)
        <4>1. 1..n + 1 = 1..n \cup {n + 1}
          BY <3>0
        <4> QED
          BY <4>1
      <3>6. ASSUME \A i \in 1..l : Rising(parts[i]),
                   \A i, j \in 1..l : i < j => Precedes(Range(parts[i]), Range(parts[j]))
            PROVE  Rising(f[n + 1])
        <4>1. Rising(x) /\ Rising(y)
          BY <3>0, <3>2, <3>6
        <4>2. Precedes(Range(x), Range(y))
          <5> SUFFICES ASSUME NEW a \in Held(n), NEW b \in Range(y)
                       PROVE  a < b
            BY <3>3 DEF Precedes
          <5> PICK i \in 1..n : a \in Range(parts[i])
            OBVIOUS
          <5>1. i \in 1..l /\ i < n + 1
            BY <3>0
          <5>2. Precedes(Range(parts[i]), Range(y))
            BY <3>0, <3>6, <5>1
          <5> QED
            BY <5>2 DEF Precedes
        <4> QED
          BY <3>3, <3>4, <4>1, <4>2
      <3> HIDE DEF Held
      <3>7. Good(n + 1)
        BY <3>3, <3>4, <3>5, <3>6
      <3> HIDE DEF Good
      <3> QED
        BY <3>0, <3>7
    <2> QED
      BY <2>1, <2>2
  <1>7. 0..l \subseteq Done
    <2>1. 0 \in Done
      OBVIOUS
    <2> HIDE DEF Done
    <2> QED
      BY <1>6, <2>1, CountingUp
  <1>8. CASE l = 0
    <2>1. 1..l = {} /\ FlattenSeq(parts) = <<>>
      BY <1>3, <1>8
    <2> QED
      BY <2>1, Nothing DEF FlatOf
  <1>9. CASE l # 0
    <2>1. l \in 0..l /\ FlattenSeq(parts) = f[l]
      BY <1>3, <1>9
    <2>2. Good(l)
      BY <1>7, <1>9, <2>1
    <2> QED
      BY <2>1, <2>2 DEF FlatOf
  <1> QED
    BY <1>8, <1>9

-----------------------------------------------------------------------------
(* The greatest and the least of a set of numbers.                          *)
LEMMA Greatest ==
  ASSUME NEW n \in Nat, NEW S, S \subseteq 0..n, S # {}
  PROVE  Max(S) \in S /\ \A x \in S : x <= Max(S)
PROOF
  <1> PICK T : T = {k \in Nat : k <= n /\ n - k \in S}
    OBVIOUS
  <1>1. T \subseteq Nat /\ T # {}
    <2> PICK x \in S : TRUE
      OBVIOUS
    <2> PICK y : y = n - x
      OBVIOUS
    <2>1. y \in Nat /\ y <= n /\ n - y = x
      OBVIOUS
    <2> QED
      BY <2>1
  <1>2. PICK k \in T : \A j \in T : k <= j
    BY <1>1, LeastNumber
  <1>3. n - k \in S /\ k \in Nat /\ k <= n
    OBVIOUS
  <1>4. ASSUME NEW x \in S
        PROVE  x <= n - k
    <2> PICK y : y = n - x
      OBVIOUS
    <2>1. y \in Nat /\ y <= n /\ n - y = x
      OBVIOUS
    <2>2. y \in T
      BY <2>1
    <2>3. k <= y
      BY <1>2, <2>2
    <2> QED
      BY <1>3, <2>1, <2>3
  <1>5. \E x \in S : \A y \in S : x >= y
    BY <1>3, <1>4
  <1>6. Max(S) \in S /\ \A y \in S : Max(S) >= y
    BY <1>5, Zenon DEF Max
  <1>7. \A y \in S : y \in Nat
    OBVIOUS
  <1> QED
    BY <1>6, <1>7

LEMMA Least ==
  ASSUME NEW S, S \subseteq Nat, S # {}
  PROVE  Min(S) \in S /\ \A x \in S : Min(S) <= x
PROOF
  <1>1. \E x \in S : \A y \in S : x <= y
    BY LeastNumber
  <1> QED
    BY <1>1, Zenon DEF Min
-----------------------------------------------------------------------------
(* Finite sets as sequences, and their images.                              *)
LEMMA Enumerated ==
  ASSUME NEW S, IsFiniteSet(S)
  PROVE  /\ Cardinality(S) \in Nat
         /\ SetToSeq(S) \in [1..Cardinality(S) -> S]
         /\ \A x \in S : \E i \in 1..Cardinality(S) : SetToSeq(S)[i] = x
PROOF
  <1> PICK n : n = Cardinality(S)
    OBVIOUS
  <1>1. n \in Nat /\ ExistsBijection(1..n, S)
    BY FS_CardinalityType
  <1>2. \E f : f \in [1..n -> S] /\ IsInjective(f)
    BY <1>1 DEF ExistsBijection, Bijection, Injection, Surjection
  <1> PICK f : f = SetToSeq(S)
    OBVIOUS
  <1>3. f \in [1..n -> S] /\ IsInjective(f)
    BY <1>2, Zenon DEF SetToSeq
  <1>4. IsFiniteSet(1..n) /\ Cardinality(1..n) = n
    BY <1>1, FS_Interval
  <1>5. f \in Injection(1..n, S)
    BY <1>3 DEF Injection
  <1>6. f \in Surjection(1..n, S)
    BY <1>4, <1>5, FS_Injection, Zenon
  <1> QED
    BY <1>1, <1>3, <1>6 DEF Surjection

ImageOf(f, S) == {f[x] : x \in S}

LEMMA ImageFinite ==
  ASSUME NEW S, IsFiniteSet(S), NEW f
  PROVE  IsFiniteSet(ImageOf(f, S))
PROOF
  <1> PICK g : g = [x \in S |-> f[x]]
    OBVIOUS
  <1>1. g \in Surjection(S, ImageOf(f, S))
    BY DEF Surjection, ImageOf
  <1> QED
    BY <1>1, FS_Surjection, Zenon

LEMMA PartFinite ==
  ASSUME NEW S, NEW T, IsFiniteSet(S), T \subseteq S
  PROVE  IsFiniteSet(T) /\ Cardinality(T) \in Nat /\ Cardinality(T) <= Cardinality(S)
PROOF
  BY FS_Subset, FS_CardinalityType

-----------------------------------------------------------------------------
(* What takes a value from step to step.                                    *)
Iterates(f, D, b, s, l) ==
  /\ f \in [0..l -> D] /\ f[0] = b
  /\ \A n \in 1..l : f[n] = s[n][f[n - 1]]

LEMMA Iterated ==
  ASSUME NEW D, NEW b \in D, NEW l \in Nat, NEW s \in [1..l -> [D -> D]]
  PROVE  \E f : Iterates(f, D, b, s, l)
PROOF
  <1> DEFINE Shape == {n \in 0..l : \E f : Iterates(f, D, b, s, n)}
  <1>1. 0 \in Shape
    <2> PICK f : f = [i \in 0..0 |-> b]
      OBVIOUS
    <2>1. Iterates(f, D, b, s, 0)
      BY DEF Iterates
    <2> QED
      BY <2>1
  <1>2. ASSUME NEW n \in 0..l, n \in Shape, n < l
        PROVE  n + 1 \in Shape
    <2> PICK f : Iterates(f, D, b, s, n)
      BY <1>2
    <2> PICK k : k = n + 1
      OBVIOUS
    <2>0. k \in 1..l /\ k - 1 = n /\ n \in Nat /\ n \in 0..n
      BY <1>2
    <2> PICK e : e = s[k][f[n]]
      OBVIOUS
    <2>1. f \in [0..n -> D] /\ f[0] = b /\ \A i \in 1..n : f[i] = s[i][f[i - 1]]
      BY DEF Iterates
    <2>2. e \in D
      BY <2>0, <2>1
    <2> PICK g : g = [i \in 0..k |-> IF i <= n THEN f[i] ELSE e]
      OBVIOUS
    <2>3. \A i \in 0..n : i \in 0..k /\ g[i] = f[i] /\ f[i] \in D
      BY <2>0, <2>1
    <2>4. k \in 0..k /\ ~ (k <= n) /\ g[k] = e
      BY <2>0
    <2>5. \A i \in 0..k : i \in 0..n \/ i = k
      BY <2>0
    <2>6. \A i \in 0..k : g[i] \in D
      BY <2>2, <2>3, <2>4, <2>5
    <2>7. g \in [0..k -> D] /\ g[0] = b
      BY <2>0, <2>1, <2>3, <2>6
    <2>8. ASSUME NEW i \in 1..k
          PROVE  g[i] = s[i][g[i - 1]]
      <3>1. CASE i = k
        BY <2>0, <2>3, <2>4, <3>1
      <3>2. CASE i # k
        <4>1. i \in 1..n /\ i \in 0..n /\ i - 1 \in 0..n
          BY <2>0, <3>2
        <4> QED
          BY <2>1, <2>3, <4>1
      <3> QED
        BY <3>1, <3>2
    <2>9. Iterates(g, D, b, s, k)
      BY <2>7, <2>8 DEF Iterates
    <2> QED
      BY <2>0, <2>9
  <1> HIDE DEF Shape
  <1>3. 0..l \subseteq Shape
    BY <1>1, <1>2, CountingUp, Zenon
  <1> QED
    BY <1>3 DEF Shape

-----------------------------------------------------------------------------
(* Sequences of numbers that are all different.                             *)
(* What is in a sequence.                                                   *)
LEMMA Members ==
  ASSUME NEW x \in Seq(Nat)
  PROVE  /\ Len(x) \in Nat /\ DOMAIN x = 1..Len(x)
         /\ \A i \in 1..Len(x) : x[i] \in Range(x) /\ x[i] \in Nat
         /\ \A a \in Range(x) : \E i \in 1..Len(x) : x[i] = a
  BY DEF Range

(* A sequence of one number.                                                *)
LEMMA Single ==
  ASSUME NEW e \in Nat
  PROVE  <<e>> \in Seq(Nat) /\ Rising(<<e>>) /\ Range(<<e>>) = {e}
PROOF
  <1>x. PICK x : x = Append(<<>>, e)
    OBVIOUS
  <1>1. x = <<e>>
    BY <1>x
  <1>2. x \in Seq(Nat) /\ Range(x) = Range(<<>>) \cup {e} /\ Rising(x)
    <2>0. <<>> \in Seq(Nat) /\ Rising(<<>>) /\ Precedes(Range(<<>>), {e})
      BY Nothing DEF Precedes
    <2>1. \A z \in Seq(Nat) : Rising(z) /\ Precedes(Range(z), {e}) =>
             Append(z, e) \in Seq(Nat) /\ Range(Append(z, e)) = Range(z) \cup {e} /\ Rising(Append(z, e))
      BY Appended
    <2> QED
      BY <1>x, <2>0, <2>1, Zenon
  <1> QED
    BY <1>1, <1>2, Nothing

(* The numbers of a set in a row.                                           *)
LEMMA InARow ==
  ASSUME NEW m \in Nat, NEW S, S \subseteq 1..m
  PROVE  \E x \in Seq(Nat) : Rising(x) /\ Range(x) = S
PROOF
  <1> DEFINE Upto(k)  == {e \in S : e <= k}
             Known    == {k \in 0..m : \E x \in Seq(Nat) : Rising(x) /\ Range(x) = Upto(k)}
  <1>0. \A e \in S : e \in Nat /\ e >= 1 /\ e <= m
    OBVIOUS
  <1>1. 0 \in Known
    <2>0. \A e : e \notin Upto(0)
      <3> SUFFICES ASSUME NEW e \in S, e <= 0 PROVE FALSE
        OBVIOUS
      <3>1. e \in Nat /\ e >= 1
        BY <1>0
      <3> QED
        BY <3>1
    <2>1. Upto(0) = {} /\ 0 \in 0..m
      BY <2>0
    <2>2. \E x \in Seq(Nat) : Rising(x) /\ Range(x) = {}
      BY Nothing, Zenon
    <2> QED
      BY <2>1, <2>2
  <1>2. ASSUME NEW k \in 0..m, k \in Known, k < m
        PROVE  k + 1 \in Known
    <2>1. PICK x \in Seq(Nat) : Rising(x) /\ Range(x) = Upto(k)
      BY <1>2
    <2>j. PICK j : j = k + 1
      OBVIOUS
    <2>2. j \in 0..m /\ j \in Nat
      BY <1>2, <2>j
    <2>3. CASE j \in S
      <3>1. Upto(j) = Upto(k) \cup {j}
        <4>1. k \in Nat /\ \A e \in S : e <= j <=> e <= k \/ e = j
          BY <1>0, <2>j
        <4>2. \A e : e \in Upto(j) <=> e \in Upto(k) \cup {j}
          BY <2>3, <2>j, <4>1
        <4> QED
          BY <4>2
      <3>2. Precedes(Range(x), {j})
        <4>1. \A e \in Upto(k) : e < j
          BY <1>0, <2>j
        <4> QED
          BY <2>1, <4>1 DEF Precedes
      <3>3. Append(x, j) \in Seq(Nat) /\ Range(Append(x, j)) = Range(x) \cup {j} /\ Rising(Append(x, j))
        BY <2>1, <2>2, <3>2, Appended, Zenon
      <3>4. \E z \in Seq(Nat) : Rising(z) /\ Range(z) = Upto(j)
        BY <2>1, <3>1, <3>3, Zenon
      <3> QED
        BY <2>2, <3>4, <2>j
    <2>4. CASE j \notin S
      <3>1. Upto(j) = Upto(k)
        <4>1. k \in Nat /\ \A e \in S : e <= j <=> e <= k
          BY <1>0, <2>4, <2>j
        <4> QED
          BY <4>1
      <3> QED
        BY <2>1, <2>2, <3>1, <2>j
    <2> QED
      BY <2>3, <2>4
  <1>3. m \in Known
    <2> HIDE DEF Known
    <2>1. 0..m \subseteq Known
      BY <1>1, <1>2, CountingUp
    <2> QED
      BY <2>1
  <1>4. Upto(m) = S
    BY <1>0
  <1> QED
    BY <1>3, <1>4

(* Two rows of the same numbers, in any order, are as long.                 *)
LEMMA SameLength ==
  ASSUME NEW s \in Seq(Nat), \A i, j \in 1..Len(s) : s[i] = s[j] => i = j,
         NEW x \in Seq(Nat), Rising(x), Range(x) = Range(s)
  PROVE  Len(x) = Len(s)
PROOF
  <1>l. PICK l, n : l = Len(x) /\ n = Len(s)
    OBVIOUS
  <1>1. /\ l \in Nat /\ n \in Nat /\ DOMAIN x = 1..l /\ DOMAIN s = 1..n
        /\ \A i \in 1..l : x[i] \in Range(x) /\ x[i] \in Nat
        /\ \A a \in Range(x) : \E i \in 1..l : x[i] = a
        /\ \A i \in 1..n : s[i] \in Range(s)
        /\ \A a \in Range(s) : \E i \in 1..n : s[i] = a
    BY <1>l, Members
  <1>2. \A i \in 1..l : \E j \in 1..n : s[j] = x[i]
    BY <1>1
  <1>p. PICK p : p = [i \in 1..l |-> CHOOSE j \in 1..n : s[j] = x[i]]
    OBVIOUS
  <1>3. \A i \in 1..l : p[i] \in 1..n /\ s[p[i]] = x[i]
    BY <1>2, <1>p
  <1>4. p \in [1..l -> 1..n]
    BY <1>3, <1>p
  <1>5. \A i, j \in 1..l : p[i] = p[j] => i = j
    <2> SUFFICES ASSUME NEW i \in 1..l, NEW j \in 1..l, p[i] = p[j] PROVE i = j
      OBVIOUS
    <2>1. x[i] = x[j] /\ x[i] \in Nat
      BY <1>1, <1>3
    <2>2. (i < j => x[i] < x[j]) /\ (j < i => x[j] < x[i])
      BY <1>1 DEF Rising
    <2>3. i \in Nat /\ j \in Nat /\ (i < j \/ j < i \/ i = j)
      BY <1>1
    <2> QED
      BY <2>1, <2>2, <2>3
  <1>6. \A k \in 1..n : \E i \in 1..l : p[i] = k
    <2> SUFFICES ASSUME NEW k \in 1..n PROVE \E i \in 1..l : p[i] = k
      OBVIOUS
    <2>1. PICK i \in 1..l : x[i] = s[k]
      BY <1>1
    <2>2. p[i] = k
      BY <1>1, <1>3, <1>l, <2>1
    <2> QED
      BY <2>2
  <1>7. p \in Bijection(1..l, 1..n)
    BY <1>4, <1>5, <1>6 DEF Bijection, Injection, Surjection, IsInjective
  <1>8. ExistsBijection(1..l, 1..n)
    BY <1>7 DEF ExistsBijection
  <1>9. 1 \in Int /\ l \in Int /\ n \in Int
    BY <1>1
  <1>10. IsFiniteSet(1..l) /\ Cardinality(1..l) = l /\ Cardinality(1..n) = n
    BY <1>1, <1>9, FS_Interval
  <1> QED
    BY <1>8, <1>10, <1>l, FS_Bijection

(* What keeps a row's order is one to one.                                  *)
LEMMA OntoItself ==
  ASSUME NEW n \in Nat, NEW p \in [1..n -> 1..n], \A i, j \in 1..n : i < j => p[i] # p[j]
  PROVE  \A k \in 1..n : \E i \in 1..n : p[i] = k
PROOF
  <1>1. \A i, j \in 1..n : p[i] = p[j] => i = j
    OBVIOUS
  <1>2. p \in Injection(1..n, 1..n)
    BY <1>1 DEF Injection, IsInjective
  <1>3. IsFiniteSet(1..n)
    <2>1. 1 \in Int /\ n \in Int
      OBVIOUS
    <2> QED
      BY <2>1, FS_Interval
  <1>4. p \in Surjection(1..n, 1..n)
    BY <1>2, <1>3, FS_Injection
  <1> QED
    BY <1>4 DEF Surjection

(* Short sequences, and one after the other.                                *)
LEMMA Lists ==
  ASSUME NEW S, NEW a \in S, NEW b \in S, NEW c \in S
  PROVE  /\ <<>> \in Seq(S) /\ Len(<<>>) = 0
         /\ <<a>> \in Seq(S) /\ Len(<<a>>) = 1
         /\ <<a, b>> \in Seq(S) /\ Len(<<a, b>>) = 2
         /\ <<a, b, c>> \in Seq(S) /\ Len(<<a, b, c>>) = 3
  OBVIOUS

LEMMA ListsJoined ==
  ASSUME NEW S, NEW x \in Seq(S), NEW y \in Seq(S)
  PROVE  x \o y \in Seq(S) /\ Len(x \o y) = Len(x) + Len(y)
  OBVIOUS

=============================================================================
