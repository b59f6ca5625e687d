-------------------------- MODULE ShortCodesProofs --------------------------
(***************************************************************************)
(* Proofs about ShortCodes: the codec, over every alphabet of two or more  *)
(* characters, every number and texts of every length; and the requests,   *)
(* for all limits that stand to each other as those of the application do: *)
(* 4 <= 4, 10 <= 10, 10 <= 10.                                             *)
(*                                                                         *)
(* Induction is over sets: a set of numbers that has 0, and with every     *)
(* number the next, is Nat.                                                *)
(***************************************************************************)
EXTENDS ShortCodes, WellFoundedInduction, TLAPS

-----------------------------------------------------------------------------
(* Induction, with a set for the predicate.                                *)

LEMMA StrongInduction ==
    ASSUME NEW S \in SUBSET Nat, \A n \in Nat : 0 .. n - 1 \subseteq S => n \in S
    PROVE  S = Nat
<1> DEFINE R == OpToRel(<, Nat)
           rest == Nat \ S
<1>1. rest # {} => \E n \in rest : \A m \in rest : <<m, n>> \notin R
  <2>1. IsWellFoundedOn(R, Nat) /\ rest \in SUBSET Nat
    BY NatLessThanWellFounded
  <2> HIDE DEF R, rest
  <2> QED
    BY <2>1, WFMin
<1>2. \A m, n \in Nat : m < n => <<m, n>> \in R
  BY DEF OpToRel
<1>3. SUFFICES ASSUME rest # {} PROVE FALSE
  OBVIOUS
<1>4. PICK n \in rest : \A m \in rest : <<m, n>> \notin R
  BY <1>1, <1>3
<1>5. 0 .. n - 1 \subseteq S
  <2> HIDE DEF R
  <2>1. n \in Nat /\ \A m \in 0 .. n - 1 : m \in Nat /\ m < n
    BY <1>4
  <2>2. \A m \in 0 .. n - 1 : m \notin rest
    BY <1>2, <1>4, <2>1
  <2> QED
    BY <2>1, <2>2
<1> QED
  BY <1>4, <1>5

LEMMA SimpleInduction ==
    ASSUME NEW S \in SUBSET Nat, 0 \in S, \A n \in S : n + 1 \in S
    PROVE  S = Nat
<1>1. ASSUME NEW n \in Nat, 0 .. n - 1 \subseteq S PROVE n \in S
  <2>1. CASE n = 0
    BY <2>1
  <2>2. CASE n # 0
    <3>1. n - 1 \in S
      BY <1>1, <2>2
    <3>2. n = (n - 1) + 1
      OBVIOUS
    <3> QED
      BY <3>1, <3>2
  <2> QED
    BY <2>1, <2>2
<1> QED
  BY <1>1, StrongInduction

\* Along the positions of a text.
LEMMA PositionInduction ==
    ASSUME NEW n \in Nat, NEW S \in SUBSET (0 .. n), 0 \in S,
           \A i \in 1 .. n : i - 1 \in S => i \in S
    PROVE  S = 0 .. n
<1> DEFINE T == {i \in Nat : i <= n => i \in S}
<1>1. 0 \in T /\ T \in SUBSET Nat
  OBVIOUS
<1>2. ASSUME NEW i \in T PROVE i + 1 \in T
  <2>1. i + 1 <= n => i + 1 \in 1 .. n /\ (i + 1) - 1 \in S
    BY <1>2
  <2> QED
    BY <2>1
<1>3. T = Nat
  <2> HIDE DEF T
  <2> QED
    BY <1>1, <1>2, SimpleInduction
<1>4. \A i \in 0 .. n : i \in S
  BY <1>3
<1> QED
  BY <1>4

-----------------------------------------------------------------------------
(* Division by the size of the alphabet.                                   *)

LEMMA BaseIs == Base \in Nat /\ Base >= 2
BY Sizes

LEMMA Divided ==
    ASSUME NEW n \in Nat
    PROVE  n \div Base \in Nat /\ (n > 0 => n \div Base < n) /\ n % Base \in Alphabet
BY BaseIs DEF Alphabet

LEMMA Composed ==
    ASSUME NEW a \in Nat, NEW d \in Alphabet
    PROVE  (a * Base + d) % Base = d /\ (a * Base + d) \div Base = a
BY BaseIs DEF Alphabet

-----------------------------------------------------------------------------
(* The loop of encode_base62 is defined for every number.                  *)

\* One round of the loop, with r for the digits of a smaller number.
Round(r, n) == IF n = 0 THEN <<>> ELSE <<n % Base>> \o r[n \div Base]

\* r gives the digits of the numbers up to k.
Gives(r, k) ==
    r \in [0 .. k -> Seq(Alphabet)] /\ \A n \in 0 .. k : r[n] = Round(r, n)

LEMMA SomeGives == \A k \in Nat : \E r : Gives(r, k)
<1> DEFINE S == {k \in Nat : \E r : Gives(r, k)}
<1>1. 0 \in S
  <2> DEFINE r == [n \in 0 .. 0 |-> <<>>]
  <2>1. Gives(r, 0)
    BY DEF Gives, Round
  <2> QED
    BY <2>1
<1>2. ASSUME NEW k \in S PROVE k + 1 \in S
  <2>1. PICK r : Gives(r, k)
    OBVIOUS
  <2>2. k \in Nat /\ (k + 1) \div Base \in 0 .. k /\ (k + 1) % Base \in Alphabet
    BY Divided
  <2> DEFINE next == <<(k + 1) % Base>> \o r[(k + 1) \div Base]
             longer == [n \in 0 .. k + 1 |-> IF n = k + 1 THEN next ELSE r[n]]
  <2>3. next \in Seq(Alphabet)
    BY <2>1, <2>2 DEF Gives
  <2>4. longer \in [0 .. k + 1 -> Seq(Alphabet)]
    <3> HIDE DEF next
    <3> QED
      BY <2>1, <2>2, <2>3 DEF Gives
  <2>5. \A n \in 0 .. k : longer[n] = r[n]
    BY <2>2
  <2>6. longer[k + 1] = Round(longer, k + 1)
    BY <2>2, <2>5 DEF Round
  <2>7. \A n \in 0 .. k : longer[n] = Round(longer, n)
    <3> SUFFICES ASSUME NEW n \in 0 .. k PROVE longer[n] = Round(longer, n)
      OBVIOUS
    <3>1. longer[n] = Round(r, n)
      BY <2>1, <2>5 DEF Gives
    <3>2. n # 0 => n \div Base \in 0 .. k
      BY <2>2, Divided
    <3>3. n # 0 => longer[n \div Base] = r[n \div Base]
      BY <3>2, <2>5
    <3> HIDE DEF longer
    <3> QED
      BY <3>1, <3>3 DEF Round
  <2>8. Gives(longer, k + 1)
    <3>1. \A n \in 0 .. k + 1 : n \in 0 .. k \/ n = k + 1
      BY <2>2
    <3> HIDE DEF longer
    <3> QED
      BY <3>1, <2>4, <2>6, <2>7 DEF Gives
  <2> QED
    BY <2>2, <2>8
<1> HIDE DEF S
<1>3. S = Nat
  BY <1>1, <1>2, SimpleInduction DEF S
<1> QED
  BY <1>3 DEF S

\* Any two agree as far as both go.
LEMMA GivesAgree ==
    ASSUME NEW k \in Nat, NEW l \in Nat, NEW r, NEW s, Gives(r, k), Gives(s, l),
           NEW n \in Nat, n <= k, n <= l
    PROVE  r[n] = s[n]
<1> DEFINE S == {m \in Nat : m <= k /\ m <= l => r[m] = s[m]}
<1>1. ASSUME NEW m \in Nat, 0 .. m - 1 \subseteq S PROVE m \in S
  <2> SUFFICES ASSUME m <= k, m <= l PROVE r[m] = s[m]
    OBVIOUS
  <2>1. r[m] = Round(r, m) /\ s[m] = Round(s, m)
    BY DEF Gives
  <2>2. m # 0 => m \div Base \in 0 .. m - 1
    BY Divided
  <2>3. m # 0 => r[m \div Base] = s[m \div Base]
    BY <1>1, <2>2
  <2> QED
    BY <2>1, <2>3 DEF Round
<1>2. S = Nat
  <2> HIDE DEF S
  <2>1. S \in SUBSET Nat
    BY DEF S
  <2> QED
    BY <1>1, <2>1, StrongInduction
<1> QED
  BY <1>2

LEMMA RemaindersUnfold ==
    /\ remainders \in [Nat -> Seq(Alphabet)]
    /\ \A n \in Nat : remainders[n] = Round(remainders, n)
<1> DEFINE G(k) == CHOOSE r : Gives(r, k)
           all == [n \in Nat |-> G(n)[n]]
<1>1. \A k \in Nat : Gives(G(k), k)
  BY SomeGives
<1> HIDE DEF G
<1>2. \A n \in Nat : all[n] \in Seq(Alphabet)
  BY <1>1 DEF Gives
<1>3. ASSUME NEW n \in Nat PROVE all[n] = Round(all, n)
  <2>1. all[n] = Round(G(n), n)
    BY <1>1 DEF Gives
  <2>2. n # 0 => n \div Base \in 0 .. n - 1
    BY Divided
  <2>3. n # 0 => G(n)[n \div Base] = G(n \div Base)[n \div Base]
    <3> SUFFICES ASSUME n # 0 PROVE G(n)[n \div Base] = G(n \div Base)[n \div Base]
      OBVIOUS
    <3>1. n \div Base \in Nat /\ n \div Base <= n
      BY <2>2
    <3> QED
      BY <1>1, <3>1, GivesAgree
  <2>4. n # 0 => all[n \div Base] = G(n)[n \div Base]
    BY <2>2, <2>3
  <2> HIDE DEF all
  <2> QED
    BY <2>1, <2>4 DEF Round
<1>4. all = [n \in Nat |-> IF n = 0 THEN <<>> ELSE <<n % Base>> \o all[n \div Base]]
  BY <1>3 DEF Round
<1>5. remainders = [n \in Nat |->
                      IF n = 0 THEN <<>> ELSE <<n % Base>> \o remainders[n \div Base]]
  <2> HIDE DEF all
  <2>1. \E r : r = [n \in Nat |-> IF n = 0 THEN <<>> ELSE <<n % Base>> \o r[n \div Base]]
    BY <1>4
  <2> QED
    BY <2>1, Zenon DEF remainders
<1>6. ASSUME NEW n \in Nat PROVE remainders[n] = Round(remainders, n)
  <2>1. [m \in Nat |-> IF m = 0 THEN <<>> ELSE <<m % Base>> \o remainders[m \div Base]][n]
          = Round(remainders, n)
    BY DEF Round
  <2> QED
    BY <1>5, <2>1, Zenon
<1>7. \A n \in Nat : remainders[n] \in Seq(Alphabet)
  <2> DEFINE S == {n \in Nat : remainders[n] \in Seq(Alphabet)}
  <2>1. ASSUME NEW n \in Nat, 0 .. n - 1 \subseteq S PROVE n \in S
    <3>1. n # 0 => n \div Base \in 0 .. n - 1 /\ n % Base \in Alphabet
      BY Divided
    <3>2. n # 0 => remainders[n \div Base] \in Seq(Alphabet)
      BY <2>1, <3>1
    <3>3. n # 0 => <<n % Base>> \o remainders[n \div Base] \in Seq(Alphabet)
      BY <3>1, <3>2
    <3>4. Round(remainders, n) \in Seq(Alphabet)
      BY <3>3 DEF Round
    <3> QED
      BY <1>6, <3>4
  <2>2. S \in SUBSET Nat
    OBVIOUS
  <2> HIDE DEF S
  <2>3. S = Nat
    BY <2>1, <2>2, StrongInduction
  <2> QED
    BY <2>3 DEF S
<1>8. remainders = [n \in Nat |-> remainders[n]]
  <2> DEFINE f == [n \in Nat |-> IF n = 0 THEN <<>> ELSE <<n % Base>> \o remainders[n \div Base]]
  <2>1. f = [n \in Nat |-> f[n]]
    OBVIOUS
  <2>2. remainders = f
    BY <1>5, Zenon
  <2> QED
    BY <2>1, <2>2, Zenon
<1> QED
  BY <1>6, <1>7, <1>8
-----------------------------------------------------------------------------
(* The loop of decode_base62.                                              *)

\* What the loop has after each character.
Numbers(t) == CHOOSE n : n = [i \in 0 .. Len(t) |-> IF i = 0 THEN 0 ELSE n[i - 1] * Base + t[i]]

LEMMA DecodedIs ==
    ASSUME NEW t, ~Undecodable(t)
    PROVE  decode_base62(t) = Numbers(t)[Len(t)]
BY DEF decode_base62, Numbers

LEMMA NumbersUnfold ==
    ASSUME NEW t \in Seq(Nat)
    PROVE  /\ Numbers(t) \in [0 .. Len(t) -> Nat]
           /\ Numbers(t)[0] = 0
           /\ \A i \in 1 .. Len(t) : Numbers(t)[i] = Numbers(t)[i - 1] * Base + t[i]
<1> DEFINE Good(n, k) == /\ n \in [0 .. k -> Nat] /\ n[0] = 0
                         /\ \A i \in 1 .. k : n[i] = n[i - 1] * Base + t[i]
           S == {k \in 0 .. Len(t) : \E n : Good(n, k)}
<1>0. Len(t) \in Nat /\ \A i \in 1 .. Len(t) : t[i] \in Nat
  OBVIOUS
<1>1. 0 \in S
  <2> DEFINE n == [i \in 0 .. 0 |-> 0]
  <2>1. Good(n, 0)
    OBVIOUS
  <2> HIDE DEF Good
  <2> QED
    BY <1>0, <2>1
<1>2. ASSUME NEW k \in 1 .. Len(t), k - 1 \in S PROVE k \in S
  <2>1. PICK n : Good(n, k - 1)
    BY <1>2
  <2> DEFINE next == n[k - 1] * Base + t[k]
             longer == [i \in 0 .. k |-> IF i = k THEN next ELSE n[i]]
  <2>2. next \in Nat
    <3>1. n[k - 1] \in Nat /\ t[k] \in Nat
      BY <1>0, <2>1
    <3> QED
      BY <3>1, BaseIs
  <2>3. longer[0] = 0 /\ longer[k] = longer[k - 1] * Base + t[k]
    BY <1>0, <2>1
  <2>4. ASSUME NEW i \in 1 .. k - 1 PROVE longer[i] = longer[i - 1] * Base + t[i]
    BY <2>1
  <2>5. longer \in [0 .. k -> Nat]
    <3> HIDE DEF next
    <3> QED
      BY <2>1, <2>2
  <2>6. Good(longer, k)
    <3> HIDE DEF longer
    <3>1. \A i \in 1 .. k : i \in 1 .. k - 1 \/ i = k
      OBVIOUS
    <3> QED
      BY <2>3, <2>4, <2>5, <3>1
  <2> HIDE DEF Good
  <2> QED
    BY <2>6
<1>3. S = 0 .. Len(t)
  <2> HIDE DEF Good
  <2>1. S \in SUBSET (0 .. Len(t))
    OBVIOUS
  <2> HIDE DEF S
  <2> QED
    BY <1>0, <1>1, <1>2, <2>1, PositionInduction
<1>4. PICK n : Good(n, Len(t))
  <2> HIDE DEF Good
  <2> QED
    BY <1>0, <1>3
<1>5. n = [i \in 0 .. Len(t) |-> IF i = 0 THEN 0 ELSE n[i - 1] * Base + t[i]]
  BY <1>0, <1>4
<1>6. Numbers(t) = [i \in 0 .. Len(t) |->
                      IF i = 0 THEN 0 ELSE Numbers(t)[i - 1] * Base + t[i]]
  BY <1>5, Zenon DEF Numbers
<1>7. /\ Numbers(t)[0] = 0
      /\ \A i \in 1 .. Len(t) : Numbers(t)[i] = Numbers(t)[i - 1] * Base + t[i]
  <2> DEFINE f == [i \in 0 .. Len(t) |-> IF i = 0 THEN 0 ELSE Numbers(t)[i - 1] * Base + t[i]]
  <2>1. /\ f[0] = 0
        /\ \A i \in 1 .. Len(t) : f[i] = Numbers(t)[i - 1] * Base + t[i]
    BY <1>0
  <2>2. Numbers(t) = f
    BY <1>6, Zenon
  <2> QED
    BY <2>1, <2>2, Zenon
<1>8. \A i \in 0 .. Len(t) : Numbers(t)[i] \in Nat
  <2> DEFINE T == {i \in 0 .. Len(t) : Numbers(t)[i] \in Nat}
  <2>1. 0 \in T /\ T \in SUBSET (0 .. Len(t))
    BY <1>0, <1>7
  <2>2. ASSUME NEW i \in 1 .. Len(t), i - 1 \in T PROVE i \in T
    <3>1. Numbers(t)[i - 1] \in Nat /\ t[i] \in Nat
      BY <1>0, <2>2
    <3>2. Numbers(t)[i - 1] * Base + t[i] \in Nat
      BY <3>1, BaseIs
    <3> QED
      BY <1>7, <3>2
  <2> HIDE DEF T
  <2>3. T = 0 .. Len(t)
    BY <1>0, <2>1, <2>2, PositionInduction
  <2> QED
    BY <2>3 DEF T
<1>9. Numbers(t) = [i \in 0 .. Len(t) |-> Numbers(t)[i]]
  <2> DEFINE f == [i \in 0 .. Len(t) |-> IF i = 0 THEN 0 ELSE Numbers(t)[i - 1] * Base + t[i]]
  <2>1. f = [i \in 0 .. Len(t) |-> f[i]]
    OBVIOUS
  <2>2. Numbers(t) = f
    BY <1>6, Zenon
  <2> QED
    BY <2>1, <2>2, Zenon
<1> QED
  BY <1>7, <1>8, <1>9
\* The same, for texts that decode_base62 accepts.
LEMMA DigitsUnfold ==
    ASSUME NEW t \in Seq(Alphabet)
    PROVE  /\ Len(t) \in Nat /\ \A i \in 1 .. Len(t) : t[i] \in Alphabet /\ t[i] \in Nat
           /\ Numbers(t) \in [0 .. Len(t) -> Nat] /\ Numbers(t)[0] = 0
           /\ \A i \in 1 .. Len(t) :
                /\ Numbers(t)[i] = Numbers(t)[i - 1] * Base + t[i]
                /\ Numbers(t)[i] \div Base = Numbers(t)[i - 1]
                /\ Numbers(t)[i] % Base = t[i]
<1>1. Len(t) \in Nat /\ \A i \in 1 .. Len(t) : t[i] \in Alphabet
  OBVIOUS
<1>2. \A i \in 1 .. Len(t) : t[i] \in Nat
  BY <1>1, BaseIs DEF Alphabet
<1>3. t \in Seq(Nat)
  BY <1>2
<1>4. /\ Numbers(t) \in [0 .. Len(t) -> Nat] /\ Numbers(t)[0] = 0
      /\ \A i \in 1 .. Len(t) : Numbers(t)[i] = Numbers(t)[i - 1] * Base + t[i]
  BY <1>3, NumbersUnfold
<1>5. ASSUME NEW i \in 1 .. Len(t)
      PROVE  Numbers(t)[i] \div Base = Numbers(t)[i - 1] /\ Numbers(t)[i] % Base = t[i]
  <2>1. Numbers(t)[i - 1] \in Nat /\ t[i] \in Alphabet
    BY <1>1, <1>4
  <2> QED
    BY <1>4, <2>1, Composed
<1> QED
  BY <1>1, <1>2, <1>4, <1>5

-----------------------------------------------------------------------------
(* Encoding undoes decoding.                                               *)

\* A text that does not begin with a zero.
Canonical(t) == t \in Seq(Alphabet) /\ t # <<>> /\ t[1] # 0

LEMMA RemaindersOfNumbers ==
    ASSUME NEW t, Canonical(t), NEW i \in 0 .. Len(t)
    PROVE  LET n == Numbers(t)[i] IN
           /\ i # 0 => n # 0
           /\ Len(remainders[n]) = i
           /\ \A j \in 1 .. i : remainders[n][j] = t[i - j + 1]
<1> DEFINE n(k) == Numbers(t)[k]
           Done(k) == /\ k # 0 => n(k) # 0
                      /\ Len(remainders[n(k)]) = k
                      /\ \A j \in 1 .. k : remainders[n(k)][j] = t[k - j + 1]
           S == {k \in 0 .. Len(t) : Done(k)}
<1>0. /\ Len(t) \in Nat /\ \A k \in 1 .. Len(t) : t[k] \in Alphabet
      /\ \A k \in 0 .. Len(t) : n(k) \in Nat
      /\ n(0) = 0
      /\ \A k \in 1 .. Len(t) :
           n(k) = n(k - 1) * Base + t[k] /\ n(k) \div Base = n(k - 1) /\ n(k) % Base = t[k]
  BY DigitsUnfold DEF Canonical
<1> HIDE DEF n
<1>1. 0 \in S
  <2>1. n(0) = 0 /\ remainders[0] = <<>> /\ Len(<<>>) = 0
    BY <1>0, RemaindersUnfold DEF Round
  <2> QED
    BY <1>0, <2>1
<1>2. ASSUME NEW k \in 1 .. Len(t), k - 1 \in S PROVE k \in S
  <2>1. Done(k - 1) /\ n(k) \in Nat /\ n(k - 1) \in Nat /\ k - 1 \in 0 .. Len(t)
    BY <1>0, <1>2
  <2>2. n(k) # 0
    <3>1. CASE k = 1
      <4>1. n(k) % Base = t[1] /\ t[1] # 0
        BY <1>0, <3>1 DEF Canonical
      <4>2. 0 % Base = 0
        BY BaseIs
      <4> QED
        BY <4>1, <4>2
    <3>2. CASE k # 1
      <4>1. n(k - 1) # 0 /\ n(k) \div Base = n(k - 1)
        BY <1>0, <2>1, <3>2
      <4>2. 0 \div Base = 0
        BY BaseIs
      <4> QED
        BY <4>1, <4>2
    <3> QED
      BY <3>1, <3>2
  <2>3. remainders[n(k)] = <<t[k]>> \o remainders[n(k - 1)]
    BY <1>0, <2>1, <2>2, RemaindersUnfold DEF Round
  <2>4. remainders[n(k - 1)] \in Seq(Alphabet) /\ t[k] \in Alphabet
    BY <1>0, <2>1, RemaindersUnfold
  <2>5. /\ Len(remainders[n(k)]) = k
        /\ remainders[n(k)][1] = t[k]
        /\ \A j \in 2 .. k : remainders[n(k)][j] = remainders[n(k - 1)][j - 1]
    BY <2>1, <2>3, <2>4
  <2>6. ASSUME NEW j \in 1 .. k PROVE remainders[n(k)][j] = t[k - j + 1]
    <3>1. CASE j = 1
      BY <2>5, <3>1
    <3>2. CASE j # 1
      <4>1. j - 1 \in 1 .. k - 1 /\ (k - 1) - (j - 1) + 1 = k - j + 1 /\ j \in 2 .. k
        BY <3>2
      <4>2. remainders[n(k - 1)][j - 1] = t[(k - 1) - (j - 1) + 1]
        BY <2>1, <4>1
      <4> QED
        BY <2>5, <4>1, <4>2
    <3> QED
      BY <3>1, <3>2
  <2> QED
    BY <2>2, <2>5, <2>6
<1>3. S = 0 .. Len(t)
  <2>1. S \in SUBSET (0 .. Len(t))
    OBVIOUS
  <2> HIDE DEF S
  <2> QED
    BY <1>0, <1>1, <1>2, <2>1, PositionInduction
<1> QED
  BY <1>3 DEF n

LEMMA CanonicalDecodable ==
    ASSUME NEW t, Canonical(t) \/ t = << 0 >>
    PROVE  /\ t \in Seq(Alphabet) /\ Len(t) \in Nat \ {0}
           /\ decode_base62(t) = Numbers(t)[Len(t)] /\ decode_base62(t) \in Nat
<1>1. t \in Seq(Alphabet) /\ Len(t) \in Nat \ {0}
  <2>1. 0 \in Alphabet
    BY BaseIs DEF Alphabet
  <2>2. CASE Canonical(t)
    BY <2>2 DEF Canonical
  <2>3. CASE t = <<0>>
    BY <2>1, <2>3
  <2> QED
    BY <2>2, <2>3
<1>2. ~Undecodable(t)
  BY <1>1 DEF Undecodable
<1> QED
  BY <1>1, <1>2, DecodedIs, DigitsUnfold

LEMMA ZeroIsText ==
    ASSUME NEW t, t = << 0 >>
    PROVE  decode_base62(t) = 0
<1>1. t \in Seq(Alphabet) /\ decode_base62(t) = Numbers(t)[Len(t)]
  BY CanonicalDecodable
<1>2. Len(t) = 1 /\ t[1] = 0
  OBVIOUS
<1>3. Numbers(t)[0] = 0 /\ Numbers(t)[1] = Numbers(t)[1 - 1] * Base + t[1]
  <2>1. /\ Numbers(t)[0] = 0
        /\ \A i \in 1 .. Len(t) : Numbers(t)[i] = Numbers(t)[i - 1] * Base + t[i]
    BY <1>1, DigitsUnfold
  <2>2. 1 \in 1 .. Len(t)
    BY <1>2
  <2> QED
    BY <2>1, <2>2
<1>4. Numbers(t)[1] = 0 * Base + 0
  BY <1>2, <1>3
<1> QED
  BY <1>1, <1>2, <1>4, BaseIs

LEMMA EncodeUndoesDecode ==
    ASSUME NEW t, Canonical(t) \/ t = << 0 >>
    PROVE  encode_base62(decode_base62(t)) = t
<1>0. t \in Seq(Alphabet) /\ Len(t) \in Nat \ {0} /\ decode_base62(t) = Numbers(t)[Len(t)]
  BY CanonicalDecodable
<1>1. CASE t = <<0>>
  BY <1>1, ZeroIsText DEF encode_base62
<1>2. CASE Canonical(t)
  <2> DEFINE n == Numbers(t)[Len(t)]
             r == remainders[n]
  <2>1. n # 0 /\ Len(r) = Len(t) /\ \A j \in 1 .. Len(t) : r[j] = t[Len(t) - j + 1]
    BY <1>0, <1>2, RemaindersOfNumbers
  <2>2. encode_base62(n) = [i \in 1 .. Len(t) |-> r[(Len(t) - i) + 1]]
    BY <2>1 DEF encode_base62, Reverse
  <2>3. \A i \in 1 .. Len(t) : r[(Len(t) - i) + 1] = t[i]
    <3> SUFFICES ASSUME NEW i \in 1 .. Len(t) PROVE r[(Len(t) - i) + 1] = t[i]
      OBVIOUS
    <3>1. (Len(t) - i) + 1 \in 1 .. Len(t) /\ Len(t) - ((Len(t) - i) + 1) + 1 = i
      BY <1>0
    <3> QED
      BY <2>1, <3>1
  <2> HIDE DEF n, r
  <2>4. encode_base62(n) = t
    BY <1>0, <2>2, <2>3
  <2> QED
    BY <1>0, <2>4 DEF n
<1> QED
  BY <1>1, <1>2
-----------------------------------------------------------------------------
(* The odometer counts.                                                    *)

\* A text whose wheels, from position l on, are an odometer's next turn of another's.
LEMMA CarryCounts ==
    ASSUME NEW t \in Seq(Alphabet), NEW u \in Seq(Alphabet),
           NEW k \in Nat, Len(u) = Len(t) + k,
           NEW l \in 0 .. Len(t),
           Numbers(u)[l + k] = Numbers(t)[l] + 1,
           \A i \in l + 1 .. Len(t) : t[i] = Base - 1 /\ u[i + k] = 0
    PROVE  Numbers(u)[Len(u)] = Numbers(t)[Len(t)] + 1
<1> DEFINE S == {i \in 0 .. Len(t) : i >= l => Numbers(u)[i + k] = Numbers(t)[i] + 1}
<1>0. Len(t) \in Nat /\ Len(u) \in Nat
  BY DigitsUnfold
<1>1. /\ Numbers(t) \in [0 .. Len(t) -> Nat]
      /\ \A i \in 1 .. Len(t) : Numbers(t)[i] = Numbers(t)[i - 1] * Base + t[i]
  BY DigitsUnfold
<1>2. \A i \in 1 .. Len(u) : Numbers(u)[i] = Numbers(u)[i - 1] * Base + u[i]
  BY DigitsUnfold
<1>3. 0 \in S
  BY <1>0
<1>4. ASSUME NEW i \in 1 .. Len(t), i - 1 \in S PROVE i \in S
  <2> SUFFICES ASSUME i > l PROVE Numbers(u)[i + k] = Numbers(t)[i] + 1
    BY <1>0
  <2>1. i + k \in 1 .. Len(u) /\ (i + k) - 1 = (i - 1) + k /\ i - 1 \in 0 .. Len(t)
    BY <1>0
  <2>2. Numbers(u)[(i - 1) + k] = Numbers(t)[i - 1] + 1
    BY <1>4
  <2>3. /\ Numbers(t)[i] = Numbers(t)[i - 1] * Base + (Base - 1)
        /\ Numbers(t)[i - 1] \in Nat
    <3>1. t[i] = Base - 1
      BY <1>0
    <3>2. Numbers(t)[i] = Numbers(t)[i - 1] * Base + t[i] /\ Numbers(t)[i - 1] \in Nat
      BY <1>1, <2>1
    <3> QED
      BY <3>1, <3>2
  <2>4. Numbers(u)[i + k] = (Numbers(t)[i - 1] + 1) * Base + 0
    <3>1. u[i + k] = 0
      BY <1>0
    <3>2. Numbers(u)[i + k] = Numbers(u)[(i - 1) + k] * Base + u[i + k]
      BY <1>2, <2>1
    <3> QED
      BY <2>2, <3>1, <3>2
  <2> QED
    BY <2>3, <2>4, BaseIs
<1>5. S = 0 .. Len(t)
  <2>1. S \in SUBSET (0 .. Len(t))
    OBVIOUS
  <2> HIDE DEF S
  <2> QED
    BY <1>0, <1>3, <1>4, <2>1, PositionInduction
<1> QED
  BY <1>0, <1>5

\* Numbers of a prefix depend on nothing behind it.
LEMMA PrefixCounts ==
    ASSUME NEW t \in Seq(Alphabet), NEW u \in Seq(Alphabet),
           NEW l \in Nat, l <= Len(t), l <= Len(u), \A i \in 1 .. l : u[i] = t[i]
    PROVE  Numbers(u)[l] = Numbers(t)[l]
<1> DEFINE S == {i \in 0 .. l : Numbers(u)[i] = Numbers(t)[i]}
<1>0. Len(t) \in Nat /\ Len(u) \in Nat
  BY DigitsUnfold
<1>1. 0 \in S
  BY DigitsUnfold
<1>2. ASSUME NEW i \in 1 .. l, i - 1 \in S PROVE i \in S
  <2>1. /\ i \in 1 .. Len(t) /\ i \in 1 .. Len(u)
        /\ u[i] = t[i] /\ Numbers(u)[i - 1] = Numbers(t)[i - 1]
    BY <1>0, <1>2
  <2>2. /\ Numbers(t)[i] = Numbers(t)[i - 1] * Base + t[i]
        /\ Numbers(u)[i] = Numbers(u)[i - 1] * Base + u[i]
    BY <2>1, DigitsUnfold
  <2> QED
    BY <2>1, <2>2
<1>3. S = 0 .. l
  <2>1. S \in SUBSET (0 .. l)
    OBVIOUS
  <2> HIDE DEF S
  <2> QED
    BY <1>1, <1>2, <2>1, PositionInduction
<1> QED
  BY <1>3

\* The wheel that turns exists, when there is one to turn.
LEMMA WheelToTurn ==
    ASSUME NEW t \in Seq(Alphabet), \E i \in DOMAIN t : t[i] # Base - 1
    PROVE  \E l \in 1 .. Len(t) :
             t[l] # Base - 1 /\ \A j \in 1 .. Len(t) : j > l => t[j] = Base - 1
<1> DEFINE S == {i \in Nat : i <= Len(t) /\ t[Len(t) - i] # Base - 1}
<1>0. Len(t) \in Nat /\ DOMAIN t = 1 .. Len(t)
  OBVIOUS
<1>1. PICK k \in 1 .. Len(t) : t[k] # Base - 1
  BY <1>0
<1> DEFINE T == {i \in Nat : i < Len(t) => t[Len(t) - i] = Base - 1}
<1>2. T # Nat
  <2>1. Len(t) - k \in Nat /\ Len(t) - k < Len(t) /\ Len(t) - (Len(t) - k) = k
    BY <1>0
  <2>2. Len(t) - k \notin T
    BY <1>1, <2>1
  <2> QED
    BY <2>1, <2>2
<1>3. PICK n \in Nat : 0 .. n - 1 \subseteq T /\ n \notin T
  <2>1. T \in SUBSET Nat
    OBVIOUS
  <2> HIDE DEF T
  <2> QED
    BY <1>2, <2>1, StrongInduction
<1>4. n < Len(t) /\ t[Len(t) - n] # Base - 1 /\ Len(t) - n \in 1 .. Len(t)
  BY <1>0, <1>3
<1>5. ASSUME NEW j \in 1 .. Len(t), j > Len(t) - n PROVE t[j] = Base - 1
  <2>1. Len(t) - j \in 0 .. n - 1 /\ Len(t) - j < Len(t) /\ Len(t) - (Len(t) - j) = j
    BY <1>0, <1>5
  <2>2. Len(t) - j \in T
    BY <1>3, <2>1
  <2> QED
    BY <2>1, <2>2
<1> QED
  BY <1>4, <1>5

LEMMA TurnedCounts ==
    ASSUME NEW t, Canonical(t) \/ t = << 0 >>
    PROVE  Canonical(Turned(t)) /\ decode_base62(Turned(t)) = decode_base62(t) + 1
<1> DEFINE u == Turned(t)
<1>0. /\ t \in Seq(Alphabet) /\ Len(t) \in Nat \ {0} /\ DOMAIN t = 1 .. Len(t)
      /\ \A i \in 1 .. Len(t) : t[i] \in 0 .. Base - 1
      /\ Base \in Nat /\ Base >= 2 /\ Alphabet = 0 .. Base - 1
  BY CanonicalDecodable, BaseIs DEF Alphabet
<1>1. ASSUME Canonical(u), Numbers(u)[Len(u)] = Numbers(t)[Len(t)] + 1
      PROVE  Canonical(u) /\ decode_base62(u) = decode_base62(t) + 1
  <2> HIDE DEF u
  <2> QED
    BY <1>1, CanonicalDecodable
<1>2. CASE \A i \in DOMAIN t : t[i] = Base - 1
  <2> DEFINE zeros == [i \in DOMAIN t |-> 0]
  <2>1. u = <<1>> \o zeros
    BY <1>2 DEF Turned
  <2>2. zeros \in Seq(Alphabet) /\ Len(zeros) = Len(t) /\ \A i \in 1 .. Len(t) : zeros[i] = 0
    BY <1>0
  <2>3. <<1>> \in Seq(Alphabet) /\ Len(<<1>>) = 1
    BY <1>0
  <2> HIDE DEF zeros, u
  <2>4. /\ u \in Seq(Alphabet) /\ Len(u) = Len(t) + 1 /\ u[1] = 1
        /\ \A i \in 1 .. Len(t) : u[i + 1] = 0
    BY <1>0, <2>1, <2>2, <2>3
  <2>5. Canonical(u)
    BY <2>4 DEF Canonical
  <2>6. Numbers(u)[0 + 1] = Numbers(t)[0] + 1
    <3>1. Numbers(t)[0] = 0 /\ Numbers(u)[0] = 0
      BY <1>0, <2>4, DigitsUnfold
    <3>2. \A i \in 1 .. Len(u) : Numbers(u)[i] = Numbers(u)[i - 1] * Base + u[i]
      BY <2>4, DigitsUnfold
    <3>3. 1 \in 1 .. Len(u) /\ 1 - 1 = 0 /\ 0 * Base + 1 = 1 /\ 0 + 1 = 1
      BY <1>0, <2>4
    <3>4. Numbers(u)[1] = 0 * Base + 1
      BY <2>4, <3>1, <3>2, <3>3
    <3> QED
      BY <3>1, <3>3, <3>4
  <2>7. Numbers(u)[Len(u)] = Numbers(t)[Len(t)] + 1
    <3>1. 0 \in 0 .. Len(t) /\ 1 \in Nat
      BY <1>0
    <3>2. ASSUME NEW i \in 0 + 1 .. Len(t) PROVE t[i] = Base - 1 /\ u[i + 1] = 0
      <4>1. i \in 1 .. Len(t)
        BY <1>0
      <4> QED
        BY <1>0, <1>2, <2>4, <4>1
    <3> QED
      BY <1>0, <2>4, <2>6, <3>1, <3>2, CarryCounts
  <2> QED
    BY <1>1, <2>5, <2>7 DEF u
<1>3. CASE \E i \in DOMAIN t : t[i] # Base - 1
  <2> DEFINE Turns(l) == /\ t[l] # Base - 1
                         /\ \A j \in DOMAIN t : j > l => t[j] = Base - 1
             l == CHOOSE i \in DOMAIN t : Turns(i)
  <2>1. l \in 1 .. Len(t) /\ t[l] # Base - 1 /\ \A j \in 1 .. Len(t) : j > l => t[j] = Base - 1
    BY <1>0, <1>3, WheelToTurn
  <2>2. u = [i \in DOMAIN t |-> IF i < l THEN t[i] ELSE IF i = l THEN t[i] + 1 ELSE 0]
    BY <1>3 DEF Turned
  <2> HIDE DEF l, u
  <2>3. /\ u \in Seq(Alphabet) /\ Len(u) = Len(t)
        /\ \A i \in 1 .. Len(t) : u[i] = IF i < l THEN t[i] ELSE IF i = l THEN t[i] + 1 ELSE 0
    BY <1>0, <2>1, <2>2
  <2>4. u[1] # 0
    <3>1. CASE l = 1
      BY <1>0, <2>3, <3>1
    <3>2. CASE l # 1
      <4>1. t # <<0>>
        BY <2>1, <3>2
      <4> QED
        BY <1>0, <2>1, <2>3, <3>2, <4>1 DEF Canonical
    <3> QED
      BY <3>1, <3>2
  <2>5. Canonical(u)
    BY <1>0, <2>3, <2>4 DEF Canonical
  <2>6. Numbers(u)[l + 0] = Numbers(t)[l] + 1
    <3>1. Numbers(u)[l - 1] = Numbers(t)[l - 1] /\ Numbers(t)[l - 1] \in Nat
      <4>1. l - 1 \in Nat /\ l - 1 <= Len(t) /\ l - 1 <= Len(u) /\ l - 1 \in 0 .. Len(t)
            /\ \A i \in 1 .. l - 1 : u[i] = t[i]
        BY <1>0, <2>1, <2>3
      <4> QED
        BY <1>0, <2>3, <4>1, PrefixCounts, DigitsUnfold
    <3>2. /\ Numbers(t)[l] = Numbers(t)[l - 1] * Base + t[l]
          /\ Numbers(u)[l] = Numbers(u)[l - 1] * Base + u[l]
      BY <1>0, <2>1, <2>3, DigitsUnfold
    <3>3. u[l] = t[l] + 1 /\ t[l] \in Nat /\ l + 0 = l
      BY <1>0, <2>1, <2>3
    <3>4. Numbers(t)[l - 1] * Base \in Nat
      BY <1>0, <3>1
    <3>5. Numbers(u)[l] = Numbers(t)[l - 1] * Base + (t[l] + 1)
      BY <3>1, <3>2, <3>3
    <3> QED
      BY <3>2, <3>3, <3>4, <3>5
  <2>7. Numbers(u)[Len(u)] = Numbers(t)[Len(t)] + 1
    <3>1. l \in 0 .. Len(t) /\ 0 \in Nat /\ Len(u) = Len(t) + 0
          /\ \A i \in l + 1 .. Len(t) : t[i] = Base - 1 /\ u[i + 0] = 0
      BY <1>0, <2>1, <2>3
    <3> QED
      BY <1>0, <2>3, <2>6, <3>1, CarryCounts
  <2> QED
    BY <1>1, <2>5, <2>7 DEF u
<1> QED
  BY <1>2, <1>3

(***************************************************************************)
(* "deterministic, reversible": whatever number is encoded, decoding the   *)
(* text gives the number, and whatever text without leading zeros is       *)
(* decoded, encoding the number gives the text.                            *)
(***************************************************************************)
THEOREM CodecIsReversible ==
    /\ \A n \in Nat : decode_base62(encode_base62(n)) = n
    /\ \A t : Canonical(t) \/ t = <<0>> => encode_base62(decode_base62(t)) = t
<1> DEFINE S == {n \in Nat : \E t : (Canonical(t) \/ t = <<0>>) /\ decode_base62(t) = n}
<1>1. 0 \in S
  BY ZeroIsText
<1>2. ASSUME NEW n \in S PROVE n + 1 \in S
  BY <1>2, TurnedCounts
<1>3. S = Nat
  <2>1. S \in SUBSET Nat
    OBVIOUS
  <2> HIDE DEF S
  <2> QED
    BY <1>1, <1>2, <2>1, SimpleInduction
<1> QED
  BY <1>3, EncodeUndoesDecode

-----------------------------------------------------------------------------
(* What decodes to a number.                                               *)

\* Zeros in front do not count.
LEMMA ZerosCountNothing ==
    ASSUME NEW t \in Seq(Alphabet), NEW z \in 0 .. Len(t), \A i \in 1 .. z : t[i] = 0
    PROVE  Numbers(t)[z] = 0
<1> DEFINE S == {i \in 0 .. z : Numbers(t)[i] = 0}
<1>0. /\ Len(t) \in Nat /\ Numbers(t)[0] = 0
      /\ \A i \in 1 .. Len(t) : Numbers(t)[i] = Numbers(t)[i - 1] * Base + t[i]
  BY DigitsUnfold
<1>1. 0 \in S
  BY <1>0
<1>2. ASSUME NEW i \in 1 .. z, i - 1 \in S PROVE i \in S
  <2>1. Numbers(t)[i - 1] = 0 /\ t[i] = 0 /\ i \in 1 .. Len(t)
    BY <1>0, <1>2
  <2>2. Numbers(t)[i] = 0 * Base + 0
    BY <1>0, <2>1
  <2> QED
    BY <2>2, BaseIs
<1>3. S = 0 .. z
  <2>1. S \in SUBSET (0 .. z)
    OBVIOUS
  <2> HIDE DEF S
  <2> QED
    BY <1>0, <1>1, <1>2, <2>1, PositionInduction
<1> QED
  BY <1>0, <1>3

LEMMA SuffixCounts ==
    ASSUME NEW t \in Seq(Alphabet), NEW z \in 0 .. Len(t), \A i \in 1 .. z : t[i] = 0,
           NEW u \in Seq(Alphabet), Len(u) = Len(t) - z,
           \A i \in 1 .. Len(u) : u[i] = t[z + i]
    PROVE  Numbers(u)[Len(u)] = Numbers(t)[Len(t)]
<1> DEFINE S == {i \in 0 .. Len(u) : Numbers(u)[i] = Numbers(t)[z + i]}
<1>0. /\ Len(t) \in Nat /\ Len(u) \in Nat /\ Numbers(u)[0] = 0
      /\ \A i \in 1 .. Len(t) : Numbers(t)[i] = Numbers(t)[i - 1] * Base + t[i]
      /\ \A i \in 1 .. Len(u) : Numbers(u)[i] = Numbers(u)[i - 1] * Base + u[i]
  BY DigitsUnfold
<1>1. 0 \in S
  <2>1. Numbers(t)[z] = 0 /\ z + 0 = z
    BY ZerosCountNothing
  <2> QED
    BY <1>0, <2>1
<1>2. ASSUME NEW i \in 1 .. Len(u), i - 1 \in S PROVE i \in S
  <2>1. z + i \in 1 .. Len(t) /\ (z + i) - 1 = z + (i - 1)
    BY <1>0
  <2>2. Numbers(t)[z + i] = Numbers(t)[z + (i - 1)] * Base + t[z + i]
    BY <1>0, <2>1
  <2>3. Numbers(u)[i - 1] = Numbers(t)[z + (i - 1)] /\ u[i] = t[z + i]
    BY <1>2
  <2> QED
    BY <1>0, <2>2, <2>3
<1>3. S = 0 .. Len(u)
  <2>1. S \in SUBSET (0 .. Len(u))
    OBVIOUS
  <2> HIDE DEF S
  <2> QED
    BY <1>0, <1>1, <1>2, <2>1, PositionInduction
<1>4. Len(u) \in 0 .. Len(u) /\ z + Len(u) = Len(t)
  BY <1>0
<1>5. Numbers(u)[Len(u)] = Numbers(t)[z + Len(u)]
  BY <1>3, <1>4
<1> QED
  BY <1>4, <1>5

\* The first character that is not a zero.
LEMMA FirstNonzero ==
    ASSUME NEW t \in Seq(Alphabet), \E i \in 1 .. Len(t) : t[i] # 0
    PROVE  \E z \in 0 .. Len(t) - 1 : t[z + 1] # 0 /\ \A i \in 1 .. z : t[i] = 0
<1> DEFINE T == {i \in Nat : i < Len(t) => t[i + 1] = 0}
<1>0. Len(t) \in Nat
  OBVIOUS
<1>1. PICK k \in 1 .. Len(t) : t[k] # 0
  OBVIOUS
<1>2. k - 1 \in Nat /\ k - 1 \notin T
  BY <1>0, <1>1
<1>3. PICK z \in Nat : 0 .. z - 1 \subseteq T /\ z \notin T
  <2>1. T \in SUBSET Nat
    OBVIOUS
  <2> HIDE DEF T
  <2> QED
    BY <1>2, <2>1, StrongInduction
<1>4. z \in 0 .. Len(t) - 1 /\ t[z + 1] # 0
  BY <1>0, <1>3
<1>5. ASSUME NEW i \in 1 .. z PROVE t[i] = 0
  <2>1. i - 1 \in 0 .. z - 1 /\ (i - 1) + 1 = i /\ i - 1 < Len(t)
    BY <1>0, <1>4
  <2>2. i - 1 \in T
    BY <1>3, <2>1
  <2> QED
    BY <2>1, <2>2
<1> QED
  BY <1>4, <1>5

LEMMA SuffixIs ==
    ASSUME NEW t \in Seq(Alphabet), NEW z \in 0 .. Len(t)
    PROVE  LET u == SubSeq(t, z + 1, Len(t)) IN
           /\ u \in Seq(Alphabet) /\ Len(u) = Len(t) - z
           /\ \A i \in 1 .. Len(u) : u[i] = t[z + i]
OBVIOUS

(***************************************************************************)
(* decode_base62 takes for a number nothing but its text with zeros in     *)
(* front, among all texts, of any length and with any character in them.   *)
(***************************************************************************)
THEOREM NothingElseIsDecoded ==
    \A n \in Nat : \A t \in Seq(0 .. Base) : decode_base62(t) = n =>
        \E zeros \in 0 .. Len(t) : /\ \A i \in 1 .. zeros : t[i] = 0
                                   /\ SubSeq(t, zeros + 1, Len(t)) = encode_base62(n)
<1> SUFFICES ASSUME NEW n \in Nat, NEW t \in Seq(0 .. Base), decode_base62(t) = n
             PROVE  \E zeros \in 0 .. Len(t) :
                      /\ \A i \in 1 .. zeros : t[i] = 0
                      /\ SubSeq(t, zeros + 1, Len(t)) = encode_base62(n)
  OBVIOUS
<1>1. ~Undecodable(t)
  BY DEF decode_base62, Absent
<1>2. /\ t \in Seq(Alphabet) /\ Len(t) \in Nat \ {0} /\ n = Numbers(t)[Len(t)]
      /\ \A i \in 1 .. Len(t) : t[i] \in Alphabet
  <2>1. t # <<>> /\ \A i \in 1 .. Len(t) : t[i] \in Alphabet
    BY <1>1 DEF Undecodable
  <2>2. t \in Seq(Alphabet) /\ Len(t) \in Nat \ {0}
    BY <2>1
  <2> QED
    BY <1>1, <2>1, <2>2, DecodedIs
<1>3. CASE \E i \in 1 .. Len(t) : t[i] # 0
  <2>1. PICK z \in 0 .. Len(t) - 1 : t[z + 1] # 0 /\ \A i \in 1 .. z : t[i] = 0
    BY <1>2, <1>3, FirstNonzero
  <2> DEFINE u == SubSeq(t, z + 1, Len(t))
  <2>2. /\ z \in 0 .. Len(t)
        /\ u \in Seq(Alphabet) /\ Len(u) = Len(t) - z
        /\ \A i \in 1 .. Len(u) : u[i] = t[z + i]
    BY <1>2, <2>1, SuffixIs
  <2> HIDE DEF u
  <2>3. Canonical(u)
    <3>1. 1 \in 1 .. Len(u) /\ u # <<>>
      BY <1>2, <2>1, <2>2
    <3> QED
      BY <2>1, <2>2, <3>1 DEF Canonical
  <2>4. decode_base62(u) = n
    BY <1>2, <2>1, <2>2, <2>3, SuffixCounts, CanonicalDecodable
  <2>5. u = encode_base62(n)
    BY <2>3, <2>4, EncodeUndoesDecode
  <2> QED
    BY <2>1, <2>2, <2>5 DEF u
<1>4. CASE \A i \in 1 .. Len(t) : t[i] = 0
  <2>1. n = 0
    BY <1>2, <1>4, ZerosCountNothing
  <2> DEFINE z == Len(t) - 1
             u == SubSeq(t, z + 1, Len(t))
  <2>2. z \in 0 .. Len(t) /\ Len(t) - z = 1 /\ z + 1 = Len(t)
    BY <1>2
  <2>3. u \in Seq(Alphabet) /\ Len(u) = 1 /\ u[1] = 0
    <3> HIDE DEF z
    <3>1. /\ u \in Seq(Alphabet) /\ Len(u) = Len(t) - z
          /\ \A i \in 1 .. Len(u) : u[i] = t[z + i]
      BY <1>2, <2>2, SuffixIs
    <3>2. 1 \in 1 .. Len(u) /\ z + 1 \in 1 .. Len(t)
      BY <1>2, <2>2, <3>1
    <3> HIDE DEF u
    <3> QED
      BY <1>4, <2>2, <3>1, <3>2
  <2> HIDE DEF u
  <2>4. u = <<0>>
    BY <2>3
  <2> HIDE DEF z
  <2>5. \A i \in 1 .. z : t[i] = 0
    BY <1>2, <1>4, <2>2
  <2>6. u = encode_base62(n)
    BY <2>1, <2>4 DEF encode_base62
  <2> QED
    BY <2>2, <2>5, <2>6 DEF u
<1> QED
  BY <1>3, <1>4

-----------------------------------------------------------------------------
(* The ids of a behaviour.                                                 *)

\* The odometer shows the id.
Shown == id \in Nat /\ (Canonical(text) \/ text = <<0>>) /\ decode_base62(text) = id

LEMMA AlwaysShown == Spec => []Shown
<1>1. Init => Shown
  BY ZeroIsText DEF Init, Shown
<1>2. Shown /\ [Next]_vars => Shown'
  <2> SUFFICES ASSUME Shown, [Next]_vars PROVE Shown'
    OBVIOUS
  <2>1. CASE NextId
    <3>1. id' = id + 1 /\ text' = Turned(text)
      BY <2>1 DEF NextId
    <3>2. Canonical(text') /\ decode_base62(text') = decode_base62(text) + 1
      BY <3>1, TurnedCounts DEF Shown
    <3> QED
      BY <3>1, <3>2 DEF Shown
  <2>2. CASE Check \/ Choose \/ Insert \/ UNCHANGED vars
    BY <2>2 DEF Check, Choose, Insert, vars, codec, Shown
  <2> QED
    BY <2>1, <2>2 DEF Next
<1> QED
  BY <1>1, <1>2, PTL DEF Spec

(***************************************************************************)
(* encode_base62 gives the odometer's text of every id there ever is, and  *)
(* decode_base62 leads back to the id, over any alphabet of two or more.   *)
(***************************************************************************)
THEOREM CodecAlwaysCounts == Spec => []CodecCounts
<1>1. Shown => CodecCounts
  BY EncodeUndoesDecode DEF Shown, CodecCounts
<1> QED
  BY <1>1, AlwaysShown, PTL

(***************************************************************************)
(* No id of a behaviour is decoded from anything but its text with zeros   *)
(* in front.                                                               *)
(***************************************************************************)
THEOREM NothingElseDecodes == Spec => []DecodesNothingElse
<1>1. ShortTexts \subseteq Seq(0 .. Base)
  <2> SUFFICES ASSUME NEW k \in 0 .. 3, NEW t \in [1 .. k -> 0 .. Base]
               PROVE  t \in Seq(0 .. Base)
    BY DEF ShortTexts
  <2>1. [i \in 1 .. k |-> t[i]] \in Seq(0 .. Base)
    OBVIOUS
  <2>2. t = [i \in 1 .. k |-> t[i]]
    OBVIOUS
  <2> HIDE DEF ShortTexts
  <2> QED
    BY <2>1, <2>2
<1>2. Shown => DecodesNothingElse
  BY <1>1, NothingElseIsDecoded DEF Shown, DecodesNothingElse
<1> QED
  BY <1>2, AlwaysShown, PTL

-----------------------------------------------------------------------------
(* The requests.                                                           *)

\* What the constants of schemas.py, config.py and models.py have to obey.
LimitsAgree ==
    /\ MinLength <= MinSetting /\ MaxSetting <= MaxLength
    /\ MaxLength <= CodeWidth

\* A code has been checked by the validator, or made by the generator.
CodesChecked ==
    /\ setting \in Settings
    /\ body \in Bodies
    /\ answer = "accepted" /\ body.custom # NoCode => Validate(body.custom)
    /\ answer \in {"chosen", "201", "500"} => Validate(code)

LEMMA GeneratedIsValid ==
    ASSUME LimitsAgree, NEW length \in Settings
    PROVE  Validate(Generate(length))
BY Sizes DEF LimitsAgree, Settings, Validate, Generate, CodeOf

LEMMA StepChecked == LimitsAgree /\ CodesChecked /\ [Next]_vars => CodesChecked'
<1> SUFFICES ASSUME LimitsAgree, CodesChecked, [Next]_vars PROVE CodesChecked'
  OBVIOUS
<1> USE DEF CodesChecked
<1>1. CASE NextId
  BY <1>1 DEF NextId, Validate
<1>2. CASE Check
  BY <1>2 DEF Check, Validate, codec
<1>3. CASE Choose
  <2>1. code' = IF body.custom # NoCode THEN body.custom ELSE Generate(setting)
    BY <1>3 DEF Choose
  <2>2. Validate(code')
    BY <1>3, <2>1, GeneratedIsValid DEF Choose
  <2> QED
    BY <1>3, <2>2 DEF Choose, Validate, codec
<1>4. CASE Insert
  BY <1>4 DEF Insert, Validate, codec
<1>5. CASE UNCHANGED vars
  BY <1>5 DEF vars, Validate
<1> QED
  BY <1>1, <1>2, <1>3, <1>4, <1>5 DEF Next

(***************************************************************************)
(* "custom and generated codes are interchangeable": as long as the range  *)
(* of short_code_length lies in the validator's, every code that goes to   *)
(* the table is one that the validator would accept.                       *)
(***************************************************************************)
THEOREM CodesAreInterchangeable ==
    ASSUME LimitsAgree
    PROVE  Spec => []Interchangeable
<1>1. Init => CodesChecked
  BY DEF Init, CodesChecked
<1>2. CodesChecked => Interchangeable
  BY DEF CodesChecked, Interchangeable
<1>3. CodesChecked /\ [Next]_vars => CodesChecked'
  BY StepChecked
<1> QED
  BY <1>1, <1>2, <1>3, PTL DEF Spec

LEMMA StepFits ==
    ASSUME LimitsAgree, CodesChecked, CodesChecked', AcceptedFits, [Next]_vars
    PROVE  AcceptedFits'
<1> USE DEF AcceptedFits
<1>1. CASE Insert
  <2>1. /\ answer' = IF code.length <= CodeWidth /\ client_id(body.forwarded) <= ClientWidth
                        THEN "201" ELSE "500"
        /\ UNCHANGED body
    BY <1>1 DEF Insert
  <2>2. code.length <= CodeWidth
    <3>1. code.length \in MinLength .. MaxLength
      BY <1>1 DEF Insert, CodesChecked, Validate
    <3> QED
      BY <3>1, Sizes DEF LimitsAgree
  <2>3. body.forwarded = <<>> => client_id(body.forwarded) <= ClientWidth
    BY Sizes DEF client_id
  <2>4. body.forwarded # <<>> =>
          Head(body.forwarded) > ClientWidth \/ client_id(body.forwarded) <= ClientWidth
    <3>1. body.forwarded \in Seq(Nat)
      BY Sizes DEF CodesChecked, Bodies
    <3>2. body.forwarded # <<>> => Head(body.forwarded) \in Nat
      BY <3>1
    <3> QED
      BY <3>2, Sizes DEF client_id
  <2> QED
    BY <2>1, <2>2, <2>3, <2>4
<1>2. CASE NextId \/ Check \/ Choose \/ UNCHANGED vars
  BY <1>2 DEF NextId, Check, Choose, vars, codec
<1> QED
  BY <1>1, <1>2 DEF Next

(***************************************************************************)
(* An accepted body never fails at the table because of its code: only a   *)
(* first hop of X-Forwarded-For that is longer than client_id makes the    *)
(* INSERT fail, as long as validator and column agree.                     *)
(***************************************************************************)
THEOREM AcceptedAlwaysFits ==
    ASSUME LimitsAgree
    PROVE  Spec => []AcceptedFits
<1>1. Init => CodesChecked /\ AcceptedFits
  BY DEF Init, CodesChecked, AcceptedFits
<1>2. CodesChecked /\ AcceptedFits /\ [Next]_vars => (CodesChecked /\ AcceptedFits)'
  BY StepChecked, StepFits
<1> QED
  BY <1>1, <1>2, PTL DEF Spec
=============================================================================
