----------------------------- MODULE WireProofs ------------------------------
(***************************************************************************)
(* Proofs about the wire format and the answers that travel in it, for any *)
(* widths of numbers, any well-formed samples and any number of changes.   *)
(*                                                                         *)
(* The argument goes from the fields to the frame: what an encoder writes  *)
(* holds each field once; a decoder that scans it finds each field again;  *)
(* the checks of one side follow from those of the other.  Frames that     *)
(* nobody wrote are reasoned about through the shape of their TLVs alone.  *)
(* The inductive invariant says which messages, frames and replies there   *)
(* can be.                                                                 *)
(***************************************************************************)
EXTENDS Wire, WellFoundedInduction, SequenceTheorems, FiniteSetTheorems, TLAPS

-----------------------------------------------------------------------------
(* Induction, and the elements that Chosen and Total go through.           *)

\* A nonempty set of numbers has a least element: the induction the proofs
\* use.
LEMMA Least ==
  ASSUME NEW T, T \subseteq Nat, T # {}
  PROVE  \E x \in T : \A y \in T : x <= y
<1> DEFINE R == OpToRel(<, Nat)
<1>1. \A x, y \in Nat : <<y, x>> \in R <=> y < x
  BY DEF OpToRel
<1>2. IsWellFoundedOn(R, Nat)
  BY NatLessThanWellFounded
<1> HIDE DEF R
<1>3. PICK x \in T : \A y \in T : ~ (<<y, x>> \in R)
  BY <1>2, WFMin, Zenon
<1>4. \A y \in T : ~ (y < x)
  BY <1>1, <1>3, Zenon
<1>5. \A y \in T : x <= y
  BY <1>4
<1> QED
  BY <1>5

\* Induction up to a bound, said of a set of numbers.
LEMMA UpTo ==
  ASSUME NEW L \in Nat, NEW S, 0 \in S,
         \A n \in Nat : n < L /\ n \in S => n + 1 \in S
  PROVE  \A n \in 0..L : n \in S
<1> DEFINE T == {n \in 0..L : n \notin S}
<1> SUFFICES ASSUME T # {} PROVE FALSE
  OBVIOUS
<1>1. PICK x \in T : \A y \in T : x <= y
  <2>1. T \subseteq Nat
    OBVIOUS
  <2> HIDE DEF T
  <2> QED
    BY <2>1, Least
<1>2. x # 0 /\ x - 1 \in Nat /\ x - 1 < L
  BY <1>1
<1>3. x - 1 \notin T
  BY <1>1, <1>2
<1> QED
  BY <1>1, <1>2, <1>3

\* U is the function by which Chosen(s, I) recurs.
Chooses(U, s, I) ==
  /\ U[0] = <<>>
  /\ \A n \in 1..Len(s) : U[n] = IF n \in I THEN Append(U[n - 1], s[n]) ELSE U[n - 1]
  /\ Chosen(s, I) = U[Len(s)]

\* There is one.
LEMMA ChosenRec ==
  ASSUME NEW X, NEW s \in Seq(X), NEW I
  PROVE  \E U \in [0..Len(s) -> Seq(X)] : Chooses(U, s, I)
<1> DEFINE L == Len(s)
           Step(F, n) == IF n \in I THEN Append(F[n - 1], s[n]) ELSE F[n - 1]
           Good(F, m) == F[0] = <<>> /\ \A n \in 1..m : F[n] = Step(F, n)
           S == {m \in 0..L : \E F \in [0..m -> Seq(X)] : Good(F, m)}
           Rec(F) == [n \in 0..L |-> IF n = 0 THEN <<>> ELSE Step(F, n)]
<1>0. L \in Nat
  OBVIOUS
<1>1. 0 \in S
  <2> DEFINE Z == [n \in 0..0 |-> <<>>]
  <2>1. Z \in [0..0 -> Seq(X)]
    OBVIOUS
  <2>2. Good(Z, 0)
    OBVIOUS
  <2> HIDE DEF Z, Good
  <2> QED
    BY <2>1, <2>2, <1>0
<1>2. \A m \in Nat : m < L /\ m \in S => m + 1 \in S
  <2> SUFFICES ASSUME NEW m \in Nat, m < L, m \in S PROVE m + 1 \in S
    OBVIOUS
  <2>1. PICK F \in [0..m -> Seq(X)] : Good(F, m)
    OBVIOUS
  <2> DEFINE new == IF m + 1 \in I THEN Append(F[m], s[m + 1]) ELSE F[m]
             G == [n \in 0..(m + 1) |-> IF n = m + 1 THEN new ELSE F[n]]
  <2>2. s[m + 1] \in X /\ F[m] \in Seq(X)
    BY <1>0
  <2>3. new \in Seq(X)
    BY <2>2
  <2>4. G \in [0..(m + 1) -> Seq(X)]
    BY <2>3
  <2>5. G[0] = <<>>
    BY <2>1
  <2>6. ASSUME NEW n \in 1..(m + 1) PROVE G[n] = Step(G, n)
    <3> HIDE DEF G
    <3>1. G[n - 1] = F[n - 1]
      BY DEF G
    <3>2. CASE n = m + 1
      <4>1. G[n] = new
        BY <3>2 DEF G
      <4> QED
        BY <3>1, <3>2, <4>1
    <3>3. CASE n # m + 1
      <4>1. G[n] = F[n] /\ n \in 1..m
        BY <3>3 DEF G
      <4>2. F[n] = Step(F, n)
        BY <2>1, <4>1
      <4> QED
        BY <3>1, <4>1, <4>2
    <3> QED
      BY <3>2, <3>3
  <2>7. Good(G, m + 1)
    BY <2>5, <2>6
  <2> HIDE DEF G, Good
  <2> QED
    BY <2>4, <2>7, <1>0
<1>3. L \in S
  <2> HIDE DEF S
  <2>1. \A n \in 0..L : n \in S
    BY <1>0, <1>1, <1>2, UpTo, Zenon
  <2> QED
    BY <2>1, <1>0
<1>4. PICK F \in [0..L -> Seq(X)] : Good(F, L)
  BY <1>3
<1>5. F = Rec(F)
  <2>1. \A n \in 0..L : F[n] = IF n = 0 THEN <<>> ELSE Step(F, n)
    <3> TAKE n \in 0..L
    <3>1. CASE n = 0
      BY <1>4, <3>1
    <3>2. CASE n # 0
      <4>1. n \in 1..L
        BY <3>2, <1>0
      <4> QED
        BY <1>4, <3>2, <4>1
    <3> QED
      BY <3>1, <3>2
  <2> HIDE DEF Step, L
  <2> QED
    BY <2>1
<1> DEFINE U == CHOOSE G : G = Rec(G)
<1>6. U = Rec(U)
  <2> HIDE DEF Rec
  <2> QED
    BY <1>5
<1>7. Chosen(s, I) = U[L]
  BY DEF Chosen
<1> HIDE DEF U
<1>8. U[0] = <<>> /\ \A n \in 1..L : U[n] = Step(U, n)
  <2> HIDE DEF Step
  <2>1. \A n \in 0..L : U[n] = IF n = 0 THEN <<>> ELSE Step(U, n)
    BY <1>6
  <2>2. 0 \in 0..L /\ \A n \in 1..L : n \in 0..L /\ n # 0
    BY <1>0
  <2> QED
    BY <2>1, <2>2
<1>9. \A n \in 0..L : U[n] \in Seq(X)
  <2> DEFINE S2 == {k \in 0..L : U[k] \in Seq(X)}
  <2>1. 0 \in S2
    <3>1. U[0] \in Seq(X) /\ 0 \in 0..L
      BY <1>8, <1>0
    <3> QED
      BY <3>1
  <2>2. \A n \in Nat : n < L /\ n \in S2 => n + 1 \in S2
    <3> SUFFICES ASSUME NEW n \in Nat, n < L, U[n] \in Seq(X) PROVE U[n + 1] \in Seq(X)
      BY <1>0
    <3>1. s[n + 1] \in X /\ n + 1 \in 1..L
      BY <1>0
    <3>2. U[n + 1] = IF n + 1 \in I THEN Append(U[n], s[n + 1]) ELSE U[n]
      BY <1>8, <3>1
    <3> QED
      BY <3>1, <3>2
  <2>3. \A n \in 0..L : n \in S2
    <3> HIDE DEF S2
    <3> QED
      BY <2>1, <2>2, <1>0, UpTo, Zenon
  <2> QED
    BY <2>3
<1>10. U \in [0..L -> Seq(X)]
  <2> HIDE DEF Step, L
  <2> QED
    BY <1>6, <1>9
<1> QED
  BY <1>7, <1>8, <1>10 DEF Chooses

\* The elements of c are those of s at the places in I, each once.
Picks(e, c, s, I) ==
  /\ e \in [1..Len(c) -> 1..Len(s)]
  /\ \A k \in 1..Len(c) : c[k] = s[e[k]] /\ e[k] \in I
  /\ \A j, k \in 1..Len(c) : e[j] = e[k] => j = k
  /\ \A i \in 1..Len(s) : i \in I => \E k \in 1..Len(c) : e[k] = i

\* What Chosen(s, I) is.
LEMMA ChosenPlaces ==
  ASSUME NEW X, NEW s \in Seq(X), NEW I
  PROVE  Chosen(s, I) \in Seq(X) /\ \E e : Picks(e, Chosen(s, I), s, I)
<1>1. PICK U \in [0..Len(s) -> Seq(X)] : Chooses(U, s, I)
  BY ChosenRec, Zenon
<1> DEFINE L == Len(s)
<1> DEFINE Fits(e, c, n) ==
             /\ \A k \in 1..Len(c) : c[k] = s[e[k]] /\ e[k] \in I
             /\ \A j, k \in 1..Len(c) : e[j] = e[k] => j = k
             /\ \A i \in 1..n : i \in I => \E k \in 1..Len(c) : e[k] = i
           S == {n \in 0..L : \E e \in [1..Len(U[n]) -> 1..n] : Fits(e, U[n], n)}
<1>2. L \in Nat
  OBVIOUS
<1>3. 0 \in S
  <2> DEFINE e0 == [k \in 1..0 |-> k]
  <2>1. Len(U[0]) = 0
    BY <1>1 DEF Chooses
  <2>2. e0 \in [1..0 -> 1..0] /\ Fits(e0, U[0], 0)
    BY <2>1
  <2> HIDE DEF e0, Fits
  <2> QED
    BY <1>2, <2>1, <2>2
<1>4. \A n \in Nat : n < L /\ n \in S => n + 1 \in S
  <2> SUFFICES ASSUME NEW n \in Nat, n < L, n \in S PROVE n + 1 \in S
    OBVIOUS
  <2>1. PICK e \in [1..Len(U[n]) -> 1..n] : Fits(e, U[n], n)
    OBVIOUS
  <2> DEFINE c == U[n]
  <2>2. /\ c \in Seq(X) /\ s[n + 1] \in X /\ n + 1 \in 1..L
        /\ U[n + 1] = IF n + 1 \in I THEN Append(c, s[n + 1]) ELSE c
    BY <1>1, <1>2 DEF Chooses
  <2>3. CASE n + 1 \notin I
    <3>1. U[n + 1] = c
      BY <2>2, <2>3
    <3>2. e \in [1..Len(c) -> 1..(n + 1)]
      BY <2>2
    <3>3. Fits(e, c, n + 1)
      BY <2>1, <2>3
    <3> HIDE DEF Fits
    <3> QED
      BY <1>2, <3>1, <3>2, <3>3
  <2>4. CASE n + 1 \in I
    <3> DEFINE m == Len(c)
               d == Append(c, s[n + 1])
               g == [k \in 1..(m + 1) |-> IF k = m + 1 THEN n + 1 ELSE e[k]]
    <3>1. /\ m \in Nat /\ Len(d) = m + 1 /\ d[m + 1] = s[n + 1]
          /\ \A k \in 1..m : d[k] = c[k]
      BY <2>2
    <3>2. g \in [1..Len(d) -> 1..(n + 1)]
      BY <3>1
    <3> HIDE DEF d, m
    <3>3. \A k \in 1..m : g[k] = e[k] /\ e[k] \in 1..n
      BY <3>1 DEF m
    <3>4. g[m + 1] = n + 1
      BY <3>1
    <3> HIDE DEF g
    <3>5. \A k \in 1..(m + 1) : k \in 1..m \/ k = m + 1
      BY <3>1
    <3>6. ASSUME NEW k \in 1..(m + 1) PROVE d[k] = s[g[k]] /\ g[k] \in I
      <4>1. CASE k \in 1..m
        BY <2>1, <3>1, <3>3, <4>1 DEF m
      <4>2. CASE k = m + 1
        BY <2>4, <3>1, <3>4, <4>2
      <4> QED
        BY <3>5, <4>1, <4>2
    <3>7. ASSUME NEW j \in 1..(m + 1), NEW k \in 1..(m + 1), g[j] = g[k] PROVE j = k
      <4>1. CASE j \in 1..m /\ k \in 1..m
        BY <2>1, <3>7, <3>3, <4>1 DEF m
      <4>2. CASE j = m + 1 \/ k = m + 1
        BY <3>1, <3>7, <3>3, <3>4, <3>5, <4>2
      <4> QED
        BY <3>5, <4>1, <4>2
    <3>8. ASSUME NEW i \in 1..(n + 1), i \in I PROVE \E k \in 1..(m + 1) : g[k] = i
      <4>1. CASE i = n + 1
        BY <3>1, <3>4, <4>1
      <4>2. CASE i # n + 1
        <5>1. PICK k \in 1..m : e[k] = i
          BY <2>1, <3>8, <4>2 DEF m
        <5>2. k \in 1..(m + 1) /\ g[k] = i
          BY <3>1, <3>3, <5>1
        <5> QED
          BY <5>2
      <4> QED
        BY <4>1, <4>2
    <3>9. Fits(g, d, n + 1)
      BY <3>1, <3>6, <3>7, <3>8
    <3>10. U[n + 1] = d
      BY <2>2, <2>4 DEF d
    <3> HIDE DEF Fits
    <3> QED
      BY <1>2, <3>2, <3>9, <3>10
  <2> QED
    BY <2>3, <2>4
<1>5. L \in S
  <2> HIDE DEF S
  <2>1. \A n \in 0..L : n \in S
    BY <1>2, <1>3, <1>4, UpTo, Zenon
  <2> QED
    BY <1>2, <2>1
<1>6. PICK e \in [1..Len(U[L]) -> 1..L] : Fits(e, U[L], L)
  BY <1>5
<1>7. U[L] \in Seq(X)
  BY <1>2
<1> DEFINE c == Chosen(s, I)
<1>8. e \in [1..Len(c) -> 1..L] /\ c \in Seq(X)
  BY <1>1, <1>6, <1>7 DEF Chooses
<1>9. Fits(e, c, L)
  BY <1>1, <1>6 DEF Chooses
<1> HIDE DEF c
<1>10. c \in Seq(X) /\ Picks(e, c, s, I)
  BY <1>8, <1>9 DEF Picks
<1> QED
  BY <1>10 DEF c

\* The last elements of s, chosen, are the end of s.
LEMMA ChosenTail ==
  ASSUME NEW X, NEW s \in Seq(X), NEW a \in 0..Len(s)
  PROVE  Chosen(s, (a + 1)..Len(s)) = [k \in 1..(Len(s) - a) |-> s[a + k]]
<1> DEFINE L == Len(s)
           I == (a + 1)..L
           From(n) == [k \in 1..(n - a) |-> s[a + k]]
<1>1. PICK U \in [0..Len(s) -> Seq(X)] : Chooses(U, s, I)
  <2> HIDE DEF I
  <2> QED
    BY ChosenRec, Zenon
<1> DEFINE S == {n \in 0..L : IF n <= a THEN U[n] = <<>> ELSE U[n] = From(n)}
<1>2. L \in Nat /\ a \in Nat /\ a <= L
  OBVIOUS
<1>3. 0 \in S
  BY <1>1, <1>2 DEF Chooses
<1>4. \A n \in Nat : n < L /\ n \in S => n + 1 \in S
  <2> SUFFICES ASSUME NEW n \in Nat, n < L, n \in S PROVE n + 1 \in S
    OBVIOUS
  <2>1. /\ s[n + 1] \in X /\ n + 1 \in 1..L
        /\ U[n + 1] = IF n + 1 \in I THEN Append(U[n], s[n + 1]) ELSE U[n]
    BY <1>1, <1>2 DEF Chooses
  <2>2. n + 1 \in I <=> n + 1 > a
    BY <2>1
  <2>3. CASE n + 1 <= a
    BY <1>2, <2>1, <2>2, <2>3
  <2>4. CASE n >= a
    <3>1. U[n] = From(n)
      <4>1. CASE n = a
        <5>1. From(n) = <<>>
          BY <4>1, <1>2
        <5> QED
          BY <4>1, <5>1
      <4>2. CASE n > a
        BY <4>2
      <4> QED
        BY <2>4, <4>1, <4>2, <1>2
    <3>2. n - a \in Nat
      BY <2>4, <1>2
    <3>3. From(n) \in Seq(X) /\ Len(From(n)) = n - a
      <4>1. \A k \in 1..(n - a) : s[a + k] \in X
        BY <1>2, <3>2
      <4> QED
        BY <4>1, <3>2
    <3>4. Append(From(n), s[n + 1]) = From(n + 1)
      <4>1. /\ Append(From(n), s[n + 1]) \in Seq(X)
            /\ Len(Append(From(n), s[n + 1])) = n + 1 - a
            /\ Append(From(n), s[n + 1])[n - a + 1] = s[n + 1]
            /\ \A k \in 1..(n - a) : Append(From(n), s[n + 1])[k] = From(n)[k]
        BY <3>2, <3>3, <2>1, AppendProperties
      <4>2. \A k \in 1..(n + 1 - a) : Append(From(n), s[n + 1])[k] = From(n + 1)[k]
        <5> TAKE k \in 1..(n + 1 - a)
        <5>1. CASE k = n - a + 1
          BY <5>1, <4>1, <3>2, <1>2
        <5>2. CASE k \in 1..(n - a)
          BY <5>2, <4>1, <3>2, <1>2
        <5> QED
          BY <5>1, <5>2, <3>2
      <4> DEFINE c == Append(From(n), s[n + 1])
                 d == From(n + 1)
      <4>3. c = [k \in 1..(n + 1 - a) |-> c[k]]
        <5> HIDE DEF c
        <5>1. c \in Seq(X) /\ Len(c) = n + 1 - a
          BY <4>1 DEF c
        <5> QED
          BY <5>1
      <4>4. d = [k \in 1..(n + 1 - a) |-> d[k]]
        OBVIOUS
      <4>5. \A k \in 1..(n + 1 - a) : c[k] = d[k]
        BY <4>2
      <4> HIDE DEF c, d
      <4>6. c = d
        BY <4>3, <4>4, <4>5
      <4> QED
        BY <4>6 DEF c, d
    <3> QED
      <4>1. U[n + 1] = From(n + 1)
        <5>1. n + 1 \in I
          BY <1>2, <2>2, <2>4
        <5> HIDE DEF From
        <5> QED
          BY <2>1, <3>1, <3>4, <5>1
      <4>2. n + 1 \in 0..L /\ ~ (n + 1 <= a)
        BY <1>2, <2>1, <2>4
      <4> HIDE DEF From
      <4> QED
        BY <4>1, <4>2
  <2> QED
    BY <2>3, <2>4, <1>2
<1>5. L \in S
  <2> HIDE DEF S
  <2>1. \A n \in 0..L : n \in S
    BY <1>2, <1>3, <1>4, UpTo, Zenon
  <2> QED
    BY <1>2, <2>1
<1>6. U[L] = From(L)
  <2>1. CASE L <= a
    <3>1. From(L) = <<>>
      BY <1>2, <2>1
    <3> QED
      BY <1>5, <2>1, <3>1
  <2>2. CASE L > a
    BY <1>5, <2>2, <1>2
  <2> QED
    BY <2>1, <2>2, <1>2
<1> QED
  BY <1>1, <1>6 DEF Chooses

\* U is the function by which Total(w) recurs.
Totals(U, w) ==
  /\ U[0] = 0
  /\ \A n \in 1..Len(w) : U[n] = U[n - 1] + w[n]
  /\ Total(w) = U[Len(w)]

\* There is one.
LEMMA TotalRec ==
  ASSUME NEW w \in Seq(Nat)
  PROVE  \E U \in [0..Len(w) -> Nat] : Totals(U, w)
<1> DEFINE L == Len(w)
           Good(F, m) == F[0] = 0 /\ \A n \in 1..m : F[n] = F[n - 1] + w[n]
           S == {m \in 0..L : \E F \in [0..m -> Nat] : Good(F, m)}
           Rec(F) == [n \in 0..L |-> IF n = 0 THEN 0 ELSE F[n - 1] + w[n]]
<1>0. L \in Nat /\ \A n \in 1..L : w[n] \in Nat
  OBVIOUS
<1>1. 0 \in S
  <2> DEFINE Z == [n \in 0..0 |-> 0]
  <2>1. Z \in [0..0 -> Nat] /\ Good(Z, 0)
    OBVIOUS
  <2> HIDE DEF Z, Good
  <2> QED
    BY <2>1, <1>0
<1>2. \A m \in Nat : m < L /\ m \in S => m + 1 \in S
  <2> SUFFICES ASSUME NEW m \in Nat, m < L, m \in S PROVE m + 1 \in S
    OBVIOUS
  <2>1. PICK F \in [0..m -> Nat] : Good(F, m)
    OBVIOUS
  <2> DEFINE G == [n \in 0..(m + 1) |-> IF n = m + 1 THEN F[m] + w[m + 1] ELSE F[n]]
  <2>2. m + 1 \in 1..L /\ m \in 0..m
    BY <1>0
  <2>3. w[m + 1] \in Nat /\ F[m] \in Nat
    BY <1>0, <2>2
  <2>4. G \in [0..(m + 1) -> Nat]
    BY <2>3
  <2>5. Good(G, m + 1)
    <3>1. G[0] = 0
      BY <2>1
    <3>2. ASSUME NEW n \in 1..(m + 1) PROVE G[n] = G[n - 1] + w[n]
      <4>1. CASE n = m + 1
        BY <4>1
      <4>2. CASE n \in 1..m
        <5>1. G[n] = F[n] /\ G[n - 1] = F[n - 1]
          BY <4>2
        <5>2. F[n] = F[n - 1] + w[n]
          BY <2>1, <4>2
        <5> QED
          BY <5>1, <5>2
      <4> QED
        BY <4>1, <4>2
    <3> QED
      BY <3>1, <3>2
  <2> HIDE DEF G, Good
  <2> QED
    BY <2>4, <2>5, <1>0
<1>3. L \in S
  <2> HIDE DEF S
  <2>1. \A n \in 0..L : n \in S
    BY <1>0, <1>1, <1>2, UpTo, Zenon
  <2> QED
    BY <2>1, <1>0
<1>4. PICK F \in [0..L -> Nat] : Good(F, L)
  BY <1>3
<1>5. F = Rec(F)
  <2>1. \A n \in 0..L : F[n] = IF n = 0 THEN 0 ELSE F[n - 1] + w[n]
    BY <1>4, <1>0
  <2> DEFINE E(n) == IF n = 0 THEN 0 ELSE F[n - 1] + w[n]
  <2>2. \A n \in 0..L : F[n] = E(n)
    BY <2>1
  <2> HIDE DEF L, E
  <2>3. F = [n \in 0..L |-> E(n)]
    BY <2>2
  <2> QED
    BY <2>3 DEF E
<1> DEFINE U == CHOOSE G : G = Rec(G)
<1>6. U = Rec(U)
  <2> HIDE DEF Rec
  <2> QED
    BY <1>5
<1>7. Total(w) = U[L]
  BY DEF Total
<1> HIDE DEF U
<1>8. U[0] = 0 /\ \A n \in 1..L : U[n] = U[n - 1] + w[n]
  <2>1. \A n \in 0..L : U[n] = IF n = 0 THEN 0 ELSE U[n - 1] + w[n]
    BY <1>6
  <2>2. 0 \in 0..L /\ \A n \in 1..L : n \in 0..L /\ n # 0
    BY <1>0
  <2> QED
    BY <2>1, <2>2
<1>9. \A n \in 0..L : U[n] \in Nat
  <2> DEFINE S2 == {k \in 0..L : U[k] \in Nat}
  <2>1. 0 \in S2
    BY <1>8, <1>0
  <2>2. \A n \in Nat : n < L /\ n \in S2 => n + 1 \in S2
    <3> SUFFICES ASSUME NEW n \in Nat, n < L, U[n] \in Nat PROVE U[n + 1] \in Nat
      BY <1>0
    <3>1. w[n + 1] \in Nat /\ n + 1 \in 1..L
      BY <1>0
    <3>2. U[n + 1] = U[n] + w[n + 1]
      BY <1>8, <3>1
    <3> QED
      BY <3>1, <3>2
  <2>3. \A n \in 0..L : n \in S2
    <3> HIDE DEF S2
    <3> QED
      BY <2>1, <2>2, <1>0, UpTo, Zenon
  <2> QED
    BY <2>3
<1>10. U \in [0..L -> Nat]
  <2> HIDE DEF L
  <2> QED
    BY <1>6, <1>9
<1> QED
  BY <1>7, <1>8, <1>10 DEF Totals

\* A bound on every partial sum bounds the total.
LEMMA TotalBound ==
  ASSUME NEW w \in Seq(Nat), NEW P \in [0..Len(w) -> Nat],
         \A n \in 1..Len(w) : P[n - 1] + w[n] <= P[n]
  PROVE  Total(w) \in Nat /\ Total(w) <= P[Len(w)]
<1>1. PICK U \in [0..Len(w) -> Nat] : Totals(U, w)
  BY TotalRec, Zenon
<1> DEFINE L == Len(w)
           S == {n \in 0..L : U[n] <= P[n]}
<1>2. L \in Nat
  OBVIOUS
<1>3. 0 \in S
  BY <1>1, <1>2 DEF Totals
<1>4. \A n \in Nat : n < L /\ n \in S => n + 1 \in S
  <2> SUFFICES ASSUME NEW n \in Nat, n < L, U[n] <= P[n] PROVE U[n + 1] <= P[n + 1]
    BY <1>2
  <2>1. n + 1 \in 1..L /\ n \in 0..L /\ n + 1 \in 0..L /\ (n + 1) - 1 = n
    BY <1>2
  <2>2. U[n + 1] = U[n] + w[n + 1] /\ P[n] + w[n + 1] <= P[n + 1]
    BY <1>1, <2>1 DEF Totals
  <2>3. w[n + 1] \in Nat
    BY <2>1
  <2>4. U[n] \in Nat /\ P[n] \in Nat /\ P[n + 1] \in Nat
    BY <2>1, Zenon
  <2> QED
    BY <2>2, <2>3, <2>4
<1>5. L \in S
  <2> HIDE DEF S
  <2>1. \A n \in 0..L : n \in S
    BY <1>2, <1>3, <1>4, UpTo, Zenon
  <2> QED
    BY <1>2, <2>1
<1> QED
  BY <1>1, <1>2, <1>5 DEF Totals

-----------------------------------------------------------------------------
(* What an encoder writes and a decoder reads, field by field.             *)

\* FieldOrder lists every field of the format.
LEMMA FieldsListed ==
  /\ FieldOrder \in Seq(Field) /\ Len(FieldOrder) = 34 /\ DOMAIN FieldOrder = 1..34
  /\ \A x \in Field : \E i \in 1..34 : FieldOrder[i] = x
<1>1. Len(FieldOrder) = 34 /\ DOMAIN FieldOrder = 1..34
  BY DEF FieldOrder
<1>2. FieldOrder = [i \in 1..34 |-> FieldOrder[i]]
  BY <1>1 DEF FieldOrder
<1>3. \A i \in 1..34 : FieldOrder[i] \in Field
  BY <1>1, Zenon DEF Field
<1>4. \A x \in Field : \E i \in 1..34 : FieldOrder[i] = x
  BY <1>1, Zenon DEF Field
<1>5. FieldOrder \in Seq(Field)
  <2> DEFINE o == FieldOrder
  <2> HIDE DEF o
  <2>1. o = [i \in 1..34 |-> o[i]] /\ \A i \in 1..34 : o[i] \in Field
    BY <1>2, <1>3 DEF o
  <2> QED
    BY <2>1 DEF o
<1> QED
  BY <1>1, <1>4, <1>5

\* It lists each of them once.
LEMMA FieldsDiffer ==
  \A i, j \in 1..34 : FieldOrder[i] = FieldOrder[j] => i = j
  BY SMTT(60) DEF FieldOrder

\* The fields by name.
LEMMA FieldSet ==
  Field = {"REQUEST_ID", "CLUSTER_NAME", "CANONICAL_JOB_ID", "OBSERVED_JOB_ID",
    "HETERO_JOB_ID", "HETERO_COMPONENT", "JOB_UID", "JOB_GID", "WORKLOAD_KIND",
    "WALLTIME_NS", "CIRCUIT_COUNT", "MAX_QUBITS", "MAX_DEPTH", "MAX_SHOTS",
    "MAX_ONE_Q_GATES", "MAX_TWO_Q_GATES", "MAX_MEASUREMENTS", "RELEASE_REASON",
    "SERVICE_ID", "ADMISSION_DECISION", "REASON_CODE", "RESERVATION_ID",
    "RESERVATION_STATE", "RETRY_AFTER_NS", "ESTIMATED_START_NS",
    "ESTIMATED_FINISH_NS", "QPM_RUNTIME_ID", "QPM_GENERATION",
    "GATEWAY_ERROR_CODE", "DIAGNOSTIC",
    "SERVICE_REQUEST", "SERVICE_RESULT", "RELEASE_RESULT", "RESERVATION"}
  BY FieldsListed, SMTT(60) DEF Field, FieldOrder

\* The bytes a field is written as.
BytesOf(f, x, S) == IF x \in Texts THEN TextBytes(f[x])
                    ELSE NumberBytes(f[x], IF x \in S THEN 4 ELSE 8)

\* w holds each field of f once, written with S, and nothing else.
Holds(w, f, S) ==
  /\ w \in Seq({Tlv(x, BytesOf(f, x, S)) : x \in DOMAIN f})
  /\ \A i \in 1..Len(w) : w[i].field \in DOMAIN f
                            /\ w[i] = Tlv(w[i].field, BytesOf(f, w[i].field, S))
  /\ \A i, j \in 1..Len(w) : w[i].field = w[j].field => i = j
  /\ \A x \in DOMAIN f : \E i \in 1..Len(w) : w[i].field = x

\* An encoder writes every field that is present, once, and nothing else.
LEMMA WrittenHolds ==
  ASSUME NEW f, NEW S, DOMAIN f \subseteq Field
  PROVE  Holds(Written(f, S), f, S)
<1> DEFINE I == {i \in DOMAIN FieldOrder : FieldOrder[i] \in DOMAIN f}
           p == Chosen(FieldOrder, I)
           w == Written(f, S)
           T == {Tlv(x, BytesOf(f, x, S)) : x \in DOMAIN f}
<1>1. p \in Seq(Field) /\ \E e : Picks(e, p, FieldOrder, I)
  <2>1. FieldOrder \in Seq(Field)
    BY FieldsListed
  <2> HIDE DEF I
  <2> QED
    BY <2>1, ChosenPlaces, Zenon
<1>2. w = [i \in DOMAIN p |-> Tlv(p[i], BytesOf(f, p[i], S))]
  BY DEF Written, BytesOf
<1> HIDE DEF p, w
<1>3. PICK e : Picks(e, p, FieldOrder, I)
  BY <1>1
<1>4. /\ Len(p) \in Nat /\ DOMAIN p = 1..Len(p)
      /\ \A k \in 1..Len(p) : p[k] \in DOMAIN f
      /\ \A j, k \in 1..Len(p) : p[j] = p[k] => j = k
      /\ \A x \in DOMAIN f : \E k \in 1..Len(p) : p[k] = x
  <2>1. Len(p) \in Nat /\ DOMAIN p = 1..Len(p)
    BY <1>1
  <2>2. \A k \in 1..Len(p) : e[k] \in 1..34 /\ p[k] = FieldOrder[e[k]] /\ p[k] \in DOMAIN f
    BY <1>3, FieldsListed DEF Picks
  <2>3. ASSUME NEW j \in 1..Len(p), NEW k \in 1..Len(p), p[j] = p[k] PROVE j = k
    <3>1. e[j] \in 1..34 /\ e[k] \in 1..34 /\ FieldOrder[e[j]] = FieldOrder[e[k]]
      BY <2>2, <2>3
    <3>2. e[j] = e[k]
      BY <3>1, FieldsDiffer, Zenon
    <3> QED
      BY <1>3, <3>2 DEF Picks
  <2>4. ASSUME NEW x \in DOMAIN f PROVE \E k \in 1..Len(p) : p[k] = x
    <3>1. PICK i \in 1..34 : FieldOrder[i] = x
      BY FieldsListed
    <3>2. i \in I /\ i \in 1..Len(FieldOrder)
      BY <3>1, FieldsListed
    <3>3. PICK k \in 1..Len(p) : e[k] = i
      BY <1>3, <3>2 DEF Picks
    <3> QED
      BY <2>2, <3>1, <3>3
  <2> QED
    BY <2>1, <2>2, <2>3, <2>4
<1>5. \A k \in 1..Len(p) : w[k] = Tlv(p[k], BytesOf(f, p[k], S)) /\ w[k].field = p[k]
  BY <1>2, <1>4 DEF Tlv
<1>6. w \in Seq(T) /\ Len(w) = Len(p)
  <2>1. \A k \in 1..Len(p) : Tlv(p[k], BytesOf(f, p[k], S)) \in T
    BY <1>4
  <2> DEFINE g(k) == Tlv(p[k], BytesOf(f, p[k], S))
  <2>2. w = [k \in 1..Len(p) |-> g(k)] /\ \A k \in 1..Len(p) : g(k) \in T
    BY <1>2, <1>4, <2>1
  <2> HIDE DEF g, T
  <2> QED
    BY <1>4, <2>2
<1>7. Holds(w, f, S)
  <2>1. /\ \A i \in 1..Len(w) : w[i].field \in DOMAIN f
                            /\ w[i] = Tlv(w[i].field, BytesOf(f, w[i].field, S))
        /\ \A i, j \in 1..Len(w) : w[i].field = w[j].field => i = j
    BY <1>4, <1>5, <1>6
  <2>2. ASSUME NEW x \in DOMAIN f PROVE \E i \in 1..Len(w) : w[i].field = x
    <3>1. PICK k \in 1..Len(p) : p[k] = x
      BY <1>4
    <3> QED
      BY <1>5, <1>6, <3>1
  <2> QED
    BY <1>6, <2>1, <2>2 DEF Holds
<1> QED
  BY <1>7 DEF w

\* What holds the fields of f reads back as f.
LEMMA ReadWritten ==
  ASSUME NEW w, NEW f, NEW S, Holds(w, f, S), f = [x \in DOMAIN f |-> f[x]]
  PROVE  Names(w) = DOMAIN f /\ Read(w) = f /\ DOMAIN w = 1..Len(w)
<1>1. DOMAIN w = 1..Len(w) /\ Len(w) \in Nat
  BY DEF Holds
<1>2. Names(w) = DOMAIN f
  <2>1. \A i \in 1..Len(w) : w[i].field \in DOMAIN f
    BY DEF Holds
  <2>2. \A x \in DOMAIN f : \E i \in 1..Len(w) : w[i].field = x
    BY DEF Holds
  <2> QED
    BY <1>1, <2>1, <2>2 DEF Names
<1> DEFINE at(x) == CHOOSE i \in DOMAIN w : w[i].field = x
           val(x) == IF x \in Texts THEN w[at(x)].value.text ELSE w[at(x)].value.num
<1>3. \A x \in DOMAIN f : at(x) \in 1..Len(w) /\ w[at(x)].field = x
  BY <1>1 DEF Holds
<1>4. \A x \in DOMAIN f : val(x) = f[x]
  BY <1>3 DEF Holds, Tlv, BytesOf, TextBytes, NumberBytes
<1>5. Read(w) = [x \in DOMAIN f |-> val(x)]
  BY <1>2 DEF Read
<1> HIDE DEF val
<1>6. Read(w) = [x \in DOMAIN f |-> f[x]]
  BY <1>4, <1>5
<1> QED
  BY <1>1, <1>2, <1>6

\* The scalars of a payload and its items are separated again.
LEMMA Separated ==
  ASSUME NEW T, NEW w \in Seq(T), NEW g \in Seq(T), NEW group,
         \A i \in 1..Len(w) : w[i].field \notin {"unknown", group},
         \A i \in 1..Len(g) : g[i].field = group
  PROVE  Scalars(w \o g, group) = w /\ Groups(w \o g, group) = g
<1> DEFINE p == w \o g
           a == Len(w)
<1>1. /\ p \in Seq(T) /\ Len(p) = a + Len(g) /\ a \in Nat /\ Len(g) \in Nat
      /\ DOMAIN p = 1..(a + Len(g))
      /\ \A i \in 1..a : p[i] = w[i]
      /\ \A k \in 1..Len(g) : p[a + k] = g[k]
  BY ConcatProperties
<1> HIDE DEF p
<1>2. ASSUME NEW i \in 1..Len(p)
      PROVE  (i > a <=> p[i].field = group) /\ (i <= a => p[i].field \notin {"unknown", group})
  <2>1. CASE i <= a
    <3>1. i \in 1..a /\ p[i] = w[i]
      BY <1>1, <2>1
    <3>2. w[i].field \notin {"unknown", group}
      BY <3>1
    <3> QED
      BY <1>1, <2>1, <3>1, <3>2
  <2>2. CASE i > a
    <3>1. i - a \in 1..Len(g) /\ a + (i - a) = i
      BY <1>1, <2>2
    <3>2. p[i] = g[i - a]
      BY <1>1, <3>1
    <3>3. g[i - a].field = group
      BY <3>1
    <3> QED
      BY <1>1, <2>2, <3>2, <3>3
  <2> QED
    BY <1>1, <2>1, <2>2
<1>4. {j \in DOMAIN p : p[j].field \notin {"unknown", group}} = 1..a
  <2>1. \A i \in 1..Len(p) : p[i].field \notin {"unknown", group} <=> i <= a
    BY <1>1, <1>2
  <2> QED
    BY <1>1, <2>1
<1>5. Scalars(p, group) = [i \in 1..a |-> p[i]]
  BY <1>4 DEF Scalars
<1>6. w = [i \in 1..a |-> w[i]]
  OBVIOUS
<1>7. Scalars(p, group) = w
  BY <1>1, <1>5, <1>6
<1> DEFINE I == {i \in DOMAIN p : p[i].field = group}
<1>8. a \in 0..Len(p) /\ I = (a + 1)..Len(p)
  BY <1>1, <1>2
<1>9. Chosen(p, I) = [k \in 1..(Len(p) - a) |-> p[a + k]]
  <2>1. p \in Seq(T)
    BY <1>1
  <2> HIDE DEF I, a
  <2> QED
    BY <1>8, <2>1, ChosenTail
<1>10. Chosen(p, I) = [k \in 1..Len(g) |-> g[k]]
  <2>1. Len(p) - a = Len(g)
    BY <1>1
  <2> QED
    BY <1>1, <1>9, <2>1
<1>11. Groups(p, group) = g
  BY <1>10 DEF Groups
<1> QED
  BY <1>7, <1>11 DEF p

-----------------------------------------------------------------------------
(* A whole frame: its scalars and its items.                               *)

\* The fields that are not repeated items.
Plain == Field \ {"SERVICE_REQUEST", "SERVICE_RESULT", "RELEASE_RESULT", "RESERVATION"}

\* Which kinds of message have which items.
LEMMA GroupKinds ==
  ASSUME NEW k \in MessageType
  PROVE  /\ GroupOf(k) = "SERVICE_REQUEST" <=> k \in {"RESERVE_REQUEST", "EVALUATE_REQUEST"}
         /\ GroupOf(k) = "SERVICE_RESULT" <=> k \in {"RESERVE_RESPONSE", "EVALUATE_RESPONSE"}
         /\ GroupOf(k) = "RELEASE_RESULT" <=> k = "RELEASE_RESPONSE"
         /\ GroupOf(k) = "RESERVATION" <=> k = "GET_RESERVATIONS_RESPONSE"
         /\ GroupOf(k) = "none" <=> k \in {"RELEASE_REQUEST", "GET_RESERVATIONS_REQUEST",
                                           "ERROR_RESPONSE"}
         /\ GroupOf(k) \in {"SERVICE_REQUEST", "SERVICE_RESULT", "RELEASE_RESULT",
                            "RESERVATION", "none"}
  BY DEF GroupOf, MessageType, Requests, Responses

\* The fields that are not items, by name.
LEMMA PlainSet ==
  /\ Plain = {"REQUEST_ID", "CLUSTER_NAME", "CANONICAL_JOB_ID", "OBSERVED_JOB_ID",
    "HETERO_JOB_ID", "HETERO_COMPONENT", "JOB_UID", "JOB_GID", "WORKLOAD_KIND",
    "WALLTIME_NS", "CIRCUIT_COUNT", "MAX_QUBITS", "MAX_DEPTH", "MAX_SHOTS",
    "MAX_ONE_Q_GATES", "MAX_TWO_Q_GATES", "MAX_MEASUREMENTS", "RELEASE_REASON",
    "SERVICE_ID", "ADMISSION_DECISION", "REASON_CODE", "RESERVATION_ID",
    "RESERVATION_STATE", "RETRY_AFTER_NS", "ESTIMATED_START_NS",
    "ESTIMATED_FINISH_NS", "QPM_RUNTIME_ID", "QPM_GENERATION",
    "GATEWAY_ERROR_CODE", "DIAGNOSTIC"}
  /\ Plain \subseteq Field
  /\ \A x \in Plain : x \notin {"unknown", "none", "SERVICE_REQUEST", "SERVICE_RESULT",
                                "RELEASE_RESULT", "RESERVATION"}
  BY FieldSet DEF Plain

\* The attributes of the dataclasses of protocol.py are such fields.
LEMMA AttributesPlain ==
  ASSUME NEW k \in MessageType
  PROVE  /\ Attributes(k) \subseteq Plain
         /\ ItemAttributes(k) \subseteq Plain
         /\ GroupOf(k) = "none" <=> ItemAttributes(k) = {}
<1>1. CASE GroupOf(k) = "SERVICE_REQUEST"
  BY <1>1, GroupKinds, PlainSet
     DEF Attributes, ItemAttributes, Workload, Envelope, Optional
<1>2. CASE GroupOf(k) = "SERVICE_RESULT"
  BY <1>2, GroupKinds, PlainSet DEF Attributes, ItemAttributes
<1>3. CASE GroupOf(k) = "RELEASE_RESULT"
  BY <1>3, GroupKinds, PlainSet DEF Attributes, ItemAttributes
<1>4. CASE GroupOf(k) = "RESERVATION"
  BY <1>4, GroupKinds, PlainSet DEF Attributes, ItemAttributes
<1>5. CASE GroupOf(k) = "none"
  BY <1>5, GroupKinds, PlainSet DEF Attributes, ItemAttributes
<1> QED
  BY <1>1, <1>2, <1>3, <1>4, <1>5, GroupKinds

\* The payload p is that of message m, written with S.
Spells(p, m, S) ==
  LET G == GroupOf(m.kind)
  IN  /\ Scalars(p, G) = Written(m.fields, S)
      /\ Groups(p, G) = WrittenItems(G, m.items, S)
      /\ DOMAIN p \in SUBSET Nat
      /\ \A i \in DOMAIN p : p[i].form = "whole" /\ p[i].field # "unknown"
      /\ ReadItems(Groups(p, G)) = m.items

\* An item that was written reads back as it was.
LEMMA ItemRead ==
  ASSUME NEW f, NEW S, DOMAIN f \subseteq Plain, f = [x \in DOMAIN f |-> f[x]]
  PROVE  /\ Holds(Written(f, S), f, S)
         /\ Known(Written(f, S)) = Written(f, S)
         /\ Read(Written(f, S)) = f
         /\ Names(Written(f, S)) = DOMAIN f
         /\ DOMAIN Written(f, S) = 1..Len(Written(f, S))
<1> DEFINE w == Written(f, S)
<1>1. Holds(w, f, S)
  BY WrittenHolds, PlainSet
<1> HIDE DEF w
<1>2. Read(w) = f /\ Names(w) = DOMAIN f /\ DOMAIN w = 1..Len(w)
  BY <1>1, ReadWritten
<1>3. \A i \in DOMAIN w : w[i].field \notin {"unknown", "none"}
  BY <1>1, <1>2, PlainSet DEF Holds
<1>4. {j \in DOMAIN w : w[j].field \notin {"unknown", "none"}} = DOMAIN w
  BY <1>3
<1>5. w = [i \in DOMAIN w |-> w[i]]
  BY <1>1 DEF Holds
<1>6. Known(w) = w
  BY <1>4, <1>5 DEF Known, Scalars
<1> QED
  BY <1>1, <1>2, <1>6 DEF w

\* The frame of a message spells the message: its scalars read back as its
\* fields, its groups as its items.
LEMMA FrameSpells ==
  ASSUME NEW m, NEW S, NEW c, IsMessage(m)
  PROVE  Spells(FrameOf(m, c, S).payload, m, S)
<1> DEFINE G == GroupOf(m.kind)
           w == Written(m.fields, S)
           g == WrittenItems(G, m.items, S)
           item(i) == Tlv(G, [len |-> 0, num |-> 0, text |-> NoText,
                              sub |-> Written(m.items[i], S)])
           T == {w[i] : i \in DOMAIN w} \cup {item(i) : i \in DOMAIN m.items}
<1>1. /\ m.kind \in MessageType
      /\ m.fields = [x \in DOMAIN m.fields |-> m.fields[x]]
      /\ DOMAIN m.fields \subseteq Plain
  BY AttributesPlain DEF IsMessage, Carries
<1>2. DOMAIN m.items = 1..Len(m.items) /\ Len(m.items) \in Nat
      /\ m.items = [i \in 1..Len(m.items) |-> m.items[i]]
  <2>1. DOMAIN m.items = 1..Len(m.items) /\ m.items = [i \in 1..Len(m.items) |-> m.items[i]]
    BY DEF IsMessage
  <2> QED
    BY <2>1
<1>3. /\ Holds(w, m.fields, S)
      /\ Read(w) = m.fields
      /\ DOMAIN w = 1..Len(w) /\ Len(w) \in Nat
      /\ w = [i \in 1..Len(w) |-> w[i]]
  <2>1. Holds(w, m.fields, S) /\ Read(w) = m.fields
    BY <1>1, ItemRead
  <2> HIDE DEF w
  <2> QED
    BY <2>1 DEF Holds
<1> HIDE DEF w
<1>4. g = [i \in 1..Len(m.items) |-> item(i)]
  BY <1>2 DEF WrittenItems
<1> HIDE DEF g, item
<1>5. /\ g \in Seq(T) /\ Len(g) = Len(m.items) /\ w \in Seq(T)
      /\ DOMAIN g = 1..Len(m.items) /\ \A i \in 1..Len(m.items) : g[i] = item(i)
  <2>1. /\ \A i \in 1..Len(m.items) : item(i) \in T
        /\ \A i \in 1..Len(w) : w[i] \in T
    BY <1>2, <1>3
  <2> HIDE DEF T
  <2>2. w \in Seq(T)
    BY <1>3, <2>1
  <2>3. g \in Seq(T) /\ Len(g) = Len(m.items) /\ DOMAIN g = 1..Len(m.items)
    BY <1>2, <1>4, <2>1
  <2>4. \A i \in 1..Len(m.items) : g[i] = item(i)
    BY <1>4
  <2> QED
    BY <2>2, <2>3, <2>4
<1>6. \A i \in 1..Len(w) : w[i].field \in Plain /\ w[i].form = "whole"
  BY <1>1, <1>3 DEF Holds, Tlv
<1>7. \A i \in 1..Len(g) : g[i].field = G /\ g[i].form = "whole"
                             /\ g[i].value.sub = Written(m.items[i], S)
  <2>1. \A i \in 1..Len(m.items) : item(i).field = G /\ item(i).form = "whole"
                                   /\ item(i).value.sub = Written(m.items[i], S)
    BY DEF item, Tlv
  <2> QED
    BY <1>5, <2>1
<1>8. G \notin Plain /\ G # "unknown"
  BY <1>1, GroupKinds, PlainSet
<1>9. Scalars(w \o g, G) = w /\ Groups(w \o g, G) = g
  <2>1. \A i \in 1..Len(w) : w[i].field \notin {"unknown", G}
    BY <1>6, <1>8, PlainSet
  <2>2. \A i \in 1..Len(g) : g[i].field = G
    BY <1>7
  <2> HIDE DEF T
  <2> QED
    BY <1>5, <2>1, <2>2, Separated
<1>10. ReadItems(g) = m.items
  <2>1. \A i \in 1..Len(m.items) :
          /\ DOMAIN m.items[i] \subseteq Plain
          /\ m.items[i] = [x \in DOMAIN m.items[i] |-> m.items[i][x]]
    BY <1>1, <1>2, AttributesPlain DEF IsMessage, Carries
  <2>2. \A i \in 1..Len(m.items) : Read(Known(g[i].value.sub)) = m.items[i]
    <3> TAKE i \in 1..Len(m.items)
    <3> DEFINE f == m.items[i]
    <3>1. DOMAIN f \subseteq Plain /\ f = [x \in DOMAIN f |-> f[x]]
      BY <2>1
    <3>2. g[i].value.sub = Written(f, S)
      BY <1>5, <1>7
    <3> HIDE DEF f
    <3>3. Read(Known(Written(f, S))) = f
      BY <3>1, ItemRead
    <3> QED
      BY <3>2, <3>3 DEF f
  <2> QED
    BY <2>2, <1>2, <1>5 DEF ReadItems
<1>11. /\ DOMAIN (w \o g) \in SUBSET Nat
       /\ \A i \in DOMAIN (w \o g) : (w \o g)[i].form = "whole" /\ (w \o g)[i].field # "unknown"
  <2> DEFINE p == w \o g
             a == Len(w)
  <2>1. /\ p \in Seq(T) /\ Len(p) = a + Len(g) /\ a \in Nat /\ Len(g) \in Nat
        /\ DOMAIN p = 1..(a + Len(g))
        /\ \A i \in 1..a : p[i] = w[i]
        /\ \A k \in 1..Len(g) : p[a + k] = g[k]
    <3> HIDE DEF T
    <3> QED
      <4>1. w \in Seq(T) /\ g \in Seq(T)
        BY <1>5
      <4> QED
        BY <4>1, ConcatProperties
  <2> HIDE DEF p, T
  <2>2. ASSUME NEW i \in DOMAIN p PROVE p[i].form = "whole" /\ p[i].field # "unknown"
    <3>1. CASE i <= a
      <4>1. i \in 1..a /\ p[i] = w[i]
        BY <2>1, <3>1
      <4> QED
        BY <4>1, <1>6, PlainSet
    <3>2. CASE i > a
      <4>1. i - a \in 1..Len(g) /\ a + (i - a) = i
        BY <2>1, <3>2
      <4>2. p[i] = g[i - a]
        BY <2>1, <4>1
      <4> QED
        BY <4>1, <4>2, <1>7, <1>8
    <3> QED
      BY <2>1, <3>1, <3>2
  <2> QED
    BY <2>1, <2>2 DEF p
<1>12. FrameOf(m, c, S).payload = w \o g
  BY DEF FrameOf, w, g
<1> QED
  BY <1>9, <1>10, <1>11, <1>12 DEF Spells, w, g

-----------------------------------------------------------------------------
(* What is within the limits of the Python encoder passes the decoders.    *)

\* Both sides write, and C reads, the same fields with four bytes.
LEMMA SameWidths ==
  /\ CPuts32 = PyPuts32 /\ CTakes32 = PyPuts32
  /\ \A x \in Plain : x \in PyTakes32 <=>
       x \in PyPuts32 /\ x \notin {"ADMISSION_DECISION", "RESERVATION_STATE",
                                   "GATEWAY_ERROR_CODE"}
  /\ \A x : CTextMax(x) = PyTextMax(x) /\ PyTextMax(x) \in Nat
  BY DEF CPuts32, PyPuts32, CTakes32, PyTakes32, CTextMax, PyTextMax,
         MAX_CLUSTER_NAME, MAX_DIAGNOSTIC, MAX_SERVICE_ID

\* A text or a number.
Valued(f) == \A x \in DOMAIN f : f[x] \in IF x \in Texts THEN TextValue ELSE Nat

\* Fields within the limits of the Python encoder are within those of both
\* decoders.
LEMMA ReadsHeld ==
  ASSUME NEW w, NEW f, Holds(w, f, PyPuts32), Valued(f), PyWritable(f),
         DOMAIN f \subseteq Plain
  PROVE  /\ CReads(w)
         /\ DOMAIN f \cap {"ADMISSION_DECISION", "RESERVATION_STATE",
                           "GATEWAY_ERROR_CODE"} = {} => PyReads(w)
<1>1. DOMAIN w = 1..Len(w)
  BY DEF Holds
<1>2. ASSUME NEW i \in 1..Len(w)
      PROVE  LET x == w[i].field
                 v == w[i].value
             IN  IF x \in Texts
                 THEN /\ v.len = f[x].len /\ v.text = f[x] /\ v.len \in Nat
                      /\ v.len > 0 /\ v.len <= PyTextMax(x) /\ ~ v.text.nul /\ v.text.utf8
                 ELSE v.len = IF x \in PyPuts32 THEN 4 ELSE 8
  <2> DEFINE x == w[i].field
             v == w[i].value
  <2>1. x \in DOMAIN f /\ v = BytesOf(f, x, PyPuts32)
    BY DEF Holds, Tlv
  <2>2. CASE x \in Texts
    <3>1. v.len = f[x].len /\ v.text = f[x]
      BY <2>1, <2>2 DEF BytesOf, TextBytes
    <3>2. f[x] \in TextValue
      BY <2>1, <2>2 DEF Valued
    <3>3. f[x].len > 0 /\ f[x].len <= PyTextMax(x) /\ ~ f[x].nul /\ f[x].utf8
      BY <2>1, <2>2 DEF PyWritable
    <3> QED
      BY <2>2, <3>1, <3>2, <3>3 DEF TextValue
  <2>3. CASE x \notin Texts
    BY <2>1, <2>3 DEF BytesOf, NumberBytes
  <2> QED
    BY <2>2, <2>3
<1>3. CReads(w)
  BY <1>1, <1>2, SameWidths DEF CReads
<1>4. ASSUME DOMAIN f \cap {"ADMISSION_DECISION", "RESERVATION_STATE",
                            "GATEWAY_ERROR_CODE"} = {}
      PROVE  PyReads(w)
  <2>1. \A i \in 1..Len(w) : w[i].field \in DOMAIN f
    BY DEF Holds
  <2>2. \A x \in DOMAIN f : x \in PyTakes32 <=> x \in PyPuts32
    BY <1>4, SameWidths
  <2> QED
    BY <1>1, <1>2, <2>1, <2>2 DEF PyReads
<1> QED
  BY <1>3, <1>4

\* What a TLV sequence without unknown fields passes.
LEMMA Collected ==
  ASSUME NEW p, NEW G, NEW w, NEW f, NEW S, Scalars(p, G) = w, Holds(w, f, S),
         \A i \in DOMAIN p : p[i].form = "whole" /\ p[i].field # "unknown"
  PROVE  CCollects(p, G) /\ PyCollects(p, G)
<1>0. DOMAIN w = 1..Len(w)
  BY DEF Holds
<1>1. \A i, j \in DOMAIN w : w[i].field = w[j].field => i = j
  BY <1>0 DEF Holds
<1> QED
  BY <1>1 DEF CCollects, PyCollects

\* An item within those limits passes the scan of both decoders.
LEMMA ItemPasses ==
  ASSUME NEW f, DOMAIN f \subseteq Plain, f = [x \in DOMAIN f |-> f[x]],
         Valued(f), PyWritable(f)
  PROVE  LET w == Written(f, PyPuts32)
         IN  /\ Known(w) = w /\ Read(w) = f /\ Names(w) = DOMAIN f
             /\ \A needed, optional :
                  needed \subseteq DOMAIN f /\ DOMAIN f \subseteq needed \cup optional =>
                    CScans(w, "none", needed, optional)
             /\ PyCollects(w, "none")
             /\ DOMAIN f \cap {"ADMISSION_DECISION", "RESERVATION_STATE",
                               "GATEWAY_ERROR_CODE"} = {} => PyReads(w)
<1> DEFINE w == Written(f, PyPuts32)
<1>1. /\ Holds(w, f, PyPuts32) /\ Known(w) = w /\ Read(w) = f /\ Names(w) = DOMAIN f
      /\ DOMAIN w = 1..Len(w)
  BY ItemRead
<1> HIDE DEF w
<1>2. \A i \in DOMAIN w : w[i].form = "whole" /\ w[i].field # "unknown"
  BY <1>1, PlainSet DEF Holds, Tlv
<1>3. Scalars(w, "none") = w
  BY <1>1 DEF Known
<1>4. CCollects(w, "none") /\ PyCollects(w, "none")
  BY <1>1, <1>2, <1>3, Collected
<1>5. /\ CReads(w)
      /\ DOMAIN f \cap {"ADMISSION_DECISION", "RESERVATION_STATE",
                        "GATEWAY_ERROR_CODE"} = {} => PyReads(w)
  BY <1>1, ReadsHeld
<1>6. \A needed, optional :
        needed \subseteq DOMAIN f /\ DOMAIN f \subseteq needed \cup optional =>
          CScans(w, "none", needed, optional)
  BY <1>1, <1>3, <1>4, <1>5 DEF CScans
<1> QED
  BY <1>1, <1>4, <1>5, <1>6 DEF w

\* What the frame of a writable message passes.
LEMMA FramePasses ==
  ASSUME NEW m, IsMessage(m), PyWritable(m.fields)
  PROVE  LET p == PyFrame(m).payload
             G == GroupOf(m.kind)
             f == m.fields
         IN  /\ Read(Scalars(p, G)) = f /\ Names(Scalars(p, G)) = DOMAIN f
             /\ ReadItems(Groups(p, G)) = m.items
             /\ Groups(p, G) = WrittenItems(G, m.items, PyPuts32)
             /\ \A needed, optional :
                  needed \subseteq DOMAIN f /\ DOMAIN f \subseteq needed \cup optional =>
                    CScans(p, G, needed, optional)
             /\ PyCollects(p, G)
             /\ DOMAIN f \cap {"ADMISSION_DECISION", "RESERVATION_STATE",
                               "GATEWAY_ERROR_CODE"} = {} => PyReads(Scalars(p, G))
<1> DEFINE p == PyFrame(m).payload
           G == GroupOf(m.kind)
           f == m.fields
           w == Written(f, PyPuts32)
<1>1. DOMAIN f \subseteq Plain /\ f = [x \in DOMAIN f |-> f[x]] /\ Valued(f)
  BY AttributesPlain DEF IsMessage, Carries, Valued
<1>2. Spells(p, m, PyPuts32)
  BY FrameSpells DEF PyFrame
<1> HIDE DEF p, w, f, G
<1>3. Holds(w, f, PyPuts32) /\ Read(w) = f /\ Names(w) = DOMAIN f
  BY <1>1, ItemRead DEF w
<1>4. /\ Scalars(p, G) = w /\ Groups(p, G) = WrittenItems(G, m.items, PyPuts32)
      /\ \A i \in DOMAIN p : p[i].form = "whole" /\ p[i].field # "unknown"
      /\ ReadItems(Groups(p, G)) = m.items
  BY <1>2 DEF Spells, w, f, G
<1>5. CCollects(p, G) /\ PyCollects(p, G)
  BY <1>3, <1>4, Collected
<1>6. /\ CReads(w)
      /\ DOMAIN f \cap {"ADMISSION_DECISION", "RESERVATION_STATE",
                        "GATEWAY_ERROR_CODE"} = {} => PyReads(w)
  <2>1. PyWritable(f)
    BY DEF f
  <2> QED
    BY <1>1, <1>3, <2>1, ReadsHeld
<1>7. \A needed, optional :
        needed \subseteq DOMAIN f /\ DOMAIN f \subseteq needed \cup optional =>
          CScans(p, G, needed, optional)
  BY <1>3, <1>4, <1>5, <1>6 DEF CScans
<1> QED
  BY <1>3, <1>4, <1>5, <1>6, <1>7 DEF p, G, f

\* An item of a message, as a decoder finds it.
LEMMA ItemFound ==
  ASSUME NEW m, IsMessage(m), NEW G, NEW i \in DOMAIN m.items, PyWritable(m.items[i])
  PROVE  LET g == WrittenItems(G, m.items, PyPuts32)
             f == m.items[i]
         IN  /\ DOMAIN g = DOMAIN m.items /\ Len(g) = Len(m.items)
             /\ g[i].value.sub = Written(f, PyPuts32)
             /\ DOMAIN f \subseteq Plain /\ f = [x \in DOMAIN f |-> f[x]]
             /\ Valued(f) /\ PyWritable(f)
<1> DEFINE g == WrittenItems(G, m.items, PyPuts32)
<1>1. DOMAIN m.items = 1..Len(m.items) /\ Len(m.items) \in Nat
  BY DEF IsMessage
<1>2. DOMAIN g = DOMAIN m.items /\ Len(g) = Len(m.items)
      /\ g[i].value.sub = Written(m.items[i], PyPuts32)
  BY <1>1 DEF WrittenItems, Tlv
<1>3. Carries(m.items[i], ItemAttributes(m.kind), m.kind) /\ m.kind \in MessageType
  BY DEF IsMessage
<1> QED
  BY <1>2, <1>3, AttributesPlain DEF Carries, Valued

-----------------------------------------------------------------------------
(* The C decoder reads back what Python writes.                            *)

\* What the C decoders need of a message and its items is what its dataclass has.
LEMMA Needed ==
  ASSUME NEW m, IsMessage(m)
  PROVE  /\ CNeeds(m.kind) \subseteq DOMAIN m.fields
         /\ DOMAIN m.fields \subseteq CNeeds(m.kind) \cup CAllows(m.kind)
<1>1. /\ m.kind \in MessageType /\ DOMAIN m.fields \subseteq Attributes(m.kind)
      /\ Attributes(m.kind) \ (MayBeNone(m.kind) \cup Workload) \subseteq DOMAIN m.fields
  BY DEF IsMessage, Carries
<1> DEFINE k == m.kind
<1>2. /\ CNeeds(k) \subseteq Attributes(k) \ (MayBeNone(k) \cup Workload)
      /\ Attributes(k) \subseteq CNeeds(k) \cup CAllows(k)
  <2> HIDE DEF k
  <2>0. k \in MessageType
    BY <1>1 DEF k
  <2>1. CASE GroupOf(k) = "SERVICE_REQUEST"
    BY <2>0, <2>1, GroupKinds
       DEF Attributes, CNeeds, CAllows, MayBeNone, Workload, Envelope, Optional
  <2>2. CASE GroupOf(k) = "SERVICE_RESULT"
    BY <2>0, <2>2, GroupKinds
       DEF Attributes, CNeeds, CAllows, MayBeNone, Workload, Envelope, Optional
  <2>3. CASE GroupOf(k) = "RELEASE_RESULT"
    BY <2>0, <2>3, GroupKinds
       DEF Attributes, CNeeds, CAllows, MayBeNone, Workload, Envelope, Optional
  <2>4. CASE GroupOf(k) = "RESERVATION"
    BY <2>0, <2>4, GroupKinds
       DEF Attributes, CNeeds, CAllows, MayBeNone, Workload, Envelope, Optional
  <2>5. CASE GroupOf(k) = "none"
    BY <2>0, <2>5, GroupKinds
       DEF Attributes, CNeeds, CAllows, MayBeNone, Workload, Envelope, Optional
  <2> QED
    BY <2>0, <2>1, <2>2, <2>3, <2>4, <2>5, GroupKinds
<1> QED
  BY <1>1, <1>2

\* An item has the attributes of its class that cannot be None.
LEMMA ItemNeeded ==
  ASSUME NEW m, IsMessage(m), NEW i \in DOMAIN m.items
  PROVE  LET d == DOMAIN m.items[i]
         IN  /\ GroupOf(m.kind) = "SERVICE_REQUEST" => d = {"SERVICE_ID"}
             /\ GroupOf(m.kind) = "SERVICE_RESULT" =>
                  /\ {"SERVICE_ID", "ADMISSION_DECISION", "REASON_CODE"} \subseteq d
                  /\ d \subseteq {"SERVICE_ID", "ADMISSION_DECISION", "REASON_CODE"}
                                   \cup MayBeNone(m.kind)
             /\ m.kind = "RELEASE_RESPONSE" =>
                  /\ {"SERVICE_ID", "RESERVATION_ID", "RESERVATION_STATE"} \subseteq d
                  /\ d \subseteq {"SERVICE_ID", "RESERVATION_ID", "RESERVATION_STATE"}
                                   \cup {"GATEWAY_ERROR_CODE", "DIAGNOSTIC"}
             /\ m.kind = "GET_RESERVATIONS_RESPONSE" => d = {"SERVICE_ID", "RESERVATION_ID"}
             /\ GroupOf(m.kind) # "none"
<1> DEFINE d == DOMAIN m.items[i]
           k == m.kind
<1>1. /\ k \in MessageType /\ d \subseteq ItemAttributes(k)
      /\ ItemAttributes(k) \ (MayBeNone(k) \cup Workload) \subseteq d
      /\ ItemAttributes(k) # {}
  BY DEF IsMessage, Carries
<1> HIDE DEF d, k
<1>2. CASE GroupOf(k) = "SERVICE_REQUEST"
  BY <1>1, <1>2, GroupKinds DEF d, k, ItemAttributes, MayBeNone, Workload, Envelope, Optional
<1>3. CASE GroupOf(k) = "SERVICE_RESULT"
  <2>1. ItemAttributes(k) = {"SERVICE_ID", "ADMISSION_DECISION", "REASON_CODE"} \cup MayBeNone(k)
    BY <1>1, <1>3, GroupKinds DEF ItemAttributes, MayBeNone
  <2>2. {"SERVICE_ID", "ADMISSION_DECISION", "REASON_CODE"} \subseteq
          ItemAttributes(k) \ (MayBeNone(k) \cup Workload)
    BY <1>1, <1>3, GroupKinds DEF ItemAttributes, MayBeNone, Workload, Envelope, Optional
  <2> QED
    BY <1>1, <1>3, <2>1, <2>2, GroupKinds DEF d, k
<1>4. CASE GroupOf(k) = "RELEASE_RESULT"
  BY <1>1, <1>4, GroupKinds DEF d, k, ItemAttributes, MayBeNone, Workload, Envelope, Optional
<1>5. CASE GroupOf(k) = "RESERVATION"
  BY <1>1, <1>5, GroupKinds DEF d, k, ItemAttributes, MayBeNone, Workload, Envelope, Optional
<1>6. CASE GroupOf(k) = "none"
  BY <1>1, <1>6, AttributesPlain
<1> QED
  BY <1>1, <1>2, <1>3, <1>4, <1>5, <1>6, GroupKinds DEF k

\* The TLV of an item, as the decoders of items see it.
LEMMA ItemSeen ==
  ASSUME NEW m, IsMessage(m), NEW G, NEW i \in DOMAIN m.items, PyWritable(m.items[i])
  PROVE  LET t == WrittenItems(G, m.items, PyPuts32)[i]
             f == m.items[i]
             w == t.value.sub
         IN  /\ Read(Known(w)) = f /\ Names(Known(w)) = DOMAIN f
             /\ \A needed, optional :
                  needed \subseteq DOMAIN f /\ DOMAIN f \subseteq needed \cup optional =>
                    CScans(w, "none", needed, optional)
             /\ PyCollects(w, "none")
             /\ DOMAIN f \cap {"ADMISSION_DECISION", "RESERVATION_STATE",
                               "GATEWAY_ERROR_CODE"} = {} => PyReads(Known(w))
<1> DEFINE f == m.items[i]
<1>1. /\ WrittenItems(G, m.items, PyPuts32)[i].value.sub = Written(f, PyPuts32)
      /\ DOMAIN f \subseteq Plain /\ f = [x \in DOMAIN f |-> f[x]]
      /\ Valued(f) /\ PyWritable(f)
  <2>1. f = [x \in DOMAIN f |-> f[x]]
    BY ItemFound
  <2>2. WrittenItems(G, m.items, PyPuts32)[i].value.sub = Written(f, PyPuts32)
    BY DEF WrittenItems, Tlv
  <2>3. DOMAIN f \subseteq Plain
    BY ItemFound
  <2>4. Valued(f) /\ PyWritable(f)
    BY ItemFound
  <2> QED
    BY <2>1, <2>2, <2>3, <2>4
<1> HIDE DEF f
<1> DEFINE w == Written(f, PyPuts32)
<1>2. /\ Known(w) = w /\ Read(w) = f /\ Names(w) = DOMAIN f
      /\ \A needed, optional :
           needed \subseteq DOMAIN f /\ DOMAIN f \subseteq needed \cup optional =>
             CScans(w, "none", needed, optional)
      /\ PyCollects(w, "none")
      /\ DOMAIN f \cap {"ADMISSION_DECISION", "RESERVATION_STATE",
                        "GATEWAY_ERROR_CODE"} = {} => PyReads(w)
  BY <1>1, ItemPasses
<1> HIDE DEF w
<1>3. WrittenItems(G, m.items, PyPuts32)[i].value.sub = w
  BY <1>1 DEF w
<1> QED
  BY <1>2, <1>3 DEF f

\* The checks that C makes of a message after it has read its fields.
CChecks(kind, f, groups) ==
  CASE GroupOf(kind) = "SERVICE_REQUEST" -> CDecodeAdmissionRequest(f, groups)
    [] GroupOf(kind) = "SERVICE_RESULT" ->
         CDecodeAdmissionResponse(f, groups, kind = "RESERVE_RESPONSE")
    [] kind = "RELEASE_RESPONSE" -> CDecodeReleaseResponse(f, groups)
    [] kind = "GET_RESERVATIONS_RESPONSE" -> CDecodeLookupResponse(f, groups)
    [] kind = "RELEASE_REQUEST" -> NonZero(f, {"REQUEST_ID", "CANONICAL_JOB_ID"})
    [] kind = "GET_RESERVATIONS_REQUEST" -> NonZero(f, {"REQUEST_ID", "OBSERVED_JOB_ID"})
    [] OTHER -> f["GATEWAY_ERROR_CODE"] # 0

\* What Python writes passes them.
LEMMA CChecksPass ==
  ASSUME NEW m, IsMessage(m), PyEncodes(m), Decided(m)
  PROVE  CChecks(m.kind, m.fields, WrittenItems(GroupOf(m.kind), m.items, PyPuts32))
<1> DEFINE k == m.kind
           f == m.fields
           G == GroupOf(k)
           g == WrittenItems(G, m.items, PyPuts32)
<1>1. /\ k \in MessageType
      /\ \A i \in DOMAIN m.items : PyWritable(m.items[i])
      /\ Envelope \subseteq DOMAIN f \/ Workload \cap DOMAIN f = {}
  BY DEF IsMessage, PyEncodes, Carries
<1>2. DOMAIN m.items = 1..Len(m.items) /\ Len(m.items) \in Nat
      /\ DOMAIN g = DOMAIN m.items /\ Len(g) = Len(m.items)
  <2>1. DOMAIN m.items = 1..Len(m.items) /\ Len(m.items) \in Nat
    BY DEF IsMessage
  <2> QED
    BY <2>1 DEF WrittenItems
<1>3. ReadItems(g) = m.items
  <2>1. PyWritable(m.fields)
    BY DEF PyEncodes
  <2> QED
    BY <2>1, FramePasses
<1>4. \A i \in DOMAIN m.items :
        LET w == g[i].value.sub
        IN  /\ Read(Known(w)) = m.items[i]
            /\ \A needed, optional :
                 needed \subseteq DOMAIN m.items[i] /\ DOMAIN m.items[i] \subseteq needed \cup optional =>
                   CScans(w, "none", needed, optional)
  <2> TAKE i \in DOMAIN m.items
  <2>1. PyWritable(m.items[i])
    BY <1>1
  <2> QED
    BY <2>1, ItemSeen
<1> HIDE DEF g
<1>5. g # <<>> <=> Len(m.items) # 0
  BY <1>2
<1>6. CASE G = "SERVICE_REQUEST"
  <2>1. PyEncodesAdmissionRequest(m)
    BY <1>6, <1>1, GroupKinds DEF PyEncodes
  <2>2. \A i \in DOMAIN g : CServiceRequest(g[i])
    <3> TAKE i \in DOMAIN g
    <3>1. DOMAIN m.items[i] = {"SERVICE_ID"}
      BY <1>2, <1>6, ItemNeeded
    <3> QED
      BY <1>2, <1>4, <3>1 DEF CServiceRequest
  <2>3. "WORKLOAD_KIND" \in DOMAIN f /\ PyValidRequest(f, m.items)
    BY <2>1 DEF PyEncodesAdmissionRequest
  <2>4. Envelope \subseteq DOMAIN f
    BY <1>1, <2>3 DEF Workload, Envelope
  <2>5. CDecodeAdmissionRequest(f, g)
    <3>1. /\ NonZero(f, {"REQUEST_ID", "CANONICAL_JOB_ID"})
          /\ Len(m.items) \in 1..MAX_SERVICES
          /\ Distinct(m.items)
          /\ ("HETERO_JOB_ID" \in DOMAIN f) = ("HETERO_COMPONENT" \in DOMAIN f)
          /\ f["WORKLOAD_KIND"] \in {1, 2} /\ NonZero(f, Envelope)
      BY <2>3 DEF PyValidRequest
    <3>2. Len(g) <= MAX_SERVICES /\ g # <<>>
      <4> DEFINE n == Len(m.items)
      <4>0. n \in 1..MAX_SERVICES
        BY <3>1
      <4> HIDE DEF n
      <4>1. n # 0 /\ n <= MAX_SERVICES
        BY <4>0 DEF MAX_SERVICES
      <4> USE DEF n
      <4>2. g # <<>>
        BY <1>5, <4>1
      <4>3. Len(g) = Len(m.items)
        BY <1>2
      <4> QED
        BY <4>1, <4>2, <4>3
    <3>3. f["WORKLOAD_KIND"] \in 1..2
      BY <3>1
    <3>4. Distinct(ReadItems(g))
      BY <1>3, <3>1 DEF g
    <3>5. Envelope \cap DOMAIN f \in {{}, Envelope}
      BY <2>4
    <3> HIDE DEF f
    <3> QED
      BY <2>2, <2>3, <3>1, <3>2, <3>3, <3>4, <3>5, Zenon DEF CDecodeAdmissionRequest
  <2> QED
    BY <1>6, <2>5, <1>1, GroupKinds DEF CChecks, g
<1>7. CASE G = "SERVICE_RESULT"
  <2>1. PyEncodesAdmissionResponse(m)
    BY <1>7, <1>1, GroupKinds DEF PyEncodes
  <2>2. ASSUME NEW i \in DOMAIN g PROVE CServiceResult(g[i], k = "RESERVE_RESPONSE")
    <3>1. /\ {"SERVICE_ID", "ADMISSION_DECISION", "REASON_CODE"} \subseteq DOMAIN m.items[i]
          /\ DOMAIN m.items[i] \subseteq {"SERVICE_ID", "ADMISSION_DECISION", "REASON_CODE"}
                                           \cup MayBeNone(k)
      BY <1>2, <1>7, ItemNeeded
    <3>2. MayBeNone(k) = {"RESERVATION_ID", "RETRY_AFTER_NS", "ESTIMATED_START_NS",
                 "ESTIMATED_FINISH_NS", "QPM_RUNTIME_ID", "QPM_GENERATION", "DIAGNOSTIC"}
      BY <1>1, <1>7, GroupKinds DEF MayBeNone
    <3>3. CScans(g[i].value.sub, "none",
                {"SERVICE_ID", "ADMISSION_DECISION", "REASON_CODE"},
                {"RESERVATION_ID", "RETRY_AFTER_NS", "ESTIMATED_START_NS",
                 "ESTIMATED_FINISH_NS", "QPM_RUNTIME_ID", "QPM_GENERATION",
                 "DIAGNOSTIC"})
      BY <1>2, <1>4, <3>1, <3>2
    <3>4. m.items[i]["ADMISSION_DECISION"] \in 1..3
      <4>1. m.items[i]["ADMISSION_DECISION"] \in Decisions(m.items)
        BY <1>2 DEF Decisions
      <4>2. Decisions(m.items) \subseteq {Accepted, Delayed, Rejected}
        BY <2>1 DEF PyEncodesAdmissionResponse
      <4> QED
        BY <4>1, <4>2 DEF Accepted, Delayed, Rejected
    <3>5. PyEncodesResult(m.items[i], k = "RESERVE_RESPONSE")
      BY <1>2, <2>1 DEF PyEncodesAdmissionResponse
    <3>6. Read(Known(g[i].value.sub)) = m.items[i]
      BY <1>2, <1>4
    <3> QED
      BY <3>3, <3>4, <3>5, <3>6 DEF CServiceResult, PyEncodesResult
  <2>3. f["ADMISSION_DECISION"] \in {Accepted, Delayed, Rejected}
    BY <1>7 DEF Decided
  <2>4. CDecodeAdmissionResponse(f, g, k = "RESERVE_RESPONSE")
    <3>1. /\ f["REQUEST_ID"] # 0 /\ Len(m.items) \in 1..MAX_SERVICES
          /\ Distinct(m.items) /\ PyConsistent(f["ADMISSION_DECISION"], Decisions(m.items))
      BY <2>1 DEF PyEncodesAdmissionResponse
    <3>2. Len(g) <= MAX_SERVICES /\ g # <<>>
      <4> DEFINE n == Len(m.items)
      <4>0. n \in 1..MAX_SERVICES
        BY <3>1
      <4> HIDE DEF n
      <4>1. n # 0 /\ n <= MAX_SERVICES
        BY <4>0 DEF MAX_SERVICES
      <4> USE DEF n
      <4>2. g # <<>>
        BY <1>5, <4>1
      <4>3. Len(g) = Len(m.items)
        BY <1>2
      <4> QED
        BY <4>1, <4>2, <4>3
    <3>3. f["ADMISSION_DECISION"] \in 1..3
      BY <2>3 DEF Accepted, Delayed, Rejected
    <3>4. ReadItems(g) = m.items
      BY <1>3 DEF g
    <3> HIDE DEF f
    <3>5. CASE f["ADMISSION_DECISION"] = Accepted
      BY <2>2, <3>1, <3>2, <3>3, <3>4, <3>5
         DEF CDecodeAdmissionResponse, PyConsistent, Accepted, Rejected, Delayed
    <3>6. CASE f["ADMISSION_DECISION"] = Delayed
      BY <2>2, <3>1, <3>2, <3>3, <3>4, <3>6
         DEF CDecodeAdmissionResponse, PyConsistent, Accepted, Rejected, Delayed
    <3>7. CASE f["ADMISSION_DECISION"] = Rejected
      BY <2>2, <3>1, <3>2, <3>3, <3>4, <3>7
         DEF CDecodeAdmissionResponse, PyConsistent, Accepted, Rejected, Delayed
    <3> QED
      BY <2>3, <3>5, <3>6, <3>7 DEF f
  <2> QED
    BY <1>7, <2>4, <1>1, GroupKinds DEF CChecks, g
<1>8. CASE G = "RELEASE_RESULT"
  <2>0. k = "RELEASE_RESPONSE"
    BY <1>1, <1>8, GroupKinds
  <2>1. PyEncodesReleaseResponse(m)
    BY <1>8, <2>0, GroupKinds DEF PyEncodes, GroupOf
  <2>2. ASSUME NEW i \in DOMAIN g PROVE CReleaseResult(g[i])
    <3>1. /\ {"SERVICE_ID", "RESERVATION_ID", "RESERVATION_STATE"} \subseteq DOMAIN m.items[i]
          /\ DOMAIN m.items[i] \subseteq {"SERVICE_ID", "RESERVATION_ID", "RESERVATION_STATE"}
                                           \cup {"GATEWAY_ERROR_CODE", "DIAGNOSTIC"}
      BY <1>2, <2>0, ItemNeeded
    <3>2. CScans(g[i].value.sub, "none",
                {"SERVICE_ID", "RESERVATION_ID", "RESERVATION_STATE"},
                {"GATEWAY_ERROR_CODE", "DIAGNOSTIC"})
      BY <1>2, <1>4, <3>1
    <3>3. m.items[i]["RESERVATION_ID"] # 0 /\ m.items[i]["RESERVATION_STATE"] \in 1..7
      BY <1>2, <2>1 DEF PyEncodesReleaseResponse
    <3> QED
      BY <1>2, <1>4, <3>2, <3>3 DEF CReleaseResult
  <2>3. CDecodeReleaseResponse(f, g)
    BY <1>2, <2>1, <2>2 DEF CDecodeReleaseResponse, PyEncodesReleaseResponse
  <2> QED
    BY <1>8, <2>0, <2>3 DEF CChecks, g
<1>9. CASE G = "RESERVATION"
  <2>0. k = "GET_RESERVATIONS_RESPONSE"
    BY <1>1, <1>9, GroupKinds
  <2>1. PyEncodesLookupResponse(m)
    BY <1>9, <2>0, GroupKinds DEF PyEncodes, GroupOf
  <2>2. ASSUME NEW i \in DOMAIN g PROVE CReservation(g[i])
    <3>1. DOMAIN m.items[i] = {"SERVICE_ID", "RESERVATION_ID"}
      BY <1>2, <2>0, ItemNeeded
    <3>2. CScans(g[i].value.sub, "none", {"SERVICE_ID", "RESERVATION_ID"}, {})
      BY <1>2, <1>4, <3>1
    <3>3. m.items[i]["RESERVATION_ID"] # 0
      BY <1>2, <2>1 DEF PyEncodesLookupResponse
    <3> QED
      BY <1>2, <1>4, <3>2, <3>3 DEF CReservation
  <2>3. CDecodeLookupResponse(f, g)
    <3>1. /\ NonZero(f, {"REQUEST_ID", "CANONICAL_JOB_ID"})
          /\ Len(m.items) \in 1..MAX_SERVICES /\ Distinct(m.items)
      BY <2>1 DEF PyEncodesLookupResponse
    <3>2. Len(g) <= MAX_SERVICES /\ g # <<>>
      <4> DEFINE n == Len(m.items)
      <4>0. n \in 1..MAX_SERVICES
        BY <3>1
      <4> HIDE DEF n
      <4>1. n # 0 /\ n <= MAX_SERVICES
        BY <4>0 DEF MAX_SERVICES
      <4> USE DEF n
      <4>2. g # <<>>
        BY <1>5, <4>1
      <4>3. Len(g) = Len(m.items)
        BY <1>2
      <4> QED
        BY <4>1, <4>2, <4>3
    <3>3. Distinct(ReadItems(g))
      BY <1>3, <3>1 DEF g
    <3> QED
      BY <2>2, <3>1, <3>2, <3>3 DEF CDecodeLookupResponse
  <2> QED
    BY <1>9, <2>0, <2>3 DEF CChecks, g
<1>10. CASE G = "none"
  <2>1. k \in {"RELEASE_REQUEST", "GET_RESERVATIONS_REQUEST", "ERROR_RESPONSE"}
    BY <1>1, <1>10, GroupKinds
  <2>2. CASE k = "RELEASE_REQUEST"
    BY <1>10, <2>2 DEF CChecks, PyEncodes, PyEncodesReleaseRequest
  <2>3. CASE k = "GET_RESERVATIONS_REQUEST"
    BY <1>10, <2>3 DEF CChecks, PyEncodes, PyEncodesLookupRequest
  <2>4. CASE k = "ERROR_RESPONSE"
    <3>1. PyEncodesError(m)
      BY <1>10, <2>4 DEF PyEncodes
    <3> QED
      BY <1>10, <2>4, <3>1 DEF CChecks, PyEncodesError
  <2> QED
    BY <2>1, <2>2, <2>3, <2>4
<1> QED
  BY <1>1, <1>6, <1>7, <1>8, <1>9, <1>10, GroupKinds

\* What Python writes, C reads back.
LEMMA CReadsBack ==
  ASSUME NEW m, IsMessage(m), PyEncodes(m), Decided(m)
  PROVE  CDecode(PyFrame(m)) = {m}
<1> DEFINE fr == PyFrame(m)
           p == fr.payload
           G == GroupOf(m.kind)
<1>1. fr.header = Header(m.kind, CorrelationId)
  BY DEF PyFrame, FrameOf
<1>2. CHeader(fr.header) /\ fr.header.kind = m.kind /\ m.kind \in MessageType
  BY <1>1 DEF CHeader, Header, CorrelationId, IsMessage
<1>3. PyWritable(m.fields)
  BY DEF PyEncodes
<1>4. /\ Read(Scalars(p, G)) = m.fields
      /\ ReadItems(Groups(p, G)) = m.items
      /\ Groups(p, G) = WrittenItems(G, m.items, PyPuts32)
      /\ CScans(p, G, CNeeds(m.kind), CAllows(m.kind))
  <2>1. /\ Read(Scalars(p, G)) = m.fields /\ ReadItems(Groups(p, G)) = m.items
        /\ Groups(p, G) = WrittenItems(G, m.items, PyPuts32)
    BY <1>3, FramePasses
  <2>2. /\ CNeeds(m.kind) \subseteq DOMAIN m.fields
        /\ DOMAIN m.fields \subseteq CNeeds(m.kind) \cup CAllows(m.kind)
    BY Needed
  <2>3. CScans(p, G, CNeeds(m.kind), CAllows(m.kind))
    BY <1>3, <2>2, FramePasses
  <2> QED
    BY <2>1, <2>3
<1>5. CChecks(m.kind, Read(Scalars(p, G)), Groups(p, G))
  BY <1>4, CChecksPass
<1>6. m = [kind |-> m.kind, fields |-> m.fields, items |-> m.items]
  BY DEF IsMessage
<1> HIDE DEF fr
<1> QED
  BY <1>2, <1>4, <1>5, <1>6 DEF CDecode, CChecks, fr

-----------------------------------------------------------------------------
(* The Python decoder reads back what either side writes.                  *)

\* Python has no decoder for the three fields that only answers carry.
LEMMA PyHasDecoder ==
  ASSUME NEW m, IsMessage(m), m.kind \in PyDecodable
  PROVE  /\ DOMAIN m.fields \cap {"ADMISSION_DECISION", "RESERVATION_STATE",
                                  "GATEWAY_ERROR_CODE"} = {}
         /\ \A i \in DOMAIN m.items :
              DOMAIN m.items[i] \cap {"ADMISSION_DECISION", "RESERVATION_STATE",
                                      "GATEWAY_ERROR_CODE"} = {}
<1> DEFINE k == m.kind
           no == {"ADMISSION_DECISION", "RESERVATION_STATE", "GATEWAY_ERROR_CODE"}
<1>1. /\ k \in MessageType
      /\ DOMAIN m.fields \subseteq Attributes(k)
      /\ \A i \in DOMAIN m.items : DOMAIN m.items[i] \subseteq ItemAttributes(k)
  BY DEF IsMessage, Carries
<1>2. Attributes(k) \cap no = {} /\ ItemAttributes(k) \cap no = {}
  <2>1. k \in {"RESERVE_REQUEST", "RELEASE_REQUEST", "EVALUATE_REQUEST",
               "GET_RESERVATIONS_REQUEST", "GET_RESERVATIONS_RESPONSE"}
    BY DEF PyDecodable, Requests
  <2> HIDE DEF k
  <2>2. CASE k \in {"RESERVE_REQUEST", "EVALUATE_REQUEST"}
    BY <2>2 DEF GroupOf, Attributes, ItemAttributes, Workload, Envelope, Optional
  <2>3. CASE k \in {"RELEASE_REQUEST", "GET_RESERVATIONS_REQUEST",
                    "GET_RESERVATIONS_RESPONSE"}
    BY <2>3 DEF GroupOf, Attributes, ItemAttributes
  <2> QED
    BY <2>1, <2>2, <2>3
<1> QED
  BY <1>1, <1>2

\* What Python writes and reads, it reads back.
LEMMA PyReadsBack ==
  ASSUME NEW m, IsMessage(m), PyEncodes(m), m.kind \in PyDecodable
  PROVE  PyDecode(PyFrame(m)) = {m}
<1> DEFINE fr == PyFrame(m)
           p == fr.payload
           k == m.kind
           G == GroupOf(k)
           f == m.fields
           g == WrittenItems(G, m.items, PyPuts32)
<1>1. fr.header = Header(k, CorrelationId)
  BY DEF PyFrame, FrameOf
<1>2. k \in MessageType
  BY DEF IsMessage
<1>3. PyHeader(fr.header) /\ fr.header.kind = k
  BY <1>1, <1>2 DEF PyHeader, Header, CorrelationId
<1>4. PyWritable(f) /\ \A i \in DOMAIN m.items : PyWritable(m.items[i])
  BY DEF PyEncodes
<1>5. /\ Read(Scalars(p, G)) = f /\ Names(Scalars(p, G)) = DOMAIN f
      /\ ReadItems(Groups(p, G)) = m.items /\ Groups(p, G) = g
      /\ PyCollects(p, G) /\ PyReads(Scalars(p, G))
  <2>1. /\ Read(Scalars(p, G)) = f /\ Names(Scalars(p, G)) = DOMAIN f
        /\ ReadItems(Groups(p, G)) = m.items /\ Groups(p, G) = g
        /\ PyCollects(p, G)
    BY <1>4, FramePasses
  <2>2. PyReads(Scalars(p, G))
    BY <1>4, FramePasses, PyHasDecoder
  <2> QED
    BY <2>1, <2>2
<1>6. DOMAIN m.items = 1..Len(m.items) /\ Len(m.items) \in Nat
      /\ DOMAIN g = DOMAIN m.items /\ Len(g) = Len(m.items)
  <2>1. DOMAIN m.items = 1..Len(m.items) /\ Len(m.items) \in Nat
    BY DEF IsMessage
  <2> QED
    BY <2>1 DEF WrittenItems
<1>7. \A i \in DOMAIN m.items :
        LET w == g[i].value.sub
        IN  /\ Read(Known(w)) = m.items[i] /\ Names(Known(w)) = DOMAIN m.items[i]
            /\ PyCollects(w, "none") /\ PyReads(Known(w))
  <2> TAKE i \in DOMAIN m.items
  <2>1. PyWritable(m.items[i])
    BY <1>4
  <2>2. LET w == g[i].value.sub
        IN  /\ Read(Known(w)) = m.items[i] /\ Names(Known(w)) = DOMAIN m.items[i]
            /\ PyCollects(w, "none")
    BY <2>1, ItemSeen
  <2>3. DOMAIN m.items[i] \cap {"ADMISSION_DECISION", "RESERVATION_STATE",
                                "GATEWAY_ERROR_CODE"} = {}
    BY PyHasDecoder
  <2>4. PyReads(Known(g[i].value.sub))
    BY <2>1, <2>3, ItemSeen
  <2> QED
    BY <2>2, <2>4
<1>8. m = [kind |-> k, fields |-> f, items |-> m.items]
  BY DEF IsMessage
<1>9. /\ CNeeds(k) \subseteq DOMAIN f /\ DOMAIN f \subseteq CNeeds(k) \cup CAllows(k)
      /\ Envelope \subseteq DOMAIN f \/ Workload \cap DOMAIN f = {}
      /\ f = [x \in DOMAIN f |-> f[x]]
  BY Needed DEF IsMessage, Carries
<1> HIDE DEF fr, g
<1>10. CASE k \in {"EVALUATE_REQUEST", "RESERVE_REQUEST"}
  <2>1. G = "SERVICE_REQUEST"
    BY <1>10 DEF GroupOf
  <2>2. "WORKLOAD_KIND" \in DOMAIN f /\ PyValidRequest(f, m.items)
    BY <1>10, <2>1 DEF PyEncodes, PyEncodesAdmissionRequest
  <2>3. Envelope \cap DOMAIN f = Envelope
    BY <1>9, <2>2 DEF Workload, Envelope
  <2>4. \A i \in DOMAIN g : PyServiceRequest(g[i])
    <3> TAKE i \in DOMAIN g
    <3>1. DOMAIN m.items[i] = {"SERVICE_ID"}
      BY <1>6, <2>1, ItemNeeded
    <3> QED
      BY <1>6, <1>7, <3>1 DEF PyServiceRequest
  <2>5. /\ {"REQUEST_ID", "CLUSTER_NAME", "CANONICAL_JOB_ID", "JOB_UID",
            "JOB_GID"} \subseteq DOMAIN f
        /\ DOMAIN f \subseteq {"REQUEST_ID", "CLUSTER_NAME", "CANONICAL_JOB_ID", "JOB_UID",
            "JOB_GID"} \cup Envelope \cup Optional \cup {"HETERO_JOB_ID", "HETERO_COMPONENT"}
    BY <1>9, <1>10, <2>1 DEF CNeeds, CAllows
  <2>6. Envelope # {}
    BY DEF Envelope
  <2>7. PyDecodeAdmissionRequest(fr) = {[kind |-> k, fields |-> f, items |-> m.items]}
    <3> HIDE DEF f
    <3> QED
      BY <1>3, <1>5, <2>1, <2>2, <2>3, <2>4, <2>5, <2>6 DEF PyDecodeAdmissionRequest
  <2> QED
    BY <1>3, <1>8, <1>10, <2>7 DEF PyDecode, fr
<1>11. CASE k = "RELEASE_REQUEST"
  <2>1. G = "none" /\ m.items = <<>>
    BY <1>11 DEF GroupOf, IsMessage, ItemAttributes
  <2>2. NonZero(f, {"REQUEST_ID", "CANONICAL_JOB_ID"})
    BY <1>11, <2>1 DEF PyEncodes, PyEncodesReleaseRequest
  <2>3. DOMAIN f = {"REQUEST_ID", "CLUSTER_NAME", "CANONICAL_JOB_ID", "RELEASE_REASON"}
    BY <1>9, <1>11, <2>1 DEF CNeeds, CAllows
  <2>4. PyDecodeReleaseRequest(fr) = {[kind |-> k, fields |-> f, items |-> <<>>]}
    <3> HIDE DEF f
    <3> QED
      BY <1>3, <1>5, <2>1, <2>2, <2>3 DEF PyDecodeReleaseRequest, Known
  <2> QED
    BY <1>3, <1>8, <1>11, <2>1, <2>4 DEF PyDecode, fr
<1>12. CASE k = "GET_RESERVATIONS_REQUEST"
  <2>1. G = "none" /\ m.items = <<>>
    BY <1>12 DEF GroupOf, IsMessage, ItemAttributes
  <2>2. NonZero(f, {"REQUEST_ID", "OBSERVED_JOB_ID"})
    BY <1>12, <2>1 DEF PyEncodes, PyEncodesLookupRequest
  <2>3. DOMAIN f = {"REQUEST_ID", "CLUSTER_NAME", "OBSERVED_JOB_ID", "JOB_UID", "JOB_GID"}
    BY <1>9, <1>12, <2>1 DEF CNeeds, CAllows
  <2>4. PyDecodeLookupRequest(fr) = {[kind |-> k, fields |-> f, items |-> <<>>]}
    <3> HIDE DEF f
    <3> QED
      BY <1>3, <1>5, <2>1, <2>2, <2>3 DEF PyDecodeLookupRequest, Known
  <2> QED
    BY <1>3, <1>8, <1>12, <2>1, <2>4 DEF PyDecode, fr
<1>13. CASE k = "GET_RESERVATIONS_RESPONSE"
  <2>1. G = "RESERVATION"
    BY <1>13 DEF GroupOf
  <2>2. PyEncodesLookupResponse(m)
    BY <1>13, <2>1 DEF PyEncodes
  <2>3. DOMAIN f = {"REQUEST_ID", "CANONICAL_JOB_ID"}
    BY <1>9, <1>13, <2>1 DEF CNeeds, CAllows
  <2>4. \A i \in DOMAIN g : PyReservation(g[i])
    <3> TAKE i \in DOMAIN g
    <3>1. DOMAIN m.items[i] = {"SERVICE_ID", "RESERVATION_ID"}
      BY <1>6, <1>13, ItemNeeded
    <3>2. m.items[i]["RESERVATION_ID"] # 0
      BY <1>6, <2>2 DEF PyEncodesLookupResponse
    <3> QED
      BY <1>6, <1>7, <3>1, <3>2 DEF PyReservation
  <2>5. /\ NonZero(f, {"REQUEST_ID", "CANONICAL_JOB_ID"})
        /\ Len(m.items) \in 1..MAX_SERVICES /\ Distinct(m.items)
    BY <2>2 DEF PyEncodesLookupResponse
  <2>6. PyDecodeLookupResponse(fr) = {[kind |-> k, fields |-> f, items |-> m.items]}
    <3> HIDE DEF f
    <3> QED
      BY <1>3, <1>5, <2>1, <2>3, <2>4, <2>5 DEF PyDecodeLookupResponse
  <2> QED
    BY <1>3, <1>8, <1>13, <2>6 DEF PyDecode, fr
<1> QED
  BY <1>10, <1>11, <1>12, <1>13 DEF PyDecodable, Requests

\* What C writes, within what Python reads, Python could have written.
LEMMA CWritesLess ==
  ASSUME NEW m, IsMessage(m), CEncodes(m), ~ OnlyC(m)
  PROVE  PyEncodes(m) /\ CFrame(m) = PyFrame(m) /\ m.kind \in PyDecodable
<1> DEFINE k == m.kind
<1>1. k \in MessageType
  BY DEF IsMessage
<1>2. ASSUME NEW f, CHolds(f), CWritable(f),
             \A x \in DOMAIN f \cap Texts : f[x].utf8,
             \A x \in DOMAIN f : f[x] \in IF x \in Texts THEN TextValue ELSE Nat
      PROVE  PyWritable(f)
  <2> SUFFICES ASSUME NEW x \in DOMAIN f
               PROVE  IF x \in Texts
                      THEN f[x].len > 0 /\ f[x].len <= PyTextMax(x) /\ ~ f[x].nul /\ f[x].utf8
                      ELSE f[x] \in 0..((IF x \in PyPuts32 THEN U32 ELSE U64) - 1)
    BY DEF PyWritable
  <2>1. CASE x \in Texts
    <3>1. f[x].len # 0 /\ f[x].len <= PyTextMax(x) /\ ~ f[x].nul /\ f[x].utf8
      BY <1>2, <2>1, SameWidths DEF CHolds, CWritable
    <3>2. f[x].len \in Nat
      BY <1>2, <2>1 DEF TextValue
    <3> QED
      BY <2>1, <3>1, <3>2
  <2>2. CASE x \notin Texts
    <3>1. f[x] \in Nat /\ f[x] < IF x \in PyPuts32 THEN U32 ELSE U64
      BY <1>2, <2>2, SameWidths DEF CHolds
    <3> QED
      BY <2>2, <3>1, WidthAssumption
  <2> QED
    BY <2>1, <2>2
<1>3. PyWritable(m.fields)
  <2>1. \A x \in DOMAIN m.fields \cap Texts : m.fields[x].utf8
    BY DEF OnlyC, AllTexts
  <2>2. \A x \in DOMAIN m.fields : m.fields[x] \in IF x \in Texts THEN TextValue ELSE Nat
    BY DEF IsMessage, Carries
  <2>3. CHolds(m.fields) /\ CWritable(m.fields)
    BY DEF CEncodes
  <2> QED
    BY <1>2, <2>1, <2>2, <2>3
<1>4. \A i \in DOMAIN m.items : PyWritable(m.items[i])
  <2> TAKE i \in DOMAIN m.items
  <2>1. \A x \in DOMAIN m.items[i] \cap Texts : m.items[i][x].utf8
    BY DEF OnlyC, AllTexts
  <2>2. \A x \in DOMAIN m.items[i] : m.items[i][x] \in IF x \in Texts THEN TextValue ELSE Nat
    BY DEF IsMessage, Carries
  <2>3. CHolds(m.items[i]) /\ CWritable(m.items[i])
    BY DEF CEncodes
  <2> QED
    BY <1>2, <2>1, <2>2, <2>3
<1>5. FrameSize(m) <= MAX_FRAME_SIZE
  BY DEF CEncodes
<1>6. CFrame(m) = PyFrame(m)
  BY SameWidths DEF CFrame, PyFrame
<1>7. CASE GroupOf(k) = "SERVICE_REQUEST"
  <2>1. CEncodesAdmissionRequest(m)
    BY <1>1, <1>7, GroupKinds DEF CEncodes
  <2>2. PyEncodesAdmissionRequest(m)
    BY <2>1 DEF CEncodesAdmissionRequest, PyEncodesAdmissionRequest, PyValidRequest, OnlyC
  <2> QED
    BY <1>1, <1>3, <1>4, <1>5, <1>6, <1>7, <2>2, GroupKinds DEF PyEncodes, PyDecodable, Requests
<1>8. CASE GroupOf(k) # "SERVICE_REQUEST"
  <2>1. \/ k = "RELEASE_REQUEST" /\ CEncodesReleaseRequest(m)
        \/ k = "GET_RESERVATIONS_REQUEST" /\ CEncodesLookupRequest(m)
    BY <1>8 DEF CEncodes
  <2>2. k \in PyDecodable
    BY <2>1 DEF PyDecodable, Requests
  <2>3. CASE k = "RELEASE_REQUEST"
    <3>1. GroupOf(k) = "none" /\ PyEncodesReleaseRequest(m)
      BY <2>1, <2>3 DEF GroupOf, CEncodesReleaseRequest, PyEncodesReleaseRequest
    <3> QED
      BY <1>3, <1>4, <1>5, <1>6, <2>2, <2>3, <3>1 DEF PyEncodes
  <2>4. CASE k = "GET_RESERVATIONS_REQUEST"
    <3>1. GroupOf(k) = "none" /\ PyEncodesLookupRequest(m)
      BY <2>1, <2>4 DEF GroupOf, CEncodesLookupRequest, PyEncodesLookupRequest
    <3> QED
      BY <1>3, <1>4, <1>5, <1>6, <2>2, <2>4, <3>1 DEF PyEncodes
  <2> QED
    BY <2>1, <2>3, <2>4
<1> QED
  BY <1>7, <1>8

\* RoundTrip, said of a message.
LEMMA MessageRoundTrip ==
  ASSUME NEW m, IsMessage(m)
  PROVE  /\ PyEncodes(m) /\ Decided(m) =>
              /\ CDecode(PyFrame(m)) = {m}
              /\ m.kind \in PyDecodable => PyDecode(PyFrame(m)) = {m}
         /\ CEncodes(m) /\ ~ OnlyC(m) => PyDecode(CFrame(m)) = {m}
<1>1. ASSUME PyEncodes(m), Decided(m) PROVE CDecode(PyFrame(m)) = {m}
  BY <1>1, CReadsBack
<1>2. ASSUME PyEncodes(m), m.kind \in PyDecodable PROVE PyDecode(PyFrame(m)) = {m}
  BY <1>2, PyReadsBack
<1>3. ASSUME CEncodes(m), ~ OnlyC(m) PROVE PyDecode(CFrame(m)) = {m}
  <2>1. PyEncodes(m) /\ CFrame(m) = PyFrame(m) /\ m.kind \in PyDecodable
    BY <1>3, CWritesLess
  <2> QED
    BY <1>2, <2>1
<1> QED
  BY <1>1, <1>2, <1>3

-----------------------------------------------------------------------------
(* The journal keeps a response whole.                                     *)

\* Keeping every attribute changes nothing.
LEMMA KeepAll ==
  ASSUME NEW f, NEW S, DOMAIN f \subseteq S, f = [x \in DOMAIN f |-> f[x]]
  PROVE  Keep(f, S) = f
<1>1. DOMAIN f \cap S = DOMAIN f
  OBVIOUS
<1> QED
  BY <1>1 DEF Keep

\* The journal gives back every attribute of a response.
LEMMA KeptWhole ==
  ASSUME NEW m, IsMessage(m)
  PROVE  /\ Keep(m.fields, Attributes(m.kind)) = m.fields
         /\ KeepItems(m.items, ItemAttributes(m.kind)) = m.items
<1>1. Keep(m.fields, Attributes(m.kind)) = m.fields
  BY KeepAll DEF IsMessage, Carries
<1>2. \A i \in DOMAIN m.items : Keep(m.items[i], ItemAttributes(m.kind)) = m.items[i]
  <2> TAKE i \in DOMAIN m.items
  <2> DEFINE f == m.items[i]
  <2>1. DOMAIN f \subseteq ItemAttributes(m.kind) /\ f = [x \in DOMAIN f |-> f[x]]
    BY DEF IsMessage, Carries
  <2> HIDE DEF f
  <2>2. Keep(f, ItemAttributes(m.kind)) = f
    BY <2>1, KeepAll
  <2> QED
    BY <2>2 DEF f
<1>3. m.items = [i \in DOMAIN m.items |-> m.items[i]]
  BY DEF IsMessage
<1> DEFINE s == m.items
           K(i) == Keep(s[i], ItemAttributes(m.kind))
<1>4. KeepItems(s, ItemAttributes(m.kind)) = [i \in DOMAIN s |-> K(i)]
  BY DEF KeepItems
<1>5. \A i \in DOMAIN s : K(i) = s[i]
  BY <1>2
<1> HIDE DEF K, s
<1>6. KeepItems(s, ItemAttributes(m.kind)) = s
  BY <1>3, <1>4, <1>5 DEF s
<1> QED
  BY <1>1, <1>6 DEF s

\* A response comes back from the journal as it went in.
LEMMA JournalKeeps ==
  ASSUME NEW m, IsMessage(m), m.kind \in Responses, PyEncodes(m), Decided(m)
  PROVE  response_from_dict(response_to_dict(m)) = {m}
<1> DEFINE k == m.kind
           d == response_to_dict(m)
           A == Attributes(k)
           B == ItemAttributes(k)
<1>1. d.type = k /\ d.fields = m.fields /\ d.items = m.items
  BY DEF response_to_dict
<1>2. m = [kind |-> k, fields |-> m.fields, items |-> m.items]
  BY DEF IsMessage
<1>3. Keep(m.fields, A) = m.fields /\ KeepItems(m.items, B) = m.items
  BY KeptWhole
<1> HIDE DEF d, A, B
<1>4. CASE k \in {"EVALUATE_RESPONSE", "RESERVE_RESPONSE"}
  <2>1. GroupOf(k) = "SERVICE_RESULT"
    BY <1>4 DEF GroupOf
  <2>2. PyEncodesAdmissionResponse(m)
    BY <1>4, <2>1 DEF PyEncodes
  <2>3. {m.fields["ADMISSION_DECISION"]} \cup Decisions(m.items) \subseteq 1..3
    BY <2>1, <2>2 DEF PyEncodesAdmissionResponse, Decided, Accepted, Delayed, Rejected
  <2>4. /\ A = {"REQUEST_ID", "ADMISSION_DECISION"}
        /\ B = {"SERVICE_ID", "ADMISSION_DECISION", "REASON_CODE",
                   "RESERVATION_ID", "RETRY_AFTER_NS", "ESTIMATED_START_NS",
                   "ESTIMATED_FINISH_NS", "QPM_RUNTIME_ID", "QPM_GENERATION",
                   "DIAGNOSTIC"}
    BY <1>4, <2>1 DEF A, B, Attributes, ItemAttributes
  <2>5. response_from_dict(d) =
          {[kind |-> k, fields |-> Keep(m.fields, A), items |-> KeepItems(m.items, B)]}
    BY <1>1, <1>4, <2>3, <2>4 DEF response_from_dict
  <2> QED
    BY <1>2, <1>3, <2>5 DEF d
<1>5. CASE k = "RELEASE_RESPONSE"
  <2>1. PyEncodesReleaseResponse(m)
    BY <1>5 DEF PyEncodes, GroupOf
  <2>2. \A i \in DOMAIN m.items :
              /\ m.items[i]["RESERVATION_STATE"] \in 1..7
              /\ "GATEWAY_ERROR_CODE" \in DOMAIN m.items[i] =>
                   m.items[i]["GATEWAY_ERROR_CODE"] \in 1..11
    BY <2>1 DEF PyEncodesReleaseResponse
  <2>3. /\ A = {"REQUEST_ID"}
        /\ B = {"SERVICE_ID", "RESERVATION_ID", "RESERVATION_STATE", "GATEWAY_ERROR_CODE",
                "DIAGNOSTIC"}
    BY <1>5 DEF A, B, Attributes, ItemAttributes, GroupOf
  <2>4. response_from_dict(d) =
          {[kind |-> k, fields |-> Keep(m.fields, A), items |-> KeepItems(m.items, B)]}
    BY <1>1, <1>5, <2>2, <2>3 DEF response_from_dict
  <2> QED
    BY <1>2, <1>3, <2>4 DEF d
<1>6. CASE k = "GET_RESERVATIONS_RESPONSE"
  <2>1. A = {"REQUEST_ID", "CANONICAL_JOB_ID"} /\ B = {"SERVICE_ID", "RESERVATION_ID"}
    BY <1>6 DEF A, B, Attributes, ItemAttributes, GroupOf
  <2>2. response_from_dict(d) =
          {[kind |-> k, fields |-> Keep(m.fields, A), items |-> KeepItems(m.items, B)]}
    BY <1>1, <1>6, <2>1 DEF response_from_dict
  <2> QED
    BY <1>2, <1>3, <2>2 DEF d
<1>7. CASE k = "ERROR_RESPONSE"
  <2>1. PyEncodesError(m)
    BY <1>7 DEF PyEncodes, GroupOf
  <2>2. A = {"GATEWAY_ERROR_CODE", "REQUEST_ID", "DIAGNOSTIC"} /\ m.items = <<>>
    BY <1>7 DEF A, Attributes, ItemAttributes, GroupOf, IsMessage
  <2>3. response_from_dict(d) = {[kind |-> k, fields |-> Keep(m.fields, A), items |-> <<>>]}
    <3>1. m.fields["GATEWAY_ERROR_CODE"] \in 1..11
      BY <2>1 DEF PyEncodesError
    <3>2. response_from_dict(d) =
            {[kind |-> k, items |-> <<>>, fields |-> Keep(m.fields, A)]}
      BY <1>1, <1>7, <2>2, <3>1 DEF response_from_dict
    <3> QED
      BY <3>2
  <2> QED
    BY <1>2, <1>3, <2>2, <2>3 DEF d
<1> QED
  BY <1>4, <1>5, <1>6, <1>7 DEF Responses

-----------------------------------------------------------------------------
(* Thirty-two items at their longest fit a frame.                          *)

\* A TLV takes at most eleven bytes more than its value.
LEMMA TlvSizes ==
  ASSUME NEW n \in Nat
  PROVE  TlvSize(n) \in Nat /\ TlvSize(n) <= n + 11
  BY DEF TlvSize

\* The places of the texts in FieldOrder.
LEMMA TextPlaces ==
  ASSUME NEW i \in 1..34
  PROVE  /\ FieldOrder[i] \in Texts <=> i \in {2, 19, 27, 30}
         /\ i = 2 => PyTextMax(FieldOrder[i]) = 128
         /\ i \in {19, 27} => PyTextMax(FieldOrder[i]) = 256
         /\ i = 30 => PyTextMax(FieldOrder[i]) = 4096
  BY SMTT(60) DEF FieldOrder, Texts, PyTextMax, MAX_CLUSTER_NAME, MAX_DIAGNOSTIC, MAX_SERVICE_ID

\* The texts of f fit their fields.
Fits(f) == \A x \in DOMAIN f \cap Texts : f[x].len \in Nat /\ f[x].len <= PyTextMax(x)

\* All the fields a message may have, at their longest, take 5280 bytes.
LEMMA FieldsFit ==
  ASSUME NEW f, Fits(f)
  PROVE  FieldsSize(f) \in Nat /\ FieldsSize(f) <= 5280
<1> DEFINE size(x) == IF x \notin DOMAIN f THEN 0
                      ELSE TlvSize(IF x \in Texts THEN f[x].len
                                   ELSE IF x \in PyPuts32 THEN 4 ELSE 8)
           w == [i \in 1..34 |-> size(FieldOrder[i])]
           P == [n \in 0..34 |-> 16 * n + (IF n >= 2 THEN 128 ELSE 0)
                                  + (IF n >= 19 THEN 256 ELSE 0)
                                  + (IF n >= 27 THEN 256 ELSE 0)
                                  + (IF n >= 30 THEN 4096 ELSE 0)]
           room(i) == IF i = 2 THEN 128 ELSE IF i \in {19, 27} THEN 256
                      ELSE IF i = 30 THEN 4096 ELSE 0
<1>1. FieldsSize(f) = Total(w)
  BY FieldsListed DEF FieldsSize
<1>2. ASSUME NEW i \in 1..34
      PROVE  size(FieldOrder[i]) \in Nat /\ size(FieldOrder[i]) <= 16 + room(i)
  <2> DEFINE x == FieldOrder[i]
  <2> HIDE DEF x
  <2>1. CASE x \notin DOMAIN f
    BY <2>1 DEF x
  <2>2. CASE x \in DOMAIN f /\ x \in Texts
    <3>1. f[x].len \in Nat /\ f[x].len <= PyTextMax(x) /\ PyTextMax(x) = room(i)
      BY <2>2, TextPlaces DEF Fits, x
    <3>2. size(x) = TlvSize(f[x].len)
      BY <2>2
    <3> HIDE DEF size
    <3>3. size(x) \in Nat /\ size(x) <= f[x].len + 11
      BY <3>1, <3>2, TlvSizes
    <3> QED
      BY <3>1, <3>3 DEF x
  <2>3. CASE x \in DOMAIN f /\ x \notin Texts
    <3>1. size(x) = TlvSize(IF x \in PyPuts32 THEN 4 ELSE 8)
      BY <2>3
    <3> HIDE DEF size
    <3>2. size(x) \in {12, 16}
      BY <3>1 DEF TlvSize
    <3> QED
      BY <3>2 DEF x
  <2> QED
    BY <2>1, <2>2, <2>3
<1> HIDE DEF size
<1>3. w \in Seq(Nat) /\ Len(w) = 34 /\ \A i \in 1..34 : w[i] = size(FieldOrder[i])
  BY <1>2
<1>4. P \in [0..34 -> Nat] /\ P[34] = 5280
  OBVIOUS
<1>5. \A n \in 1..34 : P[n - 1] + w[n] <= P[n]
  <2> TAKE n \in 1..34
  <2>1. w[n] \in Nat /\ w[n] <= 16 + room(n)
    BY <1>2, <1>3
  <2>2. P[n] = P[n - 1] + 16 + room(n)
    OBVIOUS
  <2>3. P[n - 1] \in Nat /\ room(n) \in Nat
    OBVIOUS
  <2> HIDE DEF P, w, room
  <2> QED
    BY <2>1, <2>2, <2>3
<1> HIDE DEF w, P
<1>6. Total(w) \in Nat /\ Total(w) <= P[Len(w)]
  <2>1. /\ w \in Seq(Nat) /\ P \in [0..Len(w) -> Nat]
        /\ \A n \in 1..Len(w) : P[n - 1] + w[n] <= P[n]
    BY <1>3, <1>4, <1>5
  <2> QED
    BY <2>1, TotalBound
<1> QED
  BY <1>1, <1>3, <1>4, <1>6

\* A message with no more than thirty-two items always fits a frame.
LEMMA MessageFits ==
  ASSUME NEW m, m.items \in Seq({m.items[i] : i \in DOMAIN m.items}),
         Len(m.items) <= MAX_SERVICES,
         Fits(m.fields), \A i \in DOMAIN m.items : Fits(m.items[i])
  PROVE  FrameSize(m) <= MAX_FRAME_SIZE
<1> DEFINE s == m.items
           L == Len(s)
           size(i) == TlvSize(FieldsSize(s[i]))
           w == [i \in 1..L |-> size(i)]
           P == [n \in 0..L |-> 5291 * n]
<1>1. L \in Nat /\ DOMAIN s = 1..L /\ L <= 32
  BY DEF MAX_SERVICES
<1>2. \A i \in 1..L : size(i) \in Nat /\ size(i) <= 5291
  <2> TAKE i \in 1..L
  <2>1. Fits(s[i])
    BY <1>1
  <2> DEFINE f == s[i]
             k == FieldsSize(f)
  <2> HIDE DEF f
  <2>2. k \in Nat /\ k <= 5280
    <3>1. Fits(f)
      BY <2>1 DEF f
    <3> QED
      BY <3>1, FieldsFit
  <2> HIDE DEF k
  <2>3. TlvSize(k) \in Nat /\ TlvSize(k) <= k + 11
    <3>1. k \in Nat
      BY <2>2
    <3>2. \A n \in Nat : TlvSize(n) \in Nat /\ TlvSize(n) <= n + 11
      BY TlvSizes
    <3> QED
      BY <3>1, <3>2
  <2> QED
    BY <2>2, <2>3 DEF f, k
<1>3. FrameSize(m) = HEADER_SIZE + FieldsSize(m.fields) + Total(w)
  BY <1>1 DEF FrameSize
<1>4. FieldsSize(m.fields) \in Nat /\ FieldsSize(m.fields) <= 5280
  BY FieldsFit
<1> HIDE DEF size, s, L
<1>5. w \in Seq(Nat) /\ Len(w) = L
  BY <1>1, <1>2
<1>6. P \in [0..L -> Nat] /\ P[L] = 5291 * L
  BY <1>1
<1>7. \A n \in 1..L : P[n - 1] + w[n] <= P[n]
  <2> TAKE n \in 1..L
  <2>1. w[n] \in Nat /\ w[n] <= 5291 /\ P[n] = 5291 * n /\ P[n - 1] = 5291 * (n - 1)
    BY <1>1, <1>2
  <2> HIDE DEF w, P
  <2> QED
    BY <1>1, <2>1
<1> HIDE DEF w, P
<1>8. Total(w) \in Nat /\ Total(w) <= P[Len(w)]
  <2>1. /\ w \in Seq(Nat) /\ P \in [0..Len(w) -> Nat]
        /\ \A n \in 1..Len(w) : P[n - 1] + w[n] <= P[n]
    BY <1>5, <1>6, <1>7
  <2> QED
    BY <2>1, TotalBound
<1>9. Total(w) <= 169312
  BY <1>1, <1>5, <1>6, <1>8
<1> QED
  BY <1>3, <1>4, <1>8, <1>9 DEF HEADER_SIZE, MAX_FRAME_SIZE

-----------------------------------------------------------------------------
(* Frames that nobody wrote: what any sequence of TLVs reads as.           *)

\* The bytes of a TLV are consistent: a number fits its length, a text has it.
Piece(t) ==
  /\ t.value.len \in Nat /\ t.value.num \in Nat /\ t.value.text \in TextValue
  /\ t.value.len = 4 => t.value.num < U32
  /\ t.value.len = 8 => t.value.num < U64
  /\ t.field \in Texts => t.value.text.len = t.value.len

Utf8(f) == \A x \in DOMAIN f \cap Texts : f[x].utf8

\* The value of a field that occurs once.
LEMMA ReadAt ==
  ASSUME NEW s, \A i, j \in DOMAIN s : s[i].field = s[j].field => i = j,
         NEW i \in DOMAIN s
  PROVE  /\ s[i].field \in DOMAIN Read(s)
         /\ Read(s)[s[i].field] = IF s[i].field \in Texts THEN s[i].value.text
                                  ELSE s[i].value.num
<1> DEFINE x == s[i].field
           t == CHOOSE j \in DOMAIN s : s[j].field = x
<1>1. t \in DOMAIN s /\ s[t].field = x
  OBVIOUS
<1>2. t = i
  BY <1>1
<1>3. x \in Names(s)
  BY DEF Names
<1> HIDE DEF x
<1> QED
  <2>1. Read(s)[x] = IF x \in Texts THEN s[t].value.text ELSE s[t].value.num
    BY <1>3 DEF Read
  <2> HIDE DEF t
  <2> QED
    BY <1>2, <1>3, <2>1 DEF Read, x

\* The domain of what is read, and a place for each of its fields.
LEMMA ReadFrom ==
  ASSUME NEW s
  PROVE  /\ DOMAIN Read(s) = Names(s)
         /\ \A x \in DOMAIN Read(s) : \E i \in DOMAIN s : s[i].field = x
         /\ Read(s) = [x \in DOMAIN Read(s) |-> Read(s)[x]]
<1>1. DOMAIN Read(s) = Names(s)
  BY DEF Read
<1>2. Read(s) = [x \in DOMAIN Read(s) |-> Read(s)[x]]
  BY DEF Read
<1> QED
  BY <1>1, <1>2 DEF Names

\* The readers of single fields agree, but for text that is not UTF-8.
LEMMA ReadsAgree ==
  ASSUME NEW s, \A i, j \in DOMAIN s : s[i].field = s[j].field => i = j,
         \A i \in DOMAIN s : Piece(s[i]),
         Names(s) \cap {"ADMISSION_DECISION", "RESERVATION_STATE",
                        "GATEWAY_ERROR_CODE"} = {}
  PROVE  PyReads(s) <=> CReads(s) /\ Utf8(Read(s))
<1>1. ASSUME NEW i \in DOMAIN s
      PROVE  /\ s[i].field \in PyTakes32 <=> s[i].field \in CTakes32
             /\ s[i].value.len \in Nat
             /\ s[i].field \in Texts => Read(s)[s[i].field] = s[i].value.text
             /\ s[i].field \in DOMAIN Read(s)
  <2>1. s[i].field \in Names(s)
    BY DEF Names
  <2>2. s[i].field \in PyTakes32 <=> s[i].field \in CTakes32
    BY <2>1 DEF PyTakes32, CTakes32
  <2>3. s[i].value.len \in Nat
    BY DEF Piece
  <2>4. /\ s[i].field \in Texts => Read(s)[s[i].field] = s[i].value.text
        /\ s[i].field \in DOMAIN Read(s)
    BY ReadAt
  <2> QED
    BY <2>2, <2>3, <2>4
<1>2. ASSUME PyReads(s) PROVE CReads(s) /\ Utf8(Read(s))
  <2>1. CReads(s)
    BY <1>1, <1>2, SameWidths DEF PyReads, CReads
  <2>2. ASSUME NEW x \in DOMAIN Read(s) \cap Texts PROVE Read(s)[x].utf8
    <3>1. PICK i \in DOMAIN s : s[i].field = x
      BY ReadFrom
    <3>2. s[i].value.text.utf8
      BY <1>2, <3>1 DEF PyReads
    <3> QED
      BY <1>1, <3>1, <3>2
  <2> QED
    BY <2>1, <2>2 DEF Utf8
<1>3. ASSUME CReads(s), Utf8(Read(s)) PROVE PyReads(s)
  <2>1. \A i \in DOMAIN s : s[i].field \in Texts => s[i].value.text.utf8
    BY <1>1, <1>3 DEF Utf8
  <2> QED
    BY <1>1, <1>3, <2>1, SameWidths DEF PyReads, CReads
<1> QED
  BY <1>2, <1>3

\* What C has read, an encoder can write.
LEMMA ReadWell ==
  ASSUME NEW s, \A i, j \in DOMAIN s : s[i].field = s[j].field => i = j,
         \A i \in DOMAIN s : Piece(s[i]), CReads(s)
  PROVE  /\ CHolds(Read(s)) /\ CWritable(Read(s)) /\ Valued(Read(s)) /\ Fits(Read(s))
         /\ Utf8(Read(s)) => PyWritable(Read(s))
<1> DEFINE f == Read(s)
<1>1. ASSUME NEW x \in DOMAIN f
      PROVE  IF x \in Texts
             THEN /\ f[x] \in TextValue /\ f[x].len \in Nat
                  /\ f[x].len # 0 /\ f[x].len <= PyTextMax(x) /\ ~ f[x].nul
             ELSE f[x] \in Nat /\ f[x] < IF x \in PyPuts32 THEN U32 ELSE U64
  <2>1. PICK i \in DOMAIN s : s[i].field = x
    BY ReadFrom
  <2>2. f[x] = IF x \in Texts THEN s[i].value.text ELSE s[i].value.num
    BY <2>1, ReadAt
  <2>3. Piece(s[i])
    OBVIOUS
  <2> HIDE DEF f
  <2>4. CASE x \in Texts
    <3>1. s[i].value.len # 0 /\ s[i].value.len < PyTextMax(x) + 1 /\ ~ s[i].value.text.nul
      BY <2>1, <2>4, SameWidths DEF CReads
    <3>2. s[i].value.text \in TextValue /\ s[i].value.text.len = s[i].value.len
          /\ s[i].value.len \in Nat
      BY <2>1, <2>3, <2>4 DEF Piece
    <3>3. PyTextMax(x) \in Nat
      BY SameWidths
    <3> QED
      BY <2>2, <2>4, <3>1, <3>2, <3>3
  <2>5. CASE x \notin Texts
    <3>1. s[i].value.len = IF x \in PyPuts32 THEN 4 ELSE 8
      BY <2>1, <2>5, SameWidths DEF CReads
    <3> QED
      BY <2>2, <2>3, <2>5, <3>1 DEF Piece
  <2> QED
    BY <2>4, <2>5
<1> HIDE DEF f
<1>2. CHolds(f)
  BY <1>1, SameWidths DEF CHolds
<1>3. CWritable(f)
  BY <1>1, SameWidths DEF CWritable
<1>4. Valued(f)
  BY <1>1 DEF Valued
<1>5. Fits(f)
  BY <1>1 DEF Fits
<1>6. ASSUME Utf8(f) PROVE PyWritable(f)
  <2> SUFFICES ASSUME NEW x \in DOMAIN f
               PROVE  IF x \in Texts
                      THEN f[x].len > 0 /\ f[x].len <= PyTextMax(x) /\ ~ f[x].nul /\ f[x].utf8
                      ELSE f[x] \in 0..((IF x \in PyPuts32 THEN U32 ELSE U64) - 1)
    BY DEF PyWritable
  <2>1. x \in Texts => f[x].utf8
    BY <1>6 DEF Utf8
  <2>2. CASE x \in Texts
    BY <1>1, <2>1, <2>2
  <2>3. CASE x \notin Texts
    BY <1>1, <2>3, WidthAssumption
  <2> QED
    BY <2>2, <2>3
<1> QED
  BY <1>2, <1>3, <1>4, <1>5, <1>6 DEF f

\* Nothing is chosen from nowhere.
LEMMA ChosenNone ==
  ASSUME NEW X, NEW s \in Seq(X)
  PROVE  Chosen(s, {}) = <<>>
<1> DEFINE c == Chosen(s, {})
<1>1. c \in Seq(X) /\ \E e : Picks(e, c, s, {})
  BY ChosenPlaces, Zenon
<1> HIDE DEF c
<1>2. Len(c) = 0
  <2>1. \A k \in 1..Len(c) : FALSE
    BY <1>1 DEF Picks
  <2> QED
    BY <1>1, <2>1
<1>3. c = <<>>
  BY <1>1, <1>2
<1> QED
  BY <1>3 DEF c

\* The TLVs of a frame: those of an item hold no others.
TlvsOf(Subs) ==
  [field: Field \cup {"unknown"}, required: BOOLEAN,
   form: {"whole", "flags", "padding", "cut"},
   value: [len: Nat, num: Nat, text: TextValue, sub: Subs]]
Inner == {t \in TlvsOf({<<>>}) : Piece(t)}
Outer == {t \in TlvsOf(Seq(Inner)) : Piece(t)}

Frames ==
  [header: [magic: BOOLEAN, major: Nat, minor: Nat, kind: MessageType \cup {"unknown"},
            clean: BOOLEAN, correlation: Nat, fits: BOOLEAN],
   payload: Seq(Outer)]

\* What the decoders find in a payload.
LEMMA Found ==
  ASSUME NEW T, NEW p \in Seq(T), NEW G,
         \A t \in T : Piece(t) /\ t.field \in Field \cup {"unknown"}
  PROVE  LET s == Scalars(p, G)
             g == Groups(p, G)
         IN  /\ \A i \in DOMAIN s : Piece(s[i]) /\ s[i].field \in Field
             /\ g \in Seq(T) /\ Len(ReadItems(g)) = Len(g)
             /\ DOMAIN g = 1..Len(g) /\ DOMAIN ReadItems(g) = DOMAIN g
             /\ ReadItems(g) = [i \in 1..Len(ReadItems(g)) |-> ReadItems(g)[i]]
             /\ G = "none" => g = <<>> /\ ReadItems(g) = <<>>
<1> DEFINE s == Scalars(p, G)
           g == Groups(p, G)
           I == {i \in DOMAIN p : p[i].field = G}
<1>1. \A i \in DOMAIN s : i \in DOMAIN p /\ s[i] = p[i] /\ p[i].field # "unknown"
  BY DEF Scalars
<1>2. \A i \in DOMAIN p : p[i] \in T
  OBVIOUS
<1>3. \A i \in DOMAIN s : Piece(s[i]) /\ s[i].field \in Field
  BY <1>1, <1>2
<1>4. g = Chosen(p, I)
  BY DEF Groups
<1>5. g \in Seq(T)
  <2> HIDE DEF I, g
  <2> QED
    BY <1>4, ChosenPlaces
<1>6. ASSUME G = "none" PROVE g = <<>>
  <2>1. I = {}
    <3>1. \A i \in DOMAIN p : p[i].field # "none"
      BY <1>2, FieldSet
    <3> QED
      BY <1>6, <3>1
  <2> HIDE DEF I, g
  <2> QED
    BY <1>4, <2>1, ChosenNone
<1> HIDE DEF s, g
<1>7. DOMAIN g = 1..Len(g) /\ Len(g) \in Nat
  BY <1>5
<1> DEFINE R(i) == Read(Known(g[i].value.sub))
<1>8. ReadItems(g) = [i \in 1..Len(g) |-> R(i)]
  BY <1>7 DEF ReadItems
<1> HIDE DEF R
<1>9. Len(ReadItems(g)) = Len(g) /\ DOMAIN ReadItems(g) = DOMAIN g
      /\ ReadItems(g) = [i \in 1..Len(ReadItems(g)) |-> ReadItems(g)[i]]
  BY <1>7, <1>8
<1>10. g = <<>> => ReadItems(g) = <<>>
  BY <1>7, <1>8
<1> QED
  BY <1>3, <1>5, <1>6, <1>7, <1>9, <1>10 DEF s, g

-----------------------------------------------------------------------------
(* The two decoders on such a frame.                                       *)

\* The shape of the TLVs that may be on the wire, nested ones included.
LEMMA TlvTypes ==
  /\ Inner \subseteq Outer
  /\ \A t \in Outer : /\ Piece(t) /\ t.field \in Field \cup {"unknown"}
                      /\ t.value.sub \in Seq(Inner)
  /\ \A t \in Inner : Piece(t) /\ t.field \in Field \cup {"unknown"}
<1>1. \A t \in Outer : /\ Piece(t) /\ t.field \in Field \cup {"unknown"}
                       /\ t.value.sub \in Seq(Inner)
  BY DEF Outer, TlvsOf
<1>2. \A t \in Inner : Piece(t) /\ t.field \in Field \cup {"unknown"}
  BY DEF Inner, TlvsOf
<1>3. Inner \subseteq Outer
  <2>1. {<<>>} \subseteq Seq(Inner)
    OBVIOUS
  <2>2. TlvsOf({<<>>}) \subseteq TlvsOf(Seq(Inner))
    BY <2>1 DEF TlvsOf
  <2> QED
    BY <2>2 DEF Inner, Outer
<1> QED
  BY <1>1, <1>2, <1>3

\* The readers of items agree, but for text that is not UTF-8.
LEMMA ItemsAgree ==
  ASSUME NEW t \in Outer
  PROVE  LET f == Read(Known(t.value.sub))
         IN  /\ PyServiceRequest(t) <=> CServiceRequest(t) /\ Utf8(f)
             /\ PyReservation(t) <=> CReservation(t) /\ Utf8(f)
<1> DEFINE w == t.value.sub
           s == Known(w)
           no == {"ADMISSION_DECISION", "RESERVATION_STATE", "GATEWAY_ERROR_CODE"}
<1>1. w \in Seq(Inner)
  BY TlvTypes
<1>2. \A i \in DOMAIN s : Piece(s[i])
  <2> HIDE DEF w
  <2> QED
    BY <1>1, TlvTypes, Found DEF Known
<1>3. /\ PyCollects(w, "none") <=> CCollects(w, "none")
      /\ CCollects(w, "none") => \A i, j \in DOMAIN s : s[i].field = s[j].field => i = j
  BY DEF PyCollects, CCollects, Known
<1>4. ASSUME CCollects(w, "none"), Names(s) \cap no = {}
      PROVE  PyReads(s) <=> CReads(s) /\ Utf8(Read(s))
  <2>1. \A i, j \in DOMAIN s : s[i].field = s[j].field => i = j
    BY <1>3, <1>4
  <2> HIDE DEF s
  <2> QED
    BY <1>2, <1>4, <2>1, ReadsAgree
<1>5. Names(s) = {"SERVICE_ID"} \/ Names(s) = {"SERVICE_ID", "RESERVATION_ID"} =>
        Names(s) \cap no = {}
  OBVIOUS
<1>6. s = Scalars(w, "none")
  BY DEF Known
<1> HIDE DEF s, no
<1>7. CServiceRequest(t) <=>
        CCollects(w, "none") /\ Names(s) = {"SERVICE_ID"} /\ CReads(s)
  <2>1. CServiceRequest(t) <=>
          /\ CCollects(w, "none") /\ Names(s) \subseteq {"SERVICE_ID"} \cup {}
          /\ CReads(s) /\ {"SERVICE_ID"} \subseteq Names(s)
    BY <1>6 DEF CServiceRequest, CScans
  <2> QED
    BY <2>1
<1>8. CReservation(t) <=>
        /\ CCollects(w, "none") /\ Names(s) = {"SERVICE_ID", "RESERVATION_ID"}
        /\ CReads(s) /\ Read(s)["RESERVATION_ID"] # 0
  <2>1. CReservation(t) <=>
          /\ CCollects(w, "none")
          /\ Names(s) \subseteq {"SERVICE_ID", "RESERVATION_ID"} \cup {}
          /\ CReads(s) /\ {"SERVICE_ID", "RESERVATION_ID"} \subseteq Names(s)
          /\ Read(s)["RESERVATION_ID"] # 0
    BY <1>6 DEF CReservation, CScans, s
  <2> QED
    BY <2>1
<1>9. PyServiceRequest(t) <=>
        PyCollects(w, "none") /\ Names(s) = {"SERVICE_ID"} /\ PyReads(s)
  BY DEF PyServiceRequest, s
<1>10. PyReservation(t) <=>
        /\ PyCollects(w, "none") /\ Names(s) = {"SERVICE_ID", "RESERVATION_ID"}
        /\ PyReads(s) /\ Read(s)["RESERVATION_ID"] # 0
  BY DEF PyReservation, s
<1>11. PyServiceRequest(t) <=> CServiceRequest(t) /\ Utf8(Read(s))
  BY <1>3, <1>4, <1>5, <1>7, <1>9
<1>12. PyReservation(t) <=> CReservation(t) /\ Utf8(Read(s))
  BY <1>3, <1>4, <1>5, <1>8, <1>10
<1> QED
  BY <1>11, <1>12 DEF s

\* What makes a message OnlyC.
LEMMA OnlyCMeans ==
  ASSUME NEW m
  PROVE  ~ OnlyC(m) <=>
           /\ Utf8(m.fields) /\ \A i \in DOMAIN m.items : Utf8(m.items[i])
           /\ "HETERO_JOB_ID" \in DOMAIN m.fields => m.fields["HETERO_JOB_ID"] # 0
<1>1. (\A t \in AllTexts(m) : t.utf8) <=>
        Utf8(m.fields) /\ \A i \in DOMAIN m.items : Utf8(m.items[i])
  <2>1. ASSUME \A t \in AllTexts(m) : t.utf8
        PROVE  Utf8(m.fields) /\ \A i \in DOMAIN m.items : Utf8(m.items[i])
    BY <2>1 DEF AllTexts, Utf8
  <2>2. ASSUME Utf8(m.fields), \A i \in DOMAIN m.items : Utf8(m.items[i]),
               NEW t \in AllTexts(m)
        PROVE  t.utf8
    BY <2>2 DEF AllTexts, Utf8
  <2> QED
    BY <2>1, <2>2
<1> QED
  BY <1>1 DEF OnlyC

\* What CDecode returns.
CMessage(fr) ==
  LET G == GroupOf(fr.header.kind)
  IN  [kind |-> fr.header.kind, fields |-> Read(Scalars(fr.payload, G)),
       items |-> ReadItems(Groups(fr.payload, G))]
CTakes(fr) ==
  LET k == fr.header.kind
      G == GroupOf(k)
  IN  /\ CHeader(fr.header) /\ k \in MessageType
      /\ CScans(fr.payload, G, CNeeds(k), CAllows(k))
      /\ CChecks(k, Read(Scalars(fr.payload, G)), Groups(fr.payload, G))

\* The C decoder as a condition and the message it builds.
LEMMA CDecodes ==
  ASSUME NEW fr
  PROVE  CDecode(fr) = IF CTakes(fr) THEN {CMessage(fr)} ELSE {}
  BY DEF CDecode, CTakes, CMessage, CChecks

\* On every frame, the decoders agree.
LEMMA FrameAgree ==
  ASSUME NEW fr \in Frames, fr.header.kind \in PyDecodable
  PROVE  PyDecode(fr) = {m \in CDecode(fr) : ~ OnlyC(m)}
<1> DEFINE h == fr.header
           p == fr.payload
           k == h.kind
           G == GroupOf(k)
           s == Scalars(p, G)
           g == Groups(p, G)
           f == Read(s)
           items == ReadItems(g)
           no == {"ADMISSION_DECISION", "RESERVATION_STATE", "GATEWAY_ERROR_CODE"}
<1>1. h.minor \in Nat /\ p \in Seq(Outer) /\ k \in MessageType
  BY DEF Frames, PyDecodable, MessageType, Responses, Requests
<1>2. PyHeader(h) <=> CHeader(h)
  BY <1>1 DEF PyHeader, CHeader
<1>3. /\ \A i \in DOMAIN s : Piece(s[i]) /\ s[i].field \in Field
      /\ g \in Seq(Outer) /\ Len(items) = Len(g)
      /\ DOMAIN g = 1..Len(g) /\ DOMAIN items = DOMAIN g
      /\ G = "none" => g = <<>> /\ items = <<>>
  <2>1. \A t \in Outer : Piece(t) /\ t.field \in Field \cup {"unknown"}
    BY TlvTypes
  <2> HIDE DEF p, G
  <2> QED
    BY <1>1, <2>1, Found
<1>4. /\ PyCollects(p, G) <=> CCollects(p, G)
      /\ CCollects(p, G) => \A i, j \in DOMAIN s : s[i].field = s[j].field => i = j
  BY DEF PyCollects, CCollects
<1>5. DOMAIN f = Names(s)
  BY ReadFrom
<1>6. \A i \in DOMAIN g : g[i] \in Outer /\ items[i] = Read(Known(g[i].value.sub))
  BY <1>3 DEF ReadItems
<1> HIDE DEF s, g
<1>15. Len(items) \in 1..MAX_SERVICES <=> Len(g) <= MAX_SERVICES /\ g # <<>>
  <2> DEFINE n == Len(g)
  <2>1. n \in Nat /\ (g = <<>> <=> n = 0) /\ Len(items) = n
    BY <1>3
  <2> HIDE DEF n, items
  <2>2. n \in 1..MAX_SERVICES <=> n <= MAX_SERVICES /\ n # 0
    BY <2>1 DEF MAX_SERVICES
  <2> QED
    BY <2>1, <2>2 DEF n
<1>7. ASSUME CCollects(p, G), Names(s) \cap no = {}
      PROVE  PyReads(s) <=> CReads(s) /\ Utf8(f)
  <2>1. \A i, j \in DOMAIN s : s[i].field = s[j].field => i = j
    BY <1>4, <1>7
  <2> QED
    BY <1>3, <1>7, <2>1, ReadsAgree
<1>8. \A i \in DOMAIN g : /\ PyServiceRequest(g[i]) <=> CServiceRequest(g[i]) /\ Utf8(items[i])
                          /\ PyReservation(g[i]) <=> CReservation(g[i]) /\ Utf8(items[i])
  <2> TAKE i \in DOMAIN g
  <2> DEFINE t == g[i]
  <2>1. t \in Outer /\ items[i] = Read(Known(t.value.sub))
    BY <1>6
  <2> HIDE DEF t, items
  <2>2. /\ PyServiceRequest(t) <=> CServiceRequest(t) /\ Utf8(items[i])
        /\ PyReservation(t) <=> CReservation(t) /\ Utf8(items[i])
    BY <2>1, ItemsAgree
  <2> QED
    BY <2>2 DEF t
<1> DEFINE m == CMessage(fr)
<1>9. m.fields = f /\ m.items = items /\ m = [kind |-> k, fields |-> f, items |-> items]
  BY DEF CMessage, s, g
<1>10. ~ OnlyC(m) <=> /\ Utf8(f) /\ \A i \in DOMAIN g : Utf8(items[i])
                      /\ "HETERO_JOB_ID" \in DOMAIN f => f["HETERO_JOB_ID"] # 0
  <2> HIDE DEF f, items, m
  <2>1. ~ OnlyC(m) <=>
           /\ Utf8(m.fields) /\ \A i \in DOMAIN m.items : Utf8(m.items[i])
           /\ "HETERO_JOB_ID" \in DOMAIN m.fields => m.fields["HETERO_JOB_ID"] # 0
    BY OnlyCMeans
  <2> QED
    BY <1>3, <1>9, <2>1
<1>11. CTakes(fr) <=> /\ CHeader(h) /\ CScans(p, G, CNeeds(k), CAllows(k))
                      /\ CChecks(k, f, g)
  BY <1>1 DEF CTakes, s, g
<1>12. CScans(p, G, CNeeds(k), CAllows(k)) <=>
        /\ CCollects(p, G) /\ CReads(s) /\ CNeeds(k) \subseteq DOMAIN f
        /\ DOMAIN f \subseteq CNeeds(k) \cup CAllows(k)
  BY <1>5 DEF CScans, s
<1> HIDE DEF f, items
<1> SUFFICES PyDecode(fr) = IF CTakes(fr) /\ ~ OnlyC(m) THEN {m} ELSE {}
  <2>1. CDecode(fr) = IF CTakes(fr) THEN {m} ELSE {}
    BY CDecodes
  <2> HIDE DEF m
  <2> QED
    BY <2>1
<1> HIDE DEF m
<1>13. CASE ~ PyHeader(h)
  BY <1>2, <1>11, <1>13 DEF PyDecode
<1>14. CASE PyHeader(h)
  <2>1. CASE k \in {"EVALUATE_REQUEST", "RESERVE_REQUEST"}
    <3>1. G = "SERVICE_REQUEST"
      BY <2>1 DEF GroupOf
    <3> DEFINE needed  == {"REQUEST_ID", "CLUSTER_NAME", "CANONICAL_JOB_ID", "JOB_UID",
                           "JOB_GID"}
               rest == Envelope \cup Optional \cup {"HETERO_JOB_ID", "HETERO_COMPONENT"}
               PyTake == /\ PyCollects(p, "SERVICE_REQUEST")
                         /\ DOMAIN f \subseteq needed \cup rest
                         /\ \A i \in DOMAIN g : PyServiceRequest(g[i])
                         /\ Envelope \cap DOMAIN f \in {{}, Envelope}
                         /\ Envelope \cap DOMAIN f = {} => Optional \cap DOMAIN f = {}
                         /\ needed \subseteq DOMAIN f
                         /\ PyReads(s)
                         /\ PyValidRequest(f, items)
                         /\ Envelope \cap DOMAIN f = Envelope
    <3>2. PyDecodeAdmissionRequest(fr) =
            IF PyTake THEN {[kind |-> k, fields |-> f, items |-> items]} ELSE {}
      <4>1. s = Scalars(p, "SERVICE_REQUEST") /\ g = Groups(p, "SERVICE_REQUEST")
            /\ f = Read(s) /\ items = ReadItems(g)
        BY <3>1 DEF s, g, f, items
      <4>2. needed \cup rest = needed \cup Envelope \cup Optional
                   \cup {"HETERO_JOB_ID", "HETERO_COMPONENT"}
        OBVIOUS
      <4> HIDE DEF rest
      <4> QED
        BY <4>1, <4>2 DEF PyDecodeAdmissionRequest
    <3>3. CNeeds(k) = needed /\ CAllows(k) = rest
      BY <2>1, <3>1 DEF CNeeds, CAllows
    <3>4. (needed \cup rest) \cap no = {}
      BY DEF Envelope, Optional
    <3>5. CChecks(k, f, g) <=> CDecodeAdmissionRequest(f, g)
      BY <2>1, <3>1 DEF CChecks
    <3> HIDE DEF needed, rest, no
    <3>6. ASSUME DOMAIN f \subseteq needed \cup rest, CCollects(p, G)
          PROVE  PyReads(s) <=> CReads(s) /\ Utf8(f)
      <4>1. Names(s) \cap no = {}
        BY <1>5, <3>4, <3>6 DEF f
      <4> QED
        BY <1>7, <3>6, <4>1
    <3>7. "WORKLOAD_KIND" \in Envelope
      BY DEF Envelope
    <3>8. ASSUME Envelope \subseteq DOMAIN f
          PROVE  /\ PyValidRequest(f, items) <=>
                      /\ NonZero(f, {"REQUEST_ID", "CANONICAL_JOB_ID"})
                      /\ Len(g) <= MAX_SERVICES /\ g # <<>>
                      /\ Distinct(items)
                      /\ ("HETERO_JOB_ID" \in DOMAIN f) = ("HETERO_COMPONENT" \in DOMAIN f)
                      /\ "HETERO_JOB_ID" \in DOMAIN f => f["HETERO_JOB_ID"] # 0
                      /\ f["WORKLOAD_KIND"] \in 1..2 /\ NonZero(f, Envelope)
                 /\ "WORKLOAD_KIND" \in DOMAIN f
      <4>2. \A n : n \in {1, 2} <=> n \in 1..2
        OBVIOUS
      <4>3. "WORKLOAD_KIND" \in DOMAIN f
        BY <3>7, <3>8
      <4> QED
        BY <1>15, <4>2, <4>3, Zenon DEF PyValidRequest
    <3>9. PyTake <=> CTakes(fr) /\ ~ OnlyC(m)
      <4>1. ASSUME PyTake PROVE CTakes(fr) /\ ~ OnlyC(m)
        <5>1. CScans(p, G, CNeeds(k), CAllows(k)) /\ Utf8(f)
          BY <1>4, <1>12, <3>1, <3>3, <3>6, <4>1
        <5>2. Envelope \subseteq DOMAIN f
          BY <4>1
        <5>3. \A i \in DOMAIN g : CServiceRequest(g[i]) /\ Utf8(items[i])
          BY <1>8, <4>1
        <5>4. Distinct(ReadItems(g)) <=> Distinct(items)
          BY DEF items
        <5>5. CDecodeAdmissionRequest(f, g)
          <6>1. Envelope \cap DOMAIN f \in {{}, Envelope}
            BY <4>1
          <6> QED
            BY <3>8, <4>1, <5>2, <5>3, <5>4, <6>1 DEF CDecodeAdmissionRequest
        <5>6. ~ OnlyC(m)
          BY <1>10, <3>8, <4>1, <5>1, <5>2, <5>3
        <5> QED
          BY <1>2, <1>11, <1>14, <3>5, <5>1, <5>5, <5>6
      <4>2. ASSUME CTakes(fr), ~ OnlyC(m) PROVE PyTake
        <5>1. CDecodeAdmissionRequest(f, g)
          BY <1>11, <3>5, <4>2
        <5>2. /\ CCollects(p, G) /\ CReads(s) /\ needed \subseteq DOMAIN f
              /\ DOMAIN f \subseteq needed \cup rest
          BY <1>11, <1>12, <3>3, <4>2
        <5>3. PyReads(s)
          BY <1>10, <3>6, <4>2, <5>2
        <5>4. Envelope \cap DOMAIN f = Envelope
          <6>1. /\ Envelope \cap DOMAIN f \in {{}, Envelope}
                /\ "WORKLOAD_KIND" \in DOMAIN f
            BY <5>1 DEF CDecodeAdmissionRequest
          <6> QED
            BY <3>7, <6>1
        <5>5. \A i \in DOMAIN g : PyServiceRequest(g[i])
          BY <1>8, <1>10, <4>2, <5>1 DEF CDecodeAdmissionRequest
        <5>6. PyValidRequest(f, items)
          <6>1. Distinct(ReadItems(g)) <=> Distinct(items)
            BY DEF items
          <6>2. Envelope \subseteq DOMAIN f
            BY <5>4
          <6> QED
            BY <1>10, <3>8, <4>2, <5>1, <6>1, <6>2 DEF CDecodeAdmissionRequest
        <5>7. PyCollects(p, "SERVICE_REQUEST") /\ Envelope # {}
          BY <1>4, <3>1, <3>7, <5>2
        <5> QED
          BY <5>2, <5>3, <5>4, <5>5, <5>6, <5>7
      <4> QED
        BY <4>1, <4>2
    <3> HIDE DEF PyTake
    <3>10. PyDecode(fr) = PyDecodeAdmissionRequest(fr)
      BY <1>14, <2>1 DEF PyDecode
    <3> QED
      BY <1>9, <3>2, <3>9, <3>10
  <2>2. CASE k = "RELEASE_REQUEST"
    <3>1. G = "none" /\ CAllows(k) = {}
          /\ CNeeds(k) = {"REQUEST_ID", "CLUSTER_NAME", "CANONICAL_JOB_ID", "RELEASE_REASON"}
      BY <2>2 DEF GroupOf, CNeeds, CAllows
    <3> DEFINE PyTake == /\ PyCollects(p, "none")
                         /\ DOMAIN f = CNeeds(k)
                         /\ PyReads(s)
                         /\ NonZero(f, {"REQUEST_ID", "CANONICAL_JOB_ID"})
    <3>2. PyDecode(fr) = IF PyTake THEN {[kind |-> k, fields |-> f, items |-> <<>>]} ELSE {}
      <4>1. f = Read(Known(p)) /\ s = Known(p)
        BY <3>1 DEF f, s, Known
      <4>2. PyDecode(fr) = PyDecodeReleaseRequest(fr)
        BY <1>14, <2>2 DEF PyDecode
      <4> QED
        BY <3>1, <4>1, <4>2 DEF PyDecodeReleaseRequest
    <3>3. DOMAIN f = CNeeds(k) => Names(s) \cap no = {} /\ "HETERO_JOB_ID" \notin DOMAIN f
      BY <1>5, <3>1 DEF f
    <3>4. CChecks(k, f, g) <=> NonZero(f, {"REQUEST_ID", "CANONICAL_JOB_ID"})
      BY <2>2, <3>1 DEF CChecks
    <3>5. CNeeds(k) \subseteq DOMAIN f /\ DOMAIN f \subseteq CNeeds(k) \cup CAllows(k)
            <=> DOMAIN f = CNeeds(k)
      BY <3>1
    <3>6. \A i \in DOMAIN g : FALSE
      BY <1>3, <3>1
    <3> HIDE DEF no
    <3>7. PyTake <=> CTakes(fr) /\ ~ OnlyC(m)
      BY <1>2, <1>4, <1>7, <1>10, <1>11, <1>12, <1>14, <3>1, <3>3, <3>4, <3>5, <3>6
    <3> HIDE DEF PyTake
    <3> QED
      BY <1>3, <1>9, <3>1, <3>2, <3>7
  <2>3. CASE k = "GET_RESERVATIONS_REQUEST"
    <3>1. G = "none" /\ CAllows(k) = {}
          /\ CNeeds(k) = {"REQUEST_ID", "CLUSTER_NAME", "OBSERVED_JOB_ID", "JOB_UID", "JOB_GID"}
      BY <2>3 DEF GroupOf, CNeeds, CAllows
    <3> DEFINE PyTake == /\ PyCollects(p, "none")
                         /\ DOMAIN f = CNeeds(k)
                         /\ PyReads(s)
                         /\ NonZero(f, {"REQUEST_ID", "OBSERVED_JOB_ID"})
    <3>2. PyDecode(fr) = IF PyTake THEN {[kind |-> k, fields |-> f, items |-> <<>>]} ELSE {}
      <4>1. f = Read(Known(p)) /\ s = Known(p)
        BY <3>1 DEF f, s, Known
      <4>2. PyDecode(fr) = PyDecodeLookupRequest(fr)
        BY <1>14, <2>3 DEF PyDecode
      <4> QED
        BY <3>1, <4>1, <4>2 DEF PyDecodeLookupRequest
    <3>3. DOMAIN f = CNeeds(k) => Names(s) \cap no = {} /\ "HETERO_JOB_ID" \notin DOMAIN f
      BY <1>5, <3>1 DEF f
    <3>4. CChecks(k, f, g) <=> NonZero(f, {"REQUEST_ID", "OBSERVED_JOB_ID"})
      BY <2>3, <3>1 DEF CChecks
    <3>5. CNeeds(k) \subseteq DOMAIN f /\ DOMAIN f \subseteq CNeeds(k) \cup CAllows(k)
            <=> DOMAIN f = CNeeds(k)
      BY <3>1
    <3>6. \A i \in DOMAIN g : FALSE
      BY <1>3, <3>1
    <3> HIDE DEF no
    <3>7. PyTake <=> CTakes(fr) /\ ~ OnlyC(m)
      BY <1>2, <1>4, <1>7, <1>10, <1>11, <1>12, <1>14, <3>1, <3>3, <3>4, <3>5, <3>6
    <3> HIDE DEF PyTake
    <3> QED
      BY <1>3, <1>9, <3>1, <3>2, <3>7
  <2>4. CASE k = "GET_RESERVATIONS_RESPONSE"
    <3>1. G = "RESERVATION" /\ CAllows(k) = {}
          /\ CNeeds(k) = {"REQUEST_ID", "CANONICAL_JOB_ID"}
      BY <2>4 DEF GroupOf, CNeeds, CAllows
    <3> DEFINE PyTake == /\ PyCollects(p, "RESERVATION")
                         /\ DOMAIN f = CNeeds(k)
                         /\ \A i \in DOMAIN g : PyReservation(g[i])
                         /\ Len(items) \in 1..MAX_SERVICES
                         /\ Distinct(items)
                         /\ PyReads(s)
                         /\ NonZero(f, {"REQUEST_ID", "CANONICAL_JOB_ID"})
    <3>2. PyDecode(fr) = IF PyTake THEN {[kind |-> k, fields |-> f, items |-> items]} ELSE {}
      <4>1. s = Scalars(p, "RESERVATION") /\ g = Groups(p, "RESERVATION")
            /\ f = Read(s) /\ items = ReadItems(g)
        BY <3>1 DEF f, s, g, items
      <4>2. PyDecode(fr) = PyDecodeLookupResponse(fr)
        BY <1>14, <2>4 DEF PyDecode
      <4> QED
        BY <3>1, <4>1, <4>2 DEF PyDecodeLookupResponse
    <3>3. DOMAIN f = CNeeds(k) => Names(s) \cap no = {} /\ "HETERO_JOB_ID" \notin DOMAIN f
      BY <1>5, <3>1 DEF f
    <3>4. CChecks(k, f, g) <=> CDecodeLookupResponse(f, g)
      BY <2>4, <3>1 DEF CChecks
    <3>5. CNeeds(k) \subseteq DOMAIN f /\ DOMAIN f \subseteq CNeeds(k) \cup CAllows(k)
            <=> DOMAIN f = CNeeds(k)
      BY <3>1
    <3>7. CDecodeLookupResponse(f, g) <=>
            /\ Len(items) \in 1..MAX_SERVICES
            /\ \A i \in DOMAIN g : CReservation(g[i])
            /\ NonZero(f, {"REQUEST_ID", "CANONICAL_JOB_ID"})
            /\ Distinct(items)
      BY <1>15 DEF CDecodeLookupResponse, items
    <3> HIDE DEF no
    <3>8. PyTake <=> CTakes(fr) /\ ~ OnlyC(m)
      BY <1>2, <1>4, <1>7, <1>8, <1>10, <1>11, <1>12, <1>14, <3>1, <3>3, <3>4, <3>5, <3>7
    <3> HIDE DEF PyTake
    <3> QED
      BY <1>9, <3>2, <3>8
  <2> QED
    BY <2>1, <2>2, <2>3, <2>4 DEF PyDecodable, Requests
<1> QED
  BY <1>13, <1>14

-----------------------------------------------------------------------------
(* What a decoder takes can be written.                                    *)

\* What a decoder has accepted can be written, and fits.
Well(f) ==
  /\ CHolds(f) /\ CWritable(f) /\ Valued(f) /\ Fits(f)
  /\ Utf8(f) => PyWritable(f)

\* An item that the C decoder scanned is within the limits of the format.
LEMMA ItemWell ==
  ASSUME NEW t \in Outer, NEW N, NEW O, CScans(t.value.sub, "none", N, O)
  PROVE  LET f == Read(Known(t.value.sub))
         IN  Well(f) /\ N \subseteq DOMAIN f /\ DOMAIN f \subseteq N \cup O
<1> DEFINE w == t.value.sub
           s == Known(w)
<1>1. w \in Seq(Inner)
  BY TlvTypes
<1>2. \A i \in DOMAIN s : Piece(s[i])
  <2> HIDE DEF w
  <2> QED
    BY <1>1, TlvTypes, Found DEF Known
<1>3. (\A i, j \in DOMAIN s : s[i].field = s[j].field => i = j) /\ CReads(s)
  BY DEF CScans, CCollects, Known
<1>4. N \subseteq Names(s) /\ Names(s) \subseteq N \cup O
  BY DEF CScans, Known
<1> HIDE DEF s
<1>5. Well(Read(s))
  BY <1>2, <1>3, ReadWell DEF Well
<1>6. DOMAIN Read(s) = Names(s)
  BY ReadFrom
<1> QED
  BY <1>4, <1>5, <1>6 DEF s

\* The scan C makes of an item of each kind.
LEMMA ItemsScanned ==
  ASSUME NEW k \in MessageType, NEW f, NEW g, CChecks(k, f, g), NEW i \in DOMAIN g,
         GroupOf(k) # "none"
  PROVE  \E N, O : CScans(g[i].value.sub, "none", N, O)
<1>1. CASE GroupOf(k) = "SERVICE_REQUEST"
  <2>1. CServiceRequest(g[i])
    BY <1>1, GroupKinds DEF CChecks, CDecodeAdmissionRequest
  <2> QED
    BY <2>1 DEF CServiceRequest
<1>2. CASE GroupOf(k) = "SERVICE_RESULT"
  <2>1. CServiceResult(g[i], k = "RESERVE_RESPONSE")
    BY <1>2, GroupKinds DEF CChecks, CDecodeAdmissionResponse
  <2> QED
    BY <2>1 DEF CServiceResult
<1>3. CASE GroupOf(k) = "RELEASE_RESULT"
  <2>1. CReleaseResult(g[i])
    BY <1>3, GroupKinds DEF CChecks, CDecodeReleaseResponse
  <2> QED
    BY <2>1 DEF CReleaseResult
<1>4. CASE GroupOf(k) = "RESERVATION"
  <2>1. CReservation(g[i])
    BY <1>4, GroupKinds DEF CChecks, CDecodeLookupResponse
  <2> QED
    BY <2>1 DEF CReservation
<1> QED
  BY <1>1, <1>2, <1>3, <1>4, GroupKinds

\* So is a message that it takes, and its frame is not too long to be
\* written.
LEMMA TakenWell ==
  ASSUME NEW fr \in Frames, CTakes(fr)
  PROVE  LET m == CMessage(fr)
             g == Groups(fr.payload, GroupOf(m.kind))
         IN  /\ m.kind \in MessageType /\ CChecks(m.kind, m.fields, g)
             /\ CNeeds(m.kind) \subseteq DOMAIN m.fields
             /\ DOMAIN m.fields \subseteq CNeeds(m.kind) \cup CAllows(m.kind)
             /\ Well(m.fields) /\ \A i \in DOMAIN m.items : Well(m.items[i])
             /\ m.items = ReadItems(g) /\ DOMAIN g = DOMAIN m.items /\ Len(g) = Len(m.items)
             /\ Len(m.items) \in Nat /\ (g = <<>> <=> Len(m.items) = 0)
             /\ \A i \in DOMAIN m.items : g[i] \in Outer /\ m.items[i] = Read(Known(g[i].value.sub))
             /\ FrameSize(m) <= MAX_FRAME_SIZE
             /\ GroupOf(m.kind) = "none" => m.items = <<>>
<1> DEFINE m == CMessage(fr)
           p == fr.payload
           k == fr.header.kind
           G == GroupOf(k)
           s == Scalars(p, G)
           g == Groups(p, G)
<1>1. /\ m.kind = k /\ m.fields = Read(s) /\ m.items = ReadItems(g)
  BY DEF CMessage
<1>2. /\ k \in MessageType /\ CScans(p, G, CNeeds(k), CAllows(k))
      /\ CChecks(k, Read(s), g)
  BY DEF CTakes
<1>3. p \in Seq(Outer)
  BY DEF Frames
<1>4. /\ \A i \in DOMAIN s : Piece(s[i]) /\ s[i].field \in Field
      /\ g \in Seq(Outer) /\ Len(ReadItems(g)) = Len(g)
      /\ DOMAIN g = 1..Len(g) /\ DOMAIN ReadItems(g) = DOMAIN g
      /\ ReadItems(g) = [i \in 1..Len(ReadItems(g)) |-> ReadItems(g)[i]]
      /\ G = "none" => g = <<>> /\ ReadItems(g) = <<>>
  <2>1. \A t \in Outer : Piece(t) /\ t.field \in Field \cup {"unknown"}
    BY TlvTypes
  <2> HIDE DEF p, G
  <2> QED
    BY <1>3, <2>1, Found
<1>5. (\A i, j \in DOMAIN s : s[i].field = s[j].field => i = j) /\ CReads(s)
  BY <1>2 DEF CScans, CCollects
<1>6. CNeeds(k) \subseteq Names(s) /\ Names(s) \subseteq CNeeds(k) \cup CAllows(k)
  BY <1>2 DEF CScans
<1>7. \A i \in DOMAIN g : g[i] \in Outer /\ ReadItems(g)[i] = Read(Known(g[i].value.sub))
  BY <1>4 DEF ReadItems
<1> HIDE DEF s, g, m, p, G
<1>8. Well(m.fields) /\ DOMAIN m.fields = Names(s)
  BY <1>1, <1>4, <1>5, ReadWell, ReadFrom DEF Well
<1>9. ASSUME NEW i \in DOMAIN m.items PROVE Well(m.items[i])
  <2>1. i \in DOMAIN g /\ G # "none"
    BY <1>1, <1>4, <1>9
  <2>2. PICK N, O : CScans(g[i].value.sub, "none", N, O)
    BY <1>2, <2>1, ItemsScanned DEF G
  <2> DEFINE t == g[i]
  <2>3. t \in Outer /\ m.items[i] = Read(Known(t.value.sub)) /\ CScans(t.value.sub, "none", N, O)
    BY <1>1, <1>7, <2>1, <2>2
  <2> HIDE DEF t
  <2> QED
    BY <2>3, ItemWell
<1>10. Len(g) \in Nat /\ (g = <<>> <=> Len(g) = 0)
  BY <1>4
<1>11. Len(g) <= MAX_SERVICES
  <2>1. CASE G = "none"
    BY <1>4, <1>10, <2>1 DEF MAX_SERVICES
  <2>2. CASE G # "none"
    BY <1>2, <2>2, GroupKinds
       DEF CChecks, CDecodeAdmissionRequest, CDecodeAdmissionResponse,
           CDecodeReleaseResponse, CDecodeLookupResponse, G
  <2> QED
    BY <2>1, <2>2
<1>12. FrameSize(m) <= MAX_FRAME_SIZE
  <2>1. m.items \in Seq({m.items[i] : i \in DOMAIN m.items})
    <3> DEFINE r == m.items
               R == {r[i] : i \in DOMAIN r}
    <3>1. r = [i \in 1..Len(g) |-> r[i]] /\ \A i \in 1..Len(g) : r[i] \in R
      BY <1>1, <1>4
    <3> HIDE DEF R, r
    <3>2. r \in Seq(R)
      BY <1>10, <3>1
    <3> QED
      BY <3>2 DEF R, r
  <2>2. Fits(m.fields) /\ \A i \in DOMAIN m.items : Fits(m.items[i])
    BY <1>8, <1>9 DEF Well
  <2>3. Len(m.items) <= MAX_SERVICES
    BY <1>1, <1>4, <1>11
  <2> QED
    BY <2>1, <2>2, <2>3, MessageFits
<1>13. CChecks(m.kind, m.fields, g) /\ g = Groups(fr.payload, GroupOf(m.kind))
  BY <1>1, <1>2 DEF g, G, p
<1>14. /\ m.items = ReadItems(g) /\ DOMAIN g = DOMAIN m.items /\ Len(g) = Len(m.items)
       /\ Len(m.items) \in Nat /\ (g = <<>> <=> Len(m.items) = 0)
       /\ \A i \in DOMAIN m.items : g[i] \in Outer /\ m.items[i] = Read(Known(g[i].value.sub))
  BY <1>1, <1>4, <1>7, <1>10
<1>15. GroupOf(m.kind) = "none" => m.items = <<>>
  BY <1>1, <1>4 DEF G
<1>16. /\ m.kind \in MessageType /\ CNeeds(m.kind) \subseteq DOMAIN m.fields
       /\ DOMAIN m.fields \subseteq CNeeds(m.kind) \cup CAllows(m.kind)
  BY <1>1, <1>2, <1>6, <1>8
<1> QED
  BY <1>8, <1>9, <1>12, <1>13, <1>14, <1>15, <1>16 DEF m

\* The requests Python accepts, C could have written.
LEMMA RequestWritable ==
  ASSUME NEW fr \in Frames, NEW m \in PyDecode(fr), m.kind \in Requests
  PROVE  CEncodes(m)
<1>0. fr.header.kind \in PyDecodable
  BY DEF PyDecode, PyDecodable, Requests
<1>1. m \in CDecode(fr)
  BY <1>0, FrameAgree
<1>2. CTakes(fr) /\ m = CMessage(fr)
  BY <1>1, CDecodes
<1> DEFINE k == m.kind
           f == m.fields
           g == Groups(fr.payload, GroupOf(k))
<1>3. /\ k \in MessageType /\ CChecks(k, f, g)
      /\ Well(f) /\ (\A i \in DOMAIN m.items : Well(m.items[i]))
      /\ m.items = ReadItems(g) /\ Len(g) = Len(m.items)
      /\ Len(m.items) \in Nat /\ (g = <<>> <=> Len(m.items) = 0)
      /\ FrameSize(m) <= MAX_FRAME_SIZE
  BY <1>2, TakenWell
<1> HIDE DEF g
<1>4. /\ CHolds(f) /\ CWritable(f)
      /\ \A i \in DOMAIN m.items : CHolds(m.items[i]) /\ CWritable(m.items[i])
  BY <1>3 DEF Well
<1>5. CASE GroupOf(k) = "SERVICE_REQUEST"
  <2>1. CDecodeAdmissionRequest(f, g)
    BY <1>3, <1>5, GroupKinds DEF CChecks
  <2>2. Len(m.items) \in 1..MAX_SERVICES
    <3> DEFINE n == Len(m.items)
    <3>1. n \in Nat /\ n # 0 /\ n <= MAX_SERVICES
      BY <1>3, <2>1 DEF CDecodeAdmissionRequest
    <3> HIDE DEF n
    <3>2. n \in 1..MAX_SERVICES
      BY <3>1 DEF MAX_SERVICES
    <3> QED
      BY <3>2 DEF n
  <2>3. f["WORKLOAD_KIND"] \in {1, 2}
    <3>1. f["WORKLOAD_KIND"] \in 1..2
      BY <2>1 DEF CDecodeAdmissionRequest
    <3> QED
      BY <3>1
  <2>4. CEncodesAdmissionRequest(m)
    BY <1>3, <2>1, <2>2, <2>3 DEF CDecodeAdmissionRequest, CEncodesAdmissionRequest
  <2> QED
    BY <1>3, <1>4, <1>5, <2>4, GroupKinds DEF CEncodes
<1>6. CASE k = "RELEASE_REQUEST"
  <2>1. GroupOf(k) = "none"
    BY <1>6 DEF GroupOf
  <2>2. CEncodesReleaseRequest(m)
    BY <1>3, <1>6, <2>1 DEF CChecks, CEncodesReleaseRequest
  <2> QED
    BY <1>3, <1>4, <1>6, <2>1, <2>2 DEF CEncodes
<1>7. CASE k = "GET_RESERVATIONS_REQUEST"
  <2>1. GroupOf(k) = "none"
    BY <1>7 DEF GroupOf
  <2>2. CEncodesLookupRequest(m)
    BY <1>3, <1>7, <2>1 DEF CChecks, CEncodesLookupRequest
  <2> QED
    BY <1>3, <1>4, <1>7, <2>1, <2>2 DEF CEncodes
<1> QED
  BY <1>3, <1>5, <1>6, <1>7, GroupKinds DEF Requests

\* The answers C accepts, Python could have written, but for the two places
\* where C is more lenient.
LEMMA AnswerWritable ==
  ASSUME NEW fr \in Frames, NEW m \in CDecode(fr), m.kind \in Responses
  PROVE  \/ PyEncodes(m)
         \/ OnlyC(m)
         \/ m.kind = "ERROR_RESPONSE" /\ m.fields["GATEWAY_ERROR_CODE"] > 11
         \/ m.kind = "RELEASE_RESPONSE" /\
              \/ ~ Distinct(m.items)
              \/ \E i \in DOMAIN m.items :
                   /\ "GATEWAY_ERROR_CODE" \in DOMAIN m.items[i]
                   /\ m.items[i]["GATEWAY_ERROR_CODE"] \notin 1..11
<1> DEFINE k == m.kind
           f == m.fields
           g == Groups(fr.payload, GroupOf(k))
<1>1. CTakes(fr) /\ m = CMessage(fr)
  BY CDecodes
<1>2. /\ k \in MessageType /\ CChecks(k, f, g)
      /\ CNeeds(k) \subseteq DOMAIN f
      /\ Well(f) /\ (\A i \in DOMAIN m.items : Well(m.items[i]))
      /\ m.items = ReadItems(g) /\ DOMAIN g = DOMAIN m.items /\ Len(g) = Len(m.items)
      /\ Len(m.items) \in Nat /\ (g = <<>> <=> Len(m.items) = 0)
      /\ (\A i \in DOMAIN m.items : g[i] \in Outer /\ m.items[i] = Read(Known(g[i].value.sub)))
      /\ FrameSize(m) <= MAX_FRAME_SIZE
  BY <1>1, TakenWell
<1> HIDE DEF g
<1> SUFFICES ASSUME ~ OnlyC(m) PROVE
         \/ PyEncodes(m)
         \/ m.kind = "ERROR_RESPONSE" /\ m.fields["GATEWAY_ERROR_CODE"] > 11
         \/ m.kind = "RELEASE_RESPONSE" /\
              \/ ~ Distinct(m.items)
              \/ \E i \in DOMAIN m.items :
                   /\ "GATEWAY_ERROR_CODE" \in DOMAIN m.items[i]
                   /\ m.items[i]["GATEWAY_ERROR_CODE"] \notin 1..11
  OBVIOUS
<1>3. PyWritable(f) /\ \A i \in DOMAIN m.items : PyWritable(m.items[i])
  BY <1>2, OnlyCMeans DEF Well
<1>4. (Len(g) <= MAX_SERVICES /\ g # <<>>) => Len(m.items) \in 1..MAX_SERVICES
  <2> DEFINE n == Len(m.items)
  <2>1. n \in Nat /\ Len(g) = n /\ (g = <<>> <=> n = 0)
    BY <1>2
  <2> HIDE DEF n
  <2>2. n <= MAX_SERVICES /\ n # 0 => n \in 1..MAX_SERVICES
    BY <2>1 DEF MAX_SERVICES
  <2> QED
    BY <2>1, <2>2 DEF n
<1>5. CASE GroupOf(k) = "SERVICE_RESULT"
  <2> DEFINE reserve == k = "RESERVE_RESPONSE"
  <2>1. CDecodeAdmissionResponse(f, g, reserve)
    BY <1>2, <1>5, GroupKinds DEF CChecks
  <2>2. /\ f["REQUEST_ID"] # 0 /\ Len(m.items) \in 1..MAX_SERVICES /\ Distinct(m.items)
    BY <1>2, <1>4, <2>1 DEF CDecodeAdmissionResponse
  <2>3. \A i \in DOMAIN m.items : CServiceResult(g[i], reserve)
    BY <1>2, <2>1 DEF CDecodeAdmissionResponse
  <2>4. Decisions(m.items) \subseteq {Accepted, Delayed, Rejected}
    <3>1. \A i \in DOMAIN m.items : m.items[i]["ADMISSION_DECISION"] \in 1..3
      BY <1>2, <2>3 DEF CServiceResult
    <3>2. 1..3 = {Accepted, Delayed, Rejected}
      BY DEF Accepted, Delayed, Rejected
    <3> QED
      BY <3>1, <3>2 DEF Decisions
  <2>5. \A i \in DOMAIN m.items : PyEncodesResult(m.items[i], reserve)
    BY <1>2, <2>3 DEF CServiceResult, PyEncodesResult
  <2>6. PyConsistent(f["ADMISSION_DECISION"], Decisions(m.items))
    <3> DEFINE d == f["ADMISSION_DECISION"]
               D == Decisions(m.items)
    <3>1. TRUE = (CASE d = Accepted -> D = {Accepted}
                    [] d = Rejected -> Rejected \in D
                    [] OTHER -> Rejected \notin D /\ Delayed \in D)
      BY <1>2, <2>1 DEF CDecodeAdmissionResponse
    <3> HIDE DEF d, D
    <3>2. CASE d = Accepted
      BY <3>1, <3>2 DEF PyConsistent, Accepted, Delayed, Rejected, d, D
    <3>3. CASE d = Rejected
      BY <3>1, <3>3 DEF PyConsistent, Accepted, Delayed, Rejected, d, D
    <3>4. CASE d # Accepted /\ d # Rejected
      BY <3>1, <3>4 DEF PyConsistent, Accepted, Delayed, Rejected, d, D
    <3> QED
      BY <3>2, <3>3, <3>4
  <2>7. PyEncodesAdmissionResponse(m)
    BY <2>2, <2>4, <2>5, <2>6 DEF PyEncodesAdmissionResponse
  <2> QED
    BY <1>2, <1>3, <1>5, <2>7, GroupKinds DEF PyEncodes
<1>6. CASE k = "RELEASE_RESPONSE"
  <2>1. GroupOf(k) = "RELEASE_RESULT"
    BY <1>6 DEF GroupOf
  <2>2. CDecodeReleaseResponse(f, g)
    BY <1>2, <1>6, <2>1 DEF CChecks
  <2> SUFFICES ASSUME Distinct(m.items),
                      \A i \in DOMAIN m.items :
                         "GATEWAY_ERROR_CODE" \in DOMAIN m.items[i] =>
                            m.items[i]["GATEWAY_ERROR_CODE"] \in 1..11
               PROVE  PyEncodes(m)
    BY <1>6
  <2>3. \A i \in DOMAIN m.items :
          m.items[i]["RESERVATION_ID"] # 0 /\ m.items[i]["RESERVATION_STATE"] \in 1..7
    BY <1>2, <2>2 DEF CDecodeReleaseResponse, CReleaseResult
  <2>4. PyEncodesReleaseResponse(m)
    BY <1>2, <2>2, <2>3 DEF CDecodeReleaseResponse, PyEncodesReleaseResponse
  <2> QED
    BY <1>2, <1>3, <1>6, <2>1, <2>4 DEF PyEncodes
<1>7. CASE k = "GET_RESERVATIONS_RESPONSE"
  <2>1. GroupOf(k) = "RESERVATION"
    BY <1>7 DEF GroupOf
  <2>2. CDecodeLookupResponse(f, g)
    BY <1>2, <1>7, <2>1 DEF CChecks
  <2>3. \A i \in DOMAIN m.items : m.items[i]["RESERVATION_ID"] # 0
    BY <1>2, <2>2 DEF CDecodeLookupResponse, CReservation
  <2>4. PyEncodesLookupResponse(m)
    BY <1>2, <1>4, <2>2, <2>3 DEF CDecodeLookupResponse, PyEncodesLookupResponse
  <2> QED
    BY <1>2, <1>3, <1>7, <2>1, <2>4 DEF PyEncodes
<1>8. CASE k = "ERROR_RESPONSE"
  <2>1. GroupOf(k) = "none"
    BY <1>8 DEF GroupOf
  <2>2. f["GATEWAY_ERROR_CODE"] # 0
    BY <1>2, <1>8, <2>1 DEF CChecks
  <2>3. f["GATEWAY_ERROR_CODE"] \in Nat
    <3>1. "GATEWAY_ERROR_CODE" \in DOMAIN f
      BY <1>2, <1>8, <2>1 DEF CNeeds
    <3> QED
      BY <1>2, <3>1 DEF Well, Valued, Texts
  <2>4. CASE f["GATEWAY_ERROR_CODE"] <= 11
    <3>1. PyEncodesError(m)
      BY <2>2, <2>3, <2>4 DEF PyEncodesError
    <3> QED
      BY <1>2, <1>3, <1>8, <2>1, <3>1 DEF PyEncodes
  <2> QED
    BY <1>8, <2>3, <2>4
<1> QED
  BY <1>2, <1>5, <1>6, <1>7, <1>8, GroupKinds DEF Responses

-----------------------------------------------------------------------------
(* The inductive invariant: what is composed, sent and answered.           *)

\* The replies the QPMs may make: a number that is left out is the empty set.
Reply ==
  [status: Nat, id: {{}} \cup {{n} : n \in Int}, reason: Int,
   time: {{}} \cup {{n} : n \in Int}, message: TextValue,
   runtime: {t \in TextValue : t.len > 0 /\ ~ t.nul /\ t.utf8}, generation: Int]

\* The inductive invariant.
WireInv ==
  /\ stage \in {"compose", "ask", "answered", "sent"}
  /\ stage \in {"compose", "sent"} => IsMessage(msg)
  /\ stage = "ask" => msg = QpmError
  /\ stage = "answered" => msg \in {EvaluateAnswer, ReserveAnswer}
  /\ stage \in {"ask", "answered"} => replies \in Seq(Reply) /\ Len(replies) \in 1..MAX_SERVICES
  /\ stage = "sent" => frame \in Frames

\* The texts and numbers that are tried are texts and numbers.
LEMMA TextsTyped ==
  /\ \A id, len \in Nat : Text(id, len) \in TextValue
  /\ NoText \in TextValue
  /\ \A x : TextsOf(x) \subseteq TextValue
  /\ Numbers \subseteq Nat
<1>1. \A id, len \in Nat : Text(id, len) \in TextValue
  BY DEF Text, TextValue
<1>2. NoText \in TextValue
  BY <1>1 DEF NoText
<1>3. ASSUME NEW x PROVE TextsOf(x) \subseteq TextValue
  <2>1. PyTextMax(x) \in Nat /\ PyTextMax(x) + 1 \in Nat
    BY SameWidths
  <2>2. Text(2, 1) \in TextValue /\ Text(8, PyTextMax(x)) \in TextValue
        /\ Text(9, PyTextMax(x) + 1) \in TextValue
    BY <1>1, <2>1
  <2>3. [Text(10, 1) EXCEPT !.nul = TRUE] \in TextValue
    BY DEF Text, TextValue
  <2>4. [Text(11, 1) EXCEPT !.utf8 = FALSE] \in TextValue
    BY DEF Text, TextValue
  <2> QED
    BY <1>2, <2>2, <2>3, <2>4 DEF TextsOf
<1>4. Numbers \subseteq Nat
  BY WidthAssumption DEF Numbers
<1> QED
  BY <1>1, <1>2, <1>3, <1>4

\* A field is tried with values of its type.
LEMMA ValuesTyped ==
  ASSUME NEW x, NEW v \in ValuesOf(x)
  PROVE  v \in IF x \in Texts THEN TextValue ELSE Nat
  BY TextsTyped DEF ValuesOf

\* The answer to a failed QPM call is a message, and it can be encoded.
LEMMA QpmErrorIs ==
  /\ IsMessage(QpmError)
  /\ QpmError.kind = "ERROR_RESPONSE" /\ QpmError.items = <<>>
  /\ QpmError.fields["GATEWAY_ERROR_CODE"] = 4
  /\ PyEncodes(QpmError) /\ Decided(QpmError)
<1> DEFINE D == {"REQUEST_ID", "GATEWAY_ERROR_CODE", "DIAGNOSTIC"}
           f == [x \in D |->
                 CASE x = "REQUEST_ID" -> 1
                   [] x = "GATEWAY_ERROR_CODE" -> 4
                   [] x = "DIAGNOSTIC" -> Text(12, MAX_DIAGNOSTIC)]
<1>1. QpmError = [kind |-> "ERROR_RESPONSE", items |-> <<>>, fields |-> f]
  BY DEF QpmError
<1>2. /\ DOMAIN f = D /\ f = [x \in DOMAIN f |-> f[x]]
      /\ f["REQUEST_ID"] = 1 /\ f["GATEWAY_ERROR_CODE"] = 4
      /\ f["DIAGNOSTIC"] = Text(12, MAX_DIAGNOSTIC)
  OBVIOUS
<1> HIDE DEF f
<1>3. GroupOf("ERROR_RESPONSE") = "none"
  BY DEF GroupOf
<1>4. /\ Attributes("ERROR_RESPONSE") = D /\ ItemAttributes("ERROR_RESPONSE") = {}
      /\ "ERROR_RESPONSE" \in MessageType
      /\ Workload \cap D = {}
  BY <1>3 DEF Attributes, ItemAttributes, MayBeNone, MessageType, Responses,
              Workload, Envelope, Optional
<1>5. MayBeNone("ERROR_RESPONSE") = {"REQUEST_ID", "DIAGNOSTIC"}
  BY <1>3 DEF MayBeNone
<1>6. \A x \in D : f[x] \in IF x \in Texts THEN TextValue ELSE Nat
  <2>1. Text(12, MAX_DIAGNOSTIC) \in TextValue
    BY TextsTyped DEF MAX_DIAGNOSTIC
  <2> QED
    BY <1>2, <2>1 DEF Texts
<1>7. Carries(f, Attributes("ERROR_RESPONSE"), "ERROR_RESPONSE")
  <2>1. DOMAIN f = D /\ f = [x \in DOMAIN f |-> f[x]]
    BY <1>2
  <2> HIDE DEF D
  <2> QED
    BY <2>1, <1>4, <1>5, <1>6 DEF Carries
<1> DEFINE e == QpmError
<1>8. e.kind = "ERROR_RESPONSE" /\ e.items = <<>> /\ e.fields = f
      /\ e = [kind |-> e.kind, fields |-> e.fields, items |-> e.items]
  BY <1>1
<1> HIDE DEF e
<1>9. IsMessage(e)
  BY <1>4, <1>7, <1>8 DEF IsMessage
<1>10. PyWritable(f)
  <2>1. Text(12, MAX_DIAGNOSTIC).len = 4096 /\ ~ Text(12, MAX_DIAGNOSTIC).nul
        /\ Text(12, MAX_DIAGNOSTIC).utf8 /\ PyTextMax("DIAGNOSTIC") = 4096
    BY DEF Text, MAX_DIAGNOSTIC, PyTextMax
  <2> QED
    BY <1>2, <2>1, WidthAssumption DEF PyWritable, Texts, PyPuts32
<1>11. FrameSize(e) <= MAX_FRAME_SIZE
  <2>1. Fits(f)
    BY <1>6, <1>10, <1>2 DEF Fits, PyWritable, TextValue
  <2>2. e.items \in Seq({e.items[i] : i \in DOMAIN e.items}) /\ Len(e.items) = 0
        /\ DOMAIN e.items = {}
    BY <1>8
  <2> QED
    <3>1. Fits(e.fields) /\ \A i \in DOMAIN e.items : Fits(e.items[i])
      BY <1>8, <2>1, <2>2
    <3>2. Len(e.items) <= MAX_SERVICES
      BY <2>2 DEF MAX_SERVICES
    <3> QED
      BY <2>2, <3>1, <3>2, MessageFits
<1>12. PyEncodes(e)
  <2>1. PyEncodesError(e)
    BY <1>2, <1>8 DEF PyEncodesError
  <2>2. DOMAIN e.items = {}
    BY <1>8
  <2> QED
    BY <1>3, <1>8, <1>10, <1>11, <2>1, <2>2 DEF PyEncodes
<1>13. Decided(e)
  BY <1>3, <1>8 DEF Decided
<1> QED
  BY <1>2, <1>8, <1>9, <1>12, <1>13 DEF e

\* Messages that are composed stay messages.

\* A workload is there with its whole envelope or not at all.
LEMMA NotNone ==
  ASSUME NEW k \in MessageType
  PROVE  MayBeNone(k) \cap Envelope = {}
<1>1. CASE GroupOf(k) = "SERVICE_REQUEST"
  BY <1>1, GroupKinds DEF MayBeNone, Envelope, Optional
<1>2. CASE GroupOf(k) # "SERVICE_REQUEST"
  BY <1>2, GroupKinds DEF MayBeNone, Envelope
<1> QED
  BY <1>1, <1>2

\* Another value keeps the shape of a message or an item.
LEMMA CarriesPut ==
  ASSUME NEW f, NEW S, NEW k, Carries(f, S, k), NEW x \in DOMAIN f,
         NEW v \in ValuesOf(x)
  PROVE  Carries([f EXCEPT ![x] = v], S, k)
<1> DEFINE g == [f EXCEPT ![x] = v]
<1>1. DOMAIN g = DOMAIN f /\ g = [y \in DOMAIN g |-> g[y]]
      /\ \A y \in DOMAIN f : g[y] = IF y = x THEN v ELSE f[y]
  BY DEF Carries
<1>2. v \in IF x \in Texts THEN TextValue ELSE Nat
  BY ValuesTyped
<1> HIDE DEF g
<1> QED
  BY <1>1, <1>2 DEF Carries, g

\* So does an attribute that becomes None.
LEMMA CarriesDrop ==
  ASSUME NEW f, NEW S, NEW k \in MessageType, Carries(f, S, k), NEW R,
         R \subseteq MayBeNone(k) \/ R = Workload
  PROVE  Carries(Without(f, R), S, k)
<1> DEFINE g == Without(f, R)
<1>1. DOMAIN g = DOMAIN f \ R /\ g = [y \in DOMAIN g |-> g[y]]
      /\ \A y \in DOMAIN g : g[y] = f[y]
  BY DEF Without
<1> HIDE DEF g
<1>2. S \ (MayBeNone(k) \cup Workload) \subseteq DOMAIN g
  BY <1>1 DEF Carries
<1>3. Envelope \subseteq DOMAIN g \/ Workload \cap DOMAIN g = {}
  <2>1. CASE R = Workload
    BY <1>1, <2>1
  <2>2. CASE R \subseteq MayBeNone(k)
    BY <1>1, <2>2, NotNone DEF Carries
  <2> QED
    BY <2>1, <2>2
<1> QED
  BY <1>1, <1>2, <1>3 DEF Carries, g

\* A message with other fields of that shape is a message.
LEMMA OtherFields ==
  ASSUME NEW m, IsMessage(m), NEW f, Carries(f, Attributes(m.kind), m.kind)
  PROVE  IsMessage([m EXCEPT !.fields = f])
<1> DEFINE n == [m EXCEPT !.fields = f]
<1>1. m = [kind |-> m.kind, fields |-> m.fields, items |-> m.items]
  BY DEF IsMessage
<1>2. n = [kind |-> m.kind, fields |-> f, items |-> m.items]
  BY <1>1
<1>3. n.kind = m.kind /\ n.fields = f /\ n.items = m.items
      /\ n = [kind |-> n.kind, fields |-> n.fields, items |-> n.items]
  BY <1>2
<1> HIDE DEF n
<1> QED
  BY <1>3 DEF IsMessage, n

\* So is one with other items.
LEMMA OtherItems ==
  ASSUME NEW m, IsMessage(m), ItemAttributes(m.kind) # {},
         NEW s, s = [i \in 1..Len(s) |-> s[i]],
         \A i \in DOMAIN s : Carries(s[i], ItemAttributes(m.kind), m.kind)
  PROVE  IsMessage([m EXCEPT !.items = s])
<1> DEFINE n == [m EXCEPT !.items = s]
<1>1. m = [kind |-> m.kind, fields |-> m.fields, items |-> m.items]
  BY DEF IsMessage
<1>2. n = [kind |-> m.kind, fields |-> m.fields, items |-> s]
  BY <1>1
<1>3. n.kind = m.kind /\ n.fields = m.fields /\ n.items = s
      /\ n = [kind |-> n.kind, fields |-> n.fields, items |-> n.items]
  BY <1>2
<1> HIDE DEF n
<1> QED
  BY <1>3 DEF IsMessage, n

\* Composing keeps the message a message: a field changes,
LEMMA SetFieldKeeps ==
  ASSUME IsMessage(msg), SetField
  PROVE  IsMessage(msg')
<1> DEFINE f == msg.fields
           k == msg.kind
<1>1. PICK x \in DOMAIN f :
        \/ \E v \in ValuesOf(x) : msg' = [msg EXCEPT !.fields[x] = v]
        \/ x \in MayBeNone(k) /\ msg' = [msg EXCEPT !.fields = Without(@, {x})]
        \/ x = "WORKLOAD_KIND" /\ msg' = [msg EXCEPT !.fields = Without(@, Workload)]
  BY DEF SetField
<1>2. k \in MessageType /\ Carries(f, Attributes(k), k)
  BY DEF IsMessage
<1>3. msg = [kind |-> msg.kind, fields |-> msg.fields, items |-> msg.items]
  BY DEF IsMessage
<1>4. ASSUME NEW v \in ValuesOf(x), msg' = [msg EXCEPT !.fields[x] = v]
      PROVE  IsMessage(msg')
  <2>1. msg' = [msg EXCEPT !.fields = [f EXCEPT ![x] = v]]
    BY <1>3, <1>4
  <2>2. Carries([f EXCEPT ![x] = v], Attributes(k), k)
    BY <1>2, CarriesPut
  <2> QED
    BY <2>1, <2>2, OtherFields
<1>5. ASSUME NEW R, R \subseteq MayBeNone(k) \/ R = Workload,
             msg' = [msg EXCEPT !.fields = Without(@, R)]
      PROVE  IsMessage(msg')
  <2>1. msg' = [msg EXCEPT !.fields = Without(f, R)]
    BY <1>3, <1>5
  <2>2. Carries(Without(f, R), Attributes(k), k)
    BY <1>2, <1>5, CarriesDrop
  <2> QED
    BY <2>1, <2>2, OtherFields
<1>6. CASE \E v \in ValuesOf(x) : msg' = [msg EXCEPT !.fields[x] = v]
  BY <1>4, <1>6
<1>7. CASE x \in MayBeNone(k) /\ msg' = [msg EXCEPT !.fields = Without(@, {x})]
  BY <1>5, <1>7
<1>8. CASE x = "WORKLOAD_KIND" /\ msg' = [msg EXCEPT !.fields = Without(@, Workload)]
  BY <1>5, <1>8
<1> QED
  BY <1>1, <1>6, <1>7, <1>8

\* a field of an item changes,
LEMMA SetItemKeeps ==
  ASSUME IsMessage(msg), SetItem
  PROVE  IsMessage(msg')
<1> DEFINE s == msg.items
           k == msg.kind
           f == s[1]
<1>1. PICK x \in DOMAIN f :
        \/ \E v \in ValuesOf(x) : msg' = [msg EXCEPT !.items[1][x] = v]
        \/ x \in MayBeNone(k) /\ msg' = [msg EXCEPT !.items[1] = Without(@, {x})]
  BY DEF SetItem
<1>2. /\ k \in MessageType /\ s = [i \in 1..Len(s) |-> s[i]]
      /\ \A i \in DOMAIN s : Carries(s[i], ItemAttributes(k), k)
      /\ msg = [kind |-> msg.kind, fields |-> msg.fields, items |-> msg.items]
      /\ ItemAttributes(k) = {} => s = <<>>
  BY DEF IsMessage
<1>3. Len(s) \in 1..2
  BY DEF SetItem
<1>4. 1 \in DOMAIN s /\ DOMAIN s = 1..Len(s) /\ ItemAttributes(k) # {}
  BY <1>2, <1>3
<1>5. Carries(f, ItemAttributes(k), k)
  BY <1>2, <1>4
<1>6. ASSUME NEW g, Carries(g, ItemAttributes(k), k), msg' = [msg EXCEPT !.items = [s EXCEPT ![1] = g]]
      PROVE  IsMessage(msg')
  <2> DEFINE r == [s EXCEPT ![1] = g]
  <2>1. DOMAIN r = DOMAIN s /\ r = [i \in DOMAIN s |-> r[i]]
        /\ \A i \in DOMAIN s : r[i] = IF i = 1 THEN g ELSE s[i]
    BY <1>2
  <2>2. Len(r) = Len(s)
    BY <1>3, <1>4
  <2> HIDE DEF r
  <2>3. r = [i \in 1..Len(r) |-> r[i]]
    BY <1>4, <2>1, <2>2
  <2>4. \A i \in DOMAIN r : Carries(r[i], ItemAttributes(k), k)
    BY <1>2, <1>6, <2>1
  <2>5. IsMessage([msg EXCEPT !.items = r])
    BY <1>4, <2>3, <2>4, OtherItems
  <2> QED
    BY <1>6, <2>5 DEF r
<1>7. CASE \E v \in ValuesOf(x) : msg' = [msg EXCEPT !.items[1][x] = v]
  <2>1. PICK v \in ValuesOf(x) : msg' = [msg EXCEPT !.items[1][x] = v]
    BY <1>7
  <2>2. msg' = [msg EXCEPT !.items = [s EXCEPT ![1] = [f EXCEPT ![x] = v]]]
    BY <1>2, <2>1
  <2>3. Carries([f EXCEPT ![x] = v], ItemAttributes(k), k)
    <3> HIDE DEF f
    <3> QED
      BY <1>5, CarriesPut
  <2> QED
    BY <1>6, <2>2, <2>3
<1>8. CASE x \in MayBeNone(k) /\ msg' = [msg EXCEPT !.items[1] = Without(@, {x})]
  <2>1. msg' = [msg EXCEPT !.items = [s EXCEPT ![1] = Without(f, {x})]]
    BY <1>2, <1>8
  <2>2. Carries(Without(f, {x}), ItemAttributes(k), k)
    <3> HIDE DEF f
    <3>1. {x} \subseteq MayBeNone(k)
      BY <1>8
    <3> QED
      BY <1>2, <1>5, <3>1, CarriesDrop
  <2> QED
    BY <1>6, <2>1, <2>2
<1> QED
  BY <1>1, <1>7, <1>8

\* there are more or fewer items.
LEMMA ResizeKeeps ==
  ASSUME IsMessage(msg), Resize
  PROVE  IsMessage(msg')
<1> DEFINE s == msg.items
           k == msg.kind
           f == s[1]
<1>1. PICK n \in {0, 1, MAX_SERVICES, MAX_SERVICES + 1} :
        msg' = [msg EXCEPT !.items = Repeat(@[1], n)]
  BY DEF Resize
<1>2. /\ k \in MessageType /\ s = [i \in 1..Len(s) |-> s[i]]
      /\ \A i \in DOMAIN s : Carries(s[i], ItemAttributes(k), k)
      /\ msg = [kind |-> msg.kind, fields |-> msg.fields, items |-> msg.items]
      /\ ItemAttributes(k) = {} => s = <<>>
  BY DEF IsMessage
<1>3. Len(s) = 2
  BY DEF Resize
<1>4. 1 \in DOMAIN s /\ ItemAttributes(k) # {}
  BY <1>2, <1>3
<1>5. Carries(f, ItemAttributes(k), k)
  BY <1>2, <1>4
<1>6. msg' = [msg EXCEPT !.items = Repeat(f, n)]
  BY <1>1, <1>2
<1>7. n \in Nat
  BY DEF MAX_SERVICES
<1> HIDE DEF f
<1> DEFINE new(i) == [f EXCEPT !["SERVICE_ID"] = [@ EXCEPT !.id = 100 + i]]
           r == Repeat(f, n)
<1>8. ASSUME NEW i \in 1..n PROVE Carries(new(i), ItemAttributes(k), k)
  <2> DEFINE g == new(i)
  <2>1. DOMAIN g = DOMAIN f /\ g = [y \in DOMAIN g |-> g[y]]
        /\ \A y \in DOMAIN f : g[y] = IF y = "SERVICE_ID" THEN [f[y] EXCEPT !.id = 100 + i] ELSE f[y]
    BY <1>5 DEF Carries
  <2>2. "SERVICE_ID" \in DOMAIN f =>
           [f["SERVICE_ID"] EXCEPT !.id = 100 + i] \in TextValue
    BY <1>5, <1>7 DEF Carries, Texts, TextValue
  <2>3. "SERVICE_ID" \in Texts
    BY DEF Texts
  <2> HIDE DEF g
  <2>4. \A y \in DOMAIN g : g[y] \in IF y \in Texts THEN TextValue ELSE Nat
    BY <1>5, <2>1, <2>2, <2>3 DEF Carries
  <2>5. Carries(g, ItemAttributes(k), k)
    BY <1>5, <2>1, <2>4 DEF Carries
  <2> QED
    BY <2>5 DEF g
<1>9. r = [i \in 1..n |-> new(i)]
  BY DEF Repeat
<1> HIDE DEF new, r
<1>10. r = [i \in 1..Len(r) |-> r[i]] /\ DOMAIN r = 1..n /\ \A i \in 1..n : r[i] = new(i)
  BY <1>7, <1>9
<1>11. IsMessage([msg EXCEPT !.items = r])
  <2>1. \A i \in DOMAIN r : Carries(r[i], ItemAttributes(k), k)
    BY <1>8, <1>10
  <2> QED
    BY <1>4, <1>10, <2>1, OtherItems
<1> QED
  BY <1>6, <1>11 DEF r

-----------------------------------------------------------------------------
(* What is on the wire, altered or not.                                    *)

\* Every number of f fits its field.
Ranged(f) ==
  \A x \in DOMAIN f \ Texts : f[x] < IF x \in PyPuts32 THEN U32 ELSE U64

\* A field within its range is written as a well-formed TLV.
LEMMA FieldTyped ==
  ASSUME NEW f, Valued(f), Ranged(f), NEW x \in DOMAIN f, DOMAIN f \subseteq Field
  PROVE  Tlv(x, BytesOf(f, x, PyPuts32)) \in Inner
<1> DEFINE v == BytesOf(f, x, PyPuts32)
           t == Tlv(x, v)
<1>1. t.field = x /\ t.value = v /\ t = [field |-> x, required |-> TRUE, form |-> "whole", value |-> v]
  BY DEF Tlv
<1>2. CASE x \in Texts
  <2>1. f[x] \in TextValue
    BY <1>2 DEF Valued
  <2>2. v = [len |-> f[x].len, num |-> 0, text |-> f[x], sub |-> <<>>]
    BY <1>2 DEF BytesOf, TextBytes
  <2>3. f[x].len \in Nat
    BY <2>1 DEF TextValue
  <2> HIDE DEF v
  <2>4. v.len = f[x].len /\ v.num = 0 /\ v.text = f[x]
        /\ v \in [len: Nat, num: Nat, text: TextValue, sub: {<<>>}]
    BY <2>1, <2>2, <2>3
  <2>5. Piece(t)
    BY <1>1, <2>1, <2>3, <2>4, WidthAssumption DEF Piece
  <2> HIDE DEF t
  <2>9. t \in Inner
    BY <1>1, <2>4, <2>5 DEF Inner, TlvsOf
  <2> QED
    BY <2>9 DEF t, v
<1>3. CASE x \notin Texts
  <2>1. f[x] \in Nat /\ f[x] < IF x \in PyPuts32 THEN U32 ELSE U64
    BY <1>3 DEF Valued, Ranged
  <2>2. v = [len |-> IF x \in PyPuts32 THEN 4 ELSE 8, num |-> f[x], text |-> NoText, sub |-> <<>>]
    BY <1>3 DEF BytesOf, NumberBytes
  <2> HIDE DEF v
  <2>3. v.len = (IF x \in PyPuts32 THEN 4 ELSE 8) /\ v.num = f[x] /\ v.text = NoText
        /\ v \in [len: Nat, num: Nat, text: TextValue, sub: {<<>>}]
    BY <2>1, <2>2, TextsTyped
  <2>4. Piece(t)
    BY <1>1, <1>3, <2>1, <2>3, TextsTyped, WidthAssumption DEF Piece
  <2> HIDE DEF t
  <2>9. t \in Inner
    BY <1>1, <2>3, <2>4 DEF Inner, TlvsOf
  <2> QED
    BY <2>9 DEF t, v
<1> QED
  BY <1>2, <1>3

\* Fields within their ranges are written as a sequence of such TLVs.
LEMMA WrittenTyped ==
  ASSUME NEW f, Valued(f), Ranged(f), DOMAIN f \subseteq Plain
  PROVE  Written(f, PyPuts32) \in Seq(Inner)
<1> DEFINE w == Written(f, PyPuts32)
<1>1. Holds(w, f, PyPuts32)
  BY WrittenHolds, PlainSet
<1> HIDE DEF w
<1>2. w \in Seq({Tlv(x, BytesOf(f, x, PyPuts32)) : x \in DOMAIN f})
  BY <1>1 DEF Holds
<1>3. \A x \in DOMAIN f : Tlv(x, BytesOf(f, x, PyPuts32)) \in Inner
  BY FieldTyped, PlainSet
<1>4. \A i \in 1..Len(w) : w[i] \in Inner
  BY <1>1, <1>3 DEF Holds
<1>5. w \in Seq(Inner)
  BY <1>2, <1>4
<1> QED
  BY <1>5 DEF w

\* The frame of a message within the ranges is well formed.
LEMMA FrameTyped ==
  ASSUME NEW m, IsMessage(m), Ranged(m.fields),
         \A i \in DOMAIN m.items : Ranged(m.items[i])
  PROVE  PyFrame(m) \in Frames
<1> DEFINE G == GroupOf(m.kind)
           w == Written(m.fields, PyPuts32)
           g == WrittenItems(G, m.items, PyPuts32)
           h == Header(m.kind, CorrelationId)
           item(i) == Tlv(G, [len |-> 0, num |-> 0, text |-> NoText,
                              sub |-> Written(m.items[i], PyPuts32)])
<1>1. PyFrame(m) = [header |-> h, payload |-> w \o g]
  BY DEF PyFrame, FrameOf
<1>2. m.kind \in MessageType /\ DOMAIN m.items = 1..Len(m.items) /\ Len(m.items) \in Nat
      /\ (ItemAttributes(m.kind) = {} => m.items = <<>>)
  BY DEF IsMessage
<1>3. w \in Seq(Outer)
  <2>1. Valued(m.fields) /\ DOMAIN m.fields \subseteq Plain
    BY AttributesPlain DEF IsMessage, Carries, Valued
  <2>2. w \in Seq(Inner)
    BY <2>1, WrittenTyped
  <2> HIDE DEF w
  <2> QED
    BY <2>2, TlvTypes
<1>4. ASSUME NEW i \in 1..Len(m.items) PROVE item(i) \in Outer
  <2> DEFINE f == m.items[i]
  <2>1. Valued(f) /\ DOMAIN f \subseteq Plain /\ Ranged(f)
    BY <1>2, AttributesPlain DEF IsMessage, Carries, Valued
  <2> HIDE DEF f
  <2>2. Written(f, PyPuts32) \in Seq(Inner)
    BY <2>1, WrittenTyped
  <2>3. G \in {"SERVICE_REQUEST", "SERVICE_RESULT", "RELEASE_RESULT", "RESERVATION"}
    <3>1. G # "none"
      BY <1>2, AttributesPlain
    <3> QED
      BY <1>2, <3>1, GroupKinds
  <2>4. G \in Field /\ G \notin Texts
    BY <2>3, FieldSet DEF Texts
  <2> HIDE DEF G
  <2> DEFINE v == [len |-> 0, num |-> 0, text |-> NoText, sub |-> Written(f, PyPuts32)]
             t == Tlv(G, v)
  <2>5. v.len = 0 /\ v.num = 0 /\ v.text = NoText
        /\ v \in [len: Nat, num: Nat, text: TextValue, sub: Seq(Inner)]
    BY <2>2, TextsTyped
  <2> HIDE DEF v
  <2>6. t.field = G /\ t.value = v /\ t = [field |-> G, required |-> TRUE, form |-> "whole", value |-> v]
    BY DEF Tlv
  <2> HIDE DEF t
  <2>7. Piece(t)
    BY <2>4, <2>5, <2>6, TextsTyped, WidthAssumption DEF Piece
  <2>8. t \in Outer
    BY <2>4, <2>5, <2>6, <2>7 DEF Outer, TlvsOf
  <2> QED
    BY <2>8 DEF t, v, f
<1>5. g = [i \in 1..Len(m.items) |-> item(i)]
  BY <1>2 DEF WrittenItems
<1> HIDE DEF item, g, w
<1>6. g \in Seq(Outer)
  BY <1>2, <1>4, <1>5
<1>7. w \o g \in Seq(Outer)
  BY <1>3, <1>6
<1>8. h \in [magic: BOOLEAN, major: Nat, minor: Nat, kind: MessageType \cup {"unknown"},
             clean: BOOLEAN, correlation: Nat, fits: BOOLEAN]
  BY <1>2 DEF Header, CorrelationId
<1> HIDE DEF h
<1> QED
  BY <1>1, <1>7, <1>8 DEF Frames

\* What Send puts on the wire is a well-formed frame.
LEMMA SendTyped ==
  ASSUME IsMessage(msg), Send
  PROVE  frame' \in Frames
<1>1. CFrame(msg) = PyFrame(msg)
  BY SameWidths DEF CFrame, PyFrame
<1>2. (PyEncodes(msg) \/ CEncodes(msg)) /\ frame' = PyFrame(msg)
  BY <1>1 DEF Send
<1>3. Ranged(msg.fields) /\ \A i \in DOMAIN msg.items : Ranged(msg.items[i])
  <2>1. \A f : PyWritable(f) \/ CHolds(f) => Ranged(f)
    <3> SUFFICES ASSUME NEW f, PyWritable(f) \/ CHolds(f), NEW x \in DOMAIN f \ Texts
                 PROVE  f[x] < IF x \in PyPuts32 THEN U32 ELSE U64
      BY DEF Ranged
    <3>1. CASE PyWritable(f)
      <4>1. f[x] \in 0..((IF x \in PyPuts32 THEN U32 ELSE U64) - 1)
        BY <3>1 DEF PyWritable
      <4> QED
        BY <4>1, WidthAssumption
    <3>2. CASE CHolds(f)
      BY <3>2, SameWidths DEF CHolds
    <3> QED
      BY <3>1, <3>2
  <2> QED
    BY <1>2, <2>1 DEF PyEncodes, CEncodes
<1> QED
  BY <1>2, <1>3, FrameTyped

\* Altered frames are frames.

\* Altered TLVs are still TLVs, at either level of nesting.
LEMMA AlteredTyped ==
  ASSUME NEW Subs, <<>> \in Subs, NEW T, T = {t \in TlvsOf(Subs) : Piece(t)},
         NEW p \in Seq(T), NEW q \in AlteredTlvs(p)
  PROVE  q \in Seq(T)
<1>1. DOMAIN p = 1..Len(p) /\ Len(p) \in Nat /\ \A i \in DOMAIN p : p[i] \in T
  OBVIOUS
<1> DEFINE V == [len: Nat, num: Nat, text: TextValue, sub: Subs]
<1>2. \A t : t \in T <=>
        /\ t \in [field: Field \cup {"unknown"}, required: BOOLEAN,
                  form: {"whole", "flags", "padding", "cut"}, value: V]
        /\ Piece(t)
  BY DEF TlvsOf
<1>3. ASSUME NEW x \in Field \cup {"unknown"}, x \notin Texts, NEW r \in BOOLEAN, NEW n \in Nat,
             NEW l \in Nat, l = 4 => n < U32, l = 8 => n < U64
      PROVE  [field |-> x, required |-> r, form |-> "whole", value |-> NumberBytes(n, l)] \in T
  <2> DEFINE v == NumberBytes(n, l)
             t == [field |-> x, required |-> r, form |-> "whole", value |-> v]
  <2>1. v \in V /\ v.len = l /\ v.num = n /\ v.text = NoText
    BY TextsTyped DEF NumberBytes
  <2> HIDE DEF v, V
  <2>2. t.field = x /\ t.value = v
    OBVIOUS
  <2>3. Piece(t)
    <3> HIDE DEF t
    <3> QED
      BY <1>3, <2>1, <2>2, TextsTyped DEF Piece
  <2>4. t \in [field: Field \cup {"unknown"}, required: BOOLEAN,
               form: {"whole", "flags", "padding", "cut"}, value: V]
    BY <2>1
  <2> HIDE DEF t
  <2>5. t \in T
    BY <1>2, <2>3, <2>4
  <2> QED
    BY <2>5 DEF t, v
<1>4. ASSUME NEW i \in DOMAIN p, NEW v \in V,
             v.len = 4 => v.num < U32, v.len = 8 => v.num < U64,
             p[i].field \in Texts => v.text.len = v.len
      PROVE  [p EXCEPT ![i].value = v] \in Seq(T)
  <2> DEFINE t == [p[i] EXCEPT !.value = v]
  <2>1. p[i] \in [field: Field \cup {"unknown"}, required: BOOLEAN,
                  form: {"whole", "flags", "padding", "cut"}, value: V]
    BY <1>1, <1>2
  <2> HIDE DEF V
  <2>2. t \in [field: Field \cup {"unknown"}, required: BOOLEAN,
               form: {"whole", "flags", "padding", "cut"}, value: V]
        /\ t.field = p[i].field /\ t.value = v
    BY <2>1
  <2>3. [p EXCEPT ![i].value = v] = [p EXCEPT ![i] = t]
    OBVIOUS
  <2>4. v.len \in Nat /\ v.num \in Nat /\ v.text \in TextValue
    BY DEF V
  <2> HIDE DEF t
  <2>5. Piece(t)
    BY <1>4, <2>2, <2>4 DEF Piece
  <2>6. t \in T
    BY <1>2, <2>2, <2>5
  <2> QED
    BY <2>3, <2>6
<1> DEFINE A1 == {Chosen(p, DOMAIN p \ {i}) : i \in DOMAIN p}
           A2 == {Append(p, p[i]) : i \in DOMAIN p}
           A3 == {Append(p, Stray(r)) : r \in BOOLEAN}
           A4 == {Append(p, Tlv(x, NumberBytes(1, 8))) :
                    x \in {"CANONICAL_JOB_ID", "RESERVATION_ID", "RESERVATION"}}
           A5 == {[p EXCEPT ![i].form = b] : i \in DOMAIN p, b \in {"flags", "padding", "cut"}}
           A6 == UNION {{[p EXCEPT ![i].value =
                    IF p[i].field \in Texts THEN TextBytes(v)
                                            ELSE NumberBytes(v, @.len)] :
                   v \in Fitting(p[i])} :
                i \in {j \in DOMAIN p : p[j].value.sub = <<>>}}
           A7 == {[p EXCEPT ![i].value = NumberBytes(@.num % U32, 12 - @.len)] :
                    i \in {j \in DOMAIN p : /\ p[j].field \notin Texts
                                            /\ p[j].value.len \in {4, 8}}}
<1>5. q \in A1 \/ q \in A2 \/ q \in A3 \/ q \in A4 \/ q \in A5 \/ q \in A6 \/ q \in A7
  BY DEF AlteredTlvs
<1>6. CASE q \in A1
  <2>1. PICK i \in DOMAIN p : q = Chosen(p, DOMAIN p \ {i})
    BY <1>6
  <2> DEFINE I == DOMAIN p \ {i}
  <2> HIDE DEF I
  <2>2. Chosen(p, I) \in Seq(T)
    BY ChosenPlaces, Zenon
  <2> QED
    BY <2>1, <2>2 DEF I
<1>7. CASE q \in A2
  BY <1>1, <1>7
<1>8. CASE q \in A3
  <2>1. \A r \in BOOLEAN : Stray(r) \in T
    <3> TAKE r \in BOOLEAN
    <3>1. "unknown" \notin Texts
      BY DEF Texts
    <3> QED
      BY <1>3, <3>1, WidthAssumption DEF Stray
  <2> QED
    BY <1>8, <2>1
<1>9. CASE q \in A4
  <2>1. \A x \in {"CANONICAL_JOB_ID", "RESERVATION_ID", "RESERVATION"} :
          Tlv(x, NumberBytes(1, 8)) \in T
    <3> TAKE x \in {"CANONICAL_JOB_ID", "RESERVATION_ID", "RESERVATION"}
    <3>1. x \in Field /\ x \notin Texts
      BY FieldSet DEF Texts
    <3>2. 1 < U64
      BY WidthAssumption
    <3> QED
      <4>1. 1 \in Nat /\ 8 \in Nat /\ TRUE \in BOOLEAN /\ (8 = 4 => 1 < U32) /\ (8 = 8 => 1 < U64)
            /\ x \in Field \cup {"unknown"}
        BY <3>1, <3>2
      <4> QED
        BY <1>3, <3>1, <4>1, Zenon DEF Tlv
  <2> QED
    BY <1>9, <2>1
<1>10. CASE q \in A5
  <2>1. PICK i \in DOMAIN p, b \in {"flags", "padding", "cut"} : q = [p EXCEPT ![i].form = b]
    BY <1>10
  <2> DEFINE t == [p[i] EXCEPT !.form = b]
  <2>2. p[i] \in [field: Field \cup {"unknown"}, required: BOOLEAN,
                  form: {"whole", "flags", "padding", "cut"}, value: V] /\ Piece(p[i])
    BY <1>1, <1>2
  <2> HIDE DEF V
  <2>3. t \in [field: Field \cup {"unknown"}, required: BOOLEAN,
               form: {"whole", "flags", "padding", "cut"}, value: V]
        /\ t.field = p[i].field /\ t.value = p[i].value
    BY <2>2
  <2>4. q = [p EXCEPT ![i] = t]
    BY <2>1
  <2> HIDE DEF t
  <2>5. Piece(t)
    BY <2>2, <2>3 DEF Piece
  <2>6. t \in T
    BY <1>2, <2>3, <2>5
  <2> QED
    BY <2>4, <2>6
<1>11. CASE q \in A6
  <2>0. PICK i \in DOMAIN p : \E v \in Fitting(p[i]) :
          q = [p EXCEPT ![i].value = IF p[i].field \in Texts THEN TextBytes(v)
                                     ELSE NumberBytes(v, @.len)]
    BY <1>11
  <2>1. PICK v \in Fitting(p[i]) :
          q = [p EXCEPT ![i].value = IF p[i].field \in Texts THEN TextBytes(v)
                                     ELSE NumberBytes(v, @.len)]
    BY <2>0
  <2> DEFINE u == IF p[i].field \in Texts THEN TextBytes(v) ELSE NumberBytes(v, p[i].value.len)
  <2>2. q = [p EXCEPT ![i].value = u]
    BY <2>1
  <2>3. p[i].value.len \in Nat
    BY <1>1, <1>2 DEF Piece
  <2>4. u \in V /\ (u.len = 4 => u.num < U32) /\ (u.len = 8 => u.num < U64)
        /\ (p[i].field \in Texts => u.text.len = u.len)
    <3>1. CASE p[i].field \in Texts
      <4>1. v \in TextValue
        BY <2>1, <3>1, TextsTyped DEF Fitting
      <4>2. u = [len |-> v.len, num |-> 0, text |-> v, sub |-> <<>>] /\ v.len \in Nat
        BY <3>1, <4>1 DEF TextBytes, TextValue
      <4> HIDE DEF u
      <4> QED
        BY <3>1, <4>1, <4>2, WidthAssumption
    <3>2. CASE p[i].field \notin Texts
      <4>1. v \in Nat /\ v < IF p[i].value.len = 4 THEN U32 ELSE U64
        BY <2>1, <3>2, TextsTyped DEF Fitting
      <4>2. u = [len |-> p[i].value.len, num |-> v, text |-> NoText, sub |-> <<>>]
        BY <3>2 DEF NumberBytes
      <4> HIDE DEF u
      <4> QED
        BY <2>3, <3>2, <4>1, <4>2, TextsTyped
    <3> QED
      BY <3>1, <3>2
  <2> HIDE DEF u, V
  <2>5. [p EXCEPT ![i].value = u] \in Seq(T)
    BY <1>4, <2>4
  <2> QED
    BY <2>2, <2>5
<1>12. CASE q \in A7
  <2>1. PICK i \in {j \in DOMAIN p : p[j].field \notin Texts /\ p[j].value.len \in {4, 8}} :
          q = [p EXCEPT ![i].value = NumberBytes(@.num % U32, 12 - @.len)]
    BY <1>12
  <2> DEFINE u == NumberBytes(p[i].value.num % U32, 12 - p[i].value.len)
  <2>2. q = [p EXCEPT ![i].value = u]
    BY <2>1
  <2>3. p[i].value.num \in Nat
    BY <1>1, <1>2, <2>1 DEF Piece
  <2>4. p[i].value.num % U32 \in Nat /\ p[i].value.num % U32 < U32 /\ p[i].value.num % U32 < U64
    <3> DEFINE n == p[i].value.num
    <3> HIDE DEF n
    <3>1. n % U32 \in 0..(U32 - 1)
      BY <2>3, WidthAssumption DEF n
    <3> DEFINE r == n % U32
    <3> HIDE DEF r
    <3>2. r \in Nat /\ r < U32 /\ r < U64
      BY <3>1, WidthAssumption DEF r
    <3> QED
      BY <3>2 DEF r, n
  <2>5. u \in V /\ u.num = p[i].value.num % U32
    BY <2>1, <2>4, TextsTyped DEF NumberBytes
  <2> HIDE DEF u, V
  <2>6. [p EXCEPT ![i].value = u] \in Seq(T)
    BY <1>4, <2>1, <2>4, <2>5
  <2> QED
    BY <2>2, <2>6
<1> HIDE DEF A1, A2, A3, A4, A5, A6, A7
<1> QED
  BY <1>5, <1>6, <1>7, <1>8, <1>9, <1>10, <1>11, <1>12

\* An altered frame is still a frame.
LEMMA AlterTyped ==
  ASSUME frame \in Frames, Alter
  PROVE  frame' \in Frames
<1> DEFINE H == [magic: BOOLEAN, major: Nat, minor: Nat, kind: MessageType \cup {"unknown"},
                 clean: BOOLEAN, correlation: Nat, fits: BOOLEAN]
           h == frame.header
           p == frame.payload
<1>1. frame \in [header: H, payload: Seq(Outer)]
  BY DEF Frames
<1>2. h \in H /\ p \in Seq(Outer)
  BY <1>1
<1>3. \A q \in AlteredTlvs(p) : q \in Seq(Outer)
  <2>1. <<>> \in Seq(Inner) /\ Outer = {t \in TlvsOf(Seq(Inner)) : Piece(t)}
    BY DEF Outer
  <2> QED
    BY <1>2, <2>1, AlteredTyped
<1>4. \A w \in Seq(Inner) : \A q \in AlteredTlvs(w) : q \in Seq(Inner)
  <2>1. <<>> \in {<<>>} /\ Inner = {t \in TlvsOf({<<>>}) : Piece(t)}
    BY DEF Inner
  <2> QED
    BY <2>1, AlteredTyped
<1>5. \A a \in AlteredHeaders(h) : a \in H
  <2>1. /\ [h EXCEPT !.magic = FALSE] \in H /\ [h EXCEPT !.major = 2] \in H
        /\ [h EXCEPT !.minor = 1] \in H /\ [h EXCEPT !.clean = FALSE] \in H
        /\ [h EXCEPT !.correlation = 0] \in H /\ [h EXCEPT !.fits = FALSE] \in H
    BY <1>2
  <2>2. \A k \in MessageType \cup {"unknown"} : [h EXCEPT !.kind = k] \in H
    BY <1>2
  <2> HIDE DEF H, h
  <2> QED
    BY <2>1, <2>2, Zenon DEF AlteredHeaders
<1> HIDE DEF H
<1>6. CASE frame' \in {[frame EXCEPT !.payload = q] : q \in AlteredTlvs(p)}
  BY <1>1, <1>3, <1>6 DEF Frames, H
<1>7. CASE frame' \in {[frame EXCEPT !.header = a] : a \in AlteredHeaders(h)}
  BY <1>1, <1>5, <1>7 DEF Frames, H
<1>8. CASE \E i \in DOMAIN p : frame' \in {[frame EXCEPT !.payload[i].value.sub = q] :
                                             q \in AlteredTlvs(p[i].value.sub)}
  <2>0. PICK i \in DOMAIN p : frame' \in {[frame EXCEPT !.payload[i].value.sub = q] :
                                             q \in AlteredTlvs(p[i].value.sub)}
    BY <1>8
  <2>1. PICK q \in AlteredTlvs(p[i].value.sub) :
          frame' = [frame EXCEPT !.payload[i].value.sub = q]
    BY <2>0
  <2>2. p[i] \in Outer
    BY <1>2
  <2>3. q \in Seq(Inner)
    BY <1>4, <2>1, <2>2, TlvTypes
  <2> DEFINE t == [p[i] EXCEPT !.value.sub = q]
  <2>4. p[i] \in TlvsOf(Seq(Inner)) /\ Piece(p[i])
    BY <2>2 DEF Outer
  <2>5. /\ t \in TlvsOf(Seq(Inner)) /\ t.field = p[i].field
        /\ t.value.len = p[i].value.len /\ t.value.num = p[i].value.num
        /\ t.value.text = p[i].value.text
    BY <2>3, <2>4 DEF TlvsOf
  <2>6. frame' = [frame EXCEPT !.payload = [p EXCEPT ![i] = t]]
    BY <2>1, <1>1
  <2> HIDE DEF t
  <2>7. t \in Outer
    BY <2>4, <2>5 DEF Outer, Piece
  <2>8. [p EXCEPT ![i] = t] \in Seq(Outer)
    BY <1>2, <2>7
  <2> QED
    BY <1>1, <2>6, <2>8 DEF Frames, H
<1> QED
  BY <1>6, <1>7, <1>8 DEF Alter

-----------------------------------------------------------------------------
(* The invariant is inductive.                                             *)

\* The replies that are tried are replies.
LEMMA ReplyTyped ==
  /\ GoodReply \in Reply
  /\ \A r \in Reply : ReplyEdits(r) \subseteq Reply
<1> DEFINE Sets == {{}} \cup {{n} : n \in Int}
           Names1 == {t \in TextValue : t.len > 0 /\ ~ t.nul /\ t.utf8}
<1>1. Reply = [status: Nat, id: Sets, reason: Int, time: Sets, message: TextValue,
               runtime: Names1, generation: Int]
  BY DEF Reply
<1>2. \A id, len \in Nat : len > 0 => Text(id, len) \in Names1
  <2> SUFFICES ASSUME NEW id \in Nat, NEW len \in Nat, len > 0 PROVE Text(id, len) \in Names1
    OBVIOUS
  <2>1. Text(id, len) \in TextValue
    BY TextsTyped
  <2>2. Text(id, len).len = len /\ Text(id, len).nul = FALSE /\ Text(id, len).utf8 = TRUE
    BY DEF Text
  <2> QED
    BY <2>1, <2>2
<1>3. {} \in Sets /\ \A n \in Int : {n} \in Sets
  OBVIOUS
<1>4. U32 \in Nat /\ U64 \in Nat /\ U64 - 1 \in Int /\ U32 - 1 \in Int /\ -1 \in Int
      /\ NotInt \in Int /\ 0 \in Int /\ 1 \in Int /\ U64 \in Int /\ U32 \in Int
  BY WidthAssumption DEF NotInt
<1>5. /\ Text(5, 8) \in Names1 /\ Text(8, MAX_SERVICE_ID) \in Names1
      /\ Text(9, MAX_SERVICE_ID + 1) \in Names1
  BY <1>2 DEF MAX_SERVICE_ID
<1>6. NoText \in TextValue /\ TextsOf("DIAGNOSTIC") \subseteq TextValue
  BY TextsTyped
<1> HIDE DEF Sets, Names1
<1>7. GoodReply \in Reply
  BY <1>1, <1>3, <1>4, <1>5, <1>6 DEF GoodReply, Accepted
<1>8. ASSUME NEW r \in Reply, NEW e \in ReplyEdits(r) PROVE e \in Reply
  <2>1. CASE e \in {[r EXCEPT !.status = s] : s \in {0, Delayed, Rejected}}
    BY <1>1, <2>1 DEF Delayed, Rejected
  <2>2. CASE e \in {[r EXCEPT !.id = n] : n \in {{}, {NotInt}, {-1}, {0}, {U64 - 1}, {U64}}}
    <3>1. {{}, {NotInt}, {-1}, {0}, {U64 - 1}, {U64}} \subseteq Sets
      BY <1>3, <1>4
    <3> QED
      BY <1>1, <2>2, <3>1
  <2>3. CASE e \in {[r EXCEPT !.reason = n] : n \in {-1, U32 - 1, U32}}
    BY <1>1, <1>4, <2>3
  <2>4. CASE e \in {[r EXCEPT !.time = n] : n \in {{NotInt}, {-1}, {0}, {U64 - 1}, {U64}}}
    <3>1. {{NotInt}, {-1}, {0}, {U64 - 1}, {U64}} \subseteq Sets
      BY <1>3, <1>4
    <3> QED
      BY <1>1, <2>4, <3>1
  <2>5. CASE e \in {[r EXCEPT !.message = t] : t \in TextsOf("DIAGNOSTIC")}
    BY <1>1, <1>6, <2>5
  <2>6. CASE e \in {[r EXCEPT !.runtime = t] :
                      t \in {Text(8, MAX_SERVICE_ID), Text(9, MAX_SERVICE_ID + 1)}}
    BY <1>1, <1>5, <2>6
  <2>7. CASE e \in {[r EXCEPT !.generation = n] : n \in {-1, U64 - 1, U64}}
    BY <1>1, <1>4, <2>7
  <2> QED
    BY <1>8, <2>1, <2>2, <2>3, <2>4, <2>5, <2>6, <2>7, Zenon DEF ReplyEdits
<1> QED
  BY <1>7, <1>8

\* The inductive invariant holds at first.
LEMMA WireInit == Init => WireInv
<1> SUFFICES ASSUME Init PROVE WireInv
  OBVIOUS
<1>1. CASE stage = "compose" /\ msg \in Samples /\ replies = <<>>
  BY <1>1, WireAssumption DEF WireInv
<1>2. CASE stage = "ask" /\ msg = QpmError
           /\ replies \in {<<GoodReply>>, <<GoodReply, GoodReply>>}
  <2>1. replies \in Seq(Reply) /\ Len(replies) \in {1, 2}
    <3>1. CASE replies = <<GoodReply>>
      BY <3>1, ReplyTyped
    <3>2. CASE replies = <<GoodReply, GoodReply>>
      BY <3>2, ReplyTyped
    <3> QED
      BY <1>2, <3>1, <3>2
  <2>2. Len(replies) \in 1..MAX_SERVICES
    BY <2>1 DEF MAX_SERVICES
  <2> QED
    BY <1>2, <2>1, <2>2 DEF WireInv
<1> QED
  BY <1>1, <1>2 DEF Init

\* Other replies, and as many as there can be, are replies.
LEMMA SetReplyTyped ==
  ASSUME replies \in Seq(Reply), Len(replies) \in 1..MAX_SERVICES, SetReply
  PROVE  replies' \in Seq(Reply) /\ Len(replies') \in 1..MAX_SERVICES
<1>1. CASE \E i \in DOMAIN replies \cap 1..2 :
             \E r \in ReplyEdits(replies[i]) : replies' = [replies EXCEPT ![i] = r]
  <2>1. PICK i \in DOMAIN replies : \E r \in ReplyEdits(replies[i]) :
           replies' = [replies EXCEPT ![i] = r]
    BY <1>1
  <2>2. PICK r \in ReplyEdits(replies[i]) : replies' = [replies EXCEPT ![i] = r]
    BY <2>1
  <2>3. r \in Reply
    BY <2>2, ReplyTyped
  <2> QED
    BY <2>2, <2>3
<1>2. CASE Len(replies) = 1 /\ replies' = [i \in 1..MAX_SERVICES |-> replies[1]]
  <2>1. MAX_SERVICES \in Nat /\ MAX_SERVICES \in 1..MAX_SERVICES
    BY DEF MAX_SERVICES
  <2>2. replies[1] \in Reply
    BY <1>2
  <2> DEFINE r == replies[1]
             n == MAX_SERVICES
  <2>3. replies' = [i \in 1..n |-> r]
    BY <1>2
  <2> HIDE DEF r, n
  <2>4. replies' \in Seq(Reply) /\ Len(replies') = n
    BY <2>1, <2>2, <2>3 DEF r, n
  <2> QED
    BY <2>1, <2>4 DEF n
<1> QED
  BY <1>1, <1>2 DEF SetReply

\* The answer is a function of the replies.
LEMMA AnswersStay ==
  ASSUME replies' = replies
  PROVE  EvaluateAnswer' = EvaluateAnswer /\ ReserveAnswer' = ReserveAnswer
<1>1. EvaluateAnswer' = EvaluateAnswer
  BY DEF EvaluateAnswer, Malformed, ResultOf
<1>2. \A i : Malformed(i, TRUE)' = Malformed(i, TRUE)
  BY DEF Malformed
<1>3. \A i : ResultOf(i, TRUE)' = ResultOf(i, TRUE)
  BY DEF ResultOf
<1>4. Stops' = Stops
  BY DEF Stops, Malformed
<1>5. Last' = Last
  BY <1>4 DEF Last
<1>6. Malformed(Last, TRUE)' = Malformed(Last, TRUE) /\ ResultOf(Last, TRUE)' = ResultOf(Last, TRUE)
  BY <1>2, <1>3, <1>5 DEF Malformed, ResultOf
<1>7. \A f : [i \in 1..Last |-> IF i = Last THEN f ELSE RolledBack(ResultOf(i, TRUE), f)]'
        = [i \in 1..Last |-> IF i = Last THEN f ELSE RolledBack(ResultOf(i, TRUE), f)]
  BY <1>3, <1>5 DEF RolledBack, ResultOf
<1>8. ReserveAnswer' = ReserveAnswer
  BY <1>2, <1>3, <1>4, <1>5, <1>6, <1>7 DEF ReserveAnswer, AdmissionResponse, QpmError
<1> QED
  BY <1>1, <1>8

\* Every step keeps the inductive invariant.
LEMMA WireStep == WireInv /\ [Next]_vars => WireInv'
<1> SUFFICES ASSUME WireInv, [Next]_vars PROVE WireInv'
  OBVIOUS
<1>1. CASE SetField
  <2>1. stage = "compose" /\ stage' = "compose" /\ IsMessage(msg)
    BY <1>1 DEF SetField, WireInv
  <2>2. IsMessage(msg')
    BY <1>1, <2>1, SetFieldKeeps
  <2> QED
    BY <2>1, <2>2 DEF WireInv
<1>2. CASE SetItem
  <2>1. stage = "compose" /\ stage' = "compose" /\ IsMessage(msg)
    BY <1>2 DEF SetItem, WireInv
  <2>2. IsMessage(msg')
    BY <1>2, <2>1, SetItemKeeps
  <2> QED
    BY <2>1, <2>2 DEF WireInv
<1>3. CASE Resize
  <2>1. stage = "compose" /\ stage' = "compose" /\ IsMessage(msg)
    BY <1>3 DEF Resize, WireInv
  <2>2. IsMessage(msg')
    BY <1>3, <2>1, ResizeKeeps
  <2> QED
    BY <2>1, <2>2 DEF WireInv
<1>4. CASE SetReply
  <2>1. stage = "ask" /\ stage' = "ask" /\ msg' = msg
    BY <1>4 DEF SetReply
  <2>2. replies' \in Seq(Reply) /\ Len(replies') \in 1..MAX_SERVICES
    BY <1>4, <2>1, SetReplyTyped DEF WireInv
  <2>3. QpmError' = QpmError
    BY DEF QpmError
  <2> QED
    BY <2>1, <2>2, <2>3 DEF WireInv
<1>5. CASE Answer
  <2>1. stage = "ask" /\ stage' = "answered" /\ replies' = replies
        /\ msg' \in {EvaluateAnswer, ReserveAnswer}
    BY <1>5 DEF Answer
  <2>2. EvaluateAnswer' = EvaluateAnswer
    BY <2>1, AnswersStay
  <2>3. ReserveAnswer' = ReserveAnswer
    BY <2>1, AnswersStay
  <2> QED
    BY <2>1, <2>2, <2>3 DEF WireInv
<1>6. CASE Send
  <2>1. stage = "compose" /\ stage' = "sent" /\ IsMessage(msg) /\ msg' = msg
    BY <1>6 DEF Send, WireInv
  <2>2. frame' \in Frames
    BY <1>6, <2>1, SendTyped
  <2> QED
    BY <2>1, <2>2 DEF WireInv
<1>7. CASE Alter
  <2>1. stage = "sent" /\ stage' = "sent" /\ IsMessage(msg) /\ msg' = msg /\ frame \in Frames
    BY <1>7 DEF Alter, WireInv
  <2>2. frame' \in Frames
    BY <1>7, <2>1, AlterTyped
  <2> QED
    BY <2>1, <2>2 DEF WireInv
<1>8. CASE UNCHANGED vars
  <2>1. stage' = stage /\ msg' = msg /\ replies' = replies /\ frame' = frame
    BY <1>8 DEF vars
  <2>2. EvaluateAnswer' = EvaluateAnswer
    BY <2>1, AnswersStay
  <2>3. ReserveAnswer' = ReserveAnswer
    BY <2>1, AnswersStay
  <2>4. QpmError' = QpmError
    BY DEF QpmError
  <2> QED
    BY <2>1, <2>2, <2>3, <2>4 DEF WireInv
<1> QED
  BY <1>1, <1>2, <1>3, <1>4, <1>5, <1>6, <1>7, <1>8 DEF Next

\* What is composed or sent is always a message with the attributes of its
\* dataclass in protocol.py, what is on the wire is always a sequence of TLVs
\* whose numbers fit their bytes, and an answer is what GatewayService makes
\* of the replies at hand.
THEOREM WireTyped == Spec => []WireInv
  BY WireInit, WireStep, PTL DEF Spec

\* What either encoder writes, for any sample, any widths and any number of
\* changes, the other side reads back as the same message (encode_response
\* and the request encoders of protocol.py against qsgp_decode.c, and
\* qsgp_encode.c against decode_request): no field is lost, narrowed or
\* refused.
THEOREM RoundTripHolds == Spec => []RoundTrip
<1>1. WireInv => RoundTrip
  BY MessageRoundTrip DEF WireInv, RoundTrip
<1> QED
  BY <1>1, WireTyped, PTL

\* On every frame that alteration can make, protocol.py and qsgp_decode.c
\* both refuse it or both read the same message.
THEOREM DecodersAgreeHolds == Spec => []DecodersAgree
<1>1. WireInv => DecodersAgree
  BY FrameAgree DEF WireInv, DecodersAgree
<1> QED
  BY <1>1, WireTyped, PTL

\* The gateway acts only on requests that qsgp_encode.c could have written,
\* and the client only on answers that protocol.py could have written, with
\* the two exceptions the property names.
THEOREM AcceptedIsWritableHolds == Spec => []AcceptedIsWritable
<1>1. WireInv => AcceptedIsWritable
  <2> SUFFICES ASSUME WireInv, stage = "sent"
               PROVE  /\ \A m \in PyDecode(frame) : m.kind \in Requests => CEncodes(m)
                      /\ \A m \in CDecode(frame) :
                           m.kind \in Responses =>
                             \/ PyEncodes(m)
                             \/ OnlyC(m)
                             \/ m.kind = "ERROR_RESPONSE" /\ m.fields["GATEWAY_ERROR_CODE"] > 11
                             \/ m.kind = "RELEASE_RESPONSE" /\
                                  \/ ~ Distinct(m.items)
                                  \/ \E i \in DOMAIN m.items :
                                       /\ "GATEWAY_ERROR_CODE" \in DOMAIN m.items[i]
                                       /\ m.items[i]["GATEWAY_ERROR_CODE"] \notin 1..11
    BY DEF AcceptedIsWritable
  <2>1. frame \in Frames
    BY DEF WireInv
  <2> QED
    BY <2>1, RequestWritable, AnswerWritable
<1> QED
  BY <1>1, WireTyped, PTL

-----------------------------------------------------------------------------
(* What the gateway makes of one reply.                                    *)

ResultNames == {"SERVICE_ID", "ADMISSION_DECISION", "REASON_CODE", "QPM_RUNTIME_ID",
                "QPM_GENERATION"}
ResultTimes == {"RETRY_AFTER_NS", "ESTIMATED_START_NS", "ESTIMATED_FINISH_NS"}

\* x is the result of a service: only its generation may be no number of the
\* wire format.
Shaped(x) ==
  /\ x = [y \in DOMAIN x |-> x[y]]
  /\ ResultNames \subseteq DOMAIN x
  /\ DOMAIN x \subseteq ResultNames \cup ResultTimes \cup {"RESERVATION_ID", "DIAGNOSTIC"}
  /\ \A y \in DOMAIN x \ {"QPM_GENERATION"} : x[y] \in IF y \in Texts THEN TextValue ELSE Nat

\* x is what becomes of an honest reply r for service s.
Outcome(x, r, s, reserve) ==
  /\ Shaped(x)
  /\ x["SERVICE_ID"] = s
  /\ x["ADMISSION_DECISION"] = r.status
  /\ "RESERVATION_ID" \in DOMAIN x <=> reserve /\ r.status = Accepted
  /\ "RESERVATION_ID" \in DOMAIN x => x["RESERVATION_ID"] # 0
  /\ Printable(r) => PyWritable(x)

\* A name that fits its field.
Named(s) == s \in TextValue /\ s.len \in 1..MAX_SERVICE_ID /\ ~ s.nul /\ s.utf8

\* _normalize_admission refuses exactly the replies that are not honest, and
\* its result for an honest one has the shape, the decision and the
\* reservation that the encoder asks for.
LEMMA NormalisedIs ==
  ASSUME NEW r \in Reply, NEW s, Named(s), NEW reserve \in BOOLEAN
  PROVE  /\ Normalised(r, s, reserve) = {} <=> ~ Honest(r, reserve)
         /\ Honest(r, reserve) =>
              \E x : Normalised(r, s, reserve) = {x} /\ Outcome(x, r, s, reserve)
<1> DEFINE id   == IF r.id = {0} THEN {} ELSE r.id
           held == reserve /\ r.status = Accepted
           base == [x \in {"SERVICE_ID", "ADMISSION_DECISION", "REASON_CODE",
                      "QPM_RUNTIME_ID", "QPM_GENERATION"} |->
                 CASE x = "SERVICE_ID" -> s
                   [] x = "ADMISSION_DECISION" -> r.status
                   [] x = "REASON_CODE" -> r.reason
                   [] x = "QPM_RUNTIME_ID" -> r.runtime
                   [] x = "QPM_GENERATION" -> r.generation]
           times == IF r.time = {} THEN {}
                    ELSE {"RETRY_AFTER_NS", "ESTIMATED_START_NS", "ESTIMATED_FINISH_NS"}
           more == (IF held THEN {"RESERVATION_ID"} ELSE {}) \cup times
                     \cup (IF r.message.len > 0 THEN {"DIAGNOSTIC"} ELSE {})
           taken == /\ r.status \in {Accepted, Delayed, Rejected}
                    /\ id # {NotInt}
                    /\ r.reason \in 0..(U32 - 1)
                    /\ held => id # {} /\ id \subseteq 1..(U64 - 1)
                    /\ ~ reserve => id = {}
                    /\ r.time \subseteq 0..(U64 - 1)
           X == [x \in DOMAIN base \cup more |->
               CASE x \in DOMAIN base -> base[x]
                 [] x = "RESERVATION_ID" -> CHOOSE n \in id : TRUE
                 [] x \in times -> CHOOSE n \in r.time : TRUE
                 [] x = "DIAGNOSTIC" -> bounded_diagnostic(r.message)]
<1>1. Normalised(r, s, reserve) = IF taken THEN {X} ELSE {}
  BY DEF Normalised
<1>2. taken <=> Honest(r, reserve)
  BY DEF Honest, NotInt
<1>3. /\ DOMAIN base = ResultNames
      /\ base["SERVICE_ID"] = s /\ base["ADMISSION_DECISION"] = r.status
      /\ base["REASON_CODE"] = r.reason /\ base["QPM_RUNTIME_ID"] = r.runtime
      /\ base["QPM_GENERATION"] = r.generation
  BY DEF ResultNames
<1> HIDE DEF base
<1>4. /\ DOMAIN X = ResultNames \cup more
      /\ X = [x \in DOMAIN X |-> X[x]]
  BY <1>3
<1>5. \A x \in ResultNames : X[x] = base[x]
  BY <1>3 DEF ResultNames
<1>6. held => X["RESERVATION_ID"] = CHOOSE n \in id : TRUE
  BY <1>3 DEF ResultNames
<1>7. \A x \in times : X[x] = CHOOSE n \in r.time : TRUE
  BY <1>3 DEF ResultNames
<1>8. r.message.len > 0 => X["DIAGNOSTIC"] = bounded_diagnostic(r.message)
  BY <1>3 DEF ResultNames
<1> HIDE DEF X
<1>9. \A S : S \in {{}} \cup {{n} : n \in Int} /\ S # {} => (CHOOSE n \in S : TRUE) \in S
  OBVIOUS
<1>10. /\ r.status \in Nat /\ r.id \in {{}} \cup {{n} : n \in Int}
       /\ r.time \in {{}} \cup {{n} : n \in Int}
       /\ r.message \in TextValue /\ r.runtime \in TextValue /\ r.runtime.len > 0
       /\ ~ r.runtime.nul /\ r.runtime.utf8
  BY DEF Reply
<1>11. ASSUME taken
       PROVE  /\ r.status \in 1..3 /\ r.reason \in 0..(U32 - 1)
              /\ held => X["RESERVATION_ID"] \in 1..(U64 - 1)
              /\ \A x \in times : X[x] \in 0..(U64 - 1)
  <2>1. r.status \in 1..3 /\ r.reason \in 0..(U32 - 1)
    BY <1>11 DEF Accepted, Delayed, Rejected
  <2>2. ASSUME held PROVE X["RESERVATION_ID"] \in 1..(U64 - 1)
    <3>1. id \in {{}} \cup {{n} : n \in Int} /\ id # {} /\ id \subseteq 1..(U64 - 1)
      BY <1>10, <1>11, <2>2
    <3> QED
      BY <1>6, <1>9, <2>2, <3>1
  <2>3. ASSUME NEW x \in times PROVE X[x] \in 0..(U64 - 1)
    <3>1. r.time # {} /\ r.time \subseteq 0..(U64 - 1)
      BY <1>11
    <3> QED
      BY <1>7, <1>9, <1>10, <3>1
  <2> QED
    BY <2>1, <2>2, <2>3
<1>12. r.message.len > 0 =>
         /\ X["DIAGNOSTIC"] \in TextValue /\ X["DIAGNOSTIC"].len \in 1..MAX_DIAGNOSTIC
         /\ X["DIAGNOSTIC"].nul = r.message.nul /\ X["DIAGNOSTIC"].utf8
  <2> DEFINE t == r.message
             b == bounded_diagnostic(t)
             c == IF t.len <= 4096 THEN t.len ELSE 4096
  <2>1. t \in TextValue /\ t.len \in Nat
    BY <1>10 DEF TextValue
  <2>2. c \in Nat /\ c <= 4096 /\ (t.len > 0 => c > 0)
    BY <2>1
  <2>3. b = [t EXCEPT !.utf8 = TRUE, !.len = c]
    BY <2>1 DEF bounded_diagnostic, MAX_DIAGNOSTIC, TextValue
  <2> HIDE DEF b, t, c
  <2>4. b \in TextValue
    <3>1. b = [id |-> t.id, len |-> c, nul |-> t.nul, utf8 |-> TRUE]
      BY <2>1, <2>3 DEF TextValue
    <3>2. t.id \in Nat /\ t.nul \in BOOLEAN
      BY <2>1 DEF TextValue
    <3> QED
      BY <2>2, <3>1, <3>2 DEF TextValue
  <2>5. b.utf8 = TRUE /\ b.nul = t.nul
    BY <2>1, <2>3 DEF TextValue
  <2>6. b.len = c
    BY <2>1, <2>3 DEF TextValue
  <2>7. t.len > 0 => b.len \in 1..MAX_DIAGNOSTIC
    BY <2>2, <2>6 DEF MAX_DIAGNOSTIC
  <2> QED
    BY <1>8, <2>4, <2>5, <2>7 DEF b, t
<1>13. /\ X["SERVICE_ID"] = s /\ X["ADMISSION_DECISION"] = r.status
       /\ X["REASON_CODE"] = r.reason /\ X["QPM_RUNTIME_ID"] = r.runtime
       /\ X["QPM_GENERATION"] = r.generation
  BY <1>3, <1>5 DEF ResultNames
<1>14. more \subseteq ResultTimes \cup {"RESERVATION_ID", "DIAGNOSTIC"}
       /\ ("RESERVATION_ID" \in more <=> held)
       /\ ("DIAGNOSTIC" \in more <=> r.message.len > 0)
       /\ more \cap ResultTimes = times
  BY DEF ResultTimes
<1> HIDE DEF id, held, times, more
<1>15. ASSUME taken PROVE Shaped(X)
  <2>1. ASSUME NEW y \in DOMAIN X \ {"QPM_GENERATION"}
        PROVE  X[y] \in IF y \in Texts THEN TextValue ELSE Nat
    <3>1. CASE y \in {"SERVICE_ID", "ADMISSION_DECISION", "REASON_CODE", "QPM_RUNTIME_ID"}
      BY <1>10, <1>11, <1>13, <1>15, <3>1, WidthAssumption DEF Texts, Named
    <3>2. CASE y = "RESERVATION_ID"
      BY <1>4, <1>11, <1>14, <1>15, <3>2, WidthAssumption DEF Texts, ResultNames
    <3>3. CASE y = "DIAGNOSTIC"
      BY <1>4, <1>12, <1>14, <3>3 DEF Texts, ResultNames
    <3>4. CASE y \in times
      BY <1>11, <1>14, <1>15, <3>4, WidthAssumption DEF Texts, ResultTimes
    <3> QED
      BY <1>4, <1>14, <2>1, <3>1, <3>2, <3>3, <3>4 DEF ResultNames
  <2> QED
    BY <1>4, <1>14, <2>1 DEF Shaped
<1>16. ASSUME taken, Printable(r) PROVE PyWritable(X)
  <2> SUFFICES ASSUME NEW y \in DOMAIN X
               PROVE  IF y \in Texts
                      THEN X[y].len > 0 /\ X[y].len <= PyTextMax(y) /\ ~ X[y].nul /\ X[y].utf8
                      ELSE X[y] \in 0..((IF y \in PyPuts32 THEN U32 ELSE U64) - 1)
    BY DEF PyWritable
  <2>1. CASE y = "SERVICE_ID"
    BY <1>13, <2>1 DEF Texts, Named, PyTextMax, MAX_SERVICE_ID, TextValue
  <2>2. CASE y = "QPM_RUNTIME_ID"
    BY <1>10, <1>13, <1>16, <2>2 DEF Texts, PyTextMax, Printable
  <2>3. CASE y = "ADMISSION_DECISION"
    BY <1>11, <1>13, <1>16, <2>3, WidthAssumption DEF Texts, PyPuts32
  <2>4. CASE y = "REASON_CODE"
    BY <1>11, <1>13, <1>16, <2>4, WidthAssumption DEF Texts, PyPuts32
  <2>5. CASE y = "QPM_GENERATION"
    BY <1>13, <1>16, <2>5 DEF Texts, PyPuts32, Printable
  <2>6. CASE y = "RESERVATION_ID"
    BY <1>4, <1>11, <1>14, <1>16, <2>6, WidthAssumption DEF Texts, ResultNames, PyPuts32
  <2>7. CASE y = "DIAGNOSTIC"
    <3>1. r.message.len > 0
      BY <1>4, <1>14, <2>7 DEF ResultNames
    <3>2. ~ r.message.nul /\ PyTextMax("DIAGNOSTIC") = MAX_DIAGNOSTIC /\ MAX_DIAGNOSTIC \in Nat
      BY <1>16 DEF Printable, PyTextMax, MAX_DIAGNOSTIC
    <3> QED
      BY <1>12, <2>7, <3>1, <3>2 DEF Texts
  <2>8. CASE y \in times
    BY <1>11, <1>14, <1>16, <2>8, WidthAssumption DEF Texts, ResultTimes, PyPuts32
  <2> QED
    BY <1>4, <1>14, <2>1, <2>2, <2>3, <2>4, <2>5, <2>6, <2>7, <2>8 DEF ResultNames
<1>17. ASSUME taken PROVE Outcome(X, r, s, reserve)
  <2>1. "RESERVATION_ID" \in DOMAIN X <=> held
    BY <1>4, <1>14 DEF ResultNames
  <2>2. held => X["RESERVATION_ID"] # 0
    BY <1>11, <1>17, WidthAssumption
  <2> HIDE DEF taken
  <2> QED
    BY <1>13, <1>15, <1>16, <1>17, <2>1, <2>2 DEF Outcome, held
<1> HIDE DEF taken
<1>20. QED
  BY <1>1, <1>2, <1>17

-----------------------------------------------------------------------------
(* What it makes of each service asked.                                    *)

\* The services asked have names that fit their fields and are told apart by them.
LEMMA ServiceNamed ==
  /\ \A i \in Nat : Named(Service(i))
  /\ \A i, j \in Nat : Service(i) = Service(j) => i = j
<1>1. ASSUME NEW i \in Nat PROVE Named(Service(i)) /\ Service(i).id = 100 + i
  <2>1. Service(i) \in TextValue
    BY TextsTyped DEF Service, MAX_SERVICE_ID
  <2>2. Service(i).id = 100 + i /\ Service(i).len = 256 /\ Service(i).nul = FALSE
        /\ Service(i).utf8 = TRUE
    BY DEF Service, Text, MAX_SERVICE_ID
  <2> QED
    BY <2>1, <2>2 DEF Named, MAX_SERVICE_ID
<1> QED
  BY <1>1

\* What the adapter makes of the reply to the i-th service.
LEMMA ResultIs ==
  ASSUME replies \in Seq(Reply), NEW i \in DOMAIN replies, NEW reserve \in BOOLEAN
  PROVE  /\ Malformed(i, reserve) <=> ~ Honest(replies[i], reserve)
         /\ Honest(replies[i], reserve) =>
              Outcome(ResultOf(i, reserve), replies[i], Service(i), reserve)
<1>1. replies[i] \in Reply /\ i \in Nat
  OBVIOUS
<1>2. Named(Service(i))
  BY <1>1, ServiceNamed
<1> DEFINE N == Normalised(replies[i], Service(i), reserve)
<1>3. /\ N = {} <=> ~ Honest(replies[i], reserve)
      /\ Honest(replies[i], reserve) =>
              \E x : N = {x} /\ Outcome(x, replies[i], Service(i), reserve)
  BY <1>1, <1>2, NormalisedIs
<1>4. Malformed(i, reserve) <=> N = {}
  BY DEF Malformed
<1>5. ResultOf(i, reserve) = CHOOSE x \in N : TRUE
  BY DEF ResultOf
<1> HIDE DEF N
<1>6. ASSUME Honest(replies[i], reserve)
      PROVE  Outcome(ResultOf(i, reserve), replies[i], Service(i), reserve)
  <2>1. PICK x : N = {x} /\ Outcome(x, replies[i], Service(i), reserve)
    BY <1>3, <1>6
  <2>2. ResultOf(i, reserve) = x
    BY <1>5, <2>1
  <2> QED
    BY <2>1, <2>2
<1> QED
  BY <1>3, <1>4, <1>6

\* A result that is given up: it keeps its service, takes the decision of the
\* one that ended the loop and names no reservation.
LEMMA RolledBackIs ==
  ASSUME NEW x, Shaped(x), NEW f, Shaped(f)
  PROVE  LET b == RolledBack(x, f)
         IN  /\ Shaped(b)
             /\ b["SERVICE_ID"] = x["SERVICE_ID"]
             /\ b["ADMISSION_DECISION"] = f["ADMISSION_DECISION"]
             /\ "RESERVATION_ID" \notin DOMAIN b
             /\ PyWritable(x) /\ PyWritable(f) => PyWritable(b)
<1> DEFINE b == RolledBack(x, f)
           D == (DOMAIN x \ {"RESERVATION_ID"}) \cup {"DIAGNOSTIC"}
           val(y) == IF y = "ADMISSION_DECISION" THEN f["ADMISSION_DECISION"]
                     ELSE IF y = "REASON_CODE" THEN f["REASON_CODE"]
                     ELSE IF y = "DIAGNOSTIC" THEN Text(13, 42) ELSE x[y]
<1>1. b = [y \in D |-> val(y)]
  <2>1. Without(x, {"RESERVATION_ID"}) = [y \in DOMAIN x \ {"RESERVATION_ID"} |-> x[y]]
    BY DEF Without
  <2>2. Put(Without(x, {"RESERVATION_ID"}), "DIAGNOSTIC", Text(13, 42))
          = [y \in D |-> IF y = "DIAGNOSTIC" THEN Text(13, 42) ELSE x[y]]
    BY <2>1 DEF Put
  <2> QED
    BY <2>2 DEF RolledBack
<1>2. DOMAIN b = D /\ b = [y \in DOMAIN b |-> b[y]] /\ \A y \in D : b[y] = val(y)
  BY <1>1
<1> HIDE DEF b
<1>3. ResultNames \subseteq D /\ "RESERVATION_ID" \notin D
      /\ D \subseteq ResultNames \cup ResultTimes \cup {"RESERVATION_ID", "DIAGNOSTIC"}
  BY DEF Shaped, ResultNames
<1>4. /\ Text(13, 42) \in TextValue /\ Text(13, 42).len = 42 /\ ~ Text(13, 42).nul
      /\ Text(13, 42).utf8
  BY TextsTyped DEF Text
<1>5. f["ADMISSION_DECISION"] \in Nat /\ f["REASON_CODE"] \in Nat
  BY DEF Shaped, ResultNames, Texts
<1>6. /\ b["SERVICE_ID"] = x["SERVICE_ID"]
      /\ b["ADMISSION_DECISION"] = f["ADMISSION_DECISION"]
      /\ b["REASON_CODE"] = f["REASON_CODE"]
      /\ b["DIAGNOSTIC"] = Text(13, 42)
  BY <1>2, <1>3 DEF ResultNames
<1>7. ASSUME NEW y \in D \ {"ADMISSION_DECISION", "REASON_CODE", "DIAGNOSTIC"}
      PROVE  b[y] = x[y] /\ y \in DOMAIN x
  BY <1>2
<1> HIDE DEF D
<1>8. Shaped(b)
  <2>1. ASSUME NEW y \in DOMAIN b \ {"QPM_GENERATION"}
        PROVE  b[y] \in IF y \in Texts THEN TextValue ELSE Nat
    <3>1. CASE y \in {"ADMISSION_DECISION", "REASON_CODE", "DIAGNOSTIC"}
      BY <1>4, <1>5, <1>6, <3>1 DEF Texts
    <3>2. CASE y \notin {"ADMISSION_DECISION", "REASON_CODE", "DIAGNOSTIC"}
      <4>1. b[y] = x[y] /\ y \in DOMAIN x \ {"QPM_GENERATION"}
        BY <1>2, <1>7, <3>2
      <4> QED
        BY <4>1 DEF Shaped
    <3> QED
      BY <3>1, <3>2
  <2> QED
    BY <1>2, <1>3, <2>1 DEF Shaped
<1>9. ASSUME PyWritable(x), PyWritable(f) PROVE PyWritable(b)
  <2> SUFFICES ASSUME NEW y \in DOMAIN b
               PROVE  IF y \in Texts
                      THEN b[y].len > 0 /\ b[y].len <= PyTextMax(y) /\ ~ b[y].nul /\ b[y].utf8
                      ELSE b[y] \in 0..((IF y \in PyPuts32 THEN U32 ELSE U64) - 1)
    BY DEF PyWritable
  <2>1. CASE y \in {"ADMISSION_DECISION", "REASON_CODE"}
    <3>1. y \in DOMAIN f /\ b[y] = f[y]
      BY <1>6, <2>1 DEF Shaped, ResultNames
    <3> QED
      BY <1>9, <2>1, <3>1 DEF PyWritable, Texts
  <2>2. CASE y = "DIAGNOSTIC"
    BY <1>4, <1>6, <2>2 DEF Texts, PyTextMax, MAX_DIAGNOSTIC
  <2>3. CASE y \notin {"ADMISSION_DECISION", "REASON_CODE", "DIAGNOSTIC"}
    <3>1. b[y] = x[y] /\ y \in DOMAIN x
      BY <1>2, <1>7, <2>3
    <3> QED
      BY <1>9, <3>1 DEF PyWritable
  <2> QED
    BY <2>1, <2>2, <2>3
<1> QED
  BY <1>2, <1>3, <1>6, <1>8, <1>9 DEF b

-----------------------------------------------------------------------------
(* Responses.                                                              *)

\* The items of a response to n services.
Results(items, n) ==
  /\ items = [i \in 1..n |-> items[i]]
  /\ \A i \in 1..n : Shaped(items[i])

\* What AdmissionResponse puts together.
LEMMA ResponseShape ==
  ASSUME NEW k, NEW d, NEW items
  PROVE  LET m == AdmissionResponse(k, d, items)
         IN  /\ m = [kind |-> m.kind, fields |-> m.fields, items |-> m.items]
             /\ m.kind = k /\ m.items = items
             /\ DOMAIN m.fields = {"REQUEST_ID", "ADMISSION_DECISION"}
             /\ m.fields = [x \in DOMAIN m.fields |-> m.fields[x]]
             /\ m.fields["REQUEST_ID"] = 1 /\ m.fields["ADMISSION_DECISION"] = d
  BY DEF AdmissionResponse

Admissions == {"EVALUATE_RESPONSE", "RESERVE_RESPONSE"}

\* The attributes of the responses to an evaluation and a reservation.
LEMMA AdmissionKinds ==
  ASSUME NEW k \in Admissions
  PROVE  /\ GroupOf(k) = "SERVICE_RESULT" /\ k \in MessageType /\ k \in Responses
         /\ Attributes(k) = {"REQUEST_ID", "ADMISSION_DECISION"}
         /\ ItemAttributes(k) =
              ResultNames \cup ResultTimes \cup {"RESERVATION_ID", "DIAGNOSTIC"}
         /\ MayBeNone(k) = ResultTimes \cup {"RESERVATION_ID", "QPM_RUNTIME_ID",
                                             "QPM_GENERATION", "DIAGNOSTIC"}
<1>1. GroupOf(k) = "SERVICE_RESULT" /\ k \in MessageType /\ k \in Responses
  BY DEF GroupOf, Admissions, MessageType, Responses
<1>2. k \notin {"RELEASE_RESPONSE", "RELEASE_REQUEST", "GET_RESERVATIONS_RESPONSE",
                "GET_RESERVATIONS_REQUEST", "ERROR_RESPONSE"}
  BY DEF Admissions
<1>3. Attributes(k) = {"REQUEST_ID", "ADMISSION_DECISION"}
  BY <1>1, <1>2 DEF Attributes
<1>4. ItemAttributes(k) =
              {"SERVICE_ID", "ADMISSION_DECISION", "REASON_CODE", "RESERVATION_ID",
          "RETRY_AFTER_NS", "ESTIMATED_START_NS", "ESTIMATED_FINISH_NS",
          "QPM_RUNTIME_ID", "QPM_GENERATION", "DIAGNOSTIC"}
  BY <1>1, <1>2 DEF ItemAttributes
<1>5. MayBeNone(k) =   {"RESERVATION_ID", "RETRY_AFTER_NS", "ESTIMATED_START_NS",
          "ESTIMATED_FINISH_NS", "QPM_RUNTIME_ID", "QPM_GENERATION", "DIAGNOSTIC"}
  BY <1>1, <1>2 DEF MayBeNone
<1> QED
  BY <1>1, <1>3, <1>4, <1>5 DEF ResultNames, ResultTimes

\* A result that can be written has the attributes of ServiceResult.
LEMMA ShapedCarries ==
  ASSUME NEW x, Shaped(x), PyWritable(x), NEW k \in Admissions
  PROVE  Carries(x, ItemAttributes(k), k)
<1>1. "QPM_GENERATION" \in DOMAIN x /\ "QPM_GENERATION" \notin Texts
      /\ "QPM_GENERATION" \notin PyPuts32
  BY DEF Shaped, ResultNames, Texts, PyPuts32
<1>2. x["QPM_GENERATION"] \in Nat
  BY <1>1, WidthAssumption DEF PyWritable
<1>3. \A y \in DOMAIN x : x[y] \in IF y \in Texts THEN TextValue ELSE Nat
  BY <1>1, <1>2 DEF Shaped
<1>4. /\ DOMAIN x \subseteq ItemAttributes(k)
      /\ ItemAttributes(k) \ (MayBeNone(k) \cup Workload) \subseteq DOMAIN x
      /\ Workload \cap DOMAIN x = {}
  <2>1. (ResultNames \cup ResultTimes \cup {"RESERVATION_ID", "DIAGNOSTIC"}) \cap Workload = {}
    BY DEF ResultNames, ResultTimes, Workload, Envelope, Optional
  <2>2. DOMAIN x \subseteq ResultNames \cup ResultTimes \cup {"RESERVATION_ID", "DIAGNOSTIC"}
        /\ ResultNames \subseteq DOMAIN x
    BY DEF Shaped
  <2> QED
    BY <2>1, <2>2, AdmissionKinds
<1> QED
  BY <1>3, <1>4 DEF Carries, Shaped

\* A response made of such results is a message, and its decision is one.
LEMMA ResponseIs ==
  ASSUME NEW k \in Admissions, NEW d \in 1..3, NEW n \in 1..MAX_SERVICES, NEW items,
         Results(items, n), \A i \in 1..n : PyWritable(items[i])
  PROVE  IsMessage(AdmissionResponse(k, d, items)) /\ Decided(AdmissionResponse(k, d, items))
<1> DEFINE m == AdmissionResponse(k, d, items)
<1>1. /\ m = [kind |-> m.kind, fields |-> m.fields, items |-> m.items]
      /\ m.kind = k /\ m.items = items
      /\ DOMAIN m.fields = {"REQUEST_ID", "ADMISSION_DECISION"}
      /\ m.fields = [x \in DOMAIN m.fields |-> m.fields[x]]
      /\ m.fields["REQUEST_ID"] = 1 /\ m.fields["ADMISSION_DECISION"] = d
  BY ResponseShape
<1> HIDE DEF m
<1>2. n \in Nat
  BY DEF MAX_SERVICES
<1>3. DOMAIN items = 1..n /\ Len(items) = n
  BY <1>2 DEF Results
<1>4. \A x \in DOMAIN m.fields : m.fields[x] \in IF x \in Texts THEN TextValue ELSE Nat
  BY <1>1 DEF Texts
<1>5. Carries(m.fields, Attributes(k), k)
  <2>1. Workload \cap DOMAIN m.fields = {}
    BY <1>1 DEF Workload, Envelope, Optional
  <2>2. Attributes(k) = DOMAIN m.fields
    BY <1>1, AdmissionKinds
  <2> QED
    BY <1>1, <1>4, <2>1, <2>2 DEF Carries
<1>6. \A i \in DOMAIN items : Carries(items[i], ItemAttributes(k), k)
  BY <1>3, ShapedCarries DEF Results
<1>7. items = [i \in 1..Len(items) |-> items[i]] /\ ItemAttributes(k) # {}
  <2>1. ItemAttributes(k) # {}
    BY AdmissionKinds
  <2> QED
    BY <1>3, <2>1 DEF Results
<1>8. IsMessage(m)
  BY <1>1, <1>5, <1>6, <1>7, AdmissionKinds DEF IsMessage
<1>9. Decided(m)
  BY <1>1 DEF Decided, Accepted, Delayed, Rejected
<1> QED
  BY <1>8, <1>9 DEF m

\* With results for different services, and a decision that agrees with
\* theirs, it passes the encoder, and thirty-two results fit a frame.
LEMMA ResponseEncodes ==
  ASSUME NEW k \in Admissions, NEW d \in 1..3, NEW n \in 1..MAX_SERVICES, NEW items,
         Results(items, n), \A i \in 1..n : PyWritable(items[i]), Distinct(items),
         Decisions(items) \subseteq 1..3, PyConsistent(d, Decisions(items)),
         \A i \in 1..n : PyEncodesResult(items[i], k = "RESERVE_RESPONSE")
  PROVE  PyEncodes(AdmissionResponse(k, d, items))
<1> DEFINE m == AdmissionResponse(k, d, items)
<1>1. /\ m.kind = k /\ m.items = items
      /\ DOMAIN m.fields = {"REQUEST_ID", "ADMISSION_DECISION"}
      /\ m.fields["REQUEST_ID"] = 1 /\ m.fields["ADMISSION_DECISION"] = d
  BY DEF AdmissionResponse
<1> HIDE DEF m
<1>2. n \in Nat
  BY DEF MAX_SERVICES
<1>3. DOMAIN items = 1..n /\ Len(items) = n
  BY <1>2 DEF Results
<1>4. PyWritable(m.fields)
  BY <1>1, WidthAssumption DEF PyWritable, Texts, PyPuts32
<1>5. FrameSize(m) <= MAX_FRAME_SIZE
  <2>1. ASSUME NEW i \in DOMAIN items PROVE Fits(items[i])
    <3>1. PyWritable(items[i]) /\ Shaped(items[i])
      BY <1>3 DEF Results
    <3>2. \A x \in DOMAIN items[i] \cap Texts : items[i][x] \in TextValue
      BY <3>1 DEF Shaped, Texts
    <3> QED
      BY <3>1, <3>2 DEF Fits, PyWritable, TextValue
  <2>2. Fits(m.fields)
    BY <1>1 DEF Fits, Texts
  <2>3. items \in Seq({items[i] : i \in DOMAIN items})
    BY <1>2, <1>3 DEF Results
  <2>4. Len(items) <= MAX_SERVICES
    BY <1>3 DEF MAX_SERVICES
  <2> QED
    BY <1>1, <2>1, <2>2, <2>3, <2>4, MessageFits
<1>6. PyEncodesAdmissionResponse(m)
  <2>1. Decisions(items) \subseteq {Accepted, Delayed, Rejected}
    BY DEF Accepted, Delayed, Rejected
  <2>2. m.fields["REQUEST_ID"] # 0 /\ Len(m.items) \in 1..MAX_SERVICES
    BY <1>1, <1>3
  <2> QED
    BY <1>1, <1>3, <2>1, <2>2 DEF PyEncodesAdmissionResponse
<1>7. GroupOf(k) = "SERVICE_RESULT"
      /\ k \notin {"RELEASE_RESPONSE", "RELEASE_REQUEST", "GET_RESERVATIONS_RESPONSE",
                   "GET_RESERVATIONS_REQUEST", "ERROR_RESPONSE"}
  BY AdmissionKinds DEF Admissions
<1>8. \A i \in DOMAIN m.items : PyWritable(m.items[i])
  BY <1>1, <1>3
<1>9. PyEncodes(m)
  BY <1>1, <1>4, <1>5, <1>6, <1>7, <1>8 DEF PyEncodes
<1> QED
  BY <1>9 DEF m

-----------------------------------------------------------------------------
(* The client.                                                             *)

\* As many services are asked as there are names.
LEMMA ServicesCount ==
  ASSUME NEW n \in Nat
  PROVE  Cardinality({Service(i) : i \in 1..n}) = n
<1> DEFINE S == {Service(i) : i \in 1..n}
           f == [i \in 1..n |-> Service(i)]
<1>1. f \in Bijection(1..n, S)
  <2>1. f \in Injection(1..n, S)
    BY ServiceNamed DEF Injection, IsInjective
  <2>2. f \in Surjection(1..n, S)
    BY DEF Surjection
  <2> QED
    BY <2>1, <2>2 DEF Bijection
<1>2. ExistsBijection(1..n, S)
  BY <1>1 DEF ExistsBijection
<1> HIDE DEF S
<1>3. IsFiniteSet(1..n) /\ Cardinality(1..n) = n
  BY FS_Interval
<1>4. Cardinality(S) = n
  BY <1>2, <1>3, FS_Bijection
<1> QED
  BY <1>4 DEF S

\* A response to the first n services that the gateway can send: its decision
\* agrees with those of its items, and each of them is for a service of its own.
Sound(k, d, items, n) ==
  /\ Results(items, n)
  /\ \A i \in 1..n : PyWritable(items[i])
  /\ \A i \in 1..n : items[i]["SERVICE_ID"] = Service(i)
  /\ Decisions(items) \subseteq 1..3
  /\ PyConsistent(d, Decisions(items))
  /\ \A i \in 1..n : PyEncodesResult(items[i], k = "RESERVE_RESPONSE")

\* What the client makes of a decision.
Understood(d) == IF d = Accepted THEN "accepted"
                 ELSE IF d = Delayed THEN "delayed" ELSE "rejected"

\* Message m of kind k says d to a client that asked for N services.
Says(m, k, d, N) ==
  /\ PyEncodes(m)
  /\ ClientOutcome(m, {Service(i) : i \in 1..N}, k = "RESERVE_RESPONSE") = Understood(d)

\* The native client has room for the names of as many services as there can be.
LEMMA ServicesFormat ==
  ASSUME NEW n \in 1..MAX_SERVICES, NEW items, Results(items, n),
         \A i \in 1..n : items[i]["SERVICE_ID"] = Service(i)
  PROVE  JsonFits(items)
<1> DEFINE w == [i \in DOMAIN items |-> items[i]["SERVICE_ID"].len + 28]
           P == [i \in 0..n |-> 284 * i]
<1>0. n \in Nat /\ n <= 32
  BY DEF MAX_SERVICES
<1>1. DOMAIN items = 1..n
  <2> HIDE DEF w, P
  <2> QED
    BY <1>0 DEF Results
<1>2. \A i \in 1..n : w[i] = 284
  <2>1. \A i \in 1..n : Service(i).len = 256
    BY DEF Service, Text, MAX_SERVICE_ID
  <2>2. \A i \in 1..n : w[i] = items[i]["SERVICE_ID"].len + 28
    BY <1>1
  <2> HIDE DEF w, P
  <2> QED
    BY <2>1, <2>2
<1>3. w = [i \in 1..n |-> w[i]]
  BY <1>1
<1>4. P \in [0..n -> Nat] /\ P[n] = 284 * n
  BY <1>0
<1>5. \A i \in 1..n : P[i - 1] + 284 <= P[i]
  BY <1>0
<1> HIDE DEF w, P
<1>6. w \in Seq(Nat) /\ Len(w) = n
  BY <1>0, <1>2, <1>3
<1>7. \A i \in 1..Len(w) : P[i - 1] + w[i] <= P[i]
  BY <1>2, <1>5, <1>6
<1>8. Total(w) \in Nat /\ Total(w) <= P[Len(w)]
  BY <1>4, <1>6, <1>7, TotalBound
<1>9. Total(w) < 16382
  BY <1>0, <1>4, <1>8, <1>6
<1> QED
  BY <1>8, <1>9 DEF JsonFits, JsonSize, QFW_RESERVATIONS_ENV_SIZE, w

\* A sound response is encoded, decoded and understood:
\* admission_response_process of operations.c finds it complete and takes its
\* decision.
LEMMA ClientUnderstands ==
  ASSUME NEW k \in Admissions, NEW d \in 1..3, NEW n \in 1..MAX_SERVICES, NEW items,
         Sound(k, d, items, n), NEW N \in Nat, n <= N, d = Accepted => n = N
  PROVE  Says(AdmissionResponse(k, d, items), k, d, N)
<1> DEFINE m == AdmissionResponse(k, d, items)
           asked == {Service(i) : i \in 1..N}
           reserve == k = "RESERVE_RESPONSE"
<1>1. /\ m.kind = k /\ m.items = items
      /\ m.fields["REQUEST_ID"] = 1 /\ m.fields["ADMISSION_DECISION"] = d
  BY DEF AdmissionResponse
<1> HIDE DEF m
<1>2. n \in Nat
  BY DEF MAX_SERVICES
<1>3. DOMAIN items = 1..n /\ Len(items) = n
  BY <1>2 DEF Sound, Results
<1>4. Distinct(items)
  BY <1>2, <1>3, ServiceNamed DEF Distinct, Sound
<1>5. PyEncodes(m)
  BY <1>4, ResponseEncodes DEF Sound, m
<1>6. IsMessage(m) /\ Decided(m)
  BY ResponseIs DEF Sound, m
<1>7. CDecode(PyFrame(m)) = {m}
  BY <1>5, <1>6, CReadsBack
<1>8. k # "ERROR_RESPONSE"
  BY DEF Admissions
<1>9. \A i \in DOMAIN items : items[i]["SERVICE_ID"] \in asked
  BY <1>2, <1>3 DEF Sound
<1>10. Cardinality(asked) = N
  BY ServicesCount
<1> HIDE DEF asked
<1> DEFINE got == CDecode(PyFrame(m))
           r == CHOOSE x \in got : TRUE
<1>11. r = m /\ got # {}
  BY <1>7
<1> DEFINE foreign == \/ r.fields["REQUEST_ID"] # 1
                      \/ \E i \in DOMAIN r.items : r.items[i]["SERVICE_ID"] \notin asked
                      \/ ~ Distinct(r.items)
           decision == r.fields["ADMISSION_DECISION"]
           fine == /\ Len(r.items) = Cardinality(asked)
                   /\ Decisions(r.items) = {Accepted}
                   /\ \A i \in DOMAIN r.items :
                        ("RESERVATION_ID" \in DOMAIN r.items[i]) = reserve
                   /\ reserve => JsonFits(r.items)
<1>12. ClientOutcome(m, asked, reserve) =
         IF got = {} THEN "client_error"
         ELSE IF m.kind = "ERROR_RESPONSE" THEN "gateway_error"
         ELSE IF foreign THEN "response_error"
         ELSE IF decision = Accepted THEN IF fine THEN "accepted" ELSE "response_error"
         ELSE IF decision \notin Decisions(r.items) THEN "response_error"
         ELSE IF decision = Delayed THEN "delayed" ELSE "rejected"
  BY DEF ClientOutcome
<1>13. ~ foreign
  BY <1>1, <1>4, <1>9, <1>11
<1>14. decision = d
  BY <1>1, <1>11
<1>15. ASSUME d = Accepted PROVE fine
  <2>1. Decisions(items) = {Accepted}
    BY <1>15 DEF Sound, PyConsistent
  <2>2. Len(items) = Cardinality(asked)
    BY <1>3, <1>10, <1>15
  <2>3. ASSUME NEW i \in DOMAIN items
        PROVE  ("RESERVATION_ID" \in DOMAIN items[i]) = reserve
    <3>1. items[i]["ADMISSION_DECISION"] = Accepted
      BY <2>1 DEF Decisions
    <3>2. PyEncodesResult(items[i], reserve)
      BY <1>3 DEF Sound
    <3> QED
      BY <3>1, <3>2 DEF PyEncodesResult
  <2>4. JsonFits(items)
    BY ServicesFormat DEF Sound
  <2> QED
    BY <1>1, <1>11, <2>1, <2>2, <2>3, <2>4
<1>16. d # Accepted => d \in Decisions(items)
  BY DEF Sound, PyConsistent, Accepted, Delayed, Rejected
<1> HIDE DEF got, r, foreign, decision, fine, reserve
<1>17. ClientOutcome(m, asked, reserve) = Understood(d)
  BY <1>1, <1>8, <1>11, <1>12, <1>13, <1>14, <1>15, <1>16 DEF Understood
<1> QED
  BY <1>5, <1>17 DEF m, asked, reserve, Says

-----------------------------------------------------------------------------
(* The answer to an evaluation.                                            *)

\* The replies to n services.
Asked(n) == replies \in Seq(Reply) /\ n = Len(replies) /\ n \in 1..MAX_SERVICES

\* What it says of each reply.
LEMMA AskedIs ==
  ASSUME NEW n, Asked(n)
  PROVE  /\ n \in Nat /\ n >= 1 /\ DOMAIN replies = 1..n
         /\ \A i \in 1..n : i \in Nat /\ replies[i] \in Reply /\ replies[i].status \in Nat
<1>1. n \in Nat /\ n >= 1 /\ n = Len(replies)
  BY DEF Asked, MAX_SERVICES
<1>2. DOMAIN replies = 1..n /\ \A i \in 1..n : replies[i] \in Reply
  BY <1>1 DEF Asked
<1>3. \A r \in Reply : r.status \in Nat
  BY DEF Reply
<1>4. \A i \in 1..n : i \in Nat
  BY <1>1
<1> QED
  BY <1>1, <1>2, <1>3, <1>4, Zenon

\* An honest reply has one of the three decisions.
LEMMA HonestStatus ==
  ASSUME NEW r, NEW reserve, Honest(r, reserve)
  PROVE  r.status \in 1..3
  BY DEF Honest, Accepted, Delayed, Rejected

\* The decision over all services: the worst of their decisions.
Worst(n) == IF \E i \in 1..n : replies[i].status = Rejected THEN Rejected
            ELSE IF \E i \in 1..n : replies[i].status = Delayed THEN Delayed ELSE Accepted

\* Its values.
LEMMA UnderstoodIs ==
  Understood(1) = "accepted" /\ Understood(2) = "delayed" /\ Understood(3) = "rejected"
  BY DEF Understood, Accepted, Delayed

\* The answer to an evaluation.
LEMMA EvaluateIs ==
  ASSUME NEW n, Asked(n)
  PROVE  /\ (\E i \in 1..n : ~ Honest(replies[i], FALSE)) => EvaluateAnswer = QpmError
         /\ (\A i \in 1..n : Honest(replies[i], FALSE)) =>
              /\ EvaluateAnswer = AdmissionResponse("EVALUATE_RESPONSE", Worst(n),
                                    [i \in 1..n |-> ResultOf(i, FALSE)])
              /\ Results([i \in 1..n |-> ResultOf(i, FALSE)], n)
<1>1. \A i \in 1..n : /\ Malformed(i, FALSE) <=> ~ Honest(replies[i], FALSE)
                      /\ Honest(replies[i], FALSE) =>
                           Outcome(ResultOf(i, FALSE), replies[i], Service(i), FALSE)
  BY AskedIs, ResultIs DEF Asked
<1>2. DOMAIN replies = 1..n
  BY AskedIs
<1>3. (\E i \in 1..n : ~ Honest(replies[i], FALSE)) => EvaluateAnswer = QpmError
  BY <1>1, <1>2 DEF EvaluateAnswer
<1>4. ASSUME \A i \in 1..n : Honest(replies[i], FALSE)
      PROVE  /\ EvaluateAnswer = AdmissionResponse("EVALUATE_RESPONSE", Worst(n),
                                    [i \in 1..n |-> ResultOf(i, FALSE)])
             /\ Results([i \in 1..n |-> ResultOf(i, FALSE)], n)
  <2> DEFINE items == [i \in 1..n |-> ResultOf(i, FALSE)]
             D == Decisions(items)
  <2>1. EvaluateAnswer =
          AdmissionResponse("EVALUATE_RESPONSE",
            IF Rejected \in D THEN Rejected ELSE IF Delayed \in D THEN Delayed ELSE Accepted,
            items)
    BY <1>1, <1>2, <1>4 DEF EvaluateAnswer
  <2>2. DOMAIN items = 1..n /\ \A i \in 1..n : items[i] = ResultOf(i, FALSE)
    OBVIOUS
  <2>3. \A i \in 1..n : items[i]["ADMISSION_DECISION"] = replies[i].status /\ Shaped(items[i])
    BY <1>1, <1>4, <2>2 DEF Outcome
  <2>4. Results(items, n)
    BY <2>3 DEF Results
  <2>5. \A s : s \in D <=> \E i \in 1..n : replies[i].status = s
    BY <2>2, <2>3 DEF Decisions
  <2> HIDE DEF items, D
  <2>6. (IF Rejected \in D THEN Rejected ELSE IF Delayed \in D THEN Delayed ELSE Accepted)
          = Worst(n)
    BY <2>5 DEF Worst
  <2> QED
    BY <2>1, <2>4, <2>6 DEF items
<1> QED
  BY <1>3, <1>4

\* It can be sent, and the client takes it for what the replies amount to.
LEMMA EvaluateUnderstood ==
  ASSUME NEW n, Asked(n), \A i \in 1..n : Printable(replies[i])
  PROVE  /\ PyEncodes(EvaluateAnswer)
         /\ ClientOutcome(EvaluateAnswer, {Service(i) : i \in DOMAIN replies}, FALSE)
              = Verdict(FALSE)
<1>1. n \in Nat /\ DOMAIN replies = 1..n /\ n = Len(replies) /\ n >= 1
  BY AskedIs DEF Asked
<1> DEFINE bad == \E i \in 1..n : ~ Honest(replies[i], FALSE)
<1>2. Verdict(FALSE) = IF bad THEN "gateway_error"
        ELSE IF \E i \in 1..n : replies[i].status = Rejected THEN "rejected"
        ELSE IF \E i \in 1..n : replies[i].status = Delayed THEN "delayed" ELSE "accepted"
  BY <1>1 DEF Verdict
<1>3. CASE bad
  <2>1. EvaluateAnswer = QpmError
    BY <1>3, EvaluateIs
  <2>2. CDecode(PyFrame(QpmError)) # {}
    BY QpmErrorIs, CReadsBack
  <2>3. ClientOutcome(QpmError, {Service(i) : i \in DOMAIN replies}, FALSE) = "gateway_error"
    BY <2>2, QpmErrorIs DEF ClientOutcome
  <2> QED
    BY <1>2, <1>3, <2>1, <2>3, QpmErrorIs
<1>4. CASE ~ bad
  <2> DEFINE items == [i \in 1..n |-> ResultOf(i, FALSE)]
             d == Worst(n)
             k == "EVALUATE_RESPONSE"
  <2>1. EvaluateAnswer = AdmissionResponse(k, d, items) /\ Results(items, n)
    BY <1>4, EvaluateIs
  <2>2. \A i \in 1..n : Honest(replies[i], FALSE)
    BY <1>4
  <2>3. \A i \in 1..n : Outcome(ResultOf(i, FALSE), replies[i], Service(i), FALSE)
    BY <1>1, <2>2, ResultIs DEF Asked
  <2>4. \A i \in 1..n : Outcome(items[i], replies[i], Service(i), FALSE)
    BY <2>3
  <2>5. DOMAIN items = 1..n
    OBVIOUS
  <2> HIDE DEF items
  <2>6. \A i \in 1..n : /\ items[i]["SERVICE_ID"] = Service(i)
                        /\ items[i]["ADMISSION_DECISION"] = replies[i].status
                        /\ PyWritable(items[i])
                        /\ "RESERVATION_ID" \notin DOMAIN items[i]
    BY <2>4 DEF Outcome
  <2>7. \A s : s \in Decisions(items) <=> \E i \in 1..n : replies[i].status = s
    BY <2>5, <2>6 DEF Decisions
  <2>8. \A i \in 1..n : replies[i].status \in 1..3
    BY <2>2, HonestStatus
  <2>9. Decisions(items) \subseteq 1..3
    BY <2>7, <2>8
  <2>10. 1 \in 1..n
    BY <1>1
  <2>11. PyConsistent(d, Decisions(items)) /\ d \in 1..3
    <3>1. CASE Rejected \in Decisions(items)
      BY <2>7, <3>1 DEF PyConsistent, Worst, Accepted, Delayed, Rejected
    <3>2. CASE Rejected \notin Decisions(items) /\ Delayed \in Decisions(items)
      BY <2>7, <3>2 DEF PyConsistent, Worst, Accepted, Delayed, Rejected
    <3>3. CASE Rejected \notin Decisions(items) /\ Delayed \notin Decisions(items)
      <4>1. \A s \in Decisions(items) : s = 1
        BY <2>9, <3>3 DEF Delayed, Rejected
      <4>2. replies[1].status \in Decisions(items)
        BY <2>7, <2>10
      <4>3. Decisions(items) = {Accepted}
        BY <4>1, <4>2 DEF Accepted
      <4>4. d = Accepted
        BY <2>7, <3>3 DEF Worst
      <4> QED
        BY <4>3, <4>4 DEF PyConsistent, Accepted, Delayed, Rejected
    <3> QED
      BY <3>1, <3>2, <3>3
  <2>12. Sound(k, d, items, n)
    <3>1. \A i \in 1..n : PyEncodesResult(items[i], k = "RESERVE_RESPONSE")
      BY <2>6 DEF PyEncodesResult
    <3> QED
      BY <2>1, <2>6, <2>9, <2>11, <3>1 DEF Sound
  <2>13. k \in Admissions
    BY DEF Admissions
  <2>14. PyEncodes(AdmissionResponse(k, d, items))
         /\ ClientOutcome(AdmissionResponse(k, d, items), {Service(i) : i \in 1..n}, FALSE)
              = Understood(d)
    <3>1. n <= n /\ n \in 1..MAX_SERVICES
      BY <1>1 DEF Asked
    <3>2. (k = "RESERVE_RESPONSE") = FALSE
      OBVIOUS
    <3> HIDE DEF k, d
    <3>3. Says(AdmissionResponse(k, d, items), k, d, n)
      BY <1>1, <2>11, <2>12, <2>13, <3>1, ClientUnderstands
    <3> QED
      BY <3>2, <3>3 DEF Says
  <2>15. Understood(d) = Verdict(FALSE)
    <3> DEFINE some(s) == \E i \in 1..n : replies[i].status = s
    <3>1. d = IF some(Rejected) THEN Rejected ELSE IF some(Delayed) THEN Delayed ELSE Accepted
      BY DEF Worst
    <3>2. Verdict(FALSE) = IF some(Rejected) THEN "rejected"
                           ELSE IF some(Delayed) THEN "delayed" ELSE "accepted"
      BY <1>2, <1>4
    <3>3. CASE some(Rejected)
      <4>1. d = 3 /\ Verdict(FALSE) = "rejected"
        BY <3>1, <3>2, <3>3 DEF Rejected
      <4> HIDE DEF d
      <4> QED
        BY <4>1, UnderstoodIs
    <3>4. CASE ~ some(Rejected) /\ some(Delayed)
      <4>1. d = 2 /\ Verdict(FALSE) = "delayed"
        BY <3>1, <3>2, <3>4 DEF Delayed
      <4> HIDE DEF d
      <4> QED
        BY <4>1, UnderstoodIs
    <3>5. CASE ~ some(Rejected) /\ ~ some(Delayed)
      <4>1. d = 1 /\ Verdict(FALSE) = "accepted"
        BY <3>1, <3>2, <3>5 DEF Accepted
      <4> HIDE DEF d
      <4> QED
        BY <4>1, UnderstoodIs
    <3> QED
      BY <3>3, <3>4, <3>5
  <2> QED
    BY <1>1, <2>1, <2>14, <2>15
<1> QED
  BY <1>3, <1>4

-----------------------------------------------------------------------------
(* The answer to a reservation.                                            *)

\* The i-th service accepts.
Takes(i) == Honest(replies[i], TRUE) /\ replies[i].status = Accepted

\* l is the first service that does not.
Ends(l) == ~ Takes(l) /\ \A j \in 1..(l - 1) : Takes(j)

\* The items of a reservation that the l-th service ended.
GivenUp(l) ==
  [i \in 1..l |-> IF i = l THEN ResultOf(l, TRUE)
                  ELSE RolledBack(ResultOf(i, TRUE), ResultOf(l, TRUE))]

\* The loop of _reserve_services ends at the first service that does not
\* accept.
LEMMA StopsIs ==
  ASSUME NEW n, Asked(n)
  PROVE  /\ Stops = {i \in 1..n : ~ Takes(i)}
         /\ Stops = {} => \A i \in 1..n : Takes(i)
         /\ Stops # {} => Last \in 1..n /\ Ends(Last)
<1>1. n \in Nat /\ DOMAIN replies = 1..n
  BY AskedIs
<1>2. \A i \in 1..n : Malformed(i, TRUE) <=> ~ Honest(replies[i], TRUE)
  BY <1>1, ResultIs DEF Asked
<1>3. Stops = {i \in 1..n : ~ Takes(i)}
  BY <1>1, <1>2 DEF Stops, Takes
<1>4. ASSUME Stops # {} PROVE Last \in 1..n /\ Ends(Last)
  <2>1. Stops \subseteq Nat
    BY <1>3
  <2>2. \E i \in Stops : \A j \in Stops : i <= j
    BY <1>4, <2>1, Least
  <2>3. Last \in Stops /\ \A j \in Stops : Last <= j
    BY <2>2 DEF Last
  <2>4. Last \in 1..n /\ ~ Takes(Last)
    BY <1>3, <2>3
  <2>5. ASSUME NEW j \in 1..(Last - 1) PROVE Takes(j)
    BY <1>1, <1>3, <2>3, <2>4, <2>5
  <2> QED
    BY <2>4, <2>5 DEF Ends
<1> QED
  BY <1>3, <1>4

\* The answer to a reservation.
LEMMA ReserveIs ==
  ASSUME NEW n, Asked(n)
  PROVE  \/ /\ \A i \in 1..n : Takes(i)
            /\ ReserveAnswer = AdmissionResponse("RESERVE_RESPONSE", Accepted,
                                 [i \in 1..n |-> ResultOf(i, TRUE)])
            /\ Results([i \in 1..n |-> ResultOf(i, TRUE)], n)
         \/ \E l \in 1..n :
              /\ Ends(l)
              /\ IF ~ Honest(replies[l], TRUE) THEN ReserveAnswer = QpmError
                 ELSE /\ ReserveAnswer = AdmissionResponse("RESERVE_RESPONSE",
                                           replies[l].status, GivenUp(l))
                      /\ Results(GivenUp(l), l)
<1>1. n \in Nat /\ DOMAIN replies = 1..n
  BY AskedIs
<1>2. \A i \in 1..n : /\ Malformed(i, TRUE) <=> ~ Honest(replies[i], TRUE)
                      /\ Honest(replies[i], TRUE) =>
                           Outcome(ResultOf(i, TRUE), replies[i], Service(i), TRUE)
  BY <1>1, ResultIs DEF Asked
<1>3. CASE Stops = {}
  <2>1. \A i \in 1..n : Takes(i)
    BY <1>3, StopsIs
  <2>2. \A i \in 1..n : Shaped(ResultOf(i, TRUE))
    BY <1>2, <2>1 DEF Takes, Outcome
  <2>3. Results([i \in 1..n |-> ResultOf(i, TRUE)], n)
    BY <2>2 DEF Results
  <2>4. ReserveAnswer = AdmissionResponse("RESERVE_RESPONSE", Accepted,
                                 [i \in 1..n |-> ResultOf(i, TRUE)])
    BY <1>1, <1>3 DEF ReserveAnswer
  <2> QED
    BY <2>1, <2>3, <2>4
<1>4. CASE Stops # {}
  <2> DEFINE l == Last
             f == ResultOf(l, TRUE)
  <2>1. l \in 1..n /\ Ends(l)
    BY <1>4, StopsIs
  <2>2. CASE ~ Honest(replies[l], TRUE)
    <3>1. ReserveAnswer = QpmError
      BY <1>2, <1>4, <2>1, <2>2 DEF ReserveAnswer
    <3> HIDE DEF l
    <3> QED
      BY <2>1, <2>2, <3>1
  <2>3. CASE Honest(replies[l], TRUE)
    <3>1. Outcome(f, replies[l], Service(l), TRUE) /\ ~ Malformed(l, TRUE)
      BY <1>2, <2>1, <2>3
    <3>2. Shaped(f) /\ f["ADMISSION_DECISION"] = replies[l].status
      BY <3>1 DEF Outcome
    <3>3. ReserveAnswer = AdmissionResponse("RESERVE_RESPONSE", f["ADMISSION_DECISION"],
            [i \in 1..l |-> IF i = l THEN f ELSE RolledBack(ResultOf(i, TRUE), f)])
      BY <1>4, <3>1 DEF ReserveAnswer
    <3>4. ReserveAnswer = AdmissionResponse("RESERVE_RESPONSE", replies[l].status, GivenUp(l))
      BY <3>2, <3>3 DEF GivenUp
    <3>5. l \in Nat /\ l <= n
      BY <1>1, <2>1
    <3> HIDE DEF l
    <3>6. ASSUME NEW i \in 1..l
          PROVE  Shaped(IF i = l THEN f ELSE RolledBack(ResultOf(i, TRUE), f))
      <4>1. CASE i = l
        BY <3>2, <4>1
      <4>2. CASE i # l
        <5>1. i \in 1..(l - 1) /\ i \in 1..n
          BY <1>1, <3>5, <4>2
        <5>2. Honest(replies[i], TRUE)
          BY <2>1, <5>1 DEF Ends, Takes
        <5>3. Shaped(ResultOf(i, TRUE))
          BY <1>2, <5>1, <5>2 DEF Outcome
        <5>4. Shaped(RolledBack(ResultOf(i, TRUE), f))
          BY <3>2, <5>3, RolledBackIs
        <5> QED
          BY <4>2, <5>4
      <4> QED
        BY <4>1, <4>2
    <3>7. Results(GivenUp(l), l)
      <4> DEFINE g == GivenUp(l)
      <4>1. g = [i \in 1..l |-> IF i = l THEN f ELSE RolledBack(ResultOf(i, TRUE), f)]
        BY DEF GivenUp
      <4>2. g = [i \in 1..l |-> g[i]] /\ \A i \in 1..l : Shaped(g[i])
        BY <3>6, <4>1
      <4> QED
        BY <4>2 DEF Results
    <3> QED
      BY <2>1, <2>3, <3>4, <3>7
  <2> QED
    BY <2>2, <2>3
<1> QED
  BY <1>3, <1>4

\* What the replies to a reservation amount to depends on that service alone.
LEMMA VerdictIs ==
  ASSUME NEW n, Asked(n)
  PROVE  /\ (\A i \in 1..n : Takes(i)) => Verdict(TRUE) = "accepted"
         /\ \A l \in 1..n : Ends(l) =>
              Verdict(TRUE) = IF ~ Honest(replies[l], TRUE) THEN "gateway_error"
                              ELSE IF replies[l].status = Rejected THEN "rejected"
                              ELSE IF replies[l].status = Delayed THEN "delayed"
                              ELSE "accepted"
<1>1. n \in Nat /\ n = Len(replies)
  BY AskedIs DEF Asked
<1> DEFINE F == {i \in 1..n : Ends(i)}
<1>2. F = {i \in 1..n : /\ replies[i].status # Accepted \/ ~ Honest(replies[i], TRUE)
                        /\ \A j \in 1..(i - 1) : /\ replies[j].status = Accepted
                                                 /\ Honest(replies[j], TRUE)}
  BY DEF Ends, Takes
<1> HIDE DEF F
<1>3. Verdict(TRUE) =
        IF \E i \in F : ~ Honest(replies[i], TRUE) THEN "gateway_error"
        ELSE IF \E i \in F : replies[i].status = Rejected THEN "rejected"
        ELSE IF \E i \in F : replies[i].status = Delayed THEN "delayed" ELSE "accepted"
  BY <1>1, <1>2 DEF Verdict
<1>4. ASSUME \A i \in 1..n : Takes(i) PROVE Verdict(TRUE) = "accepted"
  <2>1. F = {}
    BY <1>4 DEF F, Ends
  <2> QED
    BY <1>3, <2>1
<1>5. ASSUME NEW l \in 1..n, Ends(l)
      PROVE  Verdict(TRUE) = IF ~ Honest(replies[l], TRUE) THEN "gateway_error"
                              ELSE IF replies[l].status = Rejected THEN "rejected"
                              ELSE IF replies[l].status = Delayed THEN "delayed"
                              ELSE "accepted"
  <2>1. ASSUME NEW i \in 1..n, Ends(i) PROVE i = l
    <3>1. ~ (i \in 1..(l - 1)) /\ ~ (l \in 1..(i - 1))
      BY <1>5, <2>1 DEF Ends
    <3> QED
      BY <1>1, <3>1
  <2>2. F = {l}
    BY <1>5, <2>1 DEF F
  <2> QED
    BY <1>3, <2>2
<1> QED
  BY <1>4, <1>5

\* The answer to a reservation can be sent, and the client takes it for what
\* the replies amount to: after a rollback too, it is never an acceptance.
LEMMA ReserveUnderstood ==
  ASSUME NEW n, Asked(n), \A i \in 1..n : Printable(replies[i])
  PROVE  /\ PyEncodes(ReserveAnswer)
         /\ ClientOutcome(ReserveAnswer, {Service(i) : i \in DOMAIN replies}, TRUE)
              = Verdict(TRUE)
<1> DEFINE k == "RESERVE_RESPONSE"
<1>1. n \in Nat /\ DOMAIN replies = 1..n /\ n \in 1..MAX_SERVICES /\ n >= 1
  BY AskedIs DEF Asked
<1>2. \A i \in 1..n : Honest(replies[i], TRUE) =>
         Outcome(ResultOf(i, TRUE), replies[i], Service(i), TRUE)
  BY <1>1, ResultIs DEF Asked
<1>3. k \in Admissions /\ (k = "RESERVE_RESPONSE") = TRUE
  BY DEF Admissions
<1>4. CASE /\ \A i \in 1..n : Takes(i)
           /\ ReserveAnswer = AdmissionResponse("RESERVE_RESPONSE", Accepted,
                                [i \in 1..n |-> ResultOf(i, TRUE)])
           /\ Results([i \in 1..n |-> ResultOf(i, TRUE)], n)
  <2> DEFINE items == [i \in 1..n |-> ResultOf(i, TRUE)]
  <2>1. \A i \in 1..n : Outcome(items[i], replies[i], Service(i), TRUE)
                        /\ replies[i].status = Accepted
    BY <1>2, <1>4 DEF Takes
  <2>2. DOMAIN items = 1..n /\ Results(items, n)
    BY <1>4
  <2>3. ReserveAnswer = AdmissionResponse(k, Accepted, items)
    BY <1>4
  <2> HIDE DEF items
  <2>4. \A i \in 1..n : /\ items[i]["SERVICE_ID"] = Service(i)
                        /\ items[i]["ADMISSION_DECISION"] = Accepted
                        /\ PyWritable(items[i])
                        /\ "RESERVATION_ID" \in DOMAIN items[i]
                        /\ items[i]["RESERVATION_ID"] # 0
    BY <2>1 DEF Outcome
  <2>5. 1 \in 1..n
    BY <1>1
  <2>6. Decisions(items) = {Accepted}
    BY <2>2, <2>4, <2>5 DEF Decisions
  <2>7. PyConsistent(Accepted, Decisions(items)) /\ Decisions(items) \subseteq 1..3
        /\ Accepted \in 1..3
    BY <2>6 DEF PyConsistent, Accepted, Delayed, Rejected
  <2>8. \A i \in 1..n : PyEncodesResult(items[i], k = "RESERVE_RESPONSE")
    BY <2>4 DEF PyEncodesResult
  <2> HIDE DEF k
  <2>9. Sound(k, Accepted, items, n)
    BY <2>2, <2>4, <2>7, <2>8 DEF Sound
  <2>10. Says(AdmissionResponse(k, Accepted, items), k, Accepted, n)
    BY <1>1, <1>3, <2>7, <2>9, ClientUnderstands
  <2>11. Understood(Accepted) = "accepted"
    BY DEF Understood
  <2>12. Verdict(TRUE) = "accepted"
    BY <1>4, VerdictIs
  <2> QED
    BY <1>1, <1>3, <2>3, <2>10, <2>11, <2>12 DEF Says
<1>5. CASE \E l \in 1..n :
              /\ Ends(l)
              /\ IF ~ Honest(replies[l], TRUE) THEN ReserveAnswer = QpmError
                 ELSE /\ ReserveAnswer = AdmissionResponse("RESERVE_RESPONSE",
                                           replies[l].status, GivenUp(l))
                      /\ Results(GivenUp(l), l)
  <2>1. PICK l \in 1..n :
              /\ Ends(l)
              /\ IF ~ Honest(replies[l], TRUE) THEN ReserveAnswer = QpmError
                 ELSE /\ ReserveAnswer = AdmissionResponse("RESERVE_RESPONSE",
                                           replies[l].status, GivenUp(l))
                      /\ Results(GivenUp(l), l)
    BY <1>5
  <2>2. Verdict(TRUE) = IF ~ Honest(replies[l], TRUE) THEN "gateway_error"
                        ELSE IF replies[l].status = Rejected THEN "rejected"
                        ELSE IF replies[l].status = Delayed THEN "delayed"
                        ELSE "accepted"
    BY <2>1, VerdictIs
  <2>3. CASE ~ Honest(replies[l], TRUE)
    <3>1. ReserveAnswer = QpmError /\ Verdict(TRUE) = "gateway_error"
      BY <2>1, <2>2, <2>3
    <3>2. CDecode(PyFrame(QpmError)) # {}
      BY QpmErrorIs, CReadsBack
    <3>3. ClientOutcome(QpmError, {Service(i) : i \in DOMAIN replies}, TRUE) = "gateway_error"
      BY <3>2, QpmErrorIs DEF ClientOutcome
    <3> QED
      BY <3>1, <3>3, QpmErrorIs
  <2>4. CASE Honest(replies[l], TRUE)
    <3> DEFINE items == GivenUp(l)
               f == ResultOf(l, TRUE)
               d == replies[l].status
    <3>1. ReserveAnswer = AdmissionResponse(k, d, items) /\ Results(items, l)
      BY <2>1, <2>4
    <3>2. d \in 1..3 /\ d # Accepted
      BY <2>1, <2>4, HonestStatus DEF Ends, Takes
    <3>3. l \in Nat /\ l <= n /\ l \in 1..MAX_SERVICES /\ l \in 1..l
      BY <1>1 DEF MAX_SERVICES
    <3>4. /\ Shaped(f) /\ f["SERVICE_ID"] = Service(l) /\ f["ADMISSION_DECISION"] = d
          /\ "RESERVATION_ID" \notin DOMAIN f /\ PyWritable(f)
      BY <1>2, <2>4, <3>2 DEF Outcome
    <3>5. items = [i \in 1..l |-> IF i = l THEN f ELSE RolledBack(ResultOf(i, TRUE), f)]
      BY DEF GivenUp
    <3> HIDE DEF f
    <3>6. DOMAIN items = 1..l
          /\ \A i \in 1..l : items[i] = IF i = l THEN f ELSE RolledBack(ResultOf(i, TRUE), f)
      BY <3>5
    <3> HIDE DEF items, d
    <3>7. ASSUME NEW i \in 1..l
          PROVE  /\ items[i]["SERVICE_ID"] = Service(i) /\ items[i]["ADMISSION_DECISION"] = d
                 /\ "RESERVATION_ID" \notin DOMAIN items[i] /\ PyWritable(items[i])
      <4>1. CASE i = l
        BY <3>4, <3>6, <4>1
      <4>2. CASE i # l
        <5>1. i \in 1..(l - 1) /\ i \in 1..n
          BY <1>1, <3>3, <4>2
        <5>2. Honest(replies[i], TRUE) /\ Printable(replies[i])
          BY <2>1, <5>1 DEF Ends, Takes
        <5>3. /\ Shaped(ResultOf(i, TRUE)) /\ ResultOf(i, TRUE)["SERVICE_ID"] = Service(i)
              /\ PyWritable(ResultOf(i, TRUE))
          BY <1>2, <5>1, <5>2 DEF Outcome
        <5>4. items[i] = RolledBack(ResultOf(i, TRUE), f)
          BY <3>6, <4>2
        <5> DEFINE x == ResultOf(i, TRUE)
                   b == RolledBack(x, f)
        <5>5. /\ b["SERVICE_ID"] = x["SERVICE_ID"]
              /\ b["ADMISSION_DECISION"] = f["ADMISSION_DECISION"]
              /\ "RESERVATION_ID" \notin DOMAIN b /\ PyWritable(b)
          <6>1. Shaped(x) /\ Shaped(f) /\ PyWritable(x) /\ PyWritable(f)
            BY <3>4, <5>3
          <6> HIDE DEF x
          <6> QED
            BY <6>1, RolledBackIs
        <5>6. items[i] = b /\ x["SERVICE_ID"] = Service(i)
          BY <5>3, <5>4
        <5> HIDE DEF b, x
        <5> QED
          BY <3>4, <5>5, <5>6
      <4> QED
        BY <4>1, <4>2
    <3>8. Decisions(items) = {d}
      BY <3>3, <3>6, <3>7 DEF Decisions
    <3>9. PyConsistent(d, Decisions(items)) /\ Decisions(items) \subseteq 1..3
      BY <3>2, <3>8 DEF PyConsistent, Accepted, Delayed, Rejected
    <3>10. \A i \in 1..l : PyEncodesResult(items[i], k = "RESERVE_RESPONSE")
      BY <3>2, <3>7 DEF PyEncodesResult
    <3> HIDE DEF k
    <3>11. Sound(k, d, items, l)
      BY <3>1, <3>7, <3>9, <3>10 DEF Sound
    <3>12. Says(AdmissionResponse(k, d, items), k, d, n)
      BY <1>1, <1>3, <3>2, <3>3, <3>11, ClientUnderstands
    <3>13. Understood(d) = Verdict(TRUE)
      <4>1. Verdict(TRUE) = IF d = Rejected THEN "rejected"
                            ELSE IF d = Delayed THEN "delayed" ELSE "accepted"
        BY <2>2, <2>4 DEF d
      <4>2. CASE d = 2
        BY <4>1, <4>2, UnderstoodIs DEF Rejected, Delayed
      <4>3. CASE d = 3
        BY <4>1, <4>3, UnderstoodIs DEF Rejected
      <4>4. d = 2 \/ d = 3
        BY <3>2 DEF Accepted
      <4> QED
        BY <4>2, <4>3, <4>4
    <3> QED
      BY <1>1, <1>3, <3>1, <3>12, <3>13 DEF Says
  <2> QED
    BY <2>3, <2>4
<1> QED
  BY <1>4, <1>5, ReserveIs

-----------------------------------------------------------------------------
(* Every answer that can be sent is a message, and a replay repeats it.    *)

\* The decision over all services is one of the three.
LEMMA StatusIs ==
  ASSUME NEW n, Asked(n)
  PROVE  Worst(n) \in 1..3
  BY DEF Worst, Accepted, Delayed, Rejected

\* An answer that can be encoded is a message.
LEMMA AnswerIsMessage ==
  ASSUME NEW n, Asked(n), NEW m \in {EvaluateAnswer, ReserveAnswer}, PyEncodes(m)
  PROVE  IsMessage(m) /\ Decided(m)
<1>1. ASSUME NEW k \in Admissions, NEW d \in 1..3, NEW l \in 1..n, NEW items,
             Results(items, l), m = AdmissionResponse(k, d, items)
      PROVE  IsMessage(m) /\ Decided(m)
  <2>1. l \in 1..MAX_SERVICES /\ l \in Nat
    <3>1. n \in 1..MAX_SERVICES
      BY DEF Asked
    <3> QED
      BY <3>1 DEF MAX_SERVICES
  <2>2. m.items = items
    BY <1>1 DEF AdmissionResponse
  <2>3. DOMAIN items = 1..l
    BY <1>1, <2>1 DEF Results
  <2>4. \A i \in 1..l : PyWritable(items[i])
    BY <2>2, <2>3 DEF PyEncodes
  <2> QED
    BY <1>1, <2>1, <2>4, ResponseIs
<1>2. n \in 1..n /\ Accepted \in 1..3 /\ {"EVALUATE_RESPONSE", "RESERVE_RESPONSE"} = Admissions
  BY AskedIs DEF Accepted, Admissions
<1>3. CASE m = EvaluateAnswer
  <2>1. CASE \E i \in 1..n : ~ Honest(replies[i], FALSE)
    BY <1>3, <2>1, EvaluateIs, QpmErrorIs
  <2>2. CASE \A i \in 1..n : Honest(replies[i], FALSE)
    <3> DEFINE items == [i \in 1..n |-> ResultOf(i, FALSE)]
    <3>1. m = AdmissionResponse("EVALUATE_RESPONSE", Worst(n), items) /\ Results(items, n)
      BY <1>3, <2>2, EvaluateIs
    <3>2. Worst(n) \in 1..3 /\ "EVALUATE_RESPONSE" \in Admissions
      BY <1>2, StatusIs
    <3> HIDE DEF items
    <3> QED
      BY <1>1, <1>2, <3>1, <3>2
  <2> QED
    BY <2>1, <2>2
<1>4. CASE m = ReserveAnswer
  <2>1. CASE /\ ReserveAnswer = AdmissionResponse("RESERVE_RESPONSE", Accepted,
                                 [i \in 1..n |-> ResultOf(i, TRUE)])
             /\ Results([i \in 1..n |-> ResultOf(i, TRUE)], n)
    <3> DEFINE items == [i \in 1..n |-> ResultOf(i, TRUE)]
    <3>1. m = AdmissionResponse("RESERVE_RESPONSE", Accepted, items) /\ Results(items, n)
      BY <1>4, <2>1
    <3>2. "RESERVE_RESPONSE" \in Admissions
      BY <1>2
    <3> HIDE DEF items
    <3> QED
      BY <1>1, <1>2, <3>1, <3>2
  <2>2. ASSUME NEW l \in 1..n, Honest(replies[l], TRUE),
               ReserveAnswer = AdmissionResponse("RESERVE_RESPONSE", replies[l].status,
                                                 GivenUp(l)),
               Results(GivenUp(l), l)
        PROVE  IsMessage(m) /\ Decided(m)
    <3>1. replies[l].status \in 1..3 /\ "RESERVE_RESPONSE" \in Admissions
      BY <1>2, <2>2, HonestStatus
    <3>2. m = AdmissionResponse("RESERVE_RESPONSE", replies[l].status, GivenUp(l))
      BY <1>4, <2>2
    <3> QED
      BY <1>1, <2>2, <3>1, <3>2
  <2>3. CASE ReserveAnswer = QpmError
    BY <1>4, <2>3, QpmErrorIs
  <2> QED
    BY <2>1, <2>2, <2>3, ReserveIs
<1> QED
  BY <1>3, <1>4

\* A response that is stored in the journal and read back for a repeated
\* request (response_to_dict, response_from_dict) goes out as the same frame,
\* whichever way it was made.
THEOREM ReplayIdenticalHolds == Spec => []ReplayIdentical
<1>1. ASSUME WireInv PROVE ReplayIdentical
  <2> SUFFICES ASSUME msg.kind \in Responses, PyEncodes(msg), Decided(msg)
               PROVE  {PyFrame(m) : m \in response_from_dict(response_to_dict(msg))}
                        = {PyFrame(msg)}
    BY DEF ReplayIdentical
  <2>1. IsMessage(msg)
    <3>1. CASE stage \in {"compose", "sent"}
      BY <1>1, <3>1 DEF WireInv
    <3>2. CASE stage = "ask"
      BY <1>1, <3>2, QpmErrorIs DEF WireInv
    <3>3. CASE stage = "answered"
      <4>1. Asked(Len(replies)) /\ msg \in {EvaluateAnswer, ReserveAnswer}
        BY <1>1, <3>3 DEF WireInv, Asked
      <4> QED
        BY <4>1, AnswerIsMessage
    <3> QED
      BY <1>1, <3>1, <3>2, <3>3 DEF WireInv
  <2>2. response_from_dict(response_to_dict(msg)) = {msg}
    BY <2>1, JournalKeeps
  <2> QED
    BY <2>2
<1> QED
  BY <1>1, WireTyped, PTL

\* Whatever the QPMs reply to up to thirty-two services, within the limits
\* the gateway leaves to them, GatewayService has an answer that it can
\* encode and that fits a frame, and the client takes it for what the replies
\* amount to.
THEOREM AnswerIsUnderstoodHolds == Spec => []AnswerIsUnderstood
<1>1. ASSUME WireInv PROVE AnswerIsUnderstood
  <2> SUFFICES ASSUME stage = "answered", \A i \in DOMAIN replies : Printable(replies[i])
               PROVE  \E reserve \in BOOLEAN :
                        /\ msg = IF reserve THEN ReserveAnswer ELSE EvaluateAnswer
                        /\ PyEncodes(msg)
                        /\ ClientOutcome(msg, {Service(i) : i \in DOMAIN replies}, reserve)
                             = Verdict(reserve)
    BY DEF AnswerIsUnderstood
  <2> DEFINE n == Len(replies)
  <2>1. Asked(n) /\ msg \in {EvaluateAnswer, ReserveAnswer}
    BY <1>1 DEF WireInv, Asked
  <2> HIDE DEF n
  <2>2. \A i \in 1..n : Printable(replies[i])
    BY <2>1, AskedIs
  <2>3. CASE msg = ReserveAnswer
    <3>1. /\ PyEncodes(msg)
          /\ ClientOutcome(msg, {Service(i) : i \in DOMAIN replies}, TRUE) = Verdict(TRUE)
      BY <2>1, <2>2, <2>3, ReserveUnderstood
    <3> WITNESS TRUE \in BOOLEAN
    <3> QED
      BY <2>3, <3>1
  <2>4. CASE msg = EvaluateAnswer
    <3>1. /\ PyEncodes(msg)
          /\ ClientOutcome(msg, {Service(i) : i \in DOMAIN replies}, FALSE) = Verdict(FALSE)
      BY <2>1, <2>2, <2>4, EvaluateUnderstood
    <3> WITNESS FALSE \in BOOLEAN
    <3> QED
      BY <2>4, <3>1
  <2> QED
    BY <2>1, <2>3, <2>4
<1> QED
  BY <1>1, WireTyped, PTL
=============================================================================
