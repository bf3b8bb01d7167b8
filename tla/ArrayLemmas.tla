---------------------------- MODULE ArrayLemmas ----------------------------
(***************************************************************************)
(* What Keep and Flat return, proved by induction on the prefix they have  *)
(* read, and what sums and other repeated steps come to.  The induction is *)
(* over a set of numbers: a theorem that takes a predicate as a parameter  *)
(* cannot be instantiated.                                                 *)
(***************************************************************************)
EXTENDS Arrays, Functions, TLAPS, WellFoundedInduction

\* A set of numbers that holds 0 and, with a number, the next one, holds them all.
LEMMA SetInduction ==
    ASSUME NEW S, 0 \in S, \A n \in Nat : n \in S => n + 1 \in S
    PROVE  \A n \in Nat : n \in S
<1> DEFINE Missing == Nat \ S
           Below == {mn \in Nat \X Nat : mn[1] < mn[2]}
<1>1. IsWellFoundedOn(Below, Nat)
  BY NatLessThanWellFounded, Zenon DEF OpToRel
<1>2. SUFFICES ASSUME Missing # {} PROVE FALSE
  OBVIOUS
<1>3. PICK m \in Missing : \A k \in Missing : <<k, m>> \notin Below
  <2> HIDE DEF Below
  <2>1. Missing \subseteq Nat
    OBVIOUS
  <2> HIDE DEF Missing
  <2> QED BY <1>1, <1>2, <2>1, WFMin
<1>4. m \in Nat /\ m # 0 /\ m - 1 \in Nat
  BY <1>3
<1>5. m - 1 \in Missing
  BY <1>4, <1>3
<1>6. <<m - 1, m>> \in Below
  BY <1>4
<1> QED BY <1>3, <1>5, <1>6

\* One more element of the prefix.
Extended(kept, s, S, n) ==
    IF n = 0 THEN <<>>
    ELSE IF s[n] \in S THEN Append(kept[n - 1], s[n])
    ELSE kept[n - 1]

\* The recursion of Keep has a solution for every prefix.
LEMMA KeptExists ==
    ASSUME NEW T, NEW s \in Seq(T), NEW S
    PROVE  \E kept : kept = [n \in 0 .. Len(s) |-> Extended(kept, s, S, n)]
<1> DEFINE P == {m \in Nat : \E kept : kept = [n \in 0 .. m |-> Extended(kept, s, S, n)]}
<1>1. 0 \in P
  <2> DEFINE g == [n \in 0 .. 0 |-> <<>>]
  <2>1. g = [n \in 0 .. 0 |-> Extended(g, s, S, n)]
    BY DEF Extended
  <2> QED BY <2>1
<1>2. ASSUME NEW m \in Nat, m \in P PROVE m + 1 \in P
  <2>1. PICK g : g = [n \in 0 .. m |-> Extended(g, s, S, n)]
    BY <1>2
  <2> DEFINE h == [n \in 0 .. (m + 1) |-> IF n = m + 1 THEN Extended(g, s, S, n) ELSE g[n]]
  <2>2. ASSUME NEW n \in 0 .. (m + 1) PROVE h[n] = Extended(h, s, S, n)
    <3>1. CASE n = m + 1
      BY <3>1 DEF Extended
    <3>2. CASE n # m + 1
      <4>1. n \in 0 .. m /\ g[n] = Extended(g, s, S, n) /\ h[n] = g[n]
        BY <2>1, <3>2
      <4>2. n # 0 => h[n - 1] = g[n - 1]
        BY <4>1
      <4> QED BY <4>1, <4>2 DEF Extended
    <3> QED BY <3>1, <3>2
  <2> HIDE DEF h
  <2>4. h = [n \in 0 .. (m + 1) |-> h[n]]
    BY DEF h
  <2>3. h = [n \in 0 .. (m + 1) |-> Extended(h, s, S, n)]
    BY <2>2, <2>4
  <2> QED BY <2>3
<1> HIDE DEF P
<1>3. \A m \in Nat : m \in P
  BY <1>1, <1>2, SetInduction
<1>4. Len(s) \in P
  BY <1>3
<1> QED BY <1>4 DEF P

\* Keep by its recursion.
LEMMA KeepUnfolds ==
    ASSUME NEW T, NEW s \in Seq(T), NEW S
    PROVE  \E kept : /\ Keep(s, S) = kept[Len(s)]
                     /\ kept[0] = <<>>
                     /\ \A n \in Nat : n + 1 <= Len(s) =>
                            kept[n + 1] = IF s[n + 1] \in S THEN Append(kept[n], s[n + 1])
                                          ELSE kept[n]
<1> DEFINE Solves(kept) == kept = [n \in 0 .. Len(s) |-> Extended(kept, s, S, n)]
           f == CHOOSE kept : Solves(kept)
<1>1. \E kept : Solves(kept)
  BY KeptExists
<1>2. Solves(f)
  BY <1>1
<1>3. Keep(s, S) = f[Len(s)]
  BY DEF Keep, Extended
<1> HIDE DEF f
<1>4. \A n \in 0 .. Len(s) : f[n] = Extended(f, s, S, n)
  BY <1>2
<1>5. f[0] = <<>>
  <2>1. 0 \in 0 .. Len(s)
    OBVIOUS
  <2> QED BY <2>1, <1>4 DEF Extended
<1>6. ASSUME NEW n \in Nat, n + 1 <= Len(s)
      PROVE  f[n + 1] = IF s[n + 1] \in S THEN Append(f[n], s[n + 1]) ELSE f[n]
  <2>1. n + 1 \in 0 .. Len(s) /\ n + 1 # 0 /\ (n + 1) - 1 = n
    BY <1>6
  <2> QED BY <2>1, <1>4 DEF Extended
<1> QED BY <1>3, <1>5, <1>6

\* Every property of Keep that holds of the empty sequence and is handed on by one more
\* element is shown for the prefixes of s in turn.
LEMMA KeepType ==
    ASSUME NEW T, NEW s \in Seq(T), NEW S
    PROVE  Keep(s, S) \in Seq(T)
<1>1. PICK kept : /\ Keep(s, S) = kept[Len(s)]
                  /\ kept[0] = <<>>
                  /\ \A n \in Nat : n + 1 <= Len(s) =>
                         kept[n + 1] = IF s[n + 1] \in S THEN Append(kept[n], s[n + 1])
                                       ELSE kept[n]
  BY KeepUnfolds
<1> DEFINE P == {n \in Nat : n <= Len(s) => kept[n] \in Seq(T)}
<1>2. 0 \in P
  <2>1. kept[0] = <<>>
    BY <1>1
  <2>2. kept[0] \in Seq(T) /\ Len(kept[0]) = 0
    BY <2>1
  <2> QED BY <2>2
<1>3. ASSUME NEW n \in Nat, n \in P PROVE n + 1 \in P
  <2> SUFFICES ASSUME n + 1 <= Len(s) PROVE kept[n + 1] \in Seq(T)
    OBVIOUS
  <2>1. kept[n] \in Seq(T) /\ s[n + 1] \in T
    BY <1>3
  <2>2. kept[n + 1] = IF s[n + 1] \in S THEN Append(kept[n], s[n + 1]) ELSE kept[n]
    BY <1>1
  <2> QED BY <2>1, <2>2
<1> HIDE DEF P
<1>4. \A n \in Nat : n \in P
  BY <1>2, <1>3, SetInduction
<1>5. Len(s) \in P
  BY <1>4
<1> QED BY <1>1, <1>5 DEF P

LEMMA RangeOfAppend ==
    ASSUME NEW T, NEW s \in Seq(T), NEW x \in T
    PROVE  Range(Append(s, x)) = Range(s) \cup {x}
<1>1. DOMAIN s = 1 .. Len(s) /\ DOMAIN Append(s, x) = 1 .. (Len(s) + 1)
  OBVIOUS
<1>2. \A i \in 1 .. Len(s) : Append(s, x)[i] = s[i]
  OBVIOUS
<1>3. Append(s, x)[Len(s) + 1] = x
  OBVIOUS
<1>4. ASSUME NEW y \in Range(Append(s, x)) PROVE y \in Range(s) \cup {x}
  BY <1>1, <1>2, <1>3 DEF Range
<1>5. ASSUME NEW y \in Range(s) PROVE y \in Range(Append(s, x))
  <2>1. PICK i \in 1 .. Len(s) : y = s[i]
    BY <1>1 DEF Range
  <2> QED BY <2>1, <1>1, <1>2 DEF Range
<1>6. x \in Range(Append(s, x))
  <2>1. Len(s) + 1 \in 1 .. (Len(s) + 1)
    OBVIOUS
  <2> QED BY <2>1, <1>1, <1>3 DEF Range
<1> QED BY <1>4, <1>5, <1>6

LEMMA KeepRange ==
    ASSUME NEW T, NEW s \in Seq(T), NEW S
    PROVE  Range(Keep(s, S)) = Range(s) \cap S
<1>1. PICK kept : /\ Keep(s, S) = kept[Len(s)]
                  /\ kept[0] = <<>>
                  /\ \A n \in Nat : n + 1 <= Len(s) =>
                         kept[n + 1] = IF s[n + 1] \in S THEN Append(kept[n], s[n + 1])
                                       ELSE kept[n]
  BY KeepUnfolds
<1> DEFINE Read(n) == {s[i] : i \in 1 .. n}
           P == {n \in Nat : n <= Len(s) => /\ kept[n] \in Seq(T)
                                             /\ Range(kept[n]) = Read(n) \cap S}
<1>2. 0 \in P
  <2>1. kept[0] = <<>>
    BY <1>1
  <2>2. Read(0) = {} /\ Range(<<>>) = {}
    BY DEF Range
  <2>3. Range(kept[0]) = Read(0) \cap S /\ kept[0] \in Seq(T)
    BY <2>1, <2>2
  <2> QED BY <2>3
<1>3. ASSUME NEW n \in Nat, n \in P PROVE n + 1 \in P
  <2> SUFFICES ASSUME n + 1 <= Len(s)
               PROVE  kept[n + 1] \in Seq(T) /\ Range(kept[n + 1]) = Read(n + 1) \cap S
    OBVIOUS
  <2>1. kept[n] \in Seq(T) /\ s[n + 1] \in T /\ Range(kept[n]) = Read(n) \cap S
    BY <1>3
  <2>2. kept[n + 1] = IF s[n + 1] \in S THEN Append(kept[n], s[n + 1]) ELSE kept[n]
    BY <1>1
  <2>3. Read(n + 1) = Read(n) \cup {s[n + 1]}
    <3>1. 1 .. (n + 1) = (1 .. n) \cup {n + 1}
      OBVIOUS
    <3> QED BY <3>1
  <2> HIDE DEF Read
  <2>4. CASE s[n + 1] \in S
    <3>1. kept[n + 1] = Append(kept[n], s[n + 1])
      BY <2>2, <2>4
    <3>2. Range(kept[n + 1]) = Range(kept[n]) \cup {s[n + 1]}
      BY <2>1, <3>1, RangeOfAppend
    <3> QED BY <2>1, <2>3, <2>4, <3>1, <3>2
  <2>5. CASE s[n + 1] \notin S
    BY <2>1, <2>2, <2>3, <2>5
  <2> QED BY <2>4, <2>5
<1>4. Range(s) = Read(Len(s))
  <2>1. DOMAIN s = 1 .. Len(s)
    OBVIOUS
  <2> QED BY <2>1 DEF Range
<1> HIDE DEF P
<1>5. \A n \in Nat : n \in P
  BY <1>2, <1>3, SetInduction
<1>6. Len(s) \in P
  BY <1>5
<1> QED BY <1>1, <1>4, <1>6 DEF P

\* Nothing is lost when every element is in the set.
LEMMA KeepAll ==
    ASSUME NEW T, NEW s \in Seq(T), NEW S, Range(s) \subseteq S
    PROVE  Keep(s, S) = s
<1>1. PICK kept : /\ Keep(s, S) = kept[Len(s)]
                  /\ kept[0] = <<>>
                  /\ \A n \in Nat : n + 1 <= Len(s) =>
                         kept[n + 1] = IF s[n + 1] \in S THEN Append(kept[n], s[n + 1])
                                       ELSE kept[n]
  BY KeepUnfolds
<1> DEFINE P == {n \in Nat : n <= Len(s) => /\ kept[n] \in Seq(T) /\ Len(kept[n]) = n
                                             /\ \A i \in 1 .. n : kept[n][i] = s[i]}
<1>2. 0 \in P
  <2>1. kept[0] = <<>>
    BY <1>1
  <2>2. kept[0] \in Seq(T) /\ Len(kept[0]) = 0
    BY <2>1
  <2> QED BY <2>2
<1>3. ASSUME NEW n \in Nat, n \in P PROVE n + 1 \in P
  <2> SUFFICES ASSUME n + 1 <= Len(s)
               PROVE  /\ kept[n + 1] \in Seq(T) /\ Len(kept[n + 1]) = n + 1
                      /\ \A i \in 1 .. (n + 1) : kept[n + 1][i] = s[i]
    OBVIOUS
  <2>1. kept[n] \in Seq(T) /\ Len(kept[n]) = n /\ \A i \in 1 .. n : kept[n][i] = s[i]
    BY <1>3
  <2>2. s[n + 1] \in T /\ s[n + 1] \in S
    <3>1. n + 1 \in DOMAIN s
      OBVIOUS
    <3> QED BY <3>1 DEF Range
  <2>3. kept[n + 1] = Append(kept[n], s[n + 1])
    BY <1>1, <2>2
  <2> QED BY <2>1, <2>2, <2>3
<1> HIDE DEF P
<1>4. \A n \in Nat : n \in P
  BY <1>2, <1>3, SetInduction
<1>5. Len(s) \in P
  BY <1>4
<1>6. /\ Keep(s, S) \in Seq(T) /\ Len(Keep(s, S)) = Len(s)
      /\ \A i \in 1 .. Len(s) : Keep(s, S)[i] = s[i]
  BY <1>1, <1>5 DEF P
<1> QED BY <1>6

\* Nothing is kept when no element is in the set.
LEMMA KeepNone ==
    ASSUME NEW T, NEW s \in Seq(T), NEW S, Range(s) \cap S = {}
    PROVE  Keep(s, S) = <<>>
<1>1. Keep(s, S) \in Seq(T) /\ Range(Keep(s, S)) = {}
  BY KeepType, KeepRange
<1>2. DOMAIN Keep(s, S) = 1 .. Len(Keep(s, S))
  BY <1>1
<1>3. Len(Keep(s, S)) = 0
  <2>1. Len(Keep(s, S)) \in Nat
    BY <1>1
  <2>2. 1 \notin DOMAIN Keep(s, S)
    BY <1>1 DEF Range
  <2> QED BY <2>1, <2>2, <1>2
<1> QED BY <1>1, <1>3

\* Keep never lengthens a sequence, and shortens it when it leaves an element out.
LEMMA KeepShortens ==
    ASSUME NEW T, NEW s \in Seq(T), NEW S
    PROVE  /\ Len(Keep(s, S)) <= Len(s)
           /\ ~(Range(s) \subseteq S) => Len(Keep(s, S)) < Len(s)
<1>1. PICK kept : /\ Keep(s, S) = kept[Len(s)]
                  /\ kept[0] = <<>>
                  /\ \A n \in Nat : n + 1 <= Len(s) =>
                         kept[n + 1] = IF s[n + 1] \in S THEN Append(kept[n], s[n + 1])
                                       ELSE kept[n]
  BY KeepUnfolds
<1> DEFINE Short(n) == /\ kept[n] \in Seq(T) /\ Len(kept[n]) <= n
                       /\ (\E i \in 1 .. n : s[i] \notin S) => Len(kept[n]) < n
           P == {n \in Nat : n <= Len(s) => Short(n)}
<1>2. 0 \in P
  <2>1. kept[0] = <<>>
    BY <1>1
  <2>2. kept[0] \in Seq(T) /\ Len(kept[0]) = 0
    BY <2>1
  <2> QED BY <2>2
<1>3. ASSUME NEW n \in Nat, n \in P PROVE n + 1 \in P
  <2> SUFFICES ASSUME n + 1 <= Len(s) PROVE Short(n + 1)
    <3> HIDE DEF Short
    <3> QED OBVIOUS
  <2>1. /\ kept[n] \in Seq(T) /\ Len(kept[n]) \in Nat /\ Len(kept[n]) <= n
        /\ (\E i \in 1 .. n : s[i] \notin S) => Len(kept[n]) < n
    BY <1>3
  <2>2. s[n + 1] \in T
    OBVIOUS
  <2>3. kept[n + 1] = IF s[n + 1] \in S THEN Append(kept[n], s[n + 1]) ELSE kept[n]
    BY <1>1
  <2>4. 1 .. (n + 1) = (1 .. n) \cup {n + 1}
    OBVIOUS
  <2>5. CASE s[n + 1] \in S
    <3>1. /\ kept[n + 1] \in Seq(T) /\ Len(kept[n + 1]) = Len(kept[n]) + 1
      BY <2>1, <2>2, <2>3, <2>5
    <3> QED BY <2>1, <2>4, <2>5, <3>1
  <2>6. CASE s[n + 1] \notin S
    <3>1. kept[n + 1] = kept[n]
      BY <2>3, <2>6
    <3> QED BY <2>1, <3>1
  <2> QED BY <2>5, <2>6
<1> HIDE DEF P
<1>4. \A n \in Nat : n \in P
  BY <1>2, <1>3, SetInduction
<1>5. Len(s) \in P
  BY <1>4
<1>6. DOMAIN s = 1 .. Len(s)
  OBVIOUS
<1>7. Short(Len(s))
  BY <1>5 DEF P
<1> QED BY <1>1, <1>6, <1>7 DEF Range

\* All but one element: those after it move up by one.
LEMMA KeepAllBut ==
    ASSUME NEW T, NEW s \in Seq(T), NEW S, NEW m \in 1 .. Len(s),
           \A i \in 1 .. Len(s) : s[i] \in S <=> i # m
    PROVE  /\ Keep(s, S) \in Seq(T) /\ Len(Keep(s, S)) = Len(s) - 1
           /\ \A i \in 1 .. Len(s) - 1 : Keep(s, S)[i] = s[IF i < m THEN i ELSE i + 1]
<1>1. PICK kept : /\ Keep(s, S) = kept[Len(s)]
                  /\ kept[0] = <<>>
                  /\ \A n \in Nat : n + 1 <= Len(s) =>
                         kept[n + 1] = IF s[n + 1] \in S THEN Append(kept[n], s[n + 1])
                                       ELSE kept[n]
  BY KeepUnfolds
<1> DEFINE Left(n) == IF n < m THEN n ELSE n - 1
           Same(n) == /\ kept[n] \in Seq(T) /\ Len(kept[n]) = Left(n)
                      /\ \A i \in 1 .. Left(n) : kept[n][i] = s[IF i < m THEN i ELSE i + 1]
           P == {n \in Nat : n <= Len(s) => Same(n)}
<1>0. m \in Nat /\ m >= 1 /\ m <= Len(s) /\ Len(s) \in Nat
  OBVIOUS
<1>2. 0 \in P
  <2>1. <<>> \in Seq(T) /\ Len(<<>>) = 0 /\ Left(0) = 0
    BY <1>0
  <2>2. Same(0)
    BY <1>1, <2>1
  <2> QED BY <2>2
<1>3. ASSUME NEW n \in Nat, n \in P PROVE n + 1 \in P
  <2> SUFFICES ASSUME n + 1 <= Len(s) PROVE Same(n + 1)
    <3> HIDE DEF Same
    <3> QED OBVIOUS
  <2>1. Same(n)
    <3>1. n <= Len(s)
      BY <1>0
    <3> HIDE DEF Same
    <3> QED BY <1>3, <3>1
  <2>2. n + 1 \in 1 .. Len(s) /\ s[n + 1] \in T
    OBVIOUS
  <2>3. CASE n + 1 = m
    <3>1. kept[n + 1] = kept[n]
      BY <1>1, <2>2, <2>3
    <3>2. Left(n + 1) = n /\ Left(n) = n
      BY <1>0, <2>3
    <3> HIDE DEF Left
    <3> QED BY <2>1, <3>1, <3>2
  <2>4. CASE n + 1 # m
    <3>1. kept[n + 1] = Append(kept[n], s[n + 1])
      BY <1>1, <2>2, <2>4
    <3>2. Left(n + 1) = Left(n) + 1 /\ Left(n) \in Nat
          /\ n + 1 = (IF Left(n) + 1 < m THEN Left(n) + 1 ELSE (Left(n) + 1) + 1)
      BY <1>0, <2>4
    <3> DEFINE a == Append(kept[n], s[n + 1])
    <3> HIDE DEF Left
    <3>3. a \in Seq(T) /\ Len(a) = Left(n) + 1 /\ a[Left(n) + 1] = s[n + 1]
          /\ \A i \in 1 .. Left(n) : a[i] = kept[n][i]
      BY <2>1, <2>2
    <3> HIDE DEF a
    <3>4. ASSUME NEW i \in 1 .. Left(n) + 1 PROVE a[i] = s[IF i < m THEN i ELSE i + 1]
      <4>1. CASE i = Left(n) + 1
        BY <3>2, <3>3, <4>1
      <4>2. CASE i # Left(n) + 1
        <5>1. i \in 1 .. Left(n)
          BY <3>2, <4>2
        <5> QED BY <2>1, <3>3, <5>1
      <4> QED BY <4>1, <4>2
    <3> QED BY <3>1, <3>2, <3>3, <3>4 DEF a
  <2> QED BY <2>3, <2>4
<1> HIDE DEF P
<1>4. \A n \in Nat : n \in P
  BY <1>2, <1>3, SetInduction
<1>5. Len(s) \in P
  BY <1>0, <1>4
<1>6. Same(Len(s))
  <2> HIDE DEF Same
  <2> QED BY <1>0, <1>5 DEF P
<1>7. Left(Len(s)) = Len(s) - 1
  BY <1>0
<1> HIDE DEF Left
<1> QED BY <1>1, <1>6, <1>7

-----------------------------------------------------------------------------
\* One more part of the prefix.
Lengthened(flat, parts, n) == IF n = 0 THEN <<>> ELSE flat[n - 1] \o parts[n]

\* The recursion of Flat has a solution for every prefix.
LEMMA FlatExists ==
    ASSUME NEW T, NEW parts \in Seq(T)
    PROVE  \E flat : flat = [n \in 0 .. Len(parts) |-> Lengthened(flat, parts, n)]
<1> DEFINE P == {m \in Nat : \E flat : flat = [n \in 0 .. m |-> Lengthened(flat, parts, n)]}
<1>1. 0 \in P
  <2> DEFINE g == [n \in 0 .. 0 |-> <<>>]
  <2>1. g = [n \in 0 .. 0 |-> Lengthened(g, parts, n)]
    BY DEF Lengthened
  <2> QED BY <2>1
<1>2. ASSUME NEW m \in Nat, m \in P PROVE m + 1 \in P
  <2>1. PICK g : g = [n \in 0 .. m |-> Lengthened(g, parts, n)]
    BY <1>2
  <2> DEFINE h == [n \in 0 .. (m + 1) |-> IF n = m + 1 THEN Lengthened(g, parts, n) ELSE g[n]]
  <2>2. ASSUME NEW n \in 0 .. (m + 1) PROVE h[n] = Lengthened(h, parts, n)
    <3>1. CASE n = m + 1
      BY <3>1 DEF Lengthened
    <3>2. CASE n # m + 1
      <4>1. n \in 0 .. m /\ g[n] = Lengthened(g, parts, n) /\ h[n] = g[n]
        BY <2>1, <3>2
      <4>2. n # 0 => h[n - 1] = g[n - 1]
        BY <4>1
      <4> QED BY <4>1, <4>2 DEF Lengthened
    <3> QED BY <3>1, <3>2
  <2> HIDE DEF h
  <2>3. h = [n \in 0 .. (m + 1) |-> h[n]]
    BY DEF h
  <2>4. h = [n \in 0 .. (m + 1) |-> Lengthened(h, parts, n)]
    BY <2>2, <2>3
  <2> QED BY <2>4
<1> HIDE DEF P
<1>3. \A m \in Nat : m \in P
  BY <1>1, <1>2, SetInduction
<1>4. Len(parts) \in P
  BY <1>3
<1> QED BY <1>4 DEF P

\* Flat by its recursion.
LEMMA FlatUnfolds ==
    ASSUME NEW T, NEW parts \in Seq(T)
    PROVE  \E flat : /\ Flat(parts) = flat[Len(parts)]
                     /\ flat[0] = <<>>
                     /\ \A n \in Nat : n + 1 <= Len(parts) => flat[n + 1] = flat[n] \o parts[n + 1]
<1> DEFINE Solves(flat) == flat = [n \in 0 .. Len(parts) |-> Lengthened(flat, parts, n)]
           f == CHOOSE flat : Solves(flat)
<1>1. \E flat : Solves(flat)
  BY FlatExists
<1>2. Solves(f)
  BY <1>1
<1>3. Flat(parts) = f[Len(parts)]
  BY DEF Flat, Lengthened
<1> HIDE DEF f
<1>4. \A n \in 0 .. Len(parts) : f[n] = Lengthened(f, parts, n)
  BY <1>2
<1>5. f[0] = <<>>
  <2>1. 0 \in 0 .. Len(parts)
    OBVIOUS
  <2> QED BY <2>1, <1>4 DEF Lengthened
<1>6. ASSUME NEW n \in Nat, n + 1 <= Len(parts) PROVE f[n + 1] = f[n] \o parts[n + 1]
  <2>1. n + 1 \in 0 .. Len(parts) /\ n + 1 # 0 /\ (n + 1) - 1 = n
    BY <1>6
  <2> QED BY <2>1, <1>4 DEF Lengthened
<1> QED BY <1>3, <1>5, <1>6

\* What the parts are made of is what the whole is made of.
LEMMA FlatElements ==
    ASSUME NEW T, NEW parts \in Seq(Seq(T))
    PROVE  /\ Flat(parts) \in Seq(T)
           /\ \A i \in DOMAIN Flat(parts) : \E j \in DOMAIN parts : Flat(parts)[i] \in Range(parts[j])
<1>1. PICK flat : /\ Flat(parts) = flat[Len(parts)]
                  /\ flat[0] = <<>>
                  /\ \A n \in Nat : n + 1 <= Len(parts) => flat[n + 1] = flat[n] \o parts[n + 1]
  BY FlatUnfolds
<1> DEFINE Made(s) == \A i \in DOMAIN s : \E j \in DOMAIN parts : s[i] \in Range(parts[j])
           P == {n \in Nat : n <= Len(parts) => flat[n] \in Seq(T) /\ Made(flat[n])}
<1>2. 0 \in P
  <2>1. <<>> \in Seq(T) /\ DOMAIN <<>> = {}
    OBVIOUS
  <2> QED BY <1>1, <2>1
<1>3. ASSUME NEW n \in Nat, n \in P PROVE n + 1 \in P
  <2> SUFFICES ASSUME n + 1 <= Len(parts) PROVE flat[n + 1] \in Seq(T) /\ Made(flat[n + 1])
    OBVIOUS
  <2> DEFINE f == flat[n]
             q == parts[n + 1]
  <2>1. f \in Seq(T) /\ Made(f) /\ q \in Seq(T) /\ n + 1 \in DOMAIN parts
    BY <1>3
  <2>2. flat[n + 1] = f \o q
    BY <1>1
  <2> HIDE DEF f, Made
  <2>3. ASSUME NEW i \in DOMAIN (f \o q)
        PROVE  \E j \in DOMAIN parts : (f \o q)[i] \in Range(parts[j])
    <3>1. CASE i \in DOMAIN f
      <4>1. (f \o q)[i] = f[i]
        BY <2>1, <3>1
      <4> QED BY <2>1, <3>1, <4>1 DEF Made
    <3>2. CASE i \notin DOMAIN f
      <4>1. i - Len(f) \in DOMAIN q /\ (f \o q)[i] = q[i - Len(f)]
        BY <2>1, <3>2
      <4>2. (f \o q)[i] \in Range(q)
        BY <4>1 DEF Range
      <4> QED BY <2>1, <4>2
    <3> QED BY <3>1, <3>2
  <2> QED BY <2>1, <2>2, <2>3 DEF Made
<1> HIDE DEF P
<1>4. \A n \in Nat : n \in P
  BY <1>2, <1>3, SetInduction
<1>5. Len(parts) \in P
  BY <1>4
<1> QED BY <1>1, <1>5 DEF P

\* One more part goes to the end.
LEMMA FlatAppend ==
    ASSUME NEW T, NEW parts \in Seq(T), NEW p \in T
    PROVE  Flat(Append(parts, p)) = Flat(parts) \o p
<1> DEFINE more == Append(parts, p)
<1>1. more \in Seq(T) /\ Len(more) = Len(parts) + 1 /\ more[Len(parts) + 1] = p
      /\ \A i \in 1 .. Len(parts) : more[i] = parts[i]
  OBVIOUS
<1> HIDE DEF more
<1>2. PICK f : /\ Flat(parts) = f[Len(parts)]
               /\ f[0] = <<>>
               /\ \A n \in Nat : n + 1 <= Len(parts) => f[n + 1] = f[n] \o parts[n + 1]
  BY FlatUnfolds
<1>3. PICK g : /\ Flat(more) = g[Len(more)]
               /\ g[0] = <<>>
               /\ \A n \in Nat : n + 1 <= Len(more) => g[n + 1] = g[n] \o more[n + 1]
  BY <1>1, FlatUnfolds
<1> DEFINE P == {n \in Nat : n <= Len(parts) => f[n] = g[n]}
<1>4. 0 \in P
  BY <1>2, <1>3
<1>5. ASSUME NEW n \in Nat, n \in P PROVE n + 1 \in P
  <2> SUFFICES ASSUME n + 1 <= Len(parts) PROVE f[n + 1] = g[n + 1]
    OBVIOUS
  <2>1. f[n] = g[n] /\ more[n + 1] = parts[n + 1] /\ n + 1 <= Len(more)
    BY <1>1, <1>5
  <2> QED BY <1>2, <1>3, <2>1
<1> HIDE DEF P
<1>6. \A n \in Nat : n \in P
  BY <1>4, <1>5, SetInduction
<1>7. f[Len(parts)] = g[Len(parts)]
  <2>1. Len(parts) \in Nat /\ Len(parts) \in P
    BY <1>6
  <2> QED BY <2>1 DEF P
<1>8. g[Len(parts) + 1] = g[Len(parts)] \o p
  <2>1. Len(parts) \in Nat /\ Len(parts) + 1 <= Len(more)
    BY <1>1
  <2>2. g[Len(parts) + 1] = g[Len(parts)] \o more[Len(parts) + 1]
    BY <1>3, <2>1
  <2> QED BY <1>1, <2>2
<1> QED BY <1>1, <1>2, <1>3, <1>7, <1>8 DEF more

\* The first part comes first.
LEMMA FlatHead ==
    ASSUME NEW T, NEW parts \in Seq(Seq(T)), parts # <<>>
    PROVE  Flat(parts) = parts[1] \o Flat(Tail(parts))
<1> DEFINE less == Tail(parts)
<1>1. less \in Seq(Seq(T)) /\ Len(less) = Len(parts) - 1 /\ Len(parts) \in Nat
      /\ \A i \in 1 .. Len(less) : less[i] = parts[i + 1]
  OBVIOUS
<1> HIDE DEF less
<1>2. PICK f : /\ Flat(parts) = f[Len(parts)]
               /\ f[0] = <<>>
               /\ \A n \in Nat : n + 1 <= Len(parts) => f[n + 1] = f[n] \o parts[n + 1]
  BY FlatUnfolds
<1>3. PICK g : /\ Flat(less) = g[Len(less)]
               /\ g[0] = <<>>
               /\ \A n \in Nat : n + 1 <= Len(less) => g[n + 1] = g[n] \o less[n + 1]
  BY <1>1, FlatUnfolds
<1> DEFINE Same(n) == g[n] \in Seq(T) /\ f[n + 1] = parts[1] \o g[n]
           P == {n \in Nat : n + 1 <= Len(parts) => Same(n)}
<1>4. parts[1] \in Seq(T) /\ 1 <= Len(parts)
  OBVIOUS
<1>5. 0 \in P
  <2> DEFINE p == parts[1]
  <2>1. 0 \in Nat /\ 0 + 1 <= Len(parts) /\ 0 + 1 = 1
    BY <1>4
  <2>2. f[0 + 1] = f[0] \o parts[0 + 1]
    BY <1>2, <2>1
  <2>3. f[1] = <<>> \o p
    BY <1>2, <2>1, <2>2
  <2>4. p \in Seq(T) /\ <<>> \in Seq(T)
    BY <1>4
  <2> HIDE DEF p
  <2>5. <<>> \o p = p /\ p \o <<>> = p
    BY <2>4
  <2> USE DEF p
  <2> QED BY <1>3, <2>1, <2>3, <2>4, <2>5
<1>6. ASSUME NEW n \in Nat, n \in P PROVE n + 1 \in P
  <2> SUFFICES ASSUME (n + 1) + 1 <= Len(parts)
               PROVE  Same(n + 1)
    <3> HIDE DEF Same
    <3> QED OBVIOUS
  <2>0. n + 1 \in Nat /\ n + 1 <= Len(parts)
    BY <1>1
  <2>1. g[n] \in Seq(T) /\ f[n + 1] = parts[1] \o g[n]
    BY <1>6, <2>0
  <2>9. n + 1 <= Len(less) /\ n + 1 \in 1 .. Len(less)
    BY <1>1, <2>0
  <2>2. less[n + 1] = parts[(n + 1) + 1] /\ less[n + 1] \in Seq(T)
    BY <1>1, <2>9
  <2>3. g[n + 1] = g[n] \o less[n + 1]
    BY <1>3, <2>9
  <2>5. f[(n + 1) + 1] = f[n + 1] \o parts[(n + 1) + 1]
    BY <1>2, <2>0
  <2> DEFINE a == parts[1]
             b == g[n]
             c == less[n + 1]
  <2>6. a \in Seq(T) /\ b \in Seq(T) /\ c \in Seq(T)
    BY <1>4, <2>1, <2>2
  <2> HIDE DEF a, b, c
  <2>4. (a \o b) \o c = a \o (b \o c) /\ b \o c \in Seq(T)
    BY <2>6, SMTT(20)
  <2> USE DEF a, b, c
  <2> QED BY <2>1, <2>2, <2>3, <2>4, <2>5
<1> HIDE DEF P
<1>7. \A n \in Nat : n \in P
  BY <1>5, <1>6, SetInduction
<1>8. f[Len(parts)] = parts[1] \o g[Len(less)]
  <2>1. Len(less) \in Nat /\ Len(less) + 1 = Len(parts)
    BY <1>1, <1>4
  <2>2. Len(less) \in P
    BY <1>7, <2>1
  <2>3. f[Len(less) + 1] = parts[1] \o g[Len(less)]
    <3>1. Len(less) + 1 <= Len(parts)
      BY <1>1, <2>1
    <3> HIDE DEF Same
    <3>2. Same(Len(less))
      BY <2>1, <2>2, <3>1 DEF P
    <3> QED BY <3>2 DEF Same
  <2> QED BY <2>1, <2>3
<1> QED BY <1>2, <1>3, <1>8 DEF less

-----------------------------------------------------------------------------
(* Sequences, whatever they are made of *)

IsArray(s) == s \in Seq(Range(s))

\* A typed sequence is an array.
LEMMA ArrayType ==
    ASSUME NEW T, NEW s \in Seq(T)
    PROVE  IsArray(s)
<1>1. s = [i \in 1..Len(s) |-> s[i]] /\ Len(s) \in Nat /\ DOMAIN s = 1..Len(s)
  OBVIOUS
<1>2. \A i \in 1..Len(s) : s[i] \in Range(s)
  BY <1>1 DEF Range
<1> QED BY <1>1, <1>2 DEF IsArray

\* The length of an array, and its domain.
LEMMA ArrayLength ==
    ASSUME NEW s, IsArray(s)
    PROVE  /\ Len(s) \in Nat /\ DOMAIN s = 1..Len(s)
           /\ s = <<>> <=> Len(s) = 0
  BY DEF IsArray

\* What Append returns.
LEMMA ArrayGrows ==
    ASSUME NEW s, IsArray(s), NEW x
    PROVE  /\ IsArray(Append(s, x)) /\ Append(s, x) # <<>>
           /\ Len(Append(s, x)) = Len(s) + 1 /\ Len(s) \in Nat
           /\ \A i \in 1..Len(s) : Append(s, x)[i] = s[i]
           /\ Append(s, x)[Len(s) + 1] = x
<1> DEFINE T == Range(s) \cup {x}
<1>1. s \in Seq(T) /\ x \in T
  <2>1. s \in Seq(Range(s)) /\ Range(s) \subseteq T
    BY DEF IsArray
  <2> QED BY <2>1
<1> HIDE DEF T
<1>2. Append(s, x) \in Seq(T)
  BY <1>1
<1>3. IsArray(Append(s, x))
  BY <1>2, ArrayType
<1> QED BY <1>1, <1>2, <1>3

\* What Tail and Head return.
LEMMA ArrayTail ==
    ASSUME NEW s, IsArray(s), s # <<>>
    PROVE  /\ IsArray(Tail(s)) /\ Len(Tail(s)) = Len(s) - 1 /\ Len(s) \in Nat /\ Len(s) >= 1
           /\ \A i \in 1..Len(s) - 1 : Tail(s)[i] = s[i + 1]
           /\ Head(s) = s[1]
<1>1. s \in Seq(Range(s))
  BY DEF IsArray
<1>2. Tail(s) \in Seq(Range(s))
  BY <1>1
<1>3. IsArray(Tail(s))
  BY <1>2, ArrayType
<1> QED BY <1>1, <1>2, <1>3

AppendMoves(a, c, x) == Append(a \o c, x) = a \o Append(c, x)

\* An element that is appended to two sequences is appended to the second one.
LEMMA AppendToConcat ==
    ASSUME NEW T, NEW a \in Seq(T), NEW c \in Seq(T), NEW x \in T
    PROVE  AppendMoves(a, c, x)
<1> DEFINE u == Append(a \o c, x)
           more == Append(c, x)
           v == a \o more
<1>1. more \in Seq(T) /\ Len(more) = Len(c) + 1 /\ more[Len(c) + 1] = x
      /\ \A i \in 1..Len(c) : more[i] = c[i]
  OBVIOUS
<1>2. a \o c \in Seq(T) /\ Len(a \o c) = Len(a) + Len(c) /\ Len(a) \in Nat /\ Len(c) \in Nat
  OBVIOUS
<1>3. u \in Seq(T) /\ Len(u) = (Len(a) + Len(c)) + 1
  BY <1>2
<1> HIDE DEF more
<1>4. v \in Seq(T) /\ Len(v) = Len(a) + (Len(c) + 1)
  BY <1>1
<1>5. ASSUME NEW i \in 1..(Len(a) + Len(c)) + 1 PROVE u[i] = v[i]
  <2>1. CASE i = (Len(a) + Len(c)) + 1
    <3>1. u[i] = x
      BY <1>2, <2>1
    <3>2. v[i] = more[Len(c) + 1]
      BY <1>1, <1>2, <2>1
    <3> QED BY <1>1, <3>1, <3>2
  <2>2. CASE i \in 1..Len(a)
    BY <1>1, <1>2, <2>2
  <2>3. CASE i \in Len(a) + 1..Len(a) + Len(c)
    <3>1. u[i] = c[i - Len(a)]
      BY <1>2, <2>3
    <3>2. v[i] = more[i - Len(a)]
      BY <1>1, <1>2, <2>3
    <3> QED BY <1>1, <1>2, <2>3, <3>1, <3>2
  <2>4. i = (Len(a) + Len(c)) + 1 \/ i \in 1..Len(a) \/ i \in Len(a) + 1..Len(a) + Len(c)
    BY <1>2
  <2> QED BY <2>1, <2>2, <2>3, <2>4
<1> HIDE DEF u, v
<1>6. u = v
  BY <1>2, <1>3, <1>4, <1>5
<1> QED BY <1>6 DEF AppendMoves, u, v, more

\* Keep by its recursion.
KeptBy(f, s, S) ==
    /\ Keep(s, S) = f[Len(s)]
    /\ f[0] = <<>>
    /\ \A n \in Nat : n + 1 <= Len(s) =>
           f[n + 1] = IF s[n + 1] \in S THEN Append(f[n], s[n + 1]) ELSE f[n]

\* Keep follows its recursion.
LEMMA KeepRecursion ==
    ASSUME NEW T, NEW s \in Seq(T), NEW S
    PROVE  \E f : KeptBy(f, s, S)
  BY KeepUnfolds DEF KeptBy

\* The elements of s, and then those of t.
Concatenates(both, s, t) ==
    /\ Len(both) = Len(s) + Len(t)
    /\ \A i \in 1..Len(s) : both[i] = s[i]
    /\ \A i \in 1..Len(t) : both[Len(s) + i] = t[i]

\* What \o returns.
LEMMA ConcatJoins ==
    ASSUME NEW T, NEW s \in Seq(T), NEW t \in Seq(T)
    PROVE  Concatenates(s \o t, s, t)
  BY DEF Concatenates

\* Two elements, one after the other.
LEMMA OneThenOne ==
    ASSUME NEW T, NEW a \in Seq(T), NEW b \in Seq(T), Len(a) = 1, Len(b) = 1
    PROVE  Len(a \o b) = 2 /\ (a \o b)[1] = a[1] /\ (a \o b)[2] = b[1]
<1> DEFINE both == a \o b
<1>1. Concatenates(both, a, b)
  BY ConcatJoins
<1> HIDE DEF both
<1>2. /\ Len(both) = Len(a) + Len(b)
      /\ \A i \in 1..Len(a) : both[i] = a[i]
      /\ \A i \in 1..Len(b) : both[Len(a) + i] = b[i]
  BY <1>1 DEF Concatenates
<1>3. Len(both) = 2 /\ both[1] = a[1]
  BY <1>2
<1>4. both[Len(a) + 1] = b[1]
  BY <1>2
<1> QED BY <1>3, <1>4 DEF both

\* What is kept of two sequences is what is kept of each of them.
LEMMA KeepBoth ==
    ASSUME NEW T, NEW s \in Seq(T), NEW t \in Seq(T), NEW S, NEW both \in Seq(T),
           Concatenates(both, s, t)
    PROVE  Keep(both, S) = Keep(s, S) \o Keep(t, S)
<1>1. /\ Len(both) = Len(s) + Len(t) /\ Len(s) \in Nat /\ Len(t) \in Nat
      /\ \A i \in 1..Len(s) : both[i] = s[i]
      /\ \A i \in 1..Len(t) : both[Len(s) + i] = t[i]
  BY DEF Concatenates
<1>2. PICK f : KeptBy(f, s, S)
  BY KeepRecursion
<1>3. PICK g : KeptBy(g, t, S)
  BY KeepRecursion
<1>4. PICK h : KeptBy(h, both, S)
  BY KeepRecursion
<1>14. /\ Keep(s, S) = f[Len(s)] /\ f[0] = <<>>
       /\ \A n \in Nat : n + 1 <= Len(s) =>
              f[n + 1] = IF s[n + 1] \in S THEN Append(f[n], s[n + 1]) ELSE f[n]
  BY <1>2 DEF KeptBy
<1>15. /\ Keep(t, S) = g[Len(t)] /\ g[0] = <<>>
       /\ \A n \in Nat : n + 1 <= Len(t) =>
              g[n + 1] = IF t[n + 1] \in S THEN Append(g[n], t[n + 1]) ELSE g[n]
  BY <1>3 DEF KeptBy
<1>16. /\ Keep(both, S) = h[Len(both)] /\ h[0] = <<>>
       /\ \A n \in Nat : n + 1 <= Len(both) =>
              h[n + 1] = IF both[n + 1] \in S THEN Append(h[n], both[n + 1]) ELSE h[n]
  BY <1>4 DEF KeptBy
<1> DEFINE P == {n \in Nat : n <= Len(s) => f[n] = h[n]}
<1>5. 0 \in P
  BY <1>14, <1>16
<1>6. ASSUME NEW n \in Nat, n \in P PROVE n + 1 \in P
  <2> SUFFICES ASSUME n + 1 <= Len(s) PROVE f[n + 1] = h[n + 1]
    OBVIOUS
  <2>1. f[n] = h[n] /\ both[n + 1] = s[n + 1] /\ n + 1 <= Len(both)
    BY <1>1, <1>6
  <2> QED BY <1>14, <1>16, <2>1
<1> HIDE DEF P
<1>7. \A n \in Nat : n \in P
  BY <1>5, <1>6, SetInduction
<1>8. h[Len(s)] = f[Len(s)]
  <2>1. Len(s) \in Nat /\ Len(s) \in P
    BY <1>1, <1>7
  <2> QED BY <2>1 DEF P
<1>9. f[Len(s)] \in Seq(T)
  BY <1>14, KeepType
<1> DEFINE a == f[Len(s)]
           Q == {n \in Nat : n <= Len(t) => g[n] \in Seq(T) /\ h[Len(s) + n] = a \o g[n]}
<1> HIDE DEF a
<1>10. 0 \in Q
  <2>1. a \in Seq(T) /\ h[Len(s) + 0] = a /\ g[0] = <<>>
    BY <1>1, <1>15, <1>8, <1>9 DEF a
  <2>2. a \o <<>> = a /\ <<>> \in Seq(T)
    BY <2>1
  <2> QED BY <2>1, <2>2
<1>11. ASSUME NEW n \in Nat, n \in Q PROVE n + 1 \in Q
  <2> SUFFICES ASSUME n + 1 <= Len(t)
               PROVE  g[n + 1] \in Seq(T) /\ h[Len(s) + (n + 1)] = a \o g[n + 1]
    OBVIOUS
  <2>1. g[n] \in Seq(T) /\ h[Len(s) + n] = a \o g[n] /\ a \in Seq(T)
    <3>1. n <= Len(t)
      BY <1>1
    <3> QED BY <1>9, <1>11, <3>1 DEF a
  <2>2. /\ both[Len(s) + (n + 1)] = t[n + 1] /\ t[n + 1] \in T
        /\ Len(s) + (n + 1) = (Len(s) + n) + 1 /\ Len(s) + n \in Nat
        /\ (Len(s) + n) + 1 <= Len(both)
    BY <1>1
  <2>3. h[(Len(s) + n) + 1] = IF both[(Len(s) + n) + 1] \in S
                              THEN Append(h[Len(s) + n], both[(Len(s) + n) + 1])
                              ELSE h[Len(s) + n]
    BY <1>16, <2>2
  <2>4. h[Len(s) + (n + 1)] = IF t[n + 1] \in S THEN Append(a \o g[n], t[n + 1]) ELSE a \o g[n]
    BY <2>1, <2>2, <2>3
  <2>5. g[n + 1] = IF t[n + 1] \in S THEN Append(g[n], t[n + 1]) ELSE g[n]
    BY <1>15
  <2> DEFINE x == t[n + 1]
             c == g[n]
  <2> HIDE DEF x, c
  <2>6. c \in Seq(T) /\ x \in T
    BY <2>1, <2>2 DEF x, c
  <2>7. Append(a \o c, x) = a \o Append(c, x) /\ Append(c, x) \in Seq(T)
    <3>1. AppendMoves(a, c, x)
      BY <2>1, <2>6, AppendToConcat
    <3> QED BY <2>6, <3>1 DEF AppendMoves
  <2> QED BY <2>1, <2>4, <2>5, <2>7 DEF x, c
<1> HIDE DEF Q
<1>12. \A n \in Nat : n \in Q
  BY <1>10, <1>11, SetInduction
<1>13. h[Len(s) + Len(t)] = a \o g[Len(t)]
  <2>1. Len(t) \in Nat /\ Len(t) \in Q
    BY <1>1, <1>12
  <2> QED BY <2>1 DEF Q
<1> QED BY <1>1, <1>14, <1>15, <1>16, <1>13 DEF a

\* Keep distributes over concatenation.
LEMMA KeepConcat ==
    ASSUME NEW T, NEW s \in Seq(T), NEW t \in Seq(T), NEW S
    PROVE  Keep(s \o t, S) = Keep(s, S) \o Keep(t, S)
<1> DEFINE both == s \o t
<1>1. both \in Seq(T) /\ Concatenates(both, s, t)
  BY DEF Concatenates
<1> HIDE DEF both
<1>2. Keep(both, S) = Keep(s, S) \o Keep(t, S)
  BY <1>1, KeepBoth
<1> QED BY <1>2 DEF both

\* Each part can be cut out of the whole again.
LEMMA FlatParts ==
    ASSUME NEW T, NEW parts \in Seq(Seq(T))
    PROVE  \E flat :
               /\ flat[0] = <<>> /\ Flat(parts) = flat[Len(parts)]
               /\ \A n \in Nat : n <= Len(parts) => flat[n] \in Seq(T)
               /\ \A n \in Nat : n + 1 <= Len(parts) =>
                      /\ Len(flat[n + 1]) = Len(flat[n]) + Len(parts[n + 1])
                      /\ SubSeq(Flat(parts), Len(flat[n]) + 1, Len(flat[n]) + Len(parts[n + 1]))
                             = parts[n + 1]
<1>1. PICK flat : /\ Flat(parts) = flat[Len(parts)]
                  /\ flat[0] = <<>>
                  /\ \A n \in Nat : n + 1 <= Len(parts) => flat[n + 1] = flat[n] \o parts[n + 1]
  BY FlatUnfolds
<1>2. Len(parts) \in Nat /\ \A n \in Nat : n + 1 <= Len(parts) => parts[n + 1] \in Seq(T)
  OBVIOUS
<1> DEFINE P == {n \in Nat : n <= Len(parts) => flat[n] \in Seq(T)}
<1>3. 0 \in P
  <2>1. <<>> \in Seq(T)
    OBVIOUS
  <2> QED BY <1>1, <2>1
<1>4. ASSUME NEW n \in Nat, n \in P PROVE n + 1 \in P
  <2> SUFFICES ASSUME n + 1 <= Len(parts) PROVE flat[n + 1] \in Seq(T)
    OBVIOUS
  <2>1. flat[n] \in Seq(T) /\ parts[n + 1] \in Seq(T)
    <3>1. n <= Len(parts)
      BY <1>2
    <3> QED BY <1>2, <1>4, <3>1
  <2>2. flat[n + 1] = flat[n] \o parts[n + 1]
    BY <1>1
  <2>3. flat[n] \o parts[n + 1] \in Seq(T)
    BY <2>1
  <2> QED BY <2>2, <2>3
<1> HIDE DEF P
<1>5. \A n \in Nat : n \in P
  BY <1>3, <1>4, SetInduction
<1>6. \A n \in Nat : n <= Len(parts) => flat[n] \in Seq(T)
  BY <1>5 DEF P
<1>7. ASSUME NEW n \in Nat, n + 1 <= Len(parts)
      PROVE  /\ flat[n] \in Seq(T) /\ flat[n + 1] \in Seq(T) /\ parts[n + 1] \in Seq(T)
             /\ flat[n + 1] = flat[n] \o parts[n + 1]
             /\ Len(flat[n + 1]) = Len(flat[n]) + Len(parts[n + 1])
  <2>1. /\ flat[n] \in Seq(T) /\ flat[n + 1] \in Seq(T) /\ parts[n + 1] \in Seq(T)
        /\ flat[n + 1] = flat[n] \o parts[n + 1]
    <3>1. n <= Len(parts) /\ n + 1 \in Nat
      BY <1>2, <1>7
    <3>2. flat[n] \in Seq(T) /\ flat[n + 1] \in Seq(T)
      BY <1>6, <1>7, <3>1
    <3>3. parts[n + 1] \in Seq(T)
      BY <1>2, <1>7
    <3>4. flat[n + 1] = flat[n] \o parts[n + 1]
      BY <1>1, <1>7
    <3> QED BY <3>2, <3>3, <3>4
  <2> QED BY <2>1
<1>8. ASSUME NEW k \in Nat, k <= Len(parts)
      PROVE  \A n \in Nat : k <= n /\ n <= Len(parts) =>
                 /\ Len(flat[k]) <= Len(flat[n])
                 /\ \A i \in 1..Len(flat[k]) : flat[n][i] = flat[k][i]
  <2> DEFINE Q == {n \in Nat : k <= n /\ n <= Len(parts) =>
                     /\ Len(flat[k]) <= Len(flat[n])
                     /\ \A i \in 1..Len(flat[k]) : flat[n][i] = flat[k][i]}
  <2>1. flat[k] \in Seq(T)
    BY <1>6, <1>8
  <2>2. 0 \in Q
    <3>1. Len(flat[k]) \in Nat
      BY <2>1
    <3>2. k <= 0 => k = 0
      OBVIOUS
    <3> QED BY <3>1, <3>2
  <2>3. ASSUME NEW n \in Nat, n \in Q PROVE n + 1 \in Q
    <3> SUFFICES ASSUME k <= n + 1, n + 1 <= Len(parts)
                 PROVE  /\ Len(flat[k]) <= Len(flat[n + 1])
                        /\ \A i \in 1..Len(flat[k]) : flat[n + 1][i] = flat[k][i]
      OBVIOUS
    <3>1. CASE k = n + 1
      <4>1. Len(flat[k]) \in Nat
        BY <2>1
      <4> QED BY <3>1, <4>1
    <3>2. CASE k # n + 1
      <4>1. k <= n /\ n <= Len(parts)
        BY <3>2
      <4>2. /\ Len(flat[k]) <= Len(flat[n])
            /\ \A i \in 1..Len(flat[k]) : flat[n][i] = flat[k][i]
        BY <2>3, <4>1
      <4> DEFINE a == flat[n]
                 b == parts[n + 1]
                 c == flat[k]
      <4>3. a \in Seq(T) /\ b \in Seq(T) /\ c \in Seq(T) /\ flat[n + 1] = a \o b
        BY <1>7, <2>1
      <4>4. Len(c) <= Len(a) /\ \A i \in 1..Len(c) : a[i] = c[i]
        BY <4>2
      <4> HIDE DEF a, b, c
      <4>5. Len(c) <= Len(a \o b) /\ \A i \in 1..Len(c) : (a \o b)[i] = c[i]
        BY <4>3, <4>4
      <4> QED BY <4>3, <4>5 DEF c
    <3> QED BY <3>1, <3>2
  <2> HIDE DEF Q
  <2>4. \A n \in Nat : n \in Q
    BY <2>2, <2>3, SetInduction
  <2> QED BY <2>4 DEF Q
<1>9. ASSUME NEW n \in Nat, n + 1 <= Len(parts)
      PROVE  SubSeq(Flat(parts), Len(flat[n]) + 1, Len(flat[n]) + Len(parts[n + 1])) = parts[n + 1]
  <2> DEFINE a == flat[n]
             b == parts[n + 1]
             c == flat[n + 1]
             w == Flat(parts)
  <2>1. a \in Seq(T) /\ b \in Seq(T) /\ c = a \o b
    BY <1>7, <1>9
  <2>2. w \in Seq(T) /\ Len(c) <= Len(w) /\ \A i \in 1..Len(c) : w[i] = c[i]
    <3>1. n + 1 \in Nat /\ n + 1 <= Len(parts) /\ Len(parts) \in Nat /\ Len(parts) <= Len(parts)
      BY <1>2, <1>9
    <3>2. w = flat[Len(parts)] /\ flat[Len(parts)] \in Seq(T)
      BY <1>1, <1>6, <3>1
    <3> HIDE DEF w
    <3> QED BY <1>8, <3>1, <3>2
  <2> HIDE DEF a, b, c, w
  <2>3. /\ Len(a) \in Nat /\ Len(b) \in Nat /\ Len(c) = Len(a) + Len(b)
        /\ \A i \in 1..Len(b) : Len(a) + i \in 1..Len(c) /\ c[Len(a) + i] = b[i]
    BY <2>1
  <2>4. SubSeq(w, Len(a) + 1, Len(a) + Len(b)) = b
    <3> DEFINE z == SubSeq(w, Len(a) + 1, Len(a) + Len(b))
    <3>1. /\ z \in Seq(T) /\ Len(z) = Len(b)
          /\ \A i \in 1..Len(b) : z[i] = w[Len(a) + i]
      BY <2>2, <2>3
    <3> HIDE DEF z
    <3>2. \A i \in 1..Len(b) : z[i] = b[i]
      BY <2>2, <2>3, <3>1
    <3>3. z = b
      BY <2>1, <3>1, <3>2
    <3> QED BY <3>3 DEF z
  <2> QED BY <2>4 DEF a, b, w
<1> QED BY <1>1, <1>6, <1>7, <1>9

\* A step repeated on values that stay in a set has a run of every length.
HasRun(S, x, N, g) ==
    \E f \in [0 .. N -> S] : f[0] = x /\ \A n \in 1 .. N : f[n] = g[n][f[n - 1]]

\* A step applied N times from a value has a run.
LEMMA Iteration ==
    ASSUME NEW S, NEW x \in S, NEW N \in Nat, NEW g \in [1 .. N -> [S -> S]]
    PROVE  HasRun(S, x, N, g)
<1> DEFINE Run(f, m) == f[0] = x /\ \A n \in 1 .. m : f[n] = g[n][f[n - 1]]
           P == {m \in Nat : m <= N => \E f \in [0 .. m -> S] : Run(f, m)}
<1>1. 0 \in P
  <2> DEFINE f == [n \in 0 .. 0 |-> x]
  <2>1. f \in [0 .. 0 -> S] /\ Run(f, 0)
    OBVIOUS
  <2> QED BY <2>1
<1>2. ASSUME NEW m \in Nat, m \in P PROVE m + 1 \in P
  <2> SUFFICES ASSUME m + 1 <= N PROVE \E f \in [0 .. (m + 1) -> S] : Run(f, m + 1)
    OBVIOUS
  <2>1. PICK f \in [0 .. m -> S] : Run(f, m)
    BY <1>2
  <2> DEFINE v == g[m + 1][f[m]]
             h == [n \in 0 .. (m + 1) |-> IF n = m + 1 THEN v ELSE f[n]]
  <2>2. m + 1 \in 1 .. N /\ f[m] \in S
    BY <2>1
  <2>3. v \in S
    BY <2>2
  <2> HIDE DEF v
  <2>4. h \in [0 .. (m + 1) -> S]
    BY <2>1, <2>3
  <2>5. h[0] = x
    BY <2>1
  <2>6. ASSUME NEW n \in 1 .. (m + 1) PROVE h[n] = g[n][h[n - 1]]
    <3>1. CASE n = m + 1
      <4>1. n - 1 = m /\ h[n] = v /\ h[m] = f[m]
        BY <3>1
      <4> QED BY <4>1, <3>1 DEF v
    <3>2. CASE n # m + 1
      <4>1. n \in 1 .. m /\ h[n] = f[n] /\ h[n - 1] = f[n - 1]
        BY <3>2
      <4>2. f[n] = g[n][f[n - 1]]
        BY <2>1, <4>1
      <4> QED BY <4>1, <4>2
    <3> QED BY <3>1, <3>2
  <2> HIDE DEF h
  <2> QED BY <2>4, <2>5, <2>6
<1> HIDE DEF P
<1>3. \A m \in Nat : m \in P
  BY <1>1, <1>2, SetInduction
<1>4. N \in P
  BY <1>3
<1> QED BY <1>4 DEF P, HasRun

\* A run none of whose steps leaves a set ends in it.
LEMMA StaysWithin ==
    ASSUME NEW S, NEW N \in Nat, NEW f, f[0] \in S,
           \A n \in 1 .. N : f[n - 1] \in S => f[n] \in S
    PROVE  f[N] \in S
<1> DEFINE P == {n \in Nat : n <= N => f[n] \in S}
<1>1. 0 \in P
  OBVIOUS
<1>2. ASSUME NEW n \in Nat, n \in P PROVE n + 1 \in P
  <2> SUFFICES ASSUME n + 1 <= N PROVE f[n + 1] \in S
    OBVIOUS
  <2>1. n + 1 \in 1 .. N /\ f[n] \in S /\ (n + 1) - 1 = n
    BY <1>2
  <2> QED BY <2>1
<1> HIDE DEF P
<1>3. \A n \in Nat : n \in P
  BY <1>1, <1>2, SetInduction
<1> QED BY <1>3 DEF P

\* A running sum.
SumsTo(f, s) == f[0] = 0 /\ \A n \in 1 .. Len(s) : f[n] = f[n - 1] + s[n]

\* Total is the end of a running sum.
LEMMA TotalSums ==
    ASSUME NEW s \in Seq(Int)
    PROVE  \E f \in [0 .. Len(s) -> Int] : SumsTo(f, s) /\ Total(s) = f[Len(s)]
<1> DEFINE N == Len(s)
           Solves(f) == f = [n \in 0 .. Len(s) |-> IF n = 0 THEN 0 ELSE f[n - 1] + s[n]]
           F == CHOOSE f : Solves(f)
           g == [n \in 1 .. N |-> [x \in Int |-> x + s[n]]]
<1>1. N \in Nat /\ 0 \in Int /\ \A n \in 1 .. N : s[n] \in Int
  OBVIOUS
<1>2. g \in [1 .. N -> [Int -> Int]]
  BY <1>1
<1>3. \A n \in 1 .. N : \A x \in Int : g[n][x] = x + s[n]
  OBVIOUS
<1> HIDE DEF g
<1>4. PICK f \in [0 .. N -> Int] : f[0] = 0 /\ \A n \in 1 .. N : f[n] = g[n][f[n - 1]]
  <2>1. HasRun(Int, 0, N, g)
    BY <1>1, <1>2, Iteration
  <2> QED BY <2>1 DEF HasRun
<1>5. ASSUME NEW n \in 0 .. N PROVE f[n] = IF n = 0 THEN 0 ELSE f[n - 1] + s[n]
  <2>1. CASE n = 0
    BY <2>1, <1>4
  <2>2. CASE n # 0
    <3>1. n \in 1 .. N /\ n - 1 \in 0 .. N
      BY <2>2, <1>1
    <3>2. f[n] = g[n][f[n - 1]] /\ f[n - 1] \in Int
      BY <3>1, <1>4
    <3> QED BY <2>2, <3>1, <3>2, <1>3
  <2> QED BY <2>1, <2>2
<1>6. Solves(f)
  BY <1>5
<1>7. Solves(F)
  BY <1>6
<1>8. Total(s) = F[N]
  BY DEF Total
<1> HIDE DEF F
<1>9. F[0] = 0 /\ \A n \in 1 .. N : F[n] = F[n - 1] + s[n]
  BY <1>1, <1>7
<1>10. \A n \in 0 .. N : F[n] \in Int
  <2> DEFINE P == {n \in Nat : n <= N => F[n] \in Int}
  <2>1. 0 \in P
    BY <1>9
  <2>2. ASSUME NEW n \in Nat, n \in P PROVE n + 1 \in P
    <3> SUFFICES ASSUME n + 1 <= N PROVE F[n + 1] \in Int
      OBVIOUS
    <3>1. n + 1 \in 1 .. N /\ (n + 1) - 1 = n /\ F[n] \in Int
      BY <1>1, <2>2
    <3> QED BY <1>1, <1>9, <3>1
  <2> HIDE DEF P
  <2>3. \A n \in Nat : n \in P
    BY <2>1, <2>2, SetInduction
  <2> QED BY <2>3, <1>1 DEF P
<1>11. F \in [0 .. N -> Int]
  <2>1. F = [n \in 0 .. N |-> F[n]]
    BY <1>7
  <2> QED BY <2>1, <1>10
<1> QED BY <1>8, <1>9, <1>11 DEF SumsTo

\* Whatever sums the numbers up ends in their total.
LEMMA TotalIs ==
    ASSUME NEW s \in Seq(Int), NEW f, SumsTo(f, s)
    PROVE  Total(s) = f[Len(s)]
<1>1. PICK h \in [0 .. Len(s) -> Int] : SumsTo(h, s) /\ Total(s) = h[Len(s)]
  BY TotalSums
<1> DEFINE P == {n \in Nat : n <= Len(s) => f[n] = h[n]}
<1>2. 0 \in P
  BY <1>1 DEF SumsTo
<1>3. ASSUME NEW n \in Nat, n \in P PROVE n + 1 \in P
  <2> SUFFICES ASSUME n + 1 <= Len(s) PROVE f[n + 1] = h[n + 1]
    OBVIOUS
  <2>1. n + 1 \in 1 .. Len(s) /\ (n + 1) - 1 = n /\ f[n] = h[n]
    BY <1>3
  <2>2. f[n + 1] = f[n] + s[n + 1] /\ h[n + 1] = h[n] + s[n + 1]
    BY <1>1, <2>1 DEF SumsTo
  <2> QED BY <2>1, <2>2
<1> HIDE DEF P
<1>4. \A n \in Nat : n \in P
  BY <1>2, <1>3, SetInduction
<1>5. Len(s) \in P
  BY <1>4
<1> QED BY <1>1, <1>5 DEF P

\* It is a number.
LEMMA TotalType ==
    ASSUME NEW s \in Seq(Int)
    PROVE  Total(s) \in Int
BY TotalSums

\* Nothing sums to 0.
LEMMA TotalEmpty == Total(<<>>) = 0
<1> DEFINE f == [n \in 0 .. 0 |-> 0]
<1>1. <<>> \in Seq(Int) /\ Len(<<>>) = 0 /\ f[0] = 0
  OBVIOUS
<1>2. SumsTo(f, <<>>)
  BY <1>1 DEF SumsTo
<1> QED BY <1>1, <1>2, TotalIs

\* Sums of numbers that are not negative are not negative.
LEMMA TotalNat ==
    ASSUME NEW s \in Seq(Nat)
    PROVE  Total(s) \in Nat
<1>1. s \in Seq(Int) /\ \A n \in 1 .. Len(s) : s[n] \in Nat
  OBVIOUS
<1>2. PICK f \in [0 .. Len(s) -> Int] : SumsTo(f, s) /\ Total(s) = f[Len(s)]
  BY <1>1, TotalSums
<1>3. \A n \in 1 .. Len(s) : f[n - 1] \in Nat => f[n] \in Nat
  BY <1>1, <1>2 DEF SumsTo
<1>4. f[0] \in Nat
  BY <1>2 DEF SumsTo
<1>5. Len(s) \in Nat
  OBVIOUS
<1>6. f[Len(s)] \in Nat
  BY <1>3, <1>4, <1>5, StaysWithin
<1> QED BY <1>2, <1>6

=============================================================================
