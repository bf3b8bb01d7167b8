---------------------------- MODULE OutboxProofs ----------------------------
(***************************************************************************)
(* RoomCommitOutbox settles what it accepted in order, answers truthfully  *)
(* and delivers a republished commit again only outside its memory, for    *)
(* any rooms, commits and limits.                                          *)
(***************************************************************************)
EXTENDS CommitOutbox, ArrayLemmas, FiniteSetTheorems, SequenceTheorems

-----------------------------------------------------------------------------
(* What a lane owes *)

Effects == Keys \X Nat
Parts(commits) == [i \in DOMAIN commits |-> EffectsOf(commits[i].key)]

LEMMA EffectsType ==
    ASSUME NEW k \in Keys
    PROVE  EffectsOf(k) \in Seq(Effects) /\ Len(EffectsOf(k)) = Size[k] /\ Size[k] \in Nat \ {0}
<1>1. Size[k] \in Nat \ {0}
  BY CommitAssumption
<1>2. EffectsOf(k) \in [1 .. Size[k] -> Effects]
  BY <1>1 DEF EffectsOf, Effects
<1> QED BY <1>1, <1>2

LEMMA KeyType ==
    ASSUME NEW c \in Commits
    PROVE  c.key \in Keys /\ RoomOf[c.key] \in Rooms
BY CommitAssumption

LEMMA PartsType ==
    ASSUME NEW commits \in Seq(Commits)
    PROVE  Parts(commits) \in Seq(Seq(Effects)) /\ Len(Parts(commits)) = Len(commits)
<1>1. ASSUME NEW i \in DOMAIN commits PROVE EffectsOf(commits[i].key) \in Seq(Effects)
  BY KeyType, EffectsType
<1>2. Parts(commits) \in [1 .. Len(commits) -> Seq(Effects)]
  BY <1>1 DEF Parts
<1> QED BY <1>2

\* The effects of all the commits.
All(commits) == Flat(Parts(commits))

LEMMA AllType ==
    ASSUME NEW commits \in Seq(Commits)
    PROVE  All(commits) \in Seq(Effects)
BY PartsType, FlatElements DEF All

LEMMA OwedIsSuffix ==
    ASSUME NEW commits, NEW n
    PROVE  Owed(commits, n) = SubSeq(All(commits), n, Len(All(commits)))
BY DEF Owed, All, Parts

LEMMA AllAppend ==
    ASSUME NEW commits \in Seq(Commits), NEW c \in Commits
    PROVE  All(Append(commits, c)) = All(commits) \o EffectsOf(c.key)
<1>1. EffectsOf(c.key) \in Seq(Effects)
  BY KeyType, EffectsType
<1>2. Parts(Append(commits, c)) = Append(Parts(commits), EffectsOf(c.key))
  <2> DEFINE more == Append(commits, c)
             p == EffectsOf(c.key)
  <2>1. more \in Seq(Commits) /\ Len(more) = Len(commits) + 1 /\ more[Len(commits) + 1] = c
        /\ \A i \in 1 .. Len(commits) : more[i] = commits[i]
    BY AppendProperties
  <2>2. Parts(more) \in Seq(Seq(Effects)) /\ Len(Parts(more)) = Len(commits) + 1
    BY <2>1, PartsType
  <2>3. Parts(commits) \in Seq(Seq(Effects)) /\ Len(Parts(commits)) = Len(commits)
    BY PartsType
  <2>4. \A i \in 1 .. Len(commits) : Parts(more)[i] = Parts(commits)[i]
    BY <2>1, <2>3 DEF Parts
  <2>5. Parts(more)[Len(commits) + 1] = p
    BY <2>1 DEF Parts
  <2> HIDE DEF more, p
  <2>6. /\ Append(Parts(commits), p) \in Seq(Seq(Effects))
        /\ Len(Append(Parts(commits), p)) = Len(commits) + 1
        /\ \A i \in 1 .. Len(commits) : Append(Parts(commits), p)[i] = Parts(commits)[i]
        /\ Append(Parts(commits), p)[Len(commits) + 1] = p
    BY <2>3, <1>1, AppendProperties DEF p
  <2>7. \A i \in 1 .. Len(commits) + 1 : Parts(more)[i] = Append(Parts(commits), p)[i]
    BY <2>4, <2>5, <2>6
  <2>8. Parts(more) = Append(Parts(commits), p)
    BY <2>2, <2>6, <2>7
  <2> QED BY <2>8 DEF more, p
<1>3. Parts(commits) \in Seq(Seq(Effects))
  BY PartsType
<1> HIDE DEF All
<1> QED BY <1>1, <1>2, <1>3, FlatAppend DEF All

LEMMA AllHead ==
    ASSUME NEW commits \in Seq(Commits), commits # <<>>
    PROVE  All(commits) = EffectsOf(commits[1].key) \o All(Tail(commits))
<1>1. Parts(commits) \in Seq(Seq(Effects)) /\ Len(Parts(commits)) = Len(commits)
  BY PartsType
<1>2. Len(commits) \in Nat \ {0} /\ Tail(commits) \in Seq(Commits) /\ Len(Tail(commits)) = Len(commits) - 1
      /\ \A i \in 1 .. Len(commits) - 1 : Tail(commits)[i] = commits[i + 1]
  OBVIOUS
<1>3. Parts(commits) # <<>>
  BY <1>1, <1>2
<1>4. Tail(Parts(commits)) = Parts(Tail(commits))
  <2>1. Parts(Tail(commits)) \in Seq(Seq(Effects)) /\ Len(Parts(Tail(commits))) = Len(commits) - 1
    BY <1>2, PartsType
  <2>2. Tail(Parts(commits)) \in Seq(Seq(Effects)) /\ Len(Tail(Parts(commits))) = Len(commits) - 1
        /\ \A i \in 1 .. Len(commits) - 1 : Tail(Parts(commits))[i] = Parts(commits)[i + 1]
    BY <1>1, <1>3, HeadTailProperties
  <2>3. ASSUME NEW i \in 1 .. Len(commits) - 1 PROVE Parts(Tail(commits))[i] = Parts(commits)[i + 1]
    <3>1. i \in DOMAIN Tail(commits) /\ i + 1 \in DOMAIN commits /\ Tail(commits)[i] = commits[i + 1]
      BY <1>2
    <3> QED BY <3>1 DEF Parts
  <2>4. \A i \in 1 .. Len(commits) - 1 : Parts(Tail(commits))[i] = Tail(Parts(commits))[i]
    BY <2>2, <2>3
  <2> DEFINE s == Parts(Tail(commits))
             t == Tail(Parts(commits))
  <2>5. s \in Seq(Seq(Effects)) /\ t \in Seq(Seq(Effects)) /\ Len(s) = Len(t)
        /\ \A i \in 1 .. Len(s) : s[i] = t[i]
    BY <2>1, <2>2, <2>4
  <2> HIDE DEF s, t
  <2>6. s = t
    BY <2>5, SeqEqual
  <2> QED BY <2>6 DEF s, t
<1>5. Parts(commits)[1] = EffectsOf(commits[1].key)
  <2>1. 1 \in DOMAIN commits
    BY <1>2
  <2> QED BY <2>1 DEF Parts
<1>6. Flat(Parts(commits)) = Parts(commits)[1] \o Flat(Tail(Parts(commits)))
  BY <1>1, <1>3, FlatHead
<1> QED BY <1>4, <1>5, <1>6 DEF All

\* An empty lane owes nothing.
LEMMA OwedEmpty == Owed(<<>>, 1) = <<>>
<1>1. <<>> \in Seq(Commits)
  OBVIOUS
<1>2. Parts(<<>>) = <<>>
  <2>1. Parts(<<>>) \in Seq(Seq(Effects)) /\ Len(Parts(<<>>)) = Len(<<>>)
    BY <1>1, PartsType
  <2> QED BY <2>1
<1>3. All(<<>>) = <<>>
  <2>1. Parts(<<>>) \in Seq(Seq(Effects))
    BY <1>1, PartsType
  <2>2. PICK flat : /\ Flat(Parts(<<>>)) = flat[Len(Parts(<<>>))]
                    /\ flat[0] = <<>>
    BY <2>1, FlatUnfolds
  <2>3. Len(Parts(<<>>)) = 0
    BY <1>2
  <2> QED BY <2>2, <2>3 DEF All
<1>4. SubSeq(<<>>, 1, Len(<<>>)) = <<>>
  <2>1. Len(<<>>) = 0 /\ 0 < 1 /\ 0 \in Int /\ 1 \in Int
    OBVIOUS
  <2> QED BY <2>1, SubSeqEmpty
<1> QED BY <1>3, <1>4, OwedIsSuffix

\* A part of a concatenation that begins in the first of the two or right after it.
LEMMA SuffixOfConcat ==
    ASSUME NEW T, NEW a \in Seq(T), NEW b \in Seq(T), NEW n \in 1 .. Len(a) + 1
    PROVE  SubSeq(a \o b, n, Len(a \o b)) = SubSeq(a, n, Len(a)) \o b
<1> DEFINE ab == a \o b
           l == SubSeq(ab, n, Len(ab))
           s == SubSeq(a, n, Len(a))
           r == s \o b
<1>1. ab \in Seq(T) /\ Len(ab) = Len(a) + Len(b) /\ Len(a) \in Nat /\ Len(b) \in Nat
      /\ \A i \in 1 .. Len(a) + Len(b) : ab[i] = IF i <= Len(a) THEN a[i] ELSE b[i - Len(a)]
  BY ConcatProperties
<1>2. n \in Int /\ n >= 1 /\ n <= Len(a) + 1
  BY <1>1
<1> HIDE DEF ab
<1>3. l \in Seq(T) /\ Len(l) = Len(a) + Len(b) + 1 - n
      /\ \A i \in 1 .. (Len(a) + Len(b)) - n + 1 : l[i] = ab[n + i - 1]
  <2>1. \A i \in n .. Len(ab) : ab[i] \in T
    BY <1>1, <1>2
  <2>2. Len(ab) \in Int
    BY <1>1
  <2>3. /\ l \in Seq(T)
        /\ Len(l) = IF n <= Len(ab) THEN Len(ab) - n + 1 ELSE 0
        /\ \A i \in 1 .. Len(ab) - n + 1 : l[i] = ab[n + i - 1]
    BY <1>2, <2>1, <2>2, SubSeqProperties
  <2> QED BY <1>1, <1>2, <2>3
<1>4. s \in Seq(T) /\ Len(s) = Len(a) + 1 - n
      /\ \A i \in 1 .. Len(a) - n + 1 : s[i] = a[n + i - 1]
  <2>1. \A i \in n .. Len(a) : a[i] \in T
    BY <1>1, <1>2
  <2>2. Len(a) \in Int
    BY <1>1
  <2>3. /\ s \in Seq(T)
        /\ Len(s) = IF n <= Len(a) THEN Len(a) - n + 1 ELSE 0
        /\ \A i \in 1 .. Len(a) - n + 1 : s[i] = a[n + i - 1]
    BY <1>2, <2>1, <2>2, SubSeqProperties
  <2> QED BY <1>1, <1>2, <2>3
<1> HIDE DEF l, s
<1>5. r \in Seq(T) /\ Len(r) = Len(s) + Len(b)
      /\ \A i \in 1 .. Len(s) + Len(b) : r[i] = IF i <= Len(s) THEN s[i] ELSE b[i - Len(s)]
  BY <1>4, ConcatProperties
<1> HIDE DEF r
<1>6. Len(l) = Len(r)
  BY <1>1, <1>2, <1>3, <1>4, <1>5
<1>7. ASSUME NEW i \in 1 .. Len(l) PROVE l[i] = r[i]
  <2>1. i \in Int /\ i >= 1 /\ i <= Len(a) + Len(b) + 1 - n
    BY <1>1, <1>2, <1>3
  <2>2. l[i] = ab[n + i - 1]
    BY <1>1, <1>2, <1>3, <2>1
  <2>3. CASE i <= Len(s)
    <3>1. n + i - 1 \in 1 .. Len(a) + Len(b) /\ n + i - 1 <= Len(a) /\ i \in 1 .. Len(a) - n + 1
      BY <1>1, <1>2, <1>4, <2>1, <2>3
    <3>2. l[i] = a[n + i - 1] /\ s[i] = a[n + i - 1]
      BY <1>1, <1>4, <2>2, <3>1
    <3>3. i \in 1 .. Len(s) + Len(b)
      BY <1>1, <1>4, <2>1, <2>3
    <3> QED BY <1>5, <2>3, <3>2, <3>3
  <2>4. CASE ~(i <= Len(s))
    <3>1. n + i - 1 \in 1 .. Len(a) + Len(b) /\ ~(n + i - 1 <= Len(a)) /\ i \in 1 .. Len(s) + Len(b)
      BY <1>1, <1>2, <1>4, <2>1, <2>4
    <3>2. (n + i - 1) - Len(a) = i - Len(s)
      BY <1>1, <1>2, <1>4, <2>1
    <3>3. l[i] = b[(n + i - 1) - Len(a)]
      BY <1>1, <2>2, <3>1
    <3> QED BY <1>5, <2>4, <3>1, <3>2, <3>3
  <2> QED BY <2>3, <2>4
<1>8. l = r
  BY <1>3, <1>5, <1>6, <1>7, SMTT(20)
<1> QED BY <1>8 DEF l, r, s, ab

\* Where a lane stands: at an effect of its head.
Placed(commits, n) ==
    /\ n \in Nat \ {0}
    /\ commits = <<>> => n = 1
    /\ commits # <<>> => n <= Size[commits[1].key]

LEMMA HeadOwed ==
    ASSUME NEW commits \in Seq(Commits), commits # <<>>
    PROVE  /\ commits[1] \in Commits /\ Size[commits[1].key] \in Nat \ {0}
           /\ Len(EffectsOf(commits[1].key)) = Size[commits[1].key]
           /\ EffectsOf(commits[1].key) \in Seq(Effects)
           /\ Tail(commits) \in Seq(Commits)
           /\ Len(All(commits)) = Size[commits[1].key] + Len(All(Tail(commits)))
<1>1. commits[1] \in Commits /\ Tail(commits) \in Seq(Commits)
  OBVIOUS
<1>2. EffectsOf(commits[1].key) \in Seq(Effects) /\ Size[commits[1].key] \in Nat \ {0}
      /\ Len(EffectsOf(commits[1].key)) = Size[commits[1].key]
  BY <1>1, KeyType, EffectsType
<1>3. All(Tail(commits)) \in Seq(Effects)
  BY <1>1, AllType
<1>4. Len(All(commits)) = Len(EffectsOf(commits[1].key)) + Len(All(Tail(commits)))
  BY <1>2, <1>3, AllHead, ConcatProperties
<1> QED BY <1>1, <1>2, <1>4

LEMMA PlacedInside ==
    ASSUME NEW commits \in Seq(Commits), NEW n, Placed(commits, n)
    PROVE  n \in 1 .. Len(All(commits)) + 1 /\ (commits # <<>> => n <= Len(All(commits)))
<1>1. Len(All(commits)) \in Nat
  BY AllType
<1>2. CASE commits = <<>>
  BY <1>1, <1>2 DEF Placed
<1>3. CASE commits # <<>>
  <2>1. Tail(commits) \in Seq(Commits)
    BY <1>3
  <2>2. Len(All(Tail(commits))) \in Nat
    BY <2>1, AllType
  <2> QED BY <1>1, <1>3, <2>2, HeadOwed DEF Placed
<1> QED BY <1>2, <1>3

\* A commit that joins a lane is owed after all others.
LEMMA OwedAppend ==
    ASSUME NEW commits \in Seq(Commits), NEW n, Placed(commits, n), NEW c \in Commits
    PROVE  Owed(Append(commits, c), n) = Owed(commits, n) \o EffectsOf(c.key)
<1>1. All(commits) \in Seq(Effects) /\ EffectsOf(c.key) \in Seq(Effects)
  BY AllType, KeyType, EffectsType
<1>2. n \in 1 .. Len(All(commits)) + 1
  BY PlacedInside
<1> QED BY <1>1, <1>2, SuffixOfConcat, AllAppend, OwedIsSuffix

\* An effect settled is the first one owed.
LEMMA OwedNext ==
    ASSUME NEW commits \in Seq(Commits), NEW n, Placed(commits, n), commits # <<>>
    PROVE  Owed(commits, n) # <<>> /\ Owed(commits, n + 1) = Tail(Owed(commits, n))
<1> DEFINE a == All(commits)
<1>1. a \in Seq(Effects) /\ n \in 1 .. Len(a) /\ Len(a) \in Nat
  BY AllType, PlacedInside
<1> HIDE DEF a
<1>2. Len(a) \in n .. Len(a)
  BY <1>1
<1>3. Tail(SubSeq(a, n, Len(a))) = SubSeq(a, n + 1, Len(a))
  BY <1>1, <1>2, HeadTailOfSubSeq
<1>4. SubSeq(a, n, Len(a)) # <<>>
  <2>1. n \in Int /\ Len(a) \in Int /\ n <= Len(a) /\ \A i \in n .. Len(a) : a[i] \in Effects
    BY <1>1
  <2>2. Len(SubSeq(a, n, Len(a))) = Len(a) - n + 1
    BY <2>1, SubSeqProperties
  <2> DEFINE s == SubSeq(a, n, Len(a))
  <2>3. Len(s) # 0
    BY <2>1, <2>2
  <2> HIDE DEF s
  <2>4. s # <<>>
    BY <2>3
  <2> QED BY <2>4 DEF s
<1> QED BY <1>3, <1>4, OwedIsSuffix DEF a

\* With the last effect of its head the lane goes on to the next commit.
LEMMA OwedLast ==
    ASSUME NEW commits \in Seq(Commits), commits # <<>>
    PROVE  /\ Owed(commits, Size[commits[1].key]) # <<>>
           /\ Owed(Tail(commits), 1) = Tail(Owed(commits, Size[commits[1].key]))
<1> DEFINE m == Size[commits[1].key]
           h == EffectsOf(commits[1].key)
           t == All(Tail(commits))
<1>1. h \in Seq(Effects) /\ t \in Seq(Effects) /\ m \in Nat \ {0} /\ Len(h) = m
      /\ Tail(commits) \in Seq(Commits)
  BY HeadOwed, AllType
<1>2. All(commits) = h \o t
  BY AllHead
<1>3. Placed(commits, m)
  BY <1>1 DEF Placed
<1>4. Owed(commits, m) # <<>> /\ Owed(commits, m + 1) = Tail(Owed(commits, m))
  BY <1>3, OwedNext
<1>5. Owed(commits, m + 1) = SubSeq(h \o t, m + 1, Len(h \o t))
  BY <1>2, OwedIsSuffix
<1>6. Owed(Tail(commits), 1) = SubSeq(t, 1, Len(t))
  BY OwedIsSuffix
<1> HIDE DEF m, h, t
<1>7. SubSeq(h \o t, m + 1, Len(h \o t)) = SubSeq(h, m + 1, Len(h)) \o t
  <2>1. m + 1 \in 1 .. Len(h) + 1
    BY <1>1
  <2> QED BY <1>1, <2>1, SuffixOfConcat
<1>8. SubSeq(h, m + 1, Len(h)) = <<>>
  <2>1. m + 1 \in Int /\ Len(h) \in Int /\ Len(h) < m + 1
    BY <1>1
  <2> QED BY <2>1, SubSeqEmpty
<1>9. <<>> \o t = t /\ SubSeq(t, 1, Len(t)) = t
  BY <1>1, ConcatEmptySeq, SubSeqFull
<1> QED BY <1>4, <1>5, <1>6, <1>7, <1>8, <1>9 DEF m

\* What a lane owes is of its commits.
LEMMA OwedKeys ==
    ASSUME NEW commits \in Seq(Commits), NEW n, Placed(commits, n)
    PROVE  \A i \in DOMAIN Owed(commits, n) : \E c \in Range(commits) : Owed(commits, n)[i][1] = c.key
<1> DEFINE a == All(commits)
<1>1. a \in Seq(Effects) /\ n \in 1 .. Len(a) + 1 /\ Len(a) \in Nat
  BY AllType, PlacedInside
<1>2. \A i \in DOMAIN a : \E j \in DOMAIN Parts(commits) : a[i] \in Range(Parts(commits)[j])
  BY PartsType, FlatElements DEF All
<1>3. ASSUME NEW i \in DOMAIN a PROVE \E c \in Range(commits) : a[i][1] = c.key
  <2>1. PICK j \in DOMAIN Parts(commits) : a[i] \in Range(Parts(commits)[j])
    BY <1>2
  <2>2. j \in DOMAIN commits /\ Parts(commits)[j] = EffectsOf(commits[j].key)
    BY DEF Parts
  <2>3. a[i][1] = commits[j].key
    BY <2>1, <2>2 DEF EffectsOf, Range
  <2> QED BY <2>2, <2>3 DEF Range
<1>4. Owed(commits, n) = SubSeq(a, n, Len(a))
  BY OwedIsSuffix
<1> HIDE DEF a
<1> DEFINE s == SubSeq(a, n, Len(a))
<1>5. s \in Seq(Effects) /\ Len(s) = Len(a) + 1 - n
      /\ \A i \in 1 .. Len(a) - n + 1 : s[i] = a[n + i - 1]
  <2>1. \A i \in n .. Len(a) : a[i] \in Effects
    BY <1>1
  <2>2. Len(a) \in Int /\ n \in Int
    BY <1>1
  <2>3. /\ s \in Seq(Effects)
        /\ Len(s) = IF n <= Len(a) THEN Len(a) - n + 1 ELSE 0
        /\ \A i \in 1 .. Len(a) - n + 1 : s[i] = a[n + i - 1]
    BY <2>1, <2>2, SubSeqProperties
  <2> QED BY <1>1, <2>3
<1>6. ASSUME NEW i \in DOMAIN s PROVE \E c \in Range(commits) : s[i][1] = c.key
  <2> HIDE DEF s
  <2>1. i \in 1 .. Len(a) - n + 1
    BY <1>1, <1>5
  <2>2. s[i] = a[n + i - 1]
    BY <1>5, <2>1
  <2>4. n + i - 1 \in 1 .. Len(a)
    <3>1. n \in Int /\ i \in Int /\ n >= 1 /\ i >= 1 /\ i <= Len(a) - n + 1
      BY <1>1, <2>1
    <3>2. i + n <= Len(a) + 1 /\ i + n >= 2
      BY <1>1, <3>1
    <3> QED BY <1>1, <3>1, <3>2
  <2>3. n + i - 1 \in DOMAIN a
    BY <1>1, <2>4
  <2> QED BY <1>3, <2>2, <2>3
<1> QED BY <1>4, <1>6

-----------------------------------------------------------------------------
(* One copy of every commit *)

InLanes(l) == UNION {Range(l[r]) : r \in Rooms}
Distinct(s) == \A i, j \in DOMAIN s : s[i].key = s[j].key => i = j
Unknown(S, c) == \A d \in S : d.key # c.key

\* OneCopy of any lanes, wait queue and memory.
Copies(l, w, d) ==
    /\ \A r, t \in Rooms : \A i \in DOMAIN l[r], j \in DOMAIN l[t] :
          l[r][i].key = l[t][j].key => r = t /\ i = j
    /\ Distinct(w) /\ Distinct(d)
    /\ \A c \in InLanes(l), x \in Range(w) : c.key # x.key
    /\ \A c \in InLanes(l) \cup Range(w), e \in Range(d) : c.key # e.key

\* A commit waits in the lane of its room.
InPlace(l) == \A r \in Rooms : \A c \in Range(l[r]) : RoomOf[c.key] = r

Lanes == [Rooms -> Seq(Commits)]

LEMMA DistinctAppend ==
    ASSUME NEW s \in Seq(Commits), Distinct(s), NEW c \in Commits, Unknown(Range(s), c)
    PROVE  Distinct(Append(s, c))
<1> DEFINE m == Append(s, c)
<1>1. m \in Seq(Commits) /\ Len(m) = Len(s) + 1 /\ m[Len(s) + 1] = c /\ Len(s) \in Nat
      /\ \A i \in 1 .. Len(s) : m[i] = s[i]
  BY AppendProperties
<1> HIDE DEF m
<1>2. ASSUME NEW i \in 1 .. Len(s) PROVE s[i].key # c.key
  BY DEF Unknown, Range
<1>3. ASSUME NEW i \in DOMAIN m, NEW j \in DOMAIN m, m[i].key = m[j].key PROVE i = j
  <2>1. i \in 1 .. Len(s) \/ i = Len(s) + 1
    BY <1>1
  <2>2. j \in 1 .. Len(s) \/ j = Len(s) + 1
    BY <1>1
  <2>3. CASE i \in 1 .. Len(s) /\ j \in 1 .. Len(s)
    <3>1. s[i].key = s[j].key /\ i \in DOMAIN s /\ j \in DOMAIN s
      BY <1>1, <1>3, <2>3
    <3> QED BY <3>1 DEF Distinct
  <2> QED BY <1>1, <1>2, <1>3, <2>1, <2>2, <2>3
<1> QED BY <1>3 DEF Distinct, m

LEMMA DistinctTail ==
    ASSUME NEW s \in Seq(Commits), s # <<>>, Distinct(s)
    PROVE  /\ Tail(s) \in Seq(Commits) /\ Distinct(Tail(s))
           /\ s[1] \in Range(s) /\ Range(Tail(s)) = Range(s) \ {s[1]}
           /\ Unknown(Range(Tail(s)), s[1])
<1> DEFINE t == Tail(s)
<1>1. t \in Seq(Commits) /\ Len(t) = Len(s) - 1 /\ Len(s) \in Nat \ {0}
      /\ \A i \in 1 .. Len(t) : t[i] = s[i + 1]
  OBVIOUS
<1> HIDE DEF t
<1>2. \A i \in DOMAIN t : i + 1 \in DOMAIN s /\ t[i] = s[i + 1] /\ i + 1 # 1
  BY <1>1
<1>3. 1 \in DOMAIN s
  BY <1>1
<1>4. ASSUME NEW i \in DOMAIN t, NEW j \in DOMAIN t, t[i].key = t[j].key PROVE i = j
  <2>1. i + 1 = j + 1
    BY <1>2, <1>4 DEF Distinct
  <2>2. i \in Int /\ j \in Int
    BY <1>1
  <2> QED BY <2>1, <2>2
<1>5. \A i \in DOMAIN t : t[i].key # s[1].key
  BY <1>2, <1>3 DEF Distinct
<1>6. ASSUME NEW x \in Range(s), x # s[1] PROVE x \in Range(t)
  <2>1. PICK i \in DOMAIN s : x = s[i]
    BY DEF Range
  <2>2. i - 1 \in DOMAIN t /\ (i - 1) + 1 = i
    BY <1>1, <1>6, <2>1
  <2>3. t[i - 1] = x
    BY <1>2, <2>1, <2>2
  <2> QED BY <2>2, <2>3 DEF Range
<1>7. ASSUME NEW x \in Range(t) PROVE x \in Range(s) /\ x.key # s[1].key
  <2>1. PICK i \in DOMAIN t : x = t[i]
    BY DEF Range
  <2> QED BY <1>2, <1>5, <2>1 DEF Range
<1>8. s[1] \in Range(s)
  BY <1>3 DEF Range
<1> QED BY <1>1, <1>4, <1>6, <1>7, <1>8 DEF Distinct, Unknown, t

LEMMA LaneDistinct ==
    ASSUME NEW l \in Lanes, NEW w, NEW d, Copies(l, w, d), NEW r \in Rooms
    PROVE  l[r] \in Seq(Commits) /\ Distinct(l[r])
BY DEF Copies, Distinct, Lanes

\* A commit that is new to the outbox joins the lane of its room.
LEMMA LaneJoined ==
    ASSUME NEW l \in Lanes, NEW c \in Commits
    PROVE  /\ Admitted(l, c) \in Lanes
           /\ InLanes(Admitted(l, c)) = InLanes(l) \cup {c}
           /\ \A r \in Rooms : Admitted(l, c)[r] = IF r = RoomOf[c.key] THEN Append(l[r], c) ELSE l[r]
           /\ InPlace(l) => InPlace(Admitted(l, c))
<1> DEFINE h == RoomOf[c.key]
           m == Admitted(l, c)
           a == Append(l[h], c)
<1>1. h \in Rooms
  BY KeyType
<1>2. l[h] \in Seq(Commits) /\ a \in Seq(Commits)
  BY <1>1 DEF Lanes
<1>3. Range(a) = Range(l[h]) \cup {c}
  BY <1>2, RangeOfAppend
<1>4. m = [l EXCEPT ![h] = a]
  BY DEF Admitted
<1> HIDE DEF h, m, a
<1>5. m \in Lanes /\ \A r \in Rooms : m[r] = IF r = h THEN a ELSE l[r]
  BY <1>1, <1>2, <1>4 DEF Lanes
<1>6. InLanes(m) = InLanes(l) \cup {c}
  <2>1. ASSUME NEW x \in InLanes(m) PROVE x \in InLanes(l) \cup {c}
    BY <1>1, <1>3, <1>5 DEF InLanes
  <2>2. ASSUME NEW x \in InLanes(l) \cup {c} PROVE x \in InLanes(m)
    BY <1>1, <1>3, <1>5 DEF InLanes
  <2> QED BY <2>1, <2>2
<1>7. InPlace(l) => InPlace(m)
  BY <1>1, <1>3, <1>5 DEF InPlace, h
<1> QED BY <1>5, <1>6, <1>7 DEF m, h, a

LEMMA CopiesJoined ==
    ASSUME NEW l \in Lanes, NEW w \in Seq(Commits), NEW d \in Seq(Commits), Copies(l, w, d),
           NEW c \in Commits, Unknown(InLanes(l) \cup Range(w) \cup Range(d), c)
    PROVE  Copies(Admitted(l, c), w, d)
<1> DEFINE h == RoomOf[c.key]
           m == Admitted(l, c)
<1>1. h \in Rooms
  BY KeyType
<1>2. m \in Lanes /\ InLanes(m) = InLanes(l) \cup {c}
      /\ \A r \in Rooms : m[r] = IF r = h THEN Append(l[r], c) ELSE l[r]
  BY LaneJoined
<1> HIDE DEF h, m
<1>3. ASSUME NEW r \in Rooms, NEW t \in Rooms, NEW i \in DOMAIN m[r], NEW j \in DOMAIN m[t],
             m[r][i].key = m[t][j].key
      PROVE  r = t /\ i = j
  <2>1. \A q \in Rooms : l[q] \in Seq(Commits)
    BY DEF Lanes
  <2>2. ASSUME NEW q \in Rooms, NEW n \in DOMAIN m[q]
        PROVE  \/ n \in DOMAIN l[q] /\ m[q][n] = l[q][n] /\ m[q][n].key # c.key
               \/ q = h /\ n = Len(l[h]) + 1 /\ m[q][n] = c
    <3>1. CASE q = h
      <4>1. m[q] = Append(l[q], c) /\ l[q] \in Seq(Commits)
        BY <1>2, <2>1, <3>1
      <4>2. n \in 1 .. Len(l[q]) \/ n = Len(l[q]) + 1
        BY <4>1
      <4>3. CASE n \in 1 .. Len(l[q])
        <5>1. n \in DOMAIN l[q] /\ m[q][n] = l[q][n]
          BY <4>1, <4>3
        <5>2. l[q][n] \in InLanes(l)
          BY <5>1 DEF InLanes, Range
        <5> QED BY <5>1, <5>2 DEF Unknown
      <4>4. CASE n = Len(l[q]) + 1
        BY <4>1, <4>4, <3>1
      <4> QED BY <4>2, <4>3, <4>4
    <3>2. CASE q # h
      <4>1. m[q] = l[q]
        BY <1>2, <3>2
      <4>2. l[q][n] \in InLanes(l)
        BY <4>1 DEF InLanes, Range
      <4> QED BY <4>1, <4>2 DEF Unknown
    <3> QED BY <3>1, <3>2
  <2>3. CASE m[r][i].key = c.key
    BY <1>3, <2>2, <2>3
  <2>4. CASE m[r][i].key # c.key
    <3>1. i \in DOMAIN l[r] /\ m[r][i] = l[r][i]
      BY <2>2, <2>4
    <3>2. j \in DOMAIN l[t] /\ m[t][j] = l[t][j]
      BY <1>3, <2>2, <2>4
    <3> QED BY <1>3, <3>1, <3>2 DEF Copies
  <2> QED BY <2>3, <2>4
<1>4. \A x \in Range(w) : c.key # x.key
  BY DEF Unknown
<1>5. \A x \in Range(d) : c.key # x.key
  BY DEF Unknown
<1>6. /\ \A x \in InLanes(m), y \in Range(w) : x.key # y.key
      /\ \A x \in InLanes(m) \cup Range(w), e \in Range(d) : x.key # e.key
  BY <1>2, <1>4, <1>5 DEF Copies
<1>7. Distinct(w) /\ Distinct(d)
  BY DEF Copies
<1> QED BY <1>3, <1>6, <1>7 DEF Copies, m

LEMMA CopiesQueued ==
    ASSUME NEW l \in Lanes, NEW w \in Seq(Commits), NEW d \in Seq(Commits), Copies(l, w, d),
           NEW c \in Commits, Unknown(InLanes(l) \cup Range(w) \cup Range(d), c)
    PROVE  Copies(l, Append(w, c), d)
<1>1. Range(Append(w, c)) = Range(w) \cup {c}
  BY RangeOfAppend
<1>2. Distinct(Append(w, c))
  <2>1. Distinct(w) /\ Unknown(Range(w), c)
    BY DEF Copies, Unknown
  <2> QED BY <2>1, DistinctAppend
<1>3. (\A x \in InLanes(l) : x.key # c.key) /\ (\A e \in Range(d) : c.key # e.key)
  BY DEF Unknown
<1> HIDE DEF InLanes
<1> QED BY <1>1, <1>2, <1>3 DEF Copies

\* The memory changes: it holds nothing that is in a lane or waits.
LEMMA CopiesRemembered ==
    ASSUME NEW l, NEW w, NEW d, NEW e, Copies(l, w, d), Distinct(e),
           \A x \in Range(e) : x \in Range(d) \/ Unknown(InLanes(l) \cup Range(w), x)
    PROVE  Copies(l, w, e)
<1>1. \A c \in InLanes(l) \cup Range(w), x \in Range(e) : c.key # x.key
  BY DEF Copies, Unknown
<1> QED BY <1>1 DEF Copies

\* The head of a lane leaves it.
LEMMA LaneLeft ==
    ASSUME NEW l \in Lanes, NEW w \in Seq(Commits), NEW d \in Seq(Commits), Copies(l, w, d),
           NEW r \in Rooms, l[r] # <<>>
    PROVE  LET after == [l EXCEPT ![r] = Tail(@)]
           IN  /\ after \in Lanes /\ Copies(after, w, d)
               /\ l[r][1] \in InLanes(l) /\ l[r][1] \in Commits
               /\ InLanes(after) = InLanes(l) \ {l[r][1]}
               /\ Unknown(InLanes(after) \cup Range(w) \cup Range(d), l[r][1])
               /\ InPlace(l) => InPlace(after)
<1> DEFINE t == Tail(l[r])
           h == l[r][1]
           after == [l EXCEPT ![r] = t]
<1>1. l[r] \in Seq(Commits) /\ Distinct(l[r])
  BY LaneDistinct
<1>2. t \in Seq(Commits) /\ h \in Range(l[r]) /\ Range(t) = Range(l[r]) \ {h} /\ h \in Commits
      /\ Unknown(Range(t), h)
  BY <1>1, DistinctTail
<1>3. after \in Lanes /\ after[r] = t /\ \A q \in Rooms \ {r} : after[q] = l[q]
  BY <1>2 DEF Lanes
<1>4. Len(t) = Len(l[r]) - 1 /\ \A i \in 1 .. Len(t) : t[i] = l[r][i + 1]
  BY <1>1
<1>5. 1 \in DOMAIN l[r]
  BY <1>1
<1>6. DOMAIN t = 1 .. Len(t) /\ DOMAIN l[r] = 1 .. Len(l[r]) /\ Len(l[r]) \in Nat
  BY <1>1, <1>2
<1> HIDE DEF t, after
<1>7. ASSUME NEW q \in Rooms, NEW x \in Range(l[q]), x.key = h.key PROVE q = r /\ x = h
  <2>1. PICK i \in DOMAIN l[q] : x = l[q][i]
    BY DEF Range
  <2>2. q = r /\ i = 1
    BY <1>5, <1>7, <2>1 DEF Copies
  <2> QED BY <2>1, <2>2
<1>8. InLanes(after) = InLanes(l) \ {h}
  <2> HIDE DEF h
  <2>1. ASSUME NEW x \in InLanes(after) PROVE x \in InLanes(l) \ {h}
    <3>1. PICK q \in Rooms : x \in Range(after[q])
      BY DEF InLanes
    <3>2. CASE q = r
      BY <1>2, <1>3, <3>1, <3>2 DEF InLanes
    <3>3. CASE q # r
      <4>1. x \in Range(l[q])
        BY <1>3, <3>1, <3>3
      <4>2. x # h
        BY <1>7, <3>3, <4>1
      <4> QED BY <4>1, <4>2 DEF InLanes
    <3> QED BY <3>2, <3>3
  <2>2. ASSUME NEW x \in InLanes(l), x # h PROVE x \in InLanes(after)
    <3>1. PICK q \in Rooms : x \in Range(l[q])
      BY DEF InLanes
    <3>2. x \in Range(after[q])
      BY <1>2, <1>3, <2>2, <3>1
    <3> QED BY <3>2 DEF InLanes
  <2> QED BY <2>1, <2>2
<1>9. h \in InLanes(l)
  BY <1>2 DEF InLanes
<1>10. Unknown(InLanes(after) \cup Range(w) \cup Range(d), h)
  <2>1. ASSUME NEW x \in InLanes(after) PROVE x.key # h.key
    <3>1. x \in InLanes(l) /\ x # h
      BY <1>8
    <3>2. PICK q \in Rooms : x \in Range(l[q])
      BY <3>1 DEF InLanes
    <3> QED BY <1>7, <3>1, <3>2
  <2>2. \A x \in Range(w) \cup Range(d) : x.key # h.key
    BY <1>9 DEF Copies
  <2> QED BY <2>1, <2>2 DEF Unknown
<1>11. Copies(after, w, d)
  <2>1. ASSUME NEW q \in Rooms, NEW p \in Rooms, NEW i \in DOMAIN after[q], NEW j \in DOMAIN after[p],
               after[q][i].key = after[p][j].key
        PROVE  q = p /\ i = j
    <3>1. ASSUME NEW s \in Rooms, NEW n \in DOMAIN after[s]
          PROVE  \E m \in DOMAIN l[s] : /\ after[s][n] = l[s][m]
                                        /\ n \in Int /\ m = (IF s = r THEN n + 1 ELSE n)
      <4>1. CASE s = r
        <5>1. n \in 1 .. Len(t) /\ after[s] = t
          BY <1>3, <1>6, <4>1
        <5>2. n + 1 \in DOMAIN l[r] /\ t[n] = l[r][n + 1] /\ n \in Int
          BY <1>4, <1>6, <5>1
        <5> QED BY <4>1, <5>1, <5>2
      <4>2. CASE s # r
        <5>1. after[s] = l[s] /\ l[s] \in Seq(Commits)
          BY <1>3, <4>2 DEF Lanes
        <5>2. n \in DOMAIN l[s] /\ n \in Int
          BY <5>1
        <5> QED BY <4>2, <5>1, <5>2
      <4> QED BY <4>1, <4>2
    <3>2. PICK m \in DOMAIN l[q] : after[q][i] = l[q][m] /\ i \in Int /\ m = (IF q = r THEN i + 1 ELSE i)
      BY <3>1
    <3>3. PICK n \in DOMAIN l[p] : after[p][j] = l[p][n] /\ j \in Int /\ n = (IF p = r THEN j + 1 ELSE j)
      BY <3>1
    <3>4. q = p /\ m = n
      BY <2>1, <3>2, <3>3 DEF Copies
    <3> QED BY <3>2, <3>3, <3>4
  <2>2. InLanes(after) \subseteq InLanes(l)
    BY <1>8
  <2> QED BY <2>1, <2>2 DEF Copies
<1>12. InPlace(l) => InPlace(after)
  BY <1>2, <1>3 DEF InPlace
<1> QED BY <1>2, <1>3, <1>8, <1>9, <1>10, <1>11, <1>12 DEF after, t

-----------------------------------------------------------------------------
(* The memory of completed commits *)

\* The keys of the commits younger than the i-th.
After(d, i) == {d[j].key : j \in i + 1 .. Len(d)}
Ages(d, s) == \A i \in DOMAIN d : s[d[i].key] = After(d, i)
Long(S) == IsFiniteSet(S) /\ Cardinality(S) >= CompletedRetention
Forgets(d, s) ==
    \A k \in Keys : (\A i \in DOMAIN d : d[i].key # k) => k \in s[k] \/ Long(s[k])

\* A remembered commit has seen those younger than it pass; a forgotten one, as many as
\* the memory can hold.
Memory(d, s) == Len(d) <= CompletedRetention /\ Ages(d, s) /\ Forgets(d, s)

Passed(s, k) == [j \in Keys |-> IF j = k THEN {} ELSE s[j] \cup {k}]

LEMMA LongGrows ==
    ASSUME NEW S, NEW x, Long(S)
    PROVE  Long(S \cup {x})
<1>1. IsFiniteSet(S) /\ Cardinality(S) >= CompletedRetention
  BY DEF Long
<1>2. Cardinality(S) \in Nat /\ CompletedRetention \in Nat
  BY <1>1, FS_CardinalityType, LimitAssumption
<1>3. /\ IsFiniteSet(S \cup {x})
      /\ Cardinality(S \cup {x}) = IF x \in S THEN Cardinality(S) ELSE Cardinality(S) + 1
  BY <1>1, FS_AddElement
<1>4. Cardinality(S \cup {x}) >= CompletedRetention
  BY <1>1, <1>2, <1>3
<1> QED BY <1>3, <1>4 DEF Long

\* As many commits are younger than the oldest as there are others.
LEMMA YoungerCounted ==
    ASSUME NEW d \in Seq(Commits), Distinct(d), d # <<>>
    PROVE  IsFiniteSet(After(d, 1)) /\ Cardinality(After(d, 1)) = Len(d) - 1
<1> DEFINE I == 2 .. Len(d)
           S == {d[j].key : j \in I}
           f == [j \in I |-> d[j].key]
<1>1. Len(d) \in Nat \ {0} /\ DOMAIN d = 1 .. Len(d)
  OBVIOUS
<1>2. After(d, 1) = S
  <2>1. 1 + 1 = 2
    OBVIOUS
  <2> QED BY <2>1 DEF After
<1>3. IsFiniteSet(I) /\ Cardinality(I) = Len(d) - 1
  <2>1. IsFiniteSet(I) /\ Cardinality(I) = IF 2 > Len(d) THEN 0 ELSE Len(d) - 2 + 1
    BY <1>1, FS_Interval
  <2> QED BY <1>1, <2>1
<1>4. \A i, j \in I : d[i].key = d[j].key => i = j
  <2>1. \A i \in I : i \in DOMAIN d
    BY <1>1
  <2> QED BY <2>1 DEF Distinct
<1> HIDE DEF I
<1>5. f \in Bijection(I, S)
  <2>1. f \in [I -> S]
    OBVIOUS
  <2>2. \A i, j \in I : f[i] = f[j] => i = j
    BY <1>4
  <2>3. \A x \in S : \E i \in I : f[i] = x
    OBVIOUS
  <2>4. f \in Injection(I, S)
    BY <2>1, <2>2 DEF Injection, IsInjective
  <2>5. f \in Surjection(I, S)
    BY <2>1, <2>3 DEF Surjection
  <2> QED BY <2>4, <2>5 DEF Bijection
<1>6. ExistsBijection(I, S)
  BY <1>5 DEF ExistsBijection
<1> HIDE DEF S
<1>7. IsFiniteSet(S) /\ Cardinality(S) = Cardinality(I)
  BY <1>3, <1>6, FS_Bijection
<1> QED BY <1>2, <1>3, <1>7

LEMMA AfterAppend ==
    ASSUME NEW d \in Seq(Commits), NEW c \in Commits
    PROVE  /\ \A i \in DOMAIN d : After(Append(d, c), i) = After(d, i) \cup {c.key}
           /\ After(Append(d, c), Len(d) + 1) = {}
<1> DEFINE m == Append(d, c)
           n == Len(d)
<1>1. m \in Seq(Commits) /\ Len(m) = n + 1 /\ m[n + 1] = c /\ n \in Nat /\ DOMAIN d = 1 .. n
      /\ \A i \in 1 .. n : m[i] = d[i]
  BY AppendProperties
<1> HIDE DEF m, n
<1>2. ASSUME NEW i \in DOMAIN d PROVE After(m, i) = After(d, i) \cup {c.key}
  <2>0. i \in 1 .. n /\ i + 1 .. Len(m) = (i + 1 .. n) \cup {n + 1}
    BY <1>1
  <2>1. ASSUME NEW x \in After(m, i) PROVE x \in After(d, i) \cup {c.key}
    <3>1. PICK j \in i + 1 .. Len(m) : x = m[j].key
      BY DEF After
    <3>2. CASE j = n + 1
      BY <1>1, <3>1, <3>2
    <3>3. CASE j # n + 1
      <4>1. j \in i + 1 .. n /\ j \in 1 .. n
        BY <1>1, <2>0, <3>3
      <4>2. x = d[j].key
        BY <1>1, <3>1, <4>1
      <4> QED BY <4>1, <4>2 DEF After, n
    <3> QED BY <3>2, <3>3
  <2>2. ASSUME NEW x \in After(d, i) PROVE x \in After(m, i)
    <3>1. PICK j \in i + 1 .. n : x = d[j].key
      BY DEF After, n
    <3>2. j \in i + 1 .. Len(m) /\ j \in 1 .. n
      BY <1>1, <2>0
    <3>3. x = m[j].key
      BY <1>1, <3>1, <3>2
    <3> QED BY <3>2, <3>3 DEF After
  <2>3. c.key \in After(m, i)
    <3>1. n + 1 \in i + 1 .. Len(m)
      BY <2>0
    <3> QED BY <1>1, <3>1 DEF After
  <2> QED BY <2>1, <2>2, <2>3
<1>3. After(m, n + 1) = {}
  <2>1. (n + 1) + 1 .. Len(m) = {}
    BY <1>1
  <2> QED BY <2>1 DEF After
<1> QED BY <1>2, <1>3 DEF m, n

LEMMA AfterTail ==
    ASSUME NEW d \in Seq(Commits), d # <<>>
    PROVE  \A i \in DOMAIN Tail(d) : /\ i + 1 \in DOMAIN d /\ Tail(d)[i] = d[i + 1]
                                     /\ After(Tail(d), i) = After(d, i + 1)
<1> DEFINE t == Tail(d)
           n == Len(d)
<1>1. t \in Seq(Commits) /\ Len(t) = n - 1 /\ n \in Nat \ {0} /\ DOMAIN d = 1 .. n
      /\ \A i \in 1 .. n - 1 : t[i] = d[i + 1]
  OBVIOUS
<1> HIDE DEF t, n
<1>2. ASSUME NEW i \in DOMAIN t PROVE i + 1 \in DOMAIN d /\ t[i] = d[i + 1] /\ After(t, i) = After(d, i + 1)
  <2>0. i \in 1 .. n - 1 /\ i \in Int
    BY <1>1
  <2>1. ASSUME NEW x \in After(t, i) PROVE x \in After(d, i + 1)
    <3>1. PICK j \in i + 1 .. Len(t) : x = t[j].key
      BY DEF After
    <3>2. j + 1 \in (i + 1) + 1 .. n /\ j \in 1 .. n - 1
      BY <1>1, <2>0
    <3>3. x = d[j + 1].key
      BY <1>1, <3>1, <3>2
    <3> QED BY <3>2, <3>3 DEF After, n
  <2>2. ASSUME NEW x \in After(d, i + 1) PROVE x \in After(t, i)
    <3>1. PICK j \in (i + 1) + 1 .. n : x = d[j].key
      BY DEF After, n
    <3>2. j - 1 \in i + 1 .. Len(t) /\ j - 1 \in 1 .. n - 1 /\ (j - 1) + 1 = j
      BY <1>1, <2>0
    <3>3. x = t[j - 1].key
      BY <1>1, <3>1, <3>2
    <3> QED BY <3>2, <3>3 DEF After
  <2>3. i + 1 \in DOMAIN d /\ t[i] = d[i + 1]
    BY <1>1, <2>0
  <2> QED BY <2>1, <2>2, <2>3
<1> QED BY <1>2 DEF t

\* A commit becomes the youngest: c itself may already be among what the others saw pass.
LEMMA MemoryGrows ==
    ASSUME NEW d \in Seq(Commits), NEW s \in [Keys -> SUBSET Keys], NEW c \in Commits,
           Unknown(Range(d), c),
           \A i \in DOMAIN d : s[d[i].key] \cup {c.key} = After(d, i) \cup {c.key},
           \A k \in Keys \ {c.key} :
                (\A i \in DOMAIN d : d[i].key # k) => k \in s[k] \/ Long(s[k])
    PROVE  Ages(Append(d, c), Passed(s, c.key)) /\ Forgets(Append(d, c), Passed(s, c.key))
<1> DEFINE m == Append(d, c)
           u == Passed(s, c.key)
           n == Len(d)
<1>1. m \in Seq(Commits) /\ Len(m) = n + 1 /\ m[n + 1] = c /\ n \in Nat /\ DOMAIN d = 1 .. n
      /\ \A i \in 1 .. n : m[i] = d[i]
  BY AppendProperties
<1>2. /\ \A i \in DOMAIN d : After(m, i) = After(d, i) \cup {c.key}
      /\ After(m, n + 1) = {}
  BY AfterAppend
<1>3. u[c.key] = {} /\ \A k \in Keys \ {c.key} : u[k] = s[k] \cup {c.key}
  BY KeyType DEF Passed
<1>4. DOMAIN m = 1 .. n + 1
  BY <1>1
<1> HIDE DEF m, u, n
<1>5. ASSUME NEW i \in DOMAIN m PROVE u[m[i].key] = After(m, i)
  <2>1. CASE i = n + 1
    BY <1>1, <1>2, <1>3, <2>1
  <2>2. CASE i # n + 1
    <3>1. i \in DOMAIN d /\ m[i] = d[i]
      BY <1>1, <1>4, <2>2
    <3>2. d[i] \in Commits /\ d[i] \in Range(d)
      BY <3>1 DEF Range
    <3>3. d[i].key \in Keys \ {c.key}
      BY <3>2, KeyType DEF Unknown
    <3> QED BY <1>2, <1>3, <3>1, <3>3
  <2> QED BY <2>1, <2>2
<1>6. ASSUME NEW k \in Keys, \A i \in DOMAIN m : m[i].key # k
      PROVE  k \in u[k] \/ Long(u[k])
  <2>1. k # c.key
    <3>1. n + 1 \in DOMAIN m
      BY <1>1, <1>4
    <3> QED BY <1>1, <1>6, <3>1
  <2>2. \A i \in DOMAIN d : d[i].key # k
    <3>1. \A i \in DOMAIN d : i \in DOMAIN m /\ m[i] = d[i]
      BY <1>1, <1>4
    <3> QED BY <1>6, <3>1
  <2>3. k \in s[k] \/ Long(s[k])
    BY <2>1, <2>2
  <2>4. u[k] = s[k] \cup {c.key}
    BY <1>3, <2>1
  <2>5. Long(s[k]) => Long(s[k] \cup {c.key})
    BY LongGrows
  <2> QED BY <2>3, <2>4, <2>5
<1> QED BY <1>5, <1>6 DEF Ages, Forgets, m, u

\* The oldest commit is forgotten when as many others are younger as the memory can hold.
LEMMA MemoryDrops ==
    ASSUME NEW d \in Seq(Commits), NEW s \in [Keys -> SUBSET Keys], Distinct(d),
           Len(d) = CompletedRetention + 1, Ages(d, s), Forgets(d, s)
    PROVE  Memory(Tail(d), s)
<1> DEFINE t == Tail(d)
<1>0. CompletedRetention \in Nat \ {0}
  BY LimitAssumption
<1>1. d # <<>> /\ 1 \in DOMAIN d
  BY <1>0
<1>2. t \in Seq(Commits) /\ Len(t) = CompletedRetention
  BY <1>0, <1>1
<1>3. \A i \in DOMAIN t : i + 1 \in DOMAIN d /\ t[i] = d[i + 1] /\ After(t, i) = After(d, i + 1)
  BY <1>1, AfterTail
<1>4. \A i \in DOMAIN d : i = 1 \/ (i - 1 \in DOMAIN t /\ t[i - 1] = d[i])
  <2>1. \A i \in 1 .. Len(t) : t[i] = d[i + 1]
    BY <1>1
  <2>2. ASSUME NEW i \in DOMAIN d, i # 1 PROVE i - 1 \in DOMAIN t /\ t[i - 1] = d[i]
    <3>1. i - 1 \in 1 .. Len(t) /\ (i - 1) + 1 = i
      BY <1>0, <1>2, <2>2
    <3> QED BY <1>2, <2>1, <3>1
  <2> QED BY <2>2
<1> HIDE DEF t
<1>5. Ages(t, s)
  BY <1>3 DEF Ages
<1>6. ASSUME NEW k \in Keys, \A i \in DOMAIN t : t[i].key # k
      PROVE  k \in s[k] \/ Long(s[k])
  <2>1. CASE k = d[1].key
    <3>1. s[k] = After(d, 1)
      BY <1>1, <2>1 DEF Ages
    <3>2. IsFiniteSet(After(d, 1)) /\ Cardinality(After(d, 1)) = Len(d) - 1
      BY <1>1, YoungerCounted
    <3>3. Cardinality(After(d, 1)) >= CompletedRetention
      BY <1>0, <3>2
    <3> QED BY <3>1, <3>2, <3>3 DEF Long
  <2>2. CASE k # d[1].key
    <3>1. \A i \in DOMAIN d : d[i].key # k
      BY <1>4, <1>6, <2>2
    <3> QED BY <3>1 DEF Forgets
  <2> QED BY <2>1, <2>2
<1>7. Forgets(t, s)
  BY <1>6 DEF Forgets
<1>8. Len(t) <= CompletedRetention
  BY <1>0, <1>2
<1> QED BY <1>5, <1>7, <1>8 DEF Memory, t

LEMMA PassesType ==
    ASSUME since \in [Keys -> SUBSET Keys], NEW k \in Keys
    PROVE  Passes(k) \in [Keys -> SUBSET Keys] /\ Passes(k) = Passed(since, k)
BY DEF Passes, Passed

\* A commit completes: at most the oldest one is forgotten for it.
LEMMA Remembered ==
    ASSUME completed \in Seq(Commits), since \in [Keys -> SUBSET Keys], Distinct(completed),
           Memory(completed, since), NEW c \in Commits, Unknown(Completed, c)
    PROVE  /\ Remember(c) \in Seq(Commits) /\ Distinct(Remember(c))
           /\ Range(Remember(c)) \subseteq Completed \cup {c}
           /\ Memory(Remember(c), Passes(c.key))
<1> DEFINE m == Append(completed, c)
           u == Passed(since, c.key)
<1>0. CompletedRetention \in Nat \ {0} /\ c.key \in Keys
  BY LimitAssumption, KeyType
<1>1. m \in Seq(Commits) /\ Len(m) = Len(completed) + 1 /\ Len(completed) \in Nat /\ m # <<>>
  BY AppendProperties
<1>2. Distinct(m)
  BY DistinctAppend DEF Completed
<1>3. Range(m) = Completed \cup {c}
  BY RangeOfAppend DEF Completed
<1>4. Passes(c.key) = u /\ u \in [Keys -> SUBSET Keys]
  BY <1>0, PassesType
<1>5. Ages(m, u) /\ Forgets(m, u)
  <2>1. \A i \in DOMAIN completed :
            since[completed[i].key] \cup {c.key} = After(completed, i) \cup {c.key}
    BY DEF Memory, Ages
  <2>2. \A k \in Keys \ {c.key} :
            (\A i \in DOMAIN completed : completed[i].key # k) => k \in since[k] \/ Long(since[k])
    BY DEF Memory, Forgets
  <2>3. Unknown(Range(completed), c)
    BY DEF Completed
  <2> QED BY <2>1, <2>2, <2>3, MemoryGrows
<1>6. Len(completed) <= CompletedRetention
  BY DEF Memory
<1>7. Remember(c) = IF Len(m) > CompletedRetention
                    THEN SubSeq(m, Len(m) - CompletedRetention + 1, Len(m)) ELSE m
  BY DEF Remember
<1> HIDE DEF m, u
<1>8. CASE Len(m) > CompletedRetention
  <2>1. Len(m) = CompletedRetention + 1 /\ Len(m) - CompletedRetention + 1 = 2
    BY <1>0, <1>1, <1>6, <1>8
  <2>2. Remember(c) = Tail(m)
    BY <1>1, <1>7, <1>8, <2>1, TailIsSubSeq
  <2>3. Tail(m) \in Seq(Commits) /\ Distinct(Tail(m)) /\ Range(Tail(m)) \subseteq Range(m)
    BY <1>1, <1>2, DistinctTail
  <2>4. Memory(Tail(m), u)
    BY <1>1, <1>2, <1>4, <1>5, <2>1, MemoryDrops
  <2> QED BY <1>3, <1>4, <2>2, <2>3, <2>4
<1>9. CASE ~(Len(m) > CompletedRetention)
  <2>1. Len(m) <= CompletedRetention
    BY <1>0, <1>1, <1>9
  <2>2. Memory(m, u)
    BY <1>5, <2>1 DEF Memory
  <2> QED BY <1>1, <1>2, <1>3, <1>4, <1>7, <1>9, <2>2
<1> QED BY <1>8, <1>9

\* A completed commit is published again: it becomes the youngest.
LEMMA Retouched ==
    ASSUME completed \in Seq(Commits), since \in [Keys -> SUBSET Keys], Distinct(completed),
           Memory(completed, since), NEW c \in Commits, c \in Completed
    PROVE  LET d == Append(Without(completed, c.key), c)
           IN  /\ d \in Seq(Commits) /\ Distinct(d) /\ Range(d) = Completed
               /\ Memory(d, Passes(c.key))
<1> DEFINE S == {x \in Range(completed) : x.key # c.key}
           w == Keep(completed, S)
           n == Len(completed)
           u == Passed(since, c.key)
<1>0. CompletedRetention \in Nat \ {0} /\ c.key \in Keys
  BY LimitAssumption, KeyType
<1>1. n \in Nat /\ DOMAIN completed = 1 .. n
  OBVIOUS
<1>2. PICK p \in 1 .. n : completed[p] = c
  BY <1>1 DEF Completed, Range
<1>3. \A i \in 1 .. n : completed[i].key = c.key <=> i = p
  BY <1>1, <1>2 DEF Distinct
<1>4. \A i \in 1 .. n : completed[i] \in S <=> i # p
  BY <1>1, <1>3 DEF Range
<1>5. /\ w \in Seq(Commits) /\ Len(w) = n - 1
      /\ \A i \in 1 .. n - 1 : w[i] = completed[IF i < p THEN i ELSE i + 1]
  <2> HIDE DEF S
  <2> QED BY <1>2, <1>4, KeepAllBut
<1>6. Range(w) = Range(completed) \cap S
  BY KeepRange
<1>7. Without(completed, c.key) = w
  BY DEF Without
<1>8. Passes(c.key) = u /\ u \in [Keys -> SUBSET Keys]
  BY <1>0, PassesType
<1>9. Unknown(Range(w), c)
  BY <1>6 DEF Unknown
<1> HIDE DEF w, u, n
<1>10. DOMAIN w = 1 .. n - 1 /\ p \in Int /\ p >= 1 /\ p <= n
  BY <1>1, <1>2, <1>5
<1>11. ASSUME NEW i \in DOMAIN w
       PROVE  LET q == IF i < p THEN i ELSE i + 1
              IN  q \in 1 .. n /\ q # p /\ w[i] = completed[q] /\ i \in Int /\ i >= 1 /\ i <= n - 1
  BY <1>1, <1>5, <1>10
<1>12. Distinct(w)
  <2> SUFFICES ASSUME NEW i \in DOMAIN w, NEW j \in DOMAIN w, w[i].key = w[j].key PROVE i = j
    BY DEF Distinct
  <2> DEFINE a == IF i < p THEN i ELSE i + 1
             b == IF j < p THEN j ELSE j + 1
  <2>1. a \in 1 .. n /\ b \in 1 .. n /\ w[i] = completed[a] /\ w[j] = completed[b] /\ i \in Int /\ j \in Int
    BY <1>11
  <2>2. a = b
    BY <1>1, <2>1 DEF Distinct
  <2> QED BY <1>10, <2>1, <2>2
<1>13. Append(w, c) \in Seq(Commits) /\ Distinct(Append(w, c)) /\ Len(Append(w, c)) = n
  BY <1>1, <1>5, <1>9, <1>12, DistinctAppend, AppendProperties
<1>14. Range(Append(w, c)) = Completed
  <2>1. Range(Append(w, c)) = Range(w) \cup {c}
    BY <1>5, RangeOfAppend
  <2>2. ASSUME NEW x \in Range(completed), x.key = c.key PROVE x = c
    <3>1. PICK i \in 1 .. n : x = completed[i]
      BY <1>1 DEF Range
    <3> QED BY <1>2, <1>3, <2>2, <3>1
  <2> QED BY <1>6, <2>1, <2>2 DEF Completed
<1>15. ASSUME NEW i \in DOMAIN w
       PROVE  since[w[i].key] \cup {c.key} = After(w, i) \cup {c.key}
  <2> DEFINE q == IF i < p THEN i ELSE i + 1
  <2>1. q \in 1 .. n /\ q # p /\ w[i] = completed[q] /\ i \in Int /\ i >= 1 /\ i <= n - 1
    BY <1>11
  <2>2. since[w[i].key] = After(completed, q)
    BY <1>1, <2>1 DEF Memory, Ages
  <2>3. ASSUME NEW x \in After(completed, q), x # c.key PROVE x \in After(w, i)
    <3>1. PICK j \in q + 1 .. n : x = completed[j].key
      BY DEF After, n
    <3>2. j \in 1 .. n /\ j # p
      BY <1>1, <1>2, <2>1, <2>3, <3>1
    <3> DEFINE o == IF j < p THEN j ELSE j - 1
    <3>3. o \in 1 .. n - 1 /\ (IF o < p THEN o ELSE o + 1) = j /\ o \in i + 1 .. n - 1
      BY <1>1, <1>10, <2>1, <3>1, <3>2
    <3>4. w[o] = completed[j]
      BY <1>5, <3>3
    <3> QED BY <1>5, <3>1, <3>3, <3>4 DEF After
  <2>4. ASSUME NEW x \in After(w, i) PROVE x \in After(completed, q)
    <3>1. PICK o \in i + 1 .. n - 1 : x = w[o].key
      BY <1>5 DEF After
    <3> DEFINE j == IF o < p THEN o ELSE o + 1
    <3>2. o \in DOMAIN w /\ o \in Int /\ i + 1 <= o
      BY <1>1, <1>10, <2>1
    <3>3. j \in 1 .. n /\ w[o] = completed[j]
      BY <1>11, <3>2
    <3>4. j \in q + 1 .. n
      BY <1>1, <1>10, <2>1, <3>2, <3>3
    <3> QED BY <3>1, <3>3, <3>4 DEF After, n
  <2> QED BY <2>2, <2>3, <2>4
<1>16. ASSUME NEW k \in Keys \ {c.key}, \A i \in DOMAIN w : w[i].key # k
       PROVE  k \in since[k] \/ Long(since[k])
  <2>1. ASSUME NEW i \in DOMAIN completed PROVE completed[i].key # k
    <3>1. CASE i = p
      BY <1>2, <3>1
    <3>2. CASE i # p
      <4>1. completed[i] \in Range(w)
        BY <1>1, <1>4, <1>6, <3>2 DEF Range
      <4> QED BY <1>16, <4>1 DEF Range
    <3> QED BY <3>1, <3>2
  <2> QED BY <2>1 DEF Memory, Forgets
<1>17. Ages(Append(w, c), u) /\ Forgets(Append(w, c), u)
  BY <1>5, <1>9, <1>15, <1>16, MemoryGrows DEF u
<1>18. n <= CompletedRetention
  BY DEF Memory, n
<1> QED BY <1>7, <1>8, <1>13, <1>14, <1>17, <1>18 DEF Memory

-----------------------------------------------------------------------------
(* The inductive invariant *)

Heads == \A r \in Rooms :
    /\ Placed(lane[r], next[r])
    /\ running[r] /\ ~disposed => lane[r] # <<>>

\* Commits wait only while every place is taken: a completion makes room for one.
Full ==
    /\ IsFiniteSet(Pending) /\ Cardinality(Pending) <= Capacity
    /\ waiting # <<>> => Cardinality(Pending) = Capacity

IInv ==
    /\ TypeOK
    /\ Copies(lane, waiting, completed) /\ InPlace(lane)
    /\ Heads /\ Full
    /\ ~disposed => Memory(completed, since)

LEMMA NoneAdmitted ==
    ASSUME NEW l \in Lanes
    PROVE  AllAdmitted(l, <<>>) = l
<1>1. ASSUME NEW r \in Rooms
      PROVE  l[r] \o Keep(<<>>, {c \in Range(<<>>) : RoomOf[c.key] = r}) = l[r]
  <2> DEFINE S == {c \in Range(<<>>) : RoomOf[c.key] = r}
             s == l[r]
  <2>1. <<>> \in Seq(Commits)
    OBVIOUS
  <2>2. Range(<<>>) \cap S = {}
    BY DEF Range
  <2>3. s \in Seq(Commits)
    BY DEF Lanes
  <2> HIDE DEF S, s
  <2>4. Keep(<<>>, S) = <<>>
    BY <2>1, <2>2, KeepNone
  <2>5. s \o <<>> = s
    BY <2>3, ConcatEmptySeq
  <2> QED BY <2>4, <2>5 DEF S, s
<1>2. AllAdmitted(l, <<>>) = [r \in Rooms |-> l[r]]
  BY <1>1 DEF AllAdmitted
<1> QED BY <1>2 DEF Lanes

LEMMA OneAdmitted ==
    ASSUME NEW l \in Lanes, NEW c \in Commits
    PROVE  AllAdmitted(l, <<c>>) = Admitted(l, c)
<1>1. Admitted(l, c) \in Lanes
      /\ \A r \in Rooms : Admitted(l, c)[r] = IF r = RoomOf[c.key] THEN Append(l[r], c) ELSE l[r]
  BY LaneJoined
<1>2. ASSUME NEW r \in Rooms
      PROVE  l[r] \o Keep(<<c>>, {d \in Range(<<c>>) : RoomOf[d.key] = r}) = Admitted(l, c)[r]
  <2> DEFINE S == {d \in Range(<<c>>) : RoomOf[d.key] = r}
             s == l[r]
             o == <<c>>
  <2>1. o \in Seq(Commits) /\ Len(o) = 1 /\ o[1] = c
    OBVIOUS
  <2>2. Range(o) = {c}
    <3>1. DOMAIN o = {1}
      BY <2>1
    <3> HIDE DEF o
    <3> QED BY <2>1, <3>1 DEF Range
  <2>3. s \in Seq(Commits)
    BY DEF Lanes
  <2>4. CASE r = RoomOf[c.key]
    <3>1. Range(o) \subseteq S
      BY <2>2, <2>4
    <3>2. Append(s, c) = s \o o
      BY <2>3, AppendIsConcat
    <3> HIDE DEF S, s, o
    <3>3. Keep(o, S) = o
      BY <2>1, <3>1, KeepAll
    <3>4. s \o Keep(o, S) = Append(s, c)
      BY <3>2, <3>3
    <3> QED BY <1>1, <2>4, <3>4 DEF S, s, o
  <2>5. CASE r # RoomOf[c.key]
    <3>1. Range(o) \cap S = {}
      BY <2>2, <2>5
    <3> HIDE DEF S, s, o
    <3>2. Keep(o, S) = <<>>
      BY <2>1, <3>1, KeepNone
    <3>3. s \o <<>> = s
      BY <2>3, ConcatEmptySeq
    <3>4. s \o Keep(o, S) = s
      BY <3>2, <3>3
    <3> QED BY <1>1, <2>5, <3>4 DEF S, s, o
  <2> QED BY <2>4, <2>5
<1>3. AllAdmitted(l, <<c>>) = [r \in Rooms |-> Admitted(l, c)[r]]
  BY <1>2 DEF AllAdmitted
<1> QED BY <1>1, <1>3 DEF Lanes

\* The lanes without the head of one.
Without1(r) == [lane EXCEPT ![r] = Tail(@)]

LEMMA HeadLeaves ==
    ASSUME IInv, NEW r \in Rooms, lane[r] # <<>>
    PROVE  /\ Without1(r) \in Lanes /\ Copies(Without1(r), waiting, completed)
           /\ lane[r][1] \in Commits /\ lane[r][1] \in Pending
           /\ InLanes(Without1(r)) = Pending \ {lane[r][1]}
           /\ Unknown(InLanes(Without1(r)) \cup Waiting \cup Completed, lane[r][1])
           /\ InPlace(Without1(r))
           /\ IsFiniteSet(InLanes(Without1(r)))
           /\ Cardinality(Pending) \in Nat
           /\ Cardinality(InLanes(Without1(r))) = Cardinality(Pending) - 1
<1>1. lane \in Lanes /\ waiting \in Seq(Commits) /\ completed \in Seq(Commits)
      /\ Copies(lane, waiting, completed) /\ InPlace(lane)
  BY DEF IInv, TypeOK, Lanes
<1>2. Pending = InLanes(lane) /\ Waiting = Range(waiting) /\ Completed = Range(completed)
  BY DEF Pending, InLanes, Waiting, Completed
<1>3. LET after == [lane EXCEPT ![r] = Tail(@)]
      IN  /\ after \in Lanes /\ Copies(after, waiting, completed)
          /\ lane[r][1] \in InLanes(lane) /\ lane[r][1] \in Commits
          /\ InLanes(after) = InLanes(lane) \ {lane[r][1]}
          /\ Unknown(InLanes(after) \cup Range(waiting) \cup Range(completed), lane[r][1])
          /\ InPlace(lane) => InPlace(after)
  BY <1>1, LaneLeft
<1>4. IsFiniteSet(Pending)
  BY DEF IInv, Full
<1>5. Cardinality(Pending) \in Nat
  BY <1>4, FS_CardinalityType
<1>6. /\ IsFiniteSet(Pending \ {lane[r][1]})
      /\ Cardinality(Pending \ {lane[r][1]}) = Cardinality(Pending) - 1
  BY <1>2, <1>3, <1>4, FS_RemoveElement
<1> QED BY <1>1, <1>2, <1>3, <1>5, <1>6 DEF Without1

LEMMA SlotsFree ==
    ASSUME IInv, NEW r \in Rooms, lane[r] # <<>>
    PROVE  Slots(Without1(r)) = IF waiting = <<>> THEN 0 ELSE 1
<1> DEFINE n == Cardinality(InLanes(Without1(r)))
           p == Cardinality(Pending)
<1>1. n = p - 1 /\ p \in Nat
  BY HeadLeaves
<1>2. Capacity \in Nat \ {0} /\ p <= Capacity /\ (waiting # <<>> => p = Capacity)
  BY LimitAssumption DEF IInv, Full
<1>3. waiting \in Seq(Commits)
  BY DEF IInv, TypeOK
<1>4. Slots(Without1(r)) = IF Len(waiting) < Capacity - n THEN Len(waiting) ELSE Capacity - n
  BY DEF Slots, InLanes
<1> HIDE DEF n, p
<1>5. CASE waiting = <<>>
  <2>1. Len(waiting) = 0 /\ 0 < Capacity - n
    BY <1>1, <1>2, <1>5
  <2> QED BY <1>4, <1>5, <2>1
<1>6. CASE waiting # <<>>
  <2>1. Len(waiting) \in Nat \ {0} /\ Capacity - n = 1
    BY <1>1, <1>2, <1>3, <1>6
  <2> QED BY <1>4, <1>6, <2>1
<1> QED BY <1>5, <1>6

-----------------------------------------------------------------------------
(* What a step can be *)

\* Nothing is accepted, delivered, completed or lost.
Quiet ==
    /\ UNCHANGED <<lane, next, waiting, completed, disposed, since>>
    /\ answers' \in SUBSET [commit : Commits, result : Results]
    /\ \A a \in answers' : a.result \notin {"accepted", "duplicate"}
    /\ \A r \in Rooms : running'[r] /\ ~disposed => lane[r] # <<>>

Republished(c) ==
    /\ ~disposed /\ Known(c) /\ ~Conflicts(Pending \cup Completed, c)
    /\ answers' = {Answer(c, "duplicate")}
    /\ completed' = Touched(c)
    /\ since' = IF SameKey(Pending, c) THEN since ELSE Passes(c.key)
    /\ UNCHANGED <<lane, next, running, waiting, disposed>>

Joins(c) ==
    /\ ~disposed /\ ~Known(c) /\ HasRoom
    /\ lane' = Admitted(lane, c)
    /\ answers' = {Answer(c, "accepted")}
    /\ UNCHANGED <<next, running, waiting, completed, disposed, since>>

Queues(c) ==
    /\ ~disposed /\ ~Known(c) /\ ~SameKey(Waiting, c) /\ ~HasRoom
    /\ ~(Len(waiting) >= WaitingCapacity)
    /\ waiting' = Append(waiting, c)
    /\ answers' = {Answer(c, "waits")}
    /\ UNCHANGED <<lane, next, running, completed, disposed, since>>

Proceeds(r) ==
    /\ ~disposed /\ lane[r] # <<>> /\ MoreEffects(r)
    /\ next' = [next EXCEPT ![r] = @ + 1]
    /\ answers' = {}
    /\ UNCHANGED <<lane, running, waiting, completed, disposed, since>>

\* The last effect of a head, with nobody waiting or with a waiter that takes its place.
Completes(r) ==
    /\ ~disposed /\ lane[r] # <<>> /\ ~MoreEffects(r)
    /\ next' = [next EXCEPT ![r] = 1]
    /\ completed' = Remember(lane[r][1])
    /\ since' = Passes(lane[r][1].key)
    /\ running' = [running EXCEPT ![r] = lane'[r] # <<>>]
    /\ UNCHANGED disposed

Finishes(r) ==
    /\ Completes(r)
    /\ waiting = <<>> /\ waiting' = <<>>
    /\ lane' = Without1(r) /\ answers' = {}

MakesRoom(r) ==
    /\ Completes(r)
    /\ waiting # <<>> /\ waiting' = Tail(waiting)
    /\ lane' = Admitted(Without1(r), waiting[1])
    /\ answers' = {Answer(waiting[1], "accepted")}

Shapes ==
    \/ Quiet
    \/ \E c \in Commits : Republished(c) \/ Joins(c) \/ Queues(c)
    \/ \E r \in Rooms : Proceeds(r) \/ Finishes(r) \/ MakesRoom(r)
    \/ Dispose
    \/ UNCHANGED vars

LEMMA AdvanceShape ==
    ASSUME IInv, NEW r \in Rooms, running[r], ~disposed, Advance(r)
    PROVE  Proceeds(r) \/ Finishes(r) \/ MakesRoom(r)
<1>1. lane[r] # <<>>
  BY DEF IInv, Heads
<1>2. CASE MoreEffects(r)
  BY <1>1, <1>2 DEF Advance, Proceeds
<1>3. CASE ~MoreEffects(r)
  <2>1. /\ next' = [next EXCEPT ![r] = 1]
        /\ completed' = Remember(lane[r][1])
        /\ since' = Passes(lane[r][1].key)
        /\ AdmitWaiting(Without1(r))
        /\ running' = [running EXCEPT ![r] = lane'[r] # <<>>]
        /\ disposed' = disposed
    BY <1>3 DEF Advance, Without1
  <2>2. Completes(r)
    BY <1>1, <1>3, <2>1 DEF Completes
  <2>3. Without1(r) \in Lanes
    BY <1>1, HeadLeaves
  <2>4. waiting \in Seq(Commits)
    BY DEF IInv, TypeOK
  <2> DEFINE l == Without1(r)
             n == Slots(l)
             taken == SubSeq(waiting, 1, n)
  <2>5. /\ lane' = AllAdmitted(l, taken)
        /\ waiting' = SubSeq(waiting, n + 1, Len(waiting))
        /\ answers' = {Answer(c, "accepted") : c \in Range(taken)}
    BY <2>1 DEF AdmitWaiting
  <2>6. n = IF waiting = <<>> THEN 0 ELSE 1
    BY <1>1, SlotsFree
  <2> HIDE DEF l, n
  <2>7. CASE waiting = <<>>
    <3>1. n = 0 /\ taken = <<>> /\ SubSeq(waiting, n + 1, Len(waiting)) = <<>>
      <4>1. n = 0 /\ Len(waiting) = 0
        BY <2>6, <2>7
      <4>2. SubSeq(waiting, 1, 0) = <<>>
        BY SubSeqEmpty
      <4>3. SubSeq(waiting, 0 + 1, 0) = <<>>
        BY SubSeqEmpty
      <4> QED BY <4>1, <4>2, <4>3
    <3>2. Range(<<>>) = {}
      BY DEF Range
    <3> HIDE DEF taken
    <3>3. lane' = l
      BY <2>3, <2>5, <3>1, NoneAdmitted DEF l
    <3>4. answers' = {}
      BY <2>5, <3>1, <3>2
    <3>5. waiting' = <<>>
      BY <2>5, <3>1
    <3> QED BY <2>2, <2>7, <3>3, <3>4, <3>5 DEF Finishes, l
  <2>8. CASE waiting # <<>>
    <3>1. n = 1
      BY <2>6, <2>8
    <3>2. waiting[1] \in Commits /\ Len(waiting) \in Nat \ {0}
      BY <2>4, <2>8
    <3>3. SubSeq(waiting, 1, 1) = <<waiting[1]>>
      <4> DEFINE s == SubSeq(waiting, 1, 1)
                 t == <<waiting[1]>>
      <4>0. \A i \in 1 .. 1 : waiting[i] \in Commits
        BY <3>2
      <4>1. s \in Seq(Commits) /\ Len(s) = (IF 1 <= 1 THEN 1 - 1 + 1 ELSE 0)
            /\ \A i \in 1 .. 1 - 1 + 1 : s[i] = waiting[1 + i - 1]
        BY <4>0, SubSeqProperties
      <4>2. t \in Seq(Commits) /\ Len(t) = 1 /\ t[1] = waiting[1]
        BY <3>2
      <4> HIDE DEF s, t
      <4>3. Len(s) = 1 /\ s[1] = waiting[1]
        <5>1. 1 - 1 + 1 = 1 /\ 1 + 1 - 1 = 1 /\ 1 \in 1 .. 1
          OBVIOUS
        <5> QED BY <4>1, <5>1
      <4>4. \A i \in 1 .. Len(s) : s[i] = t[i]
        BY <4>2, <4>3
      <4>5. s = t
        BY <4>1, <4>2, <4>3, <4>4, SeqEqual
      <4> QED BY <4>5 DEF s, t
    <3>4. SubSeq(waiting, 1 + 1, Len(waiting)) = Tail(waiting)
      <4>1. Tail(waiting) = SubSeq(waiting, 2, Len(waiting))
        BY <2>4, <2>8, TailIsSubSeq
      <4>2. 1 + 1 = 2
        OBVIOUS
      <4> QED BY <4>1, <4>2
    <3>5. taken = <<waiting[1]>>
      BY <3>1, <3>3
    <3>6. Range(<<waiting[1]>>) = {waiting[1]}
      <4> DEFINE t == <<waiting[1]>>
      <4>1. DOMAIN t = {1} /\ t[1] = waiting[1]
        OBVIOUS
      <4> HIDE DEF t
      <4>2. Range(t) = {waiting[1]}
        BY <4>1 DEF Range
      <4> QED BY <4>2 DEF t
    <3> HIDE DEF taken
    <3>7. lane' = Admitted(l, waiting[1])
      BY <2>3, <2>5, <3>2, <3>5, OneAdmitted DEF l
    <3>8. answers' = {Answer(waiting[1], "accepted")}
      <4>1. Range(taken) = {waiting[1]}
        BY <3>5, <3>6
      <4> QED BY <2>5, <4>1
    <3>9. waiting' = Tail(waiting)
      BY <2>5, <3>1, <3>4
    <3> QED BY <2>2, <2>8, <3>7, <3>8, <3>9 DEF MakesRoom, l
  <2> QED BY <2>7, <2>8
<1> QED BY <1>2, <1>3

LEMMA EnqueueShape ==
    ASSUME IInv, NEW c \in Commits, Enqueue(c) \/ EnqueueDurably(c)
    PROVE  Quiet \/ Republished(c) \/ Joins(c) \/ Queues(c)
<1>1. \A r \in Rooms : running[r] /\ ~disposed => lane[r] # <<>>
  BY DEF IInv, Heads
<1>2. ASSUME NEW result \in {"conflict", "shares", "full", "wait full", "disposed"}, Refuse(c, result)
      PROVE  Quiet
  <2>1. answers' = {Answer(c, result)} /\ UNCHANGED <<lanes, waiting, completed, disposed, since>>
    BY <1>2 DEF Refuse
  <2>2. Answer(c, result).result = result
    BY DEF Answer
  <2>3. \A a \in answers' : a.result \notin {"accepted", "duplicate"}
    BY <2>1, <2>2
  <2>4. Answer(c, result) \in [commit : Commits, result : Results]
    BY DEF Answer, Results
  <2>5. answers' \in SUBSET [commit : Commits, result : Results]
    BY <2>1, <2>4
  <2> QED BY <1>1, <2>1, <2>3, <2>5 DEF Quiet, lanes
<1>3. ASSUME ~disposed, KnownDuplicate(c) PROVE Quiet \/ Republished(c)
  <2>1. CASE Conflicts(Pending \cup Completed, c)
    <3>1. Refuse(c, "conflict")
      BY <1>3, <2>1 DEF KnownDuplicate, Refuse
    <3> QED BY <1>2, <3>1
  <2>2. CASE ~Conflicts(Pending \cup Completed, c)
    BY <1>3, <2>2 DEF KnownDuplicate, Republished, lanes
  <2> QED BY <2>1, <2>2
<1>4. ASSUME ~disposed, ~Known(c), HasRoom, Admit(c) PROVE Joins(c)
  BY <1>4 DEF Admit, Joins
<1>5. CASE Enqueue(c)
  BY <1>2, <1>3, <1>4, <1>5, Zenon DEF Enqueue
<1>6. CASE EnqueueDurably(c)
  <2>1. CASE disposed
    BY <1>2, <1>6, <2>1 DEF EnqueueDurably, Refuse
  <2>2. CASE ~disposed /\ KnownDuplicate(c)
    BY <1>3, <2>2
  <2>3. CASE ~disposed /\ ~Known(c) /\ Conflicts(Waiting, c) /\ Refuse(c, "conflict")
    BY <1>2, <2>3
  <2>4. CASE ~disposed /\ ~Known(c) /\ c \in Waiting /\ Refuse(c, "shares")
    BY <1>2, <2>4
  <2>5. CASE ~disposed /\ ~Known(c) /\ ~SameKey(Waiting, c) /\ HasRoom /\ Admit(c)
    BY <1>4, <2>5
  <2>6. CASE /\ ~disposed /\ ~Known(c) /\ ~SameKey(Waiting, c) /\ ~HasRoom
             /\ Len(waiting) >= WaitingCapacity /\ Refuse(c, "wait full")
    BY <1>2, <2>6
  <2>7. CASE /\ ~disposed /\ ~Known(c) /\ ~SameKey(Waiting, c) /\ ~HasRoom
             /\ ~(Len(waiting) >= WaitingCapacity) /\ waiting' = Append(waiting, c)
             /\ answers' = {Answer(c, "waits")}
             /\ UNCHANGED <<lanes, completed, disposed, since>>
    BY <2>7 DEF Queues, lanes
  <2> QED BY <1>6, <2>1, <2>2, <2>3, <2>4, <2>5, <2>6, <2>7 DEF EnqueueDurably
<1> QED BY <1>5, <1>6

LEMMA LaneShape ==
    ASSUME IInv, NEW r \in Rooms, Lane(r)
    PROVE  Quiet \/ Proceeds(r) \/ Finishes(r) \/ MakesRoom(r)
<1>0. running \in [Rooms -> BOOLEAN]
  BY DEF IInv, TypeOK
<1>1. \A q \in Rooms : running[q] /\ ~disposed => lane[q] # <<>>
  BY DEF IInv, Heads
<1>2. CASE StartLane(r)
  <2>1. UNCHANGED <<lane, next, waiting, completed, disposed, since>> /\ answers' = {}
    BY <1>2 DEF StartLane
  <2>2. CASE running' = running
    BY <1>1, <2>1, <2>2 DEF Quiet
  <2>3. CASE lane[r] # <<>> /\ running' = [running EXCEPT ![r] = TRUE]
    BY <1>0, <1>1, <2>1, <2>3 DEF Quiet
  <2> QED BY <1>2, <2>2, <2>3 DEF StartLane
<1>3. CASE Returned(r)
  BY <1>3, AdvanceShape DEF Returned
<1>4. CASE Rejected(r)
  <2>1. CASE Exhausted(r)
    BY <1>4, <2>1, AdvanceShape DEF Rejected
  <2>2. CASE ~Exhausted(r)
    <3>1. UNCHANGED <<lane, next, waiting, completed, disposed, since>> /\ answers' = {}
          /\ running' = [running EXCEPT ![r] = FALSE]
      BY <1>4, <2>2 DEF Rejected
    <3> QED BY <1>0, <1>1, <3>1 DEF Quiet
  <2> QED BY <2>1, <2>2
<1>5. CASE RetryFires(r)
  BY <1>1, <1>5 DEF RetryFires, Quiet
<1>6. CASE ReturnedDisposed(r)
  BY <1>0, <1>1, <1>6 DEF ReturnedDisposed, Quiet
<1> QED BY <1>2, <1>3, <1>4, <1>5, <1>6 DEF Lane

LEMMA StepShapes ==
    ASSUME IInv, [Next]_vars
    PROVE  Shapes
<1>1. CASE \E c \in Commits : Enqueue(c) \/ EnqueueDurably(c)
  BY <1>1, EnqueueShape DEF Shapes
<1>2. CASE \E r \in Rooms : Lane(r)
  BY <1>2, LaneShape DEF Shapes
<1>3. CASE Dispose
  BY <1>3 DEF Shapes
<1>4. CASE UNCHANGED vars
  BY <1>4 DEF Shapes
<1> QED BY <1>1, <1>2, <1>3, <1>4 DEF Next

-----------------------------------------------------------------------------
(* Every step keeps the invariant *)

Flags ==
    /\ attempt \in [Rooms -> Nat \ {0}]
    /\ running \in [Rooms -> BOOLEAN] /\ handle \in [Rooms -> BOOLEAN]
    /\ timer \in [Rooms -> BOOLEAN] /\ kicked \in [Rooms -> BOOLEAN]
    /\ stranded \in [Rooms -> BOOLEAN]

LEMMA AdvanceFlags ==
    ASSUME Flags, NEW r \in Rooms, Advance(r)
    PROVE  Flags'
<1>1. attempt' \in [Rooms -> Nat \ {0}]
  BY DEF Advance, Flags
<1>2. CASE MoreEffects(r)
  BY <1>1, <1>2 DEF Advance, Flags
<1>3. CASE ~MoreEffects(r)
  <2>1. running' = [running EXCEPT ![r] = lane'[r] # <<>>]
        /\ UNCHANGED <<handle, timer, stranded>>
        /\ AdmitWaiting([lane EXCEPT ![r] = Tail(@)])
    BY <1>3 DEF Advance
  <2>2. running' \in [Rooms -> BOOLEAN]
    BY <2>1 DEF Flags
  <2>3. kicked' \in [Rooms -> BOOLEAN]
    <3> DEFINE Woken(q) == kicked[q] \/ \E c \in Range(SubSeq(waiting, 1, Slots([lane EXCEPT ![r] = Tail(@)]))) : RoomOf[c.key] = q
    <3>1. kicked' = [q \in Rooms |-> Woken(q)]
      BY <2>1 DEF AdmitWaiting
    <3>2. \A q \in Rooms : Woken(q) \in BOOLEAN
      OBVIOUS
    <3> HIDE DEF Woken
    <3> QED BY <3>1, <3>2
  <2> QED BY <1>1, <2>1, <2>2, <2>3 DEF Flags
<1> QED BY <1>2, <1>3

LEMMA FlagsStep ==
    ASSUME Flags, [Next]_vars
    PROVE  Flags'
<1>1. CASE \E c \in Commits : Enqueue(c) \/ EnqueueDurably(c)
  <2>1. PICK c \in Commits : Enqueue(c) \/ EnqueueDurably(c)
    BY <1>1
  <2>2. CASE UNCHANGED lanes
    BY <2>2 DEF lanes, Flags
  <2>3. CASE Admit(c)
    BY <2>3 DEF Admit, Kick, Flags
  <2> QED BY <2>1, <2>2, <2>3, Zenon DEF Enqueue, EnqueueDurably, Refuse, KnownDuplicate
<1>2. ASSUME NEW r \in Rooms, Lane(r) PROVE Flags'
  <2>1. CASE StartLane(r)
    BY <2>1 DEF StartLane, Flags
  <2>2. CASE Returned(r)
    BY <2>2, AdvanceFlags DEF Returned
  <2>3. CASE Rejected(r)
    <3>1. CASE Exhausted(r)
      BY <2>3, <3>1, AdvanceFlags DEF Rejected
    <3>2. CASE ~Exhausted(r)
      <4>1. attempt' = [attempt EXCEPT ![r] = IF MaxAttempts = 0 THEN 1 ELSE @ + 1]
            /\ running' = [running EXCEPT ![r] = FALSE]
        BY <2>3, <3>2 DEF Rejected
      <4>2. attempt' \in [Rooms -> Nat \ {0}] /\ running' \in [Rooms -> BOOLEAN]
        BY <4>1 DEF Flags
      <4>3. \/ /\ handle' = [handle EXCEPT ![r] = TRUE]
               /\ timer' = [timer EXCEPT ![r] = TRUE]
               /\ UNCHANGED <<kicked, stranded>>
            \/ /\ handle' = handle
               /\ kicked' = [kicked EXCEPT ![r] = TRUE]
               /\ UNCHANGED <<timer, stranded>>
            \/ /\ stranded' = [stranded EXCEPT ![r] = TRUE]
               /\ UNCHANGED <<handle, timer, kicked>>
        BY <2>3, <3>2 DEF Rejected, RanInside
      <4> QED BY <4>2, <4>3 DEF Flags
    <3> QED BY <3>1, <3>2
  <2>4. CASE RetryFires(r)
    BY <2>4 DEF RetryFires, Flags
  <2>5. CASE ReturnedDisposed(r)
    BY <2>5 DEF ReturnedDisposed, Flags
  <2> QED BY <1>2, <2>1, <2>2, <2>3, <2>4, <2>5 DEF Lane
<1>3. CASE Dispose
  BY <1>3 DEF Dispose, Flags
<1>4. CASE UNCHANGED vars
  BY <1>4 DEF vars, lanes, Flags
<1> QED BY <1>1, <1>2, <1>3, <1>4 DEF Next

Bounds == Len(waiting) <= WaitingCapacity /\ Len(completed) <= CompletedRetention

\* The invariant without the flags.
Sound ==
    /\ Bounds
    /\ lane \in Lanes /\ next \in [Rooms -> Nat \ {0}]
    /\ waiting \in Seq(Commits) /\ completed \in Seq(Commits) /\ disposed \in BOOLEAN
    /\ answers \in SUBSET [commit : Commits, result : Results]
    /\ since \in [Keys -> SUBSET Keys]
    /\ Copies(lane, waiting, completed) /\ InPlace(lane)
    /\ Heads /\ Full
    /\ ~disposed => Memory(completed, since)

LEMMA InvSplits == IInv <=> Flags /\ Sound
BY DEF IInv, TypeOK, Flags, Sound, Lanes, Bounds, Full

LEMMA PendingIsInLanes == Pending = InLanes(lane) /\ Waiting = Range(waiting) /\ Completed = Range(completed)
BY DEF Pending, InLanes, Waiting, Completed

LEMMA QuietKeeps ==
    ASSUME Sound, Quiet
    PROVE  Sound'
<1>1. Heads'
  BY DEF Sound, Quiet, Heads
<1>2. Full'
  BY DEF Sound, Quiet, Full, Pending
<1>3. Bounds'
  BY DEF Sound, Quiet, Bounds
<1> QED BY <1>1, <1>2, <1>3 DEF Sound, Quiet

LEMMA RepublishedKeeps ==
    ASSUME Sound, NEW c \in Commits, Republished(c)
    PROVE  Sound' /\ c \in Pending' \cup Range(completed')
<1>1. UNCHANGED <<lane, next, running, waiting, disposed>> /\ ~disposed
      /\ answers' = {Answer(c, "duplicate")}
  BY DEF Republished
<1>2. Heads' /\ Full' /\ Pending' = Pending
  BY <1>1 DEF Sound, Heads, Full, Pending
<1>3. answers' \in SUBSET [commit : Commits, result : Results]
  BY <1>1 DEF Answer, Results
<1>4. c \in Pending \cup Completed
  <2>1. PICK d \in Pending \cup Completed : d.key = c.key /\ d.print = c.print
    BY DEF Republished, Known, SameKey, Conflicts
  <2>2. d \in Commits
    BY <2>1 DEF Pending, Completed, Sound, Lanes, Range
  <2> QED BY <2>1, <2>2, CommitAssumption
<1>5. CASE SameKey(Pending, c)
  <2>1. completed' = completed /\ since' = since
    BY <1>5 DEF Republished, Touched
  <2>2. Bounds'
    BY <1>1, <2>1 DEF Sound, Bounds
  <2> QED BY <1>1, <1>2, <1>3, <1>4, <2>1, <2>2 DEF Sound, Completed
<1>6. CASE ~SameKey(Pending, c)
  <2>1. c \in Completed
    BY <1>4, <1>6 DEF SameKey
  <2>2. SameKey(Completed, c)
    BY <2>1 DEF SameKey
  <2>3. completed' = Append(Without(completed, c.key), c) /\ since' = Passes(c.key)
    BY <1>6, <2>2 DEF Republished, Touched
  <2>4. completed \in Seq(Commits) /\ since \in [Keys -> SUBSET Keys] /\ Distinct(completed)
        /\ Memory(completed, since)
    BY <1>1 DEF Sound, Copies
  <2>5. /\ completed' \in Seq(Commits) /\ Distinct(completed') /\ Range(completed') = Completed
        /\ Memory(completed', since')
    BY <2>1, <2>3, <2>4, Retouched
  <2>6. since' \in [Keys -> SUBSET Keys]
    BY <2>3, <2>4, KeyType, PassesType
  <2>7. Copies(lane, waiting, completed')
    <3>1. Copies(lane, waiting, completed)
      BY DEF Sound
    <3> QED BY <2>5, <3>1, CopiesRemembered DEF Completed
  <2>8. Copies(lane', waiting', completed')
    BY <1>1, <2>7
  <2>9. Bounds'
    BY <1>1, <2>5 DEF Sound, Bounds, Memory
  <2> QED BY <1>1, <1>2, <1>3, <2>1, <2>5, <2>6, <2>8, <2>9 DEF Sound
<1> QED BY <1>5, <1>6

\* Placed only looks at the head.
LEMMA PlacedAppend ==
    ASSUME NEW s \in Seq(Commits), NEW n, Placed(s, n), NEW c \in Commits
    PROVE  Placed(Append(s, c), n) /\ Append(s, c) # <<>>
<1>1. Append(s, c) # <<>>
  BY AppendProperties
<1>2. CASE s = <<>>
  <2>1. Append(s, c)[1] = c
    BY <1>2
  <2>2. n = 1 /\ Size[c.key] \in Nat \ {0}
    BY <1>2, KeyType, EffectsType DEF Placed
  <2> QED BY <1>1, <2>1, <2>2 DEF Placed
<1>3. CASE s # <<>>
  <2>1. Append(s, c)[1] = s[1]
    BY <1>3
  <2> QED BY <1>1, <1>3, <2>1 DEF Placed
<1> QED BY <1>2, <1>3

LEMMA JoinsKeeps ==
    ASSUME Sound, NEW c \in Commits, Joins(c)
    PROVE  Sound' /\ c \in Pending'
<1>1. /\ lane' = Admitted(lane, c) /\ answers' = {Answer(c, "accepted")} /\ ~disposed
      /\ UNCHANGED <<next, running, waiting, completed, disposed, since>>
      /\ waiting = <<>> /\ Cardinality(Pending) < Capacity
  BY DEF Joins, HasRoom
<1>2. lane \in Lanes /\ waiting \in Seq(Commits) /\ completed \in Seq(Commits)
      /\ Copies(lane, waiting, completed) /\ InPlace(lane)
  BY DEF Sound
<1>3. /\ lane' \in Lanes /\ InLanes(lane') = InLanes(lane) \cup {c} /\ InPlace(lane')
      /\ \A r \in Rooms : lane'[r] = IF r = RoomOf[c.key] THEN Append(lane[r], c) ELSE lane[r]
  BY <1>1, <1>2, LaneJoined
<1>4. Unknown(InLanes(lane) \cup Range(waiting) \cup Range(completed), c)
  <2>1. Range(waiting) = {}
    BY <1>1 DEF Range
  <2> QED BY <2>1, PendingIsInLanes DEF Joins, Known, SameKey, Unknown
<1>5. Copies(lane', waiting', completed')
  <2>1. Copies(Admitted(lane, c), waiting, completed)
    BY <1>2, <1>4, CopiesJoined
  <2> QED BY <1>1, <2>1
<1>6. Heads'
  <2> SUFFICES ASSUME NEW r \in Rooms
               PROVE  Placed(lane'[r], next'[r]) /\ (running'[r] /\ ~disposed' => lane'[r] # <<>>)
    BY DEF Heads
  <2>1. lane[r] \in Seq(Commits) /\ Placed(lane[r], next[r]) /\ (running[r] /\ ~disposed => lane[r] # <<>>)
    BY <1>2 DEF Sound, Heads, Lanes
  <2>2. Placed(Append(lane[r], c), next[r]) /\ Append(lane[r], c) # <<>>
    BY <2>1, PlacedAppend
  <2>3. lane'[r] = Append(lane[r], c) \/ lane'[r] = lane[r]
    BY <1>3
  <2> QED BY <1>1, <2>1, <2>2, <2>3
<1>7. Full'
  <2>1. IsFiniteSet(InLanes(lane)) /\ Cardinality(InLanes(lane)) < Capacity
    BY <1>1, PendingIsInLanes DEF Sound, Full
  <2>2. /\ IsFiniteSet(InLanes(lane'))
        /\ Cardinality(InLanes(lane')) = IF c \in InLanes(lane) THEN Cardinality(InLanes(lane))
                                         ELSE Cardinality(InLanes(lane)) + 1
    BY <1>3, <2>1, FS_AddElement
  <2>3. Cardinality(InLanes(lane)) \in Nat /\ Capacity \in Nat
    BY <2>1, FS_CardinalityType, LimitAssumption
  <2>4. Cardinality(InLanes(lane')) <= Capacity
    BY <2>1, <2>2, <2>3
  <2>5. Pending' = InLanes(lane')
    BY DEF Pending, InLanes
  <2> QED BY <1>1, <2>2, <2>4, <2>5 DEF Full
<1>8. answers' \in SUBSET [commit : Commits, result : Results]
  BY <1>1 DEF Answer, Results
<1>9. c \in Pending'
  BY <1>3 DEF Pending, InLanes
<1>10. Bounds'
  BY <1>1 DEF Sound, Bounds
<1> QED BY <1>1, <1>3, <1>5, <1>6, <1>7, <1>8, <1>9, <1>10 DEF Sound

LEMMA QueuesKeeps ==
    ASSUME Sound, NEW c \in Commits, Queues(c)
    PROVE  Sound'
<1>1. /\ waiting' = Append(waiting, c) /\ answers' = {Answer(c, "waits")}
      /\ UNCHANGED <<lane, next, running, completed, disposed, since>>
  BY DEF Queues
<1>2. lane \in Lanes /\ waiting \in Seq(Commits) /\ completed \in Seq(Commits)
      /\ Copies(lane, waiting, completed)
  BY DEF Sound
<1>3. waiting' \in Seq(Commits)
  BY <1>1, <1>2, AppendProperties
<1>4. Unknown(InLanes(lane) \cup Range(waiting) \cup Range(completed), c)
  BY PendingIsInLanes DEF Queues, Known, SameKey, Unknown
<1>5. Copies(lane', waiting', completed')
  <2>1. Copies(lane, Append(waiting, c), completed)
    BY <1>2, <1>4, CopiesQueued
  <2> QED BY <1>1, <2>1
<1>6. Heads'
  BY <1>1 DEF Sound, Heads
<1>7. Full'
  <2>1. IsFiniteSet(Pending) /\ Cardinality(Pending) <= Capacity
        /\ (waiting # <<>> => Cardinality(Pending) = Capacity)
    BY DEF Sound, Full
  <2>2. waiting # <<>> \/ ~(Cardinality(Pending) < Capacity)
    BY DEF Queues, HasRoom
  <2>3. Cardinality(Pending) \in Nat /\ Capacity \in Nat
    BY <2>1, FS_CardinalityType, LimitAssumption
  <2>4. Cardinality(Pending) = Capacity
    BY <2>1, <2>2, <2>3
  <2>5. Pending' = Pending
    BY <1>1 DEF Pending
  <2> QED BY <2>1, <2>4, <2>5 DEF Full
<1>8. answers' \in SUBSET [commit : Commits, result : Results]
  BY <1>1 DEF Answer, Results
<1>9. Bounds'
  <2>1. Len(waiting') = Len(waiting) + 1 /\ Len(waiting) \in Nat /\ WaitingCapacity \in Nat
    BY <1>1, <1>2, AppendProperties, LimitAssumption
  <2>2. ~(Len(waiting) >= WaitingCapacity)
    BY DEF Queues
  <2> QED BY <1>1, <2>1, <2>2 DEF Sound, Bounds
<1> QED BY <1>1, <1>3, <1>5, <1>6, <1>7, <1>8, <1>9 DEF Sound

LEMMA ProceedsKeeps ==
    ASSUME Sound, NEW r \in Rooms, Proceeds(r)
    PROVE  Sound'
<1>1. /\ next' = [next EXCEPT ![r] = @ + 1] /\ answers' = {}
      /\ UNCHANGED <<lane, running, waiting, completed, disposed, since>>
      /\ lane[r] # <<>> /\ next[r] < Size[lane[r][1].key]
  BY DEF Proceeds, MoreEffects
<1>2. next' \in [Rooms -> Nat \ {0}]
  BY <1>1 DEF Sound
<1>3. Heads'
  <2> SUFFICES ASSUME NEW q \in Rooms
               PROVE  Placed(lane'[q], next'[q]) /\ (running'[q] /\ ~disposed' => lane'[q] # <<>>)
    BY DEF Heads
  <2>1. lane[q] \in Seq(Commits) /\ Placed(lane[q], next[q]) /\ (running[q] /\ ~disposed => lane[q] # <<>>)
    BY DEF Sound, Heads, Lanes
  <2>2. CASE q = r
    <3>1. next'[q] = next[r] + 1 /\ next[r] \in Nat \ {0}
      BY <1>1, <2>2 DEF Sound
    <3>2. Size[lane[r][1].key] \in Nat
      BY <1>1, <2>1, <2>2, HeadOwed
    <3>3. Placed(lane[r], next[r] + 1)
      BY <1>1, <3>1, <3>2 DEF Placed
    <3> QED BY <1>1, <2>1, <2>2, <3>1, <3>3
  <2>3. CASE q # r
    <3>1. next'[q] = next[q]
      BY <1>1, <2>3 DEF Sound
    <3> QED BY <1>1, <2>1, <3>1
  <2> QED BY <2>2, <2>3
<1>4. Full'
  BY <1>1 DEF Sound, Full, Pending
<1>5. Bounds'
  BY <1>1 DEF Sound, Bounds
<1> QED BY <1>1, <1>2, <1>3, <1>4, <1>5 DEF Sound

LEMMA CopiesTaken ==
    ASSUME NEW l \in Lanes, NEW w \in Seq(Commits), NEW d \in Seq(Commits), Copies(l, w, d), w # <<>>
    PROVE  /\ Copies(Admitted(l, w[1]), Tail(w), d) /\ w[1] \in Commits /\ Tail(w) \in Seq(Commits)
           /\ Unknown(InLanes(l) \cup Range(d), w[1])
<1>1. Tail(w) \in Seq(Commits) /\ Distinct(Tail(w)) /\ w[1] \in Range(w) /\ w[1] \in Commits
      /\ Range(Tail(w)) \subseteq Range(w) /\ Unknown(Range(Tail(w)), w[1])
  BY DistinctTail DEF Copies
<1>2. Copies(l, Tail(w), d)
  BY <1>1 DEF Copies
<1>3. \A x \in InLanes(l) : x.key # w[1].key
  BY <1>1 DEF Copies
<1>4. \A x \in Range(d) : x.key # w[1].key
  BY <1>1 DEF Copies
<1>5. Unknown(InLanes(l) \cup Range(Tail(w)) \cup Range(d), w[1])
  BY <1>1, <1>3, <1>4 DEF Unknown
<1>6. Copies(Admitted(l, w[1]), Tail(w), d)
  BY <1>1, <1>2, <1>5, CopiesJoined
<1> QED BY <1>1, <1>3, <1>4, <1>6 DEF Unknown

\* The lane of a completion goes on to its next commit, from that one's first effect.
LEMMA FirstPlaced ==
    ASSUME NEW s \in Seq(Commits)
    PROVE  Placed(s, 1)
<1>1. CASE s = <<>>
  BY <1>1 DEF Placed
<1>2. CASE s # <<>>
  <2>1. Size[s[1].key] \in Nat \ {0}
    BY <1>2, HeadOwed
  <2> QED BY <1>2, <2>1 DEF Placed
<1> QED BY <1>1, <1>2

LEMMA CompletesKeeps ==
    ASSUME IInv, NEW r \in Rooms, Completes(r)
    PROVE  /\ completed' \in Seq(Commits) /\ since' \in [Keys -> SUBSET Keys]
           /\ next' \in [Rooms -> Nat \ {0}]
           /\ Memory(completed', since')
           /\ Copies(Without1(r), waiting, completed')
<1>1. lane[r] # <<>> /\ ~disposed /\ completed' = Remember(lane[r][1])
      /\ since' = Passes(lane[r][1].key) /\ next' = [next EXCEPT ![r] = 1]
  BY DEF Completes
<1>2. /\ Copies(Without1(r), waiting, completed) /\ lane[r][1] \in Commits
      /\ Unknown(InLanes(Without1(r)) \cup Waiting \cup Completed, lane[r][1])
  BY <1>1, HeadLeaves
<1>3. completed \in Seq(Commits) /\ since \in [Keys -> SUBSET Keys] /\ Memory(completed, since)
      /\ Distinct(completed) /\ next \in [Rooms -> Nat \ {0}]
  BY <1>1 DEF IInv, TypeOK, Copies
<1>4. Unknown(Completed, lane[r][1]) /\ Unknown(InLanes(Without1(r)) \cup Waiting, lane[r][1])
  BY <1>2 DEF Unknown
<1>5. /\ completed' \in Seq(Commits) /\ Distinct(completed')
      /\ Range(completed') \subseteq Completed \cup {lane[r][1]}
      /\ Memory(completed', since')
  BY <1>1, <1>2, <1>3, <1>4, Remembered
<1>6. since' \in [Keys -> SUBSET Keys]
  BY <1>1, <1>2, <1>3, KeyType, PassesType
<1>7. Copies(Without1(r), waiting, completed')
  <2>1. \A x \in Range(completed') : x \in Range(completed)
                                     \/ Unknown(InLanes(Without1(r)) \cup Range(waiting), x)
    BY <1>4, <1>5, PendingIsInLanes
  <2> QED BY <1>2, <1>5, <2>1, CopiesRemembered
<1>8. next' \in [Rooms -> Nat \ {0}]
  BY <1>1, <1>3
<1> QED BY <1>5, <1>6, <1>7, <1>8

\* The heads after a completion: l is what became of the lanes.
LEMMA HeadsAfter ==
    ASSUME IInv, NEW r \in Rooms, Completes(r), lane' \in Lanes,
           \A q \in Rooms \ {r} : \/ lane'[q] = lane[q]
                                  \/ \E c \in Commits : lane'[q] = Append(lane[q], c)
    PROVE  Heads'
<1>1. /\ next' = [next EXCEPT ![r] = 1] /\ disposed' = disposed
      /\ running' = [running EXCEPT ![r] = lane'[r] # <<>>]
  BY DEF Completes
<1>2. next \in [Rooms -> Nat \ {0}] /\ running \in [Rooms -> BOOLEAN] /\ lane \in [Rooms -> Seq(Commits)]
  BY DEF IInv, TypeOK
<1> SUFFICES ASSUME NEW q \in Rooms
             PROVE  Placed(lane'[q], next'[q]) /\ (running'[q] /\ ~disposed' => lane'[q] # <<>>)
  BY DEF Heads
<1>3. CASE q = r
  <2>1. next'[q] = 1 /\ (running'[q] <=> lane'[q] # <<>>)
    BY <1>1, <1>2, <1>3
  <2>2. lane'[q] \in Seq(Commits)
    BY DEF Lanes
  <2>3. Placed(lane'[q], 1)
    BY <2>2, FirstPlaced
  <2> QED BY <2>1, <2>3
<1>4. CASE q # r
  <2>1. next'[q] = next[q] /\ running'[q] = running[q]
    BY <1>1, <1>2, <1>4
  <2>2. lane[q] \in Seq(Commits) /\ Placed(lane[q], next[q]) /\ (running[q] /\ ~disposed => lane[q] # <<>>)
    BY <1>2 DEF IInv, Heads
  <2>3. CASE lane'[q] = lane[q]
    BY <1>1, <2>1, <2>2, <2>3
  <2>4. CASE \E c \in Commits : lane'[q] = Append(lane[q], c)
    <3>1. PICK c \in Commits : lane'[q] = Append(lane[q], c)
      BY <2>4
    <3>2. Placed(Append(lane[q], c), next[q]) /\ Append(lane[q], c) # <<>>
      BY <2>2, PlacedAppend
    <3> QED BY <2>1, <3>1, <3>2
  <2> QED BY <1>4, <2>3, <2>4
<1> QED BY <1>3, <1>4

LEMMA FinishesKeeps ==
    ASSUME IInv, NEW r \in Rooms, Finishes(r)
    PROVE  Sound'
<1>1. /\ Completes(r) /\ lane[r] # <<>> /\ waiting = <<>> /\ waiting' = <<>> /\ lane' = Without1(r)
      /\ answers' = {} /\ disposed' = disposed
  BY DEF Finishes, Completes
<1>2. /\ Without1(r) \in Lanes /\ InPlace(Without1(r)) /\ IsFiniteSet(InLanes(Without1(r)))
      /\ Cardinality(InLanes(Without1(r))) = Cardinality(Pending) - 1
      /\ Cardinality(Pending) \in Nat
  BY <1>1, HeadLeaves
<1>3. /\ completed' \in Seq(Commits) /\ since' \in [Keys -> SUBSET Keys]
      /\ next' \in [Rooms -> Nat \ {0}]
      /\ Memory(completed', since') /\ Copies(Without1(r), waiting, completed')
  BY <1>1, CompletesKeeps
<1>4. \A q \in Rooms \ {r} : lane'[q] = lane[q]
  BY <1>1 DEF Without1, IInv, TypeOK
<1>5. lane' \in Lanes /\ InPlace(lane') /\ Copies(lane', waiting', completed')
  BY <1>1, <1>2, <1>3
<1>6. Heads'
  BY <1>1, <1>4, <1>5, HeadsAfter
<1>7. Full'
  <2>1. Pending' = InLanes(Without1(r))
    BY <1>1 DEF Pending, InLanes
  <2>2. Cardinality(Pending) <= Capacity /\ Capacity \in Nat
    BY LimitAssumption DEF IInv, Full
  <2>3. Cardinality(Pending') <= Capacity
    BY <1>2, <2>1, <2>2
  <2> QED BY <1>1, <1>2, <2>1, <2>3 DEF Full
<1>8. waiting' \in Seq(Commits) /\ disposed' \in BOOLEAN
      /\ answers' \in SUBSET [commit : Commits, result : Results]
  BY <1>1 DEF IInv, TypeOK
<1>9. Bounds'
  <2>1. Len(waiting') = 0 /\ WaitingCapacity \in Nat
    BY <1>1, LimitAssumption
  <2> QED BY <1>3, <2>1 DEF Bounds, Memory
<1> QED BY <1>3, <1>5, <1>6, <1>7, <1>8, <1>9 DEF Sound

LEMMA MakesRoomKeeps ==
    ASSUME IInv, NEW r \in Rooms, MakesRoom(r)
    PROVE  Sound' /\ waiting[1] \in Pending'
<1> DEFINE l == Without1(r)
           c == waiting[1]
<1>1. /\ Completes(r) /\ lane[r] # <<>> /\ waiting # <<>> /\ waiting' = Tail(waiting)
      /\ lane' = Admitted(l, c) /\ answers' = {Answer(c, "accepted")} /\ disposed' = disposed
  BY DEF MakesRoom, Completes
<1>2. /\ l \in Lanes /\ InPlace(l) /\ IsFiniteSet(InLanes(l))
      /\ Cardinality(InLanes(l)) = Cardinality(Pending) - 1
      /\ Cardinality(Pending) \in Nat
  BY <1>1, HeadLeaves
<1>3. /\ completed' \in Seq(Commits) /\ since' \in [Keys -> SUBSET Keys]
      /\ next' \in [Rooms -> Nat \ {0}]
      /\ Memory(completed', since') /\ Copies(l, waiting, completed')
  BY <1>1, CompletesKeeps
<1>4. waiting \in Seq(Commits) /\ lane \in [Rooms -> Seq(Commits)] /\ disposed \in BOOLEAN
  BY DEF IInv, TypeOK
<1>5. Copies(Admitted(l, c), Tail(waiting), completed') /\ c \in Commits /\ Tail(waiting) \in Seq(Commits)
      /\ Unknown(InLanes(l) \cup Range(completed'), c)
  BY <1>1, <1>2, <1>3, <1>4, CopiesTaken
<1>6. \A q \in Rooms \ {r} : l[q] = lane[q]
  BY <1>4 DEF Without1
<1> HIDE DEF l, c
<1>7. /\ lane' \in Lanes /\ InLanes(lane') = InLanes(l) \cup {c} /\ InPlace(lane')
      /\ \A q \in Rooms : lane'[q] = IF q = RoomOf[c.key] THEN Append(l[q], c) ELSE l[q]
  BY <1>1, <1>2, <1>5, LaneJoined
<1>8. Heads'
  <2>1. \A q \in Rooms \ {r} : lane'[q] = lane[q] \/ \E x \in Commits : lane'[q] = Append(lane[q], x)
    BY <1>5, <1>6, <1>7
  <2> QED BY <1>1, <1>7, <2>1, HeadsAfter
<1>9. Full'
  <2>1. Pending' = InLanes(l) \cup {c}
    BY <1>7 DEF Pending, InLanes
  <2>2. c \notin InLanes(l)
    BY <1>5 DEF Unknown
  <2>3. IsFiniteSet(InLanes(l) \cup {c}) /\ Cardinality(InLanes(l) \cup {c}) = Cardinality(InLanes(l)) + 1
    BY <1>2, <2>2, FS_AddElement
  <2>4. Cardinality(Pending) = Capacity /\ Capacity \in Nat
    BY <1>1, LimitAssumption DEF IInv, Full
  <2>5. Cardinality(Pending') = Capacity
    BY <1>2, <2>1, <2>3, <2>4
  <2> QED BY <2>1, <2>3, <2>4, <2>5 DEF Full
<1>10. answers' \in SUBSET [commit : Commits, result : Results]
  BY <1>1, <1>5 DEF Answer, Results
<1>11. c \in Pending'
  BY <1>7 DEF Pending, InLanes
<1>12. waiting' \in Seq(Commits) /\ Copies(lane', waiting', completed') /\ disposed' \in BOOLEAN
  BY <1>1, <1>4, <1>5
<1>13. Bounds'
  <2>1. Len(waiting') = Len(waiting) - 1 /\ Len(waiting) \in Nat \ {0} /\ WaitingCapacity \in Nat
    BY <1>1, <1>4, LimitAssumption
  <2>2. Len(waiting) <= WaitingCapacity
    BY DEF IInv, TypeOK
  <2>3. Len(waiting') <= WaitingCapacity
    BY <2>1, <2>2
  <2> QED BY <1>3, <2>3 DEF Bounds, Memory
<1> QED BY <1>3, <1>7, <1>8, <1>9, <1>10, <1>11, <1>12, <1>13 DEF Sound, c

\* What an outbox without commits satisfies.
LEMMA Empty ==
    /\ [r \in Rooms |-> <<>>] \in Lanes /\ [r \in Rooms |-> 1] \in [Rooms -> Nat \ {0}]
    /\ <<>> \in Seq(Commits)
    /\ InLanes([r \in Rooms |-> <<>>]) = {}
    /\ Copies([r \in Rooms |-> <<>>], <<>>, <<>>)
    /\ InPlace([r \in Rooms |-> <<>>])
    /\ IsFiniteSet({}) /\ Cardinality({}) <= Capacity
<1>1. <<>> \in Seq(Commits) /\ DOMAIN <<>> = {}
  OBVIOUS
<1>2. Range(<<>>) = {}
  BY <1>1 DEF Range
<1>3. [r \in Rooms |-> <<>>] \in Lanes
  BY <1>1 DEF Lanes
<1>4. InLanes([r \in Rooms |-> <<>>]) = {}
  BY <1>2 DEF InLanes
<1>5. Copies([r \in Rooms |-> <<>>], <<>>, <<>>)
  <2>1. Distinct(<<>>)
    BY <1>1 DEF Distinct
  <2>2. \A r \in Rooms : DOMAIN [t \in Rooms |-> <<>>][r] = {}
    BY <1>1
  <2> QED BY <1>2, <1>4, <2>1, <2>2 DEF Copies
<1>6. InPlace([r \in Rooms |-> <<>>])
  BY <1>2 DEF InPlace
<1>7. IsFiniteSet({}) /\ Cardinality({}) <= Capacity
  <2>1. IsFiniteSet({}) /\ Cardinality({}) = 0
    BY FS_EmptySet
  <2> QED BY <2>1, LimitAssumption
<1> QED BY <1>1, <1>3, <1>4, <1>5, <1>6, <1>7

LEMMA DisposeKeeps ==
    ASSUME IInv, Dispose
    PROVE  Sound'
<1>1. /\ disposed' = TRUE /\ lane' = [r \in Rooms |-> <<>>] /\ completed' = <<>> /\ waiting' = <<>>
      /\ next' = [r \in Rooms |-> 1] /\ since' = since
      /\ answers' = {Answer(c, "disposed") : c \in Waiting}
  BY DEF Dispose
<1>2. /\ lane' \in Lanes /\ next' \in [Rooms -> Nat \ {0}] /\ waiting' \in Seq(Commits)
      /\ completed' \in Seq(Commits) /\ Copies(lane', waiting', completed') /\ InPlace(lane')
  BY <1>1, Empty
<1>3. Full'
  <2>1. Pending' = {}
    BY <1>1, Empty DEF Pending, InLanes
  <2> QED BY <1>1, <2>1, Empty DEF Full
<1>4. Heads'
  <2>1. Placed(<<>>, 1)
    BY DEF Placed
  <2> QED BY <1>1, <2>1 DEF Heads
<1>5. answers' \in SUBSET [commit : Commits, result : Results]
  <2>1. Waiting \subseteq Commits
    BY DEF IInv, TypeOK, Waiting, Range
  <2>2. \A c \in Commits : Answer(c, "disposed") \in [commit : Commits, result : Results]
    BY DEF Answer, Results
  <2> QED BY <1>1, <2>1, <2>2
<1>6. since \in [Keys -> SUBSET Keys]
  BY DEF IInv, TypeOK
<1>7. Bounds'
  <2>1. Len(waiting') = 0 /\ Len(completed') = 0
    BY <1>1
  <2> QED BY <2>1, LimitAssumption DEF Bounds
<1> QED BY <1>1, <1>2, <1>3, <1>4, <1>5, <1>6, <1>7 DEF Sound

LEMMA InvInit ==
    ASSUME Init
    PROVE  IInv
<1>1. Flags
  BY DEF Init, Flags
<1>2. /\ lane \in Lanes /\ next \in [Rooms -> Nat \ {0}] /\ waiting \in Seq(Commits)
      /\ completed \in Seq(Commits) /\ Copies(lane, waiting, completed) /\ InPlace(lane)
  BY Empty DEF Init
<1>3. Full
  <2>1. Pending = {}
    BY Empty DEF Init, Pending, InLanes
  <2> QED BY <2>1, Empty DEF Full, Init
<1>4. Heads
  <2>1. Placed(<<>>, 1)
    BY DEF Placed
  <2> QED BY <2>1 DEF Init, Heads
<1>5. Memory(completed, since)
  <2>1. completed = <<>> /\ since = [k \in Keys |-> Keys] /\ DOMAIN completed = {} /\ Len(completed) = 0
    BY DEF Init
  <2>2. Len(completed) <= CompletedRetention
    BY <2>1, LimitAssumption
  <2> QED BY <2>1, <2>2 DEF Memory, Ages, Forgets
<1>6. answers \in SUBSET [commit : Commits, result : Results] /\ since \in [Keys -> SUBSET Keys]
      /\ disposed \in BOOLEAN
  BY DEF Init
<1>7. Bounds
  <2>1. Len(waiting) = 0 /\ Len(completed) = 0
    BY DEF Init
  <2> QED BY <2>1, LimitAssumption DEF Bounds
<1> QED BY <1>1, <1>2, <1>3, <1>4, <1>5, <1>6, <1>7, InvSplits DEF Sound

LEMMA InvStep ==
    ASSUME IInv, [Next]_vars
    PROVE  IInv'
<1>1. Flags /\ Sound
  BY InvSplits
<1>2. Flags'
  BY <1>1, FlagsStep
<1>3. Sound'
  <2>1. CASE UNCHANGED vars
    <3>1. Heads'
      BY <1>1, <2>1 DEF vars, lanes, Sound, Heads
    <3>2. Full'
      BY <1>1, <2>1 DEF vars, lanes, Sound, Full, Pending
    <3> QED BY <1>1, <2>1, <3>1, <3>2 DEF vars, lanes, Sound, Bounds
  <2> QED BY <1>1, <2>1, StepShapes, QuietKeeps, RepublishedKeeps, JoinsKeeps, QueuesKeeps,
             ProceedsKeeps, FinishesKeeps, MakesRoomKeeps, DisposeKeeps DEF Shapes
<1>4. IInv' <=> Flags' /\ Sound'
  BY DEF IInv, TypeOK, Flags, Sound, Lanes, Bounds, Full
<1> QED BY <1>2, <1>3, <1>4

LEMMA Inductive == Spec => []IInv
BY InvInit, InvStep, PTL DEF Spec

\* Every variable keeps its type, and the three memories their bounds.
THEOREM TypeCorrect == Spec => []TypeOK
<1>1. IInv => TypeOK
  BY DEF IInv
<1> QED BY <1>1, Inductive, PTL

-----------------------------------------------------------------------------
(* What callers are told *)

LEMMA InvOneCopy ==
    ASSUME IInv
    PROVE  OneCopy
BY PendingIsInLanes DEF IInv, Copies, Distinct, OneCopy

\* Of the commits reported as accepted or as known, none is lost.
Kept ==
    \A a \in answers : a.result \in {"accepted", "duplicate"} => a.commit \in Pending \cup Completed

LEMMA KeptStep ==
    ASSUME IInv, Kept, [Next]_vars
    PROVE  Kept'
<1>0. Sound
  BY InvSplits
<1>1. CASE Quiet
  BY <1>1 DEF Quiet, Kept
<1>2. ASSUME NEW c \in Commits, NEW result, answers' = {Answer(c, result)},
             c \in Pending' \cup Range(completed')
      PROVE  Kept'
  <2>1. \A a \in answers' : a.commit = c
    BY <1>2 DEF Answer
  <2>2. Completed' = Range(completed')
    BY DEF Completed
  <2> QED BY <1>2, <2>1, <2>2 DEF Kept
<1>3. ASSUME NEW c \in Commits, Republished(c) PROVE Kept'
  BY <1>0, <1>2, <1>3, RepublishedKeeps DEF Republished
<1>4. ASSUME NEW c \in Commits, Joins(c) PROVE Kept'
  BY <1>0, <1>2, <1>4, JoinsKeeps DEF Joins
<1>5. ASSUME NEW c \in Commits, Queues(c) PROVE Kept'
  BY <1>5 DEF Queues, Kept, Answer
<1>6. ASSUME NEW r \in Rooms, Proceeds(r) \/ Finishes(r) PROVE Kept'
  BY <1>6 DEF Proceeds, Finishes, Kept
<1>7. ASSUME NEW r \in Rooms, MakesRoom(r) PROVE Kept'
  <2>1. waiting # <<>> /\ waiting \in Seq(Commits) /\ answers' = {Answer(waiting[1], "accepted")}
    BY <1>0, <1>7 DEF MakesRoom, Sound
  <2>2. waiting[1] \in Commits
    BY <2>1
  <2>3. waiting[1] \in Pending'
    BY <1>7, MakesRoomKeeps
  <2> QED BY <1>2, <2>1, <2>2, <2>3
<1>8. CASE Dispose
  BY <1>8 DEF Dispose, Kept, Answer
<1>9. CASE UNCHANGED vars
  BY <1>9 DEF vars, lanes, Kept, Pending, Completed
<1> QED BY <1>1, <1>3, <1>4, <1>5, <1>6, <1>7, <1>8, <1>9, StepShapes DEF Shapes

\* Whoever is told that a commit was accepted, or had been before, is told so of the one
\* copy of it, which is pending or completed: enqueue and enqueueDurably never vouch for a
\* commit that still waits for capacity, nor for one with other effects.
THEOREM AnswersAreTrue == Spec => []AnsweredTruthfully
<1>1. Init => Kept
  BY DEF Init, Kept
<1>2. IInv /\ Kept /\ [Next]_vars => Kept'
  BY KeptStep
<1>3. IInv /\ Kept => AnsweredTruthfully
  BY InvOneCopy DEF Kept, AnsweredTruthfully
<1> QED BY <1>1, <1>2, <1>3, Inductive, PTL DEF Spec

-----------------------------------------------------------------------------
(* What is delivered again *)

Seen(c) == c.key \in since[c.key] \/ Cardinality(since[c.key]) >= CompletedRetention

LEMMA NotRemembered ==
    ASSUME IInv, ~disposed, NEW c \in Commits, Unknown(Completed, c)
    PROVE  Seen(c)
<1>1. \A i \in DOMAIN completed : completed[i].key # c.key
  BY DEF Unknown, Completed, Range
<1>2. Memory(completed, since) /\ c.key \in Keys
  BY KeyType DEF IInv
<1> QED BY <1>1, <1>2 DEF Memory, Forgets, Long, Seen

LEMMA WindowStep ==
    ASSUME IInv, [Next]_vars, NEW c, c \in InLanes(lane'), c \notin Pending
    PROVE  Seen(c)
<1>1. InLanes(lane) = Pending
  BY PendingIsInLanes
<1>2. lane' # lane
  BY <1>1
<1>3. ASSUME NEW d \in Commits, Joins(d) PROVE Seen(c)
  <2>1. InLanes(lane') = Pending \cup {d} /\ ~disposed
    BY <1>1, <1>3, LaneJoined DEF Joins, IInv, TypeOK, Lanes
  <2>2. c = d
    BY <2>1
  <2>3. Unknown(Completed, d)
    BY <1>3 DEF Joins, Known, SameKey, Unknown
  <2> QED BY <2>1, <2>2, <2>3, NotRemembered
<1>4. ASSUME NEW r \in Rooms, Finishes(r) PROVE Seen(c)
  <2>1. InLanes(lane') \subseteq Pending
    BY <1>4, HeadLeaves DEF Finishes, Completes
  <2> QED BY <2>1
<1>5. ASSUME NEW r \in Rooms, MakesRoom(r) PROVE Seen(c)
  <2> DEFINE d == waiting[1]
  <2>1. waiting # <<>> /\ waiting \in Seq(Commits) /\ lane[r] # <<>> /\ ~disposed
        /\ lane' = Admitted(Without1(r), d)
    BY <1>5 DEF MakesRoom, Completes, IInv, TypeOK
  <2>2. Without1(r) \in Lanes /\ InLanes(Without1(r)) \subseteq Pending
    BY <2>1, HeadLeaves
  <2>3. d \in Commits /\ d \in Range(waiting)
    BY <2>1, DistinctTail DEF IInv, Copies
  <2>4. InLanes(lane') = InLanes(Without1(r)) \cup {d}
    BY <2>1, <2>2, <2>3, LaneJoined
  <2>5. c = d
    BY <2>2, <2>4
  <2>6. Unknown(Completed, d)
    BY <2>3, PendingIsInLanes DEF IInv, Copies, Unknown
  <2> QED BY <2>1, <2>3, <2>5, <2>6, NotRemembered
<1>6. CASE Dispose
  <2>1. InLanes(lane') = {}
    BY <1>6, Empty DEF Dispose
  <2> QED BY <2>1
<1> QED BY <1>2, <1>3, <1>4, <1>5, <1>6, StepShapes
        DEF Shapes, Quiet, Republished, Queues, Proceeds, vars, lanes

\* A commit goes into a lane a second time only when the outbox has forgotten it, and it
\* forgets a commit only for CompletedRetention others that completed or came again since.
THEOREM RedeliveryIsOutsideMemory == Spec => RedeliveryWindow
<1>1. IInv /\ [Next]_vars =>
        [\A c \in UNION {Range(lane'[r]) : r \in Rooms} : c \notin Pending =>
            c.key \in since[c.key] \/ Cardinality(since[c.key]) >= CompletedRetention]_vars
  <2> SUFFICES ASSUME IInv, [Next]_vars, NEW c \in UNION {Range(lane'[r]) : r \in Rooms}, c \notin Pending
               PROVE  c.key \in since[c.key] \/ Cardinality(since[c.key]) >= CompletedRetention
    OBVIOUS
  <2>1. c \in InLanes(lane')
    BY DEF InLanes
  <2> QED BY <2>1, WindowStep DEF Seen
<1> QED BY <1>1, Inductive, PTL DEF Spec, RedeliveryWindow

LEMMA TurnStep ==
    ASSUME IInv, [Next]_vars, NEW c, c \in InLanes(lane'), c \notin Pending,
           NEW i \in DOMAIN waiting, waiting[i] \in Range(waiting')
    PROVE  \E j \in 1 .. i - 1 : waiting[j] = c
<1>1. InLanes(lane) = Pending /\ waiting \in Seq(Commits) /\ Distinct(waiting)
  BY PendingIsInLanes DEF IInv, TypeOK, Copies
<1>2. lane' # lane
  BY <1>1
<1>3. ASSUME NEW d \in Commits, Joins(d) PROVE FALSE
  BY <1>3 DEF Joins, HasRoom
<1>4. ASSUME NEW r \in Rooms, Finishes(r) PROVE FALSE
  BY <1>4 DEF Finishes
<1>5. ASSUME NEW r \in Rooms, MakesRoom(r) PROVE \E j \in 1 .. i - 1 : waiting[j] = c
  <2> DEFINE d == waiting[1]
  <2>1. waiting # <<>> /\ lane[r] # <<>> /\ waiting' = Tail(waiting)
        /\ lane' = Admitted(Without1(r), d)
    BY <1>5 DEF MakesRoom, Completes
  <2>2. Without1(r) \in Lanes /\ InLanes(Without1(r)) \subseteq Pending
    BY <2>1, HeadLeaves
  <2>3. d \in Commits /\ Range(Tail(waiting)) = Range(waiting) \ {d}
    BY <1>1, <2>1, DistinctTail
  <2>4. InLanes(lane') = InLanes(Without1(r)) \cup {d}
    BY <2>1, <2>2, <2>3, LaneJoined
  <2>5. c = waiting[1]
    BY <2>2, <2>4
  <2>6. i # 1
    BY <2>1, <2>3
  <2>7. i \in Nat /\ i >= 1
    BY <1>1
  <2>8. 1 \in 1 .. i - 1
    BY <2>6, <2>7
  <2> QED BY <2>5, <2>8
<1>6. CASE Dispose
  <2>1. InLanes(lane') = {}
    BY <1>6, Empty DEF Dispose
  <2> QED BY <2>1
<1> QED BY <1>2, <1>3, <1>4, <1>5, <1>6, StepShapes
        DEF Shapes, Quiet, Republished, Queues, Proceeds, vars, lanes

\* When a commit joins a lane, only those wait on that came to wait after it: a newcomer
\* finds room only when nobody waits, and a completion lets the oldest waiter in.
THEOREM NobodyOvertakes == Spec => WaitersInTurn
<1>1. IInv /\ [Next]_vars =>
        [\A c \in Pending' \ Pending : \A i \in DOMAIN waiting :
            waiting[i] \in Waiting' => \E j \in 1 .. i - 1 : waiting[j] = c]_vars
  <2> SUFFICES ASSUME IInv, [Next]_vars, NEW c \in Pending' \ Pending,
                      NEW i \in DOMAIN waiting, waiting[i] \in Waiting'
               PROVE  \E j \in 1 .. i - 1 : waiting[j] = c
    OBVIOUS
  <2>1. c \in InLanes(lane') /\ waiting[i] \in Range(waiting')
    BY DEF InLanes, Pending, Waiting
  <2> QED BY <2>1, TurnStep
<1> QED BY <1>1, Inductive, PTL DEF Spec, WaitersInTurn

-----------------------------------------------------------------------------
(* What the room server promises about the effects *)

Debt(l, n) == [r \in Rooms |-> Owed(l[r], n[r])]
Standing(l, n) == \A r \in Rooms : Placed(l[r], n[r])

LEMMA InvStanding ==
    ASSUME IInv
    PROVE  lane \in Lanes /\ Standing(lane, next)
BY DEF IInv, TypeOK, Lanes, Heads, Standing

\* What is owed after a commit has joined its lane.
LEMMA DebtJoined ==
    ASSUME NEW l \in Lanes, NEW n, Standing(l, n), NEW c \in Commits
    PROVE  Debt(Admitted(l, c), n) = Delivery!Joined(Debt(l, n), c.key)
<1> DEFINE m == Admitted(l, c)
           h == RoomOf[c.key]
<1>1. m \in Lanes /\ \A r \in Rooms : m[r] = IF r = h THEN Append(l[r], c) ELSE l[r]
  BY LaneJoined
<1>2. h \in Rooms
  BY KeyType
<1>3. Delivery!Joined(Debt(l, n), c.key) = [Debt(l, n) EXCEPT ![h] = @ \o EffectsOf(c.key)]
  BY DEF Delivery!Joined, EffectsOf
<1> HIDE DEF m, h
<1>4. ASSUME NEW r \in Rooms
      PROVE  Owed(m[r], n[r]) = [Debt(l, n) EXCEPT ![h] = @ \o EffectsOf(c.key)][r]
  <2>1. l[r] \in Seq(Commits) /\ Placed(l[r], n[r])
    BY DEF Lanes, Standing
  <2>2. Owed(Append(l[r], c), n[r]) = Owed(l[r], n[r]) \o EffectsOf(c.key)
    BY <2>1, OwedAppend
  <2> QED BY <1>1, <2>2 DEF Debt
<1>5. Debt(m, n) = [r \in Rooms |-> [Debt(l, n) EXCEPT ![h] = @ \o EffectsOf(c.key)][r]]
  BY <1>4 DEF Debt
<1>6. Debt(m, n) = [Debt(l, n) EXCEPT ![h] = @ \o EffectsOf(c.key)]
  BY <1>5 DEF Debt
<1> QED BY <1>3, <1>6 DEF m

\* Nothing is owed of a commit that is in no lane.
LEMMA NotOwing ==
    ASSUME NEW l \in Lanes, NEW n, Standing(l, n), NEW c, Unknown(InLanes(l), c)
    PROVE  ~Delivery!Owing(Debt(l, n), c.key)
<1> SUFFICES ASSUME NEW r \in Rooms, NEW i \in DOMAIN Debt(l, n)[r], Debt(l, n)[r][i][1] = c.key
             PROVE  FALSE
  BY DEF Delivery!Owing
<1>1. Debt(l, n)[r] = Owed(l[r], n[r])
  BY DEF Debt
<1>2. l[r] \in Seq(Commits) /\ Placed(l[r], n[r])
  BY DEF Lanes, Standing
<1>3. PICK d \in Range(l[r]) : Owed(l[r], n[r])[i][1] = d.key
  BY <1>1, <1>2, OwedKeys
<1>4. d \in InLanes(l)
  BY DEF InLanes
<1> QED BY <1>1, <1>3, <1>4 DEF Unknown

\* What is owed after the last effect of a head.
LEMMA DebtFinished ==
    ASSUME IInv, NEW r \in Rooms, Completes(r)
    PROVE  /\ Debt(lane, next)[r] # <<>>
           /\ Debt(Without1(r), next') = [Debt(lane, next) EXCEPT ![r] = Tail(@)]
<1>1. lane[r] # <<>> /\ ~MoreEffects(r) /\ next' = [next EXCEPT ![r] = 1]
  BY DEF Completes
<1>2. lane \in [Rooms -> Seq(Commits)] /\ next \in [Rooms -> Nat \ {0}] /\ Placed(lane[r], next[r])
  BY DEF IInv, TypeOK, Heads
<1>3. Size[lane[r][1].key] \in Nat \ {0}
  BY <1>1, <1>2, HeadOwed
<1>4. next[r] = Size[lane[r][1].key]
  BY <1>1, <1>2, <1>3 DEF MoreEffects, Placed
<1>5. /\ Owed(lane[r], next[r]) # <<>>
      /\ Owed(Tail(lane[r]), 1) = Tail(Owed(lane[r], next[r]))
  BY <1>1, <1>2, <1>4, OwedLast
<1>6. ASSUME NEW q \in Rooms
      PROVE  Owed(Without1(r)[q], next'[q]) = [Debt(lane, next) EXCEPT ![r] = Tail(@)][q]
  <2>1. CASE q = r
    BY <1>1, <1>2, <1>5, <2>1 DEF Debt, Without1
  <2>2. CASE q # r
    BY <1>1, <1>2, <2>2 DEF Debt, Without1
  <2> QED BY <2>1, <2>2
<1>7. Debt(Without1(r), next') = [q \in Rooms |-> [Debt(lane, next) EXCEPT ![r] = Tail(@)][q]]
  BY <1>6 DEF Debt
<1>8. Debt(Without1(r), next') = [Debt(lane, next) EXCEPT ![r] = Tail(@)]
  BY <1>7 DEF Debt
<1> QED BY <1>5, <1>8 DEF Debt

\* The lanes stand right after a completion too.
LEMMA StandingFinished ==
    ASSUME IInv, NEW r \in Rooms, Completes(r)
    PROVE  Without1(r) \in Lanes /\ Standing(Without1(r), next')
<1>1. lane[r] # <<>> /\ next' = [next EXCEPT ![r] = 1]
  BY DEF Completes
<1>2. lane \in [Rooms -> Seq(Commits)] /\ next \in [Rooms -> Nat \ {0}]
      /\ \A q \in Rooms : Placed(lane[q], next[q])
  BY DEF IInv, TypeOK, Heads
<1>3. Without1(r) \in Lanes
  BY <1>1, HeadLeaves
<1>4. ASSUME NEW q \in Rooms PROVE Placed(Without1(r)[q], next'[q])
  <2>1. CASE q = r
    <3>1. Without1(r)[q] \in Seq(Commits) /\ next'[q] = 1
      BY <1>1, <1>2, <1>3, <2>1 DEF Lanes
    <3> QED BY <3>1, FirstPlaced
  <2>2. CASE q # r
    BY <1>1, <1>2, <2>2 DEF Without1
  <2> QED BY <2>1, <2>2
<1> QED BY <1>3, <1>4 DEF Standing

\* The abstract state of the outbox.
owing == Debt(lane, next)

LEMMA StepRefines ==
    ASSUME IInv, [Next]_vars
    PROVE  \/ UNCHANGED <<owing, disposed>>
           \/ /\ ~disposed /\ UNCHANGED disposed
              /\ \E k \in Keys : ~Delivery!Owing(owing, k) /\ owing' = Delivery!Joined(owing, k)
           \/ /\ ~disposed /\ UNCHANGED disposed
              /\ \E r \in Rooms :
                    LET rest == [owing EXCEPT ![r] = Tail(@)]
                    IN  /\ owing[r] # <<>>
                        /\ \/ owing' = rest
                           \/ \E k \in Keys : /\ ~Delivery!Owing(rest, k)
                                              /\ owing' = Delivery!Joined(rest, k)
           \/ disposed' = TRUE /\ owing' = [r \in Rooms |-> <<>>]
<1>1. lane \in Lanes /\ Standing(lane, next)
  BY InvStanding
<1>2. InLanes(lane) = Pending /\ owing' = Debt(lane', next')
  BY PendingIsInLanes DEF owing
<1>3. CASE UNCHANGED <<lane, next, disposed>>
  BY <1>2, <1>3 DEF owing
<1>4. ASSUME NEW c \in Commits, Joins(c)
      PROVE  /\ ~disposed /\ UNCHANGED disposed
             /\ \E k \in Keys : ~Delivery!Owing(owing, k) /\ owing' = Delivery!Joined(owing, k)
  <2>1. ~disposed /\ disposed' = disposed /\ lane' = Admitted(lane, c) /\ next' = next
    BY <1>4 DEF Joins
  <2>2. Unknown(InLanes(lane), c)
    BY <1>2, <1>4 DEF Joins, Known, SameKey, Unknown
  <2>3. ~Delivery!Owing(owing, c.key)
    BY <1>1, <2>2, NotOwing DEF owing
  <2>4. owing' = Delivery!Joined(owing, c.key)
    BY <1>1, <1>2, <2>1, DebtJoined DEF owing
  <2> QED BY <2>1, <2>3, <2>4, KeyType
<1>5. ASSUME NEW r \in Rooms, Proceeds(r)
      PROVE  /\ ~disposed /\ UNCHANGED disposed /\ owing[r] # <<>>
             /\ owing' = [owing EXCEPT ![r] = Tail(@)]
  <2>1. ~disposed /\ disposed' = disposed /\ lane' = lane /\ lane[r] # <<>>
        /\ next' = [next EXCEPT ![r] = @ + 1]
    BY <1>5 DEF Proceeds
  <2>2. lane[r] \in Seq(Commits) /\ Placed(lane[r], next[r]) /\ next \in [Rooms -> Nat \ {0}]
    BY <1>1 DEF Lanes, Standing, IInv, TypeOK
  <2>3. Owed(lane[r], next[r]) # <<>> /\ Owed(lane[r], next[r] + 1) = Tail(Owed(lane[r], next[r]))
    BY <2>1, <2>2, OwedNext
  <2>4. ASSUME NEW q \in Rooms PROVE Owed(lane[q], next'[q]) = [owing EXCEPT ![r] = Tail(@)][q]
    BY <2>1, <2>2, <2>3 DEF owing, Debt
  <2>5. Debt(lane, next') = [q \in Rooms |-> [owing EXCEPT ![r] = Tail(@)][q]]
    BY <2>4 DEF Debt
  <2>6. Debt(lane, next') = [owing EXCEPT ![r] = Tail(@)]
    BY <2>5 DEF owing, Debt
  <2> QED BY <1>2, <2>1, <2>3, <2>6 DEF owing, Debt
<1>6. ASSUME NEW r \in Rooms, Finishes(r)
      PROVE  /\ ~disposed /\ UNCHANGED disposed /\ owing[r] # <<>>
             /\ owing' = [owing EXCEPT ![r] = Tail(@)]
  <2>1. Completes(r) /\ lane' = Without1(r) /\ ~disposed /\ disposed' = disposed
    BY <1>6 DEF Finishes, Completes
  <2> QED BY <1>2, <2>1, DebtFinished DEF owing
<1>7. ASSUME NEW r \in Rooms, MakesRoom(r)
      PROVE  LET rest == [owing EXCEPT ![r] = Tail(@)]
             IN  /\ ~disposed /\ UNCHANGED disposed /\ owing[r] # <<>>
                 /\ \E k \in Keys : ~Delivery!Owing(rest, k) /\ owing' = Delivery!Joined(rest, k)
  <2> DEFINE c == waiting[1]
             l == Without1(r)
             rest == [owing EXCEPT ![r] = Tail(@)]
  <2>1. Completes(r) /\ lane[r] # <<>> /\ lane' = Admitted(l, c) /\ ~disposed /\ disposed' = disposed
        /\ waiting # <<>> /\ waiting \in Seq(Commits)
    BY <1>7 DEF MakesRoom, Completes, IInv, TypeOK
  <2>2. owing[r] # <<>> /\ Debt(l, next') = rest
    BY <2>1, DebtFinished DEF owing
  <2>3. l \in Lanes /\ Standing(l, next')
    BY <2>1, StandingFinished
  <2>4. c \in Commits /\ c \in Range(waiting)
    BY <2>1, DistinctTail DEF IInv, Copies
  <2>5. Unknown(InLanes(l), c)
    <3>1. InLanes(l) \subseteq InLanes(lane)
      BY <1>2, <2>1, HeadLeaves
    <3> QED BY <2>4, <3>1 DEF IInv, Copies, Unknown
  <2> HIDE DEF l
  <2>6. ~Delivery!Owing(rest, c.key)
    <3>1. ~Delivery!Owing(Debt(l, next'), c.key)
      BY <2>3, <2>5, NotOwing
    <3> HIDE DEF rest
    <3> QED BY <2>2, <3>1
  <2>7. Debt(Admitted(l, c), next') = Delivery!Joined(rest, c.key)
    <3>1. Debt(Admitted(l, c), next') = Delivery!Joined(Debt(l, next'), c.key)
      BY <2>3, <2>4, DebtJoined
    <3> HIDE DEF rest
    <3> QED BY <2>2, <3>1
  <2>8. owing' = Delivery!Joined(rest, c.key)
    BY <1>2, <2>1, <2>7
  <2> QED BY <2>1, <2>2, <2>4, <2>6, <2>8, KeyType
<1>8. CASE Dispose
  <2>1. disposed' = TRUE /\ lane' = [r \in Rooms |-> <<>>] /\ next' = [r \in Rooms |-> 1]
    BY <1>8 DEF Dispose
  <2>2. Debt(lane', next') = [r \in Rooms |-> <<>>]
    BY <2>1, OwedEmpty DEF Debt
  <2> QED BY <1>2, <2>1, <2>2
<1>9. CASE Quiet
  BY <1>3, <1>9 DEF Quiet
<1>10. CASE UNCHANGED vars
  BY <1>3, <1>10 DEF vars, lanes
<1>11. ASSUME NEW c \in Commits, Republished(c) \/ Queues(c) PROVE UNCHANGED <<lane, next, disposed>>
  BY <1>11 DEF Republished, Queues
<1> QED BY <1>3, <1>4, <1>5, <1>6, <1>7, <1>8, <1>9, <1>10, <1>11, StepShapes DEF Shapes

\* The outbox implements CommitDelivery: the effects of a room are settled in the order of
\* its commits and of their emission, one at a time, none of an accepted commit is skipped
\* or settled again, and only disposing of the outbox drops any.
THEOREM OutboxDelivers == Spec => InOrder
<1>1. Init => Delivery!Init
  <2> SUFFICES ASSUME Init PROVE Delivery!Init
    OBVIOUS
  <2>1. [r \in Rooms |-> Owed(lane[r], next[r])] = [r \in Rooms |-> <<>>]
    BY OwedEmpty DEF Init
  <2> QED BY <2>1 DEF Delivery!Init, Init
<1>2. IInv /\ [Next]_vars =>
        [Delivery!Next]_<<[r \in Rooms |-> Owed(lane[r], next[r])], disposed>>
  <2> SUFFICES ASSUME IInv, [Next]_vars
               PROVE  Delivery!Next
                      \/ UNCHANGED <<[r \in Rooms |-> Owed(lane[r], next[r])], disposed>>
    OBVIOUS
  <2>1. owing = [r \in Rooms |-> Owed(lane[r], next[r])]
        /\ owing' = [r \in Rooms |-> Owed(lane'[r], next'[r])]
    BY DEF owing, Debt
  <2> QED BY <2>1, StepRefines
          DEF Delivery!Next, Delivery!TakeUp, Delivery!Settle, Delivery!Discard
<1> QED BY <1>1, <1>2, Inductive, PTL DEF Spec, InOrder, Delivery!Spec

=============================================================================
