----------------------------- MODULE ListProofs -----------------------------
(***************************************************************************)
(* Least and greatest numbers of a set, and what taking a member out of a  *)
(* list, putting one in at either end or in the middle, does to the set of *)
(* its members and to each being in it once.                               *)
(***************************************************************************)
EXTENDS Lists, Integers, FiniteSetTheorems, SequenceTheorems,
        WellFoundedInduction, TLAPS

-----------------------------------------------------------------------------
(* Least and greatest elements. *)

(* A nonempty set of naturals has a least element: the initial segments of
   its members are finite sets, and strict inclusion of these is well
   founded. *)
LEMMA MinExists ==
  ASSUME NEW S \in SUBSET Nat, S # {}
  PROVE  \E x \in S : \A y \in S : x <= y
<1> DEFINE T == {0 .. x : x \in S}
<1>1. T \subseteq FiniteSubsetsOf(Nat)
  <2>1. \A x \in S : x \in Int  OBVIOUS
  <2>2. \A x \in S : IsFiniteSet(0 .. x)  BY <2>1, FS_Interval
  <2>3. \A x \in S : 0 .. x \in SUBSET Nat  BY <2>1
  <2> QED  BY <2>2, <2>3 DEF FiniteSubsetsOf
<1>2. PICK t \in T : \A u \in T : <<u, t>> \notin StrictSubsetOrdering(Nat)
  <2>1. T # {}  OBVIOUS
  <2> QED  BY <1>1, <2>1, FS_StrictSubsetOrderingWellFounded, WFMin
<1>3. PICK x \in S : t = 0 .. x  BY <1>2
<1>4. ASSUME NEW y \in S, y < x  PROVE FALSE
  <2>1. 0 .. y \subseteq 0 .. x /\ 0 .. y # 0 .. x  BY <1>4
  <2>2. <<0 .. y, 0 .. x>> \in StrictSubsetOrdering(Nat)
    BY <2>1 DEF StrictSubsetOrdering
  <2> QED  BY <1>2, <1>3, <2>2
<1> QED  BY <1>4

(* The same, as Loops takes it. *)
LEMMA LeastMembers == \A S \in SUBSET Nat : S # {} => \E x \in S : \A y \in S : x <= y
BY MinExists

LEMMA MinIn ==
  ASSUME NEW S \in SUBSET Nat, S # {}
  PROVE  Min(S) \in S /\ \A y \in S : Min(S) <= y
BY MinExists DEF Min

(* A bounded one has a greatest element: reflect it. *)
LEMMA MaxIn ==
  ASSUME NEW n \in Nat, NEW S \in SUBSET (0 .. n), S # {}
  PROVE  Max(S) \in S /\ \A y \in S : y <= Max(S)
<1> DEFINE R == {n - x : x \in S}
<1>1. R \in SUBSET Nat /\ R # {}
  <2>1. \A x \in S : n - x \in Nat  OBVIOUS
  <2> QED  BY <2>1
<1>2. PICK r \in R : \A y \in R : r <= y  BY <1>1, MinExists
<1>3. PICK x \in S : r = n - x  BY <1>2
<1>4. \A y \in S : y <= x
  <2> TAKE y \in S
  <2>1. n - x <= n - y  BY <1>2, <1>3
  <2> QED  BY <2>1
<1> QED  BY <1>4 DEF Max

-----------------------------------------------------------------------------
(* Lists. *)

(* What RemoveAt leaves, by index. *)
LEMMA RemoveAtProperties ==
  ASSUME NEW S, NEW list \in Seq(S), NEW i \in 1 .. Len(list)
  PROVE  /\ RemoveAt(list, i) \in Seq(S)
         /\ Len(RemoveAt(list, i)) = Len(list) - 1
         /\ \A j \in 1 .. Len(list) - 1 :
              RemoveAt(list, i)[j] = IF j < i THEN list[j] ELSE list[j + 1]
<1> DEFINE l == SubSeq(list, 1, i - 1)
           r == SubSeq(list, i + 1, Len(list))
<1>1. i \in 1 .. Len(list) /\ Len(list) \in Nat  OBVIOUS
<1>3. /\ l \in Seq(S) /\ Len(l) = i - 1 /\ \A j \in 1 .. i - 1 : l[j] = list[j]
  <2>1. i - 1 \in Int /\ \A j \in 1 .. i - 1 : list[j] \in S  BY <1>1
  <2> QED  BY <1>1, <2>1, SubSeqProperties
<1>4. /\ r \in Seq(S) /\ Len(r) = Len(list) - i
      /\ \A j \in 1 .. Len(list) - i : r[j] = list[i + j]
  <2>1. i + 1 \in Int /\ \A j \in i + 1 .. Len(list) : list[j] \in S  BY <1>1
  <2> QED  BY <1>1, <2>1, SubSeqProperties
<1>2. RemoveAt(list, i) = l \o r  BY DEF RemoveAt
<1> HIDE DEF l, r
<1>5. /\ l \o r \in Seq(S) /\ Len(l \o r) = Len(list) - 1
      /\ \A j \in 1 .. Len(l) + Len(r) :
           (l \o r)[j] = IF j <= Len(l) THEN l[j] ELSE r[j - Len(l)]
  <2>1. Len(l) + Len(r) = Len(list) - 1  BY <1>1, <1>3, <1>4
  <2> QED  BY <1>3, <1>4, <2>1, ConcatProperties
<1>6. ASSUME NEW j \in 1 .. Len(list) - 1
      PROVE  (l \o r)[j] = IF j < i THEN list[j] ELSE list[j + 1]
  <2>0. j \in 1 .. Len(l) + Len(r)  BY <1>1, <1>3, <1>4
  <2>1. CASE j < i  BY <1>1, <1>3, <1>5, <2>0, <2>1
  <2>2. CASE j >= i
    <3>1. j - (i - 1) \in 1 .. Len(list) - i /\ i + (j - (i - 1)) = j + 1  BY <1>1, <2>2
    <3>2. (l \o r)[j] = r[j - (i - 1)]  BY <1>1, <1>3, <1>5, <2>0, <2>2
    <3>3. r[j - (i - 1)] = list[i + (j - (i - 1))]
      <4>1. \A k \in 1 .. Len(list) - i : r[k] = list[i + k]  BY <1>4
      <4> QED  BY <3>1, <4>1
    <3>4. (l \o r)[j] = list[j + 1]  BY <3>1, <3>2, <3>3
    <3>5. ~(j < i)  BY <1>1, <2>2
    <3> QED  BY <3>4, <3>5
  <2>3. j < i \/ j >= i  BY <1>1
  <2> QED  BY <2>1, <2>2, <2>3
<1> QED  BY <1>2, <1>5, <1>6

LEMMA WithoutType ==
  ASSUME NEW S, NEW list \in Seq(S), NEW c
  PROVE  /\ Without(list, c) \in Seq(S)
         /\ c \in ToSet(list) => Len(Without(list, c)) = Len(list) - 1
<1>1. CASE c \in ToSet(list)
  <2> DEFINE i == CHOOSE i \in DOMAIN list : list[i] = c
  <2>1. i \in 1 .. Len(list)  BY <1>1 DEF ToSet
  <2> HIDE DEF i
  <2>2. RemoveAt(list, i) \in Seq(S) /\ Len(RemoveAt(list, i)) = Len(list) - 1
    BY <2>1, RemoveAtProperties
  <2> USE DEF i
  <2> QED  BY <1>1, <2>2 DEF Without
<1>2. CASE c \notin ToSet(list)  BY <1>2 DEF Without
<1> QED  BY <1>1, <1>2

LEMMA WithoutAt ==
  ASSUME NEW S, NEW list \in Seq(S), NEW c \in ToSet(list)
  PROVE  \E i \in 1 .. Len(list) :
           /\ list[i] = c
           /\ \A j \in 1 .. Len(list) - 1 :
                Without(list, c)[j] = IF j < i THEN list[j] ELSE list[j + 1]
<1> DEFINE i == CHOOSE i \in DOMAIN list : list[i] = c
<1>1. i \in 1 .. Len(list) /\ list[i] = c  BY DEF ToSet
<1>2. Without(list, c) = RemoveAt(list, i)  BY DEF Without
<1> HIDE DEF i
<1>3. \A j \in 1 .. Len(list) - 1 :
        RemoveAt(list, i)[j] = IF j < i THEN list[j] ELSE list[j + 1]
  BY <1>1, RemoveAtProperties
<1> QED  BY <1>1, <1>2, <1>3

LEMMA InsertAtType ==
  ASSUME NEW S, NEW list \in Seq(S), NEW i \in 1 .. Len(list) + 1, NEW c \in S
  PROVE  InsertAt(list, i, c) \in Seq(S)
<1>1. SubSeq(list, 1, i - 1) \in Seq(S)
  <2>1. i - 1 \in Int /\ \A j \in 1 .. i - 1 : list[j] \in S  OBVIOUS
  <2> QED  BY <2>1, SubSeqProperties
<1>2. SubSeq(list, i, Len(list)) \in Seq(S)
  <2>1. i \in Int /\ \A j \in i .. Len(list) : list[j] \in S  OBVIOUS
  <2> QED  BY <2>1, SubSeqProperties
<1> QED  BY <1>1, <1>2 DEF InsertAt

LEMMA ToHeadType ==
  ASSUME NEW S, NEW list \in Seq(S), NEW c \in S
  PROVE  ToHead(list, c) \in Seq(S)
BY WithoutType DEF ToHead

LEMMA WithoutSet ==
  ASSUME NEW S, NEW list \in Seq(S), NEW c
  PROVE  /\ ToSet(Without(list, c)) \subseteq ToSet(list)
         /\ ToSet(list) \ {c} \subseteq ToSet(Without(list, c))
         /\ IsInjective(list) => /\ ToSet(Without(list, c)) = ToSet(list) \ {c}
                                 /\ IsInjective(Without(list, c))
<1>1. CASE c \notin ToSet(list)  BY <1>1 DEF Without
<1>2. CASE c \in ToSet(list)
  <2> DEFINE w == Without(list, c)
  <2>1. w \in Seq(S) /\ Len(w) = Len(list) - 1 /\ Len(list) \in Nat
    BY <1>2, WithoutType
  <2>2. PICK i \in 1 .. Len(list) :
          /\ list[i] = c
          /\ \A j \in 1 .. Len(list) - 1 : w[j] = IF j < i THEN list[j] ELSE list[j + 1]
    BY <1>2, WithoutAt
  <2> HIDE DEF w
  <2>3. DOMAIN w = 1 .. Len(list) - 1 /\ DOMAIN list = 1 .. Len(list)  BY <2>1
  <2>4. ToSet(w) \subseteq ToSet(list)  BY <2>1, <2>2, <2>3 DEF ToSet
  <2>5. ASSUME NEW j \in 1 .. Len(list), j # i  PROVE list[j] \in ToSet(w)
    <3>1. CASE j < i
      <4>1. j \in 1 .. Len(list) - 1 /\ w[j] = list[j]  BY <2>1, <2>2, <3>1
      <4> QED  BY <2>3, <4>1 DEF ToSet
    <3>2. CASE j > i
      <4>1. j - 1 \in 1 .. Len(list) - 1 /\ w[j - 1] = list[j]  BY <2>1, <2>2, <3>2
      <4> QED  BY <2>3, <4>1 DEF ToSet
    <3> QED  BY <2>5, <3>1, <3>2
  <2>6. ToSet(list) \ {c} \subseteq ToSet(w)  BY <2>2, <2>3, <2>5 DEF ToSet
  <2>7. ASSUME IsInjective(list)  PROVE c \notin ToSet(w) /\ IsInjective(w)
    <3>1. \A a, b \in 1 .. Len(list) : list[a] = list[b] => a = b
      BY <2>3, <2>7 DEF IsInjective
    <3>2. c \notin ToSet(w)
      <4>1. ASSUME NEW j \in 1 .. Len(list) - 1  PROVE w[j] # c
        <5>1. CASE j < i  BY <2>1, <2>2, <3>1, <5>1
        <5>2. CASE j >= i
          <6>1. w[j] = list[j + 1] /\ j + 1 \in 1 .. Len(list) /\ j + 1 # i
            BY <2>1, <2>2, <5>2
          <6> QED  BY <2>2, <3>1, <6>1
        <5> QED  BY <5>1, <5>2
      <4> QED  BY <2>3, <4>1 DEF ToSet
    <3>3. ASSUME NEW a \in 1 .. Len(list) - 1, NEW b \in 1 .. Len(list) - 1, w[a] = w[b]
          PROVE  a = b
      <4> DEFINE at(j) == IF j < i THEN j ELSE j + 1
      <4>1. \A j \in 1 .. Len(list) - 1 : at(j) \in 1 .. Len(list) /\ w[j] = list[at(j)]
        BY <2>1, <2>2
      <4>2. at(a) = at(b)  BY <3>1, <3>3, <4>1
      <4> QED  BY <2>1, <4>2
    <3> QED  BY <2>3, <3>2, <3>3 DEF IsInjective
  <2> QED  BY <2>4, <2>6, <2>7 DEF w
<1> QED  BY <1>1, <1>2

(* A new end. *)
LEMMA AppendSet ==
  ASSUME NEW S, NEW list \in Seq(S), NEW c \in S
  PROVE  /\ ToSet(Append(list, c)) = ToSet(list) \cup {c}
         /\ IsInjective(list) /\ c \notin ToSet(list) => IsInjective(Append(list, c))
<1> DEFINE t == Append(list, c)
<1>1. /\ t \in Seq(S) /\ Len(t) = Len(list) + 1 /\ t[Len(list) + 1] = c
      /\ \A j \in 1 .. Len(list) : t[j] = list[j]
  BY AppendProperties
<1>2. /\ Len(list) \in Nat /\ DOMAIN list = 1 .. Len(list)
      /\ DOMAIN t = 1 .. Len(list) + 1
  BY <1>1
<1> HIDE DEF t
<1>3. ToSet(t) = ToSet(list) \cup {c}
  <2>1. ToSet(t) \subseteq ToSet(list) \cup {c}
    <3>1. \A j \in 1 .. Len(list) + 1 : j = Len(list) + 1 \/ j \in 1 .. Len(list)  BY <1>2
    <3> QED  BY <1>1, <1>2, <3>1 DEF ToSet
  <2>2. ASSUME NEW j \in 1 .. Len(list)  PROVE list[j] \in ToSet(t)
    <3>1. j \in DOMAIN t /\ t[j] = list[j]  BY <1>1, <1>2
    <3> QED  BY <3>1 DEF ToSet
  <2>3. c \in ToSet(t)  BY <1>1, <1>2 DEF ToSet
  <2> QED  BY <1>2, <2>1, <2>2, <2>3 DEF ToSet
<1>4. ASSUME IsInjective(list), c \notin ToSet(list)  PROVE IsInjective(t)
  <2>1. \A a, b \in 1 .. Len(list) : list[a] = list[b] => a = b  BY <1>2, <1>4 DEF IsInjective
  <2>2. \A a \in 1 .. Len(list) : list[a] # c  BY <1>2, <1>4 DEF ToSet
  <2>3. ASSUME NEW a \in 1 .. Len(list) + 1, NEW b \in 1 .. Len(list) + 1, t[a] = t[b]
        PROVE  a = b
    <3>1. ASSUME NEW j \in 1 .. Len(list) + 1, j # Len(list) + 1
          PROVE  j \in 1 .. Len(list) /\ t[j] = list[j]
      <4>1. j \in 1 .. Len(list)  BY <1>2, <3>1
      <4> QED  BY <1>1, <4>1
    <3> QED  BY <1>1, <2>1, <2>2, <2>3, <3>1
  <2> QED  BY <1>2, <2>3 DEF IsInjective
<1> QED  BY <1>3, <1>4 DEF t

(* A new head. *)
LEMMA HeadSet ==
  ASSUME NEW S, NEW list \in Seq(S), NEW c \in S
  PROVE  /\ ToSet(<<c>> \o list) = ToSet(list) \cup {c}
         /\ IsInjective(list) /\ c \notin ToSet(list) => IsInjective(<<c>> \o list)
         /\ Len(<<c>> \o list) = Len(list) + 1
         /\ (<<c>> \o list)[1] = c
         /\ \A j \in 1 .. Len(list) : (<<c>> \o list)[j + 1] = list[j]
<1> DEFINE h == <<c>> \o list
<1>1. /\ h \in Seq(S) /\ Len(h) = Len(list) + 1 /\ h[1] = c
      /\ \A j \in 1 .. Len(list) : h[j + 1] = list[j]
  <2>1. <<c>> \in Seq(S) /\ Len(<<c>>) = 1 /\ <<c>>[1] = c  OBVIOUS
  <2>2. h \in Seq(S) /\ Len(h) = 1 + Len(list)
        /\ \A j \in 1 .. 1 + Len(list) : h[j] = IF j <= 1 THEN <<c>>[j] ELSE list[j - 1]
    BY <2>1, ConcatProperties
  <2>3. \A j \in 1 .. Len(list) : j + 1 \in 1 .. 1 + Len(list) /\ j + 1 > 1 /\ (j + 1) - 1 = j
    OBVIOUS
  <2> HIDE DEF h
  <2> QED  BY <2>1, <2>2, <2>3
<1>2. /\ Len(list) \in Nat /\ DOMAIN list = 1 .. Len(list)
      /\ DOMAIN h = 1 .. Len(list) + 1
  BY <1>1
<1> HIDE DEF h
<1>3. ToSet(h) = ToSet(list) \cup {c}
  <2>1. ASSUME NEW j \in 1 .. Len(list) + 1  PROVE h[j] \in ToSet(list) \cup {c}
    <3>1. CASE j = 1  BY <1>1, <3>1
    <3>2. CASE j # 1
      <4>1. j - 1 \in 1 .. Len(list) /\ (j - 1) + 1 = j  BY <1>2, <3>2
      <4>2. h[j] = list[j - 1]  BY <1>1, <4>1
      <4> QED  BY <1>2, <4>1, <4>2 DEF ToSet
    <3> QED  BY <3>1, <3>2
  <2>2. ToSet(h) \subseteq ToSet(list) \cup {c}  BY <1>2, <2>1 DEF ToSet
  <2>3. ASSUME NEW j \in 1 .. Len(list)  PROVE list[j] \in ToSet(h)
    <3>1. j + 1 \in DOMAIN h /\ h[j + 1] = list[j]  BY <1>1, <1>2
    <3> QED  BY <3>1 DEF ToSet
  <2>4. c \in ToSet(h)  BY <1>1, <1>2 DEF ToSet
  <2> QED  BY <1>2, <2>2, <2>3, <2>4 DEF ToSet
<1>4. ASSUME IsInjective(list), c \notin ToSet(list)  PROVE IsInjective(h)
  <2>1. \A a, b \in 1 .. Len(list) : list[a] = list[b] => a = b  BY <1>2, <1>4 DEF IsInjective
  <2>2. \A a \in 1 .. Len(list) : list[a] # c  BY <1>2, <1>4 DEF ToSet
  <2>3. ASSUME NEW a \in 1 .. Len(list) + 1, NEW b \in 1 .. Len(list) + 1, h[a] = h[b]
        PROVE  a = b
    <3>1. ASSUME NEW j \in 1 .. Len(list) + 1, j # 1
          PROVE  j - 1 \in 1 .. Len(list) /\ h[j] = list[j - 1]
      <4>1. j - 1 \in 1 .. Len(list) /\ (j - 1) + 1 = j  BY <1>2, <3>1
      <4> QED  BY <1>1, <4>1
    <3>2. CASE a = 1  BY <1>1, <2>2, <2>3, <3>1, <3>2
    <3>3. CASE b = 1  BY <1>1, <2>2, <2>3, <3>1, <3>3
    <3>4. CASE a # 1 /\ b # 1
      <4>1. a - 1 = b - 1  BY <2>1, <2>3, <3>1, <3>4
      <4> QED  BY <4>1
    <3> QED  BY <3>2, <3>3, <3>4
  <2> QED  BY <1>2, <2>3 DEF IsInjective
<1> QED  BY <1>1, <1>3, <1>4 DEF h

LEMMA ToHeadSet ==
  ASSUME NEW S, NEW list \in Seq(S), NEW c \in S
  PROVE  /\ ToSet(ToHead(list, c)) = ToSet(list) \cup {c}
         /\ IsInjective(list) => IsInjective(ToHead(list, c))
<1>1. Without(list, c) \in Seq(S)  BY WithoutType
<1>2. ToSet(Without(list, c)) \cup {c} = ToSet(list) \cup {c}  BY WithoutSet
<1>3. IsInjective(list) => IsInjective(Without(list, c)) /\ c \notin ToSet(Without(list, c))
  BY WithoutSet
<1> QED  BY <1>1, <1>2, <1>3, HeadSet DEF ToHead

LEMMA InsertAtSet ==
  ASSUME NEW S, NEW list \in Seq(S), NEW i \in 1 .. Len(list) + 1, NEW c \in S
  PROVE  /\ ToSet(InsertAt(list, i, c)) = ToSet(list) \cup {c}
         /\ IsInjective(list) /\ c \notin ToSet(list) => IsInjective(InsertAt(list, i, c))
<1> DEFINE n == Len(list)
           l == SubSeq(list, 1, i - 1)
           r == SubSeq(list, i, n)
           w == l \o <<c>> \o r
<1>0. n \in Nat /\ i \in Nat /\ DOMAIN list = 1 .. n  OBVIOUS
<1>1. l \in Seq(S) /\ Len(l) = i - 1 /\ \A j \in 1 .. i - 1 : l[j] = list[j]
  <2>1. i - 1 \in Int /\ \A j \in 1 .. i - 1 : list[j] \in S  OBVIOUS
  <2> QED  BY <1>0, <2>1, SubSeqProperties
<1>2. /\ r \in Seq(S) /\ Len(r) = n + 1 - i
      /\ \A j \in 1 .. n + 1 - i : r[j] = list[i + j - 1]
  <2>1. \A j \in i .. n : list[j] \in S  OBVIOUS
  <2> QED  BY <1>0, <2>1, SubSeqProperties
<1>3. /\ l \o <<c>> \in Seq(S) /\ Len(l \o <<c>>) = i
      /\ \A j \in 1 .. i - 1 : (l \o <<c>>)[j] = list[j]
      /\ (l \o <<c>>)[i] = c
  <2>1. l \o <<c>> = Append(l, c)  BY <1>1, AppendIsConcat
  <2> HIDE DEF l
  <2>2. Len(Append(l, c)) = i  BY <1>0, <1>1, AppendProperties
  <2>3. Append(l, c)[i] = c  BY <1>0, <1>1, AppendProperties
  <2>4. \A j \in 1 .. i - 1 : Append(l, c)[j] = list[j]  BY <1>1, AppendProperties
  <2> QED  BY <1>1, <2>1, <2>2, <2>3, <2>4, AppendProperties
<1> DEFINE h == l \o <<c>>
<1> HIDE DEF l, r
<1>4. /\ w \in Seq(S) /\ Len(w) = n + 1
      /\ \A j \in 1 .. n + 1 : w[j] = IF j <= i THEN h[j] ELSE r[j - i]
  <2> HIDE DEF h
  <2>1. h \in Seq(S) /\ Len(h) = i  BY <1>3 DEF h
  <2>2. w = h \o r  BY DEF h
  <2>3. Len(h) + Len(r) = n + 1  BY <1>0, <1>2, <2>1
  <2>4. /\ h \o r \in Seq(S) /\ Len(h \o r) = Len(h) + Len(r)
        /\ \A j \in 1 .. Len(h) + Len(r) :
             (h \o r)[j] = IF j <= Len(h) THEN h[j] ELSE r[j - Len(h)]
    BY <1>2, <2>1, ConcatProperties
  <2> HIDE DEF w, n
  <2> QED  BY <2>1, <2>2, <2>3, <2>4
<1>5. ASSUME NEW j \in 1 .. n + 1
      PROVE  w[j] = IF j < i THEN list[j] ELSE IF j = i THEN c ELSE list[j - 1]
  <2> HIDE DEF w, h
  <2>1. CASE j < i
    <3>1. j \in 1 .. i - 1  BY <1>0, <2>1
    <3>2. w[j] = h[j]  BY <1>0, <1>4, <2>1
    <3> QED  BY <1>3, <2>1, <3>1, <3>2 DEF h
  <2>2. CASE j = i
    <3>1. w[j] = h[j]  BY <1>0, <1>4, <2>2
    <3> QED  BY <1>3, <2>2, <3>1 DEF h
  <2>3. CASE j > i
    <3>1. w[j] = r[j - i]  BY <1>0, <1>4, <2>3
    <3>2. j - i \in 1 .. n + 1 - i /\ i + (j - i) - 1 = j - 1  BY <1>0, <2>3
    <3> QED  BY <1>0, <1>2, <2>3, <3>1, <3>2
  <2>4. j < i \/ j = i \/ j > i  BY <1>0
  <2> QED  BY <2>1, <2>2, <2>3, <2>4
<1> HIDE DEF w, n
<1>6. DOMAIN w = 1 .. n + 1  BY <1>4
<1>7. ToSet(w) = ToSet(list) \cup {c}
  <2>1. ASSUME NEW j \in 1 .. n + 1  PROVE w[j] \in ToSet(list) \cup {c}
    <3>1. j < i => j \in DOMAIN list  BY <1>0
    <3>2. j > i => j - 1 \in DOMAIN list  BY <1>0
    <3>3. j < i \/ j = i \/ j > i  BY <1>0
    <3> QED  BY <1>5, <3>1, <3>2, <3>3 DEF ToSet
  <2>2. ASSUME NEW j \in 1 .. n  PROVE list[j] \in ToSet(w)
    <3>1. CASE j < i
      <4>1. j \in 1 .. n + 1 /\ w[j] = list[j]  BY <1>0, <1>5, <3>1
      <4> QED  BY <1>6, <4>1 DEF ToSet
    <3>2. CASE j >= i
      <4>1. j + 1 \in 1 .. n + 1 /\ (j + 1) - 1 = j /\ j + 1 > i  BY <1>0, <3>2
      <4>2. w[j + 1] = list[j]  BY <1>0, <1>5, <4>1
      <4> QED  BY <1>6, <4>1, <4>2 DEF ToSet
    <3>3. j < i \/ j >= i  BY <1>0
    <3> QED  BY <3>1, <3>2, <3>3
  <2>3. c \in ToSet(w)
    <3>1. i \in 1 .. n + 1 /\ w[i] = c  BY <1>0, <1>5 DEF n
    <3> QED  BY <1>6, <3>1 DEF ToSet
  <2> QED  BY <1>0, <1>6, <2>1, <2>2, <2>3 DEF ToSet
<1>8. ASSUME IsInjective(list), c \notin ToSet(list)  PROVE IsInjective(w)
  <2>1. \A a, b \in 1 .. n : list[a] = list[b] => a = b  BY <1>0, <1>8 DEF IsInjective
  <2>2. \A a \in 1 .. n : list[a] # c  BY <1>0, <1>8 DEF ToSet
  <2> DEFINE at(j) == IF j < i THEN j ELSE j - 1
  <2>3. ASSUME NEW j \in 1 .. n + 1, j # i
        PROVE  at(j) \in 1 .. n /\ w[j] = list[at(j)]
    <3>1. j < i \/ j > i  BY <1>0, <2>3
    <3> QED  BY <1>0, <1>5, <2>3, <3>1 DEF n
  <2>4. ASSUME NEW a \in 1 .. n + 1, NEW b \in 1 .. n + 1, w[a] = w[b]  PROVE a = b
    <3>1. w[i] = c  BY <1>0, <1>5 DEF n
    <3>2. CASE a = i \/ b = i  BY <2>2, <2>3, <2>4, <3>1, <3>2
    <3>3. CASE a # i /\ b # i
      <4>1. at(a) = at(b)
        <5> HIDE DEF at
        <5> QED  BY <2>1, <2>3, <2>4, <3>3
      <4> QED  BY <1>0, <3>3, <4>1
    <3> QED  BY <3>2, <3>3
  <2> QED  BY <1>6, <2>4 DEF IsInjective
<1> QED  BY <1>7, <1>8 DEF InsertAt, w, l, r, n
=============================================================================
