------------------------------- MODULE Loops -------------------------------
(***************************************************************************)
(* What a loop over a list keeps.  g0wm walks its lists with wl_list_for_  *)
(* each_safe and calls a function for every member; the models write such  *)
(* a loop as a FoldLeft of the function over the list.  The induction over *)
(* the turns of a loop is done here once, for any function Turn and any    *)
(* invariant Inv, and the other modules instantiate it for each loop.  As   *)
(* each instance is a copy, this module takes in no other theorems: that a *)
(* set of naturals has a least member is a hypothesis here, and            *)
(* LeastMembers of ListProofs where the module is used.                    *)
(***************************************************************************)
EXTENDS Integers, Sequences

CONSTANTS
  Turn(_, _, _), (* what the turn for y makes of s, given the context a      *)
  Inv(_, _, _)   (* in the context a, true of s once i turns are done        *)

-----------------------------------------------------------------------------
WellOrdered == \A S \in SUBSET Nat : S # {} => \E x \in S : \A y \in S : x <= y

Greatest(S) == CHOOSE x \in S : \A y \in S : x >= y

(* A bounded set has a greatest member: reflect it. *)
LEMMA GreatestIn ==
  ASSUME WellOrdered, NEW n \in Nat, NEW S \in SUBSET (0 .. n), S # {}
  PROVE  Greatest(S) \in S /\ \A y \in S : y <= Greatest(S)
<1> DEFINE R == {n - x : x \in S}
<1>1. R \in SUBSET Nat /\ R # {}
  <2>1. \A x \in S : n - x \in Nat  OBVIOUS
  <2> QED  BY <2>1
<1>2. PICK r \in R : \A y \in R : r <= y
  <2> HIDE DEF R
  <2> QED  BY <1>1 DEF WellOrdered
<1>3. PICK x \in S : r = n - x  BY <1>2
<1>4. \A y \in S : y <= x
  <2> TAKE y \in S
  <2>1. n - x <= n - y  BY <1>2, <1>3
  <2> QED  BY <2>1
<1>5. \A y \in S : x >= y  BY <1>4
<1> QED  BY <1>5 DEF Greatest

(* FoldLeft(LAMBDA s, y : Turn(a, s, y), base, list), by its definition. *)
Fold(a, base, list) ==
  LET iter[S \in SUBSET DOMAIN list] ==
        IF S = {} THEN base ELSE Turn(a, iter[S \ {Greatest(S)}], list[Greatest(S)])
  IN  iter[DOMAIN list]

(* The function that Fold computes with: what the loop makes of base
   when it takes the members of list at the places in S. *)
Partial(a, base, list, n, g) ==
  g = [S \in SUBSET (1 .. n) |->
         IF S = {} THEN base ELSE Turn(a, g[S \ {Greatest(S)}], list[Greatest(S)])]

(* Such a function exists: for one turn more, add that turn. *)
LEMMA PartialExists ==
  ASSUME WellOrdered, NEW a, NEW base, NEW list, NEW n \in Nat
  PROVE  \E g : Partial(a, base, list, n, g)
<1> DEFINE Bad == {k \in Nat : ~\E g : Partial(a, base, list, k, g)}
<1>1. ASSUME Bad # {}  PROVE FALSE
  <2>1. PICK k \in Bad : \A j \in Bad : k <= j  BY <1>1 DEF WellOrdered
  <2>2. CASE k = 0
    <3>1. SUBSET (1 .. 0) = {{}}  OBVIOUS
    <3> DEFINE g == [S \in {{}} |-> base]
    <3>2. g = [S \in {{}} |-> IF S = {} THEN base
                               ELSE Turn(a, g[S \ {Greatest(S)}], list[Greatest(S)])]
      OBVIOUS
    <3>3. Partial(a, base, list, 0, g)
      <4> HIDE DEF g
      <4> QED  BY <3>1, <3>2 DEF Partial
    <3> QED  BY <2>1, <2>2, <3>3
  <2>3. CASE k # 0
    <3>0. k \in Nat /\ k - 1 \in Nat /\ ~(k <= k - 1)  BY <2>1, <2>3
    <3>1. k - 1 \notin Bad  BY <2>1, <3>0
    <3>2. PICK g : Partial(a, base, list, k - 1, g)  BY <3>0, <3>1
    <3> DEFINE h == [S \in SUBSET (1 .. k) |->
                       IF k \in S THEN Turn(a, g[S \ {k}], list[k]) ELSE g[S]]
               Next(S) == IF S = {} THEN base
                          ELSE Turn(a, h[S \ {Greatest(S)}], list[Greatest(S)])
    <3>3. ASSUME NEW S \in SUBSET (1 .. k)  PROVE h[S] = Next(S)
      <4>1. CASE k \in S
        <5>0. S \in SUBSET (0 .. k) /\ S # {}  BY <3>0, <4>1
        <5>1. S # {} /\ Greatest(S) \in S /\ k <= Greatest(S)
          BY <3>0, <4>1, <5>0, GreatestIn
        <5>2. Greatest(S) \in 1 .. k  BY <5>1
        <5>3. Greatest(S) = k  BY <3>0, <5>1, <5>2
        <5>4. S \ {k} \in SUBSET (1 .. k) /\ k \notin S \ {k}  OBVIOUS
        <5>5. h[S \ {k}] = g[S \ {k}]  BY <5>4
        <5>6. h[S] = Turn(a, g[S \ {k}], list[k])  BY <4>1
        <5>7. Next(S) = Turn(a, h[S \ {Greatest(S)}], list[Greatest(S)])  BY <5>1
        <5> HIDE DEF h, Next
        <5> QED  BY <5>3, <5>5, <5>6, <5>7
      <4>2. CASE k \notin S /\ S = {}
        <5>1. S \in SUBSET (1 .. (k - 1))  BY <4>2
        <5>2. g[S] = base  BY <3>2, <4>2, <5>1 DEF Partial
        <5> QED  BY <4>2, <5>2
      <4>3. CASE k \notin S /\ S # {}
        <5>0. S \in SUBSET (0 .. k)  BY <3>0
        <5>1. Greatest(S) \in S  BY <3>0, <4>3, <5>0, GreatestIn
        <5>2. S \in SUBSET (1 .. (k - 1))
          <6>1. \A i \in 1 .. k : i # k => i \in 1 .. (k - 1)  BY <3>0
          <6> QED  BY <4>3, <6>1
        <5>3. S \ {Greatest(S)} \in SUBSET (1 .. (k - 1))  BY <5>2
        <5>4. g[S] = Turn(a, g[S \ {Greatest(S)}], list[Greatest(S)])
          BY <3>2, <4>3, <5>2 DEF Partial
        <5>5. h[S] = g[S]  BY <4>3
        <5>6. S \ {Greatest(S)} \in SUBSET (1 .. k) /\ k \notin S \ {Greatest(S)}  BY <4>3
        <5>7. h[S \ {Greatest(S)}] = g[S \ {Greatest(S)}]  BY <5>6
        <5>8. Next(S) = Turn(a, h[S \ {Greatest(S)}], list[Greatest(S)])  BY <4>3
        <5> HIDE DEF h, Next
        <5> QED  BY <5>4, <5>5, <5>7, <5>8
      <4> QED  BY <4>1, <4>2, <4>3
    <3>4. h = [S \in SUBSET (1 .. k) |-> h[S]]  OBVIOUS
    <3>5. h = [S \in SUBSET (1 .. k) |-> Next(S)]
      <4> HIDE DEF h, Next
      <4> QED  BY <3>3, <3>4
    <3>6. Partial(a, base, list, k, h)
      <4> HIDE DEF h
      <4> QED  BY <3>5 DEF Partial
    <3> HIDE DEF h
    <3> QED  BY <2>1, <3>6
  <2> QED  BY <2>2, <2>3
<1> QED  BY <1>1


(* A function that is computed with that way does one turn per place. *)
LEMMA PartialTurn ==
  ASSUME WellOrdered, NEW a, NEW base, NEW list, NEW n \in Nat, NEW g,
         Partial(a, base, list, n, g)
  PROVE  /\ g[1 .. 0] = base
         /\ \A i \in 1 .. n : g[1 .. i] = Turn(a, g[1 .. (i - 1)], list[i])
<1>1. g[1 .. 0] = base
  <2>1. 1 .. 0 \in SUBSET (1 .. n) /\ 1 .. 0 = {}  OBVIOUS
  <2> QED  BY <2>1 DEF Partial
<1>2. ASSUME NEW i \in 1 .. n  PROVE g[1 .. i] = Turn(a, g[1 .. (i - 1)], list[i])
  <2> DEFINE S == 1 .. i
  <2>1. i \in Nat /\ i \in S /\ S \in SUBSET (1 .. n) /\ S \in SUBSET (0 .. i)
    OBVIOUS
  <2>2. Greatest(S) \in S /\ i <= Greatest(S)
    <3> HIDE DEF S
    <3> QED  BY <2>1, GreatestIn
  <2>3. Greatest(S) = i  BY <2>1, <2>2
  <2>4. S \ {i} = 1 .. (i - 1)  BY <2>1
  <2>5. g[S] = Turn(a, g[S \ {Greatest(S)}], list[Greatest(S)])
    <3> HIDE DEF S
    <3> QED  BY <2>1 DEF Partial
  <2> QED  BY <2>3, <2>4, <2>5
<1> QED  BY <1>1, <1>2

(* Fold is one. *)
LEMMA FoldPartial ==
  ASSUME WellOrdered, NEW a, NEW base, NEW Y, NEW list \in Seq(Y)
  PROVE  \E g : /\ Partial(a, base, list, Len(list), g)
                /\ Fold(a, base, list) = g[1 .. Len(list)]
<1> DEFINE n == Len(list)
           g == CHOOSE f : f = [S \in SUBSET (DOMAIN list) |->
                  IF S = {} THEN base
                  ELSE Turn(a, f[S \ {Greatest(S)}], list[Greatest(S)])]
<1>1. n \in Nat /\ DOMAIN list = 1 .. n  OBVIOUS
<1>2. Fold(a, base, list) = g[DOMAIN list]
  BY DEF Fold
<1>3. \E f : Partial(a, base, list, n, f)  BY <1>1, PartialExists
<1>4. \E f : f = [S \in SUBSET (DOMAIN list) |->
                  IF S = {} THEN base
                  ELSE Turn(a, f[S \ {Greatest(S)}], list[Greatest(S)])]
  BY <1>1, <1>3 DEF Partial
<1>5. g = [S \in SUBSET (DOMAIN list) |->
             IF S = {} THEN base
             ELSE Turn(a, g[S \ {Greatest(S)}], list[Greatest(S)])]
  BY <1>4
<1> HIDE DEF g
<1>6. Partial(a, base, list, n, g)  BY <1>1, <1>5 DEF Partial
<1> QED  BY <1>1, <1>2, <1>6

-----------------------------------------------------------------------------
(* What is true before the first turn and kept by every turn is true after
   the last: the induction over the turns of a loop. *)
LEMMA LoopKeeps ==
  ASSUME \A S \in SUBSET Nat : S # {} => \E x \in S : \A y \in S : x <= y,
         NEW a, NEW base, NEW Y, NEW list \in Seq(Y),
         Inv(a, 0, base),
         \A i \in 1 .. Len(list) : \A s : Inv(a, i - 1, s) =>
           Inv(a, i, Turn(a, s, list[i]))
  PROVE  Inv(a, Len(list), Fold(a, base, list))
<1> DEFINE n == Len(list)
<1>0. WellOrdered  BY DEF WellOrdered
<1>1. n \in Nat  OBVIOUS
<1>2. PICK g : Partial(a, base, list, n, g) /\ Fold(a, base, list) = g[1 .. n]
  BY <1>0, FoldPartial
<1>3. /\ g[1 .. 0] = base
      /\ \A i \in 1 .. n : g[1 .. i] = Turn(a, g[1 .. (i - 1)], list[i])
  BY <1>0, <1>1, <1>2, PartialTurn
<1> DEFINE Bad == {i \in 0 .. n : ~Inv(a, i, g[1 .. i])}
<1>4. ASSUME Bad # {}  PROVE FALSE
  <2>1. Bad \in SUBSET Nat  BY <1>1
  <2>2. PICK k \in Bad : \A j \in Bad : k <= j
    <3> HIDE DEF Bad
    <3> QED  BY <1>0, <1>4, <2>1 DEF WellOrdered
  <2>3. k # 0  BY <1>3, <2>2
  <2>4. k \in 1 .. n /\ k - 1 \in 0 .. n /\ ~(k <= k - 1)  BY <1>1, <2>2, <2>3
  <2>5. Inv(a, k - 1, g[1 .. (k - 1)])  BY <2>2, <2>4
  <2>6. Inv(a, k, Turn(a, g[1 .. (k - 1)], list[k]))  BY <2>4, <2>5
  <2> QED  BY <1>3, <2>2, <2>4, <2>6
<1>5. n \in 0 .. n  BY <1>1
<1> QED  BY <1>2, <1>4, <1>5
=============================================================================
