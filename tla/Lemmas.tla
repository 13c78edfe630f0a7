------------------------------- MODULE Lemmas --------------------------------
(***************************************************************************)
(* What the proofs of several modules rest on and no library states: least *)
(* elements, induction over an interval in a form that needs no operator   *)
(* as a parameter, the existence of recursively defined functions, and     *)
(* sequences by their elements.                                            *)
(***************************************************************************)
EXTENDS Integers, Sequences, SequenceTheorems, WellFoundedInduction, TLAPS

(* A set of natural numbers has a least element.                           *)
LEMMA LeastExists ==
  ASSUME NEW S \in SUBSET Nat, S # {}
  PROVE  \E m \in S : \A k \in S : m <= k
<1> DEFINE Below == OpToRel(<, Nat)
<1>1. Below = {s \in Nat \X Nat : s[1] < s[2]}
  BY Zenon DEF OpToRel
<1>2. IsWellFoundedOn(Below, Nat)
  BY NatLessThanWellFounded, Zenon
<1> HIDE DEF Below
<1>3. PICK m \in S : \A k \in S : ~ (<<k, m>> \in Below)
  BY <1>2, WFMin, Zenon
<1>4. \A k \in S : <<k, m>> \in Nat \X Nat /\ <<k, m>>[1] = k /\ <<k, m>>[2] = m
  OBVIOUS
<1>5. \A k \in S : ~ (k < m)
  BY <1>1, <1>3, <1>4
<1> QED  BY <1>5

(* Induction over an interval, and functions that it defines. *)
LEMMA IntervalInduction ==
  ASSUME NEW N \in Nat, NEW P, 0 \in P, \A n \in 1..N : n - 1 \in P => n \in P
  PROVE  0..N \subseteq P
<1> DEFINE Bad == {n \in 0..N : n \notin P}
<1> SUFFICES ASSUME Bad # {}
             PROVE  FALSE
  OBVIOUS
<1>1. PICK m \in Bad : \A k \in Bad : m <= k
  <2>1. Bad \in SUBSET Nat
    OBVIOUS
  <2> HIDE DEF Bad
  <2> QED  BY <2>1, LeastExists
<1>2. m \in 1..N /\ m - 1 \in 0..N /\ ~ (m <= m - 1) /\ m \notin P
  OBVIOUS
<1>3. m - 1 \in P
  BY <1>1, <1>2
<1> QED  BY <1>2, <1>3

(* Step n of an iteration, as a function from values to values.           *)
Steps(S) == [Nat -> [S -> S]]

(* f is what N steps make of c.                                            *)
Iterates(f, N, c, step) == f[0] = c /\ \A n \in 1..N : f[n] = step[n][f[n - 1]]

(* The function that a recursive definition over 0..N chooses exists.      *)
LEMMA Iteration ==
  ASSUME NEW N \in Nat, NEW S, NEW c \in S, NEW step \in Steps(S)
  PROVE  \E f \in [0..N -> S] : Iterates(f, N, c, step)
<1> DEFINE Good(m) == \E f \in [0..m -> S] : f[0] = c /\ \A n \in 1..m : f[n] = step[n][f[n - 1]]
           Bad == {m \in Nat : ~ Good(m)}
<1>0. step \in [Nat -> [S -> S]]
  BY DEF Steps
<1>1. Good(0)
  <2> DEFINE g == [n \in 0..0 |-> c]
  <2>1. g \in [0..0 -> S] /\ g[0] = c /\ \A n \in 1..0 : g[n] = step[n][g[n - 1]]
    OBVIOUS
  <2> HIDE DEF g
  <2> QED  BY <2>1
<1>2. ASSUME NEW m \in Nat, Good(m)
      PROVE  Good(m + 1)
  <2>1. PICK f \in [0..m -> S] : f[0] = c /\ \A n \in 1..m : f[n] = step[n][f[n - 1]]
    BY <1>2
  <2> DEFINE g == [n \in 0..(m + 1) |-> IF n = m + 1 THEN step[m + 1][f[m]] ELSE f[n]]
  <2>2. step[m + 1][f[m]] \in S
    BY <1>0
  <2>3. g \in [0..(m + 1) -> S]
    BY <2>2
  <2>4. g[0] = c
    BY <2>1
  <2>5. ASSUME NEW n \in 1..(m + 1)
        PROVE  g[n] = step[n][g[n - 1]]
    <3>1. CASE n = m + 1
      <4>1. g[n] = step[m + 1][f[m]] /\ n - 1 = m /\ g[n - 1] = f[m]
        BY <3>1
      <4> HIDE DEF g
      <4> QED  BY <3>1, <4>1
    <3>2. CASE n # m + 1
      <4>1. n \in 1..m /\ n - 1 \in 0..m /\ g[n] = f[n] /\ g[n - 1] = f[n - 1]
        BY <3>2
      <4> HIDE DEF g
      <4> QED  BY <2>1, <4>1
    <3> QED  BY <3>1, <3>2
  <2> HIDE DEF g
  <2> QED  BY <2>3, <2>4, <2>5
<1>3. Bad = {}
  <2> SUFFICES ASSUME Bad # {}
               PROVE  FALSE
    OBVIOUS
  <2>1. PICK m \in Bad : \A k \in Bad : m <= k
    <3>1. Bad \in SUBSET Nat
      OBVIOUS
    <3> HIDE DEF Bad
    <3> QED  BY <3>1, LeastExists
  <2>2. m \in Nat /\ ~ Good(m)
    OBVIOUS
  <2> HIDE DEF Good
  <2>3. m # 0
    BY <1>1, <2>2
  <2>4. m - 1 \in Nat /\ ~ (m <= m - 1) /\ (m - 1) + 1 = m
    BY <2>2, <2>3
  <2>5. Good(m - 1)
    BY <2>1, <2>4
  <2> QED  BY <1>2, <2>2, <2>4, <2>5
<1>4. Good(N)
  BY <1>3
<1> QED  BY <1>4 DEF Iterates

-----------------------------------------------------------------------------
(* Sequences, by their elements.                                           *)

LEMMA SequenceByIndex ==
  ASSUME NEW T, NEW n \in Nat, NEW f \in [1..n -> T]
  PROVE  f \in Seq(T) /\ Len(f) = n /\ DOMAIN f = 1..n
<1>1. f \in Seq(T)
  BY SeqDef
<1>2. DOMAIN f = 1..n
  OBVIOUS
<1>3. DOMAIN f = 1..Len(f) /\ Len(f) \in Nat
  BY <1>1, LenProperties
<1>4. QED  BY <1>1, <1>2, <1>3

LEMMA AppendElements ==
  ASSUME NEW T, NEW s \in Seq(T), NEW e \in T
  PROVE  /\ Append(s, e) \in Seq(T) /\ Len(Append(s, e)) = Len(s) + 1
         /\ DOMAIN s = 1..Len(s) /\ DOMAIN Append(s, e) = 1..(Len(s) + 1)
         /\ \A k \in 1..Len(s) : Append(s, e)[k] = s[k]
         /\ Append(s, e)[Len(s) + 1] = e
         /\ Len(s) \in Nat /\ Append(s, e) # << >>
  BY AppendProperties, LenProperties

LEMMA FrontElements ==
  ASSUME NEW T, NEW s \in Seq(T), s # << >>
  PROVE  LET front == SubSeq(s, 1, Len(s) - 1)
         IN  /\ front \in Seq(T) /\ Len(front) = Len(s) - 1
             /\ DOMAIN s = 1..Len(s) /\ DOMAIN front = 1..(Len(s) - 1)
             /\ \A k \in 1..(Len(s) - 1) : front[k] = s[k]
             /\ Len(s) \in Nat \ {0} /\ s[Len(s)] \in T
             /\ front # << >> => Len(s) > 1
<1> DEFINE n == Len(s)
           front == SubSeq(s, 1, n - 1)
<1>1. n \in Nat /\ n # 0 /\ DOMAIN s = 1..n
  BY LenProperties, EmptySeq
<1>2. \A k \in 1..(n - 1) : s[k] \in T
  BY <1>1, ElementOfSeq
<1>3. front \in Seq(T) /\ Len(front) = n - 1 /\ DOMAIN front = 1..(n - 1)
      /\ \A k \in 1..(n - 1) : front[k] = s[k]
  BY <1>1, <1>2, SubSeqProperties
<1>4. s[n] \in T
  BY <1>1, ElementOfSeq
<1>5. n = 1 => front = << >>
  BY <1>3, EmptySeq
<1>6. QED  BY <1>1, <1>3, <1>4, <1>5
==============================================================================
