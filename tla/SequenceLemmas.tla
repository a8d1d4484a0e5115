---------------------------- MODULE SequenceLemmas ----------------------------
(***************************************************************************)
(* For the proofs of the other modules: what the queues of messages and of *)
(* connections in FdPassing and Session hold after something is put at     *)
(* their end or taken from their front; and induction over the numbers,    *)
(* with the functions that are defined by it, for what the loops of the    *)
(* parser compute.                                                         *)
(***************************************************************************)
EXTENDS Integers, Sequences, SequencesExt, WellFoundedInduction, TLAPS

(* x is in s once at most. *)
AtMostOnce(s, x) == \A j, k \in 1..Len(s) : s[j] = x /\ s[k] = x => j = k

(* Nothing is in the empty sequence. *)
LEMMA ContainsEmpty == \A x : ~Contains(<<>>, x)
  BY DEF Contains

(* After Append: what was in it, and the new one. *)
LEMMA ContainsAppend ==
  ASSUME NEW S, NEW s \in Seq(S), NEW m \in S, NEW x
  PROVE  Contains(Append(s, m), x) <=> Contains(s, x) \/ m = x
<1>1. /\ Len(Append(s, m)) = Len(s) + 1 /\ Len(s) \in Nat
      /\ \A k \in 1..Len(s) : Append(s, m)[k] = s[k]
      /\ Append(s, m)[Len(s) + 1] = m
  OBVIOUS
<1> QED
  BY <1>1 DEF Contains

(* Putting in what is not there keeps it there once at most. *)
LEMMA OnceAppend ==
  ASSUME NEW S, NEW s \in Seq(S), NEW m \in S, NEW x, AtMostOnce(s, x),
         m = x => ~Contains(s, x)
  PROVE  AtMostOnce(Append(s, m), x)
<1>1. /\ Len(Append(s, m)) = Len(s) + 1 /\ Len(s) \in Nat
      /\ \A k \in 1..Len(s) : Append(s, m)[k] = s[k]
      /\ Append(s, m)[Len(s) + 1] = m
  OBVIOUS
<1> QED
  BY <1>1 DEF Contains, AtMostOnce

(* What is in a sequence is its head or in its tail. *)
LEMMA ContainsTail ==
  ASSUME NEW S, NEW s \in Seq(S), s # <<>>, NEW x
  PROVE  Contains(s, x) <=> Head(s) = x \/ Contains(Tail(s), x)
<1>1. /\ Len(s) \in Nat \ {0} /\ Len(Tail(s)) = Len(s) - 1 /\ Head(s) = s[1]
      /\ \A k \in 1..Len(Tail(s)) : Tail(s)[k] = s[k + 1]
  OBVIOUS
<1>2. ASSUME NEW k \in 1..Len(s), s[k] = x, k # 1
      PROVE  Contains(Tail(s), x)
  <2>1. k - 1 \in 1..Len(Tail(s)) /\ Tail(s)[k - 1] = s[k]
    BY <1>1, <1>2
  <2> QED
    BY <2>1, <1>2 DEF Contains
<1> QED
  BY <1>1, <1>2 DEF Contains

(* What is there once is gone when it is taken. *)
LEMMA OnceTail ==
  ASSUME NEW S, NEW s \in Seq(S), s # <<>>, NEW x, AtMostOnce(s, x)
  PROVE  AtMostOnce(Tail(s), x) /\ (Head(s) = x => ~Contains(Tail(s), x))
<1>1. /\ Len(s) \in Nat \ {0} /\ Len(Tail(s)) = Len(s) - 1 /\ Head(s) = s[1]
      /\ \A k \in 1..Len(Tail(s)) : Tail(s)[k] = s[k + 1]
  OBVIOUS
<1> QED
  BY <1>1 DEF Contains, AtMostOnce

(* The lowest of a set of numbers is one of them. *)
LEMMA MinIsLowest ==
  ASSUME NEW S \in SUBSET Nat, S # {}
  PROVE  Min(S) \in S /\ \A n \in S : Min(S) <= n
<1> DEFINE Less == {p \in Nat \X Nat : p[1] < p[2]}
<1>1. IsWellFoundedOn(Less, Nat)
  BY NatLessThanWellFounded DEF OpToRel
<1>2. \E m \in S : \A k \in S : <<k, m>> \notin Less
  <2> HIDE DEF Less
  <2> QED
    BY <1>1, WFMin
<1>3. PICK m \in S : \A k \in S : <<k, m>> \notin Less
  BY <1>2
<1>4. ASSUME NEW k \in S PROVE m <= k
  <2>1. ~(<<k, m>>[1] < <<k, m>>[2])
    BY <1>3
  <2> QED
    BY <2>1
<1> QED
  BY <1>4 DEF Min

(* Induction, with a set for the property.                                 *)
LEMMA NatInductive ==
  ASSUME NEW T, 0 \in T, \A n \in Nat : n \in T => n + 1 \in T
  PROVE  Nat \subseteq T
<1> SUFFICES ASSUME Nat \ T # {} PROVE FALSE
  OBVIOUS
<1> DEFINE m == Min(Nat \ T)
<1>1. m \in Nat \ T /\ \A n \in Nat \ T : m <= n
  BY MinIsLowest
<1> HIDE DEF m
<1>2. m # 0 /\ m - 1 \in Nat
  BY <1>1
<1> QED
  BY <1>1, <1>2

(* f starts with base and goes on by step, which is a function for each     *)
(* argument.                                                               *)
Recursive(f, S, lo, hi, base, step) ==
  /\ f \in [lo..hi -> S]
  /\ \A k \in lo..hi : f[k] = IF k = lo THEN base ELSE step[k][f[k - 1]]
Steps(S, lo, hi) == [(lo + 1)..hi -> [S -> S]]

(* A function may be defined by recursion over an interval, if each step   *)
(* stays in a set.                                                         *)
LEMMA Recursion ==
  ASSUME NEW S, NEW base \in S, NEW lo \in Int, NEW hi \in Int,
         NEW step \in Steps(S, lo, hi)
  PROVE  \E f : Recursive(f, S, lo, hi, base, step)
<1> USE DEF Recursive, Steps
<1> DEFINE Solves(f, h) ==
      \A k \in lo..h : f[k] = IF k = lo THEN base ELSE step[k][f[k - 1]]
    T == {n \in Nat : lo + n <= hi + 1 =>
                        \E f \in [lo..(lo + n - 1) -> S] : Solves(f, lo + n - 1)}
<1>1. 0 \in T
  <2> DEFINE f == [k \in lo..(lo - 1) |-> base]
  <2>1. f \in [lo..(lo - 1) -> S] /\ Solves(f, lo - 1)
    OBVIOUS
  <2>2. lo + 0 - 1 = lo - 1
    OBVIOUS
  <2> HIDE DEF f
  <2> QED
    BY <2>1, <2>2
<1>2. ASSUME NEW n \in Nat, n \in T PROVE n + 1 \in T
  <2> SUFFICES ASSUME lo + n <= hi
               PROVE  \E g \in [lo..(lo + n) -> S] : Solves(g, lo + n)
    <3>1. lo + (n + 1) - 1 = lo + n /\ (lo + (n + 1) <= hi + 1 <=> lo + n <= hi)
      OBVIOUS
    <3> QED
      BY <3>1
  <2>1. PICK f \in [lo..(lo + n - 1) -> S] : Solves(f, lo + n - 1)
    BY <1>2
  <2> DEFINE top == IF n = 0 THEN base ELSE step[lo + n][f[lo + n - 1]]
             g == [k \in lo..(lo + n) |-> IF k = lo + n THEN top ELSE f[k]]
  <2>2. top \in S
    <3>1. CASE n = 0
      BY <3>1
    <3>2. CASE n # 0
      <4>1. lo + n \in (lo + 1)..hi /\ lo + n - 1 \in lo..(lo + n - 1)
        BY <3>2
      <4>2. f[lo + n - 1] \in S /\ step[lo + n] \in [S -> S]
        BY <4>1
      <4> QED
        BY <3>2, <4>2
    <3> QED
      BY <3>1, <3>2
  <2>3. g \in [lo..(lo + n) -> S]
    <3> HIDE DEF top
    <3>1. ASSUME NEW k \in lo..(lo + n), k # lo + n PROVE f[k] \in S
      BY <3>1
    <3> QED
      BY <2>2, <3>1
  <2>4. ASSUME NEW k \in lo..(lo + n)
        PROVE  g[k] = IF k = lo THEN base ELSE step[k][g[k - 1]]
    <3>1. CASE k # lo + n
      <4>1. k \in lo..(lo + n - 1) /\ (k # lo => k - 1 \in lo..(lo + n) /\ k - 1 # lo + n)
        BY <3>1
      <4>2. f[k] = IF k = lo THEN base ELSE step[k][f[k - 1]]
        BY <2>1, <4>1
      <4>3. g[k] = f[k] /\ (k # lo => g[k - 1] = f[k - 1])
        BY <3>1, <4>1
      <4> HIDE DEF g
      <4> QED
        BY <4>2, <4>3
    <3>2. CASE k = lo + n
      <4>1. g[k] = top
        BY <3>2
      <4>2. n # 0 => g[k - 1] = f[k - 1] /\ k # lo
        BY <3>2
      <4> HIDE DEF g
      <4> QED
        BY <3>2, <4>1, <4>2
    <3> QED
      BY <3>1, <3>2
  <2> HIDE DEF g
  <2> QED
    BY <2>3, <2>4
<1>3. Nat \subseteq T
  <2> HIDE DEF T
  <2> QED
    BY <1>1, <1>2, NatInductive
<1>4. CASE lo <= hi
  <2> DEFINE n == hi + 1 - lo
  <2>1. n \in Nat /\ lo + n - 1 = hi /\ lo + n <= hi + 1
    BY <1>4
  <2>2. n \in T
    BY <1>3, <2>1
  <2> HIDE DEF n
  <2> QED
    BY <2>1, <2>2
<1>5. CASE lo > hi
  <2> DEFINE f == [k \in lo..hi |-> base]
  <2>1. f \in [lo..hi -> S] /\ Solves(f, hi)
    BY <1>5
  <2> HIDE DEF f
  <2> QED
    BY <2>1
<1> QED
  BY <1>4, <1>5
===============================================================================
