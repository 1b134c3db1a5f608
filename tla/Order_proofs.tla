---------------------------- MODULE Order_proofs ----------------------------
(***************************************************************************)
(* Along the order of the naturals: least members, induction over a set,   *)
(* and that a function defined by recursion exists.  Value says what is    *)
(* defined, so a module that uses this one takes an INSTANCE of it for     *)
(* each recursion it reasons about.                                        *)
(***************************************************************************)
EXTENDS Integers, WellFoundedInduction, TLAPS

CONSTANT Value(_, _, _)   \* the value at n, with parameter p, from those of f below n

(* A set of naturals has a smallest member.                                *)
LEMMA LeastNatural ==
    ASSUME NEW S \in SUBSET Nat, NEW s \in S
    PROVE  \E n \in S : \A m \in S : n <= m
<1> DEFINE Below == {pair \in Nat \X Nat : pair[1] < pair[2]}
<1>1. IsWellFoundedOn(Below, Nat)
  BY NatLessThanWellFounded DEF OpToRel
<1>2. PICK n \in S : \A m \in S : ~ (<<m, n>> \in Below)
  <2>1. S \subseteq Nat /\ S # {}
    OBVIOUS
  <2> HIDE DEF Below
  <2> QED BY <1>1, <2>1, WFMin
<1>3. ASSUME NEW m \in S PROVE n <= m
  <2>1. <<m, n>> \in Nat \X Nat /\ <<m, n>> \notin Below
    BY <1>2
  <2>2. ~ (m < n)
    BY <2>1
  <2> QED BY <2>2
<1> QED BY <1>3

(* A set of naturals that holds 0 and every successor holds every natural. *)
LEMMA EveryNatural ==
    ASSUME NEW S \in SUBSET Nat, 0 \in S, \A k \in S : k + 1 \in S
    PROVE  \A n \in Nat : n \in S
<1> SUFFICES ASSUME NEW n \in Nat \ S PROVE FALSE
  OBVIOUS
<1>1. PICK least \in Nat \ S : \A m \in Nat \ S : least <= m
  <2>1. Nat \ S \in SUBSET Nat
    OBVIOUS
  <2> QED BY <2>1, LeastNatural
<1>2. least - 1 \in S
  BY <1>1
<1> QED BY <1>1, <1>2

-----------------------------------------------------------------------------
(* Value takes of f only what is below n.                                  *)
LooksBelow(p, D) ==
    \A n \in D : \A f, g :
        (\A m \in D : m < n => f[m] = g[m]) => Value(p, f, n) = Value(p, g, n)

IsRecursive(p, D, f) == f = [n \in D |-> Value(p, f, n)]
UpTo(D, n) == {k \in D : k <= n}

(* What two functions by the same recursion share, they agree on.          *)
LEMMA RecursionsAgree ==
    ASSUME NEW p, NEW D \in SUBSET Nat, LooksBelow(p, D),
           NEW a \in Nat, NEW b \in Nat, a <= b,
           NEW f, IsRecursive(p, UpTo(D, a), f), NEW g, IsRecursive(p, UpTo(D, b), g)
    PROVE  \A n \in UpTo(D, a) : f[n] = g[n]
<1> DEFINE S == {k \in Nat : \A n \in UpTo(D, a) : n < k => f[n] = g[n]}
<1>1. 0 \in S
  BY DEF UpTo
<1>2. ASSUME NEW k \in S PROVE k + 1 \in S
  <2> SUFFICES ASSUME NEW n \in UpTo(D, a), n < k + 1 PROVE f[n] = g[n]
    OBVIOUS
  <2>1. n \in D /\ n \in Nat /\ n \in UpTo(D, b)
    BY DEF UpTo
  <2>2. \A m \in D : m < n => f[m] = g[m]
    BY <2>1 DEF UpTo
  <2>3. Value(p, f, n) = Value(p, g, n)
    BY <2>1, <2>2 DEF LooksBelow
  <2> QED BY <2>1, <2>3 DEF IsRecursive
<1>3. \A k \in Nat : k \in S
  <2>1. S \in SUBSET Nat
    OBVIOUS
  <2> HIDE DEF S
  <2> QED BY <1>1, <1>2, <2>1, EveryNatural
<1>4. \A n \in UpTo(D, a) : n + 1 \in Nat /\ n < n + 1
  BY DEF UpTo
<1> QED BY <1>3, <1>4

LEMMA RecursionsExistUpTo ==
    ASSUME NEW p, NEW D \in SUBSET Nat, LooksBelow(p, D)
    PROVE  \A n \in Nat : \E f : IsRecursive(p, UpTo(D, n), f)
<1> DEFINE S == {n \in Nat : \E f : \A k \in UpTo(D, n) : f[k] = Value(p, f, k)}
<1>1. 0 \in S
  <2> DEFINE none == [k \in Nat |-> k]
             f == [k \in {0} |-> Value(p, none, 0)]
  <2>1. ASSUME NEW k \in UpTo(D, 0) PROVE f[k] = Value(p, f, k)
    <3>1. k = 0 /\ k \in D
      BY <2>1 DEF UpTo
    <3>2. \A m \in D : m < k => none[m] = f[m]
      BY <3>1
    <3>3. Value(p, none, 0) = Value(p, f, 0)
      <4> HIDE DEF none, f
      <4> QED BY <3>1, <3>2 DEF LooksBelow
    <3> QED BY <3>1, <3>3
  <2> QED BY <2>1
<1>2. ASSUME NEW n \in S PROVE n + 1 \in S
  <2>1. PICK f : \A k \in UpTo(D, n) : f[k] = Value(p, f, k)
    OBVIOUS
  <2> DEFINE g == [k \in Nat |-> IF k = n + 1 THEN Value(p, f, n + 1) ELSE f[k]]
  <2>2. g[n + 1] = Value(p, f, n + 1) /\ \A k \in 0 .. n : g[k] = f[k]
    OBVIOUS
  <2> HIDE DEF g
  <2>3. ASSUME NEW k \in UpTo(D, n + 1) PROVE g[k] = Value(p, g, k)
    <3>1. k \in D /\ k \in Nat /\ k <= n + 1
      BY DEF UpTo
    <3>2. \A m \in D : m < k => f[m] = g[m]
      BY <3>1, <2>2
    <3>3. Value(p, f, k) = Value(p, g, k)
      BY <3>1, <3>2 DEF LooksBelow
    <3>4. CASE k = n + 1
      BY <3>3, <3>4, <2>2
    <3>5. CASE k # n + 1
      <4>1. k \in UpTo(D, n) /\ k \in 0 .. n
        BY <3>1, <3>5 DEF UpTo
      <4> QED BY <4>1, <2>1, <2>2, <3>3
    <3> QED BY <3>4, <3>5
  <2> QED BY <2>3
<1>3. \A n \in Nat : n \in S
  <2>1. S \in SUBSET Nat
    OBVIOUS
  <2> HIDE DEF S
  <2> QED BY <1>1, <1>2, <2>1, EveryNatural
<1>4. ASSUME NEW n \in Nat PROVE \E f : IsRecursive(p, UpTo(D, n), f)
  <2>1. PICK g : \A k \in UpTo(D, n) : g[k] = Value(p, g, k)
    BY <1>3
  <2> DEFINE f == [k \in UpTo(D, n) |-> Value(p, g, k)]
  <2>2. \A k \in UpTo(D, n) : f[k] = g[k]
    BY <2>1
  <2>3. ASSUME NEW k \in UpTo(D, n) PROVE Value(p, f, k) = Value(p, g, k)
    <3>1. k \in D /\ \A m \in D : m < k => f[m] = g[m]
      BY <2>2 DEF UpTo
    <3> HIDE DEF f
    <3> QED BY <3>1 DEF LooksBelow
  <2>4. f = [k \in UpTo(D, n) |-> Value(p, f, k)]
    BY <2>3
  <2> QED BY <2>4 DEF IsRecursive
<1> QED BY <1>4

(* A function defined by recursion exists.                                 *)
LEMMA RecursiveFunction ==
    ASSUME NEW p, NEW D \in SUBSET Nat, LooksBelow(p, D)
    PROVE  \E f : IsRecursive(p, D, f)
<1> DEFINE To(n) == CHOOSE f : IsRecursive(p, UpTo(D, n), f)
           h == [n \in D |-> To(n)[n]]
<1>1. \A n \in Nat : IsRecursive(p, UpTo(D, n), To(n))
  BY RecursionsExistUpTo
<1>2. \A n \in D : h[n] = To(n)[n]
  OBVIOUS
<1> HIDE DEF To
<1>3. ASSUME NEW n \in D PROVE h[n] = Value(p, h, n)
  <2>1. n \in Nat /\ n \in UpTo(D, n)
    BY DEF UpTo
  <2>2. To(n)[n] = Value(p, To(n), n)
    BY <1>1, <2>1 DEF IsRecursive
  <2>3. ASSUME NEW m \in D, m < n PROVE To(n)[m] = h[m]
    <3>1. m \in Nat /\ m <= n /\ m \in UpTo(D, m)
      BY <2>3, <2>1 DEF UpTo
    <3>2. To(m)[m] = To(n)[m]
      BY <1>1, <2>1, <3>1, RecursionsAgree
    <3> QED BY <3>2, <1>2
  <2>4. Value(p, To(n), n) = Value(p, h, n)
    <3> HIDE DEF h
    <3> QED BY <2>3 DEF LooksBelow
  <2> QED BY <1>2, <2>2, <2>4
<1>4. h = [n \in D |-> Value(p, h, n)]
  <2>1. h = [n \in D |-> h[n]]
    OBVIOUS
  <2> HIDE DEF h
  <2> QED BY <2>1, <1>3
<1> QED BY <1>4 DEF IsRecursive
=============================================================================
