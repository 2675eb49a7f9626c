------------------------------ MODULE Selection ------------------------------
(* The elements of a sequence that a filter keeps, in their order: what a   *)
(* Go loop that appends to a fresh slice, or a filter of the page, builds.  *)
(* The filter is given as the set of the positions it keeps.                *)
EXTENDS Integers, FiniteSets, Sequences, FiniteSetTheorems, FunctionTheorems, TLAPS

\* The elements of s at the positions `at`, in their order.
Pick(s, at) ==
    [k \in 1 .. Cardinality(at) |->
        s[CHOOSE i \in at : Cardinality({j \in at : j <= i}) = k]]

-----------------------------------------------------------------------------
\* p holds the elements of s at the positions `at`, each where f says.
Enumerates(f, p, s, at) ==
    /\ f \in [DOMAIN p -> at]
    /\ \A k \in DOMAIN p : p[k] = s[f[k]]
    /\ \A k, l \in DOMAIN p : k < l => f[k] < f[l]
    /\ \A i \in at : \E k \in DOMAIN p : f[k] = i

\* Pick enumerates the positions it is given, in their order: nothing is
\* added, left out or moved.
LEMMA PickEnumerates ==
    ASSUME NEW s, NEW n \in Nat, NEW at \in SUBSET (1 .. n)
    PROVE  /\ Cardinality(at) \in 0 .. n
           /\ \E g : Pick(s, at) = [k \in 1 .. Cardinality(at) |-> g[k]]
           /\ \E f : Enumerates(f, Pick(s, at), s, at)
<1> DEFINE c == Cardinality(at)
           upto(i) == {j \in at : j <= i}
           rank == [i \in at |-> Cardinality(upto(i))]
           f == [k \in 1 .. c |-> CHOOSE i \in at : rank[i] = k]
<1> HIDE DEF rank, f
<1>0. \A i \in at : i \in Int
  OBVIOUS
<1>r. \A i \in at : rank[i] = Cardinality(upto(i))
  BY DEF rank
<1>1. IsFiniteSet(1 .. n) /\ Cardinality(1 .. n) = n
  BY FS_Interval
<1>2. IsFiniteSet(at) /\ c \in Nat /\ c <= n
  BY <1>1, FS_Subset, FS_CardinalityType
<1>3. \A i \in at : upto(i) \in SUBSET at /\ IsFiniteSet(upto(i)) /\ rank[i] \in 1 .. c
  <2> TAKE i \in at
  <2>1. upto(i) \in SUBSET at
    OBVIOUS
  <2> HIDE DEF upto
  <2>2. IsFiniteSet(upto(i)) /\ Cardinality(upto(i)) <= c /\ Cardinality(upto(i)) \in Nat
    BY <1>2, <2>1, FS_Subset, FS_CardinalityType
  <2>3. Cardinality(upto(i)) # 0
    <3>1. i \in upto(i)
      BY <1>0 DEF upto
    <3> QED BY <2>2, <3>1, FS_EmptySet
  <2> QED BY <2>1, <2>2, <2>3, <1>2, <1>r
<1>4. \A i, j \in at : i < j => rank[i] < rank[j]
  <2> SUFFICES ASSUME NEW i \in at, NEW j \in at, i < j
               PROVE  Cardinality(upto(i)) < Cardinality(upto(j))
    BY <1>r
  <2>1. \A k \in at : k <= i => k <= j
    BY <1>0
  <2>2. j <= j /\ ~ (j <= i)
    BY <1>0
  <2>3. upto(i) \in SUBSET upto(j) /\ j \in upto(j) /\ j \notin upto(i)
    BY <2>1, <2>2
  <2> HIDE DEF upto
  <2>4. Cardinality(upto(i)) <= Cardinality(upto(j))
        /\ Cardinality(upto(i)) # Cardinality(upto(j))
    BY <1>3, <2>3, FS_Subset
  <2> QED BY <1>3, <2>4, FS_CardinalityType
<1>5. rank \in Injection(at, 1 .. c)
  <2>1. \A i, j \in at : rank[i] = rank[j] => i = j
    <3> SUFFICES ASSUME NEW i \in at, NEW j \in at, i # j
                 PROVE  rank[i] # rank[j]
      OBVIOUS
    <3>1. i < j \/ j < i
      BY <1>0
    <3>2. rank[i] \in Int /\ rank[j] \in Int
      <4>1. rank[i] \in 1 .. c /\ rank[j] \in 1 .. c
        BY <1>3, Zenon
      <4> HIDE DEF c
      <4> QED BY <1>2, <4>1
    <3>3. rank[i] < rank[j] \/ rank[j] < rank[i]
      BY <1>4, <3>1
    <3> QED BY <3>2, <3>3
  <2>2. rank \in [at -> 1 .. c]
    BY <1>3 DEF rank
  <2>3. DOMAIN rank = at
    BY DEF rank
  <2> QED BY <2>1, <2>2, <2>3 DEF Injection, IsInjective
<1>6. rank \in Surjection(at, 1 .. c)
  <2>1. IsFiniteSet(1 .. c) /\ Cardinality(1 .. c) = c
    BY <1>2, FS_Interval
  <2> HIDE DEF c
  <2> QED BY <1>2, <1>5, <2>1, FS_Injection DEF c
<1>7. \A k \in 1 .. c : \E i \in at : rank[i] = k
  BY <1>6 DEF Surjection
<1>8. f \in [1 .. c -> at] /\ \A k \in 1 .. c : rank[f[k]] = k
  BY <1>7 DEF f
<1>9. \A k, l \in 1 .. c : k < l => f[k] < f[l]
  <2> SUFFICES ASSUME NEW k \in 1 .. c, NEW l \in 1 .. c, k < l, ~ (f[k] < f[l])
               PROVE  FALSE
    OBVIOUS
  <2>1. f[k] \in at /\ f[l] \in at /\ rank[f[k]] = k /\ rank[f[l]] = l
    BY <1>8
  <2>2. f[k] \in Int /\ f[l] \in Int
    BY <1>0, <2>1
  <2>3. f[l] < f[k] \/ f[l] = f[k]
    BY <2>2
  <2>4. k \in Int /\ l \in Int
    BY <1>2
  <2>5. l < k \/ l = k
    BY <1>4, <2>1, <2>3
  <2> QED BY <2>4, <2>5
<1>10. \A i \in at : \E k \in 1 .. c : f[k] = i
  <2> TAKE i \in at
  <2>1. rank[i] \in 1 .. c
    BY <1>3
  <2>2. f[rank[i]] \in at /\ rank[f[rank[i]]] = rank[i]
    BY <1>8, <2>1
  <2>3. f[rank[i]] = i
    <3>1. DOMAIN rank = at
      BY DEF rank
    <3> QED BY <1>5, <2>2, <3>1 DEF Injection, IsInjective
  <2> QED BY <2>1, <2>3
<1>11. Pick(s, at) = [k \in 1 .. c |-> s[f[k]]]
  <2>1. \A k \in 1 .. c :
           f[k] = CHOOSE i \in at : Cardinality({j \in at : j <= i}) = k
    <3> TAKE k \in 1 .. c
    <3>1. f[k] = CHOOSE i \in at : rank[i] = k
      BY DEF f
    <3>2. \A i : (i \in at /\ rank[i] = k) <=> (i \in at /\ Cardinality(upto(i)) = k)
      BY <1>r
    <3> QED BY <3>1, <3>2, Zenon
  <2>2. [k \in 1 .. c |-> s[f[k]]] =
        [k \in 1 .. c |-> s[CHOOSE i \in at : Cardinality({j \in at : j <= i}) = k]]
    BY <2>1, Zenon
  <2> QED BY <2>2, Zenon DEF Pick
<1>12. DOMAIN Pick(s, at) = 1 .. c /\ \A k \in 1 .. c : Pick(s, at)[k] = s[f[k]]
  BY <1>11
<1>13. Enumerates(f, Pick(s, at), s, at)
  BY <1>8, <1>9, <1>10, <1>12 DEF Enumerates
<1>14. \E g : Pick(s, at) = [k \in 1 .. c |-> g[k]]
  <2> DEFINE g == [k \in 1 .. c |-> s[f[k]]]
  <2>1. Pick(s, at) = [k \in 1 .. c |-> g[k]]
    BY <1>11
  <2> HIDE DEF g
  <2> QED BY <2>1
<1> QED BY <1>2, <1>13, <1>14

LEMMA PickOf ==
    ASSUME NEW S, NEW s \in Seq(S), NEW at \in SUBSET DOMAIN s
    PROVE  /\ Pick(s, at) \in Seq(S) /\ Len(Pick(s, at)) <= Len(s)
           /\ \E f : Enumerates(f, Pick(s, at), s, at)
<1>1. Len(s) \in Nat /\ DOMAIN s = 1 .. Len(s)
  OBVIOUS
<1>2. at \in SUBSET (1 .. Len(s))
  BY <1>1
<1>3. Cardinality(at) \in 0 .. Len(s)
  BY <1>1, <1>2, PickEnumerates
<1>4. PICK g : Pick(s, at) = [k \in 1 .. Cardinality(at) |-> g[k]]
  <2> DEFINE h(k) == s[CHOOSE i \in at : Cardinality({j \in at : j <= i}) = k]
             g == [k \in 1 .. Cardinality(at) |-> h(k)]
  <2>1. Pick(s, at) = g
    BY DEF Pick
  <2> HIDE DEF h
  <2>2. g = [k \in 1 .. Cardinality(at) |-> g[k]]
    OBVIOUS
  <2> HIDE DEF g
  <2> QED BY <2>1, <2>2
<1>5. PICK f : Enumerates(f, Pick(s, at), s, at)
  BY <1>1, <1>2, PickEnumerates, Zenon
<1>6. \A k \in DOMAIN Pick(s, at) : Pick(s, at)[k] \in S
  BY <1>1, <1>5 DEF Enumerates
<1>7. Pick(s, at) \in Seq(S) /\ Len(Pick(s, at)) = Cardinality(at)
  BY <1>3, <1>4, <1>6
<1> QED BY <1>1, <1>3, <1>5, <1>7
==============================================================================
