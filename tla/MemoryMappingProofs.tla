------------------------ MODULE MemoryMappingProofs ------------------------
(***************************************************************************)
(* Proofs about the memory mapping, for every set of regions, size of the  *)
(* cache and sequence of calls: find_region finds the region an address    *)
(* belongs to, no byte of the host is reached through two addresses, and   *)
(* an access of several bytes is the access to each of them.               *)
(***************************************************************************)
EXTENDS MemoryMapping, FiniteSetTheorems, WellFoundedInduction, NaturalsInduction, TLAPS

(* Zenon first: in large contexts it is much the faster of the two.        *)
USE ZenonT(5), SMTT(60)

-----------------------------------------------------------------------------
(* Induction, over sets of natural numbers.                                *)

(* Induction over the natural numbers, as a statement about sets.          *)
LEMMA NatSets ==
    ASSUME NEW T, T \subseteq Nat, 0 \in T, \A k \in T : k + 1 \in T
    PROVE  T = Nat
  <1>1. SUFFICES ASSUME Nat \ T # {} PROVE FALSE
    OBVIOUS
  <1>2. \E x \in Nat \ T : \A y \in Nat \ T : ~(<<y, x>> \in OpToRel(<, Nat))
    BY <1>1, NatLessThanWellFounded, WFMin
  <1>3. ASSUME NEW x \in Nat \ T, \A y \in Nat \ T : ~(<<y, x>> \in OpToRel(<, Nat))
        PROVE  FALSE
    <2>1. x # 0 /\ x - 1 \in Nat /\ x - 1 < x
      OBVIOUS
    <2>2. <<x - 1, x>> \in OpToRel(<, Nat)
      BY <2>1 DEF OpToRel
    <2>3. x - 1 \in T
      BY <1>3, <2>1, <2>2
    <2>4. (x - 1) + 1 \in T
      BY <2>3
    <2>5. QED
      BY <2>4
  <1>4. QED
    BY <1>2, <1>3

Iterated(f, D, stop, val, step) ==
    f = [i \in D |-> IF i \in stop THEN val[i] ELSE f[step[i]]]

(* A function that is defined by following steps of falling rank exists.   *)
LEMMA Iterates ==
    ASSUME NEW D, NEW stop, NEW val, NEW step, NEW rank \in [D -> Nat], NEW N \in Nat,
           \A i \in D : rank[i] < N,
           \A i \in D \ stop : step[i] \in D /\ rank[step[i]] < rank[i]
    PROVE  \E f : Iterated(f, D, stop, val, step)
  <1> DEFINE Below(k) == {i \in D : rank[i] < k}
             Solves(f, k) == f = [i \in Below(k) |-> IF i \in stop THEN val[i] ELSE f[step[i]]]
             T == {k \in Nat : \E f : Solves(f, k)}
  <1>1. 0 \in T
    <2>1. Below(0) = {}
      OBVIOUS
    <2> DEFINE e == [i \in Below(0) |-> 0]
    <2>2. Solves(e, 0)
      BY <2>1
    <2>3. QED
      BY <2>2
  <1>2. ASSUME NEW k \in T PROVE k + 1 \in T
    <2>1. PICK f : Solves(f, k)
      BY <1>2
    <2> DEFINE g == [i \in Below(k + 1) |-> IF i \in stop THEN val[i] ELSE f[step[i]]]
    <2>2. \A i \in Below(k) : g[i] = f[i] /\ i \in Below(k + 1)
      BY <2>1
    <2>3. \A i \in Below(k + 1) \ stop : step[i] \in Below(k) /\ g[step[i]] = f[step[i]]
      BY <2>2
    <2>4. Solves(g, k + 1)
      BY <2>3
    <2>5. k + 1 \in Nat
      OBVIOUS
    <2> HIDE DEF Solves, g
    <2>6. QED
      BY <2>4, <2>5
  <1>3. N \in T
    <2> HIDE DEF T
    <2>1. T \subseteq Nat
      BY DEF T
    <2>2. QED
      BY <1>1, <1>2, <2>1, NatSets
  <1>4. Below(N) = D
    OBVIOUS
  <1>5. QED
    BY <1>3, <1>4 DEF Iterated


(* Strip satisfies its recursive equation.                                 *)
LEMMA StripRec ==
    ASSUME NEW n \in Nat
    PROVE  \A i \in 1..2*n+1 :
              Strip(n)[i] = IF i % 2 = 0 THEN Strip(n)[i \div 2] ELSE i \div 2
  <1> DEFINE D == 1..2*n+1
             stop == {i \in D : i % 2 # 0}
             half == [i \in D |-> i \div 2]
             rank == [i \in D |-> i]
             Solves(f) == f = [i \in D |-> IF i % 2 = 0 THEN f[i \div 2] ELSE i \div 2]
  <1>1. /\ rank \in [D -> Nat] /\ \A i \in D : rank[i] < 2*n + 2
        /\ \A i \in D \ stop : half[i] \in D /\ rank[half[i]] < rank[i]
    OBVIOUS
  <1>2. 2*n + 2 \in Nat
    OBVIOUS
  <1>3. \E f : Iterated(f, D, stop, half, half)
    <2> HIDE DEF D, stop, half, rank
    <2>1. QED
      BY <1>1, <1>2, Iterates
  <1>4. \E f : Solves(f)
    <2>1. PICK f : Iterated(f, D, stop, half, half)
      BY <1>3
    <2>2. \A i \in D : (IF i \in stop THEN half[i] ELSE f[half[i]])
                         = IF i % 2 = 0 THEN f[i \div 2] ELSE i \div 2
      OBVIOUS
    <2> HIDE DEF D, stop, half
    <2>3. Solves(f)
      BY <2>1, <2>2 DEF Iterated
    <2>4. QED
      BY <2>3
  <1>5. Strip(n) = CHOOSE f : Solves(f)
    BY DEF Strip
  <1>6. Solves(Strip(n))
    BY <1>4, <1>5
  <1>7. QED
    BY <1>6

(* Descend satisfies its recursive equation.                               *)
LEMMA DescendRec ==
    ASSUME NEW n \in Nat, NEW keys, NEW v
    PROVE  \A i \in 1..2*n+1 :
              Descend(n, keys, v)[i] =
                  IF i > n THEN i
                  ELSE Descend(n, keys, v)[2*i + IF keys[i - 1] <= v THEN 1 ELSE 0]
  <1> DEFINE D == 1..2*n+1
             stop == {i \in D : i > n}
             id == [i \in D |-> i]
             Turn(i) == 2*i + IF keys[i - 1] <= v THEN 1 ELSE 0
             step == [i \in D |-> Turn(i)]
             rank == [i \in D |-> 2*n + 1 - i]
             Solves(f) == f = [i \in D |-> IF i > n THEN i ELSE f[Turn(i)]]
  <1>1. /\ rank \in [D -> Nat] /\ \A i \in D : rank[i] < 2*n + 2
        /\ \A i \in D \ stop : step[i] \in D /\ rank[step[i]] < rank[i]
    OBVIOUS
  <1>2. 2*n + 2 \in Nat
    OBVIOUS
  <1>3. \E f : Iterated(f, D, stop, id, step)
    <2> HIDE DEF D, stop, id, step, rank
    <2>1. QED
      BY <1>1, <1>2, Iterates
  <1>4. \E f : Solves(f)
    <2>1. PICK f : Iterated(f, D, stop, id, step)
      BY <1>3
    <2> HIDE DEF Turn
    <2>2. \A i \in D : (IF i \in stop THEN id[i] ELSE f[step[i]])
                         = IF i > n THEN i ELSE f[Turn(i)]
      OBVIOUS
    <2> HIDE DEF D, stop, id, step
    <2>3. Solves(f)
      BY <2>1, <2>2 DEF Iterated
    <2>4. QED
      BY <2>3
  <1>5. Descend(n, keys, v) = CHOOSE f : Solves(f)
    BY DEF Descend
  <1>6. Solves(Descend(n, keys, v))
    BY <1>4, <1>5
  <1>7. QED
    BY <1>6

-----------------------------------------------------------------------------
Subtree(r) == {o \in Nat : \A T \in SUBSET Nat :
                  (r \in T /\ \A x \in T : 2*x + 1 \in T /\ 2*x + 2 \in T) => o \in T}

(* The children of a node of a subtree are in it.                          *)
LEMMA SubtreeClosed ==
    ASSUME NEW r \in Nat
    PROVE  /\ r \in Subtree(r) /\ Subtree(r) \subseteq Nat
           /\ \A x \in Subtree(r) : 2*x + 1 \in Subtree(r) /\ 2*x + 2 \in Subtree(r)
  <1>1. ASSUME NEW x \in Subtree(r)
        PROVE  2*x + 1 \in Subtree(r) /\ 2*x + 2 \in Subtree(r)
    <2>1. x \in Nat /\ 2*x + 1 \in Nat /\ 2*x + 2 \in Nat
      BY DEF Subtree
    <2>2. QED
      BY <2>1 DEF Subtree
  <1>2. QED
    BY <1>1 DEF Subtree

(* Whatever has the root and is closed under children has the subtree.     *)
LEMMA SubtreeLeast ==
    ASSUME NEW r \in Nat, NEW T, T \subseteq Nat, r \in T,
           \A x \in T : 2*x + 1 \in T /\ 2*x + 2 \in T
    PROVE  Subtree(r) \subseteq T
  BY DEF Subtree

(* A subtree has no node below the number of its root.                     *)
LEMMA SubtreeAbove ==
    ASSUME NEW r \in Nat
    PROVE  \A x \in Subtree(r) : x >= r
  <1> DEFINE T == {x \in Nat : x >= r}
  <1>1. T \subseteq Nat /\ r \in T /\ \A x \in T : 2*x + 1 \in T /\ 2*x + 2 \in T
    OBVIOUS
  <1>2. Subtree(r) \subseteq T
    <2> HIDE DEF T
    <2>1. QED
      BY <1>1, SubtreeLeast
  <1>3. QED
    BY <1>2

(* A subtree is its root and the subtrees of the two children.             *)
LEMMA SubtreeChildren ==
    ASSUME NEW r \in Nat
    PROVE  Subtree(r) = {r} \cup Subtree(2*r + 1) \cup Subtree(2*r + 2)
  <1>1. 2*r + 1 \in Nat /\ 2*r + 2 \in Nat
    OBVIOUS
  <1>2. Subtree(2*r + 1) \subseteq Subtree(r) /\ Subtree(2*r + 2) \subseteq Subtree(r)
    BY <1>1, SubtreeClosed, SubtreeLeast
  <1> DEFINE T == {r} \cup Subtree(2*r + 1) \cup Subtree(2*r + 2)
  <1>3. T \subseteq Nat /\ r \in T /\ \A x \in T : 2*x + 1 \in T /\ 2*x + 2 \in T
    BY <1>1, SubtreeClosed
  <1>4. Subtree(r) \subseteq T
    <2> HIDE DEF T
    <2>1. QED
      BY <1>3, SubtreeLeast
  <1>5. QED
    BY <1>2, <1>4, SubtreeClosed

(* The subtrees of the children have no node in common.                    *)
LEMMA SubtreesApart ==
    ASSUME NEW r \in Nat
    PROVE  /\ Subtree(2*r + 1) \cap Subtree(2*r + 2) = {}
           /\ r \notin Subtree(2*r + 1) /\ r \notin Subtree(2*r + 2)
  <1> DEFINE s == 2*r + 2
             T == {x \in Nat : x >= 2*r + 1 /\ x \notin Subtree(s)}
  <1>1. s \in Nat /\ 2*r + 1 \in Nat
    OBVIOUS
  <1>2. ASSUME NEW x \in T, NEW c \in {2*x + 1, 2*x + 2} PROVE c \in T
    <2>1. x \in Nat /\ c \in Nat /\ c # s /\ c >= 2*r + 1
      OBVIOUS
    <2> DEFINE U == Subtree(s) \ {c}
    <2>2. U \subseteq Nat /\ s \in U
      BY <1>1, <2>1, SubtreeClosed
    <2>3. ASSUME NEW y \in U, NEW d \in {2*y + 1, 2*y + 2} PROVE d \in U
      <3>1. y \in Nat /\ y # x
        BY <1>1, SubtreeClosed
      <3>2. d # c
        BY <2>1, <3>1
      <3>3. QED
        BY <1>1, <3>2, SubtreeClosed
    <2>4. Subtree(s) \subseteq U
      <3> HIDE DEF U, s
      <3>1. QED
        BY <1>1, <2>2, <2>3, SubtreeLeast
    <2>5. QED
      BY <2>1, <2>4
  <1>3. 2*r + 1 \in T
    BY <1>1, SubtreeAbove
  <1>4. Subtree(2*r + 1) \subseteq T
    <2>1. T \subseteq Nat
      OBVIOUS
    <2> HIDE DEF T
    <2>2. QED
      BY <1>1, <1>2, <1>3, <2>1, SubtreeLeast
  <1>5. QED
    BY <1>1, <1>4, SubtreeAbove

(* Every node is below the root.                                           *)
LEMMA SubtreeOfRoot == Subtree(0) = Nat
  <1> DEFINE T == {k \in Nat : \A x \in Nat : x <= k => x \in Subtree(0)}
  <1>1. 0 \in T
    BY SubtreeClosed
  <1>2. ASSUME NEW k \in T PROVE k + 1 \in T
    <2>1. ASSUME NEW x \in Nat, x = k + 1 PROVE x \in Subtree(0)
      <3>1. PICK y \in Nat : (x = 2*y + 1 \/ x = 2*y + 2) /\ y <= k
        <4>1. (x - 1) \div 2 \in Nat
              /\ (x = 2*((x - 1) \div 2) + 1 \/ x = 2*((x - 1) \div 2) + 2)
              /\ (x - 1) \div 2 <= k
          BY <2>1
        <4>2. QED
          BY <4>1
      <3>2. y \in Subtree(0)
        BY <3>1
      <3>3. QED
        BY <3>1, <3>2, SubtreeClosed
    <2>2. QED
      BY <2>1
  <1>3. T = Nat
    <2>1. T \subseteq Nat
      OBVIOUS
    <2> HIDE DEF T
    <2>2. QED
      BY <1>1, <1>2, <2>1, NatSets
  <1>4. QED
    BY <1>3, SubtreeClosed


(* EytzingerWalk satisfies its recursive equation.                         *)
LEMMA WalkRec ==
    ASSUME NEW n \in Nat
    PROVE  \A out, in_index \in Nat :
              EytzingerWalk(n)[out][in_index] =
                 IF out >= n THEN [next |-> in_index, lookup |-> << >>]
                 ELSE Visit(EytzingerWalk(n)[2*out + 1], EytzingerWalk(n)[2*out + 2],
                            out, in_index)
  <1> DEFINE Row(l, r, out) == [in_index \in Nat |->
                 IF out >= n THEN [next |-> in_index, lookup |-> << >>]
                 ELSE Visit(l, r, out, in_index)]
             Behind(k) == {out \in Nat : out + k >= n}
             Solves(f, D) == f = [out \in D |-> Row(f[2*out + 1], f[2*out + 2], out)]
             T == {k \in Nat : \E f : Solves(f, Behind(k))}
  <1>0. \A l, r, l2, r2 : \A out \in Nat : out >= n => Row(l, r, out) = Row(l2, r2, out)
    OBVIOUS
  <1>1. 0 \in T
    <2> DEFINE e == [out \in Behind(0) |-> Row(0, 0, out)]
    <2>1. \A out \in Behind(0) : Row(0, 0, out) = Row(e[2*out + 1], e[2*out + 2], out)
      BY <1>0
    <2> HIDE DEF Row, Behind
    <2>2. Solves(e, Behind(0))
      BY <2>1
    <2> HIDE DEF Solves, e
    <2>3. QED
      BY <2>2
  <1>2. ASSUME NEW k \in T PROVE k + 1 \in T
    <2>1. PICK f : Solves(f, Behind(k))
      BY <1>2
    <2> DEFINE g == [out \in Behind(k + 1) |-> Row(f[2*out + 1], f[2*out + 2], out)]
    <2>2. Behind(k) \subseteq Behind(k + 1)
      OBVIOUS
    <2>3. \A out \in Behind(k + 1) :
             out \in Nat /\ (out >= n \/ (2*out + 1 \in Behind(k) /\ 2*out + 2 \in Behind(k)))
      OBVIOUS
    <2>4. k + 1 \in Nat
      OBVIOUS
    <2> HIDE DEF Row, Behind
    <2>5. \A out \in Behind(k) : g[out] = f[out]
      BY <2>1, <2>2
    <2>6. \A out \in Behind(k + 1) : Row(f[2*out + 1], f[2*out + 2], out)
                                      = Row(g[2*out + 1], g[2*out + 2], out)
      <3>1. TAKE out \in Behind(k + 1)
      <3>2. CASE out >= n
        <4> HIDE DEF g, Solves, T
        <4>1. QED
          BY <1>0, <2>3, <3>2
      <3>3. CASE ~(out >= n)
        <4>1. f[2*out + 1] = g[2*out + 1] /\ f[2*out + 2] = g[2*out + 2]
          BY <2>3, <2>5, <3>3
        <4>2. QED
          BY <4>1
      <3>4. QED
        BY <3>2, <3>3
    <2>7. Solves(g, Behind(k + 1))
      BY <2>6
    <2> HIDE DEF Solves, g
    <2>8. QED
      BY <2>4, <2>7
  <1>3. n \in T
    <2>1. T \subseteq Nat
      OBVIOUS
    <2> HIDE DEF T
    <2>2. QED
      BY <1>1, <1>2, <2>1, NatSets
  <1>4. Behind(n) = Nat
    OBVIOUS
  <1> HIDE DEF Row, Behind
  <1>5. \E f : Solves(f, Nat)
    BY <1>3, <1>4
  <1>6. EytzingerWalk(n) = CHOOSE f : Solves(f, Nat)
    BY DEF EytzingerWalk, Row
  <1>7. Solves(EytzingerWalk(n), Nat)
    BY <1>5, <1>6
  <1>8. \A out \in Nat : EytzingerWalk(n)[out] =
           Row(EytzingerWalk(n)[2*out + 1], EytzingerWalk(n)[2*out + 2], out)
    BY <1>7
  <1>9. QED
    BY <1>8 DEF Row

Nodes(n, out) == Subtree(out) \cap 0..n-1

(* The number of nodes of a subtree is that of its parts.                  *)
LEMMA NodesCounted ==
    ASSUME NEW n \in Nat, NEW out \in Nat
    PROVE  /\ IsFiniteSet(Nodes(n, out)) /\ Cardinality(Nodes(n, out)) \in Nat
           /\ out >= n => Nodes(n, out) = {} /\ Cardinality(Nodes(n, out)) = 0
           /\ out < n => 
                /\ Nodes(n, out) = Nodes(n, 2*out + 1) \cup {out} \cup Nodes(n, 2*out + 2)
                /\ Nodes(n, 2*out + 1) \cap Nodes(n, 2*out + 2) = {}
                /\ out \notin Nodes(n, 2*out + 1) /\ out \notin Nodes(n, 2*out + 2)
                /\ Cardinality(Nodes(n, out)) = Cardinality(Nodes(n, 2*out + 1)) + 1
                                                + Cardinality(Nodes(n, 2*out + 2))
  <1>1. \A o \in Nat : IsFiniteSet(Nodes(n, o)) /\ Cardinality(Nodes(n, o)) \in Nat
    <2>1. IsFiniteSet(0..n-1)
      BY FS_Interval
    <2>2. \A o \in Nat : Nodes(n, o) \in SUBSET (0..n-1)
      BY DEF Nodes
    <2>3. \A o \in Nat : IsFiniteSet(Nodes(n, o))
      BY <2>1, <2>2, FS_Subset
    <2>4. QED
      BY <2>3, FS_CardinalityType
  <1>2. ASSUME out >= n PROVE Nodes(n, out) = {}
    BY <1>2, SubtreeAbove DEF Nodes
  <1>3. ASSUME out < n
        PROVE  /\ Nodes(n, out) = Nodes(n, 2*out + 1) \cup {out} \cup Nodes(n, 2*out + 2)
               /\ Nodes(n, 2*out + 1) \cap Nodes(n, 2*out + 2) = {}
               /\ out \notin Nodes(n, 2*out + 1) /\ out \notin Nodes(n, 2*out + 2)
    <2>1. out \in 0..n-1
      BY <1>3
    <2>2. Subtree(out) = {out} \cup Subtree(2*out + 1) \cup Subtree(2*out + 2)
      BY SubtreeChildren
    <2>3. /\ Subtree(2*out + 1) \cap Subtree(2*out + 2) = {}
          /\ out \notin Subtree(2*out + 1) /\ out \notin Subtree(2*out + 2)
      BY SubtreesApart
    <2>4. QED
      BY <2>1, <2>2, <2>3 DEF Nodes
  <1>4. ASSUME out < n
        PROVE  Cardinality(Nodes(n, out)) = Cardinality(Nodes(n, 2*out + 1)) + 1
                                                + Cardinality(Nodes(n, 2*out + 2))
    <2> DEFINE A == Nodes(n, 2*out + 1)
               B == Nodes(n, 2*out + 2)
    <2>1. /\ IsFiniteSet(A) /\ Cardinality(A) \in Nat
          /\ IsFiniteSet(B) /\ Cardinality(B) \in Nat
      BY <1>1
    <2>2. /\ Nodes(n, out) = (A \cup {out}) \cup B /\ out \notin A
          /\ (A \cup {out}) \cap B = {}
      BY <1>3, <1>4
    <2> HIDE DEF A, B
    <2>3. IsFiniteSet(A \cup {out}) /\ Cardinality(A \cup {out}) = Cardinality(A) + 1
      BY <2>1, <2>2, FS_AddElement
    <2>4. Cardinality((A \cup {out}) \cup B) =
             Cardinality(A \cup {out}) + Cardinality(B) - Cardinality((A \cup {out}) \cap B)
      BY <2>1, <2>3, FS_Union
    <2>5. Cardinality((A \cup {out}) \cap B) = 0
      BY <2>2, FS_EmptySet
    <2>6. QED
      BY <2>1, <2>2, <2>3, <2>4, <2>5 DEF A, B
  <1>5. QED
    BY <1>1, <1>2, <1>3, <1>4, FS_EmptySet

(* w is the walk of left, then out, then right.                            *)
Joined(w, left, out, right) ==
    /\ w.next = right.next
    /\ DOMAIN w.lookup = DOMAIN left.lookup \cup {out} \cup DOMAIN right.lookup
    /\ \A o \in DOMAIN w.lookup :
          w.lookup[o] = IF o = out THEN left.next
                        ELSE IF o \in DOMAIN left.lookup THEN left.lookup[o]
                        ELSE right.lookup[o]

(* A walk ends at once below the tree, and else joins those of its         *)
(* children.                                                               *)
LEMMA WalkSteps ==
    ASSUME NEW n \in Nat, NEW out \in Nat, NEW in_index \in Nat
    PROVE  LET w == EytzingerWalk(n)[out][in_index]
               left == EytzingerWalk(n)[2*out + 1][in_index]
               right == EytzingerWalk(n)[2*out + 2][left.next + 1]
           IN  /\ out >= n => w.next = in_index /\ DOMAIN w.lookup = {}
               /\ out < n => Joined(w, left, out, right)
  <1> DEFINE l == EytzingerWalk(n)[2*out + 1]
             r == EytzingerWalk(n)[2*out + 2]
             w == EytzingerWalk(n)[out][in_index]
             e == [next |-> in_index, lookup |-> << >>]
  <1>1. w = IF out >= n THEN e ELSE Visit(l, r, out, in_index)
    BY WalkRec
  <1>2. e.next = in_index /\ DOMAIN e.lookup = {}
    OBVIOUS
  <1>3. out < n => ~(out >= n)
    OBVIOUS
  <1> HIDE DEF l, r, w, e
  <1>4. CASE out >= n
    <2>1. w.next = in_index /\ DOMAIN w.lookup = {}
      BY <1>1, <1>2, <1>4
    <2>2. QED
      BY <1>4, <2>1 DEF w
  <1>5. CASE out < n
    <2>1. w = Visit(l, r, out, in_index)
      BY <1>1, <1>3, <1>5
    <2>2. Joined(Visit(l, r, out, in_index), l[in_index], out, r[l[in_index].next + 1])
      BY DEF Visit, Joined
    <2>3. QED
      BY <1>3, <1>5, <2>1, <2>2 DEF w, l, r
  <1>6. QED
    BY <1>4, <1>5

WalkShape(n, out) ==
    \A in_index \in Nat :
        LET w == EytzingerWalk(n)[out][in_index]
        IN  w.next = in_index + Cardinality(Nodes(n, out)) /\ DOMAIN w.lookup = Nodes(n, out)

(* The walk of a subtree numbers its nodes, one region after another.      *)
LEMMA WalkShapes ==
    ASSUME NEW n \in Nat
    PROVE  \A out \in Nat : WalkShape(n, out)
  <1> DEFINE T == {k \in Nat : \A out \in Nat : out + k >= n => WalkShape(n, out)}
  <1>1. ASSUME NEW out \in Nat, out >= n PROVE WalkShape(n, out)
    <2>1. Nodes(n, out) = {} /\ Cardinality(Nodes(n, out)) = 0
      BY <1>1, NodesCounted
    <2>2. ASSUME NEW in_index \in Nat
          PROVE  LET w == EytzingerWalk(n)[out][in_index]
                 IN  w.next = in_index + 0 /\ DOMAIN w.lookup = {}
      BY <1>1, WalkSteps
    <2>3. QED
      BY <2>1, <2>2 DEF WalkShape
  <1>2. ASSUME NEW k \in T PROVE k + 1 \in T
    <2>1. SUFFICES ASSUME NEW out \in Nat, out + k + 1 >= n, out < n
                   PROVE  WalkShape(n, out)
      BY <1>1
    <2>2. /\ 2*out + 1 \in Nat /\ 2*out + 2 \in Nat
          /\ WalkShape(n, 2*out + 1) /\ WalkShape(n, 2*out + 2)
      BY <1>2, <2>1
    <2>3. SUFFICES ASSUME NEW in_index \in Nat
                   PROVE  LET w == EytzingerWalk(n)[out][in_index]
                          IN  /\ w.next = in_index + Cardinality(Nodes(n, out))
                              /\ DOMAIN w.lookup = Nodes(n, out)
      BY DEF WalkShape
    <2> DEFINE w == EytzingerWalk(n)[out][in_index]
               left == EytzingerWalk(n)[2*out + 1][in_index]
               right == EytzingerWalk(n)[2*out + 2][left.next + 1]
    <2>4. /\ w.next = right.next
          /\ DOMAIN w.lookup = DOMAIN left.lookup \cup {out} \cup DOMAIN right.lookup
      BY <2>1, WalkSteps DEF Joined
    <2>5. /\ left.next = in_index + Cardinality(Nodes(n, 2*out + 1))
          /\ DOMAIN left.lookup = Nodes(n, 2*out + 1)
      BY <2>2 DEF WalkShape
    <2>6. left.next + 1 \in Nat
      <3>1. PICK a \in Nat : a = Cardinality(Nodes(n, 2*out + 1))
        BY <2>2, NodesCounted
      <3>2. QED
        BY <2>5, <3>1
    <2>7. /\ right.next = left.next + 1 + Cardinality(Nodes(n, 2*out + 2))
          /\ DOMAIN right.lookup = Nodes(n, 2*out + 2)
      BY <2>2, <2>6 DEF WalkShape
    <2> HIDE DEF w, left, right
    <2>8. w.next = in_index + Cardinality(Nodes(n, out))
      <3>1. PICK a \in Nat : a = Cardinality(Nodes(n, 2*out + 1))
        BY <2>2, NodesCounted
      <3>2. PICK b \in Nat : b = Cardinality(Nodes(n, 2*out + 2))
        BY <2>2, NodesCounted
      <3>3. Cardinality(Nodes(n, out)) = a + 1 + b
        BY <2>1, <3>1, <3>2, NodesCounted
      <3>4. w.next = in_index + a + 1 + b
        BY <2>4, <2>5, <2>7, <3>1, <3>2
      <3>5. QED
        BY <3>3, <3>4
    <2>9. DOMAIN w.lookup = Nodes(n, out)
      BY <2>1, <2>4, <2>5, <2>7, NodesCounted
    <2>10. QED
      BY <2>8, <2>9 DEF w
  <1>3. n \in T
    <2>1. T \subseteq Nat
      OBVIOUS
    <2>2. 0 \in T
      BY <1>1
    <2> HIDE DEF T
    <2>3. QED
      BY <1>2, <2>1, <2>2, NatSets
  <1>4. QED
    BY <1>3

(* The order numbers every node and uses every region.                     *)
LEMMA OrderCoversAll ==
    ASSUME NEW n \in Nat
    PROVE  EytzingerWalk(n)[0][0].next = n /\ DOMAIN construct_eytzinger_order(n) = 0..n-1
  <1>1. Nodes(n, 0) = 0..n-1
    BY SubtreeOfRoot DEF Nodes
  <1>2. Cardinality(0..n-1) = n
    BY FS_Interval
  <1>3. WalkShape(n, 0)
    BY WalkShapes
  <1>4. QED
    BY <1>1, <1>2, <1>3 DEF WalkShape, construct_eytzinger_order

(* The regions the nodes of a subtree get.                                 *)
WalkRange(n, out) ==
    \A in_index \in Nat :
        LET w == EytzingerWalk(n)[out][in_index]
        IN  /\ w.next \in Nat /\ in_index <= w.next
            /\ \A o \in DOMAIN w.lookup : w.lookup[o] \in in_index..w.next-1

(* The walk of a subtree hands out the regions it counts.                  *)
LEMMA WalkRanges ==
    ASSUME NEW n \in Nat
    PROVE  \A out \in Nat : WalkRange(n, out)
  <1> DEFINE T == {k \in Nat : \A out \in Nat : out + k >= n => WalkRange(n, out)}
  <1>1. ASSUME NEW out \in Nat, out >= n PROVE WalkRange(n, out)
    <2>1. ASSUME NEW in_index \in Nat
          PROVE  LET w == EytzingerWalk(n)[out][in_index]
                 IN  w.next = in_index /\ DOMAIN w.lookup = {}
      BY <1>1, WalkSteps
    <2>2. QED
      BY <2>1 DEF WalkRange
  <1>2. ASSUME NEW k \in T PROVE k + 1 \in T
    <2>1. SUFFICES ASSUME NEW out \in Nat, out + k + 1 >= n, out < n
                   PROVE  WalkRange(n, out)
      BY <1>1
    <2>2. /\ 2*out + 1 \in Nat /\ 2*out + 2 \in Nat
          /\ WalkRange(n, 2*out + 1) /\ WalkRange(n, 2*out + 2)
      BY <1>2, <2>1
    <2>3. SUFFICES ASSUME NEW in_index \in Nat
                   PROVE  LET w == EytzingerWalk(n)[out][in_index]
                          IN  /\ w.next \in Nat /\ in_index <= w.next
                              /\ \A o \in DOMAIN w.lookup :
                                    w.lookup[o] \in in_index..w.next-1
      BY DEF WalkRange
    <2> DEFINE w == EytzingerWalk(n)[out][in_index]
               left == EytzingerWalk(n)[2*out + 1][in_index]
               right == EytzingerWalk(n)[2*out + 2][left.next + 1]
    <2>4. Joined(w, left, out, right)
      BY <2>1, WalkSteps
    <2>5. /\ left.next \in Nat /\ in_index <= left.next
          /\ \A o \in DOMAIN left.lookup : left.lookup[o] \in in_index..left.next-1
      BY <2>2 DEF WalkRange
    <2>6. left.next + 1 \in Nat
      BY <2>5
    <2>7. /\ right.next \in Nat /\ left.next + 1 <= right.next
          /\ \A o \in DOMAIN right.lookup : right.lookup[o] \in left.next+1..right.next-1
      BY <2>2, <2>6 DEF WalkRange
    <2> HIDE DEF w, left, right
    <2>8. QED
      BY <2>4, <2>5, <2>7 DEF w, Joined
  <1>3. n \in T
    <2>1. T \subseteq Nat
      OBVIOUS
    <2>2. 0 \in T
      BY <1>1
    <2> HIDE DEF T
    <2>3. QED
      BY <1>2, <2>1, <2>2, NatSets
  <1>4. QED
    BY <1>3

(* Every node gets a region.                                               *)
LEMMA OrderValues ==
    ASSUME NEW n \in Nat
    PROVE  \A o \in 0..n-1 : construct_eytzinger_order(n)[o] \in 0..n-1
  <1>1. WalkRange(n, 0)
    BY WalkRanges
  <1>2. QED
    BY <1>1, OrderCoversAll DEF WalkRange, construct_eytzinger_order

-----------------------------------------------------------------------------
LastStart(a, v, from, end, k) ==
    /\ k \in from..end-1 /\ a[k] <= v
    /\ \A j \in from..end-1 : a[j] <= v => j <= k

(* A search among the regions from..end-1 comes back with the node of the  *)
(* last that starts at v or before, or with s if there is none.            *)
Found(n, a, v, order, from, end, t, s) ==
    IF \E k \in from..end-1 : a[k] <= v
    THEN t - 1 \in 0..n-1 /\ LastStart(a, v, from, end, order[t - 1])
    ELSE t = s

SearchClaim(n, a, order, keys, v, out) ==
    \A in_index \in Nat :
        LET w == EytzingerWalk(n)[out][in_index]
        IN  /\ w.next <= n
            /\ \A o \in DOMAIN w.lookup : order[o] = w.lookup[o]
            => Found(n, a, v, order, in_index, w.next,
                     Strip(n)[Descend(n, keys, v)[out + 1]], Strip(n)[out + 1])

(* Below the tree a search ends where it came.                             *)
LEMMA SearchLeaf ==
    ASSUME NEW n \in Nat, NEW a, NEW order, NEW keys, NEW v, NEW out \in n..2*n
    PROVE  SearchClaim(n, a, order, keys, v, out)
  <1>1. out \in Nat /\ out >= n /\ out + 1 \in 1..2*n+1 /\ out + 1 > n
    OBVIOUS
  <1>2. Descend(n, keys, v)[out + 1] = out + 1
    BY <1>1, DescendRec
  <1>3. ASSUME NEW in_index \in Nat PROVE EytzingerWalk(n)[out][in_index].next = in_index
    BY <1>1, WalkSteps
  <1>4. \A in_index \in Nat : in_index..in_index-1 = {}
    OBVIOUS
  <1>5. \A in_index \in Nat : \A t : Found(n, a, v, order, in_index, in_index, t, t)
    BY <1>4 DEF Found
  <1>6. QED
    BY <1>2, <1>3, <1>5 DEF SearchClaim

(* What holds of a node and the walks of its children.                     *)
LEMMA NodeFacts ==
    ASSUME NEW n \in Nat, NEW out \in 0..n-1, NEW in_index \in Nat
    PROVE  \E m, e \in Nat :
             LET w == EytzingerWalk(n)[out][in_index]
                 left == EytzingerWalk(n)[2*out + 1][in_index]
                 right == EytzingerWalk(n)[2*out + 2][m + 1]
             IN  /\ w.next = e /\ left.next = m /\ right.next = e
                 /\ in_index <= m /\ m < e
                 /\ out \in DOMAIN w.lookup /\ w.lookup[out] = m
                 /\ \A o \in DOMAIN left.lookup :
                       o \in DOMAIN w.lookup /\ w.lookup[o] = left.lookup[o]
                 /\ \A o \in DOMAIN right.lookup :
                       o \in DOMAIN w.lookup /\ w.lookup[o] = right.lookup[o]
  <1> DEFINE w == EytzingerWalk(n)[out][in_index]
             left == EytzingerWalk(n)[2*out + 1][in_index]
             right == EytzingerWalk(n)[2*out + 2][left.next + 1]
  <1>1. out \in Nat /\ out < n /\ 2*out + 1 \in Nat /\ 2*out + 2 \in Nat
    OBVIOUS
  <1>2. Joined(w, left, out, right)
    BY <1>1, WalkSteps
  <1>3. WalkShape(n, 2*out + 1) /\ WalkShape(n, 2*out + 2)
    BY <1>1, WalkShapes
  <1>4. PICK c \in Nat : c = Cardinality(Nodes(n, 2*out + 1))
    BY <1>1, NodesCounted
  <1>5. left.next = in_index + c /\ DOMAIN left.lookup = Nodes(n, 2*out + 1)
    BY <1>3, <1>4 DEF WalkShape
  <1>6. left.next \in Nat /\ in_index <= left.next /\ left.next + 1 \in Nat
    <2> HIDE DEF left
    <2>1. QED
      BY <1>5
  <1>7. PICK b \in Nat : b = Cardinality(Nodes(n, 2*out + 2))
    BY <1>1, NodesCounted
  <1>8. right.next = left.next + 1 + b /\ DOMAIN right.lookup = Nodes(n, 2*out + 2)
    BY <1>3, <1>6, <1>7 DEF WalkShape
  <1>9. right.next \in Nat /\ left.next < right.next
    <2> HIDE DEF left, right
    <2>1. QED
      BY <1>6, <1>8
  <1>10. /\ Nodes(n, 2*out + 1) \cap Nodes(n, 2*out + 2) = {}
         /\ out \notin Nodes(n, 2*out + 1) /\ out \notin Nodes(n, 2*out + 2)
    BY <1>1, NodesCounted
  <1> HIDE DEF w, left, right
  <1>11. /\ out \in DOMAIN w.lookup /\ w.lookup[out] = left.next
         /\ \A o \in DOMAIN left.lookup :
               o \in DOMAIN w.lookup /\ w.lookup[o] = left.lookup[o]
         /\ \A o \in DOMAIN right.lookup :
               o \in DOMAIN w.lookup /\ w.lookup[o] = right.lookup[o]
    BY <1>2, <1>5, <1>8, <1>10 DEF Joined
  <1>12. w.next = right.next
    BY <1>2 DEF Joined
  <1>13. QED
    BY <1>6, <1>9, <1>11, <1>12 DEF w, left, right

(* Turning right behind a region that starts at v or before, left at one   *)
(* that starts behind v.                                                   *)
LEMMA TurnRight ==
    ASSUME NEW n \in Nat, NEW a \in [0..n-1 -> Int], NEW v \in Int, NEW order,
           NEW from \in Nat, NEW m \in Nat, NEW i \in Nat, NEW e \in Nat,
           from <= m, m < e, e <= n, i = m + 1,
           a[m] <= v, NEW t, NEW s, NEW out \in 0..n-1, order[out] = m,
           NEW u \in Nat, u = out + 1, Found(n, a, v, order, i, e, t, u)
    PROVE  Found(n, a, v, order, from, e, t, s)
  <1>0. SUFFICES /\ \E k \in from..e-1 : a[k] <= v
                 /\ t - 1 \in 0..n-1 /\ LastStart(a, v, from, e, order[t - 1])
    BY DEF Found
  <1>1. m \in from..e-1
    OBVIOUS
  <1>2. CASE \E k \in i..e-1 : a[k] <= v
    <2>1. t - 1 \in 0..n-1 /\ LastStart(a, v, i, e, order[t - 1])
      BY <1>2 DEF Found
    <2>2. PICK k : k = order[t - 1]
      OBVIOUS
    <2>3. LastStart(a, v, i, e, k)
      BY <2>1, <2>2
    <2>4. k \in Int /\ k > m /\ k \in from..e-1 /\ a[k] <= v
      BY <2>3 DEF LastStart
    <2>5. ASSUME NEW j \in from..e-1, a[j] <= v PROVE j <= k
      <3>1. CASE j \in i..e-1
        BY <2>3, <2>5, <3>1 DEF LastStart
      <3>2. CASE j <= m
        BY <2>4, <3>2
      <3>3. QED
        BY <3>1, <3>2
    <2>6. LastStart(a, v, from, e, k)
      BY <2>4, <2>5 DEF LastStart
    <2>7. QED
      BY <1>1, <2>1, <2>2, <2>6
  <1>3. CASE ~\E k \in i..e-1 : a[k] <= v
    <2>1. t = u
      BY <1>3 DEF Found
    <2>2. LastStart(a, v, from, e, m)
      BY <1>1, <1>3 DEF LastStart
    <2>3. QED
      BY <1>1, <2>1, <2>2
  <1>4. QED
    BY <1>2, <1>3

(* A search that turns left finds what is in the left subtree.             *)
LEMMA TurnLeft ==
    ASSUME NEW n \in Nat, NEW a \in [0..n-1 -> Int], NEW v \in Int, NEW order,
           NEW from \in Nat, NEW m \in Nat, NEW e \in Nat, from <= m, m < e, e <= n,
           \A i, k \in 0..n-1 : i < k => a[i] <= a[k],
           ~(a[m] <= v), NEW t, NEW s,
           Found(n, a, v, order, from, m, t, s)
    PROVE  Found(n, a, v, order, from, e, t, s)
  <1>1. ASSUME NEW k \in from..e-1, a[k] <= v PROVE k \in from..m-1
    <2>1. k \in 0..n-1 /\ m \in 0..n-1
      OBVIOUS
    <2>2. a[k] \in Int /\ a[m] \in Int
      BY <2>1
    <2>3. ~(m < k) /\ m # k
      BY <1>1, <2>1, <2>2
    <2>4. QED
      BY <2>1, <2>3
  <1>2. CASE \E k \in from..m-1 : a[k] <= v
    <2>1. t - 1 \in 0..n-1 /\ LastStart(a, v, from, m, order[t - 1])
      BY <1>2 DEF Found
    <2>2. PICK k : k = order[t - 1]
      OBVIOUS
    <2>3. LastStart(a, v, from, e, k)
      BY <1>1, <2>1, <2>2 DEF LastStart
    <2>4. QED
      BY <2>1, <2>2, <2>3 DEF Found, LastStart
  <1>3. CASE ~\E k \in from..m-1 : a[k] <= v
    BY <1>1, <1>3 DEF Found
  <1>4. QED
    BY <1>2, <1>3

(* A search from a node is right if those from its children are.           *)
LEMMA SearchNode ==
    ASSUME NEW n \in Nat, NEW a \in [0..n-1 -> Int], NEW order, NEW keys, NEW v \in Int,
           NEW out \in 0..n-1,
           \A i, k \in 0..n-1 : i < k => a[i] <= a[k],
           \A o \in 0..n-1 : keys[o] = a[order[o]],
           SearchClaim(n, a, order, keys, v, 2*out + 1),
           SearchClaim(n, a, order, keys, v, 2*out + 2)
    PROVE  SearchClaim(n, a, order, keys, v, out)
  <1> DEFINE d == Descend(n, keys, v)
             s == Strip(n)
  <1>1. /\ out + 1 \in 1..2*n+1 /\ ~(out + 1 > n) /\ (out + 1) - 1 = out
        /\ 2*(out + 1) \in 1..2*n+1 /\ 2*(out + 1) + 1 \in 1..2*n+1
        /\ (2*out + 1) + 1 = 2*(out + 1) + 0 /\ (2*out + 2) + 1 = 2*(out + 1) + 1
        /\ 2*(out + 1) + 0 = 2*(out + 1)
        /\ (2*(out + 1)) % 2 = 0 /\ (2*(out + 1)) \div 2 = out + 1
        /\ ~((2*(out + 1) + 1) % 2 = 0) /\ (2*(out + 1) + 1) \div 2 = out + 1
    OBVIOUS
  <1>2. s[(2*out + 1) + 1] = s[out + 1] /\ s[(2*out + 2) + 1] = out + 1
    <2>1. \A i \in 1..2*n+1 : s[i] = IF i % 2 = 0 THEN s[i \div 2] ELSE i \div 2
      BY StripRec
    <2> HIDE DEF s
    <2>2. s[2*(out + 1)] = s[out + 1]
      BY <1>1, <2>1
    <2>3. s[2*(out + 1) + 1] = out + 1
      BY <1>1, <2>1
    <2>4. QED
      BY <1>1, <2>2, <2>3
  <1>3. d[out + 1] = IF keys[out] <= v THEN d[(2*out + 2) + 1] ELSE d[(2*out + 1) + 1]
    <2>1. \A i \in 1..2*n+1 :
             d[i] = IF i > n THEN i ELSE d[2*i + IF keys[i - 1] <= v THEN 1 ELSE 0]
      BY DescendRec
    <2> HIDE DEF d
    <2>2. d[out + 1] = d[2*(out + 1) + IF keys[out] <= v THEN 1 ELSE 0]
      BY <1>1, <2>1
    <2>3. QED
      BY <1>1, <2>2
  <1> HIDE DEF d, s
  <1>4. SUFFICES ASSUME NEW in_index \in Nat,
                        EytzingerWalk(n)[out][in_index].next <= n,
                        \A o \in DOMAIN EytzingerWalk(n)[out][in_index].lookup :
                            order[o] = EytzingerWalk(n)[out][in_index].lookup[o]
                 PROVE  Found(n, a, v, order, in_index, EytzingerWalk(n)[out][in_index].next,
                              s[d[out + 1]], s[out + 1])
    BY DEF SearchClaim, d, s
  <1>5. PICK m, e \in Nat :
             LET w == EytzingerWalk(n)[out][in_index]
                 left == EytzingerWalk(n)[2*out + 1][in_index]
                 right == EytzingerWalk(n)[2*out + 2][m + 1]
             IN  /\ w.next = e /\ left.next = m /\ right.next = e
                 /\ in_index <= m /\ m < e
                 /\ out \in DOMAIN w.lookup /\ w.lookup[out] = m
                 /\ \A o \in DOMAIN left.lookup :
                       o \in DOMAIN w.lookup /\ w.lookup[o] = left.lookup[o]
                 /\ \A o \in DOMAIN right.lookup :
                       o \in DOMAIN w.lookup /\ w.lookup[o] = right.lookup[o]
    BY NodeFacts
  <1>6. PICK i \in Nat : i = m + 1
    OBVIOUS
  <1>7. /\ EytzingerWalk(n)[out][in_index].next = e
        /\ EytzingerWalk(n)[2*out + 1][in_index].next = m
        /\ EytzingerWalk(n)[2*out + 2][i].next = e
        /\ in_index <= m /\ m < e /\ order[out] = m
        /\ \A o \in DOMAIN EytzingerWalk(n)[2*out + 1][in_index].lookup :
              order[o] = EytzingerWalk(n)[2*out + 1][in_index].lookup[o]
        /\ \A o \in DOMAIN EytzingerWalk(n)[2*out + 2][i].lookup :
              order[o] = EytzingerWalk(n)[2*out + 2][i].lookup[o]
    BY <1>4, <1>5, <1>6
  <1>8. e <= n /\ m <= n /\ m \in 0..n-1 /\ keys[out] = a[m]
    <2>1. e <= n
      BY <1>4, <1>7
    <2>2. m <= n /\ m \in 0..n-1
      BY <1>7, <2>1
    <2>3. QED
      BY <1>7, <2>1, <2>2
  <1>9. CASE a[m] <= v
    <2>1. PICK t : t = s[d[(2*out + 2) + 1]]
      OBVIOUS
    <2>2. t = s[d[out + 1]]
      BY <1>3, <1>8, <1>9, <2>1
    <2>3. PICK u \in Nat : u = out + 1
      OBVIOUS
    <2>4. Found(n, a, v, order, i, e, t, u)
      BY <1>2, <1>7, <1>8, <2>1, <2>3 DEF SearchClaim, d, s
    <2>5. PICK z : z = s[out + 1]
      OBVIOUS
    <2>6. Found(n, a, v, order, in_index, e, t, z)
      BY <1>6, <1>7, <1>8, <1>9, <2>3, <2>4, TurnRight, ZenonT(60)
    <2>7. QED
      BY <1>7, <2>2, <2>5, <2>6
  <1>10. CASE ~(a[m] <= v)
    <2>1. PICK t : t = s[d[(2*out + 1) + 1]]
      OBVIOUS
    <2>2. t = s[d[out + 1]]
      BY <1>3, <1>8, <1>10, <2>1
    <2>3. Found(n, a, v, order, in_index, m, t, s[out + 1])
      BY <1>2, <1>7, <1>8, <2>1 DEF SearchClaim, d, s
    <2>4. Found(n, a, v, order, in_index, e, t, s[out + 1])
      BY <1>7, <1>8, <1>10, <2>3, TurnLeft
    <2>5. QED
      BY <1>7, <2>2, <2>4
  <1>11. QED
    BY <1>9, <1>10


(* A search is right from every node.                                      *)
LEMMA SearchClaims ==
    ASSUME NEW n \in Nat, NEW a \in [0..n-1 -> Int], NEW order, NEW keys, NEW v \in Int,
           \A i, k \in 0..n-1 : i < k => a[i] <= a[k],
           \A o \in 0..n-1 : keys[o] = a[order[o]]
    PROVE  SearchClaim(n, a, order, keys, v, 0)
  <1> DEFINE T == {k \in Nat : \A out \in 0..2*n : out + k >= n =>
                                   SearchClaim(n, a, order, keys, v, out)}
  <1>1. 0 \in T
    BY SearchLeaf
  <1>2. ASSUME NEW k \in T PROVE k + 1 \in T
    <2>1. ASSUME NEW out \in 0..n-1, out + k + 1 >= n
          PROVE  SearchClaim(n, a, order, keys, v, out)
      <3>1. /\ 2*out + 1 \in 0..2*n /\ (2*out + 1) + k >= n
            /\ 2*out + 2 \in 0..2*n /\ (2*out + 2) + k >= n
        BY <2>1
      <3>2. /\ SearchClaim(n, a, order, keys, v, 2*out + 1)
            /\ SearchClaim(n, a, order, keys, v, 2*out + 2)
        BY <1>2, <3>1
      <3>3. QED
        BY <3>2, SearchNode
    <2>2. ASSUME NEW out \in n..2*n PROVE SearchClaim(n, a, order, keys, v, out)
      BY SearchLeaf
    <2>3. QED
      BY <2>1, <2>2
  <1>3. n \in T
    <2>1. T \subseteq Nat
      OBVIOUS
    <2> HIDE DEF T
    <2>2. QED
      BY <1>1, <1>2, <2>1, NatSets
  <1>4. QED
    BY <1>3

(* The search finds the last region that starts at v or before.            *)
LEMMA SearchFinds ==
    ASSUME NEW n \in Nat, NEW a \in [0..n-1 -> Int], NEW keys, NEW v \in Int,
           \A i, k \in 0..n-1 : i < k => a[i] <= a[k],
           \A o \in 0..n-1 : keys[o] = a[construct_eytzinger_order(n)[o]]
    PROVE  Found(n, a, v, construct_eytzinger_order(n), 0, n,
                 Strip(n)[Descend(n, keys, v)[1]], 0)
  <1>1. PICK order : order = construct_eytzinger_order(n)
    OBVIOUS
  <1>2. SearchClaim(n, a, order, keys, v, 0)
    BY <1>1, SearchClaims
  <1>3. EytzingerWalk(n)[0][0].next = n
    BY OrderCoversAll
  <1>4. Strip(n)[1] = 0
    <2>1. 1 \in 1..2*n+1 /\ ~(1 % 2 = 0) /\ 1 \div 2 = 0
      OBVIOUS
    <2>2. QED
      BY <2>1, StripRec
  <1>5. 0 + 1 = 1 /\ 0 \in Nat /\ n <= n
    OBVIOUS
  <1>6. QED
    BY <1>1, <1>2, <1>3, <1>4, <1>5 DEF SearchClaim, construct_eytzinger_order

-----------------------------------------------------------------------------
(* Arithmetic.                                                             *)

(* Division with remainder.                                                *)
LEMMA Division ==
    ASSUME NEW x \in Nat, NEW S \in Nat \ {0}
    PROVE  /\ x \div S \in Nat /\ x % S \in Nat /\ x % S < S
           /\ x = S * (x \div S) + (x % S)
  OBVIOUS

(* Its quotient is unique.                                                 *)
LEMMA Unique ==
    ASSUME NEW S \in Nat \ {0}, NEW q \in Nat, NEW r \in Nat, r < S
    PROVE  (S * q + r) \div S = q
  OBVIOUS

(* It is monotone.                                                         *)
LEMMA Mono ==
    ASSUME NEW S \in Nat \ {0}, NEW x \in Nat, NEW y \in Nat, x <= y
    PROVE  x \div S <= y \div S
  OBVIOUS

(* Multiples are a divisor apart.                                          *)
LEMMA Mult ==
    ASSUME NEW S \in Nat \ {0}, NEW p \in Nat, NEW q \in Nat, p < q
    PROVE  S * p + S <= S * q
  OBVIOUS

(* Powers of two, as the number of subsets of an interval.                 *)
LEMMA PowersOfTwo ==
    ASSUME NEW k \in Nat
    PROVE  2^k \in Nat \ {0} /\ 2^(k + 1) = 2 * 2^k
  <1> DEFINE S == 1..k
             A == SUBSET S
             Add == [T \in A |-> T \cup {0}]
             B == {T \cup {0} : T \in A}
  <1>1. IsFiniteSet(S) /\ Cardinality(S) = k
    BY FS_Interval
  <1>2. IsFiniteSet(A) /\ Cardinality(A) = 2^k /\ Cardinality(A) \in Nat
    BY <1>1, FS_SUBSET, FS_CardinalityType
  <1>3. 0 \notin S
    OBVIOUS
  <1>4. IsFiniteSet(S \cup {0}) /\ Cardinality(S \cup {0}) = k + 1
    BY <1>1, <1>3, FS_AddElement
  <1>5. Cardinality(SUBSET (S \cup {0})) = 2^(k + 1)
    BY <1>4, FS_SUBSET
  <1> HIDE DEF S
  <1>6. SUBSET (S \cup {0}) = A \cup B
    <2>1. ASSUME NEW T \in SUBSET (S \cup {0}) PROVE T \in A \cup B
      <3>1. CASE 0 \in T
        <4>1. T \ {0} \in A /\ T = (T \ {0}) \cup {0}
          BY <3>1
        <4>2. QED
          BY <4>1
      <3>2. CASE 0 \notin T
        BY <3>2
      <3>3. QED
        BY <3>1, <3>2
    <2>2. QED
      BY <2>1
  <1>7. A \cap B = {}
    BY <1>3
  <1>8. ExistsBijection(A, B)
    <2>1. Add \in [A -> B]
      OBVIOUS
    <2>2. ASSUME NEW T \in A, NEW U \in A, Add[T] = Add[U] PROVE T = U
      <3>1. T \cup {0} = U \cup {0} /\ 0 \notin T /\ 0 \notin U
        BY <1>3, <2>2
      <3>2. QED
        BY <3>1
    <2>3. \A u \in B : \E T \in A : Add[T] = u
      OBVIOUS
    <2> HIDE DEF A, B, Add
    <2>4. QED
      BY <2>1, <2>2, <2>3
         DEF ExistsBijection, Bijection, Injection, Surjection, IsInjective
  <1> HIDE DEF A, B
  <1>9. IsFiniteSet(B) /\ Cardinality(B) = Cardinality(A)
    BY <1>2, <1>8, FS_Bijection
  <1>10. Cardinality(A \cup B) = Cardinality(A) + Cardinality(B) - Cardinality(A \cap B)
    BY <1>2, <1>9, FS_Union
  <1>11. Cardinality(A \cap B) = 0 /\ (Cardinality(A) = 0 => A = {})
    BY <1>2, <1>7, FS_EmptySet
  <1>12. A # {}
    BY DEF A
  <1>13. PICK c \in Nat : c = Cardinality(A)
    BY <1>2
  <1>14. 2^k = c /\ 2^(k + 1) = c + c - 0 /\ c # 0
    BY <1>2, <1>5, <1>6, <1>9, <1>10, <1>11, <1>12, <1>13
  <1>15. QED
    BY <1>14

-----------------------------------------------------------------------------
(* The inductive invariant.                                                *)

(* Regions are numbered from 0.                                            *)
Numbered ==
    /\ Count \in Nat /\ DOMAIN regions = 0..Count-1
    /\ \A i \in 0..Count-1 : IsRegion(regions[i])

(* The search structure of an unaligned mapping: the regions follow one    *)
(* another, and the tree holds where they start.                           *)
Searchable ==
    /\ \A i, k \in 0..Count-1 : i < k => regions[i].vm_addr <= regions[k].vm_addr
    /\ \A i \in 1..Count-1 : RangeEnd(regions[i - 1]) <= regions[i].vm_addr
    /\ region_index_lookup = construct_eytzinger_order(Count)
    /\ \A o \in 0..Count-1 :
          region_addresses[o] = regions[region_index_lookup[o]].vm_addr

(* What is cached is the range of the region it names.                     *)
Cached ==
    /\ head \in 0..CacheSize-1 /\ DOMAIN entries = 0..CacheSize-1
    /\ \A c \in 0..CacheSize-1 :
          \/ entries[c].end = 0 /\ entries[c].first = 0
          \/ \E i \in 0..Count-1 :
                entries[c] = [first |-> regions[i].vm_addr, end |-> RangeEnd(regions[i]),
                              index |-> i]

(* Up to where the constructor of an aligned mapping has come, each region *)
(* is in the slot of its number; it ends there if those given do.          *)
Slotted ==
    /\ expected_region_index \in Nat
    /\ \A i \in 0..Count-1 :
          state = "ready" \/ (state = "aligning" /\ i < expected_region_index)
              => Slot(regions[i].vm_addr) = i
    /\ (\A r \in given : InSlot(r)) => \A i \in 0..Count-1 : InSlot(regions[i])

MInv ==
    /\ given \in RegionSets
    /\ kind \in {"aligned", "unaligned"} /\ allow_memory_region_zero \in BOOLEAN
    /\ state = "new" => expected_region_index = 0 /\ Count = 0
    /\ Numbered
    /\ kind = "aligned" => Slotted
    /\ kind = "unaligned" => Cached /\ state # "aligning"
    /\ kind = "unaligned" /\ state = "ready" => Searchable

-----------------------------------------------------------------------------
(* Addresses and ranges.                                                   *)

(* The largest address, and half of the address space.                     *)
LEMMA AddressFacts ==
    /\ MaxAddr \in Nat /\ Continuous \in Nat /\ 2^AddrBits \in Nat
    /\ 2^Continuous \in Nat \ {0} /\ 2^AddrBits = 2 * 2^Continuous
    /\ 2^(AddrBits - 1) = 2^Continuous
    /\ MaxAddr + 1 = 2^AddrBits
  <1>1. AddrBits \in Nat \ {0}
    BY AddressAssumption
  <1>2. PICK k \in Nat : k = AddrBits - 1
    BY <1>1
  <1>3. Continuous = k /\ AddrBits = k + 1
    BY <1>1, <1>2 DEF Continuous
  <1>4. 2^k \in Nat \ {0} /\ 2^(k + 1) = 2 * 2^k
    BY PowersOfTwo
  <1>5. PICK c \in Nat \ {0} : c = 2^k
    BY <1>4
  <1>6. 2^AddrBits = 2 * c /\ 2^Continuous = c /\ 2^(AddrBits - 1) = c
    BY <1>2, <1>3, <1>4, <1>5
  <1>7. MaxAddr = 2 * c - 1
    BY <1>6 DEF MaxAddr
  <1>8. QED
    BY <1>3, <1>6, <1>7

(* Slots are numbers.                                                      *)
LEMMA SlotFacts ==
    ASSUME NEW x \in Nat
    PROVE  RegionSize \in Nat \ {0} /\ Slot(x) \in Nat
  <1>1. RegionSize \in Nat \ {0}
    BY AddressAssumption, AddressFacts
  <1>2. QED
    BY <1>1, Division DEF Slot

(* A larger address is in no smaller slot.                                 *)
LEMMA SlotMono ==
    ASSUME NEW x \in Nat, NEW y \in Nat, x <= y
    PROVE  Slot(x) <= Slot(y)
  BY SlotFacts, Mono DEF Slot

(* The e-th slot starts at e times its size.                               *)
LEMMA SlotStart ==
    ASSUME NEW e \in Nat
    PROVE  e * RegionSize \in Nat /\ Slot(e * RegionSize) = e
  <1>1. PICK S \in Nat \ {0} : S = RegionSize
    BY SlotFacts
  <1>2. (S * e + 0) \div S = e
    BY Unique
  <1>3. e * S = S * e + 0 /\ e * S \in Nat
    OBVIOUS
  <1>4. QED
    BY <1>1, <1>2, <1>3 DEF Slot

(* The range of a region, when it is not cut off at the largest address.   *)
LEMMA RegionFacts ==
    ASSUME NEW r, IsRegion(r)
    PROVE  /\ r.vm_addr \in Nat /\ r.vm_addr <= MaxAddr
           /\ r.host_addr \in Nat /\ r.len \in Nat
           /\ r.host_addr + r.len <= MaxAddr
           /\ r.vm_gap_shift \in Nat /\ r.len < 2^Continuous
           /\ RangeEnd(r) \in Nat /\ r.vm_addr <= RangeEnd(r) /\ RangeEnd(r) <= MaxAddr
           /\ r.vm_gap_shift = Continuous /\ r.vm_addr + r.len <= MaxAddr
                => RangeEnd(r) = r.vm_addr + r.len
           /\ LastAddr(r) \in Nat /\ r.vm_addr <= LastAddr(r)
           /\ r.vm_addr + r.len <= MaxAddr /\ r.len # 0
                => LastAddr(r) = r.vm_addr + r.len - 1
  <1>1. PICK m \in Nat : m = MaxAddr
    BY AddressFacts
  <1>2. PICK c \in Nat : c = 2^(AddrBits - 1) /\ c = 2^Continuous /\ Continuous \in Nat
    BY AddressFacts
  <1>3. /\ r.vm_addr \in 0..m /\ r.host_addr \in 0..m
        /\ r.len \in 0..c-1 /\ r.host_addr + r.len <= m
        /\ r.vm_gap_shift \in 0..Continuous
    BY <1>1, <1>2 DEF IsRegion, Addrs
  <1>4. \A x \in Nat : Saturating(x) \in 0..m /\ Saturating(x) = IF x > m THEN m ELSE x
    BY <1>1 DEF Saturating
  <1>5. Saturating(2 * r.len) \in Nat
    BY <1>3, <1>4
  <1>6. PICK d \in Nat : d = IF r.vm_gap_shift = Continuous THEN r.len
                             ELSE Saturating(2 * r.len)
    BY <1>3, <1>5
  <1>7. RangeEnd(r) = IF r.vm_addr + d > m THEN m ELSE r.vm_addr + d
    BY <1>3, <1>4, <1>6 DEF RangeEnd
  <1>8. PICK l \in Nat : l = IF r.len = 0 THEN 0 ELSE r.len - 1
    BY <1>3
  <1>9. LastAddr(r) = IF r.vm_addr + l > m THEN m ELSE r.vm_addr + l
    BY <1>3, <1>4, <1>8 DEF LastAddr
  <1>10. QED
    BY <1>1, <1>2, <1>3, <1>6, <1>7, <1>8, <1>9

(* An empty region is a region, and in its slot.                           *)
LEMMA EmptyFacts ==
    ASSUME NEW at \in Nat, at <= MaxAddr
    PROVE  /\ IsRegion(EmptyRegion(at)) /\ EmptyRegion(at).vm_addr = at
           /\ InSlot(EmptyRegion(at))
  <1>1. PICK m \in Nat : m = MaxAddr
    BY AddressFacts
  <1>2. PICK c \in Nat \ {0} : c = 2^(AddrBits - 1) /\ Continuous \in Nat
    BY AddressFacts
  <1>3. IsRegion(EmptyRegion(at))
    BY <1>1, <1>2 DEF IsRegion, EmptyRegion, Addrs
  <1>4. LastAddr(EmptyRegion(at)) = at
    BY <1>1 DEF LastAddr, EmptyRegion, Saturating
  <1>5. QED
    BY <1>3, <1>4 DEF InSlot, EmptyRegion

(* What sorting the regions given to a constructor leaves.                 *)
LEMMA SortedFacts ==
    ASSUME NEW S \in RegionSets, NEW f \in Sorted(S)
    PROVE  /\ Cardinality(S) \in Nat /\ DOMAIN f = 0..Cardinality(S)-1
           /\ Cardinality(DOMAIN f) = Cardinality(S)
           /\ \A i \in 0..Cardinality(S)-1 : f[i] \in S /\ IsRegion(f[i])
           /\ \A i, k \in 0..Cardinality(S)-1 : i < k => f[i].vm_addr <= f[k].vm_addr
  <1>1. IsFiniteSet(S) /\ S \subseteq Regions
    BY MappingAssumption
  <1>2. PICK n \in Nat : n = Cardinality(S)
    BY <1>1, FS_CardinalityType
  <1>3. /\ f \in [0..n-1 -> S] /\ DOMAIN f = 0..n-1
        /\ \A i, k \in DOMAIN f : i < k => f[i] # f[k] /\ f[i].vm_addr <= f[k].vm_addr
    BY <1>2 DEF Sorted
  <1>4. Cardinality(0..n-1) = n
    BY FS_Interval
  <1>5. \A i \in 0..n-1 : f[i] \in S /\ IsRegion(f[i])
    BY <1>1, <1>3, MappingAssumption
  <1>6. QED
    BY <1>2, <1>3, <1>4, <1>5

(* Inserting a region before the `at'-th.                                  *)
LEMMA InsertFacts ==
    ASSUME NEW n \in Nat, NEW rs, DOMAIN rs = 0..n-1, NEW at \in 0..n, NEW r
    PROVE  LET q == InsertRegion(rs, at, r)
           IN  /\ DOMAIN q = 0..n /\ Cardinality(DOMAIN q) = n + 1
               /\ \A i \in 0..n : q[i] = IF i < at THEN rs[i]
                                         ELSE IF i = at THEN r ELSE rs[i - 1]
  <1>1. Cardinality(0..n-1) = n /\ Cardinality(0..n) = n + 1
    BY FS_Interval
  <1>2. QED
    BY <1>1 DEF InsertRegion

-----------------------------------------------------------------------------
(* find_region.                                                            *)

(* The i-th region is the last that starts at or before v.                 *)
Owner(v, i) ==
    /\ i \in 0..Count-1 /\ regions[i].vm_addr <= v
    /\ \A k \in 0..Count-1 : regions[k].vm_addr <= v => k <= i

(* A set of numbers has a least one.                                       *)
LEMMA LeastNat ==
    ASSUME NEW T, T \subseteq Nat, T # {}
    PROVE  \E x \in T : \A y \in T : x <= y
  <1>1. \E x \in T : \A y \in T : ~(<<y, x>> \in OpToRel(<, Nat))
    BY NatLessThanWellFounded, WFMin
  <1>2. ASSUME NEW x \in T, \A y \in T : ~(<<y, x>> \in OpToRel(<, Nat))
        PROVE  \A y \in T : x <= y
    <2>1. ASSUME NEW y \in T, y < x PROVE FALSE
      <3>1. <<y, x>> \in OpToRel(<, Nat)
        BY <2>1 DEF OpToRel
      <3>2. QED
        BY <1>2, <3>1
    <2>2. \A y \in T : x \in Nat /\ y \in Nat /\ ~(y < x)
      BY <2>1
    <2>3. QED
      BY <2>2
  <1>3. QED
    BY <1>1, <1>2

(* A region ends before any later one starts.                              *)
LEMMA Apart ==
    ASSUME Numbered, Searchable, NEW j \in 0..Count-1, NEW k \in 0..Count-1, j < k
    PROVE  RangeEnd(regions[j]) <= regions[k].vm_addr
  <1>1. PICK n \in Nat : n = Count
    BY DEF Numbered
  <1>2. PICK i \in 1..n-1 : i = j + 1
    BY <1>1
  <1>3. RangeEnd(regions[i - 1]) <= regions[i].vm_addr /\ i - 1 = j
    BY <1>1, <1>2 DEF Searchable
  <1>4. i = k \/ regions[i].vm_addr <= regions[k].vm_addr
    BY <1>1, <1>2 DEF Searchable
  <1>5. /\ RangeEnd(regions[j]) \in Nat /\ regions[i].vm_addr \in Nat
        /\ regions[k].vm_addr \in Nat
    BY <1>1, <1>2, RegionFacts DEF Numbered
  <1>6. QED
    BY <1>3, <1>4, <1>5

(* The region an address is in the range of is its owner.                  *)
LEMMA InRangeOwns ==
    ASSUME Numbered, Searchable, NEW v \in Nat, NEW j \in 0..Count-1,
           regions[j].vm_addr <= v, v < RangeEnd(regions[j])
    PROVE  Owner(v, j)
  <1>1. ASSUME NEW k \in 0..Count-1, regions[k].vm_addr <= v, ~(k <= j) PROVE FALSE
    <2>1. j < k
      BY <1>1 DEF Numbered
    <2>2. RangeEnd(regions[j]) <= regions[k].vm_addr
      BY <2>1, Apart
    <2>3. RangeEnd(regions[j]) \in Nat /\ regions[k].vm_addr \in Nat
      BY RegionFacts DEF Numbered
    <2>4. QED
      BY <1>1, <2>2, <2>3
  <1>2. QED
    BY <1>1 DEF Owner

(* Every entry of the cache is within reach of the scan.                   *)
LEMMA ScanReaches ==
    ASSUME NEW S \in Nat \ {0}, NEW h \in 0..S-1, NEW c \in 0..S-1
    PROVE  \E i \in 0..S-1 : (h + i) % S = c
  <1>1. ASSUME NEW i \in 0..S-1, h + i = c PROVE (h + i) % S = c
    BY <1>1
  <1>2. ASSUME NEW i \in 0..S-1, h + i = S + c PROVE (h + i) % S = c
    <2>1. PICK q \in Nat : q = (S + c) \div S
      BY Division
    <2>2. (S * 1 + c) \div S = 1
      BY Unique
    <2>3. S + c = S * q + ((S + c) % S) /\ (S + c) % S \in Nat
      BY <2>1, Division
    <2>4. (S + c) % S = c
      BY <2>1, <2>2, <2>3
    <2>5. QED
      BY <1>2, <2>4
  <1>3. \E i \in 0..S-1 : h + i = c \/ h + i = S + c
    <2>1. CASE h <= c
      <3>1. c - h \in 0..S-1 /\ h + (c - h) = c
        BY <2>1
      <3>2. QED
        BY <3>1
    <2>2. CASE c < h
      <3>1. S + c - h \in 0..S-1 /\ h + (S + c - h) = S + c
        BY <2>2
      <3>2. QED
        BY <3>1
    <2>3. QED
      BY <2>1, <2>2
  <1>4. QED
    BY <1>1, <1>2, <1>3

(* What the cache returns.                                                 *)
LEMMA CacheReturns ==
    ASSUME Numbered, Cached, NEW v \in Nat, CacheHit(v)
    PROVE  /\ CacheFind(v) \in 0..Count-1
           /\ regions[CacheFind(v)].vm_addr <= v /\ v < RangeEnd(regions[CacheFind(v)])
  <1> DEFINE at(i) == entries[(head + i) % CacheSize]
             T == {i \in 0..CacheSize-1 : Covers(at(i), v)}
  <1>1. CacheSize \in Nat \ {0} /\ head \in 0..CacheSize-1
    BY MappingAssumption DEF Cached
  <1>2. PICK c \in 0..CacheSize-1 : Covers(entries[c], v)
    BY DEF CacheHit
  <1>3. PICK i \in 0..CacheSize-1 : (head + i) % CacheSize = c
    BY <1>1, ScanReaches
  <1>4. i \in T
    BY <1>2, <1>3
  <1>5. PICK m \in T : \A y \in T : m <= y
    <2>1. 0..CacheSize-1 \subseteq Nat
      BY <1>1
    <2>2. T \subseteq Nat /\ T # {}
      BY <1>4, <2>1
    <2> HIDE DEF T
    <2>3. QED
      BY <2>2, LeastNat
  <1>6. m \in 0..CacheSize-1 /\ Covers(at(m), v) /\ \A k \in 0..m-1 : ~Covers(at(k), v)
    BY <1>1, <1>5
  <1> DEFINE d == CHOOSE x \in 0..CacheSize-1 :
                     Covers(at(x), v) /\ \A k \in 0..x-1 : ~Covers(at(k), v)
  <1>7. d \in 0..CacheSize-1 /\ Covers(at(d), v)
    <2>1. \E x \in 0..CacheSize-1 :
             Covers(at(x), v) /\ \A k \in 0..x-1 : ~Covers(at(k), v)
      BY <1>6
    <2> HIDE DEF at
    <2>2. QED
      BY <2>1
  <1>8. CacheFind(v) = at(d).index
    BY DEF CacheFind
  <1> HIDE DEF d, T
  <1>9. PICK b : b = (head + d) % CacheSize /\ b \in 0..CacheSize-1
    <2>1. head + d \in Nat
      BY <1>1, <1>7
    <2>2. (head + d) % CacheSize \in 0..CacheSize-1
      BY <1>1, <2>1, Division
    <2>3. QED
      BY <2>2
  <1>10. Covers(entries[b], v) /\ CacheFind(v) = entries[b].index
    BY <1>7, <1>8, <1>9
  <1>11. PICK j \in 0..Count-1 :
            entries[b] = [first |-> regions[j].vm_addr, end |-> RangeEnd(regions[j]),
                          index |-> j]
    BY <1>9, <1>10 DEF Cached, Covers
  <1>12. QED
    BY <1>10, <1>11 DEF Covers

(* What the search of the tree returns.                                    *)
LEMMA SearchReturns ==
    ASSUME Numbered, Searchable, NEW v \in Nat
    PROVE  LET t == EytzingerSearch(v)
           IN  IF \E k \in 0..Count-1 : regions[k].vm_addr <= v
               THEN t # 0 /\ Owner(v, region_index_lookup[t - 1])
               ELSE t = 0
  <1>1. PICK n \in Nat : n = Count
    BY DEF Numbered
  <1>2. PICK a : a = [i \in 0..n-1 |-> regions[i].vm_addr]
    OBVIOUS
  <1>3. \A i \in 0..n-1 : regions[i].vm_addr \in Nat
    BY <1>1, RegionFacts DEF Numbered
  <1>4. a \in [0..n-1 -> Int] /\ \A i \in 0..n-1 : a[i] = regions[i].vm_addr
    BY <1>2, <1>3
  <1>5. \A i, k \in 0..n-1 : i < k => a[i] <= a[k]
    <2>1. \A i, k \in 0..n-1 : i < k => regions[i].vm_addr <= regions[k].vm_addr
      BY <1>1 DEF Searchable
    <2>2. QED
      BY <1>4, <2>1
  <1>6. PICK order : order = construct_eytzinger_order(n) /\ order = region_index_lookup
    BY <1>1 DEF Searchable
  <1>7. \A o \in 0..n-1 : order[o] \in 0..n-1
    BY <1>6, OrderValues
  <1>8. \A o \in 0..n-1 : region_addresses[o] = a[order[o]]
    BY <1>1, <1>4, <1>6, <1>7, ZenonT(60) DEF Searchable
  <1>9. PICK t : t = Strip(n)[Descend(n, region_addresses, v)[1]]
    OBVIOUS
  <1>10. Found(n, a, v, order, 0, n, t, 0)
    <2>1. v \in Int
      OBVIOUS
    <2>2. QED
      BY <1>4, <1>5, <1>6, <1>8, <1>9, <2>1, SearchFinds, ZenonT(60)
  <1>11. EytzingerSearch(v) = t
    BY <1>1, <1>9 DEF EytzingerSearch
  <1>12. CASE \E k \in 0..n-1 : regions[k].vm_addr <= v
    <2>1. t - 1 \in 0..n-1 /\ LastStart(a, v, 0, n, order[t - 1])
      BY <1>4, <1>10, <1>12 DEF Found
    <2>2. t # 0
      BY <2>1
    <2>3. Owner(v, order[t - 1])
      BY <1>1, <1>4, <2>1 DEF LastStart, Owner
    <2>4. QED
      BY <1>1, <1>6, <1>11, <1>12, <2>2, <2>3
  <1>13. CASE ~\E k \in 0..n-1 : regions[k].vm_addr <= v
    <2>1. t = 0
      BY <1>4, <1>10, <1>13 DEF Found
    <2>2. QED
      BY <1>1, <1>11, <1>13, <2>1
  <1>14. QED
    BY <1>12, <1>13

(* find_region of an unaligned mapping, whether cached or searched for.    *)
LEMMA FindsLast ==
    ASSUME Numbered, Searchable, Cached, NEW v \in Nat
    PROVE  IF \E k \in 0..Count-1 : regions[k].vm_addr <= v
           THEN FindUnaligned(v) # NoRegion /\ Owner(v, FindUnaligned(v))
           ELSE FindUnaligned(v) = NoRegion
  <1>1. CASE CacheHit(v)
    <2>1. PICK j : j = CacheFind(v) /\ FindUnaligned(v) = j
      BY <1>1 DEF FindUnaligned
    <2>2. j \in 0..Count-1 /\ regions[j].vm_addr <= v /\ v < RangeEnd(regions[j])
      BY <1>1, <2>1, CacheReturns
    <2>3. Owner(v, j)
      BY <2>2, InRangeOwns
    <2>4. j # NoRegion
      BY <2>2 DEF NoRegion
    <2>5. QED
      BY <2>1, <2>2, <2>3, <2>4
  <1>2. CASE ~CacheHit(v)
    <2>1. PICK t : t = EytzingerSearch(v)
      OBVIOUS
    <2>2. FindUnaligned(v) = IF t = 0 THEN NoRegion ELSE region_index_lookup[t - 1]
      BY <1>2, <2>1 DEF FindUnaligned
    <2>3. CASE \E k \in 0..Count-1 : regions[k].vm_addr <= v
      <3>1. t # 0 /\ Owner(v, region_index_lookup[t - 1])
        BY <2>1, <2>3, SearchReturns
      <3>2. FindUnaligned(v) = region_index_lookup[t - 1]
        BY <2>2, <3>1
      <3>3. region_index_lookup[t - 1] # NoRegion
        BY <3>1 DEF Owner, NoRegion
      <3>4. QED
        BY <2>3, <3>1, <3>2, <3>3
    <2>4. CASE ~\E k \in 0..Count-1 : regions[k].vm_addr <= v
      BY <2>1, <2>2, <2>4, SearchReturns
    <2>5. QED
      BY <2>3, <2>4
  <1>3. QED
    BY <1>1, <1>2

(* find_region returns a region or none.                                   *)
LEMMA FindType ==
    ASSUME MInv, state = "ready", NEW v \in Nat, find_region(v) # NoRegion
    PROVE  find_region(v) \in 0..Count-1
  <1>1. CASE kind = "aligned"
    BY <1>1, SlotFacts DEF find_region, FindAligned, MInv, Numbered
  <1>2. CASE kind = "unaligned"
    <2>1. find_region(v) = FindUnaligned(v) /\ Numbered /\ Searchable /\ Cached
      BY <1>2 DEF find_region, MInv
    <2>2. Owner(v, FindUnaligned(v))
      BY <2>1, FindsLast
    <2>3. QED
      BY <2>1, <2>2 DEF Owner
  <1>3. QED
    BY <1>1, <1>2 DEF MInv

-----------------------------------------------------------------------------
(* The invariant holds initially and every step keeps it.                  *)

(* An empty cache.                                                         *)
LEMMA EmptyCache ==
    /\ DOMAIN NoEntries = 0..CacheSize-1 /\ 0 \in 0..CacheSize-1
    /\ \A c \in 0..CacheSize-1 : NoEntries[c].end = 0 /\ NoEntries[c].first = 0
  BY MappingAssumption DEF NoEntries

(* The invariant holds before a constructor is called.                     *)
LEMMA MInvInit == Init => MInv
  <1> SUFFICES ASSUME Init PROVE MInv
    OBVIOUS
  <1>1. DOMAIN regions = {} /\ Cardinality({}) = 0
    BY FS_EmptySet DEF Init
  <1>2. Count = 0 /\ 0..Count-1 = {}
    BY <1>1 DEF Count
  <1>3. Numbered
    BY <1>1, <1>2 DEF Numbered
  <1>4. Cached
    BY EmptyCache DEF Cached, Init
  <1>5. Slotted
    BY <1>2 DEF Slotted, Init
  <1>6. QED
    BY <1>2, <1>3, <1>4, <1>5 DEF MInv, Init

(* UnalignedMemoryMapping::new builds the tree of the regions it sorted.   *)
LEMMA NewUnalignedKeeps == MInv /\ NewUnaligned => MInv'
  <1> SUFFICES ASSUME MInv, NewUnaligned PROVE MInv'
    OBVIOUS
  <1>1. given \in RegionSets /\ regions' \in Sorted(given)
    BY DEF MInv, NewUnaligned
  <1>2. PICK n \in Nat : n = Cardinality(given)
    BY <1>1, SortedFacts
  <1>3. /\ DOMAIN regions' = 0..n-1 /\ Count' = n
        /\ \A i \in 0..n-1 : IsRegion(regions'[i])
        /\ \A i, k \in 0..n-1 : i < k => regions'[i].vm_addr <= regions'[k].vm_addr
    BY <1>1, <1>2, SortedFacts DEF Count
  <1>4. Numbered'
    BY <1>3 DEF Numbered
  <1>5. /\ kind' = kind /\ kind = "unaligned" /\ given' = given
        /\ allow_memory_region_zero' = allow_memory_region_zero
        /\ state' \in {"ready", "invalid"} /\ entries' = entries /\ head' = head
    BY DEF NewUnaligned
  <1>6. Cached'
    <2>1. state = "new" /\ Cached /\ Count = 0
      BY DEF MInv, NewUnaligned
    <2>2. QED
      BY <1>5, <2>1 DEF Cached
  <1>7. ASSUME state' = "ready" PROVE Searchable'
    <2>1. /\ ~\E i \in 1..n-1 : RangeEnd(regions'[i - 1]) > regions'[i].vm_addr
          /\ region_index_lookup' = construct_eytzinger_order(n)
          /\ region_addresses' =
                [i \in 0..n-1 |-> regions'[construct_eytzinger_order(n)[i]].vm_addr]
      BY <1>2, <1>7 DEF NewUnaligned
    <2>2. ASSUME NEW i \in 1..n-1 PROVE RangeEnd(regions'[i - 1]) <= regions'[i].vm_addr
      <3>1. i \in 0..n-1 /\ i - 1 \in 0..n-1
        OBVIOUS
      <3>2. RangeEnd(regions'[i - 1]) \in Nat /\ regions'[i].vm_addr \in Nat
        BY <1>3, <3>1, RegionFacts
      <3>3. ~(RangeEnd(regions'[i - 1]) > regions'[i].vm_addr)
        BY <2>1
      <3>4. QED
        BY <3>2, <3>3
    <2>3. QED
      BY <1>3, <2>1, <2>2 DEF Searchable
  <1>8. QED
    BY <1>1, <1>4, <1>5, <1>6, <1>7 DEF MInv

(* AlignedMemoryMapping::new starts with the regions it sorted.            *)
LEMMA NewAlignedKeeps == MInv /\ NewAligned => MInv'
  <1> SUFFICES ASSUME MInv, NewAligned PROVE MInv'
    OBVIOUS
  <1>1. given \in RegionSets /\ regions' \in Sorted(given)
    BY DEF MInv, NewAligned
  <1>2. PICK n \in Nat : n = Cardinality(given)
    BY <1>1, SortedFacts
  <1>3. /\ DOMAIN regions' = 0..n-1 /\ Count' = n
        /\ \A i \in 0..n-1 : IsRegion(regions'[i]) /\ regions'[i] \in given
    BY <1>1, <1>2, SortedFacts DEF Count
  <1>4. Numbered'
    BY <1>3 DEF Numbered
  <1>5. /\ kind' = kind /\ kind = "aligned" /\ given' = given /\ state' = "aligning"
        /\ allow_memory_region_zero' = allow_memory_region_zero
        /\ expected_region_index' = 0
    BY DEF NewAligned, MInv
  <1>6. Slotted'
    <2>1. \A i \in 0..n-1 : ~(i < 0)
      OBVIOUS
    <2>2. QED
      BY <1>3, <1>5, <2>1 DEF Slotted
  <1>7. QED
    BY <1>1, <1>4, <1>5, <1>6 DEF MInv

(* A turn of its loop puts one more region in its slot.                    *)
LEMMA AlignTurnKeeps == MInv /\ AlignTurn => MInv'
  <1> SUFFICES ASSUME MInv, AlignTurn PROVE MInv'
    OBVIOUS
  <1>1. /\ kind' = kind /\ kind = "aligned" /\ given' = given /\ state = "aligning"
        /\ allow_memory_region_zero' = allow_memory_region_zero
        /\ given \in RegionSets /\ allow_memory_region_zero \in BOOLEAN
        /\ Numbered /\ Slotted
    BY DEF AlignTurn, MInv
  <1>2. PICK n \in Nat : n = Count
    BY <1>1 DEF Numbered
  <1>3. PICK e \in Nat : e = expected_region_index
    BY <1>1 DEF Slotted
  <1>4. PICK actual : actual = Slot(regions[e].vm_addr)
    OBVIOUS
  <1>5. /\ e < n
        /\ regions' = IF actual > e THEN InsertRegion(regions, e, EmptyRegion(e * RegionSize))
                      ELSE regions
        /\ state' = IF actual < e THEN "invalid" ELSE "aligning"
        /\ expected_region_index' = IF actual < e THEN e ELSE e + 1
    BY <1>1, <1>2, <1>3, <1>4 DEF AlignTurn
  <1>6. /\ DOMAIN regions = 0..n-1
        /\ \A i \in 0..n-1 : IsRegion(regions[i])
        /\ \A i \in 0..n-1 : i < e => Slot(regions[i].vm_addr) = i
        /\ (\A r \in given : InSlot(r)) => \A i \in 0..n-1 : InSlot(regions[i])
    BY <1>1, <1>2, <1>3 DEF Numbered, Slotted
  <1>7. e \in 0..n-1 /\ regions[e].vm_addr \in Nat /\ regions[e].vm_addr <= MaxAddr
    BY <1>5, <1>6, RegionFacts
  <1>8. actual \in Nat
    BY <1>4, <1>7, SlotFacts
  <1>9. CASE actual > e
    <2>1. PICK r : r = EmptyRegion(e * RegionSize)
      OBVIOUS
    <2>2. e * RegionSize \in Nat /\ e * RegionSize <= MaxAddr
      <3>1. PICK S \in Nat \ {0} : S = RegionSize
        BY SlotFacts
      <3>2. PICK x \in Nat : x = regions[e].vm_addr
        BY <1>7
      <3>3. actual = x \div S /\ x = S * actual + (x % S) /\ x % S \in Nat
        <4>1. actual = x \div S
          BY <1>4, <3>1, <3>2 DEF Slot
        <4>2. x = S * (x \div S) + (x % S) /\ x % S \in Nat
          BY Division
        <4>3. QED
          BY <4>1, <4>2
      <3>4. S * e + S <= S * actual
        BY <1>8, <1>9, Mult
      <3>5. e * S \in Nat /\ e * S = S * e /\ S * e \in Nat /\ S * actual \in Nat
        BY <1>8
      <3>6. S * e <= x
        BY <3>3, <3>4, <3>5
      <3>7. QED
        BY <1>7, <3>1, <3>2, <3>5, <3>6, AddressFacts
    <2>3. IsRegion(r) /\ Slot(r.vm_addr) = e /\ InSlot(r)
      BY <2>1, <2>2, EmptyFacts, SlotStart
    <2>4. /\ DOMAIN regions' = 0..n /\ Count' = n + 1
          /\ \A i \in 0..n : regions'[i] = IF i < e THEN regions[i]
                                           ELSE IF i = e THEN r ELSE regions[i - 1]
      <3>1. e \in 0..n /\ regions' = InsertRegion(regions, e, r)
        BY <1>5, <1>9, <2>1
      <3>2. QED
        BY <1>6, <3>1, InsertFacts DEF Count
    <2>5. ASSUME NEW i \in 0..n
          PROVE  /\ i < e => i \in 0..n-1 /\ regions'[i] = regions[i]
                 /\ i = e => regions'[i] = r
                 /\ i > e => i - 1 \in 0..n-1 /\ regions'[i] = regions[i - 1]
                 /\ i < e \/ i = e \/ i > e
      BY <1>5, <2>4
    <2>6. \A i \in 0..n : IsRegion(regions'[i])
      BY <1>6, <2>3, <2>5
    <2>7. \A i \in 0..n : i < e + 1 => Slot(regions'[i].vm_addr) = i
      BY <1>6, <2>3, <2>5
    <2>8. (\A q \in given : InSlot(q)) => \A i \in 0..n : InSlot(regions'[i])
      BY <1>6, <2>3, <2>5
    <2>9. 0..Count'-1 = 0..n /\ Count' \in Nat
      BY <2>4
    <2>10. Numbered'
      BY <2>4, <2>6, <2>9 DEF Numbered
    <2>11. state' = "aligning" /\ expected_region_index' = e + 1 /\ e + 1 \in Nat
      BY <1>5, <1>8, <1>9
    <2>12. Slotted'
      BY <1>1, <2>7, <2>8, <2>9, <2>11 DEF Slotted
    <2>13. QED
      BY <1>1, <2>10, <2>11, <2>12 DEF MInv
  <1>10. CASE ~(actual > e)
    <2>1. regions' = regions /\ Count' = n
      BY <1>2, <1>5, <1>10 DEF Count
    <2>2. Numbered'
      BY <1>1, <1>2, <2>1 DEF Numbered
    <2>3. CASE actual < e
      <3>1. state' = "invalid" /\ expected_region_index' = e
        BY <1>5, <2>3
      <3>2. Slotted'
        BY <1>1, <1>6, <2>1, <3>1 DEF Slotted
      <3>3. QED
        BY <1>1, <2>2, <3>1, <3>2 DEF MInv
    <2>4. CASE actual = e
      <3>1. state' = "aligning" /\ expected_region_index' = e + 1
        BY <1>5, <2>4
      <3>2. \A i \in 0..n-1 : i < e + 1 => Slot(regions'[i].vm_addr) = i
        <4>1. \A i \in 0..n-1 : i < e + 1 => i < e \/ i = e
          OBVIOUS
        <4>2. QED
          BY <1>4, <1>6, <2>1, <2>4, <4>1
      <3>3. Slotted'
        BY <1>1, <1>6, <2>1, <3>1, <3>2 DEF Slotted
      <3>4. QED
        BY <1>1, <2>2, <3>1, <3>3 DEF MInv
    <2>5. QED
      BY <1>8, <1>10, <2>3, <2>4
  <1>11. QED
    BY <1>9, <1>10

(* When the loop ends every region is in its slot.                         *)
LEMMA AlignDoneKeeps == MInv /\ AlignDone => MInv'
  <1> SUFFICES ASSUME MInv, AlignDone PROVE MInv'
    OBVIOUS
  <1>1. /\ kind' = kind /\ kind = "aligned" /\ given' = given /\ state' = "ready"
        /\ state = "aligning" /\ allow_memory_region_zero' = allow_memory_region_zero
        /\ regions' = regions /\ expected_region_index' = expected_region_index
        /\ Numbered /\ Slotted /\ expected_region_index >= Count
    BY DEF AlignDone, MInv
  <1>2. Count' = Count /\ Count \in Nat /\ expected_region_index \in Nat
    BY <1>1 DEF Count, Numbered, Slotted
  <1>3. \A i \in 0..Count-1 : i < expected_region_index
    BY <1>1, <1>2
  <1>4. Numbered' /\ Slotted'
    BY <1>1, <1>2, <1>3 DEF Numbered, Slotted
  <1>5. QED
    BY <1>1, <1>4 DEF MInv

(* Without region zero every slot is checked at once.                      *)
LEMMA AlignWithoutZeroKeeps == MInv /\ AlignWithoutZero => MInv'
  <1> SUFFICES ASSUME MInv, AlignWithoutZero PROVE MInv'
    OBVIOUS
  <1>1. /\ kind' = kind /\ kind = "aligned" /\ given' = given /\ state = "aligning"
        /\ allow_memory_region_zero' = allow_memory_region_zero
        /\ given \in RegionSets /\ allow_memory_region_zero \in BOOLEAN
        /\ regions' = InsertRegion(regions, 0, EmptyRegion(0))
        /\ expected_region_index' = expected_region_index
        /\ Numbered /\ Slotted
    BY DEF AlignWithoutZero, MInv
  <1>2. PICK n \in Nat : n = Count
    BY <1>1 DEF Numbered
  <1>3. PICK r : r = EmptyRegion(0)
    OBVIOUS
  <1>4. IsRegion(r) /\ Slot(r.vm_addr) = 0 /\ InSlot(r)
    <2>1. 0 \in Nat /\ 0 <= MaxAddr /\ 0 * RegionSize = 0
      BY AddressFacts, SlotFacts
    <2>2. QED
      BY <1>3, <2>1, EmptyFacts, SlotStart
  <1>5. /\ DOMAIN regions' = 0..n /\ Count' = n + 1
        /\ \A i \in 0..n : regions'[i] = IF i < 0 THEN regions[i]
                                         ELSE IF i = 0 THEN r ELSE regions[i - 1]
    <2>1. DOMAIN regions = 0..n-1 /\ 0 \in 0..n
      BY <1>1, <1>2 DEF Numbered
    <2>2. QED
      BY <1>1, <1>3, <2>1, InsertFacts DEF Count
  <1>6. \A i \in 0..n : regions'[i] = r \/ \E k \in 0..n-1 : regions'[i] = regions[k]
    BY <1>5
  <1>7. 0..Count'-1 = 0..n /\ Count' \in Nat
    BY <1>5
  <1>8. Numbered'
    BY <1>1, <1>2, <1>4, <1>5, <1>6, <1>7 DEF Numbered
  <1>9. state' \in {"ready", "invalid"} /\ state' # "aligning" /\ state' # "new"
    BY DEF AlignWithoutZero
  <1>10. state' = "ready" => \A i \in 0..n : Slot(regions'[i].vm_addr) = i
    BY <1>5 DEF AlignWithoutZero
  <1>11. (\A q \in given : InSlot(q)) => \A i \in 0..n : InSlot(regions'[i])
    BY <1>1, <1>2, <1>4, <1>6, ZenonT(60) DEF Slotted
  <1>12. Slotted'
    BY <1>1, <1>7, <1>9, <1>10, <1>11 DEF Slotted
  <1>13. QED
    BY <1>1, <1>8, <1>9, <1>12 DEF MInv

(* What a search adds to the cache is the range of the region it found.    *)
LEMMA RememberKeeps ==
    ASSUME MInv, state = "ready", NEW v \in Nat, RememberSearch(v),
           regions' = regions, kind' = kind
    PROVE  kind = "unaligned" => Cached'
  <1>1. SUFFICES ASSUME kind = "unaligned" PROVE Cached'
    OBVIOUS
  <1>2. Numbered /\ Searchable /\ Cached /\ kind # "aligned"
    BY <1>1 DEF MInv
  <1>3. Count' = Count
    BY DEF Count
  <1>4. CASE UNCHANGED <<entries, head>>
    BY <1>2, <1>3, <1>4 DEF Cached
  <1>5. CASE ~UNCHANGED <<entries, head>>
    <2>1. PICK j : j = FindUnaligned(v)
      OBVIOUS
    <2>2. PICK h : h = (head - 1) % CacheSize
      OBVIOUS
    <2>3. /\ j # NoRegion /\ head' = h
          /\ entries' = [entries EXCEPT ![h] = [first |-> regions[j].vm_addr,
                                                end |-> RangeEnd(regions[j]), index |-> j]]
      BY <1>5, <2>1, <2>2 DEF RememberSearch, CacheInsert
    <2>4. j \in 0..Count-1
      BY <1>2, <2>1, <2>3, FindsLast DEF Owner
    <2>5. h \in 0..CacheSize-1
      BY <1>2, <2>2, MappingAssumption DEF Cached
    <2>6. /\ DOMAIN entries' = 0..CacheSize-1
          /\ entries'[h] = [first |-> regions[j].vm_addr, end |-> RangeEnd(regions[j]),
                            index |-> j]
          /\ \A c \in 0..CacheSize-1 : c # h => entries'[c] = entries[c]
      BY <1>2, <2>3, <2>5 DEF Cached
    <2>7. ASSUME NEW c \in 0..CacheSize-1
          PROVE  \/ entries'[c].end = 0 /\ entries'[c].first = 0
                 \/ \E i \in 0..Count-1 :
                       entries'[c] = [first |-> regions[i].vm_addr,
                                      end |-> RangeEnd(regions[i]), index |-> i]
      <3>1. CASE c = h
        BY <2>4, <2>6, <3>1
      <3>2. CASE c # h
        BY <1>2, <2>6, <3>2 DEF Cached
      <3>3. QED
        BY <3>1, <3>2
    <2>8. QED
      BY <1>3, <2>3, <2>5, <2>6, <2>7 DEF Cached
  <1>6. QED
    BY <1>4, <1>5

(* A translation changes only the cache.                                   *)
LEMMA MapKeeps ==
    ASSUME MInv, state = "ready", NEW v \in Nat, RememberSearch(v),
           UNCHANGED <<given, kind, allow_memory_region_zero, state, regions,
                       region_addresses, region_index_lookup, expected_region_index>>
    PROVE  MInv'
  <1>1. Count' = Count
    BY DEF Count
  <1>2. kind = "unaligned" => Cached'
    BY RememberKeeps
  <1>3. Numbered => Numbered'
    BY <1>1 DEF Numbered
  <1>4. Searchable => Searchable'
    BY <1>1 DEF Searchable
  <1>5. Slotted => Slotted'
    BY <1>1 DEF Slotted
  <1>6. QED
    BY <1>1, <1>2, <1>3, <1>4, <1>5 DEF MInv

(* Replacing a region by one that starts where it did, ends before the     *)
(* next and, if aligned, in its slot.                                      *)
LEMMA ReplaceKeeps ==
    ASSUME MInv, state = "ready", NEW index \in 0..Count-1, NEW region, IsRegion(region),
           Replaceable(index, region), DoReplace(index, region),
           UNCHANGED <<given, kind, allow_memory_region_zero, state, region_addresses,
                       region_index_lookup, expected_region_index>>
    PROVE  MInv'
  <1>1. Numbered
    BY DEF MInv
  <1>2. PICK n \in Nat : n = Count
    BY <1>1 DEF Numbered
  <1>3. /\ DOMAIN regions = 0..n-1 /\ index \in 0..n-1
        /\ \A i \in 0..n-1 : IsRegion(regions[i])
    BY <1>1, <1>2 DEF Numbered
  <1>4. regions' = [regions EXCEPT ![index] = region]
    BY DEF DoReplace
  <1>5. /\ DOMAIN regions' = 0..n-1 /\ regions'[index] = region
        /\ \A i \in 0..n-1 : i # index => regions'[i] = regions[i]
    BY <1>3, <1>4
  <1>6. Count' = n
    BY <1>2, <1>3, <1>5 DEF Count
  <1>7. Numbered'
    BY <1>3, <1>5, <1>6 DEF Numbered
  <1>8. region.vm_addr = regions[index].vm_addr
    BY DEF Replaceable
  <1>9. \A i \in 0..n-1 : regions'[i].vm_addr = regions[i].vm_addr
    BY <1>5, <1>8
  <1>10. ASSUME kind = "unaligned" PROVE Cached'
    <2>1. entries' = NoEntries /\ head' = 0
      BY <1>10 DEF DoReplace, CacheFlush
    <2>2. QED
      BY <2>1, EmptyCache DEF Cached
  <1>11. ASSUME kind = "unaligned" PROVE Searchable'
    <2>1. Searchable
      BY <1>11 DEF MInv
    <2>2. \A i, k \in 0..n-1 : i < k => regions'[i].vm_addr <= regions'[k].vm_addr
      BY <1>2, <1>9, <2>1 DEF Searchable
    <2>3. ASSUME NEW i \in 1..n-1 PROVE RangeEnd(regions'[i - 1]) <= regions'[i].vm_addr
      <3>1. i - 1 \in 0..n-1 /\ i \in 0..n-1 /\ (i - 1) + 1 = i /\ i < n
        OBVIOUS
      <3>2. CASE i - 1 = index
        <4>1. index + 1 = i
          BY <3>1, <3>2
        <4>2. RangeEnd(region) <= regions[i].vm_addr
          BY <1>2, <3>1, <4>1 DEF Replaceable, NextStart
        <4>3. QED
          BY <1>5, <1>9, <3>1, <3>2, <4>2
      <3>3. CASE i - 1 # index
        <4>1. RangeEnd(regions[i - 1]) <= regions[i].vm_addr
          BY <1>2, <2>1 DEF Searchable
        <4>2. QED
          BY <1>5, <1>9, <3>1, <3>3, <4>1
      <3>4. QED
        BY <3>2, <3>3
    <2>4. region_index_lookup = construct_eytzinger_order(n)
      BY <1>2, <2>1 DEF Searchable
    <2>5. \A o \in 0..n-1 :
             region_addresses'[o] = regions'[region_index_lookup'[o]].vm_addr
      <3>1. \A o \in 0..n-1 : region_index_lookup[o] \in 0..n-1
        BY <2>4, OrderValues
      <3>2. QED
        BY <1>2, <1>9, <2>1, <3>1 DEF Searchable
    <2>6. QED
      BY <1>6, <2>2, <2>3, <2>4, <2>5 DEF Searchable
  <1>12. ASSUME kind = "aligned" PROVE Slotted'
    <2>1. Slotted /\ Slot(LastAddr(region)) = index /\ Slot(region.vm_addr) = index
      BY <1>12 DEF MInv, Replaceable
    <2>2. InSlot(region)
      BY <2>1 DEF InSlot
    <2>3. QED
      BY <1>2, <1>5, <1>6, <1>9, <2>1, <2>2 DEF Slotted
  <1>13. QED
    BY <1>7, <1>10, <1>11, <1>12 DEF MInv

(* Every step keeps the invariant.                                         *)
LEMMA MInvStep == MInv /\ [Next]_vars => MInv'
  <1> SUFFICES ASSUME MInv, [Next]_vars PROVE MInv'
    OBVIOUS
  <1>1. Numbered
    BY DEF MInv
  <1>2. AccessAddrs \subseteq Nat
    BY MappingAssumption, AddressFacts DEF Addrs
  <1>3. CASE NewUnaligned \/ NewAligned \/ AlignTurn \/ AlignDone \/ AlignWithoutZero
    BY <1>3, NewUnalignedKeeps, NewAlignedKeeps, AlignTurnKeeps, AlignDoneKeeps,
       AlignWithoutZeroKeeps
  <1>4. ASSUME NEW vm_addr \in AccessAddrs, Map(vm_addr) PROVE MInv'
    BY <1>2, <1>4, MapKeeps DEF Map
  <1>5. ASSUME NEW access, NEW vm_addr \in AccessAddrs, NEW len,
               AccessViolation(access, vm_addr, len)
        PROVE  MInv'
    <2>1. /\ state = "ready" /\ find_region(vm_addr) # NoRegion
          /\ UNCHANGED <<given, kind, allow_memory_region_zero, state, region_addresses,
                         region_index_lookup, expected_region_index>>
      BY <1>5 DEF AccessViolation
    <2>2. PICK index \in 0..Count-1 : index = find_region(vm_addr)
      BY <1>2, <2>1, FindType
    <2>3. PICK region \in Regions \cup {regions[index]} :
             \/ Replaceable(index, region) /\ DoReplace(index, region)
             \/ RememberSearch(vm_addr) /\ UNCHANGED regions
      BY <1>5, <2>2 DEF AccessViolation
    <2>4. IsRegion(region)
      BY <1>1, MappingAssumption DEF Numbered
    <2>5. CASE Replaceable(index, region) /\ DoReplace(index, region)
      BY <2>1, <2>4, <2>5, ReplaceKeeps
    <2>6. CASE RememberSearch(vm_addr) /\ UNCHANGED regions
      BY <1>2, <2>1, <2>6, MapKeeps
    <2>7. QED
      BY <2>3, <2>5, <2>6
  <1>6. ASSUME NEW index \in DOMAIN regions, NEW region \in Regions,
               ReplaceRegion(index, region)
        PROVE  MInv'
    <2>1. index \in 0..Count-1 /\ IsRegion(region)
      BY <1>1, MappingAssumption DEF Numbered
    <2>2. QED
      BY <1>6, <2>1, ReplaceKeeps DEF ReplaceRegion
  <1>7. CASE UNCHANGED vars
    <2>1. UNCHANGED <<given, kind, allow_memory_region_zero, state, regions,
                      region_addresses, region_index_lookup, expected_region_index>>
          /\ entries' = entries /\ head' = head
      BY <1>7 DEF vars, unalignedVars
    <2>2. Count' = Count
      BY <2>1 DEF Count
    <2>3. QED
      BY <2>1, <2>2 DEF MInv, Numbered, Searchable, Cached, Slotted
  <1>8. QED
    BY <1>3, <1>4, <1>5, <1>6, <1>7 DEF Next

(* The invariant holds throughout.                                         *)
LEMMA MappingInvariant == Spec => []MInv
  BY MInvInit, MInvStep, PTL DEF Spec

-----------------------------------------------------------------------------
(* find_region returns the owner of an address.                            *)

(* An address has one owner.                                               *)
LEMMA OwnerUnique ==
    ASSUME Numbered, NEW v, NEW i, NEW k, Owner(v, i), Owner(v, k)
    PROVE  i = k
  BY DEF Owner, Numbered

(* The invariant implies FindsOwner.                                       *)
LEMMA FindsOwnerHolds == MInv => FindsOwner
  <1> SUFFICES ASSUME MInv, state = "ready" PROVE FindsOwner
    BY DEF FindsOwner
  <1>1. Numbered /\ Count \in Nat /\ DOMAIN regions = 0..Count-1
    BY DEF MInv, Numbered
  <1>2. ASSUME NEW i \in DOMAIN regions, NEW v \in vm_addr_range(regions[i]),
               kind = "unaligned" \/ (Slot(v) = i /\ (i > 0 \/ allow_memory_region_zero))
        PROVE  find_region(v) = i
    <2>1. /\ i \in 0..Count-1 /\ v \in Nat
          /\ regions[i].vm_addr <= v /\ v < RangeEnd(regions[i])
      BY <1>1, RegionFacts DEF Numbered, vm_addr_range
    <2>2. CASE kind = "unaligned"
      <3>1. Searchable /\ Cached /\ find_region(v) = FindUnaligned(v)
        BY <2>2 DEF MInv, find_region
      <3>2. Owner(v, i)
        BY <1>1, <2>1, <3>1, InRangeOwns
      <3>3. Owner(v, FindUnaligned(v))
        BY <1>1, <2>1, <3>1, FindsLast
      <3>4. QED
        BY <1>1, <3>1, <3>2, <3>3, OwnerUnique
    <2>3. CASE kind # "unaligned"
      <3>1. kind = "aligned" /\ Slot(v) = i /\ (i > 0 \/ allow_memory_region_zero)
        BY <1>2, <2>3 DEF MInv
      <3>2. i < Count
        BY <1>1, <2>1
      <3>3. QED
        BY <3>1, <3>2 DEF find_region, FindAligned
    <2>4. QED
      BY <2>2, <2>3
  <1>3. ASSUME kind = "unaligned", NEW v \in Addrs
        PROVE  LET before == {i \in DOMAIN regions : regions[i].vm_addr <= v}
               IN  find_region(v) = IF before = {} THEN NoRegion
                                    ELSE CHOOSE i \in before : \A k \in before : k <= i
    <2> DEFINE before == {i \in DOMAIN regions : regions[i].vm_addr <= v}
    <2>1. v \in Nat
      BY AddressFacts DEF Addrs
    <2>2. Searchable /\ Cached /\ find_region(v) = FindUnaligned(v)
      BY <1>3 DEF MInv, find_region
    <2>3. CASE before = {}
      <3>1. ~\E k \in 0..Count-1 : regions[k].vm_addr <= v
        BY <1>1, <2>3
      <3>2. QED
        BY <1>1, <2>1, <2>2, <2>3, <3>1, FindsLast
    <2>4. CASE before # {}
      <3>1. \E k \in 0..Count-1 : regions[k].vm_addr <= v
        BY <1>1, <2>4
      <3>2. PICK f : f = FindUnaligned(v) /\ Owner(v, f)
        BY <1>1, <2>1, <2>2, <3>1, FindsLast
      <3>3. f \in before /\ \A k \in before : k <= f
        BY <1>1, <3>2 DEF Owner
      <3>4. \A i \in before : (\A k \in before : k <= i) => i = f
        BY <1>1, <3>3
      <3> HIDE DEF before
      <3>5. (CHOOSE i \in before : \A k \in before : k <= i) = f
        BY <3>3, <3>4
      <3>6. QED
        BY <2>2, <2>4, <3>2, <3>5 DEF before
    <2>5. QED
      BY <2>3, <2>4
  <1>4. QED
    BY <1>2, <1>3 DEF FindsOwner

(* The Eytzinger search behind the cache, or the slot of an aligned        *)
(* mapping, always finds the region an address is in.                      *)
THEOREM OwnerAlwaysFound == Spec => []FindsOwner
  BY MappingInvariant, FindsOwnerHolds, PTL

-----------------------------------------------------------------------------
(* Translation within a region.                                            *)

(* An address that is translated is in a frame: its offset leaves out the  *)
(* gaps of the frames before, and is below the length of the region.       *)
LEMMA Translated ==
    ASSUME NEW r, IsRegion(r), NEW access, NEW v \in Nat, NEW len \in Nat \ {0},
           vm_to_host(r, access, v, len) # NoAddr
    PROVE  /\ r.vm_addr <= v /\ 2^r.vm_gap_shift \in Nat \ {0}
           /\ \E g \in Nat, f \in Nat :
                 /\ f < 2^r.vm_gap_shift
                 /\ v - r.vm_addr = 2^r.vm_gap_shift * (2 * g) + f
                 /\ 2^r.vm_gap_shift * g + f + len <= r.len
                 /\ vm_to_host(r, access, v, len)
                       = r.host_addr + (2^r.vm_gap_shift * g + f)
  <1>1. PICK S : S = 2^r.vm_gap_shift
    OBVIOUS
  <1>2. S \in Nat \ {0}
    BY <1>1, RegionFacts, PowersOfTwo
  <1>3. /\ r.vm_addr \in Nat /\ r.host_addr \in Nat /\ r.len \in Nat
        /\ r.host_addr + r.len <= MaxAddr /\ MaxAddr \in Nat
    BY RegionFacts, AddressFacts
  <1> DEFINE begin == v - r.vm_addr
             frame == begin \div S
             gapped == (frame * S) \div 2 + (begin % S)
  <1>4. /\ ~(v < r.vm_addr) /\ gapped + len <= r.len /\ ~(frame % 2 = 1)
        /\ vm_to_host(r, access, v, len) = Saturating(r.host_addr + gapped)
    BY <1>1 DEF vm_to_host
  <1>5. PICK b \in Nat : b = begin
    BY <1>3, <1>4
  <1>6. PICK q \in Nat : q = b \div S
    BY <1>2, <1>5, Division
  <1>7. PICK f \in Nat : f = b % S /\ f < S /\ b = S * q + f
    <2>1. b % S \in Nat /\ b % S < S /\ b = S * (b \div S) + (b % S)
      BY <1>2, Division
    <2>2. b = S * q + (b % S)
      BY <1>6, <2>1
    <2>3. QED
      BY <2>1, <2>2
  <1>8. /\ ~(q % 2 = 1) /\ (q * S) \div 2 + f + len <= r.len
        /\ vm_to_host(r, access, v, len) = Saturating(r.host_addr + ((q * S) \div 2 + f))
    BY <1>4, <1>5, <1>6, <1>7
  <1> HIDE DEF begin, frame, gapped
  <1>9. PICK g \in Nat : q = 2 * g
    <2>1. q = 2 * (q \div 2) /\ q \div 2 \in Nat
      BY <1>8
    <2>2. QED
      BY <2>1
  <1>10. PICK p \in Nat : p = S * g
    BY <1>2
  <1>11. q * S = 2 * p /\ (q * S) \div 2 = p
    <2>1. q * S = 2 * p
      BY <1>2, <1>9, <1>10
    <2>2. (2 * p) \div 2 = p
      OBVIOUS
    <2>3. QED
      BY <2>1, <2>2
  <1>12. p + f + len <= r.len /\ vm_to_host(r, access, v, len) = r.host_addr + (p + f)
    BY <1>3, <1>8, <1>11 DEF Saturating
  <1>13. r.vm_addr <= v /\ b = v - r.vm_addr
    BY <1>3, <1>4, <1>5 DEF begin
  <1>14. /\ v - r.vm_addr = S * (2 * g) + f /\ S * g + f + len <= r.len
         /\ vm_to_host(r, access, v, len) = r.host_addr + (S * g + f)
    BY <1>7, <1>9, <1>10, <1>12, <1>13
  <1>15. QED
    BY <1>1, <1>2, <1>7, <1>13, <1>14

(* Two addresses of a region are translated apart.                         *)
LEMMA TranslatedApart ==
    ASSUME NEW r, IsRegion(r), NEW v \in Nat, NEW w \in Nat, v # w,
           vm_to_host(r, "Load", v, 1) # NoAddr, vm_to_host(r, "Load", w, 1) # NoAddr
    PROVE  vm_to_host(r, "Load", v, 1) # vm_to_host(r, "Load", w, 1)
  <1>1. PICK S : S = 2^r.vm_gap_shift
    OBVIOUS
  <1>2. S \in Nat \ {0} /\ r.vm_addr \in Nat /\ r.host_addr \in Nat
    BY <1>1, RegionFacts, PowersOfTwo
  <1>3. PICK g \in Nat, f \in Nat :
           /\ f < S /\ v - r.vm_addr = S * (2 * g) + f
           /\ vm_to_host(r, "Load", v, 1) = r.host_addr + (S * g + f)
    BY <1>1, Translated
  <1>4. PICK h \in Nat, e \in Nat :
           /\ e < S /\ w - r.vm_addr = S * (2 * h) + e
           /\ vm_to_host(r, "Load", w, 1) = r.host_addr + (S * h + e)
    BY <1>1, Translated
  <1>5. SUFFICES ASSUME S * g + f = S * h + e PROVE FALSE
    <2>1. S * g + f \in Nat /\ S * h + e \in Nat
      BY <1>2
    <2>2. QED
      BY <1>2, <1>3, <1>4, <1>5, <2>1
  <1>6. g = h
    BY <1>2, <1>3, <1>4, <1>5, Unique
  <1>7. f = e
    <2>1. PICK p \in Nat : p = S * g
      BY <1>2
    <2>2. QED
      BY <1>5, <1>6, <2>1
  <1>8. v - r.vm_addr = w - r.vm_addr
    BY <1>3, <1>4, <1>6, <1>7
  <1>9. QED
    BY <1>2, <1>8

(* An address is translated into the memory of the region it is found in.  *)
LEMMA TranslatedInto ==
    ASSUME NEW r, IsRegion(r), NEW v \in Nat, vm_to_host(r, "Load", v, 1) # NoAddr
    PROVE  vm_to_host(r, "Load", v, 1) \in r.host_addr..r.host_addr+r.len-1
  <1>1. PICK S : S = 2^r.vm_gap_shift
    OBVIOUS
  <1>2. S \in Nat \ {0} /\ r.host_addr \in Nat /\ r.len \in Nat
    BY <1>1, RegionFacts, PowersOfTwo
  <1>3. PICK g \in Nat, f \in Nat :
           /\ S * g + f + 1 <= r.len
           /\ vm_to_host(r, "Load", v, 1) = r.host_addr + (S * g + f)
    BY <1>1, Translated
  <1>4. PICK p \in Nat : p = S * g
    BY <1>2
  <1>5. QED
    BY <1>2, <1>3, <1>4

(* The invariant implies NoAliasing.                                       *)
LEMMA NoAliasingHolds == MInv => NoAliasing
  <1> SUFFICES ASSUME MInv, state = "ready", HostApart, NEW a \in Addrs, NEW b \in Addrs,
                      a # b, map("Load", a, 1) # NoAddr, map("Load", b, 1) # NoAddr
               PROVE  map("Load", a, 1) # map("Load", b, 1)
    BY DEF NoAliasing
  <1>1. a \in Nat /\ b \in Nat
    BY AddressFacts DEF Addrs
  <1>2. PICK i \in 0..Count-1 : i = find_region(a)
    BY <1>1, FindType DEF map
  <1>3. PICK k \in 0..Count-1 : k = find_region(b)
    BY <1>1, FindType DEF map
  <1>4. /\ map("Load", a, 1) = vm_to_host(regions[i], "Load", a, 1)
        /\ map("Load", b, 1) = vm_to_host(regions[k], "Load", b, 1)
    BY <1>2, <1>3 DEF map
  <1>5. IsRegion(regions[i]) /\ IsRegion(regions[k]) /\ DOMAIN regions = 0..Count-1
    BY DEF MInv, Numbered
  <1>6. CASE i = k
    BY <1>1, <1>4, <1>5, <1>6, TranslatedApart
  <1>7. CASE i # k
    <2>1. \/ regions[i].host_addr + regions[i].len <= regions[k].host_addr
          \/ regions[k].host_addr + regions[k].len <= regions[i].host_addr
      BY <1>5, <1>7 DEF HostApart
    <2>2. /\ regions[i].host_addr \in Nat /\ regions[i].len \in Nat
          /\ regions[k].host_addr \in Nat /\ regions[k].len \in Nat
      BY <1>5, RegionFacts
    <2>3. /\ map("Load", a, 1) \in regions[i].host_addr..regions[i].host_addr+regions[i].len-1
          /\ map("Load", b, 1) \in regions[k].host_addr..regions[k].host_addr+regions[k].len-1
      BY <1>1, <1>4, <1>5, TranslatedInto
    <2>4. QED
      BY <2>1, <2>2, <2>3
  <1>8. QED
    BY <1>6, <1>7

(* As long as the host keeps the memory of its regions apart, no two       *)
(* virtual addresses are translated to the same byte.                      *)
THEOREM NeverAliased == Spec => []NoAliasing
  BY MappingInvariant, NoAliasingHolds, PTL

-----------------------------------------------------------------------------
(* Accesses of several bytes.                                              *)

(* In a region without gaps an offset is not changed.                      *)
LEMMA FlatIn ==
    ASSUME NEW r, IsRegion(r), r.vm_gap_shift = Continuous,
           NEW access, access = "Store" => r.writable,
           NEW v \in Nat, NEW len \in Nat, r.vm_addr <= v, v - r.vm_addr + len <= r.len
    PROVE  vm_to_host(r, access, v, len) = r.host_addr + (v - r.vm_addr)
  <1>1. PICK S \in Nat \ {0} : S = 2^Continuous
    BY AddressFacts
  <1>2. /\ r.vm_addr \in Nat /\ r.host_addr \in Nat /\ r.len \in Nat /\ r.len < S
        /\ r.host_addr + r.len <= MaxAddr /\ MaxAddr \in Nat
    BY <1>1, RegionFacts, AddressFacts
  <1>3. PICK b \in Nat : b = v - r.vm_addr
    BY <1>2
  <1>4. b + len <= r.len /\ b < S
    BY <1>2, <1>3
  <1>5. b \div S = 0
    <2>1. (S * 0 + b) \div S = 0
      BY <1>4, Unique
    <2>2. S * 0 + b = b
      BY <1>1
    <2>3. QED
      BY <2>1, <2>2
  <1>6. b % S = b
    <2>1. b % S \in Nat /\ b = S * (b \div S) + (b % S)
      BY <1>1, Division, ZenonT(60)
    <2>2. S * 0 = 0
      BY <1>1
    <2>3. QED
      BY <1>5, <2>1, <2>2
  <1>7. ~(v < r.vm_addr) /\ ~(access = "Store" /\ ~r.writable)
    BY <1>2
  <1>8. ((b \div S) * S) \div 2 + (b % S) = b /\ ~((b \div S) % 2 = 1)
    <2>1. 0 * S = 0 /\ 0 \div 2 = 0 /\ 0 % 2 = 0
      BY <1>1
    <2>2. QED
      BY <1>5, <1>6, <2>1
  <1>9. vm_to_host(r, access, v, len) = Saturating(r.host_addr + b)
    <2>1. vm_to_host(r, access, v, len) =
             IF ((b \div S) * S) \div 2 + (b % S) + len <= r.len /\ ~((b \div S) % 2 = 1)
             THEN Saturating(r.host_addr + (((b \div S) * S) \div 2 + (b % S))) ELSE NoAddr
      BY <1>1, <1>3, <1>7 DEF vm_to_host
    <2>2. PICK x, y : x = ((b \div S) * S) \div 2 + (b % S) /\ y = (b \div S) % 2
      OBVIOUS
    <2>3. vm_to_host(r, access, v, len) =
             IF x + len <= r.len /\ ~(y = 1) THEN Saturating(r.host_addr + x) ELSE NoAddr
      BY <2>1, <2>2
    <2>4. x = b /\ ~(y = 1)
      BY <1>8, <2>2
    <2>5. QED
      BY <1>4, <2>3, <2>4
  <1>10. r.host_addr + b <= MaxAddr
    BY <1>2, <1>3, <1>4
  <1>11. QED
    BY <1>2, <1>3, <1>9, <1>10 DEF Saturating

(* An access to it that is granted is within the region.                   *)
LEMMA FlatOut ==
    ASSUME NEW r, IsRegion(r), r.vm_gap_shift = Continuous,
           NEW access, NEW v \in Addrs, NEW len \in Nat \ {0},
           vm_to_host(r, access, v, len) # NoAddr
    PROVE  /\ access = "Store" => r.writable
           /\ r.vm_addr <= v /\ v - r.vm_addr + len <= r.len
  <1>1. PICK S \in Nat \ {0} : S = 2^Continuous /\ MaxAddr + 1 = 2 * S
    BY AddressFacts
  <1>2. v \in Nat /\ v <= MaxAddr /\ MaxAddr \in Nat
    BY AddressFacts DEF Addrs
  <1>3. r.vm_addr \in Nat /\ r.len \in Nat
    BY RegionFacts
  <1>4. r.vm_addr <= v
    BY <1>2, Translated
  <1>5. PICK g \in Nat, f \in Nat :
           f < S /\ v - r.vm_addr = S * (2 * g) + f /\ S * g + f + len <= r.len
    BY <1>1, <1>2, Translated
  <1>6. g = 0
    <2>1. SUFFICES ASSUME 0 < g PROVE FALSE
      OBVIOUS
    <2>2. S * 0 + S <= S * g
      BY <2>1, Mult
    <2>3. PICK p \in Nat : p = S * g
      BY <1>1
    <2>4. S * (2 * g) = 2 * p /\ S * 0 = 0
      BY <1>1, <2>3
    <2>5. QED
      BY <1>1, <1>2, <1>3, <1>5, <2>2, <2>3, <2>4
  <1>7. v - r.vm_addr = f /\ f + len <= r.len
    <2>1. S * (2 * 0) = 0 /\ S * 0 = 0
      BY <1>1
    <2>2. QED
      BY <1>5, <1>6, <2>1
  <1>8. access = "Store" => r.writable
    BY DEF vm_to_host
  <1>9. QED
    BY <1>4, <1>7, <1>8

(* The bytes of a region that ends in its slot are found in it.            *)
LEMMA FindsRest ==
    ASSUME MInv, state = "ready", kind = "aligned" => \A r \in given : InSlot(r),
           NEW v \in Nat, NEW w \in Nat, v <= w,
           NEW i \in 0..Count-1, i = find_region(v),
           regions[i].vm_gap_shift = Continuous,
           regions[i].vm_addr + regions[i].len <= MaxAddr,
           regions[i].vm_addr <= v, w < regions[i].vm_addr + regions[i].len
    PROVE  find_region(w) = i
  <1>1. Numbered /\ IsRegion(regions[i]) /\ Count \in Nat
    BY DEF MInv, Numbered
  <1>2. /\ regions[i].vm_addr \in Nat /\ regions[i].len \in Nat /\ MaxAddr \in Nat
        /\ RangeEnd(regions[i]) = regions[i].vm_addr + regions[i].len
        /\ LastAddr(regions[i]) \in Nat
        /\ regions[i].len # 0 => LastAddr(regions[i]) = regions[i].vm_addr + regions[i].len - 1
    BY <1>1, RegionFacts, AddressFacts
  <1>3. CASE kind = "unaligned"
    <2>1. Searchable /\ Cached /\ find_region(w) = FindUnaligned(w)
      BY <1>3 DEF MInv, find_region
    <2>2. Owner(w, i)
      BY <1>1, <1>2, <2>1, InRangeOwns
    <2>3. \E k \in 0..Count-1 : regions[k].vm_addr <= w
      BY <2>2 DEF Owner
    <2>4. Owner(w, FindUnaligned(w))
      BY <1>1, <2>1, <2>3, FindsLast
    <2>5. QED
      BY <1>1, <2>1, <2>2, <2>4, OwnerUnique
  <1>4. CASE kind = "aligned"
    <2>1. Slotted
      BY <1>4 DEF MInv
    <2>2. Slot(regions[i].vm_addr) = i /\ Slot(LastAddr(regions[i])) = i
      BY <1>4, <2>1 DEF Slotted, InSlot
    <2>3. w <= LastAddr(regions[i]) /\ regions[i].vm_addr <= w
      BY <1>2
    <2>4. Slot(w) <= i /\ i <= Slot(w) /\ Slot(w) \in Nat
      BY <1>2, <2>2, <2>3, SlotMono, SlotFacts
    <2>5. Slot(w) = i
      BY <1>1, <2>4
    <2>6. Slot(v) = i /\ i # NoRegion /\ (i > 0 \/ allow_memory_region_zero)
      <3>1. i # NoRegion
        BY DEF NoRegion
      <3>2. QED
        BY <1>4, <3>1 DEF find_region, FindAligned
    <2>7. i < Count
      BY <1>1
    <2>8. QED
      BY <1>4, <2>5, <2>6, <2>7 DEF find_region, FindAligned
  <1>5. QED
    BY <1>3, <1>4 DEF MInv

(* The invariant implies AccessIsBytewise.                                 *)
LEMMA BytewiseHolds == MInv => AccessIsBytewise
  <1> SUFFICES ASSUME MInv, state = "ready", kind = "aligned" => \A r \in given : InSlot(r),
                      NEW access \in {"Load", "Store"}, NEW v \in Addrs, NEW len \in AccessLens,
                      map(access, v, len) # NoAddr,
                      regions[find_region(v)].vm_gap_shift = Continuous,
                      regions[find_region(v)].vm_addr + regions[find_region(v)].len <= MaxAddr,
                      NEW k \in 0..len-1
               PROVE  map(access, v + k, 1) = map(access, v, len) + k
    BY DEF AccessIsBytewise
  <1>1. v \in Nat /\ len \in Nat \ {0} /\ MaxAddr \in Nat
    BY AddressFacts, MappingAssumption DEF Addrs
  <1>2. PICK i \in 0..Count-1 : i = find_region(v)
    BY <1>1, FindType DEF map
  <1>3. PICK r : r = regions[i]
    OBVIOUS
  <1>4. /\ IsRegion(r) /\ r.vm_gap_shift = Continuous /\ r.vm_addr + r.len <= MaxAddr
        /\ map(access, v, len) = vm_to_host(r, access, v, len)
    BY <1>2, <1>3 DEF map, MInv, Numbered
  <1>5. /\ access = "Store" => r.writable
        /\ r.vm_addr <= v /\ v - r.vm_addr + len <= r.len
    BY <1>1, <1>4, FlatOut
  <1>6. r.vm_addr \in Nat /\ r.len \in Nat /\ r.host_addr \in Nat
    BY <1>4, RegionFacts
  <1>7. PICK w \in Nat : w = v + k
    BY <1>1
  <1>8. v <= w /\ w < r.vm_addr + r.len /\ r.vm_addr <= w /\ w - r.vm_addr + 1 <= r.len
    BY <1>1, <1>5, <1>6, <1>7
  <1>9. find_region(w) = i
    BY <1>1, <1>2, <1>3, <1>4, <1>5, <1>8, FindsRest
  <1>10. i # NoRegion
    BY DEF NoRegion
  <1>11. map(access, w, 1) = vm_to_host(r, access, w, 1)
    BY <1>3, <1>9, <1>10 DEF map
  <1>12. vm_to_host(r, access, w, 1) = r.host_addr + (w - r.vm_addr)
    BY <1>4, <1>5, <1>8, FlatIn
  <1>13. vm_to_host(r, access, v, len) = r.host_addr + (v - r.vm_addr)
    BY <1>1, <1>4, <1>5, FlatIn
  <1>14. map(access, w, 1) = map(access, v, len) + k
    BY <1>1, <1>4, <1>6, <1>7, <1>11, <1>12, <1>13
  <1>15. QED
    BY <1>7, <1>14

(* In a region without gaps an access of several bytes is the accesses of  *)
(* one byte to each of its addresses.                                      *)
THEOREM AccessesBytewise == Spec => []AccessIsBytewise
  BY MappingInvariant, BytewiseHolds, PTL

=============================================================================
