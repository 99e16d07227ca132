--------------------------- MODULE RadixTreeProofs --------------------------
(***************************************************************************)
(* What the operations of RadixTree do to a well-formed tree, and to its   *)
(* accounting, for every page size, set of tokens S and set of pages V.  The *)
(* facts about numbers and finite sets that the proofs use are stated here *)
(* (Counts, GreatestExists, SetSizes) and follow from the library in       *)
(* KVCacheProofs.                                                          *)
(***************************************************************************)
EXTENDS RadixTree, TLAPS

(* Sequences and their prefixes.                                            *)

(* A prefix of a row or key has the length asked for and the same elements.  *)
LEMMA KeyProps ==
  ASSUME NEW S, NEW s \in Seq(S), NEW n \in 0..Len(s)
  PROVE  /\ Key(s, n) \in Seq(S) /\ Len(Key(s, n)) = n
         /\ \A i \in 1..n : Key(s, n)[i] = s[i]
  BY DEF Key

(* Sequences with the same length and elements are equal.                    *)
LEMMA SeqEqual ==
  ASSUME NEW S, NEW x \in Seq(S), NEW y \in Seq(S), Len(x) = Len(y),
         \A i \in 1..Len(x) : x[i] = y[i]
  PROVE  x = y
  OBVIOUS

(* The prefix relation is an order, in which the prefixes of a path form a
   chain.                                                                   *)
LEMMA PrefixOrder ==
  ASSUME NEW S, NEW x \in Seq(S), NEW y \in Seq(S), NEW z \in Seq(S)
  PROVE  /\ x \preceq x
         /\ x \preceq y /\ y \preceq z => x \preceq z
         /\ x \preceq y /\ y \preceq x => x = y
         /\ x \preceq z /\ y \preceq z /\ Len(x) <= Len(y) => x \preceq y
         /\ x \preceq y /\ Len(x) = Len(y) => x = y
  BY SeqEqual DEF \preceq

(* The prefixes of s are the keys Key(s, n).                                 *)
LEMMA PrefixKey ==
  ASSUME NEW S, NEW x \in Seq(S), NEW s \in Seq(S)
  PROVE  /\ \A n \in 0..Len(s) : Key(s, n) \preceq s
         /\ x \preceq s => Len(x) \in 0..Len(s) /\ x = Key(s, Len(x))
         /\ \A n \in 0..Len(s) : \A m \in 0..n : Key(Key(s, n), m) = Key(s, m)
         /\ \A n \in 0..Len(s) : \A m \in 0..n : Key(s, m) \preceq Key(s, n)
         /\ Key(s, Len(s)) = s
         /\ Key(s, 0) = root
  <1>1. \A n \in 0..Len(s) : Key(s, n) \preceq s
    BY KeyProps DEF \preceq
  <1>2. x \preceq s => Len(x) \in 0..Len(s) /\ x = Key(s, Len(x))
    <2> SUFFICES ASSUME x \preceq s PROVE Len(x) \in 0..Len(s) /\ x = Key(s, Len(x))
      BY Zenon
    <2>1. Len(x) \in 0..Len(s)
      BY DEF \preceq
    <2>2. /\ Key(s, Len(x)) \in Seq(S) /\ Len(Key(s, Len(x))) = Len(x)
          /\ \A i \in 1..Len(x) : Key(s, Len(x))[i] = s[i]
      BY Zenon, <2>1, KeyProps
    <2> QED
      BY Zenon, <2>1, <2>2, SeqEqual DEF \preceq
  <1>3. ASSUME NEW n \in 0..Len(s), NEW m \in 0..n
        PROVE  Key(Key(s, n), m) = Key(s, m) /\ Key(s, m) \preceq Key(s, n)
    <2>1. /\ Key(s, n) \in Seq(S) /\ Len(Key(s, n)) = n
          /\ \A i \in 1..n : Key(s, n)[i] = s[i]
      BY Zenon, KeyProps
    <2>2. /\ Key(Key(s, n), m) \in Seq(S) /\ Len(Key(Key(s, n), m)) = m
          /\ \A i \in 1..m : Key(Key(s, n), m)[i] = Key(s, n)[i]
      BY Zenon, <2>1, KeyProps
    <2>3. /\ Key(s, m) \in Seq(S) /\ Len(Key(s, m)) = m
          /\ \A i \in 1..m : Key(s, m)[i] = s[i]
      BY KeyProps
    <2>4. Key(Key(s, n), m) = Key(s, m)
      BY <2>1, <2>2, <2>3, SeqEqual
    <2> QED
      BY <2>1, <2>3, <2>4 DEF \preceq
  <1>4. Key(s, Len(s)) = s /\ Key(s, 0) = root
    BY DEF Key, root
  <1> QED
    BY Zenon, <1>1, <1>2, <1>3, <1>4

-----------------------------------------------------------------------------
(* Pages of a row.                                                          *)

(* Division by the page size rounds down.                                    *)
LEMMA DivPage ==
  ASSUME NEW n \in Nat
  PROVE  /\ n \div PageSize \in Nat /\ n % PageSize \in 0..(PageSize - 1)
         /\ n = PageSize * (n \div PageSize) + (n % PageSize)
  BY PageSizeAssumption

(* A multiple of the page size divides exactly.                              *)
LEMMA MulPage ==
  ASSUME NEW i \in Nat
  PROVE  i * PageSize \in Nat /\ (i * PageSize) \div PageSize = i /\ (i * PageSize) % PageSize = 0
  BY PageSizeAssumption

(* Multiplication by the page size is strictly monotonic.                    *)
LEMMA MonoPage ==
  ASSUME NEW i \in Nat, NEW j \in Nat
  PROVE  i <= j <=> i * PageSize <= j * PageSize
  BY PageSizeAssumption

-----------------------------------------------------------------------------
(* Well-formed trees.  Every cached path is page-aligned, its aligned
   prefixes are cached, and one node holds it: the least node beyond it.
   Evictable leaves are unlocked nodes.  GreatestExists is true of all trees:
   KVCacheProofs gets it from the theorems on well-founded relations, which
   the modules before it do without.                                        *)
Fields == {"value", "lock_ref", "evictable_size_", "protected_size_", "evictable_leaves"}

Owns(t, n, x) == n \in Nodes(t) /\ x \preceq n /\ \A k \in Nodes(t) : x \preceq k => n \preceq k

GreatestExists ==
  \A n \in Nat : \A T \in SUBSET (0..n) : T # {} => \E m \in T : \A y \in T : y <= m

Shape(t, S, V) ==
  /\ GreatestExists
  /\ DOMAIN t = Fields
  /\ Cached(t) \subseteq Seq(S) \ {root}
  /\ Nodes(t) \subseteq Cached(t)
  /\ \A x \in Cached(t) : t.value[x] \in V /\ Len(x) % PageSize = 0
  /\ \A x \in Cached(t) : \A k \in 1..Len(x) : k % PageSize = 0 => Key(x, k) \in Cached(t)
  /\ \A x \in Cached(t) : \E n \in Nodes(t) : Owns(t, n, x)
  /\ \A n \in t.evictable_leaves : n \in Nodes(t) /\ t.lock_ref[n] = 0

(* The lock counts of the nodes on the paths that the requests of Q hold.    *)
Locks(t, Q, last) ==
  /\ \A n \in Nodes(t) : t.lock_ref[n] = Cardinality({r \in Q : n \preceq last[r]})
  /\ \A r \in Q : last[r] \in Nodes(t) \cup {root}

(* Cardinality counts the subsets of Q element by element, which is all that
   the lock counts need to know of a finite set.                             *)
Counts(Q) ==
  /\ Cardinality({}) = 0
  /\ \A A \in SUBSET Q :
       /\ Cardinality(A) \in Nat
       /\ \A r \in Q \ A : Cardinality(A \cup {r}) = Cardinality(A) + 1

(* So it does for the subsets of Q.                                          *)
LEMMA CountsPart ==
  ASSUME NEW Q, Counts(Q), NEW P \in SUBSET Q
  PROVE  Counts(P)
  BY Zenon DEF Counts

(* A set without one of its elements has one element less.                   *)
LEMMA OneLess ==
  ASSUME NEW Q, Counts(Q), NEW A \in SUBSET Q, NEW r \in A
  PROVE  Cardinality(A \ {r}) \in Nat /\ Cardinality(A) = Cardinality(A \ {r}) + 1
  <1>1. A \ {r} \in SUBSET Q /\ r \in Q \ (A \ {r}) /\ (A \ {r}) \cup {r} = A
    BY Zenon
  <1> QED
    BY Zenon, <1>1 DEF Counts

(* Owner returns the node that holds a cached path, which for a node is the
   node itself.                                                             *)
LEMMA OwnerProps ==
  ASSUME NEW S, NEW V, NEW t, Shape(t, S, V), NEW x \in Cached(t)
  PROVE  Owns(t, Owner(t, x), x) /\ (x \in Nodes(t) => Owner(t, x) = x)
  <1>1. \E n \in Nodes(t) : x \preceq n /\ \A k \in Nodes(t) : x \preceq k => n \preceq k
    BY Zenon DEF Shape, Owns
  <1>2. Owns(t, Owner(t, x), x)
    BY Zenon, <1>1 DEF Owner, Owns
  <1>3. ASSUME x \in Nodes(t) PROVE Owner(t, x) = x
    <2>1. x \in Seq(S) /\ Owner(t, x) \in Seq(S)
      BY Zenon, <1>2 DEF Shape, Owns
    <2> QED
      BY Zenon, <1>2, <1>3, <2>1, PrefixOrder DEF Owns
  <1> QED
    BY Zenon, <1>2, <1>3

(* The match length exists: the longest cached prefix, or none.              *)
LEMMA MatchProps ==
  ASSUME GreatestExists, NEW S, NEW s \in Seq(S), NEW t
  PROVE  /\ MatchLen(t, s) \in 0..Len(s)
         /\ MatchLen(t, s) = 0 \/ Key(s, MatchLen(t, s)) \in Cached(t)
         /\ \A j \in (MatchLen(t, s) + 1)..Len(s) : Key(s, j) \notin Cached(t)
  <1> DEFINE T == {k \in 0..Len(s) : k = 0 \/ Key(s, k) \in Cached(t)}
  <1>1. T \subseteq 0..Len(s) /\ T # {} /\ Len(s) \in Nat
    <2>1. 0 \in T
      OBVIOUS
    <2> QED
      BY <2>1
  <1>2. PICK m \in T : \A y \in T : y <= m
    BY Zenon, <1>1 DEF GreatestExists
  <1>3. /\ m \in 0..Len(s) /\ (m = 0 \/ Key(s, m) \in Cached(t))
        /\ \A j \in (m + 1)..Len(s) : Key(s, j) \notin Cached(t)
    BY <1>2
  <1> QED
    BY Zenon, <1>3 DEF MatchLen

(* The matched path is a cached prefix of the key, or the root.              *)
LEMMA MatchedProps ==
  ASSUME GreatestExists, NEW S, NEW s \in Seq(S), NEW t
  PROVE  /\ Matched(t, s) \in Seq(S) /\ Len(Matched(t, s)) = MatchLen(t, s)
         /\ Matched(t, s) \preceq s
         /\ Matched(t, s) \in Cached(t) \cup {root}
  <1>1. MatchLen(t, s) \in 0..Len(s)
    BY Zenon, MatchProps
  <1>2. MatchLen(t, s) = 0 \/ Key(s, MatchLen(t, s)) \in Cached(t)
    BY Zenon, MatchProps
  <1>3. Key(s, 0) = root
    BY DEF Key, root
  <1> QED
    BY ZenonT(30), <1>1, <1>2, <1>3, KeyProps, PrefixKey DEF Matched
-----------------------------------------------------------------------------
(* A split adds the node x below the nodes that it is a prefix of, and changes
   no cached path.                                                          *)
LEMMA SplitShape ==
  ASSUME NEW S, NEW V, NEW t, Shape(t, S, V), NEW x \in Cached(t) \cup {root}
  PROVE  /\ Shape(SplitNode(t, x), S, V)
         /\ SplitNode(t, x).value = t.value
         /\ Nodes(SplitNode(t, x)) = Nodes(t) \cup ({x} \ {root})
         /\ \A n \in Nodes(t) : SplitNode(t, x).lock_ref[n] = t.lock_ref[n]
         /\ x # root => SplitNode(t, x).lock_ref[x] = t.lock_ref[Owner(t, x)]
  <1>1. CASE x = root \/ x \in Nodes(t)
    <2>1. SplitNode(t, x) = t
      BY Zenon, <1>1 DEF SplitNode
    <2>2. x # root => Owner(t, x) = x
      BY ZenonT(30), <1>1, OwnerProps DEF Shape
    <2> QED
      BY Zenon, <1>1, <2>1, <2>2
  <1>2. CASE x # root /\ x \notin Nodes(t)
    <2> DEFINE u == SplitNode(t, x)
               o == Owner(t, x)
    <2>1. u = [t EXCEPT !.lock_ref = [n \in Nodes(t) \cup {x} |->
                                        t.lock_ref[IF n = x THEN o ELSE n]]]
      BY Zenon, <1>2 DEF SplitNode
    <2>2. /\ DOMAIN u = Fields /\ u.value = t.value /\ u.evictable_leaves = t.evictable_leaves
          /\ u.lock_ref = [n \in Nodes(t) \cup {x} |-> t.lock_ref[IF n = x THEN o ELSE n]]
      BY Zenon, <2>1 DEF Shape, Fields
    <2> HIDE DEF u
    <2>3. /\ Nodes(u) = Nodes(t) \cup {x} /\ Cached(u) = Cached(t)
          /\ \A n \in Nodes(t) : u.lock_ref[n] = t.lock_ref[n]
          /\ u.lock_ref[x] = t.lock_ref[o]
      BY Zenon, <2>2, <1>2 DEF Nodes, Cached
    <2>4. Owns(t, o, x) /\ x \in Seq(S) /\ o \in Seq(S) /\ x \in Cached(t)
      <3>1. x \in Cached(t)
        BY Zenon, <1>2
      <3>2. Owns(t, o, x)
        BY Zenon, <3>1, OwnerProps
      <3> QED
        BY Zenon, <3>1, <3>2 DEF Shape, Owns
    <2> HIDE DEF o
    <2>5. ASSUME NEW y \in Cached(u) PROVE \E n \in Nodes(u) : Owns(u, n, y)
      <3>1. PICK n : Owns(t, n, y)
        BY Zenon, <2>3 DEF Shape
      <3>2. y \in Seq(S) /\ n \in Seq(S) /\ Nodes(t) \subseteq Seq(S)
        BY Zenon, <2>3, <3>1 DEF Shape, Owns
      <3>3. CASE y \preceq x /\ ~(n \preceq x)
        <4>1. y \preceq o
          BY Zenon, <3>2, <3>3, <2>4, PrefixOrder DEF Owns
        <4>2. n \preceq o
          BY Zenon, <3>1, <2>4, <4>1 DEF Owns
        <4>3. x \preceq n
          BY <4>2, <3>2, <3>3, <2>4, PrefixOrder DEF Owns, \preceq
        <4>4. \A k \in Nodes(t) : y \preceq k => x \preceq k
          BY Zenon, <3>1, <3>2, <4>3, <2>4, PrefixOrder DEF Owns
        <4> QED
          BY <3>3, <4>4, <2>3, <2>4, PrefixOrder DEF Owns
      <3>4. CASE ~(y \preceq x /\ ~(n \preceq x))
        BY Zenon, <3>1, <3>4, <2>3 DEF Owns
      <3> QED
        BY Zenon, <3>3, <3>4
    <2>6. Shape(u, S, V)
      <3>1. \A n \in u.evictable_leaves : n \in Nodes(u) /\ u.lock_ref[n] = 0
        BY Zenon, <2>2, <2>3 DEF Shape
      <3>2. Nodes(u) \subseteq Cached(u)
        BY Zenon, <2>3, <2>4 DEF Shape
      <3>3. \A y \in Cached(u) : u.value[y] \in V /\ Len(y) % PageSize = 0
        BY Zenon, <2>2, <2>3 DEF Shape
      <3> QED
        BY Zenon, <2>2, <2>3, <2>5, <3>1, <3>2, <3>3 DEF Shape
    <2>7. /\ Nodes(u) = Nodes(t) \cup ({x} \ {root})
          /\ \A n \in Nodes(t) : u.lock_ref[n] = t.lock_ref[n]
          /\ x # root => u.lock_ref[x] = t.lock_ref[o]
      BY Zenon, <2>3, <1>2
    <2> QED
      BY Zenon, <2>2, <2>6, <2>7 DEF u, o
  <1> QED
    BY Zenon, <1>1, <1>2

(* The node that a split adds has the locks of the node it splits, and those
   are the requests whose path passes through it.                           *)
LEMMA SplitLocks ==
  ASSUME NEW S, NEW V, NEW t, Shape(t, S, V), NEW x \in Cached(t) \cup {root},
         NEW Q, NEW last, Locks(t, Q, last)
  PROVE  Locks(SplitNode(t, x), Q, last)
  <1> DEFINE u == SplitNode(t, x)
  <1>1. /\ Nodes(u) = Nodes(t) \cup ({x} \ {root})
        /\ \A n \in Nodes(t) : u.lock_ref[n] = t.lock_ref[n]
        /\ x # root => u.lock_ref[x] = t.lock_ref[Owner(t, x)]
    BY SplitShape
  <1> HIDE DEF u
  <1>2. ASSUME x # root
        PROVE  u.lock_ref[x] = Cardinality({r \in Q : x \preceq last[r]})
    <2>1. Owns(t, Owner(t, x), x)
      BY Zenon, <1>2, OwnerProps
    <2>2. \A r \in Q : x \preceq last[r] <=> Owner(t, x) \preceq last[r]
      <3> TAKE r \in Q
      <3>1. CASE last[r] = root
        <4>1. x \in Seq(S) /\ x # root /\ Owner(t, x) \in Seq(S) /\ Owner(t, x) # root
          BY Zenon, <1>2, <2>1 DEF Shape, Owns
        <4> QED
          BY <4>1, <3>1 DEF \preceq, root
      <3>2. CASE last[r] \in Nodes(t)
        <4>1. x \in Seq(S) /\ last[r] \in Seq(S) /\ Owner(t, x) \in Seq(S)
          BY Zenon, <1>2, <2>1, <3>2 DEF Shape, Owns
        <4> QED
          BY Zenon, <4>1, <3>2, <2>1, PrefixOrder DEF Owns
      <3> QED
        BY Zenon, <3>1, <3>2 DEF Locks
    <2>3. {r \in Q : x \preceq last[r]} = {r \in Q : Owner(t, x) \preceq last[r]}
      BY Zenon, <2>2
    <2> QED
      BY Zenon, <1>1, <1>2, <2>1, <2>3 DEF Locks, Owns
  <1>3. \A n \in Nodes(u) : u.lock_ref[n] = Cardinality({r \in Q : n \preceq last[r]})
    BY ZenonT(30), <1>1, <1>2 DEF Locks
  <1>4. \A r \in Q : last[r] \in Nodes(u) \cup {root}
    BY Zenon, <1>1 DEF Locks
  <1> QED
    BY Zenon, <1>3, <1>4 DEF Locks, u

-----------------------------------------------------------------------------
(* _update_leaf_status changes evictable_leaves only, and adds unlocked nodes. *)
LEMMA LeafStatus ==
  ASSUME NEW t, DOMAIN t = Fields, NEW X, NEW u, u = UpdateLeafStatus(t, X)
  PROVE  /\ DOMAIN u = Fields /\ u.value = t.value /\ u.lock_ref = t.lock_ref
         /\ \A n \in u.evictable_leaves :
              \/ n \in t.evictable_leaves /\ n \notin X
              \/ n \in Nodes(t) /\ t.lock_ref[n] = 0
  BY Zenon DEF UpdateLeafStatus, Fields

(* insert caches the rest of a key behind its longest cached prefix.         *)
LEMMA InsertShape ==
  ASSUME NEW S, NEW V, NEW t, Shape(t, S, V), NEW s \in Seq(S), Len(s) % PageSize = 0,
         NEW pages, \A i \in 1..(Len(s) \div PageSize) : pages[i] \in V
  PROVE  LET m == MatchLen(t, s)
             new == {Key(s, k) : k \in {j \in (m + 1)..Len(s) : j % PageSize = 0}}
             u == SplitNode(t, Matched(t, s))
             v == Insert(t, s, pages)
         IN  /\ Shape(v, S, V)
             /\ Cached(v) = Cached(t) \cup new /\ Cached(t) \cap new = {}
             /\ \A y \in Cached(t) : v.value[y] = t.value[y]
             /\ \A y \in new : v.value[y] = pages[Len(y) \div PageSize]
             /\ Nodes(v) = Nodes(u) \cup ({s} \ {root})
             /\ \A n \in Nodes(u) : v.lock_ref[n] = u.lock_ref[n]
             /\ s \notin Nodes(u) /\ s # root => v.lock_ref[s] = 0 /\ s \notin Cached(t)
  <1> DEFINE m == MatchLen(t, s)
             new == {Key(s, k) : k \in {j \in (m + 1)..Len(s) : j % PageSize = 0}}
             x == Matched(t, s)
             u == SplitNode(t, x)
             v == Insert(t, s, pages)
             goal == /\ Shape(v, S, V)
                     /\ Cached(v) = Cached(t) \cup new /\ Cached(t) \cap new = {}
                     /\ \A y \in Cached(t) : v.value[y] = t.value[y]
                     /\ \A y \in new : v.value[y] = pages[Len(y) \div PageSize]
                     /\ Nodes(v) = Nodes(u) \cup ({s} \ {root})
                     /\ \A n \in Nodes(u) : v.lock_ref[n] = u.lock_ref[n]
                     /\ s \notin Nodes(u) /\ s # root => v.lock_ref[s] = 0 /\ s \notin Cached(t)
  <1>1. /\ m \in 0..Len(s) /\ \A j \in (m + 1)..Len(s) : Key(s, j) \notin Cached(t)
        /\ x \in Seq(S) /\ Len(x) = m /\ x \preceq s /\ x \in Cached(t) \cup {root}
    <2>1. GreatestExists
      BY Zenon DEF Shape
    <2> QED
      BY Zenon, <2>1, MatchProps, MatchedProps
  <1>2. /\ Shape(u, S, V) /\ u.value = t.value /\ Cached(u) = Cached(t)
        /\ Nodes(u) = Nodes(t) \cup ({x} \ {root})
    BY <1>1, SplitShape DEF Cached
  <1>3. Insert(t, s, pages) =
          IF x = s THEN u
          ELSE UpdateLeafStatus(
                 [u EXCEPT
                    !.value = [y \in Cached(u) \cup new |->
                                 IF y \in new THEN pages[Len(y) \div PageSize] ELSE u.value[y]],
                    !.lock_ref = [n \in Nodes(u) \cup {s} |-> IF n = s THEN 0 ELSE u.lock_ref[n]],
                    !.evictable_size_ = @ + Len(s) - Len(x)], {x, s})
    BY Zenon, <1>1 DEF Insert
  <1> HIDE DEF m, x, u, v
  <1>4. ASSUME NEW y \in new
        PROVE  /\ y \in Seq(S) /\ y # root /\ y \notin Cached(t) /\ y \preceq s
               /\ Len(y) \in (m + 1)..Len(s) /\ Len(y) % PageSize = 0 /\ y = Key(s, Len(y))
    <2>1. PICK k \in (m + 1)..Len(s) : k % PageSize = 0 /\ y = Key(s, k)
      BY Zenon
    <2>2. k \in 0..Len(s) /\ k # 0
      BY <1>1
    <2>3. y \in Seq(S) /\ Len(y) = k /\ y \preceq s
      BY ZenonT(30), <2>1, <2>2, KeyProps, PrefixKey
    <2> QED
      BY Zenon, <2>1, <2>2, <2>3, <1>1 DEF root
  <1>5. ASSUME x = s PROVE goal
    <2>1. v = u
      BY Zenon, <1>3, <1>5 DEF v
    <2>2. m = Len(s)
      BY Zenon, <1>1, <1>5
    <2>3. new = {}
      BY <2>2, <1>1
    <2>4. s \in Nodes(u) \cup {root}
      BY Zenon, <1>2, <1>5
    <2> HIDE DEF new
    <2>5. Nodes(u) = Nodes(u) \cup ({s} \ {root})
      BY Zenon, <2>4
    <2> QED
      BY Zenon, <2>1, <2>3, <2>4, <2>5, <1>2
  <1>6. ASSUME x # s PROVE goal
    <2> DEFINE w == [u EXCEPT
                      !.value = [y \in Cached(u) \cup new |->
                                   IF y \in new THEN pages[Len(y) \div PageSize] ELSE u.value[y]],
                      !.lock_ref = [n \in Nodes(u) \cup {s} |-> IF n = s THEN 0 ELSE u.lock_ref[n]],
                      !.evictable_size_ = @ + Len(s) - Len(x)]
    <2>1. v = UpdateLeafStatus(w, {x, s})
      BY Zenon, <1>3, <1>6 DEF v
    <2>2. /\ DOMAIN w = Fields /\ w.evictable_leaves = u.evictable_leaves
          /\ w.value = [y \in Cached(u) \cup new |->
                          IF y \in new THEN pages[Len(y) \div PageSize] ELSE u.value[y]]
          /\ w.lock_ref = [n \in Nodes(u) \cup {s} |-> IF n = s THEN 0 ELSE u.lock_ref[n]]
      BY Zenon, <1>2 DEF Shape, Fields
    <2> HIDE DEF w
    <2>3. /\ DOMAIN v = Fields /\ v.value = w.value /\ v.lock_ref = w.lock_ref
          /\ \A n \in v.evictable_leaves :
               \/ n \in u.evictable_leaves
               \/ n \in Nodes(w) /\ w.lock_ref[n] = 0
      <3>1. DOMAIN w = Fields /\ w.evictable_leaves = u.evictable_leaves
        BY Zenon, <2>2
      <3> QED
        BY <2>1, <3>1, LeafStatus
    <2>4. m < Len(s) /\ s \notin Cached(t) /\ s # root /\ s \in new
      <3>1. m # Len(s)
        BY Zenon, <1>1, <1>6, PrefixOrder
      <3>2. m < Len(s) /\ Len(s) \in (m + 1)..Len(s)
        BY <3>1, <1>1
      <3>3. Key(s, Len(s)) = s
        BY Zenon, PrefixKey
      <3>4. s \in new
        BY Zenon, <3>2, <3>3
      <3> QED
        BY Zenon, <3>2, <3>4, <1>4
    <2>5. s \notin Nodes(u)
      BY Zenon, <2>4, <1>2 DEF Shape
    <2>6. /\ Cached(v) = Cached(t) \cup new /\ Nodes(v) = Nodes(u) \cup {s}
          /\ \A n \in Nodes(u) : v.lock_ref[n] = u.lock_ref[n]
          /\ v.lock_ref[s] = 0
      BY <2>2, <2>3, <2>5, <1>2 DEF Cached, Nodes
    <2>7. /\ \A y \in Cached(t) : v.value[y] = t.value[y]
          /\ \A y \in new : v.value[y] = pages[Len(y) \div PageSize]
          /\ Cached(t) \cap new = {}
      BY <2>2, <2>3, <1>2, <1>4
    <2> HIDE DEF new
    <2>8. \A n \in v.evictable_leaves : n \in Nodes(v) /\ v.lock_ref[n] = 0
      BY ZenonT(30), <2>3, <2>6, <1>2 DEF Shape, Nodes
    <2>9. \A y \in Cached(v) : v.value[y] \in V /\ Len(y) % PageSize = 0
      <3>1. ASSUME NEW y \in new PROVE v.value[y] \in V /\ Len(y) % PageSize = 0
        <4>1. Len(y) \in 0..Len(s) /\ Len(y) # 0 /\ Len(y) % PageSize = 0
          BY <1>1, <1>4
        <4>2. Len(y) \div PageSize \in 1..(Len(s) \div PageSize)
          BY <4>1, PageSizeAssumption
        <4> QED
          BY Zenon, <4>1, <4>2, <2>7
      <3>2. ASSUME NEW y \in Cached(t) PROVE v.value[y] \in V /\ Len(y) % PageSize = 0
        BY Zenon, <2>7 DEF Shape
      <3> QED
        BY Zenon, <3>1, <3>2, <2>6
    <2>10. ASSUME NEW y \in Cached(v), NEW k \in 1..Len(y), k % PageSize = 0
           PROVE  Key(y, k) \in Cached(v)
      <3>1. CASE y \in Cached(t)
        BY Zenon, <3>1, <2>6, <2>10 DEF Shape
      <3>2. CASE y \in new
        <4>1. k \in 1..Len(s) /\ Key(y, k) = Key(s, k)
          BY <3>2, <1>1, <1>4, <2>10, PrefixKey
        <4>2. CASE k > m
          BY <4>1, <4>2, <2>6, <2>10, <1>1 DEF new
        <4>3. CASE k <= m
          <5>1. x \in Cached(t) /\ k \in 1..Len(x)
            BY <4>1, <4>3, <1>1 DEF root
          <5>2. Key(x, k) = Key(s, k)
            BY <5>1, <1>1, PrefixKey
          <5> QED
            BY Zenon, <4>1, <5>1, <5>2, <2>6, <2>10 DEF Shape
        <4> QED
          BY <4>1, <4>2, <4>3, <1>1
      <3> QED
        BY Zenon, <3>1, <3>2, <2>6
    <2>11. ASSUME NEW y \in new PROVE Owns(v, s, y)
      <3>1. ASSUME NEW k \in Nodes(u), y \preceq k PROVE FALSE
        <4>1. k \in Cached(t) /\ k \in Seq(S)
          BY Zenon, <1>2 DEF Shape
        <4>2. Len(y) \in 1..Len(k) /\ y = Key(k, Len(y)) /\ Len(y) % PageSize = 0
          BY <4>1, <3>1, <1>1, <1>4, PrefixKey
        <4>3. y \in Cached(t)
          BY Zenon, <4>1, <4>2 DEF Shape
        <4> QED
          BY Zenon, <4>3, <1>4
      <3>2. s \preceq s
        BY Zenon, PrefixOrder
      <3> QED
        BY Zenon, <3>1, <3>2, <2>6, <1>4 DEF Owns
    <2>12. ASSUME NEW y \in Cached(t) PROVE \E n \in Nodes(v) : Owns(v, n, y)
      <3>1. PICK n : Owns(u, n, y)
        BY Zenon, <1>2 DEF Shape
      <3>2. y \in Seq(S) /\ y # root /\ n \in Seq(S) /\ Nodes(u) \subseteq Seq(S)
        BY Zenon, <3>1, <1>2 DEF Shape, Owns
      <3>3. ASSUME y \preceq s PROVE n \preceq s
        <4>1. Len(y) \in 1..Len(s) /\ y = Key(s, Len(y))
          BY <3>2, <3>3, PrefixKey DEF root
        <4>2. Len(y) <= m
          BY <4>1, <1>1
        <4>3. y \preceq x
          BY Zenon, <4>2, <3>2, <3>3, <1>1, PrefixOrder
        <4>4. x # root
          BY <4>1, <4>2, <1>1 DEF root
        <4>5. x \in Nodes(u)
          BY Zenon, <4>4, <1>2
        <4>6. n \preceq x
          BY Zenon, <4>3, <4>5, <3>1 DEF Owns
        <4> QED
          BY Zenon, <4>6, <3>2, <1>1, PrefixOrder
      <3> QED
        BY Zenon, <3>1, <3>3, <2>6 DEF Owns
    <2>13. Cached(v) \subseteq Seq(S) \ {root} /\ Nodes(v) \subseteq Cached(v)
      <3>1. Cached(t) \subseteq Seq(S) \ {root} /\ Nodes(u) \subseteq Cached(t)
        BY Zenon, <1>2 DEF Shape
      <3>2. new \subseteq Seq(S) \ {root}
        BY Zenon, <1>4
      <3> QED
        BY Zenon, <3>1, <3>2, <2>4, <2>6
    <2>14. \A y \in Cached(v) : \E n \in Nodes(v) : Owns(v, n, y)
      BY Zenon, <2>6, <2>11, <2>12
    <2>15. Shape(v, S, V)
      BY Zenon, <2>3, <2>8, <2>9, <2>10, <2>13, <2>14 DEF Shape
    <2> QED
      BY Zenon, <2>4, <2>5, <2>6, <2>7, <2>15
  <1>7. goal
    BY Zenon, <1>5, <1>6
  <1> HIDE DEF new
  <1> QED
    BY Zenon, <1>7 DEF m, new, x, u, v

(* insert leaves the locks as they were: no request holds the new node.      *)
LEMMA InsertLocks ==
  ASSUME NEW S, NEW V, NEW t, Shape(t, S, V), NEW s \in Seq(S), Len(s) % PageSize = 0,
         NEW pages, \A i \in 1..(Len(s) \div PageSize) : pages[i] \in V,
         NEW Q, Counts(Q), NEW last, Locks(t, Q, last)
  PROVE  Locks(Insert(t, s, pages), Q, last)
  <1> DEFINE u == SplitNode(t, Matched(t, s))
             v == Insert(t, s, pages)
  <1>1. Matched(t, s) \in Cached(t) \cup {root}
    BY Zenon, MatchedProps DEF Shape
  <1>2. Locks(u, Q, last) /\ Shape(u, S, V) /\ u.value = t.value
    BY <1>1, SplitLocks, SplitShape
  <1>3. /\ Nodes(v) = Nodes(u) \cup ({s} \ {root})
        /\ \A n \in Nodes(u) : v.lock_ref[n] = u.lock_ref[n]
        /\ s \notin Nodes(u) /\ s # root => v.lock_ref[s] = 0 /\ s \notin Cached(t)
    BY InsertShape
  <1> HIDE DEF u, v
  <1>4. ASSUME s \notin Nodes(u), s # root
        PROVE  v.lock_ref[s] = Cardinality({r \in Q : s \preceq last[r]})
    <2>1. ASSUME NEW r \in Q, s \preceq last[r] PROVE FALSE
      <3>1. CASE last[r] = root
        BY <2>1, <3>1, <1>4 DEF \preceq, root
      <3>2. CASE last[r] \in Nodes(u)
        <4>1. last[r] \in Cached(t) /\ last[r] \in Seq(S)
          BY Zenon, <3>2, <1>2 DEF Shape, Cached
        <4>2. Len(s) \in 1..Len(last[r]) /\ s = Key(last[r], Len(s))
          BY <4>1, <2>1, <1>4, PrefixKey DEF root
        <4>3. s \in Cached(t)
          BY Zenon, <4>1, <4>2 DEF Shape
        <4> QED
          BY Zenon, <4>3, <1>3, <1>4
      <3> QED
        BY Zenon, <3>1, <3>2, <1>2 DEF Locks
    <2>2. {r \in Q : s \preceq last[r]} = {}
      BY Zenon, <2>1
    <2>3. Cardinality({}) = 0
      BY Zenon DEF Counts
    <2> QED
      BY ZenonT(30), <2>2, <2>3, <1>3, <1>4
  <1>5. \A n \in Nodes(v) : v.lock_ref[n] = Cardinality({r \in Q : n \preceq last[r]})
    BY ZenonT(30), <1>2, <1>3, <1>4 DEF Locks
  <1>6. \A r \in Q : last[r] \in Nodes(v) \cup {root}
    BY Zenon, <1>2, <1>3 DEF Locks
  <1> QED
    BY Zenon, <1>5, <1>6 DEF Locks, v

-----------------------------------------------------------------------------
(* A request r outside Q locks the path to n, its new last node.             *)
Locker(t, S, V, Q, last, r, n, new) ==
  /\ Shape(t, S, V) /\ Counts(Q \cup {r}) /\ r \notin Q /\ Locks(t, Q, last)
  /\ n \in Nodes(t) \cup {root} /\ new[r] = n /\ \A q \in Q : new[q] = last[q]

(* inc_lock_ref counts one more request on the path to its node.             *)
LEMMA IncLocks ==
  ASSUME NEW S, NEW V, NEW t, NEW Q, NEW last, NEW r, NEW n, NEW new,
         Locker(t, S, V, Q, last, r, n, new)
  PROVE  LET u == IncLockRef(t, n) IN
         /\ Shape(u, S, V) /\ u.value = t.value /\ Nodes(u) = Nodes(t)
         /\ Locks(u, Q \cup {r}, new)
  <1> /\ Shape(t, S, V) /\ Counts(Q \cup {r}) /\ r \notin Q /\ Locks(t, Q, last)
      /\ n \in Nodes(t) \cup {root} /\ new[r] = n /\ \A q \in Q : new[q] = last[q]
    BY Zenon DEF Locker
  <1> DEFINE size == SizeOf(t, {m \in Path(t, n) : t.lock_ref[m] = 0})
             w == [t EXCEPT !.lock_ref = [m \in Nodes(t) |-> IF m \in Path(t, n) THEN @[m] + 1 ELSE @[m]],
                            !.evictable_size_ = @ - size, !.protected_size_ = @ + size]
             u == IncLockRef(t, n)
  <1>1. u = UpdateLeafStatus(w, Path(t, n))
    BY Zenon DEF IncLockRef
  <1> HIDE DEF u
  <1>2. /\ DOMAIN w = Fields /\ w.evictable_leaves = t.evictable_leaves /\ w.value = t.value
        /\ w.lock_ref = [m \in Nodes(t) |-> IF m \in Path(t, n) THEN t.lock_ref[m] + 1 ELSE t.lock_ref[m]]
    BY Zenon DEF Shape, Fields
  <1> HIDE DEF w
  <1>3. /\ DOMAIN u = Fields /\ u.value = w.value /\ u.lock_ref = w.lock_ref
        /\ \A m \in u.evictable_leaves :
             \/ m \in w.evictable_leaves /\ m \notin Path(t, n)
             \/ m \in Nodes(w) /\ w.lock_ref[m] = 0
    <2>1. DOMAIN w = Fields
      BY Zenon, <1>2
    <2> QED
      BY <1>1, <2>1, LeafStatus
  <1>4. Nodes(u) = Nodes(t) /\ u.value = t.value
    BY Zenon, <1>2, <1>3 DEF Nodes
  <1>5. \A m \in u.evictable_leaves : m \in Nodes(u) /\ u.lock_ref[m] = 0
    <2>1. Nodes(w) = Nodes(t)
      BY Zenon, <1>2 DEF Nodes
    <2>2. \A m \in t.evictable_leaves : m \in Nodes(t) /\ t.lock_ref[m] = 0
      BY Zenon DEF Shape
    <2>3. \A m \in Nodes(t) : m \notin Path(t, n) => w.lock_ref[m] = t.lock_ref[m]
      BY Zenon, <1>2
    <2> QED
      BY Zenon, <2>1, <2>2, <2>3, <1>2, <1>3, <1>4
  <1>6. Shape(u, S, V)
    BY Zenon, <1>3, <1>4, <1>5 DEF Shape, Cached, Owns
  <1>7. ASSUME NEW m \in Nodes(u)
        PROVE  u.lock_ref[m] = Cardinality({q \in Q \cup {r} : m \preceq new[q]})
    <2> DEFINE A == {q \in Q : m \preceq last[q]}
               B == {q \in Q \cup {r} : m \preceq new[q]}
    <2>1. A \in SUBSET (Q \cup {r}) /\ r \in (Q \cup {r}) \ A /\ t.lock_ref[m] = Cardinality(A)
      BY Zenon, <1>4 DEF Locks
    <2>2. CASE m \preceq n
      <3>1. B = A \cup {r}
        BY Zenon, <2>2
      <3>2. u.lock_ref[m] = t.lock_ref[m] + 1
        BY Zenon, <2>2, <1>2, <1>3, <1>4 DEF Path
      <3> HIDE DEF A, B
      <3>3. Cardinality(A \cup {r}) = Cardinality(A) + 1
        BY Zenon, <2>1 DEF Counts
      <3> QED
        BY Zenon, <3>1, <3>2, <3>3, <2>1 DEF B
    <2>3. CASE ~(m \preceq n)
      <3>1. B = A
        BY Zenon, <2>3
      <3>2. u.lock_ref[m] = t.lock_ref[m]
        BY ZenonT(30), <2>3, <1>2, <1>3, <1>4 DEF Path
      <3> QED
        BY Zenon, <3>1, <3>2, <2>1
    <2> QED
      BY Zenon, <2>2, <2>3
  <1>8. \A q \in Q \cup {r} : new[q] \in Nodes(u) \cup {root}
    BY Zenon, <1>4 DEF Locks
  <1>9. Locks(u, Q \cup {r}, new)
    BY Zenon, <1>7, <1>8 DEF Locks
  <1> QED
    BY Zenon, <1>4, <1>6, <1>9 DEF u

(* A request r of Q gives up its lock.                                       *)
Unlocker(t, S, V, Q, last, r) ==
  Shape(t, S, V) /\ Counts(Q) /\ r \in Q /\ Locks(t, Q, last)

(* dec_lock_ref counts one request less.                                     *)
LEMMA DecLocks ==
  ASSUME NEW S, NEW V, NEW t, NEW Q, NEW last, NEW r, Unlocker(t, S, V, Q, last, r)
  PROVE  LET u == DecLockRef(t, last[r]) IN
         /\ Shape(u, S, V) /\ u.value = t.value /\ Nodes(u) = Nodes(t)
         /\ Locks(u, Q \ {r}, last)
  <1> Shape(t, S, V) /\ Counts(Q) /\ r \in Q /\ Locks(t, Q, last)
    BY Zenon DEF Unlocker
  <1> DEFINE n == last[r]
             size == SizeOf(t, {m \in Path(t, n) : t.lock_ref[m] = 1})
             w == [t EXCEPT !.lock_ref = [m \in Nodes(t) |-> IF m \in Path(t, n) THEN @[m] - 1 ELSE @[m]],
                            !.evictable_size_ = @ + size, !.protected_size_ = @ - size]
             u == DecLockRef(t, n)
  <1>1. u = UpdateLeafStatus(w, Path(t, n))
    BY Zenon DEF DecLockRef
  <1> HIDE DEF u
  <1>2. /\ DOMAIN w = Fields /\ w.evictable_leaves = t.evictable_leaves /\ w.value = t.value
        /\ w.lock_ref = [m \in Nodes(t) |-> IF m \in Path(t, n) THEN t.lock_ref[m] - 1 ELSE t.lock_ref[m]]
    BY Zenon DEF Shape, Fields
  <1> HIDE DEF w
  <1>3. /\ DOMAIN u = Fields /\ u.value = w.value /\ u.lock_ref = w.lock_ref
        /\ \A m \in u.evictable_leaves :
             \/ m \in w.evictable_leaves /\ m \notin Path(t, n)
             \/ m \in Nodes(w) /\ w.lock_ref[m] = 0
    <2>1. DOMAIN w = Fields
      BY Zenon, <1>2
    <2> QED
      BY <1>1, <2>1, LeafStatus
  <1>4. Nodes(u) = Nodes(t) /\ u.value = t.value
    BY Zenon, <1>2, <1>3 DEF Nodes
  <1>5. \A m \in u.evictable_leaves : m \in Nodes(u) /\ u.lock_ref[m] = 0
    <2>1. Nodes(w) = Nodes(t)
      BY Zenon, <1>2 DEF Nodes
    <2>2. \A m \in t.evictable_leaves : m \in Nodes(t) /\ t.lock_ref[m] = 0
      BY Zenon DEF Shape
    <2>3. \A m \in Nodes(t) : m \notin Path(t, n) => w.lock_ref[m] = t.lock_ref[m]
      BY Zenon, <1>2
    <2> QED
      BY Zenon, <2>1, <2>2, <2>3, <1>2, <1>3, <1>4
  <1>6. Shape(u, S, V)
    BY Zenon, <1>3, <1>4, <1>5 DEF Shape, Cached, Owns
  <1>7. ASSUME NEW m \in Nodes(u)
        PROVE  u.lock_ref[m] = Cardinality({q \in Q \ {r} : m \preceq last[q]})
    <2> DEFINE A == {q \in Q : m \preceq last[q]}
               B == {q \in Q \ {r} : m \preceq last[q]}
    <2>1. A \in SUBSET Q /\ t.lock_ref[m] = Cardinality(A)
      BY Zenon, <1>4 DEF Locks
    <2>2. CASE m \preceq n
      <3>1. B = A \ {r} /\ r \in A
        BY Zenon, <2>2
      <3>2. u.lock_ref[m] = t.lock_ref[m] - 1
        BY Zenon, <2>2, <1>2, <1>3, <1>4 DEF Path
      <3> HIDE DEF A, B
      <3>3. Cardinality(A \ {r}) = Cardinality(A) - 1
        BY <2>1, <3>1, OneLess
      <3> QED
        BY Zenon, <3>1, <3>2, <3>3, <2>1 DEF B
    <2>3. CASE ~(m \preceq n)
      <3>1. B = A
        BY Zenon, <2>3
      <3>2. u.lock_ref[m] = t.lock_ref[m]
        BY Zenon, <2>3, <1>2, <1>3, <1>4 DEF Path
      <3> QED
        BY Zenon, <3>1, <3>2, <2>1
    <2> QED
      BY Zenon, <2>2, <2>3
  <1>8. \A q \in Q \ {r} : last[q] \in Nodes(u) \cup {root}
    BY Zenon, <1>4 DEF Locks
  <1>9. Locks(u, Q \ {r}, last)
    BY Zenon, <1>7, <1>8 DEF Locks
  <1> QED
    BY Zenon, <1>4, <1>6, <1>9 DEF u

-----------------------------------------------------------------------------
(* Unlocked nodes, together with their descendants.                          *)
Removable(t, R) ==
  /\ R \subseteq Nodes(t) /\ \A n \in R : \A k \in Nodes(t) : n \preceq k => k \in R
  /\ \A n \in R : t.lock_ref[n] = 0

(* evict removes nothing else: evictable_leaves holds unlocked nodes only.   *)
LEMMA EvictionsRemovable ==
  ASSUME NEW S, NEW V, NEW t, Shape(t, S, V), NEW num, NEW R \in Evictions(t, num)
  PROVE  Removable(t, R)
  <1>1. /\ R \subseteq Nodes(t) /\ \A n \in R : \A k \in Nodes(t) : n \preceq k => k \in R
        /\ \A n \in R : n \preceq n => (Childless(t, n) => n \in t.evictable_leaves)
                                       /\ (~Childless(t, n) => t.lock_ref[n] = 0)
    BY Zenon DEF Evictions
  <1>2. \A n \in R : n \preceq n
    BY ZenonT(30), <1>1, PrefixOrder DEF Shape
  <1> QED
    BY Zenon, <1>1, <1>2 DEF Shape, Removable

(* Their removal leaves every path that a request holds in the tree.         *)
LEMMA EvictProps ==
  ASSUME NEW S, NEW V, NEW t, Shape(t, S, V), NEW R, Removable(t, R),
         NEW Q, Counts(Q), NEW last, Locks(t, Q, last)
  PROVE  LET u == DeleteNodes(t, R) IN
         /\ Shape(u, S, V) /\ Locks(u, Q, last)
         /\ Cached(u) = {y \in Cached(t) : Owner(t, y) \notin R}
         /\ \A y \in Cached(u) : u.value[y] = t.value[y]
         /\ \A r \in Q : \A y \in Cached(t) : y \preceq last[r] => y \in Cached(u)
  <1> DEFINE keep == Nodes(t) \ R
             left == {y \in Cached(t) : Owner(t, y) \notin R}
             w == [t EXCEPT
                     !.value = [x \in left |-> @[x]],
                     !.lock_ref = [n \in keep |-> @[n]],
                     !.evictable_size_ = @ - SizeOf(t, R),
                     !.evictable_leaves = @ \ R]
             parents == {n \in keep : \E r \in R : n \prec r /\ \A k \in keep : k \prec r => k \preceq n}
             u == DeleteNodes(t, R)
  <1>1. u = UpdateLeafStatus(w, parents)
    BY Zenon DEF DeleteNodes
  <1>2. /\ DOMAIN w = Fields /\ w.evictable_leaves = t.evictable_leaves \ R
        /\ w.value = [x \in left |-> t.value[x]] /\ w.lock_ref = [n \in keep |-> t.lock_ref[n]]
    BY Zenon DEF Shape, Fields
  <1> HIDE DEF w
  <1>3. /\ DOMAIN u = Fields /\ u.value = w.value /\ u.lock_ref = w.lock_ref
        /\ \A m \in u.evictable_leaves :
             \/ m \in w.evictable_leaves /\ m \notin parents
             \/ m \in Nodes(w) /\ w.lock_ref[m] = 0
    <2>1. DOMAIN w = Fields
      BY Zenon, <1>2
    <2> QED
      BY <1>1, <2>1, LeafStatus
  <1> HIDE DEF u
  <1>4. /\ Cached(u) = left /\ \A y \in left : u.value[y] = t.value[y]
        /\ Nodes(u) = keep /\ \A n \in keep : u.lock_ref[n] = t.lock_ref[n]
    BY ZenonT(30), <1>2, <1>3 DEF Nodes, Cached
  <1>5. /\ R \subseteq Nodes(t) /\ \A n \in R : \A k \in Nodes(t) : n \preceq k => k \in R
        /\ \A n \in R : t.lock_ref[n] = 0
    BY Zenon DEF Removable
  <1>6. \A y \in Cached(t) : Owns(t, Owner(t, y), y)
    BY Zenon, OwnerProps
  <1>7. Nodes(u) \subseteq Cached(u)
    BY ZenonT(30), <1>4, OwnerProps DEF Shape
  <1>8. ASSUME NEW y \in Cached(u), NEW k \in 1..Len(y), k % PageSize = 0
        PROVE  Key(y, k) \in Cached(u)
    <2>1. y \in Seq(S) /\ Key(y, k) \in Cached(t) /\ Key(y, k) \in Seq(S) /\ Key(y, k) \preceq y
      BY <1>4, <1>8, KeyProps, PrefixKey DEF Shape
    <2>2. Owns(t, Owner(t, y), y) /\ Owns(t, Owner(t, Key(y, k)), Key(y, k)) /\ Owner(t, y) \in Seq(S)
      BY ZenonT(30), <1>4, <1>6, <2>1 DEF Shape, Owns
    <2>3. Key(y, k) \preceq Owner(t, y)
      BY Zenon, <2>1, <2>2, PrefixOrder DEF Owns
    <2>4. Owner(t, Key(y, k)) \preceq Owner(t, y)
      BY Zenon, <2>2, <2>3 DEF Owns
    <2> QED
      BY Zenon, <1>4, <1>5, <2>1, <2>2, <2>4 DEF Owns
  <1>9. \A y \in Cached(u) : \E n \in Nodes(u) : Owns(u, n, y)
    BY Zenon, <1>4, <1>6 DEF Owns
  <1>10. \A m \in u.evictable_leaves : m \in Nodes(u) /\ u.lock_ref[m] = 0
    BY ZenonT(30), <1>2, <1>3, <1>4 DEF Shape, Nodes
  <1>11. Shape(u, S, V)
    BY ZenonT(30), <1>3, <1>4, <1>7, <1>8, <1>9, <1>10 DEF Shape
  <1>12. ASSUME NEW r \in Q PROVE last[r] \notin R /\ last[r] \in Nodes(u) \cup {root}
    <2>1. ASSUME last[r] \in R PROVE FALSE
      <3> DEFINE A == {q \in Q : last[r] \preceq last[q]}
      <3>1. last[r] \in Nodes(t) /\ t.lock_ref[last[r]] = Cardinality(A) /\ Cardinality(A) = 0
        BY Zenon, <2>1, <1>5 DEF Locks
      <3>2. r \in A
        BY <3>1, PrefixOrder DEF Shape
      <3>3. A \in SUBSET Q
        BY Zenon
      <3> HIDE DEF A
      <3>4. Cardinality(A \ {r}) \in Nat /\ Cardinality(A) = Cardinality(A \ {r}) + 1
        BY Zenon, <3>2, <3>3, OneLess
      <3> QED
        BY <3>1, <3>4
    <2> QED
      BY Zenon, <2>1, <1>4 DEF Locks
  <1>13. Locks(u, Q, last)
    BY Zenon, <1>4, <1>12 DEF Locks
  <1>14. ASSUME NEW r \in Q, NEW y \in Cached(t), y \preceq last[r] PROVE y \in Cached(u)
    <2>1. y # root /\ y \in Seq(S)
      BY Zenon DEF Shape
    <2>2. last[r] # root
      BY <2>1, <1>14 DEF \preceq, root
    <2>3. last[r] \in Nodes(t) /\ last[r] \notin R
      BY Zenon, <2>2, <1>12, <1>4
    <2>4. Owner(t, y) \preceq last[r] /\ Owner(t, y) \in Nodes(t)
      BY Zenon, <2>3, <1>6, <1>14 DEF Owns
    <2> QED
      BY Zenon, <2>3, <2>4, <1>4, <1>5
  <1> HIDE DEF left
  <1>15. /\ Shape(u, S, V) /\ Locks(u, Q, last) /\ Cached(u) = left
         /\ \A y \in Cached(u) : u.value[y] = t.value[y]
         /\ \A r \in Q : \A y \in Cached(t) : y \preceq last[r] => y \in Cached(u)
    BY Zenon, <1>4, <1>11, <1>13, <1>14
  <1> QED
    BY Zenon, <1>15 DEF u, left

-----------------------------------------------------------------------------
(* evictable_size_, protected_size_ and evictable_leaves. *)

(* The cached paths of unlocked and of locked nodes, and the unlocked nodes
   without children: what evictable_size_, protected_size_ and
   evictable_leaves stand for.                                              *)
Unlocked(t) == {x \in Cached(t) : t.lock_ref[Owner(t, x)] = 0}
Locked(t) == Cached(t) \ Unlocked(t)
Leaves(t) == {n \in Nodes(t) : t.lock_ref[n] = 0 /\ Childless(t, n)}

(* What the lemmas below use of the sizes of finite sets.  The library proves
   it (SetSizesAlways in KVCacheProofs).                                    *)
SetSizes ==
  /\ IsFiniteSet({}) /\ Cardinality({}) = 0
  /\ \A A : IsFiniteSet(A) => Cardinality(A) \in Nat /\ \A B \in SUBSET A : IsFiniteSet(B)
  /\ \A A, B : IsFiniteSet(A) /\ IsFiniteSet(B) /\ A \cap B = {} =>
       IsFiniteSet(A \cup B) /\ Cardinality(A \cup B) = Cardinality(A) + Cardinality(B)
  /\ \A a, b \in Nat : a <= b => IsFiniteSet((a + 1)..b) /\ Cardinality((a + 1)..b) = b - a
  /\ \A A, B : IsFiniteSet(A) =>
       \A f \in [A -> B] :
         (\A x, y \in A : f[x] = f[y] => x = y) /\ (\A z \in B : \E x \in A : f[x] = z)
         => IsFiniteSet(B) /\ Cardinality(B) = Cardinality(A)
  /\ \A A, B : IsFiniteSet(B) =>
       \A f \in [A -> B] : (\A x, y \in A : f[x] = f[y] => x = y)
                          => IsFiniteSet(A) /\ Cardinality(A) <= Cardinality(B)
  /\ \A A, B : IsFiniteSet(A) /\ IsFiniteSet(B) =>
       IsFiniteSet(A \X B) /\ Cardinality(A \X B) = Cardinality(A) * Cardinality(B)

(* The size of a finite set is a natural number.                            *)
LEMMA SizeNat ==
  ASSUME SetSizes, NEW A, IsFiniteSet(A) PROVE Cardinality(A) \in Nat
  BY Zenon DEF SetSizes

(* A part of a finite set is finite.                                        *)
LEMMA PartFinite ==
  ASSUME SetSizes, NEW A, IsFiniteSet(A), NEW B, B \subseteq A PROVE IsFiniteSet(B)
  BY Zenon DEF SetSizes

(* Finite sets that are apart: their union is finite, and has the sum of
   their sizes.                                                             *)
LEMMA UnionSize ==
  ASSUME SetSizes, NEW A, IsFiniteSet(A), NEW B, IsFiniteSet(B), A \cap B = {}
  PROVE  IsFiniteSet(A \cup B) /\ Cardinality(A \cup B) = Cardinality(A) + Cardinality(B)
  BY Zenon DEF SetSizes

(* evictable_size_ and protected_size_ are the tokens of the unlocked and of
   the locked paths, and evictable_leaves the unlocked nodes without
   children.                                                                *)
Account(t) ==
  /\ SetSizes
  /\ IsFiniteSet(Cached(t))
  /\ t.evictable_size_ = PageSize * Cardinality(Unlocked(t))
  /\ t.protected_size_ = PageSize * Cardinality(Locked(t))
  /\ t.evictable_leaves = Leaves(t)

(* The node that owns a path is unique.                                      *)
LEMMA OwnerUnique ==
  ASSUME NEW S, NEW V, NEW t, Shape(t, S, V), NEW x \in Cached(t), NEW n, Owns(t, n, x)
  PROVE  Owner(t, x) = n
  <1>1. Owns(t, Owner(t, x), x)
    BY Zenon, OwnerProps
  <1>2. n \in Seq(S) /\ Owner(t, x) \in Seq(S)
    BY Zenon, <1>1 DEF Owns, Shape
  <1>3. n \preceq Owner(t, x) /\ Owner(t, x) \preceq n
    BY Zenon, <1>1 DEF Owns
  <1> QED
    BY Zenon, <1>2, <1>3, PrefixOrder

(* _update_leaf_status completes evictable_leaves when the nodes outside of X
   have the right status.                                                   *)
LEMMA LeavesUpdated ==
  ASSUME NEW t, DOMAIN t = Fields, NEW X, NEW u, u = UpdateLeafStatus(t, X),
         \A n : n \notin X => (n \in t.evictable_leaves <=> n \in Leaves(t))
  PROVE  /\ u.evictable_leaves = Leaves(u) /\ u.value = t.value /\ u.lock_ref = t.lock_ref
         /\ u.evictable_size_ = t.evictable_size_ /\ u.protected_size_ = t.protected_size_
  <1>1. /\ u.value = t.value /\ u.lock_ref = t.lock_ref
        /\ u.evictable_size_ = t.evictable_size_ /\ u.protected_size_ = t.protected_size_
        /\ u.evictable_leaves = (t.evictable_leaves \ X)
             \cup {n \in X \cap Nodes(t) : t.lock_ref[n] = 0 /\ Childless(t, n)}
    BY Zenon DEF UpdateLeafStatus, Fields
  <1>2. Leaves(u) = Leaves(t)
    BY Zenon, <1>1 DEF Leaves, Nodes, Childless
  <1>3. u.evictable_leaves = Leaves(t)
    BY Zenon, <1>1 DEF Leaves
  <1> QED
    BY Zenon, <1>1, <1>2, <1>3

(* Splitting a node moves no path between the locked and the unlocked ones:
   the new node has the lock_ref of the node that it splits.                *)
LEMMA SplitAccount ==
  ASSUME NEW S, NEW V, NEW t, Shape(t, S, V), Account(t), NEW x \in Cached(t) \cup {root}
  PROVE  /\ Account(SplitNode(t, x)) /\ Unlocked(SplitNode(t, x)) = Unlocked(t)
         /\ SplitNode(t, x).evictable_size_ = t.evictable_size_
         /\ SplitNode(t, x).protected_size_ = t.protected_size_
  <1>1. CASE x = root \/ x \in Nodes(t)
    BY Zenon, <1>1 DEF SplitNode
  <1>2. CASE x # root /\ x \notin Nodes(t)
    <2> DEFINE u == SplitNode(t, x)
    <2>1. u = [t EXCEPT !.lock_ref = [n \in Nodes(t) \cup {x} |->
                                        t.lock_ref[IF n = x THEN Owner(t, x) ELSE n]]]
      BY Zenon, <1>2 DEF SplitNode
    <2>2. /\ u.evictable_size_ = t.evictable_size_ /\ u.protected_size_ = t.protected_size_
          /\ u.evictable_leaves = t.evictable_leaves
      BY Zenon, <2>1 DEF Shape, Fields
    <2>3. /\ Shape(u, S, V) /\ u.value = t.value /\ Nodes(u) = Nodes(t) \cup {x}
          /\ \A n \in Nodes(t) : u.lock_ref[n] = t.lock_ref[n]
          /\ u.lock_ref[x] = t.lock_ref[Owner(t, x)]
      BY <1>2, SplitShape
    <2>4. x \in Cached(t) /\ x \in Seq(S) /\ Owns(t, Owner(t, x), x) /\ Nodes(t) \subseteq Seq(S)
      BY Zenon, <1>2, OwnerProps DEF Shape
    <2> HIDE DEF u
    <2>5. ASSUME NEW y \in Cached(t) PROVE u.lock_ref[Owner(u, y)] = t.lock_ref[Owner(t, y)]
      <3> DEFINE n == Owner(t, y)
                 o == Owner(t, x)
      <3>1. Owns(t, n, y) /\ y \in Seq(S) /\ n \in Seq(S) /\ o \in Seq(S) /\ o \in Nodes(t)
        BY ZenonT(30), <2>4, OwnerProps DEF Shape, Owns
      <3>2. y \in Cached(u)
        BY Zenon, <2>3 DEF Cached
      <3> HIDE DEF n, o
      <3>3. CASE y \preceq x /\ ~(n \preceq x)
        <4>1. y \preceq o
          BY Zenon, <3>1, <3>3, <2>4, PrefixOrder DEF Owns, o
        <4>2. n \preceq o
          BY Zenon, <3>1, <4>1 DEF Owns
        <4>3. x \preceq n
          BY <4>2, <3>1, <3>3, <2>4, PrefixOrder DEF Owns, \preceq, o
        <4>4. \A k \in Nodes(t) : y \preceq k => x \preceq k
          BY Zenon, <3>1, <4>3, <2>4, PrefixOrder DEF Owns
        <4>5. Owns(u, x, y)
          BY <3>3, <4>4, <2>3, <2>4, PrefixOrder DEF Owns
        <4>6. o \preceq n
          BY Zenon, <4>3, <3>1, <2>4 DEF Owns, o
        <4>7. o = n
          BY Zenon, <4>2, <4>6, <3>1, PrefixOrder
        <4>8. Owner(u, y) = x
          BY Zenon, <4>5, <3>2, <2>3, OwnerUnique
        <4> QED
          BY Zenon, <4>7, <4>8, <2>3 DEF n, o
      <3>4. CASE ~(y \preceq x /\ ~(n \preceq x))
        <4>1. Owns(u, n, y)
          BY Zenon, <3>1, <3>4, <2>3 DEF Owns
        <4>2. Owner(u, y) = n
          BY Zenon, <4>1, <3>2, <2>3, OwnerUnique
        <4> QED
          BY Zenon, <4>2, <3>1, <2>3 DEF n, Owns
      <3> QED
        BY Zenon, <3>3, <3>4
    <2>6. Unlocked(u) = Unlocked(t) /\ Locked(u) = Locked(t) /\ Cached(u) = Cached(t)
      BY Zenon, <2>3, <2>5 DEF Unlocked, Locked, Cached
    <2>7. Leaves(u) = Leaves(t)
      <3> DEFINE o == Owner(t, x)
      <3>1. x \prec o /\ o \in Nodes(t) /\ o \in Seq(S)
        BY Zenon, <1>2, <2>4 DEF Owns, \prec
      <3> HIDE DEF o
      <3>2. ~Childless(u, x)
        BY Zenon, <3>1, <2>3 DEF Childless
      <3>3. ASSUME NEW n \in Nodes(t), n \prec x PROVE n \prec o
        BY ZenonT(30), <3>1, <3>3, <2>4, PrefixOrder DEF \prec
      <3>4. \A n \in Nodes(t) : Childless(u, n) <=> Childless(t, n)
        BY Zenon, <3>1, <3>3, <2>3 DEF Childless
      <3> QED
        BY Zenon, <3>2, <3>4, <2>3 DEF Leaves
    <2>8. Account(u)
      BY Zenon, <2>2, <2>6, <2>7 DEF Account
    <2> QED
      BY Zenon, <2>2, <2>6, <2>8 DEF u
  <1> QED
    BY Zenon, <1>1, <1>2

(* The sizes of two sets of paths that are apart add up.                     *)
LEMMA JoinSize ==
  ASSUME SetSizes, NEW A, IsFiniteSet(A), NEW B, IsFiniteSet(B), A \cap B = {}
  PROVE  PageSize * Cardinality(A \cup B) = PageSize * Cardinality(A) + PageSize * Cardinality(B)
  <1>1. Cardinality(A \cup B) = Cardinality(A) + Cardinality(B)
    BY Zenon, UnionSize
  <1>2. Cardinality(A) \in Nat /\ Cardinality(B) \in Nat
    BY Zenon, SizeNat
  <1>3. \A a, b \in Int : PageSize * (a + b) = PageSize * a + PageSize * b
    BY PageSizeAssumption
  <1> QED
    BY <1>1, <1>2, <1>3

(* Moving the paths of P between the unlocked and the locked ones moves
   their size between the two counts.                                       *)
LEMMA MoveSize ==
  ASSUME SetSizes, NEW A, IsFiniteSet(A), NEW B, IsFiniteSet(B), A \cap B = {}, NEW P \in SUBSET A
  PROVE  /\ PageSize * Cardinality(A \ P) = PageSize * Cardinality(A) - PageSize * Cardinality(P)
         /\ PageSize * Cardinality(B \cup P) = PageSize * Cardinality(B) + PageSize * Cardinality(P)
  <1>1. IsFiniteSet(P) /\ IsFiniteSet(A \ P)
    BY Zenon, PartFinite
  <1>2. (A \ P) \cap P = {} /\ (A \ P) \cup P = A /\ B \cap P = {}
    BY Zenon
  <1>3. Cardinality(A) = Cardinality(A \ P) + Cardinality(P)
    <2>1. Cardinality((A \ P) \cup P) = Cardinality(A \ P) + Cardinality(P)
      BY ZenonT(30), <1>1, <1>2, UnionSize
    <2> QED
      BY Zenon, <1>2, <2>1
  <1>4. Cardinality(B \cup P) = Cardinality(B) + Cardinality(P)
    BY ZenonT(30), <1>1, <1>2, UnionSize
  <1>5. Cardinality(A) \in Nat /\ Cardinality(B) \in Nat /\ Cardinality(P) \in Nat /\ Cardinality(A \ P) \in Nat
    BY Zenon, <1>1, SizeNat
  <1>6. \A a, b \in Int : PageSize * (a - b) = PageSize * a - PageSize * b
                          /\ PageSize * (a + b) = PageSize * a + PageSize * b
    BY PageSizeAssumption
  <1> QED
    BY <1>3, <1>4, <1>5, <1>6

(* The lock counts are natural numbers.                                      *)
LEMMA LockNat ==
  ASSUME NEW t, NEW Q, Counts(Q), NEW last, Locks(t, Q, last), NEW n \in Nodes(t)
  PROVE  t.lock_ref[n] \in Nat
  <1> DEFINE A == {r \in Q : n \preceq last[r]}
  <1>1. A \in SUBSET Q /\ t.lock_ref[n] = Cardinality(A)
    BY Zenon DEF Locks
  <1> QED
    BY Zenon, <1>1 DEF Counts

(* inc_lock_ref moves the unlocked nodes of the path to the protected size.  *)
LEMMA IncAccount ==
  ASSUME NEW S, NEW V, NEW t, NEW Q, Counts(Q), NEW last, Shape(t, S, V),
         Locks(t, Q, last), Account(t), NEW n
  PROVE  Account(IncLockRef(t, n))
  <1> DEFINE P == {x \in Cached(t) : Owner(t, x) \in {m \in Path(t, n) : t.lock_ref[m] = 0}}
             size == SizeOf(t, {m \in Path(t, n) : t.lock_ref[m] = 0})
             w == [t EXCEPT !.lock_ref = [m \in Nodes(t) |-> IF m \in Path(t, n) THEN @[m] + 1 ELSE @[m]],
                            !.evictable_size_ = @ - size, !.protected_size_ = @ + size]
             u == IncLockRef(t, n)
  <1>1. u = UpdateLeafStatus(w, Path(t, n))
    BY Zenon DEF IncLockRef
  <1>2. size = PageSize * Cardinality(P)
    BY Zenon DEF SizeOf
  <1> HIDE DEF u, size
  <1>3. /\ DOMAIN w = Fields /\ w.evictable_leaves = t.evictable_leaves /\ w.value = t.value
        /\ w.lock_ref = [m \in Nodes(t) |-> IF m \in Path(t, n) THEN t.lock_ref[m] + 1 ELSE t.lock_ref[m]]
        /\ w.evictable_size_ = t.evictable_size_ - size
        /\ w.protected_size_ = t.protected_size_ + size
    BY Zenon DEF Shape, Fields
  <1> HIDE DEF w
  <1>4. /\ Nodes(w) = Nodes(t) /\ Cached(w) = Cached(t)
        /\ \A m \in Nodes(t) : m \notin Path(t, n) => w.lock_ref[m] = t.lock_ref[m]
        /\ \A m \in Path(t, n) : m \in Nodes(t) /\ w.lock_ref[m] # 0
    <2>1. \A m \in Path(t, n) : m \in Nodes(t) /\ t.lock_ref[m] \in Nat
      BY Zenon, LockNat DEF Path
    <2> QED
      BY <1>3, <2>1 DEF Nodes, Cached
  <1>5. \A m : m \notin Path(t, n) => (m \in w.evictable_leaves <=> m \in Leaves(w))
    BY Zenon, <1>3, <1>4 DEF Account, Leaves, Childless
  <1>6. /\ u.evictable_leaves = Leaves(u) /\ u.value = t.value /\ u.lock_ref = w.lock_ref
        /\ u.evictable_size_ = t.evictable_size_ - size
        /\ u.protected_size_ = t.protected_size_ + size
    BY <1>1, <1>3, <1>5, LeavesUpdated
  <1>7. Nodes(u) = Nodes(t) /\ Cached(u) = Cached(t) /\ \A x : Owner(u, x) = Owner(t, x)
    BY Zenon, <1>4, <1>6 DEF Nodes, Cached, Owner
  <1>8. \A x \in Cached(t) : Owner(t, x) \in Nodes(t)
    BY Zenon, OwnerProps DEF Owns
  <1>9. Unlocked(u) = Unlocked(t) \ P /\ Locked(u) = Locked(t) \cup P /\ P \subseteq Unlocked(t)
    <2>1. ASSUME NEW x \in Cached(t) PROVE x \in Unlocked(u) <=> x \in Unlocked(t) /\ x \notin P
      BY <1>4, <1>6, <1>7, <1>8 DEF Unlocked
    <2>2. P \subseteq Unlocked(t) /\ Unlocked(t) \subseteq Cached(t) /\ Unlocked(u) \subseteq Cached(t)
      BY Zenon, <1>7 DEF Unlocked
    <2> HIDE DEF P
    <2> QED
      BY Zenon, <1>7, <2>1, <2>2 DEF Locked
  <1>10. IsFiniteSet(Unlocked(t)) /\ IsFiniteSet(Locked(t)) /\ Unlocked(t) \cap Locked(t) = {}
    BY Zenon, PartFinite DEF Account, Unlocked, Locked
  <1> HIDE DEF P
  <1>11. /\ PageSize * Cardinality(Unlocked(u)) = t.evictable_size_ - size
         /\ PageSize * Cardinality(Locked(u)) = t.protected_size_ + size
    <2>1. /\ PageSize * Cardinality(Unlocked(t) \ P)
               = PageSize * Cardinality(Unlocked(t)) - PageSize * Cardinality(P)
          /\ PageSize * Cardinality(Locked(t) \cup P)
               = PageSize * Cardinality(Locked(t)) + PageSize * Cardinality(P)
      <3>1. P \in SUBSET Unlocked(t)
        BY Zenon, <1>9
      <3>2. IsFiniteSet(Unlocked(t)) /\ IsFiniteSet(Locked(t)) /\ Unlocked(t) \cap Locked(t) = {}
        BY Zenon, <1>10
      <3> QED
        BY SMTT(30), <3>1, <3>2, MoveSize DEF Account
    <2> QED
      BY Zenon, <1>2, <1>9, <2>1 DEF Account
  <1>12. Account(u)
    BY Zenon, <1>6, <1>7, <1>11 DEF Account
  <1> QED
    BY Zenon, <1>12 DEF u

(* dec_lock_ref moves the nodes that nobody locks any more back.             *)
LEMMA DecAccount ==
  ASSUME NEW S, NEW V, NEW t, NEW Q, NEW last, NEW r, Unlocker(t, S, V, Q, last, r), Account(t)
  PROVE  Account(DecLockRef(t, last[r]))
  <1> Shape(t, S, V) /\ Counts(Q) /\ r \in Q /\ Locks(t, Q, last)
    BY Zenon DEF Unlocker
  <1> DEFINE n == last[r]
             P == {x \in Cached(t) : Owner(t, x) \in {m \in Path(t, n) : t.lock_ref[m] = 1}}
             size == SizeOf(t, {m \in Path(t, n) : t.lock_ref[m] = 1})
             w == [t EXCEPT !.lock_ref = [m \in Nodes(t) |-> IF m \in Path(t, n) THEN @[m] - 1 ELSE @[m]],
                            !.evictable_size_ = @ + size, !.protected_size_ = @ - size]
             u == DecLockRef(t, n)
  <1>1. u = UpdateLeafStatus(w, Path(t, n))
    BY Zenon DEF DecLockRef
  <1>2. size = PageSize * Cardinality(P)
    BY Zenon DEF SizeOf
  <1> HIDE DEF u, size
  <1>3. /\ DOMAIN w = Fields /\ w.evictable_leaves = t.evictable_leaves /\ w.value = t.value
        /\ w.lock_ref = [m \in Nodes(t) |-> IF m \in Path(t, n) THEN t.lock_ref[m] - 1 ELSE t.lock_ref[m]]
        /\ w.evictable_size_ = t.evictable_size_ + size
        /\ w.protected_size_ = t.protected_size_ - size
    BY Zenon DEF Shape, Fields
  <1> HIDE DEF w
  <1>4. ASSUME NEW m \in Path(t, n) PROVE m \in Nodes(t) /\ t.lock_ref[m] \in Nat \ {0}
    <2> DEFINE A == {q \in Q : m \preceq last[q]}
    <2>1. m \in Nodes(t) /\ m \preceq n
      BY Zenon DEF Path
    <2>2. A \in SUBSET Q /\ r \in A /\ t.lock_ref[m] = Cardinality(A)
      BY Zenon, <2>1 DEF Locks
    <2> HIDE DEF A
    <2>3. Cardinality(A \ {r}) \in Nat /\ Cardinality(A) = Cardinality(A \ {r}) + 1
      BY Zenon, <2>2, OneLess
    <2> QED
      BY <2>1, <2>2, <2>3
  <1>5. /\ Nodes(w) = Nodes(t) /\ Cached(w) = Cached(t)
        /\ \A m \in Nodes(t) : m \notin Path(t, n) => w.lock_ref[m] = t.lock_ref[m]
        /\ \A m \in Path(t, n) : m \in Nodes(t) /\ t.lock_ref[m] # 0
                                 /\ (w.lock_ref[m] = 0 <=> t.lock_ref[m] = 1)
    BY SMTT(30), <1>3, <1>4 DEF Nodes, Cached
  <1>6. \A m : m \notin Path(t, n) => (m \in w.evictable_leaves <=> m \in Leaves(w))
    BY ZenonT(30), <1>3, <1>5 DEF Account, Leaves, Childless
  <1>7. /\ u.evictable_leaves = Leaves(u) /\ u.value = t.value /\ u.lock_ref = w.lock_ref
        /\ u.evictable_size_ = t.evictable_size_ + size
        /\ u.protected_size_ = t.protected_size_ - size
    BY SMTT(30), <1>1, <1>3, <1>6, LeavesUpdated
  <1>8. Nodes(u) = Nodes(t) /\ Cached(u) = Cached(t) /\ \A x : Owner(u, x) = Owner(t, x)
    BY Zenon, <1>5, <1>7 DEF Nodes, Cached, Owner
  <1>9. \A x \in Cached(t) : Owner(t, x) \in Nodes(t)
    BY Zenon, OwnerProps DEF Owns
  <1>10. Unlocked(u) = Unlocked(t) \cup P /\ Locked(u) = Locked(t) \ P /\ P \subseteq Locked(t)
    <2>1. ASSUME NEW x \in Cached(t)
          PROVE  (x \in Unlocked(u) <=> x \in Unlocked(t) \/ x \in P) /\ (x \in P => x \notin Unlocked(t))
      BY ZenonT(30), <1>5, <1>7, <1>8, <1>9 DEF Unlocked
    <2>2. P \subseteq Cached(t) /\ Unlocked(t) \subseteq Cached(t) /\ Unlocked(u) \subseteq Cached(t)
      BY Zenon, <1>8 DEF Unlocked
    <2> HIDE DEF P
    <2> QED
      BY Zenon, <1>8, <2>1, <2>2 DEF Locked
  <1>11. IsFiniteSet(Unlocked(t)) /\ IsFiniteSet(Locked(t)) /\ Locked(t) \cap Unlocked(t) = {}
    BY Zenon, PartFinite DEF Account, Unlocked, Locked
  <1> HIDE DEF P
  <1>12. /\ PageSize * Cardinality(Unlocked(u)) = t.evictable_size_ + size
         /\ PageSize * Cardinality(Locked(u)) = t.protected_size_ - size
    <2>1. SetSizes /\ P \in SUBSET Locked(t)
      BY Zenon, <1>10 DEF Account
    <2>2. PICK A, B : A = Locked(t) /\ B = Unlocked(t)
      BY Zenon
    <2>3. SetSizes /\ IsFiniteSet(A) /\ IsFiniteSet(B) /\ A \cap B = {} /\ P \in SUBSET A
      BY Zenon, <1>11, <2>1, <2>2
    <2>4. /\ PageSize * Cardinality(A \ P) = PageSize * Cardinality(A) - PageSize * Cardinality(P)
          /\ PageSize * Cardinality(B \cup P) = PageSize * Cardinality(B) + PageSize * Cardinality(P)
      BY SMTT(30), <2>3, MoveSize
    <2> QED
      BY Zenon, <1>2, <1>10, <2>2, <2>4 DEF Account
  <1>13. Account(u)
    BY Zenon, <1>7, <1>8, <1>12 DEF Account
  <1> QED
    BY Zenon, <1>13 DEF u

(* evict takes the size of the nodes it deletes off, and a parent whose last
   child is deleted becomes an evictable leaf.                              *)
LEMMA EvictAccount ==
  ASSUME NEW S, NEW V, NEW t, Shape(t, S, V), Account(t), NEW R, Removable(t, R),
         NEW Q, Counts(Q), NEW last, Locks(t, Q, last)
  PROVE  Account(DeleteNodes(t, R))
  <1> DEFINE keep == Nodes(t) \ R
             P == {y \in Cached(t) : Owner(t, y) \in R}
             left == {y \in Cached(t) : Owner(t, y) \notin R}
             w == [t EXCEPT
                     !.value = [x \in left |-> @[x]],
                     !.lock_ref = [n \in keep |-> @[n]],
                     !.evictable_size_ = @ - SizeOf(t, R),
                     !.evictable_leaves = @ \ R]
             parents == {n \in keep : \E r \in R : n \prec r /\ \A k \in keep : k \prec r => k \preceq n}
             u == DeleteNodes(t, R)
  <1>1. u = UpdateLeafStatus(w, parents)
    BY Zenon DEF DeleteNodes
  <1>2. /\ DOMAIN w = Fields /\ w.evictable_leaves = t.evictable_leaves \ R
        /\ w.value = [x \in left |-> t.value[x]] /\ w.lock_ref = [n \in keep |-> t.lock_ref[n]]
        /\ w.evictable_size_ = t.evictable_size_ - SizeOf(t, R)
        /\ w.protected_size_ = t.protected_size_
    BY Zenon DEF Shape, Fields
  <1>3. SizeOf(t, R) = PageSize * Cardinality(P)
    BY Zenon DEF SizeOf
  <1> HIDE DEF w, u
  <1>4. /\ Nodes(w) = keep /\ Cached(w) = left /\ \A n \in keep : w.lock_ref[n] = t.lock_ref[n]
    BY Zenon, <1>2 DEF Nodes, Cached
  <1>5. R \subseteq Nodes(t) /\ Nodes(t) \subseteq Seq(S) /\ \A n \in R : t.lock_ref[n] = 0
    BY Zenon DEF Removable, Shape
  <1>6. ASSUME NEW n \in keep, Childless(w, n), ~Childless(t, n) PROVE n \in parents
    <2>1. PICK r \in Nodes(t) : n \prec r
      BY Zenon, <1>6 DEF Childless
    <2>2. r \in R
      BY Zenon, <1>4, <1>6, <2>1 DEF Childless
    <2>3. ASSUME NEW k \in keep, k \prec r PROVE k \preceq n
      <3>1. k \in Seq(S) /\ n \in Seq(S) /\ r \in Seq(S)
        BY Zenon, <1>5
      <3>2. k \preceq n \/ n \preceq k
        BY <2>1, <2>3, <3>1, PrefixOrder DEF \prec, \preceq
      <3>3. ~(n \prec k)
        BY Zenon, <1>4, <1>6 DEF Childless
      <3> QED
        BY Zenon, <3>1, <3>2, <3>3, PrefixOrder DEF \prec
    <2> QED
      BY Zenon, <2>1, <2>2, <2>3
  <1>7. \A n : n \notin parents => (n \in w.evictable_leaves <=> n \in Leaves(w))
    <2>1. ASSUME NEW n \in keep, n \notin parents PROVE Childless(w, n) <=> Childless(t, n)
      <3>1. Childless(t, n) => Childless(w, n)
        BY Zenon, <1>4 DEF Childless
      <3> QED
        BY Zenon, <1>6, <2>1, <3>1
    <2>2. w.evictable_leaves = Leaves(t) \ R
      BY Zenon, <1>2 DEF Account
    <2> HIDE DEF parents
    <2> QED
      BY Zenon, <1>4, <2>1, <2>2 DEF Leaves
  <1>8. /\ u.evictable_leaves = Leaves(u) /\ u.value = w.value /\ u.lock_ref = w.lock_ref
        /\ u.evictable_size_ = t.evictable_size_ - SizeOf(t, R)
        /\ u.protected_size_ = t.protected_size_
    <2> HIDE DEF parents
    <2> QED
      BY <1>1, <1>2, <1>7, LeavesUpdated
  <1>9. Nodes(u) = keep /\ Cached(u) = left /\ \A n \in keep : u.lock_ref[n] = t.lock_ref[n]
    BY Zenon, <1>4, <1>8 DEF Nodes, Cached
  <1>10. Shape(u, S, V)
    BY Zenon, EvictProps DEF u
  <1>11. ASSUME NEW y \in left
         PROVE  Owner(u, y) = Owner(t, y) /\ u.lock_ref[Owner(u, y)] = t.lock_ref[Owner(t, y)]
    <2>1. Owns(t, Owner(t, y), y) /\ Owner(t, y) \notin R
      BY Zenon, OwnerProps
    <2>2. Owns(u, Owner(t, y), y)
      BY Zenon, <1>9, <2>1 DEF Owns
    <2>3. Owner(u, y) = Owner(t, y)
      BY Zenon, <1>9, <1>10, <2>2, OwnerUnique
    <2> QED
      BY Zenon, <1>9, <2>2, <2>3 DEF Owns
  <1>12. P \subseteq Unlocked(t) /\ Unlocked(u) = Unlocked(t) \ P /\ Locked(u) = Locked(t)
    <2>1. P \subseteq Unlocked(t) /\ Cached(t) = left \cup P /\ left \cap P = {}
      BY Zenon, <1>5 DEF Unlocked
    <2>2. \A y \in left : y \in Unlocked(u) <=> y \in Unlocked(t)
      BY Zenon, <1>9, <1>11 DEF Unlocked
    <2>3. Unlocked(u) \subseteq left /\ Unlocked(t) \subseteq Cached(t)
      BY Zenon, <1>9 DEF Unlocked
    <2> HIDE DEF P, left
    <2> QED
      BY Zenon, <1>9, <2>1, <2>2, <2>3 DEF Locked
  <1>13. /\ IsFiniteSet(Unlocked(t)) /\ IsFiniteSet(Locked(t)) /\ Unlocked(t) \cap Locked(t) = {}
         /\ IsFiniteSet(left)
    BY Zenon, PartFinite DEF Account, Unlocked, Locked
  <1> HIDE DEF P, left
  <1>14. PageSize * Cardinality(Unlocked(u)) = t.evictable_size_ - SizeOf(t, R)
    <2>1. PageSize * Cardinality(Unlocked(t) \ P)
            = PageSize * Cardinality(Unlocked(t)) - PageSize * Cardinality(P)
      BY ZenonT(30), <1>12, <1>13, MoveSize DEF Account
    <2> QED
      BY Zenon, <1>3, <1>12, <2>1 DEF Account
  <1>15. Account(u)
    BY Zenon, <1>8, <1>9, <1>12, <1>13, <1>14 DEF Account
  <1> QED
    BY Zenon, <1>15 DEF u

(* A key of n whole pages has n - i prefixes of whole pages beyond its first i. *)
LEMMA AlignedKeys ==
  ASSUME SetSizes, NEW S, NEW s \in Seq(S), Len(s) % PageSize = 0, NEW m \in 0..Len(s), m % PageSize = 0
  PROVE  LET new == {Key(s, k) : k \in {j \in (m + 1)..Len(s) : j % PageSize = 0}}
         IN  IsFiniteSet(new) /\ PageSize * Cardinality(new) = Len(s) - m
  <1> DEFINE a == m \div PageSize
             b == Len(s) \div PageSize
             new == {Key(s, k) : k \in {j \in (m + 1)..Len(s) : j % PageSize = 0}}
             f == [i \in (a + 1)..b |-> Key(s, i * PageSize)]
  <1>1. a \in Nat /\ b \in Nat /\ m = a * PageSize /\ Len(s) = b * PageSize /\ m \in Nat
    <2>1. m \in Nat /\ Len(s) \in Nat
      OBVIOUS
    <2>2. a \in Nat /\ b \in Nat /\ m = PageSize * a + (m % PageSize)
          /\ Len(s) = PageSize * b + (Len(s) % PageSize)
      BY Zenon, <2>1, DivPage
    <2> HIDE DEF a, b
    <2> QED
      BY <2>1, <2>2, PageSizeAssumption
  <1>2. a <= b
    BY <1>1, MonoPage
  <1>3. ASSUME NEW i \in (a + 1)..b
        PROVE  /\ i \in Nat /\ i * PageSize \in (m + 1)..Len(s) /\ (i * PageSize) % PageSize = 0
               /\ Len(Key(s, i * PageSize)) = i * PageSize
    <2> HIDE DEF a, b
    <2>1. i \in Nat /\ a + 1 \in Nat
      BY <1>1
    <2>2. (a + 1) * PageSize <= i * PageSize /\ i * PageSize <= b * PageSize
      BY <1>1, <2>1, MonoPage
    <2>3. (a + 1) * PageSize = m + PageSize
      BY <1>1, PageSizeAssumption
    <2>4. i * PageSize \in Nat /\ (i * PageSize) % PageSize = 0
      BY Zenon, <2>1, MulPage
    <2>5. i * PageSize \in (m + 1)..Len(s)
      BY <1>1, <2>2, <2>3, <2>4, PageSizeAssumption
    <2>6. i * PageSize \in 0..Len(s)
      BY <1>1, <2>5
    <2> QED
      BY Zenon, <2>1, <2>4, <2>5, <2>6, KeyProps
  <1>4. f \in [(a + 1)..b -> new]
    BY Zenon, <1>3
  <1>5. \A i, j \in (a + 1)..b : f[i] = f[j] => i = j
    <2> SUFFICES ASSUME NEW i \in (a + 1)..b, NEW j \in (a + 1)..b, f[i] = f[j] PROVE i = j
      BY Zenon
    <2>1. i * PageSize = j * PageSize /\ i \in Nat /\ j \in Nat
      BY Zenon, <1>3
    <2> QED
      BY Zenon, <2>1, MulPage
  <1>6. \A y \in new : \E i \in (a + 1)..b : f[i] = y
    <2> SUFFICES ASSUME NEW k \in (m + 1)..Len(s), k % PageSize = 0
                 PROVE  \E i \in (a + 1)..b : f[i] = Key(s, k)
      BY Zenon
    <2> DEFINE i == k \div PageSize
    <2>1. k \in Nat /\ i \in Nat /\ k = i * PageSize
      <3>1. k \in Nat
        BY <1>1
      <3>2. i \in Nat /\ k = PageSize * i + (k % PageSize)
        BY Zenon, <3>1, DivPage
      <3> HIDE DEF i
      <3> QED
        BY <3>1, <3>2, PageSizeAssumption
    <2> HIDE DEF i, a, b
    <2>2. i <= b
      BY <1>1, <2>1, MonoPage
    <2>3. ~(i <= a)
      BY <1>1, <2>1, MonoPage
    <2>4. i \in (a + 1)..b
      BY <1>1, <2>1, <2>2, <2>3
    <2> QED
      BY Zenon, <2>1, <2>4
  <1>7. IsFiniteSet((a + 1)..b) /\ Cardinality((a + 1)..b) = b - a
    <2> HIDE DEF a, b
    <2> QED
      BY Zenon, <1>1, <1>2 DEF SetSizes
  <1>8. /\ \A i, j \in (a + 1)..b : f[i] = f[j] => i = j
        /\ \A z \in new : \E i \in (a + 1)..b : f[i] = z
    <2> HIDE DEF f, new
    <2> QED
      BY Zenon, <1>5, <1>6
  <1>9. IsFiniteSet(new) /\ Cardinality(new) = b - a
    <2> HIDE DEF new, f, a, b
    <2> QED
      BY ZenonT(30), <1>4, <1>7, <1>8 DEF SetSizes
  <1>10. PageSize * (b - a) = Len(s) - m
    <2> HIDE DEF a, b
    <2> QED
      BY <1>1, PageSizeAssumption
  <1> HIDE DEF a, b, new
  <1>11. IsFiniteSet(new) /\ PageSize * Cardinality(new) = Len(s) - m
    BY Zenon, <1>9, <1>10
  <1> QED
    BY Zenon, <1>11 DEF new

(* insert counts the pages that it adds as evictable, as nobody has locked the
   new node, which takes the place of its parent among the leaves.           *)
LEMMA InsertAccount ==
  ASSUME NEW S, NEW V, NEW t, Shape(t, S, V), Account(t), NEW s \in Seq(S), Len(s) % PageSize = 0,
         NEW pages, \A i \in 1..(Len(s) \div PageSize) : pages[i] \in V
  PROVE  Account(Insert(t, s, pages))
  <1> DEFINE m == MatchLen(t, s)
             new == {Key(s, k) : k \in {j \in (m + 1)..Len(s) : j % PageSize = 0}}
             x == Matched(t, s)
             u == SplitNode(t, x)
             v == Insert(t, s, pages)
  <1>1. /\ m \in 0..Len(s) /\ x \in Seq(S) /\ Len(x) = m /\ x \preceq s /\ x \in Cached(t) \cup {root}
    BY Zenon, MatchProps, MatchedProps DEF Shape
  <1>2. /\ Shape(u, S, V) /\ Account(u) /\ u.value = t.value /\ Cached(u) = Cached(t)
        /\ Nodes(u) = Nodes(t) \cup ({x} \ {root})
    BY <1>1, SplitShape, SplitAccount DEF Cached
  <1>3. Insert(t, s, pages) =
          IF x = s THEN u
          ELSE UpdateLeafStatus(
                 [u EXCEPT
                    !.value = [y \in Cached(u) \cup new |->
                                 IF y \in new THEN pages[Len(y) \div PageSize] ELSE u.value[y]],
                    !.lock_ref = [n \in Nodes(u) \cup {s} |-> IF n = s THEN 0 ELSE u.lock_ref[n]],
                    !.evictable_size_ = @ + Len(s) - Len(x)], {x, s})
    BY Zenon, <1>1 DEF Insert
  <1>4. /\ Shape(v, S, V) /\ Cached(v) = Cached(t) \cup new /\ Cached(t) \cap new = {}
        /\ Nodes(v) = Nodes(u) \cup ({s} \ {root})
        /\ \A n \in Nodes(u) : v.lock_ref[n] = u.lock_ref[n]
        /\ s \notin Nodes(u) /\ s # root => v.lock_ref[s] = 0 /\ s \notin Cached(t)
    BY InsertShape
  <1>5. m % PageSize = 0
    <2>1. CASE x = root
      BY <1>1, <2>1, PageSizeAssumption DEF root
    <2>2. CASE x \in Cached(t)
      BY <1>1, <2>2 DEF Shape
    <2> QED
      BY Zenon, <1>1, <2>1, <2>2
  <1>6. IsFiniteSet(new) /\ PageSize * Cardinality(new) = Len(s) - m
    BY Zenon, <1>1, <1>5, AlignedKeys DEF Account
  <1>7. CASE x = s
    BY Zenon, <1>2, <1>3, <1>7
  <1>8. CASE x # s
    <2> DEFINE w == [u EXCEPT
                      !.value = [y \in Cached(u) \cup new |->
                                   IF y \in new THEN pages[Len(y) \div PageSize] ELSE u.value[y]],
                      !.lock_ref = [n \in Nodes(u) \cup {s} |-> IF n = s THEN 0 ELSE u.lock_ref[n]],
                      !.evictable_size_ = @ + Len(s) - Len(x)]
    <2>1. v = UpdateLeafStatus(w, {x, s})
      BY Zenon, <1>3, <1>8
    <2> HIDE DEF v, u, x, m, new
    <2>2. /\ DOMAIN w = Fields /\ w.evictable_leaves = u.evictable_leaves
          /\ w.lock_ref = [n \in Nodes(u) \cup {s} |-> IF n = s THEN 0 ELSE u.lock_ref[n]]
          /\ w.evictable_size_ = u.evictable_size_ + Len(s) - Len(x)
          /\ w.protected_size_ = u.protected_size_
      BY Zenon, <1>2 DEF Shape, Fields
    <2> HIDE DEF w
    <2>3. s \in new /\ s \notin Cached(t) /\ s # root /\ s \notin Nodes(u)
      <3>1. m # Len(s)
        BY Zenon, <1>1, <1>8, PrefixOrder
      <3>2. Len(s) \in (m + 1)..Len(s) /\ Len(s) # 0
        BY <1>1, <3>1
      <3>3. Key(s, Len(s)) = s
        BY Zenon, PrefixKey
      <3>4. s \in new
        BY Zenon, <3>2, <3>3 DEF new
      <3> QED
        BY <1>2, <1>4, <3>2, <3>4 DEF Shape, root
    <2>4. /\ Nodes(w) = Nodes(u) \cup {s} /\ w.lock_ref[s] = 0
          /\ \A n \in Nodes(u) : w.lock_ref[n] = u.lock_ref[n]
      BY Zenon, <2>2, <2>3 DEF Nodes
    <2>5. ASSUME NEW k \in Cached(t), s \preceq k PROVE FALSE
      <3>1. k \in Seq(S)
        BY Zenon DEF Shape
      <3>2. Len(s) \in 1..Len(k) /\ s = Key(k, Len(s))
        BY <2>3, <2>5, <3>1, PrefixKey DEF root
      <3>3. s \in Cached(t)
        BY Zenon, <3>2 DEF Shape
      <3> QED
        BY Zenon, <2>3, <3>3
    <2>6. ASSUME NEW n \in Nodes(u), n \prec s, n # x PROVE n \prec x
      <3>1. n \in Seq(S) /\ n # root /\ n \in Cached(t) /\ n \preceq s
        BY Zenon, <1>2, <2>6 DEF Shape, \prec
      <3>2. Len(n) \in 1..Len(s) /\ n = Key(s, Len(n))
        BY <3>1, PrefixKey DEF root
      <3>3. Len(n) <= m
        <4>1. \A j \in (m + 1)..Len(s) : Key(s, j) \notin Cached(t)
          BY Zenon, MatchProps DEF Shape, m
        <4> QED
          BY <1>1, <3>1, <3>2, <4>1
      <3>4. n \preceq x
        BY Zenon, <1>1, <3>1, <3>3, PrefixOrder
      <3> QED
        BY Zenon, <2>6, <3>4 DEF \prec
    <2>7. \A n : n \notin {x, s} => (n \in w.evictable_leaves <=> n \in Leaves(w))
      <3>1. ASSUME NEW n \in Nodes(u), n # x PROVE Childless(w, n) <=> Childless(u, n)
        <4>1. Childless(w, n) => Childless(u, n)
          BY Zenon, <2>4 DEF Childless
        <4>2. ASSUME n \prec s PROVE ~Childless(u, n)
          <5>1. n \prec x
            BY Zenon, <2>6, <3>1, <4>2
          <5>2. x # root
            <6>1. n \in Seq(S) /\ n # root
              BY Zenon, <1>2 DEF Shape
            <6> QED
              BY <5>1, <6>1 DEF root, \prec, \preceq
          <5>3. x \in Nodes(u)
            BY Zenon, <1>2, <5>2
          <5> QED
            BY Zenon, <5>1, <5>3 DEF Childless
        <4> QED
          BY Zenon, <2>4, <4>1, <4>2 DEF Childless
      <3>2. w.evictable_leaves = Leaves(u)
        BY Zenon, <1>2, <2>2 DEF Account
      <3> QED
        BY Zenon, <2>4, <3>1, <3>2 DEF Leaves
    <2>8. /\ v.evictable_leaves = Leaves(v) /\ v.evictable_size_ = u.evictable_size_ + Len(s) - Len(x)
          /\ v.protected_size_ = u.protected_size_
      BY SMTT(30), <2>1, <2>2, <2>7, LeavesUpdated
    <2>9. ASSUME NEW y \in Cached(t) PROVE y \in Unlocked(v) <=> y \in Unlocked(u)
      <3>1. Owns(u, Owner(u, y), y) /\ y \in Seq(S) /\ y # root /\ Owner(u, y) \in Seq(S)
        BY ZenonT(30), <1>2, OwnerProps DEF Shape, Owns
      <3>2. ASSUME y \preceq s PROVE Owner(u, y) \preceq s
        <4>1. Len(y) \in 1..Len(s) /\ y = Key(s, Len(y))
          BY <3>1, <3>2, PrefixKey DEF root
        <4>2. Len(y) <= m
          <5>1. \A j \in (m + 1)..Len(s) : Key(s, j) \notin Cached(t)
            BY Zenon, MatchProps DEF Shape, m
          <5> QED
            BY <1>1, <4>1, <5>1
        <4>3. y \preceq x
          BY Zenon, <4>2, <3>1, <3>2, <1>1, PrefixOrder
        <4>4. x # root
          BY <4>1, <4>2, <1>1 DEF root
        <4>5. x \in Nodes(u)
          BY Zenon, <4>4, <1>2
        <4>6. Owner(u, y) \preceq x
          BY Zenon, <4>3, <4>5, <3>1 DEF Owns
        <4> QED
          BY Zenon, <4>6, <3>1, <1>1, PrefixOrder
      <3>3. Owns(v, Owner(u, y), y)
        BY Zenon, <1>4, <2>3, <3>1, <3>2 DEF Owns
      <3>4. Owner(v, y) = Owner(u, y)
        BY Zenon, <1>4, <3>3, OwnerUnique
      <3>5. v.lock_ref[Owner(u, y)] = u.lock_ref[Owner(u, y)]
        BY Zenon, <1>4, <3>1 DEF Owns
      <3> QED
        BY Zenon, <1>2, <1>4, <3>4, <3>5 DEF Unlocked
    <2>10. ASSUME NEW y \in new PROVE y \in Unlocked(v)
      <3>1. y \in Cached(v) /\ y \notin Cached(t) /\ y \in Seq(S)
        BY Zenon, <1>4 DEF Shape
      <3>2. y \preceq s /\ s \preceq s /\ Len(y) \in Nat \ {0} /\ Len(y) % PageSize = 0
        <4>1. PICK k \in (m + 1)..Len(s) : k % PageSize = 0 /\ y = Key(s, k)
          BY Zenon DEF new
        <4>2. k \in 0..Len(s) /\ k # 0
          BY SMTT(30), <1>1
        <4> QED
          BY <4>1, <4>2, KeyProps, PrefixKey, PrefixOrder
      <3>3. ASSUME NEW k \in Nodes(u), y \preceq k PROVE FALSE
        <4>1. k \in Cached(t) /\ k \in Seq(S)
          BY Zenon, <1>2 DEF Shape
        <4>2. Len(y) \in 1..Len(k) /\ y = Key(k, Len(y)) /\ Len(y) % PageSize = 0
          BY SMTT(30), <4>1, <3>1, <3>2, <3>3, PrefixKey
        <4> QED
          BY Zenon, <3>1, <4>1, <4>2 DEF Shape
      <3>4. Owns(v, s, y)
        BY Zenon, <1>4, <2>3, <3>2, <3>3 DEF Owns
      <3>5. Owner(v, y) = s
        BY Zenon, <1>4, <3>1, <3>4, OwnerUnique
      <3> QED
        BY Zenon, <1>4, <2>3, <3>1, <3>5 DEF Unlocked
    <2>11. /\ Unlocked(v) = Unlocked(u) \cup new /\ Locked(v) = Locked(u)
           /\ Unlocked(u) \cap new = {} /\ Unlocked(u) \subseteq Cached(t)
      <3>1. Unlocked(v) \subseteq Cached(v) /\ Unlocked(u) \subseteq Cached(t)
        BY Zenon, <1>2 DEF Unlocked
      <3> QED
        BY Zenon, <1>2, <1>4, <2>9, <2>10, <3>1 DEF Locked
    <2>12. IsFiniteSet(Cached(t)) /\ IsFiniteSet(Unlocked(u)) /\ IsFiniteSet(Cached(v))
      BY Zenon, <1>2, <1>4, <1>6, <2>11, PartFinite, UnionSize DEF Account
    <2>13. PageSize * Cardinality(Unlocked(v)) = u.evictable_size_ + Len(s) - Len(x)
      <3>2. PageSize * Cardinality(Unlocked(u) \cup new)
              = PageSize * Cardinality(Unlocked(u)) + PageSize * Cardinality(new)
        <4>1. IsFiniteSet(new) /\ IsFiniteSet(Unlocked(u)) /\ Unlocked(u) \cap new = {}
          BY Zenon, <1>6, <2>11, <2>12
        <4> QED
          BY Zenon, <1>2, <4>1, JoinSize DEF Account
      <3>3. u.evictable_size_ = PageSize * Cardinality(Unlocked(u)) /\ Cardinality(Unlocked(u)) \in Nat
        BY Zenon, <1>2, <2>12, SizeNat DEF Account
      <3>4. PageSize * Cardinality(Unlocked(u)) \in Int
        BY <3>3, PageSizeAssumption
      <3> QED
        BY Zenon, <1>1, <1>6, <2>11, <3>2, <3>3, <3>4
    <2>14. Account(v)
      BY Zenon, <1>2, <2>8, <2>11, <2>12, <2>13 DEF Account
    <2> QED
      BY Zenon, <2>14 DEF v
  <1> QED
    BY Zenon, <1>7, <1>8

(* The empty tree has nothing to account for.                               *)
LEMMA EmptyAccount ==
  ASSUME SetSizes PROVE Account(EmptyTree)
  <1> DEFINE e == EmptyTree
  <1>1. Cached(e) = {} /\ Nodes(e) = {}
    BY DEF EmptyTree, Cached, Nodes
  <1>2. Unlocked(e) = {} /\ Locked(e) = {} /\ Leaves(e) = {}
    BY Zenon, <1>1 DEF Unlocked, Locked, Leaves
  <1>3. e.evictable_size_ = 0 /\ e.protected_size_ = 0 /\ e.evictable_leaves = {}
    BY Zenon DEF EmptyTree
  <1> HIDE DEF e
  <1>4. Account(e)
    <2>1. IsFiniteSet({}) /\ Cardinality({}) = 0
      BY Zenon DEF SetSizes
    <2> QED
      BY <1>1, <1>2, <1>3, <2>1, PageSizeAssumption DEF Account
  <1> QED
    BY Zenon, <1>4 DEF e

-----------------------------------------------------------------------------
(* The pages that new tokens need. *)

(* The order of page numbers is the order of the tokens where they start.      *)
LEMMA PageOrder ==
  ASSUME NEW i \in Nat, NEW j \in Nat
  PROVE  /\ PageSize * i \in Nat
         /\ i < j => PageSize * i + PageSize <= PageSize * j
         /\ i <= j <=> PageSize * i <= PageSize * j
  BY PageSizeAssumption

(* NumPages(n) pages are enough for n tokens, and one less is too few.         *)
LEMMA LastPage ==
  ASSUME NEW n \in Nat
  PROVE  /\ NumPages(n) \in Nat /\ n <= PageSize * NumPages(n)
         /\ PageSize * NumPages(n) < n + PageSize
  <1>1. PageSize \in Nat /\ PageSize >= 1 /\ n + PageSize - 1 \in Nat
    BY PageSizeAssumption
  <1>2. PICK q, m : q = NumPages(n) /\ m = (n + PageSize - 1) % PageSize
    BY Zenon
  <1>3. q \in Nat /\ m \in 0..(PageSize - 1) /\ n + PageSize - 1 = PageSize * q + m
    BY Zenon, <1>1, <1>2, DivPage DEF NumPages
  <1>4. PageSize * q \in Nat
    BY Zenon, <1>3, PageOrder
  <1> QED
    BY <1>1, <1>2, <1>3, <1>4

(* As many values as arguments, when no two arguments have the same value.     *)
LEMMA ImageSize ==
  ASSUME SetSizes, NEW X, IsFiniteSet(X), NEW v, NEW out, out = {v[x] : x \in X},
         \A x, y \in X : v[x] = v[y] => x = y
  PROVE  IsFiniteSet(out) /\ Cardinality(out) = Cardinality(X)
  <1>1. PICK f : f = [x \in X |-> v[x]]
    BY Zenon
  <1>2. /\ f \in [X -> out] /\ \A x, y \in X : f[x] = f[y] => x = y
        /\ \A y \in out : \E x \in X : f[x] = y
    BY Zenon, <1>1
  <1> QED
    BY ZenonT(60), <1>2 DEF SetSizes

(* No more elements than in a finite set that they are mapped to one to one.   *)
LEMMA Fewer ==
  ASSUME SetSizes, NEW S, NEW T, IsFiniteSet(T), NEW f \in [S -> T],
         \A a, b \in S : f[a] = f[b] => a = b
  PROVE  IsFiniteSet(S) /\ Cardinality(S) <= Cardinality(T)
  BY Zenon DEF SetSizes

(* The size of a product, and of the numbers up to n.                          *)
LEMMA ProductSize ==
  ASSUME SetSizes, NEW A, IsFiniteSet(A), NEW n \in Nat
  PROVE  IsFiniteSet(A \X (1..n)) /\ Cardinality(A \X (1..n)) = Cardinality(A) * n
  <1>1. IsFiniteSet((0 + 1)..n) /\ Cardinality((0 + 1)..n) = n - 0
    BY DEF SetSizes
  <1>2. IsFiniteSet(1..n) /\ Cardinality(1..n) = n
    BY <1>1
  <1> QED
    BY SMTT(30), <1>2 DEF SetSizes

(* The pages <<r, i>> of M belong to the new tokens of requests of B, which have
   pre[r] tokens and grow to lens[r].                                          *)
GrowPages(M, B, pre, lens) ==
  /\ \A r \in B : pre[r] \in Nat /\ lens[r] \in Nat
  /\ \A a \in M : \E r \in B, i \in Nat \ {0} :
       /\ a = <<r, i>> /\ PageSize * (i - 1) \in Nat
       /\ NumPages(pre[r]) < i /\ i <= NumPages(lens[r])
       /\ pre[r] <= PageSize * (i - 1) /\ PageSize * (i - 1) < lens[r]

(* A request that grows by one token needs at most one page.                   *)
LEMMA DecodePages ==
  ASSUME SetSizes, NEW B, IsFiniteSet(B), NEW M, NEW pre, NEW lens, GrowPages(M, B, pre, lens),
         \A r \in B : lens[r] = pre[r] + 1
  PROVE  IsFiniteSet(M) /\ Cardinality(M) <= Cardinality(B)
  <1>1. ASSUME NEW a \in M PROVE a[1] \in B /\ a = <<a[1], NumPages(pre[a[1]]) + 1>>
    <2>1. PICK r \in B, i \in Nat \ {0} :
            /\ a = <<r, i>> /\ PageSize * (i - 1) \in Nat /\ NumPages(pre[r]) < i
            /\ PageSize * (i - 1) < lens[r]
      BY Zenon, <1>1 DEF GrowPages
    <2>2. PICK k, p : k = NumPages(pre[r]) /\ p = pre[r]
      BY Zenon
    <2>3. p \in Nat /\ k < i /\ PageSize * (i - 1) < p + 1
      BY Zenon, <2>1, <2>2 DEF GrowPages
    <2>4. k \in Nat /\ p <= PageSize * k /\ PageSize * k \in Nat
      BY Zenon, <2>2, <2>3, LastPage, PageOrder
    <2>5. i - 1 \in Nat /\ PageSize * (i - 1) <= PageSize * k
      BY <2>1, <2>3, <2>4
    <2>6. i - 1 <= k
      BY Zenon, <2>4, <2>5, PageOrder
    <2>7. i = k + 1
      BY <2>3, <2>4, <2>6
    <2> QED
      BY Zenon, <2>1, <2>2, <2>7
  <1>2. PICK f : f = [a \in M |-> a[1]]
    BY Zenon
  <1>3. f \in [M -> B] /\ \A a, b \in M : f[a] = f[b] => a = b
    BY Zenon, <1>1, <1>2
  <1> QED
    BY Zenon, <1>3, Fewer

(* The new tokens of the requests are finitely many.                           *)
LEMMA TokensFinite ==
  ASSUME SetSizes, NEW B, IsFiniteSet(B), NEW pre, NEW lens, NEW n \in Nat, NEW toks,
         toks = UNION {{r} \X ((pre[r] + 1)..lens[r]) : r \in B},
         \A r \in B : pre[r] \in Nat /\ lens[r] \in 0..n
  PROVE  IsFiniteSet(toks)
  <1>1. IsFiniteSet(B \X (1..n))
    BY Zenon, ProductSize
  <1>2. toks \subseteq B \X (1..n)
    OBVIOUS
  <1> QED
    BY Zenon, <1>1, <1>2, PartFinite

(* The pages are no more than the new tokens: each starts with one of them.    *)
LEMMA PagesFinite ==
  ASSUME SetSizes, NEW B, NEW M, NEW pre, NEW lens, GrowPages(M, B, pre, lens), NEW toks,
         IsFiniteSet(toks), \A r \in B : \A k \in Nat : <<r, k>> \in toks <=> pre[r] < k /\ k <= lens[r]
  PROVE  IsFiniteSet(M)
  <1>1. PICK f : f = [a \in M |-> <<a[1], PageSize * (a[2] - 1) + 1>>]
    BY Zenon
  <1>2. ASSUME NEW a \in M
        PROVE  \E r \in B, i \in Nat \ {0} :
                 /\ a = <<r, i>> /\ PageSize * (i - 1) \in Nat /\ pre[r] <= PageSize * (i - 1)
                 /\ PageSize * (i - 1) < lens[r] /\ f[a] = <<r, PageSize * (i - 1) + 1>>
    <2>1. PICK r \in B, i \in Nat \ {0} :
            /\ a = <<r, i>> /\ PageSize * (i - 1) \in Nat
            /\ pre[r] <= PageSize * (i - 1) /\ PageSize * (i - 1) < lens[r]
      BY Zenon, <1>2 DEF GrowPages
    <2>2. f[a] = <<r, PageSize * (i - 1) + 1>>
      BY Zenon, <1>1, <2>1
    <2> QED
      BY Zenon, <2>1, <2>2
  <1>3. ASSUME NEW a \in M PROVE f[a] \in toks
    <2>1. PICK r \in B, i \in Nat \ {0}, s \in Nat :
            /\ s = PageSize * (i - 1) /\ pre[r] <= s /\ s < lens[r] /\ f[a] = <<r, s + 1>>
      BY <1>2
    <2>2. pre[r] \in Nat /\ lens[r] \in Nat
      BY Zenon DEF GrowPages
    <2> QED
      BY <2>1, <2>2
  <1>4. ASSUME NEW a \in M, NEW b \in M, f[a] = f[b] PROVE a = b
    <2>1. PICK r \in B, i \in Nat \ {0}, s \in Nat :
            a = <<r, i>> /\ s = PageSize * (i - 1) /\ f[a] = <<r, s + 1>>
      BY <1>2
    <2>2. PICK q \in B, j \in Nat \ {0}, t \in Nat :
            b = <<q, j>> /\ t = PageSize * (j - 1) /\ f[b] = <<q, t + 1>>
      BY <1>2
    <2>3. r = q /\ s = t
      BY <1>4, <2>1, <2>2
    <2>4. i - 1 \in Nat /\ j - 1 \in Nat
      OBVIOUS
    <2>5. i - 1 <= j - 1 /\ j - 1 <= i - 1
      BY <2>1, <2>2, <2>3, <2>4, PageOrder
    <2> QED
      BY <2>1, <2>2, <2>3, <2>5
  <1>5. f \in [M -> toks]
    BY Zenon, <1>1, <1>3
  <1> QED
    BY Zenon, <1>4, <1>5, Fewer

(* Pages that the new tokens fill: there are PageSize times as many tokens.    *)
LEMMA FilledPages ==
  ASSUME SetSizes, NEW B, NEW M, NEW pre, NEW lens, GrowPages(M, B, pre, lens), NEW toks,
         IsFiniteSet(toks), \A r \in B : \A k \in Nat : <<r, k>> \in toks <=> pre[r] < k /\ k <= lens[r],
         IsFiniteSet(M), \A a \in M : PageSize * a[2] <= lens[a[1]]
  PROVE  Cardinality(M) * PageSize <= Cardinality(toks)
  <1>1. PICK D, f : /\ D = M \X (1..PageSize)
                    /\ f = [d \in D |-> <<d[1][1], PageSize * (d[1][2] - 1) + d[2]>>]
    BY Zenon
  <1>2. ASSUME NEW d \in D
        PROVE  \E r \in B, i \in Nat \ {0}, j \in 1..PageSize, s \in Nat :
                 /\ d = <<<<r, i>>, j>> /\ s = PageSize * (i - 1) /\ f[d] = <<r, s + j>>
                 /\ pre[r] <= s /\ PageSize * i <= lens[r]
    <2>1. d[1] \in M /\ d[2] \in 1..PageSize /\ d = <<d[1], d[2]>>
      BY <1>1, <1>2
    <2>2. PICK r \in B, i \in Nat \ {0} :
            d[1] = <<r, i>> /\ PageSize * (i - 1) \in Nat /\ pre[r] <= PageSize * (i - 1)
      BY Zenon, <2>1 DEF GrowPages
    <2>3. PageSize * i <= lens[r]
      BY <2>1, <2>2
    <2>4. f[d] = <<r, PageSize * (i - 1) + d[2]>>
      BY <1>1, <1>2, <2>2
    <2>5. d = <<<<r, i>>, d[2]>>
      BY Zenon, <2>1, <2>2
    <2> QED
      BY Zenon, <2>1, <2>2, <2>3, <2>4, <2>5
  <1>3. PageSize \in Nat /\ PageSize >= 1
    BY PageSizeAssumption
  <1>4. ASSUME NEW d \in D PROVE f[d] \in toks
    <2>1. PICK r \in B, i \in Nat \ {0}, j \in 1..PageSize, s \in Nat :
            s = PageSize * (i - 1) /\ f[d] = <<r, s + j>> /\ pre[r] <= s /\ PageSize * i <= lens[r]
      BY <1>2
    <2>2. PICK e : e = PageSize * i
      BY Zenon
    <2>3. e = s + PageSize
      BY <1>3, <2>1, <2>2
    <2>4. pre[r] \in Nat /\ lens[r] \in Nat
      BY Zenon DEF GrowPages
    <2>5. s + j \in Nat /\ pre[r] < s + j /\ s + j <= lens[r]
      BY SMTT(30), <1>3, <2>1, <2>2, <2>3, <2>4
    <2> QED
      BY Zenon, <2>1, <2>5
  <1>5. ASSUME NEW d \in D, NEW e \in D, f[d] = f[e] PROVE d = e
    <2>1. PICK r \in B, i \in Nat \ {0}, j \in 1..PageSize, x \in Nat :
            d = <<<<r, i>>, j>> /\ x = PageSize * (i - 1) /\ f[d] = <<r, x + j>>
      BY SMTT(30), <1>2
    <2>2. PICK q \in B, k \in Nat \ {0}, l \in 1..PageSize, y \in Nat :
            e = <<<<q, k>>, l>> /\ y = PageSize * (k - 1) /\ f[e] = <<q, y + l>>
      BY <1>2
    <2>3. i - 1 \in Nat /\ k - 1 \in Nat
      OBVIOUS
    <2>4. (i - 1 < k - 1 => x + PageSize <= y) /\ (k - 1 < i - 1 => y + PageSize <= x)
      BY Zenon, <2>1, <2>2, <2>3, PageOrder
    <2>5. r = q /\ x + j = y + l
      BY <1>5, <2>1, <2>2
    <2>6. i = k
      BY <1>3, <2>3, <2>4, <2>5
    <2> QED
      BY SMTT(30), <2>1, <2>2, <2>5, <2>6
  <1>6. f \in [D -> toks]
    BY Zenon, <1>1, <1>4
  <1>7. Cardinality(D) <= Cardinality(toks)
    BY Zenon, <1>5, <1>6, Fewer
  <1> QED
    BY Zenon, <1>1, <1>3, <1>7, ProductSize

(* Pages that the new tokens do not fill: at most the last one of each request,
   and none when a page is a token.                                            *)
LEMMA LastPages ==
  ASSUME SetSizes, NEW B, IsFiniteSet(B), NEW M, NEW pre, NEW lens, GrowPages(M, B, pre, lens),
         \A a \in M : ~(PageSize * a[2] <= lens[a[1]])
  PROVE  Cardinality(M) <= Cardinality(B) /\ (PageSize = 1 => M = {})
  <1>1. ASSUME NEW a \in M
        PROVE  a[1] \in B /\ a = <<a[1], NumPages(lens[a[1]])>> /\ PageSize # 1
    <2>1. PICK r \in B, i \in Nat \ {0} : a = <<r, i>> /\ i <= NumPages(lens[r])
      BY Zenon, <1>1 DEF GrowPages
    <2>2. PICK n, q : n = lens[r] /\ q = NumPages(lens[r])
      BY Zenon
    <2>3. n \in Nat
      BY Zenon, <2>2 DEF GrowPages
    <2>4. q \in Nat /\ PageSize * q < n + PageSize /\ i <= q
      BY Zenon, <2>1, <2>2, <2>3, LastPage
    <2>5. ~(PageSize * i <= n)
      BY Zenon, <2>1, <2>2
    <2>6. PageSize * i \in Nat /\ PageSize * q \in Nat /\ (i < q => PageSize * i + PageSize <= PageSize * q)
      BY Zenon, <2>4, PageOrder
    <2>7. i = q
      BY <2>3, <2>4, <2>5, <2>6, PageSizeAssumption
    <2>8. PageSize # 1
      BY <2>3, <2>4, <2>5, <2>7
    <2> QED
      BY Zenon, <2>1, <2>2, <2>7, <2>8
  <1>2. PICK f : f = [a \in M |-> a[1]]
    BY Zenon
  <1>3. f \in [M -> B] /\ \A a, b \in M : f[a] = f[b] => a = b
    BY Zenon, <1>1, <1>2
  <1>4. Cardinality(M) <= Cardinality(B)
    BY Zenon, <1>3, Fewer
  <1> QED
    BY Zenon, <1>1, <1>4

(* The new tokens and, when pages are larger than a token, one more page of every
   request, are at least the pages that the requests need.                     *)
LEMMA ExtendPages ==
  ASSUME SetSizes, NEW B, IsFiniteSet(B), NEW M, NEW pre, NEW lens, GrowPages(M, B, pre, lens),
         NEW n \in Nat, \A r \in B : lens[r] \in 0..n, NEW toks,
         toks = UNION {{r} \X ((pre[r] + 1)..lens[r]) : r \in B}, NEW extra,
         extra = IF PageSize = 1 THEN 0 ELSE PageSize * Cardinality(B)
  PROVE  /\ Cardinality(toks) + extra \in Nat /\ Cardinality(M) \in Nat
         /\ PageSize * Cardinality(M) <= Cardinality(toks) + extra
  <1>1. \A r \in B : pre[r] \in Nat /\ lens[r] \in Nat
    BY Zenon DEF GrowPages
  <1>2. IsFiniteSet(toks)
    BY Zenon, <1>1, TokensFinite
  <1>3. \A r \in B : \A k \in Nat : <<r, k>> \in toks <=> pre[r] < k /\ k <= lens[r]
    BY <1>1
  <1>4. IsFiniteSet(M)
    BY <1>2, <1>3, PagesFinite
  <1>5. PICK full, part : /\ full = {a \in M : PageSize * a[2] <= lens[a[1]]}
                          /\ part = {a \in M : ~(PageSize * a[2] <= lens[a[1]])}
    BY Zenon
  <1>6. full \subseteq M /\ part \subseteq M /\ full \cup part = M /\ full \cap part = {}
    BY Zenon, <1>5
  <1>7. GrowPages(full, B, pre, lens) /\ GrowPages(part, B, pre, lens)
    BY Zenon, <1>6 DEF GrowPages
  <1>8. IsFiniteSet(full) /\ IsFiniteSet(part)
    BY Zenon, <1>4, <1>6, PartFinite
  <1>9. PICK x, y, t, b, m : /\ x = Cardinality(full) /\ y = Cardinality(part) /\ t = Cardinality(toks)
                             /\ b = Cardinality(B) /\ m = Cardinality(M)
    BY Zenon
  <1>10. x * PageSize <= t
    <2>1. \A a \in full : PageSize * a[2] <= lens[a[1]]
      BY Zenon, <1>5
    <2> QED
      BY Zenon, <2>1, <1>2, <1>3, <1>7, <1>8, <1>9, FilledPages
  <1>11. y <= b /\ (PageSize = 1 => y = 0)
    <2>1. \A a \in part : ~(PageSize * a[2] <= lens[a[1]])
      BY Zenon, <1>5
    <2>2. Cardinality(part) <= Cardinality(B) /\ (PageSize = 1 => part = {})
      BY Zenon, <2>1, <1>7, LastPages
    <2>3. Cardinality({}) = 0
      BY Zenon DEF SetSizes
    <2> QED
      BY Zenon, <2>2, <2>3, <1>9
  <1>12. x \in Nat /\ y \in Nat /\ t \in Nat /\ b \in Nat /\ m \in Nat
    BY Zenon, <1>2, <1>4, <1>8, <1>9, SizeNat
  <1>13. m = x + y
    BY Zenon, <1>6, <1>8, <1>9, UnionSize
  <1>14. /\ PageSize * m = PageSize * x + PageSize * y /\ PageSize * x = x * PageSize
         /\ PageSize * x \in Nat /\ PageSize * y \in Nat /\ PageSize * b \in Nat
    BY <1>12, <1>13, PageSizeAssumption
  <1>15. PageSize * y <= extra /\ extra \in Nat
    <2>1. CASE PageSize = 1
      BY <1>11, <2>1
    <2>2. CASE PageSize # 1
      <3>1. extra = PageSize * b
        BY Zenon, <1>9, <2>2
      <3>2. PageSize * y <= PageSize * b
        BY Zenon, <1>11, <1>12, PageOrder
      <3> QED
        BY Zenon, <3>1, <3>2, <1>14
    <2> QED
      BY Zenon, <2>1, <2>2
  <1>16. PageSize * m <= t + extra /\ t + extra \in Nat
    BY <1>10, <1>12, <1>14, <1>15
  <1> QED
    BY Zenon, <1>9, <1>12, <1>16

-----------------------------------------------------------------------------
(* Pages, rows and evictable nodes. *)

(* The tokens of a request with n tokens of KV that its first i pages hold. *)
Fill(i, n) == IF i * PageSize < n THEN i * PageSize ELSE n

OwnPages(row, prot) == {row[i] : i \in (prot \div PageSize + 1)..Len(row)}

(* Pages and tokens: a page-aligned prefix of n of com tokens.               *)
LEMMA PageCount ==
  ASSUME NEW com \in Nat, NEW n \in Nat, n % PageSize = 0, n <= com
  PROVE  /\ n \div PageSize \in 0..NumPages(com) /\ NumPages(com) \in Nat
         /\ (n \div PageSize) * PageSize = n
         /\ \A i \in 1..(n \div PageSize) :
              i * PageSize \in 1..n /\ (i * PageSize) % PageSize = 0 /\ Fill(i, com) = i * PageSize
  BY PageSizeAssumption DEF NumPages, Fill

(* The pages between two page-aligned lengths.                               *)
LEMMA PageRange ==
  ASSUME NEW a \in Nat, NEW b \in Nat, a % PageSize = 0, b % PageSize = 0, a <= b
  PROVE  /\ a \div PageSize \in Nat /\ b \div PageSize \in Nat /\ a \div PageSize <= b \div PageSize
         /\ (a \div PageSize) * PageSize = a
         /\ \A i \in (a \div PageSize + 1)..(b \div PageSize) :
              i * PageSize \in (a + 1)..b /\ (i * PageSize) % PageSize = 0 /\ (i * PageSize) \div PageSize = i
         /\ \A k \in (a + 1)..b : k % PageSize = 0 =>
              k \div PageSize \in (a \div PageSize + 1)..(b \div PageSize) /\ (k \div PageSize) * PageSize = k
  BY PageSizeAssumption

(* A path that is a node is matched as a whole.                              *)
LEMMA MatchedNode ==
  ASSUME NEW S, NEW V, NEW t, Shape(t, S, V), NEW s \in Seq(S), s \in Nodes(t) \cup {root}
  PROVE  Matched(t, s) = s /\ MatchPrefix(t, s) = t
  <1>1. MatchLen(t, s) \in 0..Len(s) /\ \A j \in (MatchLen(t, s) + 1)..Len(s) : Key(s, j) \notin Cached(t)
    BY Zenon, MatchProps DEF Shape
  <1>2. Key(s, Len(s)) = s
    BY Zenon, PrefixKey, PrefixOrder
  <1>3. Len(s) = 0 \/ s \in Cached(t)
    BY DEF Shape, root
  <1>4. MatchLen(t, s) = Len(s)
    BY <1>1, <1>2, <1>3
  <1>5. Matched(t, s) = s
    BY Zenon, <1>2, <1>4 DEF Matched
  <1> QED
    BY Zenon, <1>5 DEF MatchPrefix, SplitNode

(* An empty row has no pages.                                                *)
LEMMA NoOwn == OwnPages(<<>>, 0) = {}
  BY PageSizeAssumption DEF OwnPages

(* RadixKey.page_aligned.                                                    *)
LEMMA AlignedProps ==
  ASSUME NEW n \in Nat
  PROVE  /\ PageAligned(n) \in 0..n /\ PageAligned(n) % PageSize = 0
         /\ PageAligned(n) \div PageSize = n \div PageSize
  <1>1. n \div PageSize \in Nat /\ n % PageSize \in Nat /\ n = PageSize * (n \div PageSize) + (n % PageSize)
    BY DivPage
  <1>2. PICK k \in Nat : k = n \div PageSize
    BY Zenon, <1>1
  <1>3. k * PageSize \in Nat /\ (k * PageSize) \div PageSize = k /\ (k * PageSize) % PageSize = 0
    BY Zenon, MulPage
  <1>4. k * PageSize <= n
    BY <1>1, <1>2, <1>3, PageSizeAssumption
  <1> QED
    BY <1>2, <1>3, <1>4 DEF PageAligned

(* A page-aligned length below n is below page_aligned(n).                   *)
LEMMA AlignedBound ==
  ASSUME NEW a \in Nat, NEW n \in Nat, a % PageSize = 0, a <= n
  PROVE  a <= PageAligned(n)
  <1>1. PICK k \in Nat : k = a \div PageSize /\ a = k * PageSize
    <2>1. a \div PageSize \in Nat /\ a = PageSize * (a \div PageSize) + (a % PageSize)
      BY Zenon, DivPage
    <2> QED
      BY <2>1, PageSizeAssumption
  <1>2. PICK j \in Nat : j = n \div PageSize /\ n < (j + 1) * PageSize
    <2>1. /\ n \div PageSize \in Nat /\ n % PageSize \in 0..(PageSize - 1)
          /\ n = PageSize * (n \div PageSize) + (n % PageSize)
      BY Zenon, DivPage
    <2> QED
      BY <2>1, PageSizeAssumption
  <1>3. k <= j
    BY <1>1, <1>2, PageSizeAssumption
  <1>4. k * PageSize <= j * PageSize
    BY Zenon, <1>3, MonoPage
  <1> QED
    BY Zenon, <1>1, <1>2, <1>4 DEF PageAligned

(* The pages of a request whose KV grows from p to n tokens.                 *)
LEMMA PageGrow ==
  ASSUME NEW p \in Nat, NEW n \in Nat, p < n
  PROVE  /\ NumPages(p + 1) = p \div PageSize + 1 /\ p \div PageSize \in Nat
         /\ NumPages(p) \in Nat /\ NumPages(n) \in Nat /\ p \div PageSize <= NumPages(p)
         /\ NumPages(p) <= NumPages(n) /\ p \div PageSize + 1 <= NumPages(n)
         /\ \A i \in 1..(p \div PageSize) : Fill(i, p) = i * PageSize /\ Fill(i, n) = i * PageSize
         /\ \A i \in Nat : Fill(i, n) \in 0..n
  <1>1. PICK k \in Nat, j \in 0..(PageSize - 1) : k = p \div PageSize /\ p = PageSize * k + j
    BY Zenon, DivPage
  <1>2. p + 1 + PageSize - 1 = PageSize * (k + 1) + j
    BY <1>1, PageSizeAssumption
  <1>3. NumPages(p + 1) = k + 1
    BY <1>1, <1>2, PageSizeAssumption DEF NumPages
  <1>4. k <= NumPages(p) /\ NumPages(p) <= NumPages(n) /\ k + 1 <= NumPages(n)
        /\ NumPages(p) \in Nat /\ NumPages(n) \in Nat
    BY <1>1, PageSizeAssumption DEF NumPages
  <1>5. ASSUME NEW i \in 1..k PROVE Fill(i, p) = i * PageSize /\ Fill(i, n) = i * PageSize
    <2>1. i * PageSize <= k * PageSize /\ i * PageSize \in Nat
      BY MonoPage, PageSizeAssumption
    <2>2. i * PageSize <= p
      BY <2>1, <1>1, PageSizeAssumption
    <2> QED
      BY <2>1, <2>2 DEF Fill
  <1>6. ASSUME NEW i \in Nat PROVE Fill(i, n) \in 0..n
    <2>1. i * PageSize \in Nat
      BY PageSizeAssumption
    <2> QED
      BY <2>1 DEF Fill
  <1> QED
    BY Zenon, <1>1, <1>3, <1>4, <1>5, <1>6

(* A longer sequence has the same prefixes.                                  *)
LEMMA AppendKey ==
  ASSUME NEW S, NEW s \in Seq(S), NEW x \in S
  PROVE  /\ Append(s, x) \in Seq(S) /\ Len(Append(s, x)) = Len(s) + 1
         /\ \A n \in 0..Len(s) : Key(Append(s, x), n) = Key(s, n)
  <1>1. Append(s, x) \in Seq(S) /\ Len(Append(s, x)) = Len(s) + 1
    OBVIOUS
  <1>2. ASSUME NEW n \in 0..Len(s) PROVE Key(Append(s, x), n) = Key(s, n)
    <2>1. /\ Key(s, n) \in Seq(S) /\ Len(Key(s, n)) = n /\ \A i \in 1..n : Key(s, n)[i] = s[i]
      BY Zenon, KeyProps
    <2>4. \A i \in 1..n : Append(s, x)[i] = s[i]
      OBVIOUS
    <2>5. PICK a : a = Append(s, x)
      BY Zenon
    <2>2. a = Append(s, x) /\ a \in Seq(S) /\ n \in 0..Len(a) /\ \A i \in 1..n : a[i] = s[i]
      BY <1>1, <2>4, <2>5
    <2>3. /\ Key(a, n) \in Seq(S) /\ Len(Key(a, n)) = n /\ \A i \in 1..n : Key(a, n)[i] = a[i]
      BY Zenon, <2>2, KeyProps
    <2> QED
      BY Zenon, <2>1, <2>2, <2>3, SeqEqual
  <1> QED
    BY Zenon, <1>1, <1>2

(* The nodes that evict reaches from evictable_leaves, bottom-up.              *)
Evictable(t) ==
  {n \in Nodes(t) : \A k \in Nodes(t) : n \preceq k =>
     IF Childless(t, k) THEN k \in t.evictable_leaves ELSE t.lock_ref[k] = 0}

(* When evict removes all that it can reach from evictable_leaves, no unlocked
   node is left.                                                               *)
LEMMA EvictsAll ==
  ASSUME NEW S, NEW V, NEW t, NEW Q, NEW last, Shape(t, S, V), Counts(Q), Locks(t, Q, last),
         Account(t), NEW R, Removable(t, R), R = Evictable(t)
  PROVE  DeleteNodes(t, R).evictable_size_ = 0
  <1>1. PICK u : u = DeleteNodes(t, R)
    BY Zenon
  <1>2. /\ Shape(u, S, V) /\ Locks(u, Q, last) /\ Account(u)
        /\ Cached(u) = {y \in Cached(t) : Owner(t, y) \notin R}
    <2>1. LET w == DeleteNodes(t, R) IN
          /\ Shape(w, S, V) /\ Locks(w, Q, last)
          /\ Cached(w) = {y \in Cached(t) : Owner(t, y) \notin R}
          /\ \A y \in Cached(w) : w.value[y] = t.value[y]
          /\ \A r \in Q : \A y \in Cached(t) : y \preceq last[r] => y \in Cached(w)
      BY SMTT(30), EvictProps
    <2>2. Account(DeleteNodes(t, R))
      BY ZenonT(30), EvictAccount
    <2> QED
      BY Zenon, <1>1, <2>1, <2>2
  <1>3. ASSUME NEW x \in Unlocked(u) PROVE FALSE
    <2>1. PICK n : n = Owner(u, x)
      BY Zenon
    <2>2. x \in Cached(u) /\ n \in Nodes(u) /\ u.lock_ref[n] = 0
      BY ZenonT(30), <2>1, <1>2, OwnerProps DEF Unlocked, Owns
    <2>3. n \in Cached(u) /\ n \in Cached(t) /\ Owner(t, n) \notin R /\ n \in Seq(S)
      BY Zenon, <2>2, <1>2 DEF Shape
    <2>4. PICK m : m = Owner(t, n)
      BY Zenon
    <2>5. m \in Nodes(t) /\ n \preceq m /\ m \in Seq(S)
      BY Zenon, <2>3, <2>4, OwnerProps DEF Owns, Shape
    <2>6. ASSUME NEW r \in Q, n \preceq last[r] PROVE FALSE
      <3>1. PICK A \in SUBSET Q : A = {q \in Q : n \preceq last[q]}
        BY ZenonT(30)
      <3>2. Cardinality(A) = 0 /\ r \in A
        BY Zenon, <2>2, <2>6, <3>1, <1>2 DEF Locks
      <3>3. Cardinality(A \ {r}) \in Nat /\ Cardinality(A) = Cardinality(A \ {r}) + 1
        BY Zenon, <3>2, OneLess
      <3>4. PICK n1 \in Nat : n1 = Cardinality(A \ {r})
        BY Zenon, <3>3
      <3>5. n1 + 1 = 0
        BY Zenon, <3>2, <3>3, <3>4
      <3> QED
        BY <3>5
    <2>7. ASSUME NEW k \in Nodes(t), m \preceq k
          PROVE  IF Childless(t, k) THEN k \in t.evictable_leaves ELSE t.lock_ref[k] = 0
      <3>1. k \in Seq(S)
        BY Zenon DEF Shape
      <3>2. n \preceq k
        BY Zenon, <3>1, <2>3, <2>5, <2>7, PrefixOrder
      <3>3. ASSUME NEW r \in Q, k \preceq last[r] PROVE FALSE
        <4>1. last[r] \in Seq(S)
          <5>1. last[r] \in Nodes(t) \cup {root} /\ Nodes(t) \subseteq Seq(S)
            BY Zenon DEF Locks, Shape
          <5>2. root \in Seq(S)
            BY DEF root
          <5> QED
            BY Zenon, <5>1, <5>2
        <4>2. n \preceq last[r]
          BY Zenon, <4>1, <3>1, <3>2, <3>3, <2>3, PrefixOrder
        <4> QED
          BY Zenon, <4>2, <2>6
      <3>4. {r \in Q : k \preceq last[r]} = {}
        BY Zenon, <3>3
      <3>5. t.lock_ref[k] = 0
        BY Zenon, <3>4 DEF Locks, Counts
      <3> QED
        BY Zenon, <3>5 DEF Account, Leaves
    <2>8. m \in R
      BY Zenon, <2>5, <2>7 DEF Evictable
    <2> QED
      BY Zenon, <2>8, <2>3, <2>4
  <1>4. Cardinality(Unlocked(u)) = 0
    BY Zenon, <1>3 DEF Counts
  <1>5. u.evictable_size_ = PageSize * Cardinality(Unlocked(u))
    BY Zenon, <1>2 DEF Account
  <1> QED
    BY <1>1, <1>4, <1>5, PageSizeAssumption
=============================================================================
