------------------------------ MODULE RadixTree ------------------------------
(***************************************************************************)
(* RadixCache (mem_cache/radix_cache.py) as operations on a tree value.    *)
(*                                                                         *)
(* A node is named by the whole token path from the root, which a split    *)
(* does not change: the child keeps its identity as the lower part.  The   *)
(* tree is a record of                                                     *)
(*   value            : page of each cached, page-aligned path             *)
(*   lock_ref         : of each node; its domain is the set of nodes       *)
(*   evictable_size_, protected_size_, evictable_leaves : the accounting   *)
(*                      that the code maintains incrementally              *)
(* A path that is cached but is not a node lies inside a node's key.       *)
(* A token stands for a token id together with the extra_key and the       *)
(* cache_salt of its request, which child_key and match compare too.       *)
(***************************************************************************)
EXTENDS Integers, Sequences, FiniteSets

CONSTANT PageSize

ASSUME PageSizeAssumption == PageSize \in Nat \ {0}

root == <<>>

x \preceq y == Len(x) <= Len(y) /\ \A i \in 1..Len(x) : x[i] = y[i]
x \prec y == x \preceq y /\ x # y

Key(s, n) == SubSeq(s, 1, n)

(* RadixKey.page_aligned, as a length.                                      *)
PageAligned(n) == (n \div PageSize) * PageSize

(* The pages that hold n tokens of a row.                                   *)
NumPages(n) == (n + PageSize - 1) \div PageSize

Nodes(t) == DOMAIN t.lock_ref
Cached(t) == DOMAIN t.value

(* The node whose key contains the cached path x.                           *)
Owner(t, x) == CHOOSE n \in Nodes(t) : x \preceq n /\ \A k \in Nodes(t) : x \preceq k => n \preceq k

Childless(t, n) == \A k \in Nodes(t) : ~(n \prec k)

(* The sum of len(node.key) over the nodes of S.                            *)
SizeOf(t, S) == PageSize * Cardinality({x \in Cached(t) : Owner(t, x) \in S})

EmptyTree == [value |-> <<>>, lock_ref |-> <<>>, evictable_size_ |-> 0,
              protected_size_ |-> 0, evictable_leaves |-> {}]

(* _update_leaf_status of each node of S; the root, with lock_ref 1, never is
   an evictable leaf.                                                       *)
UpdateLeafStatus(t, S) ==
  [t EXCEPT !.evictable_leaves =
     (t.evictable_leaves \ S) \cup {n \in S \cap Nodes(t) : t.lock_ref[n] = 0 /\ Childless(t, n)}]

(* The length of the longest cached prefix of s.                            *)
MatchLen(t, s) ==
  CHOOSE k \in 0..Len(s) :
    /\ k = 0 \/ Key(s, k) \in Cached(t)
    /\ \A j \in (k + 1)..Len(s) : Key(s, j) \notin Cached(t)

SplitUnlocked(t, x) ==
  IF x = root \/ x \in Nodes(t) THEN t
  ELSE [t EXCEPT !.lock_ref =
          [n \in Nodes(t) \cup {x} |-> IF n = x THEN 0 ELSE t.lock_ref[n]]]

(* _split_node: x becomes a node, with the lock_ref of the node it splits.  *)
SplitNode(t, x) ==
  IF x = root \/ x \in Nodes(t) THEN t
  ELSE [t EXCEPT !.lock_ref =
          [n \in Nodes(t) \cup {x} |-> t.lock_ref[IF n = x THEN Owner(t, x) ELSE n]]]

(* match_prefix: the matched path, and the tree with that path made a node. *)
Matched(t, s) == Key(s, MatchLen(t, s))
MatchPrefix(t, s) == SplitNode(t, Matched(t, s))

(* insert of the page-aligned key s, whose i-th page is pages[i].           *)
Insert(t, s, pages) ==
  LET x == Matched(t, s)
      u == SplitNode(t, x)
      new == {Key(s, k) : k \in {j \in (Len(x) + 1)..Len(s) : j % PageSize = 0}}
      v == [u EXCEPT
              !.value = [y \in Cached(u) \cup new |->
                           IF y \in new THEN pages[Len(y) \div PageSize] ELSE u.value[y]],
              !.lock_ref = [n \in Nodes(u) \cup {s} |-> IF n = s THEN 0 ELSE u.lock_ref[n]],
              !.evictable_size_ = @ + Len(s) - Len(x)]
  IN  IF x = s THEN u ELSE UpdateLeafStatus(v, {x, s})

(* inc_lock_ref and dec_lock_ref: n and its ancestors.                      *)
Path(t, n) == {m \in Nodes(t) : m \preceq n}

IncLeafOnly(t, n) ==
  LET path == {m \in Nodes(t) : m = n}
      size == SizeOf(t, {m \in path : t.lock_ref[m] = 0})
  IN  UpdateLeafStatus(
        [t EXCEPT !.lock_ref = [m \in Nodes(t) |-> IF m \in path THEN @[m] + 1 ELSE @[m]],
                  !.evictable_size_ = @ - size, !.protected_size_ = @ + size], path)

IncLockRef(t, n) ==
  LET path == Path(t, n)
      size == SizeOf(t, {m \in path : t.lock_ref[m] = 0})
  IN  UpdateLeafStatus(
        [t EXCEPT !.lock_ref = [m \in Nodes(t) |-> IF m \in path THEN @[m] + 1 ELSE @[m]],
                  !.evictable_size_ = @ - size, !.protected_size_ = @ + size], path)

DecStaleLeaves(t, n) ==
  LET path == Path(t, n)
      size == SizeOf(t, {m \in path : t.lock_ref[m] = 1})
  IN  [t EXCEPT !.lock_ref = [m \in Nodes(t) |-> IF m \in path THEN @[m] - 1 ELSE @[m]],
                !.evictable_size_ = @ + size, !.protected_size_ = @ - size]

DecLockRef(t, n) ==
  LET path == Path(t, n)
      size == SizeOf(t, {m \in path : t.lock_ref[m] = 1})
  IN  UpdateLeafStatus(
        [t EXCEPT !.lock_ref = [m \in Nodes(t) |-> IF m \in path THEN @[m] - 1 ELSE @[m]],
                  !.evictable_size_ = @ + size, !.protected_size_ = @ - size], path)

(* evict(num_tokens): the sets of nodes that it may remove.  The heap yields
   evictable leaves, and parents that become such, in the order of the
   eviction strategy; any order is allowed here.  The last node removed is
   the one that reaches num_tokens, unless nothing is left to evict.        *)
Evictions(t, num) ==
  LET unlocked == {n \in Nodes(t) : \A k \in Nodes(t) : n \preceq k =>
                     IF Childless(t, k) THEN k \in t.evictable_leaves ELSE t.lock_ref[k] = 0}
      closed(R) == \A n \in R : \A k \in Nodes(t) : n \preceq k => k \in R
  IN  {R \in SUBSET unlocked :
         /\ closed(R)
         /\ R # {} => \E x \in R : closed(R \ {x}) /\ SizeOf(t, R \ {x}) < num
         /\ SizeOf(t, R) >= num \/ R = unlocked}

PagesOf(t, R) == {t.value[x] : x \in {y \in Cached(t) : Owner(t, y) \in R}}

(* The tree without the nodes of R: _delete_leaf for each of them.          *)
DeleteNodes(t, R) ==
  LET keep == Nodes(t) \ R
      v == [t EXCEPT
              !.value = [x \in {y \in Cached(t) : Owner(t, y) \notin R} |-> @[x]],
              !.lock_ref = [n \in keep |-> @[n]],
              !.evictable_size_ = @ - SizeOf(t, R),
              !.evictable_leaves = @ \ R]
      parents == {n \in keep : \E r \in R : n \prec r /\ \A k \in keep : k \prec r => k \preceq n}
  IN  UpdateLeafStatus(v, parents)
==============================================================================
