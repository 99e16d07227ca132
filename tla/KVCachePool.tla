----------------------------- MODULE KVCachePool -----------------------------
(***************************************************************************)
(* KVCache implements PagePool: lock counts, splits, rows and the tree's   *)
(* accounting are forgotten, and what is left is who owns each page.       *)
(***************************************************************************)
EXTENDS KVCache

(* What the cache and the allocator promise together (module PagePool): pages
   change hands only as stated there, and a held prefix stays cached.       *)
Pool == INSTANCE PagePool WITH
  free <- free_pages, cache <- tree.value, own <- [r \in Reqs |-> Own(r)],
  held <- [r \in Reqs |-> IF Locking(r) THEN {last_node[r]} ELSE {}]
PoolSpec == Pool!PoolSpec
==============================================================================
