------------------------------- MODULE KVCache -------------------------------
(***************************************************************************)
(* The device KV memory of one scheduler: the page allocator, the radix    *)
(* prefix cache, and what each request holds (ReqKvInfo and its row of     *)
(* req_to_token), under the operations by which the scheduler uses them.   *)
(*                                                                         *)
(* A row is a sequence of pages: the slot of position i of a request lies  *)
(* at offset i % PageSize of page row[i \div PageSize + 1].                *)
(* Ghost state: content[p] is the token path whose KV page p holds, as the *)
(* forward passes write it in stream order, and <<>> after a free;         *)
(* double_free records the free of a page that is free already; ids        *)
(* includes the token that the forward pass in flight samples, which the   *)
(* host learns when it processes the result.                               *)
(***************************************************************************)
EXTENDS RadixTree

CONSTANTS
  Reqs,      \* requests
  Pages,     \* pages of the KV pool
  Tokens,    \* token ids
  Prompts,   \* origin_input_ids of the requests
  MaxLen     \* bound: the longest sequence of KV (context length)

ASSUME KVAssumption ==
  /\ IsFiniteSet(Reqs) /\ IsFiniteSet(Pages)
  /\ Prompts \subseteq Seq(Tokens) \ {<<>>}
  /\ MaxLen \in Nat

VARIABLES
  tree,                \* the RadixCache
  free_pages,          \* free_pages and release_pages of the allocator
  req_to_token,        \* the row of each request
  kv_committed_len,    \* = kv_allocated_len: there is no speculative decoding
  cache_protected_len, \* the tree cache owns the row up to here
  last_node,           \* the node that the request has locked
  extend_end,          \* extend_range.end
  stage,               \* where the request is in its life
  ids,                 \* origin_input_ids + output_ids
  oom,                 \* an allocation failed: RuntimeError in the scheduler
  content, double_free \* ghosts

reqVars == <<req_to_token, kv_committed_len, cache_protected_len, last_node, extend_end>>
kvVars == <<tree, free_pages, req_to_token, kv_committed_len, cache_protected_len, last_node,
            extend_end, stage, ids, oom, content, double_free>>

(* "waiting": in the waiting queue; "admitted": PrefillAdder locked its prefix;
   "chunked", "extended": a chunk, the last chunk is launched; "cached",
   "decoding": that chunk is in the tree.                                   *)
Stages == {"none", "waiting", "admitted", "chunked", "cached", "extended", "decoding"}
Locking(r) == stage[r] \notin {"none", "waiting"}
HoldsKV(r) == stage[r] \in {"chunked", "cached", "extended", "decoding"}

KVInit ==
  /\ tree = EmptyTree /\ free_pages = Pages
  /\ req_to_token = [r \in Reqs |-> <<>>]
  /\ kv_committed_len = [r \in Reqs |-> 0]
  /\ cache_protected_len = [r \in Reqs |-> 0]
  /\ last_node = [r \in Reqs |-> root]
  /\ extend_end = [r \in Reqs |-> 0]
  /\ stage = [r \in Reqs |-> "none"]
  /\ ids = [r \in Reqs |-> <<>>]
  /\ content = [p \in Pages |-> <<>>]
  /\ double_free = FALSE /\ oom = FALSE

-----------------------------------------------------------------------------
(* The allocator (mem_cache/allocator, mem_cache/allocation.py).            *)

(* available_size, with the pages of F free.                                *)
AvailableSize(F) == PageSize * Cardinality(F)

(* evict_from_tree_cache(num), with the pages of F free: the sets of nodes of
   the tree t that it may evict.                                            *)
EvictFromTreeCache(t, F, num) ==
  IF AvailableSize(F) < num THEN Evictions(t, num - AvailableSize(F)) ELSE {{}}

(* Free the pages at the positions `at` of a row, put t for the tree, and then
   evict from it until num tokens are available.                            *)
FreeThenEvict(row, at, t, num) ==
  LET pages == {row[i] : i \in at} IN
  \E R \in EvictFromTreeCache(t, free_pages \cup pages, num) :
    LET out == PagesOf(t, R) IN
    /\ tree' = DeleteNodes(t, R)
    /\ free_pages' = free_pages \cup pages \cup out
    /\ content' = [p \in Pages |-> IF p \in pages \cup out THEN <<>> ELSE content[p]]
    /\ double_free' = \/ double_free \/ pages \cap free_pages # {}
                      \/ \E i, j \in at : i # j /\ row[i] = row[j]
                      \/ out \cap (free_pages \cup pages) # {}

(* The positions of the rows that a batch B with sequence lengths lens needs
   pages for, and the free pages they get: any, the order of the free list
   being of no concern.                                                     *)
Missing(B, lens) == UNION {{r} \X ((Len(req_to_token[r]) + 1)..NumPages(lens[r])) : r \in B}
Injections(D, S) == {f \in [D -> S] : \A a, b \in D : f[a] = f[b] => a = b}

(* len(prefix_indices) when the batch is built.                             *)
PrefixLen(r) == IF stage[r] = "admitted" THEN cache_protected_len[r] ELSE kv_committed_len[r]

(* The KV that the forward pass writes: the pages and their new content.    *)
Written(B, lens, rows) ==
  UNION {{<<rows[r][i], Key(ids[r], IF i * PageSize < lens[r] THEN i * PageSize ELSE lens[r])>> :
            i \in NumPages(PrefixLen(r) + 1)..NumPages(lens[r])} : r \in B}

(* alloc_for_extend and alloc_for_decode: evict until `demand` tokens are
   available, give every request its pages and launch the forward pass, or
   fail with RuntimeError.                                                  *)
Alloc(B, lens, demand) ==
  \E R \in EvictFromTreeCache(tree, free_pages, demand) :
    LET avail == free_pages \cup PagesOf(tree, R)
        need == Missing(B, lens)
    IN  /\ tree' = DeleteNodes(tree, R)
        /\ double_free' = (double_free \/ PagesOf(tree, R) \cap free_pages # {})
        /\ IF Cardinality(need) > Cardinality(avail)
           THEN /\ oom' = TRUE /\ free_pages' = avail
                /\ UNCHANGED <<req_to_token, kv_committed_len, content>>
           ELSE \E f \in Injections(need, avail) :
                LET rows == [r \in B |-> [i \in 1..NumPages(lens[r]) |->
                               IF <<r, i>> \in need THEN f[<<r, i>>] ELSE req_to_token[r][i]]]
                    written == Written(B, lens, rows)
                IN  /\ oom' = oom /\ free_pages' = avail \ {f[x] : x \in need}
                    /\ req_to_token' = [r \in Reqs |-> IF r \in B THEN rows[r]
                                                       ELSE req_to_token[r]]
                    /\ kv_committed_len' = [r \in Reqs |-> IF r \in B THEN lens[r]
                                                           ELSE kv_committed_len[r]]
                    /\ content' = [p \in Pages |->
                         IF \E w \in written : w[1] = p
                         THEN (CHOOSE w \in written : w[1] = p)[2]
                         ELSE IF p \in PagesOf(tree, R) THEN <<>> ELSE content[p]]

(* The forward pass samples a token for the requests of S.                  *)
Sample(S) ==
  \E tok \in [S -> Tokens] :
    ids' = [r \in Reqs |-> IF r \in S THEN Append(ids[r], tok[r]) ELSE ids[r]]

-----------------------------------------------------------------------------
(* The operations of the scheduler on the KV memory.                        *)

Submit(r) ==
  /\ stage[r] = "none"
  /\ \E s \in Prompts : ids' = [ids EXCEPT ![r] = s]
  /\ stage' = [stage EXCEPT ![r] = "waiting"]
  /\ UNCHANGED <<tree, free_pages, reqVars, oom, content, double_free>>

(* abort_request pops a request, new or retracted, from the waiting queue.   *)
Abort(r) ==
  /\ stage[r] = "waiting"
  /\ ids' = [ids EXCEPT ![r] = <<>>]
  /\ stage' = [stage EXCEPT ![r] = "none"]
  /\ UNCHANGED <<tree, free_pages, reqVars, oom, content, double_free>>

(* init_next_round_input: the key to match is shorter than the input, and no
   longer than logprob_start_len when the request returns log probabilities. *)
MatchKeys(r) == {Key(ids[r], PageAligned(n)) : n \in 0..(Len(ids[r]) - 1)}

(* match_prefix for a request that PrefillAdder.add_one_req then refuses.    *)
Refuse(r) ==
  /\ stage[r] = "waiting"
  /\ \E s \in MatchKeys(r) : tree' = MatchPrefix(tree, s)
  /\ UNCHANGED <<free_pages, reqVars, stage, ids, oom, content, double_free>>

(* match_prefix, and inc_lock_ref by PrefillAdder.add_one_req.              *)
Admit(r) ==
  /\ stage[r] = "waiting"
  /\ \E s \in MatchKeys(r) :
       LET x == Matched(tree, s) IN
       /\ tree' = IncLockRef(MatchPrefix(tree, s), x)
       /\ req_to_token' = [req_to_token EXCEPT ![r] =
            [i \in 1..(Len(x) \div PageSize) |-> tree.value[Key(x, i * PageSize)]]]
       /\ cache_protected_len' = [cache_protected_len EXCEPT ![r] = Len(x)]
       /\ last_node' = [last_node EXCEPT ![r] = x]
  /\ stage' = [stage EXCEPT ![r] = "admitted"]
  /\ UNCHANGED <<free_pages, kv_committed_len, extend_end, ids, oom, content, double_free>>

(* prepare_for_extend of a batch B up to the lengths lens, and its launch.  *)
Extend(B, lens) ==
  LET tokens == UNION {{r} \X ((PrefixLen(r) + 1)..lens[r]) : r \in B}
      final == {r \in B : lens[r] = Len(ids[r])}
  IN  /\ \A r \in B : /\ stage[r] \in {"admitted", "cached"}
                      /\ lens[r] \in (PrefixLen(r) + 1)..Len(ids[r])
                      /\ stage[r] = "admitted" /\ r \notin final => lens[r] % PageSize = 0
      /\ Alloc(B, lens, Cardinality(tokens) +
                        (IF PageSize = 1 THEN 0 ELSE PageSize * Cardinality(B)))
      /\ IF oom' THEN UNCHANGED <<extend_end, stage, ids>>
         ELSE /\ extend_end' = [r \in Reqs |-> IF r \in B THEN lens[r] ELSE extend_end[r]]
              /\ stage' = [r \in Reqs |-> IF r \in final THEN "extended"
                                          ELSE IF r \in B THEN "chunked" ELSE stage[r]]
              /\ Sample(final)
      /\ UNCHANGED <<cache_protected_len, last_node>>

(* prepare_for_decode of a batch B, and its launch.                         *)
Decode(B) ==
  /\ \A r \in B : stage[r] \in {"extended", "decoding"} /\ kv_committed_len[r] < MaxLen
  /\ Alloc(B, [r \in B |-> kv_committed_len[r] + 1], PageSize * Cardinality(B))
  /\ IF oom' THEN UNCHANGED ids ELSE Sample(B)
  /\ UNCHANGED <<cache_protected_len, last_node, extend_end, stage>>

ProtectedPages(r) == cache_protected_len[r] \div PageSize

DuplicatesFromStart(r, n) == 1..(n \div PageSize)
NoDuplicates(r, n) == {}

(* The positions of the request's own pages of its first n tokens, n of them
   being in the tree: kv_indices[cache_protected_len : n].                  *)
Duplicates(r, n) == (ProtectedPages(r) + 1)..(n \div PageSize)

NoTail(r) == {}

(* The page that ends beyond the page-aligned key: kv_indices[key_len:].     *)
UnalignedTail(r) == (kv_committed_len[r] \div PageSize + 1)..Len(req_to_token[r])

RowKept(r, t, x) == req_to_token[r]

(* The row once the tree owns its prefix x: the tree's pages replace the
   request's own copies.                                                    *)
Rewritten(r, t, x) ==
  [i \in DOMAIN req_to_token[r] |->
     IF i \in Duplicates(r, Len(x)) THEN t.value[Key(x, i * PageSize)] ELSE req_to_token[r][i]]

(* cache_unfinished_req: after the last chunk, or stash_chunked_request.     *)
CacheUnfinished(r) ==
  LET s == Key(ids[r], PageAligned(extend_end[r]))
      t == Insert(tree, s, req_to_token[r])
      x == Matched(t, s)
  IN  /\ stage[r] \in {"chunked", "extended"}
      /\ FreeThenEvict(req_to_token[r], Duplicates(r, MatchLen(tree, s)),
                       IncLockRef(DecLockRef(MatchPrefix(t, s), last_node[r]), x), 0)
      /\ req_to_token' = [req_to_token EXCEPT ![r] = Rewritten(r, t, x)]
      /\ cache_protected_len' = [cache_protected_len EXCEPT ![r] = Len(x)]
      /\ last_node' = [last_node EXCEPT ![r] = x]
      /\ stage' = [stage EXCEPT ![r] = IF @ = "chunked" THEN "cached" ELSE "decoding"]
      /\ UNCHANGED <<kv_committed_len, extend_end, ids, oom>>

(* cache_finished_req: the positions that it frees and the tree it leaves.   *)
Freed(r, is_insert) ==
  LET s == Key(ids[r], PageAligned(kv_committed_len[r]))
  IN  Duplicates(r, IF is_insert THEN MatchLen(tree, s) ELSE Len(s)) \cup UnalignedTail(r)

FinishedTree(r, is_insert) ==
  LET s == Key(ids[r], PageAligned(kv_committed_len[r]))
  IN  DecLockRef(IF is_insert THEN Insert(tree, s, req_to_token[r]) ELSE tree, last_node[r])

(* release_kv_cache, and what evict_from_tree_cache(num) evicts after it.    *)
ReleaseKVCache(r, is_insert, num) ==
  /\ HoldsKV(r)
  /\ FreeThenEvict(req_to_token[r], Freed(r, is_insert), FinishedTree(r, is_insert), num)
  /\ req_to_token' = [req_to_token EXCEPT ![r] = <<>>]
  /\ kv_committed_len' = [kv_committed_len EXCEPT ![r] = 0]
  /\ cache_protected_len' = [cache_protected_len EXCEPT ![r] = 0]
  /\ last_node' = [last_node EXCEPT ![r] = root]
  /\ extend_end' = [extend_end EXCEPT ![r] = 0]
  /\ oom' = oom

(* A request finishes; an aborted one is released without insertion, and so
   is one with skip_radix_cache_insert.                                      *)
Finish(r) ==
  /\ \/ stage[r] \in {"extended", "decoding"} /\ ReleaseKVCache(r, TRUE, 0)
     \/ ReleaseKVCache(r, FALSE, 0)
  /\ stage' = [stage EXCEPT ![r] = "none"]
  /\ ids' = [ids EXCEPT ![r] = <<>>]

(* release_req and reset_for_retract: num is what the running requests need
   for their next steps.  The token in flight, if there is one, is lost.     *)
Retract(r, num) ==
  /\ stage[r] \in {"extended", "decoding"}
  /\ ReleaseKVCache(r, FALSE, num)
  /\ stage' = [stage EXCEPT ![r] = "waiting"]
  /\ \E n \in {Len(ids[r]) - 1, Len(ids[r])} : ids' = [ids EXCEPT ![r] = Key(@, n)]

(* check_decode_mem: evict_from_tree_cache before the decode batch is built. *)
CheckDecodeMem(num) ==
  /\ FreeThenEvict(<<>>, {}, tree, num)
  /\ UNCHANGED <<reqVars, stage, ids, oom>>

(* flush_cache when the scheduler is idle: the tree and the pools are reset. *)
FlushCache ==
  /\ \A r \in Reqs : stage[r] = "none"
  /\ tree' = EmptyTree /\ free_pages' = Pages
  /\ content' = [p \in Pages |-> <<>>]
  /\ UNCHANGED <<reqVars, stage, ids, oom, double_free>>

KVNext ==
  /\ ~oom
  /\ \/ \E r \in Reqs : Submit(r) \/ Abort(r) \/ Refuse(r) \/ Admit(r)
                        \/ CacheUnfinished(r) \/ Finish(r)
     \/ \E B \in SUBSET Reqs \ {{}} :
          \/ \E lens \in [B -> 1..MaxLen] : Extend(B, lens)
          \/ Decode(B)
     \/ \E num \in 0..AvailableSize(Pages) :
          CheckDecodeMem(num) \/ \E r \in Reqs : Retract(r, num)
     \/ FlushCache

KVSpec == KVInit /\ [][KVNext]_kvVars

-----------------------------------------------------------------------------
(* The pages that a request owns: its row beyond what the tree owns.        *)
OwnAt(r) == (ProtectedPages(r) + 1)..Len(req_to_token[r])
Own(r) == {req_to_token[r][i] : i \in OwnAt(r)}
TreePages == {tree.value[x] : x \in Cached(tree)}

Paths == UNION {[1..n -> Tokens] : n \in 0..(MaxLen + 1)}
TypeOK ==
  /\ DOMAIN tree.value \subseteq Paths /\ TreePages \subseteq Pages
  /\ DOMAIN tree.lock_ref \subseteq DOMAIN tree.value
  /\ \A n \in Nodes(tree) : tree.lock_ref[n] \in Nat
  /\ tree.evictable_size_ \in Nat /\ tree.protected_size_ \in Nat
  /\ tree.evictable_leaves \subseteq Nodes(tree)
  /\ free_pages \subseteq Pages
  /\ \A r \in Reqs : req_to_token[r] \in Seq(Pages) /\ ids[r] \in Paths
                     /\ last_node[r] \in Nodes(tree) \cup {root}
  /\ kv_committed_len \in [Reqs -> 0..MaxLen]
  /\ cache_protected_len \in [Reqs -> 0..MaxLen]
  /\ extend_end \in [Reqs -> 0..MaxLen]
  /\ stage \in [Reqs -> Stages]
  /\ content \in [Pages -> Paths]
  /\ {oom, double_free} \subseteq BOOLEAN

(* Every page is free, or cached under one path, or in one place of the own
   part of one row, and no page is freed twice: insert, the frees of
   cache_unfinished_req and cache_finished_req, and evict hand every page on
   exactly once.                                                            *)
OneOwner ==
  /\ ~double_free
  /\ \A x, y \in Cached(tree) : tree.value[x] = tree.value[y] => x = y
  /\ \A r \in Reqs : \A i, j \in OwnAt(r) : req_to_token[r][i] = req_to_token[r][j] => i = j
  /\ \A q, r \in Reqs : q # r => Own(q) \cap Own(r) = {}
  /\ \A r \in Reqs : Own(r) \cap (free_pages \cup TreePages) = {}
  /\ free_pages \cap TreePages = {}

(* No page is lost: the sum that the scheduler's invariant checker compares
   with the size of the pool when it is idle.                               *)
NoLeak ==
  AvailableSize(free_pages) + tree.evictable_size_ + tree.protected_size_
    + PageSize * Cardinality(UNION {Own(r) : r \in Reqs}) = PageSize * Cardinality(Pages)

(* What a request reads is the KV of its own tokens: the prefix it shares
   through the tree was computed for the same tokens, and no page of it is
   evicted, reused or overwritten while the request uses it.                *)
ReadsOwnTokens ==
  /\ \A x \in Cached(tree) : content[tree.value[x]] = x
  /\ \A r \in Reqs : HoldsKV(r) =>
       \A i \in 1..NumPages(kv_committed_len[r]) :
         content[req_to_token[r][i]] =
           Key(ids[r], IF i * PageSize < kv_committed_len[r] THEN i * PageSize
                       ELSE kv_committed_len[r])

(* lock_ref of a node is the number of requests whose locked prefix passes
   through it, whatever splits, inserts and rematches have happened since the
   lock was taken: inc_lock_ref and dec_lock_ref pair up.                    *)
LocksExact ==
  \A n \in Nodes(tree) :
    tree.lock_ref[n] = Cardinality({r \in Reqs : Locking(r) /\ n \preceq last_node[r]})

(* evictable_size_, protected_size_ and evictable_leaves, which insert, evict,
   inc_lock_ref and dec_lock_ref adjust step by step, are what a walk over the
   tree would compute.                                                      *)
AccountingExact ==
  /\ tree.evictable_size_ = SizeOf(tree, {n \in Nodes(tree) : tree.lock_ref[n] = 0})
  /\ tree.protected_size_ = SizeOf(tree, {n \in Nodes(tree) : tree.lock_ref[n] > 0})
  /\ tree.evictable_leaves = {n \in Nodes(tree) : tree.lock_ref[n] = 0 /\ Childless(tree, n)}

(* An allocation fails only when nothing evictable is left: whatever the tree
   counts in evictable_size_, on which the admission of requests relies, evict
   can reach from evictable_leaves.                                         *)
FailsOnlyWhenFull == [][oom' => tree'.evictable_size_ = 0]_kvVars
==============================================================================
