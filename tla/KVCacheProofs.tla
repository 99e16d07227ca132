---------------------------- MODULE KVCacheProofs ---------------------------
(***************************************************************************)
(* The theorems about KVCache, for any page size, any numbers of requests  *)
(* and pages, any prompts and any bound on their lengths: KVInv always     *)
(* holds, KVCache implements PagePool, the accounting of the tree is exact, *)
(* no page is lost, and an allocation fails only when nothing is left to   *)
(* evict.                                                                  *)
(***************************************************************************)
EXTENDS KVCacheInserts, KVCacheAlloc

(* Steps that change no variable keep the invariant.                         *)
LEMMA StutterInv ==
  ASSUME KVInv, UNCHANGED kvVars
  PROVE  KVInv'
  <1>1. UNCHANGED <<tree, free_pages, req_to_token, kv_committed_len, cache_protected_len, last_node,
                    extend_end, stage, ids, content, double_free>>
    BY Zenon DEF kvVars
  <1>2. Holders' = Holders /\ Owned' = Owned
    BY Zenon, <1>1 DEF Holders, Locking, Owned
  <1> QED
    BY Zenon, <1>1, <1>2 DEF KVInv

(* Every operation of the scheduler on the KV memory keeps the invariant.    *)
LEMMA NextInv ==
  ASSUME KVInv, KVNext
  PROVE  KVInv'
  <1>1. ASSUME NEW r \in Reqs, Submit(r) PROVE KVInv'
    BY Zenon, <1>1, SubmitInv
  <1>2. ASSUME NEW r \in Reqs, Refuse(r) PROVE KVInv'
    BY Zenon, <1>2, RefuseInv
  <1>3. ASSUME NEW r \in Reqs, Admit(r) PROVE KVInv'
    BY Zenon, <1>3, AdmitInv
  <1>4. ASSUME NEW r \in Reqs, CacheUnfinished(r) PROVE KVInv'
    BY Zenon, <1>4, CacheUnfinishedInv
  <1>5. ASSUME NEW r \in Reqs, Finish(r) PROVE KVInv'
    BY Zenon, <1>5, FinishInv
  <1>6. ASSUME ~oom, NEW B \in SUBSET Reqs, NEW lens \in [B -> 1..MaxLen], Extend(B, lens) PROVE KVInv'
    <2>1. lens \in [B -> Nat]
      OBVIOUS
    <2> QED
      BY Zenon, <2>1, <1>6, ExtendInv
  <1>7. ASSUME ~oom, NEW B \in SUBSET Reqs, Decode(B) PROVE KVInv'
    BY Zenon, <1>7, DecodeInv
  <1>8. ASSUME NEW num, CheckDecodeMem(num) PROVE KVInv'
    BY Zenon, <1>8, CheckDecodeMemInv
  <1>9. ASSUME NEW num, NEW r \in Reqs, Retract(r, num) PROVE KVInv'
    BY Zenon, <1>9, RetractInv
  <1>10. ASSUME FlushCache PROVE KVInv'
    BY Zenon, <1>10, FlushInv
  <1>11. ASSUME NEW r \in Reqs, Abort(r) PROVE KVInv'
    BY <1>11, AbortInv
  <1> QED
    BY ZenonT(30), <1>1, <1>2, <1>3, <1>4, <1>5, <1>6, <1>7, <1>8, <1>9, <1>10, <1>11 DEF KVNext

-----------------------------------------------------------------------------
(* The steps of KVCache are steps of PagePool. *)

(* The assignments of KVNext to the free list, the tree and the request state
   that the mapping reads are a step of PagePool or leave it as it is.         *)
LEMMA NextPool ==
  ASSUME KVInv, KVInv', KVNext
  PROVE  Pool!PoolNext \/ UNCHANGED Pool!poolVars
  <1>1. ASSUME tree'.value = tree.value, free_pages' = free_pages,
               \A q \in Reqs : Owned'[q] = Owned[q], Holders' = Holders,
               \A q \in Holders : last_node'[q] = last_node[q]
        PROVE  UNCHANGED Pool!poolVars
    <2>1. OwnMap' = OwnMap
      BY Zenon, <1>1, MapProps, MapPropsNext DEF OwnMap
    <2>2. HeldMap' = HeldMap
      BY Zenon, <1>1, MapProps, MapPropsNext DEF HeldMap
    <2> QED
      BY Zenon, <2>1, <2>2, <1>1 DEF Pool!poolVars, OwnMap, HeldMap
  <1>2. ASSUME NEW r \in Reqs, Submit(r) \/ Abort(r) PROVE UNCHANGED Pool!poolVars
    <2>1. /\ UNCHANGED <<tree, free_pages, req_to_token, cache_protected_len, last_node>>
          /\ stage[r] \in {"none", "waiting"} /\ \E st \in {"none", "waiting"} : stage' = [stage EXCEPT ![r] = st]
      BY Zenon, <1>2 DEF Submit, Abort, reqVars
    <2>2. Holders' = Holders /\ Owned' = Owned
      BY Zenon, <2>1 DEF Holders, Locking, Owned, KVInv
    <2> QED
      BY Zenon, <2>1, <2>2, <1>1
  <1>3. ASSUME NEW r \in Reqs, Refuse(r) PROVE UNCHANGED Pool!poolVars
    <2>1. UNCHANGED <<free_pages, req_to_token, cache_protected_len, last_node, stage>>
      BY Zenon, <1>3 DEF Refuse, reqVars
    <2>2. Holders' = Holders /\ Owned' = Owned
      BY Zenon, <2>1 DEF Holders, Locking, Owned
    <2> QED
      BY Zenon, <2>1, <2>2, <1>1, <1>3, RefuseInv
  <1>4. ASSUME NEW r \in Reqs, Admit(r) PROVE Pool!Hold(r)
    <2>1. /\ tree'.value = tree.value /\ \A q \in Reqs : Owned'[q] = Owned[q]
          /\ r \notin Holders /\ Holders' = Holders \cup {r}
          /\ last_node' = [last_node EXCEPT ![r] = last_node'[r]]
          /\ last_node'[r] \in Cached(tree) \cup {root} /\ free_pages' = free_pages
      BY Zenon, <1>4, AdmitInv DEF Admit
    <2>2. OwnMap' = OwnMap
      BY Zenon, <2>1, MapProps, MapPropsNext DEF OwnMap
    <2>3. HeldMap[r] = {} /\ HeldMap'[r] = {last_node'[r]}
      BY Zenon, <2>1, MapProps, MapPropsNext
    <2>4. \A q \in Reqs : q # r => HeldMap'[q] = HeldMap[q]
      <3>1. \A q \in Reqs : q # r => last_node'[q] = last_node[q]
        BY Zenon, <2>1 DEF KVInv
      <3> QED
        BY ZenonT(30), <3>1, <2>1, MapProps, MapPropsNext
    <2>5. HeldMap' = [HeldMap EXCEPT ![r] = {last_node'[r]}]
      BY Zenon, <2>3, <2>4 DEF HeldMap
    <2>6. last_node'[r] \in Pool!Holdable
      BY Zenon, <2>1 DEF Pool!Holdable, Cached, root
    <2> QED
      BY Zenon, <2>1, <2>2, <2>3, <2>5, <2>6 DEF Pool!Hold, OwnMap, HeldMap
  <1>5. ASSUME NEW r \in Reqs, CacheUnfinished(r) PROVE Pool!Settle(r)
    <2>1. \A q \in Reqs : q # r => last_node'[q] = last_node[q]
      BY Zenon, <1>5 DEF CacheUnfinished, KVInv
    <2> QED
      BY Zenon, <2>1, <1>5, CacheUnfinishedInv, SettleStep
  <1>6. ASSUME NEW r \in Reqs, NEW b \in BOOLEAN, NEW num, ReleaseKVCache(r, b, num),
               Settles(r), r \in Holders, Holders' = Holders \ {r}, Owned'[r] = {}
        PROVE  Pool!Settle(r)
    <2>1. \A q \in Reqs : q # r => last_node'[q] = last_node[q]
      BY Zenon, <1>6 DEF ReleaseKVCache, KVInv
    <2> QED
      BY Zenon, <2>1, <1>6, SettleStep
  <1>7. ASSUME NEW r \in Reqs, Finish(r) PROVE Pool!Settle(r)
    BY Zenon, <1>6, <1>7, FinishInv DEF Finish
  <1>8. ASSUME NEW r \in Reqs, NEW num, Retract(r, num) PROVE Pool!Settle(r)
    BY Zenon, <1>6, <1>8, RetractInv DEF Retract
  <1>9. ASSUME ~oom, NEW B \in SUBSET Reqs, NEW lens \in [B -> 1..MaxLen], Extend(B, lens) PROVE Pool!Allocate
    <2>1. lens \in [B -> Nat]
      OBVIOUS
    <2> QED
      BY <1>9, ExtendInv, AllocateStep
  <1>10. ASSUME ~oom, NEW B \in SUBSET Reqs, Decode(B) PROVE Pool!Allocate
    BY Zenon, <1>10, DecodeInv, AllocateStep
  <1>11. ASSUME NEW num, CheckDecodeMem(num) PROVE Pool!Allocate
    <2>1. Allocates /\ UNCHANGED <<last_node, stage>>
      BY Zenon, <1>11, CheckDecodeMemInv
    <2>2. Holders' = Holders
      BY Zenon, <2>1 DEF Holders, Locking
    <2> QED
      BY Zenon, <2>1, <2>2, AllocateStep
  <1>12. ASSUME FlushCache PROVE Pool!Flush
    <2>1. /\ \A r \in Reqs : stage[r] = "none"
          /\ tree' = EmptyTree /\ free_pages' = Pages
          /\ UNCHANGED <<req_to_token, cache_protected_len, last_node, stage>>
      BY Zenon, <1>12 DEF FlushCache, reqVars
    <2>2. Holders' = Holders /\ Holders = {} /\ Owned' = Owned
      BY Zenon, <2>1 DEF Holders, Locking, Owned
    <2>3. OwnMap' = OwnMap /\ HeldMap' = HeldMap /\ \A r \in Reqs : HeldMap[r] = {}
      BY Zenon, <2>2, MapProps, MapPropsNext DEF HeldMap
    <2>4. tree'.value = <<>>
      BY Zenon, <2>1 DEF EmptyTree
    <2> QED
      BY Zenon, <2>1, <2>3, <2>4 DEF Pool!Flush, OwnMap, HeldMap
  <1>13. ASSUME NEW r \in Reqs, Pool!Hold(r) \/ Pool!Settle(r) PROVE Pool!PoolNext
    BY Zenon, <1>13 DEF Pool!PoolNext
  <1>14. ASSUME Pool!Allocate \/ Pool!Flush PROVE Pool!PoolNext
    BY Zenon, <1>14 DEF Pool!PoolNext
  <1> QED
    BY ZenonT(30), <1>2, <1>3, <1>4, <1>5, <1>7, <1>8, <1>9, <1>10, <1>11, <1>12, <1>13, <1>14
       DEF KVNext

(* The initial state has every page free.                                      *)
LEMMA InitPool == KVInit => Pool!PoolInit
  <1> SUFFICES ASSUME KVInit PROVE Pool!PoolInit
    BY Zenon
  <1>1. free_pages = Pages /\ tree.value = <<>>
    BY Zenon DEF KVInit, EmptyTree
  <1>2. Holders = {} /\ \A r \in Reqs : Owned[r] = {}
    <2>1. \A r \in Reqs : Owned[r] = {}
      BY Zenon, NoOwn DEF Owned, KVInit
    <2> QED
      BY Zenon, <2>1 DEF Holders, Locking, KVInit
  <1>3. OwnMap = [r \in Reqs |-> {}] /\ HeldMap = [r \in Reqs |-> {}]
    BY Zenon, <1>2, MapProps DEF OwnMap, HeldMap
  <1> QED
    BY Zenon, <1>1, <1>3 DEF Pool!PoolInit, OwnMap, HeldMap

-----------------------------------------------------------------------------
(* No step loses a page. *)

(* A page stays in one of its places.                                          *)
LEMMA CoveredNext ==
  ASSUME KVInv, KVInv', [KVNext]_kvVars, Covered
  PROVE  Covered'
  <1>1. ASSUME Covered, UNCHANGED Pool!poolVars PROVE Covered'
    <2>1. free_pages' = free_pages /\ tree'.value = tree.value /\ OwnMap' = OwnMap
      BY Zenon, <1>1 DEF Pool!poolVars, OwnMap
    <2> QED
      BY Zenon, <2>1, MapProps, MapPropsNext DEF Covered, Cached
  <1>2. ASSUME UNCHANGED kvVars PROVE UNCHANGED Pool!poolVars
    BY Zenon, <1>2 DEF kvVars, Pool!poolVars, Own, OwnAt, ProtectedPages, Locking
  <1> QED
    BY Zenon, <1>1, <1>2, NextPool, CoveredStep

-----------------------------------------------------------------------------
(* What a failing allocation leaves to evict. *)

(* An allocation whose demand counts at least the pages that it needs fails only
   when evict has removed all that it can.                                     *)
LEMMA FailedAlloc ==
  ASSUME KVInv, Account(tree), ~oom, NEW B, NEW lens, NEW demand \in Nat, Alloc(B, lens, demand), oom',
         PageSize * Cardinality(Missing(B, lens)) <= demand, Cardinality(Missing(B, lens)) \in Nat
  PROVE  tree'.evictable_size_ = 0
  <1>1. PICK R \in EvictFromTreeCache(tree, free_pages, demand) :
          /\ tree' = DeleteNodes(tree, R)
          /\ Cardinality(Missing(B, lens)) > Cardinality(free_pages \cup PagesOf(tree, R))
    BY ZenonT(30) DEF Alloc
  <1>2. Shape(tree, Tokens, Pages) /\ Locks(tree, Holders, last_node) /\ Counts(Holders)
    BY Zenon, HoldersCounted DEF KVInv
  <1>3. Removable(tree, R)
    BY Zenon, <1>1, <1>2, EvictedAccount
  <1>4. PICK X, out, F : /\ X = {y \in Cached(tree) : Owner(tree, y) \in R} /\ out = PagesOf(tree, R)
                         /\ F = free_pages
    BY Zenon
  <1>5. IsFiniteSet(X) /\ IsFiniteSet(out) /\ Cardinality(out) = Cardinality(X)
    <2>1. IsFiniteSet(X)
      BY Zenon, <1>4, PartFinite DEF Account
    <2>2. \A x, y \in X : tree.value[x] = tree.value[y] => x = y
      BY Zenon, <1>4 DEF KVInv, Apart
    <2> QED
      BY Zenon, <1>4, <2>1, <2>2, ImageSize DEF Account, PagesOf
  <1>6. IsFiniteSet(F) /\ F \cap out = {}
    <2>1. F \subseteq Pages
      BY Zenon, <1>4 DEF KVInv, Apart
    <2>2. F \cap out = {}
      BY <1>4 DEF KVInv, Apart, PagesOf
    <2> QED
      BY ZenonT(30), <2>1, <2>2, PartFinite, KVAssumption DEF Account
  <1>7. Cardinality(F \cup out) = Cardinality(F) + Cardinality(X)
    BY ZenonT(30), <1>5, <1>6, UnionSize DEF Account
  <1>8. PICK a, b, c : a = Cardinality(F) /\ b = Cardinality(X) /\ c = Cardinality(Missing(B, lens))
    BY Zenon
  <1>9. a \in Nat /\ b \in Nat /\ c \in Nat /\ c > a + b
    <2>1. a \in Nat /\ b \in Nat
      BY Zenon, <1>5, <1>6, <1>8, SizeNat DEF Account
    <2> QED
      BY Zenon, <2>1, <1>1, <1>4, <1>7, <1>8
  <1>10. PageSize * a + PageSize * b < demand
    <2>1. PageSize * (a + b) = PageSize * a + PageSize * b /\ PageSize * (a + b) < PageSize * c
      BY <1>9, PageSizeAssumption
    <2>2. PageSize * c <= demand
      BY Zenon, <1>8
    <2>3. PageSize * c \in Nat /\ PageSize * a \in Nat /\ PageSize * b \in Nat
      BY <1>9, PageSizeAssumption
    <2> QED
      BY <2>1, <2>2, <2>3
  <1>11. AvailableSize(free_pages) = PageSize * a /\ SizeOf(tree, R) = PageSize * b
    BY Zenon, <1>4, <1>8 DEF AvailableSize, SizeOf
  <1>12. PageSize * a \in Nat /\ PageSize * b \in Nat
    BY <1>9, PageSizeAssumption
  <1>13. AvailableSize(free_pages) < demand
    BY <1>10, <1>11, <1>12
  <1>14. R \in Evictions(tree, demand - AvailableSize(free_pages))
    BY Zenon, <1>13 DEF EvictFromTreeCache
  <1>15. ~(SizeOf(tree, R) >= demand - AvailableSize(free_pages))
    BY <1>10, <1>11, <1>12
  <1>16. R = Evictable(tree)
    BY Zenon, <1>14, <1>15 DEF Evictions, Evictable
  <1>17. DeleteNodes(tree, R).evictable_size_ = 0
    BY Zenon, <1>2, <1>3, <1>16, EvictsAll
  <1> QED
    BY Zenon, <1>1, <1>17

(* alloc_for_decode asks for a page of every request, which is at least what the
   batch needs.                                                                *)
LEMMA DecodeNeed ==
  ASSUME KVInv, SetSizes, NEW B \in SUBSET Reqs, NEW lens, lens = [r \in B |-> kv_committed_len[r] + 1],
         \A r \in B : stage[r] \in {"extended", "decoding"}
  PROVE  /\ PageSize * Cardinality(B) \in Nat /\ Cardinality(Missing(B, lens)) \in Nat
         /\ PageSize * Cardinality(Missing(B, lens)) <= PageSize * Cardinality(B)
  <1>1. IsFiniteSet(B)
    BY Zenon, PartFinite, KVAssumption
  <1>2. PICK pre : pre = [r \in B |-> PrefixLen(r)]
    BY Zenon
  <1>3. \A r \in B : lens[r] \in Nat /\ lens[r] = pre[r] + 1
    <2>1. \A r \in B : kv_committed_len[r] \in Nat
      BY Zenon DEF KVInv
    <2>2. \A r \in B : PrefixLen(r) = kv_committed_len[r]
      BY Zenon DEF PrefixLen
    <2> QED
      BY <1>2, <2>1, <2>2
  <1>4. GrowPages(Missing(B, lens), B, pre, lens)
    BY Zenon, <1>2, <1>3, MissingPages
  <1>5. IsFiniteSet(Missing(B, lens)) /\ Cardinality(Missing(B, lens)) <= Cardinality(B)
    BY ZenonT(30), <1>1, <1>3, <1>4, DecodePages
  <1>6. Cardinality(Missing(B, lens)) \in Nat /\ Cardinality(B) \in Nat
    BY Zenon, <1>1, <1>5, SizeNat
  <1> QED
    BY Zenon, <1>5, <1>6, PageOrder

(* alloc_for_extend asks for the new tokens and, when pages are larger than a
   token, for one more page of every request, which is at least what the batch
   needs: the pages that the new tokens fill, and the last page of a request.  *)
LEMMA ExtendNeed ==
  ASSUME KVInv, SetSizes, NEW B \in SUBSET Reqs, NEW lens \in [B -> 1..MaxLen],
         \A r \in B : stage[r] \in {"admitted", "cached"}, NEW toks, NEW extra,
         toks = UNION {{r} \X ((PrefixLen(r) + 1)..lens[r]) : r \in B},
         extra = IF PageSize = 1 THEN 0 ELSE PageSize * Cardinality(B)
  PROVE  /\ Cardinality(toks) + extra \in Nat /\ Cardinality(Missing(B, lens)) \in Nat
         /\ PageSize * Cardinality(Missing(B, lens)) <= Cardinality(toks) + extra
  <1>1. IsFiniteSet(B) /\ MaxLen \in Nat
    BY Zenon, PartFinite, KVAssumption
  <1>2. PICK pre : pre = [r \in B |-> PrefixLen(r)]
    BY Zenon
  <1>3. \A r \in B : lens[r] \in Nat /\ lens[r] \in 0..MaxLen
    OBVIOUS
  <1>4. GrowPages(Missing(B, lens), B, pre, lens)
    BY Zenon, <1>2, <1>3, MissingPages
  <1>5. toks = UNION {{r} \X ((pre[r] + 1)..lens[r]) : r \in B}
    BY Zenon, <1>2
  <1> QED
    BY <1>1, <1>3, <1>4, <1>5, ExtendPages

(* A step after which out of memory is raised leaves nothing to evict.         *)
LEMMA FailedStep ==
  ASSUME KVInv, Account(tree), KVNext, oom'
  PROVE  tree'.evictable_size_ = 0
  <1>0. ~oom /\ SetSizes
    BY Zenon DEF KVNext, Account
  <1>1. ASSUME NEW B \in SUBSET Reqs, NEW lens \in [B -> 1..MaxLen], Extend(B, lens)
        PROVE  tree'.evictable_size_ = 0
    <2>1. PICK toks, extra :
            /\ toks = UNION {{r} \X ((PrefixLen(r) + 1)..lens[r]) : r \in B}
            /\ extra = IF PageSize = 1 THEN 0 ELSE PageSize * Cardinality(B)
      BY Zenon
    <2>2. /\ \A r \in B : stage[r] \in {"admitted", "cached"}
          /\ Alloc(B, lens, Cardinality(toks) + extra)
      BY Zenon, <1>1, <2>1 DEF Extend
    <2>3. /\ Cardinality(toks) + extra \in Nat /\ Cardinality(Missing(B, lens)) \in Nat
          /\ PageSize * Cardinality(Missing(B, lens)) <= Cardinality(toks) + extra
      BY Zenon, <1>0, <2>1, <2>2, ExtendNeed
    <2> QED
      BY Zenon, <1>0, <2>2, <2>3, FailedAlloc
  <1>2. ASSUME NEW B \in SUBSET Reqs, Decode(B) PROVE tree'.evictable_size_ = 0
    <2>1. PICK lens : lens = [r \in B |-> kv_committed_len[r] + 1]
      BY Zenon
    <2>2. /\ \A r \in B : stage[r] \in {"extended", "decoding"}
          /\ Alloc(B, lens, PageSize * Cardinality(B))
      BY Zenon, <1>2, <2>1 DEF Decode
    <2>3. /\ PageSize * Cardinality(B) \in Nat /\ Cardinality(Missing(B, lens)) \in Nat
          /\ PageSize * Cardinality(Missing(B, lens)) <= PageSize * Cardinality(B)
      BY Zenon, <1>0, <2>1, <2>2, DecodeNeed
    <2> QED
      BY Zenon, <1>0, <2>2, <2>3, FailedAlloc
  <1>3. ASSUME NEW r \in Reqs,
               Submit(r) \/ Abort(r) \/ Refuse(r) \/ Admit(r) \/ CacheUnfinished(r) \/ Finish(r)
        PROVE  oom' = oom
    BY ZenonT(30), <1>3 DEF Submit, Abort, Refuse, Admit, CacheUnfinished, Finish, ReleaseKVCache
  <1>4. ASSUME NEW num, CheckDecodeMem(num) PROVE oom' = oom
    BY Zenon, <1>4 DEF CheckDecodeMem
  <1>5. ASSUME NEW num, NEW r \in Reqs, Retract(r, num) PROVE oom' = oom
    BY Zenon, <1>5 DEF Retract, ReleaseKVCache
  <1>6. ASSUME FlushCache PROVE oom' = oom
    BY Zenon, <1>6 DEF FlushCache
  <1> QED
    BY ZenonT(30), <1>0, <1>1, <1>2, <1>3, <1>4, <1>5, <1>6 DEF KVNext

-----------------------------------------------------------------------------
(* What the library says of finite sets and numbers. *)

INSTANCE FiniteSetTheorems

(* A non-empty set of naturals has a least element.                         *)
LEMMA LeastNat ==
  ASSUME NEW T, T \subseteq Nat, T # {}
  PROVE  \E m \in T : \A y \in T : m <= y
  <1> DEFINE R == OpToRel(<, Nat)
  <1>1. IsWellFoundedOn(R, Nat)
    BY Zenon, NatLessThanWellFounded, Zenon
  <1> HIDE DEF R
  <1>2. PICK m \in T : \A y \in T : ~(<<y, m>> \in R)
    BY Zenon, <1>1, WFMin, Zenon
  <1>3. \A y \in T : ~(y < m)
    BY ZenonT(30), <1>2 DEF R, OpToRel
  <1> QED
    BY <1>3

(* A non-empty, bounded set of naturals has a greatest element.             *)
LEMMA GreatestNat ==
  ASSUME NEW n \in Nat, NEW T, T \subseteq 0..n, T # {}
  PROVE  \E m \in T : \A y \in T : y <= m
  <1> DEFINE U == {n - y : y \in T}
  <1>1. U \subseteq Nat /\ U # {}
    <2>1. PICK y \in T : TRUE
      BY Zenon
    <2>2. n - y \in U
      BY Zenon
    <2>3. \A z \in T : n - z \in Nat
      OBVIOUS
    <2> QED
      BY Zenon, <2>3
  <1>2. PICK u \in U : \A y \in U : u <= y
    BY ZenonT(30), <1>1, LeastNat
  <1>3. PICK m \in T : u = n - m
    BY Zenon
  <1>4. \A y \in T : n - m <= n - y
    BY ZenonT(30), <1>2, <1>3
  <1> QED
    BY <1>4

(* Numbers below a bound have a greatest one.                               *)
LEMMA GreatestAlways == GreatestExists
  BY Zenon, GreatestNat DEF GreatestExists

(* The subsets of a finite set are counted as Counts says.                  *)
LEMMA FiniteCounts ==
  ASSUME NEW Q, IsFiniteSet(Q)
  PROVE  Counts(Q)
  <1>1. Cardinality({}) = 0
    BY Zenon, FS_EmptySet
  <1>2. ASSUME NEW A \in SUBSET Q
        PROVE  Cardinality(A) \in Nat /\ \A r \in Q \ A : Cardinality(A \cup {r}) = Cardinality(A) + 1
    <2>1. IsFiniteSet(A)
      BY Zenon, FS_Subset
    <2> QED
      BY Zenon, <2>1, FS_CardinalityType, FS_AddElement
  <1> QED
    BY Zenon, <1>1, <1>2 DEF Counts

(* Finite sets have the sizes that SetSizes says.                           *)
LEMMA SetSizesAlways == SetSizes
  <1>1. IsFiniteSet({}) /\ Cardinality({}) = 0
    BY Zenon, FS_EmptySet
  <1>2. ASSUME NEW A, IsFiniteSet(A)
        PROVE  Cardinality(A) \in Nat /\ \A B \in SUBSET A : IsFiniteSet(B)
    BY Zenon, <1>2, FS_CardinalityType, FS_Subset
  <1>3. ASSUME NEW A, NEW B, IsFiniteSet(A), IsFiniteSet(B), A \cap B = {}
        PROVE  IsFiniteSet(A \cup B) /\ Cardinality(A \cup B) = Cardinality(A) + Cardinality(B)
    <2>1. /\ IsFiniteSet(A \cup B)
          /\ Cardinality(A \cup B) = Cardinality(A) + Cardinality(B) - Cardinality(A \cap B)
      BY Zenon, <1>3, FS_Union
    <2> QED
      BY <1>1, <1>2, <1>3, <2>1
  <1>4. ASSUME NEW a \in Nat, NEW b \in Nat, a <= b
        PROVE  IsFiniteSet((a + 1)..b) /\ Cardinality((a + 1)..b) = b - a
    <2>1. a + 1 \in Int /\ b \in Int
      OBVIOUS
    <2>2. /\ IsFiniteSet((a + 1)..b)
          /\ Cardinality((a + 1)..b) = IF a + 1 > b THEN 0 ELSE b - (a + 1) + 1
      BY Zenon, <2>1, FS_Interval
    <2> QED
      BY <1>4, <2>2
  <1>5. ASSUME NEW A, NEW B, IsFiniteSet(A), NEW f \in [A -> B],
               \A x, y \in A : f[x] = f[y] => x = y, \A z \in B : \E x \in A : f[x] = z
        PROVE  IsFiniteSet(B) /\ Cardinality(B) = Cardinality(A)
    <2>1. f \in Bijection(A, B)
      BY Zenon, <1>5 DEF Bijection, Injection, Surjection, IsInjective
    <2> QED
      BY Zenon, <1>5, <2>1, FS_Bijection DEF ExistsBijection
  <1>6. ASSUME NEW A, NEW B, IsFiniteSet(B), NEW f \in [A -> B], \A x, y \in A : f[x] = f[y] => x = y
        PROVE  IsFiniteSet(A) /\ Cardinality(A) <= Cardinality(B)
    <2>1. f \in Injection(A, B)
      BY Zenon, <1>6 DEF Injection, IsInjective
    <2> QED
      BY Zenon, <1>6, <2>1, FS_Injection
  <1>7. ASSUME NEW A, NEW B, IsFiniteSet(A), IsFiniteSet(B)
        PROVE  IsFiniteSet(A \X B) /\ Cardinality(A \X B) = Cardinality(A) * Cardinality(B)
    BY Zenon, <1>7, FS_Product
  <1> QED
    BY ZenonT(30), <1>1, <1>2, <1>3, <1>4, <1>5, <1>6, <1>7 DEF SetSizes

-----------------------------------------------------------------------------
(* The invariant. *)

(* KVInv holds in every reachable state.                                     *)
THEOREM KVInvariant == KVSpec => []KVInv
  <1>1. KVInit => KVInv
    <2>1. GreatestExists /\ Counts(Reqs)
      BY ZenonT(30), GreatestAlways, FiniteCounts, KVAssumption
    <2> QED
      BY Zenon, <2>1, InitInv
  <1>2. KVInv /\ [KVNext]_kvVars => KVInv'
    BY Zenon, NextInv, StutterInv
  <1> QED
    BY <1>1, <1>2, PTL DEF KVSpec

(* insert, the frees of cache_unfinished_req and cache_finished_req, evict and
   the allocator hand every page on exactly once: no page has two owners, and
   no page is freed twice.                                                   *)
THEOREM OneOwnerAlways == KVSpec => []OneOwner
  <1>1. KVInv => OneOwner
    <2> SUFFICES ASSUME KVInv PROVE OneOwner
      BY Zenon
    <2>1. Apart(tree, free_pages, Owned) /\ ~double_free
      BY Zenon DEF KVInv
    <2>2. \A r \in Reqs : Owned[r] = Own(r)
      BY Zenon DEF Owned, OwnPages, Own, OwnAt, ProtectedPages
    <2>3. ASSUME NEW r \in Reqs
          PROVE  \A i, j \in OwnAt(r) : req_to_token[r][i] = req_to_token[r][j] => i = j
      <3>1. ReqInv(tree, content, req_to_token[r], kv_committed_len[r], cache_protected_len[r],
                   last_node[r], extend_end[r], stage[r], ids[r])
        BY Zenon DEF KVInv
      <3> QED
        BY Zenon, <3>1 DEF ReqInv, OwnAt, ProtectedPages
    <2>4. \A r \in Reqs : Own(r) \cap (free_pages \cup TreePages) = {}
      BY <2>1, <2>2 DEF Apart, TreePages
    <2>5. free_pages \cap TreePages = {}
      BY <2>1 DEF Apart, TreePages
    <2>6. \A q, r \in Reqs : q # r => Own(q) \cap Own(r) = {}
      BY Zenon, <2>1, <2>2 DEF Apart
    <2>7. \A x, y \in Cached(tree) : tree.value[x] = tree.value[y] => x = y
      BY ZenonT(30), <2>1 DEF Apart
    <2> QED
      BY ZenonT(30), <2>1, <2>3, <2>4, <2>5, <2>6, <2>7 DEF OneOwner
  <1> QED
    BY <1>1, KVInvariant, PTL

(* The prefix that match_prefix lets requests share was computed for the same
   tokens, and while a request uses a page, evict does not free it and no
   other request writes to it.                                               *)
THEOREM ReadsOwnTokensAlways == KVSpec => []ReadsOwnTokens
  <1>1. KVInv => ReadsOwnTokens
    <2> SUFFICES ASSUME KVInv PROVE ReadsOwnTokens
      OBVIOUS
    <2>1. \A x \in Cached(tree) : content[tree.value[x]] = x
      BY Zenon DEF KVInv, Filled
    <2>2. ASSUME NEW r \in Reqs, HoldsKV(r), NEW i \in 1..NumPages(kv_committed_len[r])
          PROVE  content[req_to_token[r][i]] =
                   Key(ids[r], IF i * PageSize < kv_committed_len[r] THEN i * PageSize
                               ELSE kv_committed_len[r])
      <3>1. /\ Len(req_to_token[r]) = NumPages(kv_committed_len[r])
            /\ \A j \in 1..Len(req_to_token[r]) :
                 content[req_to_token[r][j]] = Key(ids[r], Fill(j, kv_committed_len[r]))
        BY Zenon, <2>2, HoldsProps
      <3>2. content[req_to_token[r][i]] = Key(ids[r], Fill(i, kv_committed_len[r]))
        BY Zenon, <3>1
      <3> QED
        BY Zenon, <3>2 DEF Fill
    <2> QED
      BY ZenonT(30), <2>1, <2>2 DEF ReadsOwnTokens
  <1> QED
    BY <1>1, KVInvariant, PTL

(* Every inc_lock_ref is matched by one dec_lock_ref on the same path, also
   when _split_node, insert and match_prefix have changed the nodes of that
   path in between.                                                          *)
THEOREM LocksExactAlways == KVSpec => []LocksExact
  <1>1. KVInv => LocksExact
    <2> SUFFICES ASSUME KVInv, NEW n \in Nodes(tree)
                 PROVE  tree.lock_ref[n] = Cardinality({r \in Reqs : Locking(r) /\ n \preceq last_node[r]})
      BY Zenon DEF LocksExact
    <2>1. tree.lock_ref[n] = Cardinality({r \in Holders : n \preceq last_node[r]})
      BY Zenon DEF KVInv, Locks
    <2>2. {r \in Holders : n \preceq last_node[r]} = {r \in Reqs : Locking(r) /\ n \preceq last_node[r]}
      BY Zenon DEF Holders
    <2> QED
      BY Zenon, <2>1, <2>2
  <1> QED
    BY <1>1, KVInvariant, PTL

-----------------------------------------------------------------------------
(* KVCache implements PagePool. *)

(* KVCache implements PagePool.                                                *)
THEOREM ImplementsPagePool == KVSpec => PoolSpec
  <1>1. KVInit => Pool!PoolInit
    BY Zenon, InitPool
  <1>2. KVInv /\ KVInv' /\ [KVNext]_kvVars => [Pool!PoolNext]_Pool!poolVars
    <2>1. ASSUME UNCHANGED kvVars PROVE UNCHANGED Pool!poolVars
      BY Zenon, <2>1 DEF kvVars, Pool!poolVars, Own, OwnAt, ProtectedPages, Locking
    <2> QED
      BY Zenon, <2>1, NextPool
  <1> QED
    BY <1>1, <1>2, KVInvariant, PTL DEF KVSpec, PoolSpec, Pool!PoolSpec

-----------------------------------------------------------------------------
(* The accounting of the tree. *)

(* The accounting holds in every reachable state.                            *)
LEMMA AccountAlways == KVSpec => []Account(tree)
  <1>1. KVInit => Account(tree)
    BY Zenon, EmptyAccount, SetSizesAlways DEF KVInit
  <1>2. KVInv /\ Account(tree) /\ [KVNext]_kvVars => Account(tree')
    BY Zenon, NextAccount DEF kvVars
  <1>3. Account(tree)' <=> Account(tree')
    BY Zenon
  <1> QED
    BY <1>1, <1>2, <1>3, KVInvariant, PTL DEF KVSpec

(* evictable_size_, protected_size_ and evictable_leaves, which insert, evict,
   inc_lock_ref, dec_lock_ref and _split_node adjust step by step, are in every
   reachable state what a walk over the tree would compute.                  *)
THEOREM AccountingExactAlways == KVSpec => []AccountingExact
  <1>1. KVInv /\ Account(tree) => AccountingExact
    <2> SUFFICES ASSUME KVInv, Account(tree) PROVE AccountingExact
      BY Zenon
    <2>1. Shape(tree, Tokens, Pages) /\ Locks(tree, Holders, last_node)
      BY Zenon DEF KVInv
    <2>2. \A n \in Nodes(tree) : tree.lock_ref[n] \in Nat
      BY ZenonT(30), <2>1, HoldersCounted, LockNat
    <2>3. \A x \in Cached(tree) : Owner(tree, x) \in Nodes(tree)
      BY Zenon, <2>1, OwnerProps DEF Owns
    <2>4. {x \in Cached(tree) : Owner(tree, x) \in {n \in Nodes(tree) : tree.lock_ref[n] = 0}}
            = Unlocked(tree)
      BY Zenon, <2>3 DEF Unlocked
    <2>5. {x \in Cached(tree) : Owner(tree, x) \in {n \in Nodes(tree) : tree.lock_ref[n] > 0}}
            = Locked(tree)
      <3>1. \A x \in Cached(tree) : tree.lock_ref[Owner(tree, x)] > 0 <=> tree.lock_ref[Owner(tree, x)] # 0
        BY <2>2, <2>3
      <3> QED
        BY Zenon, <2>3, <3>1 DEF Locked, Unlocked
    <2> QED
      BY Zenon, <2>4, <2>5 DEF AccountingExact, Account, SizeOf, Leaves
  <1> QED
    BY <1>1, AccountAlways, KVInvariant, PTL

-----------------------------------------------------------------------------
(* No page is lost. *)

(* No page is ever without a place.                                            *)
LEMMA CoveredAlways == KVSpec => []Covered
  <1>1. KVInit => Covered
    BY Zenon DEF KVInit, Covered
  <1>2. KVInv /\ KVInv' /\ [KVNext]_kvVars /\ Covered => Covered'
    BY Zenon, CoveredNext
  <1> QED
    BY <1>1, <1>2, KVInvariant, PTL DEF KVSpec

(* Free pages, the pages that the tree accounts for and those of requests add up
   to the pool: between steps no page of the allocator is lost, whatever is
   admitted, evicted, duplicated, retracted or released.                       *)
THEOREM NoPageLost == KVSpec => []NoLeak
  <1>1. KVInv /\ Account(tree) /\ Covered => NoLeak
    BY Zenon, PoolCount
  <1> QED
    BY <1>1, KVInvariant, AccountAlways, CoveredAlways, PTL

-----------------------------------------------------------------------------
(* Failing allocations. *)

(* An allocation fails only when the tree holds nothing that evict could free:
   whenever alloc_for_extend or alloc_for_decode raises its RuntimeError, the
   eviction that precedes it has emptied the unlocked part of the tree.       *)
THEOREM AllocFailsOnlyWhenFull == KVSpec => FailsOnlyWhenFull
  <1>1. KVInv /\ Account(tree) /\ [KVNext]_kvVars => [oom' => tree'.evictable_size_ = 0]_kvVars
    BY Zenon, FailedStep
  <1> QED
    BY <1>1, KVInvariant, AccountAlways, PTL DEF KVSpec, FailsOnlyWhenFull
=============================================================================
