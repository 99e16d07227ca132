--------------------------- MODULE KVCacheInserts ---------------------------
(***************************************************************************)
(* The operations by which a request hands pages to the tree and to the free *)
(* list keep KVInv, and every operation keeps the accounting of the tree.  *)
(***************************************************************************)
EXTENDS KVCacheInv

(* cache_unfinished_req: the request's pages go to the tree or, where the tree
   has a copy, to the free list, and its row and its lock move to the tree's. *)
LEMMA CacheUnfinishedInv ==
  ASSUME KVInv, NEW r \in Reqs, CacheUnfinished(r)
  PROVE  KVInv' /\ Settles(r) /\ Holders' = Holders /\ r \in Holders /\ last_node[r] \preceq last_node'[r]
  <1>1. PICK n, s, m, t, row, prot, com, tok, pages, left :
          /\ n = PageAligned(extend_end[r]) /\ s = Key(ids[r], n) /\ m = MatchLen(tree, s)
          /\ t = Insert(tree, s, req_to_token[r]) /\ row = req_to_token[r]
          /\ prot = cache_protected_len[r] /\ com = kv_committed_len[r] /\ tok = ids[r]
          /\ pages = {req_to_token[r][i] : i \in Duplicates(r, m)}
          /\ left = [Owned EXCEPT ![r] = OwnPages(req_to_token[r], n)]
    BY ZenonT(30)
  <1>2. /\ stage[r] \in {"chunked", "extended"} /\ HoldsKV(r)
        /\ FreeThenEvict(row, Duplicates(r, m),
                         IncLockRef(DecLockRef(MatchPrefix(t, s), last_node[r]), Matched(t, s)), 0)
        /\ req_to_token' = [req_to_token EXCEPT ![r] = Rewritten(r, t, Matched(t, s))]
        /\ cache_protected_len' = [cache_protected_len EXCEPT ![r] = Len(Matched(t, s))]
        /\ last_node' = [last_node EXCEPT ![r] = Matched(t, s)]
        /\ stage' = [stage EXCEPT ![r] = IF @ = "chunked" THEN "cached" ELSE "decoding"]
        /\ UNCHANGED <<kv_committed_len, extend_end, ids>>
    BY ZenonT(30), <1>1 DEF CacheUnfinished, HoldsKV
  <1>3. /\ row \in Seq(Pages) /\ com \in Nat /\ tok \in Seq(Tokens) /\ prot \in Nat
        /\ extend_end[r] \in Nat /\ Len(row) = NumPages(com) /\ prot % PageSize = 0
        /\ prot <= extend_end[r] /\ extend_end[r] <= com /\ com <= Len(tok)
        /\ \A i \in 1..Len(row) : content[row[i]] = Key(tok, Fill(i, com))
        /\ \A i \in 1..(prot \div PageSize) :
             Key(tok, i * PageSize) \in Cached(tree) /\ row[i] = tree.value[Key(tok, i * PageSize)]
        /\ \A i, j \in (prot \div PageSize + 1)..Len(row) : row[i] = row[j] => i = j
        /\ r \in Holders
    BY <1>1, <1>2, HoldsProps DEF OwnAt, ProtectedPages
  <1>4. /\ n \in Nat /\ n % PageSize = 0 /\ prot <= n /\ n <= extend_end[r] /\ n <= com
    BY SMTT(30), <1>1, <1>3, AlignedProps, AlignedBound
  <1>5. Inserts(r, n, s, m, t, pages, left)
    BY Zenon, <1>1, <1>2, <1>4 DEF Inserts
  <1>6. /\ Shape(t, Tokens, Pages) /\ Locks(t, Holders, last_node)
        /\ s \in Seq(Tokens) /\ Len(s) = n /\ s \in Nodes(t) \cup {root}
        /\ Cached(tree) \subseteq Cached(t) /\ \A y \in Cached(tree) : t.value[y] = tree.value[y]
        /\ Apart(t, free_pages \cup pages, left) /\ Filled(t, content)
        /\ pages \subseteq Pages /\ pages \cap free_pages = {}
        /\ m \in Nat /\ m % PageSize = 0 /\ prot <= m /\ m <= n
        /\ Owned[r] = pages \cup left[r] \cup {t.value[y] : y \in Cached(t) \ Cached(tree)}
    <2>1. Inserted(r, n, s, m, t, pages, left)
      BY Zenon, <1>5, InsertStep
    <2> QED
      BY Zenon, <2>1, <1>1 DEF Inserted
  <1>7. Matched(t, s) = s /\ MatchPrefix(t, s) = t
    BY Zenon, <1>6, MatchedNode
  <1>8. PICK d : d = DecLockRef(t, last_node[r])
    BY Zenon
  <1>9. /\ Shape(d, Tokens, Pages) /\ d.value = t.value /\ Nodes(d) = Nodes(t)
        /\ Locks(d, Holders \ {r}, last_node)
    <2>1. Unlocker(t, Tokens, Pages, Holders, last_node, r)
      BY Zenon, <1>3, <1>6, HoldersCounted DEF Unlocker
    <2>2. LET u == DecLockRef(t, last_node[r]) IN
          /\ Shape(u, Tokens, Pages) /\ u.value = t.value /\ Nodes(u) = Nodes(t)
          /\ Locks(u, Holders \ {r}, last_node)
      BY Zenon, <2>1, DecLocks
    <2> QED
      BY Zenon, <2>2, <1>8
  <1>10. PICK w, new : w = IncLockRef(d, s) /\ new = last_node'
    BY Zenon
  <1>11. new[r] = s /\ \A q \in Reqs \ {r} : new[q] = last_node[q]
    BY Zenon, <1>2, <1>7, <1>10 DEF KVInv
  <1>12. /\ Shape(w, Tokens, Pages) /\ w.value = d.value /\ Nodes(w) = Nodes(d)
         /\ Locks(w, (Holders \ {r}) \cup {r}, new)
    <2>1. Counts((Holders \ {r}) \cup {r}) /\ Holders \subseteq Reqs
      <3>1. (Holders \ {r}) \cup {r} = Holders
        BY Zenon, <1>3
      <3> QED
        BY Zenon, HoldersCounted DEF Holders
    <2>2. Locker(d, Tokens, Pages, Holders \ {r}, last_node, r, s, new)
      BY Zenon, <2>1, <1>6, <1>9, <1>11 DEF Locker
    <2>3. LET u == IncLockRef(d, s) IN
          /\ Shape(u, Tokens, Pages) /\ u.value = d.value /\ Nodes(u) = Nodes(d)
          /\ Locks(u, (Holders \ {r}) \cup {r}, new)
      BY Zenon, <2>2, IncLocks
    <2> QED
      BY Zenon, <2>3, <1>10
  <1>13. (Holders \ {r}) \cup {r} = Holders
    BY <1>3
  <1>14. w.value = t.value /\ Cached(w) = Cached(t)
    BY Zenon, <1>9, <1>12 DEF Cached
  <1>15. Frees(w, Holders, new, row, Duplicates(r, m), 0, pages, left)
    <2>1. Apart(w, free_pages \cup pages, left) /\ Filled(w, content)
      BY Zenon, <1>6, <1>14 DEF Apart, Filled
    <2>2. \A i, j \in Duplicates(r, m) : row[i] = row[j] => i = j
      <3>1. m \div PageSize <= Len(row)
        BY SMTT(30), <1>3, <1>4, <1>6, PageCount, PageRange
      <3>2. Duplicates(r, m) \subseteq (prot \div PageSize + 1)..Len(row)
        <4>1. Duplicates(r, m) = (prot \div PageSize + 1)..(m \div PageSize)
          BY Zenon, <1>1 DEF Duplicates, ProtectedPages
        <4>2. prot \div PageSize \in Nat /\ m \div PageSize \in Nat
          BY Zenon, <1>3, <1>6, DivPage
        <4> QED
          BY SMTT(30), <4>1, <4>2, <3>1, <1>3
      <3> QED
        BY Zenon, <3>2, <1>3
    <2>3. FreeThenEvict(row, Duplicates(r, m), w, 0)
      BY Zenon, <1>2, <1>7, <1>8, <1>10
    <2>4. ~double_free
      BY Zenon DEF KVInv
    <2>5. Shape(w, Tokens, Pages) /\ Locks(w, Holders, new) /\ pages = {row[i] : i \in Duplicates(r, m)}
      BY Zenon, <1>1, <1>12, <1>13
    <2> QED
      BY Zenon, <2>1, <2>2, <2>3, <2>4, <2>5, <1>6, HoldersCounted DEF Frees
  <1>16. /\ Shape(tree', Tokens, Pages) /\ Locks(tree', Holders, new)
         /\ Apart(tree', free_pages', left) /\ Filled(tree', content') /\ ~double_free'
         /\ Safe(w, Holders, new, left)
         /\ EndsEvicting(w, free_pages \cup pages)
    BY Zenon, <1>15, FreeStep
  <1>17. PICK row2 : row2 = Rewritten(r, t, s)
    BY Zenon
  <1>18. /\ req_to_token' = [req_to_token EXCEPT ![r] = row2]
         /\ cache_protected_len' = [cache_protected_len EXCEPT ![r] = n]
         /\ last_node' = [last_node EXCEPT ![r] = s]
    BY ZenonT(30), <1>2, <1>6, <1>7, <1>17
  <1>19. /\ n \div PageSize \in Nat /\ prot \div PageSize \in Nat
         /\ prot \div PageSize <= n \div PageSize /\ n \div PageSize <= Len(row)
         /\ \A i \in 1..(n \div PageSize) :
              i * PageSize \in 1..n /\ (i * PageSize) % PageSize = 0 /\ Fill(i, com) = i * PageSize
    BY SMTT(30), <1>3, <1>4, PageCount, PageRange
  <1>20. ASSUME NEW i \in 1..(n \div PageSize)
         PROVE  /\ Key(s, i * PageSize) = Key(tok, i * PageSize)
                /\ Key(s, i * PageSize) \in Cached(t) /\ Key(s, i * PageSize) \preceq s
    <2>1. i * PageSize \in 1..n /\ (i * PageSize) % PageSize = 0
      BY Zenon, <1>19
    <2>2. s \in Cached(t)
      BY SMTT(30), <2>1, <1>6 DEF Shape, root
    <2>3. Key(s, i * PageSize) \in Cached(t)
      BY Zenon, <2>1, <2>2, <1>6 DEF Shape
    <2>4. Key(s, i * PageSize) = Key(tok, i * PageSize) /\ Key(s, i * PageSize) \preceq s
      BY SMTT(30), <2>1, <1>1, <1>3, <1>4, <1>6, PrefixKey
    <2> QED
      BY Zenon, <2>3, <2>4
  <1>21. /\ row2 \in Seq(Pages) /\ Len(row2) = Len(row)
         /\ \A i \in 1..(n \div PageSize) : row2[i] = t.value[Key(s, i * PageSize)]
         /\ \A i \in (n \div PageSize + 1)..Len(row) : row2[i] = row[i]
    <2>1. row2 = [i \in 1..Len(row) |->
                    IF i \in (prot \div PageSize + 1)..(n \div PageSize)
                    THEN t.value[Key(s, i * PageSize)] ELSE row[i]]
      <3>1. row = req_to_token[r] /\ prot = cache_protected_len[r] /\ DOMAIN row = 1..Len(row) /\ Len(s) = n
        BY SMTT(30), <1>1, <1>3, <1>6
      <3>2. Duplicates(r, Len(s)) = (prot \div PageSize + 1)..(n \div PageSize)
        BY Zenon, <3>1 DEF Duplicates, ProtectedPages
      <3> QED
        BY Zenon, <3>1, <3>2, <1>17 DEF Rewritten
    <2>2. ASSUME NEW i \in 1..(n \div PageSize)
          PROVE  row2[i] = t.value[Key(s, i * PageSize)] /\ row2[i] \in Pages
      <3>1. i \in 1..Len(row)
        BY SMTT(30), <1>19
      <3>2. CASE i <= prot \div PageSize
        <4>1. i \in 1..(prot \div PageSize) /\ i \notin (prot \div PageSize + 1)..(n \div PageSize)
          BY SMTT(30), <3>2, <1>19
        <4>2. row2[i] = row[i] /\ row[i] = tree.value[Key(tok, i * PageSize)]
          BY Zenon, <4>1, <3>1, <2>1, <1>3
        <4>3. t.value[Key(tok, i * PageSize)] = tree.value[Key(tok, i * PageSize)]
          BY Zenon, <4>1, <1>3, <1>6
        <4> QED
          BY SMTT(30), <4>2, <4>3, <3>1, <1>3, <1>20
      <3>3. CASE i > prot \div PageSize
        <4>1. i \in (prot \div PageSize + 1)..(n \div PageSize)
          BY <3>3, <1>19
        <4>2. row2[i] = t.value[Key(s, i * PageSize)]
          BY Zenon, <4>1, <3>1, <2>1
        <4> QED
          BY Zenon, <4>2, <1>6, <1>20 DEF Shape
      <3> QED
        BY <3>2, <3>3, <1>19
    <2>3. ASSUME NEW i \in (n \div PageSize + 1)..Len(row)
          PROVE  row2[i] = row[i] /\ row2[i] \in Pages
      <3>1. i \in 1..Len(row) /\ i \notin (prot \div PageSize + 1)..(n \div PageSize)
        BY <1>19
      <3> QED
        BY SMTT(30), <3>1, <2>1, <1>3
    <2>4. \A i \in 1..Len(row) : row2[i] \in Pages
      BY SMTT(30), <2>2, <2>3, <1>3, <1>19
    <2>5. row2 \in Seq(Pages) /\ Len(row2) = Len(row)
      BY SMTT(30), <2>1, <2>4, <1>3
    <2> QED
      BY Zenon, <2>2, <2>3, <2>5
  <1>22. ASSUME NEW i \in 1..(n \div PageSize)
         PROVE  /\ Key(tok, i * PageSize) \in Cached(tree') /\ Key(tok, i * PageSize) \preceq s
                /\ row2[i] = tree'.value[Key(tok, i * PageSize)]
    <2>1. /\ Key(s, i * PageSize) \in Cached(w) /\ Key(s, i * PageSize) \preceq new[r] /\ r \in Holders
      BY Zenon, <1>3, <1>11, <1>14, <1>20
    <2>2. /\ Key(s, i * PageSize) \in Cached(tree')
          /\ tree'.value[Key(s, i * PageSize)] = w.value[Key(s, i * PageSize)]
      BY Zenon, <2>1, <1>16 DEF Safe
    <2> QED
      BY Zenon, <2>2, <1>14, <1>20, <1>21
  <1>23. ASSUME NEW i \in 1..Len(row2) PROVE content'[row2[i]] = Key(tok, Fill(i, com))
    <2>1. CASE i <= n \div PageSize
      <3>1. i \in 1..(n \div PageSize)
        BY SMTT(30), <2>1, <1>19
      <3>2. content'[row2[i]] = Key(tok, i * PageSize)
        BY Zenon, <3>1, <1>16, <1>22 DEF Filled
      <3> QED
        BY Zenon, <3>1, <3>2, <1>19
    <2>2. CASE i > n \div PageSize
      <3>1. i \in (n \div PageSize + 1)..Len(row) /\ i \in 1..Len(row)
        BY SMTT(30), <2>2, <1>3, <1>19, <1>21
      <3>2. row[i] \in left[r] /\ row[i] \in Pages
        BY SMTT(30), <3>1, <1>1, <1>3 DEF OwnPages, Owned
      <3>3. content'[row[i]] = content[row[i]]
        BY Zenon, <3>2, <1>16 DEF Safe
      <3> QED
        BY Zenon, <3>1, <3>3, <1>3, <1>21
    <2> QED
      BY SMTT(30), <2>1, <2>2, <1>19
  <1>24. PICK st : st \in {"cached", "decoding"} /\ stage' = [stage EXCEPT ![r] = st]
                   /\ (st = "decoding" => stage[r] = "extended")
    <2>1. stage \in [Reqs -> Stages]
      BY Zenon DEF KVInv
    <2>2. CASE stage[r] = "chunked"
      <3>1. stage' = [stage EXCEPT ![r] = "cached"]
        BY Zenon, <2>2, <1>2
      <3>2. "cached" \in {"cached", "decoding"} /\ ("cached" = "decoding" => stage[r] = "extended")
        BY Zenon
      <3> QED
        BY Zenon, <3>1, <3>2
    <2>3. CASE stage[r] = "extended"
      <3>1. stage' = [stage EXCEPT ![r] = "decoding"]
        BY Zenon, <2>3, <1>2
      <3> QED
        BY ZenonT(30), <3>1, <2>3
    <2> QED
      BY Zenon, <2>2, <2>3, <1>2
  <1>25. ReqInv(tree', content', row2, com, n, s, extend_end[r], st, tok)
    <2>1. n \div PageSize <= Len(row2) /\ n <= Len(tok) /\ Len(row2) = NumPages(com)
      BY SMTT(30), <1>3, <1>4, <1>19, <1>21
    <2>2. \A i, j \in (n \div PageSize + 1)..Len(row2) : row2[i] = row2[j] => i = j
      <3>1. \A i \in (n \div PageSize + 1)..Len(row2) :
              row2[i] = row[i] /\ i \in (prot \div PageSize + 1)..Len(row)
        BY SMTT(30), <1>3, <1>19, <1>21
      <3> QED
        BY SMTT(30), <3>1, <1>3
    <2>3. st = "decoding" => com < Len(tok)
      <3>1. ReqInv(tree, content, row, com, prot, last_node[r], extend_end[r], stage[r], tok)
        BY Zenon, <1>1 DEF KVInv
      <3> QED
        BY Zenon, <3>1, <1>24 DEF ReqInv
    <2>4. s = Key(tok, n) /\ st \in Stages /\ row2 \in Seq(Pages)
      BY Zenon, <1>1, <1>21, <1>24 DEF Stages
    <2> QED
      BY Zenon, <2>1, <2>2, <2>3, <2>4, <1>3, <1>4, <1>22, <1>23, <1>24 DEF ReqInv
  <1>26. \A q \in Reqs : q # r => left[q] = Owned[q]
    BY Zenon, <1>1 DEF Owned
  <1>27. ASSUME NEW q \in Reqs, q # r PROVE Undisturbed(q, tree', content')
    <2>1. \A p \in Owned[q] : p \in Pages => content'[p] = content[p]
      BY Zenon, <1>16, <1>26, <1>27 DEF Safe
    <2>2. ASSUME q \in Holders, NEW y \in Cached(tree), y \preceq last_node[q]
          PROVE  /\ y \in Cached(tree') /\ tree'.value[y] = tree.value[y]
                 /\ content'[tree.value[y]] = content[tree.value[y]]
      <3>1. y \in Cached(w) /\ w.value[y] = tree.value[y] /\ y \preceq new[q]
        BY Zenon, <2>2, <1>6, <1>11, <1>14, <1>27
      <3> QED
        BY SMTT(30), <3>1, <2>2, <1>16 DEF Safe
    <2> QED
      BY Zenon, <2>1, <2>2 DEF Undisturbed
  <1>28. ASSUME NEW q \in Reqs
         PROVE  ReqInv(tree', content', req_to_token'[q], kv_committed_len'[q], cache_protected_len'[q],
                       last_node'[q], extend_end'[q], stage'[q], ids'[q])
    <2>1. CASE q = r
      BY ZenonT(30), <2>1, <1>1, <1>2, <1>18, <1>24, <1>25 DEF KVInv
    <2>2. CASE q # r
      <3>1. ReqInv(tree', content', req_to_token[q], kv_committed_len[q], cache_protected_len[q],
                   last_node[q], extend_end[q], stage[q], ids[q])
        BY Zenon, <2>2, <1>27, Others
      <3> QED
        BY ZenonT(30), <2>2, <3>1, <1>2, <1>18, <1>24 DEF KVInv
    <2> QED
      BY Zenon, <2>1, <2>2
  <1>29. Holders' = Holders /\ Locks(tree', Holders', last_node')
    <2>1. Holders' = Holders
      BY Zenon, <1>3, <1>24 DEF Holders, Locking, KVInv
    <2> QED
      BY Zenon, <2>1, <1>10, <1>16
  <1>30. \A q \in Reqs : Owned'[q] = left[q]
    <2>1. OwnPages(row2, n) = OwnPages(row, n)
      BY Zenon, <1>21 DEF OwnPages
    <2>2. Owned'[r] = left[r]
      BY Zenon, <2>1, <1>1, <1>18 DEF Owned, KVInv
    <2>3. \A q \in Reqs : q # r => Owned'[q] = Owned[q]
      BY Zenon, <1>18 DEF Owned, KVInv
    <2> QED
      BY Zenon, <2>2, <2>3, <1>26
  <1>31. Apart(tree', free_pages', Owned')
    BY Zenon, <1>16, <1>30 DEF Apart
  <1>32. /\ req_to_token' \in [Reqs -> Seq(Pages)] /\ last_node' \in [Reqs -> Seq(Tokens)]
         /\ cache_protected_len' \in [Reqs -> Nat] /\ stage' \in [Reqs -> Stages]
    BY ZenonT(30), <1>4, <1>6, <1>18, <1>21, <1>24 DEF KVInv, Stages
  <1>33. KVInv'
    BY ZenonT(30), <1>2, <1>16, <1>28, <1>29, <1>31, <1>32 DEF KVInv
  <1>34. last_node[r] \preceq last_node'[r]
    <2>1. last_node[r] = Key(tok, prot) /\ s = Key(tok, n) /\ last_node'[r] = s
      BY ZenonT(30), <1>1, <1>10, <1>11, <1>2, HoldsProps DEF HoldsKV, KVInv, ReqInv
    <2>2. n \in 0..Len(tok) /\ prot \in 0..n
      BY <1>3, <1>4
    <2> QED
      <3>1. Key(tok, prot) \preceq Key(tok, n)
        BY Zenon, <2>2, <1>3, PrefixKey
      <3> QED
        BY Zenon, <3>1, <2>1
  <1>35. Settles(r)
    <2>2. Cached(tree) \subseteq Cached(w) /\ \A y \in Cached(tree) : w.value[y] = tree.value[y]
      BY Zenon, <1>6, <1>14
    <2>3. Owned[r] = pages \cup Owned'[r] \cup {w.value[y] : y \in Cached(w) \ Cached(tree)}
      BY ZenonT(30), <1>6, <1>14, <1>30
    <2>4. Apart(w, free_pages \cup pages, Owned')
      BY Zenon, <1>6, <1>14, <1>30 DEF Apart
    <2>5. \A q \in Reqs : q # r => Owned'[q] = Owned[q]
      BY Zenon, <1>26, <1>30
    <2> QED
      BY ZenonT(30), <1>16, <2>2, <2>3, <2>4, <2>5 DEF Settles
  <1> QED
    BY Zenon, <1>3, <1>29, <1>33, <1>34, <1>35

-----------------------------------------------------------------------------
(* A finished request leaves the tree t, to which cache_finished_req has added
   what it inserts, and gives up all its pages.                             *)
LEMMA FinishedStep ==
  ASSUME KVInv, NEW r \in Reqs, HoldsKV(r), NEW is_insert \in BOOLEAN
  PROVE  \E t, pages, left :
           /\ FinishedTree(r, is_insert) = DecLockRef(t, last_node[r])
           /\ Shape(t, Tokens, Pages) /\ Locks(t, Holders, last_node) /\ Filled(t, content)
           /\ Cached(tree) \subseteq Cached(t) /\ \A y \in Cached(tree) : t.value[y] = tree.value[y]
           /\ pages = {req_to_token[r][i] : i \in Freed(r, is_insert)}
           /\ pages \subseteq Pages /\ pages \cap free_pages = {}
           /\ left = [Owned EXCEPT ![r] = {}] /\ Apart(t, free_pages \cup pages, left)
           /\ Freed(r, is_insert) \subseteq OwnAt(r)
           /\ Owned[r] = pages \cup {t.value[y] : y \in Cached(t) \ Cached(tree)}
  <1>1. PICK n, s, row, prot, com, tok, left :
          /\ n = PageAligned(kv_committed_len[r]) /\ s = Key(ids[r], n) /\ row = req_to_token[r]
          /\ prot = cache_protected_len[r] /\ com = kv_committed_len[r] /\ tok = ids[r]
          /\ left = [Owned EXCEPT ![r] = {}]
    BY ZenonT(30)
  <1>2. /\ row \in Seq(Pages) /\ com \in Nat /\ tok \in Seq(Tokens) /\ prot \in Nat
        /\ Len(row) = NumPages(com) /\ prot % PageSize = 0 /\ prot <= com /\ com <= Len(tok)
    BY SMTT(30), <1>1, HoldsProps
  <1>3. /\ n \in Nat /\ n % PageSize = 0 /\ prot <= n /\ n <= com /\ n \div PageSize = com \div PageSize
    BY <1>1, <1>2, AlignedProps, AlignedBound
  <1>4. Len(s) = n
    BY <1>1, <1>2, <1>3, KeyProps
  <1>5. /\ Shape(tree, Tokens, Pages) /\ Locks(tree, Holders, last_node)
        /\ Apart(tree, free_pages, Owned) /\ Filled(tree, content)
    BY Zenon DEF KVInv
  <1>6. /\ n \div PageSize \in Nat /\ prot \div PageSize \in Nat
        /\ prot \div PageSize <= n \div PageSize /\ n \div PageSize <= Len(row)
    BY SMTT(30), <1>2, <1>3, PageCount, PageRange
  <1>7. /\ Owned[r] = {row[i] : i \in (prot \div PageSize + 1)..Len(row)}
        /\ left[r] = {} /\ \A q \in Reqs : q # r => left[q] = Owned[q]
        /\ OwnAt(r) = (prot \div PageSize + 1)..Len(row)
        /\ UnalignedTail(r) = (n \div PageSize + 1)..Len(row)
    BY Zenon, <1>1, <1>3 DEF Owned, OwnPages, OwnAt, ProtectedPages, UnalignedTail
  <1>8. Owned[r] \subseteq Pages
    BY <1>2, <1>6, <1>7
  <1>9. CASE is_insert = FALSE
    <2>1. Freed(r, is_insert) = OwnAt(r)
      <3>1. Freed(r, is_insert) =
              ((prot \div PageSize + 1)..(n \div PageSize)) \cup ((n \div PageSize + 1)..Len(row))
        BY Zenon, <1>1, <1>4, <1>7, <1>9 DEF Freed, Duplicates, ProtectedPages
      <3> QED
        BY <3>1, <1>2, <1>6, <1>7
    <2>2. FinishedTree(r, is_insert) = DecLockRef(tree, last_node[r])
      BY Zenon, <1>9 DEF FinishedTree
    <2>3. {req_to_token[r][i] : i \in Freed(r, is_insert)} = Owned[r]
      BY <2>1, <1>1, <1>7
    <2>4. Apart(tree, free_pages \cup Owned[r], left) /\ Owned[r] \cap free_pages = {}
      BY Zenon, <1>5, <1>7, <1>8 DEF Apart
    <2>5. Owned[r] = Owned[r] \cup {tree.value[y] : y \in Cached(tree) \ Cached(tree)}
      BY Zenon
    <2>6. /\ Cached(tree) \subseteq Cached(tree) /\ Freed(r, is_insert) \subseteq OwnAt(r)
          /\ Owned[r] = {req_to_token[r][i] : i \in Freed(r, is_insert)}
      BY Zenon, <2>1, <2>3
    <2> WITNESS tree, Owned[r], left
    <2> QED
      BY Zenon, <2>2, <2>4, <2>5, <2>6, <1>1, <1>5, <1>8
  <1>10. CASE is_insert = TRUE
    <2>1. PICK m, t, pages, kept :
            /\ m = MatchLen(tree, s) /\ t = Insert(tree, s, req_to_token[r])
            /\ pages = {req_to_token[r][i] : i \in Duplicates(r, m)}
            /\ kept = [Owned EXCEPT ![r] = OwnPages(req_to_token[r], n)]
      BY ZenonT(30)
    <2>2. Inserts(r, n, s, m, t, pages, kept)
      BY Zenon, <2>1, <1>1, <1>3 DEF Inserts
    <2>3. Inserted(r, n, s, m, t, pages, kept)
      BY Zenon, <2>2, InsertStep
    <2>4. /\ Shape(t, Tokens, Pages) /\ Locks(t, Holders, last_node) /\ Filled(t, content)
          /\ Cached(tree) \subseteq Cached(t) /\ \A y \in Cached(tree) : t.value[y] = tree.value[y]
          /\ Apart(t, free_pages \cup pages, kept)
          /\ pages \subseteq Pages /\ pages \cap free_pages = {}
          /\ m \in Nat /\ m % PageSize = 0 /\ prot <= m /\ m <= n
          /\ Owned[r] = pages \cup kept[r] \cup {t.value[y] : y \in Cached(t) \ Cached(tree)}
      BY ZenonT(30), <2>3, <1>1 DEF Inserted
    <2>5. /\ kept[r] = {row[i] : i \in (n \div PageSize + 1)..Len(row)}
          /\ \A q \in Reqs : q # r => kept[q] = Owned[q]
      BY Zenon, <2>1, <1>1 DEF OwnPages, Owned
    <2>6. PICK all : all = pages \cup kept[r]
      BY ZenonT(30)
    <2>7. Freed(r, is_insert) = Duplicates(r, m) \cup UnalignedTail(r)
      BY Zenon, <2>1, <1>1, <1>10 DEF Freed
    <2>8. all = {req_to_token[r][i] : i \in Freed(r, is_insert)}
      <3>1. pages = {row[i] : i \in Duplicates(r, m)} /\ kept[r] = {row[i] : i \in UnalignedTail(r)}
        BY SMTT(30), <2>1, <2>5, <1>1, <1>7
      <3> QED
        BY ZenonT(30), <3>1, <2>6, <2>7, <1>1
    <2>9. Freed(r, is_insert) \subseteq OwnAt(r)
      <3>1. m \div PageSize \in Nat /\ m \div PageSize <= n \div PageSize
        BY Zenon, <2>4, <1>3, PageRange
      <3>2. Duplicates(r, m) = (prot \div PageSize + 1)..(m \div PageSize)
        BY Zenon, <1>1 DEF Duplicates, ProtectedPages
      <3> QED
        BY SMTT(30), <3>1, <3>2, <2>7, <1>2, <1>6, <1>7
    <2>10. FinishedTree(r, is_insert) = DecLockRef(t, last_node[r])
      BY ZenonT(30), <2>1, <1>1, <1>10 DEF FinishedTree
    <2>11. kept[r] \subseteq Pages /\ kept[r] \subseteq kept[r]
      BY <2>5, <1>2, <1>6
    <2>12. Apart(t, free_pages \cup all, left) /\ all \cap free_pages = {} /\ all \subseteq Pages
      <3>1. kept[r] \cap (free_pages \cup pages) = {}
        BY Zenon, <2>4 DEF Apart
      <3>2. (free_pages \cup pages) \cup kept[r] = free_pages \cup all
        BY Zenon, <2>6
      <3>3. Apart(t, (free_pages \cup pages) \cup kept[r], left)
        BY SMTT(30), <2>4, <2>5, <2>11, <3>1, <1>7 DEF Apart
      <3> QED
        BY ZenonT(30), <3>1, <3>2, <3>3, <2>4, <2>6, <2>11
    <2>13. Owned[r] = all \cup {t.value[y] : y \in Cached(t) \ Cached(tree)}
      BY Zenon, <2>4, <2>6
    <2> QED
      BY ZenonT(30), <2>4, <2>8, <2>9, <2>10, <2>12, <2>13, <1>1
  <1> QED
    BY ZenonT(30), <1>9, <1>10

(* release_kv_cache and an eviction: the pages of the request go to the free
   list or to the tree, its lock is released, the others are not disturbed.  *)
LEMMA ReleaseStep ==
  ASSUME KVInv, NEW r \in Reqs, NEW is_insert \in BOOLEAN, NEW num,
         ReleaseKVCache(r, is_insert, num)
  PROVE  /\ Shape(tree', Tokens, Pages) /\ Locks(tree', Holders \ {r}, last_node')
         /\ Apart(tree', free_pages', [Owned EXCEPT ![r] = {}]) /\ Filled(tree', content')
         /\ ~double_free' /\ \A q \in Reqs : q # r => Undisturbed(q, tree', content')
         /\ r \in Holders
         /\ \E t, pages :
              /\ Cached(tree) \subseteq Cached(t) /\ \A x \in Cached(tree) : t.value[x] = tree.value[x]
              /\ EndsEvicting(t, free_pages \cup pages)
              /\ Owned[r] = pages \cup {t.value[x] : x \in Cached(t) \ Cached(tree)}
              /\ Apart(t, free_pages \cup pages, [Owned EXCEPT ![r] = {}])
  <1>1. /\ HoldsKV(r) /\ last_node' = [last_node EXCEPT ![r] = root]
        /\ FreeThenEvict(req_to_token[r], Freed(r, is_insert), FinishedTree(r, is_insert), num)
    BY Zenon DEF ReleaseKVCache
  <1>2. PICK t, pages, left :
          /\ FinishedTree(r, is_insert) = DecLockRef(t, last_node[r])
          /\ Shape(t, Tokens, Pages) /\ Locks(t, Holders, last_node) /\ Filled(t, content)
          /\ Cached(tree) \subseteq Cached(t) /\ \A y \in Cached(tree) : t.value[y] = tree.value[y]
          /\ pages = {req_to_token[r][i] : i \in Freed(r, is_insert)}
          /\ pages \subseteq Pages /\ pages \cap free_pages = {}
          /\ left = [Owned EXCEPT ![r] = {}] /\ Apart(t, free_pages \cup pages, left)
          /\ Freed(r, is_insert) \subseteq OwnAt(r)
          /\ Owned[r] = pages \cup {t.value[y] : y \in Cached(t) \ Cached(tree)}
    BY ZenonT(30), <1>1, FinishedStep
  <1>3. PICK d : d = DecLockRef(t, last_node[r])
    BY Zenon
  <1>4. r \in Holders /\ \A i, j \in OwnAt(r) : req_to_token[r][i] = req_to_token[r][j] => i = j
    BY Zenon, <1>1, HoldsProps
  <1>5. /\ Shape(d, Tokens, Pages) /\ d.value = t.value /\ Nodes(d) = Nodes(t)
        /\ Locks(d, Holders \ {r}, last_node)
    <2>1. Unlocker(t, Tokens, Pages, Holders, last_node, r)
      BY Zenon, <1>2, <1>4, HoldersCounted DEF Unlocker
    <2>2. LET u == DecLockRef(t, last_node[r]) IN
          /\ Shape(u, Tokens, Pages) /\ u.value = t.value /\ Nodes(u) = Nodes(t)
          /\ Locks(u, Holders \ {r}, last_node)
      BY Zenon, <2>1, DecLocks
    <2> QED
      BY Zenon, <2>2, <1>3
  <1>6. Counts(Holders \ {r})
    BY Zenon, HoldersCounted
  <1>7. Frees(d, Holders \ {r}, last_node, req_to_token[r], Freed(r, is_insert), num, pages, left)
    <2>1. Apart(d, free_pages \cup pages, left) /\ Filled(d, content)
      BY ZenonT(30), <1>2, <1>5 DEF Apart, Filled, Cached
    <2>2. \A i, j \in Freed(r, is_insert) : req_to_token[r][i] = req_to_token[r][j] => i = j
      BY ZenonT(30), <1>2, <1>4
    <2>3. FreeThenEvict(req_to_token[r], Freed(r, is_insert), d, num) /\ ~double_free
      BY Zenon, <1>1, <1>2, <1>3 DEF KVInv
    <2> QED
      BY ZenonT(30), <2>1, <2>2, <2>3, <1>2, <1>5, <1>6 DEF Frees
  <1>8. /\ Shape(tree', Tokens, Pages) /\ Locks(tree', Holders \ {r}, last_node)
        /\ Apart(tree', free_pages', left) /\ Filled(tree', content') /\ ~double_free'
        /\ Safe(d, Holders \ {r}, last_node, left)
        /\ EndsEvicting(d, free_pages \cup pages)
    BY Zenon, <1>7, FreeStep
  <1>9. Locks(tree', Holders \ {r}, last_node')
    <2>1. \A q \in Holders \ {r} : last_node'[q] = last_node[q]
      BY Zenon, <1>1 DEF Holders, KVInv
    <2> QED
      BY Zenon, <2>1, <1>8, LocksEq
  <1>10. ASSUME NEW q \in Reqs, q # r PROVE Undisturbed(q, tree', content')
    <2>1. left[q] = Owned[q]
      BY Zenon, <1>2, <1>10 DEF Owned
    <2>2. \A p \in Owned[q] : p \in Pages => content'[p] = content[p]
      BY Zenon, <2>1, <1>8 DEF Safe
    <2>3. ASSUME q \in Holders, NEW y \in Cached(tree), y \preceq last_node[q]
          PROVE  /\ y \in Cached(tree') /\ tree'.value[y] = tree.value[y]
                 /\ content'[tree.value[y]] = content[tree.value[y]]
      <3>1. y \in Cached(d) /\ d.value[y] = tree.value[y] /\ q \in Holders \ {r}
        BY Zenon, <2>3, <1>2, <1>5, <1>10 DEF Cached
      <3> QED
        BY SMTT(30), <3>1, <2>3, <1>8 DEF Safe
    <2> QED
      BY Zenon, <2>2, <2>3 DEF Undisturbed
  <1>12. Cached(d) = Cached(t) /\ d.value = t.value
    BY Zenon, <1>5 DEF Cached
  <1>13. /\ Cached(tree) \subseteq Cached(d) /\ \A x \in Cached(tree) : d.value[x] = tree.value[x]
         /\ Owned[r] = pages \cup {d.value[x] : x \in Cached(d) \ Cached(tree)}
         /\ Apart(d, free_pages \cup pages, [Owned EXCEPT ![r] = {}])
    <2>1. Apart(d, free_pages \cup pages, left)
      BY ZenonT(30), <1>2, <1>12 DEF Apart
    <2> QED
      BY Zenon, <2>1, <1>2, <1>12
  <1> QED
    BY ZenonT(30), <1>2, <1>4, <1>8, <1>9, <1>10, <1>13

(* The same for a request that finishes or is retracted.                     *)
LEMMA ReleaseInv ==
  ASSUME KVInv, NEW r \in Reqs, NEW is_insert \in BOOLEAN, NEW num,
         ReleaseKVCache(r, is_insert, num), NEW st \in {"none", "waiting"}, NEW tok \in Seq(Tokens),
         stage' = [stage EXCEPT ![r] = st], ids' = [ids EXCEPT ![r] = tok]
  PROVE  KVInv' /\ Settles(r) /\ r \in Holders /\ Holders' = Holders \ {r} /\ Owned'[r] = {}
  <1>1. /\ req_to_token' = [req_to_token EXCEPT ![r] = <<>>]
        /\ kv_committed_len' = [kv_committed_len EXCEPT ![r] = 0]
        /\ cache_protected_len' = [cache_protected_len EXCEPT ![r] = 0]
        /\ last_node' = [last_node EXCEPT ![r] = root]
        /\ extend_end' = [extend_end EXCEPT ![r] = 0]
    BY Zenon DEF ReleaseKVCache
  <1>2. /\ Shape(tree', Tokens, Pages) /\ Locks(tree', Holders \ {r}, last_node')
        /\ Apart(tree', free_pages', [Owned EXCEPT ![r] = {}]) /\ Filled(tree', content')
        /\ ~double_free' /\ \A q \in Reqs : q # r => Undisturbed(q, tree', content')
        /\ r \in Holders
        /\ \E t, pages :
             /\ Cached(tree) \subseteq Cached(t) /\ \A x \in Cached(tree) : t.value[x] = tree.value[x]
             /\ EndsEvicting(t, free_pages \cup pages)
             /\ Owned[r] = pages \cup {t.value[x] : x \in Cached(t) \ Cached(tree)}
             /\ Apart(t, free_pages \cup pages, [Owned EXCEPT ![r] = {}])
    BY Zenon, ReleaseStep
  <1>3. Holders' = Holders \ {r}
    BY Zenon DEF Holders, Locking, KVInv
  <1>4. \A q \in Reqs : Owned'[q] = [Owned EXCEPT ![r] = {}][q]
    <2>1. Owned'[r] = {}
      <3>1. req_to_token'[r] = <<>> /\ cache_protected_len'[r] = 0
        BY Zenon, <1>1 DEF KVInv
      <3> QED
        BY Zenon, <3>1, NoOwn DEF Owned
    <2>2. \A q \in Reqs : q # r => Owned'[q] = Owned[q]
      BY Zenon, <1>1 DEF Owned, KVInv
    <2> QED
      BY ZenonT(30), <2>1, <2>2 DEF Owned
  <1>5. Apart(tree', free_pages', Owned')
    BY ZenonT(30), <1>2, <1>4 DEF Apart
  <1>6. ASSUME NEW q \in Reqs
        PROVE  ReqInv(tree', content', req_to_token'[q], kv_committed_len'[q], cache_protected_len'[q],
                      last_node'[q], extend_end'[q], stage'[q], ids'[q])
    <2>1. CASE q = r
      <3>1. /\ req_to_token'[q] = <<>> /\ kv_committed_len'[q] = 0 /\ cache_protected_len'[q] = 0
            /\ extend_end'[q] = 0 /\ stage'[q] = st /\ ids'[q] = tok
        BY Zenon, <2>1, <1>1 DEF KVInv
      <3>2. ReqInv(tree', content', <<>>, 0, 0, last_node'[q], 0, st, tok)
        BY ZenonT(30), NoKV
      <3> QED
        BY Zenon, <3>1, <3>2
    <2>2. CASE q # r
      <3>1. ReqInv(tree', content', req_to_token[q], kv_committed_len[q], cache_protected_len[q],
                   last_node[q], extend_end[q], stage[q], ids[q])
        BY ZenonT(30), <2>2, <1>2, Others
      <3> QED
        BY Zenon, <2>2, <3>1, <1>1 DEF KVInv
    <2> QED
      BY Zenon, <2>1, <2>2
  <1>7. /\ req_to_token' \in [Reqs -> Seq(Pages)] /\ last_node' \in [Reqs -> Seq(Tokens)]
        /\ kv_committed_len' \in [Reqs -> Nat] /\ cache_protected_len' \in [Reqs -> Nat]
        /\ extend_end' \in [Reqs -> Nat] /\ stage' \in [Reqs -> Stages] /\ ids' \in [Reqs -> Seq(Tokens)]
    BY SMTT(30), <1>1 DEF KVInv, Stages, root
  <1>8. KVInv'
    BY ZenonT(30), <1>2, <1>3, <1>5, <1>6, <1>7 DEF KVInv
  <1>9. Owned'[r] = {} /\ \A q \in Reqs : q # r => Owned'[q] = Owned[q]
    BY Zenon, <1>4 DEF Owned
  <1>10. Settles(r)
    <2>1. PICK t, pages :
            /\ Cached(tree) \subseteq Cached(t) /\ \A x \in Cached(tree) : t.value[x] = tree.value[x]
            /\ EndsEvicting(t, free_pages \cup pages)
            /\ Owned[r] = pages \cup {t.value[x] : x \in Cached(t) \ Cached(tree)}
            /\ Apart(t, free_pages \cup pages, [Owned EXCEPT ![r] = {}])
      BY ZenonT(30), <1>2
    <2>2. Apart(t, free_pages \cup pages, Owned')
      BY Zenon, <2>1, <1>4 DEF Apart
    <2>3. Owned[r] = pages \cup Owned'[r] \cup {t.value[x] : x \in Cached(t) \ Cached(tree)}
      BY Zenon, <2>1, <1>9
    <2> QED
      BY ZenonT(30), <2>1, <2>2, <2>3, <1>9 DEF Settles
  <1> QED
    BY ZenonT(30), <1>2, <1>3, <1>8, <1>9, <1>10

(* A request that finishes or is aborted.                                    *)
LEMMA FinishInv ==
  ASSUME KVInv, NEW r \in Reqs, Finish(r)
  PROVE  KVInv' /\ Settles(r) /\ r \in Holders /\ Holders' = Holders \ {r} /\ Owned'[r] = {}
  <1>1. PICK b \in BOOLEAN : ReleaseKVCache(r, b, 0)
    BY Zenon DEF Finish
  <1>2. stage' = [stage EXCEPT ![r] = "none"] /\ ids' = [ids EXCEPT ![r] = <<>>]
    BY Zenon DEF Finish
  <1>3. <<>> \in Seq(Tokens) /\ "none" \in {"none", "waiting"}
    OBVIOUS
  <1> QED
    BY Zenon, <1>1, <1>2, <1>3, ReleaseInv

(* A request that is retracted keeps its tokens and no pages.                *)
LEMMA RetractInv ==
  ASSUME KVInv, NEW r \in Reqs, NEW num, Retract(r, num)
  PROVE  KVInv' /\ Settles(r) /\ r \in Holders /\ Holders' = Holders \ {r} /\ Owned'[r] = {}
  <1>1. /\ ReleaseKVCache(r, FALSE, num) /\ stage' = [stage EXCEPT ![r] = "waiting"]
        /\ stage[r] \in {"extended", "decoding"}
    BY Zenon DEF Retract
  <1>2. PICK n \in {Len(ids[r]) - 1, Len(ids[r])} : ids' = [ids EXCEPT ![r] = Key(ids[r], n)]
    BY ZenonT(30) DEF Retract
  <1>3. ids[r] \in Seq(Tokens) /\ n \in 0..Len(ids[r])
    <2>1. ReqInv(tree, content, req_to_token[r], kv_committed_len[r], cache_protected_len[r],
                 last_node[r], extend_end[r], stage[r], ids[r])
      BY Zenon DEF KVInv
    <2>2. ids[r] \in Seq(Tokens) /\ kv_committed_len[r] \in Nat /\ kv_committed_len[r] < Len(ids[r])
      BY Zenon, <2>1, <1>1 DEF ReqInv
    <2> QED
      BY SMTT(30), <2>2, <1>2
  <1>4. Key(ids[r], n) \in Seq(Tokens)
    BY Zenon, <1>3, KeyProps
  <1> QED
    BY Zenon, <1>1, <1>2, <1>4, ReleaseInv

-----------------------------------------------------------------------------
(* The accounting of the tree. *)

(* The eviction of evict_from_tree_cache removes unlocked nodes only and
   counts what it removes.                                                   *)
LEMMA EvictedAccount ==
  ASSUME NEW t, NEW Q, NEW last, Shape(t, Tokens, Pages), Counts(Q), Locks(t, Q, last),
         Account(t), NEW F, NEW num, NEW R \in EvictFromTreeCache(t, F, num)
  PROVE  Removable(t, R) /\ Account(DeleteNodes(t, R))
  <1>1. Removable(t, R)
    <2>1. CASE AvailableSize(F) < num
      BY Zenon, <2>1, EvictionsRemovable DEF EvictFromTreeCache
    <2>2. CASE ~(AvailableSize(F) < num)
      BY Zenon, <2>2 DEF EvictFromTreeCache, Removable
    <2> QED
      BY Zenon, <2>1, <2>2
  <1> QED
    BY Zenon, <1>1, EvictAccount

(* FreeThenEvict: the tree that it is given counts right, and so does the one
   it leaves.                                                                *)
LEMMA FreedAccount ==
  ASSUME NEW t, NEW Q, NEW last, Shape(t, Tokens, Pages), Counts(Q), Locks(t, Q, last),
         Account(t), NEW row, NEW at, NEW num, FreeThenEvict(row, at, t, num)
  PROVE  Account(tree')
  <1>1. PICK F, R : R \in EvictFromTreeCache(t, F, num) /\ tree' = DeleteNodes(t, R)
    BY Zenon DEF FreeThenEvict
  <1> QED
    BY Zenon, <1>1, EvictedAccount

(* insert of the first n tokens of a request.                                *)
LEMMA InsertedAccount ==
  ASSUME KVInv, Account(tree), NEW r \in Reqs, HoldsKV(r), NEW n \in Nat, n % PageSize = 0,
         n <= kv_committed_len[r]
  PROVE  Account(Insert(tree, Key(ids[r], n), req_to_token[r]))
  <1>1. PICK s, row, com, tok :
          s = Key(tok, n) /\ row = req_to_token[r] /\ com = kv_committed_len[r] /\ tok = ids[r]
    BY Zenon
  <1>2. /\ row \in Seq(Pages) /\ com \in Nat /\ tok \in Seq(Tokens)
        /\ Len(row) = NumPages(com) /\ com <= Len(tok) /\ n <= com
    BY ZenonT(30), <1>1, HoldsProps
  <1>3. s \in Seq(Tokens) /\ Len(s) = n
    BY SMTT(30), <1>1, <1>2, KeyProps
  <1>4. n \div PageSize \in 0..Len(row)
    BY Zenon, <1>2, PageCount
  <1>5. \A i \in 1..(Len(s) \div PageSize) : row[i] \in Pages
    <2>1. \A i \in 1..(n \div PageSize) : i \in 1..Len(row)
      BY SMTT(30), <1>2, <1>4
    <2> QED
      BY <2>1, <1>2, <1>3
  <1>6. Shape(tree, Tokens, Pages) /\ Len(s) % PageSize = 0
    BY Zenon, <1>3 DEF KVInv
  <1>7. Account(Insert(tree, s, row))
    BY Zenon, <1>3, <1>5, <1>6, InsertAccount
  <1> QED
    BY Zenon, <1>1, <1>7

(* cache_unfinished_req keeps the accounting.                                *)
LEMMA CacheUnfinishedAccount ==
  ASSUME KVInv, Account(tree), NEW r \in Reqs, CacheUnfinished(r)
  PROVE  Account(tree')
  <1>1. PICK n, s, m, t, pages, left :
          /\ n = PageAligned(extend_end[r]) /\ s = Key(ids[r], n) /\ m = MatchLen(tree, s)
          /\ t = Insert(tree, s, req_to_token[r])
          /\ pages = {req_to_token[r][i] : i \in Duplicates(r, m)}
          /\ left = [Owned EXCEPT ![r] = OwnPages(req_to_token[r], n)]
    BY ZenonT(30)
  <1>2. /\ stage[r] \in {"chunked", "extended"} /\ HoldsKV(r)
        /\ FreeThenEvict(req_to_token[r], Duplicates(r, m),
                         IncLockRef(DecLockRef(MatchPrefix(t, s), last_node[r]), Matched(t, s)), 0)
    BY ZenonT(30), <1>1 DEF CacheUnfinished, HoldsKV
  <1>3. /\ extend_end[r] \in Nat /\ cache_protected_len[r] \in Nat /\ kv_committed_len[r] \in Nat
        /\ cache_protected_len[r] % PageSize = 0 /\ cache_protected_len[r] <= extend_end[r]
        /\ extend_end[r] <= kv_committed_len[r] /\ r \in Holders
    BY ZenonT(30), <1>2, HoldsProps
  <1>4. n \in Nat /\ n % PageSize = 0 /\ cache_protected_len[r] <= n /\ n <= kv_committed_len[r]
    BY SMTT(30), <1>1, <1>3, AlignedProps, AlignedBound
  <1>5. Inserts(r, n, s, m, t, pages, left)
    BY ZenonT(30), <1>1, <1>2, <1>4 DEF Inserts
  <1>6. /\ Shape(t, Tokens, Pages) /\ Locks(t, Holders, last_node)
        /\ s \in Seq(Tokens) /\ s \in Nodes(t) \cup {root}
    <2>1. Inserted(r, n, s, m, t, pages, left)
      BY Zenon, <1>5, InsertStep
    <2> QED
      BY Zenon, <2>1 DEF Inserted
  <1>7. Account(t)
    BY Zenon, <1>1, <1>2, <1>4, InsertedAccount
  <1>8. Matched(t, s) = s /\ MatchPrefix(t, s) = t
    BY Zenon, <1>6, MatchedNode
  <1>9. PICK d, w : d = DecLockRef(t, last_node[r]) /\ w = IncLockRef(d, s)
    BY Zenon
  <1>10. Unlocker(t, Tokens, Pages, Holders, last_node, r)
    BY Zenon, <1>3, <1>6, HoldersCounted DEF Unlocker
  <1>11. /\ Shape(d, Tokens, Pages) /\ Nodes(d) = Nodes(t) /\ Locks(d, Holders \ {r}, last_node)
         /\ Account(d)
    <2>1. LET u == DecLockRef(t, last_node[r]) IN
          /\ Shape(u, Tokens, Pages) /\ u.value = t.value /\ Nodes(u) = Nodes(t)
          /\ Locks(u, Holders \ {r}, last_node)
      BY Zenon, <1>10, DecLocks
    <2>2. Account(DecLockRef(t, last_node[r]))
      BY Zenon, <1>7, <1>10, DecAccount
    <2> QED
      BY Zenon, <2>1, <2>2, <1>9
  <1>12. Counts(Holders \ {r}) /\ Counts((Holders \ {r}) \cup {r})
    <2>1. (Holders \ {r}) \cup {r} = Holders
      BY Zenon, <1>3
    <2> QED
      BY Zenon, HoldersCounted
  <1>13. Account(w)
    BY Zenon, <1>9, <1>11, <1>12, IncAccount
  <1>14. PICK new : new = [last_node EXCEPT ![r] = s]
    BY ZenonT(30)
  <1>15. Shape(w, Tokens, Pages) /\ Locks(w, (Holders \ {r}) \cup {r}, new)
    <2>1. new[r] = s /\ \A q \in Holders \ {r} : new[q] = last_node[q]
      BY Zenon, <1>14 DEF Holders, KVInv
    <2>2. Locker(d, Tokens, Pages, Holders \ {r}, last_node, r, s, new)
      BY Zenon, <2>1, <1>6, <1>11, <1>12 DEF Locker
    <2>3. LET u == IncLockRef(d, s) IN
          /\ Shape(u, Tokens, Pages) /\ u.value = d.value /\ Nodes(u) = Nodes(d)
          /\ Locks(u, (Holders \ {r}) \cup {r}, new)
      BY Zenon, <2>2, IncLocks
    <2> QED
      BY Zenon, <2>3, <1>9
  <1>16. FreeThenEvict(req_to_token[r], Duplicates(r, m), w, 0)
    BY ZenonT(30), <1>2, <1>8, <1>9
  <1> QED
    BY Zenon, <1>12, <1>13, <1>15, <1>16, FreedAccount

(* release_kv_cache, with or without insertion, keeps the accounting.        *)
LEMMA ReleaseAccount ==
  ASSUME KVInv, Account(tree), NEW r \in Reqs, NEW is_insert \in BOOLEAN, NEW num,
         ReleaseKVCache(r, is_insert, num)
  PROVE  Account(tree')
  <1>1. /\ HoldsKV(r)
        /\ FreeThenEvict(req_to_token[r], Freed(r, is_insert), FinishedTree(r, is_insert), num)
    BY Zenon DEF ReleaseKVCache
  <1>2. PICK n, s, m, v, pages, left :
          /\ n = PageAligned(kv_committed_len[r]) /\ s = Key(ids[r], n) /\ m = MatchLen(tree, s)
          /\ v = Insert(tree, s, req_to_token[r])
          /\ pages = {req_to_token[r][i] : i \in Duplicates(r, m)}
          /\ left = [Owned EXCEPT ![r] = OwnPages(req_to_token[r], n)]
    BY ZenonT(30)
  <1>3. /\ cache_protected_len[r] \in Nat /\ kv_committed_len[r] \in Nat
        /\ cache_protected_len[r] % PageSize = 0 /\ cache_protected_len[r] <= kv_committed_len[r]
        /\ r \in Holders
    BY SMTT(30), <1>1, HoldsProps
  <1>4. n \in Nat /\ n % PageSize = 0 /\ cache_protected_len[r] <= n /\ n <= kv_committed_len[r]
    BY SMTT(30), <1>2, <1>3, AlignedProps, AlignedBound
  <1>5. Inserts(r, n, s, m, v, pages, left)
    BY ZenonT(30), <1>1, <1>2, <1>4 DEF Inserts
  <1>6. Shape(v, Tokens, Pages) /\ Locks(v, Holders, last_node)
    <2>1. Inserted(r, n, s, m, v, pages, left)
      BY Zenon, <1>5, InsertStep
    <2> QED
      BY Zenon, <2>1 DEF Inserted
  <1>7. Account(v)
    BY ZenonT(30), <1>1, <1>2, <1>4, InsertedAccount
  <1>8. PICK t : t = IF is_insert THEN v ELSE tree
    BY Zenon
  <1>9. Shape(t, Tokens, Pages) /\ Locks(t, Holders, last_node) /\ Account(t)
    BY Zenon, <1>6, <1>7, <1>8 DEF KVInv
  <1>10. FinishedTree(r, is_insert) = DecLockRef(t, last_node[r])
    BY ZenonT(30), <1>2, <1>8 DEF FinishedTree
  <1>11. Unlocker(t, Tokens, Pages, Holders, last_node, r)
    BY Zenon, <1>3, <1>9, HoldersCounted DEF Unlocker
  <1>12. PICK d : d = DecLockRef(t, last_node[r])
    BY Zenon
  <1>13. Shape(d, Tokens, Pages) /\ Locks(d, Holders \ {r}, last_node) /\ Account(d)
    <2>1. LET u == DecLockRef(t, last_node[r]) IN
          /\ Shape(u, Tokens, Pages) /\ u.value = t.value /\ Nodes(u) = Nodes(t)
          /\ Locks(u, Holders \ {r}, last_node)
      BY Zenon, <1>11, DecLocks
    <2>2. Account(DecLockRef(t, last_node[r]))
      BY Zenon, <1>9, <1>11, DecAccount
    <2> QED
      BY Zenon, <2>1, <2>2, <1>12
  <1>14. Counts(Holders \ {r})
    BY Zenon, HoldersCounted
  <1>15. FreeThenEvict(req_to_token[r], Freed(r, is_insert), d, num)
    BY Zenon, <1>1, <1>10, <1>12
  <1> QED
    BY Zenon, <1>13, <1>14, <1>15, FreedAccount

(* Every operation keeps the accounting.                                     *)
LEMMA NextAccount ==
  ASSUME KVInv, Account(tree), KVNext
  PROVE  Account(tree')
  <1>0. Shape(tree, Tokens, Pages) /\ Locks(tree, Holders, last_node)
    BY Zenon DEF KVInv
  <1>1. ASSUME NEW r \in Reqs, Submit(r) PROVE Account(tree')
    BY Zenon, <1>1 DEF Submit
  <1>2. ASSUME NEW r \in Reqs, Abort(r) PROVE Account(tree')
    BY Zenon, <1>2 DEF Abort
  <1>3. ASSUME NEW r \in Reqs, NEW s \in MatchKeys(r) PROVE Account(MatchPrefix(tree, s))
    <2>1. Matched(tree, s) \in Cached(tree) \cup {root}
      BY Zenon, MatchStep
    <2> QED
      BY Zenon, <2>1, <1>0, SplitAccount DEF MatchPrefix
  <1>4. ASSUME NEW r \in Reqs, Refuse(r) PROVE Account(tree')
    <2>1. PICK s \in MatchKeys(r) : tree' = MatchPrefix(tree, s)
      BY Zenon, <1>4 DEF Refuse
    <2> QED
      BY Zenon, <2>1, <1>3
  <1>5. ASSUME NEW r \in Reqs, Admit(r) PROVE Account(tree')
    <2>1. PICK s \in MatchKeys(r) : tree' = IncLockRef(MatchPrefix(tree, s), Matched(tree, s))
      BY Zenon, <1>5 DEF Admit
    <2>2. PICK u : u = MatchPrefix(tree, s)
      BY Zenon
    <2>3. Shape(u, Tokens, Pages) /\ Locks(u, Holders, last_node)
      BY Zenon, <2>2, MatchStep
    <2>4. Account(u)
      BY Zenon, <2>2, <1>3
    <2>5. Account(IncLockRef(u, Matched(tree, s)))
      BY Zenon, <2>3, <2>4, HoldersCounted, IncAccount
    <2> QED
      BY Zenon, <2>1, <2>2, <2>5
  <1>6. ASSUME NEW r \in Reqs, CacheUnfinished(r) PROVE Account(tree')
    BY Zenon, <1>6, CacheUnfinishedAccount
  <1>7. ASSUME NEW r \in Reqs, Finish(r) PROVE Account(tree')
    <2>1. PICK b \in BOOLEAN : ReleaseKVCache(r, b, 0)
      BY Zenon, <1>7 DEF Finish
    <2> QED
      BY Zenon, <2>1, ReleaseAccount
  <1>8. ASSUME NEW r \in Reqs, NEW num, Retract(r, num) PROVE Account(tree')
    <2>1. ReleaseKVCache(r, FALSE, num) /\ FALSE \in BOOLEAN
      BY Zenon, <1>8 DEF Retract
    <2> QED
      BY Zenon, <2>1, ReleaseAccount
  <1>9. ASSUME NEW B, NEW lens, NEW demand, Alloc(B, lens, demand) PROVE Account(tree')
    <2>1. PICK R \in EvictFromTreeCache(tree, free_pages, demand) : tree' = DeleteNodes(tree, R)
      BY Zenon, <1>9 DEF Alloc
    <2> QED
      BY Zenon, <2>1, <1>0, HoldersCounted, EvictedAccount
  <1>10. ASSUME NEW B, NEW lens, Extend(B, lens) PROVE Account(tree')
    <2>1. PICK demand : Alloc(B, lens, demand)
      BY Zenon, <1>10 DEF Extend
    <2> QED
      BY Zenon, <2>1, <1>9
  <1>11. ASSUME NEW B, Decode(B) PROVE Account(tree')
    <2>1. PICK lens, demand : Alloc(B, lens, demand)
      BY Zenon, <1>11 DEF Decode
    <2> QED
      BY <2>1, <1>9
  <1>12. ASSUME NEW num, CheckDecodeMem(num) PROVE Account(tree')
    <2>1. FreeThenEvict(<<>>, {}, tree, num)
      BY Zenon, <1>12 DEF CheckDecodeMem
    <2> QED
      BY Zenon, <2>1, <1>0, HoldersCounted, FreedAccount
  <1>13. ASSUME FlushCache PROVE Account(tree')
    BY Zenon, <1>13, EmptyAccount DEF FlushCache, Account
  <1> QED
    BY Zenon, <1>1, <1>2, <1>4, <1>5, <1>6, <1>7, <1>8, <1>10, <1>11, <1>12, <1>13 DEF KVNext
=============================================================================
