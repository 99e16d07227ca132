----------------------------- MODULE KVCacheInv -----------------------------
(***************************************************************************)
(* The inductive invariant KVInv of KVCache: how evicting, freeing and     *)
(* inserting pages preserve its parts, that it holds initially, and that   *)
(* the operations on requests that hold no KV and on the cache alone keep  *)
(* it.  At the end, what it says of PagePool and of the pages of a batch.  *)
(***************************************************************************)
EXTENDS KVCachePool, RadixTreeProofs

(* What holds of one request: row, com, prot, last, end, st and tok are its
   entries of the request variables, t is the tree and c the content.       *)
ReqInv(t, c, row, com, prot, last, end, st, tok) ==
  /\ row \in Seq(Pages) /\ com \in Nat /\ prot \in Nat /\ end \in Nat
  /\ st \in Stages /\ tok \in Seq(Tokens)
  /\ st \in {"none", "waiting"} => row = <<>> /\ com = 0 /\ prot = 0
  /\ st = "admitted" => Len(row) = prot \div PageSize
  /\ st \in {"chunked", "cached", "extended", "decoding"} =>
       /\ Len(row) = NumPages(com) /\ prot <= end /\ end <= com /\ com <= Len(tok)
       /\ \A i \in 1..Len(row) : c[row[i]] = Key(tok, Fill(i, com))
  /\ st \in {"extended", "decoding"} => com < Len(tok)
  /\ st \notin {"none", "waiting"} =>
       /\ prot % PageSize = 0 /\ prot <= Len(tok) /\ prot \div PageSize <= Len(row)
       /\ last = Key(tok, prot)
       /\ \A i \in 1..(prot \div PageSize) :
            /\ Key(tok, i * PageSize) \in Cached(t) /\ Key(tok, i * PageSize) \preceq last
            /\ row[i] = t.value[Key(tok, i * PageSize)]
  /\ \A i, j \in (prot \div PageSize + 1)..Len(row) : row[i] = row[j] => i = j

(* The free pages, the pages of the tree and the pages own[r] of each request
   r are apart.                                                             *)
Apart(t, F, own) ==
  /\ F \subseteq Pages
  /\ \A x, y \in Cached(t) : t.value[x] = t.value[y] => x = y
  /\ \A x \in Cached(t) : t.value[x] \notin F
  /\ \A r \in Reqs : own[r] \cap F = {} /\ \A x \in Cached(t) : t.value[x] \notin own[r]
  /\ \A q, r \in Reqs : q # r => own[q] \cap own[r] = {}

(* Every page of the tree holds the KV of its path.                         *)
Filled(t, c) == \A x \in Cached(t) : c[t.value[x]] = x

Holders == {r \in Reqs : Locking(r)}
Owned == [r \in Reqs |-> OwnPages(req_to_token[r], cache_protected_len[r])]

(* The inductive invariant.                                                 *)
KVInv ==
  /\ Counts(Reqs)
  /\ Shape(tree, Tokens, Pages) /\ Locks(tree, Holders, last_node)
  /\ Apart(tree, free_pages, Owned) /\ Filled(tree, content) /\ ~double_free
  /\ req_to_token \in [Reqs -> Seq(Pages)] /\ last_node \in [Reqs -> Seq(Tokens)]
  /\ kv_committed_len \in [Reqs -> Nat] /\ cache_protected_len \in [Reqs -> Nat]
  /\ extend_end \in [Reqs -> Nat] /\ stage \in [Reqs -> Stages] /\ ids \in [Reqs -> Seq(Tokens)]
  /\ \A r \in Reqs :
       ReqInv(tree, content, req_to_token[r], kv_committed_len[r], cache_protected_len[r],
              last_node[r], extend_end[r], stage[r], ids[r])

(* The requests that hold locks are finitely many.                           *)
LEMMA HoldersCounted ==
  ASSUME KVInv
  PROVE  Counts(Holders) /\ \A r \in Reqs : Counts(Holders \cup {r}) /\ Counts(Holders \ {r})
  <1>1. Counts(Reqs)
    BY Zenon DEF KVInv
  <1>2. Holders \in SUBSET Reqs
    BY Zenon DEF Holders
  <1>3. \A P \in SUBSET Reqs : Counts(P)
    BY Zenon, <1>1, CountsPart
  <1> QED
    BY Zenon, <1>2, <1>3

-----------------------------------------------------------------------------
(* evict_from_tree_cache(num) on the tree t, whose paths to last[q] are held
   by the requests q of Q, with F free, leaves the tree u and the content d
   and frees the pages out.                                                 *)
Evicts(t, Q, last, F, own, c, num, u, out, d) ==
  /\ Shape(t, Tokens, Pages) /\ Counts(Q) /\ Locks(t, Q, last)
  /\ Apart(t, F, own) /\ Filled(t, c)
  /\ \E R \in EvictFromTreeCache(t, F, num) : u = DeleteNodes(t, R) /\ out = PagesOf(t, R)
  /\ \A p \in Pages : p \notin out => d[p] = c[p]

(* The tree u keeps the paths of t that the requests of Q hold.              *)
Retains(t, u, Q, last, out) ==
  \A q \in Q : \A y \in Cached(t) : y \preceq last[q] =>
    y \in Cached(u) /\ u.value[y] = t.value[y] /\ t.value[y] \notin out

(* Paths leave the tree t with all their extensions; the tree u is left, and the
   pages out of the paths that leave.                                       *)
Sheds(t, u, out) ==
  /\ Cached(u) \subseteq Cached(t) /\ \A x \in Cached(u) : u.value[x] = t.value[x]
  /\ out = {t.value[x] : x \in Cached(t) \ Cached(u)}
  /\ \A x \in Cached(t) \ Cached(u) : \A y \in Cached(t) : x \preceq y => y \notin Cached(u)

(* With F free and t the tree, the step ends with an eviction.               *)
EndsEvicting(t, F) == \E out : Sheds(t, tree', out) /\ free_pages' = F \cup out

(* An eviction takes the pages out from the tree; of them and of the free pages
   the request r, a holder, gets N[r].                                      *)
AllocatesWith(out, N) ==
  /\ Sheds(tree, tree', out) /\ \A r \in Reqs : N[r] \subseteq free_pages \cup out
  /\ \A r \in Reqs : Owned'[r] = Owned[r] \cup N[r] /\ (r \notin Holders => N[r] = {})
  /\ free_pages' = (free_pages \cup out) \ UNION {N[r] : r \in Reqs}
Allocates == \E out, N : AllocatesWith(out, N)

(* The request r gives pages to the free list and to the tree, which becomes t,
   and then an eviction may take paths out of t.                            *)
Settles(r) ==
  \E t, pages :
    /\ Cached(tree) \subseteq Cached(t) /\ \A x \in Cached(tree) : t.value[x] = tree.value[x]
    /\ EndsEvicting(t, free_pages \cup pages)
    /\ Owned[r] = pages \cup Owned'[r] \cup {t.value[x] : x \in Cached(t) \ Cached(tree)}
    /\ Apart(t, free_pages \cup pages, Owned')
    /\ \A q \in Reqs : q # r => Owned'[q] = Owned[q]

(* An eviction is an allocation of no pages.                                 *)
LEMMA NothingAllocated ==
  ASSUME EndsEvicting(tree, free_pages), \A r \in Reqs : Owned'[r] = Owned[r]
  PROVE  Allocates
  <1>1. PICK out : Sheds(tree, tree', out) /\ free_pages' = free_pages \cup out
    BY Zenon DEF EndsEvicting
  <1>2. PICK N : N = [r \in Reqs |-> {}]
    BY Zenon
  <1>3. \A r \in Reqs : N[r] = {}
    BY Zenon, <1>2
  <1>4. (free_pages \cup out) \ UNION {N[r] : r \in Reqs} = free_pages \cup out
    BY Zenon, <1>3
  <1>5. AllocatesWith(out, N)
    BY Zenon, <1>1, <1>3, <1>4 DEF AllocatesWith
  <1> QED
    BY Zenon, <1>5 DEF Allocates

(* The nodes that evict removes take whole subtrees with them.               *)
LEMMA RemovedSheds ==
  ASSUME NEW t, Shape(t, Tokens, Pages), NEW R, Removable(t, R), NEW u, NEW out,
         Cached(u) = {y \in Cached(t) : Owner(t, y) \notin R},
         \A y \in Cached(u) : u.value[y] = t.value[y], out = PagesOf(t, R)
  PROVE  Sheds(t, u, out)
  <1>1. Cached(t) \ Cached(u) = {y \in Cached(t) : Owner(t, y) \in R} /\ Cached(u) \subseteq Cached(t)
    BY Zenon
  <1>2. out = {t.value[x] : x \in Cached(t) \ Cached(u)}
    BY Zenon DEF PagesOf
  <1>3. ASSUME NEW x \in Cached(t) \ Cached(u), NEW y \in Cached(t), x \preceq y PROVE y \notin Cached(u)
    <2>1. Owns(t, Owner(t, x), x) /\ Owns(t, Owner(t, y), y) /\ Owner(t, x) \in R
      BY Zenon, OwnerProps
    <2>2. Owner(t, y) \in Nodes(t) /\ y \preceq Owner(t, y)
      BY Zenon, <2>1 DEF Owns
    <2>3. x \in Seq(Tokens) /\ y \in Seq(Tokens) /\ Owner(t, y) \in Seq(Tokens)
      BY Zenon, <2>2 DEF Shape
    <2>4. x \preceq Owner(t, y)
      BY Zenon, <2>2, <2>3, <1>3, PrefixOrder
    <2>5. Owner(t, x) \preceq Owner(t, y)
      BY Zenon, <2>1, <2>4 DEF Owns
    <2>6. Owner(t, y) \in R
      BY Zenon, <2>2, <2>5 DEF Removable
    <2> QED
      BY Zenon, <2>6
  <1> QED
    BY Zenon, <1>2, <1>3 DEF Sheds

(* An eviction hands pages of the tree to the free list, and none of a path
   that a request holds.                                                    *)
LEMMA EvictStep ==
  ASSUME NEW t, NEW Q, NEW last, NEW F, NEW own, NEW c, NEW num, NEW u, NEW out, NEW d,
         Evicts(t, Q, last, F, own, c, num, u, out, d)
  PROVE  /\ Shape(u, Tokens, Pages) /\ Locks(u, Q, last) /\ Apart(u, F \cup out, own)
         /\ Filled(u, d) /\ out \cap F = {} /\ out \subseteq Pages
         /\ \A r \in Reqs : own[r] \cap out = {}
         /\ Retains(t, u, Q, last, out) /\ Sheds(t, u, out)
  <1> /\ Shape(t, Tokens, Pages) /\ Counts(Q) /\ Locks(t, Q, last)
      /\ Apart(t, F, own) /\ Filled(t, c) /\ \A p \in Pages : p \notin out => d[p] = c[p]
    BY Zenon DEF Evicts
  <1>0. PICK R \in EvictFromTreeCache(t, F, num) : u = DeleteNodes(t, R) /\ out = PagesOf(t, R)
    BY Zenon DEF Evicts
  <1>1. Removable(t, R)
    <2>1. CASE AvailableSize(F) < num
      BY Zenon, <2>1, EvictionsRemovable DEF EvictFromTreeCache
    <2>2. CASE ~(AvailableSize(F) < num)
      BY Zenon, <2>2 DEF EvictFromTreeCache, Removable
    <2> QED
      BY Zenon, <2>1, <2>2
  <1>2. /\ Shape(u, Tokens, Pages) /\ Locks(u, Q, last)
        /\ Cached(u) = {y \in Cached(t) : Owner(t, y) \notin R}
        /\ \A y \in Cached(u) : u.value[y] = t.value[y]
        /\ \A q \in Q : \A y \in Cached(t) : y \preceq last[q] => y \in Cached(u)
    <2>1. LET w == DeleteNodes(t, R) IN
          /\ Shape(w, Tokens, Pages) /\ Locks(w, Q, last)
          /\ Cached(w) = {y \in Cached(t) : Owner(t, y) \notin R}
          /\ \A y \in Cached(w) : w.value[y] = t.value[y]
          /\ \A q \in Q : \A y \in Cached(t) : y \preceq last[q] => y \in Cached(w)
      BY Zenon, <1>1, EvictProps
    <2> QED
      BY Zenon, <2>1, <1>0
  <1>3. /\ \A p \in out : \E x \in Cached(t) : x \notin Cached(u) /\ p = t.value[x]
        /\ \A x \in Cached(u) : x \in Cached(t) /\ t.value[x] \notin out
    BY Zenon, <1>0, <1>2 DEF PagesOf, Apart
  <1>4. out \subseteq Pages /\ out \cap F = {} /\ \A r \in Reqs : own[r] \cap out = {}
    <2>1. ASSUME NEW p \in out PROVE p \in Pages /\ p \notin F /\ \A r \in Reqs : p \notin own[r]
      <3>1. PICK x \in Cached(t) : p = t.value[x]
        BY Zenon, <1>3
      <3> QED
        BY Zenon, <3>1 DEF Apart, Shape
    <2> QED
      BY Zenon, <2>1
  <1>5. Apart(u, F \cup out, own)
    BY Zenon, <1>2, <1>3, <1>4 DEF Apart
  <1>6. Filled(u, d)
    BY Zenon, <1>2, <1>3 DEF Filled, Shape
  <1>7. Sheds(t, u, out)
    BY Zenon, <1>0, <1>1, <1>2, RemovedSheds
  <1> QED
    BY Zenon, <1>2, <1>3, <1>4, <1>5, <1>6, <1>7 DEF Retains

(* The tree u and the content d have what a request uses in the tree t and the
   content c.                                                               *)
Keeps(t, c, row, prot, last, st, u, d) ==
  /\ st \notin {"none", "waiting"} =>
       \A y \in Cached(t) : y \preceq last =>
         y \in Cached(u) /\ u.value[y] = t.value[y] /\ d[t.value[y]] = c[t.value[y]]
  /\ \A p \in OwnPages(row, prot) : d[p] = c[p]

(* A request keeps its invariant when the tree keeps the path it holds and the
   pages of its row keep their content.                                     *)
LEMMA ReqKept ==
  ASSUME NEW t, NEW c, NEW row, NEW com, NEW prot, NEW last, NEW end, NEW st, NEW tok,
         ReqInv(t, c, row, com, prot, last, end, st, tok), NEW u, NEW d,
         Keeps(t, c, row, prot, last, st, u, d)
  PROVE  ReqInv(u, d, row, com, prot, last, end, st, tok)
  <1> USE DEF Keeps
  <1>1. ASSUME st \notin {"none", "waiting"}, NEW i \in 1..(prot \div PageSize)
        PROVE  /\ Key(tok, i * PageSize) \in Cached(u) /\ Key(tok, i * PageSize) \preceq last
               /\ row[i] = u.value[Key(tok, i * PageSize)] /\ d[row[i]] = c[row[i]]
    BY <1>1 DEF ReqInv
  <1>2. ASSUME st \notin {"none", "waiting"}, NEW i \in 1..Len(row) PROVE d[row[i]] = c[row[i]]
    <2>1. row \in Seq(Pages) /\ prot \in Nat
      BY Zenon DEF ReqInv
    <2>2. prot \div PageSize \in Nat
      BY Zenon, <2>1, DivPage
    <2>3. CASE i <= prot \div PageSize
      BY <1>1, <1>2, <2>1, <2>2, <2>3
    <2>4. CASE i > prot \div PageSize
      <3>1. i \in (prot \div PageSize + 1)..Len(row)
        BY <2>2, <2>4
      <3> QED
        BY Zenon, <3>1 DEF OwnPages
    <2> QED
      BY <2>2, <2>3, <2>4
  <1> QED
    BY Zenon, <1>2 DEF ReqInv

(* FreeThenEvict of the pages of a row: t is the tree and left[q] the pages of
   each request q once the pages are given up.                              *)
Frees(t, Q, last, row, at, num, pages, left) ==
  /\ Shape(t, Tokens, Pages) /\ Counts(Q) /\ Locks(t, Q, last)
  /\ pages = {row[i] : i \in at} /\ pages \subseteq Pages /\ pages \cap free_pages = {}
  /\ \A i, j \in at : row[i] = row[j] => i = j
  /\ Apart(t, free_pages \cup pages, left) /\ Filled(t, content) /\ ~double_free
  /\ FreeThenEvict(row, at, t, num)

(* What the requests of Q hold, and the pages left, keep tree and content.   *)
Safe(t, Q, last, left) ==
  /\ \A q \in Q : \A y \in Cached(t) : y \preceq last[q] =>
       /\ y \in Cached(tree') /\ tree'.value[y] = t.value[y]
       /\ content'[t.value[y]] = content[t.value[y]]
  /\ \A q \in Reqs : \A p \in left[q] : p \in Pages => content'[p] = content[p]

(* FreeThenEvict frees each page once, and keeps what the requests hold.     *)
LEMMA FreeStep ==
  ASSUME NEW t, NEW Q, NEW last, NEW row, NEW at, NEW num, NEW pages, NEW left,
         Frees(t, Q, last, row, at, num, pages, left)
  PROVE  /\ Shape(tree', Tokens, Pages) /\ Locks(tree', Q, last)
         /\ Apart(tree', free_pages', left) /\ Filled(tree', content') /\ ~double_free'
         /\ Safe(t, Q, last, left)
         /\ EndsEvicting(t, free_pages \cup pages)
  <1> /\ Shape(t, Tokens, Pages) /\ Counts(Q) /\ Locks(t, Q, last)
      /\ pages = {row[i] : i \in at} /\ pages \subseteq Pages /\ pages \cap free_pages = {}
      /\ \A i, j \in at : row[i] = row[j] => i = j
      /\ Apart(t, free_pages \cup pages, left) /\ Filled(t, content) /\ ~double_free
      /\ FreeThenEvict(row, at, t, num)
    BY Zenon DEF Frees
  <1>1. PICK R \in EvictFromTreeCache(t, free_pages \cup pages, num) :
          /\ tree' = DeleteNodes(t, R)
          /\ free_pages' = free_pages \cup pages \cup PagesOf(t, R)
          /\ content' = [p \in Pages |-> IF p \in pages \cup PagesOf(t, R) THEN <<>> ELSE content[p]]
          /\ double_free' = \/ double_free \/ pages \cap free_pages # {}
                            \/ \E i, j \in at : i # j /\ row[i] = row[j]
                            \/ PagesOf(t, R) \cap (free_pages \cup pages) # {}
    BY ZenonT(30) DEF FreeThenEvict
  <1>2. PICK out : out = PagesOf(t, R)
    BY Zenon
  <1>3. PICK c : c = [p \in Pages |-> IF p \in pages THEN <<>> ELSE content[p]]
    BY Zenon
  <1>4. \A x \in Cached(t) : t.value[x] \in Pages /\ c[t.value[x]] = content[t.value[x]]
    BY Zenon, <1>3 DEF Shape, Apart
  <1>5. Filled(t, c)
    BY Zenon, <1>4 DEF Filled
  <1>6. \A p \in Pages : p \notin out => content'[p] = c[p]
    BY Zenon, <1>1, <1>2, <1>3
  <1>7. PICK G : G = free_pages \cup pages
    BY Zenon
  <1>8. Evicts(t, Q, last, G, left, c, num, tree', out, content')
    BY Zenon, <1>1, <1>2, <1>5, <1>6, <1>7 DEF Evicts
  <1>9. /\ Shape(tree', Tokens, Pages) /\ Locks(tree', Q, last) /\ Apart(tree', G \cup out, left)
        /\ Filled(tree', content') /\ out \cap G = {} /\ out \subseteq Pages
        /\ \A r \in Reqs : left[r] \cap out = {}
        /\ Retains(t, tree', Q, last, out) /\ Sheds(t, tree', out)
    <2>1. /\ Shape(tree', Tokens, Pages) /\ Locks(tree', Q, last) /\ Apart(tree', G \cup out, left)
          /\ Filled(tree', content')
      BY Zenon, <1>8, EvictStep
    <2>2. out \cap G = {} /\ out \subseteq Pages
      BY Zenon, <1>8, EvictStep
    <2>3. \A r \in Reqs : left[r] \cap out = {}
      BY ZenonT(30), <1>8, EvictStep
    <2>4. Retains(t, tree', Q, last, out)
      BY Zenon, <1>8, EvictStep
    <2>5. Sheds(t, tree', out)
      BY Zenon, <1>8, EvictStep
    <2> QED
      BY Zenon, <2>1, <2>2, <2>3, <2>4, <2>5
  <1>10. free_pages' = G \cup out /\ ~double_free'
    BY Zenon, <1>1, <1>2, <1>7, <1>9
  <1>11. \A q \in Reqs : \A p \in left[q] : p \in Pages => content'[p] = content[p]
    BY Zenon, <1>6, <1>3, <1>9 DEF Apart
  <1>12. \A x \in Cached(t) : t.value[x] \notin out => content'[t.value[x]] = content[t.value[x]]
    BY Zenon, <1>4, <1>6
  <1>13. Safe(t, Q, last, left)
    BY Zenon, <1>9, <1>11, <1>12 DEF Retains, Safe
  <1>14. free_pages' = (free_pages \cup pages) \cup out
    BY Zenon, <1>7, <1>10
  <1> QED
    BY Zenon, <1>9, <1>10, <1>13, <1>14 DEF EndsEvicting

(* Locks looks at the last nodes of the requests of Q only.                  *)
LEMMA LocksEq ==
  ASSUME NEW t, NEW Q, NEW last, NEW new, Locks(t, Q, last), \A q \in Q : new[q] = last[q]
  PROVE  Locks(t, Q, new)
  <1>1. \A n \in Nodes(t) : {r \in Q : n \preceq new[r]} = {r \in Q : n \preceq last[r]}
    BY Zenon
  <1> QED
    BY Zenon DEF Locks

-----------------------------------------------------------------------------
(* The tree u and the content d keep what the request q uses.                *)
Undisturbed(q, u, d) ==
  /\ q \in Holders => \A y \in Cached(tree) : y \preceq last_node[q] =>
       y \in Cached(u) /\ u.value[y] = tree.value[y] /\ d[tree.value[y]] = content[tree.value[y]]
  /\ \A p \in Owned[q] : p \in Pages => d[p] = content[p]

(* A request that an operation of another one does not disturb.              *)
LEMMA Others ==
  ASSUME KVInv, NEW q \in Reqs, NEW u, NEW d, Undisturbed(q, u, d)
  PROVE  ReqInv(u, d, req_to_token[q], kv_committed_len[q], cache_protected_len[q],
                last_node[q], extend_end[q], stage[q], ids[q])
  <1>1. ReqInv(tree, content, req_to_token[q], kv_committed_len[q], cache_protected_len[q],
               last_node[q], extend_end[q], stage[q], ids[q])
    BY Zenon DEF KVInv
  <1>2. \A p \in OwnPages(req_to_token[q], cache_protected_len[q]) : d[p] = content[p]
    <2>1. req_to_token[q] \in Seq(Pages) /\ cache_protected_len[q] \div PageSize \in Nat
      BY Zenon, DivPage DEF KVInv
    <2>2. OwnPages(req_to_token[q], cache_protected_len[q]) \subseteq Pages
      BY <2>1 DEF OwnPages
    <2> QED
      BY Zenon, <2>2 DEF Undisturbed, Owned
  <1>3. stage[q] \notin {"none", "waiting"} =>
          \A y \in Cached(tree) : y \preceq last_node[q] =>
            y \in Cached(u) /\ u.value[y] = tree.value[y] /\ d[tree.value[y]] = content[tree.value[y]]
    BY Zenon DEF Undisturbed, Holders, Locking
  <1>4. Keeps(tree, content, req_to_token[q], cache_protected_len[q], last_node[q], stage[q], u, d)
    BY Zenon, <1>2, <1>3 DEF Keeps
  <1> QED
    BY Zenon, <1>1, <1>4, ReqKept

(* The empty tree.                                                           *)
LEMMA EmptyTreeProps ==
  ASSUME GreatestExists, NEW F \in SUBSET Pages, NEW last, NEW c, NEW own, \A r \in Reqs : own[r] = {}
  PROVE  /\ Shape(EmptyTree, Tokens, Pages) /\ Locks(EmptyTree, {}, last)
         /\ Apart(EmptyTree, F, own) /\ Filled(EmptyTree, c)
  <1>1. /\ DOMAIN EmptyTree = Fields /\ EmptyTree.value = <<>> /\ EmptyTree.lock_ref = <<>>
        /\ EmptyTree.evictable_leaves = {}
    BY Zenon DEF EmptyTree, Fields
  <1>2. Cached(EmptyTree) = {} /\ Nodes(EmptyTree) = {}
    BY <1>1 DEF Cached, Nodes
  <1> QED
    BY Zenon, <1>1, <1>2 DEF Shape, Locks, Apart, Filled

(* A request without KV.                                                     *)
LEMMA NoKV ==
  ASSUME NEW t, NEW c, NEW last, NEW end \in Nat, NEW st \in {"none", "waiting"},
         NEW tok \in Seq(Tokens)
  PROVE  ReqInv(t, c, <<>>, 0, 0, last, end, st, tok)
  <1>1. 0 \div PageSize = 0 /\ <<>> \in Seq(Pages) /\ Len(<<>>) = 0
    BY PageSizeAssumption
  <1> QED
    BY <1>1 DEF ReqInv, Stages

(* The entries of a request that holds KV.                                   *)
LEMMA HoldsProps ==
  ASSUME KVInv, NEW r \in Reqs, HoldsKV(r)
  PROVE  /\ ReqInv(tree, content, req_to_token[r], kv_committed_len[r], cache_protected_len[r],
                   last_node[r], extend_end[r], stage[r], ids[r])
         /\ req_to_token[r] \in Seq(Pages) /\ kv_committed_len[r] \in Nat /\ ids[r] \in Seq(Tokens)
         /\ cache_protected_len[r] \in Nat /\ extend_end[r] \in Nat /\ stage[r] \in Stages
         /\ Len(req_to_token[r]) = NumPages(kv_committed_len[r])
         /\ cache_protected_len[r] % PageSize = 0 /\ cache_protected_len[r] <= extend_end[r]
         /\ extend_end[r] <= kv_committed_len[r] /\ kv_committed_len[r] <= Len(ids[r])
         /\ \A i \in 1..Len(req_to_token[r]) :
              content[req_to_token[r][i]] = Key(ids[r], Fill(i, kv_committed_len[r]))
         /\ \A i \in 1..(cache_protected_len[r] \div PageSize) :
              /\ Key(ids[r], i * PageSize) \in Cached(tree)
              /\ req_to_token[r][i] = tree.value[Key(ids[r], i * PageSize)]
         /\ \A i, j \in OwnAt(r) : req_to_token[r][i] = req_to_token[r][j] => i = j
         /\ r \in Holders
  <1>1. ReqInv(tree, content, req_to_token[r], kv_committed_len[r], cache_protected_len[r],
               last_node[r], extend_end[r], stage[r], ids[r])
    BY Zenon DEF KVInv
  <1>2. stage[r] \in {"chunked", "cached", "extended", "decoding"} /\ r \in Holders
    BY Zenon DEF HoldsKV, Holders, Locking
  <1> QED
    BY Zenon, <1>1, <1>2 DEF ReqInv, OwnAt, ProtectedPages

(* The prefix length that a batch is built with is a natural number.         *)
LEMMA PrefixNat == ASSUME KVInv, NEW r \in Reqs PROVE PrefixLen(r) \in Nat
  BY Zenon DEF KVInv, PrefixLen

-----------------------------------------------------------------------------
(* The initial state, and the operations on requests that hold no KV and on
   the cache alone. *)

(* The empty tree and pools with which the scheduler starts.                 *)
LEMMA InitInv ==
  ASSUME GreatestExists, Counts(Reqs), KVInit
  PROVE  KVInv
  <1> USE DEF KVInit
  <1>1. Holders = {}
    BY Zenon DEF Holders, Locking
  <1>2. \A r \in Reqs : Owned[r] = {}
    BY Zenon, NoOwn DEF Owned
  <1>3. /\ Shape(tree, Tokens, Pages) /\ Locks(tree, Holders, last_node)
        /\ Apart(tree, free_pages, Owned) /\ Filled(tree, content)
    BY ZenonT(30), <1>1, <1>2, EmptyTreeProps
  <1>4. \A r \in Reqs :
          ReqInv(tree, content, req_to_token[r], kv_committed_len[r], cache_protected_len[r],
                 last_node[r], extend_end[r], stage[r], ids[r])
    <2>1. "none" \in {"none", "waiting"} /\ 0 \in Nat /\ <<>> \in Seq(Tokens)
      OBVIOUS
    <2> HIDE DEF KVInit
    <2>2. ReqInv(tree, content, <<>>, 0, 0, root, 0, "none", <<>>)
      BY Zenon, <2>1, NoKV
    <2>3. \A r \in Reqs :
            /\ req_to_token[r] = <<>> /\ kv_committed_len[r] = 0 /\ cache_protected_len[r] = 0
            /\ last_node[r] = root /\ extend_end[r] = 0 /\ stage[r] = "none" /\ ids[r] = <<>>
      BY Zenon DEF KVInit
    <2> QED
      BY Zenon, <2>2, <2>3
  <1> QED
    BY <1>3, <1>4 DEF KVInv, Stages, root

(* A request that enters or leaves the waiting queue holds nothing.          *)
LEMMA QueueInv ==
  ASSUME KVInv, NEW r \in Reqs, NEW s \in Seq(Tokens), NEW to \in {"none", "waiting"},
         stage[r] \in {"none", "waiting"},
         stage' = [stage EXCEPT ![r] = to], ids' = [ids EXCEPT ![r] = s],
         UNCHANGED <<tree, free_pages, req_to_token, kv_committed_len, cache_protected_len,
                     last_node, extend_end, content, double_free>>
  PROVE  KVInv'
  <1>1. Holders' = Holders /\ Owned' = Owned
    BY Zenon DEF Holders, Locking, Owned, KVInv
  <1>2. ASSUME NEW q \in Reqs
        PROVE  ReqInv(tree, content, req_to_token[q], kv_committed_len[q], cache_protected_len[q],
                      last_node[q], extend_end[q], stage'[q], ids'[q])
    <2>1. ReqInv(tree, content, req_to_token[q], kv_committed_len[q], cache_protected_len[q],
                 last_node[q], extend_end[q], stage[q], ids[q])
      BY Zenon DEF KVInv
    <2>2. CASE q = r
      <3>1. stage'[q] = to /\ ids'[q] = s /\ stage[q] \in {"none", "waiting"}
        BY Zenon, <2>2 DEF KVInv
      <3> QED
        BY Zenon, <3>1, <2>1 DEF ReqInv, Stages
    <2>3. CASE q # r
      BY Zenon, <2>3 DEF KVInv
    <2> QED
      BY Zenon, <2>2, <2>3
  <1>3. ids' \in [Reqs -> Seq(Tokens)] /\ stage' \in [Reqs -> Stages]
    BY Zenon DEF KVInv, Stages
  <1> QED
    BY Zenon, <1>1, <1>2, <1>3 DEF KVInv

(* _add_request_to_queue appends a new request.                              *)
LEMMA SubmitInv ==
  ASSUME KVInv, NEW r \in Reqs, Submit(r)
  PROVE  KVInv'
  <1>1. PICK s \in Seq(Tokens) : ids' = [ids EXCEPT ![r] = s]
    BY Zenon, KVAssumption DEF Submit
  <1> QED
    BY Zenon, <1>1, QueueInv DEF Submit, reqVars

(* abort_request pops a request that waits.                                  *)
LEMMA AbortInv ==
  ASSUME KVInv, NEW r \in Reqs, Abort(r)
  PROVE  KVInv'
  <1>1. <<>> \in Seq(Tokens)
    OBVIOUS
  <1> QED
    BY Zenon, <1>1, QueueInv DEF Abort, reqVars

(* flush_cache resets the tree and the pools while no request holds pages.   *)
LEMMA FlushInv ==
  ASSUME KVInv, FlushCache
  PROVE  KVInv'
  <1>1. /\ \A r \in Reqs : stage[r] = "none"
        /\ tree' = EmptyTree /\ free_pages' = Pages
        /\ UNCHANGED <<req_to_token, kv_committed_len, cache_protected_len, last_node, extend_end,
                       stage, ids, double_free>>
    BY Zenon DEF FlushCache, reqVars
  <1>2. Holders' = {} /\ Owned' = Owned
    BY Zenon, <1>1 DEF Holders, Locking, Owned
  <1>3. \A r \in Reqs : Owned[r] = {} /\ r \notin Holders
    <2>1. ASSUME NEW r \in Reqs PROVE req_to_token[r] = <<>> /\ cache_protected_len[r] = 0
      BY Zenon, <1>1 DEF KVInv, ReqInv
    <2> QED
      BY Zenon, <2>1, <1>1, NoOwn DEF Owned, Holders, Locking
  <1>4. /\ Shape(EmptyTree, Tokens, Pages) /\ Locks(EmptyTree, {}, last_node)
        /\ Apart(EmptyTree, Pages, Owned) /\ Filled(EmptyTree, content')
    <2>1. GreatestExists
      BY Zenon DEF KVInv, Shape
    <2> QED
      BY Zenon, <2>1, <1>3, EmptyTreeProps
  <1>5. \A q \in Reqs : Undisturbed(q, EmptyTree, content')
    BY Zenon, <1>3 DEF Undisturbed
  <1>6. \A q \in Reqs : ReqInv(EmptyTree, content', req_to_token[q], kv_committed_len[q],
          cache_protected_len[q], last_node[q], extend_end[q], stage[q], ids[q])
    BY Zenon, <1>5, Others
  <1> QED
    BY Zenon, <1>1, <1>2, <1>4, <1>6 DEF KVInv

(* The eviction of check_decode_mem.                                         *)
LEMMA CheckDecodeMemInv ==
  ASSUME KVInv, NEW num, CheckDecodeMem(num)
  PROVE  KVInv' /\ Allocates /\ UNCHANGED <<last_node, stage>>
  <1>1. /\ FreeThenEvict(<<>>, {}, tree, num)
        /\ UNCHANGED <<req_to_token, kv_committed_len, cache_protected_len, last_node, extend_end,
                       stage, ids>>
    BY Zenon DEF CheckDecodeMem, reqVars
  <1>2. Holders' = Holders /\ Owned' = Owned
    BY Zenon, <1>1 DEF Holders, Locking, Owned
  <1>3. /\ Shape(tree, Tokens, Pages) /\ Locks(tree, Holders, last_node) /\ Filled(tree, content)
        /\ Apart(tree, free_pages \cup {}, Owned) /\ ~double_free
    BY Zenon DEF KVInv
  <1>4. PICK none : none = {}
    BY Zenon
  <1>5. none = {<<>>[i] : i \in {}} /\ none \subseteq Pages /\ none \cap free_pages = {}
        /\ Apart(tree, free_pages \cup none, Owned)
    BY Zenon, <1>3, <1>4
  <1>6. /\ Shape(tree', Tokens, Pages) /\ Locks(tree', Holders, last_node)
        /\ Apart(tree', free_pages', Owned) /\ Filled(tree', content') /\ ~double_free'
        /\ Safe(tree, Holders, last_node, Owned)
        /\ EndsEvicting(tree, free_pages \cup none)
    <2>1. Frees(tree, Holders, last_node, <<>>, {}, num, none, Owned)
      BY Zenon, <1>1, <1>3, <1>5, HoldersCounted DEF Frees
    <2> QED
      BY Zenon, <2>1, FreeStep
  <1>7. \A q \in Reqs : Undisturbed(q, tree', content')
    BY Zenon, <1>6 DEF Undisturbed, Safe
  <1>8. \A q \in Reqs : ReqInv(tree', content', req_to_token[q], kv_committed_len[q],
          cache_protected_len[q], last_node[q], extend_end[q], stage[q], ids[q])
    BY Zenon, <1>7, Others
  <1>9. EndsEvicting(tree, free_pages)
    <2>1. free_pages \cup none = free_pages
      BY Zenon, <1>4
    <2> QED
      BY Zenon, <2>1, <1>6
  <1>10. Allocates
    BY Zenon, <1>2, <1>9, NothingAllocated
  <1> QED
    BY Zenon, <1>1, <1>2, <1>6, <1>8, <1>10 DEF KVInv

-----------------------------------------------------------------------------
(* What match_prefix finds for a waiting request.                            *)
LEMMA MatchStep ==
  ASSUME KVInv, NEW r \in Reqs, NEW s \in MatchKeys(r)
  PROVE  LET x == Matched(tree, s)
             u == MatchPrefix(tree, s)
         IN  /\ Shape(u, Tokens, Pages) /\ u.value = tree.value /\ Locks(u, Holders, last_node)
             /\ x \in Nodes(u) \cup {root} /\ x \in Cached(tree) \cup {root}
             /\ Len(x) \in 0..Len(ids[r]) /\ Len(x) % PageSize = 0 /\ x = Key(ids[r], Len(x))
  <1> DEFINE x == Matched(tree, s)
             u == MatchPrefix(tree, s)
  <1>1. PICK n \in 0..(Len(ids[r]) - 1) : s = Key(ids[r], PageAligned(n))
    BY Zenon DEF MatchKeys
  <1>2. ids[r] \in Seq(Tokens)
    BY Zenon DEF KVInv
  <1>3. n \in Nat /\ PageAligned(n) \in 0..Len(ids[r])
    BY <1>1, AlignedProps
  <1>4. s \in Seq(Tokens) /\ s \preceq ids[r]
    BY Zenon, <1>1, <1>2, <1>3, KeyProps, PrefixKey
  <1>5. Shape(tree, Tokens, Pages) /\ Locks(tree, Holders, last_node)
    BY Zenon DEF KVInv
  <1>6. x \in Seq(Tokens) /\ x \preceq s /\ x \in Cached(tree) \cup {root}
    BY Zenon, <1>4, <1>5, MatchedProps DEF Shape
  <1>7. /\ Shape(u, Tokens, Pages) /\ u.value = tree.value
        /\ Nodes(u) = Nodes(tree) \cup ({x} \ {root})
    BY <1>6, <1>5, SplitShape DEF MatchPrefix
  <1>8. Locks(u, Holders, last_node)
    BY Zenon, <1>6, <1>5, SplitLocks DEF MatchPrefix
  <1> HIDE DEF x, u
  <1>9. x \preceq ids[r]
    BY Zenon, <1>2, <1>4, <1>6, PrefixOrder
  <1>10. Len(x) \in 0..Len(ids[r]) /\ x = Key(ids[r], Len(x))
    BY ZenonT(30), <1>2, <1>6, <1>9, PrefixKey
  <1>11. Len(x) % PageSize = 0
    <2>1. CASE x = root
      BY <2>1, PageSizeAssumption DEF root
    <2>2. CASE x \in Cached(tree)
      BY Zenon, <2>2, <1>5 DEF Shape
    <2> QED
      BY Zenon, <2>1, <2>2, <1>6
  <1>12. x \in Nodes(u) \cup {root}
    BY Zenon, <1>7
  <1> QED
    BY Zenon, <1>6, <1>7, <1>8, <1>10, <1>11, <1>12 DEF x, u

(* match_prefix alone: it may split a node, and no more.                     *)
LEMMA RefuseInv ==
  ASSUME KVInv, NEW r \in Reqs, Refuse(r)
  PROVE  KVInv' /\ tree'.value = tree.value
  <1>1. /\ UNCHANGED <<free_pages, req_to_token, kv_committed_len, cache_protected_len,
                       last_node, extend_end, stage, ids, content, double_free>>
        /\ \E s \in MatchKeys(r) : tree' = MatchPrefix(tree, s)
    BY Zenon DEF Refuse, reqVars
  <1>2. Shape(tree', Tokens, Pages) /\ tree'.value = tree.value /\ Locks(tree', Holders, last_node)
    BY SMTT(30), <1>1, MatchStep
  <1>3. Holders' = Holders /\ Owned' = Owned
    BY Zenon, <1>1 DEF Holders, Locking, Owned
  <1>4. \A q \in Reqs : Undisturbed(q, tree', content)
    BY Zenon, <1>2 DEF Undisturbed, Cached
  <1>5. \A q \in Reqs : ReqInv(tree', content, req_to_token[q], kv_committed_len[q],
          cache_protected_len[q], last_node[q], extend_end[q], stage[q], ids[q])
    BY Zenon, <1>4, Others
  <1>6. Apart(tree', free_pages, Owned) /\ Filled(tree', content)
    BY ZenonT(30), <1>2 DEF KVInv, Apart, Filled, Cached
  <1> QED
    BY Zenon, <1>1, <1>2, <1>3, <1>5, <1>6 DEF KVInv

(* add_one_req: the request locks the path that match_prefix returns.        *)
LEMMA AdmitInv ==
  ASSUME KVInv, NEW r \in Reqs, Admit(r)
  PROVE  /\ KVInv' /\ tree'.value = tree.value /\ \A q \in Reqs : Owned'[q] = Owned[q]
         /\ r \notin Holders /\ Holders' = Holders \cup {r}
         /\ last_node' = [last_node EXCEPT ![r] = last_node'[r]]
         /\ last_node'[r] \in Cached(tree) \cup {root}
  <1>1. /\ UNCHANGED <<free_pages, kv_committed_len, extend_end, ids, content, double_free>>
        /\ stage[r] = "waiting" /\ stage' = [stage EXCEPT ![r] = "admitted"]
    BY Zenon DEF Admit
  <1>2. PICK s \in MatchKeys(r) :
          LET x == Matched(tree, s) IN
          /\ tree' = IncLockRef(MatchPrefix(tree, s), x)
          /\ req_to_token' = [req_to_token EXCEPT ![r] =
               [i \in 1..(Len(x) \div PageSize) |-> tree.value[Key(x, i * PageSize)]]]
          /\ cache_protected_len' = [cache_protected_len EXCEPT ![r] = Len(x)]
          /\ last_node' = [last_node EXCEPT ![r] = x]
    BY Zenon DEF Admit
  <1>3. PICK x, u : x = Matched(tree, s) /\ u = MatchPrefix(tree, s)
    BY Zenon
  <1>4. PICK row : row = [i \in 1..(Len(x) \div PageSize) |-> tree.value[Key(x, i * PageSize)]]
    BY Zenon
  <1>5. /\ tree' = IncLockRef(u, x) /\ req_to_token' = [req_to_token EXCEPT ![r] = row]
        /\ cache_protected_len' = [cache_protected_len EXCEPT ![r] = Len(x)]
        /\ last_node' = [last_node EXCEPT ![r] = x]
    BY Zenon, <1>2, <1>3, <1>4
  <1>6. /\ Shape(u, Tokens, Pages) /\ u.value = tree.value /\ Locks(u, Holders, last_node)
        /\ x \in Nodes(u) \cup {root} /\ x \in Cached(tree) \cup {root}
        /\ Len(x) \in 0..Len(ids[r]) /\ Len(x) % PageSize = 0 /\ x = Key(ids[r], Len(x))
    BY Zenon, <1>3, MatchStep
  <1>7. PICK new : new = last_node'
    BY Zenon
  <1>8. new[r] = x /\ \A q \in Reqs \ {r} : new[q] = last_node[q]
    BY Zenon, <1>5, <1>7 DEF KVInv
  <1>9. r \notin Holders /\ Holders \subseteq Reqs /\ Holders' = Holders \cup {r}
    BY Zenon, <1>1 DEF Holders, Locking, KVInv
  <1>10. LET w == IncLockRef(u, x) IN
         /\ Shape(w, Tokens, Pages) /\ w.value = u.value /\ Nodes(w) = Nodes(u)
         /\ Locks(w, Holders \cup {r}, new)
    <2>1. Locker(u, Tokens, Pages, Holders, last_node, r, x, new)
      BY Zenon, <1>6, <1>8, <1>9, HoldersCounted DEF Locker
    <2> QED
      BY Zenon, <2>1, IncLocks
  <1>11. /\ Shape(tree', Tokens, Pages) /\ tree'.value = tree.value
         /\ Locks(tree', Holders', last_node')
    BY Zenon, <1>5, <1>6, <1>7, <1>8, <1>9, <1>10
  <1>12. /\ ids[r] \in Seq(Tokens) /\ Len(x) \in Nat /\ Len(x) \div PageSize \in Nat
         /\ Shape(tree, Tokens, Pages)
    BY SMTT(30), <1>6, DivPage DEF KVInv
  <1>13. ASSUME NEW i \in 1..(Len(x) \div PageSize)
         PROVE  /\ Key(ids[r], i * PageSize) = Key(x, i * PageSize) /\ Key(x, i * PageSize) \preceq x
                /\ Key(x, i * PageSize) \in Cached(tree) /\ tree.value[Key(x, i * PageSize)] \in Pages
    <2>1. i * PageSize \in 1..Len(x) /\ (i * PageSize) % PageSize = 0
      BY SMTT(30), <1>12, PageSizeAssumption
    <2>2. x \in Cached(tree) /\ x \in Seq(Tokens)
      BY SMTT(30), <2>1, <1>6, <1>12 DEF root, Shape
    <2>3. Key(x, i * PageSize) \in Cached(tree)
      BY Zenon, <2>1, <2>2, <1>12 DEF Shape
    <2>4. Key(ids[r], i * PageSize) = Key(x, i * PageSize) /\ Key(x, i * PageSize) \preceq x
      BY SMTT(30), <2>1, <2>2, <1>6, <1>12, PrefixKey
    <2> QED
      BY Zenon, <2>3, <2>4, <1>12 DEF Shape
  <1>14. row \in Seq(Pages) /\ Len(row) = Len(x) \div PageSize
         /\ \A i \in 1..(Len(x) \div PageSize) : row[i] = tree.value[Key(x, i * PageSize)]
    BY SMTT(30), <1>4, <1>12, <1>13
  <1>15. \A q \in Reqs : Owned'[q] = Owned[q]
    <2>1. Owned[r] = {}
      <3>1. req_to_token[r] = <<>> /\ cache_protected_len[r] = 0
        BY ZenonT(30), <1>1 DEF KVInv, ReqInv
      <3> QED
        BY Zenon, <3>1, NoOwn DEF Owned
    <2>2. Owned'[r] = {}
      <3>1. req_to_token'[r] = row /\ cache_protected_len'[r] = Len(x)
        BY Zenon, <1>5 DEF KVInv
      <3>2. OwnPages(row, Len(x)) = {}
        BY SMTT(30), <1>14 DEF OwnPages
      <3> QED
        BY Zenon, <3>1, <3>2 DEF Owned
    <2>3. \A q \in Reqs \ {r} : Owned'[q] = Owned[q]
      BY Zenon, <1>5 DEF Owned, KVInv
    <2> QED
      BY Zenon, <2>1, <2>2, <2>3
  <1>16. Apart(tree', free_pages', Owned') /\ Filled(tree', content')
    BY ZenonT(30), <1>1, <1>11, <1>15 DEF KVInv, Apart, Filled, Cached
  <1>17. ReqInv(tree', content, row, kv_committed_len[r], Len(x), x, extend_end[r], "admitted", ids[r])
    <2>1. kv_committed_len[r] \in Nat /\ extend_end[r] \in Nat
      BY Zenon DEF KVInv
    <2>2. \A i \in 1..(Len(x) \div PageSize) :
            /\ Key(ids[r], i * PageSize) \in Cached(tree') /\ Key(ids[r], i * PageSize) \preceq x
            /\ row[i] = tree'.value[Key(ids[r], i * PageSize)]
      BY Zenon, <1>11, <1>13, <1>14 DEF Cached
    <2>3. Len(x) <= Len(ids[r]) /\ Len(x) \div PageSize <= Len(row)
      BY SMTT(30), <1>6, <1>12, <1>14
    <2>4. \A i, j \in (Len(x) \div PageSize + 1)..Len(row) : row[i] = row[j] => i = j
      BY SMTT(30), <1>14
    <2> QED
      BY Zenon, <2>1, <2>2, <2>3, <2>4, <1>6, <1>12, <1>14 DEF ReqInv, Stages
  <1>18. ASSUME NEW q \in Reqs
         PROVE  ReqInv(tree', content, req_to_token'[q], kv_committed_len[q], cache_protected_len'[q],
                       last_node'[q], extend_end[q], stage'[q], ids[q])
    <2>1. CASE q = r
      BY Zenon, <2>1, <1>1, <1>5, <1>17 DEF KVInv
    <2>2. CASE q # r
      <3>1. Undisturbed(q, tree', content)
        BY ZenonT(30), <1>11 DEF Undisturbed, Cached
      <3>2. ReqInv(tree', content, req_to_token[q], kv_committed_len[q], cache_protected_len[q],
                   last_node[q], extend_end[q], stage[q], ids[q])
        BY ZenonT(30), <3>1, Others
      <3> QED
        BY Zenon, <2>2, <3>2, <1>1, <1>5 DEF KVInv
    <2> QED
      BY Zenon, <2>1, <2>2
  <1>19. /\ req_to_token' \in [Reqs -> Seq(Pages)] /\ last_node' \in [Reqs -> Seq(Tokens)]
         /\ cache_protected_len' \in [Reqs -> Nat] /\ stage' \in [Reqs -> Stages]
    <2>1. x \in Seq(Tokens)
      BY ZenonT(30), <1>6, <1>12, KeyProps
    <2> QED
      BY ZenonT(30), <2>1, <1>1, <1>5, <1>12, <1>14 DEF KVInv, Stages
  <1>20. KVInv'
    BY ZenonT(30), <1>1, <1>11, <1>16, <1>18, <1>19 DEF KVInv
  <1>21. last_node' = [last_node EXCEPT ![r] = last_node'[r]] /\ last_node'[r] \in Cached(tree) \cup {root}
    BY ZenonT(30), <1>5, <1>6, <1>7, <1>8
  <1> QED
    BY Zenon, <1>9, <1>11, <1>15, <1>20, <1>21

-----------------------------------------------------------------------------
(* Inserting the pages of a request into the tree. *)

(* insert of the first n tokens of a request: of its own pages, those up to
   the matched length m are duplicates of pages of the tree, those between m
   and n become pages of the tree, and the others stay its own.             *)
Inserts(r, n, s, m, v, pages, left) ==
  /\ KVInv /\ r \in Reqs /\ HoldsKV(r) /\ n \in Nat /\ n % PageSize = 0
  /\ cache_protected_len[r] <= n /\ n <= kv_committed_len[r]
  /\ s = Key(ids[r], n) /\ m = MatchLen(tree, s) /\ v = Insert(tree, s, req_to_token[r])
  /\ pages = {req_to_token[r][i] : i \in Duplicates(r, m)}
  /\ left = [Owned EXCEPT ![r] = OwnPages(req_to_token[r], n)]

(* What it leaves: the tree v, and pages to free.                            *)
Inserted(r, n, s, m, v, pages, left) ==
  /\ Shape(v, Tokens, Pages) /\ Locks(v, Holders, last_node)
  /\ s \in Seq(Tokens) /\ Len(s) = n /\ s \in Nodes(v) \cup {root}
  /\ Cached(tree) \subseteq Cached(v) /\ \A y \in Cached(tree) : v.value[y] = tree.value[y]
  /\ Apart(v, free_pages \cup pages, left) /\ Filled(v, content)
  /\ pages \subseteq Pages /\ pages \cap free_pages = {}
  /\ m \in Nat /\ m % PageSize = 0 /\ cache_protected_len[r] <= m /\ m <= n
  /\ Owned[r] = pages \cup left[r] \cup {v.value[y] : y \in Cached(v) \ Cached(tree)}

(* Every page that insert hands over is in one place afterwards.             *)
LEMMA InsertStep ==
  ASSUME NEW r, NEW n, NEW s, NEW m, NEW v, NEW pages, NEW left,
         Inserts(r, n, s, m, v, pages, left)
  PROVE  Inserted(r, n, s, m, v, pages, left)
  <1> USE DEF Inserts
  <1>1. PICK row, com, prot, tok :
          /\ row = req_to_token[r] /\ com = kv_committed_len[r]
          /\ prot = cache_protected_len[r] /\ tok = ids[r]
    BY ZenonT(30)
  <1>2. /\ r \in Reqs /\ n \in Nat /\ n % PageSize = 0 /\ prot <= n /\ n <= com
        /\ s = Key(tok, n) /\ m = MatchLen(tree, s) /\ v = Insert(tree, s, row)
        /\ Shape(tree, Tokens, Pages) /\ Locks(tree, Holders, last_node)
        /\ Apart(tree, free_pages, Owned) /\ Filled(tree, content) /\ Counts(Holders)
    BY ZenonT(30), <1>1, HoldersCounted DEF KVInv
  <1>3. /\ row \in Seq(Pages) /\ com \in Nat /\ prot \in Nat /\ tok \in Seq(Tokens)
        /\ Len(row) = NumPages(com) /\ com <= Len(tok) /\ prot % PageSize = 0
        /\ \A i \in 1..Len(row) : content[row[i]] = Key(tok, Fill(i, com))
        /\ \A i \in 1..(prot \div PageSize) : Key(tok, i * PageSize) \in Cached(tree)
        /\ \A i, j \in (prot \div PageSize + 1)..Len(row) : row[i] = row[j] => i = j
    <2>1. ReqInv(tree, content, row, com, prot, last_node[r], extend_end[r], stage[r], tok)
      BY Zenon, <1>1 DEF KVInv
    <2>2. stage[r] \in {"chunked", "cached", "extended", "decoding"}
      BY Zenon DEF HoldsKV
    <2> HIDE DEF Inserts
    <2> QED
      BY ZenonT(30), <2>1, <2>2 DEF ReqInv
  <1>4. /\ pages = {row[i] : i \in (prot \div PageSize + 1)..(m \div PageSize)}
        /\ Owned[r] = OwnPages(row, prot) /\ left[r] = OwnPages(row, n)
        /\ \A q \in Reqs : q # r => left[q] = Owned[q]
    BY Zenon, <1>1 DEF Duplicates, ProtectedPages, Owned
  <1> HIDE DEF Inserts
  <1>5. /\ n \div PageSize \in 0..Len(row) /\ (n \div PageSize) * PageSize = n
        /\ \A i \in 1..(n \div PageSize) :
             i * PageSize \in 1..n /\ (i * PageSize) % PageSize = 0 /\ Fill(i, com) = i * PageSize
    BY ZenonT(30), <1>2, <1>3, PageCount
  <1>6. /\ s \in Seq(Tokens) /\ Len(s) = n
        /\ \A k \in 0..n : Key(s, k) = Key(tok, k)
    BY SMTT(30), <1>2, <1>3, KeyProps, PrefixKey
  <1>7. \A i \in 1..(Len(s) \div PageSize) : row[i] \in Pages
    BY SMTT(30), <1>3, <1>5, <1>6
  <1>8. /\ m \in 0..n /\ (m = 0 \/ Key(s, m) \in Cached(tree))
        /\ \A j \in (m + 1)..n : Key(s, j) \notin Cached(tree)
    <2>1. GreatestExists
      BY Zenon, <1>2 DEF Shape
    <2> QED
      BY Zenon, <2>1, <1>2, <1>6, MatchProps
  <1>9. m % PageSize = 0
    <2>1. m # 0 => Len(Key(s, m)) % PageSize = 0
      BY ZenonT(30), <1>2, <1>8 DEF Shape
    <2>2. Len(Key(s, m)) = m
      BY ZenonT(30), <1>6, <1>8, KeyProps
    <2> QED
      BY SMTT(30), <2>1, <2>2, <1>8, PageSizeAssumption
  <1>10. prot <= m
    <2>1. CASE prot = 0
      BY <2>1, <1>8
    <2>2. CASE prot # 0
      <3>1. prot \div PageSize \in 1..(prot \div PageSize) /\ (prot \div PageSize) * PageSize = prot
        <4>1. 0 % PageSize = 0 /\ 0 \div PageSize = 0 /\ prot \in 1..prot
          BY <2>2, <1>3, PageSizeAssumption
        <4> QED
          BY SMTT(30), <4>1, <1>3, PageRange
      <3>2. Key(tok, prot) \in Cached(tree)
        BY Zenon, <3>1, <1>3
      <3>3. Key(s, prot) \in Cached(tree) /\ prot \in 1..n
        BY SMTT(30), <3>2, <2>2, <1>2, <1>3, <1>6
      <3> QED
        BY SMTT(30), <3>3, <1>8
    <2> QED
      BY Zenon, <2>1, <2>2
  <1>11. /\ m \div PageSize \in Nat /\ prot \div PageSize \in Nat /\ n \div PageSize \in Nat
         /\ prot \div PageSize <= m \div PageSize /\ m \div PageSize <= n \div PageSize
         /\ n \div PageSize <= Len(row)
    <2>1. m \in Nat /\ m <= n
      BY <1>8
    <2> QED
      BY SMTT(30), <2>1, <1>2, <1>3, <1>5, <1>9, <1>10, PageRange
  <1>12. PICK new : new = {Key(s, k) : k \in {j \in (m + 1)..Len(s) : j % PageSize = 0}}
    BY ZenonT(30)
  <1>13. /\ Shape(v, Tokens, Pages) /\ Cached(v) = Cached(tree) \cup new /\ Cached(tree) \cap new = {}
         /\ \A y \in Cached(tree) : v.value[y] = tree.value[y]
         /\ \A y \in new : v.value[y] = row[Len(y) \div PageSize]
         /\ s \in Nodes(v) \cup {root}
    <2>1. /\ Shape(tree, Tokens, Pages) /\ s \in Seq(Tokens) /\ Len(s) % PageSize = 0
          /\ \A i \in 1..(Len(s) \div PageSize) : row[i] \in Pages
      BY Zenon, <1>2, <1>6, <1>7
    <2>2. LET k == MatchLen(tree, s)
              add == {Key(s, i) : i \in {j \in (k + 1)..Len(s) : j % PageSize = 0}}
              u == SplitNode(tree, Matched(tree, s))
              w == Insert(tree, s, row)
          IN  /\ Shape(w, Tokens, Pages)
              /\ Cached(w) = Cached(tree) \cup add /\ Cached(tree) \cap add = {}
              /\ \A y \in Cached(tree) : w.value[y] = tree.value[y]
              /\ \A y \in add : w.value[y] = row[Len(y) \div PageSize]
              /\ Nodes(w) = Nodes(u) \cup ({s} \ {root})
              /\ \A x \in Nodes(u) : w.lock_ref[x] = u.lock_ref[x]
              /\ s \notin Nodes(u) /\ s # root => w.lock_ref[s] = 0 /\ s \notin Cached(tree)
      BY Zenon, <2>1, InsertShape
    <2>3. m = MatchLen(tree, s) /\ v = Insert(tree, s, row)
      BY Zenon, <1>2
    <2>4. /\ Shape(v, Tokens, Pages) /\ Cached(v) = Cached(tree) \cup new
          /\ Cached(tree) \cap new = {}
          /\ \A y \in Cached(tree) : v.value[y] = tree.value[y]
          /\ \A y \in new : v.value[y] = row[Len(y) \div PageSize]
          /\ Nodes(v) = Nodes(SplitNode(tree, Matched(tree, s))) \cup ({s} \ {root})
      BY ZenonT(30), <2>2, <2>3, <1>12
    <2> QED
      BY Zenon, <2>4
  <1>14. Locks(v, Holders, last_node)
    BY Zenon, <1>2, <1>6, <1>7, InsertLocks
  <1>15. ASSUME NEW y \in new
         PROVE  \E i \in (m \div PageSize + 1)..(n \div PageSize) :
                  y = Key(s, i * PageSize) /\ v.value[y] = row[i]
    <2>1. PICK k \in (m + 1)..n : k % PageSize = 0 /\ y = Key(s, k)
      BY Zenon, <1>6, <1>12
    <2>2. k \in 0..n /\ Len(y) = k
      BY SMTT(30), <2>1, <1>6, <1>8, KeyProps
    <2>3. k \div PageSize \in (m \div PageSize + 1)..(n \div PageSize) /\ (k \div PageSize) * PageSize = k
      BY SMTT(30), <2>1, <1>2, <1>8, <1>9, PageRange
    <2> QED
      BY ZenonT(30), <2>1, <2>2, <2>3, <1>13
  <1>17. Filled(v, content)
    <2>1. ASSUME NEW y \in new PROVE content[v.value[y]] = y
      <3>1. PICK i \in (m \div PageSize + 1)..(n \div PageSize) :
              y = Key(s, i * PageSize) /\ v.value[y] = row[i]
        BY Zenon, <1>15
      <3>2. i \in 1..(n \div PageSize) /\ i \in 1..Len(row)
        BY SMTT(30), <1>11
      <3>3. i * PageSize \in 0..n /\ Fill(i, com) = i * PageSize
        BY SMTT(30), <3>2, <1>2, <1>5
      <3> QED
        BY ZenonT(30), <3>1, <3>2, <3>3, <1>3, <1>6
    <2> QED
      BY ZenonT(30), <2>1, <1>2, <1>13 DEF Filled
  <1>18. \A i \in (prot \div PageSize + 1)..Len(row) : row[i] \in Owned[r]
    BY Zenon, <1>4 DEF OwnPages
  <1>19. /\ \A p \in pages : \E i \in (prot \div PageSize + 1)..(m \div PageSize) : p = row[i]
         /\ \A p \in left[r] : \E i \in (n \div PageSize + 1)..Len(row) : p = row[i]
         /\ \A y \in new : \E i \in (m \div PageSize + 1)..(n \div PageSize) : v.value[y] = row[i]
    BY Zenon, <1>4, <1>15 DEF OwnPages
  <1>20. pages \subseteq Owned[r] /\ left[r] \subseteq Owned[r] /\ pages \subseteq Pages
         /\ \A y \in new : v.value[y] \in Owned[r]
    <2>1. /\ (prot \div PageSize + 1)..(m \div PageSize) \subseteq (prot \div PageSize + 1)..Len(row)
          /\ (n \div PageSize + 1)..Len(row) \subseteq (prot \div PageSize + 1)..Len(row)
          /\ (m \div PageSize + 1)..(n \div PageSize) \subseteq (prot \div PageSize + 1)..Len(row)
          /\ \A i \in (prot \div PageSize + 1)..Len(row) : i \in 1..Len(row)
      BY SMTT(30), <1>11
    <2> QED
      BY SMTT(30), <2>1, <1>3, <1>18, <1>19
  <1>21. /\ pages \cap left[r] = {}
         /\ \A y \in new : v.value[y] \notin pages /\ v.value[y] \notin left[r]
    <2>1. ASSUME NEW i \in (prot \div PageSize + 1)..(m \div PageSize),
                 NEW j \in (m \div PageSize + 1)..Len(row)
          PROVE  row[i] # row[j]
      <3>1. /\ i \in (prot \div PageSize + 1)..Len(row) /\ j \in (prot \div PageSize + 1)..Len(row)
            /\ i # j
        BY <1>11
      <3> QED
        BY Zenon, <3>1, <1>3
    <2>2. ASSUME NEW i \in (m \div PageSize + 1)..(n \div PageSize),
                 NEW j \in (n \div PageSize + 1)..Len(row)
          PROVE  row[i] # row[j]
      <3>1. /\ i \in (prot \div PageSize + 1)..Len(row) /\ j \in (prot \div PageSize + 1)..Len(row)
            /\ i # j
        BY <1>11
      <3> QED
        BY Zenon, <3>1, <1>3
    <2>3. /\ (n \div PageSize + 1)..Len(row) \subseteq (m \div PageSize + 1)..Len(row)
          /\ (m \div PageSize + 1)..(n \div PageSize) \subseteq (m \div PageSize + 1)..Len(row)
      BY <1>11
    <2> QED
      BY SMTT(30), <2>1, <2>2, <2>3, <1>19
  <1>22. ASSUME NEW x \in new, NEW y \in new, v.value[x] = v.value[y] PROVE x = y
    <2>1. PICK i \in (m \div PageSize + 1)..(n \div PageSize) :
            x = Key(s, i * PageSize) /\ v.value[x] = row[i]
      BY Zenon, <1>15
    <2>2. PICK j \in (m \div PageSize + 1)..(n \div PageSize) :
            y = Key(s, j * PageSize) /\ v.value[y] = row[j]
      BY Zenon, <1>15
    <2>3. i \in (prot \div PageSize + 1)..Len(row) /\ j \in (prot \div PageSize + 1)..Len(row)
      BY SMTT(30), <1>11
    <2> QED
      BY ZenonT(30), <2>1, <2>2, <2>3, <1>3, <1>22
  <1>23. pages \cap free_pages = {}
    BY ZenonT(30), <1>2, <1>20 DEF Apart
  <1>24. Apart(v, free_pages \cup pages, left)
    <2>1. free_pages \cup pages \subseteq Pages
      BY ZenonT(30), <1>2, <1>20 DEF Apart
    <2>2. \A x, y \in Cached(v) : v.value[x] = v.value[y] => x = y
      BY SMTT(30), <1>2, <1>13, <1>20, <1>22 DEF Apart
    <2>3. \A x \in Cached(v) : v.value[x] \notin free_pages \cup pages
      BY Zenon, <1>2, <1>13, <1>20, <1>21 DEF Apart
    <2>4. ASSUME NEW q \in Reqs
          PROVE  left[q] \cap (free_pages \cup pages) = {} /\ \A x \in Cached(v) : v.value[x] \notin left[q]
      <3>1. CASE q = r
        BY ZenonT(30), <3>1, <1>2, <1>13, <1>20, <1>21 DEF Apart
      <3>2. CASE q # r
        <4>1. left[q] = Owned[q] /\ Owned[q] \cap Owned[r] = {}
          BY ZenonT(30), <3>2, <1>2, <1>4 DEF Apart
        <4> QED
          BY ZenonT(30), <4>1, <1>2, <1>13, <1>20 DEF Apart
      <3> QED
        BY Zenon, <3>1, <3>2
    <2>5. \A p, q \in Reqs : p # q => left[p] \cap left[q] = {}
      BY ZenonT(30), <1>2, <1>4, <1>20 DEF Apart
    <2> QED
      BY Zenon, <2>1, <2>2, <2>3, <2>4, <2>5 DEF Apart
  <1>25. Owned[r] = pages \cup left[r] \cup {v.value[y] : y \in Cached(v) \ Cached(tree)}
    <2>1. Cached(v) \ Cached(tree) = new
      BY Zenon, <1>13
    <2>2. ASSUME NEW p \in Owned[r] PROVE p \in pages \/ p \in left[r] \/ \E y \in new : p = v.value[y]
      <3>1. PICK i \in (prot \div PageSize + 1)..Len(row) : p = row[i]
        BY Zenon, <1>4 DEF OwnPages
      <3>2. CASE i \in (prot \div PageSize + 1)..(m \div PageSize)
        BY Zenon, <3>1, <3>2, <1>4
      <3>3. CASE i \in (n \div PageSize + 1)..Len(row)
        BY Zenon, <3>1, <3>3, <1>4 DEF OwnPages
      <3>4. CASE i \in (m \div PageSize + 1)..(n \div PageSize)
        <4>1. /\ i * PageSize \in (m + 1)..n /\ (i * PageSize) % PageSize = 0
              /\ (i * PageSize) \div PageSize = i
          BY SMTT(30), <3>4, <1>2, <1>8, <1>9, PageRange
        <4>2. Key(s, i * PageSize) \in new /\ Len(Key(s, i * PageSize)) = i * PageSize
          <5>1. i * PageSize \in 0..Len(s) /\ i * PageSize \in (m + 1)..Len(s)
            BY SMTT(30), <4>1, <1>6, <1>8
          <5>2. Len(Key(s, i * PageSize)) = i * PageSize
            BY Zenon, <5>1, <1>6, KeyProps
          <5> QED
            BY Zenon, <5>1, <5>2, <4>1, <1>12
        <4>3. v.value[Key(s, i * PageSize)] = row[i]
          BY Zenon, <4>1, <4>2, <1>13
        <4> QED
          BY Zenon, <4>2, <4>3, <3>1
      <3> QED
        BY SMTT(30), <3>2, <3>3, <3>4, <1>3, <1>11
    <2>3. ASSUME NEW p, p \in pages \/ p \in left[r] \/ \E y \in new : p = v.value[y] PROVE p \in Owned[r]
      BY Zenon, <2>3, <1>20
    <2> QED
      BY Zenon, <2>1, <2>2, <2>3
  <1> HIDE DEF Duplicates
  <1>26. Shape(v, Tokens, Pages) /\ Locks(v, Holders, last_node) /\ m \in Nat /\ m <= n
    BY <1>8, <1>13, <1>14
  <1> QED
    BY ZenonT(30), <1>1, <1>6, <1>9, <1>10, <1>13, <1>17, <1>20, <1>23, <1>24, <1>25, <1>26
       DEF Inserted

-----------------------------------------------------------------------------
(* What the operations that allocate and that settle pages do to PagePool. *)

(* The state of PagePool that the mapping gives, in terms of the invariant.    *)
OwnMap == [r \in Reqs |-> Own(r)]
HeldMap == [r \in Reqs |-> IF Locking(r) THEN {last_node[r]} ELSE {}]

(* Own pages and holders as the invariant has them.                           *)
LEMMA MapProps ==
  /\ OwnMap = Owned
  /\ \A r \in Reqs : HeldMap[r] = IF r \in Holders THEN {last_node[r]} ELSE {}
  <1>1. \A r \in Reqs : Own(r) = Owned[r]
    BY Zenon DEF Own, Owned, OwnAt, OwnPages, ProtectedPages
  <1>2. Owned = [r \in Reqs |-> Owned[r]]
    BY Zenon DEF Owned
  <1>3. OwnMap = Owned
    BY Zenon, <1>1, <1>2 DEF OwnMap
  <1> QED
    BY Zenon, <1>3 DEF HeldMap, Holders

(* The same after a step.                                                     *)
LEMMA MapPropsNext ==
  /\ OwnMap' = Owned'
  /\ \A r \in Reqs : HeldMap'[r] = IF r \in Holders' THEN {last_node'[r]} ELSE {}
  <1>1. \A r \in Reqs : Own(r)' = Owned'[r]
    BY Zenon DEF Own, Owned, OwnAt, OwnPages, ProtectedPages
  <1>2. Owned' = [r \in Reqs |-> Owned'[r]]
    BY Zenon DEF Owned
  <1>3. OwnMap' = Owned'
    BY Zenon, <1>1, <1>2 DEF OwnMap
  <1> QED
    BY Zenon, <1>3 DEF HeldMap, Holders

(* A held path of the tree has all its prefixes in the tree.                   *)
LEMMA HeldStays ==
  ASSUME KVInv', NEW x \in Seq(Tokens), x # root, Len(x) % PageSize = 0, x \notin Cached(tree'),
         NEW r \in Reqs, NEW h \in HeldMap'[r]
  PROVE  ~(x \preceq h)
  <1>1. r \in Holders' /\ h = last_node'[r]
    BY ZenonT(30), MapPropsNext
  <1>2. PICK u, Q, last : u = tree' /\ Q = Holders' /\ last = last_node'
    BY Zenon
  <1>3. Shape(u, Tokens, Pages) /\ Locks(u, Q, last)
    BY Zenon, <1>2 DEF KVInv
  <1>4. h \in Nodes(u) \cup {root}
    BY Zenon, <1>1, <1>2, <1>3 DEF Locks
  <1>5. SUFFICES ASSUME x \preceq h PROVE FALSE
    BY Zenon
  <1>6. Len(x) \in Nat /\ Len(x) # 0
    BY DEF root
  <1>7. h # root
    BY SMTT(30), <1>5, <1>6 DEF root, \preceq
  <1>8. h \in Cached(u) /\ h \in Seq(Tokens)
    BY Zenon, <1>3, <1>4, <1>7 DEF Shape
  <1>9. Len(x) \in 0..Len(h) /\ x = Key(h, Len(x))
    BY ZenonT(30), <1>5, <1>8, PrefixKey
  <1>10. Len(x) \in 1..Len(h)
    BY SMTT(30), <1>6, <1>9
  <1>11. Key(h, Len(x)) \in Cached(u)
    BY Zenon, <1>3, <1>8, <1>10 DEF Shape
  <1> QED
    BY Zenon, <1>2, <1>9, <1>11

(* An eviction from the tree t, which has what the tree has and more, takes from
   the cache what PagePool lets leave.                                         *)
LEMMA MayLeaveStep ==
  ASSUME KVInv, KVInv', NEW t, NEW out, Sheds(t, tree', out), Cached(tree) \subseteq Cached(t),
         \A x \in Cached(tree) : t.value[x] = tree.value[x]
  PROVE  /\ Pool!MayLeave
         /\ Pool!Leaving = Cached(tree) \ Cached(tree')
         /\ Pool!PagesAt(Pool!Leaving) = {tree.value[x] : x \in Cached(tree) \ Cached(tree')}
  <1>1. Pool!Leaving = Cached(tree) \ Cached(tree')
    BY Zenon DEF Pool!Leaving, Cached
  <1>2. Pool!PagesAt(Pool!Leaving) = {tree.value[x] : x \in Cached(tree) \ Cached(tree')}
    BY Zenon, <1>1 DEF Pool!PagesAt
  <1>3. ASSUME NEW x \in Cached(tree) \ Cached(tree'), NEW y \in Cached(tree), Pool!IsPrefix(x, y)
        PROVE  y \in Cached(tree) \ Cached(tree')
    BY Zenon, <1>3 DEF Pool!IsPrefix, Sheds, \preceq
  <1>4. ASSUME NEW x \in Cached(tree) \ Cached(tree'), NEW r \in Reqs, NEW h \in HeldMap'[r]
        PROVE  ~Pool!IsPrefix(x, h)
    <2>1. x \in Seq(Tokens) /\ x # root /\ Len(x) % PageSize = 0 /\ x \notin Cached(tree')
      BY Zenon DEF KVInv, Shape
    <2>2. ~(x \preceq h)
      BY Zenon, <2>1, HeldStays
    <2> QED
      BY Zenon, <2>2 DEF Pool!IsPrefix, \preceq
  <1>5. \A x \in Cached(tree) \ (Cached(tree) \ Cached(tree')) : tree'.value[x] = tree.value[x]
    BY Zenon DEF Sheds
  <1>6. Pool!MayLeave
    BY Zenon, <1>1, <1>3, <1>4, <1>5 DEF Pool!MayLeave, HeldMap, Cached
  <1> QED
    BY Zenon, <1>1, <1>2, <1>6

(* alloc_for_extend, alloc_for_decode and an eviction are Allocate.             *)
LEMMA AllocateStep ==
  ASSUME KVInv, KVInv', Allocates, Holders' = Holders, last_node' = last_node
  PROVE  Pool!Allocate
  <1>1. PICK out, N : AllocatesWith(out, N)
    BY Zenon DEF Allocates
  <1>2. /\ Sheds(tree, tree', out) /\ \A r \in Reqs : N[r] \subseteq free_pages \cup out
        /\ \A r \in Reqs : Owned'[r] = Owned[r] \cup N[r] /\ (r \notin Holders => N[r] = {})
        /\ free_pages' = (free_pages \cup out) \ UNION {N[r] : r \in Reqs}
    BY Zenon, <1>1 DEF AllocatesWith
  <1>3. /\ Pool!MayLeave /\ Cached(tree') \subseteq Cached(tree)
        /\ Pool!PagesAt(Pool!Leaving) = out
    BY Zenon, <1>2, MayLeaveStep DEF Sheds
  <1>4. \A r \in Reqs : Owned[r] \cap (free_pages \cup out) = {}
    BY SMTT(30), <1>2 DEF KVInv, Apart, Sheds
  <1>5. \A r \in Reqs : Owned'[r] \ Owned[r] = N[r] /\ Owned[r] \subseteq Owned'[r]
    BY Zenon, <1>2, <1>4
  <1>6. \A q, r \in Reqs : q # r => N[q] \cap N[r] = {}
    BY ZenonT(30), <1>5 DEF KVInv, Apart
  <1>7. HeldMap' = HeldMap
    BY Zenon, MapProps, MapPropsNext DEF HeldMap
  <1> DEFINE taken == [r \in Reqs |-> OwnMap'[r] \ OwnMap[r]]
  <1>9. \A r \in Reqs : taken[r] = N[r]
    BY Zenon, <1>5, MapProps, MapPropsNext
  <1> HIDE DEF taken
  <1>10. \A r \in Reqs : OwnMap[r] \subseteq OwnMap'[r] /\ (HeldMap[r] = {} => taken[r] = {})
    BY Zenon, <1>2, <1>5, <1>9, MapProps, MapPropsNext
  <1>11. \A q, r \in Reqs : q # r => taken[q] \cap taken[r] = {}
    BY Zenon, <1>6, <1>9
  <1>12. UNION {taken[r] : r \in Reqs} = UNION {N[r] : r \in Reqs}
    BY Zenon, <1>9
  <1>13. UNION {taken[r] : r \in Reqs} \subseteq free_pages \cup out
    BY Zenon, <1>2, <1>9
  <1>14. free_pages' = (free_pages \cup out) \ UNION {taken[r] : r \in Reqs}
    BY Zenon, <1>2, <1>12
  <1>15. DOMAIN tree'.value \subseteq DOMAIN tree.value
    BY Zenon, <1>3 DEF Cached
  <1> QED
    BY ZenonT(30), <1>3, <1>7, <1>10, <1>11, <1>13, <1>14, <1>15
       DEF Pool!Allocate, OwnMap, HeldMap, taken

(* cache_unfinished_req moves the request's hold to a longer path.              *)
LEMMA SettleStep ==
  ASSUME KVInv, KVInv', NEW r \in Reqs, Settles(r), r \in Holders,
         \/ Holders' = Holders /\ last_node[r] \preceq last_node'[r]
         \/ Holders' = Holders \ {r} /\ Owned'[r] = {},
         \A q \in Reqs : q # r => last_node'[q] = last_node[q]
  PROVE  Pool!Settle(r)
  <1>1. PICK t, pages :
          /\ Cached(tree) \subseteq Cached(t) /\ \A x \in Cached(tree) : t.value[x] = tree.value[x]
          /\ EndsEvicting(t, free_pages \cup pages)
          /\ Owned[r] = pages \cup Owned'[r] \cup {t.value[x] : x \in Cached(t) \ Cached(tree)}
          /\ Apart(t, free_pages \cup pages, Owned')
          /\ \A q \in Reqs : q # r => Owned'[q] = Owned[q]
    BY Zenon DEF Settles
  <1>2. PICK out : Sheds(t, tree', out) /\ free_pages' = (free_pages \cup pages) \cup out
    BY Zenon, <1>1 DEF EndsEvicting
  <1>3. PICK left : left = {tree.value[x] : x \in Cached(tree) \ Cached(tree')}
    BY Zenon
  <1>4. Pool!MayLeave /\ Pool!PagesAt(Pool!Leaving) = left
    BY Zenon, <1>1, <1>2, <1>3, MayLeaveStep
  <1>5. PICK given : given = {tree'.value[x] : x \in Cached(tree') \ Cached(tree)}
    BY Zenon
  <1>6. PICK back : back = {t.value[x] : x \in (Cached(t) \ Cached(tree')) \ Cached(tree)}
    BY Zenon
  <1>7. out = left \cup back
    BY <1>1, <1>2, <1>3, <1>6 DEF Sheds
  <1>8. {t.value[x] : x \in Cached(t) \ Cached(tree)} = given \cup back
    BY ZenonT(30), <1>2, <1>5, <1>6 DEF Sheds
  <1>9. Owned[r] = pages \cup Owned'[r] \cup given \cup back
    BY Zenon, <1>1, <1>8
  <1>10. /\ Owned[r] \cap free_pages = {} /\ left \cap free_pages = {}
    BY <1>3 DEF KVInv, Apart
  <1>11. free_pages' \ free_pages = pages \cup left \cup back /\ free_pages \subseteq free_pages'
    BY Zenon, <1>2, <1>7, <1>9, <1>10
  <1>12. /\ given \cap Owned'[r] = {} /\ (given \cup Owned'[r]) \cap free_pages' = {}
    BY <1>5 DEF KVInv, Apart
  <1>13. /\ given \cup Owned'[r] \cup (free_pages' \ free_pages) = Owned[r] \cup left
         /\ given \cup Owned'[r] \subseteq Owned[r]
    BY Zenon, <1>9, <1>11
  <1>14. /\ OwnMap'[r] = Owned'[r] /\ OwnMap[r] = Owned[r]
         /\ OwnMap' = [OwnMap EXCEPT ![r] = OwnMap'[r]]
    BY ZenonT(30), <1>1, MapProps, MapPropsNext DEF OwnMap
  <1>15. HeldMap' = [HeldMap EXCEPT ![r] = HeldMap'[r]]
    <2>1. \A q \in Reqs : q # r => HeldMap'[q] = HeldMap[q]
      BY Zenon, MapProps, MapPropsNext
    <2> QED
      BY Zenon, <2>1 DEF HeldMap
  <1>16. \E h \in HeldMap[r] : \/ HeldMap'[r] = {} /\ OwnMap'[r] = {}
                               \/ \E k \in Pool!Holdable' : HeldMap'[r] = {k} /\ Pool!IsPrefix(h, k)
    <2>1. HeldMap[r] = {last_node[r]}
      BY Zenon, MapProps
    <2>2. CASE Holders' = Holders \ {r} /\ Owned'[r] = {}
      BY Zenon, <2>1, <2>2, <1>14, MapPropsNext
    <2>3. CASE Holders' = Holders /\ last_node[r] \preceq last_node'[r]
      <3>1. HeldMap'[r] = {last_node'[r]}
        BY Zenon, <2>3, MapPropsNext
      <3>2. last_node'[r] \in Cached(tree') \cup {root}
        BY Zenon, <2>3 DEF KVInv, Locks, Shape
      <3>3. last_node'[r] \in Pool!Holdable'
        BY Zenon, <3>2 DEF Pool!Holdable, Cached, root
      <3>4. Pool!IsPrefix(last_node[r], last_node'[r])
        BY Zenon, <2>3 DEF Pool!IsPrefix, \preceq
      <3> QED
        BY Zenon, <2>1, <3>1, <3>3, <3>4
    <2> QED
      BY Zenon, <2>2, <2>3
  <1>17. given = {tree'.value[x] : x \in DOMAIN tree'.value \ DOMAIN tree.value}
    BY Zenon, <1>5 DEF Cached
  <1>18. /\ given \cup OwnMap'[r] \cup (free_pages' \ free_pages) = OwnMap[r] \cup Pool!PagesAt(Pool!Leaving)
         /\ given \cap OwnMap'[r] = {} /\ (given \cup OwnMap'[r]) \cap free_pages' = {}
         /\ given \cup OwnMap'[r] \subseteq OwnMap[r] /\ free_pages \subseteq free_pages'
    BY Zenon, <1>4, <1>11, <1>12, <1>13, <1>14
  <1> QED
    BY ZenonT(60), <1>4, <1>14, <1>15, <1>16, <1>17, <1>18 DEF Pool!Settle, OwnMap, HeldMap

-----------------------------------------------------------------------------
(* No step of PagePool loses a page, and what that says of the sizes. *)

(* Every page is free, in the tree or owned by a request.                      *)
Covered ==
  \A p \in Pages : \/ p \in free_pages \/ \E x \in Cached(tree) : p = tree.value[x]
                   \/ \E r \in Reqs : p \in Owned[r]

(* A step of PagePool loses no page.                                           *)
LEMMA CoveredStep ==
  ASSUME Covered, Pool!PoolNext
  PROVE  Covered'
  <1> DEFINE left == {tree.value[x] : x \in Pool!Leaving}
  <1>1. Pool!PagesAt(Pool!Leaving) = left
    BY Zenon DEF Pool!PagesAt
  <1>2. ASSUME Pool!MayLeave, NEW x \in Cached(tree)
        PROVE  tree.value[x] \in left \/ \E y \in Cached(tree') : tree.value[x] = tree'.value[y]
    <2>1. CASE x \in Pool!Leaving
      BY Zenon, <2>1
    <2>2. CASE x \notin Pool!Leaving
      <3>1. x \in Cached(tree') /\ tree'.value[x] = tree.value[x]
        BY Zenon, <2>2, <1>2 DEF Pool!MayLeave, Pool!Leaving, Cached
      <3> QED
        BY Zenon, <3>1
    <2> QED
      BY Zenon, <2>2
  <1> HIDE DEF left
  <1>3. ASSUME Pool!Allocate PROVE Covered'
    <2> DEFINE taken == [r \in Reqs |-> OwnMap'[r] \ OwnMap[r]]
    <2>1. /\ Pool!MayLeave /\ \A r \in Reqs : OwnMap[r] \subseteq OwnMap'[r]
          /\ free_pages' = (free_pages \cup left) \ UNION {taken[r] : r \in Reqs}
      BY Zenon, <1>1, <1>3 DEF Pool!Allocate, OwnMap, taken
    <2>2. ASSUME NEW p \in free_pages \cup left PROVE p \in free_pages' \/ \E r \in Reqs : p \in Owned'[r]
      <3>1. CASE p \in UNION {taken[r] : r \in Reqs}
        <4>1. PICK r \in Reqs : p \in taken[r]
          BY Zenon, <3>1
        <4> QED
          BY Zenon, <4>1, MapPropsNext
      <3> QED
        BY Zenon, <3>1, <2>1
    <2>3. ASSUME NEW r \in Reqs, NEW p \in Owned[r] PROVE p \in Owned'[r]
      BY Zenon, <2>1, MapProps, MapPropsNext
    <2>4. ASSUME NEW p \in Pages
          PROVE  \/ p \in free_pages' \/ \E x \in Cached(tree') : p = tree'.value[x]
                 \/ \E r \in Reqs : p \in Owned'[r]
      <3>1. CASE p \in free_pages
        BY Zenon, <3>1, <2>2
      <3>2. ASSUME NEW x \in Cached(tree), p = tree.value[x] PROVE p \in left \/ \E y \in Cached(tree') : p = tree'.value[y]
        BY Zenon, <3>2, <2>1, <1>2
      <3>3. ASSUME NEW r \in Reqs, p \in Owned[r] PROVE p \in Owned'[r]
        BY Zenon, <3>3, <2>3
      <3> QED
        BY Zenon, <3>1, <3>2, <3>3, <2>2 DEF Covered
    <2> QED
      BY Zenon, <2>4 DEF Covered
  <1>4. ASSUME NEW r \in Reqs, Pool!Settle(r) PROVE Covered'
    <2> DEFINE given == {tree'.value[x] : x \in DOMAIN tree'.value \ DOMAIN tree.value}
    <2>1. /\ Pool!MayLeave /\ free_pages \subseteq free_pages'
          /\ given \cup OwnMap'[r] \cup (free_pages' \ free_pages) = OwnMap[r] \cup left
          /\ OwnMap' = [OwnMap EXCEPT ![r] = OwnMap'[r]]
      BY Zenon, <1>1, <1>4 DEF Pool!Settle, OwnMap, given
    <2>2. \A p \in given : \E x \in Cached(tree') : p = tree'.value[x]
      BY Zenon DEF Cached
    <2> HIDE DEF given
    <2>3. ASSUME NEW p \in Owned[r] \cup left
          PROVE  \/ p \in free_pages' \/ \E x \in Cached(tree') : p = tree'.value[x]
                 \/ p \in Owned'[r]
      <3>1. p \in given \cup Owned'[r] \cup (free_pages' \ free_pages)
        BY Zenon, <2>1, MapProps, MapPropsNext
      <3> QED
        BY Zenon, <3>1, <2>2
    <2>4. \A q \in Reqs : q # r => Owned'[q] = Owned[q]
      BY Zenon, <2>1, MapProps, MapPropsNext DEF OwnMap
    <2>5. ASSUME NEW p \in Pages
          PROVE  \/ p \in free_pages' \/ \E x \in Cached(tree') : p = tree'.value[x]
                 \/ \E q \in Reqs : p \in Owned'[q]
      <3>1. CASE p \in free_pages
        BY Zenon, <3>1, <2>1
      <3>2. ASSUME NEW x \in Cached(tree), p = tree.value[x] PROVE p \in left \/ \E y \in Cached(tree') : p = tree'.value[y]
        BY Zenon, <3>2, <2>1, <1>2
      <3>3. ASSUME NEW q \in Reqs, p \in Owned[q] PROVE p \in Owned'[q] \/ p \in Owned[r]
        BY Zenon, <3>3, <2>4
      <3> QED
        BY Zenon, <3>1, <3>2, <3>3, <2>3 DEF Covered
    <2> QED
      BY Zenon, <2>5 DEF Covered
  <1>5. ASSUME NEW r \in Reqs, Pool!Hold(r) PROVE Covered'
    <2>1. free_pages' = free_pages /\ tree'.value = tree.value /\ OwnMap' = OwnMap
      BY Zenon, <1>5 DEF Pool!Hold, OwnMap
    <2> QED
      BY Zenon, <2>1, MapProps, MapPropsNext DEF Covered, Cached
  <1>6. ASSUME Pool!Flush PROVE Covered'
    BY Zenon, <1>6 DEF Pool!Flush, Covered
  <1> QED
    BY Zenon, <1>3, <1>4, <1>5, <1>6 DEF Pool!PoolNext

(* Disjoint sets that cover the pool count it.                                 *)
LEMMA PoolCount ==
  ASSUME KVInv, Account(tree), Covered
  PROVE  NoLeak
  <1>1. PICK C, T, U, own :
          /\ C = Cached(tree) /\ T = {tree.value[x] : x \in Cached(tree)} /\ U = Unlocked(tree)
          /\ own = UNION {Own(r) : r \in Reqs}
    BY Zenon
  <1>2. /\ own = UNION {Owned[r] : r \in Reqs} /\ own \subseteq Pages
    <2>1. ASSUME NEW r \in Reqs PROVE Own(r) = Owned[r] /\ Owned[r] \subseteq Pages
      <3>1. Own(r) = Owned[r]
        BY Zenon DEF Own, Owned, OwnAt, OwnPages, ProtectedPages
      <3>2. req_to_token[r] \in Seq(Pages) /\ cache_protected_len[r] \div PageSize \in Nat
        BY Zenon, DivPage DEF KVInv
      <3> QED
        BY <3>1, <3>2 DEF Owned, OwnPages
    <2> QED
      BY Zenon, <2>1, <1>1
  <1>3. free_pages \subseteq Pages /\ T \subseteq Pages
    BY <1>1 DEF KVInv, Apart, Shape
  <1>4. free_pages \cap T = {} /\ free_pages \cap own = {} /\ T \cap own = {}
    <2>1. /\ \A x \in Cached(tree) : tree.value[x] \notin free_pages
          /\ \A r \in Reqs : Owned[r] \cap free_pages = {} /\ \A x \in Cached(tree) : tree.value[x] \notin Owned[r]
      BY Zenon DEF KVInv, Apart
    <2>2. ASSUME NEW p \in own PROVE p \notin free_pages /\ p \notin T
      <3>1. PICK r \in Reqs : p \in Owned[r]
        BY Zenon, <1>2
      <3> QED
        BY Zenon, <3>1, <2>1, <1>1
    <2>3. \A p \in T : p \notin free_pages
      BY Zenon, <2>1, <1>1
    <2> QED
      BY Zenon, <2>2, <2>3
  <1>5. Pages = (free_pages \cup T) \cup own
    BY Zenon, <1>1, <1>2, <1>3 DEF Covered
  <1>6. /\ IsFiniteSet(free_pages) /\ IsFiniteSet(T) /\ IsFiniteSet(own)
        /\ IsFiniteSet(free_pages \cup T)
    BY Zenon, <1>2, <1>3, KVAssumption, PartFinite DEF Account
  <1>7. IsFiniteSet(C) /\ Cardinality(T) = Cardinality(C)
    <2>1. IsFiniteSet(C)
      BY Zenon, <1>1 DEF Account
    <2>2. \A x, y \in C : tree.value[x] = tree.value[y] => x = y
      BY Zenon, <1>1 DEF KVInv, Apart
    <2> QED
      BY Zenon, <1>1, <2>1, <2>2, ImageSize DEF Account
  <1>8. Cardinality(free_pages \cup T) = Cardinality(free_pages) + Cardinality(T)
    BY Zenon, <1>4, <1>6, UnionSize DEF Account
  <1>9. Cardinality(Pages) = Cardinality(free_pages) + Cardinality(C) + Cardinality(own)
    <2>1. (free_pages \cup T) \cap own = {}
      BY Zenon, <1>4
    <2>2. Cardinality(Pages) = Cardinality(free_pages \cup T) + Cardinality(own)
      BY Zenon, <2>1, <1>5, <1>6, UnionSize DEF Account
    <2> QED
      BY Zenon, <2>2, <1>7, <1>8
  <1>10. Cardinality(C) = Cardinality(U) + Cardinality(C \ U)
    <2>1. U \subseteq C
      BY Zenon, <1>1 DEF Unlocked
    <2>2. IsFiniteSet(U) /\ IsFiniteSet(C \ U) /\ U \cap (C \ U) = {} /\ U \cup (C \ U) = C
      BY Zenon, <2>1, <1>7, PartFinite DEF Account
    <2>3. Cardinality(U \cup (C \ U)) = Cardinality(U) + Cardinality(C \ U)
      BY Zenon, <2>2, UnionSize DEF Account
    <2> QED
      BY Zenon, <2>2, <2>3
  <1>11. tree.evictable_size_ = PageSize * Cardinality(U) /\ tree.protected_size_ = PageSize * Cardinality(C \ U)
    BY Zenon, <1>1 DEF Account, Locked
  <1>12. PICK a, b, c, d : a = Cardinality(free_pages) /\ b = Cardinality(U) /\ c = Cardinality(C \ U) /\ d = Cardinality(own)
    BY Zenon
  <1>13. a \in Nat /\ b \in Nat /\ c \in Nat /\ d \in Nat
    <2>1. IsFiniteSet(U) /\ IsFiniteSet(C \ U)
      BY Zenon, <1>1, <1>7, PartFinite DEF Unlocked, Account
    <2> QED
      BY Zenon, <2>1, <1>6, <1>12, SizeNat DEF Account
  <1>14. PageSize * (a + (b + c) + d) = PageSize * a + PageSize * b + PageSize * c + PageSize * d
    BY <1>13, PageSizeAssumption
  <1>15. Cardinality(Pages) = a + (b + c) + d
    BY Zenon, <1>9, <1>10, <1>12
  <1> QED
    BY Zenon, <1>1, <1>11, <1>12, <1>14, <1>15 DEF NoLeak, AvailableSize

-----------------------------------------------------------------------------
(* The pages that a batch needs. *)

(* The row of a request that joins a batch covers exactly its prefix.          *)
LEMMA RowCovers ==
  ASSUME KVInv, NEW r \in Reqs, stage[r] \in {"admitted", "cached", "extended", "decoding"}
  PROVE  Len(req_to_token[r]) = NumPages(PrefixLen(r))
  <1>1. ReqInv(tree, content, req_to_token[r], kv_committed_len[r], cache_protected_len[r],
               last_node[r], extend_end[r], stage[r], ids[r])
    BY Zenon DEF KVInv
  <1>2. CASE stage[r] = "admitted"
    <2>1. PICK p, k : p = cache_protected_len[r] /\ k = p \div PageSize
      BY Zenon
    <2>2. p \in Nat /\ p % PageSize = 0 /\ Len(req_to_token[r]) = k
      BY Zenon, <2>1, <1>1, <1>2 DEF ReqInv
    <2>3. k \in Nat /\ p = PageSize * k
      <3>1. k \in Nat /\ p = PageSize * k + (p % PageSize)
        BY Zenon, <2>1, <2>2, DivPage
      <3>2. PageSize * k \in Nat
        BY Zenon, <3>1, PageOrder
      <3> QED
        BY <3>1, <3>2, <2>2
    <2>4. PICK q : q = NumPages(p)
      BY Zenon
    <2>5. q \in Nat /\ p <= PageSize * q /\ PageSize * q < p + PageSize
      BY ZenonT(30), <2>2, <2>4, LastPage
    <2>6. k <= q
      BY Zenon, <2>3, <2>5, PageOrder
    <2>7. ~(k < q)
      BY <2>3, <2>5, PageOrder, PageSizeAssumption
    <2>8. Len(req_to_token[r]) = q
      BY <2>2, <2>3, <2>5, <2>6, <2>7
    <2> QED
      BY Zenon, <2>1, <2>4, <2>8, <1>2 DEF PrefixLen
  <1>3. CASE stage[r] # "admitted"
    BY Zenon, <1>1, <1>3 DEF ReqInv, PrefixLen
  <1> QED
    BY Zenon, <1>2, <1>3

(* A page missing from the row of a request starts behind its prefix and before
   the end of its tokens.                                                      *)
LEMMA MissingPage ==
  ASSUME KVInv, NEW B \in SUBSET Reqs, NEW lens, \A r \in B : lens[r] \in Nat,
         \A r \in B : stage[r] \in {"admitted", "cached", "extended", "decoding"},
         NEW r, NEW i, <<r, i>> \in Missing(B, lens)
  PROVE  /\ r \in B /\ i \in Nat \ {0} /\ PrefixLen(r) \in Nat
         /\ PageSize * (i - 1) \in Nat
         /\ NumPages(PrefixLen(r)) < i /\ i <= NumPages(lens[r])
         /\ PrefixLen(r) <= PageSize * (i - 1) /\ PageSize * (i - 1) < lens[r]
  <1>1. r \in B /\ i \in (Len(req_to_token[r]) + 1)..NumPages(lens[r])
    BY DEF Missing
  <1>2. PrefixLen(r) \in Nat
    BY Zenon, <1>1, PrefixNat
  <1>3. PICK k, q, p, n : /\ k = NumPages(PrefixLen(r)) /\ q = NumPages(lens[r])
                          /\ p = PrefixLen(r) /\ n = lens[r]
    BY Zenon
  <1>4. /\ k \in Nat /\ p <= PageSize * k /\ p \in Nat /\ n \in Nat
        /\ q \in Nat /\ PageSize * q < n + PageSize
    BY Zenon, <1>1, <1>2, <1>3, LastPage
  <1>5. i \in (k + 1)..q
    BY Zenon, <1>1, <1>3, RowCovers
  <1>6. i - 1 \in Nat /\ k <= i - 1 /\ i - 1 < q
    BY <1>4, <1>5
  <1>7. PICK s : s = PageSize * (i - 1)
    BY Zenon
  <1>8. s \in Nat /\ PageSize * k <= s /\ s + PageSize <= PageSize * q
    BY Zenon, <1>4, <1>6, <1>7, PageOrder
  <1>9. PageSize * k \in Nat /\ PageSize * q \in Nat
    BY Zenon, <1>4, PageOrder
  <1>10. p <= s /\ s < n
    BY <1>4, <1>8, <1>9, PageSizeAssumption
  <1> QED
    BY <1>1, <1>3, <1>4, <1>5, <1>7, <1>8, <1>10

(* The missing pages of a batch belong to its new tokens.                      *)
LEMMA MissingPages ==
  ASSUME KVInv, NEW B \in SUBSET Reqs, NEW lens, \A r \in B : lens[r] \in Nat,
         \A r \in B : stage[r] \in {"admitted", "cached", "extended", "decoding"}, NEW pre,
         pre = [r \in B |-> PrefixLen(r)]
  PROVE  GrowPages(Missing(B, lens), B, pre, lens)
  <1>1. \A r \in B : pre[r] = PrefixLen(r) /\ pre[r] \in Nat
    BY Zenon, PrefixNat
  <1>2. ASSUME NEW a \in Missing(B, lens)
        PROVE  \E r \in B, i \in Nat \ {0} :
                 /\ a = <<r, i>> /\ PageSize * (i - 1) \in Nat
                 /\ NumPages(pre[r]) < i /\ i <= NumPages(lens[r])
                 /\ pre[r] <= PageSize * (i - 1) /\ PageSize * (i - 1) < lens[r]
    <2>1. PICK r, i : a = <<r, i>>
      BY DEF Missing
    <2>2. /\ r \in B /\ i \in Nat \ {0} /\ PageSize * (i - 1) \in Nat
          /\ NumPages(PrefixLen(r)) < i /\ i <= NumPages(lens[r])
          /\ PrefixLen(r) <= PageSize * (i - 1) /\ PageSize * (i - 1) < lens[r]
      BY Zenon, <1>2, <2>1, MissingPage
    <2>3. pre[r] = PrefixLen(r)
      BY Zenon, <2>2
    <2> QED
      BY Zenon, <2>1, <2>2, <2>3
  <1> QED
    BY Zenon, <1>1, <1>2 DEF GrowPages
=============================================================================
