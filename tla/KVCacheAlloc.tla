---------------------------- MODULE KVCacheAlloc ----------------------------
(***************************************************************************)
(* What alloc_for_extend and alloc_for_decode give to a batch of requests, *)
(* what the forward pass then writes, and that Extend and Decode keep KVInv. *)
(***************************************************************************)
EXTENDS KVCacheInv

(* The request r, with k full pages of KV that the forward pass reads only,
   grows to n tokens.                                                        *)
Grows(r, n, k) ==
  /\ r \in Holders /\ n \in Nat /\ n <= Len(ids[r]) /\ cache_protected_len[r] <= n
  /\ req_to_token[r] \in Seq(Pages) /\ ids[r] \in Seq(Tokens)
  /\ k \in Nat /\ NumPages(PrefixLen(r) + 1) = k + 1 /\ k < NumPages(n) /\ NumPages(n) \in Nat
  /\ cache_protected_len[r] \div PageSize \in Nat /\ cache_protected_len[r] \div PageSize <= k
  /\ k <= Len(req_to_token[r]) /\ Len(req_to_token[r]) <= NumPages(n)
  /\ \A i \in 1..k : content[req_to_token[r][i]] = Key(ids[r], Fill(i, n))
  /\ \A i, j \in (cache_protected_len[r] \div PageSize + 1)..Len(req_to_token[r]) :
       req_to_token[r][i] = req_to_token[r][j] => i = j
  /\ \A i \in 1..(cache_protected_len[r] \div PageSize) :
       \E y \in Cached(tree) : y \preceq last_node[r] /\ req_to_token[r][i] = tree.value[y]

(* A request of a batch, when prepare_for_extend or prepare_for_decode builds
   it.                                                                       *)
LEMMA GrowReq ==
  ASSUME KVInv, NEW r \in Reqs, stage[r] \in {"admitted", "cached", "extended", "decoding"},
         NEW n \in Nat, PrefixLen(r) < n, n <= Len(ids[r])
  PROVE  Grows(r, n, PrefixLen(r) \div PageSize)
  <1>1. PICK p, prot, row, com, tok :
          /\ p = PrefixLen(r) /\ prot = cache_protected_len[r] /\ row = req_to_token[r]
          /\ com = kv_committed_len[r] /\ tok = ids[r]
    BY Zenon
  <1>2. ReqInv(tree, content, row, com, prot, last_node[r], extend_end[r], stage[r], tok)
    BY Zenon, <1>1 DEF KVInv
  <1>3. /\ r \in Holders /\ row \in Seq(Pages) /\ tok \in Seq(Tokens) /\ prot \in Nat /\ com \in Nat
        /\ prot % PageSize = 0 /\ prot \div PageSize <= Len(row)
        /\ \A i, j \in (prot \div PageSize + 1)..Len(row) : row[i] = row[j] => i = j
        /\ \A i \in 1..(prot \div PageSize) :
             /\ Key(tok, i * PageSize) \in Cached(tree) /\ Key(tok, i * PageSize) \preceq last_node[r]
             /\ row[i] = tree.value[Key(tok, i * PageSize)]
    BY Zenon, <1>2 DEF ReqInv, Holders, Locking
  <1>4. Filled(tree, content)
    BY Zenon DEF KVInv
  <1>7. \A i \in 1..(prot \div PageSize) :
          \E y \in Cached(tree) : y \preceq last_node[r] /\ row[i] = tree.value[y]
    BY Zenon, <1>3
  <1>8. ASSUME p \div PageSize \in Nat, NumPages(p + 1) = p \div PageSize + 1, NumPages(n) \in Nat,
               \A i \in 1..(p \div PageSize) : content[row[i]] = Key(tok, Fill(i, n)),
               prot \div PageSize \in Nat, prot \div PageSize <= p \div PageSize, prot <= n,
               p \div PageSize <= Len(row), Len(row) <= NumPages(n), p \div PageSize < NumPages(n)
        PROVE  Grows(r, n, PrefixLen(r) \div PageSize)
    BY <1>1, <1>3, <1>7, <1>8 DEF Grows
  <1>5. CASE stage[r] = "admitted"
    <2>1. p = prot /\ Len(row) = prot \div PageSize
      BY Zenon, <1>1, <1>2, <1>5 DEF ReqInv, PrefixLen
    <2>2. \A i \in 1..(prot \div PageSize) : content[row[i]] = Key(tok, i * PageSize)
      BY Zenon, <1>3, <1>4 DEF Filled
    <2>3. /\ NumPages(p + 1) = p \div PageSize + 1 /\ p \div PageSize \in Nat
          /\ NumPages(p) \in Nat /\ NumPages(n) \in Nat /\ p \div PageSize <= NumPages(p)
          /\ NumPages(p) <= NumPages(n) /\ p \div PageSize + 1 <= NumPages(n)
          /\ \A i \in 1..(p \div PageSize) : Fill(i, p) = i * PageSize /\ Fill(i, n) = i * PageSize
      <3>1. p \in Nat /\ p < n
        BY Zenon, <2>1, <1>1, <1>3
      <3> QED
        BY Zenon, <3>1, PageGrow
    <2>4. \A i \in 1..(p \div PageSize) : content[row[i]] = Key(tok, Fill(i, n))
      BY Zenon, <2>1, <2>2, <2>3
    <2>5. /\ prot <= n /\ prot \div PageSize <= p \div PageSize /\ p \div PageSize <= Len(row)
          /\ Len(row) <= NumPages(n) /\ p \div PageSize < NumPages(n)
      BY SMTT(30), <2>1, <2>3, <1>1, <1>3
    <2> QED
      BY ZenonT(30), <2>1, <2>3, <2>4, <2>5, <1>8
  <1>6. CASE stage[r] # "admitted"
    <2>1. /\ p = com /\ Len(row) = NumPages(com) /\ prot <= com
          /\ \A i \in 1..Len(row) : content[row[i]] = Key(tok, Fill(i, com))
      <3>1. /\ Len(row) = NumPages(com) /\ prot <= extend_end[r] /\ extend_end[r] <= com
            /\ extend_end[r] \in Nat
            /\ \A i \in 1..Len(row) : content[row[i]] = Key(tok, Fill(i, com))
        BY Zenon, <1>2, <1>6 DEF ReqInv
      <3> QED
        BY SMTT(30), <3>1, <1>1, <1>3, <1>6 DEF PrefixLen
    <2>2. /\ NumPages(p + 1) = p \div PageSize + 1 /\ p \div PageSize \in Nat
          /\ NumPages(p) \in Nat /\ NumPages(n) \in Nat /\ p \div PageSize <= NumPages(p)
          /\ NumPages(p) <= NumPages(n) /\ p \div PageSize + 1 <= NumPages(n)
          /\ \A i \in 1..(p \div PageSize) : Fill(i, p) = i * PageSize /\ Fill(i, n) = i * PageSize
      <3>1. p \in Nat /\ p < n
        BY Zenon, <2>1, <1>1, <1>3
      <3> QED
        BY <3>1, PageGrow
    <2>3. \A i \in 1..(p \div PageSize) : content[row[i]] = Key(tok, Fill(i, n))
      <3>1. 1..(p \div PageSize) \subseteq 1..Len(row)
        BY <2>1, <2>2
      <3> QED
        BY <2>1, <2>2
    <2>4. prot \div PageSize \in Nat /\ prot \div PageSize <= p \div PageSize
      <3>1. p \in Nat
        BY Zenon, <2>1, <1>3
      <3>2. prot <= PageAligned(p) /\ PageAligned(p) \in Nat /\ PageAligned(p) % PageSize = 0
            /\ PageAligned(p) \div PageSize = p \div PageSize
        BY SMTT(30), <3>1, <2>1, <1>3, AlignedBound, AlignedProps
      <3> QED
        BY Zenon, <3>2, <1>3, PageRange
    <2>5. prot <= n /\ p \div PageSize <= Len(row) /\ Len(row) <= NumPages(n) /\ p \div PageSize < NumPages(n)
      BY SMTT(30), <2>1, <2>2, <1>1, <1>3
    <2> QED
      BY Zenon, <2>2, <2>3, <2>4, <2>5, <1>8
  <1> QED
    BY Zenon, <1>5, <1>6

(* The rows that alloc_for_extend and alloc_for_decode give to the batch B, out
   of the pages of avail, when those of F stay free.                         *)
NewRows(B, lens, f) ==
  [r \in B |-> [i \in 1..NumPages(lens[r]) |->
     IF <<r, i>> \in Missing(B, lens) THEN f[<<r, i>>] ELSE req_to_token[r][i]]]
NewAt(r, n) == (Len(req_to_token[r]) + 1)..NumPages(n)
Rows(B, lens, rows, avail, F) ==
  /\ \A r \in B :
       /\ rows[r] \in Seq(Pages) /\ Len(rows[r]) = NumPages(lens[r])
       /\ \A i \in 1..Len(req_to_token[r]) : rows[r][i] = req_to_token[r][i]
       /\ \A i \in NewAt(r, lens[r]) : rows[r][i] \in avail /\ rows[r][i] \notin F
  /\ \A q, r \in B : \A i \in NewAt(q, lens[q]), j \in NewAt(r, lens[r]) :
       rows[q][i] = rows[r][j] => q = r /\ i = j
  /\ F \subseteq avail

Batch(B, lens) ==
  B \in SUBSET Reqs /\ \A r \in B : Grows(r, lens[r], PrefixLen(r) \div PageSize)
Taken(B, lens, f) == {f[x] : x \in Missing(B, lens)}
Picks(B, lens, avail, f) ==
  Batch(B, lens) /\ avail \in SUBSET Pages /\ f \in Injections(Missing(B, lens), avail)

(* Every page of a batch that is missing gets a page of its own.             *)
LEMMA RowsProps ==
  ASSUME NEW B, NEW lens, NEW avail, NEW f, Picks(B, lens, avail, f)
  PROVE  Rows(B, lens, NewRows(B, lens, f), avail, avail \ Taken(B, lens, f))
  <1> PICK rows : rows = NewRows(B, lens, f)
    BY Zenon
  <1> /\ B \in SUBSET Reqs /\ \A r \in B : Grows(r, lens[r], PrefixLen(r) \div PageSize)
      /\ avail \in SUBSET Pages /\ f \in Injections(Missing(B, lens), avail)
    BY Zenon DEF Picks, Batch
  <1>1. ASSUME NEW r \in B
        PROVE  /\ NumPages(lens[r]) \in Nat /\ Len(req_to_token[r]) \in Nat
               /\ Len(req_to_token[r]) <= NumPages(lens[r]) /\ req_to_token[r] \in Seq(Pages)
    BY DEF Grows
  <1>2. ASSUME NEW r \in B, NEW i PROVE <<r, i>> \in Missing(B, lens) <=> i \in NewAt(r, lens[r])
    BY DEF Missing, NewAt
  <1>3. /\ \A x \in Missing(B, lens) : f[x] \in avail
        /\ \A x, y \in Missing(B, lens) : f[x] = f[y] => x = y
    BY Zenon DEF Injections
  <1>4. ASSUME NEW r \in B, NEW i \in NewAt(r, lens[r])
        PROVE  rows[r][i] = f[<<r, i>>] /\ <<r, i>> \in Missing(B, lens)
    <2>1. i \in 1..NumPages(lens[r])
      BY DEF NewAt
    <2> QED
      BY Zenon, <2>1, <1>2 DEF NewRows
  <1>5. ASSUME NEW r \in B, NEW i \in 1..Len(req_to_token[r]) PROVE rows[r][i] = req_to_token[r][i]
    <2>1. i \in 1..NumPages(lens[r]) /\ i \notin NewAt(r, lens[r])
      BY <1>1 DEF NewAt
    <2> QED
      BY Zenon, <2>1, <1>2 DEF NewRows
  <1>6. ASSUME NEW r \in B PROVE rows[r] \in Seq(Pages) /\ Len(rows[r]) = NumPages(lens[r])
    <2>1. rows[r] = [i \in 1..NumPages(lens[r]) |-> rows[r][i]]
      BY Zenon DEF NewRows
    <2>2. ASSUME NEW i \in 1..NumPages(lens[r]) PROVE rows[r][i] \in Pages
      <3>1. CASE i \in NewAt(r, lens[r])
        BY Zenon, <3>1, <1>3, <1>4
      <3>2. CASE i \notin NewAt(r, lens[r])
        <4>1. i \in 1..Len(req_to_token[r])
          BY <3>2, <1>1 DEF NewAt
        <4> QED
          BY <4>1, <1>1, <1>5
      <3> QED
        BY Zenon, <3>1, <3>2
    <2>3. rows[r] \in [1..NumPages(lens[r]) -> Pages]
      BY Zenon, <2>1, <2>2
    <2>4. NumPages(lens[r]) \in Nat
      BY Zenon, <1>1
    <2> QED
      BY <2>3, <2>4
  <1>7. ASSUME NEW q \in B, NEW r \in B, NEW i \in NewAt(q, lens[q]), NEW j \in NewAt(r, lens[r]),
               rows[q][i] = rows[r][j]
        PROVE  q = r /\ i = j
    <2>1. rows[q][i] = f[<<q, i>>] /\ <<q, i>> \in Missing(B, lens)
      BY Zenon, <1>4
    <2>2. rows[r][j] = f[<<r, j>>] /\ <<r, j>> \in Missing(B, lens)
      BY Zenon, <1>4
    <2>3. PICK a, b : a = <<q, i>> /\ b = <<r, j>>
      BY Zenon
    <2>4. a = b
      BY ZenonT(30), <1>3, <1>7, <2>1, <2>2, <2>3
    <2> QED
      BY <2>3, <2>4
  <1>8. ASSUME NEW r \in B, NEW i \in NewAt(r, lens[r])
        PROVE  rows[r][i] \in avail /\ rows[r][i] \notin avail \ Taken(B, lens, f)
    BY Zenon, <1>3, <1>4 DEF Taken
  <1> QED
    BY <1>5, <1>6, <1>7, <1>8 DEF Rows

-----------------------------------------------------------------------------
(* What the requests own once the batch B has its rows.                      *)
OwnedWith(B, rows) ==
  [r \in Reqs |-> IF r \in B THEN OwnPages(rows[r], cache_protected_len[r]) ELSE Owned[r]]
OwnedAt(B, rows, r) == (cache_protected_len[r] \div PageSize + 1)..Len(rows[r])

(* The pages of a batch come from avail: ownership stays apart.              *)
LEMMA RowsApart ==
  ASSUME NEW B \in SUBSET Reqs, NEW lens, NEW rows, NEW avail, NEW F, NEW u,
         \A r \in B : Grows(r, lens[r], PrefixLen(r) \div PageSize),
         Apart(u, avail, Owned), Rows(B, lens, rows, avail, F), avail \subseteq Pages,
         \A x \in Cached(u) : u.value[x] \in Pages
  PROVE  /\ Apart(u, F, OwnedWith(B, rows))
         /\ \A r \in B : \A i, j \in OwnedAt(B, rows, r) : rows[r][i] = rows[r][j] => i = j
  <1>1. PICK own : own = OwnedWith(B, rows)
    BY Zenon
  <1>2. ASSUME NEW r \in B
        PROVE  /\ cache_protected_len[r] \div PageSize \in Nat /\ Len(req_to_token[r]) \in Nat
               /\ cache_protected_len[r] \div PageSize <= Len(req_to_token[r])
               /\ Len(rows[r]) = NumPages(lens[r]) /\ NumPages(lens[r]) \in Nat
               /\ Len(req_to_token[r]) <= NumPages(lens[r])
    BY DEF Grows, Rows
  <1>3. ASSUME NEW r \in B, NEW i \in OwnedAt(B, rows, r)
        PROVE  \/ /\ i \in (cache_protected_len[r] \div PageSize + 1)..Len(req_to_token[r])
                  /\ rows[r][i] = req_to_token[r][i] /\ rows[r][i] \in Owned[r]
               \/ i \in NewAt(r, lens[r]) /\ rows[r][i] \in avail /\ rows[r][i] \notin F
    <2>1. CASE i <= Len(req_to_token[r])
      <3>1. /\ i \in (cache_protected_len[r] \div PageSize + 1)..Len(req_to_token[r])
            /\ i \in 1..Len(req_to_token[r])
        BY <2>1, <1>2 DEF OwnedAt
      <3> QED
        BY ZenonT(30), <3>1 DEF Rows, Owned, OwnPages
    <2>2. CASE ~(i <= Len(req_to_token[r]))
      <3>1. i \in NewAt(r, lens[r])
        BY <2>2, <1>2 DEF OwnedAt, NewAt
      <3> QED
        BY Zenon, <3>1 DEF Rows
    <2> QED
      BY Zenon, <2>1, <2>2
  <1>4. ASSUME NEW r \in B, NEW i \in OwnedAt(B, rows, r), NEW j \in OwnedAt(B, rows, r),
               rows[r][i] = rows[r][j]
        PROVE  i = j
    <2>1. Owned[r] \cap avail = {}
      BY Zenon DEF Apart
    <2>2. CASE i \in NewAt(r, lens[r]) /\ j \in NewAt(r, lens[r])
      BY <2>2, <1>4 DEF Rows
    <2>3. CASE i \notin NewAt(r, lens[r]) /\ j \notin NewAt(r, lens[r])
      <3>1. /\ i \in (cache_protected_len[r] \div PageSize + 1)..Len(req_to_token[r])
            /\ j \in (cache_protected_len[r] \div PageSize + 1)..Len(req_to_token[r])
            /\ rows[r][i] = req_to_token[r][i] /\ rows[r][j] = req_to_token[r][j]
        BY Zenon, <2>3, <1>3
      <3>2. Grows(r, lens[r], PrefixLen(r) \div PageSize)
        BY Zenon
      <3>3. \A k, l \in (cache_protected_len[r] \div PageSize + 1)..Len(req_to_token[r]) :
              req_to_token[r][k] = req_to_token[r][l] => k = l
        BY Zenon, <3>2 DEF Grows
      <3> QED
        BY ZenonT(30), <3>1, <3>3, <1>4
    <2>4. CASE i \in NewAt(r, lens[r]) /\ j \notin NewAt(r, lens[r])
      <3>1. rows[r][j] \in Owned[r] /\ rows[r][i] \in avail
        BY Zenon, <2>4, <1>3 DEF Rows
      <3> QED
        BY Zenon, <3>1, <2>1, <1>4
    <2>5. CASE i \notin NewAt(r, lens[r]) /\ j \in NewAt(r, lens[r])
      <3>1. rows[r][i] \in Owned[r] /\ rows[r][j] \in avail
        BY Zenon, <2>5, <1>3 DEF Rows
      <3> QED
        BY Zenon, <3>1, <2>1, <1>4
    <2> QED
      BY Zenon, <2>2, <2>3, <2>4, <2>5
  <1>5. ASSUME NEW r \in Reqs, NEW p \in own[r]
        PROVE  \/ p \in Owned[r]
               \/ r \in B /\ p \in avail /\ p \notin F /\ \E i \in NewAt(r, lens[r]) : p = rows[r][i]
    <2>1. CASE r \notin B
      BY Zenon, <2>1, <1>1, <1>5 DEF OwnedWith
    <2>2. CASE r \in B
      <3>1. PICK i \in OwnedAt(B, rows, r) : p = rows[r][i]
        BY Zenon, <2>2, <1>1, <1>5 DEF OwnedWith, OwnPages, OwnedAt
      <3> QED
        BY Zenon, <3>1, <2>2, <1>3
    <2> QED
      BY Zenon, <2>1, <2>2
  <1>6. F \subseteq avail
    BY Zenon DEF Rows
  <1>7. ASSUME NEW r \in Reqs
        PROVE  own[r] \cap F = {} /\ \A x \in Cached(u) : u.value[x] \notin own[r]
    BY Zenon, <1>5, <1>6 DEF Apart
  <1>8. ASSUME NEW q \in Reqs, NEW r \in Reqs, q # r PROVE own[q] \cap own[r] = {}
    <2>1. SUFFICES ASSUME NEW p \in own[q], p \in own[r] PROVE FALSE
      BY Zenon
    <2>2. Owned[q] \cap Owned[r] = {} /\ Owned[q] \cap avail = {} /\ Owned[r] \cap avail = {}
      BY Zenon, <1>8 DEF Apart
    <2>3. /\ q \in B /\ \E i \in NewAt(q, lens[q]) : p = rows[q][i]
          /\ r \in B /\ \E i \in NewAt(r, lens[r]) : p = rows[r][i]
      <3>1. \/ p \in Owned[q]
            \/ q \in B /\ p \in avail /\ p \notin F /\ \E i \in NewAt(q, lens[q]) : p = rows[q][i]
        BY Zenon, <2>1, <1>5
      <3>2. \/ p \in Owned[r]
            \/ r \in B /\ p \in avail /\ p \notin F /\ \E i \in NewAt(r, lens[r]) : p = rows[r][i]
        BY Zenon, <2>1, <1>5
      <3> QED
        BY Zenon, <3>1, <3>2, <2>2
    <2>4. PICK i \in NewAt(q, lens[q]), j \in NewAt(r, lens[r]) : rows[q][i] = rows[r][j]
      BY Zenon, <2>3
    <2> QED
      BY ZenonT(30), <2>3, <2>4, <1>8 DEF Rows
  <1>9. Apart(u, F, own)
    <2>1. /\ F \subseteq Pages /\ \A x, y \in Cached(u) : u.value[x] = u.value[y] => x = y
          /\ \A x \in Cached(u) : u.value[x] \notin F
      BY Zenon, <1>6 DEF Apart
    <2> QED
      BY Zenon, <2>1, <1>7, <1>8 DEF Apart
  <1> QED
    BY Zenon, <1>1, <1>4, <1>9

(* The positions that the forward pass writes.                               *)
WrittenAt(r, n) == NumPages(PrefixLen(r) + 1)..NumPages(n)
Overwrites(B, lens, rows, d, new) ==
  /\ \A p \in Pages : new[p] = IF \E w \in Written(B, lens, rows) : w[1] = p
                               THEN (CHOOSE w \in Written(B, lens, rows) : w[1] = p)[2] ELSE d[p]
  /\ \A r \in B : \A i \in WrittenAt(r, lens[r]) : rows[r][i] \in Pages
  /\ \A q, r \in B : \A i \in WrittenAt(q, lens[q]), j \in WrittenAt(r, lens[r]) :
       rows[q][i] = rows[r][j] => q = r /\ i = j
Overwritten(B, lens, rows, d, new) ==
  /\ \A r \in B : \A i \in WrittenAt(r, lens[r]) : new[rows[r][i]] = Key(ids[r], Fill(i, lens[r]))
  /\ \A p \in Pages : (\A r \in B : \A i \in WrittenAt(r, lens[r]) : rows[r][i] # p) => new[p] = d[p]

(* The content that the forward pass of the batch leaves, d being the content
   before it: no page is written twice.                                      *)
LEMMA WrittenContent ==
  ASSUME NEW B, NEW lens, NEW rows, NEW d, NEW new, Overwrites(B, lens, rows, d, new)
  PROVE  Overwritten(B, lens, rows, d, new)
  <1> /\ \A r \in B : \A i \in WrittenAt(r, lens[r]) : rows[r][i] \in Pages
      /\ \A q, r \in B : \A i \in WrittenAt(q, lens[q]), j \in WrittenAt(r, lens[r]) :
           rows[q][i] = rows[r][j] => q = r /\ i = j
    BY Zenon DEF Overwrites
  <1> DEFINE W == Written(B, lens, rows)
  <1>1. ASSUME NEW w \in W
        PROVE  \E r \in B : \E i \in WrittenAt(r, lens[r]) :
                 w = <<rows[r][i], Key(ids[r], Fill(i, lens[r]))>>
    BY DEF Written, WrittenAt, Fill
  <1>2. ASSUME NEW r \in B, NEW i \in WrittenAt(r, lens[r])
        PROVE  <<rows[r][i], Key(ids[r], Fill(i, lens[r]))>> \in W
    BY DEF Written, WrittenAt, Fill
  <1> HIDE DEF W
  <1>3. \A p \in Pages : new[p] = IF \E w \in W : w[1] = p THEN (CHOOSE w \in W : w[1] = p)[2] ELSE d[p]
    BY Zenon DEF W, Overwrites
  <1>4. ASSUME NEW r \in B, NEW i \in WrittenAt(r, lens[r])
        PROVE  new[rows[r][i]] = Key(ids[r], Fill(i, lens[r]))
    <2>1. PICK v : v = <<rows[r][i], Key(ids[r], Fill(i, lens[r]))>>
      BY Zenon
    <2>2. v \in W /\ v[1] = rows[r][i] /\ v[2] = Key(ids[r], Fill(i, lens[r])) /\ rows[r][i] \in Pages
      BY Zenon, <2>1, <1>2
    <2>3. PICK w : w = CHOOSE z \in W : z[1] = rows[r][i]
      BY Zenon
    <2>4. w \in W /\ w[1] = rows[r][i]
      BY Zenon, <2>2, <2>3
    <2>5. new[rows[r][i]] = w[2]
      BY Zenon, <2>2, <2>3, <1>3
    <2>10. PICK q \in B : \E j \in WrittenAt(q, lens[q]) : w = <<rows[q][j], Key(ids[q], Fill(j, lens[q]))>>
      BY Zenon, <2>4, <1>1
    <2>6. PICK j \in WrittenAt(q, lens[q]) : w = <<rows[q][j], Key(ids[q], Fill(j, lens[q]))>>
      BY Zenon, <2>10
    <2>7. rows[q][j] = rows[r][i] /\ w[2] = Key(ids[q], Fill(j, lens[q]))
      BY Zenon, <2>4, <2>6
    <2>8. q = r /\ j = i
      BY <2>7
    <2> QED
      BY Zenon, <2>5, <2>7, <2>8
  <1>5. ASSUME NEW p \in Pages, \A r \in B : \A i \in WrittenAt(r, lens[r]) : rows[r][i] # p
        PROVE  new[p] = d[p]
    <2>1. ~\E w \in W : w[1] = p
      <3>1. ASSUME NEW w \in W PROVE w[1] # p
        <4>1. \E q \in B : \E j \in WrittenAt(q, lens[q]) : w = <<rows[q][j], Key(ids[q], Fill(j, lens[q]))>>
          BY Zenon, <1>1
        <4> QED
          BY SMTT(30), <4>1, <1>5
      <3> QED
        BY Zenon, <3>1
    <2> QED
      BY Zenon, <2>1, <1>3
  <1> QED
    BY Zenon, <1>4, <1>5 DEF Overwritten

-----------------------------------------------------------------------------
(* An allocation that fails changes the tree and the free list only: what it
   evicts stays free.                                                        *)
LEMMA AllocFailsInv ==
  ASSUME KVInv, NEW B, NEW lens, NEW demand, ~oom, Alloc(B, lens, demand), oom',
         UNCHANGED <<extend_end, stage, ids, cache_protected_len, last_node>>
  PROVE  KVInv' /\ Allocates
  <1>1. PICK R \in EvictFromTreeCache(tree, free_pages, demand) :
          /\ tree' = DeleteNodes(tree, R) /\ free_pages' = free_pages \cup PagesOf(tree, R)
          /\ double_free' = (double_free \/ PagesOf(tree, R) \cap free_pages # {})
          /\ UNCHANGED <<req_to_token, kv_committed_len, content>>
    BY Zenon DEF Alloc
  <1>2. PICK u, out : u = tree' /\ out = PagesOf(tree, R)
    BY Zenon
  <1>3. Evicts(tree, Holders, last_node, free_pages, Owned, content, demand, u, out, content)
    BY Zenon, <1>1, <1>2, HoldersCounted DEF Evicts, KVInv
  <1>4. /\ Shape(u, Tokens, Pages) /\ Locks(u, Holders, last_node) /\ Apart(u, free_pages \cup out, Owned)
        /\ Filled(u, content) /\ out \cap free_pages = {} /\ out \subseteq Pages
        /\ \A r \in Reqs : Owned[r] \cap out = {}
        /\ Retains(tree, u, Holders, last_node, out) /\ Sheds(tree, u, out)
    BY Zenon, <1>3, EvictStep
  <1>5. ~double_free'
    BY ZenonT(30), <1>1, <1>2, <1>4 DEF KVInv
  <1>6. Holders' = Holders /\ Owned' = Owned
    BY Zenon, <1>1 DEF Holders, Locking, Owned
  <1>7. \A q \in Reqs : Undisturbed(q, u, content)
    BY Zenon, <1>4 DEF Retains, Undisturbed
  <1>8. \A q \in Reqs : ReqInv(u, content, req_to_token[q], kv_committed_len[q],
          cache_protected_len[q], last_node[q], extend_end[q], stage[q], ids[q])
    BY Zenon, <1>7, Others
  <1>9. /\ Shape(tree', Tokens, Pages) /\ Locks(tree', Holders', last_node')
        /\ Apart(tree', free_pages', Owned') /\ Filled(tree', content')
        /\ \A q \in Reqs : ReqInv(tree', content', req_to_token'[q], kv_committed_len'[q],
             cache_protected_len'[q], last_node'[q], extend_end'[q], stage'[q], ids'[q])
    BY Zenon, <1>1, <1>2, <1>4, <1>6, <1>8
  <1>10. Allocates
    <2>1. EndsEvicting(tree, free_pages)
      BY Zenon, <1>1, <1>2, <1>4 DEF EndsEvicting
    <2> QED
      BY Zenon, <2>1, <1>6, NothingAllocated
  <1> QED
    BY Zenon, <1>1, <1>5, <1>9, <1>10 DEF KVInv

(* What the forward pass of the batch leaves in the pages of a request of it,
   whose positions up to k it only reads.                                    *)
Ready(r, n, rows) ==
  /\ rows[r] \in Seq(Pages) /\ Len(rows[r]) = NumPages(n)
  /\ \A i \in 1..Len(req_to_token[r]) : rows[r][i] = req_to_token[r][i]
  /\ \A i \in 1..Len(rows[r]) : content'[rows[r][i]] = Key(ids[r], Fill(i, n))
  /\ \A i, j \in (cache_protected_len[r] \div PageSize + 1)..Len(rows[r]) :
       rows[r][i] = rows[r][j] => i = j
  /\ \A y \in Cached(tree) : y \preceq last_node[r] =>
       y \in Cached(tree') /\ tree'.value[y] = tree.value[y]

(* The new pages of the batch come from the free list and from the tree.      *)
NewPages(r, n, rows) == {rows[r][i] : i \in NewAt(r, n)}
Draws(B, lens, rows) ==
  \E out : /\ Sheds(tree, tree', out)
           /\ \A r \in B : NewPages(r, lens[r], rows) \subseteq free_pages \cup out
           /\ free_pages' = (free_pages \cup out) \ UNION {NewPages(r, lens[r], rows) : r \in B}

Gives(B, lens, rows) ==
  /\ Draws(B, lens, rows)
  /\ req_to_token' = [r \in Reqs |-> IF r \in B THEN rows[r] ELSE req_to_token[r]]
  /\ kv_committed_len' = [r \in Reqs |-> IF r \in B THEN lens[r] ELSE kv_committed_len[r]]
  /\ \A r \in B : Ready(r, lens[r], rows)
  /\ Shape(tree', Tokens, Pages) /\ Locks(tree', Holders, last_node) /\ Filled(tree', content')
  /\ ~double_free' /\ Apart(tree', free_pages', OwnedWith(B, rows))
  /\ \A q \in Reqs : q \notin B => Undisturbed(q, tree', content')

(* The assignments of Alloc when the pages f of avail go to the batch B.      *)
Launch(B, lens, f, avail, out) ==
  LET rows == NewRows(B, lens, f) IN
  /\ free_pages' = avail \ {f[x] : x \in Missing(B, lens)}
  /\ req_to_token' = [r \in Reqs |-> IF r \in B THEN rows[r] ELSE req_to_token[r]]
  /\ kv_committed_len' = [r \in Reqs |-> IF r \in B THEN lens[r] ELSE kv_committed_len[r]]
  /\ content' = [p \in Pages |->
       IF \E w \in Written(B, lens, rows) : w[1] = p
       THEN (CHOOSE w \in Written(B, lens, rows) : w[1] = p)[2]
       ELSE IF p \in out THEN <<>> ELSE content[p]]

(* An allocation that succeeds: the batch writes the KV of its tokens to pages
   that nobody else uses.                                                    *)
LEMMA AllocGives ==
  ASSUME KVInv, NEW B \in SUBSET Reqs, NEW lens, NEW demand, ~oom, Alloc(B, lens, demand), ~oom',
         \A r \in B : Grows(r, lens[r], PrefixLen(r) \div PageSize)
  PROVE  \E rows : Gives(B, lens, rows)
  <1>1. PICK R \in EvictFromTreeCache(tree, free_pages, demand) :
          /\ tree' = DeleteNodes(tree, R)
          /\ double_free' = (double_free \/ PagesOf(tree, R) \cap free_pages # {})
          /\ \E f \in Injections(Missing(B, lens), free_pages \cup PagesOf(tree, R)) :
               Launch(B, lens, f, free_pages \cup PagesOf(tree, R), PagesOf(tree, R))
    BY Zenon DEF Alloc, NewRows, Launch
  <1>2. PICK u, out, avail : u = tree' /\ out = PagesOf(tree, R) /\ avail = free_pages \cup out
    BY Zenon
  <1>3. PICK f \in Injections(Missing(B, lens), avail) : Launch(B, lens, f, avail, out)
    BY Zenon, <1>1, <1>2
  <1>4. PICK rows, d, new : /\ rows = NewRows(B, lens, f) /\ new = content'
                            /\ d = [p \in Pages |-> IF p \in out THEN <<>> ELSE content[p]]
    BY ZenonT(30)
  <1>21. \A p \in Pages : d[p] = IF p \in out THEN <<>> ELSE content[p]
    BY Zenon, <1>4
  <1>5. /\ Shape(u, Tokens, Pages) /\ Locks(u, Holders, last_node) /\ Apart(u, free_pages \cup out, Owned)
        /\ Filled(u, d) /\ out \cap free_pages = {} /\ out \subseteq Pages
        /\ \A r \in Reqs : Owned[r] \cap out = {}
        /\ Retains(tree, u, Holders, last_node, out) /\ Sheds(tree, u, out)
    <2>1. Evicts(tree, Holders, last_node, free_pages, Owned, content, demand, u, out, d)
      BY Zenon, <1>1, <1>2, <1>4, HoldersCounted DEF Evicts, KVInv
    <2> QED
      BY ZenonT(30), <2>1, EvictStep
  <1>6. Rows(B, lens, rows, avail, free_pages')
    <2>1. avail \in SUBSET Pages
      BY Zenon, <1>2, <1>5 DEF KVInv, Apart
    <2>2. Picks(B, lens, avail, f)
      BY Zenon, <2>1, <1>3 DEF Picks, Batch
    <2>3. Rows(B, lens, NewRows(B, lens, f), avail, avail \ Taken(B, lens, f))
      BY Zenon, <2>2, RowsProps
    <2>4. free_pages' = avail \ Taken(B, lens, f)
      BY Zenon, <1>3 DEF Launch, Taken
    <2> QED
      BY ZenonT(30), <2>3, <2>4, <1>4
  <1>7. /\ Apart(u, free_pages', OwnedWith(B, rows))
        /\ \A r \in B : \A i, j \in OwnedAt(B, rows, r) : rows[r][i] = rows[r][j] => i = j
    <2>1. avail \subseteq Pages /\ Apart(u, avail, Owned)
      BY ZenonT(30), <1>2, <1>5 DEF KVInv, Apart
    <2>2. \A x \in Cached(u) : u.value[x] \in Pages
      BY Zenon, <1>5 DEF Shape
    <2>3. PICK F : F = free_pages'
      BY Zenon
    <2>4. Rows(B, lens, rows, avail, F)
      BY Zenon, <1>6, <2>3
    <2>5. /\ Apart(u, F, OwnedWith(B, rows))
          /\ \A r \in B : \A i, j \in OwnedAt(B, rows, r) : rows[r][i] = rows[r][j] => i = j
      BY ZenonT(30), <2>1, <2>2, <2>4, RowsApart
    <2> QED
      BY Zenon, <2>3, <2>5
  <1>8. ASSUME NEW r \in B
        PROVE  /\ rows[r] \in Seq(Pages) /\ Len(rows[r]) = NumPages(lens[r])
               /\ WrittenAt(r, lens[r]) \subseteq OwnedAt(B, rows, r)
               /\ WrittenAt(r, lens[r]) \subseteq 1..Len(rows[r])
               /\ \A i \in OwnedAt(B, rows, r) : rows[r][i] \in OwnedWith(B, rows)[r]
               /\ \A i \in 1..Len(req_to_token[r]) : rows[r][i] = req_to_token[r][i]
    <2>1. /\ rows[r] \in Seq(Pages) /\ Len(rows[r]) = NumPages(lens[r])
          /\ \A i \in 1..Len(req_to_token[r]) : rows[r][i] = req_to_token[r][i]
      BY Zenon, <1>6 DEF Rows
    <2>2. PICK k : Grows(r, lens[r], k)
      BY Zenon
    <2>3. /\ k \in Nat /\ NumPages(PrefixLen(r) + 1) = k + 1 /\ k < NumPages(lens[r]) /\ NumPages(lens[r]) \in Nat
          /\ cache_protected_len[r] \div PageSize \in Nat /\ cache_protected_len[r] \div PageSize <= k
      BY Zenon, <2>2 DEF Grows
    <2>4. /\ WrittenAt(r, lens[r]) \subseteq OwnedAt(B, rows, r)
          /\ WrittenAt(r, lens[r]) \subseteq 1..Len(rows[r])
      BY SMTT(30), <2>1, <2>3 DEF WrittenAt, OwnedAt
    <2>5. \A i \in OwnedAt(B, rows, r) : rows[r][i] \in OwnedWith(B, rows)[r]
      BY Zenon DEF OwnedAt, OwnedWith, OwnPages
    <2> QED
      BY Zenon, <2>1, <2>4, <2>5
  <1>9. ASSUME NEW q \in B, NEW r \in B, NEW i \in OwnedAt(B, rows, q), NEW j \in OwnedAt(B, rows, r),
               rows[q][i] = rows[r][j]
        PROVE  q = r /\ i = j
    <2>1. q = r
      BY SMTT(30), <1>7, <1>8, <1>9 DEF Apart
    <2> QED
      BY Zenon, <2>1, <1>7, <1>9
  <1>10. /\ \A r \in B : \A i \in WrittenAt(r, lens[r]) :
              new[rows[r][i]] = Key(ids[r], Fill(i, lens[r]))
         /\ \A p \in Pages : (\A r \in B : \A i \in WrittenAt(r, lens[r]) : rows[r][i] # p) => new[p] = d[p]
    <2>1. \A p \in Pages : new[p] = IF \E w \in Written(B, lens, rows) : w[1] = p
                           THEN (CHOOSE w \in Written(B, lens, rows) : w[1] = p)[2] ELSE d[p]
      BY Zenon, <1>3, <1>4, <1>21 DEF Launch
    <2>2. \A r \in B : \A i \in WrittenAt(r, lens[r]) : rows[r][i] \in Pages
      <3>1. ASSUME NEW r \in B, NEW i \in WrittenAt(r, lens[r]) PROVE rows[r][i] \in Pages
        <4>1. rows[r] \in Seq(Pages) /\ i \in 1..Len(rows[r])
          BY ZenonT(30), <1>8
        <4> QED
          BY SMTT(30), <4>1
      <3> QED
        BY ZenonT(30), <3>1
    <2>3. \A q, r \in B : \A i \in WrittenAt(q, lens[q]), j \in WrittenAt(r, lens[r]) :
            rows[q][i] = rows[r][j] => q = r /\ i = j
      BY SMTT(30), <1>8, <1>9
    <2>4. Overwrites(B, lens, rows, d, new)
      BY Zenon, <2>1, <2>2, <2>3 DEF Overwrites
    <2>5. Overwritten(B, lens, rows, d, new)
      BY Zenon, <2>4, WrittenContent
    <2> QED
      BY Zenon, <2>5 DEF Overwritten
  <1>11. ASSUME NEW p \in Pages, \A r \in B : p \notin OwnedWith(B, rows)[r] PROVE new[p] = d[p]
    <2>1. ASSUME NEW r \in B, NEW i \in WrittenAt(r, lens[r]) PROVE rows[r][i] # p
      <3>1. i \in OwnedAt(B, rows, r)
        BY Zenon, <2>1, <1>8
      <3>2. rows[r][i] \in OwnedWith(B, rows)[r]
        BY Zenon, <3>1, <1>8
      <3> QED
        BY Zenon, <3>2, <1>11
    <2> QED
      BY Zenon, <2>1, <1>10
  <1>12. Filled(u, new)
    <2>1. ASSUME NEW x \in Cached(u) PROVE new[u.value[x]] = x
      <3>1. u.value[x] \in Pages /\ \A r \in Reqs : u.value[x] \notin OwnedWith(B, rows)[r]
        BY ZenonT(30), <1>5, <1>7 DEF Shape, Apart
      <3>2. new[u.value[x]] = d[u.value[x]]
        BY Zenon, <3>1, <1>11
      <3> QED
        BY Zenon, <3>2, <1>5 DEF Filled
    <2> QED
      BY Zenon, <2>1 DEF Filled
  <1>13. ASSUME NEW q \in Holders, NEW y \in Cached(tree), y \preceq last_node[q]
         PROVE  /\ y \in Cached(u) /\ u.value[y] = tree.value[y]
                /\ new[tree.value[y]] = content[tree.value[y]] /\ tree.value[y] \in Pages
    <2>1. y \in Cached(u) /\ u.value[y] = tree.value[y]
      BY ZenonT(30), <1>5, <1>13 DEF Retains
    <2>2. new[u.value[y]] = y /\ content[tree.value[y]] = y /\ tree.value[y] \in Pages
      BY ZenonT(30), <2>1, <1>12 DEF Filled, KVInv, Shape
    <2> QED
      BY ZenonT(30), <2>1, <2>2
  <1>14. ASSUME NEW q \in Reqs, q \notin B PROVE Undisturbed(q, u, new)
    <2>1. ASSUME NEW p \in Owned[q], p \in Pages PROVE new[p] = content[p]
      <3>1. OwnedWith(B, rows)[q] = Owned[q]
        BY ZenonT(30), <1>14 DEF OwnedWith
      <3>2. \A r \in B : p \notin OwnedWith(B, rows)[r]
        BY Zenon, <3>1, <1>7, <1>14 DEF Apart
      <3>3. p \notin out
        BY ZenonT(30), <1>5
      <3> QED
        BY Zenon, <3>2, <3>3, <2>1, <1>11, <1>21
    <2> QED
      BY Zenon, <2>1, <1>13 DEF Undisturbed
  <1>15. ASSUME NEW r \in B, NEW i \in 1..Len(rows[r])
         PROVE  new[rows[r][i]] = Key(ids[r], Fill(i, lens[r]))
    <2>1. PICK k : k = PrefixLen(r) \div PageSize /\ Grows(r, lens[r], k)
      BY Zenon
    <2>2. /\ k \in Nat /\ NumPages(PrefixLen(r) + 1) = k + 1 /\ k <= Len(req_to_token[r])
          /\ \A l \in 1..k : content[req_to_token[r][l]] = Key(ids[r], Fill(l, lens[r]))
          /\ cache_protected_len[r] \div PageSize \in Nat /\ r \in Holders
          /\ req_to_token[r] \in Seq(Pages)
          /\ \A l \in 1..(cache_protected_len[r] \div PageSize) :
               \E y \in Cached(tree) : y \preceq last_node[r] /\ req_to_token[r][l] = tree.value[y]
      BY ZenonT(30), <2>1 DEF Grows
    <2>3. CASE i \in WrittenAt(r, lens[r])
      BY ZenonT(30), <2>3, <1>10
    <2>4. CASE i \notin WrittenAt(r, lens[r])
      <3>1. i \in 1..k /\ i \in 1..Len(req_to_token[r])
        <4>1. Len(rows[r]) = NumPages(lens[r])
          BY Zenon, <1>8
        <4>2. /\ k \in Nat /\ NumPages(PrefixLen(r) + 1) = k + 1 /\ k <= Len(req_to_token[r])
              /\ req_to_token[r] \in Seq(Pages)
          BY Zenon, <2>2
        <4>3. i \in 1..Len(rows[r])
          BY Zenon
        <4> QED
          BY SMTT(30), <4>1, <4>2, <4>3, <2>4 DEF WrittenAt
      <3>2. rows[r][i] = req_to_token[r][i] /\ content[rows[r][i]] = Key(ids[r], Fill(i, lens[r]))
            /\ rows[r][i] \in Pages
        <4>1. rows[r][i] = req_to_token[r][i]
          BY Zenon, <3>1, <1>8
        <4>2. content[req_to_token[r][i]] = Key(ids[r], Fill(i, lens[r]))
          BY ZenonT(30), <3>1, <2>2
        <4>3. req_to_token[r][i] \in Pages
          <5>1. req_to_token[r] \in Seq(Pages)
            BY Zenon, <2>2
          <5> QED
            BY <5>1, <3>1
        <4> QED
          BY ZenonT(30), <4>1, <4>2, <4>3
      <3>3. new[rows[r][i]] = content[rows[r][i]]
        <4>1. CASE i \in 1..(cache_protected_len[r] \div PageSize)
          <5>1. PICK y \in Cached(tree) : y \preceq last_node[r] /\ req_to_token[r][i] = tree.value[y]
            BY Zenon, <4>1, <2>2
          <5>2. new[tree.value[y]] = content[tree.value[y]]
            <6>1. r \in Holders
              BY Zenon, <2>2
            <6> QED
              BY ZenonT(30), <6>1, <5>1, <1>13
          <5> QED
            BY ZenonT(30), <5>1, <5>2, <3>2
        <4>2. CASE i \notin 1..(cache_protected_len[r] \div PageSize)
          <5>1. /\ i \in (cache_protected_len[r] \div PageSize + 1)..Len(req_to_token[r])
                /\ i \in OwnedAt(B, rows, r)
            BY SMTT(30), <4>2, <3>1, <2>2, <1>15 DEF OwnedAt
          <5>2. rows[r][i] \in Owned[r]
            <6>1. r \in Reqs /\ Owned[r] = OwnPages(req_to_token[r], cache_protected_len[r])
              BY Zenon DEF Owned
            <6>2. req_to_token[r][i] \in OwnPages(req_to_token[r], cache_protected_len[r])
              BY Zenon, <5>1 DEF OwnPages
            <6> QED
              BY ZenonT(30), <6>1, <6>2, <3>2
          <5>3. rows[r][i] \notin out
            BY ZenonT(30), <5>2, <1>5
          <5>4. \A q \in B : \A j \in WrittenAt(q, lens[q]) : rows[q][j] # rows[r][i]
            <6>1. ASSUME NEW q \in B, NEW j \in WrittenAt(q, lens[q]), rows[q][j] = rows[r][i] PROVE FALSE
              <7>1. j \in OwnedAt(B, rows, q)
                BY Zenon, <1>8
              <7>2. q = r /\ j = i
                BY ZenonT(30), <7>1, <6>1, <5>1, <1>9
              <7> QED
                BY Zenon, <7>2, <2>4
            <6> QED
              BY Zenon, <6>1
          <5>5. new[rows[r][i]] = d[rows[r][i]]
            BY Zenon, <5>4, <3>2, <1>10
          <5> QED
            BY ZenonT(30), <5>3, <5>5, <3>2, <1>21
        <4> QED
          BY ZenonT(30), <4>1, <4>2
      <3> QED
        BY Zenon, <3>2, <3>3
    <2> QED
      BY Zenon, <2>3, <2>4
  <1>16. ASSUME NEW r \in B PROVE Ready(r, lens[r], rows)
    <2>1. r \in Holders
      BY ZenonT(30) DEF Grows
    <2>2. \A y \in Cached(tree) : y \preceq last_node[r] => y \in Cached(tree') /\ tree'.value[y] = tree.value[y]
      BY Zenon, <2>1, <1>2, <1>13
    <2>3. \A i \in 1..Len(rows[r]) : content'[rows[r][i]] = Key(ids[r], Fill(i, lens[r]))
      BY ZenonT(30), <1>4, <1>15
    <2>4. \A i, j \in (cache_protected_len[r] \div PageSize + 1)..Len(rows[r]) :
            rows[r][i] = rows[r][j] => i = j
      BY ZenonT(30), <1>7 DEF OwnedAt
    <2> QED
      BY Zenon, <2>2, <2>3, <2>4, <1>8 DEF Ready
  <1>17. ~double_free'
    BY ZenonT(30), <1>1, <1>2, <1>5 DEF KVInv
  <1>18. /\ req_to_token' = [r \in Reqs |-> IF r \in B THEN rows[r] ELSE req_to_token[r]]
         /\ kv_committed_len' = [r \in Reqs |-> IF r \in B THEN lens[r] ELSE kv_committed_len[r]]
    BY Zenon, <1>3, <1>4 DEF Launch
  <1>19. /\ Shape(tree', Tokens, Pages) /\ Locks(tree', Holders, last_node) /\ Filled(tree', content')
         /\ Apart(tree', free_pages', OwnedWith(B, rows))
         /\ \A q \in Reqs : q \notin B => Undisturbed(q, tree', content')
    BY ZenonT(30), <1>2, <1>4, <1>5, <1>7, <1>12, <1>14
  <1>22. Draws(B, lens, rows)
    <2>1. \A r \in B : NewPages(r, lens[r], rows) \subseteq avail
      BY SMTT(30), <1>6 DEF Rows, NewPages
    <2>2. ASSUME NEW p \in UNION {NewPages(r, lens[r], rows) : r \in B} PROVE p \notin free_pages'
      BY SMTT(30), <1>6 DEF Rows, NewPages
    <2>3. ASSUME NEW p \in avail, p \notin free_pages'
          PROVE  p \in UNION {NewPages(r, lens[r], rows) : r \in B}
      <3>1. PICK x \in Missing(B, lens) : p = f[x]
        BY ZenonT(30), <2>3, <1>3 DEF Launch
      <3>2. PICK r \in B : \E i \in NewAt(r, lens[r]) : x = <<r, i>>
        BY DEF Missing, NewAt
      <3>3. PICK i \in NewAt(r, lens[r]) : x = <<r, i>>
        BY Zenon, <3>2
      <3>4. rows[r][i] = f[<<r, i>>]
        <4>1. i \in 1..NumPages(lens[r]) /\ <<r, i>> \in Missing(B, lens)
          <5>1. Len(req_to_token[r]) \in Nat /\ NumPages(lens[r]) \in Nat
            BY SMTT(30) DEF Grows
          <5> QED
            BY SMTT(30), <3>1, <3>3 DEF NewAt
        <4> QED
          BY Zenon, <4>1, <1>4 DEF NewRows
      <3>5. p = rows[r][i]
        BY Zenon, <3>1, <3>3, <3>4
      <3>6. p \in NewPages(r, lens[r], rows)
        BY Zenon, <3>5 DEF NewPages
      <3> QED
        BY Zenon, <3>6
    <2>4. free_pages' = avail \ UNION {NewPages(r, lens[r], rows) : r \in B}
      <3>1. free_pages' \subseteq avail
        BY Zenon, <1>6 DEF Rows
      <3> QED
        BY Zenon, <3>1, <2>2, <2>3
    <2> QED
      BY ZenonT(30), <2>1, <2>4, <1>2, <1>5 DEF Draws
  <1>20. Gives(B, lens, rows)
    BY ZenonT(30), <1>16, <1>17, <1>18, <1>19, <1>22 DEF Gives
  <1> QED
    BY Zenon, <1>20

-----------------------------------------------------------------------------
(* Extend and Decode. *)

(* The request r of a batch afterwards: tok extends its tokens.              *)
Extends(tok, r) ==
  /\ tok \in Seq(Tokens) /\ Len(ids[r]) <= Len(tok)
  /\ \A n \in 0..Len(ids[r]) : Key(tok, n) = Key(ids[r], n)
Continues(r, n, end, st, tok) ==
  /\ st \in {"chunked", "extended", "decoding"} /\ Extends(tok, r)
  /\ end \in Nat /\ cache_protected_len[r] <= end /\ end <= n
  /\ st \in {"extended", "decoding"} => n < Len(tok)

(* A request of a batch has its invariant again once the forward pass is
   launched.                                                                 *)
LEMMA GrownReq ==
  ASSUME KVInv, NEW r \in Reqs, NEW n, NEW rows, NEW k, Grows(r, n, k), Ready(r, n, rows),
         NEW end, NEW st, NEW tok, Continues(r, n, end, st, tok)
  PROVE  ReqInv(tree', content', rows[r], n, cache_protected_len[r], last_node[r], end, st, tok)
  <1>1. PICK prot, row, new, u :
          prot = cache_protected_len[r] /\ row = rows[r] /\ new = content' /\ u = tree'
    BY Zenon
  <1>2. ReqInv(tree, content, req_to_token[r], kv_committed_len[r], prot, last_node[r],
               extend_end[r], stage[r], ids[r]) /\ stage[r] \notin {"none", "waiting"}
    BY ZenonT(30), <1>1 DEF KVInv, Grows, Holders, Locking
  <1>3. /\ prot \in Nat /\ prot % PageSize = 0 /\ prot \div PageSize <= Len(req_to_token[r])
        /\ last_node[r] = Key(ids[r], prot) /\ prot <= Len(ids[r])
        /\ \A i \in 1..(prot \div PageSize) :
             /\ Key(ids[r], i * PageSize) \in Cached(tree) /\ Key(ids[r], i * PageSize) \preceq last_node[r]
             /\ req_to_token[r][i] = tree.value[Key(ids[r], i * PageSize)]
    BY ZenonT(30), <1>2 DEF ReqInv
  <1>4. /\ n \in Nat /\ n <= Len(ids[r]) /\ prot <= n /\ ids[r] \in Seq(Tokens)
        /\ req_to_token[r] \in Seq(Pages) /\ NumPages(n) \in Nat
        /\ Len(req_to_token[r]) <= NumPages(n) /\ prot \div PageSize \in Nat
    BY Zenon, <1>1 DEF Grows
  <1>5. /\ row \in Seq(Pages) /\ Len(row) = NumPages(n)
        /\ \A i \in 1..Len(req_to_token[r]) : row[i] = req_to_token[r][i]
        /\ \A i \in 1..Len(row) : new[row[i]] = Key(ids[r], Fill(i, n))
        /\ \A i, j \in (prot \div PageSize + 1)..Len(row) : row[i] = row[j] => i = j
        /\ \A y \in Cached(tree) : y \preceq last_node[r] => y \in Cached(u) /\ u.value[y] = tree.value[y]
    BY Zenon, <1>1 DEF Ready
  <1>6. /\ tok \in Seq(Tokens) /\ Len(ids[r]) <= Len(tok)
        /\ \A m \in 0..Len(ids[r]) : Key(tok, m) = Key(ids[r], m)
        /\ st \in {"chunked", "extended", "decoding"} /\ end \in Nat /\ prot <= end /\ end <= n
        /\ st \in {"extended", "decoding"} => n < Len(tok)
    BY Zenon, <1>1 DEF Continues, Extends
  <1>7. ASSUME NEW i \in 1..Len(row) PROVE new[row[i]] = Key(tok, Fill(i, n))
    <2>1. Fill(i, n) \in 0..Len(ids[r])
      <3>1. i * PageSize \in Nat
        BY SMTT(30), <1>4, <1>5, PageSizeAssumption
      <3>2. Fill(i, n) \in 0..n
        BY <3>1, <1>4 DEF Fill
      <3> QED
        BY SMTT(30), <3>2, <1>4
    <2> QED
      BY Zenon, <2>1, <1>5, <1>6
  <1>8. ASSUME NEW i \in 1..(prot \div PageSize)
        PROVE  /\ Key(tok, i * PageSize) \in Cached(u) /\ Key(tok, i * PageSize) \preceq last_node[r]
               /\ row[i] = u.value[Key(tok, i * PageSize)]
    <2>1. i * PageSize \in 1..prot
      BY SMTT(30), <1>3, PageCount
    <2>2. Key(tok, i * PageSize) = Key(ids[r], i * PageSize)
      BY SMTT(30), <2>1, <1>3, <1>4, <1>6
    <2>3. row[i] = req_to_token[r][i]
      BY SMTT(30), <1>3, <1>4, <1>5
    <2> QED
      BY ZenonT(30), <2>2, <2>3, <1>3, <1>5
  <1>9. last_node[r] = Key(tok, prot) /\ prot <= Len(tok) /\ prot \div PageSize <= Len(row) /\ n <= Len(tok)
    BY SMTT(30), <1>3, <1>4, <1>5, <1>6
  <1>10. st \in Stages /\ st \notin {"none", "waiting", "admitted"}
    BY Zenon, <1>6 DEF Stages
  <1>11. ReqInv(u, new, row, n, prot, last_node[r], end, st, tok)
    BY ZenonT(30), <1>3, <1>4, <1>5, <1>6, <1>7, <1>8, <1>9, <1>10 DEF ReqInv
  <1> QED
    BY Zenon, <1>1, <1>11

(* A batch that gets its pages keeps the invariant.                          *)
LEMMA BatchInv ==
  ASSUME KVInv, NEW B, NEW lens, Batch(B, lens), NEW rows, Gives(B, lens, rows),
         UNCHANGED <<cache_protected_len, last_node>>,
         extend_end' \in [Reqs -> Nat], stage' \in [Reqs -> Stages], ids' \in [Reqs -> Seq(Tokens)],
         \A r \in B : Continues(r, lens[r], extend_end'[r], stage'[r], ids'[r]),
         \A r \in Reqs : r \notin B =>
           extend_end'[r] = extend_end[r] /\ stage'[r] = stage[r] /\ ids'[r] = ids[r]
  PROVE  KVInv' /\ Allocates /\ Holders' = Holders
  <1>1. /\ B \in SUBSET Reqs
        /\ \A r \in B : Grows(r, lens[r], PrefixLen(r) \div PageSize) /\ Ready(r, lens[r], rows)
        /\ req_to_token' = [r \in Reqs |-> IF r \in B THEN rows[r] ELSE req_to_token[r]]
        /\ kv_committed_len' = [r \in Reqs |-> IF r \in B THEN lens[r] ELSE kv_committed_len[r]]
        /\ Shape(tree', Tokens, Pages) /\ Locks(tree', Holders, last_node) /\ Filled(tree', content')
        /\ ~double_free' /\ Apart(tree', free_pages', OwnedWith(B, rows))
        /\ \A q \in Reqs : q \notin B => Undisturbed(q, tree', content')
        /\ Draws(B, lens, rows)
    BY ZenonT(30) DEF Batch, Gives
  <1>2. \A r \in B : lens[r] \in Nat /\ rows[r] \in Seq(Pages) /\ r \in Holders
    BY ZenonT(30), <1>1 DEF Grows, Ready
  <1>3. Holders' = Holders
    <2>1. ASSUME NEW r \in Reqs PROVE r \in Holders' <=> r \in Holders
      <3>1. CASE r \in B
        BY Zenon, <3>1, <1>2 DEF Continues, Holders, Locking
      <3>2. CASE r \notin B
        BY Zenon, <3>2 DEF Holders, Locking
      <3> QED
        BY Zenon, <3>1, <3>2
    <2> QED
      BY Zenon, <2>1 DEF Holders
  <1>4. Owned' = OwnedWith(B, rows)
    <2>1. ASSUME NEW r \in Reqs PROVE OwnPages(req_to_token'[r], cache_protected_len'[r]) = OwnedWith(B, rows)[r]
      <3>1. req_to_token'[r] = (IF r \in B THEN rows[r] ELSE req_to_token[r])
            /\ cache_protected_len'[r] = cache_protected_len[r]
        BY ZenonT(30), <1>1
      <3> QED
        BY Zenon, <3>1 DEF OwnedWith, Owned
    <2> QED
      BY Zenon, <2>1 DEF Owned, OwnedWith
  <1>5. ASSUME NEW r \in Reqs
        PROVE  ReqInv(tree', content', req_to_token'[r], kv_committed_len'[r], cache_protected_len'[r],
                      last_node'[r], extend_end'[r], stage'[r], ids'[r])
    <2>1. cache_protected_len'[r] = cache_protected_len[r] /\ last_node'[r] = last_node[r]
      BY Zenon
    <2>2. CASE r \in B
      <3>1. req_to_token'[r] = rows[r] /\ kv_committed_len'[r] = lens[r]
        BY ZenonT(30), <2>2, <1>1
      <3>2. PICK k, end, st, tok : /\ end = extend_end'[r] /\ st = stage'[r] /\ tok = ids'[r]
                                   /\ k = PrefixLen(r) \div PageSize
        BY Zenon
      <3>3. Grows(r, lens[r], k) /\ Ready(r, lens[r], rows) /\ Continues(r, lens[r], end, st, tok)
        BY ZenonT(30), <2>2, <3>2, <1>1
      <3>4. ReqInv(tree', content', rows[r], lens[r], cache_protected_len[r], last_node[r], end, st, tok)
        BY ZenonT(30), <3>3, GrownReq
      <3> QED
        BY ZenonT(30), <3>1, <3>2, <3>4, <2>1
    <2>3. CASE r \notin B
      <3>1. ReqInv(tree', content', req_to_token[r], kv_committed_len[r], cache_protected_len[r],
                   last_node[r], extend_end[r], stage[r], ids[r])
        BY ZenonT(30), <2>3, <1>1, Others
      <3>2. req_to_token'[r] = req_to_token[r] /\ kv_committed_len'[r] = kv_committed_len[r]
        BY ZenonT(30), <2>3, <1>1
      <3>3. extend_end'[r] = extend_end[r] /\ stage'[r] = stage[r] /\ ids'[r] = ids[r]
        BY Zenon, <2>3
      <3> QED
        BY ZenonT(30), <3>1, <3>2, <3>3, <2>1
    <2> QED
      BY ZenonT(30), <2>2, <2>3
  <1>6. /\ req_to_token' \in [Reqs -> Seq(Pages)] /\ kv_committed_len' \in [Reqs -> Nat]
        /\ last_node' \in [Reqs -> Seq(Tokens)] /\ cache_protected_len' \in [Reqs -> Nat]
    BY Zenon, <1>1, <1>2 DEF KVInv
  <1>7. KVInv'
    BY ZenonT(30), <1>1, <1>3, <1>4, <1>5, <1>6 DEF KVInv
  <1>8. Allocates
    <2>1. PICK out :
            /\ Sheds(tree, tree', out)
            /\ \A r \in B : NewPages(r, lens[r], rows) \subseteq free_pages \cup out
            /\ free_pages' = (free_pages \cup out) \ UNION {NewPages(r, lens[r], rows) : r \in B}
      BY Zenon, <1>1 DEF Draws
    <2>2. PICK N : N = [r \in Reqs |-> IF r \in B THEN NewPages(r, lens[r], rows) ELSE {}]
      BY ZenonT(30)
    <2>3. /\ \A r \in B : N[r] = NewPages(r, lens[r], rows)
          /\ \A r \in Reqs : r \notin B => N[r] = {}
      BY Zenon, <2>2, <1>1
    <2>4. \A r \in Reqs : N[r] \subseteq free_pages \cup out /\ (r \notin Holders => N[r] = {})
      BY Zenon, <2>1, <2>3, <1>2
    <2>5. UNION {N[r] : r \in Reqs} = UNION {NewPages(r, lens[r], rows) : r \in B}
      <3>1. UNION {N[r] : r \in Reqs} \subseteq UNION {NewPages(r, lens[r], rows) : r \in B}
        <4>1. ASSUME NEW r \in Reqs, NEW p \in N[r] PROVE \E q \in B : p \in NewPages(q, lens[q], rows)
          BY ZenonT(30), <2>3
        <4> QED
          BY Zenon, <4>1
      <3>2. UNION {NewPages(r, lens[r], rows) : r \in B} \subseteq UNION {N[r] : r \in Reqs}
        <4>1. SUFFICES ASSUME NEW p \in UNION {NewPages(r, lens[r], rows) : r \in B}
                       PROVE  \E r \in Reqs : p \in N[r]
          BY ZenonT(30)
        <4>2. PICK r \in B : p \in NewPages(r, lens[r], rows)
          BY Zenon
        <4>3. r \in Reqs /\ p \in N[r]
          BY Zenon, <4>2, <2>3, <1>1
        <4> QED
          BY Zenon, <4>3
      <3> QED
        BY ZenonT(30), <3>1, <3>2
    <2>6. ASSUME NEW r \in Reqs PROVE Owned'[r] = Owned[r] \cup N[r]
      <3>1. CASE r \in B
        <4>1. PICK row, new, prot : row = req_to_token[r] /\ new = rows[r] /\ prot = cache_protected_len[r] \div PageSize
          BY Zenon
        <4>2. /\ row \in Seq(Pages) /\ NumPages(lens[r]) \in Nat /\ prot \in Nat /\ prot <= Len(row)
              /\ Len(row) <= NumPages(lens[r])
          <5>1. PICK k : k = PrefixLen(r) \div PageSize
            BY Zenon
          <5>2. Grows(r, lens[r], k)
            BY Zenon, <5>1, <3>1, <1>1
          <5>3. /\ row \in Seq(Pages) /\ NumPages(lens[r]) \in Nat /\ k \in Nat /\ prot \in Nat
                /\ prot <= k /\ k <= Len(row) /\ Len(row) <= NumPages(lens[r])
            BY ZenonT(30), <5>2, <4>1 DEF Grows
          <5> QED
            BY SMTT(30), <5>3
        <4>3. Len(new) = NumPages(lens[r]) /\ \A i \in 1..Len(row) : new[i] = row[i]
          BY Zenon, <4>1, <3>1, <1>1 DEF Ready
        <4>4. /\ Owned'[r] = {new[i] : i \in (prot + 1)..Len(new)}
              /\ Owned[r] = {row[i] : i \in (prot + 1)..Len(row)}
              /\ N[r] = {new[i] : i \in (Len(row) + 1)..Len(new)}
          <5>1. Owned'[r] = OwnPages(new, cache_protected_len[r])
            BY Zenon, <4>1, <3>1, <1>4 DEF OwnedWith
          <5>2. Owned[r] = OwnPages(row, cache_protected_len[r])
            BY Zenon, <4>1 DEF Owned
          <5>3. N[r] = {new[i] : i \in (Len(row) + 1)..NumPages(lens[r])}
            BY ZenonT(30), <4>1, <3>1, <2>3 DEF NewPages, NewAt
          <5> QED
            BY Zenon, <5>1, <5>2, <5>3, <4>1, <4>3 DEF OwnPages
        <4>5. (prot + 1)..Len(new) = ((prot + 1)..Len(row)) \cup ((Len(row) + 1)..Len(new))
          BY SMTT(30), <4>2, <4>3
        <4>6. \A i \in (prot + 1)..Len(row) : new[i] = row[i]
          BY SMTT(30), <4>2, <4>3
        <4>7. {new[i] : i \in (prot + 1)..Len(row)} = {row[i] : i \in (prot + 1)..Len(row)}
          BY Zenon, <4>6
        <4>8. Owned'[r] = {new[i] : i \in (prot + 1)..Len(row)} \cup {new[i] : i \in (Len(row) + 1)..Len(new)}
          BY ZenonT(30), <4>4, <4>5
        <4> QED
          BY ZenonT(30), <4>4, <4>7, <4>8
      <3>2. CASE r \notin B
        BY Zenon, <3>2, <2>3, <1>4 DEF OwnedWith
      <3> QED
        BY Zenon, <3>1, <3>2
    <2>7. AllocatesWith(out, N)
      BY ZenonT(30), <2>1, <2>4, <2>5, <2>6 DEF AllocatesWith
    <2> QED
      BY Zenon, <2>7 DEF Allocates
  <1> QED
    BY Zenon, <1>3, <1>7, <1>8

-----------------------------------------------------------------------------
(* The forward pass appends one token to the requests that it samples for.   *)
LEMMA Sampled ==
  ASSUME KVInv, NEW S \in SUBSET Reqs, Sample(S)
  PROVE  /\ ids' \in [Reqs -> Seq(Tokens)]
         /\ \A r \in S : Extends(ids'[r], r) /\ Len(ids'[r]) = Len(ids[r]) + 1
         /\ \A r \in Reqs : r \notin S => ids'[r] = ids[r]
  <1>1. PICK tok \in [S -> Tokens] :
          ids' = [r \in Reqs |-> IF r \in S THEN Append(ids[r], tok[r]) ELSE ids[r]]
    BY Zenon DEF Sample
  <1>2. \A r \in Reqs : ids[r] \in Seq(Tokens)
    BY Zenon DEF KVInv
  <1>3. ASSUME NEW r \in S
        PROVE  /\ ids'[r] \in Seq(Tokens) /\ Extends(ids'[r], r) /\ Len(ids'[r]) = Len(ids[r]) + 1
    <2>1. PICK a, s : a = Append(ids[r], tok[r]) /\ s = ids[r]
      BY Zenon
    <2>2. ids'[r] = a /\ s \in Seq(Tokens) /\ tok[r] \in Tokens
      BY Zenon, <2>1, <1>1, <1>2
    <2>3. /\ a \in Seq(Tokens) /\ Len(a) = Len(s) + 1
          /\ \A n \in 0..Len(s) : Key(a, n) = Key(s, n)
      BY SMTT(30), <2>1, <2>2, AppendKey
    <2>4. Len(s) <= Len(a)
      BY SMTT(30), <2>2, <2>3
    <2> QED
      BY Zenon, <2>1, <2>2, <2>3, <2>4 DEF Extends
  <1>4. \A r \in Reqs : r \notin S => ids'[r] = ids[r]
    BY Zenon, <1>1
  <1>5. ids' \in [Reqs -> Seq(Tokens)]
    <2>1. \A r \in Reqs : (IF r \in S THEN Append(ids[r], tok[r]) ELSE ids[r]) \in Seq(Tokens)
      BY Zenon, <1>2, <1>3, <1>4, <1>1
    <2> QED
      BY Zenon, <2>1, <1>1
  <1> QED
    BY Zenon, <1>3, <1>4, <1>5

(* Tokens extend themselves.                                                 *)
LEMMA ExtendsSelf == ASSUME KVInv, NEW r \in Reqs PROVE Extends(ids[r], r)
  <1>1. ids[r] \in Seq(Tokens)
    BY Zenon DEF KVInv
  <1> QED
    BY SMTT(30), <1>1 DEF Extends

(* alloc_for_extend and the launch of a prefill batch keep the invariant.    *)
LEMMA ExtendInv ==
  ASSUME KVInv, ~oom, NEW B \in SUBSET Reqs, NEW lens \in [B -> Nat], Extend(B, lens)
  PROVE  KVInv' /\ Allocates /\ Holders' = Holders /\ last_node' = last_node
  <1> DEFINE final == {r \in B : lens[r] = Len(ids[r])}
             demand == Cardinality(UNION {{r} \X ((PrefixLen(r) + 1)..lens[r]) : r \in B})
                         + (IF PageSize = 1 THEN 0 ELSE PageSize * Cardinality(B))
  <1>1. /\ \A r \in B : stage[r] \in {"admitted", "cached"} /\ lens[r] \in (PrefixLen(r) + 1)..Len(ids[r])
        /\ Alloc(B, lens, demand)
        /\ UNCHANGED <<cache_protected_len, last_node>>
        /\ IF oom' THEN UNCHANGED <<extend_end, stage, ids>>
           ELSE /\ extend_end' = [r \in Reqs |-> IF r \in B THEN lens[r] ELSE extend_end[r]]
                /\ stage' = [r \in Reqs |-> IF r \in final THEN "extended"
                                            ELSE IF r \in B THEN "chunked" ELSE stage[r]]
                /\ Sample(final)
    BY Zenon DEF Extend
  <1> HIDE DEF final, demand
  <1>2. CASE oom'
    <2>1. UNCHANGED <<extend_end, stage, ids, cache_protected_len, last_node>>
      BY Zenon, <1>1, <1>2
    <2> QED
      BY Zenon, <2>1, <1>1, <1>2, AllocFailsInv DEF Holders, Locking
  <1>3. CASE ~oom'
    <2>1. /\ extend_end' = [r \in Reqs |-> IF r \in B THEN lens[r] ELSE extend_end[r]]
          /\ stage' = [r \in Reqs |-> IF r \in final THEN "extended"
                                      ELSE IF r \in B THEN "chunked" ELSE stage[r]]
          /\ Sample(final)
      BY Zenon, <1>1, <1>3
    <2>2. ASSUME NEW r \in B PROVE Grows(r, lens[r], PrefixLen(r) \div PageSize)
      <3>1. PrefixLen(r) \in Nat /\ Len(ids[r]) \in Nat
        BY PrefixNat DEF KVInv
      <3>2. /\ stage[r] \in {"admitted", "cached", "extended", "decoding"}
            /\ lens[r] \in Nat /\ PrefixLen(r) < lens[r] /\ lens[r] <= Len(ids[r])
        BY <3>1, <1>1
      <3> QED
        BY Zenon, <3>2, GrowReq
    <2>3. Batch(B, lens)
      BY Zenon, <2>2 DEF Batch
    <2>4. PICK rows : Gives(B, lens, rows)
      BY Zenon, <2>2, <1>1, <1>3, AllocGives
    <2>5. final \in SUBSET Reqs
      BY Zenon DEF final
    <2>6. /\ ids' \in [Reqs -> Seq(Tokens)]
          /\ \A r \in final : Extends(ids'[r], r) /\ Len(ids'[r]) = Len(ids[r]) + 1
          /\ \A r \in Reqs : r \notin final => ids'[r] = ids[r]
      BY Zenon, <2>1, <2>5, Sampled
    <2>7. ASSUME NEW r \in B PROVE Continues(r, lens[r], extend_end'[r], stage'[r], ids'[r])
      <3>1. /\ extend_end'[r] = lens[r] /\ lens[r] \in Nat /\ cache_protected_len[r] <= lens[r]
        BY Zenon, <2>1, <2>2 DEF Grows
      <3>2. CASE r \in final
        <4>1. stage'[r] = "extended" /\ lens[r] = Len(ids[r])
          BY Zenon, <3>2, <2>1 DEF final
        <4>2. Extends(ids'[r], r) /\ Len(ids'[r]) = Len(ids[r]) + 1
          BY Zenon, <3>2, <2>6
        <4>3. lens[r] < Len(ids'[r]) /\ lens[r] <= lens[r]
          BY <4>1, <4>2, <3>1
        <4> QED
          BY Zenon, <4>1, <4>2, <4>3, <3>1 DEF Continues
      <3>3. CASE r \notin final
        <4>1. stage'[r] = "chunked" /\ ids'[r] = ids[r] /\ lens[r] <= lens[r]
          BY <3>1, <3>3, <2>1, <2>6
        <4>2. Extends(ids'[r], r)
          BY Zenon, <4>1, ExtendsSelf
        <4> QED
          BY Zenon, <4>1, <4>2, <3>1 DEF Continues
      <3> QED
        BY Zenon, <3>2, <3>3
    <2>8. extend_end' \in [Reqs -> Nat] /\ stage' \in [Reqs -> Stages]
      BY Zenon, <2>1 DEF KVInv, Stages
    <2>9. \A r \in Reqs : r \notin B =>
            extend_end'[r] = extend_end[r] /\ stage'[r] = stage[r] /\ ids'[r] = ids[r]
      BY Zenon, <2>1, <2>6 DEF final
    <2> QED
      BY Zenon, <2>3, <2>4, <2>6, <2>7, <2>8, <2>9, <1>1, BatchInv
  <1> QED
    BY Zenon, <1>2, <1>3

(* alloc_for_decode and the launch of a decode batch keep the invariant.     *)
LEMMA DecodeInv ==
  ASSUME KVInv, ~oom, NEW B \in SUBSET Reqs, Decode(B)
  PROVE  KVInv' /\ Allocates /\ Holders' = Holders /\ last_node' = last_node
  <1>1. PICK lens, demand : lens = [r \in B |-> kv_committed_len[r] + 1] /\ demand = PageSize * Cardinality(B)
    BY Zenon
  <1>2. /\ \A r \in B : stage[r] \in {"extended", "decoding"}
        /\ Alloc(B, lens, demand)
        /\ UNCHANGED <<cache_protected_len, last_node, extend_end, stage>>
        /\ IF oom' THEN UNCHANGED ids ELSE Sample(B)
    BY Zenon, <1>1 DEF Decode
  <1>3. CASE oom'
    <2>1. UNCHANGED <<extend_end, stage, ids, cache_protected_len, last_node>>
      BY Zenon, <1>2, <1>3
    <2> QED
      BY Zenon, <2>1, <1>2, <1>3, AllocFailsInv DEF Holders, Locking
  <1>4. CASE ~oom'
    <2>1. ASSUME NEW r \in B
          PROVE  /\ lens[r] = kv_committed_len[r] + 1 /\ kv_committed_len[r] \in Nat
                 /\ kv_committed_len[r] < Len(ids[r]) /\ Len(ids[r]) \in Nat
                 /\ cache_protected_len[r] <= extend_end[r] /\ extend_end[r] <= kv_committed_len[r]
                 /\ extend_end[r] \in Nat /\ PrefixLen(r) = kv_committed_len[r]
      <3>1. ReqInv(tree, content, req_to_token[r], kv_committed_len[r], cache_protected_len[r],
                   last_node[r], extend_end[r], stage[r], ids[r])
        BY Zenon DEF KVInv
      <3>2. stage[r] \in {"extended", "decoding"} /\ lens[r] = kv_committed_len[r] + 1
        BY Zenon, <1>1, <1>2
      <3>3. PrefixLen(r) = kv_committed_len[r]
        BY Zenon, <3>2 DEF PrefixLen
      <3> QED
        BY <3>1, <3>2, <3>3 DEF ReqInv
    <2>2. ASSUME NEW r \in B PROVE Grows(r, lens[r], PrefixLen(r) \div PageSize)
      <3>1. /\ stage[r] \in {"admitted", "cached", "extended", "decoding"}
            /\ lens[r] \in Nat /\ PrefixLen(r) < lens[r] /\ lens[r] <= Len(ids[r])
        BY <2>1, <1>2
      <3> QED
        BY Zenon, <3>1, GrowReq
    <2>3. Batch(B, lens)
      BY Zenon, <2>2 DEF Batch
    <2>4. PICK rows : Gives(B, lens, rows)
      BY Zenon, <2>2, <1>2, <1>4, AllocGives
    <2>5. /\ ids' \in [Reqs -> Seq(Tokens)]
          /\ \A r \in B : Extends(ids'[r], r) /\ Len(ids'[r]) = Len(ids[r]) + 1
          /\ \A r \in Reqs : r \notin B => ids'[r] = ids[r]
      BY Zenon, <1>2, <1>4, Sampled
    <2>6. ASSUME NEW r \in B PROVE Continues(r, lens[r], extend_end'[r], stage'[r], ids'[r])
      <3>1. extend_end'[r] = extend_end[r] /\ stage'[r] = stage[r]
        BY Zenon, <1>2
      <3>2. extend_end[r] <= lens[r] /\ lens[r] < Len(ids'[r]) /\ stage[r] \in {"extended", "decoding"}
        BY <2>1, <2>5, <1>2
      <3> QED
        BY Zenon, <3>1, <3>2, <2>1, <2>5 DEF Continues
    <2>7. extend_end' \in [Reqs -> Nat] /\ stage' \in [Reqs -> Stages]
      BY Zenon, <1>2 DEF KVInv
    <2>8. \A r \in Reqs : r \notin B =>
            extend_end'[r] = extend_end[r] /\ stage'[r] = stage[r] /\ ids'[r] = ids[r]
      BY Zenon, <2>5, <1>2
    <2> QED
      BY Zenon, <2>3, <2>4, <2>5, <2>6, <2>7, <2>8, <1>2, BatchInv
  <1> QED
    BY Zenon, <1>3, <1>4
=============================================================================
