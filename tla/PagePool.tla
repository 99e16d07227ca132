------------------------------- MODULE PagePool -------------------------------
(***************************************************************************)
(* What the prefix cache and the page allocator promise to the scheduler,  *)
(* with no tree, no lock counts and no row layout: a page is free, cached  *)
(* under a token path, or owned by one request, and a request may hold a   *)
(* cached path, which then stays cached with all its prefixes.             *)
(* own is the pages that a request owns; held its held path, if any.       *)
(***************************************************************************)
EXTENDS Integers, Sequences

CONSTANTS Reqs, Pages

VARIABLES free, cache, own, held

poolVars == <<free, cache, own, held>>

IsPrefix(x, y) == Len(x) <= Len(y) /\ \A i \in 1..Len(x) : x[i] = y[i]
PagesAt(X) == {cache[x] : x \in X}
Holdable == DOMAIN cache \cup {<<>>}

PoolInit ==
  /\ free = Pages /\ cache = <<>>
  /\ own = [r \in Reqs |-> {}] /\ held = [r \in Reqs |-> {}]

(* A request takes hold of a cached path.                                   *)
Hold(r) ==
  /\ held[r] = {}
  /\ \E h \in Holdable : held' = [held EXCEPT ![r] = {h}]
  /\ UNCHANGED <<free, cache, own>>

(* Paths may leave the cache, with all their extensions, if nobody holds them
   after the step; the others stay where they are.                          *)
Leaving == DOMAIN cache \ DOMAIN cache'
MayLeave ==
  /\ \A x \in Leaving : /\ \A y \in DOMAIN cache : IsPrefix(x, y) => y \in Leaving
                        /\ \A r \in Reqs : \A h \in held'[r] : ~IsPrefix(x, h)
  /\ \A x \in DOMAIN cache \ Leaving : cache'[x] = cache[x]

(* Paths leave the cache, and holders take free pages.                      *)
Allocate ==
  LET avail == free \cup PagesAt(Leaving)
      taken == [r \in Reqs |-> own'[r] \ own[r]]
  IN  /\ MayLeave /\ DOMAIN cache' \subseteq DOMAIN cache
      /\ \A r \in Reqs : own[r] \subseteq own'[r] /\ (held[r] = {} => taken[r] = {})
      /\ \A q, r \in Reqs : q # r => taken[q] \cap taken[r] = {}
      /\ UNION {taken[r] : r \in Reqs} \subseteq avail
      /\ free' = avail \ UNION {taken[r] : r \in Reqs}
      /\ UNCHANGED held

(* A holder gives own pages to the cache and frees others, and moves its hold
   to a longer path, or ends with nothing left; then paths may leave.       *)
Settle(r) ==
  LET given == {cache'[x] : x \in DOMAIN cache' \ DOMAIN cache}
  IN  /\ MayLeave
      /\ given \cup own'[r] \cup (free' \ free) = own[r] \cup PagesAt(Leaving)
      /\ given \cap own'[r] = {} /\ (given \cup own'[r]) \cap free' = {}
      /\ given \cup own'[r] \subseteq own[r] /\ free \subseteq free'
      /\ \E h \in held[r] :
           \/ held'[r] = {} /\ own'[r] = {}
           \/ \E k \in Holdable' : held'[r] = {k} /\ IsPrefix(h, k)
      /\ held' = [held EXCEPT ![r] = held'[r]] /\ own' = [own EXCEPT ![r] = own'[r]]

(* With no holder left, everything becomes free.                            *)
Flush ==
  /\ \A r \in Reqs : held[r] = {}
  /\ free' = Pages /\ cache' = <<>>
  /\ UNCHANGED <<own, held>>

PoolNext == Allocate \/ Flush \/ \E r \in Reqs : Hold(r) \/ Settle(r)

PoolSpec == PoolInit /\ [][PoolNext]_poolVars
===============================================================================
