------------------------------ MODULE MCKVCache ------------------------------
EXTENDS KVCachePool, TLC

CONSTANTS a, b

MCPrompts == {<<a, b>>}
MCPagedPrompts == {<<a, a, b>>}
Symmetry == Permutations(Pages) \cup Permutations(Reqs)
==============================================================================
