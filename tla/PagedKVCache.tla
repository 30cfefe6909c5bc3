----------------------------- MODULE PagedKVCache -----------------------------
(***************************************************************************)
(* The paged key-value cache of month03_llm_serving/paged_kv_cache.py: a   *)
(* request's tokens live in whole blocks, its block table lists them, and  *)
(* free blocks wait in a queue.  A cache is a value here, because the      *)
(* scheduler keeps two of them.                                            *)
(***************************************************************************)
EXTENDS Integers, Sequences

CONSTANTS
    Requests,     \* request ids
    TotalBlocks,  \* capacity_tokens // block_size
    BlockSize     \* tokens per block

ASSUME CacheAssumption == TotalBlocks \in Nat \ {0} /\ BlockSize \in Nat \ {0}

Blocks   == 0..(TotalBlocks - 1)
Capacity == TotalBlocks * BlockSize

\* A missing key of the dictionaries is 0 tokens and an empty table.
Cache == [tokens : [Requests -> Nat],
          table  : [Requests -> Seq(Blocks)],
          free   : Seq(Blocks)]

EmptyCache == [tokens |-> [r \in Requests |-> 0],
               table  |-> [r \in Requests |-> << >>],
               free   |-> [i \in 1..TotalBlocks |-> i - 1]]

BlocksFor(n) == (n + BlockSize - 1) \div BlockSize

MoreBlocks(cache, r, n) ==
    BlocksFor(cache.tokens[r] + n) - Len(cache.table[r])

\* append_tokens raises PagedKVCacheFullError otherwise, and ValueError for n < 1.
Fits(cache, r, n) == /\ n >= 1
                     /\ MoreBlocks(cache, r, n) <= Len(cache.free)
                     /\ cache.tokens[r] + n <= Capacity

AppendTokens(cache, r, n) ==
    LET k == MoreBlocks(cache, r, n)
    IN  [tokens |-> [cache.tokens EXCEPT ![r] = @ + n],
         table  |-> [cache.table EXCEPT ![r] = @ \o SubSeq(cache.free, 1, k)],
         free   |-> SubSeq(cache.free, k + 1, Len(cache.free))]

\* Mutant: the blocks are freed and stay in the table.
KeepsTable(cache, r) ==
    [cache EXCEPT !.tokens[r] = 0, !.free = @ \o cache.table[r]]
Release(cache, r) ==
    [tokens |-> [cache.tokens EXCEPT ![r] = 0],
     table  |-> [cache.table EXCEPT ![r] = << >>],
     free   |-> cache.free \o cache.table[r]]

-----------------------------------------------------------------------------
\* The places of a block: positions in the free queue and in block tables.
Places(cache, b) ==
    {<<"free", i>> : i \in {i \in DOMAIN cache.free : cache.free[i] = b}}
      \cup UNION {{<<r, i>> : i \in {i \in DOMAIN cache.table[r] :
                                       cache.table[r][i] = b}} : r \in Requests}

\* No block is lost, shared by two requests or free while in use, and a
\* request has just the blocks its tokens need.
Consistent(cache) ==
    /\ \A b \in Blocks : \E place \in Places(cache, b) :
         Places(cache, b) = {place}
    /\ \A r \in Requests :
         Len(cache.table[r]) = BlocksFor(cache.tokens[r])
=============================================================================
