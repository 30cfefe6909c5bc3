------------------------- MODULE BatchSchedulerProofs -------------------------
(***************************************************************************)
(* Proofs about the continuous-batching scheduler and its two paged caches. *)
(*                                                                         *)
(* First the cache as a value: Sound(c) says of a cache what holds of it at *)
(* any time (no block twice, none lost, as many as the tokens need), and    *)
(* append_tokens and release keep it.  ReservedFits is the argument the     *)
(* scheduler's design rests on: tokens are appended to one cache and only   *)
(* their peaks reserved in another, with other blocks at other times, and   *)
(* still an append within its reservation finds free blocks.  It is a       *)
(* pigeonhole argument: were there too few, every block of the first cache  *)
(* would have its own place in a table of the second, and one place would   *)
(* be left over.                                                           *)
(*                                                                         *)
(* Then the scheduler: SchedInv is inductive.  CacheMatchesProgress alone   *)
(* is not: that a reservation covers what a step writes depends on what the *)
(* phase says of prefilled, generated and the target of a recompute         *)
(* (RowFits), on a request being in one queue and there once (Lines), and   *)
(* on which of the active requests the batch loop has already finished      *)
(* (BatchInv).                                                             *)
(***************************************************************************)
EXTENDS BatchScheduler, TLAPS, FiniteSetTheorems, SequenceTheorems

-----------------------------------------------------------------------------
(* The paged cache as a value.                                             *)

\* No repetition in a sequence.
Distinct(s) == \A i, j \in DOMAIN s : s[i] = s[j] => i = j

\* Whole blocks for n tokens.
LEMMA BlocksForType ==
    ASSUME NEW n \in Nat
    PROVE  BlocksFor(n) \in Nat
<1>1. BlockSize \in Nat /\ BlockSize > 0 /\ n + BlockSize - 1 >= 0
  BY CacheAssumption
<1> QED
  BY <1>1 DEF BlocksFor

LEMMA NoBlocksForNothing == BlocksFor(0) = 0
<1>1. BlockSize \in Nat /\ BlockSize > 0
  BY CacheAssumption
<1> QED
  BY <1>1 DEF BlocksFor

LEMMA MoreTokensMoreBlocks ==
    ASSUME NEW m \in Nat, NEW n \in Nat, m <= n
    PROVE  BlocksFor(m) <= BlocksFor(n)
<1> DEFINE a == m + BlockSize - 1
           b == n + BlockSize - 1
           p == a \div BlockSize
           q == b \div BlockSize
<1>1. BlockSize \in Nat /\ BlockSize > 0
  BY CacheAssumption
<1>2. a \in Nat /\ b \in Nat /\ a <= b
  BY <1>1
<1> HIDE DEF a, b
<1>3. /\ p \in Int /\ q \in Int
      /\ BlockSize * p <= a
      /\ b < BlockSize * q + BlockSize
  BY <1>1, <1>2
<1> HIDE DEF p, q
<1>4. p <= q
  <2> SUFFICES ASSUME q + 1 <= p PROVE FALSE
    BY <1>3
  <2>1. BlockSize * (q + 1) <= BlockSize * p
    BY <1>1, <1>3
  <2>2. BlockSize * (q + 1) = BlockSize * q + BlockSize
    BY <1>1, <1>3
  <2>3. BlockSize * q \in Int /\ BlockSize * p \in Int
    BY <1>1, <1>3
  <2> QED
    BY <1>1, <1>2, <1>3, <2>1, <2>2, <2>3
<1> QED
  BY <1>4 DEF BlocksFor, a, b, p, q

\* What holds of a cache at any time, without reference to places: no block
\* twice in the free queue, none twice in the tables, none in both, and none
\* lost; and the tables are as long as the tokens need.
Sound(c) ==
    /\ c \in Cache
    /\ Distinct(c.free)
    /\ \A r, s \in Requests : \A i \in DOMAIN c.table[r], j \in DOMAIN c.table[s] :
         c.table[r][i] = c.table[s][j] => r = s /\ i = j
    /\ \A i \in DOMAIN c.free, r \in Requests : \A j \in DOMAIN c.table[r] :
         c.free[i] # c.table[r][j]
    /\ \A b \in Blocks :
         \/ \E i \in DOMAIN c.free : c.free[i] = b
         \/ \E r \in Requests : \E j \in DOMAIN c.table[r] : c.table[r][j] = b
    /\ \A r \in Requests : Len(c.table[r]) = BlocksFor(c.tokens[r])

LEMMA CacheParts ==
    ASSUME NEW c \in Cache, NEW r \in Requests
    PROVE  /\ c.tokens \in [Requests -> Nat] /\ c.tokens[r] \in Nat
           /\ c.table \in [Requests -> Seq(Blocks)] /\ c.table[r] \in Seq(Blocks)
           /\ c.free \in Seq(Blocks)
           /\ Len(c.table[r]) \in Nat /\ DOMAIN c.table[r] = 1..Len(c.table[r])
           /\ Len(c.free) \in Nat /\ DOMAIN c.free = 1..Len(c.free)
<1>1. /\ c.tokens \in [Requests -> Nat]
      /\ c.table \in [Requests -> Seq(Blocks)]
      /\ c.free \in Seq(Blocks)
  BY DEF Cache
<1>2. c.tokens[r] \in Nat /\ c.table[r] \in Seq(Blocks)
  BY <1>1
<1> QED
  BY <1>1, <1>2, LenProperties

LEMMA EmptyIsSound == Sound(EmptyCache)
<1> DEFINE free == [i \in 1..TotalBlocks |-> i - 1]
<1>1. TotalBlocks \in Nat /\ TotalBlocks > 0
  BY CacheAssumption
<1>2. free \in Seq(Blocks) /\ Len(free) = TotalBlocks /\ DOMAIN free = 1..TotalBlocks
  <2>1. \A i \in 1..TotalBlocks : i - 1 \in Blocks
    BY <1>1 DEF Blocks
  <2>2. free \in [1..TotalBlocks -> Blocks]
    BY <2>1
  <2> QED
    BY <1>1, <2>2
<1>3. << >> \in Seq(Blocks) /\ Len(<< >>) = 0 /\ DOMAIN << >> = {}
  BY EmptySeq
<1>4. EmptyCache \in Cache
  BY <1>2, <1>3 DEF EmptyCache, Cache
<1>5. \A b \in Blocks : b + 1 \in 1..TotalBlocks /\ free[b + 1] = b
  BY <1>1 DEF Blocks
<1>6. Distinct(free)
  BY <1>1, <1>2 DEF Distinct
<1> HIDE DEF free
<1>7. EmptyCache.free = free
  BY DEF EmptyCache, free
<1>8. \A r \in Requests : EmptyCache.table[r] = << >> /\ EmptyCache.tokens[r] = 0
  BY DEF EmptyCache
<1> QED
  BY <1>2, <1>3, <1>4, <1>5, <1>6, <1>7, <1>8, NoBlocksForNothing DEF Sound

\* The blocks that append_tokens takes are the first ones of the free queue.
LEMMA AppendMoves ==
    ASSUME NEW c, Sound(c), NEW r \in Requests, NEW n \in Nat, Fits(c, r, n)
    PROVE  LET k == MoreBlocks(c, r, n)
               d == AppendTokens(c, r, n)
               have == Len(c.table[r])
           IN  /\ k \in Nat /\ have \in Nat /\ Len(c.free) \in Nat /\ k <= Len(c.free)
               /\ d \in Cache
               /\ d.tokens = [c.tokens EXCEPT ![r] = @ + n]
               /\ \A s \in Requests \ {r} : d.table[s] = c.table[s]
               /\ Len(d.table[r]) = have + k
               /\ DOMAIN d.table[r] = 1..(have + k)
               /\ \A i \in 1..have : d.table[r][i] = c.table[r][i]
               /\ \A i \in (have + 1)..(have + k) : d.table[r][i] = c.free[i - have]
               /\ DOMAIN d.free = 1..(Len(c.free) - k)
               /\ \A i \in 1..(Len(c.free) - k) : d.free[i] = c.free[k + i]
<1> DEFINE k == MoreBlocks(c, r, n)
           d == AppendTokens(c, r, n)
           have == Len(c.table[r])
           taken == SubSeq(c.free, 1, k)
           left  == SubSeq(c.free, k + 1, Len(c.free))
<1>1. c \in Cache
  BY DEF Sound
<1>2. /\ c.tokens \in [Requests -> Nat] /\ c.tokens[r] \in Nat
      /\ c.table \in [Requests -> Seq(Blocks)] /\ c.table[r] \in Seq(Blocks)
      /\ c.free \in Seq(Blocks)
      /\ have \in Nat /\ DOMAIN c.table[r] = 1..have
      /\ Len(c.free) \in Nat /\ DOMAIN c.free = 1..Len(c.free)
  BY <1>1, CacheParts
<1>3. have = BlocksFor(c.tokens[r])
  BY DEF Sound
<1>4. k \in Nat /\ k <= Len(c.free)
  <2>1. c.tokens[r] + n \in Nat /\ c.tokens[r] <= c.tokens[r] + n
    BY <1>2
  <2>2. BlocksFor(c.tokens[r]) <= BlocksFor(c.tokens[r] + n)
    BY <1>2, <2>1, MoreTokensMoreBlocks
  <2>3. BlocksFor(c.tokens[r]) \in Nat /\ BlocksFor(c.tokens[r] + n) \in Nat
    BY <1>2, <2>1, BlocksForType
  <2>4. k = BlocksFor(c.tokens[r] + n) - have
    BY DEF MoreBlocks
  <2> QED
    BY <1>3, <2>2, <2>3, <2>4 DEF Fits
<1> HIDE DEF k
<1>5. \A i \in 1..Len(c.free) : c.free[i] \in Blocks
  BY <1>2, ElementOfSeq
<1>6. /\ taken \in Seq(Blocks) /\ Len(taken) = k
      /\ \A i \in 1..k : taken[i] = c.free[i]
  <2>1. \A i \in 1..k : c.free[i] \in Blocks
    BY <1>2, <1>4, <1>5
  <2>2. /\ SubSeq(c.free, 1, k) \in Seq(Blocks)
        /\ Len(SubSeq(c.free, 1, k)) = IF 1 <= k THEN k - 1 + 1 ELSE 0
        /\ \A i \in 1..(k - 1 + 1) : SubSeq(c.free, 1, k)[i] = c.free[1 + i - 1]
    BY <1>4, <2>1, SubSeqProperties
  <2> QED
    BY <1>4, <2>2
<1>7. /\ left \in Seq(Blocks) /\ Len(left) = Len(c.free) - k
      /\ \A i \in 1..(Len(c.free) - k) : left[i] = c.free[k + i]
  <2>1. \A i \in (k + 1)..Len(c.free) : c.free[i] \in Blocks
    BY <1>2, <1>4, <1>5
  <2>2. /\ SubSeq(c.free, k + 1, Len(c.free)) \in Seq(Blocks)
        /\ Len(SubSeq(c.free, k + 1, Len(c.free))) =
             IF k + 1 <= Len(c.free) THEN Len(c.free) - (k + 1) + 1 ELSE 0
        /\ \A i \in 1..(Len(c.free) - (k + 1) + 1) :
             SubSeq(c.free, k + 1, Len(c.free))[i] = c.free[(k + 1) + i - 1]
    BY <1>2, <1>4, <2>1, SubSeqProperties
  <2> QED
    BY <1>2, <1>4, <2>2
<1>8. /\ d.tokens = [c.tokens EXCEPT ![r] = @ + n]
      /\ d.table  = [c.table EXCEPT ![r] = @ \o taken]
      /\ d.free   = left
      /\ d = [tokens |-> d.tokens, table |-> d.table, free |-> d.free]
  BY DEF AppendTokens, k
<1> HIDE DEF d, taken, left
<1>9. /\ d.table[r] = c.table[r] \o taken
      /\ \A s \in Requests \ {r} : d.table[s] = c.table[s]
  BY <1>2, <1>8
<1>10. /\ d.table[r] \in Seq(Blocks)
       /\ Len(d.table[r]) = have + k
       /\ \A i \in 1..(have + k) :
            d.table[r][i] = IF i <= have THEN c.table[r][i] ELSE taken[i - have]
  <2> DEFINE old == c.table[r]
  <2>1. old \in Seq(Blocks) /\ taken \in Seq(Blocks) /\ Len(taken) = k
    BY <1>2, <1>6
  <2> HIDE DEF old
  <2>2. /\ old \o taken \in Seq(Blocks)
        /\ Len(old \o taken) = Len(old) + k
        /\ \A i \in 1..(Len(old) + k) :
             (old \o taken)[i] = IF i <= Len(old) THEN old[i] ELSE taken[i - Len(old)]
    BY <2>1, ConcatProperties
  <2> QED
    BY <1>9, <2>2 DEF old
<1>11. DOMAIN d.table[r] = 1..(have + k)
  BY <1>10, LenProperties
<1>12. /\ \A i \in 1..have : d.table[r][i] = c.table[r][i]
       /\ \A i \in (have + 1)..(have + k) : d.table[r][i] = c.free[i - have]
  <2>1. \A i \in 1..have : d.table[r][i] = c.table[r][i]
    <3>1. \A i \in 1..have : i \in 1..(have + k) /\ i <= have
      BY <1>2, <1>3, <1>4
    <3> QED
      BY <1>10, <3>1
  <2>2. ASSUME NEW i \in (have + 1)..(have + k)
        PROVE  d.table[r][i] = c.free[i - have]
    <3>1. i \in 1..(have + k) /\ ~(i <= have) /\ i - have \in 1..k
      BY <1>2, <1>4
    <3> QED
      BY <1>6, <1>10, <3>1
  <2> QED
    BY <2>1, <2>2
<1>13. DOMAIN d.free = 1..(Len(c.free) - k)
  BY <1>7, <1>8, LenProperties
<1>14. d \in Cache
  <2>1. c.tokens[r] + n \in Nat
    BY <1>2
  <2>2. d.tokens \in [Requests -> Nat]
    BY <1>2, <1>8, <2>1
  <2>3. d.table \in [Requests -> Seq(Blocks)]
    BY <1>2, <1>8, <1>9, <1>10
  <2> QED
    BY <1>7, <1>8, <2>2, <2>3 DEF Cache
<1>15. \A i \in 1..(Len(c.free) - k) : d.free[i] = c.free[k + i]
  BY <1>7, <1>8
<1> QED
  BY <1>2, <1>4, <1>8, <1>9, <1>10, <1>11, <1>12, <1>13, <1>14, <1>15 DEF k, d

\* append_tokens keeps a cache sound.
LEMMA AppendIsSound ==
    ASSUME NEW c, Sound(c), NEW r \in Requests, NEW n \in Nat, Fits(c, r, n)
    PROVE  Sound(AppendTokens(c, r, n))
<1> DEFINE k == MoreBlocks(c, r, n)
           d == AppendTokens(c, r, n)
           have == Len(c.table[r])
           left == Len(c.free)
<1>1. /\ k \in Nat /\ have \in Nat /\ left \in Nat /\ k <= left
      /\ d \in Cache
      /\ d.tokens = [c.tokens EXCEPT ![r] = @ + n]
      /\ \A s \in Requests \ {r} : d.table[s] = c.table[s]
      /\ Len(d.table[r]) = have + k
      /\ DOMAIN d.table[r] = 1..(have + k)
      /\ \A i \in 1..have : d.table[r][i] = c.table[r][i]
      /\ \A i \in (have + 1)..(have + k) : d.table[r][i] = c.free[i - have]
      /\ DOMAIN d.free = 1..(left - k)
      /\ \A i \in 1..(left - k) : d.free[i] = c.free[k + i]
  BY AppendMoves
<1>2. /\ c \in Cache
      /\ DOMAIN c.free = 1..left
      /\ DOMAIN c.table[r] = 1..have
      /\ c.tokens \in [Requests -> Nat]
  BY CacheParts DEF Sound
<1>k. have = BlocksFor(c.tokens[r]) /\ have + k = BlocksFor(c.tokens[r] + n)
  <2>1. c.tokens[r] + n \in Nat
    BY <1>2
  <2>2. BlocksFor(c.tokens[r]) \in Nat /\ BlocksFor(c.tokens[r] + n) \in Nat
    BY <1>2, <2>1, BlocksForType
  <2>3. have = BlocksFor(c.tokens[r]) /\ k = BlocksFor(c.tokens[r] + n) - have
    BY DEF Sound, MoreBlocks
  <2> QED
    BY <2>2, <2>3
<1> HIDE DEF k, d, have, left
\* A block in a new table was in the same place, or in the part of the free
\* queue that was taken.
<1>3. ASSUME NEW s \in Requests, NEW i \in DOMAIN d.table[s]
      PROVE  \/ i \in DOMAIN c.table[s] /\ d.table[s][i] = c.table[s][i]
             \/ /\ s = r /\ i \in (have + 1)..(have + k) /\ i - have \in 1..k
                /\ d.table[s][i] = c.free[i - have]
  <2>1. CASE s # r
    BY <1>1, <2>1
  <2>2. CASE s = r /\ i <= have
    <3>1. i \in 1..have
      BY <1>1, <2>2
    <3> QED
      BY <1>1, <1>2, <2>2, <3>1
  <2>3. CASE s = r /\ ~(i <= have)
    <3>1. i \in (have + 1)..(have + k) /\ i - have \in 1..k
      BY <1>1, <2>3
    <3> QED
      BY <1>1, <2>3, <3>1
  <2> QED
    BY <2>1, <2>2, <2>3
<1>4. \A i \in DOMAIN d.free : k + i \in (k + 1)..left /\ d.free[i] = c.free[k + i]
  BY <1>1
<1>5. /\ \A i, j \in 1..left : c.free[i] = c.free[j] => i = j
      /\ \A i \in 1..left, s \in Requests : \A j \in DOMAIN c.table[s] :
           c.free[i] # c.table[s][j]
      /\ \A b \in Blocks :
           \/ \E i \in 1..left : c.free[i] = b
           \/ \E s \in Requests : \E j \in DOMAIN c.table[s] : c.table[s][j] = b
  BY <1>2 DEF Sound, Distinct
<1>t. \A s, u \in Requests : \A i \in DOMAIN c.table[s], j \in DOMAIN c.table[u] :
        c.table[s][i] = c.table[u][j] => s = u /\ i = j
  BY DEF Sound
<1>6. Distinct(d.free)
  <2> SUFFICES ASSUME NEW i \in DOMAIN d.free, NEW j \in DOMAIN d.free,
                      d.free[i] = d.free[j]
               PROVE  i = j
    BY DEF Distinct
  <2>1. /\ k + i \in 1..left /\ k + j \in 1..left
        /\ c.free[k + i] = c.free[k + j]
    BY <1>1, <1>4
  <2>2. k + i = k + j
    BY <1>5, <2>1
  <2> QED
    BY <1>1, <2>2
<1>7. ASSUME NEW s \in Requests, NEW u \in Requests,
             NEW i \in DOMAIN d.table[s], NEW j \in DOMAIN d.table[u],
             d.table[s][i] = d.table[u][j]
      PROVE  s = u /\ i = j
  <2>1. CASE /\ i \in DOMAIN c.table[s] /\ d.table[s][i] = c.table[s][i]
             /\ j \in DOMAIN c.table[u] /\ d.table[u][j] = c.table[u][j]
    <3>1. c.table[s][i] = c.table[u][j]
      BY <1>7, <2>1
    <3> QED
      BY <1>t, <2>1, <3>1
  <2>2. CASE /\ s = r /\ i - have \in 1..k /\ d.table[s][i] = c.free[i - have]
             /\ u = r /\ j - have \in 1..k /\ d.table[u][j] = c.free[j - have]
             /\ i \in (have + 1)..(have + k) /\ j \in (have + 1)..(have + k)
    <3>1. i - have \in 1..left /\ j - have \in 1..left
      BY <1>1, <2>2
    <3>2. i - have = j - have
      BY <1>5, <1>7, <2>2, <3>1
    <3> QED
      BY <1>1, <2>2, <3>2
  <2>3. ASSUME NEW m \in 1..k, NEW v \in Requests, NEW l \in DOMAIN c.table[v],
               c.free[m] = c.table[v][l]
        PROVE  FALSE
    <3>1. m \in 1..left
      BY <1>1
    <3> QED
      BY <1>5, <2>3, <3>1
  <2> QED
    BY <1>3, <1>7, <2>1, <2>2, <2>3
<1>8. ASSUME NEW i \in DOMAIN d.free, NEW s \in Requests, NEW j \in DOMAIN d.table[s],
             d.free[i] = d.table[s][j]
      PROVE  FALSE
  <2>1. k + i \in (k + 1)..left /\ d.free[i] = c.free[k + i] /\ k + i \in 1..left
    BY <1>1, <1>4
  <2>2. CASE j \in DOMAIN c.table[s] /\ d.table[s][j] = c.table[s][j]
    <3>1. c.free[k + i] = c.table[s][j]
      BY <1>8, <2>1, <2>2
    <3> QED
      BY <1>5, <2>1, <2>2, <3>1
  <2>3. CASE j - have \in 1..k /\ d.table[s][j] = c.free[j - have]
    <3>1. j - have \in 1..left
      BY <1>1, <2>3
    <3>2. j - have = k + i
      BY <1>5, <1>8, <2>1, <2>3, <3>1
    <3> QED
      BY <1>1, <2>1, <2>3, <3>2
  <2> QED
    BY <1>3, <2>2, <2>3
<1>9. ASSUME NEW b \in Blocks
      PROVE  \/ \E i \in DOMAIN d.free : d.free[i] = b
             \/ \E s \in Requests : \E j \in DOMAIN d.table[s] : d.table[s][j] = b
  <2>1. ASSUME NEW s \in Requests, NEW j \in DOMAIN c.table[s], c.table[s][j] = b
        PROVE  j \in DOMAIN d.table[s] /\ d.table[s][j] = b
    BY <1>1, <1>2, <2>1
  <2>2. ASSUME NEW i \in 1..left, c.free[i] = b
        PROVE  \/ \E j \in DOMAIN d.free : d.free[j] = b
               \/ \E j \in DOMAIN d.table[r] : d.table[r][j] = b
    <3>1. CASE i <= k
      <4>1. i + have \in (have + 1)..(have + k) /\ (i + have) - have = i
        BY <1>1, <3>1
      <4>2. i + have \in DOMAIN d.table[r]
        BY <1>1, <4>1
      <4>3. d.table[r][i + have] = c.free[(i + have) - have]
        BY <1>1, <4>1
      <4> QED
        BY <2>2, <4>1, <4>2, <4>3
    <3>2. CASE i > k
      <4>1. i - k \in 1..(left - k) /\ k + (i - k) = i
        BY <1>1, <3>2
      <4>2. d.free[i - k] = c.free[k + (i - k)]
        BY <1>1, <4>1
      <4> QED
        BY <1>1, <2>2, <4>1, <4>2
    <3> QED
      BY <1>1, <3>1, <3>2
  <2> QED
    BY <1>5, <2>1, <2>2
<1>10. ASSUME NEW s \in Requests PROVE Len(d.table[s]) = BlocksFor(d.tokens[s])
  <2>1. CASE s = r
    <3>1. d.tokens[s] = c.tokens[r] + n
      BY <1>1, <1>2, <2>1
    <3> QED
      BY <1>1, <1>k, <2>1, <3>1
  <2>2. CASE s # r
    <3>1. d.tokens[s] = c.tokens[s] /\ d.table[s] = c.table[s]
      BY <1>1, <1>2, <2>2
    <3>2. Len(c.table[s]) = BlocksFor(c.tokens[s])
      BY DEF Sound
    <3> QED
      BY <3>1, <3>2
  <2> QED
    BY <2>1, <2>2
<1>11. Sound(d)
  <2>1. d \in Cache
    BY <1>1
  <2>2. \A s, u \in Requests : \A i \in DOMAIN d.table[s], j \in DOMAIN d.table[u] :
          d.table[s][i] = d.table[u][j] => s = u /\ i = j
    BY <1>7
  <2>3. \A i \in DOMAIN d.free, s \in Requests : \A j \in DOMAIN d.table[s] :
          d.free[i] # d.table[s][j]
    BY <1>8
  <2> QED
    BY <2>1, <2>2, <2>3, <1>6, <1>9, <1>10 DEF Sound
<1> QED
  BY <1>11 DEF d

\* release puts the blocks of a table behind the free ones.
LEMMA ReleaseMoves ==
    ASSUME NEW c \in Cache, NEW r \in Requests
    PROVE  LET d == Release(c, r)
               have == Len(c.table[r])
               left == Len(c.free)
           IN  /\ have \in Nat /\ left \in Nat
               /\ d \in Cache
               /\ d.tokens = [c.tokens EXCEPT ![r] = 0]
               /\ d.table = [c.table EXCEPT ![r] = << >>]
               /\ DOMAIN d.free = 1..(left + have)
               /\ \A i \in 1..left : d.free[i] = c.free[i]
               /\ \A i \in (left + 1)..(left + have) : d.free[i] = c.table[r][i - left]
<1> DEFINE d == Release(c, r)
           old == c.table[r]
           free == c.free
<1>1. /\ c.tokens \in [Requests -> Nat]
      /\ c.table \in [Requests -> Seq(Blocks)] /\ old \in Seq(Blocks)
      /\ free \in Seq(Blocks)
      /\ Len(old) \in Nat /\ Len(free) \in Nat
  BY CacheParts
<1>2. /\ d.tokens = [c.tokens EXCEPT ![r] = 0]
      /\ d.table = [c.table EXCEPT ![r] = << >>]
      /\ d.free = free \o old
      /\ d = [tokens |-> d.tokens, table |-> d.table, free |-> d.free]
  BY DEF Release
<1>3. << >> \in Seq(Blocks)
  BY EmptySeq
<1> HIDE DEF d, old, free
<1>4. /\ free \o old \in Seq(Blocks)
      /\ Len(free \o old) = Len(free) + Len(old)
      /\ \A i \in 1..(Len(free) + Len(old)) :
           (free \o old)[i] = IF i <= Len(free) THEN free[i] ELSE old[i - Len(free)]
  BY <1>1, ConcatProperties
<1>5. DOMAIN d.free = 1..(Len(free) + Len(old))
  BY <1>2, <1>4, LenProperties
<1>6. d \in Cache
  <2>1. d.tokens \in [Requests -> Nat]
    BY <1>1, <1>2
  <2>2. d.table \in [Requests -> Seq(Blocks)]
    BY <1>1, <1>2, <1>3
  <2>3. d.free \in Seq(Blocks)
    BY <1>2, <1>4
  <2> QED
    BY <1>2, <2>1, <2>2, <2>3 DEF Cache
<1>7. /\ \A i \in 1..Len(free) : d.free[i] = free[i]
      /\ \A i \in (Len(free) + 1)..(Len(free) + Len(old)) : d.free[i] = old[i - Len(free)]
  BY <1>1, <1>2, <1>4
<1> QED
  BY <1>1, <1>2, <1>5, <1>6, <1>7 DEF d, old, free

LEMMA ReleaseIsSound ==
    ASSUME NEW c, Sound(c), NEW r \in Requests
    PROVE  Sound(Release(c, r))
<1> DEFINE d == Release(c, r)
           have == Len(c.table[r])
           left == Len(c.free)
<1>1. /\ have \in Nat /\ left \in Nat
      /\ d \in Cache
      /\ d.tokens = [c.tokens EXCEPT ![r] = 0]
      /\ d.table = [c.table EXCEPT ![r] = << >>]
      /\ DOMAIN d.free = 1..(left + have)
      /\ \A i \in 1..left : d.free[i] = c.free[i]
      /\ \A i \in (left + 1)..(left + have) : d.free[i] = c.table[r][i - left]
  BY ReleaseMoves DEF Sound
<1>2. /\ c \in Cache
      /\ DOMAIN c.free = 1..left
      /\ DOMAIN c.table[r] = 1..have
      /\ c.tokens \in [Requests -> Nat]
      /\ c.table \in [Requests -> Seq(Blocks)]
  BY CacheParts DEF Sound
<1>3. /\ d.table[r] = << >> /\ DOMAIN d.table[r] = {} /\ Len(d.table[r]) = 0
      /\ \A s \in Requests \ {r} : d.table[s] = c.table[s] /\ d.tokens[s] = c.tokens[s]
      /\ d.tokens[r] = 0
  BY <1>1, <1>2, EmptySeq
<1>4. /\ \A i, j \in 1..left : c.free[i] = c.free[j] => i = j
      /\ \A i \in 1..left, s \in Requests : \A j \in DOMAIN c.table[s] :
           c.free[i] # c.table[s][j]
      /\ \A b \in Blocks :
           \/ \E i \in 1..left : c.free[i] = b
           \/ \E s \in Requests : \E j \in DOMAIN c.table[s] : c.table[s][j] = b
      /\ \A s \in Requests : Len(c.table[s]) = BlocksFor(c.tokens[s])
  BY <1>2 DEF Sound, Distinct
<1>t. \A s, u \in Requests : \A i \in DOMAIN c.table[s], j \in DOMAIN c.table[u] :
        c.table[s][i] = c.table[u][j] => s = u /\ i = j
  BY DEF Sound
\* The same of the table that is released.
<1>o. /\ \A i, j \in 1..have : c.table[r][i] = c.table[r][j] => i = j
      /\ \A i \in 1..left, j \in 1..have : c.free[i] # c.table[r][j]
      /\ \A s \in Requests \ {r} : \A i \in 1..have, j \in DOMAIN c.table[s] :
           c.table[r][i] # c.table[s][j]
  <2>1. \A i, j \in DOMAIN c.table[r] : c.table[r][i] = c.table[r][j] => i = j
    BY <1>t
  <2>2. \A i \in 1..left, j \in DOMAIN c.table[r] : c.free[i] # c.table[r][j]
    BY <1>4
  <2>3. \A s \in Requests \ {r} : \A i \in DOMAIN c.table[r], j \in DOMAIN c.table[s] :
          c.table[r][i] # c.table[s][j]
    BY <1>t
  <2> QED
    BY <1>2, <2>1, <2>2, <2>3
<1> HIDE DEF d, have, left
<1>5. ASSUME NEW i \in DOMAIN d.free
      PROVE  \/ i \in 1..left /\ d.free[i] = c.free[i]
             \/ /\ i \in (left + 1)..(left + have) /\ i - left \in 1..have
                /\ d.free[i] = c.table[r][i - left]
  BY <1>1
<1>6. Distinct(d.free)
  <2> SUFFICES ASSUME NEW i \in DOMAIN d.free, NEW j \in DOMAIN d.free,
                      d.free[i] = d.free[j]
               PROVE  i = j
    BY DEF Distinct
  <2>1. CASE /\ i \in 1..left /\ d.free[i] = c.free[i]
             /\ j \in 1..left /\ d.free[j] = c.free[j]
    BY <1>4, <2>1
  <2>2. CASE /\ i - left \in 1..have /\ d.free[i] = c.table[r][i - left]
             /\ j - left \in 1..have /\ d.free[j] = c.table[r][j - left]
    <3>1. i - left = j - left
      <4>1. c.table[r][i - left] = c.table[r][j - left]
        BY <2>2
      <4> QED
        BY <1>o, <2>2, <4>1
    <3> QED
      BY <1>1, <3>1
  <2>3. ASSUME NEW m \in 1..left, NEW l \in 1..have, c.free[m] = c.table[r][l]
        PROVE  FALSE
    BY <1>o, <2>3
  <2> QED
    BY <1>5, <2>1, <2>2, <2>3
<1>7. \A s, u \in Requests : \A i \in DOMAIN d.table[s], j \in DOMAIN d.table[u] :
        d.table[s][i] = d.table[u][j] => s = u /\ i = j
  BY <1>3, <1>t
<1>8. ASSUME NEW i \in DOMAIN d.free, NEW s \in Requests, NEW j \in DOMAIN d.table[s]
      PROVE  d.free[i] # d.table[s][j]
  <2>1. s # r /\ j \in DOMAIN c.table[s] /\ d.table[s][j] = c.table[s][j]
    BY <1>3
  <2>2. CASE i \in 1..left /\ d.free[i] = c.free[i]
    BY <1>4, <2>1, <2>2
  <2>3. CASE i - left \in 1..have /\ d.free[i] = c.table[r][i - left]
    BY <1>o, <2>1, <2>3
  <2> QED
    BY <1>5, <2>2, <2>3
<1>9. ASSUME NEW b \in Blocks
      PROVE  \/ \E i \in DOMAIN d.free : d.free[i] = b
             \/ \E s \in Requests : \E j \in DOMAIN d.table[s] : d.table[s][j] = b
  <2>1. ASSUME NEW i \in 1..left, c.free[i] = b
        PROVE  i \in DOMAIN d.free /\ d.free[i] = b
    BY <1>1, <2>1
  <2>2. ASSUME NEW j \in 1..have, c.table[r][j] = b
        PROVE  j + left \in DOMAIN d.free /\ d.free[j + left] = b
    <3>1. j + left \in (left + 1)..(left + have) /\ (j + left) - left = j
      BY <1>1
    <3>2. j + left \in DOMAIN d.free
      BY <1>1, <3>1
    <3> QED
      BY <1>1, <2>2, <3>1, <3>2
  <2>3. ASSUME NEW s \in Requests \ {r}, NEW j \in DOMAIN c.table[s], c.table[s][j] = b
        PROVE  j \in DOMAIN d.table[s] /\ d.table[s][j] = b
    BY <1>3, <2>3
  <2>4. \/ \E i \in 1..left : c.free[i] = b
        \/ \E j \in 1..have : c.table[r][j] = b
        \/ \E s \in Requests \ {r} : \E j \in DOMAIN c.table[s] : c.table[s][j] = b
    BY <1>2, <1>4
  <2> QED
    BY <2>1, <2>2, <2>3, <2>4
<1>10. \A s \in Requests : Len(d.table[s]) = BlocksFor(d.tokens[s])
  BY <1>3, <1>4, NoBlocksForNothing
<1>11. Sound(d)
  <2>1. d \in Cache
    BY <1>1
  <2>2. \A s, u \in Requests : \A i \in DOMAIN d.table[s], j \in DOMAIN d.table[u] :
          d.table[s][i] = d.table[u][j] => s = u /\ i = j
    BY <1>7
  <2>3. \A i \in DOMAIN d.free, s \in Requests : \A j \in DOMAIN d.table[s] :
          d.free[i] # d.table[s][j]
    BY <1>8
  <2> QED
    BY <2>1, <2>2, <2>3, <1>6, <1>9, <1>10 DEF Sound
<1> QED
  BY <1>11 DEF d

\* A sound cache is consistent: every block has one place.
LEMMA SoundIsConsistent ==
    ASSUME NEW c, Sound(c)
    PROVE  Consistent(c)
<1>1. ASSUME NEW b \in Blocks
      PROVE  \E place \in Places(c, b) : Places(c, b) = {place}
  <2>1. CASE \E i \in DOMAIN c.free : c.free[i] = b
    <3>1. PICK i \in DOMAIN c.free : c.free[i] = b
      BY <2>1
    <3>2. /\ \A j \in DOMAIN c.free : c.free[j] = b => j = i
          /\ \A r \in Requests : \A j \in DOMAIN c.table[r] : c.table[r][j] # b
      BY <3>1 DEF Sound, Distinct
    <3>3. {j \in DOMAIN c.free : c.free[j] = b} = {i}
      BY <3>1, <3>2
    <3>4. \A r \in Requests : {j \in DOMAIN c.table[r] : c.table[r][j] = b} = {}
      BY <3>2
    <3>5. Places(c, b) = {<<"free", i>>}
      BY <3>3, <3>4 DEF Places
    <3> QED
      BY <3>5
  <2>2. CASE \E r \in Requests : \E j \in DOMAIN c.table[r] : c.table[r][j] = b
    <3>1. PICK r \in Requests : \E j \in DOMAIN c.table[r] : c.table[r][j] = b
      BY <2>2
    <3>2. PICK j \in DOMAIN c.table[r] : c.table[r][j] = b
      BY <3>1
    <3>3. /\ \A i \in DOMAIN c.free : c.free[i] # b
          /\ \A s \in Requests : \A i \in DOMAIN c.table[s] :
               c.table[s][i] = b => s = r /\ i = j
      BY <3>2 DEF Sound
    <3>4. {i \in DOMAIN c.free : c.free[i] = b} = {}
      BY <3>3
    <3>5. /\ {i \in DOMAIN c.table[r] : c.table[r][i] = b} = {j}
          /\ \A s \in Requests \ {r} : {i \in DOMAIN c.table[s] : c.table[s][i] = b} = {}
      BY <3>2, <3>3
    <3>6. Places(c, b) = {<<r, j>>}
      BY <3>4, <3>5 DEF Places
    <3> QED
      BY <3>6
  <2> QED
    BY <2>1, <2>2 DEF Sound
<1> QED
  BY <1>1 DEF Sound, Consistent

\* Where a block of the cache c would lie in the cache m: a block in a table at
\* its own place, the i-th free one i places behind the table of r.
Lies(c, m, r, b, x) ==
    \/ \E i \in 1..Len(c.free) :
         c.free[i] = b /\ x = m.table[r][Len(c.table[r]) + i]
    \/ \E s \in Requests : \E j \in 1..Len(c.table[s]) :
         c.table[s][j] = b /\ x = m.table[s][j]

\* Whatever m holds for everybody, c has room for, as both have as many blocks:
\* otherwise the blocks of c would all find different places in the tables of
\* m, with one block of m left over.
LEMMA ReservedFits ==
    ASSUME NEW c, Sound(c), NEW m, Sound(m),
           \A s \in Requests : c.tokens[s] <= m.tokens[s],
           NEW r \in Requests, NEW n \in Nat, n >= 1,
           c.tokens[r] + n <= m.tokens[r], m.tokens[r] <= Capacity
    PROVE  Fits(c, r, n)
<1> DEFINE free == Len(c.free)
           have(s) == Len(c.table[s])
           held(s) == Len(m.table[s])
<1>1. /\ c \in Cache /\ m \in Cache
      /\ free \in Nat /\ DOMAIN c.free = 1..free
      /\ c.tokens[r] \in Nat /\ m.tokens[r] \in Nat
  BY CacheParts DEF Sound
<1>2. \A s \in Requests : /\ have(s) \in Nat /\ DOMAIN c.table[s] = 1..have(s)
                          /\ held(s) \in Nat /\ DOMAIN m.table[s] = 1..held(s)
                          /\ m.table[s] \in Seq(Blocks)
                          /\ c.tokens[s] \in Nat /\ m.tokens[s] \in Nat
  BY <1>1, CacheParts
<1>3. ASSUME NEW s \in Requests PROVE have(s) <= held(s)
  <2>1. BlocksFor(c.tokens[s]) <= BlocksFor(m.tokens[s])
    BY <1>2, MoreTokensMoreBlocks
  <2> QED
    BY <2>1 DEF Sound
<1>4. c.tokens[r] + n <= Capacity
  <2>1. Capacity \in Nat
    BY CacheAssumption DEF Capacity
  <2> QED
    BY <1>1, <2>1
<1>5. /\ have(r) + MoreBlocks(c, r, n) <= held(r)
      /\ MoreBlocks(c, r, n) \in Int
  <2>1. c.tokens[r] + n \in Nat
    BY <1>1
  <2>2. BlocksFor(c.tokens[r] + n) <= BlocksFor(m.tokens[r])
    BY <1>1, <2>1, MoreTokensMoreBlocks
  <2>3. BlocksFor(c.tokens[r] + n) \in Nat
    BY <2>1, BlocksForType
  <2>4. held(r) = BlocksFor(m.tokens[r])
    BY DEF Sound
  <2>5. MoreBlocks(c, r, n) = BlocksFor(c.tokens[r] + n) - have(r) /\ have(r) \in Nat
    BY <1>2 DEF MoreBlocks
  <2> QED
    BY <2>2, <2>3, <2>4, <2>5
<1> HIDE DEF free, have, held
<1>6. SUFFICES ASSUME have(r) + free + 1 <= held(r) PROVE FALSE
  BY <1>1, <1>2, <1>4, <1>5 DEF Fits, free
<1>7. \A s, u \in Requests : \A i \in 1..held(s), j \in 1..held(u) :
        m.table[s][i] = m.table[u][j] => s = u /\ i = j
  BY <1>2 DEF Sound
<1> DEFINE over == m.table[r][have(r) + free + 1]
\* The places of the free blocks, and of those in the tables.
<1>8. ASSUME NEW i \in 1..free
      PROVE  have(r) + i \in 1..held(r) /\ have(r) + i \notin 1..have(r)
  BY <1>1, <1>2, <1>6
<1>9. ASSUME NEW s \in Requests, NEW j \in 1..have(s)
      PROVE  j \in 1..held(s)
  BY <1>2, <1>3
<1>10. have(r) + free + 1 \in 1..held(r)
  BY <1>1, <1>2, <1>6
<1>11. ASSUME NEW s \in Requests, NEW j \in 1..held(s) PROVE m.table[s][j] \in Blocks
  BY <1>2, ElementOfSeq DEF held
<1>12. over \in Blocks
  BY <1>10, <1>11
<1>13. ASSUME NEW b \in Blocks PROVE \E x \in Blocks \ {over} : Lies(c, m, r, b, x)
  <2>1. \/ \E i \in 1..free : c.free[i] = b
        \/ \E s \in Requests : \E j \in 1..have(s) : c.table[s][j] = b
    BY <1>1, <1>2 DEF Sound
  <2>2. CASE \E i \in 1..free : c.free[i] = b
    <3>1. PICK i \in 1..free : c.free[i] = b
      BY <2>2
    <3> DEFINE x == m.table[r][have(r) + i]
    <3>2. have(r) + i \in 1..held(r) /\ have(r) + i # have(r) + free + 1
      BY <1>1, <1>2, <1>8
    <3>3. x \in Blocks
      BY <1>11, <3>2
    <3>4. x # over
      BY <1>7, <1>10, <3>2
    <3>5. Lies(c, m, r, b, x)
      BY <3>1 DEF Lies, have, free
    <3> QED
      BY <3>3, <3>4, <3>5
  <2>3. CASE \E s \in Requests : \E j \in 1..have(s) : c.table[s][j] = b
    <3>1. PICK s \in Requests : \E j \in 1..have(s) : c.table[s][j] = b
      BY <2>3
    <3>2. PICK j \in 1..have(s) : c.table[s][j] = b
      BY <3>1
    <3> DEFINE x == m.table[s][j]
    <3>3. j \in 1..held(s) /\ (s = r => j # have(r) + free + 1)
      BY <1>1, <1>2, <1>9
    <3>4. x \in Blocks
      BY <1>11, <3>3
    <3>5. x # over
      BY <1>7, <1>10, <3>3
    <3>6. Lies(c, m, r, b, x)
      BY <3>2 DEF Lies, have
    <3> QED
      BY <3>4, <3>5, <3>6
  <2> QED
    BY <2>1, <2>2, <2>3
<1>14. ASSUME NEW b \in Blocks, NEW x \in Blocks, Lies(c, m, r, b, x)
       PROVE  \E s \in Requests : \E j \in 1..held(s) :
                /\ x = m.table[s][j]
                /\ \/ s = r /\ j - have(r) \in 1..free /\ b = c.free[j - have(r)]
                   \/ j \in 1..have(s) /\ b = c.table[s][j]
  <2>1. CASE \E i \in 1..free : c.free[i] = b /\ x = m.table[r][have(r) + i]
    <3>1. PICK i \in 1..free : c.free[i] = b /\ x = m.table[r][have(r) + i]
      BY <2>1
    <3>2. have(r) + i \in 1..held(r) /\ (have(r) + i) - have(r) = i
      BY <1>2, <1>8
    <3> DEFINE j == have(r) + i
    <3>3. j \in 1..held(r) /\ j - have(r) \in 1..free /\ b = c.free[j - have(r)]
          /\ x = m.table[r][j]
      BY <3>1, <3>2
    <3> QED
      BY <3>3
  <2>2. CASE \E s \in Requests : \E j \in 1..have(s) :
               c.table[s][j] = b /\ x = m.table[s][j]
    BY <1>9, <2>2
  <2> QED
    BY <1>14, <2>1, <2>2 DEF Lies, have, free
<1>15. ASSUME NEW b \in Blocks, NEW b2 \in Blocks, NEW x \in Blocks,
              Lies(c, m, r, b, x), Lies(c, m, r, b2, x)
       PROVE  b = b2
  <2>1. PICK s \in Requests : \E j \in 1..held(s) :
                /\ x = m.table[s][j]
                /\ \/ s = r /\ j - have(r) \in 1..free /\ b = c.free[j - have(r)]
                   \/ j \in 1..have(s) /\ b = c.table[s][j]
    BY <1>14, <1>15
  <2>2. PICK j \in 1..held(s) :
                /\ x = m.table[s][j]
                /\ \/ s = r /\ j - have(r) \in 1..free /\ b = c.free[j - have(r)]
                   \/ j \in 1..have(s) /\ b = c.table[s][j]
    BY <2>1
  <2>3. PICK u \in Requests : \E l \in 1..held(u) :
                /\ x = m.table[u][l]
                /\ \/ u = r /\ l - have(r) \in 1..free /\ b2 = c.free[l - have(r)]
                   \/ l \in 1..have(u) /\ b2 = c.table[u][l]
    BY <1>14, <1>15
  <2>4. PICK l \in 1..held(u) :
                /\ x = m.table[u][l]
                /\ \/ u = r /\ l - have(r) \in 1..free /\ b2 = c.free[l - have(r)]
                   \/ l \in 1..have(u) /\ b2 = c.table[u][l]
    BY <2>3
  <2>5. s = u /\ j = l
    <3>1. m.table[s][j] = m.table[u][l]
      BY <2>2, <2>4
    <3> QED
      BY <1>7, <3>1
  <2>6. ~(j - have(r) \in 1..free /\ j \in 1..have(r))
    BY <1>1, <1>2
  <2> QED
    BY <2>2, <2>4, <2>5, <2>6
<1> DEFINE F == [b \in Blocks |-> CHOOSE x \in Blocks \ {over} : Lies(c, m, r, b, x)]
<1>16. \A b \in Blocks : F[b] \in Blocks \ {over} /\ Lies(c, m, r, b, F[b])
  BY <1>13
<1>17. F \in [Blocks -> Blocks \ {over}]
  BY <1>16
<1> HIDE DEF F, over
<1>18. /\ IsFiniteSet(Blocks) /\ IsFiniteSet(Blocks \ {over})
       /\ Cardinality(Blocks \ {over}) < Cardinality(Blocks)
  <2>1. TotalBlocks \in Nat /\ TotalBlocks > 0 /\ TotalBlocks - 1 \in Int
    BY CacheAssumption
  <2>2. IsFiniteSet(Blocks) /\ Cardinality(Blocks) = TotalBlocks
    BY <2>1, FS_Interval DEF Blocks
  <2>3. /\ IsFiniteSet(Blocks \ {over})
        /\ Cardinality(Blocks \ {over}) = Cardinality(Blocks) - 1
    BY <1>12, <2>2, FS_RemoveElement
  <2> QED
    BY <2>1, <2>2, <2>3
<1>19. PICK b, b2 \in Blocks : b # b2 /\ F[b] = F[b2]
  BY <1>17, <1>18, FS_PigeonHole
<1>20. b = b2
  BY <1>15, <1>16, <1>19
<1> QED
  BY <1>19, <1>20

-----------------------------------------------------------------------------
(* The inductive invariant.                                                *)

\* A request by its phase.  In a prefill it either writes its prompt and has
\* no token, or rewrites all but the last of the tokens it has.
RowFits(s) ==
    /\ s.phase # "absent" => /\ s.prompt >= 1 /\ s.output >= 1
                             /\ s.prompt + s.output - 1 <= Capacity
    /\ s.phase = "waiting" => /\ s.generated = 0 /\ s.prefilled = 0
                              /\ s.target = s.prompt /\ ~s.recomputing
    /\ s.phase = "prefill" =>
         /\ s.prefilled < s.target
         /\ IF s.recomputing
              THEN /\ s.target = s.prompt + s.generated - 1
                   /\ 1 <= s.generated /\ s.generated < s.output
              ELSE s.target = s.prompt /\ s.generated = 0
    /\ s.phase = "decode" => /\ 1 <= s.generated /\ s.generated < s.output
                             /\ ~s.recomputing
    /\ s.phase = "finished" => s.generated = s.output

Rows == \A r \in Requests : RowFits(request[r])

\* Each queue holds a request once, in the phase that belongs there, and no
\* preempted request is active.
Lines ==
    /\ Distinct(waiting) /\ Distinct(active) /\ Distinct(preempted)
    /\ \A r \in Elements(waiting) : request[r].phase = "waiting"
    /\ \A r \in Elements(active) : request[r].phase \in {"prefill", "decode", "finished"}
    /\ \A r \in Elements(preempted) :
         request[r].phase = "prefill" /\ request[r].prefilled = 0
    /\ Elements(preempted) \cap Elements(active) = {}

\* Outside the batch loop nobody active is finished; inside it only those
\* before the cursor may be, and remaining holds the others before it.
BatchInv ==
    /\ pc # "batch" => \A r \in Elements(active) : request[r].phase # "finished"
    /\ pc = "batch" =>
         /\ cursor <= Len(active) + 1
         /\ \A i \in DOMAIN active : i >= cursor => request[active[i]].phase # "finished"
         /\ Distinct(remaining) /\ Len(remaining) < cursor
         /\ \A r \in Requests :
              r \in Elements(remaining) <=>
                /\ request[r].phase # "finished"
                /\ \E i \in DOMAIN active : i < cursor /\ active[i] = r

SchedInv ==
    /\ SchedTypeOK /\ Rows /\ Lines /\ BatchInv
    /\ Sound(kv) /\ Sound(reservations)
    /\ CacheMatchesProgress /\ StepNeverRaises

-----------------------------------------------------------------------------
(* The queues: what is in them, and in them once.                          *)

LEMMA AppendElements ==
    ASSUME NEW S, NEW s \in Seq(S), NEW x \in S
    PROVE  /\ Append(s, x) \in Seq(S) /\ Len(Append(s, x)) = Len(s) + 1
           /\ Elements(Append(s, x)) = Elements(s) \cup {x}
           /\ Distinct(s) /\ x \notin Elements(s) => Distinct(Append(s, x))
<1> DEFINE t == Append(s, x)
<1>1. /\ Len(s) \in Nat /\ DOMAIN s = 1..Len(s)
      /\ t \in Seq(S) /\ Len(t) = Len(s) + 1
      /\ \A i \in 1..Len(s) : t[i] = s[i]
      /\ t[Len(s) + 1] = x
  BY LenProperties, AppendProperties
<1>2. DOMAIN t = 1..(Len(s) + 1)
  BY <1>1, LenProperties
<1> HIDE DEF t
<1>3. \A i \in DOMAIN t : \/ i \in DOMAIN s /\ t[i] = s[i]
                          \/ i = Len(s) + 1 /\ t[i] = x
  BY <1>1, <1>2
<1>4. \A i \in DOMAIN s : i \in DOMAIN t /\ t[i] = s[i] /\ i # Len(s) + 1
  BY <1>1, <1>2
<1>5. Len(s) + 1 \in DOMAIN t
  BY <1>1, <1>2
<1>6. Elements(t) = Elements(s) \cup {x}
  <2>1. ASSUME NEW y \in Elements(t) PROVE y \in Elements(s) \cup {x}
    BY <1>3, <2>1 DEF Elements
  <2>2. ASSUME NEW y \in Elements(s) PROVE y \in Elements(t)
    BY <1>4, <2>2 DEF Elements
  <2>3. x \in Elements(t)
    BY <1>1, <1>5 DEF Elements
  <2> QED
    BY <2>1, <2>2, <2>3
<1>7. ASSUME Distinct(s), x \notin Elements(s) PROVE Distinct(t)
  <2> SUFFICES ASSUME NEW i \in DOMAIN t, NEW j \in DOMAIN t, t[i] = t[j]
               PROVE  i = j
    BY DEF Distinct
  <2>1. \A l \in DOMAIN s : s[l] # x
    BY <1>7 DEF Elements
  <2>2. CASE i \in DOMAIN s /\ t[i] = s[i] /\ j \in DOMAIN s /\ t[j] = s[j]
    BY <1>7, <2>2 DEF Distinct
  <2> QED
    BY <1>3, <2>1, <2>2
<1> QED
  BY <1>1, <1>6, <1>7 DEF t

LEMMA TailElements ==
    ASSUME NEW S, NEW s \in Seq(S), s # << >>, Distinct(s)
    PROVE  /\ Head(s) \in S /\ Head(s) \in Elements(s)
           /\ Tail(s) \in Seq(S) /\ Len(Tail(s)) = Len(s) - 1
           /\ Elements(Tail(s)) = Elements(s) \ {Head(s)}
           /\ Distinct(Tail(s))
<1> DEFINE t == Tail(s)
<1>1. /\ Len(s) \in Nat /\ Len(s) >= 1 /\ DOMAIN s = 1..Len(s)
      /\ Head(s) \in S /\ Head(s) = s[1]
      /\ t \in Seq(S) /\ Len(t) = Len(s) - 1
      /\ \A i \in 1..Len(t) : t[i] = s[i + 1]
  BY LenProperties, EmptySeq, HeadTailProperties
<1>2. DOMAIN t = 1..(Len(s) - 1)
  BY <1>1, LenProperties
<1> HIDE DEF t
<1>3. \A i \in DOMAIN t : i + 1 \in DOMAIN s /\ i + 1 # 1 /\ t[i] = s[i + 1]
  BY <1>1, <1>2
<1>4. \A i \in DOMAIN s : i # 1 => i - 1 \in DOMAIN t /\ t[i - 1] = s[i]
  BY <1>1, <1>2
<1>5. 1 \in DOMAIN s
  BY <1>1
<1>6. \A i, j \in DOMAIN s : s[i] = s[j] => i = j
  BY DEF Distinct
<1>7. Elements(t) = Elements(s) \ {Head(s)}
  <2>1. ASSUME NEW y \in Elements(t) PROVE y \in Elements(s) /\ y # Head(s)
    <3>1. PICK i \in DOMAIN t : t[i] = y
      BY <2>1 DEF Elements
    <3>2. i + 1 \in DOMAIN s /\ s[i + 1] = y /\ s[i + 1] # s[1]
      BY <1>3, <1>5, <1>6, <3>1
    <3> QED
      BY <1>1, <3>2 DEF Elements
  <2>2. ASSUME NEW y \in Elements(s), y # Head(s) PROVE y \in Elements(t)
    <3>1. PICK i \in DOMAIN s : s[i] = y
      BY <2>2 DEF Elements
    <3>2. i # 1
      BY <1>1, <2>2, <3>1
    <3> QED
      BY <1>4, <3>1, <3>2 DEF Elements
  <2> QED
    BY <2>1, <2>2
<1>8. Distinct(t)
  <2> SUFFICES ASSUME NEW i \in DOMAIN t, NEW j \in DOMAIN t, t[i] = t[j]
               PROVE  i = j
    BY DEF Distinct
  <2>1. i + 1 = j + 1
    BY <1>3, <1>6
  <2> QED
    BY <1>2, <2>1
<1>9. Head(s) \in Elements(s)
  BY <1>1, <1>5 DEF Elements
<1> QED
  BY <1>1, <1>7, <1>8, <1>9 DEF t

LEMMA RemoveAtElements ==
    ASSUME NEW S, NEW s \in Seq(S), Distinct(s), NEW p \in DOMAIN s
    PROVE  /\ RemoveAt(s, p) \in Seq(S) /\ Len(RemoveAt(s, p)) = Len(s) - 1
           /\ Elements(RemoveAt(s, p)) = Elements(s) \ {s[p]}
           /\ Distinct(RemoveAt(s, p))
<1> DEFINE a == SubSeq(s, 1, p - 1)
           b == SubSeq(s, p + 1, Len(s))
           t == RemoveAt(s, p)
<1>1. /\ Len(s) \in Nat /\ DOMAIN s = 1..Len(s)
      /\ p \in Nat /\ 1 <= p /\ p <= Len(s)
      /\ \A i \in 1..Len(s) : s[i] \in S
  BY LenProperties, ElementOfSeq
<1>2. /\ a \in Seq(S) /\ Len(a) = p - 1
      /\ \A i \in 1..(p - 1) : a[i] = s[i]
  <2>1. \A i \in 1..(p - 1) : s[i] \in S
    BY <1>1
  <2>2. /\ SubSeq(s, 1, p - 1) \in Seq(S)
        /\ Len(SubSeq(s, 1, p - 1)) = IF 1 <= p - 1 THEN p - 1 - 1 + 1 ELSE 0
        /\ \A i \in 1..(p - 1 - 1 + 1) : SubSeq(s, 1, p - 1)[i] = s[1 + i - 1]
    BY <1>1, <2>1, SubSeqProperties
  <2> QED
    BY <1>1, <2>2
<1>3. /\ b \in Seq(S) /\ Len(b) = Len(s) - p
      /\ \A i \in 1..(Len(s) - p) : b[i] = s[p + i]
  <2>1. \A i \in (p + 1)..Len(s) : s[i] \in S
    BY <1>1
  <2>2. /\ SubSeq(s, p + 1, Len(s)) \in Seq(S)
        /\ Len(SubSeq(s, p + 1, Len(s))) =
             IF p + 1 <= Len(s) THEN Len(s) - (p + 1) + 1 ELSE 0
        /\ \A i \in 1..(Len(s) - (p + 1) + 1) :
             SubSeq(s, p + 1, Len(s))[i] = s[(p + 1) + i - 1]
    BY <1>1, <2>1, SubSeqProperties
  <2>3. /\ Len(s) - (p + 1) + 1 = Len(s) - p
        /\ ~(p + 1 <= Len(s)) => Len(s) - p = 0
        /\ \A i \in 1..(Len(s) - p) : (p + 1) + i - 1 = p + i
    BY <1>1
  <2>4. /\ SubSeq(s, p + 1, Len(s)) \in Seq(S)
        /\ Len(SubSeq(s, p + 1, Len(s))) = Len(s) - p
        /\ \A i \in 1..(Len(s) - p) : SubSeq(s, p + 1, Len(s))[i] = s[(p + 1) + i - 1]
    BY <2>2, <2>3
  <2> QED
    BY <2>3, <2>4
<1>4. t = a \o b
  BY DEF RemoveAt
<1> HIDE DEF a, b, t
<1>5. /\ t \in Seq(S) /\ Len(t) = Len(s) - 1
      /\ DOMAIN t = 1..(Len(s) - 1)
      /\ \A i \in 1..(Len(s) - 1) : t[i] = IF i < p THEN s[i] ELSE s[i + 1]
  <2>1. /\ t \in Seq(S) /\ Len(t) = Len(a) + Len(b)
        /\ \A i \in 1..(Len(a) + Len(b)) :
             t[i] = IF i <= Len(a) THEN a[i] ELSE b[i - Len(a)]
    BY <1>2, <1>3, <1>4, ConcatProperties
  <2>2. Len(a) + Len(b) = Len(s) - 1
    BY <1>1, <1>2, <1>3
  <2>3. ASSUME NEW i \in 1..(Len(s) - 1) PROVE t[i] = IF i < p THEN s[i] ELSE s[i + 1]
    <3>1. CASE i < p
      <4>1. i \in 1..(p - 1) /\ i <= Len(a)
        BY <1>1, <1>2, <3>1
      <4> QED
        BY <1>2, <2>1, <2>2, <3>1, <4>1
    <3>2. CASE ~(i < p)
      <4>1. /\ ~(i <= Len(a)) /\ i - Len(a) \in 1..(Len(s) - p)
            /\ p + (i - Len(a)) = i + 1
        BY <1>1, <1>2, <3>2
      <4>2. t[i] = b[i - Len(a)]
        BY <2>1, <2>2, <4>1
      <4>3. b[i - Len(a)] = s[p + (i - Len(a))]
        BY <1>3, <4>1
      <4> QED
        BY <3>2, <4>1, <4>2, <4>3
    <3> QED
      BY <3>1, <3>2
  <2> QED
    BY <2>1, <2>2, <2>3, LenProperties
<1>6. \A i \in DOMAIN t : \/ i < p /\ i \in DOMAIN s /\ t[i] = s[i]
                          \/ ~(i < p) /\ i + 1 \in DOMAIN s /\ i + 1 # p /\ t[i] = s[i + 1]
  BY <1>1, <1>5
<1>7. \A i, j \in DOMAIN s : s[i] = s[j] => i = j
  BY DEF Distinct
<1>8. Elements(t) = Elements(s) \ {s[p]}
  <2>1. ASSUME NEW y \in Elements(t) PROVE y \in Elements(s) /\ y # s[p]
    <3>1. PICK i \in DOMAIN t : t[i] = y
      BY <2>1 DEF Elements
    <3>2. PICK j \in DOMAIN s : s[j] = y /\ j # p
      BY <1>1, <1>6, <3>1
    <3> QED
      BY <1>7, <3>2 DEF Elements
  <2>2. ASSUME NEW y \in Elements(s), y # s[p] PROVE y \in Elements(t)
    <3>1. PICK i \in DOMAIN s : s[i] = y
      BY <2>2 DEF Elements
    <3>2. CASE i < p
      <4>1. i \in 1..(Len(s) - 1)
        BY <1>1, <3>2
      <4> QED
        BY <1>5, <3>1, <3>2, <4>1 DEF Elements
    <3>3. CASE i > p
      <4>1. i - 1 \in 1..(Len(s) - 1) /\ ~(i - 1 < p) /\ (i - 1) + 1 = i
        BY <1>1, <3>3
      <4>2. t[i - 1] = s[i]
        BY <1>5, <4>1
      <4> QED
        BY <1>5, <3>1, <4>1, <4>2 DEF Elements
    <3> QED
      BY <1>1, <2>2, <3>1, <3>2, <3>3
  <2> QED
    BY <2>1, <2>2
<1>9. Distinct(t)
  <2> SUFFICES ASSUME NEW i \in DOMAIN t, NEW j \in DOMAIN t, t[i] = t[j]
               PROVE  i = j
    BY DEF Distinct
  <2> DEFINE at(l) == IF l < p THEN l ELSE l + 1
  <2>1. \A l \in DOMAIN t : at(l) \in DOMAIN s /\ t[l] = s[at(l)]
    BY <1>6
  <2>2. at(i) = at(j)
    BY <1>7, <2>1
  <2> QED
    BY <1>1, <1>5, <2>2
<1> QED
  BY <1>5, <1>8, <1>9 DEF t

LEMMA NoElements == Elements(<< >>) = {} /\ Distinct(<< >>)
<1>1. DOMAIN << >> = {}
  BY EmptySeq
<1> QED
  BY <1>1 DEF Elements, Distinct

\* The tokens a request has in the cache by its own account.
Written(s) == IF s.phase = "prefill" THEN s.prefilled ELSE s.prompt + s.generated - 1

\* A preempted request is one that waits to rewrite its tokens.
LEMMA RecomputeRow ==
    ASSUME NEW s \in State, RowFits(s), s.phase = "decode"
    PROVE  LET t == ForRecompute(s)
           IN  /\ t \in State /\ RowFits(t)
               /\ t.phase = "prefill" /\ t.prefilled = 0
               /\ t.prompt = s.prompt /\ t.output = s.output
               /\ t.generated = s.generated
<1> DEFINE t == ForRecompute(s)
<1>1. /\ s.prompt \in Nat /\ s.output \in Nat /\ s.generated \in Nat
      /\ s.preemptions \in Nat
      /\ s.prompt >= 1 /\ s.output >= 1 /\ s.prompt + s.output - 1 <= Capacity
      /\ 1 <= s.generated /\ s.generated < s.output
  BY DEF State, RowFits
<1>2. /\ t.phase = "prefill" /\ t.prefilled = 0 /\ t.recomputing = TRUE
      /\ t.target = s.prompt + s.generated - 1
      /\ t.prompt = s.prompt /\ t.output = s.output /\ t.generated = s.generated
      /\ t.preemptions = s.preemptions + 1
  BY DEF ForRecompute, State
<1>4. s.prompt + s.generated - 1 \in Nat /\ 0 < s.prompt + s.generated - 1
  BY <1>1
<1> DEFINE g == s.prompt + s.generated - 1
           m == s.preemptions + 1
<1>3. /\ t = [s EXCEPT !.phase = "prefill", !.prefilled = 0, !.recomputing = TRUE,
                      !.target = g, !.preemptions = m]
      /\ g \in Nat /\ m \in Nat
  BY <1>1, <1>4 DEF ForRecompute
<1> HIDE DEF g, m
<1>5. t \in State
  <2> DEFINE u == [s EXCEPT !.phase = "prefill", !.prefilled = 0, !.recomputing = TRUE]
  <2>1. u \in State
    BY DEF State
  <2>2. t = [u EXCEPT !.target = g, !.preemptions = m]
    BY <1>3 DEF State
  <2> HIDE DEF u
  <2> QED
    BY <1>3, <2>1, <2>2 DEF State
<1> HIDE DEF t
<1>6. RowFits(t)
  BY <1>1, <1>2, <1>4 DEF RowFits
<1> QED
  BY <1>2, <1>5, <1>6 DEF t

\* A turn writes at least one token, no more than the budget has and none
\* beyond the request's reservation, and leaves a request that fits.
LEMMA RanRow ==
    ASSUME NEW s \in State, RowFits(s), s.phase \in {"prefill", "decode"},
           spent \in 0..MaxBatchTokens, Budget > 0
    PROVE  LET t == Ran(s)
               n == Planned(s)
           IN  /\ n \in Nat /\ 1 <= n /\ spent + n \in 0..MaxBatchTokens
               /\ t \in State /\ RowFits(t)
               /\ t.phase \in {"prefill", "decode", "finished"}
               /\ t.prompt = s.prompt /\ t.output = s.output
               /\ t.generated \in {s.generated, s.generated + 1}
               /\ t.phase # "finished" => Written(t) = Written(s) + n
               /\ Written(s) + n <= s.prompt + s.output - 1
<1> DEFINE t == Ran(s)
           n == Planned(s)
<1>1. /\ s.prompt \in Nat /\ s.output \in Nat /\ s.generated \in Nat
      /\ s.prefilled \in Nat /\ s.target \in Nat
      /\ s.preemptions \in Nat /\ s.recomputing \in BOOLEAN
      /\ s.prompt >= 1 /\ s.output >= 1 /\ s.prompt + s.output - 1 <= Capacity
  BY DEF State, RowFits
<1>2. MaxBatchTokens \in Nat /\ Budget \in Nat /\ spent \in Nat
      /\ spent + Budget = MaxBatchTokens
  BY SchedulerAssumption DEF Budget
<1>3. CASE s.phase = "prefill"
  <2>1. /\ s.prefilled < s.target
        /\ s.recomputing => /\ s.target = s.prompt + s.generated - 1
                            /\ 1 <= s.generated /\ s.generated < s.output
        /\ ~s.recomputing => s.target = s.prompt /\ s.generated = 0
    BY <1>3 DEF RowFits
  <2>2. /\ n \in Nat /\ 1 <= n /\ n <= Budget /\ s.prefilled + n <= s.target
    BY <1>1, <1>2, <1>3, <2>1 DEF Planned, Least
  <2>3. t = RunPrefill(s, n)
    BY <1>3 DEF Ran
  <2> HIDE DEF n
  <2>4. spent + n \in 0..MaxBatchTokens
    BY <1>2, <2>2
  <2>5. s.prefilled + n <= s.prompt + s.output - 1
    BY <1>1, <2>1, <2>2
  <2>6. CASE s.prefilled + n < s.target
    <3>1. t = [s EXCEPT !.prefilled = @ + n]
      BY <2>3, <2>6 DEF RunPrefill
    <3>2. /\ t.phase = "prefill" /\ t.prefilled = s.prefilled + n
          /\ t.recomputing = s.recomputing /\ t.target = s.target
          /\ t.prompt = s.prompt /\ t.output = s.output /\ t.generated = s.generated
          /\ t.preemptions = s.preemptions
      BY <1>3, <3>1 DEF State
    <3>3. s.prefilled + n \in Nat
      BY <1>1, <2>2
    <3>4. t \in State
      BY <3>1, <3>3 DEF State
    <3> HIDE DEF t
    <3>5. RowFits(t)
      BY <1>1, <2>1, <2>6, <3>2 DEF RowFits
    <3> QED
      BY <1>3, <2>2, <2>4, <2>5, <3>2, <3>4, <3>5 DEF Written, t, n
  <2>7. CASE ~(s.prefilled + n < s.target)
    <3> DEFINE tokens == IF s.recomputing THEN s.generated ELSE 1
               phase == IF tokens >= s.output THEN "finished" ELSE "decode"
    <3>1. t = [s EXCEPT !.prefilled = @ + n, !.recomputing = FALSE,
                        !.generated = tokens, !.phase = phase]
      BY <2>3, <2>7 DEF RunPrefill
    <3>2. /\ tokens \in Nat /\ 1 <= tokens /\ tokens <= s.output
          /\ tokens \in {s.generated, s.generated + 1}
          /\ s.prefilled + n \in Nat
          /\ s.prefilled + n = s.prompt + tokens - 1
      BY <1>1, <2>1, <2>2, <2>7
    <3>3. /\ phase \in {"decode", "finished"}
          /\ phase = "decode" => tokens < s.output
          /\ phase = "finished" => tokens = s.output
      BY <1>1, <3>2
    <3> HIDE DEF tokens, phase
    <3>4. /\ t.phase = phase /\ t.prefilled = s.prefilled + n /\ t.recomputing = FALSE
          /\ t.target = s.target /\ t.generated = tokens
          /\ t.prompt = s.prompt /\ t.output = s.output
          /\ t.preemptions = s.preemptions
      BY <3>1 DEF State
    <3>5. t \in State
      BY <3>1, <3>2, <3>3 DEF State
    <3> HIDE DEF t
    <3>6. RowFits(t)
      BY <1>1, <3>2, <3>3, <3>4 DEF RowFits
    <3>7. t.phase # "finished" => Written(t) = Written(s) + n
      BY <1>3, <3>2, <3>3, <3>4 DEF Written
    <3> QED
      BY <1>3, <2>2, <2>4, <2>5, <3>2, <3>3, <3>4, <3>5, <3>6, <3>7 DEF Written, t, n
  <2> QED
    BY <2>6, <2>7
<1>4. CASE s.phase = "decode"
  <2>1. 1 <= s.generated /\ s.generated < s.output /\ ~s.recomputing
    BY <1>4 DEF RowFits
  <2>2. n = 1 /\ t = RunDecode(s)
    BY <1>4 DEF Planned, Ran
  <2> DEFINE phase == IF s.generated + 1 >= s.output THEN "finished" ELSE "decode"
  <2>3. t = [s EXCEPT !.generated = @ + 1, !.phase = phase]
    BY <1>4, <2>2 DEF RunDecode
  <2>4. /\ phase \in {"decode", "finished"}
        /\ phase = "decode" => s.generated + 1 < s.output
        /\ phase = "finished" => s.generated + 1 = s.output
        /\ s.generated + 1 \in Nat
    BY <1>1, <2>1
  <2> HIDE DEF phase, n
  <2>5. /\ t.phase = phase /\ t.prefilled = s.prefilled /\ t.recomputing = s.recomputing
        /\ t.target = s.target /\ t.generated = s.generated + 1
        /\ t.prompt = s.prompt /\ t.output = s.output
        /\ t.preemptions = s.preemptions
    BY <2>3 DEF State
  <2>6. t \in State
    BY <2>3, <2>4 DEF State
  <2> HIDE DEF t
  <2>7. RowFits(t)
    BY <1>1, <2>1, <2>4, <2>5 DEF RowFits
  <2>8. /\ t.phase # "finished" => Written(t) = Written(s) + n
        /\ Written(s) + n <= s.prompt + s.output - 1
    BY <1>1, <1>4, <2>1, <2>2, <2>4, <2>5 DEF Written
  <2>9. spent + n \in 0..MaxBatchTokens
    BY <1>2, <2>2
  <2> QED
    BY <2>2, <2>4, <2>5, <2>6, <2>7, <2>8, <2>9 DEF t, n
<1> QED
  BY <1>3, <1>4

LEMMA AppendTo ==
    ASSUME NEW c, Sound(c), NEW r \in Requests, NEW n \in Nat, Fits(c, r, n)
    PROVE  LET d == AppendTokens(c, r, n)
           IN  /\ Sound(d) /\ d \in Cache
               /\ d.tokens[r] = c.tokens[r] + n
               /\ \A s \in Requests \ {r} : d.tokens[s] = c.tokens[s]
<1> DEFINE d == AppendTokens(c, r, n)
<1>1. Sound(d) /\ d.tokens = [c.tokens EXCEPT ![r] = @ + n]
  BY AppendIsSound, AppendMoves
<1>2. c.tokens \in [Requests -> Nat]
  BY CacheParts DEF Sound
<1> QED
  BY <1>1, <1>2 DEF Sound

LEMMA ReleaseOf ==
    ASSUME NEW c, Sound(c), NEW r \in Requests
    PROVE  LET d == Release(c, r)
           IN  /\ Sound(d) /\ d \in Cache
               /\ d.tokens[r] = 0
               /\ \A s \in Requests \ {r} : d.tokens[s] = c.tokens[s]
<1> DEFINE d == Release(c, r)
<1>1. c \in Cache /\ c.tokens \in [Requests -> Nat]
  BY CacheParts DEF Sound
<1>2. Sound(d) /\ d.tokens = [c.tokens EXCEPT ![r] = 0]
  BY <1>1, ReleaseIsSound, ReleaseMoves
<1> QED
  BY <1>1, <1>2 DEF Sound

-----------------------------------------------------------------------------
(* Every step keeps the invariant.                                         *)

\* What a request is entitled to in the caches, r being in the batch or not.
Entitled(r, in) ==
    LET s == request[r]
        holds == in /\ s.phase # "finished"
    IN  /\ kv.tokens[r] = IF holds THEN Written(s) ELSE 0
        /\ reservations.tokens[r] = IF holds THEN s.prompt + s.output - 1 ELSE 0

\* The bound by the reservation follows from the request itself.
LEMMA MatchesAreEntitled ==
    /\ request \in [Requests -> State] /\ Rows
    /\ \A r \in Elements(active) :
         request[r].phase \in {"prefill", "decode", "finished"}
    => (CacheMatchesProgress
          <=> \A r \in Requests : Entitled(r, r \in Elements(active)))
<1> SUFFICES ASSUME request \in [Requests -> State], Rows,
                    \A r \in Elements(active) :
                      request[r].phase \in {"prefill", "decode", "finished"}
             PROVE  CacheMatchesProgress
                      <=> \A r \in Requests : Entitled(r, r \in Elements(active))
  OBVIOUS
<1>1. ASSUME NEW r \in Requests
      PROVE  LET s == request[r]
             IN  /\ s \in State /\ s.phase \in {"prefill", "decode"} =>
                      Written(s) <= s.prompt + s.output - 1
                 /\ s.prompt \in Nat /\ s.output \in Nat
  <2> DEFINE s == request[r]
  <2>1. s \in State /\ RowFits(s)
    BY DEF Rows
  <2> HIDE DEF s
  <2>2. /\ s.prompt \in Nat /\ s.output \in Nat /\ s.generated \in Nat
        /\ s.prefilled \in Nat /\ s.target \in Nat /\ s.recomputing \in BOOLEAN
    BY <2>1 DEF State
  <2>3. s.phase \in {"prefill", "decode"} => Written(s) <= s.prompt + s.output - 1
    BY <2>1, <2>2 DEF RowFits, Written
  <2> QED
    BY <2>1, <2>2, <2>3 DEF s
<1>2. ASSUME NEW r \in Requests
      PROVE  LET s == request[r]
                 holds == r \in Elements(active) /\ s.phase # "finished"
             IN  (/\ kv.tokens[r] = IF ~holds THEN 0
                                    ELSE IF s.phase = "prefill" THEN s.prefilled
                                    ELSE s.prompt + s.generated - 1
                  /\ reservations.tokens[r] = IF holds THEN Required(r) ELSE 0
                  /\ kv.tokens[r] <= reservations.tokens[r])
                 <=> Entitled(r, r \in Elements(active))
  <2>1. r \in Elements(active) /\ request[r].phase # "finished"
          => Written(request[r]) <= request[r].prompt + request[r].output - 1
    BY <1>1
  <2> QED
    BY <1>1, <2>1 DEF Entitled, Written, Required
<1> QED
  BY <1>2 DEF CacheMatchesProgress

\* The parts of the invariant, as the steps below use them.
LEMMA InvParts ==
    ASSUME SchedInv
    PROVE  /\ request \in [Requests -> State]
           /\ \A r \in Requests : request[r] \in State /\ RowFits(request[r])
           /\ waiting \in Seq(Requests) /\ active \in Seq(Requests)
           /\ preempted \in Seq(Requests) /\ remaining \in Seq(Requests)
           /\ Len(active) \in Nat /\ DOMAIN active = 1..Len(active)
           /\ \A i \in DOMAIN active : active[i] \in Requests /\ active[i] \in Elements(active)
           /\ Elements(waiting) \subseteq Requests /\ Elements(active) \subseteq Requests
           /\ \A r \in Requests : Entitled(r, r \in Elements(active))
           /\ MaxActive \in Nat /\ QueueCapacity \in Nat /\ MaxBatchTokens \in Nat
           /\ Len(waiting) \in Nat /\ Len(preempted) \in Nat /\ Len(remaining) \in Nat
<1>1. /\ request \in [Requests -> State]
      /\ waiting \in Seq(Requests) /\ active \in Seq(Requests)
      /\ preempted \in Seq(Requests) /\ remaining \in Seq(Requests)
  BY DEF SchedInv, SchedTypeOK
<1>2. \A r \in Requests : request[r] \in State /\ RowFits(request[r])
  BY <1>1 DEF SchedInv, Rows
<1>3. /\ Len(active) \in Nat /\ DOMAIN active = 1..Len(active)
      /\ Len(waiting) \in Nat /\ Len(preempted) \in Nat /\ Len(remaining) \in Nat
      /\ DOMAIN waiting = 1..Len(waiting)
  BY <1>1, LenProperties
<1>4. /\ \A i \in DOMAIN active : active[i] \in Requests
      /\ \A i \in DOMAIN waiting : waiting[i] \in Requests
  BY <1>1, <1>3, ElementOfSeq
<1>5. \A r \in Requests : Entitled(r, r \in Elements(active))
  BY <1>1, MatchesAreEntitled DEF SchedInv, Lines
<1> QED
  BY <1>1, <1>2, <1>3, <1>4, <1>5, SchedulerAssumption DEF Elements

LEMMA MatchesAreEntitledNext ==
    (/\ request \in [Requests -> State] /\ Rows
     /\ \A r \in Elements(active) :
          request[r].phase \in {"prefill", "decode", "finished"}
     => (CacheMatchesProgress
           <=> \A r \in Requests : Entitled(r, r \in Elements(active))))'
  BY MatchesAreEntitled, PTL

\* The invariant of the next state, from its parts.
LEMMA InvOfNext ==
    ASSUME SchedTypeOK', Rows', Lines', BatchInv', Sound(kv)', Sound(reservations)',
           (\A r \in Requests : Entitled(r, r \in Elements(active)))', StepNeverRaises'
    PROVE  SchedInv'
<1>1. (/\ request \in [Requests -> State] /\ Rows
       /\ \A r \in Elements(active) :
            request[r].phase \in {"prefill", "decode", "finished"})'
  BY DEF SchedTypeOK, Lines
<1>3. CacheMatchesProgress'
  BY <1>1, MatchesAreEntitledNext
<1> QED
  BY <1>3 DEF SchedInv

LEMMA InitHolds == Init => SchedInv
<1> SUFFICES ASSUME Init PROVE SchedInv
  OBVIOUS
<1>1. /\ request = [r \in Requests |-> Submitted("absent", 0, 0)]
      /\ waiting = << >> /\ active = << >> /\ preempted = << >> /\ remaining = << >>
      /\ kv = EmptyCache /\ reservations = EmptyCache
      /\ pc = "idle" /\ cursor = 1 /\ spent = 0
  BY DEF Init
<1>2. Submitted("absent", 0, 0) \in State
  BY DEF Submitted, State
<1>3. \A r \in Requests : request[r] \in State /\ request[r].phase = "absent"
  BY <1>1, <1>2 DEF Submitted
<1>4. << >> \in Seq(Requests) /\ Len(<< >>) = 0
  BY EmptySeq
<1>5. Sound(kv) /\ Sound(reservations)
  BY <1>1, EmptyIsSound
<1>6. SchedTypeOK
  BY <1>1, <1>2, <1>4, <1>5, SchedulerAssumption DEF SchedTypeOK, Sound
<1>7. Rows
  BY <1>3 DEF Rows, RowFits
<1>8. Elements(active) = {} /\ Elements(waiting) = {} /\ Elements(preempted) = {}
      /\ Distinct(active) /\ Distinct(waiting) /\ Distinct(preempted)
  BY <1>1, NoElements
<1>9. Lines
  BY <1>8 DEF Lines
<1>10. BatchInv
  BY <1>1, <1>8 DEF BatchInv
<1>11. \A r \in Requests : kv.tokens[r] = 0 /\ reservations.tokens[r] = 0
  BY <1>1 DEF EmptyCache
<1>12. CacheMatchesProgress
  <2>1. ASSUME NEW r \in Requests
        PROVE  /\ r \notin Elements(active) /\ kv.tokens[r] = 0
               /\ reservations.tokens[r] = 0 /\ 0 <= 0
    BY <1>8, <1>11
  <2> QED
    BY <2>1 DEF CacheMatchesProgress
<1> QED
  BY <1>1, <1>5, <1>6, <1>7, <1>9, <1>10, <1>12 DEF SchedInv, StepNeverRaises

\* A step that leaves requests, queues and caches alone.
LEMMA SameRows ==
    ASSUME SchedInv, UNCHANGED <<request, queues, caches>>
    PROVE  /\ Rows' /\ Lines' /\ Sound(kv)' /\ Sound(reservations)'
           /\ (\A r \in Requests : Entitled(r, r \in Elements(active)))'
<1>1. /\ request' = request /\ waiting' = waiting /\ active' = active
      /\ preempted' = preempted /\ kv' = kv /\ reservations' = reservations
  BY DEF queues, caches
<1>2. /\ Rows /\ Lines /\ Sound(kv) /\ Sound(reservations)
      /\ \A r \in Requests : Entitled(r, r \in Elements(active))
  BY InvParts DEF SchedInv
<1>3. Rows' /\ Lines'
  BY <1>1, <1>2 DEF Rows, Lines
<1>4. Sound(kv') /\ Sound(reservations')
  BY <1>1, <1>2
<1>5. (\A r \in Requests : Entitled(r, r \in Elements(active)))'
  BY <1>1, <1>2 DEF Entitled
<1> QED
  BY <1>3, <1>4, <1>5

\* Begin, EndAdmission and EndReadmission only move pc and reset the loop.
LEMMA TurnsKeep ==
    ASSUME SchedInv, Begin \/ EndAdmission \/ EndReadmission
    PROVE  SchedInv'
<1>1. UNCHANGED <<request, queues, caches>>
  BY DEF Begin, EndAdmission, EndReadmission
<1>2. /\ Rows' /\ Lines' /\ Sound(kv)' /\ Sound(reservations)'
      /\ (\A r \in Requests : Entitled(r, r \in Elements(active)))'
  BY <1>1, SameRows
<1>3. request' = request /\ waiting' = waiting /\ active' = active
      /\ preempted' = preempted /\ kv' = kv /\ reservations' = reservations
  BY <1>1 DEF queues, caches
<1>4. SchedTypeOK /\ BatchInv
  BY DEF SchedInv
<1>5. << >> \in Seq(Requests) /\ Len(<< >>) = 0
  BY EmptySeq
<1>6. SchedTypeOK'
  <2>1. CASE Begin
    BY <1>3, <1>4, <2>1, SchedulerAssumption DEF SchedTypeOK, Begin
  <2>2. CASE EndAdmission
    BY <1>3, <1>4, <2>2 DEF SchedTypeOK, EndAdmission, loop
  <2>3. CASE EndReadmission
    <3>1. 1 \in 1..(MaxActive + 1)
      BY SchedulerAssumption
    <3> QED
      BY <1>3, <1>4, <1>5, <2>3, <3>1 DEF SchedTypeOK, EndReadmission
  <2> QED
    BY <2>1, <2>2, <2>3
<1>7. BatchInv'
  <2>1. CASE Begin \/ EndAdmission
    BY <1>3, <1>4, <2>1 DEF BatchInv, Begin, EndAdmission
  <2>2. CASE EndReadmission
    <3>1. pc = "readmit" /\ pc' = "batch" /\ cursor' = 1 /\ remaining' = << >>
      BY <2>2 DEF EndReadmission
    <3>2. \A r \in Elements(active) : request[r].phase # "finished"
      BY <1>4, <3>1 DEF BatchInv
    <3>3. /\ Len(active) \in Nat /\ DOMAIN active = 1..Len(active)
          /\ \A i \in DOMAIN active : active[i] \in Elements(active)
      BY InvParts
    <3>4. Distinct(remaining') /\ Elements(remaining') = {} /\ Len(remaining') = 0
      BY <1>5, <3>1, NoElements
    <3>5. /\ cursor' <= Len(active) + 1 /\ Len(remaining') < cursor'
          /\ \A i \in DOMAIN active : ~(i < cursor')
      BY <3>1, <3>3, <3>4
    <3> QED
      BY <1>3, <3>1, <3>2, <3>3, <3>4, <3>5 DEF BatchInv
  <2> QED
    BY <2>1, <2>2
<1>8. StepNeverRaises'
  BY DEF StepNeverRaises, Begin, EndAdmission, EndReadmission
<1> QED
  BY <1>2, <1>6, <1>7, <1>8, InvOfNext

LEMMA SubmitKeeps ==
    ASSUME SchedInv, NEW r \in Requests, NEW prompt \in Prompts, NEW output \in Outputs,
           Submit(r, prompt, output)
    PROVE  SchedInv'
<1> DEFINE s == Submitted("waiting", prompt, output)
<1>1. /\ pc = "idle" /\ request[r].phase = "absent"
      /\ prompt + output - 1 <= Capacity /\ Len(waiting) < QueueCapacity
      /\ request' = [request EXCEPT ![r] = s]
      /\ waiting' = Append(waiting, r)
      /\ pc' = pc /\ active' = active /\ preempted' = preempted
      /\ kv' = kv /\ reservations' = reservations
      /\ cursor' = cursor /\ remaining' = remaining /\ spent' = spent
  BY DEF Submit, caches, loop
<1>2. /\ SchedTypeOK /\ Lines /\ BatchInv /\ Sound(kv) /\ Sound(reservations)
  BY DEF SchedInv
<1>3. /\ request \in [Requests -> State]
      /\ \A u \in Requests : request[u] \in State /\ RowFits(request[u])
      /\ waiting \in Seq(Requests) /\ Len(waiting) \in Nat
      /\ Elements(active) \subseteq Requests /\ Elements(waiting) \subseteq Requests
      /\ \A u \in Requests : Entitled(u, u \in Elements(active))
      /\ QueueCapacity \in Nat
  BY InvParts
<1>4. prompt \in Nat /\ output \in Nat /\ prompt >= 1 /\ output >= 1
  BY SchedulerAssumption
<1>5. /\ s.phase = "waiting" /\ s.prompt = prompt /\ s.output = output
      /\ s.generated = 0 /\ s.prefilled = 0 /\ s.target = prompt
      /\ s.recomputing = FALSE /\ s \in State
  BY <1>4 DEF Submitted, State
<1> HIDE DEF s
<1>6. RowFits(s)
  BY <1>1, <1>4, <1>5 DEF RowFits
<1>7. /\ request'[r] = s /\ request' \in [Requests -> State]
      /\ \A u \in Requests \ {r} : request'[u] = request[u]
  BY <1>1, <1>3, <1>5
<1>8. /\ r \notin Elements(waiting) /\ r \notin Elements(active)
      /\ r \notin Elements(preempted)
  BY <1>1, <1>2 DEF Lines
<1>9. /\ waiting' \in Seq(Requests) /\ Len(waiting') = Len(waiting) + 1
      /\ Elements(waiting') = Elements(waiting) \cup {r}
      /\ Distinct(waiting')
  BY <1>1, <1>2, <1>3, <1>8, AppendElements DEF Lines
<1>10. SchedTypeOK'
  BY <1>1, <1>2, <1>3, <1>7, <1>9 DEF SchedTypeOK
<1>11. Rows'
  BY <1>3, <1>6, <1>7 DEF Rows
<1>12. Lines'
  <2>1. /\ \A u \in Elements(waiting) : request[u].phase = "waiting" /\ u \in Requests /\ u # r
        /\ \A u \in Elements(active) : /\ request[u].phase \in {"prefill", "decode", "finished"}
                                       /\ u \in Requests /\ u # r
        /\ \A u \in Elements(preempted) :
             request[u].phase = "prefill" /\ request[u].prefilled = 0 /\ u # r
        /\ Distinct(active) /\ Distinct(preempted)
        /\ Elements(preempted) \cap Elements(active) = {}
    BY <1>2, <1>3, <1>8 DEF Lines
  <2>2. Elements(preempted) \subseteq Requests
    BY <1>2, ElementOfSeq, LenProperties DEF SchedTypeOK, Elements
  <2>3. \A u \in Elements(waiting') : request'[u].phase = "waiting"
    BY <1>5, <1>7, <1>9, <2>1
  <2>4. \A u \in Elements(active) : request'[u].phase \in {"prefill", "decode", "finished"}
    BY <1>7, <2>1
  <2>5. \A u \in Elements(preempted) :
          request'[u].phase = "prefill" /\ request'[u].prefilled = 0
    BY <1>7, <2>1, <2>2
  <2> QED
    BY <1>1, <1>9, <2>1, <2>3, <2>4, <2>5 DEF Lines
<1>13. BatchInv'
  <2>1. \A u \in Elements(active) : u \in Requests /\ u # r /\ request[u].phase # "finished"
    BY <1>1, <1>2, <1>3, <1>8 DEF BatchInv
  <2> QED
    BY <1>1, <1>7, <2>1 DEF BatchInv
<1>14. Sound(kv') /\ Sound(reservations')
  BY <1>1, <1>2
<1>15. ASSUME NEW u \in Requests PROVE Entitled(u, u \in Elements(active))'
  BY <1>1, <1>3, <1>7, <1>8 DEF Entitled
<1>16. StepNeverRaises'
  BY <1>1 DEF StepNeverRaises
<1> QED
  BY <1>10, <1>11, <1>12, <1>13, <1>14, <1>15, <1>16, InvOfNext

\* preempt, whoever calls it, while no batch is running.
LEMMA PreemptKeeps ==
    ASSUME SchedInv, NEW p \in DOMAIN active, Preempt(p), pc \in {"idle", "admit"},
           UNCHANGED <<pc, waiting, loop>>
    PROVE  SchedInv'
<1> DEFINE r == active[p]
           s == request[r]
           t == ForRecompute(s)
<1>1. /\ s.phase = "decode"
      /\ request' = [request EXCEPT ![r] = t]
      /\ kv' = Release(kv, r) /\ reservations' = Release(reservations, r)
      /\ active' = RemoveAt(active, p)
      /\ preempted' = Append(preempted, r)
      /\ pc' = pc /\ waiting' = waiting
      /\ cursor' = cursor /\ remaining' = remaining /\ spent' = spent
  BY DEF Preempt, loop
<1>2. /\ SchedTypeOK /\ Lines /\ BatchInv /\ Sound(kv) /\ Sound(reservations)
  BY DEF SchedInv
<1>3. /\ request \in [Requests -> State]
      /\ \A u \in Requests : request[u] \in State /\ RowFits(request[u])
      /\ active \in Seq(Requests) /\ Len(active) \in Nat /\ preempted \in Seq(Requests)
      /\ r \in Requests /\ r \in Elements(active)
      /\ Elements(active) \subseteq Requests /\ Elements(waiting) \subseteq Requests
      /\ \A u \in Requests : Entitled(u, u \in Elements(active))
      /\ MaxActive \in Nat
  BY InvParts
<1>4. /\ Distinct(waiting) /\ Distinct(active) /\ Distinct(preempted)
      /\ \A u \in Elements(waiting) : request[u].phase = "waiting"
      /\ \A u \in Elements(active) : request[u].phase \in {"prefill", "decode", "finished"}
      /\ \A u \in Elements(preempted) :
           request[u].phase = "prefill" /\ request[u].prefilled = 0
      /\ Elements(preempted) \cap Elements(active) = {}
  BY <1>2 DEF Lines
<1>5. s \in State /\ RowFits(s)
  BY <1>3
<1> HIDE DEF s
<1>6. /\ t \in State /\ RowFits(t) /\ t.phase = "prefill" /\ t.prefilled = 0
      /\ t.prompt = s.prompt /\ t.output = s.output
  BY <1>1, <1>5, RecomputeRow
<1> HIDE DEF t
<1>7. /\ request'[r] = t /\ request' \in [Requests -> State]
      /\ \A u \in Requests \ {r} : request'[u] = request[u]
  BY <1>1, <1>3, <1>6
<1>8. /\ active' \in Seq(Requests) /\ Len(active') = Len(active) - 1
      /\ Elements(active') = Elements(active) \ {r}
      /\ Distinct(active')
  BY <1>1, <1>3, <1>4, RemoveAtElements
<1>9. /\ preempted' \in Seq(Requests)
      /\ Elements(preempted') = Elements(preempted) \cup {r}
      /\ Distinct(preempted')
  <2>1. r \notin Elements(preempted)
    BY <1>3, <1>4
  <2> QED
    BY <1>1, <1>3, <1>4, <2>1, AppendElements
<1>10. /\ Sound(kv') /\ kv' \in Cache /\ kv'.tokens[r] = 0
       /\ \A u \in Requests \ {r} : kv'.tokens[u] = kv.tokens[u]
       /\ Sound(reservations') /\ reservations' \in Cache /\ reservations'.tokens[r] = 0
       /\ \A u \in Requests \ {r} : reservations'.tokens[u] = reservations.tokens[u]
  BY <1>1, <1>2, <1>3, ReleaseOf
<1> HIDE DEF r
<1>11. SchedTypeOK'
  BY <1>1, <1>2, <1>3, <1>7, <1>8, <1>9, <1>10 DEF SchedTypeOK
<1>12. Rows'
  BY <1>3, <1>6, <1>7 DEF Rows
<1>13. Lines'
  <2>1. Elements(preempted) \subseteq Requests
    BY <1>3, ElementOfSeq, LenProperties DEF Elements
  <2>2. \A u \in Elements(waiting) : u # r
    BY <1>1, <1>4 DEF s
  <2>3. \A u \in Elements(waiting) : request'[u].phase = "waiting"
    BY <1>3, <1>4, <1>7, <2>2
  <2>4. \A u \in Elements(active') : request'[u].phase \in {"prefill", "decode", "finished"}
    BY <1>3, <1>4, <1>7, <1>8
  <2>5. \A u \in Elements(preempted') :
          request'[u].phase = "prefill" /\ request'[u].prefilled = 0
    BY <1>4, <1>6, <1>7, <1>9, <2>1
  <2>6. Elements(preempted') \cap Elements(active') = {}
    BY <1>4, <1>8, <1>9
  <2> QED
    BY <1>1, <1>4, <1>8, <1>9, <2>3, <2>4, <2>5, <2>6 DEF Lines
<1>14. BatchInv'
  <2>1. \A u \in Elements(active) : request[u].phase # "finished"
    BY <1>2 DEF BatchInv
  <2>2. \A u \in Elements(active') : request'[u].phase # "finished"
    BY <1>3, <1>7, <1>8, <2>1
  <2> QED
    BY <1>1, <2>2 DEF BatchInv
<1>15. ASSUME NEW u \in Requests PROVE Entitled(u, u \in Elements(active))'
  <2>1. CASE u = r
    BY <1>8, <1>10, <2>1 DEF Entitled
  <2>2. CASE u # r
    BY <1>3, <1>7, <1>8, <1>10, <2>2 DEF Entitled
  <2> QED
    BY <2>1, <2>2
<1>16. StepNeverRaises'
  BY <1>1 DEF StepNeverRaises
<1> QED
  BY <1>10, <1>11, <1>12, <1>13, <1>14, <1>15, <1>16, InvOfNext

\* The head of a queue becomes active, with its whole reservation and nothing
\* written: what Admit and Readmit have in common.
LEMMA ActivateKeeps ==
    ASSUME SchedInv, NEW r \in Requests, Activate(r),
           Fits(reservations, r, Required(r)), Len(active) < MaxActive,
           r \notin Elements(active),
           request[r].phase \in {"waiting", "prefill"}, request[r].prefilled = 0,
           pc \in {"admit", "readmit"}, UNCHANGED <<pc, kv, loop>>,
           request' = [request EXCEPT ![r].phase = "prefill"],
           waiting' \in Seq(Requests), Len(waiting') <= QueueCapacity,
           Distinct(waiting'), Elements(waiting') = Elements(waiting) \ {r},
           preempted' \in Seq(Requests),
           Distinct(preempted'), Elements(preempted') = Elements(preempted) \ {r}
    PROVE  SchedInv'
<1> DEFINE s == request[r]
           t == [s EXCEPT !.phase = "prefill"]
<1>1. /\ request' = [request EXCEPT ![r] = t]
      /\ reservations' = AppendTokens(reservations, r, Required(r))
      /\ active' = Append(active, r)
      /\ pc' = pc /\ kv' = kv
      /\ cursor' = cursor /\ remaining' = remaining /\ spent' = spent
  BY DEF Activate, loop
<1>2. /\ SchedTypeOK /\ Lines /\ BatchInv /\ Sound(kv) /\ Sound(reservations)
  BY DEF SchedInv
<1>3. /\ request \in [Requests -> State]
      /\ \A u \in Requests : request[u] \in State /\ RowFits(request[u])
      /\ active \in Seq(Requests) /\ Len(active) \in Nat
      /\ Elements(active) \subseteq Requests /\ Elements(waiting) \subseteq Requests
      /\ \A u \in Requests : Entitled(u, u \in Elements(active))
      /\ MaxActive \in Nat
  BY InvParts
<1>4. /\ Distinct(active)
      /\ \A u \in Elements(waiting) : request[u].phase = "waiting"
      /\ \A u \in Elements(active) : request[u].phase \in {"prefill", "decode", "finished"}
      /\ \A u \in Elements(preempted) :
           request[u].phase = "prefill" /\ request[u].prefilled = 0
      /\ Elements(preempted) \cap Elements(active) = {}
  BY <1>2 DEF Lines
<1>5. s \in State /\ RowFits(s) /\ s.phase \in {"waiting", "prefill"} /\ s.prefilled = 0
  BY <1>3
<1>r. Required(r) = s.prompt + s.output - 1
  BY DEF Required
<1> HIDE DEF s
<1>6. /\ s.prompt \in Nat /\ s.output \in Nat /\ s.prompt >= 1 /\ s.output >= 1
      /\ s.target \in Nat
  BY <1>5 DEF State, RowFits
<1>7. /\ t \in State /\ t.phase = "prefill" /\ t.prompt = s.prompt /\ t.output = s.output
      /\ t.generated = s.generated /\ t.prefilled = 0 /\ t.target = s.target
      /\ t.recomputing = s.recomputing
  BY <1>5 DEF State
<1> HIDE DEF t
<1>8. RowFits(t)
  <2>1. CASE s.phase = "waiting"
    BY <1>5, <1>6, <1>7, <2>1 DEF RowFits
  <2>2. CASE s.phase = "prefill"
    BY <1>5, <1>6, <1>7, <2>2 DEF RowFits
  <2> QED
    BY <1>5, <2>1, <2>2
<1>9. /\ request'[r] = t /\ request' \in [Requests -> State]
      /\ \A u \in Requests \ {r} : request'[u] = request[u]
  BY <1>1, <1>3, <1>7
<1>10. /\ active' \in Seq(Requests) /\ Len(active') = Len(active) + 1
       /\ Elements(active') = Elements(active) \cup {r}
       /\ Distinct(active')
  BY <1>1, <1>3, <1>4, AppendElements
<1>11. kv.tokens[r] = 0 /\ reservations.tokens[r] = 0
  BY <1>3 DEF Entitled
<1>12. /\ Sound(reservations') /\ reservations' \in Cache
       /\ reservations'.tokens[r] = s.prompt + s.output - 1
       /\ \A u \in Requests \ {r} : reservations'.tokens[u] = reservations.tokens[u]
  <2>1. Required(r) \in Nat
    BY <1>6, <1>r
  <2> QED
    BY <1>1, <1>2, <1>11, <1>r, <2>1, AppendTo
<1>13. SchedTypeOK'
  BY <1>1, <1>2, <1>3, <1>9, <1>10, <1>12 DEF SchedTypeOK
<1>14. Rows'
  BY <1>3, <1>8, <1>9 DEF Rows
<1>15. Lines'
  <2>1. Elements(preempted) \subseteq Requests
    BY <1>2, ElementOfSeq, LenProperties DEF Elements, SchedTypeOK
  <2>2. \A u \in Elements(waiting') : request'[u].phase = "waiting"
    BY <1>3, <1>4, <1>9
  <2>3. \A u \in Elements(active') : request'[u].phase \in {"prefill", "decode", "finished"}
    BY <1>3, <1>4, <1>7, <1>9, <1>10
  <2>4. \A u \in Elements(preempted') :
          request'[u].phase = "prefill" /\ request'[u].prefilled = 0
    BY <1>4, <1>9, <2>1
  <2>5. Elements(preempted') \cap Elements(active') = {}
    BY <1>4, <1>10
  <2> QED
    BY <1>10, <2>2, <2>3, <2>4, <2>5 DEF Lines
<1>16. BatchInv'
  <2>1. \A u \in Elements(active) : request[u].phase # "finished"
    BY <1>2 DEF BatchInv
  <2>2. \A u \in Elements(active') : request'[u].phase # "finished"
    BY <1>3, <1>7, <1>9, <1>10, <2>1
  <2> QED
    BY <1>1, <2>2 DEF BatchInv
<1>17. ASSUME NEW u \in Requests PROVE Entitled(u, u \in Elements(active))'
  <2>1. CASE u = r
    <3>1. /\ kv'.tokens[u] = 0 /\ Written(request'[u]) = 0
          /\ request'[u].phase # "finished" /\ u \in Elements(active')
          /\ reservations'.tokens[u] = request'[u].prompt + request'[u].output - 1
      BY <1>1, <1>7, <1>9, <1>10, <1>11, <1>12, <2>1 DEF Written
    <3> QED
      BY <3>1 DEF Entitled
  <2>2. CASE u # r
    BY <1>1, <1>3, <1>9, <1>10, <1>12, <2>2 DEF Entitled
  <2> QED
    BY <2>1, <2>2
<1>18. StepNeverRaises'
  BY <1>1 DEF StepNeverRaises
<1> QED
  BY <1>1, <1>2, <1>12, <1>13, <1>14, <1>15, <1>16, <1>17, <1>18, InvOfNext

LEMMA AdmitKeeps == ASSUME SchedInv, Admit PROVE SchedInv'
<1> DEFINE r == Head(waiting)
<1>1. /\ pc = "admit" /\ Len(active) < MaxActive /\ waiting # << >>
      /\ Fits(reservations, r, Required(r))
      /\ Activate(r) /\ waiting' = Tail(waiting)
      /\ request' = [request EXCEPT ![r].phase = "prefill"]
      /\ pc' = pc /\ preempted' = preempted /\ UNCHANGED <<pc, kv, loop>>
  BY DEF Admit, MayAdmit, HeadFits
<1>2. SchedTypeOK /\ Lines
  BY DEF SchedInv
<1>3. /\ waiting \in Seq(Requests) /\ Len(waiting) \in Nat /\ QueueCapacity \in Nat
      /\ \A u \in Requests : request[u] \in State /\ RowFits(request[u])
      /\ Len(waiting) <= QueueCapacity /\ preempted \in Seq(Requests)
  BY <1>2, InvParts DEF SchedTypeOK
<1>4. /\ r \in Requests /\ r \in Elements(waiting)
      /\ Tail(waiting) \in Seq(Requests) /\ Len(Tail(waiting)) = Len(waiting) - 1
      /\ Elements(Tail(waiting)) = Elements(waiting) \ {r}
      /\ Distinct(Tail(waiting))
  BY <1>1, <1>2, <1>3, TailElements DEF Lines
<1> HIDE DEF r
<1>5. /\ request[r].phase = "waiting" /\ request[r].prefilled = 0
      /\ r \notin Elements(active) /\ r \notin Elements(preempted)
      /\ Distinct(preempted)
  BY <1>2, <1>3, <1>4 DEF Lines, RowFits
<1>6. Len(waiting') <= QueueCapacity
  BY <1>1, <1>3, <1>4
<1> QED
  BY <1>1, <1>3, <1>4, <1>5, <1>6, ActivateKeeps

LEMMA ReadmitKeeps == ASSUME SchedInv, Readmit PROVE SchedInv'
<1> DEFINE r == Head(preempted)
<1>1. /\ pc = "readmit" /\ Len(active) < MaxActive /\ preempted # << >>
      /\ Fits(reservations, r, Required(r))
      /\ Activate(r) /\ preempted' = Tail(preempted)
      /\ request' = request /\ waiting' = waiting /\ UNCHANGED <<pc, kv, loop>>
  BY DEF Readmit, MayReadmit
<1>2. SchedTypeOK /\ Lines
  BY DEF SchedInv
<1>3. /\ preempted \in Seq(Requests) /\ waiting \in Seq(Requests)
      /\ Len(waiting) <= QueueCapacity
      /\ request \in [Requests -> State]
  BY <1>2, InvParts DEF SchedTypeOK
<1>4. /\ r \in Requests /\ r \in Elements(preempted)
      /\ Tail(preempted) \in Seq(Requests)
      /\ Elements(Tail(preempted)) = Elements(preempted) \ {r}
      /\ Distinct(Tail(preempted))
  BY <1>1, <1>2, <1>3, TailElements DEF Lines
<1> HIDE DEF r
<1>5. /\ request[r].phase = "prefill" /\ request[r].prefilled = 0
      /\ r \notin Elements(active) /\ r \notin Elements(waiting)
      /\ Distinct(waiting)
  BY <1>2, <1>4 DEF Lines
<1>6. request' = [request EXCEPT ![r].phase = "prefill"]
  <2>1. request[r] \in State
    BY <1>3, <1>4
  <2>2. [request[r] EXCEPT !.phase = "prefill"] = request[r]
    BY <1>5, <2>1 DEF State
  <2>3. [request EXCEPT ![r] = [request[r] EXCEPT !.phase = "prefill"]] = request
    BY <1>3, <1>4, <2>2
  <2> QED
    BY <1>1, <2>3
<1> QED
  BY <1>1, <1>3, <1>4, <1>5, <1>6, ActivateKeeps

LEMMA PassKeeps == ASSUME SchedInv, Pass PROVE SchedInv'
<1>1. /\ pc = "batch" /\ cursor \in DOMAIN active
      /\ cursor' = cursor + 1 /\ remaining' = Append(remaining, active[cursor])
      /\ pc' = pc /\ request' = request /\ spent' = spent
      /\ UNCHANGED <<request, queues, caches>>
  BY DEF Pass, InBatch, Current
<1>2. /\ Rows' /\ Lines' /\ Sound(kv)' /\ Sound(reservations)'
      /\ (\A r \in Requests : Entitled(r, r \in Elements(active)))'
  BY <1>1, SameRows
<1>3. waiting' = waiting /\ active' = active /\ preempted' = preempted
      /\ kv' = kv /\ reservations' = reservations
  BY <1>1 DEF queues, caches
<1>4. SchedTypeOK /\ BatchInv /\ Distinct(active)
  BY DEF SchedInv, Lines
<1>5. /\ Len(active) \in Nat /\ DOMAIN active = 1..Len(active) /\ MaxActive \in Nat
      /\ remaining \in Seq(Requests) /\ Len(remaining) \in Nat
      /\ active[cursor] \in Requests /\ Len(active) <= MaxActive
  BY <1>1, <1>4, InvParts DEF SchedTypeOK
<1>6. /\ cursor <= Len(active) + 1
      /\ \A i \in DOMAIN active : i >= cursor => request[active[i]].phase # "finished"
      /\ Distinct(remaining) /\ Len(remaining) < cursor
      /\ \A r \in Requests :
           r \in Elements(remaining) <=>
             /\ request[r].phase # "finished"
             /\ \E i \in DOMAIN active : i < cursor /\ active[i] = r
  BY <1>1, <1>4 DEF BatchInv
<1>7. cursor \in Nat /\ cursor + 1 <= Len(active) + 1 /\ cursor + 1 \in 1..(MaxActive + 1)
  BY <1>1, <1>5
<1>8. active[cursor] \notin Elements(remaining)
  <2> SUFFICES ASSUME active[cursor] \in Elements(remaining) PROVE FALSE
    OBVIOUS
  <2>1. PICK i \in DOMAIN active : i < cursor /\ active[i] = active[cursor]
    BY <1>5, <1>6
  <2>2. i = cursor
    BY <1>1, <1>4, <2>1 DEF Distinct
  <2> QED
    BY <1>7, <2>1, <2>2
<1>9. /\ remaining' \in Seq(Requests) /\ Len(remaining') = Len(remaining) + 1
      /\ Elements(remaining') = Elements(remaining) \cup {active[cursor]}
      /\ Distinct(remaining')
  BY <1>1, <1>5, <1>6, <1>8, AppendElements
<1>10. SchedTypeOK'
  BY <1>1, <1>3, <1>4, <1>7, <1>9 DEF SchedTypeOK
<1>11. BatchInv'
  <2>1. \A i \in DOMAIN active : i >= cursor + 1 => request[active[i]].phase # "finished"
    BY <1>5, <1>6, <1>7
  <2>2. Len(remaining') < cursor + 1
    BY <1>5, <1>6, <1>7, <1>9
  <2>3. ASSUME NEW r \in Requests
        PROVE  r \in Elements(remaining') <=>
                 /\ request[r].phase # "finished"
                 /\ \E i \in DOMAIN active : i < cursor + 1 /\ active[i] = r
    <3>1. (\E i \in DOMAIN active : i < cursor + 1 /\ active[i] = r)
            <=> \/ \E i \in DOMAIN active : i < cursor /\ active[i] = r
                \/ r = active[cursor]
      BY <1>1, <1>5, <1>7
    <3>2. request[active[cursor]].phase # "finished"
      BY <1>1, <1>6, <1>7
    <3> QED
      BY <1>6, <1>9, <3>1, <3>2
  <2> QED
    BY <1>1, <1>3, <1>7, <1>9, <2>1, <2>2, <2>3 DEF BatchInv
<1>12. StepNeverRaises'
  BY <1>1 DEF StepNeverRaises
<1> QED
  BY <1>2, <1>10, <1>11, <1>12, InvOfNext

LEMMA EndKeeps == ASSUME SchedInv, End PROVE SchedInv'
<1>1. /\ pc = "batch" /\ cursor = Len(active) + 1
      /\ active' = remaining /\ pc' = "idle" /\ cursor' = 1 /\ remaining' = << >>
      /\ request' = request /\ waiting' = waiting /\ preempted' = preempted
      /\ kv' = kv /\ reservations' = reservations /\ spent' = spent
  BY DEF End, caches
<1>2. /\ SchedTypeOK /\ Rows /\ Lines /\ BatchInv /\ Sound(kv) /\ Sound(reservations)
  BY DEF SchedInv
<1>3. /\ Len(active) \in Nat /\ DOMAIN active = 1..Len(active) /\ MaxActive \in Nat
      /\ remaining \in Seq(Requests) /\ Len(remaining) \in Nat
      /\ Elements(active) \subseteq Requests
      /\ \A u \in Requests : Entitled(u, u \in Elements(active))
      /\ Len(active) <= MaxActive
  BY <1>2, InvParts DEF SchedTypeOK
<1>4. /\ Distinct(remaining) /\ Len(remaining) < cursor
      /\ \A r \in Requests :
           r \in Elements(remaining) <=>
             /\ request[r].phase # "finished"
             /\ \E i \in DOMAIN active : i < cursor /\ active[i] = r
  BY <1>1, <1>2 DEF BatchInv
<1>5. ASSUME NEW r \in Requests
      PROVE  r \in Elements(remaining) <=> /\ request[r].phase # "finished"
                                           /\ r \in Elements(active)
  <2>1. \A i \in DOMAIN active : i < cursor
    BY <1>1, <1>3
  <2> QED
    BY <1>4, <2>1 DEF Elements
<1>6. Elements(remaining) \subseteq Requests
  BY <1>3, ElementOfSeq, LenProperties DEF Elements
<1>7. << >> \in Seq(Requests)
  BY EmptySeq
<1>8. SchedTypeOK'
  <2>1. 1 \in 1..(MaxActive + 1) /\ Len(remaining) <= MaxActive
    BY <1>1, <1>3, <1>4, SchedulerAssumption
  <2> QED
    BY <1>1, <1>2, <1>3, <1>7, <2>1 DEF SchedTypeOK
<1>9. Rows'
  BY <1>1, <1>2 DEF Rows
<1>10. Lines'
  <2>1. Elements(remaining) \subseteq Elements(active)
    BY <1>5, <1>6
  <2> QED
    BY <1>1, <1>2, <1>4, <2>1 DEF Lines
<1>11. BatchInv'
  BY <1>1, <1>5, <1>6 DEF BatchInv
<1>12. ASSUME NEW u \in Requests PROVE Entitled(u, u \in Elements(active))'
  BY <1>1, <1>3, <1>5 DEF Entitled
<1>13. StepNeverRaises'
  BY <1>1 DEF StepNeverRaises
<1>14. Sound(kv') /\ Sound(reservations')
  BY <1>1, <1>2
<1> QED
  BY <1>8, <1>9, <1>10, <1>11, <1>12, <1>13, <1>14, InvOfNext

\* The turn of the batch loop that serves a request: it always finds room.
LEMMA ServeKeeps == ASSUME SchedInv, Serve PROVE SchedInv'
<1> DEFINE r == active[cursor]
           s == request[r]
           n == Planned(s)
           t == Ran(s)
           done == t.phase = "finished"
           written == AppendTokens(kv, r, n)
<1>1. /\ pc = "batch" /\ cursor \in DOMAIN active /\ Budget > 0
      /\ waiting' = waiting /\ active' = active /\ preempted' = preempted
  BY DEF Serve, InBatch, queues
<1>2. /\ SchedTypeOK /\ Lines /\ BatchInv /\ Sound(kv) /\ Sound(reservations)
  BY DEF SchedInv
<1>3. /\ request \in [Requests -> State]
      /\ \A u \in Requests : request[u] \in State /\ RowFits(request[u])
      /\ Len(active) \in Nat /\ DOMAIN active = 1..Len(active) /\ MaxActive \in Nat
      /\ r \in Requests /\ r \in Elements(active)
      /\ remaining \in Seq(Requests) /\ Len(remaining) \in Nat
      /\ Elements(active) \subseteq Requests /\ Elements(waiting) \subseteq Requests
      /\ \A u \in Requests : Entitled(u, u \in Elements(active))
      /\ Len(active) <= MaxActive
  BY <1>1, <1>2, InvParts DEF SchedTypeOK
<1>4. /\ Distinct(waiting) /\ Distinct(active) /\ Distinct(preempted)
      /\ \A u \in Elements(waiting) : request[u].phase = "waiting"
      /\ \A u \in Elements(active) : request[u].phase \in {"prefill", "decode", "finished"}
      /\ \A u \in Elements(preempted) :
           request[u].phase = "prefill" /\ request[u].prefilled = 0
      /\ Elements(preempted) \cap Elements(active) = {}
  BY <1>2 DEF Lines
<1>5. /\ cursor <= Len(active) + 1
      /\ \A i \in DOMAIN active : i >= cursor => request[active[i]].phase # "finished"
      /\ Distinct(remaining) /\ Len(remaining) < cursor
      /\ \A u \in Requests :
           u \in Elements(remaining) <=>
             /\ request[u].phase # "finished"
             /\ \E i \in DOMAIN active : i < cursor /\ active[i] = u
  BY <1>1, <1>2 DEF BatchInv
<1>6. cursor \in Nat /\ cursor + 1 <= Len(active) + 1 /\ cursor + 1 \in 1..(MaxActive + 1)
  BY <1>1, <1>3
<1>7. \A i \in DOMAIN active : active[i] = r => i = cursor
  BY <1>1, <1>4 DEF Distinct
<1>8. s \in State /\ RowFits(s) /\ s.phase \in {"prefill", "decode"}
  <2>1. s.phase # "finished"
    BY <1>1, <1>5, <1>6
  <2> QED
    BY <1>3, <1>4, <2>1
<1>9. /\ n \in Nat /\ 1 <= n /\ spent + n \in 0..MaxBatchTokens
      /\ t \in State /\ RowFits(t)
      /\ t.phase \in {"prefill", "decode", "finished"}
      /\ t.prompt = s.prompt /\ t.output = s.output
      /\ ~done => Written(t) = Written(s) + n
      /\ Written(s) + n <= s.prompt + s.output - 1
  <2>1. spent \in 0..MaxBatchTokens
    BY <1>2 DEF SchedTypeOK
  <2> QED
    BY <1>1, <1>8, <2>1, RanRow
<1>10. /\ kv.tokens[r] = Written(s)
       /\ reservations.tokens[r] = s.prompt + s.output - 1
       /\ s.prompt + s.output - 1 <= Capacity
  BY <1>3, <1>8 DEF Entitled, RowFits
<1>11. Fits(kv, r, n)
  <2>1. \A u \in Requests : kv.tokens[u] <= reservations.tokens[u]
    BY DEF SchedInv, CacheMatchesProgress
  <2>2. n >= 1
    BY <1>9
  <2> QED
    BY <1>2, <1>3, <1>9, <1>10, <2>1, <2>2, ReservedFits
<1>12. /\ request' = [request EXCEPT ![r] = t]
       /\ kv' = LeftIn(written, r, t)
       /\ reservations' = LeftIn(reservations, r, t)
       /\ spent' = spent + n /\ cursor' = cursor + 1
       /\ remaining' = IF done THEN remaining ELSE Append(remaining, r)
       /\ pc' = pc
  BY <1>11 DEF Serve, Current
<1> HIDE DEF r, s, n, t
<1>13. /\ Sound(written) /\ written \in Cache
       /\ written.tokens[r] = kv.tokens[r] + n
       /\ \A u \in Requests \ {r} : written.tokens[u] = kv.tokens[u]
  BY <1>2, <1>3, <1>9, <1>11, AppendTo
<1> HIDE DEF written
<1>14. /\ Sound(kv') /\ kv' \in Cache
       /\ kv'.tokens[r] = IF done THEN 0 ELSE Written(t)
       /\ \A u \in Requests \ {r} : kv'.tokens[u] = kv.tokens[u]
       /\ Sound(reservations') /\ reservations' \in Cache
       /\ reservations'.tokens[r] = IF done THEN 0 ELSE s.prompt + s.output - 1
       /\ \A u \in Requests \ {r} : reservations'.tokens[u] = reservations.tokens[u]
  <2>1. CASE done
    <3>1. kv' = Release(written, r) /\ reservations' = Release(reservations, r)
      BY <1>12, <2>1 DEF LeftIn
    <3>2. /\ Sound(kv') /\ kv' \in Cache /\ kv'.tokens[r] = 0
          /\ \A u \in Requests \ {r} : kv'.tokens[u] = written.tokens[u]
      BY <1>3, <1>13, <3>1, ReleaseOf
    <3>3. /\ Sound(reservations') /\ reservations' \in Cache
          /\ reservations'.tokens[r] = 0
          /\ \A u \in Requests \ {r} : reservations'.tokens[u] = reservations.tokens[u]
      BY <1>2, <1>3, <3>1, ReleaseOf
    <3> QED
      BY <1>13, <2>1, <3>2, <3>3
  <2>2. CASE ~done
    <3>1. kv' = written /\ reservations' = reservations
      BY <1>12, <2>2 DEF LeftIn
    <3> QED
      BY <1>2, <1>9, <1>10, <1>13, <2>2, <3>1 DEF Sound
  <2> QED
    BY <2>1, <2>2
<1>15. /\ request'[r] = t /\ request' \in [Requests -> State]
       /\ \A u \in Requests \ {r} : request'[u] = request[u]
  BY <1>3, <1>9, <1>12
<1>16. r \notin Elements(remaining)
  BY <1>3, <1>5, <1>6, <1>7
<1>17. /\ remaining' \in Seq(Requests) /\ Len(remaining') <= Len(remaining) + 1
       /\ Len(remaining') \in Nat
       /\ Elements(remaining') = IF done THEN Elements(remaining)
                                         ELSE Elements(remaining) \cup {r}
       /\ Distinct(remaining')
  <2>1. /\ Append(remaining, r) \in Seq(Requests)
        /\ Len(Append(remaining, r)) = Len(remaining) + 1
        /\ Elements(Append(remaining, r)) = Elements(remaining) \cup {r}
        /\ Distinct(Append(remaining, r))
    BY <1>3, <1>5, <1>16, AppendElements
  <2>2. CASE done
    BY <1>3, <1>5, <1>12, <2>2
  <2>3. CASE ~done
    BY <1>3, <1>12, <2>1, <2>3
  <2> QED
    BY <2>2, <2>3
<1> HIDE DEF done
<1>18. SchedTypeOK'
  BY <1>1, <1>2, <1>6, <1>9, <1>12, <1>14, <1>15, <1>17 DEF SchedTypeOK
<1>19. Rows'
  BY <1>3, <1>9, <1>15 DEF Rows
<1>20. Lines'
  <2>1. Elements(preempted) \subseteq Requests
    BY <1>2, ElementOfSeq, LenProperties DEF Elements, SchedTypeOK
  <2>2. r \notin Elements(waiting) /\ r \notin Elements(preempted)
    BY <1>3, <1>4, <1>8 DEF s
  <2>3. \A u \in Elements(waiting) : request'[u].phase = "waiting"
    BY <1>3, <1>4, <1>15, <2>2
  <2>4. \A u \in Elements(active) : request'[u].phase \in {"prefill", "decode", "finished"}
    BY <1>3, <1>4, <1>9, <1>15
  <2>5. \A u \in Elements(preempted) :
          request'[u].phase = "prefill" /\ request'[u].prefilled = 0
    BY <1>4, <1>15, <2>1, <2>2
  <2> QED
    BY <1>1, <1>4, <2>3, <2>4, <2>5 DEF Lines
<1>21. BatchInv'
  <2>1. ASSUME NEW i \in DOMAIN active, i >= cursor + 1
        PROVE  request'[active[i]].phase # "finished"
    <3>1. active[i] # r /\ i >= cursor
      BY <1>3, <1>6, <1>7, <2>1
    <3>2. active[i] \in Requests
      BY InvParts
    <3> QED
      BY <1>5, <1>15, <3>1, <3>2
  <2>2. Len(remaining') < cursor + 1
    BY <1>3, <1>5, <1>6, <1>17
  <2>3. ASSUME NEW u \in Requests
        PROVE  u \in Elements(remaining') <=>
                 /\ request'[u].phase # "finished"
                 /\ \E i \in DOMAIN active : i < cursor + 1 /\ active[i] = u
    <3>1. (\E i \in DOMAIN active : i < cursor + 1 /\ active[i] = u)
            <=> \/ \E i \in DOMAIN active : i < cursor /\ active[i] = u
                \/ u = r
      BY <1>1, <1>3, <1>6 DEF r
    <3>2. CASE u = r
      BY <1>15, <1>16, <1>17, <3>1, <3>2 DEF done
    <3>3. CASE u # r
      BY <1>5, <1>15, <1>17, <3>1, <3>3
    <3> QED
      BY <3>2, <3>3
  <2> QED
    BY <1>1, <1>6, <1>12, <1>17, <2>1, <2>2, <2>3 DEF BatchInv
<1>22. ASSUME NEW u \in Requests PROVE Entitled(u, u \in Elements(active))'
  <2>1. CASE u = r
    BY <1>1, <1>3, <1>9, <1>14, <1>15, <2>1 DEF Entitled, done
  <2>2. CASE u # r
    BY <1>1, <1>3, <1>14, <1>15, <2>2 DEF Entitled
  <2> QED
    BY <2>1, <2>2
<1>23. StepNeverRaises'
  BY <1>1, <1>12 DEF StepNeverRaises
<1> QED
  BY <1>14, <1>18, <1>19, <1>20, <1>21, <1>22, <1>23, InvOfNext

LEMMA StutterKeeps == ASSUME SchedInv, UNCHANGED vars PROVE SchedInv'
<1>1. UNCHANGED <<request, queues, caches>> /\ UNCHANGED <<pc, loop>>
  BY DEF vars
<1>2. /\ Rows' /\ Lines' /\ Sound(kv)' /\ Sound(reservations)'
      /\ (\A r \in Requests : Entitled(r, r \in Elements(active)))'
  BY <1>1, SameRows
<1>3. SchedTypeOK /\ BatchInv /\ StepNeverRaises
  BY DEF SchedInv
<1>4. /\ pc' = pc /\ request' = request /\ waiting' = waiting /\ active' = active
      /\ preempted' = preempted /\ kv' = kv /\ reservations' = reservations
      /\ cursor' = cursor /\ remaining' = remaining /\ spent' = spent
  BY <1>1 DEF queues, caches, loop
<1>5. SchedTypeOK' /\ BatchInv' /\ StepNeverRaises'
  BY <1>3, <1>4 DEF SchedTypeOK, BatchInv, StepNeverRaises
<1> QED
  BY <1>2, <1>5, InvOfNext

LEMMA NextKeeps == SchedInv /\ [Next]_vars => SchedInv'
<1> SUFFICES ASSUME SchedInv, [Next]_vars PROVE SchedInv'
  OBVIOUS
<1>1. CASE Begin \/ EndAdmission \/ EndReadmission
  BY <1>1, TurnsKeep
<1>2. CASE Admit
  BY <1>2, AdmitKeeps
<1>3. CASE PreemptForHead
  <2>1. PICK i \in Victims : Preempt(i)
    BY <1>3 DEF PreemptForHead
  <2>2. i \in DOMAIN active /\ pc = "admit" /\ UNCHANGED <<pc, waiting, loop>>
    BY <1>3 DEF PreemptForHead, Victims
  <2> QED
    BY <2>1, <2>2, PreemptKeeps
<1>4. CASE Readmit
  BY <1>4, ReadmitKeeps
<1>5. CASE Pass
  BY <1>5, PassKeeps
<1>6. CASE Serve
  BY <1>6, ServeKeeps
<1>7. CASE End
  BY <1>7, EndKeeps
<1>8. CASE \E i \in DOMAIN active : PreemptByCaller(i)
  <2>1. PICK i \in DOMAIN active : PreemptByCaller(i)
    BY <1>8
  <2>2. Preempt(i) /\ pc = "idle" /\ UNCHANGED <<pc, waiting, loop>>
    BY <2>1 DEF PreemptByCaller
  <2> QED
    BY <2>2, PreemptKeeps
<1>9. CASE \E r \in Requests, p \in Prompts, o \in Outputs : Submit(r, p, o)
  BY <1>9, SubmitKeeps
<1>10. CASE UNCHANGED vars
  BY <1>10, StutterKeeps
<1> QED
  BY <1>1, <1>2, <1>3, <1>4, <1>5, <1>6, <1>7, <1>8, <1>9, <1>10 DEF Next, Step

-----------------------------------------------------------------------------
(* The theorems.                                                           *)

LEMMA SchedInvHolds == Spec => []SchedInv
<1> QED
  BY InitHolds, NextKeeps, PTL DEF Spec

\* Every variable keeps its type: the queues stay within their capacities, and
\* a step writes no more than max_batch_tokens.
THEOREM SchedTypeHolds == Spec => []SchedTypeOK
<1>1. SchedInv => SchedTypeOK
  BY DEF SchedInv
<1> QED
  BY <1>1, SchedInvHolds, PTL

\* In the cache and in the reservations no block is lost, shared by two
\* requests or free while in use, whatever was admitted, preempted and released.
THEOREM BlocksPartitionedHolds == Spec => []BlocksPartitioned
<1>1. SchedInv => BlocksPartitioned
  BY SoundIsConsistent DEF SchedInv, BlocksPartitioned
<1> QED
  BY <1>1, SchedInvHolds, PTL

\* What is written of a request is what its next turn builds on, within its
\* reservation.
THEOREM CacheMatchesProgressHolds == Spec => []CacheMatchesProgress
<1>1. SchedInv => CacheMatchesProgress
  BY DEF SchedInv
<1> QED
  BY <1>1, SchedInvHolds, PTL

\* append_tokens never raises in the batch loop: the blocks reserved for all
\* the active requests are always there for the one that is served.
THEOREM StepNeverRaisesHolds == Spec => []StepNeverRaises
<1>1. SchedInv => StepNeverRaises
  BY DEF SchedInv
<1> QED
  BY <1>1, SchedInvHolds, PTL

\* A turn adds a token to a request or none, and a preemption takes none away.
LEMMA TurnKeepsOutput ==
    SchedInv /\ [Next]_vars
      => [\A r \in Requests :
            request[r].phase # "absent" =>
              /\ request'[r].generated \in {request[r].generated,
                                            request[r].generated + 1}
              /\ request'[r].generated <= request[r].output]_vars
<1> SUFFICES ASSUME SchedInv, Next, NEW r \in Requests, request[r].phase # "absent"
             PROVE  /\ request'[r].generated \in {request[r].generated,
                                                  request[r].generated + 1}
                    /\ request'[r].generated <= request[r].output
  OBVIOUS
<1> DEFINE s == request[r]
           Kept(t) == /\ t.generated \in {s.generated, s.generated + 1}
                      /\ t.output = s.output /\ t.phase # "absent"
<1>1. /\ request \in [Requests -> State]
      /\ \A u \in Requests : request[u] \in State /\ RowFits(request[u])
      /\ \A i \in DOMAIN active : active[i] \in Requests /\ active[i] \in Elements(active)
      /\ waiting \in Seq(Requests)
  BY InvParts
<1>2. s \in State /\ RowFits(s) /\ s.phase # "absent"
  BY <1>1
<1>3. request'[r] \in State /\ RowFits(request'[r])
  <2>1. SchedInv'
    BY NextKeeps
  <2> QED
    BY <2>1 DEF SchedInv, SchedTypeOK, Rows
<1>4. SUFFICES Kept(request'[r])
  <2>1. /\ request'[r].generated \in Nat /\ request'[r].output \in Nat
        /\ request'[r].phase \in {"absent", "waiting", "prefill", "decode", "finished"}
        /\ request'[r].recomputing \in BOOLEAN
    BY <1>3 DEF State
  <2>2. request'[r].phase # "absent" => request'[r].generated <= request'[r].output
    BY <1>3, <2>1 DEF RowFits
  <2> QED
    BY <1>4, <2>2
<1>5. request'[r] = s => Kept(request'[r])
  BY <1>2
\* A preemption.
<1>6. ASSUME NEW i \in DOMAIN active, Preempt(i) PROVE Kept(request'[r])
  <2>1. /\ active[i] \in Requests /\ request[active[i]].phase = "decode"
        /\ request' = [request EXCEPT ![active[i]] = ForRecompute(@)]
    BY <1>1, <1>6 DEF Preempt
  <2>2. CASE r = active[i]
    <3>1. request'[r] = ForRecompute(s) /\ s.phase = "decode"
      BY <1>1, <2>1, <2>2
    <3> HIDE DEF s
    <3> QED
      BY <1>2, <3>1, RecomputeRow
  <2>3. CASE r # active[i]
    BY <1>1, <1>5, <2>1, <2>3
  <2> QED
    BY <2>2, <2>3
<1>7. CASE Admit
  <2>1. request' = [request EXCEPT ![Head(waiting)].phase = "prefill"]
    BY <1>7 DEF Admit
  <2>2. \/ request'[r] = s
        \/ request'[r] = [s EXCEPT !.phase = "prefill"]
    BY <1>1, <2>1
  <2>3. Kept([s EXCEPT !.phase = "prefill"])
    BY <1>2 DEF State
  <2> QED
    BY <1>5, <2>2, <2>3
<1>8. CASE PreemptForHead
  <2>1. PICK i \in Victims : Preempt(i)
    BY <1>8 DEF PreemptForHead
  <2>2. i \in DOMAIN active
    BY DEF Victims
  <2> QED
    BY <1>6, <2>1, <2>2
<1>9. CASE Serve
  <2> DEFINE q == active[cursor]
  <2>1. /\ pc = "batch" /\ cursor \in DOMAIN active /\ Budget > 0
        /\ \/ request' = [request EXCEPT ![q] = Ran(request[q])]
           \/ request' = request
    BY <1>9 DEF Serve, InBatch, Current
  <2>2. /\ q \in Requests /\ request[q].phase \in {"prefill", "decode"}
        /\ spent \in 0..MaxBatchTokens
    <3>1. q \in Requests /\ q \in Elements(active)
      BY <1>1, <2>1
    <3>2. request[q].phase # "finished"
      <4>1. cursor \in Nat
        BY <2>1, InvParts
      <4> QED
        BY <2>1, <4>1 DEF SchedInv, BatchInv
    <3>3. request[q].phase \in {"prefill", "decode", "finished"}
      BY <3>1 DEF SchedInv, Lines
    <3> QED
      BY <3>1, <3>2, <3>3 DEF SchedInv, SchedTypeOK
  <2>3. CASE r = q /\ request' = [request EXCEPT ![q] = Ran(request[q])]
    <3>1. request'[r] = Ran(s) /\ s.phase \in {"prefill", "decode"}
      BY <1>1, <2>2, <2>3
    <3> HIDE DEF s
    <3>2. /\ Ran(s).generated \in {s.generated, s.generated + 1}
          /\ Ran(s).output = s.output
          /\ Ran(s).phase \in {"prefill", "decode", "finished"}
      BY <1>2, <2>1, <2>2, <3>1, RanRow
    <3> QED
      BY <3>1, <3>2
  <2>4. CASE r # q \/ request' = request
    BY <1>1, <1>5, <2>1, <2>4
  <2> QED
    BY <2>1, <2>3, <2>4
<1>10. CASE \E i \in DOMAIN active : PreemptByCaller(i)
  BY <1>6, <1>10 DEF PreemptByCaller
<1>11. CASE \E u \in Requests, p \in Prompts, o \in Outputs : Submit(u, p, o)
  <2>1. PICK u \in Requests, p \in Prompts, o \in Outputs : Submit(u, p, o)
    BY <1>11
  <2>2. u # r /\ request' = [request EXCEPT ![u] = Submitted("waiting", p, o)]
    BY <1>2, <2>1 DEF Submit
  <2> QED
    BY <1>1, <1>5, <2>2
<1>12. CASE Begin \/ EndAdmission \/ Readmit \/ EndReadmission \/ Pass \/ End
  BY <1>5, <1>12 DEF Begin, EndAdmission, Readmit, EndReadmission, Pass, End
<1> QED
  BY <1>7, <1>8, <1>9, <1>10, <1>11, <1>12 DEF Next, Step

\* Preemption and recompute keep the tokens generated so far, and nobody gets
\* more than max_new_tokens.
THEOREM OutputIsKeptHolds == Spec => OutputIsKept
<1> QED
  BY SchedInvHolds, TurnKeepsOutput, PTL DEF Spec, OutputIsKept
=============================================================================
