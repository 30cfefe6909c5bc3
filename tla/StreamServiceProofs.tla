------------------------- MODULE StreamServiceProofs -------------------------
(***************************************************************************)
(* Proofs about StreamService, for any number of requests, streams, tokens *)
(* and places in the queue: streams are requests as RequestLifecycle has   *)
(* them, their tokens arrive in order and none is lost, and the last       *)
(* message of a response is true.                                          *)
(***************************************************************************)
EXTENDS StreamService, RequestLifecycleProofs

-----------------------------------------------------------------------------
(* Tokens on their way: sent, in the hand of the sender, in the queue, and *)
(* waiting to be put into it.  Each place goes on counting where the one   *)
(* before it ends.                                                         *)

\* s goes on counting from n.
Placed(s, n) == \A i \in DOMAIN s : s[i] = n + i

Ordered(s, h, q, p) ==
    /\ Placed(s, 0)
    /\ Placed(h, Len(s))
    /\ Placed(q, Len(s) + Len(h))
    /\ Placed(p, Len(s) + Len(h) + Len(q))

Total(s, h, q, p) == Len(s) + Len(h) + Len(q) + Len(p)

LEMMA PlacedOne ==
    ASSUME NEW n \in Int, NEW token, token = n + 1
    PROVE  Placed(<<token>>, n)
BY DEF Placed

LEMMA PlacedJoin ==
    ASSUME NEW n \in Nat, NEW s \in Seq(Tokens), NEW u \in Seq(Tokens),
           Placed(s, n), Placed(u, n + Len(s))
    PROVE  /\ Placed(s \o u, n) /\ s \o u \in Seq(Tokens)
           /\ Len(s \o u) = Len(s) + Len(u)
BY DEF Placed, Tokens

LEMMA TotalIsTyped ==
    ASSUME NEW s \in Seq(Tokens), NEW h \in Seq(Tokens),
           NEW q \in Seq(Tokens), NEW p \in Seq(Tokens)
    PROVE  Total(s, h, q, p) \in Int
BY DEF Total

\* The next token is put into the queue, or waits to be.
LEMMA Enqueues ==
    ASSUME NEW s \in Seq(Tokens), NEW h \in Seq(Tokens), NEW q \in Seq(Tokens),
           NEW token \in Tokens, Ordered(s, h, q, << >>),
           token = Total(s, h, q, << >>) + 1
    PROVE  /\ Ordered(s, h, Append(q, token), << >>)
           /\ Ordered(s, h, q, <<token>>)
           /\ Total(s, h, Append(q, token), << >>) = token
           /\ Total(s, h, q, <<token>>) = token
<1>0. token \in Int
  BY StreamAssumption DEF Tokens
<1>1. token = Len(s) + Len(h) + Len(q) + 1
  BY DEF Total
<1>2. Placed(<<token>>, Len(s) + Len(h) + Len(q))
  <2>1. Len(s) + Len(h) + Len(q) \in Int
    OBVIOUS
  <2> QED
    BY <1>1, <2>1, PlacedOne
<1>3. Placed(Append(q, token), Len(s) + Len(h))
  BY <1>0, <1>1 DEF Placed, Ordered, Tokens
<1>4. Ordered(s, h, Append(q, token), << >>)
  BY <1>3 DEF Ordered, Placed
<1>5. Total(s, h, Append(q, token), << >>) = token
  BY <1>0, <1>1 DEF Total
<1>6. Total(s, h, q, <<token>>) = token
  BY <1>0, <1>1 DEF Total
<1> QED
  BY <1>2, <1>4, <1>5, <1>6 DEF Ordered

\* The put that waited goes through.
LEMMA PutsThrough ==
    ASSUME NEW s \in Seq(Tokens), NEW h \in Seq(Tokens),
           NEW q \in Seq(Tokens), NEW p \in Seq(Tokens), Ordered(s, h, q, p)
    PROVE  /\ Ordered(s, h, q \o p, << >>)
           /\ Total(s, h, q \o p, << >>) = Total(s, h, q, p)
<1>1. Placed(q \o p, Len(s) + Len(h))
  BY DEF Placed, Ordered, Tokens
<1>2. Ordered(s, h, q \o p, << >>)
  BY <1>1 DEF Ordered, Placed
<1>3. Total(s, h, q \o p, << >>) = Total(s, h, q, p)
  BY DEF Total
<1> QED
  BY <1>2, <1>3

\* The head of the queue is taken to be sent.
LEMMA Dequeues ==
    ASSUME NEW s \in Seq(Tokens), NEW q \in Seq(Tokens), NEW p \in Seq(Tokens),
           Ordered(s, << >>, q, p), q # << >>
    PROVE  /\ Ordered(s, <<Head(q)>>, Tail(q), p)
           /\ Total(s, <<Head(q)>>, Tail(q), p) = Total(s, << >>, q, p)
<1>1. /\ Tail(q) \in Seq(Tokens) /\ Len(Tail(q)) = Len(q) - 1
      /\ Len(<<Head(q)>>) = 1
      /\ Head(q) = q[1] /\ Len(q) >= 1
  BY HeadTailProperties, EmptySeq
<1>2. Head(q) = Len(s) + 1
  BY <1>1 DEF Ordered, Placed
<1>3. Placed(<<Head(q)>>, Len(s))
  BY <1>2 DEF Placed
<1>4. Placed(Tail(q), Len(s) + 1)
  BY DEF Placed, Ordered, Tokens
<1>5. Placed(p, Len(s) + 1 + Len(Tail(q)))
  BY <1>1 DEF Ordered
<1>6. Ordered(s, <<Head(q)>>, Tail(q), p)
  BY <1>1, <1>3, <1>4, <1>5 DEF Ordered
<1>7. Total(s, <<Head(q)>>, Tail(q), p) = Total(s, << >>, q, p)
  BY <1>1 DEF Total
<1> QED
  BY <1>6, <1>7

\* It has been sent.
LEMMA Sends ==
    ASSUME NEW s \in Seq(Tokens), NEW h \in Seq(Tokens),
           NEW q \in Seq(Tokens), NEW p \in Seq(Tokens), Ordered(s, h, q, p)
    PROVE  /\ Ordered(s \o h, << >>, q, p)
           /\ Total(s \o h, << >>, q, p) = Total(s, h, q, p)
<1>1. Placed(s \o h, 0)
  BY DEF Placed, Ordered, Tokens
<1>2. Ordered(s \o h, << >>, q, p)
  BY <1>1 DEF Ordered, Placed
<1>3. Total(s \o h, << >>, q, p) = Total(s, h, q, p)
  BY DEF Total
<1> QED
  BY <1>2, <1>3

\* A put that waits is given up.
LEMMA DropsPut ==
    ASSUME NEW s \in Seq(Tokens), NEW h \in Seq(Tokens),
           NEW q \in Seq(Tokens), NEW p \in Seq(Tokens),
           Ordered(s, h, q, p), Len(p) <= 1
    PROVE  /\ Ordered(s, h, q, << >>)
           /\ Total(s, h, q, << >>) <= Total(s, h, q, p)
           /\ Total(s, h, q, << >>) >= Total(s, h, q, p) - 1
<1>1. Ordered(s, h, q, << >>)
  BY DEF Ordered, Placed
<1>2. Total(s, h, q, << >>) = Len(s) + Len(h) + Len(q)
  BY DEF Total
<1>3. Total(s, h, q, p) = Len(s) + Len(h) + Len(q) + Len(p)
  BY DEF Total
<1>4. Len(p) >= 0
  BY LenProperties
<1> QED
  BY <1>1, <1>2, <1>3, <1>4

\* All in one sequence, as NoTokenIsLost has them.
CountsTo(way, n) == (\A i \in DOMAIN way : way[i] = i) /\ Len(way) = n

LEMMA WayCounts ==
    ASSUME NEW s \in Seq(Tokens), NEW h \in Seq(Tokens),
           NEW q \in Seq(Tokens), NEW p \in Seq(Tokens), Ordered(s, h, q, p),
           NEW way, way = s \o h \o q \o p
    PROVE  CountsTo(way, Total(s, h, q, p))
<1> DEFINE t == s \o h
           u == t \o q
<1>1. /\ Placed(t, 0) /\ t \in Seq(Tokens)
      /\ Len(t) = Len(s) + Len(h)
  BY PlacedJoin DEF Ordered
<1>2. Placed(q, 0 + Len(t))
  BY <1>1 DEF Ordered
<1> HIDE DEF t
<1>3. /\ Placed(u, 0) /\ u \in Seq(Tokens)
      /\ Len(u) = Len(s) + Len(h) + Len(q)
  BY <1>1, <1>2, PlacedJoin
<1>4. Placed(p, 0 + Len(u)) /\ way = u \o p
  BY <1>3 DEF Ordered, t
<1> HIDE DEF u
<1>5. Placed(u \o p, 0) /\ Len(u \o p) = Len(u) + Len(p) /\ u \o p \in Seq(Tokens)
  BY <1>3, <1>4, PlacedJoin
<1>6. /\ Placed(way, 0) /\ way \in Seq(Tokens)
      /\ Len(way) = Len(s) + Len(h) + Len(q) + Len(p)
  BY <1>3, <1>4, <1>5
<1>7. \A i \in DOMAIN way : way[i] = i
  BY <1>6 DEF Placed, Tokens
<1>8. Len(way) = Total(s, h, q, p)
  BY <1>6 DEF Total
<1> QED
  BY <1>7, <1>8 DEF CountsTo

-----------------------------------------------------------------------------
(* The invariant.                                                          *)

Count(row) == Total(row.sent, row.hand, row.queue, row.put)

\* How a response can end.
Endings == {"sent", "disconnected", "send_timed_out", "failed", "response_timed_out"}

\* Sizes, and which places can hold something where.
Bounded(row) ==
    /\ row \in StreamState
    /\ Len(row.queue) <= QueueSize /\ Len(row.hand) <= 1 /\ Len(row.put) <= 1
    /\ row.hand # << >> => row.pc \in {"token", "over"}
    /\ row.pc = "over" => row.outcome \in Endings
    /\ row.told # NULL => row.pc \in {"end", "over"} /\ row.hand = << >>

InOrder(row) == Ordered(row.sent, row.hand, row.queue, row.put)

\* What the context c of the request says of its tokens.
Agrees(row, c) ==
    /\ Count(row) <= row.produced
    /\ Count(row) >= row.produced - (IF c.agent = "done" THEN 1 ELSE 0)
    /\ c.agent # "running" => row.put = << >>
    /\ row.pc \in {"done", "end"} \/ row.told # NULL =>
         c.phase = "finalized" /\ row.queue = << >>
    /\ row.told # NULL => row.told = c.outcome
    /\ c.outcome = "succeeded" =>
         c.agent = "done" /\ row.put = << >> /\ Count(row) = row.produced

TokenInv(row, c) == Bounded(row) /\ InOrder(row) /\ Agrees(row, c)

AllTokens == /\ stream \in [Streams -> StreamState]
             /\ \A r \in Streams : TokenInv(stream[r], ctx[r])

StreamInv == LifecycleInv /\ AllTokens

-----------------------------------------------------------------------------
(* What the steps do to the tokens of one stream.                          *)

LEMMA NoTokens == << >> \in Seq(Tokens) /\ Len(<< >>) <= 1
OBVIOUS

LEMMA CountIsTyped ==
    ASSUME NEW row \in StreamState
    PROVE  Count(row) \in Int /\ row.produced \in Int
BY TotalIsTyped, StreamAssumption DEF StreamState, Count

LEMMA NewStreamKeeps ==
    ASSUME NEW c, c.agent = "created", c.outcome = NULL
    PROVE  TokenInv(NewStream, c)
<1>1. NewStream \in StreamState
  BY NoTokens, StreamAssumption DEF NewStream, StreamState
<1>2. Total(<< >>, << >>, << >>, << >>) = 0 /\ Ordered(<< >>, << >>, << >>, << >>)
  BY DEF Total, Ordered, Placed
<1> QED
  BY <1>1, <1>2, StreamAssumption, NullAssumption
     DEF NewStream, TokenInv, Bounded, InOrder, Agrees, Count

\* The context moves on, the agent stays where it is.
LEMMA ContextMoves ==
    ASSUME NEW row, NEW c, NEW d, TokenInv(row, c), d.agent = c.agent,
           c.phase = "finalized" => d.phase = "finalized",
           \/ d.outcome = c.outcome
           \/ c.phase # "finalized" /\ d.outcome # "succeeded"
    PROVE  TokenInv(row, d)
BY DEF TokenInv, Agrees

\* The agent starts, queues, or ends by a cancel, and a put ends with it.
LEMMA AgentMoves ==
    ASSUME NEW row, NEW c, NEW d, TokenInv(row, c),
           c.agent # "done", c.agent = "running" => d.agent = "done",
           d.phase = c.phase, d.outcome = c.outcome,
           NEW new, new = [row EXCEPT !.put = << >>]
    PROVE  TokenInv(new, d)
<1>1. row \in StreamState
  BY DEF TokenInv, Bounded
<1>2. /\ new \in StreamState /\ new.put = << >> /\ new.sent = row.sent
      /\ new.hand = row.hand /\ new.queue = row.queue /\ new.pc = row.pc
      /\ new.told = row.told /\ new.outcome = row.outcome
      /\ new.produced = row.produced
  BY <1>1, NoTokens DEF StreamState
<1>3. Bounded(new)
  BY <1>2 DEF TokenInv, Bounded
<1>4. InOrder(new) /\ Count(new) <= Count(row) /\ Count(new) >= Count(row) - 1
  BY <1>1, <1>2, DropsPut DEF TokenInv, Bounded, InOrder, Count, StreamState
<1>5. row.put = << >> => Count(new) = Count(row)
  BY <1>2 DEF Count
<1>6. Agrees(new, d)
  BY <1>1, <1>2, <1>4, <1>5, CountIsTyped DEF TokenInv, Agrees
<1> QED
  BY <1>3, <1>4, <1>6 DEF TokenInv

\* The agent ends after its last token and finalizes.
LEMMA AgentEnds ==
    ASSUME NEW row, NEW c, NEW d, TokenInv(row, c),
           c.agent = "running", c.phase = "active", row.put = << >>,
           d.agent = "done", d.phase = "finalized"
    PROVE  TokenInv(row, d)
<1>1. Count(row) \in Int /\ row.produced \in Int
  BY CountIsTyped DEF TokenInv, Bounded
<1> QED
  BY <1>1 DEF TokenInv, Agrees

\* A token goes into the queue, or waits to be put.
LEMMA ProduceKeeps ==
    ASSUME NEW row, NEW c, TokenInv(row, c), c.agent = "running",
           row.put = << >>, row.produced < MaxTokens, c.phase # "finalized",
           NEW token, token = row.produced + 1,
           NEW next, next = [row EXCEPT !.produced = token],
           NEW new, \/ /\ Len(row.queue) < QueueSize
                       /\ new = [next EXCEPT !.queue = Append(@, token)]
                    \/ new = [next EXCEPT !.put = <<token>>]
    PROVE  TokenInv(new, c)
<1>1. row \in StreamState
  BY DEF TokenInv, Bounded
<1>2. token \in Tokens /\ token \in 0..MaxTokens
  BY <1>1, StreamAssumption DEF Tokens, StreamState
<1>3. next \in StreamState /\ next.put = << >> /\ next.queue = row.queue
      /\ next.sent = row.sent /\ next.hand = row.hand /\ next.pc = row.pc
      /\ next.told = row.told /\ next.outcome = row.outcome /\ next.produced = token
  BY <1>1, <1>2 DEF StreamState
<1>4. /\ row.sent \in Seq(Tokens) /\ row.hand \in Seq(Tokens)
      /\ row.queue \in Seq(Tokens)
      /\ Ordered(row.sent, row.hand, row.queue, << >>)
      /\ token = Total(row.sent, row.hand, row.queue, << >>) + 1
  BY <1>1, CountIsTyped DEF StreamState, TokenInv, InOrder, Agrees, Count
<1>5. /\ Ordered(row.sent, row.hand, Append(row.queue, token), << >>)
      /\ Ordered(row.sent, row.hand, row.queue, <<token>>)
      /\ Total(row.sent, row.hand, Append(row.queue, token), << >>) = token
      /\ Total(row.sent, row.hand, row.queue, <<token>>) = token
  BY <1>2, <1>4, Enqueues
<1>6. /\ <<token>> \in Seq(Tokens) /\ Len(<<token>>) = 1
      /\ Append(row.queue, token) \in Seq(Tokens)
      /\ Len(Append(row.queue, token)) = Len(row.queue) + 1
  BY <1>2, <1>4
<1>7. /\ new \in StreamState /\ new.sent = row.sent
      /\ new.hand = row.hand /\ new.pc = row.pc /\ new.told = row.told
      /\ new.outcome = row.outcome /\ new.produced = token
      /\ \/ /\ new.queue = Append(row.queue, token) /\ new.put = << >>
            /\ Len(row.queue) < QueueSize
         \/ new.queue = row.queue /\ new.put = <<token>>
  BY <1>3, <1>6 DEF StreamState
<1>8. InOrder(new) /\ Count(new) = token
  BY <1>5, <1>7 DEF InOrder, Count
<1>9. ASSUME new.queue = row.queue, new.put = <<token>> PROVE Bounded(new)
  BY <1>6, <1>7, <1>9 DEF TokenInv, Bounded
<1>10. ASSUME new.queue = Append(row.queue, token), new.put = << >>,
              Len(row.queue) < QueueSize
       PROVE  Bounded(new)
  <2>1. Len(new.queue) <= QueueSize
    BY <1>4, <1>10, StreamAssumption
  <2>2. Len(new.put) <= 1
    BY <1>10
  <2> QED
    BY <1>7, <2>1, <2>2 DEF TokenInv, Bounded
<1>12. Bounded(new)
  BY <1>7, <1>9, <1>10
<1>11. Agrees(new, c)
  BY <1>1, <1>7, <1>8, CountIsTyped DEF TokenInv, Agrees
<1> QED
  BY <1>8, <1>11, <1>12 DEF TokenInv

\* A put that waited goes through.
LEMMA PutKeeps ==
    ASSUME NEW row, NEW c, TokenInv(row, c), c.agent = "running",
           c.phase # "finalized", Len(row.queue) < QueueSize,
           NEW new, new = [row EXCEPT !.queue = @ \o row.put, !.put = << >>]
    PROVE  TokenInv(new, c)
<1>1. row \in StreamState
  BY DEF TokenInv, Bounded
<1> DEFINE joined == row.queue \o row.put
<1>2. joined \in Seq(Tokens) /\ Len(joined) <= QueueSize
  BY <1>1, StreamAssumption DEF StreamState, TokenInv, Bounded
<1>3. /\ Ordered(row.sent, row.hand, joined, << >>)
      /\ Total(row.sent, row.hand, joined, << >>) = Count(row)
  BY <1>1, PutsThrough DEF StreamState, TokenInv, InOrder, Count
<1>4. new = [row EXCEPT !.queue = joined, !.put = << >>]
  OBVIOUS
<1> HIDE DEF joined
<1>5. /\ new \in StreamState /\ new.queue = joined
      /\ new.produced = row.produced /\ new.put = << >> /\ new.sent = row.sent
      /\ new.hand = row.hand /\ new.pc = row.pc /\ new.told = row.told
      /\ new.outcome = row.outcome
  BY <1>1, <1>2, <1>4, NoTokens DEF StreamState
<1>6. InOrder(new) /\ Count(new) = Count(row)
  BY <1>3, <1>5 DEF InOrder, Count
<1>7. Bounded(new)
  <2>1. Len(new.queue) <= QueueSize /\ Len(new.put) <= 1
    BY <1>2, <1>5, NoTokens
  <2> QED
    BY <1>5, <2>1 DEF TokenInv, Bounded
<1>8. Agrees(new, c)
  BY <1>5, <1>6 DEF TokenInv, Agrees
<1> QED
  BY <1>6, <1>7, <1>8 DEF TokenInv

\* The response takes a token from the queue.
LEMMA TakeKeeps ==
    ASSUME NEW row, NEW c, TokenInv(row, c), row.pc \in {"pull", "wait"},
           row.queue # << >>
    PROVE  TokenInv(TakesToken(row), c)
<1> DEFINE new == TakesToken(row)
<1>1. row \in StreamState
  BY DEF TokenInv, Bounded
<1> DEFINE taken == <<Head(row.queue)>>
<1>2. /\ taken \in Seq(Tokens) /\ Len(taken) <= 1
      /\ Tail(row.queue) \in Seq(Tokens) /\ Len(Tail(row.queue)) <= QueueSize
  <2>1. row.queue \in Seq(Tokens) /\ Len(row.queue) <= QueueSize
    BY <1>1 DEF StreamState, TokenInv, Bounded
  <2>2. /\ Head(row.queue) \in Tokens /\ Tail(row.queue) \in Seq(Tokens)
        /\ Len(Tail(row.queue)) = Len(row.queue) - 1
    BY <2>1, HeadTailProperties
  <2> QED
    BY <2>1, <2>2, StreamAssumption
<1>3. row.hand = << >> /\ row.told = NULL
  BY DEF TokenInv, Bounded
<1>4. /\ Ordered(row.sent, taken, Tail(row.queue), row.put)
      /\ Total(row.sent, taken, Tail(row.queue), row.put) = Count(row)
  BY <1>1, <1>3, Dequeues DEF StreamState, TokenInv, InOrder, Count
<1>5. new = [row EXCEPT !.hand = taken, !.queue = Tail(row.queue), !.pc = "token"]
  BY DEF TakesToken
<1> HIDE DEF taken, new
<1>6. /\ new \in StreamState /\ new.queue = Tail(row.queue)
      /\ new.produced = row.produced /\ new.put = row.put /\ new.sent = row.sent
      /\ new.hand = taken /\ new.pc = "token" /\ new.told = NULL
      /\ new.outcome = row.outcome
  BY <1>1, <1>2, <1>3, <1>5 DEF StreamState
<1>7. InOrder(new) /\ Count(new) = Count(row)
  BY <1>4, <1>6 DEF InOrder, Count
<1>8. Bounded(new)
  BY <1>2, <1>6 DEF TokenInv, Bounded
<1>9. Agrees(new, c)
  BY <1>6, <1>7 DEF TokenInv, Agrees
<1> QED
  BY <1>7, <1>8, <1>9 DEF TokenInv, new

\* The response moves on between two tokens.
LEMMA PcMoves ==
    ASSUME NEW row, NEW c, TokenInv(row, c), row.pc \in {"start", "pull", "wait"},
           NEW pc \in {"pull", "wait", "done"},
           pc = "done" => c.phase = "finalized" /\ row.queue = << >>
    PROVE  TokenInv([row EXCEPT !.pc = pc], c)
<1> DEFINE new == [row EXCEPT !.pc = pc]
<1>1. row \in StreamState /\ row.hand = << >> /\ row.told = NULL
  BY DEF TokenInv, Bounded
<1>2. /\ new \in StreamState /\ new.queue = row.queue
      /\ new.produced = row.produced /\ new.put = row.put /\ new.sent = row.sent
      /\ new.hand = row.hand /\ new.pc = pc /\ new.told = NULL
      /\ new.outcome = row.outcome
  BY <1>1 DEF StreamState
<1> HIDE DEF new
<1>3. Bounded(new) /\ InOrder(new) /\ Count(new) = Count(row)
  BY <1>1, <1>2 DEF TokenInv, Bounded, InOrder, Count
<1>4. Agrees(new, c)
  BY <1>2, <1>3 DEF TokenInv, Agrees
<1> QED
  BY <1>3, <1>4 DEF TokenInv, new

\* A send returns.
LEMMA SendKeeps ==
    ASSUME NEW row, NEW c, TokenInv(row, c), c.outcome \in Outcomes \cup {NULL},
           row.pc \in {"start", "token", "done", "end"}
    PROVE  TokenInv(AfterSend(row, c.outcome), c)
<1>1. row \in StreamState
  BY DEF TokenInv, Bounded
<1>2. CASE row.pc = "start"
  BY <1>2, PcMoves DEF AfterSend
<1>3. CASE row.pc = "token"
  <2> DEFINE all == row.sent \o row.hand
  <2>1. all \in Seq(Tokens)
    BY <1>1 DEF StreamState
  <2>2. /\ Ordered(all, << >>, row.queue, row.put)
        /\ Total(all, << >>, row.queue, row.put) = Count(row)
    BY <1>1, Sends DEF StreamState, TokenInv, InOrder, Count
  <2> DEFINE new == AfterSend(row, c.outcome)
  <2>3. new = [row EXCEPT !.pc = "pull", !.sent = all, !.hand = << >>]
    BY <1>3 DEF AfterSend
  <2> HIDE DEF all, new
  <2>4. /\ new \in StreamState /\ new.queue = row.queue
        /\ new.produced = row.produced /\ new.put = row.put /\ new.sent = all
        /\ new.hand = << >> /\ new.pc = "pull" /\ new.told = row.told
        /\ new.outcome = row.outcome
    BY <1>1, <2>1, <2>3, NoTokens DEF StreamState
  <2>5. Len(new.hand) <= 1 /\ row.told = NULL
    BY <1>3, <2>4 DEF TokenInv, Bounded
  <2>6. Bounded(new) /\ InOrder(new) /\ Count(new) = Count(row)
    BY <2>2, <2>4, <2>5 DEF TokenInv, Bounded, InOrder, Count
  <2>7. Agrees(new, c)
    BY <2>4, <2>5, <2>6 DEF TokenInv, Agrees
  <2> QED
    BY <2>6, <2>7 DEF TokenInv, new
<1>4. CASE row.pc = "done"
  <2> DEFINE new == AfterSend(row, c.outcome)
  <2>1. new = [row EXCEPT !.pc = "end", !.told = c.outcome]
    BY <1>4 DEF AfterSend
  <2> HIDE DEF new
  <2>2. /\ new \in StreamState /\ new.queue = row.queue
        /\ new.produced = row.produced /\ new.put = row.put /\ new.sent = row.sent
        /\ new.hand = row.hand /\ new.pc = "end" /\ new.told = c.outcome
        /\ new.outcome = row.outcome
    BY <1>1, <2>1 DEF StreamState
  <2>3. /\ c.phase = "finalized" /\ row.queue = << >> /\ row.hand = << >>
    BY <1>4 DEF TokenInv, Bounded, Agrees
  <2>4. Bounded(new) /\ InOrder(new) /\ Count(new) = Count(row)
    BY <2>2, <2>3 DEF TokenInv, Bounded, InOrder, Count
  <2>5. Agrees(new, c)
    BY <2>2, <2>3, <2>4 DEF TokenInv, Agrees
  <2> QED
    BY <2>4, <2>5 DEF TokenInv, new
<1>5. CASE row.pc = "end"
  <2> DEFINE new == AfterSend(row, c.outcome)
  <2>1. new = [row EXCEPT !.pc = "over", !.outcome = "sent"]
    BY <1>5 DEF AfterSend
  <2> HIDE DEF new
  <2>2. /\ new \in StreamState /\ new.queue = row.queue
        /\ new.produced = row.produced /\ new.put = row.put /\ new.sent = row.sent
        /\ new.hand = row.hand /\ new.pc = "over" /\ new.told = row.told
        /\ new.outcome = "sent"
    BY <1>1, <2>1 DEF StreamState
  <2>3. Bounded(new) /\ InOrder(new) /\ Count(new) = Count(row)
    BY <2>2 DEF TokenInv, Bounded, InOrder, Count, Endings
  <2>4. Agrees(new, c)
    BY <2>2, <2>3 DEF TokenInv, Agrees
  <2> QED
    BY <2>3, <2>4 DEF TokenInv, new
<1> QED
  BY <1>2, <1>3, <1>4, <1>5

\* The response is over, whatever was in hand.
LEMMA BreakKeeps ==
    ASSUME NEW row, NEW c, TokenInv(row, c), NEW outcome \in DOMAIN EventOf
    PROVE  TokenInv([row EXCEPT !.pc = "over", !.outcome = outcome], c)
<1> DEFINE new == [row EXCEPT !.pc = "over", !.outcome = outcome]
<1>1. row \in StreamState /\ outcome \in Endings
  BY DEF TokenInv, Bounded, Endings, EventOf
<1>2. /\ new \in StreamState /\ new.queue = row.queue
      /\ new.produced = row.produced /\ new.put = row.put /\ new.sent = row.sent
      /\ new.hand = row.hand /\ new.pc = "over" /\ new.told = row.told
      /\ new.outcome = outcome
  BY <1>1 DEF StreamState, Endings
<1> HIDE DEF new
<1>3. Bounded(new) /\ InOrder(new) /\ Count(new) = Count(row)
  BY <1>1, <1>2 DEF TokenInv, Bounded, InOrder, Count
<1>4. Agrees(new, c)
  BY <1>2, <1>3 DEF TokenInv, Agrees
<1> QED
  BY <1>3, <1>4 DEF TokenInv, new

-----------------------------------------------------------------------------
(* What a step owes to the invariant.                                      *)

Follows(r) ==
    /\ Step(r) \/ UNCHANGED vars
    /\ \A u \in Streams \ {r} : stream'[u] = stream[u]
    /\ stream' \in [Streams -> StreamState]
    /\ r \in Streams => TokenInv(stream'[r], ctx'[r])

LEMMA FollowingKeeps ==
    ASSUME StreamInv, NEW r \in Requests, Follows(r)
    PROVE  StreamInv'
<1>1. [Next]_vars
  BY DEF Follows, Next
<1>2. LifecycleInv'
  BY <1>1, InvariantStep DEF StreamInv
<1>3. ASSUME NEW u \in Streams, u # r PROVE TokenInv(stream'[u], ctx'[u])
  <2>1. ctx'[u] = ctx[u]
    <3>1. CASE Step(r)
      BY <1>3, <3>1, EveryStepKeeps, RequestsAssumption
         DEF StreamInv, Keeps, Touches
    <3>2. CASE UNCHANGED vars
      BY <3>2 DEF vars
    <3> QED
      BY <3>1, <3>2 DEF Follows
  <2> QED
    BY <1>3, <2>1 DEF Follows, StreamInv, AllTokens
<1>4. AllTokens'
  BY <1>3 DEF Follows, AllTokens
<1> QED
  BY <1>2, <1>4 DEF StreamInv

\* The tokens stay where they are, and the context moves under them.
LEMMA ContextFollows ==
    ASSUME StreamInv, NEW r \in Requests, Step(r), UNCHANGED stream,
           r \in Streams => TokenInv(stream[r], ctx'[r])
    PROVE  Follows(r)
BY DEF Follows, StreamInv, AllTokens

\* One stream changes.
LEMMA StreamFollows ==
    ASSUME StreamInv, NEW r \in Streams, NEW new, Step(r) \/ UNCHANGED vars,
           stream' = [stream EXCEPT ![r] = new], TokenInv(new, ctx'[r])
    PROVE  Follows(r)
BY DEF Follows, StreamInv, AllTokens, TokenInv, Bounded

\* What the invariants say of one request.
LEMMA OfOneRequest ==
    ASSUME StreamInv, NEW r \in Requests
    PROVE  /\ ctx \in [Requests -> Context] /\ ctx[r] \in Context
           /\ stage[r] = "admitted" => Settled(ctx[r]) /\ Holds(ctx[r], future[r])
           /\ stage[r] # "admitted" => ctx[r] = NewContext
           /\ r \in Streams => TokenInv(stream[r], ctx[r])
           /\ stream \in [Streams -> StreamState]
BY DEF StreamInv, LifecycleInv, AllGood, Good, AllTokens

LEMMA MonitorFollows ==
    ASSUME StreamInv, NEW r \in Requests, NEW m \in Monitors,
           Fires(r, m) \/ Notice(r, m) \/ Finish(r, m), UNCHANGED stream
    PROVE  Follows(r)
<1>1. Step(r)
  BY DEF Step
<1>2. ctx \in [Requests -> Context] /\ ctx[r] \in Context
  BY OfOneRequest
<1>3. /\ ctx'[r].agent = ctx[r].agent
      /\ ctx[r].phase = "finalized" => ctx'[r].phase = "finalized"
      /\ \/ ctx'[r].outcome = ctx[r].outcome
         \/ ctx[r].phase # "finalized" /\ ctx'[r].outcome # "succeeded"
  <2>1. CASE Fires(r, m)
    <3>1. PICK e \in EventsOf(r, m) : MonitorWins(r, m, e) \/ MonitorLoses(r, m, e)
      BY <2>1 DEF Fires
    <3>2. OutcomeOf[Effective(r, e)] # "succeeded"
      BY DEF EventsOf, Effective, OutcomeOf
    <3>3. CASE MonitorWins(r, m, e)
      BY <1>2, <3>2, <3>3 DEF MonitorWins, Claimable, Context
    <3>4. CASE MonitorLoses(r, m, e)
      BY <1>2, <3>4 DEF MonitorLoses, Context
    <3> QED
      BY <3>1, <3>3, <3>4
  <2>2. CASE Notice(r, m)
    BY <1>2, <2>2 DEF Notice, Context
  <2>3. CASE Finish(r, m)
    <3> DEFINE won == [ctx[r] EXCEPT !.monitor[m] = "done"]
    <3>1. won.outcome = ctx[r].outcome /\ won.agent = ctx[r].agent
      BY <1>2 DEF Context
    <3>2. /\ Finalized(won).outcome = won.outcome /\ Finalized(won).agent = won.agent
          /\ Finalized(won).phase = "finalized"
      BY <1>2 DEF Finalized, Context
    <3>3. ctx'[r] = Finalized(won)
      BY <1>2, <2>3 DEF Finish
    <3> QED
      BY <3>1, <3>2, <3>3
  <2> QED
    BY <2>1, <2>2, <2>3
<1>4. r \in Streams => TokenInv(stream[r], ctx'[r])
  BY <1>3, OfOneRequest, ContextMoves
<1> QED
  BY <1>1, <1>4, ContextFollows

LEMMA CommonFollows ==
    ASSUME StreamInv, NEW r \in Requests, CommonStep(r)
    PROVE  Follows(r)
<1>1. ctx \in [Requests -> Context] /\ ctx[r] \in Context
      /\ stream \in [Streams -> StreamState]
  BY OfOneRequest
<1>2. CASE (Enter(r) \/ Refuse(r)) /\ UNCHANGED stream
  <2>1. Step(r) /\ ctx' = ctx
    BY <1>2 DEF Step, Enter, Refuse
  <2> QED
    BY <1>2, <2>1, OfOneRequest, ContextFollows
<1>3. ASSUME NEW d \in {"deadline_exceeded", "response_deadline_exceeded"},
             Expire(r, d), UNCHANGED stream
      PROVE  Follows(r)
  <2>1. /\ ctx'[r].agent = ctx[r].agent /\ ctx'[r].phase = ctx[r].phase
        /\ ctx'[r].outcome = ctx[r].outcome
    BY <1>1, <1>3 DEF Expire, Context
  <2>2. r \in Streams => TokenInv(stream[r], ctx'[r])
    BY <2>1, OfOneRequest, ContextMoves
  <2>3. Step(r)
    BY <1>3 DEF Step
  <2> QED
    BY <1>3, <2>2, <2>3, ContextFollows
<1>4. CASE (Admit(r) \/ Leave(r)) /\ Restarts(r)
  <2>1. ctx'[r].agent = "created" /\ ctx'[r].outcome = NULL
    BY <1>1, <1>4 DEF Admit, Leave, NewContext
  <2>2. TokenInv(NewStream, ctx'[r])
    BY <2>1, NewStreamKeeps
  <2>3. stream' = [s \in Streams |-> IF s = r THEN NewStream ELSE stream[s]]
    BY <1>4 DEF Restarts
  <2>4. NewStream \in StreamState
    BY <2>2 DEF TokenInv, Bounded
  <2>5. Step(r)
    BY <1>4 DEF Step
  <2> QED
    BY <1>1, <2>2, <2>3, <2>4, <2>5 DEF Follows
<1>5. CASE Deadline(r) \/ Finishes(r)
  BY <1>5, MonitorFollows DEF Deadline, Finishes, Monitors
<1> QED
  BY <1>2, <1>3, <1>4, <1>5 DEF CommonStep, Answers, Leaves, Expires

\* A step of the agent's task.
LEMMA AgentStepMoves ==
    ASSUME StreamInv, NEW r \in Requests, AgentStep(r)
    PROVE  /\ ctx[r].agent # "done"
           /\ ctx[r].agent = "running" => ctx'[r].agent = "done"
           /\ ctx'[r].phase = ctx[r].phase /\ ctx'[r].outcome = ctx[r].outcome
<1>1. ctx \in [Requests -> Context] /\ ctx[r] \in Context
  BY OfOneRequest
<1>2. /\ Runs(ctx[r]).outcome = ctx[r].outcome /\ Runs(ctx[r]).phase = ctx[r].phase
      /\ Exits(ctx[r]).outcome = ctx[r].outcome /\ Exits(ctx[r]).phase = ctx[r].phase
      /\ Exits(ctx[r]).agent = "done"
  BY <1>1 DEF Runs, Exits, Context
<1>3. /\ [Exits(ctx[r]) EXCEPT !.slot = FALSE].outcome = Exits(ctx[r]).outcome
      /\ [Exits(ctx[r]) EXCEPT !.slot = FALSE].phase = Exits(ctx[r]).phase
  BY <1>1 DEF Exits, Context
<1>4. CASE StartAgent(r)
  BY <1>1, <1>2, <1>4 DEF StartAgent, Context
<1>5. CASE Promote(r)
  BY <1>1, <1>2, <1>5 DEF Promote
<1>6. CASE LeaveQueue(r)
  BY <1>1, <1>2, <1>3, <1>6 DEF LeaveQueue
<1>7. CASE Unwind(r)
  BY <1>1, <1>2, <1>7 DEF Unwind
<1> QED
  BY <1>4, <1>5, <1>6, <1>7 DEF AgentStep

LEMMA ProducerFollows ==
    ASSUME StreamInv, NEW r \in Streams,
           \/ Produce(r) \/ PutResumes(r) \/ ProducerEnds(r) \/ ProducerStep(r)
    PROVE  Follows(r)
<1>1. /\ r \in Requests /\ ctx \in [Requests -> Context] /\ ctx[r] \in Context
      /\ TokenInv(stream[r], ctx[r]) /\ stream \in [Streams -> StreamState]
  BY OfOneRequest, RequestsAssumption
<1>2. ctx[r].agent = "running" => ctx[r].phase # "finalized"
  BY <1>1, OfOneRequest DEF Settled, NewContext
<1>3. CASE Produce(r)
  <2> DEFINE token == stream[r].produced + 1
             next  == [stream[r] EXCEPT !.produced = token]
             new   == IF HasRoom(r) THEN [next EXCEPT !.queue = Append(@, token)]
                      ELSE [next EXCEPT !.put = <<token>>]
  <2>1. /\ stream' = [stream EXCEPT ![r] = new] /\ UNCHANGED vars /\ ctx' = ctx
        /\ ctx[r].agent = "running" /\ stream[r].put = << >>
        /\ stream[r].produced < MaxTokens
    BY <1>3 DEF Produce, vars
  <2>2. \/ /\ Len(stream[r].queue) < QueueSize
           /\ new = [next EXCEPT !.queue = Append(@, token)]
        \/ new = [next EXCEPT !.put = <<token>>]
    BY DEF HasRoom
  <2> HIDE DEF new
  <2>3. TokenInv(new, ctx[r])
    BY <1>1, <1>2, <2>1, <2>2, ProduceKeeps
  <2> QED
    BY <2>1, <2>3, StreamFollows
<1>4. CASE PutResumes(r)
  <2> DEFINE new == [stream[r] EXCEPT !.queue = @ \o stream[r].put, !.put = << >>]
  <2>1. /\ stream' = [stream EXCEPT ![r] = new] /\ UNCHANGED vars /\ ctx' = ctx
        /\ ctx[r].agent = "running" /\ Len(stream[r].queue) < QueueSize
    BY <1>1, <1>4 DEF PutResumes, vars, HasRoom
  <2>2. TokenInv(new, ctx[r])
    BY <1>1, <1>2, <2>1, PutKeeps
  <2> QED
    BY <2>1, <2>2, StreamFollows
<1>5. CASE ProducerEnds(r)
  <2>1. PICK e \in {"completed", "internal_error"} : AgentWins(r, e)
    BY <1>5 DEF ProducerEnds
  <2>2. /\ ctx[r].agent = "running" /\ ctx[r].phase = "active"
        /\ stream[r].put = << >> /\ stream' = stream
    BY <1>5, <2>1 DEF ProducerEnds, NothingToPut, AgentWins, Claimable
  <2>3. ctx'[r].agent = "done" /\ ctx'[r].phase = "finalized"
    BY <1>1, <2>1 DEF AgentWins, Finalized, Context
  <2>4. Step(r)
    BY <2>1 DEF Step
  <2> QED
    BY <1>1, <2>2, <2>3, <2>4, AgentEnds, ContextFollows
<1>6. CASE ProducerStep(r)
  <2> DEFINE new == [stream[r] EXCEPT !.put = << >>]
  <2>1. AgentStep(r) /\ stream' = [stream EXCEPT ![r] = new] /\ Step(r)
    BY <1>1, <1>6 DEF ProducerStep, Step
  <2>2. TokenInv(new, ctx'[r])
    BY <1>1, <2>1, AgentStepMoves, AgentMoves
  <2> QED
    BY <2>1, <2>2, StreamFollows
<1> QED
  BY <1>3, <1>4, <1>5, <1>6

LEMMA ResponseFollows ==
    ASSUME StreamInv, NEW r \in Streams,
           Pull(r) \/ WaitEnds(r) \/ SendReturns(r) \/ Breaking(r)
    PROVE  Follows(r)
<1>1. /\ r \in Requests /\ ctx \in [Requests -> Context] /\ ctx[r] \in Context
      /\ TokenInv(stream[r], ctx[r]) /\ stream \in [Streams -> StreamState]
  BY OfOneRequest, RequestsAssumption
<1> DEFINE row == stream[r]
<1>2. CASE Pull(r)
  <2>1. row.pc = "pull" /\ UNCHANGED vars /\ ctx' = ctx
    BY <1>2 DEF Pull, vars
  <2>2. CASE QueueIsDry(r)
    <3>1. stream' = [stream EXCEPT ![r] = [row EXCEPT !.pc = "done"]]
      BY <1>1, <1>2, <2>2 DEF Pull
    <3>2. TokenInv([row EXCEPT !.pc = "done"], ctx[r])
      BY <1>1, <2>1, <2>2, PcMoves DEF QueueIsDry
    <3> QED
      BY <2>1, <3>1, <3>2, StreamFollows
  <2>3. CASE ~QueueIsDry(r) /\ row.queue # << >>
    <3>1. stream' = [stream EXCEPT ![r] = TakesToken(row)]
      BY <1>1, <1>2, <2>3 DEF Pull
    <3>2. TokenInv(TakesToken(row), ctx[r])
      BY <1>1, <2>1, <2>3, TakeKeeps
    <3> QED
      BY <2>1, <3>1, <3>2, StreamFollows
  <2>4. CASE ~QueueIsDry(r) /\ row.queue = << >>
    <3>1. stream' = [stream EXCEPT ![r] = [row EXCEPT !.pc = "wait"]]
      BY <1>1, <1>2, <2>4 DEF Pull
    <3>2. TokenInv([row EXCEPT !.pc = "wait"], ctx[r])
      BY <1>1, <2>1, PcMoves
    <3> QED
      BY <2>1, <3>1, <3>2, StreamFollows
  <2> QED
    BY <2>2, <2>3, <2>4
<1>3. CASE WaitEnds(r)
  <2>1. row.pc = "wait" /\ UNCHANGED vars /\ ctx' = ctx
    BY <1>3 DEF WaitEnds, vars
  <2>2. CASE row.queue # << >> /\ stream' = [stream EXCEPT ![r] = TakesToken(row)]
    BY <1>1, <2>1, <2>2, TakeKeeps, StreamFollows
  <2>3. CASE stream' = [stream EXCEPT ![r] = [row EXCEPT !.pc = "pull"]]
    <3>1. TokenInv([row EXCEPT !.pc = "pull"], ctx[r])
      BY <1>1, <2>1, PcMoves
    <3> QED
      BY <2>1, <2>3, <3>1, StreamFollows
  <2> QED
    BY <1>1, <1>3, <2>2, <2>3 DEF WaitEnds, GetIsCancelled
<1>4. CASE SendReturns(r)
  <2>1. /\ row.pc \in {"start", "token", "done", "end"} /\ UNCHANGED vars /\ ctx' = ctx
        /\ stream' = [stream EXCEPT ![r] = AfterSend(row, ctx[r].outcome)]
    BY <1>1, <1>4 DEF SendReturns, Sending, vars
  <2>2. ctx[r].outcome \in Outcomes \cup {NULL}
    BY <1>1 DEF Context
  <2> QED
    BY <1>1, <2>1, <2>2, SendKeeps, StreamFollows
<1>5. ASSUME NEW outcome \in DOMAIN EventOf, Breaks(r, outcome) PROVE Follows(r)
  <2> DEFINE new == [row EXCEPT !.pc = "over", !.outcome = outcome]
  <2>1. UNCHANGED vars /\ ctx' = ctx /\ stream' = [stream EXCEPT ![r] = new]
    BY <1>1, <1>5 DEF Breaks, vars
  <2>2. TokenInv(new, ctx[r])
    BY <1>1, BreakKeeps
  <2> HIDE DEF new
  <2> QED
    BY <2>1, <2>2, StreamFollows
<1>6. CASE Breaking(r)
  BY <1>5, <1>6 DEF Breaking, SendTimesOut, SendFails, Disconnects, RunsOutOfTime, EventOf
<1> QED
  BY <1>2, <1>3, <1>4, <1>6

LEMMA EndFollows ==
    ASSUME StreamInv, NEW r \in Streams, ResponseEnds(r)
    PROVE  Follows(r)
<1>1. r \in Requests /\ TokenInv(stream[r], ctx[r]) /\ "transport" \in Monitors
  BY OfOneRequest, RequestsAssumption DEF Monitors
<1>2. stream' = stream /\ stream[r].pc = "over"
  BY DEF ResponseEnds
<1>3. CASE Notice(r, "transport")
  BY <1>1, <1>2, <1>3, MonitorFollows
<1>4. CASE /\ stream[r].outcome # "sent"
           /\ FinalizesAnyway(r, EventOf[stream[r].outcome])
  <2>1. stream[r].outcome \in DOMAIN EventOf
    BY <1>1, <1>2, <1>4 DEF TokenInv, Bounded, Endings, EventOf
  <2>2. EventOf[stream[r].outcome] \in EventsOf(r, "transport")
    BY <2>1 DEF EventOf, EventsOf
  <2>3. Fires(r, "transport")
    BY <1>4, <2>2 DEF FinalizesAnyway, Fires
  <2> QED
    BY <1>1, <1>2, <2>3, MonitorFollows
<1> QED
  BY <1>3, <1>4 DEF ResponseEnds

LEMMA PlainFollows ==
    ASSUME StreamInv, NEW r \in Requests \ Streams, PlainStep(r)
    PROVE  Follows(r)
<1>1. stream' = stream
  BY DEF PlainStep, PlainAgent, PlainEnds
<1>2. Step(r)
  BY DEF PlainStep, PlainAgent, PlainEnds, Step, Monitors
<1> QED
  BY <1>1, <1>2, ContextFollows

LEMMA EveryStepFollows ==
    ASSUME StreamInv, StreamNext
    PROVE  \E r \in Requests : Follows(r)
<1>1. PICK r \in Requests : \/ CommonStep(r)
                            \/ r \in Streams /\ StreamStep(r)
                            \/ r \notin Streams /\ PlainStep(r)
  BY DEF StreamNext
<1>2. Follows(r)
  BY <1>1, CommonFollows, ProducerFollows, ResponseFollows, EndFollows, PlainFollows
     DEF StreamStep
<1> QED
  BY <1>2

-----------------------------------------------------------------------------
(* The theorems.                                                           *)

LEMMA StreamInvStep == StreamInv /\ [StreamNext]_streamVars => StreamInv'
<1>1. ASSUME StreamInv, StreamNext PROVE StreamInv'
  BY <1>1, EveryStepFollows, FollowingKeeps
<1>2. ASSUME StreamInv, UNCHANGED streamVars PROVE StreamInv'
  <2>1. UNCHANGED vars /\ ctx' = ctx /\ stream' = stream
    BY <1>2 DEF streamVars, vars
  <2>2. LifecycleInv'
    BY <1>2, <2>1, InvariantStep DEF StreamInv
  <2> QED
    BY <1>2, <2>1, <2>2 DEF StreamInv, AllTokens
<1> QED
  BY <1>1, <1>2

LEMMA StreamInvInitially == StreamInit => StreamInv
<1> SUFFICES ASSUME StreamInit PROVE StreamInv
  OBVIOUS
<1>1. LifecycleInv
  BY InvariantInitially DEF StreamInit
<1>2. ASSUME NEW r \in Streams PROVE TokenInv(NewStream, ctx[r])
  <2>1. ctx[r].agent = "created" /\ ctx[r].outcome = NULL
    BY RequestsAssumption DEF StreamInit, Init, NewContext
  <2> QED
    BY <2>1, NewStreamKeeps
<1>3. stream = [r \in Streams |-> NewStream]
  BY DEF StreamInit
<1>4. AllTokens
  BY <1>2, <1>3 DEF AllTokens, TokenInv, Bounded
<1> QED
  BY <1>1, <1>4 DEF StreamInv

\* The inductive invariant.
THEOREM StreamInvHolds == StreamSpec => []StreamInv
BY StreamInvInitially, StreamInvStep, PTL DEF StreamSpec

\* Seen without their tokens, streams do nothing that a request cannot do: by
\* construction.
LEMMA StreamsAreRequests == StreamSpec => ImplementsLifecycle
<1>1. StreamInv /\ [StreamNext]_streamVars => [Next]_vars
  <2>1. ASSUME StreamInv, StreamNext PROVE [Next]_vars
    BY <2>1, EveryStepFollows DEF Follows, Next
  <2>2. UNCHANGED streamVars => UNCHANGED vars
    BY DEF streamVars
  <2> QED
    BY <2>1, <2>2
<1>2. StreamInit => Init
  BY DEF StreamInit
<1> QED
  BY <1>1, <1>2, StreamInvHolds, PTL DEF StreamSpec, ImplementsLifecycle, Spec

\* So the capacity of the service is conserved under streams as well.
THEOREM StreamsConserveCapacity == StreamSpec => []CapacityConserved
BY StreamInvHolds, PTL DEF StreamInv, LifecycleInv

\* No waiter sleeps beside a free permit, however a stream breaks off.
THEOREM StreamsLeaveNoPermitIdle == StreamSpec => []NoIdlePermit
BY StreamsAreRequests, NoIdlePermitHolds, PTL DEF ImplementsLifecycle

\* A stream is finalized once, with all it held given back, and its outcome
\* is that of the first claim: the agent, a monitor, the consumer or a send.
THEOREM StreamsAreSettled == StreamSpec => []FinalizedIsSettled /\ OutcomeIsFirst
BY StreamsAreRequests, FinalizedIsSettledHolds, OutcomeIsFirstHolds, PTL
   DEF ImplementsLifecycle

\* The permits of streams are a pool of slots.
THEOREM StreamsAreASlotPool == StreamSpec => PermitsAreASlotPool
BY StreamsAreRequests, PermitsHolds, PTL DEF ImplementsLifecycle

\* The types of the streams, the size of the queue included.
THEOREM StreamTypeCorrect == StreamSpec => []StreamTypeOK
<1>1. StreamInv => StreamTypeOK
  BY DEF StreamInv, LifecycleInv, AllTokens, TokenInv, Bounded, StreamTypeOK
<1> QED
  BY <1>1, StreamInvHolds, PTL

\* No token is lost, doubled or overtaken between the agent and the client;
\* at most the one a cancelled agent was putting is missing at the end.
THEOREM NoTokenIsLostHolds == StreamSpec => []NoTokenIsLost
<1>1. ASSUME StreamInv, NEW r \in Streams
      PROVE  LET row == stream[r]
                 way == row.sent \o row.hand \o row.queue \o row.put
             IN  /\ \A i \in DOMAIN way : way[i] = i
                 /\ Len(way) >= row.produced - (IF ctx[r].agent = "done" THEN 1 ELSE 0)
  <2> DEFINE row == stream[r]
             way == row.sent \o row.hand \o row.queue \o row.put
  <2>1. TokenInv(row, ctx[r]) /\ row \in StreamState
    BY <1>1 DEF StreamInv, AllTokens, TokenInv, Bounded
  <2>2. /\ row.sent \in Seq(Tokens) /\ row.hand \in Seq(Tokens)
        /\ row.queue \in Seq(Tokens) /\ row.put \in Seq(Tokens)
        /\ Ordered(row.sent, row.hand, row.queue, row.put)
    BY <2>1 DEF StreamState, TokenInv, InOrder
  <2> HIDE DEF row
  <2>3. CountsTo(way, Count(row))
    <3> DEFINE s == row.sent
               h == row.hand
               q == row.queue
               p == row.put
    <3>1. /\ s \in Seq(Tokens) /\ h \in Seq(Tokens) /\ q \in Seq(Tokens)
          /\ p \in Seq(Tokens) /\ Ordered(s, h, q, p)
      BY <2>2
    <3>2. way = s \o h \o q \o p /\ Count(row) = Total(s, h, q, p)
      BY DEF Count
    <3> HIDE DEF way, s, h, q, p
    <3> QED
      BY <3>1, <3>2, WayCounts
  <2> HIDE DEF way
  <2>4. Len(way) >= row.produced - (IF ctx[r].agent = "done" THEN 1 ELSE 0)
    BY <2>1, <2>3 DEF TokenInv, Agrees, CountsTo
  <2> QED
    BY <2>3, <2>4 DEF row, way, CountsTo
<1>2. StreamInv => NoTokenIsLost
  BY <1>1 DEF NoTokenIsLost
<1> QED
  BY <1>2, StreamInvHolds, PTL

\* The last message of a response comes last and is true.
THEOREM LastWordIsTrueHolds == StreamSpec => []LastWordIsTrue
<1>1. ASSUME StreamInv, NEW r \in Streams, stream[r].told # NULL
      PROVE  /\ ctx[r].phase = "finalized" /\ ctx[r].outcome = stream[r].told
             /\ stream[r].queue = << >> /\ stream[r].hand = << >>
             /\ stream[r].told = "succeeded" =>
                  Len(stream[r].sent) = stream[r].produced
  <2> DEFINE row == stream[r]
  <2>1. TokenInv(row, ctx[r]) /\ row \in StreamState
    BY <1>1 DEF StreamInv, AllTokens, TokenInv, Bounded
  <2>2. /\ ctx[r].phase = "finalized" /\ ctx[r].outcome = row.told
        /\ row.queue = << >> /\ row.hand = << >>
    BY <1>1, <2>1 DEF TokenInv, Bounded, Agrees
  <2>3. ASSUME row.told = "succeeded" PROVE Len(row.sent) = row.produced
    <3>1. row.put = << >> /\ Total(row.sent, << >>, << >>, << >>) = row.produced
      BY <2>1, <2>2, <2>3 DEF TokenInv, Agrees, Count
    <3>2. row.sent \in Seq(Tokens)
      BY <2>1 DEF StreamState
    <3> QED
      BY <3>1, <3>2 DEF Total
  <2> QED
    BY <2>2, <2>3
<1>2. StreamInv => LastWordIsTrue
  BY <1>1 DEF LastWordIsTrue
<1> QED
  BY <1>2, StreamInvHolds, PTL
=============================================================================
