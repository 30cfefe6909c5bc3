---------------------------- MODULE StreamService ----------------------------
(***************************************************************************)
(* The request service of month04_deploy/app with what /v1/agent/stream    *)
(* adds to it: the agent puts its tokens into a bounded queue and waits    *)
(* while it is full (stream_runner.py), the response pulls them out and    *)
(* sends them, then a last message with the published outcome              *)
(* (stream_consumer.py), and every send, the client and a deadline of its  *)
(* own can break the response off (stream_response.py, send_timeout.py).   *)
(* The response of a stream is its transport monitor in RequestLifecycle.  *)
(* Agents let a CancelledError through, so none comes to lose the contest  *)
(* for finalizing: it is cancelled before it gets there.                   *)
(***************************************************************************)
EXTENDS RequestLifecycle

CONSTANTS
    MaxTokens,   \* bound: tokens an agent yields
    QueueSize    \* maxsize of stream_queue

ASSUME StreamAssumption == /\ MaxTokens \in Nat
                           /\ QueueSize \in Nat \ {0}
                           /\ Stubborn = {}

VARIABLE stream      \* per stream: its queue and its response

streamVars == <<vars, stream>>

Tokens == 1..MaxTokens

\* put holds the token the producer waits to put, hand the one being sent;
\* pc is where the response is, in the consumer ("pull", "wait", and a send
\* of each kind) or past it.
StreamState ==
    [produced : 0..MaxTokens,
     put      : Seq(Tokens),
     queue    : Seq(Tokens),
     hand     : Seq(Tokens),
     sent     : Seq(Tokens),
     pc       : {"start", "pull", "wait", "token", "done", "end", "over"},
     told     : Outcomes \cup {NULL},
     outcome  : {NULL, "sent", "disconnected", "send_timed_out", "failed",
                 "response_timed_out"}]

NewStream == [produced |-> 0, put |-> << >>, queue |-> << >>, hand |-> << >>,
              sent |-> << >>, pc |-> "start", told |-> NULL, outcome |-> NULL]

StreamTypeOK ==
    /\ RequestTypeOK
    /\ stream \in [Streams -> StreamState]
    /\ \A r \in Streams : /\ Len(stream[r].queue) <= QueueSize
                          /\ Len(stream[r].put) <= 1 /\ Len(stream[r].hand) <= 1

StreamInit == Init /\ stream = [r \in Streams |-> NewStream]

-----------------------------------------------------------------------------
(* The producer.                                                           *)

HasRoom(r) == Len(stream[r].queue) < QueueSize

\* The agent yields a token, and the runner awaits queue.put.
Produce(r) ==
    /\ ctx[r].agent = "running"
    /\ ~ctx[r].cancelling
    /\ ctx[r].phase # "finalizing"
    /\ stream[r].put = << >>
    /\ stream[r].produced < MaxTokens
    /\ LET token == stream[r].produced + 1
           next  == [stream[r] EXCEPT !.produced = token]
       IN  stream' = [stream EXCEPT ![r] =
             IF HasRoom(r) THEN [next EXCEPT !.queue = Append(@, token)]
             ELSE [next EXCEPT !.put = <<token>>]]
    /\ UNCHANGED vars

\* A put that waited is woken by a get.
PutResumes(r) ==
    /\ ctx[r].agent = "running"
    /\ ~ctx[r].cancelling
    /\ stream[r].put # << >>
    /\ HasRoom(r)
    /\ stream' = [stream EXCEPT ![r].queue = @ \o stream[r].put, ![r].put = << >>]
    /\ UNCHANGED vars

\* The stream of tokens ends, or raises, between two tokens.
WhilePutting(r) == TRUE                                             \* mutant
NothingToPut(r) == stream[r].put = << >>

ProducerEnds(r) ==
    /\ NothingToPut(r)
    /\ \E e \in {"completed", "internal_error"} : AgentWins(r, e)
    /\ UNCHANGED stream

\* CancelledError ends the put with the task; its token is not put.
ProducerStep(r) ==
    /\ AgentStep(r)
    /\ stream' = [stream EXCEPT ![r].put = << >>]

-----------------------------------------------------------------------------
(* The consumer: iter_stream_jsonl and the sends of StreamingResponse.     *)

Responds(r) == /\ stage[r] = "admitted"
               /\ ctx[r].monitor["transport"] = "watching"

\* get_nowait; an empty queue of a finalized request is the end.
LooksOnlyAtPhase(r) == ctx[r].phase = "finalized"                   \* mutant
QueueIsDry(r)       == stream[r].queue = << >> /\ ctx[r].phase = "finalized"

TakesToken(row) == [row EXCEPT !.hand = <<Head(row.queue)>>,
                               !.queue = Tail(row.queue),
                               !.pc = "token"]

Pull(r) ==
    /\ Responds(r)
    /\ stream[r].pc = "pull"
    /\ stream' = [stream EXCEPT ![r] =
         IF QueueIsDry(r) THEN [@ EXCEPT !.pc = "done"]
         ELSE IF @.queue # << >> THEN TakesToken(@)
         ELSE [@ EXCEPT !.pc = "wait"]]
    /\ UNCHANGED vars

\* asyncio.wait for a token and for finalized_event.  Whether the get of a
\* token was in time or is cancelled with the token still in the queue is
\* not determined when both are there.
GetDropsToken(row) == [row EXCEPT !.pc = "pull",                    \* mutant
                                  !.queue = IF @ = << >> THEN @ ELSE Tail(@)]
GetIsCancelled(row) == [row EXCEPT !.pc = "pull"]

WaitEnds(r) ==
    /\ Responds(r)
    /\ stream[r].pc = "wait"
    /\ \/ /\ stream[r].queue # << >>
          /\ stream' = [stream EXCEPT ![r] = TakesToken(@)]
       \/ /\ ctx[r].phase = "finalized"
          /\ stream' = [stream EXCEPT ![r] = GetIsCancelled(@)]
    /\ UNCHANGED vars

\* A send has returned.  After the last one the response is complete.
AfterSend(row, outcome) ==
    CASE row.pc = "start" -> [row EXCEPT !.pc = "pull"]
      [] row.pc = "token" -> [row EXCEPT !.pc = "pull",
                                         !.sent = @ \o row.hand,
                                         !.hand = << >>]
      [] row.pc = "done"  -> [row EXCEPT !.pc = "end", !.told = outcome]
      [] row.pc = "end"   -> [row EXCEPT !.pc = "over", !.outcome = "sent"]

Sending(r) == Responds(r) /\ stream[r].pc \in {"start", "token", "done", "end"}

SendReturns(r) ==
    /\ Sending(r)
    /\ stream' = [stream EXCEPT ![r] = AfterSend(@, ctx[r].outcome)]
    /\ UNCHANGED vars

-----------------------------------------------------------------------------
(* The response: AgentStreamingResponse.__call__.                          *)

EventOf == [disconnected       |-> "client_disconnected",
            send_timed_out     |-> "send_timeout",
            failed             |-> "internal_error",
            response_timed_out |-> "response_deadline_exceeded"]

Breaks(r, outcome) ==
    /\ Responds(r)
    /\ stream[r].pc # "over"
    /\ stream' = [stream EXCEPT ![r].pc = "over", ![r].outcome = outcome]
    /\ UNCHANGED vars

\* timed_send, or an exception of the send.
SendTimesOut(r) == Sending(r) /\ Breaks(r, "send_timed_out")
SendFails(r)    == Sending(r) /\ Breaks(r, "failed")
Disconnects(r)  == Breaks(r, "disconnected")

RunsOutOfTime(r) == /\ "response_deadline_exceeded" \in ctx[r].due
                    /\ Breaks(r, "response_timed_out")

\* finally: finalize the request if nobody has, and wait for its tasks.
FinalizesAnyway(r, e) == MonitorWins(r, "transport", e) \/ MonitorLoses(r, "transport", e)

ResponseEnds(r) ==
    /\ stream[r].pc = "over"
    /\ \/ Notice(r, "transport")
       \/ /\ stream[r].outcome # "sent"
          /\ FinalizesAnyway(r, EventOf[stream[r].outcome])
    /\ UNCHANGED stream

-----------------------------------------------------------------------------
(* The service.                                                            *)

\* What streams and requests to /run have in common.
Restarts(r) == stream' = [s \in Streams |-> IF s = r THEN NewStream ELSE stream[s]]
Answers(r)  == (Admit(r) /\ Restarts(r)) \/ (Refuse(r) /\ UNCHANGED stream)
Leaves(r)   == Leave(r) /\ Restarts(r)

Deadline(r) == (Fires(r, "deadline") \/ Notice(r, "deadline")) /\ UNCHANGED stream
Expires(r)  == Expire(r, "deadline_exceeded") /\ UNCHANGED stream
Finishes(r) == \E m \in Monitors : Finish(r, m) /\ UNCHANGED stream

CommonStep(r) ==
    \/ Enter(r) /\ UNCHANGED stream
    \/ Expire(r, "response_deadline_exceeded") /\ UNCHANGED stream
    \/ Answers(r) \/ Leaves(r) \/ Expires(r) \/ Deadline(r) \/ Finishes(r)

Breaking(r) == SendTimesOut(r) \/ SendFails(r) \/ Disconnects(r) \/ RunsOutOfTime(r)

StreamStep(r) ==
    \/ Produce(r) \/ PutResumes(r) \/ ProducerEnds(r) \/ ProducerStep(r)
    \/ Pull(r) \/ WaitEnds(r) \/ SendReturns(r)
    \/ Breaking(r) \/ ResponseEnds(r)

\* A request to /run: the agent without tokens, the disconnect monitor.
PlainAgent(r) == AgentStep(r) /\ UNCHANGED stream
PlainEnds(r)  == Notice(r, "transport") /\ UNCHANGED stream

PlainStep(r) ==
    \/ PlainAgent(r) \/ PlainEnds(r)
    \/ /\ \/ Fires(r, "transport")
          \/ \E e \in {"completed", "internal_error"} : AgentWins(r, e)
       /\ UNCHANGED stream

StreamNext == \E r \in Requests : \/ CommonStep(r)
                                  \/ r \in Streams /\ StreamStep(r)
                                  \/ r \notin Streams /\ PlainStep(r)

StreamSpec == StreamInit /\ [][StreamNext]_streamVars

\* The event loop runs every task that can go on and time passes; a send
\* comes back or times out.  Nothing is asked of agents but that they exit
\* when cancelled, and of clients nothing at all.
FairStreamSpec ==
    /\ StreamSpec
    /\ \A r \in Requests :
         /\ WF_streamVars(Answers(r)) /\ WF_streamVars(Leaves(r))
         /\ WF_streamVars(Expires(r)) /\ WF_streamVars(Deadline(r))
         /\ WF_streamVars(Finishes(r))
    /\ \A r \in Requests \ Streams :
         WF_streamVars(PlainAgent(r)) /\ WF_streamVars(PlainEnds(r))
    /\ \A r \in Streams :
         /\ WF_streamVars(ProducerStep(r))
         /\ WF_streamVars(Pull(r) \/ WaitEnds(r) \/ SendReturns(r) \/ SendTimesOut(r))
         /\ WF_streamVars(ResponseEnds(r))

-----------------------------------------------------------------------------
(* Properties.                                                             *)

\* While a response goes on, no token is lost, doubled or overtaken on its
\* way from the agent through the queue to the client, though get and put
\* are cancelled at any moment: only the one that the agent was waiting to
\* put when it was cancelled is missing at the end.
NoTokenIsLost ==
    \A r \in Streams :
      LET row == stream[r]
          way == row.sent \o row.hand \o row.queue \o row.put
      IN  /\ \A i \in DOMAIN way : way[i] = i
          /\ Len(way) >= row.produced - (IF ctx[r].agent = "done" THEN 1 ELSE 0)

\* The last message comes after every token, and only when the request is
\* finalized; it carries the outcome that was recorded, and a client that
\* reads "succeeded" has got everything the agent produced.
LastWordIsTrue ==
    \A r \in Streams :
      LET row == stream[r]
      IN  row.told # NULL =>
            /\ ctx[r].phase = "finalized" /\ ctx[r].outcome = row.told
            /\ row.queue = << >> /\ row.hand = << >>
            /\ row.told = "succeeded" => Len(row.sent) = row.produced

\* Every action above is made of an action of RequestLifecycle or leaves its
\* variables alone, so this holds by construction; it carries what is proved
\* of requests over to streams.
ImplementsLifecycle == Spec
=============================================================================
