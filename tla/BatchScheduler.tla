---------------------------- MODULE BatchScheduler ----------------------------
(***************************************************************************)
(* The continuous-batching scheduler of month03_llm_serving/scheduler.py   *)
(* with its waiting queue (request_queue.py) and the loop that drives it   *)
(* (simulation.py).  One call of step() is a sequence of the actions       *)
(* Begin, Admit*, Readmit*, Serve*, End: one per turn of its loops, in the *)
(* order the code runs them, with no call in between.                      *)
(***************************************************************************)
EXTENDS PagedKVCache, SequencesExt

CONSTANTS
    Prompts,         \* values of prompt_tokens
    Outputs,         \* values of max_new_tokens
    MaxActive,       \* max_active_requests
    QueueCapacity,   \* queue_capacity
    MaxBatchTokens,  \* max_batch_tokens
    Preempting,      \* the policy is RECOMPUTE_LAST, not NONE
    MaxPreemptions,  \* max_preemptions_per_request
    MaxByCaller      \* bound of the model on calls of preempt(), per request

ASSUME SchedulerAssumption ==
    /\ Prompts \subseteq Nat \ {0} /\ Outputs \subseteq Nat \ {0}
    /\ MaxActive \in Nat \ {0} /\ QueueCapacity \in Nat \ {0}
    /\ MaxBatchTokens \in Nat \ {0} /\ MaxPreemptions \in Nat \ {0}
    /\ MaxByCaller \in Nat /\ Preempting \in BOOLEAN

VARIABLES
    pc,            \* where step() is; "raised" when an exception left it
    request,       \* the requests and their RequestState
    waiting,       \* _request_queue
    active,        \* _request_states
    preempted,     \* _preempted_states
    kv,            \* _kv_cache: the tokens really written
    reservations,  \* _kv_reservations: the peak each active request may reach
    cursor,        \* position of the batch loop in active
    remaining,     \* remaining_states: those it passed that are not finished
    spent          \* _last_step_token_count

queues == <<waiting, active, preempted>>
caches == <<kv, reservations>>
loop   == <<cursor, remaining, spent>>
vars   == <<pc, request, queues, caches, loop>>

\* Requests that are not submitted are "absent", those in the waiting queue
\* have no RequestState yet.
State == [phase       : {"absent", "waiting", "prefill", "decode", "finished"},
          prompt      : Nat,   \* prompt_tokens
          output      : Nat,   \* max_new_tokens
          generated   : Nat,
          prefilled   : Nat,
          target      : Nat,   \* prefill_target_tokens
          recomputing : BOOLEAN,
          preemptions : Nat]

Submitted(phase, prompt, output) ==
    [phase |-> phase, prompt |-> prompt, output |-> output, generated |-> 0,
     prefilled |-> 0, target |-> prompt, recomputing |-> FALSE,
     preemptions |-> 0]

SchedTypeOK ==
    /\ pc \in {"idle", "admit", "readmit", "batch", "raised"}
    /\ request \in [Requests -> State]
    /\ waiting \in Seq(Requests) /\ Len(waiting) <= QueueCapacity
    /\ active \in Seq(Requests) /\ Len(active) <= MaxActive
    /\ preempted \in Seq(Requests)
    /\ kv \in Cache /\ reservations \in Cache
    /\ cursor \in 1..(MaxActive + 1)
    /\ remaining \in Seq(Requests)
    /\ spent \in 0..MaxBatchTokens

Init ==
    /\ pc = "idle"
    /\ request = [r \in Requests |-> Submitted("absent", 0, 0)]
    /\ waiting = << >> /\ active = << >> /\ preempted = << >>
    /\ kv = EmptyCache /\ reservations = EmptyCache
    /\ cursor = 1 /\ remaining = << >> /\ spent = 0

Elements(s) == {s[i] : i \in DOMAIN s}

\* The last token needs no place: nothing is decoded after it.
PromptOnly(r) == request[r].prompt                                  \* mutant
Required(r) == request[r].prompt + request[r].output - 1

-----------------------------------------------------------------------------
(* Between two steps.                                                      *)

\* submit.  A request that could never fit, or finds the queue full, is
\* refused with an exception and changes nothing.
Submit(r, prompt, output) ==
    /\ pc = "idle"
    /\ request[r].phase = "absent"
    /\ prompt + output - 1 <= Capacity
    /\ Len(waiting) < QueueCapacity
    /\ request' = [request EXCEPT ![r] = Submitted("waiting", prompt, output)]
    /\ waiting' = Append(waiting, r)
    /\ UNCHANGED <<pc, active, preempted, caches, loop>>

\* preempt_for_recompute: the last generated token was never written.
WithLastToken(s) ==                                                 \* mutant
    [s EXCEPT !.phase = "prefill", !.prefilled = 0, !.recomputing = TRUE,
              !.target = s.prompt + s.generated, !.preemptions = @ + 1]
ForRecompute(s) ==
    [s EXCEPT !.phase = "prefill", !.prefilled = 0, !.recomputing = TRUE,
              !.target = s.prompt + s.generated - 1, !.preemptions = @ + 1]

\* preempt, of the request at position i of the active ones
Preempt(i) ==
    LET r == active[i]
    IN  /\ request[r].phase = "decode"
        /\ request' = [request EXCEPT ![r] = ForRecompute(@)]
        /\ kv' = Release(kv, r)
        /\ reservations' = Release(reservations, r)
        /\ active' = RemoveAt(active, i)
        /\ preempted' = Append(preempted, r)

\* preempt is public: its callers are not held to max_preemptions_per_request.
PreemptByCaller(i) ==
    /\ pc = "idle"
    /\ request[active[i]].preemptions < MaxByCaller
    /\ Preempt(i)
    /\ UNCHANGED <<pc, waiting, loop>>

-----------------------------------------------------------------------------
(* step                                                                    *)

Begin == /\ pc = "idle"
         /\ pc' = "admit"
         /\ spent' = 0
         /\ UNCHANGED <<request, queues, caches, cursor, remaining>>

Activate(r) ==
    /\ reservations' = AppendTokens(reservations, r, Required(r))
    /\ active' = Append(active, r)

\* Whom _select_preemption_victim may take: it takes the last of them.
Victims == {i \in DOMAIN active :
              /\ request[active[i]].phase = "decode"
              /\ request[active[i]].preemptions < MaxPreemptions}

MayAdmit == Len(active) < MaxActive /\ waiting # << >>
HeadFits == Fits(reservations, Head(waiting), Required(Head(waiting)))

Admit ==
    /\ pc = "admit" /\ MayAdmit /\ HeadFits
    /\ Activate(Head(waiting))
    /\ waiting' = Tail(waiting)
    /\ request' = [request EXCEPT ![Head(waiting)].phase = "prefill"]
    /\ UNCHANGED <<pc, preempted, kv, loop>>

\* The head of the queue keeps its place and is tried again.
PreemptForHead ==
    /\ pc = "admit" /\ MayAdmit /\ ~HeadFits
    /\ Preempting
    /\ \E i \in Victims : (\A j \in Victims : j <= i) /\ Preempt(i)
    /\ UNCHANGED <<pc, waiting, loop>>

EndAdmission ==
    /\ pc = "admit"
    /\ MayAdmit => ~HeadFits /\ ~(Preempting /\ Victims # {})
    /\ pc' = "readmit"
    /\ UNCHANGED <<request, queues, caches, loop>>

MayReadmit == /\ Len(active) < MaxActive
              /\ preempted # << >>
              /\ Fits(reservations, Head(preempted), Required(Head(preempted)))

Readmit ==
    /\ pc = "readmit" /\ MayReadmit
    /\ Activate(Head(preempted))
    /\ preempted' = Tail(preempted)
    /\ UNCHANGED <<pc, request, waiting, kv, loop>>

EndReadmission ==
    /\ pc = "readmit" /\ ~MayReadmit
    /\ pc' = "batch"
    /\ cursor' = 1
    /\ remaining' = << >>
    /\ UNCHANGED <<request, queues, caches, spent>>

\* run_prefill.  A recompute rebuilds the cache and generates nothing.
AlwaysFirstToken(s, n) ==                                           \* mutant
    IF s.prefilled + n < s.target THEN [s EXCEPT !.prefilled = @ + n]
    ELSE [s EXCEPT !.prefilled = @ + n, !.recomputing = FALSE,
                   !.generated = 1,
                   !.phase = IF 1 >= s.output THEN "finished" ELSE "decode"]
RunPrefill(s, n) ==
    LET tokens == IF s.recomputing THEN s.generated ELSE 1
    IN  IF s.prefilled + n < s.target THEN [s EXCEPT !.prefilled = @ + n]
        ELSE [s EXCEPT !.prefilled = @ + n, !.recomputing = FALSE,
                       !.generated = tokens,
                       !.phase = IF tokens >= s.output THEN "finished"
                                                       ELSE "decode"]

RunDecode(s) ==
    [s EXCEPT !.generated = @ + 1,
              !.phase = IF s.generated + 1 >= s.output THEN "finished" ELSE @]

Budget == MaxBatchTokens - spent
Least(a, b) == IF a < b THEN a ELSE b
Planned(s) == IF s.phase = "prefill" THEN Least(s.target - s.prefilled, Budget)
              ELSE 1
Ran(s) == IF s.phase = "prefill" THEN RunPrefill(s, Planned(s)) ELSE RunDecode(s)

Current == active[cursor]
InBatch == pc = "batch" /\ cursor \in DOMAIN active

\* No budget left: this request and those behind it sit the step out.
Pass == /\ InBatch /\ Budget <= 0
        /\ cursor' = cursor + 1
        /\ remaining' = Append(remaining, Current)
        /\ UNCHANGED <<pc, request, queues, caches, spent>>

\* A request that finishes gives everything back.
FreesNothing(cache, r, s) == cache                                  \* mutant
LeftIn(cache, r, s) == IF s.phase = "finished" THEN Release(cache, r) ELSE cache

\* append_tokens and then run_prefill or run_decode_step.  When the cache is
\* full the exception leaves step(), half done.
Serve ==
    /\ InBatch /\ Budget > 0
    /\ LET r == Current
           n == Planned(request[r])
           s == Ran(request[r])
           written == AppendTokens(kv, r, n)
       IN  IF Fits(kv, r, n)
             THEN /\ request' = [request EXCEPT ![r] = s]
                  /\ kv' = LeftIn(written, r, s)
                  /\ reservations' = LeftIn(reservations, r, s)
                  /\ spent' = spent + n
                  /\ cursor' = cursor + 1
                  /\ remaining' = IF s.phase = "finished" THEN remaining
                                                         ELSE Append(remaining, r)
                  /\ UNCHANGED pc
             ELSE /\ pc' = "raised"
                  /\ UNCHANGED <<request, caches, loop>>
    /\ UNCHANGED queues

\* So no request in active is finished when a step begins.
End == /\ pc = "batch" /\ cursor = Len(active) + 1
       /\ active' = remaining
       /\ pc' = "idle"
       /\ cursor' = 1
       /\ remaining' = << >>
       /\ UNCHANGED <<request, waiting, preempted, caches, spent>>

Step == \/ Begin \/ Admit \/ PreemptForHead \/ EndAdmission
        \/ Readmit \/ EndReadmission \/ Pass \/ Serve \/ End

Next == \/ Step
        \/ \E i \in DOMAIN active : PreemptByCaller(i)
        \/ \E r \in Requests, p \in Prompts, o \in Outputs : Submit(r, p, o)

\* run_workload calls step() over and over while requests are left.
Spec == Init /\ [][Next]_vars /\ WF_vars(Step)

-----------------------------------------------------------------------------
(* Properties.                                                             *)

\* What is written in the cache is just what the next step of a request
\* builds on: the prefilled part of its prompt, or its prompt and all its
\* tokens but the last, also after it was preempted and recomputed; and it
\* never outgrows the reservation.  Who is not active holds nothing.
CacheMatchesProgress ==
    \A r \in Requests :
      LET s == request[r]
          holds == r \in Elements(active) /\ s.phase # "finished"
      IN  /\ kv.tokens[r] =
               IF ~holds THEN 0
               ELSE IF s.phase = "prefill" THEN s.prefilled
               ELSE s.prompt + s.generated - 1
          /\ reservations.tokens[r] = IF holds THEN Required(r) ELSE 0
          /\ kv.tokens[r] <= reservations.tokens[r]

\* The reservations cover whatever a step writes: append_tokens, which
\* nobody catches in the batch loop, never raises there, whatever was
\* admitted, preempted and recomputed before.
StepNeverRaises == pc # "raised"

\* In both caches every block is in one place, and a request has just the
\* blocks its tokens need.
BlocksPartitioned == Consistent(kv) /\ Consistent(reservations)

\* A preemption costs time, never output: the tokens generated so far are
\* kept through release and recompute, and no request exceeds its limit.
OutputIsKept ==
    [][\A r \in Requests :
         request[r].phase # "absent" =>
           /\ request'[r].generated \in {request[r].generated,
                                         request[r].generated + 1}
           /\ request'[r].generated <= request[r].output]_vars

\* Every submitted request is finished, though it may be overtaken, preempted
\* and made to wait for space, and the last one preempted has to come back.
EveryRequestFinishes ==
    \A r \in Requests :
      request[r].phase = "waiting" ~> request[r].phase = "finished"
=============================================================================
