------------------------------- MODULE RagQuery -------------------------------
(***************************************************************************)
(* Questions to an index (run_rag_query of month02_rag_agent/rag_chain.py, *)
(* search of retriever.py), while builders replace it: load the index,     *)
(* retrieve, ask the language model, and ask again if its citations are    *)
(* not valid.                                                              *)
(***************************************************************************)
EXTENDS IndexFile

CONSTANTS
    Readers,            \* processes that ask
    TopK,               \* top_k
    MaxCitationRetries  \* max_citation_retries

ASSUME QueryAssumption == TopK \in Nat \ {0} /\ MaxCitationRetries \in Nat

VARIABLE query          \* per reader: its place in run_rag_query, its locals

QueryState ==
    [pc        : {"out", "generate", "ended"},
     status    : {"none", "unreadable", "wrong_model", "raised",
                  "no_context", "citation_refused", "success"},
     retrieved : 0..TopK,
     calls     : 0..(MaxCitationRetries + 1),
     retries   : 0..MaxCitationRetries,
     cited     : SUBSET (1..TopK)]

NoQuery == [pc |-> "out", status |-> "none", retrieved |-> 0,
            calls |-> 0, retries |-> 0, cited |-> {}]

QueryTypeOK == query \in [Readers -> QueryState]
QueryInit == query = [q \in Readers |-> NoQuery]

Ended(row, status) == [row EXCEPT !.pc = "ended", !.status = status]
Ends(q, status)    == query' = [query EXCEPT ![q] = Ended(NoQuery, status)]

\* json.load and validate_index, the comparison of the models, and search:
\* top_k of the records, or fewer that reach min_score.  Without a file,
\* FileNotFoundError.  The file that is opened stays the same while it is
\* read, when the path gets another one, so one moment stands for it all.
Chosen(file) == 0..Min({TopK, Cardinality(Chunks(InputOf[file.by]))})

Retrieve(q) ==
    /\ query[q].pc = "out"
    /\ index # NoFile
    /\ \/ ~index.whole /\ Ends(q, "unreadable")
       \/ index.whole /\ index.by = "another" /\ Ends(q, "wrong_model")
       \/ index.whole /\ index.by # "another" /\ \E n \in Chosen(index) :
            IF n = 0 THEN Ends(q, "no_context")
            ELSE query' = [query EXCEPT ![q].pc = "generate", ![q].retrieved = n]

\* validate_answer_citations, for the ranks an answer cites; 0 and TopK + 1
\* stand for the ranks that were never given out.
CitesSome(cites, n) == cites # {}                                   \* mutant
Valid(cites, n)     == cites # {} /\ cites \subseteq 1..n

\* One turn of the loop.
Generate(q) ==
    /\ query[q].pc = "generate"
    /\ \E cites \in SUBSET (0..(TopK + 1)) :
         LET row  == query[q]
             done == [row EXCEPT !.calls = @ + 1]
         IN  query' = [query EXCEPT ![q] =
               CASE Valid(cites, row.retrieved) ->
                      Ended([done EXCEPT !.cited = cites \cap 1..TopK], "success")
                 [] ~Valid(cites, row.retrieved) /\ row.calls = MaxCitationRetries ->
                      Ended(done, "citation_refused")
                 [] OTHER -> [done EXCEPT !.retries = @ + 1]]

\* llm.generate, embed_query or cosine_similarity raises.
QueryRaises(q) == /\ query[q].pc \in {"out", "generate"}
                  /\ Ends(q, "raised")

Forget(q) == /\ query[q].pc = "ended"
             /\ query' = [query EXCEPT ![q] = NoQuery]

QueryStep(q) == Retrieve(q) \/ Generate(q) \/ QueryRaises(q) \/ Forget(q)

-----------------------------------------------------------------------------
(* Properties.                                                             *)

\* A question is never turned away by a half-written index, and an answer
\* cites only records that were retrieved for it, all from one index; a
\* refusal comes after exactly the calls that are allowed.
AnswersAreGrounded ==
    \A q \in Readers :
      LET row == query[q]
      IN  /\ row.status # "unreadable"
          /\ row.status = "success" => /\ row.cited # {}
                                       /\ row.cited \subseteq 1..row.retrieved
                                       /\ row.calls = row.retries + 1
          /\ row.status = "citation_refused" =>
               row.calls = MaxCitationRetries + 1 /\ row.retries = MaxCitationRetries
          /\ row.status = "no_context" => row.calls = 0
=============================================================================
