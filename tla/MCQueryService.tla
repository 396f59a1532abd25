--------------------------- MODULE MCQueryService ---------------------------
(* Small instances of QueryService, and one of Reranker beside them: a     *)
(* workload exercises one of the two.                                      *)
EXTENDS QueryService

(* Two namespaces: 1 holds documents 11, 12 and 13, 2 holds document 21.   *)
(* Chunk 4 has the content of chunk 1.  Document 12 is an old version.     *)
MCChunk ==
    [c \in 1..6 |->
        CASE c = 1 -> [doc |-> 11, ns |-> 1, parent |-> 91]
          [] c = 2 -> [doc |-> 11, ns |-> 1, parent |-> 92]
          [] c = 3 -> [doc |-> 12, ns |-> 1, parent |-> 93]
          [] c = 4 -> [doc |-> 21, ns |-> 2, parent |-> 94]
          [] c = 5 -> [doc |-> 21, ns |-> 2, parent |-> 0]
          [] c = 6 -> [doc |-> 13, ns |-> 1, parent |-> 0]]

MCContent ==
    [x \in {<<"chunk", c>> : c \in 1..6}
             \cup {<<k, d>> : k \in {"document_summary", "document_label"}, d \in {11, 12, 13, 21}} |->
        IF x[1] = "chunk" THEN (IF x[2] = 4 THEN 1 ELSE x[2])
        ELSE IF x[1] = "document_summary" THEN 10 + x[2] ELSE 50 + x[2]]

MCModel ==
    [x \in {"q", "v"} \X (1..6) |->
        CASE x = <<"q", 1>> -> 300 [] x = <<"q", 2>> -> 900 [] x = <<"q", 4>> -> 300
          [] x = <<"q", 5>> -> 600 [] OTHER -> 150]

Hit(points, fts, sparse, summaries, titles) ==
    [points |-> points, fts |-> fts, sparse |-> sparse, summaries |-> summaries, titles |-> titles]

P(kind, c) == [kind |-> kind, child |-> c]

MCHits ==
    (<<1, "q">> :> Hit(<<P("chunk", 1), P("hype", 2), P("chunk", 3), P("hype", 2)>>, <<3, 1>>, <<3, 2>>,
                       <<12, 11>>, <<11>>)
    @@ <<2, "q">> :> Hit(<<P("chunk", 4), P("contextual", 5)>>, <<5>>, <<>>, <<21>>, <<21>>)
    @@ <<1, "v">> :> Hit(<<P("chunk", 6)>>, <<6, 2>>, <<>>, <<>>, <<11>>)
    @@ <<2, "v">> :> Hit(<<P("chunk", 5)>>, <<>>, <<4>>, <<21>>, <<>>))

MCParents ==
    (91 :> [ns |-> 1, bytes |-> 3] @@ 92 :> [ns |-> 1, bytes |-> 2] @@ 94 :> [ns |-> 2, bytes |-> 2])

Plain ==
    [nss |-> <<1, 2>>, query |-> "q", variants |-> <<"v">>, granularity |-> "chunk", rerank |-> TRUE,
     finalRerank |-> FALSE, topK |-> 2, topN |-> 0, runs |-> 1, ragFusion |-> "off", margin |-> 2000,
     crag |-> FALSE, depth |-> 0, bytes |-> 0, budget |-> 0, asked |-> "complex", smallTalk |-> FALSE,
     label |-> "complex"]

Calm == [k \in Kind |-> 0]

Workload(reqs, faults) ==
    [reqs |-> reqs, hits |-> MCHits, parents |-> MCParents, hidden |-> {12}, budget |-> faults,
     answers |-> {<<2, 1>>, <<7>>}, scoring |-> FALSE]

MCConfigs ==
    {\* two requests, one under a deadline, share one worker and a short queue
     Workload("r1" :> [Plain EXCEPT !.budget = 1] @@ "r2" :> [Plain EXCEPT !.nss = <<2>>, !.budget = 1],
              [Calm EXCEPT !["lookup"] = 1]),
     \* both granularities, any fault
     Workload("r1" :> [Plain EXCEPT !.granularity = "auto"],
              [Calm EXCEPT !["acquire"] = 1, !["throw"] = 1, !["recall"] = 1, !["hide"] = 1]),
     Workload("r1" :> [Plain EXCEPT !.granularity = "doc", !.rerank = FALSE, !.asked = "none",
                                    !.label = "simple", !.budget = 2],
              [Calm EXCEPT !["recall"] = 1, !["lookup"] = 1, !["throw"] = 1]),
     \* query variants
     Workload("r1" :> [Plain EXCEPT !.ragFusion = "always", !.finalRerank = TRUE],
              [Calm EXCEPT !["llm"] = 1, !["score"] = 1]),
     Workload("r1" :> [Plain EXCEPT !.ragFusion = "selective", !.budget = 2],
              [Calm EXCEPT !["acquire"] = 1]),
     Workload("r1" :> [Plain EXCEPT !.nss = <<1>>, !.ragFusion = "selective", !.margin = 10,
                                    !.finalRerank = TRUE],
              [Calm EXCEPT !["score"] = 1]),
     \* votes, verdicts and parents
     Workload("r1" :> [Plain EXCEPT !.topN = 3, !.runs = 2, !.depth = 2, !.bytes = 4, !.crag = TRUE],
              [Calm EXCEPT !["llm"] = 2, !["parent"] = 1]),
     Workload("r1" :> [Plain EXCEPT !.nss = <<1>>, !.topK = 3, !.topN = 3, !.runs = 1, !.depth = 1,
                                    !.bytes = 4, !.budget = 2],
              [Calm EXCEPT !["llm"] = 1]),
     \* no search
     Workload("r1" :> [Plain EXCEPT !.asked = "auto", !.smallTalk = TRUE]
                @@ "r2" :> [Plain EXCEPT !.asked = "best"], [Calm EXCEPT !["acquire"] = 1]),
     \* the reranker
     [Workload(<<>>, Calm) EXCEPT !.scoring = TRUE]}
-----------------------------------------------------------------------------
VARIABLES state, failures, since, call, tasks, work, faults, raced

rerank == <<state, failures, since, call, tasks, work, faults, raced>>

R == INSTANCE Reranker WITH
        Caller <- {"c1", "c2"}, Scorer <- {"s1"}, Threshold <- 2, PoolCap <- 1,
        Batch <- [c1 |-> <<"normal", "long">>, c2 |-> <<"normal", "normal">>],
        Faults <- [late |-> 2, fail |-> 2]

MCInit == Init /\ R!RInit

MCNext == \/ ~ config.scoring /\ Next /\ UNCHANGED rerank
          \/ config.scoring /\ R!RNext /\ UNCHANGED vars

MCSpec == /\ MCInit /\ [][MCNext]_<<vars, rerank>>
          /\ Fairness /\ (config.scoring => R!RFairness)

(* Reranker's ScoresTrueOrZero: a passage's score is its own or zero. *)
ScoresTrueOrZero == R!ScoresTrueOrZero

(* Reranker's Recovers: the breaker closes for good, but for one race. *)
Recovers == R!Recovers
=============================================================================
