------------------------------ MODULE Ranking ------------------------------
(***************************************************************************)
(* How a query's candidates are ranked, merged and cut: the five-path and  *)
(* document-level reciprocal rank fusions, the hybrid fusion by document,  *)
(* the gather across namespaces, the anchored fusion of query variants,    *)
(* the votes of the language model, the verdict's cut and the bounded      *)
(* expansion to parent texts.  Sources: src/retrieval/sparse_rrf.cpp,      *)
(* src/doc_summary/doc_fts5_index.cpp, and, in src/query,                  *)
(* live_single_unit_executor.cpp, scatter_gather.cpp, cross_ns_dedup.cpp,  *)
(* rag_fusion.cpp, rag_fusion_stage.cpp, llm_rerank_stage.cpp,             *)
(* crag_stage.cpp, parent_expansion.cpp, cross_ns_response.cpp and         *)
(* query_complexity_classifier.cpp.                                        *)
(*                                                                         *)
(* Scores are integers, in units of which One make 1.0; One is a multiple  *)
(* of every denominator the small lists of a run need, so the sums are     *)
(* exact.  Ids are numbers, so that ties by id can be ordered.             *)
(***************************************************************************)
EXTENDS Integers, FiniteSets, Sequences, FiniteSetsExt, SequencesExt, TLC

CONSTANTS
    RrfK,           \* the k of every reciprocal rank fusion
    WindowSize,     \* kLlmRerankWindowSize
    WindowStride,   \* kLlmRerankWindowStride
    AnchorMax,      \* fusion_anchor_max
    NoHash          \* the content hash of a result without content

One == 1200

ASSUME RankingAssumption ==
    /\ RrfK \in Nat \ {0} /\ WindowSize \in Nat \ {0} /\ AnchorMax \in Nat
    /\ WindowStride \in Nat \ {0} /\ WindowStride < WindowSize

AtLeastOne(k) == IF k < 1 THEN 1 ELSE k

Take(s, k) == SubSeq(s, 1, IF k < Len(s) THEN k ELSE Len(s))

Map(s, F(_)) == SubSeq([i \in DOMAIN s |-> F(s[i])], 1, Len(s))

(* The places of s that satisfy P, in order. *)
Places(s, P(_)) == SelectSeq(SubSeq([i \in DOMAIN s |-> i], 1, Len(s)), P)

(* s without the repetitions of an element. *)
Distinct(s) == Map(Places(s, LAMBDA i : \A j \in 1..(i - 1) : s[j] # s[i]), LAMBDA i : s[i])

(* std::stable_sort: equal elements keep their order. *)
StableSort(s, Before(_, _)) ==
    Map(SortSeq(Places(s, LAMBDA i : TRUE),
                LAMBDA i, j : Before(s[i], s[j]) \/ (i < j /\ ~ Before(s[j], s[i]))),
        LAMBDA i : s[i])

(* What position p of a list adds to the score of what stands there. *)
Contribution(p) == One \div (RrfK + p - 1)

(* The sum over lists of the contributions of x. *)
Votes(lists, x) ==
    MapThenSumSet(LAMBDA l : MapThenSumSet(Contribution, {p \in DOMAIN lists[l] : lists[l][p] = x}),
                  DOMAIN lists)

(* What the lists name, best voted first, ties by id. *)
ByVotes(lists) ==
    StableSort(Map(Distinct(FlattenSeq(lists)), LAMBDA x : [id |-> x, score |-> Votes(lists, x)]),
               LAMBDA a, b : a.score > b.score \/ (a.score = b.score /\ a.id < b.id))

(* The children named by the points of the vector index: a chunk's own     *)
(* vector, a generated question of it (one vote each child), or its        *)
(* contextual vector.  The simple route reads only the first kind.         *)
VectorPaths(points, chunkOnly) ==
    LET Of(kind) == Map(SelectSeq(points, LAMBDA p : p.kind = kind), LAMBDA p : p.child)
    IN <<Of("chunk"),
         IF chunkOnly THEN <<>> ELSE Of("contextual"),
         IF chunkOnly THEN <<>> ELSE Distinct(Of("hype"))>>

(* The fused children, best first, with their scores. *)
FuseFivePathRrf(lists, topN) == Take(ByVotes(lists), topN)

(* The documents of the two document-level paths; a document only the full *)
(* text search found has no summary to show.                               *)
FuseDocDiscovery(summaries, fts, topK) ==
    Map(Take(ByVotes(<<summaries, fts>>), topK),
        LAMBDA x : [doc |-> x.id, score |-> x.score,
                    kind |-> IF x.id \in ToSet(summaries) THEN "document_summary"
                             ELSE "document_label"])
-----------------------------------------------------------------------------
(* An item of a result: a passage (kind chunk) or a document.  text is the *)
(* length of the parent text it carries, 0 for none.                       *)

(* reranker and retrieval score, weighed 7 to 3 *)
ComputeRerankRrfScore(rr, score) == (7 * rr + 3 * score) \div 10

ByScore(a, b) == a.score > b.score

(* The passages reranked: scored[i] is what the cross encoder gave item i. *)
Reranked(items, scored) ==
    StableSort(Map(Places(items, LAMBDA i : TRUE),
                   LAMBDA i : [items[i] EXCEPT !.rr = scored[i],
                                               !.score = ComputeRerankRrfScore(scored[i], @)]),
               ByScore)

ByRerankScore(items) == StableSort(items, LAMBDA a, b : a.rr > b.rr)

(* One item for each document of either path, its best passage if there is *)
(* one.  Each path counts the document once, at its best rank; ties go to  *)
(* the stronger passage, then to the first seen.                           *)
FuseHybridChunksByDocId(chunks, docs, topK) ==
    LET Ranks(list, d) == {p \in DOMAIN list : list[p].doc = d}
        Best(list, d) == IF Ranks(list, d) = {} THEN 0 ELSE Contribution(Min(Ranks(list, d)))
        Cand(d) == [score |-> Best(chunks, d) + Best(docs, d),
                    passage |-> Ranks(chunks, d) # {},
                    item |-> IF Ranks(chunks, d) # {} THEN chunks[Min(Ranks(chunks, d))]
                             ELSE docs[Min(Ranks(docs, d))]]
        Before(a, b) == \/ a.score > b.score
                        \/ a.score = b.score /\ a.passage /\ ~ b.passage
                        \/ a.score = b.score /\ a.passage /\ b.passage /\ a.item.score > b.item.score
        cands == StableSort(Map(Distinct(Map(chunks \o docs, LAMBDA x : x.doc)), Cand), Before)
    IN Map(Take(cands, AtLeastOne(topK)), LAMBDA c : [c.item EXCEPT !.score = c.score])
-----------------------------------------------------------------------------
(* The gather across namespaces *)

GatherOrder(items) ==
    StableSort(items, LAMBDA a, b : a.score > b.score \/ (a.score = b.score /\ a.rr > b.rr))

(* The copies of one content become the best scored of them, at the place  *)
(* of the first; a missing hash groups nothing.                            *)
DedupeByContentHash(items) ==
    LET Group(i) == {j \in DOMAIN items : j = i \/ (items[j].hash = items[i].hash
                                                     /\ items[i].hash # NoHash)}
        Primary(i) == CHOOSE j \in Group(i) :
                         \A k \in Group(i) : \/ items[j].score > items[k].score
                                             \/ items[j].score = items[k].score /\ j <= k
    IN Map(Places(items, LAMBDA i : i = Min(Group(i))), LAMBDA i : items[Primary(i)])
-----------------------------------------------------------------------------
(* The fusion of the results of several queries, the original's first *)

DynamicOriginalAnchorCount(list) ==
    LET s(i) == IF i <= Len(list) THEN list[i].score ELSE list[2].score
    IN CASE AnchorMax = 0 \/ list = <<>> -> 0
         [] Len(list) = 1 -> 1
         [] Len(list) > 1 /\ s(1) <= 0 -> 1
         [] Len(list) > 1 /\ s(1) > 0 /\ 100 * s(3) >= 45 * s(1) -> Min({AnchorMax, Len(list)})
         [] Len(list) > 1 /\ s(1) > 0 /\ 100 * s(3) < 45 * s(1) /\ 100 * s(2) >= 35 * s(1) ->
               Min({2, AnchorMax, Len(list)})
         [] OTHER -> 1

(* Weight 1.7 for the original query, 0.5 for a variant. *)
FuseResults(lists) ==
    LET ids == Map(lists, LAMBDA list : Map(list, LAMBDA x : x.child))
        Weight(q) == IF q = 1 THEN 17 ELSE 5
        Rrf(c) == MapThenSumSet(LAMBDA q : MapThenSumSet(
                      LAMBDA p : (Weight(q) * One) \div (10 * (RrfK + p)),
                      {p \in DOMAIN ids[q] : ids[q][p] = c}), DOMAIN ids)
        Row(c) == [child |-> c, score |-> Rrf(c)]
        anchors == Take(ids[1], DynamicOriginalAnchorCount(lists[1]))
        rows == StableSort(Map(Distinct(FlattenSeq(ids)), Row), ByScore)
    IN Map(anchors, Row) \o SelectSeq(rows, LAMBDA x : x.child \notin ToSet(anchors))
-----------------------------------------------------------------------------
(* The language model's listwise votes *)

(* The starts of the windows over n places, the bottom one first. *)
WindowStarts(n) ==
    LET Next[s \in 0..n] == IF s = 0 THEN <<0>>
                            ELSE <<s>> \o Next[IF s > WindowStride THEN s - WindowStride ELSE 0]
    IN IF n <= WindowSize THEN <<0>> ELSE Next[n - WindowSize]

(* The slots in the order a vote presents them. *)
PresentationOrder(n, run) ==
    LET slots == SubSeq([i \in 1..n |-> i], 1, n)
        Parity(k) == SelectSeq(slots, LAMBDA i : i % 2 = k)
    IN CASE run % 3 = 1 -> Reverse(slots)
         [] run % 3 = 2 -> Parity(1) \o Parity(0)
         [] OTHER -> slots

(* A ranking the model may answer, cleaned: unknown and repeated places    *)
(* are dropped and missing ones appended in order.                         *)
ParsedRanking(answer, n) ==
    LET known == SelectSeq(answer, LAMBDA v : v \in 1..n)
    IN IF known = <<>> THEN <<>> ELSE Distinct(known \o SubSeq([i \in 1..n |-> i], 1, n))

(* The points after one more vote: the slot ranked first gets n. *)
AddBorda(points, run, ranking) ==
    LET n == Len(points)
        shown == PresentationOrder(n, run)
    IN Map(Places(points, LAMBDA i : TRUE),
           LAMBDA slot : points[slot] + n + 1 - (CHOOSE r \in 1..n : shown[ranking[r]] = slot))

(* The places of a window in the order of their points. *)
ApplyWindow(position, start, points) ==
    LET n == Len(points)
        slots == StableSort(Places(points, LAMBDA i : TRUE), LAMBDA a, b : points[a] > points[b])
    IN SubSeq(position, 1, start) \o Map(slots, LAMBDA i : position[start + i])
         \o SubSeq(position, start + n + 1, Len(position))

(* The results in their new order, the head scored above the tail. *)
Reordered(results, position) ==
    LET n == Len(position)
        tail == Max({0} \cup {results[i].score : i \in (n + 1)..Len(results)})
        head == Map(Places(position, LAMBDA i : TRUE),
                    LAMBDA i : [results[position[i]] EXCEPT
                                   !.score = tail + ((n + 1 - i) * One) \div (n + 1)])
    IN IF \A i \in DOMAIN position : position[i] = i THEN results
       ELSE head \o SubSeq(results, n + 1, Len(results))
-----------------------------------------------------------------------------
(* What the response finally carries *)

(* An ambiguous verdict keeps the better half. *)
CragCut(results, verdict) ==
    IF verdict = "ambiguous" THEN Take(results, (Len(results) + 1) \div 2) ELSE results

(* The places whose parents are looked up: the first depth ones with one. *)
SelectParentExpansionTargets(results, depth) ==
    Take(Places(results, LAMBDA i : results[i].parent # 0), depth)

(* Parent texts are given in order until one does not fit; a parent that   *)
(* is not found is passed over.                                            *)
ApplyParentExpansion(results, depth, length, maxBytes) ==
    LET targets == SelectSeq(SelectParentExpansionTargets(results, depth),
                             LAMBDA i : results[i].parent \in DOMAIN length)
        Used(n) == MapThenSumSet(LAMBDA t : length[results[targets[t]].parent], 1..n)
        fit == {n \in 0..Len(targets) :
                   maxBytes = 0 \/ \A m \in 1..n : Used(m) <= maxBytes}
        given == {targets[t] : t \in 1..Max(fit)}
    IN Map(Places(results, LAMBDA i : TRUE),
           LAMBDA i : IF i \in given THEN [results[i] EXCEPT !.text = length[results[i].parent]]
                      ELSE results[i])

(* Depth and bytes are enforced once more on whatever carries a text. *)
EnforceParentExpansionBudget(results, depth, maxBytes) ==
    LET carriers == Places(results, LAMBDA i : results[i].text > 0)
        Used(n) == MapThenSumSet(LAMBDA t : results[carriers[t]].text, 1..n)
        keep == {n \in 0..Len(carriers) :
                    n <= depth /\ (maxBytes = 0 \/ \A m \in 1..n : Used(m) <= maxBytes)}
        kept == {carriers[t] : t \in 1..Max(keep)}
    IN Map(Places(results, LAMBDA i : TRUE),
           LAMBDA i : IF i \in kept THEN results[i] ELSE [results[i] EXCEPT !.text = 0])

-----------------------------------------------------------------------------
(* The route of a query: what the client asked for, then what the          *)
(* configuration forces, then the rule for small talk, then the            *)
(* classifier's label if it is sure; its label chat is not believed.       *)
Route(asked, forced, smallTalk, label) ==
    CASE asked \in {"simple", "complex", "chat"} -> asked
      [] asked \notin {"none", "auto", "simple", "complex", "chat"} -> "invalid"
      [] asked \in {"none", "auto"} /\ forced # "auto" -> forced
      [] asked \in {"none", "auto"} /\ forced = "auto" /\ smallTalk -> "chat"
      [] OTHER -> IF label = "simple" THEN "simple" ELSE "complex"
=============================================================================
