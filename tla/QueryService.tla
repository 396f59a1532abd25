---------------------------- MODULE QueryService ----------------------------
(***************************************************************************)
(* POST /api/v1/query: requests that search several namespaces on one      *)
(* shared pool of workers under a deadline, the retrieval a worker does    *)
(* for one namespace, the stages that fuse, re-order and cut the results,  *)
(* and the end of the service.  Sources: src/query/query_wiring.cpp,       *)
(* scatter_gather.cpp, live_single_unit_executor.cpp,                      *)
(* rag_fusion_stage.cpp, rag_fusion.cpp, query_variant_generator.cpp,      *)
(* llm_rerank_stage.cpp, src/common/executor_engine.cpp,                   *)
(* src/doc_summary/discover_handler.cpp, src/store/doc_status_lookup.cpp,  *)
(* include/cortrix/query/namespace_timeout.h.                              *)
(*                                                                         *)
(* A step ends where the code reads the clock, the documents' states or a  *)
(* future, or hands work to another thread.  A time point is the number of *)
(* ticks left until it; ticks pass at any moment.  What an index returns   *)
(* for a query is fixed by the workload; which documents are hidden        *)
(* changes while queries run.                                              *)
(***************************************************************************)
EXTENDS Ranking

CONSTANTS
    Req,           \* query requests, each served by a thread of its own
    Worker,        \* workers of the ExecutorEngine
    Ns,            \* namespaces
    QueueCapacity, \* of the ExecutorEngine
    NsTimeout,     \* ns_query_timeout_ms, in ticks
    TotalTimeout,  \* total_timeout_ms, in ticks
    BudgetFloor,   \* kLlmBudgetFloorMs, in ticks
    Multiplier,    \* candidate_multiplier
    Chunk,         \* child id -> its document, namespace and parent (0: none)
    Content,       \* <<kind, id>> -> the content hash of what is shown for it
    Model,         \* <<query, child id>> -> what the cross encoder says
    Configs        \* the workloads a run explores

Thread == Worker \cup Req

(* The time left until a point that never comes. *)
Never == 1000

(* What may fail, and the hiding of a document, each so many times. *)
Kind == {"acquire", "throw", "lookup", "recall", "score", "llm", "parent", "hide"}

ASSUME QueryAssumption ==
    /\ Worker \cap Req = {} /\ QueueCapacity \in Nat \ {0}
    /\ NsTimeout \in Nat \ {0} /\ TotalTimeout \in Nat \ {0} /\ TotalTimeout < Never
    /\ Multiplier \in Nat \ {0} /\ BudgetFloor \in Nat \ {0}
    /\ \A f \in Configs : f.budget \in [Kind -> Nat]

VARIABLES
    config,  \* the chosen workload
    req,     \* what each request's thread is doing
    exec,    \* the retrieval a thread is running for one namespace
    queue,   \* ExecutorEngine::queue_
    life,    \* the service: up, stopping (Shutdown called), freed
    hidden,  \* the documents that are deleted or superseded
    budget   \* how often each fault may still happen

vars == <<config, req, exec, queue, life, hidden, budget>>

Spend(k) == /\ budget[k] > 0
            /\ budget' = [budget EXCEPT ![k] = @ - 1]
-----------------------------------------------------------------------------
Asked(r) == config.reqs[r]

NoDocs == {}

(* What a namespace's retrieval returns.  quiet names the degradations the *)
(* row does not report.                                                    *)
Row(err, items, totals, quiet) ==
    [err |-> err, items |-> items, totals |-> totals, quiet |-> quiet]

NamespaceTimeoutRow == Row("timeout", <<>>, NoDocs, {})
CorruptRow == Row("corrupt", <<>>, NoDocs, {})

NoResponse == [results |-> <<>>, succeeded |-> {}, failed |-> {}, cut |-> FALSE,
               warnings |-> {}, totals |-> NoDocs, quiet |-> {}]

Idle == [pc |-> "idle", req |-> 0, gen |-> 0, slot |-> 0, ns |-> 0, query |-> 0,
         topK |-> 0, rerank |-> FALSE, lists |-> <<>>,
         quiet |-> {}, part |-> CorruptRow]

Fresh == [pc |-> "new", gen |-> 0, deadline |-> Never, overall |-> Never, limit |-> Never,
          route |-> "none", fut |-> <<>>, i |-> 1, cut |-> FALSE, stage |-> "plain",
          queries |-> <<>>, responses |-> <<>>, resp |-> NoResponse,
          degraded |-> FALSE, position |-> <<>>, points |-> <<>>, votes |-> 0,
          window |-> 1, run |-> 0,
          before |-> NoDocs, base |-> NoResponse]

At(r, l) == req[r].pc = l

SetReq(r, rec) == req' = [req EXCEPT ![r] = rec]

(* use_llm_rerank widens the search to the listwise window *)
WideTopK(r) == Max({AtLeastOne(Asked(r).topK), Asked(r).topN})

(* ExpandedCandidateTopK, and CandidateK of the executor *)
Expanded(k) == k * Multiplier

-----------------------------------------------------------------------------
(* Retrieval of one namespace, by thread p *)

Hits(p) == config.hits[<<exec[p].ns, exec[p].query>>]

Granularity(p) == Asked(exec[p].req).granularity

(* The deadline of the request, which a job's context carries a copy of. *)
PastDeadline(p) == req[exec[p].req].deadline = 0

SetExec(p, rec) == exec' = [exec EXCEPT ![p] = rec]

Goto(p, l) == SetExec(p, [exec[p] EXCEPT !.pc = l])

(* ExecuteForNamespace chooses the path. *)
FirstStage(gran) == IF gran = "doc" THEN "doc" ELSE "chunk"

(* Mutant: the row goes to whatever the request waits for in that slot. *)
DeliverLate(p, row) ==
    LET e == exec[p]
        r == e.req
    IN /\ SetExec(p, Idle)
       /\ IF p \in Req
          THEN SetReq(r, [req[r] EXCEPT !.pc = "gather", !.fut = <<row>>])
          ELSE IF e.slot \in DOMAIN req[r].fut /\ req[r].fut[e.slot].err = "waiting"
               THEN SetReq(r, [req[r] EXCEPT !.fut[e.slot] = row])
               ELSE UNCHANGED req

(* The row is the task's result.  A future nobody waits for any more drops *)
(* it; the direct path uses it at once.                                    *)
Deliver(p, row) ==
    LET e == exec[p]
        r == e.req
    IN /\ SetExec(p, Idle)
       /\ IF p \in Req
          THEN SetReq(r, [req[r] EXCEPT !.pc = "gather", !.fut = <<row>>])
          ELSE IF req[r].gen = e.gen /\ e.slot \in DOMAIN req[r].fut
                  /\ req[r].fut[e.slot].err = "waiting"
               THEN SetReq(r, [req[r] EXCEPT !.fut[e.slot] = row])
               ELSE UNCHANGED req

(* The chunk half is done: under granularity auto the document half runs   *)
(* next.                                                                   *)
ChunkDone(p, row) ==
    IF Granularity(p) = "chunk" THEN Deliver(p, row)
    ELSE /\ SetExec(p, [exec[p] EXCEPT !.pc = "doc", !.part = row])
         /\ UNCHANGED req

(* Both halves: one failed half is not reported, two report the chunk's. *)
HybridRow(chunk, doc, topK) ==
    CASE chunk.err # "ok" /\ doc.err # "ok" -> chunk
      [] chunk.err # "ok" /\ doc.err = "ok" -> [doc EXCEPT !.quiet = @ \cup {"half"}]
      [] chunk.err = "ok" /\ doc.err # "ok" -> [chunk EXCEPT !.quiet = @ \cup {"half"}]
      [] OTHER -> Row("ok", FuseHybridChunksByDocId(chunk.items, doc.items, topK),
                      chunk.totals \cup doc.totals, chunk.quiet \cup doc.quiet)

DocDone(p, row) ==
    Deliver(p, IF Granularity(p) = "doc" THEN row
               ELSE HybridRow(exec[p].part, row, exec[p].topK))

(* Acquire of the namespace, after the deadline was checked. *)
AcquireChunk(p) ==
    /\ exec[p].pc = "chunk"
    /\ \/ PastDeadline(p) /\ ChunkDone(p, NamespaceTimeoutRow) /\ UNCHANGED budget
       \/ ~ PastDeadline(p) /\ Spend("acquire") /\ ChunkDone(p, CorruptRow)
       \/ ~ PastDeadline(p) /\ Goto(p, "recall") /\ UNCHANGED <<req, budget>>
    /\ UNCHANGED <<config, queue, life, hidden>>

DocOf(c) == Chunk[c].doc

(* The five lists.  The full text search leaves hidden documents out       *)
(* itself.                                                                 *)
RecalledWith(hits, simple, gone) ==
    VectorPaths(hits.points, simple)
      \o <<SelectSeq(hits.fts, LAMBDA c : DocOf(c) \notin gone), hits.sparse>>

Recalled(p) == RecalledWith(Hits(p), req[exec[p].req].route = "simple", hidden)

(* The vector, full text and sparse searches.  One that fails or runs out  *)
(* of its time leaves its list empty.                                      *)
Recall(p) ==
    /\ exec[p].pc = "recall"
    /\ \/ PastDeadline(p) /\ ChunkDone(p, NamespaceTimeoutRow) /\ UNCHANGED budget
       \/ ~ PastDeadline(p) /\ Spend("throw") /\ ChunkDone(p, CorruptRow)
       \/ /\ ~ PastDeadline(p)
          /\ SetExec(p, [exec[p] EXCEPT !.pc = "filter", !.lists = Recalled(p)])
          /\ UNCHANGED <<req, budget>>
       \/ /\ ~ PastDeadline(p) /\ Spend("recall")
          /\ \E l \in DOMAIN Recalled(p) :
                SetExec(p, [exec[p] EXCEPT !.pc = "filter", !.quiet = @ \cup {"recall"},
                                           !.lists = [Recalled(p) EXCEPT ![l] = <<>>]])
          /\ UNCHANGED req
    /\ UNCHANGED <<config, queue, life, hidden>>

(* Mutant: only the vector path is filtered. *)
VisibleSome(lists, gone) ==
    [l \in DOMAIN lists |-> IF l > 1 THEN lists[l]
                            ELSE SelectSeq(lists[l], LAMBDA c : DocOf(c) \notin gone)]

Visible(lists, gone) ==
    [l \in DOMAIN lists |-> SelectSeq(lists[l], LAMBDA c : DocOf(c) \notin gone)]

(* Hidden documents leave every list, unless the lookup fails: then all    *)
(* stay.                                                                   *)
FilterHidden(p) ==
    /\ exec[p].pc = "filter"
    /\ \/ PastDeadline(p) /\ ChunkDone(p, NamespaceTimeoutRow) /\ UNCHANGED budget
       \/ /\ ~ PastDeadline(p) /\ Spend("lookup")
          /\ SetExec(p, [exec[p] EXCEPT !.pc = "rank", !.quiet = @ \cup {"lookup"}])
          /\ UNCHANGED req
       \/ /\ ~ PastDeadline(p)
          /\ SetExec(p, [exec[p] EXCEPT !.pc = "rank", !.lists = Visible(exec[p].lists, hidden)])
          /\ UNCHANGED <<req, budget>>
    /\ UNCHANGED <<config, queue, life, hidden>>

Item(c, score) ==
    [child |-> c, ns |-> Chunk[c].ns, doc |-> DocOf(c), hash |-> Content[<<"chunk", c>>],
     kind |-> "chunk", parent |-> Chunk[c].parent, score |-> score, rr |-> score, text |-> 0]

(* The fused candidates as passages. *)
Candidates(lists, topK) ==
    Map(FuseFivePathRrf(lists, Expanded(topK)), LAMBDA x : Item(x.id, x.score))

(* What ScoreBatch gives the passages: zero for the failed ones. *)
Scores(items, query, failed) ==
    Map(Places(items, LAMBDA i : TRUE),
        LAMBDA i : IF i \in failed THEN 0 ELSE Model[<<query, items[i].child>>])

(* The passages ranked and cut, with the documents whose totals are known. *)
RankedRow(items, topK, quiet) ==
    LET kept == Take(items, AtLeastOne(topK))
    IN Row("ok", kept, {<<kept[i].ns, kept[i].doc>> : i \in DOMAIN kept}, quiet)

RankChunks(p) ==
    /\ exec[p].pc = "rank"
    /\ LET e == exec[p]
           items == Candidates(e.lists, e.topK)
           Rank(failed) == Reranked(items, Scores(items, e.query, failed))
       IN \/ PastDeadline(p) /\ ChunkDone(p, NamespaceTimeoutRow) /\ UNCHANGED budget
          \/ /\ ~ PastDeadline(p) /\ e.rerank
             /\ ChunkDone(p, RankedRow(Rank({}), e.topK, e.quiet))
             /\ UNCHANGED budget
          \/ /\ ~ PastDeadline(p) /\ e.rerank
             /\ \E failed \in (SUBSET DOMAIN items) \ {{}} :
                   ChunkDone(p, RankedRow(Rank(failed), e.topK, e.quiet \cup {"score"}))
             /\ Spend("score")
          \/ /\ ~ PastDeadline(p) /\ ~ e.rerank
             /\ ChunkDone(p, RankedRow(ByRerankScore(items), e.topK, e.quiet))
             /\ UNCHANGED budget
    /\ UNCHANGED <<config, queue, life, hidden>>
-----------------------------------------------------------------------------
(* The document half *)

AcquireDoc(p) ==
    /\ exec[p].pc = "doc"
    /\ \/ PastDeadline(p) /\ DocDone(p, NamespaceTimeoutRow) /\ UNCHANGED budget
       \/ ~ PastDeadline(p) /\ Spend("acquire") /\ DocDone(p, CorruptRow)
       \/ ~ PastDeadline(p) /\ Goto(p, "discover") /\ UNCHANGED <<req, budget>>
    /\ UNCHANGED <<config, queue, life, hidden>>

DocItem(h, ns) ==
    [child |-> h.doc, ns |-> ns, doc |-> h.doc, hash |-> Content[<<h.kind, h.doc>>], kind |-> h.kind,
     parent |-> 0, score |-> h.score, rr |-> h.score, text |-> 0]

DocRow(ns, topK, summaries, fts, quiet) ==
    LET hits == FuseDocDiscovery(Take(summaries, topK), Take(fts, topK), topK)
    IN RankedRow(Map(hits, LAMBDA h : DocItem(h, ns)), topK, quiet)

Live(docs, gone) == SelectSeq(docs, LAMBDA d : d \notin gone)

(* RunDocDiscoveryCore: summaries found by vector, their hidden documents  *)
(* dropped, and titles found by full text, each search allowed to fail.    *)
DiscoverDocs(p) ==
    /\ exec[p].pc = "discover"
    /\ LET summaries == Live(Hits(p).summaries, hidden)
           fts == Live(Hits(p).titles, hidden)
           Found(s, f, quiet) == DocDone(p, DocRow(exec[p].ns, exec[p].topK, s, f, quiet))
       IN \/ PastDeadline(p) /\ DocDone(p, NamespaceTimeoutRow) /\ UNCHANGED budget
          \/ /\ ~ PastDeadline(p) /\ Found(summaries, fts, {})
             /\ UNCHANGED budget
          \/ /\ ~ PastDeadline(p) /\ Spend("lookup")
             /\ Found(Hits(p).summaries, fts, {"lookup"})
          \/ /\ ~ PastDeadline(p) /\ Spend("recall")
             /\ \/ Found(<<>>, fts, {"recall"})
                \/ Found(summaries, <<>>, {"recall"})
          \/ ~ PastDeadline(p) /\ Spend("throw") /\ DocDone(p, CorruptRow)
    /\ UNCHANGED <<config, queue, life, hidden>>

Retrieve(p) == \/ AcquireChunk(p) \/ Recall(p) \/ FilterHidden(p) \/ RankChunks(p)
               \/ AcquireDoc(p) \/ DiscoverDocs(p)
-----------------------------------------------------------------------------
(* ExecutorEngine *)

(* A worker takes the first job, also while the engine shuts down. *)
WorkerLoop(w) ==
    /\ exec[w].pc = "idle" /\ queue # <<>>
    /\ SetExec(w, Head(queue))
    /\ queue' = Tail(queue)
    /\ UNCHANGED <<config, req, life, hidden, budget>>

(* The end of the service: no request is in flight any more.  Abandoned    *)
(* jobs may be.                                                            *)
Shutdown ==
    /\ life = "up" /\ \A r \in Req : At(r, "done")
    /\ life' = "stopping"
    /\ UNCHANGED <<config, req, exec, queue, hidden, budget>>

(* Mutant: the reranker is deleted without waiting for the workers. *)
DestroyAtOnce ==
    /\ life = "stopping"
    /\ life' = "freed"
    /\ UNCHANGED <<config, req, exec, queue, hidden, budget>>

(* The workers have drained the queue and are joined; then the reranker    *)
(* and the rest are deleted.                                               *)
Destroy ==
    /\ life = "stopping" /\ queue = <<>> /\ \A w \in Worker : exec[w].pc = "idle"
    /\ life' = "freed"
    /\ UNCHANGED <<config, req, exec, queue, hidden, budget>>
-----------------------------------------------------------------------------
(* ScatterGather *)

Namespaces(r) == Asked(r).nss

(* Variants are searched without the reranker when the union is reranked   *)
(* at the end.                                                             *)
SearchRerank(r, rec) ==
    Asked(r).rerank /\ ~ (rec.stage = "variant" /\ Asked(r).finalRerank /\ Len(rec.responses) > 0)

SearchTopK(r, rec) ==
    IF rec.stage \in {"preflight", "variant"} THEN Expanded(WideTopK(r)) ELSE WideTopK(r)

SearchQuery(rec) == rec.queries[IF rec.stage = "variant" THEN Len(rec.responses) + 1 ELSE 1]

(* The task that searches namespace i. *)
Job(r, gen, i, rec) ==
    [Idle EXCEPT !.pc = FirstStage(Asked(r).granularity), !.req = r, !.gen = gen, !.slot = i,
                 !.ns = Namespaces(r)[i], !.query = SearchQuery(rec), !.topK = SearchTopK(r, rec),
                 !.rerank = SearchRerank(r, rec)]

(* Execute: rec is the request as it enters the search.  A lone namespace  *)
(* without a deadline is searched on the request's own thread.             *)
Execute(r, rec) ==
    IF Len(Namespaces(r)) = 1 /\ rec.deadline = Never
    THEN /\ SetReq(r, [rec EXCEPT !.pc = "direct", !.gen = @ + 1, !.cut = FALSE])
         /\ SetExec(r, Job(r, rec.gen + 1, 1, rec))
    ELSE /\ SetReq(r, [rec EXCEPT !.pc = "submit", !.gen = @ + 1, !.cut = FALSE,
                                  !.fut = <<>>, !.i = 1,
                                  !.overall = Min({TotalTimeout, rec.deadline})])
         /\ UNCHANGED exec

Waiting == Row("waiting", <<>>, NoDocs, {})
Invalid == Row("invalid", <<>>, NoDocs, {})

(* Mutant: a lone namespace is waited for without a limit. *)
WaitLimitLone(r, overall) ==
    IF Len(Namespaces(r)) = 1 THEN Never ELSE Min({NsTimeout, overall})

(* The join starts to wait for future i. *)
WaitLimit(r, overall) ==
    IF Len(Namespaces(r)) = 1 THEN overall ELSE Min({NsTimeout, overall})

Joining(r, rec, i) == [rec EXCEPT !.pc = "join", !.i = i, !.limit = WaitLimit(r, rec.overall)]

(* Future i is there; the next namespace is submitted, or the join begins. *)
Submitted(r, future) ==
    LET q == req[r]
        rec == [q EXCEPT !.pc = "submit", !.fut = Append(@, future), !.i = @ + 1]
    IN SetReq(r, IF q.i = Len(Namespaces(r)) THEN Joining(r, rec, 1) ELSE rec)

Enqueue(r) ==
    /\ Len(queue) < QueueCapacity
    /\ queue' = Append(queue, Job(r, req[r].gen, req[r].i, req[r]))
    /\ Submitted(r, Waiting)

(* One namespace is submitted.  Past the deadline it is not; when the      *)
(* queue is full the thread waits for room, however long that takes.       *)
Submit(r) ==
    /\ \/ /\ At(r, "submit") /\ req[r].deadline # Never /\ req[r].overall = 0
          /\ Submitted(r, Invalid) /\ UNCHANGED queue
       \/ /\ At(r, "submit") /\ ~ (req[r].deadline # Never /\ req[r].overall = 0)
          /\ \/ Enqueue(r)
             \/ /\ Len(queue) = QueueCapacity
                /\ SetReq(r, [req[r] EXCEPT !.pc = "blocked"]) /\ UNCHANGED queue
       \/ At(r, "blocked") /\ Enqueue(r)
    /\ UNCHANGED <<config, exec, life, hidden, budget>>

CutByOverallDeadline(row, overall) == row.err = "timeout" /\ overall = 0

(* Future i is settled with this row; the next one is waited for. *)
Joined(r, row) ==
    LET q == req[r]
        rec == [q EXCEPT !.fut[q.i] = row, !.cut = @ \/ CutByOverallDeadline(row, q.overall)]
    IN SetReq(r, IF q.i = Len(Namespaces(r)) THEN [rec EXCEPT !.pc = "gather"]
                 ELSE Joining(r, rec, q.i + 1))

(* The join: a result that is there is taken whatever the time; otherwise  *)
(* the wait ends at its limit and the task is abandoned.                   *)
Join(r) ==
    /\ At(r, "join")
    /\ LET f == req[r].fut[req[r].i]
       IN \/ f.err \notin {"waiting", "invalid"} /\ Joined(r, f)
          \/ f.err = "invalid" /\ Joined(r, NamespaceTimeoutRow)
          \/ f.err = "waiting" /\ req[r].limit = 0 /\ Joined(r, NamespaceTimeoutRow)
    /\ UNCHANGED <<config, exec, queue, life, hidden, budget>>

(* GatherAndRerank of the rows of namespaces nss. *)
Gathered(nss, rows, topK, rerank, cut) ==
    LET ok == {i \in DOMAIN rows : rows[i].err = "ok"}
        all == FlattenSeq(Map(rows, LAMBDA row : row.items))
    IN [results |-> Take(DedupeByContentHash(GatherOrder(all)), AtLeastOne(topK)),
        succeeded |-> {nss[i] : i \in ok},
        failed |-> {nss[i] : i \in DOMAIN rows \ ok},
        cut |-> cut,
        warnings |-> IF rerank THEN {} ELSE {"rerank_disabled"},
        totals |-> UNION {rows[i].totals : i \in ok},
        quiet |-> UNION {rows[i].quiet : i \in ok}]

(* score, or the reranker's where there is none *)
EffectiveScore(item) == IF item.score # 0 THEN item.score ELSE item.rr

(* The first two results are far apart: no variants are asked for. *)
ShouldSkipLlmBySelectiveMargin(r, resp) ==
    /\ Len(resp.results) >= 2
    /\ LET margin == EffectiveScore(resp.results[1]) - EffectiveScore(resp.results[2])
       IN margin > 0 /\ margin >= Asked(r).margin

Trimmed(resp, k) == [resp EXCEPT !.results = Take(@, k)]

Degrade(resp, yes) ==
    IF yes THEN [resp EXCEPT !.warnings = @ \cup {"rag_fusion_degraded"}] ELSE resp

(* The search is over: its response is final, or one of several. *)
Gather(r) ==
    /\ At(r, "gather")
    /\ LET q == req[r]
           resp == Gathered(Namespaces(r), q.fut, SearchTopK(r, q), SearchRerank(r, q), q.cut)
           rec == [q EXCEPT !.fut = <<>>, !.overall = Never, !.limit = Never, !.i = 1,
                            !.cut = FALSE]
       IN CASE q.stage = "plain" ->
                 /\ SetReq(r, [rec EXCEPT !.pc = "ranked", !.resp = Degrade(resp, q.degraded)])
                 /\ UNCHANGED exec
            [] q.stage = "preflight" ->
                 /\ SetReq(r, IF ShouldSkipLlmBySelectiveMargin(r, resp)
                              THEN [rec EXCEPT !.pc = "ranked", !.resp = Trimmed(resp, WideTopK(r)),
                                               !.stage = "skipped"]
                              ELSE [rec EXCEPT !.pc = "expand", !.responses = <<resp>>])
                 /\ UNCHANGED exec
            [] OTHER ->
                 LET rec2 == [rec EXCEPT !.responses = Append(@, resp)]
                 IN IF Len(rec2.responses) < Len(q.queries) THEN Execute(r, rec2)
                    ELSE SetReq(r, [rec2 EXCEPT !.pc = "fuse"]) /\ UNCHANGED exec
    /\ UNCHANGED <<config, queue, life, hidden, budget>>
-----------------------------------------------------------------------------
(* The request *)

(* The handler: the budget counts from here. *)
Arrive(r) ==
    /\ At(r, "new") /\ life = "up"
    /\ LET a == Asked(r)
           route == Route(a.asked, "auto", a.smallTalk, a.label)
           rec == [Fresh EXCEPT !.route = route, !.before = hidden, !.queries = <<a.query>>,
                                !.deadline = IF a.budget = 0 \/ route = "chat" THEN Never
                                             ELSE a.budget]
       IN CASE route = "invalid" -> SetReq(r, [rec EXCEPT !.pc = "done"]) /\ UNCHANGED exec
            [] route = "chat" -> SetReq(r, [rec EXCEPT !.pc = "chat"]) /\ UNCHANGED exec
            [] route \in {"simple", "complex"} ->
                 LET ragFusion == route = "complex" /\ a.ragFusion # "off"
                 IN CASE ragFusion /\ a.ragFusion = "always" ->
                           SetReq(r, [rec EXCEPT !.pc = "expand"]) /\ UNCHANGED exec
                      [] ragFusion /\ a.ragFusion = "selective" ->
                           Execute(r, [rec EXCEPT !.stage = "preflight"])
                      [] OTHER -> Execute(r, rec)
    /\ UNCHANGED <<config, queue, life, hidden, budget>>

(* BuildChatResponse: no search; a namespace that cannot be opened is      *)
(* skipped and not reported.                                               *)
Chat(r) ==
    /\ At(r, "chat")
    /\ \/ /\ SetReq(r, [req[r] EXCEPT !.pc = "done",
                                      !.resp.succeeded = ToSet(Namespaces(r))])
          /\ UNCHANGED budget
       \/ /\ Spend("acquire")
          /\ \E n \in ToSet(Namespaces(r)) :
                SetReq(r, [req[r] EXCEPT !.pc = "done",
                                         !.resp.succeeded = ToSet(Namespaces(r)) \ {n}])
    /\ UNCHANGED <<config, exec, queue, life, hidden>>

(* Less time is left than a call to the model needs. *)
BudgetSpent(r) == req[r].deadline < BudgetFloor

(* ExpandQueries, with what the model answers, and what Run does next. *)
Expand(r) ==
    /\ At(r, "expand")
    /\ LET q == req[r]
           Alone(degraded) ==
               IF q.responses # <<>>
               THEN /\ SetReq(r, [q EXCEPT !.pc = "ranked", !.responses = <<>>,
                                           !.stage = "skipped", !.resp = Degrade(Trimmed(q.responses[1], WideTopK(r)),
                                                            degraded)])
                    /\ UNCHANGED exec
               ELSE Execute(r, [q EXCEPT !.stage = "plain", !.degraded = degraded])
       IN \/ BudgetSpent(r) /\ Alone(TRUE) /\ UNCHANGED budget
          \/ ~ BudgetSpent(r) /\ Spend("llm") /\ Alone(TRUE)
          \/ ~ BudgetSpent(r) /\ Alone(FALSE) /\ UNCHANGED budget
          \/ /\ ~ BudgetSpent(r)
             /\ Execute(r, [q EXCEPT !.stage = "variant",
                                     !.queries = <<Asked(r).query>> \o Asked(r).variants])
             /\ UNCHANGED budget
    /\ UNCHANGED <<config, queue, life, hidden>>

ScoredResults(resp) ==
    Map(resp.results, LAMBDA x : [child |-> x.child, score |-> EffectiveScore(x)])

(* The union of the responses in the fused order; the first response that  *)
(* has a child gives its item.                                             *)
Union(responses) ==
    LET fused == FuseResults(Map(responses, ScoredResults))
        First(c) == LET has(i) == {j \in DOMAIN responses[i].results :
                                      responses[i].results[j].child = c}
                        i == Min({k \in DOMAIN responses : has(k) # {}})
                    IN responses[i].results[CHOOSE j \in has(i) : TRUE]
    IN Map(fused, LAMBDA x : [First(x.child) EXCEPT !.score = x.score])

(* A namespace that failed for a variant is not reported. *)
QuietOf(responses) ==
    UNION {responses[i].quiet : i \in DOMAIN responses}
      \cup (IF \E i \in DOMAIN responses : i > 1 /\ responses[i].failed # {} THEN {"variant"} ELSE {})

(* Mutant: only the original query's totals are kept. *)
FusedFirstTotals(responses, results, k) ==
    LET base == responses[1]
        cut == \E i \in DOMAIN responses : responses[i].cut
    IN Degrade([base EXCEPT !.results = Take(results, k), !.cut = cut,
                            !.quiet = QuietOf(responses)],
               cut)

(* The fused response: the original query's, with the union's results and  *)
(* totals, and cut if any search was.                                      *)
Fused(responses, results, k) ==
    LET base == responses[1]
        cut == \E i \in DOMAIN responses : responses[i].cut
    IN Degrade([base EXCEPT !.results = Take(results, k), !.cut = cut,
                            !.totals = UNION {responses[i].totals : i \in DOMAIN responses},
                            !.quiet = QuietOf(responses)],
               cut)

UnionRanked(r, responses, failed) ==
    LET u == Union(responses)
    IN IF Asked(r).finalRerank /\ Asked(r).rerank
       THEN Reranked(u, Scores(u, Asked(r).query, failed)) ELSE u

Fuse(r) ==
    /\ At(r, "fuse")
    /\ LET q == req[r]
           Done(resp) == SetReq(r, [q EXCEPT !.pc = "ranked", !.resp = resp, !.stage = "fused",
                                             !.responses = <<>>])
           Result(failed) == Fused(q.responses, UnionRanked(r, q.responses, failed), WideTopK(r))
       IN \/ Done(Result({})) /\ UNCHANGED budget
          \/ /\ Asked(r).finalRerank /\ Asked(r).rerank
             /\ \E failed \in (SUBSET DOMAIN Union(q.responses)) \ {{}} :
                   Done([Result(failed) EXCEPT !.quiet = @ \cup {"score"}])
             /\ Spend("score")
    /\ UNCHANGED <<config, exec, queue, life, hidden>>
-----------------------------------------------------------------------------
(* LlmRerankStage and the rest of the handler *)

(* How many results the listwise votes cover. *)
HeadSize(r) == Min({Asked(r).topN, Len(req[r].resp.results)})

WindowCount(n, start) == Min({WindowSize, n - start})

Starts(r) == WindowStarts(Len(req[r].position))

(* Apply begins, or is skipped. *)
Ranked(r) ==
    /\ At(r, "ranked")
    /\ LET q == [req[r] EXCEPT !.base = req[r].resp]
           n == HeadSize(r)
       IN SetReq(r, IF Asked(r).topN = 0 \/ Len(q.resp.results) < 2
                    THEN [q EXCEPT !.pc = "serialize"]
                    ELSE [q EXCEPT !.pc = "vote", !.position = [i \in 1..n |-> i], !.window = 1,
                                   !.points = [i \in 1..WindowCount(n, WindowStarts(n)[1]) |-> 0]])
    /\ UNCHANGED <<config, exec, queue, life, hidden, budget>>

(* Mutant: a window without votes keeps the order the others gave. *)
WindowDonePartial(r, rec) ==
    LET start == Starts(r)[rec.window]
        position == IF rec.votes = 0 THEN rec.position
                    ELSE ApplyWindow(rec.position, start, rec.points)
        moved == [rec EXCEPT !.position = position, !.votes = 0, !.run = 0]
    IN IF rec.window = Len(Starts(r))
       THEN [moved EXCEPT !.pc = "serialize",
                          !.resp.results = Reordered(rec.resp.results, position),
                          !.resp.warnings = IF rec.votes = 0 THEN @ \cup {"llm_rerank_degraded"}
                                            ELSE @]
       ELSE [moved EXCEPT !.window = @ + 1,
                          !.points = [i \in 1..WindowCount(Len(position), Starts(r)[rec.window + 1])
                                         |-> 0]]

(* The votes of a window are in: without any the stage gives up and the    *)
(* response keeps its order; after the last window it is re-ordered once.  *)
WindowDone(r, rec) ==
    LET start == Starts(r)[rec.window]
        position == ApplyWindow(rec.position, start, rec.points)
        moved == [rec EXCEPT !.position = position, !.votes = 0, !.run = 0]
    IN IF rec.votes = 0
       THEN [rec EXCEPT !.pc = "serialize", !.resp.warnings = @ \cup {"llm_rerank_degraded"}]
       ELSE IF rec.window = Len(Starts(r))
       THEN [moved EXCEPT !.pc = "serialize",
                          !.resp.results = Reordered(rec.resp.results, position)]
       ELSE [moved EXCEPT !.window = @ + 1,
                          !.points = [i \in 1..WindowCount(Len(position), Starts(r)[rec.window + 1])
                                         |-> 0]]

(* One vote: skipped when the budget is spent, failed, or an answer. *)
Vote(r) ==
    /\ At(r, "vote")
    /\ LET q == req[r]
           Counted(rec) == SetReq(r, IF q.run + 1 < Asked(r).runs THEN [rec EXCEPT !.run = @ + 1]
                                  ELSE WindowDone(r, rec))
       IN \/ BudgetSpent(r) /\ Counted(q) /\ UNCHANGED budget
          \/ ~ BudgetSpent(r) /\ Spend("llm") /\ Counted(q)
          \/ /\ ~ BudgetSpent(r)
             /\ \E answer \in config.answers :
                   LET ranking == ParsedRanking(answer, Len(q.points))
                   IN IF ranking = <<>> THEN Counted(q)
                      ELSE Counted([q EXCEPT !.votes = @ + 1,
                                          !.points = AddBorda(@, q.run, ranking)])
             /\ UNCHANGED budget
    /\ UNCHANGED <<config, exec, queue, life, hidden>>

(* The parents that can be read: those of the namespaces that open. *)
Readable(n) == {p \in DOMAIN config.parents : config.parents[p].ns # n}

Lengths(parents) == [p \in parents |-> config.parents[p].bytes]

(* Mutant: the texts are given in the order the search had. *)
PresentedEarly(r, verdict, parents) ==
    LET a == Asked(r)
        q == req[r]
        full == ApplyParentExpansion(q.base.results, a.depth, Lengths(parents), a.bytes)
        texts == [i \in DOMAIN q.resp.results |->
                     [q.resp.results[i] EXCEPT
                         !.text = LET j == CHOOSE j \in DOMAIN full : full[j].child = q.resp.results[i].child
                                  IN full[j].text]]
    IN EnforceParentExpansionBudget(CragCut(Take(texts, AtLeastOne(a.topK)), verdict), a.depth, a.bytes)

(* Trimmed to what was asked for, cut by the verdict, given its parents. *)
Presented(r, verdict, parents) ==
    LET a == Asked(r)
        cut == CragCut(Take(req[r].resp.results, AtLeastOne(a.topK)), verdict)
    IN EnforceParentExpansionBudget(ApplyParentExpansion(cut, a.depth, Lengths(parents), a.bytes),
                                    a.depth, a.bytes)

(* CRAG judges only complex queries; its verdict is what the evaluator     *)
(* makes of the results.                                                   *)
Verdicts(r) ==
    IF Asked(r).crag /\ req[r].route = "complex" THEN {"correct", "ambiguous"} ELSE {"none"}

(* SerializeWithCrag, and the answer. *)
Serialize(r) ==
    /\ At(r, "serialize")
    /\ LET q == req[r]
           Answer(verdict, parents, quiet) ==
               SetReq(r, [Fresh EXCEPT !.pc = "done", !.route = q.route, !.before = q.before,
                                       !.gen = q.gen, !.stage = q.stage, !.base = q.base,
                                       !.queries = q.queries, !.deadline = q.deadline,
                                       !.resp = [q.resp EXCEPT
                                                    !.results = Presented(r, verdict, parents),
                                                    !.quiet = @ \cup quiet]])
       IN \E verdict \in Verdicts(r) :
             \/ Answer(verdict, DOMAIN config.parents, {}) /\ UNCHANGED budget
             \/ /\ Asked(r).depth > 0 /\ Spend("parent")
                /\ \E n \in Ns : Answer(verdict, Readable(n), {"parent"})
    /\ UNCHANGED <<config, exec, queue, life, hidden>>
-----------------------------------------------------------------------------
(* A document is deleted, or replaced by its next version. *)
Hide(d) ==
    /\ d \notin hidden /\ Spend("hide")
    /\ hidden' = hidden \cup {d}
    /\ UNCHANGED <<config, req, exec, queue, life>>

Docs == {DocOf(c) : c \in DOMAIN Chunk}

(* Time passes for everyone. *)
Less(t) == IF t \in {0, Never} THEN t ELSE t - 1

Tick ==
    /\ req' = [r \in Req |-> [req[r] EXCEPT !.deadline = Less(@), !.overall = Less(@),
                                           !.limit = Less(@)]]
    /\ req' # req
    /\ UNCHANGED <<config, exec, queue, life, hidden, budget>>

Init ==
    /\ config \in Configs
    /\ req = [r \in Req |-> IF r \in DOMAIN config.reqs THEN Fresh
                            ELSE [Fresh EXCEPT !.pc = "done"]]
    /\ exec = [p \in Thread |-> Idle]
    /\ queue = <<>>
    /\ life = "up"
    /\ hidden = config.hidden
    /\ budget = config.budget

Request(r) == \/ Arrive(r) \/ Chat(r) \/ Submit(r) \/ Join(r) \/ Gather(r) \/ Expand(r) \/ Fuse(r)
              \/ Ranked(r) \/ Vote(r) \/ Serialize(r)

Next ==
    \/ \E r \in Req : Request(r)
    \/ \E p \in Thread : Retrieve(p)
    \/ \E w \in Worker : WorkerLoop(w)
    \/ Shutdown
    \/ Destroy
    \/ \E d \in Docs : Hide(d)
    \/ Tick

(* The thread of a request that has arrived can go on: it waits only for a *)
(* future, up to its limit, and for room in the queue.                     *)
Runnable(r) ==
    /\ ~ At(r, "new") /\ ~ At(r, "done")
    /\ At(r, "join") => req[r].fut[req[r].i].err # "waiting" \/ req[r].limit = 0
    /\ At(r, "blocked") => Len(queue) < QueueCapacity

(* Such a thread runs, also through a retrieval of its own, and time       *)
(* passes.  Nothing is asked of the workers: a search may hang forever.    *)
Fairness ==
    /\ \A r \in Req : []<>(~ Runnable(r)) \/ []<><<Request(r) \/ Retrieve(r)>>_vars
    /\ WF_vars(Tick)

Spec == Init /\ [][Next]_vars /\ Fairness
-----------------------------------------------------------------------------
(* Properties *)

Answered(r) == At(r, "done") /\ req[r].route \in {"simple", "complex"}

Results(r) == req[r].resp.results

Labels == {"new", "chat", "submit", "blocked", "join", "direct", "gather", "expand", "fuse", "ranked",
           "vote", "serialize", "done"}

(* Every queried namespace is reported once, as searched or as failed, and *)
(* a result comes from a searched one, unless the results of several       *)
(* queries were merged; the total of every document returned is known, and *)
(* the top-level timeout comes with a failed namespace or the warning that *)
(* the fusion is partial (GatherAndRerank, RagFusionStage::Run).           *)
AnswerAccounted ==
    \A r \in Req : Answered(r) =>
        LET a == req[r].resp
        IN /\ a.succeeded \cup a.failed = ToSet(Namespaces(r)) /\ a.succeeded \cap a.failed = {}
           /\ \A i \in DOMAIN a.results :
                 /\ <<a.results[i].ns, a.results[i].doc>> \in a.totals
                 /\ a.results[i].ns \in a.succeeded \/ req[r].stage = "fused"
           /\ a.cut => a.failed # {} \/ "rag_fusion_degraded" \in a.warnings
           /\ \A i, j \in DOMAIN a.results :
                 i # j => a.results[i].child # a.results[j].child

(* What one undisturbed thread would find. *)
IdealRow(r, ns, query, topK, rerank) ==
    LET hits == config.hits[<<ns, query>>]
        lists == Visible(RecalledWith(hits, req[r].route = "simple", hidden), hidden)
        items == Candidates(lists, topK)
        chunk == RankedRow(IF rerank THEN Reranked(items, Scores(items, query, {}))
                           ELSE ByRerankScore(items), topK, {})
        doc == DocRow(ns, topK, Live(hits.summaries, hidden), Live(hits.titles, hidden), {})
    IN CASE Asked(r).granularity = "chunk" -> chunk
         [] Asked(r).granularity = "doc" -> doc
         [] OTHER -> HybridRow(chunk, doc, topK)

IdealSearch(r, query, topK, rerank) ==
    Gathered(Namespaces(r),
             [i \in DOMAIN Namespaces(r) |-> IdealRow(r, Namespaces(r)[i], query, topK, rerank)],
             topK, rerank, FALSE)

Ideal(r) ==
    LET a == Asked(r)
        wide == WideTopK(r)
        Each(i) == IdealSearch(r, req[r].queries[i], Expanded(wide),
                               a.rerank /\ (i = 1 \/ ~ a.finalRerank))
        all == [i \in DOMAIN req[r].queries |-> Each(i)]
    IN CASE req[r].stage = "plain" -> IdealSearch(r, a.query, wide, a.rerank)
         [] req[r].stage = "skipped" -> Trimmed(Each(1), wide)
         [] req[r].stage = "fused" -> Fused(all, UnionRanked(r, all, {}), wide)

(* While no document is hidden, a namespace reported as searched without   *)
(* a degradation gave what one undisturbed thread finds there for that     *)
(* query, and a response without a failed namespace or a timeout is what   *)
(* that thread would have answered: the other threads, abandoned tasks,    *)
(* timeouts and other requests leave no trace (ScatterGather::             *)
(* ExecuteMultiNs, RagFusionStage::Run).                                   *)
WholeUnlessSaid ==
    [][\A r \in Req : hidden = req[r].before =>
          /\ Gather(r) =>
                \A i \in DOMAIN req[r].fut :
                   LET row == req[r].fut[i]
                       q == req[r]
                   IN row.err = "ok" /\ row.quiet = {} =>
                         row.items = IdealRow(r, Namespaces(r)[i], SearchQuery(q), SearchTopK(r, q),
                                              SearchRerank(r, q)).items
          /\ Ranked(r) /\ req[r].resp.failed = {} /\ ~ req[r].resp.cut /\ req[r].resp.quiet = {} =>
                req[r].resp.results = Ideal(r).results]_vars

(* A document hidden before the request came is not in its answer by any   *)
(* of the seven lists, unless the hidden-document lookup failed.           *)
NoHiddenResult ==
    \A r \in Req : Answered(r) /\ "lookup" \notin req[r].resp.quiet =>
        \A i \in DOMAIN Results(r) : Results(r)[i].doc \notin req[r].before

(* A listwise rerank that lost its votes leaves the order it found, never  *)
(* a mixture; the parent texts go to the first results that have a parent  *)
(* to read, within the depth and the bytes (LlmRerankStage::Apply,         *)
(* SerializeWithCrag).                                                     *)
PresentedInOrder ==
    \A r \in Req : Answered(r) =>
        LET res == Results(r)
            texts == {i \in DOMAIN res : res[i].text > 0}
        IN /\ "llm_rerank_degraded" \in req[r].resp.warnings =>
                 \A i \in DOMAIN res : res[i].child = req[r].base.results[i].child
           /\ Cardinality(texts) <= Asked(r).depth
           /\ MapThenSumSet(LAMBDA i : res[i].text, texts) <= Asked(r).bytes
           /\ "parent" \notin req[r].resp.quiet =>
                 \A i \in texts : \A j \in 1..i : res[j].parent \in DOMAIN config.parents => j \in texts

(* When the reranker and the executor are deleted no task uses them        *)
(* (CrossNsQueryWiring::~CrossNsQueryWiring, ExecutorEngine::Shutdown).    *)
FreedWhenIdle ==
    life = "freed" => queue = <<>> /\ \A p \in Thread : exec[p].pc = "idle"

(* Whatever the workers do, a request is answered in the end, or it waits  *)
(* for room in a full queue, which no timeout ends.                        *)
AnsweredUnlessFull ==
    \A r \in Req : <>[](\/ At(r, "new") \/ At(r, "done")
                        \/ At(r, "blocked") /\ Len(queue) = QueueCapacity)

(* The state has its type: a service-wide type invariant. *)
TypeOK ==
    /\ life \in {"up", "stopping", "freed"} /\ hidden \subseteq Docs /\ budget \in [Kind -> Nat]
    /\ Len(queue) <= QueueCapacity
    /\ \A r \in Req : /\ req[r].pc \in Labels
                      /\ {req[r].deadline, req[r].overall, req[r].limit} \subseteq 0..Never
                      /\ req[r].pc = "direct" <=> exec[r].pc # "idle"
    /\ \A p \in Thread : exec[p].pc \in {"idle", "chunk", "recall", "filter", "rank", "doc", "discover"}

(* What an answer says is so: accounted for, nothing hidden, in order.     *)
AnswerSound == TypeOK /\ AnswerAccounted /\ NoHiddenResult /\ PresentedInOrder
=============================================================================
