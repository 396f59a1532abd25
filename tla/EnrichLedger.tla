---------------------------- MODULE EnrichLedger ----------------------------
(***************************************************************************)
(* The enrichment ledger of one document: the enrich_state row of each     *)
(* chunk, the backfill tasks that repair what a row owes, the sweeper that *)
(* creates those tasks, and the operator's backfill request (audit, reset, *)
(* sweep).  Sources: src/spc/enrich_state_store.cpp,                       *)
(* src/spc/enrich_backfill_worker.cpp, src/spc/enrich_retry_sweeper.cpp,   *)
(* src/server/routes/enrich_routes.cpp.                                    *)
(*                                                                         *)
(* A chunk's artifacts are the score of member f03, the contextual columns *)
(* and the index label of f35, and the hype questions of f38.  A due time  *)
(* is abstracted to whether it has passed.  The threads are one worker on  *)
(* the document (the scheduler hands out no second task of a document that *)
(* is being worked on), the sweeper's timer and the request handlers.      *)
(***************************************************************************)
EXTENDS Naturals, FiniteSets

CONSTANTS
    Chunk,        \* the chunks of the document
    Caller,       \* threads that serve POST .../enrich/backfill
    Timer,        \* the sweeper's own thread
    None,
    MaxAttempts,  \* kEnrichMaxAttempts
    Configs       \* the workloads a run explores

(* A bound no count reaches (kEnrichNoTerminal). *)
NoTerminal == 1000

ASSUME EnrichAssumption ==
    /\ MaxAttempts \in 1..(NoTerminal - 1)
    /\ Timer \notin Caller
    /\ None \notin Caller \cup {Timer}

Member == {"f03", "f35", "f38"}

(* What a workload may be allowed to do, and how often. *)
Kind == {"request", "store", "final", "throw", "persist", "commit",
         "cron", "sweep", "audit", "cancel", "crash", "delete"}

ASSUME ConfigsAssumption ==
    \A k \in Configs :
        /\ k.chunks \subseteq Chunk
        /\ k.chain \subseteq Member
        /\ k.fail \subseteq SUBSET Member
        /\ k.max \in [Kind -> Nat]
        /\ k.full \in BOOLEAN

VARIABLES
    config,   \* the chosen workload: chain, available members, gates, faults
    live,     \* the chunks whose block row exists
    art,      \* the artifacts of each chunk
    row,      \* the enrich_state row of each chunk
    tasks,    \* backfill task rows no worker holds, by status
    recent,   \* a completed task is still inside the debounce window
    d,        \* the delivery the worker is running
    job,      \* the sweep or request each thread is running
    mu,       \* the holder of sweep_mu_
    budget,   \* how often each fault or request may still happen
    charged,  \* history: deliveries counted since the row's creation or reset
    calls     \* history: deliveries since then that called a provider

vars == <<config, live, art, row, tasks, recent, d, job, mu, budget,
          charged, calls>>

Thread == Caller \cup {Timer}

Spend(k) ==
    /\ budget[k] > 0
    /\ budget' = [budget EXCEPT ![k] = @ - 1]

Happened(k) == budget[k] < config.max[k]

-----------------------------------------------------------------------------
(* The ingest's index gate: points and labels only at the full level and   *)
(* for chunks the cleaner did not mark; hype blocks at the full level.     *)
IndexPointsExpected(c) == config.full /\ c \notin config.skip
HypeBlocksExpected == config.full

(* Configured members whose artifact is missing, given the chunks that have *)
(* a label and those that have hype blocks.                                 *)
Missing(c, labels, hypes) ==
    {m \in config.chain :
        \/ m = "f03" /\ ~ art[c].score
        \/ /\ m = "f35"
           /\ ~ (art[c].columns /\ (IndexPointsExpected(c) => c \in labels))
        \/ m = "f38" /\ HypeBlocksExpected /\ c \notin hypes}

Labelled == {c \in Chunk : art[c].label}
HypeSourceChildIds == {c \in Chunk : art[c].hype > 0}

NoRow == [status |-> "none", owed |-> {}, attempts |-> 0, due |-> FALSE,
          gen |-> 0]
NoArt == [score |-> FALSE, columns |-> FALSE, label |-> FALSE, hype |-> 0]

(* Ingest, first attempt: the members in F failed, the others landed.  A    *)
(* label row that could not be written is not owed (lost = TRUE).           *)
IngestArt(c, F, lost) ==
    LET done(m) == m \in config.up \ F
    IN  [score   |-> done("f03"),
         columns |-> done("f35"),
         label   |-> done("f35") /\ IndexPointsExpected(c) /\ ~ lost,
         hype    |-> IF done("f38") /\ HypeBlocksExpected THEN 1 ELSE 0]

UpsertEnrichState(F) ==
    [NoRow EXCEPT !.status = IF F = {} THEN "ok" ELSE "pending", !.owed = F]

(* Mutant: the entry charge gives up one delivery later. *)
ChargeLate(r, terminal) ==
    IF r.status # "pending" THEN r
    ELSE [r EXCEPT !.attempts = @ + 1,
                   !.status = IF r.attempts > terminal THEN "failed" ELSE @]

(* The worker's count of a delivery. *)
ChargeEnrichAttempts(r, terminal) ==
    IF r.status # "pending" THEN r
    ELSE [r EXCEPT !.attempts = @ + 1,
                   !.status = IF r.attempts + 1 > terminal THEN "failed" ELSE @,
                   !.due = @ /\ r.attempts + 1 <= terminal]

(* The audit's re-owe: a new row starts at 0, an existing one keeps its     *)
(* count and is given up on once that has reached the bound.                *)
ReoweEnrichState(r, owed, terminal) ==
    IF r.status = "none"
    THEN [NoRow EXCEPT !.status = "pending", !.owed = owed, !.due = TRUE]
    ELSE [r EXCEPT !.status = IF r.attempts >= terminal THEN "failed" ELSE "pending",
                   !.owed = owed,
                   !.due = r.attempts < terminal,
                   !.gen = @ + 1]

(* The audit's settle of a terminal row that owes nothing. *)
SettleTerminalRow(r) ==
    IF r.status # "failed" THEN r
    ELSE [r EXCEPT !.status = "ok", !.owed = {}, !.due = FALSE, !.gen = @ + 1]

(* Mutant of the flip: an outcome is written whatever happened since. *)
FlipAnyway(r, new, gen) == new

(* The worker's write, applied only to the generation it read. *)
FlipEnrichStateIfGeneration(r, new, gen) == IF r.gen = gen THEN new ELSE r

(* The sweeper's lease, and its return: every pending row of the document. *)
LeaseDocRetries(due) ==
    [c \in Chunk |-> IF row[c].status = "pending" THEN [row[c] EXCEPT !.due = due]
                                                  ELSE row[c]]

ListDueDocs == \E c \in Chunk : row[c].status = "pending" /\ row[c].due

-----------------------------------------------------------------------------
NoDelivery ==
    [pc |-> "idle", held |-> "ended",
     snap |-> [c \in Chunk |-> NoRow],     \* the pending rows it read
     ask |-> [c \in Chunk |-> {}],         \* members the chain is asked for
     bill |-> {}, only |-> {}, settle |-> {},
     stored |-> {},                        \* columns and vector are present
     got |-> [c \in Chunk |-> {}], owed |-> [c \in Chunk |-> {}],
     point |-> {},                         \* labels still to be written
     todo |-> {}, cur |-> None,            \* repairs to persist, and the current one
     txn |-> FALSE, ok |-> FALSE,
     fresh |-> {}]                         \* history: not reset since the read

NoJob == [pc |-> "idle", reset |-> FALSE,
          hypes |-> {}, labels |-> {}, inFlight |-> {}, givenUp |-> {}]

(* What the ingest of each chunk left behind: the members in F owed; or     *)
(* nothing (written before the ledger existed); or a complete row without   *)
(* its label; or a label the gate excludes (from an older backfill).        *)
StartArt(c, F) ==
    CASE c \notin config.chunks \/ config.start = "legacy" -> NoArt
      [] config.start = "excluded" ->
            [IngestArt(c, F, FALSE) EXCEPT !.label = TRUE]
      [] OTHER -> IngestArt(c, F, config.start = "unlabelled")

StartRow(c, F) ==
    IF c \notin config.chunks \/ config.start = "legacy" THEN NoRow
                                                        ELSE UpsertEnrichState(F)

Init ==
    /\ config \in Configs
    /\ live = config.chunks
    /\ \E F \in [Chunk -> config.fail] :
          /\ art = [c \in Chunk |-> StartArt(c, F[c])]
          /\ row = [c \in Chunk |-> StartRow(c, F[c])]
    /\ tasks = [queued |-> 0, processing |-> 0, cancelling |-> 0]
    /\ recent = FALSE
    /\ d = NoDelivery
    /\ job = [t \in Thread |-> NoJob]
    /\ mu = None
    /\ budget = config.max
    /\ charged = [c \in Chunk |-> 0]
    /\ calls = [c \in Chunk |-> 0]

-----------------------------------------------------------------------------
(* THE DELIVERY.  EnrichBackfillWorker::ProcessTask, step by step.         *)

(* The scheduler hands out a queued task; its document is then reserved. *)
Dequeue ==
    /\ d.pc = "idle"
    /\ tasks.queued > 0
    /\ tasks' = [tasks EXCEPT !.queued = @ - 1]
    /\ d' = [NoDelivery EXCEPT !.pc = "read", !.held = "processing"]
    /\ UNCHANGED <<config, live, art, row, recent, job, mu, budget, charged, calls>>

(* A store failure ends the delivery and fails the task; the rows stay      *)
(* pending.                                                                 *)
StoreFails ==
    /\ Spend("store")
    /\ d' = [d EXCEPT !.pc = "end"]
    /\ UNCHANGED <<config, live, art, row, tasks, recent, job, mu, charged, calls>>

(* A worker that leaves a task row as it is: nobody holds the row then. *)
LeaveTask ==
    /\ d' = NoDelivery
    /\ tasks' = [s \in DOMAIN tasks |->
                    IF s = d.held THEN tasks[s] + 1 ELSE tasks[s]]
    /\ UNCHANGED recent

(* What a pending row of a live chunk asks of this delivery.               *)
Owes(c) ==
    LET members == IF row[c].owed = {} THEN Member ELSE row[c].owed
    IN  IF HypeBlocksExpected THEN members ELSE members \ {"f38"}

Classify ==
    LET pending == {c \in Chunk : row[c].status = "pending"}
        here    == pending \cap live
        stored  == {c \in here : "f35" \in Owes(c) /\ art[c].columns}
        ask     == [c \in Chunk |->
                       IF c \notin here THEN {}
                       ELSE Owes(c) \ (IF c \in stored THEN {"f35"} ELSE {})]
        provide == {c \in here : ask[c] # {}}
        only    == {c \in stored \ provide : IndexPointsExpected(c)}
    IN  [d EXCEPT !.pc = "settle",
                  !.snap = [c \in Chunk |-> IF c \in pending THEN row[c] ELSE NoRow],
                  !.ask = ask,
                  !.bill = provide \cup (pending \ live),
                  !.only = only,
                  !.settle = here \ (provide \cup only),
                  !.stored = stored,
                  !.fresh = pending]

Read ==
    /\ d.pc = "read"
    /\ \/ StoreFails
       \/ /\ \A c \in Chunk : row[c].status # "pending"
          /\ d' = [d EXCEPT !.pc = "end", !.ok = TRUE]
          /\ UNCHANGED <<config, live, art, row, tasks, recent, job, mu, budget,
                         charged, calls>>
       \/ /\ \E c \in Chunk : row[c].status = "pending"
          /\ d' = Classify
          /\ UNCHANGED <<config, live, art, row, tasks, recent, job, mu, budget,
                         charged, calls>>

(* Rows that owe nothing the ingest would have written are closed first. *)
Settle ==
    /\ d.pc = "settle"
    /\ row' = [c \in Chunk |->
                  IF c \notin d.settle THEN row[c]
                  ELSE FlipEnrichStateIfGeneration(row[c],
                          [d.snap[c] EXCEPT !.status = "ok", !.owed = {}, !.due = FALSE],
                          d.snap[c].gen)]
    /\ d' = [d EXCEPT !.pc = "charge"]
    /\ UNCHANGED <<config, live, art, tasks, recent, job, mu, budget, charged, calls>>

Count(ids, terminal) ==
    /\ row' = [c \in Chunk |-> IF c \in ids THEN ChargeEnrichAttempts(row[c], terminal)
                                            ELSE row[c]]
    /\ charged' = [c \in Chunk |-> IF c \in ids /\ row[c].status = "pending"
                                   THEN charged[c] + 1 ELSE charged[c]]

(* The delivery is counted before the first provider call, in two           *)
(* statements: rows that need a provider, then label-only rows.             *)
ChargeProvider ==
    /\ d.pc = "charge"
    /\ \/ StoreFails
       \/ /\ Count(d.bill, MaxAttempts + 1)
          /\ d' = [d EXCEPT !.pc = "count"]
          /\ UNCHANGED <<config, live, art, tasks, recent, job, mu, budget, calls>>

ChargeLabelOnly ==
    /\ d.pc = "count"
    /\ \/ StoreFails
       \/ /\ Count(d.only, NoTerminal)
          /\ d' = [d EXCEPT !.pc = "chain"]
          /\ UNCHANGED <<config, live, art, tasks, recent, job, mu, budget, calls>>

(* The chain runs the available members each row owes; any may fail.  A     *)
(* member that is not available is skipped, which is no failure.            *)
RunChain ==
    /\ d.pc = "chain"
    /\ \E failed \in [Chunk -> SUBSET config.up] :
          /\ \A c \in Chunk : failed[c] \subseteq d.ask[c]
          /\ d' = [d EXCEPT !.pc = "insert",
                            !.got = [c \in Chunk |->
                                        (d.ask[c] \cap config.up) \ failed[c]],
                            !.owed = failed]
    /\ calls' = [c \in Chunk |->
                    IF c \in d.fresh /\ d.ask[c] \cap config.up # {}
                    THEN calls[c] + 1 ELSE calls[c]]
    /\ UNCHANGED <<config, live, art, row, tasks, recent, job, mu, budget, charged>>

(* A handler that throws (allocation, a provider's answer) before it opens  *)
(* its write transaction; the calls after that report a status.  The worker *)
(* goes on, the task row keeps its status.                                  *)
HandlerThrows ==
    /\ d.pc \in {"read", "settle", "charge", "count", "chain", "insert"}
    /\ Spend("throw")
    /\ LeaveTask
    /\ UNCHANGED <<config, live, art, row, job, mu, charged, calls>>

(* The rows with a repair: not the ones whose chunk was gone. *)
Repaired == {c \in d.bill \cup d.only : c \in d.only \/ d.ask[c] # {}}

(* Mutant: hype blocks are inserted without looking for existing ones. *)
NewHypesAlways == {c \in Chunk : HypeBlocksExpected /\ "f38" \in d.got[c]}

(* Children to get hype blocks: those that have none yet. *)
NewHypes == {c \in Chunk : /\ HypeBlocksExpected /\ "f38" \in d.got[c]
                           /\ c \notin HypeSourceChildIds}

(* The write set: points for the labels that are due and missing, and the   *)
(* new hype blocks (E: their embedding failed).                             *)
(* Blocks and points go in under one transaction, undone when one fails.    *)
Insert ==
    LET points == {c \in Chunk : /\ IndexPointsExpected(c) /\ ~ art[c].label
                                 /\ "f35" \in d.got[c] \/ c \in d.stored}
        hypes  == NewHypes
    IN  /\ d.pc = "insert"
        /\ \/ points \cup hypes # {} /\ StoreFails
           \/ \E E \in SUBSET hypes :
                 /\ IF E = {} THEN UNCHANGED budget ELSE Spend("persist")
                 /\ art' = [c \in Chunk |-> IF c \in hypes \ E
                                            THEN [art[c] EXCEPT !.hype = @ + 1]
                                            ELSE art[c]]
                 /\ d' = [d EXCEPT !.pc = "score",
                                   !.owed = [c \in Chunk |-> IF c \in E THEN @[c] \cup {"f38"}
                                                                        ELSE @[c]],
                                   !.point = points,
                                   !.todo = Repaired,
                                   !.txn = points \cup (hypes \ E) # {}]
                 /\ UNCHANGED <<config, live, row, tasks, recent, job, mu, charged, calls>>

(* One column write of the current repair; a failed one keeps the member   *)
(* owed.  An UPDATE of a block that is gone changes nothing.               *)
Write(c, member, wanted, artWith, dOk, dBad) ==
    /\ \/ /\ ~ wanted
          /\ d' = dOk
          /\ UNCHANGED <<art, budget>>
       \/ /\ wanted
          /\ d' = [dOk EXCEPT !.stored = IF member = "columns" THEN @ \cup {c} ELSE @]
          /\ art' = IF c \in live \/ member = "label"
                    THEN [art EXCEPT ![c] = artWith] ELSE art
          /\ UNCHANGED budget
       \/ /\ wanted
          /\ Spend("persist")
          /\ d' = dBad
          /\ UNCHANGED art
    /\ UNCHANGED <<config, live, row, tasks, recent, job, mu, charged, calls>>

WriteScore ==
    /\ d.pc = "score"
    /\ \E c \in d.todo :
          LET ok == [d EXCEPT !.pc = "columns", !.cur = c, !.todo = @ \ {c}]
          IN  Write(c, "score", "f03" \in d.got[c] /\ ~ art[c].score,
                    [art[c] EXCEPT !.score = TRUE],
                    ok, [ok EXCEPT !.owed[c] = @ \cup {"f03"}])

WriteColumns ==
    /\ d.pc = "columns"
    /\ LET c  == d.cur
           ok == [d EXCEPT !.pc = "label"]
       IN  Write(c, "columns", "f35" \in d.got[c],
                 [art[c] EXCEPT !.columns = TRUE],
                 ok, [ok EXCEPT !.owed[c] = @ \cup {"f35"}, !.point = @ \ {c}])

(* Mutant: a label that cannot be written is dropped with a warning. *)
WriteLabelOrWarn ==
    /\ d.pc = "label"
    /\ LET c  == d.cur
           ok == [d EXCEPT !.pc = "score", !.cur = None]
       IN  Write(c, "label", c \in d.point, [art[c] EXCEPT !.label = TRUE], ok, ok)

(* The label comes after the columns; a vector whose width the index        *)
(* refuses gets none either, and both keep f35 owed.                        *)
WriteLabel ==
    /\ d.pc = "label"
    /\ LET c  == d.cur
           ok == [d EXCEPT !.pc = "score", !.cur = None]
       IN  Write(c, "label", c \in d.point,
                 [art[c] EXCEPT !.label = TRUE],
                 ok, [ok EXCEPT !.owed[c] = @ \cup {"f35"}])

(* A failed commit keeps the data and fails the task. *)
Commit ==
    /\ d.pc = "score"
    /\ d.todo = {}
    /\ \/ d' = [d EXCEPT !.pc = "flip"] /\ UNCHANGED budget
       \/ d.txn /\ Spend("commit") /\ d' = [d EXCEPT !.pc = "end"]
    /\ UNCHANGED <<config, live, art, row, tasks, recent, job, mu, charged, calls>>

(* Mutant: the row is given up on one delivery early. *)
OutcomeEarly(c) ==
    LET n == d.snap[c].attempts + 1
    IN  [d.snap[c] EXCEPT !.status = CASE d.owed[c] = {}       -> "ok"
                                       [] n + 1 >= MaxAttempts -> "failed"
                                       [] OTHER                -> "pending",
                          !.owed = d.owed[c], !.attempts = n, !.due = FALSE]

(* The outcome of one repair, computed from the row as it was read.         *)
Outcome(c) ==
    LET n         == d.snap[c].attempts + 1
        labelOnly == d.owed[c] = {"f35"} /\ c \in d.stored
        status    == CASE d.owed[c] = {}                  -> "ok"
                       [] n >= MaxAttempts /\ ~ labelOnly -> "failed"
                       [] OTHER                           -> "pending"
    IN  [d.snap[c] EXCEPT !.status = status, !.owed = d.owed[c],
                          !.attempts = n, !.due = FALSE]

Flip ==
    /\ d.pc = "flip"
    /\ row' = [c \in Chunk |->
                  IF c \notin Repaired THEN row[c]
                  ELSE FlipEnrichStateIfGeneration(row[c], Outcome(c), d.snap[c].gen)]
    /\ d' = [d EXCEPT !.pc = "end", !.ok = TRUE]
    /\ UNCHANGED <<config, live, art, tasks, recent, job, mu, budget, charged, calls>>

(* TaskFinalizer: the task row becomes completed or failed, unless it was    *)
(* ended already or the write fails, which the worker does not mind.         *)
Finish ==
    /\ d.pc = "end"
    /\ \/ /\ d' = NoDelivery
          /\ recent' = (recent \/ (d.ok /\ d.held # "ended"))
          /\ UNCHANGED <<tasks, budget>>
       \/ Spend("final") /\ LeaveTask
    /\ UNCHANGED <<config, live, art, row, job, mu, charged, calls>>

Worker ==
    \/ Dequeue \/ Read \/ Settle \/ ChargeProvider \/ ChargeLabelOnly \/ RunChain
    \/ Insert \/ WriteScore \/ WriteColumns \/ WriteLabel \/ Commit \/ Flip \/ Finish

-----------------------------------------------------------------------------
(* THE SWEEP.  EnrichRetrySweeper::RunSweepNow, by the timer or a request,  *)
(* under sweep_mu_ from the list of due documents to the last of them.      *)

Goto(t, pc) == job' = [job EXCEPT ![t].pc = pc]

SweepDone(t) ==
    /\ job' = [job EXCEPT ![t] = NoJob]
    /\ mu' = None

(* A row of the document is queued, being worked on, or being cancelled. *)
HasActiveTask ==
    tasks.queued + tasks.processing + tasks.cancelling > 0 \/ d.held # "ended"

(* Mutant: a sweep that does not wait for the one that is running. *)
SweepBeginUnlocked(t) ==
    /\ job[t].pc = IF t = Timer THEN "idle" ELSE "sweep"
    /\ \/ ListDueDocs /\ Goto(t, "check") /\ mu' = t
       \/ ~ ListDueDocs /\ t # Timer /\ SweepDone(t)
    /\ UNCHANGED <<config, live, art, row, tasks, recent, d, budget, charged, calls>>

SweepBegin(t) ==
    /\ mu = None
    /\ job[t].pc = IF t = Timer THEN "idle" ELSE "sweep"
    /\ \/ ListDueDocs /\ Goto(t, "check") /\ mu' = t
       \/ ~ ListDueDocs /\ t # Timer /\ SweepDone(t)
    /\ UNCHANGED <<config, live, art, row, tasks, recent, d, budget, charged, calls>>

(* An unanswered lookup skips the document like an active task does. *)
SweepCheck(t) ==
    /\ job[t].pc = "check"
    /\ \/ HasActiveTask /\ SweepDone(t) /\ UNCHANGED budget
       \/ ~ HasActiveTask /\ Goto(t, "lease") /\ UNCHANGED <<mu, budget>>
       \/ Spend("sweep") /\ SweepDone(t)
    /\ UNCHANGED <<config, live, art, row, tasks, recent, d, charged, calls>>

SweepLease(t) ==
    /\ job[t].pc = "lease"
    /\ \/ row' = LeaseDocRetries(FALSE) /\ Goto(t, "enqueue") /\ UNCHANGED <<mu, budget>>
       \/ Spend("sweep") /\ SweepDone(t) /\ UNCHANGED row
    /\ UNCHANGED <<config, live, art, tasks, recent, d, charged, calls>>

(* A submission inside the debounce window of a completed task merges into  *)
(* it and creates nothing.                                                  *)
SweepEnqueue(t) ==
    /\ job[t].pc = "enqueue"
    /\ \/ /\ ~ recent
          /\ tasks' = [tasks EXCEPT !.queued = @ + 1]
          /\ SweepDone(t)
          /\ UNCHANGED budget
       \/ recent /\ Goto(t, "unlease") /\ UNCHANGED <<tasks, mu, budget>>
       \/ ~ recent /\ Spend("sweep") /\ Goto(t, "unlease") /\ UNCHANGED <<tasks, mu>>
    /\ UNCHANGED <<config, live, art, row, recent, d, charged, calls>>

SweepUnlease(t) ==
    /\ job[t].pc = "unlease"
    /\ \/ row' = LeaseDocRetries(TRUE) /\ UNCHANGED budget
       \/ Spend("sweep") /\ UNCHANGED row
    /\ SweepDone(t)
    /\ UNCHANGED <<config, live, art, tasks, recent, d, charged, calls>>

Sweep(t) ==
    \/ SweepBegin(t) \/ SweepCheck(t) \/ SweepLease(t)
    \/ SweepEnqueue(t) \/ SweepUnlease(t)

-----------------------------------------------------------------------------
(* THE REQUEST.  POST /namespaces/:name/enrich/backfill: audit, reset,      *)
(* make due, sweep.                                                         *)

Request(t) ==
    /\ job[t].pc = "idle"
    /\ Spend("request")
    /\ \E audit, reset \in BOOLEAN :
          /\ <<audit, reset>> \in config.ops
          /\ job' = [job EXCEPT ![t] = [NoJob EXCEPT
                        !.pc = IF audit THEN "reconcile" ELSE "reset", !.reset = reset]]
    /\ UNCHANGED <<config, live, art, row, tasks, recent, d, mu, charged, calls>>

(* A failure of the audit or the reset answers with an error at once. *)
RequestFails(t) ==
    /\ job[t].pc \in {"reconcile", "artifacts", "rows", "reset"}
    /\ Spend("audit")
    /\ job' = [job EXCEPT ![t] = NoJob]
    /\ UNCHANGED <<config, live, art, row, tasks, recent, d, mu, charged, calls>>

(* Labels of existing chunks the gate excludes are removed. *)
ReconcileExcludedContextualLabels(t) ==
    /\ job[t].pc = "reconcile"
    /\ art' = [c \in Chunk |-> IF c \in live /\ ~ IndexPointsExpected(c)
                               THEN [art[c] EXCEPT !.label = FALSE] ELSE art[c]]
    /\ Goto(t, "artifacts")
    /\ UNCHANGED <<config, live, row, tasks, recent, d, mu, budget, charged, calls>>

(* The audit's passes 1 and 1.5: who has hype blocks, who has a label. *)
AuditArtifacts(t) ==
    /\ job[t].pc = "artifacts"
    /\ job' = [job EXCEPT ![t] = [@ EXCEPT !.pc = "tracked", !.hypes = HypeSourceChildIds,
                                           !.labels = Labelled]]
    /\ UNCHANGED <<config, live, art, row, tasks, recent, d, mu, budget, charged, calls>>

(* Pass 2: the rows the worker holds and the rows that gave up. *)
AuditTracked(t) ==
    /\ job[t].pc = "tracked"
    /\ job' = [job EXCEPT ![t] = [@ EXCEPT
                  !.pc = "rows",
                  !.inFlight = {c \in Chunk : row[c].status = "pending"},
                  !.givenUp  = {c \in Chunk : row[c].status = "failed"}]]
    /\ UNCHANGED <<config, live, art, row, tasks, recent, d, mu, budget, charged, calls>>

(* Pass 3, one chunk: what the sets of the earlier passes and the columns   *)
(* of now say about it.                                                     *)
AuditRow(j, c) ==
    LET owed      == Missing(c, j.labels, j.hypes)
        labelOnly == owed = {"f35"} /\ art[c].columns
    IN  CASE owed = {} /\ c \in j.givenUp -> SettleTerminalRow(row[c])
          [] \/ owed = {} /\ c \notin j.givenUp
             \/ owed # {} /\ c \in j.inFlight
             \/ owed # {} /\ c \in j.givenUp /\ ~ labelOnly -> row[c]
          [] OTHER -> ReoweEnrichState(row[c], owed,
                                       IF labelOnly THEN NoTerminal ELSE MaxAttempts)

(* The scan reads and writes under one snapshot of the namespace's store: a *)
(* write made after another connection's commit is refused, and a refused   *)
(* re-owe is skipped (the chunks outside W).                                *)
AuditRows(t) ==
    /\ job[t].pc = "rows"
    /\ \E W \in SUBSET live :
          /\ IF W = live THEN UNCHANGED budget ELSE Spend("audit")
          /\ row' = [c \in Chunk |-> IF c \in W THEN AuditRow(job[t], c) ELSE row[c]]
    /\ job' = [job EXCEPT ![t] = [NoJob EXCEPT !.pc = "reset", !.reset = job[t].reset]]
    /\ UNCHANGED <<config, live, art, tasks, recent, d, mu, charged, calls>>

(* Rows that gave up and whose chunk exists start over, with a fresh count. *)
ResetGivenUpEnrichRows(t) ==
    LET moved == IF job[t].reset THEN {c \in live : row[c].status = "failed"} ELSE {}
    IN  /\ job[t].pc = "reset"
        /\ row' = [c \in Chunk |->
                      IF c \notin moved THEN row[c]
                      ELSE [row[c] EXCEPT !.status = "pending", !.attempts = 0,
                                          !.due = TRUE, !.gen = @ + 1]]
        /\ charged' = [c \in Chunk |-> IF c \in moved THEN 0 ELSE charged[c]]
        /\ calls' = [c \in Chunk |-> IF c \in moved THEN 0 ELSE calls[c]]
        /\ d' = [d EXCEPT !.fresh = @ \ moved]
        /\ Goto(t, "due")
        /\ UNCHANGED <<config, live, art, tasks, recent, mu, budget>>

MakeAllPendingDueNow(t) ==
    /\ job[t].pc = "due"
    /\ row' = LeaseDocRetries(TRUE)
    /\ job' = [job EXCEPT ![t] = [NoJob EXCEPT !.pc = "sweep"]]
    /\ UNCHANGED <<config, live, art, tasks, recent, d, mu, budget, charged, calls>>

Serve(t) ==
    \/ ReconcileExcludedContextualLabels(t) \/ AuditArtifacts(t) \/ AuditTracked(t)
    \/ AuditRows(t) \/ ResetGivenUpEnrichRows(t) \/ MakeAllPendingDueNow(t)
    \/ Sweep(t)

-----------------------------------------------------------------------------
(* TIME, FAULTS AND OTHER CALLERS. *)

(* A backoff or a lease runs out. *)
Elapse ==
    /\ \E c \in Chunk :
          /\ row[c].status = "pending" /\ ~ row[c].due
          /\ row' = [row EXCEPT ![c].due = TRUE]
    /\ UNCHANGED <<config, live, art, tasks, recent, d, job, mu, budget, charged, calls>>

(* The debounce window of a completed task passes. *)
WindowPasses ==
    /\ recent
    /\ recent' = FALSE
    /\ UNCHANGED <<config, live, art, row, tasks, d, job, mu, budget, charged, calls>>

(* Mutant: the cron looks only at rows a worker holds. *)
CronSweepHeld ==
    /\ d.held = "processing"
    /\ Spend("cron")
    /\ d' = [d EXCEPT !.held = "ended"]
    /\ UNCHANGED <<config, live, art, row, tasks, recent, job, mu, charged, calls>>

(* The cleanup cron fails processing rows that are too old: those no worker *)
(* holds, or (rarely) the one being worked on.                              *)
CronSweep ==
    /\ \/ /\ tasks.processing > 0
          /\ tasks' = [tasks EXCEPT !.processing = 0]
          /\ UNCHANGED <<d, budget>>
       \/ /\ d.held = "processing"
          /\ Spend("cron")
          /\ d' = [d EXCEPT !.held = "ended"]
          /\ UNCHANGED tasks
    /\ UNCHANGED <<config, live, art, row, recent, job, mu, charged, calls>>

(* DELETE /documents/tasks/{id}: a queued task ends, a processing one is    *)
(* marked; the backfill handler never looks at the mark.                    *)
RequestCancel ==
    /\ Spend("cancel")
    /\ \/ /\ tasks.queued > 0
          /\ tasks' = [tasks EXCEPT !.queued = @ - 1]
          /\ UNCHANGED d
       \/ /\ tasks.processing > 0
          /\ tasks' = [tasks EXCEPT !.processing = @ - 1, !.cancelling = @ + 1]
          /\ UNCHANGED d
       \/ /\ d.held = "processing"
          /\ d' = [d EXCEPT !.held = "cancelling"]
          /\ UNCHANGED tasks
    /\ UNCHANGED <<config, live, art, row, recent, job, mu, charged, calls>>

(* A crash and restart: threads are gone, the ledger and the task rows are   *)
(* not.  Processing rows are queued again, except those old enough for the  *)
(* cron.  Hype blocks of an open transaction are all there and stay.        *)
Crash ==
    /\ Spend("crash")
    /\ LET held(s) == IF d.held = s THEN 1 ELSE 0
           n       == tasks.processing + held("processing")
       IN  \E again \in 0..n :
              tasks' = [queued     |-> tasks.queued + again,
                        processing |-> n - again,
                        cancelling |-> tasks.cancelling + held("cancelling")]
    /\ d' = NoDelivery
    /\ job' = [t \in Thread |-> NoJob]
    /\ mu' = None
    /\ UNCHANGED <<config, live, art, row, recent, charged, calls>>

(* The document is purged: its blocks go, its ledger rows and labels stay. *)
HardDelete ==
    /\ live # {}
    /\ Spend("delete")
    /\ live' = {}
    /\ art' = [c \in Chunk |-> [NoArt EXCEPT !.label = art[c].label]]
    /\ UNCHANGED <<config, row, tasks, recent, d, job, mu, charged, calls>>

Next ==
    \/ Worker \/ HandlerThrows
    \/ \E t \in Thread : Serve(t)
    \/ \E t \in Caller : (t \in config.callers /\ Request(t)) \/ RequestFails(t)
    \/ Elapse \/ WindowPasses \/ CronSweep \/ RequestCancel \/ Crash \/ HardDelete

(* Threads keep running, time passes, and the daily cron comes around. *)
Spec ==
    /\ Init /\ [][Next]_vars
    /\ WF_vars(Worker)
    /\ \A t \in Thread : WF_vars(Serve(t))
    /\ WF_vars(Elapse)
    /\ WF_vars(WindowPasses)
    /\ WF_vars(CronSweep)

-----------------------------------------------------------------------------
Row == [status : {"none", "ok", "pending", "failed"}, owed : SUBSET Member,
        attempts : Nat, due : BOOLEAN, gen : Nat]

Artifacts == [score : BOOLEAN, columns : BOOLEAN, label : BOOLEAN, hype : Nat]

Delivery ==
    [pc : {"idle", "read", "settle", "charge", "count", "chain", "insert",
           "score", "columns", "label", "flip", "end"},
     held : {"processing", "cancelling", "ended"},
     snap : [Chunk -> Row], ask : [Chunk -> SUBSET Member],
     bill : SUBSET Chunk, only : SUBSET Chunk, settle : SUBSET Chunk,
     stored : SUBSET Chunk,
     got : [Chunk -> SUBSET Member], owed : [Chunk -> SUBSET Member],
     point : SUBSET Chunk, todo : SUBSET Chunk, cur : Chunk \cup {None},
     txn : BOOLEAN, ok : BOOLEAN, fresh : SUBSET Chunk]

Job ==
    [pc : {"idle", "reconcile", "artifacts", "tracked", "rows", "reset", "due",
           "sweep", "check", "lease", "enqueue", "unlease"},
     reset : BOOLEAN, hypes : SUBSET Chunk, labels : SUBSET Chunk,
     inFlight : SUBSET Chunk, givenUp : SUBSET Chunk]

LedgerOK ==
    /\ row \in [Chunk -> Row]
    /\ charged \in [Chunk -> Nat]
    /\ calls \in [Chunk -> Nat]

TasksOK ==
    /\ tasks \in [queued : Nat, processing : Nat, cancelling : Nat]
    /\ recent \in BOOLEAN
    /\ budget \in [Kind -> Nat]

ThreadsOK ==
    /\ d \in Delivery
    /\ d.pc \in {"columns", "label"} => d.cur \in Chunk
    /\ job \in [Thread -> Job]
    /\ mu \in Thread \cup {None}

(* The types; a delivery and a job are records of the code's local state.  *)
TypeOK ==
    /\ config \in Configs
    /\ live \subseteq Chunk
    /\ art \in [Chunk -> Artifacts]
    /\ LedgerOK
    /\ TasksOK
    /\ ThreadsOK

(* "At most one active backfill task per doc" (enrich_retry_sweeper.cpp):   *)
(* whatever timer, requests, restarts and the cron do, no two task rows of  *)
(* the document are queued, processing or cancelling together, and only one *)
(* of two sweeps is between its dedup lookup and its Enqueue.               *)
OneActiveTask ==
    tasks.queued + tasks.processing + tasks.cancelling
        + (IF d.held = "ended" THEN 0 ELSE 1) <= 1

(* The count on a row is the number of deliveries counted against it since  *)
(* it was created or last reset: the flip, which writes a count computed    *)
(* from the rows as they were read, neither loses nor repeats one, and a    *)
(* delivery that was running when the operator reset the row leaves the     *)
(* fresh count alone.                                                       *)
AttemptsExact ==
    \A c \in Chunk : row[c].attempts = charged[c]

(* Deliveries are counted before they call a provider, so their number is   *)
(* bounded: a row costs at most MaxAttempts + 2 provider deliveries from    *)
(* its creation or reset on, however many of them die before their outcome  *)
(* is written (the flip stops at MaxAttempts, the entry charge two later).  *)
ProviderBudget ==
    \A c \in Chunk : calls[c] <= MaxAttempts + 2

(* A row is given up on only after MaxAttempts counted deliveries: neither  *)
(* the audit's re-owe nor a delivery overtaken by a reset ends one early.   *)
GivenUpSpent ==
    \A c \in Chunk : row[c].status = "failed" => charged[c] >= MaxAttempts

(* The ledger's bookkeeping: one task, exact counts, nothing given up early.*)
LedgerSound == OneActiveTask /\ AttemptsExact /\ GivenUpSpent

(* A row reads ok only when every configured artifact of its chunk that the *)
(* index gate admits is there, through crashes, failed writes, resets and   *)
(* concurrent audits.  Two cases are excluded because the code does not     *)
(* promise it for them: a chain with a member that is not available (a      *)
(* skipped member is no failure) and a label row lost at ingest.  "A crash  *)
(* between commit and the state flip cannot double-write"                   *)
(* (enrich_backfill_worker.h): no child gets a second set of hype blocks.   *)
OkIsComplete ==
    /\ (config.up = config.chain /\ config.start # "unlabelled") =>
        \A c \in live :
            row[c].status = "ok" => Missing(c, Labelled, HypeSourceChildIds) = {}
    /\ \A c \in Chunk : art[c].hype <= 1

(* A task row that stays "cancelling" because its worker is gone: neither   *)
(* the restart nor the cron looks at it, and the sweep sees it as active.   *)
Stranded == tasks.cancelling > 0

Settled(c) == row[c].status # "pending" \/ c \notin live

(* Debt is worked off: a chunk that owes something is repaired or given up  *)
(* on, however deliveries die, unless a cancelled task was stranded.        *)
DebtSettled == \A c \in Chunk : ~ Settled(c) ~> (Settled(c) \/ Stranded)
=============================================================================
