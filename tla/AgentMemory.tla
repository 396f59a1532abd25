----------------------------- MODULE AgentMemory -----------------------------
(***************************************************************************)
(* The memory service of one namespace: the sessions and their interaction *)
(* rows (memory.db), the queue of turns waiting for extraction, the        *)
(* workers that extract memories from them, the memory blocks, and the     *)
(* routes that create, edit, delete and restore a memory or opt a session  *)
(* out.  Sources: src/memory/memory_queue.cpp,                             *)
(* memory_extraction_service.cpp, memory_extractor.cpp,                    *)
(* memory_block_adapter.cpp, memory_transparency.cpp, memory_store.cpp,    *)
(* opt_out_manager.cpp, memory_writer.cpp, memory_routes.cpp.              *)
(*                                                                         *)
(* One step is one SQL statement or transaction, one critical section of   *)
(* the queue's mutex, or one call to the language model, because a thread  *)
(* holds no lock between them: each request and each extraction works on   *)
(* its own connections.  A block is named by the order of its insertion.   *)
(* Scores, timestamps, mention counts and the audit log are left out.      *)
(***************************************************************************)
EXTENDS Naturals, FiniteSets, Sequences

CONSTANTS
    Worker,      \* extraction workers (worker_count)
    Client,      \* threads that serve memory requests
    Session,     \* client-provided session ids
    NoSession,
    Text,        \* what a memory may say, "none" among it
    QueueMax,    \* queue_max_size
    RetryMax,    \* retry_max
    MaxSessions, \* max_sessions_per_namespace
    MaxRows,     \* max_interactions_per_session
    TopK,        \* contradiction_top_k
    Configs      \* the workloads a run explores

Proc == Worker \cup Client

(* What a workload may be allowed to do, and how often. *)
Kind == {"ask", "acquire", "read", "insert", "update", "busy", "crash", "stop"}

(* The rows of the database, the turns of the queue, the memories. *)
Row == [live : BOOLEAN, out : BOOLEAN, count : Nat, rows : Nat]
Item == [sess : Session, remember : BOOLEAN, attempt : 0..RetryMax]
Memory == [kind : {"fact", "preference", "event"}, text : Text]
BlockRecord == [kind : {"fact", "preference", "event", "none"}, text : Text,
                status : {"active", "invalidated"}, by : Nat]

ASSUME MemoryAssumption ==
    /\ Worker \cap Client = {}
    /\ NoSession \notin Session /\ "none" \in Text
    /\ QueueMax \in Nat \ {0} /\ RetryMax \in Nat
    /\ MaxSessions \in Nat /\ MaxRows \in Nat /\ TopK \in Nat
    /\ \A f \in Configs :
          /\ f.session \in [Session -> Row]
          /\ f.queue \in Seq(Item) /\ Len(f.queue) <= QueueMax
          /\ f.blocks \in Seq(BlockRecord)
          /\ \A b \in DOMAIN f.blocks : f.blocks[b].by = 0
          /\ f.replies \subseteq Seq(Memory) /\ f.said \subseteq Memory
          /\ f.remember \in BOOLEAN
          /\ f.budget \in [Kind -> Nat]

VARIABLES
    config,   \* the chosen workload
    session,  \* memory_sessions and interaction_log, by session id
    queue,    \* MemoryQueue::queue_
    stop,     \* MemoryQueue::stop_
    blocks,   \* the memory blocks, in the order of their insertion
    proc,     \* what each thread is doing
    budget,   \* how often each request or fault may still happen
    gone,     \* history: blocks whose deletion was answered, and no restore asked since
    silenced  \* history: sessions whose opt-out was answered, and neither revoke
              \* nor deletion asked since

vars == <<config, session, queue, stop, blocks, proc, budget, gone, silenced>>

Spend(k) == /\ budget[k] > 0
            /\ budget' = [budget EXCEPT ![k] = @ - 1]
-----------------------------------------------------------------------------
NoRow == [live |-> FALSE, out |-> FALSE, count |-> 0, rows |-> 0]

(* A memory block; by is the block that replaced it, 0 for none. *)
Block(kind, text) == [kind |-> kind, text |-> text, status |-> "active", by |-> 0]

NoBlock == Block("none", "none")

Idle == [pc |-> "idle", sess |-> NoSession, remember |-> TRUE, attempt |-> 0,
         mems |-> <<>>, todo |-> {}, minted |-> <<>>, pairs |-> {},
         blk |-> 0, read |-> NoBlock, text |-> "none"]

Step(p, r) == proc' = [proc EXCEPT ![p] = r]

Goto(p, l) == Step(p, [proc[p] EXCEPT !.pc = l])

Answer(c) == Step(c, Idle)

At(p, l) == proc[p].pc = l

Live == {s \in Session : session[s].live}

(* InsertMemoryBlock: the row is added; a failed vector insert is only     *)
(* logged.                                                                 *)
InsertMemoryBlock(b) == blocks' = Append(blocks, b)

(* UpdateMemoryBlock overwrites the whole metadata of the row with what    *)
(* the caller read earlier and changed.                                    *)
UpdateMemoryBlock(id, b) == blocks' = [blocks EXCEPT ![id] = b]
-----------------------------------------------------------------------------
(* MemoryQueue *)

Push(item) == queue' = Append(queue, item)

(* Worker w takes the front item, also while the queue is stopping. *)
Pop(w) ==
    /\ At(w, "idle") /\ queue # <<>>
    /\ LET item == Head(queue)
       IN Step(w, [Idle EXCEPT !.pc = "acquire", !.sess = item.sess,
                               !.remember = item.remember, !.attempt = item.attempt])
    /\ queue' = Tail(queue)
    /\ UNCHANGED <<config, session, stop, blocks, budget, gone, silenced>>

(* Stopping, and nothing left to take. *)
WorkerExits(w) ==
    /\ At(w, "idle") /\ stop /\ queue = <<>>
    /\ Goto(w, "exit")
    /\ UNCHANGED <<config, session, queue, stop, blocks, budget, gone, silenced>>

(* Mutant: a retried item keeps its attempt number. *)
AgainUncounted(w) == [sess |-> proc[w].sess, remember |-> proc[w].remember,
             attempt |-> proc[w].attempt]

Again(w) == [sess |-> proc[w].sess, remember |-> proc[w].remember,
             attempt |-> proc[w].attempt + 1]

(* The handler returned: a failed item goes back to the end of the queue,  *)
(* unless its retries are spent, the queue is full or it is stopping; then *)
(* it is counted as a dead letter, and no sink is installed to keep it.    *)
WorkerLoop(w) ==
    /\ \/ At(w, "ok") /\ UNCHANGED queue
       \/ /\ At(w, "failed")
          /\ IF proc[w].attempt < RetryMax /\ ~stop /\ Len(queue) < QueueMax
             THEN Push(Again(w)) ELSE UNCHANGED queue
    /\ Step(w, Idle)
    /\ UNCHANGED <<config, session, stop, blocks, budget, gone, silenced>>

(* The server has stopped serving, so no request is under way. *)
Stop ==
    /\ ~stop /\ Spend("stop")
    /\ \A c \in Client : At(c, "idle")
    /\ stop' = TRUE
    /\ UNCHANGED <<config, session, queue, blocks, proc, gone, silenced>>
-----------------------------------------------------------------------------
(* MemoryExtractionService::ExtractOne, by a worker or a request thread *)

(* An unavailable namespace consumes the item without extracting. *)
Acquire(p) ==
    /\ At(p, "acquire")
    /\ \/ /\ Goto(p, IF proc[p].remember THEN "check" ELSE "forget")
          /\ UNCHANGED budget
       \/ Spend("acquire") /\ Goto(p, "ok")
    /\ UNCHANGED <<config, session, queue, stop, blocks, gone, silenced>>

(* A turn sent with remember = false opts its session out: the state is    *)
(* read, then written if the session exists and is not out already.        *)
ForgetRead(p) ==
    /\ At(p, "forget")
    /\ LET s == proc[p].sess
       IN Goto(p, IF s \in Live /\ ~session[s].out THEN "optout" ELSE "ok")
    /\ UNCHANGED <<config, session, queue, stop, blocks, budget, gone, silenced>>

ForgetWrite(p) ==
    /\ At(p, "optout")
    /\ session' = [session EXCEPT ![proc[p].sess] = [@ EXCEPT !.out = session[proc[p].sess].live]]
    /\ Goto(p, "ok")
    /\ UNCHANGED <<config, queue, stop, blocks, budget, gone, silenced>>

(* Mutant: the opt-out is looked up only on the first attempt. *)
CheckOptOutOnce(p) ==
    /\ At(p, "check")
    /\ \/ /\ Goto(p, IF proc[p].attempt = 0 /\ session[proc[p].sess].out THEN "ok" ELSE "llm")
          /\ UNCHANGED budget
       \/ Spend("read") /\ Goto(p, "llm")
    /\ UNCHANGED <<config, session, queue, stop, blocks, gone, silenced>>

(* is_session_opted_out: an absent session is not out, and a failed read   *)
(* lets the extraction go on.                                              *)
CheckOptOut(p) ==
    /\ At(p, "check")
    /\ \/ /\ Goto(p, IF session[proc[p].sess].out THEN "ok" ELSE "llm")
          /\ UNCHANGED budget
       \/ Spend("read") /\ Goto(p, "llm")
    /\ UNCHANGED <<config, session, queue, stop, blocks, gone, silenced>>

FactsOf(mems) == {i \in DOMAIN mems : mems[i].kind = "fact"}

(* Where an extraction goes on: facts to judge, memories to store,         *)
(* contradicted blocks to mark, or nothing.                                *)
NextStage(r) ==
    CASE r.todo # {} -> "judge"
      [] r.todo = {} /\ Len(r.minted) < Len(r.mems) -> "store"
      [] r.todo = {} /\ Len(r.minted) >= Len(r.mems) /\ r.pairs # {} -> "fetch"
      [] OTHER -> "ok"

Proceed(p, r) == Step(p, [r EXCEPT !.pc = NextStage(r)])

(* MemoryExtractor::ExtractFromWindow: the model answers with some         *)
(* memories, or fails, or answers with something unusable.                 *)
Extract(p) ==
    /\ At(p, "llm")
    /\ \/ Goto(p, "failed")
       \/ \E reply \in config.replies :
             Proceed(p, [proc[p] EXCEPT !.mems = reply, !.todo = FactsOf(reply)])
    /\ UNCHANGED <<config, session, queue, stop, blocks, budget, gone, silenced>>

(* FindCandidates, the active facts: created_at has a resolution of one    *)
(* second and is missing from created and edited memories, so which of     *)
(* them the limit keeps is left open.                                      *)
Candidates == {S \in SUBSET {b \in DOMAIN blocks : /\ blocks[b].kind = "fact"
                                                   /\ blocks[b].status = "active"} :
                 Cardinality(S) <= TopK}

(* FindContradictions, for the next new fact: any of the candidates may be *)
(* judged to contradict it, and a failed judgement spares its candidate.   *)
FindContradictions(p) ==
    /\ At(p, "judge")
    /\ \E i \in proc[p].todo :
          /\ \A k \in proc[p].todo : i <= k
          /\ \E S \in Candidates :
                Proceed(p, [proc[p] EXCEPT
                    !.todo = @ \ {i},
                    !.pairs = @ \cup {[text |-> proc[p].mems[i].text, old |-> b] : b \in S}])
    /\ UNCHANGED <<config, session, queue, stop, blocks, budget, gone, silenced>>
-----------------------------------------------------------------------------
(* MemoryExtractor::WriteWithOperationLog *)

(* The memory to store next. *)
Current(p) == proc[p].mems[Len(proc[p].minted) + 1]

Stored(p, id) == Proceed(p, [proc[p] EXCEPT !.minted = Append(@, id)])

(* MaybeUpgradePreference looks for an active preference of the same text, *)
(* reads it, and writes it back as active with one more mention.           *)
FindMatchingPreference(p) ==
    /\ At(p, "store") /\ Current(p).kind = "preference"
    /\ LET same == {b \in DOMAIN blocks : /\ blocks[b].kind = "preference"
                                          /\ blocks[b].status = "active"
                                          /\ blocks[b].text = Current(p).text}
       IN \/ same = {} /\ Goto(p, "insert")
          \/ \E b \in same : Step(p, [proc[p] EXCEPT !.pc = "repeat", !.blk = b])
    /\ UNCHANGED <<config, session, queue, stop, blocks, budget, gone, silenced>>

UpgradeRead(p) ==
    /\ At(p, "repeat")
    /\ \/ /\ Step(p, [proc[p] EXCEPT !.pc = "upgrade", !.read = blocks[proc[p].blk]])
          /\ UNCHANGED budget
       \/ Spend("read") /\ Goto(p, "insert")
    /\ UNCHANGED <<config, session, queue, stop, blocks, gone, silenced>>

(* A failed update inserts the preference again. *)
UpgradeWrite(p) ==
    /\ At(p, "upgrade")
    /\ \/ /\ UpdateMemoryBlock(proc[p].blk, [proc[p].read EXCEPT !.status = "active"])
          /\ Stored(p, 0)
          /\ UNCHANGED budget
       \/ Spend("update") /\ Goto(p, "insert") /\ UNCHANGED blocks
    /\ UNCHANGED <<config, session, queue, stop, gone, silenced>>

(* A failed insert fails the extraction; the memories stored before it     *)
(* stay, and a retry stores them again.                                    *)
InsertNew(p) ==
    /\ At(p, "insert") \/ (At(p, "store") /\ Current(p).kind # "preference")
    /\ \/ /\ InsertMemoryBlock(Block(Current(p).kind, Current(p).text))
          /\ Stored(p, Len(blocks) + 1)
          /\ UNCHANGED budget
       \/ Spend("insert") /\ Goto(p, "failed") /\ UNCHANGED blocks
    /\ UNCHANGED <<config, session, queue, stop, gone, silenced>>

(* The contradicted blocks, one after the other: read, then written back;  *)
(* one that cannot be read is passed over.                                 *)
FetchOld(p) ==
    /\ At(p, "fetch")
    /\ \E c \in proc[p].pairs :
          \/ /\ Step(p, [proc[p] EXCEPT !.pc = "stamp", !.pairs = @ \ {c}, !.text = c.text,
                                         !.blk = c.old, !.read = blocks[c.old]])
             /\ UNCHANGED budget
          \/ Spend("read") /\ Proceed(p, [proc[p] EXCEPT !.pairs = @ \ {c}])
    /\ UNCHANGED <<config, session, queue, stop, blocks, gone, silenced>>

(* The new memory of a contradiction: the first one with its content. *)
Cause(r) == {i \in DOMAIN r.mems : /\ r.mems[i].text = r.text
                                   /\ \A k \in 1..(i - 1) : r.mems[k].text # r.text}

(* Mutant: the block is written back as it was read, with the cause only. *)
StampedUnmarked(p, i) == [proc[p].read EXCEPT !.by = proc[p].minted[i]]

Stamped(p, i) == [proc[p].read EXCEPT !.status = "invalidated", !.by = proc[p].minted[i]]

StampOld(p) ==
    /\ At(p, "stamp")
    /\ \/ /\ \E i \in Cause(proc[p]) : UpdateMemoryBlock(proc[p].blk, Stamped(p, i))
          /\ Proceed(p, proc[p])
          /\ UNCHANGED budget
       \/ Spend("update") /\ Goto(p, "failed") /\ UNCHANGED blocks
    /\ UNCHANGED <<config, session, queue, stop, gone, silenced>>

(* A request thread answers with the result. *)
ExtractAnswer(c) ==
    /\ c \in Client /\ proc[c].pc \in {"ok", "failed"}
    /\ Answer(c)
    /\ UNCHANGED <<config, session, queue, stop, blocks, budget, gone, silenced>>

ExtractOne(p) ==
    \/ Acquire(p) \/ ForgetRead(p) \/ ForgetWrite(p) \/ CheckOptOut(p) \/ Extract(p)
    \/ FindContradictions(p) \/ FindMatchingPreference(p) \/ UpgradeRead(p)
    \/ UpgradeWrite(p) \/ InsertNew(p) \/ FetchOld(p) \/ StampOld(p)
-----------------------------------------------------------------------------
(* The requests; each starts with its first statement *)

(* A client asks for op: a thread is free and the server still serves. *)
Ask(c, op) == At(c, "idle") /\ ~stop /\ op \in config.ops /\ Spend("ask")

(* POST /memory/extract: the turn is extracted by the request thread. *)
ExtractNow(c, s) ==
    /\ Ask(c, "extract")
    /\ Step(c, [Idle EXCEPT !.pc = "acquire", !.sess = s, !.remember = config.remember])
    /\ UNCHANGED <<config, session, queue, stop, blocks, gone, silenced>>

(* MemoryTransparency::Create *)
Create(c, m) ==
    /\ At(c, "idle") /\ ~stop /\ "create" \in config.ops
    /\ \/ Spend("ask") /\ InsertMemoryBlock(Block(m.kind, m.text))
       \/ Spend("insert") /\ UNCHANGED blocks
    /\ UNCHANGED <<config, session, queue, stop, proc, gone, silenced>>

(* FetchOwnedMemory for an edit or a revoke, neither of which looks at the *)
(* status; asking for a revoke gives up the deletion.                      *)
Fetch(c, op, b) ==
    /\ Ask(c, op)
    /\ Step(c, [Idle EXCEPT !.pc = op, !.blk = b, !.read = blocks[b]])
    /\ gone' = IF op = "revoke" THEN gone \ {b} ELSE gone
    /\ UNCHANGED <<config, session, queue, stop, blocks, silenced>>

(* MemoryTransparency::Edit inserts the new text as a block of its own,    *)
(* then marks the old one; it refuses an edit that expects another time of *)
(* modification than the one it read.                                      *)
EditInsert(c, m) ==
    /\ At(c, "edit")
    /\ \/ /\ InsertMemoryBlock(Block(m.kind, m.text))
          /\ Step(c, [proc[c] EXCEPT !.pc = "replace", !.minted = <<Len(blocks) + 1>>])
          /\ UNCHANGED budget
       \/ Spend("insert") /\ Answer(c) /\ UNCHANGED blocks
       \/ Answer(c) /\ UNCHANGED <<blocks, budget>>
    /\ UNCHANGED <<config, session, queue, stop, gone, silenced>>

(* Mutant: the new block is marked as replaced by the old one. *)
EditMarkSwapped(c) ==
    /\ At(c, "replace")
    /\ \/ /\ UpdateMemoryBlock(proc[c].minted[1],
                [proc[c].read EXCEPT !.status = "invalidated", !.by = proc[c].blk])
          /\ UNCHANGED budget
       \/ Spend("update") /\ UNCHANGED blocks
    /\ Answer(c)
    /\ UNCHANGED <<config, session, queue, stop, gone, silenced>>

EditMark(c) ==
    /\ At(c, "replace")
    /\ \/ /\ UpdateMemoryBlock(proc[c].blk,
                [proc[c].read EXCEPT !.status = "invalidated", !.by = proc[c].minted[1]])
          /\ UNCHANGED budget
       \/ Spend("update") /\ UNCHANGED blocks
    /\ Answer(c)
    /\ UNCHANGED <<config, session, queue, stop, gone, silenced>>

(* A deletion that is answered while a restore of the same block is under  *)
(* way promises nothing.                                                   *)
Deleted(b) ==
    gone' = IF \E c \in Client : At(c, "revoke") /\ proc[c].blk = b
            THEN gone ELSE gone \cup {b}

(* MemoryTransparency::Delete: a block already invalidated is left alone.  *)
Delete(c, b) ==
    /\ Ask(c, "delete")
    /\ \/ blocks[b].status = "invalidated" /\ Deleted(b) /\ UNCHANGED proc
       \/ /\ blocks[b].status # "invalidated"
          /\ Step(c, [Idle EXCEPT !.pc = "delete", !.blk = b, !.read = blocks[b]])
          /\ UNCHANGED gone
    /\ UNCHANGED <<config, session, queue, stop, blocks, silenced>>

DeleteMark(c) ==
    /\ At(c, "delete")
    /\ \/ /\ UpdateMemoryBlock(proc[c].blk, [proc[c].read EXCEPT !.status = "invalidated"])
          /\ Deleted(proc[c].blk)
          /\ UNCHANGED budget
       \/ Spend("update") /\ UNCHANGED <<blocks, gone>>
    /\ Answer(c)
    /\ UNCHANGED <<config, session, queue, stop, silenced>>

(* RevokeInvalidation makes the block active again and keeps its cause. *)
RevokeMark(c) ==
    /\ At(c, "revoke")
    /\ \/ /\ UpdateMemoryBlock(proc[c].blk, [proc[c].read EXCEPT !.status = "active"])
          /\ UNCHANGED budget
       \/ Spend("update") /\ UNCHANGED blocks
    /\ Answer(c)
    /\ UNCHANGED <<config, session, queue, stop, gone, silenced>>
-----------------------------------------------------------------------------
(* Sessions *)

(* OptOutManager::OptOut: an absent session and one already out are        *)
(* refused.                                                                *)
OptOut(c, s) ==
    /\ Ask(c, "optout")
    /\ IF session[s].live /\ ~session[s].out
       THEN Step(c, [Idle EXCEPT !.pc = "setout", !.sess = s]) ELSE UNCHANGED proc
    /\ UNCHANGED <<config, session, queue, stop, blocks, gone, silenced>>

(* The update finds no row if the session was deleted in between. *)
SetOptOut(c) ==
    /\ At(c, "setout")
    /\ LET s == proc[c].sess
       IN /\ session' = [session EXCEPT ![s] = [@ EXCEPT !.out = session[s].live]]
          /\ silenced' = IF session[s].live
                            /\ \A d \in Client : proc[d].sess = s =>
                                    proc[d].pc \notin {"clearout", "drop"}
                         THEN silenced \cup {s} ELSE silenced
    /\ Answer(c)
    /\ UNCHANGED <<config, queue, stop, blocks, budget, gone>>

(* OptOutManager::OptOutRevoke *)
OptOutRevoke(c, s) ==
    /\ Ask(c, "optback")
    /\ IF session[s].live /\ session[s].out
       THEN Step(c, [Idle EXCEPT !.pc = "clearout", !.sess = s]) ELSE UNCHANGED proc
    /\ silenced' = silenced \ {s}
    /\ UNCHANGED <<config, session, queue, stop, blocks, gone>>

ClearOptOut(c) ==
    /\ At(c, "clearout")
    /\ session' = [session EXCEPT ![proc[c].sess] = [@ EXCEPT !.out = FALSE]]
    /\ Answer(c)
    /\ UNCHANGED <<config, queue, stop, blocks, budget, gone, silenced>>

(* POST /memory/sessions: the limit, the id and the insert are three       *)
(* statements.                                                             *)
SessionLimit(c, s) ==
    /\ Ask(c, "create_session")
    /\ IF Cardinality(Live) < MaxSessions
       THEN Step(c, [Idle EXCEPT !.pc = "exists", !.sess = s]) ELSE UNCHANGED proc
    /\ UNCHANGED <<config, session, queue, stop, blocks, gone, silenced>>

SessionExists(c) ==
    /\ At(c, "exists")
    /\ IF session[proc[c].sess].live THEN Answer(c) ELSE Goto(c, "add")
    /\ UNCHANGED <<config, session, queue, stop, blocks, budget, gone, silenced>>

(* The primary key refuses an id inserted in between. *)
SessionCreate(c) ==
    /\ At(c, "add")
    /\ LET s == proc[c].sess
       IN IF session[s].live THEN UNCHANGED session
          ELSE session' = [session EXCEPT ![s] = [@ EXCEPT !.live = TRUE, !.out = FALSE, !.count = 0]]
    /\ Answer(c)
    /\ UNCHANGED <<config, queue, stop, blocks, budget, gone, silenced>>

(* DELETE /memory/sessions/{id} *)
DeleteSession(c, s) ==
    /\ Ask(c, "delete_session")
    /\ IF session[s].live THEN Step(c, [Idle EXCEPT !.pc = "drop", !.sess = s])
       ELSE UNCHANGED proc
    /\ silenced' = silenced \ {s}
    /\ UNCHANGED <<config, session, queue, stop, blocks, gone>>

(* One transaction; if the deletion of the rows fails, the row of the      *)
(* session goes alone.                                                     *)
SessionDelete(c) ==
    /\ At(c, "drop")
    /\ LET s == proc[c].sess
       IN \/ /\ session[s].live
             /\ \/ session' = [session EXCEPT ![s] = NoRow] /\ UNCHANGED budget
                \/ /\ Spend("busy")
                   /\ session' = [session EXCEPT ![s] = [NoRow EXCEPT !.rows = session[s].rows]]
          \/ ~session[s].live /\ UNCHANGED <<session, budget>>
    /\ Answer(c)
    /\ UNCHANGED <<config, queue, stop, blocks, gone, silenced>>

(* POST /memory/sessions/{id}/interactions: the limit, the session, the    *)
(* two rows, the queue.                                                    *)
InteractionLimit(c, s) ==
    /\ Ask(c, "write")
    /\ IF session[s].rows < MaxRows
       THEN Step(c, [Idle EXCEPT !.pc = "verify", !.sess = s]) ELSE UNCHANGED proc
    /\ UNCHANGED <<config, session, queue, stop, blocks, gone, silenced>>

VerifySession(c) ==
    /\ At(c, "verify")
    /\ IF session[proc[c].sess].live THEN Goto(c, "pair") ELSE Answer(c)
    /\ UNCHANGED <<config, session, queue, stop, blocks, budget, gone, silenced>>

(* Mutant: the transaction commits although the session was not touched. *)
PairInsertUntouched(c) ==
    /\ At(c, "pair")
    /\ LET s == proc[c].sess
           row == session[s]
       IN session' = [session EXCEPT ![s] = [@ EXCEPT !.rows = row.rows + 2, !.count = row.count + 1]]
    /\ Goto(c, "enqueue")
    /\ UNCHANGED <<config, queue, stop, blocks, budget, gone, silenced>>

(* InteractionPairInsertAndSessionTouch rolls back if the session is gone. *)
PairInsert(c) ==
    /\ At(c, "pair")
    /\ LET s == proc[c].sess
           row == session[s]
       IN \/ /\ row.live
             /\ session' = [session EXCEPT
                   ![s] = [@ EXCEPT !.rows = row.rows + 2, !.count = row.count + 1]]
             /\ Goto(c, "enqueue")
          \/ ~row.live /\ Answer(c) /\ UNCHANGED session
    /\ UNCHANGED <<config, queue, stop, blocks, budget, gone, silenced>>

(* A full queue refuses the turn; nothing looks for it later. *)
Enqueue(c) ==
    /\ At(c, "enqueue")
    /\ IF Len(queue) < QueueMax
       THEN Push([sess |-> proc[c].sess, remember |-> config.remember, attempt |-> 0])
       ELSE UNCHANGED queue
    /\ Answer(c)
    /\ UNCHANGED <<config, session, stop, blocks, budget, gone, silenced>>
-----------------------------------------------------------------------------
(* The process dies; the databases stay, the queue does not. *)
Crash ==
    /\ Spend("crash")
    /\ proc' = [p \in Proc |-> Idle]
    /\ queue' = <<>>
    /\ stop' = FALSE
    /\ UNCHANGED <<config, session, blocks, gone, silenced>>

(* Nothing is asked and nothing is left to do. *)
Quiet ==
    /\ queue = <<>>
    /\ \A p \in Proc : proc[p].pc \in {"idle", "exit"}
    /\ UNCHANGED vars

Init ==
    /\ config \in Configs
    /\ session = config.session
    /\ queue = config.queue
    /\ stop = FALSE
    /\ blocks = config.blocks
    /\ proc = [p \in Proc |-> Idle]
    /\ budget = config.budget
    /\ gone = {} /\ silenced = {}

WorkerStep(w) == Pop(w) \/ WorkerExits(w) \/ ExtractOne(w) \/ WorkerLoop(w)

Begin(c) ==
    \/ \E s \in Session : \/ ExtractNow(c, s) \/ OptOut(c, s) \/ OptOutRevoke(c, s)
                          \/ SessionLimit(c, s) \/ DeleteSession(c, s)
                          \/ InteractionLimit(c, s)
    \/ \E m \in config.said : Create(c, m)
    \/ \E b \in DOMAIN blocks : Fetch(c, "edit", b) \/ Fetch(c, "revoke", b) \/ Delete(c, b)

Continue(c) ==
    \/ ExtractOne(c) \/ ExtractAnswer(c)
    \/ \E m \in config.said : EditInsert(c, m)
    \/ EditMark(c) \/ DeleteMark(c) \/ RevokeMark(c) \/ SetOptOut(c) \/ ClearOptOut(c)
    \/ SessionExists(c) \/ SessionCreate(c) \/ SessionDelete(c)
    \/ VerifySession(c) \/ PairInsert(c) \/ Enqueue(c)

Next ==
    \/ \E w \in Worker : WorkerStep(w)
    \/ \E c \in Client : Begin(c) \/ Continue(c)
    \/ Stop \/ Crash \/ Quiet

(* A thread that can run does: the workers are woken by the queue's        *)
(* condition variable, SQLite calls return, and a call to the model ends   *)
(* with its timeout at the latest.                                         *)
Fairness ==
    /\ \A w \in Worker : WF_vars(WorkerStep(w))
    /\ \A c \in Client : WF_vars(Continue(c))

Spec == Init /\ [][Next]_vars /\ Fairness
-----------------------------------------------------------------------------
Label == {"idle", "exit", "acquire", "forget", "optout", "check", "llm", "judge", "store",
          "repeat", "upgrade", "insert", "fetch", "stamp", "ok", "failed", "edit", "replace",
          "delete", "revoke", "setout", "clearout", "exists", "add", "drop", "verify", "pair",
          "enqueue"}

ProcRecord ==
    [pc : Label, sess : Session \cup {NoSession}, remember : BOOLEAN, attempt : 0..RetryMax,
     mems : Seq(Memory), todo : SUBSET Nat, minted : Seq(Nat),
     pairs : SUBSET [text : Text, old : Nat],
     blk : Nat, read : BlockRecord, text : Text]

(* The types of the state; the queue never holds more than queue_max_size. *)
TypeOK ==
    /\ config \in Configs
    /\ session \in [Session -> Row]
    /\ queue \in Seq(Item) /\ Len(queue) <= QueueMax
    /\ stop \in BOOLEAN
    /\ blocks \in Seq(BlockRecord)
    /\ proc \in [Proc -> ProcRecord]
    /\ budget \in [Kind -> Nat]
    /\ gone \subseteq DOMAIN blocks /\ silenced \subseteq Session

(* A memory is replaced only by one that was stored after it and exists,   *)
(* so following invalidated_by_block_id always ends, whatever extractions, *)
(* edits, restores, retries and crashes overlap (memory_extractor.cpp      *)
(* inserts the new blocks before it marks the old ones; Edit does too).    *)
ReplacedByNewer ==
    \A b \in DOMAIN blocks : blocks[b].by # 0 => b < blocks[b].by /\ blocks[b].by \in DOMAIN blocks

(* A fact or an event whose deletion was answered stays invalidated until  *)
(* a restore is asked for, although extractions and edits write back whole *)
(* records they read earlier.  A preference does not: a repeated mention   *)
(* read before the deletion makes it active again.                         *)
DeletedStaysDeleted ==
    \A b \in gone : blocks[b].kind # "preference" => blocks[b].status = "invalidated"

(* No extraction of a session's turn reaches the model after the session's *)
(* opt-out was answered, first attempt or retry, unless the opt-out state  *)
(* cannot be read (ExtractOne goes on then).                               *)
OptOutHonoured ==
    [][\A p \in Proc : At(p, "check") /\ proc[p].sess \in silenced /\ proc'[p].pc = "llm"
           => budget'["read"] < budget["read"]]_vars

(* The interaction rows of a session agree with its counter and go with it *)
(* (but for a deletion whose first statement failed), and requests that    *)
(* race past the two limits exceed them by no more than one request each.  *)
SessionRowsAgree ==
    /\ budget["busy"] = config.budget["busy"] =>
           \A s \in Session : session[s].rows = IF session[s].live THEN 2 * session[s].count ELSE 0
    /\ \A s \in Session : session[s].rows < MaxRows + 2 * Cardinality(Client)
    /\ Cardinality(Live) < MaxSessions + Cardinality(Client)

(* Once the requests stop, every turn the queue accepted leaves it for     *)
(* good (extracted, skipped, given up after retry_max retries, or lost     *)
(* with the process) and every request is answered.                        *)
TurnsSettle ==
    <>[](queue = <<>> /\ \A p \in Proc : proc[p].pc \in {"idle", "exit"})
=============================================================================
