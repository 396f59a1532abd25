-------------------------- MODULE AgentMemoryProofs --------------------------
(***************************************************************************)
(* Proofs about the memory service, for every number of workers and        *)
(* clients, every session set, every limit and every workload.             *)
(***************************************************************************)
EXTENDS AgentMemory, TLAPS

-----------------------------------------------------------------------------
(* THE INDUCTIVE INVARIANT *)

(* An extraction may mark block old as replaced by what it stored for the  *)
(* memory text: everything it stored is newer.                             *)
Replaceable(r, old, text, n) ==
    /\ old \in 1..n
    /\ \A i \in DOMAIN r.minted : r.minted[i] # 0 => old < r.minted[i]
    /\ \E i \in DOMAIN r.mems : r.mems[i].text = text

(* What thread r knows of the n blocks, wherever it is. *)
Known(r, n) ==
    /\ r.todo \subseteq DOMAIN r.mems
    /\ r.todo # {} => r.minted = <<>>
    /\ \A i \in DOMAIN r.minted : r.minted[i] <= n
    /\ \A c \in r.pairs : Replaceable(r, c.old, c.text, n)

(* The labels at which an extraction has asked the model nothing yet, *)
Fresh == {"acquire", "forget", "optout", "check", "llm"}

(* and those of all the work on one session. *)
InSession == Fresh \cup {"judge", "store", "repeat", "upgrade", "insert", "fetch", "stamp", "ok",
                         "failed", "setout", "clearout", "exists", "add", "drop", "verify",
                         "pair", "enqueue"}

(* What it knows at each label. *)
Placed(r, n) ==
    /\ r.pc \in InSession => r.sess \in Session
    /\ r.pc \in Fresh => r.minted = <<>> /\ r.pairs = {}
    /\ r.pc \in {"store", "insert", "repeat", "upgrade", "fetch", "stamp", "edit"} => r.todo = {}
    /\ r.pc \in {"repeat", "upgrade", "stamp", "edit", "replace", "delete", "revoke"} => r.blk \in 1..n
    /\ r.pc \in {"upgrade", "stamp", "edit", "replace", "delete", "revoke"} =>
           (r.read.by # 0 => r.blk < r.read.by /\ r.read.by <= n)
    /\ r.pc \in {"store", "repeat", "upgrade", "insert"} => Len(r.minted) < Len(r.mems)
    /\ r.pc \in {"fetch", "stamp"} => Len(r.mems) <= Len(r.minted)
    /\ r.pc = "stamp" => Replaceable(r, r.blk, r.text, n)
    /\ r.pc = "replace" => r.minted # <<>> /\ r.blk < r.minted[1]

Coherent(r, n) == Known(r, n) /\ Placed(r, n)

BlocksInv ==
    /\ blocks \in Seq(BlockRecord)
    /\ ReplacedByNewer
    /\ proc \in [Proc -> ProcRecord]
    /\ \A p \in Proc : Coherent(proc[p], Len(blocks))

OthersInv ==
    /\ config \in Configs
    /\ session \in [Session -> Row]
    /\ queue \in Seq(Item) /\ Len(queue) <= QueueMax
    /\ stop \in BOOLEAN
    /\ budget \in [Kind -> Nat]
    /\ gone \subseteq 1..Len(blocks) /\ silenced \subseteq Session

Inv == BlocksInv /\ OthersInv
-----------------------------------------------------------------------------
(* RECORDS *)

LEMMA IdleOK ==
    /\ Idle \in ProcRecord
    /\ Idle.pc = "idle" /\ Idle.mems = <<>> /\ Idle.todo = {} /\ Idle.minted = <<>> /\ Idle.pairs = {}
    /\ \A n \in Nat : Coherent(Idle, n)
  <1>1. NoBlock \in BlockRecord
    BY Zenon, MemoryAssumption DEF NoBlock, Block, BlockRecord
  <1>2. Idle \in ProcRecord
    BY <1>1, MemoryAssumption DEF Idle, ProcRecord, Label
  <1>3. Idle.pc = "idle" /\ Idle.mems = <<>> /\ Idle.todo = {} /\ Idle.minted = <<>> /\ Idle.pairs = {}
    BY Zenon DEF Idle
  <1>4. ASSUME NEW n \in Nat PROVE Coherent(Idle, n)
    BY <1>3 DEF Coherent, Known, Placed, InSession, Fresh
  <1> QED BY Zenon, <1>2, <1>3, <1>4

(* More blocks take nothing from what a thread knows. *)
LEMMA Grows ==
    ASSUME NEW r \in ProcRecord, NEW m \in Nat, NEW n \in Nat, m <= n, Coherent(r, m)
    PROVE  Coherent(r, n)
  <1> USE DEF ProcRecord, BlockRecord
  <1>1. ASSUME NEW old, NEW text, Replaceable(r, old, text, m) PROVE Replaceable(r, old, text, n)
    BY <1>1 DEF Replaceable
  <1>2. Known(r, n)
    BY <1>1 DEF Coherent, Known
  <1>3. Placed(r, n)
    BY <1>1 DEF Coherent, Placed
  <1> QED BY Zenon, <1>2, <1>3 DEF Coherent

(* Going to another label keeps everything else. *)
LEMMA Relabel ==
    ASSUME NEW r \in ProcRecord, NEW l \in Label, NEW n \in Nat, Known(r, n)
    PROVE  LET q == [r EXCEPT !.pc = l]
           IN  /\ q \in ProcRecord /\ Known(q, n) /\ q.pc = l /\ q.sess = r.sess
               /\ q.blk = r.blk /\ q.read = r.read /\ q.text = r.text
               /\ q.mems = r.mems /\ q.minted = r.minted /\ q.todo = r.todo /\ q.pairs = r.pairs
  BY DEF ProcRecord, Known, Replaceable

(* The next stage of an extraction suits what it knows. *)
LEMMA ProceedOK ==
    ASSUME NEW r \in ProcRecord, NEW n \in Nat, Known(r, n), r.sess \in Session
    PROVE  LET q == [r EXCEPT !.pc = NextStage(r)]
           IN  q \in ProcRecord /\ Coherent(q, n)
  <1> DEFINE l == NextStage(r)
             q == [r EXCEPT !.pc = l]
  <1>1. /\ l \in {"judge", "store", "fetch", "ok"}
        /\ l = "store" => r.todo = {} /\ Len(r.minted) < Len(r.mems)
        /\ l = "fetch" => r.todo = {} /\ Len(r.mems) <= Len(r.minted)
    <2>1. Len(r.minted) \in Nat /\ Len(r.mems) \in Nat
      BY DEF ProcRecord
    <2> QED BY Zenon, <2>1 DEF NextStage
  <1>2. l \in Label
    BY Zenon, <1>1 DEF Label
  <1> HIDE DEF l
  <1>3. /\ q \in ProcRecord /\ Known(q, n) /\ q.pc = l /\ q.sess = r.sess
        /\ q.mems = r.mems /\ q.minted = r.minted /\ q.todo = r.todo
    BY Zenon, <1>2, Relabel
  <1> HIDE DEF q
  <1>4. Placed(q, n)
    BY Zenon, <1>1, <1>3 DEF Placed, Fresh
  <1>5. q \in ProcRecord /\ Coherent(q, n)
    BY Zenon, <1>3, <1>4 DEF Coherent
  <1> QED BY Zenon, <1>5 DEF q, l
-----------------------------------------------------------------------------
(* WHAT A STEP OF ONE THREAD DOES *)

(* It leaves the blocks alone, *)
LEMMA KeepBlocks ==
    ASSUME Inv, NEW p \in Proc, NEW r \in ProcRecord, Coherent(r, Len(blocks)),
           Step(p, r), UNCHANGED blocks
    PROVE  BlocksInv' /\ Len(blocks') = Len(blocks)
  BY Zenon DEF Inv, BlocksInv, Step, ReplacedByNewer

(* or adds one that is not replaced, *)
LEMMA AddBlock ==
    ASSUME Inv, NEW p \in Proc, NEW r \in ProcRecord, Coherent(r, Len(blocks) + 1),
           Step(p, r), NEW b \in BlockRecord, b.by = 0, InsertMemoryBlock(b)
    PROVE  BlocksInv' /\ Len(blocks') = Len(blocks) + 1
  <1> USE DEF Inv, BlocksInv
  <1>1. /\ blocks' \in Seq(BlockRecord) /\ Len(blocks') = Len(blocks) + 1
        /\ \A k \in 1..Len(blocks) : blocks'[k] = blocks[k]
        /\ blocks'[Len(blocks) + 1] = b
        /\ DOMAIN blocks = 1..Len(blocks) /\ DOMAIN blocks' = 1..(Len(blocks) + 1)
        /\ Len(blocks) \in Nat
    BY DEF InsertMemoryBlock
  <1>2. ReplacedByNewer'
    BY <1>1 DEF ReplacedByNewer, BlockRecord
  <1>3. proc' \in [Proc -> ProcRecord]
    BY Zenon DEF Step
  <1>4. ASSUME NEW q \in Proc PROVE Coherent(proc'[q], Len(blocks'))
    <2>1. CASE q = p
      BY Zenon, <1>1, <2>1 DEF Step
    <2>2. CASE q # p
      <3>1. proc'[q] = proc[q] /\ proc[q] \in ProcRecord /\ Coherent(proc[q], Len(blocks))
        BY Zenon, <2>2 DEF Step
      <3> QED BY <1>1, <3>1, Grows
    <2> QED BY Zenon, <2>1, <2>2
  <1> QED BY Zenon, <1>1, <1>2, <1>3, <1>4

(* or writes one back, replaced by nothing or by a newer one. *)
LEMMA ChangeBlock ==
    ASSUME Inv, NEW p \in Proc, NEW r \in ProcRecord, Coherent(r, Len(blocks)),
           Step(p, r), NEW id \in 1..Len(blocks), NEW b \in BlockRecord,
           b.by # 0 => id < b.by /\ b.by <= Len(blocks), UpdateMemoryBlock(id, b)
    PROVE  BlocksInv' /\ Len(blocks') = Len(blocks)
  <1> USE DEF Inv, BlocksInv
  <1>1. /\ blocks' \in Seq(BlockRecord) /\ Len(blocks') = Len(blocks)
        /\ \A k \in 1..Len(blocks) : blocks'[k] = IF k = id THEN b ELSE blocks[k]
        /\ DOMAIN blocks = 1..Len(blocks) /\ DOMAIN blocks' = 1..Len(blocks)
        /\ Len(blocks) \in Nat
    BY DEF UpdateMemoryBlock
  <1>2. ReplacedByNewer'
    BY <1>1 DEF ReplacedByNewer, BlockRecord
  <1>3. proc' \in [Proc -> ProcRecord]
    BY Zenon DEF Step
  <1>4. \A q \in Proc : Coherent(proc'[q], Len(blocks'))
    BY Zenon, <1>1 DEF Step
  <1> QED BY Zenon, <1>1, <1>2, <1>3, <1>4

LEMMA SpendOK ==
    ASSUME budget \in [Kind -> Nat], NEW k \in Kind, Spend(k)
    PROVE  budget' \in [Kind -> Nat]
  BY DEF Spend

(* The rest of the state stays, but for the budget. *)
LEMMA OthersKept ==
    ASSUME Inv, UNCHANGED <<config, session, queue, stop, gone, silenced>>,
           budget' \in [Kind -> Nat], Len(blocks') \in Nat, Len(blocks) <= Len(blocks')
    PROVE  OthersInv'
  <1>1. Len(blocks) \in Nat
    BY DEF Inv, BlocksInv
  <1> QED BY <1>1 DEF Inv, OthersInv

(* A thread that goes to a label of no obligations. *)
LEMMA GotoOK ==
    ASSUME Inv, NEW p \in Proc, NEW l \in Label,
           l \notin {"store", "insert", "repeat", "upgrade", "fetch", "stamp", "edit", "replace",
                     "delete", "revoke"},
           l \in InSession => proc[p].pc \in InSession, l \in Fresh => proc[p].pc \in Fresh
    PROVE  LET q == [proc[p] EXCEPT !.pc = l]
           IN  q \in ProcRecord /\ Coherent(q, Len(blocks))
  <1> DEFINE q == [proc[p] EXCEPT !.pc = l]
  <1>1. proc[p] \in ProcRecord /\ Known(proc[p], Len(blocks)) /\ Len(blocks) \in Nat
    BY DEF Inv, BlocksInv, Coherent
  <1>2. /\ q \in ProcRecord /\ Known(q, Len(blocks)) /\ q.pc = l /\ q.sess = proc[p].sess
        /\ q.minted = proc[p].minted /\ q.pairs = proc[p].pairs
    BY Zenon, <1>1, Relabel
  <1> HIDE DEF q
  <1>3. Placed(q, Len(blocks))
    BY Zenon, <1>2 DEF Placed, Inv, BlocksInv, Coherent
  <1>4. q \in ProcRecord /\ Coherent(q, Len(blocks))
    BY Zenon, <1>2, <1>3 DEF Coherent
  <1> QED BY Zenon, <1>4 DEF q
-----------------------------------------------------------------------------
(* WORKERS *)

(* A thread goes to such a label and nothing else but the budget changes. *)
LEMMA JustGoto ==
    ASSUME Inv, NEW p \in Proc, NEW l \in Label,
           l \notin {"store", "insert", "repeat", "upgrade", "fetch", "stamp", "edit", "replace",
                     "delete", "revoke"},
           l \in InSession => proc[p].pc \in InSession, l \in Fresh => proc[p].pc \in Fresh,
           Goto(p, l), budget' \in [Kind -> Nat],
           UNCHANGED <<config, session, queue, stop, blocks, gone, silenced>>
    PROVE  Inv'
  <1> DEFINE q == [proc[p] EXCEPT !.pc = l]
  <1>1. q \in ProcRecord /\ Coherent(q, Len(blocks)) /\ Step(p, q)
    BY Zenon, GotoOK DEF Goto
  <1> HIDE DEF q
  <1>2. BlocksInv' /\ Len(blocks') = Len(blocks)
    BY Zenon, <1>1, KeepBlocks
  <1>3. Len(blocks) \in Nat
    BY DEF Inv, BlocksInv
  <1> QED BY <1>2, <1>3, OthersKept DEF Inv

(* A thread returns to idle. *)
LEMMA JustIdle ==
    ASSUME Inv, NEW p \in Proc, Step(p, Idle), UNCHANGED blocks
    PROVE  BlocksInv' /\ Len(blocks') = Len(blocks)
  <1>1. Len(blocks) \in Nat
    BY DEF Inv, BlocksInv
  <1> QED BY Zenon, <1>1, KeepBlocks, IdleOK

LEMMA PushOK ==
    ASSUME queue \in Seq(Item), Len(queue) < QueueMax, NEW e \in Item, Push(e)
    PROVE  queue' \in Seq(Item) /\ Len(queue') <= QueueMax
  BY MemoryAssumption DEF Push

LEMMA WorkerOK ==
    ASSUME Inv, NEW w \in Worker, Pop(w) \/ WorkerExits(w) \/ WorkerLoop(w)
    PROVE  Inv'
  <1>0. w \in Proc /\ Len(blocks) \in Nat
    BY DEF Proc, Inv, BlocksInv
  <1>1. CASE Pop(w)
    <2> DEFINE item == Head(queue)
               r == [Idle EXCEPT !.pc = "acquire", !.sess = item.sess,
                                 !.remember = item.remember, !.attempt = item.attempt]
    <2>1. item \in Item /\ queue' \in Seq(Item) /\ Len(queue') <= QueueMax
      BY <1>1, MemoryAssumption DEF Pop, Inv, OthersInv
    <2> HIDE DEF item
    <2>2. /\ r \in ProcRecord /\ r.pc = "acquire" /\ r.todo = {} /\ r.minted = <<>>
          /\ r.pairs = {} /\ r.mems = <<>> /\ r.sess \in Session
      BY Zenon, <2>1, IdleOK DEF ProcRecord, Item, Label
    <2>3. Step(w, r) /\ UNCHANGED blocks
      BY Zenon, <1>1 DEF Pop, item
    <2> HIDE DEF r
    <2>4. Coherent(r, Len(blocks))
      BY <2>2 DEF Coherent, Known, Placed
    <2>5. BlocksInv' /\ Len(blocks') = Len(blocks)
      BY Zenon, <1>0, <2>2, <2>3, <2>4, KeepBlocks
    <2>6. OthersInv'
      BY Zenon, <1>1, <2>1, <2>5 DEF Pop, Inv, OthersInv
    <2> QED BY Zenon, <2>5, <2>6 DEF Inv
  <1>2. CASE WorkerExits(w)
    <2>1. budget' \in [Kind -> Nat]
      BY Zenon, <1>2 DEF WorkerExits, Inv, OthersInv
    <2> QED BY Zenon, <1>0, <1>2, <2>1, JustGoto DEF WorkerExits, Label, InSession, Fresh
  <1>3. CASE WorkerLoop(w)
    <2>1. BlocksInv' /\ Len(blocks') = Len(blocks)
      BY Zenon, <1>0, <1>3, JustIdle DEF WorkerLoop
    <2>2. queue' \in Seq(Item) /\ Len(queue') <= QueueMax
      <3>1. CASE UNCHANGED queue
        BY Zenon, <3>1 DEF Inv, OthersInv
      <3>2. CASE /\ proc[w].attempt < RetryMax /\ Len(queue) < QueueMax /\ Push(Again(w))
                 /\ At(w, "failed")
        <4>1. Again(w) \in Item
          BY <1>0, <3>2, MemoryAssumption
             DEF Again, Item, At, Inv, BlocksInv, Coherent, Placed, InSession, Fresh, ProcRecord
        <4> QED BY Zenon, <3>2, <4>1, PushOK DEF Inv, OthersInv
      <3> QED BY Zenon, <1>3, <3>1, <3>2 DEF WorkerLoop
    <2>3. OthersInv'
      BY Zenon, <1>3, <2>1, <2>2 DEF WorkerLoop, Inv, OthersInv
    <2> QED BY Zenon, <2>1, <2>3 DEF Inv
  <1> QED BY Zenon, <1>1, <1>2, <1>3
-----------------------------------------------------------------------------
(* EXTRACTIONS *)

(* The opt-out state of one session. *)
LEMMA OutOK ==
    ASSUME session \in [Session -> Row], NEW s, NEW x \in BOOLEAN,
           session' = [session EXCEPT ![s] = [@ EXCEPT !.out = x]]
    PROVE  session' \in [Session -> Row]
  BY Zenon DEF Row

(* What a thread of an extraction knows. *)
LEMMA AtSession ==
    ASSUME Inv, NEW p \in Proc, proc[p].pc \in InSession
    PROVE  /\ proc[p] \in ProcRecord /\ Len(blocks) \in Nat
           /\ Known(proc[p], Len(blocks)) /\ Placed(proc[p], Len(blocks))
           /\ proc[p].sess \in Session
           /\ DOMAIN blocks = 1..Len(blocks)
  BY DEF Inv, BlocksInv, Coherent, Placed

(* An extraction goes on with record r, and the blocks stay. *)
LEMMA ProceedKeeps ==
    ASSUME Inv, NEW p \in Proc, NEW r \in ProcRecord, Known(r, Len(blocks)), r.sess \in Session,
           Proceed(p, r), budget' \in [Kind -> Nat],
           UNCHANGED <<config, session, queue, stop, blocks, gone, silenced>>
    PROVE  Inv'
  <1>1. Len(blocks) \in Nat
    BY DEF Inv, BlocksInv
  <1>2. PICK q \in ProcRecord : Coherent(q, Len(blocks)) /\ Step(p, q)
    BY Zenon, <1>1, ProceedOK DEF Proceed
  <1>3. BlocksInv' /\ Len(blocks') = Len(blocks)
    BY Zenon, <1>2, KeepBlocks
  <1> QED BY <1>1, <1>3, OthersKept DEF Inv

LEMMA GateOK ==
    ASSUME Inv, NEW p \in Proc,
           Acquire(p) \/ ForgetRead(p) \/ ForgetWrite(p) \/ CheckOptOut(p)
    PROVE  Inv'
  <1>0. budget \in [Kind -> Nat]
    BY Zenon DEF Inv, OthersInv
  <1>1. CASE Acquire(p)
    <2>1. proc[p].pc \in InSession /\ proc[p].pc \in Fresh
      BY Zenon, <1>1 DEF Acquire, At, InSession, Fresh
    <2>2. budget' \in [Kind -> Nat]
      BY Zenon, <1>0, <1>1, SpendOK DEF Acquire, Kind
    <2>3. PICK l \in {"check", "forget", "ok"} : Goto(p, l)
      BY Zenon, <1>1 DEF Acquire
    <2>4. UNCHANGED <<config, session, queue, stop, blocks, gone, silenced>>
      BY Zenon, <1>1 DEF Acquire
    <2> QED BY Zenon, <2>1, <2>2, <2>3, <2>4, JustGoto DEF Label, Fresh
  <1>2. CASE ForgetRead(p)
    <2>1. proc[p].pc \in InSession /\ proc[p].pc \in Fresh
      BY Zenon, <1>2 DEF ForgetRead, At, InSession, Fresh
    <2>2. budget' \in [Kind -> Nat]
      BY Zenon, <1>0, <1>2 DEF ForgetRead
    <2>3. PICK l \in {"optout", "ok"} : Goto(p, l)
      BY Zenon, <1>2 DEF ForgetRead
    <2>4. UNCHANGED <<config, session, queue, stop, blocks, gone, silenced>>
      BY Zenon, <1>2 DEF ForgetRead
    <2> QED BY Zenon, <2>1, <2>2, <2>3, <2>4, JustGoto DEF Label, Fresh
  <1>3. CASE ForgetWrite(p)
    <2>1. proc[p].pc \in InSession /\ proc[p].pc \in Fresh
      BY Zenon, <1>3 DEF ForgetWrite, At, InSession, Fresh
    <2>2. session' \in [Session -> Row]
      <3>1. session[proc[p].sess].live \in BOOLEAN
        BY Zenon, <2>1, AtSession DEF Inv, OthersInv, Row
      <3> QED BY Zenon, <1>3, <3>1, OutOK DEF ForgetWrite, Inv, OthersInv
    <2>3. BlocksInv' /\ Len(blocks') = Len(blocks)
      <3> DEFINE q == [proc[p] EXCEPT !.pc = "ok"]
      <3>1. q \in ProcRecord /\ Coherent(q, Len(blocks))
        BY Zenon, <2>1, GotoOK DEF Label, Fresh
      <3>2. Step(p, q) /\ UNCHANGED blocks
        BY Zenon, <1>3 DEF ForgetWrite, Goto
      <3> QED BY Zenon, <3>1, <3>2, KeepBlocks
    <2>4. OthersInv'
      BY Zenon, <1>3, <2>2, <2>3 DEF ForgetWrite, Inv, OthersInv
    <2> QED BY Zenon, <2>3, <2>4 DEF Inv
  <1>4. CASE CheckOptOut(p)
    <2>1. proc[p].pc \in InSession /\ proc[p].pc \in Fresh
      BY Zenon, <1>4 DEF CheckOptOut, At, InSession, Fresh
    <2>2. budget' \in [Kind -> Nat]
      BY Zenon, <1>0, <1>4, SpendOK DEF CheckOptOut, Kind
    <2>3. PICK l \in {"llm", "ok"} : Goto(p, l)
      BY Zenon, <1>4 DEF CheckOptOut
    <2>4. UNCHANGED <<config, session, queue, stop, blocks, gone, silenced>>
      BY Zenon, <1>4 DEF CheckOptOut
    <2> QED BY Zenon, <2>1, <2>2, <2>3, <2>4, JustGoto DEF Label, Fresh
  <1> QED BY Zenon, <1>1, <1>2, <1>3, <1>4

(* The model answers: the facts of the reply are to be judged. *)
LEMMA ExtractOK ==
    ASSUME Inv, NEW p \in Proc, Extract(p)
    PROVE  Inv'
  <1>1. /\ proc[p].pc = "llm" /\ budget' \in [Kind -> Nat]
        /\ UNCHANGED <<config, session, queue, stop, blocks, gone, silenced>>
    BY Zenon DEF Extract, At, Inv, OthersInv
  <1>2. CASE Goto(p, "failed")
    BY Zenon, <1>1, <1>2, JustGoto DEF Label, InSession, Fresh
  <1>3. ASSUME NEW reply \in config.replies,
               Proceed(p, [proc[p] EXCEPT !.mems = reply, !.todo = FactsOf(reply)])
        PROVE  Inv'
    <2> DEFINE r == [proc[p] EXCEPT !.mems = reply, !.todo = FactsOf(reply)]
    <2>1. reply \in Seq(Memory)
      BY Zenon, MemoryAssumption DEF Inv, OthersInv
    <2>2. FactsOf(reply) \in SUBSET Nat /\ FactsOf(reply) \subseteq DOMAIN reply
      BY <2>1 DEF FactsOf
    <2>3. /\ proc[p] \in ProcRecord /\ proc[p].sess \in Session
          /\ proc[p].minted = <<>> /\ proc[p].pairs = {}
      BY Zenon, <1>1 DEF Inv, BlocksInv, Coherent, Placed, InSession, Fresh
    <2>4. /\ r \in ProcRecord /\ r.mems = reply /\ r.todo = FactsOf(reply)
          /\ r.minted = <<>> /\ r.pairs = {} /\ r.sess \in Session
      BY Zenon, <2>1, <2>2, <2>3 DEF ProcRecord
    <2>5. Proceed(p, r)
      BY Zenon, <1>3
    <2> HIDE DEF r
    <2>6. Known(r, Len(blocks))
      BY <2>2, <2>4 DEF Known
    <2> QED BY Zenon, <1>1, <2>4, <2>5, <2>6, ProceedKeeps
  <1> QED BY Zenon, <1>2, <1>3 DEF Extract

(* A new fact is judged against the blocks there are, before anything of   *)
(* this reply is stored.                                                   *)
LEMMA JudgeOK ==
    ASSUME Inv, NEW p \in Proc, FindContradictions(p)
    PROVE  Inv'
  <1>1. /\ proc[p].pc = "judge" /\ budget' \in [Kind -> Nat]
        /\ UNCHANGED <<config, session, queue, stop, blocks, gone, silenced>>
    BY Zenon DEF FindContradictions, At, Inv, OthersInv
  <1>2. PICK i \in proc[p].todo, S \in Candidates :
            Proceed(p, [proc[p] EXCEPT
                !.todo = @ \ {i},
                !.pairs = @ \cup {[text |-> proc[p].mems[i].text, old |-> b] : b \in S}])
    BY Zenon DEF FindContradictions
  <1> DEFINE new == {[text |-> proc[p].mems[i].text, old |-> b] : b \in S}
             r == [proc[p] EXCEPT !.todo = @ \ {i}, !.pairs = @ \cup new]
  <1>3. /\ proc[p] \in ProcRecord /\ Known(proc[p], Len(blocks)) /\ proc[p].sess \in Session
        /\ proc[p].minted = <<>> /\ i \in DOMAIN proc[p].mems
        /\ S \subseteq 1..Len(blocks) /\ Len(blocks) \in Nat
    <2>1. /\ proc[p] \in ProcRecord /\ Known(proc[p], Len(blocks)) /\ proc[p].sess \in Session
          /\ Len(blocks) \in Nat /\ DOMAIN blocks = 1..Len(blocks)
      BY Zenon, <1>1, AtSession DEF InSession
    <2>2. proc[p].minted = <<>> /\ i \in DOMAIN proc[p].mems
      BY Zenon, <2>1 DEF Known
    <2>3. S \subseteq DOMAIN blocks
      BY Zenon DEF Candidates
    <2> QED BY Zenon, <2>1, <2>2, <2>3
  <1>4. /\ new \subseteq [text : Text, old : Nat]
        /\ \A c \in new : c.old \in 1..Len(blocks) /\ c.text = proc[p].mems[i].text
    <2>1. proc[p].mems \in Seq(Memory)
      BY Zenon, <1>3 DEF ProcRecord
    <2>2. proc[p].mems[i] \in Memory
      BY <1>3, <2>1
    <2>3. proc[p].mems[i].text \in Text
      BY Zenon, <2>2 DEF Memory
    <2>4. \A b \in S : b \in 1..Len(blocks) /\ b \in Nat
      BY <1>3
    <2>5. \A c \in new : \E b \in S : c = [text |-> proc[p].mems[i].text, old |-> b]
      BY Zenon
    <2>6. \A c \in new : /\ c \in [text : Text, old : Nat] /\ c.old \in 1..Len(blocks)
                         /\ c.text = proc[p].mems[i].text
      BY <2>3, <2>4, <2>5
    <2> QED BY Zenon, <2>6
  <1>5. Proceed(p, r)
    BY Zenon, <1>2
  <1> HIDE DEF new
  <1>6. /\ r \in ProcRecord /\ r.mems = proc[p].mems /\ r.todo = proc[p].todo \ {i}
        /\ r.minted = <<>> /\ r.pairs = proc[p].pairs \cup new /\ r.sess \in Session
    BY Zenon, <1>3, <1>4 DEF ProcRecord
  <1> HIDE DEF r
  <1>7. Known(r, Len(blocks))
    <2>1. \A c \in new : Replaceable(r, c.old, c.text, Len(blocks))
      BY <1>3, <1>4, <1>6 DEF Replaceable
    <2>2. \A c \in proc[p].pairs : Replaceable(r, c.old, c.text, Len(blocks))
      BY <1>3, <1>6 DEF Replaceable, Known
    <2> QED BY Zenon, <1>3, <1>6, <2>1, <2>2 DEF Known
  <1> QED BY <1>1, <1>5, <1>6, <1>7, ProceedKeeps

(* A record whose list of stored blocks got one more, 0 or the newest. *)
LEMMA StoredOK ==
    ASSUME NEW r \in ProcRecord, NEW n \in Nat, NEW m \in Nat, n <= m, Known(r, n), r.todo = {},
           NEW id \in Nat, id <= m, id = 0 \/ n < id
    PROVE  LET q == [r EXCEPT !.minted = Append(@, id)]
           IN  q \in ProcRecord /\ Known(q, m) /\ q.sess = r.sess
  <1> DEFINE q == [r EXCEPT !.minted = Append(@, id)]
  <1>1. /\ r.minted \in Seq(Nat) /\ Append(r.minted, id) \in Seq(Nat)
        /\ \A i \in DOMAIN Append(r.minted, id) :
              \/ i \in DOMAIN r.minted /\ Append(r.minted, id)[i] = r.minted[i]
              \/ Append(r.minted, id)[i] = id
    BY DEF ProcRecord
  <1>2. /\ q \in ProcRecord /\ q.minted = Append(r.minted, id) /\ q.todo = {}
        /\ q.mems = r.mems /\ q.pairs = r.pairs /\ q.sess = r.sess
    BY Zenon, <1>1 DEF ProcRecord
  <1> HIDE DEF q
  <1>3. \A i \in DOMAIN r.minted : r.minted[i] \in Nat /\ r.minted[i] <= n
    BY <1>1 DEF Known
  <1>4. \A i \in DOMAIN q.minted : q.minted[i] <= m
    BY <1>1, <1>2, <1>3
  <1>5. ASSUME NEW c \in q.pairs PROVE Replaceable(q, c.old, c.text, m)
    <2>1. Replaceable(r, c.old, c.text, n)
      BY Zenon, <1>2 DEF Known
    <2>2. c.old \in 1..n /\ c.old \in 1..m
      BY <2>1 DEF Replaceable
    <2>3. \A i \in DOMAIN q.minted : q.minted[i] # 0 => c.old < q.minted[i]
      BY <1>1, <1>2, <2>1, <2>2 DEF Replaceable
    <2> QED BY Zenon, <1>2, <2>1, <2>2, <2>3 DEF Replaceable
  <1>6. Known(q, m)
    BY Zenon, <1>2, <1>4, <1>5 DEF Known
  <1> QED BY Zenon, <1>2, <1>6 DEF q

(* A new block of an extraction. *)
LEMMA CurrentOK ==
    ASSUME Inv, NEW p \in Proc, proc[p].pc \in {"store", "insert"}
    PROVE  /\ Block(Current(p).kind, Current(p).text) \in BlockRecord
           /\ Block(Current(p).kind, Current(p).text).by = 0
  <1>1. proc[p].mems \in Seq(Memory) /\ proc[p].minted \in Seq(Nat)
    BY Zenon DEF Inv, BlocksInv, ProcRecord
  <1>2. Len(proc[p].minted) < Len(proc[p].mems)
    BY Zenon DEF Inv, BlocksInv, Coherent, Placed
  <1>3. Current(p) \in Memory
    BY <1>1, <1>2 DEF Current
  <1> QED BY Zenon, <1>3 DEF Block, BlockRecord, Memory

(* The preference of a repeated mention, and what was read of it. *)
LEMMA PreferenceOK ==
    ASSUME Inv, NEW p \in Proc, FindMatchingPreference(p) \/ UpgradeRead(p)
    PROVE  Inv'
  <1>1. /\ proc[p].pc \in {"store", "repeat"} /\ proc[p].pc \in InSession
        /\ UNCHANGED <<config, session, queue, stop, blocks, gone, silenced>>
    BY Zenon DEF FindMatchingPreference, UpgradeRead, At, InSession
  <1>2. /\ proc[p] \in ProcRecord /\ Len(blocks) \in Nat
        /\ Known(proc[p], Len(blocks)) /\ Placed(proc[p], Len(blocks))
        /\ proc[p].sess \in Session /\ DOMAIN blocks = 1..Len(blocks)
    BY Zenon, <1>1, AtSession
  <1>3. proc[p].todo = {} /\ Len(proc[p].minted) < Len(proc[p].mems)
    BY Zenon, <1>1, <1>2 DEF Placed
  <1>4. budget' \in [Kind -> Nat]
    BY Zenon, SpendOK DEF FindMatchingPreference, UpgradeRead, Kind, Inv, OthersInv
  <1>5. SUFFICES \E q \in ProcRecord : Coherent(q, Len(blocks)) /\ Step(p, q)
    BY <1>1, <1>2, <1>4, KeepBlocks, OthersKept DEF Inv
  <1>6. CASE Goto(p, "insert")
    <2> DEFINE q == [proc[p] EXCEPT !.pc = "insert"]
    <2>1. /\ q \in ProcRecord /\ Known(q, Len(blocks)) /\ q.pc = "insert"
          /\ q.sess = proc[p].sess /\ q.mems = proc[p].mems /\ q.minted = proc[p].minted
          /\ q.todo = proc[p].todo
      <3>1. "insert" \in Label
        BY Zenon DEF Label
      <3> QED BY <1>2, <3>1, Relabel
    <2>2. Step(p, q)
      BY Zenon, <1>6 DEF Goto
    <2> HIDE DEF q
    <2>3. Coherent(q, Len(blocks))
      BY Zenon, <1>2, <1>3, <2>1 DEF Coherent, Placed, Fresh
    <2> QED BY Zenon, <2>1, <2>2, <2>3
  <1>7. ASSUME NEW b \in DOMAIN blocks, Step(p, [proc[p] EXCEPT !.pc = "repeat", !.blk = b])
        PROVE  \E q \in ProcRecord : Coherent(q, Len(blocks)) /\ Step(p, q)
    <2> DEFINE q == [proc[p] EXCEPT !.pc = "repeat", !.blk = b]
    <2>1. /\ q \in ProcRecord /\ q.pc = "repeat" /\ q.blk = b /\ q.pairs = proc[p].pairs
          /\ q.sess = proc[p].sess /\ q.mems = proc[p].mems /\ q.minted = proc[p].minted
          /\ q.todo = proc[p].todo
      <3>1. b \in Nat /\ "repeat" \in Label
        BY <1>2 DEF Label
      <3> QED BY Zenon, <1>2, <3>1 DEF ProcRecord
    <2>2. Step(p, q)
      BY Zenon, <1>7
    <2> HIDE DEF q
    <2>3. Known(q, Len(blocks))
      BY Zenon, <1>2, <2>1 DEF Known, Replaceable
    <2>4. Coherent(q, Len(blocks))
      BY Zenon, <1>2, <1>3, <2>1, <2>3 DEF Coherent, Placed, Fresh
    <2> QED BY Zenon, <2>1, <2>2, <2>4
  <1>8. CASE At(p, "repeat") /\ Step(p, [proc[p] EXCEPT !.pc = "upgrade", !.read = blocks[proc[p].blk]])
    <2> DEFINE old == blocks[proc[p].blk]
               q == [proc[p] EXCEPT !.pc = "upgrade", !.read = old]
    <2>1. proc[p].blk \in 1..Len(blocks)
      BY Zenon, <1>2, <1>8 DEF At, Placed
    <2>2. /\ old \in BlockRecord
          /\ old.by # 0 => proc[p].blk < old.by /\ old.by <= Len(blocks)
      BY <1>2, <2>1 DEF Inv, BlocksInv, ReplacedByNewer
    <2> HIDE DEF old
    <2>3. /\ q \in ProcRecord /\ q.pc = "upgrade" /\ q.blk = proc[p].blk /\ q.pairs = proc[p].pairs
          /\ q.sess = proc[p].sess /\ q.mems = proc[p].mems /\ q.minted = proc[p].minted
          /\ q.todo = proc[p].todo /\ q.read = old
      BY Zenon, <1>2, <2>2 DEF ProcRecord, Label
    <2>4. Step(p, q)
      BY Zenon, <1>8 DEF old
    <2> HIDE DEF q
    <2>5. Known(q, Len(blocks))
      BY Zenon, <1>2, <2>3 DEF Known, Replaceable
    <2>6. Coherent(q, Len(blocks))
      BY Zenon, <1>2, <1>3, <2>1, <2>2, <2>3, <2>5 DEF Coherent, Placed, Fresh
    <2> QED BY Zenon, <2>3, <2>4, <2>6
  <1> QED BY Zenon, <1>6, <1>7, <1>8 DEF FindMatchingPreference, UpgradeRead

(* The preference is written back, or inserted again if that fails. *)
LEMMA UpgradeOK ==
    ASSUME Inv, NEW p \in Proc, UpgradeWrite(p)
    PROVE  Inv'
  <1>1. /\ proc[p].pc = "upgrade" /\ proc[p].pc \in InSession
        /\ UNCHANGED <<config, session, queue, stop, gone, silenced>>
    BY Zenon DEF UpgradeWrite, At, InSession
  <1>2. /\ proc[p] \in ProcRecord /\ Len(blocks) \in Nat
        /\ Known(proc[p], Len(blocks)) /\ Placed(proc[p], Len(blocks))
        /\ proc[p].sess \in Session
    BY Zenon, <1>1, AtSession
  <1>3. proc[p].todo = {} /\ Len(proc[p].minted) < Len(proc[p].mems) /\ proc[p].blk \in 1..Len(blocks)
    BY Zenon, <1>1, <1>2 DEF Placed
  <1>4. budget' \in [Kind -> Nat]
    BY Zenon, SpendOK DEF UpgradeWrite, Kind, Inv, OthersInv
  <1>5. CASE /\ UpdateMemoryBlock(proc[p].blk, [proc[p].read EXCEPT !.status = "active"])
             /\ Stored(p, 0)
    <2> DEFINE r == [proc[p] EXCEPT !.minted = Append(@, 0)]
               b == [proc[p].read EXCEPT !.status = "active"]
    <2>1. r \in ProcRecord /\ Known(r, Len(blocks)) /\ r.sess \in Session
      <3>1. Len(blocks) <= Len(blocks) /\ 0 <= Len(blocks) /\ 0 \in Nat
        BY <1>2
      <3>2. LET s == [proc[p] EXCEPT !.minted = Append(@, 0)]
            IN  s \in ProcRecord /\ Known(s, Len(blocks)) /\ s.sess = proc[p].sess
        BY ZenonT(30), <1>2, <1>3, <3>1, StoredOK
      <3> QED BY Zenon, <1>2, <3>2
    <2>2. Proceed(p, r)
      BY Zenon, <1>5 DEF Stored
    <2>3. /\ b \in BlockRecord
          /\ b.by # 0 => proc[p].blk < b.by /\ b.by <= Len(blocks)
      <3>1. proc[p].read \in BlockRecord
        BY Zenon, <1>2 DEF ProcRecord
      <3>2. b \in BlockRecord /\ b.by = proc[p].read.by
        BY Zenon, <3>1 DEF BlockRecord
      <3>3. proc[p].read.by # 0 => proc[p].blk < proc[p].read.by /\ proc[p].read.by <= Len(blocks)
        BY Zenon, <1>1, <1>2 DEF Placed
      <3> QED BY Zenon, <3>2, <3>3
    <2>4. UpdateMemoryBlock(proc[p].blk, b)
      BY Zenon, <1>5
    <2> HIDE DEF r, b
    <2>5. PICK q \in ProcRecord : Coherent(q, Len(blocks)) /\ Step(p, q)
      BY Zenon, <1>2, <2>1, <2>2, ProceedOK DEF Proceed
    <2>6. BlocksInv' /\ Len(blocks') = Len(blocks)
      BY Zenon, <1>3, <2>3, <2>4, <2>5, ChangeBlock
    <2> QED BY <1>1, <1>2, <1>4, <2>6, OthersKept DEF Inv
  <1>6. CASE Goto(p, "insert") /\ UNCHANGED blocks
    <2> DEFINE q == [proc[p] EXCEPT !.pc = "insert"]
    <2>1. /\ q \in ProcRecord /\ Known(q, Len(blocks)) /\ q.pc = "insert"
          /\ q.sess = proc[p].sess /\ q.mems = proc[p].mems /\ q.minted = proc[p].minted
          /\ q.todo = proc[p].todo
      <3>1. "insert" \in Label
        BY Zenon DEF Label
      <3> QED BY <1>2, <3>1, Relabel
    <2>2. Step(p, q)
      BY Zenon, <1>6 DEF Goto
    <2> HIDE DEF q
    <2>3. Coherent(q, Len(blocks))
      BY Zenon, <1>2, <1>3, <2>1 DEF Coherent, Placed, Fresh
    <2>4. BlocksInv' /\ Len(blocks') = Len(blocks)
      BY Zenon, <1>6, <2>1, <2>2, <2>3, KeepBlocks
    <2> QED BY <1>1, <1>2, <1>4, <2>4, OthersKept DEF Inv
  <1> QED BY Zenon, <1>5, <1>6 DEF UpgradeWrite

(* A new block is newer than every block judged before. *)
LEMMA InsertOK ==
    ASSUME Inv, NEW p \in Proc, InsertNew(p)
    PROVE  Inv'
  <1>1. /\ proc[p].pc \in {"store", "insert"} /\ proc[p].pc \in InSession
        /\ UNCHANGED <<config, session, queue, stop, gone, silenced>>
    BY Zenon DEF InsertNew, At, InSession
  <1>2. /\ proc[p] \in ProcRecord /\ Len(blocks) \in Nat
        /\ Known(proc[p], Len(blocks)) /\ Placed(proc[p], Len(blocks))
        /\ proc[p].sess \in Session
    BY Zenon, <1>1, AtSession
  <1>3. proc[p].todo = {}
    BY Zenon, <1>1, <1>2 DEF Placed
  <1>4. budget' \in [Kind -> Nat]
    BY Zenon, SpendOK DEF InsertNew, Kind, Inv, OthersInv
  <1>5. CASE /\ InsertMemoryBlock(Block(Current(p).kind, Current(p).text))
             /\ Stored(p, Len(blocks) + 1)
    <2> DEFINE r == [proc[p] EXCEPT !.minted = Append(@, Len(blocks) + 1)]
               b == Block(Current(p).kind, Current(p).text)
    <2>1. r \in ProcRecord /\ Known(r, Len(blocks) + 1) /\ r.sess \in Session
      <3> DEFINE n == Len(blocks) + 1
      <3>1. n \in Nat /\ Len(blocks) < n /\ Len(blocks) <= n /\ n <= n
        BY <1>2
      <3> HIDE DEF n
      <3>2. LET s == [proc[p] EXCEPT !.minted = Append(@, n)]
            IN  s \in ProcRecord /\ Known(s, n) /\ s.sess = proc[p].sess
        BY Zenon, <1>2, <1>3, <3>1, StoredOK
      <3> QED BY Zenon, <1>2, <3>2 DEF n
    <2>2. Proceed(p, r) /\ InsertMemoryBlock(b)
      BY Zenon, <1>5 DEF Stored
    <2>3. b \in BlockRecord /\ b.by = 0
      BY Zenon, <1>1, CurrentOK
    <2> HIDE DEF r, b
    <2>4. PICK q \in ProcRecord : Coherent(q, Len(blocks) + 1) /\ Step(p, q)
      BY <1>2, <2>1, <2>2, ProceedOK DEF Proceed
    <2>5. BlocksInv' /\ Len(blocks') = Len(blocks) + 1
      BY Zenon, <2>2, <2>3, <2>4, AddBlock
    <2> QED BY <1>1, <1>2, <1>4, <2>5, OthersKept DEF Inv
  <1>6. CASE Goto(p, "failed") /\ UNCHANGED blocks
    BY Zenon, <1>1, <1>4, <1>6, JustGoto DEF Label, Fresh
  <1> QED BY Zenon, <1>5, <1>6 DEF InsertNew

(* What an extraction stored for the memory of a contradiction is newer    *)
(* than the block it replaces, or the mention of an older preference.      *)
LEMMA NewBlockOK ==
    ASSUME NEW r \in ProcRecord, NEW n \in Nat, Known(r, n), Len(r.mems) <= Len(r.minted),
           NEW old \in Nat, Replaceable(r, old, r.text, n), NEW i \in Cause(r)
    PROVE  /\ r.minted[i] \in Nat
           /\ r.minted[i] # 0 => old < r.minted[i] /\ r.minted[i] <= n
  <1>1. r.mems \in Seq(Memory) /\ r.minted \in Seq(Nat) /\ i \in DOMAIN r.mems
    BY Zenon DEF ProcRecord, Cause
  <1>2. i \in DOMAIN r.minted /\ r.minted[i] \in Nat
    BY <1>1
  <1> QED BY Zenon, <1>2 DEF Known, Replaceable

(* A contradicted block is read, *)
LEMMA FetchOldOK ==
    ASSUME Inv, NEW p \in Proc, FetchOld(p)
    PROVE  Inv'
  <1>1. /\ proc[p].pc = "fetch" /\ proc[p].pc \in InSession
        /\ UNCHANGED <<config, session, queue, stop, blocks, gone, silenced>>
    BY Zenon DEF FetchOld, At, InSession
  <1>2. /\ proc[p] \in ProcRecord /\ Len(blocks) \in Nat
        /\ Known(proc[p], Len(blocks)) /\ Placed(proc[p], Len(blocks))
        /\ proc[p].sess \in Session /\ DOMAIN blocks = 1..Len(blocks)
    BY Zenon, <1>1, AtSession
  <1>3. proc[p].todo = {} /\ Len(proc[p].mems) <= Len(proc[p].minted)
    BY Zenon, <1>1, <1>2 DEF Placed
  <1>4. budget' \in [Kind -> Nat]
    BY Zenon, SpendOK DEF FetchOld, Kind, Inv, OthersInv
  <1>5. PICK c \in proc[p].pairs :
            \/ Step(p, [proc[p] EXCEPT !.pc = "stamp", !.pairs = @ \ {c}, !.text = c.text,
                                       !.blk = c.old, !.read = blocks[c.old]])
            \/ Proceed(p, [proc[p] EXCEPT !.pairs = @ \ {c}])
    BY Zenon DEF FetchOld
  <1>6. /\ c \in [text : Text, old : Nat] /\ Replaceable(proc[p], c.old, c.text, Len(blocks))
        /\ proc[p].pairs \ {c} \in SUBSET [text : Text, old : Nat]
    BY Zenon, <1>2 DEF ProcRecord, Known
  <1>7. CASE Step(p, [proc[p] EXCEPT !.pc = "stamp", !.pairs = @ \ {c}, !.text = c.text,
                                     !.blk = c.old, !.read = blocks[c.old]])
    <2> DEFINE old == blocks[c.old]
               q == [proc[p] EXCEPT !.pc = "stamp", !.pairs = @ \ {c}, !.text = c.text,
                                    !.blk = c.old, !.read = old]
    <2>1. c.old \in 1..Len(blocks) /\ c.old \in Nat /\ c.text \in Text /\ "stamp" \in Label
      BY Zenon, <1>6 DEF Replaceable, Label
    <2>2. /\ old \in BlockRecord
          /\ old.by # 0 => c.old < old.by /\ old.by <= Len(blocks)
      BY <1>2, <2>1 DEF Inv, BlocksInv, ReplacedByNewer
    <2> HIDE DEF old
    <2>3. /\ q \in ProcRecord /\ q.pc = "stamp" /\ q.blk = c.old /\ q.pairs = proc[p].pairs \ {c}
          /\ q.sess = proc[p].sess /\ q.mems = proc[p].mems /\ q.minted = proc[p].minted
          /\ q.todo = proc[p].todo /\ q.read = old /\ q.text = c.text
      BY Zenon, <1>2, <1>6, <2>1, <2>2 DEF ProcRecord
    <2>4. Step(p, q)
      BY Zenon, <1>7 DEF old
    <2> HIDE DEF q
    <2>5. Known(q, Len(blocks)) /\ Replaceable(q, c.old, c.text, Len(blocks))
      BY <1>2, <1>6, <2>3 DEF Known, Replaceable
    <2>6. Coherent(q, Len(blocks))
      BY Zenon, <1>2, <1>3, <2>1, <2>2, <2>3, <2>5 DEF Coherent, Placed, Fresh
    <2>7. BlocksInv' /\ Len(blocks') = Len(blocks)
      BY Zenon, <1>1, <2>3, <2>4, <2>6, KeepBlocks
    <2> QED BY <1>1, <1>2, <1>4, <2>7, OthersKept DEF Inv
  <1>8. CASE Proceed(p, [proc[p] EXCEPT !.pairs = @ \ {c}])
    <2> DEFINE r == [proc[p] EXCEPT !.pairs = @ \ {c}]
    <2>1. /\ r \in ProcRecord /\ r.pairs = proc[p].pairs \ {c} /\ r.sess = proc[p].sess
          /\ r.mems = proc[p].mems /\ r.minted = proc[p].minted /\ r.todo = proc[p].todo
      BY Zenon, <1>2, <1>6 DEF ProcRecord
    <2>2. Proceed(p, r)
      BY Zenon, <1>8
    <2> HIDE DEF r
    <2>3. Known(r, Len(blocks))
      BY Zenon, <1>2, <2>1 DEF Known, Replaceable
    <2> QED BY Zenon, <1>1, <1>2, <1>4, <2>1, <2>2, <2>3, ProceedKeeps
  <1> QED BY Zenon, <1>5, <1>7, <1>8

(* and marked as replaced. *)
LEMMA StampOK ==
    ASSUME Inv, NEW p \in Proc, StampOld(p)
    PROVE  Inv'
  <1>1. /\ proc[p].pc = "stamp" /\ proc[p].pc \in InSession
        /\ UNCHANGED <<config, session, queue, stop, gone, silenced>>
    BY Zenon DEF StampOld, At, InSession
  <1>2. /\ proc[p] \in ProcRecord /\ Len(blocks) \in Nat
        /\ Known(proc[p], Len(blocks)) /\ Placed(proc[p], Len(blocks))
        /\ proc[p].sess \in Session
    BY Zenon, <1>1, AtSession
  <1>3. /\ Len(proc[p].mems) <= Len(proc[p].minted) /\ proc[p].blk \in 1..Len(blocks)
        /\ proc[p].blk \in Nat /\ Replaceable(proc[p], proc[p].blk, proc[p].text, Len(blocks))
    BY <1>1, <1>2 DEF Placed
  <1>4. budget' \in [Kind -> Nat]
    BY Zenon, SpendOK DEF StampOld, Kind, Inv, OthersInv
  <1>5. ASSUME NEW i \in Cause(proc[p]),
               UpdateMemoryBlock(proc[p].blk, Stamped(p, i)), Proceed(p, proc[p])
        PROVE  Inv'
    <2> DEFINE n == proc[p].minted[i]
    <2>1. n \in Nat /\ (n # 0 => proc[p].blk < n /\ n <= Len(blocks))
      BY Zenon, <1>2, <1>3, NewBlockOK
    <2>2. Stamped(p, i) = [proc[p].read EXCEPT !.status = "invalidated", !.by = n]
      BY Zenon DEF Stamped
    <2> HIDE DEF n
    <2>3. Stamped(p, i) \in BlockRecord /\ Stamped(p, i).by = n
      <3>1. proc[p].read \in BlockRecord
        BY Zenon, <1>2 DEF ProcRecord
      <3> QED BY Zenon, <2>1, <2>2, <3>1 DEF BlockRecord
    <2>4. PICK q \in ProcRecord : Coherent(q, Len(blocks)) /\ Step(p, q)
      BY Zenon, <1>2, <1>5, ProceedOK DEF Proceed
    <2>5. BlocksInv' /\ Len(blocks') = Len(blocks)
      BY Zenon, <1>3, <1>5, <2>1, <2>3, <2>4, ChangeBlock
    <2> QED BY <1>1, <1>2, <1>4, <2>5, OthersKept DEF Inv
  <1>6. CASE Goto(p, "failed") /\ UNCHANGED blocks
    BY <1>1, <1>4, <1>6, JustGoto DEF Label, Fresh
  <1> QED BY Zenon, <1>5, <1>6 DEF StampOld

LEMMA ExtractOneOK ==
    ASSUME Inv, NEW p \in Proc, ExtractOne(p)
    PROVE  Inv'
  BY Zenon, GateOK, ExtractOK, JudgeOK, PreferenceOK, UpgradeOK, InsertOK, FetchOldOK, StampOK
     DEF ExtractOne
-----------------------------------------------------------------------------
(* REQUESTS *)

(* A thread takes up work on session s, *)
LEMMA StartSession ==
    ASSUME NEW s \in Session, NEW n \in Nat,
           NEW l \in {"acquire", "setout", "clearout", "exists", "drop", "verify"},
           NEW x \in BOOLEAN
    PROVE  /\ [Idle EXCEPT !.pc = l, !.sess = s] \in ProcRecord
           /\ Coherent([Idle EXCEPT !.pc = l, !.sess = s], n)
           /\ [Idle EXCEPT !.pc = l, !.sess = s, !.remember = x] \in ProcRecord
           /\ Coherent([Idle EXCEPT !.pc = l, !.sess = s, !.remember = x], n)
  <1> DEFINE q == [Idle EXCEPT !.pc = l, !.sess = s]
             r == [Idle EXCEPT !.pc = l, !.sess = s, !.remember = x]
  <1>1. l \in Label
    BY Zenon DEF Label
  <1>2. /\ q \in ProcRecord /\ q.pc = l /\ q.sess = s /\ q.todo = {} /\ q.minted = <<>> /\ q.pairs = {}
        /\ r \in ProcRecord /\ r.pc = l /\ r.sess = s /\ r.todo = {} /\ r.minted = <<>> /\ r.pairs = {}
    BY Zenon, <1>1, IdleOK DEF ProcRecord
  <1> HIDE DEF q, r
  <1>3. Coherent(q, n) /\ Coherent(r, n)
    BY <1>2 DEF Coherent, Known, Placed
  <1> QED BY Zenon, <1>2, <1>3 DEF q, r

(* or on block b, which it has read. *)
LEMMA StartBlock ==
    ASSUME Inv, NEW b \in DOMAIN blocks, NEW l \in {"edit", "delete", "revoke"}
    PROVE  LET q == [Idle EXCEPT !.pc = l, !.blk = b, !.read = blocks[b]]
           IN  q \in ProcRecord /\ Coherent(q, Len(blocks))
  <1> DEFINE old == blocks[b]
             q == [Idle EXCEPT !.pc = l, !.blk = b, !.read = old]
  <1>1. l \in Label
    BY Zenon DEF Label
  <1>2. Len(blocks) \in Nat /\ DOMAIN blocks = 1..Len(blocks)
    BY DEF Inv, BlocksInv
  <1>3. /\ b \in 1..Len(blocks) /\ b \in Nat /\ old \in BlockRecord
        /\ old.by # 0 => b < old.by /\ old.by <= Len(blocks)
    BY <1>2 DEF Inv, BlocksInv, ReplacedByNewer
  <1> HIDE DEF old
  <1>4. /\ q \in ProcRecord /\ q.pc = l /\ q.blk = b /\ q.read = old
        /\ q.todo = {} /\ q.minted = <<>> /\ q.pairs = {}
    BY Zenon, <1>1, <1>3, IdleOK DEF ProcRecord
  <1> HIDE DEF q
  <1>5. Coherent(q, Len(blocks))
    BY <1>2, <1>3, <1>4 DEF Coherent, Known, Placed, InSession, Fresh
  <1> QED BY <1>4, <1>5 DEF q, old

(* A request that starts on a session. *)
LEMMA SessionBegins ==
    ASSUME Inv, NEW c \in Client, NEW s \in Session,
           \/ ExtractNow(c, s) \/ OptOut(c, s) \/ OptOutRevoke(c, s)
           \/ SessionLimit(c, s) \/ DeleteSession(c, s) \/ InteractionLimit(c, s)
    PROVE  Inv'
  <1>1. /\ c \in Proc /\ Len(blocks) \in Nat /\ config.remember \in BOOLEAN
        /\ silenced \ {s} \subseteq Session
    BY MemoryAssumption DEF Proc, Inv, BlocksInv, OthersInv
  <1>2. budget' \in [Kind -> Nat]
    BY Zenon, SpendOK DEF ExtractNow, OptOut, OptOutRevoke, SessionLimit, DeleteSession,
                   InteractionLimit, Ask, Kind, Inv, OthersInv
  <1>3. /\ UNCHANGED <<config, session, queue, stop, blocks, gone>>
        /\ silenced' \in {silenced, silenced \ {s}}
    BY Zenon DEF ExtractNow, OptOut, OptOutRevoke, SessionLimit, DeleteSession, InteractionLimit
  <1>4. OthersInv'
    BY Zenon, <1>1, <1>2, <1>3 DEF Inv, OthersInv
  <1>5. CASE UNCHANGED proc
    BY Zenon, <1>3, <1>4, <1>5 DEF Inv, BlocksInv, ReplacedByNewer
  <1>6. ASSUME NEW l \in {"setout", "clearout", "exists", "drop", "verify"},
               Step(c, [Idle EXCEPT !.pc = l, !.sess = s])
        PROVE  Inv'
    BY Zenon, <1>1, <1>3, <1>4, <1>6, StartSession, KeepBlocks DEF Inv
  <1>7. CASE Step(c, [Idle EXCEPT !.pc = "acquire", !.sess = s, !.remember = config.remember])
    BY Zenon, <1>1, <1>3, <1>4, <1>7, StartSession, KeepBlocks DEF Inv
  <1> QED BY Zenon, <1>5, <1>6, <1>7 DEF ExtractNow, OptOut, OptOutRevoke, SessionLimit, DeleteSession,
                                  InteractionLimit

(* A block a client said. *)
LEMMA SaidOK ==
    ASSUME Inv, NEW m \in config.said
    PROVE  Block(m.kind, m.text) \in BlockRecord /\ Block(m.kind, m.text).by = 0
  <1>1. m \in Memory
    BY Zenon, MemoryAssumption DEF Inv, OthersInv
  <1> QED BY Zenon, <1>1 DEF Block, BlockRecord, Memory

LEMMA CreateOK ==
    ASSUME Inv, NEW c \in Client, NEW m \in config.said, Create(c, m)
    PROVE  Inv'
  <1>1. /\ c \in Proc /\ Len(blocks) \in Nat /\ Len(blocks) + 1 \in Nat /\ Len(blocks) <= Len(blocks) + 1
        /\ proc[c] \in ProcRecord /\ Coherent(proc[c], Len(blocks)) /\ proc' = proc
        /\ UNCHANGED <<config, session, queue, stop, gone, silenced>>
    BY DEF Proc, Inv, BlocksInv, Create
  <1>2. budget' \in [Kind -> Nat]
    BY Zenon, SpendOK DEF Create, Kind, Inv, OthersInv
  <1>3. Step(c, proc[c])
    BY Zenon, <1>1 DEF Step, Inv, BlocksInv
  <1>4. CASE UNCHANGED blocks
    <2>1. BlocksInv' /\ Len(blocks') = Len(blocks)
      BY Zenon, <1>1, <1>3, <1>4, KeepBlocks
    <2> QED BY <1>1, <1>2, <2>1, OthersKept DEF Inv
  <1>5. CASE InsertMemoryBlock(Block(m.kind, m.text))
    <2>1. Coherent(proc[c], Len(blocks) + 1)
      BY Zenon, <1>1, Grows
    <2>2. BlocksInv' /\ Len(blocks') = Len(blocks) + 1
      BY Zenon, <1>1, <1>3, <1>5, <2>1, SaidOK, AddBlock
    <2> QED BY Zenon, <1>1, <1>2, <2>2, OthersKept DEF Inv
  <1> QED BY Zenon, <1>4, <1>5 DEF Create

(* The deletions and restores change only which blocks are gone. *)
LEMMA GoneOK ==
    ASSUME Inv, NEW b \in 1..Len(blocks), UNCHANGED <<config, session, queue, stop, silenced>>,
           \/ gone' = gone \/ Deleted(b) \/ gone' = gone \ {b},
           budget' \in [Kind -> Nat], Len(blocks') = Len(blocks)
    PROVE  OthersInv'
  <1>1. gone' \subseteq 1..Len(blocks)
    BY Zenon DEF Deleted, Inv, OthersInv
  <1> QED BY <1>1 DEF Inv, OthersInv

LEMMA BlockBegins ==
    ASSUME Inv, NEW c \in Client, NEW b \in DOMAIN blocks,
           Fetch(c, "edit", b) \/ Fetch(c, "revoke", b) \/ Delete(c, b)
    PROVE  Inv'
  <1>1. c \in Proc /\ Len(blocks) \in Nat /\ b \in 1..Len(blocks)
    BY DEF Proc, Inv, BlocksInv
  <1>2. budget' \in [Kind -> Nat]
    BY Zenon, SpendOK DEF Fetch, Delete, Ask, Kind, Inv, OthersInv
  <1>3. /\ UNCHANGED <<config, session, queue, stop, blocks, silenced>>
        /\ gone' = gone \/ Deleted(b) \/ gone' = gone \ {b}
    BY Zenon DEF Fetch, Delete
  <1>4. OthersInv'
    BY Zenon, <1>1, <1>2, <1>3, GoneOK
  <1>5. CASE UNCHANGED proc
    BY Zenon, <1>3, <1>4, <1>5 DEF Inv, BlocksInv, ReplacedByNewer
  <1>6. ASSUME NEW l \in {"edit", "delete", "revoke"},
               Step(c, [Idle EXCEPT !.pc = l, !.blk = b, !.read = blocks[b]])
        PROVE  Inv'
    BY Zenon, <1>1, <1>3, <1>4, <1>6, StartBlock, KeepBlocks DEF Inv
  <1> QED BY <1>5, <1>6 DEF Fetch, Delete

(* The replacement of an edit is stored, *)
LEMMA EditInsertOK ==
    ASSUME Inv, NEW c \in Client, NEW m \in config.said, EditInsert(c, m)
    PROVE  Inv'
  <1>1. /\ c \in Proc /\ Len(blocks) \in Nat /\ Len(blocks) + 1 \in Nat
        /\ proc[c] \in ProcRecord /\ Known(proc[c], Len(blocks)) /\ Placed(proc[c], Len(blocks))
        /\ proc[c].pc = "edit" /\ UNCHANGED <<config, session, queue, stop, gone, silenced>>
    BY DEF Proc, Inv, BlocksInv, Coherent, EditInsert, At
  <1>2. budget' \in [Kind -> Nat]
    BY Zenon, SpendOK DEF EditInsert, Kind, Inv, OthersInv
  <1>3. CASE Answer(c) /\ UNCHANGED blocks
    <2>1. BlocksInv' /\ Len(blocks') = Len(blocks)
      BY Zenon, <1>1, <1>3, JustIdle DEF Answer
    <2> QED BY <1>1, <1>2, <2>1, OthersKept DEF Inv
  <1>4. CASE /\ InsertMemoryBlock(Block(m.kind, m.text))
             /\ Step(c, [proc[c] EXCEPT !.pc = "replace", !.minted = <<Len(blocks) + 1>>])
    <2> DEFINE n == Len(blocks) + 1
               q == [proc[c] EXCEPT !.pc = "replace", !.minted = <<n>>]
    <2>1. n \in Nat /\ Len(blocks) < n /\ <<n>> \in Seq(Nat) /\ "replace" \in Label
      BY <1>1 DEF Label
    <2>2. Step(c, q)
      BY Zenon, <1>4
    <2> HIDE DEF n
    <2>3. /\ q \in ProcRecord /\ q.pc = "replace" /\ q.minted = <<n>> /\ q.todo = proc[c].todo
          /\ q.pairs = proc[c].pairs /\ q.mems = proc[c].mems /\ q.blk = proc[c].blk
          /\ q.read = proc[c].read
      BY Zenon, <1>1, <2>1 DEF ProcRecord
    <2> HIDE DEF q
    <2>4. /\ proc[c].todo = {} /\ proc[c].blk \in 1..Len(blocks)
          /\ proc[c].read.by # 0 => proc[c].blk < proc[c].read.by /\ proc[c].read.by <= Len(blocks)
          /\ proc[c].read.by \in Nat
      BY Zenon, <1>1 DEF Placed, ProcRecord, BlockRecord
    <2>5. DOMAIN q.minted = {1} /\ q.minted[1] = n
      BY <2>3
    <2>6. ASSUME NEW e \in q.pairs PROVE Replaceable(q, e.old, e.text, n)
      <3>1. Replaceable(proc[c], e.old, e.text, Len(blocks))
        BY Zenon, <1>1, <2>3 DEF Known
      <3>2. e.old \in 1..Len(blocks) /\ e.old \in 1..n /\ e.old < n
        BY <1>1, <2>1, <3>1 DEF Replaceable
      <3> QED BY Zenon, <2>3, <2>5, <3>1, <3>2 DEF Replaceable
    <2>7. Known(q, n)
      BY <2>1, <2>3, <2>4, <2>5, <2>6 DEF Known
    <2>8. Placed(q, n)
      BY <1>1, <2>1, <2>3, <2>4, <2>5 DEF Placed, InSession, Fresh
    <2>9. BlocksInv' /\ Len(blocks') = n
      BY Zenon, <1>1, <1>4, <2>2, <2>3, <2>7, <2>8, SaidOK, AddBlock DEF Coherent, n
    <2> QED BY <1>1, <1>2, <2>1, <2>9, OthersKept DEF Inv
  <1> QED BY <1>3, <1>4 DEF EditInsert

(* A block written back as it was read, but for the status and the cause. *)
LEMMA WriteBack ==
    ASSUME Inv, NEW c \in Client, proc[c].pc \in {"replace", "delete", "revoke"},
           NEW b \in BlockRecord, UpdateMemoryBlock(proc[c].blk, b), Answer(c),
           b.by = proc[c].read.by \/ (proc[c].pc = "replace" /\ b.by = proc[c].minted[1])
    PROVE  BlocksInv' /\ Len(blocks') = Len(blocks)
  <1>1. /\ c \in Proc /\ Len(blocks) \in Nat
        /\ proc[c] \in ProcRecord /\ Known(proc[c], Len(blocks)) /\ Placed(proc[c], Len(blocks))
    BY DEF Proc, Inv, BlocksInv, Coherent
  <1>2. /\ proc[c].blk \in 1..Len(blocks)
        /\ proc[c].read.by # 0 => proc[c].blk < proc[c].read.by /\ proc[c].read.by <= Len(blocks)
    BY Zenon, <1>1 DEF Placed
  <1>3. b.by # 0 => proc[c].blk < b.by /\ b.by <= Len(blocks)
    <2>1. CASE b.by = proc[c].read.by
      BY Zenon, <1>2, <2>1
    <2>2. CASE proc[c].pc = "replace" /\ b.by = proc[c].minted[1]
      <3>1. proc[c].minted \in Seq(Nat) /\ proc[c].minted # <<>> /\ proc[c].blk < proc[c].minted[1]
        BY Zenon, <1>1, <2>2 DEF Placed, ProcRecord
      <3>2. 1 \in DOMAIN proc[c].minted
        BY <3>1
      <3>3. proc[c].minted[1] <= Len(blocks)
        BY Zenon, <1>1, <3>2 DEF Known
      <3> QED BY Zenon, <2>2, <3>1, <3>3
    <2> QED BY Zenon, <2>1, <2>2
  <1>4. Idle \in ProcRecord /\ Coherent(Idle, Len(blocks))
    BY Zenon, <1>1, IdleOK
  <1> QED BY <1>1, <1>2, <1>3, <1>4, ChangeBlock DEF Answer

LEMMA MarkOK ==
    ASSUME Inv, NEW c \in Client, EditMark(c) \/ DeleteMark(c) \/ RevokeMark(c)
    PROVE  Inv'
  <1>1. /\ c \in Proc /\ Len(blocks) \in Nat /\ Answer(c)
        /\ proc[c].pc \in {"replace", "delete", "revoke"}
        /\ proc[c].read \in BlockRecord /\ proc[c].blk \in 1..Len(blocks)
        /\ UNCHANGED <<config, session, queue, stop, silenced>>
    BY DEF Proc, Inv, BlocksInv, Coherent, Placed, ProcRecord, EditMark, DeleteMark, RevokeMark, At
  <1>2. budget' \in [Kind -> Nat]
    BY Zenon, SpendOK DEF EditMark, DeleteMark, RevokeMark, Kind, Inv, OthersInv
  <1>3. BlocksInv' /\ Len(blocks') = Len(blocks)
    <2>1. CASE UNCHANGED blocks
      BY Zenon, <1>1, <2>1, JustIdle DEF Answer
    <2>2. CASE /\ proc[c].pc = "replace"
               /\ UpdateMemoryBlock(proc[c].blk,
                    [proc[c].read EXCEPT !.status = "invalidated", !.by = proc[c].minted[1]])
      <3> DEFINE n == proc[c].minted[1]
                 b == [proc[c].read EXCEPT !.status = "invalidated", !.by = n]
      <3>1. proc[c].minted \in Seq(Nat) /\ proc[c].minted # <<>>
        BY Zenon, <1>1, <2>2 DEF Inv, BlocksInv, Coherent, Placed, ProcRecord
      <3>2. n \in Nat
        BY <3>1
      <3> HIDE DEF n
      <3>3. b \in BlockRecord /\ b.by = n
        BY Zenon, <1>1, <3>2 DEF BlockRecord
      <3>4. UpdateMemoryBlock(proc[c].blk, b)
        BY Zenon, <2>2 DEF n
      <3> HIDE DEF b
      <3> QED BY Zenon, <1>1, <2>2, <3>3, <3>4, WriteBack DEF n
    <2>3. ASSUME NEW x \in {"active", "invalidated"},
                 UpdateMemoryBlock(proc[c].blk, [proc[c].read EXCEPT !.status = x])
          PROVE  BlocksInv' /\ Len(blocks') = Len(blocks)
      <3> DEFINE b == [proc[c].read EXCEPT !.status = x]
      <3>1. b \in BlockRecord /\ b.by = proc[c].read.by
        BY <1>1 DEF BlockRecord
      <3>2. UpdateMemoryBlock(proc[c].blk, b)
        BY Zenon, <2>3
      <3> HIDE DEF b
      <3> QED BY Zenon, <1>1, <3>1, <3>2, WriteBack
    <2> QED BY Zenon, <2>1, <2>2, <2>3 DEF EditMark, DeleteMark, RevokeMark, At
  <1>4. gone' = gone \/ Deleted(proc[c].blk)
    BY Zenon DEF EditMark, DeleteMark, RevokeMark
  <1>5. OthersInv'
    BY Zenon, <1>1, <1>2, <1>3, <1>4, GoneOK
  <1> QED BY <1>3, <1>5 DEF Inv

LEMMA SessionContinues ==
    ASSUME Inv, NEW c \in Client,
           \/ SetOptOut(c) \/ ClearOptOut(c) \/ SessionCreate(c) \/ SessionDelete(c)
           \/ SessionExists(c) \/ VerifySession(c) \/ PairInsert(c) \/ Enqueue(c) \/ ExtractAnswer(c)
    PROVE  Inv'
  <1>0. proc[c].pc \in InSession /\ UNCHANGED <<config, stop, blocks, gone>>
    BY Zenon DEF SetOptOut, ClearOptOut, SessionCreate, SessionDelete, SessionExists,
                 VerifySession, PairInsert, Enqueue, ExtractAnswer, At, InSession
  <1>1. /\ c \in Proc /\ Len(blocks) \in Nat /\ proc[c].pc \in InSession
        /\ UNCHANGED <<config, stop, blocks, gone>>
    BY <1>0 DEF Proc, Inv, BlocksInv
  <1> DEFINE s == proc[c].sess
  <1>2. /\ s \in Session /\ session \in [Session -> Row] /\ session[s] \in Row
        /\ queue \in Seq(Item) /\ Len(queue) <= QueueMax /\ silenced \subseteq Session
    BY Zenon, <1>1, AtSession DEF Inv, OthersInv
  <1>3. budget' \in [Kind -> Nat]
    BY Zenon, SpendOK DEF SetOptOut, ClearOptOut, SessionCreate, SessionDelete, SessionExists,
                   VerifySession, PairInsert, Enqueue, ExtractAnswer, Kind, Inv, OthersInv
  <1>4. BlocksInv' /\ Len(blocks') = Len(blocks)
    <2>1. CASE Answer(c)
      BY Zenon, <1>1, <2>1, JustIdle DEF Answer
    <2>2. ASSUME NEW l \in {"add", "pair", "enqueue"}, Goto(c, l)
          PROVE  BlocksInv' /\ Len(blocks') = Len(blocks)
      <3> DEFINE q == [proc[c] EXCEPT !.pc = l]
      <3>1. l \in Label /\ l \notin Fresh
        BY Zenon DEF Label, Fresh
      <3>2. q \in ProcRecord /\ Coherent(q, Len(blocks)) /\ Step(c, q)
        BY Zenon, <1>1, <2>2, <3>1, GotoOK DEF Goto
      <3> HIDE DEF q
      <3> QED BY Zenon, <1>1, <3>2, KeepBlocks
    <2> QED BY Zenon, <2>1, <2>2
            DEF SetOptOut, ClearOptOut, SessionCreate, SessionDelete, SessionExists,
                VerifySession, PairInsert, Enqueue, ExtractAnswer
  <1>5. silenced' \subseteq Session
    BY Zenon, <1>2 DEF SetOptOut, ClearOptOut, SessionCreate, SessionDelete, SessionExists,
                VerifySession, PairInsert, Enqueue, ExtractAnswer
  <1>6. queue' \in Seq(Item) /\ Len(queue') <= QueueMax
    <2>1. CASE UNCHANGED queue
      BY Zenon, <1>2, <2>1
    <2>2. CASE /\ Len(queue) < QueueMax
               /\ Push([sess |-> s, remember |-> config.remember, attempt |-> 0])
      <3>1. [sess |-> s, remember |-> config.remember, attempt |-> 0] \in Item
        BY <1>2, MemoryAssumption DEF Item, Inv, OthersInv
      <3> QED BY Zenon, <1>2, <2>2, <3>1, PushOK
    <2> QED BY Zenon, <2>1, <2>2
            DEF SetOptOut, ClearOptOut, SessionCreate, SessionDelete, SessionExists,
                VerifySession, PairInsert, Enqueue, ExtractAnswer
  <1>7. session' \in [Session -> Row]
    <2> DEFINE row == session[s]
    <2>1. /\ row.live \in BOOLEAN /\ row.rows \in Nat /\ row.count \in Nat
          /\ NoRow \in Row /\ [NoRow EXCEPT !.rows = row.rows] \in Row
          /\ [row EXCEPT !.out = FALSE] \in Row
      BY Zenon, <1>2 DEF Row, NoRow
    <2>2. [row EXCEPT !.live = TRUE, !.out = FALSE, !.count = 0] \in Row
      BY Zenon, <1>2 DEF Row
    <2>3. [row EXCEPT !.rows = row.rows + 2, !.count = row.count + 1] \in Row
      <3> DEFINE a == row.rows + 2
                 b == row.count + 1
      <3>1. a \in Nat /\ b \in Nat
        BY <2>1
      <3> HIDE DEF a, b
      <3>2. [row EXCEPT !.rows = a, !.count = b] \in Row
        BY Zenon, <1>2, <3>1 DEF Row
      <3> QED BY Zenon, <3>2 DEF a, b
    <2>4. CASE UNCHANGED session
      BY Zenon, <1>2, <2>4
    <2>5. CASE session' = [session EXCEPT ![s] = [@ EXCEPT !.out = session[s].live]]
      BY Zenon, <1>2, <2>1, <2>5, OutOK
    <2>6. CASE session' = [session EXCEPT ![s] = [@ EXCEPT !.out = FALSE]]
      BY Zenon, <1>2, <2>6, OutOK
    <2>7. CASE session' = [session EXCEPT ![s] = [@ EXCEPT !.live = TRUE, !.out = FALSE, !.count = 0]]
      BY Zenon, <1>2, <2>2, <2>7
    <2>8. CASE session' = [session EXCEPT ![s] =
                            [@ EXCEPT !.rows = row.rows + 2, !.count = row.count + 1]]
      <3> DEFINE new == [row EXCEPT !.rows = row.rows + 2, !.count = row.count + 1]
      <3>1. session' = [session EXCEPT ![s] = new]
        BY <2>8, Zenon
      <3>2. new \in Row
        BY Zenon, <2>3
      <3> HIDE DEF new
      <3> QED BY Zenon, <1>2, <3>1, <3>2
    <2>9. CASE session' = [session EXCEPT ![s] = NoRow]
      BY Zenon, <1>2, <2>1, <2>9
    <2>10. CASE session' = [session EXCEPT ![s] = [NoRow EXCEPT !.rows = session[s].rows]]
      BY Zenon, <1>2, <2>1, <2>10
    <2> QED BY Zenon, <2>4, <2>5, <2>6, <2>7, <2>8, <2>9, <2>10
            DEF SetOptOut, ClearOptOut, SessionCreate, SessionDelete, SessionExists,
                VerifySession, PairInsert, Enqueue, ExtractAnswer
  <1>8. OthersInv'
    BY Zenon, <1>1, <1>3, <1>4, <1>5, <1>6, <1>7 DEF Inv, OthersInv
  <1> QED BY <1>4, <1>8 DEF Inv
-----------------------------------------------------------------------------
(* THE THEOREMS *)

LEMMA Initially == Init => Inv
  <1> SUFFICES ASSUME Init PROVE Inv
    BY Zenon
  <1>1. /\ config.blocks \in Seq(BlockRecord)
        /\ \A b \in DOMAIN config.blocks : config.blocks[b].by = 0
        /\ config.session \in [Session -> Row] /\ config.budget \in [Kind -> Nat]
        /\ config.queue \in Seq(Item) /\ Len(config.queue) <= QueueMax
    BY Zenon, MemoryAssumption DEF Init
  <1>2. Len(blocks) \in Nat
    BY <1>1 DEF Init
  <1>3. BlocksInv
    BY Zenon, <1>1, <1>2, IdleOK DEF Init, BlocksInv, ReplacedByNewer
  <1>4. OthersInv
    BY Zenon, <1>1 DEF Init, OthersInv
  <1> QED BY <1>3, <1>4 DEF Inv

LEMMA Preserved == Inv /\ [Next]_vars => Inv'
  <1> SUFFICES ASSUME Inv, [Next]_vars PROVE Inv'
    BY Zenon
  <1>1. ASSUME NEW w \in Worker, WorkerStep(w) PROVE Inv'
    BY Zenon, <1>1, WorkerOK, ExtractOneOK DEF WorkerStep, Proc
  <1>2. ASSUME NEW c \in Client, Begin(c) PROVE Inv'
    BY Zenon, <1>2, SessionBegins, CreateOK, BlockBegins DEF Begin
  <1>3. ASSUME NEW c \in Client, Continue(c) PROVE Inv'
    BY Zenon, <1>3, ExtractOneOK, EditInsertOK, MarkOK, SessionContinues DEF Continue, Proc
  <1>4. CASE Stop
    <2>1. budget' \in [Kind -> Nat]
      BY Zenon, <1>4, SpendOK DEF Stop, Kind, Inv, OthersInv
    <2> QED BY Zenon, <1>4, <2>1 DEF Stop, Inv, BlocksInv, OthersInv, ReplacedByNewer
  <1>5. CASE Crash
    <2>1. budget' \in [Kind -> Nat]
      BY Zenon, <1>5, SpendOK DEF Crash, Kind, Inv, OthersInv
    <2>2. BlocksInv' /\ Len(blocks') = Len(blocks)
      BY <1>5, IdleOK DEF Crash, Inv, BlocksInv, ReplacedByNewer
    <2>3. OthersInv'
      <3>1. <<>> \in Seq(Item) /\ Len(<<>>) <= QueueMax
        BY MemoryAssumption
      <3>2. queue' = <<>> /\ stop' = FALSE
        BY Zenon, <1>5 DEF Crash
      <3> QED BY Zenon, <1>5, <2>1, <2>2, <3>1, <3>2 DEF Crash, Inv, OthersInv
    <2> QED BY Zenon, <2>2, <2>3 DEF Inv
  <1>6. CASE UNCHANGED vars
    BY Zenon, <1>6 DEF vars, Inv, BlocksInv, OthersInv, ReplacedByNewer
  <1> QED BY <1>1, <1>2, <1>3, <1>4, <1>5, <1>6 DEF Next, Quiet

LEMMA Invariant == Spec => []Inv
  <1> QED BY Initially, Preserved, PTL DEF Spec

(* Every record a thread holds and every row has its type, and the queue   *)
(* never holds more than queue_max_size turns, retried ones included.      *)
THEOREM TypeCorrect == Spec => []TypeOK
  <1>1. Inv => TypeOK
    BY DEF Inv, BlocksInv, OthersInv, TypeOK
  <1> QED BY <1>1, Invariant, PTL

(* A memory is only ever replaced by one stored after it, so the chain of  *)
(* invalidated_by_block_id has no cycle, for any number of overlapping     *)
(* extractions, edits, restores, retries and crashes.                      *)
THEOREM Replaced == Spec => []ReplacedByNewer
  <1>1. Inv => ReplacedByNewer
    BY DEF Inv, BlocksInv
  <1> QED BY <1>1, Invariant, PTL
-----------------------------------------------------------------------------
(* DELETIONS *)

(* The labels at which a thread holds a block it read or is about to. *)
Holding == {"repeat", "upgrade", "stamp", "edit", "replace", "delete", "revoke"}

(* What thread r read is of the kind the block still has among B, and only *)
(* a preference is written back as active by an extraction.                *)
Faithful(r, B) ==
    /\ r.pc \in Holding \ {"repeat"} => r.read.kind = B[r.blk].kind
    /\ r.pc \in {"repeat", "upgrade"} => B[r.blk].kind = "preference"

DeleteInv ==
    /\ \A p \in Proc : Faithful(proc[p], blocks)
    /\ \A c \in Client : proc[c].pc = "revoke" => proc[c].blk \notin gone
    /\ DeletedStaysDeleted

(* A block keeps its place and its kind. *)
SameKinds == \A b \in DOMAIN blocks : b \in DOMAIN blocks' /\ blocks'[b].kind = blocks[b].kind

LEMMA DeleteCore ==
    ASSUME Inv, DeleteInv, SameKinds,
           \A p \in Proc : proc'[p] = proc[p] \/ Faithful(proc'[p], blocks'),
           \A c \in Client : proc'[c].pc = "revoke" => proc'[c].blk \notin gone',
           DeletedStaysDeleted'
    PROVE  DeleteInv'
  <1>1. ASSUME NEW p \in Proc, proc'[p] = proc[p] PROVE Faithful(proc'[p], blocks')
    <2>1. proc[p].pc \in Holding => proc[p].blk \in DOMAIN blocks
      BY DEF Inv, BlocksInv, Coherent, Placed, Holding
    <2>2. Faithful(proc[p], blocks)
      BY Zenon DEF DeleteInv
    <2> QED BY Zenon, <1>1, <2>1, <2>2 DEF Faithful, SameKinds, Holding
  <1> QED BY Zenon, <1>1 DEF DeleteInv

(* A thread goes on with record r, and no block changes. *)
LEMMA DeleteMoves ==
    ASSUME Inv, DeleteInv, NEW p \in Proc, NEW r, Step(p, r), Faithful(r, blocks),
           p \in Client => (r.pc = "revoke" => r.blk \notin gone),
           UNCHANGED <<blocks, gone>>
    PROVE  DeleteInv'
  <1>1. proc' = [proc EXCEPT ![p] = r] /\ proc \in [Proc -> ProcRecord] /\ Client \subseteq Proc
    BY Zenon DEF Step, Inv, BlocksInv, Proc
  <1>2. SameKinds /\ DeletedStaysDeleted'
    BY Zenon DEF SameKinds, DeletedStaysDeleted, DeleteInv
  <1>3. \A q \in Proc : proc'[q] = proc[q] \/ Faithful(proc'[q], blocks')
    BY Zenon, <1>1
  <1>4. \A c \in Client : proc'[c].pc = "revoke" => proc'[c].blk \notin gone'
    BY Zenon, <1>1 DEF DeleteInv
  <1> QED BY Zenon, <1>2, <1>3, <1>4, DeleteCore

(* It holds no block then, *)
LEMMA DeleteFree ==
    ASSUME Inv, DeleteInv, NEW p \in Proc, NEW r, Step(p, r), r.pc \notin Holding,
           UNCHANGED <<blocks, gone>>
    PROVE  DeleteInv'
  <1>1. Faithful(r, blocks) /\ r.pc # "revoke"
    BY Zenon DEF Faithful, Holding
  <1> QED BY Zenon, <1>1, DeleteMoves

LEMMA DeleteGoto ==
    ASSUME Inv, DeleteInv, NEW p \in Proc, NEW l, l \notin Holding, Goto(p, l),
           UNCHANGED <<blocks, gone>>
    PROVE  DeleteInv'
  <1> DEFINE r == [proc[p] EXCEPT !.pc = l]
  <1>1. proc[p] \in ProcRecord
    BY Zenon DEF Inv, BlocksInv
  <1>2. r.pc = l /\ Step(p, r)
    BY Zenon, <1>1 DEF ProcRecord, Goto
  <1> HIDE DEF r
  <1> QED BY Zenon, <1>2, DeleteFree

LEMMA DeleteIdle ==
    ASSUME Inv, DeleteInv, NEW p \in Proc, Step(p, Idle), UNCHANGED <<blocks, gone>>
    PROVE  DeleteInv'
  BY Zenon, IdleOK, DeleteFree DEF Holding

LEMMA DeleteProceeds ==
    ASSUME Inv, DeleteInv, NEW p \in Proc, NEW r, "pc" \in DOMAIN r, Proceed(p, r),
           UNCHANGED <<blocks, gone>>
    PROVE  DeleteInv'
  <1> DEFINE q == [r EXCEPT !.pc = NextStage(r)]
  <1>1. NextStage(r) \in {"judge", "store", "fetch", "ok"}
    BY Zenon DEF NextStage
  <1>2. q.pc = NextStage(r) /\ Step(p, q)
    BY Zenon DEF Proceed
  <1> HIDE DEF q
  <1> QED BY Zenon, <1>1, <1>2, DeleteFree DEF Holding

(* It appends a block and holds none, or goes on holding the same one. *)
LEMMA DeleteAppends ==
    ASSUME Inv, DeleteInv, NEW b, InsertMemoryBlock(b), UNCHANGED gone,
           \/ UNCHANGED proc
           \/ \E p \in Proc : \E r :
                 /\ Step(p, r)
                 /\ \/ r.pc \notin Holding
                    \/ /\ r.pc = "replace" /\ r.blk = proc[p].blk /\ r.read = proc[p].read
                       /\ proc[p].pc = "edit"
    PROVE  DeleteInv'
  <1>0. blocks \in Seq(BlockRecord) /\ proc \in [Proc -> ProcRecord] /\ gone \subseteq DOMAIN blocks
    BY DEF Inv, BlocksInv, OthersInv
  <1>1. /\ \A k \in DOMAIN blocks : k \in DOMAIN blocks' /\ blocks'[k] = blocks[k]
    BY <1>0 DEF InsertMemoryBlock
  <1>2. SameKinds /\ DeletedStaysDeleted'
    BY Zenon, <1>0, <1>1 DEF SameKinds, DeletedStaysDeleted, DeleteInv
  <1>3. CASE UNCHANGED proc
    BY Zenon, <1>2, <1>3, DeleteCore DEF DeleteInv
  <1>4. ASSUME NEW p \in Proc, NEW r, Step(p, r), r.pc \notin Holding
        PROVE  DeleteInv'
    <2>1. Faithful(r, blocks') /\ r.pc # "revoke"
      BY Zenon, <1>4 DEF Faithful, Holding
    <2> QED BY Zenon, <1>0, <1>2, <1>4, <2>1, DeleteCore DEF Step, DeleteInv, Proc
  <1>5. ASSUME NEW p \in Proc, NEW r, Step(p, r), r.pc = "replace",
               r.blk = proc[p].blk, r.read = proc[p].read, proc[p].pc = "edit"
        PROVE  DeleteInv'
    <2>1. proc[p].blk \in DOMAIN blocks
      BY <1>5 DEF Inv, BlocksInv, Coherent, Placed
    <2>2. Faithful(proc[p], blocks)
      BY Zenon DEF DeleteInv
    <2>3. Faithful(r, blocks') /\ r.pc # "revoke"
      BY Zenon, <1>1, <1>5, <2>1, <2>2 DEF Faithful, Holding
    <2> QED BY Zenon, <1>0, <1>2, <1>5, <2>3, DeleteCore DEF Step, DeleteInv, Proc
  <1> QED BY Zenon, <1>3, <1>4, <1>5

(* It writes back the block it holds: as invalidated, or as active where   *)
(* that breaks no promise, and holds none.                                 *)
LEMMA DeleteWrites ==
    ASSUME Inv, DeleteInv, NEW p \in Proc, NEW r, Step(p, r), r.pc \notin Holding,
           proc[p].pc \in Holding \ {"repeat"},
           NEW b, UpdateMemoryBlock(proc[p].blk, b), b.kind = proc[p].read.kind,
           \/ b.status = "invalidated"
           \/ proc[p].pc = "upgrade" /\ UNCHANGED gone
           \/ proc[p].pc = "revoke" /\ p \in Client /\ UNCHANGED gone,
           UNCHANGED gone \/ Deleted(proc[p].blk)
    PROVE  DeleteInv'
  <1> DEFINE id == proc[p].blk
  <1>0. /\ proc \in [Proc -> ProcRecord] /\ gone \subseteq DOMAIN blocks /\ id \in DOMAIN blocks
        /\ blocks \in Seq(BlockRecord) /\ Client \subseteq Proc
    BY DEF Inv, BlocksInv, OthersInv, Coherent, Placed, Holding, Proc
  <1>1. DOMAIN blocks' = DOMAIN blocks /\ \A k \in DOMAIN blocks : blocks'[k] = IF k = id THEN b ELSE blocks[k]
    BY Zenon, <1>0 DEF UpdateMemoryBlock
  <1>2. Faithful(proc[p], blocks) /\ b.kind = blocks[id].kind
    BY Zenon DEF DeleteInv, Faithful
  <1>3. SameKinds
    BY Zenon, <1>1, <1>2 DEF SameKinds
  <1>4. /\ gone' \subseteq gone \cup {id}
        /\ \A c \in Client : proc[c].pc = "revoke" => proc[c].blk \notin gone'
        /\ id \in gone' => id \in gone \/ b.status = "invalidated"
    BY Zenon DEF Deleted, DeleteInv, At
  <1>5. Faithful(r, blocks') /\ r.pc # "revoke"
    BY Zenon DEF Faithful, Holding
  <1>6. \A q \in Proc : proc'[q] = IF q = p THEN r ELSE proc[q]
    BY Zenon, <1>0 DEF Step
  <1>7. DeletedStaysDeleted'
    <2> SUFFICES ASSUME NEW k \in gone', blocks'[k].kind # "preference"
                 PROVE  blocks'[k].status = "invalidated"
      BY Zenon DEF DeletedStaysDeleted
    <2>1. CASE k = id
      <3>1. proc[p].pc = "upgrade" => blocks[id].kind = "preference"
        BY Zenon, <1>2 DEF Faithful
      <3>2. proc[p].pc = "revoke" /\ p \in Client => id \notin gone
        BY Zenon DEF DeleteInv
      <3> QED BY Zenon, <1>0, <1>1, <1>2, <1>4, <2>1, <3>1, <3>2
    <2>2. CASE k # id
      BY Zenon, <1>0, <1>1, <1>4, <2>2 DEF DeleteInv, DeletedStaysDeleted
    <2> QED BY Zenon, <2>1, <2>2
  <1> QED BY Zenon, <1>0, <1>3, <1>4, <1>5, <1>6, <1>7, DeleteCore

LEMMA DeleteExtracts ==
    ASSUME Inv, DeleteInv, NEW p \in Proc, ExtractOne(p)
    PROVE  DeleteInv'
  <1>0. proc[p] \in ProcRecord /\ "pc" \in DOMAIN proc[p]
    BY Zenon DEF Inv, BlocksInv, ProcRecord
  <1>1. CASE Acquire(p) \/ ForgetRead(p) \/ ForgetWrite(p) \/ CheckOptOut(p)
    <2>1. /\ \E l \in {"check", "forget", "ok", "optout", "llm"} : Goto(p, l)
          /\ UNCHANGED <<blocks, gone>>
      BY Zenon, <1>1 DEF Acquire, ForgetRead, ForgetWrite, CheckOptOut
    <2> QED BY Zenon, <2>1, DeleteGoto DEF Holding
  <1>2. CASE Extract(p)
    <2>1. CASE Goto(p, "failed")
      BY Zenon, <1>2, <2>1, DeleteGoto DEF Extract, Holding
    <2>2. ASSUME NEW r, r \in {[proc[p] EXCEPT !.mems = m, !.todo = FactsOf(m)] : m \in config.replies},
                 Proceed(p, r)
          PROVE  DeleteInv'
      <3>1. "pc" \in DOMAIN r
        BY Zenon, <1>0, <2>2
      <3> QED BY Zenon, <1>2, <2>2, <3>1, DeleteProceeds DEF Extract
    <2> QED BY Zenon, <1>2, <2>1, <2>2 DEF Extract
  <1>3. CASE FindContradictions(p)
    <2>1. PICK i \in proc[p].todo, S \in Candidates :
              Proceed(p, [proc[p] EXCEPT
                  !.todo = @ \ {i},
                  !.pairs = @ \cup {[text |-> proc[p].mems[i].text, old |-> b] : b \in S}])
      BY Zenon, <1>3 DEF FindContradictions
    <2> DEFINE r == [proc[p] EXCEPT
                  !.todo = @ \ {i},
                  !.pairs = @ \cup {[text |-> proc[p].mems[i].text, old |-> b] : b \in S}]
    <2>2. "pc" \in DOMAIN r /\ Proceed(p, r)
      BY Zenon, <1>0, <2>1
    <2> HIDE DEF r
    <2> QED BY Zenon, <1>3, <2>2, DeleteProceeds DEF FindContradictions
  <1>4. CASE FindMatchingPreference(p)
    <2>1. CASE Goto(p, "insert")
      BY Zenon, <1>4, <2>1, DeleteGoto DEF FindMatchingPreference, Holding
    <2>2. ASSUME NEW b \in DOMAIN blocks, blocks[b].kind = "preference",
                 Step(p, [proc[p] EXCEPT !.pc = "repeat", !.blk = b])
          PROVE  DeleteInv'
      <3> DEFINE r == [proc[p] EXCEPT !.pc = "repeat", !.blk = b]
      <3>1. r.pc = "repeat" /\ r.blk = b /\ Step(p, r)
        BY Zenon, <1>0, <2>2 DEF ProcRecord
      <3> HIDE DEF r
      <3>2. Faithful(r, blocks)
        BY Zenon, <2>2, <3>1 DEF Faithful, Holding
      <3> QED BY Zenon, <1>4, <3>1, <3>2, DeleteMoves DEF FindMatchingPreference
    <2> QED BY Zenon, <1>4, <2>1, <2>2 DEF FindMatchingPreference
  <1>5. CASE UpgradeRead(p)
    <2>1. CASE Goto(p, "insert")
      BY Zenon, <1>5, <2>1, DeleteGoto DEF UpgradeRead, Holding
    <2>2. CASE Step(p, [proc[p] EXCEPT !.pc = "upgrade", !.read = blocks[proc[p].blk]])
      <3> DEFINE old == blocks[proc[p].blk]
                 r == [proc[p] EXCEPT !.pc = "upgrade", !.read = old]
      <3>1. r.pc = "upgrade" /\ r.blk = proc[p].blk /\ r.read = old /\ Step(p, r)
        BY Zenon, <1>0, <2>2 DEF ProcRecord
      <3>2. blocks[proc[p].blk].kind = "preference"
        BY Zenon, <1>5 DEF UpgradeRead, At, DeleteInv, Faithful
      <3> HIDE DEF r
      <3>3. Faithful(r, blocks)
        BY Zenon, <3>1, <3>2 DEF Faithful, Holding
      <3> QED BY Zenon, <1>5, <3>1, <3>3, DeleteMoves DEF UpgradeRead
    <2> QED BY Zenon, <1>5, <2>1, <2>2 DEF UpgradeRead
  <1>6. CASE UpgradeWrite(p)
    <2>1. CASE Goto(p, "insert") /\ UNCHANGED blocks
      BY Zenon, <1>6, <2>1, DeleteGoto DEF UpgradeWrite, Holding
    <2>2. CASE UpdateMemoryBlock(proc[p].blk, [proc[p].read EXCEPT !.status = "active"]) /\ Stored(p, 0)
      <3> DEFINE b == [proc[p].read EXCEPT !.status = "active"]
                 r == [proc[p] EXCEPT !.minted = Append(@, 0)]
                 q == [r EXCEPT !.pc = NextStage(r)]
      <3>1. b \in BlockRecord /\ b.kind = proc[p].read.kind /\ UpdateMemoryBlock(proc[p].blk, b)
        BY Zenon, <1>0, <2>2 DEF ProcRecord, BlockRecord
      <3>2. "pc" \in DOMAIN r /\ Proceed(p, r)
        BY Zenon, <1>0, <2>2 DEF Stored
      <3> HIDE DEF b, r
      <3>3. q.pc \in {"judge", "store", "fetch", "ok"} /\ Step(p, q)
        BY Zenon, <3>2 DEF Proceed, NextStage
      <3> HIDE DEF q
      <3> QED BY Zenon, <1>6, <3>1, <3>3, DeleteWrites DEF UpgradeWrite, At, Holding
    <2> QED BY Zenon, <1>6, <2>1, <2>2 DEF UpgradeWrite
  <1>7. CASE InsertNew(p)
    <2>1. CASE Goto(p, "failed") /\ UNCHANGED blocks
      BY Zenon, <1>7, <2>1, DeleteGoto DEF InsertNew, Holding
    <2>2. CASE /\ InsertMemoryBlock(Block(Current(p).kind, Current(p).text))
               /\ Stored(p, Len(blocks) + 1)
      <3> DEFINE r == [proc[p] EXCEPT !.minted = Append(@, Len(blocks) + 1)]
                 q == [r EXCEPT !.pc = NextStage(r)]
      <3>1. "pc" \in DOMAIN r /\ Proceed(p, r)
        BY Zenon, <1>0, <2>2 DEF Stored
      <3> HIDE DEF r
      <3>2. q.pc \in {"judge", "store", "fetch", "ok"} /\ Step(p, q)
        BY Zenon, <3>1 DEF Proceed, NextStage
      <3> HIDE DEF q
      <3> QED BY Zenon, <1>7, <2>2, <3>2, DeleteAppends DEF InsertNew, Holding
    <2> QED BY Zenon, <1>7, <2>1, <2>2 DEF InsertNew
  <1>8. CASE FetchOld(p)
    <2>1. ASSUME NEW c \in proc[p].pairs,
                 Step(p, [proc[p] EXCEPT !.pc = "stamp", !.pairs = @ \ {c}, !.text = c.text,
                                         !.blk = c.old, !.read = blocks[c.old]])
          PROVE  DeleteInv'
      <3> DEFINE old == blocks[c.old]
                 r == [proc[p] EXCEPT !.pc = "stamp", !.pairs = @ \ {c}, !.text = c.text,
                                      !.blk = c.old, !.read = old]
      <3>1. r.pc = "stamp" /\ r.blk = c.old /\ r.read = old /\ Step(p, r)
        BY Zenon, <1>0, <2>1 DEF ProcRecord
      <3> HIDE DEF r
      <3>2. Faithful(r, blocks)
        BY Zenon, <3>1 DEF Faithful, Holding
      <3> QED BY Zenon, <1>8, <3>1, <3>2, DeleteMoves DEF FetchOld
    <2>2. ASSUME NEW c \in proc[p].pairs, Proceed(p, [proc[p] EXCEPT !.pairs = @ \ {c}])
          PROVE  DeleteInv'
      <3> DEFINE r == [proc[p] EXCEPT !.pairs = @ \ {c}]
      <3>1. "pc" \in DOMAIN r /\ Proceed(p, r)
        BY Zenon, <1>0, <2>2
      <3> HIDE DEF r
      <3> QED BY Zenon, <1>8, <3>1, DeleteProceeds DEF FetchOld
    <2> QED BY Zenon, <1>8, <2>1, <2>2 DEF FetchOld
  <1>9. CASE StampOld(p)
    <2>1. CASE Goto(p, "failed") /\ UNCHANGED blocks
      BY Zenon, <1>9, <2>1, DeleteGoto DEF StampOld, Holding
    <2>2. ASSUME NEW i \in Cause(proc[p]), UpdateMemoryBlock(proc[p].blk, Stamped(p, i)),
                 Proceed(p, proc[p])
          PROVE  DeleteInv'
      <3> DEFINE q == [proc[p] EXCEPT !.pc = NextStage(proc[p])]
      <3>1. /\ Stamped(p, i).kind = proc[p].read.kind /\ Stamped(p, i).status = "invalidated"
        BY Zenon, <1>0 DEF Stamped, ProcRecord, BlockRecord
      <3>2. q.pc \in {"judge", "store", "fetch", "ok"} /\ Step(p, q)
        BY Zenon, <1>0, <2>2 DEF Proceed, NextStage
      <3> HIDE DEF q
      <3> QED BY Zenon, <1>9, <2>2, <3>1, <3>2, DeleteWrites DEF StampOld, At, Holding
    <2> QED BY Zenon, <1>9, <2>1, <2>2 DEF StampOld
  <1> QED BY Zenon, <1>1, <1>2, <1>3, <1>4, <1>5, <1>6, <1>7, <1>8, <1>9 DEF ExtractOne

LEMMA DeleteWorks ==
    ASSUME Inv, DeleteInv, NEW w \in Worker, Pop(w) \/ WorkerExits(w) \/ WorkerLoop(w)
    PROVE  DeleteInv'
  <1>1. w \in Proc
    BY Zenon DEF Proc
  <1>2. CASE Pop(w)
    <2> DEFINE item == Head(queue)
               r == [Idle EXCEPT !.pc = "acquire", !.sess = item.sess,
                                 !.remember = item.remember, !.attempt = item.attempt]
    <2>1. r.pc = "acquire" /\ Step(w, r)
      BY Zenon, <1>2 DEF Pop, Idle
    <2> HIDE DEF r
    <2> QED BY Zenon, <1>1, <1>2, <2>1, DeleteFree DEF Pop, Holding
  <1>3. CASE WorkerExits(w)
    BY Zenon, <1>1, <1>3, DeleteGoto DEF WorkerExits, Holding
  <1>4. CASE WorkerLoop(w)
    BY Zenon, <1>1, <1>4, DeleteIdle DEF WorkerLoop
  <1> QED BY Zenon, <1>2, <1>3, <1>4

LEMMA DeleteBegins ==
    ASSUME Inv, DeleteInv, NEW c \in Client, Begin(c)
    PROVE  DeleteInv'
  <1>1. c \in Proc
    BY Zenon DEF Proc
  <1>2. ASSUME UNCHANGED <<blocks, proc, gone>> PROVE DeleteInv'
    BY Zenon, <1>2 DEF DeleteInv, DeletedStaysDeleted
  <1>3. ASSUME NEW s \in Session,
               \/ ExtractNow(c, s) \/ OptOut(c, s) \/ OptOutRevoke(c, s)
               \/ SessionLimit(c, s) \/ DeleteSession(c, s) \/ InteractionLimit(c, s)
        PROVE  DeleteInv'
    <2>1. /\ UNCHANGED <<blocks, gone>>
          /\ \/ UNCHANGED proc
             \/ Step(c, [Idle EXCEPT !.pc = "acquire", !.sess = s, !.remember = config.remember])
             \/ \E l \in {"setout", "clearout", "exists", "drop", "verify"} :
                   Step(c, [Idle EXCEPT !.pc = l, !.sess = s])
      BY Zenon, <1>3 DEF ExtractNow, OptOut, OptOutRevoke, SessionLimit, DeleteSession, InteractionLimit
    <2>2. ASSUME NEW l, l \notin Holding, Step(c, [Idle EXCEPT !.pc = l, !.sess = s])
          PROVE  DeleteInv'
      <3> DEFINE r == [Idle EXCEPT !.pc = l, !.sess = s]
      <3>1. r.pc = l /\ Step(c, r)
        BY Zenon, <2>2 DEF Idle
      <3> HIDE DEF r
      <3> QED BY Zenon, <1>1, <2>1, <2>2, <3>1, DeleteFree
    <2>3. CASE Step(c, [Idle EXCEPT !.pc = "acquire", !.sess = s, !.remember = config.remember])
      <3> DEFINE r == [Idle EXCEPT !.pc = "acquire", !.sess = s, !.remember = config.remember]
      <3>1. r.pc = "acquire" /\ Step(c, r)
        BY Zenon, <2>3 DEF Idle
      <3> HIDE DEF r
      <3> QED BY Zenon, <1>1, <2>1, <3>1, DeleteFree DEF Holding
    <2> QED BY Zenon, <1>2, <2>1, <2>2, <2>3 DEF Holding
  <1>4. ASSUME NEW m \in config.said, Create(c, m) PROVE DeleteInv'
    BY Zenon, <1>2, <1>4, DeleteAppends DEF Create
  <1>5. ASSUME NEW op \in {"edit", "revoke"}, NEW b \in DOMAIN blocks, Fetch(c, op, b)
        PROVE  DeleteInv'
    <2> DEFINE old == blocks[b]
               r == [Idle EXCEPT !.pc = op, !.blk = b, !.read = old]
    <2>1. r.pc = op /\ r.blk = b /\ r.read = old /\ Step(c, r)
      BY Zenon, <1>5 DEF Fetch, Idle
    <2> HIDE DEF r
    <2>2. /\ proc' = [proc EXCEPT ![c] = r] /\ proc \in [Proc -> ProcRecord] /\ Client \subseteq Proc
          /\ UNCHANGED blocks
      BY Zenon, <1>5, <2>1 DEF Step, Inv, BlocksInv, Proc, Fetch
    <2>3. gone' \subseteq gone /\ (op = "revoke" => b \notin gone')
      BY Zenon, <1>5 DEF Fetch
    <2>4. Faithful(r, blocks')
      BY Zenon, <2>1, <2>2 DEF Faithful, Holding
    <2>5. SameKinds /\ DeletedStaysDeleted'
      BY Zenon, <2>2, <2>3 DEF SameKinds, DeletedStaysDeleted, DeleteInv
    <2>6. \A q \in Proc : proc'[q] = proc[q] \/ Faithful(proc'[q], blocks')
      BY Zenon, <2>2, <2>4
    <2>7. \A d \in Client : proc'[d].pc = "revoke" => proc'[d].blk \notin gone'
      BY Zenon, <2>1, <2>2, <2>3 DEF DeleteInv
    <2> QED BY Zenon, <2>5, <2>6, <2>7, DeleteCore
  <1>6. ASSUME NEW b \in DOMAIN blocks, Delete(c, b) PROVE DeleteInv'
    <2>1. CASE blocks[b].status = "invalidated" /\ Deleted(b) /\ UNCHANGED <<blocks, proc>>
      <3>1. gone' \subseteq gone \cup {b}
        BY Zenon, <2>1 DEF Deleted
      <3>2. \A d \in Client : proc'[d].pc = "revoke" => proc'[d].blk \notin gone'
        BY Zenon, <2>1 DEF Deleted, DeleteInv, At
      <3> QED BY Zenon, <2>1, <3>1, <3>2 DEF DeleteInv, DeletedStaysDeleted
    <2>2. CASE Step(c, [Idle EXCEPT !.pc = "delete", !.blk = b, !.read = blocks[b]]) /\ UNCHANGED gone
      <3> DEFINE old == blocks[b]
                 r == [Idle EXCEPT !.pc = "delete", !.blk = b, !.read = old]
      <3>1. r.pc = "delete" /\ r.blk = b /\ r.read = old /\ Step(c, r)
        BY Zenon, <2>2 DEF Idle
      <3> HIDE DEF r
      <3>2. Faithful(r, blocks)
        BY Zenon, <3>1 DEF Faithful, Holding
      <3> QED BY Zenon, <1>1, <1>6, <2>2, <3>1, <3>2, DeleteMoves DEF Delete
    <2> QED BY Zenon, <1>6, <2>1, <2>2 DEF Delete
  <1> QED BY Zenon, <1>3, <1>4, <1>5, <1>6 DEF Begin

LEMMA DeleteContinues ==
    ASSUME Inv, DeleteInv, NEW c \in Client, Continue(c)
    PROVE  DeleteInv'
  <1>1. c \in Proc /\ proc[c] \in ProcRecord /\ proc[c].read \in BlockRecord
    BY Zenon DEF Proc, Inv, BlocksInv, ProcRecord
  <1>2. ASSUME NEW m \in config.said, EditInsert(c, m) PROVE DeleteInv'
    <2>1. CASE /\ InsertMemoryBlock(Block(m.kind, m.text))
               /\ Step(c, [proc[c] EXCEPT !.pc = "replace", !.minted = <<Len(blocks) + 1>>])
      <3> DEFINE r == [proc[c] EXCEPT !.pc = "replace", !.minted = <<Len(blocks) + 1>>]
      <3>1. r.pc = "replace" /\ r.blk = proc[c].blk /\ r.read = proc[c].read /\ Step(c, r)
        BY Zenon, <1>1, <2>1 DEF ProcRecord
      <3> HIDE DEF r
      <3> QED BY Zenon, <1>1, <1>2, <2>1, <3>1, DeleteAppends DEF EditInsert, At
    <2>2. CASE Answer(c) /\ UNCHANGED blocks
      BY Zenon, <1>1, <1>2, <2>2, DeleteIdle DEF EditInsert, Answer
    <2> QED BY Zenon, <1>2, <2>1, <2>2 DEF EditInsert
  <1>3. CASE EditMark(c) \/ DeleteMark(c) \/ RevokeMark(c)
    <2>1. CASE Answer(c) /\ UNCHANGED <<blocks, gone>>
      BY Zenon, <1>1, <2>1, DeleteIdle DEF Answer
    <2>2. ASSUME NEW b, UpdateMemoryBlock(proc[c].blk, b), b.kind = proc[c].read.kind,
                 \/ b.status = "invalidated" /\ (UNCHANGED gone \/ Deleted(proc[c].blk))
                 \/ proc[c].pc = "revoke" /\ UNCHANGED gone,
                 Answer(c)
          PROVE  DeleteInv'
      <3>1. proc[c].pc \in Holding \ {"repeat"}
        BY Zenon, <1>3 DEF EditMark, DeleteMark, RevokeMark, At, Holding
      <3>2. Step(c, Idle) /\ Idle.pc \notin Holding
        BY Zenon, <2>2, IdleOK DEF Answer, Holding
      <3> QED BY Zenon, <1>1, <2>2, <3>1, <3>2, DeleteWrites
    <2>3. ASSUME UpdateMemoryBlock(proc[c].blk,
                     [proc[c].read EXCEPT !.status = "invalidated", !.by = proc[c].minted[1]]),
                 EditMark(c), UNCHANGED gone, Answer(c)
          PROVE  DeleteInv'
      <3> DEFINE b == [proc[c].read EXCEPT !.status = "invalidated", !.by = proc[c].minted[1]]
      <3>1. b.kind = proc[c].read.kind /\ b.status = "invalidated" /\ UpdateMemoryBlock(proc[c].blk, b)
        BY Zenon, <1>1, <2>3 DEF BlockRecord
      <3> HIDE DEF b
      <3> QED BY Zenon, <2>2, <2>3, <3>1
    <2>4. ASSUME UpdateMemoryBlock(proc[c].blk, [proc[c].read EXCEPT !.status = "invalidated"]),
                 Deleted(proc[c].blk), Answer(c)
          PROVE  DeleteInv'
      <3> DEFINE b == [proc[c].read EXCEPT !.status = "invalidated"]
      <3>1. b.kind = proc[c].read.kind /\ b.status = "invalidated" /\ UpdateMemoryBlock(proc[c].blk, b)
        BY Zenon, <1>1, <2>4 DEF BlockRecord
      <3> HIDE DEF b
      <3> QED BY Zenon, <2>2, <2>4, <3>1
    <2>5. ASSUME UpdateMemoryBlock(proc[c].blk, [proc[c].read EXCEPT !.status = "active"]),
                 RevokeMark(c), UNCHANGED gone, Answer(c)
          PROVE  DeleteInv'
      <3> DEFINE b == [proc[c].read EXCEPT !.status = "active"]
      <3>1. b.kind = proc[c].read.kind /\ UpdateMemoryBlock(proc[c].blk, b)
        BY Zenon, <1>1, <2>5 DEF BlockRecord
      <3> HIDE DEF b
      <3> QED BY Zenon, <2>2, <2>5, <3>1 DEF RevokeMark, At
    <2> QED BY Zenon, <1>3, <2>1, <2>3, <2>4, <2>5 DEF EditMark, DeleteMark, RevokeMark
  <1>4. CASE \/ SetOptOut(c) \/ ClearOptOut(c) \/ SessionCreate(c) \/ SessionDelete(c)
             \/ SessionExists(c) \/ VerifySession(c) \/ PairInsert(c) \/ Enqueue(c) \/ ExtractAnswer(c)
    <2>1. /\ UNCHANGED <<blocks, gone>>
          /\ Step(c, Idle) \/ \E l \in {"add", "pair", "enqueue"} : Goto(c, l)
      BY Zenon, <1>4 DEF SetOptOut, ClearOptOut, SessionCreate, SessionDelete, SessionExists,
                         VerifySession, PairInsert, Enqueue, ExtractAnswer, Answer
    <2> QED BY Zenon, <1>1, <2>1, DeleteIdle, DeleteGoto DEF Holding
  <1> QED BY Zenon, <1>1, <1>2, <1>3, <1>4, DeleteExtracts DEF Continue

LEMMA DeleteStep == Inv /\ DeleteInv /\ [Next]_vars => DeleteInv'
  <1> SUFFICES ASSUME Inv, DeleteInv, [Next]_vars PROVE DeleteInv'
    BY Zenon
  <1>1. ASSUME NEW w \in Worker, WorkerStep(w) PROVE DeleteInv'
    BY Zenon, <1>1, DeleteWorks, DeleteExtracts DEF WorkerStep, Proc
  <1>2. CASE Crash
    <2>1. SameKinds /\ DeletedStaysDeleted'
      BY Zenon, <1>2 DEF Crash, SameKinds, DeletedStaysDeleted, DeleteInv
    <2>2. \A p \in Proc : proc'[p].pc = "idle"
      BY Zenon, <1>2, IdleOK DEF Crash
    <2>3. \A p \in Proc : Faithful(proc'[p], blocks') /\ proc'[p].pc # "revoke"
      BY Zenon, <2>2 DEF Faithful, Holding
    <2> QED BY Zenon, <2>1, <2>3, DeleteCore DEF Proc
  <1>3. CASE UNCHANGED <<blocks, proc, gone>>
    BY Zenon, <1>3 DEF DeleteInv, DeletedStaysDeleted
  <1> QED BY Zenon, <1>1, <1>2, <1>3, DeleteBegins, DeleteContinues DEF Next, Stop, Quiet, vars

LEMMA DeleteInvariant == Spec => [](Inv /\ DeleteInv)
  <1>1. Init => DeleteInv
    <2> SUFFICES ASSUME Init PROVE DeleteInv
      BY Zenon
    <2>1. \A p \in Proc : proc[p].pc = "idle"
      BY Zenon, IdleOK DEF Init
    <2> QED BY Zenon, <2>1 DEF Init, DeleteInv, Faithful, Holding, DeletedStaysDeleted, Proc
  <1> QED BY <1>1, Initially, Preserved, DeleteStep, PTL DEF Spec

(* A fact or an event whose deletion was answered stays invalidated until  *)
(* somebody asks to restore it, for any number of extractions and edits    *)
(* that write back records they read before the deletion: they write only  *)
(* invalidated ones, and the one write of an active record is of a         *)
(* preference (MaybeUpgradePreference).                                    *)
THEOREM Deletions == Spec => []DeletedStaysDeleted
  <1>1. DeleteInv => DeletedStaysDeleted
    BY Zenon DEF DeleteInv
  <1> QED BY <1>1, DeleteInvariant, PTL
-----------------------------------------------------------------------------
(* OPT-OUTS *)

(* While an opt-out is promised, the session exists and is marked as out,  *)
(* and no request that would take that back is past its first read.        *)
OutInv ==
    \A s \in silenced :
        /\ session[s].live /\ session[s].out
        /\ \A c \in Client : proc[c].sess = s => proc[c].pc \notin {"clearout", "drop"}

(* A thread goes on, and takes nothing back. *)
LEMMA OutMoves ==
    ASSUME Inv, OutInv, NEW p \in Proc, NEW r, Step(p, r), r.pc \notin {"clearout", "drop"},
           UNCHANGED silenced,
           \A s \in silenced : session'[s].live /\ session'[s].out
    PROVE  OutInv'
  <1>1. proc' = [proc EXCEPT ![p] = r] /\ proc \in [Proc -> ProcRecord] /\ Client \subseteq Proc
    BY Zenon DEF Step, Inv, BlocksInv, Proc
  <1>2. \A q \in Proc : proc'[q] = IF q = p THEN r ELSE proc[q]
    BY Zenon, <1>1
  <1> QED BY Zenon, <1>1, <1>2 DEF OutInv

LEMMA OutGoto ==
    ASSUME Inv, OutInv, NEW p \in Proc, NEW l, l \notin {"clearout", "drop"}, Goto(p, l),
           UNCHANGED silenced,
           \A s \in silenced : session'[s].live /\ session'[s].out
    PROVE  OutInv'
  <1> DEFINE r == [proc[p] EXCEPT !.pc = l]
  <1>1. proc[p] \in ProcRecord
    BY Zenon DEF Inv, BlocksInv
  <1>2. r.pc = l /\ Step(p, r)
    BY Zenon, <1>1 DEF ProcRecord, Goto
  <1> HIDE DEF r
  <1> QED BY Zenon, <1>2, OutMoves

LEMMA OutAnswers ==
    ASSUME Inv, OutInv, NEW p \in Proc, Step(p, Idle), UNCHANGED silenced,
           \A s \in silenced : session'[s].live /\ session'[s].out
    PROVE  OutInv'
  BY Zenon, IdleOK, OutMoves

LEMMA OutProceeds ==
    ASSUME Inv, OutInv, NEW p \in Proc, NEW r, "pc" \in DOMAIN r, Proceed(p, r),
           UNCHANGED <<session, silenced>>
    PROVE  OutInv'
  <1> DEFINE q == [r EXCEPT !.pc = NextStage(r)]
  <1>1. NextStage(r) \in {"judge", "store", "fetch", "ok"}
    BY Zenon DEF NextStage
  <1>2. q.pc = NextStage(r) /\ Step(p, q)
    BY Zenon DEF Proceed
  <1> HIDE DEF q
  <1>3. \A s \in silenced : session'[s].live /\ session'[s].out
    BY Zenon DEF OutInv
  <1> QED BY Zenon, <1>1, <1>2, <1>3, OutMoves

LEMMA OutExtracts ==
    ASSUME Inv, OutInv, NEW p \in Proc, ExtractOne(p)
    PROVE  OutInv'
  <1>0. proc[p] \in ProcRecord /\ "pc" \in DOMAIN proc[p] /\ UNCHANGED silenced
    BY Zenon DEF Inv, BlocksInv, ProcRecord, ExtractOne, Acquire, ForgetRead, ForgetWrite,
                 CheckOptOut, Extract, FindContradictions, FindMatchingPreference, UpgradeRead,
                 UpgradeWrite, InsertNew, FetchOld, StampOld
  <1>1. CASE ForgetWrite(p)
    <2>1. session \in [Session -> Row] /\ silenced \subseteq Session
      BY Zenon DEF Inv, OthersInv
    <2>2. \A s \in silenced : session'[s].live /\ session'[s].out
      BY Zenon, <1>1, <2>1 DEF ForgetWrite, OutInv, Row
    <2> QED BY Zenon, <1>0, <1>1, <2>2, OutGoto DEF ForgetWrite
  <1>2. ASSUME UNCHANGED session PROVE OutInv'
    <2>0. \A s \in silenced : session'[s].live /\ session'[s].out
      BY Zenon, <1>2 DEF OutInv
    <2>1. ASSUME NEW l \in {"check", "forget", "ok", "optout", "llm", "failed", "insert"}, Goto(p, l)
          PROVE  OutInv'
      BY Zenon, <1>0, <2>0, <2>1, OutGoto
    <2>2. CASE Acquire(p) \/ ForgetRead(p) \/ CheckOptOut(p)
      BY Zenon, <2>1, <2>2 DEF Acquire, ForgetRead, CheckOptOut
    <2>3. CASE Extract(p)
      <3>1. ASSUME NEW r, r \in {[proc[p] EXCEPT !.mems = m, !.todo = FactsOf(m)] : m \in config.replies},
                   Proceed(p, r)
            PROVE  OutInv'
        <4>1. "pc" \in DOMAIN r
          BY Zenon, <1>0, <3>1
        <4> QED BY Zenon, <1>0, <1>2, <3>1, <4>1, OutProceeds
      <3> QED BY Zenon, <2>1, <2>3, <3>1 DEF Extract
    <2>4. CASE FindContradictions(p)
      <3>1. PICK i \in proc[p].todo, S \in Candidates :
                Proceed(p, [proc[p] EXCEPT
                    !.todo = @ \ {i},
                    !.pairs = @ \cup {[text |-> proc[p].mems[i].text, old |-> b] : b \in S}])
        BY Zenon, <2>4 DEF FindContradictions
      <3> DEFINE r == [proc[p] EXCEPT
                    !.todo = @ \ {i},
                    !.pairs = @ \cup {[text |-> proc[p].mems[i].text, old |-> b] : b \in S}]
      <3>2. "pc" \in DOMAIN r /\ Proceed(p, r)
        BY Zenon, <1>0, <3>1
      <3> HIDE DEF r
      <3> QED BY Zenon, <1>0, <1>2, <3>2, OutProceeds
    <2>5. CASE FindMatchingPreference(p)
      <3>1. ASSUME NEW b, Step(p, [proc[p] EXCEPT !.pc = "repeat", !.blk = b]) PROVE OutInv'
        <4> DEFINE r == [proc[p] EXCEPT !.pc = "repeat", !.blk = b]
        <4>1. r.pc = "repeat" /\ Step(p, r)
          BY Zenon, <1>0, <3>1 DEF ProcRecord
        <4> HIDE DEF r
        <4> QED BY Zenon, <1>0, <2>0, <4>1, OutMoves
      <3> QED BY Zenon, <2>1, <2>5, <3>1 DEF FindMatchingPreference
    <2>6. CASE UpgradeRead(p)
      <3>1. CASE Step(p, [proc[p] EXCEPT !.pc = "upgrade", !.read = blocks[proc[p].blk]])
        <4> DEFINE old == blocks[proc[p].blk]
                   r == [proc[p] EXCEPT !.pc = "upgrade", !.read = old]
        <4>1. r.pc = "upgrade" /\ Step(p, r)
          BY Zenon, <1>0, <3>1 DEF ProcRecord
        <4> HIDE DEF r
        <4> QED BY Zenon, <1>0, <2>0, <4>1, OutMoves
      <3> QED BY Zenon, <2>1, <2>6, <3>1 DEF UpgradeRead
    <2>7. CASE UpgradeWrite(p) \/ InsertNew(p)
      <3>1. ASSUME NEW id, Stored(p, id) PROVE OutInv'
        <4> DEFINE r == [proc[p] EXCEPT !.minted = Append(@, id)]
        <4>1. "pc" \in DOMAIN r /\ Proceed(p, r)
          BY Zenon, <1>0, <3>1 DEF Stored
        <4> HIDE DEF r
        <4> QED BY Zenon, <1>0, <1>2, <4>1, OutProceeds
      <3> QED BY Zenon, <2>1, <2>7, <3>1 DEF UpgradeWrite, InsertNew
    <2>8. CASE FetchOld(p)
      <3>1. ASSUME NEW c, Step(p, [proc[p] EXCEPT !.pc = "stamp", !.pairs = @ \ {c}, !.text = c.text,
                                                  !.blk = c.old, !.read = blocks[c.old]])
            PROVE  OutInv'
        <4> DEFINE old == blocks[c.old]
                   r == [proc[p] EXCEPT !.pc = "stamp", !.pairs = @ \ {c}, !.text = c.text,
                                        !.blk = c.old, !.read = old]
        <4>1. r.pc = "stamp" /\ Step(p, r)
          BY Zenon, <1>0, <3>1 DEF ProcRecord
        <4> HIDE DEF r
        <4> QED BY Zenon, <1>0, <2>0, <4>1, OutMoves
      <3>2. ASSUME NEW c, Proceed(p, [proc[p] EXCEPT !.pairs = @ \ {c}]) PROVE OutInv'
        <4> DEFINE r == [proc[p] EXCEPT !.pairs = @ \ {c}]
        <4>1. "pc" \in DOMAIN r /\ Proceed(p, r)
          BY Zenon, <1>0, <3>2
        <4> HIDE DEF r
        <4> QED BY Zenon, <1>0, <1>2, <4>1, OutProceeds
      <3> QED BY Zenon, <2>8, <3>1, <3>2 DEF FetchOld
    <2>9. CASE StampOld(p)
      BY Zenon, <1>0, <1>2, <2>1, <2>9, OutProceeds DEF StampOld
    <2> QED BY Zenon, <1>1, <2>2, <2>3, <2>4, <2>5, <2>6, <2>7, <2>8, <2>9 DEF ExtractOne
  <1>3. UNCHANGED session \/ ForgetWrite(p)
    BY Zenon DEF ExtractOne, Acquire, ForgetRead,
                 CheckOptOut, Extract, FindContradictions, FindMatchingPreference, UpgradeRead,
                 UpgradeWrite, InsertNew, FetchOld, StampOld
  <1> QED BY Zenon, <1>1, <1>2, <1>3

LEMMA OutBegins ==
    ASSUME Inv, OutInv, NEW c \in Client, Begin(c)
    PROVE  OutInv'
  <1>1. c \in Proc /\ proc \in [Proc -> ProcRecord] /\ Client \subseteq Proc
    BY Zenon DEF Proc, Inv, BlocksInv
  <1>2. ASSUME UNCHANGED <<session, proc>>, silenced' \subseteq silenced PROVE OutInv'
    BY Zenon, <1>2 DEF OutInv
  <1>3. ASSUME UNCHANGED session PROVE \A s \in silenced : session'[s].live /\ session'[s].out
    BY Zenon, <1>3 DEF OutInv
  <1>4. ASSUME NEW s \in Session, OptOutRevoke(c, s) \/ DeleteSession(c, s) PROVE OutInv'
    <2>1. /\ UNCHANGED session /\ silenced' = silenced \ {s}
          /\ \/ UNCHANGED proc
             \/ \E l \in {"clearout", "drop"} : Step(c, [Idle EXCEPT !.pc = l, !.sess = s])
      BY Zenon, <1>4 DEF OptOutRevoke, DeleteSession
    <2>2. ASSUME NEW l, Step(c, [Idle EXCEPT !.pc = l, !.sess = s]) PROVE OutInv'
      <3> DEFINE r == [Idle EXCEPT !.pc = l, !.sess = s]
      <3>1. r.sess = s /\ proc' = [proc EXCEPT ![c] = r]
        BY Zenon, <2>2 DEF Idle, Step
      <3> HIDE DEF r
      <3>2. \A q \in Proc : proc'[q] = IF q = c THEN r ELSE proc[q]
        BY Zenon, <1>1, <3>1
      <3> QED BY Zenon, <1>1, <2>1, <3>1, <3>2 DEF OutInv
    <2> QED BY Zenon, <1>2, <2>1, <2>2
  <1>5. ASSUME NEW s \in Session,
               ExtractNow(c, s) \/ OptOut(c, s) \/ SessionLimit(c, s) \/ InteractionLimit(c, s)
        PROVE  OutInv'
    <2>1. /\ UNCHANGED <<session, silenced>>
          /\ \/ UNCHANGED proc
             \/ Step(c, [Idle EXCEPT !.pc = "acquire", !.sess = s, !.remember = config.remember])
             \/ \E l \in {"setout", "exists", "verify"} : Step(c, [Idle EXCEPT !.pc = l, !.sess = s])
      BY Zenon, <1>5 DEF ExtractNow, OptOut, SessionLimit, InteractionLimit
    <2>2. ASSUME NEW l \in {"setout", "exists", "verify"}, Step(c, [Idle EXCEPT !.pc = l, !.sess = s])
          PROVE  OutInv'
      <3> DEFINE r == [Idle EXCEPT !.pc = l, !.sess = s]
      <3>1. r.pc = l /\ Step(c, r)
        BY Zenon, <2>2 DEF Idle
      <3> HIDE DEF r
      <3>2. l \notin {"clearout", "drop"}
        BY Zenon, <2>2
      <3> QED BY Zenon, <1>1, <1>3, <2>1, <3>1, <3>2, OutMoves
    <2>3. CASE Step(c, [Idle EXCEPT !.pc = "acquire", !.sess = s, !.remember = config.remember])
      <3> DEFINE r == [Idle EXCEPT !.pc = "acquire", !.sess = s, !.remember = config.remember]
      <3>1. r.pc = "acquire" /\ Step(c, r)
        BY Zenon, <2>3 DEF Idle
      <3> HIDE DEF r
      <3> QED BY Zenon, <1>1, <1>3, <2>1, <3>1, OutMoves
    <2> QED BY Zenon, <1>2, <2>1, <2>2, <2>3
  <1>6. ASSUME NEW m, Create(c, m) PROVE OutInv'
    BY Zenon, <1>2, <1>6 DEF Create
  <1>7. ASSUME NEW op \in {"edit", "revoke"}, NEW b, Fetch(c, op, b) PROVE OutInv'
    <2> DEFINE old == blocks[b]
               r == [Idle EXCEPT !.pc = op, !.blk = b, !.read = old]
    <2>1. r.pc = op /\ Step(c, r)
      BY Zenon, <1>7 DEF Fetch, Idle
    <2> HIDE DEF r
    <2>2. op \notin {"clearout", "drop"}
      BY Zenon, <1>7
    <2> QED BY Zenon, <1>1, <1>3, <1>7, <2>1, <2>2, OutMoves DEF Fetch
  <1>8. ASSUME NEW b, Delete(c, b) PROVE OutInv'
    <2>1. CASE Step(c, [Idle EXCEPT !.pc = "delete", !.blk = b, !.read = blocks[b]])
      <3> DEFINE old == blocks[b]
                 r == [Idle EXCEPT !.pc = "delete", !.blk = b, !.read = old]
      <3>1. r.pc = "delete" /\ Step(c, r)
        BY Zenon, <2>1 DEF Idle
      <3> HIDE DEF r
      <3> QED BY Zenon, <1>1, <1>3, <1>8, <3>1, OutMoves DEF Delete
    <2> QED BY Zenon, <1>2, <1>8, <2>1 DEF Delete
  <1> QED BY Zenon, <1>4, <1>5, <1>6, <1>7, <1>8 DEF Begin

LEMMA OutContinues ==
    ASSUME Inv, OutInv, NEW c \in Client, Continue(c)
    PROVE  OutInv'
  <1>1. /\ c \in Proc /\ proc \in [Proc -> ProcRecord] /\ proc[c] \in ProcRecord
        /\ Client \subseteq Proc /\ session \in [Session -> Row] /\ silenced \subseteq Session
    BY Zenon DEF Proc, Inv, BlocksInv, OthersInv
  <1> DEFINE s == proc[c].sess
             Kept == \A t \in silenced : session'[t].live /\ session'[t].out
  <1>2. UNCHANGED session => Kept
    BY Zenon DEF OutInv
  <1>3. ASSUME UNCHANGED silenced, Kept,
               Step(c, Idle) \/ \E l \in {"add", "pair", "enqueue"} : Goto(c, l)
        PROVE  OutInv'
    BY Zenon, <1>1, <1>3, OutAnswers, OutGoto
  <1>4. ASSUME NEW m \in config.said, EditInsert(c, m) PROVE OutInv'
    <2>1. CASE Step(c, [proc[c] EXCEPT !.pc = "replace", !.minted = <<Len(blocks) + 1>>])
      <3> DEFINE r == [proc[c] EXCEPT !.pc = "replace", !.minted = <<Len(blocks) + 1>>]
      <3>1. r.pc = "replace" /\ Step(c, r)
        BY Zenon, <1>1, <2>1 DEF ProcRecord
      <3> HIDE DEF r
      <3> QED BY Zenon, <1>1, <1>2, <1>4, <3>1, OutMoves DEF EditInsert
    <2> QED BY Zenon, <1>2, <1>3, <1>4, <2>1 DEF EditInsert, Answer
  <1>5. CASE EditMark(c) \/ DeleteMark(c) \/ RevokeMark(c)
    BY Zenon, <1>2, <1>3, <1>5 DEF EditMark, DeleteMark, RevokeMark, Answer
  <1>6. CASE SessionExists(c) \/ VerifySession(c) \/ Enqueue(c) \/ ExtractAnswer(c)
    BY Zenon, <1>2, <1>3, <1>6 DEF SessionExists, VerifySession, Enqueue, ExtractAnswer, Answer
  <1>7. CASE SetOptOut(c)
    <2>1. /\ session' = [session EXCEPT ![s] = [@ EXCEPT !.out = session[s].live]]
          /\ silenced' = IF session[s].live
                            /\ \A d \in Client : proc[d].sess = s => proc[d].pc \notin {"clearout", "drop"}
                         THEN silenced \cup {s} ELSE silenced
          /\ proc' = [proc EXCEPT ![c] = Idle]
          /\ s \in Session
      BY Zenon, <1>1, <1>7, AtSession DEF SetOptOut, Answer, Step, At, InSession
    <2>2. \A t \in silenced' : session'[t].live /\ session'[t].out
      <3> SUFFICES ASSUME NEW t \in silenced' PROVE session'[t].live /\ session'[t].out
        BY Zenon
      <3>1. CASE t = s
        <4>1. session[s].live
          BY Zenon, <2>1, <3>1 DEF OutInv
        <4>2. session'[s] = [session[s] EXCEPT !.out = session[s].live] /\ session[s] \in Row
          BY Zenon, <1>1, <2>1
        <4> QED BY Zenon, <3>1, <4>1, <4>2 DEF Row
      <3>2. CASE t # s
        <4>1. t \in silenced /\ session'[t] = session[t]
          BY Zenon, <1>1, <2>1, <3>2
        <4> QED BY Zenon, <4>1 DEF OutInv
      <3> QED BY Zenon, <3>1, <3>2
    <2>3. \A q \in Proc : proc'[q] = IF q = c THEN Idle ELSE proc[q]
      BY Zenon, <1>1, <2>1
    <2>4. \A t \in silenced' : \A d \in Client : proc[d].sess = t => proc[d].pc \notin {"clearout", "drop"}
      BY Zenon, <2>1 DEF OutInv
    <2>5. \A t \in silenced' : \A d \in Client : proc'[d].sess = t => proc'[d].pc \notin {"clearout", "drop"}
      BY Zenon, <1>1, <2>3, <2>4, IdleOK
    <2> QED BY Zenon, <2>2, <2>5 DEF OutInv
  <1>8. CASE ClearOptOut(c) \/ SessionDelete(c)
    <2>1. s \notin silenced /\ UNCHANGED silenced /\ Step(c, Idle)
      BY Zenon, <1>8 DEF ClearOptOut, SessionDelete, At, Answer, OutInv
    <2>2. \A t \in Session : t # s => session'[t] = session[t]
      BY Zenon, <1>1, <1>8 DEF ClearOptOut, SessionDelete
    <2>3. Kept
      BY Zenon, <1>1, <2>1, <2>2 DEF OutInv
    <2> QED BY Zenon, <1>3, <2>1, <2>3
  <1>9. CASE SessionCreate(c)
    <2>1. \A t \in Session : session[t].live => session'[t] = session[t]
      BY Zenon, <1>1, <1>9 DEF SessionCreate
    <2>2. Kept
      BY Zenon, <1>1, <2>1 DEF OutInv
    <2> QED BY Zenon, <1>3, <1>9, <2>2 DEF SessionCreate, Answer
  <1>10. CASE PairInsert(c)
    <2> DEFINE row == session[s]
               more == [row EXCEPT !.rows = row.rows + 2, !.count = row.count + 1]
    <2>1. s \in Session /\ row \in Row
      BY Zenon, <1>1, <1>10, AtSession DEF PairInsert, At, InSession
    <2>2. more.live = row.live /\ more.out = row.out
      BY Zenon, <2>1 DEF Row
    <2>3. UNCHANGED session \/ session' = [session EXCEPT ![s] = more]
      BY Zenon, <1>10 DEF PairInsert
    <2> HIDE DEF more
    <2>4. Kept
      BY Zenon, <1>1, <2>1, <2>2, <2>3 DEF OutInv
    <2> QED BY Zenon, <1>3, <1>10, <2>4 DEF PairInsert, Answer
  <1> QED BY Zenon, <1>1, <1>4, <1>5, <1>6, <1>7, <1>8, <1>9, <1>10, OutExtracts DEF Continue

LEMMA OutStep == Inv /\ OutInv /\ [Next]_vars => OutInv'
  <1> SUFFICES ASSUME Inv, OutInv, [Next]_vars PROVE OutInv'
    BY Zenon
  <1>1. ASSUME UNCHANGED session PROVE \A s \in silenced : session'[s].live /\ session'[s].out
    BY Zenon, <1>1 DEF OutInv
  <1>2. ASSUME NEW w \in Worker, WorkerStep(w) PROVE OutInv'
    <2>1. CASE Pop(w)
      <3> DEFINE item == Head(queue)
                 r == [Idle EXCEPT !.pc = "acquire", !.sess = item.sess,
                                   !.remember = item.remember, !.attempt = item.attempt]
      <3>1. r.pc = "acquire" /\ Step(w, r)
        BY Zenon, <2>1 DEF Pop, Idle
      <3> HIDE DEF r
      <3> QED BY Zenon, <1>1, <2>1, <3>1, OutMoves DEF Pop, Proc
    <2>2. CASE WorkerExits(w)
      BY Zenon, <1>1, <2>2, OutGoto DEF WorkerExits, Proc
    <2>3. CASE WorkerLoop(w)
      BY Zenon, <1>1, <2>3, OutAnswers DEF WorkerLoop, Proc
    <2> QED BY Zenon, <1>2, <2>1, <2>2, <2>3, OutExtracts DEF WorkerStep, Proc
  <1>3. CASE Crash
    <2>1. \A p \in Proc : proc'[p].pc = "idle"
      BY Zenon, <1>3, IdleOK DEF Crash
    <2> QED BY Zenon, <1>3, <2>1 DEF Crash, OutInv, Proc
  <1>4. CASE UNCHANGED <<session, proc, silenced>>
    BY Zenon, <1>4 DEF OutInv
  <1> QED BY Zenon, <1>2, <1>3, <1>4, OutBegins, OutContinues DEF Next, Stop, Quiet, vars

(* The opt-out may be looked up by a step of its own thread only, *)
Moves(p) == UNCHANGED proc \/ \E r : Step(p, r)

LEMMA ExtractMoves ==
    ASSUME NEW p, ExtractOne(p)
    PROVE  Moves(p) /\ (At(p, "check") => CheckOptOut(p))
  <1>1. ASSUME NEW l, Goto(p, l) PROVE \E r : Step(p, r)
    BY Zenon, <1>1 DEF Goto
  <1>2. ASSUME NEW r, Proceed(p, r) PROVE \E q : Step(p, q)
    BY Zenon, <1>2 DEF Proceed
  <1>3. ASSUME NEW i, Stored(p, i) PROVE \E q : Step(p, q)
    BY Zenon, <1>2, <1>3 DEF Stored
  <1>4. CASE Acquire(p) \/ ForgetRead(p) \/ ForgetWrite(p) \/ CheckOptOut(p)
    BY Zenon, <1>1, <1>4 DEF Acquire, ForgetRead, ForgetWrite, CheckOptOut, Moves, At
  <1>5. CASE Extract(p) \/ FindContradictions(p)
    BY Zenon, <1>1, <1>2, <1>5 DEF Extract, FindContradictions, Moves, At
  <1>6. CASE FindMatchingPreference(p) \/ UpgradeRead(p)
    BY Zenon, <1>1, <1>6 DEF FindMatchingPreference, UpgradeRead, Moves, At
  <1>7. CASE UpgradeWrite(p) \/ InsertNew(p)
    BY Zenon, <1>1, <1>3, <1>7 DEF UpgradeWrite, InsertNew, Moves, At
  <1>8. CASE FetchOld(p) \/ StampOld(p)
    BY Zenon, <1>1, <1>2, <1>8 DEF FetchOld, StampOld, Moves, At
  <1> QED BY Zenon, <1>4, <1>5, <1>6, <1>7, <1>8 DEF ExtractOne

LEMMA WorkerMoves ==
    ASSUME NEW p, WorkerStep(p)
    PROVE  Moves(p) /\ (At(p, "check") => CheckOptOut(p))
  BY Zenon, ExtractMoves DEF WorkerStep, Pop, WorkerExits, WorkerLoop, Goto, Moves, At

(* and by that statement of it only. *)
LEMMA ClientMoves ==
    ASSUME NEW p, Begin(p) \/ Continue(p)
    PROVE  Moves(p) /\ (At(p, "check") => CheckOptOut(p))
  <1>1. CASE Begin(p)
    <2>1. ASSUME NEW s, \/ ExtractNow(p, s) \/ OptOut(p, s) \/ OptOutRevoke(p, s)
                        \/ SessionLimit(p, s) \/ DeleteSession(p, s) \/ InteractionLimit(p, s)
          PROVE  Moves(p) /\ At(p, "idle")
      BY Zenon, <2>1 DEF ExtractNow, OptOut, OptOutRevoke, SessionLimit, DeleteSession,
                         InteractionLimit, Ask, Moves
    <2>2. ASSUME NEW m, Create(p, m) PROVE Moves(p) /\ At(p, "idle")
      BY Zenon, <2>2 DEF Create, Moves
    <2>3. ASSUME NEW b, NEW op, Fetch(p, op, b) \/ Delete(p, b) PROVE Moves(p) /\ At(p, "idle")
      BY Zenon, <2>3 DEF Fetch, Delete, Ask, Moves
    <2> QED BY Zenon, <1>1, <2>1, <2>2, <2>3 DEF Begin, At
  <1>2. CASE Continue(p)
    <2>1. ASSUME NEW m, EditInsert(p, m) PROVE Moves(p) /\ At(p, "edit")
      BY Zenon, <2>1 DEF EditInsert, Answer, Moves
    <2>2. CASE EditMark(p) \/ DeleteMark(p) \/ RevokeMark(p) \/ ExtractAnswer(p)
      BY Zenon, <2>2 DEF EditMark, DeleteMark, RevokeMark, ExtractAnswer, Answer, Moves, At
    <2>3. CASE SetOptOut(p) \/ ClearOptOut(p) \/ SessionExists(p) \/ SessionCreate(p)
      BY Zenon, <2>3 DEF SetOptOut, ClearOptOut, SessionExists, SessionCreate, Goto, Answer, Moves, At
    <2>4. CASE SessionDelete(p) \/ VerifySession(p) \/ PairInsert(p) \/ Enqueue(p)
      BY Zenon, <2>4 DEF SessionDelete, VerifySession, PairInsert, Enqueue, Goto, Answer, Moves, At
    <2> QED BY Zenon, <1>2, <2>1, <2>2, <2>3, <2>4, ExtractMoves DEF Continue, At
  <1> QED BY Zenon, <1>1, <1>2

LEMMA LookedUp ==
    ASSUME Inv, NEW p \in Proc, At(p, "check"), proc'[p].pc = "llm", [Next]_vars
    PROVE  CheckOptOut(p)
  <1>1. proc \in [Proc -> ProcRecord] /\ proc'[p] # proc[p]
    BY Zenon DEF Inv, BlocksInv, At
  <1>2. ASSUME NEW q, Moves(q), At(q, "check") => CheckOptOut(q) PROVE CheckOptOut(p)
    BY Zenon, <1>1, <1>2 DEF Moves, Step
  <1>3. ~Crash
    BY Zenon, IdleOK DEF Crash
  <1> QED BY Zenon, <1>1, <1>2, <1>3, WorkerMoves, ClientMoves DEF Next, Stop, Quiet, vars

(* No extraction of a session's turn, first attempt or retry, reaches the  *)
(* model after the session's opt-out was answered, unless ExtractOne could *)
(* not read the opt-out state; for any number of workers, request threads  *)
(* and sessions, with deletions and re-creations of the session between.    *)
THEOREM OptOuts == Spec => OptOutHonoured
  <1>1. Init => OutInv
    BY Zenon DEF Init, OutInv
  <1>2. ASSUME Inv, OutInv, [Next]_vars
        PROVE  [\A p \in Proc : At(p, "check") /\ proc[p].sess \in silenced /\ proc'[p].pc = "llm"
                    => budget'["read"] < budget["read"]]_vars
    <2> SUFFICES ASSUME NEW p \in Proc, At(p, "check"), proc[p].sess \in silenced, proc'[p].pc = "llm"
                 PROVE  budget'["read"] < budget["read"]
      BY Zenon
    <2>1. CheckOptOut(p)
      BY Zenon, <1>2, LookedUp
    <2>2. session[proc[p].sess].out
      BY Zenon, <1>2 DEF OutInv
    <2>3. Spend("read")
      <3>1. proc \in [Proc -> ProcRecord] /\ proc[p] \in ProcRecord
        BY Zenon, <1>2 DEF Inv, BlocksInv
      <3>2. ~Goto(p, "ok")
        <4> DEFINE r == [proc[p] EXCEPT !.pc = "ok"]
        <4>1. r.pc = "ok" /\ (Goto(p, "ok") => Step(p, r))
          BY Zenon, <3>1 DEF Goto, ProcRecord
        <4> HIDE DEF r
        <4> QED BY Zenon, <3>1, <4>1 DEF Step
      <3> QED BY Zenon, <2>1, <2>2, <3>2 DEF CheckOptOut
    <2>4. budget["read"] \in Nat /\ budget \in [Kind -> Nat] /\ "read" \in Kind
      BY Zenon, <1>2 DEF Inv, OthersInv, Kind
    <2> QED BY <2>3, <2>4 DEF Spend
  <1> QED BY <1>1, <1>2, Initially, Preserved, OutStep, PTL DEF Spec, OptOutHonoured
=============================================================================
