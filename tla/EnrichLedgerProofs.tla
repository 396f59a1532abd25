------------------------- MODULE EnrichLedgerProofs -------------------------
(***************************************************************************)
(* Proofs about the enrichment ledger, for every set of chunks, every set  *)
(* of request threads, every attempt bound and every workload.             *)
(***************************************************************************)
EXTENDS EnrichLedger, TLAPS

-----------------------------------------------------------------------------
(* TYPES *)

(* What an empty delivery, job and row are. *)
LEMMA Empties ==
    /\ NoRow \in Row
    /\ NoArt \in Artifacts
    /\ NoDelivery \in Delivery
    /\ NoDelivery.pc = "idle"
    /\ NoDelivery.held = "ended"
    /\ NoJob \in Job
    /\ NoJob.pc = "idle"
  BY DEF NoRow, Row, NoArt, Artifacts, NoDelivery, Delivery, NoJob, Job, Member

(* The row a chunk starts with, and what each SQL statement makes of a row, *)
(* is a row again.                                                          *)
LEMMA RowWrites ==
    ASSUME NEW r \in Row, NEW n \in Nat, NEW owed \in SUBSET Member
    PROVE  /\ UpsertEnrichState(owed) \in Row
           /\ ChargeEnrichAttempts(r, n) \in Row
           /\ ReoweEnrichState(r, owed, n) \in Row
           /\ SettleTerminalRow(r) \in Row
  <1>1. UpsertEnrichState(owed) \in Row
    BY Zenon DEF UpsertEnrichState, NoRow, Row
  <1>2. ChargeEnrichAttempts(r, n) \in Row
    <2>1. CASE r.status # "pending"
      BY Zenon, <2>1 DEF ChargeEnrichAttempts
    <2>2. CASE r.status = "pending"
      <3> DEFINE a == [r EXCEPT !.attempts = @ + 1]
                 s == IF r.attempts + 1 > n THEN "failed" ELSE r.status
                 u == r.due /\ r.attempts + 1 <= n
      <3>1. a \in Row BY DEF Row
      <3>2. s \in {"failed", "pending"} BY Zenon, <2>2
      <3>3. u \in BOOLEAN BY Zenon
      <3>4. ChargeEnrichAttempts(r, n) = [a EXCEPT !.status = s, !.due = u]
        BY Zenon, <2>2 DEF ChargeEnrichAttempts
      <3> HIDE DEF a, s, u
      <3> QED BY Zenon, <3>1, <3>2, <3>3, <3>4 DEF Row
    <2> QED BY Zenon, <2>1, <2>2
  <1>3. ReoweEnrichState(r, owed, n) \in Row
    <2>1. CASE r.status = "none"
      BY Zenon, <2>1 DEF ReoweEnrichState, NoRow, Row
    <2>2. CASE r.status # "none"
      <3> DEFINE s == IF r.attempts >= n THEN "failed" ELSE "pending"
                 u == r.attempts < n
                 g == r.gen + 1
      <3>1. s \in {"failed", "pending"} /\ u \in BOOLEAN /\ g \in Nat
        BY DEF Row
      <3>2. ReoweEnrichState(r, owed, n)
              = [r EXCEPT !.status = s, !.owed = owed, !.due = u, !.gen = g]
        BY Zenon, <2>2 DEF ReoweEnrichState
      <3> HIDE DEF s, u, g
      <3> QED BY Zenon, <3>1, <3>2 DEF Row
    <2> QED BY Zenon, <2>1, <2>2
  <1>4. SettleTerminalRow(r) \in Row
    <2>1. CASE r.status # "failed"
      BY Zenon, <2>1 DEF SettleTerminalRow
    <2>2. CASE r.status = "failed"
      <3> DEFINE g == r.gen + 1
      <3>1. g \in Nat
        BY DEF Row
      <3>2. SettleTerminalRow(r)
              = [r EXCEPT !.status = "ok", !.owed = {}, !.due = FALSE, !.gen = g]
        BY Zenon, <2>2 DEF SettleTerminalRow
      <3> HIDE DEF g
      <3> QED BY Zenon, <3>1, <3>2 DEF Row
    <2> QED BY Zenon, <2>1, <2>2
  <1> QED BY Zenon, <1>1, <1>2, <1>3, <1>4

(* Spending one of the bounded events leaves a budget. *)
LEMMA SpendOK ==
    ASSUME budget \in [Kind -> Nat], NEW k \in Kind, Spend(k)
    PROVE  budget' \in [Kind -> Nat]
  BY DEF Spend

(* The lease and its return only touch due times. *)
LEMMA LeaseOK ==
    ASSUME row \in [Chunk -> Row], NEW due \in BOOLEAN
    PROVE  LeaseDocRetries(due) \in [Chunk -> Row]
  BY DEF LeaseDocRetries, Row

(* The fields of a delivery. *)
LEMMA DeliveryFields ==
    ASSUME NEW x \in Delivery
    PROVE  /\ x.snap \in [Chunk -> Row] /\ x.ask \in [Chunk -> SUBSET Member]
           /\ x.got \in [Chunk -> SUBSET Member] /\ x.owed \in [Chunk -> SUBSET Member]
           /\ x.bill \subseteq Chunk /\ x.only \subseteq Chunk /\ x.settle \subseteq Chunk
           /\ x.stored \subseteq Chunk /\ x.point \subseteq Chunk /\ x.todo \subseteq Chunk
           /\ x.fresh \subseteq Chunk
           /\ x.held \in {"processing", "cancelling", "ended"}
  BY Zenon DEF Delivery

(* A member that stays owed. *)
LEMMA OwesMore ==
    ASSUME NEW x \in Delivery, NEW c \in Chunk, NEW m \in Member
    PROVE  LET y == [x EXCEPT !.owed[c] = @ \cup {m}]
           IN  y \in Delivery /\ y.pc = x.pc /\ y.cur = x.cur
  <1> DEFINE o == [x.owed EXCEPT ![c] = x.owed[c] \cup {m}]
             y == [x EXCEPT !.owed = o]
  <1>1. o \in [Chunk -> SUBSET Member]
    BY Zenon, DeliveryFields
  <1>2. [x EXCEPT !.owed[c] = @ \cup {m}] = y
    BY Zenon
  <1> HIDE DEF o
  <1>3. y \in Delivery /\ y.pc = x.pc /\ y.cur = x.cur
    BY Zenon, <1>1 DEF Delivery
  <1> QED BY Zenon, <1>2, <1>3

LEMMA InitType == Init => TypeOK
  <1> SUFFICES ASSUME Init PROVE TypeOK BY Zenon
  <1> USE EnrichAssumption, ConfigsAssumption, Empties
  <1>1. config \in Configs /\ live \subseteq Chunk
    BY Zenon DEF Init
  <1>2. PICK F \in [Chunk -> config.fail] :
           /\ art = [c \in Chunk |-> StartArt(c, F[c])]
           /\ row = [c \in Chunk |-> StartRow(c, F[c])]
    BY Zenon DEF Init
  <1>3. ASSUME NEW c \in Chunk PROVE F[c] \in SUBSET Member
    BY Zenon, <1>1, <1>2, <1>3
  <1>4. art \in [Chunk -> Artifacts]
    <2> SUFFICES ASSUME NEW c \in Chunk PROVE StartArt(c, F[c]) \in Artifacts
      BY Zenon, <1>2
    <2> DEFINE A(lost) == IngestArt(c, F[c], lost)
    <2>1. ASSUME NEW lost \in BOOLEAN PROVE A(lost) \in Artifacts
      BY <2>1 DEF IngestArt, Artifacts
    <2>2. [A(FALSE) EXCEPT !.label = TRUE] \in Artifacts
      BY Zenon, <2>1 DEF Artifacts
    <2> HIDE DEF A
    <2>3. A(config.start = "unlabelled") \in Artifacts
      BY Zenon, <2>1
    <2> QED BY Zenon, <2>1, <2>2, <2>3 DEF StartArt, A
  <1>5. row \in [Chunk -> Row]
    <2> SUFFICES ASSUME NEW c \in Chunk PROVE StartRow(c, F[c]) \in Row
      BY Zenon, <1>2
    <2>1. UpsertEnrichState(F[c]) \in Row
      BY Zenon, <1>3, RowWrites
    <2> QED BY Zenon, <2>1 DEF StartRow
  <1>6. LedgerOK
    BY Zenon, <1>5 DEF Init, LedgerOK
  <1>7. TasksOK
    BY Zenon, <1>1 DEF Init, TasksOK
  <1>8. ThreadsOK
    BY Zenon DEF Init, ThreadsOK
  <1> QED BY Zenon, <1>1, <1>4, <1>6, <1>7, <1>8 DEF TypeOK

(* What a failed store call and an abandoned task row leave. *)
LEMMA StoreFailsType ==
    ASSUME TypeOK, StoreFails
    PROVE  TypeOK'
  <1>1. TasksOK'
    BY Zenon, SpendOK DEF StoreFails, TypeOK, TasksOK, Kind
  <1>2. ThreadsOK'
    BY DEF StoreFails, TypeOK, ThreadsOK, Delivery
  <1> QED BY Zenon, <1>1, <1>2 DEF StoreFails, TypeOK, LedgerOK

LEMMA LeaveTaskType ==
    ASSUME TypeOK, LeaveTask
    PROVE  /\ tasks' \in [queued : Nat, processing : Nat, cancelling : Nat]
           /\ recent' \in BOOLEAN
           /\ d' \in Delivery
           /\ d'.pc = "idle"
  <1>1. DOMAIN tasks = {"queued", "processing", "cancelling"}
    BY Zenon DEF TypeOK, TasksOK
  <1>2. \A s \in DOMAIN tasks : tasks[s] \in Nat
    BY Zenon, <1>1 DEF TypeOK, TasksOK
  <1>3. tasks' \in [queued : Nat, processing : Nat, cancelling : Nat]
    BY <1>1, <1>2 DEF LeaveTask
  <1> QED BY Zenon, <1>3, Empties DEF LeaveTask, TypeOK, TasksOK

LEMMA WorkerType ==
    ASSUME TypeOK, Worker
    PROVE  TypeOK'
  <1> USE EnrichAssumption, ConfigsAssumption, Empties
  <1>1. CASE Dequeue
    <2>1. TasksOK'
      BY <1>1 DEF Dequeue, TypeOK, TasksOK
    <2>2. ThreadsOK'
      BY Zenon, <1>1 DEF Dequeue, TypeOK, ThreadsOK, Delivery
    <2> QED BY Zenon, <1>1, <2>1, <2>2 DEF Dequeue, TypeOK, LedgerOK
  <1>2. CASE Read
    <2>1. ASSUME d' = [d EXCEPT !.pc = "end", !.ok = TRUE]
          PROVE  d' \in Delivery /\ d'.pc = "end"
      BY Zenon, <2>1 DEF TypeOK, ThreadsOK, Delivery
    <2>2. Classify \in Delivery /\ Classify.pc = "settle"
      <3> DEFINE pending == {c \in Chunk : row[c].status = "pending"}
                 here    == pending \cap live
                 stored  == {c \in here : "f35" \in Owes(c) /\ art[c].columns}
                 ask     == [c \in Chunk |->
                                IF c \notin here THEN {}
                                ELSE Owes(c) \ (IF c \in stored THEN {"f35"} ELSE {})]
                 provide == {c \in here : ask[c] # {}}
                 only    == {c \in stored \ provide : IndexPointsExpected(c)}
                 snap    == [c \in Chunk |-> IF c \in pending THEN row[c] ELSE NoRow]
                 bill    == provide \cup (pending \ live)
                 settle  == here \ (provide \cup only)
      <3>1. /\ pending \subseteq Chunk /\ stored \subseteq Chunk /\ only \subseteq Chunk
            /\ bill \subseteq Chunk /\ settle \subseteq Chunk
        BY Zenon
      <3>2. snap \in [Chunk -> Row]
        BY Zenon DEF TypeOK, LedgerOK
      <3>3. \A c \in Chunk : Owes(c) \subseteq Member
        BY Zenon DEF Owes, TypeOK, LedgerOK, Row
      <3>4. ask \in [Chunk -> SUBSET Member]
        BY Zenon, <3>3
      <3>5. Classify = [d EXCEPT !.pc = "settle", !.snap = snap, !.ask = ask, !.bill = bill,
                                 !.only = only, !.settle = settle, !.stored = stored,
                                 !.fresh = pending]
        BY Zenon DEF Classify
      <3> HIDE DEF pending, here, stored, ask, provide, only, snap, bill, settle
      <3> QED BY ZenonT(30), <3>1, <3>2, <3>4, <3>5 DEF TypeOK, ThreadsOK, Delivery
    <2> QED BY <1>2, <2>1, <2>2, StoreFailsType
            DEF Read, TypeOK, LedgerOK, TasksOK, ThreadsOK
  <1>3. CASE Settle
    <2>1. ASSUME NEW c \in Chunk PROVE row'[c] \in Row
      <3>1. d.snap[c] \in Row /\ row[c] \in Row
        BY Zenon, DeliveryFields DEF TypeOK, LedgerOK, ThreadsOK
      <3>2. [d.snap[c] EXCEPT !.status = "ok", !.owed = {}, !.due = FALSE] \in Row
        BY Zenon, <3>1 DEF Row
      <3> QED BY Zenon, <1>3, <3>1, <3>2 DEF Settle, FlipEnrichStateIfGeneration
    <2>2. row' \in [Chunk -> Row]
      BY Zenon, <1>3, <2>1 DEF Settle
    <2>3. ThreadsOK'
      BY Zenon, <1>3 DEF Settle, TypeOK, ThreadsOK, Delivery
    <2> QED BY Zenon, <1>3, <2>2, <2>3 DEF Settle, TypeOK, LedgerOK, TasksOK
  <1>4. ASSUME NEW ids \in SUBSET Chunk, NEW n \in Nat, Count(ids, n)
        PROVE  row' \in [Chunk -> Row] /\ charged' \in [Chunk -> Nat]
    <2>1. \A c \in Chunk : ChargeEnrichAttempts(row[c], n) \in Row
      BY Zenon, RowWrites DEF TypeOK, LedgerOK
    <2>2. row' \in [Chunk -> Row]
      BY Zenon, <1>4, <2>1 DEF Count, TypeOK, LedgerOK
    <2>3. charged' \in [Chunk -> Nat]
      BY <1>4 DEF Count, TypeOK, LedgerOK
    <2> QED BY Zenon, <2>2, <2>3
  <1>5. CASE ChargeProvider
    <2>1. CASE StoreFails BY Zenon, <2>1, StoreFailsType
    <2>2. CASE Count(d.bill, MaxAttempts + 1) /\ d' = [d EXCEPT !.pc = "count"]
               /\ UNCHANGED <<config, live, art, tasks, recent, job, mu, budget, calls>>
      <3>1. row' \in [Chunk -> Row] /\ charged' \in [Chunk -> Nat]
        <4>1. d.bill \in SUBSET Chunk /\ MaxAttempts + 1 \in Nat
          BY DeliveryFields DEF TypeOK, ThreadsOK, NoTerminal
        <4> QED BY Zenon, <2>2, <1>4, <4>1
      <3>2. ThreadsOK'
        <4>1. d \in Delivery
          BY Zenon DEF TypeOK, ThreadsOK
        <4>2. d' \in Delivery /\ d'.pc \notin {"columns", "label"}
          BY Zenon, <2>2, <4>1 DEF Delivery
        <4> QED BY Zenon, <2>2, <4>2 DEF TypeOK, ThreadsOK
      <3> QED BY Zenon, <2>2, <3>1, <3>2 DEF TypeOK, LedgerOK, TasksOK
    <2> QED BY Zenon, <1>5, <2>1, <2>2 DEF ChargeProvider
  <1>6. CASE ChargeLabelOnly
    <2>1. CASE StoreFails BY Zenon, <2>1, StoreFailsType
    <2>2. CASE Count(d.only, NoTerminal) /\ d' = [d EXCEPT !.pc = "chain"]
               /\ UNCHANGED <<config, live, art, tasks, recent, job, mu, budget, calls>>
      <3>1. row' \in [Chunk -> Row] /\ charged' \in [Chunk -> Nat]
        <4>1. d.only \in SUBSET Chunk /\ NoTerminal \in Nat
          BY DeliveryFields DEF TypeOK, ThreadsOK, NoTerminal
        <4> QED BY Zenon, <2>2, <1>4, <4>1
      <3>2. ThreadsOK'
        <4>1. d \in Delivery
          BY Zenon DEF TypeOK, ThreadsOK
        <4>2. d' \in Delivery /\ d'.pc \notin {"columns", "label"}
          BY Zenon, <2>2, <4>1 DEF Delivery
        <4> QED BY Zenon, <2>2, <4>2 DEF TypeOK, ThreadsOK
      <3> QED BY Zenon, <2>2, <3>1, <3>2 DEF TypeOK, LedgerOK, TasksOK
    <2> QED BY Zenon, <1>6, <2>1, <2>2 DEF ChargeLabelOnly
  <1>7. CASE RunChain
    <2>1. PICK failed \in [Chunk -> SUBSET config.up] :
             /\ \A c \in Chunk : failed[c] \subseteq d.ask[c]
             /\ d' = [d EXCEPT !.pc = "insert",
                               !.got = [c \in Chunk |->
                                           (d.ask[c] \cap config.up) \ failed[c]],
                               !.owed = failed]
      BY Zenon, <1>7 DEF RunChain
    <2>2. failed \in [Chunk -> SUBSET Member]
      BY <2>1 DEF TypeOK, ThreadsOK, Delivery
    <2>3. [c \in Chunk |-> (d.ask[c] \cap config.up) \ failed[c]] \in [Chunk -> SUBSET Member]
      BY DEF TypeOK, ThreadsOK, Delivery
    <2>4. d' \in Delivery /\ d'.pc = "insert"
      BY Zenon, <2>1, <2>2, <2>3 DEF TypeOK, ThreadsOK, Delivery
    <2>5. calls' \in [Chunk -> Nat]
      BY <1>7 DEF RunChain, TypeOK, LedgerOK
    <2> QED BY Zenon, <1>7, <2>4, <2>5 DEF RunChain, TypeOK, LedgerOK, TasksOK, ThreadsOK
  <1>8. CASE Insert
    <2> DEFINE points == {c \in Chunk : /\ IndexPointsExpected(c) /\ ~ art[c].label
                                        /\ "f35" \in d.got[c] \/ c \in d.stored}
    <2>1. CASE StoreFails BY Zenon, <2>1, StoreFailsType
    <2>2. ASSUME NEW E \in SUBSET NewHypes,
                 IF E = {} THEN UNCHANGED budget ELSE Spend("persist"),
                 art' = [c \in Chunk |-> IF c \in NewHypes \ E
                                         THEN [art[c] EXCEPT !.hype = @ + 1]
                                         ELSE art[c]],
                 d' = [d EXCEPT !.pc = "score",
                                !.owed = [c \in Chunk |-> IF c \in E THEN @[c] \cup {"f38"}
                                                                     ELSE @[c]],
                                !.point = points,
                                !.todo = Repaired,
                                !.txn = points \cup (NewHypes \ E) # {}],
                 UNCHANGED <<config, live, row, tasks, recent, job, mu, charged, calls>>
          PROVE  TypeOK'
      <3>1. budget' \in [Kind -> Nat]
        BY Zenon, <2>2, SpendOK DEF TypeOK, TasksOK, Kind
      <3>2. art' \in [Chunk -> Artifacts]
        BY <2>2 DEF TypeOK, Artifacts
      <3> DEFINE o == [c \in Chunk |-> IF c \in E THEN d.owed[c] \cup {"f38"} ELSE d.owed[c]]
                 x == points \cup (NewHypes \ E) # {}
      <3>3. o \in [Chunk -> SUBSET Member] /\ points \in SUBSET Chunk
            /\ Repaired \in SUBSET Chunk /\ x \in BOOLEAN
        BY DEF TypeOK, ThreadsOK, Delivery, Member, Repaired
      <3>4. d' = [d EXCEPT !.pc = "score", !.owed = o, !.point = points,
                           !.todo = Repaired, !.txn = x]
        BY Zenon, <2>2
      <3> HIDE DEF o, x, points
      <3>5. d' \in Delivery /\ d'.pc = "score"
        BY Zenon, <3>3, <3>4 DEF TypeOK, ThreadsOK, Delivery
      <3> QED BY Zenon, <2>2, <3>1, <3>2, <3>5 DEF TypeOK, LedgerOK, TasksOK, ThreadsOK
    <2> QED BY Zenon, <1>8, <2>1, <2>2 DEF Insert
  <1>9. ASSUME NEW c \in Chunk, NEW artWith \in Artifacts,
               NEW dOk \in Delivery, NEW dBad \in Delivery,
               dOk.pc \in {"columns", "label"} => dOk.cur \in Chunk,
               dBad.pc = dOk.pc, dBad.cur = dOk.cur,
               d' \in {dOk, [dOk EXCEPT !.stored = @ \cup {c}], dBad},
               art' \in {art, [art EXCEPT ![c] = artWith]},
               UNCHANGED budget \/ Spend("persist"),
               UNCHANGED <<config, live, row, tasks, recent, job, mu, charged, calls>>
        PROVE  TypeOK'
    <2> DEFINE w == [dOk EXCEPT !.stored = @ \cup {c}]
    <2>1. w \in Delivery /\ w.pc = dOk.pc /\ w.cur = dOk.cur
      <3> DEFINE more == dOk.stored \cup {c}
      <3>1. more \in SUBSET Chunk
        BY Zenon, DeliveryFields
      <3> HIDE DEF more
      <3>2. [dOk EXCEPT !.stored = more] \in Delivery
        BY Zenon, <3>1 DEF Delivery
      <3> QED BY Zenon, <3>2 DEF more, Delivery
    <2> HIDE DEF w
    <2>2. ThreadsOK'
      BY Zenon, <1>9, <2>1 DEF TypeOK, ThreadsOK, w
    <2>3. art' \in [Chunk -> Artifacts]
      BY Zenon, <1>9 DEF TypeOK
    <2>4. budget' \in [Kind -> Nat]
      BY Zenon, <1>9, SpendOK DEF TypeOK, TasksOK, Kind
    <2> QED BY Zenon, <1>9, <2>2, <2>3, <2>4 DEF TypeOK, LedgerOK, TasksOK
  <1>10. CASE WriteScore
    <2> DEFINE ok(c) == [d EXCEPT !.pc = "columns", !.cur = c, !.todo = @ \ {c}]
    <2>1. PICK c \in d.todo :
             Write(c, "score", "f03" \in d.got[c] /\ ~ art[c].score,
                   [art[c] EXCEPT !.score = TRUE],
                   ok(c), [ok(c) EXCEPT !.owed[c] = @ \cup {"f03"}])
      BY Zenon, <1>10 DEF WriteScore
    <2>2. c \in Chunk
      BY Zenon DEF TypeOK, ThreadsOK, Delivery
    <2>3. ok(c) \in Delivery /\ ok(c).pc = "columns" /\ ok(c).cur = c
      BY Zenon, <2>2 DEF TypeOK, ThreadsOK, Delivery
    <2> HIDE DEF ok
    <2> DEFINE bad == [ok(c) EXCEPT !.owed[c] = @ \cup {"f03"}]
    <2>4. bad \in Delivery /\ bad.pc = ok(c).pc /\ bad.cur = ok(c).cur
      BY Zenon, <2>2, <2>3, OwesMore DEF Member
    <2>5. [art[c] EXCEPT !.score = TRUE] \in Artifacts
      BY Zenon, <2>2 DEF TypeOK, Artifacts
    <2>8. /\ d' \in {ok(c), [ok(c) EXCEPT !.stored = @ \cup {c}], bad}
          /\ art' \in {art, [art EXCEPT ![c] = [art[c] EXCEPT !.score = TRUE]]}
          /\ UNCHANGED budget \/ Spend("persist")
          /\ UNCHANGED <<config, live, row, tasks, recent, job, mu, charged, calls>>
      BY <2>1, <2>3 DEF Write, Delivery
    <2> HIDE DEF bad
    <2> QED BY ZenonT(30), <1>9, <2>2, <2>3, <2>4, <2>5, <2>8
  <1>11. CASE WriteColumns
    <2> DEFINE c  == d.cur
               ok == [d EXCEPT !.pc = "label"]
    <2>1. Write(c, "columns", "f35" \in d.got[c], [art[c] EXCEPT !.columns = TRUE],
                ok, [ok EXCEPT !.owed[c] = @ \cup {"f35"}, !.point = @ \ {c}])
      BY Zenon, <1>11 DEF WriteColumns
    <2>2. c \in Chunk
      BY Zenon, <1>11 DEF WriteColumns, TypeOK, ThreadsOK
    <2>3. ok \in Delivery /\ ok.pc = "label" /\ ok.cur = c
      BY Zenon, <2>2 DEF TypeOK, ThreadsOK, Delivery
    <2> HIDE DEF ok, c
    <2> DEFINE more == [ok EXCEPT !.owed[c] = @ \cup {"f35"}]
    <2>4. more \in Delivery /\ more.pc = ok.pc /\ more.cur = ok.cur
      BY ONLY Zenon, <2>2, <2>3, OwesMore DEF Member
    <2> DEFINE bad == [more EXCEPT !.point = @ \ {c}]
    <2>6. bad = [ok EXCEPT !.owed[c] = @ \cup {"f35"}, !.point = @ \ {c}]
      <3>1. more.point = ok.point
        BY Zenon, <2>3 DEF Delivery
      <3> QED BY Zenon, <3>1
    <2>7. bad \in Delivery /\ bad.pc = ok.pc /\ bad.cur = ok.cur
      <3> DEFINE left == more.point \ {c}
      <3>1. left \in SUBSET Chunk
        BY Zenon, <2>4, DeliveryFields
      <3> HIDE DEF more, left
      <3>2. [more EXCEPT !.point = left] \in Delivery
        BY Zenon, <2>4, <3>1 DEF Delivery
      <3> QED BY Zenon, <2>4, <3>2 DEF left, Delivery
    <2>5. [art[c] EXCEPT !.columns = TRUE] \in Artifacts
      BY Zenon, <2>2 DEF TypeOK, Artifacts
    <2>8. /\ d' \in {ok, [ok EXCEPT !.stored = @ \cup {c}], bad}
          /\ art' \in {art, [art EXCEPT ![c] = [art[c] EXCEPT !.columns = TRUE]]}
          /\ UNCHANGED budget \/ Spend("persist")
          /\ UNCHANGED <<config, live, row, tasks, recent, job, mu, charged, calls>>
      BY Zenon, <2>1, <2>3, <2>6 DEF Write, Delivery
    <2> HIDE DEF bad
    <2> QED BY Zenon, <1>9, <2>2, <2>3, <2>4, <2>5, <2>7, <2>8
  <1>12. CASE WriteLabel
    <2> DEFINE c  == d.cur
               ok == [d EXCEPT !.pc = "score", !.cur = None]
    <2>1. Write(c, "label", c \in d.point, [art[c] EXCEPT !.label = TRUE],
                ok, [ok EXCEPT !.owed[c] = @ \cup {"f35"}])
      BY Zenon, <1>12 DEF WriteLabel
    <2>2. c \in Chunk
      BY Zenon, <1>12 DEF WriteLabel, TypeOK, ThreadsOK
    <2>3. ok \in Delivery /\ ok.pc = "score" /\ ok.cur = None
      BY Zenon, <2>2 DEF TypeOK, ThreadsOK, Delivery
    <2> HIDE DEF ok, c
    <2> DEFINE bad == [ok EXCEPT !.owed[c] = @ \cup {"f35"}]
    <2>4. bad \in Delivery /\ bad.pc = ok.pc /\ bad.cur = ok.cur
      BY Zenon, <2>2, <2>3, OwesMore DEF Member
    <2>5. [art[c] EXCEPT !.label = TRUE] \in Artifacts
      BY Zenon, <2>2 DEF TypeOK, Artifacts
    <2>8. /\ d' \in {ok, [ok EXCEPT !.stored = @ \cup {c}], bad}
          /\ art' \in {art, [art EXCEPT ![c] = [art[c] EXCEPT !.label = TRUE]]}
          /\ UNCHANGED budget \/ Spend("persist")
          /\ UNCHANGED <<config, live, row, tasks, recent, job, mu, charged, calls>>
      BY <2>1, <2>3 DEF Write, Delivery
    <2> HIDE DEF bad
    <2> QED BY Zenon, <1>9, <2>2, <2>3, <2>4, <2>5, <2>8
  <1>13. CASE Commit
    <2>1. d' \in Delivery /\ d'.pc \in {"flip", "end"}
      BY <1>13 DEF Commit, TypeOK, ThreadsOK, Delivery
    <2>2. budget' \in [Kind -> Nat]
      BY Zenon, <1>13, SpendOK DEF Commit, TypeOK, TasksOK, Kind
    <2> QED BY Zenon, <1>13, <2>1, <2>2 DEF Commit, TypeOK, LedgerOK, TasksOK, ThreadsOK
  <1>14. CASE Flip
    <2>1. ASSUME NEW c \in Chunk PROVE Outcome(c) \in Row
      <3> DEFINE n == d.snap[c].attempts + 1
                 k == d.owed[c] = {"f35"} /\ c \in d.stored
                 s == CASE d.owed[c] = {}          -> "ok"
                        [] n >= MaxAttempts /\ ~ k -> "failed"
                        [] OTHER                   -> "pending"
      <3>1. n \in Nat /\ d.snap[c] \in Row /\ d.owed[c] \in SUBSET Member
        BY DEF TypeOK, ThreadsOK, Delivery, Row
      <3>2. s \in {"ok", "failed", "pending"}
        BY Zenon
      <3>3. Outcome(c) = [d.snap[c] EXCEPT !.status = s, !.owed = d.owed[c],
                                           !.attempts = n, !.due = FALSE]
        BY Zenon DEF Outcome
      <3> HIDE DEF n, s
      <3> QED BY Zenon, <3>1, <3>2, <3>3 DEF Row
    <2>2. row' \in [Chunk -> Row]
      BY Zenon, <1>14, <2>1 DEF Flip, FlipEnrichStateIfGeneration, TypeOK, LedgerOK
    <2>3. d' \in Delivery /\ d'.pc = "end"
      BY Zenon, <1>14 DEF Flip, TypeOK, ThreadsOK, Delivery
    <2> QED BY Zenon, <1>14, <2>2, <2>3 DEF Flip, TypeOK, LedgerOK, TasksOK, ThreadsOK
  <1>15. CASE Finish
    <2>1. CASE Spend("final") /\ LeaveTask
      BY Zenon, <1>15, <2>1, SpendOK, LeaveTaskType
         DEF Finish, TypeOK, LedgerOK, TasksOK, ThreadsOK, Kind
    <2>2. CASE /\ d' = NoDelivery
               /\ recent' = (recent \/ (d.ok /\ d.held # "ended"))
               /\ UNCHANGED <<tasks, budget>>
      BY Zenon, <1>15, <2>2 DEF Finish, TypeOK, LedgerOK, TasksOK, ThreadsOK
    <2> QED BY Zenon, <1>15, <2>1, <2>2 DEF Finish
  <1> QED BY Zenon, <1>1, <1>2, <1>3, <1>5, <1>6, <1>7, <1>8, <1>10, <1>11, <1>12, <1>13,
             <1>14, <1>15 DEF Worker

(* A thread that moves on, or is done. *)
LEMMA JobMoves ==
    ASSUME job \in [Thread -> Job], NEW t \in Thread
    PROVE  /\ \A pc \in {"idle", "reconcile", "artifacts", "tracked", "rows", "reset",
                         "due", "sweep", "check", "lease", "enqueue", "unlease"} :
                 Goto(t, pc) => job' \in [Thread -> Job]
           /\ SweepDone(t) => job' \in [Thread -> Job] /\ mu' = None
  BY Empties DEF Goto, SweepDone, Job

LEMMA ServeType ==
    ASSUME TypeOK, NEW t \in Thread, Serve(t)
    PROVE  TypeOK'
  <1> USE EnrichAssumption, ConfigsAssumption, Empties
  <1>j. /\ job \in [Thread -> Job] /\ mu \in Thread \cup {None}
        /\ row \in [Chunk -> Row] /\ budget \in [Kind -> Nat]
    BY Zenon DEF TypeOK, ThreadsOK, LedgerOK, TasksOK
  <1>1. CASE SweepBegin(t)
    <2>1. ThreadsOK'
      BY Zenon, <1>1, <1>j, JobMoves DEF SweepBegin, TypeOK, ThreadsOK
    <2> QED BY Zenon, <1>1, <2>1 DEF SweepBegin, TypeOK, LedgerOK, TasksOK
  <1>2. CASE SweepCheck(t)
    <2>1. ThreadsOK'
      BY Zenon, <1>2, <1>j, JobMoves DEF SweepCheck, TypeOK, ThreadsOK
    <2>2. budget' \in [Kind -> Nat]
      BY Zenon, <1>2, <1>j, SpendOK DEF SweepCheck, Kind
    <2> QED BY Zenon, <1>2, <2>1, <2>2 DEF SweepCheck, TypeOK, LedgerOK, TasksOK
  <1>3. CASE SweepLease(t)
    <2>1. ThreadsOK'
      BY Zenon, <1>3, <1>j, JobMoves DEF SweepLease, TypeOK, ThreadsOK
    <2>2. budget' \in [Kind -> Nat]
      BY Zenon, <1>3, <1>j, SpendOK DEF SweepLease, Kind
    <2>3. row' \in [Chunk -> Row]
      BY Zenon, <1>3, <1>j, LeaseOK DEF SweepLease
    <2> QED BY Zenon, <1>3, <2>1, <2>2, <2>3 DEF SweepLease, TypeOK, LedgerOK, TasksOK
  <1>4. CASE SweepEnqueue(t)
    <2>1. ThreadsOK'
      BY Zenon, <1>4, <1>j, JobMoves DEF SweepEnqueue, TypeOK, ThreadsOK
    <2>2. budget' \in [Kind -> Nat]
      BY Zenon, <1>4, <1>j, SpendOK DEF SweepEnqueue, Kind
    <2>3. tasks' \in [queued : Nat, processing : Nat, cancelling : Nat]
      BY <1>4 DEF SweepEnqueue, TypeOK, TasksOK
    <2> QED BY Zenon, <1>4, <2>1, <2>2, <2>3 DEF SweepEnqueue, TypeOK, LedgerOK, TasksOK
  <1>5. CASE SweepUnlease(t)
    <2>1. ThreadsOK'
      BY Zenon, <1>5, <1>j, JobMoves DEF SweepUnlease, TypeOK, ThreadsOK
    <2>2. budget' \in [Kind -> Nat]
      BY Zenon, <1>5, <1>j, SpendOK DEF SweepUnlease, Kind
    <2>3. row' \in [Chunk -> Row]
      BY Zenon, <1>5, <1>j, LeaseOK DEF SweepUnlease
    <2> QED BY Zenon, <1>5, <2>1, <2>2, <2>3 DEF SweepUnlease, TypeOK, LedgerOK, TasksOK
  <1>6. CASE ReconcileExcludedContextualLabels(t)
    <2>1. ThreadsOK'
      BY Zenon, <1>6, <1>j, JobMoves DEF ReconcileExcludedContextualLabels, TypeOK, ThreadsOK
    <2>2. art' \in [Chunk -> Artifacts]
      BY Zenon, <1>6 DEF ReconcileExcludedContextualLabels, TypeOK, Artifacts
    <2> QED BY Zenon, <1>6, <2>1, <2>2
            DEF ReconcileExcludedContextualLabels, TypeOK, LedgerOK, TasksOK
  <1>7. CASE AuditArtifacts(t)
    <2>1. HypeSourceChildIds \subseteq Chunk /\ Labelled \subseteq Chunk
      BY Zenon DEF HypeSourceChildIds, Labelled
    <2>2. job' \in [Thread -> Job]
      <3> DEFINE j == [job[t] EXCEPT !.pc = "tracked", !.hypes = HypeSourceChildIds,
                                     !.labels = Labelled]
      <3>1. j \in Job
        BY Zenon, <1>j, <2>1 DEF Job
      <3>2. job' = [job EXCEPT ![t] = j]
        BY Zenon, <1>7 DEF AuditArtifacts
      <3> HIDE DEF j
      <3> QED BY Zenon, <1>j, <3>1, <3>2
    <2> QED BY Zenon, <1>7, <2>2 DEF AuditArtifacts, TypeOK, LedgerOK, TasksOK, ThreadsOK
  <1>8. CASE AuditTracked(t)
    <2> DEFINE f == {c \in Chunk : row[c].status = "pending"}
               g == {c \in Chunk : row[c].status = "failed"}
    <2>1. f \subseteq Chunk /\ g \subseteq Chunk
      BY Zenon
    <2> DEFINE j == [job[t] EXCEPT !.pc = "rows", !.inFlight = f, !.givenUp = g]
    <2>2. job' = [job EXCEPT ![t] = j]
      BY Zenon, <1>8 DEF AuditTracked
    <2> HIDE DEF f, g
    <2>4. j \in Job
      BY Zenon, <1>j, <2>1 DEF Job
    <2> HIDE DEF j
    <2>3. job' \in [Thread -> Job]
      BY Zenon, <1>j, <2>2, <2>4
    <2> QED BY Zenon, <1>8, <2>3 DEF AuditTracked, TypeOK, LedgerOK, TasksOK, ThreadsOK
  <1>9. CASE AuditRows(t)
    <2>1. ASSUME NEW c \in Chunk PROVE AuditRow(job[t], c) \in Row
      <3> DEFINE owed == Missing(c, job[t].labels, job[t].hypes)
      <3>1. owed \in SUBSET Member /\ row[c] \in Row
        BY Zenon, <1>j DEF Missing, TypeOK
      <3>2. NoTerminal \in Nat /\ MaxAttempts \in Nat
        BY DEF NoTerminal
      <3>3. /\ SettleTerminalRow(row[c]) \in Row
            /\ ReoweEnrichState(row[c], owed, NoTerminal) \in Row
            /\ ReoweEnrichState(row[c], owed, MaxAttempts) \in Row
        BY Zenon, <3>1, <3>2, RowWrites
      <3> QED BY Zenon, <3>1, <3>3 DEF AuditRow
    <2>2. row' \in [Chunk -> Row]
      BY <1>9, <1>j, <2>1 DEF AuditRows
    <2>3. job' \in [Thread -> Job]
      BY Zenon, <1>9, <1>j DEF AuditRows, NoJob, Job
    <2>4. budget' \in [Kind -> Nat]
      BY Zenon, <1>9, <1>j, SpendOK DEF AuditRows, Kind
    <2> QED BY Zenon, <1>9, <2>2, <2>3, <2>4
            DEF AuditRows, TypeOK, LedgerOK, TasksOK, ThreadsOK
  <1>10. CASE ResetGivenUpEnrichRows(t)
    <2> DEFINE moved == IF job[t].reset THEN {c \in live : row[c].status = "failed"} ELSE {}
    <2>1. /\ row' = [c \in Chunk |->
                       IF c \notin moved THEN row[c]
                       ELSE [row[c] EXCEPT !.status = "pending", !.attempts = 0,
                                           !.due = TRUE, !.gen = @ + 1]]
          /\ charged' = [c \in Chunk |-> IF c \in moved THEN 0 ELSE charged[c]]
          /\ calls' = [c \in Chunk |-> IF c \in moved THEN 0 ELSE calls[c]]
          /\ d' = [d EXCEPT !.fresh = @ \ moved]
      BY Zenon, <1>10 DEF ResetGivenUpEnrichRows
    <2> HIDE DEF moved
    <2>2. ASSUME NEW c \in Chunk
          PROVE  [row[c] EXCEPT !.status = "pending", !.attempts = 0,
                                !.due = TRUE, !.gen = @ + 1] \in Row
      <3> DEFINE g == row[c].gen + 1
      <3>1. g \in Nat /\ row[c] \in Row
        BY <1>j DEF Row
      <3> HIDE DEF g
      <3>2. [row[c] EXCEPT !.status = "pending", !.attempts = 0, !.due = TRUE, !.gen = g] \in Row
        BY Zenon, <3>1 DEF Row
      <3> QED BY Zenon, <3>2 DEF g
    <2>3. row' \in [Chunk -> Row]
      BY Zenon, <1>j, <2>1, <2>2
    <2>4. d' \in Delivery /\ d'.pc = d.pc /\ d'.cur = d.cur
      BY Zenon, <2>1 DEF TypeOK, ThreadsOK, Delivery
    <2>5. job' \in [Thread -> Job]
      BY Zenon, <1>10, <1>j, JobMoves DEF ResetGivenUpEnrichRows
    <2>6. charged' \in [Chunk -> Nat] /\ calls' \in [Chunk -> Nat]
      BY Zenon, <2>1 DEF TypeOK, LedgerOK
    <2> QED BY Zenon, <1>10, <2>3, <2>4, <2>5, <2>6
            DEF ResetGivenUpEnrichRows, TypeOK, LedgerOK, TasksOK, ThreadsOK
  <1>11. CASE MakeAllPendingDueNow(t)
    <2>1. row' \in [Chunk -> Row]
      BY Zenon, <1>11, <1>j, LeaseOK DEF MakeAllPendingDueNow
    <2>2. job' \in [Thread -> Job]
      BY Zenon, <1>11, <1>j DEF MakeAllPendingDueNow, NoJob, Job
    <2> QED BY Zenon, <1>11, <2>1, <2>2
            DEF MakeAllPendingDueNow, TypeOK, LedgerOK, TasksOK, ThreadsOK
  <1> QED BY Zenon, <1>1, <1>2, <1>3, <1>4, <1>5, <1>6, <1>7, <1>8, <1>9, <1>10, <1>11
          DEF Serve, Sweep

LEMMA TypeStep == TypeOK /\ [Next]_vars => TypeOK'
  <1> SUFFICES ASSUME TypeOK, [Next]_vars PROVE TypeOK' BY Zenon
  <1> USE EnrichAssumption, ConfigsAssumption, Empties
  <1>b. budget \in [Kind -> Nat]
    BY Zenon DEF TypeOK, TasksOK
  <1>1. CASE Worker
    BY Zenon, <1>1, WorkerType
  <1>2. CASE HandlerThrows
    BY Zenon, <1>2, <1>b, LeaveTaskType, SpendOK
       DEF HandlerThrows, TypeOK, LedgerOK, TasksOK, ThreadsOK, Kind
  <1>3. ASSUME NEW t \in Thread, Serve(t) PROVE TypeOK'
    BY Zenon, <1>3, ServeType
  <1>4. ASSUME NEW t \in Caller, Request(t) PROVE TypeOK'
    <2>1. t \in Thread
      BY Zenon DEF Thread
    <2>2. job' \in [Thread -> Job]
      <3>1. PICK audit \in BOOLEAN, reset \in BOOLEAN :
               job' = [job EXCEPT ![t] = [NoJob EXCEPT
                          !.pc = IF audit THEN "reconcile" ELSE "reset", !.reset = reset]]
        BY Zenon, <1>4 DEF Request
      <3> DEFINE j == [NoJob EXCEPT !.pc = IF audit THEN "reconcile" ELSE "reset",
                                    !.reset = reset]
      <3>2. j \in Job
        BY Zenon DEF NoJob, Job
      <3> HIDE DEF j
      <3> QED BY Zenon, <2>1, <3>1, <3>2 DEF j, TypeOK, ThreadsOK
    <2>3. budget' \in [Kind -> Nat]
      BY Zenon, <1>4, <1>b, SpendOK DEF Request, Kind
    <2> QED BY Zenon, <1>4, <2>2, <2>3 DEF Request, TypeOK, LedgerOK, TasksOK, ThreadsOK
  <1>5. ASSUME NEW t \in Caller, RequestFails(t) PROVE TypeOK'
    <2>1. budget' \in [Kind -> Nat]
      BY Zenon, <1>5, <1>b, SpendOK DEF RequestFails, Kind
    <2> QED BY Zenon, <1>5, <2>1 DEF RequestFails, TypeOK, LedgerOK, TasksOK, ThreadsOK
  <1>6. CASE Elapse
    <2>1. row' \in [Chunk -> Row]
      <3>1. PICK c \in Chunk : row' = [row EXCEPT ![c].due = TRUE]
        BY Zenon, <1>6 DEF Elapse
      <3>2. [row[c] EXCEPT !.due = TRUE] \in Row
        BY Zenon DEF TypeOK, LedgerOK, Row
      <3> QED BY Zenon, <3>1, <3>2 DEF TypeOK, LedgerOK
    <2> QED BY Zenon, <1>6, <2>1 DEF Elapse, TypeOK, LedgerOK, TasksOK, ThreadsOK
  <1>7. CASE WindowPasses
    BY Zenon, <1>7 DEF WindowPasses, TypeOK, LedgerOK, TasksOK, ThreadsOK
  <1>8. ASSUME NEW h \in {"ended", "cancelling"}, d' = [d EXCEPT !.held = h]
        PROVE  d' \in Delivery /\ d'.pc = d.pc /\ d'.cur = d.cur
    <2>1. d \in Delivery
      BY Zenon DEF TypeOK, ThreadsOK
    <2> QED BY Zenon, <1>8, <2>1 DEF Delivery
  <1>9. CASE CronSweep
    <2>1. tasks' \in [queued : Nat, processing : Nat, cancelling : Nat]
      BY <1>9 DEF CronSweep, TypeOK, TasksOK
    <2>2. budget' \in [Kind -> Nat]
      BY Zenon, <1>9, <1>b, SpendOK DEF CronSweep, Kind
    <2>3. ThreadsOK'
      BY Zenon, <1>9, <1>8 DEF CronSweep, TypeOK, ThreadsOK
    <2> QED BY Zenon, <1>9, <2>1, <2>2, <2>3 DEF CronSweep, TypeOK, LedgerOK, TasksOK
  <1>10. CASE RequestCancel
    <2>1. tasks' \in [queued : Nat, processing : Nat, cancelling : Nat]
      <3>1. CASE tasks.queued > 0 /\ tasks' = [tasks EXCEPT !.queued = @ - 1]
        BY <3>1 DEF TypeOK, TasksOK
      <3>2. CASE /\ tasks.processing > 0
                 /\ tasks' = [tasks EXCEPT !.processing = @ - 1, !.cancelling = @ + 1]
        <4> DEFINE p == tasks.processing - 1
                   q == tasks.cancelling + 1
        <4>1. p \in Nat /\ q \in Nat
          BY <3>2 DEF TypeOK, TasksOK
        <4>2. tasks' = [tasks EXCEPT !.processing = p, !.cancelling = q]
          BY Zenon, <3>2 DEF TypeOK, TasksOK
        <4> HIDE DEF p, q
        <4> QED BY Zenon, <4>1, <4>2 DEF TypeOK, TasksOK
      <3>3. CASE UNCHANGED tasks
        BY Zenon, <3>3 DEF TypeOK, TasksOK
      <3> QED BY Zenon, <1>10, <3>1, <3>2, <3>3 DEF RequestCancel
    <2>2. budget' \in [Kind -> Nat]
      BY Zenon, <1>10, <1>b, SpendOK DEF RequestCancel, Kind
    <2>3. ThreadsOK'
      BY Zenon, <1>10, <1>8 DEF RequestCancel, TypeOK, ThreadsOK
    <2> QED BY Zenon, <1>10, <2>1, <2>2, <2>3 DEF RequestCancel, TypeOK, LedgerOK, TasksOK
  <1>11. CASE Crash
    <2>1. tasks' \in [queued : Nat, processing : Nat, cancelling : Nat]
      BY <1>11 DEF Crash, TypeOK, TasksOK
    <2>2. budget' \in [Kind -> Nat]
      BY Zenon, <1>11, <1>b, SpendOK DEF Crash, Kind
    <2> QED BY Zenon, <1>11, <2>1, <2>2 DEF Crash, TypeOK, LedgerOK, TasksOK, ThreadsOK
  <1>12. CASE HardDelete
    <2>1. art' \in [Chunk -> Artifacts]
      BY Zenon, <1>12 DEF HardDelete, NoArt, TypeOK, Artifacts
    <2>2. budget' \in [Kind -> Nat]
      BY Zenon, <1>12, <1>b, SpendOK DEF HardDelete, Kind
    <2> QED BY Zenon, <1>12, <2>1, <2>2 DEF HardDelete, TypeOK, LedgerOK, TasksOK, ThreadsOK
  <1>13. CASE UNCHANGED vars
    BY Zenon, <1>13 DEF vars, TypeOK, LedgerOK, TasksOK, ThreadsOK
  <1> QED BY <1>1, <1>2, <1>3, <1>4, <1>5, <1>6, <1>7, <1>9, <1>10, <1>11, <1>12, <1>13
          DEF Next

(* The ledger, the task rows, the delivery and the requests keep their types. *)
THEOREM TypeCorrect == Spec => []TypeOK
  <1>1. Init => TypeOK BY Zenon, InitType
  <1>2. TypeOK /\ [Next]_vars => TypeOK' BY TypeStep
  <1> QED BY <1>1, <1>2, PTL DEF Spec

-----------------------------------------------------------------------------
(* ONE ACTIVE TASK.  Only SweepEnqueue creates a task; between the dedup    *)
(* lookup and the Enqueue a sweep holds sweep_mu_, and everything else only *)
(* moves a task row between statuses or ends it.                            *)

Active == tasks.queued + tasks.processing + tasks.cancelling
              + (IF d.held = "ended" THEN 0 ELSE 1)

Sweeping == {"check", "lease", "enqueue", "unlease"}

SweepExclusive == \A t \in Thread : job[t].pc \in Sweeping => mu = t

LookedUp == \A t \in Thread : job[t].pc \in {"lease", "enqueue"} => Active = 0

ActiveInv == OneActiveTask /\ SweepExclusive /\ LookedUp

(* The steps of a delivery that keep its task row. *)
LEMMA HeldKept ==
    ASSUME TypeOK,
           \/ Read \/ Settle \/ ChargeProvider \/ ChargeLabelOnly \/ RunChain \/ Insert
           \/ WriteScore \/ WriteColumns \/ WriteLabel \/ Commit \/ Flip
    PROVE  d'.held = d.held /\ UNCHANGED <<tasks, job, mu>>
  <1> USE DEF TypeOK, ThreadsOK, Delivery
  <1>1. CASE Read
    BY Zenon, <1>1 DEF Read, StoreFails, Classify
  <1>2. CASE Settle \/ Flip \/ Commit
    BY Zenon, <1>2 DEF Settle, Flip, Commit
  <1>3. CASE ChargeProvider \/ ChargeLabelOnly
    BY Zenon, <1>3 DEF ChargeProvider, ChargeLabelOnly, StoreFails
  <1>4. CASE RunChain
    BY Zenon, <1>4 DEF RunChain
  <1>5. CASE Insert
    BY ZenonT(30), <1>5 DEF Insert, StoreFails
  <1>6. CASE WriteScore
    BY ZenonT(30), <1>6 DEF WriteScore, Write
  <1>7. CASE WriteColumns \/ WriteLabel
    BY Zenon, <1>7 DEF WriteColumns, WriteLabel, Write
  <1> QED BY Zenon, <1>1, <1>2, <1>3, <1>4, <1>5, <1>6, <1>7

(* A worker that leaves its task row neither adds nor loses one. *)
LEMMA LeaveTaskActive ==
    ASSUME TypeOK, LeaveTask
    PROVE  Active' = Active
  <1>1. DOMAIN tasks = {"queued", "processing", "cancelling"}
    BY Zenon DEF TypeOK, TasksOK
  <1>2. /\ tasks'.queued = tasks.queued
        /\ tasks'.processing = IF d.held = "processing" THEN tasks.processing + 1
                                                        ELSE tasks.processing
        /\ tasks'.cancelling = IF d.held = "cancelling" THEN tasks.cancelling + 1
                                                        ELSE tasks.cancelling
    BY Zenon, <1>1, DeliveryFields DEF LeaveTask, TypeOK, ThreadsOK
  <1>3. d'.held = "ended"
    BY Zenon, Empties DEF LeaveTask
  <1>4. d.held \in {"processing", "cancelling", "ended"}
    BY Zenon, DeliveryFields DEF TypeOK, ThreadsOK
  <1> QED BY <1>2, <1>3, <1>4 DEF Active, TypeOK, TasksOK

(* No step but SweepEnqueue raises the number of active tasks. *)
LEMMA NoNewTask ==
    ASSUME TypeOK, [Next]_vars, \A t \in Thread : ~ SweepEnqueue(t)
    PROVE  Active' <= Active
  <1>h. d.held \in {"processing", "cancelling", "ended"}
    BY Zenon, DeliveryFields DEF TypeOK, ThreadsOK
  <1>t. tasks.queued \in Nat /\ tasks.processing \in Nat /\ tasks.cancelling \in Nat
    BY Zenon DEF TypeOK, TasksOK
  <1>0. ASSUME UNCHANGED tasks, d'.held = d.held PROVE Active' <= Active
    BY <1>0, <1>t DEF Active
  <1>1. CASE Dequeue
    <2>1. d'.held = "processing"
      BY Zenon, <1>1 DEF Dequeue, NoDelivery
    <2>2. /\ tasks.queued > 0 /\ tasks'.queued = tasks.queued - 1
          /\ tasks'.processing = tasks.processing /\ tasks'.cancelling = tasks.cancelling
      BY Zenon, <1>1 DEF Dequeue, TypeOK, TasksOK
    <2> QED BY <1>t, <2>1, <2>2 DEF Active
  <1>2. CASE Finish
    <2>1. CASE LeaveTask BY <2>1, <1>t, LeaveTaskActive DEF Active
    <2>2. CASE d' = NoDelivery /\ UNCHANGED <<tasks, budget>>
      BY <2>2, <1>t, Empties DEF Active
    <2> QED BY Zenon, <1>2, <2>1, <2>2 DEF Finish
  <1>3. CASE Worker /\ ~ Dequeue /\ ~ Finish
    BY Zenon, <1>0, <1>3, HeldKept DEF Worker
  <1>4. CASE HandlerThrows
    BY <1>4, <1>t, LeaveTaskActive DEF HandlerThrows, Active
  <1>5. ASSUME NEW t \in Thread, Serve(t) PROVE Active' <= Active
    <2>1. CASE ResetGivenUpEnrichRows(t)
      <3>1. d'.held = d.held /\ UNCHANGED tasks
        BY Zenon, <2>1 DEF ResetGivenUpEnrichRows, TypeOK, ThreadsOK, Delivery
      <3> QED BY Zenon, <1>0, <3>1
    <2>2. CASE ~ ResetGivenUpEnrichRows(t)
      <3>1. UNCHANGED <<tasks, d>>
        BY Zenon, <1>5, <2>2 DEF Serve, Sweep, SweepBegin, SweepCheck, SweepLease, SweepUnlease,
              ReconcileExcludedContextualLabels, AuditArtifacts, AuditTracked, AuditRows,
              MakeAllPendingDueNow
      <3> QED BY Zenon, <1>0, <3>1
    <2> QED BY Zenon, <2>1, <2>2
  <1>6. ASSUME NEW t \in Caller, Request(t) \/ RequestFails(t) PROVE Active' <= Active
    BY Zenon, <1>0, <1>6 DEF Request, RequestFails
  <1>7. CASE Elapse \/ WindowPasses \/ HardDelete
    BY Zenon, <1>0, <1>7 DEF Elapse, WindowPasses, HardDelete
  <1>8. CASE CronSweep
    <2>1. CASE tasks' = [tasks EXCEPT !.processing = 0] /\ UNCHANGED d
      BY <2>1, <1>t DEF Active, TypeOK, TasksOK
    <2>2. CASE d' = [d EXCEPT !.held = "ended"] /\ UNCHANGED tasks
      <3>1. d'.held = "ended"
        BY Zenon, <2>2 DEF TypeOK, ThreadsOK, Delivery
      <3> QED BY <2>2, <3>1, <1>t DEF Active
    <2> QED BY Zenon, <1>8, <2>1, <2>2 DEF CronSweep
  <1>9. CASE RequestCancel
    <2>1. CASE tasks.queued > 0 /\ tasks' = [tasks EXCEPT !.queued = @ - 1] /\ UNCHANGED d
      BY <2>1, <1>t DEF Active, TypeOK, TasksOK
    <2>2. CASE /\ tasks' = [tasks EXCEPT !.processing = @ - 1, !.cancelling = @ + 1]
               /\ UNCHANGED d
      <3>1. /\ tasks'.queued = tasks.queued /\ tasks'.processing = tasks.processing - 1
            /\ tasks'.cancelling = tasks.cancelling + 1
        BY Zenon, <2>2 DEF TypeOK, TasksOK
      <3> QED BY <2>2, <3>1, <1>t DEF Active
    <2>3. CASE /\ d.held = "processing" /\ d' = [d EXCEPT !.held = "cancelling"]
               /\ UNCHANGED tasks
      <3>1. d'.held = "cancelling"
        BY Zenon, <2>3 DEF TypeOK, ThreadsOK, Delivery
      <3> QED BY <2>3, <3>1, <1>t DEF Active
    <2> QED BY Zenon, <1>9, <2>1, <2>2, <2>3 DEF RequestCancel
  <1>10. CASE Crash
    <2> DEFINE held(s) == IF d.held = s THEN 1 ELSE 0
               n       == tasks.processing + held("processing")
    <2>1. PICK again \in 0..n :
             tasks' = [queued     |-> tasks.queued + again,
                       processing |-> n - again,
                       cancelling |-> tasks.cancelling + held("cancelling")]
      BY Zenon, <1>10 DEF Crash
    <2>2. d'.held = "ended"
      BY Zenon, <1>10, Empties DEF Crash
    <2> QED BY <1>h, <1>t, <2>1, <2>2 DEF Active
  <1>11. CASE UNCHANGED vars
    BY Zenon, <1>0, <1>11 DEF vars
  <1> QED BY Zenon, <1>1, <1>2, <1>3, <1>4, <1>5, <1>6, <1>7, <1>8, <1>9, <1>10, <1>11
          DEF Next

(* What a step does to the threads and to sweep_mu_.                        *)
LEMMA SweepStep ==
    ASSUME TypeOK, SweepExclusive, [Next]_vars
    PROVE  SweepExclusive'
  <1> USE EnrichAssumption, Empties
  <1>j. job \in [Thread -> Job] /\ mu \in Thread \cup {None}
    BY Zenon DEF TypeOK, ThreadsOK
  <1>n. None \notin Thread
    BY Zenon DEF Thread
  <1>0. ASSUME UNCHANGED <<job, mu>> PROVE SweepExclusive'
    BY Zenon, <1>0 DEF SweepExclusive
  <1>1. ASSUME NEW t \in Thread, NEW j, job' = [job EXCEPT ![t] = j],
               j.pc \notin Sweeping, UNCHANGED mu
        PROVE  SweepExclusive'
    BY Zenon, <1>1, <1>j DEF SweepExclusive
  <1>2. ASSUME NEW t \in Thread, job[t].pc \in Sweeping \/ mu = None, SweepDone(t)
        PROVE  SweepExclusive'
    <2>1. \A u \in Thread \ {t} : job[u].pc \notin Sweeping
      BY Zenon, <1>2, <1>n DEF SweepExclusive
    <2>2. \A u \in Thread : job'[u].pc \notin Sweeping
      BY Zenon, <1>2, <1>j, <2>1 DEF SweepDone, Sweeping
    <2> QED BY Zenon, <2>2 DEF SweepExclusive
  <1>3. ASSUME NEW t \in Thread, NEW pc, job[t].pc \in Sweeping, Goto(t, pc), UNCHANGED mu
        PROVE  SweepExclusive'
    <2>1. \A u \in Thread \ {t} : job'[u] = job[u]
      BY Zenon, <1>3, <1>j DEF Goto
    <2> QED BY Zenon, <1>3, <2>1 DEF SweepExclusive
  <1>4. CASE Worker \/ HandlerThrows
    <2>1. UNCHANGED <<job, mu>>
      BY Zenon, <1>4, HeldKept DEF Worker, HandlerThrows, Dequeue, Finish
    <2> QED BY Zenon, <1>0, <2>1
  <1>5. ASSUME NEW t \in Thread, Serve(t) PROVE SweepExclusive'
    <2>1. CASE SweepBegin(t)
      <3>1. CASE SweepDone(t)
        BY Zenon, <1>2, <2>1, <3>1 DEF SweepBegin
      <3>2. CASE Goto(t, "check") /\ mu' = t
        <4>1. \A u \in Thread : job[u].pc \notin Sweeping
          BY Zenon, <2>1, <1>n DEF SweepBegin, SweepExclusive
        <4>2. \A u \in Thread \ {t} : job'[u] = job[u]
          BY Zenon, <3>2, <1>j DEF Goto
        <4> QED BY Zenon, <3>2, <4>1, <4>2 DEF SweepExclusive
      <3> QED BY Zenon, <2>1, <3>1, <3>2 DEF SweepBegin
    <2>2. CASE SweepCheck(t)
      BY Zenon, <1>2, <1>3, <2>2 DEF SweepCheck, Sweeping
    <2>3. CASE SweepLease(t)
      BY Zenon, <1>2, <1>3, <2>3 DEF SweepLease, Sweeping
    <2>4. CASE SweepEnqueue(t)
      BY Zenon, <1>2, <1>3, <2>4 DEF SweepEnqueue, Sweeping
    <2>5. CASE SweepUnlease(t)
      BY Zenon, <1>2, <2>5 DEF SweepUnlease, Sweeping
    <2>6. CASE ReconcileExcludedContextualLabels(t)
      <3> DEFINE j == [job[t] EXCEPT !.pc = "artifacts"]
      <3>1. j.pc = "artifacts" /\ job' = [job EXCEPT ![t] = j]
        BY Zenon, <2>6, <1>j DEF ReconcileExcludedContextualLabels, Goto, Job
      <3> HIDE DEF j
      <3> QED BY Zenon, <1>1, <2>6, <3>1 DEF ReconcileExcludedContextualLabels, Sweeping
    <2>7. CASE AuditArtifacts(t)
      <3> DEFINE j == [job[t] EXCEPT !.pc = "tracked", !.hypes = HypeSourceChildIds,
                                     !.labels = Labelled]
      <3>1. j.pc = "tracked" /\ job' = [job EXCEPT ![t] = j]
        BY Zenon, <2>7, <1>j DEF AuditArtifacts, Job
      <3> HIDE DEF j
      <3> QED BY Zenon, <1>1, <2>7, <3>1 DEF AuditArtifacts, Sweeping
    <2>8. CASE AuditTracked(t)
      <3> DEFINE j == [job[t] EXCEPT !.pc = "rows",
                          !.inFlight = {c \in Chunk : row[c].status = "pending"},
                          !.givenUp  = {c \in Chunk : row[c].status = "failed"}]
      <3>1. j.pc = "rows" /\ job' = [job EXCEPT ![t] = j]
        BY Zenon, <2>8, <1>j DEF AuditTracked, Job
      <3> HIDE DEF j
      <3> QED BY Zenon, <1>1, <2>8, <3>1 DEF AuditTracked, Sweeping
    <2>9. CASE AuditRows(t)
      <3> DEFINE j == [NoJob EXCEPT !.pc = "reset", !.reset = job[t].reset]
      <3>1. j.pc = "reset" /\ job' = [job EXCEPT ![t] = j]
        BY Zenon, <2>9 DEF AuditRows, NoJob
      <3> HIDE DEF j
      <3> QED BY Zenon, <1>1, <2>9, <3>1 DEF AuditRows, Sweeping
    <2>10. CASE ResetGivenUpEnrichRows(t)
      <3> DEFINE j == [job[t] EXCEPT !.pc = "due"]
      <3>1. j.pc = "due" /\ job' = [job EXCEPT ![t] = j]
        BY Zenon, <2>10, <1>j DEF ResetGivenUpEnrichRows, Goto, Job
      <3> HIDE DEF j
      <3> QED BY Zenon, <1>1, <2>10, <3>1 DEF ResetGivenUpEnrichRows, Sweeping
    <2>11. CASE MakeAllPendingDueNow(t)
      <3> DEFINE j == [NoJob EXCEPT !.pc = "sweep"]
      <3>1. j.pc = "sweep" /\ job' = [job EXCEPT ![t] = j]
        BY Zenon, <2>11 DEF MakeAllPendingDueNow, NoJob
      <3> HIDE DEF j
      <3> QED BY Zenon, <1>1, <2>11, <3>1 DEF MakeAllPendingDueNow, Sweeping
    <2> QED BY Zenon, <1>5, <2>1, <2>2, <2>3, <2>4, <2>5, <2>6, <2>7, <2>8, <2>9, <2>10, <2>11
            DEF Serve, Sweep
  <1>6. ASSUME NEW t \in Caller, Request(t) PROVE SweepExclusive'
    <2>2. t \in Thread
      BY Zenon DEF Thread
    <2>1. PICK audit \in BOOLEAN, reset \in BOOLEAN :
             job' = [job EXCEPT ![t] = [NoJob EXCEPT
                        !.pc = IF audit THEN "reconcile" ELSE "reset", !.reset = reset]]
      BY Zenon, <1>6 DEF Request
    <2> DEFINE j == [NoJob EXCEPT !.pc = IF audit THEN "reconcile" ELSE "reset",
                                  !.reset = reset]
    <2>3. j.pc \in {"reconcile", "reset"} /\ job' = [job EXCEPT ![t] = j]
      BY Zenon, <2>1 DEF NoJob
    <2> HIDE DEF j
    <2> QED BY Zenon, <1>1, <1>6, <2>2, <2>3 DEF Request, Sweeping
  <1>7. ASSUME NEW t \in Caller, RequestFails(t) PROVE SweepExclusive'
    BY Zenon, <1>1, <1>7 DEF RequestFails, Sweeping, Thread
  <1>8. CASE Elapse \/ WindowPasses \/ CronSweep \/ RequestCancel \/ HardDelete
    BY Zenon, <1>0, <1>8 DEF Elapse, WindowPasses, CronSweep, RequestCancel, HardDelete
  <1>9. CASE Crash
    BY Zenon, <1>9 DEF Crash, SweepExclusive, Sweeping
  <1>10. CASE UNCHANGED vars
    BY Zenon, <1>0, <1>10 DEF vars
  <1> QED BY Zenon, <1>4, <1>5, <1>6, <1>7, <1>8, <1>9, <1>10 DEF Next

(* A thread that is past the dedup lookup got there by that lookup.         *)
LEMMA PastLookup ==
    ASSUME TypeOK, [Next]_vars, NEW u \in Thread,
           job'[u].pc \in {"lease", "enqueue"}
    PROVE  job[u].pc \in {"lease", "enqueue"} \/ ~ HasActiveTask
  <1> USE EnrichAssumption, Empties
  <1>j. job \in [Thread -> Job]
    BY Zenon DEF TypeOK, ThreadsOK
  <1>0. ASSUME UNCHANGED job PROVE job[u].pc \in {"lease", "enqueue"}
    BY Zenon, <1>0
  <1>1. CASE Worker \/ HandlerThrows
    BY Zenon, <1>0, <1>1, HeldKept DEF Worker, HandlerThrows, Dequeue, Finish
  <1>2. ASSUME NEW t \in Thread, Serve(t)
        PROVE  job[u].pc \in {"lease", "enqueue"} \/ ~ HasActiveTask
    <2>1. CASE u # t
      <3>1. job'[u] = job[u]
        BY Zenon, <1>2, <1>j, <2>1 DEF Serve, Sweep, SweepBegin, SweepCheck, SweepLease,
              SweepEnqueue, SweepUnlease, ReconcileExcludedContextualLabels,
              AuditArtifacts, AuditTracked, AuditRows, ResetGivenUpEnrichRows,
              MakeAllPendingDueNow, Goto, SweepDone
      <3> QED BY Zenon, <3>1
    <2>2. CASE u = t
      <3>g. ASSUME NEW pc, Goto(t, pc) PROVE job'[t].pc = pc
        BY <1>j, <3>g DEF Goto, Job
      <3>d. SweepDone(t) => job'[t].pc = "idle"
        BY Zenon, <1>j DEF SweepDone
      <3>1. CASE SweepBegin(t) \/ SweepUnlease(t)
        BY Zenon, <2>2, <3>g, <3>d, <3>1 DEF SweepBegin, SweepUnlease
      <3>2. CASE SweepCheck(t)
        BY Zenon, <2>2, <3>d, <3>2 DEF SweepCheck
      <3>3. CASE SweepLease(t) \/ SweepEnqueue(t)
        BY Zenon, <2>2, <3>3 DEF SweepLease, SweepEnqueue
      <3>4. CASE ReconcileExcludedContextualLabels(t) \/ ResetGivenUpEnrichRows(t)
        BY Zenon, <2>2, <3>g, <3>4
           DEF ReconcileExcludedContextualLabels, ResetGivenUpEnrichRows
      <3>5. CASE AuditArtifacts(t)
        BY <1>j, <2>2, <3>5 DEF AuditArtifacts, Job
      <3>6. CASE AuditTracked(t)
        BY Zenon, <1>j, <2>2, <3>6 DEF AuditTracked, Job
      <3>7. CASE AuditRows(t) \/ MakeAllPendingDueNow(t)
        BY ZenonT(30), <1>j, <2>2, <3>7 DEF AuditRows, MakeAllPendingDueNow, NoJob
      <3> QED BY Zenon, <1>2, <3>1, <3>2, <3>3, <3>4, <3>5, <3>6, <3>7 DEF Serve, Sweep
    <2> QED BY Zenon, <2>1, <2>2
  <1>3. ASSUME NEW t \in Caller, Request(t) \/ RequestFails(t)
        PROVE  job[u].pc \in {"lease", "enqueue"}
    <2>1. CASE u # t
      BY Zenon, <1>3, <1>j, <2>1 DEF Request, RequestFails
    <2>2. CASE u = t
      <3>1. CASE RequestFails(t)
        BY Zenon, <1>j, <2>2, <3>1 DEF RequestFails
      <3>2. CASE Request(t)
        <4>1. PICK audit \in BOOLEAN, reset \in BOOLEAN :
                 job' = [job EXCEPT ![t] = [NoJob EXCEPT
                            !.pc = IF audit THEN "reconcile" ELSE "reset", !.reset = reset]]
          BY Zenon, <3>2 DEF Request
        <4>2. job'[t].pc \in {"reconcile", "reset"}
          BY Zenon, <1>j, <2>2, <4>1 DEF NoJob
        <4> QED BY Zenon, <2>2, <4>2
      <3> QED BY Zenon, <1>3, <3>1, <3>2
    <2> QED BY Zenon, <2>1, <2>2
  <1>4. CASE Elapse \/ WindowPasses \/ CronSweep \/ RequestCancel \/ HardDelete
    BY Zenon, <1>0, <1>4 DEF Elapse, WindowPasses, CronSweep, RequestCancel, HardDelete
  <1>5. CASE Crash
    BY Zenon, <1>5 DEF Crash
  <1>6. CASE UNCHANGED vars
    BY Zenon, <1>0, <1>6 DEF vars
  <1> QED BY Zenon, <1>1, <1>2, <1>3, <1>4, <1>5, <1>6 DEF Next

LEMMA ActiveStep ==
    ASSUME TypeOK, ActiveInv, [Next]_vars
    PROVE  ActiveInv'
  <1> USE EnrichAssumption
  <1>t. /\ tasks.queued \in Nat /\ tasks.processing \in Nat /\ tasks.cancelling \in Nat
        /\ job \in [Thread -> Job]
    BY Zenon DEF TypeOK, TasksOK, ThreadsOK
  <1>u. tasks'.queued \in Nat /\ tasks'.processing \in Nat /\ tasks'.cancelling \in Nat
    BY Zenon, TypeStep DEF TypeOK, TasksOK
  <1>1. SweepExclusive'
    BY Zenon, SweepStep DEF ActiveInv
  <1>2. CASE \A t \in Thread : ~ SweepEnqueue(t)
    <2>1. Active' <= Active
      BY Zenon, <1>2, NoNewTask
    <2>2. OneActiveTask'
      BY <2>1, <1>t, <1>u DEF ActiveInv, OneActiveTask, Active
    <2>3. ASSUME NEW u \in Thread, job'[u].pc \in {"lease", "enqueue"} PROVE Active = 0
      BY <2>3, <1>t, PastLookup DEF ActiveInv, LookedUp, HasActiveTask, Active
    <2>4. LookedUp'
      <3> SUFFICES ASSUME NEW u \in Thread, job'[u].pc \in {"lease", "enqueue"}
                   PROVE  Active' = 0
        BY Zenon DEF LookedUp
      <3>1. Active' \in Nat
        BY <1>u DEF Active
      <3> QED BY <2>1, <2>3, <3>1
    <2> QED BY Zenon, <1>1, <2>2, <2>4 DEF ActiveInv
  <1>3. ASSUME NEW t \in Thread, SweepEnqueue(t) PROVE ActiveInv'
    <2>1. Active = 0
      BY Zenon, <1>3 DEF SweepEnqueue, ActiveInv, LookedUp
    <2>2. \A u \in Thread \ {t} : job[u].pc \notin Sweeping
      BY Zenon, <1>3 DEF SweepEnqueue, ActiveInv, SweepExclusive, Sweeping
    <2>3. \A u \in Thread : job'[u].pc \notin {"lease", "enqueue"}
      BY <1>3, <1>t, <2>2, Empties DEF SweepEnqueue, Goto, SweepDone, Sweeping, Job
    <2>4. tasks'.queued <= tasks.queued + 1 /\ tasks'.processing = tasks.processing
          /\ tasks'.cancelling = tasks.cancelling /\ UNCHANGED d
      BY <1>3 DEF SweepEnqueue, TypeOK, TasksOK
    <2>5. OneActiveTask'
      BY <2>1, <2>4, <1>t, <1>u DEF OneActiveTask, Active
    <2> QED BY Zenon, <1>1, <2>3, <2>5 DEF ActiveInv, LookedUp
  <1> QED BY Zenon, <1>2, <1>3

(* "At most one active backfill task per doc": the sweeper's dedup lookup   *)
(* and Enqueue are one step to every other sweep, so two never run.         *)
THEOREM OneActive == Spec => []OneActiveTask
  <1>1. Init => ActiveInv
    BY Empties DEF Init, ActiveInv, OneActiveTask, SweepExclusive, LookedUp, Sweeping
  <1>2. TypeOK /\ ActiveInv /\ [Next]_vars => ActiveInv'
    BY Zenon, ActiveStep
  <1>3. ActiveInv => OneActiveTask
    BY DEF ActiveInv
  <1> QED BY <1>1, <1>2, <1>3, TypeCorrect, PTL DEF Spec

-----------------------------------------------------------------------------
(* THE COUNT OF A ROW.  A delivery works with the row it read.  As long as  *)
(* the row's generation has not moved, nobody else changed its count or its *)
(* status, so before the charge the row still counts what was read, and     *)
(* after it exactly one more; once the generation has moved it never comes  *)
(* back, and the delivery's writes are dropped.                             *)

Same(c)     == row[c].gen = d.snap[c].gen
Unbilled(c) == Same(c) => row[c].status = "pending" /\ row[c].attempts = d.snap[c].attempts
Billed(c)   == Same(c) => row[c].attempts = d.snap[c].attempts + 1

Claimed == d.bill \cup d.only \cup d.settle

Followed ==
    /\ \A c \in Claimed : row[c].status # "none" /\ d.snap[c].gen <= row[c].gen
    /\ d.bill \cap d.only = {} /\ d.settle \cap (d.bill \cup d.only) = {}

Phase ==
    /\ d.pc = "settle" =>
          \A c \in d.settle : Same(c) => row[c].attempts = d.snap[c].attempts
    /\ d.pc \in {"settle", "charge"} => \A c \in d.bill \cup d.only : Unbilled(c)
    /\ d.pc = "count" => /\ \A c \in d.bill : Billed(c)
                         /\ \A c \in d.only : Unbilled(c)
    /\ d.pc \in {"chain", "insert", "score", "columns", "label", "flip"} =>
          \A c \in d.bill \cup d.only : Billed(c)

NoneFresh == \A c \in Chunk : row[c].status = "none" => row[c].attempts = 0

LedgerInv == AttemptsExact /\ GivenUpSpent /\ NoneFresh /\ Followed /\ Phase

(* What anyone but the worker does to a row: nothing the worker could       *)
(* mistake for its own, a new generation, or a first row.                   *)
Foreign(r, s) ==
    \/ s.gen = r.gen /\ s.status = r.status /\ s.attempts = r.attempts
    \/ r.status # "none" /\ s.gen > r.gen /\ s.status # "none"
    \/ r.status = "none"

LEMMA ForeignKeeps ==
    ASSUME TypeOK, TypeOK', Followed, Phase,
           \A c \in Chunk : Foreign(row[c], row'[c]),
           d'.pc = d.pc, d'.snap = d.snap, d'.bill = d.bill, d'.only = d.only,
           d'.settle = d.settle
    PROVE  Followed' /\ Phase'
  <1>1. ASSUME NEW c \in Claimed
        PROVE  /\ c \in Chunk /\ row[c] \in Row /\ row'[c] \in Row /\ d.snap[c] \in Row
               /\ row[c].status # "none" /\ d.snap[c].gen <= row[c].gen
    BY Zenon, <1>1, DeliveryFields DEF TypeOK, LedgerOK, ThreadsOK, Claimed, Followed
  <1>2. ASSUME NEW c \in Claimed
        PROVE  /\ row'[c].status # "none" /\ d.snap[c].gen <= row'[c].gen
               /\ Same(c)' => /\ Same(c) /\ row'[c].status = row[c].status
                              /\ row'[c].attempts = row[c].attempts
    <2>1. CASE row'[c].gen = row[c].gen /\ row'[c].status = row[c].status
               /\ row'[c].attempts = row[c].attempts
      BY Zenon, <1>1, <2>1 DEF Same
    <2>2. CASE row'[c].gen > row[c].gen /\ row'[c].status # "none"
      BY <1>1, <2>2 DEF Same, Row
    <2> QED BY Zenon, <1>1, <2>1, <2>2 DEF Foreign
  <1>3. Followed'
    BY Zenon, <1>2 DEF Followed, Claimed
  <1>4. \A c \in d.bill \cup d.only :
           (Unbilled(c) => Unbilled(c)') /\ (Billed(c) => Billed(c)')
    BY Zenon, <1>2 DEF Unbilled, Billed, Claimed
  <1>5. \A c \in d.settle : (Same(c) => row[c].attempts = d.snap[c].attempts)
                            => (Same(c)' => row'[c].attempts = d.snap[c].attempts)
    BY Zenon, <1>2 DEF Claimed
  <1>6. Phase'
    BY Zenon, <1>4, <1>5 DEF Phase
  <1> QED BY Zenon, <1>3, <1>6

(* A delivery that claims no row yet, or is over, follows nothing. *)
LEMMA NothingClaimed ==
    ASSUME NEW pc, d'.pc = pc, pc \in {"idle", "read"}, d'.bill = {}, d'.only = {},
           d'.settle = {}
    PROVE  Followed' /\ Phase'
  BY Zenon DEF Followed, Phase, Claimed

AfterCharge == {"chain", "insert", "score", "columns", "label", "flip"}

(* The steps between the charge and the flip leave the ledger alone. *)
LEMMA BetweenSteps ==
    ASSUME TypeOK,
           StoreFails \/ RunChain \/ Insert \/ WriteScore \/ WriteColumns \/ WriteLabel
               \/ Commit
    PROVE  /\ d'.snap = d.snap /\ d'.bill = d.bill /\ d'.only = d.only
           /\ d'.settle = d.settle
           /\ (d.pc \in AfterCharge /\ d'.pc \in AfterCharge) \/ d'.pc = "end"
           /\ UNCHANGED <<row, charged>>
  <1> USE DEF TypeOK, ThreadsOK, Delivery, AfterCharge
  <1>1. CASE StoreFails
    BY Zenon, <1>1 DEF StoreFails
  <1>2. CASE RunChain
    BY Zenon, <1>2 DEF RunChain
  <1>3. CASE Insert
    <2>1. CASE StoreFails BY Zenon, <1>1, <2>1
    <2> DEFINE points == {c \in Chunk : /\ IndexPointsExpected(c) /\ ~ art[c].label
                                        /\ "f35" \in d.got[c] \/ c \in d.stored}
    <2>2. ASSUME NEW E \in SUBSET NewHypes,
                 d' = [d EXCEPT !.pc = "score",
                                !.owed = [c \in Chunk |-> IF c \in E THEN @[c] \cup {"f38"}
                                                                     ELSE @[c]],
                                !.point = points,
                                !.todo = Repaired,
                                !.txn = points \cup (NewHypes \ E) # {}]
          PROVE  /\ d'.snap = d.snap /\ d'.bill = d.bill /\ d'.only = d.only
                 /\ d'.settle = d.settle /\ d'.pc = "score"
      <3> DEFINE o == [c \in Chunk |-> IF c \in E THEN d.owed[c] \cup {"f38"} ELSE d.owed[c]]
                 x == points \cup (NewHypes \ E) # {}
      <3>1. d' = [d EXCEPT !.pc = "score", !.owed = o, !.point = points,
                           !.todo = Repaired, !.txn = x]
        BY Zenon, <2>2
      <3> HIDE DEF o, x, points
      <3> QED BY Zenon, <3>1
    <2> QED BY Zenon, <1>3, <2>1, <2>2, <1>1 DEF Insert
  <1>4. CASE WriteScore
    <2>1. PICK c \in d.todo :
             LET ok == [d EXCEPT !.pc = "columns", !.cur = c, !.todo = @ \ {c}]
             IN  d' \in {ok, [ok EXCEPT !.stored = @],
                         [ok EXCEPT !.owed[c] = @ \cup {"f03"}]}
      BY Zenon, <1>4 DEF WriteScore, Write
    <2>2. d.pc = "score" /\ UNCHANGED <<row, charged>>
      BY Zenon, <1>4 DEF WriteScore, Write
    <2> DEFINE ok == [d EXCEPT !.pc = "columns", !.cur = c, !.todo = @ \ {c}]
    <2>3. /\ ok.snap = d.snap /\ ok.bill = d.bill /\ ok.only = d.only
          /\ ok.settle = d.settle /\ ok.pc = "columns" /\ DOMAIN ok = DOMAIN d
      BY Zenon
    <2>4. d' \in {ok, [ok EXCEPT !.stored = @], [ok EXCEPT !.owed[c] = @ \cup {"f03"}]}
      BY Zenon, <2>1
    <2> HIDE DEF ok
    <2> QED BY <2>2, <2>3, <2>4
  <1>5. CASE WriteColumns
    <2>1. LET c  == d.cur
              ok == [d EXCEPT !.pc = "label"]
          IN  d' \in {ok, [ok EXCEPT !.stored = @ \cup {c}],
                      [ok EXCEPT !.owed[c] = @ \cup {"f35"}, !.point = @ \ {c}]}
      BY Zenon, <1>5 DEF WriteColumns, Write
    <2>2. d.pc = "columns" /\ UNCHANGED <<row, charged>>
      BY Zenon, <1>5 DEF WriteColumns, Write
    <2> QED BY ZenonT(30), <2>1, <2>2
  <1>6. CASE WriteLabel
    BY ZenonT(30), <1>6 DEF WriteLabel, Write
  <1>7. CASE Commit
    BY <1>7 DEF Commit
  <1> QED BY Zenon, <1>1, <1>2, <1>3, <1>4, <1>5, <1>6, <1>7

LEMMA BetweenKeeps ==
    ASSUME TypeOK, LedgerInv,
           StoreFails \/ RunChain \/ Insert \/ WriteScore \/ WriteColumns \/ WriteLabel
               \/ Commit
    PROVE  LedgerInv'
  <1>1. AttemptsExact' /\ GivenUpSpent' /\ NoneFresh'
    BY Zenon, BetweenSteps DEF LedgerInv, AttemptsExact, GivenUpSpent, NoneFresh
  <1>2. Followed'
    BY Zenon, BetweenSteps DEF LedgerInv, Followed, Claimed
  <1>3. Phase'
    <2>1. CASE d'.pc = "end"
      BY Zenon, <2>1 DEF Phase
    <2>2. CASE d.pc \in AfterCharge /\ d'.pc \in AfterCharge
      <3>1. \A c \in d'.bill \cup d'.only : Billed(c)'
        BY Zenon, <2>2, BetweenSteps DEF LedgerInv, Phase, AfterCharge, Billed, Same
      <3> QED BY Zenon, <2>2, <3>1 DEF Phase, AfterCharge
    <2> QED BY Zenon, <2>1, <2>2, BetweenSteps
  <1> QED BY Zenon, <1>1, <1>2, <1>3 DEF LedgerInv

(* What is read is what the row says at that time. *)
LEMMA ReadKeeps ==
    ASSUME TypeOK, LedgerInv, Read
    PROVE  LedgerInv'
  <1>0. AttemptsExact' /\ GivenUpSpent' /\ NoneFresh'
    BY Zenon DEF Read, StoreFails, LedgerInv, AttemptsExact, GivenUpSpent, NoneFresh
  <1>1. CASE StoreFails
    BY Zenon, <1>1, BetweenKeeps
  <1>2. CASE d' = [d EXCEPT !.pc = "end", !.ok = TRUE] /\ UNCHANGED row
    <2>1. /\ d'.pc = "end" /\ d'.snap = d.snap /\ d'.bill = d.bill /\ d'.only = d.only
          /\ d'.settle = d.settle
      BY Zenon, <1>2 DEF TypeOK, ThreadsOK, Delivery
    <2>2. Followed'
      BY Zenon, <1>2, <2>1 DEF LedgerInv, Followed, Claimed
    <2>3. Phase'
      BY Zenon, <2>1 DEF Phase
    <2> QED BY Zenon, <1>0, <2>2, <2>3 DEF LedgerInv
  <1>3. CASE d' = Classify /\ UNCHANGED row
    <2> DEFINE pending == {c \in Chunk : row[c].status = "pending"}
               here    == pending \cap live
               stored  == {c \in here : "f35" \in Owes(c) /\ art[c].columns}
               ask     == [c \in Chunk |->
                              IF c \notin here THEN {}
                              ELSE Owes(c) \ (IF c \in stored THEN {"f35"} ELSE {})]
               provide == {c \in here : ask[c] # {}}
               only    == {c \in stored \ provide : IndexPointsExpected(c)}
               snap    == [c \in Chunk |-> IF c \in pending THEN row[c] ELSE NoRow]
               bill    == provide \cup (pending \ live)
               settle  == here \ (provide \cup only)
    <2>1. d' = [d EXCEPT !.pc = "settle", !.snap = snap, !.ask = ask, !.bill = bill,
                         !.only = only, !.settle = settle, !.stored = stored,
                         !.fresh = pending]
      BY Zenon, <1>3 DEF Classify
    <2>2. /\ bill \subseteq pending /\ only \subseteq pending /\ settle \subseteq pending
          /\ bill \cap only = {} /\ settle \cap (bill \cup only) = {}
      BY Zenon
    <2>3. \A c \in pending : snap[c] = row[c] /\ row[c].status = "pending" /\ row[c] \in Row
      BY Zenon DEF TypeOK, LedgerOK
    <2> HIDE DEF bill, only, settle, snap, ask, stored, here, provide, pending
    <2>4. /\ d'.pc = "settle" /\ d'.snap = snap /\ d'.bill = bill /\ d'.only = only
          /\ d'.settle = settle
      BY Zenon, <2>1 DEF TypeOK, ThreadsOK, Delivery
    <2>5. Followed'
      BY <1>3, <2>2, <2>3, <2>4 DEF Followed, Claimed, Row
    <2>6. Phase'
      BY <1>3, <2>2, <2>3, <2>4 DEF Phase, Unbilled, Same
    <2> QED BY Zenon, <1>0, <2>5, <2>6 DEF LedgerInv
  <1> QED BY Zenon, <1>1, <1>2, <1>3 DEF Read

(* Rows that owe nothing are closed with the count they have. *)
LEMMA SettleKeeps ==
    ASSUME TypeOK, LedgerInv, Settle
    PROVE  LedgerInv'
  <1>d. /\ d.pc = "settle" /\ d'.pc = "charge" /\ d'.snap = d.snap /\ d'.bill = d.bill
        /\ d'.only = d.only /\ d'.settle = d.settle /\ UNCHANGED charged
    BY Zenon DEF Settle, TypeOK, ThreadsOK, Delivery
  <1>t. /\ \A c \in Chunk : row[c] \in Row /\ d.snap[c] \in Row
        /\ d.bill \subseteq Chunk /\ d.only \subseteq Chunk /\ d.settle \subseteq Chunk
    BY Zenon, DeliveryFields DEF TypeOK, LedgerOK, ThreadsOK
  <1>1. ASSUME NEW c \in Chunk
        PROVE  \/ row'[c] = row[c] /\ (c \in d.settle => ~ Same(c))
               \/ /\ c \in d.settle /\ Same(c)
                  /\ row'[c].status = "ok" /\ row'[c].attempts = row[c].attempts
                  /\ row'[c].gen = row[c].gen
    <2>1. CASE c \notin d.settle
      BY Zenon, <2>1 DEF Settle
    <2>2. CASE c \in d.settle /\ ~ Same(c)
      BY Zenon, <2>2 DEF Settle, FlipEnrichStateIfGeneration, Same
    <2>3. CASE c \in d.settle /\ Same(c)
      <3>1. row'[c] = [d.snap[c] EXCEPT !.status = "ok", !.owed = {}, !.due = FALSE]
        BY Zenon, <2>3 DEF Settle, FlipEnrichStateIfGeneration, Same
      <3>2. /\ row'[c].status = "ok" /\ row'[c].attempts = d.snap[c].attempts
            /\ row'[c].gen = d.snap[c].gen
        BY Zenon, <3>1, <1>t DEF Row
      <3>3. d.snap[c].attempts = row[c].attempts
        BY Zenon, <2>3, <1>d DEF LedgerInv, Phase
      <3> QED BY Zenon, <2>3, <3>2, <3>3 DEF Same
    <2> QED BY Zenon, <2>1, <2>2, <2>3
  <1>2. AttemptsExact' /\ GivenUpSpent' /\ NoneFresh'
    BY <1>1, <1>d DEF LedgerInv, AttemptsExact, GivenUpSpent, NoneFresh
  <1>3. Followed'
    BY Zenon, <1>1, <1>d, <1>t DEF LedgerInv, Followed, Claimed
  <1>4. \A c \in d.bill \cup d.only : row'[c] = row[c] /\ Unbilled(c)
    BY Zenon, <1>1, <1>d, <1>t DEF LedgerInv, Phase, Followed
  <1>5. Phase'
    BY <1>4, <1>d DEF Phase, Unbilled, Same
  <1> QED BY Zenon, <1>2, <1>3, <1>5 DEF LedgerInv

(* A counted row counts one more; its generation does not move. *)
LEMMA CountStep ==
    ASSUME TypeOK, LedgerInv, NEW ids \in SUBSET Chunk, NEW n \in Nat, n >= MaxAttempts,
           Count(ids, n)
    PROVE  /\ \A c \in Chunk \ ids : row'[c] = row[c]
           /\ \A c \in ids : /\ row'[c].gen = row[c].gen
                             /\ row[c].status # "none" => row'[c].status # "none"
                             /\ row[c].status = "pending" =>
                                   row'[c].attempts = row[c].attempts + 1
           /\ AttemptsExact' /\ GivenUpSpent' /\ NoneFresh'
  <1> USE EnrichAssumption
  <1>t. \A c \in Chunk : row[c] \in Row /\ charged[c] \in Nat
    BY Zenon DEF TypeOK, LedgerOK
  <1>1. \A c \in Chunk \ ids : row'[c] = row[c] /\ charged'[c] = charged[c]
    BY Zenon DEF Count
  <1>2. ASSUME NEW c \in ids, row[c].status # "pending"
        PROVE  row'[c] = row[c] /\ charged'[c] = charged[c]
    BY Zenon, <1>2 DEF Count, ChargeEnrichAttempts
  <1>3. ASSUME NEW c \in ids, row[c].status = "pending"
        PROVE  /\ row'[c].gen = row[c].gen /\ row'[c].attempts = row[c].attempts + 1
               /\ row'[c].status \in {"pending", "failed"}
               /\ row'[c].status = "failed" => row'[c].attempts > n
               /\ charged'[c] = charged[c] + 1
    <2> DEFINE a == row[c].attempts + 1
               s == IF a > n THEN "failed" ELSE row[c].status
               u == row[c].due /\ a <= n
    <2>1. row'[c] = [row[c] EXCEPT !.attempts = a, !.status = s, !.due = u]
      BY Zenon, <1>3 DEF Count, ChargeEnrichAttempts
    <2>2. s \in {"pending", "failed"} /\ (s = "failed" => a > n)
      BY Zenon, <1>3
    <2>3. charged'[c] = charged[c] + 1
      BY Zenon, <1>3 DEF Count
    <2> HIDE DEF s, u
    <2>4. row'[c].gen = row[c].gen /\ row'[c].attempts = a /\ row'[c].status = s
      <3> HIDE DEF a
      <3> QED BY Zenon, <2>1, <1>t DEF Row
    <2> QED BY Zenon, <2>2, <2>3, <2>4
  <1>4. AttemptsExact'
    BY <1>1, <1>2, <1>3 DEF LedgerInv, AttemptsExact
  <1>5. GivenUpSpent'
    <2>1. MaxAttempts \in Nat
      BY DEF NoTerminal
    <2> SUFFICES ASSUME NEW c \in Chunk, row'[c].status = "failed"
                 PROVE  charged'[c] >= MaxAttempts
      BY Zenon DEF GivenUpSpent
    <2>2. CASE c \in ids /\ row[c].status = "pending"
      <3>1. row'[c].attempts > n /\ row'[c].attempts = charged'[c]
        BY Zenon, <1>3, <1>4, <2>2 DEF AttemptsExact
      <3>2. charged'[c] \in Nat
        BY <1>3, <1>t, <2>2
      <3> QED BY <2>1, <3>1, <3>2
    <2>3. CASE ~ (c \in ids /\ row[c].status = "pending")
      BY Zenon, <1>1, <1>2, <2>3 DEF LedgerInv, GivenUpSpent
    <2> QED BY Zenon, <2>2, <2>3
  <1>6. NoneFresh'
    BY <1>1, <1>2, <1>3 DEF LedgerInv, NoneFresh
  <1> QED BY Zenon, <1>1, <1>2, <1>3, <1>4, <1>5, <1>6

LEMMA ChargeKeeps ==
    ASSUME TypeOK, LedgerInv, ChargeProvider \/ ChargeLabelOnly
    PROVE  LedgerInv'
  <1> USE EnrichAssumption
  <1>t. /\ \A c \in Chunk : row[c] \in Row /\ d.snap[c] \in Row
        /\ d.bill \subseteq Chunk /\ d.only \subseteq Chunk /\ d.settle \subseteq Chunk
    BY Zenon, DeliveryFields DEF TypeOK, LedgerOK, ThreadsOK
  <1>1. CASE StoreFails
    BY Zenon, <1>1, BetweenKeeps
  <1>2. CASE d.pc = "charge" /\ Count(d.bill, MaxAttempts + 1) /\ d' = [d EXCEPT !.pc = "count"]
    <2>1. /\ d'.pc = "count" /\ d'.snap = d.snap /\ d'.bill = d.bill
          /\ d'.only = d.only /\ d'.settle = d.settle
      BY Zenon, <1>2 DEF TypeOK, ThreadsOK, Delivery
    <2>2. /\ \A c \in Chunk \ d.bill : row'[c] = row[c]
          /\ \A c \in d.bill : /\ row'[c].gen = row[c].gen
                               /\ row[c].status # "none" => row'[c].status # "none"
                               /\ row[c].status = "pending" =>
                                     row'[c].attempts = row[c].attempts + 1
          /\ AttemptsExact' /\ GivenUpSpent' /\ NoneFresh'
      <3>1. MaxAttempts + 1 \in Nat /\ MaxAttempts + 1 >= MaxAttempts
        BY DEF NoTerminal
      <3> QED BY Zenon, <1>2, <1>t, <3>1, CountStep
    <2>3. Followed'
      BY Zenon, <2>1, <2>2, <1>t DEF LedgerInv, Followed, Claimed
    <2>4. \A c \in d.bill : Billed(c)'
      BY <1>2, <2>1, <2>2 DEF LedgerInv, Phase, Unbilled, Billed, Same
    <2>5. \A c \in d.only : row'[c] = row[c] /\ Unbilled(c)
      BY Zenon, <1>2, <1>t, <2>2 DEF LedgerInv, Phase, Followed
    <2>6. Phase'
      BY <2>1, <2>4, <2>5 DEF Phase, Unbilled, Same
    <2> QED BY Zenon, <2>2, <2>3, <2>6 DEF LedgerInv
  <1>3. CASE d.pc = "count" /\ Count(d.only, NoTerminal) /\ d' = [d EXCEPT !.pc = "chain"]
    <2>1. /\ d'.pc = "chain" /\ d'.snap = d.snap /\ d'.bill = d.bill
          /\ d'.only = d.only /\ d'.settle = d.settle
      BY Zenon, <1>3 DEF TypeOK, ThreadsOK, Delivery
    <2>2. /\ \A c \in Chunk \ d.only : row'[c] = row[c]
          /\ \A c \in d.only : /\ row'[c].gen = row[c].gen
                               /\ row[c].status # "none" => row'[c].status # "none"
                               /\ row[c].status = "pending" =>
                                     row'[c].attempts = row[c].attempts + 1
          /\ AttemptsExact' /\ GivenUpSpent' /\ NoneFresh'
      <3>1. NoTerminal \in Nat /\ NoTerminal >= MaxAttempts
        BY DEF NoTerminal
      <3> QED BY Zenon, <1>3, <1>t, <3>1, CountStep
    <2>3. Followed'
      BY Zenon, <2>1, <2>2, <1>t DEF LedgerInv, Followed, Claimed
    <2>4. \A c \in d.only : Billed(c)'
      BY <1>3, <2>1, <2>2 DEF LedgerInv, Phase, Unbilled, Billed, Same
    <2>5. \A c \in d.bill : row'[c] = row[c] /\ Billed(c)
      BY Zenon, <1>3, <1>t, <2>2 DEF LedgerInv, Phase, Followed
    <2>6. Phase'
      BY Zenon, <2>1, <2>4, <2>5 DEF Phase, Billed, Same
    <2> QED BY Zenon, <2>2, <2>3, <2>6 DEF LedgerInv
  <1> QED BY Zenon, <1>1, <1>2, <1>3 DEF ChargeProvider, ChargeLabelOnly

(* The outcome counts the delivery that the charge counted already. *)
LEMMA FlipKeeps ==
    ASSUME TypeOK, LedgerInv, Flip
    PROVE  LedgerInv'
  <1> USE EnrichAssumption
  <1>d. /\ d.pc = "flip" /\ d'.pc = "end" /\ d'.snap = d.snap /\ d'.bill = d.bill
        /\ d'.only = d.only /\ d'.settle = d.settle /\ UNCHANGED charged
    BY Zenon DEF Flip, TypeOK, ThreadsOK, Delivery
  <1>t. /\ \A c \in Chunk : row[c] \in Row /\ d.snap[c] \in Row
        /\ d.bill \subseteq Chunk /\ d.only \subseteq Chunk /\ d.settle \subseteq Chunk
    BY Zenon, DeliveryFields DEF TypeOK, LedgerOK, ThreadsOK
  <1>1. ASSUME NEW c \in Chunk
        PROVE  \/ row'[c] = row[c]
               \/ /\ row'[c].status \in {"ok", "failed", "pending"}
                  /\ row'[c].attempts = row[c].attempts /\ row'[c].gen = row[c].gen
                  /\ row'[c].status = "failed" => row'[c].attempts >= MaxAttempts
    <2>1. CASE c \notin Repaired \/ ~ Same(c)
      BY Zenon, <2>1 DEF Flip, FlipEnrichStateIfGeneration, Same
    <2>2. CASE c \in Repaired /\ Same(c)
      <3> DEFINE n == d.snap[c].attempts + 1
                 k == d.owed[c] = {"f35"} /\ c \in d.stored
                 s == CASE d.owed[c] = {}          -> "ok"
                        [] n >= MaxAttempts /\ ~ k -> "failed"
                        [] OTHER                   -> "pending"
      <3>1. s \in {"ok", "failed", "pending"} /\ (s = "failed" => n >= MaxAttempts)
        BY Zenon
      <3>2. row'[c] = [d.snap[c] EXCEPT !.status = s, !.owed = d.owed[c],
                                        !.attempts = n, !.due = FALSE]
        BY Zenon, <2>2 DEF Flip, FlipEnrichStateIfGeneration, Same, Outcome
      <3>3. n = row[c].attempts
        BY Zenon, <2>2, <1>d DEF Repaired, LedgerInv, Phase, Billed
      <3> HIDE DEF n, s
      <3>4. row'[c].status = s /\ row'[c].attempts = n /\ row'[c].gen = d.snap[c].gen
        BY <3>2, <1>t DEF Row
      <3> QED BY Zenon, <2>2, <3>1, <3>3, <3>4 DEF Same
    <2> QED BY Zenon, <2>1, <2>2
  <1>2. AttemptsExact' /\ NoneFresh'
    BY <1>1, <1>d DEF LedgerInv, AttemptsExact, NoneFresh
  <1>3. GivenUpSpent'
    BY Zenon, <1>1, <1>2, <1>d DEF LedgerInv, AttemptsExact, GivenUpSpent
  <1>4. Followed'
    BY Zenon, <1>1, <1>d, <1>t DEF LedgerInv, Followed, Claimed
  <1>5. Phase'
    BY Zenon, <1>d DEF Phase
  <1> QED BY Zenon, <1>2, <1>3, <1>4, <1>5 DEF LedgerInv

(* Steps that keep every count, status and generation. *)
LEMMA SameCounts ==
    ASSUME TypeOK, TypeOK', LedgerInv, UNCHANGED charged,
           \A c \in Chunk : /\ row'[c].gen = row[c].gen /\ row'[c].status = row[c].status
                            /\ row'[c].attempts = row[c].attempts,
           d'.pc = d.pc, d'.snap = d.snap, d'.bill = d.bill, d'.only = d.only,
           d'.settle = d.settle
    PROVE  LedgerInv'
  <1>1. AttemptsExact' /\ GivenUpSpent' /\ NoneFresh'
    BY Zenon DEF LedgerInv, AttemptsExact, GivenUpSpent, NoneFresh
  <1>2. \A c \in Chunk : Foreign(row[c], row'[c])
    BY Zenon DEF Foreign
  <1>3. Followed' /\ Phase'
    BY Zenon, <1>2, ForeignKeeps DEF LedgerInv
  <1> QED BY Zenon, <1>1, <1>3 DEF LedgerInv

(* A delivery that ends, or starts, with the ledger as it is. *)
LEMMA NewDelivery ==
    ASSUME LedgerInv, UNCHANGED <<row, charged>>,
           d'.pc \in {"idle", "read"}, d'.bill = {}, d'.only = {}, d'.settle = {}
    PROVE  LedgerInv'
  BY Zenon, NothingClaimed DEF LedgerInv, AttemptsExact, GivenUpSpent, NoneFresh

(* The lease and the clock touch due times only. *)
LEMMA LeaseCounts ==
    ASSUME TypeOK, NEW due \in BOOLEAN, row' = LeaseDocRetries(due), NEW c \in Chunk
    PROVE  /\ row'[c].gen = row[c].gen /\ row'[c].status = row[c].status
           /\ row'[c].attempts = row[c].attempts
  BY Zenon DEF LeaseDocRetries, TypeOK, LedgerOK, Row

(* The audit's verdict on a row: left alone, a new generation that keeps    *)
(* the count, or a first row with a count of 0.                             *)
LEMMA AuditVerdict ==
    ASSUME TypeOK, LedgerInv, NEW j, NEW c \in Chunk
    PROVE  LET s == AuditRow(j, c)
           IN  /\ Foreign(row[c], s)
               /\ s.attempts = row[c].attempts
               /\ s.status = "none" => row[c].status = "none"
               /\ s.status = "failed" => row[c].status = "failed" \/ s.attempts >= MaxAttempts
  <1> USE EnrichAssumption
  <1> DEFINE r == row[c]
             owed == Missing(c, j.labels, j.hypes)
             Good(s) == /\ Foreign(r, s)
                        /\ s.attempts = r.attempts
                        /\ s.status = "none" => r.status = "none"
                        /\ s.status = "failed" => r.status = "failed" \/ s.attempts >= MaxAttempts
  <1>t. r \in Row /\ (r.status = "none" => r.attempts = 0) /\ MaxAttempts \in Nat
        /\ NoTerminal \in Nat /\ NoTerminal >= MaxAttempts
    BY DEF TypeOK, LedgerOK, LedgerInv, NoneFresh, NoTerminal
  <1> HIDE DEF r, owed
  <1>1. Good(r)
    BY Zenon, <1>t DEF Foreign
  <1>2. Good(SettleTerminalRow(r))
    <2>1. CASE r.status # "failed"
      BY Zenon, <1>1, <2>1 DEF SettleTerminalRow
    <2>2. CASE r.status = "failed"
      <3> DEFINE g == r.gen + 1
      <3>1. SettleTerminalRow(r)
              = [r EXCEPT !.status = "ok", !.owed = {}, !.due = FALSE, !.gen = g]
        BY Zenon, <2>2 DEF SettleTerminalRow
      <3>2. g > r.gen
        BY <1>t DEF Row
      <3> HIDE DEF g
      <3>3. /\ SettleTerminalRow(r).status = "ok" /\ SettleTerminalRow(r).gen = g
            /\ SettleTerminalRow(r).attempts = r.attempts
        BY Zenon, <1>t, <3>1 DEF Row
      <3> QED BY Zenon, <2>2, <3>2, <3>3 DEF Foreign
    <2> QED BY Zenon, <2>1, <2>2
  <1>3. ASSUME NEW n \in {NoTerminal, MaxAttempts} PROVE Good(ReoweEnrichState(r, owed, n))
    <2>1. CASE r.status = "none"
      BY Zenon, <1>t, <2>1 DEF ReoweEnrichState, NoRow, Foreign
    <2>2. CASE r.status # "none"
      <3> DEFINE s == IF r.attempts >= n THEN "failed" ELSE "pending"
                 u == r.attempts < n
                 g == r.gen + 1
      <3>1. /\ s \in {"failed", "pending"} /\ g > r.gen
            /\ s = "failed" => r.attempts >= MaxAttempts
        BY <1>t, <1>3 DEF Row
      <3>2. ReoweEnrichState(r, owed, n)
              = [r EXCEPT !.status = s, !.owed = owed, !.due = u, !.gen = g]
        BY Zenon, <2>2 DEF ReoweEnrichState
      <3> HIDE DEF s, u, g
      <3> DEFINE x == ReoweEnrichState(r, owed, n)
      <3>3. x.status = s /\ x.gen = g /\ x.attempts = r.attempts
        BY Zenon, <1>t, <3>2 DEF Row
      <3> HIDE DEF x
      <3> QED BY Zenon, <2>2, <3>1, <3>3 DEF Foreign, x
    <2> QED BY Zenon, <2>1, <2>2
  <1>4. AuditRow(j, c) \in {r, SettleTerminalRow(r), ReoweEnrichState(r, owed, NoTerminal),
                            ReoweEnrichState(r, owed, MaxAttempts)}
    BY Zenon DEF AuditRow, r, owed
  <1>5. Good(AuditRow(j, c))
    BY Zenon, <1>1, <1>2, <1>3, <1>4
  <1> QED BY Zenon, <1>5 DEF r

LEMMA ServeKeeps ==
    ASSUME TypeOK, TypeOK', LedgerInv, NEW t \in Thread, Serve(t)
    PROVE  LedgerInv'
  <1> USE EnrichAssumption
  <1>1. CASE AuditRows(t)
    <2>1. UNCHANGED <<charged, d>>
      BY Zenon, <1>1 DEF AuditRows
    <2>2. \A c \in Chunk : row'[c] \in {row[c], AuditRow(job[t], c)}
      BY Zenon, <1>1 DEF AuditRows
    <2>3. ASSUME NEW c \in Chunk
          PROVE  /\ Foreign(row[c], row'[c]) /\ row'[c].attempts = row[c].attempts
                 /\ row'[c].status = "none" => row[c].status = "none"
                 /\ row'[c].status = "failed" =>
                       row[c].status = "failed" \/ row'[c].attempts >= MaxAttempts
      <3>1. Foreign(row[c], row[c])
        BY Zenon DEF Foreign
      <3> QED BY <2>2, <3>1, AuditVerdict
    <2>4. AttemptsExact' /\ NoneFresh'
      BY Zenon, <2>1, <2>3 DEF LedgerInv, AttemptsExact, NoneFresh
    <2>5. GivenUpSpent'
      BY Zenon, <2>1, <2>3, <2>4 DEF LedgerInv, AttemptsExact, GivenUpSpent
    <2>6. Followed' /\ Phase'
      BY Zenon, <2>1, <2>3, ForeignKeeps DEF LedgerInv
    <2> QED BY Zenon, <2>4, <2>5, <2>6 DEF LedgerInv
  <1>2. CASE ResetGivenUpEnrichRows(t)
    <2> DEFINE moved == IF job[t].reset THEN {c \in live : row[c].status = "failed"} ELSE {}
    <2>1. /\ row' = [c \in Chunk |->
                       IF c \notin moved THEN row[c]
                       ELSE [row[c] EXCEPT !.status = "pending", !.attempts = 0,
                                           !.due = TRUE, !.gen = @ + 1]]
          /\ charged' = [c \in Chunk |-> IF c \in moved THEN 0 ELSE charged[c]]
          /\ d' = [d EXCEPT !.fresh = @ \ moved]
      BY Zenon, <1>2 DEF ResetGivenUpEnrichRows
    <2>2. \A c \in moved : row[c].status = "failed"
      BY Zenon
    <2> HIDE DEF moved
    <2>3. /\ d'.pc = d.pc /\ d'.snap = d.snap /\ d'.bill = d.bill /\ d'.only = d.only
          /\ d'.settle = d.settle
      BY Zenon, <2>1 DEF TypeOK, ThreadsOK, Delivery
    <2>4. ASSUME NEW c \in Chunk, c \in moved
          PROVE  /\ row'[c].status = "pending" /\ row'[c].attempts = 0 /\ charged'[c] = 0
                 /\ row'[c].gen > row[c].gen /\ row[c].status # "none"
      <3> DEFINE g == row[c].gen + 1
      <3>1. g > row[c].gen /\ row[c] \in Row
        BY DEF TypeOK, LedgerOK, Row
      <3>2. row'[c] = [row[c] EXCEPT !.status = "pending", !.attempts = 0,
                                     !.due = TRUE, !.gen = g]
        BY Zenon, <2>1, <2>4
      <3> HIDE DEF g
      <3>3. row'[c].status = "pending" /\ row'[c].attempts = 0 /\ row'[c].gen = g
        BY Zenon, <3>1, <3>2 DEF Row
      <3> QED BY Zenon, <2>1, <2>2, <2>4, <3>1, <3>3
    <2>5. ASSUME NEW c \in Chunk, c \notin moved
          PROVE  row'[c] = row[c] /\ charged'[c] = charged[c]
      BY Zenon, <2>1, <2>5
    <2>6. AttemptsExact' /\ GivenUpSpent' /\ NoneFresh'
      BY <2>4, <2>5 DEF LedgerInv, AttemptsExact, GivenUpSpent, NoneFresh
    <2>7. \A c \in Chunk : Foreign(row[c], row'[c])
      BY Zenon, <2>4, <2>5 DEF Foreign
    <2>8. Followed' /\ Phase'
      BY Zenon, <2>3, <2>7, ForeignKeeps DEF LedgerInv
    <2> QED BY Zenon, <2>6, <2>8 DEF LedgerInv
  <1>3. CASE SweepLease(t) \/ SweepUnlease(t) \/ MakeAllPendingDueNow(t)
    <2>1. \A c \in Chunk : /\ row'[c].gen = row[c].gen /\ row'[c].status = row[c].status
                           /\ row'[c].attempts = row[c].attempts
      BY Zenon, <1>3, LeaseCounts DEF SweepLease, SweepUnlease, MakeAllPendingDueNow
    <2>2. UNCHANGED <<charged, d>>
      BY Zenon, <1>3 DEF SweepLease, SweepUnlease, MakeAllPendingDueNow
    <2> QED BY Zenon, <2>1, <2>2, SameCounts
  <1>4. CASE \/ SweepBegin(t) \/ SweepCheck(t) \/ SweepEnqueue(t)
             \/ ReconcileExcludedContextualLabels(t) \/ AuditArtifacts(t) \/ AuditTracked(t)
    <2>1. UNCHANGED <<row, charged, d>>
      BY Zenon, <1>4 DEF SweepBegin, SweepCheck, SweepEnqueue, ReconcileExcludedContextualLabels,
            AuditArtifacts, AuditTracked
    <2> QED BY Zenon, <2>1, SameCounts
  <1> QED BY <1>1, <1>2, <1>3, <1>4 DEF Serve, Sweep

LEMMA LedgerStep ==
    ASSUME TypeOK, LedgerInv, [Next]_vars
    PROVE  LedgerInv'
  <1>t. TypeOK'
    BY Zenon, TypeStep
  <1>n. NoDelivery.bill = {} /\ NoDelivery.only = {} /\ NoDelivery.settle = {}
    BY Zenon DEF NoDelivery
  <1>1. CASE Worker
    <2>1. CASE Dequeue
      <3>1. d'.pc = "read" /\ d'.bill = {} /\ d'.only = {} /\ d'.settle = {}
        BY Zenon, <2>1 DEF Dequeue, NoDelivery
      <3> QED BY <2>1, <3>1, NewDelivery DEF Dequeue
    <2>2. CASE Finish
      <3>1. d' = NoDelivery /\ UNCHANGED <<row, charged>>
        BY Zenon, <2>2 DEF Finish, LeaveTask
      <3> QED BY Zenon, <1>n, <3>1, Empties, NewDelivery
    <2> QED BY Zenon, <1>1, <2>1, <2>2, ReadKeeps, SettleKeeps, ChargeKeeps, BetweenKeeps, FlipKeeps
            DEF Worker
  <1>2. CASE HandlerThrows \/ Crash
    <2>1. d' = NoDelivery /\ UNCHANGED <<row, charged>>
      BY Zenon, <1>2 DEF HandlerThrows, LeaveTask, Crash
    <2> QED BY Zenon, <1>n, <2>1, Empties, NewDelivery
  <1>3. ASSUME NEW t \in Thread, Serve(t) PROVE LedgerInv'
    BY Zenon, <1>t, <1>3, ServeKeeps
  <1>4. ASSUME NEW t \in Caller, Request(t) \/ RequestFails(t) PROVE LedgerInv'
    <2>1. UNCHANGED <<row, charged, d>>
      BY Zenon, <1>4 DEF Request, RequestFails
    <2> QED BY Zenon, <1>t, <2>1, SameCounts
  <1>5. CASE Elapse
    <2>1. PICK c \in Chunk : row' = [row EXCEPT ![c].due = TRUE]
      BY Zenon, <1>5 DEF Elapse
    <2>2. \A e \in Chunk : /\ row'[e].gen = row[e].gen /\ row'[e].status = row[e].status
                           /\ row'[e].attempts = row[e].attempts
      BY <2>1 DEF TypeOK, LedgerOK, Row
    <2>3. UNCHANGED <<charged, d>>
      BY Zenon, <1>5 DEF Elapse
    <2> QED BY Zenon, <1>t, <2>2, <2>3, SameCounts
  <1>6. CASE WindowPasses \/ HardDelete \/ UNCHANGED vars
    <2>1. UNCHANGED <<row, charged, d>>
      BY Zenon, <1>6 DEF WindowPasses, HardDelete, vars
    <2> QED BY Zenon, <1>t, <2>1, SameCounts
  <1>7. CASE CronSweep \/ RequestCancel
    <2>1. UNCHANGED <<row, charged>>
      BY Zenon, <1>7 DEF CronSweep, RequestCancel
    <2>2. /\ d'.pc = d.pc /\ d'.snap = d.snap /\ d'.bill = d.bill /\ d'.only = d.only
          /\ d'.settle = d.settle
      BY <1>7 DEF CronSweep, RequestCancel, TypeOK, ThreadsOK, Delivery
    <2> QED BY Zenon, <1>t, <2>1, <2>2, SameCounts
  <1> QED BY <1>1, <1>2, <1>3, <1>4, <1>5, <1>6, <1>7 DEF Next

LEMMA LedgerInit == Init => LedgerInv
  <1> SUFFICES ASSUME Init PROVE LedgerInv BY Zenon
  <1>1. \A c \in Chunk : row[c].attempts = 0 /\ row[c].status # "failed"
    <2>1. PICK F \in [Chunk -> config.fail] : row = [c \in Chunk |-> StartRow(c, F[c])]
      BY Zenon DEF Init
    <2>2. ASSUME NEW c \in Chunk, NEW f
          PROVE  StartRow(c, f).attempts = 0 /\ StartRow(c, f).status # "failed"
      BY Zenon DEF StartRow, UpsertEnrichState, NoRow
    <2> QED BY Zenon, <2>1, <2>2
  <1>2. \A c \in Chunk : charged[c] = 0
    BY Zenon DEF Init
  <1>3. d.pc = "idle" /\ d.bill = {} /\ d.only = {} /\ d.settle = {}
    BY Zenon DEF Init, NoDelivery
  <1>4. Followed /\ Phase
    BY Zenon, <1>3 DEF Followed, Phase, Claimed
  <1> QED BY Zenon, <1>1, <1>2, <1>4 DEF LedgerInv, AttemptsExact, GivenUpSpent, NoneFresh

LEMMA LedgerAlways == Spec => []LedgerInv
  <1>1. TypeOK /\ LedgerInv /\ [Next]_vars => LedgerInv'
    BY LedgerStep
  <1> QED BY <1>1, LedgerInit, TypeCorrect, PTL DEF Spec

(* The count on a row is exact: FlipEnrichStateIfGeneration, which writes a *)
(* count computed from the row as it was read, neither loses nor repeats a  *)
(* delivery, whatever audits, resets, sweeps and crashes come between.      *)
THEOREM CountsExact == Spec => []AttemptsExact
  <1>1. LedgerInv => AttemptsExact BY DEF LedgerInv
  <1> QED BY <1>1, LedgerAlways, PTL

(* No path gives a row up before MaxAttempts counted deliveries.            *)
THEOREM GivenUpLate == Spec => []GivenUpSpent
  <1>1. LedgerInv => GivenUpSpent BY DEF LedgerInv
  <1> QED BY <1>1, LedgerAlways, PTL

(* The ledger's bookkeeping is right for any document: one active task, the *)
(* counts exact, nothing given up early.                                    *)
THEOREM Bookkeeping == Spec => []LedgerSound
  <1>1. OneActiveTask /\ AttemptsExact /\ GivenUpSpent => LedgerSound
    BY DEF LedgerSound
  <1> QED BY <1>1, OneActive, CountsExact, GivenUpLate, PTL
=============================================================================
