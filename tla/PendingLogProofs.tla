-------------------------- MODULE PendingLogProofs --------------------------
(***************************************************************************)
(* Proofs about PendingLog, for any set of records and any batch size.     *)
(***************************************************************************)
EXTENDS PendingLog, TLAPS

----------------------------------------------------------------------------
(* Sequences without repetition                                            *)

\* A sequence of length zero is the empty one.
LEMMA EmptyFacts ==
  ASSUME NEW S, NEW s \in Seq(S)
  PROVE  s = <<>> <=> Len(s) = 0
OBVIOUS

\* Submit pushes an entry that is not in the queue at the back of it.
LEMMA AppendFacts ==
  ASSUME NEW S, NEW s \in Seq(S), NEW x \in S, x \notin Elems(s), Distinct(s)
  PROVE  /\ Append(s, x) \in Seq(S)
         /\ Distinct(Append(s, x))
         /\ Elems(Append(s, x)) = Elems(s) \cup {x}
<1> DEFINE t == Append(s, x)
<1>1. /\ t \in Seq(S)
      /\ Len(t) = Len(s) + 1
      /\ \A i \in 1..Len(s) : t[i] = s[i]
      /\ t[Len(s) + 1] = x
  OBVIOUS
<1>2. Len(s) \in Nat
  OBVIOUS
<1> HIDE DEF t
<1>3. Distinct(t)
  BY <1>1, <1>2 DEF Distinct, Elems
<1>4. Elems(t) = Elems(s) \cup {x}
  BY <1>1, <1>2 DEF Elems
<1> QED
  BY Zenon, <1>1, <1>3, <1>4 DEF t

\* FlushLoop cuts the queue in two: the batch it takes and the rest.
LEMMA SplitFacts ==
  ASSUME NEW S, NEW s \in Seq(S), NEW n \in 0..Len(s), Distinct(s)
  PROVE  LET a == SubSeq(s, 1, n)
             b == SubSeq(s, n + 1, Len(s))
         IN /\ a \in Seq(S) /\ b \in Seq(S)
            /\ Len(a) = n
            /\ Distinct(a) /\ Distinct(b)
            /\ Elems(a) \cup Elems(b) = Elems(s)
            /\ Elems(a) \cap Elems(b) = {}
<1> DEFINE a == SubSeq(s, 1, n)
           b == SubSeq(s, n + 1, Len(s))
<1>1. /\ Len(s) \in Nat /\ n \in Nat
      /\ a \in Seq(S) /\ Len(a) = n
      /\ \A i \in 1..n : a[i] = s[i]
  OBVIOUS
<1>2. /\ b \in Seq(S) /\ Len(b) = Len(s) - n
      /\ \A i \in 1..(Len(s) - n) : b[i] = s[n + i]
  OBVIOUS
<1> HIDE DEF a, b
<1>3. Distinct(a) /\ Distinct(b)
  <2>1. Distinct(a)
    BY <1>1 DEF Distinct
  <2>2. ASSUME NEW i \in 1..Len(b), NEW j \in 1..Len(b), b[i] = b[j]
        PROVE  i = j
    <3>1. n + i \in 1..Len(s) /\ n + j \in 1..Len(s)
      BY <1>1, <1>2
    <3>2. s[n + i] = s[n + j]
      BY Zenon, <1>2, <2>2
    <3>3. n + i = n + j
      BY Zenon, <3>1, <3>2 DEF Distinct
    <3> QED
      BY <3>3, <1>1, <1>2
  <2> QED
    BY Zenon, <2>1, <2>2 DEF Distinct
<1>4. Elems(a) \cap Elems(b) = {}
  BY <1>1, <1>2 DEF Distinct, Elems
<1>5. Elems(a) \cup Elems(b) = Elems(s)
  <2>1. Elems(a) \subseteq Elems(s) /\ Elems(b) \subseteq Elems(s)
    BY <1>1, <1>2 DEF Elems
  <2>2. ASSUME NEW i \in 1..Len(s)
        PROVE  s[i] \in Elems(a) \cup Elems(b)
    <3>1. CASE i <= n
      BY <3>1, <1>1 DEF Elems
    <3>2. CASE i > n
      <4>1. i - n \in 1..Len(b) /\ b[i - n] = s[i]
        BY <3>2, <1>1, <1>2
      <4> QED
        BY Zenon, <4>1 DEF Elems
    <3> QED
      BY <3>1, <3>2, <1>1
  <2> QED
    BY Zenon, <2>1, <2>2 DEF Elems
<1> QED
  BY Zenon, <1>1, <1>2, <1>3, <1>4, <1>5 DEF a, b

\* FlushBatch answers the waiters of a batch from the front.
LEMMA TailFacts ==
  ASSUME NEW S, NEW s \in Seq(S), s # <<>>, Distinct(s)
  PROVE  /\ Head(s) \in S /\ Tail(s) \in Seq(S)
         /\ Len(Tail(s)) = Len(s) - 1
         /\ Distinct(Tail(s))
         /\ Head(s) \notin Elems(Tail(s))
         /\ Elems(s) = {Head(s)} \cup Elems(Tail(s))
<1> DEFINE t == Tail(s)
<1>1. /\ Len(s) \in Nat /\ Len(s) > 0
      /\ Head(s) = s[1] /\ Head(s) \in S
      /\ t \in Seq(S) /\ Len(t) = Len(s) - 1
      /\ \A i \in 1..Len(t) : t[i] = s[i + 1]
  OBVIOUS
<1> HIDE DEF t
<1>2. Distinct(t) /\ Head(s) \notin Elems(t)
  <2>1. ASSUME NEW i \in 1..Len(t) PROVE i + 1 \in 1..Len(s) /\ t[i] = s[i + 1] /\ i + 1 # 1
    BY <1>1
  <2>2. ASSUME NEW i \in 1..Len(t), NEW j \in 1..Len(t), t[i] = t[j] PROVE i = j
    <3>1. i + 1 = j + 1
      BY <2>1, <2>2 DEF Distinct
    <3> QED
      BY <3>1
  <2>3. ASSUME NEW i \in 1..Len(t) PROVE t[i] # s[1]
    <3>1. 1 \in 1..Len(s)
      BY <1>1
    <3> QED
      BY Zenon, <2>1, <3>1 DEF Distinct
  <2> QED
    BY <2>2, <2>3, <1>1 DEF Distinct, Elems
<1>3. Elems(s) = {Head(s)} \cup Elems(t)
  <2>1. {Head(s)} \cup Elems(t) \subseteq Elems(s)
    BY <1>1 DEF Elems
  <2>2. ASSUME NEW i \in 1..Len(s)
        PROVE  s[i] \in {Head(s)} \cup Elems(t)
    <3>1. CASE i = 1
      BY Zenon, <3>1, <1>1
    <3>2. CASE i # 1
      <4>1. i - 1 \in 1..Len(t) /\ t[i - 1] = s[i]
        BY <3>2, <1>1
      <4> QED
        BY Zenon, <4>1 DEF Elems
    <3> QED
      BY Zenon, <3>1, <3>2
  <2> QED
    BY Zenon, <2>1, <2>2 DEF Elems
<1> QED
  BY Zenon, <1>1, <1>2, <1>3 DEF t

----------------------------------------------------------------------------
(* Types                                                                   *)

USE ReqsAssumption, BoundsAssumption

\* The variables of the queue, the file and the flush thread keep their types,
\* and a batch never exceeds max_batch_ (FlushLoop's std::min).
THEOREM TypeCorrect == Spec => []TypeOK
<1>1. Init => TypeOK
  <2> SUFFICES ASSUME Init PROVE TypeOK
    BY Zenon
  <2>1. FileOK
    BY Zenon DEF Init, FileOK
  <2>2. FaultsOK
    BY Zenon DEF Init, NoFaults, Kinds, FaultsOK
  <2>3. queue \in Seq(Reqs) /\ batch \in Seq(Reqs) /\ Len(batch) <= MaxBatch
    BY DEF Init
  <2>4. QueueOK
    BY Zenon, <2>3 DEF Init, QueueOK, Answers, Phases
  <2> QED
    BY Zenon, <2>1, <2>2, <2>4 DEF TypeOK
<1>2. TypeOK /\ [Next]_vars => TypeOK'
  <2> SUFFICES ASSUME QueueOK, FileOK, FaultsOK, [Next]_vars PROVE QueueOK' /\ FileOK' /\ FaultsOK'
    BY Zenon DEF TypeOK
  <2> USE DEF Answers, Phases, fileVars, queueVars
  <2>1. ASSUME NEW r \in Reqs, Submit(r) PROVE QueueOK' /\ FileOK' /\ FaultsOK'
    <3>1. QueueOK'
      BY <2>1 DEF Submit, QueueOK
    <3> QED
      BY Zenon, <2>1, <3>1 DEF Submit, FileOK, FaultsOK
  <2>2. ASSUME NEW r \in Reqs, SubmitRefused(r) PROVE QueueOK' /\ FileOK' /\ FaultsOK'
    <3>1. QueueOK'
      BY Zenon, <2>2 DEF SubmitRefused, QueueOK
    <3> QED
      BY Zenon, <2>2, <3>1 DEF SubmitRefused, FileOK, FaultsOK
  <2>3. CASE Shutdown
    <3>1. QueueOK'
      BY Zenon, <2>3 DEF Shutdown, QueueOK
    <3> QED
      BY Zenon, <2>3, <3>1 DEF Shutdown, FileOK, FaultsOK
  <2>4. CASE TakeBatch
    <3> DEFINE take == IF Len(queue) < MaxBatch THEN Len(queue) ELSE MaxBatch
    <3>1. take \in Nat /\ take # 0 /\ take <= Len(queue) /\ take <= MaxBatch
      BY <2>4 DEF TakeBatch, QueueOK
    <3> HIDE DEF take
    <3>2. batch' = SubSeq(queue, 1, take) /\ queue' = SubSeq(queue, take + 1, Len(queue))
      BY Zenon, <2>4 DEF TakeBatch, take
    <3>3. batch' \in Seq(Reqs) /\ queue' \in Seq(Reqs) /\ Len(batch') = take
      BY <3>1, <3>2 DEF QueueOK
    <3>4. batch' # <<>>
      BY <3>1, <3>3
    <3>5. QueueOK'
      BY Zenon, <2>4, <3>1, <3>3, <3>4 DEF TakeBatch, QueueOK
    <3> QED
      BY Zenon, <2>4, <3>5 DEF TakeBatch, FileOK, FaultsOK
  <2>5. CASE Exit
    <3>1. QueueOK'
      BY Zenon, <2>5 DEF Exit, QueueOK
    <3> QED
      BY Zenon, <2>5, <3>1 DEF Exit, FileOK, FaultsOK
  <2>6. CASE WriteBatch
    <3>1. Elems(batch) \subseteq Reqs
      BY DEF QueueOK, Elems
    <3>2. FileOK'
      BY Zenon, <2>6, <3>1 DEF WriteBatch, Written, FileOK
    <3>3. QueueOK'
      BY Zenon, <2>6 DEF WriteBatch, QueueOK
    <3> QED
      BY Zenon, <2>6, <3>2, <3>3 DEF WriteBatch, FaultsOK
  <2>7. ASSUME NEW n \in 0..MaxBatch - 1, WriteBatchFails(n) PROVE QueueOK' /\ FileOK' /\ FaultsOK'
    <3>1. {batch[i] : i \in 1..n} \subseteq Reqs
      BY <2>7 DEF WriteBatchFails, QueueOK
    <3>2. FileOK'
      BY Zenon, <2>7, <3>1 DEF WriteBatchFails, Written, FileOK
    <3>3. QueueOK'
      BY Zenon, <2>7 DEF WriteBatchFails, QueueOK
    <3>4. FaultsOK'
      BY <2>7 DEF WriteBatchFails, FaultsOK, Kinds
    <3> QED
      BY Zenon, <3>2, <3>3, <3>4
  <2>8. ASSUME NEW n \in 0..MaxBatch - 1, WriteBatchTears(n) PROVE QueueOK' /\ FileOK' /\ FaultsOK'
    <3>1. {batch[i] : i \in 1..n} \subseteq Reqs
      BY <2>8 DEF WriteBatchTears, QueueOK
    <3>2. FileOK'
      BY Zenon, <2>8, <3>1 DEF WriteBatchTears, Written, FileOK
    <3>3. QueueOK'
      BY Zenon, <2>8 DEF WriteBatchTears, QueueOK
    <3>4. FaultsOK'
      BY <2>8 DEF WriteBatchTears, FaultsOK, Kinds
    <3> QED
      BY Zenon, <3>2, <3>3, <3>4
  <2>9. CASE Sync
    <3>1. QueueOK'
      BY Zenon, <2>9 DEF Sync, QueueOK
    <3> QED
      BY Zenon, <2>9, <3>1 DEF Sync, FileOK, FaultsOK
  <2>10. CASE SyncFails
    <3>1. QueueOK'
      BY Zenon, <2>10 DEF SyncFails, QueueOK
    <3>2. FaultsOK'
      BY <2>10 DEF SyncFails, FaultsOK, Kinds
    <3> QED
      BY Zenon, <2>10, <3>1, <3>2 DEF SyncFails, FileOK
  <2>11. CASE ResolveOne
    <3>1. Len(batch) \in Nat \ {0} /\ Head(batch) \in Reqs /\ Tail(batch) \in Seq(Reqs)
      BY <2>11 DEF ResolveOne, QueueOK
    <3>2. Len(Tail(batch)) = Len(batch) - 1
      BY <3>1 DEF QueueOK
    <3>3. (Tail(batch) = <<>>) <=> (Len(Tail(batch)) = 0)
      BY Zenon, <3>1, EmptyFacts
    <3>4. answer' \in [Reqs -> Answers]
      BY Zenon, <2>11, <3>1 DEF ResolveOne, QueueOK
    <3>5. batch' \in Seq(Reqs) /\ Len(batch') <= MaxBatch
      BY <2>11, <3>1, <3>2 DEF ResolveOne, QueueOK
    <3>6. phase' \in Phases /\ ((batch' = <<>>) <=> (phase' \in {"wait", "exited"}))
      <4>1. CASE Len(batch) = 1
        BY <2>11, <3>1, <3>2, <3>3, <4>1 DEF ResolveOne
      <4>2. CASE Len(batch) # 1
        BY <2>11, <3>1, <3>2, <3>3, <4>2 DEF ResolveOne
      <4> QED
        BY Zenon, <4>1, <4>2
    <3>7. QueueOK'
      BY Zenon, <2>11, <3>4, <3>5, <3>6 DEF ResolveOne, QueueOK
    <3> QED
      BY Zenon, <2>11, <3>7 DEF ResolveOne, FileOK, FaultsOK
  <2>12. CASE ResolvePendingWaiters
    <3>1. QueueOK'
      BY <2>12 DEF ResolvePendingWaiters, QueueOK
    <3>2. FaultsOK'
      BY <2>12 DEF ResolvePendingWaiters, FaultsOK, Kinds
    <3> QED
      BY Zenon, <2>12, <3>1, <3>2 DEF ResolvePendingWaiters, FileOK
  <2>13. CASE Compact
    <3>1. QueueOK'
      BY Zenon, <2>13 DEF Compact, QueueOK
    <3>2. FileOK'
      BY Zenon, <2>13 DEF Compact, Live, FileOK
    <3> QED
      BY Zenon, <2>13, <3>1, <3>2 DEF Compact, FaultsOK
  <2>14. CASE CompactReopenFails
    <3>1. QueueOK'
      BY Zenon, <2>14 DEF CompactReopenFails, QueueOK
    <3>2. FileOK'
      BY Zenon, <2>14 DEF CompactReopenFails, Live, FileOK
    <3>3. FaultsOK'
      BY <2>14 DEF CompactReopenFails, FaultsOK, Kinds
    <3> QED
      BY Zenon, <3>1, <3>2, <3>3
  <2>15. CASE Restart
    <3>1. QueueOK'
      <4>1. queue' \in Seq(Reqs) /\ batch' \in Seq(Reqs) /\ batch' = <<>> /\ Len(batch') <= MaxBatch
        BY <2>15 DEF Restart
      <4> QED
        BY Zenon, <2>15, <4>1 DEF Restart, QueueOK
    <3>2. FileOK'
      <4>1. disk' \subseteq Reqs /\ fd' \subseteq Reqs
        BY <2>15 DEF Restart, CrashImages, FileOK
      <4> QED
        BY Zenon, <2>15, <4>1 DEF Restart, FileOK
    <3>3. FaultsOK'
      BY <2>15 DEF Restart, FaultsOK, Kinds
    <3> QED
      BY Zenon, <3>1, <3>2, <3>3
  <2>16. CASE UNCHANGED vars
    BY Zenon, <2>16 DEF vars, QueueOK, FileOK, FaultsOK
  <2> QED
    BY Zenon, <2>1, <2>2, <2>3, <2>4, <2>5, <2>6, <2>7, <2>8, <2>9, <2>10, <2>11, <2>12, <2>13,
       <2>14, <2>15, <2>16 DEF Next, FlushThread
<1> QED
  BY <1>1, <1>2, PTL DEF Spec

----------------------------------------------------------------------------
(* The queue                                                               *)

\* Every accepted entry is in the queue or in the batch, once, until it is
\* answered (Submit, FlushLoop, FlushBatch and ResolvePendingWaiters).
THEOREM QueueInvariant == Spec => []QueueInv
<1>1. Init => QueueInv
  <2> SUFFICES ASSUME Init PROVE QueueInv
    BY Zenon
  <2>1. Len(queue) = 0 /\ Len(batch) = 0 /\ Elems(queue) = {} /\ Elems(batch) = {}
    BY DEF Init, Elems
  <2> QED
    BY <2>1 DEF Init, QueueInv, Distinct
<1>2. TypeOK /\ TypeOK' /\ QueueInv /\ [Next]_vars => QueueInv'
  <2> SUFFICES ASSUME TypeOK, TypeOK', QueueInv, [Next]_vars PROVE QueueInv'
    BY Zenon
  <2>1. ASSUME NEW r \in Reqs, Submit(r) PROVE QueueInv'
    <3>1. r \notin Elems(queue) /\ r \notin Elems(batch)
      BY Zenon, <2>1 DEF Submit, QueueInv
    <3>2. Distinct(queue') /\ Elems(queue') = Elems(queue) \cup {r}
      BY <2>1, <3>1, AppendFacts DEF Submit, QueueInv, TypeOK, QueueOK, FileOK
    <3>3. answer' = [answer EXCEPT ![r] = "waiting"] /\ batch' = batch
      BY Zenon, <2>1 DEF Submit
    <3>4. phase' = "exited" => queue' = <<>> /\ shutdown'
      BY Zenon, <2>1 DEF Submit, QueueInv
    <3> QED
      BY <3>1, <3>2, <3>3, <3>4 DEF QueueInv, TypeOK, QueueOK, FileOK
  <2>2. ASSUME NEW r \in Reqs, SubmitRefused(r) PROVE QueueInv'
    BY Zenon, <2>2 DEF SubmitRefused, QueueInv, TypeOK, QueueOK, FileOK, queueVars
  <2>3. CASE Shutdown
    BY Zenon, <2>3 DEF Shutdown, QueueInv
  <2>4. CASE TakeBatch
    <3> DEFINE take == IF Len(queue) < MaxBatch THEN Len(queue) ELSE MaxBatch
    <3>1. take \in 0..Len(queue)
      BY DEF TypeOK, QueueOK, FileOK
    <3>2. batch' = SubSeq(queue, 1, take) /\ queue' = SubSeq(queue, take + 1, Len(queue))
      BY Zenon, <2>4 DEF TakeBatch
    <3> HIDE DEF take
    <3>3. /\ Distinct(batch') /\ Distinct(queue')
          /\ Elems(batch') \cup Elems(queue') = Elems(queue)
          /\ Elems(batch') \cap Elems(queue') = {}
      BY <3>1, <3>2, SplitFacts DEF QueueInv, TypeOK, QueueOK, FileOK
    <3>4. batch = <<>> /\ phase' # "exited" /\ answer' = answer
      BY Zenon, <2>4 DEF TakeBatch, TypeOK, QueueOK, FileOK
    <3>5. Elems(batch) = {}
      BY <3>4 DEF Elems
    <3> QED
      BY Zenon, <3>3, <3>4, <3>5 DEF QueueInv
  <2>5. CASE Exit
    BY Zenon, <2>5 DEF Exit, QueueInv
  <2>6. CASE WriteBatch
    BY Zenon, <2>6 DEF WriteBatch, QueueInv
  <2>7. ASSUME NEW n \in 0..MaxBatch - 1, WriteBatchFails(n) \/ WriteBatchTears(n)
        PROVE  QueueInv'
    BY Zenon, <2>7 DEF WriteBatchFails, WriteBatchTears, QueueInv
  <2>8. CASE Sync \/ SyncFails
    BY Zenon, <2>8 DEF Sync, SyncFails, QueueInv
  <2>9. CASE ResolveOne
    <3>1. batch # <<>> /\ phase # "exited" /\ phase' # "exited" /\ st # "waiting"
      BY Zenon, <2>9 DEF ResolveOne, TypeOK, QueueOK, FileOK
    <3>2. /\ Head(batch) \in Reqs
          /\ Distinct(Tail(batch))
          /\ Head(batch) \notin Elems(Tail(batch))
          /\ Elems(batch) = {Head(batch)} \cup Elems(Tail(batch))
      BY Zenon, <3>1, TailFacts DEF QueueInv, TypeOK, QueueOK, FileOK
    <3>3. batch' = Tail(batch) /\ queue' = queue /\ answer' = [answer EXCEPT ![Head(batch)] = st]
      BY Zenon, <2>9 DEF ResolveOne
    <3> QED
      BY <3>1, <3>2, <3>3 DEF QueueInv, TypeOK, QueueOK, FileOK
  <2>10. CASE ResolvePendingWaiters
    <3>1. Distinct(batch') /\ Elems(batch') = {}
      BY <2>10 DEF ResolvePendingWaiters, Distinct, Elems
    <3>2. /\ answer' = [r \in Reqs |-> IF r \in Elems(batch) THEN "error" ELSE answer[r]]
          /\ queue' = queue /\ phase' # "exited"
      BY Zenon, <2>10 DEF ResolvePendingWaiters
    <3> QED
      BY Zenon, <3>1, <3>2 DEF QueueInv, TypeOK, QueueOK, FileOK
  <2>11. CASE Compact \/ CompactReopenFails
    BY Zenon, <2>11 DEF Compact, CompactReopenFails, QueueInv, queueVars
  <2>12. CASE Restart
    <3>1. /\ Distinct(batch') /\ Elems(batch') = {}
          /\ Distinct(queue') /\ Elems(queue') = {}
      BY <2>12 DEF Restart, Distinct, Elems
    <3>2. /\ answer' = [r \in Reqs |-> IF answer[r] = "waiting" THEN "error" ELSE answer[r]]
          /\ phase' # "exited"
      BY Zenon, <2>12 DEF Restart
    <3> QED
      BY Zenon, <3>1, <3>2 DEF QueueInv, TypeOK, QueueOK, FileOK
  <2>13. CASE UNCHANGED vars
    BY Zenon, <2>13 DEF vars, queueVars, QueueInv
  <2> QED
    BY Zenon, <2>1, <2>2, <2>3, <2>4, <2>5, <2>6, <2>7, <2>8, <2>9, <2>10, <2>11, <2>12,
       <2>13 DEF Next, FlushThread
<1> QED
  BY <1>1, <1>2, TypeCorrect, PTL DEF Spec

\* Shutdown returns only when every Submit future has been resolved, whatever
\* faults and crashes happened: FlushLoop drains the queue before it exits.
THEOREM ExitAnswersAll == Spec => []ExitedMeansAllAnswered
<1>1. TypeOK /\ QueueInv => ExitedMeansAllAnswered
  <2> SUFFICES ASSUME TypeOK, QueueInv, phase = "exited", NEW r \in Reqs
               PROVE  answer[r] # "waiting"
    BY Zenon DEF ExitedMeansAllAnswered
  <2>1. queue = <<>> /\ batch = <<>>
    BY Zenon DEF TypeOK, QueueOK, FileOK, QueueInv
  <2>2. Elems(queue) = {} /\ Elems(batch) = {}
    BY <2>1 DEF Elems
  <2> QED
    BY Zenon, <2>2 DEF QueueInv
<1> QED
  BY <1>1, TypeCorrect, QueueInvariant, PTL

----------------------------------------------------------------------------
(* Durability                                                              *)

\* Compact loses nothing: a record is kept or its transaction is finalized in
\* the same file.
LEMMA LiveFacts ==
  ASSUME NEW S \in SUBSET Reqs
  PROVE  /\ Live(S) \subseteq S
         /\ Live(S) \cap Terminal = {}
         /\ \A p \in Live(S) : Txn[p] \notin Finalized(S)
         /\ \A r \in S \ Live(S) : Txn[r] \in Finalized(S \ Live(S))
<1>1. /\ Live(S) \subseteq S
      /\ Live(S) \cap Terminal = {}
      /\ \A p \in Live(S) : Txn[p] \notin Finalized(S)
  BY Zenon DEF Live
<1>2. Finalized(S) = Finalized(S \ Live(S))
  BY Zenon, <1>1 DEF Finalized
<1>3. \A r \in S \ Live(S) : Txn[r] \in Finalized(S)
  BY Zenon DEF Live, Finalized
<1> QED
  BY Zenon, <1>1, <1>2, <1>3

\* With clean write failures only, the batch in flight is in the file from its
\* write on and on disk from its sync on, compactions included (WriteBatch,
\* Sync, Compact, ReadAll).
THEOREM LogInvariant ==
  ASSUME MaxTorn = 0, MaxReopenFaults = 0
  PROVE  Spec => []LogInv
<1>1. Init => LogInv
  BY Zenon DEF Init, LogInv, Finalized
<1>2. TypeOK /\ TypeOK' /\ QueueInv /\ LogInv /\ [Next]_vars => LogInv'
  <2> SUFFICES ASSUME TypeOK, TypeOK', QueueInv, LogInv, [Next]_vars PROVE LogInv'
    BY Zenon
  <2>0. \A i \in 1..Len(batch) : batch[i] \in Reqs /\ answer[batch[i]] = "waiting"
    BY DEF TypeOK, QueueOK, FileOK, QueueInv, Elems
  \* A record waiting in the batch belongs to no finalized transaction yet.
  <2>b. ASSUME NEW p \in Elems(batch) \ Terminal PROVE Txn[p] \notin Finalized(settled)
    <3> SUFFICES ASSUME NEW q \in settled \cap Terminal, Txn[q] = Txn[p] PROVE FALSE
      BY Zenon DEF Finalized
    <3>1. PICK o \in Reqs \ Terminal : Txn[o] = Txn[q] /\ answer[o] = "ok"
      BY Zenon DEF LogInv
    <3>2. p \in Reqs /\ answer[p] = "waiting"
      BY <2>0 DEF Elems
    <3> QED
      BY Zenon, <3>1, <3>2, ReqsAssumption
  <2>1. ASSUME NEW r \in Reqs, Submit(r) \/ SubmitRefused(r) PROVE LogInv'
    <3>1. /\ answer[r] = "none" /\ MaySubmit(r)
          /\ answer' \in {[answer EXCEPT ![r] = "waiting"], [answer EXCEPT ![r] = "error"]}
          /\ UNCHANGED <<fd, disk, torn, linked, settled, batch, phase, st>>
      BY Zenon, <2>1 DEF Submit, SubmitRefused, fileVars, queueVars
    <3>2. \A x \in Reqs : answer'[x] # answer[x] => x = r /\ answer'[x] \in {"waiting", "error"}
      BY <3>1 DEF TypeOK, QueueOK, FileOK
    <3>3. \A x \in Reqs : answer[x] # "none" => answer'[x] # "none"
      BY Zenon, <3>1, <3>2
    <3>4. \A q \in Terminal : answer'[q] # "none" =>
            \E p \in Reqs \ Terminal : Txn[p] = Txn[q] /\ answer'[p] = "ok"
      BY <3>1, <3>2 DEF MaySubmit, LogInv
    <3>5. \A x \in fd \cup settled : answer'[x] # "none"
      BY Zenon, <3>3 DEF LogInv, TypeOK, QueueOK, FileOK
    <3>6. \A x \in Reqs : answer'[x] = "ok" => x \in disk \cup settled
      BY Zenon, <3>2 DEF LogInv
    <3> QED
      BY Zenon, <3>1, <3>4, <3>5, <3>6 DEF LogInv
  <2>2. CASE Shutdown \/ TakeBatch \/ Exit
    <3>1. UNCHANGED <<answer, fd, disk, torn, linked, settled>>
      BY Zenon, <2>2 DEF Shutdown, TakeBatch, Exit, fileVars
    <3>2. (phase' = phase /\ batch' = batch /\ st' = st) \/ phase' \in {"write", "exited"}
      BY Zenon, <2>2 DEF Shutdown, TakeBatch, Exit
    <3> QED
      BY Zenon, <3>1, <3>2 DEF LogInv
  <2>3. CASE WriteBatch
    <3>1. /\ fd' = fd \cup Elems(batch) /\ phase' = "sync" /\ batch' = batch
          /\ UNCHANGED <<answer, disk, torn, linked, settled>>
      BY Zenon, <2>3 DEF WriteBatch, Written, LogInv
    <3>2. \A r \in Elems(batch) : answer[r] # "none"
      BY <2>0 DEF Elems
    <3> QED
      BY Zenon, <3>1, <3>2, <2>b DEF LogInv
  <2>4. ASSUME NEW n \in 0..MaxBatch - 1, WriteBatchFails(n) PROVE LogInv'
    <3>1. /\ fd' = fd \cup {batch[i] : i \in 1..n} /\ phase' = "resolve" /\ st' = "error"
          /\ UNCHANGED <<answer, disk, torn, linked, settled>>
      BY Zenon, <2>4 DEF WriteBatchFails, Written, LogInv
    <3>2. {batch[i] : i \in 1..n} \subseteq Elems(batch)
      BY <2>4 DEF WriteBatchFails, Elems, TypeOK, QueueOK, FileOK
    <3>3. \A r \in Elems(batch) : answer[r] # "none"
      BY <2>0 DEF Elems
    <3> QED
      BY Zenon, <3>1, <3>2, <3>3, <2>b DEF LogInv
  <2>5. ASSUME NEW n \in 0..MaxBatch - 1, WriteBatchTears(n) PROVE LogInv'
    BY <2>5 DEF WriteBatchTears, TypeOK, FaultsOK, Kinds
  <2>6. CASE Sync
    <3>1. /\ disk' = fd /\ phase' = "resolve" /\ batch' = batch
          /\ UNCHANGED <<answer, fd, torn, linked, settled>>
      BY Zenon, <2>6 DEF Sync, LogInv
    <3>2. phase = "sync"
      BY Zenon, <2>6 DEF Sync
    <3> QED
      BY Zenon, <3>1, <3>2 DEF LogInv
  <2>7. CASE SyncFails
    BY Zenon, <2>7 DEF SyncFails, LogInv, fileVars
  <2>8. CASE ResolveOne
    <3>1. batch # <<>> /\ phase = "resolve"
      BY Zenon, <2>8 DEF ResolveOne, TypeOK, QueueOK, FileOK
    <3>2. /\ Head(batch) \in Reqs /\ Head(batch) \in Elems(batch)
          /\ Elems(Tail(batch)) \subseteq Elems(batch)
      BY <3>1, TailFacts DEF TypeOK, QueueOK, FileOK, QueueInv
    <3>3. /\ answer' = [answer EXCEPT ![Head(batch)] = st] /\ batch' = Tail(batch)
          /\ phase' \in {"resolve", "wait"}
          /\ UNCHANGED <<st, fd, disk, torn, linked, settled>>
      BY Zenon, <2>8 DEF ResolveOne, fileVars
    <3>4. answer[Head(batch)] = "waiting" /\ st \in {"ok", "error"}
      BY Zenon, <3>2 DEF QueueInv, TypeOK, QueueOK, FileOK
    <3>5. \A x \in Reqs : answer[x] \in {"none", "ok"} => answer'[x] = answer[x]
      BY Zenon, <3>3, <3>4 DEF TypeOK, QueueOK, FileOK
    <3>6. \A x \in Reqs : answer'[x] = "none" => answer[x] = "none"
      BY Zenon, <3>3, <3>4 DEF TypeOK, QueueOK, FileOK
    <3>7. \A x \in Reqs : answer'[x] = "ok" => x \in disk \cup settled
      BY <3>1, <3>2, <3>3 DEF LogInv, TypeOK, QueueOK, FileOK
    <3>8. \A q \in Terminal : answer'[q] # "none" =>
            \E p \in Reqs \ Terminal : Txn[p] = Txn[q] /\ answer'[p] = "ok"
      BY <3>5, ReqsAssumption DEF LogInv
    <3>9. \A x \in fd \cup settled : answer'[x] # "none"
      BY Zenon, <3>6 DEF LogInv, TypeOK, QueueOK, FileOK
    <3> QED
      BY Zenon, <3>1, <3>2, <3>3, <3>7, <3>8, <3>9 DEF LogInv
  <2>9. CASE ResolvePendingWaiters
    <3>1. /\ answer' = [r \in Reqs |-> IF r \in Elems(batch) THEN "error" ELSE answer[r]]
          /\ phase' = "wait"
          /\ UNCHANGED <<fd, disk, torn, linked, settled>>
      BY Zenon, <2>9 DEF ResolvePendingWaiters, fileVars
    <3>2. \A x \in Elems(batch) : answer[x] = "waiting"
      BY <2>0 DEF Elems
    <3>3. \A q \in Terminal : answer'[q] # "none" =>
            \E p \in Reqs \ Terminal : Txn[p] = Txn[q] /\ answer'[p] = "ok"
      BY Zenon, <3>1, <3>2, ReqsAssumption DEF LogInv
    <3> QED
      BY Zenon, <3>1, <3>2, <3>3 DEF LogInv, TypeOK, QueueOK, FileOK
  <2>10. CASE Compact
    <3>1. /\ disk' = Live(fd) /\ fd' = Live(fd) /\ settled' = settled \cup (fd \ Live(fd))
          /\ UNCHANGED <<answer, batch, phase, st>>
          /\ ~torn' /\ linked'
      BY Zenon, <2>10 DEF Compact, queueVars
    <3>2. fd \in SUBSET Reqs
      BY Zenon DEF TypeOK, QueueOK, FileOK
    <3>3. fd' \cup settled' = fd \cup settled /\ disk \cup settled \subseteq disk' \cup settled'
      BY Zenon, <3>1, <3>2, LiveFacts DEF LogInv
    <3>4. \A r \in settled' : Txn[r] \in Finalized(settled')
      BY <3>1, <3>2, LiveFacts DEF LogInv, Finalized
    <3>5. \A p \in fd' \ Terminal : Txn[p] \notin Finalized(settled')
      BY <3>1, <3>2, LiveFacts DEF LogInv, Finalized
    <3> QED
      BY Zenon, <3>1, <3>3, <3>4, <3>5 DEF LogInv
  <2>11. CASE CompactReopenFails
    BY <2>11 DEF CompactReopenFails, TypeOK, FaultsOK, Kinds
  <2>12. CASE Restart
    <3>1. PICK img \in CrashImages : disk' = img /\ fd' = img
      BY Zenon, <2>12 DEF Restart
    <3>2. disk \subseteq img /\ img \subseteq fd
      BY <3>1 DEF CrashImages, LogInv
    <3>3. /\ answer' = [r \in Reqs |-> IF answer[r] = "waiting" THEN "error" ELSE answer[r]]
          /\ phase' = "wait" /\ settled' = settled /\ ~torn' /\ linked'
      BY Zenon, <2>12 DEF Restart
    <3>4. \A q \in Terminal : answer'[q] # "none" =>
            \E p \in Reqs \ Terminal : Txn[p] = Txn[q] /\ answer'[p] = "ok"
      BY Zenon, <3>3, ReqsAssumption DEF LogInv
    <3> QED
      BY Zenon, <3>1, <3>2, <3>3, <3>4 DEF LogInv, TypeOK, QueueOK, FileOK
  <2>13. CASE UNCHANGED vars
    BY Zenon, <2>13 DEF vars, queueVars, fileVars, LogInv
  <2> QED
    BY Zenon, <2>1, <2>2, <2>3, <2>4, <2>5, <2>6, <2>7, <2>8, <2>9, <2>10, <2>11, <2>12,
       <2>13 DEF Next, FlushThread
<1> QED
  BY <1>1, <1>2, TypeCorrect, QueueInvariant, PTL DEF Spec

\* An Ok future is crash-safe as long as no pwrite stores part of a record and
\* no reopen fails: whatever the batch size, the number of write and sync
\* failures, compactions and crashes.
THEOREM OkFutureIsCrashSafe ==
  ASSUME MaxTorn = 0, MaxReopenFaults = 0
  PROVE  Spec => []OkIsRecoverable
<1>1. TypeOK /\ LogInv => OkIsRecoverable
  <2> SUFFICES ASSUME TypeOK, LogInv, NEW img \in CrashImages,
                      NEW r \in Reqs, answer[r] = "ok"
               PROVE  Honours(img, r)
    BY Zenon DEF OkIsRecoverable
  <2>1. disk \subseteq img /\ img \subseteq fd
    BY DEF CrashImages, LogInv
  <2>2. r \in disk \cup settled
    BY Zenon DEF LogInv
  <2>3. CASE r \in Terminal
    <3>1. CASE r \in disk
      BY Zenon, <2>1, <2>3, <3>1 DEF Honours, Finalized
    <3>2. CASE r \in settled
      BY Zenon, <2>1, <2>3, <3>2 DEF Honours, Finalized, LogInv
    <3> QED
      BY Zenon, <2>2, <3>1, <3>2
  <2>4. CASE r \notin Terminal
    <3>1. CASE r \in disk
      BY Zenon, <2>1, <2>4, <3>1 DEF Honours
    <3>2. CASE r \in settled
      <4>1. PICK q \in settled \cap Terminal : Txn[q] = Txn[r]
        BY <3>2 DEF LogInv, Finalized
      <4> QED
        BY Zenon, <2>4, <4>1 DEF Honours, LogInv
    <3> QED
      BY Zenon, <2>2, <3>1, <3>2
  <2> QED
    BY Zenon, <2>3, <2>4
<1> QED
  BY <1>1, TypeCorrect, LogInvariant, PTL

----------------------------------------------------------------------------
(* Refinement                                                              *)

\* The group commit writer implements the caller's view of it: one answer for
\* each future, Ok only for a record that a restart honours, and no record
\* that stops being honoured (GroupCommitWriter::Submit).
THEOREM RefinesDurableAppend ==
  ASSUME MaxTorn = 0, MaxReopenFaults = 0
  PROVE  Spec => ImplementsDurableAppend
<1> DEFINE durable == disk \cup settled
<1>1. Init => Promise!Init
  BY Zenon DEF Init, Promise!Init
<1>2. TypeOK /\ TypeOK' /\ QueueInv /\ LogInv /\ LogInv' /\ [Next]_vars => [Promise!Next]_(Promise!vars)
  <2> SUFFICES ASSUME TypeOK, TypeOK', QueueInv, LogInv, LogInv', [Next]_vars
               PROVE  Promise!Next \/ UNCHANGED <<answer, durable>>
    BY Zenon DEF Promise!vars
  <2>0. \A x \in fd \cup disk \cup settled : x \in Reqs /\ answer[x] # "none"
    BY Zenon DEF LogInv, TypeOK, QueueOK, FileOK
  \* A step of the file alone adds records that were submitted.
  <2>p. ASSUME answer' = answer, durable \subseteq durable', durable' \subseteq fd \cup durable
        PROVE  Promise!Next
    <3>1. durable' = durable \cup (durable' \ durable)
      BY Zenon, <2>p
    <3>2. durable' \ durable \in SUBSET Reqs
      BY Zenon, <2>p, <2>0
    <3>3. Promise!Persist(durable' \ durable)
      BY Zenon, <2>p, <2>0, <3>1 DEF Promise!Persist
    <3> QED
      BY Zenon, <3>2, <3>3 DEF Promise!Next
  <2>1. ASSUME NEW r \in Reqs, Submit(r) PROVE Promise!Next
    <3>1. Promise!Accept(r)
      BY Zenon, <2>1 DEF Submit, Promise!Accept, fileVars
    <3> QED
      BY Zenon, <3>1 DEF Promise!Next
  <2>2. ASSUME NEW r \in Reqs, SubmitRefused(r) PROVE Promise!Next
    <3>1. Promise!Refuse(r)
      BY Zenon, <2>2 DEF SubmitRefused, Promise!Refuse, fileVars
    <3> QED
      BY Zenon, <3>1 DEF Promise!Next
  <2>3. CASE Shutdown \/ TakeBatch \/ Exit \/ WriteBatch \/ SyncFails
    BY Zenon, <2>3 DEF Shutdown, TakeBatch, Exit, WriteBatch, SyncFails, fileVars
  <2>4. ASSUME NEW n \in 0..MaxBatch - 1, WriteBatchFails(n) \/ WriteBatchTears(n)
        PROVE  UNCHANGED <<answer, durable>>
    BY Zenon, <2>4 DEF WriteBatchFails, WriteBatchTears
  <2>5. CASE Sync
    <3>1. answer' = answer /\ disk' = fd /\ settled' = settled /\ disk \subseteq fd
      BY Zenon, <2>5 DEF Sync, LogInv
    <3> QED
      BY Zenon, <3>1, <2>p
  <2>6. CASE ResolveOne
    <3>1. batch # <<>> /\ phase = "resolve"
      BY Zenon, <2>6 DEF ResolveOne, TypeOK, QueueOK, FileOK
    <3>2. Head(batch) \in Reqs /\ Head(batch) \in Elems(batch)
      BY <3>1, TailFacts DEF TypeOK, QueueOK, FileOK, QueueInv
    <3>3. answer[Head(batch)] = "waiting"
      BY Zenon, <3>2 DEF QueueInv
    <3>4. /\ answer' = [answer EXCEPT ![Head(batch)] = st]
          /\ durable' = durable
      BY Zenon, <2>6 DEF ResolveOne, fileVars
    <3>5. CASE st = "ok"
      <4>1. Promise!AnswerOk(Head(batch))
        BY Zenon, <3>1, <3>2, <3>3, <3>4, <3>5 DEF Promise!AnswerOk, LogInv
      <4> QED
        BY Zenon, <3>2, <4>1 DEF Promise!Next
    <3>6. CASE st = "error"
      <4>1. answer' = [x \in Reqs |-> IF x \in {Head(batch)} THEN "error" ELSE answer[x]]
        BY Zenon, <3>2, <3>4, <3>6 DEF TypeOK, QueueOK, FileOK
      <4>2. Promise!AnswerError({Head(batch)})
        BY Zenon, <3>3, <3>4, <4>1 DEF Promise!AnswerError
      <4> QED
        BY Zenon, <3>2, <4>2 DEF Promise!Next
    <3> QED
      BY Zenon, <3>5, <3>6 DEF TypeOK, QueueOK, FileOK
  <2>7. CASE ResolvePendingWaiters
    <3>1. Elems(batch) \in SUBSET Reqs
      BY DEF Elems, TypeOK, QueueOK, FileOK
    <3>2. \A x \in Elems(batch) : answer[x] = "waiting"
      BY Zenon, <3>1 DEF QueueInv
    <3>3. Promise!AnswerError(Elems(batch))
      BY Zenon, <2>7, <3>2 DEF ResolvePendingWaiters, Promise!AnswerError, fileVars
    <3> QED
      BY Zenon, <3>1, <3>3 DEF Promise!Next
  <2>8. CASE Compact \/ CompactReopenFails
    <3>1. answer' = answer /\ disk' = Live(fd) /\ settled' = settled \cup (fd \ Live(fd))
      BY Zenon, <2>8 DEF Compact, CompactReopenFails
    <3>2. Live(fd) \subseteq fd /\ disk \subseteq fd
      BY Zenon DEF Live, LogInv
    <3>3. durable \subseteq durable' /\ durable' \subseteq fd \cup durable
      BY Zenon, <3>1, <3>2
    <3> QED
      BY Zenon, <3>1, <3>3, <2>p
  <2>9. CASE Restart
    <3>1. PICK img \in CrashImages : disk' = img
      BY Zenon, <2>9 DEF Restart
    <3>2. disk \subseteq img /\ img \subseteq fd
      BY <3>1 DEF CrashImages, LogInv
    <3>3. /\ durable' = durable \cup (img \ disk)
          /\ img \ disk \in SUBSET Reqs
          /\ \A x \in img \ disk : answer[x] # "none"
      BY Zenon, <2>9, <3>1, <3>2, <2>0 DEF Restart
    <3>4. Promise!Restart(img \ disk)
      BY Zenon, <2>9, <3>3 DEF Restart, Promise!Restart
    <3> QED
      BY Zenon, <3>3, <3>4 DEF Promise!Next
  <2>10. CASE UNCHANGED vars
    BY Zenon, <2>10 DEF vars, fileVars
  <2> QED
    BY Zenon, <2>1, <2>2, <2>3, <2>4, <2>5, <2>6, <2>7, <2>8, <2>9, <2>10 DEF Next, FlushThread
<1> QED
  BY <1>1, <1>2, TypeCorrect, QueueInvariant, LogInvariant, PTL
  DEF Spec, ImplementsDurableAppend, Promise!Spec
=============================================================================
