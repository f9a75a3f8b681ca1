--------------------------- MODULE Uploads_proofs ---------------------------
(***************************************************************************)
(* The order of uploads, and what their callers are told, for any number    *)
(* of rows, mutations, failures and reconnections.                         *)
(***************************************************************************)
EXTENDS Uploads, SequenceTheorems, TLAPS

Stages == {"new", "writing", "written", "failed"}
Working == {"map", "fetch", "answer", "complete"}

Settled == applied \cup refused
\* The number of mutations that have left the queue.
Gone == Len(written) - Len(queue)

QueueTypes ==
  /\ stage \in [Mutations -> Stages]
  /\ written \in Seq(Mutations) /\ queue \in Seq(Mutations)
  /\ Len(queue) <= Len(written)

(* Every mutation is written once, and sent only after that.               *)
WrittenOnce ==
  /\ \A i, j \in DOMAIN written : written[i] = written[j] => i = j
  /\ \A i \in DOMAIN written : stage[written[i]] = "written"
  /\ \A m \in sent : m \in Mutations /\ stage[m] = "written"

(* The queue is what was written last; what has left it is settled, and no *)
(* more than its head has been sent.                                       *)
SuffixOfWritten ==
  /\ \A i \in 1..Len(queue) : queue[i] = written[Gone + i]
  /\ \A i \in 1..Gone : written[i] \in Settled
  /\ \A j \in DOMAIN written : written[j] \in sent => j <= Gone + 1

(* uploadData works on the head of the queue, and completes it when it is  *)
(* settled.                                                                *)
WorksOnHead ==
  /\ up \in Working => /\ Len(queue) > 0 /\ entry = 1
                       /\ Len(batch) = 1 /\ batch[1] = queue[1]
  /\ up = "answer" /\ reply \in {"ok", "rejected"} => queue[1] \in Settled
  /\ up = "complete" => queue[1] \in Settled

QueueInv == QueueTypes /\ WrittenOnce /\ SuffixOfWritten /\ WorksOnHead

queueState == <<stage, written, queue, up, batch, entry, reply, applied, refused, sent>>

(* Steps that move nothing of it.                                          *)
LEMMA Elsewhere == ASSUME QueueInv, UNCHANGED queueState PROVE QueueInv'
BY DEF QueueInv, QueueTypes, WrittenOnce, SuffixOfWritten, WorksOnHead, Gone, Settled,
       queueState

(* uploadData returns, throws or rests: the queue is as it was.                     *)
LEMMA Rests ==
  ASSUME QueueInv, up' \notin Working,
         UNCHANGED <<stage, written, queue, applied, refused, sent>>
  PROVE  QueueInv'
BY DEF QueueInv, QueueTypes, WrittenOnce, SuffixOfWritten, WorksOnHead, Gone, Settled,
       Working

(* run, and a write of the local database that queues nothing.             *)
LEMMA StageMoves ==
  ASSUME QueueInv, NEW m \in Mutations, NEW s \in Stages, stage[m] # "written",
         stage' = [stage EXCEPT ![m] = s],
         UNCHANGED <<written, queue, upVars, serverVars>>
  PROVE  QueueInv'
<1>1. QueueTypes'  BY DEF QueueInv, QueueTypes
<1>2. WrittenOnce'  BY DEF QueueInv, QueueTypes, WrittenOnce, serverVars
<1>3. SuffixOfWritten' /\ WorksOnHead'
  BY DEF QueueInv, SuffixOfWritten, WorksOnHead, Gone, Settled, upVars, serverVars
<1> QED  BY <1>1, <1>2, <1>3 DEF QueueInv

(* A written row goes to the end of the queue.                             *)
LEMMA WriteAppends == ASSUME QueueInv, NEW m \in Mutations, Write(m) PROVE QueueInv'
<1> USE DEF QueueInv
<1>1. /\ stage[m] = "writing" /\ stage' = [stage EXCEPT ![m] = "written"]
      /\ queue' = Append(queue, m) /\ written' = Append(written, m)
      /\ UNCHANGED <<up, batch, entry, reply, applied, refused, sent>>
  BY DEF Write, upVars, serverVars
<1>2. /\ written \in Seq(Mutations) /\ queue \in Seq(Mutations)
      /\ Len(written) \in Nat /\ Len(queue) \in Nat /\ Len(queue) <= Len(written)
  BY DEF QueueTypes
<1>3. /\ Len(written') = Len(written) + 1 /\ Len(queue') = Len(queue) + 1
      /\ Gone' = Gone /\ Gone \in Nat /\ Gone + Len(queue) = Len(written)
      /\ written'[Len(written) + 1] = m /\ queue'[Len(queue) + 1] = m
      /\ \A i \in 1..Len(written) : written'[i] = written[i]
      /\ \A i \in 1..Len(queue) : queue'[i] = queue[i]
      /\ DOMAIN written = 1..Len(written) /\ DOMAIN written' = 1..(Len(written) + 1)
  BY <1>1, <1>2 DEF Gone
<1>4. QueueTypes'  BY <1>1, <1>2, <1>3 DEF QueueTypes, Stages
<1>5. \A i \in 1..Len(written) : written[i] # m  BY <1>1, <1>3 DEF WrittenOnce
<1>6. m \notin sent  BY <1>1 DEF WrittenOnce
<1>7. WrittenOnce'
  <2>1. ASSUME NEW i \in DOMAIN written', NEW j \in DOMAIN written', written'[i] = written'[j]
        PROVE  i = j
    <3>1. CASE i <= Len(written) /\ j <= Len(written)
      BY <1>2, <1>3, <2>1, <3>1 DEF WrittenOnce
    <3>2. CASE i = Len(written) + 1 \/ j = Len(written) + 1
      BY <1>2, <1>3, <1>5, <2>1, <3>2
    <3> QED  BY <1>2, <1>3, <3>1, <3>2
  <2>2. ASSUME NEW i \in DOMAIN written' PROVE stage'[written'[i]] = "written"
    <3>1. CASE i <= Len(written)
      BY <1>1, <1>2, <1>3, <1>5, <3>1 DEF QueueTypes, WrittenOnce
    <3>2. CASE i = Len(written) + 1  BY <1>1, <1>3, <3>2 DEF QueueTypes
    <3> QED  BY <1>2, <1>3, <3>1, <3>2
  <2>3. \A n \in sent' : n \in Mutations /\ stage'[n] = "written"
    BY <1>1 DEF QueueTypes, WrittenOnce
  <2> QED  BY <2>1, <2>2, <2>3 DEF WrittenOnce
<1>8. SuffixOfWritten'
  <2>1. ASSUME NEW i \in 1..Len(queue') PROVE queue'[i] = written'[Gone' + i]
    <3>1. CASE i <= Len(queue)
      BY <1>2, <1>3, <3>1 DEF SuffixOfWritten
    <3>2. CASE i = Len(queue) + 1  BY <1>2, <1>3, <3>2
    <3> QED  BY <1>2, <1>3, <3>1, <3>2
  <2>2. \A i \in 1..Gone' : written'[i] \in Settled'
    BY <1>1, <1>2, <1>3 DEF SuffixOfWritten, Settled
  <2>3. ASSUME NEW j \in DOMAIN written', written'[j] \in sent' PROVE j <= Gone' + 1
    <3>1. j # Len(written) + 1  BY <1>1, <1>3, <1>6, <2>3
    <3>2. j \in DOMAIN written /\ written[j] \in sent  BY <1>1, <1>2, <1>3, <2>3, <3>1
    <3> QED  BY <1>3, <3>2 DEF SuffixOfWritten
  <2> QED  BY <2>1, <2>2, <2>3 DEF SuffixOfWritten
<1>9. WorksOnHead'
  BY <1>1, <1>2, <1>3 DEF WorksOnHead, Settled, Working
<1> QED  BY <1>4, <1>7, <1>8, <1>9

(* getCrudBatch(1) takes the head of the queue.                            *)
LEMMA TakesHead == ASSUME QueueInv, TakeBatch PROVE QueueInv'
<1> USE DEF QueueInv
<1>1. /\ queue # <<>> /\ queue \in Seq(Mutations)
      /\ batch' = SubSeq(queue, 1, 1) /\ entry' = 1 /\ up' = "map"
      /\ UNCHANGED <<stage, written, queue, applied, refused, sent>>
  BY DEF TakeBatch, Batch, callerVars, serverVars, QueueTypes
<1>2. Len(queue) \in Nat /\ Len(queue) > 0  BY <1>1
<1>3. Len(batch') = 1 /\ batch'[1] = queue[1]  BY <1>1, <1>2
<1>4. QueueTypes' /\ WrittenOnce' /\ SuffixOfWritten'
  BY <1>1 DEF QueueTypes, WrittenOnce, SuffixOfWritten, Gone, Settled
<1>5. WorksOnHead'  BY <1>1, <1>2, <1>3 DEF WorksOnHead, Working
<1> QED  BY <1>4, <1>5

(* An entry is sent, or the connector refuses to map it.                   *)
LEMMA SendsHead == ASSUME QueueInv, MapEntry PROVE QueueInv'
<1> USE DEF QueueInv
<1>1. /\ up = "map" /\ UNCHANGED <<stage, written, queue, applied, refused>>
      /\ \/ up' = "idle" /\ sent' = sent
         \/ /\ up' = "fetch" /\ sent' = sent \cup {Current}
            /\ UNCHANGED <<batch, entry, reply>>
  BY DEF MapEntry, Return, callerVars, serverVars
<1>2. CASE up' = "idle" /\ sent' = sent  BY <1>1, <1>2, Rests DEF Working
<1>3. CASE /\ up' = "fetch" /\ sent' = sent \cup {Current}
           /\ UNCHANGED <<batch, entry, reply>>
  <2>1. /\ Current = queue[1] /\ Len(queue) > 0 /\ queue \in Seq(Mutations)
        /\ written \in Seq(Mutations) /\ Len(queue) <= Len(written)
    BY <1>1 DEF WorksOnHead, Working, Current, QueueTypes
  <2>2. /\ Gone + 1 \in DOMAIN written /\ queue[1] = written[Gone + 1]
        /\ Gone \in Nat
    BY <2>1 DEF SuffixOfWritten, Gone
  <2>3. QueueTypes'  BY <1>1 DEF QueueTypes
  <2>4. WrittenOnce'
    BY <1>1, <1>3, <2>1, <2>2 DEF WrittenOnce
  <2>5. ASSUME NEW j \in DOMAIN written, written[j] \in sent' PROVE j <= Gone + 1
    <3>1. CASE written[j] \in sent  BY <3>1 DEF SuffixOfWritten
    <3>2. CASE written[j] = written[Gone + 1]
      BY <2>2, <3>2 DEF WrittenOnce
    <3> QED  BY <1>3, <2>1, <2>2, <2>5, <3>1, <3>2
  <2>6. SuffixOfWritten'
    BY <1>1, <2>5 DEF SuffixOfWritten, Gone, Settled
  <2>7. WorksOnHead'  BY <1>1, <1>3 DEF WorksOnHead, Working
  <2> QED  BY <2>3, <2>4, <2>6, <2>7
<1> QED  BY <1>1, <1>2, <1>3

(* The service settles a request, late or in time.                         *)
LEMMA HandleSettles == ASSUME QueueInv, NEW m \in Mutations, Handle(m) PROVE QueueInv'
<1> USE DEF QueueInv
<1>1. PICK answer \in {"ok", "rejected", "busy"} :
        /\ \/ answer # "rejected" /\ applied' = applied \cup {m} /\ UNCHANGED refused
           \/ answer = "rejected" /\ refused' = refused \cup {m} /\ UNCHANGED applied
           \/ answer = "busy" /\ UNCHANGED <<applied, refused>>
        /\ IF up = "fetch" /\ Current = m
             THEN up' = "answer" /\ reply' = answer /\ UNCHANGED <<batch, entry>>
             ELSE UNCHANGED upVars
  BY DEF Handle
<1>2. UNCHANGED <<stage, written, queue, sent>>  BY DEF Handle, callerVars
<1>3. Settled \subseteq Settled'  BY <1>1 DEF Settled
<1>4. answer # "busy" => m \in Settled'  BY <1>1 DEF Settled
<1>5. QueueTypes' /\ WrittenOnce'  BY <1>2 DEF QueueTypes, WrittenOnce
<1>6. SuffixOfWritten'  BY <1>2, <1>3 DEF SuffixOfWritten, Gone
<1>7. WorksOnHead'
  <2>1. CASE up = "fetch" /\ Current = m
    <3>1. m = queue[1]  BY <2>1 DEF WorksOnHead, Working, Current
    <3> QED  BY <1>1, <1>2, <1>4, <2>1, <3>1 DEF WorksOnHead, Working
  <2>2. CASE ~(up = "fetch" /\ Current = m)
    BY <1>1, <1>2, <1>3, <2>2 DEF WorksOnHead, upVars
  <2> QED  BY <2>1, <2>2
<1> QED  BY <1>5, <1>6, <1>7

(* The answer ends the batch of one, or is temporary.                      *)
LEMMA AnswerEnds == ASSUME QueueInv, Answer PROVE QueueInv'
<1> USE DEF QueueInv
<1>1. /\ up = "answer"
      /\ UNCHANGED <<stage, written, queue, applied, refused, sent>>
  BY DEF Answer, Retry, Accepted, Rejected, callerVars, serverVars
<1>2. CASE Retry  BY <1>1, <1>2, Rests DEF Retry, Return, Working
<1>3. CASE Accepted \/ Rejected
  <2>1. /\ up' = "complete" /\ reply \in {"ok", "rejected"}
        /\ UNCHANGED <<batch, entry, reply>>
    BY <1>1, <1>3 DEF Accepted, Rejected, WorksOnHead, Working
  <2>2. QueueTypes' /\ WrittenOnce' /\ SuffixOfWritten'
    BY <1>1 DEF QueueTypes, WrittenOnce, SuffixOfWritten, Gone, Settled
  <2>3. WorksOnHead'  BY <1>1, <2>1 DEF WorksOnHead, Working, Settled
  <2> QED  BY <2>2, <2>3
<1> QED  BY <1>2, <1>3 DEF Answer

(* batch.complete removes the settled head.                                *)
LEMMA CompleteRemoves == ASSUME QueueInv, Complete PROVE QueueInv'
<1> USE DEF QueueInv
<1>1. /\ up = "complete" /\ up' = "notify"
      /\ queue' = SubSeq(queue, Len(batch) + 1, Len(queue)) /\ Len(batch) = 1
      /\ UNCHANGED <<stage, written, applied, refused, sent>>
  BY DEF Complete, callerVars, serverVars, WorksOnHead, Working
<1>2. /\ queue \in Seq(Mutations) /\ written \in Seq(Mutations)
      /\ Len(queue) \in Nat /\ Len(written) \in Nat
      /\ Len(queue) > 0 /\ Len(queue) <= Len(written)
  BY <1>1 DEF QueueTypes, WorksOnHead, Working
<1>3. /\ queue' \in Seq(Mutations) /\ Len(queue') = Len(queue) - 1
      /\ \A i \in 1..(Len(queue) - 1) : queue'[i] = queue[i + 1]
  <2>1. queue' = SubSeq(queue, 2, Len(queue))  BY <1>1
  <2>2. \A i \in 2..Len(queue) : queue[i] \in Mutations  BY <1>2
  <2>3. /\ queue' \in Seq(Mutations)
        /\ Len(queue') = IF 2 <= Len(queue) THEN Len(queue) - 2 + 1 ELSE 0
        /\ \A i \in 1..(Len(queue) - 2 + 1) : queue'[i] = queue[2 + i - 1]
    BY <1>2, <2>1, <2>2, SubSeqProperties
  <2>4. Len(queue') = Len(queue) - 1
    <3>1. CASE 2 <= Len(queue)
      <4>1. Len(queue') = Len(queue) - 2 + 1  BY <2>3, <3>1
      <4> QED  BY <1>2, <4>1
    <3>2. CASE ~(2 <= Len(queue))
      <4>1. Len(queue') = 0  BY <2>3, <3>2
      <4>2. \A n \in Nat : n > 0 /\ ~(2 <= n) => n - 1 = 0  OBVIOUS
      <4>3. Len(queue) - 1 = 0  BY <1>2, <3>2, <4>2, Zenon
      <4> QED  BY <4>1, <4>3
    <3> QED  BY <3>1, <3>2
  <2>5. ASSUME NEW i \in 1..(Len(queue) - 1) PROVE queue'[i] = queue[i + 1]
    <3>1. i \in 1..(Len(queue) - 2 + 1) /\ 2 + i - 1 = i + 1  BY <1>2
    <3> QED  BY <2>3, <3>1
  <2> QED  BY <2>3, <2>4, <2>5
<1>4. Gone' = Gone + 1 /\ Gone \in Nat
  <2>1. written' = written /\ Len(queue') = Len(queue) - 1  BY <1>1, <1>3
  <2> QED  BY <1>2, <2>1 DEF Gone
<1>5. QueueTypes'  BY <1>1, <1>2, <1>3 DEF QueueTypes
<1>6. WrittenOnce'  BY <1>1 DEF WrittenOnce
<1>7. written[Gone + 1] \in Settled
  BY <1>1, <1>2 DEF SuffixOfWritten, WorksOnHead
<1>8. SuffixOfWritten'
  <2>1. ASSUME NEW i \in 1..Len(queue') PROVE queue'[i] = written'[Gone' + i]
    <3>1. i + 1 \in 1..Len(queue) /\ queue'[i] = queue[i + 1]  BY <1>2, <1>3
    <3>2. queue[i + 1] = written[Gone + (i + 1)]  BY <3>1 DEF SuffixOfWritten
    <3>3. Gone + (i + 1) = Gone' + i  BY <1>4
    <3> QED  BY <1>1, <3>1, <3>2, <3>3
  <2>2. \A i \in 1..Gone' : written'[i] \in Settled'
    BY <1>1, <1>4, <1>7 DEF SuffixOfWritten, Settled
  <2>3. \A j \in DOMAIN written' : written'[j] \in sent' => j <= Gone' + 1
    BY <1>1, <1>2, <1>4 DEF SuffixOfWritten
  <2> QED  BY <2>1, <2>2, <2>3 DEF SuffixOfWritten
<1>9. WorksOnHead'  BY <1>1 DEF WorksOnHead, Working
<1> QED  BY <1>5, <1>6, <1>8, <1>9

(* Every step keeps the invariant.                                         *)
LEMMA QueueStep == QueueInv /\ [Next]_vars => QueueInv'
<1> SUFFICES ASSUME QueueInv, [Next]_vars PROVE QueueInv'  OBVIOUS
<1>1. ASSUME NEW m \in Mutations, NEW r \in Rows, Run(m, r) PROVE QueueInv'
  BY <1>1, StageMoves DEF Run, Stages
<1>2. ASSUME NEW m \in Mutations, WriteNothing(m) PROVE QueueInv'
  BY <1>2, StageMoves DEF WriteNothing, Stages
<1>3. ASSUME NEW m \in Mutations, WriteFails(m) PROVE QueueInv'
  BY <1>3, StageMoves DEF WriteFails, Stages
<1>4. CASE NetworkFails
  BY <1>4, Rests DEF NetworkFails, Return, callerVars, Working
<1>5. CASE Notify
  BY <1>5, Rests DEF Notify, Return, serverVars, Working
<1>6. CASE Closed \/ Reload
  BY <1>6, Rests DEF Closed, Reload, Return, callerVars, serverVars, Working
<1>7. CASE Close \/ Abort \/ Connect
  BY <1>7, Elsewhere DEF Close, Abort, Connect, callerVars, upVars, serverVars, queueState
<1>8. CASE UNCHANGED vars
  BY <1>8, Elsewhere DEF vars, callerVars, upVars, serverVars, queueState
<1> QED
  BY <1>1, <1>2, <1>3, <1>4, <1>5, <1>6, <1>7, <1>8, WriteAppends, HandleSettles, TakesHead,
     SendsHead, AnswerEnds, CompleteRemoves DEF Next, Upload

(* For any number of mutations, retries, late requests and reconnections,  *)
(* a mutation leaves the queue only with an answer of the service, and none *)
(* is sent before every earlier one has had one: uploadData.               *)
THEOREM UploadsKeepOrder == Spec => []UploadsInOrder
<1>1. Init => QueueInv
  BY DEF Init, QueueInv, QueueTypes, WrittenOnce, SuffixOfWritten, WorksOnHead, Gone, Stages,
         Working
<1>2. QueueInv => UploadsInOrder
  <2> SUFFICES ASSUME QueueInv, NEW i \in DOMAIN written PROVE
        LET settled == written[i] \in applied \cup refused IN
        /\ ~Contains(queue, written[i]) => settled
        /\ \A j \in DOMAIN written : i < j /\ written[j] \in sent => settled
    BY DEF UploadsInOrder
  <2> USE DEF QueueInv
  <2>1. /\ Len(queue) \in Nat /\ Len(written) \in Nat /\ Len(queue) <= Len(written)
        /\ DOMAIN written = 1..Len(written) /\ Gone \in Nat
        /\ Gone + Len(queue) = Len(written)
    BY DEF QueueTypes, Gone
  <2>2. i <= Gone => written[i] \in Settled  BY <2>1 DEF SuffixOfWritten
  <2>3. i > Gone => Contains(queue, written[i])
    <3> SUFFICES ASSUME i > Gone PROVE Contains(queue, written[i])  OBVIOUS
    <3>1. i - Gone \in 1..Len(queue) /\ Gone + (i - Gone) = i  BY <2>1
    <3>2. queue[i - Gone] = written[i]  BY <3>1 DEF SuffixOfWritten
    <3> QED  BY <3>1, <3>2 DEF Contains
  <2>4. ASSUME NEW j \in DOMAIN written, i < j, written[j] \in sent PROVE i <= Gone
    BY <2>1, <2>4 DEF SuffixOfWritten
  <2> QED  BY <2>1, <2>2, <2>3, <2>4 DEF Settled
<1> QED  BY <1>1, <1>2, QueueStep, PTL DEF Spec
-----------------------------------------------------------------------------
(* What the callers are told.                                              *)

\* h is a mutation that Unfinished counts: its outcome has not been told yet.
Outstanding(h) ==
  \/ stage[h] = "writing" \/ Contains(queue, h)
  \/ up = "notify" /\ h = batch[1]

(* The batch that is about to be told of has had the answer in reply.      *)
AnswerIsKnown ==
  /\ up \in {"answer", "complete", "notify"} =>
       /\ Len(batch) = 1 /\ entry = 1
       /\ batch[1] \in Mutations /\ stage[batch[1]] # "new"
       /\ reply = "ok" => batch[1] \in applied
       /\ reply = "rejected" => batch[1] \in refused
  /\ up \in {"complete", "notify"} => reply \in {"ok", "rejected"}

(* A waiter that did not begin behind another mutation of its row is the   *)
(* only mutation of the row that may still be told of.                     *)
WaitersKnowTheirOwn ==
  /\ waiters \in [Rows -> Mutations \cup {None}]
  /\ \A r \in Rows : waiters[r] # None =>
       LET m == waiters[r] IN
       /\ row[m] = r /\ stage[m] # "new"
       /\ m \notin behind => \A h \in Mutations : Outstanding(h) /\ row[h] = r => h = m

HeardInv ==
  /\ DOMAIN row = Mutations /\ DOMAIN promise = Mutations
  /\ \A m \in Mutations : stage[m] # "new" => row[m] \in Rows
  /\ AnswerIsKnown /\ WaitersKnowTheirOwn /\ CallersLearnTheirOutcome

(* Who is behind whom is decided once, and an outcome stays.               *)
LEMMA OutcomesStay ==
  ASSUME CallersLearnTheirOutcome, behind \subseteq behind',
         applied \subseteq applied', refused \subseteq refused',
         \A m \in Mutations : promise'[m] \in {"resolved", "rejected"} => promise'[m] = promise[m]
  PROVE  CallersLearnTheirOutcome'
BY DEF CallersLearnTheirOutcome

(* Steps that wait for nobody new, and leave no more to be told.           *)
LEMMA WaitersStay ==
  ASSUME WaitersKnowTheirOwn, QueueTypes, UNCHANGED <<row, behind>>,
         \A m \in Mutations : stage'[m] = "new" => stage[m] = "new",
         \/ waiters' = waiters
         \/ \E r : waiters' = [waiters EXCEPT ![r] = None],
         \A h \in Mutations : Outstanding(h)' => Outstanding(h)
  PROVE  WaitersKnowTheirOwn'
<1>1. /\ waiters' \in [Rows -> Mutations \cup {None}]
      /\ \A r \in Rows : waiters'[r] # None => waiters'[r] = waiters[r]
  BY DEF WaitersKnowTheirOwn
<1> QED  BY <1>1 DEF WaitersKnowTheirOwn, None, Mutations

(* A mutation begins: it waits for itself, or is noted as one behind.      *)
LEMMA RunIsHeard ==
  ASSUME QueueInv, HeardInv, NEW m \in Mutations, NEW r \in Rows, Run(m, r)
  PROVE  HeardInv'
<1>1. /\ waiters[r] = None /\ stage[m] = "new"
      /\ row' = [row EXCEPT ![m] = r] /\ stage' = [stage EXCEPT ![m] = "writing"]
      /\ waiters' = [waiters EXCEPT ![r] = m]
      /\ behind' = (IF Unfinished(r) THEN behind \cup {m} ELSE behind)
      /\ UNCHANGED <<promise, up, batch, entry, reply, applied, refused, queue>>
  BY DEF Run, upVars, serverVars
<1>2. /\ DOMAIN row = Mutations /\ DOMAIN promise = Mutations
      /\ stage \in [Mutations -> Stages] /\ waiters \in [Rows -> Mutations \cup {None}]
  BY DEF HeardInv, QueueInv, QueueTypes, WaitersKnowTheirOwn
<1>3. AnswerIsKnown' /\ \A n \in Mutations : stage'[n] # "new" => row'[n] \in Rows
  BY <1>1, <1>2 DEF HeardInv, AnswerIsKnown
<1>4. CallersLearnTheirOutcome'  BY <1>1, OutcomesStay DEF HeardInv
<1>5. \A h \in Mutations \ {m} :
        row'[h] = row[h] /\ (Outstanding(h)' <=> Outstanding(h))
  BY <1>1, <1>2 DEF Outstanding
<1>6. ASSUME ~Unfinished(r), NEW h \in Mutations, Outstanding(h), row[h] = r PROVE FALSE
  <2>1. up # "notify" \/ h # batch[1]
    <3>1. SUFFICES ASSUME up = "notify", h = batch[1] PROVE FALSE  OBVIOUS
    <3>2. Len(batch) = 1  BY <3>1 DEF HeardInv, AnswerIsKnown
    <3>3. 1 \in 1 .. Len(batch) /\ batch[1] = h  BY <3>1, <3>2
    <3>4. Contains(batch, h)  BY <3>3, Zenon DEF Contains
    <3> QED  BY <1>6, <3>1, <3>4 DEF Unfinished
  <2> QED  BY <1>6, <2>1 DEF Unfinished, Outstanding
<1>7. WaitersKnowTheirOwn'
  <2>1. waiters' \in [Rows -> Mutations \cup {None}]  BY <1>1, <1>2
  <2>2. ASSUME NEW s \in Rows, waiters'[s] # None
        PROVE  LET n == waiters'[s] IN
               /\ row'[n] = s /\ stage'[n] # "new"
               /\ n \notin behind' =>
                    \A h \in Mutations : Outstanding(h)' /\ row'[h] = s => h = n
    <3>1. CASE s = r
      <4>1. waiters'[s] = m /\ row'[m] = s /\ stage'[m] = "writing"  BY <1>1, <1>2, <3>1
      <4>2. ASSUME m \notin behind', NEW h \in Mutations, Outstanding(h)', row'[h] = s
            PROVE  h = m
        <5>1. SUFFICES ASSUME h # m PROVE FALSE  OBVIOUS
        <5>2. ~Unfinished(r)  BY <1>1, <4>2
        <5>3. Outstanding(h) /\ row[h] = r  BY <1>5, <3>1, <4>2, <5>1
        <5> QED  BY <1>6, <5>2, <5>3
      <4> QED  BY <4>1, <4>2
    <3>2. CASE s # r
      <4> DEFINE n == waiters[s]
      <4>1. waiters'[s] = n /\ n # None /\ n \in Mutations  BY <1>1, <1>2, <2>2, <3>2
      <4>2. row[n] = s /\ stage[n] # "new"  BY <4>1 DEF HeardInv, WaitersKnowTheirOwn
      <4>3. n # m  BY <1>1, <4>2
      <4>4. row'[n] = s /\ stage'[n] # "new"  BY <1>1, <1>2, <4>1, <4>2, <4>3
      <4>5. ASSUME n \notin behind', NEW h \in Mutations, Outstanding(h)', row'[h] = s
            PROVE  h = n
        <5>1. h # m  BY <1>1, <1>2, <3>2, <4>5
        <5>2. Outstanding(h) /\ row[h] = s /\ n \notin behind  BY <1>1, <1>5, <4>5, <5>1
        <5> QED  BY <4>1, <5>2 DEF HeardInv, WaitersKnowTheirOwn
      <4> QED  BY <4>1, <4>4, <4>5
    <3> QED  BY <3>1, <3>2
  <2> QED  BY <2>1, <2>2 DEF WaitersKnowTheirOwn
<1> QED  BY <1>1, <1>2, <1>3, <1>4, <1>7 DEF HeardInv

(* A write ends.                                                           *)
LEMMA WriteIsHeard ==
  ASSUME QueueInv, HeardInv, NEW m \in Mutations, Write(m) \/ WriteNothing(m) \/ WriteFails(m)
  PROVE  HeardInv'
<1>1. /\ stage[m] = "writing" /\ \E s \in {"written", "failed"} : stage' = [stage EXCEPT ![m] = s]
      /\ UNCHANGED <<row, promise, behind, up, batch, entry, reply, applied, refused>>
      /\ queue' = queue \/ queue' = Append(queue, m)
      /\ waiters' = waiters \/ \E r : waiters' = [waiters EXCEPT ![r] = None]
  BY DEF Write, WriteNothing, WriteFails, upVars, serverVars
<1>2. stage \in [Mutations -> Stages] /\ queue \in Seq(Mutations) /\ QueueTypes
  BY DEF QueueInv, QueueTypes
<1>3. ASSUME NEW h \in Mutations, Contains(queue', h) PROVE Contains(queue, h) \/ h = m
  BY <1>1, <1>2, <1>3 DEF Contains
<1>4. \A h \in Mutations : Outstanding(h)' => Outstanding(h)
  BY <1>1, <1>2, <1>3 DEF Outstanding
<1>5. \A n \in Mutations : stage'[n] = "new" => stage[n] = "new"  BY <1>1, <1>2
<1>6. WaitersKnowTheirOwn'  BY <1>1, <1>2, <1>4, <1>5, WaitersStay DEF HeardInv
<1>7. AnswerIsKnown' /\ \A n \in Mutations : stage'[n] # "new" => row'[n] \in Rows
  BY <1>1, <1>2 DEF HeardInv, AnswerIsKnown
<1>8. CallersLearnTheirOutcome'  BY <1>1, OutcomesStay DEF HeardInv
<1> QED  BY <1>1, <1>6, <1>7, <1>8 DEF HeardInv

(* uploadData on its way to batch.complete tells nobody anything, nor do   *)
(* databases that close under its feet.                                    *)
LEMMA UploadIsHeard ==
  ASSUME QueueInv, HeardInv, TakeBatch \/ MapEntry \/ Answer \/ NetworkFails \/ Closed
  PROVE  HeardInv'
<1>1. /\ up # "notify" /\ up' # "notify"
      /\ UNCHANGED <<row, stage, promise, behind, waiters, queue, applied, refused>>
      /\ up' \in {"answer", "complete"} => Answer /\ UNCHANGED <<batch, entry, reply>>
  BY DEF TakeBatch, MapEntry, Answer, Retry, Accepted, Rejected, NetworkFails, Closed, Return,
         callerVars, serverVars, QueueInv, WorksOnHead, Working
<1>2. up' = "complete" => up = "answer" /\ reply \in {"ok", "rejected"}
  BY <1>1 DEF Answer, Retry, Accepted, Rejected, Return
<1>3. up' \in {"answer", "complete"} => up = "answer"
  BY <1>1 DEF Answer, Retry, Accepted, Rejected
<1>4. AnswerIsKnown'  BY <1>1, <1>2, <1>3 DEF HeardInv, AnswerIsKnown
<1>5. \A h \in Mutations : Outstanding(h)' => Outstanding(h)  BY <1>1 DEF Outstanding
<1>6. WaitersKnowTheirOwn'
  BY <1>1, <1>5, WaitersStay DEF HeardInv, QueueInv
<1>7. CallersLearnTheirOutcome'  BY <1>1, OutcomesStay DEF HeardInv
<1> QED  BY <1>1, <1>4, <1>6, <1>7 DEF HeardInv

(* The service's answer is the one that uploadData gets.                   *)
LEMMA HandleIsHeard ==
  ASSUME QueueInv, HeardInv, NEW m \in Mutations, Handle(m)
  PROVE  HeardInv'
<1>1. PICK answer \in {"ok", "rejected", "busy"} :
        /\ \/ answer # "rejected" /\ applied' = applied \cup {m} /\ UNCHANGED refused
           \/ answer = "rejected" /\ refused' = refused \cup {m} /\ UNCHANGED applied
           \/ answer = "busy" /\ UNCHANGED <<applied, refused>>
        /\ IF up = "fetch" /\ Current = m
             THEN up' = "answer" /\ reply' = answer /\ UNCHANGED <<batch, entry>>
             ELSE UNCHANGED upVars
  BY DEF Handle
<1>2. UNCHANGED <<row, stage, promise, behind, waiters, queue>>
  BY DEF Handle, callerVars
<1>3. applied \subseteq applied' /\ refused \subseteq refused'  BY <1>1
<1>4. /\ answer = "ok" => m \in applied'
      /\ answer = "rejected" => m \in refused'
  BY <1>1
<1>5. AnswerIsKnown'
  <2>1. CASE up = "fetch" /\ Current = m
    <3>1. Len(batch) = 1 /\ entry = 1 /\ batch[1] = m /\ Len(queue) > 0 /\ m = queue[1]
      BY <2>1 DEF QueueInv, WorksOnHead, Working, Current
    <3>2. stage[m] # "new"
      <4>1. /\ Len(queue) \in Nat /\ Len(written) \in Nat /\ Len(queue) <= Len(written)
            /\ DOMAIN written = 1..Len(written)
        BY DEF QueueInv, QueueTypes
      <4>2. 1 \in 1..Len(queue) /\ Gone + 1 \in DOMAIN written  BY <3>1, <4>1 DEF Gone
      <4>3. m = written[Gone + 1]  BY <3>1, <4>2 DEF QueueInv, SuffixOfWritten
      <4> QED  BY <4>2, <4>3 DEF QueueInv, WrittenOnce
    <3> QED  BY <1>1, <1>2, <1>4, <2>1, <3>1, <3>2 DEF AnswerIsKnown
  <2>2. CASE ~(up = "fetch" /\ Current = m)
    BY <1>1, <1>2, <1>3, <2>2 DEF HeardInv, AnswerIsKnown, upVars
  <2> QED  BY <2>1, <2>2
<1>6. \A h \in Mutations : Outstanding(h)' => Outstanding(h)
  <2>1. up' = "notify" => up = "notify" /\ batch' = batch  BY <1>1 DEF upVars
  <2> QED  BY <1>2, <2>1 DEF Outstanding
<1>7. WaitersKnowTheirOwn'
  BY <1>2, <1>6, WaitersStay DEF HeardInv, QueueInv
<1>8. CallersLearnTheirOutcome'  BY <1>2, <1>3, OutcomesStay DEF HeardInv
<1> QED  BY <1>2, <1>5, <1>7, <1>8 DEF HeardInv

(* What leaves the queue is the batch that is told of next.                *)
LEMMA CompleteIsHeard == ASSUME QueueInv, HeardInv, Complete PROVE HeardInv'
<1>1. /\ up = "complete" /\ up' = "notify"
      /\ queue' = SubSeq(queue, Len(batch) + 1, Len(queue))
      /\ UNCHANGED <<row, stage, promise, behind, waiters, batch, entry, reply,
                     applied, refused>>
  BY DEF Complete, callerVars, serverVars
<1>2. /\ queue \in Seq(Mutations) /\ Len(queue) \in Nat /\ Len(queue) > 0
      /\ Len(batch) = 1 /\ batch[1] = queue[1]
  BY <1>1 DEF QueueInv, QueueTypes, WorksOnHead, Working
<1>3. ASSUME NEW h, Contains(queue', h) PROVE Contains(queue, h)
  <2>1. \A i \in 2..Len(queue) : queue[i] \in Mutations  BY <1>2
  <2>2. /\ Len(queue') = IF 2 <= Len(queue) THEN Len(queue) - 2 + 1 ELSE 0
        /\ \A i \in 1..(Len(queue) - 2 + 1) : queue'[i] = queue[2 + i - 1]
    BY <1>1, <1>2, <2>1, SubSeqProperties
  <2>3. PICK i \in 1..Len(queue') : queue'[i] = h  BY <1>3 DEF Contains
  <2>4. i \in 1..(Len(queue) - 2 + 1) /\ 2 + i - 1 \in 1..Len(queue)  BY <1>2, <2>2
  <2> QED  BY <2>2, <2>3, <2>4 DEF Contains
<1>4. Contains(queue, batch[1])
  <2>1. 1 \in 1..Len(queue)  BY <1>2
  <2> QED  BY <1>2, <2>1 DEF Contains
<1>5. \A h \in Mutations : Outstanding(h)' => Outstanding(h)
  BY <1>1, <1>3, <1>4 DEF Outstanding
<1>6. WaitersKnowTheirOwn'
  BY <1>1, <1>5, WaitersStay DEF HeardInv, QueueInv
<1>7. AnswerIsKnown'  BY <1>1 DEF HeardInv, AnswerIsKnown
<1>8. CallersLearnTheirOutcome'  BY <1>1, OutcomesStay DEF HeardInv
<1> QED  BY <1>1, <1>6, <1>7, <1>8 DEF HeardInv

(* onMutationSuccess and onMutationError tell the waiter of a row, which,  *)
(* if it was not behind, has the mutation that was answered.               *)
LEMMA NotifyIsHeard == ASSUME QueueInv, HeardInv, Notify PROVE HeardInv'
<1> DEFINE h == batch[1]
           told == {row[m] : m \in Successes \cup Failure}
<1>1. /\ up = "notify" /\ up' = "idle"
      /\ waiters' = [r \in Rows |-> IF r \in told THEN None ELSE waiters[r]]
      /\ promise' = [m \in Mutations |->
                       IF row[m] \notin told \/ waiters[row[m]] # m THEN promise[m]
                       ELSE IF row[m] \in {row[n] : n \in Successes} THEN "resolved"
                       ELSE "rejected"]
      /\ UNCHANGED <<row, stage, behind, queue, applied, refused>>
  BY DEF Notify, Return, serverVars
<1>2. /\ reply \in {"ok", "rejected"} /\ Len(batch) = 1 /\ entry = 1
      /\ h \in Mutations /\ row[h] \in Rows
      /\ reply = "ok" => h \in applied
      /\ reply = "rejected" => h \in refused
  BY <1>1 DEF HeardInv, AnswerIsKnown
<1>3. /\ reply = "ok" => Successes = {h} /\ Failure = {}
      /\ reply = "rejected" => Successes = {} /\ Failure = {h}
  <2>1. 1..1 = {1} /\ 1..(1 - 1) = {}  OBVIOUS
  <2> QED  BY <1>2, <2>1 DEF Successes, Failure, Current
<1>4. told = {row[h]}  BY <1>2, <1>3
<1> HIDE DEF told
<1>5. /\ waiters \in [Rows -> Mutations \cup {None}]
      /\ DOMAIN row = Mutations /\ DOMAIN promise = Mutations /\ None \notin Mutations
  BY DEF HeardInv, WaitersKnowTheirOwn, None, Mutations
<1>6. ASSUME NEW m \in Mutations \ behind, row[m] = row[h], waiters[row[m]] = m,
             row[m] \in Rows, h \in Mutations
      PROVE  m = h
  <2>1. Outstanding(h)  BY <1>1 DEF Outstanding
  <2> QED  BY <1>5, <1>6, <2>1 DEF HeardInv, WaitersKnowTheirOwn
<1>7. CallersLearnTheirOutcome'
  <2> SUFFICES ASSUME NEW m \in Mutations \ behind
               PROVE  /\ promise'[m] = "resolved" => m \in applied
                      /\ promise'[m] = "rejected" => m \in refused
    BY <1>1 DEF CallersLearnTheirOutcome
  <2>1. CASE promise'[m] = promise[m]
    BY <2>1 DEF HeardInv, CallersLearnTheirOutcome
  <2>2. CASE promise'[m] # promise[m]
    <3>1. row[m] = row[h] /\ waiters[row[m]] = m  BY <1>1, <1>4, <2>2
    <3>2. m = h
      BY <1>2, <1>6, <3>1
    <3>3. CASE reply = "ok"
      BY <1>1, <1>2, <1>3, <1>4, <3>1, <3>2, <3>3
    <3>4. CASE reply = "rejected"
      BY <1>1, <1>2, <1>3, <1>4, <3>1, <3>2, <3>4
    <3> QED  BY <1>2, <3>3, <3>4
  <2> QED  BY <2>1, <2>2
<1>8. AnswerIsKnown'  BY <1>1 DEF AnswerIsKnown
<1>9. WaitersKnowTheirOwn'
  <2>1. waiters' \in [Rows -> Mutations \cup {None}]  BY <1>1, <1>5
  <2>2. \A r \in Rows : waiters'[r] # None => waiters'[r] = waiters[r]  BY <1>1, <1>5
  <2>3. \A g \in Mutations : Outstanding(g)' => Outstanding(g)  BY <1>1 DEF Outstanding
  <2> QED  BY <1>1, <2>1, <2>2, <2>3 DEF HeardInv, WaitersKnowTheirOwn
<1> QED  BY <1>1, <1>5, <1>7, <1>8, <1>9 DEF HeardInv

(* A connection that is closed, and a new one, have no waiters.            *)
LEMMA CloseIsHeard == ASSUME QueueInv, HeardInv, Close \/ Reload \/ Connect PROVE HeardInv'
<1>1. /\ waiters' = [r \in Rows |-> None]
      /\ up' = "idle" \/ UNCHANGED <<up, batch, entry, reply>>
      /\ UNCHANGED <<row, stage, behind, applied, refused>>
      /\ DOMAIN promise' = Mutations
      /\ \A m \in Mutations : promise'[m] \in {"cancelled", "gone", promise[m]}
  BY DEF Close, Reload, Connect, Return, callerVars, upVars, serverVars, HeardInv
<1>2. AnswerIsKnown' /\ WaitersKnowTheirOwn'
  BY <1>1 DEF AnswerIsKnown, WaitersKnowTheirOwn, HeardInv
<1>3. CallersLearnTheirOutcome'  BY <1>1, OutcomesStay DEF HeardInv
<1> QED  BY <1>1, <1>2, <1>3 DEF HeardInv

(* Every step keeps the invariant.                                         *)
LEMMA HeardStep == QueueInv /\ HeardInv /\ [Next]_vars => HeardInv'
<1> SUFFICES ASSUME QueueInv, HeardInv, [Next]_vars PROVE HeardInv'  OBVIOUS
<1>1. CASE UNCHANGED vars \/ Abort
  <2>1. UNCHANGED <<row, stage, promise, behind, waiters, queue, up, batch, entry, reply,
                    applied, refused>>
    BY <1>1 DEF vars, Abort, callerVars, upVars, serverVars
  <2> QED  BY <2>1 DEF HeardInv, AnswerIsKnown, WaitersKnowTheirOwn, Outstanding,
                       CallersLearnTheirOutcome
<1> QED
  BY <1>1, RunIsHeard, WriteIsHeard, UploadIsHeard, HandleIsHeard, CompleteIsHeard,
     NotifyIsHeard, CloseIsHeard DEF Next, Upload

(* For any number of mutations, rows and reconnections, a caller is told   *)
(* the outcome of its own mutation: MutationCoordinator, as long as it did *)
(* not begin while an earlier mutation of its row was unfinished.          *)
THEOREM CallersAreToldTheTruth == Spec => []CallersLearnTheirOutcome
<1>1. Init => QueueInv /\ HeardInv
  BY DEF Init, QueueInv, QueueTypes, WrittenOnce, SuffixOfWritten, WorksOnHead, Gone, Stages,
         Working, HeardInv, AnswerIsKnown, WaitersKnowTheirOwn, CallersLearnTheirOutcome
<1>2. HeardInv => CallersLearnTheirOutcome  BY DEF HeardInv
<1> QED  BY <1>1, <1>2, QueueStep, HeardStep, PTL DEF Spec
=============================================================================
