------------------------- MODULE ChargeOutbox_proofs -------------------------
(***************************************************************************)
(* Proofs about ChargeOutbox, for every set of orders, every batch size    *)
(* and every bound on the clock and the failures.                          *)
(***************************************************************************)
EXTENDS ChargeOutbox, TLAPS

(* Every step keeps the types: one step of the proof per action.           *)
LEMMA TypeStep == TypeOK /\ [Next]_vars => TypeOK'
  <1> SUFFICES ASSUME TypeOK, [Next]_vars
               PROVE  TypeOK'
    OBVIOUS
  <1> USE DEF TypeOK, OrderStatus, OutboxStatus, Answers, Stages, Post, Bit
  <1>1. CASE Tick
    BY <1>1 DEF Tick, Expired
  <1>2. CASE TickAbandonFails
    BY <1>2 DEF TickAbandonFails, rowVars, Fault
  <1>3. CASE EndBatch
    BY <1>3 DEF EndBatch, rowVars, localVars
  <1>4. ASSUME NEW o \in Orders, ReadRow(o)
         PROVE  TypeOK'
    BY <1>4 DEF ReadRow, Open, rowVars
  <1>5. ASSUME NEW n \in PostIds, SendPost(n)
         PROVE  TypeOK'
    BY <1>5, BoundsAssumption DEF SendPost, FreshPost, Sending, Return, PostIds,
           localVars
  <1>6. CASE SendFails
    BY <1>6 DEF SendFails, Sending, Return, Fault
  <1>7. CASE TransportError
    BY <1>7 DEF TransportError, Requeue, Return, Fault
  <1>8. CASE OnCreated
    BY <1>8 DEF OnCreated, Receive, Waiting, rowVars, localVars
  <1>9. CASE OnFreshConflict
    BY <1>9 DEF OnFreshConflict, Receive, Waiting, FailOrder, Requeue, Return, Fault
  <1>10. CASE OnRecoveryConflict
    BY <1>10 DEF OnRecoveryConflict, Receive, Waiting, rowVars, localVars
  <1>11. CASE OnRejected
    BY <1>11 DEF OnRejected, Receive, Waiting, Requeue, Return, Fault
  <1>12. CASE GetFound
    BY <1>12 DEF GetFound, rowVars, localVars
  <1>13. CASE GetFails
    BY <1>13 DEF GetFails, Requeue, Return, Fault
  <1>14. CASE MarkReported
    BY <1>14 DEF MarkReported, ChargeOrder, Return, Open
  <1>15. CASE MarkFails
    BY <1>15 DEF MarkFails, ChargeOrder, Requeue, Return, Open, Fault
  <1>16. ASSUME NEW p \in posts, Precheck(p)
         PROVE  TypeOK'
    BY <1>16 DEF Precheck, Answer, Waiting, gizwayVars, rowVars, localVars, Fault
  <1>17. ASSUME NEW p \in posts, Reject(p)
         PROVE  TypeOK'
    BY <1>17 DEF Reject, Answer, Waiting, gizwayVars, rowVars, localVars, Fault
  <1>18. ASSUME NEW p \in posts, CommitCharge(p)
         PROVE  TypeOK'
    BY <1>18 DEF CommitCharge, Answer, Waiting, gizwayVars, rowVars, localVars,
           Fault
  <1>19. ASSUME NEW p \in posts, Lose(p)
         PROVE  TypeOK'
    BY <1>19 DEF Lose, gizwayVars, rowVars, localVars, Fault
  <1>20. CASE Crash
    BY <1>20 DEF Crash, rowVars, Fault
  <1>21. CASE Restart
    BY <1>21 DEF Restart, localVars
  <1>22. CASE RestartUpdateFails
    BY <1>22 DEF RestartUpdateFails, rowVars, localVars, Fault
  <1>23. CASE AdvanceClock
    BY <1>23 DEF AdvanceClock, gizwayVars, rowVars, localVars
  <1>24. ASSUME NEW o \in Orders, CompleteCall(o)
         PROVE  TypeOK'
    BY <1>24 DEF CompleteCall, localVars
  <1>25. ASSUME NEW o \in Orders, CompleteCallFails(o)
         PROVE  TypeOK'
    BY <1>25 DEF CompleteCallFails, localVars, Fault
  <1>26. CASE UNCHANGED vars
    BY <1>26 DEF vars
  <1>27. CASE TickSelectFails
    BY <1>27 DEF TickSelectFails, Expired, localVars, Fault
  <1> QED
    BY <1>1, <1>2, <1>3, <1>4, <1>5, <1>6, <1>7, <1>8, <1>9, <1>10, <1>11,
           <1>12, <1>13, <1>14, <1>15, <1>16, <1>17, <1>18, <1>19, <1>20, <1>21,
           <1>22, <1>23, <1>24, <1>25, <1>26, <1>27
       DEF Next, Calls, Worker, GizPay, Process

(* The process starts with no order, an idle worker and no POST.           *)
LEMMA TypeInit == Init => TypeOK
  BY OrdersAssumption DEF Init, TypeOK, OrderStatus, OutboxStatus, Bit

(* The variables keep their types: the statuses are those the tables'      *)
(* CHECK constraints allow, and the worker, wherever it stands in          *)
(* reportOutbox, has an order in hand.                                     *)
THEOREM TypeCorrect == Spec => []TypeOK
  BY TypeInit, TypeStep, PTL DEF Spec

-----------------------------------------------------------------------------
(* Every step keeps the POSTs apart, and answers only the one that the     *)
(* worker waits for.                                                       *)
LEMMA PostsInvStep == SafetyInv /\ [Next]_vars => PostsInv'
  <1> SUFFICES ASSUME SafetyInv, [Next]_vars
               PROVE  PostsInv'
    OBVIOUS
  <1> USE DEF SafetyInv, TypeOK, PostsInv, WorkerInv, ChargeInv, Answers, Stages,
         Post, Bit,
              OrderStatus, OutboxStatus
  <1>1. CASE Tick
    BY <1>1 DEF Tick, Expired, Waiting
  <1>2. CASE TickAbandonFails
    BY <1>2 DEF TickAbandonFails, Waiting, rowVars, Fault
  <1>3. CASE EndBatch
    BY <1>3 DEF EndBatch, Waiting, rowVars, localVars
  <1>4. ASSUME NEW o \in Orders, ReadRow(o)
         PROVE  PostsInv'
    BY <1>4 DEF ReadRow, Open, Waiting, rowVars
  <1>5. ASSUME NEW n \in PostIds, SendPost(n)
         PROVE  PostsInv'
    BY <1>5 DEF SendPost, FreshPost, Sending, Return, PostIds, Waiting, localVars
  <1>6. CASE SendFails
    BY <1>6 DEF SendFails, Sending, Return, Waiting, Fault
  <1>7. CASE TransportError
    BY <1>7 DEF TransportError, Requeue, Return, Waiting, Fault
  <1>8. CASE OnCreated
    BY <1>8 DEF OnCreated, Receive, Waiting, rowVars, localVars
  <1>9. CASE OnFreshConflict
    BY <1>9 DEF OnFreshConflict, Receive, Waiting, FailOrder, Requeue, Return, Fault
  <1>10. CASE OnRecoveryConflict
    BY <1>10 DEF OnRecoveryConflict, Receive, Waiting, rowVars, localVars
  <1>11. CASE OnRejected
    BY <1>11 DEF OnRejected, Receive, Waiting, Requeue, Return, Fault
  <1>12. CASE GetFound
    BY <1>12 DEF GetFound, Waiting, rowVars, localVars
  <1>13. CASE GetFails
    BY <1>13 DEF GetFails, Requeue, Return, Waiting, Fault
  <1>14. CASE MarkReported
    BY <1>14 DEF MarkReported, ChargeOrder, Return, Open, Waiting
  <1>15. CASE MarkFails
    BY <1>15 DEF MarkFails, ChargeOrder, Requeue, Return, Open, Waiting, Fault
  <1>16. ASSUME NEW p \in posts, Precheck(p)
         PROVE  PostsInv'
    BY <1>16 DEF Precheck, Answer, Waiting, gizwayVars, rowVars, localVars, Fault
  <1>17. ASSUME NEW p \in posts, Reject(p)
         PROVE  PostsInv'
    BY <1>17 DEF Reject, Answer, Waiting, gizwayVars, rowVars, localVars, Fault
  <1>18. ASSUME NEW p \in posts, CommitCharge(p)
         PROVE  PostsInv'
    BY <1>18 DEF CommitCharge, Answer, Waiting, gizwayVars, rowVars, localVars,
           Fault
  <1>19. ASSUME NEW p \in posts, Lose(p)
         PROVE  PostsInv'
    BY <1>19 DEF Lose, Waiting, gizwayVars, rowVars, localVars, Fault
  <1>20. CASE Crash
    BY <1>20 DEF Crash, Waiting, rowVars, Fault
  <1>21. CASE Restart
    BY <1>21 DEF Restart, Waiting, localVars
  <1>22. CASE RestartUpdateFails
    BY <1>22 DEF RestartUpdateFails, Waiting, rowVars, localVars, Fault
  <1>23. CASE AdvanceClock
    BY <1>23 DEF AdvanceClock, Waiting, gizwayVars, rowVars, localVars
  <1>24. ASSUME NEW o \in Orders, CompleteCall(o)
         PROVE  PostsInv'
    BY <1>24 DEF CompleteCall, Waiting, localVars
  <1>25. ASSUME NEW o \in Orders, CompleteCallFails(o)
         PROVE  PostsInv'
    BY <1>25 DEF CompleteCallFails, Waiting, localVars, Fault
  <1>26. CASE UNCHANGED vars
    BY <1>26 DEF vars, Waiting
  <1>27. CASE TickSelectFails
    BY <1>27 DEF TickSelectFails, Expired, Waiting, localVars, Fault
  <1> QED
    BY <1>1, <1>2, <1>3, <1>4, <1>5, <1>6, <1>7, <1>8, <1>9, <1>10, <1>11,
           <1>12, <1>13, <1>14, <1>15, <1>16, <1>17, <1>18, <1>19, <1>20, <1>21,
           <1>22, <1>23, <1>24, <1>25, <1>26, <1>27
       DEF Next, Calls, Worker, GizPay, Process

(* Every step keeps what the worker knows of its row: nobody else writes   *)
(* the row while reportOutbox has it in hand.                              *)
LEMMA WorkerInvStep == SafetyInv /\ [Next]_vars => WorkerInv'
  <1> SUFFICES ASSUME SafetyInv, [Next]_vars
               PROVE  WorkerInv'
    OBVIOUS
  <1> USE DEF SafetyInv, TypeOK, PostsInv, WorkerInv, ChargeInv, Answers, Stages,
         Post, Bit,
              OrderStatus, OutboxStatus
  <1>1. CASE Tick
    BY <1>1 DEF Tick, Expired, Open, Waiting
  <1>2. CASE TickAbandonFails
    BY <1>2 DEF TickAbandonFails, Open, Waiting, rowVars, Fault
  <1>3. CASE EndBatch
    BY <1>3 DEF EndBatch, Open, Waiting, rowVars, localVars
  <1>4. ASSUME NEW o \in Orders, ReadRow(o)
         PROVE  WorkerInv'
    BY <1>4 DEF ReadRow, Open, Waiting, rowVars
  <1>5. ASSUME NEW n \in PostIds, SendPost(n)
         PROVE  WorkerInv'
    BY <1>5 DEF SendPost, FreshPost, Sending, Return, PostIds, Open, Waiting,
           localVars
  <1>6. CASE SendFails
    BY <1>6 DEF SendFails, Sending, Return, Open, Waiting, Fault
  <1>7. CASE TransportError
    BY <1>7 DEF TransportError, Requeue, Return, Open, Waiting, Fault
  <1>8. CASE OnCreated
    BY <1>8 DEF OnCreated, Receive, Waiting, Open, rowVars, localVars
  <1>9. CASE OnFreshConflict
    BY <1>9 DEF OnFreshConflict, Receive, Waiting, FailOrder, Requeue, Return,
           Open, Fault
  <1>10. CASE OnRecoveryConflict
    BY <1>10 DEF OnRecoveryConflict, Receive, Waiting, Open, rowVars, localVars
  <1>11. CASE OnRejected
    BY <1>11 DEF OnRejected, Receive, Waiting, Requeue, Return, Open, Fault
  <1>12. CASE GetFound
    BY <1>12 DEF GetFound, Open, Waiting, rowVars, localVars
  <1>13. CASE GetFails
    BY <1>13 DEF GetFails, Requeue, Return, Open, Waiting, Fault
  <1>14. CASE MarkReported
    BY <1>14 DEF MarkReported, ChargeOrder, Return, Open, Waiting
  <1>15. CASE MarkFails
    BY <1>15 DEF MarkFails, ChargeOrder, Requeue, Return, Open, Waiting, Fault
  <1>16. ASSUME NEW p \in posts, Precheck(p)
         PROVE  WorkerInv'
    BY <1>16 DEF Precheck, Answer, Waiting, Open, gizwayVars, rowVars,
           localVars, Fault
  <1>17. ASSUME NEW p \in posts, Reject(p)
         PROVE  WorkerInv'
    BY <1>17 DEF Reject, Answer, Waiting, Open, gizwayVars, rowVars, localVars,
           Fault
  <1>18. ASSUME NEW p \in posts, CommitCharge(p)
         PROVE  WorkerInv'
    BY <1>18 DEF CommitCharge, Answer, Waiting, Open, gizwayVars, rowVars,
           localVars, Fault
  <1>19. ASSUME NEW p \in posts, Lose(p)
         PROVE  WorkerInv'
    BY <1>19 DEF Lose, Open, Waiting, gizwayVars, rowVars, localVars, Fault
  <1>20. CASE Crash
    BY <1>20 DEF Crash, Open, Waiting, rowVars, Fault
  <1>21. CASE Restart
    BY <1>21 DEF Restart, Open, Waiting, localVars
  <1>22. CASE RestartUpdateFails
    BY <1>22 DEF RestartUpdateFails, Open, Waiting, rowVars, localVars, Fault
  <1>23. CASE AdvanceClock
    BY <1>23 DEF AdvanceClock, Open, Waiting, gizwayVars, rowVars, localVars
  <1>24. ASSUME NEW o \in Orders, CompleteCall(o)
         PROVE  WorkerInv'
    BY <1>24 DEF CompleteCall, Open, Waiting, localVars
  <1>25. ASSUME NEW o \in Orders, CompleteCallFails(o)
         PROVE  WorkerInv'
    BY <1>25 DEF CompleteCallFails, Open, Waiting, localVars, Fault
  <1>26. CASE UNCHANGED vars
    BY <1>26 DEF vars, Open, Waiting
  <1>27. CASE TickSelectFails
    BY <1>27 DEF TickSelectFails, Expired, Open, Waiting, localVars, Fault
  <1> QED
    BY <1>1, <1>2, <1>3, <1>4, <1>5, <1>6, <1>7, <1>8, <1>9, <1>10, <1>11,
           <1>12, <1>13, <1>14, <1>15, <1>16, <1>17, <1>18, <1>19, <1>20, <1>21,
           <1>22, <1>23, <1>24, <1>25, <1>26, <1>27
       DEF Next, Calls, Worker, GizPay, Process

(* Every step keeps each sign of success backed by a Charge in GizPay.     *)
LEMMA ChargeInvStep == SafetyInv /\ [Next]_vars => ChargeInv'
  <1> SUFFICES ASSUME SafetyInv, [Next]_vars
               PROVE  ChargeInv'
    OBVIOUS
  <1> USE DEF SafetyInv, TypeOK, PostsInv, WorkerInv, ChargeInv, Answers, Stages,
         Post, Bit,
              OrderStatus, OutboxStatus
  <1>1. CASE Tick
    BY <1>1 DEF Tick, Expired, ReportedIsCharged, Waiting, Open
  <1>2. CASE TickAbandonFails
    BY <1>2 DEF TickAbandonFails, ReportedIsCharged, Waiting, Open, rowVars, Fault
  <1>3. CASE EndBatch
    BY <1>3 DEF EndBatch, ReportedIsCharged, Waiting, Open, rowVars, localVars
  <1>4. ASSUME NEW o \in Orders, ReadRow(o)
         PROVE  ChargeInv'
    BY <1>4 DEF ReadRow, Open, ReportedIsCharged, Waiting, rowVars
  <1>5. ASSUME NEW n \in PostIds, SendPost(n)
         PROVE  ChargeInv'
    BY <1>5 DEF SendPost, FreshPost, Sending, Return, PostIds,
           ReportedIsCharged, Waiting, Open, localVars
  <1>6. CASE SendFails
    BY <1>6 DEF SendFails, Sending, Return, ReportedIsCharged, Waiting, Open, Fault
  <1>7. CASE TransportError
    BY <1>7 DEF TransportError, Requeue, Return, ReportedIsCharged, Waiting,
           Open, Fault
  <1>8. CASE OnCreated
    BY <1>8 DEF OnCreated, Receive, Waiting, ReportedIsCharged, Open, rowVars,
           localVars
  <1>9. CASE OnFreshConflict
    BY <1>9 DEF OnFreshConflict, Receive, Waiting, FailOrder, Requeue, Return,
           ReportedIsCharged, Open, Fault
  <1>10. CASE OnRecoveryConflict
    BY <1>10 DEF OnRecoveryConflict, Receive, Waiting, ReportedIsCharged, Open,
           rowVars, localVars
  <1>11. CASE OnRejected
    BY <1>11 DEF OnRejected, Receive, Waiting, Requeue, Return,
           ReportedIsCharged, Open, Fault
  <1>12. CASE GetFound
    BY <1>12 DEF GetFound, ReportedIsCharged, Waiting, Open, rowVars, localVars
  <1>13. CASE GetFails
    BY <1>13 DEF GetFails, Requeue, Return, ReportedIsCharged, Waiting, Open, Fault
  <1>14. CASE MarkReported
    BY <1>14 DEF MarkReported, ChargeOrder, Return, Open, ReportedIsCharged, Waiting
  <1>15. CASE MarkFails
    BY <1>15 DEF MarkFails, ChargeOrder, Requeue, Return, Open,
           ReportedIsCharged, Waiting, Fault
  <1>16. ASSUME NEW p \in posts, Precheck(p)
         PROVE  ChargeInv'
    BY <1>16 DEF Precheck, Answer, Waiting, ReportedIsCharged, Open, gizwayVars,
           rowVars, localVars, Fault
  <1>17. ASSUME NEW p \in posts, Reject(p)
         PROVE  ChargeInv'
    BY <1>17 DEF Reject, Answer, Waiting, ReportedIsCharged, Open, gizwayVars,
           rowVars, localVars, Fault
  <1>18. ASSUME NEW p \in posts, CommitCharge(p)
         PROVE  ChargeInv'
    BY <1>18 DEF CommitCharge, Answer, Waiting, ReportedIsCharged, Open,
           gizwayVars, rowVars, localVars, Fault
  <1>19. ASSUME NEW p \in posts, Lose(p)
         PROVE  ChargeInv'
    BY <1>19 DEF Lose, ReportedIsCharged, Waiting, Open, gizwayVars, rowVars,
           localVars, Fault
  <1>20. CASE Crash
    BY <1>20 DEF Crash, ReportedIsCharged, Waiting, Open, rowVars, Fault
  <1>21. CASE Restart
    BY <1>21 DEF Restart, ReportedIsCharged, Waiting, Open, localVars
  <1>22. CASE RestartUpdateFails
    BY <1>22 DEF RestartUpdateFails, ReportedIsCharged, Waiting, Open, rowVars,
           localVars, Fault
  <1>23. CASE AdvanceClock
    BY <1>23 DEF AdvanceClock, ReportedIsCharged, Waiting, Open, gizwayVars,
           rowVars, localVars
  <1>24. ASSUME NEW o \in Orders, CompleteCall(o)
         PROVE  ChargeInv'
    BY <1>24 DEF CompleteCall, ReportedIsCharged, Waiting, Open, localVars
  <1>25. ASSUME NEW o \in Orders, CompleteCallFails(o)
         PROVE  ChargeInv'
    BY <1>25 DEF CompleteCallFails, ReportedIsCharged, Waiting, Open, localVars,
           Fault
  <1>26. CASE UNCHANGED vars
    BY <1>26 DEF vars, ReportedIsCharged, Waiting, Open
  <1>27. CASE TickSelectFails
    BY <1>27 DEF TickSelectFails, Expired, ReportedIsCharged, Waiting, Open,
           localVars, Fault
  <1> QED
    BY <1>1, <1>2, <1>3, <1>4, <1>5, <1>6, <1>7, <1>8, <1>9, <1>10, <1>11,
           <1>12, <1>13, <1>14, <1>15, <1>16, <1>17, <1>18, <1>19, <1>20, <1>21,
           <1>22, <1>23, <1>24, <1>25, <1>26, <1>27
       DEF Next, Calls, Worker, GizPay, Process

(* The safety invariant holds at the start.                                *)
LEMMA SafetyInit == Init => SafetyInv
  BY TypeInit, OrdersAssumption
     DEF Init, SafetyInv, PostsInv, WorkerInv, ChargeInv, ReportedIsCharged, Waiting

(* Every step preserves the safety invariant as a whole.                   *)
LEMMA SafetyStep == SafetyInv /\ [Next]_vars => SafetyInv'
  BY TypeStep, PostsInvStep, WorkerInvStep, ChargeInvStep DEF SafetyInv

(* The safety invariant holds in every reachable state.                    *)
LEMMA SafetyInvariant == Spec => []SafetyInv
  BY SafetyInit, SafetyStep, PTL DEF Spec

(* However many POSTs of an order overlap in GizPay, and whatever crashes, *)
(* lost answers and ambiguous commits lie between them, its payer is       *)
(* debited at most once.                                                   *)
THEOREM AtMostOneCharge == Spec => []ChargedAtMostOnce
  <1>1. SafetyInv => ChargedAtMostOnce
    BY DEF SafetyInv, ChargeInv, ChargedAtMostOnce
  <1> QED
    BY <1>1, SafetyInvariant, PTL

(* A reported row and a charged order always have their Charge in GizPay.  *)
THEOREM ReportedImpliesCharge == Spec => []ReportedIsCharged
  <1>1. SafetyInv => ReportedIsCharged
    BY DEF SafetyInv, ChargeInv
  <1> QED
    BY <1>1, SafetyInvariant, PTL

-----------------------------------------------------------------------------
(* When a failed Commit of GizWay has no effect, row and order agree.      *)
LEMMA RowsStep ==
  ASSUME ~AmbiguousLocal, SafetyInv, RowsInv, [Next]_vars
  PROVE  RowsInv'
  <1> USE DEF SafetyInv, TypeOK, WorkerInv, RowsInv, Bit, OrderStatus, OutboxStatus
  <1>1. CASE Tick
    BY <1>1 DEF Tick, Expired, EarnedOncePerCharge, Open
  <1>2. CASE TickAbandonFails
    BY <1>2 DEF TickAbandonFails, EarnedOncePerCharge, Open, rowVars, Fault
  <1>3. CASE EndBatch
    BY <1>3 DEF EndBatch, EarnedOncePerCharge, Open, rowVars, localVars
  <1>4. ASSUME NEW o \in Orders, ReadRow(o)
         PROVE  RowsInv'
    BY <1>4 DEF ReadRow, Open, EarnedOncePerCharge, rowVars
  <1>5. ASSUME NEW n \in PostIds, SendPost(n)
         PROVE  RowsInv'
    BY <1>5 DEF SendPost, FreshPost, Sending, Return, PostIds,
           EarnedOncePerCharge, Open, localVars
  <1>6. CASE SendFails
    BY <1>6 DEF SendFails, Sending, Return, EarnedOncePerCharge, Open, Fault
  <1>7. CASE TransportError
    BY <1>7 DEF TransportError, Requeue, Return, EarnedOncePerCharge, Open, Fault
  <1>8. CASE OnCreated
    BY <1>8 DEF OnCreated, Receive, Waiting, EarnedOncePerCharge, Open, rowVars,
           localVars
  <1>9. CASE OnFreshConflict
    BY <1>9 DEF OnFreshConflict, Receive, Waiting, FailOrder, Requeue, Return,
           EarnedOncePerCharge, Open, Fault
  <1>10. CASE OnRecoveryConflict
    BY <1>10 DEF OnRecoveryConflict, Receive, Waiting, EarnedOncePerCharge,
           Open, rowVars, localVars
  <1>11. CASE OnRejected
    BY <1>11 DEF OnRejected, Receive, Waiting, Requeue, Return,
           EarnedOncePerCharge, Open, Fault
  <1>12. CASE GetFound
    BY <1>12 DEF GetFound, EarnedOncePerCharge, Open, rowVars, localVars
  <1>13. CASE GetFails
    BY <1>13 DEF GetFails, Requeue, Return, EarnedOncePerCharge, Open, Fault
  <1>14. CASE MarkReported
    BY <1>14 DEF MarkReported, ChargeOrder, Return, Open, EarnedOncePerCharge
  <1>15. CASE MarkFails
    BY <1>15 DEF MarkFails, ChargeOrder, Requeue, Return, Open,
           EarnedOncePerCharge, Fault
  <1>16. ASSUME NEW p \in posts, Precheck(p)
         PROVE  RowsInv'
    BY <1>16 DEF Precheck, Answer, Waiting, EarnedOncePerCharge, Open,
           gizwayVars, rowVars, localVars, Fault
  <1>17. ASSUME NEW p \in posts, Reject(p)
         PROVE  RowsInv'
    BY <1>17 DEF Reject, Answer, Waiting, EarnedOncePerCharge, Open, gizwayVars,
           rowVars, localVars, Fault
  <1>18. ASSUME NEW p \in posts, CommitCharge(p)
         PROVE  RowsInv'
    BY <1>18 DEF CommitCharge, Answer, Waiting, EarnedOncePerCharge, Open,
           gizwayVars, rowVars, localVars, Fault
  <1>19. ASSUME NEW p \in posts, Lose(p)
         PROVE  RowsInv'
    BY <1>19 DEF Lose, EarnedOncePerCharge, Open, gizwayVars, rowVars,
           localVars, Fault
  <1>20. CASE Crash
    BY <1>20 DEF Crash, EarnedOncePerCharge, Open, rowVars, Fault
  <1>21. CASE Restart
    BY <1>21 DEF Restart, EarnedOncePerCharge, Open, localVars
  <1>22. CASE RestartUpdateFails
    BY <1>22 DEF RestartUpdateFails, EarnedOncePerCharge, Open, rowVars,
           localVars, Fault
  <1>23. CASE AdvanceClock
    BY <1>23 DEF AdvanceClock, EarnedOncePerCharge, Open, gizwayVars, rowVars,
           localVars
  <1>24. ASSUME NEW o \in Orders, CompleteCall(o)
         PROVE  RowsInv'
    BY <1>24 DEF CompleteCall, EarnedOncePerCharge, Open, localVars
  <1>25. ASSUME NEW o \in Orders, CompleteCallFails(o)
         PROVE  RowsInv'
    BY <1>25 DEF CompleteCallFails, EarnedOncePerCharge, Open, localVars, Fault
  <1>26. CASE UNCHANGED vars
    BY <1>26 DEF vars, EarnedOncePerCharge, Open
  <1>27. CASE TickSelectFails
    BY <1>27 DEF TickSelectFails, Expired, EarnedOncePerCharge, Open, localVars,
           Fault
  <1> QED
    BY <1>1, <1>2, <1>3, <1>4, <1>5, <1>6, <1>7, <1>8, <1>9, <1>10, <1>11,
           <1>12, <1>13, <1>14, <1>15, <1>16, <1>17, <1>18, <1>19, <1>20, <1>21,
           <1>22, <1>23, <1>24, <1>25, <1>26, <1>27
       DEF Next, Calls, Worker, GizPay, Process

(* When GizPay answers an error only if it charged nothing, every step     *)
(* keeps the recovery bit of a row that may have been charged.             *)
LEMMA UncertaintyStep ==
  ASSUME ~AmbiguousRemote, SafetyInv, UncertaintyInv, [Next]_vars
  PROVE  UncertaintyInv'
  <1> USE DEF SafetyInv, TypeOK, PostsInv, WorkerInv, ChargeInv, UncertaintyInv,
         Bit, Post,
              OrderStatus, OutboxStatus, Stages, Answers
  <1>1. CASE Tick
    BY <1>1 DEF Tick, Expired, UncertaintyPersisted, MayBeCharged, Open, Waiting
  <1>2. CASE TickAbandonFails
    BY <1>2 DEF TickAbandonFails, UncertaintyPersisted, MayBeCharged, Open,
           Waiting, rowVars, Fault
  <1>3. CASE EndBatch
    BY <1>3 DEF EndBatch, UncertaintyPersisted, MayBeCharged, Open, Waiting,
           rowVars, localVars
  <1>4. ASSUME NEW o \in Orders, ReadRow(o)
         PROVE  UncertaintyInv'
    BY <1>4 DEF ReadRow, Open, UncertaintyPersisted, MayBeCharged, Waiting, rowVars
  <1>5. ASSUME NEW n \in PostIds, SendPost(n)
         PROVE  UncertaintyInv'
    BY <1>5 DEF SendPost, FreshPost, Sending, Return, PostIds,
           UncertaintyPersisted, MayBeCharged, Open, Waiting, localVars
  <1>6. CASE SendFails
    BY <1>6 DEF SendFails, Sending, Return, UncertaintyPersisted, MayBeCharged,
           Open, Waiting, Fault
  <1>7. CASE TransportError
    BY <1>7 DEF TransportError, Requeue, Return, UncertaintyPersisted,
           MayBeCharged, Open, Waiting, Fault
  <1>8. CASE OnCreated
    BY <1>8 DEF OnCreated, Receive, Waiting, UncertaintyPersisted, MayBeCharged,
           Open, rowVars, localVars
  <1>9. CASE OnFreshConflict
    BY <1>9 DEF OnFreshConflict, Receive, Waiting, FailOrder, Requeue, Return,
           UncertaintyPersisted, MayBeCharged, Open, Fault
  <1>10. CASE OnRecoveryConflict
    BY <1>10 DEF OnRecoveryConflict, Receive, Waiting, UncertaintyPersisted,
           MayBeCharged, Open, rowVars, localVars
  <1>11. CASE OnRejected
    BY <1>11 DEF OnRejected, Receive, Waiting, Requeue, Return,
           UncertaintyPersisted, MayBeCharged, Open, Fault
  <1>12. CASE GetFound
    BY <1>12 DEF GetFound, UncertaintyPersisted, MayBeCharged, Open, Waiting,
           rowVars, localVars
  <1>13. CASE GetFails
    BY <1>13 DEF GetFails, Requeue, Return, UncertaintyPersisted, MayBeCharged,
           Open, Waiting, Fault
  <1>14. CASE MarkReported
    BY <1>14 DEF MarkReported, ChargeOrder, Return, Open, UncertaintyPersisted,
           MayBeCharged, Waiting
  <1>15. CASE MarkFails
    BY <1>15 DEF MarkFails, ChargeOrder, Requeue, Return, Open,
           UncertaintyPersisted, MayBeCharged, Waiting, Fault
  <1>16. ASSUME NEW p \in posts, Precheck(p)
         PROVE  UncertaintyInv'
    BY <1>16 DEF Precheck, Answer, Waiting, UncertaintyPersisted, MayBeCharged,
           Open, gizwayVars, rowVars, localVars, Fault
  <1>17. ASSUME NEW p \in posts, Reject(p)
         PROVE  UncertaintyInv'
    BY <1>17 DEF Reject, Answer, Waiting, UncertaintyPersisted, MayBeCharged,
           Open, gizwayVars, rowVars, localVars, Fault
  <1>18. ASSUME NEW p \in posts, CommitCharge(p)
         PROVE  UncertaintyInv'
    <2> USE DEF CommitCharge, Answer, Waiting, rowVars, localVars, gizwayVars, Fault
    <2>1. UncertaintyPersisted'
      BY <1>18 DEF UncertaintyPersisted, MayBeCharged, Open
    <2>2. \A o \in Orders : outbox'[o] = "none" => ~MayBeCharged(o)'
      BY <1>18 DEF MayBeCharged
    <2>3. ASSUME pc' = "await", rec' = "fresh"
          PROVE  /\ \A q \in posts' : q.order = cur' => q.n = attempt'
                 /\ cur' \notin Foreign /\ debits'[cur'] > 0 =>
                      \E q \in posts' : q.n = attempt' /\ q.stage = "201"
      <3>1. \A q \in posts' : \E r \in posts : r.n = q.n /\ r.order = q.order
        BY <1>18
      <3>2. CASE p.order = cur /\ debits[cur] = 0
        <4>1. Waiting(p)
          BY <1>18, <2>3, <3>2
        <4>2. [p EXCEPT !.stage = "201"] \in posts'
          BY <1>18, <3>2, <4>1
        <4> QED
          BY <1>18, <2>3, <3>1, <4>1, <4>2
      <3>3. CASE ~(p.order = cur /\ debits[cur] = 0)
        <4>1. debits'[cur] = debits[cur]
          BY <1>18, <2>3, <3>3
        <4>2. \A q \in posts : q.stage = "201" => q \in posts'
          BY <1>18
        <4> QED
          BY <1>18, <2>3, <3>1, <4>1, <4>2
      <3> QED
        BY <3>2, <3>3
    <2> QED
      BY <1>18, <2>1, <2>2, <2>3
  <1>19. ASSUME NEW p \in posts, Lose(p)
         PROVE  UncertaintyInv'
    BY <1>19 DEF Lose, UncertaintyPersisted, MayBeCharged, Open, Waiting,
           gizwayVars, rowVars, localVars, Fault
  <1>20. CASE Crash
    BY <1>20 DEF Crash, UncertaintyPersisted, MayBeCharged, Open, Waiting,
           rowVars, Fault
  <1>21. CASE Restart
    BY <1>21 DEF Restart, UncertaintyPersisted, MayBeCharged, Open, Waiting,
           localVars
  <1>22. CASE RestartUpdateFails
    BY <1>22 DEF RestartUpdateFails, UncertaintyPersisted, MayBeCharged, Open,
           Waiting, rowVars, localVars, Fault
  <1>23. CASE AdvanceClock
    BY <1>23 DEF AdvanceClock, UncertaintyPersisted, MayBeCharged, Open,
           Waiting, gizwayVars, rowVars, localVars
  <1>24. ASSUME NEW o \in Orders, CompleteCall(o)
         PROVE  UncertaintyInv'
    BY <1>24 DEF CompleteCall, UncertaintyPersisted, MayBeCharged, Open,
           Waiting, localVars
  <1>25. ASSUME NEW o \in Orders, CompleteCallFails(o)
         PROVE  UncertaintyInv'
    BY <1>25 DEF CompleteCallFails, UncertaintyPersisted, MayBeCharged, Open,
           Waiting, localVars, Fault
  <1>26. CASE UNCHANGED vars
    BY <1>26 DEF vars, UncertaintyPersisted, MayBeCharged, Open, Waiting
  <1>27. CASE TickSelectFails
    BY <1>27 DEF TickSelectFails, Expired, UncertaintyPersisted, MayBeCharged,
           Open, Waiting, localVars, Fault
  <1> QED
    BY <1>1, <1>2, <1>3, <1>4, <1>5, <1>6, <1>7, <1>8, <1>9, <1>10, <1>11,
           <1>12, <1>13, <1>14, <1>15, <1>16, <1>17, <1>18, <1>19, <1>20, <1>21,
           <1>22, <1>23, <1>24, <1>25, <1>26, <1>27
       DEF Next, Calls, Worker, GizPay, Process

(* At the start no order is charged and no row exists.                     *)
LEMMA RowsInit == Init => RowsInv
  BY DEF Init, RowsInv, EarnedOncePerCharge, Open

(* At the start the only Charges are foreign ones.                         *)
LEMMA UncertaintyInit == Init => UncertaintyInv
  BY DEF Init, UncertaintyInv, UncertaintyPersisted, MayBeCharged, Open

(* Unless GizWay's own Commit can fail after taking effect, the commission *)
(* of an order is added to the earned totals exactly once if the order is  *)
(* charged and never otherwise.                                            *)
THEOREM EarnedOnce == ~AmbiguousLocal => (Spec => []EarnedOncePerCharge)
  <1> SUFFICES ASSUME ~AmbiguousLocal
               PROVE  Spec => []EarnedOncePerCharge
    OBVIOUS
  <1>1. SafetyInv /\ RowsInv /\ [Next]_vars => RowsInv'
    BY RowsStep
  <1>2. RowsInv => EarnedOncePerCharge
    BY DEF RowsInv
  <1> QED
    BY <1>1, <1>2, RowsInit, SafetyInvariant, PTL DEF Spec

(* Unless GizPay can answer an error to a Charge it has committed, an open *)
(* row whose POST may have been charged always carries the recovery bit.   *)
THEOREM UncertaintyIsPersisted ==
  ~AmbiguousRemote => (Spec => []UncertaintyPersisted)
  <1> SUFFICES ASSUME ~AmbiguousRemote
               PROVE  Spec => []UncertaintyPersisted
    OBVIOUS
  <1>1. SafetyInv /\ UncertaintyInv /\ [Next]_vars => UncertaintyInv'
    BY UncertaintyStep
  <1>2. UncertaintyInv => UncertaintyPersisted
    BY DEF UncertaintyInv
  <1> QED
    BY <1>1, <1>2, UncertaintyInit, SafetyInvariant, PTL DEF Spec

(* Under the same condition an order that ends billing_failed was not      *)
(* paid for: a 409 is taken for a business conflict only when it is one.   *)
THEOREM FailedOrdersUncharged ==
  ~AmbiguousRemote => (Spec => []FailedIsNotCharged)
  <1> SUFFICES ASSUME ~AmbiguousRemote
               PROVE  Spec => []FailedIsNotCharged
    OBVIOUS
  <1>1. SafetyInv /\ UncertaintyInv /\ [Next]_vars => UncertaintyInv'
    BY UncertaintyStep
  <1>2. SafetyInv /\ UncertaintyInv => FailedIsNotCharged
    BY DEF SafetyInv, TypeOK, UncertaintyInv, MayBeCharged, FailedIsNotCharged
  <1> QED
    BY <1>1, <1>2, UncertaintyInit, SafetyInvariant, PTL DEF Spec

-----------------------------------------------------------------------------
(* A step of the code either leaves money alone, or is the one Charge or   *)
(* the one Credit of an order.                                             *)
LEMMA BillingStep ==
  ASSUME ~AmbiguousLocal, SafetyInv, RowsInv, [Next]_vars
  PROVE  [BillingSpec!Next]_(BillingSpec!bvars)
  <1> USE DEF BillingSpec!Next, BillingSpec!Charge, BillingSpec!Credit, BillingSpec!bvars
  <1> USE DEF SafetyInv, TypeOK
  <1>1. CASE Tick
    BY <1>1 DEF Tick
  <1>2. CASE TickAbandonFails
    BY <1>2 DEF TickAbandonFails, rowVars
  <1>3. CASE EndBatch
    BY <1>3 DEF EndBatch, rowVars
  <1>4. ASSUME NEW o \in Orders, ReadRow(o)
         PROVE  [BillingSpec!Next]_(BillingSpec!bvars)
    BY <1>4 DEF ReadRow, rowVars
  <1>5. ASSUME NEW n \in PostIds, SendPost(n)
         PROVE  [BillingSpec!Next]_(BillingSpec!bvars)
    BY <1>5 DEF SendPost
  <1>6. CASE SendFails
    BY <1>6 DEF SendFails
  <1>7. CASE TransportError
    BY <1>7 DEF TransportError
  <1>8. CASE OnCreated
    BY <1>8 DEF OnCreated, rowVars
  <1>9. CASE OnFreshConflict
    BY <1>9 DEF OnFreshConflict
  <1>10. CASE OnRecoveryConflict
    BY <1>10 DEF OnRecoveryConflict, rowVars
  <1>11. CASE OnRejected
    BY <1>11 DEF OnRejected
  <1>12. CASE GetFound
    BY <1>12 DEF GetFound, rowVars
  <1>13. CASE GetFails
    BY <1>13 DEF GetFails
  <1>14. CASE MarkReported
    <2>1. cur \in Orders /\ debits[cur] = 1 /\ credited[cur] = 0
      BY <1>14 DEF MarkReported, Open, ChargeInv, RowsInv, EarnedOncePerCharge
    <2>2. BillingSpec!Credit(cur)
      BY <1>14, <2>1 DEF MarkReported, ChargeOrder
    <2> QED
      BY <2>1, <2>2
  <1>15. CASE MarkFails
    BY <1>15 DEF MarkFails
  <1>16. ASSUME NEW p \in posts, Precheck(p)
         PROVE  [BillingSpec!Next]_(BillingSpec!bvars)
    BY <1>16 DEF Precheck, gizwayVars, rowVars
  <1>17. ASSUME NEW p \in posts, Reject(p)
         PROVE  [BillingSpec!Next]_(BillingSpec!bvars)
    BY <1>17 DEF Reject, gizwayVars, rowVars
  <1>18. ASSUME NEW p \in posts, CommitCharge(p)
         PROVE  [BillingSpec!Next]_(BillingSpec!bvars)
    <2>1. p.order \in Orders
      BY DEF Post
    <2>2. CASE debits[p.order] > 0
      BY <1>18, <2>2 DEF CommitCharge, gizwayVars, rowVars
    <2>3. CASE debits[p.order] = 0
      <3>1. BillingSpec!Charge(p.order)
        BY <1>18, <2>3 DEF CommitCharge, gizwayVars, rowVars
      <3> QED
        BY <2>1, <3>1
    <2> QED
      BY <2>1, <2>2, <2>3
  <1>19. ASSUME NEW p \in posts, Lose(p)
         PROVE  [BillingSpec!Next]_(BillingSpec!bvars)
    BY <1>19 DEF Lose, gizwayVars, rowVars
  <1>20. CASE Crash
    BY <1>20 DEF Crash, rowVars
  <1>21. CASE Restart
    BY <1>21 DEF Restart
  <1>22. CASE RestartUpdateFails
    BY <1>22 DEF RestartUpdateFails, rowVars
  <1>23. CASE AdvanceClock
    BY <1>23 DEF AdvanceClock, gizwayVars, rowVars
  <1>24. ASSUME NEW o \in Orders, CompleteCall(o)
         PROVE  [BillingSpec!Next]_(BillingSpec!bvars)
    BY <1>24 DEF CompleteCall
  <1>25. ASSUME NEW o \in Orders, CompleteCallFails(o)
         PROVE  [BillingSpec!Next]_(BillingSpec!bvars)
    BY <1>25 DEF CompleteCallFails
  <1>26. CASE UNCHANGED vars
    BY <1>26 DEF vars
  <1>27. CASE TickSelectFails
    BY <1>27 DEF TickSelectFails
  <1> QED
    BY <1>1, <1>2, <1>3, <1>4, <1>5, <1>6, <1>7, <1>8, <1>9, <1>10, <1>11,
           <1>12, <1>13, <1>14, <1>15, <1>16, <1>17, <1>18, <1>19, <1>20, <1>21,
           <1>22, <1>23, <1>24, <1>25, <1>26, <1>27
       DEF Next, Calls, Worker, GizPay, Process

(* Outbox, worker, network and GizPay implement the abstract Billing: the  *)
(* payer pays at most once, the key's owner earns at most once and only    *)
(* for what was paid.                                                      *)
THEOREM Refinement == ~AmbiguousLocal => (Spec => ImplementsBilling)
  <1> SUFFICES ASSUME ~AmbiguousLocal
               PROVE  Spec => ImplementsBilling
    OBVIOUS
  <1>1. Init => BillingSpec!Init
    BY DEF Init, BillingSpec!Init
  <1>2. SafetyInv /\ RowsInv /\ [Next]_vars => RowsInv'
    BY RowsStep
  <1>3. SafetyInv /\ RowsInv /\ [Next]_vars => [BillingSpec!Next]_(BillingSpec!bvars)
    BY BillingStep
  <1> QED
    BY <1>1, <1>2, <1>3, RowsInit, SafetyInvariant, PTL
       DEF Spec, ImplementsBilling, BillingSpec!Spec

(* A settled row and a settled order are never touched again.              *)
LEMMA FinalStep ==
  ASSUME ~AmbiguousLocal, SafetyInv, RowsInv, [Next]_vars, NEW o1 \in Orders
  PROVE  /\ outbox[o1] \in {"reported", "abandoned"} => outbox'[o1] = outbox[o1]
         /\ order[o1] \in {"charged", "billing_failed"} => order'[o1] = order[o1]
  <1> DEFINE Final ==
        /\ outbox[o1] \in {"reported", "abandoned"} => outbox'[o1] = outbox[o1]
        /\ order[o1] \in {"charged", "billing_failed"} => order'[o1] = order[o1]
  <1> SUFFICES Final
    OBVIOUS
  <1> USE DEF SafetyInv, TypeOK, WorkerInv, RowsInv, Open
  <1>1. CASE Tick
    BY <1>1 DEF Tick, Expired
  <1>2. CASE TickAbandonFails
    BY <1>2 DEF TickAbandonFails, rowVars, Fault
  <1>3. CASE EndBatch
    BY <1>3 DEF EndBatch, rowVars, localVars
  <1>4. ASSUME NEW o \in Orders, ReadRow(o)
         PROVE  Final
    BY <1>4 DEF ReadRow, Open, rowVars
  <1>5. ASSUME NEW n \in PostIds, SendPost(n)
         PROVE  Final
    BY <1>5 DEF SendPost, FreshPost, Sending, Return, PostIds, localVars
  <1>6. CASE SendFails
    BY <1>6 DEF SendFails, Sending, Return, Fault
  <1>7. CASE TransportError
    BY <1>7 DEF TransportError, Requeue, Return, Fault
  <1>8. CASE OnCreated
    BY <1>8 DEF OnCreated, Receive, Waiting, rowVars, localVars
  <1>9. CASE OnFreshConflict
    BY <1>9 DEF OnFreshConflict, Receive, Waiting, FailOrder, Requeue, Return, Fault
  <1>10. CASE OnRecoveryConflict
    BY <1>10 DEF OnRecoveryConflict, Receive, Waiting, rowVars, localVars
  <1>11. CASE OnRejected
    BY <1>11 DEF OnRejected, Receive, Waiting, Requeue, Return, Fault
  <1>12. CASE GetFound
    BY <1>12 DEF GetFound, rowVars, localVars
  <1>13. CASE GetFails
    BY <1>13 DEF GetFails, Requeue, Return, Fault
  <1>14. CASE MarkReported
    BY <1>14 DEF MarkReported, ChargeOrder, Return, Open
  <1>15. CASE MarkFails
    BY <1>15 DEF MarkFails, ChargeOrder, Requeue, Return, Open, Fault
  <1>16. ASSUME NEW p \in posts, Precheck(p)
         PROVE  Final
    BY <1>16 DEF Precheck, Answer, Waiting, gizwayVars, rowVars, localVars, Fault
  <1>17. ASSUME NEW p \in posts, Reject(p)
         PROVE  Final
    BY <1>17 DEF Reject, Answer, Waiting, gizwayVars, rowVars, localVars, Fault
  <1>18. ASSUME NEW p \in posts, CommitCharge(p)
         PROVE  Final
    BY <1>18 DEF CommitCharge, Answer, Waiting, gizwayVars, rowVars, localVars,
           Fault
  <1>19. ASSUME NEW p \in posts, Lose(p)
         PROVE  Final
    BY <1>19 DEF Lose, gizwayVars, rowVars, localVars, Fault
  <1>20. CASE Crash
    BY <1>20 DEF Crash, rowVars, Fault
  <1>21. CASE Restart
    BY <1>21 DEF Restart, localVars
  <1>22. CASE RestartUpdateFails
    BY <1>22 DEF RestartUpdateFails, rowVars, localVars, Fault
  <1>23. CASE AdvanceClock
    BY <1>23 DEF AdvanceClock, gizwayVars, rowVars, localVars
  <1>24. ASSUME NEW o \in Orders, CompleteCall(o)
         PROVE  Final
    BY <1>24 DEF CompleteCall, localVars
  <1>25. ASSUME NEW o \in Orders, CompleteCallFails(o)
         PROVE  Final
    BY <1>25 DEF CompleteCallFails, localVars, Fault
  <1>26. CASE UNCHANGED vars
    BY <1>26 DEF vars
  <1>27. CASE TickSelectFails
    BY <1>27 DEF TickSelectFails, Expired, localVars, Fault
  <1> QED
    BY <1>1, <1>2, <1>3, <1>4, <1>5, <1>6, <1>7, <1>8, <1>9, <1>10, <1>11,
           <1>12, <1>13, <1>14, <1>15, <1>16, <1>17, <1>18, <1>19, <1>20, <1>21,
           <1>22, <1>23, <1>24, <1>25, <1>26, <1>27
       DEF Next, Calls, Worker, GizPay, Process

(* Unless GizWay's own Commit can fail after taking effect, no retry,      *)
(* restart or late answer reopens a settled row or changes a settled order.*)
THEOREM SettledStays == ~AmbiguousLocal => (Spec => SettledIsFinal)
  <1> SUFFICES ASSUME ~AmbiguousLocal
               PROVE  Spec => SettledIsFinal
    OBVIOUS
  <1>1. SafetyInv /\ RowsInv /\ [Next]_vars => RowsInv'
    BY RowsStep
  <1>2. SafetyInv /\ RowsInv /\ [Next]_vars =>
          [\A o \in Orders :
             /\ outbox[o] \in {"reported", "abandoned"} => outbox'[o] = outbox[o]
             /\ order[o] \in {"charged", "billing_failed"} => order'[o] = order[o]]_vars
    BY FinalStep
  <1> QED
    BY <1>1, <1>2, RowsInit, SafetyInvariant, PTL DEF Spec, SettledIsFinal
=============================================================================
