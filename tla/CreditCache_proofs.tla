------------------------- MODULE CreditCache_proofs -------------------------
(***************************************************************************)
(* Admission is single-flight, forgets a revoked key in bounded time, and  *)
(* gives quota only when GizPay does: proofs for every number of requests, *)
(* every cost and every interval.                                          *)
(***************************************************************************)
EXTENDS CreditCache, TLAPS

USE CallsAssumption, TimesAssumption, IntAssumption

-----------------------------------------------------------------------------
(* Admission starts with an empty map.                                     *)
LEMMA AdmissionInit == Init => AdmissionInv
BY DEF Init, AdmissionInv, TypeOK, Objects, Int64, Verdicts, Replies, NoReply, LoadInv,
       LoaderOwnsEntry, FreshInv, RevocationBites, Allowed

(* Every step keeps the types.                                             *)
LEMMA TypeStep == TypeOK /\ [Next]_vars => TypeOK'
<1> SUFFICES ASSUME TypeOK, [Next]_vars PROVE TypeOK'  OBVIOUS
<1> USE DEF TypeOK, Objects, Verdicts
<1>1. ASSUME NEW c \in Calls, Hit(c) PROVE TypeOK'
  BY <1>1 DEF Hit, Live, Answered, stateVars, gizpayVars
<1>2. ASSUME NEW c \in Calls, Wait(c) PROVE TypeOK'
  BY <1>2 DEF Wait, Loading, stateVars, gizpayVars
<1>3. ASSUME NEW c \in Calls, StartLoad(c) PROVE TypeOK'
  BY <1>3 DEF StartLoad, Loading, Live, gizpayVars
<1>4. ASSUME NEW c \in Calls, Wake(c) PROVE TypeOK'
  BY <1>4 DEF Wake, stateVars, gizpayVars
<1>5. ASSUME NEW c \in Calls, Cancel(c) PROVE TypeOK'
  BY <1>5 DEF Cancel, stateVars, gizpayVars
<1>6. ASSUME NEW c \in Calls, Check(c) PROVE TypeOK'
  BY <1>6 DEF Check, stateVars, gizpayVars, Replies, Int64
<1>7. ASSUME NEW c \in Calls, FinishLoad(c) PROVE TypeOK'
  <2>1. reply' \in [Calls -> Replies]  BY <1>7 DEF FinishLoad, LoadEnded, NoReply, Replies, Int64
  <2>2. reply[c].available \in Int64 /\ reply[c].at \in Nat /\ reply[c].kind \in Verdicts
    BY <1>7 DEF FinishLoad, Replies
  <2>3. /\ loader' \in [Calls -> Objects] /\ available' \in [Calls -> Int64]
        /\ verdict' \in [Calls -> Verdicts]
    BY <1>7, <2>2 DEF FinishLoad
  <2>4. expires' \in [Calls -> Nat]
    <3>1. PICK stamp \in reply[c].at .. now :
               expires' = [expires EXCEPT ![obj[c]] = stamp + Skew + Recheck]
      BY <1>7 DEF FinishLoad
    <3>2. stamp + Skew + Recheck \in Nat  BY <2>2
    <3> QED  BY <3>1, <3>2
  <2>5. obj' \in [Calls -> Objects]  BY <1>7 DEF FinishLoad, LoadEnded
  <2> QED  BY <1>7, <2>1, <2>3, <2>4, <2>5 DEF FinishLoad, Answered, gizpayVars
<1>8. ASSUME NEW c \in Calls, LoadFails(c) PROVE TypeOK'
  <2>1. reply' \in [Calls -> Replies]  BY <1>8 DEF LoadFails, LoadEnded, NoReply, Replies, Int64
  <2>2. loader' \in [Calls -> Objects] /\ obj' \in [Calls -> Objects] /\ entry' \in Objects
    BY <1>8 DEF LoadFails, LoadEnded
  <2> QED  BY <1>8, <2>1, <2>2 DEF LoadFails, gizpayVars
<1>9. ASSUME NEW c \in Calls, Consume(c) PROVE TypeOK'
  <2>1. CASE entry # NoCall /\ Cost[c] > 0
    <3> DEFINE left == IF available[entry] < MinInt + Cost[c] THEN MinInt
                       ELSE available[entry] - Cost[c]
    <3>1. available' = [available EXCEPT ![entry] = left]
          /\ verdict' = [verdict EXCEPT ![entry] = IF left <= 0 THEN "denied" ELSE @]
      BY <1>9, <2>1 DEF Consume
    <3>2. entry \in Calls /\ Cost[c] \in Nat /\ available[entry] \in Int64
      BY <2>1
    <3>3. left \in Int64  BY <3>2 DEF Int64
    <3> HIDE DEF left
    <3>4. available' \in [Calls -> Int64] /\ verdict' \in [Calls -> Verdicts]
      BY <3>1, <3>3
    <3> QED  BY <1>9, <3>4 DEF Consume, gizpayVars
  <2>2. CASE ~(entry # NoCall /\ Cost[c] > 0)
    BY <1>9, <2>2 DEF Consume, gizpayVars
  <2> QED  BY <2>1, <2>2
<1>10. ASSUME NEW c \in Calls, NoUsage(c) PROVE TypeOK'
  BY <1>10 DEF NoUsage, stateVars, gizpayVars
<1>11. CASE Prune
  BY <1>11 DEF Prune, gizpayVars
<1>12. CASE MoveBalance
  BY <1>12 DEF MoveBalance, stateVars, Int64
<1>13. CASE SwitchService
  BY <1>13 DEF SwitchService, stateVars
<1>14. CASE Revoke
  BY <1>14 DEF Revoke, stateVars
<1>15. CASE AdvanceClock
  BY <1>15 DEF AdvanceClock, stateVars, gizpayVars
<1>16. CASE UNCHANGED vars
  BY <1>16 DEF vars
<1> QED  BY <1>1, <1>2, <1>3, <1>4, <1>5, <1>6, <1>7, <1>8, <1>9, <1>10, <1>11,
       <1>12, <1>13, <1>14, <1>15, <1>16 DEF Next, Admit, EndLoad

(* Every step keeps the loading request, the state it holds and the map    *)
(* entry together.                                                         *)
LEMMA LoadStep == (TypeOK /\ LoadInv) /\ [Next]_vars => LoadInv'
<1> SUFFICES ASSUME (TypeOK /\ LoadInv), [Next]_vars PROVE LoadInv'  OBVIOUS
<1> USE DEF TypeOK, Objects, Int64, LoadInv, LoaderOwnsEntry
<1>1. ASSUME NEW c \in Calls, Hit(c) PROVE LoadInv'
  BY <1>1 DEF Hit, Live, Answered, stateVars, gizpayVars, Allowed
<1>2. ASSUME NEW c \in Calls, Wait(c) PROVE LoadInv'
  BY <1>2 DEF Wait, Loading, stateVars, gizpayVars
<1>3. ASSUME NEW c \in Calls, StartLoad(c) PROVE LoadInv'
  <2> DEFINE s == IF entry = NoCall THEN c ELSE entry
  <2>1. s \in Calls /\ \A t \in Calls : loader[t] = NoCall
    BY <1>3 DEF StartLoad, Loading
  <2>2. \A d \in Calls : pc[d] # "loading"  BY <2>1
  <2>3. /\ entry' = s /\ loader' = [loader EXCEPT ![s] = c]
        /\ obj' = [obj EXCEPT ![c] = s] /\ pc' = [pc EXCEPT ![c] = "loading"]
        /\ pc[c] = "start"
    BY <1>3 DEF StartLoad
  <2>4. LoaderOwnsEntry'  BY <2>1, <2>2, <2>3
  <2>5. \A t \in Calls : loader'[t] # NoCall => pc'[loader'[t]] = "loading" /\ entry' = t
    BY <2>1, <2>3
  <2>6. \A d \in Calls : pc'[d] \in {"start", "waiting"} => entry' # d
    BY <2>1, <2>3
  <2> QED  BY <2>4, <2>5, <2>6
<1>4. ASSUME NEW c \in Calls, Wake(c) PROVE LoadInv'
  BY <1>4 DEF Wake, stateVars, gizpayVars
<1>5. ASSUME NEW c \in Calls, Cancel(c) PROVE LoadInv'
  BY <1>5 DEF Cancel, stateVars, gizpayVars
<1>6. ASSUME NEW c \in Calls, Check(c) PROVE LoadInv'
  BY <1>6 DEF Check, stateVars, gizpayVars
<1>7. ASSUME NEW c \in Calls, FinishLoad(c) PROVE LoadInv'
  BY <1>7 DEF FinishLoad, Answered, LoadEnded, gizpayVars, Allowed, NoReply
<1>8. ASSUME NEW c \in Calls, LoadFails(c) PROVE LoadInv'
  BY <1>8 DEF LoadFails, LoadEnded, gizpayVars, NoReply
<1>9. ASSUME NEW c \in Calls, Consume(c) PROVE LoadInv'
  BY <1>9 DEF Consume, gizpayVars
<1>10. ASSUME NEW c \in Calls, NoUsage(c) PROVE LoadInv'
  BY <1>10 DEF NoUsage, stateVars, gizpayVars
<1>11. CASE Prune
  BY <1>11 DEF Prune, gizpayVars
<1>12. CASE MoveBalance
  BY <1>12 DEF MoveBalance, stateVars
<1>13. CASE SwitchService
  BY <1>13 DEF SwitchService, stateVars
<1>14. CASE Revoke
  BY <1>14 DEF Revoke, stateVars
<1>15. CASE AdvanceClock
  BY <1>15 DEF AdvanceClock, stateVars, gizpayVars
<1>16. CASE UNCHANGED vars
  BY <1>16 DEF vars
<1> QED  BY <1>1, <1>2, <1>3, <1>4, <1>5, <1>6, <1>7, <1>8, <1>9, <1>10, <1>11,
       <1>12, <1>13, <1>14, <1>15, <1>16 DEF Next, Admit, EndLoad

(* Every step keeps the bound on what is remembered of a revoked key.      *)
LEMMA FreshStep == (TypeOK /\ LoadInv /\ FreshInv) /\ [Next]_vars => FreshInv'
<1> SUFFICES ASSUME (TypeOK /\ LoadInv /\ FreshInv), [Next]_vars PROVE FreshInv'  OBVIOUS
<1> USE DEF TypeOK, Objects, Int64, Verdicts, Replies, LoadInv, LoaderOwnsEntry, FreshInv,
       RevocationBites
<1>1. ASSUME NEW c \in Calls, Hit(c) PROVE FreshInv'
  <2>1. /\ UNCHANGED <<available, verdict, expires, reply, standing, revokedAt, now>>
        /\ entry \in Calls /\ now < expires[entry]
    BY <1>1 DEF Hit, Live, stateVars, gizpayVars
  <2>2. CASE Allowed(verdict[entry], available[entry])
    <3>1. admittedAt' = [admittedAt EXCEPT ![c] = now]
      BY <1>1, <2>2 DEF Hit, Answered
    <3>2. standing = "revoked" => now < revokedAt + Timeout + Skew + Recheck
      BY <2>1, <2>2
    <3>3. RevocationBites'  BY <2>1, <3>1, <3>2
    <3> QED  BY <2>1, <3>1, <3>3 DEF Allowed
  <2>3. CASE ~Allowed(verdict[entry], available[entry])
    BY <1>1, <2>1, <2>3 DEF Hit, Answered, Allowed
  <2> QED  BY <2>2, <2>3
<1>2. ASSUME NEW c \in Calls, Wait(c) PROVE FreshInv'
  BY <1>2 DEF Wait, Loading, stateVars, gizpayVars, Allowed
<1>3. ASSUME NEW c \in Calls, StartLoad(c) PROVE FreshInv'
  BY <1>3 DEF StartLoad, Loading, Live, gizpayVars, Allowed
<1>4. ASSUME NEW c \in Calls, Wake(c) PROVE FreshInv'
  BY <1>4 DEF Wake, stateVars, gizpayVars, Allowed
<1>5. ASSUME NEW c \in Calls, Cancel(c) PROVE FreshInv'
  BY <1>5 DEF Cancel, stateVars, gizpayVars, Allowed
<1>6. ASSUME NEW c \in Calls, Check(c) PROVE FreshInv'
  BY <1>6 DEF Check, stateVars, gizpayVars, Allowed
<1>7. ASSUME NEW c \in Calls, FinishLoad(c) PROVE FreshInv'
  <2> DEFINE r == reply[c]
  <2>1. /\ r.kind \in Verdicts /\ r.at \in Nat /\ r.at <= now /\ now <= r.at + Timeout
        /\ standing = "revoked" => r.at <= revokedAt
    BY <1>7 DEF FinishLoad
  <2>2. UNCHANGED <<standing, revokedAt, now>>  BY <1>7 DEF FinishLoad, gizpayVars
  <2>3. obj[c] \in Calls  BY <1>7 DEF FinishLoad
  <2>4. PICK stamp \in r.at .. now :
             expires' = [expires EXCEPT ![obj[c]] = stamp + Skew + Recheck]
    BY <1>7 DEF FinishLoad
  <2>5. admittedAt' \in {admittedAt, [admittedAt EXCEPT ![c] = now]}
    BY <1>7 DEF FinishLoad, Answered
  <2>6. RevocationBites'  BY <2>1, <2>2, <2>5
  <2>7. \A d \in Calls : admittedAt'[d] <= now'  BY <2>2, <2>5
  <2>8. \A d \in Calls : reply'[d] = reply[d] \/ reply'[d] = NoReply
    BY <1>7 DEF FinishLoad, LoadEnded
  <2>9. \A d \in Calls : reply'[d].at <= now'
                         /\ (standing' = "revoked" /\ reply'[d].kind \in Verdicts
                               => reply'[d].at <= revokedAt')
    BY <2>2, <2>8 DEF NoReply
  <2>10. \A s \in Calls : expires'[s] <= now' + Skew + Recheck
    BY <2>1, <2>2, <2>3, <2>4
  <2>11. ASSUME standing' = "revoked", NEW s \in Calls,
                Allowed(verdict'[s], available'[s])
         PROVE  expires'[s] <= revokedAt' + Timeout + Skew + Recheck
    <3>1. CASE s = obj[c]  BY <2>1, <2>2, <2>4, <2>11, <3>1
    <3>2. CASE s # obj[c]
      <4>1. verdict'[s] = verdict[s] /\ available'[s] = available[s]
            /\ expires'[s] = expires[s]
        BY <1>7, <3>2 DEF FinishLoad
      <4> QED  BY <2>2, <2>11, <4>1
    <3> QED  BY <3>1, <3>2
  <2> QED  BY <2>2, <2>6, <2>7, <2>9, <2>10, <2>11
<1>8. ASSUME NEW c \in Calls, LoadFails(c) PROVE FreshInv'
  BY <1>8 DEF LoadFails, LoadEnded, gizpayVars, NoReply, Allowed
<1>9. ASSUME NEW c \in Calls, Consume(c) PROVE FreshInv'
  <2>1. UNCHANGED <<expires, reply, admittedAt, standing, revokedAt, now>>
    BY <1>9 DEF Consume, gizpayVars
  <2>2. ASSUME NEW s \in Calls, Allowed(verdict'[s], available'[s])
        PROVE  Allowed(verdict[s], available[s])
    <3>1. CASE entry # NoCall /\ Cost[c] > 0
      <4> DEFINE left == IF available[entry] < MinInt + Cost[c] THEN MinInt
                         ELSE available[entry] - Cost[c]
      <4>1. available' = [available EXCEPT ![entry] = left]
            /\ verdict' = [verdict EXCEPT ![entry] = IF left <= 0 THEN "denied" ELSE @]
        BY <1>9, <3>1 DEF Consume
      <4>2. entry \in Calls /\ Cost[c] \in Nat /\ available[entry] \in Int
        BY <3>1
      <4>3. left \in Int /\ (left > 0 => available[entry] > 0)  BY <4>2
      <4> HIDE DEF left
      <4> QED  BY <2>2, <4>1, <4>2, <4>3 DEF Allowed
    <3>2. CASE ~(entry # NoCall /\ Cost[c] > 0)
      BY <1>9, <2>2, <3>2 DEF Consume
    <3> QED  BY <3>1, <3>2
  <2> QED  BY <2>1, <2>2
<1>10. ASSUME NEW c \in Calls, NoUsage(c) PROVE FreshInv'
  BY <1>10 DEF NoUsage, stateVars, gizpayVars, Allowed
<1>11. CASE Prune
  BY <1>11 DEF Prune, gizpayVars, Allowed
<1>12. CASE MoveBalance
  BY <1>12 DEF MoveBalance, stateVars, Allowed
<1>13. CASE SwitchService
  BY <1>13 DEF SwitchService, stateVars, Allowed
<1>14. CASE Revoke
  BY <1>14 DEF Revoke, stateVars, Allowed
<1>15. CASE AdvanceClock
  BY <1>15 DEF AdvanceClock, stateVars, gizpayVars, Allowed
<1>16. CASE UNCHANGED vars
  BY <1>16 DEF vars, Allowed
<1> QED  BY <1>1, <1>2, <1>3, <1>4, <1>5, <1>6, <1>7, <1>8, <1>9, <1>10, <1>11,
       <1>12, <1>13, <1>14, <1>15, <1>16 DEF Next, Admit, EndLoad

-----------------------------------------------------------------------------
(* The inductive invariant holds in every reachable state.                 *)
THEOREM AdmissionInvariant == Spec => []AdmissionInv
<1>1. AdmissionInv /\ [Next]_vars => AdmissionInv'
  BY TypeStep, LoadStep, FreshStep DEF AdmissionInv
<1> QED  BY AdmissionInit, <1>1, PTL DEF Spec

(* Two requests never check the same key's credit at the same time, and    *)
(* the one that does owns the entry in the map.                            *)
THEOREM OneCheckInFlight == Spec => [](SingleFlight /\ LoaderOwnsEntry)
<1>1. AdmissionInv => SingleFlight /\ LoaderOwnsEntry
  BY DEF AdmissionInv, LoadInv, LoaderOwnsEntry, SingleFlight
<1> QED  BY AdmissionInvariant, <1>1, PTL

(* After a revocation no request is admitted later than the recheck        *)
(* interval with the skew, or the HTTP timeout, allows.                    *)
THEOREM RevocationIsBounded == Spec => []RevocationBites
<1>1. AdmissionInv => RevocationBites  BY DEF AdmissionInv, FreshInv
<1> QED  BY AdmissionInvariant, <1>1, PTL

-----------------------------------------------------------------------------
(* The step that QuotaOnlyShrinks requires.                                *)
Shrinks ==
  \A s \in Calls :
    available'[s] > available[s] \/ (verdict[s] = "denied" /\ verdict'[s] = "allowed")
      => loader[s] # NoCall /\ loader'[s] = NoCall

(* Only the end of a load raises a quota or lifts a denial.                *)
LEMMA ShrinksStep == (TypeOK /\ LoadInv) /\ [Next]_vars => Shrinks
<1> SUFFICES ASSUME (TypeOK /\ LoadInv), [Next]_vars PROVE Shrinks  OBVIOUS
<1> USE DEF TypeOK, Objects, Int64, Verdicts, LoadInv, LoaderOwnsEntry, Shrinks
<1>1. ASSUME NEW c \in Calls, Hit(c) PROVE Shrinks
  BY <1>1 DEF Hit, Live, Answered, stateVars, gizpayVars, Allowed
<1>2. ASSUME NEW c \in Calls, Wait(c) PROVE Shrinks
  BY <1>2 DEF Wait, Loading, stateVars, gizpayVars
<1>3. ASSUME NEW c \in Calls, StartLoad(c) PROVE Shrinks
  BY <1>3 DEF StartLoad, Loading, Live, gizpayVars
<1>4. ASSUME NEW c \in Calls, Wake(c) PROVE Shrinks
  BY <1>4 DEF Wake, stateVars, gizpayVars
<1>5. ASSUME NEW c \in Calls, Cancel(c) PROVE Shrinks
  BY <1>5 DEF Cancel, stateVars, gizpayVars
<1>6. ASSUME NEW c \in Calls, Check(c) PROVE Shrinks
  BY <1>6 DEF Check, stateVars, gizpayVars
<1>7. ASSUME NEW c \in Calls, FinishLoad(c) PROVE Shrinks
  BY <1>7 DEF FinishLoad, Answered, LoadEnded, gizpayVars, Allowed, NoReply
<1>8. ASSUME NEW c \in Calls, LoadFails(c) PROVE Shrinks
  BY <1>8 DEF LoadFails, LoadEnded, gizpayVars, NoReply
<1>9. ASSUME NEW c \in Calls, Consume(c) PROVE Shrinks
  <2>1. CASE entry # NoCall /\ Cost[c] > 0
    <3> DEFINE left == IF available[entry] < MinInt + Cost[c] THEN MinInt
                       ELSE available[entry] - Cost[c]
    <3>1. available' = [available EXCEPT ![entry] = left]
          /\ verdict' = [verdict EXCEPT ![entry] = IF left <= 0 THEN "denied" ELSE @]
      BY <1>9, <2>1 DEF Consume
    <3>2. entry \in Calls /\ Cost[c] \in Nat /\ available[entry] \in Int64
      BY <2>1
    <3>3. left \in Int /\ left <= available[entry]
      BY <3>2
    <3> QED  BY <3>1, <3>2, <3>3
  <2>2. CASE ~(entry # NoCall /\ Cost[c] > 0)
    BY <1>9, <2>2 DEF Consume
  <2> QED  BY <2>1, <2>2
<1>10. ASSUME NEW c \in Calls, NoUsage(c) PROVE Shrinks
  BY <1>10 DEF NoUsage, stateVars, gizpayVars
<1>11. CASE Prune
  BY <1>11 DEF Prune, gizpayVars
<1>12. CASE MoveBalance
  BY <1>12 DEF MoveBalance, stateVars
<1>13. CASE SwitchService
  BY <1>13 DEF SwitchService, stateVars
<1>14. CASE Revoke
  BY <1>14 DEF Revoke, stateVars
<1>15. CASE AdvanceClock
  BY <1>15 DEF AdvanceClock, stateVars, gizpayVars
<1>16. CASE UNCHANGED vars
  BY <1>16 DEF vars
<1> QED  BY <1>1, <1>2, <1>3, <1>4, <1>5, <1>6, <1>7, <1>8, <1>9, <1>10, <1>11,
       <1>12, <1>13, <1>14, <1>15, <1>16 DEF Next, Admit, EndLoad

(* Quota comes from Credit Checks alone: no sequence of calls, however     *)
(* large their cost, makes an exhausted or denied key usable again.        *)
THEOREM QuotaShrinks == Spec => QuotaOnlyShrinks
<1>1. AdmissionInv /\ [Next]_vars => [Shrinks]_vars
  BY ShrinksStep DEF AdmissionInv
<1> QED  BY AdmissionInvariant, <1>1, PTL DEF Spec, QuotaOnlyShrinks, Shrinks
=============================================================================
