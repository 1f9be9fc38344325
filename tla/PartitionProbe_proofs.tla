------------------------ MODULE PartitionProbe_proofs ------------------------
(***************************************************************************)
(* Proofs about PartitionProbe, for any set of callers.                    *)
(***************************************************************************)
EXTENDS PartitionProbe, TLAPS

-----------------------------------------------------------------------------
(* The state is well typed.                                                *)
THEOREM TypeCorrect == Spec => []TypeOK
<1>1. Init => TypeOK
  BY DEF Init, TypeOK
<1>2. TypeOK /\ [Next]_vars => TypeOK'
  <2> SUFFICES ASSUME TypeOK, [Next]_vars PROVE TypeOK'
    OBVIOUS
  <2> USE DEF TypeOK
  <2>1. ASSUME NEW c \in Caller, Enter(c) PROVE TypeOK'
    BY <2>1 DEF Enter, Leave, Says
  <2>2. ASSUME NEW c \in Caller, Expire(c) PROVE TypeOK'
    BY <2>2 DEF Expire
  <2>3. ASSUME NEW c \in Caller, Renew(c) PROVE TypeOK'
    BY <2>3 DEF Renew
  <2>4. ASSUME NEW c \in Caller, Resolve(c) PROVE TypeOK'
    BY <2>4 DEF Resolve, Wake, Says
  <2>5. ASSUME NEW c \in Caller, ProbeFails(c) PROVE TypeOK'
    BY <2>5 DEF ProbeFails, Wake
  <2>6. ASSUME NEW c \in Caller, Woken(c) PROVE TypeOK'
    BY <2>6 DEF Woken, Leave, Says
  <2>7. ASSUME NEW c \in Caller, StopWaiting(c) PROVE TypeOK'
    BY <2>7 DEF StopWaiting, Leave, Says
  <2>8. CASE UNCHANGED vars
    BY <2>8 DEF vars
  <2>9. QED
    BY <2>1, <2>2, <2>3, <2>4, <2>5, <2>6, <2>7, <2>8 DEF Next, Step
<1>3. QED
  BY <1>1, <1>2, PTL DEF Spec

-----------------------------------------------------------------------------
(* The inductive invariant.  Its heart is that only an unresolved mode is  *)
(* ever probed for, by one leader, so that a resolution meets the initial  *)
(* mode, and that a caller woken without an error finds a resolved one.    *)
OneLeader ==
    /\ \A c, d \in Caller : at[c] = "probing" /\ at[d] = "probing" => c = d
    /\ inFlight <=> \E c \in Caller : at[c] = "probing"
    /\ \A c \in Caller : at[c] = "waiting" => inFlight

CacheInv ==
    /\ resolved => mode = supported
    /\ ~resolved => mode = FALSE
    /\ inFlight => ~resolved

WaitInv ==
    \A c \in Caller :
        /\ at[c] = "woken" /\ ~failed[c] => resolved
        /\ at[c] \in {"waiting", "woken"} => answer[c] = "none"

IInv == TypeOK /\ OneLeader /\ CacheInv /\ WaitInv /\ AnswerExplained

LEMMA InitInv == Init => IInv
BY DEF Init, IInv, TypeOK, OneLeader, CacheInv, WaitInv, AnswerExplained

LEMMA NextInv == IInv /\ TypeOK' /\ [Next]_vars => IInv'
<1> SUFFICES ASSUME IInv, TypeOK', [Next]_vars PROVE IInv'
  OBVIOUS
<1> USE DEF IInv
<1>1. ASSUME NEW c \in Caller, Enter(c) PROVE IInv'
  <2>1. OneLeader' /\ CacheInv'
    BY <1>1 DEF Enter, Leave, TypeOK, OneLeader, CacheInv
  <2>2. WaitInv'
    BY <1>1 DEF Enter, Leave, TypeOK, WaitInv
  <2>3. AnswerExplained'
    BY <1>1 DEF Enter, Leave, Says, TypeOK, CacheInv, AnswerExplained
  <2>4. QED
    BY <2>1, <2>2, <2>3
<1>2. ASSUME NEW c \in Caller, Expire(c) PROVE IInv'
  BY <1>2 DEF Expire, TypeOK, OneLeader, CacheInv, WaitInv, AnswerExplained
<1>3. ASSUME NEW c \in Caller, Renew(c) PROVE IInv'
  BY <1>3 DEF Renew, TypeOK, OneLeader, CacheInv, WaitInv, AnswerExplained
<1>4. ASSUME NEW c \in Caller, Resolve(c) PROVE IInv'
  <2>1. ~resolved /\ mode' = supported
    BY <1>4 DEF Resolve, TypeOK, OneLeader, CacheInv
  <2>2. OneLeader'
    BY <1>4 DEF Resolve, Wake, TypeOK, OneLeader
  <2>3. CacheInv'
    BY <1>4, <2>1 DEF Resolve, Wake, TypeOK, CacheInv
  <2>4. WaitInv'
    BY <1>4 DEF Resolve, Wake, TypeOK, WaitInv
  <2>5. AnswerExplained'
    <3> SUFFICES ASSUME NEW d \in Caller
                 PROVE  /\ answer'[d] = "yes" => supported
                        /\ answer'[d] = "no" /\ supported => ctx[d] = "done" \/ failed'[d]
      BY <1>4 DEF Resolve, AnswerExplained
    <3>1. CASE d = c
      BY <1>4, <2>1, <3>1 DEF Resolve, Says, TypeOK
    <3>2. CASE d # c
      BY <1>4, <3>2 DEF Resolve, Wake, TypeOK, WaitInv, AnswerExplained
    <3>3. QED
      BY <3>1, <3>2
  <2>6. QED
    BY <2>2, <2>3, <2>4, <2>5
<1>5. ASSUME NEW c \in Caller, ProbeFails(c) PROVE IInv'
  <2>1. OneLeader' /\ CacheInv'
    BY <1>5 DEF ProbeFails, Wake, TypeOK, OneLeader, CacheInv
  <2>2. WaitInv'
    BY <1>5 DEF ProbeFails, Wake, TypeOK, WaitInv
  <2>3. AnswerExplained'
    BY <1>5 DEF ProbeFails, Wake, TypeOK, WaitInv, AnswerExplained
  <2>4. QED
    BY <2>1, <2>2, <2>3
<1>6. ASSUME NEW c \in Caller, Woken(c) PROVE IInv'
  <2>1. OneLeader' /\ CacheInv' /\ WaitInv'
    BY <1>6 DEF Woken, Leave, TypeOK, OneLeader, CacheInv, WaitInv
  <2>2. AnswerExplained'
    BY <1>6 DEF Woken, Leave, Says, TypeOK, CacheInv, WaitInv, AnswerExplained
  <2>3. QED
    BY <2>1, <2>2
<1>7. ASSUME NEW c \in Caller, StopWaiting(c) PROVE IInv'
  <2>1. OneLeader' /\ CacheInv' /\ WaitInv'
    BY <1>7 DEF StopWaiting, Leave, TypeOK, OneLeader, CacheInv, WaitInv
  <2>2. AnswerExplained'
    BY <1>7 DEF StopWaiting, Leave, Says, TypeOK, AnswerExplained
  <2>3. QED
    BY <2>1, <2>2
<1>8. CASE UNCHANGED vars
  BY <1>8 DEF vars, TypeOK, OneLeader, CacheInv, WaitInv, AnswerExplained
<1>9. QED
  BY <1>1, <1>2, <1>3, <1>4, <1>5, <1>6, <1>7, <1>8 DEF Next, Step

LEMMA Invariance == Spec => []IInv
BY InitInv, NextInv, TypeCorrect, PTL DEF Spec

-----------------------------------------------------------------------------
(* At most one probe is under way, and nobody waits without one.           *)
THEOREM ProbesOnce == Spec => []SingleFlight
<1>1. IInv => SingleFlight
  BY DEF IInv, OneLeader, SingleFlight
<1>2. QED
  BY <1>1, Invariance, PTL

(* What is cached is what the server has.                                  *)
THEOREM CacheCorrect == Spec => []CachedTruth
<1>1. IInv => CachedTruth
  BY DEF IInv, CacheInv, CachedTruth
<1>2. QED
  BY <1>1, Invariance, PTL

(* Every answer is the truth or is explained by an error or a context.     *)
THEOREM AnswersCorrect == Spec => []AnswerExplained
<1>1. IInv => AnswerExplained
  BY DEF IInv
<1>2. QED
  BY <1>1, Invariance, PTL

(* Once settled, the mode stays what it is.                                *)
THEOREM CacheStable == Spec => CachedForGood
<1>1. IInv /\ [Next]_vars => [resolved => resolved' /\ mode' = mode]_vars
  <2> SUFFICES ASSUME IInv, Next, resolved PROVE resolved' /\ mode' = mode
    OBVIOUS
  <2>1. PICK c \in Caller : Step(c)
    BY DEF Next
  <2>2. at[c] # "probing"
    BY DEF IInv, OneLeader, CacheInv
  <2>3. QED
    BY <2>1, <2>2 DEF Step, Enter, Expire, Renew, Resolve, ProbeFails, Woken, StopWaiting
<1>2. QED
  BY <1>1, Invariance, PTL DEF Spec, CachedForGood
=============================================================================
