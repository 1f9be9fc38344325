-------------------------- MODULE ReadOnlyTx_proofs --------------------------
(***************************************************************************)
(* Proofs about ReadOnlyTx, for any number of calls and connections, any   *)
(* choice of the calls made by Select or under a deadline, and with every  *)
(* fault the model has.                                                    *)
(***************************************************************************)
EXTENDS ReadOnlyTx, TLAPS

Reply == [ok : BOOLEAN, s : Session]

-----------------------------------------------------------------------------
(* What the server and the driver can answer.                              *)

LEMMA AnswerFields ==
    ASSUME NEW t \in Session
    PROVE  /\ Ok(t).ok /\ Ok(t).s \in Session
           /\ Ok(t).s.tx = t.tx /\ Ok(t).s.bit = t.tx /\ Ok(t).s.ro = t.ro /\ Ok(t).s.by = t.by
           /\ ~Err(t).ok /\ Err(t).s \in Session
           /\ Err(t).s.tx = t.tx /\ Err(t).s.bit = t.tx /\ Err(t).s.ro = t.ro /\ Err(t).s.by = t.by
           /\ ~NoReply(t).ok /\ NoReply(t).s = t
           /\ Closed(t) \in Session
           /\ Closed(t).tx = t.tx /\ Closed(t).bit = t.bit /\ Closed(t).ro = t.ro /\ Closed(t).by = t.by
BY DEF Ok, Err, NoReply, Closed, Session, TxStatus

LEMMA BeganFields ==
    ASSUME NEW s \in Session, NEW c \in Call
    PROVE  Began(s, c) \in Session /\ Began(s, c).tx = "T" /\ Began(s, c).by = c
BY DEF Began, Session, TxStatus

LEMMA ChangeFields ==
    ASSUME NEW s \in Session
    PROVE  /\ Ended(s) \in Session /\ Ended(s).tx = "I" /\ Ended(s).by = NoCall
           /\ Aborted(s) \in Session /\ Aborted(s).by = s.by /\ Aborted(s).ro = s.ro
           /\ Aborted(s).tx = IF s.tx = "I" THEN "I" ELSE "E"
           /\ Restricted(s) \in Session
           /\ Restricted(s).tx = s.tx /\ Restricted(s).by = s.by
           /\ Restricted(s).ro = TRUE
BY DEF Restricted, Ended, Aborted, Session, TxStatus

LEMMA ReplyType ==
    ASSUME NEW s \in Session, NEW c \in Call
    PROVE  /\ BeginReply(s, c) \subseteq Reply
           /\ SetLocalReply(s) \subseteq Reply
           /\ StatementReply(s) \subseteq Reply
           /\ CommitReply(s) \subseteq Reply
           /\ RollbackReply(s) \subseteq Reply
           /\ Ok(s) \in Reply /\ Err(s) \in Reply
<1>1. \A t \in Session : Ok(t) \in Reply /\ Err(t) \in Reply
  BY DEF Ok, Err, Reply, Session, TxStatus
<1>2. Began(s, c) \in Session
  BY BeganFields
<1>3. Ended(s) \in Session /\ Aborted(s) \in Session /\ Restricted(s) \in Session
  BY ChangeFields
<1>4. \A t \in Session : Accepts(s, t) \subseteq Reply
  BY <1>1, <1>3 DEF Accepts
<1>5. BeginReply(s, c) \subseteq Reply
  BY <1>1, <1>2, <1>4 DEF BeginReply
<1>6. SetLocalReply(s) \subseteq Reply
  BY <1>3, <1>4 DEF SetLocalReply
<1>7. StatementReply(s) \subseteq Reply
  BY <1>4 DEF StatementReply
<1>8. CommitReply(s) \subseteq Reply /\ RollbackReply(s) \subseteq Reply
  BY <1>1, <1>3 DEF CommitReply, RollbackReply
<1>9. QED
  BY <1>1, <1>5, <1>6, <1>7, <1>8

LEMMA AttemptType ==
    ASSUME NEW s \in Session, NEW live \in BOOLEAN, NEW replies \in SUBSET Reply
    PROVE  Attempt(s, live, replies) \subseteq Reply
<1>1. NoReply(s) \in Reply /\ NoReply(Closed(s)) \in Reply
  BY DEF NoReply, Closed, Reply, Session, TxStatus
<1>2. QED
  BY <1>1 DEF Attempt

LEMMA FetchType ==
    ASSUME NEW s \in Session, NEW live \in BOOLEAN
    PROVE  Fetch(s, live) \subseteq Reply
<1>1. NoReply(Closed(s)) \in Reply
  BY DEF NoReply, Closed, Reply, Session, TxStatus
<1>2. Ok(s) \in Reply /\ Err(s) \in Reply /\ Err(Aborted(s)) \in Reply
  BY DEF Ok, Err, Aborted, Reply, Session, TxStatus
<1>3. QED
  BY <1>1, <1>2 DEF Fetch, StatementReply, Accepts

-----------------------------------------------------------------------------
(* Sessions.  A session has an owner exactly when it is in a transaction,  *)
(* and the driver's status byte is the server's, except for a session that *)
(* was swapped in and has not answered since.                              *)

Consistent(s) ==
    /\ s.tx = "I" <=> s.by = NoCall
    /\ s.bit = s.tx \/ (s.bit = "I" /\ s.by = Foreign)

(* What the session of call c is like when the call is at p.               *)
Fits(c, p, s) ==
    /\ p # "ping" => (s.bit = "I" => s.tx # "T")
    /\ p \in {"begin", "rollback"} => s.tx # "T"
    /\ p = "begin2" => s.tx = "I"
    /\ p \in InTx => s.tx = "T" /\ s.by = c
    /\ p \in {"query", "rows", "drain", "commit"} => s.ro

LEMMA ConsistentAnswer ==
    ASSUME NEW t \in Session, t.tx = "I" <=> t.by = NoCall
    PROVE  Consistent(Ok(t).s) /\ Consistent(Err(t).s)
BY AnswerFields DEF Consistent

LEMMA ConsistentReplies ==
    ASSUME NEW s \in Session, NEW c \in Call, Consistent(s)
    PROVE  /\ \A o \in BeginReply(s, c) : Consistent(o.s)
           /\ \A o \in SetLocalReply(s) : Consistent(o.s)
           /\ \A o \in StatementReply(s) : Consistent(o.s)
           /\ \A o \in CommitReply(s) : Consistent(o.s)
           /\ \A o \in RollbackReply(s) : Consistent(o.s)
           /\ Consistent(Ok(s).s) /\ Consistent(Err(s).s)
           /\ Consistent(NoReply(s).s) /\ Consistent(NoReply(Closed(s)).s)
<1>1. Consistent(Ok(s).s) /\ Consistent(Err(s).s)
  BY ConsistentAnswer DEF Consistent
<1>2. /\ Consistent(Ok(Began(s, c)).s)
      /\ Consistent(Ok(Ended(s)).s) /\ Consistent(Err(Ended(s)).s)
      /\ Consistent(Ok(Restricted(s)).s)
  <2>1. Began(s, c).tx # "I" /\ Began(s, c).by # NoCall /\ Began(s, c) \in Session
    BY BeganFields, CallAssumption
  <2>2. /\ Ended(s).tx = "I" /\ Ended(s).by = NoCall /\ Ended(s) \in Session
        /\ Restricted(s).tx = "I" <=> Restricted(s).by = NoCall
        /\ Restricted(s) \in Session
    BY ChangeFields DEF Consistent
  <2>3. Consistent(Ok(Began(s, c)).s)
    BY <2>1, ConsistentAnswer
  <2>4. Consistent(Ok(Ended(s)).s) /\ Consistent(Err(Ended(s)).s)
    BY <2>2, ConsistentAnswer
  <2>5. Consistent(Ok(Restricted(s)).s)
    BY <2>2, ConsistentAnswer
  <2>6. QED
    BY <2>3, <2>4, <2>5
<1>3. Consistent(Err(Aborted(s)).s)
  <2>1. Aborted(s).tx = "I" <=> Aborted(s).by = NoCall
    BY ChangeFields DEF Consistent, Session, TxStatus
  <2>2. QED
    BY <2>1, ChangeFields, ConsistentAnswer
<1>4. \A o \in BeginReply(s, c) : Consistent(o.s)
  BY <1>1, <1>2, <1>3 DEF BeginReply, Accepts
<1>5. \A o \in SetLocalReply(s) : Consistent(o.s)
  BY <1>1, <1>2, <1>3 DEF SetLocalReply, Accepts
<1>6. \A o \in StatementReply(s) : Consistent(o.s)
  BY <1>1, <1>3 DEF StatementReply, Accepts
<1>7. /\ \A o \in CommitReply(s) : Consistent(o.s)
      /\ \A o \in RollbackReply(s) : Consistent(o.s)
  BY <1>2, <1>3 DEF CommitReply, RollbackReply
<1>8. Consistent(NoReply(s).s) /\ Consistent(NoReply(Closed(s)).s)
  BY AnswerFields DEF Consistent
<1>9. QED
  BY <1>1, <1>4, <1>5, <1>6, <1>7, <1>8

-----------------------------------------------------------------------------
(* A call that runs a statement moves to another place in the protocol,    *)
(* with its own session changed and nothing else of the pool.              *)
Statement(c, p, t) ==
    /\ pc' = [pc EXCEPT ![c] = p]
    /\ sess' = [sess EXCEPT ![held[c]] = t]
    /\ UNCHANGED <<ctx, held, slot>>

HeldInv == \A c \in Call : held[c] # NoConn <=> pc[c] \in Owns \cup {"connect"}

TypeInv == TypeOK /\ HeldInv

LEMMA SessType ==
    ASSUME TypeInv, NEW c \in Call, pc[c] \in Owns
    PROVE  held[c] \in Conn /\ Sess(c) \in Session /\ (ctx[c] = "live") \in BOOLEAN
BY DEF TypeInv, TypeOK, HeldInv, Sess

(* One statement and where it takes the call, for the statements whose     *)
(* replies are R: next when it is accepted, otherwise when it is not.      *)
LEMMA ExecStatement ==
    ASSUME TypeInv, NEW c \in Call, pc[c] \in Owns,
           NEW R \in SUBSET Reply, NEW next \in Owns, NEW otherwise \in Owns,
           \A o \in R : Consistent(Sess(c)) /\ Fits(c, pc[c], Sess(c)) =>
                Consistent(o.s) /\ Fits(c, IF o.ok THEN next ELSE otherwise, o.s),
           \A s \in {NoReply(Sess(c)).s, NoReply(Closed(Sess(c))).s} :
                Fits(c, pc[c], Sess(c)) => Fits(c, otherwise, s),
           NEW o \in Attempt(Sess(c), ctx[c] = "live", R)
    PROVE  /\ o \in Reply
           /\ Consistent(Sess(c)) /\ Fits(c, pc[c], Sess(c)) =>
                Consistent(o.s) /\ Fits(c, IF o.ok THEN next ELSE otherwise, o.s)
<1>1. Sess(c) \in Session /\ (ctx[c] = "live") \in BOOLEAN
  BY SessType
<1>2. o \in Reply
  BY <1>1, AttemptType
<1>3. CASE o \in R
  BY <1>2, <1>3
<1>4. CASE o \in {NoReply(Sess(c)), NoReply(Closed(Sess(c)))}
  <2>1. ~o.ok
    BY <1>4 DEF NoReply
  <2>2. Consistent(Sess(c)) => Consistent(o.s)
    BY <1>1, <1>4, ConsistentReplies
  <2>3. QED
    BY <1>2, <1>4, <2>1, <2>2
<1>5. QED
  BY <1>3, <1>4 DEF Attempt

LEMMA ReplyShape ==
    ASSUME NEW s \in Session, NEW c \in Call
    PROVE  /\ \A o \in StatementReply(s) : o = Ok(s) \/ o = Err(Aborted(s))
           /\ \A o \in SetLocalReply(s) :
                o = Ok(s) \/ (s.tx = "T" /\ o = Ok(Restricted(s))) \/ o = Err(Aborted(s))
           /\ \A o \in BeginReply(s, c) :
                s.tx # "T" => o = Ok(Began(s, c)) \/ o = Err(Aborted(s))
           /\ \A o \in RollbackReply(s) : o = Ok(Ended(s)) \/ o = Err(Aborted(s))
           /\ \A o \in CommitReply(s) :
                o = Ok(Ended(s)) \/ o = Err(Ended(s)) \/ o = Err(Aborted(s))
<1>1. \A t : \A o \in Accepts(s, t) : o = Ok(t) \/ o = Err(Aborted(s))
  BY DEF Accepts
<1>2. QED
  BY <1>1 DEF StatementReply, SetLocalReply, BeginReply, RollbackReply, CommitReply

(* Where an answer may take the call.                                      *)
LEMMA AnsweredFits ==
    ASSUME NEW t \in Session, NEW c \in Call
    PROVE  /\ \A p \in {"ensure", "cleanup", "release"} :
                Fits(c, p, Ok(t).s) /\ Fits(c, p, Err(t).s)
           /\ t.tx # "T" => Fits(c, "begin", Ok(t).s) /\ Fits(c, "rollback", Err(t).s)
           /\ t.tx = "I" => Fits(c, "begin2", Ok(t).s)
           /\ t.tx = "T" /\ t.by = c => Fits(c, "setro", Ok(t).s) /\ Fits(c, "verify", Ok(t).s)
           /\ t.tx = "T" /\ t.by = c /\ t.ro =>
                \A p \in {"query", "rows", "drain", "commit"} : Fits(c, p, Ok(t).s)
<1> DEFINE ok == Ok(t).s
           e  == Err(t).s
<1>1. /\ ok.tx = t.tx /\ ok.bit = t.tx /\ ok.ro = t.ro /\ ok.by = t.by
      /\ e.tx = t.tx /\ e.bit = t.tx /\ e.ro = t.ro /\ e.by = t.by
  BY AnswerFields
<1> HIDE DEF ok, e
<1>2. QED
  BY <1>1 DEF Fits, InTx, ok, e

LEMMA FitsReplies ==
    ASSUME NEW s \in Session, NEW c \in Call
    PROVE  /\ \A o \in RollbackReply(s) :
                /\ Fits(c, IF o.ok THEN "begin" ELSE "release", o.s)
                /\ Fits(c, IF o.ok THEN "begin2" ELSE "release", o.s)
                /\ Fits(c, "release", o.s)
           /\ s.tx # "T" => \A o \in BeginReply(s, c) :
                /\ Fits(c, IF o.ok THEN "setro" ELSE "rollback", o.s)
                /\ Fits(c, IF o.ok THEN "setro" ELSE "release", o.s)
           /\ s.tx = "T" /\ s.by = c => \A o \in SetLocalReply(s) :
                Fits(c, IF o.ok THEN "verify" ELSE "cleanup", o.s)
           /\ s.tx = "T" /\ s.by = c => \A o \in StatementReply(s) :
                Fits(c, IF o.ok /\ o.s.ro THEN "query" ELSE "cleanup", o.s)
           /\ s.tx = "T" /\ s.by = c /\ s.ro =>
                \A o \in StatementReply(s), p \in {"rows", "drain", "commit"} :
                    Fits(c, IF o.ok THEN p ELSE "cleanup", o.s)
           /\ \A o \in CommitReply(s) :
                Fits(c, IF o.ok THEN "release" ELSE "cleanup", o.s)
<1>1. /\ Ended(s) \in Session /\ Ended(s).tx = "I"
      /\ Aborted(s) \in Session /\ Aborted(s).tx # "T"
      /\ Restricted(s) \in Session /\ Restricted(s).tx = s.tx /\ Restricted(s).by = s.by
  BY ChangeFields
<1>2. Began(s, c) \in Session /\ Began(s, c).tx = "T" /\ Began(s, c).by = c
  BY BeganFields
<1>3. \A t \in Session : Ok(t).ok /\ ~Err(t).ok /\ Ok(t).s.ro = t.ro
  BY AnswerFields
<1>4. \A o \in RollbackReply(s) :
          /\ Fits(c, IF o.ok THEN "begin" ELSE "release", o.s)
          /\ Fits(c, IF o.ok THEN "begin2" ELSE "release", o.s)
          /\ Fits(c, "release", o.s)
  BY <1>1, <1>3, ReplyShape, AnsweredFits
<1>5. ASSUME s.tx # "T", NEW o \in BeginReply(s, c)
      PROVE  /\ Fits(c, IF o.ok THEN "setro" ELSE "rollback", o.s)
             /\ Fits(c, IF o.ok THEN "setro" ELSE "release", o.s)
  <2>1. CASE o = Ok(Began(s, c))
    BY <2>1, <1>2, <1>3, AnsweredFits
  <2>2. CASE o = Err(Aborted(s))
    BY <2>2, <1>1, <1>3, AnsweredFits
  <2>3. QED
    BY <1>5, <2>1, <2>2, ReplyShape
<1>6. ASSUME s.tx = "T" /\ s.by = c, NEW o \in SetLocalReply(s)
      PROVE  Fits(c, IF o.ok THEN "verify" ELSE "cleanup", o.s)
  BY <1>1, <1>3, <1>6, ReplyShape, AnsweredFits
<1>7. ASSUME s.tx = "T" /\ s.by = c, NEW o \in StatementReply(s)
      PROVE  Fits(c, IF o.ok /\ o.s.ro THEN "query" ELSE "cleanup", o.s)
  BY <1>1, <1>3, <1>7, ReplyShape, AnsweredFits
<1>8. ASSUME s.tx = "T" /\ s.by = c /\ s.ro, NEW o \in StatementReply(s),
             NEW p \in {"rows", "drain", "commit"}
      PROVE  Fits(c, IF o.ok THEN p ELSE "cleanup", o.s)
  BY <1>1, <1>3, <1>8, ReplyShape, AnsweredFits
<1>9. \A o \in CommitReply(s) : Fits(c, IF o.ok THEN "release" ELSE "cleanup", o.s)
  BY <1>1, <1>3, ReplyShape, AnsweredFits
<1>10. QED
  BY <1>4, <1>5, <1>6, <1>7, <1>8, <1>9

LEMMA NoReplyFits ==
    ASSUME NEW s \in Session, NEW c \in Call, NEW p \in Owns \ {"ping"}, Fits(c, p, s)
    PROVE  /\ \A q \in {"cleanup", "release"} : Fits(c, q, s) /\ Fits(c, q, Closed(s))
           /\ p = "begin" => Fits(c, "rollback", s) /\ Fits(c, "rollback", Closed(s))
BY AnswerFields DEF Fits, InTx

(* What every statement of the protocol does: the call moves to p, its     *)
(* session becomes t, and t is what p needs it to be.                      *)
Moves(c, p, t) ==
    /\ pc[c] \in Owns
    /\ Statement(c, p, t)
    /\ Consistent(Sess(c)) /\ Fits(c, pc[c], Sess(c)) => Consistent(t) /\ Fits(c, p, t)

LEMMA ExecMoves ==
    ASSUME TypeInv, NEW c \in Call, pc[c] \in Owns \ {"ping"},
           NEW R \in SUBSET Reply, NEW next \in Owns, NEW otherwise \in Owns,
           otherwise \in {"cleanup", "release"} \/ (pc[c] = "begin" /\ otherwise = "rollback"),
           \A o \in R : Consistent(Sess(c)) /\ Fits(c, pc[c], Sess(c)) =>
                Consistent(o.s) /\ Fits(c, IF o.ok THEN next ELSE otherwise, o.s),
           Exec(c, R, next, otherwise)
    PROVE  \E p \in Owns, t \in Session : Moves(c, p, t)
<1>1. Sess(c) \in Session
  BY SessType
<1>2. PICK o \in Attempt(Sess(c), ctx[c] = "live", R) :
          /\ sess' = [sess EXCEPT ![held[c]] = o.s]
          /\ pc' = [pc EXCEPT ![c] = IF o.ok THEN next ELSE otherwise]
  BY DEF Exec
<1>3. UNCHANGED <<ctx, held, slot>>
  BY DEF Exec
<1>4. \A s \in {NoReply(Sess(c)).s, NoReply(Closed(Sess(c))).s} :
          Fits(c, pc[c], Sess(c)) => Fits(c, otherwise, s)
  <2>1. NoReply(Sess(c)).s = Sess(c) /\ NoReply(Closed(Sess(c))).s = Closed(Sess(c))
    BY DEF NoReply
  <2>2. QED
    BY <1>1, <2>1, NoReplyFits
<1>5. /\ o \in Reply
      /\ Consistent(Sess(c)) /\ Fits(c, pc[c], Sess(c)) =>
            Consistent(o.s) /\ Fits(c, IF o.ok THEN next ELSE otherwise, o.s)
  BY <1>4, ExecStatement
<1>6. o.s \in Session /\ (IF o.ok THEN next ELSE otherwise) \in Owns
  BY <1>5 DEF Reply
<1>7. Moves(c, IF o.ok THEN next ELSE otherwise, o.s)
  BY <1>2, <1>3, <1>5 DEF Moves, Statement
<1>8. QED
  BY <1>6, <1>7

-----------------------------------------------------------------------------
(* Each statement of queryReadOnly is such a move.                         *)

LEMMA EnsureMoves ==
    ASSUME TypeInv, NEW c \in Call, EnsureIdleTx(c)
    PROVE  \E p \in Owns, t \in Session : Moves(c, p, t)
<1>1. pc[c] = "ensure" /\ pc[c] \in Owns \ {"ping"} /\ {"begin", "release"} \subseteq Owns
  BY DEF EnsureIdleTx, Owns
<1>2. Sess(c) \in Session /\ held[c] \in Conn
  BY <1>1, SessType
<1>3. CASE Sess(c).bit = "I"
  <2>1. sess' = [sess EXCEPT ![held[c]] = Sess(c)]
    BY <1>2, <1>3 DEF EnsureIdleTx, TypeInv, TypeOK, Sess
  <2>2. Fits(c, "ensure", Sess(c)) => Fits(c, "begin", Sess(c))
    BY <1>3 DEF Fits, InTx
  <2>3. Moves(c, "begin", Sess(c))
    BY <1>1, <1>3, <2>1, <2>2 DEF EnsureIdleTx, Moves, Statement
  <2>4. QED
    BY <1>1, <1>2, <2>3
<1>4. CASE Sess(c).bit # "I"
  <2>1. Exec(c, RollbackReply(Sess(c)), "begin", "release")
    BY <1>4 DEF EnsureIdleTx
  <2>2. RollbackReply(Sess(c)) \in SUBSET Reply
    BY <1>2, ReplyType
  <2>3. \A o \in RollbackReply(Sess(c)) : Consistent(Sess(c)) =>
            Consistent(o.s) /\ Fits(c, IF o.ok THEN "begin" ELSE "release", o.s)
    BY <1>2, ConsistentReplies, FitsReplies
  <2>4. QED
    BY <1>1, <2>1, <2>2, <2>3, ExecMoves
<1>5. QED
  BY <1>3, <1>4

LEMMA BeginMoves ==
    ASSUME TypeInv, NEW c \in Call, Begin(c) \/ BeginAgain(c)
    PROVE  \E p \in Owns, t \in Session : Moves(c, p, t)
<1>1. /\ pc[c] \in {"begin", "begin2"} /\ pc[c] \in Owns \ {"ping"}
      /\ {"setro", "rollback", "release"} \subseteq Owns
  BY DEF Begin, BeginAgain, Owns, InTx
<1>2. Sess(c) \in Session
  BY <1>1, SessType
<1>3. BeginReply(Sess(c), c) \in SUBSET Reply
  BY <1>2, ReplyType
<1>4. Fits(c, pc[c], Sess(c)) => Sess(c).tx # "T"
  BY <1>1 DEF Fits
<1>5. \A o \in BeginReply(Sess(c), c) : Consistent(Sess(c)) => Consistent(o.s)
  BY <1>2, ConsistentReplies
<1>6. CASE Begin(c)
  <2>1. pc[c] = "begin" /\ Exec(c, BeginReply(Sess(c), c), "setro", "rollback")
    BY <1>6 DEF Begin
  <2>2. \A o \in BeginReply(Sess(c), c) : Fits(c, pc[c], Sess(c)) =>
            Fits(c, IF o.ok THEN "setro" ELSE "rollback", o.s)
    BY <1>2, <1>4, FitsReplies
  <2>3. QED
    BY <1>1, <1>3, <1>5, <2>1, <2>2, ExecMoves
<1>7. CASE BeginAgain(c)
  <2>1. Exec(c, BeginReply(Sess(c), c), "setro", "release")
    BY <1>7 DEF BeginAgain
  <2>2. \A o \in BeginReply(Sess(c), c) : Fits(c, pc[c], Sess(c)) =>
            Fits(c, IF o.ok THEN "setro" ELSE "release", o.s)
    BY <1>2, <1>4, FitsReplies
  <2>3. QED
    BY <1>1, <1>3, <1>5, <2>1, <2>2, ExecMoves
<1>8. QED
  BY <1>6, <1>7

LEMMA RollbackMoves ==
    ASSUME TypeInv, NEW c \in Call, RollbackAndRetry(c)
    PROVE  \E p \in Owns, t \in Session : Moves(c, p, t)
<1>1. pc[c] \in Owns \ {"ping"} /\ {"begin2", "release"} \subseteq Owns
  BY DEF RollbackAndRetry, Owns
<1>2. Sess(c) \in Session
  BY <1>1, SessType
<1>3. RollbackReply(Sess(c)) \in SUBSET Reply
  BY <1>2, ReplyType
<1>4. \A o \in RollbackReply(Sess(c)) : Consistent(Sess(c)) =>
          Consistent(o.s) /\ Fits(c, IF o.ok THEN "begin2" ELSE "release", o.s)
  BY <1>2, ConsistentReplies, FitsReplies
<1>5. QED
  BY <1>1, <1>3, <1>4, ExecMoves DEF RollbackAndRetry

LEMMA SetLocalMoves ==
    ASSUME TypeInv, NEW c \in Call, SetLocalReadOnly(c)
    PROVE  \E p \in Owns, t \in Session : Moves(c, p, t)
<1>1. /\ pc[c] = "setro" /\ pc[c] \in Owns \ {"ping"}
      /\ {"verify", "cleanup"} \subseteq Owns
  BY DEF SetLocalReadOnly, Owns, InTx
<1>2. Sess(c) \in Session
  BY <1>1, SessType
<1>3. SetLocalReply(Sess(c)) \in SUBSET Reply
  BY <1>2, ReplyType
<1>4. Fits(c, pc[c], Sess(c)) => Sess(c).tx = "T" /\ Sess(c).by = c
  BY <1>1 DEF Fits, InTx
<1>5. \A o \in SetLocalReply(Sess(c)) : Consistent(Sess(c)) /\ Fits(c, pc[c], Sess(c)) =>
          Consistent(o.s) /\ Fits(c, IF o.ok THEN "verify" ELSE "cleanup", o.s)
  BY <1>2, <1>4, ConsistentReplies, FitsReplies
<1>6. QED
  BY <1>1, <1>3, <1>5, ExecMoves DEF SetLocalReadOnly

(* A statement that gets no answer leads to "cleanup" or "release".        *)
LEMMA Unanswered ==
    ASSUME NEW s \in Session, NEW c \in Call, NEW p \in Owns \ {"ping"},
           NEW o \in {NoReply(s), NoReply(Closed(s))}
    PROVE  /\ o \in Reply /\ ~o.ok
           /\ Consistent(s) => Consistent(o.s)
           /\ Fits(c, p, s) => Fits(c, "cleanup", o.s) /\ Fits(c, "release", o.s)
<1>1. o.s \in {s, Closed(s)} /\ ~o.ok
  BY DEF NoReply
<1>2. o \in Reply
  <2>1. NoReply(s) \in Reply /\ NoReply(Closed(s)) \in Reply
    BY DEF NoReply, Closed, Reply, Session, TxStatus
  <2>2. QED
    BY <2>1
<1>3. Consistent(s) => Consistent(o.s)
  BY ConsistentReplies
<1>4. Fits(c, p, s) => Fits(c, "cleanup", o.s) /\ Fits(c, "release", o.s)
  BY <1>1, NoReplyFits
<1>5. QED
  BY <1>1, <1>2, <1>3, <1>4

LEMMA VerifyMoves ==
    ASSUME TypeInv, NEW c \in Call, VerifyReadOnlyTx(c)
    PROVE  \E p \in Owns, t \in Session : Moves(c, p, t)
<1>1. /\ pc[c] = "verify" /\ pc[c] \in Owns \ {"ping"}
      /\ {"query", "cleanup"} \subseteq Owns
  BY DEF VerifyReadOnlyTx, Owns, InTx
<1>2. Sess(c) \in Session
  BY <1>1, SessType
<1>3. PICK o \in Attempt(Sess(c), ctx[c] = "live", StatementReply(Sess(c))) :
          /\ sess' = [sess EXCEPT ![held[c]] = o.s]
          /\ pc' = [pc EXCEPT ![c] = IF o.ok /\ o.s.ro THEN "query" ELSE "cleanup"]
  BY DEF VerifyReadOnlyTx
<1>4. UNCHANGED <<ctx, held, slot>>
  BY DEF VerifyReadOnlyTx
<1>5. Fits(c, pc[c], Sess(c)) => Sess(c).tx = "T" /\ Sess(c).by = c
  BY <1>1 DEF Fits, InTx
<1>6. o \in Reply /\ (Consistent(Sess(c)) /\ Fits(c, pc[c], Sess(c)) =>
          Consistent(o.s) /\ Fits(c, IF o.ok /\ o.s.ro THEN "query" ELSE "cleanup", o.s))
  <2>1. CASE o \in StatementReply(Sess(c))
    BY <1>2, <1>5, <2>1, ReplyType, ConsistentReplies, FitsReplies
  <2>2. CASE o \in {NoReply(Sess(c)), NoReply(Closed(Sess(c)))}
    BY <1>1, <1>2, <2>2, Unanswered
  <2>3. QED
    BY <2>1, <2>2 DEF Attempt
<1>7. o.s \in Session
  BY <1>6 DEF Reply
<1>8. Moves(c, IF o.ok /\ o.s.ro THEN "query" ELSE "cleanup", o.s)
  BY <1>1, <1>3, <1>4, <1>6 DEF Moves, Statement
<1>9. QED
  BY <1>1, <1>7, <1>8

LEMMA RunMoves ==
    ASSUME TypeInv, NEW c \in Call, RunQuery(c)
    PROVE  \E p \in Owns, t \in Session : Moves(c, p, t)
<1>1. /\ pc[c] = "query" /\ pc[c] \in Owns \ {"ping"}
      /\ {"rows", "cleanup"} \subseteq Owns
  BY DEF RunQuery, Owns, InTx
<1>2. Sess(c) \in Session
  BY <1>1, SessType
<1>3. PICK o \in Attempt(Sess(c), ctx[c] = "live", StatementReply(Sess(c))) :
          /\ sess' = [sess EXCEPT ![held[c]] = o.s]
          /\ pc' = [pc EXCEPT ![c] = IF o.ok THEN "rows" ELSE "cleanup"]
  BY DEF RunQuery
<1>4. UNCHANGED <<ctx, held, slot>>
  BY DEF RunQuery
<1>5. Fits(c, pc[c], Sess(c)) => Sess(c).tx = "T" /\ Sess(c).by = c /\ Sess(c).ro
  BY <1>1 DEF Fits, InTx
<1>6. o \in Reply /\ (Consistent(Sess(c)) /\ Fits(c, pc[c], Sess(c)) =>
          Consistent(o.s) /\ Fits(c, IF o.ok THEN "rows" ELSE "cleanup", o.s))
  <2>1. CASE o \in StatementReply(Sess(c))
    BY <1>2, <1>5, <2>1, ReplyType, ConsistentReplies, FitsReplies
  <2>2. CASE o \in {NoReply(Sess(c)), NoReply(Closed(Sess(c)))}
    BY <1>1, <1>2, <2>2, Unanswered
  <2>3. QED
    BY <2>1, <2>2 DEF Attempt
<1>7. o.s \in Session
  BY <1>6 DEF Reply
<1>8. Moves(c, IF o.ok THEN "rows" ELSE "cleanup", o.s)
  BY <1>1, <1>3, <1>4, <1>6 DEF Moves, Statement
<1>9. QED
  BY <1>1, <1>7, <1>8

(* Reading rows, to go on at p or to clean up.                             *)
LEMMA FetchFits ==
    ASSUME NEW s \in Session, NEW c \in Call, NEW q \in {"rows", "drain"},
           NEW p \in {"drain", "commit"}, NEW live \in BOOLEAN,
           NEW o \in Fetch(s, live)
    PROVE  /\ o \in Reply
           /\ Consistent(s) /\ Fits(c, q, s) =>
                Consistent(o.s) /\ Fits(c, IF o.ok THEN p ELSE "cleanup", o.s)
<1>1. q \in Owns \ {"ping"}
  BY DEF Owns, InTx
<1>2. Fits(c, q, s) => s.tx = "T" /\ s.by = c /\ s.ro
  BY DEF Fits, InTx
<1>3. CASE o \in StatementReply(s)
  BY <1>2, <1>3, ReplyType, ConsistentReplies, FitsReplies
<1>4. CASE o = Err(s)
  <2>1. ~o.ok /\ Fits(c, "cleanup", o.s)
    BY <1>4, AnswerFields, AnsweredFits
  <2>2. QED
    BY <1>4, <2>1, ReplyType, ConsistentReplies
<1>5. CASE o = NoReply(Closed(s))
  BY <1>1, <1>5, Unanswered
<1>6. QED
  BY <1>3, <1>4, <1>5 DEF Fetch

LEMMA CollectMoves ==
    ASSUME TypeInv, NEW c \in Call, CollectRows(c)
    PROVE  \E p \in Owns, t \in Session : Moves(c, p, t)
<1>1. pc[c] = "rows" /\ pc[c] \in Owns /\ {"drain", "commit", "cleanup"} \subseteq Owns
  BY DEF CollectRows, Owns, InTx
<1>2. Sess(c) \in Session /\ (ctx[c] = "live") \in BOOLEAN
  BY <1>1, SessType
<1>3. PICK o \in Fetch(Sess(c), ctx[c] = "live"), p \in {"drain", "commit"} :
          /\ sess' = [sess EXCEPT ![held[c]] = o.s]
          /\ pc' = [pc EXCEPT ![c] = IF o.ok THEN p ELSE "cleanup"]
  BY DEF CollectRows
<1>4. UNCHANGED <<ctx, held, slot>>
  BY DEF CollectRows
<1>5. o \in Reply /\ (Consistent(Sess(c)) /\ Fits(c, pc[c], Sess(c)) =>
          Consistent(o.s) /\ Fits(c, IF o.ok THEN p ELSE "cleanup", o.s))
  <2>1. \A q \in {"rows", "drain"}, live \in BOOLEAN : \A a \in Fetch(Sess(c), live) :
            a \in Reply /\ (Consistent(Sess(c)) /\ Fits(c, q, Sess(c)) =>
                Consistent(a.s) /\ Fits(c, IF a.ok THEN p ELSE "cleanup", a.s))
    BY <1>2, FetchFits
  <2>2. QED
    BY <1>1, <1>2, <2>1
<1>6. o.s \in Session
  BY <1>5 DEF Reply
<1>7. Moves(c, IF o.ok THEN p ELSE "cleanup", o.s)
  BY <1>1, <1>3, <1>4, <1>5 DEF Moves, Statement
<1>8. QED
  BY <1>1, <1>6, <1>7

LEMMA DrainMoves ==
    ASSUME TypeInv, NEW c \in Call, DrainRows(c)
    PROVE  \E p \in Owns, t \in Session : Moves(c, p, t)
<1>1. pc[c] = "drain" /\ pc[c] \in Owns /\ {"commit", "cleanup"} \subseteq Owns
  BY DEF DrainRows, Owns, InTx
<1>2. Sess(c) \in Session /\ (ctx[c] = "live") \in BOOLEAN
  BY <1>1, SessType
<1>3. PICK o \in Fetch(Sess(c), ctx[c] = "live") :
          /\ sess' = [sess EXCEPT ![held[c]] = o.s]
          /\ pc' = [pc EXCEPT ![c] = IF o.ok THEN "commit" ELSE "cleanup"]
  BY DEF DrainRows
<1>4. UNCHANGED <<ctx, held, slot>>
  BY DEF DrainRows
<1>5. o \in Reply /\ (Consistent(Sess(c)) /\ Fits(c, pc[c], Sess(c)) =>
          Consistent(o.s) /\ Fits(c, IF o.ok THEN "commit" ELSE "cleanup", o.s))
  BY <1>1, <1>2, FetchFits
<1>6. o.s \in Session
  BY <1>5 DEF Reply
<1>7. Moves(c, IF o.ok THEN "commit" ELSE "cleanup", o.s)
  BY <1>1, <1>3, <1>4, <1>5 DEF Moves, Statement
<1>8. QED
  BY <1>1, <1>6, <1>7

LEMMA CommitMoves ==
    ASSUME TypeInv, NEW c \in Call, Commit(c)
    PROVE  \E p \in Owns, t \in Session : Moves(c, p, t)
<1>1. /\ pc[c] = "commit" /\ pc[c] \in Owns \ {"ping"}
      /\ {"release", "cleanup"} \subseteq Owns
  BY DEF Commit, Owns, InTx
<1>2. Sess(c) \in Session
  BY <1>1, SessType
<1>3. PICK o \in Attempt(Sess(c), ctx[c] = "live", CommitReply(Sess(c))) :
          /\ sess' = [sess EXCEPT ![held[c]] = o.s]
          /\ pc' = [pc EXCEPT ![c] = IF o.ok THEN "release" ELSE "cleanup"]
  BY DEF Commit
<1>4. UNCHANGED <<ctx, held, slot>>
  BY DEF Commit
<1>5. o \in Reply /\ (Consistent(Sess(c)) /\ Fits(c, pc[c], Sess(c)) =>
          Consistent(o.s) /\ Fits(c, IF o.ok THEN "release" ELSE "cleanup", o.s))
  <2>1. CASE o \in CommitReply(Sess(c))
    BY <1>2, <2>1, ReplyType, ConsistentReplies, FitsReplies
  <2>2. CASE o \in {NoReply(Sess(c)), NoReply(Closed(Sess(c)))}
    BY <1>1, <1>2, <2>2, Unanswered
  <2>3. QED
    BY <2>1, <2>2 DEF Attempt
<1>6. o.s \in Session
  BY <1>5 DEF Reply
<1>7. Moves(c, IF o.ok THEN "release" ELSE "cleanup", o.s)
  BY <1>1, <1>3, <1>4, <1>5 DEF Moves, Statement
<1>8. QED
  BY <1>1, <1>6, <1>7

LEMMA CleanupMoves ==
    ASSUME TypeInv, NEW c \in Call, CleanupTx(c)
    PROVE  \E p \in Owns, t \in Session : Moves(c, p, t)
<1>1. pc[c] = "cleanup" /\ pc[c] \in Owns \ {"ping"} /\ "release" \in Owns
  BY DEF CleanupTx, Owns
<1>2. Sess(c) \in Session
  BY <1>1, SessType
<1>3. PICK o \in Attempt(Sess(c), TRUE,
                        RollbackReply(Sess(c)) \cup {NoReply(Closed(Sess(c)))}) :
          sess' = [sess EXCEPT ![held[c]] = o.s]
  BY DEF CleanupTx
<1>4. pc' = [pc EXCEPT ![c] = "release"] /\ UNCHANGED <<ctx, held, slot>>
  BY DEF CleanupTx
<1>5. o \in Reply /\ (Consistent(Sess(c)) /\ Fits(c, pc[c], Sess(c)) =>
          Consistent(o.s) /\ Fits(c, "release", o.s))
  <2>1. CASE o \in RollbackReply(Sess(c))
    BY <1>2, <2>1, ReplyType, ConsistentReplies, FitsReplies
  <2>2. CASE o \in {NoReply(Sess(c)), NoReply(Closed(Sess(c)))}
    BY <1>1, <1>2, <2>2, Unanswered
  <2>3. QED
    BY <2>1, <2>2 DEF Attempt
<1>6. o.s \in Session
  BY <1>5 DEF Reply
<1>7. Moves(c, "release", o.s)
  BY <1>1, <1>3, <1>4, <1>5 DEF Moves, Statement
<1>8. QED
  BY <1>1, <1>6, <1>7

(* The statements of queryReadOnly.                                        *)
StatementOf(c) ==
    \/ EnsureIdleTx(c) \/ Begin(c) \/ RollbackAndRetry(c) \/ BeginAgain(c)
    \/ SetLocalReadOnly(c) \/ VerifyReadOnlyTx(c)
    \/ RunQuery(c) \/ CollectRows(c) \/ DrainRows(c) \/ Commit(c) \/ CleanupTx(c)

LEMMA StatementMoves ==
    ASSUME TypeInv, NEW c \in Call, StatementOf(c)
    PROVE  \E p \in Owns, t \in Session : Moves(c, p, t)
BY EnsureMoves, BeginMoves, RollbackMoves, SetLocalMoves, VerifyMoves, RunMoves,
   CollectMoves, DrainMoves, CommitMoves, CleanupMoves DEF StatementOf

(* The ping either leads into queryReadOnly like a statement, or gives the *)
(* connection up.                                                          *)
PingLost(c) ==
    /\ pc[c] = "ping"
    /\ slot' = [slot EXCEPT ![held[c]] = "destroying"]
    /\ held' = [held EXCEPT ![c] = NoConn]
    /\ pc' = [pc EXCEPT ![c] = "acquire"]
    /\ UNCHANGED <<ctx, sess>>

LEMMA PingMoves ==
    ASSUME TypeInv, NEW c \in Call, Ping(c)
    PROVE  PingLost(c) \/ \E p \in Owns, t \in Session : Moves(c, p, t)
<1>1. pc[c] = "ping" /\ pc[c] \in Owns /\ "ensure" \in Owns
  BY DEF Ping, Owns
<1>2. Sess(c) \in Session
  BY <1>1, SessType
<1> DEFINE replies == {Ok(Sess(c))} \cup (IF Faulty THEN {Err(Sess(c))} ELSE {})
<1>3. PICK o \in Attempt(Sess(c), ctx[c] = "live", replies) :
          IF o.ok
            THEN /\ sess' = [sess EXCEPT ![held[c]] = o.s]
                 /\ pc' = [pc EXCEPT ![c] = "ensure"]
                 /\ UNCHANGED <<held, slot>>
            ELSE /\ slot' = [slot EXCEPT ![held[c]] = "destroying"]
                 /\ held' = [held EXCEPT ![c] = NoConn]
                 /\ pc' = [pc EXCEPT ![c] = "acquire"]
                 /\ UNCHANGED sess
  BY DEF Ping
<1>4. UNCHANGED ctx
  BY DEF Ping
<1>5. CASE o.ok
  <2>1. o = Ok(Sess(c))
    BY <1>2, <1>5, AnswerFields DEF Attempt, NoReply
  <2>2. Ok(Sess(c)).s \in Session /\ Fits(c, "ensure", Ok(Sess(c)).s)
    BY <1>2, AnswerFields, AnsweredFits
  <2>3. Consistent(Sess(c)) => Consistent(Ok(Sess(c)).s)
    BY <1>2, ConsistentReplies
  <2>4. Moves(c, "ensure", Ok(Sess(c)).s)
    BY <1>1, <1>3, <1>4, <1>5, <2>1, <2>2, <2>3 DEF Moves, Statement
  <2>5. QED
    BY <1>1, <2>2, <2>4
<1>6. CASE ~o.ok
  BY <1>1, <1>3, <1>4, <1>6 DEF PingLost
<1>7. QED
  BY <1>5, <1>6

(* What the constructor puts in the pool is idle at both ends.             *)
LEMMA ConnectedIdle ==
    ASSUME NEW s \in Delivered, NEW o \in AfterConnect(s), o.ok
    PROVE  o.s \in Session /\ Consistent(o.s) /\ o.s.bit = "I" /\ o.s.tx = "I"
<1>1. s \in Session /\ s.bit = s.tx /\ Consistent(s)
  <2>1. CASE s = Fresh
    BY <2>1 DEF Fresh, Session, TxStatus, Consistent
  <2>2. ASSUME NEW t \in {"T", "E"}, s = [Fresh EXCEPT !.bit = t, !.tx = t, !.by = Foreign]
        PROVE  s \in Session /\ s.bit = s.tx /\ Consistent(s)
    <3>1. s = [link |-> "up", bit |-> t, tx |-> t, ro |-> FALSE, by |-> Foreign]
      BY <2>2 DEF Fresh
    <3>2. QED
      BY <3>1, CallAssumption DEF Session, TxStatus, Consistent
  <2>3. QED
    BY <2>1, <2>2 DEF Delivered
<1> DEFINE Cleared == IF s.bit = "I" THEN {Ok(s)} ELSE RollbackReply(s)
<1>2. PICK a \in Cleared : o \in (IF a.ok THEN StatementReply(a.s) ELSE {a})
  BY DEF AfterConnect
<1> HIDE DEF Cleared
<1>4. a.ok /\ a.s \in Session /\ a.s.tx = "I" /\ Consistent(a.s)
  <2>1. CASE s.bit = "I"
    <3>1. a = Ok(s)
      BY <1>2, <2>1 DEF Cleared
    <3>2. QED
      BY <1>1, <2>1, <3>1, AnswerFields, ConsistentAnswer DEF Consistent
  <2>2. CASE s.bit # "I"
    <3>1. a \in RollbackReply(s)
      BY <1>2, <2>2 DEF Cleared
    <3>2. CASE a = Ok(Ended(s))
      <4>1. Ended(s) \in Session /\ Ended(s).tx = "I" /\ Ended(s).by = NoCall
        BY <1>1, ChangeFields
      <4>2. Ok(Ended(s)).ok /\ Ok(Ended(s)).s \in Session /\ Ok(Ended(s)).s.tx = "I"
        BY <4>1, AnswerFields
      <4>3. Consistent(Ok(Ended(s)).s)
        BY <4>1, ConsistentAnswer
      <4>4. QED
        BY <3>2, <4>2, <4>3
    <3>3. CASE a = Err(Aborted(s))
      <4>1. ~a.ok /\ o = a
        BY <1>1, <1>2, <3>3, ChangeFields, AnswerFields
      <4>2. QED
        BY <4>1
    <3>4. QED
      BY <1>1, <3>1, <3>2, <3>3 DEF RollbackReply
  <2>3. QED
    BY <2>1, <2>2
<1>5. o \in StatementReply(a.s) /\ a.s.tx # "E"
  BY <1>2, <1>4
<1>6. o = Ok(a.s)
  <2>1. Aborted(a.s) \in Session
    BY <1>4, ChangeFields
  <2>2. o # Err(Aborted(a.s))
    BY <2>1, AnswerFields
  <2>3. QED
    BY <1>5, <2>2 DEF StatementReply, Accepts
<1>7. QED
  BY <1>4, <1>6, AnswerFields, ConsistentAnswer DEF Consistent

-----------------------------------------------------------------------------
(* Types.                                                                  *)

PoolTypes ==
    /\ pc \in [Call -> PCs]
    /\ ctx \in [Call -> {"live", "done"}]
    /\ held \in [Call -> Conn \cup {NoConn}]
    /\ slot \in [Conn -> {"none", "constructing", "idle", "rested", "acquired", "destroying"}]
    /\ sess \in [Conn -> Session]

ResultTypes ==
    /\ rows \in [Call -> {"none", "open", "full", "cut", "drained"}]
    /\ err \in [Call -> {"nil", "failed", "commitFailed"}]

LEMMA TypeParts == TypeInv <=> PoolTypes /\ ResultTypes /\ HeldInv
BY DEF TypeInv, TypeOK, PoolTypes, ResultTypes

LEMMA MovesType ==
    ASSUME TypeInv, NEW c \in Call, NEW p \in Owns, NEW t \in Session, Moves(c, p, t)
    PROVE  PoolTypes' /\ HeldInv'
<1>1. PoolTypes /\ HeldInv
  BY TypeParts
<1>2. /\ pc' = [pc EXCEPT ![c] = p] /\ sess' = [sess EXCEPT ![held[c]] = t]
      /\ UNCHANGED <<ctx, held, slot>>
      /\ pc[c] \in Owns
  BY DEF Moves, Statement
<1>3. pc' \in [Call -> PCs]
  BY <1>1, <1>2 DEF PoolTypes, PCs
<1>4. sess' \in [Conn -> Session]
  BY <1>1, <1>2 DEF PoolTypes
<1>5. PoolTypes'
  BY <1>1, <1>2, <1>3, <1>4 DEF PoolTypes
<1>6. HeldInv'
  BY <1>1, <1>2 DEF PoolTypes, HeldInv
<1>7. QED
  BY <1>5, <1>6

LEMMA ResultsType ==
    ASSUME ResultTypes, NEW c \in Call, StatementOf(c) \/ Ping(c)
    PROVE  ResultTypes'
<1>1. CASE EnsureIdleTx(c) \/ Begin(c) \/ RollbackAndRetry(c) \/ BeginAgain(c)
                \/ SetLocalReadOnly(c)
  BY <1>1 DEF EnsureIdleTx, Begin, RollbackAndRetry, BeginAgain, SetLocalReadOnly,
              Exec, Returns, ResultTypes
<1>2. CASE VerifyReadOnlyTx(c)
  BY <1>2 DEF VerifyReadOnlyTx, Returns, ResultTypes
<1>3. CASE RunQuery(c)
  BY <1>3 DEF RunQuery, Returns, ResultTypes
<1>4. CASE CollectRows(c)
  BY <1>4 DEF CollectRows, Returns, ResultTypes
<1>5. CASE DrainRows(c)
  BY <1>5 DEF DrainRows, Returns, ResultTypes
<1>6. CASE Commit(c)
  BY <1>6 DEF Commit, Returns, ResultTypes
<1>7. CASE CleanupTx(c)
  BY <1>7 DEF CleanupTx, ResultTypes
<1>8. CASE Ping(c)
  BY <1>8 DEF Ping, ResultTypes
<1>9. QED
  BY <1>1, <1>2, <1>3, <1>4, <1>5, <1>6, <1>7, <1>8 DEF StatementOf

LEMMA TypeStep == TypeInv /\ [Next]_vars => TypeInv'
<1> SUFFICES ASSUME TypeInv, [Next]_vars PROVE PoolTypes' /\ ResultTypes' /\ HeldInv'
  BY DEF TypeInv, TypeOK, PoolTypes, ResultTypes
<1> USE TypeParts
<1>1. ASSUME NEW c \in Call, StatementOf(c)
      PROVE  PoolTypes' /\ ResultTypes' /\ HeldInv'
  BY <1>1, StatementMoves, MovesType, ResultsType
<1>2. ASSUME NEW c \in Call, Ping(c)
      PROVE  PoolTypes' /\ ResultTypes' /\ HeldInv'
  <2>1. ResultTypes'
    BY <1>2, ResultsType
  <2>2. CASE PingLost(c)
    <3>1. PoolTypes'
      BY <1>2, <2>2, SessType DEF PingLost, PoolTypes, PCs, Owns
    <3>2. HeldInv'
      BY <1>2, <2>2 DEF PingLost, PoolTypes, HeldInv, Owns, InTx
    <3>3. QED
      BY <2>1, <3>1, <3>2
  <2>3. QED
    BY <1>2, <2>1, <2>2, PingMoves, MovesType
<1>3. ASSUME NEW c \in Call, Start(c) \/ Expire(c)
      PROVE  PoolTypes' /\ ResultTypes' /\ HeldInv'
  BY <1>3 DEF Start, Expire, PoolTypes, ResultTypes, HeldInv, PCs, Owns, InTx
<1>4. ASSUME NEW c \in Call, AcquireEntry(c)
      PROVE  PoolTypes' /\ ResultTypes' /\ HeldInv'
  BY <1>4 DEF AcquireEntry, GiveUp, PoolTypes, ResultTypes, HeldInv, PCs, Owns, InTx
<1>5. ASSUME NEW c \in Call, TakeIdle(c)
      PROVE  PoolTypes' /\ ResultTypes' /\ HeldInv'
  <2>1. PoolTypes' /\ ResultTypes'
    BY <1>5 DEF TakeIdle, PoolTypes, ResultTypes, PCs, Owns
  <2>2. HeldInv'
    BY <1>5, CallAssumption DEF TakeIdle, PoolTypes, HeldInv, Owns, InTx
  <2>3. QED
    BY <2>1, <2>2
<1>6. ASSUME NEW c \in Call, StartConnect(c)
      PROVE  PoolTypes' /\ ResultTypes' /\ HeldInv'
  <2>1. PoolTypes' /\ ResultTypes'
    BY <1>6 DEF StartConnect, PoolTypes, ResultTypes, PCs
  <2>2. HeldInv'
    BY <1>6, CallAssumption DEF StartConnect, PoolTypes, HeldInv, Owns, InTx
  <2>3. QED
    BY <2>1, <2>2
<1>7. ASSUME NEW c \in Call, AbandonWait(c)
      PROVE  PoolTypes' /\ ResultTypes' /\ HeldInv'
  BY <1>7 DEF AbandonWait, GiveUp, PoolTypes, ResultTypes, HeldInv, PCs, Owns, InTx
<1>8. ASSUME NEW c \in Call, Release(c)
      PROVE  PoolTypes' /\ ResultTypes' /\ HeldInv'
  <2>1. pc[c] \in Owns
    BY <1>8 DEF Release, Owns
  <2>2. held[c] \in Conn
    BY <2>1, SessType
  <2>3. PoolTypes' /\ ResultTypes'
    BY <1>8, <2>2 DEF Release, PoolTypes, ResultTypes, PCs
  <2>4. HeldInv'
    BY <1>8 DEF Release, PoolTypes, HeldInv, Owns, InTx
  <2>5. QED
    BY <2>3, <2>4
<1>9. ASSUME NEW k \in Conn, Connected(k)
      PROVE  PoolTypes' /\ ResultTypes' /\ HeldInv'
  <2>1. PICK t \in Session : sess' = [sess EXCEPT ![k] = t]
    BY <1>9, ConnectedIdle DEF Connected
  <2>2. CASE UNCHANGED pc
    BY <1>9, <2>1, <2>2 DEF Connected, PoolTypes, ResultTypes, HeldInv
  <2>3. ASSUME NEW c \in Call, held[c] = k, NEW next \in {"ping", "ensure"},
               pc' = [pc EXCEPT ![c] = next]
        PROVE  PoolTypes' /\ ResultTypes' /\ HeldInv'
    <3>1. held[c] # NoConn
      BY <2>3, CallAssumption
    <3>2. HeldInv'
      BY <1>9, <2>3, <3>1 DEF Connected, PoolTypes, HeldInv, Owns, InTx
    <3>3. pc' \in [Call -> PCs]
      BY <2>3 DEF PoolTypes, PCs, Owns
    <3>4. PoolTypes' /\ ResultTypes'
      BY <1>9, <2>1, <3>3 DEF Connected, PoolTypes, ResultTypes
    <3>5. QED
      BY <3>2, <3>4
  <2>4. QED
    BY <1>9, <2>2, <2>3 DEF Connected
<1>10. ASSUME NEW k \in Conn, ConnectFailed(k)
      PROVE  PoolTypes' /\ ResultTypes' /\ HeldInv'
  BY <1>10 DEF ConnectFailed, GiveUp, PoolTypes, ResultTypes, HeldInv, PCs, Owns, InTx
<1>11. ASSUME NEW k \in Conn, Rest(k) \/ HealthCheck(k)
      PROVE  PoolTypes' /\ ResultTypes' /\ HeldInv'
  BY <1>11 DEF Rest, HealthCheck, callVars, PoolTypes, ResultTypes, HeldInv
<1>12. ASSUME NEW k \in Conn, Destructed(k)
      PROVE  PoolTypes' /\ ResultTypes' /\ HeldInv'
  <2>1. Fresh \in Session
    BY DEF Fresh, Session, TxStatus
  <2>2. QED
    BY <1>12, <2>1 DEF Destructed, callVars, PoolTypes, ResultTypes, HeldInv
<1>13. ASSUME NEW k \in Conn, Lose(k)
      PROVE  PoolTypes' /\ ResultTypes' /\ HeldInv'
  <2>1. [sess[k] EXCEPT !.link = "lost"] \in Session
    BY DEF PoolTypes, Session
  <2>2. QED
    BY <1>13, <2>1 DEF Lose, callVars, PoolTypes, ResultTypes, HeldInv
<1>14. ASSUME NEW k \in Conn, HandOver(k)
      PROVE  PoolTypes' /\ ResultTypes' /\ HeldInv'
  <2>1. \A t \in {"T", "E"} : [Fresh EXCEPT !.tx = t, !.by = Foreign] \in Session
    BY DEF Fresh, Session, TxStatus
  <2>2. PICK t \in Session : sess' = [sess EXCEPT ![k] = t]
    BY <1>14, <2>1, CallAssumption DEF HandOver
  <2>3. QED
    BY <1>14, <2>2 DEF HandOver, callVars, PoolTypes, ResultTypes, HeldInv
<1>15. CASE UNCHANGED vars
  BY <1>15 DEF vars, PoolTypes, ResultTypes, HeldInv
<1>16. QED
  BY <1>1, <1>2, <1>3, <1>4, <1>5, <1>6, <1>7, <1>8, <1>9, <1>10, <1>11, <1>12,
     <1>13, <1>14, <1>15 DEF Next, CallStep, ConnStep, StatementOf, Finished

(* Every variable keeps its type, and a call names a connection exactly    *)
(* while it waits for one under construction or holds one.                 *)
THEOREM TypeCorrect == Spec => []TypeOK
<1>1. Init => TypeInv
  BY DEF Init, TypeInv, TypeOK, HeldInv, PCs, Owns, InTx, Fresh, Session, TxStatus
<1>2. TypeInv => TypeOK
  BY DEF TypeInv
<1>3. QED
  BY <1>1, <1>2, TypeStep, PTL DEF Spec

-----------------------------------------------------------------------------
(* The pool's books.  A call that waits for a construction names a slot    *)
(* under construction: what it gets when it is over is nobody else's.      *)

Unshared == \A c, d \in Call : held[c] # NoConn /\ held[c] = held[d] => c = d

Acquired == \A c \in Call : pc[c] \in Owns => slot[held[c]] = "acquired"

Accounted == \A k \in Conn : slot[k] = "acquired" => \E c \in Call : pc[c] \in Owns /\ held[c] = k

Constructing == \A c \in Call : pc[c] = "connect" => slot[held[c]] = "constructing"

PoolInv == Unshared /\ Acquired /\ Accounted /\ Constructing

LEMMA MovesPool ==
    ASSUME TypeInv, PoolInv, NEW c \in Call, NEW p \in Owns, NEW t \in Session, Moves(c, p, t)
    PROVE  PoolInv'
<1>1. /\ pc[c] \in Owns
      /\ pc' = [pc EXCEPT ![c] = p] /\ held' = held /\ slot' = slot
      /\ p # "connect" /\ pc \in [Call -> PCs]
  BY TypeParts DEF Moves, Statement, Owns, InTx, PoolTypes
<1>2. \A d \in Call : pc'[d] \in Owns <=> pc[d] \in Owns
  BY <1>1
<1>3. QED
  BY <1>1, <1>2 DEF PoolInv, Unshared, Acquired, Accounted, Constructing

LEMMA PoolStep == TypeInv /\ PoolInv /\ [Next]_vars => PoolInv'
<1> SUFFICES ASSUME TypeInv, PoolInv, [Next]_vars PROVE PoolInv'
  OBVIOUS
<1>0. PoolTypes /\ HeldInv
  BY TypeParts
<1> USE DEF PoolInv
<1>1. ASSUME NEW c \in Call, StatementOf(c) PROVE PoolInv'
  BY <1>1, StatementMoves, MovesPool
<1>2. ASSUME NEW c \in Call, Ping(c) PROVE PoolInv'
  <2>1. CASE PingLost(c)
    <3>1. pc[c] \in Owns /\ held[c] \in Conn
      BY <2>1, SessType DEF PingLost, Owns
    <3>2. \A d \in Call : held[d] = held[c] => d = c
      BY <1>0, <3>1 DEF HeldInv, Unshared
    <3>3. Unshared'
      BY <2>1, <1>0 DEF PingLost, Unshared, PoolTypes
    <3>4. Acquired'
      BY <2>1, <1>0, <3>2 DEF PingLost, Acquired, PoolTypes, HeldInv, Owns, InTx
    <3>5. Accounted'
      BY <2>1, <1>0, <3>1 DEF PingLost, Accounted, PoolTypes
    <3>6. Constructing'
      BY <2>1, <1>0, <3>2 DEF PingLost, Constructing, PoolTypes
    <3>7. QED
      BY <3>3, <3>4, <3>5, <3>6
  <2>2. QED
    BY <1>2, <2>1, PingMoves, MovesPool
<1>3. ASSUME NEW c \in Call, Start(c) \/ Expire(c) PROVE PoolInv'
  BY <1>0, <1>3 DEF Start, Expire, PoolTypes, Unshared, Acquired, Accounted, Constructing,
                    Owns, InTx
<1>4. ASSUME NEW c \in Call, AcquireEntry(c) PROVE PoolInv'
  BY <1>0, <1>4 DEF AcquireEntry, GiveUp, PoolTypes, HeldInv, Unshared, Acquired, Accounted,
                    Constructing, Owns, InTx
<1>5. ASSUME NEW c \in Call, TakeIdle(c) PROVE PoolInv'
  <2>1. PICK k \in Conn : /\ InPool(k)
                          /\ slot' = [slot EXCEPT ![k] = "acquired"]
                          /\ held' = [held EXCEPT ![c] = k]
    BY <1>5 DEF TakeIdle
  <2>2. \A d \in Call : held[d] # k
    BY <1>0, <2>1, CallAssumption DEF HeldInv, Acquired, Constructing, InPool
  <2>3. /\ pc' \in [Call -> PCs] /\ pc'[c] \in {"ping", "ensure"}
        /\ \A d \in Call \ {c} : pc'[d] = pc[d]
    BY <1>0, <1>5, TypeStep, TypeParts DEF TakeIdle, PoolTypes, PCs, Owns
  <2>4. Unshared'
    BY <1>0, <2>1, <2>2 DEF Unshared, PoolTypes
  <2>5. Acquired'
    BY <1>0, <2>1, <2>2, <2>3 DEF Acquired, PoolTypes
  <2>6. Accounted'
    BY <1>0, <1>5, <2>1, <2>3 DEF TakeIdle, Accounted, PoolTypes, Owns, InTx
  <2>7. Constructing'
    BY <1>0, <2>1, <2>2, <2>3 DEF Constructing, PoolTypes
  <2>8. QED
    BY <2>4, <2>5, <2>6, <2>7
<1>6. ASSUME NEW c \in Call, StartConnect(c) PROVE PoolInv'
  <2>1. PICK k \in Conn : /\ slot[k] = "none"
                          /\ slot' = [slot EXCEPT ![k] = "constructing"]
                          /\ held' = [held EXCEPT ![c] = k]
    BY <1>6 DEF StartConnect
  <2>2. \A d \in Call : held[d] # k
    BY <1>0, <2>1, CallAssumption DEF HeldInv, Acquired, Constructing
  <2>3. pc' = [pc EXCEPT ![c] = "connect"] /\ pc[c] = "wait"
    BY <1>6 DEF StartConnect
  <2>4. Unshared'
    BY <1>0, <2>1, <2>2 DEF Unshared, PoolTypes
  <2>5. Acquired' /\ Constructing'
    BY <1>0, <2>1, <2>2, <2>3 DEF Acquired, Constructing, PoolTypes, Owns, InTx
  <2>6. Accounted'
    BY <1>0, <2>1, <2>3 DEF Accounted, PoolTypes, Owns, InTx
  <2>7. QED
    BY <2>4, <2>5, <2>6
<1>7. ASSUME NEW c \in Call, AbandonWait(c) PROVE PoolInv'
  BY <1>0, <1>7 DEF AbandonWait, GiveUp, PoolTypes, Unshared, Acquired, Accounted,
                    Constructing, Owns, InTx
<1>8. ASSUME NEW c \in Call, Release(c) PROVE PoolInv'
  <2>1. pc[c] \in Owns /\ held[c] \in Conn
    BY <1>8, SessType DEF Release, Owns
  <2>2. \A d \in Call : held[d] = held[c] => d = c
    BY <1>0, <2>1 DEF HeldInv, Unshared
  <2>3. PICK next \in {"idle", "destroying"} : slot' = [slot EXCEPT ![held[c]] = next]
    BY <1>8 DEF Release
  <2>4. held' = [held EXCEPT ![c] = NoConn] /\ pc' = [pc EXCEPT ![c] = "done"]
    BY <1>8 DEF Release
  <2>5. Unshared'
    BY <1>0, <2>4 DEF Unshared, PoolTypes
  <2>6. Acquired' /\ Constructing'
    BY <1>0, <2>2, <2>3, <2>4 DEF Acquired, Constructing, PoolTypes, Owns, InTx
  <2>7. Accounted'
    BY <1>0, <2>1, <2>3, <2>4 DEF Accounted, PoolTypes
  <2>8. QED
    BY <2>5, <2>6, <2>7
<1>9. ASSUME NEW k \in Conn, Connected(k) PROVE PoolInv'
  <2>1. slot[k] = "constructing" /\ held' = held
    BY <1>9 DEF Connected
  <2>2. ASSUME NEW c \in Call, held[c] = k, NEW next \in {"ping", "ensure"},
               slot' = [slot EXCEPT ![k] = "acquired"], pc' = [pc EXCEPT ![c] = next]
        PROVE  PoolInv'
    <3>1. \A d \in Call : held[d] = k => d = c
      BY <1>0, <2>2, CallAssumption DEF Unshared
    <3>2. pc'[c] \in Owns /\ pc'[c] # "connect"
      BY <1>0, <2>2 DEF PoolTypes, Owns
    <3>3. Acquired' /\ Constructing'
      BY <1>0, <2>1, <2>2, <3>1, <3>2 DEF Acquired, Constructing, PoolTypes
    <3>4. Accounted'
      BY <1>0, <2>1, <2>2, <3>2 DEF Accounted, PoolTypes
    <3>5. QED
      BY <2>1, <3>3, <3>4 DEF Unshared
  <2>3. CASE (\A c \in Call : held[c] # k) /\ slot' = [slot EXCEPT ![k] = "idle"] /\ UNCHANGED pc
    BY <1>0, <2>1, <2>3 DEF PoolTypes, Unshared, Acquired, Accounted, Constructing
  <2>4. QED
    BY <1>9, <2>2, <2>3 DEF Connected
<1>10. ASSUME NEW k \in Conn, ConnectFailed(k) PROVE PoolInv'
  <2>1. slot[k] = "constructing" /\ slot' = [slot EXCEPT ![k] = "none"]
    BY <1>10 DEF ConnectFailed
  <2>2. ASSUME NEW c \in Call, held[c] = k, GiveUp(c) PROVE PoolInv'
    <3>1. pc[c] \notin Owns
      BY <2>1, <2>2 DEF Acquired
    <3>2. \A d \in Call : held[d] = k => d = c
      BY <1>0, <2>2, CallAssumption DEF Unshared
    <3>3. pc' = [pc EXCEPT ![c] = "done"] /\ held' = [held EXCEPT ![c] = NoConn]
      BY <2>2 DEF GiveUp
    <3>4. Unshared'
      BY <1>0, <3>3 DEF Unshared, PoolTypes
    <3>5. Acquired' /\ Constructing'
      BY <1>0, <2>1, <3>2, <3>3 DEF Acquired, Constructing, PoolTypes, Owns, InTx
    <3>6. Accounted'
      BY <1>0, <2>1, <3>1, <3>3 DEF Accounted, PoolTypes
    <3>7. QED
      BY <3>4, <3>5, <3>6
  <2>3. CASE (\A c \in Call : held[c] # k) /\ UNCHANGED <<pc, held, err>>
    BY <1>0, <2>1, <2>3 DEF PoolTypes, Unshared, Acquired, Accounted, Constructing
  <2>4. QED
    BY <1>10, <2>2, <2>3 DEF ConnectFailed
<1>11. ASSUME NEW k \in Conn, Rest(k) \/ HealthCheck(k) \/ Destructed(k) PROVE PoolInv'
  <2>1. /\ slot[k] \in {"idle", "rested", "destroying"}
        /\ UNCHANGED <<pc, held>>
        /\ \E v \in {"rested", "destroying", "none"} : slot' = [slot EXCEPT ![k] = v]
    BY <1>11 DEF Rest, HealthCheck, Destructed, InPool, callVars
  <2>2. QED
    BY <1>0, <2>1 DEF PoolTypes, Unshared, Acquired, Accounted, Constructing
<1>12. ASSUME NEW k \in Conn, Lose(k) \/ HandOver(k) PROVE PoolInv'
  <2>1. UNCHANGED <<pc, held, slot>>
    BY <1>12 DEF Lose, HandOver, callVars
  <2>2. QED
    BY <2>1 DEF Unshared, Acquired, Accounted, Constructing
<1>13. CASE UNCHANGED vars
  BY <1>13 DEF vars, Unshared, Acquired, Accounted, Constructing
<1>14. QED
  BY <1>1, <1>2, <1>3, <1>4, <1>5, <1>6, <1>7, <1>8, <1>9, <1>10, <1>11, <1>12, <1>13
     DEF Next, CallStep, ConnStep, StatementOf, Finished

(* A call that possesses a connection is its only holder, and every        *)
(* connection out of the pool has one.                                     *)
THEOREM ConnectionsAccounted == Spec => []Possession
<1>1. Init => TypeInv /\ PoolInv
  BY DEF Init, TypeInv, TypeOK, HeldInv, PCs, Owns, InTx, Fresh, Session, TxStatus,
         PoolInv, Unshared, Acquired, Accounted, Constructing
<1>2. TypeInv /\ PoolInv => Possession
  BY SessType DEF PoolInv, Unshared, Acquired, Accounted, Possession
<1>3. QED
  BY <1>1, <1>2, TypeStep, PoolStep, PTL DEF Spec

-----------------------------------------------------------------------------
(* Sessions in the pool and sessions in use.                               *)

SessInv == \A k \in Conn : Consistent(sess[k])

IdleInv ==
    \A k \in Conn :
        /\ InPool(k) => sess[k].bit = "I"
        /\ slot[k] = "idle" => sess[k].tx # "T"

UseInv == \A c \in Call : pc[c] \in Owns => Fits(c, pc[c], Sess(c))

TxInv == SessInv /\ IdleInv /\ UseInv

LEMMA MovesTx ==
    ASSUME TypeInv, PoolInv, TxInv,
           NEW c \in Call, NEW p \in Owns, NEW t \in Session, Moves(c, p, t)
    PROVE  TxInv'
<1>1. /\ pc[c] \in Owns /\ held[c] \in Conn /\ slot[held[c]] = "acquired"
      /\ pc' = [pc EXCEPT ![c] = p] /\ sess' = [sess EXCEPT ![held[c]] = t]
      /\ held' = held /\ slot' = slot
  BY SessType DEF Moves, Statement, PoolInv, Acquired
<1>2. Consistent(t) /\ Fits(c, p, t)
  BY <1>1 DEF Moves, TxInv, SessInv, UseInv, Sess
<1>3. SessInv'
  BY <1>1, <1>2, TypeParts DEF TxInv, SessInv, PoolTypes
<1>4. IdleInv'
  BY <1>1, TypeParts DEF TxInv, IdleInv, InPool, PoolTypes
<1>5. ASSUME NEW d \in Call, pc'[d] \in Owns PROVE Fits(d, pc'[d], Sess(d)')
  <2>1. CASE d = c
    BY <1>1, <1>2, <2>1, TypeParts DEF PoolTypes, Sess
  <2>2. CASE d # c
    <3>1. pc'[d] = pc[d] /\ pc[d] \in Owns
      BY <1>1, <1>5, <2>2, TypeParts DEF PoolTypes
    <3>2. held[d] \in Conn /\ held[d] # held[c]
      BY <2>2, <3>1, SessType, CallAssumption DEF PoolInv, Unshared
    <3>3. Sess(d)' = Sess(d)
      BY <1>1, <3>2, TypeParts DEF PoolTypes, Sess
    <3>4. QED
      BY <3>1, <3>3 DEF TxInv, UseInv
  <2>3. QED
    BY <2>1, <2>2
<1>6. QED
  BY <1>3, <1>4, <1>5 DEF TxInv, UseInv

(* A step that does not touch the session of a call leaves it fitting.     *)
LEMMA StillFits ==
    ASSUME UseInv, NEW d \in Call, pc[d] \in Owns, pc'[d] = pc[d], held'[d] = held[d],
           sess'[held[d]] = sess[held[d]]
    PROVE  Fits(d, pc'[d], Sess(d)')
BY DEF UseInv, Sess

LEMMA TxStep == TypeInv /\ PoolInv /\ TxInv /\ [Next]_vars => TxInv'
<1> SUFFICES ASSUME TypeInv, PoolInv, TxInv, [Next]_vars PROVE TxInv'
  OBVIOUS
<1>0. /\ PoolTypes /\ HeldInv /\ SessInv /\ IdleInv /\ UseInv
      /\ Unshared /\ Acquired /\ Constructing
  BY TypeParts DEF TxInv, PoolInv
<1>1. ASSUME NEW c \in Call, StatementOf(c) PROVE TxInv'
  BY <1>1, StatementMoves, MovesTx
<1>2. ASSUME NEW c \in Call, Ping(c) PROVE TxInv'
  <2>1. CASE PingLost(c)
    <3>1. sess' = sess /\ SessInv'
      BY <1>0, <2>1 DEF PingLost, SessInv
    <3>2. IdleInv'
      BY <1>0, <2>1 DEF PingLost, IdleInv, InPool, PoolTypes
    <3>3. \A d \in Call : pc'[d] \in Owns => pc'[d] = pc[d] /\ held'[d] = held[d]
      BY <1>0, <2>1 DEF PingLost, PoolTypes, Owns, InTx
    <3>4. QED
      BY <1>0, <3>1, <3>2, <3>3, StillFits DEF TxInv, UseInv
  <2>2. QED
    BY <1>2, <2>1, PingMoves, MovesTx
<1>3. ASSUME NEW c \in Call, Start(c) \/ Expire(c) \/ AcquireEntry(c) \/ AbandonWait(c)
      PROVE TxInv'
  <2>1. UNCHANGED <<slot, sess>>
    BY <1>3 DEF Start, Expire, AcquireEntry, AbandonWait
  <2>2. \A d \in Call : pc'[d] \in Owns => pc'[d] = pc[d] /\ held'[d] = held[d]
    BY <1>0, <1>3 DEF Start, Expire, AcquireEntry, AbandonWait, GiveUp, PoolTypes, Owns, InTx
  <2>3. QED
    BY <1>0, <2>1, <2>2, StillFits DEF TxInv, SessInv, IdleInv, InPool, UseInv
<1>4. ASSUME NEW c \in Call, TakeIdle(c) PROVE TxInv'
  <2>1. PICK k \in Conn :
            /\ InPool(k)
            /\ slot' = [slot EXCEPT ![k] = "acquired"]
            /\ held' = [held EXCEPT ![c] = k]
            /\ pc' = [pc EXCEPT ![c] = IF slot[k] = "rested" THEN "ping" ELSE "ensure"]
    BY <1>4 DEF TakeIdle
  <2>2. sess' = sess
    BY <1>4 DEF TakeIdle
  <2>3. SessInv' /\ IdleInv'
    BY <1>0, <2>1, <2>2 DEF SessInv, IdleInv, InPool, PoolTypes
  <2>4. Fits(c, pc'[c], Sess(c)')
    <3>1. Sess(c)' = sess[k]
      BY <1>0, <2>1, <2>2 DEF PoolTypes, Sess
    <3>2. CASE slot[k] = "rested"
      BY <1>0, <2>1, <3>1, <3>2 DEF PoolTypes, Fits, InTx
    <3>3. CASE slot[k] = "idle"
      BY <1>0, <2>1, <3>1, <3>3 DEF PoolTypes, Fits, InTx, IdleInv
    <3>4. QED
      BY <2>1, <3>2, <3>3 DEF InPool
  <2>5. ASSUME NEW d \in Call \ {c}, pc'[d] \in Owns PROVE Fits(d, pc'[d], Sess(d)')
    BY <1>0, <2>1, <2>2, <2>5, StillFits DEF PoolTypes
  <2>6. QED
    BY <2>3, <2>4, <2>5 DEF TxInv, UseInv
<1>5. ASSUME NEW c \in Call, StartConnect(c) PROVE TxInv'
  <2>1. PICK k \in Conn : slot' = [slot EXCEPT ![k] = "constructing"]
    BY <1>5 DEF StartConnect
  <2>2. sess' = sess
    BY <1>5 DEF StartConnect
  <2>3. SessInv' /\ IdleInv'
    BY <1>0, <2>1, <2>2 DEF SessInv, IdleInv, InPool, PoolTypes
  <2>4. \A d \in Call : pc'[d] \in Owns => pc'[d] = pc[d] /\ held'[d] = held[d]
    BY <1>0, <1>5 DEF StartConnect, PoolTypes, Owns, InTx
  <2>5. QED
    BY <1>0, <2>2, <2>3, <2>4, StillFits DEF TxInv, UseInv
<1>6. ASSUME NEW c \in Call, Release(c) PROVE TxInv'
  <2>1. pc[c] = "release" /\ pc[c] \in Owns /\ held[c] \in Conn /\ sess' = sess
    BY <1>6, SessType DEF Release, Owns
  <2>2. PICK next \in {"idle", "destroying"} :
            /\ next = "idle" => KeepsConn(Sess(c))
            /\ slot' = [slot EXCEPT ![held[c]] = next]
    BY <1>6 DEF Release
  <2>3. next = "idle" => sess[held[c]].bit = "I" /\ sess[held[c]].tx # "T"
    BY <1>0, <2>1, <2>2 DEF UseInv, Fits, KeepsConn, Sess
  <2>4. SessInv' /\ IdleInv'
    BY <1>0, <2>1, <2>2, <2>3 DEF SessInv, IdleInv, InPool, PoolTypes
  <2>5. \A d \in Call : pc'[d] \in Owns => pc'[d] = pc[d] /\ held'[d] = held[d]
    BY <1>0, <1>6 DEF Release, PoolTypes, Owns, InTx
  <2>6. QED
    BY <1>0, <2>1, <2>4, <2>5, StillFits DEF TxInv, UseInv
<1>7. ASSUME NEW k \in Conn, Connected(k) PROVE TxInv'
  <2>1. PICK t \in Session : /\ Consistent(t) /\ t.bit = "I" /\ t.tx = "I"
                             /\ sess' = [sess EXCEPT ![k] = t]
    BY <1>7, ConnectedIdle DEF Connected
  <2>2. slot[k] = "constructing" /\ held' = held
    BY <1>7 DEF Connected
  <2>3. SessInv'
    BY <1>0, <2>1 DEF SessInv, PoolTypes
  <2>4. PICK v \in {"acquired", "idle"} : slot' = [slot EXCEPT ![k] = v]
    BY <1>7 DEF Connected
  <2>5. IdleInv'
    BY <1>0, <2>1, <2>4 DEF IdleInv, InPool, PoolTypes
  <2>6. \A d \in Call : pc[d] \in Owns => held[d] # k
    BY <1>0, <2>2 DEF Acquired
  <2>7. \A d \in Call : pc[d] \in Owns /\ pc'[d] = pc[d] => Fits(d, pc'[d], Sess(d)')
    BY <1>0, <2>1, <2>2, <2>6, StillFits DEF PoolTypes
  <2>8. CASE UNCHANGED pc
    BY <2>3, <2>5, <2>7, <2>8 DEF TxInv, UseInv
  <2>9. ASSUME NEW c \in Call, held[c] = k, NEW next \in {"ping", "ensure"},
               pc' = [pc EXCEPT ![c] = next]
        PROVE  TxInv'
    <3>1. Sess(c)' = t /\ pc'[c] = next
      BY <1>0, <2>1, <2>2, <2>9 DEF PoolTypes, Sess
    <3>2. Fits(c, pc'[c], Sess(c)')
      BY <2>1, <3>1 DEF Fits, InTx
    <3>3. \A d \in Call \ {c} : pc'[d] = pc[d]
      BY <1>0, <2>9 DEF PoolTypes
    <3>4. QED
      BY <2>3, <2>5, <2>7, <3>2, <3>3 DEF TxInv, UseInv
  <2>10. QED
    BY <1>7, <2>8, <2>9 DEF Connected
<1>8. ASSUME NEW k \in Conn, ConnectFailed(k) PROVE TxInv'
  <2>1. sess' = sess /\ slot' = [slot EXCEPT ![k] = "none"]
    BY <1>8 DEF ConnectFailed
  <2>2. SessInv' /\ IdleInv'
    BY <1>0, <2>1 DEF SessInv, IdleInv, InPool, PoolTypes
  <2>3. \A d \in Call : pc'[d] \in Owns => pc'[d] = pc[d] /\ held'[d] = held[d]
    BY <1>0, <1>8 DEF ConnectFailed, GiveUp, PoolTypes, Owns, InTx
  <2>4. QED
    BY <1>0, <2>1, <2>2, <2>3, StillFits DEF TxInv, UseInv
<1>9. ASSUME NEW k \in Conn, Rest(k) \/ HealthCheck(k) PROVE TxInv'
  <2>1. /\ InPool(k) /\ UNCHANGED <<pc, held, sess>>
        /\ \E v \in {"rested", "destroying"} : slot' = [slot EXCEPT ![k] = v]
    BY <1>9 DEF Rest, HealthCheck, InPool, callVars
  <2>2. SessInv' /\ IdleInv'
    BY <1>0, <2>1 DEF SessInv, IdleInv, InPool, PoolTypes
  <2>3. QED
    BY <1>0, <2>1, <2>2, StillFits DEF TxInv, UseInv
<1>10. ASSUME NEW k \in Conn, Destructed(k) PROVE TxInv'
  <2>1. /\ slot[k] = "destroying" /\ UNCHANGED <<pc, held>>
        /\ slot' = [slot EXCEPT ![k] = "none"] /\ sess' = [sess EXCEPT ![k] = Fresh]
    BY <1>10 DEF Destructed, callVars
  <2>2. Consistent(Fresh)
    BY DEF Consistent, Fresh
  <2>3. SessInv' /\ IdleInv'
    BY <1>0, <2>1, <2>2 DEF SessInv, IdleInv, InPool, PoolTypes
  <2>4. \A d \in Call : pc[d] \in Owns => held[d] # k
    BY <1>0, <2>1 DEF Acquired
  <2>5. QED
    BY <1>0, <2>1, <2>3, <2>4, StillFits DEF TxInv, UseInv, PoolTypes
<1>11. ASSUME NEW k \in Conn, Lose(k) PROVE TxInv'
  <2>1. UNCHANGED <<pc, held, slot>>
    BY <1>11 DEF Lose, callVars
  <2>2. PICK t \in {[sess[k] EXCEPT !.link = "lost"]} : sess' = [sess EXCEPT ![k] = t]
    BY <1>11 DEF Lose
  <2>3. t.bit = sess[k].bit /\ t.tx = sess[k].tx /\ t.ro = sess[k].ro /\ t.by = sess[k].by
    BY <1>0, <2>2 DEF PoolTypes, Session
  <2>4. SessInv' /\ IdleInv'
    BY <1>0, <2>1, <2>2, <2>3 DEF SessInv, IdleInv, InPool, PoolTypes, Consistent
  <2>5. ASSUME NEW d \in Call, pc[d] \in Owns PROVE Fits(d, pc[d], Sess(d)')
    <3>1. Fits(d, pc[d], Sess(d)) /\ held[d] \in Conn
      BY <1>0, <2>5, SessType DEF UseInv
    <3>2. Sess(d)' = IF held[d] = k THEN t ELSE Sess(d)
      BY <1>0, <2>1, <2>2, <3>1 DEF PoolTypes, Sess
    <3>3. QED
      BY <2>3, <3>1, <3>2 DEF Fits, Sess
  <2>6. QED
    BY <2>1, <2>4, <2>5 DEF TxInv, UseInv
<1>12. ASSUME NEW k \in Conn, HandOver(k) PROVE TxInv'
  <2>1. UNCHANGED <<pc, held, slot>> /\ InPool(k)
    BY <1>12 DEF HandOver, callVars, InPool
  <2>2. PICK v \in {"T", "E"}, t \in Session : /\ v = "T" => slot[k] = "rested"
                                             /\ t = [Fresh EXCEPT !.tx = v, !.by = Foreign]
                                             /\ sess' = [sess EXCEPT ![k] = t]
    BY <1>12, CallAssumption DEF HandOver, Fresh, Session, TxStatus
  <2>3. t.bit = "I" /\ t.tx = v /\ t.by = Foreign
    BY <2>2 DEF Fresh
  <2>4. SessInv'
    BY <1>0, <2>2, <2>3, CallAssumption DEF SessInv, PoolTypes, Consistent
  <2>5. IdleInv'
    BY <1>0, <2>1, <2>2, <2>3 DEF IdleInv, InPool, PoolTypes
  <2>6. \A d \in Call : pc[d] \in Owns => held[d] # k
    BY <1>0, <2>1 DEF Acquired, InPool
  <2>7. QED
    BY <1>0, <2>1, <2>2, <2>4, <2>5, <2>6, StillFits DEF TxInv, UseInv, PoolTypes
<1>13. CASE UNCHANGED vars
  BY <1>0, <1>13, StillFits DEF vars, TxInv, SessInv, IdleInv, InPool, UseInv
<1>14. QED
  BY <1>1, <1>2, <1>3, <1>4, <1>5, <1>6, <1>7, <1>8, <1>9, <1>10, <1>11, <1>12, <1>13
     DEF Next, CallStep, ConnStep, StatementOf, Finished

LEMMA TxInvariance == Spec => [](TypeInv /\ PoolInv /\ TxInv)
<1>1. Init => TypeInv /\ PoolInv
  BY DEF Init, TypeInv, TypeOK, HeldInv, PCs, Owns, InTx, Fresh, Session, TxStatus,
         PoolInv, Unshared, Acquired, Accounted, Constructing
<1>2. Init => TxInv
  BY DEF Init, Fresh, TxInv, SessInv, IdleInv, UseInv, InPool, Consistent, Owns, InTx
<1>3. QED
  BY <1>1, <1>2, TypeStep, PoolStep, TxStep, PTL DEF Spec

(* The caller's SQL only ever runs inside a read-only transaction its own  *)
(* call began.                                                             *)
THEOREM RunsReadOnly == Spec => []OwnReadOnlyTx
<1>1. TxInv => OwnReadOnlyTx
  BY DEF TxInv, UseInv, Fits, OwnReadOnlyTx, Owns, InTx
<1>2. QED
  BY <1>1, TxInvariance, PTL

(* Connections in the pool are idle and carry no call's transaction.       *)
THEOREM PoolClean == Spec => []IdleConnsClean
<1>1. TypeInv /\ TxInv => IdleConnsClean
  BY CallAssumption DEF TxInv, SessInv, IdleInv, Consistent, IdleConnsClean
<1>2. QED
  BY <1>1, TxInvariance, PTL

-----------------------------------------------------------------------------
(* Dirty sessions.  When nothing fails but the sessions the pool is given, *)
(* no statement the protocol depends on is refused: only the BEGIN whose   *)
(* error leads to a ROLLBACK and a second BEGIN can be.                    *)

UpInv ==
    /\ \A c \in Call : ctx[c] = "live" /\ err[c] = "nil" /\ pc[c] # "cleanup"
    /\ \A k \in Conn : sess[k].link = "up"
    /\ \A c \in Call : pc[c] = "verify" => Sess(c).ro

LEMMA AnswerLinks ==
    ASSUME NEW s \in Session, NEW c \in Call, s.link = "up"
    PROVE  /\ Ok(s).s.link = "up" /\ Err(s).s.link = "up"
           /\ Ok(Began(s, c)).s.link = "up" /\ Ok(Ended(s)).s.link = "up"
           /\ Ok(Restricted(s)).s.link = "up" /\ Ok(Restricted(s)).s.ro
           /\ Err(Aborted(s)).s.link = "up"
BY DEF Ok, Err, Began, Ended, Restricted, Aborted, Session

LEMMA FaultFree ==
    ASSUME ~Faulty, NEW s \in Session, NEW c \in Call, s.link = "up"
    PROVE  /\ \A R : Attempt(s, TRUE, R) = R
           /\ s.tx = "I" => \A o \in BeginReply(s, c) : o = Ok(Began(s, c))
           /\ s.tx = "T" => \A o \in SetLocalReply(s) : o = Ok(Restricted(s))
           /\ s.tx = "T" => \A o \in StatementReply(s) : o = Ok(s)
           /\ \A o \in CommitReply(s) : o = Ok(Ended(s))
           /\ \A o \in RollbackReply(s) : o = Ok(Ended(s))
           /\ s.tx = "T" => Fetch(s, TRUE) = StatementReply(s)
<1>1. s.tx # "E" => \A t : \A o \in Accepts(s, t) : o = Ok(t)
  BY DEF Accepts
<1>2. \A R : Attempt(s, TRUE, R) = R
  BY DEF Attempt
<1>3. QED
  BY <1>1, <1>2 DEF BeginReply, SetLocalReply, StatementReply, CommitReply, RollbackReply, Fetch

(* A statement that does not fail the call.                                *)
Succeeds(c, p, t) ==
    /\ p # "cleanup"
    /\ p = "verify" => t.ro
    /\ t.link = "up"
    /\ pc' = [pc EXCEPT ![c] = p]
    /\ sess' = [sess EXCEPT ![held[c]] = t]
    /\ UNCHANGED <<ctx, held, slot, err>>

LEMMA ExecSucceeds ==
    ASSUME TypeInv, UpInv, ~Faulty, NEW c \in Call, pc[c] \in Owns,
           NEW R \in SUBSET Reply, NEW next \in Owns \ {"cleanup"}, NEW otherwise,
           \A o \in R : /\ o.s.link = "up" /\ (next = "verify" => o.s.ro)
                        /\ (\E t : o = Ok(t)) \/ otherwise = "rollback",
           Exec(c, R, next, otherwise)
    PROVE  \E p, t : Succeeds(c, p, t)
<1>1. ctx[c] = "live" /\ Sess(c) \in Session /\ Sess(c).link = "up"
  BY SessType DEF UpInv, Sess
<1>2. PICK o \in R :
          /\ sess' = [sess EXCEPT ![held[c]] = o.s]
          /\ pc' = [pc EXCEPT ![c] = IF o.ok THEN next ELSE otherwise]
          /\ IF o.ok \/ otherwise = "rollback" THEN UNCHANGED err ELSE Returns(c, "failed")
  <2>1. Attempt(Sess(c), ctx[c] = "live", R) = R
    BY <1>1 DEF Attempt
  <2>2. QED
    BY <2>1 DEF Exec
<1>3. UNCHANGED <<ctx, held, slot>>
  BY DEF Exec
<1>4. CASE \E t : o = Ok(t)
  <2>1. Succeeds(c, next, o.s)
    BY <1>2, <1>3, <1>4 DEF Succeeds, Ok
  <2>2. QED
    BY <2>1
<1>5. CASE otherwise = "rollback"
  <2>1. Succeeds(c, IF o.ok THEN next ELSE otherwise, o.s)
    BY <1>2, <1>3, <1>5 DEF Succeeds
  <2>2. QED
    BY <2>1
<1>6. QED
  BY <1>4, <1>5

LEMMA StatementSucceeds ==
    ASSUME TypeInv, UseInv, UpInv, ~Faulty, NEW c \in Call, StatementOf(c)
    PROVE  \E p, t : Succeeds(c, p, t)
<1>0. /\ {"begin", "begin2", "setro", "verify", "query", "release"} \subseteq Owns \ {"cleanup"}
      /\ "cleanup" # "rollback"
  BY DEF Owns, InTx
<1>1. pc[c] \in Owns \ {"ping"} /\ pc[c] # "cleanup"
  BY DEF StatementOf, EnsureIdleTx, Begin, RollbackAndRetry, BeginAgain, SetLocalReadOnly,
         VerifyReadOnlyTx, RunQuery, CollectRows, DrainRows, Commit, CleanupTx,
         UpInv, Owns, InTx
<1>2. /\ ctx[c] = "live" /\ held[c] \in Conn /\ Sess(c) \in Session /\ Sess(c).link = "up"
      /\ Fits(c, pc[c], Sess(c))
  BY <1>1, SessType DEF UpInv, UseInv, Sess
<1> DEFINE s == Sess(c)
<1>3. /\ BeginReply(s, c) \in SUBSET Reply /\ SetLocalReply(s) \in SUBSET Reply
      /\ RollbackReply(s) \in SUBSET Reply
  BY <1>2, ReplyType
<1>4. /\ Began(s, c) \in Session /\ Ended(s) \in Session /\ Restricted(s) \in Session
      /\ Aborted(s) \in Session
  BY <1>2, BeganFields, ChangeFields
<1>5. /\ Ok(s).ok /\ Ok(Began(s, c)).ok /\ Ok(Ended(s)).ok /\ Ok(Restricted(s)).ok
      /\ Ok(s).s.ro = s.ro
  BY <1>2, <1>4, AnswerFields
<1>6. /\ Ok(s).s.link = "up" /\ Ok(Ended(s)).s.link = "up"
      /\ Ok(Began(s, c)).s.link = "up"
      /\ Ok(Restricted(s)).s.link = "up" /\ Ok(Restricted(s)).s.ro
  BY <1>2, AnswerLinks
<1>7. /\ \A o \in RollbackReply(s) : o = Ok(Ended(s))
      /\ s.tx = "I" => \A o \in BeginReply(s, c) : o = Ok(Began(s, c))
      /\ s.tx = "T" => \A o \in SetLocalReply(s) : o = Ok(Restricted(s))
  BY <1>2, FaultFree
<1>8. /\ Attempt(s, ctx[c] = "live", StatementReply(s)) = StatementReply(s)
      /\ Attempt(s, ctx[c] = "live", CommitReply(s)) = CommitReply(s)
      /\ Fetch(s, ctx[c] = "live") = Fetch(s, TRUE)
  BY <1>2 DEF Attempt, Fetch
<1>9. /\ s.tx = "T" => Fetch(s, TRUE) = StatementReply(s)
      /\ s.tx = "T" => \A o \in StatementReply(s) : o = Ok(s)
      /\ \A o \in CommitReply(s) : o = Ok(Ended(s))
  BY <1>2, FaultFree
<1> HIDE DEF s
<1>10. \A o \in RollbackReply(s) : (\E t : o = Ok(t)) /\ o.s.link = "up"
  BY <1>6, <1>7
<1>11. s.tx = "I" => \A o \in BeginReply(s, c) : (\E t : o = Ok(t)) /\ o.s.link = "up"
  BY <1>6, <1>7
<1>12. s.tx = "T" => \A o \in SetLocalReply(s) :
            (\E t : o = Ok(t)) /\ o.s.link = "up" /\ o.s.ro
  BY <1>6, <1>7
<1>13. CASE EnsureIdleTx(c)
  <2>1. CASE s.bit = "I"
    <3>1. sess' = [sess EXCEPT ![held[c]] = s]
      BY <1>2, <1>13, <2>1 DEF s, EnsureIdleTx, TypeInv, TypeOK, Sess
    <3>2. Succeeds(c, "begin", s)
      BY <1>2, <1>13, <2>1, <3>1 DEF s, EnsureIdleTx, Succeeds
    <3>3. QED
      BY <3>2
  <2>2. CASE s.bit # "I"
    <3>1. Exec(c, RollbackReply(s), "begin", "release")
      BY <1>13, <2>2 DEF s, EnsureIdleTx
    <3>2. QED
      BY <1>0, <1>1, <1>3, <1>10, <3>1, ExecSucceeds DEF s
  <2>3. QED
    BY <2>1, <2>2
<1>14. CASE Begin(c)
  <2>1. Exec(c, BeginReply(s, c), "setro", "rollback") /\ s.tx # "T"
    BY <1>2, <1>14 DEF s, Begin, Fits
  <2>2. \A o \in BeginReply(s, c) : o.s.link = "up" /\ ("setro" = "verify" => o.s.ro)
    BY <1>2, <2>1, ReplyShape, AnswerLinks DEF s
  <2>3. /\ BeginReply(s, c) \in SUBSET Reply
        /\ {"setro"} \subseteq Owns \ {"cleanup"}
        /\ pc[c] \in Owns
    BY <1>0, <1>1, <1>3
  <2>4. QED
    BY <2>1, <2>2, <2>3, ExecSucceeds
<1>15. CASE RollbackAndRetry(c)
  <2>1. Exec(c, RollbackReply(s), "begin2", "release")
    BY <1>15 DEF s, RollbackAndRetry
  <2>2. QED
    BY <1>0, <1>1, <1>3, <1>10, <2>1, ExecSucceeds DEF s
<1>16. CASE BeginAgain(c)
  <2>1. Exec(c, BeginReply(s, c), "setro", "release") /\ s.tx = "I"
    BY <1>2, <1>16 DEF s, BeginAgain, Fits
  <2>2. QED
    BY <1>0, <1>1, <1>3, <1>11, <2>1, ExecSucceeds DEF s
<1>17. CASE SetLocalReadOnly(c)
  <2>1. Exec(c, SetLocalReply(s), "verify", "cleanup") /\ s.tx = "T"
    BY <1>2, <1>17 DEF s, SetLocalReadOnly, Fits, InTx
  <2>2. QED
    BY <1>0, <1>1, <1>3, <1>12, <2>1, ExecSucceeds DEF s
<1>18. \A o \in Attempt(s, ctx[c] = "live", StatementReply(s)) : s.tx = "T" => o = Ok(s)
  BY <1>8, <1>9
<1>19. \A o \in Fetch(s, ctx[c] = "live") : s.tx = "T" => o = Ok(s)
  BY <1>8, <1>9
<1>20. CASE VerifyReadOnlyTx(c)
  <2>1. s.tx = "T" /\ s.ro
    BY <1>2, <1>20 DEF s, VerifyReadOnlyTx, Fits, InTx, UpInv
  <2>2. Succeeds(c, "query", Ok(s).s)
    BY <1>2, <1>5, <1>18, <1>20, <2>1, <1>6 DEF s, VerifyReadOnlyTx, Succeeds
  <2>3. QED
    BY <2>2
<1>21. CASE RunQuery(c)
  <2>1. s.tx = "T"
    BY <1>2, <1>21 DEF s, RunQuery, Fits, InTx
  <2>2. Succeeds(c, "rows", Ok(s).s)
    BY <1>2, <1>5, <1>18, <1>21, <2>1, <1>6 DEF s, RunQuery, Succeeds
  <2>3. QED
    BY <2>2
<1>22. CASE CollectRows(c)
  <2>1. s.tx = "T"
    BY <1>2, <1>22 DEF s, CollectRows, Fits, InTx
  <2>2. PICK o \in Fetch(s, ctx[c] = "live"), got \in {"full", "cut"} :
            /\ sess' = [sess EXCEPT ![held[c]] = o.s]
            /\ o.ok => /\ pc' = [pc EXCEPT ![c] = IF got = "full" THEN "commit" ELSE "drain"]
                       /\ UNCHANGED err
    BY <1>22 DEF s, CollectRows
  <2>3. o = Ok(s) /\ UNCHANGED <<ctx, held, slot>>
    BY <1>19, <1>22, <2>1, <2>2 DEF CollectRows
  <2>4. Succeeds(c, IF got = "full" THEN "commit" ELSE "drain", Ok(s).s)
    BY <1>5, <1>6, <2>2, <2>3 DEF Succeeds
  <2>5. QED
    BY <2>4
<1>23. CASE DrainRows(c)
  <2>1. s.tx = "T"
    BY <1>2, <1>23 DEF s, DrainRows, Fits, InTx
  <2>2. Succeeds(c, "commit", Ok(s).s)
    BY <1>2, <1>5, <1>19, <1>23, <2>1, <1>6 DEF s, DrainRows, Succeeds
  <2>3. QED
    BY <2>2
<1>24. CASE Commit(c)
  <2>1. \A o \in Attempt(s, ctx[c] = "live", CommitReply(s)) : o = Ok(Ended(s))
    BY <1>8, <1>9
  <2>2. Succeeds(c, "release", Ok(Ended(s)).s)
    BY <1>2, <1>5, <1>24, <2>1, <1>6 DEF s, Commit, Succeeds
  <2>3. QED
    BY <2>2
<1>25. CASE CleanupTx(c)
  BY <1>1, <1>25 DEF CleanupTx
<1>26. QED
  BY <1>13, <1>14, <1>15, <1>16, <1>17, <1>20, <1>21, <1>22, <1>23, <1>24, <1>25 DEF StatementOf

LEMMA ConnectedUp ==
    ASSUME ~Faulty, NEW s \in Delivered, NEW o \in AfterConnect(s)
    PROVE  o.ok /\ o.s.link = "up"
<1>1. s \in Session /\ s.link = "up" /\ s.bit = s.tx
  <2>1. CASE s = Fresh
    BY <2>1 DEF Fresh, Session, TxStatus
  <2>2. ASSUME NEW t \in {"T", "E"}, s = [Fresh EXCEPT !.bit = t, !.tx = t, !.by = Foreign]
        PROVE  s \in Session /\ s.link = "up" /\ s.bit = s.tx
    <3>1. s = [link |-> "up", bit |-> t, tx |-> t, ro |-> FALSE, by |-> Foreign]
      BY <2>2 DEF Fresh
    <3>2. QED
      BY <3>1 DEF Session, TxStatus
  <2>3. QED
    BY <2>1, <2>2 DEF Delivered
<1>2. Ended(s) \in Session /\ Ended(s).tx = "I" /\ Ended(s).link = "up"
  BY <1>1 DEF Ended, Session, TxStatus
<1> DEFINE Cleared == IF s.bit = "I" THEN {Ok(s)} ELSE RollbackReply(s)
<1>3. PICK a \in Cleared : o \in (IF a.ok THEN StatementReply(a.s) ELSE {a})
  BY DEF AfterConnect
<1>4. (a = Ok(s) /\ s.tx = "I") \/ a = Ok(Ended(s))
  BY <1>1, <1>3 DEF RollbackReply
<1>5. a.ok /\ a.s \in Session /\ a.s.tx = "I" /\ a.s.link = "up"
  BY <1>1, <1>2, <1>4 DEF Ok, Session, TxStatus
<1>6. o = Ok(a.s)
  BY <1>3, <1>5 DEF StatementReply, Accepts
<1>7. QED
  BY <1>5, <1>6 DEF Ok, Session

LEMMA UpStep ==
    ASSUME ~Faulty
    PROVE  TypeInv /\ PoolInv /\ TxInv /\ UpInv /\ [Next]_vars => UpInv'
<1> SUFFICES ASSUME TypeInv, PoolInv, TxInv, UpInv, [Next]_vars PROVE UpInv'
  OBVIOUS
<1>0. /\ PoolTypes /\ HeldInv /\ UseInv /\ Unshared /\ Acquired
      /\ err \in [Call -> {"nil", "failed", "commitFailed"}]
  BY TypeParts DEF TxInv, PoolInv, ResultTypes
<1> DEFINE Live == \A c \in Call : ctx'[c] = "live" /\ err'[c] = "nil" /\ pc'[c] # "cleanup"
           Up == \A k \in Conn : sess'[k].link = "up"
<1>1. ASSUME NEW c \in Call, pc[c] \in Owns, NEW p, NEW t, Succeeds(c, p, t) PROVE UpInv'
  <2>1. held[c] \in Conn
    BY <1>1, SessType
  <2>2. Live /\ Up
    BY <1>0, <1>1 DEF Succeeds, UpInv, PoolTypes
  <2>3. ASSUME NEW d \in Call, pc'[d] = "verify" PROVE Sess(d)'.ro
    <3>1. CASE d = c
      BY <1>0, <1>1, <2>1, <2>3, <3>1 DEF Succeeds, PoolTypes, Sess
    <3>2. CASE d # c
      <4>1. pc[d] = "verify" /\ pc[d] \in Owns /\ Sess(d).ro
        BY <1>0, <1>1, <2>3, <3>2 DEF Succeeds, PoolTypes, UpInv, Owns, InTx
      <4>2. held[d] \in Conn /\ held[d] # held[c]
        BY <1>0, <1>1, <2>1, <3>2, <4>1, SessType, CallAssumption DEF Unshared
      <4>3. QED
        BY <1>0, <1>1, <4>1, <4>2 DEF Succeeds, PoolTypes, Sess
    <3>3. QED
      BY <3>1, <3>2
  <2>4. QED
    BY <2>2, <2>3 DEF UpInv
<1>2. ASSUME NEW c \in Call, StatementOf(c) PROVE UpInv'
  <2>1. pc[c] \in Owns
    BY <1>2 DEF StatementOf, EnsureIdleTx, Begin, RollbackAndRetry, BeginAgain,
         SetLocalReadOnly, VerifyReadOnlyTx, RunQuery, CollectRows, DrainRows, Commit,
         CleanupTx, Owns, InTx
  <2>2. QED
    BY <1>0, <1>1, <1>2, <2>1, StatementSucceeds
<1>3. ASSUME NEW c \in Call, Ping(c) PROVE UpInv'
  <2>1. pc[c] \in Owns /\ Sess(c) \in Session /\ Sess(c).link = "up" /\ ctx[c] = "live"
    BY <1>3, SessType DEF Ping, Owns, UpInv, Sess
  <2>2. \A o \in Attempt(Sess(c), ctx[c] = "live",
            {Ok(Sess(c))} \cup (IF Faulty THEN {Err(Sess(c))} ELSE {})) : o = Ok(Sess(c))
    BY <2>1 DEF Attempt
  <2>3. Ok(Sess(c)).ok /\ Ok(Sess(c)).s.link = "up"
    BY <2>1, AnswerFields, AnswerLinks
  <2>4. Succeeds(c, "ensure", Ok(Sess(c)).s)
    BY <1>3, <2>2, <2>3 DEF Ping, Succeeds
  <2>5. QED
    BY <1>1, <2>1, <2>4
(* Steps that leave the sessions, the contexts and the errors alone.       *)
<1>4. ASSUME UNCHANGED <<ctx, err, sess>>, \A d \in Call : pc'[d] # "cleanup",
             \A d \in Call : pc'[d] = "verify" => pc'[d] = pc[d] /\ held'[d] = held[d]
      PROVE  UpInv'
  BY <1>0, <1>4 DEF UpInv, Sess
<1>5. ASSUME NEW c \in Call, Start(c) \/ AcquireEntry(c) \/ TakeIdle(c) \/ StartConnect(c)
                             \/ Release(c)
      PROVE  UpInv'
  <2>1. UNCHANGED <<ctx, err, sess>>
    BY <1>5 DEF Start, AcquireEntry, TakeIdle, StartConnect, Release, UpInv
  <2>2. \E p \in {"acquire", "wait", "ping", "ensure", "connect", "done"} :
            pc' = [pc EXCEPT ![c] = p]
    BY <1>5 DEF Start, AcquireEntry, TakeIdle, StartConnect, Release, UpInv
  <2>3. \A d \in Call \ {c} : held'[d] = held[d]
    BY <1>0, <1>5 DEF Start, AcquireEntry, TakeIdle, StartConnect, Release, UpInv, PoolTypes
  <2>4. QED
    BY <1>0, <1>4, <2>1, <2>2, <2>3 DEF UpInv, PoolTypes
<1>6. ASSUME NEW c \in Call PROVE ~Expire(c) /\ ~AbandonWait(c)
  BY DEF Expire, AbandonWait, UpInv
<1>7. ASSUME NEW k \in Conn PROVE ~Lose(k) /\ ~ConnectFailed(k)
  BY ConnectedUp DEF Lose, ConnectFailed
(* Steps that replace the session of a connection no statement runs on.    *)
<1>8. ASSUME NEW k \in Conn, NEW t, t.link = "up", sess' = [sess EXCEPT ![k] = t],
             slot[k] # "acquired", UNCHANGED <<ctx, err, held>>,
             \A d \in Call : pc'[d] # pc[d] => pc'[d] \in {"ping", "ensure"}
      PROVE  UpInv'
  <2>1. Live /\ Up
    BY <1>0, <1>8 DEF UpInv, PoolTypes
  <2>2. ASSUME NEW d \in Call, pc'[d] = "verify" PROVE Sess(d)'.ro
    <3>1. pc[d] = "verify" /\ pc[d] \in Owns /\ Sess(d).ro
      BY <1>8, <2>2 DEF UpInv, Owns, InTx
    <3>2. held[d] # k
      BY <1>0, <1>8, <3>1 DEF Acquired
    <3>3. QED
      BY <1>0, <1>8, <3>1, <3>2, SessType DEF PoolTypes, Sess
  <2>3. QED
    BY <2>1, <2>2 DEF UpInv
<1>9. ASSUME NEW k \in Conn, Connected(k) PROVE UpInv'
  <2>0. PICK s \in Delivered : \E o \in AfterConnect(s) : sess' = [sess EXCEPT ![k] = o.s]
    BY <1>9 DEF Connected
  <2>1. PICK o \in AfterConnect(s) : sess' = [sess EXCEPT ![k] = o.s]
    BY <2>0
  <2>2. o.s.link = "up" /\ slot[k] # "acquired" /\ UNCHANGED <<ctx, err, held>>
    BY <1>9, <2>1, ConnectedUp DEF Connected
  <2>3. \A d \in Call : pc'[d] # pc[d] => pc'[d] \in {"ping", "ensure"}
    BY <1>0, <1>9 DEF Connected, PoolTypes
  <2>4. QED
    BY <1>8, <2>1, <2>2, <2>3
<1>10. ASSUME NEW k \in Conn, Destructed(k) PROVE UpInv'
  <2>1. Fresh.link = "up"
    BY DEF Fresh
  <2>2. QED
    BY <1>8, <1>10, <2>1 DEF Destructed, callVars
<1>11. ASSUME NEW k \in Conn, HandOver(k) PROVE UpInv'
  <2>1. PICK v \in HandOvers : sess' = [sess EXCEPT ![k] = [Fresh EXCEPT !.tx = v, !.by = Foreign]]
    BY <1>11 DEF HandOver
  <2>2. [Fresh EXCEPT !.tx = v, !.by = Foreign].link = "up"
    BY DEF Fresh
  <2>3. slot[k] # "acquired" /\ UNCHANGED callVars
    BY <1>11 DEF HandOver, InPool
  <2>4. QED
    BY <1>8, <2>1, <2>2, <2>3 DEF callVars
<1>12. ASSUME NEW k \in Conn, Rest(k) \/ HealthCheck(k) PROVE UpInv'
  BY <1>4, <1>12 DEF Rest, HealthCheck, callVars, UpInv
<1>13. CASE UNCHANGED vars
  BY <1>4, <1>13 DEF vars, UpInv
<1>14. QED
  BY <1>2, <1>3, <1>5, <1>6, <1>7, <1>9, <1>10, <1>11, <1>12, <1>13
     DEF Next, CallStep, ConnStep, StatementOf, Finished

(* With nothing failing but the sessions themselves, every call of every   *)
(* pool returns its rows: ensureIdleTx, the ping, the second BEGIN and     *)
(* AfterConnect between them repair whatever a session is delivered or     *)
(* swapped in with.                                                        *)
THEOREM DirtRepaired == Spec => []DirtSurvived
<1>1. CASE Faulty
  <2>1. DirtSurvived
    BY <1>1 DEF DirtSurvived
  <2>2. QED
    BY <2>1, PTL
<1>2. CASE ~Faulty
  <2>1. Init => UpInv
    BY DEF Init, UpInv, Fresh
  <2>2. TypeInv /\ PoolInv /\ TxInv /\ UpInv /\ [Next]_vars => UpInv'
    BY <1>2, UpStep
  <2>3. UpInv => DirtSurvived
    BY DEF UpInv, DirtSurvived, Outcome
  <2>4. QED
    BY <2>1, <2>2, <2>3, TxInvariance, PTL DEF Spec
<1>3. QED
  BY <1>1, <1>2

-----------------------------------------------------------------------------
(* Results.  What a call has read and what it is about to return, from the *)
(* place it is at.                                                         *)

Whole == {"full", "drained"}

ResultAt(p, r, e) ==
    /\ p \in {"new", "acquire", "wait", "connect", "ping", "ensure", "begin", "rollback",
              "begin2", "setro", "verify", "query"} => r = "none" /\ e = "nil"
    /\ p = "rows" => r = "open" /\ e = "nil"
    /\ p = "drain" => r = "cut" /\ e = "nil"
    /\ p = "commit" => r \in Whole /\ e = "nil"
    /\ p = "cleanup" => e # "nil"
    /\ p \in {"release", "done"} /\ e = "nil" => r \in Whole
    /\ e = "commitFailed" => r \in Whole
    /\ e = "failed" => r \notin Whole

ResultInv == \A c \in Call : ResultAt(pc[c], rows[c], err[c])

(* The control flow of a call, with what it does to rows and err: from q   *)
(* with r0 and e0 to p with r and e.                                       *)
Early == {"new", "acquire", "wait", "connect", "ping", "ensure", "begin", "rollback",
          "begin2", "setro", "verify", "query"}

Flow(q, r0, e0, p, r, e) ==
    \/ q \in Early /\ p \in Early /\ r = r0 /\ e = e0
    \/ q \in {"acquire", "wait", "connect"} /\ p = "done" /\ r = r0 /\ e = "failed"
    \/ q \in {"ensure", "rollback", "begin2"} /\ p = "release" /\ r = r0 /\ e = "failed"
    \/ q \in {"setro", "verify", "query", "rows", "drain"} /\ p = "cleanup" /\ r = r0 /\ e = "failed"
    \/ q = "query" /\ p = "rows" /\ r = "open" /\ e = e0
    \/ q = "rows" /\ p = "commit" /\ r = "full" /\ e = e0
    \/ q = "rows" /\ p = "drain" /\ r = "cut" /\ e = e0
    \/ q = "drain" /\ p = "commit" /\ r = "drained" /\ e = e0
    \/ q = "commit" /\ p = "release" /\ r = r0 /\ e = e0
    \/ q = "commit" /\ p = "cleanup" /\ r = r0 /\ e = "commitFailed"
    \/ q = "cleanup" /\ p = "release" /\ r = r0 /\ e = e0
    \/ q = "release" /\ p = "done" /\ r = r0 /\ e = e0

Flows(c, p, r, e) ==
    /\ pc' = [pc EXCEPT ![c] = p]
    /\ rows' = [rows EXCEPT ![c] = r]
    /\ err' = [err EXCEPT ![c] = e]
    /\ Flow(pc[c], rows[c], err[c], p, r, e)

SomeFlow == \E c \in Call : \E p \in PCs : \E r, e : Flows(c, p, r, e)

LEMMA SameFunction ==
    ASSUME TypeInv, NEW c \in Call
    PROVE  /\ rows = [rows EXCEPT ![c] = rows[c]]
           /\ err = [err EXCEPT ![c] = err[c]]
BY DEF TypeInv, TypeOK

LEMMA ExecFlow ==
    ASSUME TypeInv, NEW c \in Call, NEW R, NEW next \in PCs, NEW otherwise \in PCs,
           Exec(c, R, next, otherwise), otherwise # "rollback",
           Flow(pc[c], rows[c], err[c], next, rows[c], err[c]),
           Flow(pc[c], rows[c], err[c], otherwise, rows[c], "failed")
    PROVE  SomeFlow
<1>1. PICK o \in Attempt(Sess(c), ctx[c] = "live", R) :
          /\ pc' = [pc EXCEPT ![c] = IF o.ok THEN next ELSE otherwise]
          /\ IF o.ok THEN UNCHANGED err ELSE Returns(c, "failed")
  BY DEF Exec
<1>2. rows' = [rows EXCEPT ![c] = rows[c]]
  BY SameFunction DEF Exec
<1>3. CASE o.ok
  <2>1. Flows(c, next, rows[c], err[c])
    BY <1>1, <1>2, <1>3, SameFunction DEF Flows
  <2>2. QED
    BY <2>1 DEF SomeFlow
<1>4. CASE ~o.ok
  <2>1. Flows(c, otherwise, rows[c], "failed")
    BY <1>1, <1>2, <1>4 DEF Flows, Returns
  <2>2. QED
    BY <2>1 DEF SomeFlow
<1>5. QED
  BY <1>3, <1>4

LEMMA StatementFlow ==
    ASSUME TypeInv, NEW c \in Call, StatementOf(c)
    PROVE  SomeFlow
<1>0. /\ {"begin", "rollback", "begin2", "setro", "verify", "query", "rows", "drain", "commit",
           "cleanup", "release"} \subseteq PCs
  BY DEF PCs, Owns, InTx
<1>1. CASE EnsureIdleTx(c)
  <2>1. CASE Sess(c).bit = "I"
    <3>1. Flows(c, "begin", rows[c], err[c])
      BY <1>1, <2>1, SameFunction DEF EnsureIdleTx, Flows, Flow, Early
    <3>2. QED
      BY <1>0, <3>1 DEF SomeFlow
  <2>2. CASE Sess(c).bit # "I"
    BY <1>0, <1>1, <2>2, ExecFlow DEF EnsureIdleTx, Flow, Early
  <2>3. QED
    BY <2>1, <2>2
<1>2. CASE Begin(c)
  <2>1. PICK o \in Attempt(Sess(c), ctx[c] = "live", BeginReply(Sess(c), c)) :
            pc' = [pc EXCEPT ![c] = IF o.ok THEN "setro" ELSE "rollback"]
    BY <1>2 DEF Begin, Exec
  <2>2. UNCHANGED <<rows, err>> /\ pc[c] = "begin"
    BY <1>2 DEF Begin, Exec
  <2>3. Flows(c, IF o.ok THEN "setro" ELSE "rollback", rows[c], err[c])
    BY <2>1, <2>2, SameFunction DEF Flows, Flow, Early
  <2>4. QED
    BY <1>0, <2>3 DEF SomeFlow
<1>3. CASE RollbackAndRetry(c)
  BY <1>0, <1>3, ExecFlow DEF RollbackAndRetry, Flow, Early
<1>4. CASE BeginAgain(c)
  BY <1>0, <1>4, ExecFlow DEF BeginAgain, Flow, Early
<1>5. CASE SetLocalReadOnly(c)
  BY <1>0, <1>5, ExecFlow DEF SetLocalReadOnly, Flow, Early
<1>6. CASE VerifyReadOnlyTx(c)
  <2>1. Flows(c, "query", rows[c], err[c]) \/ Flows(c, "cleanup", rows[c], "failed")
    BY <1>6, SameFunction DEF VerifyReadOnlyTx, Returns, Flows, Flow, Early
  <2>2. QED
    BY <1>0, <2>1 DEF SomeFlow
<1>7. CASE RunQuery(c)
  <2>1. Flows(c, "rows", "open", err[c]) \/ Flows(c, "cleanup", rows[c], "failed")
    BY <1>7, SameFunction DEF RunQuery, Returns, Flows, Flow
  <2>2. QED
    BY <1>0, <2>1 DEF SomeFlow
<1>8. CASE CollectRows(c)
  <2>1. \/ Flows(c, "commit", "full", err[c]) \/ Flows(c, "drain", "cut", err[c])
        \/ Flows(c, "cleanup", rows[c], "failed")
    BY <1>8, SameFunction DEF CollectRows, Returns, Flows, Flow
  <2>2. QED
    BY <1>0, <2>1 DEF SomeFlow
<1>9. CASE DrainRows(c)
  <2>1. Flows(c, "commit", "drained", err[c]) \/ Flows(c, "cleanup", rows[c], "failed")
    BY <1>9, SameFunction DEF DrainRows, Returns, Flows, Flow
  <2>2. QED
    BY <1>0, <2>1 DEF SomeFlow
<1>10. CASE Commit(c)
  <2>1. Flows(c, "release", rows[c], err[c]) \/ Flows(c, "cleanup", rows[c], "commitFailed")
    BY <1>10, SameFunction DEF Commit, Returns, Flows, Flow
  <2>2. QED
    BY <1>0, <2>1 DEF SomeFlow
<1>11. CASE CleanupTx(c)
  <2>1. Flows(c, "release", rows[c], err[c])
    BY <1>11, SameFunction DEF CleanupTx, Flows, Flow
  <2>2. QED
    BY <1>0, <2>1 DEF SomeFlow
<1>12. QED
  BY <1>1, <1>2, <1>3, <1>4, <1>5, <1>6, <1>7, <1>8, <1>9, <1>10, <1>11 DEF StatementOf

LEMMA StepFlow ==
    ASSUME TypeInv, PoolInv, [Next]_vars
    PROVE  SomeFlow \/ UNCHANGED <<pc, rows, err>>
<1>0. {"acquire", "wait", "connect", "ping", "ensure", "done"} \subseteq PCs
  BY DEF PCs, Owns
<1>1. ASSUME NEW c \in Call, pc[c] \in {"acquire", "wait", "connect"}, GiveUp(c), UNCHANGED rows
      PROVE  SomeFlow
  <2>1. Flows(c, "done", rows[c], "failed")
    BY <1>1, SameFunction DEF GiveUp, Flows, Flow
  <2>2. QED
    BY <1>0, <2>1 DEF SomeFlow
<1>2. ASSUME NEW c \in Call, NEW p \in {"acquire", "wait", "connect", "ping", "ensure"},
             pc[c] \in Early, pc' = [pc EXCEPT ![c] = p], UNCHANGED <<rows, err>>
      PROVE  SomeFlow
  <2>1. Flows(c, p, rows[c], err[c])
    BY <1>2, SameFunction DEF Flows, Flow, Early
  <2>2. QED
    BY <1>0, <2>1 DEF SomeFlow
<1>3. ASSUME NEW c \in Call, Start(c) PROVE SomeFlow
  BY <1>2, <1>3 DEF Start, Early
<1>4. ASSUME NEW c \in Call, AcquireEntry(c) PROVE SomeFlow
  BY <1>1, <1>2, <1>4 DEF AcquireEntry, Early
<1>5. ASSUME NEW c \in Call, TakeIdle(c) PROVE SomeFlow
  BY <1>2, <1>5 DEF TakeIdle, Early
<1>6. ASSUME NEW c \in Call, StartConnect(c) PROVE SomeFlow
  BY <1>2, <1>6 DEF StartConnect, Early
<1>7. ASSUME NEW c \in Call, AbandonWait(c) PROVE SomeFlow
  BY <1>1, <1>7 DEF AbandonWait
<1>8. ASSUME NEW c \in Call, Ping(c) PROVE SomeFlow
  <2>1. pc[c] \in Early /\ UNCHANGED <<rows, err>>
    BY <1>8 DEF Ping, Early
  <2>2. \E p \in {"ensure", "acquire"} : pc' = [pc EXCEPT ![c] = p]
    BY <1>8 DEF Ping
  <2>3. QED
    BY <1>2, <2>1, <2>2
<1>9. ASSUME NEW c \in Call, Release(c) PROVE SomeFlow
  <2>1. Flows(c, "done", rows[c], err[c])
    BY <1>9, SameFunction DEF Release, Flows, Flow
  <2>2. QED
    BY <1>0, <2>1 DEF SomeFlow
<1>10. ASSUME NEW k \in Conn, NEW c \in Call, slot[k] = "constructing", held[c] = k
       PROVE  pc[c] = "connect"
  BY <1>10, TypeParts, CallAssumption DEF HeldInv, PoolInv, Acquired
<1>11. ASSUME NEW k \in Conn, Connected(k) PROVE SomeFlow \/ UNCHANGED <<pc, rows, err>>
  <2>1. UNCHANGED <<rows, err>> /\ slot[k] = "constructing"
    BY <1>11 DEF Connected
  <2>2. ASSUME NEW c \in Call, held[c] = k, NEW next \in {"ping", "ensure"},
               pc' = [pc EXCEPT ![c] = next]
        PROVE  SomeFlow
    BY <1>2, <1>10, <2>1, <2>2 DEF Early
  <2>3. QED
    BY <1>11, <2>1, <2>2 DEF Connected
<1>12. ASSUME NEW k \in Conn, ConnectFailed(k) PROVE SomeFlow \/ UNCHANGED <<pc, rows, err>>
  <2>1. UNCHANGED rows /\ slot[k] = "constructing"
    BY <1>12 DEF ConnectFailed
  <2>2. QED
    BY <1>1, <1>10, <1>12, <2>1 DEF ConnectFailed
<1>13. ASSUME NEW c \in Call, Expire(c) PROVE UNCHANGED <<pc, rows, err>>
  BY <1>13 DEF Expire
<1>14. ASSUME NEW k \in Conn, Rest(k) \/ HealthCheck(k) \/ Destructed(k) \/ Lose(k) \/ HandOver(k)
       PROVE  UNCHANGED <<pc, rows, err>>
  BY <1>14 DEF Rest, HealthCheck, Destructed, Lose, HandOver, callVars
<1>15. CASE UNCHANGED vars
  BY <1>15 DEF vars
<1>16. QED
  BY <1>3, <1>4, <1>5, <1>6, <1>7, <1>8, <1>9, <1>11, <1>12, <1>13, <1>14, <1>15,
     StatementFlow DEF Next, CallStep, ConnStep, StatementOf, Finished

LEMMA ResultStep == TypeInv /\ PoolInv /\ ResultInv /\ [Next]_vars => ResultInv'
<1> SUFFICES ASSUME TypeInv, PoolInv, ResultInv, [Next]_vars PROVE ResultInv'
  OBVIOUS
<1>1. ASSUME NEW c \in Call, NEW p \in PCs, NEW r, NEW e, Flows(c, p, r, e)
      PROVE  ResultInv'
  <2>1. ResultAt(pc[c], rows[c], err[c])
    BY DEF ResultInv
  <2>2. ResultAt(p, r, e)
    BY <1>1, <2>1 DEF Flows, Flow, Early, ResultAt, Whole
  <2>3. QED
    BY <1>1, <2>2 DEF Flows, ResultInv, TypeInv, TypeOK
<1>2. CASE UNCHANGED <<pc, rows, err>>
  BY <1>2 DEF ResultInv
<1>3. QED
  BY <1>1, <1>2, StepFlow DEF SomeFlow

LEMMA ResultInvariance == Spec => [](TypeInv /\ ResultInv)
<1>1. Init => TypeInv /\ PoolInv
  BY DEF Init, TypeInv, TypeOK, HeldInv, PCs, Owns, InTx, Fresh, Session, TxStatus,
         PoolInv, Unshared, Acquired, Accounted, Constructing
<1>2. Init => ResultInv
  BY DEF Init, ResultInv, ResultAt
<1>3. QED
  BY <1>1, <1>2, TypeStep, PoolStep, ResultStep, PTL DEF Spec

(* A result is delivered, with or without a warning, only when it was read *)
(* to its end or its rest discarded without an error.                      *)
THEOREM WholeDelivered == Spec => []DeliveredComplete
<1>1. TypeInv /\ ResultInv => DeliveredComplete
  BY DEF ResultInv, ResultAt, Whole, DeliveredComplete, Outcome
<1>2. QED
  BY <1>1, ResultInvariance, PTL

(* A result that was read by Select is delivered, whatever becomes of the  *)
(* COMMIT and the cleanup.                                                 *)
THEOREM WholeNotLost == Spec => []CollectedNotLost
<1>1. TypeInv /\ ResultInv => CollectedNotLost
  BY CallAssumption
     DEF TypeInv, TypeOK, ResultInv, ResultAt, Whole, CollectedNotLost, Outcome
<1>2. QED
  BY <1>1, ResultInvariance, PTL

-----------------------------------------------------------------------------
(* The refinement: every step of the protocol is a step of QueryService or *)
(* leaves it alone.                                                        *)

PhaseAt(p, r) == IF r = "none" THEN "pending"
                 ELSE IF p \in {"rows", "drain"} THEN "running" ELSE "over"

OutcomeAt(c, p, r, e) ==
    IF p # "done" THEN "none"
    ELSE IF e = "nil" THEN "rows"
    ELSE IF e = "commitFailed" /\ c \in SelectCall /\ r \in {"full", "drained"}
      THEN "warning"
    ELSE "error"

PhaseBar   == [c \in Call |-> Phase(c)]
AnswerBar  == [c \in Call |-> Outcome(c)]

LEMMA BarMove ==
    ASSUME TypeInv, NEW c \in Call, NEW p, NEW r, NEW e,
           pc' = [pc EXCEPT ![c] = p], rows' = [rows EXCEPT ![c] = r],
           err' = [err EXCEPT ![c] = e]
    PROVE  /\ PhaseBar' = [PhaseBar EXCEPT ![c] = PhaseAt(p, r)]
           /\ AnswerBar' = [AnswerBar EXCEPT ![c] = OutcomeAt(c, p, r, e)]
           /\ PhaseBar[c] = PhaseAt(pc[c], rows[c])
           /\ AnswerBar[c] = OutcomeAt(c, pc[c], rows[c], err[c])
<1>1. /\ pc'[c] = p /\ rows'[c] = r /\ err'[c] = e
      /\ \A d \in Call \ {c} : pc'[d] = pc[d] /\ rows'[d] = rows[d] /\ err'[d] = err[d]
  BY DEF TypeInv, TypeOK
<1>2. PhaseBar' = [PhaseBar EXCEPT ![c] = PhaseAt(p, r)]
  BY <1>1 DEF PhaseBar, Phase, PhaseAt
<1>3. AnswerBar' = [AnswerBar EXCEPT ![c] = OutcomeAt(c, p, r, e)]
  <2>1. Outcome(c)' = OutcomeAt(c, p, r, e)
    BY <1>1 DEF Outcome, OutcomeAt
  <2>2. \A d \in Call \ {c} : Outcome(d)' = Outcome(d)
    BY <1>1 DEF Outcome
  <2>3. QED
    BY <2>1, <2>2 DEF AnswerBar
<1>4. PhaseBar[c] = PhaseAt(pc[c], rows[c]) /\ AnswerBar[c] = OutcomeAt(c, pc[c], rows[c], err[c])
  BY DEF PhaseBar, Phase, PhaseAt, AnswerBar, Outcome, OutcomeAt
<1>5. QED
  BY <1>2, <1>3, <1>4

ServiceStep == Service!Next \/ UNCHANGED Service!vars

LEMMA BarUnchanged ==
    ASSUME UNCHANGED PhaseBar, UNCHANGED AnswerBar
    PROVE  ServiceStep
BY DEF ServiceStep, Service!vars, PhaseBar, AnswerBar

(* A call moves without the service seeing it.                             *)
LEMMA QuietMove ==
    ASSUME TypeInv, NEW c \in Call, NEW p, NEW r, NEW e,
           pc' = [pc EXCEPT ![c] = p], rows' = [rows EXCEPT ![c] = r],
           err' = [err EXCEPT ![c] = e],
           PhaseAt(p, r) = PhaseAt(pc[c], rows[c]), pc[c] # "done", p # "done"
    PROVE  ServiceStep
<1>1. OutcomeAt(c, p, r, e) = OutcomeAt(c, pc[c], rows[c], err[c])
  BY DEF OutcomeAt
<1>2. /\ PhaseBar' = [PhaseBar EXCEPT ![c] = PhaseAt(p, r)]
      /\ AnswerBar' = [AnswerBar EXCEPT ![c] = OutcomeAt(c, p, r, e)]
      /\ PhaseBar[c] = PhaseAt(pc[c], rows[c])
      /\ AnswerBar[c] = OutcomeAt(c, pc[c], rows[c], err[c])
  BY BarMove
<1>3. UNCHANGED PhaseBar /\ UNCHANGED AnswerBar
  BY <1>1, <1>2 DEF PhaseBar, AnswerBar
<1>4. QED
  BY <1>3, BarUnchanged

(* A call begins to run, or stops running, its SQL.                        *)
LEMMA PhaseMove ==
    ASSUME TypeInv, NEW c \in Call, NEW p, NEW r, NEW e,
           pc' = [pc EXCEPT ![c] = p], rows' = [rows EXCEPT ![c] = r],
           err' = [err EXCEPT ![c] = e],
           pc[c] # "done", p # "done",
           \/ PhaseAt(pc[c], rows[c]) = "pending" /\ PhaseAt(p, r) = "running"
           \/ PhaseAt(pc[c], rows[c]) = "running" /\ PhaseAt(p, r) = "over"
    PROVE  ServiceStep
<1>1. /\ OutcomeAt(c, p, r, e) = "none"
      /\ OutcomeAt(c, pc[c], rows[c], err[c]) = "none"
  BY DEF OutcomeAt
<1>2. /\ PhaseBar' = [PhaseBar EXCEPT ![c] = PhaseAt(p, r)]
      /\ AnswerBar' = [AnswerBar EXCEPT ![c] = OutcomeAt(c, p, r, e)]
      /\ PhaseBar[c] = PhaseAt(pc[c], rows[c])
      /\ AnswerBar[c] = OutcomeAt(c, pc[c], rows[c], err[c])
  BY BarMove
<1>3. AnswerBar' = AnswerBar /\ AnswerBar[c] = "none"
  BY <1>1, <1>2 DEF AnswerBar
<1>4. Service!Run(c) \/ Service!End(c)
  BY <1>2, <1>3 DEF Service!Run, Service!End, PhaseBar, AnswerBar
<1>5. QED
  BY <1>4 DEF ServiceStep, Service!Next

(* A call that is not running anything returns to its handler.             *)
LEMMA AnswerMove ==
    ASSUME TypeInv, NEW c \in Call, NEW e,
           pc' = [pc EXCEPT ![c] = "done"], rows' = [rows EXCEPT ![c] = rows[c]],
           err' = [err EXCEPT ![c] = e],
           pc[c] \notin {"rows", "drain", "done"},
           e = "nil" => rows[c] \in Whole
    PROVE  ServiceStep
<1>1. /\ PhaseAt("done", rows[c]) = PhaseAt(pc[c], rows[c])
      /\ PhaseAt(pc[c], rows[c]) # "running"
      /\ OutcomeAt(c, pc[c], rows[c], err[c]) = "none"
  BY DEF PhaseAt, OutcomeAt
<1>2. /\ PhaseBar' = [PhaseBar EXCEPT ![c] = PhaseAt("done", rows[c])]
      /\ AnswerBar' = [AnswerBar EXCEPT ![c] = OutcomeAt(c, "done", rows[c], e)]
      /\ PhaseBar[c] = PhaseAt(pc[c], rows[c])
      /\ AnswerBar[c] = OutcomeAt(c, pc[c], rows[c], err[c])
  BY BarMove
<1>3. PhaseBar' = PhaseBar
  BY <1>1, <1>2 DEF PhaseBar
<1>4. CASE OutcomeAt(c, "done", rows[c], e) = "error"
  <2>1. Service!Refuse(c)
    BY <1>1, <1>2, <1>3, <1>4 DEF Service!Refuse, PhaseBar, AnswerBar
  <2>2. QED
    BY <2>1 DEF ServiceStep, Service!Next
<1>5. CASE OutcomeAt(c, "done", rows[c], e) \in {"rows", "warning"}
  <2>1. rows[c] \in Whole
    BY <1>5 DEF OutcomeAt, Whole
  <2>2. PhaseBar[c] = "over"
    BY <1>2, <2>1 DEF PhaseAt, Whole
  <2>3. Service!Deliver(c)
    BY <1>1, <1>2, <1>3, <1>5, <2>2 DEF Service!Deliver, PhaseBar, AnswerBar
  <2>4. QED
    BY <2>3 DEF ServiceStep, Service!Next
<1>6. QED
  BY <1>4, <1>5 DEF OutcomeAt

LEMMA ServiceSimulates == TypeInv /\ PoolInv /\ ResultInv /\ [Next]_vars => [Service!Next]_(Service!vars)
<1> SUFFICES ASSUME TypeInv, PoolInv, ResultInv, [Next]_vars PROVE ServiceStep
  BY DEF ServiceStep
<1>1. ASSUME NEW c \in Call, NEW p \in PCs, NEW r, NEW e, Flows(c, p, r, e)
      PROVE  ServiceStep
  <2>1. ResultAt(pc[c], rows[c], err[c])
    BY DEF ResultInv
  <2>2. /\ pc' = [pc EXCEPT ![c] = p] /\ rows' = [rows EXCEPT ![c] = r]
        /\ err' = [err EXCEPT ![c] = e]
        /\ Flow(pc[c], rows[c], err[c], p, r, e)
    BY <1>1 DEF Flows
  <2>3. CASE pc[c] = "query" /\ p = "rows"
    <3>1. PhaseAt(pc[c], rows[c]) = "pending" /\ PhaseAt(p, r) = "running"
      BY <2>1, <2>2, <2>3 DEF Flow, Early, ResultAt, PhaseAt
    <3>2. QED
      BY <2>2, <2>3, <3>1, PhaseMove
  <2>4. CASE pc[c] \in {"rows", "drain"} /\ p \in {"commit", "cleanup"}
    <3>1. PhaseAt(pc[c], rows[c]) = "running" /\ PhaseAt(p, r) = "over"
      BY <2>1, <2>2, <2>4 DEF Flow, Early, ResultAt, PhaseAt
    <3>2. QED
      BY <2>2, <2>4, <3>1, PhaseMove
  <2>5. CASE p = "done"
    <3>1. pc[c] \notin {"rows", "drain", "done"} /\ r = rows[c] /\ (e = "nil" => rows[c] \in Whole)
      BY <2>1, <2>2, <2>5 DEF Flow, Early, ResultAt
    <3>2. QED
      BY <2>2, <2>5, <3>1, AnswerMove
  <2>6. CASE /\ ~(pc[c] = "query" /\ p = "rows")
             /\ ~(pc[c] \in {"rows", "drain"} /\ p \in {"commit", "cleanup"})
             /\ p # "done"
    <3>1. PhaseAt(p, r) = PhaseAt(pc[c], rows[c]) /\ pc[c] # "done"
      BY <2>1, <2>2, <2>6 DEF Flow, Early, ResultAt, PhaseAt
    <3>2. QED
      BY <2>2, <2>6, <3>1, QuietMove
  <2>7. QED
    BY <2>3, <2>4, <2>5, <2>6
<1>2. CASE UNCHANGED <<pc, rows, err>>
  <2>1. UNCHANGED PhaseBar /\ UNCHANGED AnswerBar
    BY <1>2 DEF PhaseBar, AnswerBar, Phase, Outcome
  <2>2. QED
    BY <2>1, BarUnchanged
<1>3. QED
  BY <1>1, <1>2, StepFlow DEF SomeFlow

(* The protocol implements QueryService: the SQL of a call is run at most  *)
(* once, and the call is answered once, with a result only after it ran.   *)
THEOREM Refinement == Spec => ImplementsQueryService
<1>1. Init => TypeInv /\ PoolInv /\ ResultInv
  BY DEF Init, TypeInv, TypeOK, HeldInv, PCs, Owns, InTx, Fresh, Session, TxStatus,
         PoolInv, Unshared, Acquired, Accounted, Constructing, ResultInv, ResultAt
<1>2. Init => Service!Init
  BY DEF Init, Service!Init, Phase, Outcome
<1>3. QED
  BY <1>1, <1>2, TypeStep, PoolStep, ResultStep, ServiceSimulates, PTL
     DEF Spec, ImplementsQueryService, Service!Spec

-----------------------------------------------------------------------------
(* The calls use their pool as PoolSpec has it: the pool of ReadOnlyTx is  *)
(* coarser than ConnPool, and both implement the same specification.       *)

CallBar  == [c \in Call |-> CallAt(pc[c])]
ConnBar  == [c \in Call |-> ConnAt(pc[c], held[c])]
StateBar == [k \in Conn |-> StateAt(slot[k])]

UseStep == Pool!Next \/ UNCHANGED Pool!vars

-----------------------------------------------------------------------------
(* What a step of one call, and one of one connection, is to the pool.     *)

LEMMA CallMove ==
    ASSUME TypeInv, NEW c \in Call, NEW p, pc' = [pc EXCEPT ![c] = p]
    PROVE  CallBar' = [CallBar EXCEPT ![c] = CallAt(p)] /\ CallBar[c] = CallAt(pc[c])
<1>1. pc'[c] = p /\ \A d \in Call \ {c} : pc'[d] = pc[d]
  BY DEF TypeInv, TypeOK
<1>2. CallAt(pc[c])' = CallAt(p) /\ \A d \in Call \ {c} : CallAt(pc[d])' = CallAt(pc[d])
  BY <1>1 DEF CallAt
<1>3. QED
  BY <1>2 DEF CallBar

LEMMA HeldMove ==
    ASSUME TypeInv, NEW c \in Call, NEW p, NEW h,
           pc' = [pc EXCEPT ![c] = p] /\ held' = [held EXCEPT ![c] = h]
    PROVE  ConnBar' = [ConnBar EXCEPT ![c] = ConnAt(p, h)] /\ ConnBar[c] = ConnAt(pc[c], held[c])
<1>1. /\ pc'[c] = p /\ held'[c] = h
      /\ \A d \in Call \ {c} : pc'[d] = pc[d] /\ held'[d] = held[d]
  BY DEF TypeInv, TypeOK
<1>2. /\ ConnAt(pc[c], held[c])' = ConnAt(p, h)
      /\ \A d \in Call \ {c} : ConnAt(pc[d], held[d])' = ConnAt(pc[d], held[d])
  BY <1>1 DEF ConnAt
<1>3. QED
  BY <1>2 DEF ConnBar

LEMMA SlotMove ==
    ASSUME TypeInv, NEW k \in Conn, NEW v, slot' = [slot EXCEPT ![k] = v]
    PROVE  StateBar' = [StateBar EXCEPT ![k] = StateAt(v)] /\ StateBar[k] = StateAt(slot[k])
<1>1. slot'[k] = v /\ \A j \in Conn \ {k} : slot'[j] = slot[j]
  BY DEF TypeInv, TypeOK
<1>2. StateAt(slot[k])' = StateAt(v) /\ \A j \in Conn \ {k} : StateAt(slot[j])' = StateAt(slot[j])
  BY <1>1 DEF StateAt
<1>3. QED
  BY <1>2 DEF StateBar

LEMMA Places ==
    ASSUME NEW p \in PCs
    PROVE  /\ CallAt(p) = "holding" <=> p \in Owns
           /\ CallAt(p) = "out" <=> p \in {"new", "done"}
           /\ CallAt(p) \in {"out", "holding", "asking"}
           /\ p \notin Owns => \A k : ConnAt(p, k) = NoConn
           /\ p \in Owns => \A k : ConnAt(p, k) = k
BY DEF CallAt, ConnAt, PCs, Owns, InTx

LEMMA Unseen ==
    ASSUME UNCHANGED <<CallBar, ConnBar, StateBar>>
    PROVE  UseStep
BY DEF UseStep, Pool!vars, CallBar, ConnBar, StateBar

(* A call that holds nothing before and after: it asks, waits or leaves.   *)
LEMMA EmptyHanded ==
    ASSUME TypeInv, NEW c \in Call, NEW p \in PCs, NEW h,
           pc' = [pc EXCEPT ![c] = p], held' = [held EXCEPT ![c] = h],
           UNCHANGED StateBar, pc[c] \notin Owns, p \notin Owns,
           p # "new", pc[c] # "done"
    PROVE  UseStep
<1>1. /\ CallBar' = [CallBar EXCEPT ![c] = CallAt(p)] /\ CallBar[c] = CallAt(pc[c])
      /\ ConnBar' = [ConnBar EXCEPT ![c] = ConnAt(p, h)] /\ ConnBar[c] = ConnAt(pc[c], held[c])
      /\ pc[c] \in PCs
  <2>1. CallBar' = [CallBar EXCEPT ![c] = CallAt(p)] /\ CallBar[c] = CallAt(pc[c])
    BY CallMove
  <2>2. ConnBar' = [ConnBar EXCEPT ![c] = ConnAt(p, h)] /\ ConnBar[c] = ConnAt(pc[c], held[c])
    BY HeldMove
  <2>3. QED
    BY <2>1, <2>2 DEF TypeInv, TypeOK
<1>2. ConnAt(p, h) = NoConn /\ ConnAt(pc[c], held[c]) = NoConn
  BY <1>1, Places
<1>3. UNCHANGED ConnBar
  BY <1>1, <1>2 DEF ConnBar
<1>4. CASE CallAt(p) = CallAt(pc[c])
  <2>1. UNCHANGED CallBar
    BY <1>1, <1>4 DEF CallBar
  <2>2. QED
    BY <1>3, <2>1, Unseen
<1>5. CASE CallAt(p) # CallAt(pc[c])
  <2>1. \/ CallAt(pc[c]) = "out" /\ CallAt(p) = "asking"
        \/ CallAt(pc[c]) = "asking" /\ CallAt(p) = "out"
    BY <1>1, <1>5, Places
  <2>2. Pool!Ask(c) \/ Pool!Refuse(c)
    BY <1>1, <1>3, <2>1 DEF Pool!Ask, Pool!Refuse, CallBar, ConnBar, StateBar
  <2>3. QED
    BY <2>2 DEF UseStep, Pool!Next
<1>6. QED
  BY <1>4, <1>5

(* A call that keeps what it holds.                                        *)
LEMMA MovesUse ==
    ASSUME TypeInv, NEW c \in Call, NEW p \in Owns, NEW t \in Session, Moves(c, p, t)
    PROVE  UseStep
<1>1. /\ pc[c] \in Owns /\ pc' = [pc EXCEPT ![c] = p] /\ held' = held /\ slot' = slot
      /\ pc \in [Call -> PCs] /\ held \in [Call -> Conn \cup {NoConn}]
  BY TypeParts DEF Moves, Statement, Owns, InTx, PoolTypes
<1>2. p \in PCs /\ pc[c] \in PCs
  BY <1>1 DEF PCs
<1>3. CallAt(p) = CallAt(pc[c]) /\ ConnAt(p, held[c]) = ConnAt(pc[c], held[c])
  BY <1>1, <1>2, Places
<1>4. /\ pc'[c] = p
      /\ \A d \in Call \ {c} : pc'[d] = pc[d]
  BY <1>1
<1>5. UNCHANGED CallBar /\ UNCHANGED ConnBar
  BY <1>1, <1>3, <1>4 DEF CallBar, ConnBar
<1>6. QED
  BY <1>1, <1>5, Unseen DEF StateBar

(* A call gets a connection, out of the pool or new.                       *)
LEMMA LendMove ==
    ASSUME TypeInv, NEW c \in Call, NEW p \in Owns, NEW k \in Conn,
           pc' = [pc EXCEPT ![c] = p], held' = [held EXCEPT ![c] = k],
           slot' = [slot EXCEPT ![k] = "acquired"],
           pc[c] \in {"wait", "connect"}, slot[k] \in {"idle", "rested", "constructing"}
    PROVE  UseStep
<1>1. /\ CallBar' = [CallBar EXCEPT ![c] = CallAt(p)] /\ CallBar[c] = CallAt(pc[c])
      /\ ConnBar' = [ConnBar EXCEPT ![c] = ConnAt(p, k)]
  <2>1. CallBar' = [CallBar EXCEPT ![c] = CallAt(p)] /\ CallBar[c] = CallAt(pc[c])
    BY CallMove
  <2>2. ConnBar' = [ConnBar EXCEPT ![c] = ConnAt(p, k)]
    BY HeldMove
  <2>3. QED
    BY <2>1, <2>2
<1>2. StateBar' = [StateBar EXCEPT ![k] = StateAt("acquired")] /\ StateBar[k] = StateAt(slot[k])
  BY SlotMove
<1>3. CallAt(p) = "holding" /\ ConnAt(p, k) = k /\ CallAt(pc[c]) = "asking"
  BY DEF CallAt, ConnAt, Owns, InTx
<1>4. StateAt("acquired") = "lent" /\ StateAt(slot[k]) \in {"free", "none"}
  BY DEF StateAt
<1>5. Pool!Lend(c, k)
  BY <1>1, <1>2, <1>3, <1>4 DEF Pool!Lend, CallBar, ConnBar, StateBar
<1>6. QED
  BY <1>5 DEF UseStep, Pool!Next

(* A call gives back its connection, fit to be used again or not.          *)
LEMMA ReturnMove ==
    ASSUME TypeInv, NEW c \in Call, NEW p \in {"acquire", "done"},
           NEW v \in {"idle", "destroying"},
           pc' = [pc EXCEPT ![c] = p], held' = [held EXCEPT ![c] = NoConn],
           slot' = [slot EXCEPT ![held[c]] = v],
           pc[c] \in Owns, p = "acquire" => v = "destroying"
    PROVE  UseStep
<1>1. held[c] \in Conn
  BY SessType
<1>2. /\ CallBar' = [CallBar EXCEPT ![c] = CallAt(p)] /\ CallBar[c] = CallAt(pc[c])
      /\ ConnBar' = [ConnBar EXCEPT ![c] = ConnAt(p, NoConn)] /\ ConnBar[c] = ConnAt(pc[c], held[c])
  <2>1. CallBar' = [CallBar EXCEPT ![c] = CallAt(p)] /\ CallBar[c] = CallAt(pc[c])
    BY CallMove
  <2>2. ConnBar' = [ConnBar EXCEPT ![c] = ConnAt(p, NoConn)] /\ ConnBar[c] = ConnAt(pc[c], held[c])
    BY HeldMove
  <2>3. QED
    BY <2>1, <2>2
<1>3. StateBar' = [StateBar EXCEPT ![held[c]] = StateAt(v)]
  BY <1>1, SlotMove
<1>4. /\ CallAt(pc[c]) = "holding" /\ ConnAt(pc[c], held[c]) = held[c]
      /\ CallAt(p) = IF p = "done" THEN "out" ELSE "asking"
      /\ ConnAt(p, NoConn) = NoConn
  BY DEF CallAt, ConnAt, Owns, InTx
<1>5. StateAt(v) = IF v = "idle" THEN "free" ELSE "leaving"
  BY DEF StateAt
<1>6. Pool!Return(c)
  BY <1>2, <1>3, <1>4, <1>5 DEF Pool!Return, CallBar, ConnBar, StateBar
<1>7. QED
  BY <1>6 DEF UseStep, Pool!Next

(* A connection appears in the pool, is retired or gone.                   *)
LEMMA PoolMove ==
    ASSUME TypeInv, NEW k \in Conn, NEW v, UNCHANGED <<pc, held>>,
           slot' = [slot EXCEPT ![k] = v],
           <<slot[k], v>> \in {<<"constructing", "idle">>, <<"constructing", "none">>,
                               <<"idle", "rested">>, <<"idle", "destroying">>,
                               <<"rested", "destroying">>, <<"destroying", "none">>}
    PROVE  UseStep
<1>1. StateBar' = [StateBar EXCEPT ![k] = StateAt(v)] /\ StateBar[k] = StateAt(slot[k])
  BY SlotMove
<1>2. UNCHANGED CallBar /\ UNCHANGED ConnBar
  BY DEF CallBar, ConnBar
<1>3. CASE StateAt(v) = StateAt(slot[k])
  <2>1. UNCHANGED StateBar
    BY <1>1, <1>3 DEF StateBar
  <2>2. QED
    BY <1>2, <2>1, Unseen
<1>4. CASE StateAt(v) # StateAt(slot[k])
  <2>1. \/ StateAt(slot[k]) = "none" /\ StateAt(v) = "free"
        \/ StateAt(slot[k]) = "free" /\ StateAt(v) = "leaving"
        \/ StateAt(slot[k]) = "leaving" /\ StateAt(v) = "none"
    BY <1>4 DEF StateAt
  <2>2. Pool!Appear(k) \/ Pool!Retire(k) \/ Pool!Gone(k)
    BY <1>1, <1>2, <2>1 DEF Pool!Appear, Pool!Retire, Pool!Gone, CallBar, ConnBar, StateBar
  <2>3. QED
    BY <2>2 DEF UseStep, Pool!Next
<1>5. QED
  BY <1>3, <1>4

-----------------------------------------------------------------------------
LEMMA PoolSimulates == TypeInv /\ PoolInv /\ [Next]_vars => [Pool!Next]_(Pool!vars)
<1> SUFFICES ASSUME TypeInv, PoolInv, [Next]_vars PROVE UseStep
  BY DEF UseStep
<1>0. PoolTypes /\ HeldInv
  BY TypeParts
<1>1. ASSUME NEW c \in Call, StatementOf(c) PROVE UseStep
  BY <1>1, StatementMoves, MovesUse
<1>2. ASSUME NEW c \in Call, Ping(c) PROVE UseStep
  <2>1. CASE PingLost(c)
    BY <2>1, ReturnMove DEF PingLost, Owns
  <2>2. QED
    BY <1>2, <2>1, PingMoves, MovesUse
<1>3. ASSUME NEW c \in Call, Start(c) PROVE UseStep
  <2>1. /\ pc[c] = "new" /\ pc' = [pc EXCEPT ![c] = "acquire"]
        /\ held' = [held EXCEPT ![c] = held[c]] /\ slot' = slot
    BY <1>0, <1>3 DEF Start, PoolTypes
  <2>2. QED
    BY <2>1, EmptyHanded DEF PCs, Owns, InTx, StateBar
<1>4. ASSUME NEW c \in Call, AcquireEntry(c) PROVE UseStep
  <2>1. \E p \in {"wait", "done"}, h \in Conn \cup {NoConn} :
            pc' = [pc EXCEPT ![c] = p] /\ held' = [held EXCEPT ![c] = h]
    <3>1. held[c] \in Conn \cup {NoConn} /\ held = [held EXCEPT ![c] = held[c]]
      BY <1>0 DEF PoolTypes
    <3>2. QED
      BY <1>4, <3>1 DEF AcquireEntry, GiveUp
  <2>2. pc[c] = "acquire" /\ slot' = slot
    BY <1>4 DEF AcquireEntry
  <2>3. QED
    BY <2>1, <2>2, EmptyHanded DEF PCs, Owns, InTx, StateBar
<1>5. ASSUME NEW c \in Call, TakeIdle(c) PROVE UseStep
  <2>1. PICK k \in Conn : /\ slot[k] \in {"idle", "rested"}
                          /\ slot' = [slot EXCEPT ![k] = "acquired"]
                          /\ held' = [held EXCEPT ![c] = k]
                          /\ pc' = [pc EXCEPT ![c] = IF slot[k] = "rested" THEN "ping" ELSE "ensure"]
    BY <1>5 DEF TakeIdle, InPool
  <2>2. (IF slot[k] = "rested" THEN "ping" ELSE "ensure") \in Owns /\ pc[c] = "wait"
    BY <1>5 DEF TakeIdle, Owns
  <2>3. QED
    BY <2>1, <2>2, LendMove
<1>6. ASSUME NEW c \in Call, StartConnect(c) PROVE UseStep
  <2>1. PICK k \in Conn : /\ slot[k] = "none"
                          /\ slot' = [slot EXCEPT ![k] = "constructing"]
                          /\ held' = [held EXCEPT ![c] = k]
    BY <1>6 DEF StartConnect
  <2>2. UNCHANGED StateBar
    <3>1. StateBar' = [StateBar EXCEPT ![k] = StateAt("constructing")] /\ StateBar[k] = StateAt("none")
      BY <2>1, SlotMove
    <3>2. QED
      BY <3>1 DEF StateAt, StateBar
  <2>3. pc' = [pc EXCEPT ![c] = "connect"] /\ pc[c] = "wait"
    BY <1>6 DEF StartConnect
  <2>4. QED
    BY <2>1, <2>2, <2>3, EmptyHanded DEF PCs, Owns, InTx
<1>7. ASSUME NEW c \in Call, AbandonWait(c) PROVE UseStep
  <2>1. /\ pc[c] \in {"wait", "connect"} /\ slot' = slot
        /\ pc' = [pc EXCEPT ![c] = "done"] /\ held' = [held EXCEPT ![c] = NoConn]
    BY <1>7 DEF AbandonWait, GiveUp
  <2>2. QED
    BY <2>1, EmptyHanded DEF PCs, Owns, InTx, StateBar
<1>8. ASSUME NEW c \in Call, Release(c) PROVE UseStep
  <2>1. PICK v \in {"idle", "destroying"} : slot' = [slot EXCEPT ![held[c]] = v]
    BY <1>8 DEF Release
  <2>2. /\ pc[c] \in Owns
        /\ held' = [held EXCEPT ![c] = NoConn] /\ pc' = [pc EXCEPT ![c] = "done"]
    BY <1>8 DEF Release, Owns
  <2>3. QED
    BY <2>1, <2>2, ReturnMove
<1>9. ASSUME NEW k \in Conn, Connected(k) PROVE UseStep
  <2>1. slot[k] = "constructing" /\ held' = held
    BY <1>9 DEF Connected
  <2>2. ASSUME NEW c \in Call, held[c] = k, NEW next \in {"ping", "ensure"},
               slot' = [slot EXCEPT ![k] = "acquired"], pc' = [pc EXCEPT ![c] = next]
        PROVE  UseStep
    <3>1. pc[c] = "connect"
      BY <1>0, <2>1, <2>2, CallAssumption DEF HeldInv, PoolInv, Acquired
    <3>2. held' = [held EXCEPT ![c] = k] /\ next \in Owns
      BY <1>0, <2>1, <2>2 DEF PoolTypes, Owns
    <3>3. QED
      BY <2>1, <2>2, <3>1, <3>2, LendMove
  <2>3. CASE slot' = [slot EXCEPT ![k] = "idle"] /\ UNCHANGED pc
    BY <2>1, <2>3, PoolMove
  <2>4. QED
    BY <1>9, <2>2, <2>3 DEF Connected
<1>10. ASSUME NEW k \in Conn, ConnectFailed(k) PROVE UseStep
  <2>1. slot[k] = "constructing" /\ slot' = [slot EXCEPT ![k] = "none"]
    BY <1>10 DEF ConnectFailed
  <2>2. ASSUME NEW c \in Call, held[c] = k, GiveUp(c) PROVE UseStep
    <3>1. pc[c] = "connect"
      BY <1>0, <2>1, <2>2, CallAssumption DEF HeldInv, PoolInv, Acquired
    <3>2. UNCHANGED StateBar
      <4>1. StateBar' = [StateBar EXCEPT ![k] = StateAt("none")] /\ StateBar[k] = StateAt("constructing")
        BY <2>1, SlotMove
      <4>2. QED
        BY <4>1 DEF StateAt, StateBar
    <3>3. QED
      BY <2>2, <3>1, <3>2, EmptyHanded DEF GiveUp, PCs, Owns, InTx
  <2>3. CASE UNCHANGED <<pc, held>>
    BY <2>1, <2>3, PoolMove
  <2>4. QED
    BY <1>10, <2>2, <2>3 DEF ConnectFailed
<1>11. ASSUME NEW k \in Conn, Rest(k) \/ HealthCheck(k) \/ Destructed(k) PROVE UseStep
  <2>1. UNCHANGED <<pc, held>>
    BY <1>11 DEF Rest, HealthCheck, Destructed, callVars
  <2>2. PICK v \in {"rested", "destroying", "none"} :
            /\ slot' = [slot EXCEPT ![k] = v]
            /\ <<slot[k], v>> \in {<<"idle", "rested">>, <<"idle", "destroying">>,
                                   <<"rested", "destroying">>, <<"destroying", "none">>}
    BY <1>11 DEF Rest, HealthCheck, Destructed, InPool
  <2>3. QED
    BY <2>1, <2>2, PoolMove
<1>12. CASE UNCHANGED <<pc, held, slot>>
  <2>1. UNCHANGED <<CallBar, ConnBar, StateBar>>
    BY <1>12 DEF CallBar, ConnBar, StateBar
  <2>2. QED
    BY <2>1, Unseen
<1>13. ASSUME NEW c \in Call, Expire(c) PROVE UseStep
  BY <1>12, <1>13 DEF Expire
<1>14. ASSUME NEW k \in Conn, Lose(k) \/ HandOver(k) PROVE UseStep
  BY <1>12, <1>14 DEF Lose, HandOver, callVars
<1>15. CASE UNCHANGED vars
  BY <1>12, <1>15 DEF vars
<1>16. QED
  BY <1>1, <1>2, <1>3, <1>4, <1>5, <1>6, <1>7, <1>8, <1>9, <1>10, <1>11, <1>13, <1>14, <1>15
     DEF Next, CallStep, ConnStep, StatementOf, Finished

(* The protocol uses a pool such as PoolSpec describes: every connection   *)
(* is lent to one call at a time and comes back once.                      *)
THEOREM PoolUsed == Spec => UsesPool
<1>1. Init => TypeInv /\ PoolInv
  BY DEF Init, TypeInv, TypeOK, HeldInv, PCs, Owns, InTx, Fresh, Session, TxStatus,
         PoolInv, Unshared, Acquired, Accounted, Constructing
<1>2. Init => Pool!Init
  BY DEF Init, Pool!Init, CallAt, ConnAt, StateAt, Owns, InTx
<1>3. QED
  BY <1>1, <1>2, TypeStep, PoolStep, PoolSimulates, PTL DEF Spec, UsesPool, Pool!Spec
=============================================================================
