-------------------------- MODULE MockServer_proofs --------------------------
(***************************************************************************)
(* Proofs about the server of the tests and the driver that talks to it,   *)
(* for any queries, any sequence of values of SHOW and any number of       *)
(* queries: every answer is that of this run of its query.                 *)
(***************************************************************************)
EXTENDS MockServer, FiniteSetTheorems, SequenceTheorems, WellFoundedInduction, TLAPS

-----------------------------------------------------------------------------
(* Sequences of messages and of replies.                                   *)

LEMMA Least == ASSUME NEW T \in SUBSET Nat, T # {} PROVE \E m \in T : \A n \in T : m <= n
<1>1. PICK m \in T : \A n \in T : ~(<<n, m>> \in OpToRel(<, Nat))
  BY WFMin, NatLessThanWellFounded
<1>2. \A n \in T : ~(n < m)
  BY <1>1 DEF OpToRel
<1>3. QED
  BY <1>2

LEMMA Greatest ==
    ASSUME NEW n \in Nat, NEW T \in SUBSET (1 .. n), T # {}
    PROVE  \E m \in T : \A k \in T : k <= m
<1> DEFINE D == {n - k : k \in T}
<1>1. D \in SUBSET Nat /\ D # {}
  <2>1. \A k \in T : n - k \in Nat
    OBVIOUS
  <2>2. PICK k \in T : TRUE
    OBVIOUS
  <2>3. n - k \in D
    OBVIOUS
  <2>4. QED
    BY <2>1, <2>3
<1>2. PICK d \in D : \A c \in D : d <= c
  <2> HIDE DEF D
  <2>1. QED
    BY <1>1, Least
<1>3. PICK m \in T : d = n - m
  BY <1>2
<1>4. ASSUME NEW k \in T PROVE k <= m
  <2>1. d <= n - k
    BY <1>2
  <2>2. QED
    BY <1>3, <2>1
<1>5. QED
  BY <1>3, <1>4

(* Statements that failed are closed in some order.                        *)
LEMMA SetInSeq == ASSUME NEW S, IsFiniteSet(S)
    PROVE  SetToSeq(S) \in [1 .. Cardinality(S) -> S] /\ Cardinality(S) \in Nat
<1>1. Cardinality(S) \in Nat /\ ExistsBijection(1..Cardinality(S), S)
  BY FS_CardinalityType
<1>2. \E f \in [1..Cardinality(S) -> S] : IsInjective(f)
  BY <1>1 DEF ExistsBijection, Bijection, Injection
<1>3. QED
  BY <1>1, <1>2 DEF SetToSeq

Message == [type : {"Q", "P", "B", "D", "E", "S", "C"}, query : Queries \cup Command \cup {"none"}]
ReplyType == {"error", "row description", "data", "parsed", "bound", "closed", "T", "I"}
Reply == [type : ReplyType, res : Result]

LEMMA ClosingSent ==
    ASSUME NEW S, NEW n \in Nat, NEW qs \in [1 .. n -> S]
    PROVE  Closing(qs) \in Seq([type : {"C","S"}, query : S \cup {"none"}])
<1>1. PICK M : M = [type : {"C","S"}, query : S \cup {"none"}]
  OBVIOUS
<1>2. [i \in DOMAIN qs |-> Msg("C", qs[i])] \in Seq(M)
  BY <1>1 DEF Msg
<1>3. <<Msg("S", "none")>> \in Seq(M)
  BY <1>1 DEF Msg
<1>4. QED
  BY <1>1, <1>2, <1>3 DEF Closing

Somewhere(rs, t) == \E j \in DOMAIN rs : rs[j].type = t
Among(t, types) == \E j \in DOMAIN types : types[j] = t
AllOf(rs, r)    == \A j \in DOMAIN rs : rs[j].res = r
Kinds(rs)       == {rs[j].type : j \in DOMAIN rs}

(* Replies that are all about one result.                                  *)
LEMMA AboutSeq ==
    ASSUME NEW r \in Result, NEW types \in Seq(ReplyType)
    PROVE  /\ About(r, types) \in Seq(Reply) /\ Len(About(r, types)) = Len(types)
           /\ \A i \in DOMAIN types : About(r, types)[i].type = types[i] /\ About(r, types)[i].res = r
<1>1. PICK vs : vs = About(r, types)
  OBVIOUS
<1>2. Len(types) \in Nat /\ DOMAIN types = 1 .. Len(types)
  OBVIOUS
<1>3. \A i \in DOMAIN types : [type |-> types[i], res |-> r] \in Reply
  BY DEF Reply
<1>4. vs \in [1 .. Len(types) -> Reply]
  BY <1>1, <1>2, <1>3 DEF About
<1>5. vs \in Seq(Reply)
  BY <1>2, <1>4, SeqDef
<1>6. Len(vs) = Len(types)
  BY <1>2, <1>4, <1>5
<1>7. \A i \in DOMAIN types : vs[i].type = types[i] /\ vs[i].res = r
  BY <1>1 DEF About
<1>8. QED
  BY <1>1, <1>5, <1>6, <1>7

(* What is answered is added to the replies, with the result it is about.  *)
LEMMA RepliesAppended ==
    ASSUME NEW rs \in Seq(Reply), NEW r \in Result, NEW types \in Seq(ReplyType),
           AllOf(rs, r),
           NEW us, us = rs \o About(r, types)
    PROVE  /\ us \in Seq(Reply)
           /\ AllOf(us, r)
           /\ Kinds(us) = Kinds(rs) \cup Range(types)
<1>1. PICK vs : vs = About(r, types)
  OBVIOUS
<1>2. vs \in Seq(Reply) /\ Len(vs) = Len(types)
  BY <1>1, AboutSeq
<1>3. \A i \in DOMAIN types : vs[i].type = types[i] /\ vs[i].res = r
  BY <1>1, AboutSeq
<1>4. us = rs \o vs
  BY <1>1
<1>5. us \in Seq(Reply)
  BY <1>2, <1>4
<1>a. Len(rs) \in Nat /\ Len(types) \in Nat /\ DOMAIN rs = 1 .. Len(rs) /\ DOMAIN types = 1 .. Len(types)
  OBVIOUS
<1>b. DOMAIN us = 1 .. Len(rs) + Len(types)
  <2>0. Len(rs \o vs) = Len(rs) + Len(vs)
    BY <1>2
  <2>1. Len(us) = Len(rs) + Len(vs)
    BY ONLY <1>4, <2>0
  <2>2. DOMAIN us = 1 .. Len(us)
    BY <1>5
  <2>3. QED
    BY <1>2, <2>1, <2>2
<1>c. \A j \in 1 .. Len(rs) : us[j] = rs[j]
  BY <1>2, <1>4
<1>d. \A j \in 1 .. Len(types) : us[Len(rs) + j] = vs[j]
  BY <1>2, <1>4
<1>6. ASSUME NEW j \in DOMAIN us, j \notin DOMAIN rs
      PROVE  \E i \in DOMAIN types : us[j] = vs[i]
  <2>1. j - Len(rs) \in 1 .. Len(types) /\ j = Len(rs) + (j - Len(rs))
    BY <1>a, <1>b, <1>c, <1>d, <1>6
  <2>2. PICK i \in 1 .. Len(types) : j = Len(rs) + i
    BY <2>1
  <2>3. QED
    BY <1>a, <1>b, <1>c, <1>d, <2>2
<1>7. \A j \in DOMAIN us : us[j].res = r
  <2> TAKE j \in DOMAIN us
  <2>1. CASE j \in DOMAIN rs
    BY <1>a, <1>b, <1>c, <1>d, <2>1 DEF AllOf
  <2>2. CASE j \notin DOMAIN rs
    BY <1>3, <1>6, <2>2
  <2>3. QED
    BY <2>1, <2>2
<1>8. ASSUME NEW t PROVE Somewhere(us, t) <=> Somewhere(rs, t) \/ Among(t, types)
  <2>1. ASSUME NEW j \in DOMAIN us, us[j].type = t PROVE Somewhere(rs, t) \/ Among(t, types)
    <3>1. CASE j \in DOMAIN rs
      BY <1>a, <1>b, <1>c, <1>d, <2>1, <3>1 DEF Somewhere
    <3>2. CASE j \notin DOMAIN rs
      BY <1>3, <1>6, <2>1, <3>2 DEF Among
    <3>3. QED
      BY <3>1, <3>2
  <2>2. ASSUME NEW j \in DOMAIN rs, rs[j].type = t PROVE Somewhere(us, t)
    <3>1. j \in DOMAIN us /\ us[j] = rs[j]
      BY <1>a, <1>b, <1>c, <1>d
    <3>2. QED
      BY <2>2, <3>1 DEF Somewhere
  <2>3. ASSUME NEW j \in DOMAIN types, types[j] = t PROVE Somewhere(us, t)
    <3>1. Len(rs) + j \in DOMAIN us /\ us[Len(rs) + j].type = t
      BY <1>3, <1>a, <1>b, <1>c, <1>d, <2>3
    <3>2. QED
      BY <3>1 DEF Somewhere
  <2>4. QED
    BY <2>1, <2>2, <2>3 DEF Somewhere, Among
<1>9. Kinds(us) = Kinds(rs) \cup Range(types)
  <2>1. \A t : t \in Kinds(us) <=> Somewhere(us, t)
    BY DEF Kinds, Somewhere
  <2>2. \A t : t \in Kinds(rs) <=> Somewhere(rs, t)
    BY DEF Kinds, Somewhere
  <2>3. \A t : t \in Range(types) <=> Among(t, types)
    BY DEF Range, Among
  <2>4. QED
    BY <1>8, <2>1, <2>2, <2>3
<1>10. QED
  BY <1>5, <1>7, <1>9 DEF AllOf

-----------------------------------------------------------------------------
(* The invariant.                                                          *)

Has(type) == type \in Kinds(replies)

(* The first message of the query is not taken yet.                        *)
Untouched ==
    \/ round = "command" /\ sent = <<Msg("Q", query)>>
    \/ round = "preparing" /\ sent = Preparing(query)
    \/ round = "running" /\ sent = Running(query)

(* What the server holds is the result of this run of the query.           *)
Computed ==
    \/ round \in {"command", "preparing"} /\ ~Untouched
    \/ round = "prepared"
    \/ round = "running" /\ (Untouched => query \in pending)

TypeInv ==
    /\ showIdx \in Nat /\ shows \in 0 .. MaxShows
    /\ prepared \subseteq Queries /\ pending \subseteq prepared
    /\ cached \subseteq prepared /\ invalid \subseteq prepared /\ IsFiniteSet(invalid)
    /\ res \in Result /\ described \in Result /\ got \in Result
    /\ errMode \in BOOLEAN /\ inTx \in BOOLEAN /\ txStatus \in {"I", "T"}
    /\ round \in {"idle", "command", "closing", "preparing", "prepared", "running"}
    /\ query \in Queries \cup Command \cup {"none"}
    /\ round # "idle" => query # "none"
    /\ round = "command" => query \in Command
    /\ round \in {"preparing", "prepared", "running"} => query \in Queries
    /\ startup \in {"new", "refused", "open", "closed"}

(* The messages and the replies at each place of a round.                  *)
OfCommand ==
    /\ ~errMode
    /\ \/ sent = <<Msg("Q", query)>> /\ replies = <<>>
       \/ /\ sent = <<>>
          /\ Has("error") <=> res.err
          /\ Has("data") <=> ~res.err
          /\ Has("row description") <=> ~res.err

OfParse ==
    \/ sent = Preparing(query) /\ replies = <<>> /\ ~errMode
    \/ /\ sent = <<Msg("D", query), Msg("S", query)>>
       /\ errMode = res.err /\ (Has("error") <=> res.err)
    \/ /\ sent = <<Msg("S", query)>> \/ (sent = <<>> /\ ~errMode)
       /\ Has("error") <=> res.err
       /\ ~res.err => Has("row description")

OfRun ==
    \/ sent = Running(query) /\ replies = <<>> /\ ~errMode
    \/ /\ \/ sent = <<Msg("D", query), Msg("E", query), Msg("S", query)>>
          \/ sent = <<Msg("E", query), Msg("S", query)>> /\ Has("row description")
       /\ ~errMode /\ ~Has("error") /\ ~Has("data")
    \/ /\ sent = <<Msg("S", query)>> \/ (sent = <<>> /\ ~errMode)
       /\ Has("row description")
       /\ Has("error") <=> res.err
       /\ Has("data") <=> ~res.err

WireInv ==
    /\ sent \in Seq(Message)
    /\ replies \in Seq(Reply)
    /\ \A j \in DOMAIN replies : replies[j].res = res
    /\ round \in {"idle", "command", "closing", "preparing", "prepared", "running"}
    /\ round \in {"idle", "prepared"} => sent = <<>> /\ replies = <<>> /\ ~errMode
    /\ round = "closing" => ~errMode /\ \A j \in DOMAIN sent : sent[j].type \in {"C", "S"}
    /\ round = "command" => OfCommand
    /\ round = "preparing" => OfParse
    /\ round = "running" => OfRun

(* The statements the driver will run without Parse have no result of it   *)
(* left, but for the one it is about to run.                               *)
CacheInv ==
    /\ \A q \in cached \cap pending :
          q = query /\ (round = "prepared" \/ (round = "running" /\ Untouched))
    /\ round = "preparing" => query \notin cached
    /\ round \in {"prepared", "running"} => query \in prepared
    /\ round = "prepared" \/ (round = "preparing" /\ ~Untouched /\ ~res.err) => query \in pending

ResInv ==
    /\ Computed => res.query = query
    /\ Computed /\ query = "SHOW" /\ ~res.hooked => res.value = ShowValue(showIdx)
    /\ round = "prepared" => described = res
    /\ round # "idle" => got = Nothing

(* A query SHOW under way has not taken its value, or the hook answered.   *)
CountInv ==
    shows = IF round # "idle" /\ query = "SHOW" /\ (Computed => res.hooked) THEN showIdx + 1 ELSE showIdx

Inv == TypeInv /\ WireInv /\ CacheInv /\ ResInv /\ CountInv /\ ShowInOrder

-----------------------------------------------------------------------------
(* Results.                                                                *)

LEMMA ShowFound == ASSUME NEW n \in Nat \ {0} PROVE ShowValue(n) \in Range(Shows)
<1>1. Len(Shows) \in Nat \ {0} /\ DOMAIN Shows = 1 .. Len(Shows)
  BY TestGiven
<1>2. PICK j \in DOMAIN Shows : ShowValue(n) = Shows[j]
  BY <1>1 DEF ShowValue
<1>3. QED
  BY <1>2 DEF Range

LEMMA ResultFields ==
    ASSUME NEW r \in Result
    PROVE  /\ r.err \in BOOLEAN /\ r.hooked \in BOOLEAN
           /\ r.query \in Queries \cup Command => r # Nothing
<1>1. "none" \notin Queries \cup Command
  BY TestGiven DEF Queries, Command
<1>2. Nothing.query = "none" /\ Nothing.err = FALSE /\ Nothing.hooked = FALSE
  BY DEF Nothing, Outcome
<1>3. QED
  BY <1>1, <1>2 DEF Result

(* What computeResult leaves.                                              *)
LEMMA ResultOf ==
    ASSUME TypeInv, NEW q \in Queries \cup Command, computeResult(q)
    PROVE  /\ res' \in Result /\ res'.query = q /\ inTx' \in BOOLEAN
           /\ showIdx' = IF q = "SHOW" /\ ~res'.hooked THEN showIdx + 1 ELSE showIdx
           /\ showIdx' \in Nat
           /\ q = "SHOW" /\ ~res'.hooked => res'.value = ShowValue(showIdx')
<1>1. CASE \E e \in BOOLEAN : res' = Outcome(q, e, TRUE, "none") /\ UNCHANGED <<inTx, showIdx>>
  <2>1. PICK e \in BOOLEAN : res' = Outcome(q, e, TRUE, "none")
    BY <1>1
  <2>2. res' \in Result /\ res'.query = q /\ res'.hooked = TRUE
    BY <2>1 DEF Outcome, Result
  <2>3. inTx' = inTx /\ showIdx' = showIdx /\ inTx \in BOOLEAN /\ showIdx \in Nat
    BY <1>1 DEF TypeInv
  <2>4. QED
    BY <2>2, <2>3
<1>2. CASE q = "SHOW" /\ showIdx' = showIdx + 1 /\ res' = Outcome(q, FALSE, FALSE, ShowValue(showIdx + 1))
           /\ inTx' \in BOOLEAN
  <2>1. showIdx + 1 \in Nat \ {0}
    BY DEF TypeInv
  <2>2. ShowValue(showIdx + 1) \in Range(Shows) \cup {"none"}
    BY <2>1, ShowFound
  <2>3. res' \in Result
    BY <1>2, <2>2 DEF Outcome, Result
  <2>4. res'.query = q /\ res'.hooked = FALSE /\ res'.value = ShowValue(showIdx + 1)
    BY <1>2 DEF Outcome
  <2>5. QED
    BY <1>2, <2>1, <2>3, <2>4
<1>3. CASE q # "SHOW" /\ showIdx' = showIdx /\ res' = Outcome(q, FALSE, FALSE, "none") /\ inTx' \in BOOLEAN
  <2>1. res' \in Result /\ res'.query = q
    BY <1>3 DEF Outcome, Result
  <2>2. showIdx \in Nat
    BY DEF TypeInv
  <2>3. QED
    BY <1>3, <2>1, <2>2
<1>4. ASSUME inTx' = (CASE q = "BEGIN" -> TRUE [] q \in {"COMMIT", "ROLLBACK"} -> FALSE [] OTHER -> inTx)
      PROVE  inTx' \in BOOLEAN
  BY <1>4 DEF TypeInv
<1>5. QED
  BY <1>1, <1>2, <1>3, <1>4 DEF computeResult

-----------------------------------------------------------------------------
(* The server.                                                             *)

LEMMA MsgFields == ASSUME NEW t, NEW q PROVE Msg(t, q).type = t /\ Msg(t, q).query = q
BY DEF Msg

LEMMA Shapes ==
    ASSUME NEW q
    PROVE  /\ Head(Preparing(q)) = Msg("P", q) /\ Tail(Preparing(q)) = <<Msg("D", q), Msg("S", q)>>
           /\ Head(Running(q)) = Msg("B", q)
           /\ Tail(Running(q)) = <<Msg("D", q), Msg("E", q), Msg("S", q)>>
           /\ Head(<<Msg("D", q), Msg("S", q)>>).type = "D"
           /\ Head(<<Msg("D", q), Msg("E", q), Msg("S", q)>>).type = "D"
           /\ Head(<<Msg("E", q), Msg("S", q)>>).type = "E"
           /\ Head(<<Msg("S", q)>>).type = "S"
BY MsgFields DEF Preparing, Running

(* What the server takes tells where the round is.                         *)
LEMMA TakesFirst ==
    ASSUME WireInv, NEW type \in {"Q", "P", "B"}, Takes(type)
    PROVE  /\ Untouched /\ Head(sent).query = query /\ replies = <<>> /\ ~errMode
           /\ type = "Q" => round = "command" /\ sent = <<Msg("Q", query)>>
           /\ type = "P" => round = "preparing" /\ sent = Preparing(query)
           /\ type = "B" => round = "running" /\ sent = Running(query)
<1>1. sent # <<>> /\ Head(sent).type = type
  BY DEF Takes
<1>2. sent \in Seq(Message)
  BY DEF WireInv
<1>3. round # "closing"
  <2>1. 1 \in DOMAIN sent /\ sent[1].type = type
    BY <1>1, <1>2
  <2>2. QED
    BY <2>1 DEF WireInv
<1>4. round \notin {"idle", "prepared"}
  BY <1>1 DEF WireInv
<1>5. Head(<<Msg("Q", query)>>) = Msg("Q", query) /\ Msg("Q", query).type = "Q"
  BY MsgFields
<1>6. CASE round = "command"
  <2>1. sent = <<Msg("Q", query)>> /\ replies = <<>> /\ ~errMode
    BY <1>1, <1>6 DEF WireInv, OfCommand
  <2>2. QED
    BY <1>1, <1>5, <1>6, <2>1, MsgFields DEF Untouched
<1>7. CASE round = "preparing"
  <2>1. OfParse
    BY <1>7 DEF WireInv
  <2>2. sent = Preparing(query) /\ replies = <<>> /\ ~errMode
    BY <1>1, <2>1, Shapes DEF OfParse
  <2>3. Head(sent) = Msg("P", query)
    BY <2>2, Shapes
  <2>4. type = "P" /\ Head(sent).query = query
    BY <1>1, <2>3, MsgFields
  <2>5. QED
    BY <1>7, <2>2, <2>4 DEF Untouched
<1>8. CASE round = "running"
  <2>1. OfRun
    BY <1>8 DEF WireInv
  <2>2. sent = Running(query) /\ replies = <<>> /\ ~errMode
    BY <1>1, <2>1, Shapes DEF OfRun
  <2>3. Head(sent) = Msg("B", query)
    BY <2>2, Shapes
  <2>4. type = "B" /\ Head(sent).query = query
    BY <1>1, <2>3, MsgFields
  <2>5. QED
    BY <1>8, <2>2, <2>4 DEF Untouched
<1>9. round \in {"idle", "command", "closing", "preparing", "prepared", "running"}
  BY DEF WireInv
<1>10. QED
  BY <1>3, <1>4, <1>6, <1>7, <1>8, <1>9

LEMMA TakesNext ==
    ASSUME WireInv, NEW type \in {"D", "E", "S", "C"}, Takes(type)
    PROVE  /\ ~Untouched /\ round \in {"closing", "preparing", "running"}
           /\ round = "closing" => type \in {"S", "C"}
           /\ round = "preparing" => \/ type = "D" /\ sent = <<Msg("D", query), Msg("S", query)>>
                                     \/ type = "S" /\ sent = <<Msg("S", query)>>
           /\ round = "running" =>
                 \/ type = "D" /\ sent = <<Msg("D", query), Msg("E", query), Msg("S", query)>>
                 \/ type = "E" /\ sent = <<Msg("E", query), Msg("S", query)>>
                 \/ type = "S" /\ sent = <<Msg("S", query)>>
<1>1. sent # <<>> /\ Head(sent).type = type
  BY DEF Takes
<1>2. sent \in Seq(Message)
  BY DEF WireInv
<1>3. ~Untouched
  <2>1. Head(<<Msg("Q", query)>>) = Msg("Q", query) /\ Msg("Q", query).type = "Q"
    BY MsgFields
  <2>2. Head(Preparing(query)).type = "P" /\ Head(Running(query)).type = "B"
    BY Shapes, MsgFields
  <2>3. QED
    BY <1>1, <2>1, <2>2 DEF Untouched
<1>4. round \notin {"idle", "prepared"}
  BY <1>1 DEF WireInv
<1>5. round # "command"
  <2>1. ASSUME OfCommand, round = "command" PROVE FALSE
    BY <1>1, <1>3, <2>1 DEF OfCommand, Untouched
  <2>2. QED
    BY <2>1 DEF WireInv
<1>6. round \in {"closing", "preparing", "running"}
  BY <1>4, <1>5 DEF WireInv
<1>7. ASSUME round = "closing" PROVE type \in {"S", "C"}
  <2>1. 1 \in DOMAIN sent /\ sent[1].type = type
    BY <1>1, <1>2
  <2>2. QED
    BY <1>7, <2>1 DEF WireInv
<1>8. ASSUME round = "preparing" PROVE \/ type = "D" /\ sent = <<Msg("D", query), Msg("S", query)>>
                                       \/ type = "S" /\ sent = <<Msg("S", query)>>
  <2>1. OfParse /\ sent # Preparing(query)
    BY <1>3, <1>8 DEF WireInv, Untouched
  <2>2. sent = <<Msg("D", query), Msg("S", query)>> \/ sent = <<Msg("S", query)>>
    BY <1>1, <2>1 DEF OfParse
  <2>3. QED
    BY <1>1, <2>2, Shapes
<1>9. ASSUME round = "running"
      PROVE  \/ type = "D" /\ sent = <<Msg("D", query), Msg("E", query), Msg("S", query)>>
             \/ type = "E" /\ sent = <<Msg("E", query), Msg("S", query)>>
             \/ type = "S" /\ sent = <<Msg("S", query)>>
  <2>1. OfRun /\ sent # Running(query)
    BY <1>3, <1>9 DEF WireInv, Untouched
  <2>2. \/ sent = <<Msg("D", query), Msg("E", query), Msg("S", query)>>
        \/ sent = <<Msg("E", query), Msg("S", query)>> \/ sent = <<Msg("S", query)>>
    BY <1>1, <2>1 DEF OfRun
  <2>3. QED
    BY <1>1, <2>2, Shapes
<1>10. QED
  BY <1>3, <1>6, <1>7, <1>8, <1>9

(* The replies of a round are all about the result the server holds.       *)
LEMMA Replied ==
    ASSUME WireInv, NEW types \in Seq(ReplyType), res' \in Result, res' = res \/ replies = <<>>, Answers(types)
    PROVE  /\ replies' \in Seq(Reply) /\ \A j \in DOMAIN replies' : replies'[j].res = res'
           /\ Kinds(replies') = Kinds(replies) \cup Range(types)
<1>1. PICK rs : rs = replies
  OBVIOUS
<1>2. PICK r : r = res'
  OBVIOUS
<1>3. PICK us : us = replies'
  OBVIOUS
<1>4. rs \in Seq(Reply) /\ r \in Result
  BY <1>1, <1>2 DEF WireInv
<1>5. AllOf(rs, r)
  <2>1. CASE rs = <<>>
    BY <2>1 DEF AllOf
  <2>2. CASE r = res
    BY <1>1, <2>2 DEF WireInv, AllOf
  <2>3. QED
    BY <1>1, <1>2, <2>1, <2>2
<1>6. us = rs \o About(r, types)
  BY <1>1, <1>2, <1>3 DEF Answers
<1>a. us \in Seq(Reply)
  BY <1>4, <1>5, <1>6, RepliesAppended
<1>7. AllOf(us, r)
  BY <1>4, <1>5, <1>6, RepliesAppended
<1>8. Kinds(us) = Kinds(rs) \cup Range(types)
  BY <1>4, <1>5, <1>6, RepliesAppended
<1>9. QED
  BY <1>1, <1>2, <1>3, <1>a, <1>7, <1>8 DEF AllOf

(* The server goes on with a query it has a result of.                     *)
LEMMA GoesOn ==
    ASSUME Inv, ~Untouched, ~Untouched', round # "idle",
           UNCHANGED <<startup, driver, showIdx, prepared, res, inTx>>, pending' \subseteq pending,
           round = "running" \/ pending' = pending, errMode' \in BOOLEAN
    PROVE  TypeInv' /\ CacheInv' /\ ResInv' /\ CountInv' /\ ShowInOrder'
<1> USE DEF driver
<1>1. Computed' <=> Computed
  BY DEF Computed
<1>2. TypeInv'
  BY DEF Inv, TypeInv
<1>3. CacheInv'
  BY DEF Inv, CacheInv
<1>4. ResInv' /\ CountInv' /\ ShowInOrder'
  BY <1>1 DEF Inv, ResInv, CountInv, ShowInOrder, ShowValue
<1>5. QED
  BY <1>2, <1>3, <1>4

(* The server computes the result of the query.                            *)
LEMMA ComputesIt ==
    ASSUME Inv, Untouched, ~Untouched', ~Computed, computeResult(query),
           UNCHANGED <<startup, driver>>,
           prepared \subseteq prepared', prepared' \subseteq Queries, pending' \subseteq prepared',
           round = "running" => query \in prepared,
           round = "preparing" /\ ~res'.err => query \in pending',
           cached \cap pending' = {}, errMode' \in BOOLEAN
    PROVE  TypeInv' /\ CacheInv' /\ ResInv' /\ CountInv' /\ ShowInOrder'
<1> USE DEF driver
<1>1. round \in {"command", "preparing", "running"} /\ query \in Queries \cup Command
  BY DEF Untouched, Inv, TypeInv
<1>2. /\ res' \in Result /\ res'.query = query /\ inTx' \in BOOLEAN
      /\ showIdx' = IF query = "SHOW" /\ ~res'.hooked THEN showIdx + 1 ELSE showIdx
      /\ showIdx' \in Nat
      /\ query = "SHOW" /\ ~res'.hooked => res'.value = ShowValue(showIdx')
  BY <1>1, ResultOf DEF Inv
<1>3. Computed'
  BY <1>1 DEF Computed
<1>4. TypeInv'
  BY <1>2 DEF Inv, TypeInv
<1>5. CacheInv'
  BY <1>1 DEF Inv, CacheInv
<1>6. ResInv' /\ ShowInOrder'
  BY <1>1, <1>2, <1>3 DEF Inv, ResInv, ShowInOrder, ShowValue
<1>7. CountInv'
  <2>1. shows = IF query = "SHOW" THEN showIdx + 1 ELSE showIdx
    BY <1>1 DEF Inv, CountInv
  <2>2. showIdx \in Nat
    BY DEF Inv, TypeInv
  <2>3. QED
    BY <1>1, <1>2, <1>3, <2>1, <2>2 DEF CountInv
<1>8. QED
  BY <1>4, <1>5, <1>6, <1>7

LEMMA Range0 == Range(<<>>) = {}
BY DEF Range
LEMMA Range1 == ASSUME NEW a PROVE Range(<<a>>) = {a}
BY DEF Range
LEMMA Range2 == ASSUME NEW a, NEW b PROVE Range(<<a, b>>) = {a, b}
<1>1. DOMAIN <<a, b>> = {1, 2} /\ <<a, b>>[1] = a /\ <<a, b>>[2] = b
  OBVIOUS
<1>2. QED
  BY <1>1 DEF Range
LEMMA Range3 == ASSUME NEW a, NEW b, NEW c PROVE Range(<<a, b, c>>) = {a, b, c}
<1>1. /\ DOMAIN <<a, b, c>> = {1, 2, 3}
      /\ <<a, b, c>>[1] = a /\ <<a, b, c>>[2] = b /\ <<a, b, c>>[3] = c
  OBVIOUS
<1>2. QED
  BY <1>1 DEF Range
LEMMA ReplyTypes ==
    ASSUME NEW a \in ReplyType
    PROVE  /\ <<a>> \in Seq(ReplyType) /\ \A b \in ReplyType : <<a, b>> \in Seq(ReplyType)
           /\ \A b, c \in ReplyType : <<a, b, c>> \in Seq(ReplyType)
OBVIOUS
LEMMA KindsOfNone == Kinds(<<>>) = {}
BY DEF Kinds

LEMMA AnswersOne ==
    ASSUME WireInv, res' \in Result, res' = res \/ replies = <<>>, NEW a \in ReplyType, Answers(<<a>>)
    PROVE  /\ replies' \in Seq(Reply) /\ \A j \in DOMAIN replies' : replies'[j].res = res'
           /\ Kinds(replies') = Kinds(replies) \cup {a}
<1>1. <<a>> \in Seq(ReplyType)
  BY ReplyTypes
<1>2. replies' \in Seq(Reply) /\ \A j \in DOMAIN replies' : replies'[j].res = res'
  BY <1>1, Replied
<1>3. Kinds(replies') = Kinds(replies) \cup Range(<<a>>)
  BY <1>1, Replied
<1>4. QED
  BY <1>2, <1>3, Range1

LEMMA AnswersNone ==
    ASSUME WireInv, res' \in Result, res' = res \/ replies = <<>>, Answers(<<>>)
    PROVE  /\ replies' \in Seq(Reply) /\ \A j \in DOMAIN replies' : replies'[j].res = res'
           /\ Kinds(replies') = Kinds(replies)
<1>1. <<>> \in Seq(ReplyType)
  OBVIOUS
<1>2. replies' \in Seq(Reply) /\ \A j \in DOMAIN replies' : replies'[j].res = res'
  BY <1>1, Replied
<1>3. Kinds(replies') = Kinds(replies) \cup Range(<<>>)
  BY <1>1, Replied
<1>4. QED
  BY <1>2, <1>3, Range0

(* A command of the simple protocol is answered at once.                   *)
LEMMA SimpleQueryKeeps == ASSUME Inv, SimpleQuery PROVE Inv'
<1>1. Takes("Q") /\ WireInv
  BY DEF SimpleQuery, Inv
<1>2. /\ Untouched /\ Head(sent).query = query /\ replies = <<>> /\ ~errMode
      /\ round = "command" /\ sent = <<Msg("Q", query)>>
  BY <1>1, TakesFirst
<1>3. sent' = <<>> /\ UNCHANGED <<startup, driver>> /\ round' = "command" /\ query' = query
  BY <1>1, <1>2 DEF Takes, driver
<1>4. ~Untouched' /\ ~Computed
  BY <1>2, <1>3 DEF Untouched, Computed
<1>5. /\ computeResult(query) /\ prepared' = prepared /\ errMode' = errMode
      /\ pending' = IF res'.err THEN {} ELSE pending
  BY <1>2 DEF SimpleQuery
<1>6. cached \cap pending = {} /\ pending \subseteq prepared /\ prepared \subseteq Queries /\ errMode \in BOOLEAN
  BY <1>2 DEF Inv, CacheInv, TypeInv
<1>7. TypeInv' /\ CacheInv' /\ ResInv' /\ CountInv' /\ ShowInOrder'
  <2>1. cached \cap pending' = {} /\ pending' \subseteq prepared' /\ errMode' \in BOOLEAN
    BY <1>5, <1>6
  <2>2. prepared \subseteq prepared' /\ prepared' \subseteq Queries
    BY <1>5, <1>6
  <2>3. round = "running" => query \in prepared
    BY <1>2
  <2>4. QED
    BY <1>2, <1>3, <1>4, <1>5, <2>1, <2>2, <2>3, ComputesIt
<1>8. res' \in Result /\ res'.err \in BOOLEAN
  BY <1>7, ResultFields DEF TypeInv
<1>9. PICK z : z = Ready /\ z \in {"T", "I"} /\ {z, "error", "row description", "data"} \subseteq ReplyType
  BY DEF Ready, ReplyType
<1>10. replies' \in Seq(Reply) /\ (\A j \in DOMAIN replies' : replies'[j].res = res') /\ OfCommand'
  <2>1. CASE res'.err
    <3>1. <<"error", z>> \in Seq(ReplyType)
      BY <1>9, ReplyTypes
    <3>2. Answers(<<"error", z>>)
      BY <1>9, <2>1 DEF SimpleQuery, Answers
    <3>3. replies' \in Seq(Reply) /\ \A j \in DOMAIN replies' : replies'[j].res = res'
      BY <1>1, <1>2, <1>8, <3>1, <3>2, Replied
    <3>4. Kinds(replies') = Kinds(replies) \cup Range(<<"error", z>>)
      BY <1>1, <1>2, <1>8, <3>1, <3>2, Replied
    <3>5. Kinds(replies') = {"error", z}
      BY <1>2, <3>4, Range2, KindsOfNone
    <3>6. OfCommand'
      BY <1>2, <1>3, <1>5, <1>9, <2>1, <3>5 DEF OfCommand, Has
    <3>7. QED
      BY <3>3, <3>6
  <2>2. CASE ~res'.err
    <3>1. <<"row description", "data", z>> \in Seq(ReplyType)
      BY <1>9, ReplyTypes
    <3>2. Answers(<<"row description", "data", z>>)
      BY <1>9, <2>2 DEF SimpleQuery, Answers
    <3>3. replies' \in Seq(Reply) /\ \A j \in DOMAIN replies' : replies'[j].res = res'
      BY <1>1, <1>2, <1>8, <3>1, <3>2, Replied
    <3>4. Kinds(replies') = Kinds(replies) \cup Range(<<"row description", "data", z>>)
      BY <1>1, <1>2, <1>8, <3>1, <3>2, Replied
    <3>5. Kinds(replies') = {"row description", "data", z}
      BY <1>2, <3>4, Range3, KindsOfNone
    <3>6. OfCommand'
      BY <1>2, <1>3, <1>5, <1>9, <2>2, <3>5 DEF OfCommand, Has
    <3>7. QED
      BY <3>3, <3>6
  <2>3. QED
    BY <2>1, <2>2
<1>11. WireInv'
  BY <1>3, <1>10 DEF WireInv
<1>12. QED
  BY <1>7, <1>11 DEF Inv

(* Past the first message of the query.                                    *)
LEMMA Past ==
    ASSUME NEW q, NEW s, s \in {<<Msg("D", q), Msg("S", q)>>, <<Msg("D", q), Msg("E", q), Msg("S", q)>>,
                                <<Msg("E", q), Msg("S", q)>>, <<Msg("S", q)>>, <<>>}
    PROVE  s # Preparing(q) /\ s # Running(q)
<1>1. Head(Preparing(q)).type = "P" /\ Head(Running(q)).type = "B"
  BY Shapes, MsgFields
<1>2. Preparing(q) # <<>> /\ Running(q) # <<>>
  BY DEF Preparing, Running
<1>3. s = <<>> \/ Head(s).type \in {"D", "E", "S"}
  BY Shapes
<1>4. QED
  BY <1>1, <1>2, <1>3

LEMMA Tails ==
    ASSUME NEW q
    PROVE  /\ Tail(<<Msg("D", q), Msg("S", q)>>) = <<Msg("S", q)>>
           /\ Tail(<<Msg("D", q), Msg("E", q), Msg("S", q)>>) = <<Msg("E", q), Msg("S", q)>>
           /\ Tail(<<Msg("E", q), Msg("S", q)>>) = <<Msg("S", q)>>
           /\ Tail(<<Msg("S", q)>>) = <<>>
OBVIOUS

LEMMA SentOn ==
    ASSUME WireInv, NEW type, Takes(type)
    PROVE  sent' \in Seq(Message) /\ \A j \in DOMAIN sent' : \E i \in DOMAIN sent : sent'[j] = sent[i]
<1>1. sent \in Seq(Message) /\ sent # <<>> /\ sent' = Tail(sent)
  BY DEF WireInv, Takes
<1>2. sent' \in Seq(Message) /\ Len(sent') = Len(sent) - 1 /\ Len(sent) \in Nat \ {0}
  BY <1>1
<1>3. ASSUME NEW j \in DOMAIN sent' PROVE \E i \in DOMAIN sent : sent'[j] = sent[i]
  <2>1. j \in 1 .. Len(sent) - 1 /\ DOMAIN sent = 1 .. Len(sent)
    BY <1>1, <1>2
  <2>2. sent'[j] = sent[j + 1] /\ j + 1 \in DOMAIN sent
    BY <1>1, <1>2, <2>1
  <2>3. QED
    BY <2>2
<1>4. QED
  BY <1>2, <1>3

(* A statement is prepared, and its result computed.                       *)
LEMMA ParseKeeps == ASSUME Inv, Parse PROVE Inv'
<1>1. Takes("P") /\ WireInv
  BY DEF Parse, Inv
<1>2. /\ Untouched /\ Head(sent).query = query /\ replies = <<>> /\ ~errMode
      /\ round = "preparing" /\ sent = Preparing(query)
  BY <1>1, TakesFirst
<1>3. /\ sent' = <<Msg("D", query), Msg("S", query)>>
      /\ UNCHANGED <<startup, driver>> /\ round' = "preparing" /\ query' = query
  BY <1>1, <1>2, Shapes DEF Takes, driver
<1>4. ~Untouched' /\ ~Computed
  BY <1>2, <1>3, Past DEF Untouched, Computed
<1>5. /\ computeResult(query) /\ prepared' = prepared \cup {query}
      /\ pending' = IF res'.err THEN {} ELSE pending \cup {query}
  BY <1>2 DEF Parse
<1>6. /\ cached \cap pending = {} /\ query \notin cached /\ pending \subseteq prepared
      /\ prepared \subseteq Queries /\ query \in Queries
  BY <1>2 DEF Inv, CacheInv, TypeInv
<1>7. res' \in Result /\ res'.err \in BOOLEAN
  BY <1>5, <1>6, ResultOf, ResultFields DEF Inv
<1>8. errMode' <=> res'.err
  BY <1>2 DEF Parse
<1>9. errMode' \in BOOLEAN
  BY DEF Parse
<1>10. errMode' = res'.err
  BY <1>7, <1>8, <1>9, Zenon
<1>11. TypeInv' /\ CacheInv' /\ ResInv' /\ CountInv' /\ ShowInOrder'
  <2>1. cached \cap pending' = {} /\ pending' \subseteq prepared'
    BY <1>5, <1>6
  <2>2. prepared \subseteq prepared' /\ prepared' \subseteq Queries
    BY <1>5, <1>6
  <2>3. round = "running" => query \in prepared
    BY <1>2
  <2>4. ~res'.err => query \in pending'
    BY <1>5
  <2>5. QED
    BY <1>2, <1>3, <1>4, <1>5, <1>9, <2>1, <2>2, <2>3, <2>4, ComputesIt
<1>12. replies' \in Seq(Reply) /\ (\A j \in DOMAIN replies' : replies'[j].res = res') /\ (Has("error")' <=> res'.err)
  <2>1. CASE res'.err
    <3>1. "error" \in ReplyType /\ Answers(<<"error">>)
      BY <2>1 DEF Parse, Answers, ReplyType
    <3>2. /\ replies' \in Seq(Reply) /\ \A j \in DOMAIN replies' : replies'[j].res = res'
          /\ Kinds(replies') = Kinds(replies) \cup {"error"}
      BY <1>1, <1>2, <1>7, <3>1, AnswersOne
    <3>3. QED
      BY <1>2, <2>1, <3>2, KindsOfNone DEF Has
  <2>2. CASE ~res'.err
    <3>1. "parsed" \in ReplyType /\ Answers(<<"parsed">>)
      BY <2>2 DEF Parse, Answers, ReplyType
    <3>2. /\ replies' \in Seq(Reply) /\ \A j \in DOMAIN replies' : replies'[j].res = res'
          /\ Kinds(replies') = Kinds(replies) \cup {"parsed"}
      BY <1>1, <1>2, <1>7, <3>1, AnswersOne
    <3>3. QED
      BY <1>2, <2>2, <3>2, KindsOfNone DEF Has
  <2>3. QED
    BY <2>1, <2>2
<1>13. OfParse'
  BY <1>3, <1>10, <1>12 DEF OfParse
<1>14. sent' \in Seq(Message)
  BY <1>1, SentOn
<1>15. WireInv'
  BY <1>3, <1>12, <1>13, <1>14 DEF WireInv
<1>16. QED
  BY <1>11, <1>15 DEF Inv

(* A statement that was not prepared this time is computed at Bind.        *)
LEMMA BindKeeps == ASSUME Inv, Bind PROVE Inv'
<1>1. Takes("B") /\ WireInv
  BY DEF Bind, Inv
<1>2. /\ Untouched /\ Head(sent).query = query /\ replies = <<>> /\ ~errMode
      /\ round = "running" /\ sent = Running(query)
  BY <1>1, TakesFirst
<1>3. /\ sent' = <<Msg("D", query), Msg("E", query), Msg("S", query)>>
      /\ UNCHANGED <<startup, driver>> /\ round' = "running" /\ query' = query
  BY <1>1, <1>2, Shapes DEF Takes, driver
<1>4. ~Untouched' /\ (Computed <=> query \in pending) /\ Computed'
  BY <1>2, <1>3, Past DEF Untouched, Computed
<1>5. /\ pending' = pending \ {query} /\ prepared' = prepared /\ errMode' = errMode
      /\ IF query \in prepared \ pending THEN computeResult(query) ELSE UNCHANGED <<res, inTx, showIdx>>
  BY <1>2 DEF Bind
<1>6. /\ \A q \in cached \cap pending : q = query
      /\ pending \subseteq prepared /\ prepared \subseteq Queries /\ query \in prepared
      /\ query \in Queries /\ errMode \in BOOLEAN
  BY <1>2 DEF Inv, CacheInv, TypeInv
<1>7. cached \cap pending' = {} /\ pending' \subseteq prepared' /\ errMode' \in BOOLEAN
  BY <1>5, <1>6
<1>8. TypeInv' /\ CacheInv' /\ ResInv' /\ CountInv' /\ ShowInOrder'
  <2>1. CASE query \in pending
    <3>1. UNCHANGED <<res, inTx, showIdx>>
      BY <1>5, <2>1
    <3> USE DEF driver
    <3>2. TypeInv'
      BY <1>3, <1>5, <1>7, <3>1 DEF Inv, TypeInv
    <3>3. CacheInv'
      BY <1>3, <1>5, <1>6, <1>7 DEF CacheInv
    <3>4. ResInv' /\ CountInv' /\ ShowInOrder'
      BY <1>2, <1>3, <1>4, <2>1, <3>1 DEF Inv, ResInv, CountInv, ShowInOrder, ShowValue
    <3>5. QED
      BY <3>2, <3>3, <3>4
  <2>2. CASE query \notin pending
    <3>1. computeResult(query)
      BY <1>5, <1>6, <2>2
    <3>2. prepared \subseteq prepared' /\ prepared' \subseteq Queries
      BY <1>5, <1>6
    <3>3. QED
      BY <1>2, <1>3, <1>4, <1>6, <1>7, <2>2, <3>1, <3>2, ComputesIt
  <2>3. QED
    BY <2>1, <2>2
<1>9. "bound" \in ReplyType /\ Answers(<<"bound">>) /\ res' \in Result
  BY <1>8 DEF Bind, TypeInv, ReplyType
<1>10. /\ replies' \in Seq(Reply) /\ \A j \in DOMAIN replies' : replies'[j].res = res'
       /\ Kinds(replies') = Kinds(replies) \cup {"bound"}
  BY <1>1, <1>2, <1>9, AnswersOne
<1>11. ~Has("error")' /\ ~Has("data")'
  BY <1>2, <1>10, KindsOfNone DEF Has
<1>12. OfRun'
  BY <1>2, <1>3, <1>5, <1>11 DEF OfRun
<1>13. sent' \in Seq(Message)
  BY <1>1, SentOn
<1>14. WireInv'
  BY <1>3, <1>10, <1>12, <1>13 DEF WireInv
<1>15. QED
  BY <1>8, <1>14 DEF Inv

(* What is known of the replies after each message but the first.          *)
LEMMA InPrepare ==
    ASSUME WireInv, round = "preparing"
    PROVE  /\ sent = <<Msg("D", query), Msg("S", query)>> => errMode = res.err /\ (Has("error") <=> res.err)
           /\ sent = <<Msg("S", query)>> => (Has("error") <=> res.err) /\ (~res.err => Has("row description"))
<1>1. OfParse
  BY DEF WireInv
<1>2. \A s \in {<<Msg("D", query), Msg("S", query)>>, <<Msg("S", query)>>} : s # Preparing(query)
  BY Past
<1>3. <<Msg("D", query), Msg("S", query)>> # <<Msg("S", query)>> /\ <<Msg("S", query)>> # <<>>
  OBVIOUS
<1>4. <<Msg("D", query), Msg("S", query)>> # <<>>
  OBVIOUS
<1>5. QED
  BY <1>1, <1>2, <1>3, <1>4 DEF OfParse

LEMMA InRun ==
    ASSUME WireInv, round = "running"
    PROVE  /\ sent = <<Msg("D", query), Msg("E", query), Msg("S", query)>> =>
                 ~errMode /\ ~Has("error") /\ ~Has("data")
           /\ sent = <<Msg("E", query), Msg("S", query)>> =>
                 ~errMode /\ ~Has("error") /\ ~Has("data") /\ Has("row description")
           /\ sent = <<Msg("S", query)>> =>
                 Has("row description") /\ (Has("error") <=> res.err) /\ (Has("data") <=> ~res.err)
<1>1. OfRun
  BY DEF WireInv
<1>2. \A s \in {<<Msg("D", query), Msg("E", query), Msg("S", query)>>, <<Msg("E", query), Msg("S", query)>>,
                <<Msg("S", query)>>} : s # Running(query)
  BY Past
<1>3. /\ Len(<<Msg("D", query), Msg("E", query), Msg("S", query)>>) = 3
      /\ Len(<<Msg("E", query), Msg("S", query)>>) = 2
      /\ Len(<<Msg("S", query)>>) = 1 /\ Len(<<>>) = 0
  OBVIOUS
<1>4. ASSUME sent = <<Msg("D", query), Msg("E", query), Msg("S", query)>>
      PROVE  ~errMode /\ ~Has("error") /\ ~Has("data")
  <2>1. sent # Running(query) /\ sent # <<Msg("S", query)>> /\ sent # <<>>
    BY <1>2, <1>3, <1>4
  <2>2. QED
    BY <1>1, <2>1, Zenon DEF OfRun
<1>5. ASSUME sent = <<Msg("E", query), Msg("S", query)>>
      PROVE  ~errMode /\ ~Has("error") /\ ~Has("data") /\ Has("row description")
  <2>1. sent # Running(query) /\ sent # <<Msg("S", query)>> /\ sent # <<>>
    BY <1>2, <1>3, <1>5
  <2>2. sent # <<Msg("D", query), Msg("E", query), Msg("S", query)>>
    BY <1>3, <1>5
  <2>3. QED
    BY <1>1, <2>1, <2>2, Zenon DEF OfRun
<1>6. ASSUME sent = <<Msg("S", query)>>
      PROVE  Has("row description") /\ (Has("error") <=> res.err) /\ (Has("data") <=> ~res.err)
  <2>1. sent # Running(query) /\ sent # <<Msg("E", query), Msg("S", query)>>
    BY <1>2, <1>3, <1>6
  <2>2. sent # <<Msg("D", query), Msg("E", query), Msg("S", query)>>
    BY <1>3, <1>6
  <2>3. QED
    BY <1>1, <2>1, <2>2, Zenon DEF OfRun
<1>7. QED
  BY <1>4, <1>5, <1>6, Zenon

(* The result the server holds is described.                               *)
LEMMA DescribeKeeps == ASSUME Inv, Describe PROVE Inv'
<1>1. Takes("D") /\ WireInv
  BY DEF Describe, Inv
<1>2. UNCHANGED <<startup, driver, server>> /\ round' = round /\ query' = query
  BY <1>1 DEF Describe, Takes, driver
<1>3. /\ ~Untouched
      /\ \/ round = "preparing" /\ sent = <<Msg("D", query), Msg("S", query)>>
         \/ round = "running" /\ sent = <<Msg("D", query), Msg("E", query), Msg("S", query)>>
  BY <1>1, TakesNext
<1>4. sent' = Tail(sent)
  BY <1>1 DEF Takes
<1>5. /\ round = "preparing" => sent' = <<Msg("S", query)>>
      /\ round = "running" => sent' = <<Msg("E", query), Msg("S", query)>>
  BY <1>3, <1>4, Tails
<1>6. ~Untouched'
  BY <1>2, <1>3, <1>5, Past DEF Untouched
<1>7. TypeInv' /\ CacheInv' /\ ResInv' /\ CountInv' /\ ShowInOrder'
  <2>1. UNCHANGED <<startup, driver, showIdx, prepared, res, inTx>> /\ pending' = pending
    BY <1>2 DEF server
  <2>2. errMode' \in BOOLEAN /\ round # "idle"
    BY <1>2, <1>3 DEF server, Inv, TypeInv
  <2>3. QED
    BY <1>3, <1>6, <2>1, <2>2, GoesOn
<1>8. res' = res /\ res' \in Result /\ errMode' = errMode
  BY <1>2 DEF server, Inv, TypeInv
<1>9. /\ replies' \in Seq(Reply) /\ \A j \in DOMAIN replies' : replies'[j].res = res'
      /\ Kinds(replies') = Kinds(replies) \cup (IF errMode THEN {} ELSE {"row description"})
  <2>1. CASE errMode
    <3>1. Answers(<<>>)
      BY <2>1 DEF Describe, Answers
    <3>2. QED
      BY <1>1, <1>8, <2>1, <3>1, AnswersNone
  <2>2. CASE ~errMode
    <3>1. Answers(<<"row description">>) /\ "row description" \in ReplyType
      BY <2>2 DEF Describe, Answers, ReplyType
    <3>2. QED
      BY <1>1, <1>8, <2>2, <3>1, AnswersOne
  <2>3. QED
    BY <2>1, <2>2
<1>10. (Has("error")' <=> Has("error")) /\ (Has("data")' <=> Has("data")) /\ (~errMode => Has("row description")')
  BY <1>9 DEF Has
<1>11. CASE round = "preparing"
  <2>1. errMode = res.err /\ (Has("error") <=> res.err)
    BY <1>1, <1>3, <1>11, InPrepare
  <2>2. (Has("error")' <=> res'.err) /\ (~res'.err => Has("row description")')
    BY <1>8, <1>10, <2>1
  <2>3. sent' = <<Msg("S", query')>>
    BY <1>2, <1>5, <1>11
  <2>4. OfParse'
    BY <2>2, <2>3 DEF OfParse
  <2>5. WireInv'
    BY <1>1, <1>2, <1>9, <1>11, <2>4, SentOn DEF WireInv
  <2>6. QED
    BY <1>7, <2>5 DEF Inv
<1>12. CASE round = "running"
  <2>1. ~errMode /\ ~Has("error") /\ ~Has("data")
    BY <1>1, <1>3, <1>12, InRun
  <2>2. ~errMode' /\ ~Has("error")' /\ ~Has("data")' /\ Has("row description")'
    BY <1>8, <1>10, <2>1
  <2>3. sent' = <<Msg("E", query'), Msg("S", query')>>
    BY <1>2, <1>5, <1>12
  <2>4. OfRun'
    BY <2>2, <2>3 DEF OfRun
  <2>5. WireInv'
    BY <1>1, <1>2, <1>9, <1>12, <2>4, SentOn DEF WireInv
  <2>6. QED
    BY <1>7, <2>5 DEF Inv
<1>13. QED
  BY <1>3, <1>11, <1>12

(* The rows or the error of the result are sent.                           *)
LEMMA ExecuteKeeps == ASSUME Inv, Execute PROVE Inv'
<1>1. Takes("E") /\ WireInv
  BY DEF Execute, Inv
<1>2. UNCHANGED <<startup, driver, showIdx, prepared, res, inTx>> /\ round' = round /\ query' = query
  BY <1>1 DEF Execute, Takes, driver
<1>3. ~Untouched /\ round = "running" /\ sent = <<Msg("E", query), Msg("S", query)>>
  BY <1>1, TakesNext
<1>4. sent' = <<Msg("S", query)>>
  BY <1>1, <1>3, Tails DEF Takes
<1>5. ~Untouched'
  BY <1>2, <1>3, <1>4, Past DEF Untouched
<1>6. ~errMode /\ ~Has("error") /\ ~Has("data") /\ Has("row description")
  BY <1>1, <1>3, InRun
<1>7. res' = res /\ res' \in Result /\ res.err \in BOOLEAN
  BY <1>2, ResultFields DEF Inv, TypeInv
<1>8. errMode' = res.err /\ pending' = IF res.err THEN {} ELSE pending
  BY <1>6 DEF Execute
<1>9. TypeInv' /\ CacheInv' /\ ResInv' /\ CountInv' /\ ShowInOrder'
  <2>1. pending' \subseteq pending /\ errMode' \in BOOLEAN
    BY <1>7, <1>8
  <2>2. round # "idle"
    BY <1>3
  <2>3. QED
    BY <1>2, <1>3, <1>5, <2>1, <2>2, GoesOn
<1>10. /\ replies' \in Seq(Reply) /\ \A j \in DOMAIN replies' : replies'[j].res = res'
       /\ Kinds(replies') = Kinds(replies) \cup {IF res.err THEN "error" ELSE "data"}
  <2>1. CASE res.err
    <3>1. Answers(<<"error">>) /\ "error" \in ReplyType
      BY <1>6, <2>1 DEF Execute, Answers, ReplyType
    <3>2. QED
      BY <1>1, <1>7, <2>1, <3>1, AnswersOne
  <2>2. CASE ~res.err
    <3>1. Answers(<<"data">>) /\ "data" \in ReplyType
      BY <1>6, <2>2 DEF Execute, Answers, ReplyType
    <3>2. QED
      BY <1>1, <1>7, <2>2, <3>1, AnswersOne
  <2>3. QED
    BY <2>1, <2>2
<1>11. Has("row description")' /\ (Has("error")' <=> res'.err) /\ (Has("data")' <=> ~res'.err)
  BY <1>6, <1>7, <1>10 DEF Has
<1>12. OfRun'
  BY <1>2, <1>4, <1>11 DEF OfRun
<1>13. WireInv'
  BY <1>1, <1>2, <1>3, <1>10, <1>12, SentOn DEF WireInv
<1>14. QED
  BY <1>9, <1>13 DEF Inv

LEMMA ClosingOn ==
    ASSUME WireInv, NEW type, Takes(type), round = "closing", round' = "closing"
    PROVE  ~errMode /\ \A j \in DOMAIN sent' : sent'[j].type \in {"C", "S"}
BY SentOn DEF WireInv

(* The server is ready for the next round.                                 *)
LEMMA SyncKeeps == ASSUME Inv, Sync PROVE Inv'
<1>1. Takes("S") /\ WireInv
  BY DEF Sync, Inv
<1>2. UNCHANGED <<startup, driver, showIdx, prepared, pending, res, inTx>> /\ round' = round /\ query' = query
  BY <1>1 DEF Sync, Takes, driver
<1>3. /\ ~Untouched /\ round \in {"closing", "preparing", "running"}
      /\ round # "closing" => sent = <<Msg("S", query)>>
  BY <1>1, TakesNext
<1>4. round # "closing" => sent' = <<>>
  BY <1>1, <1>3, Tails DEF Takes
<1>5. ~Untouched'
  BY <1>2, <1>3, <1>4, Past DEF Untouched
<1>6. errMode' = FALSE /\ res' = res /\ res' \in Result
  BY <1>2 DEF Sync, Inv, TypeInv
<1>7. TypeInv' /\ CacheInv' /\ ResInv' /\ CountInv' /\ ShowInOrder'
  <2>1. pending' = pending /\ errMode' \in BOOLEAN /\ round # "idle"
    BY <1>2, <1>3, <1>6
  <2>2. QED
    BY <1>2, <1>3, <1>5, <2>1, GoesOn
<1>8. PICK z : z = Ready /\ z \in {"T", "I"} /\ z \in ReplyType
  BY DEF Ready, ReplyType
<1>9. Answers(<<z>>)
  BY <1>8 DEF Sync, Answers
<1>10. /\ replies' \in Seq(Reply) /\ \A j \in DOMAIN replies' : replies'[j].res = res'
       /\ Kinds(replies') = Kinds(replies) \cup {z}
  BY <1>1, <1>6, <1>8, <1>9, AnswersOne
<1>11. \A t \in {"error", "data", "row description"} : Has(t)' <=> Has(t)
  BY <1>8, <1>10 DEF Has
<1>12. CASE round = "closing"
  BY <1>1, <1>2, <1>6, <1>7, <1>10, <1>12, SentOn, ClosingOn DEF WireInv, Inv
<1>13. CASE round = "preparing"
  <2>1. (Has("error") <=> res.err) /\ (~res.err => Has("row description"))
    BY <1>1, <1>3, <1>13, InPrepare
  <2>2. (Has("error")' <=> res'.err) /\ (~res'.err => Has("row description")')
    BY <1>6, <1>11, <2>1
  <2>3. OfParse'
    BY <1>4, <1>6, <1>13, <2>2 DEF OfParse
  <2>4. WireInv'
    BY <1>1, <1>2, <1>10, <1>13, <2>3, SentOn DEF WireInv
  <2>5. QED
    BY <1>7, <2>4 DEF Inv
<1>14. CASE round = "running"
  <2>1. Has("row description") /\ (Has("error") <=> res.err) /\ (Has("data") <=> ~res.err)
    BY <1>1, <1>3, <1>14, InRun
  <2>2. Has("row description")' /\ (Has("error")' <=> res'.err) /\ (Has("data")' <=> ~res'.err)
    BY <1>6, <1>11, <2>1
  <2>3. OfRun'
    BY <1>4, <1>6, <1>14, <2>2 DEF OfRun
  <2>4. WireInv'
    BY <1>1, <1>2, <1>10, <1>14, <2>3, SentOn DEF WireInv
  <2>5. QED
    BY <1>7, <2>4 DEF Inv
<1>15. QED
  BY <1>3, <1>12, <1>13, <1>14

(* A statement that failed is closed, and stays prepared.                  *)
LEMMA CloseKeeps == ASSUME Inv, Close PROVE Inv'
<1>1. Takes("C") /\ WireInv
  BY DEF Close, Inv
<1>2. UNCHANGED <<startup, driver, server>> /\ round' = round
  BY <1>1 DEF Close, Takes, driver
<1>3. ~Untouched /\ round = "closing"
  BY <1>1, TakesNext
<1>4. ~Untouched'
  BY <1>2, <1>3 DEF Untouched
<1>5. res' = res /\ res' \in Result /\ errMode' = errMode
  BY <1>2 DEF server, Inv, TypeInv
<1>6. TypeInv' /\ CacheInv' /\ ResInv' /\ CountInv' /\ ShowInOrder'
  <2>1. UNCHANGED <<startup, driver, showIdx, prepared, res, inTx>> /\ pending' = pending
    BY <1>2 DEF server
  <2>2. errMode' \in BOOLEAN /\ round # "idle"
    BY <1>3, <1>5 DEF Inv, TypeInv
  <2>3. QED
    BY <1>3, <1>4, <2>1, <2>2, GoesOn
<1>7. "closed" \in ReplyType /\ Answers(<<"closed">>)
  BY DEF Close, ReplyType
<1>8. replies' \in Seq(Reply) /\ \A j \in DOMAIN replies' : replies'[j].res = res'
  BY <1>1, <1>5, <1>7, AnswersOne
<1>9. WireInv'
  BY <1>1, <1>2, <1>3, <1>5, <1>8, SentOn, ClosingOn DEF WireInv
<1>10. QED
  BY <1>6, <1>9 DEF Inv

-----------------------------------------------------------------------------
(* The driver.                                                             *)

(* A query is sent, with no statement of it left from before.              *)
LEMMA AsksKeeps ==
    ASSUME Inv, round \in {"idle", "closing"}, NEW q \in Queries \cup Command, query' = q, Asks(q), got' = Nothing,
           shows' = IF q = "SHOW" THEN showIdx + 1 ELSE showIdx, shows' \in 0 .. MaxShows,
           cached' = cached, invalid' \subseteq invalid, IsFiniteSet(invalid'), txStatus' \in {"I", "T"}
    PROVE  Inv'
<1>1. /\ replies' = <<>> /\ described' = Nothing /\ UNCHANGED <<startup, server>>
      /\ \/ round' = "command" /\ q \in Command /\ sent' = <<Msg("Q", q)>>
         \/ round' = "running" /\ q \notin Command /\ q \in cached /\ sent' = Running(q)
         \/ round' = "preparing" /\ q \notin Command /\ q \notin cached /\ sent' = Preparing(q)
  BY DEF Asks, Sends
<1>2. ~errMode /\ cached \cap pending = {}
  BY DEF Inv, WireInv, CacheInv
<1>3. Untouched' /\ ~Computed'
  BY <1>1, <1>2 DEF Untouched, Computed, server
<1>4. q # "none" /\ (q \notin Command => q \in Queries)
  BY TestGiven DEF Queries, Command
<1>5. Nothing \in Result
  BY DEF Result
<1>6. TypeInv'
  BY <1>1, <1>4, <1>5 DEF Inv, TypeInv, server
<1>7. sent' \in Seq(Message)
  <2>1. \A t \in {"Q", "P", "B", "D", "E", "S", "C"} : Msg(t, q) \in Message
    BY DEF Msg, Message
  <2>2. <<Msg("Q", q)>> \in Seq(Message)
    BY <2>1
  <2>3. Preparing(q) \in Seq(Message) /\ Running(q) \in Seq(Message)
    BY <2>1 DEF Preparing, Running
  <2>4. QED
    BY <1>1, <2>2, <2>3
<1>8. WireInv'
  <2>1. replies' \in Seq(Reply) /\ DOMAIN replies' = {} /\ errMode' = errMode
    BY <1>1 DEF server
  <2>2. CASE round' = "command"
    <3>1. OfCommand'
      BY <1>1, <1>2, <2>1, <2>2 DEF OfCommand
    <3>2. QED
      BY <1>7, <2>1, <2>2, <3>1 DEF WireInv
  <2>3. CASE round' = "running"
    <3>1. OfRun'
      BY <1>1, <1>2, <2>1, <2>3 DEF OfRun
    <3>2. QED
      BY <1>7, <2>1, <2>3, <3>1 DEF WireInv
  <2>4. CASE round' = "preparing"
    <3>1. OfParse'
      BY <1>1, <1>2, <2>1, <2>4 DEF OfParse
    <3>2. QED
      BY <1>7, <2>1, <2>4, <3>1 DEF WireInv
  <2>5. QED
    BY <1>1, <2>2, <2>3, <2>4
<1>9. CacheInv'
  BY <1>1, <1>2, <1>3 DEF CacheInv, server, Inv, TypeInv
<1>10. ResInv' /\ CountInv' /\ ShowInOrder'
  BY <1>1, <1>3 DEF ResInv, CountInv, ShowInOrder, server
<1>11. QED
  BY <1>6, <1>8, <1>9, <1>10 DEF Inv

(* The caller of the driver asks a query.                                  *)
LEMMA QueryKeeps == ASSUME Inv, NEW q \in Queries \cup Command, Query(q) PROVE Inv'
<1>1. /\ round = "idle" /\ query' = q /\ got' = Nothing
      /\ UNCHANGED <<cached, invalid, txStatus>>
      /\ shows' = IF q = "SHOW" THEN shows + 1 ELSE shows
      /\ IF invalid # {} THEN Sends("closing", Closing(SetToSeq(invalid))) ELSE Asks(q)
  BY DEF Query, Free
<1>2. shows = showIdx
  BY <1>1 DEF Inv, CountInv
<1>3. shows' = IF q = "SHOW" THEN showIdx + 1 ELSE showIdx
  BY <1>1, <1>2
<1>a. shows' \in 0 .. MaxShows
  <2>1. shows \in 0 .. MaxShows /\ MaxShows \in Nat
    BY TestGiven DEF Inv, TypeInv
  <2>2. q = "SHOW" => shows < MaxShows
    BY DEF Query
  <2>3. QED
    BY <1>1, <2>1, <2>2
<1>4. IsFiniteSet(invalid) /\ invalid \subseteq Queries /\ txStatus \in {"I", "T"}
  BY DEF Inv, TypeInv
<1>5. CASE invalid = {}
  BY <1>1, <1>3, <1>a, <1>4, <1>5, AsksKeeps
<1>6. CASE invalid # {}
  <2>1. /\ round' = "closing" /\ sent' = Closing(SetToSeq(invalid)) /\ replies' = <<>>
        /\ described' = Nothing /\ UNCHANGED <<startup, server>>
    BY <1>1, <1>6 DEF Sends
  <2>2. ~errMode /\ cached \cap pending = {}
    BY <1>1 DEF Inv, WireInv, CacheInv
  <2>3. PICK s : s = sent'
    OBVIOUS
  <2>4. PICK R : R = [type : {"C","S"}, query : invalid \cup {"none"}]
    OBVIOUS
  <2>5. s \in Seq(R)
    BY <1>4, <2>1, <2>3, <2>4, SetInSeq, ClosingSent
  <2>a. R \subseteq Message /\ \A m \in R : m.type \in {"C", "S"}
    BY <1>4, <2>4 DEF Message
  <2>6. s \in Seq(Message)
    BY ONLY <2>5, <2>a
  <2>b. \A j \in DOMAIN s : s[j] \in R
    BY ONLY <2>5
  <2>7. \A j \in DOMAIN s : s[j].type \in {"C", "S"}
    BY <2>a, <2>b
  <2>8. WireInv'
    <3>1. replies' \in Seq(Reply) /\ DOMAIN replies' = {} /\ errMode' = errMode
      BY <2>1 DEF server
    <3>2. QED
      BY <2>1, <2>2, <2>3, <2>6, <2>7, <3>1 DEF WireInv
  <2>9. ~Computed'
    BY <2>1 DEF Computed
  <2>10. TypeInv'
    <3>1. q # "none" /\ Nothing \in Result
      BY TestGiven DEF Queries, Command, Result
    <3>2. QED
      BY <1>1, <1>a, <2>1, <3>1 DEF Inv, TypeInv, server
  <2>11. CacheInv' /\ ResInv' /\ CountInv' /\ ShowInOrder'
    BY <1>1, <1>3, <2>1, <2>2, <2>9 DEF CacheInv, ResInv, CountInv, ShowInOrder, server
  <2>12. QED
    BY <2>8, <2>10, <2>11 DEF Inv
<1>7. QED
  BY <1>5, <1>6

(* Statements that failed are closed, and the query goes out.              *)
LEMMA ClosedKeeps == ASSUME Inv, Closed PROVE Inv'
<1>1. /\ round = "closing" /\ Asks(query) /\ invalid' = {}
      /\ UNCHANGED <<query, cached, shows, got>> /\ Last(replies).type \in {"T", "I"}
      /\ txStatus' = Last(replies).type
  BY DEF Closed, Received
<1>2. ~Computed
  BY <1>1 DEF Computed
<1>3. shows' = IF query = "SHOW" THEN showIdx + 1 ELSE showIdx
  BY <1>1, <1>2 DEF Inv, CountInv
<1>a. shows' \in 0 .. MaxShows
  BY <1>1 DEF Inv, TypeInv
<1>4. got' = Nothing
  BY <1>1 DEF Inv, ResInv
<1>5. query \in Queries \cup Command
  BY <1>1 DEF Inv, TypeInv
<1>6. IsFiniteSet(invalid')
  BY <1>1, FS_EmptySet
<1>7. QED
  BY <1>1, <1>3, <1>a, <1>4, <1>5, <1>6, AsksKeeps

(* What the driver makes of the replies to the last message of their kind. *)
LEMMA SaidRes == ASSUME WireInv, NEW type PROVE Said(type) = IF Has(type) THEN res ELSE Nothing
<1> DEFINE of == {j \in DOMAIN replies : replies[j].type = type}
<1>1. Has(type) <=> of # {}
  BY DEF Has, Kinds
<1>2. CASE of = {}
  BY <1>1, <1>2 DEF Said
<1>3. CASE of # {}
  <2>1. PICK n \in Nat : DOMAIN replies = 1 .. n
    <3>1. Len(replies) \in Nat /\ DOMAIN replies = 1 .. Len(replies)
      BY DEF WireInv
    <3>2. QED
      BY <3>1
  <2>2. of \in SUBSET (1 .. n)
    BY <2>1
  <2>3. \E m \in of : \A k \in of : k <= m
    <3> HIDE DEF of
    <3>1. QED
      BY <1>3, <2>2, Greatest
  <2>4. \E m \in of : \A k \in of : m >= k
    <3>1. \A m \in of, k \in of : k <= m => m >= k
      BY <2>2
    <3> HIDE DEF of
    <3>2. QED
      BY <2>3, <3>1
  <2>5. Max(of) \in of
    <3> HIDE DEF of
    <3>1. QED
      BY <2>4 DEF Max
  <2>6. replies[Max(of)].res = res
    BY <2>5 DEF WireInv
  <2>7. QED
    BY <1>1, <1>3, <2>6 DEF Said
<1>4. QED
  BY <1>2, <1>3

LEMMA SaidResult == ASSUME TypeInv, WireInv, NEW type PROVE Said(type) \in Result
<1>1. res \in Result /\ Nothing \in Result
  BY DEF TypeInv, Result
<1>2. QED
  BY <1>1, SaidRes

(* The driver sees the error if there is one.                              *)
LEMMA FailedOnError ==
    ASSUME Inv, Computed PROVE /\ res \in Result /\ res.query = query /\ res.err \in BOOLEAN /\ res # Nothing
                               /\ Failed <=> Has("error")
<1>1. res \in Result /\ res.query = query /\ query \in Queries \cup Command
  BY DEF Inv, TypeInv, ResInv, Computed
<1>2. res.err \in BOOLEAN /\ res # Nothing
  BY <1>1, ResultFields
<1>3. Failed <=> Has("error")
  <2>1. Said("error") = IF Has("error") THEN res ELSE Nothing
    BY SaidRes DEF Inv
  <2>2. QED
    BY <1>2, <2>1 DEF Failed
<1>4. QED
  BY <1>1, <1>2, <1>3

(* The round is over, and the caller may have the answer.                  *)
LEMMA EndsKeeps ==
    ASSUME Inv, Computed, ~errMode, round' = "idle", sent' = <<>>, replies' = <<>>, UNCHANGED <<startup, server, query>>,
           got' = res \/ got' = Nothing, described' \in Result, txStatus' \in {"I", "T"},
           shows' = IF query = "SHOW" /\ res.hooked THEN shows - 1 ELSE shows,
           cached' \subseteq cached, cached' \cap pending = {}, invalid' \subseteq prepared, IsFiniteSet(invalid')
    PROVE  Inv'
<1>1. ~Untouched' /\ ~Computed' /\ round # "idle"
  BY DEF Untouched, Computed
<1>2. shows' = showIdx /\ shows' \in 0 .. MaxShows
  <2>1. showIdx \in Nat /\ shows \in 0 .. MaxShows /\ MaxShows \in Nat
    BY TestGiven DEF Inv, TypeInv
  <2>2. shows = IF query = "SHOW" /\ res.hooked THEN showIdx + 1 ELSE showIdx
    BY <1>1 DEF Inv, CountInv
  <2>3. QED
    BY <2>1, <2>2
<1>3. Nothing \in Result /\ Nothing.query = "none"
  BY DEF Result, Nothing, Outcome
<1>4. TypeInv'
  BY <1>2, <1>3 DEF Inv, TypeInv, server
<1>5. WireInv'
  BY DEF WireInv, server
<1>6. CacheInv'
  BY DEF CacheInv, server
<1>7. ResInv' /\ CountInv'
  BY <1>1, <1>2 DEF ResInv, CountInv, server
<1>8. ShowInOrder'
  <2>1. CASE got' = Nothing
    BY <1>3, <2>1 DEF ShowInOrder
  <2>2. CASE got' = res
    BY <1>2, <2>2 DEF Inv, ResInv, ShowInOrder, ShowValue
  <2>3. QED
    BY <2>1, <2>2
<1>9. QED
  BY <1>4, <1>5, <1>6, <1>7, <1>8 DEF Inv

(* The answer to everything that was sent is there.                        *)
LEMMA RoundOver ==
    ASSUME Inv, NEW what \in {"command", "preparing", "running"}, Received(what)
    PROVE  /\ Computed /\ ~Untouched /\ ~errMode /\ round = what /\ Last(replies).type \in {"I", "T"}
           /\ cached \cap pending = {}
           /\ Has("error") <=> res.err
           /\ ~res.err => Has("row description")
           /\ round = "running" => Has("row description")
           /\ round # "preparing" => (Has("data") <=> ~res.err)
           /\ round = "command" => (Has("row description") <=> ~res.err)
<1>1. sent = <<>> /\ round = what /\ Last(replies).type \in {"I", "T"}
  BY DEF Received
<1>2. \A m : <<m>> # <<>>
  OBVIOUS
<1>3. ~Untouched
  BY <1>1, <1>2, Past DEF Untouched
<1>4. Computed /\ cached \cap pending = {}
  BY <1>1, <1>3 DEF Computed, Inv, CacheInv
<1>5. CASE what = "command"
  <2>1. OfCommand
    BY <1>1, <1>5 DEF Inv, WireInv
  <2>2. ~errMode /\ (Has("error") <=> res.err) /\ (Has("data") <=> ~res.err) /\ (Has("row description") <=> ~res.err)
    BY <1>1, <1>2, <2>1 DEF OfCommand
  <2>3. QED
    BY <1>1, <1>3, <1>4, <1>5, <2>2
<1>6. CASE what = "preparing"
  <2>1. OfParse
    BY <1>1, <1>6 DEF Inv, WireInv
  <2>2. <<Msg("D", query), Msg("S", query)>> # <<>> /\ Preparing(query) # <<>>
    BY DEF Preparing
  <2>3. ~errMode /\ (Has("error") <=> res.err) /\ (~res.err => Has("row description"))
    BY <1>1, <1>2, <2>1, <2>2 DEF OfParse
  <2>4. QED
    BY <1>1, <1>3, <1>4, <1>6, <2>3
<1>7. CASE what = "running"
  <2>1. OfRun
    BY <1>1, <1>7 DEF Inv, WireInv
  <2>2. /\ <<Msg("D", query), Msg("E", query), Msg("S", query)>> # <<>>
        /\ <<Msg("E", query), Msg("S", query)>> # <<>> /\ Running(query) # <<>>
    BY DEF Running
  <2>3. ~errMode /\ Has("row description") /\ (Has("error") <=> res.err) /\ (Has("data") <=> ~res.err)
    BY <1>1, <1>2, <2>1, <2>2 DEF OfRun
  <2>4. QED
    BY <1>1, <1>3, <1>4, <1>7, <2>3
<1>8. QED
  BY <1>5, <1>6, <1>7

(* The caller has the answer: the result the server computed for it.       *)
LEMMA AnswerIs ==
    ASSUME Inv, NEW what \in {"command", "running"}, Received(what),
           Answered(IF Failed THEN Said("error") ELSE Said("data")), described' = Said("row description")
    PROVE  /\ got' = res /\ res.query = query
           /\ described' = IF what = "command" /\ res.err THEN Nothing ELSE res
           /\ shows' = IF query = "SHOW" /\ res.hooked THEN shows - 1 ELSE shows
<1>1. /\ Computed /\ round = what /\ (Has("error") <=> res.err) /\ (Has("data") <=> ~res.err)
      /\ Has("row description") <=> ~(what = "command" /\ res.err)
  BY RoundOver
<1>2. res.query = query /\ res.err \in BOOLEAN /\ (Failed <=> Has("error"))
  BY <1>1, FailedOnError
<1>3. WireInv
  BY DEF Inv
<1>4. (IF Failed THEN Said("error") ELSE Said("data")) = res
  <2>1. CASE Failed
    BY <1>2, <1>3, <2>1, SaidRes
  <2>2. CASE ~Failed
    BY <1>1, <1>2, <1>3, <2>2, SaidRes
  <2>3. QED
    BY <2>1, <2>2
<1>5. described' = IF Has("row description") THEN res ELSE Nothing
  BY <1>3, SaidRes
<1>6. QED
  BY <1>1, <1>2, <1>4, <1>5 DEF Answered

LEMMA CommandedKeeps == ASSUME Inv, Commanded PROVE Inv'
<1>1. /\ Received("command") /\ described' = Said("row description") /\ UNCHANGED <<cached, invalid>> /\ Ends
      /\ Answered(IF Failed THEN Said("error") ELSE Said("data"))
  BY DEF Commanded
<1>2. got' = res /\ shows' = IF query = "SHOW" /\ res.hooked THEN shows - 1 ELSE shows
  BY <1>1, AnswerIs
<1>3. Computed /\ ~errMode /\ cached \cap pending = {} /\ Last(replies).type \in {"I", "T"}
  BY <1>1, RoundOver
<1>4. described' \in Result /\ invalid' \subseteq prepared /\ IsFiniteSet(invalid')
  BY <1>1, SaidResult DEF Inv, TypeInv
<1>5. QED
  BY <1>1, <1>2, <1>3, <1>4, EndsKeeps DEF Ends

LEMMA FinishesKeeps == ASSUME Inv, Finishes PROVE Inv'
<1>1. /\ Received("running") /\ described' = Said("row description") /\ Ends
      /\ Answered(IF Failed THEN Said("error") ELSE Said("data"))
      /\ \/ cached' = cached \ {query} /\ invalid' = invalid \cup {query}
         \/ cached' = cached /\ invalid' = invalid
  BY DEF Finishes
<1>2. got' = res /\ shows' = IF query = "SHOW" /\ res.hooked THEN shows - 1 ELSE shows
  BY <1>1, AnswerIs
<1>3. Computed /\ ~errMode /\ cached \cap pending = {} /\ Last(replies).type \in {"I", "T"} /\ round = "running"
  BY <1>1, RoundOver
<1>4. invalid \subseteq prepared /\ IsFiniteSet(invalid) /\ query \in prepared
  BY <1>3 DEF Inv, TypeInv, CacheInv
<1>5. invalid' \subseteq prepared /\ IsFiniteSet(invalid')
  <2>1. IsFiniteSet(invalid \cup {query})
    BY <1>4, FS_AddElement
  <2>2. QED
    BY <1>1, <1>4, <2>1
<1>6. described' \in Result /\ cached' \subseteq cached /\ cached' \cap pending = {}
  BY <1>1, <1>3, SaidResult DEF Inv
<1>7. QED
  BY <1>1, <1>2, <1>3, <1>5, <1>6, EndsKeeps DEF Ends

LEMMA PrepareFailsKeeps == ASSUME Inv, PrepareFails PROVE Inv'
<1>1. /\ Received("preparing") /\ Failed /\ UNCHANGED <<cached, invalid, described>> /\ Ends
      /\ Answered(Said("error"))
  BY DEF PrepareFails
<1>2. Computed /\ ~errMode /\ cached \cap pending = {} /\ Last(replies).type \in {"I", "T"}
  BY <1>1, RoundOver
<1>3. Has("error")
  BY <1>1, <1>2, FailedOnError
<1>4. Said("error") = res
  BY <1>3, SaidRes DEF Inv
<1>5. got' = res /\ shows' = IF query = "SHOW" /\ res.hooked THEN shows - 1 ELSE shows
  BY <1>1, <1>4 DEF Answered
<1>6. described' \in Result /\ invalid' \subseteq prepared /\ IsFiniteSet(invalid')
  BY <1>1 DEF Inv, TypeInv
<1>7. QED
  BY <1>1, <1>2, <1>5, <1>6, EndsKeeps DEF Ends

(* The statement is cached, and its result pending.                        *)
LEMMA PreparesKeeps == ASSUME Inv, Prepares PROVE Inv'
<1>1. /\ Received("preparing") /\ ~Failed
      /\ cached' = cached \cup {query} /\ round' = "prepared"
      /\ txStatus' = Last(replies).type /\ described' = Said("row description")
      /\ sent' = <<>> /\ replies' = <<>> /\ UNCHANGED <<startup, server, query, invalid, shows, got>>
  BY DEF Prepares
<1>2. /\ Computed /\ ~Untouched /\ ~errMode /\ round = "preparing" /\ cached \cap pending = {}
      /\ Last(replies).type \in {"I", "T"}
      /\ Has("error") <=> res.err
      /\ ~res.err => Has("row description")
  BY <1>1, RoundOver
<1>3. ~res.err /\ Has("row description")
  BY <1>1, <1>2, FailedOnError
<1>4. described' = res
  BY <1>1, <1>3, SaidRes DEF Inv
<1>5. query \in pending /\ query \in prepared
  BY <1>2, <1>3 DEF Inv, CacheInv, TypeInv
<1>6. Computed'
  BY <1>1 DEF Computed
<1>7. TypeInv'
  BY <1>1, <1>2, <1>4, <1>5 DEF Inv, TypeInv, server
<1>8. WireInv'
  <2>1. round' = "prepared" /\ sent' = <<>> /\ replies' = <<>>
    BY <1>1
  <2>2. ~errMode'
    BY <1>1, <1>2 DEF server
  <2>3. QED
    BY ONLY <2>1, <2>2 DEF WireInv
<1>9. CacheInv'
  BY <1>1, <1>2, <1>5 DEF CacheInv, server
<1>10. ResInv' /\ CountInv' /\ ShowInOrder'
  BY <1>1, <1>2, <1>4, <1>6 DEF Inv, ResInv, CountInv, ShowInOrder, ShowValue, server
<1>11. QED
  BY <1>7, <1>8, <1>9, <1>10 DEF Inv

LEMMA RunsKeeps == ASSUME Inv, Runs PROVE Inv'
<1>1. /\ round = "prepared" /\ round' = "running" /\ sent' = Running(query)
      /\ UNCHANGED <<startup, server, replies, query, cached, invalid, txStatus, shows, described, got>>
  BY DEF Runs
<1>2. Untouched'
  BY <1>1 DEF Untouched
<1>3. query \in pending /\ query \in prepared /\ query \in Queries
  BY <1>1 DEF Inv, CacheInv, TypeInv
<1>4. Computed /\ Computed'
  BY <1>1, <1>3 DEF Computed, server
<1>5. TypeInv'
  BY <1>1 DEF Inv, TypeInv, server
<1>6. WireInv'
  <2>1. replies = <<>> /\ ~errMode
    BY <1>1 DEF Inv, WireInv
  <2>2. \A t \in {"B", "D", "E", "S"} : Msg(t, query) \in Message
    BY <1>3 DEF Msg, Message
  <2>3. Running(query) \in Seq(Message)
    BY <2>2 DEF Running
  <2>4. OfRun'
    BY <1>1, <2>1 DEF OfRun, server
  <2>5. QED
    BY <1>1, <2>1, <2>3, <2>4 DEF WireInv
<1>7. CacheInv'
  BY <1>1, <1>2, <1>3 DEF Inv, CacheInv, server
<1>8. ResInv' /\ CountInv' /\ ShowInOrder'
  BY <1>1, <1>4 DEF Inv, ResInv, CountInv, ShowInOrder, ShowValue, server
<1>9. QED
  BY <1>5, <1>6, <1>7, <1>8 DEF Inv

LEMMA GivesUpKeeps == ASSUME Inv, GivesUp PROVE Inv'
<1>1. /\ round = "prepared" /\ round' = "idle"
      /\ cached' = cached \ {query} /\ invalid' = invalid \cup {query}
      /\ shows' = IF query = "SHOW" /\ described.hooked THEN shows - 1 ELSE shows
      /\ UNCHANGED <<startup, server, sent, replies, query, txStatus, described, got>>
  BY DEF GivesUp
<1>2. Computed /\ described = res /\ got = Nothing
  BY <1>1 DEF Computed, Inv, ResInv
<1>3. /\ ~errMode /\ sent = <<>> /\ replies = <<>>
      /\ cached' \cap pending = {} /\ cached' \subseteq cached
  BY <1>1 DEF Inv, WireInv, CacheInv
<1>4. invalid' \subseteq prepared /\ IsFiniteSet(invalid') /\ txStatus \in {"I", "T"} /\ described \in Result
  BY <1>1, FS_AddElement DEF Inv, TypeInv, CacheInv
<1>5. QED
  BY <1>1, <1>2, <1>3, <1>4, EndsKeeps

(* Nothing of the query was sent, and the statement of it goes.            *)
LEMMA NeverSentKeeps == ASSUME Inv, NEW q \in Queries \cup Command, NeverSent(q) PROVE Inv'
<1>1. /\ round' = "idle" /\ query' = q /\ sent' = <<>> /\ replies' = <<>>
      /\ cached' = cached \ {q} /\ invalid' = cached \cap {q}
      /\ described' = Nothing /\ got' = Nothing /\ UNCHANGED <<startup, server>>
  BY DEF NeverSent
<1>2. round \in {"idle", "closing"}
  BY DEF NeverSent, Free, Received
<1>3. ~Untouched' /\ ~Computed' /\ ~Computed
  BY <1>1, <1>2 DEF Untouched, Computed
<1>4. ~errMode /\ cached \cap pending = {}
  BY <1>2 DEF Inv, WireInv, CacheInv
<1>5. shows' = showIdx
  <2>1. CASE round = "idle"
    BY <2>1 DEF NeverSent, Free, Received, Inv, CountInv
  <2>2. CASE round = "closing"
    <3>1. shows = IF q = "SHOW" THEN showIdx + 1 ELSE showIdx
      BY <1>3, <2>2 DEF NeverSent, Free, Inv, CountInv
    <3>2. shows' = IF q = "SHOW" THEN shows - 1 ELSE shows
      BY <2>2 DEF NeverSent, Free
    <3>3. QED
      BY <3>1, <3>2 DEF Inv, TypeInv
  <2>3. QED
    BY <1>2, <2>1, <2>2
<1>6. Nothing \in Result /\ Nothing.query = "none"
  BY DEF Result, Nothing, Outcome
<1>7. TypeInv'
  <2>1. shows' \in 0 .. MaxShows
    <3>1. shows \in 0 .. MaxShows /\ showIdx \in Nat /\ showIdx <= shows /\ MaxShows \in Nat
      BY TestGiven DEF Inv, TypeInv, CountInv
    <3>2. QED
      BY <1>5, <3>1
  <2>2. IsFiniteSet(invalid')
    BY <1>1, FS_Singleton, FS_Subset
  <2>3. txStatus' \in {"I", "T"}
    BY DEF NeverSent, Received, Inv, TypeInv
  <2>4. QED
    BY <1>1, <1>6, <2>1, <2>2, <2>3 DEF Inv, TypeInv, server
<1>8. WireInv'
  BY <1>1, <1>4 DEF WireInv, server
<1>9. CacheInv'
  BY <1>1, <1>4 DEF CacheInv, server
<1>10. ResInv' /\ CountInv' /\ ShowInOrder'
  BY <1>1, <1>3, <1>5, <1>6 DEF ResInv, CountInv, ShowInOrder, server
<1>11. QED
  BY <1>7, <1>8, <1>9, <1>10 DEF Inv

-----------------------------------------------------------------------------
(* The theorems.                                                           *)

LEMMA InitInv == Init => Inv
<1> SUFFICES ASSUME Init PROVE Inv
  OBVIOUS
<1> USE DEF Init
<1>1. Nothing \in Result /\ Nothing.query = "none" /\ IsFiniteSet({})
  BY FS_EmptySet DEF Result, Nothing, Outcome
<1>2. TypeInv
  <2>1. 0 \in 0 .. MaxShows
    BY TestGiven
  <2>2. QED
    BY <1>1, <2>1 DEF TypeInv
<1>3. WireInv
  BY DEF WireInv
<1>4. CacheInv /\ ResInv /\ CountInv
  BY DEF CacheInv, ResInv, CountInv, Computed
<1>5. ShowInOrder
  BY <1>1 DEF ShowInOrder
<1>6. QED
  BY <1>2, <1>3, <1>4, <1>5 DEF Inv

LEMMA NextInv == Inv /\ [Next]_vars => Inv'
<1> SUFFICES ASSUME Inv, [Next]_vars PROVE Inv'
  OBVIOUS
<1>1. ASSUME UNCHANGED <<server, sent, replies, driver>>, startup' \in {"new", "refused", "open", "closed"}
      PROVE  Inv'
  <2> USE <1>1 DEF server, driver
  <2>1. TypeInv'
    BY DEF Inv, TypeInv
  <2>2. WireInv'
    BY DEF Inv, WireInv, OfCommand, OfParse, OfRun, Has, Kinds
  <2>3. Untouched' <=> Untouched
    BY DEF Untouched
  <2>4. Computed' <=> Computed
    BY <2>3 DEF Computed
  <2>5. CacheInv'
    BY <2>3 DEF Inv, CacheInv
  <2>6. ResInv' /\ CountInv' /\ ShowInOrder'
    BY <2>4 DEF Inv, ResInv, CountInv, ShowInOrder, ShowValue
  <2>7. QED
    BY <2>1, <2>2, <2>5, <2>6 DEF Inv
<1>2. CASE RefuseSSL \/ Handshake \/ Leaves
  BY <1>1, <1>2 DEF RefuseSSL, Handshake, Leaves
<1>3. CASE Left \/ UNCHANGED vars
  BY <1>1, <1>3 DEF Left, vars, Inv, TypeInv
<1>4. CASE Serves
  BY <1>4, SimpleQueryKeeps, ParseKeeps, BindKeeps, DescribeKeeps, ExecuteKeeps, SyncKeeps, CloseKeeps DEF Serves
<1>5. CASE Reads
  BY <1>5, ClosedKeeps, CommandedKeeps, PrepareFailsKeeps, PreparesKeeps, FinishesKeeps DEF Reads
<1>6. CASE Runs \/ GivesUp
  BY <1>6, RunsKeeps, GivesUpKeeps
<1>7. CASE \E q \in Queries \cup Command : Query(q) \/ NeverSent(q)
  BY <1>7, QueryKeeps, NeverSentKeeps
<1>8. QED
  BY <1>2, <1>3, <1>4, <1>5, <1>6, <1>7 DEF Next

THEOREM Kept == Spec => []Inv
BY InitInv, NextInv, PTL DEF Spec

(* Every variable of the server and of the driver has its type.            *)
THEOREM TypesCorrect == Spec => []TypeOK
<1>1. ASSUME Inv PROVE TypeOK
  <2>1. TypeInv /\ WireInv /\ CountInv
    BY <1>1 DEF Inv
  <2>2. showIdx \in 0 .. MaxShows
    BY <2>1, TestGiven DEF TypeInv, CountInv
  <2>3. \A m \in Range(replies) : m.res \in Result
    BY <2>1 DEF WireInv, TypeInv, Range
  <2>4. QED
    BY <2>1, <2>2, <2>3 DEF TypeInv, TypeOK
<1>2. QED
  BY <1>1, Kept, PTL

(* The values of SHOW transaction_read_only come in the order the test     *)
(* gave them, one for each query of it that the hook did not answer,       *)
(* computed at Parse or at Bind, whatever failed or was given up between.  *)
THEOREM ShowsInOrder == Spec => []ShowInOrder
<1>1. Inv => ShowInOrder
  BY DEF Inv
<1>2. QED
  BY <1>1, Kept, PTL

(* What the driver gives its caller is the result that the server computed *)
(* for this run of this query, and the description is of that result.      *)
THEOREM AnswersAreBound == Spec => AnswersBound
<1> DEFINE Bound == Commanded \/ Finishes =>
                      /\ got'.query = query
                      /\ got' = res
                      /\ described' = (IF got'.err /\ query \in Command THEN Nothing ELSE got')
<1>1. ASSUME Inv, Commanded PROVE Bound
  <2>1. query \in Command
    BY <1>1 DEF Commanded, Received, Inv, TypeInv
  <2>2. /\ Received("command") /\ described' = Said("row description")
        /\ Answered(IF Failed THEN Said("error") ELSE Said("data"))
    BY <1>1 DEF Commanded
  <2>3. got' = res /\ res.query = query /\ described' = IF res.err THEN Nothing ELSE res
    BY <1>1, <2>2, AnswerIs
  <2>4. QED
    BY <2>1, <2>3
<1>2. ASSUME Inv, Finishes PROVE Bound
  <2>1. query \notin Command
    BY <1>2, TestGiven DEF Finishes, Received, Inv, TypeInv, Queries, Command
  <2>2. /\ Received("running") /\ described' = Said("row description")
        /\ Answered(IF Failed THEN Said("error") ELSE Said("data"))
    BY <1>2 DEF Finishes
  <2>3. got' = res /\ res.query = query /\ described' = res
    BY <1>2, <2>2, AnswerIs
  <2>4. QED
    BY <2>1, <2>3
<1>3. Inv => [Bound]_vars
  BY <1>1, <1>2
<1>4. QED
  BY <1>3, Kept, PTL DEF AnswersBound

=============================================================================
