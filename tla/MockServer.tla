----------------------------- MODULE MockServer -----------------------------
(***************************************************************************)
(* The server the tests of the repository talk to (internal/dbtest/        *)
(* mockgaussdb.go): what it keeps for one connection and how it answers    *)
(* each message, with the driver (third_party/gaussdb-go) on the other     *)
(* side.  A statement the driver has not cached takes two round trips,     *)
(* Parse-Describe-Sync and Bind-Describe-Execute-Sync, and one it has      *)
(* cached the second only; the server computes the result of the first     *)
(* kind at Parse and that of the second at Bind, because some results,     *)
(* those of SHOW transaction_read_only, come in an order the test chose.   *)
(***************************************************************************)
EXTENDS Naturals, SequencesExt

CONSTANTS
    Select,    \* the queries without a meaning to the server
    Shows,     \* WithShowValues
    MaxShows   \* bounds the queries SHOW of a connection

Command == {"BEGIN", "SET", "COMMIT", "ROLLBACK"}

ASSUME TestGiven ==
    /\ Select \cap (Command \cup {"SHOW", "none"}) = {}
    /\ Shows \in Seq(Range(Shows)) \ {<<>>} /\ MaxShows \in Nat

Queries == Select \cup {"SHOW"}

VARIABLES
    startup,   \* of the connection: "new", "refused" (SSL), "open", "closed"
    \* connState
    showIdx, prepared, pending, res, errMode, inTx,
    \* the wire
    sent, replies,
    \* the driver
    query,     \* what its caller waits for
    round,     \* what the driver waits for, "idle" if for nothing
    cached,    \* its statement cache
    invalid,   \* statements it has to close
    txStatus,
    shows,     \* the queries SHOW so far that the hook did not answer
    described, got   \* what the server said of the last answer, and the answer

server == <<showIdx, prepared, pending, res, errMode, inTx>>
driver == <<query, round, cached, invalid, txStatus, shows, described, got>>
vars   == <<startup, server, sent, replies, driver>>

Outcome(q, err, hooked, value) == [query |-> q, err |-> err, hooked |-> hooked, value |-> value]
Nothing == Outcome("none", FALSE, FALSE, "none")

Result == [query : Queries \cup Command, err : BOOLEAN, hooked : BOOLEAN, value : Range(Shows) \cup {"none"}]
            \cup {Nothing}

TypeOK ==
    /\ startup \in {"new", "refused", "open", "closed"}
    /\ showIdx \in 0..MaxShows
    /\ prepared \subseteq Queries /\ pending \subseteq prepared
    /\ res \in Result /\ described \in Result /\ got \in Result
    /\ errMode \in BOOLEAN /\ inTx \in BOOLEAN /\ txStatus \in {"I", "T"}
    /\ round \in {"idle", "command", "closing", "preparing", "prepared", "running"}
    /\ query \in Queries \cup Command \cup {"none"}
    /\ cached \subseteq prepared /\ invalid \subseteq prepared
    /\ shows \in 0..MaxShows
    /\ \A m \in Range(replies) : m.res \in Result

Init ==
    /\ startup = "new"
    /\ showIdx = 0 /\ prepared = {} /\ pending = {} /\ res = Nothing
    /\ errMode = FALSE /\ inTx = FALSE
    /\ sent = <<>> /\ replies = <<>>
    /\ query = "none" /\ round = "idle" /\ cached = {} /\ invalid = {}
    /\ txStatus = "I" /\ shows = 0 /\ described = Nothing /\ got = Nothing

-----------------------------------------------------------------------------
(* readStartup and the handshake of handle: a request for SSL is refused,  *)
(* and the startup packet read again.                                      *)
RefuseSSL ==
    /\ startup = "new"
    /\ startup' = "refused"
    /\ UNCHANGED <<server, sent, replies, driver>>

Handshake ==
    /\ startup \in {"new", "refused"}
    /\ startup' = "open"
    /\ UNCHANGED <<server, sent, replies, driver>>

(* The server: one message of the driver.                                  *)
Takes(type) ==
    /\ startup = "open"
    /\ sent # <<>> /\ Head(sent).type = type
    /\ sent' = Tail(sent)
    /\ UNCHANGED <<startup, driver>>

About(r, types) == [i \in DOMAIN types |-> [type |-> types[i], res |-> r]]
Answers(types)  == replies' = replies \o About(res', types)

(* The n-th value of the sequence, and the last one again behind its end.  *)
ShowValue(n) == Shows[IF n < Len(Shows) THEN n ELSE Len(Shows)]

(* computeResult: the hook of a test may answer any query, and then the    *)
(* server does not look at it.                                             *)
computeResult(q) ==
    \/ /\ \E e \in BOOLEAN : res' = Outcome(q, e, TRUE, "none")
       /\ UNCHANGED <<inTx, showIdx>>
    \/ /\ inTx' = CASE q = "BEGIN" -> TRUE [] q \in {"COMMIT", "ROLLBACK"} -> FALSE [] OTHER -> inTx
       /\ IF q = "SHOW"
            THEN /\ showIdx' = showIdx + 1
                 /\ res' = Outcome(q, FALSE, FALSE, ShowValue(showIdx + 1))
            ELSE /\ res' = Outcome(q, FALSE, FALSE, "none")
                 /\ UNCHANGED showIdx

Ready == IF inTx' THEN "T" ELSE "I"

(* A bug, one the code warns of: a command that fails mutes the next round.*)
SimpleQueryLatches ==
    /\ Takes("Q")
    /\ computeResult(Head(sent).query)
    /\ pending' = IF res'.err THEN {} ELSE pending
    /\ errMode' = (errMode \/ res'.err)
    /\ Answers(IF res'.err THEN <<"error", Ready>> ELSE <<"row description", "data", Ready>>)
    /\ UNCHANGED prepared

SimpleQuery ==
    /\ Takes("Q")
    /\ computeResult(Head(sent).query)
    /\ pending' = IF res'.err THEN {} ELSE pending
    /\ Answers(IF res'.err THEN <<"error", Ready>> ELSE <<"row description", "data", Ready>>)
    /\ UNCHANGED <<prepared, errMode>>

(* The name of a statement stands for its text.                            *)
Parse ==
    /\ Takes("P")
    /\ LET q == Head(sent).query
       IN  /\ computeResult(q)
           /\ prepared' = prepared \cup {q}
           /\ pending' = IF res'.err THEN {} ELSE pending \cup {q}
    /\ errMode' = (errMode \/ res'.err)
    /\ Answers(IF res'.err THEN <<"error">> ELSE <<"parsed">>)

Bind ==
    /\ Takes("B")
    /\ LET q == Head(sent).query
       IN  /\ pending' = pending \ {q}
           /\ IF q \in prepared \ pending THEN computeResult(q) ELSE UNCHANGED <<res, inTx, showIdx>>
    /\ Answers(<<"bound">>)
    /\ UNCHANGED <<prepared, errMode>>

Describe ==
    /\ Takes("D")
    /\ UNCHANGED server
    /\ Answers(IF errMode THEN <<>> ELSE <<"row description">>)

Execute ==
    /\ Takes("E")
    /\ IF errMode THEN UNCHANGED <<errMode, pending>>
       ELSE /\ errMode' = res.err
            /\ pending' = IF res.err THEN {} ELSE pending
    /\ UNCHANGED <<showIdx, prepared, res, inTx>>
    /\ Answers(IF errMode THEN <<>> ELSE IF res.err THEN <<"error">> ELSE <<"data">>)

(* A bug, one the code warns of: the Sync after Parse forgets its result.  *)
SyncForgets ==
    /\ Takes("S")
    /\ errMode' = FALSE /\ pending' = {}
    /\ UNCHANGED <<showIdx, prepared, res, inTx>>
    /\ Answers(<<Ready>>)

Sync ==
    /\ Takes("S")
    /\ errMode' = FALSE
    /\ UNCHANGED <<showIdx, prepared, pending, res, inTx>>
    /\ Answers(<<Ready>>)

(* A closed statement stays prepared.                                      *)
Close ==
    /\ Takes("C")
    /\ UNCHANGED server
    /\ Answers(<<"closed">>)

-----------------------------------------------------------------------------
(* The driver.                                                             *)

Msg(type, q)  == [type |-> type, query |-> q]
Preparing(q)  == <<Msg("P", q), Msg("D", q), Msg("S", q)>>
Running(q)    == <<Msg("B", q), Msg("D", q), Msg("E", q), Msg("S", q)>>
Closing(qs)   == [i \in DOMAIN qs |-> Msg("C", qs[i])] \o <<Msg("S", "none")>>

Free == startup = "open" /\ round = "idle"

Sends(what, messages) ==
    /\ round' = what
    /\ sent' = messages /\ replies' = <<>>
    /\ described' = Nothing
    /\ UNCHANGED <<startup, server>>

Asks(q) ==
    IF q \in Command THEN Sends("command", <<Msg("Q", q)>>)
    ELSE IF q \in cached THEN Sends("running", Running(q))
    ELSE Sends("preparing", Preparing(q))

(* Exec without arguments for a command, Query for the others: statements  *)
(* that failed are closed first.                                           *)
Query(q) ==
    /\ Free
    /\ query' = q /\ got' = Nothing
    /\ IF q = "SHOW" THEN shows < MaxShows /\ shows' = shows + 1 ELSE UNCHANGED shows
    /\ IF invalid # {} THEN Sends("closing", Closing(SetToSeq(invalid))) ELSE Asks(q)
    /\ UNCHANGED <<cached, invalid, txStatus>>

(* The answer to all that was sent.                                        *)
Received(what) == round = what /\ sent = <<>> /\ replies # <<>> /\ Last(replies).type \in {"T", "I"}

Said(type) ==
    LET of == {j \in DOMAIN replies : replies[j].type = type}
    IN  IF of = {} THEN Nothing ELSE replies[Max(of)].res

Failed == Said("error") # Nothing

Ends ==
    /\ round' = "idle"
    /\ txStatus' = Last(replies).type
    /\ sent' = <<>> /\ replies' = <<>>
    /\ UNCHANGED <<startup, server, query>>

(* The caller has its answer, of r; one of the hook's is no answer of the  *)
(* sequence.                                                               *)
Answered(r) ==
    /\ got' = r
    /\ shows' = IF query = "SHOW" /\ r.hooked THEN shows - 1 ELSE shows

Closed ==
    /\ Received("closing")
    /\ invalid' = {}
    /\ Asks(query)
    /\ txStatus' = Last(replies).type
    /\ UNCHANGED <<query, cached, shows, got>>

Commanded ==
    /\ Received("command")
    /\ Answered(IF Failed THEN Said("error") ELSE Said("data"))
    /\ described' = Said("row description")
    /\ Ends
    /\ UNCHANGED <<cached, invalid>>

PrepareFails ==
    /\ Received("preparing") /\ Failed
    /\ Answered(Said("error"))
    /\ Ends
    /\ UNCHANGED <<cached, invalid, described>>

(* The statement is cached before it runs.                                 *)
Prepares ==
    /\ Received("preparing") /\ ~Failed
    /\ cached' = cached \cup {query}
    /\ round' = "prepared" /\ txStatus' = Last(replies).type
    /\ described' = Said("row description")
    /\ sent' = <<>> /\ replies' = <<>>
    /\ UNCHANGED <<startup, server, query, invalid, shows, got>>

Runs ==
    /\ round = "prepared"
    /\ round' = "running"
    /\ sent' = Running(query)
    /\ UNCHANGED <<startup, server, replies, query, cached, invalid, txStatus, shows, described, got>>

(* The context of the caller ends between the two: the statement goes.     *)
GivesUp ==
    /\ round = "prepared"
    /\ round' = "idle"
    /\ cached' = cached \ {query} /\ invalid' = invalid \cup {query}
    /\ shows' = IF query = "SHOW" /\ described.hooked THEN shows - 1 ELSE shows
    /\ UNCHANGED <<startup, server, sent, replies, query, txStatus, described, got>>

(* It ends before anything of the query is sent, at once or after the      *)
(* closing: also then a statement that is cached goes.                     *)
NeverSent(q) ==
    /\ \/ Free /\ invalid = {} /\ UNCHANGED <<shows, txStatus>>
       \/ /\ Received("closing") /\ query = q
          /\ shows' = IF q = "SHOW" THEN shows - 1 ELSE shows
          /\ txStatus' = Last(replies).type
    /\ round' = "idle" /\ query' = q
    /\ cached' = cached \ {q} /\ invalid' = cached \cap {q}
    /\ sent' = <<>> /\ replies' = <<>> /\ described' = Nothing /\ got' = Nothing
    /\ UNCHANGED <<startup, server>>

Finishes ==
    /\ Received("running")
    /\ Answered(IF Failed THEN Said("error") ELSE Said("data"))
    /\ described' = Said("row description")
    /\ IF Failed THEN cached' = cached \ {query} /\ invalid' = invalid \cup {query}
       ELSE UNCHANGED <<cached, invalid>>
    /\ Ends

(* The connection is closed, also when the context of the caller ends with *)
(* messages on their way.                                                  *)
Leaves ==
    /\ startup = "open"
    /\ startup' = "closed"
    /\ UNCHANGED <<server, sent, replies, driver>>

Left == startup = "closed" /\ UNCHANGED vars

Serves == SimpleQuery \/ Parse \/ Bind \/ Describe \/ Execute \/ Sync \/ Close
Reads  == Closed \/ Commanded \/ PrepareFails \/ Prepares \/ Finishes

Next ==
    \/ RefuseSSL \/ Handshake \/ Serves \/ Reads \/ Runs \/ GivesUp \/ Leaves \/ Left
    \/ \E q \in Queries \cup Command : Query(q) \/ NeverSent(q)

Spec == Init /\ [][Next]_vars

-----------------------------------------------------------------------------
(* Properties.                                                             *)

(* Every answer the driver gives its caller is the answer to its query:    *)
(* data or an error of this very run of it, with a description of the same *)
(* result, whichever of the two ways the query took, whatever failed or    *)
(* was given up before it and whatever the hook of the test answers.       *)
AnswersBound ==
    [][Commanded \/ Finishes => /\ got'.query = query
                                /\ got' = res
                                /\ described' = (IF got'.err /\ query \in Command THEN Nothing ELSE got')]_vars

(* WithShowValues: the values of SHOW transaction_read_only come in the    *)
(* order of the test, one for each query, no matter whether the statement  *)
(* was cached, and the last again when there are no more.  A query given   *)
(* up after Parse takes its value with it.                                 *)
ShowInOrder ==
    round = "idle" /\ got.query = "SHOW" /\ ~got.hooked =>
        got.value = ShowValue(shows)
=============================================================================
