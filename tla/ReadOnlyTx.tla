----------------------------- MODULE ReadOnlyTx -----------------------------
(***************************************************************************)
(* The explicit read-only transaction every statement of the server goes   *)
(* through (Instance.queryReadOnly, internal/db/manager.go), on top of the *)
(* connection pool it acquires from and releases to                        *)
(* (third_party/gaussdb-go/gaussdbxpool).                                  *)
(*                                                                         *)
(* Calls run concurrently, one goroutine each; a pooled connection is used *)
(* by one call after another.  For each connection the module keeps both   *)
(* what the server knows (the open transaction, who began it, whether it   *)
(* is read-only) and what the driver believes (the status byte of the last *)
(* ReadyForQuery, whether the connection is closed), since the code        *)
(* decides on the second and is judged on the first.                       *)
(***************************************************************************)
EXTENDS Naturals, FiniteSets

CONSTANTS
    Call,            \* the calls of Select and Query; each happens once
    SelectCall,      \* those made by Select: a row limit, a warning on COMMIT
    Deadline,        \* those whose context carries a timeout
    Conn,            \* the connection slots of the pool (pool_max_conns)
    NoConn, NoCall, Foreign,
    HandOvers,       \* the states of a session a proxy may swap in unannounced
    Faulty           \* FALSE: no statement, connection or context ever fails

ASSUME CallAssumption ==
    /\ SelectCall \subseteq Call
    /\ Deadline \subseteq Call
    /\ NoConn \notin Conn
    /\ NoCall \notin Call
    /\ Foreign \notin Call
    /\ Foreign # NoCall
    /\ HandOvers \subseteq {"T", "E"}
    /\ Faulty \in BOOLEAN

VARIABLES
    pc,     \* where call c is in Acquire, queryReadOnly or Release
    ctx,    \* the context of call c: "live", or "done" (expired or cancelled)
    held,   \* the connection call c waits for or holds
    rows,   \* what call c has read of its result
    err,    \* the error queryReadOnly is returning to Select or Query
    slot,   \* the pool's view of a connection
    sess    \* the session of a connection, at the server and in the driver

vars == <<pc, ctx, held, rows, err, slot, sess>>
callVars == <<pc, ctx, held, rows, err>>

(* The statements of queryReadOnly after BEGIN, in their order.            *)
InTx == {"setro", "verify", "query", "rows", "drain", "commit"}
(* Where a call owns the connection it got from Acquire.                   *)
Owns == {"ping", "ensure", "begin", "rollback", "begin2", "cleanup", "release"} \cup InTx
PCs == {"new", "acquire", "wait", "connect", "done"} \cup Owns

TxStatus == {"I", "T", "E"}     \* idle, in a transaction, in a failed one
Session == [link : {"up", "lost", "closed"},   \* "lost": gone, not yet noticed
            bit  : TxStatus,                   \* TxStatus() of the driver
            tx   : TxStatus,                   \* the server's state
            ro   : BOOLEAN,                    \* transaction_read_only
            by   : Call \cup {NoCall, Foreign}]  \* whose transaction it is

Fresh == [link |-> "up", bit |-> "I", tx |-> "I", ro |-> FALSE, by |-> NoCall]

TypeOK ==
    /\ pc \in [Call -> PCs]
    /\ ctx \in [Call -> {"live", "done"}]
    /\ held \in [Call -> Conn \cup {NoConn}]
    /\ rows \in [Call -> {"none", "open", "full", "cut", "drained"}]
    /\ err \in [Call -> {"nil", "failed", "commitFailed"}]
    /\ slot \in [Conn -> {"none", "constructing", "idle", "rested", "acquired", "destroying"}]
    /\ sess \in [Conn -> Session]

Init ==
    /\ pc = [c \in Call |-> "new"]
    /\ ctx = [c \in Call |-> "live"]
    /\ held = [c \in Call |-> NoConn]
    /\ rows = [c \in Call |-> "none"]
    /\ err = [c \in Call |-> "nil"]
    /\ slot = [k \in Conn |-> "none"]
    /\ sess = [k \in Conn |-> Fresh]

-----------------------------------------------------------------------------
(* What the server answers to each statement: the session afterwards and   *)
(* whether the driver returns an error.  Every answer ends in a            *)
(* ReadyForQuery, which makes the driver's status byte the server's.       *)

Ok(s)  == [ok |-> TRUE,  s |-> [s EXCEPT !.bit = s.tx]]
Err(s) == [ok |-> FALSE, s |-> [s EXCEPT !.bit = s.tx]]

Began(s, c)   == [s EXCEPT !.tx = "T", !.ro = FALSE, !.by = c]
Restricted(s) == [s EXCEPT !.ro = TRUE]
Ended(s)      == [s EXCEPT !.tx = "I", !.ro = FALSE, !.by = NoCall]
Aborted(s)    == [s EXCEPT !.tx = IF s.tx = "I" THEN "I" ELSE "E"]

(* An error inside a transaction aborts it; an aborted one refuses all but *)
(* ROLLBACK and COMMIT.                                                    *)
Accepts(s, t) == (IF s.tx = "E" THEN {} ELSE {Ok(t)})
                 \cup (IF s.tx = "E" \/ Faulty THEN {Err(Aborted(s))} ELSE {})

(* BEGIN inside a transaction is only a WARNING: nothing is begun.         *)
BeginReply(s, c) == IF s.tx = "T" THEN {Ok(s)} ELSE Accepts(s, Began(s, c))

(* A middle tier may acknowledge SET LOCAL without passing it on.          *)
SetLocalReply(s) ==
    (IF s.tx = "T" THEN Accepts(s, Restricted(s)) ELSE Accepts(s, s))
    \cup (IF Faulty THEN Accepts(s, s) ELSE {})

StatementReply(s) == Accepts(s, s)

(* COMMIT of a failed transaction rolls back and reports no error; one     *)
(* that fails may or may not leave the failed transaction open.            *)
CommitReply(s) == {Ok(Ended(s))} \cup (IF Faulty THEN {Err(Ended(s)), Err(Aborted(s))} ELSE {})

(* ROLLBACK is accepted in every state, unless it is itself cancelled.     *)
RollbackReply(s) == {Ok(Ended(s))} \cup (IF Faulty THEN {Err(Aborted(s))} ELSE {})

(* What the caller sees: a closed connection refuses, a lost one is closed *)
(* by the attempt to use it; a done context stops the statement before it  *)
(* is sent, leaving the connection alone, or while it is in flight, which  *)
(* closes the connection (asyncClose).                                     *)
Closed(s)  == [s EXCEPT !.link = "closed"]
NoReply(s) == [ok |-> FALSE, s |-> s]

Attempt(s, live, replies) ==
    IF s.link = "closed" THEN {NoReply(s)}
    ELSE IF ~live THEN {NoReply(s), NoReply(Closed(s))}
    ELSE IF s.link = "lost" THEN {NoReply(Closed(s))}
    ELSE replies

(* Reading rows: the statement is in flight already, so a done context     *)
(* always closes the connection; a value that cannot be decoded is an      *)
(* error that leaves the transaction open.                                 *)
Fetch(s, live) ==
    IF live /\ s.link = "up"
      THEN StatementReply(s) \cup (IF Faulty THEN {Err(s)} ELSE {})
      ELSE {NoReply(Closed(s))}

Sess(c) == sess[held[c]]

-----------------------------------------------------------------------------
(* Acquire: gaussdbxpool.Pool.Acquire over puddle, and AfterConnect.       *)

Start(c) ==
    /\ pc[c] = "new"
    /\ pc' = [pc EXCEPT ![c] = "acquire"]
    /\ UNCHANGED <<ctx, held, rows, err, slot, sess>>

(* The caller's context expires or is cancelled.                           *)
Expire(c) ==
    /\ Faulty
    /\ pc[c] \notin {"new", "done"}
    /\ ctx[c] = "live"
    /\ ctx' = [ctx EXCEPT ![c] = "done"]
    /\ UNCHANGED <<pc, held, rows, err, slot, sess>>

(* A bug: the context's own error is returned, not one of Acquire.         *)
GiveUpRaw(c) ==
    /\ pc' = [pc EXCEPT ![c] = "done"]
    /\ held' = [held EXCEPT ![c] = NoConn]
    /\ err' = [err EXCEPT ![c] = ctx[c]]

(* Acquire returns an error, which is what the call returns.               *)
GiveUp(c) ==
    /\ pc' = [pc EXCEPT ![c] = "done"]
    /\ held' = [held EXCEPT ![c] = NoConn]
    /\ err' = [err EXCEPT ![c] = "failed"]

(* Every turn of the Acquire loop first looks at the context.              *)
AcquireEntry(c) ==
    /\ pc[c] = "acquire"
    /\ IF ctx[c] = "done"
         THEN GiveUp(c)
         ELSE pc' = [pc EXCEPT ![c] = "wait"] /\ UNCHANGED <<held, err>>
    /\ UNCHANGED <<ctx, rows, slot, sess>>

(* An idle connection is taken as it is, or pinged first when its last use *)
(* was more than a second ago ("rested").                                  *)
InPool(k) == slot[k] \in {"idle", "rested"}

TakeIdle(c) ==
    /\ pc[c] = "wait"
    /\ \E k \in Conn :
          /\ InPool(k)
          /\ slot' = [slot EXCEPT ![k] = "acquired"]
          /\ held' = [held EXCEPT ![c] = k]
          /\ pc' = [pc EXCEPT ![c] = IF slot[k] = "rested" THEN "ping" ELSE "ensure"]
    /\ UNCHANGED <<ctx, rows, err, sess>>

(* No idle connection and room for one more: construction starts in a      *)
(* goroutine of its own.                                                   *)
StartConnect(c) ==
    /\ pc[c] = "wait"
    /\ \A k \in Conn : ~InPool(k)
    /\ \E k \in Conn :
          /\ slot[k] = "none"
          /\ slot' = [slot EXCEPT ![k] = "constructing"]
          /\ held' = [held EXCEPT ![c] = k]
    /\ pc' = [pc EXCEPT ![c] = "connect"]
    /\ UNCHANGED <<ctx, rows, err, sess>>

(* A bug: a caller is bound to the construction it started.                *)
AbandonOnlyQueue(c) ==
    /\ pc[c] = "wait"
    /\ ctx[c] = "done"
    /\ GiveUp(c)
    /\ UNCHANGED <<ctx, rows, slot, sess>>

(* A cancelled caller leaves at once, whether it waits for a slot or for a *)
(* connection under construction; the construction goes on without it.     *)
AbandonWait(c) ==
    /\ pc[c] \in {"wait", "connect"}
    /\ ctx[c] = "done"
    /\ GiveUp(c)
    /\ UNCHANGED <<ctx, rows, slot, sess>>

(* A server that reuses sessions may deliver one inside a transaction.     *)
Delivered == {Fresh} \cup {[Fresh EXCEPT !.bit = t, !.tx = t, !.by = Foreign] : t \in {"T", "E"}}

(* AfterConnect: clear what the status byte shows, then SET statement_timeout. *)
AfterConnect(s) ==
    LET Cleared == IF s.bit = "I" THEN {Ok(s)} ELSE RollbackReply(s)
    IN  UNION {IF o.ok THEN StatementReply(o.s) ELSE {o} : o \in Cleared}

(* A bug: a connection nobody waits for any more is not put back.          *)
ConnectedLeak(k) ==
    /\ slot[k] = "constructing"
    /\ sess' = [sess EXCEPT ![k] = Fresh]
    /\ slot' = [slot EXCEPT ![k] = "acquired"]
    /\ \/ \E c \in Call : held[c] = k /\ pc' = [pc EXCEPT ![c] = "ensure"]
       \/ (\A c \in Call : held[c] # k) /\ UNCHANGED pc
    /\ UNCHANGED <<ctx, held, rows, err>>

(* The constructor succeeds: the connection goes to the waiting caller, or *)
(* to the idle list when the caller is gone.                               *)
Connected(k) ==
    /\ slot[k] = "constructing"
    /\ \E s \in Delivered : \E o \in AfterConnect(s) :
          /\ o.ok
          /\ sess' = [sess EXCEPT ![k] = o.s]
    /\ \/ \E c \in Call : /\ held[c] = k
                          /\ slot' = [slot EXCEPT ![k] = "acquired"]
                          /\ \E next \in {"ping", "ensure"} : pc' = [pc EXCEPT ![c] = next]
       \/ /\ \A c \in Call : held[c] # k
          /\ slot' = [slot EXCEPT ![k] = "idle"]
          /\ UNCHANGED pc
    /\ UNCHANGED <<ctx, held, rows, err>>

(* The constructor fails (connect, ROLLBACK or SET): the slot is given     *)
(* back, and the caller, if it still waits, gets the error.                *)
ConnectFailed(k) ==
    /\ slot[k] = "constructing"
    /\ Faulty \/ \E s \in Delivered : \E o \in AfterConnect(s) : ~o.ok
    /\ slot' = [slot EXCEPT ![k] = "none"]
    /\ \/ \E c \in Call : held[c] = k /\ GiveUp(c)
       \/ (\A c \in Call : held[c] # k) /\ UNCHANGED <<pc, held, err>>
    /\ UNCHANGED <<ctx, rows, sess>>

(* A bug: Acquire starts over without destroying what did not answer.      *)
PingNoDestroy(c) ==
    /\ pc[c] = "ping"
    /\ \E alive \in BOOLEAN :
          /\ pc' = [pc EXCEPT ![c] = IF alive THEN "ensure" ELSE "acquire"]
          /\ held' = [held EXCEPT ![c] = IF alive THEN @ ELSE NoConn]
    /\ UNCHANGED <<ctx, rows, err, slot, sess>>

(* A connection that does not answer the ping is destroyed and Acquire     *)
(* starts over.                                                            *)
Ping(c) ==
    /\ pc[c] = "ping"
    /\ \E o \in Attempt(Sess(c), ctx[c] = "live", 
                        {Ok(Sess(c))} \cup (IF Faulty THEN {Err(Sess(c))} ELSE {})) :
          IF o.ok
            THEN /\ sess' = [sess EXCEPT ![held[c]] = o.s]
                 /\ pc' = [pc EXCEPT ![c] = "ensure"]
                 /\ UNCHANGED <<held, slot>>
            ELSE /\ slot' = [slot EXCEPT ![held[c]] = "destroying"]
                 /\ held' = [held EXCEPT ![c] = NoConn]
                 /\ pc' = [pc EXCEPT ![c] = "acquire"]
                 /\ UNCHANGED sess
    /\ UNCHANGED <<ctx, rows, err>>

-----------------------------------------------------------------------------
(* queryReadOnly, statement by statement.                                  *)

Returns(c, e) == err' = [err EXCEPT ![c] = e]

(* Run one statement under the caller's context; on an error go where the  *)
(* code goes, which for every target but "rollback" means returning it.    *)
Exec(c, replies, next, otherwise) ==
    /\ \E o \in Attempt(Sess(c), ctx[c] = "live", replies) :
          /\ sess' = [sess EXCEPT ![held[c]] = o.s]
          /\ pc' = [pc EXCEPT ![c] = IF o.ok THEN next ELSE otherwise]
          /\ IF o.ok \/ otherwise = "rollback" THEN UNCHANGED err ELSE Returns(c, "failed")
    /\ UNCHANGED <<ctx, held, rows, slot>>

(* ensureIdleTx: decided on the status byte alone.                         *)
EnsureIdleTx(c) ==
    /\ pc[c] = "ensure"
    /\ IF Sess(c).bit = "I"
         THEN /\ pc' = [pc EXCEPT ![c] = "begin"]
              /\ UNCHANGED <<ctx, held, rows, err, slot, sess>>
         ELSE Exec(c, RollbackReply(Sess(c)), "begin", "release")

Begin(c) ==
    /\ pc[c] = "begin"
    /\ Exec(c, BeginReply(Sess(c), c), "setro", "rollback")

(* BEGIN failed although the byte said idle: roll back, try once more.     *)
RollbackAndRetry(c) ==
    /\ pc[c] = "rollback"
    /\ Exec(c, RollbackReply(Sess(c)), "begin2", "release")

BeginAgain(c) ==
    /\ pc[c] = "begin2"
    /\ Exec(c, BeginReply(Sess(c), c), "setro", "release")

SetLocalReadOnly(c) ==
    /\ pc[c] = "setro"
    /\ Exec(c, SetLocalReply(Sess(c)), "verify", "cleanup")

(* A bug: the answer of SHOW is not looked at.                             *)
VerifyUnchecked(c) ==
    /\ pc[c] = "verify"
    /\ Exec(c, StatementReply(Sess(c)), "query", "cleanup")

(* verifyReadOnlyTx: SHOW transaction_read_only must answer "on".          *)
VerifyReadOnlyTx(c) ==
    /\ pc[c] = "verify"
    /\ \E o \in Attempt(Sess(c), ctx[c] = "live", StatementReply(Sess(c))) :
          /\ sess' = [sess EXCEPT ![held[c]] = o.s]
          /\ IF o.ok /\ o.s.ro
               THEN pc' = [pc EXCEPT ![c] = "query"] /\ UNCHANGED err
               ELSE pc' = [pc EXCEPT ![c] = "cleanup"] /\ Returns(c, "failed")
    /\ UNCHANGED <<ctx, held, rows, slot>>

(* The caller's SQL.                                                       *)
RunQuery(c) ==
    /\ pc[c] = "query"
    /\ \E o \in Attempt(Sess(c), ctx[c] = "live", StatementReply(Sess(c))) :
          /\ sess' = [sess EXCEPT ![held[c]] = o.s]
          /\ IF o.ok
               THEN /\ rows' = [rows EXCEPT ![c] = "open"]
                    /\ pc' = [pc EXCEPT ![c] = "rows"]
                    /\ UNCHANGED err
               ELSE /\ pc' = [pc EXCEPT ![c] = "cleanup"]
                    /\ Returns(c, "failed")
                    /\ UNCHANGED rows
    /\ UNCHANGED <<ctx, held, slot>>

(* A bug: a result that cannot be read is asked for again.                 *)
CollectRetry(c) ==
    /\ pc[c] = "rows"
    /\ \E o \in Fetch(Sess(c), ctx[c] = "live") :
          /\ sess' = [sess EXCEPT ![held[c]] = o.s]
          /\ rows' = [rows EXCEPT ![c] = IF o.ok THEN "full" ELSE @]
          /\ pc' = [pc EXCEPT ![c] = IF o.ok THEN "commit" ELSE "query"]
    /\ UNCHANGED <<ctx, held, err, slot>>

(* collectRows reads to the end, or stops at the row limit (Select only).  *)
CollectRows(c) ==
    /\ pc[c] = "rows"
    /\ \E o \in Fetch(Sess(c), ctx[c] = "live"),
          got \in IF c \in SelectCall THEN {"full", "cut"} ELSE {"full"} :
          /\ sess' = [sess EXCEPT ![held[c]] = o.s]
          /\ IF o.ok
               THEN /\ rows' = [rows EXCEPT ![c] = got]
                    /\ pc' = [pc EXCEPT ![c] = IF got = "full" THEN "commit" ELSE "drain"]
                    /\ UNCHANGED err
               ELSE /\ pc' = [pc EXCEPT ![c] = "cleanup"]
                    /\ Returns(c, "failed")
                    /\ UNCHANGED rows
    /\ UNCHANGED <<ctx, held, slot>>

(* A bug: rows.Err() is read before rows.Close() has found the error.      *)
DrainUnchecked(c) ==
    /\ pc[c] = "drain"
    /\ \E o \in Fetch(Sess(c), ctx[c] = "live") :
          sess' = [sess EXCEPT ![held[c]] = o.s]
    /\ pc' = [pc EXCEPT ![c] = "commit"]
    /\ UNCHANGED <<ctx, held, rows, err, slot>>

(* rows.Close() reads the rest of a result that was cut; an error there is *)
(* the query's.                                                            *)
DrainRows(c) ==
    /\ pc[c] = "drain"
    /\ \E o \in Fetch(Sess(c), ctx[c] = "live") :
          /\ sess' = [sess EXCEPT ![held[c]] = o.s]
          /\ IF o.ok
               THEN /\ rows' = [rows EXCEPT ![c] = "drained"]
                    /\ pc' = [pc EXCEPT ![c] = "commit"]
                    /\ UNCHANGED err
               ELSE /\ pc' = [pc EXCEPT ![c] = "cleanup"]
                    /\ Returns(c, "failed")
                    /\ UNCHANGED rows
    /\ UNCHANGED <<ctx, held, slot>>

(* A bug: a failed COMMIT is an error like any other.                      *)
CommitPlainError(c) ==
    /\ pc[c] = "commit"
    /\ Exec(c, CommitReply(Sess(c)), "release", "cleanup")

Commit(c) ==
    /\ pc[c] = "commit"
    /\ \E o \in Attempt(Sess(c), ctx[c] = "live", CommitReply(Sess(c))) :
          /\ sess' = [sess EXCEPT ![held[c]] = o.s]
          /\ IF o.ok
               THEN pc' = [pc EXCEPT ![c] = "release"] /\ UNCHANGED err
               ELSE pc' = [pc EXCEPT ![c] = "cleanup"] /\ Returns(c, "commitFailed")
    /\ UNCHANGED <<ctx, held, rows, slot>>

(* cleanupTx: ROLLBACK under a context of its own, which gives up after    *)
(* five seconds and closes the connection; the error is dropped.           *)
CleanupTx(c) ==
    /\ pc[c] = "cleanup"
    /\ \E o \in Attempt(Sess(c), TRUE, RollbackReply(Sess(c)) \cup {NoReply(Closed(Sess(c)))}) :
          sess' = [sess EXCEPT ![held[c]] = o.s]
    /\ pc' = [pc EXCEPT ![c] = "release"]
    /\ UNCHANGED <<ctx, held, rows, err, slot>>

(* A bug: only a closed connection is destroyed.                           *)
KeepsOpenConn(s) == s.link # "closed"

(* Conn.Release: a closed connection and one whose status byte is not 'I'  *)
(* are destroyed; so is one past its lifetime.                             *)
KeepsConn(s) == s.link # "closed" /\ s.bit = "I"

Release(c) ==
    /\ pc[c] = "release"
    /\ \E next \in {"idle", "destroying"} :
          /\ next = "idle" => KeepsConn(Sess(c))
          /\ slot' = [slot EXCEPT ![held[c]] = next]
    /\ held' = [held EXCEPT ![c] = NoConn]
    /\ pc' = [pc EXCEPT ![c] = "done"]
    /\ UNCHANGED <<ctx, rows, err, sess>>

-----------------------------------------------------------------------------
(* The pool's background work and the world outside.                       *)

(* An idle connection has not been used for more than a second.            *)
Rest(k) ==
    /\ slot[k] = "idle"
    /\ slot' = [slot EXCEPT ![k] = "rested"]
    /\ UNCHANGED <<callVars, sess>>

(* checkConnsHealth retires an idle connection.                            *)
HealthCheck(k) ==
    /\ InPool(k)
    /\ slot' = [slot EXCEPT ![k] = "destroying"]
    /\ UNCHANGED <<callVars, sess>>

(* The destructor has closed the connection; the slot is free.             *)
Destructed(k) ==
    /\ slot[k] = "destroying"
    /\ slot' = [slot EXCEPT ![k] = "none"]
    /\ sess' = [sess EXCEPT ![k] = Fresh]
    /\ UNCHANGED callVars

(* The connection breaks; the driver finds out when it next uses it.       *)
Lose(k) ==
    /\ Faulty
    /\ InPool(k) \/ slot[k] = "acquired"
    /\ sess[k].link = "up"
    /\ sess' = [sess EXCEPT ![k].link = "lost"]
    /\ UNCHANGED <<callVars, slot>>

(* A proxy swaps the session under an idle connection for one somebody     *)
(* else left in a transaction; the driver still believes 'I'.  A failed    *)
(* one may turn up at any time.  An open one is assumed to turn up only    *)
(* under a connection that will be pinged before its next use: before a    *)
(* ReadyForQuery shows it, the status byte queryReadOnly goes by is wrong. *)
HandOver(k) ==
    /\ sess[k].link = "up"
    /\ sess[k].bit = "I"
    /\ \E t \in HandOvers :
          /\ IF t = "T" THEN slot[k] = "rested" ELSE InPool(k)
          /\ sess' = [sess EXCEPT ![k] = [Fresh EXCEPT !.tx = t, !.by = Foreign]]
    /\ UNCHANGED <<callVars, slot>>

CallStep(c) ==
    \/ AcquireEntry(c) \/ TakeIdle(c) \/ StartConnect(c) \/ AbandonWait(c) \/ Ping(c)
    \/ EnsureIdleTx(c) \/ Begin(c) \/ RollbackAndRetry(c) \/ BeginAgain(c)
    \/ SetLocalReadOnly(c) \/ VerifyReadOnlyTx(c)
    \/ RunQuery(c) \/ CollectRows(c) \/ DrainRows(c) \/ Commit(c)
    \/ CleanupTx(c) \/ Release(c)

ConnStep(k) ==
    \/ Connected(k) \/ ConnectFailed(k) \/ Rest(k) \/ HealthCheck(k) \/ Destructed(k)
    \/ Lose(k) \/ HandOver(k)

(* Every call has returned: there is nothing left to do.                   *)
Finished == (\A c \in Call : pc[c] = "done") /\ UNCHANGED vars

Next ==
    \/ \E c \in Call : Start(c) \/ Expire(c) \/ CallStep(c)
    \/ \E k \in Conn : ConnStep(k)
    \/ Finished

Spec == Init /\ [][Next]_vars

-----------------------------------------------------------------------------
(* Fairness.  Nothing is assumed of the server, of the network or of a     *)
(* connection under construction: only that goroutines run, that timers    *)
(* fire (the contexts in Deadline, cleanupTx's five seconds, the           *)
(* destructor's fifteen), and that a call whose context is done gets an    *)
(* error from whatever it is blocked in.                                   *)
Unblocked(c) == ctx[c] = "done" \/ pc[c] \in {"acquire", "cleanup", "release"}

Fairness ==
    /\ \A c \in Deadline : WF_vars(Expire(c))
    /\ \A c \in Call : WF_vars(Unblocked(c) /\ CallStep(c))
    /\ \A k \in Conn : WF_vars(Destructed(k))

FairSpec == Spec /\ Fairness

-----------------------------------------------------------------------------
(* Properties.                                                             *)

(* Whatever statement of the caller is about to run or has rows pending,   *)
(* it is inside a transaction this very call began, and that transaction   *)
(* is read-only at the server, not only in the client's belief: neither a  *)
(* stripped SET LOCAL, nor a session somebody else left in a transaction,  *)
(* nor an aborted session reported as idle gets caller SQL outside it.     *)
OwnReadOnlyTx ==
    \A c \in Call :
        /\ pc[c] \in {"query", "rows", "drain", "commit"}
        /\ Sess(c).link = "up"
        => /\ Sess(c).tx = "T"
           /\ Sess(c).ro
           /\ Sess(c).by = c

(* A connection the pool would hand out next carries no transaction of an  *)
(* earlier call, whichever statement of that call failed or timed out, and *)
(* its status byte says idle, as the comment of ensureIdleTx claims of     *)
(* this pool: what ensureIdleTx finds is never this program's doing.       *)
IdleConnsClean ==
    \A k \in Conn : InPool(k) => sess[k].bit = "I" /\ sess[k].by \notin Call

(* What Select and Query return: Select forgives a failed COMMIT when it   *)
(* holds the rows, Query forgives nothing.                                 *)
Outcome(c) ==
    IF pc[c] # "done" THEN "none"
    ELSE IF err[c] = "nil" THEN "rows"
    ELSE IF err[c] = "commitFailed" /\ c \in SelectCall /\ rows[c] \in {"full", "drained"}
      THEN "warning"
    ELSE "error"

(* A session delivered, or swapped in, in the middle of somebody else's    *)
(* transaction costs no call its answer: with nothing else going wrong,    *)
(* every call returns its rows.                                            *)
DirtSurvived ==
    ~Faulty => \A c \in Call : pc[c] = "done" => Outcome(c) = "rows"

(* The pool's books: a call in possession of a connection is its only      *)
(* holder, and a connection out of the pool has a holder, so that none is  *)
(* leaked by any error path of Acquire or queryReadOnly.                   *)
Possession ==
    /\ \A c, d \in Call : held[c] # NoConn /\ held[c] = held[d] => c = d
    /\ \A k \in Conn : slot[k] = "acquired" <=> \E c \in Call : pc[c] \in Owns /\ held[c] = k

(* Rows are delivered only when the whole result was read, or cut at the   *)
(* row limit and the rest discarded without an error; a warning is only    *)
(* ever put on such rows.  A query that failed while its tail was being    *)
(* discarded is not passed off as a result.                                *)
DeliveredComplete ==
    \A c \in Call : Outcome(c) \in {"rows", "warning"} => rows[c] \in {"full", "drained"}

(* Issue #4: a Select that read its result without an error delivers it,   *)
(* however the COMMIT and the cleanup after it end.                        *)
CollectedNotLost ==
    \A c \in SelectCall : pc[c] = "done" /\ rows[c] \in {"full", "drained"} =>
        Outcome(c) \in {"rows", "warning"}

(* A call with a deadline returns, and gives back the connection it has,   *)
(* even if the server never answers again and calls without a deadline     *)
(* hang on every connection of the pool.                                   *)
DeadlineReturns == \A c \in Deadline : pc[c] = "acquire" ~> pc[c] = "done"

ConnComesBack ==
    \A k \in Conn : (\E c \in Deadline : pc[c] \in Owns /\ held[c] = k)
                        ~> InPool(k) \/ slot[k] = "none"

(* The implementation of QueryService: the SQL of a call runs from the     *)
(* moment the server accepts it until its last row is read or lost.        *)
Phase(c) == IF rows[c] = "none" THEN "pending"
            ELSE IF pc[c] \in {"rows", "drain"} THEN "running" ELSE "over"

Service == INSTANCE QueryService WITH
    phase  <- [c \in Call |-> Phase(c)],
    answer <- [c \in Call |-> Outcome(c)]

(* Every behaviour of the protocol is one QueryService allows: in          *)
(* particular no retry of Acquire or BEGIN runs the caller's SQL twice.    *)
ImplementsQueryService == Service!Spec

(* The pool below the calls: whether a call at place p has asked for a     *)
(* connection or holds one, and what becomes of a connection.              *)
CallAt(p) == IF p \in {"new", "done"} THEN "out"
             ELSE IF p \in Owns THEN "holding" ELSE "asking"
ConnAt(p, k) == IF p \in Owns THEN k ELSE NoConn
StateAt(v) == CASE v \in {"idle", "rested"} -> "free"
                [] v = "acquired" -> "lent"
                [] v = "destroying" -> "leaving"
                [] OTHER -> "none"

Pool == INSTANCE PoolSpec WITH
    Caller <- Call,
    call  <- [c \in Call |-> CallAt(pc[c])],
    conn  <- [c \in Call |-> ConnAt(pc[c], held[c])],
    state <- [k \in Conn |-> StateAt(slot[k])],
    phase <- "open"

(* The protocol uses a pool such as ConnPool provides: both implement      *)
(* PoolSpec, this one in fewer and larger steps.                           *)
UsesPool == Pool!Spec
=============================================================================
