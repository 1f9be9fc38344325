------------------------------ MODULE PoolSpec ------------------------------
(***************************************************************************)
(* What a connection pool promises its callers and the one who closes it:  *)
(* a connection is lent to one caller at a time, a caller that asks is     *)
(* answered with a connection or refused, and when Close has returned no   *)
(* connection is open and none will be.                                    *)
(***************************************************************************)
CONSTANTS Caller, Conn, NoConn

VARIABLES
    call,     \* of a caller: "out", "asking", "holding"
    conn,     \* of a caller: the connection lent to it
    state,    \* of a connection: "none", "free", "lent", "leaving"
    phase     \* of the pool: "open", "closing", "closed"

vars == <<call, conn, state, phase>>

Init ==
    /\ call = [c \in Caller |-> "out"]
    /\ conn = [c \in Caller |-> NoConn]
    /\ state = [k \in Conn |-> "none"]
    /\ phase = "open"

Ask(c) ==
    /\ call[c] = "out"
    /\ call' = [call EXCEPT ![c] = "asking"]
    /\ UNCHANGED <<conn, state, phase>>

Refuse(c) ==
    /\ call[c] = "asking"
    /\ call' = [call EXCEPT ![c] = "out"]
    /\ UNCHANGED <<conn, state, phase>>

(* A connection is lent out of the pool or as soon as it is opened.        *)
Lend(c, k) ==
    /\ call[c] = "asking"
    /\ \/ state[k] = "free" /\ phase = "open"
       \/ state[k] = "none" /\ phase # "closed"
    /\ call' = [call EXCEPT ![c] = "holding"]
    /\ conn' = [conn EXCEPT ![c] = k]
    /\ state' = [state EXCEPT ![k] = "lent"]
    /\ UNCHANGED phase

(* A connection comes back; a caller that found it dead asks again.        *)
Return(c) ==
    /\ call[c] = "holding"
    /\ \/ /\ call' = [call EXCEPT ![c] = "out"]
          /\ phase = "open"
          /\ state' = [state EXCEPT ![conn[c]] = "free"]
       \/ /\ \E to \in {"out", "asking"} : call' = [call EXCEPT ![c] = to]
          /\ state' = [state EXCEPT ![conn[c]] = "leaving"]
    /\ conn' = [conn EXCEPT ![c] = NoConn]
    /\ UNCHANGED phase

(* A connection opened for a caller that has gone goes to the pool.        *)
Appear(k) ==
    /\ state[k] = "none"
    /\ \/ phase = "open" /\ state' = [state EXCEPT ![k] = "free"]
       \/ phase = "closing" /\ state' = [state EXCEPT ![k] = "leaving"]
    /\ UNCHANGED <<call, conn, phase>>

Retire(k) ==
    /\ state[k] = "free"
    /\ state' = [state EXCEPT ![k] = "leaving"]
    /\ UNCHANGED <<call, conn, phase>>

Gone(k) ==
    /\ state[k] = "leaving"
    /\ state' = [state EXCEPT ![k] = "none"]
    /\ UNCHANGED <<call, conn, phase>>

(* Close takes what is in the pool; the health check may have some of it.  *)
Close ==
    /\ phase = "open"
    /\ phase' = "closing"
    /\ \E K \in SUBSET {k \in Conn : state[k] = "free"} :
          state' = [k \in Conn |-> IF k \in K THEN "leaving" ELSE state[k]]
    /\ UNCHANGED <<call, conn>>

CloseReturns ==
    /\ phase = "closing"
    /\ \A k \in Conn : state[k] = "none"
    /\ phase' = "closed"
    /\ UNCHANGED <<call, conn, state>>

Next ==
    \/ \E c \in Caller : Ask(c) \/ Refuse(c) \/ Return(c) \/ \E k \in Conn : Lend(c, k)
    \/ \E k \in Conn : Appear(k) \/ Retire(k) \/ Gone(k)
    \/ Close \/ CloseReturns

Spec == Init /\ [][Next]_vars
=============================================================================
