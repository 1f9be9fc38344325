---------------------------- MODULE QueryService ----------------------------
(***************************************************************************)
(* What Instance.Select and Instance.Query promise to a tool handler,      *)
(* whatever happens to the network, the server, the pool or the caller's   *)
(* context: the caller's SQL is run at most once, by no retry a second     *)
(* time; a result is only delivered for SQL that was run and read to its   *)
(* end; and a call is answered once, when it no longer runs anything.      *)
(* ReadOnlyTx, the protocol of internal/db/manager.go, implements this.    *)
(***************************************************************************)
CONSTANT Call        \* the calls of Select and Query

VARIABLES phase,     \* the SQL of a call is "pending", "running" or "over"
          answer     \* what the call returned to its handler, or "none"

vars == <<phase, answer>>

Init == /\ phase = [c \in Call |-> "pending"]
        /\ answer = [c \in Call |-> "none"]

Run(c) == /\ phase[c] = "pending"
          /\ answer[c] = "none"
          /\ phase' = [phase EXCEPT ![c] = "running"]
          /\ UNCHANGED answer

End(c) == /\ phase[c] = "running"
          /\ phase' = [phase EXCEPT ![c] = "over"]
          /\ UNCHANGED answer

Refuse(c) == /\ phase[c] # "running"
             /\ answer[c] = "none"
             /\ answer' = [answer EXCEPT ![c] = "error"]
             /\ UNCHANGED phase

Deliver(c) == /\ phase[c] = "over"
              /\ answer[c] = "none"
              /\ \E a \in {"rows", "warning"} : answer' = [answer EXCEPT ![c] = a]
              /\ UNCHANGED phase

Next == \E c \in Call : Run(c) \/ End(c) \/ Refuse(c) \/ Deliver(c)

Spec == Init /\ [][Next]_vars
=============================================================================
