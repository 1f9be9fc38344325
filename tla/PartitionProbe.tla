--------------------------- MODULE PartitionProbe ---------------------------
(***************************************************************************)
(* Instance.detectPartitionSupport (internal/db/meta.go): whether the      *)
(* server keeps partitions the openGauss way is asked once per instance    *)
(* and cached.  The question goes to the server outside the mutex; callers *)
(* that come while it is under way wait on a channel for the leader.       *)
(*                                                                         *)
(* A critical section is one action, for nothing in one blocks.  Closing   *)
(* the channel makes every waiting caller runnable ("woken"); each of them *)
(* still has to take the mutex, and other callers may come first.          *)
(***************************************************************************)
CONSTANT Caller      \* goroutines of list_tables and describe_table

VARIABLES
    supported,  \* the server has pg_class.parttype
    resolved,   \* partitionResolved
    mode,       \* partitionMode
    inFlight,   \* partitionProbeDone is set
    at,         \* where a caller is
    ctx,        \* its context
    answer,     \* what detectPartitionSupport last returned to it
    failed      \* whether the probe it made or waited for ended in an error

vars == <<supported, resolved, mode, inFlight, at, ctx, answer, failed>>

TypeOK ==
    /\ supported \in BOOLEAN
    /\ resolved \in BOOLEAN
    /\ mode \in BOOLEAN
    /\ inFlight \in BOOLEAN
    /\ at \in [Caller -> {"out", "probing", "waiting", "woken"}]
    /\ ctx \in [Caller -> {"live", "done"}]
    /\ answer \in [Caller -> {"none", "yes", "no"}]
    /\ failed \in [Caller -> BOOLEAN]

Init ==
    /\ supported \in BOOLEAN
    /\ resolved = FALSE
    /\ mode = FALSE
    /\ inFlight = FALSE
    /\ at = [c \in Caller |-> "out"]
    /\ ctx = [c \in Caller |-> "live"]
    /\ answer = [c \in Caller |-> "none"]
    /\ failed = [c \in Caller |-> FALSE]

Says(b) == IF b THEN "yes" ELSE "no"

(* The caller leaves with the cached mode, whatever that is by now.        *)
Leave(c, b) ==
    /\ at' = [at EXCEPT ![c] = "out"]
    /\ answer' = [answer EXCEPT ![c] = Says(b)]

(* A bug: a caller that finds the mode unresolved always asks.             *)
EnterAlwaysAsk(c) ==
    /\ at[c] = "out"
    /\ ~resolved
    /\ failed' = [failed EXCEPT ![c] = FALSE]
    /\ at' = [at EXCEPT ![c] = "probing"]
    /\ answer' = [answer EXCEPT ![c] = "none"]
    /\ inFlight' = TRUE
    /\ UNCHANGED <<supported, resolved, mode, ctx>>

(* First critical section: a resolved mode is returned; a probe under way  *)
(* is waited for; otherwise the caller becomes the leader.                 *)
Enter(c) ==
    /\ at[c] = "out"
    /\ failed' = [failed EXCEPT ![c] = FALSE]
    /\ \/ /\ resolved
          /\ Leave(c, mode)
          /\ UNCHANGED inFlight
       \/ /\ ~resolved /\ inFlight
          /\ at' = [at EXCEPT ![c] = "waiting"]
          /\ answer' = [answer EXCEPT ![c] = "none"]
          /\ UNCHANGED inFlight
       \/ /\ ~resolved /\ ~inFlight
          /\ at' = [at EXCEPT ![c] = "probing"]
          /\ answer' = [answer EXCEPT ![c] = "none"]
          /\ inFlight' = TRUE
    /\ UNCHANGED <<supported, resolved, mode, ctx>>

(* The caller's context expires or is cancelled, between two calls as well *)
(* (describe_table makes two); a later tool call has a new one.            *)
Expire(c) ==
    /\ ctx[c] = "live"
    /\ ctx' = [ctx EXCEPT ![c] = "done"]
    /\ UNCHANGED <<supported, resolved, mode, inFlight, at, answer, failed>>

Renew(c) ==
    /\ at[c] = "out"
    /\ ctx[c] = "done"
    /\ ctx' = [ctx EXCEPT ![c] = "live"]
    /\ answer' = [answer EXCEPT ![c] = "none"]
    /\ UNCHANGED <<supported, resolved, mode, inFlight, at, failed>>

(* Second critical section, of the leader: the probe is no longer under    *)
(* way and the waiting callers wake, whatever came of it.                  *)
Wake(c, err) ==
    /\ inFlight' = FALSE
    /\ at' = [d \in Caller |-> IF d = c THEN "out"
                               ELSE IF at[d] = "waiting" THEN "woken" ELSE at[d]]
    /\ failed' = [d \in Caller |-> IF d = c \/ at[d] = "waiting" THEN err ELSE failed[d]]

(* Inst.Query returned a count: cached for good.                           *)
Resolve(c) ==
    /\ at[c] = "probing"
    /\ Wake(c, FALSE)
    /\ mode' = (mode \/ supported)
    /\ resolved' = TRUE
    /\ answer' = [answer EXCEPT ![c] = Says(mode')]
    /\ UNCHANGED <<supported, ctx>>

(* A bug: an error settles the question.                                   *)
ProbeFailsCached(c) ==
    /\ at[c] = "probing"
    /\ Wake(c, TRUE)
    /\ resolved' = TRUE
    /\ answer' = [answer EXCEPT ![c] = "no"]
    /\ UNCHANGED <<supported, mode, ctx>>

(* A bug: on an error the leader returns before it closes the channel.     *)
ProbeFailsNoClose(c) ==
    /\ at[c] = "probing"
    /\ at' = [at EXCEPT ![c] = "out"]
    /\ answer' = [answer EXCEPT ![c] = "no"]
    /\ failed' = [failed EXCEPT ![c] = TRUE]
    /\ UNCHANGED <<supported, resolved, mode, inFlight, ctx>>

(* Inst.Query returned an error: nothing is cached, the leader says no.    *)
ProbeFails(c) ==
    /\ at[c] = "probing"
    /\ Wake(c, TRUE)
    /\ answer' = [answer EXCEPT ![c] = "no"]
    /\ UNCHANGED <<supported, resolved, mode, ctx>>

(* A bug: the mode returned is the one read before waiting.                *)
WokenStale(c) ==
    /\ at[c] = "woken"
    /\ Leave(c, FALSE)
    /\ UNCHANGED <<supported, resolved, mode, inFlight, ctx, failed>>

(* A woken caller takes the mutex and returns the mode, without a probe of *)
(* its own if the leader's failed.                                         *)
Woken(c) ==
    /\ at[c] = "woken"
    /\ Leave(c, mode)
    /\ UNCHANGED <<supported, resolved, mode, inFlight, ctx, failed>>

(* A waiting caller whose context is done stops waiting; when the channel  *)
(* is closed as well, select takes either branch.                          *)
StopWaiting(c) ==
    /\ at[c] \in {"waiting", "woken"}
    /\ ctx[c] = "done"
    /\ Leave(c, FALSE)
    /\ UNCHANGED <<supported, resolved, mode, inFlight, ctx, failed>>

Step(c) ==
    \/ Enter(c) \/ Expire(c) \/ Renew(c)
    \/ Resolve(c) \/ ProbeFails(c)
    \/ Woken(c) \/ StopWaiting(c)

Next == \E c \in Caller : Step(c)

Spec == Init /\ [][Next]_vars

(* A goroutine that can run does; the leader's query ends, with rows or an *)
(* error: it runs in ReadOnlyTx, under the server's statement_timeout.     *)
Fairness == \A c \in Caller : /\ WF_vars(Resolve(c) \/ ProbeFails(c))
                              /\ WF_vars(Woken(c) \/ StopWaiting(c))

FairSpec == Spec /\ Fairness

-----------------------------------------------------------------------------
(* Properties.                                                             *)

(* Concurrent callers cause one round trip: at most one probe is under     *)
(* way, and while one is there is a leader that will end it, so that       *)
(* nobody waits for a channel no one is going to close.                    *)
SingleFlight ==
    /\ \A c, d \in Caller : at[c] = "probing" /\ at[d] = "probing" => c = d
    /\ \A c \in Caller : at[c] = "waiting" => \E d \in Caller : at[d] = "probing"

(* What is cached is what the server has: an error, a cancelled leader or  *)
(* an interleaving of leaders never settles the question wrongly.          *)
CachedTruth == resolved => mode = supported

(* Once settled it stays settled.                                          *)
CachedForGood == [][resolved => resolved' /\ mode' = mode]_vars

(* "yes" is never said of a server that does not have the column (the      *)
(* statements built on it would fail there); "no" is only said wrongly to  *)
(* a caller whose context is done, or whose probe, its own or the one it   *)
(* waited for, ended in an error.  A caller that waited for a successful   *)
(* probe gets its result, not the mode before it.                          *)
AnswerExplained ==
    \A c \in Caller :
        /\ answer[c] = "yes" => supported
        /\ answer[c] = "no" /\ supported => ctx[c] = "done" \/ failed[c]

(* A caller that waits stops waiting.                                      *)
WaitEnds == \A c \in Caller : at[c] = "waiting" ~> at[c] = "out"
=============================================================================
