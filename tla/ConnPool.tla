------------------------------ MODULE ConnPool ------------------------------
(***************************************************************************)
(* The connection pool under the program: gaussdbxpool.Pool over           *)
(* puddle.Pool, whose mutex guards the list of resources and whose         *)
(* semaphore of MaxSize tokens says who may look into it.                  *)
(*                                                                         *)
(* A section under the mutex is one action, except AcquireAllIdle, which   *)
(* takes tokens several times while it holds the mutex: the semaphore has  *)
(* a lock of its own, and others use it meanwhile.                         *)
(***************************************************************************)
EXTENDS Integers, Sequences, FiniteSets, SequencesExt

CONSTANTS Caller, Conn, NoConn

ASSUME PoolAssumption ==
    /\ NoConn \notin Conn
    /\ IsFiniteSet(Conn)
    /\ Conn # {}

VARIABLES
    pc,        \* of a call: where it is in Pool.Acquire, or "out", "holding"
    ctx,       \* of a call: its context, "live" or "done"
    conn,      \* of a call: the resource it waits for or holds
    free,      \* tokens of acquireSem nobody has
    queue,     \* calls waiting for a token, in order
    state,     \* of a resource: its status and what runs for it
    wg,        \* the counter of destructWG
    phase,     \* of Close: "open", "closing" (waiting for destructWG), "closed"
    hc,        \* the health check inside AcquireAllIdle, which has the mutex
    checked    \* the resources it has taken

callVars == <<pc, ctx, conn>>
semVars == <<free, queue>>
poolVars == <<state, wg, phase>>
hcVars == <<hc, checked>>
vars == <<callVars, semVars, poolVars, hcVars>>

MaxSize == Cardinality(Conn)

(* Away from AcquireAllIdle.                                               *)
Away == [at |-> "away", num |-> 0, bit |-> 0, got |-> 0]

Init ==
    /\ pc = [c \in Caller |-> "out"]
    /\ ctx = [c \in Caller |-> "live"]
    /\ conn = [c \in Caller |-> NoConn]
    /\ free = MaxSize
    /\ queue = <<>>
    /\ state = [k \in Conn |-> "none"]
    /\ wg = 0
    /\ phase = "open"
    /\ hc = Away
    /\ checked = {}

Idle == {k \in Conn : state[k] = "idle"}

(* A resource is in allResources until its goroutine takes it out: one     *)
(* that is destroyed stays after its destructor, one released to a closed  *)
(* pool leaves before.                                                     *)
AllResources == {k \in Conn : state[k] \notin {"none", "dying"}}

MutexFree == hc.at = "away"

-----------------------------------------------------------------------------
(* The semaphore.  p is where the calls are apart from who gets the token. *)

TryAcquire(n) == free >= n /\ queue = <<>>

Released(p) ==
    IF queue = <<>>
      THEN free' = free + 1 /\ queue' = queue /\ pc' = p
      ELSE free' = free /\ queue' = Tail(queue) /\ pc' = [p EXCEPT ![Head(queue)] = "granted"]

(* A bug: the tokens of a cancelled waiter are not put back.               *)
PutBackLost(c) ==
    /\ pc[c] = "granted" /\ ctx[c] = "done"
    /\ pc' = [pc EXCEPT ![c] = "out"]
    /\ UNCHANGED <<ctx, conn, semVars, poolVars, hcVars>>

(* A waiter whose context is done when it has just been given its token    *)
(* puts it back, without the mutex of the pool.                            *)
PutBack(c) ==
    /\ pc[c] = "granted" /\ ctx[c] = "done"
    /\ Released([pc EXCEPT ![c] = "out"])
    /\ UNCHANGED <<ctx, conn, poolVars, hcVars>>

Wake(c) ==
    /\ pc[c] = "granted" /\ ctx[c] = "live"
    /\ pc' = [pc EXCEPT ![c] = "token"]
    /\ UNCHANGED <<ctx, conn, semVars, poolVars, hcVars>>

TakeToken(c) ==
    /\ pc[c] = "asking" /\ TryAcquire(1)
    /\ free' = free - 1
    /\ pc' = [pc EXCEPT ![c] = "token"]
    /\ UNCHANGED <<ctx, conn, queue, poolVars, hcVars>>

Enqueue(c) ==
    /\ pc[c] = "asking" /\ ctx[c] = "live" /\ ~TryAcquire(1)
    /\ queue' = Append(queue, c)
    /\ pc' = [pc EXCEPT ![c] = "queued"]
    /\ UNCHANGED <<ctx, conn, free, poolVars, hcVars>>

(* The context is done before the call has a token or a place in the queue, *)
(* or while it has its place.                                              *)
GiveUp(c) ==
    /\ pc[c] \in {"asking", "queued"} /\ ctx[c] = "done"
    /\ \/ pc[c] = "asking" /\ UNCHANGED queue
       \/ \E j \in DOMAIN queue : queue[j] = c /\ queue' = RemoveAt(queue, j)
    /\ pc' = [pc EXCEPT ![c] = "out"]
    /\ UNCHANGED <<ctx, conn, free, poolVars, hcVars>>

-----------------------------------------------------------------------------
(* A call.                                                                 *)

Ask(c) ==
    /\ pc[c] = "out"
    /\ pc' = [pc EXCEPT ![c] = "asking"]
    /\ ctx' = [ctx EXCEPT ![c] = "live"]
    /\ UNCHANGED <<conn, semVars, poolVars, hcVars>>

Expire(c) ==
    /\ pc[c] # "out" /\ ctx[c] = "live"
    /\ ctx' = [ctx EXCEPT ![c] = "done"]
    /\ UNCHANGED <<pc, conn, semVars, poolVars, hcVars>>

Enter(c) == pc[c] = "token" /\ MutexFree

(* A bug: the token of a call that finds the pool closed is kept.          *)
FindClosedKeeps(c) ==
    /\ Enter(c) /\ phase # "open"
    /\ pc' = [pc EXCEPT ![c] = "out"]
    /\ UNCHANGED <<ctx, conn, semVars, poolVars, hcVars>>

FindClosed(c) ==
    /\ Enter(c) /\ phase # "open"
    /\ Released([pc EXCEPT ![c] = "out"])
    /\ UNCHANGED <<ctx, conn, poolVars, hcVars>>

(* Which idle resource comes first does not matter here.                   *)
TakeIdle(c) ==
    /\ Enter(c) /\ phase = "open"
    /\ \E k \in Idle :
          /\ state' = [state EXCEPT ![k] = "acquired"]
          /\ conn' = [conn EXCEPT ![c] = k]
    /\ pc' = [pc EXCEPT ![c] = "holding"]
    /\ UNCHANGED <<ctx, semVars, wg, phase, hcVars>>

(* A bug: whether the pool is closed is not looked at before a resource is *)
(* made.                                                                   *)
CreateUnchecked(c) ==
    /\ Enter(c) /\ Idle = {}
    /\ \E k \in {k \in Conn : state[k] = "none"} :
          /\ state' = [state EXCEPT ![k] = "constructing"]
          /\ conn' = [conn EXCEPT ![c] = k]
    /\ wg' = wg + 1
    /\ pc' = [pc EXCEPT ![c] = "waiting"]
    /\ UNCHANGED <<ctx, semVars, phase, hcVars>>

(* The resource is made by a goroutine of its own; TokensAccounted implies *)
(* that there is room for it.                                              *)
Create(c) ==
    /\ Enter(c) /\ phase = "open" /\ Idle = {}
    /\ \E k \in {k \in Conn : state[k] = "none"} :
          /\ state' = [state EXCEPT ![k] = "constructing"]
          /\ conn' = [conn EXCEPT ![c] = k]
    /\ wg' = wg + 1
    /\ pc' = [pc EXCEPT ![c] = "waiting"]
    /\ UNCHANGED <<ctx, semVars, phase, hcVars>>

(* The context is done, or the error of the constructor is received: the   *)
(* goroutine that made the resource no longer has this call to serve.      *)
StopWaiting(c) ==
    /\ pc[c] = "waiting"
    /\ ctx[c] = "done" \/ conn[c] = NoConn
    /\ pc' = [pc EXCEPT ![c] = "out"]
    /\ conn' = [conn EXCEPT ![c] = NoConn]
    /\ UNCHANGED <<ctx, semVars, poolVars, hcVars>>

(* releaseAcquiredResource.                                                *)
PutInPool(k, p) ==
    /\ MutexFree
    /\ state' = [state EXCEPT ![k] = IF phase = "open" THEN "idle" ELSE "dying"]
    /\ Released(p)

(* Conn.Release of a connection fit to be used again.                      *)
Return(c) ==
    /\ pc[c] = "holding"
    /\ PutInPool(conn[c], [pc EXCEPT ![c] = "out"])
    /\ conn' = [conn EXCEPT ![c] = NoConn]
    /\ UNCHANGED <<ctx, wg, phase, hcVars>>

(* Conn.Release of one that is not, or a ping that failed, after which     *)
(* Pool.Acquire starts again.                                              *)
Destroy(c) ==
    /\ pc[c] = "holding"
    /\ \E next \in {"out", "asking"} : pc' = [pc EXCEPT ![c] = next]
    /\ state' = [state EXCEPT ![conn[c]] = "destroying"]
    /\ conn' = [conn EXCEPT ![c] = NoConn]
    /\ UNCHANGED <<ctx, semVars, wg, phase, hcVars>>

-----------------------------------------------------------------------------
(* The goroutines of a resource.                                           *)

WaitingFor(k) == {c \in Caller : pc[c] = "waiting" /\ conn[c] = k}
Forgotten(k) == [c \in Caller |-> IF c \in WaitingFor(k) THEN NoConn ELSE conn[c]]

Constructed(k) ==
    /\ state[k] = "constructing" /\ MutexFree
    /\ state' = [state EXCEPT ![k] = "built"]
    /\ UNCHANGED <<callVars, semVars, wg, phase, hcVars>>

ConstructionFailed(k) ==
    /\ state[k] = "constructing" /\ MutexFree
    /\ state' = [state EXCEPT ![k] = "none"]
    /\ wg' = wg - 1
    /\ Released(pc)
    /\ conn' = Forgotten(k)
    /\ UNCHANGED <<ctx, phase, hcVars>>

(* The channel is unbuffered: the call is there to receive or it is not.   *)
HandOver(k) ==
    /\ state[k] = "built"
    /\ \E c \in WaitingFor(k) :
          pc' = [pc EXCEPT ![c] = "holding"]
    /\ state' = [state EXCEPT ![k] = "acquired"]
    /\ UNCHANGED <<ctx, conn, semVars, wg, phase, hcVars>>

(* A bug: a resource nobody waits for is left alone.                       *)
NotWantedKept(k) ==
    /\ state[k] = "built"
    /\ \E c \in WaitingFor(k) : ctx[c] = "done"
    /\ PutInPool(k, pc)
    /\ conn' = Forgotten(k)
    /\ UNCHANGED <<ctx, wg, phase, hcVars>>

(* The context of the call is done; the call may not have noticed yet.     *)
NotWanted(k) ==
    /\ state[k] = "built"
    /\ \A c \in WaitingFor(k) : ctx[c] = "done"
    /\ PutInPool(k, pc)
    /\ conn' = Forgotten(k)
    /\ UNCHANGED <<ctx, wg, phase, hcVars>>

(* destructResourceValue.                                                  *)
Destructed(k) ==
    /\ state[k] \in {"destroying", "dying"}
    /\ state' = [state EXCEPT ![k] = IF @ = "dying" THEN "none" ELSE "destroyed"]
    /\ wg' = wg - 1
    /\ UNCHANGED <<callVars, semVars, phase, hcVars>>

(* The rest of destroyAcquiredResource.                                    *)
Removed(k) ==
    /\ state[k] = "destroyed" /\ MutexFree
    /\ state' = [state EXCEPT ![k] = "none"]
    /\ Released(pc)
    /\ UNCHANGED <<ctx, conn, wg, phase, hcVars>>

-----------------------------------------------------------------------------
(* The health check: AcquireAllIdle, then each resource on its own.        *)

(* 1 << log2Int(n): the bits of n are tried from this one down.            *)
HighestBit(n) == Max(1 .. n \cap {2 ^ b : b \in 0 .. n})

StartCheck ==
    /\ hc.at = "away" /\ checked = {} /\ phase = "open" /\ Idle # {}
    /\ hc' = [Away EXCEPT !.at = "all", !.num = Cardinality(Idle)]
    /\ UNCHANGED <<callVars, semVars, poolVars, checked>>

AcquireAll ==
    /\ hc.at = "all"
    /\ IF TryAcquire(hc.num)
         THEN /\ hc' = [hc EXCEPT !.at = "pop", !.got = hc.num]
              /\ free' = free - hc.num
         ELSE /\ hc' = [hc EXCEPT !.at = "bits", !.bit = HighestBit(hc.num)]
              /\ UNCHANGED free
    /\ UNCHANGED <<callVars, queue, poolVars, checked>>

AcquireBit ==
    /\ hc.at = "bits"
    /\ LET val == IF TryAcquire(hc.bit) THEN hc.bit ELSE 0
       IN  /\ free' = free - val
           /\ hc' = [hc EXCEPT !.at = IF hc.bit = 1 THEN "pop" ELSE "bits",
                               !.bit = @ \div 2,
                               !.got = @ + val]
    /\ UNCHANGED <<callVars, queue, poolVars, checked>>

(* As many resources as tokens.                                            *)
PopIdle ==
    /\ hc.at = "pop"
    /\ \E K \in SUBSET Idle :
          /\ Cardinality(K) = hc.got
          /\ state' = [k \in Conn |-> IF k \in K THEN "acquired" ELSE state[k]]
          /\ checked' = K
    /\ hc' = Away
    /\ UNCHANGED <<callVars, semVars, wg, phase>>

(* With more tokens than idle resources, the pop of one too many is a nil  *)
(* pointer: the process ends, and nothing is said of what it does then.    *)
Panic ==
    /\ hc.at = "pop" /\ hc.got > Cardinality(Idle)
    /\ UNCHANGED vars

(* A resource is too old or was idle for too long, or goes back.           *)
CheckDestroys(k) ==
    /\ k \in checked
    /\ state' = [state EXCEPT ![k] = "destroying"]
    /\ checked' = checked \ {k}
    /\ UNCHANGED <<callVars, semVars, wg, phase, hc>>

CheckReturns(k) ==
    /\ k \in checked
    /\ PutInPool(k, pc)
    /\ checked' = checked \ {k}
    /\ UNCHANGED <<ctx, conn, wg, phase, hc>>

-----------------------------------------------------------------------------
(* Close.                                                                  *)

Close ==
    /\ phase = "open" /\ MutexFree
    /\ phase' = "closing"
    /\ state' = [k \in Conn |-> IF k \in Idle THEN "dying" ELSE state[k]]
    /\ UNCHANGED <<callVars, semVars, wg, hcVars>>

CloseReturns ==
    /\ phase = "closing" /\ wg = 0
    /\ phase' = "closed"
    /\ UNCHANGED <<callVars, semVars, state, wg, hcVars>>

-----------------------------------------------------------------------------
CallStep(c) ==
    \/ TakeToken(c) \/ Enqueue(c) \/ GiveUp(c) \/ PutBack(c) \/ Wake(c)
    \/ FindClosed(c) \/ TakeIdle(c) \/ Create(c) \/ StopWaiting(c)
    \/ Return(c) \/ Destroy(c)

ConnStep(k) ==
    \/ Constructed(k) \/ ConstructionFailed(k) \/ HandOver(k) \/ NotWanted(k)
    \/ Destructed(k) \/ Removed(k)

CheckStep ==
    \/ AcquireAll \/ AcquireBit \/ PopIdle
    \/ \E k \in Conn : CheckDestroys(k) \/ CheckReturns(k)

Next ==
    \/ \E c \in Caller : Ask(c) \/ Expire(c) \/ CallStep(c)
    \/ \E k \in Conn : ConnStep(k)
    \/ StartCheck \/ CheckStep \/ Panic
    \/ Close \/ CloseReturns

Spec == Init /\ [][Next]_vars

(* Every goroutine goes on, and one that wants the mutex gets it in the    *)
(* end, though the health check may take it again and again; destructors   *)
(* have a timeout.  A call gives back what it holds once its context is    *)
(* done, however silent the server is (ReadOnlyTx!ConnComesBack), but need *)
(* not before.  A constructor ends once Close has cancelled the pool's     *)
(* base context: until then AfterConnect has no deadline.                  *)
Fairness ==
    /\ \A c \in Caller : SF_vars(CallStep(c) /\ (pc[c] = "holding" => ctx[c] = "done"))
    /\ \A k \in Conn : SF_vars(ConnStep(k) /\ (state[k] = "constructing" => phase # "open"))
    /\ WF_vars(CheckStep)
    /\ WF_vars(CloseReturns)

FairSpec == Spec /\ Fairness

-----------------------------------------------------------------------------
(* Properties.                                                             *)

TypeOK ==
    /\ pc \in [Caller -> {"out", "asking", "queued", "granted", "token", "waiting", "holding"}]
    /\ ctx \in [Caller -> {"live", "done"}]
    /\ conn \in [Caller -> Conn \cup {NoConn}]
    /\ free \in 0 .. MaxSize
    /\ queue \in Seq(Caller)
    /\ state \in [Conn -> {"none", "constructing", "built", "idle", "acquired",
                           "destroying", "destroyed", "dying"}]
    /\ wg \in 0 .. MaxSize
    /\ phase \in {"open", "closing", "closed"}
    /\ hc \in [at : {"away", "all", "bits", "pop"}, num : 0 .. MaxSize,
               bit : 0 .. MaxSize, got : 0 .. MaxSize]
    /\ checked \subseteq Conn

(* Every token is free, with a call that has not yet looked into the pool, *)
(* with the health check, or with a resource that is not idle: the         *)
(* releases of acquireSem, spread over the error paths, are one for each   *)
(* acquire.  A call that has a token and finds nothing idle therefore has  *)
(* room for a new resource, and the first of the two places where puddle   *)
(* would panic is out of reach.                                            *)
TokensAccounted ==
    free + Cardinality({c \in Caller : pc[c] \in {"granted", "token"}}) + hc.got
         + Cardinality({k \in AllResources : state[k] # "idle"}) = MaxSize

(* The comment in AcquireAllIdle (puddle, pool.go:581-584): no release runs *)
(* while the mutex is locked, so the tokens it acquires are always less    *)
(* or equal to the number of idle resources.                               *)
AcquiredAtMostIdle == hc.at = "pop" => hc.got <= Cardinality(Idle)

(* What a server that does not answer can hold on to: a resource whose     *)
(* constructor waits for it in AfterConnect, also when the call that       *)
(* wanted it is gone, and one lent to a call whose context is not done.    *)
Silent(k) ==
    \/ state[k] = "constructing" /\ phase = "open"
    \/ \E c \in Caller : pc[c] = "holding" /\ conn[c] = k /\ ctx[c] = "live"

(* A call waits for a token for ever only if its own context is never done *)
(* and the server holds on to every resource of the pool for ever: no      *)
(* token is lost or stays where nobody waits for the server, no waiter is  *)
(* passed over, also when the pool is closed under it (Close wakes nobody, *)
(* it is the releases that do).                                            *)
QueueMoves ==
    \A c \in Caller :
        <>[](pc[c] = "queued") => <>[](ctx[c] = "live" /\ \A k \in Conn : Silent(k))

(* Close does not return only if some call holds on to its connection for  *)
(* ever, its context never done: resources under construction, abandoned,  *)
(* or with the health check do not hold it up.                             *)
CloseEnds ==
    <>[](phase = "closing") => \E c \in Caller : <>[](pc[c] = "holding" /\ ctx[c] = "live")

(* The pool implements PoolSpec: no connection has two holders, and when   *)
(* Close has returned nothing is open and nothing will be.                 *)
Asked(c) == CASE pc[c] = "out" -> "out" [] pc[c] = "holding" -> "holding" [] OTHER -> "asking"
Lent(c) == IF pc[c] = "holding" THEN conn[c] ELSE NoConn
Seen(k) ==
    CASE state[k] \in {"none", "constructing", "built", "destroyed"} -> "none"
      [] state[k] = "idle" \/ k \in checked -> "free"
      [] state[k] = "acquired" /\ k \notin checked -> "lent"
      [] OTHER -> "leaving"

Abstract == INSTANCE PoolSpec WITH
    call <- [c \in Caller |-> Asked(c)],
    conn <- [c \in Caller |-> Lent(c)],
    state <- [k \in Conn |-> Seen(k)]

ImplementsPool == Abstract!Spec
=============================================================================
