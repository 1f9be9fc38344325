-------------------------- MODULE ConnPool_proofs --------------------------
(***************************************************************************)
(* Proofs about the connection pool: its types, that every token of its    *)
(* semaphore is accounted for, that the first of puddle's panics is out of *)
(* reach, that a waiter is never lost, and that it implements PoolSpec.    *)
(***************************************************************************)
EXTENDS ConnPool, FiniteSetTheorems, WellFoundedInduction, TLAPS

Places == {"out", "asking", "queued", "granted", "token", "waiting", "holding"}
Status == {"none", "constructing", "built", "idle", "acquired", "destroying", "destroyed", "dying"}

(* Who has a token: a call that has not yet looked into the pool, and a    *)
(* resource that is neither idle nor out of allResources.                  *)
WithToken == {"granted", "token"}
Taken     == Status \ {"none", "dying", "idle"}

(* What destructWG counts: a resource until its destructor has run.        *)
Counted == Status \ {"none", "destroyed"}

(* The arguments that f maps into V.                                       *)
Where(f, V) == {x \in DOMAIN f : f[x] \in V}

(* A number that depends on how many arguments are mapped into V goes from *)
(* n to m when one argument that was mapped to u is mapped to v.           *)
Follows(n, m, u, v, V) ==
    /\ (u \in V <=> v \in V) => m = n
    /\ u \notin V /\ v \in V => m = n + 1
    /\ u \in V /\ v \notin V => n = m + 1

-----------------------------------------------------------------------------
(* Counting.                                                               *)

LEMMA OneMore ==
    \A S, x : IsFiniteSet(S) /\ x \notin S =>
        IsFiniteSet(S \cup {x}) /\ Cardinality(S \cup {x}) = Cardinality(S) + 1
BY FS_AddElement

LEMMA OneLess ==
    \A S, x : IsFiniteSet(S) =>
        /\ IsFiniteSet(S \ {x}) /\ Cardinality(S \ {x}) \in Nat
        /\ Cardinality(S) = IF x \in S THEN Cardinality(S \ {x}) + 1 ELSE Cardinality(S \ {x})
<1> SUFFICES ASSUME NEW S, NEW x, IsFiniteSet(S)
             PROVE  /\ IsFiniteSet(S \ {x}) /\ Cardinality(S \ {x}) \in Nat
                    /\ Cardinality(S) = IF x \in S THEN Cardinality(S \ {x}) + 1 ELSE Cardinality(S \ {x})
  OBVIOUS
<1>1. IsFiniteSet(S \ {x}) /\ Cardinality(S \ {x}) \in Nat
  BY FS_RemoveElement, FS_CardinalityType
<1>2. Cardinality(S \ {x}) = IF x \in S THEN Cardinality(S) - 1 ELSE Cardinality(S)
  BY FS_RemoveElement
<1>3. Cardinality(S) \in Nat
  BY FS_CardinalityType
<1>4. QED
  BY <1>1, <1>2, <1>3

LEMMA CountMove ==
    ASSUME NEW f, NEW V, NEW d \in DOMAIN f, NEW v, IsFiniteSet(Where(f, V)),
           NEW g, DOMAIN g = DOMAIN f, g[d] = v, \A x \in DOMAIN f \ {d} : g[x] = f[x]
    PROVE  /\ IsFiniteSet(Where(g, V))
           /\ Cardinality(Where(f, V)) \in Nat /\ Cardinality(Where(g, V)) \in Nat
           /\ Follows(Cardinality(Where(f, V)), Cardinality(Where(g, V)), f[d], v, V)
<1> DEFINE others == Where(f, V) \ {d}
<1>1. d \in Where(f, V) <=> f[d] \in V
  BY DEF Where
<1>2. Where(g, V) = IF v \in V THEN others \cup {d} ELSE others
  BY DEF Where
<1>3. d \notin others
  OBVIOUS
<1>4. /\ IsFiniteSet(others) /\ Cardinality(others) \in Nat
      /\ Cardinality(Where(f, V)) = IF f[d] \in V THEN Cardinality(others) + 1 ELSE Cardinality(others)
  BY <1>1, OneLess
<1> HIDE DEF others
<1>5. /\ IsFiniteSet(Where(g, V))
      /\ Cardinality(Where(g, V)) = IF v \in V THEN Cardinality(others) + 1 ELSE Cardinality(others)
  BY <1>2, <1>3, <1>4, OneMore
<1>6. QED
  BY <1>4, <1>5 DEF Follows

LEMMA FollowsOnce ==
    \A n, u, v, V : \A m, l \in Nat : Follows(n, m, u, v, V) /\ Follows(n, l, u, v, V) => m = l
BY DEF Follows

LEMMA CountConn ==
    ASSUME NEW f \in [Conn -> Status], NEW V
    PROVE  /\ IsFiniteSet(Where(f, V)) /\ Cardinality(Where(f, V)) \in Nat
           /\ Cardinality(Where(f, V)) <= MaxSize /\ MaxSize \in Nat
           /\ Cardinality(Where(f, V)) = MaxSize => \A k \in Conn : f[k] \in V
           /\ Cardinality(Where(f, V)) = 0 <=> \A k \in Conn : f[k] \notin V
<1>1. Where(f, V) \in SUBSET Conn /\ IsFiniteSet(Conn)
  BY PoolAssumption DEF Where
<1>2. /\ IsFiniteSet(Where(f, V)) /\ Cardinality(Where(f, V)) \in Nat
      /\ Cardinality(Where(f, V)) <= MaxSize /\ MaxSize \in Nat
      /\ Cardinality(Where(f, V)) = MaxSize => Where(f, V) = Conn
  BY <1>1, FS_Subset, FS_CardinalityType DEF MaxSize
<1>3. Cardinality(Where(f, V)) = 0 <=> Where(f, V) = {}
  BY <1>2, FS_EmptySet
<1>4. QED
  BY <1>2, <1>3 DEF Where

(* A set of numbers has a least one.                                       *)
LEMMA Least == ASSUME NEW T \in SUBSET Nat, T # {} PROVE \E m \in T : \A n \in T : m <= n
<1>1. PICK m \in T : \A n \in T : ~(<<n, m>> \in OpToRel(<, Nat))
  BY WFMin, NatLessThanWellFounded
<1>2. \A n \in T : ~(n < m)
  BY <1>1 DEF OpToRel
<1>3. QED
  BY <1>2

(* The highest bit of a number is one of 1 .. n: there is a largest power  *)
(* of two among them, 1 being one.                                         *)
LEMMA HighestBitType == ASSUME NEW n \in Nat \ {0} PROVE HighestBit(n) \in 1 .. n
<1> DEFINE Bits == 1 .. n \cap {2 ^ b : b \in 0 .. n}
           Above == {m \in Nat : \A x \in Bits : x <= m}
<1>1. 1 \in Bits
  <2>1. 2 ^ 0 = 1
    OBVIOUS
  <2>2. 0 \in 0 .. n /\ 1 \in 1 .. n
    OBVIOUS
  <2>3. 1 \in {2 ^ b : b \in 0 .. n}
    BY ONLY <2>1, <2>2, Zenon
  <2>4. QED
    BY <2>2, <2>3
<1>2. n \in Above
  OBVIOUS
<1>3. PICK m \in Above : \A l \in Above : m <= l
  BY <1>2, Least
<1>4. m \in Bits
  <2>1. SUFFICES ASSUME m \notin Bits PROVE m - 1 \in Above
    BY <1>3
  <2>2. m \in Nat /\ m >= 1 /\ \A x \in Bits : x <= m
    BY <1>1
  <2>3. \A x \in Bits : x \in Int /\ x # m
    BY <2>1
  <2>4. \A x \in Bits : x <= m - 1
    BY <2>2, <2>3
  <2>5. QED
    BY <2>2, <2>4
<1>5. \A x \in Bits : m >= x
  OBVIOUS
<1> HIDE DEF Bits
<1>6. Max(Bits) \in Bits
  BY <1>4, <1>5 DEF Max
<1>7. QED
  BY <1>6 DEF HighestBit, Bits

-----------------------------------------------------------------------------
(* The inductive invariant.                                                *)

TypeInv ==
    /\ pc \in [Caller -> Places]
    /\ ctx \in [Caller -> {"live", "done"}]
    /\ conn \in [Caller -> Conn \cup {NoConn}]
    /\ free \in Nat
    /\ queue \in Seq(Caller)
    /\ state \in [Conn -> Status]
    /\ wg \in Nat
    /\ phase \in {"open", "closing", "closed"}
    /\ hc \in [at : {"away", "all", "bits", "pop"}, num : 0 .. MaxSize, bit : 0 .. MaxSize, got : Nat]
    /\ checked \in SUBSET Conn

(* The queue holds the calls that wait for a token, each once.             *)
Lined(q, p) ==
    /\ \A j \in DOMAIN q : p[q[j]] = "queued"
    /\ \A j, l \in DOMAIN q : q[j] = q[l] => j = l
    /\ \A c \in Caller : p[c] = "queued" => \E j \in DOMAIN q : q[j] = c

QueueInv == Lined(queue, pc)

(* The health check holds tokens only between AcquireAll and PopIdle, and  *)
(* begins when it has given back what it took before.                      *)
CheckInv ==
    /\ hc.at = "all" => hc.num # 0
    /\ hc.at = "bits" => hc.bit # 0
    /\ hc.at \in {"away", "all"} => hc.got = 0
    /\ hc.at # "away" => checked = {}

(* Every token and every count of destructWG has its owner.                *)
CountInv ==
    /\ IsFiniteSet(Where(pc, WithToken))
    /\ free + Cardinality(Where(pc, WithToken)) + hc.got + Cardinality(Where(state, Taken)) = MaxSize
    /\ wg = Cardinality(Where(state, Counted))

(* A resource has one holder, or one call that waits for it.               *)
HoldInv ==
    /\ \A c \in Caller :
          /\ pc[c] = "holding" => /\ conn[c] \in Conn /\ state[conn[c]] = "acquired"
                                  /\ conn[c] \notin checked
          /\ pc[c] = "waiting" /\ conn[c] # NoConn => state[conn[c]] \in {"constructing", "built"}
          /\ pc[c] \notin {"holding", "waiting"} => conn[c] = NoConn
    /\ \A c, d \in Caller : conn[c] = conn[d] /\ conn[c] # NoConn => c = d
    /\ \A k \in checked : state[k] = "acquired"

(* An open pool destroys nothing that was idle; a closed one has nothing.  *)
PhaseInv ==
    /\ phase = "open" => \A k \in Conn : state[k] # "dying"
    /\ phase # "open" => Idle = {}
    /\ phase = "closed" => wg = 0

IInv == TypeInv /\ QueueInv /\ CheckInv /\ CountInv /\ HoldInv /\ PhaseInv

Tokens  == Cardinality(Where(pc, WithToken))
Out     == Cardinality(Where(state, Taken))
Running == Cardinality(Where(state, Counted))

-----------------------------------------------------------------------------
(* What a step does to the calls and the semaphore.                        *)

LEMMA RemovedOnce ==
    ASSUME NEW q \in Seq(Caller), NEW j \in DOMAIN q
    PROVE  /\ RemoveAt(q, j) \in Seq(Caller)
           /\ Len(RemoveAt(q, j)) = Len(q) - 1
           /\ \A l \in 1 .. Len(q) - 1 : RemoveAt(q, j)[l] = IF l < j THEN q[l] ELSE q[l + 1]
<1>1. j \in 1 .. Len(q) /\ Len(q) \in Nat
  OBVIOUS
<1> DEFINE a == SubSeq(q, 1, j - 1)
           b == SubSeq(q, j + 1, Len(q))
<1>2. a \in Seq(Caller) /\ Len(a) = j - 1 /\ \A l \in 1 .. j - 1 : a[l] = q[l]
  BY <1>1
<1>3. /\ b \in Seq(Caller) /\ Len(b) = Len(q) - j
      /\ \A l \in 1 .. Len(q) - j : b[l] = q[l + j]
  BY <1>1
<1> HIDE DEF a, b
<1>4. /\ a \o b \in Seq(Caller) /\ Len(a \o b) = Len(q) - 1
      /\ \A l \in 1 .. Len(q) - 1 : (a \o b)[l] = IF l < j THEN a[l] ELSE b[l - (j - 1)]
  BY <1>1, <1>2, <1>3
<1>5. \A l \in 1 .. Len(q) - 1 : (a \o b)[l] = IF l < j THEN q[l] ELSE q[l + 1]
  <2>1. TAKE l \in 1 .. Len(q) - 1
  <2>2. CASE l < j
    BY <1>1, <1>2, <1>4, <2>2
  <2>3. CASE ~(l < j)
    <3>1. l - (j - 1) \in 1 .. Len(q) - j /\ (l - (j - 1)) + j = l + 1
      BY <1>1, <2>3
    <3>2. QED
      BY <1>3, <1>4, <2>3, <3>1
  <2>4. QED
    BY <2>2, <2>3
<1>6. QED
  BY <1>4, <1>5 DEF RemoveAt, a, b

(* A call moves, and not into the queue or out of it.                      *)
LEMMA CallMoves ==
    ASSUME TypeInv, QueueInv, IsFiniteSet(Where(pc, WithToken)),
           NEW c \in Caller, NEW v \in Places, pc[c] # "queued", v # "queued",
           pc' = [pc EXCEPT ![c] = v], UNCHANGED queue
    PROVE  /\ pc' \in [Caller -> Places] /\ QueueInv'
           /\ pc'[c] = v /\ \A d \in Caller \ {c} : pc'[d] = pc[d]
           /\ IsFiniteSet(Where(pc, WithToken)')
           /\ Tokens \in Nat /\ Tokens' \in Nat
           /\ Follows(Tokens, Tokens', pc[c], v, WithToken)
<1>1. /\ pc' \in [Caller -> Places] /\ DOMAIN pc = Caller
      /\ pc'[c] = v /\ \A d \in Caller \ {c} : pc'[d] = pc[d]
  BY DEF TypeInv
<1>2. QueueInv'
  <2>1. \A j \in DOMAIN queue : queue[j] \in Caller
    BY DEF TypeInv
  <2>2. QED
    BY <1>1, <2>1 DEF QueueInv, Lined
<1>3. /\ IsFiniteSet(Where(pc', WithToken))
      /\ Cardinality(Where(pc, WithToken)) \in Nat /\ Cardinality(Where(pc', WithToken)) \in Nat
      /\ Follows(Cardinality(Where(pc, WithToken)), Cardinality(Where(pc', WithToken)), pc[c], v, WithToken)
  <2>1. DOMAIN pc' = DOMAIN pc /\ c \in DOMAIN pc /\ \A d \in DOMAIN pc \ {c} : pc'[d] = pc[d]
    BY <1>1
  <2>2. QED
    BY ONLY <1>1, <2>1, CountMove, IsFiniteSet(Where(pc, WithToken))
<1>4. QED
  BY <1>1, <1>2, <1>3 DEF Tokens, Where

(* A token is released: it goes to the first in the queue.                 *)
LEMMA Releases ==
    ASSUME queue \in Seq(Caller), free \in Nat,
           NEW p \in [Caller -> Places], Lined(queue, p), IsFiniteSet(Where(p, WithToken)),
           Released(p)
    PROVE  /\ pc' \in [Caller -> Places] /\ queue' \in Seq(Caller) /\ free' \in Nat /\ QueueInv'
           /\ \A d \in Caller : pc'[d] = p[d] \/ (p[d] = "queued" /\ pc'[d] = "granted")
           /\ IsFiniteSet(Where(pc, WithToken)')
           /\ Tokens' \in Nat /\ Cardinality(Where(p, WithToken)) \in Nat
           /\ free' + Tokens' = free + Cardinality(Where(p, WithToken)) + 1
<1>1. CASE queue = <<>>
  <2>1. free' = free + 1 /\ queue' = queue /\ pc' = p
    BY <1>1 DEF Released
  <2>2. Cardinality(Where(p, WithToken)) \in Nat
    BY FS_CardinalityType
  <2>3. QED
    BY <2>1, <2>2 DEF QueueInv, Lined, Tokens, Where
<1>2. CASE queue # <<>>
  <2> DEFINE h == Head(queue)
  <2>1. free' = free /\ queue' = Tail(queue) /\ pc' = [p EXCEPT ![h] = "granted"]
    BY <1>2 DEF Released
  <2>2. /\ h = queue[1] /\ h \in Caller /\ Len(queue) \in Nat \ {0}
        /\ queue' \in Seq(Caller) /\ Len(queue') = Len(queue) - 1
        /\ \A j \in 1 .. Len(queue) - 1 : queue'[j] = queue[j + 1]
    BY <1>2, <2>1
  <2>3. /\ DOMAIN queue = 1 .. Len(queue) /\ DOMAIN queue' = 1 .. Len(queue) - 1
        /\ \A j \in DOMAIN queue : queue[j] \in Caller
    BY <2>2
  <2>4. p[h] = "queued"
    BY <2>2, <2>3 DEF Lined
  <2> HIDE DEF h
  <2>5. pc' \in [Caller -> Places] /\ pc'[h] = "granted" /\ \A d \in Caller \ {h} : pc'[d] = p[d]
    BY <2>1, <2>2 DEF Places
  <2>6. QueueInv'
    <3>1. \A j \in DOMAIN queue' : pc'[queue'[j]] = "queued"
      <4>1. TAKE j \in DOMAIN queue'
      <4>2. j + 1 \in DOMAIN queue /\ queue'[j] = queue[j + 1] /\ 1 \in DOMAIN queue /\ j + 1 # 1
        BY <2>2, <2>3
      <4>3. queue[j + 1] # h /\ p[queue[j + 1]] = "queued" /\ queue[j + 1] \in Caller
        BY <2>2, <2>3, <4>2 DEF Lined
      <4>4. QED
        BY <2>5, <4>2, <4>3
    <3>2. \A j, l \in DOMAIN queue' : queue'[j] = queue'[l] => j = l
      <4>1. TAKE j, l \in DOMAIN queue'
      <4>2. /\ j + 1 \in DOMAIN queue /\ queue'[j] = queue[j + 1] /\ j \in Int
            /\ l + 1 \in DOMAIN queue /\ queue'[l] = queue[l + 1] /\ l \in Int
        BY <2>2, <2>3
      <4>3. queue[j + 1] = queue[l + 1] => j + 1 = l + 1
        BY <4>2 DEF Lined
      <4>4. QED
        BY <4>2, <4>3
    <3>3. ASSUME NEW c \in Caller, pc'[c] = "queued" PROVE \E j \in DOMAIN queue' : queue'[j] = c
      <4>1. c # h /\ p[c] = "queued"
        BY <2>5, <3>3
      <4>2. PICK j \in DOMAIN queue : queue[j] = c
        BY <4>1 DEF Lined
      <4>3. j # 1
        BY <2>2, <4>1, <4>2
      <4>4. j - 1 \in DOMAIN queue' /\ queue'[j - 1] = queue[j]
        BY <2>2, <2>3, <4>3
      <4>5. QED
        BY <4>2, <4>4
    <3>4. QED
      BY <3>1, <3>2, <3>3 DEF QueueInv, Lined
  <2>7. /\ IsFiniteSet(Where(pc', WithToken))
        /\ Cardinality(Where(p, WithToken)) \in Nat /\ Cardinality(Where(pc', WithToken)) \in Nat
        /\ Follows(Cardinality(Where(p, WithToken)), Cardinality(Where(pc', WithToken)),
                   "queued", "granted", WithToken)
    BY <2>2, <2>4, <2>5, CountMove
  <2>8. Cardinality(Where(pc', WithToken)) = Cardinality(Where(p, WithToken)) + 1
    BY <2>7 DEF Follows, WithToken
  <2>9. Tokens' = Cardinality(Where(p, WithToken)) + 1 /\ Tokens' \in Nat /\ IsFiniteSet(Where(pc, WithToken)')
    BY <2>7, <2>8 DEF Tokens, Where
  <2>10. free + (Cardinality(Where(p, WithToken)) + 1) = free + Cardinality(Where(p, WithToken)) + 1
    BY <2>7
  <2>11. free' + Tokens' = free + Cardinality(Where(p, WithToken)) + 1
    BY <2>1, <2>9, <2>10, Zenon
  <2>12. \A d \in Caller : pc'[d] = p[d] \/ (p[d] = "queued" /\ pc'[d] = "granted")
    BY <2>4, <2>5
  <2>13. QED
    BY <2>1, <2>2, <2>5, <2>6, <2>7, <2>9, <2>11, <2>12, Zenon
<1>3. QED
  BY <1>1, <1>2

(* What a step does to one resource.                                       *)
LEMMA ConnMoves ==
    ASSUME TypeInv, NEW k \in Conn, NEW v \in Status, state' = [state EXCEPT ![k] = v]
    PROVE  /\ state' \in [Conn -> Status]
           /\ state'[k] = v /\ \A j \in Conn \ {k} : state'[j] = state[j]
           /\ Out \in Nat /\ Out' \in Nat /\ Running \in Nat /\ Running' \in Nat
           /\ Follows(Out, Out', state[k], v, Taken)
           /\ Follows(Running, Running', state[k], v, Counted)
<1>1. /\ state \in [Conn -> Status] /\ state' \in [Conn -> Status]
      /\ state'[k] = v /\ \A j \in Conn \ {k} : state'[j] = state[j]
  BY DEF TypeInv
<1>2. DOMAIN state' = DOMAIN state /\ k \in DOMAIN state /\ \A j \in DOMAIN state \ {k} : state'[j] = state[j]
  BY <1>1
<1>3. IsFiniteSet(Where(state, Taken)) /\ IsFiniteSet(Where(state, Counted))
  BY <1>1, CountConn
<1>4. /\ Cardinality(Where(state, Taken)) \in Nat /\ Cardinality(Where(state', Taken)) \in Nat
      /\ Follows(Cardinality(Where(state, Taken)), Cardinality(Where(state', Taken)), state[k], v, Taken)
  BY ONLY <1>1, <1>2, <1>3, CountMove
<1>5. /\ Cardinality(Where(state, Counted)) \in Nat /\ Cardinality(Where(state', Counted)) \in Nat
      /\ Follows(Cardinality(Where(state, Counted)), Cardinality(Where(state', Counted)), state[k], v, Counted)
  BY ONLY <1>1, <1>2, <1>3, CountMove
<1>6. Where(state, Taken)' = Where(state', Taken) /\ Where(state, Counted)' = Where(state', Counted)
  BY DEF Where
<1>7. QED
  BY <1>1, <1>4, <1>5, <1>6 DEF Out, Running

LEMMA ConnTypes == ASSUME TypeInv PROVE Out \in Nat /\ Running \in Nat /\ MaxSize \in Nat /\ Out <= MaxSize
BY CountConn DEF TypeInv, Out, Running

LEMMA SameConn == ASSUME TypeInv, state' = state PROVE Out' = Out /\ Running' = Running
BY DEF Out, Running, Where

LEMMA SameCalls ==
    ASSUME TypeInv, QueueInv, CountInv, UNCHANGED <<pc, queue>>
    PROVE  QueueInv' /\ IsFiniteSet(Where(pc, WithToken)') /\ Tokens' = Tokens /\ Tokens \in Nat
<1>1. Tokens \in Nat
  BY FS_CardinalityType DEF CountInv, Tokens
<1>2. QED
  BY <1>1 DEF QueueInv, Lined, CountInv, Tokens, Where

LEMMA Counts == CountInv <=> /\ IsFiniteSet(Where(pc, WithToken))
                             /\ free + Tokens + hc.got + Out = MaxSize
                             /\ wg = Running
BY DEF CountInv, Tokens, Out, Running

LEMMA CountsNext == /\ IsFiniteSet(Where(pc, WithToken)')
                    /\ free' + Tokens' + hc.got' + Out' = MaxSize
                    /\ wg' = Running'
                    => CountInv'
BY DEF CountInv, Tokens, Out, Running, MaxSize

-----------------------------------------------------------------------------
(* Steps of a call that leave the resources alone.                         *)

LEMMA CallAlone ==
    ASSUME IInv, NEW c \in Caller, NEW v \in Places,
           pc[c] \notin {"queued", "holding"}, v \notin {"queued", "holding", "waiting"},
           pc' = [pc EXCEPT ![c] = v], conn' = [conn EXCEPT ![c] = NoConn],
           ctx' \in [Caller -> {"live", "done"}],
           free' \in Nat,
           \/ (pc[c] \in WithToken <=> v \in WithToken) /\ free' = free
           \/ pc[c] \notin WithToken /\ v \in WithToken /\ free = free' + 1,
           UNCHANGED <<queue, poolVars, hcVars>>
    PROVE  IInv'
<1> USE DEF poolVars, hcVars
<1>1. /\ pc' \in [Caller -> Places] /\ QueueInv'
      /\ pc'[c] = v /\ \A d \in Caller \ {c} : pc'[d] = pc[d]
      /\ IsFiniteSet(Where(pc, WithToken)')
      /\ Tokens \in Nat /\ Tokens' \in Nat
      /\ Follows(Tokens, Tokens', pc[c], v, WithToken)
  BY CallMoves DEF IInv, CountInv
<1>2. TypeInv'
  BY <1>1 DEF IInv, TypeInv
<1>3. CheckInv' /\ PhaseInv'
  BY DEF IInv, CheckInv, PhaseInv, Idle
<1>4. CountInv'
  <2>1. Out' = Out /\ Running' = Running /\ Out \in Nat /\ hc.got \in Nat /\ free \in Nat
    BY SameConn, ConnTypes DEF IInv, TypeInv
  <2>2. \/ Tokens' = Tokens /\ free' = free
        \/ Tokens' = Tokens + 1 /\ free = free' + 1
    BY <1>1 DEF Follows
  <2>3. PICK b, u \in Nat : b = free' /\ u = Tokens'
    BY <1>1, Zenon
  <2>4. \/ u = Tokens /\ b = free
        \/ u = Tokens + 1 /\ free = b + 1
    BY <2>2, <2>3, Zenon
  <2>5. Tokens \in Nat
    BY <1>1, Zenon
  <2>6. b + u + hc.got + Out = free + Tokens + hc.got + Out
    BY ONLY <2>1, <2>4, <2>5
  <2>7. free + Tokens + hc.got + Out = MaxSize /\ wg = Running /\ hc' = hc /\ wg' = wg
    BY Counts DEF IInv
  <2>8. free' + Tokens' + hc.got' + Out' = MaxSize /\ wg' = Running'
    BY <2>1, <2>3, <2>6, <2>7, Zenon
  <2>9. QED
    BY <1>1, <2>8, CountsNext, Zenon
<1>5. HoldInv'
  <2>1. conn \in [Caller -> Conn \cup {NoConn}]
    BY DEF IInv, TypeInv
  <2>2. conn'[c] = NoConn /\ \A d \in Caller \ {c} : conn'[d] = conn[d]
    BY <2>1
  <2>3. QED
    BY <1>1, <2>2 DEF IInv, HoldInv
<1>6. QED
  BY <1>1, <1>2, <1>3, <1>4, <1>5 DEF IInv

(* A call that leaves with a token: before it looked into the pool, or     *)
(* because the pool is closed.                                             *)
LEMMA TokenBack ==
    ASSUME IInv, NEW c \in Caller, pc[c] \in WithToken, Released([pc EXCEPT ![c] = "out"]),
           UNCHANGED <<ctx, conn, poolVars, hcVars>>
    PROVE  IInv'
<1> USE DEF poolVars, hcVars
<1> DEFINE p == [pc EXCEPT ![c] = "out"]
<1>1. /\ DOMAIN p = DOMAIN pc /\ c \in DOMAIN pc /\ DOMAIN pc = Caller /\ p \in [Caller -> Places]
      /\ p[c] = "out" /\ \A d \in DOMAIN pc \ {c} : p[d] = pc[d]
  BY DEF IInv, TypeInv, Places
<1> HIDE DEF p
<1>2. Lined(queue, p)
  <2>1. pc[c] # "queued" /\ \A j \in DOMAIN queue : queue[j] \in Caller
    BY DEF IInv, TypeInv, WithToken
  <2>2. QED
    BY <1>1, <2>1 DEF IInv, QueueInv, Lined
<1>3. /\ IsFiniteSet(Where(p, WithToken))
      /\ Cardinality(Where(p, WithToken)) \in Nat /\ Tokens \in Nat
      /\ Cardinality(Where(p, WithToken)) + 1 = Tokens
  <2>1. IsFiniteSet(Where(pc, WithToken))
    BY DEF IInv, CountInv
  <2>2. /\ IsFiniteSet(Where(p, WithToken))
        /\ Cardinality(Where(p, WithToken)) \in Nat /\ Cardinality(Where(pc, WithToken)) \in Nat
        /\ Follows(Cardinality(Where(pc, WithToken)), Cardinality(Where(p, WithToken)), pc[c], "out", WithToken)
    <3>1. DOMAIN p = DOMAIN pc /\ c \in DOMAIN pc /\ p[c] = "out" /\ \A d \in DOMAIN pc \ {c} : p[d] = pc[d]
      BY <1>1
    <3>2. QED
      BY ONLY <2>1, <3>1, CountMove
  <2>3. "out" \notin WithToken
    BY DEF WithToken
  <2>4. QED
    BY <2>2, <2>3 DEF Tokens, Follows
<1>4. /\ pc' \in [Caller -> Places] /\ queue' \in Seq(Caller) /\ free' \in Nat /\ QueueInv'
      /\ \A d \in Caller : pc'[d] = p[d] \/ (p[d] = "queued" /\ pc'[d] = "granted")
      /\ IsFiniteSet(Where(pc, WithToken)')
      /\ Tokens' \in Nat /\ free' + Tokens' = free + Cardinality(Where(p, WithToken)) + 1
  BY <1>1, <1>2, <1>3, Releases DEF IInv, TypeInv, p
<1>5. TypeInv'
  BY <1>4 DEF IInv, TypeInv
<1>6. CheckInv' /\ PhaseInv'
  BY DEF IInv, CheckInv, PhaseInv, Idle
<1>7. CountInv'
  <2>1. Out' = Out /\ Running' = Running /\ Out \in Nat /\ hc.got \in Nat /\ free \in Nat
    BY SameConn, ConnTypes DEF IInv, TypeInv
  <2>2. free + Tokens + hc.got + Out = MaxSize /\ wg = Running
    BY Counts DEF IInv
  <2>3. free' + Tokens' + hc.got' + Out' = free + Tokens + hc.got + Out
    <3>1. PICK b, u \in Nat : b = free' /\ u = Tokens'
      BY <1>4, Zenon
    <3>2. b + u = free + Cardinality(Where(p, WithToken)) + 1
      BY <1>4, <3>1, Zenon
    <3>3. b + u + hc.got + Out = free + Tokens + hc.got + Out
      BY ONLY <1>3, <2>1, <3>2
    <3>4. QED
      BY <2>1, <3>1, <3>3, Zenon
  <2>4. QED
    BY <1>4, <2>1, <2>2, <2>3, CountsNext
<1>8. HoldInv'
  <2>1. pc[c] \notin {"holding", "waiting"}
    BY DEF WithToken
  <2>2. \A d \in Caller : /\ pc'[d] \in {"holding", "waiting"} <=> pc[d] \in {"holding", "waiting"}
                          /\ pc'[d] \in {"holding", "waiting"} => pc'[d] = pc[d]
    BY <1>1, <1>4, <2>1
  <2>3. QED
    BY <2>2 DEF IInv, HoldInv
<1>9. QED
  BY <1>4, <1>5, <1>6, <1>7, <1>8 DEF IInv

-----------------------------------------------------------------------------
(* A resource gives its token back: it is idle, dying, destroyed or was    *)
(* never made.  p is where the calls are but for who gets the token, and   *)
(* none of them has the resource any more.                                 *)
LetGo(k, p) ==
    /\ p \in [Caller -> Places] /\ Lined(queue, p)
    /\ IsFiniteSet(Where(p, WithToken)) /\ Cardinality(Where(p, WithToken)) = Tokens
    /\ conn' \in [Caller -> Conn \cup {NoConn}]
    /\ \A c \in Caller :
          /\ p[c] = "holding" => pc[c] = "holding" /\ conn[c] # k
          /\ p[c] = "waiting" => pc[c] = "waiting"
          /\ p[c] \notin {"holding", "waiting"} => conn'[c] = NoConn
          /\ conn'[c] = conn[c] \/ (conn'[c] = NoConn /\ p[c] # "holding")
          /\ p[c] = "waiting" => conn'[c] # k

LEMMA ResourceBack ==
    ASSUME IInv, NEW p, NEW k \in Conn, NEW v \in {"idle", "dying", "none"},
           LetGo(k, p), Released(p),
           state[k] \in Taken, state' = [state EXCEPT ![k] = v],
           v = "idle" => phase = "open", v = "dying" => phase # "open",
           state[k] = "destroyed" => v = "none",
           wg' \in Nat, Follows(wg, wg', state[k], v, Counted),
           checked' = checked \ {k}, UNCHANGED <<ctx, phase, hc>>
    PROVE  IInv'
<1>1. /\ pc' \in [Caller -> Places] /\ queue' \in Seq(Caller) /\ free' \in Nat /\ QueueInv'
      /\ \A d \in Caller : pc'[d] = p[d] \/ (p[d] = "queued" /\ pc'[d] = "granted")
      /\ IsFiniteSet(Where(pc, WithToken)')
      /\ Tokens' \in Nat /\ Tokens \in Nat /\ free' + Tokens' = free + Tokens + 1
  BY Releases DEF IInv, TypeInv, LetGo
<1>2. /\ state' \in [Conn -> Status]
      /\ state'[k] = v /\ \A j \in Conn \ {k} : state'[j] = state[j]
      /\ Out \in Nat /\ Out' \in Nat /\ Running \in Nat /\ Running' \in Nat
      /\ Follows(Out, Out', state[k], v, Taken) /\ Follows(Running, Running', state[k], v, Counted)
  <2>1. v \in Status
    BY DEF Status
  <2>2. QED
    BY <2>1, ConnMoves DEF IInv
<1>3. TypeInv'
  BY <1>1, <1>2 DEF IInv, TypeInv, LetGo
<1>4. CheckInv'
  BY DEF IInv, CheckInv
<1>5. CountInv'
  <2>1. Out = Out' + 1
    BY <1>2 DEF Follows, Taken
  <2>2. free + Tokens + hc.got + Out = MaxSize /\ wg = Running /\ hc.got \in Nat /\ free \in Nat
    BY Counts DEF IInv, TypeInv
  <2>3. free' + Tokens' + hc.got' + Out' = MaxSize
    <3>1. PICK b, u, y \in Nat : b = free' /\ u = Tokens' /\ y = Out'
      BY <1>1, <1>2, Zenon
    <3>2. b + u = free + Tokens + 1
      BY <1>1, <3>1, Zenon
    <3>3. Out = y + 1
      BY <2>1, <3>1, Zenon
    <3>4. Tokens \in Nat /\ Out \in Nat
      BY <1>1, <1>2, Zenon
    <3>5. b + u + hc.got + y = free + Tokens + hc.got + Out
      BY ONLY <2>2, <3>2, <3>3, <3>4
    <3>6. hc' = hc
      OBVIOUS
    <3>7. QED
      BY <2>2, <3>1, <3>5, <3>6, Zenon
  <2>4. Follows(wg, Running', state[k], v, Counted) /\ Running' \in Nat
    BY <1>2, <2>2, Zenon
  <2>5. wg' = Running'
    BY <2>4, FollowsOnce, Zenon
  <2>6. QED
    BY <1>1, <2>3, <2>5, CountsNext, Zenon
<1>6. HoldInv'
  <2>1. \A c \in Caller : pc'[c] = "holding" => /\ conn'[c] \in Conn /\ state'[conn'[c]] = "acquired"
                                                /\ conn'[c] \notin checked'
    BY <1>1, <1>2 DEF IInv, HoldInv, LetGo
  <2>2. \A c \in Caller :
           /\ pc'[c] = "waiting" /\ conn'[c] # NoConn => state'[conn'[c]] \in {"constructing", "built"}
           /\ pc'[c] \notin {"holding", "waiting"} => conn'[c] = NoConn
    <3>1. TAKE c \in Caller
    <3>2. conn'[c] \in Conn \cup {NoConn}
      BY DEF LetGo
    <3>3. QED
      BY <1>1, <1>2, <3>2 DEF IInv, HoldInv, LetGo
  <2>3. \A c, d \in Caller : conn'[c] = conn'[d] /\ conn'[c] # NoConn => c = d
    BY DEF IInv, HoldInv, LetGo
  <2>4. \A j \in checked' : state'[j] = "acquired"
    BY <1>2 DEF IInv, HoldInv, TypeInv
  <2>5. QED
    BY <2>1, <2>2, <2>3, <2>4 DEF HoldInv
<1>7. PhaseInv'
  <2>1. phase' = "open" => \A j \in Conn : state'[j] # "dying"
    BY <1>2 DEF IInv, PhaseInv
  <2>2. phase' # "open" => Idle' = {}
    BY <1>2 DEF IInv, PhaseInv, Idle
  <2>3. phase' = "closed" => wg' = 0
    <3>1. SUFFICES ASSUME phase = "closed" PROVE Running' = 0
      BY <1>5, Counts DEF CountInv, Running
    <3>2. Running = 0
      BY <3>1, Counts DEF IInv, PhaseInv
    <3>3. \A j \in Conn : state[j] \notin Counted
      BY <3>2, CountConn DEF IInv, TypeInv, Running
    <3>4. \A j \in Conn : state'[j] \notin Counted
      BY <1>2, <3>1, <3>3 DEF Counted, Taken, Status, IInv, PhaseInv
    <3>5. QED
      BY <1>2, <3>4, CountConn DEF Running, Where
  <2>4. QED
    BY <2>1, <2>2, <2>3 DEF PhaseInv
<1>8. QED
  BY <1>1, <1>3, <1>4, <1>5, <1>6, <1>7 DEF IInv
-----------------------------------------------------------------------------
(* A resource goes on, and a token stays where it is or passes from a call *)
(* to the resource.                                                        *)
LEMMA ResourceMoves ==
    ASSUME IInv, NEW k \in Conn, NEW w \in Status \ {"idle", "dying"}, state' = [state EXCEPT ![k] = w],
           state[k] \in Counted \/ phase = "open",
           pc' \in [Caller -> Places], QueueInv', IsFiniteSet(Where(pc, WithToken)'),
           Tokens \in Nat, Tokens' \in Nat,
           \/ Tokens' = Tokens /\ (state[k] \in Taken <=> w \in Taken)
           \/ Tokens = Tokens' + 1 /\ state[k] \notin Taken /\ w \in Taken,
           wg' \in Nat, Follows(wg, wg', state[k], w, Counted),
           conn' \in [Caller -> Conn \cup {NoConn}], checked' \in SUBSET checked,
           UNCHANGED <<ctx, semVars, phase, hc>>
    PROVE  /\ TypeInv' /\ CheckInv' /\ CountInv' /\ PhaseInv'
           /\ state'[k] = w /\ \A l \in Conn \ {k} : state'[l] = state[l]
<1> USE DEF semVars
<1>1. /\ state' \in [Conn -> Status]
      /\ state'[k] = w /\ \A l \in Conn \ {k} : state'[l] = state[l]
      /\ Out \in Nat /\ Out' \in Nat /\ Running \in Nat /\ Running' \in Nat
      /\ Follows(Out, Out', state[k], w, Taken) /\ Follows(Running, Running', state[k], w, Counted)
  BY ConnMoves DEF IInv
<1>2. TypeInv'
  BY <1>1 DEF IInv, TypeInv
<1>3. CheckInv'
  BY DEF IInv, CheckInv
<1>4. CountInv'
  <2>1. \/ Tokens' = Tokens /\ Out' = Out
        \/ Tokens = Tokens' + 1 /\ Out' = Out + 1
    BY <1>1, Zenon DEF Follows
  <2>2. PICK u, y \in Nat : u = Tokens' /\ y = Out'
    BY <1>1, Zenon
  <2>3. \/ u = Tokens /\ y = Out
        \/ Tokens = u + 1 /\ y = Out + 1
    BY <2>1, <2>2, Zenon
  <2>4. free + Tokens + hc.got + Out = MaxSize /\ wg = Running
    BY Counts DEF IInv
  <2>5. Tokens \in Nat /\ Out \in Nat /\ free \in Nat /\ hc.got \in Nat
    BY <1>1 DEF IInv, TypeInv
  <2>6. free + u + hc.got + y = free + Tokens + hc.got + Out
    BY ONLY <2>3, <2>5
  <2>7. free' = free /\ hc.got' = hc.got
    OBVIOUS
  <2>8. free' + Tokens' + hc.got' + Out' = MaxSize
    BY <2>2, <2>4, <2>6, <2>7, Zenon
  <2>9. Follows(wg, Running', state[k], w, Counted) /\ Running' \in Nat
    BY <1>1, <2>4, Zenon
  <2>10. wg' = Running'
    BY <2>9, FollowsOnce, Zenon
  <2>11. QED
    BY <2>8, <2>10, CountsNext, Zenon
<1>5. PhaseInv'
  <2>1. phase # "closed"
    <3>1. SUFFICES ASSUME phase = "closed" PROVE state[k] \notin Counted
      OBVIOUS
    <3>2. Running = 0
      BY <3>1, Counts DEF IInv, PhaseInv
    <3>3. QED
      BY <3>2, CountConn DEF IInv, TypeInv, Running
  <2>2. QED
    BY <1>1, <2>1 DEF IInv, PhaseInv, Idle
<1>6. QED
  BY <1>1, <1>2, <1>3, <1>4, <1>5

(* Into the queue, or out of it or from before it.                         *)
LEMMA LineMoves ==
    ASSUME IInv, NEW c \in Caller, NEW v \in Places,
           pc[c] \in {"asking", "queued"}, v \in {"queued", "out"},
           pc' = [pc EXCEPT ![c] = v],
           queue' \in Seq(Caller), QueueInv',
           UNCHANGED <<ctx, conn, free, poolVars, hcVars>>
    PROVE  IInv'
<1> USE DEF poolVars, hcVars
<1>1. /\ pc' \in [Caller -> Places] /\ pc'[c] = v /\ \A d \in Caller \ {c} : pc'[d] = pc[d]
  BY DEF IInv, TypeInv
<1>2. TypeInv'
  BY <1>1 DEF IInv, TypeInv
<1>3. CheckInv' /\ PhaseInv'
  BY DEF IInv, CheckInv, PhaseInv, Idle
<1>4. CountInv'
  <2>1. Where(pc', WithToken) = Where(pc, WithToken)
    BY <1>1 DEF Where, WithToken, IInv, TypeInv
  <2>2. Where(pc, WithToken)' = Where(pc', WithToken) /\ Where(state, Taken)' = Where(state, Taken)
        /\ Where(state, Counted)' = Where(state, Counted)
    BY DEF Where
  <2>3. QED
    BY <2>1, <2>2 DEF IInv, CountInv, MaxSize
<1>5. HoldInv'
  BY <1>1 DEF IInv, HoldInv
<1>6. QED
  BY <1>2, <1>3, <1>4, <1>5 DEF IInv
(* A call and the resource it takes, is made or gives up go on together.   *)
LEMMA CallAndResource ==
    ASSUME IInv, NEW c \in Caller, NEW v \in Places, pc[c] # "queued", v # "queued",
           pc' = [pc EXCEPT ![c] = v],
           NEW k \in Conn, NEW w \in Status \ {"idle", "dying"}, state' = [state EXCEPT ![k] = w],
           state[k] \in Counted \/ phase = "open",
           \/ (pc[c] \in WithToken <=> v \in WithToken) /\ (state[k] \in Taken <=> w \in Taken)
           \/ pc[c] \in WithToken /\ v \notin WithToken /\ state[k] \notin Taken /\ w \in Taken,
           wg' \in Nat, Follows(wg, wg', state[k], w, Counted),
           NEW x \in {k, NoConn}, conn' = [conn EXCEPT ![c] = x],
           k \notin checked, \A d \in Caller \ {c} : conn[d] # k,
           v = "holding" => x = k /\ w = "acquired",
           v = "waiting" => x = k /\ w \in {"constructing", "built"},
           v \notin {"holding", "waiting"} => x = NoConn,
           UNCHANGED <<ctx, semVars, phase, hcVars>>
    PROVE  IInv'
<1>1. /\ pc' \in [Caller -> Places] /\ QueueInv'
      /\ pc'[c] = v /\ \A d \in Caller \ {c} : pc'[d] = pc[d]
      /\ IsFiniteSet(Where(pc, WithToken)')
      /\ Tokens \in Nat /\ Tokens' \in Nat
      /\ Follows(Tokens, Tokens', pc[c], v, WithToken)
  <2>1. IsFiniteSet(Where(pc, WithToken)) /\ TypeInv /\ QueueInv /\ UNCHANGED queue
    BY DEF IInv, CountInv, semVars
  <2>2. QED
    BY <2>1, CallMoves
<1>2. \/ Tokens' = Tokens /\ (state[k] \in Taken <=> w \in Taken)
      \/ Tokens = Tokens' + 1 /\ state[k] \notin Taken /\ w \in Taken
  BY <1>1, Zenon DEF Follows
<1>3. conn' \in [Caller -> Conn \cup {NoConn}] /\ conn'[c] = x /\ \A d \in Caller \ {c} : conn'[d] = conn[d]
  BY DEF IInv, TypeInv
<1>4. checked' = checked /\ UNCHANGED <<ctx, semVars, phase, hc>>
  BY DEF hcVars
<1>5. /\ TypeInv' /\ CheckInv' /\ CountInv' /\ PhaseInv'
      /\ state'[k] = w /\ \A l \in Conn \ {k} : state'[l] = state[l]
  <2>1. checked' \in SUBSET checked
    BY <1>4
  <2>4. /\ pc' \in [Caller -> Places] /\ QueueInv' /\ IsFiniteSet(Where(pc, WithToken)')
        /\ Tokens \in Nat /\ Tokens' \in Nat /\ conn' \in [Caller -> Conn \cup {NoConn}]
    BY <1>1, <1>3
  <2>5. QED
    BY <1>2, <1>4, <2>1, <2>4, ResourceMoves
<1>6. HoldInv'
  <2>1. k # NoConn /\ \A d \in Caller : conn[d] \in Conn \cup {NoConn}
    BY PoolAssumption DEF IInv, TypeInv
  <2>2. ASSUME NEW d \in Caller
        PROVE  /\ pc'[d] = "holding" => /\ conn'[d] \in Conn /\ state'[conn'[d]] = "acquired"
                                         /\ conn'[d] \notin checked'
               /\ pc'[d] = "waiting" /\ conn'[d] # NoConn => state'[conn'[d]] \in {"constructing", "built"}
               /\ pc'[d] \notin {"holding", "waiting"} => conn'[d] = NoConn
    <3>1. CASE d = c
      BY <1>1, <1>3, <1>4, <1>5, <2>1, <3>1
    <3>2. CASE d # c
      <4>1. pc'[d] = pc[d] /\ conn'[d] = conn[d] /\ conn[d] # k
        BY <1>1, <1>3, <3>2
      <4>2. conn[d] # NoConn => state'[conn[d]] = state[conn[d]]
        BY <1>5, <2>1, <4>1
      <4>3. conn[d] \in Conn => conn[d] # NoConn
        BY PoolAssumption
      <4>4. QED
        BY <1>4, <4>1, <4>2, <4>3 DEF IInv, HoldInv
    <3>3. QED
      BY <3>1, <3>2
  <2>3. \A d, e \in Caller : conn'[d] = conn'[e] /\ conn'[d] # NoConn => d = e
    BY <1>3, <2>1 DEF IInv, HoldInv
  <2>4. \A l \in checked' : state'[l] = "acquired"
    BY <1>4, <1>5 DEF IInv, HoldInv, TypeInv
  <2>5. QED
    BY <2>2, <2>3, <2>4 DEF HoldInv
<1>7. QED
  BY <1>1, <1>5, <1>6 DEF IInv

-----------------------------------------------------------------------------
(* The steps of a call.                                                    *)

LEMMA NoConnYet ==
    ASSUME IInv, NEW c \in Caller, pc[c] \notin {"holding", "waiting"}
    PROVE  conn = [conn EXCEPT ![c] = NoConn]
BY DEF IInv, TypeInv, HoldInv

LEMMA AloneSteps ==
    ASSUME IInv, NEW c \in Caller, Ask(c) \/ Wake(c) \/ TakeToken(c) \/ StopWaiting(c)
    PROVE  IInv'
<1> USE DEF callVars, semVars
<1>1. CASE Ask(c)
  <2>1. conn' = [conn EXCEPT ![c] = NoConn]
    BY <1>1, NoConnYet DEF Ask
  <2>2. QED
    BY <1>1, <2>1, CallAlone DEF Ask, IInv, TypeInv, Places, WithToken
<1>2. CASE Wake(c)
  <2>1. conn' = [conn EXCEPT ![c] = NoConn]
    BY <1>2, NoConnYet DEF Wake
  <2>2. QED
    BY <1>2, <2>1, CallAlone DEF Wake, IInv, TypeInv, Places, WithToken
<1>3. CASE TakeToken(c)
  <2>1. conn' = [conn EXCEPT ![c] = NoConn]
    BY <1>3, NoConnYet DEF TakeToken
  <2>2. free \in Nat /\ free >= 1
    BY <1>3 DEF TakeToken, TryAcquire, IInv, TypeInv
  <2>3. free - 1 \in Nat /\ free = (free - 1) + 1
    BY ONLY <2>2
  <2>4. free' \in Nat /\ free = free' + 1
    BY <1>3, <2>3, Zenon DEF TakeToken
  <2>5. QED
    BY <1>3, <2>1, <2>4, CallAlone DEF TakeToken, IInv, TypeInv, Places, WithToken
<1>4. CASE StopWaiting(c)
  BY <1>4, CallAlone DEF StopWaiting, IInv, TypeInv, Places, WithToken
<1>5. QED
  BY <1>1, <1>2, <1>3, <1>4

LEMMA BackSteps == ASSUME IInv, NEW c \in Caller, PutBack(c) \/ FindClosed(c) PROVE IInv'
BY TokenBack DEF PutBack, FindClosed, Enter, WithToken

LEMMA ExpireStep == ASSUME IInv, NEW c \in Caller, Expire(c) PROVE IInv'
<1> USE DEF Expire, semVars, poolVars, hcVars
<1>1. ctx' \in [Caller -> {"live", "done"}]
  BY DEF IInv, TypeInv
<1>2. QED
  BY <1>1 DEF IInv, TypeInv, QueueInv, Lined, CheckInv, CountInv, HoldInv, PhaseInv, Idle, Where, MaxSize

LEMMA EnqueueStep == ASSUME IInv, NEW c \in Caller, Enqueue(c) PROVE IInv'
<1>1. /\ pc[c] = "asking" /\ pc' = [pc EXCEPT ![c] = "queued"] /\ queue' = Append(queue, c)
      /\ UNCHANGED <<ctx, conn, free, poolVars, hcVars>>
  BY DEF Enqueue
<1>2. /\ queue' \in Seq(Caller) /\ Len(queue) \in Nat
      /\ DOMAIN queue = 1 .. Len(queue) /\ DOMAIN queue' = 1 .. Len(queue) + 1
      /\ \A j \in DOMAIN queue : queue'[j] = queue[j] /\ queue[j] \in Caller
      /\ queue'[Len(queue) + 1] = c
  BY <1>1 DEF IInv, TypeInv
<1>3. pc'[c] = "queued" /\ \A d \in Caller \ {c} : pc'[d] = pc[d]
  BY <1>1 DEF IInv, TypeInv
<1>4. \A j \in DOMAIN queue : queue[j] # c /\ pc'[queue[j]] = "queued"
  BY <1>1, <1>2, <1>3 DEF IInv, QueueInv, Lined
<1>5. \A j \in DOMAIN queue' : j \in DOMAIN queue \/ j = Len(queue) + 1
  BY <1>2
<1>6. QueueInv'
  <2>1. \A j \in DOMAIN queue' : pc'[queue'[j]] = "queued"
    BY <1>2, <1>3, <1>4, <1>5
  <2>2. \A j, l \in DOMAIN queue' : queue'[j] = queue'[l] => j = l
    BY <1>2, <1>4, <1>5 DEF IInv, QueueInv, Lined
  <2>3. ASSUME NEW d \in Caller, pc'[d] = "queued" PROVE \E j \in DOMAIN queue' : queue'[j] = d
    <3>1. CASE d = c
      BY <1>2, <3>1
    <3>2. CASE d # c
      <4>1. PICK j \in DOMAIN queue : queue[j] = d
        BY <1>3, <2>3, <3>2 DEF IInv, QueueInv, Lined
      <4>2. j \in DOMAIN queue' /\ queue'[j] = d
        BY <1>2, <4>1
      <4>3. QED
        BY <4>2
    <3>3. QED
      BY <3>1, <3>2
  <2>4. QED
    BY <2>1, <2>2, <2>3 DEF QueueInv, Lined
<1>7. QED
  BY <1>1, <1>2, <1>6, LineMoves DEF Places

LEMMA GiveUpStep == ASSUME IInv, NEW c \in Caller, GiveUp(c) PROVE IInv'
<1>1. /\ pc[c] \in {"asking", "queued"} /\ pc' = [pc EXCEPT ![c] = "out"]
      /\ UNCHANGED <<ctx, conn, free, poolVars, hcVars>>
  BY DEF GiveUp
<1>2. pc'[c] = "out" /\ \A d \in Caller \ {c} : pc'[d] = pc[d]
  BY <1>1 DEF IInv, TypeInv
<1>3. \A j \in DOMAIN queue : queue[j] \in Caller
  BY DEF IInv, TypeInv
<1>4. queue' \in Seq(Caller) /\ QueueInv'
  <2>1. CASE pc[c] = "asking" /\ UNCHANGED queue
    BY <1>2, <1>3, <2>1 DEF IInv, TypeInv, QueueInv, Lined
  <2>2. CASE \E j \in DOMAIN queue : queue[j] = c /\ queue' = RemoveAt(queue, j)
    <3>1. PICK i \in DOMAIN queue : queue[i] = c /\ queue' = RemoveAt(queue, i)
      BY <2>2
    <3>2. /\ queue' \in Seq(Caller) /\ Len(queue') = Len(queue) - 1
          /\ \A l \in 1 .. Len(queue) - 1 : queue'[l] = IF l < i THEN queue[l] ELSE queue[l + 1]
      BY <3>1, RemovedOnce DEF IInv, TypeInv
    <3>3. DOMAIN queue = 1 .. Len(queue) /\ DOMAIN queue' = 1 .. Len(queue) - 1 /\ Len(queue) \in Nat
      BY <3>2 DEF IInv, TypeInv
    <3> DEFINE from(l) == IF l < i THEN l ELSE l + 1
    <3>4. \A l \in DOMAIN queue' : from(l) \in DOMAIN queue /\ queue'[l] = queue[from(l)] /\ from(l) # i
      BY <3>2, <3>3
    <3>5. \A j, l \in DOMAIN queue' : from(j) = from(l) => j = l
      BY <3>3
    <3>6. \A m \in DOMAIN queue : m # i => \E l \in DOMAIN queue' : from(l) = m
      <4>1. TAKE m \in DOMAIN queue
      <4>2. HAVE m # i
      <4>3. CASE m < i
        BY <3>3, <4>3
      <4>4. CASE ~(m < i)
        <5>1. m - 1 \in DOMAIN queue' /\ from(m - 1) = m
          BY <3>3, <4>2, <4>4
        <5>2. QED
          BY <5>1
      <4>5. QED
        BY <4>3, <4>4
    <3> HIDE DEF from
    <3>7. \A j \in DOMAIN queue' : pc'[queue'[j]] = "queued"
      <4>1. TAKE j \in DOMAIN queue'
      <4>2. queue[from(j)] # c /\ pc[queue[from(j)]] = "queued"
        BY <3>1, <3>4 DEF IInv, QueueInv, Lined
      <4>3. QED
        BY <1>2, <1>3, <3>4, <4>2
    <3>8. \A j, l \in DOMAIN queue' : queue'[j] = queue'[l] => j = l
      BY <3>4, <3>5 DEF IInv, QueueInv, Lined
    <3>9. ASSUME NEW d \in Caller, pc'[d] = "queued" PROVE \E j \in DOMAIN queue' : queue'[j] = d
      <4>1. PICK m \in DOMAIN queue : queue[m] = d
        BY <1>2, <3>9 DEF IInv, QueueInv, Lined
      <4>2. m # i
        BY <1>2, <3>1, <3>9, <4>1
      <4>3. PICK l \in DOMAIN queue' : from(l) = m
        BY <3>6, <4>2
      <4>4. QED
        BY <3>4, <4>1, <4>3
    <3>10. QED
      BY <3>2, <3>7, <3>8, <3>9 DEF QueueInv, Lined
  <2>3. QED
    BY <2>1, <2>2 DEF GiveUp
<1>5. QED
  BY <1>1, <1>4, LineMoves DEF Places


LEMMA TakeIdleStep == ASSUME IInv, NEW c \in Caller, TakeIdle(c) PROVE IInv'
<1>1. PICK k \in Idle : state' = [state EXCEPT ![k] = "acquired"] /\ conn' = [conn EXCEPT ![c] = k]
  BY DEF TakeIdle
<1>2. /\ k \in Conn /\ state[k] = "idle" /\ phase = "open" /\ pc[c] = "token"
      /\ pc' = [pc EXCEPT ![c] = "holding"] /\ UNCHANGED <<ctx, semVars, phase, hcVars>> /\ wg' = wg
  BY <1>1 DEF TakeIdle, Idle, Enter
<1>3. k \notin checked /\ \A d \in Caller \ {c} : conn[d] # k
  BY <1>2, PoolAssumption DEF IInv, HoldInv
<1>4. wg' \in Nat /\ Follows(wg, wg', state[k], "acquired", Counted)
  BY <1>2 DEF IInv, TypeInv, Follows, Counted, Status
<1>5. QED
  BY <1>1, <1>2, <1>3, <1>4, CallAndResource DEF Places, Status, Taken, Counted, WithToken

LEMMA CreateStep == ASSUME IInv, NEW c \in Caller, Create(c) PROVE IInv'
<1>1. PICK k \in Conn : /\ state[k] = "none" /\ state' = [state EXCEPT ![k] = "constructing"]
                        /\ conn' = [conn EXCEPT ![c] = k]
  BY DEF Create
<1>2. /\ phase = "open" /\ pc[c] = "token" /\ pc' = [pc EXCEPT ![c] = "waiting"]
      /\ UNCHANGED <<ctx, semVars, phase, hcVars>> /\ wg' = wg + 1
  BY DEF Create, Enter
<1>3. k \notin checked /\ \A d \in Caller \ {c} : conn[d] # k
  BY <1>1, PoolAssumption DEF IInv, HoldInv
<1>4. wg' \in Nat /\ Follows(wg, wg', state[k], "constructing", Counted)
  BY <1>1, <1>2 DEF IInv, TypeInv, Follows, Counted, Status
<1>5. QED
  BY <1>1, <1>2, <1>3, <1>4, CallAndResource DEF Places, Status, Taken, Counted, WithToken

LEMMA DestroyStep == ASSUME IInv, NEW c \in Caller, Destroy(c) PROVE IInv'
<1>1. PICK v \in {"out", "asking"} : pc' = [pc EXCEPT ![c] = v]
  BY DEF Destroy
<1> DEFINE k == conn[c]
<1>2. /\ pc[c] = "holding" /\ state' = [state EXCEPT ![k] = "destroying"]
      /\ conn' = [conn EXCEPT ![c] = NoConn] /\ UNCHANGED <<ctx, semVars, phase, hcVars>> /\ wg' = wg
  BY DEF Destroy
<1>3. /\ k \in Conn /\ state[k] = "acquired" /\ k \notin checked /\ \A d \in Caller \ {c} : conn[d] # k
  BY <1>2, PoolAssumption DEF IInv, HoldInv
<1> HIDE DEF k
<1>4. wg' \in Nat /\ Follows(wg, wg', state[k], "destroying", Counted)
  BY <1>2, <1>3 DEF IInv, TypeInv, Follows, Counted, Status
<1>5. QED
  BY <1>1, <1>2, <1>3, <1>4, CallAndResource DEF Places, Status, Taken, Counted, WithToken

LEMMA ReturnStep == ASSUME IInv, NEW c \in Caller, Return(c) PROVE IInv'
<1> DEFINE k == conn[c]
           p == [pc EXCEPT ![c] = "out"]
           v == IF phase = "open" THEN "idle" ELSE "dying"
<1>1. /\ pc[c] = "holding" /\ state' = [state EXCEPT ![k] = v] /\ Released(p)
      /\ conn' = [conn EXCEPT ![c] = NoConn]
      /\ ctx' = ctx /\ phase' = phase /\ hc' = hc /\ checked' = checked /\ wg' = wg
  BY DEF Return, PutInPool, hcVars
<1>2. /\ k \in Conn /\ state[k] = "acquired" /\ k \notin checked
      /\ \A d \in Caller \ {c} : conn[d] # k
  BY <1>1, PoolAssumption DEF IInv, HoldInv
<1>3. /\ p \in [Caller -> Places] /\ DOMAIN p = DOMAIN pc /\ c \in DOMAIN pc
      /\ p[c] = "out" /\ \A d \in DOMAIN pc \ {c} : p[d] = pc[d]
  BY DEF IInv, TypeInv, Places
<1>4. conn' \in [Caller -> Conn \cup {NoConn}] /\ conn'[c] = NoConn /\ \A d \in Caller \ {c} : conn'[d] = conn[d]
  BY <1>1 DEF IInv, TypeInv
<1> HIDE DEF k, p
<1>5. Lined(queue, p)
  BY <1>1, <1>3 DEF IInv, QueueInv, Lined, TypeInv
<1>6. IsFiniteSet(Where(p, WithToken)) /\ Cardinality(Where(p, WithToken)) = Tokens
  <2>1. IsFiniteSet(Where(pc, WithToken))
    BY DEF IInv, CountInv
  <2>2. /\ IsFiniteSet(Where(p, WithToken))
        /\ Follows(Cardinality(Where(pc, WithToken)), Cardinality(Where(p, WithToken)), pc[c], "out", WithToken)
    BY ONLY <1>3, <2>1, CountMove
  <2>3. QED
    BY <1>1, <2>2 DEF Follows, WithToken, Tokens
<1>7. wg' \in Nat /\ Follows(wg, wg', state[k], v, Counted)
  BY <1>1, <1>2 DEF IInv, TypeInv, Follows, Counted, Status
<1>8. \A d \in Caller : d = c \/ (p[d] = pc[d] /\ conn'[d] = conn[d] /\ conn[d] # k)
  BY <1>2, <1>3, <1>4 DEF IInv, TypeInv
<1>9. LetGo(k, p)
  BY <1>3, <1>4, <1>5, <1>6, <1>8 DEF IInv, HoldInv, LetGo
<1>10. state[k] \in Taken /\ checked' = checked \ {k} /\ v \in {"idle", "dying", "none"}
       /\ (v = "idle" => phase = "open") /\ (v = "dying" => phase # "open") /\ (state[k] = "destroyed" => v = "none")
  BY <1>1, <1>2 DEF Taken, Status
<1> HIDE DEF v
<1>11. QED
  BY <1>1, <1>2, <1>7, <1>9, <1>10, ResourceBack

-----------------------------------------------------------------------------
(* The steps of a resource, and of the health check once it has its        *)
(* resources.                                                              *)

LEMMA NoneMoved ==
    ASSUME IInv
    PROVE  /\ pc \in [Caller -> Places] /\ Lined(queue, pc)
           /\ IsFiniteSet(Where(pc, WithToken)) /\ Cardinality(Where(pc, WithToken)) = Tokens
BY DEF IInv, TypeInv, QueueInv, CountInv, Tokens

LEMMA ForgottenLetGo ==
    ASSUME IInv, NEW k \in Conn, state[k] \in {"constructing", "built"}, conn' = Forgotten(k)
    PROVE  LetGo(k, pc)
<1>1. conn' \in [Caller -> Conn \cup {NoConn}]
  BY DEF IInv, TypeInv, Forgotten
<1>2. ASSUME NEW c \in Caller
      PROVE  /\ conn'[c] = conn[c] \/ (conn'[c] = NoConn /\ pc[c] = "waiting")
             /\ pc[c] = "waiting" => conn'[c] # k
  BY PoolAssumption DEF Forgotten, WaitingFor
<1>3. \A c \in Caller : pc[c] = "holding" => conn[c] # k
  BY DEF IInv, HoldInv
<1>4. \A c \in Caller : pc[c] \notin {"holding", "waiting"} => conn[c] = NoConn
  BY DEF IInv, HoldInv
<1>5. \A c \in Caller : /\ pc[c] = "holding" => conn[c] # k
                        /\ pc[c] \notin {"holding", "waiting"} => conn'[c] = NoConn
                        /\ conn'[c] = conn[c] \/ (conn'[c] = NoConn /\ pc[c] # "holding")
                        /\ pc[c] = "waiting" => conn'[c] # k
  BY <1>2, <1>3, <1>4
<1>6. QED
  BY <1>1, <1>5, NoneMoved DEF LetGo

LEMMA KeptLetGo ==
    ASSUME IInv, NEW k \in Conn, state[k] = "destroyed" \/ k \in checked, conn' = conn
    PROVE  LetGo(k, pc)
<1>1. conn' \in [Caller -> Conn \cup {NoConn}]
  BY DEF IInv, TypeInv
<1>2. \A c \in Caller : /\ pc[c] = "holding" => conn[c] # k
                        /\ pc[c] \notin {"holding", "waiting"} => conn[c] = NoConn
                        /\ pc[c] = "waiting" => conn[c] # k
  BY PoolAssumption DEF IInv, HoldInv
<1>3. QED
  BY <1>1, <1>2, NoneMoved DEF LetGo

LEMMA ConstructedStep == ASSUME IInv, NEW k \in Conn, Constructed(k) PROVE IInv'
<1>1. /\ state[k] = "constructing" /\ state' = [state EXCEPT ![k] = "built"]
      /\ UNCHANGED <<ctx, semVars, phase, hc>> /\ UNCHANGED <<pc, queue, conn, checked, wg>>
  BY DEF Constructed, callVars, semVars, hcVars
<1>2. /\ QueueInv' /\ IsFiniteSet(Where(pc, WithToken)') /\ Tokens' = Tokens /\ Tokens \in Nat
      /\ pc' \in [Caller -> Places] /\ conn' \in [Caller -> Conn \cup {NoConn}] /\ checked' \in SUBSET checked
  BY <1>1, SameCalls DEF IInv, TypeInv
<1>3. wg' \in Nat /\ Follows(wg, wg', state[k], "built", Counted)
  BY <1>1 DEF IInv, TypeInv, Follows, Counted, Status
<1>4. /\ state[k] \in Counted /\ "built" \in Status \ {"idle", "dying"}
      /\ Tokens' = Tokens /\ (state[k] \in Taken <=> "built" \in Taken)
  BY <1>1, <1>2 DEF Counted, Status, Taken
<1>5. /\ TypeInv' /\ CheckInv' /\ CountInv' /\ PhaseInv'
      /\ state'[k] = "built" /\ \A l \in Conn \ {k} : state'[l] = state[l]
  BY <1>1, <1>2, <1>3, <1>4, ResourceMoves
<1>6. HoldInv'
  BY <1>1, <1>5 DEF IInv, HoldInv, TypeInv
<1>7. QED
  BY <1>2, <1>5, <1>6 DEF IInv

LEMMA CheckDestroysStep == ASSUME IInv, NEW k \in Conn, CheckDestroys(k) PROVE IInv'
<1>1. /\ k \in checked /\ state[k] = "acquired" /\ state' = [state EXCEPT ![k] = "destroying"]
      /\ checked' = checked \ {k}
      /\ UNCHANGED <<ctx, semVars, phase, hc>> /\ UNCHANGED <<pc, queue, conn, wg>>
  BY DEF CheckDestroys, callVars, semVars, hcVars, IInv, HoldInv
<1>2. /\ QueueInv' /\ IsFiniteSet(Where(pc, WithToken)') /\ Tokens' = Tokens /\ Tokens \in Nat
      /\ pc' \in [Caller -> Places] /\ conn' \in [Caller -> Conn \cup {NoConn}] /\ checked' \in SUBSET checked
  BY <1>1, SameCalls DEF IInv, TypeInv
<1>3. wg' \in Nat /\ Follows(wg, wg', state[k], "destroying", Counted)
  BY <1>1 DEF IInv, TypeInv, Follows, Counted, Status
<1>4. /\ state[k] \in Counted /\ "destroying" \in Status \ {"idle", "dying"}
      /\ Tokens' = Tokens /\ (state[k] \in Taken <=> "destroying" \in Taken)
  BY <1>1, <1>2 DEF Counted, Status, Taken
<1>5. /\ TypeInv' /\ CheckInv' /\ CountInv' /\ PhaseInv'
      /\ state'[k] = "destroying" /\ \A l \in Conn \ {k} : state'[l] = state[l]
  BY <1>1, <1>2, <1>3, <1>4, ResourceMoves
<1>6. HoldInv'
  <2>1. \A c \in Caller : conn[c] # k
    BY <1>1, PoolAssumption DEF IInv, HoldInv
  <2>2. QED
    BY <1>1, <1>5, <2>1 DEF IInv, HoldInv, TypeInv
<1>7. QED
  BY <1>2, <1>5, <1>6 DEF IInv

LEMMA DestructedStep == ASSUME IInv, NEW k \in Conn, Destructed(k) PROVE IInv'
<1> DEFINE w == IF state[k] = "dying" THEN "none" ELSE "destroyed"
<1>1. /\ state[k] \in {"destroying", "dying"} /\ state' = [state EXCEPT ![k] = w] /\ wg' = wg - 1
      /\ UNCHANGED <<ctx, semVars, phase, hc>> /\ UNCHANGED <<pc, queue, conn, checked>>
  BY DEF Destructed, callVars, semVars, hcVars
<1>2. /\ QueueInv' /\ IsFiniteSet(Where(pc, WithToken)') /\ Tokens' = Tokens /\ Tokens \in Nat
      /\ pc' \in [Caller -> Places] /\ conn' \in [Caller -> Conn \cup {NoConn}] /\ checked' \in SUBSET checked
  BY <1>1, SameCalls DEF IInv, TypeInv
<1>3. wg # 0
  <2>1. state[k] \in Counted
    BY <1>1 DEF Counted, Status
  <2>2. QED
    BY <2>1, CountConn DEF IInv, TypeInv, CountInv
<1>4. wg - 1 \in Nat /\ wg = (wg - 1) + 1
  BY <1>3 DEF IInv, TypeInv
<1>5. wg' \in Nat /\ wg = wg' + 1
  BY <1>1, <1>4, Zenon
<1>6. state[k] \in Counted /\ w \notin Counted /\ w \in Status \ {"idle", "dying"} /\ (state[k] \in Taken <=> w \in Taken)
  BY <1>1 DEF Counted, Status, Taken
<1> HIDE DEF w
<1>7. Follows(wg, wg', state[k], w, Counted)
  BY <1>5, <1>6, Zenon DEF Follows
<1>8. /\ TypeInv' /\ CheckInv' /\ CountInv' /\ PhaseInv'
      /\ state'[k] = w /\ \A l \in Conn \ {k} : state'[l] = state[l]
  BY <1>1, <1>2, <1>5, <1>6, <1>7, ResourceMoves
<1>9. HoldInv'
  <2>1. \A c \in Caller : conn[c] # k
    BY <1>1, PoolAssumption DEF IInv, HoldInv
  <2>2. k \notin checked
    BY <1>1 DEF IInv, HoldInv
  <2>3. QED
    BY <1>1, <1>8, <2>1, <2>2 DEF IInv, HoldInv, TypeInv
<1>10. QED
  BY <1>2, <1>8, <1>9 DEF IInv

LEMMA HandOverStep == ASSUME IInv, NEW k \in Conn, HandOver(k) PROVE IInv'
<1>1. PICK c \in WaitingFor(k) : pc' = [pc EXCEPT ![c] = "holding"]
  BY DEF HandOver
<1>2. /\ c \in Caller /\ pc[c] = "waiting" /\ conn[c] = k
      /\ state[k] = "built" /\ state' = [state EXCEPT ![k] = "acquired"]
      /\ UNCHANGED <<ctx, semVars, phase, hcVars>> /\ wg' = wg /\ conn' = conn
  BY <1>1 DEF HandOver, WaitingFor
<1>3. conn' = [conn EXCEPT ![c] = k]
  BY <1>2 DEF IInv, TypeInv
<1>4. k \notin checked /\ \A d \in Caller \ {c} : conn[d] # k
  BY <1>2, PoolAssumption DEF IInv, HoldInv
<1>5. wg' \in Nat /\ Follows(wg, wg', state[k], "acquired", Counted)
  BY <1>2 DEF IInv, TypeInv, Follows, Counted, Status
<1>6. /\ (pc[c] \in WithToken <=> "holding" \in WithToken) /\ (state[k] \in Taken <=> "acquired" \in Taken)
      /\ "acquired" \in Status \ {"idle", "dying"} /\ "holding" \in Places /\ state[k] \in Counted
      /\ pc[c] # "queued"
  BY <1>2 DEF WithToken, Taken, Status, Places, Counted
<1>7. UNCHANGED <<ctx, semVars, phase, hcVars>>
  BY <1>2
<1>8. state' = [state EXCEPT ![k] = "acquired"]
  BY <1>2
<1>9. c \in Caller
  BY <1>2
<1>10. QED
  BY <1>1, <1>3, <1>4, <1>5, <1>6, <1>7, <1>8, <1>9, CallAndResource

LEMMA ConstructionFailedStep == ASSUME IInv, NEW k \in Conn, ConstructionFailed(k) PROVE IInv'
<1>1. /\ state[k] = "constructing" /\ state' = [state EXCEPT ![k] = "none"] /\ wg' = wg - 1
      /\ Released(pc) /\ conn' = Forgotten(k) /\ UNCHANGED <<ctx, phase, hc, checked>>
  BY DEF ConstructionFailed, hcVars
<1>2. wg # 0
  <2>1. state[k] \in Counted
    BY <1>1 DEF Counted, Status
  <2>2. QED
    BY <2>1, CountConn DEF IInv, TypeInv, CountInv
<1>3. wg - 1 \in Nat /\ wg = (wg - 1) + 1
  BY <1>2 DEF IInv, TypeInv
<1>4. wg' \in Nat /\ wg = wg' + 1
  BY <1>1, <1>3, Zenon
<1>5. state[k] \in Counted /\ "none" \notin Counted /\ state[k] \in Taken /\ checked = checked \ {k}
  BY <1>1 DEF Counted, Status, Taken, IInv, HoldInv
<1>6. Follows(wg, wg', state[k], "none", Counted)
  BY <1>4, <1>5, Zenon DEF Follows
<1>7. LetGo(k, pc)
  BY <1>1, ForgottenLetGo
<1>8. checked' = checked \ {k} /\ UNCHANGED <<ctx, phase, hc>> /\ state[k] # "destroyed"
  BY <1>1, <1>5
<1>9. QED
  BY <1>1, <1>4, <1>5, <1>6, <1>7, <1>8, ResourceBack

(* PutInPool: a resource that a call lets go is idle, or dying in a closed *)
(* pool.                                                                   *)
LEMMA PutInPoolStep ==
    ASSUME IInv, NEW k \in Conn, state[k] \in {"built", "acquired"}, LetGo(k, pc), PutInPool(k, pc),
           wg' = wg, checked' = checked \ {k}, UNCHANGED <<ctx, phase, hc>>
    PROVE  IInv'
<1> DEFINE v == IF phase = "open" THEN "idle" ELSE "dying"
<1>1. state' = [state EXCEPT ![k] = v] /\ Released(pc)
  BY DEF PutInPool
<1>2. state[k] \in Taken /\ v \in {"idle", "dying", "none"} /\ state[k] # "destroyed"
      /\ (v = "idle" => phase = "open") /\ (v = "dying" => phase # "open")
  BY DEF Taken, Status
<1>3. wg' \in Nat /\ Follows(wg, wg', state[k], v, Counted)
  BY DEF IInv, TypeInv, Follows, Counted, Status
<1> HIDE DEF v
<1>4. QED
  BY <1>1, <1>2, <1>3, ResourceBack

LEMMA NotWantedStep == ASSUME IInv, NEW k \in Conn, NotWanted(k) PROVE IInv'
<1>1. /\ state[k] = "built" /\ PutInPool(k, pc) /\ conn' = Forgotten(k)
      /\ UNCHANGED <<ctx, wg, phase, hc, checked>>
  BY DEF NotWanted, hcVars
<1>2. checked' = checked \ {k}
  BY <1>1 DEF IInv, HoldInv
<1>3. LetGo(k, pc)
  BY <1>1, ForgottenLetGo
<1>4. QED
  BY <1>1, <1>2, <1>3, PutInPoolStep

LEMMA CheckReturnsStep == ASSUME IInv, NEW k \in Conn, CheckReturns(k) PROVE IInv'
<1>1. /\ k \in checked /\ state[k] = "acquired" /\ PutInPool(k, pc) /\ conn' = conn
      /\ checked' = checked \ {k} /\ UNCHANGED <<ctx, wg, phase, hc>>
  BY DEF CheckReturns, IInv, HoldInv
<1>2. LetGo(k, pc)
  BY <1>1, KeptLetGo
<1>3. QED
  BY <1>1, <1>2, PutInPoolStep

LEMMA RemovedStep == ASSUME IInv, NEW k \in Conn, Removed(k) PROVE IInv'
<1>1. /\ state[k] = "destroyed" /\ state' = [state EXCEPT ![k] = "none"] /\ Released(pc)
      /\ UNCHANGED <<ctx, conn, wg, phase, hc, checked>>
  BY DEF Removed, hcVars
<1>2. LetGo(k, pc)
  BY <1>1, KeptLetGo
<1>3. state[k] \in Taken /\ checked' = checked \ {k}
  BY <1>1 DEF Taken, Status, IInv, HoldInv
<1>4. wg' \in Nat /\ Follows(wg, wg', state[k], "none", Counted)
  BY <1>1 DEF IInv, TypeInv, Follows, Counted, Status
<1>5. QED
  BY <1>1, <1>2, <1>3, <1>4, ResourceBack

-----------------------------------------------------------------------------
(* The steps of AcquireAllIdle, and of Close.                              *)

CheckType == [at : {"away", "all", "bits", "pop"}, num : 0 .. MaxSize, bit : 0 .. MaxSize, got : Nat]

(* Tokens pass between the semaphore and the health check.                 *)
LEMMA CheckTakes ==
    ASSUME IInv, hc' \in CheckType, free' \in Nat, CheckInv',
           NEW n \in Nat, free = free' + n, hc'.got = hc.got + n,
           UNCHANGED <<callVars, queue, poolVars, checked>>
    PROVE  IInv'
<1> USE DEF callVars, poolVars
<1>1. TypeInv'
  BY DEF IInv, TypeInv, CheckType, MaxSize
<1>2. QueueInv' /\ IsFiniteSet(Where(pc, WithToken)') /\ Tokens' = Tokens /\ Tokens \in Nat
  BY SameCalls DEF IInv
<1>3. CountInv'
  <2>1. Out' = Out /\ Running' = Running /\ Out \in Nat /\ hc.got \in Nat /\ free \in Nat
    BY SameConn, ConnTypes DEF IInv, TypeInv
  <2>2. PICK b, g \in Nat : b = free' /\ g = hc'.got
    BY DEF CheckType
  <2>3. free = b + n /\ g = hc.got + n
    BY <2>2, Zenon
  <2>4. b + Tokens + g + Out = free + Tokens + hc.got + Out
    BY ONLY <1>2, <2>1, <2>3
  <2>5. free + Tokens + hc.got + Out = MaxSize /\ wg = Running /\ wg' = wg
    BY Counts DEF IInv
  <2>6. free' + Tokens' + hc.got' + Out' = MaxSize /\ wg' = Running'
    BY <1>2, <2>1, <2>2, <2>4, <2>5, Zenon
  <2>7. QED
    BY <1>2, <2>6, CountsNext, Zenon
<1>4. HoldInv' /\ PhaseInv'
  BY DEF IInv, HoldInv, PhaseInv, Idle
<1>5. QED
  BY <1>1, <1>2, <1>3, <1>4 DEF IInv

LEMMA IdleCount ==
    ASSUME IInv
    PROVE  /\ IsFiniteSet(Idle) /\ Cardinality(Idle) \in 0 .. MaxSize /\ MaxSize \in Nat
           /\ Cardinality(Idle) = 0 <=> Idle = {}
<1>1. state \in [Conn -> Status]
  BY DEF IInv, TypeInv
<1>2. Idle = Where(state, {"idle"})
  BY <1>1 DEF Idle, Where
<1>3. IsFiniteSet(Idle) /\ Cardinality(Idle) \in 0 .. MaxSize /\ MaxSize \in Nat
  BY <1>1, <1>2, CountConn
<1>4. QED
  BY <1>3, FS_EmptySet

LEMMA StartCheckStep == ASSUME IInv, StartCheck PROVE IInv'
<1>1. /\ hc.at = "away" /\ checked = {} /\ hc' = [at |-> "all", num |-> Cardinality(Idle), bit |-> 0, got |-> 0]
      /\ UNCHANGED <<callVars, semVars, poolVars, checked>>
  BY DEF StartCheck, Away
<1>2. hc' \in CheckType /\ hc'.got = 0 /\ hc.got = 0
  BY <1>1, IdleCount DEF CheckType, IInv, CheckInv
<1>3. CheckInv'
  <2>1. Cardinality(Idle) # 0
    BY IdleCount DEF StartCheck
  <2>2. QED
    BY <1>1, <2>1 DEF CheckInv
<1>4. free' = free /\ free \in Nat /\ free = free + 0 /\ hc'.got = hc.got + 0 /\ UNCHANGED queue
  BY <1>1, <1>2 DEF IInv, TypeInv, semVars
<1>5. free' \in Nat /\ free = free' + 0
  BY <1>4, Zenon
<1>6. QED
  BY <1>1, <1>2, <1>3, <1>4, <1>5, CheckTakes

LEMMA AcquireAllStep == ASSUME IInv, AcquireAll PROVE IInv'
<1>1. hc.at = "all" /\ hc \in CheckType /\ hc.got = 0 /\ checked = {} /\ free \in Nat /\ MaxSize \in Nat
  BY ConnTypes DEF AcquireAll, IInv, CheckInv, TypeInv, CheckType
<1>2. UNCHANGED <<callVars, queue, poolVars, checked>>
  BY DEF AcquireAll
<1>3. CASE TryAcquire(hc.num)
  <2>1. free' = free - hc.num /\ hc' = [hc EXCEPT !.at = "pop", !.got = hc.num] /\ free >= hc.num
    BY <1>3 DEF AcquireAll, TryAcquire
  <2>2. hc.num \in Nat /\ free - hc.num \in Nat /\ free = (free - hc.num) + hc.num /\ hc.num = 0 + hc.num
    BY <1>1, <2>1 DEF CheckType
  <2>3. hc' \in CheckType /\ hc'.got = hc.num /\ hc'.at = "pop"
    BY <1>1, <2>1, <2>2 DEF CheckType
  <2>4. free' \in Nat /\ free = free' + hc.num /\ hc'.got = hc.got + hc.num
    BY <1>1, <2>1, <2>2, <2>3, Zenon
  <2>5. CheckInv'
    BY <1>1, <1>2, <2>3 DEF CheckInv
  <2>6. QED
    BY <1>2, <2>2, <2>3, <2>4, <2>5, CheckTakes, Zenon
<1>4. CASE ~TryAcquire(hc.num)
  <2>1. free' = free /\ hc' = [hc EXCEPT !.at = "bits", !.bit = HighestBit(hc.num)]
    BY <1>4 DEF AcquireAll
  <2>2. hc.num \in Nat \ {0} /\ hc.num <= MaxSize
    BY <1>1 DEF IInv, CheckInv, CheckType
  <2>3. PICK h \in 1 .. MaxSize : h = HighestBit(hc.num)
    BY <1>1, <2>2, HighestBitType
  <2>4. hc' \in CheckType /\ hc'.got = 0 /\ hc'.at = "bits" /\ hc'.bit # 0
    <3>1. hc' = [hc EXCEPT !.at = "bits", !.bit = h]
      BY <2>1, <2>3, Zenon
    <3>2. h \in 0 .. MaxSize /\ h # 0
      BY <1>1, <2>3
    <3>3. hc' \in CheckType
      BY ONLY <1>1, <3>1, <3>2 DEF CheckType
    <3>4. hc'.got = 0 /\ hc'.at = "bits" /\ hc'.bit # 0
      BY ONLY <1>1, <3>1, <3>2 DEF CheckType
    <3>5. QED
      BY <3>3, <3>4
  <2>5. free = free + 0 /\ 0 = 0 + 0
    BY <1>1
  <2>6. free' \in Nat /\ free = free' + 0 /\ hc'.got = hc.got + 0
    BY <1>1, <2>1, <2>4, <2>5, Zenon
  <2>7. CheckInv'
    BY <1>1, <1>2, <2>4 DEF CheckInv
  <2>8. 0 \in Nat
    OBVIOUS
  <2>9. QED
    BY <1>2, <2>4, <2>6, <2>7, <2>8, CheckTakes, Zenon
<1>5. QED
  BY <1>3, <1>4

LEMMA AcquireBitStep == ASSUME IInv, AcquireBit PROVE IInv'
<1> DEFINE val == IF TryAcquire(hc.bit) THEN hc.bit ELSE 0
<1>1. hc.at = "bits" /\ hc \in CheckType /\ hc.bit # 0 /\ checked = {} /\ free \in Nat /\ MaxSize \in Nat
  BY ConnTypes DEF AcquireBit, IInv, CheckInv, TypeInv, CheckType
<1>2. /\ free' = free - val
      /\ hc' = [hc EXCEPT !.at = IF hc.bit = 1 THEN "pop" ELSE "bits", !.bit = hc.bit \div 2, !.got = hc.got + val]
      /\ UNCHANGED <<callVars, queue, poolVars, checked>>
  BY DEF AcquireBit
<1>3. val \in Nat /\ val <= free
  BY <1>1 DEF TryAcquire, CheckType
<1> HIDE DEF val
<1>4. hc.bit \div 2 \in 0 .. MaxSize /\ (hc.bit # 1 => hc.bit \div 2 # 0)
  <2>1. hc.bit \in Nat /\ hc.bit # 0 /\ hc.bit <= MaxSize
    BY <1>1 DEF CheckType
  <2>2. \A b, m \in Nat : b # 0 /\ b <= m => b \div 2 \in 0 .. m /\ (b # 1 => b \div 2 # 0)
    OBVIOUS
  <2>3. QED
    BY <1>1, <2>1, <2>2
<1>5. PICK h \in 0 .. MaxSize : h = hc.bit \div 2 /\ (hc.bit # 1 => h # 0)
  BY <1>4, Zenon
<1>6. hc' = [hc EXCEPT !.at = IF hc.bit = 1 THEN "pop" ELSE "bits", !.bit = h, !.got = hc.got + val]
  BY <1>2, <1>5, Zenon
<1>7. hc' \in CheckType /\ hc'.got = hc.got + val
  <2>1. hc.got + val \in Nat
    BY <1>1, <1>3 DEF CheckType
  <2>2. PICK g \in Nat : g = hc.got + val
    BY <2>1, Zenon
  <2>3. hc' = [hc EXCEPT !.at = IF hc.bit = 1 THEN "pop" ELSE "bits", !.bit = h, !.got = g]
    BY <1>6, <2>2, Zenon
  <2>4. hc' \in CheckType
    BY ONLY <1>1, <1>5, <2>3 DEF CheckType
  <2>5. hc'.got = g
    BY ONLY <1>1, <2>3 DEF CheckType
  <2>6. QED
    BY <2>2, <2>4, <2>5, Zenon
<1>8. CheckInv'
  BY <1>1, <1>2, <1>5, <1>6 DEF CheckInv, CheckType
<1>9. free - val \in Nat /\ free = (free - val) + val
  BY <1>1, <1>3
<1>10. free' \in Nat /\ free = free' + val
  BY <1>2, <1>9, Zenon
<1>11. QED
  BY <1>2, <1>3, <1>7, <1>8, <1>10, CheckTakes, Zenon

LEMMA PopIdleStep == ASSUME IInv, PopIdle PROVE IInv'
<1>1. PICK K \in SUBSET Idle : /\ Cardinality(K) = hc.got /\ checked' = K
                               /\ state' = [k \in Conn |-> IF k \in K THEN "acquired" ELSE state[k]]
  BY DEF PopIdle
<1>2. /\ hc.at = "pop" /\ hc' = [at |-> "away", num |-> 0, bit |-> 0, got |-> 0]
      /\ UNCHANGED <<pc, ctx, conn, free, queue, wg, phase>>
  BY DEF PopIdle, Away, callVars, semVars
<1>3. /\ K \in SUBSET Conn /\ \A k \in K : state[k] = "idle" /\ state'[k] = "acquired"
      /\ \A k \in Conn \ K : state'[k] = state[k]
      /\ state \in [Conn -> Status] /\ state' \in [Conn -> Status]
  BY <1>1 DEF Idle, IInv, TypeInv, Status
<1>4. TypeInv'
  BY <1>1, <1>2, <1>3, ConnTypes DEF IInv, TypeInv, MaxSize
<1>5. QueueInv' /\ IsFiniteSet(Where(pc, WithToken)') /\ Tokens' = Tokens /\ Tokens \in Nat
  BY <1>2, SameCalls DEF IInv
<1>6. CheckInv'
  BY <1>2 DEF CheckInv
<1>7. CountInv'
  <2>1. /\ Where(state', Taken) = Where(state, Taken) \cup K /\ Where(state, Taken) \cap K = {}
        /\ Where(state', Counted) = Where(state, Counted)
    BY <1>3 DEF Where, Taken, Counted, Status
  <2>2. IsFiniteSet(Where(state, Taken)) /\ IsFiniteSet(K)
    BY <1>3, CountConn, FS_Subset, PoolAssumption
  <2>3. Cardinality(Where(state', Taken)) = Cardinality(Where(state, Taken)) + Cardinality(K)
    <3>1. /\ Cardinality(Where(state, Taken) \cup K) =
                Cardinality(Where(state, Taken)) + Cardinality(K) - Cardinality(Where(state, Taken) \cap K)
          /\ Cardinality(Where(state, Taken)) \in Nat /\ Cardinality(K) \in Nat
      BY ONLY <2>2, FS_Union, FS_CardinalityType
    <3>2. Cardinality(Where(state, Taken) \cap K) = 0
      BY <2>1, FS_EmptySet
    <3>3. QED
      BY <2>1, <3>1, <3>2
  <2>4. Where(state, Taken)' = Where(state', Taken) /\ Where(state, Counted)' = Where(state', Counted)
    BY DEF Where
  <2>5. Out' = Out + hc.got /\ Running' = Running
    BY <1>1, <2>1, <2>3, <2>4, Zenon DEF Out, Running
  <2>6. Out \in Nat /\ free \in Nat /\ hc.got \in Nat
    BY ConnTypes DEF IInv, TypeInv
  <2>7. free + Tokens + 0 + (Out + hc.got) = free + Tokens + hc.got + Out
    BY <1>5, <2>6
  <2>8. free + Tokens + hc.got + Out = MaxSize /\ wg = Running
    BY Counts DEF IInv
  <2>9. free' = free /\ hc'.got = 0 /\ wg' = wg
    BY <1>2
  <2>10. free' + Tokens' + hc.got' + Out' = MaxSize /\ wg' = Running'
    BY <1>5, <2>5, <2>7, <2>8, <2>9, Zenon
  <2>11. QED
    BY <1>5, <2>10, CountsNext, Zenon
<1>8. HoldInv'
  <2>1. checked' = K /\ \A c \in Caller : conn[c] \notin K
    <3>1. \A c \in Caller : conn[c] \in K => state[conn[c]] = "idle" /\ conn[c] # NoConn
      BY <1>3, PoolAssumption
    <3>2. QED
      BY <1>1, <3>1 DEF IInv, HoldInv
  <2>2. \A c \in Caller : conn[c] \in Conn => state'[conn[c]] = state[conn[c]]
    BY <1>3, <2>1
  <2>3. \A c \in Caller : conn[c] \in Conn \cup {NoConn}
    BY DEF IInv, TypeInv
  <2>4. QED
    BY <1>2, <1>3, <2>1, <2>2, <2>3 DEF IInv, HoldInv
<1>9. PhaseInv'
  BY <1>1, <1>2, <1>3 DEF IInv, PhaseInv, Idle
<1>10. QED
  BY <1>4, <1>5, <1>6, <1>7, <1>8, <1>9 DEF IInv

LEMMA CloseStep == ASSUME IInv, Close PROVE IInv'
<1>1. /\ phase = "open" /\ phase' = "closing"
      /\ state' = [k \in Conn |-> IF k \in Idle THEN "dying" ELSE state[k]]
      /\ UNCHANGED <<pc, ctx, conn, free, queue, wg, hc, checked>>
  BY DEF Close, callVars, semVars, hcVars
<1>2. /\ state \in [Conn -> Status] /\ state' \in [Conn -> Status]
      /\ \A k \in Conn : state'[k] = IF state[k] = "idle" THEN "dying" ELSE state[k]
  BY <1>1 DEF Idle, IInv, TypeInv, Status
<1>3. TypeInv'
  BY <1>1, <1>2 DEF IInv, TypeInv, MaxSize
<1>4. QueueInv' /\ IsFiniteSet(Where(pc, WithToken)') /\ Tokens' = Tokens /\ Tokens \in Nat
  BY <1>1, SameCalls DEF IInv
<1>5. CountInv'
  <2>1. Where(state', Taken) = Where(state, Taken) /\ Where(state', Counted) = Where(state, Counted)
    BY <1>2 DEF Where, Taken, Counted, Status
  <2>2. Where(state, Taken)' = Where(state', Taken) /\ Where(state, Counted)' = Where(state', Counted)
    BY DEF Where
  <2>3. Out' = Out /\ Running' = Running
    BY <2>1, <2>2, Zenon DEF Out, Running
  <2>4. free + Tokens + hc.got + Out = MaxSize /\ wg = Running
    BY Counts DEF IInv
  <2>5. free' = free /\ hc' = hc /\ wg' = wg
    BY <1>1
  <2>6. free' + Tokens' + hc.got' + Out' = MaxSize /\ wg' = Running'
    BY <1>4, <2>3, <2>4, <2>5, Zenon
  <2>7. QED
    BY <1>4, <2>6, CountsNext, Zenon
<1>6. CheckInv'
  BY <1>1 DEF IInv, CheckInv
<1>7. HoldInv'
  <2>1. \A c \in Caller : conn[c] \in Conn \cup {NoConn}
    BY DEF IInv, TypeInv
  <2>2. QED
    BY <1>1, <1>2, <2>1 DEF IInv, HoldInv, TypeInv
<1>8. PhaseInv'
  BY <1>1, <1>2 DEF PhaseInv, Idle
<1>9. QED
  BY <1>3, <1>4, <1>5, <1>6, <1>7, <1>8 DEF IInv

LEMMA CloseReturnsStep == ASSUME IInv, CloseReturns PROVE IInv'
BY DEF CloseReturns, callVars, semVars, hcVars, IInv, TypeInv, QueueInv, Lined, CheckInv, CountInv,
       HoldInv, PhaseInv, Idle, Where, MaxSize

-----------------------------------------------------------------------------
(* The invariant holds.                                                    *)

LEMMA InitInv == Init => IInv
<1> SUFFICES ASSUME Init PROVE IInv
  OBVIOUS
<1>1. /\ pc = [c \in Caller |-> "out"] /\ ctx = [c \in Caller |-> "live"]
      /\ conn = [c \in Caller |-> NoConn] /\ free = MaxSize /\ queue = <<>>
      /\ state = [k \in Conn |-> "none"] /\ wg = 0 /\ phase = "open"
      /\ hc = [at |-> "away", num |-> 0, bit |-> 0, got |-> 0] /\ checked = {}
  BY DEF Init, Away
<1>2. MaxSize \in Nat
  BY PoolAssumption, FS_CardinalityType DEF MaxSize
<1>3. TypeInv
  BY <1>1, <1>2 DEF TypeInv, Places, Status
<1>4. QueueInv
  BY <1>1 DEF QueueInv, Lined
<1>5. CountInv
  <2>1. Where(pc, WithToken) = {} /\ Where(state, Taken) = {} /\ Where(state, Counted) = {}
    BY <1>1 DEF Where, WithToken, Taken, Counted, Status
  <2>2. IsFiniteSet({}) /\ Cardinality({}) = 0
    BY FS_EmptySet
  <2>3. MaxSize + 0 + 0 + 0 = MaxSize
    BY <1>2
  <2>4. free = MaxSize /\ hc.got = 0 /\ wg = 0
    BY <1>1
  <2>5. QED
    BY <2>1, <2>2, <2>3, <2>4, Zenon DEF CountInv
<1>6. CheckInv /\ HoldInv /\ PhaseInv
  BY <1>1 DEF CheckInv, HoldInv, PhaseInv, Idle
<1>7. QED
  BY <1>3, <1>4, <1>5, <1>6 DEF IInv

LEMMA SameInv == ASSUME IInv, UNCHANGED vars PROVE IInv'
<1> USE DEF vars, callVars, semVars, poolVars, hcVars
<1>1. QueueInv' /\ CountInv'
  BY DEF IInv, QueueInv, Lined, CountInv, Where, MaxSize
<1>2. QED
  BY <1>1 DEF IInv, TypeInv, CheckInv, HoldInv, PhaseInv, Idle, MaxSize

LEMMA NextInv == IInv /\ [Next]_vars => IInv'
<1> SUFFICES ASSUME IInv, [Next]_vars PROVE IInv'
  OBVIOUS
<1>1. ASSUME NEW c \in Caller, CallStep(c) PROVE IInv'
  BY <1>1, AloneSteps, BackSteps, EnqueueStep, GiveUpStep, TakeIdleStep, CreateStep, ReturnStep, DestroyStep
     DEF CallStep
<1>2. ASSUME NEW c \in Caller, Ask(c) \/ Expire(c) PROVE IInv'
  BY <1>2, AloneSteps, ExpireStep
<1>3. ASSUME NEW k \in Conn, ConnStep(k) PROVE IInv'
  BY <1>3, ConstructedStep, ConstructionFailedStep, HandOverStep, NotWantedStep, DestructedStep, RemovedStep
     DEF ConnStep
<1>4. CASE StartCheck \/ CheckStep
  <2>1. ASSUME NEW k \in Conn, CheckDestroys(k) \/ CheckReturns(k) PROVE IInv'
    BY <2>1, CheckDestroysStep, CheckReturnsStep
  <2>2. QED
    BY <1>4, <2>1, StartCheckStep, AcquireAllStep, AcquireBitStep, PopIdleStep DEF CheckStep
<1>5. CASE Panic \/ UNCHANGED vars
  BY <1>5, SameInv DEF Panic
<1>6. CASE Close \/ CloseReturns
  BY <1>6, CloseStep, CloseReturnsStep
<1>7. QED
  BY <1>1, <1>2, <1>3, <1>4, <1>5, <1>6 DEF Next

LEMMA Invariance == Spec => []IInv
BY InitInv, NextInv, PTL DEF Spec

-----------------------------------------------------------------------------
(* What follows.                                                           *)

(* The variables have their types: no more tokens than the semaphore has,  *)
(* a destructWG that does not go below zero, and no more of a resource     *)
(* than there is.                                                          *)
THEOREM TypeCorrect == Spec => []TypeOK
<1>1. IInv => TypeOK
  <2> SUFFICES ASSUME IInv PROVE TypeOK
    OBVIOUS
  <2>1. /\ Tokens \in Nat /\ Out \in Nat /\ Running \in Nat /\ Running <= MaxSize
        /\ MaxSize \in Nat /\ free \in Nat /\ hc.got \in Nat /\ wg = Running
        /\ free + Tokens + hc.got + Out = MaxSize
    BY Counts, ConnTypes, CountConn, FS_CardinalityType DEF IInv, TypeInv, CountInv, Tokens, Running
  <2>2. free <= MaxSize /\ hc.got <= MaxSize
    BY ONLY <2>1
  <2>3. free \in 0 .. MaxSize /\ wg \in 0 .. MaxSize /\ hc.got \in 0 .. MaxSize
    BY <2>1, <2>2
  <2>4. QED
    BY <2>3 DEF IInv, TypeInv, TypeOK, Places, Status
<1>2. QED
  BY <1>1, Invariance, PTL

(* Every token has its owner: whatever the order in which calls are        *)
(* cancelled, constructors fail and connections are destroyed, the         *)
(* releases of acquireSem are one for each acquire.                        *)
THEOREM EveryToken == Spec => []TokensAccounted
<1>1. IInv => TokensAccounted
  <2> SUFFICES ASSUME IInv PROVE TokensAccounted
    OBVIOUS
  <2>1. {c \in Caller : pc[c] \in {"granted", "token"}} = Where(pc, WithToken)
    BY DEF IInv, TypeInv, Where, WithToken
  <2>2. {k \in AllResources : state[k] # "idle"} = Where(state, Taken)
    BY DEF IInv, TypeInv, AllResources, Where, Taken, Status
  <2>3. QED
    BY <2>1, <2>2 DEF IInv, CountInv, TokensAccounted
<1>2. QED
  BY <1>1, Invariance, PTL

(* A call that may look into an open pool finds an idle resource or room   *)
(* for a new one: puddle's "semaphore allowed more acquires than pool      *)
(* allows" (pool.go:389) is out of reach.                                  *)
RoomForNew == \A c \in Caller : Enter(c) /\ phase = "open" => Idle # {} \/ \E k \in Conn : state[k] = "none"

THEOREM RoomForAToken == Spec => []RoomForNew
<1>1. IInv => RoomForNew
  <2> SUFFICES ASSUME IInv, NEW c \in Caller, pc[c] = "token", phase = "open", Idle = {}
               PROVE  \E k \in Conn : state[k] = "none"
    BY DEF RoomForNew, Enter
  <2>1. SUFFICES ASSUME \A k \in Conn : state[k] # "none" PROVE FALSE
    OBVIOUS
  <2>2. \A k \in Conn : state[k] \in Taken
    BY <2>1 DEF IInv, TypeInv, PhaseInv, Idle, Taken
  <2>3. Where(state, Taken) = Conn
    BY <2>2 DEF IInv, TypeInv, Where
  <2>4. Out = MaxSize /\ Out \in Nat
    BY <2>3, ConnTypes DEF Out, MaxSize, IInv
  <2>5. Tokens \in Nat /\ Tokens # 0
    <3>1. c \in Where(pc, WithToken) /\ IsFiniteSet(Where(pc, WithToken))
      BY DEF IInv, CountInv, TypeInv, Where, WithToken
    <3>2. QED
      BY <3>1, FS_CardinalityType, FS_EmptySet DEF Tokens
  <2>6. free \in Nat /\ hc.got \in Nat /\ free + Tokens + hc.got + Out = MaxSize
    BY Counts DEF IInv, TypeInv
  <2>7. free + Tokens + hc.got + Out = Out
    BY <2>4, <2>6
  <2>8. QED
    BY ONLY <2>4, <2>5, <2>6, <2>7
<1>2. QED
  BY <1>1, Invariance, PTL

(* No waiter is lost or served twice: the queue of acquireSem holds        *)
(* exactly the calls that wait in it, each once, whatever cancellations    *)
(* took others out of its middle.                                          *)
WaitersInLine ==
    /\ {queue[j] : j \in DOMAIN queue} = {c \in Caller : pc[c] = "queued"}
    /\ \A j, l \in DOMAIN queue : queue[j] = queue[l] => j = l

THEOREM EveryWaiterInLine == Spec => []WaitersInLine
<1>1. IInv => WaitersInLine
  BY DEF IInv, TypeInv, QueueInv, Lined, WaitersInLine
<1>2. QED
  BY <1>1, Invariance, PTL

-----------------------------------------------------------------------------
(* The pool implements PoolSpec.  What a step is there.                    *)

AskedBar == [c \in Caller |-> Asked(c)]
LentBar  == [c \in Caller |-> Lent(c)]
SeenBar  == [k \in Conn |-> Seen(k)]

PoolStep == Abstract!Next \/ UNCHANGED Abstract!vars

LEMMA Unseen == UNCHANGED <<AskedBar, LentBar, SeenBar, phase>> => PoolStep
BY DEF PoolStep, Abstract!vars, AskedBar, LentBar, SeenBar

LEMMA SameSeen == UNCHANGED <<state, checked>> => UNCHANGED SeenBar
BY DEF SeenBar, Seen

LEMMA SameLent == (\A c \in Caller : Lent(c)' = Lent(c)) => UNCHANGED LentBar
BY DEF LentBar

LEMMA SameAsked == (\A c \in Caller : Asked(c)' = Asked(c)) => UNCHANGED AskedBar
BY DEF AskedBar

(* A call without a connection asks, goes on asking, or leaves.            *)
LEMMA EmptyHanded ==
    ASSUME NEW c \in Caller, pc[c] # "holding", pc'[c] # "holding",
           \A d \in Caller \ {c} : pc'[d] = pc[d] \/ (pc[d] = "queued" /\ pc'[d] = "granted"),
           \A d \in Caller : pc[d] = "holding" => conn'[d] = conn[d],
           UNCHANGED <<SeenBar, phase>>
    PROVE  PoolStep
<1>1. \A d \in Caller \ {c} : Asked(d)' = Asked(d)
  BY DEF Asked
<1>2. UNCHANGED LentBar
  <2>1. \A d \in Caller : Lent(d)' = Lent(d)
    BY DEF Lent
  <2>2. QED
    BY <2>1, SameLent
<1>3. Asked(c) \in {"out", "asking"} /\ Asked(c)' \in {"out", "asking"}
  BY DEF Asked
<1>4. CASE Asked(c)' = Asked(c)
  BY <1>1, <1>2, <1>4, SameAsked, Unseen
<1>5. CASE Asked(c)' # Asked(c)
  <2>1. AskedBar' = [AskedBar EXCEPT ![c] = Asked(c)'] /\ AskedBar[c] = Asked(c)
    BY <1>1 DEF AskedBar
  <2>2. Abstract!Ask(c) \/ Abstract!Refuse(c)
    BY <1>2, <1>3, <1>5, <2>1 DEF Abstract!Ask, Abstract!Refuse, AskedBar, LentBar, SeenBar
  <2>3. QED
    BY <2>2 DEF PoolStep, Abstract!Next
<1>6. QED
  BY <1>4, <1>5

(* The calls are left alone, but for who gets a token.                     *)
LEMMA CallsSame ==
    ASSUME \A d \in Caller : pc'[d] = pc[d] \/ (pc[d] = "queued" /\ pc'[d] = "granted"),
           \A d \in Caller : pc[d] = "holding" => conn'[d] = conn[d]
    PROVE  UNCHANGED <<AskedBar, LentBar>>
<1>1. \A d \in Caller : Asked(d)' = Asked(d) /\ Lent(d)' = Lent(d)
  BY DEF Asked, Lent
<1>2. QED
  BY <1>1, SameAsked, SameLent

(* Who gets a released token was waiting for it.                           *)
LEMMA Granted ==
    ASSUME IInv, NEW p \in [Caller -> Places], Released(p),
           \A d \in Caller : pc[d] = "queued" => p[d] = "queued"
    PROVE  \A d \in Caller : pc'[d] = p[d] \/ (p[d] = "queued" /\ pc'[d] = "granted")
<1>1. CASE queue = <<>>
  BY <1>1 DEF Released
<1>2. CASE queue # <<>>
  <2>1. 1 \in DOMAIN queue /\ Head(queue) = queue[1] /\ queue[1] \in Caller
    BY <1>2 DEF IInv, TypeInv
  <2>2. pc[queue[1]] = "queued"
    BY <2>1 DEF IInv, QueueInv, Lined
  <2>3. pc' = [p EXCEPT ![queue[1]] = "granted"]
    BY <1>2, <2>1 DEF Released
  <2>4. QED
    BY <2>1, <2>2, <2>3
<1>3. QED
  BY <1>1, <1>2

LEMMA GrantedOut ==
    ASSUME IInv, NEW c \in Caller, pc[c] # "queued", Released([pc EXCEPT ![c] = "out"])
    PROVE  /\ pc'[c] = "out"
           /\ \A d \in Caller \ {c} : pc'[d] = pc[d] \/ (pc[d] = "queued" /\ pc'[d] = "granted")
<1> DEFINE p == [pc EXCEPT ![c] = "out"]
<1>1. p \in [Caller -> Places] /\ p[c] = "out" /\ \A d \in Caller \ {c} : p[d] = pc[d]
  BY DEF IInv, TypeInv, Places
<1> HIDE DEF p
<1>2. \A d \in Caller : pc[d] = "queued" => p[d] = "queued"
  BY <1>1
<1>3. Released(p)
  BY DEF p
<1>4. \A d \in Caller : pc'[d] = p[d] \/ (p[d] = "queued" /\ pc'[d] = "granted")
  BY <1>1, <1>2, <1>3, Granted
<1>5. QED
  BY <1>1, <1>4

LEMMA GrantedNone ==
    ASSUME IInv, Released(pc)
    PROVE  \A d \in Caller : pc'[d] = pc[d] \/ (pc[d] = "queued" /\ pc'[d] = "granted")
<1>1. pc \in [Caller -> Places]
  BY DEF IInv, TypeInv
<1>2. QED
  BY <1>1, Granted

(* One resource is seen otherwise than before.                             *)
LEMMA SeenMoves ==
    ASSUME IInv, NEW k \in Conn, \A l \in Conn \ {k} : state'[l] = state[l] /\ (l \in checked' <=> l \in checked)
    PROVE  SeenBar' = [SeenBar EXCEPT ![k] = Seen(k)'] /\ SeenBar[k] = Seen(k)
<1>1. \A l \in Conn \ {k} : Seen(l)' = Seen(l)
  BY DEF Seen
<1>2. QED
  BY <1>1 DEF SeenBar

(* A resource appears in the pool, is retired or gone.                     *)
LEMMA ResourceMove ==
    ASSUME IInv, NEW k \in Conn, \A l \in Conn \ {k} : state'[l] = state[l] /\ (l \in checked' <=> l \in checked),
           UNCHANGED <<AskedBar, LentBar, phase>>,
           \/ Seen(k)' = Seen(k)
           \/ Seen(k) = "none" /\ Seen(k)' = "free" /\ phase = "open"
           \/ Seen(k) = "none" /\ Seen(k)' = "leaving" /\ phase = "closing"
           \/ Seen(k) = "free" /\ Seen(k)' = "leaving"
           \/ Seen(k) = "leaving" /\ Seen(k)' = "none"
    PROVE  PoolStep
<1>1. SeenBar' = [SeenBar EXCEPT ![k] = Seen(k)'] /\ SeenBar[k] = Seen(k)
  BY SeenMoves
<1>2. CASE Seen(k)' = Seen(k)
  <2>1. UNCHANGED SeenBar
    BY <1>1, <1>2 DEF SeenBar
  <2>2. QED
    BY <2>1, Unseen
<1>3. CASE Seen(k)' # Seen(k)
  <2>1. Abstract!Appear(k) \/ Abstract!Retire(k) \/ Abstract!Gone(k)
    BY <1>1, <1>3 DEF Abstract!Appear, Abstract!Retire, Abstract!Gone, AskedBar, LentBar, SeenBar
  <2>2. QED
    BY <2>1 DEF PoolStep, Abstract!Next
<1>4. QED
  BY <1>2, <1>3

(* A resource passes to a call that has asked.                             *)
LEMMA LendMove ==
    ASSUME IInv, NEW c \in Caller, NEW k \in Conn, pc[c] \notin {"out", "holding"},
           pc' = [pc EXCEPT ![c] = "holding"], conn'[c] = k, \A d \in Caller \ {c} : conn'[d] = conn[d],
           state' = [state EXCEPT ![k] = "acquired"], k \notin checked,
           UNCHANGED <<checked, phase>>,
           \/ state[k] = "idle" /\ phase = "open"
           \/ state[k] = "built" /\ phase # "closed"
    PROVE  PoolStep
<1>1. pc'[c] = "holding" /\ \A d \in Caller \ {c} : pc'[d] = pc[d]
  BY DEF IInv, TypeInv
<1>2. state'[k] = "acquired" /\ \A l \in Conn \ {k} : state'[l] = state[l]
  BY DEF IInv, TypeInv
<1>3. /\ Asked(c) = "asking" /\ Asked(c)' = "holding" /\ Lent(c)' = k
      /\ \A d \in Caller \ {c} : Asked(d)' = Asked(d) /\ Lent(d)' = Lent(d)
  BY <1>1 DEF Asked, Lent
<1>4. /\ AskedBar' = [AskedBar EXCEPT ![c] = "holding"] /\ AskedBar[c] = "asking"
      /\ LentBar' = [LentBar EXCEPT ![c] = k]
  BY <1>3 DEF AskedBar, LentBar
<1>5. SeenBar' = [SeenBar EXCEPT ![k] = Seen(k)'] /\ SeenBar[k] = Seen(k)
  BY <1>2, SeenMoves
<1>6. Seen(k)' = "lent" /\ Seen(k) = IF state[k] = "idle" THEN "free" ELSE "none"
  BY <1>2 DEF Seen
<1>7. Abstract!Lend(c, k)
  BY <1>4, <1>5, <1>6 DEF Abstract!Lend, AskedBar, LentBar, SeenBar
<1>8. QED
  BY <1>7 DEF PoolStep, Abstract!Next

(* A call gives its resource back, fit to be used again or not.            *)
LEMMA ReturnMove ==
    ASSUME IInv, NEW c \in Caller, pc[c] = "holding", pc'[c] \in {"out", "asking"},
           \A d \in Caller \ {c} : pc'[d] = pc[d] \/ (pc[d] = "queued" /\ pc'[d] = "granted"),
           conn' = [conn EXCEPT ![c] = NoConn],
           NEW v \in {"idle", "dying", "destroying"}, state' = [state EXCEPT ![conn[c]] = v],
           v = "idle" => phase = "open" /\ pc'[c] = "out",
           UNCHANGED <<checked, phase>>
    PROVE  PoolStep
<1>0. PICK k \in Conn : k = conn[c] /\ k \notin checked
  BY DEF IInv, HoldInv
<1>1. state'[k] = v /\ \A l \in Conn \ {k} : state'[l] = state[l]
  BY <1>0 DEF IInv, TypeInv
<1>2. conn'[c] = NoConn /\ \A d \in Caller \ {c} : conn'[d] = conn[d]
  BY DEF IInv, TypeInv
<1>3. /\ Asked(c) = "holding" /\ Asked(c)' = pc'[c] /\ Lent(c) = k /\ Lent(c)' = NoConn
      /\ \A d \in Caller \ {c} : Asked(d)' = Asked(d) /\ Lent(d)' = Lent(d)
  BY <1>0, <1>2 DEF Asked, Lent
<1>4. /\ AskedBar' = [AskedBar EXCEPT ![c] = pc'[c]] /\ AskedBar[c] = "holding"
      /\ LentBar' = [LentBar EXCEPT ![c] = NoConn] /\ LentBar[c] = k
  BY <1>3 DEF AskedBar, LentBar
<1>5. SeenBar' = [SeenBar EXCEPT ![k] = Seen(k)']
  BY <1>1, SeenMoves
<1>6. Seen(k)' = IF v = "idle" THEN "free" ELSE "leaving"
  BY <1>0, <1>1 DEF Seen
<1>7. Abstract!Return(c)
  BY <1>4, <1>5, <1>6 DEF Abstract!Return, AskedBar, LentBar, SeenBar
<1>8. QED
  BY <1>7 DEF PoolStep, Abstract!Next

-----------------------------------------------------------------------------
(* Every step of the pool is one of PoolSpec, or none.                     *)

LEMMA CallSimulates == ASSUME IInv, NEW c \in Caller, Ask(c) \/ Expire(c) \/ CallStep(c) PROVE PoolStep
<1>0. pc \in [Caller -> Places] /\ conn \in [Caller -> Conn \cup {NoConn}]
  BY DEF IInv, TypeInv
<1>1. CASE Ask(c) \/ TakeToken(c) \/ Enqueue(c) \/ GiveUp(c) \/ Wake(c)
  <2>1. /\ UNCHANGED <<conn, state, checked, phase>>
        /\ \E v \in Places : v # "holding" /\ pc[c] # "holding" /\ pc' = [pc EXCEPT ![c] = v]
    BY <1>1 DEF Ask, TakeToken, Enqueue, GiveUp, Wake, semVars, poolVars, hcVars, Places
  <2>2. pc[c] # "holding" /\ pc'[c] # "holding" /\ \A d \in Caller \ {c} : pc'[d] = pc[d]
    BY <1>0, <2>1
  <2>3. QED
    BY <2>1, <2>2, SameSeen, EmptyHanded
<1>2. CASE Expire(c)
  <2>1. UNCHANGED <<pc, conn, state, checked, phase>>
    BY <1>2 DEF Expire, poolVars, hcVars
  <2>2. QED
    BY <2>1, CallsSame, SameSeen, Unseen
<1>3. CASE PutBack(c) \/ FindClosed(c)
  <2>1. /\ UNCHANGED <<conn, state, checked, phase>> /\ Released([pc EXCEPT ![c] = "out"])
        /\ pc[c] \in {"granted", "token"}
    BY <1>3 DEF PutBack, FindClosed, Enter, poolVars, hcVars
  <2>2. pc'[c] = "out" /\ \A d \in Caller \ {c} : pc'[d] = pc[d] \/ (pc[d] = "queued" /\ pc'[d] = "granted")
    BY <2>1, GrantedOut
  <2>3. QED
    BY <2>1, <2>2, SameSeen, EmptyHanded
<1>4. CASE TakeIdle(c)
  <2>1. PICK k \in Idle : state' = [state EXCEPT ![k] = "acquired"] /\ conn' = [conn EXCEPT ![c] = k]
    BY <1>4 DEF TakeIdle
  <2>2. /\ k \in Conn /\ state[k] = "idle" /\ phase = "open" /\ pc[c] = "token"
        /\ pc' = [pc EXCEPT ![c] = "holding"] /\ UNCHANGED <<checked, phase>>
    BY <1>4, <2>1 DEF TakeIdle, Idle, Enter, hcVars
  <2>3. conn'[c] = k /\ \A d \in Caller \ {c} : conn'[d] = conn[d]
    BY <1>0, <2>1
  <2>4. k \notin checked
    BY <2>2 DEF IInv, HoldInv
  <2>5. QED
    BY <2>1, <2>2, <2>3, <2>4, LendMove
<1>5. CASE Create(c)
  <2>1. PICK k \in Conn : /\ state[k] = "none" /\ state' = [state EXCEPT ![k] = "constructing"]
                          /\ conn' = [conn EXCEPT ![c] = k]
    BY <1>5 DEF Create
  <2>2. pc[c] = "token" /\ pc' = [pc EXCEPT ![c] = "waiting"] /\ UNCHANGED <<checked, phase>>
    BY <1>5 DEF Create, Enter, hcVars
  <2>3. pc'[c] = "waiting" /\ \A d \in Caller \ {c} : pc'[d] = pc[d] /\ conn'[d] = conn[d]
    BY <1>0, <2>1, <2>2
  <2>4. state'[k] = "constructing" /\ \A l \in Conn \ {k} : state'[l] = state[l]
    BY <2>1 DEF IInv, TypeInv
  <2>5. Seen(k)' = Seen(k)
    <3>1. k \notin checked /\ k \notin checked'
      BY <2>1, <2>2 DEF IInv, HoldInv
    <3>2. QED
      BY <2>1, <2>4, <3>1 DEF Seen
  <2>6. UNCHANGED SeenBar
    <3>1. SeenBar' = [SeenBar EXCEPT ![k] = Seen(k)'] /\ SeenBar[k] = Seen(k)
      BY <2>2, <2>4, SeenMoves
    <3>2. QED
      BY <2>5, <3>1 DEF SeenBar
  <2>7. QED
    BY <2>2, <2>3, <2>6, EmptyHanded
<1>6. CASE StopWaiting(c)
  <2>1. /\ pc[c] = "waiting" /\ pc' = [pc EXCEPT ![c] = "out"] /\ conn' = [conn EXCEPT ![c] = NoConn]
        /\ UNCHANGED <<state, checked, phase>>
    BY <1>6 DEF StopWaiting, poolVars, hcVars
  <2>2. pc'[c] = "out" /\ \A d \in Caller \ {c} : pc'[d] = pc[d] /\ conn'[d] = conn[d]
    BY <1>0, <2>1
  <2>3. QED
    BY <2>1, <2>2, SameSeen, EmptyHanded
<1>7. CASE Return(c)
  <2>1. PICK v \in {"idle", "dying", "destroying"} :
            state' = [state EXCEPT ![conn[c]] = v] /\ (v = "idle" => phase = "open")
    BY <1>7 DEF Return, PutInPool
  <2>2. /\ pc[c] = "holding" /\ Released([pc EXCEPT ![c] = "out"])
        /\ conn' = [conn EXCEPT ![c] = NoConn] /\ UNCHANGED <<checked, phase>>
    BY <1>7 DEF Return, PutInPool, hcVars
  <2>3. pc'[c] = "out" /\ \A d \in Caller \ {c} : pc'[d] = pc[d] \/ (pc[d] = "queued" /\ pc'[d] = "granted")
    BY <2>2, GrantedOut
  <2>4. QED
    BY <2>1, <2>2, <2>3, ReturnMove
<1>8. CASE Destroy(c)
  <2>1. PICK p \in {"out", "asking"} : pc' = [pc EXCEPT ![c] = p]
    BY <1>8 DEF Destroy
  <2>2. /\ pc[c] = "holding" /\ state' = [state EXCEPT ![conn[c]] = "destroying"]
        /\ conn' = [conn EXCEPT ![c] = NoConn] /\ UNCHANGED <<checked, phase>>
    BY <1>8 DEF Destroy, hcVars
  <2>3. pc'[c] \in {"out", "asking"} /\ \A d \in Caller \ {c} : pc'[d] = pc[d]
    BY <1>0, <2>1
  <2>4. QED
    BY <2>2, <2>3, ReturnMove
<1>9. QED
  BY <1>1, <1>2, <1>3, <1>4, <1>5, <1>6, <1>7, <1>8 DEF CallStep

(* A pool that has been closed has nothing to hand over.                   *)
LEMMA ClosedEmpty ==
    ASSUME IInv, wg = 0 PROVE \A k \in Conn : state[k] \in {"none", "destroyed"}
<1>1. \A k \in Conn : state[k] \notin Counted /\ state[k] \in Status
  BY CountConn DEF IInv, TypeInv, CountInv
<1>2. QED
  BY <1>1 DEF Counted

LEMMA ConnSimulates == ASSUME IInv, NEW k \in Conn, ConnStep(k) PROVE PoolStep
<1>0. state \in [Conn -> Status]
  BY DEF IInv, TypeInv
<1>1. ASSUME NEW v, state' = [state EXCEPT ![k] = v]
      PROVE  state'[k] = v /\ \A l \in Conn \ {k} : state'[l] = state[l]
  BY <1>0, <1>1
<1>2. state[k] \in {"constructing", "built"} => phase # "closed"
  BY ClosedEmpty DEF IInv, PhaseInv
<1>3. \A c \in Caller : pc[c] = "holding" => Forgotten(k)[c] = conn[c]
  BY DEF Forgotten, WaitingFor
<1>4. CASE Constructed(k) \/ Removed(k) \/ Destructed(k)
  <2>1. conn' = conn /\ UNCHANGED <<checked, phase>>
    BY <1>4 DEF Constructed, Removed, Destructed, callVars, hcVars
  <2>2. \A d \in Caller : pc'[d] = pc[d] \/ (pc[d] = "queued" /\ pc'[d] = "granted")
    BY <1>4, GrantedNone DEF Constructed, Removed, Destructed, callVars
  <2>3. UNCHANGED <<AskedBar, LentBar>>
    BY <2>1, <2>2, CallsSame
  <2>4. PICK v \in Status : state' = [state EXCEPT ![k] = v]
    BY <1>4 DEF Constructed, Removed, Destructed, Status
  <2>5. \/ state[k] = "constructing" /\ v = "built"
        \/ state[k] = "destroyed" /\ v = "none"
        \/ state[k] \in {"destroying", "dying"} /\ v \in {"none", "destroyed"}
    <3>1. state'[k] = v
      BY <1>1, <2>4
    <3>2. QED
      BY <1>0, <1>4, <3>1 DEF Constructed, Removed, Destructed
  <2>6. state'[k] = v /\ \A l \in Conn \ {k} : state'[l] = state[l]
    BY <1>1, <2>4
  <2>7. k \notin checked
    BY <2>5 DEF IInv, HoldInv
  <2>8. Seen(k)' = Seen(k) \/ (Seen(k) = "leaving" /\ Seen(k)' = "none")
    BY <2>1, <2>5, <2>6, <2>7 DEF Seen
  <2>9. QED
    BY <2>1, <2>3, <2>6, <2>8, ResourceMove
<1>5. CASE ConstructionFailed(k)
  <2>1. /\ state[k] = "constructing" /\ state' = [state EXCEPT ![k] = "none"] /\ Released(pc)
        /\ conn' = Forgotten(k) /\ UNCHANGED <<checked, phase>>
    BY <1>5 DEF ConstructionFailed, hcVars
  <2>2. UNCHANGED <<AskedBar, LentBar>>
    BY <1>3, <2>1, GrantedNone, CallsSame
  <2>3. state'[k] = "none" /\ \A l \in Conn \ {k} : state'[l] = state[l]
    BY <1>1, <2>1
  <2>4. Seen(k)' = Seen(k)
    BY <2>1, <2>3 DEF Seen
  <2>5. QED
    BY <2>1, <2>2, <2>3, <2>4, ResourceMove
<1>6. CASE HandOver(k)
  <2>1. PICK c \in WaitingFor(k) : pc' = [pc EXCEPT ![c] = "holding"]
    BY <1>6 DEF HandOver
  <2>2. c \in Caller /\ pc[c] = "waiting" /\ conn[c] = k
    BY <2>1 DEF WaitingFor
  <2>3. /\ state[k] = "built" /\ state' = [state EXCEPT ![k] = "acquired"] /\ conn' = conn
        /\ UNCHANGED <<checked, phase>>
    BY <1>6 DEF HandOver, hcVars
  <2>4. k \notin checked
    BY <2>3 DEF IInv, HoldInv
  <2>5. QED
    BY <1>2, <2>1, <2>2, <2>3, <2>4, LendMove
<1>7. CASE NotWanted(k)
  <2>1. /\ state[k] = "built" /\ Released(pc) /\ conn' = Forgotten(k) /\ UNCHANGED <<checked, phase>>
        /\ state' = [state EXCEPT ![k] = IF phase = "open" THEN "idle" ELSE "dying"]
    BY <1>7 DEF NotWanted, PutInPool, hcVars
  <2>2. UNCHANGED <<AskedBar, LentBar>>
    BY <1>3, <2>1, GrantedNone, CallsSame
  <2>3. /\ state'[k] = IF phase = "open" THEN "idle" ELSE "dying"
        /\ \A l \in Conn \ {k} : state'[l] = state[l]
    BY <1>1, <2>1
  <2>4. k \notin checked /\ phase \in {"open", "closing"}
    BY <1>2, <2>1 DEF IInv, HoldInv, TypeInv
  <2>5. \/ Seen(k) = "none" /\ Seen(k)' = "free" /\ phase = "open"
        \/ Seen(k) = "none" /\ Seen(k)' = "leaving" /\ phase = "closing"
    BY <2>1, <2>3, <2>4 DEF Seen
  <2>6. QED
    BY <2>1, <2>2, <2>3, <2>5, ResourceMove
<1>8. QED
  BY <1>4, <1>5, <1>6, <1>7 DEF ConnStep

LEMMA CheckSimulates == ASSUME IInv, StartCheck \/ CheckStep PROVE PoolStep
<1>0. state \in [Conn -> Status]
  BY DEF IInv, TypeInv
<1>1. CASE StartCheck \/ AcquireAll \/ AcquireBit
  <2>1. UNCHANGED <<pc, conn, state, checked, phase>>
    BY <1>1 DEF StartCheck, AcquireAll, AcquireBit, callVars, poolVars
  <2>2. QED
    BY <2>1, CallsSame, SameSeen, Unseen
<1>2. CASE PopIdle
  <2>1. PICK K \in SUBSET Idle : /\ checked' = K
                                 /\ state' = [k \in Conn |-> IF k \in K THEN "acquired" ELSE state[k]]
    BY <1>2 DEF PopIdle
  <2>2. UNCHANGED <<pc, conn, phase>> /\ checked = {}
    BY <1>2 DEF PopIdle, callVars, IInv, CheckInv
  <2>3. ASSUME NEW k \in Conn PROVE Seen(k)' = Seen(k)
    <3>1. CASE k \in K
      BY <2>1, <3>1 DEF Seen, Idle
    <3>2. CASE k \notin K
      <4>1. state'[k] = state[k] /\ (k \in checked' <=> k \in checked)
        BY <2>1, <2>2, <3>2
      <4>2. QED
        BY <4>1 DEF Seen
    <3>3. QED
      BY <3>1, <3>2
  <2>4. UNCHANGED SeenBar
    BY <2>3 DEF SeenBar
  <2>5. QED
    BY <2>2, <2>4, CallsSame, Unseen
<1>3. ASSUME NEW k \in Conn, CheckDestroys(k) \/ CheckReturns(k) PROVE PoolStep
  <2>1. k \in checked /\ checked' = checked \ {k} /\ conn' = conn /\ phase' = phase /\ state[k] = "acquired"
    BY <1>3 DEF CheckDestroys, CheckReturns, callVars, IInv, HoldInv
  <2>2. \A d \in Caller : pc'[d] = pc[d] \/ (pc[d] = "queued" /\ pc'[d] = "granted")
    BY <1>3, GrantedNone DEF CheckDestroys, CheckReturns, PutInPool, callVars
  <2>3. UNCHANGED <<AskedBar, LentBar>>
    BY <2>1, <2>2, CallsSame
  <2>4. PICK v \in {"destroying", "idle", "dying"} : state' = [state EXCEPT ![k] = v]
    BY <1>3 DEF CheckDestroys, CheckReturns, PutInPool
  <2>5. state'[k] = v /\ \A l \in Conn \ {k} : state'[l] = state[l] /\ (l \in checked' <=> l \in checked)
    BY <1>0, <2>1, <2>4
  <2>6. Seen(k) = "free" /\ Seen(k)' \in {"free", "leaving"}
    BY <2>1, <2>5 DEF Seen
  <2>7. QED
    BY <2>1, <2>3, <2>5, <2>6, ResourceMove
<1>4. QED
  BY <1>1, <1>2, <1>3 DEF CheckStep

LEMMA CloseSimulates == ASSUME IInv, Close \/ CloseReturns PROVE PoolStep
<1>1. UNCHANGED <<pc, conn, checked>>
  BY DEF Close, CloseReturns, callVars, hcVars
<1>2. UNCHANGED <<AskedBar, LentBar>>
  BY <1>1, CallsSame
<1>3. CASE Close
  <2>1. phase = "open" /\ phase' = "closing" /\ state' = [k \in Conn |-> IF k \in Idle THEN "dying" ELSE state[k]]
    BY <1>3 DEF Close
  <2>2. Idle \cap checked = {}
    BY DEF IInv, HoldInv, Idle
  <2>3. \A k \in Conn : Seen(k)' = IF k \in Idle THEN "leaving" ELSE Seen(k)
    <3>1. TAKE k \in Conn
    <3>2. CASE k \in Idle
      BY <1>1, <2>1, <2>2, <3>2 DEF Seen
    <3>3. CASE k \notin Idle
      <4>1. state'[k] = state[k]
        BY <2>1, <3>3
      <4>2. QED
        BY <1>1, <3>3, <4>1 DEF Seen
    <3>4. QED
      BY <3>2, <3>3
  <2>4. \A k \in Idle : k \in Conn /\ Seen(k) = "free"
    BY DEF Idle, Seen
  <2>5. SeenBar' = [k \in Conn |-> IF k \in Idle THEN "leaving" ELSE SeenBar[k]]
    BY <2>3 DEF SeenBar
  <2>6. Idle \in SUBSET {k \in Conn : SeenBar[k] = "free"}
    BY <2>4 DEF SeenBar
  <2>7. Abstract!Close
    BY <1>2, <2>1, <2>5, <2>6 DEF Abstract!Close, AskedBar, LentBar, SeenBar
  <2>8. QED
    BY <2>7 DEF PoolStep, Abstract!Next
<1>4. CASE CloseReturns
  <2>1. phase = "closing" /\ phase' = "closed" /\ state' = state /\ wg = 0
    BY <1>4 DEF CloseReturns
  <2>2. UNCHANGED SeenBar
    BY <1>1, <2>1, SameSeen
  <2>3. ASSUME NEW k \in Conn PROVE Seen(k) = "none"
    <3>1. state[k] \in {"none", "destroyed"} /\ k \notin checked
      BY <2>1, ClosedEmpty DEF IInv, HoldInv
    <3>2. QED
      BY <3>1 DEF Seen
  <2>4. Abstract!CloseReturns
    BY <1>2, <2>1, <2>2, <2>3 DEF Abstract!CloseReturns, AskedBar, LentBar, SeenBar
  <2>5. QED
    BY <2>4 DEF PoolStep, Abstract!Next
<1>5. QED
  BY <1>3, <1>4

LEMMA Simulates == IInv /\ [Next]_vars => [Abstract!Next]_(Abstract!vars)
<1> SUFFICES ASSUME IInv, [Next]_vars PROVE PoolStep
  BY DEF PoolStep
<1>1. CASE Panic \/ UNCHANGED vars
  <2>1. UNCHANGED <<pc, conn, state, checked, phase>>
    BY <1>1 DEF Panic, vars, callVars, poolVars, hcVars
  <2>2. QED
    BY <2>1, CallsSame, SameSeen, Unseen
<1>2. QED
  BY <1>1, CallSimulates, ConnSimulates, CheckSimulates, CloseSimulates DEF Next

(* The pool keeps the promises of PoolSpec for any number of callers and   *)
(* connections: no connection has two holders, a connection that its       *)
(* caller gave up on goes to the pool or is closed, and when Close has     *)
(* returned nothing is open and nothing will be.                           *)
THEOREM PoolImplemented == Spec => ImplementsPool
<1>1. Init => Abstract!Init
  BY DEF Init, Abstract!Init, Asked, Lent, Seen
<1>2. QED
  BY <1>1, InitInv, NextInv, Simulates, PTL DEF Spec, ImplementsPool, Abstract!Spec
=============================================================================
