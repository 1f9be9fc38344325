--------------------------- MODULE Lifecycle_proofs ---------------------------
(***************************************************************************)
(* Proofs about Lifecycle, for any set of configuration files, any number  *)
(* of instances in them and any number of requests.                        *)
(*                                                                         *)
(* After the invariant of the process come the connection strings.  A text *)
(* BuildDSN writes consists of fields, each known by where it begins and   *)
(* by what stands where in it (Laid, ClearText), which every way of making *)
(* it longer keeps.  From that follows what each of the two readers finds: *)
(* DSNHasParam, whose idea of a quote is a parity, begins a field exactly  *)
(* where there is one (FieldStartsFound), and a turn of the driver, which  *)
(* looks ahead for one character at a time, takes exactly one (OneTurn).   *)
(***************************************************************************)
EXTENDS Lifecycle, SequenceTheorems, FiniteSetTheorems, WellFoundedInduction, TLAPS

PoolState == {"open", "closing", "closed"}
Stage     == {"none", "queued", "resolving", "using", "ended", "writing"}
Early     == {"start", "making"}

-----------------------------------------------------------------------------
(* The invariant.                                                          *)

(* What the steps of start and of the requests keep of the types.          *)
ProcTypes ==
    /\ phase \in {"start", "making", "serving", "stopping", "closing", "exited"}
    /\ status \in {"none", "0", "1", "killed"}
    /\ signalled \in BOOLEAN
    /\ connClosing \in BOOLEAN /\ reading \in BOOLEAN /\ writeErr \in BOOLEAN
    /\ readErr \in {"none", "eof", "bad"}

CallTypes ==
    /\ stage \in [Call -> Stage]
    /\ pool \in [Call -> Nat]
    /\ timed \in [Call -> BOOLEAN]
    /\ ctx \in [Call -> {"live", "done"}]
    /\ \A c \in Call : stage[c] = "using" => pool[c] \in DOMAIN pools

(* The names a file may give its instances.                                *)
Name == UNION {{SetDefaults(f).instances[i].name : i \in DOMAIN f.instances} : f \in Files}

(* The three views the manager has of its pools agree: the pools, their    *)
(* names in order, and the map from a name to a pool.                      *)
MgrInv ==
    /\ pools \in Seq(PoolState)
    /\ names \in Seq(Name)
    /\ Len(names) = Len(pools)
    /\ DOMAIN insts = {names[i] : i \in DOMAIN names}
    /\ \A i \in DOMAIN names : insts[names[i]] = i

(* While start still reads it the file is one of Files, it loads, and the  *)
(* pools made so far are those of its first instances, in order.           *)
FileInv ==
    /\ phase \in Early => file \in Files
    /\ phase = "start" => pools = <<>>
    /\ phase = "making" =>
          /\ Loads(file) /\ default = cfg.default
          /\ Len(pools) <= Len(file.instances)
          /\ \A i \in DOMAIN names : names[i] = cfg.instances[i].name
    /\ Running => \E i \in DOMAIN names : names[i] = default

(* Requests exist only while the server runs, and pools are closed only    *)
(* afterwards.                                                             *)
OrderInv ==
    /\ phase \in Early \cup {"closing", "exited"} => Idle
    /\ phase \notin {"closing", "exited"} => \A i \in DOMAIN pools : pools[i] = "open"
    /\ phase = "exited" => \A i \in DOMAIN pools : pools[i] = "closed"
    /\ status = "killed" => phase = "exited" /\ pools = <<>>

IInv == ProcTypes /\ CallTypes /\ MgrInv /\ FileInv /\ OrderInv

-----------------------------------------------------------------------------
(* The configuration.                                                      *)

(* SetDefaults keeps the list as long as it is.                            *)
LEMMA SameLength ==
    ASSUME NEW f \in Files
    PROVE  /\ DOMAIN SetDefaults(f).instances = 1 .. Len(f.instances)
           /\ Len(SetDefaults(f).instances) = Len(f.instances)
           /\ Len(f.instances) \in Nat /\ DOMAIN f.instances = 1 .. Len(f.instances)
<1> DEFINE server == ServerDefaults(f.server)
           list   == [i \in DOMAIN f.instances |-> InstanceDefaults(f.instances[i], server)]
<1>1. Len(f.instances) \in Nat /\ DOMAIN f.instances = 1 .. Len(f.instances)
  BY FilesAssumption
<1>2. SetDefaults(f).instances = list
  BY DEF SetDefaults
<1>3. DOMAIN list = 1 .. Len(f.instances)
  BY <1>1
<1>4. Len(list) = Len(f.instances)
  BY <1>1, <1>3
<1>5. QED
  BY <1>1, <1>2, <1>3, <1>4

(* In a configuration that loads no two instances have the same name, and  *)
(* one has the name of the default.                                        *)
LEMMA LoadedNames ==
    ASSUME NEW f \in Files, Loads(f)
    PROVE  LET list == SetDefaults(f).instances IN
           /\ \A i, j \in DOMAIN list : list[i].name = list[j].name => i = j
           /\ \E i \in DOMAIN list : list[i].name = SetDefaults(f).default
BY DEF Loads, Valid

-----------------------------------------------------------------------------
(* Steps.                                                                  *)

LEMMA NoneYet == ASSUME NEW S PROVE <<>> \in Seq(S) /\ Len(<<>>) = 0 /\ DOMAIN <<>> = {}
BY EmptySeq

LEMMA InitInv == Init => IInv
<1> SUFFICES ASSUME Init PROVE IInv
  OBVIOUS
<1>1. ProcTypes /\ CallTypes
  BY DEF Init, ProcTypes, CallTypes, Stage
<1>2. MgrInv
  BY NoneYet DEF Init, MgrInv
<1>3. FileInv /\ OrderInv
  BY NoneYet DEF Init, FileInv, OrderInv, Early, Running, Idle
<1>4. QED
  BY <1>1, <1>2, <1>3 DEF IInv

(* Make adds one pool under a new name to the three views.                 *)
LEMMA MakeStep == IInv /\ Make => IInv'
<1> SUFFICES ASSUME IInv, Make PROVE IInv'
  OBVIOUS
<1> DEFINE n    == Len(pools) + 1
           list == cfg.instances
<1>1. /\ phase = "making" /\ Len(pools) < Len(list)
      /\ names' = Append(names, list[n].name)
      /\ insts' = [x \in DOMAIN insts \cup {list[n].name} |->
                      IF x = list[n].name THEN n ELSE insts[x]]
      /\ pools' = Append(pools, "open")
      /\ UNCHANGED <<procVars, file, default, callVars, connVars>>
  BY DEF Make, NewInstance
<1>2. /\ file \in Files /\ Loads(file) /\ default = cfg.default
      /\ \A i \in DOMAIN names : names[i] = list[i].name
  BY <1>1 DEF IInv, FileInv, Early
<1>3. /\ DOMAIN list = 1 .. Len(file.instances) /\ Len(list) = Len(file.instances)
      /\ Len(file.instances) \in Nat /\ DOMAIN file.instances = DOMAIN list
  BY <1>2, SameLength DEF cfg
<1>4. /\ pools \in Seq(PoolState) /\ names \in Seq(Name) /\ Len(names) = Len(pools)
      /\ DOMAIN insts = {names[i] : i \in DOMAIN names}
      /\ \A i \in DOMAIN names : insts[names[i]] = i
  BY DEF IInv, MgrInv
<1>5. n \in DOMAIN list /\ n \in Nat /\ n <= Len(file.instances)
  BY <1>1, <1>3, <1>4
<1>6. \A i \in DOMAIN names : names[i] # list[n].name
  <2>1. \A i, j \in DOMAIN list : list[i].name = list[j].name => i = j
    BY <1>2, LoadedNames DEF cfg
  <2>2. \A i \in DOMAIN names : i \in DOMAIN list /\ i # n
    BY <1>3, <1>4, <1>5
  <2>3. QED
    BY <1>2, <1>5, <2>1, <2>2
<1>7. list[n].name \in Name
  BY <1>2, <1>3, <1>5 DEF Name, cfg
<1> DEFINE m == list[n].name
<1> HIDE DEF n, list, m
<1>8. /\ names' \in Seq(Name) /\ pools' \in Seq(PoolState)
      /\ Len(names') = n /\ Len(pools') = n
      /\ DOMAIN names' = DOMAIN names \cup {n} /\ n \notin DOMAIN names
      /\ \A i \in DOMAIN names : names'[i] = names[i]
      /\ names'[n] = m
      /\ DOMAIN pools' = DOMAIN pools \cup {n} /\ n \notin DOMAIN pools
      /\ \A i \in DOMAIN pools : pools'[i] = pools[i]
      /\ pools'[n] = "open"
  BY <1>1, <1>4, <1>7 DEF n, PoolState, m
<1>9. /\ DOMAIN insts' = DOMAIN insts \cup {m}
      /\ insts'[m] = n
      /\ \A x \in DOMAIN insts : x # m => insts'[x] = insts[x]
  BY <1>1 DEF m
<1>10. MgrInv'
  <2>1. DOMAIN insts' = {names'[i] : i \in DOMAIN names'}
    BY <1>4, <1>8, <1>9
  <2>2. \A i \in DOMAIN names' : insts'[names'[i]] = i
    BY <1>4, <1>6, <1>8, <1>9 DEF m
  <2>3. QED
    BY <1>8, <2>1, <2>2 DEF MgrInv
<1>11. FileInv'
  <2>1. \A i \in DOMAIN names' : names'[i] = list[i].name
    BY <1>2, <1>8 DEF m
  <2>2. QED
    BY <1>1, <1>2, <1>5, <1>8, <2>1 DEF FileInv, cfg, list, Early, Running, procVars
<1>12. ProcTypes' /\ CallTypes'
  BY <1>1, <1>8 DEF IInv, ProcTypes, CallTypes, procVars, callVars, connVars
<1>13. OrderInv'
  BY <1>1, <1>8 DEF IInv, OrderInv, Early, Idle, procVars, callVars
<1>14. QED
  BY <1>10, <1>11, <1>12, <1>13 DEF IInv

(* The other steps of start.                                               *)
LEMMA BootStep == IInv /\ Boot => IInv'
<1> SUFFICES ASSUME IInv, Boot PROVE IInv'
  OBVIOUS
<1>1. CASE ShowVersion \/ LoadFails
  <2>1. /\ phase = "start" /\ phase' = "exited" /\ status' \in {"0", "1"} /\ pools = <<>>
        /\ UNCHANGED <<signalled, mgrVars, callVars, connVars>>
    BY <1>1 DEF ShowVersion, LoadFails, Exits, IInv, FileInv
  <2>2. QED
    BY <2>1 DEF IInv, ProcTypes, CallTypes, MgrInv, FileInv, OrderInv, mgrVars, callVars,
                connVars, Early, Running, Idle
<1>2. CASE Load
  <2>1. /\ phase = "start" /\ phase' = "making" /\ Loads(file) /\ default' = cfg.default
        /\ pools = <<>> /\ file \in Files /\ status # "killed"
        /\ UNCHANGED <<status, signalled, file, names, insts, pools, callVars, connVars>>
    BY <1>2 DEF Load, IInv, FileInv, OrderInv, Early
  <2>2. Len(pools) = 0 /\ DOMAIN names = {} /\ Len(file.instances) \in Nat
    BY <2>1, SameLength DEF IInv, MgrInv
  <2>3. FileInv'
    BY <2>1, <2>2 DEF FileInv, cfg, Early, Running
  <2>4. QED
    BY <2>1, <2>3 DEF IInv, ProcTypes, CallTypes, MgrInv, OrderInv, callVars, connVars, Early, Idle
<1>3. CASE MakeFails
  <2>1. /\ phase = "making" /\ phase' = "closing" /\ status' = "1"
        /\ UNCHANGED <<signalled, mgrVars, callVars, connVars>>
    BY <1>3 DEF MakeFails
  <2>2. QED
    BY <2>1 DEF IInv, ProcTypes, CallTypes, MgrInv, FileInv, OrderInv, mgrVars, callVars,
                connVars, Early, Running, Idle
<1>4. CASE Serve
  <2>1. /\ phase = "making" /\ phase' = "serving" /\ Len(pools) = Len(cfg.instances)
        /\ reading' = TRUE
        /\ UNCHANGED <<status, signalled, mgrVars, callVars, connClosing, readErr, writeErr>>
    BY <1>4 DEF Serve
  <2>2. \E i \in DOMAIN names : names[i] = default
    <3>1. file \in Files /\ Loads(file) /\ default = cfg.default
      BY <2>1 DEF IInv, FileInv, Early
    <3>2. PICK i \in DOMAIN cfg.instances : cfg.instances[i].name = default
      BY <3>1, LoadedNames DEF cfg
    <3>3. DOMAIN cfg.instances = 1 .. Len(cfg.instances)
      BY <3>1, SameLength DEF cfg
    <3>4. i \in DOMAIN names
      BY <2>1, <3>2, <3>3 DEF IInv, MgrInv
    <3>5. QED
      BY <2>1, <3>2, <3>4 DEF IInv, FileInv
  <2>3. QED
    BY <2>1, <2>2 DEF IInv, ProcTypes, CallTypes, MgrInv, FileInv, OrderInv, mgrVars, callVars,
                Early, Running, Idle
<1>5. QED
  BY <1>1, <1>2, <1>3, <1>4, MakeStep DEF Boot

(* A step of a request or of the connection: the manager and the process   *)
(* stay as they are, and the request was under way or the server runs.     *)
Serves ==
    /\ UNCHANGED <<phase, status, signalled, file, mgrVars>>
    /\ ProcTypes' /\ CallTypes'
    /\ Running \/ Idle' \/ (~Idle)

LEMMA ServesStep == IInv /\ Serves => IInv'
BY DEF Serves, IInv, MgrInv, FileInv, OrderInv, mgrVars, Early, Running, Idle, cfg, ProcTypes

LEMMA WorkServes ==
    ASSUME IInv, NEW c \in Call,
           Work(c) \/ Request(c) \/ Cancel(c) \/ ServerAnswers(c)
    PROVE  Serves
<1>0. ProcTypes /\ CallTypes /\ MgrInv
  BY DEF IInv
<1>1. CASE Request(c)
  BY <1>0, <1>1 DEF Request, WriteRefused, CancelAllBut, Serves, ProcTypes, CallTypes, Stage,
                    procVars, mgrVars
<1>2. CASE Cancel(c)
  BY <1>0, <1>2 DEF Cancel, Serves, ProcTypes, CallTypes, Stage, procVars, mgrVars, connVars
<1>3. CASE Start(c)
  BY <1>0, <1>3 DEF Start, Serves, ProcTypes, CallTypes, Stage, procVars, mgrVars, connVars, Idle
<1>4. CASE Resolve(c)
  <2>1. \A x \in DOMAIN insts : insts[x] \in DOMAIN pools /\ insts[x] \in Nat
    BY <1>0 DEF MgrInv
  <2>2. /\ stage[c] = "resolving"
        /\ UNCHANGED <<procVars, file, mgrVars, ctx, connVars>>
    BY <1>4 DEF Resolve
  <2>3. CallTypes'
    <3>1. CASE stage' = [stage EXCEPT ![c] = "ended"] /\ UNCHANGED <<pool, timed>>
      BY <1>0, <2>2, <3>1 DEF CallTypes, Stage, mgrVars
    <3>2. ASSUME NEW i \in DOMAIN pools, i \in Nat, pool' = [pool EXCEPT ![c] = i],
                 NEW t \in BOOLEAN, timed' = [timed EXCEPT ![c] = t],
                 stage' = [stage EXCEPT ![c] = "using"]
          PROVE  CallTypes'
      BY <1>0, <2>2, <3>2 DEF CallTypes, Stage, mgrVars
    <3>3. QED
      BY <1>4, <2>1, <3>1, <3>2 DEF Resolve
  <2>4. QED
    BY <1>0, <2>2, <2>3 DEF Serves, ProcTypes, procVars, mgrVars, connVars, Idle
<1>5. CASE Expire(c)
  BY <1>0, <1>5 DEF Expire, Serves, ProcTypes, CallTypes, Stage, procVars, mgrVars, connVars, Idle
<1>6. CASE Ends(c)
  BY <1>0, <1>6 DEF Ends, Serves, ProcTypes, CallTypes, Stage, procVars, mgrVars, connVars, Idle
<1>7. CASE Respond(c)
  BY <1>0, <1>7 DEF Respond, Serves, ProcTypes, CallTypes, Stage, procVars, mgrVars, Idle
<1>8. CASE WriteReturns(c)
  BY <1>0, <1>8 DEF WriteReturns, Serves, ProcTypes, CallTypes, Stage, procVars, mgrVars,
                    connVars, Idle
<1>9. QED
  BY <1>1, <1>2, <1>3, <1>4, <1>5, <1>6, <1>7, <1>8 DEF Work, ServerAnswers, Abort

LEMMA ReadServes ==
    ASSUME IInv, NEW e \in {"eof", "bad"}, ReadEnds(e)
    PROVE  Serves
BY DEF ReadEnds, CancelAllBut, Serves, IInv, ProcTypes, CallTypes, procVars, mgrVars

LEMMA ShutdownStep == IInv /\ Shutdown => IInv'
<1> SUFFICES ASSUME IInv, Shutdown PROVE IInv'
  OBVIOUS
<1>1. CASE RunSeesSignal
  <2>1. /\ phase = "serving" /\ phase' = "stopping" /\ connClosing' = TRUE
        /\ UNCHANGED <<status, signalled, file, mgrVars, callVars, reading, readErr, writeErr>>
    BY <1>1 DEF RunSeesSignal
  <2>2. QED
    BY <2>1 DEF IInv, ProcTypes, CallTypes, MgrInv, FileInv, OrderInv, mgrVars, callVars,
                Early, Running, Idle
<1>2. CASE ReaderClosed
  BY <1>2, ReadServes, ServesStep DEF ReaderClosed
<1>3. CASE RunReturns
  <2>1. /\ phase' = "closing" /\ status' \in {"0", "1"} /\ Idle
        /\ UNCHANGED <<signalled, file, mgrVars, callVars, connVars>>
    BY <1>3 DEF RunReturns
  <2>2. QED
    BY <2>1 DEF IInv, ProcTypes, CallTypes, MgrInv, FileInv, OrderInv, mgrVars, callVars,
                connVars, Early, Running, Idle
<1>4. CASE Exit
  <2>1. /\ phase = "closing" /\ phase' = "exited"
        /\ \A i \in DOMAIN pools : Known(i) => pools[i] = "closed"
        /\ UNCHANGED <<status, signalled, file, mgrVars, callVars, connVars>>
    BY <1>4 DEF Exit
  <2>2. \A i \in DOMAIN pools : Known(i)
    BY DEF IInv, MgrInv, Known
  <2>3. QED
    BY <2>1, <2>2 DEF IInv, ProcTypes, CallTypes, MgrInv, FileInv, OrderInv, mgrVars, callVars,
                connVars, Early, Running, Idle
<1>5. ASSUME NEW i \in DOMAIN pools, ClosePool(i) \/ PoolClosed(i) PROVE IInv'
  <2>1. PICK v \in {"closing", "closed"} : pools' = [pools EXCEPT ![i] = v]
    BY <1>5 DEF ClosePool, PoolClosed
  <2>2. UNCHANGED <<procVars, file, names, insts, default, callVars, connVars>>
    BY <1>5 DEF ClosePool, PoolClosed
  <2>3. phase = "closing" \/ (phase = "exited" /\ pools[i] = "closing")
    BY <1>5 DEF ClosePool, PoolClosed, IInv, OrderInv, ProcTypes
  <2>4. phase = "closing"
    BY <2>3 DEF IInv, OrderInv
  <2>5. /\ pools' \in Seq(PoolState) /\ Len(pools') = Len(pools) /\ DOMAIN pools' = DOMAIN pools
    BY <2>1 DEF IInv, MgrInv, PoolState
  <2>6. status # "killed"
    BY <2>4 DEF IInv, OrderInv
  <2>7. QED
    BY <2>2, <2>4, <2>5, <2>6 DEF IInv, ProcTypes, CallTypes, MgrInv, FileInv, OrderInv, procVars,
                callVars, connVars, Early, Running, Idle
<1>6. QED
  BY <1>1, <1>2, <1>3, <1>4, <1>5 DEF Shutdown

LEMMA SignalStep == IInv /\ Signal => IInv'
<1> SUFFICES ASSUME IInv, Signal PROVE IInv'
  OBVIOUS
<1>1. UNCHANGED <<mgrVars, callVars, connVars>>
  BY DEF Signal
<1>2. CASE phase = "start"
  <2>1. /\ phase' = "exited" /\ status' = "killed" /\ UNCHANGED signalled /\ pools = <<>>
    BY <1>2 DEF Signal, Exits, IInv, FileInv
  <2>2. QED
    BY <1>1, <1>2, <2>1 DEF IInv, ProcTypes, CallTypes, MgrInv, FileInv, OrderInv, mgrVars,
                callVars, connVars, Early, Running, Idle
<1>3. CASE phase # "start"
  <2>1. signalled' = TRUE /\ UNCHANGED <<phase, status, file>>
    BY <1>3 DEF Signal
  <2>2. QED
    BY <1>1, <2>1 DEF IInv, ProcTypes, CallTypes, MgrInv, FileInv, OrderInv, mgrVars, callVars,
                connVars, Early, Running, Idle, cfg
<1>4. QED
  BY <1>2, <1>3

LEMMA Inductive == IInv /\ [Next]_vars => IInv'
<1> SUFFICES ASSUME IInv, [Next]_vars PROVE IInv'
  OBVIOUS
<1>1. CASE UNCHANGED vars
  BY <1>1 DEF vars, procVars, mgrVars, callVars, connVars, IInv, ProcTypes, CallTypes, MgrInv,
              FileInv, OrderInv, Early, Running, Idle, cfg
<1>2. ASSUME NEW c \in Call, Work(c) \/ Request(c) \/ Cancel(c) \/ ServerAnswers(c) PROVE IInv'
  BY <1>2, WorkServes, ServesStep
<1>3. ASSUME NEW e \in {"eof", "bad"}, ReadEnds(e) PROVE IInv'
  BY <1>3, ReadServes, ServesStep
<1>4. QED
  BY <1>1, <1>2, <1>3, BootStep, ShutdownStep, SignalStep DEF Next, Exited

LEMMA Invariance == Spec => []IInv
BY InitInv, Inductive, PTL DEF Spec

-----------------------------------------------------------------------------
(* The characters differ.                                                  *)
LEMMA Characters ==
    /\ Blank # "://" /\ Blank # "=" /\ Quote # "=" /\ Slash # "="
    /\ Blank # Quote /\ Blank # Slash /\ Quote # Slash
    /\ "sslmode" \notin {"=", Blank, Quote, Slash} /\ "disable" \notin {"=", Blank, Quote, Slash}
BY DEF Blank, Quote, Slash

(* A set of numbers has a least one.                                       *)
LEMMA Least == ASSUME NEW T \in SUBSET Nat, T # {} PROVE \E m \in T : \A n \in T : m <= n
<1>1. PICK m \in T : \A n \in T : ~(<<n, m>> \in OpToRel(<, Nat))
  BY WFMin, NatLessThanWellFounded
<1>2. \A n \in T : ~(n < m)
  BY <1>1 DEF OpToRel
<1>3. QED
  BY <1>2

LEMMA MinFound ==
    ASSUME NEW T \in SUBSET Nat, T # {}
    PROVE  Min(T) \in T /\ \A n \in T : Min(T) <= n
BY Least DEF Min

LEMMA MinIs ==
    ASSUME NEW T \in SUBSET Nat, NEW m \in T, \A n \in T : m <= n
    PROVE  Min(T) = m
<1>1. Min(T) \in T /\ \A n \in T : Min(T) <= n
  BY MinFound
<1>2. PICK l \in T : l = Min(T) /\ l <= m
  BY <1>1
<1>3. QED
  BY <1>2

LEMMA MaxIs ==
    ASSUME NEW T \in SUBSET Nat, NEW m \in T, \A n \in T : n <= m
    PROVE  Max(T) = m
<1>1. \E l \in T : \A n \in T : l >= n
  OBVIOUS
<1>2. PICK l \in T : l = Max(T) /\ l >= m
  BY <1>1 DEF Max
<1>3. QED
  BY <1>2

(* A set of numbers with a bound has a greatest one.                       *)
LEMMA MaxFound ==
    ASSUME NEW b \in Nat, NEW T \in SUBSET (1 .. b), T # {}
    PROVE  Max(T) \in T /\ \A n \in T : n <= Max(T)
<1> DEFINE D == {d \in 0 .. b : b - d \in T}
<1>1. D \in SUBSET Nat /\ D # {}
  <2>1. PICK t \in T : TRUE
    OBVIOUS
  <2>2. b - t \in 0 .. b /\ b - (b - t) = t
    BY <2>1
  <2>3. b - t \in D
    BY <2>1, <2>2
  <2>4. D \in SUBSET Nat
    OBVIOUS
  <2> HIDE DEF D
  <2>5. QED
    BY <2>3, <2>4
<1>2. PICK d \in D : \A e \in D : d <= e
  <2> HIDE DEF D
  <2>1. QED
    BY <1>1, Least
<1>3. b - d \in T /\ \A n \in T : n <= b - d
  <2>1. \A n \in T : b - n \in D
    OBVIOUS
  <2>2. QED
    BY <1>2, <2>1
<1>4. QED
  BY <1>3 DEF Max

-----------------------------------------------------------------------------
(* Where the fields stand in a text.                                       *)

Letters(S)    == {"=", Blank, Quote} \subseteq S
IsField(S, f) == f.key \in S /\ f.value \in Seq(S)
Wide(f)       == IF f.quoted THEN Len(f.value) + 4 ELSE Len(f.value) + 2
From(f)       == IF f.quoted THEN 3 ELSE 2

(* The text of a field begins at p.                                        *)
Stands(T, p, f) == \A i \in p .. p + Wide(f) - 1 : T[i] = FieldText(f)[i - p + 1]

(* The text consists of the first n of the fields, one blank between two,  *)
(* and s says where each begins.                                           *)
Laid(T, G, n, s) ==
    /\ s \in [1 .. n + 1 -> 1 .. Len(T) + 2]
    /\ s[1] = 1
    /\ \A k \in 1 .. n : s[k + 1] = s[k] + Wide(G[k]) + 1
    /\ s[n + 1] = Len(T) + 2
    /\ \A k \in 1 .. n : Stands(T, s[k], G[k])
    /\ \A k \in 2 .. n : T[s[k] - 1] = Blank

Lays(S, T, G, n) ==
    /\ T \in Seq(S) /\ n \in Nat
    /\ n = 0 => T = <<>>
    /\ n # 0 => T # <<>> /\ \E s : Laid(T, G, n, s)

(* One text after another.                                                 *)
Glue(S, c, a, b) ==
    /\ c \in Seq(S) /\ Len(c) = Len(a) + Len(b)
    /\ \A i \in 1 .. Len(a) : c[i] = a[i]
    /\ \A i \in Len(a) + 1 .. Len(a) + Len(b) : c[i] = b[i - Len(a)]

LEMMA Glued ==
    ASSUME NEW S, NEW a \in Seq(S), NEW b \in Seq(S)
    PROVE  Glue(S, a \o b, a, b)
BY ConcatProperties DEF Glue

LEMMA WideIs ==
    ASSUME NEW S, NEW f, IsField(S, f)
    PROVE  Wide(f) \in Nat /\ Wide(f) >= 2
<1>1. Len(f.value) \in Nat
  BY DEF IsField
<1>2. QED
  BY <1>1 DEF Wide

(* What is where in the text of a field.                                   *)
Shows(F, f) ==
    /\ F[1] = f.key /\ F[2] = "="
    /\ \A i \in From(f) + 1 .. From(f) + Len(f.value) : F[i] = f.value[i - From(f)]
    /\ f.quoted => F[3] = Quote /\ F[Len(f.value) + 4] = Quote

LEMMA FieldTextShows ==
    ASSUME NEW S, Letters(S), NEW f, IsField(S, f)
    PROVE  /\ FieldText(f) \in Seq(S) /\ Len(FieldText(f)) = Wide(f)
           /\ Shows(FieldText(f), f)
<1> DEFINE head == <<f.key, "=">>
           v    == f.value
           q    == <<Quote>>
<1>1. head \in Seq(S) /\ Len(head) = 2 /\ head[1] = f.key /\ head[2] = "="
  BY DEF Letters, IsField
<1>2. q \in Seq(S) /\ Len(q) = 1 /\ q[1] = Quote
  BY DEF Letters
<1>3. v \in Seq(S) /\ Len(v) \in Nat
  BY DEF IsField
<1>4. FieldText(f) = head \o (IF f.quoted THEN q \o v \o q ELSE v)
  BY DEF FieldText, ValueText
<1> HIDE DEF head, v, q
<1>5. CASE f.quoted
  <2> DEFINE qv  == q \o v
             qvq == qv \o q
             t   == head \o qvq
  <2>1. FieldText(f) = t
    BY <1>4, <1>5
  <2>2. Glue(S, qv, q, v)
    BY ONLY <1>2, <1>3, Glued
  <2> HIDE DEF qv
  <2>3. /\ qv \in Seq(S) /\ Len(qv) = Len(v) + 1 /\ qv[1] = Quote
        /\ \A i \in 2 .. Len(v) + 1 : qv[i] = v[i - 1]
    BY ONLY <1>2, <1>3, <2>2 DEF Glue
  <2>4. Glue(S, qvq, qv, q)
    BY ONLY <1>2, <2>3, Glued
  <2> HIDE DEF qvq
  <2>5. /\ qvq \in Seq(S) /\ Len(qvq) = Len(v) + 2 /\ qvq[1] = Quote /\ qvq[Len(v) + 2] = Quote
        /\ \A i \in 2 .. Len(v) + 1 : qvq[i] = v[i - 1]
    BY ONLY <1>2, <1>3, <2>3, <2>4 DEF Glue
  <2>6. Glue(S, t, head, qvq)
    BY ONLY <1>1, <2>5, Glued
  <2> HIDE DEF t
  <2>7. /\ t \in Seq(S) /\ Len(t) = Len(v) + 4 /\ t[1] = f.key /\ t[2] = "="
        /\ \A i \in 3 .. Len(v) + 4 : t[i] = qvq[i - 2]
    BY ONLY <1>1, <1>3, <2>5, <2>6 DEF Glue
  <2>8. t[3] = Quote /\ t[Len(v) + 4] = Quote
    BY ONLY <1>3, <2>5, <2>7
  <2>9. ASSUME NEW i \in 4 .. Len(v) + 3 PROVE t[i] = v[i - 3]
    <3>1. i \in 3 .. Len(v) + 4 /\ i - 2 \in 2 .. Len(v) + 1 /\ (i - 2) - 1 = i - 3
      BY ONLY <1>3
    <3>2. t[i] = qvq[i - 2] /\ qvq[i - 2] = v[(i - 2) - 1]
      BY ONLY <2>5, <2>7, <3>1
    <3>3. QED
      BY ONLY <3>1, <3>2
  <2>10. From(f) = 3 /\ Wide(f) = Len(v) + 4
    BY <1>5 DEF From, Wide, v
  <2>11. Shows(t, f)
    BY <1>3, <1>5, <2>7, <2>8, <2>9, <2>10 DEF Shows, v
  <2>12. QED
    BY <2>1, <2>7, <2>10, <2>11
<1>6. CASE ~f.quoted
  <2> DEFINE t == head \o v
  <2>1. FieldText(f) = t
    BY <1>4, <1>6
  <2>2. Glue(S, t, head, v)
    BY ONLY <1>1, <1>3, Glued
  <2> HIDE DEF t
  <2>3. /\ t \in Seq(S) /\ Len(t) = Len(v) + 2 /\ t[1] = f.key /\ t[2] = "="
        /\ \A i \in 3 .. Len(v) + 2 : t[i] = v[i - 2]
    BY ONLY <1>1, <1>3, <2>2 DEF Glue
  <2>4. From(f) = 2 /\ Wide(f) = Len(v) + 2
    BY <1>6 DEF From, Wide, v
  <2>5. Shows(t, f)
    BY <1>3, <1>6, <2>3, <2>4 DEF Shows, v
  <2>6. QED
    BY <2>1, <2>3, <2>4, <2>5
<1>7. QED
  BY <1>5, <1>6

(* What a field makes of a text that is not empty.                         *)
Longer(U, T, f) ==
    /\ Len(U) = Len(T) + 1 + Wide(f) /\ U[Len(T) + 1] = Blank
    /\ \A i \in 1 .. Len(T) : U[i] = T[i]
    /\ \A i \in Len(T) + 2 .. Len(T) + 1 + Wide(f) : U[i] = FieldText(f)[i - Len(T) - 1]

LEMMA JoinsLonger ==
    ASSUME NEW S, Letters(S), NEW f, IsField(S, f), NEW T \in Seq(S), T # <<>>
    PROVE  Joins(T, f) \in Seq(S) /\ Longer(Joins(T, f), T, f)
<1> DEFINE F == FieldText(f)
           B == T \o <<Blank>>
           U == B \o F
<1>1. F \in Seq(S) /\ Len(F) = Wide(f) /\ Wide(f) \in Nat
  BY FieldTextShows, WideIs
<1>2. <<Blank>> \in Seq(S) /\ Len(<<Blank>>) = 1 /\ <<Blank>>[1] = Blank
  BY DEF Letters
<1>3. Joins(T, f) = U
  BY DEF Joins
<1> HIDE DEF F
<1>4. Glue(S, B, T, <<Blank>>)
  BY ONLY <1>2, Glued
<1> HIDE DEF B
<1>5. B \in Seq(S)
  BY <1>4 DEF Glue
<1>6. Glue(S, U, B, F)
  BY ONLY <1>1, <1>5, Glued
<1> HIDE DEF U
<1>7. PICK t \in Nat : t = Len(T)
  OBVIOUS
<1>8. Len(B) = t + 1 /\ B[t + 1] = Blank /\ \A i \in 1 .. t : B[i] = T[i]
  <2>1. PICK b : b = <<Blank>>
    OBVIOUS
  <2>2. Glue(S, B, T, b) /\ Len(b) = 1 /\ b[1] = Blank
    BY <1>2, <1>4, <2>1, Zenon
  <2>3. B[t + 1] = b[t + 1 - t]
    BY ONLY <1>7, <2>2 DEF Glue
  <2>4. QED
    BY ONLY <1>7, <2>2, <2>3 DEF Glue
<1>9. /\ U \in Seq(S) /\ Len(U) = t + 1 + Wide(f) /\ U[t + 1] = Blank
      /\ \A i \in 1 .. t : U[i] = T[i]
      /\ \A i \in t + 2 .. t + 1 + Wide(f) : U[i] = F[i - t - 1]
  BY ONLY <1>1, <1>6, <1>7, <1>8 DEF Glue
<1>10. QED
  BY <1>3, <1>7, <1>9 DEF Longer, F

(* One more field is appended.                                             *)
LEMMA JoinsLays ==
    ASSUME NEW S, Letters(S), NEW G, NEW n, NEW T, Lays(S, T, G, n), IsField(S, G[n + 1]),
           \A k \in 1 .. n : IsField(S, G[k])
    PROVE  Lays(S, Joins(T, G[n + 1]), G, n + 1)
<1> DEFINE f == G[n + 1]
           F == FieldText(f)
<1>1. n \in Nat /\ T \in Seq(S)
  BY DEF Lays
<1>2. F \in Seq(S) /\ Len(F) = Wide(f)
  BY FieldTextShows
<1>3. Wide(f) \in Nat /\ Wide(f) >= 2
  BY WideIs
<1>4. CASE n = 0
  <2> DEFINE s == [k \in 1 .. n + 2 |-> IF k = 1 THEN 1 ELSE Wide(f) + 2]
  <2>1. Joins(T, f) = F
    BY <1>4 DEF Lays, Joins
  <2>2. Stands(F, 1, f)
    BY <1>3 DEF Stands
  <2> HIDE DEF F, f
  <2>3. 1 .. n + 2 = 1 .. (n + 1) + 1 /\ 1 .. n + 1 = {1} /\ 2 .. n + 1 = {}
    BY <1>4
  <2>4. s \in [1 .. (n + 1) + 1 -> 1 .. Len(F) + 2] /\ s[1] = 1 /\ s[2] = Wide(f) + 2
    BY <1>2, <1>3, <1>4, <2>3
  <2>5. s[(n + 1) + 1] = Len(F) + 2
    BY <1>2, <1>3, <1>4, <2>4
  <2> HIDE DEF s
  <2>6. \A k \in 1 .. n + 1 : s[k + 1] = s[k] + Wide(G[k]) + 1
    BY <1>3, <1>4, <2>3, <2>4 DEF f
  <2>7. \A k \in 1 .. n + 1 : Stands(F, s[k], G[k])
    BY <2>2, <1>4, <2>3, <2>4 DEF f
  <2>8. Laid(F, G, n + 1, s)
    BY <2>3, <2>4, <2>5, <2>6, <2>7 DEF Laid
  <2>9. F # <<>>
    BY <1>2, <1>3
  <2>10. QED
    BY <1>1, <1>2, <2>1, <2>8, <2>9 DEF Lays, f
<1>5. CASE n # 0
  <2> DEFINE U == Joins(T, f)
  <2>0. T # <<>>
    BY <1>5 DEF Lays
  <2>1. PICK s : Laid(T, G, n, s)
    BY <1>5 DEF Lays
  <2>2. U \in Seq(S) /\ Longer(U, T, f)
    BY <1>1, <2>0, JoinsLonger
  <2> HIDE DEF F, f, U
  <2>7. PICK t \in Nat : t = Len(T)
    BY <1>1
  <2>9. /\ U \in Seq(S) /\ Len(U) = t + 1 + Wide(f) /\ U[t + 1] = Blank
        /\ \A i \in 1 .. t : U[i] = T[i]
        /\ \A i \in t + 2 .. t + 1 + Wide(f) : U[i] = F[i - t - 1]
    BY ONLY <2>2, <2>7 DEF Longer, F
  <2> DEFINE r == [k \in 1 .. n + 2 |-> IF k = n + 2 THEN s[n + 1] + Wide(f) + 1 ELSE s[k]]
  <2>10. /\ s \in [1 .. n + 1 -> 1 .. t + 2] /\ s[1] = 1 /\ s[n + 1] = t + 2
         /\ \A k \in 1 .. n : s[k + 1] = s[k] + Wide(G[k]) + 1
    BY ONLY <1>1, <2>1, <2>7 DEF Laid
  <2>11. /\ \A k \in 1 .. n : s[k] \in Nat /\ s[k + 1] \in 1 .. t + 2
         /\ \A k \in 1 .. n : Wide(G[k]) \in Nat
    <3>1. ASSUME NEW k \in 1 .. n PROVE s[k] \in Nat /\ s[k + 1] \in 1 .. t + 2
      BY ONLY <1>1, <2>10
    <3>2. ASSUME NEW k \in 1 .. n PROVE Wide(G[k]) \in Nat
      BY WideIs
    <3>3. QED
      BY <3>1, <3>2
  <2>12. /\ r \in [1 .. (n + 1) + 1 -> 1 .. Len(U) + 2] /\ r[(n + 1) + 1] = Len(U) + 2
         /\ \A k \in 1 .. n + 1 : r[k] = s[k]
         /\ r[(n + 1) + 1] = t + 2 + Wide(f) + 1
    BY ONLY <1>1, <1>3, <2>9, <2>10
  <2> HIDE DEF r
  <2>13. ASSUME NEW k \in 1 .. n + 1 PROVE r[k + 1] = r[k] + Wide(G[k]) + 1
    <3>1. CASE k = n + 1
      BY ONLY <1>1, <2>10, <2>12, <3>1 DEF f
    <3>2. CASE k # n + 1
      <4>1. k \in 1 .. n /\ k + 1 \in 1 .. n + 1
        BY ONLY <1>1, <3>2
      <4>2. QED
        BY ONLY <2>10, <2>12, <4>1
    <3>3. QED
      BY <3>1, <3>2
  <2>14. ASSUME NEW k \in 1 .. n + 1 PROVE Stands(U, r[k], G[k])
    <3>1. CASE k = n + 1
      <4>1. r[k] = t + 2 /\ G[k] = f
        BY ONLY <1>1, <2>10, <2>12, <3>1 DEF f
      <4>2. Stands(U, t + 2, f)
        BY ONLY <1>3, <2>9 DEF Stands, F
      <4>3. QED
        BY <4>1, <4>2
    <3>2. CASE k # n + 1
      <4>1. k \in 1 .. n /\ r[k] = s[k]
        BY ONLY <1>1, <2>12, <3>2
      <4>2. /\ Stands(T, s[k], G[k]) /\ Wide(G[k]) \in Nat
            /\ s[k] \in 1 .. t + 2 /\ s[k] + Wide(G[k]) + 1 <= t + 2
        BY ONLY <2>1, <2>10, <2>11, <4>1 DEF Laid
      <4>3. QED
        BY ONLY <2>9, <4>1, <4>2 DEF Stands
    <3>3. QED
      BY <3>1, <3>2
  <2>15. ASSUME NEW k \in 2 .. n + 1 PROVE U[r[k] - 1] = Blank
    <3>1. CASE k = n + 1
      BY ONLY <1>1, <2>9, <2>10, <2>12, <3>1
    <3>2. CASE k # n + 1
      <4>1. k \in 2 .. n /\ k - 1 \in 1 .. n /\ (k - 1) + 1 = k /\ r[k] = s[k]
        BY ONLY <1>1, <2>12, <3>2
      <4>2. T[s[k] - 1] = Blank
        BY ONLY <2>1, <4>1 DEF Laid
      <4>3. s[k] = s[k - 1] + Wide(G[k - 1]) + 1 /\ s[k] \in 1 .. t + 2 /\ s[k - 1] \in 1 .. t + 2
        <5>1. PICK j \in 1 .. n : j = k - 1 /\ j + 1 = k
          BY ONLY <1>1, <4>1
        <5>2. s[j + 1] = s[j] + Wide(G[j]) + 1 /\ s[j + 1] \in 1 .. t + 2 /\ s[j] \in 1 .. t + 2
          BY ONLY <1>1, <2>10, <5>1
        <5>3. QED
          BY ONLY <5>1, <5>2
      <4>4. s[k] - 1 \in 1 .. t
        <5>1. s[k + 1] = s[k] + Wide(G[k]) + 1 /\ s[k + 1] \in 1 .. t + 2 /\ Wide(G[k]) \in Nat
          BY ONLY <2>10, <2>11, <4>1
        <5>2. Wide(G[k - 1]) \in Nat
          BY ONLY <2>11, <4>1
        <5>3. QED
          BY ONLY <4>3, <5>1, <5>2
      <4>5. QED
        BY ONLY <2>9, <4>1, <4>2, <4>4
    <3>3. QED
      BY <3>1, <3>2
  <2>16. r[1] = 1
    BY ONLY <1>1, <2>10, <2>12
  <2>17. Laid(U, G, n + 1, r)
    BY ONLY <1>1, <2>12, <2>13, <2>14, <2>15, <2>16 DEF Laid
  <2>18. U # <<>>
    BY <1>3, <2>9
  <2>19. QED
    BY <1>1, <2>9, <2>17, <2>18 DEF Lays, f, U
<1>6. QED
  BY <1>4, <1>5

(* The function of Joined exists.                                          *)
Upto(u, T, fs, n) == u[0] = T /\ \A k \in 1 .. n : u[k] = Joins(u[k - 1], fs[k])

LEMMA JoinedDefined ==
    ASSUME NEW T, NEW fs, Len(fs) \in Nat
    PROVE  \E u : Upto(u, T, fs, Len(fs)) /\ Joined(T, fs) = u[Len(fs)]
<1> DEFINE Is(u, n) == u = [k \in 0 .. n |-> IF k = 0 THEN T ELSE Joins(u[k - 1], fs[k])]
           Bad == {n \in Nat : \A u : ~Is(u, n)}
<1>1. Bad = {}
  <2> SUFFICES ASSUME Bad # {} PROVE FALSE
    OBVIOUS
  <2>1. PICK n \in Bad : \A m \in Bad : n <= m
    <3>1. Bad \in SUBSET Nat
      OBVIOUS
    <3> HIDE DEF Bad
    <3>2. QED
      BY <3>1, Least
  <2>2. n # 0
    <3>1. Is([k \in 0 .. 0 |-> T], 0)
      OBVIOUS
    <3>2. QED
      BY <3>1
  <2>3. PICK u : Is(u, n - 1)
    <3>1. n - 1 \in Nat /\ ~(n <= n - 1)
      BY <2>2
    <3>2. n - 1 \notin Bad
      BY <2>1, <3>1
    <3>3. QED
      BY <3>1, <3>2
  <2> DEFINE w == [k \in 0 .. n |-> IF k = n THEN Joins(u[n - 1], fs[n]) ELSE u[k]]
  <2>4. \A k \in 0 .. n - 1 : w[k] = u[k]
    OBVIOUS
  <2>5. ASSUME NEW k \in 0 .. n PROVE w[k] = IF k = 0 THEN T ELSE Joins(w[k - 1], fs[k])
    <3>1. CASE k = n
      <4>1. w[k] = Joins(u[n - 1], fs[n]) /\ n - 1 \in 0 .. n - 1
        BY <2>2, <3>1
      <4>2. QED
        BY <2>2, <2>4, <3>1, <4>1
    <3>2. CASE k # n
      <4>1. k \in 0 .. n - 1 /\ w[k] = u[k]
        BY <2>4, <3>2
      <4>2. u[k] = IF k = 0 THEN T ELSE Joins(u[k - 1], fs[k])
        BY <2>3, <4>1
      <4>3. k # 0 => w[k - 1] = u[k - 1]
        BY <2>4, <4>1
      <4>4. QED
        BY <4>1, <4>2, <4>3
    <3>3. QED
      BY <3>1, <3>2
  <2>6. w = [k \in 0 .. n |-> IF k = 0 THEN T ELSE Joins(w[k - 1], fs[k])]
    <3>1. w = [k \in 0 .. n |-> w[k]]
      OBVIOUS
    <3> HIDE DEF w
    <3>2. QED
      BY <2>5, <3>1
  <2>7. QED
    BY <2>6
<1>2. PICK u : Is(u, Len(fs))
  BY <1>1
<1> DEFINE joined == CHOOSE v : Is(v, Len(fs))
<1>3. Joined(T, fs) = joined[Len(fs)]
  BY DEF Joined
<1>4. Is(joined, Len(fs))
  <2> HIDE DEF Is
  <2>1. QED
    BY <1>2
<1> HIDE DEF joined
<1>5. Upto(joined, T, fs, Len(fs))
  BY <1>4 DEF Upto
<1>6. QED
  BY <1>3, <1>5

(* A text is the beginning of another, which has a blank behind it.        *)
Begins(T, U) ==
    /\ Len(T) <= Len(U)
    /\ \A i \in 1 .. Len(T) : U[i] = T[i]
    /\ Len(T) < Len(U) => U[Len(T) + 1] = Blank

LEMMA LongerBegins ==
    ASSUME NEW S, NEW T \in Seq(S), NEW U \in Seq(S), NEW V \in Seq(S), NEW f, IsField(S, f),
           Begins(T, U), Longer(V, U, f)
    PROVE  Begins(T, V)
<1>1. PICK t \in Nat, l \in Nat, n \in Nat, w \in Nat :
          t = Len(T) /\ l = Len(U) /\ n = Len(V) /\ w = Wide(f)
  BY WideIs
<1>2. /\ t <= l /\ (\A i \in 1 .. t : U[i] = T[i]) /\ (t < l => U[t + 1] = Blank)
  BY <1>1 DEF Begins
<1>3. n = l + 1 + w /\ V[l + 1] = Blank /\ \A i \in 1 .. l : V[i] = U[i]
  BY <1>1 DEF Longer
<1>4. t <= n /\ (\A i \in 1 .. t : V[i] = T[i]) /\ V[t + 1] = Blank
  BY ONLY <1>2, <1>3
<1>5. QED
  BY <1>1, <1>4 DEF Begins

(* A text of n fields that is one of the first m made longer.              *)
Lengthens(S, T, U, G, m, n) == Lays(S, U, G, n) /\ (m # 0 => Begins(T, U))

LEMMA JoinedLays ==
    ASSUME NEW S, Letters(S), NEW G, NEW m, NEW T, Lays(S, T, G, m),
           NEW fs, NEW n \in Nat, n = Len(fs), \A k \in 1 .. n : fs[k] = G[m + k],
           \A k \in 1 .. m + n : IsField(S, G[k])
    PROVE  Lengthens(S, T, Joined(T, fs), G, m, m + n)
<1>1. PICK u : Upto(u, T, fs, n) /\ Joined(T, fs) = u[n]
  BY JoinedDefined
<1>2. n = Len(fs)
  OBVIOUS
<1>3. m \in Nat /\ T \in Seq(S)
  BY DEF Lays
<1> DEFINE Good(k) == Lays(S, u[k], G, m + k) /\ (m # 0 => Begins(T, u[k]))
           Bad     == {k \in 0 .. n : ~Good(k)}
<1>4. Good(0)
  <2>1. u[0] = T /\ m + 0 = m
    BY <1>1, <1>3 DEF Upto
  <2>2. Begins(T, T)
    BY <1>3 DEF Begins
  <2>3. QED
    BY <2>1, <2>2
<1>5. ASSUME NEW k \in 1 .. n, Good(k - 1) PROVE Good(k)
  <2>1. u[k] = Joins(u[k - 1], fs[k]) /\ fs[k] = G[m + k]
    BY <1>1, <1>2 DEF Upto
  <2>2. PICK j \in Nat : j = m + (k - 1) /\ j + 1 = m + k
    BY <1>3
  <2>3. PICK V : V = u[k - 1]
    OBVIOUS
  <2>4. Lays(S, V, G, j) /\ (m # 0 => Begins(T, V))
    BY <1>5, <2>2, <2>3, Zenon
  <2>5. u[k] = Joins(V, G[j + 1])
    BY <2>1, <2>2, <2>3
  <2>6. IsField(S, G[j + 1]) /\ \A i \in 1 .. j : IsField(S, G[i])
    BY <1>2, <1>3, <2>2
  <2>7. Lays(S, Joins(V, G[j + 1]), G, j + 1)
    BY <2>4, <2>6, JoinsLays
  <2>8. ASSUME m # 0 PROVE Begins(T, Joins(V, G[j + 1]))
    <3>1. V \in Seq(S) /\ V # <<>>
      BY <1>3, <2>2, <2>4, <2>8 DEF Lays
    <3>2. Joins(V, G[j + 1]) \in Seq(S) /\ Longer(Joins(V, G[j + 1]), V, G[j + 1])
      BY <2>6, <3>1, JoinsLonger
    <3>3. QED
      BY <1>3, <2>4, <2>6, <2>8, <3>1, <3>2, LongerBegins
  <2>9. QED
    BY <2>2, <2>5, <2>7, <2>8
<1> HIDE DEF Good
<1>6. Bad = {}
  <2> SUFFICES ASSUME Bad # {} PROVE FALSE
    OBVIOUS
  <2>1. Bad \in SUBSET Nat
    OBVIOUS
  <2>2. PICK k \in Bad : \A j \in Bad : k <= j
    <3> HIDE DEF Bad
    <3>1. QED
      BY <2>1, Least
  <2>3. k \in 1 .. n /\ k - 1 \in 0 .. n /\ ~(k <= k - 1)
    BY <1>4, <2>2
  <2>4. Good(k - 1)
    BY <2>2, <2>3
  <2>5. QED
    BY <1>5, <2>2, <2>3, <2>4
<1>7. Good(n)
  BY <1>6
<1>8. QED
  BY <1>1, <1>2, <1>7 DEF Good, Lengthens

-----------------------------------------------------------------------------
(* What the configuration's reader sees in the text.                       *)

(* A blank ends the scheme, so what follows does not make a URL of a text. *)
LEMMA NoURLKept ==
    ASSUME NEW S, NEW T \in Seq(S), NEW U \in Seq(S), Begins(T, U), ~IsURLFormDSN(T)
    PROVE  ~IsURLFormDSN(U)
<1> SUFFICES ASSUME NEW i \in 2 .. Len(U), U[i] = "://", \A j \in 1 .. i - 1 : U[j] # Blank PROVE FALSE
  BY DEF IsURLFormDSN
<1>1. PICK t \in Nat : t = Len(T)
  OBVIOUS
<1>2. /\ \A j \in 1 .. t : U[j] = T[j]
      /\ t < Len(U) => U[t + 1] = Blank
  BY <1>1 DEF Begins
<1>3. CASE i <= t
  <2>1. i \in 2 .. Len(T) /\ T[i] = "://" /\ \A j \in 1 .. i - 1 : T[j] # Blank
    BY <1>1, <1>2, <1>3
  <2>2. QED
    BY <2>1 DEF IsURLFormDSN
<1>4. CASE i > t
  <2>1. U[t + 1] = Blank
    BY <1>2, <1>4
  <2>2. CASE i = t + 1
    BY <2>1, <2>2, Characters
  <2>3. CASE i # t + 1
    BY <1>4, <2>1, <2>3
  <2>4. QED
    BY <2>2, <2>3
<1>5. QED
  BY <1>3, <1>4

(* What stands where, if the text of a field begins at p.                  *)
Spelled(T, p, f) ==
    /\ T[p] = f.key /\ T[p + 1] = "="
    /\ \A i \in p + From(f) .. p + From(f) + Len(f.value) - 1 : T[i] = f.value[i - p - From(f) + 1]
    /\ f.quoted => T[p + 2] = Quote /\ T[p + Wide(f) - 1] = Quote

LEMMA StandsSpelled ==
    ASSUME NEW S, Letters(S), NEW f, IsField(S, f), NEW T, NEW p \in Nat, Stands(T, p, f)
    PROVE  Spelled(T, p, f)
<1> DEFINE F == FieldText(f)
<1>1. Shows(F, f)
  BY FieldTextShows
<1>2. PICK l \in Nat, w \in Nat, d \in {2, 3} :
          /\ l = Len(f.value) /\ w = Wide(f) /\ d = From(f)
          /\ w = d + l \/ (f.quoted /\ w = d + l + 1)
          /\ f.quoted => w = l + 4 /\ d = 3
          /\ w >= 2 /\ d + l <= w
  <2>1. Len(f.value) \in Nat
    BY DEF IsField
  <2>2. QED
    BY <2>1 DEF Wide, From
<1>0. d \in Nat /\ d >= 2 /\ d + l <= w /\ w >= 2
  BY <1>2
<1>3. \A i \in p .. p + w - 1 : T[i] = F[i - p + 1]
  BY <1>2 DEF Stands
<1> HIDE DEF F
<1>4. T[p] = F[1] /\ T[p + 1] = F[2]
  <2>1. p \in p .. p + w - 1 /\ p + 1 \in p .. p + w - 1 /\ p - p + 1 = 1 /\ p + 1 - p + 1 = 2
    BY ONLY <1>0
  <2>2. QED
    BY ONLY <1>3, <2>1
<1>5. ASSUME NEW i \in p + d .. p + d + l - 1 PROVE T[i] = f.value[i - p - d + 1]
  <2>1. i \in p .. p + w - 1 /\ i - p + 1 \in d + 1 .. d + l /\ (i - p + 1) - d = i - p - d + 1
    BY ONLY <1>0
  <2>2. T[i] = F[i - p + 1]
    BY ONLY <1>3, <2>1
  <2>3. F[i - p + 1] = f.value[(i - p + 1) - d]
    BY ONLY <1>1, <1>2, <2>1 DEF Shows
  <2>4. QED
    BY ONLY <2>1, <2>2, <2>3
<1>6. ASSUME f.quoted PROVE T[p + 2] = Quote /\ T[p + w - 1] = Quote
  <2>1. F[3] = Quote /\ F[l + 4] = Quote /\ w = l + 4
    BY ONLY <1>1, <1>2, <1>6 DEF Shows
  <2>2. /\ p + 2 \in p .. p + w - 1 /\ p + w - 1 \in p .. p + w - 1
        /\ p + 2 - p + 1 = 3 /\ p + w - 1 - p + 1 = l + 4
    BY ONLY <2>1
  <2>3. QED
    BY ONLY <1>3, <2>1, <2>2
<1>7. QED
  BY <1>1, <1>2, <1>4, <1>5, <1>6 DEF Spelled, Shows

(* Where the marks are in a clear field.                                   *)
Marked(T, p, f) ==
    /\ T[p] = f.key /\ T[p] # "=" /\ T[p + 1] = "="
    /\ \A i \in p .. p + Wide(f) - 1 :
          /\ T[i] # Slash
          /\ T[i] = Quote <=> (f.quoted /\ i \in {p + 2, p + Wide(f) - 1})
          /\ T[i] = Blank => f.quoted /\ p + 2 < i /\ i < p + Wide(f) - 1

LEMMA SpelledMarked ==
    ASSUME NEW S, NEW f, IsField(S, f), ClearField(f), NEW T, NEW p \in Nat, Spelled(T, p, f)
    PROVE  Marked(T, p, f)
<1>1. PICK l \in Nat, w \in Nat, d \in {2, 3} :
          /\ l = Len(f.value) /\ w = Wide(f) /\ d = From(f)
          /\ f.quoted => w = l + 4 /\ d = 3
          /\ ~f.quoted => w = l + 2 /\ d = 2
  <2>1. Len(f.value) \in Nat
    BY DEF IsField
  <2>2. QED
    BY <2>1 DEF Wide, From
<1>0. PICK q \in BOOLEAN : q <=> f.quoted
  OBVIOUS
<1>01. d \in Nat /\ IF q THEN w = l + 4 /\ d = 3 ELSE w = l + 2 /\ d = 2
  BY <1>0, <1>1
<1>2. /\ T[p] = f.key /\ T[p + 1] = "="
      /\ \A i \in p + d .. p + d + l - 1 : T[i] = f.value[i - p - d + 1]
      /\ f.quoted => T[p + 2] = Quote /\ T[p + w - 1] = Quote
  BY <1>1 DEF Spelled
<1>3. T[p] \notin {"=", Blank, Quote, Slash}
  BY <1>2 DEF ClearField, ClearKey
<1>4. ASSUME NEW i \in p + d .. p + d + l - 1
      PROVE  T[i] \notin {Quote, Slash} /\ (T[i] = Blank => f.quoted)
  <2>1. i - p - d + 1 \in 1 .. l
    BY ONLY <1>01
  <2>2. i - p - d + 1 \in DOMAIN f.value
    BY <1>1, <2>1 DEF IsField
  <2>3. QED
    BY <1>2, <2>2 DEF ClearField, ClearKey
<1>5. ASSUME NEW i \in p .. p + w - 1
      PROVE  /\ T[i] # Slash
             /\ T[i] = Quote <=> (f.quoted /\ i \in {p + 2, p + w - 1})
             /\ T[i] = Blank => f.quoted /\ p + 2 < i /\ i < p + w - 1
  <2>1. CASE i \in {p, p + 1}
    <3>1. i \notin {p + 2, p + w - 1} \/ ~q
      BY ONLY <1>01, <2>1
    <3>2. QED
      BY <1>0, <1>2, <1>3, <2>1, <3>1, Characters
  <2>2. CASE i \in p + d .. p + d + l - 1
    <3>1. q => p + 2 < i /\ i < p + w - 1
      BY ONLY <1>01, <2>2
    <3>2. T[i] \notin {Quote, Slash} /\ (T[i] = Blank => f.quoted)
      BY <1>4, <2>2
    <3>3. i \notin {p + 2, p + w - 1} \/ ~q
      BY ONLY <1>01, <2>2, <3>1
    <3>4. QED
      BY <1>0, <3>1, <3>2, <3>3
  <2>3. CASE f.quoted /\ i \in {p + 2, p + w - 1}
    BY <1>2, <2>3, Characters
  <2>4. i \in {p, p + 1} \/ i \in p + d .. p + d + l - 1 \/ (q /\ i \in {p + 2, p + w - 1})
    BY ONLY <1>01
  <2>5. QED
    BY <1>0, <2>1, <2>2, <2>3, <2>4
<1>6. QED
  BY <1>1, <1>2, <1>3, <1>5 DEF Marked

(* A text of clear fields, and where they begin.                           *)
ClearText(T, G, n, s) ==
    /\ Len(T) \in Nat /\ n \in Nat /\ n # 0
    /\ s \in [1 .. n + 1 -> 1 .. Len(T) + 2] /\ s[1] = 1 /\ s[n + 1] = Len(T) + 2
    /\ \A k \in 1 .. n : /\ Len(G[k].value) \in Nat /\ Wide(G[k]) \in Nat /\ Wide(G[k]) >= 2
                         /\ s[k + 1] = s[k] + Wide(G[k]) + 1
                         /\ Spelled(T, s[k], G[k]) /\ Marked(T, s[k], G[k])
    /\ \A k \in 2 .. n : T[s[k] - 1] = Blank

LEMMA LaidClear ==
    ASSUME NEW S, Letters(S), NEW T \in Seq(S), NEW n \in Nat, n # 0, NEW G, NEW s, Laid(T, G, n, s),
           \A k \in 1 .. n : IsField(S, G[k]) /\ ClearField(G[k])
    PROVE  ClearText(T, G, n, s)
<1>1. Len(T) \in Nat
  OBVIOUS
<1>2. ASSUME NEW k \in 1 .. n
      PROVE  /\ Len(G[k].value) \in Nat /\ Wide(G[k]) \in Nat /\ Wide(G[k]) >= 2
             /\ s[k + 1] = s[k] + Wide(G[k]) + 1
             /\ Spelled(T, s[k], G[k]) /\ Marked(T, s[k], G[k])
  <2>1. IsField(S, G[k]) /\ ClearField(G[k])
    OBVIOUS
  <2>2. Stands(T, s[k], G[k]) /\ s[k] \in Nat /\ s[k + 1] = s[k] + Wide(G[k]) + 1
    BY DEF Laid
  <2>3. Spelled(T, s[k], G[k])
    BY <2>1, <2>2, StandsSpelled
  <2>4. Marked(T, s[k], G[k])
    BY <2>1, <2>2, <2>3, SpelledMarked
  <2>5. Len(G[k].value) \in Nat
    BY <2>1 DEF IsField
  <2>6. QED
    BY <2>1, <2>2, <2>3, <2>4, <2>5, WideIs
<1>3. QED
  BY <1>1, <1>2 DEF ClearText, Laid

(* One field of it, and what is behind it.                                 *)
LEMMA FieldAt ==
    ASSUME NEW T, NEW G, NEW n, NEW s, ClearText(T, G, n, s), NEW k \in 1 .. n
    PROVE  /\ s[k] \in Nat /\ s[k] >= 1 /\ Wide(G[k]) \in Nat /\ Wide(G[k]) >= 2
           /\ s[k + 1] = s[k] + Wide(G[k]) + 1 /\ s[k + 1] <= Len(T) + 2
           /\ k = n => s[k + 1] = Len(T) + 2
           /\ k # n => k + 1 \in 1 .. n /\ s[k + 1] <= Len(T) /\ T[s[k + 1] - 1] = Blank
<1>1. s[k] \in Nat /\ s[k] >= 1 /\ s[k + 1] \in 1 .. Len(T) + 2
  BY DEF ClearText
<1>2. Wide(G[k]) \in Nat /\ Wide(G[k]) >= 2 /\ s[k + 1] = s[k] + Wide(G[k]) + 1
  BY DEF ClearText
<1>3. ASSUME k # n PROVE k + 1 \in 1 .. n /\ s[k + 1] <= Len(T) /\ T[s[k + 1] - 1] = Blank
  <2>1. PICK j \in 2 .. n : j = k + 1
    BY <1>3 DEF ClearText
  <2>2. T[s[j] - 1] = Blank
    BY DEF ClearText
  <2>3. /\ Wide(G[j]) \in Nat /\ Wide(G[j]) >= 2 /\ s[j + 1] = s[j] + Wide(G[j]) + 1
        /\ s[j] \in Nat /\ s[j + 1] \in 1 .. Len(T) + 2 /\ Len(T) \in Nat
    <3>1. j \in 1 .. n /\ j \in 1 .. n + 1 /\ j + 1 \in 1 .. n + 1
      BY DEF ClearText
    <3>2. Wide(G[j]) \in Nat /\ Wide(G[j]) >= 2 /\ s[j + 1] = s[j] + Wide(G[j]) + 1
      BY <3>1 DEF ClearText
    <3>3. s \in [1 .. n + 1 -> 1 .. Len(T) + 2] /\ Len(T) \in Nat
      BY DEF ClearText
    <3>4. s[j] \in 1 .. Len(T) + 2 /\ s[j + 1] \in 1 .. Len(T) + 2
      BY ONLY <3>1, <3>3
    <3>5. QED
      BY <3>2, <3>3, <3>4
  <2>4. s[j] <= Len(T)
    BY ONLY <2>3
  <2>5. QED
    BY <2>1, <2>2, <2>4
<1>4. k = n => s[k + 1] = Len(T) + 2
  BY DEF ClearText
<1>5. QED
  BY <1>1, <1>2, <1>3, <1>4 DEF ClearText

Quotes(T, i) == {j \in 1 .. i - 1 : T[j] = Quote}

LEMMA QuotesFinite ==
    ASSUME NEW T, NEW i \in Nat
    PROVE  IsFiniteSet(Quotes(T, i)) /\ Cardinality(Quotes(T, i)) \in Nat
<1>1. IsFiniteSet(1 .. i - 1)
  BY FS_Interval
<1>2. Quotes(T, i) \in SUBSET (1 .. i - 1)
  BY DEF Quotes
<1>3. IsFiniteSet(Quotes(T, i))
  BY <1>1, <1>2, FS_Subset
<1>4. QED
  BY <1>3, FS_CardinalityType

(* One quote more.                                                         *)
LEMMA OneMoreQuote ==
    ASSUME NEW T, NEW i \in Nat, NEW j \in Nat, NEW q \in i .. j - 1, i >= 1,
           T[q] = Quote, \A x \in i .. j - 1 : T[x] = Quote => x = q
    PROVE  Cardinality(Quotes(T, j)) = Cardinality(Quotes(T, i)) + 1
<1>1. Quotes(T, j) = Quotes(T, i) \cup {q}
  BY DEF Quotes
<1>2. q \notin Quotes(T, i)
  BY DEF Quotes
<1>3. QED
  BY <1>1, <1>2, QuotesFinite, FS_AddElement

LEMMA NoMoreQuote ==
    ASSUME NEW T, NEW i \in Nat, NEW j \in Nat, i <= j, i >= 1, \A x \in i .. j - 1 : T[x] # Quote
    PROVE  Cardinality(Quotes(T, j)) = Cardinality(Quotes(T, i))
<1>1. Quotes(T, j) = Quotes(T, i)
  BY DEF Quotes
<1>2. QED
  BY <1>1

(* Before the first quote of a field, and behind its second, the number of *)
(* quotes has the parity it had before the field.                          *)
LEMMA QuotesOfField ==
    ASSUME NEW T, NEW G, NEW n, NEW s, ClearText(T, G, n, s), NEW k \in 1 .. n, G[k].quoted
    PROVE  /\ \A i \in s[k] + 3 .. s[k] + Wide(G[k]) - 1 :
                  Cardinality(Quotes(T, i)) = Cardinality(Quotes(T, s[k])) + 1
           /\ Cardinality(Quotes(T, s[k] + Wide(G[k]))) = Cardinality(Quotes(T, s[k])) + 2
<1>1. PICK p \in Nat, w \in Nat : p = s[k] /\ w = Wide(G[k]) /\ p >= 1 /\ w >= 4
  <2>1. Wide(G[k]) >= 4
    <3>1. PICK x \in Nat : x = Len(G[k].value)
      BY DEF ClearText
    <3>2. Wide(G[k]) = x + 4
      BY <3>1 DEF Wide
    <3>3. QED
      BY <3>2
  <2>2. QED
    BY <2>1, FieldAt
<1>2. \A i \in p .. p + w - 1 : T[i] = Quote <=> i \in {p + 2, p + w - 1}
  BY <1>1 DEF ClearText, Marked
<1>3. ASSUME NEW i \in p + 3 .. p + w - 1
      PROVE  Cardinality(Quotes(T, i)) = Cardinality(Quotes(T, p)) + 1
  <2>1. i \in Nat /\ p + 2 \in p .. i - 1 /\ p + 2 \in p .. p + w - 1
    BY ONLY <1>1
  <2>2. T[p + 2] = Quote
    BY ONLY <1>2, <2>1
  <2>3. \A x \in p .. i - 1 : T[x] = Quote => x = p + 2
    BY ONLY <1>1, <1>2
  <2>4. QED
    BY ONLY <1>1, <2>1, <2>2, <2>3, OneMoreQuote
<1>4. Cardinality(Quotes(T, p + w)) = Cardinality(Quotes(T, p)) + 2
  <2>1. PICK i \in Nat, j \in Nat : i = p + w - 1 /\ j = p + w /\ j = i + 1
    BY ONLY <1>1
  <2>2. Cardinality(Quotes(T, i)) = Cardinality(Quotes(T, p)) + 1
    BY <1>1, <1>3, <2>1
  <2>3. T[i] = Quote /\ i \in i .. j - 1 /\ i >= 1 /\ \A x \in i .. j - 1 : x = i
    BY ONLY <1>1, <1>2, <2>1
  <2>4. Cardinality(Quotes(T, j)) = Cardinality(Quotes(T, i)) + 1
    BY ONLY <2>1, <2>3, OneMoreQuote
  <2>5. Cardinality(Quotes(T, p)) \in Nat
    BY QuotesFinite
  <2>6. QED
    BY ONLY <2>1, <2>2, <2>4, <2>5
<1>5. QED
  BY <1>1, <1>3, <1>4

(* The quotes before a field are even in number.                           *)
LEMMA EvenQuotes ==
    ASSUME NEW T, NEW G, NEW n, NEW s, ClearText(T, G, n, s), NEW k \in 1 .. n
    PROVE  Cardinality(Quotes(T, s[k])) % 2 = 0
<1> DEFINE Bad == {j \in 1 .. n : Cardinality(Quotes(T, s[j])) % 2 # 0}
<1>1. Bad = {}
  <2> SUFFICES ASSUME Bad # {} PROVE FALSE
    OBVIOUS
  <2>1. PICK j \in Bad : \A m \in Bad : j <= m
    <3>1. Bad \in SUBSET Nat
      OBVIOUS
    <3> HIDE DEF Bad
    <3>2. QED
      BY <3>1, Least
  <2>2. j \in 1 .. n /\ Cardinality(Quotes(T, s[j])) % 2 # 0
    BY <2>1
  <2>3. j # 1
    <3>1. s[1] = 1 /\ Quotes(T, 1) = {}
      BY DEF ClearText, Quotes
    <3>2. Cardinality(Quotes(T, s[1])) = 0
      BY <3>1, FS_EmptySet
    <3>3. QED
      BY <2>2, <3>2
  <2>4. PICK m \in 1 .. n : m + 1 = j /\ m # n
    BY <2>2, <2>3 DEF ClearText
  <2>5. m \notin Bad
    BY <2>1, <2>4
  <2> HIDE DEF Bad
  <2>6. PICK c \in Nat : c = Cardinality(Quotes(T, s[m]))
    BY FieldAt, QuotesFinite
  <2>7. c % 2 = 0
    BY <2>5, <2>6 DEF Bad
  <2>8. PICK p \in Nat, w \in Nat :
            /\ p = s[m] /\ w = Wide(G[m]) /\ p >= 1 /\ w >= 2 /\ s[j] = p + w + 1
            /\ T[p + w] = Blank
    <3>1. /\ s[m] \in Nat /\ s[m] >= 1 /\ Wide(G[m]) \in Nat /\ Wide(G[m]) >= 2
          /\ s[m + 1] = s[m] + Wide(G[m]) + 1 /\ T[s[m + 1] - 1] = Blank
      BY <2>4, FieldAt
    <3>2. s[m] + Wide(G[m]) + 1 - 1 = s[m] + Wide(G[m])
      BY <3>1
    <3>3. QED
      BY <2>4, <3>1, <3>2
  <2>9. Cardinality(Quotes(T, s[j])) = Cardinality(Quotes(T, p + w))
    <3>1. T[p + w] # Quote
      BY <2>8, Characters
    <3>2. \A x \in p + w .. p + w + 1 - 1 : T[x] # Quote
      BY ONLY <3>1
    <3>3. p + w \in Nat /\ p + w + 1 \in Nat /\ p + w <= p + w + 1 /\ p + w >= 1
      BY ONLY <2>8
    <3>4. QED
      BY ONLY <2>8, <3>2, <3>3, NoMoreQuote
  <2>10. Cardinality(Quotes(T, p + w)) \in {c, c + 2}
    <3>1. CASE G[m].quoted
      BY <2>6, <2>8, <3>1, QuotesOfField
    <3>2. CASE ~G[m].quoted
      <4>1. \A x \in p .. p + w - 1 : T[x] # Quote
        BY <2>8, <3>2 DEF ClearText, Marked
      <4>2. p + w \in Nat /\ p <= p + w
        BY ONLY <2>8
      <4>3. QED
        BY ONLY <2>6, <2>8, <4>1, <4>2, NoMoreQuote
    <3>3. QED
      BY <3>1, <3>2
  <2>11. Cardinality(Quotes(T, s[j])) % 2 = 0
    <3>1. PICK d \in {c, c + 2} : d = Cardinality(Quotes(T, s[j]))
      BY <2>9, <2>10
    <3>2. d % 2 = 0
      BY ONLY <2>7, <3>1
    <3>3. QED
      BY <3>1, <3>2
  <2>12. QED
    BY <2>2, <2>11
<1>2. QED
  BY <1>1

(* Every place of the text is in a field or is the blank behind one.       *)
LEMMA WhichField ==
    ASSUME NEW T, NEW G, NEW n, NEW s, ClearText(T, G, n, s), NEW i \in 1 .. Len(T)
    PROVE  \E k \in 1 .. n : s[k] <= i /\ i < s[k + 1]
<1> DEFINE D == {k \in 1 .. n : s[k] <= i}
<1>1. D \in SUBSET (1 .. n) /\ n \in Nat /\ 1 \in D
  BY DEF ClearText
<1>2. PICK k \in D : \A m \in D : m <= k
  <2> HIDE DEF D
  <2>1. QED
    BY <1>1, MaxFound
<1>3. CASE k = n
  BY <1>2, <1>3 DEF ClearText
<1>4. CASE k # n
  <2>1. k \in 1 .. n /\ k + 1 \in 1 .. n /\ ~(k + 1 <= k) /\ s[k] <= i
    BY <1>1, <1>2, <1>4
  <2>2. k + 1 \notin D
    <3> HIDE DEF D
    <3>1. QED
      BY <1>2, <2>1
  <2>3. s[k + 1] \in Nat
    BY <2>1, FieldAt
  <2>4. ~(s[k + 1] <= i)
    BY <2>1, <2>2
  <2>5. QED
    BY <2>1, <2>3, <2>4
<1>5. QED
  BY <1>3, <1>4

(* splitKVFields finds the fields.                                         *)
LEMMA FieldStartsFound ==
    ASSUME NEW T, NEW G, NEW n, NEW s, ClearText(T, G, n, s), NEW i \in 1 .. Len(T)
    PROVE  FieldStart(T, i) <=> \E k \in 1 .. n : i = s[k]
<1>1. ASSUME NEW k \in 1 .. n, i = s[k] PROVE FieldStart(T, i)
  <2>1. CASE k = 1
    BY <1>1, <2>1 DEF ClearText, FieldStart
  <2>2. CASE k # 1
    <3>1. T[s[k] - 1] = Blank
      <4>1. k \in 2 .. n
        BY <2>2 DEF ClearText
      <4>2. QED
        BY <4>1 DEF ClearText
    <3>2. Cardinality(Quotes(T, i)) % 2 = 0
      BY <1>1, EvenQuotes
    <3>3. ~InQuote(T, i)
      BY <3>2 DEF InQuote, Quotes
    <3>4. QED
      BY <1>1, <3>1, <3>3 DEF FieldStart
  <2>3. QED
    BY <2>1, <2>2
<1>2. ASSUME FieldStart(T, i), \A k \in 1 .. n : i # s[k] PROVE FALSE
  <2>1. PICK k \in 1 .. n : s[k] <= i /\ i < s[k + 1]
    BY WhichField
  <2>2. PICK p \in Nat, w \in Nat : p = s[k] /\ w = Wide(G[k]) /\ s[k + 1] = p + w + 1
    BY FieldAt
  <2>3. p < i /\ i <= p + w /\ i - 1 \in p .. p + w - 1
    BY <1>2, <2>1, <2>2
  <2>4. i # 1
    BY <1>2 DEF ClearText
  <2>5. T[i - 1] = Blank /\ ~InQuote(T, i)
    BY <1>2, <2>4 DEF FieldStart
  <2>6. G[k].quoted /\ p + 2 < i - 1 /\ i - 1 < p + w - 1
    <3>1. PICK j \in p .. p + w - 1 : j = i - 1
      BY <2>3
    <3>2. Marked(T, p, G[k])
      BY <2>2 DEF ClearText
    <3>3. \A x \in p .. p + Wide(G[k]) - 1 : T[x] = Blank => G[k].quoted /\ p + 2 < x /\ x < p + Wide(G[k]) - 1
      BY ONLY <3>2 DEF Marked
    <3>4. T[j] = Blank
      BY <2>5, <3>1
    <3>5. G[k].quoted /\ p + 2 < j /\ j < p + w - 1
      BY ONLY <2>2, <3>1, <3>3, <3>4
    <3>6. QED
      BY <3>1, <3>5
  <2>7. i \in p + 3 .. p + w - 1
    <3>1. PICK j \in Int : j = i
      OBVIOUS
    <3>2. p + 2 < j - 1 /\ j - 1 < p + w - 1
      BY <2>6, <3>1
    <3>3. j \in p + 3 .. p + w - 1
      BY ONLY <3>2
    <3>4. QED
      BY <3>1, <3>3
  <2>8. PICK c \in Nat : c = Cardinality(Quotes(T, p)) /\ c % 2 = 0
    BY <2>2, QuotesFinite, EvenQuotes
  <2>9. Cardinality(Quotes(T, i)) = c + 1
    <3>1. \A x \in s[k] + 3 .. s[k] + Wide(G[k]) - 1 :
              Cardinality(Quotes(T, x)) = Cardinality(Quotes(T, s[k])) + 1
      BY <2>6, QuotesOfField
    <3>2. QED
      BY ONLY <2>2, <2>7, <2>8, <3>1
  <2>10. (c + 1) % 2 = 1
    BY ONLY <2>8
  <2>11. InQuote(T, i)
    BY <2>9, <2>10 DEF InQuote, Quotes
  <2>12. QED
    BY <2>5, <2>11
<1>3. QED
  BY <1>1, <1>2

(* DSNHasParam finds the keys.                                             *)
LEMMA HasParamFound ==
    ASSUME NEW T, NEW G, NEW n, NEW s, ClearText(T, G, n, s), ~IsURLFormDSN(T), NEW key
    PROVE  DSNHasParam(KV(T), key) <=> \E k \in 1 .. n : G[k].key = key
<1>1. DSNHasParam(KV(T), key) <=>
          \E i \in 1 .. Len(T) - 1 : T[i] = key /\ T[i + 1] = "=" /\ FieldStart(T, i)
  BY DEF DSNHasParam, KV
<1>2. ASSUME NEW i \in 1 .. Len(T) - 1, T[i] = key, FieldStart(T, i)
      PROVE  \E k \in 1 .. n : G[k].key = key
  <2>1. i \in 1 .. Len(T)
    BY DEF ClearText
  <2>2. PICK k \in 1 .. n : i = s[k]
    BY <1>2, <2>1, FieldStartsFound
  <2>3. QED
    BY <1>2, <2>2 DEF ClearText, Marked
<1>3. ASSUME NEW k \in 1 .. n, G[k].key = key
      PROVE  \E i \in 1 .. Len(T) - 1 : T[i] = key /\ T[i + 1] = "=" /\ FieldStart(T, i)
  <2>1. T[s[k]] = key /\ T[s[k] + 1] = "="
    BY <1>3 DEF ClearText, Marked
  <2>2. s[k] \in 1 .. Len(T) - 1
    <3>1. PICK p \in Nat, w \in Nat, q \in Nat, t \in Nat :
              p = s[k] /\ w = Wide(G[k]) /\ q = s[k + 1] /\ t = Len(T)
      <4>1. s[k] \in Nat /\ Wide(G[k]) \in Nat /\ s[k + 1] = s[k] + Wide(G[k]) + 1
        BY FieldAt
      <4>2. Len(T) \in Nat
        BY DEF ClearText
      <4>3. QED
        BY <4>1, <4>2
    <3>2. p >= 1 /\ w >= 2 /\ q = p + w + 1 /\ q <= t + 2
      BY <3>1, FieldAt
    <3>3. p \in 1 .. t - 1
      BY ONLY <3>2
    <3>4. QED
      BY <3>1, <3>3
  <2>3. FieldStart(T, s[k])
    <3>1. PICK i \in 1 .. Len(T) : i = s[k]
      <4>1. Len(T) \in Nat
        BY DEF ClearText
      <4>2. QED
        BY <2>2, <4>1
    <3>2. QED
      BY <3>1, FieldStartsFound
  <2>4. QED
    BY <2>1, <2>2, <2>3
<1>4. QED
  BY <1>1, <1>2, <1>3

-----------------------------------------------------------------------------
(* What the driver's reader sees in the text.                              *)

(* The first place of a text that a set of them has, or the end.           *)
LEMMA FirstBeyond ==
    ASSUME NEW n \in Nat, NEW a \in Nat, NEW D, D \in SUBSET (a .. n)
    PROVE  /\ Min(D \cup {n + 1}) \in Nat /\ Min(D \cup {n + 1}) <= n + 1
           /\ Min(D \cup {n + 1}) >= a \/ Min(D \cup {n + 1}) = n + 1
<1> DEFINE E == D \cup {n + 1}
<1>1. E \in SUBSET Nat /\ n + 1 \in E /\ \A e \in E : e >= a \/ e = n + 1
  OBVIOUS
<1> HIDE DEF E
<1>2. Min(E) \in E /\ \A e \in E : Min(E) <= e
  BY <1>1, MinFound
<1>3. QED
  BY <1>1, <1>2 DEF E

(* Every turn gets further.                                                *)
LEMMA ReadFieldBeyond ==
    ASSUME NEW T, Len(T) \in Nat, NEW i \in 1 .. Len(T)
    PROVE  ReadField(T, i).next \in i + 1 .. Len(T) + 1
<1>1. PICK t \in Nat : t = Len(T)
  OBVIOUS
<1> DEFINE end    == Len(T) + 1
           eq     == Min({j \in i .. Len(T) : T[j] = "="} \cup {end})
           start  == SkipBlanks(T, eq + 1)
           quoted == start < end /\ T[start] = Quote
           from   == IF quoted THEN start + 1 ELSE start
           close  == Find(T, from, {IF quoted THEN Quote ELSE Blank})
<1>2. ReadField(T, i).next = Min({close + 1, end})
  BY DEF ReadField
<1>3. eq \in Nat /\ eq <= t + 1 /\ (eq >= i \/ eq = t + 1)
  <2> DEFINE D == {j \in i .. Len(T) : T[j] = "="}
  <2>1. D \in SUBSET (i .. t) /\ i \in Nat
    BY <1>1
  <2>2. eq = Min(D \cup {t + 1})
    BY <1>1
  <2> HIDE DEF D, eq
  <2>3. QED
    BY ONLY <2>1, <2>2, FirstBeyond
<1> HIDE DEF eq
<1>4. start \in Nat /\ start <= t + 1 /\ (start >= eq + 1 \/ start = t + 1)
  <2> DEFINE D == {j \in eq + 1 .. Len(T) : T[j] # Blank}
  <2>1. D \in SUBSET (eq + 1 .. t) /\ eq + 1 \in Nat
    BY <1>1, <1>3
  <2>2. start = Min(D \cup {t + 1})
    BY <1>1 DEF SkipBlanks
  <2> HIDE DEF D, start
  <2>3. QED
    BY ONLY <2>1, <2>2, FirstBeyond
<1> HIDE DEF start
<1>5. from \in Nat /\ from <= t + 1 /\ from >= start
  BY <1>1, <1>4
<1> HIDE DEF from, quoted
<1>6. close \in Nat /\ close <= t + 1 /\ (close >= from \/ close = t + 1)
  BY ONLY <1>1, <1>5, FirstBeyond DEF Find
<1> HIDE DEF close
<1>7. close >= i
  BY ONLY <1>1, <1>3, <1>4, <1>5, <1>6, i \in 1 .. Len(T)
<1>8. {close + 1, end} \in SUBSET Nat /\ {close + 1, end} # {} /\ \A x \in {close + 1, end} : x >= i + 1
  BY <1>1, <1>6, <1>7
<1>9. PICK x \in {close + 1, end} : x = Min({close + 1, end}) /\ \A y \in {close + 1, end} : x <= y
  BY <1>8, MinFound
<1>10. x <= end /\ x >= i + 1
  BY <1>8, <1>9
<1>11. QED
  BY <1>2, <1>6, <1>9, <1>10

(* The function of ParseKeywordValueSettings exists: what it is at a place *)
(* depends on what it is further on, and at the end on nothing.            *)
Turn(T, i, rest) ==
    IF i = Len(T) + 1 THEN [ok |-> TRUE, values |-> <<>>]
    ELSE IF ReadField(T, i).ok /\ rest.ok
      THEN [ok |-> TRUE, values |-> Over(rest.values, Only(ReadField(T, i).key, ReadField(T, i).value))]
    ELSE Failed

Turns(P, T) == \A i \in 1 .. Len(T) + 1 : P[i] = Turn(T, i, P[ReadField(T, i).next])

LEMMA ParseDefined ==
    ASSUME NEW T, Len(T) \in Nat
    PROVE  \E P : Turns(P, T) /\ ParseKeywordValueSettings(T) = P[1]
<1>1. PICK t \in Nat : t = Len(T)
  OBVIOUS
<1> DEFINE Next_(i) == ReadField(T, i).next
    Body(f, i) == Turn(T, i, f[Next_(i)])
    Part(n) == \E f : \A i \in 1 .. t + 1 : i + n > t => f[i] = Body(f, i)
    Bad == {n \in Nat : ~Part(n)}
<1>2. ASSUME NEW f, NEW g, NEW i \in 1 .. t + 1,
             \A j \in i + 1 .. t + 1 : g[j] = f[j]
      PROVE  Body(g, i) = Body(f, i)
  <2>1. CASE i = t + 1
    BY <1>1, <2>1 DEF Turn
  <2>2. CASE i # t + 1
    <3>1. Next_(i) \in i + 1 .. t + 1
      BY <1>1, <2>2, ReadFieldBeyond
    <3> HIDE DEF Next_
    <3>2. g[Next_(i)] = f[Next_(i)]
      BY <1>2, <3>1
    <3>3. QED
      BY <3>2
  <2>3. QED
    BY <2>1, <2>2
<1> HIDE DEF Body, Next_
<1>3. Bad = {}
  <2> SUFFICES ASSUME Bad # {} PROVE FALSE
    OBVIOUS
  <2>1. PICK n \in Bad : \A m \in Bad : n <= m
    <3>1. Bad \in SUBSET Nat
      OBVIOUS
    <3> HIDE DEF Bad
    <3>2. QED
      BY <3>1, Least
  <2>2. n \in Nat /\ ~Part(n)
    BY <2>1
  <2>3. PICK f : \A i \in 1 .. t + 1 : i + n > t + 1 => f[i] = Body(f, i)
    <3>1. CASE n = 0
      BY <3>1
    <3>2. CASE n # 0
      <4>1. n - 1 \in Nat /\ ~(n <= n - 1)
        BY <2>2, <3>2
      <4>2. Part(n - 1)
        <5> HIDE DEF Part
        <5>1. QED
          BY <2>1, <4>1
      <4>3. PICK f : \A i \in 1 .. t + 1 : i + (n - 1) > t => f[i] = Body(f, i)
        BY <4>2
      <4>4. \A i \in 1 .. t + 1 : i + n > t + 1 => i + (n - 1) > t
        BY <2>2
      <4>5. QED
        BY <4>3, <4>4
    <3>3. QED
      BY <3>1, <3>2
  <2> DEFINE g == [i \in 1 .. t + 1 |-> IF i + n > t + 1 THEN f[i] ELSE Body(f, i)]
  <2>4. /\ \A i \in 1 .. t + 1 : i + n > t + 1 => g[i] = f[i]
        /\ \A i \in 1 .. t + 1 : g[i] = Body(f, i)
    BY <2>3
  <2> HIDE DEF g
  <2>5. ASSUME NEW i \in 1 .. t + 1, i + n > t PROVE g[i] = Body(g, i)
    <3>1. \A j \in i + 1 .. t + 1 : j \in 1 .. t + 1 /\ j + n > t + 1
      BY <2>2, <2>5
    <3>2. \A j \in i + 1 .. t + 1 : g[j] = f[j]
      BY <2>4, <3>1
    <3>3. Body(g, i) = Body(f, i)
      BY <1>2, <3>2
    <3>4. QED
      BY <2>4, <3>3
  <2>6. Part(n)
    BY <2>5
  <2>7. QED
    BY <2>2, <2>6
<1>4. Part(t)
  <2> HIDE DEF Part
  <2>1. QED
    BY <1>3
<1>5. PICK f : \A i \in 1 .. t + 1 : f[i] = Body(f, i)
  <2>1. \A i \in 1 .. t + 1 : i + t > t
    OBVIOUS
  <2>2. QED
    BY <1>4, <2>1
<1> DEFINE g == [i \in 1 .. t + 1 |-> f[i]]
           Is(P) == P = [i \in 1 .. Len(T) + 1 |-> Turn(T, i, P[ReadField(T, i).next])]
<1>6. Is(g)
  <2>1. \A i \in 1 .. t + 1 : g[i] = f[i]
    OBVIOUS
  <2>2. ASSUME NEW i \in 1 .. t + 1 PROVE g[i] = Body(g, i)
    <3>1. \A j \in i + 1 .. t + 1 : g[j] = f[j]
      BY <2>1
    <3> HIDE DEF g
    <3>2. Body(g, i) = Body(f, i)
      BY <1>2, <3>1
    <3>3. QED
      BY <1>5, <2>1, <3>2
  <2>3. g = [i \in 1 .. t + 1 |-> g[i]]
    OBVIOUS
  <2> HIDE DEF g
  <2>4. g = [i \in 1 .. t + 1 |-> Turn(T, i, g[ReadField(T, i).next])]
    BY <2>2, <2>3 DEF Body, Next_
  <2>5. QED
    BY <1>1, <2>4
<1> DEFINE parse == CHOOSE P : Is(P)
<1>7. Is(parse)
  <2> HIDE DEF Is
  <2>1. QED
    BY <1>6
<1>8. ParseKeywordValueSettings(T) = parse[1]
  BY DEF ParseKeywordValueSettings, Turn
<1> HIDE DEF parse
<1>9. Turns(parse, T)
  BY <1>7 DEF Turns
<1>10. QED
  BY <1>8, <1>9

(* A character counts unless a backslash is before it.                     *)
LEMMA NotEscaped ==
    ASSUME NEW T, NEW a \in Nat, NEW c \in Nat, \A j \in a .. c - 1 : T[j] # Slash
    PROVE  ~Escaped(T, a, c)
<1> DEFINE D == {j \in a .. c - 1 : \A k \in j .. c - 1 : T[k] = Slash}
<1>1. D = {}
  <2> SUFFICES ASSUME NEW j \in a .. c - 1, \A k \in j .. c - 1 : T[k] = Slash PROVE FALSE
    OBVIOUS
  <2>1. j \in j .. c - 1
    OBVIOUS
  <2>2. QED
    BY <2>1
<1>2. Cardinality(D) = 0
  BY <1>1, FS_EmptySet
<1>3. Escaped(T, a, c) <=> Cardinality(D) % 2 = 1
  BY DEF Escaped
<1> HIDE DEF D
<1>4. QED
  BY <1>2, <1>3

LEMMA FindIs ==
    ASSUME NEW T, NEW t \in Nat, t = Len(T), NEW a \in Nat, NEW c \in a .. t + 1, NEW chars,
           \A j \in a .. c - 1 : T[j] \notin chars /\ T[j] # Slash, c = t + 1 \/ T[c] \in chars
    PROVE  Find(T, a, chars) = c
<1> DEFINE D == {i \in a .. t : T[i] \in chars /\ ~Escaped(T, a, i)} \cup {t + 1}
<1>1. Find(T, a, chars) = Min(D)
  BY DEF Find
<1>2. c \in Nat
  OBVIOUS
<1>3. D \in SUBSET Nat
  OBVIOUS
<1>4. c \in D
  <2>1. ~Escaped(T, a, c)
    BY <1>2, NotEscaped
  <2>2. QED
    BY <2>1
<1>5. \A j \in D : c <= j
  OBVIOUS
<1> HIDE DEF D
<1>6. QED
  BY <1>1, <1>3, <1>4, <1>5, MinIs

LEMMA SkipIs ==
    ASSUME NEW T, NEW t \in Nat, t = Len(T), NEW a \in 1 .. t, T[a] # Blank
    PROVE  SkipBlanks(T, a) = a
<1> DEFINE D == {i \in a .. t : T[i] # Blank} \cup {t + 1}
<1>1. SkipBlanks(T, a) = Min(D)
  BY DEF SkipBlanks
<1>2. D \in SUBSET Nat /\ a \in D /\ \A j \in D : a <= j
  OBVIOUS
<1> HIDE DEF D
<1>3. QED
  BY <1>1, <1>2, MinIs

LEMMA TrimmedIs ==
    ASSUME NEW S, NEW T \in Seq(S), NEW p \in 1 .. Len(T), T[p] # Blank, NEW i \in Nat,
           i = p \/ (i = p - 1 /\ T[i] = Blank)
    PROVE  Trimmed(T, i, p) = <<T[p]>>
<1> DEFINE words == {j \in i .. p : T[j] # Blank}
<1>1. words = {p}
  OBVIOUS
<1>2. Trimmed(T, i, p) = IF words = {} THEN <<>> ELSE SubSeq(T, Min(words), Max(words))
  BY DEF Trimmed
<1> HIDE DEF words
<1>3. Min(words) = p /\ Max(words) = p
  <2>1. words \in SUBSET Nat /\ p \in words /\ (\A j \in words : p <= j) /\ \A j \in words : j <= p
    BY <1>1
  <2>2. QED
    BY <2>1, MinIs, MaxIs
<1>4. Trimmed(T, i, p) = SubSeq(T, p, p)
  BY <1>1, <1>2, <1>3
<1>5. SubSeq(T, p, p) = <<T[p]>>
  <2> DEFINE U == SubSeq(T, p, p)
             V == <<T[p]>>
  <2>1. U \in Seq(S) /\ Len(U) = 1 /\ U[1] = T[p]
    BY SubSeqProperties
  <2>2. V \in Seq(S) /\ Len(V) = 1 /\ V[1] = T[p]
    OBVIOUS
  <2> HIDE DEF U, V
  <2>3. \A j \in 1 .. Len(U) : U[j] = V[j]
    BY <2>1, <2>2
  <2>4. U = V
    BY <2>1, <2>2, <2>3, SeqEqual
  <2>5. QED
    BY <2>4 DEF U, V
<1>6. QED
  BY <1>4, <1>5

LEMMA SubSeqIs ==
    ASSUME NEW S, NEW T \in Seq(S), NEW v \in Seq(S), NEW a \in 1 .. Len(T) + 1, NEW c \in Nat,
           c = a + Len(v), c <= Len(T) + 1, \A i \in a .. c - 1 : T[i] = v[i - a + 1]
    PROVE  SubSeq(T, a, c - 1) = v
<1> DEFINE U == SubSeq(T, a, c - 1)
<1>1. PICK l \in Nat, t \in Nat : l = Len(v) /\ t = Len(T)
  OBVIOUS
<1>2. a \in 1 .. t + 1 /\ c - 1 \in a - 1 .. t /\ (c - 1) - a + 1 = l
  BY <1>1
<1>3. U \in Seq(S) /\ Len(U) = l /\ \A j \in 1 .. l : U[j] = T[a + j - 1]
  <2>0. c = a + l /\ c <= t + 1 /\ a \in Nat /\ a >= 1
    BY <1>1
  <2>1. PICK b \in Int : b = c - 1 /\ b - a + 1 = l /\ b <= t
    BY ONLY <2>0, c \in Nat
  <2>2. \A i \in a .. b : T[i] \in S
    BY <1>1, <2>0, <2>1
  <2>3. /\ SubSeq(T, a, b) \in Seq(S)
        /\ Len(SubSeq(T, a, b)) = IF a <= b THEN b - a + 1 ELSE 0
        /\ \A j \in 1 .. b - a + 1 : SubSeq(T, a, b)[j] = T[a + j - 1]
    BY <2>2, SubSeqProperties
  <2>4. (IF a <= b THEN b - a + 1 ELSE 0) = l
    BY <2>1
  <2>5. QED
    BY <2>1, <2>3, <2>4
<1> HIDE DEF U
<1>4. ASSUME NEW j \in 1 .. l PROVE U[j] = v[j]
  <2>1. a + j - 1 \in a .. c - 1 /\ (a + j - 1) - a + 1 = j
    BY <1>1
  <2>2. T[a + j - 1] = v[(a + j - 1) - a + 1]
    BY <2>1
  <2>3. QED
    BY <1>3, <2>1, <2>2
<1>5. U = v
  BY <1>1, <1>3, <1>4, SeqEqual
<1>6. QED
  BY <1>5 DEF U

(* One turn reads one field, from where it begins or from the blank before *)
(* it.                                                                     *)
Takes(T, i, f, next) ==
    /\ ReadField(T, i).ok
    /\ ReadField(T, i).key = <<f.key>>
    /\ ReadField(T, i).value = f.value
    /\ ReadField(T, i).next \in {next - 1, next}

LEMMA OneTurn ==
    ASSUME NEW S, NEW T \in Seq(S), NEW G, NEW n, NEW s, ClearText(T, G, n, s), NEW k \in 1 .. n,
           IsField(S, G[k]), ClearField(G[k]), NEW i \in 1 .. Len(T),
           i = s[k] \/ (i = s[k] - 1 /\ T[i] = Blank)
    PROVE  Takes(T, i, G[k], s[k + 1])
<1> DEFINE f == G[k]
<1>1. PICK t \in Nat, p \in Nat, w \in Nat, l \in Nat, d \in Nat, q \in BOOLEAN :
          /\ t = Len(T) /\ p = s[k] /\ w = Wide(f) /\ l = Len(f.value) /\ d = From(f)
          /\ (q <=> f.quoted)
  <2>1. s[k] \in Nat /\ Wide(f) \in Nat
    BY FieldAt
  <2>2. Len(f.value) \in Nat /\ Len(T) \in Nat
    BY DEF IsField
  <2>3. From(f) \in Nat
    BY DEF From
  <2>4. \E q \in BOOLEAN : q <=> f.quoted
    OBVIOUS
  <2> HIDE DEF f
  <2>5. QED
    BY <2>1, <2>2, <2>3, <2>4
<1>2. IF q THEN w = l + 4 /\ d = 3 ELSE w = l + 2 /\ d = 2 /\ l # 0
  <2>1. f.quoted \/ f.value # <<>>
    BY DEF ClearField, ClearKey
  <2>2. l = 0 => f.value = <<>>
    <3>1. PICK v \in Seq(S) : v = f.value
      BY DEF IsField
    <3>2. Len(v) = 0 => v = <<>>
      BY EmptySeq
    <3>3. QED
      BY <1>1, <3>1, <3>2
  <2>3. QED
    BY <1>1, <2>1, <2>2 DEF Wide, From
<1>3. PICK e \in Nat :
          /\ e = s[k + 1] /\ p >= 1 /\ e = p + w + 1 /\ e <= t + 2
          /\ e = t + 2 \/ (e <= t /\ T[e - 1] = Blank)
  <2>1. /\ s[k] >= 1 /\ s[k + 1] = s[k] + Wide(G[k]) + 1 /\ s[k + 1] <= Len(T) + 2
        /\ k = n => s[k + 1] = Len(T) + 2
    BY FieldAt
  <2>2. k # n => s[k + 1] <= Len(T) /\ T[s[k + 1] - 1] = Blank
    BY FieldAt
  <2>3. QED
    BY <1>1, <2>1, <2>2
<1>4. /\ T[p] = f.key /\ T[p] # "=" /\ T[p + 1] = "="
      /\ \A j \in p .. p + w - 1 :
            /\ T[j] # Slash
            /\ T[j] = Quote <=> (q /\ j \in {p + 2, p + w - 1})
            /\ T[j] = Blank => q /\ p + 2 < j /\ j < p + w - 1
  BY <1>1 DEF ClearText, Marked
<1>5. \A j \in p + d .. p + d + l - 1 : T[j] = f.value[j - p - d + 1]
  <2>1. Spelled(T, s[k], f)
    BY DEF ClearText
  <2>2. QED
    BY <1>1, <2>1 DEF Spelled
<1>6. i \in Nat /\ i >= 1 /\ (i = p \/ (i = p - 1 /\ T[i] = Blank))
  BY <1>1
<1>7. f.value \in Seq(S)
  BY DEF IsField
<1> HIDE DEF f
<1> DEFINE end    == t + 1
           eq     == Min({j \in i .. t : T[j] = "="} \cup {end})
           key    == Trimmed(T, i, eq - 1)
           start  == SkipBlanks(T, eq + 1)
           quoted == start < end /\ T[start] = Quote
           from   == IF quoted THEN start + 1 ELSE start
           close  == Find(T, from, {IF quoted THEN Quote ELSE Blank})
<1>8. /\ ReadField(T, i).ok <=> (eq < end /\ key # <<>> /\ (close = end => ~quoted /\ ~Escaped(T, from, end)))
      /\ ReadField(T, i).key = key
      /\ ReadField(T, i).value = SubSeq(T, from, close - 1)
      /\ ReadField(T, i).next = Min({close + 1, end})
  BY <1>1 DEF ReadField
<1>9. eq = p + 1
  <2> DEFINE D == {j \in i .. t : T[j] = "="} \cup {end}
  <2>1. p + 1 \in D /\ D \in SUBSET Nat
    BY <1>2, <1>3, <1>4, <1>6
  <2>2. \A j \in D : p + 1 <= j
    BY <1>2, <1>3, <1>4, <1>6, Characters
  <2> HIDE DEF D
  <2>3. Min(D) = p + 1
    BY <2>1, <2>2, MinIs
  <2>4. QED
    BY <2>3 DEF D
<1>10. key = <<f.key>>
  <2>0. p \in 1 .. t /\ p \in p .. p + w - 1 /\ ~(p + 2 < p)
    BY ONLY <1>2, <1>3
  <2>1. T[p] # Blank /\ p \in 1 .. Len(T) /\ eq - 1 = p
    BY <1>1, <1>4, <1>9, <2>0
  <2>2. Trimmed(T, i, p) = <<T[p]>>
    BY <1>6, <2>1, TrimmedIs
  <2>3. QED
    BY <1>4, <2>1, <2>2
<1> HIDE DEF eq, key
<1>11. start = p + 2
  <2>1. p + 2 \in 1 .. t /\ p + 2 \in p .. p + w - 1
    BY ONLY <1>2, <1>3
  <2>2. T[p + 2] # Blank
    BY ONLY <1>4, <2>1
  <2>3. eq + 1 = p + 2
    BY <1>9
  <2>4. QED
    BY <1>1, <2>1, <2>2, <2>3, SkipIs
<1> HIDE DEF start
<1>12. quoted <=> q
  <2>1. p + 2 < t + 1 /\ p + 2 \in p .. p + w - 1
    BY ONLY <1>2, <1>3
  <2>2. T[p + 2] = Quote <=> q
    BY ONLY <1>4, <2>1
  <2>3. QED
    BY <1>11, <2>1, <2>2
<1> HIDE DEF quoted
<1>13. from = p + d
  BY <1>2, <1>11, <1>12
<1> HIDE DEF from
<1>14. PICK c \in Nat : c = p + d + l /\ (IF q THEN c = p + w - 1 ELSE c = p + w) /\ c <= t + 1
  BY ONLY <1>2, <1>3
<1>15. \A j \in p + d .. c - 1 : T[j] # Slash /\ T[j] \notin {IF q THEN Quote ELSE Blank}
  <2> TAKE j \in p + d .. c - 1
  <2>1. j \in p .. p + w - 1 /\ (q => p + 2 < j /\ j < p + w - 1)
    BY ONLY <1>2, <1>14
  <2>2. T[j] # Slash /\ ~(T[j] = Quote) /\ (T[j] = Blank => q)
    BY ONLY <1>4, <2>1
  <2>3. QED
    BY <2>2
<1>16. close = c
  <2>1. c \in p + d .. t + 1
    BY ONLY <1>14
  <2>2. c = t + 1 \/ T[c] \in {IF q THEN Quote ELSE Blank}
    <3>1. CASE q
      <4>1. c = p + w - 1 /\ p + w - 1 \in p .. p + w - 1
        BY ONLY <1>2, <1>14, <3>1
      <4>2. T[p + w - 1] = Quote
        BY ONLY <1>4, <3>1, <4>1
      <4>3. QED
        BY <3>1, <4>1, <4>2
    <3>2. CASE ~q
      <4>1. c = e - 1
        BY ONLY <1>3, <1>14, <3>2
      <4>2. e - 1 = t + 1 \/ T[e - 1] = Blank
        BY ONLY <1>3
      <4>3. QED
        BY <3>2, <4>1, <4>2
    <3>3. QED
      BY <3>1, <3>2
  <2>3. Find(T, p + d, {IF q THEN Quote ELSE Blank}) = c
    <3>1. PICK chars : chars = {IF q THEN Quote ELSE Blank}
      OBVIOUS
    <3>2. PICK a \in Nat : a = p + d
      OBVIOUS
    <3>3. \A j \in a .. c - 1 : T[j] \notin chars /\ T[j] # Slash
      BY <1>15, <3>1, <3>2
    <3>4. c \in a .. t + 1 /\ t = Len(T) /\ (c = t + 1 \/ T[c] \in chars)
      BY <1>1, <2>1, <2>2, <3>1, <3>2
    <3>5. Find(T, a, chars) = c
      BY ONLY <3>3, <3>4, FindIs
    <3>6. QED
      BY <3>1, <3>2, <3>5
  <2>4. QED
    BY <1>12, <1>13, <2>3
<1>17. ~Escaped(T, from, c)
  BY <1>13, <1>15, NotEscaped
<1> HIDE DEF close
<1>18. ReadField(T, i).ok
  <2>1. eq < end
    BY <1>2, <1>3, <1>9
  <2>2. key # <<>>
    BY <1>10
  <2>3. c = end => ~q
    BY <1>3, <1>14
  <2>4. QED
    BY <1>8, <1>12, <1>16, <1>17, <2>1, <2>2, <2>3
<1>19. SubSeq(T, from, close - 1) = f.value
  <2>0. p + d \in 1 .. t + 1 /\ c = (p + d) + l /\ c <= t + 1
    BY ONLY <1>3, <1>14
  <2>1. p + d \in 1 .. Len(T) + 1 /\ c = (p + d) + Len(f.value) /\ c <= Len(T) + 1
    BY <1>1, <2>0
  <2>2. \A j \in p + d .. c - 1 : T[j] = f.value[j - (p + d) + 1]
    <3> TAKE j \in p + d .. c - 1
    <3>1. j \in p + d .. p + d + l - 1 /\ j - p - d + 1 = j - (p + d) + 1
      BY ONLY <1>14
    <3>2. QED
      BY ONLY <1>5, <3>1
  <2>3. SubSeq(T, p + d, c - 1) = f.value
    BY <1>7, <2>1, <2>2, SubSeqIs
  <2>4. QED
    BY <1>13, <1>16, <2>3
<1>20. Min({close + 1, end}) \in {e - 1, e}
  <2>1. {c + 1, t + 1} \in SUBSET Nat /\ {c + 1, t + 1} # {}
    OBVIOUS
  <2>2. PICK m \in {c + 1, t + 1} : m = Min({c + 1, t + 1}) /\ m <= c + 1 /\ m <= t + 1
    BY <2>1, MinFound
  <2>3. m \in {e - 1, e}
    BY ONLY <1>3, <1>14, <2>2
  <2>4. QED
    BY <1>16, <2>2, <2>3
<1>21. QED
  BY <1>3, <1>8, <1>10, <1>18, <1>19, <1>20 DEF Takes, f

-----------------------------------------------------------------------------
(* What the driver understands of the text.                                *)

LEMMA NoneIsEmpty == ASSUME NEW f, f = [x \in DOMAIN f |-> f[x]], DOMAIN f = {} PROVE f = <<>>
OBVIOUS

LEMMA SameMap ==
    ASSUME NEW f, NEW g, f = [x \in DOMAIN f |-> f[x]], g = [x \in DOMAIN g |-> g[x]],
           DOMAIN f = DOMAIN g, \A x \in DOMAIN f : f[x] = g[x]
    PROVE  f = g
OBVIOUS

(* The fields from the k-th to the n-th, the later counting.               *)
FieldsFrom(G, n, k) ==
    [key \in {<<G[j].key>> : j \in k .. n} |-> G[Max({j \in k .. n : <<G[j].key>> = key})].value]

LEMMA FieldsFromStep ==
    ASSUME NEW G, NEW n \in Nat, NEW k \in 1 .. n
    PROVE  FieldsFrom(G, n, k) = Over(FieldsFrom(G, n, k + 1), Only(<<G[k].key>>, G[k].value))
<1> DEFINE At(x, m) == {j \in m .. n : <<G[j].key>> = x}
           Keys(m)  == {<<G[j].key>> : j \in m .. n}
           f == FieldsFrom(G, n, k)
           g == FieldsFrom(G, n, k + 1)
           o == Only(<<G[k].key>>, G[k].value)
<1>1. /\ f = [x \in Keys(k) |-> G[Max(At(x, k))].value]
      /\ g = [x \in Keys(k + 1) |-> G[Max(At(x, k + 1))].value]
      /\ o = [x \in {<<G[k].key>>} |-> G[k].value]
  BY DEF FieldsFrom, Only
<1>2. Keys(k) = Keys(k + 1) \cup {<<G[k].key>>}
  <2>1. k .. n = (k + 1 .. n) \cup {k}
    OBVIOUS
  <2>2. QED
    BY <2>1
<1>3. ASSUME NEW x \in Keys(k + 1) PROVE Max(At(x, k)) = Max(At(x, k + 1))
  <2>1. At(x, k + 1) \in SUBSET (1 .. n) /\ At(x, k + 1) # {}
    OBVIOUS
  <2>2. PICK m \in At(x, k + 1) : m = Max(At(x, k + 1)) /\ \A j \in At(x, k + 1) : j <= m
    <3> HIDE DEF At
    <3>1. QED
      BY <2>1, MaxFound
  <2>3. At(x, k) \in SUBSET Nat /\ m \in At(x, k) /\ \A j \in At(x, k) : j <= m
    <3>1. m \in k + 1 .. n /\ <<G[m].key>> = x
      OBVIOUS
    <3>2. ASSUME NEW j \in At(x, k) PROVE j <= m
      <4>1. CASE j = k
        BY <3>1, <4>1
      <4>2. CASE j # k
        <5>1. j \in At(x, k + 1)
          BY <4>2
        <5>2. QED
          BY <2>2, <5>1
      <4>3. QED
        BY <4>1, <4>2
    <3>3. QED
      BY <3>1, <3>2
  <2>4. Max(At(x, k)) = m
    <3> HIDE DEF At
    <3>1. QED
      BY <2>3, MaxIs
  <2>5. QED
    BY <2>2, <2>4
<1>4. ASSUME NEW x \in Keys(k), x \notin Keys(k + 1) PROVE x = <<G[k].key>> /\ Max(At(x, k)) = k
  <2>1. x = <<G[k].key>>
    BY <1>2, <1>4
  <2>2. At(x, k) = {k}
    <3>1. ASSUME NEW j \in At(x, k) PROVE j = k
      <4>1. j \in k .. n /\ <<G[j].key>> = x
        OBVIOUS
      <4>2. j \notin k + 1 .. n
        BY <1>4, <4>1
      <4>3. QED
        BY <4>1, <4>2
    <3>2. k \in At(x, k)
      BY <2>1
    <3>3. QED
      BY <3>1, <3>2
  <2>3. Max({k}) = k
    BY MaxIs
  <2>4. QED
    BY <2>1, <2>2, <2>3
<1> HIDE DEF At, Keys, f, g, o
<1>5. /\ Over(g, o) = [x \in DOMAIN Over(g, o) |-> Over(g, o)[x]]
      /\ DOMAIN Over(g, o) = Keys(k + 1) \cup {<<G[k].key>>}
      /\ \A x \in Keys(k + 1) : Over(g, o)[x] = G[Max(At(x, k + 1))].value
      /\ \A x \in Keys(k) : x \notin Keys(k + 1) => Over(g, o)[x] = o[x]
  <2>1. Over(g, o) = [x \in DOMAIN g \cup DOMAIN o |-> IF x \in DOMAIN g THEN g[x] ELSE o[x]]
    BY DEF Over
  <2>2. DOMAIN g = Keys(k + 1) /\ DOMAIN o = {<<G[k].key>>}
    BY <1>1
  <2>3. \A x \in Keys(k + 1) : g[x] = G[Max(At(x, k + 1))].value
    BY <1>1
  <2>4. QED
    BY <1>2, <2>1, <2>2, <2>3
<1>6. \A x \in Keys(k) : f[x] = Over(g, o)[x]
  <2> TAKE x \in Keys(k)
  <2>1. f[x] = G[Max(At(x, k))].value
    BY <1>1
  <2>2. CASE x \in Keys(k + 1)
    BY <1>3, <1>5, <2>1, <2>2
  <2>3. CASE x \notin Keys(k + 1)
    <3>1. x = <<G[k].key>> /\ f[x] = G[k].value /\ Over(g, o)[x] = o[x]
      BY <1>4, <1>5, <2>1, <2>3
    <3>2. o[x] = G[k].value
      BY <1>1, <3>1
    <3>3. QED
      BY <3>1, <3>2
  <2>4. QED
    BY <2>2, <2>3
<1>7. f = [x \in DOMAIN f |-> f[x]] /\ DOMAIN f = Keys(k)
  BY <1>1
<1>8. f = Over(g, o)
  BY <1>2, <1>5, <1>6, <1>7, SameMap
<1>9. QED
  BY <1>8 DEF f, g, o

(* parseKeywordValueSettings gets every field, from wherever a turn may    *)
(* begin.                                                                  *)
LEMMA ParsedFields ==
    ASSUME NEW S, NEW T \in Seq(S), NEW G, NEW n, NEW s, ClearText(T, G, n, s),
           \A k \in 1 .. n : IsField(S, G[k]) /\ ClearField(G[k])
    PROVE  ParseKeywordValueSettings(T) = [ok |-> TRUE, values |-> FieldsFrom(G, n, 1)]
<1>1. PICK P : Turns(P, T) /\ ParseKeywordValueSettings(T) = P[1]
  BY ParseDefined
<1>2. PICK t \in Nat : t = Len(T)
  OBVIOUS
<1>3. n \in Nat /\ n # 0 /\ s[1] = 1 /\ s[n + 1] = t + 2
  BY <1>2 DEF ClearText
<1> DEFINE Got(i, k) == P[i] = [ok |-> TRUE, values |-> FieldsFrom(G, n, k)]
           At(i, k)  == i \in 1 .. t + 1 /\ (i = s[k] \/ (i = s[k] - 1 /\ (i = t + 1 \/ T[i] = Blank)))
           Good(k)   == \A i \in 1 .. t + 1 : At(i, k) => Got(i, k)
           Bad       == {m \in Nat : m <= n /\ ~Good(n + 1 - m)}
<1>4. Good(n + 1)
  <2> SUFFICES ASSUME NEW i \in 1 .. t + 1, At(i, n + 1) PROVE Got(i, n + 1)
    OBVIOUS
  <2>1. i = t + 1
    BY <1>3
  <2>2. FieldsFrom(G, n, n + 1) = <<>>
    <3>1. n + 1 .. n = {}
      BY <1>3
    <3>2. {<<G[j].key>> : j \in n + 1 .. n} = {}
      BY <3>1
    <3>3. DOMAIN FieldsFrom(G, n, n + 1) = {}
      BY <3>2 DEF FieldsFrom
    <3>4. FieldsFrom(G, n, n + 1) = [x \in DOMAIN FieldsFrom(G, n, n + 1) |-> FieldsFrom(G, n, n + 1)[x]]
      BY DEF FieldsFrom
    <3>5. QED
      BY <3>3, <3>4, NoneIsEmpty
  <2>3. P[i] = [ok |-> TRUE, values |-> <<>>]
    BY <1>1, <1>2, <2>1 DEF Turns, Turn
  <2>4. QED
    BY <2>2, <2>3
<1>5. ASSUME NEW k \in 1 .. n, Good(k + 1) PROVE Good(k)
  <2> SUFFICES ASSUME NEW i \in 1 .. t + 1, At(i, k) PROVE Got(i, k)
    OBVIOUS
  <2>1. PICK p \in Nat, w \in Nat, e \in Nat :
            /\ p = s[k] /\ e = s[k + 1] /\ e = p + w + 1 /\ w >= 2 /\ p >= 1 /\ e <= t + 2
            /\ (k = n => e = t + 2)
            /\ (k # n => e <= t /\ T[e - 1] = Blank)
    <3>1. /\ s[k] \in Nat /\ s[k] >= 1 /\ Wide(G[k]) \in Nat /\ Wide(G[k]) >= 2
          /\ s[k + 1] = s[k] + Wide(G[k]) + 1 /\ s[k + 1] <= Len(T) + 2
          /\ k = n => s[k + 1] = Len(T) + 2
      BY FieldAt
    <3>2. k # n => s[k + 1] <= Len(T) /\ T[s[k + 1] - 1] = Blank
      BY FieldAt
    <3>3. s[k + 1] \in Nat
      BY <3>1
    <3>4. QED
      BY <1>2, <3>1, <3>2, <3>3
  <2>2. i = p \/ (i = p - 1 /\ (i = t + 1 \/ T[i] = Blank))
    BY <2>1
  <2>3. i \in 1 .. t /\ (i = s[k] \/ (i = s[k] - 1 /\ T[i] = Blank))
    <3>1. i <= t /\ i # t + 1
      BY ONLY <2>1, <2>2, t \in Nat, i \in 1 .. t + 1
    <3>2. QED
      BY <2>1, <2>2, <3>1
  <2>4. Takes(T, i, G[k], s[k + 1])
    BY <1>2, <2>3, OneTurn
  <2>5. PICK j : j = ReadField(T, i).next
    OBVIOUS
  <2>6. j \in {e - 1, e} /\ j \in i + 1 .. t + 1
    <3>1. j \in {e - 1, e}
      BY <2>1, <2>4, <2>5 DEF Takes
    <3>2. j \in i + 1 .. t + 1
      BY <1>2, <2>3, <2>5, ReadFieldBeyond
    <3>3. QED
      BY <3>1, <3>2
  <2>7. At(j, k + 1)
    <3>1. j \in 1 .. t + 1
      BY <2>6
    <3>2. j = e \/ (j = e - 1 /\ (e - 1 = t + 1 \/ T[e - 1] = Blank))
      BY <2>1, <2>6
    <3>3. QED
      BY <2>1, <3>1, <3>2
  <2>8. P[j] = [ok |-> TRUE, values |-> FieldsFrom(G, n, k + 1)]
    BY <1>5, <2>6, <2>7
  <2>9. P[i] = [ok |-> TRUE, values |-> Over(P[j].values, Only(ReadField(T, i).key, ReadField(T, i).value))]
    <3>1. P[i] = Turn(T, i, P[j])
      BY <1>1, <1>2, <2>5 DEF Turns
    <3>2. i # Len(T) + 1 /\ ReadField(T, i).ok /\ P[j].ok
      BY <1>2, <2>3, <2>4, <2>8 DEF Takes
    <3>3. QED
      BY <3>1, <3>2 DEF Turn
  <2>10. Over(P[j].values, Only(ReadField(T, i).key, ReadField(T, i).value)) = FieldsFrom(G, n, k)
    <3>1. P[j].values = FieldsFrom(G, n, k + 1)
      BY <2>8
    <3>2. ReadField(T, i).key = <<G[k].key>> /\ ReadField(T, i).value = G[k].value
      BY <2>4 DEF Takes
    <3>3. FieldsFrom(G, n, k) = Over(FieldsFrom(G, n, k + 1), Only(<<G[k].key>>, G[k].value))
      BY <1>3, FieldsFromStep
    <3>4. QED
      BY <3>1, <3>2, <3>3
  <2>11. QED
    BY <2>9, <2>10
<1> HIDE DEF Good
<1>6. Bad = {}
  <2> SUFFICES ASSUME Bad # {} PROVE FALSE
    OBVIOUS
  <2>1. Bad \in SUBSET Nat
    OBVIOUS
  <2>2. PICK m \in Bad : \A j \in Bad : m <= j
    <3> HIDE DEF Bad
    <3>1. QED
      BY <2>1, Least
  <2>3. m \in Nat /\ m <= n /\ ~Good(n + 1 - m)
    BY <2>2
  <2>4. m # 0
    <3>1. n + 1 - 0 = n + 1
      BY <1>3
    <3>2. QED
      BY <1>4, <2>3, <3>1
  <2>5. /\ m - 1 \in Nat /\ m - 1 <= n /\ ~(m <= m - 1)
        /\ n + 1 - m \in 1 .. n /\ n + 1 - (m - 1) = (n + 1 - m) + 1
    BY ONLY <1>3, <2>3, <2>4
  <2>6. Good(n + 1 - (m - 1))
    BY <2>2, <2>5
  <2>7. Good(n + 1 - m)
    BY <1>5, <2>5, <2>6
  <2>8. QED
    BY <2>3, <2>7
<1>7. Good(1)
  <2>1. n \in Nat /\ n <= n /\ n + 1 - n = 1
    BY <1>3
  <2>2. QED
    BY <1>6, <2>1
<1>8. Got(1, 1)
  <2>1. 1 \in 1 .. t + 1 /\ At(1, 1)
    BY <1>3
  <2> HIDE DEF Got, At
  <2>2. QED
    BY <1>7, <2>1 DEF Good
<1>9. QED
  BY <1>1, <1>8

-----------------------------------------------------------------------------
(* The text BuildDSN makes.                                                *)

ModeOf(sslmode) == IF sslmode = "" THEN "disable" ELSE sslmode

LEMMA Tuples == ASSUME NEW a, NEW b, NEW c, NEW d PROVE <<a>> \o (<<b, c>> \o <<d>>) = <<a, b, c, d>>
<1> DEFINE S == {a, b, c, d}
           U == <<b, c>> \o <<d>>
           V == <<a>> \o U
           W == <<a, b, c, d>>
<1>1. <<a>> \in Seq(S) /\ <<b, c>> \in Seq(S) /\ <<d>> \in Seq(S) /\ W \in Seq(S)
  OBVIOUS
<1>2. U \in Seq(S) /\ Len(U) = 3 /\ U[1] = b /\ U[2] = c /\ U[3] = d
  BY <1>1, ConcatProperties
<1> HIDE DEF U
<1>3. V \in Seq(S) /\ Len(V) = 4 /\ V[1] = a /\ V[2] = U[1] /\ V[3] = U[2] /\ V[4] = U[3]
  <2>1. PICK A \in Seq(S) : A = <<a>> /\ Len(A) = 1 /\ A[1] = a
    BY <1>1
  <2>2. Glue(S, A \o U, A, U)
    BY <1>2, Glued
  <2>3. PICK B : B = A \o U /\ B = V
    BY <2>1
  <2>4. B \in Seq(S) /\ Len(B) = 4 /\ B[1] = A[1] /\ \A i \in 2 .. 4 : B[i] = U[i - 1]
    BY ONLY <1>2, <2>1, <2>2, <2>3 DEF Glue
  <2>5. B[2] = U[2 - 1] /\ B[3] = U[3 - 1] /\ B[4] = U[4 - 1]
    BY <2>4
  <2>6. QED
    BY <2>1, <2>3, <2>4, <2>5
<1>4. Len(W) = 4 /\ W[1] = a /\ W[2] = b /\ W[3] = c /\ W[4] = d
  OBVIOUS
<1> HIDE DEF V, W
<1>5. \A i \in 1 .. Len(V) : V[i] = W[i]
  BY <1>2, <1>3, <1>4
<1>6. V = W
  BY <1>1, <1>3, <1>4, <1>5, SeqEqual
<1>7. QED
  BY <1>6 DEF V, W, U

(* The sslmode that is appended stands there like another field.           *)
LEMMA SSLModeJoins ==
    ASSUME NEW S, Letters(S), NEW mode, IsField(S, SSLMode(mode)), NEW T \in Seq(S), T # <<>>
    PROVE  T \o <<Blank, "sslmode", "=", mode>> = Joins(T, SSLMode(mode))
<1> DEFINE F == <<"sslmode", "=">> \o <<mode>>
<1>1. FieldText(SSLMode(mode)) = F
  BY DEF FieldText, ValueText, SSLMode
<1>2. Blank \in S /\ "=" \in S /\ "sslmode" \in S /\ mode \in S
  BY DEF Letters, IsField, SSLMode
<1>3. <<Blank>> \in Seq(S) /\ F \in Seq(S)
  <2>1. <<"sslmode", "=">> \in Seq(S) /\ <<mode>> \in Seq(S)
    BY <1>2
  <2>2. QED
    BY <1>2, <2>1, ConcatProperties
<1>4. Joins(T, SSLMode(mode)) = (T \o <<Blank>>) \o F
  BY <1>1 DEF Joins
<1>5. <<Blank>> \o F = <<Blank, "sslmode", "=", mode>>
  BY Tuples
<1> HIDE DEF F
<1>6. (T \o <<Blank>>) \o F = T \o (<<Blank>> \o F)
  BY <1>3, ConcatAssociative
<1>7. QED
  BY <1>4, <1>5, <1>6

(* All fields of the text, in their order.                                 *)
HasMode(fs) == \E k \in 1 .. Len(fs) : fs[k].key = "sslmode"
Before(fs)  == IF HasMode(fs) THEN Len(fs) ELSE Len(fs) + 1

AllFields(fs, mode, os) ==
    [k \in 1 .. Before(fs) + Len(os) |->
        IF k <= Len(fs) THEN fs[k] ELSE IF k <= Before(fs) THEN SSLMode(mode) ELSE os[k - Before(fs)]]

ClearFields(S, fs) == Len(fs) \in Nat /\ \A k \in 1 .. Len(fs) : IsField(S, fs[k]) /\ ClearField(fs[k])

(* A text of n fields, which does not look like a URL.                     *)
TextOf(S, T, G, n) ==
    /\ Lays(S, T, G, n) /\ ~IsURLFormDSN(T)
    /\ \A k \in 1 .. n : IsField(S, G[k]) /\ ClearField(G[k])

(* Both readers of a text find its fields, the first by a key.             *)
Read(dsn, G, n, key) ==
    /\ Settings(dsn) = [ok |-> TRUE, values |-> FieldsFrom(G, n, 1)]
    /\ DSNHasParam(dsn, key) <=> \E k \in 1 .. n : G[k].key = key

LEMMA TextRead ==
    ASSUME NEW S, Letters(S), NEW T, NEW G, NEW n, n # 0, TextOf(S, T, G, n), NEW key
    PROVE  Read(KV(T), G, n, key)
<1>1. PICK s : Laid(T, G, n, s)
  BY DEF TextOf, Lays
<1>2. T \in Seq(S) /\ n \in Nat
  BY DEF TextOf, Lays
<1>3. \A k \in 1 .. n : IsField(S, G[k]) /\ ClearField(G[k])
  BY DEF TextOf
<1>4. ClearText(T, G, n, s)
  BY <1>1, <1>2, <1>3, LaidClear
<1>5. ParseKeywordValueSettings(T) = [ok |-> TRUE, values |-> FieldsFrom(G, n, 1)]
  BY <1>2, <1>3, <1>4, ParsedFields
<1>6. Settings(KV(T)) = ParseKeywordValueSettings(T)
  BY DEF Settings, KV
<1>7. DSNHasParam(KV(T), key) <=> \E k \in 1 .. n : G[k].key = key
  <2>1. ~IsURLFormDSN(T)
    BY DEF TextOf
  <2>2. QED
    BY <1>4, <2>1, HasParamFound
<1>8. QED
  BY <1>5, <1>6, <1>7 DEF Read

(* More fields behind a text.                                              *)
LEMMA MoreText ==
    ASSUME NEW S, Letters(S), NEW G, NEW m, m # 0, NEW T, TextOf(S, T, G, m),
           NEW fs, ClearFields(S, fs), \A k \in 1 .. Len(fs) : fs[k] = G[m + k]
    PROVE  TextOf(S, Joined(T, fs), G, m + Len(fs))
<1>1. PICK l \in Nat : l = Len(fs)
  BY DEF ClearFields
<1>2. m \in Nat /\ T \in Seq(S) /\ ~IsURLFormDSN(T) /\ Lays(S, T, G, m)
  BY DEF TextOf, Lays
<1>3. ASSUME NEW k \in 1 .. m + l PROVE IsField(S, G[k]) /\ ClearField(G[k])
  <2>1. CASE k <= m
    BY <1>2, <2>1 DEF TextOf
  <2>2. CASE k > m
    <3>1. PICK j \in 1 .. l : k = m + j
      <4>1. k - m \in 1 .. l /\ k = m + (k - m)
        BY <1>2, <2>2
      <4>2. QED
        BY <4>1
    <3>2. QED
      BY <1>1, <3>1 DEF ClearFields
  <2>3. QED
    BY <1>2, <2>1, <2>2
<1>4. Lays(S, Joined(T, fs), G, m + l) /\ Begins(T, Joined(T, fs))
  <2>1. \A k \in 1 .. l : fs[k] = G[m + k]
    BY <1>1
  <2>2. \A k \in 1 .. m + l : IsField(S, G[k])
    BY <1>3
  <2>3. Lengthens(S, T, Joined(T, fs), G, m, m + l)
    BY <1>1, <1>2, <2>1, <2>2, JoinedLays
  <2>4. QED
    BY <2>3 DEF Lengthens
<1>5. ~IsURLFormDSN(Joined(T, fs))
  <2>1. Joined(T, fs) \in Seq(S)
    BY <1>4 DEF Lays
  <2>2. QED
    BY <1>2, <1>4, <2>1, NoURLKept
<1>6. QED
  BY <1>1, <1>3, <1>4, <1>5 DEF TextOf

Ordered(G, fs, mode, os) ==
    /\ Before(fs) \in Nat /\ Len(fs) <= Before(fs)
    /\ HasMode(fs) => Before(fs) = Len(fs)
    /\ ~HasMode(fs) => Before(fs) = Len(fs) + 1 /\ G[Before(fs)] = SSLMode(mode)
    /\ \A k \in 1 .. Len(fs) : G[k] = fs[k]
    /\ \A k \in 1 .. Len(os) : os[k] = G[Before(fs) + k]

LEMMA AllFieldsAt ==
    ASSUME NEW fs, NEW os, NEW mode, Len(fs) \in Nat, Len(os) \in Nat
    PROVE  Ordered(AllFields(fs, mode, os), fs, mode, os)
<1>1. PICK l \in Nat, m \in Nat, b \in Nat :
          /\ l = Len(fs) /\ m = Len(os) /\ b = Before(fs) /\ l <= b
          /\ HasMode(fs) => b = l
          /\ ~HasMode(fs) => b = l + 1
  BY DEF Before
<1> DEFINE G == AllFields(fs, mode, os)
<1>2. \A k \in 1 .. b + m :
          G[k] = IF k <= l THEN fs[k] ELSE IF k <= b THEN SSLMode(mode) ELSE os[k - b]
  BY <1>1 DEF AllFields
<1> HIDE DEF G
<1>3. ASSUME NEW k \in 1 .. l PROVE G[k] = fs[k]
  <2>1. k \in 1 .. b + m /\ k <= l
    BY ONLY <1>1
  <2>2. QED
    BY <1>2, <2>1
<1>4. ASSUME NEW k \in 1 .. m PROVE os[k] = G[b + k]
  <2>1. b + k \in 1 .. b + m /\ ~(b + k <= l) /\ ~(b + k <= b) /\ b + k - b = k
    BY <1>1
  <2>2. QED
    BY <1>2, <2>1
<1>5. ASSUME ~HasMode(fs) PROVE b = l + 1 /\ G[b] = SSLMode(mode)
  <2>1. b = l + 1
    BY <1>1, <1>5
  <2>2. b \in 1 .. b + m /\ ~(b <= l) /\ b <= b
    BY <2>1
  <2>3. QED
    BY <1>2, <2>1, <2>2
<1>6. QED
  BY <1>1, <1>3, <1>4, <1>5 DEF G, Ordered

(* BuildDSN of a keyword=value connection string.                          *)
LEMMA TextBuilt ==
    ASSUME NEW S, Letters(S), NEW fs, ClearFields(S, fs), Len(fs) # 0,
           NEW os, ClearFields(S, os), NEW ssl, NEW mode, mode = ModeOf(ssl),
           IsField(S, SSLMode(mode)), ClearField(SSLMode(mode)),
           ~IsURLFormDSN(Joined(<<>>, fs)), NEW key
    PROVE  Read(AppendOptions(EnsureSSLMode(KV(Joined(<<>>, fs)), ssl), os),
                AllFields(fs, mode, os), Before(fs) + Len(os), key)
<1> DEFINE G == AllFields(fs, mode, os)
           T == Joined(<<>>, fs)
           U == IF HasMode(fs) THEN T ELSE Joins(T, SSLMode(mode))
<1>1. PICK l \in Nat, m \in Nat, b \in Nat :
          l = Len(fs) /\ m = Len(os) /\ b = Before(fs) /\ l <= b /\ l # 0
  BY DEF ClearFields, Before
<1>2. /\ HasMode(fs) => b = l
      /\ ~HasMode(fs) => b = l + 1 /\ G[b] = SSLMode(mode)
      /\ \A k \in 1 .. l : G[k] = fs[k]
      /\ \A k \in 1 .. m : os[k] = G[b + k]
  <2>1. Ordered(G, fs, mode, os)
    BY <1>1, AllFieldsAt
  <2> HIDE DEF G
  <2>2. QED
    BY <1>1, <2>1 DEF Ordered
<1> HIDE DEF G
<1>3. TextOf(S, T, G, l)
  <2>1. Lays(S, <<>>, G, 0)
    BY DEF Lays
  <2>2. \A k \in 1 .. l : fs[k] = G[0 + k] /\ IsField(S, G[0 + k])
    <3> TAKE k \in 1 .. l
    <3>1. 0 + k = k
      OBVIOUS
    <3>2. QED
      BY <1>1, <1>2, <3>1 DEF ClearFields
  <2>3. 0 + l = l /\ \A k \in 1 .. 0 + l : IsField(S, G[k])
    BY <1>1, <1>2 DEF ClearFields
  <2>4. Lengthens(S, <<>>, Joined(<<>>, fs), G, 0, 0 + l)
    BY <1>1, <2>1, <2>2, <2>3, JoinedLays
  <2>5. \A k \in 1 .. l : IsField(S, G[k]) /\ ClearField(G[k])
    BY <1>1, <1>2 DEF ClearFields
  <2>6. QED
    BY <2>3, <2>4, <2>5 DEF TextOf, Lengthens
<1> HIDE DEF T
<1>4. T \in Seq(S) /\ T # <<>> /\ Lays(S, T, G, l)
  BY <1>1, <1>3 DEF TextOf, Lays
<1>5. DSNHasParam(KV(T), "sslmode") <=> HasMode(fs)
  <2>1. Read(KV(T), G, l, "sslmode")
    BY <1>1, <1>3, TextRead
  <2>2. QED
    BY <1>1, <1>2, <2>1 DEF Read, HasMode
<1>6. EnsureSSLMode(KV(T), ssl) = KV(U)
  <2>1. CASE HasMode(fs)
    BY <1>5, <2>1 DEF EnsureSSLMode
  <2>2. CASE ~HasMode(fs)
    <3>1. EnsureSSLMode(KV(T), ssl) = KV(KV(T).text \o <<Blank, "sslmode", "=", mode>>)
      <4>1. KV(T).form # "url"
        BY DEF KV
      <4>2. QED
        BY <1>5, <2>2, <4>1 DEF EnsureSSLMode, ModeOf
    <3>2. KV(T).text = T
      BY DEF KV
    <3>3. T \o <<Blank, "sslmode", "=", mode>> = Joins(T, SSLMode(mode))
      BY <1>4, SSLModeJoins
    <3>4. QED
      BY <2>2, <3>1, <3>2, <3>3
  <2>3. QED
    BY <2>1, <2>2
<1>7. TextOf(S, U, G, b)
  <2>1. CASE HasMode(fs)
    BY <1>2, <1>3, <2>1
  <2>2. CASE ~HasMode(fs)
    <3>1. b = l + 1 /\ G[l + 1] = SSLMode(mode) /\ U = Joins(T, SSLMode(mode))
      BY <1>2, <2>2
    <3>2. \A k \in 1 .. l : IsField(S, G[k]) /\ ClearField(G[k])
      BY <1>3 DEF TextOf
    <3>3. Lays(S, U, G, l + 1)
      BY <1>4, <3>1, <3>2, JoinsLays
    <3>4. ~IsURLFormDSN(U)
      <4>1. U \in Seq(S) /\ Longer(U, T, SSLMode(mode))
        BY <1>4, <3>1, JoinsLonger
      <4>2. Begins(T, T)
        BY <1>4 DEF Begins
      <4>3. Begins(T, U)
        BY <1>4, <4>1, <4>2, LongerBegins
      <4>4. ~IsURLFormDSN(T)
        BY <1>3 DEF TextOf
      <4>5. QED
        BY <1>4, <4>1, <4>3, <4>4, NoURLKept
    <3>5. \A k \in 1 .. l + 1 : IsField(S, G[k]) /\ ClearField(G[k])
      <4> TAKE k \in 1 .. l + 1
      <4>1. k \in 1 .. l \/ k = l + 1
        OBVIOUS
      <4>2. QED
        BY <3>1, <3>2, <4>1
    <3>6. QED
      BY <3>1, <3>3, <3>4, <3>5 DEF TextOf
  <2>3. QED
    BY <2>1, <2>2
<1> HIDE DEF U
<1>8. TextOf(S, Joined(U, os), G, b + m)
  <2>1. b # 0 /\ \A k \in 1 .. Len(os) : os[k] = G[b + k]
    BY <1>1, <1>2
  <2>2. QED
    BY <1>1, <1>7, <2>1, MoreText
<1>9. AppendOptions(KV(U), os) = KV(Joined(U, os))
  BY DEF AppendOptions, KV
<1>10. b + m # 0
  BY <1>1
<1>11. Read(KV(Joined(U, os)), G, b + m, key)
  BY <1>8, <1>10, TextRead
<1>12. QED
  BY <1>1, <1>6, <1>9, <1>11 DEF G, T

(* What the fields mean in that order.                                     *)
LEMMA OrderedMeaning ==
    ASSUME NEW fs, NEW os, NEW mode, NEW l \in Nat, l = Len(fs), DOMAIN fs = 1 .. l,
           NEW m \in Nat, m = Len(os), DOMAIN os = 1 .. m,
           NEW G, Ordered(G, fs, mode, os), NEW b \in Nat, b = Before(fs)
    PROVE  FieldsFrom(G, b + m, 1) = Over(Over(LastValues(os), LastValues(fs)), Only(<<"sslmode">>, <<mode>>))
<1> DEFINE At(x)  == {j \in 1 .. b + m : <<G[j].key>> = x}
           AtO(x) == {j \in 1 .. m : <<os[j].key>> = x}
           AtF(x) == {j \in 1 .. l : <<fs[j].key>> = x}
           K      == {<<G[j].key>> : j \in 1 .. b + m}
           KO     == {<<os[j].key>> : j \in 1 .. m}
           KF     == {<<fs[j].key>> : j \in 1 .. l}
           smode  == <<"sslmode">>
           f      == FieldsFrom(G, b + m, 1)
           given  == Over(LastValues(os), LastValues(fs))
           meant  == Over(given, Only(smode, <<mode>>))
<1>1. /\ f = [x \in K |-> G[Max(At(x))].value]
      /\ LastValues(os) = [x \in KO |-> os[Max(AtO(x))].value]
      /\ LastValues(fs) = [x \in KF |-> fs[Max(AtF(x))].value]
      /\ Only(smode, <<mode>>) = [x \in {smode} |-> <<mode>>]
  BY DEF FieldsFrom, LastValues, KeysOf, Places, Only
<1>2. /\ l <= b
      /\ HasMode(fs) => b = l
      /\ ~HasMode(fs) => b = l + 1 /\ G[b].key = "sslmode" /\ G[b].value = <<mode>>
      /\ \A k \in 1 .. l : G[k] = fs[k]
      /\ \A k \in 1 .. m : os[k] = G[b + k]
  <2>1. SSLMode(mode).key = "sslmode" /\ SSLMode(mode).value = <<mode>>
    BY DEF SSLMode
  <2>2. QED
    BY <2>1 DEF Ordered
<1>3. HasMode(fs) <=> smode \in KF
  <2>1. ASSUME NEW k \in 1 .. l, fs[k].key = "sslmode" PROVE smode \in KF
    BY <2>1
  <2>2. ASSUME NEW k \in 1 .. l, <<fs[k].key>> = smode PROVE fs[k].key = "sslmode"
    BY <2>2
  <2>3. QED
    BY <2>1, <2>2 DEF HasMode
<1>4. \A j \in 1 .. b + m : j \in 1 .. l \/ (~HasMode(fs) /\ j = b) \/ j - b \in 1 .. m
  BY <1>2
<1>5. ASSUME NEW j \in 1 .. b + m, j - b \in 1 .. m PROVE G[j] = os[j - b]
  <2>1. PICK d \in 1 .. m : d = j - b
    BY <1>5
  <2>2. b + d = j
    BY <2>1
  <2>3. QED
    BY <1>2, <2>1, <2>2
<1>6. K = KO \cup KF \cup {smode}
  <2>1. ASSUME NEW j \in 1 .. b + m PROVE <<G[j].key>> \in KO \cup KF \cup {smode}
    <3>1. CASE j \in 1 .. l
      BY <1>2, <3>1
    <3>2. CASE ~HasMode(fs) /\ j = b
      BY <1>2, <3>2
    <3>3. CASE j - b \in 1 .. m
      BY <1>5, <3>3
    <3>4. QED
      BY <1>4, <3>1, <3>2, <3>3
  <2>2. ASSUME NEW j \in 1 .. m PROVE <<os[j].key>> \in K
    <3>1. b + j \in 1 .. b + m /\ G[b + j] = os[j]
      BY <1>2
    <3>2. QED
      BY <3>1
  <2>3. ASSUME NEW j \in 1 .. l PROVE <<fs[j].key>> \in K
    <3>1. j \in 1 .. b + m /\ G[j] = fs[j]
      BY <1>2
    <3>2. QED
      BY <3>1
  <2>4. smode \in K
    <3>1. CASE HasMode(fs)
      <4>1. PICK j \in 1 .. l : <<fs[j].key>> = smode
        BY <1>3, <3>1
      <4>2. QED
        BY <2>3, <4>1
    <3>2. CASE ~HasMode(fs)
      <4>1. b \in 1 .. b + m /\ G[b].key = "sslmode"
        BY <1>2, <3>2
      <4>2. QED
        BY <4>1
    <3>3. QED
      BY <3>1, <3>2
  <2>5. KO \subseteq K /\ KF \subseteq K
    BY <2>2, <2>3
  <2>6. K \subseteq KO \cup KF \cup {smode}
    BY <2>1
  <2> HIDE DEF K, KO, KF, smode
  <2>7. QED
    BY <2>4, <2>5, <2>6
<1>7. ASSUME NEW x \in KO PROVE G[Max(At(x))].value = os[Max(AtO(x))].value
  <2>1. AtO(x) \in SUBSET (1 .. m) /\ AtO(x) # {}
    OBVIOUS
  <2>2. PICK c \in AtO(x) : c = Max(AtO(x)) /\ \A j \in AtO(x) : j <= c
    <3> HIDE DEF AtO
    <3>1. QED
      BY <2>1, MaxFound
  <2>3. c \in 1 .. m /\ <<os[c].key>> = x
    OBVIOUS
  <2>4. b + c \in At(x) /\ G[b + c] = os[c]
    <3>1. b + c \in 1 .. b + m /\ G[b + c] = os[c]
      BY <1>2, <2>3
    <3>2. QED
      BY <2>3, <3>1
  <2>5. At(x) \in SUBSET Nat /\ \A j \in At(x) : j <= b + c
    <3>1. ASSUME NEW j \in At(x) PROVE j \in Nat /\ j <= b + c
      <4>1. j \in 1 .. b + m /\ <<G[j].key>> = x
        OBVIOUS
      <4>2. CASE j - b \in 1 .. m
        <5>1. j - b \in AtO(x)
          BY <1>5, <4>1, <4>2
        <5>2. j - b <= c
          BY <2>2, <5>1
        <5>3. QED
          BY <2>3, <4>1, <5>2
      <4>3. CASE j <= b
        BY <2>3, <4>1, <4>3
      <4>4. QED
        BY <4>1, <4>2, <4>3
    <3>2. QED
      BY <3>1
  <2>6. Max(At(x)) = b + c
    <3> HIDE DEF At
    <3>1. b + c \in At(x)
      BY <2>4
    <3>2. QED
      BY ONLY <2>5, <3>1, MaxIs
  <2>7. QED
    BY <2>2, <2>4, <2>6
<1>8. ASSUME NEW x \in KF, x \notin KO PROVE G[Max(At(x))].value = fs[Max(AtF(x))].value
  <2>1. AtF(x) \in SUBSET (1 .. l) /\ AtF(x) # {}
    OBVIOUS
  <2>2. PICK c \in AtF(x) : c = Max(AtF(x))
    <3> HIDE DEF AtF
    <3>1. QED
      BY <2>1, MaxFound
  <2>3. ASSUME NEW j \in At(x) PROVE j \in AtF(x)
    <3>1. j \in 1 .. b + m /\ <<G[j].key>> = x
      OBVIOUS
    <3>2. CASE j \in 1 .. l
      BY <1>2, <3>1, <3>2
    <3>3. ~(~HasMode(fs) /\ j = b)
      <4> SUFFICES ASSUME ~HasMode(fs), j = b PROVE FALSE
        OBVIOUS
      <4>1. x = smode
        BY <1>2, <3>1
      <4>2. QED
        BY <1>3, <4>1
    <3>4. ~(j - b \in 1 .. m)
      <4> SUFFICES ASSUME j - b \in 1 .. m PROVE FALSE
        OBVIOUS
      <4>1. G[j] = os[j - b]
        BY <1>5
      <4>2. <<os[j - b].key>> = x
        BY <3>1, <4>1
      <4>3. QED
        BY <1>8, <4>2
    <3>5. QED
      BY <1>4, <3>1, <3>2, <3>3, <3>4
  <2>4. ASSUME NEW j \in AtF(x) PROVE j \in At(x)
    BY <1>2
  <2>5. At(x) = AtF(x)
    BY <2>3, <2>4
  <2>6. G[c] = fs[c]
    BY <1>2
  <2>7. QED
    BY <2>2, <2>5, <2>6
<1>9. ASSUME NEW x \in K, x \notin KO, x \notin KF PROVE x = smode /\ G[Max(At(x))].value = <<mode>>
  <2>1. x = smode
    BY <1>6, <1>9
  <2>2. ~HasMode(fs)
    BY <1>3, <1>9, <2>1
  <2>3. b \in At(x)
    BY <1>2, <2>1, <2>2
  <2>4. ASSUME NEW j \in At(x) PROVE j = b
    <3>1. j \in 1 .. b + m /\ <<G[j].key>> = x
      OBVIOUS
    <3>2. ~(j \in 1 .. l)
      BY <1>2, <1>9, <3>1
    <3>3. ~(j - b \in 1 .. m)
      <4> SUFFICES ASSUME j - b \in 1 .. m PROVE FALSE
        OBVIOUS
      <4>1. G[j] = os[j - b]
        BY <1>5
      <4>2. <<os[j - b].key>> = x
        BY <3>1, <4>1
      <4>3. QED
        BY <1>9, <4>2
    <3>4. QED
      BY <1>4, <3>1, <3>2, <3>3
  <2>5. Max(At(x)) = b
    <3>1. At(x) = {b}
      BY <2>3, <2>4
    <3>2. Max({b}) = b
      BY MaxIs
    <3>3. QED
      BY <3>1, <3>2
  <2>6. QED
    BY <1>2, <2>1, <2>2, <2>5
<1> HIDE DEF At, AtO, AtF, K, KO, KF, smode, f
<1>10. /\ DOMAIN given = KO \cup KF
       /\ \A x \in KO : given[x] = os[Max(AtO(x))].value
       /\ \A x \in KF : x \notin KO => given[x] = fs[Max(AtF(x))].value
  <2>1. given = [x \in DOMAIN LastValues(os) \cup DOMAIN LastValues(fs) |->
                   IF x \in DOMAIN LastValues(os) THEN LastValues(os)[x] ELSE LastValues(fs)[x]]
    BY DEF Over
  <2>2. DOMAIN LastValues(os) = KO /\ DOMAIN LastValues(fs) = KF
    BY <1>1
  <2>3. /\ \A x \in KO : LastValues(os)[x] = os[Max(AtO(x))].value
        /\ \A x \in KF : LastValues(fs)[x] = fs[Max(AtF(x))].value
    BY <1>1
  <2>4. QED
    BY <2>1, <2>2, <2>3
<1> HIDE DEF given
<1>11. /\ meant = [x \in DOMAIN meant |-> meant[x]] /\ DOMAIN meant = K
       /\ \A x \in KO \cup KF : meant[x] = given[x]
       /\ smode \notin KO /\ smode \notin KF => meant[smode] = <<mode>>
  <2>1. DOMAIN Only(smode, <<mode>>) = {smode} /\ Only(smode, <<mode>>)[smode] = <<mode>>
    BY <1>1
  <2>2. meant = [x \in DOMAIN given \cup DOMAIN Only(smode, <<mode>>) |->
                   IF x \in DOMAIN given THEN given[x] ELSE Only(smode, <<mode>>)[x]]
    BY DEF Over
  <2>3. QED
    BY <1>6, <1>10, <2>1, <2>2
<1> HIDE DEF meant
<1>12. ASSUME NEW x \in K PROVE f[x] = meant[x]
  <2>0. f[x] = G[Max(At(x))].value
    BY <1>1
  <2>1. CASE x \in KO
    BY <1>7, <1>10, <1>11, <2>0, <2>1
  <2>2. CASE x \notin KO /\ x \in KF
    BY <1>8, <1>10, <1>11, <2>0, <2>2
  <2>3. CASE x \notin KO /\ x \notin KF
    BY <1>9, <1>11, <2>0, <2>3
  <2>4. QED
    BY <2>1, <2>2, <2>3
<1>13. f = [x \in DOMAIN f |-> f[x]] /\ DOMAIN f = K
  BY <1>1
<1>14. f = meant
  BY <1>11, <1>12, <1>13, SameMap
<1>15. QED
  BY <1>14 DEF f, meant, given, smode

-----------------------------------------------------------------------------
(* What an instance connects with.                                         *)

LEMMA SeqWider == ASSUME NEW A, NEW S, A \subseteq S, NEW v \in Seq(A) PROVE v \in Seq(S)
OBVIOUS

LEMMA FieldsList ==
    ASSUME NEW fs, IsFields(fs)
    PROVE  Len(fs) \in Nat /\ DOMAIN fs = 1 .. Len(fs)
<1>1. fs \in Seq(Range(fs))
  BY DEF IsFields, IsList
<1>2. QED
  BY <1>1

(* All that is in some fields.                                             *)
Words(fs) == {fs[i].key : i \in DOMAIN fs} \cup UNION {Range(fs[i].value) : i \in DOMAIN fs}

LEMMA AreFields ==
    ASSUME NEW fs, IsFields(fs), NEW S, Words(fs) \subseteq S, NEW i \in DOMAIN fs
    PROVE  IsField(S, fs[i])
<1> DEFINE key == fs[i].key
           v   == fs[i].value
           A   == {fs[j].key : j \in DOMAIN fs}
           B   == {Range(fs[j].value) : j \in DOMAIN fs}
<1>1. key \in A /\ Range(v) \in B
  OBVIOUS
<1>2. v \in Seq(Range(v))
  BY DEF IsFields, IsList
<1>3. A \cup UNION B \subseteq S
  BY DEF Words
<1> HIDE DEF key, v, A, B
<1>4. key \in S /\ Range(v) \subseteq S
  BY <1>1, <1>3
<1>5. v \in Seq(S)
  BY <1>2, <1>4, SeqWider
<1>6. QED
  BY <1>4, <1>5 DEF IsField, key, v

(* What it takes for an instance to connect as its configuration means:    *)
(* the driver understands it so, and DSNHasParam knows its parameters.     *)
Connects(dsn, inst, key) ==
    /\ Settings(dsn) = [ok |-> TRUE, values |-> Meant(inst)]
    /\ DSNHasParam(dsn, key) <=> <<key>> \in DOMAIN Meant(inst)

(* An instance of the file, and what SetDefaults leaves of what BuildDSN   *)
(* reads.                                                                  *)
Completed(inst, given) ==
    /\ IsFields(given.dsn.fields) /\ IsFields(given.options)
    /\ inst.dsn = given.dsn /\ inst.options = given.options /\ inst.sslmode = ModeOf(given.sslmode)

LEMMA ModeStays == ASSUME NEW sslmode PROVE ModeOf(ModeOf(sslmode)) = ModeOf(sslmode)
BY DEF ModeOf

(* In the keyword=value form.                                              *)
LEMMA TextConnects ==
    ASSUME NEW inst, NEW given, Completed(inst, given), given.dsn.form = "kv", given.dsn.fields # <<>>,
           Clear(given), NEW key
    PROVE  Connects(BuildDSN(inst), given, key)
<1> DEFINE fs   == given.dsn.fields
           os   == given.options
           ssl  == inst.sslmode
           mode == ModeOf(given.sslmode)
           S    == {"=", Blank, Quote, "sslmode", mode} \cup Words(fs) \cup Words(os)
<1>1. PICK l \in Nat, m \in Nat : l = Len(fs) /\ DOMAIN fs = 1 .. l /\ m = Len(os) /\ DOMAIN os = 1 .. m
  BY FieldsList DEF Completed
<1>2. l # 0
  <2>1. fs \in Seq(Range(fs))
    BY DEF Completed, IsFields, IsList
  <2>2. QED
    BY <1>1, <2>1, EmptySeq
<1>3. Letters(S)
  BY DEF Letters
<1>4. Words(fs) \subseteq S /\ Words(os) \subseteq S
  OBVIOUS
<1>5. (\A i \in DOMAIN fs : IsField(S, fs[i])) /\ \A i \in DOMAIN os : IsField(S, os[i])
  <2>1. IsFields(fs) /\ IsFields(os)
    BY DEF Completed
  <2> HIDE DEF S, fs, os
  <2>2. QED
    BY <1>4, <2>1, AreFields
<1>6. IsField(S, SSLMode(mode))
  <2>1. "sslmode" \in S /\ mode \in S
    OBVIOUS
  <2> HIDE DEF S, mode
  <2>2. <<mode>> \in Seq(S)
    BY <2>1
  <2>3. QED
    BY <2>1, <2>2 DEF IsField, SSLMode
<1>7. /\ ~IsURLFormDSN(Written(given.dsn).text)
      /\ \A i \in DOMAIN fs : ClearField(fs[i])
      /\ \A i \in DOMAIN os : ClearField(os[i])
      /\ ClearField(SSLMode(given.sslmode))
  BY DEF Clear
<1>8. Written(given.dsn) = KV(Joined(<<>>, fs)) /\ KV(Joined(<<>>, fs)).text = Joined(<<>>, fs)
  BY DEF Written, KV
<1>9. ClearField(SSLMode(mode))
  <2>1. CASE given.sslmode = ""
    <3>1. mode = "disable"
      BY <2>1 DEF ModeOf
    <3>2. "sslmode" \notin {"=", Blank, Quote, Slash} /\ "disable" \notin {Quote, Slash, Blank}
      BY Characters
    <3>3. QED
      BY <3>1, <3>2 DEF ClearField, ClearKey, SSLMode
  <2>2. CASE given.sslmode # ""
    <3>1. mode = given.sslmode
      BY <2>2 DEF ModeOf
    <3>2. QED
      BY <1>7, <3>1
  <2>3. QED
    BY <2>1, <2>2
<1>10. ssl = mode /\ mode = ModeOf(ssl)
  BY ModeStays DEF Completed
<1>11. BuildDSN(inst) = AppendOptions(EnsureSSLMode(KV(Joined(<<>>, fs)), ssl), os)
  BY <1>8 DEF BuildDSN, Completed
<1> HIDE DEF S, fs, os, ssl, mode
<1>12. ClearFields(S, fs) /\ ClearFields(S, os)
  BY <1>1, <1>5, <1>7 DEF ClearFields
<1> DEFINE G == AllFields(fs, mode, os)
<1>13. PICK b \in Nat : b = Before(fs) /\ Ordered(G, fs, mode, os)
  <2>1. Ordered(G, fs, mode, os)
    BY <1>1, AllFieldsAt
  <2> HIDE DEF G
  <2>2. Before(fs) \in Nat
    BY <2>1 DEF Ordered
  <2>3. QED
    BY <2>1, <2>2
<1>14. Read(BuildDSN(inst), G, b + m, key)
  <2>1. ~IsURLFormDSN(Joined(<<>>, fs))
    BY <1>7, <1>8
  <2>2. Read(AppendOptions(EnsureSSLMode(KV(Joined(<<>>, fs)), ssl), os),
             AllFields(fs, mode, os), Before(fs) + Len(os), key)
    BY <1>1, <1>2, <1>3, <1>6, <1>9, <1>10, <1>12, <2>1, TextBuilt
  <2>3. QED
    BY <1>1, <1>11, <1>13, <2>2
<1> HIDE DEF G
<1>15. FieldsFrom(G, b + m, 1) = Meant(given)
  <2>1. FieldsFrom(G, b + m, 1) = Over(Over(LastValues(os), LastValues(fs)), Only(<<"sslmode">>, <<mode>>))
    BY <1>1, <1>13, OrderedMeaning
  <2>2. QED
    BY <2>1 DEF Meant, GivenValues, ModeOf, fs, os, mode
<1>16. (\E k \in 1 .. b + m : G[k].key = key) <=> <<key>> \in DOMAIN FieldsFrom(G, b + m, 1)
  BY DEF FieldsFrom
<1>17. QED
  BY <1>14, <1>15, <1>16 DEF Read, Connects

(* What the driver takes from a query, and from one that is made of two.   *)
LEMMA ParsedOver ==
    ASSUME NEW f, NEW g
    PROVE  ParseURLSettings(Over(f, g)) = Over(ParseURLSettings(f), ParseURLSettings(g))
<1> DEFINE pf == ParseURLSettings(f)
           pg == ParseURLSettings(g)
           l  == ParseURLSettings(Over(f, g))
           r  == Over(pf, pg)
<1>1. /\ pf = [x \in DOMAIN f |-> f[x][Min(DOMAIN f[x])]]
      /\ pg = [x \in DOMAIN g |-> g[x][Min(DOMAIN g[x])]]
  BY DEF ParseURLSettings
<1>2. DOMAIN pf = DOMAIN f /\ DOMAIN pg = DOMAIN g
  BY <1>1
<1>3. /\ DOMAIN Over(f, g) = DOMAIN f \cup DOMAIN g
      /\ \A x \in DOMAIN f \cup DOMAIN g : Over(f, g)[x] = IF x \in DOMAIN f THEN f[x] ELSE g[x]
  BY DEF Over
<1>4. l = [x \in DOMAIN f \cup DOMAIN g |-> Over(f, g)[x][Min(DOMAIN Over(f, g)[x])]]
  BY <1>3 DEF ParseURLSettings
<1>5. r = [x \in DOMAIN f \cup DOMAIN g |-> IF x \in DOMAIN f THEN pf[x] ELSE pg[x]]
  BY <1>2 DEF Over
<1>6. ASSUME NEW x \in DOMAIN f \cup DOMAIN g
      PROVE  Over(f, g)[x][Min(DOMAIN Over(f, g)[x])] = IF x \in DOMAIN f THEN pf[x] ELSE pg[x]
  <2>1. CASE x \in DOMAIN f
    BY <1>1, <1>3, <2>1
  <2>2. CASE x \notin DOMAIN f
    BY <1>1, <1>3, <2>2
  <2>3. QED
    BY <2>1, <2>2
<1> HIDE DEF l, r, pf, pg
<1>7. l = r
  BY <1>4, <1>5, <1>6
<1>8. QED
  BY <1>7 DEF l, r, pf, pg

LEMMA SingleRead ==
    ASSUME NEW v
    PROVE  DOMAIN Single(v) = {1} /\ Single(v)[Min(DOMAIN Single(v))] = v
<1>1. DOMAIN Single(v) = {1} /\ Single(v)[1] = v
  BY DEF Single, Only
<1>2. Min({1}) = 1
  BY DEF Min
<1>3. QED
  BY <1>1, <1>2

(* Of the query of the connection string the first values, of the options  *)
(* the last, and the sslmode.                                              *)
LEMMA FirstRead ==
    ASSUME NEW fs, IsFields(fs)
    PROVE  ParseURLSettings(Query(fs)) = FirstValues(fs)
<1>1. PICK n \in Nat : n = Len(fs) /\ DOMAIN fs = 1 .. n
  BY FieldsList
<1>2. /\ DOMAIN Query(fs) = KeysOf(fs)
      /\ \A x \in KeysOf(fs) : Query(fs)[x] = [i \in Places(fs, x) |-> fs[i].value]
  BY DEF Query
<1>3. ASSUME NEW x \in KeysOf(fs)
      PROVE  Query(fs)[x][Min(DOMAIN Query(fs)[x])] = fs[Min(Places(fs, x))].value
  <2>1. Places(fs, x) \in SUBSET Nat /\ Places(fs, x) # {}
    BY <1>1 DEF Places, KeysOf
  <2>2. Min(Places(fs, x)) \in Places(fs, x)
    <3>1. PICK m \in Places(fs, x) : \A k \in Places(fs, x) : m <= k
      BY <2>1, Least
    <3>2. QED
      BY <3>1 DEF Min
  <2>3. DOMAIN Query(fs)[x] = Places(fs, x)
    BY <1>2
  <2>4. QED
    BY <1>2, <2>2, <2>3
<1>4. QED
  BY <1>2, <1>3 DEF ParseURLSettings, FirstValues

LEMMA OptionsRead ==
    ASSUME NEW os, IsFields(os), \A i \in DOMAIN os : ~os[i].quoted
    PROVE  ParseURLSettings(MergedOptions(os)) = LastValues(os)
<1>1. PICK n \in Nat : n = Len(os) /\ DOMAIN os = 1 .. n
  BY FieldsList
<1>2. /\ DOMAIN MergedOptions(os) = KeysOf(os)
      /\ \A x \in KeysOf(os) : MergedOptions(os)[x] = Single(ValueText(os[Max(Places(os, x))]))
  BY DEF MergedOptions
<1>3. ASSUME NEW x \in KeysOf(os)
      PROVE  MergedOptions(os)[x][Min(DOMAIN MergedOptions(os)[x])] = os[Max(Places(os, x))].value
  <2>1. Places(os, x) \in SUBSET (1 .. n) /\ Places(os, x) # {}
    BY <1>1 DEF Places, KeysOf
  <2>2. Max(Places(os, x)) \in DOMAIN os
    BY <1>1, <2>1, MaxFound
  <2>3. ValueText(os[Max(Places(os, x))]) = os[Max(Places(os, x))].value
    BY <2>2 DEF ValueText
  <2>4. QED
    BY <1>2, <2>3, SingleRead
<1>4. QED
  BY <1>2, <1>3 DEF ParseURLSettings, LastValues

LEMMA ModeRead ==
    ASSUME NEW key, NEW v
    PROVE  ParseURLSettings(Only(key, Single(v))) = Only(key, v)
<1>1. DOMAIN Only(key, Single(v)) = {key} /\ Only(key, Single(v))[key] = Single(v)
  BY DEF Only
<1>2. Single(v)[Min(DOMAIN Single(v))] = v
  BY SingleRead
<1>3. ParseURLSettings(Only(key, Single(v))) = [x \in {key} |-> v]
  BY <1>1, <1>2 DEF ParseURLSettings
<1>4. QED
  BY <1>3 DEF Only

(* In the URL form, or without a connection string.                        *)
LEMMA QueryConnects ==
    ASSUME NEW inst, NEW given, Completed(inst, given), given.dsn.form # "kv", Clear(given), NEW key
    PROVE  Connects(BuildDSN(inst), given, key)
<1> DEFINE smode == <<"sslmode">>
           mode  == ModeOf(given.sslmode)
           Q     == Query(given.dsn.fields)
           O     == MergedOptions(given.options)
           R     == IF smode \in DOMAIN Q THEN Q ELSE Over(Only(smode, Single(<<mode>>)), Q)
           F     == Over(O, R)
           q     == FirstValues(given.dsn.fields)
           o     == LastValues(given.options)
           r     == IF smode \in DOMAIN q THEN q ELSE Over(Only(smode, <<mode>>), q)
           f     == Over(o, r)
           meant == Over(Over(o, q), Only(smode, <<mode>>))
<1>1. Written(inst.dsn) = URL(Q) /\ inst.options = given.options /\ ModeOf(inst.sslmode) = mode
  BY ModeStays DEF Written, Completed
<1>2. URL(Q).form = "url" /\ URL(Q).query = Q /\ URL(R).form = "url" /\ URL(R).query = R
  BY DEF URL
<1>3. EnsureSSLMode(URL(Q), inst.sslmode) = URL(R)
  <2>1. DSNHasParam(URL(Q), "sslmode") <=> smode \in DOMAIN Q
    BY <1>2 DEF DSNHasParam
  <2>2. QED
    BY <1>1, <1>2, <2>1 DEF EnsureSSLMode, ModeOf
<1>4. BuildDSN(inst) = URL(F)
  <2>1. AppendOptions(URL(R), given.options) = URL(F)
    BY <1>2 DEF AppendOptions
  <2>2. QED
    BY <1>1, <1>3, <2>1 DEF BuildDSN
<1>5. URL(F).form = "url" /\ URL(F).query = F
  BY DEF URL
<1>6. Meant(given) = meant
  BY DEF Meant, GivenValues, ModeOf
<1>7. ParseURLSettings(Q) = q /\ ParseURLSettings(O) = o
  <2>1. IsFields(given.dsn.fields) /\ IsFields(given.options)
    BY DEF Completed
  <2>2. \A i \in DOMAIN given.options : ~given.options[i].quoted
    BY DEF Clear
  <2>3. QED
    BY <2>1, <2>2, FirstRead, OptionsRead
<1>8. DOMAIN Q = DOMAIN q /\ DOMAIN O = DOMAIN o
  BY DEF Query, MergedOptions, FirstValues, LastValues
<1> HIDE DEF q, o, Q, O, smode, mode
<1>9. ParseURLSettings(F) = f
  <2>1. ParseURLSettings(R) = r
    <3>1. CASE smode \in DOMAIN Q
      BY <1>7, <1>8, <3>1
    <3>2. CASE smode \notin DOMAIN Q
      <4>1. R = Over(Only(smode, Single(<<mode>>)), Q) /\ r = Over(Only(smode, <<mode>>), q)
        BY <1>8, <3>2
      <4> HIDE DEF R, r
      <4>2. QED
        BY <1>7, <4>1, ModeRead, ParsedOver
    <3>3. QED
      BY <3>1, <3>2
  <2> HIDE DEF R, r
  <2>2. QED
    BY <1>7, <2>1, ParsedOver
<1>10. DOMAIN Only(smode, <<mode>>) = {smode}
  BY DEF Only
<1>11. f = meant
  <2>1. /\ f = [x \in DOMAIN f |-> f[x]] /\ DOMAIN f = DOMAIN o \cup DOMAIN r
        /\ \A x \in DOMAIN o \cup DOMAIN r : f[x] = IF x \in DOMAIN o THEN o[x] ELSE r[x]
    BY DEF Over
  <2>2. /\ DOMAIN Over(o, q) = DOMAIN o \cup DOMAIN q
        /\ \A x \in DOMAIN o \cup DOMAIN q : Over(o, q)[x] = IF x \in DOMAIN o THEN o[x] ELSE q[x]
    BY DEF Over
  <2>3. /\ meant = [x \in DOMAIN meant |-> meant[x]] /\ DOMAIN meant = DOMAIN o \cup DOMAIN q \cup {smode}
        /\ \A x \in DOMAIN o \cup DOMAIN q \cup {smode} :
              meant[x] = IF x \in DOMAIN o \cup DOMAIN q THEN Over(o, q)[x] ELSE Only(smode, <<mode>>)[x]
    BY <1>10, <2>2 DEF Over
  <2>4. /\ DOMAIN r = DOMAIN q \cup {smode}
        /\ \A x \in DOMAIN q \cup {smode} : r[x] = IF x \in DOMAIN q THEN q[x] ELSE Only(smode, <<mode>>)[x]
    <3>1. CASE smode \in DOMAIN q
      BY <3>1
    <3>2. CASE smode \notin DOMAIN q
      BY <1>10, <3>2 DEF Over
    <3>3. QED
      BY <3>1, <3>2
  <2> HIDE DEF f, meant, r
  <2>5. DOMAIN f = DOMAIN meant
    BY <2>1, <2>3, <2>4
  <2>6. \A x \in DOMAIN f : f[x] = meant[x]
    BY <2>1, <2>2, <2>3, <2>4
  <2>7. QED
    BY <2>1, <2>3, <2>5, <2>6, SameMap
<1>12. DOMAIN F = DOMAIN f
  BY <1>9 DEF ParseURLSettings
<1> HIDE DEF F, f, meant
<1>13. Settings(URL(F)) = [ok |-> TRUE, values |-> f]
  BY <1>5, <1>9 DEF Settings
<1>14. DSNHasParam(URL(F), key) <=> <<key>> \in DOMAIN f
  BY <1>5, <1>12 DEF DSNHasParam
<1>15. QED
  BY <1>4, <1>6, <1>11, <1>13, <1>14 DEF Connects

(* A configuration that loads has no empty item, and each instance is      *)
(* completed from what the file says of it.                                *)
LoadedAs(c, g, server) ==
    /\ g # NilItem
    /\ c = InstanceDefaults(g, ServerDefaults(server)) /\ ValidInstance(c)
    /\ Completed(c, g)
    /\ g.dsn.form = "kv" => g.dsn.fields # <<>>

(* Its numbers are those of the file.                                      *)
NumbersOf(g) ==
    /\ IsDuration(g.timeout) /\ Readable(g.timeout)
    /\ IsDuration(g.connect) /\ Readable(g.connect)

LEMMA LoadedInstance ==
    ASSUME NEW f \in Files, Loads(f), NEW i \in DOMAIN f.instances
    PROVE  /\ LoadedAs(SetDefaults(f).instances[i], f.instances[i], f.server)
           /\ NumbersOf(f.server) /\ NumbersOf(f.instances[i]) /\ f.instances[i].pool \in Int
<1> DEFINE g == f.instances[i]
           c == SetDefaults(f).instances[i]
<1>1. c = InstanceDefaults(g, ServerDefaults(f.server))
  BY DEF SetDefaults
<1>2. ValidInstance(c)
  <2>1. i \in DOMAIN SetDefaults(f).instances
    BY SameLength
  <2>2. QED
    BY <2>1 DEF Loads, Valid
<1>3. g # NilItem
  <2>1. InstanceDefaults(NilItem, ServerDefaults(f.server)) = NilItem
    BY DEF InstanceDefaults
  <2>2. c # NilItem
    BY <1>2 DEF ValidInstance
  <2> HIDE DEF g, c
  <2>3. QED
    BY <1>1, <2>1, <2>2
<1>4. /\ IsFields(g.dsn.fields) /\ IsFields(g.options)
      /\ g.dsn.form = "kv" => g.dsn.fields # <<>>
      /\ IsDuration(g.timeout) /\ IsDuration(g.connect) /\ g.pool \in Int
      /\ IsDuration(f.server.timeout) /\ IsDuration(f.server.connect)
  BY <1>3, FilesAssumption
<1>5. Readable(f.server.timeout) /\ Readable(f.server.connect) /\ Readable(g.timeout) /\ Readable(g.connect)
  BY <1>3 DEF Loads, Decodes
<1> HIDE DEF g, c
<1>6. c.dsn = g.dsn /\ c.options = g.options /\ c.sslmode = ModeOf(g.sslmode)
  BY <1>1, <1>3 DEF InstanceDefaults, ModeOf
<1>7. Completed(c, g)
  BY <1>4, <1>6 DEF Completed
<1>8. QED
  BY <1>1, <1>2, <1>3, <1>4, <1>5, <1>7 DEF LoadedAs, NumbersOf, g, c

LEMMA LoadedConnects ==
    ASSUME NEW c, NEW g, NEW server, LoadedAs(c, g, server), Clear(g), NEW key
    PROVE  Connects(BuildDSN(c), g, key)
<1>1. Completed(c, g) /\ (g.dsn.form = "kv" => g.dsn.fields # <<>>)
  BY DEF LoadedAs
<1>2. CASE g.dsn.form = "kv"
  BY <1>1, <1>2, TextConnects
<1>3. CASE g.dsn.form # "kv"
  BY <1>1, <1>3, QueryConnects
<1>4. QED
  BY <1>2, <1>3

-----------------------------------------------------------------------------
(* Numbers, for every width and every unit.                                *)

LEMMA MaxOfTwo ==
    ASSUME NEW a \in Int, NEW b \in Int
    PROVE  Max({a, b}) = IF a >= b THEN a ELSE b
<1> DEFINE big == IF a >= b THEN a ELSE b
<1>1. big \in {a, b} /\ \A y \in {a, b} : big >= y
  OBVIOUS
<1>2. \A x \in {a, b} : (\A y \in {a, b} : x >= y) => x = big
  OBVIOUS
<1>3. QED
  BY <1>1, <1>2 DEF Max

LEMMA Quotient ==
    ASSUME NEW d \in Nat, NEW m \in Nat \ {0}
    PROVE  /\ d \div m \in Nat
           /\ (d \div m) * m <= d
           /\ d - m < (d \div m) * m
OBVIOUS

(* The timeout the server is given is never none, and otherwise the one    *)
(* configured rounded down to a millisecond; and the deadline of the call  *)
(* comes after it, except in the last five seconds below the largest       *)
(* Duration (setStatementTimeout, handleExecuteSelect).                    *)
THEOREM TimeoutsKept ==
    ASSUME NEW d \in Nat \ {0}, d < Top64
    PROVE  /\ StatementTimeout(d) > 0
           /\ \/ StatementTimeout(d) = 1
              \/ /\ StatementTimeout(d) * Millisecond <= d
                 /\ d - Millisecond < StatementTimeout(d) * Millisecond
           /\ d + 5 * Second < Top64 => CallDeadline(d) = d + 5 * Second
<1>0. Millisecond \in Nat \ {0} /\ Second \in Nat /\ Top64 \in Nat \ {0}
  BY WidthAssumption
<1>1. /\ d \div Millisecond \in Nat
      /\ (d \div Millisecond) * Millisecond <= d
      /\ d - Millisecond < (d \div Millisecond) * Millisecond
  BY <1>0, Quotient
<1>2. StatementTimeout(d) = IF d \div Millisecond >= 1 THEN d \div Millisecond ELSE 1
  BY <1>1, MaxOfTwo DEF StatementTimeout
<1>3. ASSUME d + 5 * Second < Top64 PROVE CallDeadline(d) = d + 5 * Second
  <2> DEFINE n == d + 5 * Second
  <2>1. n \in Nat /\ n + Top64 \in Nat /\ n + Top64 < 2 * Top64
    BY <1>0, <1>3
  <2>2. (n + Top64) % (2 * Top64) = n + Top64
    BY <1>0, <2>1
  <2>3. QED
    BY <1>0, <2>1, <2>2 DEF CallDeadline, Wrapped
<1>4. QED
  BY <1>1, <1>2, <1>3

(* The numbers an instance is made with are the ones of the file, or the   *)
(* defaults where it has none.                                             *)
LEMMA DurationIs ==
    ASSUME NEW d, IsDuration(d), Readable(d)
    PROVE  Duration(d) = d.value /\ d.value \in Nat /\ d.value < Top64
<1>1. Top64 \in Nat /\ 0 < Top64
  BY WidthAssumption
<1>2. CASE d.form = "absent"
  BY <1>1, <1>2 DEF IsDuration, Duration
<1>3. CASE d.form # "absent"
  <2>1. d.value \in Int /\ 0 <= d.value /\ d.value < Top64
    BY <1>3 DEF IsDuration, Readable, InRange
  <2>2. Duration(d) = ToInt64(d.value)
    BY <1>3 DEF Duration
  <2>3. QED
    BY <1>1, <2>1, <2>2 DEF ToInt64
<1>4. QED
  BY <1>2, <1>3

LEMMA ToInt32Is ==
    ASSUME NEW n \in Nat, n <= 1024
    PROVE  ToInt32(n) = n
<1>1. PICK w \in Nat : w = Top32 /\ 1024 < w
  BY WidthAssumption
<1>2. n + w \in 0 .. 2 * w - 1
  BY <1>1
<1>3. (n + w) % (2 * w) = n + w
  BY ONLY <1>1, <1>2
<1>4. QED
  BY <1>1, <1>3 DEF ToInt32

LEMMA CompletedNumbers ==
    ASSUME NEW c, NEW g, NEW server, LoadedAs(c, g, server), NumbersOf(server), NumbersOf(g), g.pool \in Int
    PROVE  /\ c.timeout = OrElse(g.timeout.value, OrElse(server.timeout.value, 30 * Second))
           /\ c.timeout \in Nat \ {0} /\ c.timeout < Top64
           /\ OrElse(c.connect, ServerDefaults(server).connect)
                = OrElse(g.connect.value, OrElse(server.connect.value, 10 * Second))
           /\ c.pool = OrElse(g.pool, 4) /\ ToInt32(c.pool) = c.pool
<1>1. /\ Duration(g.timeout) = g.timeout.value /\ Duration(g.connect) = g.connect.value
      /\ Duration(server.timeout) = server.timeout.value /\ Duration(server.connect) = server.connect.value
      /\ g.timeout.value \in Nat /\ g.timeout.value < Top64
      /\ server.timeout.value \in Nat /\ server.timeout.value < Top64
  BY DurationIs DEF NumbersOf
<1>2. Second \in Nat \ {0} /\ Top64 \in Nat /\ 30 * Second < Top64
  BY WidthAssumption
<1>3. /\ c.timeout = OrElse(Duration(g.timeout), ServerDefaults(server).timeout)
      /\ c.connect = Duration(g.connect) /\ c.pool = OrElse(g.pool, 4)
  BY DEF LoadedAs, InstanceDefaults
<1>4. /\ ServerDefaults(server).timeout = OrElse(Duration(server.timeout), 30 * Second)
      /\ ServerDefaults(server).connect = OrElse(Duration(server.connect), 10 * Second)
  BY DEF ServerDefaults
<1>5. c.timeout = OrElse(g.timeout.value, OrElse(server.timeout.value, 30 * Second))
  BY <1>1, <1>3, <1>4
<1>6. c.timeout \in Nat \ {0} /\ c.timeout < Top64
  BY <1>1, <1>2, <1>5 DEF OrElse
<1>7. OrElse(c.connect, ServerDefaults(server).connect)
        = OrElse(g.connect.value, OrElse(server.connect.value, 10 * Second))
  BY <1>1, <1>3, <1>4
<1>8. c.pool \in Nat /\ c.pool <= 1024
  <2>1. c.pool <= 1024
    BY DEF LoadedAs, ValidInstance
  <2>2. c.pool \in Nat
    BY <1>3 DEF OrElse
  <2>3. QED
    BY <2>1, <2>2
<1>9. QED
  BY <1>3, <1>5, <1>6, <1>7, <1>8, ToInt32Is

-----------------------------------------------------------------------------
(* Theorems.                                                               *)

(* Every variable has its type.                                            *)
THEOREM TypeCorrect == Spec => []TypeOK
<1>1. IInv => TypeOK
  <2> SUFFICES ASSUME IInv PROVE TypeOK
    OBVIOUS
  <2>1. \A n \in DOMAIN insts : insts[n] \in DOMAIN pools
    BY DEF IInv, MgrInv
  <2>2. QED
    BY <2>1 DEF IInv, ProcTypes, CallTypes, MgrInv, TypeOK, PoolState, Stage
<1>2. QED
  BY <1>1, Invariance, PTL

(* Every name the tools list leads to its own pool, and the one marked as  *)
(* the default is the one a request without a name gets.                   *)
THEOREM NamesResolve == Spec => []AdvertisedResolves
<1>1. IInv => AdvertisedResolves
  <2> SUFFICES ASSUME IInv, Running PROVE AdvertisedResolves
    BY DEF AdvertisedResolves
  <2>1. /\ DOMAIN insts = {names[i] : i \in DOMAIN names}
        /\ \A i \in DOMAIN names : insts[names[i]] = i
        /\ \E i \in DOMAIN names : names[i] = default
    BY DEF IInv, MgrInv, FileInv
  <2>2. Named("") = default
    BY DEF Named
  <2>3. \A i \in DOMAIN names : /\ Described[i].name = names[i]
                                /\ Described[i].marked <=> names[i] = default
    BY DEF Described
  <2>4. QED
    BY <2>1, <2>2, <2>3 DEF AdvertisedResolves
<1>2. QED
  BY <1>1, Invariance, PTL

(* No pool is closed under a call that uses it or is about to.             *)
THEOREM PoolsOutliveCalls == Spec => []ClosesLast
<1>1. IInv => ClosesLast
  BY DEF IInv, ProcTypes, OrderInv, Early, Idle, ClosesLast
<1>2. QED
  BY <1>1, Invariance, PTL

(* No pool is left behind by a process that ends by itself.                *)
THEOREM NoPoolLeft == Spec => []NothingLeft
<1>1. IInv => NothingLeft
  BY DEF IInv, OrderInv, NothingLeft
<1>2. QED
  BY <1>1, Invariance, PTL

(* Every instance that is made connects with the parameters its            *)
(* configuration means: what BuildDSN writes, with any number of fields    *)
(* and options and whatever their values contain, the driver reads back as *)
(* them.                                                                   *)
THEOREM DsnMeant == Spec => []DsnAsMeant
<1>1. IInv => DsnAsMeant
  <2> SUFFICES ASSUME IInv, phase = "making", NEW i \in DOMAIN file.instances, Clear(file.instances[i])
               PROVE  /\ Settings(BuildDSN(cfg.instances[i])).ok
                      /\ Settings(BuildDSN(cfg.instances[i])).values = Meant(file.instances[i])
    BY DEF DsnAsMeant
  <2>1. file \in Files /\ Loads(file)
    BY DEF IInv, FileInv, Early
  <2>2. LoadedAs(cfg.instances[i], file.instances[i], file.server)
    BY <2>1, LoadedInstance DEF cfg
  <2>3. Connects(BuildDSN(cfg.instances[i]), file.instances[i], "sslmode")
    BY <2>2, LoadedConnects
  <2>4. QED
    BY <2>3 DEF Connects
<1>2. QED
  BY <1>1, Invariance, PTL

(* No number of a configuration that loads turns into another on its way   *)
(* to the pool and the server, whatever the units and widths.              *)
THEOREM LimitsMeant == Spec => []LimitsAsMeant
<1>1. IInv => LimitsAsMeant
  <2> SUFFICES ASSUME IInv, phase = "making", NEW i \in DOMAIN file.instances
               PROVE  LET inst    == file.instances[i]
                          got     == NewInstance(cfg.instances[i], cfg.server)
                          timeout == OrElse(inst.timeout.value, OrElse(file.server.timeout.value, 30 * Second))
                          given   == GivenValues(inst)
                      IN  /\ got.maxConns = OrElse(inst.pool, 4)
                          /\ got.limit > 0
                          /\ got.limit = 1 \/ timeout - Millisecond < got.limit * Millisecond
                          /\ got.limit = 1 \/ got.limit * Millisecond <= timeout
                          /\ timeout + 5 * Second < Top64 => got.deadline > timeout
                          /\ Clear(inst) =>
                               IF <<"connect_timeout">> \in DOMAIN given
                                 THEN got.connect.given = given[<<"connect_timeout">>]
                                 ELSE got.connect.duration =
                                        OrElse(inst.connect.value, OrElse(file.server.connect.value, 10 * Second))
    BY DEF LimitsAsMeant
  <2> DEFINE g       == file.instances[i]
             c       == cfg.instances[i]
             server  == file.server
             got     == NewInstance(c, cfg.server)
             timeout == OrElse(g.timeout.value, OrElse(server.timeout.value, 30 * Second))
             connect == OrElse(g.connect.value, OrElse(server.connect.value, 10 * Second))
             given   == GivenValues(g)
             param   == <<"connect_timeout">>
  <2>1. file \in Files /\ Loads(file)
    BY DEF IInv, FileInv, Early
  <2>2. LoadedAs(c, g, server) /\ NumbersOf(server) /\ NumbersOf(g) /\ g.pool \in Int
    BY <2>1, LoadedInstance DEF cfg
  <2>3. cfg.server = ServerDefaults(server)
    BY DEF cfg, SetDefaults
  <2> HIDE DEF g, c, server
  <2>4. /\ c.timeout = timeout /\ timeout \in Nat \ {0} /\ timeout < Top64
        /\ OrElse(c.connect, cfg.server.connect) = connect
        /\ c.pool = OrElse(g.pool, 4) /\ ToInt32(c.pool) = c.pool
    BY <2>2, <2>3, CompletedNumbers
  <2>5. /\ got.maxConns = ToInt32(c.pool)
        /\ got.connect = ConnectTimeout(c, cfg.server)
        /\ got.limit = StatementTimeout(c.timeout)
        /\ got.deadline = CallDeadline(c.timeout)
    BY DEF NewInstance
  <2> HIDE DEF got, timeout, connect, given, param
  <2>6. got.maxConns = OrElse(g.pool, 4)
    BY <2>4, <2>5
  <2>7. /\ got.limit > 0
        /\ got.limit = 1 \/ /\ got.limit * Millisecond <= timeout
                            /\ timeout - Millisecond < got.limit * Millisecond
        /\ timeout + 5 * Second < Top64 => got.deadline = timeout + 5 * Second
    <3>1. /\ StatementTimeout(timeout) > 0
          /\ \/ StatementTimeout(timeout) = 1
             \/ /\ StatementTimeout(timeout) * Millisecond <= timeout
                /\ timeout - Millisecond < StatementTimeout(timeout) * Millisecond
          /\ timeout + 5 * Second < Top64 => CallDeadline(timeout) = timeout + 5 * Second
      BY <2>4, TimeoutsKept
    <3>2. got.limit = StatementTimeout(timeout) /\ got.deadline = CallDeadline(timeout)
      BY <2>4, <2>5
    <3>3. QED
      BY <3>1, <3>2
  <2>8. timeout + 5 * Second < Top64 => got.deadline > timeout
    BY <2>4, <2>7, WidthAssumption
  <2>9. ASSUME Clear(g)
        PROVE  /\ param \in DOMAIN given => got.connect.given = given[param]
               /\ param \notin DOMAIN given => got.connect.duration = connect
    <3>1. /\ Settings(BuildDSN(c)) = [ok |-> TRUE, values |-> Meant(g)]
          /\ DSNHasParam(BuildDSN(c), "connect_timeout") <=> param \in DOMAIN Meant(g)
      BY <2>2, <2>9, LoadedConnects DEF Connects, param
    <3>2. /\ param \in DOMAIN Meant(g) <=> param \in DOMAIN given
          /\ param \in DOMAIN given => Meant(g)[param] = given[param]
      <4> DEFINE mode == Only(<<"sslmode">>, <<IF g.sslmode = "" THEN "disable" ELSE g.sslmode>>)
      <4>1. Meant(g) = Over(given, mode)
        BY DEF Meant, given
      <4>2. DOMAIN mode = {<<"sslmode">>}
        BY DEF Only
      <4>3. param # <<"sslmode">>
        BY DEF param
      <4> HIDE DEF mode
      <4>4. DOMAIN Over(given, mode) = DOMAIN given \cup DOMAIN mode
        BY DEF Over
      <4>5. \A x \in DOMAIN given \cup DOMAIN mode :
                Over(given, mode)[x] = IF x \in DOMAIN given THEN given[x] ELSE mode[x]
        BY DEF Over
      <4>6. QED
        BY <4>1, <4>2, <4>3, <4>4, <4>5
    <3>3. CASE param \in DOMAIN given
      <4>1. got.connect.given = IF param \in DOMAIN Meant(g) THEN Meant(g)[param] ELSE <<>>
        <5>1. DSNHasParam(BuildDSN(c), "connect_timeout")
          BY <3>1, <3>2, <3>3
        <5>2. Settings(BuildDSN(c)).values = Meant(g)
          BY <3>1
        <5>3. ConnectTimeout(c, cfg.server) =
                [given |-> IF param \in DOMAIN Meant(g) THEN Meant(g)[param] ELSE <<>>, duration |-> 0]
          BY <5>1, <5>2 DEF ConnectTimeout, param
        <5>4. QED
          BY <2>5, <5>3
      <4>2. QED
        BY <3>2, <3>3, <4>1
    <3>4. CASE param \notin DOMAIN given
      BY <2>4, <2>5, <3>1, <3>2, <3>4 DEF ConnectTimeout
    <3>5. QED
      BY <3>3, <3>4
  <2>10. QED
    BY <2>6, <2>7, <2>8, <2>9 DEF g, c, server, got, timeout, connect, given, param
<1>2. QED
  BY <1>1, Invariance, PTL
=============================================================================
