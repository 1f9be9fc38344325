------------------------------- MODULE Lifecycle -------------------------------
(***************************************************************************)
(* The life of the process: main.start (cmd/gaussdb-ro-mcp/main.go), the   *)
(* manager of the instances and their pools (internal/db/manager.go), the  *)
(* tools as far as they find an instance and hold its pool                 *)
(* (internal/tools/tools.go), and the server of the MCP library as start   *)
(* uses it: Server.Run over the jsonrpc2 connection on stdin and stdout.   *)
(*                                                                         *)
(* A pool is one of "open", "closing" (Close waits for what it lent) and   *)
(* "closed"; what happens in a pool is ConnPool, and what a call does with *)
(* it ReadOnlyTx.  Here a call uses it until the server answers or the     *)
(* call's context ends it.                                                 *)
(***************************************************************************)
EXTENDS Config

CONSTANTS
    Files,  \* the configuration files
    Call    \* the requests the client may have under way

IsList(s)     == s \in Seq(Range(s))
IsFields(fs)  == IsList(fs) /\ \A i \in DOMAIN fs : IsList(fs[i].value)
IsDuration(d) == d.value \in Int /\ (d.form = "absent" => d.value = 0)

(* What the decoder leaves in a file: lists are lists and numbers numbers; *)
(* an empty connection string is none, and one that is not has a field.    *)
ASSUME FilesAssumption ==
    \A f \in Files :
        /\ Len(f.instances) \in Nat /\ DOMAIN f.instances = 1 .. Len(f.instances)
        /\ IsDuration(f.server.timeout) /\ IsDuration(f.server.connect)
        /\ \A i \in DOMAIN f.instances :
              f.instances[i] # NilItem =>
                  LET inst == f.instances[i]
                  IN  /\ IsFields(inst.dsn.fields) /\ IsFields(inst.options)
                      /\ inst.dsn.form \in {"none", "kv", "url"}
                      /\ inst.dsn.form = "kv" => inst.dsn.fields # <<>>
                      /\ inst.dsn.form = "none" => inst.dsn.fields = <<>>
                      /\ IsDuration(inst.timeout) /\ IsDuration(inst.connect) /\ inst.pool \in Int

VARIABLES
    phase,    \* how far start has come
    status,   \* the exit status of the process, once it is known
    signalled,
    file,     \* the configuration, while start needs it
    names,    \* Manager.names
    insts,    \* Manager.insts: from a name to a pool
    default,  \* Manager.defName
    pools,
    stage,    \* where a request is
    pool,     \* the pool its call uses, 0 for none
    timed,    \* whether its tool sets a deadline
    ctx,      \* its context
    connClosing, reading, readErr, writeErr   \* inFlightState

procVars == <<phase, status, signalled>>
mgrVars  == <<names, insts, default, pools>>
callVars == <<stage, pool, timed, ctx>>
connVars == <<connClosing, reading, readErr, writeErr>>
vars     == <<procVars, file, mgrVars, callVars, connVars>>

NoFile == [none |-> TRUE]

TypeOK ==
    /\ phase \in {"start", "making", "serving", "stopping", "closing", "exited"}
    /\ status \in {"none", "0", "1", "killed"}
    /\ signalled \in BOOLEAN
    /\ pools \in Seq({"open", "closing", "closed"})
    /\ Len(names) = Len(pools)
    /\ \A n \in DOMAIN insts : insts[n] \in DOMAIN pools
    /\ stage \in [Call -> {"none", "queued", "resolving", "using", "ended", "writing"}]
    /\ pool \in [Call -> Nat]
    /\ \A c \in Call : stage[c] = "using" => pool[c] \in DOMAIN pools
    /\ timed \in [Call -> BOOLEAN]
    /\ ctx \in [Call -> {"live", "done"}]
    /\ connClosing \in BOOLEAN /\ reading \in BOOLEAN /\ writeErr \in BOOLEAN
    /\ readErr \in {"none", "eof", "bad"}

Init ==
    /\ phase = "start" /\ status = "none" /\ signalled = FALSE
    /\ file \in Files
    /\ names = <<>> /\ insts = <<>> /\ default = "" /\ pools = <<>>
    /\ stage = [c \in Call |-> "none"]
    /\ pool = [c \in Call |-> 0]
    /\ timed = [c \in Call |-> FALSE]
    /\ ctx = [c \in Call |-> "live"]
    /\ connClosing = FALSE /\ reading = FALSE /\ readErr = "none" /\ writeErr = FALSE

-----------------------------------------------------------------------------
(* start.                                                                  *)

cfg == SetDefaults(file)

Exits(s) ==
    /\ phase' = "exited" /\ status' = s
    /\ file' = NoFile

(* -version, or a file that cannot be read; see Load for the others.       *)
ShowVersion ==
    /\ phase = "start"
    /\ Exits("0")
    /\ UNCHANGED <<signalled, mgrVars, callVars, connVars>>

LoadFails ==
    /\ phase = "start"
    /\ Exits("1")
    /\ UNCHANGED <<signalled, mgrVars, callVars, connVars>>

(* From here on signals end the context instead of the process.            *)
Load ==
    /\ phase = "start"
    /\ Loads(file)
    /\ phase' = "making"
    /\ default' = cfg.default
    /\ UNCHANGED <<status, signalled, file, names, insts, pools, callVars, connVars>>

(* NewManager, one instance: its pool opens no connection yet.             *)
Make ==
    /\ phase = "making" /\ Len(pools) < Len(cfg.instances)
    /\ LET inst == NewInstance(cfg.instances[Len(pools) + 1], cfg.server)
       IN  /\ inst.ok
           /\ names' = Append(names, inst.name)
           /\ insts' = [n \in DOMAIN insts \cup {inst.name} |->
                          IF n = inst.name THEN Len(pools) + 1 ELSE insts[n]]
    /\ pools' = Append(pools, "open")
    /\ UNCHANGED <<procVars, file, default, callVars, connVars>>

(* A bug: the pools made before are left.                                  *)
MakeFailsLeaving ==
    /\ phase = "making" /\ Len(pools) < Len(cfg.instances)
    /\ Exits("1")
    /\ UNCHANGED <<signalled, mgrVars, callVars, connVars>>

(* newInstance fails, for its connection string or another reason.         *)
MakeFails ==
    /\ phase = "making" /\ Len(pools) < Len(cfg.instances)
    /\ phase' = "closing" /\ status' = "1"
    /\ file' = NoFile
    /\ UNCHANGED <<signalled, mgrVars, callVars, connVars>>

(* Register and Run.  Nothing reads the configuration again.               *)
Serve ==
    /\ phase = "making" /\ Len(pools) = Len(cfg.instances)
    /\ phase' = "serving"
    /\ reading' = TRUE
    /\ file' = NoFile
    /\ UNCHANGED <<status, signalled, mgrVars, callVars, connClosing, readErr, writeErr>>

(* SIGINT or SIGTERM; every one after the first is taken and ignored.      *)
Signal ==
    /\ phase # "exited"
    /\ IF phase = "start" THEN Exits("killed") /\ UNCHANGED signalled
       ELSE signalled' = TRUE /\ UNCHANGED <<phase, status, file>>
    /\ UNCHANGED <<mgrVars, callVars, connVars>>

-----------------------------------------------------------------------------
(* The connection to the client.                                           *)

Running      == phase \in {"serving", "stopping"}
ShuttingDown == connClosing \/ readErr # "none" \/ writeErr
Idle         == \A c \in Call : stage[c] = "none"
Pending(c)   == stage[c] \in {"queued", "resolving", "using", "ended"}

CancelAllBut(spared) ==
    ctx' = [c \in Call |-> IF Pending(c) /\ c \notin spared THEN "done" ELSE ctx[c]]

(* A response is not written once the connection is shutting down; the     *)
(* first time, every other request is cancelled.                           *)
WriteRefused(spared) ==
    /\ writeErr' = TRUE
    /\ IF writeErr THEN UNCHANGED ctx ELSE CancelAllBut(spared)

(* acceptRequest                                                           *)
Request(c) ==
    /\ Running /\ reading /\ stage[c] = "none"
    /\ IF ShuttingDown THEN WriteRefused({c}) /\ UNCHANGED stage
       ELSE stage' = [stage EXCEPT ![c] = "queued"] /\ UNCHANGED <<writeErr, ctx>>
    /\ UNCHANGED <<procVars, file, mgrVars, pool, timed, connClosing, reading, readErr>>

(* The client cancels a request.                                           *)
Cancel(c) ==
    /\ Running /\ reading /\ Pending(c)
    /\ ctx' = [ctx EXCEPT ![c] = "done"]
    /\ UNCHANGED <<procVars, file, mgrVars, stage, pool, timed, connVars>>

(* A bug: the requests under way are not cancelled.                        *)
ReadEndsQuietly(e) ==
    /\ Running /\ reading
    /\ reading' = FALSE /\ readErr' = e
    /\ UNCHANGED <<procVars, file, mgrVars, callVars, connClosing, writeErr>>

(* readIncoming returns: the client has closed its end, or sent no message *)
(* of the protocol.                                                        *)
ReadEnds(e) ==
    /\ Running /\ reading
    /\ reading' = FALSE /\ readErr' = e
    /\ CancelAllBut({})
    /\ UNCHANGED <<procVars, file, mgrVars, stage, pool, timed, connClosing, writeErr>>

(* updateInFlight closes stdin as soon as nothing is under way.            *)
ReaderClosed ==
    /\ Idle /\ ShuttingDown
    /\ ReadEnds("eof")

(* handleAsync: a request cancelled before its turn is not handled.        *)
Start(c) ==
    /\ stage[c] = "queued"
    /\ stage' = [stage EXCEPT ![c] = IF ctx[c] = "done" THEN "ended" ELSE "resolving"]
    /\ UNCHANGED <<procVars, file, mgrVars, pool, timed, ctx, connVars>>

(* Manager.Resolve                                                         *)
Named(n) == IF n = "" THEN default ELSE n

(* A handler finds the instance and uses its pool, or ends with an error:  *)
(* an unknown name, or arguments or SQL that are refused.  execute_select  *)
(* and test_connection set a deadline, the other tools do not.             *)
Resolve(c) ==
    /\ stage[c] = "resolving"
    /\ \/ /\ \E i \in DOMAIN names \cup {0} :
                LET n == Named(IF i = 0 THEN "" ELSE names[i])
                IN  /\ n \in DOMAIN insts
                    /\ pool' = [pool EXCEPT ![c] = insts[n]]
          /\ \E t \in BOOLEAN : timed' = [timed EXCEPT ![c] = t]
          /\ stage' = [stage EXCEPT ![c] = "using"]
       \/ /\ stage' = [stage EXCEPT ![c] = "ended"]
          /\ UNCHANGED <<pool, timed>>
    /\ UNCHANGED <<procVars, file, mgrVars, ctx, connVars>>

Ends(c) ==
    /\ stage[c] = "using"
    /\ stage' = [stage EXCEPT ![c] = "ended"]
    /\ pool' = [pool EXCEPT ![c] = 0]
    /\ timed' = [timed EXCEPT ![c] = FALSE]
    /\ UNCHANGED <<procVars, file, mgrVars, ctx, connVars>>

(* The database has answered everything the call asked it.                 *)
ServerAnswers(c) == Ends(c)

(* The deadline of the tool.                                               *)
Expire(c) ==
    /\ stage[c] = "using" /\ timed[c] /\ ctx[c] = "live"
    /\ ctx' = [ctx EXCEPT ![c] = "done"]
    /\ UNCHANGED <<procVars, file, mgrVars, stage, pool, timed, connVars>>

(* With its context done a call gets an error from wherever it waits.      *)
Abort(c) == ctx[c] = "done" /\ Ends(c)

(* processResult                                                           *)
Respond(c) ==
    /\ stage[c] = "ended"
    /\ IF ShuttingDown
         THEN /\ stage' = [stage EXCEPT ![c] = "none"]
              /\ writeErr' = TRUE
              /\ ctx' = [d \in Call |->
                   IF d = c THEN "live" ELSE IF ~writeErr /\ Pending(d) THEN "done" ELSE ctx[d]]
         ELSE /\ stage' = [stage EXCEPT ![c] = "writing"]
              /\ ctx' = [ctx EXCEPT ![c] = "live"]
              /\ UNCHANGED writeErr
    /\ UNCHANGED <<procVars, file, mgrVars, pool, timed, connClosing, reading, readErr>>

(* The client has read the response.                                       *)
WriteReturns(c) ==
    /\ stage[c] = "writing"
    /\ stage' = [stage EXCEPT ![c] = "none"]
    /\ UNCHANGED <<procVars, file, mgrVars, pool, timed, ctx, connVars>>

-----------------------------------------------------------------------------
(* Shutdown.                                                               *)

(* A bug: Run does not wait for the connection it closes.                  *)
RunSeesSignalOnly ==
    /\ phase = "serving" /\ signalled
    /\ phase' = "closing" /\ status' = "0"
    /\ connClosing' = TRUE
    /\ UNCHANGED <<signalled, file, mgrVars, callVars, reading, readErr, writeErr>>

(* Run closes the connection: no new request; those under way go on, with  *)
(* their contexts as they are.                                             *)
RunSeesSignal ==
    /\ phase = "serving" /\ signalled
    /\ phase' = "stopping"
    /\ connClosing' = TRUE
    /\ UNCHANGED <<status, signalled, file, mgrVars, callVars, reading, readErr, writeErr>>

(* The connection is done: Run returns context.Canceled after a signal,    *)
(* which main takes for success, or nil at the end of input, or an error.  *)
RunReturns ==
    /\ Running
    /\ Idle /\ ShuttingDown /\ ~reading
    /\ phase' = "closing"
    /\ status' = IF phase = "serving" /\ readErr = "bad" THEN "1" ELSE "0"
    /\ UNCHANGED <<signalled, file, mgrVars, callVars, connVars>>

(* Manager.Close closes the pools it knows, one after the other.           *)
Known(i) == \E n \in DOMAIN insts : insts[n] = i

ClosePool(i) ==
    /\ phase = "closing"
    /\ Known(i) /\ pools[i] = "open"
    /\ \A j \in DOMAIN pools : pools[j] # "closing"
    /\ pools' = [pools EXCEPT ![i] = "closing"]
    /\ UNCHANGED <<procVars, file, names, insts, default, callVars, connVars>>

(* Close returns when every connection is back.                            *)
PoolClosed(i) ==
    /\ pools[i] = "closing"
    /\ \A c \in Call : stage[c] = "using" => pool[c] # i
    /\ pools' = [pools EXCEPT ![i] = "closed"]
    /\ UNCHANGED <<procVars, file, names, insts, default, callVars, connVars>>

Exit ==
    /\ phase = "closing"
    /\ \A i \in DOMAIN pools : Known(i) => pools[i] = "closed"
    /\ phase' = "exited"
    /\ UNCHANGED <<status, signalled, file, mgrVars, callVars, connVars>>

Exited == phase = "exited" /\ UNCHANGED vars

(* What the process does by itself, if nobody stops it.                    *)
Boot     == ShowVersion \/ LoadFails \/ Load \/ Make \/ MakeFails \/ Serve
Work(c)  == Start(c) \/ Resolve(c) \/ Expire(c) \/ Abort(c) \/ Respond(c) \/ WriteReturns(c)
Shutdown == \/ RunSeesSignal \/ ReaderClosed \/ RunReturns \/ Exit
            \/ \E i \in DOMAIN pools : ClosePool(i) \/ PoolClosed(i)

Next ==
    \/ Boot \/ Shutdown \/ Signal \/ Exited
    \/ \E c \in Call : Work(c) \/ Request(c) \/ Cancel(c) \/ ServerAnswers(c)
    \/ \E e \in {"eof", "bad"} : ReadEnds(e)

Spec == Init /\ [][Next]_vars

(* Goroutines run, deadlines pass and the client reads what it is sent.    *)
(* Nothing is assumed of the database, of a request, or of signals.        *)
Fairness == WF_vars(Shutdown) /\ \A c \in Call : WF_vars(Work(c))

FairSpec == Spec /\ Fairness

-----------------------------------------------------------------------------
(* Properties.                                                             *)

(* What a configuration means: the parameters its options, or else its     *)
(* connection string, or else its sslmode name; and numbers by the first   *)
(* level that sets one.  Of a key that comes twice the later value counts, *)
(* except in the query of a URL, where it is the first.                    *)
LastValues(fields)  == [key \in KeysOf(fields) |-> fields[Max(Places(fields, key))].value]
FirstValues(fields) == [key \in KeysOf(fields) |-> fields[Min(Places(fields, key))].value]

GivenValues(inst) ==
    Over(LastValues(inst.options),
         IF inst.dsn.form = "kv" THEN LastValues(inst.dsn.fields) ELSE FirstValues(inst.dsn.fields))

Meant(inst) ==
    Over(GivenValues(inst),
         Only(<<"sslmode">>, <<IF inst.sslmode = "" THEN "disable" ELSE inst.sslmode>>))

(* The sslmode that is appended, as a field.                               *)
SSLMode(mode) == [key |-> "sslmode", value |-> <<mode>>, quoted |-> FALSE]

(* Where both readers of a keyword=value text agree on its fields: keys    *)
(* are words, quotes stand only around values, no value is missing or has  *)
(* a blank, a quote or a backslash that is not inside quotes, nor has the  *)
(* sslmode, and the first field does not look like the scheme of a URL.    *)
(* For the query of a URL options are split at their first "=", and no     *)
(* quotes are taken off.                                                   *)
ClearKey(f) == f.key \notin {"=", Blank, Quote, Slash}

ClearField(f) ==
    /\ ClearKey(f)
    /\ \A i \in DOMAIN f.value : f.value[i] \notin {Quote, Slash} /\ (f.value[i] = Blank => f.quoted)
    /\ f.quoted \/ f.value # <<>>

Clear(inst) ==
    IF inst.dsn.form = "kv"
      THEN /\ ~IsURLFormDSN(Written(inst.dsn).text)
           /\ \A i \in DOMAIN inst.dsn.fields : ClearField(inst.dsn.fields[i])
           /\ \A i \in DOMAIN inst.options : ClearField(inst.options[i])
           /\ ClearField(SSLMode(inst.sslmode))
      ELSE \A i \in DOMAIN inst.options : ClearKey(inst.options[i]) /\ ~inst.options[i].quoted

(* Every instance that is made connects with the sslmode and the other     *)
(* parameters its configuration means (BuildDSN and what the driver makes  *)
(* of its result): in either form, with keys that come twice, with options *)
(* that repeat what the connection string has, and with values that merely *)
(* contain "sslmode=" or "://".                                            *)
DsnAsMeant ==
    phase = "making" => \A i \in DOMAIN file.instances :
        LET read == Settings(BuildDSN(cfg.instances[i]))
        IN  Clear(file.instances[i]) => read.ok /\ read.values = Meant(file.instances[i])

(* No number of a configuration that loads turns into another on its way,  *)
(* through defaults, units and widths: the pool has the size configured,   *)
(* the server ends a statement by its timeout, rounded down to a           *)
(* millisecond but never to none, and before the deadline of the call,     *)
(* except in the last five seconds below the largest Duration; and the     *)
(* connection string's connect_timeout goes before the instance's and the  *)
(* server's.                                                               *)
LimitsAsMeant ==
    phase = "making" => \A i \in DOMAIN file.instances :
        LET inst    == file.instances[i]
            got     == NewInstance(cfg.instances[i], cfg.server)
            timeout == OrElse(inst.timeout.value, OrElse(file.server.timeout.value, 30 * Second))
            given   == GivenValues(inst)
        IN  /\ got.maxConns = OrElse(inst.pool, 4)
            /\ got.limit > 0
            /\ got.limit = 1 \/ timeout - Millisecond < got.limit * Millisecond
            /\ got.limit = 1 \/ got.limit * Millisecond <= timeout
            /\ timeout + 5 * Second < Top64 => got.deadline > timeout
            /\ Clear(inst) =>
                 IF <<"connect_timeout">> \in DOMAIN given
                   THEN got.connect.given = given[<<"connect_timeout">>]
                   ELSE got.connect.duration =
                          OrElse(inst.connect.value, OrElse(file.server.connect.value, 10 * Second))

(* instanceParamDesc: every name with whether it is marked as the default. *)
Described == [i \in DOMAIN names |-> [name |-> names[i], marked |-> names[i] = default]]

(* Issue #9: what the tools advertise can be used.  Each name that is      *)
(* listed leads to the pool made for it, no two are the same, and exactly  *)
(* one is marked: the one a request without a name gets.                   *)
AdvertisedResolves ==
    Running =>
        /\ \A i \in DOMAIN names : Described[i].name \in DOMAIN insts /\ insts[names[i]] = i
        /\ Named("") \in DOMAIN insts
        /\ \A i \in DOMAIN names : Described[i].marked <=> insts[Named("")] = i

(* No pool is closed, or being closed, under a call that has yet to use it *)
(* or is using it: start closes them only after Run, and Run returns only  *)
(* when every request is answered or given up.                             *)
ClosesLast ==
    (\E c \in Call : stage[c] \in {"resolving", "using"}) => \A i \in DOMAIN pools : pools[i] = "open"

(* The process leaves no pool behind, also when a later instance cannot be *)
(* made, unless a signal killed it before there was one.                   *)
NothingLeft ==
    phase = "exited" => /\ \A i \in DOMAIN pools : pools[i] = "closed"
                        /\ status = "killed" => pools = <<>>

(* The process ends after the client has closed its end, although the      *)
(* database may never answer; after a signal, too, if a call with a        *)
(* deadline is under way then, whose unwritten response cancels the        *)
(* others; and after any signal if the database answers the calls that     *)
(* have none.                                                              *)
ShutdownEnds ==
    /\ readErr # "none" ~> phase = "exited"
    /\ (phase = "stopping" /\ \E c \in Call : timed[c]) ~> phase = "exited"
    /\ (\A c \in Call : []<>(stage[c] # "using")) =>
           (phase = "stopping" ~> phase = "exited")
=============================================================================
