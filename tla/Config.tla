-------------------------------- MODULE Config --------------------------------
(***************************************************************************)
(* The configuration file (internal/config/config.go): how it is read,     *)
(* completed and validated, and what newInstance (internal/db/manager.go)  *)
(* makes of one of its instances.  Row limits are in ResultSet.            *)
(*                                                                         *)
(* A file has `server', `instances' and `default'; what it does not set is *)
(* "", 0 or "absent", and NilItem is an empty item of the list.  Durations *)
(* are in units of which a millisecond, a second and the width of an int64 *)
(* have some number, small in an instance of the module and in the same    *)
(* order as the real ones; int32 likewise.  A duration in the file is a    *)
(* "number" (already multiplied by time.Second), a "text" with its unit,   *)
(* or "bad": NaN, an infinity, no duration at all, or out of range.        *)
(***************************************************************************)
EXTENDS Dsn, Integers

CONSTANTS
    Millisecond, Second,
    Top64,    \* 2^63: the first number no Duration has
    Top32     \* 2^31: the first number no int32 has

ASSUME WidthAssumption ==
    /\ Millisecond \in Nat \ {0, 1} /\ Second \in Nat \ {0} /\ Millisecond <= Second
    /\ Top64 \in Nat /\ 30 * Second < Top64
    /\ Top32 \in Nat /\ 1024 < Top32

NilItem == [nil |-> TRUE]

-----------------------------------------------------------------------------
(* Durations.                                                              *)

ToInt64(n) == IF n >= Top64 THEN -Top64 ELSE n
ToInt32(n) == ((n + Top32) % (2 * Top32)) - Top32
Wrapped(n) == ((n + Top64) % (2 * Top64)) - Top64

(* A bug: 2^63 itself is let through.                                      *)
InRangeClosed(n) == 0 <= n /\ n <= Top64

InRange(n) == 0 <= n /\ n < Top64

(* Duration.UnmarshalYAML                                                  *)
Readable(d) == d.form = "absent" \/ (d.form \in {"number", "text"} /\ InRange(d.value))
Duration(d) == IF d.form = "absent" THEN 0 ELSE ToInt64(d.value)

-----------------------------------------------------------------------------
(* Load.                                                                   *)

OrElse(n, default) == IF n > 0 THEN n ELSE default

(* SetDefaults: of the server, of one instance, and the default instance,  *)
(* which is the first that has a name.                                     *)
ServerDefaults(server) ==
    [timeout |-> OrElse(Duration(server.timeout), 30 * Second),
     connect |-> OrElse(Duration(server.connect), 10 * Second)]

InstanceDefaults(inst, server) ==
    IF inst = NilItem THEN inst
    ELSE [name     |-> inst.name,
          dsn      |-> inst.dsn, host |-> inst.host, database |-> inst.database,
          sslmode  |-> IF inst.sslmode = "" THEN "disable" ELSE inst.sslmode,
          options  |-> inst.options,
          timeout  |-> OrElse(Duration(inst.timeout), server.timeout),
          connect  |-> Duration(inst.connect),
          pool     |-> OrElse(inst.pool, 4)]

DefaultInstance(file) ==
    LET named == {i \in DOMAIN file.instances :
                     file.instances[i] # NilItem /\ file.instances[i].name # ""}
    IN  IF file.default # "" \/ named = {} THEN file.default ELSE file.instances[Min(named)].name

SetDefaults(file) ==
    LET server == ServerDefaults(file.server)
    IN  [server |-> server,
         instances |-> [i \in DOMAIN file.instances |-> InstanceDefaults(file.instances[i], server)],
         default |-> DefaultInstance(file)]

(* validate: an instance has a name, a connection string or a host and a   *)
(* database, and not more connections than an int32 takes.                 *)
ValidInstance(inst) ==
    /\ inst # NilItem
    /\ inst.name # ""
    /\ inst.pool <= 1024
    /\ inst.dsn.form = "none" => inst.host /\ inst.database

(* A bug: the default is not looked up.                                    *)
ValidNoDefault(cfg) ==
    /\ cfg.instances # <<>>
    /\ \A i \in DOMAIN cfg.instances : ValidInstance(cfg.instances[i])
    /\ \A i, j \in DOMAIN cfg.instances : cfg.instances[i].name = cfg.instances[j].name => i = j

Valid(cfg) ==
    /\ cfg.instances # <<>>
    /\ \A i \in DOMAIN cfg.instances : ValidInstance(cfg.instances[i])
    /\ \A i, j \in DOMAIN cfg.instances : cfg.instances[i].name = cfg.instances[j].name => i = j
    /\ \E i \in DOMAIN cfg.instances : cfg.instances[i].name = cfg.default

(* What the decoder takes: every duration of the file.                     *)
Decodes(file) ==
    /\ Readable(file.server.timeout) /\ Readable(file.server.connect)
    /\ \A i \in DOMAIN file.instances :
          LET inst == file.instances[i]
          IN  inst # NilItem => Readable(inst.timeout) /\ Readable(inst.connect)

Loads(file) == Decodes(file) /\ Valid(SetDefaults(file))

-----------------------------------------------------------------------------
(* newInstance.                                                            *)

(* The timeout of a connection attempt is what the connection string has,  *)
(* if it has one, or else the instance or the server.                      *)
ConnectTimeout(inst, server) ==
    LET dsn   == BuildDSN(inst)
        read  == Settings(dsn).values
    IN  IF DSNHasParam(dsn, "connect_timeout")
          THEN [given |-> IF <<"connect_timeout">> \in DOMAIN read THEN read[<<"connect_timeout">>] ELSE <<>>,
                duration |-> 0]
          ELSE [given |-> <<>>, duration |-> OrElse(inst.connect, server.connect)]

(* setStatementTimeout: whole milliseconds, of which 0 would mean no limit.  *)
StatementTimeout(d) == Max({d \div Millisecond, 1})

(* The deadline handleExecuteSelect sets.                                  *)
CallDeadline(timeout) == Wrapped(timeout + 5 * Second)

NewInstance(inst, server) ==
    [name     |-> inst.name,
     ok       |-> Settings(BuildDSN(inst)).ok,
     values   |-> Settings(BuildDSN(inst)).values,
     maxConns |-> ToInt32(inst.pool),
     connect  |-> ConnectTimeout(inst, server),
     limit    |-> StatementTimeout(inst.timeout),
     deadline |-> CallDeadline(inst.timeout)]
=============================================================================
