# Formal model of gaussdb-ro-mcp

TLA+ modules, TLC configurations and TLAPS proofs about gaussdb-ro-mcp, an MCP
server that lets a coding agent read GaussDB / openGauss databases. Everything
below is translated from the Go source under `src/`; where this text says
"line", it is a line of that source. `PROJECT.json` maps every definition to
the lines it models.

## 1. The system

### Components

| component | where | state it keeps | operations |
|---|---|---|---|
| MCP server, tool handlers | `internal/tools/tools.go`, vendored go-sdk | none between calls | `test_connection`, `list_schemas`, `list_tables`, `describe_table`, `execute_select`; each request runs in a goroutine of its own |
| Manager | `internal/db/manager.go` 49-175 | the instances by name (read-only after start) | `NewManager`, `Resolve`, `Close` |
| Instance: read-only transactions | `manager.go` 177-461 | none of its own; the sessions of the pooled connections | `Select`, `Query`, `queryReadOnly`, `ensureIdleTx`, `verifyReadOnlyTx`, `cleanupTx`, `dedupColumns`, `collectRows`, `NormalizeValue` |
| Instance: metadata | `internal/db/meta.go` | `partitionMode`, `partitionResolved`, `partitionProbeDone` under `partitionMu` | `detectPartitionSupport`, `ResolveTable`, `ListTables`, `ListPartitions`, ... |
| Connection pool | `third_party/gaussdb-go/gaussdbxpool`, over puddle | the list of resources under a mutex, a semaphore with a lock of its own, a wait group | `Acquire`, `Release`, `AcquireAllIdle` by the health check, `Close` |
| Connection | `third_party/gaussdb-go/gaussdbconn` | status byte of the last ReadyForQuery, closed or not | statements, `asyncClose` on a cancelled one |
| SQL guard | `internal/guard/guard.go` | the list of blocked functions (constant) | `ValidateSelect`, a lexer and a scan of its tokens |
| Configuration | `internal/config/config.go` | none after start | `Load`, `SetDefaults`, `validate`, `BuildDSN`, `Duration.UnmarshalYAML` |
| Startup, shutdown | `cmd/gaussdb-ro-mcp/main.go` | the signal context | `start`: `Load`, `NewManager`, `Register`, `server.Run`; a signal ends `Run`, `mgr.Close` is deferred |
| MCP connection | vendored go-sdk, `internal/jsonrpc2/conn.go` | `inFlightState`: requests under way, reading, closing, errors of either direction | accept, handle, cancel, respond, shut down when idle |
| Test server | `internal/dbtest/mockgaussdb.go` | per connection: prepared statements, the pending result, `errMode`, the transaction, the next value of `SHOW` | one handler per message of the protocol |
| Seed script | `scripts/devseed/main.go` | none | a fixed list of statements, run once |

### How they interact

A handler resolves the instance and calls `Select` (`execute_select`, with a
row limit and a timeout) or `Query` (everything else, without a row limit;
`list_*` and `describe_table` without a timeout). Both go through
`queryReadOnly`, which acquires a connection, runs
`BEGIN; SET LOCAL TRANSACTION READ ONLY; SHOW transaction_read_only; <sql>; COMMIT`
and releases it. The calls of one instance share its pool and the cached answer
to "does this server keep partitions the openGauss way", which the first caller
settles with a query of its own while the others wait on a channel.

The world around it misbehaves in ways the code answers to: a context ends
before, during or between statements; connections break; a session is delivered,
or swapped in by a proxy, inside somebody else's transaction; a middle tier
acknowledges `SET LOCAL` without applying it; `COMMIT` fails.

### What is hard, and what makes it correct

- **Read-only transactions.** Eleven places in `queryReadOnly` return, each with
  the connection in a different state; the decision to clean up is made on the
  driver's belief (the status byte), correctness is about the server's state.
  Correct: caller SQL runs only in a transaction its own call began and that the
  server holds read-only; no transaction of one call reaches the next one; no
  connection is lost; rows are delivered if and only if the result was read
  whole; SQL is run at most once although `BEGIN` and `Acquire` retry; when nothing
  but dirty sessions happens, every call succeeds.
- **Partition probe.** A singleflight with failing and cancelled leaders.
  Correct: one probe at a time, nobody waits for a channel no one closes, the
  cache is never wrong and never changes, and a wrong "no" has an error behind it.
- **describe_table.** A chain of transactions that uses the probe twice, while
  other calls settle it and tables are dropped. Correct: no catalog is asked that
  the server lacks; what is wrong or missing in an answer has a cause.
- **list_tables.** One row above the limit is asked for to know of more, and the
  total is counted by another transaction, which may fail or see another database.
- **Result shaping.** Generated column names may collide with the query's own;
  limits come from three levels. Correct: unique keys, a search that ends, the
  cap respected in every combination, `truncated` exactly when there was more;
  values of every kind, nested, end in something `encoding/json` accepts.
- **Connection pool.** Mutex and semaphore are two locks; tokens are released on
  some error paths by the caller and on others by the goroutine that constructs or
  destroys. Correct: no token is lost or made up, who has a token finds room, who
  waits is woken also after `Close`, `Close` returns and leaves nothing open.
- **SQL guard.** A lexer that jumps over strings, nested comments, dollar quotes
  and escapes. Correct: it and a reader of the grammar agree where each of them
  ends, nothing inside them counts as a keyword, nothing outside them is missed.
- **Configuration.** A connection string is edited by this program and read by the
  driver, with two different readers of the same text; numbers pass through three
  levels of defaults, two units and three widths. Correct: what the driver gets is
  what the file means, and no number turns into another.
- **Startup and shutdown.** Any instance may fail after others have a pool; a signal,
  the end of the input, a broken message, cancelled requests and late responses come
  in any order. Correct: every advertised name has its pool, no pool is closed under
  a request, none is left behind, and the process ends if the database lets it.
- **Test server.** What the tests of the transaction protocol rest on: `SHOW` answers
  in an order the test chose, and the driver sends it in one or two round trips.
  Correct: one value per query, each answer that of its query.

The full list of hazards, each at its line, with the properties that cover it
or the reason none does, is in `PROJECT.json`.

## 2. Modules

| module | models | reads as |
|---|---|---|
| `QueryService` | what `Select` and `Query` promise a handler | abstract specification: the SQL of a call is pending, running or over; the call is answered once |
| `ReadOnlyTx` | `queryReadOnly` and all it calls, over the pool | one action per statement, error path and pool event |
| `MCReadOnlyTx` | | the names TLC uses for calls and connections |
| `ReadOnlyTx_proofs` | | theorems about `ReadOnlyTx`, that it implements `QueryService` and uses its pool as `PoolSpec` has it among them |
| `PoolSpec` | what a connection pool promises | abstract specification: asked, lent, returned; open, closing, closed |
| `ConnPool` | `gaussdbxpool.Pool` over `puddle.Pool` and its semaphore | one action per section under the mutex, several for `AcquireAllIdle` |
| `MCConnPool` | | symmetry for TLC |
| `ConnPool_proofs` | | theorems about `ConnPool`, the refinement of `PoolSpec` among them |
| `PartitionProbe` | `detectPartitionSupport` | one action per critical section |
| `PartitionProbe_proofs` | | theorems about `PartitionProbe` |
| `DescribeTable` | `handleDescribeTable`, `handleListTables`, `ResolveTable`, `ListPartitions`, `ListTables` | composes the handlers with `PartitionProbe` (INSTANCE) |
| `DescribeTable_proofs` | | theorems about `DescribeTable`, on those of `PartitionProbe` |
| `ResultSet` | row limits, `dedupColumns`, `collectRows`, `NormalizeValue` | a sequential computation, one turn of a loop per action |
| `MCResultSet` | | the column lists, settings and values TLC enumerates |
| `ResultSet_proofs` | | theorems about `ResultSet` |
| `Guard` | `tokenize`, `ValidateSelect` | a sequential computation, one turn of the lexer's loop per action; and the grammar its comments give, character by character |
| `MCGuard` | | the texts TLC enumerates |
| `Guard_proofs` | | theorems about `Guard` |
| `Dsn` | `BuildDSN` and its helpers; the driver's reading of a connection string | operators on texts |
| `Config` | durations, `SetDefaults`, `validate`, the parts of `newInstance` that read the configuration | operators on a file; EXTENDS `Dsn` |
| `Lifecycle` | `start`, `Manager`, the requests and the connection to the client | one action per step of the process or of a request; EXTENDS `Config` |
| `MCLifecycle` | | the configuration files TLC enumerates |
| `Lifecycle_proofs` | | theorems about `Lifecycle` and `Config` |
| `MockServer` | the tests' server, with the driver on the other side | one action per message or round trip |
| `MCMockServer` | | the values of `SHOW` |
| `MockServer_proofs` | | theorems about `MockServer` |

Operators whose name ends in a word like `Unchecked`, `Leak`, `Raw` and whose
comment begins "A bug:" are deliberate defects that no specification uses: for
each property one of them, put in the place of the definition it precedes, must
make TLC find that property violated.

### ReadOnlyTx

`pc[c]` is the line a call is at: `new`, `acquire` / `wait` / `connect` / `ping`
(Pool.Acquire), `ensure`, `begin`, `rollback` and `begin2` (the retry), `setro`,
`verify`, `query`, `rows`, `drain`, `commit`, `cleanup`, `release`, `done`.
`ctx[c]` is its context, `held[c]` the connection it waits for or holds,
`rows[c]` what it has read, `err[c]` what `queryReadOnly` is about to return.
`slot[k]` is the pool's view of a connection (`rested`: idle for more than a
second, so that Acquire will ping it). `sess[k]` is the session: `tx`, `ro`, `by`
are the truth at the server, `bit` and `link` what the driver knows.

A statement is `Attempt(session, context is live, the server's replies)`: a
closed connection refuses, a context that is done stops the statement before it
is sent (connection untouched) or in flight (connection closed), a broken link is
found out by using it, otherwise one of the replies of the server happens. Each
reply carries the session after it; every reply ends in a ReadyForQuery, so
`bit` becomes `tx`.

The server is external. Its rules are those of PostgreSQL that the code's own
comments rely on: `BEGIN` inside a transaction is a warning, an error aborts the
transaction, an aborted transaction refuses everything but `ROLLBACK` and
`COMMIT`, `COMMIT` of an aborted one succeeds by rolling back.

Assumption about proxies (`HandOver`). A session inside an *aborted* foreign
transaction may appear under an idle connection at any time. A session inside an
*open* foreign transaction is assumed to appear only under a connection idle for
more than a second, which Acquire pings, so that a ReadyForQuery shows it before
`ensureIdleTx` looks. Without that assumption the code cannot tell: it would see
`'I'`, its `BEGIN` would be a warning, and the caller's SQL would run inside the
foreign transaction. (It would run read-only even then, for `SET LOCAL` and the
check of it take effect there.) The comment of `ensureIdleTx` names this case as
reason for the status-byte check, which is the same reliance.

### PartitionProbe and DescribeTable

`supported` is whether the server has the column `pg_class.parttype`; it does not
change. `resolved`, `mode`, `inFlight` are the three fields of `Instance`. A
caller is `out`, `probing` (the leader, outside the mutex), `waiting` on the
channel, or `woken` (channel closed, mutex not yet taken). `failed[c]` is an
auxiliary variable: whether the probe the caller made or waited for ended in an
error. `DescribeTable` adds the query a call is at (`stage`), the kind and the
partitions keys of its answer, and a table that may be dropped at any time.

The stages of a `describe_table` are `detect`, `resolve`, the sections, `redetect`,
`partitions`; those of a `list_tables` are `list` (which uses the probe as well),
`listing` and, if the list is truncated, `count`. Both end in `done`, `listed` or
`refused`. `others` is how many relations the database has besides the one looked at,
`Limit` is the 5000 of `meta.go`, and `listing` is the count, the truncated flag and
the total count of the answer; a total that could not be counted is the empty set,
the key being left out of the answer.

### ConnPool

The pool of `ReadOnlyTx` is one step per event as a call meets it; `ConnPool` is the
inside. `pc` is the place of a call in `Pool.Acquire`: `asking` (before the
semaphore), `queued`, `granted` (given a token, not yet running), `token` (about to
lock the mutex), `waiting` (for the goroutine that constructs its resource),
`holding`. `free` and `queue` are the semaphore. `state` of a resource runs from
`none` over `constructing`, `built` (under the select that hands it over), `idle`,
`acquired`, `destroying`, `destroyed` (destructor done, still in the list), or
`dying` (out of the list, destructor running) back to `none`. `wg` is the wait
group `Close` waits on.

A section under the mutex is one action. `AcquireAllIdle` is not: it locks the mutex
and then calls the semaphore once and, if that fails, once per bit, and cancelled
waiters put their tokens back meanwhile without the mutex. So the health check has a
place (`hc`) and its mutex is `MutexFree`. When it ends with more tokens than idle
resources the program panics; `Panic` stutters there, and nothing is claimed of what
would follow. Which idle resource is taken is left open (it is a stack in puddle;
nothing here depends on it).

`PoolSpec` is implemented twice: by `ConnPool` (`ImplementsPool`), and by the pool
that `ReadOnlyTx` assumes (`UsesPool`), so that the coarse steps of the second are
steps the first provides. What the program does not call is left out: `TryAcquire`,
`CreateResource` (it sets `MinConns` to 0), `Reset`, `Hijack`.

### Guard

A text is a sequence of characters, `i` the next one to look at, `toks` the tokens
so far, `after` the second loop that follows a semicolon. The actions are the
branches of `tokenize`'s loop in the order of the code, `ValidateSelect` is the scan
of the tokens. Letters are lower case (tokens are lowered before they are compared)
and below 0x80; the words and functions of the code's tables are constants.

The reference is `Regions`: what each character belongs to, given what the one
before it belongs to. It never jumps, as the lexer does, and shares with it only the
tests of single characters and the two prefix tests.

### ResultSet

A column name is a stem and a sequence of numbers, so that `Suffixed` is
injective where `fmt.Sprintf("%s_%d")` is, and a query may have a column named
the way `dedupColumns` would name one. `number` is the number tried next: the
inner loop of `dedupColumns` is one action. Row limits are computed in `Init`
from the settings at three levels and the argument of the call.

A value is a kind and its parts. `NormalizeValue` is a recursive function over kinds
(null, finite and non-finite numbers, times, bytes, raw JSON, stringers), lists, maps
and valuers; `Encodable` is what `encoding/json` accepts. A row with a value that it
does not accept makes the whole answer `unwritten`, for the SDK encodes it as one.
The only kind left is a time whose year is above 9999 or negative (`late`).

### Dsn, Config and Lifecycle

A text of a connection string is a sequence of words and of the characters that mean
something to one of its readers: `=`, white space, the quote, the backslash, `://`.
The configuration gives fields, from which the text is put together; this program
looks for a parameter in it with `splitKVFields` and appends to it, and the driver
takes it apart with `parseKeywordValueSettings`, which has other rules for quotes and
escapes. One turn of the driver's loop is an operator (`ReadField`), the loop a recursive
function on positions; a field wins over an earlier one with its key (`Over`). The URL
form is the query as `url.Values` has it (`Query`): of each key the values, by their
places. `Set` leaves a key one value (`Single`), the driver takes the first
(`ParseURLSettings`), and options go in as they are, quotes included (`MergedOptions`). A
connection string in the configuration has at least one field: an empty one is none, as in
the code, and one of blanks only is left out.

Durations are numbers in a unit that is smaller than a millisecond, and the widths of
the integers are scaled with it: `Millisecond = 2`, `Second = 4`, `Top64 = 512`,
`Top32 = 2048` keep the order of the real ones (thirty seconds below the largest
Duration; the 1024 connections that `validate` allows below the largest int32) and
make every boundary a few values wide. Additions and conversions wrap as in Go.

`Lifecycle` has `phase` for `start`; `names`, `insts`, `default` for `Manager` (with
`pools`, which are `open`, `closing` or `closed`); and for the connection of the
library `connClosing`, `reading`, `readErr`, `writeErr` and, per request, `stage`:
`queued`, `resolving`, `using` a pool, `ended`, `writing`. `ctx` is the request's
context, `timed` whether its tool has a deadline. The file is forgotten as soon as
nothing reads it. What goes on in a pool is `ConnPool`, what a call does with it is
`ReadOnlyTx`; `ServerAnswers` stands for the end of all that.

### MockServer

`showIdx`, `prepared`, `pending`, `res`, `errMode`, `inTx` are the fields of
`connState`; each action of the server takes one message from `sent` and appends to
`replies`. The driver sends a whole round at once: a command as a simple query, any
other query as Parse-Describe-Sync and then Bind-Describe-Execute-Sync, or only the
second if the statement is `cached`; statements that failed or were given up are
closed first (`invalid`). The context of the caller may end before anything of its query
is sent (`NeverSent`) or between the two rounds (`GivesUp`), and a cached statement is
invalid then too. The hook a test may set answers any query with rows or an
error. `shows` is auxiliary: the queries `SHOW` that were to take a value.

## 3. What TLC checks

| run | instance | shows |
|---|---|---|
| `ReadOnlyTx` | 2 calls (one a Select with a deadline, one a Query without), 2 connections, all faults; 306 304 states | `TypeOK`, `OwnReadOnlyTx`, `IdleConnsClean`, `Possession`, `DeliveredComplete`, `CollectedNotLost`; that the protocol implements `QueryService` and uses a pool as in `PoolSpec` (`UsesPool`); `DeadlineReturns`, `ConnComesBack` |
| `PartitionProbe` | 3 callers; 5 936 states | `SingleFlight`, `CachedTruth`, `AnswerExplained`, `WaitEnds` |
| `DescribeTable` | 2 callers, a limit of 1; 183 642 states | `AsksWhatExists`, `KindExplained`, `PartitionsExplained`, `ListingTold`, `DescribeEnds` |
| `DescribeTableTold` | the same; a violation is expected | the comment at `tools.go:218` does not hold of the partitions |
| `ResultSet` | up to 4 columns out of id, id_2, id_3, id_2_2; settings -1..3; up to 4 rows; values two levels deep; 454 704 states | `UniqueKeys`, `LimitRespected`, `TruncatedIff`, `AnswerComes` |
| `Guard` | 32 113 texts; 133 090 states | `InStep`, `TokensOfCode`, `StopsForCause`, `KeywordsOfCode`, `Decides` |
| `GuardPrefix` | the same texts; a violation is expected | the comment at `guard.go:359` does not hold: `u."` is taken for the prefix `U&"` |
| `ConnPool` | 3 callers, 3 connections, symmetric; 74 237 states | `TokensAccounted`, and that the pool implements `PoolSpec` |
| `ConnPoolLive` | 2 callers, 2 connections; 16 150 states | `QueueMoves`: a call waits for a token for ever only without a deadline and with every slot in the hands of a silent server; `CloseEnds`: `Close` hangs only for a call that keeps its connection for ever |
| `ConnPoolIdle` | 2 callers, 3 connections; a violation is expected | the comment at puddle's `pool.go:581` does not hold |
| `Lifecycle` | over 1 000 files, 2 requests; 40 377 states | `DsnAsMeant`, `LimitsAsMeant`, `AdvertisedResolves`, `ClosesLast`, `NothingLeft`, `ShutdownEnds` |
| `MockServer` | 2 queries and `SHOW` with three values, at most 5 of it; 605 952 states | `ShowInOrder`, `AnswersBound` |

Bounds. Every call of `ReadOnlyTx` happens once: a later call on a used
connection is another member of `Call`, and two are enough for one to inherit
what the other left; two connections let one be under construction, dying or in
another call's hands meanwhile, and while one is, both calls compete for the other.
Three callers of the probe give a leader, a waiter and a third that comes between the
waking and the waiter's turn. In `ResultSet`, four
columns of four names allow a generated name to collide with a later one, with
an earlier one, and a second-level name (`id_2_2`) to be produced; rows reach one
above the largest limit. In `Guard`, the texts are all those up to 4 to 8 characters
over seven alphabets, each of the characters one group of branches looks at: three
nested comment markers, an escaped quote with its prefix, a dollar quote with a tag
inside a parameter-like run, and four tokens after the head of a query fit in. In
`ConnPool`, callers come again and again; three of them over three connections let
the health check find two idle ones while a third is constructed and two callers
queue, which is what `AcquireAllIdle` needs to go through its bits and past the
number of idle connections. With two connections, as in the run for liveness, it
cannot get there; but one call can wait there while the server holds both slots, the one
under construction for nobody, so that the exception of `QueueMoves` is met. In
`DescribeTable`, the database has as many relations as the limit or one more, and loses one at most, so that a listing is just whole, just truncated,
or turns from one into the other between its two queries. In `Lifecycle`, files vary
one thing at a time, each around its boundaries: all connection strings of up to three
of ten fields with up to two options, a few with a key repeated in either; durations about zero, a millisecond and the last
five seconds below the largest; pool sizes about 1024 and above int32; all lists of up
to three instances, named, unnamed, equal, missing or incomplete. Two requests let one
have a deadline while the other has none, and one be answered while the other runs. In
`MockServer` two queries besides `SHOW` let one be cached, the other invalid; five
queries `SHOW` over three values go past the end of the list. `MaxShows` is the only
counter that is capped.

Deadlock is checked in all runs but those of `ResultSet` and `Guard`, which are
computations that end (`CHECK_DEADLOCK FALSE`). `ReadOnlyTx` has an explicit `Finished` step, so
that any other state without a successor is an error.

Fairness. `ReadOnlyTx`: contexts with a deadline expire; a call that is not
waiting for anybody, or whose context is done, takes its next step (Go's
scheduler; the driver's context watcher; the five seconds of `cleanupTx`); a
destructor ends (its fifteen seconds). Nothing is assumed of the server, of the
network or of a connection under construction. `PartitionProbe`: the leader's
query ends, with rows or an error, and a woken caller gets the mutex.
`DescribeTable`: a handler takes its next step, each query ending with rows or an
error; without a deadline this rests on the server's `statement_timeout`, which
`AfterConnect` sets on every connection. `ResultSet`, `Guard`: the computation goes on.
`Lifecycle`: each request takes its next step (goroutines run, deadlines pass, an ended
context ends the wait of `Abort`, and the client reads the response it is sent), and so
does the shutdown. Nothing is assumed of the database, of new requests or of signals,
so that `ShutdownEnds` has a condition where the database alone decides. `MockServer`:
none, its properties are about safety. `ConnPool`: goroutines go on, destructors have a
timeout, a call whose context is done gives back what it holds (`ConnComesBack` of
`ReadOnlyTx`), and a constructor ends once `Close` has cancelled the pool's base context.
Of a silent server nothing is assumed: a constructor need not end while the pool is open,
since `AfterConnect` (`manager.go:102-110`) runs without a deadline there, nor a call whose
context is live. `Silent` says which resources the server holds on to so, and
`QueueMoves` and `CloseEnds` except just these. Whoever wants the mutex gets it in the
end: strong fairness, for the health check may take it again and again; Go's `sync.Mutex`
hands over to a waiter that has starved for a millisecond.

### Divergences found

`handleDescribeTable` promises (comment at `tools.go:218-219`) that a section that
fails leaves a `<section>_error` key, so that "no data" and "query failed" differ.
`ListPartitions` (`meta.go:253`) returns `nil, nil` when the probe said no, also
when it said no because it failed or the context had ended; a partitioned table
is then described without `partitions` and without `partitions_error`. Run
`DescribeTableTold` shows it; `PartitionsExplained` states what does hold.

`uEscapePrefixAt` (`guard.go:359-370`) is to tell whether a quote is next to the
prefix `U&`. It looks at the character two before the quote only; for a double quote
nobody looks at the one between. `SELECT u."Name" FROM users u` is refused as using
`U&"..."`. Run `GuardPrefix` shows it. A reading of the grammar that makes the same
test keeps the other properties apart from it.

`AcquireAllIdle` of puddle (vendored, `pool.go:581-584`) argues that it never has
more tokens than idle resources, since no `Release` can run while the mutex is
locked. A waiter whose context ends just when it is given a token puts it back
without the mutex (`semaphore.go:86-88`), while `acquireSemAll` is between two of
its attempts. With two idle connections, two such waiters let it end with three
tokens; popping the third resource is a nil pointer in the health check's
goroutine. Run `ConnPoolIdle` shows the steps. It takes three connections (the
default of `pool_max_conns` is four) and a coincidence of microseconds.

### Behaviour worth knowing

These contradict no run (the properties state what does hold, and where), but a reader
of the code may expect otherwise.

- *sslmode.* The comment of `ensureSSLMode` (`config.go:315-316`) says the result has an
  sslmode in every case. `splitKVFields` and the driver read some texts differently, and
  `DsnAsMeant` is about those on which they agree (`Clear`: keys are words, quotes stand
  only around values, no value outside quotes has a blank, and the first field does not
  look like a URL). `sslmode = require`, with
  blanks, is not seen, and a `sslmode=disable` is appended, which counts as the last;
  so it is for `password=it's sslmode=require` and for a string whose first field
  contains `://`. A trailing `password=` or a trailing backslash swallows what is
  appended, and after `password='a\'b sslmode=x'` nothing is. A vertical tab or a form feed
  ends a value for the driver (`gaussdbconn/config.go:524`) but no field for `splitKVFields`
  (`config.go:282`), so that an sslmode behind one is not seen either; nor does
  `isURLFormDSN` (267) count it as white space. The model has one kind of white space, that
  which both know.
- *URLs.* Of a key that comes twice the driver takes the first value in a URL and the last
  in the other form. A URL that has both `dbname` and `database` gets one of them, by the
  order of a Go map. A scheme other than `gaussdb://` is a URL to this program and
  keyword=value to the driver. An option such as `application_name='a b'`, which needs its
  quotes in keyword=value form, keeps them as part of the value when it is merged into a
  URL, also the URL made of split fields.
- *Silent server.* `AfterConnect` has no deadline: a server that accepts a connection and
  never answers keeps its slot until the pool is closed, even when the call that wanted it
  is gone. When all slots are held so, calls with a deadline fail at it, and those without
  one (`list_*`, `describe_table`) wait until their client cancels them (`QueueMoves`).
- *Last five seconds.* A `statement_timeout` within five seconds of the largest Duration
  makes the sum of `handleExecuteSelect` negative: each call of that instance ends at
  once (`LimitsAsMeant` excepts it; `TimeoutsKept` shows there is no other case).
  One above 2^31 - 1 ms is not rejected here; the server would refuse the `SET`.
- *After a signal* `server.Run` closes the connection: results computed afterwards are
  not written, the first response refused cancels the other requests, and further
  signals are ignored. `Run` returns when the last call does, which is not soon if only
  calls without a deadline are under way, the database is silent and the client keeps
  its end open; the comment at `main.go:92` says simply that it returns.
- *Times.* `NormalizeValue` leaves a time of a year above 9999 as it is, and
  `encoding/json` refuses the whole answer for it (`AnswerComes` ends in `unwritten`).
- *Test server.* After an error in a transaction, and after a `COMMIT` that a hook
  answers, it reports status `T` where a real server would report `E` or `I`
  (`mockgaussdb.go:371` calls it consistent with one); tests that need those use hooks.

## 4. What is proved

For every value of the constants that satisfies the module's assumption (which
only says that the calls with a deadline or a row limit are calls, and that the
null values differ from calls and connections).

`ReadOnlyTx_proofs`, for `Spec`:
`TypeCorrect`, `ConnectionsAccounted` (`Possession`), `RunsReadOnly`
(`OwnReadOnlyTx`), `PoolClean` (`IdleConnsClean`), `WholeDelivered`
(`DeliveredComplete`), `WholeNotLost` (`CollectedNotLost`), `Refinement`
(`ImplementsQueryService`).

The argument is one inductive invariant in layers, each a theorem that the next
one uses:
1. `TypeInv`: `TypeOK` and where a call may hold a connection (`HeldInv`).
2. `PoolInv`: a connection has one holder; a call at a statement has an acquired
   connection, and an acquired connection has such a call; a call in `connect`
   waits for a connection under construction. `Possession` follows. It is needed
   because a statement changes `sess[held[c]]`: only when nobody else holds that
   connection are the other calls' facts undisturbed.
3. `TxInv`: for each place in `queryReadOnly`, what is known of the session
   there (`Fits`): from `setro` on a live link has a transaction by this call or
   an aborted one, from `query` on it is open and read-only, at `release` a status
   byte `I` means that no transaction of a call is open; and that the driver's
   belief about a live link that is held equals the server's state (`Consistent`)
   except before the first ReadyForQuery. `OwnReadOnlyTx` and `IdleConnsClean`
   alone are not inductive: what makes `query` read-only is known at `verify`, and
   what makes the pool clean is known at `release`.
4. `ResultInv`: what `rows` and `err` may be at each place. `DeliveredComplete` and
   `CollectedNotLost` follow.
5. The refinement maps a call's SQL to `pending` / `running` / `over` by `rows` and
   `pc`, and its answer by what `Select` and `Query` make of `err` and `rows`. Each
   step of a call is one step of `QueryService` or a stutter, by `ResultInv`.

`DirtRepaired`, in the same module: if nothing fails but the sessions (`~Faulty`), every
call that ends returns its rows (`DirtSurvived`). The layer `UpInv` on `TxInv` says that
every link is up, every context live and no call holds an error or is in `cleanup`:
only the `BEGIN` whose error leads to a `ROLLBACK` and a second `BEGIN` can be refused,
and from `setro` on `TxInv` has the session in an open transaction. It is stated of any
number of calls, and proved only, not run.

`PartitionProbe_proofs`, for `Spec`: `TypeCorrect`, `ProbesOnce` (`SingleFlight`),
`CacheCorrect` (`CachedTruth`), `AnswersCorrect` (`AnswerExplained`), `CacheStable`
(`CachedForGood`). The invariant adds to these: a probe in flight has exactly one
leader, nobody waits or probes once the mode is resolved, an unresolved mode is
false, and a woken caller whose probe did not fail finds the mode resolved.

`DescribeTable_proofs`, for `Spec`, any limit above zero (`LimitPositive`), any number of
calls and any database: `UsesProbe`, `TypeCorrect`, `CatalogsExist` (`AsksWhatExists`),
`KindsExplained` (`KindExplained`), `AbsenceExplained` (`PartitionsExplained`),
`ListingsTrue` (`ListingTold`). First every step of a handler is shown to be a step of
the probe or to leave it alone, so that `Spec` implies `PartitionProbe`'s and its
invariant carries over without being proved again. On top of it the invariant of a
call says, for each stage, what the probe knows of the call there (a call in a query
of openGauss has the answer `yes`, so the server supports it), and what may be in
`kind`, `partitions` and `listing`: why a kind is wrong, why a key is missing, and how
many relations there were when the rows were read. That last part is needed because the
count runs in another transaction and the table may be dropped in between.

`PoolUsed` (`UsesPool`), at the end of `ReadOnlyTx_proofs`. The lemmas say
what a step of a call and a step of a connection is to the pool: a call that holds
nothing, one that keeps what it holds, one that gets, one that gives back, a
connection that appears, retires or goes. Every action is one of these, by
`TypeInv` and `PoolInv`: a call is handed a new connection only while it is
waiting for it.

`Lifecycle_proofs`, for `Spec`, any set of files (lists and numbers where the decoder gives
lists and numbers, split fields without any of a string, and no connection string without a
field: `FilesAssumption`) and any
requests: `TypeCorrect`, `NamesResolve` (`AdvertisedResolves`), `PoolsOutliveCalls`
(`ClosesLast`), `NoPoolLeft` (`NothingLeft`), `DsnMeant` (`DsnAsMeant`), `LimitsMeant`
(`LimitsAsMeant`).
The invariant is in four parts: the types; `MgrInv`, that `names`, `insts` and `pools`
are three views of the same list; `FileInv`, that the pools made are those of the first
instances of a file that loads, so that names differ and the default is among them;
`OrderInv`, that there are requests only while `Run` runs, and that pools are open until
then and closed at the exit. `ClosesLast` is not inductive: that `Run` returns only when
idle gives it, and that idle stays so afterwards. `TimeoutsKept` is about operators of
`Config`: for every width and unit (`WidthAssumption`) the timeout sent to the server is
at least a millisecond and the configured one rounded down, and the deadline of the call
is five seconds later unless that overflows.

`DsnMeant` needs no more of the process than `FileInv`, that the configuration is the one
the file loads as. What it takes is in the operators of `Dsn`, in four steps:
1. What is written. A text that `BuildDSN` writes consists of fields; `Laid` says where
   each begins, what stands where in it, and that one blank separates two. `Joins` keeps
   that when it makes a text longer (`JoinsLays`, `JoinedLays`), and so does the appended
   sslmode, which is a field like any other (`SSLModeJoins`).
2. What `DSNHasParam` finds. It knows a quoted blank from one between fields by the parity
   of the quotes before it. The number of quotes before a field is even, since a clear one
   has none or two (`EvenQuotes`); so a field starts for it where one does and nowhere else
   (`FieldStartsFound`), and it finds a key if and only if a field has it (`HasParamFound`).
3. What the driver reads. Each turn looks ahead for `=`, for what is not blank, and for a
   quote or a blank that is not escaped; from the beginning of a field these stand where
   its text has them, so that a turn takes exactly that field (`OneTurn`). The loop is
   then followed from the last field back to the first (`ParsedFields`), by the least
   number of fields for which it would fail.
4. What that means. The fields are those of the connection string, the sslmode if it has
   none, and the options; of a key that occurs more than once the last one wins, and this
   is what `Meant` says in terms of maps (`OrderedMeaning`). In the URL form the maps
   suffice (`QueryConnects`): what the driver takes of two queries laid over each other is
   what it takes of each (`ParsedOver`), the first of a key of the string (`FirstRead`) and
   the one value of an option or of the sslmode (`OptionsRead`, `ModeRead`).
`LimitsMeant` needs the same for the key `connect_timeout`, which may come from the
connection string; its numbers are those of `TimeoutsKept`, and that a duration that
`UnmarshalYAML` lets through is the one that was written (`DurationIs`) and a pool size that
`validate` lets through fits an int32 (`ToInt32Is`).

`ConnPool_proofs`, for `Spec`, any number of callers and any finite, non-empty set of
connections (`PoolAssumption`): `TypeCorrect`, `EveryToken` (`TokensAccounted`),
`RoomForAToken` (`RoomForNew`), `EveryWaiterInLine` (`WaitersInLine`), `PoolImplemented`
(`ImplementsPool`). The inductive invariant has six parts:
1. `TypeInv`, the types without the bounds that only counting gives.
2. `QueueInv`: the queue of the semaphore holds exactly the calls that are `queued`,
   each once. Without it a cancelled waiter could be removed twice, or never.
3. `CheckInv`: what the health check has in hand at each of its steps.
4. `CountInv`: free tokens, calls with a token, the tokens of `acquireSemAll` and the
   resources that keep one add up to the size of the pool, and the wait group counts the
   resources whose destructor has not run. Tokens move without the mutex, so that this is
   the only thing true of them at every step.
5. `HoldInv`: a call that holds a connection holds an acquired one that nobody else
   holds, and that the health check has not; a call that waits for one waits for one under
   construction.
6. `PhaseInv`: what `Close` has done: nothing idle after it began, nothing in the wait
   group when it returned.
No part is inductive alone: a release puts back a token (4) only of a connection that is
acquired (5), and a waiter is granted one only if it is in line (2). The count changes by
one when one call or one resource moves; the lemmas on `Follows` say so once for every
predicate on places and states. `RoomForNew` follows by counting: a call with a token
leaves at most `MaxSize - 1` resources that keep one, so that one is idle or there is none.
For the refinement, `PoolSpec` sees of a call whether it asks or holds and of a connection
whether it is lent, in the pool, or gone; the sections of `AcquireAllIdle` and the handing
over of tokens are stutters, and a waiter that gives up on a connection under construction
leaves it to the pool (`LetGo`). `PoolSpec` is thus what `ReadOnlyTx` is proved to rely on
and what the pool is proved to give.

`ResultSet_proofs`, for `Spec`, any lists of columns, settings and values
(`ResultAssumption`): `TypesCorrect`, `LimitHolds` (`LimitRespected`), `TruncatedTrue`
(`TruncatedIff`), `KeysUnique` (`UniqueKeys`), `SearchEnds` (`SearchShort`). The rows need
that `truncated` is set only at the limit with a row to come (`RowInv`). The names need
`KeyInv`: what was tried is exactly what was given out (`SeenInv`), so that a name found
unused is new; and a bound on the tries of a name (`TimesInv`). A name with a number at
its end is tried when the times of some other name reach that number, which happens once
for each name, or because a column has it; there are as many names as columns done, so
that no count, and no number that is put after a name, exceeds twice the columns. The
number about to be tried is already among those counted: that is the half of `TimesInv`
about `number`, without which it is not inductive. `SearchShort` is what remains to be said
of the search without liveness: each turn raises a count, and the counts are bounded.

`Guard_proofs`, for `Spec`, texts of any length over any characters, any key words and any
blocked functions (`GuardAssumption`: the letters are none of the marks the guard knows;
the name `At` has for the end of a text is no character): `LexerKnows`, `TypesCorrect`,
`AlwaysInStep` (`InStep`), `TokensAreThoseOfTheText` (`TokensOfCode`), `GivesUpForCause`
(`StopsForCause`), `OnlyWordsOfCodeDecide` (`KeywordsOfCode`). tokenize jumps; the grammar
(`Regions`) says character by character which region each belongs to. What has to be proved
is that every jump ends where the region does, and `InStep` says only the half of it. The
invariant `LexedTo` relates the two before each turn:
1. `Sync`: the region of the character before `i` is over, and that of character `i`, if
   there is one, begins there. It is stronger than `InStep`: a region that begins at `i` is
   no use if the one before was left open.
2. `FromBelow`, `Parted`, `Stops`: no region before `i` begins elsewhere than before
   itself, `after` says whether the code before `i` has a semicolon, and there is no reason
   to stop before `i`.
3. `TokensTo`: the tokens are in order and are, kind by kind, the regions before `i`.
For each kind of region a lemma (`StringToken`, `BlockToken`, `DollarToken`, ...) says that
where the jump ends one region ends (`Token`), or that the text ends in it (`LeftOpen`).
`QuoteEnd` and `CommentEnd` are recursive functions on positions; what they find is shown by
taking the least position at which it would fail (`Least`, from the well-foundedness of `<`
on numbers), with the half-read region (`Inside`) as the induction's hypothesis. The rest is
how a region read adds to what was known (`Skipped`, `Emitted`). At the end of the text
`TokensTo` is `TokensOfCode`; the two about causes and key words follow from it without
another invariant.

`MockServer_proofs`, for `Spec`, any queries and any sequence of values (`TestGiven`: the
meaningless queries are not the commands, and the test gave at least one value):
`ShowsInOrder` (`ShowInOrder`), `AnswersAreBound` (`AnswersBound`), `TypesCorrect`. Neither
property is inductive: they look at the end of a round, and what makes them true happens at
its first message. The invariant (`Kept`) has a part for each of the pieces that have to
agree. `WireInv`: at each place of a round, by the messages still to come, which kinds of
replies are there already, that all of them are about the result the server holds, and
that nothing is muted when a round begins. `CacheInv`: a statement the driver will run
without Parse has no result left over from an earlier Parse, or the server would not compute
it at Bind; this is what clearing `pending` after an error is for, and what not clearing it at
Sync must leave. `ResInv`: once the first message is taken the result is that of the
query (`Computed`). `CountInv`: the values taken are the queries asked, but for one that
has not taken its own or that the hook answered. Each action has a lemma; those of the
server fall in two groups, the three that can compute a result (`ComputesIt`) and the four
that go on with it (`GoesOn`). The statements to be closed are sent in an order the driver
does not fix (`SetInSeq`), and of the replies of a kind the driver takes the last (`SaidRes`).

Proved and not run as well: `TypeCorrect` and `CacheStable` of `PartitionProbe`, `RoomForNew`,
`WaitersInLine`, `SearchShort`, and `TypesCorrect` of `Guard`.

Only model-checked: liveness (`DeadlineReturns`, `ConnComesBack`, `WaitEnds`,
`DescribeEnds`, `AnswerComes`, `Decides`, `QueueMoves`, `CloseEnds`, `ShutdownEnds`),
which this prover does not do; and what recursion over data computes, which would need an
induction theorem with an operator as its parameter: the values of `ResultSet`
(`NormalizeValue`, what JSON can encode) and the names of `FullName`. Recursion on
positions of a text is not out of reach (`Guard`, `Dsn`), since `<` on numbers is
well-founded. Every invariant of the passing runs is proved.

## 5. Not modelled

TLS, authentication and the decoding of values (vendored driver); the MCP session's
initialisation, its schemas and the encoding of messages (vendored SDK); a client that
stops reading standard output, and SIGPIPE; the SQL texts of the catalog queries; the
grammar of YAML; logging; the pool's statistics and the operations of it that the program
does not call; the eviction of the least recently used statement from the driver's
cache. Of the test server: the placeholders it counts and the parameters it keeps for a test to look at. The
tables of the guard (which words, which functions) are constants: the model says where a
word begins and ends and what is done with it, not which words are on the list. The seed
script is a fixed list of statements that stops at its first error; it has no behaviour
of its own to model.

## 6. Plan

Done: A `QueryService`, `ReadOnlyTx` (checked, proved); B `PartitionProbe` (checked,
proved), `DescribeTable` with `list_tables` (checked, proved); C `ResultSet` with values
(checked, its rows and names proved); D `PoolSpec` and `ConnPool` (checked, proved, and
that `ReadOnlyTx` uses the pool so); E `Guard` (checked, proved); F `Dsn`, `Config`,
`Lifecycle` (checked, proved); `MockServer` (checked, proved).

Left: nothing of the plan. Of what section 5 leaves out, the eviction from the driver's
statement cache is the part most worth a model of its own.
