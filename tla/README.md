# A TLA+ model of the gRPC mini project

The repository is a small game server in Go: accounts, a word game with a live
leaderboard, a chat room, and a log-ingestion pipeline that batches entries
into Postgres. This directory models the parts whose correctness depends on
the order in which goroutines, databases and clients act. TLC checks the
models on small instances, and TLAPS proves the most important results for
every value of the constants.

## 1. The system

### Components

| component | source (under `src/`) | state | operations |
|---|---|---|---|
| LogIngestor | `internal/service/log_ingest.go` | channels `ingest`, `batches`, `stopping`; the dispatcher's slice; counters `accepted`, `written`, `batchCnt`, `retries` | `Submit`, `Stop`, `Start`, `Stats`; goroutines `dispatch`, `work` |
| Log repository | `internal/adapter/postgres/log_repository.go` | table `logs` | `BulkInsert` (one statement, or several in a transaction) |
| Ingest handler | `internal/transport/grpc/log_handler.go` | per stream: username, count | `Recv` → `Authenticate` → `Submit`, summary at EOF |
| Game service | `internal/service/game.go`, `internal/domain/game.go` | none of its own | `Play`: `AddPoints`, `SetPoints`, `Notify` |
| User repository | `internal/adapter/postgres/user_repository.go` | table `users` | `Create`, `FindByUsername`, `AddPoints`, `ListAll` |
| Leaderboard | `internal/service/leaderboard.go`, `internal/adapter/redis/leaderboard_repository.go`, `internal/adapter/memory/leaderboard_notifier.go` | sorted set in Redis; map of signal channels | `Top`, `WarmCache`, `SetPoints`, `Subscribe`, `Notify` |
| Leaderboard stream | `internal/transport/grpc/game_handler.go` 106-146 | what the client was sent | subscribe, send, wait for a signal |
| Chat | `internal/adapter/memory/chat_broadcaster.go`, `game_handler.go` 72-104 | map of message channels under a mutex; two goroutines per stream | `Subscribe`, `Publish`, unsubscribe |
| Auth and sessions | `internal/service/auth.go`, `internal/adapter/redis/session_repository.go` | session keys with a TTL | `Register`, `Login`, `Authenticate`, `Logout` |
| Hashing, tokens | `internal/adapter/security/` | none | bcrypt, random bytes |
| Server | `cmd/server/main.go`, `internal/config/config.go` | the wiring | start-up, signal, `GracefulStop`, `Stop` |
| Interactive client | `internal/client/client.go` | mode, board on/off, its `stopBoard`, one chat stream | a prompt; unary calls with deadlines; `watchBoard` goroutines |
| Load generator | `internal/logload/logload.go` | a counter, one Ingest stream | `login`, `Run`: `Send` until its time is up, `CloseAndRecv` |
| Status translation | `internal/transport/grpc/errors.go` | none | `toStatusError` |
| Schema | `db/dbcode.sql` | the tables | - |
| Greeter, generated code | `internal/transport/grpc/greeter_handler.go`, `internal/pb/` | none | - |

### How they interact

* `main` starts the pipeline, warms the leaderboard cache, and only then
  serves. At a signal it calls `GracefulStop` (no deadline), then
  `LogIngestor.Stop` with a deadline of 30 s, then cancels the context that
  aborts the pipeline and closes the databases.
* Every Ingest stream calls `Submit` in its own goroutine. `Submit` blocks
  when `ingest` is full; that blocks the stream and, through gRPC's flow
  control, the client.
* Every turn of `Play` writes Postgres, then Redis, then signals the watchers,
  with nothing held in between. Watchers read Redis only.
* Every Chat stream reads from its client in one goroutine and writes to it in
  another; the broadcaster joins them.
* `Register` and `Login` are statements against Postgres and Redis under the
  deadline of their client. A statement that was sent when the deadline passed
  may still be executed. Every other RPC carries the token, and its handler
  looks the name up in Redis once: `Play` for the turn, `Chat` and `Ingest`
  for the whole stream.
* The load generator and the handler of its stream are joined by gRPC's flow
  control: `Send` blocks when the handler, blocked in `Submit`, stops reading.

### What is hard, and what makes each part correct

* **LogIngestor**: `select` takes any ready case, so a stop, an abort, a tick
  and an entry may win in any order; two bounded channels block in both
  directions; inserts are repeated after errors that may hide a success. It is
  correct if no entry `Submit` took is dropped without a hard abort, a clean
  `Stop` has written everything handed over before it, nothing is stored that
  was refused, copies of a row come from lost acknowledgements only, memory is
  bounded, shutdown ends, and nothing touches the table after a clean stop.
* **Game and leaderboard**: two stores without a transaction, concurrent turns
  of one user, lost answers, statements that are executed after their call
  was given up, a crash between two writes, a signal while the watcher is
  reading. It is correct if the cache strays only after a failure, an overlap
  or a late statement, and is repaired, and if no watcher waits on an old
  board that nobody will signal, but for what a late ZADD has written.
* **Chat**: sends under a lock to clients that may not read, channels closed
  by their reader's side, a sender goroutine nobody owns. It is correct if no
  send meets a closed channel, all clients hear one order, only slow clients
  lose messages, nobody waits for a slow client, and sender goroutines end.
* **Server**: three things must end in order, streams, pipeline, process, each
  waiting for the one before, while a client or Postgres may stay silent. It
  is correct if an orderly end loses nothing and turns no stream away, if the
  number a client is told is the number that was taken, and if a signal ends
  the process unless a client holds a stream open.
* **Sessions**: two stores, calls that are given up while their statement is
  on its way, clients that want the same name, sessions that end while a
  stream goes on under them. They are correct if a session belongs to an
  account whose password its opener gave, if an account has one creator, and
  if nobody ever acts under the name of another.
* **Clients**: deadlines that pass while an answer is on its way, a prompt
  that must come back, goroutines that outlive the switch that started them.
  They are correct if the points of an account are those its players were told
  of (but for turns without an answer), if a board that is left off goes away, if
  the prompt comes back while databases stall, if the load generator can be run
  again and again, and if the summary it ends with is true.

`PROJECT.json` lists each hazard with its line and the properties that cover
it; hazards not covered yet have a note.

## 2. Modules

### LogIngestor (the core)

One action per step another goroutine can observe. Entries are model values,
one call of `Submit` each.

| variables | code |
|---|---|
| `call[e]` | the two selects of `Submit(e)`: `new`, `selecting` (past the first select), `sent` (the channel has it), `ok` (counted, nil returned), `stopped`, `cancelled` |
| `ingest`, `batches` | the channels; `batches` is closed iff `dpc = "exited"` |
| `dpc`, `batch` | `dispatch`: `select` is the main loop, `drain` the loop of `finish`, `flush`, `drainFlush`, `lastFlush` the wait for room in `batches` from the three places that call `flush` |
| `wpc[w]`, `held[w]` | `work` and `writeWithRetry`: `insert` while `BulkInsert` runs, `landed` when its rows are committed and the answer is not there yet, `backoff` between attempts |
| `rows[e]`, `written` | copies of `e` in the table; the counter |
| `stopping`, `hardDone`, `stop` | the closed channel, the cancelled context, the caller of `Stop` |
| `already`, `ackLosses` | history: what had been handed over when `Stop` began; how many acknowledgements were lost |

`AckLost` and `InsertFails` are the failures of Postgres: rows committed but
the error reported, or nothing committed. A batch lands whole: `BulkInsert` is
one statement or one transaction. `StopDeadline` lets the caller give up and
come back; `HardAbort` may happen at any time.

`BulkInsert` cuts a batch into statements that keep to the limit on
placeholders: `MaxRows`, `Statements(n)` and `Statement(n, k)` are its
arithmetic, and `InsertedBy` is what the transaction does to the table, row by
row. `MaxPlaceholders` is a constant, so that a small instance needs more than
one statement.

Left out: `batchCnt` and `retries` (only displayed), log lines, the length of
the backoff (any finite delay), the flush window (the ticker may fire at any
moment), and the text of the statements. `Start` comes first, as in `main`.

### LogDelivery

What the pipeline promises, without queues or goroutines: an entry is taken,
stored some time later, never lost unless the pipeline was aborted, and a
finished stop has stored what was due. `LogIngestor!Delivery` is the
refinement mapping: `stored` is the set of entries with at least one row, and
so on. It is deliberately silent about duplicates.

### IngestServer

Composes `LogIngestor` (by `EXTENDS`) with its callers: the handlers that call
`Submit` and `main`, which calls `Start`, `Stop` and the abort. Every step of
the pipeline is a step of the server, joined with what its caller does;
`SubmitReturns`, for instance, is the end of `Submit` and `accepted++`.

| variables | code |
|---|---|
| `main` | `starting` before `Start`; `serving`; `graceful` inside `GracefulStop`; `draining` inside `Stop`; `returned` before the deferred calls; `gone` |
| `conn[s]`, `known[s]` | the handler of a stream: in `Recv`, in `Authenticate`, in `Submit`, answered with a summary, or ended with an error; the name is resolved |
| `left[s]` | what the client has not got accepted yet, the entry in the handler's hands first |
| `accepted[s]` | the handler's counter, which the summary reports |
| `others` | Chat, Leaderboard and short RPCs under way on the same server (`main.go:103-105`) |

`GracefulStop` takes no new RPC and returns when all have ended, the `others`
included, of which only their beginning and their end is here. A client
may send the next entry, close, break, or let its context end; a token may
fail to resolve. `Killed` is the end at any moment, by a signal that cannot
be caught or by `log.Fatalf`. Left out: the rest of the summary, and the time
between the signal and a `Serve` that has not begun.

### LogLoad

Puts a load generator at the other end of every Ingest stream (by `EXTENDS` of
`IngestServer`): the handler receives what was sent, in order, and `io.EOF`
after the last entry, so the freedom that `IngestServer` gives a client is
gone.

| variables | code |
|---|---|
| `client[s]` | `Run`: `ticking` between two sends (it looks at its clock), `sending` in `Send`, `closing` in `CloseAndRecv`, `done` with a summary, `fatal` in `log.Fatalf` |
| `sent[s]` | its counter |

`Window` is gRPC's flow control: how many entries may be on the wire, beyond
the one in the handler's hands. `Cut` says when `Send` or `CloseAndRecv` meets
an error: the handler has returned, nobody takes the stream, or the server is
gone. Left out: the ticker's rate, the reports, and the fields of an entry.

### ScoreBoard

| variables | code |
|---|---|
| `points`, `cache` | `users.points`; the sorted set (`Absent`: no member) |
| `server`, `list`, `crashes` | `warming` between the two steps of `WarmCache`, with what each start's `ListAll` returned; `up` once it has written the cache |
| `tpc[t]`, `total[t]` | `Play`: `scored` after `AddPoints`, `mirrored` after `SetPoints` succeeded or failed, `done` after `Notify`; `failed` |
| `wpc[w]`, `board[w]`, `pending` | the stream: `reading`, `sending`, `waiting`; the board it read; the channels (capacity 1) that hold a signal |
| `lateScores`, `lateSets`, `lateLists` | statements nobody waits for any more: UPDATEs of turns, ZADDs of turns, ZADDs of a warm-up |
| `alone`, `strayed`, `silent[w]` | history: a turn no other score of the player has overtaken; a player whose cache entry may be wrong; the players that late ZADDs have written since `w` read |

A call that fails says nothing about its statement. `AddPointsFails` is an
UPDATE whose call ended, at the client's deadline or with its connection: it
is executed at any later moment (`LateScore`), perhaps after another turn of
the user has written the cache, or never. `SetPoints` and `SetPointsFails` are
a ZADD that is executed when its turn sends it, or is not; either may leave
another execution behind (`LateSet`), because the call was given up, or
because go-redis, whose retries `main.go:55` leaves on, sent it twice.
`LateSet` writes its turn's total over whatever is there, and no signal
follows. `SetMany` and `StartFails` do the same for the warm-up (`LateList`).
Late statements outlive the process that sent them, so `LateScore` may come
between `ListUsers` and `SetMany` of the next start. `Crash` ends turns and
streams, may make a ZADD under way late, and may lose the Redis data.

The order and length of a board, the scoring of words and registration are
left out. One process runs at a time, and Redis keeps its data while a server
is up.

### ChatHub

`hpc[s]` and `sender[s]` are the two goroutines of a stream, `subs`, `ch`,
`todo` the hub. The mutex is not a variable: only `Publish` keeps it for more
than one step, so it is free iff no handler is `publishing`. `Publish` visits
the subscribers in any order (a Go map), each visit a step, with the senders
running in between. `published`, `joined`, `got`, `overflowed` are history.
Messages are different model values, so an order or a duplicate is visible.
Identity is resolved with the first message, and again with the next one as
long as it fails; once known it is kept (`Remembers`).

### ChatRoom

What the chat promises, without locks, channels or goroutines: one
conversation (`log`), of which every member is given each message from when it
came in, in its order, or was too `slow` for it. `ChatHub!OneRoom` is the
refinement mapping: a message is said when its `Publish` takes the lock, `due`
to the subscribers that the `Publish` has yet to visit (`todo`), and heard when
it is in a member's channel.

### Sessions

`AuthService` with the table `users` and the session keys, one action per
statement, as the RPCs `Register` and `Login` run them.

| variables | code |
|---|---|
| `who[c]`, `secret[c]` | the name and the password a program was given |
| `users`, `sessions` | `users.password` by name (the hash goes by the password it was made of); the value of `session:<token>` |
| `rpc[c]` | the statement the handler of `c` waits for: `create`, `find`, `save` |
| `token[c]`, `reply[c]` | the token, made by `NewToken` or known to the client; the status of the last call, through `toStatusError` (`StatusOf`) |
| `lateCreate`, `lateSave` | statements whose caller has given up and that the database may still execute |
| `created` | history: who was told that the account is theirs |

`CallFails` ends a call at any statement, by an error or a deadline.
`SessionEnds` is the TTL or a `Logout` (which no RPC offers; `auth_test.go`
calls it). A program logs in once, so a token goes by its client.

### Clients

Composes `Sessions` (by `EXTENDS`) with the programs that call it: `client.go`
(a `Player`), whose user answers two questions and then types lines at a
prompt, and the login of `logload.go` (a `Loader`). A step of a program's call
is a step of `Sessions`, joined with what the program makes of its status.

| variables | code |
|---|---|
| `pc[c]` | where the program stands; `playing` and `sending` are the two places where the prompt waits |
| `mode`, `boardOn` | `state` and `boardOn` of `Run` |
| `boards`, `leaving` | how many `watchBoard` goroutines run that nobody told to stop, and how many whose context is cancelled |
| `word`, `turns`, `turn`, `actor` | the turn under way: its word, and the handler of `Play` with the name it resolved |
| `points`, `lateScore` | `users.points`; the UPDATEs of turns that were given up |
| `wire`, `stream`, `known` | the chat messages on the wire, the handler of `Chat` with the name it resolved |
| `acked`, `unsure` | history: the points players were told of; the size of the turns without an answer |

`stopBoard` cancels the context of the last `watchBoard` and does not wait:
the goroutine ends some time later (`BoardEnds`), perhaps after it has printed
a board it already had, and the user may have started the next one by then.
The ten seconds of the loader's two calls are one context: when they are over
in `Register`, the program is `expired` and its `Login` fails unsent.

The cache and the signals behind `Play` are in `ScoreBoard`, the room behind
`Chat` in `ChatHub`. Left out: what is displayed, and with it the goroutine
that displays the chat. A user may type any line, or none.

### MC modules and proof modules

`MCLogIngestor`, `MCIngestServer`, `MCLogLoad`, `MCScoreBoard`, `MCChatHub`,
`MCClients` hold what TLC needs to know beyond the specification (symmetry,
constant functions, restricted environments). `LogIngestorProofs`,
`LogIngestorOnceProofs`, `IngestServerProofs`, `LogLoadProofs`,
`ScoreBoardProofs`, `ChatHubProofs`, `SessionsProofs` and `ClientsProofs` hold
the proofs. They extend each other as their modules do: `LogLoadProofs` builds
on `IngestServerProofs`, and `ClientsProofs` on `SessionsProofs`.

## 3. What the runs check

| run | module / cfg | checks | bounds |
|---|---|---|---|
| `pipeline` | MCLogIngestor | `TypeOK`, `NoSilentLoss`, `CleanStopDrains`, `RefusedNeverStored`, `DuplicatesOnlyByLostAcks`, `OneStatementPerRow`, `WrittenCountsRows`, `QuietAfterCleanStop`, `ImplementsDelivery` | 3 entries, 2 workers, batches of 2, queue of 2, 2 lost acknowledgements, 1 row per statement |
| `liveness` | MCLogIngestor / LogIngestorLive | `TakenIsStored`, `ShutdownEnds` | 2 entries, 2 workers, batches of 2 |
| `outage` | MCLogLoad / Outage | `LoadTypeOK`, `MemoryBounded`, `DoneMeansKept`, `BlockedSubmitResumes`, `LoadEnds` | 1 generator with up to 8 entries, 1 worker, everything of size 1, 1 other RPC; a signal or a kill at any moment |
| `stop_race` | MCLogIngestor / CleanStopLosesNothing | violated | 1 worker |
| `retry_duplicates` | MCLogIngestor / RetryNeverDuplicates | violated | 1 lost acknowledgement |
| `queued_negative` | MCLogIngestor / QueuedNotNegative | violated | 1 worker |
| `ingest_server` | MCIngestServer | `ServerTypeOK`, `GracefulStopLosesNothing`, `NobodyRefused`, `AcceptedIsKept`, `SignalEnds` | 2 streams with 2 and 1 entries, 1 other RPC, 1 worker, batches of 2 |
| `grace_unbounded` | MCIngestServer / GraceBoundsShutdown | violated | 1 stream with 6 entries, no other RPC, everything of size 1, no insert ever lands |
| `score_board` | MCScoreBoard | `TypeOK`, `CacheAgrees`, `NoLostWakeup`, `BoardsCatchUp` | 2 turns of one player, another player, 2 streams, 1 crash, 1 late statement at a time |
| `cache_race` | MCScoreBoard / CacheAgreesWhenQuiet | violated | 2 turns of one player, 1 of another, 1 stream; no failure, no late statement, no crash |
| `chat` | MCChatHub | `TypeOK`, `NoSendOnClosed`, `OneOrder`, `HeardFromThenOn`, `ImplementsRoom`, `SpeakerIsServed`, `SenderEnds` | 2 streams, 3 messages, capacity 1 |
| `clients` | MCClients | `ClientTypeOK`, `SessionsAreEarned`, `AccountIsTheCreators`, `NoImpersonation`, `TurnsCount`, `LoaderGetsIn`, `BoardGoesOff`, `PromptReturns` | 1 player, 1 load generator, 1 account, 2 passwords and the blank one, 2 turns, 2 boards at a time, a wire for 1 message, no way back from chat to game |

**Why the bounds are enough.** In `pipeline` three entries make a full batch
and a rest, so both ways to cut a batch meet both loops of the dispatcher; two
workers can hold a batch each while one retries; two losses let one batch land
three times, and two batches twice. Neither channel can be full for long with
three entries, so `outage` takes everything of size one and three entries more
than the pipeline can hold (1 + 1 + 2 + 1): the sixth blocks its handler in
`Submit`, the seventh fills the wire, and with the eighth the generator blocks
in `Send`. The signal and the kill may come at each of these moments, and the
Chat stream may keep `GracefulStop` waiting after them. In `ingest_server` a
stream of two entries is what it takes to fail after a success; a second
stream, and an RPC of another kind, are what `GracefulStop` may have to wait
for after the first has ended. In `score_board` two turns of one player are
what a race needs; a failed write followed by a good one, and a crash followed
by the warm-up, are what a repair needs; one late statement is executed after
an undisturbed turn, after a signal, or inside the warm-up. The second player
is there so that its score is not mistaken for the other's. More of all of
them is proved. In `chat` a capacity of one makes the second
unread message overflow; two listeners are what an order needs. In `pipeline` a batch of two takes two
statements of one row, so that a cut falls inside a batch; what holds for
every limit is proved. In `clients` two programs want one account, and the
player may have the generator's password or another one; two turns are what a
late UPDATE needs to meet another turn of the same player; two boards at a
time are what it takes for a cancelled one to overlap the next. The lines a
user types leave out `/game`: it is the action `ChangeMode`, which `/chat`
takes, and the theorems hold for every set of lines.

**Fairness.** `LogIngestor`: weak fairness on the dispatcher, the workers, the
ticker, and the end of a stop, because the Go scheduler runs what can run;
strong fairness on a blocked send, because Go serves the senders of a channel
in order; strong fairness on `InsertLands`, which says that an outage ends.
`IngestServer`: the same for the pipeline, plus `ServerFairness`: `main` goes
on when what it waits for has happened, the deadline of `Stop` included, and
handlers run; the outage ends (`OutageEnds`), and `grace_unbounded` shows what
happens if it does not. No client has to send, to close its stream or to leave
a Chat: the code enforces none of it, and `SignalEnds` says what follows.
Either the process ends, or it is at `GracefulStop` for ever and at every
moment some client could send, close or leave (`ClientHolds`). `StalledSpec`
of `grace_unbounded` has a client that goes on, so that it is not the client
who holds the shutdown. Nobody must send the signal or kill the process.
`ScoreBoard`: a turn that has scored goes on, and so does a stream (gRPC's
flow control is assumed to let a send finish, or the stream ends); a late
statement need never be executed. `ChatHub`:
weak fairness on the handlers, strong fairness on taking the mutex, which Go
hands to a waiter that has starved; **no** fairness on a sender while its
stream lives, because a client need not read. `LogLoad`: that of
`IngestServer`, where a generator now goes on of its own: its time passes
(`CloseSend`), what it sent arrives or the stream breaks, and it learns of
every end. `Clients`: the deadlines of unary calls pass (each is made with
`context.WithTimeout`), gRPC ends the `Recv` of a cancelled context, the
program goes on when it can, and the handler of `Chat` reads on, because its only call, to Redis,
is answered or fails within a timeout of go-redis' own (external, not in
`src/`). `PromptReturns` needs no fairness of Postgres, of `Play` or of the
user. Beyond this nothing is assumed of the
environment: nobody must submit, play, watch, speak, leave, stop or crash.

**Deadlock** is checked except in `grace_unbounded`, whose point is that
everybody may wait for ever. Where
everything may rest (`Finished`, `Quiet`, `AllGone`, `Gone`, `AllOver`) the
module says so with a stuttering step.

### Where the code and its comments disagree

* `stop_race`: a `Submit` that passed its first select before `Stop` may send
  after the dispatcher has drained the queue and exited. It returns nil, `Stop`
  returns nil, and the entry is never written; the comment of `Stop` promises
  everything accepted. `main` avoids it by ending the RPCs first. What `Stop`
  does keep is `CleanStopDrains`: all that was handed over before it.
* `retry_duplicates`: a commit whose acknowledgement is lost is repeated, so
  `log_repository.go:40-41` ("a retry cannot duplicate rows that already
  landed") holds only where the transaction failed. What holds is
  `DuplicatesOnlyByLostAcks`.
* `queued_negative`: `accepted` is incremented after the send, so
  `Stats().Queued` can be negative.
* `grace_unbounded`: `config.go:19-20` says that `ShutdownGrace` bounds the
  wait for buffered logs. Its clock starts after `GracefulStop`, and during an
  outage a stream that waits in `Submit` for room keeps `GracefulStop` from
  returning. What holds is `SignalEnds`, which assumes that the outage ends, and
  that no client holds a stream open.
* `cache_race`: without any failure, two overlapping turns of one user can
  reach Redis in the opposite order; the cache then keeps the older total
  until that user plays again or the server restarts. `game.go:48-50` admits
  staleness after a failure only.

## 4. What is proved

`ConfigAssumption` and `WorkerAssumption` (what `NewLogIngestor` makes of its
configuration) are the assumptions on `LogIngestor`; `TurnAssumption` (each
turn has a player and a delta) and `AbsentAssumption` (the mark of a missing
member is no number) those on `ScoreBoard`; `OffersAssumption` and `OnceAssumption` (what each
client has to send; every entry is one call of `Submit`) those on
`IngestServer`; `WindowAssumption` (flow control lets something through) that
on `LogLoad`; `ChatAssumption` (what each stream has to say, the size of the
channels) and another `OnceAssumption` (every message is one call of the
client's `Send`) those on `ChatHub`; `SessionsAssumption` (no row is no password, the
empty string is a name and a password one may type) and `ClientsAssumption`
(who is a player and who a loader, what they may be given and may type) those
on `Sessions` and `Clients`. Nothing else is assumed.

### LogIngestorProofs

| theorem | property |
|---|---|
| `TypeCorrect` | `TypeOK` |
| `NothingLostSilently` | `NoSilentLoss` |
| `RefusedIsNeverStored` | `RefusedNeverStored` |
| `CleanStopIsComplete` | `CleanStopDrains` |
| `QuietAfterStop` | `QuietAfterCleanStop` |
| `MemoryIsBounded` | `MemoryBounded` |
| `PipelineImplementsDelivery` | `ImplementsDelivery` |
| `BatchIsPartitioned` | `OneStatementPerRow` |
| `NobodyWaitsForNobody` | `PipelineGoesOn`, in the proof module: the safety half of what `liveness` and `outage` check |

The inductive invariant is `Inv`. `TypeInv` strengthens the types with the
length of the batches in flight. `ShutdownShape` ties the program counters to
each other: once the dispatcher has exited its slice is empty, a worker that
is done has found `batches` empty and closed, an idle worker holds nothing,
and a clean stop has seen all of them gone. `RefusedNeverStored` and
`NoSilentLoss` are inductive together with these. `LandedStored` adds that the
entries of a worker in `landed` already have their rows; without it the
acknowledgement would move entries out of memory that the invariant does not
know to be stored. `CleanStopDrains` then follows because everything that was
taken when `Stop` began is either stored or in a queue, and at a clean stop
the queues that `Stop` answers for are empty. `MemoryBounded` follows from the
capacities by counting (`FiniteSetTheorems`). The refinement is a step
simulation: every action maps to `Take`, `Store`, `Close`, `Abort`, `Finish`
or a stutter. `BatchIsPartitioned` is arithmetic: for a batch of any length and
any limit, every row is in exactly one statement, because the statements are
the intervals between multiples of `MaxRows`.

`PipelineGoesOn` says that the pipeline cannot wait for itself: while an entry
is in it, or `Stop` waits for its goroutines, the guard of some goroutine's
next step holds, and a `Submit` that finds the queue full is behind such an
entry. The argument follows the channels: if the dispatcher has no room in
`batches` there is a batch to take, and no worker has left before `batches` was
empty and closed (`WorkersDrained`), so one is idle or waits for the database.
That each of these steps is then taken is fairness, and stays with TLC.

### LogIngestorOnceProofs

| theorem | property |
|---|---|
| `NoDuplicatesOfItsOwn` | `DuplicatesOnlyByLostAcks` |
| `WrittenCounts` | `WrittenCountsRows` |

The invariant `Once` says that an entry is in one place of the pipeline only,
at one position, and that an entry with rows that is still in memory is in the
hands of a worker that has been told of a failure. `WrittenCountsRows` needs
more: `written` grows by the length of a slice, so no slice may hold an entry
twice (`SlicesDistinct`). Then an acknowledged batch adds its whole length to
the entries that are settled (`AckSettles`), and no other step settles any
(`OthersSettleNothing`), though retries add rows to the table all the time.

### IngestServerProofs

| theorem | property |
|---|---|
| `ServerRunsPipeline` | the server implements `LogIngestor!Spec` |
| `GracefulShutdownIsComplete` | `GracefulStopLosesNothing` |
| `NoStreamIsRefused` | `NobodyRefused` |
| `ServerImplementsDelivery` | `ImplementsDelivery` |
| `ServerTypes` | `ServerTypeOK` |
| `AcceptedEntriesAreKept` | `AcceptedIsKept` |

`ServerRunsPipeline` carries every theorem about the pipeline over to the
server, `PipelineImplementsDelivery` among them. `GracefulShutdownIsComplete`
and `NoStreamIsRefused` add to `Inv` what the order in `main` is worth: `Order`
(no stop before `main` is past `GracefulStop`) and `Closed` (once the pipeline
is stopping no handler is left, so what `Stop` answers for, `already`, is all
that will ever be taken). `CleanStopDrains` at the moment `Stop` returns then
speaks of all entries.

`HandlerInv`, for the last two, ties the handler to the calls of `Submit` it
makes: the entries of a stream that it has counted are those whose call
returned nil, the one in its hands is the call under way, and all later ones
are not called yet (`CallsInOrder`). It uses that every entry is one call of
one stream (`OnceAssumption`). `NoSilentLoss` and `RefusedNeverStored` then
say where those entries are.

### LogLoadProofs

| theorem | property |
|---|---|
| `LoadRunsServer` | load generators and server implement `IngestServer!ServerSpec` |
| `MemoryIsBoundedUnderLoad` | `MemoryBounded` |
| `LoadTypes` | `LoadTypeOK` |
| `DoneIsKept` | `DoneMeansKept` |

`LoadRunsServer` carries all that is proved of the server and its pipeline over
to a server under load. `LoadInv` adds `OnTheWire`: what a handler has in its
hands was sent, and a summary is made only when its client has closed and
everything it sent is accepted. With `AcceptedIsKept` that is `DoneMeansKept`.

### ScoreBoardProofs

`TypeCorrect`, `CacheIsRight` (`CacheAgrees`) and `NoWakeupIsLost`
(`NoLostWakeup`), with any number of statements late at a time. `CacheAgrees`
is not inductive: a turn writes the total it was given some time ago, and a
start writes the list it read some time ago. `AloneIsNewest` adds that a turn
which nobody has overtaken, in time or late, still carries the newest total
and is the only one of its player on the way to Redis; `ListIsNewest` adds
that the list of a start is Postgres's for every user whom no late UPDATE has
changed since; `DownIsIdle` that both steps of the warm-up run with no turn
and no stream under way. `NoLostChange` extends `NoLostWakeup` to a stream
that is still sending, which is where a change can slip in between the read
and the wait.

### ChatHubProofs

| theorem | property |
|---|---|
| `TypeCorrect` | `TypeOK`, with the capacity of every channel |
| `NeverOnClosed` | `NoSendOnClosed` |
| `HubImplementsRoom` | `ImplementsRoom` |
| `OneOrderForAll` | `OneOrder` |
| `OthersMissNothing` | `OnlyTheSlowMiss`, which no run checks: it is the sharper form of what `ImplementsRoom` says of `slow` |
| `HeardOnceHeard` | `HeardFromThenOn` |

`HubShape` is what the mutex is worth: the map holds exactly the streams
between `Subscribe` and unsubscribe, one `Publish` at most is under way, and
what is left of its walk (`todo`) is part of the map, so an unsubscribe, which
needs the lock, cannot close a channel on that walk. `Newest` adds that the
message of the `Publish` under way is the last of the conversation.

With these two every step of the hub is a step of the room: taking the lock
says, a send hears or misses, the rest stutters. The next two theorems then
argue about the five steps of the room only (`RoomSteps`) and not about
goroutines. `OneOrder` is inductive with `InLog`: whatever was heard was
published, and before the message that is still due. `GivenInv` says that a
subscriber that missed nothing has, in its channel and behind it, the
conversation from the place where it came in, but for the message that is due.

`HeardFromThenOn` is about speakers. `InboxInv` ties the inbox of a stream to
what its client says and the token to where the handler stands; `SpokenInv`
says that what was published came from a speaker who was known by then, and
that from the first published message of a speaker on, all those behind its
handler were published, in the order they were sent. It uses that a message is sent
once: with two equal messages nobody could tell an order.

### SessionsProofs

| theorem | property |
|---|---|
| `SessionsInvariant` | `SessionInv`, which contains `SessionTypeOK` |
| `EverySessionIsEarned` | `SessionsAreEarned` |
| `OneCreatorPerAccount` | `AccountIsTheCreators` |

`SessionsAreEarned` is not inductive: the key is set some time after the
password was verified, perhaps when nobody waits any more. `Verified` adds
that whoever is about to set a key, in time or late, owns the account.
`StepGrows` and `OwnersStay` show why that stays true: an account never changes
its password and a program never its name, so who owns a name owns it for
ever.

### ClientsProofs

| theorem | property |
|---|---|
| `ClientsRunSessions` | the programs implement `Sessions!Spec` |
| `ClientTypes` | `ClientTypeOK` |
| `NobodyIsImpersonated` | `NoImpersonation` |
| `BoardsAreInReach` | `OneBoard`, in the proof module: what still runs when a board is off has been cancelled |
| `LoadersGetIn` | `LoaderGetsIn` |
| `TurnsAreCounted` | `TurnsCount` |

`ClientsRunSessions` makes the theorems about sessions theorems about players
and load generators. `NoImpersonation` is inductive with `SessionInv`: a name
is resolved from a session, which is earned, and stays its owner's after the
session has ended (`OwnersAreKept`). `LoadersGetIn` is an action property: of
the steps that end a loader, only a Login that is refused, gets no answer or
has no time left are possible, and a refusal means that the account has
another password.

`TurnsCount` compares two counters that are changed by different steps of many
turns, so its invariant is a ledger. `LedgerInv` sorts the turns of an account
that are not settled: `Open` (the UPDATE is not executed), `Up` and `Down` (it
is, and the answer is not there), `Late` (nobody waits for it any more). The
points differ from the answers by what is `Up` or `Down`, and by what turns
without an answer have done (`Ahead`). That, and one for every turn of the four
sets, is never more than `unsure`. A step of a turn moves it from one set to
another and changes both sides alike (`StepBalances`, by the cardinalities of
finite sets), and turns of other accounts stay where they are
(`OtherAccounts`). That a turn scores for the account its player was given is
`NoImpersonation`, and that its row is there follows from `SessionInv`.

### Only model-checked

Liveness and everything that needs `ENABLED` is beyond the prover: the
liveness properties of all modules (`TakenIsStored`, `ShutdownEnds`,
`BlockedSubmitResumes`, `LoadEnds`, `SignalEnds`, `BoardsCatchUp`,
`SpeakerIsServed`, `SenderEnds`, `BoardGoesOff`, `PromptReturns`) stay with TLC. Every
invariant and every action property that a passing run checks is also a
theorem, and so are both refinements. The theorems are about the
specifications without fairness, so they hold with it as well.

## 5. What is not modelled

* bcrypt and `crypto/rand`: `Sessions` uses what it needs of them (a hash
  agrees with its password only, a token is never made twice, either may
  fail); they have no state and no order to check.
* The Greeter handler (never registered by `cmd/server`) and the generated
  code under `internal/pb`.
* Opening the databases, reading the environment, and the clamp of the
  configuration; a `Serve` that starts only after `GracefulStop`.
* What is only displayed: the numbers of `Stats` beyond `accepted`, `written`
  and their difference, the order and length of a board, the wording of
  messages, the rates of the load generator, the goroutine of the client that
  prints the chat.
* `reader.Scan` at the end of the input (`client.go:39`): its result is
  ignored, so the client plays the empty line for ever. A user that types the
  empty line for ever is in the model already.

`PROJECT.json` gives each component's status, and each hazard without a
property its reason.

## 6. Plan

Done, in this order: `LogIngestor` with `LogDelivery`, and its proofs;
`ScoreBoard` and its proofs; `ChatHub`; `IngestServer` and its first proofs;
`Sessions` and `Clients` with their proofs; the statements of `BulkInsert`;
`LogLoad`; the proofs of `ChatHub`, of the rest of `IngestServer`, and of
`LogLoad`; `ChatRoom`, that `ChatHub` implements it, and the order, loss and
speaker properties; the counter `written` and the ledger of the points; the
other RPCs that `GracefulStop` waits for, the statements of `ScoreBoard` that
are executed late, and boards that end some time after they are turned off.

1. An abstract leaderboard (the board a watcher ends up with) that
   `ScoreBoard` implements while no write is disturbed.
2. `IngestServer` with a `Serve` that starts after `GracefulStop`.
