# Verification of the RustyDB client and build-repair scripts

This directory holds TLA+ models of the Python code of the repository:

- `src/examples/websocket_client.py`, which spec.md describes as a client-side protocol engine, and its `main` with the eight examples;
- the source-rewriting passes of the build-repair scripts `src/fix_final.py` and `src/fix_remaining.py`.

It also holds TLC configurations that check the models on small instances,
and TLAPS proofs about the client, `main` and example_7, including two
refinements of abstract specifications.

| Module | Models |
|---|---|
| `WsClient` | the client object, example_8's streaming loop, and the server as an environment |
| `MainExamples` | `main` and examples 1-8 on `WsClient`'s actions, with example_7's reconnection loop |
| `Correlator` | what spec.md 4.3's request correlator promises a caller with one call outstanding (abstract) |
| `Reconnect` | spec.md 4.1's reconnect loop with spec.md 3's backoff schedule (abstract) |
| `PyStrings` | Python's `str` slicing, `find`, `replace` and the regex classes the scripts use |
| `UnderscoreLets` | the renaming of `let _x` in both scripts |
| `ParamRenames` | the renaming of `_x:` parameters in both scripts |
| `UseDedup` | `remove_duplicate_use_items` of fix_remaining |
| `WsClient_proofs` | the TLAPS proofs of the client's types and correlation |
| `WsClient_stream_proofs` | the TLAPS proof of `StreamTotal` |
| `MainExamples_proofs` | the TLAPS proofs about `main` and example_7 |
| `WsClient_refinement` | the TLAPS proof that the client implements `Correlator` |
| `MainExamples_refinement` | the TLAPS proof that example_7 implements `Reconnect` |
| `MC_*` | the instances TLC checks |

## The system

### Inventory

| Part | Source | State | Operations | Status |
|---|---|---|---|---|
| `RustyDBWebSocketClient` | `websocket_client.py:24-184` | `websocket`, `authenticated`, `reconnect_count` (`url`, `auth_token`, `auto_reconnect` and `max_reconnect_attempts` are never written after `__init__`) | `connect`, `authenticate`, `send_message`, `receive_message`, `execute_query`, `ping`, `close`, `__aenter__`/`__aexit__` | modelled: `WsClient` |
| Streaming loop | `websocket_client.py:347-390` (example_8) | `total_rows` | send a streaming query, then receive until None, an error or a final batch | modelled: `WsClient` |
| Reconnection loop | `websocket_client.py:306-344` (example_7) | `retry_count`, `retry_delay` | connect, and on failure sleep, double the delay (capped at 60) and retry up to 3 times | modelled: `MainExamples` |
| Examples 1-6, `main` | `websocket_client.py:187-304, 393-424` | example_6's loop index | one client object per example, `async with`, the examples' calls, main's `except` | modelled: `MainExamples` |
| RustyDB server and transport | not in this repository | requests and frames in flight | answer, stream, drop, close, answer late, send a malformed frame | environment modelled from spec.md 4 and 6 |
| `fix_final.py`, `fix_remaining.py` | `src/fix_final.py`, `src/fix_remaining.py` | the text of one file, rewritten in place | regex rewriting of Rust sources | partly: the let, parameter and `use` fixers (`UnderscoreLets`, `ParamRenames`, `UseDedup`) |
| Other build-repair scripts | `src/fix_build.py`, `fix_duplicates.py`, `fix_imports.py`, `fix_rust_errors.py`, `fix_dead_code.py` | files | fixed-string and regex substitutions | not modelled: each is a list of independent substitutions with no offsets carried across edits |
| Route scripts | `src/add_routes.py`, `src/scripts/add_ws_routes.py` | none | one regex substitution | not modelled |
| GraphQL tests | `src/tests/test_graphql_indexes.py` | none | HTTP requests against a server not in this repository | not modelled |

### How the parts interact

One asyncio task drives one client object. Each method sends a JSON
envelope with `websocket.send`. Every method except `close` then awaits
`receive_message`, which is `recv()` under `asyncio.wait_for` with a 5 s
(or 10 s) timeout. The method returns, or decides what to do next, from the
one frame it gets.

Nothing correlates a reply with its request. Every request carries a fresh
`uuid4` id (ping carries none), but no reader checks the id. The method
simply takes the next frame on the socket.

The server is a separate process. It answers in order, may stream a query in
several `data` batches with `has_more`, and may never answer. Between the
client's send and its receive, the server and the network act concurrently
with the client.

### The hard behaviours

The hazards are listed in `PROJECT.json`, each at the line where it bites:

- a reply that arrives after the timeout and is read by the next call;
- streamed batches that `execute_query` leaves on the socket;
- a handshake that reads another call's frame;
- the `authenticated` flag outliving the connection it was set on;
- the previous connection never being closed;
- a failed handshake leaking the connection out of `async with`;
- termination of the streaming loop;
- malformed and untyped frames;
- example_7's retry count and backoff;
- in the scripts, character offsets taken before an edit and used after it, and one set of imported names for a whole file.

Some hazards have no property that can catch them, and `PROJECT.json`
says why for each:

- The replaced connection is never closed. No example calls `connect` twice on one object, so `NoLeak` at the end of main cannot see it.
- A server could stream `has_more` batches forever. The model's server sends a bounded number of batches, so `OpsReturn` shows that calls return against any bounded server, not against an endless stream.
- fix_final's stale body search and stale splice need an earlier rename in the same file. `NoNeedNoChange` only speaks of files with nothing to rename.
- fix_remaining may miss a rename, or apply it to the wrong parameter. `RemainingWellFormed` accepts any subset of the renames, so it catches corruption only.
- Imports inside a module or under an alias are outside `FlatPreserved`. The `use_scope` violation covers them.

## The model: `WsClient.tla`

### State

| Variable | Code |
|---|---|
| `websocket` | `self.websocket`: a connection handle in `1..MaxConn`, or `NoConn` (None) |
| `authenticated`, `reconnect_count` | the fields of the same names |
| `op` | the method the caller is blocked in at its `await receive_message`, or `"none"` |
| `req` | the request that method sent |
| `got` | the value the last `receive_message` returned (`NoFrame` is None) |
| `total_rows` | the local of example_8 |
| `nConn`, `live` | connections opened, and the ones not closed by either side |
| `up[c]`, `down[c]` | the FIFO channels of connection `c` |
| `sent[c]` | the batches the server has sent for the query at the head of `up[c]` |
| `nReq` | requests sent; the next uuid is `nReq + 1` |
| `rowsSent[i]` | ghost: the rows the server sent in data frames for request `i` |
| `authConn` | ghost: the connection on which `auth_success` was last read |

### Actions

Each method is split at its `await receive_message`:

- **Send half.** `connect`, `authenticate`, `execute_query`, `ping` and `stream_query` send their request with `SendRequest`, which is `send_message`. `close` and a token-less `connect` complete in one step.
- **Receive step.** `receive_message` is one of three actions:
  - `Deliver`: `recv()` returns the next frame, decoded by `json.loads`, and a non-JSON frame becomes None;
  - `TimeOut`: the `wait_for` timer fires and the receive returns None;
  - `ConnectionClosed`: `recv()` raises.
- **Continuation.** Each receive step ends in the continuation of the blocked method (`Continue`):
  - `AuthReply` covers lines 87-96, and line 63 for `connect`;
  - `QueryReply` covers line 154;
  - `PingReply` covers line 167;
  - `StreamStep` is one iteration of lines 370-390.
- **Exceptions.** A `KeyError` on a frame without `"type"` and `ConnectionClosed` leave the object as it is (`Raise`).

The server's actions (`ServerAnswer`, `ServerBatch`, `ServerIgnore`,
`ServerClose` and `ServerBadFrame`) are an environment modelled from
spec.md. The constants say how badly it may behave:

| Constant | Meaning |
|---|---|
| `LateReplies` | the timer may fire while the request is still unanswered |
| `BadFrames` | non-JSON frames and objects without `"type"` may arrive |
| `QueryStreaming` | the `streaming` values `execute_query` is called with |
| `HasToken` | whether `auth_token` was given |

### What is abstracted

- **Data.** Payloads, SQL, tokens and timestamps are left out. A frame is its type, its echoed id, its row count and `has_more`.
- **Failures with no effect.** A `websockets.connect` that raises changes no field, so it is a stutter. A send when `self.websocket` is None raises `RuntimeError` before any state change, so it is not an action.
- **Sends on a closed connection.** The websockets library buffers them and the following `recv` raises. The model drops the request, and the receive step then raises.
- **Empty objects.** An empty object `{}` (falsy, but a dict) is not modelled.
- **Cancellation.** Cancelling `recv()` on timeout does not lose a frame, because the library keeps it in its queue. That is why a late reply is still there for the next call.

## Runs of the client

These runs use `MC_WsClient.tla`. It uses:

- 2 connections, so `connect` can replace a live or a dead connection;
- 4 requests, enough for a timed-out call followed by a later one that reads the leftover frame;
- at most 2 batches per query;
- rows `{1, 2}`, so the totals of different batch sequences differ.

`CHECK_DEADLOCK FALSE` is set because behaviours end when these bounds on
connections and requests run out. The real program would go on making calls.

| Run | Constants | Checks | Result | What it shows |
|---|---|---|---|---|
| `correlation` | token, `streaming=False`, no late or bad frames | `ResponseCorrelation`, `StreamTotal`, `CorrelatorSpec` | pass, 39,835 states | With a server that answers before the timeout and non-streaming queries, every reply a method reads answers the request it sent. A streaming loop that ends on a final batch has counted every row the server sent for that query, exactly once. The client implements the abstract correlator. |
| `robust` | no token, both `streaming` values, late replies, bad frames; `FairSpec`; 2 requests, rows `{1}` | `TypeOK`, `OpsReturn` | pass, 255,760 states | Whatever the server does (drop, close, answer late, send garbage, stream), every call returns, by a reply, an exception or the timeout. |
| `default_streaming` | as `correlation` with `streaming=True` | `ResponseCorrelation` | violation | `execute_query`'s default reads the first batch only, and a later call reads the rest. |
| `late_reply` | as `correlation` with late replies | `ResponseCorrelation` | violation | A timed-out reply is returned to the next call. |
| `stale_auth` | as `correlation` | `AuthFresh` | violation | `connect` then a second `connect` whose handshake times out: `authenticated` is still True. |

Between them, the two passing runs fire every action and every disjunct.
Each property of a passing run has a mutant in `PROJECT.json` that TLC
catches:

| Property | Mutant |
|---|---|
| `StreamTotal` | the has_more test moved before the row count |
| `ResponseCorrelation` | `execute_query` always streaming |
| `TypeOK` | a non-JSON frame returned raw |
| `OpsReturn` | None no longer ends the streaming loop |
| `CorrelatorSpec` | a request id taken from the counter before it is advanced |

### The client as the correlator of spec.md 4.3

`Correlator.tla` states what spec.md 4.3 promises a caller that has at most
one call outstanding, as the client and its examples do:

- A call sends one request. It carries the counter's next id, or none; a ping carries none (line 158).
- The call completes with a reply that answers the request, or is abandoned with nothing.
- Only a batch of a streaming query with `has_more` keeps the call open.

`WsClient` maps onto it through `Corr == INSTANCE Correlator WITH ...`:

| Abstract | Client |
|---|---|
| `waiting` | `~Idle`: a method is blocked in `receive_message` |
| `pending` | `req` |
| `returned` | `got` |
| `lastId` | `nReq` |

`CorrelatorSpec == Corr!Spec` is a `PROPERTY` of the `correlation` run,
where it holds. Under the constants of `default_streaming` and
`late_reply`, TLC finds it violated. Those are the same two bugs,
seen as steps that are not steps of the correlator.

### Fairness

`FairSpec` assumes only `WF_vars(receive_message)`. The asyncio event loop
runs the task awaiting `recv()` when a frame is buffered, and fires the
`wait_for` timer otherwise. Nothing is assumed of the server, which may stay
silent forever.

## `main` and the examples: `MainExamples.tla`

`MainExamples` composes `WsClient` with `main`. It instantiates the client
twice: `C` without a token, and `CTok` with one for example_2. Both use
`execute_query`'s default `streaming=True`, because every example calls
`execute_query(sql)`. The client's variables are shared: each example
builds a fresh object (`NewClient`), and the connections of earlier objects
stay in `live` and in the channels.

| Action | Code |
|---|---|
| `NewClient` | `RustyDBWebSocketClient(...)` (27-49), and example_7's locals (317-320) |
| `Enter`, `EnterFails` | `__aenter__` (177-180): `connect` succeeds, or `websockets.connect` raises and main's `except` ends the run (414) |
| `Entered` | the body starts, or `connect`'s exception leaves `async with` without `__aexit__` |
| `Body`, `Called` | each example's calls (187-304, 347-390); example_6 loops over three queries |
| `Exit` | `__aexit__` (182-184) and example_7's `close` (344) |
| `RetryConnect`, `Work`, `RetryFails`, `Backoff` | example_7's loop (322-342) |
| `Receive`, `Server` | `WsClient`'s receive step and server; a receive that raises, or returns an object without `"type"`, sets `raised` |

The ghost variables `slept` and `attempts` record example_7's sleeps and
connects. `MC_MainExamples` uses:

- 9 connections and 8 requests, which is what the eight examples can use;
- 2 batches of one row, so that every default-streaming reply spans two frames;
- example_7's literals: 3 retries, a first delay of 1, a cap of 60.

Its `VIEW` drops the channels of connections that are closed and no longer
the current handle. Nothing reads or writes them again, and `rowsSent` is
read only by `StreamTotal`, which these runs do not check.

| Run | Constants | Checks | Result | What it shows |
|---|---|---|---|---|
| `main` | late replies, no bad frames; `FairSpec` | `TypeOK`, `RetrySchedule`, `NoLeak`, `ReconnectSpec`, `MainEnds` | pass, 6,841 states | example_7 sleeps 1, 2 between its three attempts and never after the last, and implements the abstract reconnect loop; every connection is closed when main ends; main always ends. |
| `enter_leak` | late replies and bad frames | `NoLeak` | violation | example_2's handshake reads an object without `"type"`; `connect` raises `KeyError` after opening the connection, `__aexit__` never runs, and the connection is still open when main ends. |

`FairSpec` is weak fairness of `Main` and of `Receive`. main is one asyncio
task, so it runs whenever it can, its sleeps end, and an awaited receive
returns, raises or times out. Whether a `connect` succeeds is left
nondeterministic, and nothing is assumed of the server.

`Reconnect.tla` is spec.md 4.1's reconnect loop with spec.md 3's
schedule. Its phases are idle, connecting, backoff, connected and failed.
Every failure is counted; the one that reaches the limit gives up, and any
other is followed by one wait of the current delay. The delay then doubles
up to the cap, and a connect resets the count and the delay.

`RC == INSTANCE Reconnect WITH ...` maps example_7 onto it:

- the phase comes from `ex`, `stage` and `retry_count` (`Phase7`);
- the count is `retry_count` and the delay is `retry_delay`, or 0 and the initial delay once connected;
- the waits are `slept`.

`ReconnectSpec == RC!Spec` is a `PROPERTY` of the `main` run.

Spec.md 3 also says the session counts failed reconnection attempts.
Example_7 counts them in a local, and the client's `reconnect_count` is
never incremented anywhere; `PROJECT.json` records this, with no run of its
own.

## The build-repair scripts

`fix_final.py` and `fix_remaining.py` each run a list of regex fixers over
every Rust file of the tree. Three of their fixers edit a file at character
offsets, or remember state across the lines of a file. Those are modelled
at the level of characters. `PyStrings` gives Python's slicing, `find`,
`replace` and `\b` on strings represented as sequences of one-character
strings. A file is always the rendering of a short program, kept in the
ghost variable `orig`, so each property compares the rewritten text with
the rendering of a reference rewrite of `orig`. The variable `ran` records
which scripts ran, in order. The scripts' other fixers match text, such as
`format!(` or `DbError`, that these files never contain, so on these files
they change nothing.

### `UnderscoreLets`

Both scripts find every `let [mut] _x =` and, when `x` occurs later, splice
`x` in at the match's offsets. fix_final walks the matches from last to
first. fix_remaining walks them from first to last, on offsets taken before
any edit. Files are up to 3 statements over 2 names, with 2 runs of the
scripts.

| Run | Checks | Result | What it shows |
|---|---|---|---|
| `lets` | `FinalRenameCorrect`, `SingleRenameCorrect` | pass, 4,088 states | fix_final run first renames exactly the used underscore lets, and later runs keep that; a file with at most one let to rename is repaired exactly by either script in any order. |
| `lets_remaining` | `RenameCorrect` | violation | fix_remaining's second rename cuts one character too far: `let _a=1;let _a=1;a;` becomes `let a=1;let _a1;a;`. |

### `ParamRenames`

Both scripts find each `fn` whose parameter list has an underscore
parameter. For each `_x:` whose body uses `x`, they rewrite the list.
fix_final splices the rewritten signature back at the match's offsets.
fix_remaining replaces the first occurrence of the old parameter text from
the function's start. Files are up to 2 functions of 1 or 2 parameters over
2 names, with 2 runs.

| Run | Checks | Result | What it shows |
|---|---|---|---|
| `params` | `NoNeedNoChange`, `RemainingWellFormed` | pass, 25,620 states | A file with nothing to rename is left byte for byte by either script; while only fix_remaining runs, the file stays the original program up to renamed parameters. |

TLC also shows two failures that no run records: fix_final losing a brace
at a stale offset, and fix_remaining leaving the second used parameter of a
function with its underscore. Both are noted in `PROJECT.json`'s hazards,
and both were reproduced with the Python functions.

### `UseDedup`

`remove_duplicate_use_items` drops a `use` line, or items of a braced one,
whose item name an earlier line of the file already imported. Files are up
to 4 lines (5 for `use_scope`), with paths `p`, `q`, items `X`, `Y` and
alias `Z`.

| Run | Checks | Result | What it shows |
|---|---|---|---|
| `use_flat` | `FlatPreserved` | pass, 419,355 states | On a file of one module, deduplicating by name keeps every line of code resolving to its import. |
| `use_scope` | `ImportsResolve` (no aliases) | violation | A `use p::X;` inside `mod m { }` makes the top-level `use p::X;` look like a duplicate, and it is dropped. |

Aliases also break `ImportsResolve`: `use p::X as Z;` then `use p::X;`
drops the second line. So does rebuilding a braced line, which loses an
alias.

### Mutants of the new runs

| Property | Mutant |
|---|---|
| `RetrySchedule` | the delay doubled before the sleep |
| `NoLeak` | `close` no longer closes the socket |
| `MainEnds` | None no longer ends the streaming loop |
| `TypeOK` (`main`) | example_6's index advanced past its last query |
| `ReconnectSpec` | example_7 giving up one failure too late |
| `FinalRenameCorrect` | fix_final walking its matches forwards |
| `SingleRenameCorrect` | fix_remaining searching the whole file for a use |
| `NoNeedNoChange` | fix_final's body taken as the rest of the file |
| `RemainingWellFormed` | fix_remaining splicing at the function's start |
| `FlatPreserved` | a name recorded before the duplicate test |

## Proofs: `WsClient_proofs.tla`

`THEOREM TypeCorrect == Spec => []TypeOK` holds for every value of the
constants that satisfies `ConstantsAssumption`.

`TypeOK` is not inductive by itself. The receive step reads
`down[websocket]`, which is a sequence of frames only if the blocked method
has a connection. The strengthening `TypeInv` adds
`~Idle => websocket \in Conns`.

The proof has four parts:

1. `InitTypeInv`: the initial state satisfies `TypeInv`.
2. One lemma per group of actions: `CallerTypeInv`, `ReceiveTypeInv` and `ServerTypeInv`. Each has a case per action.
3. These rest on lemmas about the operators. `SendRequestType` covers the channel after `Append`. `DecodeType` and `DecodedRows` cover `json.loads`. `FinalRepliesType`, `ServerFrames` and `AddRowsType` cover what the server appends, and `ContinueType` covers each method's continuation.
4. `NextTypeInv` combines the step lemmas, and `PTL` gives the temporal theorem.

### Correlation

`THEOREM Correlation` states `Spec => []ResponseCorrelation`. Its
assumption `WellBehavedServer` says the constants rule out late replies and
malformed frames, and `execute_query` is only called with
`streaming=False`. These are the constants of the `correlation` run. The
proof covers every number of connections, requests, batches and row counts.

`ResponseCorrelation` is not inductive. It says nothing about the frames
still buffered, and the next `receive_message` reads them. The
strengthening `CorrelationInv` adds these conjuncts:

- `FreshConns`: connections not yet opened have empty channels, so `connect` starts clean.
- `IdleDrained`: between calls, nothing is buffered on the current connection.
- `ReqShape`: only the streaming loop sends a streaming query.
- `PendingAnswers`: while a method waits, every buffered frame answers its request, and all but the last are batches with `has_more`. The server holds at most that one request. While it holds it, only batches have been sent, and some were if any frames are buffered.

The proof has one lemma per group of actions: `CallerCorrelationInv`,
`ReceiveCorrelationInv` and `ServerCorrelationInv`. These rest on lemmas
about the operators:

- `AnswerSeqTail` and `AnswerSeqAppend` cover reading and appending a frame.
- `ContinueOp` covers the continuation.
- `ServerHoldsReq`, `ServerElsewhere` and `ServerOnCurrent` cover a server step on the current connection and on the others.

The violations found by `default_streaming` and `late_reply` show that
each assumption of `WellBehavedServer` is needed.

### The streaming total: `WsClient_stream_proofs.tla`

`THEOREM StreamTotalHolds` states `Spec => StreamTotal` under
`WellBehavedServer`, the assumption of the `correlation` run, which checks
the same property. When example_8's loop ends on a batch with
`has_more = false`, `total_rows` is the number of rows the server sent for
that query.

The action property follows from an invariant, `StreamInv`. It is
`CorrelationInv` plus four conjuncts:

- `IdsSent`: every request on a channel carries an id already drawn.
- `FreshIds`: no rows have been sent for an id not yet drawn. So a new streaming query starts at zero.
- `StreamSole`: while the loop runs, its query has an id in `Ids` and is on no channel but the current one. So a server step on another connection never counts rows for it.
- `StreamLedger`: the rows counted plus the rows of the frames still buffered equal `rowsSent[req.id]`.

The sum in `StreamLedger` is stated as a ledger. It is a function `g` over
`0 .. Len(down[websocket])` that starts at `total_rows`, adds one frame's
rows per index and ends at the rows sent. A recursive sum would need
induction over the sequence to relate it to `Append` and `Tail`, and the
provers cannot instantiate the library's induction theorems.

The ledger lemmas are:

- `LedgerAppend`: a frame the server appends extends the ledger.
- `LedgerTail`: a batch the loop reads moves its rows from the buffer into `total_rows`.
- `LedgerLast`: when one frame is left, the total is reached.

`StreamRead` shows that the loop reads a data batch or an error for its
query, and nothing is behind a batch without `has_more`. `StreamTotalStep`
combines this with `LedgerLast`. TLC checked `StreamInv` as an invariant of
the correlation instance before the proof: 39,835 states, no error.

## Proofs: `MainExamples_proofs.tla`

- `RetryScheduleHolds`: `Spec => []RetrySchedule`, for every `MaxRetries`, `InitialDelay` and `MaxDelay` allowed by `ExamplesAssumption`.
  - `RetrySchedule` states spec.md 3's capped doubling as a recurrence: each sleep is `Min(2 * previous, MaxDelay)`. tlapm cannot reason about `^`, so the closed form `InitialDelay * 2^(i-1)` is not used.
  - The assumption `InitialDelay <= MaxDelay` is example_7's `1 <= 60`.
  - The inductive invariant `RetryInv` relates `retry_delay`, `attempts` and `slept` at each stage of the loop.
- `TypeCorrect`: `Spec => []TypeOK`.
  - The client's part reuses `WsClient_proofs`' `TypeInv` and its step lemmas. They go through two instances: `CP` without a token and `CTP` with one.
  - Bridge lemmas (`SameConnect`, `SameCall`, `SameReceive`, `SameServer`, ...) show that an action of `MainExamples`' instance `C` is the same formula as the one of `CP`.
  - The strengthening `MainTypeInv` adds that the client is idle outside `entered` and `called`.
- `NoLeakHolds`: `Spec => []NoLeak` under `~BadFrames`, the constants of the `main` run. The `enter_leak` run shows the assumption is needed.
  - The inductive invariant `LeakInv` says at most the current handle is open, none is open at the quiet stages, and none after an exception.
  - It also says every frame buffered on a connection has a type (`Typed`). So no receive raises `KeyError` after `connect` opened the connection.

`MainExamples` writes its stage updates as `CASE`s with disjoint guards,
which matches the `if`/`elif` chains they model. A `CASE` whose guards
overlap would be nondeterministic in TLA+, which the code is not.

## Refinement proofs

`WsClient_refinement.tla` proves `THEOREM Refinement`:
`Spec => CorrelatorSpec` under `WellBehavedServer`.

- The initial state maps to `Corr!Init`.
- The step argument uses `CorrelationInv`, the inductive invariant of `Correlation`. Every step of the client, given `CorrelationInv`, is a correlator step or a stutter (`NextRefines`).
  - `SendRefines`: every method's send is `Send`.
  - `DeliverRefines`: a read is `Complete`. `PendingAnswers` gives that the head frame answers `req`. `ContinueOp` gives that the method stays blocked exactly when the frame is a batch with `has_more`.
  - `AbandonRefines`: a timeout or a closed connection is `Abandon`.
  - Server steps, `connect` without a token and `close` leave the mapped state alone.
- `PTL` combines these with the invariant's `InitCorrelationInv` and `NextCorrelationInv`.

`MainExamples_refinement.tla` proves `THEOREM ReconnectRefinement`:
`Spec => ReconnectSpec`, for every `MaxRetries`, `InitialDelay` and
`MaxDelay` of `ExamplesAssumption`, whatever the network and the server do.

- The step argument uses `RetryInv`, the inductive invariant of `RetryScheduleHolds`. It gives that the loop's locals are untouched before example_7 starts, so the abstract loop is idle with a zero count and the initial delay. It also gives that the loop head is reached only below `MaxRetries`.
- Each of example_7's actions maps to one abstract action:
  - `NewClient` to `Start`;
  - `RetryConnect` to `Connected`;
  - `RetryFails` to `ConnectFailed`;
  - `Backoff` to `Wait`, since `Min(2d, cap)` is the abstract capped doubling.
- Every other step leaves the mapped state alone (`OutsideExample7`, `OtherStage`, `Example7Stutters`).

Both proofs were checked against a changed abstract module, to make sure
they are not vacuous. With `Complete` keeping a final reply's call open,
`Refinement` fails. With `ConnectFailed` giving up one failure late,
`ReconnectRefinement` fails at that step.

### Beyond the provers

TLC alone checks the following:

- Liveness: `OpsReturn` and `MainEnds`. They need fairness and `ENABLED`, which tlapm cannot reason about.
- The properties of `UnderscoreLets`, `ParamRenames` and `UseDedup`. `UnderscoreLets` and `ParamRenames` reach `RECURSIVE` operators through `PyStrings`, which removes tlapm's SMT backend. `UseDedup` has none, but `FlatPreserved` is a statement about a `FoldLeft` over every file. Relating it to the pass needs induction over the sequence of lines, and the provers cannot instantiate the library's induction theorems.

## Not modelled

- The `if timeout:` test at `websocket_client.py:112`. Every call passes a timeout of 5.0 or 10.0, so a zero timeout never occurs, and it is not listed as a hazard.
- The route-registration scripts and the other build-repair scripts apply substitutions that carry no offsets or state from one edit to the next.
- The GraphQL tests need a server that is not in this repository.

## Plan

- Prove `StreamTotal` as a consequence of `CorrelatorSpec` with a streaming ledger at the abstract level, so the client proof needs only the refinement.
- Model fix_final's `remove_duplicate_dbderror_import` and `add_missing_imports`, which edit a file line by line.
