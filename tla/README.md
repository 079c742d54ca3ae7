# Verification of rs2

This directory holds TLA+ models of the rs2 command-and-control framework
(`src/`). Each model has a TLC configuration that checks it on small
instances. Where a property matters for every instance, it also has a TLAPS
proof.

## The system and its parts

| Part | Source | Model |
|---|---|---|
| Agent dispatch cycle | `src/agent/src/handler.rs` | `AgentCycle`, `AgentCycleProofs`, `MC_AgentCycle`; abstract spec `ResultDelivery`, refinement `AgentCycleRefinement` |
| Agent commands (exit, task bodies) | `src/agent/src/command.rs` | `AgentCycle` |
| HTTP handler heuristic routes | `src/modules/srv-mod-handler-http/src/routes/public/heuristic_handler.rs` | `HeuristicPath`, `Ingress`, `IngressProofs`, `MC_Ingress` |
| Operator API login | `src/modules/srv-mod-operator-api/src/routes/public/authenticate.rs` | `Authenticate`, `LoginService`, `AuthenticateProofs`, `MC_Authenticate` |
| Database enum mappings | `src/modules/srv-mod-database/src/schema_extension.rs` | `DbEnums`, `MC_DbEnums` |
| Database models | `models/agent.rs`, `models/notification.rs` | `AgentRecord`, `MC_AgentRecord` (agent.rs); notification.rs not modelled |
| Terminal emulator global commands | `srv-mod-terminal-emulator-commands/src/global_session.rs` | not modelled |
| Protocol trait | `src/libs/rs2-communication-protocol/src/protocol.rs` | as a write that succeeds or fails, in `AgentCycle` |
| JWT key generation | `src/server/src/cli_cmd_generate/jwt.rs` | not modelled (pure I/O) |

How the parts interact:

- The agent checks in and forwards its task results through the `Protocol`
  to the server's HTTP handler.
- The HTTP handler recovers a request id from the URL path and dispatches on
  the configured encryption scheme and encoder.
- Operators log in to the operator API, which reads the users table.
- The database enums are the column types of the agent filters, and an
  agent filter names an `AgentFields` variant whose value
  `Agent::get_field_value` reads from an agent row.

The agent, the HTTP handler and the operator API share no state at run
time that the code under `src/` exposes, so each has its own module.
`AgentRecord` composes the agent row with the `AgentFields` tables of
`DbEnums` (through `INSTANCE DbEnums`), and `AgentCycleRefinement` relates
`AgentCycle` to its abstract specification `ResultDelivery`.

## The modules

### AgentCycle (core)

The model covers one call of `command_handler`, repeated by the main loop up
to `MaxCycles` times. It follows these actors:

- **The handler thread.** Its position is `hpc`. Its actions follow the
  handler's code in order:
  - `SessionGuard` (lines 35-37);
  - `CheckKillDate` (39-42), with `exit_command`'s two outcomes
    (command.rs 23-37): termination, or a failed `NtTerminateProcess` after
    which it returns;
  - `Setup` (46-68) and `CheckinWrite` (70-74);
  - `SpawnTask` and `SpawnLoopEnd`, one iteration of the loop at 82-114;
  - `DropSender` (119);
  - `JoinOk` and `JoinPanic` (120).
- **One task per command (`task[i]`).** `TaskComplete` is the body of
  `task_type_a`/`b`. `TaskDropped` is a spawner that drops the one-shot
  sender without a value.
- **One forwarder per task (`fwd[i]`), lines 109-113.** It takes one of three
  actions:
  - `ForwardResult` sends into the bounded channel `chan` when there is room.
    A full channel makes the sender wait.
  - `ForwardToClosed` sends after the receiver is gone, and `let _` drops the
    error.
  - `ForwardNothing` runs when the one-shot receiver yields an `Err`.
- **The aggregator (`agg`), lines 132-140.** Its actions are:
  - `AggReceive`: `recv` takes the oldest result.
  - `AggEnd`: `recv` returns `None`, which needs an empty buffer and no live
    sender.
  - `AggWriteOk`.
  - `AggWriteFail`: the `unwrap` panics, and the results buffered in the
    channel are dropped with the receiver.

A result is represented by the index of its command, because the task copies
the command's metadata into it. `txOpen` is the handler's own `result_tx`.
The environment actions `SessionChange` and `KillDatePasses` flip the session
flag and the clock.

### ResultDelivery and AgentCycleRefinement

`ResultDelivery` states what one dispatch cycle promises about results,
with the channel, the forwarders and the aggregator left out. Its state is
the cycle's `phase` (idle, running, crashed, terminated) and the sets of
`pending`, `produced` and `dropped` commands, plus the sequence `delivered`
of results written back. A result is delivered only once, only after it was
produced, and only while the cycle runs. A cycle ends normally (`Finish`)
only with nothing pending and every produced result delivered. A failed
write (`Crash`) is final. `Spawn`, `Produce` and `Drop` stay possible after
a crash, because the handler learns of the aggregator's panic only at the
join.

`AgentCycleRefinement` maps `AgentCycle` onto it:

- `phase` comes from `PhaseBar`: `terminated`, `crashed` once the
  aggregator panicked, `running` from the checkin to the join, and `idle`
  otherwise.
- `pending`, `produced` and `dropped` are the commands whose task is
  running, done or dropped.
- `delivered` is `written`.

Under this mapping:

- `Setup` is `Begin`, and the terminating outcome of `CheckKillDate` is
  `Terminate`.
- `SpawnTask`, `TaskComplete` and `TaskDropped` are `Spawn`, `Produce` and
  `Drop`.
- `AggWriteOk` is `Deliver`, `AggWriteFail` is `Crash`, and `JoinOk` is
  `Finish`.
- Every other step (the channel, the forwarders, `recv`, the drop of the
  sender, the session flag, the clock) is a stutter.

`ResultDelivery` also states its safety invariant `DeliveredOnce`: only
produced results are delivered, none twice, and between cycles (or after
termination) nothing is pending and every produced result is delivered.
`AbstractDeliveredOnce` proves it for the abstract spec. Read through the
mapping, it says nothing that `BetweenCycles` and `AgentCycleInv` do not
already say of the real cycle, so no run checks it there.

### AgentRecord

`AgentRecord` models `agent.rs`:

- `FromCheckin` is `From<Checkin> for CreateAgent`: a fresh CUID2 id, the
  checkin's fields moved one for one, and empty secrets and signature.
- `Persist(c, id)` inserts the row. A taken id makes the insert fail. The
  insert itself is outside `src/`, so this action is modelled from the spec
  (`spec_modelled` in the map).
- `StoreFilter(f)` saves a filter's field column with `AgentFields::to_sql`.
- `Evaluate(id)` reads the label back with `from_sql` and calls
  `GetFieldValue` (`Agent::get_field_value`) on the agent. No code under
  `src/` composes the two yet. This is the caller that filtering agents by
  field will need, modelled from the spec.

`i64::to_string` and `bool::to_string` are modelled by what they do: the
decimal digits with a leading `-`, and `"true"` or `"false"`. `origin` is a
history variable that records which checkin each row came from. The
`Checkin` struct is not under `src/`, so its shape (`CheckinType`) is taken
from the fields `From<Checkin>` reads.

### HeuristicPath and Ingress

`HeuristicPath` models the string algorithms of the resolver as operators on
sequences of one-character strings. Each is modelled by what it does:

- `SplitOn` is `str::split`, which keeps empty pieces.
- `ByteLen` is `str::len`, a byte count. The characters in the constant
  `WideChars` take two UTF-8 bytes.
- `ParseUsize` is usize parsing. It accepts a leading `+`, rejects empty
  input and rejects values of `2^UsizeBits` or more.
- `IdPositions`, `Variant1Id` and `Variant2Id` are the two resolvers.
- `Routes` is the router. It gives a parameter segment priority over the
  catch-all, and neither one matches an empty capture.

`SplitOn`, `DecimalValue` and `Ingress`'s `Decimal` are recursive
functions defined in a `LET` (`split[i \in 1..(Len(s) + 1)]`,
`val[n \in 0..Len(s)]`, `dec[m \in Nat]`), not `RECURSIVE` operators. TLC
evaluates them the same way, and the prover can still reason about
modules that reach them. `IngressProofs` relies on this.

`Ingress` follows one request from a path to its answer:

1. `RouteRequest` picks a route.
2. `HeuristicVariant1` or `HeuristicVariant2` recovers the id or answers 400.
3. `HandlePlain` or `HandleEncrypted` dispatches on the scheme and encoder.

The configuration (`scheme`, `encoder`) and the path are chosen in `Init`.
Requests share nothing else, so one request per behaviour is enough.

### Authenticate

This module models `post_handler`. Its steps are:

- `RejectEmpty`: empty credentials are rejected.
- `GetConnection`: a pool error gives `InternalServerError`.
- `FetchUser`: the handler loads *some* row with the username, because
  `.first()` has no `ORDER BY` and nothing makes usernames unique. A query
  error, or no such row, gives `WrongCredentials`.
- `VerifyPassword`: Argon2 is modelled as `Verify(p, Hash(p))`.
- `CreateToken`: the token is signed, or signing fails with `TokenCreation`.

`issued` records every token signed, with the request it answered. The users
table is any set of rows with distinct ids, and the handler never writes it.

`LoginService` is what the handler promises, with one atomic `Respond` step
per request. `Answers(req)` is the set of answers the credentials allow:

- `MissingCredentials` for an empty username or password, and nothing else;
- otherwise `InternalServerError` or `WrongCredentials` (the pool and the
  query can fail whatever the table);
- and, only if some row `Owners(req)` matches the credentials, a token for
  such a row or `TokenCreation`.

A token answered is added to `issued`, and nothing else is. Authenticate
maps onto it with `Busy` (the handler is between `Receive` and its answer)
for `busy`, and every other variable as itself. `RejectEmpty`, the failing
outcomes of `GetConnection`, `FetchUser` and `VerifyPassword`, and
`CreateToken` are `Respond`. `Receive` is `Request`. The successful
intermediate steps are stutters.

### DbEnums

`DbEnums` covers the three Postgres enums. Their `to_sql` and `from_sql`
match tables are kept as two separate record tables, as in the code.
`Write(c, v)` and `Read(c)` write a filter row and read it back column by
column.

## Runs

| Run | Config | Expect | What it shows |
|---|---|---|---|
| agent_cycle | `AgentCycle.cfg` | pass | `TypeOK`: the channel never holds more than its capacity. `BetweenCycles`: between two cycles nothing is in flight, and every result produced was written exactly once. `AgentCycleInv`: the inductive invariant. `CycleCompletes`: every cycle ends, under fairness. `WriteBackSteps` (action property): a step either appends one result not yet written, or leaves the written results alone, or clears them in the `Setup` of a cycle that starts after the previous aggregator ended. |
| agent_kill_date | `AgentCycleKillDate.cfg` | violation | `KillDateHonoured`: after a failed `NtTerminateProcess` the agent runs a normal cycle past its kill date. |
| agent_write_failure | `AgentCycleWriteFailure.cfg` | violation | `WriteFailureContained`: one failed write panics the aggregator, then the handler. The results in the channel are dropped with the receiver, and the forwarders' `let _` discards the ones not yet sent. |
| ingress | `Ingress.cfg` | pass | `PositionalIdExact`: variant 1 yields exactly the listed parts in order, and a position just past the last part contributes the empty string (spec section 8). `FallbackFirstMatch`: variant 2 yields the first part of ID length. |
| ingress_terminal | `IngressTerminal.cfg` | violation | `EveryCombinationTerminates`: the Symmetric and Asymmetric arms panic in `todo!()`. |
| ingress_fallback | `IngressFallback.cfg` | violation | `FallbackAmongDecoys`: a decoy segment before the id sends the request to variant 1, which rejects it, so it never reaches the fallback. |
| db_enums | `DbEnums.cfg` | pass | `ReadBackWritten`: every written variant reads back unchanged. |
| agent_refinement | `AgentCycleRefinement.cfg` | pass | `RefinesDelivery`: the cycle implements `ResultDelivery` under the mapping above. |
| agent_delivery | `AgentCycleDelivery.cfg` | pass | `EventuallyDelivered`: under `FairSpec`, a result produced while the cycle runs is eventually written back, unless the write-back crashes first. This is `ResultDelivery`'s `DeliveryProgress` read through the mapping. |
| agent_record | `AgentRecord.cfg` | pass | `FilterSeesCheckin`: a saved agent-field filter, evaluated on any agent, gives the same-named column of the checkin the agent came from. |
| ingress_wide | `IngressWide.cfg` | violation | `FallbackIdCharacters`: variant 2 accepts a part of `IdLen` bytes that has fewer characters. |
| authenticate | `Authenticate.cfg` | pass | `TokenOnlyForOwner`: a token only goes to the row whose password the request gave. `LoginOutcome`: a failed login answers the same for an unknown user and for a wrong password, and a token names the credentials' owner. `ImplementsLoginService`: `post_handler`'s steps implement `LoginService`, so every request gets one answer that its credentials allow. |

Each property of a passing run has a mutant in `PROJECT.json`: a plausible
bug in a mapped definition that TLC catches with that property. The mutants
are:

- a forwarder that ignores capacity;
- a `recv` that peeks;
- a `try_recv`-style end of stream;
- a forgotten `drop(result_tx)`;
- one-based positions;
- the last ID-length part taken instead of the first;
- upper-case SQL labels;
- swapped `from_sql` labels;
- `expires_in` in minutes;
- an inverted password check;
- "missing credentials" for an unknown user (caught by `LoginOutcome` and by
  `ImplementsLoginService`);
- a write-back retried after it succeeded (caught by `RefinesDelivery`);
- a handler that returns before joining the aggregator (caught by
  `WriteBackSteps`);
- an aggregator that ends on an empty buffer while senders live (caught
  by `EventuallyDelivered`: a result forwarded later goes to a closed
  channel);
- two arms of `get_field_value` swapped (caught by `FilterSeesCheckin`).

### Bounds and why they are enough

**AgentCycle** uses 3 commands, a channel of capacity 2 and 2 cycles.

- With more commands than capacity, forwarders block on a full channel while
  the aggregator is writing or has died.
- Two cycles show that one cycle leaves nothing behind for the next.
- The code uses 10 commands and capacity 16, so its channel never fills
  and the backpressure of `send` is not a hazard of this code. The smaller
  capacity checks that a full channel would still drain. The proofs cover
  every value.

**Ingress** uses the alphabet `{0, 1, ",", "/"}`, paths of up to 6
characters, an ID length of 2 and a 2-bit usize. Together these cover:

- empty pieces;
- overflow (the value 4);
- positions past the end;
- decoys of the wrong length;
- paths of one segment, of two segments, and with a leading or trailing `/`.

**AgentRecord** uses two checkins and three ids:

- the checkin of the handler's tests, with process ids 1234 and 5678;
- a checkin with a negative process id, a zero parent and no elevation.

Every field has its own value within a checkin, so a field read from the
wrong column shows. Three ids are more than two checkins need, so an insert
on a taken id also happens.

**IngressWide** uses the alphabet `{0, "/", U+00E9}` and paths of up to
4 characters. That is enough for a one-character part of two bytes to meet
`IdLen = 2`.

**Authenticate** uses two ids, two non-empty usernames and two non-empty
passwords, plus the empty ones. With these, tables can hold no row, one row,
or two rows with the same username.

### Fairness

`agent_cycle` and `agent_delivery` check liveness. `FairSpec` puts weak fairness on
every step inside a cycle: the handler, the task bodies, the forwarders and
the aggregator. Tokio polls every ready task, and a blocked `send` or `recv`
is re-polled once it can proceed. Starting a cycle, the session flag, the
clock and a task dropping its result are environment choices, so they carry
no fairness.

`Ingress` checks no progress property. Every resolver and handler arm is
total (`match`, `?`, an `if` with an `else`), so a request cannot get stuck
between them. The way a request ends without an answer is the `todo!()`
panic, and `EveryCombinationTerminates` covers that.

## What is proved (TLAPS)

| Module | Theorem | Statement | Inductive invariant |
|---|---|---|---|
| `AgentCycleProofs` | `TypeCorrect` | `Spec => []TypeOK` | `TypeInv`: `TypeOK` plus "a writing aggregator holds a command". Without it, `AggWriteOk` could append a non-command to `written`. |
| `AgentCycleProofs` | `CycleDrained` | `Spec => []BetweenCycles` | `AgentCycleInv` (see below). |
| `DbEnums` | `ReadBackCorrect` | `Spec => []ReadBackWritten` | `DbInv`: each column stores `to_sql` of the variant last written. The round-trip lemmas show that `from_sql` inverts `to_sql` for each enum. |
| `AgentCycleRefinement` | `Refinement` | `Spec => RefinesDelivery` | `RefInv`: `AgentCycleInv` plus "the handler panics only after the aggregator did". |
| `AgentRecord` | `FilterCorrect` | `Spec => []FilterSeesCheckin` | `RecordInv`: every row is `From<Checkin>` of its recorded checkin, and the filter column only holds labels that `to_sql` writes. |
| `AuthenticateProofs` | `TokenOwner` | `Spec => []TokenOnlyForOwner` | `AuthInv`: the fetched row belongs to the table and has the request's username, and after verification the password matches its hash. |
| `AuthenticateProofs` | `LoginCorrect` | `Spec => []LoginOutcome` | `AuthInv /\ LoginOutcome`: `AuthInv` gives the fetched, verified row that makes the credentials authentic when a token is signed. |
| `AgentCycleProofs` | `CycleInvariant` | `Spec => []AgentCycleInv` | `AgentCycleInv` is itself inductive (`InvInit`, `InvStep`). |
| `DbEnums` | `DbTypeCorrect` | `Spec => []TypeOK` | `DbInv`. |
| `AgentRecord` | `RecordTypeCorrect` | `Spec => []TypeOK` | `RecordInv`. |
| `AuthenticateProofs` | `AuthTypeCorrect` | `Spec => []TypeOK` | `AuthInv`. |
| `AuthenticateProofs` | `LoginRefinement` | `Spec => ImplementsLoginService` | `RefInv`: `AuthInv` plus "past the emptiness check the credentials are non-empty". |
| `ResultDelivery` | `AbstractDeliveredOnce` | `Spec => []DeliveredOnce` (abstract spec) | `DeliveredOnce` is inductive on its own. |
| `AgentCycleProofs` | `WriteBackCorrect` | `Spec => WriteBackSteps` (action property) | `AgentCycleInv`. `ResultPlaces` keeps the result in hand out of `written`, and `Phases` shows the aggregator has ended when `Setup` runs. |
| `IngressProofs` | `FallbackCorrect` | `WideChars = {}` implies `Spec => []FallbackFirstMatch` | `FallbackInv`: until a request is done it has no answer, and a request routed to variant 2 carries `Variant2Id`'s outcome, either the id it found or `BAD_REQUEST`. |

`AgentCycleInv`, the invariant behind `CycleDrained`, has these conjuncts:

- `SpawnShape`: tasks and forwarders exist exactly for the spawned commands.
- `ResultPlaces`: every forwarded result is in exactly one place: the
  channel, the aggregator's hand, or `written`.
- `NoneLost`: unless the aggregator panicked, no result is lost.
- `Phases`: which aggregator states go with which handler states. A finished
  aggregator leaves an empty channel and no live sender.

TLC also checks `AgentCycleInv` in `agent_cycle`.

`Refinement` follows the standard layout:

1. `RefInit`: `Init` maps to `ResultDelivery`'s `Init`.
2. `RefStep`: every step under `RefInv` is a mapped step or a stutter, with
   one case per action.
3. The last step combines them with `PTL`.

`RefStep` rests on these lemmas:

- `ActivePhase`: a running task implies the mapped phase is running or
  crashed, and a write in flight implies it is running.
- `FinishedDrained`: a finished aggregator leaves no running task, and
  `written` holds exactly the done tasks. This is what `Finish` needs.

`RefInv` needs the extra conjunct so that a handler panic maps to the
crashed phase and never to idle.

`LoginRefinement` has the same layout (`RefInit`, `RefStep`, `PTL`).
`RefStep` has one case per action. A shared step shows that an answer
`InternalServerError` or `WrongCredentials` after the emptiness check is in
`Answers`. That step needs the extra conjunct of `RefInv`: without it, a
failed query at stage `connected` could not be told from a request with
empty credentials. For `CreateToken`, `AuthInv` puts the verified row in
`Owners(request)`.

`WriteBackCorrect` proves an action property from an invariant. The lemma
`WriteBackStepHolds` shows `AgentCycleInv /\ [Next]_vars => [WriteBackStep]_vars`.
Only `AggWriteOk` and `Setup` change `written` (`WrittenOnlyByWriteOrSetup`),
so the lemma needs just two cases:

- `AggWriteOk`: `ResultPlaces` gives that `cur` is not yet written.
- `Setup`: `Phases` gives that the aggregator is `none` or `finished`.

`FallbackCorrect` covers variant 2 for every id length, usize width, alphabet
and path length. The proof never looks into what `SplitOn` returns. Two
lemmas carry it:

- `Variant2Found`: variant 2 finds something exactly when some part has
  `IdLen` characters, and then it finds the first such part. It rests on
  `MinExists`, a non-empty set of naturals has a least element, proved from
  `WFMin` and `NatLessThanWellFounded`.
- `ByteLenNarrow`: with no wide characters, `str::len` equals the character
  count.

The hypothesis `WideChars = {}` is needed. With a two-byte character the
property is false: `ingress_wide` finds a part of `IdLen` bytes but fewer
characters. `FallbackInv` was checked by TLC on the `ingress` instance
(222135 states) before it was proved.

`FilterCorrect` rests on the lemma `FieldRouting`. For each of the twelve
labels, `from_sql` followed by `get_field_value` on a `From<Checkin>` row
gives the checkin's column of that name.

The theorems rely only on the named assumptions on the constants:
`NTasks`, `Capacity` and `MaxCycles` are positive naturals, and the empty
string is a username and a password. `FallbackCorrect` uses no assumption on `IdLen`, `UsizeBits`, `UriChars`
or `MaxUriLen`. Its one hypothesis, `WideChars = {}`, is stated in the
theorem.

These stay with TLC:

- **Liveness.** `CycleCompletes` and `EventuallyDelivered` need fairness and `ENABLED`, which the
  prover does not handle.
- **The string algorithms.** `SplitOn`, `FlattenSeq`, `DecimalValue` and
  `Decimal` are recursive functions. Two things are out of reach:
  - *That the function is well defined.* This needs the library's
    recursive-function theorems. They take the defining expression as an
    operator parameter, which no installed prover can instantiate.
  - *What it computes for every input.* This needs induction over data,
    whose theorems take the predicate as an operator parameter in the same
    way.

  TLC checks the algorithms against reference definitions on all paths up
  to the bound.
- **The violated properties.** These are findings, not theorems.
- **The Ingress invariants other than `FallbackFirstMatch`.** These stay
  with the `ingress` run:
  - `PositionalIdExact` compares `Variant1Id` with the rendering by
    `Decimal`, which needs what `SplitOn`, `FlattenSeq` and `Decimal`
    compute.
  - `Ingress`'s `TypeOK` needs `SplitOn`'s pieces to be strings of the
    alphabet, which is again induction over data.
- **The model-checked runs of `RefinesDelivery`.** `agent_refinement`
  checks the mapping on the small instance. The theorem then covers every
  instance.

## Findings

1. **The kill date is not enforced.** When `NtTerminateProcess` fails,
   `exit_command` returns (`command.rs:31`), and `command_handler` carries on
   with a full cycle.
2. **One failed write-back stops the agent.** The aggregator's
   `write(..).unwrap()` (`handler.rs:138`) panics. The results buffered in
   the channel are dropped with the receiver, and the forwarders' `let _`
   (line 111) discards the ones not yet sent. The handler's `unwrap` on the join (line 120) then panics as
   well.
3. **Encrypted schemes panic.** Every Symmetric and Asymmetric arm of
   `handle_request` is `todo!()` (`heuristic_handler.rs:52` and on).
4. **Route precedence defeats the fallback.** Any path with two or more
   segments goes to variant 1 (`heuristic_handler.rs:224`). So an id behind
   a decoy first segment gets a 400, never the fallback's search.
5. **The fallback counts bytes, not characters.** `heuristic_handler.rs:214`
   compares `part.len()` with 32, while the comment on line 211 says it
   finds "the first 32-character segment". A percent-encoded part of
   sixteen two-byte characters is taken as the id.

## Not modelled, and why

- **Code outside `src/`.** The `Protocol` implementations, the encoders and
  crypto (`rs2_crypt`), `TaskSpawner`, `process_body`,
  `decode_or_fail_response` and the checkin, refresh-token and terminal
  routes are not under `src/`. They are abstracted to their outcomes where a
  modelled handler calls them.
- **The raw-pointer helpers (`handler.rs:143-158`).** They create aliasing
  `&'static mut` references. That is undefined behaviour below the level of
  the model, and it is listed as a hazard.
- **Request timing.** The early return before Argon2 for unknown users leaks
  through response time, which TLA+ states do not describe.
- **The global-session command handler (`global_session.rs`).** It is a
  stateless match: Clear and Exit return marker strings, and Session panics
  in `todo!()`. What the markers do happens in the terminal route and the
  frontend, neither under `src/`. So no state in the repository would
  change, and no property could tell the arms apart beyond the match
  itself.
- **`CreateNotification` (`notification.rs`).** `new`, `with_message` and
  `with_title` set fields of a value that nothing under `src/` stores or
  reads.
- **The JWT keys at login (`authenticate.rs:72`).** `get().unwrap()` panics
  if the keys were never set. Only a test sets them (line 166), and the
  server start-up that sets them is not in the repository, so the model
  takes them as set.
- **The protected routes (`protected.rs`).** The file only merges routers
  whose code is not under `src/`.
- **`jwt.rs`.** It only prints random bytes.
