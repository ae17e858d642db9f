# Verification of rlstatsapi

rlstatsapi connects to the Stats API that Rocket League serves over TCP, turns its
JSON messages into typed events, and relays them, in the format of the SOS plugin,
to overlays over websockets.  This directory holds TLA+ models of its programs,
TLC configurations that check them on small instances, and TLAPS proofs of the
properties that matter most, for all values of the constants.

Source paths below are relative to the repository (`src/client.rs` and so on).

## 1. The system

| component | state it keeps | operations | talks to |
|---|---|---|---|
| Stats API client, `src/client.rs` | socket, `read_buffer`, connection configuration | connect (with retries), reconnect, `next_event`, `next_filtered_event`, the two streams, `send_command`, `close` | the game over TCP; every program owns one |
| Connection configuration, `src/config.rs` | the ini file | `prepare_connection_config`: create, read, correct and write the file; discovery of the installed file | the client's `connect`; the game, which reads the same file |
| Event model, `src/events.rs` | none | parse a message, serialise an event, "effective" values of a player | client, filters, translation |
| Commands, `src/commands.rs` | none | validate, to and from JSON | `send_command`, `rl_command`, Python |
| Filters, `src/filters.rs` | `PlayerTracker.latest` | `EventFilter::matches`, `update_from_event`, match signals | client, console programs, Python |
| SOS translation, `src/sos.rs` | none | `translate_stats_event`: one or two payloads for an event | relay, broadcast server, desktop broadcaster |
| Broadcast server, `src/bin/sos_broadcast.rs` | tokio broadcast channel of payloads, shutdown watch channel, `client_count` | `run`, `run_accept_loop`, `handle_client`, reconnect | game (client), overlays (websocket server) |
| Relay, `src/bin/sos_relay.rs` | one websocket, the payload being sent | `run`, `send_envelope_with_retry`, websocket and game reconnects | game (client), one overlay server (websocket client) |
| Desktop broadcaster, `src/bin/sos_broadcast_gui.rs` | what the window shows, a queue of `WorkerEvent`s, a stop channel; the worker as the broadcast server | start, stop, drain once a frame, drop; worker, accept loop, handlers | user, game, overlays |
| Mock broadcaster, `src/bin/mock_broadcast.rs` | scenario index, randomised match, channel as above | tick, accept, handle client | overlays |
| Python bindings, `src/python_bindings.rs` | an optional client | connect, reconnect, next, send, close | a Python program |
| Console programs, `src/bin/rl_events.rs`, `player_board.rs`, `tick_listener.rs`, `raw_events.rs`, `rl_command.rs` | event loops over a client | print, filter, reconnect | user |

What is hard in this code: a byte stream cut into reads at arbitrary places and calls
that are dropped while they wait (`select!`, timeouts); tasks that share a bounded
channel whose slow readers lose messages; two channels and a counter that say how a
server ends; a websocket that breaks while a payload is being resent; a window that
sees a worker only through a queue; and a file that several programs rewrite in place.

For each part, what makes it correct: the client hands over what was written, once and in
order, whatever the reads and cancellations; a server counts its overlays exactly, loses
only what a slow overlay let be overwritten, stops at its limit and can be stopped; the
relay loses nothing between two websockets; the window tells the truth about its worker;
the file says what the connection was told; and an overlay that reads payloads ends up
with the game's own picture of the match; a program that reads events prints what it was
asked for and survives, or reports, every lost connection; a command reaches the game with
the meaning the user gave it, or is refused.

## 2. Modules

| module | stands for | state and actions |
|---|---|---|
| `EventFeed` | what a client promises (abstract) | per connection a FIFO of messages and how it ended: `Write`, `Ends`, `Resets` of the game; `HandOver`, `Skip` (a filtered call), `AnswerClosed`, `AnswerError`, `Renew` of the program |
| `StatsClient` | `src/client.rs` | `conn`, `peer`, `script`, `wire` are socket and game; `buffer` is `read_buffer`; `call` is where the future of a call stands. `ParseBuffer` is `try_parse_buffered_event` with the branch of its caller (value, syntax error, want more, closed); `ReadBytes`/`ReadEof`/`ReadFails` are the three outcomes of the socket read; `CancelCall` drops the future at its only await |
| `BroadcastServer` | `src/bin/sos_broadcast.rs` | `main` is `run`, `accept` the accept loop, `task[h]` a handler; the channel is `tail` with a cursor `next[h]` per receiver; `flag` is the watch channel. One action per arm of each `select!` and per await behind it |
| `SosRelay` | `src/bin/sos_relay.rs` | `main` is `run`; `socket`/`wire` the websocket and what the operating system holds for it, at most `WireCapacity` payloads the overlay has not read: a write waits for room (`WriteEnds`), and nothing else of the relay runs meanwhile. `SendFails` goes to reopening with the payload kept; a signal and the limit lead to `CloseEnds`, the Close frame of `graceful_overlay_shutdown`, which waits like a payload |
| `GuiBroadcaster` | `src/bin/sos_broadcast_gui.rs` | window (`running`, `status`, counts), `stop` and `events` between window and worker, the worker and its handlers. `DrainEvents` is one frame |
| `IniConfig` | `prepare_connection_config` of `src/config.rs` | the lines of the file; per program where it is. A write is `Truncates` and `Fills`, as `fs::write` is |
| `MatchEvents` | `src/sos.rs`, the matching half of `src/filters.rs`, `effective_boost` | operators only: `TranslateStatsEvent`, `Matches`, `Snapshot` and what they call |
| `MatchConsumers` | `PlayerTracker`, and the two readers of the events | a game plays matches (external); every event goes to an overlay through `TranslateStatsEvent` and to the tracker through `UpdateFromEvent` |
| `MockBroadcast` | `src/bin/mock_broadcast.rs` | `index`, `log`, and of the randomiser the players; its accept loop, handlers, channel and shutdown are steps of `BroadcastServer` (the two files share that code but for the length of one delay), taken through `INSTANCE` |
| `EventJson` | the parsing and printing half of `src/events.rs`, event tokens of `rl_events` and the bindings | operators only: `ParseStatsEvent`, `StatsEventToValue`, `ParseEventFilterValue`, `BuildFilter` |
| `Commands` | `src/commands.rs` | operators only: `Accepted` is whether `from_value` succeeds, `ToValue` what is written |
| `ConsolePrograms` | `rl_events`, `player_board`, `tick_listener`, `raw_events`, `rl_command` | `cli` is the command line, `pc` where the program is, `tries` the loop of the connect or reconnect; a call of `next_event` is one of the feed's answers |
| `PythonObject` | the client object of `src/python_bindings.rs` | `holds` is `self.client.is_some()`; one action per method, a read in two (it blocks) |
| `FeedReaders` | one program at work | the feed, and behind it a console program or a Python program, as `cli` says |
| `Selections` | | `Keep`: the elements of a sequence that are in a set. `SelectSeq` with its recursion in sight, for the definitions that are proved about |
| `DataLemmas` | | lemmas about sequences, `Keep`, remainders, least and greatest numbers that the proofs share |
| `StatsClientProofs`, `BroadcastServerProofs`, `GuiBroadcasterProofs`, `MockBroadcastProofs`, `MatchConsumersProofs`, `IniConfigProofs`, `FeedReadersProofs` | | theorems about the module they are named for; `MatchConsumersProofs` also those about `SosRelay`, whose definitions begin with `Relay` where both modules would use a name |
| `MC*` | | instances for TLC |

How they compose: `StatsClient` is shown to implement `EventFeed`.  `FeedReaders` puts the
console programs and the Python object on that feed, whose actions are steps of the
programs, so what is shown there holds of programs on the real client; `EventJson` says
which messages are events.  The servers read the feed only as "an event of one or two payloads arrives", "the feed ends", "a reconnect
succeeds or fails", which is what `EventFeed` leaves of the client.  `MatchEvents` says
what such an event and its payloads are.  `MockBroadcast` is shown to implement
`BroadcastServer`.

Data is abstracted to what the properties tell apart: bytes to cells (two to a value, so
a read can end inside one), payloads to their number, ini lines to key and value, ids of
players to pairs, guids to numbers with 0 for the empty one; an
event in JSON to how its envelope is spelled, its name and whether its data is an object, a
string around one, or neither; a command to its fields and their types.

Definitions commented "Faulty variant" are a mistake one could make in the code at that
place; each makes one property fail, which shows that the property looks there.

## 3. Runs

| run | shows | bounds, and why they are enough |
|---|---|---|
| `StatsClient` | no byte is lost, mixed between connections or taken twice; values come once, in order; `Ok(None)` is honest; a syntax error is final for its connection; the client implements `EventFeed`; a program that keeps asking gets what was written and no call outlives the connection | two connections, 2 and 4 cells: half a value left over at a reconnect, two values in one read, whitespace and malformed text before, between and after them; two connect attempts: a first, a last |
| `BroadcastServer` | exact client count; each payload delivered once and in order, in hand, or reported as lagged; only overwritten payloads missed; the limit holds inside an event of two payloads; no payload relayed while an overlay is subscribed is given up as unheard | two symmetric handlers, ring of 2, five payloads, limit 4: a receiver can lag twice, subscribe late, and the limit falls inside an event |
| `BroadcastServerLive` | a signal ends `run`; a lost feed is resolved; the tasks end with `run`; an overlay that reads gets every payload relayed since it connected, or is told that it lagged | ring of 1, limit 2, no symmetry (it would be unsound for liveness) |
| `BroadcastServerLimitZero` | finding 1 | |
| `SosRelay` | the overlay reads in order and nothing twice; what counts as relayed was read, is on its way, or was on a websocket that broke; the limit; a signal ends the relay, unless the overlay stays out of reach or stays connected without reading | three websockets, five payloads: a payload can be resent twice; two payloads fit unread, so that a write and the Close can wait |
| `GuiBroadcaster` | the window offers Start exactly when there is no worker; the relayed total is true; Stop, closing and a failure each end the session and show it | two sessions, so that what the first leaves behind meets the second; one overlay, two attempts |
| `GuiBroadcasterClients` | finding 2 | two overlays, one session |
| `IniConfig` | a program alone is told what it leaves in the file, and gets a port conflict exactly when the file is left with one (it is checked after the file was written, `config.rs:97`); a second run says the same, a conflict too, and changes nothing; two programs lose foreign lines only through a torn write | one program: every file of up to two lines of eleven kinds and every option; two programs: five files, options that write in different ways; two runs each |
| `MatchConsumers` | after a tick the overlay's tables are the tick's; every reference in a goal, hit, statfeed or camera target is an id of the table; the guid is the match's and never the empty one; who follows the tracker's returned snapshots knows the latest; filters find exactly the player asked for, by name or primary id | two matches (a stale guid or snapshot needs two), two players that share a name or of whom one is nameless, five ways in which the game may write shortcut and boost, scores 0 and 1 |
| `MatchFilterPlayer` | finding 3 | one match |
| `MockBroadcast` | templates in order with no gap at the wrap; exactly `--max-events` sent; the mock implements `BroadcastServer`; players once shown stay and never fall back | five sends of a scenario of two picked from three, a pool of four players, a ring of 1, one overlay; `--loop` with `--max-events` |
| `FeedReaders` | a program prints or returns exactly the events it was asked for, once and in order, over reconnects; what is read is what was meant and what is written is read back the same; a command keeps its meaning and is refused if and only if the game would drop it; events are thrown away only after an error or on the program's own call; an outage ends in a new connection or in the program's end after its whole budget | three connections, so that two outages follow each other; budgets of 2 and 3 for 20 and 10 attempts: different, and more than one; `Traffic` messages per program (3 where `--max-events 2` must be passed over a reconnect) of three kinds: a tick, an event under its old name, and one that is no event; every kind, old name and spelling as a line of stdin, and all inputs of up to three of six lines; every set of fields of every command with values on both sides of each limit, `MaxShortcut` 12 for `u32::MAX`; a Python program has one choice of event types |

`CHECK_DEADLOCK FALSE` is set because every program here may end (and a game may stay
silent); that the ones that should end do is stated as liveness.

### Fairness

- `StatsClient`: the task of a program that keeps asking is scheduled (weak fairness of
  starting a call, parsing, end of stream, error). Reading has strong fairness: a call
  that is dropped again and again still finds the readable socket some time, for a poll
  reads before it can be dropped. Nothing is assumed of the game.
- `BroadcastServer`: weak fairness of the main task's own steps; strong fairness of
  `TakeSignal` and `AcceptLoopStops`, because tokio's `select!` picks among ready arms at
  random. Overlays are never assumed fair: a handler may stall in a write or a handshake
  for ever. Only `TasksEndWithRun` assumes, in its own text, that writes end, and
  `ReadersGetPayloads` that one overlay's handshake and writes do (`ReaderFairness`).
- `SosRelay`: the same for the relay's own steps. A write, of a payload or of the Close,
  is put off for ever only when it cannot end: the send has no timeout, so that an overlay
  that stays connected and stops reading blocks the relay for good. That it reads, or that
  its websocket breaks, is no fairness of the specification but a premise in the text of
  `SignalEndsReachableRelay` (`OverlayFairness`); without it TLC shows the blocked relay.
- `GuiBroadcaster`: as for the broadcast server. Connect attempts end one way or the
  other (the operating system gives up); nothing says that they succeed. The user and
  the game are not fair; the window's frames are.
- `FeedReaders`: weak fairness of a program's own steps, of the end of a connect attempt
  (success or failure), and of a read that has an answer. Nothing is assumed of the game,
  of refresh and deadline, or of the methods a Python program calls.

## 4. Proofs

`tlapm` proves, for every value of the constants that the modules' named assumptions
allow (no bound on connections, bytes, overlays, capacity, payloads, matches, players,
programs or lines of a file), the theorems below.  In each module the argument is the
same: an invariant that the steps preserve, one lemma or one step per action, and a last
theorem that the invariant implies the property a run checks.

`StatsClientProofs`
- `TypeCorrect`: the type invariant; it is inductive, the bound of `attempt` is what makes
  `unreachable!` unreachable.
- `BufferIsContiguous`: from the types; one step per action in `ContiguousStep`.
- `ValuesExactlyOnce`: `ExactlyOnceInOrder` is not inductive alone: one must know that the
  buffer is the right slice of the script (`Contiguous`) and that nothing was taken from a
  later connection (`TakenFromThePast`). `OnceIInv` is the conjunction.
- `ClosedIsHonest`: needs `ClosedMeansEnded`, that the game writes nothing after `Ok(None)`.
- `SyntaxErrorsStick`: an action property, from the invariant `Poisoned`: after a syntax
  error the malformed text is still at the front of the buffer.
- `ClientImplementsFeed`: the client implements `EventFeed`. The feed's `pending` is what
  the game has written and the client can still reach (`Reachable`), kept from the script.
  `FeedInv` says what the mapping rests on: what the game can write after what, that nothing
  malformed was ever drained, and that a call that reads has no value in its buffer. A write
  maps to `Write`, `Ends` or a stutter (text that is never read, whitespace), a parse to
  `HandOver`, `Skip`, `AnswerClosed`, `AnswerError` or a stutter, a new connection to `Renew`.

`BroadcastServerProofs`
- `CountIsAlwaysExact`: inductive with the types; each step changes `count` and the
  cardinality of `Registered` alike (`CountStep`).
- `LimitAlwaysHolds`: from `BelowLimit`, that a server still serving is strictly below.
- `HistoryIsExact`, `MissedOnlyOverwritten`: together one inductive invariant, with two
  facts: a handler that waits for its receiver holds nothing (`IdleHoldsNothing`) and a
  connection not accepted yet has no history (`FreeIsFresh`). The history goes back to the
  subscription: what was relayed since (`since`, a history variable) all went into the
  channel (`NothingDroppedFor`), over every way in which other overlays come and go.

`MatchConsumersProofs`, the relay (`SosRelay`)
- `RelayTypesHold`: the type invariant.
- `RelayReadsInOrderOnce`, `RelayAccountsForEveryPayload`: one invariant, `RelayInv`. What
  the overlay has read and what it can still read are one increasing sequence (`Path`), so
  that reading moves a payload within it and a break cuts its end off. It needs that a
  websocket that is not up holds nothing, and that a relay not yet closing its websocket is below its limit.

`GuiBroadcasterProofs`
- `GuiCountIsExact`: as for the broadcast server, while a session exists.
- `GuiShowsRealSession`: `SessionReports` says what is queued for the window: nothing
  without a session, no Stopped from a worker that goes on, and Stopped as the last status
  of one that ended. Without the last part a status drained after Stopped would be shown.
- `GuiShowsTrueTotal`: `RelayReports`, that the last total queued is the session's.

`MockBroadcastProofs`
- `MockPlaysScenario`: `PlayInv`: where `run_server` is in the scenario (`index` is the
  number sent modulo the scenario's length) and that it sends only within it.
- `MockImplementsServer`: step by step, each step of `run_server` is one of
  `BroadcastServer`'s with the limit that the scenario's end makes, or a stutter.
- `MockPlayersStay`: an action property, from `PlayersInv`: the payload made last for a
  player is what the map holds.

`MatchConsumersProofs`, the readers of payloads and events
- `GameHolds`: the invariant of the game that feeds the readers.
- `OverlayHasRealGuid`: an invariant of one step's payloads (`Said`).
- `OverlayKeepsTick`: from `TablesInv`, which names the id under which each player is found.
  `TickTables` is the translation's own fact: whatever the order of the tick, players with
  an id of their own have their own entry, those who share one disturb nobody else.
- `ReferencesResolve`: from `RefsInv` and `TablesInv`: references and tables give the same id.
- `TrackerHoldsLast`: with the ranges of what is compared, for the tracker compares a
  snapshot with none.
- `FilterFindsItsPlayer`: from `LastInv`: whom the last event names, by kind;
  `AskedByName` and `AskedById` say what each criterion then finds.

`IniConfigProofs`
- `IniInvHolds`: types and where the file must exist; `TornInv`: unless a write was seen half
  way, at most one program is writing and every text in the file, or read and about to be
  corrected, has the user's port and comments; `AloneInv`: what a program that has the file
  to itself left there (`LeftBy`), from the end of one run into the next.
- `ResultIsInFile`, `SecondRunAgrees`, `WholeWritesLoseNothing` follow, with the lemmas of
  `prepare_connection_config` itself: what an upsert changes (`UpsertFacts`), what a
  correction leaves (`CorrectedFacts`), that a second correction of a corrected text asks
  for nothing new (`PortStays`, `RateSavedBefore`).

`FeedReadersProofs`
- `InvHolds`: one invariant for a feed and whichever program reads it. Its parts, and why each
  is needed: `TypeInv`; `PlaceInv`, where a program can be by its command line (one whose
  arguments are refused goes nowhere; an `rl_command` past its connect attempts has opened a
  connection or been refused one); `LossInv`, that a program reconnects only after an error or with nothing left to
  read, and that nothing is pending before the first connection; `ReadInv`, that a Python
  object that reads has understood its event types; `LimitInv`, that a program that goes on is
  below `--max-events`; `ShownIsWanted`, what was shown against what was handed over so far;
  `SentInv`, what was sent against what the library makes of it.
- `PrintsHolds`: from `ShownIsWanted` and `LimitInv`. A step reads at most one text and shows
  at most one (`StepShows`), and shows it just when it is wanted (`ShownGrows`, `ShownStays`).
- `DecodedHolds`: every text is one whose meaning the writer gave (`TextsAreMeant`); the parser
  finds that meaning (`ParsedAsMeant`), and reads what the library writes of it as the same
  event (`ParsedAgain`). The meaning is stated without the parser: `IsWriting` and `IsNoEvent`
  say in the game's terms which JSON means which event, and which means none.
- `SentHolds`: for every command with any fields of any JSON type and value: the digits of a
  number are read back as that number (the least counterexample again), so a
  command written is accepted again and says the same; it is accepted if and only if it is
  `WellFormed`, which describes what the game takes.
- `LossHolds`: an action property, from `LossInv`.
- `ProgramsUseTheFeed`: the composed system implements `EventFeed`. `ClientImplementsFeed`
  says that the client implements it too, so that what is proved of the programs rests on
  the client's promise and on nothing else of it (its liveness aside).

`DataLemmas` proves what recursive functions such as `Keep` compute by the least
counterexample (`LeastNat`, `Reaches`): the library's induction theorems take an operator
as a parameter, which the provers cannot instantiate.

The assumptions are those named `...Assumption` in the modules; every run evaluates them.
They are types, and in `MatchEvents` and `MatchConsumers` that the value for "no value" is
none of the others and that only the blank name is written like the blank name; in
`IniConfig` that a file and the template are lines, none with the rate that stands for
"no rate".  In `FeedReaders`, `MessageAssumption` and `CommandLineAssumption` tie the ghost
fields `meant` and `asks` to what they stand for: a message is any JSON with any envelope, name
and data whose `meant` is what the game means by it (or that it is no event), a command line
is any of the programs with any tokens, limit, command and input, whose `asks` is the kinds
named by tokens that are understood.  They leave out one thing: data that is a string in a string
under a name the library does not know, which the game does not write (section 6).  The bounds of the runs (`MaxPayloads`, `Runs` and their kind) are in the guards and
may have any value.

Only model-checked: liveness (fairness and `ENABLED` are beyond this prover). Every safety
and action property of a passing run is stated by a theorem.  `TypeOK` of
`IniConfig` says more than its proof needs (16-bit ports); the proof uses `TypeInv`.
What the runs say of liveness thus holds of their instances only: `WrittenValuesArrive`,
`CallsEndWithTheGame`, `SignalEndsRun`, `FeedLossResolved`, `TasksEndWithRun`,
`ReadersGetPayloads`, `SignalEndsReachableRelay`, `StopEndsSession`, `CloseEndsProcess`, `EndIsShown` and
`OutageResolved`.

## 5. What the runs found

1. `--max-events 0` broadcasts one message: the limit is looked at after counting
   (`src/bin/sos_broadcast.rs:187`, and likewise in `sos_relay.rs:157`, the window, the
   mock and `rl_events`). The help text says "Stop after broadcasting n SOS messages".
2. The desktop broadcaster may show a wrong client count for as long as nobody comes or
   goes: handlers change the atomic count and report it in two steps.
3. `rl_events --player` says it matches events involving the player; a crossbar hit is
   never matched, although it names who touched the ball last, as a goal does.

Seen while reading, stated by no run:
- The relay cannot be stopped by a signal while its overlay stays connected and does not
  read: neither a payload's write (`src/bin/sos_relay.rs:312`) nor the Close at the end (205)
  has a timeout, and the branch of `select!` that waits for it keeps the signal waiting.
- A limit reached by the first payload of a countdown drops the second.
- Handlers are not awaited at shutdown; an overlay may miss the last payloads and the
  close frame, also after `mock_broadcast --no-loop`.
- With a port override, `Port` in the file may equal its `WebPort` unnoticed.
- A camera target with shortcut 0 falls back to the bare name (tested so); players with
  blank names share the empty id.
- The Python examples `goal_scored_events.py` and `player_watch.py` look up lower-case keys
  where events are serialised with the game's spelling (`Scorer`, `Players`).
- A failed start of `tick_listener`, `raw_events` and `rl_command`, which try once, is
  reported as "after multiple retries (~5s)" (`src/console.rs:56`).
- In a list of event types `all` clears what stands before it for `rl_events`, and means
  nothing to the Python bindings: `["goal", "all"]` asks for goals only.
- One message that is no event makes `rl_events` and `player_board` reconnect, and what
  stood behind it is gone (`NothingLostUnasked` allows it, as a loss after an error); `rl_events --stdin` passes over such a line, but ends at one that
  is not UTF-8 even without `--strict-stdin`.
- `next_filtered_event_json` connects before it finds that an event type is unknown.
- A tick that comes within the refresh time of `player_board` is never drawn: after a burst
  the board shows an older one until the next tick.
- `player_board` computes `Instant::now() - refresh`, which can panic on systems whose clock
  starts at boot when `--refresh-ms` is longer than that.
- A Python read blocks until the feed answers and nothing else of the interpreter runs; an
  object that answered `None` keeps its dead client until `reconnect`, `connect` or `close`.
- The status line of the desktop broadcaster may go from Stopping back to Running when
  Started is drained after a click on Stop.

## 6. Not modelled

- Value-for-value conversion of the other fields of events; JSON with a key twice or an
  array for an envelope. The data of an unknown event that was a string in a string is one
  string after reading and none after reading it again: only known events and data that is
  no string are shown to be stable.
- Argument parsing other than event types, `--max-events`, `--strict-stdin` and the command.
- Discovery of the installed ini file: reads the environment and the file system only.
- Layout, colours, log lines; the ball, locations and most numbers of a payload, which are
  copied through; the clock and the scores the mock makes up.
- `--no-loop` of the mock is an action of the model (`Stops`) that the run's constants do
  not exercise.
- What the console programs print of an event, and the functions of the Python module that
  keep no state (they are `EventJson`'s and `MatchEvents`' operators).

## 7. Plan

Done in this order, the most important behaviour first: the client and its feed; the
broadcast server; relay and desktop broadcaster; the ini file; events, filters and
translation; the mock; the programs that read events, and commands.

The safety and action properties of every component are proved.

What is left is not within reach of these tools or not in the code's own logic: liveness for
all values of the constants, and the parts of section 6.  One hazard has no property: that
the status line goes back to Running after a click on Stop (end of section 5); nothing in
the repository says that it may not.
