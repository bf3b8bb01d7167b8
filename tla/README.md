# A verification development for TETR-D

TETR-D is a two-player versus game in the browser with an authoritative server in one
Node process: `packages/room-core` holds the rules of a room, `packages/game-core` those of
the game, `packages/protocol` the messages, `apps/server` the server and `apps/web` the
browser. This directory models what decides who may do what and when, the game itself, and
the two places where the browser acts by its own clock; it checks the models with TLC and
proves what matters most of the room, its runtime and its outbox, the life of its matches,
the way of the players' inputs and what a viewer is shown, for every value of the constants.

    tlc -workers 2 -config Room.cfg Room.tla     # any pair of the table of runs
    tlapm RoomProofs.tla                         # and the other *Proofs, ArrayLemmas

## Inventory

How the parts call each other, from a browser to a browser:

    keys -> HandlingEngine -> InputOutbox -> DuelTransport
      -> GatewayConnection -> RealtimeService -> SessionStore, ConnectionHub
      -> RoomRuntime (one queue per room) -> RoomActor -> room-core
      -> RoomCommitOutbox -> RoomEffectProcessor -> MatchRegistry -> ConnectionHub -> browsers
    FixedStepLoop -> MatchRegistry -> MatchCoordinator -> PlayerSimulation -> snapshots
      -> MatchDeltaReceiver -> the page, the stimulation device
    at the end -> replay -> RoomRuntime (match.finished)

Everything on the server runs on one JavaScript thread: two pieces of code interleave only
at an `await`, a timer or a message. The steps of the models are the stretches between.

| Part | State | Operations | What is hard | What makes it correct |
|---|---|---|---|---|
| Room rules (`room-core`) | members, seats, host, countdown, series, match, deadlines, revision | 16 commands of users, timers, connections and matches | stale requests and timers in any order, members coming and going in every phase | the invariants `assertRoomInvariants` tests, and those it does not; every deadline resolved |
| Room actor and runtime | dispatch queue, idempotency cache, armed timers, unpublished commit | dispatch, publish, retry, fire, dispose | the commit is applied before it is published; timers fire early, late or into a full queue | no commit lost or applied twice, no deadline forgotten, every caller answered |
| Commit outbox | a lane per room, wait queue, completed keys | enqueue, durable enqueue, pump, retry, dispose | handlers and both schedulers fail, duplicates, bounded memories | order, no loss, no lost wake-up |
| Effects and matches | commit contexts, simulated matches, the shared loop | deliver effects, start, forfeit, prune, finish, retire | late effects, rooms closing, one loop for all rooms | a match is simulated exactly while its room holds it, its result comes back |
| Inputs | outbox and predictions; queue, epoch, history | press, enqueue, drain, acknowledge, resume | pipelining, lost connections, answers out of phase with snapshots | inputs applied in order and shown exactly once |
| Simulation | board, piece, bag, hold, garbage | inputs, the end of a frame, the exchange of attacks | buffered holds and turns, lifted spawns, netting of attacks, rising garbage | nothing lost or made: cells, pieces, garbage; no piece inside another |
| Sessions and hub | session, token, generation, current connection, room index | guest, resume, bind, unbind, close | superseded connections, a lost `auth.ok`, retries of what has changed meanwhile | only the current connection acts; the room hears of going and coming back |
| Gateway connection | serial queue, limiter buckets, heartbeat | upgrade, messages, close | messages queued behind an await, a close beside them | one message at a time, in order |
| Room messages | create receipts, pending memberships | create, join, leave, commands | session binding around an awaited dispatch | a session bound to a room is its member |
| State delivery | baselines per viewer and generation; receiver's state, resync flag | full, delta, reject, resync | deltas against a state the viewer never got | the viewer's state is one there was, and gaps are repaired |
| Replays | recorder, chain of operations, hash chain, file | record, finalize, close, read, reconstruct | failure at any disk operation, a machine that stops | a final file reproduces the match; the match's result is not held up |
| Fixed-step loop | frame, epoch, wake, overload | start, pump, pause, resume, close | catching up, pausing, a failing step | no frame skipped or run twice |
| Input handling | held keys, charges, buffers, predicted piece | key down and up, frame, blur, spawn | late frames, several keys for an action, cuts of the charge | the newest held direction shifts, whatever the frame rate |
| Stimulation device | queue of penalties, waveforms, writes | arm, stop, penalty, settings, connect | timers and writes that outlive what started them | it stops when told to and in time, within the limit |
| Room commands of the page, settings, solo, rendering, static files | | | | outside the core |

`PROJECT.json` lists the same parts with their files (`components`) and the hazards of this
code with the properties that watch them (`hazards`).

## The modules

**Room** (`room-core`). A variable per field of `RoomState` that a rule reads; the members
are the functions `conn`, `joined`, `overdue` and `forfeitRequested`. One action per command,
standing for the committed outcome: a rejected or ignored command leaves the room alone, so
it is a stuttering step, and its tests are the guard. Time is abstracted to whether each
deadline has passed, and the clock's actions let the deadlines pass in any order, so that
all policies are covered at once. `effects` and `revised` are the output of the last commit.
`consent` is a history variable: what was in force when a ready mark or a vote was given.

**CommitDelivery** is the abstract promise of the outbox: per room, effects are settled one
at a time in the order of the commits. **CommitOutbox** (`rooms/roomCommitOutbox*.ts`)
implements it: lanes, the retry handle and the microtask that starts a lane as separate
flags, the wait queue, the memory of completed keys, and schedulers that refuse, or call
back inside `schedule`. `InOrder` is the refinement, with
`owed` mapped to the effects of the lanes not settled yet. It watches a commit from its lane
on; those that wait for a place have `AcceptedSettles`, by which they are answered in the end,
and, proved only, `WaitersInTurn`.

**RoomRuntime** (`rooms/roomRuntime.ts`, `roomActor.ts`). The dispatch queue, the stage of
its head (applied, publishing, waiting for a retry, stopped), the cache of answers, the
tasks armed in the scheduler. The room is reduced to what the runtime reads: revision,
closed, and the identity of each deadline; what commands do to it is module Room. A timer
that is present, passed and not yet acted on is committed, with one exception that the room
makes: while a match is being resolved, which is when another player's reconnect deadline is
spent, a player's own is ignored (`AwaitsMatch`, `presenceCommands.ts:222-227`) or, for a
spectator, committed; which of them is a player is a choice.

**MatchLifecycle** (`roomEffectProcessor`, `roomEffectActions`, `matchRegistry`, `serverApp`).
Several rooms, their unpublished commit and their lane of effects, the registry's matches,
the one loop, and the way of a result through the replay back to the room. It composes what
the three modules above establish: one commit published at a time, effects in order. The
loop is **FixedStepLoop** (`matches/fixedStepLoop.ts`): a record of its fields and an
operator per method, the frame and the epoch told by how late the loop is. Starts and prunes
start, pause and resume it, its callback steps the matches, time passes at any moment, it
may halt, and the server may close. `owed` is the history of time run and not yet simulated.

**Sessions** (`sessionStore`, `connectionHub`, `realtimeService`, `gatewayConnection`,
`webSocketGateway`, `roomMessageService`, `roomMembershipCoordinator`, `roomManager`, both
retriers). One guest and the connections that succeed each other under his session. Every
`await` is a program counter, and a connection has two processes: the serial lane of its
messages, and its close, which runs beside it. A room is this guest's membership, the
commands its runtime has not applied and the removals its outbox has not delivered; the
other players are what they do to the guest (kick, close, fill the queue). A socket closes at
any await. `cut` and `lapsed` are histories: the connections that closed before a room had
answered their return, and the rooms whose expiry was found by the guest's own join.

**MatchInput** (`InputOutbox`, `DuelRoomSession`, `matchInputQueue`, `matchCoordinator`,
`matchRegistry`, `realtimeService`). One participant's browser, its connection (two FIFOs),
and the server's queue, across lost connections and resumes. `applied` is a history, and
`refused` observes whether an input of the present epoch was refused.

**StateSync** (`matchDeliveryBaselines`, `matchDeltaProjection`, `matchRegistry`,
`connectionHub.send`, `MatchDeltaReceiver`, `matchDeltaReducer`). One viewer: the baseline the
registry keeps for it, full snapshots and deltas with their patches and events, sends that
are accepted, refused or lost, the receiver and its one resync request. A board is the
number of its changes, so that a patch applied to another board is seen to give a state that
never was; `had` observes the states there were, `refused` whether the hub refused a send and
kept the connection (which `onBackpressure` may decide, and the server's default does not).

**Playfield**, **VersusAttack** and **PlayerSimulation** are the game: the board with SRS+
turns, clears and spins; what a clear is worth and how it meets waiting garbage; one
player's inputs, locks, spawns and holds. They are operators on values: a player is a record
with the private fields of the class. **MatchDuel** (`matchCoordinator.ts`) gives two of
them state: a frame applies the first player's inputs, then the second's, then nets their
attacks; `turn` says how far that one synchronous call has come. `tally` and `swaps` are
histories of what was locked, queued and held; `presses` bounds the inputs, and `Supplied`
ends a match before its last bag does, which in the code never ends.

**ReplayLog** is what a replay file says: its chained records, the reader that verifies them
line by line, the reconstruction. A match is there the history of what its two simulations
were given, of which all else is a function. A frame in which a player has more actions than
the simulation takes throws, after it has been counted, drained and handed to the recorder;
the registry then forces a draw (`Broken`, `Drawn`). **ReplayPersistence**
(`matchReplayPersistence`, `matchReplayRecorder`, `replayWriter`) is the chain of operations
of one match, the stage of the one under way, and the file: its name, its lines, and how
many of them are synced. A crash keeps any prefix that has the synced lines, and may tear
the next.

**Handling** (`handlingEngine`, `generationInputBuffer`, `v3HandlingEngine`,
`MatchInputController`, `DuelMatchInput`). The keyboard of one player: the engine's record,
the buffer of held turns and holds, the controller that predicts what it sends and tells the
engine which pieces appeared. The board is reduced to whether a piece is shown, and to what
the next lock or snapshot may show.

**DgLab** (`dglabController`, `dglabBluetooth`, `useDgLabPenalty`). The controller's queue of
penalties with its expiry timer, the transport's waveforms and queued writes, the link, and
the device with what it puts out. A frame is what it makes the device put out.

**MCCommitOutbox**, **MCSessions**, **MCMatchDuel**, **MCReplay**, **MCHandling** and
**MCDgLab** give the small values and functions their cfg files name; the other modules are
instantiated by their cfg alone. **Arrays** has the three array methods the proofs look into,
`filter` (`Keep`, with the test given as a set), `flat` (`Flat`) and `reduce` where it adds up
(`Total`), as recursive functions.
**RoomProofs**, **RuntimeProofs**, **OutboxProofs**, **MatchProofs**, **SessionProofs**,
**PlayProofs** and **BrowserProofs** hold the theorems, **ArrayLemmas** what they use of
`Arrays` and of sequences. `MatchProofs` is about `MatchLifecycle` and `ReplayPersistence`
alike, `PlayProofs` about `MatchInput` and `MatchDuel`, `BrowserProofs` about `StateSync`,
`DgLab` and `Handling`. Each extends all of its own, which is why the initial condition,
actions and specification of a later one have its name: `ReplayInit`, `DuelInit`,
`DeviceInit`, `HandlingInit` and so on.

Definitions named `X_Mutation` are plausible bugs of `X`. Nothing uses them; they document
which property notices which bug, and are listed under `mutants`.

## The runs

| Run | Question | Bounds |
|---|---|---|
| `room` | Can any sequence of commands, timers and connection events break what the room's own assertion demands, let a seat's new owner inherit marks, forfeit twice, slip a change under the revision? Is a lost member resolved and an abandoned room closed? | 2 players, 1 spectator, 4 joins, series of 1 or 2 wins, 2 games |
| `outbox` | Does the outbox keep order, one copy of a commit and true answers when handlers and schedulers fail? Does it refine CommitDelivery, settle what it accepted, and answer who waits for a place? | 2 rooms, 3 commits, capacity 2, 2 waiting, 2 remembered, 2 attempts |
| `runtime` | Are commits published before the next command and unique, callers answered, and told of no commit that is not published? Is every deadline acted on, dropped or moved, also the second of two players who are away? | 2 reconnect deadlines, 1 request id, capacity 2, cache of 1, 2 sends, 4 commits of which 2 set deadlines, a scheduler that may refuse |
| `lifecycle` | Is a match simulated only while held, is the loop's time simulated once, does every match end in its room? | 2 rooms, 2 matches, frames of 3 units, delays of 2, batches of 1 frame, 6 units late, 1 away, 1 spent in a callback |
| `sessions` | Do session, hub and room agree, is a successor left alone, does the room hear of a loss and of a return? | 2 connections, 1 room, 2 requests, room queue of 2 |
| `inputs` | Are pipelined inputs applied in order and shown once? | 4 presses, 4 frames, 3 connections, history of 2, lag of 1 frame |
| `inputs_restart` | The same with a match that starts in the middle of a resume: violated, see below | 3 presses, 3 frames, 2 connections |
| `state_sync` | Does the browser show only states the match has had, and is a resync always answered? | 4 frames, 2 connections, 1 retained event |
| `duel` | Does a duel lose or make a cell, a piece, a row of garbage, or let a piece overlap? | boards 4 by 7, 2 kinds of pieces, 3 frames, 3 inputs of 13 kinds against a hard drop |
| `replay` | Is a final file whole, does it play back to the same end, is a match's end settled? | 2 frames, 2 inputs, 1 leave or return, chain of 2, a frame throws at a player's third action |
| `handling` | Does the engine follow the newest direction, never forget to repeat it, and act the same at any frame rate? | 6 keys, 3 settings, 4 key events, 4 units of time |
| `dglab` | Does a stop silence the device, does the limit hold, does every output end? | 2 armings, 2 events, 1 change of settings, 1 reconnect, 1 write under way, 3 units of time |

Why the bounds suffice.

* Rooms. Two players are the two seats; one of them also leaves, watches, comes back, is
  kicked or hosts. That a third does no harm to the safety properties is proved. Four joins
  let a player leave and come back; two games reach `between_games` and a completed series,
  with a draw in between. Two rooms are the least in which one can overtake or pause the
  other. A cache of one entry and a memory of two keys make eviction happen. The code's large
  limits (64 dispatches, 128 dispositions, 2000 frames) are made small, because the
  interesting states are at the limits.
* The loop. A frame is no multiple of the grain of delays (1 ms against 16.7 ms), and being
  two frames late with batches of one is catching up and overload, 8 frames in the code. Two
  matches are two of one room, or one in each of two rooms.
* Runtime. Two reconnect deadlines are the two players'. One of them is spent while the other
  passes, is moved by a return or a new loss, or waits for the match's end; a queue of two is
  full with both timers in it. Two commits set deadlines, so that one can be moved; the third
  may be a forfeit or the end of the match, and a fourth closes the room. The room's expiry and
  its countdown wait for no other deadline: they are the ones that are never ignored.
* Sessions. Two connections are a connection and the one that supersedes it; two requests
  let the guest create or join, lose the connection and ask again in the new one. The browser
  begins without a token or with one from before the server's start, which is refused.
* Delivery. Three connections let a connection be replaced while an older one's inputs are
  scheduled. Four frames hold a full snapshot, a delta, a resync between two broadcasts of one
  sequence and a delta after it; one retained event makes a gap.
* Duel. I and T are the pieces with the odd rotation box and with the spins. Boards start
  empty, with a row to be filled, or almost full, so that three frames reach full and mini
  spins, spin clears, doubles and quads, cancellation, both players sending in one frame,
  rising garbage, a lifted spawn, an immediate and a buffered hold, and top-outs by overflow,
  by a blocked spawn, and of both at once. The random choices (the hole's column, the
  rounding of an attack, the bags) are nondeterministic among a few. Not reached: auto-repeat
  of the simulation with an interval (`Handling` has it), surge packets beyond the board.
* Replay. A chain of two operations overflows; the two inputs carry one action or two of
  which one is fatal, so that the match ends at the end of a frame or by a forfeit, and a
  frame with both inputs of one player throws, the code's 65th action being the third here.
* Handling. Two keys for one direction, one of them bound to two actions, and settings with
  and without an interval, a cut, cancelling and a preferred soft drop. A frame may come at
  any time.
* Device. Two penalties overlap or follow each other, around a loss and return of the link.

CHECK_DEADLOCK is off everywhere: a closed room, a disposed runtime or outbox and a finished
match or file are ends of their systems, and bounds stop the rest.

### Fairness

Actions of users, of the network and failures have none. `Room`: a deadline passes, and a
timer that is due is dispatched until it is acted on, which is what `RoomRuntime` shows of the
real timers; a forced end is reported by the match. `CommitOutbox`: microtasks and armed
timers run; a handler comes back, and not with a rejection for ever (retries exist for
failures that pass). A lane whose schedulers refused both is given up by the code, which
`AcceptedSettles` excepts, and those that wait with it: a stranded lane keeps its places.
`RoomRuntime`: the same for its dispatches and its publication; a retry the scheduler refused
stops the runtime until it is disposed of, which its liveness properties except. Deadlines
pass; a timer that fires again and again finds the queue not full some time (strong fairness,
for each timer: that one is served would otherwise satisfy it for all); the clock is invalid,
and the outbox refuses, finitely often, as retries exist for failures that pass. The end of a match has no fairness there: `DeadlineMet` excepts
the deadline of a player that waits for it, and claims it again as soon as the match is over.
`Room` has the other half, `LostMemberResolved`, from the fairness of a match's end.
`MatchLifecycle`: progress of outbox and runtime, time passes, a callback that is due runs,
and a game ends if its frames are stepped, because gravity tops an idle board out; a loop that
halts and a server that closes are excepted in `MatchEnds`. `MatchFinished` is strongly fair
since a room's other commits disable it again and again, while the real queue is first in,
first out. `Sessions`: a continuation whose promise is settled runs, a room's queue and outbox
go on, and a socket that was asked to close does. `ReplayPersistence`: a disk operation comes
back, with success or without. `DgLab`: time passes, and a write comes back.

### Where code and documents disagree

`inputs_restart` exhibits one: `docs/protocol.md` says that inputs are deduplicated by epoch and
sequence. When a match starts while a participant's resume waits for the room, the start
records the new connection's generation and is sent to it, and the resume then sends it
again without a reset, in the same epoch: the browser numbers from 0 again, and inputs after
that are taken for repetitions of the first ones. `inputs` assumes that no match starts in
the middle of a resume.

These were met while modelling. No run has them, the property named shows each:

* `EndIsRecorded` with `QueueFills = TRUE`. `docs/room-mode.md:61` says a match's end is
  written back to the room. `match.finished` is dispatched once (`matchRegistry.ts:310`), and
  a full dispatch queue rejects it; the error is reported and the match dropped, and the room
  goes on holding it until its absolute lifetime ends.
* `LossAlwaysHeard`. `docs/room-mode.md:112` keeps the place of a guest who has gone for 15 or 60
  seconds. When the connection that returns closes before the room has answered it, because
  the room's queue was full or holds the command, the room's snapshot is still that of the
  connection before. Both loops of `roomConnectionDispatchRetrier.ts` give up (`:98-101`,
  `:104-120`), the older connection's close tells nobody since it was superseded, and the room
  counts the guest as connected, without a deadline, until he returns. `LossIsHeard` excepts a
  session whose last connection was `Cut`, and nothing else.
* `ClosedRoomIsUnbound`. `docs/room-mode.md:73` has a room that closes clear the bindings of its
  sessions. Any command that finds a room past its expiry commits its close (`room.ts:35-49`),
  a join too; `handleJoin` takes that commit for its own (`roomMessageService.ts:275-297`) and
  leaves the session bound, while the close clears former members only. The binding bars other
  rooms until the guest leaves or returns. `BindingIsMembership` excepts the room that a join
  found expired (`lapsed`), which nobody can enter any more.
* `DrawsReplay`. `docs/replays.md:42-45` has forced draws carried out at the last frame of a
  replay, which plays back to the recorded hashes. A draw is only ever forced by a frame that
  threw (`matchRegistry.ts:266-273`), for example for more than 64 actions of a player, which
  several messages of one frame may have; its inputs have been recorded by then, and the
  reconstruction throws at that very frame (`matchReplayReconstructor.ts:149`).
  `ReconstructionAgrees` says that it does, and that up to there it is the same match.
* `BindingIsMembership` with `Careful = FALSE`. `sessions` assumes that a guest waits for what
  he asked before he asks the next thing: a join and a leave of two connections may otherwise
  cross. It assumes nothing of when connections close.
* `SpinEndsInRotation`. `docs/rules/srs-plus.md:85` asks that the last successful action
  before a lock was a turn; gravity leaves the turn standing (`playerSimulation.ts:242`).
* `HandleReleased`. `docs/replays.md:34` has a failed replay closed; after a failed write of a
  frame `closePartial` is refused (`replayWriter.ts:159`) and the file stays open.
* `DisarmedIsSilent`. `docs/dglab-feedback.md:36` has a stop clear the device; a failed write
  puts the transport in an error, in which a stop leaves the waveform that a timer repeats
  (`dglabBluetooth.ts:315`). `StopSilences` is claimed as long as no write fails.
* `OneRotationPerPiece`. With the default settings a turn and a hold kept pressed turn the
  piece that appears twice (`generationInputBuffer.ts:114-122`).
* In `Handling`, whose frames use the clock of the key events: the code's frames use the
  timestamp of `requestAnimationFrame`, which may lie before the last event, and the engine
  then throws and stops repeating (`DuelMatchInput.ts:109`). A spawn cuts the charge before
  the repeats that are due (`handlingEngine.ts:183`). When a backlog is skipped with an
  interval of 0, the next repeat is put off for ever (`handlingEngine.ts:360`), which
  `ShiftGoesOn` excepts, and `FrameRateIndependent` excepts calls that reach the limit of
  emissions.

## The proofs

`RoomProofs` proves of `Room`, for every set of players and every value of the policy and of
the bounds, from the assumptions `Room` names on its constants, that

    IInv == TypeOK /\ Places /\ Rules /\ ForfeitMark /\ ConsentBound

is inductive. `Places` says who sits, hosts and may be ready; `Rules` has the counters, the
shape of each phase and the series' bond to seats and rules. None of the five is inductive
alone: that a ready player is connected needs the shape of the countdown, the shape needs
the counters of the series, the mark of a forfeit needs the shape of a match being played,
and the consent needs a reset to clear all marks, which `Rules` relates to the seats. The
proof has a lemma for each shared operation (removing a member, closing, resetting,
beginning and cancelling a countdown, scoring) and, above them, a step per action. The
choice of a host needs that a nonempty set of ordinals has a least element (`LeastOrdinal`).

The action properties of `Room` follow from it: from a state of `IInv`, each action either
keeps what the property watches or does what it demands. That a room with a live match is not closed by its idle deadline needs one more invariant, `IdleSpared`: a
room that is spared the idle deadline has not passed it.

`RuntimeProofs` proves of `RoomRuntime`, for any number of deadlines and request ids and any
capacity, that `Typed /\ InPublication /\ Past /\ CommitsOnce` is inductive. `InPublication`
relates the stage of the running dispatch to the length of the log and what is published of
it. `Past` says why nothing is committed twice: a request in the log named a revision that
is older than the present one, and a deadline in the log is spent, gone, or has been set
anew under another number.

Three more results rest on it. `TypeOK` needs what `Keep` does to lengths (`KeepShortens`):
a replayed entry is taken out before it is put last, and a new one drives out the oldest, so
that the memory keeps its bound. `TimersArmed`, the safety beneath the run's `DeadlineMet`,
is not inductive, since the timer that covers a deadline may be the one that runs; `Armed`
counts only those queued behind it, which is enough because a timer's dispatch is followed by
a reconciliation before it is finished. `Truthful` says that the memory and the answer under
way speak of commits that were made, each of the very command that asks; that they are
published by the time the caller hears of them is `InPublication`'s.

`OutboxProofs` proves of `CommitOutbox`, for any limits, rooms and commits, that

    IInv == TypeOK /\ Copies /\ InPlace /\ Heads /\ Full /\ Memory

is inductive. `Copies` is `OneCopy`: no two commits of one key are in lanes, wait queue and
memory together, so that an answer names the one copy. `InPlace` has every commit in its
room's lane, `Heads` the next effect within the first commit of its lane. `Full` says that
commits wait only while the outbox is full, hence that a completion admits at most one of
them. `Memory` relates the completed keys to the history `since`: a key still remembered has
seen those behind it in the memory pass and no others, and one that was forgotten as many as
the memory holds. `StepShapes` reduces the ten actions to what they do to lanes and memory,
and the last three theorems are proved by these shapes: an admission is of a newcomer while
nobody waits, or of the oldest waiter, hence `WaitersInTurn`. For the refinement, `owed` of a
room is the concatenation of its commits' effects from the next one on: an admission joins a
commit's effects to its end (`TakeUp`), a settled or given up effect takes its head
(`Settle`), disposal empties it (`Discard`), and the rest, retries among them, stutters. A
settlement that completes a commit and admits a waiter does two things to the lanes in one
step; `Full` makes that one `Settle` with one commit joined. The assumption that a commit is
its key and the fingerprint of its effects (`CommitAssumption`) is what
`prepareRoomOutboxCommit` builds.

`MatchProofs` proves of `MatchLifecycle`, for any rooms and number of matches and any
rate, grain and batch of the loop, that `Typed /\ Sound(loop, owed) /\ Bound` is inductive.
`Bound` has `SimulatedIsHeld` and what it needs: a room holds a match it began itself, the
commit being published names the match the room holds (so that its prune leaves that one
alone), and only what was begun is simulated. `Sound` says of each state of the loop how
`late` tells what it owes, in a pause up to the time of the pause. That a frame limits the
next delay and a batch never pays more than is owed needs the bounds of whole division
(`Division`, `Rounding`, `BehindBounds`), and each method of the loop has its lemma.

Of `ReplayPersistence` it proves, for any lists of actions, any number of inputs, controls and
frames and any length of the chain, with a failure at every disk operation and a machine that
stops at any moment, both invariants of the run. For `FinalIsWhole`, `FileInv` relates what
nobody sees at one time: while the replay has not been given up (`Kept`), the frames a reader
would find in the file, those the chain still has to write and nothing else are the log
(`Follows`), the end is that of the result and the last to be written (`EndKept`), the
writer's ordinal and previous hash are where the reader stands after the lines of the file
(`WriterFits`, `ReaderFits`), and past the sync every line is synced (`InFile`). Once the
replay is given up nothing is claimed of the partial file, which is never renamed; after the
rename the chain is empty and nothing is written any more (`Published`). It rests on what
`Verify` does with one more line (`VerifyNext`) and on a lemma for each disk operation, one
for the hooks (`HookedKeeps`) and one for a crash, which may cut off only what was not synced.

For `ReconstructionAgrees` the invariant `Agrees` says that, until the match ends, playing the
log leads to the match as it was before the inputs in its queues came (`Recorded`), and from
then on to the match as it ended; or, if a frame threw, that the log but its last record leads
to the match that threw, with the inputs of that record in its queues (`Told`). The lemmas are
about the operators of `ReplayLog`: the groups a record makes of the drained inputs are those
of the two players (`GroupedDrained`), and cutting a group's actions apart by the recorded
counts gives back each input, in the turn and under the epoch its queue expects
(`ShareOfActions`, `OneMoreBack`, `AllBack`); advancing by frames that have no record is one
frame after the other (`OneFrameMore`), a control does the same to a match with and without
its inputs (`ControlledUndrained`), a forfeit is carried out again (`ForcedToTheEnd`), and a
frame that threw has too many actions when its record has been put back (`ThrownTold`). That
hashes tell contents apart and that a simulation is a function of what it is given are how
`ReplayLog` models them, hence assumed.

`SessionProofs` proves of `Sessions`, for any number of connections and rooms, any lengths of
queues and any number of requests, whenever a connection closes, that
`SessionInv == Typed /\ Named /\ Processes` is inductive. `Named` says that a connection gets
its generation once. `Processes` relates every process to what it awaits: a command in a queue
is the one its process waits for in that room, each process has at most one, and a process
that may end in telling a room of a loss runs for a connection that is `Gone`: it was
authenticated and is not both the session's and the hub's. `Gone` is for ever, since a
generation is given once. `SuccessorKept` follows step by step: whom a room counts lost has
gone. `TypeOK` needs also that the sets the gateway counts are finite (`Counted`).
`BindingIsMembership` needs `Bound`, which says of every state, settled or not, who will
undo a binding without a membership: a removal in the room's outbox, the join that made the
binding, or the leave that ended the membership. It has the hypothesis `Careful = TRUE`, as
its run: the guest waits for what he asked before he asks again. A join that meets the expiry
of its room is committed without a membership; `Bound` excepts the rooms in `lapsed`, which
are closed for ever.

`PlayProofs` proves of `MatchInput`, for any number of presses, frames and connections, that
`TypeOK /\ LineInv` is inductive. `LineInv` sees the inputs applied and those scheduled as
one line: epochs and presses rise along it, within an epoch the sequences have no gap, and all
that is scheduled is due in the next frame, so that a drain moves the whole queue (`Drained`).

`InputInv` adds what browser and server know of each other: what is on its way is numbered
from the sequence the queue expects (`StepInv`), a snapshot counts the inputs applied up to
its frame (`SnapshotsInv`, `ShownInv`), a number stands for the same press wherever it is found
(`NumberedInv`), and an answer is true and comes no later than a snapshot that has its input,
so that what is displayed is predicted no more and what is not still is (`ToldInv`). These need
that the start and a resume reach the browser in the server's order; the theorems have the
hypothesis `ResumeMeetsStart = FALSE`, which excludes the race `inputs_restart` exhibits and
nothing else: connections are lost, resumed and replaced at any other moment.

Of `MatchDuel` it proves all four invariants of the run `duel`: for boards of any width and
height, any set of kinds, number of bags, start boards, timing and garbage rules, any inputs
and any number of them and of frames. The assumptions are those the modules name on their
constants (`FieldAssumption`, `AttackAssumption`, `SimulationAssumption`, `DuelAssumption`);
the one that is not a type is `GarbageCap <= Height`, 8 and 40 in the code, beyond which
`insertGarbage` throws. The inductive invariant, which TLC has also checked on the states of
the run, is

    DuelInv == SequenceInv /\ PlayersInv /\ TallyInv /\ HoldsInv

`PlayersInv` has every player `Sound`: topped out, or with a piece that fits, or with one that
is due. Its parts are about operators, not about the match: what a move, a kick, a fall or a
drop keeps (`Moved`), that the cells of a piece are four and distinct in every rotation, that a
spawn and a lift place a piece only where it fits, that a lock leaves a board without full
rows. `TallyInv` says that three balances of a player agree with the record: his cells (what
lies on the board, less four for a piece, plus a row for each line, less a row but its hole
for each row of garbage), his garbage (what waits, and what the locks of this frame let rise
or cancelled), and his pieces of each kind (drawn, less locked, held and in hand). `Advances`
has every input and every end of a frame leave the balances as they were, and use the hold
once at most between two locks; that is a lemma for each operation, and it composes, so that
a drop followed by a lock, garbage, a spawn and a buffered hold is one step of it. The
exchange of a frame only moves what its locks did into the record (`CountedRecords`).
A player who tops out leaves the balances, since the piece in hand fits nowhere. That the
cells of a board can be counted row by row through a lock, a clear and a rise of garbage, and
that cancelling and netting take from both sides the same number, are lemmas about the
recursive function `Total` (by `SetInduction`, below) and about `Keep` and `Spared`.

`BrowserProofs` proves of `StateSync`, for any number of frames, connections and retained events,
that everything that goes to the viewer was made of states the match has had: the messages
under way, the baseline, and the receiver's snapshot. That a delta the receiver accepts gives
the state it was computed for is `DeltaReal`, which needs the hash of the base compared. For
`ResyncAnswered` it looks ahead at what the messages under way will make of the receiver
(`Becomes`): one more message leaves that as it was up to there (`BecomesAppend`), a received
one is its first step (`BecomesTail`), and a full snapshot of the present state ends the wait
of any receiver (`FullEnds`), since no state had a later sequence (`Waiting`). It need not be
the last: a second snapshot of the same sequence may be ignored and start another wait, with a
request of its own.

Of `DgLab` it proves, for any configurations, clock, events, changes and faults, that a stopped
device is silent and a running one within its limit. Neither is inductive: both speak of what
the writes under way will make of the device. `Serves` says that of every state of the queue:
the last frame in it (or the device, if there is none) puts out what the transport would send
now, and the last limit in it is the configured one; if there is none, the device has that
limit, or nothing put out or under way exceeds it, as after a connection that wrote an older
limit. Each message (`SetStrength`, `LoadWaveform`, `Clear`) and each operation of the controller
made of them keeps `Serves`, a new limit establishes it for that limit whatever held of the old
one, and a write that arrives keeps it. `DeviceInv` adds to it, while no write of the connection
failed, that a waveform is loaded only while armed and only on the channels that stopping
clears; that only what is paired is armed; and that a connection that is being made has nothing
loaded, set or queued. TLC has checked `DeviceInv` on the `dglab` instance, and with two
connections and two changes, before it was proved. What the queue of penalties adds up to
(`Target`, `Cancelled`) matters by its bounds and types only, proved by `SetInduction`.

Of `Handling` it proves all three properties, for any bindings, settings, limit of emissions,
times and number of presses. `HandlingInv` has the engine shift in the last direction of its
list, and its list be that of the keys pressed: `Matched` says that it has every direction of
every one of these keys, once, in the order of the keys, left before right for a key with both.
That the newest direction leads follows; the code keeps the list although keys may share an
action and have several, because a release takes away the presses of its own key and no other
(`MatchedUp`). The invariant ignores what is due, so the lemmas are about `Reach`: every result
a call comes to by time, a cut, a drop or a turn has the same keys, and the repeat is due
whenever `Shifting` wants it. `FrameRateIndependent` needs no invariant beyond types: a call of
`advance` is a run of at most as many rounds as the limit, each of which is `Gone` of the
engine before and does not look at `now` (`GoneForgetsNow`). The rounds of an early call are
the first of a late one (`EarlyIsPrefix`), and what a second call adds are the rest
(`RestIsSuffix`); `SplitIsWhole` puts them together. The code's loops are `Looped`, whose
recursive function has its values by `Iteration`, a lemma about functions, not operators. TLC
has checked `HandlingInv` on the `handling` instance, and with keys bound to both directions
and to a hard drop with a hold, before it was proved.

| Theorem | States |
|---|---|
| `RoomProofs` `TypeCorrect` | every variable of the room has its type |
| `RoomProofs` `CommitsAreValid` | `assertRoomInvariants` never throws |
| `RoomProofs` `SeriesStaysBound` | a series belongs to the seated players and the rules in force |
| `RoomProofs` `ConsentIsGiven` | marks and votes were given by the player in the seat, under these rules |
| `RoomProofs` `ForfeitIsUnique` | the forfeit's mark belongs to one disconnected player of a live match |
| `RoomProofs` `CountdownIsAttended` | no countdown runs with a player away |
| `RoomProofs` `RevisionIsAFence` | what a command's author relied on does not change under the same revision |
| `RoomProofs` `ForfeitsOnce` | a match is asked to be forfeited at most once |
| `RoomProofs` `CountdownsAreAnnounced` | a countdown that begins or ends is announced by that commit |
| `RoomProofs` `LiveMatchIsKept` | a match somebody is connected to is not closed by the idle deadline |
| `RuntimeProofs` `PublicationKeepsUp` | the next command runs only when every commit is published |
| `RuntimeProofs` `CommitsAreUnique` | a request that names a revision, and a deadline, commits once |
| `RuntimeProofs` `TypeCorrect` | every variable has its type, queue and memory their bounds |
| `RuntimeProofs` `DeadlinesStayArmed` | every deadline of an open room has its task armed or its timer queued |
| `RuntimeProofs` `CommittedAnswersAreTrue` | who is told of a commit, by a remembered answer too, has it published |
| `OutboxProofs` `TypeCorrect` | every variable of the outbox has its type, its three memories within their limits |
| `OutboxProofs` `AnswersAreTrue` | a commit whose author was told that it is accepted, or was, is pending or completed, in one copy |
| `OutboxProofs` `RedeliveryIsOutsideMemory` | a commit is delivered again only when a whole memory of others came since |
| `OutboxProofs` `NobodyOvertakes` | a commit that joins a lane leaves nobody waiting who waited longer |
| `OutboxProofs` `OutboxDelivers` | `CommitOutbox` implements `CommitDelivery` |
| `MatchProofs` `TypeCorrect` | every variable of the lifecycle has its type |
| `MatchProofs` `SimulationsAreHeld` | a match is simulated only while its room holds it, or lets it go in the commit being published |
| `MatchProofs` `LoopTimeIsKept` | the loop simulates the time it runs once, and plans no callback too late |
| `MatchProofs` `FinalReplaysAreWhole` | a file under the final name is the whole verified replay of a match that ended |
| `MatchProofs` `ReconstructionsAgree` | playing a final replay leads to the same history and the same end, or after a forced draw to the match that threw |
| `SessionProofs` `TypeCorrect` | every variable has its type, and the gateway's counts are those of its sockets |
| `SessionProofs` `SuccessorsAreKept` | a superseded connection never takes its successor's place away |
| `SessionProofs` `BindingsAreMemberships` | once all is settled, a session is bound only to a room it is a member of (**) |
| `PlayProofs` `TypeCorrect` | every variable of the inputs' way has its type |
| `PlayProofs` `InputsApplyInOrder` | inputs are applied in the order of the presses, without gap or repetition in an epoch |
| `PlayProofs` `InputsStayInStep` | what is on its way is what the queue expects next, until one is refused (*) |
| `PlayProofs` `SequencesNameInputs` | epoch and sequence name one input (*) |
| `PlayProofs` `PressesAreShownOnce` | each press is displayed once, predicted or in the snapshot (*) |
| `PlayProofs` `PiecesFit` | the piece a player moves never overlaps the stack, a wall or the floor |
| `PlayProofs` `CellsAreAccounted` | no cell of a board appears or is lost, and no full row stays |
| `PlayProofs` `PiecesAreAccounted` | every piece drawn is in the stack, held or in play, and a piece is held once |
| `PlayProofs` `GarbageIsConserved` | queued garbage rose, was cancelled or waits, and netting takes the same from both players |
| `BrowserProofs` `ShowsOnlyReal` | the browser shows only states the match has had |
| `BrowserProofs` `ResyncsAreAnswered` | who waits for a full snapshot has a request or what ends the wait under way, or the next broadcast is full |
| `BrowserProofs` `StoppedIsSilent` | what stops the stimulation stops it for good, while no write fails |
| `BrowserProofs` `LimitIsKept` | the device stays within the player's limit, whenever that changes |
| `BrowserProofs` `NewestKeyLeads` | the newest direction key held leads, whatever keys share or are bound to |
| `BrowserProofs` `ShiftIsNeverLost` | a held direction goes on shifting, unless a backlog was given up |
| `BrowserProofs` `FramesDoNotMatter` | advancing in two steps is advancing in one, below the limit of emissions |

(*) as long as no start of a match races a resume. (**) for a guest who waits for what he
asked, and unless the join that bound the session met the expiry of its room.

`ArrayLemmas` proves what `Keep`, `Flat` and `Total` return. The induction theorems of the
library take an operator and cannot be used, so these lemmas use `SetInduction`: a set of numbers with 0,
and with n + 1 for each of its n, has them all; a lemma forms the set of the lengths it holds
for. The lemmas state a result's elements and order by an increasing choice of positions.

Model-checked only: all liveness, which is out of the prover's reach (`LostMemberResolved`,
`AbandonedRoomCloses`, `AcceptedSettles`, `DeadlineMet`, `Answered`,
`MatchEnds`, `LossIsHeard`, `ReturnIsHeard`, `EndIsPublished`, `OutputEnds`). Every safety
invariant and action property that a passing run checks is a theorem; `WaitersInTurn`, which
needs two waiters beside the two commits of a lane, is a theorem and in no run.

## Not modelled

Wording and layout of messages, the schema validation, display names and room codes,
rendering, file formats and HTTP; the five kinds of pieces that `duel` does not play, which
are data. The receipts of repeated creates, the expiry of sessions and tokens, the limiter's
buckets and the heartbeat's clock; what the limiter refuses is followed for inputs
(`MatchInput`), not for requests of a resync, of which `ResyncAnswered` has those that reach
their handler. A step of the loop that fails, which the registry's step never does. What the
server relays of a stimulation device, the device's cooldown. The page's own waiting for a
revision, whose commands `Room` guards. The solo game, which plays the modelled simulation and
input handling with a timer.

In `MatchDuel`, the frame that throws for more than 64 actions, which ends the match and is
`ReplayPersistence`'s: no property of the duel depends on it. In `MatchInput`, the lead check
(an honest browser extrapolates a tenth of a second and the queue allows two thousand frames),
the actions inside an input and the opponent. In `MatchLifecycle`, messages to members. A
browser does not repeat an input, hence the recall of a disposition is reached in
`inputs_restart` only. In `StateSync`, the private part of a state, which every message
carries whole, the other viewers, and the end of the match. In `ReplayPersistence`, bit rot
and the start of a new process: files are read, never continued. That the real simulation is
deterministic is assumed there. External code is modelled as it is used: a device ignores a
channel without a valid waveform, and writes under way fail when the link drops.

## What could follow

The ledger of repeated creates, and the start of a new process that finds replay files.
