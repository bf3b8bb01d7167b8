--------------------------- MODULE MatchLifecycle ---------------------------
(***************************************************************************)
(* How a match lives across the room, its runtime, the effect processor,   *)
(* the match registry with its one simulation loop, and the replay that is *)
(* finalized before the result comes back to the room.                     *)
(*                                                                         *)
(* The room is reduced to the match it holds; what else it does is module  *)
(* Room.  The runtime publishes one commit at a time (module RoomRuntime)  *)
(* and the outbox delivers a room's effects in order (module CommitOutbox).*)
(* Matches are numbered as they begin.  The simulation is reduced to       *)
(* whether it is over, its loop is module FixedStepLoop.                   *)
(*                                                                         *)
(* A definition named X_Mutation is X with a plausible bug: nothing uses   *)
(* it, it documents which property notices that bug.                       *)
(***************************************************************************)
EXTENDS FixedStepLoop, Sequences

CONSTANTS
    Rooms,
    MaxMatches,         \* bound of the model: matches of all rooms
    MaxLate,            \* bound of the model: how late the loop may be
    MaxAway,            \* bound of the model: how long a pause is told apart
    MaxSpent,           \* bound of the model: the time one callback takes
    QueueFills          \* whether a room's dispatch queue may be found full

ASSUME ConstantAssumption ==
    /\ {MaxMatches, MaxLate, MaxAway, MaxSpent} \subseteq Nat /\ QueueFills \in BOOLEAN

Matches == 1..MaxMatches

VARIABLES
    begun,              \* the room of every match begun: roomId of its coordinator
    active,             \* state.activeMatch, 0 for none
    requested,          \* activeMatch.resolutionRequested
    closed,             \* phase = "closed"
    removed,            \* the room is no longer registered, its runtime disposed of
    commit,             \* the commit the runtime is publishing
    lane,               \* the effects the outbox owes
    sim,                \* MatchRegistry.#matches
    loop,               \* FixedStepLoop
    owed,               \* history: time the loop has run and not simulated
    ending              \* how far the result of a finished match has come

room == <<begun, active, requested, closed>>
vars == <<room, removed, commit, lane, sim, loop, owed, ending>>

NoCommit == [match |-> 0, effects |-> <<>>]
NoneToPublish == [set |-> FALSE, of |-> NoCommit]
ToPublish(match, effects) == [set |-> TRUE, of |-> [match |-> match, effects |-> effects]]

Init ==
    /\ begun = <<>> /\ active = [r \in Rooms |-> 0]
    /\ requested = [r \in Rooms |-> FALSE]
    /\ closed = [r \in Rooms |-> FALSE] /\ removed = [r \in Rooms |-> FALSE]
    /\ commit = [r \in Rooms |-> NoneToPublish] /\ lane = [r \in Rooms |-> <<>>]
    /\ sim = [m \in Matches |-> "absent"] /\ loop = NewLoop /\ owed = 0
    /\ ending = [m \in Matches |-> "no"]

Registered(matches) == {m \in Matches : matches[m] # "absent"}

-----------------------------------------------------------------------------
(* The room's commits.  The runtime starts a command when the last commit is *)
(* published.                                                                *)

Idle(r) == ~commit[r].set /\ ~removed[r]

\* timer.countdown_elapsed
BeginMatch(r) ==
    /\ Idle(r) /\ ~closed[r] /\ active[r] = 0 /\ Len(begun) < MaxMatches
    /\ begun' = Append(begun, r)
    /\ active' = [active EXCEPT ![r] = Len(begun')]
    /\ requested' = [requested EXCEPT ![r] = FALSE]
    /\ commit' = [commit EXCEPT ![r] = ToPublish(Len(begun'), <<"start">>)]
    /\ UNCHANGED <<closed, removed, lane, sim, loop, owed, ending>>

\* timer.reconnect_elapsed of a participant
RequestForfeit(r) ==
    /\ Idle(r) /\ active[r] # 0 /\ ~requested[r]
    /\ requested' = [requested EXCEPT ![r] = TRUE]
    /\ commit' = [commit EXCEPT ![r] = ToPublish(active[r], <<"forfeit">>)]
    /\ UNCHANGED <<begun, active, closed, removed, lane, sim, loop, owed, ending>>

\* timer.room_expired, admin.close, and room.close of a room without a live match
CloseRoom(r) ==
    /\ Idle(r) /\ ~closed[r]
    /\ closed' = [closed EXCEPT ![r] = TRUE]
    /\ active' = [active EXCEPT ![r] = 0]
    /\ requested' = [requested EXCEPT ![r] = FALSE]
    /\ commit' = [commit EXCEPT ![r] = ToPublish(0, <<"closed">>)]
    /\ UNCHANGED <<begun, removed, lane, sim, loop, owed, ending>>

-----------------------------------------------------------------------------
(* The registry *)

\* The loop once the registry holds these matches: it pauses when it has none.
Paused_Always(matches) == IF loop.state = "running" THEN LoopPause(loop) ELSE loop
Paused(matches) ==
    IF loop.state = "running" /\ Registered(matches) = {} THEN LoopPause(loop) ELSE loop

\* pruneRoom: the room's other matches are closed and dropped.
Pruned(r, kept) ==
    [m \in Matches |->
        IF m \in DOMAIN begun /\ begun[m] = r /\ m # kept THEN "absent" ELSE sim[m]]

Prune(r, kept) ==
    /\ sim' = Pruned(r, kept)
    /\ loop' = Paused(sim')

\* enqueueDurably prunes, and the outbox accepts the commit's effects.
Publish(r) ==
    /\ commit[r].set
    /\ Prune(r, commit[r].of.match)
    /\ LET effects == commit[r].of.effects
           match == commit[r].of.match
       IN  lane' = [lane EXCEPT ![r] =
               @ \o [i \in DOMAIN effects |-> [type |-> effects[i], match |-> match]]]
    /\ commit' = [commit EXCEPT ![r] = NoneToPublish]
    /\ UNCHANGED <<room, removed, owed, ending>>

\* The coordinator ends matches: the end is broadcast and the replay finalized.
Finish(ended) ==
    /\ sim' = [m \in Matches |-> IF m \in ended THEN "finished" ELSE sim[m]]
    /\ ending' = [m \in Matches |-> IF m \in ended THEN "replay" ELSE ending[m]]

Due(r, type) == lane[r] # <<>> /\ lane[r][1].type = type
Delivered(r) == lane' = [lane EXCEPT ![r] = Tail(@)]

\* startMatch: only the match the room still holds, and it sets the loop going.  A loop
\* that has stopped refuses the match, and every attempt the outbox makes.
Started ==
    CASE loop.state = "idle" -> LoopStart(loop)
      [] loop.state = "paused" -> LoopResume(loop)
      [] OTHER -> loop

StillActive_AsCommitted(r, n) == TRUE
StillActive(r, n) == ~removed[r] /\ active[r] = n

DeliverStart(r) ==
    /\ Due(r, "start") /\ Delivered(r)
    /\ LET n == lane[r][1].match
       IN  IF StillActive(r, n) /\ loop.state # "stopped"
           THEN /\ sim' = [sim EXCEPT ![n] = "running"]
                /\ loop' = Started
           ELSE UNCHANGED <<sim, loop>>
    /\ UNCHANGED <<room, removed, commit, owed, ending>>

\* finishDisconnectedMatch
DeliverForfeit(r) ==
    /\ Due(r, "forfeit") /\ Delivered(r)
    /\ LET m == lane[r][1].match
       IN  IF sim[m] = "running" THEN Finish({m}) ELSE UNCHANGED <<sim, ending>>
    /\ UNCHANGED <<room, removed, commit, loop, owed>>

\* closeRoom: the members leave, the room is removed, its matches are pruned.
DeliverClosed(r) ==
    /\ Due(r, "closed") /\ Delivered(r)
    /\ removed' = [removed EXCEPT ![r] = TRUE]
    /\ Prune(r, 0)
    /\ UNCHANGED <<room, commit, owed, ending>>

\* The loop's callback steps the frames that are due.  A frame may end matches: by a
\* top-out, or by an error, upon which the match is drawn.
Running == {m \in Matches : sim[m] = "running"}
Pump(ended) ==
    /\ loop.state = "running" /\ loop.wake = 0
    /\ ended # {} => Batch(loop) > 0
    /\ ended \subseteq Running
    /\ Finish(ended)
    /\ \E spent \in 0..MaxSpent :
        /\ loop.late + spent <= MaxLate
        /\ loop' = LoopPump(loop, spent)
        /\ owed' = owed - Batch(loop) * Period + spent
    /\ UNCHANGED <<room, removed, commit, lane>>

Tick ==
    /\ \/ loop.state = "running" /\ loop.late < MaxLate /\ owed' = owed + 1
       \/ loop.state = "paused" /\ loop.away < MaxAway /\ UNCHANGED owed
    /\ loop' = LoopElapsed(loop, 1)
    /\ UNCHANGED <<room, removed, commit, lane, sim, ending>>

LoopFails ==
    /\ loop.state \notin {"stopped", "closed"}
    /\ loop' = LoopEnd("stopped") /\ owed' = 0
    /\ UNCHANGED <<room, removed, commit, lane, sim, ending>>

\* The server closes: the effects, the matches and the rooms are disposed of.
Shutdown ==
    /\ loop.state # "closed"
    /\ lane' = [r \in Rooms |-> <<>>] /\ commit' = [r \in Rooms |-> NoneToPublish]
    /\ sim' = [m \in Matches |-> "absent"] /\ loop' = LoopEnd("closed") /\ owed' = 0
    /\ removed' = [r \in Rooms |-> TRUE]
    /\ UNCHANGED <<room, ending>>

\* match.forfeit of a participant
Forfeit(m) ==
    /\ sim[m] = "running" /\ StillActive(begun[m], m)
    /\ Finish({m})
    /\ UNCHANGED <<room, removed, commit, lane, loop, owed>>

-----------------------------------------------------------------------------
(* The way back: #handleFinished *)

\* The replay is finalized, or has failed and is reported: onMatchFinished dispatches
\* match.finished.  A room that is gone refuses it, and so does a dispatch queue that has
\* filled up behind a commit whose publication is being retried.
ReplayFinalized(m) ==
    LET r == begun[m]
    IN  /\ ending[m] = "replay"
        /\ \/ ~removed[r] /\ ending' = [ending EXCEPT ![m] = "dispatched"]
           \/ /\ removed[r] \/ (QueueFills /\ commit[r].set)
              /\ ending' = [ending EXCEPT ![m] = "answered"]
        /\ UNCHANGED <<room, removed, commit, lane, sim, loop, owed>>

\* match.finished: the room records the result of the match it holds.
MatchFinished(m) ==
    LET r == begun[m]
    IN  /\ ending[m] = "dispatched" /\ Idle(r)
        /\ IF active[r] = m
           THEN /\ ending' = [ending EXCEPT ![m] = "recorded"]
                /\ active' = [active EXCEPT ![r] = 0]
                /\ requested' = [requested EXCEPT ![r] = FALSE]
                /\ commit' = [commit EXCEPT ![r] = ToPublish(0, <<>>)]
           ELSE /\ ending' = [ending EXCEPT ![m] = "answered"]
                /\ UNCHANGED <<active, requested, commit>>
        /\ UNCHANGED <<begun, closed, removed, lane, sim, loop, owed>>

\* The runtime was disposed of with the dispatch still in its queue.
DispatchDisposed(m) ==
    /\ ending[m] = "dispatched" /\ removed[begun[m]]
    /\ ending' = [ending EXCEPT ![m] = "answered"]
    /\ UNCHANGED <<room, removed, commit, lane, sim, loop, owed>>

\* #retireFinished, when the dispatch is answered: refused, ignored, or its commit is
\* published.
Retire(m) ==
    /\ ending[m] = "answered" \/ (ending[m] = "recorded" /\ ~commit[begun[m]].set)
    /\ ending' = [ending EXCEPT ![m] = "retired"]
    /\ sim' = [sim EXCEPT ![m] = "absent"]
    /\ loop' = IF sim[m] = "absent" THEN loop ELSE Paused(sim')
    /\ UNCHANGED <<room, removed, commit, lane, owed>>

-----------------------------------------------------------------------------
Next ==
    \/ \E r \in Rooms :
        \/ BeginMatch(r) \/ RequestForfeit(r) \/ CloseRoom(r) \/ Publish(r)
        \/ DeliverStart(r) \/ DeliverForfeit(r) \/ DeliverClosed(r)
    \/ \E m \in Matches :
        \/ Forfeit(m) \/ ReplayFinalized(m)
        \/ MatchFinished(m) \/ DispatchDisposed(m) \/ Retire(m)
    \/ \E ended \in SUBSET Running : Pump(ended)
    \/ Tick \/ LoopFails \/ Shutdown

Spec == Init /\ [][Next]_vars

\* The outbox and the runtime make progress, a replay is finalized or fails, time passes,
\* due callbacks run, and the game is played to its end if they do: gravity tops an idle
\* board out.  The dispatch queue is first in first out, so match.finished gets its turn.
Deliver(r) == DeliverStart(r) \/ DeliverForfeit(r) \/ DeliverClosed(r)
Settle(m) == ReplayFinalized(m) \/ DispatchDisposed(m) \/ Retire(m)
Fairness ==
    /\ \A r \in Rooms : WF_vars(Publish(r)) /\ WF_vars(Deliver(r))
    /\ \A m \in Matches : WF_vars(Settle(m)) /\ SF_vars(MatchFinished(m)) /\ SF_vars(Pump({m}))
    /\ WF_vars(Tick) /\ WF_vars(Pump({}))

FairSpec == Spec /\ Fairness

-----------------------------------------------------------------------------
(* Properties *)

Numbers == 0..MaxMatches
Effects == [type : {"start", "forfeit", "closed"}, match : Numbers]

\* The type of every variable.
TypeOK ==
    /\ begun \in Seq(Rooms) /\ active \in [Rooms -> Numbers]
    /\ requested \in [Rooms -> BOOLEAN]
    /\ closed \in [Rooms -> BOOLEAN] /\ removed \in [Rooms -> BOOLEAN]
    /\ commit \in [Rooms -> [set : BOOLEAN, of : [match : Numbers,
                                                  effects : Seq({"start", "forfeit", "closed"})]]]
    /\ lane \in [Rooms -> Seq(Effects)]
    /\ sim \in [Matches -> {"absent", "running", "finished"}]
    /\ loop \in LoopType /\ owed \in Nat
    /\ ending \in [Matches -> {"no", "replay", "dispatched", "recorded", "answered",
                           "retired"}]

Held(m) == \E r \in Rooms : active[r] = m

\* A match is simulated only while its room holds it, or while the commit by which the
\* room let it go is being published: the late start of a match that is gone and the
\* close of a room leave no simulation behind.
SimulatedIsHeld ==
    \A m \in Matches : sim[m] = "running" =>
        Held(m) \/ (commit[begun[m]].set /\ commit[begun[m]].of.match # m)

\* The room records the end of every match: when the registry lets a finished match go,
\* the room does not hold it any more.  True while dispatch queues have places; with
\* QueueFills the dispatch is refused and not repeated (matchRegistry.ts:310), no run has it.
EndIsRecorded ==
    \A m \in Matches : ending[m] = "retired" => ~Held(m)

\* A match the room begins comes to an end the room knows of, as long as the loop's clock
\* and the server go on.
MatchEnds ==
    \A m \in Matches :
        Held(m) ~> ~Held(m) \/ loop.state \in {"stopped", "closed"}

\* Time that the loop runs is simulated once, whatever pauses, late callbacks and limited
\* batches come in between, and time that it was paused is not; and the next callback is
\* never later than the next frame asks for (fixedStepLoop.ts resume, #pump).
LoopKeepsTime ==
    loop.state = "running" =>
        /\ loop.late = owed
        /\ loop.wake # Unset
        /\ loop.wake < Grain + (IF loop.late < Period THEN Period - loop.late ELSE 0)

=============================================================================
