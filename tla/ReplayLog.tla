------------------------------ MODULE ReplayLog ------------------------------
(***************************************************************************)
(* What a replay file says: its chained records, the reader that verifies  *)
(* them line by line, and the reconstruction that plays a verified replay  *)
(* on a fresh MatchCoordinator.  Everything here is a pure operator.       *)
(*                                                                         *)
(* Of a match these operators keep what its replay depends on: the frame,  *)
(* the input queues and, in place of the boards, the history of what the   *)
(* two simulations were given, of which everything else is a function.     *)
(* The state hash is that history and a record hash the list of payloads   *)
(* it covers: both are taken to tell different contents apart.             *)
(*                                                                         *)
(* A definition named X_Mutation is X with a plausible bug: nothing uses   *)
(* it, a run in which it replaces X shows that the run's properties notice.*)
(***************************************************************************)
EXTENDS Integers, Sequences, Arrays

CONSTANTS
    Fatal,          \* the action that tops its player out
    MaxActions      \* 64 of a player in a frame (playerSimulation.ts): its simulation throws at more
Players == 1..2     \* the participants, in their order

-----------------------------------------------------------------------------
(* The match *)

NoEnd == [reason |-> "none", winner |-> 0]
FreshQueue(epoch) == [epoch |-> epoch, next |-> 0, scheduled |-> <<>>]
NewMatch ==
    [frame |-> 0, end |-> NoEnd, history |-> <<>>, ok |-> TRUE,
     queue |-> [p \in Players |-> FreshQueue(0)]]

\* MatchInputQueue.enqueue: an input is scheduled for the next frame when it is the one
\* its player's queue expects.
Scheduled(m, input) == input.epoch = m.queue[input.player].epoch
                       /\ input.sequence = m.queue[input.player].next
Enqueued(m, input) ==
    [m EXCEPT !.queue[input.player] =
        [m.queue[input.player] EXCEPT !.next = @ + 1, !.scheduled = Append(@, input)]]

\* MatchInputQueue.drain: the first player's inputs, then the second's.
Drained(m) == m.queue[1].scheduled \o m.queue[2].scheduled

Saw(m, kind, player, actions) ==
    [m EXCEPT !.history = Append(@, [kind |-> kind, player |-> player, actions |-> actions])]
ActionsOf(inputs) == Flat([i \in DOMAIN inputs |-> inputs[i].actions])

\* advanceOneFrame, which does nothing once the match is over.
Advanced(m) ==
    LET actions == [p \in Players |-> ActionsOf(m.queue[p].scheduled)]
        ToppedOut(p) == \E i \in DOMAIN actions[p] : actions[p][i] = Fatal
        played == Saw(m, "frame", 0, actions)
    IN  IF m.end # NoEnd THEN m ELSE
        [played EXCEPT
            !.frame = @ + 1,
            !.queue = [p \in Players |-> [@[p] EXCEPT !.scheduled = <<>>]],
            !.end = CASE ToppedOut(1) /\ ToppedOut(2) ->
                             [reason |-> "simultaneous_topout", winner |-> 0]
                      [] ToppedOut(1) /\ ~ToppedOut(2) -> [reason |-> "topout", winner |-> 2]
                      [] ToppedOut(2) /\ ~ToppedOut(1) -> [reason |-> "topout", winner |-> 1]
                      [] OTHER -> NoEnd]

\* The frame that throws, because a player has too many actions in it: it has been counted
\* and its inputs are drained by then, and no end is looked for.
TooMany(m) == \E p \in Players : Len(ActionsOf(m.queue[p].scheduled)) > MaxActions
Broken(m) ==
    LET actions == [p \in Players |-> ActionsOf(m.queue[p].scheduled)]
    IN  [Saw(m, "thrown", 0, actions) EXCEPT
            !.frame = @ + 1,
            !.queue = [p \in Players |-> [@[p] EXCEPT !.scheduled = <<>>]]]

\* clearHeldInput, and resetInput, which begins a new epoch as well.
Cleared(m, p) == Saw(m, "clear", p, <<>>)
WasReset(m, p) == [Cleared(m, p) EXCEPT !.queue[p] = FreshQueue(m.queue[p].epoch + 1)]

\* forceFinish and forceDraw
Forced(m, loser, reason) == [m EXCEPT !.end = [reason |-> reason, winner |-> 3 - loser]]
Drawn(m) == [m EXCEPT !.end = [reason |-> "draw", winner |-> 0]]

-----------------------------------------------------------------------------
(* The records *)

Header == [kind |-> "header"]

\* #groupInputs: the players that have inputs, with the envelopes these came in.
Grouped(inputs) ==
    LET Of(p) == Keep(inputs, {input \in {inputs[i] : i \in DOMAIN inputs} : input.player = p})
        Source(input) == [epoch |-> input.epoch, sequence |-> input.sequence,
                          count |-> Len(input.actions)]
        Group(p) == [player |-> p, actions |-> ActionsOf(Of(p)),
                     sources |-> [i \in DOMAIN Of(p) |-> Source(Of(p)[i])]]
        Groups(p) == IF Of(p) = <<>> THEN <<>> ELSE <<Group(p)>>
    IN  Groups(1) \o Groups(2)

AppliedFrame(frame, inputs) ==
    [kind |-> "frame", frame |-> frame, type |-> "appliedInputs", players |-> Grouped(inputs)]

\* #validatedControl
ControlFrame(frame, control, player, epoch) ==
    [kind |-> "frame", frame |-> frame, type |-> control, player |-> player, epoch |-> epoch]

\* The end data of MatchReplayRecorder.finalize.
EndOf(m) ==
    [kind |-> "end", frame |-> m.frame, winner |-> m.end.winner, reason |-> m.end.reason,
     hash |-> m.history]

\* createReplayRecord: hashReplayRecordBody covers the previous hash and the payload.
HashOf(previous, payload) == Append(previous, payload)
RecordOf(ordinal, previous, payload) ==
    [ordinal |-> ordinal, previous |-> previous, payload |-> payload,
     hash |-> HashOf(previous, payload)]

\* A line that was not written to its end.
Torn == [payload |-> [kind |-> "torn"]]

-----------------------------------------------------------------------------
(* The reader *)

Unread == [header |-> FALSE, frames |-> <<>>, end |-> Header, hasEnd |-> FALSE,
           ordinal |-> 0, previous |-> <<>>, stop |-> "none"]

\* verifyLine: why a line is refused, "none" if it is not.
Failure(state, line) ==
    CASE line.payload.kind = "torn" -> "invalid-json"
      [] line.payload.kind # "torn" /\ line.ordinal # state.ordinal -> "ordinal-mismatch"
      [] line.payload.kind # "torn" /\ line.ordinal = state.ordinal
         /\ line.previous # state.previous -> "previous-hash-mismatch"
      [] OTHER ->
         IF line.hash # HashOf(line.previous, line.payload) THEN "hash-mismatch"
         ELSE IF \/ (state.ordinal = 0) # (line.payload.kind = "header")
                 \/ state.hasEnd
              THEN "invalid-payload-order" ELSE "none"

Verify(state, line) ==
    LET failure == Failure(state, line)
        taken == [state EXCEPT !.ordinal = @ + 1, !.previous = line.hash]
    IN  IF state.stop # "none" THEN state
        ELSE IF failure # "none" THEN [state EXCEPT !.stop = failure]
        ELSE CASE line.payload.kind = "header" -> [taken EXCEPT !.header = TRUE]
               [] line.payload.kind = "frame" ->
                      [taken EXCEPT !.frames = Append(@, line.payload)]
               [] OTHER -> [taken EXCEPT !.end = line.payload, !.hasEnd = TRUE]

\* readReplay: one line after the other.
VerifiedLines(lines) ==
    LET state[n \in 0..Len(lines)] == IF n = 0 THEN Unread ELSE Verify(state[n - 1], lines[n])
    IN  state[Len(lines)]
Read(lines, source) ==
    LET state == VerifiedLines(lines)
    IN  [state EXCEPT !.stop =
            IF @ # "none" THEN @
            ELSE IF ~state.header THEN "missing-header"
            ELSE IF ~state.hasEnd THEN "eof-without-end"
            ELSE IF source = "partial" THEN "unfinalized-source" ELSE "complete"]

-----------------------------------------------------------------------------
(* The reconstruction *)

Wrong(m) == [m EXCEPT !.ok = FALSE]

\* advanceOneFrame here, where nobody catches what it throws.
Played(m) == IF m.end = NoEnd /\ TooMany(m) THEN Wrong(m) ELSE Advanced(m)

\* advanceTo
AdvancedTo(m, frame) ==
    LET One(n) == IF n.end # NoEnd THEN Wrong(n) ELSE Played(n)
        after[k \in 0..(frame - m.frame)] == IF k = 0 THEN m ELSE One(after[k - 1])
    IN  IF m.frame > frame THEN Wrong(m) ELSE after[frame - m.frame]

\* The recorded envelopes of a player go back into the queue, each with its share of the
\* actions, which leaves none.
Requeued(m, input) == IF Scheduled(m, input) THEN Enqueued(m, input) ELSE Wrong(m)
RequeuedGroup(m, group) ==
    LET Input(source, offset) ==
            [player |-> group.player, epoch |-> source.epoch, sequence |-> source.sequence,
             actions |-> SubSeq(group.actions, offset + 1, offset + source.count)]
        step[i \in 0..Len(group.sources)] ==
            IF i = 0 THEN [match |-> m, offset |-> 0]
            ELSE LET source == group.sources[i]
                 IN  [match |-> Requeued(step[i - 1].match, Input(source, step[i - 1].offset)),
                      offset |-> step[i - 1].offset + source.count]
        last == step[Len(group.sources)]
    IN  IF last.offset = Len(group.actions) THEN last.match ELSE Wrong(last.match)
RequeuedGroups(m, groups) ==
    LET done[i \in 0..Len(groups)] == IF i = 0 THEN m ELSE RequeuedGroup(done[i - 1], groups[i])
    IN  done[Len(groups)]

\* applyReplayFrame: applied inputs belong to the step that ends in their frame, a control
\* comes after the frame it names.
Replayed_ControlFirst(m, record) ==
    CASE record.type = "appliedInputs" ->
             Played(RequeuedGroups(AdvancedTo(m, record.frame - 1), record.players))
      [] record.type = "clearHeld" -> Cleared(AdvancedTo(m, record.frame - 1), record.player)
      [] record.type = "resetInput" ->
             LET reset == WasReset(AdvancedTo(m, record.frame - 1), record.player)
             IN  IF reset.queue[record.player].epoch = record.epoch THEN reset ELSE Wrong(reset)
Replayed(m, record) ==
    CASE record.type = "appliedInputs" ->
             Played(RequeuedGroups(AdvancedTo(m, record.frame - 1), record.players))
      [] record.type = "clearHeld" -> Cleared(AdvancedTo(m, record.frame), record.player)
      [] record.type = "resetInput" ->
             LET reset == WasReset(AdvancedTo(m, record.frame), record.player)
             IN  IF reset.queue[record.player].epoch = record.epoch THEN reset ELSE Wrong(reset)

\* forceRecordedEnd: an end that the players' inputs do not bring about themselves.
ForcedAsRecorded(m, end) ==
    CASE end.reason = "draw" -> Drawn(m)
      [] end.reason = "forfeit" -> Forced(m, 3 - end.winner, "forfeit")
      [] OTHER -> Wrong(m)

\* reconstructMatchReplay, up to its comparison with the recorded end.
ReplayedAll(frames) ==
    LET played[i \in 0..Len(frames)] ==
            IF i = 0 THEN NewMatch ELSE Replayed(played[i - 1], frames[i])
    IN  played[Len(frames)]
Reconstructed(read) ==
    LET played == AdvancedTo(ReplayedAll(read.frames), read.end.frame)
    IN  IF played.end = NoEnd THEN ForcedAsRecorded(played, read.end) ELSE played

Verified(m, end) == m.ok /\ EndOf(m) = end

=============================================================================
