-------------------------- MODULE ReplayPersistence --------------------------
(***************************************************************************)
(* The replay of one match on its way to the disk.  The match calls its    *)
(* hooks between frames and never waits; MatchReplayPersistence keeps the  *)
(* calls in a chain of promises, MatchReplayRecorder and ReplayWriter turn *)
(* them one after the other into lines of a .partial file, which is        *)
(* synced, closed and renamed only after the end has been written.         *)
(* Any disk operation can fail, and the machine can stop at any time and   *)
(* lose whatever was not synced.                                           *)
(*                                                                         *)
(* A definition named X_Mutation is X with a plausible bug: nothing uses   *)
(* it, it documents which property notices that bug.                       *)
(***************************************************************************)
EXTENDS ReplayLog

CONSTANTS
    MaxPending,             \* maxPendingOperations
    ActionLists,            \* the action lists an input can carry
    MaxFrame, MaxInputs, MaxControls    \* bounds of the model

ASSUME ReplayAssumption ==
    /\ MaxPending \in Nat \ {0} /\ MaxActions \in Nat
    /\ MaxFrame \in Nat /\ MaxInputs \in Nat /\ MaxControls \in Nat
    /\ \A actions \in ActionLists : actions \in Seq({actions[i] : i \in DOMAIN actions})

VARIABLES
    up,         \* the process runs
    match,      \* the MatchCoordinator, as ReplayLog keeps it
    result,     \* observes the match as it was when it ended
    log,        \* observes the frames and controls the hooks were called with until then
    inputs, controls,   \* how many there were so far
    session,    \* the ReplaySession of the match, and its recorder
    stage,      \* what the operation at the head of the chain waits for
    writer,     \* the ReplayWriter
    disk,       \* the file: its name, its lines, and how many of them are synced
    faulty      \* observes whether an operation failed or the replay was given up

game == <<match, result, log, inputs, controls>>
file == <<stage, writer, disk>>
replayVars == <<up, game, session, file, faulty>>

Operation(kind, payload) == [kind |-> kind, payload |-> payload]
NoLines == [name |-> "none", lines |-> <<>>, synced |-> 0]

\* registry.start: the persistence opens a session whose chain begins with create.
ReplayInit ==
    /\ up = TRUE
    /\ match = NewMatch /\ result = NewMatch /\ log = <<>> /\ inputs = 0 /\ controls = 0
    /\ session = [open |-> TRUE, ending |-> FALSE, pending |-> 1, recorder |-> "creating",
                  chain |-> <<Operation("create", Header)>>]
    /\ stage = "idle"
    /\ writer = [failed |-> FALSE, handle |-> "none", ordinal |-> 0, previous |-> <<>>,
                 writing |-> Header, applied |-> 0, recorded |-> 0]
    /\ disk = NoLines
    /\ faulty = FALSE

-----------------------------------------------------------------------------
(* The calls of the match, which only lengthen the chain *)

\* finalize and closePartial: whichever comes first completes the session.
Completing(s, kind, payload) ==
    IF ~s.open \/ s.ending THEN s
    ELSE [s EXCEPT !.ending = TRUE, !.chain = Append(@, Operation(kind, payload))]

\* #append: too long a chain gives the replay up.
Overfull(s) == s.open /\ ~s.ending /\ s.pending >= MaxPending
Appending(s, payload) ==
    IF ~s.open \/ s.ending THEN s
    ELSE IF Overfull(s) THEN Completing(s, "closePartial", Header)
    ELSE [s EXCEPT !.pending = @ + 1, !.chain = Append(@, Operation("append", payload))]

\* A hook is called with a record, if there is one; a match that ends is finalized.
Hooked(records) ==
    LET appended == IF records = <<>> THEN session ELSE Appending(session, Head(records))
        ends == match.end = NoEnd /\ match'.end # NoEnd
    IN  /\ session' = IF ends THEN Completing(appended, "finalize", EndOf(match')) ELSE appended
        /\ result' = IF ends THEN match' ELSE result
        /\ log' = IF match.end = NoEnd THEN log \o records ELSE log
        /\ faulty' = (faulty \/ (records # <<>> /\ Overfull(session)))

Playing == up /\ match.end = NoEnd

EnqueueInput(p) ==
    /\ Playing /\ inputs < MaxInputs
    /\ inputs' = inputs + 1
    /\ \E actions \in ActionLists :
           match' = Enqueued(match, [player |-> p, epoch |-> match.queue[p].epoch,
                                     sequence |-> match.queue[p].next, actions |-> actions])
    /\ UNCHANGED <<up, result, log, controls, session, file, faulty>>

\* recordAppliedFrame: a frame without inputs is not handed on.  One that throws is, before
\* it throws; #stepMatches catches it and forces a draw.
Advance ==
    /\ Playing /\ match.frame < MaxFrame
    /\ match' = IF TooMany(match) THEN Drawn(Broken(match)) ELSE Advanced(match)
    /\ Hooked(IF Drained(match) = <<>> THEN <<>>
              ELSE <<AppliedFrame(match'.frame, Drained(match))>>)
    /\ UNCHANGED <<up, inputs, controls, file>>

\* A player leaves or comes back, also while the match that has ended is being finalized.
Control(p) ==
    /\ up /\ controls < MaxControls
    /\ controls' = controls + 1
    /\ \/ /\ match' = Cleared(match, p)
          /\ Hooked(<<ControlFrame(match.frame, "clearHeld", p, 0)>>)
       \/ /\ match' = WasReset(match, p)
          /\ Hooked(<<ControlFrame(match.frame, "resetInput", p, match'.queue[p].epoch)>>)
    /\ UNCHANGED <<up, inputs, file>>

\* The room's verdict, between two frames.
ForceEnd ==
    /\ Playing
    /\ \E loser \in Players : match' = Forced(match, loser, "forfeit")
    /\ Hooked(<<>>)
    /\ UNCHANGED <<up, inputs, controls, file>>

\* pruneRoom and dispose close the match and its replay, whether it has ended or not.
Abandon ==
    /\ up
    /\ match' = IF match.end = NoEnd THEN [match EXCEPT !.end.reason = "closed"] ELSE match
    /\ session' = Completing(session, "closePartial", Header)
    /\ faulty' = (faulty \/ ~session.ending)
    /\ UNCHANGED <<up, result, log, inputs, controls, file>>

-----------------------------------------------------------------------------
(* The operation at the head of the chain *)

Head1 == Head(session.chain)
Busy(kind) == up /\ session.chain # <<>> /\ Head1.kind = kind
At(where) == up /\ stage = where

\* The chain goes on to the next operation; the last one deletes the session.
Done_UnlessNull(recorder) ==
    /\ stage' = "idle"
    /\ session' = [session EXCEPT
           !.chain = Tail(@),
           !.recorder = recorder,
           !.pending = IF Head1.kind \in {"create", "append"} THEN @ - 1 ELSE @,
           !.open = Head1.kind \in {"create", "append"} \/ session.recorder = "none"]
Done(recorder) ==
    /\ stage' = "idle"
    /\ session' = [session EXCEPT
           !.chain = Tail(@),
           !.recorder = recorder,
           !.pending = IF Head1.kind \in {"create", "append"} THEN @ - 1 ELSE @,
           !.open = Head1.kind \in {"create", "append"}]

\* #enqueueRecord: ordinal and previous hash are those of this moment.
Enqueue(w, payload) ==
    [w EXCEPT !.writing = RecordOf(w.ordinal, w.previous, payload),
              !.ordinal = @ + 1, !.previous = HashOf(w.previous, payload)]

\* ReplayWriter.create, up to the header: the final file must not exist, the partial one
\* is opened for this writer alone.
Create ==
    /\ Busy("create") /\ stage = "idle"
    /\ \/ /\ stage' = "writing"
          /\ disk' = [disk EXCEPT !.name = "partial"]
          /\ writer' = Enqueue([writer EXCEPT !.handle = "open"], Header)
          /\ UNCHANGED <<session, faulty>>
       \/ /\ Done("none") /\ faulty' = TRUE
          /\ UNCHANGED <<writer, disk>>
    /\ UNCHANGED <<up, game>>

\* recordAppliedFrame, recordControlFrame: the recorder refuses what is behind its log.
InOrder(payload) ==
    /\ payload.frame >= writer.applied /\ payload.frame >= writer.recorded
    /\ payload.type = "appliedInputs" => payload.frame > writer.applied

AppendRecord ==
    /\ Busy("append") /\ stage = "idle" /\ session.recorder = "ready"
    /\ LET payload == Head1.payload
       IN  IF InOrder(payload)
           THEN /\ stage' = "writing"
                /\ writer' = [Enqueue(writer, payload) EXCEPT
                       !.recorded = payload.frame,
                       !.applied = IF payload.type = "appliedInputs" THEN payload.frame ELSE @]
                /\ UNCHANGED faulty
           ELSE stage' = "syncing" /\ faulty' = TRUE /\ UNCHANGED writer
    /\ UNCHANGED <<up, game, session, disk>>

\* MatchReplayRecorder.finalize with #validateFinish, and ReplayWriter.finalize.
Finalize ==
    /\ Busy("finalize") /\ stage = "idle" /\ session.recorder = "ready"
    /\ IF Head1.payload.frame >= writer.applied /\ Head1.payload.frame >= writer.recorded
       THEN /\ stage' = "writing"
            /\ writer' = Enqueue(writer, Head1.payload)
            /\ UNCHANGED <<session, faulty>>
       ELSE Done("ready") /\ faulty' = TRUE /\ UNCHANGED writer
    /\ UNCHANGED <<up, game, disk>>

\* ReplayWriter.closePartial
ClosePartial ==
    /\ Busy("closePartial") /\ stage = "idle" /\ session.recorder = "ready"
    /\ stage' = "syncing"
    /\ UNCHANGED <<up, game, session, writer, disk, faulty>>

\* Without a recorder an operation does nothing.
Skip ==
    /\ up /\ session.chain # <<>> /\ stage = "idle" /\ session.recorder = "none"
    /\ Done("none")
    /\ UNCHANGED <<up, game, writer, disk, faulty>>

\* #writeAll has written the line.
Written ==
    /\ At("writing")
    /\ disk' = [disk EXCEPT !.lines = Append(@, writer.writing)]
    /\ IF Head1.kind = "finalize" THEN stage' = "syncing" /\ UNCHANGED session ELSE Done("ready")
    /\ UNCHANGED <<up, game, writer, faulty>>

\* The write fails, at the start of the line, within it, or at its end.  create and #finish
\* close the file; the closePartial that follows a failed append is refused, because the
\* writer has failed, and leaves it open.
WriteFails ==
    /\ At("writing")
    /\ faulty' = TRUE
    /\ \E left \in {<<>>, <<Torn>>, <<writer.writing>>} :
           disk' = [disk EXCEPT !.lines = @ \o left]
    /\ writer' = [writer EXCEPT
           !.failed = TRUE,
           !.handle = IF Head1.kind = "append" THEN @ ELSE "closed"]
    /\ Done("none")
    /\ UNCHANGED <<up, game>>

\* sync, then close, then, at the end of a match, rename.
Synced_NotYet ==
    /\ At("syncing")
    /\ stage' = "closing"
    /\ UNCHANGED <<up, game, session, writer, disk, faulty>>
Synced ==
    /\ At("syncing")
    /\ disk' = [disk EXCEPT !.synced = Len(disk.lines)]
    /\ stage' = "closing"
    /\ UNCHANGED <<up, game, session, writer, faulty>>

Closed ==
    /\ At("closing")
    /\ writer' = [writer EXCEPT !.handle = "closed"]
    /\ IF Head1.kind = "finalize" THEN stage' = "renaming" /\ UNCHANGED session ELSE Done("none")
    /\ UNCHANGED <<up, game, disk, faulty>>

Renamed ==
    /\ At("renaming")
    /\ disk' = [disk EXCEPT !.name = "final"]
    /\ Done("none")
    /\ UNCHANGED <<up, game, writer, faulty>>

\* What fails after the last write leaves the partial file, closed.
LaterFails ==
    /\ up /\ stage \in {"syncing", "closing", "renaming"}
    /\ writer' = [writer EXCEPT !.handle = "closed"]
    /\ faulty' = TRUE
    /\ Done("none")
    /\ UNCHANGED <<up, game, disk>>

\* The machine stops: of what was not synced, the line under way included, a prefix is
\* left, which may end within a line.
Crash ==
    /\ up
    /\ up' = FALSE
    /\ LET all == disk.lines \o IF stage = "writing" THEN <<writer.writing>> ELSE <<>>
       IN  \E n \in disk.synced..Len(all), torn \in {<<>>, <<Torn>>} :
               disk' = [disk EXCEPT
                   !.lines = SubSeq(all, 1, n) \o IF n < Len(all) THEN torn ELSE <<>>]
    /\ faulty' = TRUE
    /\ UNCHANGED <<game, session, stage, writer>>

-----------------------------------------------------------------------------
DiskStep ==
    \/ Create \/ AppendRecord \/ Finalize \/ ClosePartial \/ Skip
    \/ Written \/ WriteFails \/ Synced \/ Closed \/ Renamed \/ LaterFails

ReplayNext ==
    \/ Advance \/ ForceEnd \/ Abandon \/ DiskStep \/ Crash
    \/ \E p \in Players : EnqueueInput(p) \/ Control(p)

\* A disk operation that is under way comes back, with success or without.
ReplaySpec == ReplayInit /\ [][ReplayNext]_replayVars /\ WF_replayVars(DiskStep)

-----------------------------------------------------------------------------
(* Properties *)

Final == disk.name = "final"

\* A file under the final name is the whole replay of a match that ended: reading it
\* verifies every line and returns all that the hooks were called with, in that order, and
\* the end; no crash, no failure and no closing in between leaves such a file behind with
\* less in it.
FinalIsWhole ==
    Final =>
        LET read == Read(disk.lines, "final")
        IN  /\ read.stop = "complete"
            /\ read.frames = log
            /\ read.end = EndOf(result)

\* Playing the records but the last again, up to its frame, and requeueing its inputs.
BeforeLast(frames) ==
    LET last == Len(frames)
    IN  RequeuedGroups(AdvancedTo(ReplayedAll(SubSeq(frames, 1, last - 1)),
                                  frames[last].frame - 1),
                       frames[last].players)

\* Playing a final replay on a new match leads, frame by frame, to where the original one
\* went: the same inputs and controls at the same frames and under the same epochs, the
\* same winner for the same reason at the same frame.  A draw comes from a frame that
\* threw: there the last record leads to the match that threw, and it throws again.
ReconstructionAgrees ==
    Final =>
        LET read == Read(disk.lines, "final")
            broken == BeforeLast(read.frames)
        IN  IF read.end.reason = "draw"
            THEN TooMany(broken) /\ Drawn(Broken(broken)) = result
            ELSE /\ Verified(Reconstructed(read), read.end)
                 /\ Reconstructed(read).history = result.history

\* What docs/replays.md:41-46 says: every final replay plays back to the hash of its end,
\* a forced draw as well.  Not true of the code, which records the frame that threw and
\* lets it throw again (matchReplayReconstructor.ts:149); not run.
DrawsReplay ==
    Final =>
        LET read == Read(disk.lines, "final") IN Verified(Reconstructed(read), read.end)

\* A match that ends is settled, which its room waits for: the replay is published under
\* its final name, unless something failed or the replay had been given up before.
EndIsPublished ==
    (result.end # NoEnd) ~> (~up \/ (~session.open /\ (Final \/ faulty)))

\* Once the session is over, the file is not held open any longer.  Not true of the code,
\* which keeps the handle when a frame cannot be written (replayWriter.ts:159); not run.
HandleReleased ==
    ~session.open => writer.handle # "open"

=============================================================================
