--------------------------- MODULE PlayerSimulation ---------------------------
(***************************************************************************)
(* One player's board under his inputs: playerSimulation.ts of game-core   *)
(* with the generation of pieces and the resolution of locks.  A player is *)
(* a record with the private fields of the class; an input, or the tail of *)
(* advanceFrame, is an operator that gives the player after it.  MatchDuel *)
(* plays two of them against each other.                                   *)
(*                                                                         *)
(* Abstracted: the identity of packets and players, spawn events (they     *)
(* only make sound) and the range checks of arguments.                     *)
(*                                                                         *)
(* A definition named X_Mutation is X with a plausible bug: nothing uses   *)
(* it, a run in which it replaces X shows that the run's properties notice.*)
(***************************************************************************)
EXTENDS Playfield, VersusAttack

CONSTANTS
    SpawnX, SpawnY,             \* where a piece appears, (3, 17) in the code
    DasFrames, ArrFrames,       \* frames before a held key repeats, and between repeats
    Gravity, SoftDrop,          \* what a frame adds to the fall, in parts of CellParts
    CellParts,
    LockDelay,                  \* frames a piece may lie before it locks
    LockResetLimit,             \* how often moving it starts that delay again
    None                        \* null

VARIABLE pieces                 \* the sequence of the match, the same for both players

Sides == {"left", "right"}
SimulationInputAction ==
    [kind : {"move"}, side : Sides, pressed : BOOLEAN]
      \cup [kind : {"moveStep", "moveToWall"}, side : Sides]
      \cup [kind : {"softDrop"}, pressed : BOOLEAN] \cup [kind : {"softDropStep"}, cells : Nat]
      \cup [kind : {"rotate"}, turn : Turns]
      \cup [kind : {"sonicDrop", "clearHeld", "hardDrop", "hold"}]

\* A piece that has been asked for and is not on the board yet.
PendingGeneration == [kind : AllKinds, byHold : BOOLEAN, lift : BOOLEAN]

ASSUME SimulationAssumption ==
    /\ SpawnX \in Nat /\ SpawnY \in 0 .. (Height - 1)
    /\ {DasFrames, ArrFrames, Gravity, SoftDrop, LockDelay, LockResetLimit} \subseteq Nat
    /\ CellParts \in Nat \ {0}
    /\ GarbageCap <= Height            \* insertGarbage throws on more rows
    /\ None \notin AllKinds \cup Sides \cup Turns \cup PendingGeneration \cup ActivePiece

Opposite(side) == IF side = "left" THEN "right" ELSE "left"

(******************************** generation *******************************)

\* PlayerPieceGeneration.request: the next piece, not yet on the board.
Requested(p, kind, byHold, lift) ==
    [p EXCEPT !.pending = [kind |-> kind, byHold |-> byHold, lift |-> lift]]

NextKind(p) == pieces[p.cursor + 1]
Drawn(p) == [p EXCEPT !.cursor = @ + 1]

\* Where the piece may appear: turned if a turn is buffered and a test passes, else upright,
\* at the spawn row or, after a clear, at the lowest row above it that takes the piece.
Upright(kind, y) == [kind |-> kind, rotation |-> 0, x |-> SpawnX, y |-> y]
SpawnsTurned(p, kind, y) == p.irs # None /\ CanRotate(p.board, Upright(kind, y), p.irs)
SpawnRows(p, kind) ==
    {y \in SpawnY .. (IF p.pending.lift THEN Height - 1 ELSE SpawnY) :
        SpawnsTurned(p, kind, y) \/ Fits(p.board, Upright(kind, y))}

\* What a buffered hold leaves behind: the piece that was due, and no second hold for it.
HoldAfter_LosesPiece(p, usesHold) == IF usesHold /\ p.hold = None THEN p.pending.kind ELSE p.hold
HoldAfter(p, usesHold) == IF usesHold THEN p.pending.kind ELSE p.hold
CanHoldAfter(p, usesHold) == ~usesHold /\ ~p.pending.byHold

\* finishGeneration: a buffered hold chooses the kind, a buffered turn the orientation.
Generated(p) ==
    LET usesHold == p.ihs /\ ~p.pending.byHold
        fresh == usesHold /\ p.hold = None
        kind == IF ~usesHold THEN p.pending.kind ELSE IF fresh THEN NextKind(p) ELSE p.hold
        rows == SpawnRows(p, kind)
        piece == Upright(kind, Lowest(rows))
        turned == rows # {} /\ SpawnsTurned(p, kind, piece.y)
    IN  [p EXCEPT
           !.active = IF rows = {} THEN None
                      ELSE IF turned THEN Rotated(p.board, piece, p.irs) ELSE piece,
           !.hold = HoldAfter(p, usesHold),
           !.canHold = CanHoldAfter(p, usesHold),
           !.cursor = IF fresh THEN @ + 1 ELSE @,
           !.topped = rows = {},
           !.fallen = 0, !.lockFrames = 0, !.lockResets = 0,
           !.last = IF turned THEN [turn |-> p.irs, kick |-> KickIndex(p.board, piece, p.irs)]
                    ELSE NoTurn,
           !.pending = None, !.ihs = FALSE, !.irs = None]

Finished(p) == IF p.pending = None THEN p ELSE Generated(p)

\* The constructor: the first piece is drawn and stands on the board at once.
Created(board) ==
    LET p == [board |-> board, active |-> None, hold |-> None, canHold |-> TRUE, combo |-> -1,
              streak |-> 0, placed |-> 0, sent |-> 0, garbage |-> <<>>, held |-> {},
              side |-> None, sideFrames |-> 0, fallen |-> 0, lockFrames |-> 0,
              lockResets |-> 0, last |-> NoTurn, topped |-> FALSE, lift |-> FALSE,
              pending |-> None, ihs |-> FALSE, irs |-> None, cursor |-> 0, locks |-> <<>>]
    IN  Finished(Requested(Drawn(p), NextKind(p), FALSE, FALSE))

(******************************** movement *********************************)

Below(piece) == [piece EXCEPT !.y = @ - 1]
Grounded(p) == ~Fits(p.board, Below(p.active))

\* acceptManipulation: a move of a grounded piece restarts its lock delay, so many times.
Manipulated_Unchecked(p, candidate, last) ==
    LET resets == Grounded(p) /\ p.lockResets < LockResetLimit
    IN  [p EXCEPT !.active = candidate, !.last = last,
                  !.lockFrames = IF resets THEN 0 ELSE @,
                  !.lockResets = IF resets THEN @ + 1 ELSE @]
Manipulated(p, candidate, last) ==
    LET resets == Grounded(p) /\ p.lockResets < LockResetLimit
    IN  IF ~Fits(p.board, candidate) THEN p
        ELSE [p EXCEPT !.active = candidate, !.last = last,
                       !.lockFrames = IF resets THEN 0 ELSE @,
                       !.lockResets = IF resets THEN @ + 1 ELSE @]

Shifted(p, side) ==
    Manipulated(p, [p.active EXCEPT !.x = @ + (IF side = "left" THEN -1 ELSE 1)], NoTurn)
ShiftedToWall(p, side) ==
    LET moved[n \in 0 .. Width] == IF n = 0 THEN p ELSE Shifted(moved[n - 1], side)
    IN  moved[Width]

Turned(p, turn) ==
    IF ~CanRotate(p.board, p.active, turn) THEN p
    ELSE Manipulated(p, Rotated(p.board, p.active, turn),
                     [turn |-> turn, kick |-> KickIndex(p.board, p.active, turn)])

\* moveVertical keeps lastRotation: falling is no manipulation.
Lowered(p) == IF Grounded(p) THEN p ELSE [p EXCEPT !.active = Below(@)]
LoweredBy(p, cells) ==
    LET lowered[n \in 0 .. cells] == IF n = 0 THEN p ELSE Lowered(lowered[n - 1])
    IN  lowered[cells]
Dropped(p) == LoweredBy(p, Height)

HeldCleared(p) == [p EXCEPT !.held = {}, !.side = None, !.sideFrames = 0]

\* setHorizontal: the key pressed last leads; letting it go hands over to the other one.
SidePressed(p, side) ==
    LET q == [p EXCEPT !.held = @ \cup {side}]
    IN  IF side \in p.held THEN q
        ELSE Shifted([q EXCEPT !.side = side, !.sideFrames = 0], side)
SideReleased(p, side) ==
    LET q == [p EXCEPT !.held = @ \ {side}]
        other == Opposite(side)
    IN  IF p.side # side THEN q
        ELSE IF other \in p.held
        THEN Shifted([q EXCEPT !.side = other, !.sideFrames = 0], other)
        ELSE [q EXCEPT !.side = None, !.sideFrames = 0]

(********************************** locking ********************************)

\* resolvePlayerLock: a clear attacks and cancels, anything else lets the garbage rise.
Attacked(p, locked, spin, up) ==
    LET clear == [lines |-> locked.lines, spin |-> spin, combo |-> p.combo + 1,
                  allClear |-> locked.perfectClear, clearedGarbage |-> locked.clearedGarbage]
        done == CancelAll(p.garbage, Attacks(clear, p.streak, up),
                          OpenerMultiplier(p.placed, Waiting(p.garbage), p.sent))
    IN  [p EXCEPT !.board = locked.board,
                  !.combo = clear.combo,
                  !.streak = NextStreak(clear, @),
                  !.sent = @ + Total(done.outgoing),
                  !.garbage = done.packets,
                  !.locks = Append(@, [piece |-> p.active.kind, lines |-> locked.lines,
                                       spin |-> spin, cancelled |-> done.cancelled,
                                       outgoing |-> done.outgoing, risen |-> 0])]

Risen(p, locked, spin, frame) ==
    LET holes == RisingHoles(p.garbage, frame)
        inserted == InsertGarbage(locked.board, holes)
    IN  [p EXCEPT !.board = inserted.board,
                  !.combo = -1,
                  !.garbage = Without(@, Len(holes)),
                  !.topped = inserted.overflowed,
                  !.locks = Append(@, [piece |-> p.active.kind, lines |-> 0, spin |-> spin,
                                       cancelled |-> 0, outgoing |-> <<>>,
                                       risen |-> Len(holes)])]

\* lock: the next piece is asked for, and the first to follow a clear may be lifted.
Locked(p, frame, up) ==
    LET locked == LockPiece(p.board, p.active)
        spin == SpinOf(p.board, p.active, p.last)
        q == [(IF locked.lines > 0 THEN Attacked(p, locked, spin, up)
               ELSE Risen(p, locked, spin, frame))
              EXCEPT !.placed = @ + 1, !.lift = locked.lines > 0]
    IN  IF q.topped THEN q ELSE Requested(Drawn(q), NextKind(q), FALSE, q.lift)

Held(p) ==
    IF ~p.canHold THEN p
    ELSE LET q == IF p.hold = None THEN Drawn(p) ELSE p
             replacement == IF p.hold = None THEN NextKind(p) ELSE p.hold
         IN  Finished(Requested([q EXCEPT !.hold = p.active.kind, !.canHold = FALSE],
                                replacement, TRUE, p.lift))

(********************************** inputs *********************************)

\* applyAction, of a player who has a piece on the board.
Applied(p, action, frame, up) ==
    CASE action.kind = "move" /\ action.pressed -> SidePressed(p, action.side)
      [] action.kind = "move" /\ ~action.pressed -> SideReleased(p, action.side)
      [] action.kind = "moveStep" -> Shifted(p, action.side)
      [] action.kind = "moveToWall" -> ShiftedToWall(p, action.side)
      [] action.kind = "softDrop" ->
           [p EXCEPT !.held = IF action.pressed THEN @ \cup {"down"} ELSE @ \ {"down"}]
      [] action.kind = "softDropStep" -> LoweredBy(p, action.cells)
      [] action.kind = "sonicDrop" -> Dropped(p)
      [] action.kind = "rotate" -> Turned(p, action.turn)
      [] action.kind = "hold" -> Held(p)
      [] action.kind = "hardDrop" -> Locked(Dropped(p), frame, up)
      [] action.kind = "clearHeld" -> HeldCleared(p)

\* One input of a frame: while a piece is due, a hold or a turn is kept for it; anything
\* else brings it out first.
Acted(p, action, frame, up) ==
    LET q == Finished(p)
    IN  CASE p.pending # None /\ action.kind = "hold" -> [p EXCEPT !.ihs = TRUE]
          [] p.pending # None /\ action.kind = "rotate" -> [p EXCEPT !.irs = action.turn]
          [] p.pending = None \/ action.kind \notin {"hold", "rotate"} ->
               IF q.topped /\ action.kind # "clearHeld" THEN q
               ELSE Applied(q, action, frame, up)

(****************************** the end of a frame *************************)

\* repeatHorizontal
Repeats(p) ==
    LET q == [p EXCEPT !.sideFrames = @ + 1]
    IN  CASE p.side = None -> p
          [] p.side # None /\ q.sideFrames < DasFrames -> q
          [] p.side # None /\ q.sideFrames >= DasFrames /\ ArrFrames = 0 ->
               ShiftedToWall(q, q.side)
          [] p.side # None /\ q.sideFrames >= DasFrames /\ ArrFrames > 0 ->
               IF (q.sideFrames - DasFrames) % ArrFrames = 0 THEN Shifted(q, q.side) ELSE q

\* applyGravity
Falls(p) ==
    LET fallen == p.fallen + (IF "down" \in p.held THEN Most(Gravity, SoftDrop) ELSE Gravity)
    IN  LoweredBy([p EXCEPT !.fallen = fallen % CellParts],
                  Least(fallen \div CellParts, 40))

\* advanceLock
Settles(p, frame, up) ==
    CASE ~Grounded(p) -> [p EXCEPT !.lockFrames = 0]
      [] Grounded(p) /\ p.lockFrames + 1 < LockDelay -> [p EXCEPT !.lockFrames = @ + 1]
      [] Grounded(p) /\ p.lockFrames + 1 >= LockDelay ->
           Locked([p EXCEPT !.lockFrames = @ + 1], frame, up)

\* advanceFrame after its inputs.  Its throw for more than 64 actions in a frame ends the
\* match from outside the simulation: ReplayPersistence has it (TooMany), the duel does not.
FrameEnded(p, frame, up) ==
    LET q == Finished(p)
    IN  IF p.topped \/ q.topped THEN q
        ELSE Finished(Settles(Falls(Repeats(q)), frame, up))

\* queueGarbage
GarbageQueued(p, packet) ==
    IF p.topped THEN p ELSE [p EXCEPT !.garbage = Append(@, packet)]
=============================================================================
