------------------------------ MODULE Playfield ------------------------------
(***************************************************************************)
(* The board and the pieces of game-core: geometry, SRS+ rotation, locking *)
(* with line clears, garbage rows and the classification of spins.  Every  *)
(* definition is an operator on values; PlayerSimulation gives them state. *)
(*                                                                         *)
(* A board is its rows from the floor up, row y at index y + 1; a row is   *)
(* the set of its occupied columns and the mark that it came as garbage.   *)
(* A cell is <<x, y>>, x to the right and y up, both counted from 0.       *)
(*                                                                         *)
(* A definition named X_Mutation is X with a plausible bug: nothing uses   *)
(* it, a run in which it replaces X shows that the run's properties notice.*)
(***************************************************************************)
EXTENDS Integers, Sequences, FiniteSets, Arrays

CONSTANTS
    Width,      \* BOARD_WIDTH, 10 in the code
    Height      \* BOARD_HEIGHT, 40 in the code

ASSUME SizeAssumption == Width \in Nat \ {0} /\ Height \in Nat \ {0}

Columns == 0 .. (Width - 1)
AllKinds == {"I", "J", "L", "O", "S", "T", "Z"}
Rotations == 0 .. 3
Turns == {"cw", "ccw", "180"}
ActivePiece == [kind : AllKinds, rotation : Rotations, x : Int, y : Int]

Lowest(S) == CHOOSE n \in S : \A m \in S : n <= m

(******************************** the pieces *******************************)

SpawnCells(kind) ==
    CASE kind = "I" -> {<<0, 2>>, <<1, 2>>, <<2, 2>>, <<3, 2>>}
      [] kind = "J" -> {<<0, 2>>, <<0, 1>>, <<1, 1>>, <<2, 1>>}
      [] kind = "L" -> {<<2, 2>>, <<0, 1>>, <<1, 1>>, <<2, 1>>}
      [] kind = "O" -> {<<1, 2>>, <<2, 2>>, <<1, 1>>, <<2, 1>>}
      [] kind = "S" -> {<<1, 2>>, <<2, 2>>, <<0, 1>>, <<1, 1>>}
      [] kind = "T" -> {<<1, 2>>, <<0, 1>>, <<1, 1>>, <<2, 1>>}
      [] kind = "Z" -> {<<0, 2>>, <<1, 2>>, <<1, 1>>, <<2, 1>>}

\* The side of the box whose centre is the pivot: (1.5, 1.5) for I and O, else (1, 1).
BoxSide(kind) == IF kind \in {"I", "O"} THEN 4 ELSE 3

\* A quarter turn clockwise about the centre of the box.
RotateCellClockwise(cell, kind) == <<cell[2], BoxSide(kind) - 1 - cell[1]>>

LocalCells ==
    [kind \in AllKinds |->
        LET turned[n \in Rotations] ==
              IF n = 0 THEN SpawnCells(kind)
                       ELSE {RotateCellClockwise(cell, kind) : cell \in turned[n - 1]}
        IN  turned]

WorldCells(piece) ==
    {<<piece.x + cell[1], piece.y + cell[2]>> : cell \in LocalCells[piece.kind][piece.rotation]}

(******************************** the board ********************************)

\* The rows that may lie on a board between two locks: none of them is full.
OpenRows == [cells : (SUBSET Columns) \ {Columns}, garbage : BOOLEAN]

EmptyRow == [cells |-> {}, garbage |-> FALSE]
Rows(n) == [i \in 1 .. n |-> EmptyRow]
EmptyBoard == Rows(Height)

Fits(board, piece) ==
    \A cell \in WorldCells(piece) :
        /\ cell[1] \in Columns
        /\ cell[2] \in 0 .. (Height - 1)
        /\ cell[1] \notin board[cell[2] + 1].cells

\* lockPiece with its full rows left standing: nothing is cleared yet.
Filled(board, piece) ==
    [i \in 1 .. Height |->
        [board[i] EXCEPT !.cells = @ \cup {cell[1] : cell \in {c \in WorldCells(piece) :
                                                                    c[2] = i - 1}}]]

\* Rows that are full go, the ones above come down, empty ones come in at the top.
Cleared_LosesRow(board) ==
    LET kept == Keep(board, OpenRows)
    IN  IF Len(kept) = Height THEN board
        ELSE Tail(kept) \o Rows(Height - Len(kept) + 1)
Cleared(board) ==
    LET kept == Keep(board, OpenRows)
    IN  kept \o Rows(Height - Len(kept))

LockPiece(board, piece) ==
    LET filled == Filled(board, piece)
        full == {i \in 1 .. Height : filled[i].cells = Columns}
        next == Cleared(filled)
    IN  [board |-> next,
         lines |-> Cardinality(full),
         clearedGarbage |-> \E i \in full : filled[i].garbage,
         perfectClear |-> \A i \in 1 .. Height : next[i].cells = {}]

\* Garbage enters at the floor, the first hole in row 0, and lifts what is there.
InsertGarbage(board, holes) ==
    LET rows == [i \in 1 .. Len(holes) |->
                    [cells |-> Columns \ {holes[i]}, garbage |-> TRUE]]
    IN  [board |-> SubSeq(rows \o board, 1, Height),
         overflowed |-> \E i \in (Height - Len(holes) + 1) .. Height : board[i].cells # {}]

(********************************* rotation ********************************)

TargetRotation(from, turn) ==
    (from + (CASE turn = "cw" -> 1 [] turn = "ccw" -> 3 [] turn = "180" -> 2)) % 4

\* JLSTZ_90_KICKS; the two transitions that reach or leave a side share their tests.
JLSTZ90Kicks(from, to) ==
    CASE to = 1   -> << <<0, 0>>, <<-1, 0>>, <<-1, 1>>, <<0, -2>>, <<-1, -2>> >>
      [] from = 1 -> << <<0, 0>>, <<1, 0>>, <<1, -1>>, <<0, 2>>, <<1, 2>> >>
      [] to = 3   -> << <<0, 0>>, <<1, 0>>, <<1, 1>>, <<0, -2>>, <<1, -2>> >>
      [] from = 3 -> << <<0, 0>>, <<-1, 0>>, <<-1, -1>>, <<0, 2>>, <<-1, 2>> >>

I90Kicks(from, to) ==
    CASE <<from, to>> = <<0, 1>> -> << <<0, 0>>, <<1, 0>>, <<-2, 0>>, <<-2, -1>>, <<1, 2>> >>
      [] <<from, to>> = <<1, 0>> -> << <<0, 0>>, <<-1, 0>>, <<2, 0>>, <<-1, -2>>, <<2, 1>> >>
      [] <<from, to>> = <<1, 2>> -> << <<0, 0>>, <<-1, 0>>, <<2, 0>>, <<-1, 2>>, <<2, -1>> >>
      [] <<from, to>> = <<2, 1>> -> << <<0, 0>>, <<-2, 0>>, <<1, 0>>, <<-2, 1>>, <<1, -2>> >>
      [] <<from, to>> = <<2, 3>> -> << <<0, 0>>, <<2, 0>>, <<-1, 0>>, <<2, 1>>, <<-1, -2>> >>
      [] <<from, to>> = <<3, 2>> -> << <<0, 0>>, <<1, 0>>, <<-2, 0>>, <<1, 2>>, <<-2, -1>> >>
      [] <<from, to>> = <<3, 0>> -> << <<0, 0>>, <<1, 0>>, <<-2, 0>>, <<1, -2>>, <<-2, 1>> >>
      [] <<from, to>> = <<0, 3>> -> << <<0, 0>>, <<-1, 0>>, <<2, 0>>, <<2, -1>>, <<-1, 2>> >>

JLSTZ180Kicks(from) ==
    CASE from = 0 -> << <<0, 0>>, <<0, 1>>, <<1, 1>>, <<-1, 1>>, <<1, 0>>, <<-1, 0>> >>
      [] from = 1 -> << <<0, 0>>, <<1, 0>>, <<1, 2>>, <<1, 1>>, <<0, 2>>, <<0, 1>> >>
      [] from = 2 -> << <<0, 0>>, <<0, -1>>, <<-1, -1>>, <<1, -1>>, <<-1, 0>>, <<1, 0>> >>
      [] from = 3 -> << <<0, 0>>, <<-1, 0>>, <<-1, 2>>, <<-1, 1>>, <<0, 2>>, <<0, 1>> >>

I180Kicks(from) ==
    << <<0, 0>>, (CASE from = 0 -> <<0, 1>> [] from = 1 -> <<1, 0>>
                    [] from = 2 -> <<0, -1>> [] from = 3 -> <<-1, 0>>) >>

KickTests(kind, from, turn) ==
    LET to == TargetRotation(from, turn)
    IN  CASE kind = "O" -> << <<0, 0>> >>
          [] kind = "I" /\ turn = "180" -> I180Kicks(from)
          [] kind = "I" /\ turn # "180" -> I90Kicks(from, to)
          [] kind \notin {"O", "I"} /\ turn = "180" -> JLSTZ180Kicks(from)
          [] kind \notin {"O", "I"} /\ turn # "180" -> JLSTZ90Kicks(from, to)

\* The piece turned and displaced by the k-th test.
Kicked(piece, turn, k) ==
    LET kick == KickTests(piece.kind, piece.rotation, turn)[k]
    IN  [piece EXCEPT !.rotation = TargetRotation(@, turn),
                      !.x = @ + kick[1], !.y = @ + kick[2]]

\* The tests the turned piece passes, and the turn that takes the first of them.
Passing(board, piece, turn) ==
    {k \in DOMAIN KickTests(piece.kind, piece.rotation, turn) :
        Fits(board, Kicked(piece, turn, k))}
CanRotate(board, piece, turn) == Passing(board, piece, turn) # {}
KickIndex(board, piece, turn) == Lowest(Passing(board, piece, turn)) - 1
Rotated(board, piece, turn) == Kicked(piece, turn, Lowest(Passing(board, piece, turn)))

(********************************** spins **********************************)

NoTurn == [turn |-> "none", kick |-> 0]     \* lastRotation = null

Occupied(board, x, y) ==
    x \notin Columns \/ y \notin 0 .. (Height - 1) \/ x \in board[y + 1].cells

FrontOffsets(rotation) ==
    CASE rotation = 0 -> {<<-1, 1>>, <<1, 1>>}   [] rotation = 1 -> {<<1, 1>>, <<1, -1>>}
      [] rotation = 2 -> {<<-1, -1>>, <<1, -1>>} [] rotation = 3 -> {<<-1, 1>>, <<-1, -1>>}

Immobile(board, piece) ==
    \A d \in {<<-1, 0>>, <<1, 0>>, <<0, -1>>, <<0, 1>>} :
        ~Fits(board, [piece EXCEPT !.x = @ + d[1], !.y = @ + d[2]])

\* All-Mini+, on the board as it is before the piece is locked.
SpinOf(board, piece, last) ==
    LET taken(offsets) ==
          Cardinality({d \in offsets : Occupied(board, piece.x + 1 + d[1], piece.y + 1 + d[2])})
        cornered == piece.kind = "T" /\ taken({-1, 1} \X {-1, 1}) >= 3
        facing == \/ taken(FrontOffsets(piece.rotation)) = 2
                  \/ last.turn # "180" /\ last.kick = 4
    IN  CASE last = NoTurn -> "none"
          [] last # NoTurn /\ cornered /\ facing -> "full"
          [] last # NoTurn /\ cornered /\ ~facing -> "mini"
          [] last # NoTurn /\ ~cornered -> IF Immobile(board, piece) THEN "mini" ELSE "none"
=============================================================================
