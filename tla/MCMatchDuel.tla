----------------------------- MODULE MCMatchDuel -----------------------------
(***************************************************************************)
(* MatchDuel on a board four columns wide.                                 *)
(***************************************************************************)
EXTENDS MatchDuel

Stack(rows) ==
    [i \in 1 .. Height |-> IF i <= Len(rows) THEN [cells |-> rows[i], garbage |-> i = 1]
                                             ELSE EmptyRow]

Tall == Stack(<<{0, 1, 2}, {0, 1, 2}, {0, 1, 2}, {1, 2}>>)

\* An empty board; one that a T clears; a well for an I with no room above it.
MCBoards == <<{EmptyBoard, Stack(<<{3}>>), Tall}, {EmptyBoard, Tall}>>

MCOpenings ==
    {<<"T", "I", "T", "I", "I", "T", "T", "I">>, <<"I", "T", "T", "I", "I", "T", "I", "T">>}

AllActions ==
    {[kind |-> "move", side |-> s, pressed |-> p] : s \in Sides, p \in BOOLEAN}
      \cup {[kind |-> "moveStep", side |-> "right"], [kind |-> "moveToWall", side |-> "left"]}
      \cup {[kind |-> "softDrop", pressed |-> p] : p \in BOOLEAN}
      \cup {[kind |-> "softDropStep", cells |-> 2]}
      \cup {[kind |-> "rotate", turn |-> t] : t \in Turns}
      \cup {[kind |-> k] : k \in {"sonicDrop", "hold", "hardDrop", "clearHeld"}}

MCActions == <<AllActions, {[kind |-> "hardDrop"]}>>
MCMaxPresses == <<3, 1>>
=============================================================================
