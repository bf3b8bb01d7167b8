------------------------------ MODULE MatchDuel ------------------------------
(***************************************************************************)
(* A match as the coordinator plays it: two PlayerSimulations on one       *)
(* 7-bag sequence, frame after frame.  In a frame the first player's       *)
(* inputs are applied and his frame ended, then the second's, then the     *)
(* attacks of the two cancel each other and what is left is queued.        *)
(*                                                                         *)
(* advanceOneFrame is one synchronous call: `turn` only says how far it    *)
(* has come, and nothing else happens until it is back between frames.     *)
(* Where the inputs come from is MatchInput's part, who sees the frames is *)
(* StateSync's, what becomes of the result MatchLifecycle's.               *)
(*                                                                         *)
(* tally, swaps and Presses are no state of the code: the first two record *)
(* what was locked and queued, for the properties, the last bounds inputs. *)
(***************************************************************************)
EXTENDS PlayerSimulation

CONSTANTS
    Kinds,              \* the kinds in a bag, all seven in the code
    Bags,               \* how many bags the match may use
    Openings,           \* how its sequence may begin, a bound
    Boards,             \* Boards[q]: the boards q may start from
    Actions,            \* Actions[q]: the inputs q may make
    MaxPresses,         \* MaxPresses[q]: how many of them in the match
    MaxFrames,          \* how long the match is watched
    TravelFrames,       \* garbageTravelFrames
    Holes,              \* the columns a hole may be in
    TickRate, SnapshotRate

Players == {1, 2}

ASSUME DuelAssumption ==
    /\ Kinds \subseteq AllKinds /\ Kinds # {} /\ Bags \in Nat \ {0}
    /\ \A q \in Players :
          /\ Boards[q] \subseteq [1 .. Height -> OpenRows]
          /\ Actions[q] \subseteq SimulationInputAction
          /\ MaxPresses[q] \in Nat
    /\ {MaxFrames, TravelFrames} \subseteq Nat /\ {TickRate, SnapshotRate} \subseteq Nat \ {0}
    /\ Holes \subseteq Columns

VARIABLES
    players,            \* the two simulations
    serverFrame,        \* #serverFrame
    turn,               \* Between frames, the player being advanced, or Exchanging
    result,             \* the winner and the reason, None while the match goes on
    accumulator,        \* #snapshotAccumulator
    snapshots,          \* #stateSequence
    tally,              \* per player: cells at the start, lines, rows risen, ...
    swaps,              \* per player: holds since the last lock
    presses             \* per player: inputs made

duelVars ==
    <<pieces, players, serverFrame, turn, result, accumulator, snapshots, tally, swaps, presses>>

Other(q) == 3 - q
Between == 0
Exchanging == 3

(***************************** the piece sequence **************************)

\* Bag after bag, each a permutation of the kinds: the seed says which.
BagSequences ==
    LET size == Cardinality(Kinds)
    IN  {s \in [1 .. Bags * size -> Kinds] :
            \A b \in 0 .. (Bags - 1) :
                {s[b * size + i] : i \in 1 .. size} = Kinds}

\* A bound: the match goes on as long as a step cannot run past the last bag.
Supplied(q) == players[q].cursor + 2 \in DOMAIN pieces

(******************************** the frames *******************************)

CellCount(board) == Total([i \in 1 .. Height |-> Cardinality(board[i].cells)])

DuelInit ==
    /\ pieces \in {s \in BagSequences : \E o \in Openings : SubSeq(s, 1, Len(o)) = o}
    /\ \E board \in {f \in [Players -> Boards[1] \cup Boards[2]] :
                        \A q \in Players : f[q] \in Boards[q]} :
         /\ players = [q \in Players |-> Created(board[q])]
         /\ tally = [q \in Players |->
                       [start |-> CellCount(board[q]), lines |-> 0, risen |-> 0,
                        cancelled |-> 0, queued |-> 0, made |-> 0,
                        kinds |-> [k \in Kinds |-> 0]]]
    /\ serverFrame = 0
    /\ turn = Between
    /\ result = None
    /\ accumulator = 0
    /\ snapshots = 0
    /\ swaps = [q \in Players |-> 0]
    /\ presses = [q \in Players |-> 0]

BeginFrame ==
    /\ turn = Between
    /\ result = None
    /\ serverFrame < MaxFrames
    /\ serverFrame' = serverFrame + 1
    /\ turn' = 1
    /\ players' = [q \in Players |-> [players[q] EXCEPT !.locks = <<>>]]
    /\ UNCHANGED <<pieces, result, accumulator, snapshots, tally, swaps, presses>>

\* Player q becomes p: a lock ends the holds of a piece, a new hold piece is one more.
Become(q, p) ==
    /\ players' = [players EXCEPT ![q] = p]
    /\ swaps' = [swaps EXCEPT ![q] = IF p.placed > players[q].placed THEN 0
                                     ELSE IF p.hold # players[q].hold THEN @ + 1 ELSE @]

\* The next of the inputs drained for the frame; up is where a rounding roll would fall.
Play(q, action, up) ==
    /\ turn = q
    /\ Supplied(q)
    /\ presses[q] < MaxPresses[q]
    /\ presses' = [presses EXCEPT ![q] = @ + 1]
    /\ Become(q, Acted(players[q], action, serverFrame, up))
    /\ UNCHANGED <<pieces, serverFrame, turn, result, accumulator, snapshots, tally>>

EndAdvance(q, up) ==
    /\ turn = q
    /\ Supplied(q)
    /\ turn' = IF q = 1 THEN 2 ELSE Exchanging
    /\ Become(q, FrameEnded(players[q], serverFrame, up))
    /\ UNCHANGED <<pieces, serverFrame, result, accumulator, snapshots, tally, presses>>

\* What q's locks of this frame send, and what is left when the other's are netted off.
Outgoing(q) == Flat([i \in DOMAIN players[q].locks |-> players[q].locks[i].outgoing])
Remaining(q) == Netted(Outgoing(q), Outgoing(Other(q)))

\* #queuePackets
Queued(p, attacks, holes) ==
    LET packet(i) == [amount |-> attacks[i], at |-> serverFrame + TravelFrames,
                      hole |-> holes[i]]
        queued[n \in 0 .. Len(attacks)] ==
          IF n = 0 THEN p ELSE GarbageQueued(queued[n - 1], packet(n))
    IN  queued[Len(attacks)]

\* Result of the frame: a player who is topped out loses, both at once win nothing.
Verdict ==
    CASE players[1].topped /\ players[2].topped -> <<None, "simultaneous_topout">>
      [] players[1].topped /\ ~players[2].topped -> <<2, "topout">>
      [] ~players[1].topped /\ players[2].topped -> <<1, "topout">>
      [] ~players[1].topped /\ ~players[2].topped -> None

Sum(q, field(_)) == Total([i \in DOMAIN players[q].locks |-> field(players[q].locks[i])])

Counted(q) ==
    [tally[q] EXCEPT
        !.lines = @ + Sum(q, LAMBDA lock : lock.lines),
        !.risen = @ + Sum(q, LAMBDA lock : lock.risen),
        !.cancelled = @ + Sum(q, LAMBDA lock : lock.cancelled),
        !.made = @ + Total(Outgoing(q)),
        !.kinds = [k \in Kinds |-> @[k] + Sum(q, LAMBDA lock : IF lock.piece = k THEN 1 ELSE 0)]]

\* The rest of advanceOneFrame: packets, the verdict, and a snapshot when one is due.
Exchange ==
    /\ turn = Exchanging
    /\ turn' = Between
    /\ \E holes \in [Players -> [1 .. Len(Outgoing(1)) + Len(Outgoing(2)) -> Holes]] :
         players' = [q \in Players |->
                       [Queued(players[q], Remaining(Other(q)), holes[q]) EXCEPT !.locks = <<>>]]
    /\ tally' = [q \in Players |->
                   [Counted(q) EXCEPT !.queued = @ + Total(Remaining(Other(q)))]]
    /\ result' = Verdict
    /\ LET due == accumulator + SnapshotRate >= TickRate
       IN  IF Verdict # None THEN UNCHANGED <<accumulator, snapshots>>
           ELSE /\ accumulator' = accumulator + SnapshotRate - (IF due THEN TickRate ELSE 0)
                /\ snapshots' = snapshots + (IF due THEN 1 ELSE 0)
    /\ UNCHANGED <<pieces, serverFrame, swaps, presses>>

(****************************** between the frames *************************)

\* clearHeldInput, resetInput: the browser lost focus or its inputs were reset.
ClearHeldInput(q) ==
    /\ turn = Between
    /\ result = None
    /\ players[q].held # {}
    /\ players' = [players EXCEPT ![q] = HeldCleared(@)]
    /\ UNCHANGED <<pieces, serverFrame, turn, result, accumulator, snapshots, tally, swaps, presses>>

\* forceFinish, forceDraw and close.
ForceFinish ==
    /\ turn = Between
    /\ result = None
    /\ result' \in {<<1, "forfeit">>, <<2, "forfeit">>, <<None, "draw">>, <<None, "closed">>}
    /\ UNCHANGED <<pieces, players, serverFrame, turn, accumulator, snapshots, tally, swaps, presses>>

DuelNext ==
    \/ BeginFrame
    \/ \E q \in Players, up \in BOOLEAN :
         \/ EndAdvance(q, up)
         \/ \E action \in Actions[q] : Play(q, action, up)
    \/ Exchange
    \/ \E q \in Players : ClearHeldInput(q)
    \/ ForceFinish

DuelSpec == DuelInit /\ [][DuelNext]_duelVars

(******************************** properties *******************************)

\* The players whose game goes on.
Standing == {q \in Players : ~players[q].topped}

\* The piece a player moves never overlaps the stack, a wall or the floor, whatever order
\* inputs, gravity, kicks, lifted spawns and rising garbage come in; lockPiece throws on one
\* that does (board.ts), which would end the match with an error.
ActiveFits ==
    \A q \in Standing :
        players[q].pending = None => Fits(players[q].board, players[q].active)

\* No cell appears or is lost: a lock adds four, a line takes a row's, garbage brings a row
\* less its hole; and no full row stays on the board.
CellsAccounted ==
    \A q \in Standing :
        /\ CellCount(players[q].board) =
             tally[q].start + 4 * players[q].placed - Width * Counted(q).lines
               + (Width - 1) * Counted(q).risen
        /\ \A i \in 1 .. Height : players[q].board[i].cells # Columns

\* Every piece of the shared sequence a player has drawn lies in his stack, in his hold, or
\* is the one he plays or is due: a hold, buffered or not, neither loses nor repeats one.
\* And a piece that came out of the hold is played: between two locks a player changes his
\* hold once, also when it was buffered before the piece appeared.
PiecesAccounted ==
    /\ \A q \in Standing :
         LET p == players[q]
             playing == IF p.pending # None THEN p.pending.kind ELSE p.active.kind
             one(k, kind) == IF kind = k THEN 1 ELSE 0
         IN  \A k \in Kinds :
               Cardinality({i \in 1 .. p.cursor : pieces[i] = k}) =
                 Counted(q).kinds[k] + one(k, p.hold) + one(k, playing)
    /\ \A q \in Players : swaps[q] <= 1

\* Garbage is neither lost nor made on the way: what was queued for a player rose, was
\* cancelled or still waits; and what the players queue for each other differs by exactly
\* what their attacks differ, netting takes the same from both.
GarbageConserved ==
    /\ \A q \in Standing :
         tally[q].queued =
           Counted(q).risen + Counted(q).cancelled + Waiting(players[q].garbage)
    /\ tally[2].queued - tally[1].queued = tally[1].made - tally[2].made

\* A lock is a spin only if the piece's last successful action was a turn (docs/rules/
\* srs-plus.md:85): a piece that still falls before it locks has none.  Not true of the
\* code, where a fall leaves the last turn standing (playerSimulation.ts:242); not run.
SpinEndsInRotation ==
    [][\A q \in Standing :
          LET p == players[q]
              locks == players'[q].locks
          IN  turn = q /\ p.pending = None /\ ~Grounded(p) /\ Len(locks) > Len(p.locks)
                => locks[Len(p.locks) + 1].spin = "none"]_duelVars
=============================================================================
