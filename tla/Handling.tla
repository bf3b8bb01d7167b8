------------------------------ MODULE Handling -------------------------------
(***************************************************************************)
(* The keyboard of a duel: the HandlingEngine of the browser, which turns  *)
(* held keys into single moves by its own clock (DAS, ARR, DCD, soft       *)
(* drop), the GenerationInputBuffer, which repeats a held rotation or hold *)
(* for the next piece (IRS, IHS), and the MatchInputController, which      *)
(* predicts what it sends and tells the engine which pieces appeared.      *)
(*                                                                         *)
(* Time is counted in units; Never stands for the code's infinity.  Soft   *)
(* drops are one action per cell, which the code merges into one message.  *)
(* The numbering of the inputs is in MatchInput.                           *)
(*                                                                         *)
(* A definition named X_Mutation is X with a plausible bug: nothing uses   *)
(* it, it documents which property notices that bug.                       *)
(***************************************************************************)
EXTENDS Integers, Sequences, SequencesExt

CONSTANTS
    Bindings,       \* the actions a key is bound to
    Settings,       \* the handling settings: das, arr, dcd, sdf and the options
    MaxEmissions,   \* MAX_EMISSIONS_PER_ADVANCE
    SafeLockTime,   \* SAFE_LOCK_AFTER_AUTOMATIC_SPAWN_MS
    LastTime, MaxPresses   \* bounds of the model

Codes == DOMAIN Bindings
Directions == {"left", "right"}
Rotations == {"cw", "ccw"}
Actions == Directions \cup Rotations \cup {"softDrop", "hardDrop", "hold"}
PlayerActions == <<"left", "right", "softDrop", "hardDrop", "cw", "ccw", "hold">>
Sonic == 0                  \* the soft drop that goes to the floor at once
Never == -1
Modes == {"tap", "hold", "off"}

ASSUME HandlingAssumption ==
    /\ \A code \in Codes : Bindings[code] \subseteq Actions
    /\ Settings \subseteq [das : Nat \ {0}, arr : Nat, dcd : Nat, sdf : Nat, cancel : BOOLEAN,
                           preferDrop : BOOLEAN, safe : BOOLEAN, irs : Modes, ihs : Modes]
    /\ {MaxEmissions, LastTime, MaxPresses} \subseteq Nat \ {0} /\ SafeLockTime \in Nat

VARIABLES
    clock,      \* performance.now()
    handling,   \* the settings of the match
    engine,     \* the engine and its generation buffer
    player,     \* the predicted player: shown yet, may hold, buffered rotations it was given
    down,       \* the keys that are down
    keys,       \* those pressed since the window last lost the focus, newest last
    events      \* how many key presses, losses of focus and spawns there were
handlingVars == <<clock, handling, engine, player, down, keys, events>>

HandlingInit ==
    /\ clock = 0 /\ handling \in Settings
    /\ engine = [now |-> 0, pressed |-> {}, held |-> [a \in Actions |-> 0], order |-> <<>>,
                 active |-> "none", charged |-> FALSE, nextShift |-> Never, nextDrop |-> Never,
                 blocked |-> 0, skipped |-> FALSE,
                 rotations |-> <<>>, tapHold |-> FALSE, tapRotation |-> "none", prepared |-> <<>>]
    /\ player = [shown |-> FALSE, canHold |-> TRUE, given |-> 0]
    /\ down = {} /\ keys = <<>> /\ events = 0

Command(what, way, by) == [do |-> what, way |-> way, by |-> by]
Step(way) == Command("step", way, "key")
Wall(way) == Command("wall", way, "key")
Rotate(way, by) == Command("rotate", way, by)
Do(what) == Command(what, "none", "key")

-----------------------------------------------------------------------------
(* The engine: a result is the engine and the actions it put out. *)

\* The loops of the code: count rounds, the round n on what the one before it made.
Looped(Round(_, _), start, count) ==
    LET made[n \in 0 .. count] == IF n = 0 THEN start ELSE Round(made[n - 1], n)
    IN  made[count]

Result(e) == [e |-> e, out |-> <<>>]
Emit(r, action) == [r EXCEPT !.out = Append(@, action)]

\* #emitHorizontal, #emitSoftDrop
EmitShift(r) ==
    IF r.e.active = "none" THEN [r EXCEPT !.e.nextShift = Never]
    ELSE IF handling.arr = 0
    THEN Emit([r EXCEPT !.e.charged = TRUE, !.e.nextShift = Never], Wall(r.e.active))
    ELSE Emit([r EXCEPT !.e.charged = TRUE, !.e.nextShift = @ + handling.arr], Step(r.e.active))
EmitDrop(r) == Emit([r EXCEPT !.e.nextDrop = @ + handling.sdf], Do("soft"))

\* #skipBacklog
SkipBacklog(e, t) ==
    [e EXCEPT !.nextShift = IF @ = Never \/ handling.arr = 0 THEN Never ELSE t + handling.arr,
              !.nextDrop = IF @ = Never THEN Never ELSE t + handling.sdf,
              !.skipped = TRUE]

\* advance: what is due is put out in the order of its time, up to a limit.
Least(a, b) == IF a < b THEN a ELSE b
NextDue(e) ==
    IF e.nextShift = Never \/ (e.nextDrop # Never /\ e.nextDrop < e.nextShift)
    THEN e.nextDrop ELSE e.nextShift
Stopped(r, t) == NextDue(r.e) \notin 0 .. t \/ Len(r.out) >= MaxEmissions
AdvanceOnce_FromTarget(r, t) ==
    LET due == NextDue(r.e)
        at == [r EXCEPT !.e.now = t, !.e.nextShift = IF @ = due THEN t ELSE @]
    IN  IF Stopped(r, t) THEN r
        ELSE IF r.e.nextShift = due THEN EmitShift(at) ELSE EmitDrop(at)
AdvanceOnce(r, t) ==
    LET due == NextDue(r.e)
        at == [r EXCEPT !.e.now = due]
        shift == r.e.nextShift = due
        drop == r.e.nextDrop = due
    IN  IF Stopped(r, t) THEN r
        ELSE IF shift /\ drop
        THEN IF handling.preferDrop THEN EmitShift(EmitDrop(at)) ELSE EmitDrop(EmitShift(at))
        ELSE IF shift THEN EmitShift(at) ELSE EmitDrop(at)
AtTarget(r, t) ==
    LET kept == IF Len(r.out) = MaxEmissions THEN SkipBacklog(r.e, t) ELSE r.e
    IN  [r EXCEPT !.e = [kept EXCEPT !.now = t]]
Advanced(e, t) ==
    LET Round(r, n) == AdvanceOnce(r, t)
    IN  AtTarget(Looped(Round, Result(e), MaxEmissions), t)

\* #cutDasAt, #drainCurrent, #cutDasForManipulation
CutDas(e, t) ==
    IF e.active = "none" THEN e
    ELSE IF e.charged /\ handling.arr = 0 THEN [e EXCEPT !.nextShift = t + handling.dcd]
    ELSE IF e.nextShift = Never THEN e
    ELSE [e EXCEPT !.nextShift = (IF @ < t THEN t ELSE @) + handling.dcd]
DrainCurrent(r) == IF r.e.nextShift \in 0 .. r.e.now THEN EmitShift(r) ELSE r
CutForManipulation(r) == DrainCurrent([r EXCEPT !.e = CutDas(r.e, r.e.now)])

\* #selectDirection
SelectDirection_Uncharged(r, way) ==
    LET preserved == r.e.active # "none" /\ ~handling.cancel
        selected == Emit([r EXCEPT !.e.active = way], Step(way))
    IN  IF way = r.e.active THEN r
        ELSE IF way = "none"
        THEN [r EXCEPT !.e.active = way, !.e.charged = FALSE, !.e.nextShift = Never]
        ELSE DrainCurrent(IF preserved THEN [selected EXCEPT !.e.charged = FALSE]
                          ELSE [selected EXCEPT !.e.charged = FALSE,
                                                !.e.nextShift = r.e.now + handling.das])
SelectDirection(r, way) ==
    LET preserved == r.e.active # "none" /\ ~handling.cancel
        selected == Emit([r EXCEPT !.e.active = way], Step(way))
    IN  IF way = r.e.active THEN r
        ELSE IF way = "none"
        THEN [r EXCEPT !.e.active = way, !.e.charged = FALSE, !.e.nextShift = Never]
        ELSE DrainCurrent(
            IF ~preserved THEN [selected EXCEPT !.e.charged = FALSE,
                                                !.e.nextShift = r.e.now + handling.das]
            ELSE IF r.e.charged /\ handling.arr = 0 THEN [selected EXCEPT !.e.nextShift = r.e.now]
            ELSE selected)

\* #restartHeldSoftDrop, #pressAction
RestartSoftDrop(r) ==
    IF r.e.held["softDrop"] = 0 THEN r
    ELSE IF handling.sdf = Sonic THEN Emit([r EXCEPT !.e.nextDrop = Never], Do("floor"))
    ELSE [r EXCEPT !.e.nextDrop = r.e.now + handling.sdf]
PressAction(r, a) ==
    IF a = "softDrop" THEN RestartSoftDrop(r)
    ELSE IF a = "hardDrop" THEN IF r.e.now < r.e.blocked THEN r ELSE Emit(r, Do("hardDrop"))
    ELSE IF a = "hold" THEN Emit(r, Do("hold"))
    ELSE CutForManipulation(Emit(r, Rotate(a, "key")))

\* keyDown of the engine, for one action of the key.
Press(code, way) == [code |-> code, way |-> way]
Pressed(r, code, a) ==
    LET count == r.e.held[a]
        counted == [r EXCEPT !.e.held[a] = count + 1]
        ordered == [counted EXCEPT !.e.order = Append(@, Press(code, a))]
    IN  IF a \in Directions
        THEN IF count = 0 \/ r.e.active # a THEN SelectDirection(ordered, a) ELSE ordered
        ELSE IF count = 0 THEN PressAction(counted, a) ELSE counted

\* The last of them that is x goes.
RemoveLast(s, x) ==
    LET at == CHOOSE i \in DOMAIN s : s[i] = x /\ \A j \in DOMAIN s : j > i => s[j] # x
    IN  IF \E i \in DOMAIN s : s[i] = x THEN RemoveAt(s, at) ELSE s
Released(e, code) ==
    LET held == [a \in Actions |-> IF a \in Bindings[code] /\ e.held[a] > 0 THEN e.held[a] - 1
                                   ELSE e.held[a]]
    IN  [e EXCEPT !.pressed = @ \ {code}, !.held = held,
                  !.order = RemoveLast(RemoveLast(@, Press(code, "left")), Press(code, "right")),
                  !.nextDrop = IF "softDrop" \in Bindings[code] /\ held["softDrop"] = 0 THEN Never
                               ELSE @]

EngineDown(e, code) ==
    LET r == Advanced(e, clock)
        Act(s, n) == IF PlayerActions[n] \in Bindings[code] THEN Pressed(s, code, PlayerActions[n])
                     ELSE s
    IN  IF code \in e.pressed THEN r
        ELSE Looped(Act, [r EXCEPT !.e.pressed = @ \cup {code}], Len(PlayerActions))
SelectHeld_First(r) ==
    SelectDirection(r, IF r.e.order = <<>> THEN "none" ELSE Head(r.e.order).way)
SelectHeld(r) == SelectDirection(r, IF r.e.order = <<>> THEN "none" ELSE Last(r.e.order).way)
EngineUp(e, code) ==
    LET r == Advanced(e, clock)
    IN  IF code \notin e.pressed THEN r ELSE SelectHeld([r EXCEPT !.e = Released(@, code)])

\* notifyPieceSpawned of the engine
EngineSpawned(e, cause) ==
    LET r == Advanced(CutDas(e, clock), clock)
        safe == cause = "automatic" /\ handling.safe
    IN  RestartSoftDrop([r EXCEPT !.e.blocked = IF safe THEN clock + SafeLockTime ELSE 0])

-----------------------------------------------------------------------------
(* The generation buffer *)

BufferDown(e, code) ==
    LET turns == Bindings[code] \cap Rotations
        Turn(way) == IF way \in turns THEN <<Press(code, way)>> ELSE <<>>
    IN  IF code \in e.pressed THEN e
        ELSE [e EXCEPT !.tapHold = @ \/ "hold" \in Bindings[code],
                       !.rotations = @ \o Turn("cw") \o Turn("ccw"),
                       !.tapRotation = IF turns = {} THEN @
                                       ELSE IF "ccw" \in turns THEN "ccw" ELSE "cw"]
BufferUp(e, code) ==
    IF code \notin e.pressed THEN e
    ELSE [e EXCEPT !.rotations = RemoveLast(RemoveLast(@, Press(code, "cw")), Press(code, "ccw"))]

\* #consume: what is buffered for the piece that cause brings.
Some(actions, what) == \E i \in DOMAIN actions : actions[i].do = what
Consume(e, cause, existing) ==
    LET hold == IF handling.ihs = "hold" THEN e.held["hold"] > 0
                ELSE handling.ihs = "tap" /\ e.tapHold
        way == IF handling.irs = "tap" THEN e.tapRotation
               ELSE IF handling.irs = "hold" /\ e.rotations # <<>> THEN Last(e.rotations).way
               ELSE "none"
    IN  [e |-> [e EXCEPT !.tapHold = FALSE, !.tapRotation = "none"],
         out |-> (IF cause # "hold" /\ hold /\ ~Some(existing, "hold") THEN <<Do("hold")>>
                  ELSE <<>>)
                 \o (IF way # "none" /\ ~Some(existing, "rotate") THEN <<Rotate(way, "buffer")>>
                     ELSE <<>>)]

\* expand: only the first action that brings a piece takes what is buffered.
Brings(action) == action.do \in {"hardDrop", "hold"}
Expanded(r) ==
    LET first == SelectInSeq(r.out, Brings)
        before == IF first = 0 THEN r.out ELSE SubSeq(r.out, 1, first - 1)
        taken == \E i \in DOMAIN before :
                     before[i].do = "rotate" /\ before[i].way = r.e.tapRotation
        known == [r.e EXCEPT !.tapRotation = IF taken THEN "none" ELSE @]
        after == SubSeq(r.out, first + 1, Len(r.out))
        consumed == Consume(known, r.out[first].do, after)
    IN  IF first = 0 THEN [r EXCEPT !.e = known]
        ELSE [e |-> [consumed.e EXCEPT !.prepared = Append(@, r.out[first].do)],
              out |-> before \o <<r.out[first]>> \o consumed.out \o after]

\* spawned: nothing more for a piece whose cause was prepared.
Spawned(e, cause) ==
    LET at == SelectInSeq(e.prepared, LAMBDA prepared : prepared = cause)
    IN  IF at > 0 THEN Result([e EXCEPT !.prepared = SubSeq(@, at + 1, Len(@))])
        ELSE Consume([e EXCEPT !.prepared = <<>>], cause, <<>>)

NotifySpawned(e, cause) ==
    LET generated == Spawned(e, cause)
    IN  [EngineSpawned(generated.e, cause) EXCEPT !.out = generated.out \o @]

-----------------------------------------------------------------------------
(* The controller *)

\* predictPlayerActions, and how many buffered rotations the piece in play was given: a
\* hold or rotation right after a new piece belongs to its generation, which holds first.
NoGeneration == [open |-> FALSE, hold |-> FALSE, turns |-> 0]
PredictHold(p) == IF p.canHold THEN [p EXCEPT !.canHold = FALSE, !.given = 0] ELSE p
Turned(p, turns) == [p EXCEPT !.given = Least(@ + turns, 2)]
Finished(s) ==
    [s EXCEPT !.p = Turned(IF s.new.hold THEN PredictHold(@) ELSE @, s.new.turns),
              !.new = NoGeneration]
Turns(action) == IF action.by = "buffer" THEN 1 ELSE 0
PredictAction(s, action) ==
    LET t == Finished(s)
        brought == action.do = "hardDrop" \/ (action.do = "hold" /\ t.p.canHold)
    IN  IF s.new.open /\ action.do = "hold" THEN [s EXCEPT !.new.hold = TRUE]
        ELSE IF s.new.open /\ action.do = "rotate" THEN [s EXCEPT !.new.turns = Turns(action)]
        ELSE IF action.do = "rotate" THEN [t EXCEPT !.p = Turned(@, Turns(action))]
        ELSE IF brought
        THEN [t EXCEPT !.p = [@ EXCEPT !.canHold = action.do = "hardDrop", !.given = 0],
                       !.causes = Append(@, action.do), !.new.open = TRUE]
        ELSE t
Predicted(p, actions) ==
    IF ~p.shown THEN [p |-> p, causes |-> <<>>, new |-> NoGeneration]
    ELSE LET See(s, n) == PredictAction(s, actions[n])
         IN  Finished(Looped(See, [p |-> p, causes |-> <<>>, new |-> NoGeneration], Len(actions)))

\* #send: predicts, sends, and hands every piece it predicted to the engine, which may
\* have a buffered hold to send; the piece that the hold brings asks for no other.
HeldToo(r, predicted) ==
    LET held == NotifySpawned(r.e, "hold")
    IN  IF predicted.causes = <<>> THEN [e |-> r.e, p |-> predicted.p]
        ELSE [e |-> held.e, p |-> Predicted(predicted.p, held.out).p]
Brought(s, cause) ==
    LET r == NotifySpawned(s.e, cause)
    IN  HeldToo(r, Predicted(s.p, r.out))
Sent(r, p) ==
    LET predicted == Predicted(p, r.out)
        Tell(s, n) == Brought(s, predicted.causes[n])
    IN  Looped(Tell, [e |-> r.e, p |-> predicted.p], Len(predicted.causes))
Dispatch(r, p) == \E s \in {Sent(r, p)} : engine' = s.e /\ player' = s.p

Counted == events < MaxPresses /\ events' = events + 1

KeyDown(code) ==
    /\ code \notin down /\ Counted
    /\ down' = down \cup {code} /\ keys' = Append(keys, code)
    /\ Dispatch(Expanded(EngineDown(BufferDown(engine, code), code)), player)
    /\ UNCHANGED <<clock, handling>>

KeyUp(code) ==
    /\ code \in down
    /\ down' = down \ {code} /\ keys' = RemoveLast(keys, code)
    /\ Dispatch(Expanded(EngineUp(BufferUp(engine, code), code)), player)
    /\ UNCHANGED <<clock, handling, events>>

\* A key that was down when the focus was lost is released where the page does not see it.
ReleasedElsewhere(code) ==
    /\ code \in down /\ \A i \in DOMAIN keys : keys[i] # code
    /\ down' = down \ {code}
    /\ UNCHANGED <<clock, handling, engine, player, keys, events>>

\* blur: the actions it sends change nothing here.
Blur ==
    /\ Counted
    /\ engine' = [engine EXCEPT !.now = clock, !.pressed = {}, !.held = [a \in Actions |-> 0],
                     !.order = <<>>, !.active = "none", !.charged = FALSE,
                     !.nextShift = Never, !.nextDrop = Never,
                     !.rotations = <<>>, !.tapHold = FALSE, !.tapRotation = "none",
                     !.prepared = <<>>]
    /\ keys' = <<>>
    /\ UNCHANGED <<clock, handling, player, down>>

\* The animation frame, which a busy page gets late.
AnimationFrame ==
    /\ engine.now < clock
    /\ Dispatch(Expanded(Advanced(engine, clock)), player)
    /\ UNCHANGED <<clock, handling, down, keys, events>>

\* The first snapshot shows the player; a later one brings a piece that no input brought.
Snapshot ==
    /\ ~player.shown /\ player' = [player EXCEPT !.shown = TRUE]
    /\ UNCHANGED <<clock, handling, engine, down, keys, events>>

AutomaticSpawn ==
    /\ player.shown /\ Counted
    /\ Dispatch(NotifySpawned(engine, "automatic"), [player EXCEPT !.canHold = TRUE, !.given = 0])
    /\ UNCHANGED <<clock, handling, down, keys>>

Pass ==
    /\ clock < LastTime /\ clock' = clock + 1
    /\ UNCHANGED <<handling, engine, player, down, keys, events>>

HandlingNext ==
    \/ \E code \in Codes : KeyDown(code) \/ KeyUp(code) \/ ReleasedElsewhere(code)
    \/ Blur \/ AnimationFrame \/ Snapshot \/ AutomaticSpawn \/ Pass

HandlingSpec == HandlingInit /\ [][HandlingNext]_handlingVars

-----------------------------------------------------------------------------
(* Properties *)

\* The piece is shifted in the direction of the newest direction key that is held, also
\* when keys share an action, a key has two, or the window lost the focus in between: no
\* direction sticks after its key is released, and none that is held is forgotten.
Way(code) ==
    IF "right" \in Bindings[code] THEN "right"
    ELSE IF "left" \in Bindings[code] THEN "left" ELSE "none"
Pointing == {i \in DOMAIN keys : Way(keys[i]) # "none"}
NewestDirection ==
    \/ Pointing = {} /\ engine.active = "none"
    \/ \E i \in Pointing : engine.active = Way(keys[i]) /\ \A j \in Pointing : j <= i

\* A held direction always goes on shifting: it is about to repeat, or it has been at the
\* wall since the piece appeared (unless the engine gave up on a backlog).
ShiftGoesOn ==
    engine.active # "none" /\ ~engine.skipped =>
        engine.nextShift # Never \/ (engine.charged /\ handling.arr = 0)

\* What the keys come to does not depend on the frame rate: an engine that is advanced in
\* between puts out the same actions and ends in the same state as one that is not (unless
\* the backlog reaches its limit).
FrameRateIndependent ==
    \A t \in engine.now .. clock :
        LET early == Advanced(engine, t)
            split == Advanced(early.e, clock)
            whole == Advanced(engine, clock)
        IN  \/ Len(whole.out) >= MaxEmissions
            \/ split.e = whole.e /\ early.out \o split.out = whole.out

\* A held rotation turns a new piece once.  Not true of the code when a hold is buffered
\* with it (generationInputBuffer.ts:114-122, 154-165); not run.
OneRotationPerPiece == player.given <= 1

=============================================================================
