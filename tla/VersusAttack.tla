---------------------------- MODULE VersusAttack ----------------------------
(***************************************************************************)
(* What a clear is worth and how it meets the garbage that is under way:   *)
(* versusAttack.ts and garbageQueue.ts of game-core.  The fraction of an   *)
(* attack is counted in quarters; the roll that rounds it is an argument.  *)
(*                                                                         *)
(* A definition named X_Mutation is X with a plausible bug: nothing uses   *)
(* it, a run in which it replaces X shows that the run's properties notice.*)
(***************************************************************************)
EXTENDS Integers, Sequences, FiniteSets, Arrays

CONSTANTS
    OpenerPieces,       \* openerPieces, 14 in the code
    GarbageCap          \* garbageCap of the rules, 8 in the code

ASSUME AttackAssumption == OpenerPieces \in Nat /\ GarbageCap \in Nat \ {0}

Least(a, b) == IF a <= b THEN a ELSE b
Most(a, b) == IF a >= b THEN a ELSE b

\* What n leaves of the amounts when it is taken from the first of them on.
Spared(amounts, n) ==
    LET before(i) == Total(SubSeq(amounts, 1, i - 1))
    IN  [i \in DOMAIN amounts |-> amounts[i] - Least(amounts[i], Most(0, n - before(i)))]

(******************************* the attack ********************************)

\* A clear: [lines, spin, combo, allClear, clearedGarbage].

BaseAttack(lines, spin) ==
    IF spin = "full" THEN <<2, 4, 6, 10>>[lines] ELSE <<0, 1, 2, 4>>[lines]

IsDifficult(clear) == clear.lines = 4 \/ clear.spin # "none" \/ clear.allClear

\* The count a player sees, and the charge it releases when the streak breaks.
DisplayedCount(streak) == Most(0, streak - 1)
SurgeCharge(streak) == IF DisplayedCount(streak) >= 4 THEN DisplayedCount(streak) ELSE 0

SplitSurge(charge) ==
    IF charge = 0 THEN <<>>
    ELSE [i \in 1 .. 3 |-> (charge \div 3) + (IF i - 1 < charge % 3 THEN 1 ELSE 0)]

\* base * (1 + combo / 4) in quarters; a base of zero is worth ln(1 + 1.25 * combo) from the
\* third clear on, which is never whole: 1 to 2 from combo 2, 2 to 3 from combo 6, and so on.
ScaledFloor(base, combo) ==
    IF base = 0 /\ combo >= 2
    THEN Cardinality({c \in {2, 6, 16, 43, 118} : combo >= c})
    ELSE (base * (4 + combo)) \div 4
ScaledFraction(base, combo) ==
    IF base = 0 THEN combo >= 2 ELSE (base * (4 + combo)) % 4 # 0

\* The attacks of a clear in the order they are sent; up is the outcome of the rounding roll.
Attacks(clear, streak, up) ==
    LET difficult == IsDifficult(clear)
        base == BaseAttack(clear.lines, clear.spin)
                  + (IF difficult /\ streak > 0 THEN 1 ELSE 0)
        rounded == ScaledFloor(base, clear.combo)
                     + (IF up /\ ScaledFraction(base, clear.combo) THEN 1 ELSE 0)
        bonus == (IF clear.allClear THEN 5 ELSE 0)
                   + (IF clear.clearedGarbage /\ (clear.lines = 4 \/ clear.spin # "none")
                      THEN 1 ELSE 0)
        surge == IF difficult THEN <<>> ELSE SplitSurge(SurgeCharge(streak))
    IN  Keep(<<rounded + bonus>> \o surge, Nat \ {0})

NextStreak(clear, streak) == IF IsDifficult(clear) THEN streak + 1 ELSE 0

OpenerMultiplier(placed, waiting, sent) == IF placed < OpenerPieces /\ waiting > sent THEN 2 ELSE 1

(****************************** the garbage queue **************************)

\* A packet may rise from the frame `at` on.
Packet == [amount : Nat \ {0}, at : Nat, hole : Nat]

Amounts(packets) == [i \in DOMAIN packets |-> packets[i].amount]
Waiting(packets) == Total(Amounts(packets))

\* The queue once n of its rows are taken from the front.
Without(packets, n) ==
    LET left == Spared(Amounts(packets), n)
    IN  Keep([i \in DOMAIN packets |-> [packets[i] EXCEPT !.amount = left[i]]], Packet)

\* One attack meets the queue: what is left of both, and how much was cancelled.
Cancel_CountsAttack(packets, attack, multiplier) ==
    LET cancelled == Least(Waiting(packets), attack * multiplier)
        spent == Least(attack, (cancelled + multiplier - 1) \div multiplier)
    IN  [packets |-> Without(packets, cancelled),
         cancelled |-> spent,
         outgoing |-> attack - spent]
Cancel(packets, attack, multiplier) ==
    LET cancelled == Least(Waiting(packets), attack * multiplier)
        spent == Least(attack, (cancelled + multiplier - 1) \div multiplier)
    IN  [packets |-> Without(packets, cancelled),
         cancelled |-> cancelled,
         outgoing |-> attack - spent]

\* The attacks of a clear meet the queue one by one.
Met(state, attack, multiplier) ==
    LET done == Cancel(state.packets, attack, multiplier)
    IN  [packets |-> done.packets,
         cancelled |-> state.cancelled + done.cancelled,
         outgoing |-> IF done.outgoing > 0 THEN Append(state.outgoing, done.outgoing)
                                           ELSE state.outgoing]
CancelAll(packets, attacks, multiplier) ==
    LET met[n \in 0 .. Len(attacks)] ==
          IF n = 0 THEN [packets |-> packets, cancelled |-> 0, outgoing |-> <<>>]
          ELSE Met(met[n - 1], attacks[n], multiplier)
    IN  met[Len(attacks)]

\* The rows that rise at a lock: those of the packets at the front whose time has come, up
\* to the cap, each with its packet's hole.
Ready(packets, frame) ==
    LET early == {i \in DOMAIN packets : packets[i].at > frame}
    IN  IF early = {} THEN packets
        ELSE SubSeq(packets, 1, (CHOOSE i \in early : \A j \in early : i <= j) - 1)
RisingHoles(packets, frame) ==
    LET rows == Flat([i \in DOMAIN Ready(packets, frame) |->
                        [n \in 1 .. packets[i].amount |-> packets[i].hole]])
    IN  SubSeq(rows, 1, Least(GarbageCap, Len(rows)))

\* The attacks two players make in one frame cancel each other before they are sent.
Netted(mine, theirs) == Keep(Spared(mine, Least(Total(mine), Total(theirs))), Nat \ {0})
=============================================================================
