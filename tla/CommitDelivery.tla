--------------------------- MODULE CommitDelivery ---------------------------
(***************************************************************************)
(* What the room server promises about the effects of committed commands:  *)
(* the effects of one room are settled one at a time, in the order of the  *)
(* room's commits and, within a commit, in the order it emitted them; none *)
(* overtakes another, none is lost unless the whole outbox is discarded,   *)
(* and a commit is not taken up again while effects of it are owed.        *)
(***************************************************************************)
EXTENDS Naturals, Sequences

CONSTANTS
    Rooms, Keys,
    RoomOf,     \* the room of a commit
    Size        \* the number of its effects

VARIABLES
    owed,       \* for each room, the effects not settled yet, oldest first
    discarded

Init == owed = [r \in Rooms |-> <<>>] /\ discarded = FALSE

Owing(queues, k) == \E r \in Rooms : \E i \in DOMAIN queues[r] : queues[r][i][1] = k

\* The effects of a commit, each named by the commit and its position in it.
Joined(queues, k) ==
    [queues EXCEPT ![RoomOf[k]] = @ \o [i \in 1..Size[k] |-> <<k, i>>]]

TakeUp(queues, k) ==
    /\ ~discarded /\ ~Owing(queues, k)
    /\ owed' = Joined(queues, k) /\ UNCHANGED discarded

\* Settling the last effect of a commit may make room for one that waited.
Settle(r) ==
    /\ ~discarded /\ owed[r] # <<>>
    /\ LET rest == [owed EXCEPT ![r] = Tail(@)]
       IN  \/ owed' = rest /\ UNCHANGED discarded
           \/ \E k \in Keys : TakeUp(rest, k)

Discard == discarded' = TRUE /\ owed' = [r \in Rooms |-> <<>>]

Next == (\E k \in Keys : TakeUp(owed, k)) \/ (\E r \in Rooms : Settle(r)) \/ Discard

Spec == Init /\ [][Next]_<<owed, discarded>>

=============================================================================
