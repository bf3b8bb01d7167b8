---------------------------- MODULE CommitOutbox ----------------------------
(***************************************************************************)
(* RoomCommitOutbox: the bounded queue that delivers the effects of every  *)
(* committed room command, one lane for each room, with a FIFO of commits  *)
(* waiting for capacity and a memory of the commits completed last.        *)
(*                                                                         *)
(* A step is what the code does between two awaits: a lane awaits the      *)
(* handler, and startLane runs from a microtask of its own.  A commit is   *)
(* its key (room and presence sequence) and its print (the fingerprint of  *)
(* its effects).  Backoff delays are abstracted to "the timer fires later".*)
(*                                                                         *)
(* A definition named X_Mutation is X with a plausible bug: nothing uses   *)
(* it, it documents which property notices that bug.                       *)
(***************************************************************************)
EXTENDS Naturals, Sequences, FiniteSets, Functions, Arrays

CONSTANTS
    Rooms, Keys,
    RoomOf,             \* [Keys -> Rooms]
    Size,               \* [Keys -> Nat \ {0}]: a commit emits room.state_changed at least
    Commits,            \* the commits published: keys with a print each
    Capacity, WaitingCapacity, CompletedRetention,
    MaxAttempts,        \* 0 for the default, no limit
    SchedulersFail      \* whether both schedulers may refuse a retry task

ASSUME CommitAssumption ==
    /\ RoomOf \in [Keys -> Rooms] /\ Size \in [Keys -> Nat \ {0}]
    /\ \A c \in Commits : c.key \in Keys
    /\ \A c, d \in Commits : c.key = d.key /\ c.print = d.print => c = d
ASSUME LimitAssumption ==
    /\ Capacity \in Nat \ {0} /\ WaitingCapacity \in Nat \ {0}
    /\ CompletedRetention \in Nat \ {0} /\ MaxAttempts \in Nat
    /\ SchedulersFail \in BOOLEAN

VARIABLES
    lane,           \* #lanes[r].commits; #pendingByKey holds the commits of all lanes
    next,           \* the nextEffectIndex of the lane's head, from 1
    attempt,        \* and its attempt
    running,        \* lane.running: the pump awaits the handler
    handle,         \* lane.retryHandle # null
    timer,          \* the retry task is armed in a scheduler
    kicked,         \* a startLane microtask is queued
    waiting,        \* the wait queue, oldest first
    completed,      \* #completed, oldest first
    disposed,
    answers,        \* what the step just taken told the callers of enqueue...
    stranded,       \* history: the schedulers refused the lane's last retry
    since           \* history: the commits completed or touched since k last was; all
                    \* of them, itself too, for a commit that never was

lanes == <<lane, next, attempt, running, handle, timer, kicked, stranded>>
vars == <<lanes, waiting, completed, disposed, answers, since>>

Pending == UNION {Range(lane[r]) : r \in Rooms}
Completed == Range(completed)
Waiting == Range(waiting)

Answer(c, result) == [commit |-> c, result |-> result]

Init ==
    /\ lane = [r \in Rooms |-> <<>>]
    /\ next = [r \in Rooms |-> 1] /\ attempt = [r \in Rooms |-> 1]
    /\ running = [r \in Rooms |-> FALSE] /\ handle = [r \in Rooms |-> FALSE]
    /\ timer = [r \in Rooms |-> FALSE] /\ kicked = [r \in Rooms |-> FALSE]
    /\ stranded = [r \in Rooms |-> FALSE]
    /\ waiting = <<>> /\ completed = <<>> /\ disposed = FALSE
    /\ answers = {} /\ since = [k \in Keys |-> Keys]

-----------------------------------------------------------------------------
(* Admission *)

SameKey(commits, c) == \E d \in commits : d.key = c.key
Conflicts(commits, c) == \E d \in commits : d.key = c.key /\ d.print # c.print

\* #isKnownDuplicate, its conflict aside.
Known_Waiting(c) == SameKey(Pending \cup Completed \cup Waiting, c)
Known(c) == SameKey(Pending \cup Completed, c)

\* #touchCompleted: a known completed commit becomes the youngest.
Without(commits, k) == Keep(commits, {d \in Range(commits) : d.key # k})
Touched_InPlace(c) == completed
Touched(c) ==
    IF SameKey(Completed, c) /\ ~SameKey(Pending, c)
    THEN Append(Without(completed, c.key), c) ELSE completed

\* A commit that has just become the youngest: every other one has seen it pass.
Passes(k) == [j \in Keys |-> IF j = k THEN {} ELSE since[j] \cup {k}]

\* #admit: into its lane, and a microtask to start the lane.
Admitted(into, c) == [into EXCEPT ![RoomOf[c.key]] = Append(@, c)]
AllAdmitted(into, commits) ==
    [r \in Rooms |-> into[r] \o Keep(commits, {c \in Range(commits) : RoomOf[c.key] = r})]
Kick(c) == [kicked EXCEPT ![RoomOf[c.key]] = TRUE]

\* The answer to a commit that is pending or completed.
KnownDuplicate(c) ==
    /\ Known(c)
    /\ IF Conflicts(Pending \cup Completed, c)
       THEN answers' = {Answer(c, "conflict")} /\ UNCHANGED <<completed, since>>
       ELSE /\ answers' = {Answer(c, "duplicate")}
            /\ completed' = Touched(c)
            /\ since' = IF SameKey(Pending, c) THEN since ELSE Passes(c.key)
    /\ UNCHANGED <<lanes, waiting, disposed>>

Admit(c) ==
    /\ lane' = Admitted(lane, c) /\ kicked' = Kick(c)
    /\ answers' = {Answer(c, "accepted")}
    /\ UNCHANGED <<next, attempt, running, handle, timer, stranded, waiting, completed,
                   disposed, since>>

Refuse(c, result) ==
    /\ answers' = {Answer(c, result)}
    /\ UNCHANGED <<lanes, waiting, completed, disposed, since>>

\* Newcomers do not overtake those who wait.
HasRoom == waiting = <<>> /\ Cardinality(Pending) < Capacity

Enqueue(c) ==
    \/ disposed /\ Refuse(c, "disposed")
    \/ ~disposed /\ KnownDuplicate(c)
    \/ /\ ~disposed /\ ~Known(c)
       /\ \/ Conflicts(Waiting, c) /\ Refuse(c, "conflict")
          \/ /\ ~Conflicts(Waiting, c)
             /\ IF HasRoom THEN Admit(c) ELSE Refuse(c, "full")

EnqueueDurably(c) ==
    \/ disposed /\ Refuse(c, "disposed")
    \/ ~disposed /\ KnownDuplicate(c)
    \/ /\ ~disposed /\ ~Known(c)
       /\ \/ Conflicts(Waiting, c) /\ Refuse(c, "conflict")
          \* The caller shares the answer of the one that waits.
          \/ c \in Waiting /\ Refuse(c, "shares")
          \/ ~SameKey(Waiting, c) /\ HasRoom /\ Admit(c)
          \/ /\ ~SameKey(Waiting, c) /\ ~HasRoom
             /\ IF Len(waiting) >= WaitingCapacity
                THEN Refuse(c, "wait full")
                ELSE /\ waiting' = Append(waiting, c)
                     /\ answers' = {Answer(c, "waits")}
                     /\ UNCHANGED <<lanes, completed, disposed, since>>

-----------------------------------------------------------------------------
(* Delivery *)

\* The pump calls the handler with the head's next effect and awaits it.
StartLane(r) ==
    /\ kicked[r]
    /\ kicked' = [kicked EXCEPT ![r] = FALSE]
    /\ IF disposed \/ lane[r] = <<>> \/ running[r] \/ handle[r]
       THEN UNCHANGED <<running, stranded>>
       ELSE /\ running' = [running EXCEPT ![r] = TRUE]
            /\ stranded' = [stranded EXCEPT ![r] = FALSE]
    /\ answers' = {}
    /\ UNCHANGED <<lane, next, attempt, handle, timer, waiting, completed, disposed, since>>

\* #admitWaiting after a completion left the lanes as after and the memory as done:
\* the oldest waiters take the free places.  A waiter whose key is known would be
\* told "duplicate"; OneCopy says there is none.
Slots(after) ==
    LET free == Capacity - Cardinality(UNION {Range(after[r]) : r \in Rooms})
    IN  IF Len(waiting) < free THEN Len(waiting) ELSE free

AdmitWaiting(after) ==
    LET taken == SubSeq(waiting, 1, Slots(after))
    IN  /\ lane' = AllAdmitted(after, taken)
        /\ kicked' = [r \in Rooms |-> kicked[r] \/ \E c \in Range(taken) : RoomOf[c.key] = r]
        /\ waiting' = SubSeq(waiting, Slots(after) + 1, Len(waiting))
        /\ answers' = {Answer(c, "accepted") : c \in Range(taken)}

\* #complete drops the oldest completed commits above the retention.
Remember(c) ==
    LET longer == Append(completed, c)
    IN  IF Len(longer) > CompletedRetention
        THEN SubSeq(longer, Len(longer) - CompletedRetention + 1, Len(longer)) ELSE longer

MoreEffects_LastDropped(r) == next[r] + 1 < Size[lane[r][1].key]
MoreEffects(r) == next[r] < Size[lane[r][1].key]

\* The head's effect is settled: the pump goes on to the next effect, the next commit,
\* or out of the empty lane.
Advance(r) ==
    LET head == lane[r][1]
    IN  /\ attempt' = [attempt EXCEPT ![r] = 1]
        /\ IF MoreEffects(r)
           THEN /\ next' = [next EXCEPT ![r] = @ + 1]
                /\ answers' = {}
                /\ UNCHANGED <<lane, kicked, running, waiting, completed, since>>
           ELSE /\ next' = [next EXCEPT ![r] = 1]
                /\ completed' = Remember(head)
                /\ since' = Passes(head.key)
                /\ AdmitWaiting([lane EXCEPT ![r] = Tail(@)])
                /\ running' = [running EXCEPT ![r] = lane'[r] # <<>>]
        /\ UNCHANGED <<handle, timer, stranded, disposed>>

Returned(r) ==
    /\ running[r] /\ ~disposed
    /\ Advance(r)

Exhausted(r) == MaxAttempts > 0 /\ attempt[r] >= MaxAttempts

\* trySchedule after a task that already ran inside schedule: no handle is kept.
RanInside_Kept(r) == [handle EXCEPT ![r] = TRUE]
RanInside(r) == handle

\* The handler rejected: retry later, or give the effect up and go on.  A scheduler
\* that runs the task at once leaves no handle; the second is tried after the first.
Rejected(r) ==
    /\ running[r] /\ ~disposed
    /\ IF Exhausted(r) THEN Advance(r)
       ELSE /\ attempt' = [attempt EXCEPT ![r] = IF MaxAttempts = 0 THEN 1 ELSE @ + 1]
            /\ running' = [running EXCEPT ![r] = FALSE]
            /\ \/ /\ handle' = [handle EXCEPT ![r] = TRUE]
                  /\ timer' = [timer EXCEPT ![r] = TRUE]
                  /\ UNCHANGED <<kicked, stranded>>
               \/ /\ handle' = RanInside(r)
                  /\ kicked' = [kicked EXCEPT ![r] = TRUE]
                  /\ UNCHANGED <<timer, stranded>>
               \/ /\ SchedulersFail
                  /\ stranded' = [stranded EXCEPT ![r] = TRUE]
                  /\ UNCHANGED <<handle, timer, kicked>>
            /\ answers' = {}
            /\ UNCHANGED <<lane, next, waiting, completed, disposed, since>>

RetryFires(r) ==
    /\ timer[r]
    /\ timer' = [timer EXCEPT ![r] = FALSE]
    /\ handle' = [handle EXCEPT ![r] = FALSE]
    /\ kicked' = [kicked EXCEPT ![r] = TRUE]
    /\ answers' = {}
    /\ UNCHANGED <<lane, next, attempt, running, stranded, waiting, completed, disposed, since>>

\* The handler of a disposed outbox comes back to nothing.
ReturnedDisposed(r) ==
    /\ running[r] /\ disposed
    /\ running' = [running EXCEPT ![r] = FALSE]
    /\ answers' = {}
    /\ UNCHANGED <<lane, next, attempt, handle, timer, kicked, stranded, waiting, completed,
                   disposed, since>>

Dispose ==
    /\ ~disposed /\ disposed' = TRUE
    /\ lane' = [r \in Rooms |-> <<>>] /\ completed' = <<>> /\ waiting' = <<>>
    /\ next' = [r \in Rooms |-> 1] /\ attempt' = [r \in Rooms |-> 1]
    /\ handle' = [r \in Rooms |-> FALSE] /\ timer' = [r \in Rooms |-> FALSE]
    /\ stranded' = [r \in Rooms |-> FALSE]
    /\ answers' = {Answer(c, "disposed") : c \in Waiting}
    /\ UNCHANGED <<running, kicked, since>>

-----------------------------------------------------------------------------
Lane(r) == StartLane(r) \/ Returned(r) \/ Rejected(r) \/ RetryFires(r)
           \/ ReturnedDisposed(r)

Next ==
    \/ \E c \in Commits : Enqueue(c) \/ EnqueueDurably(c)
    \/ \E r \in Rooms : Lane(r)
    \/ Dispose

Spec == Init /\ [][Next]_vars

\* Microtasks and armed timers run; a handler comes back, and not with a rejection for
\* ever: retries exist for failures that pass.
Fairness == \A r \in Rooms :
    /\ WF_vars(StartLane(r)) /\ WF_vars(RetryFires(r))
    /\ WF_vars(Returned(r) \/ Rejected(r)) /\ SF_vars(Returned(r))

FairSpec == Spec /\ Fairness

-----------------------------------------------------------------------------
(* Properties *)

Results == {"accepted", "duplicate", "shares", "waits", "full", "wait full", "conflict",
            "disposed"}

\* The type of every variable, and the bounds of the three memories.
TypeOK ==
    /\ lane \in [Rooms -> Seq(Commits)]
    /\ next \in [Rooms -> Nat \ {0}] /\ attempt \in [Rooms -> Nat \ {0}]
    /\ running \in [Rooms -> BOOLEAN] /\ handle \in [Rooms -> BOOLEAN]
    /\ timer \in [Rooms -> BOOLEAN] /\ kicked \in [Rooms -> BOOLEAN]
    /\ stranded \in [Rooms -> BOOLEAN]
    /\ waiting \in Seq(Commits) /\ completed \in Seq(Commits) /\ disposed \in BOOLEAN
    /\ Cardinality(Pending) <= Capacity /\ Len(waiting) <= WaitingCapacity
    /\ Len(completed) <= CompletedRetention
    /\ answers \in SUBSET [commit : Commits, result : Results]
    /\ since \in [Keys -> SUBSET Keys]

\* A commit is in one place only: the synchronous test of a newcomer and the later
\* admission of a waiter never put the same key into a lane twice.  The rejection of a
\* waiter for a conflict met at its admission is therefore unreachable.
OneCopy ==
    /\ \A r, t \in Rooms : \A i \in DOMAIN lane[r], j \in DOMAIN lane[t] :
          lane[r][i].key = lane[t][j].key => r = t /\ i = j
    /\ \A i, j \in DOMAIN waiting : waiting[i].key = waiting[j].key => i = j
    /\ \A i, j \in DOMAIN completed : completed[i].key = completed[j].key => i = j
    /\ \A c \in Pending, d \in Waiting : c.key # d.key
    /\ \A c \in Pending \cup Waiting, e \in Completed : c.key # e.key

\* Who is told that a commit was accepted, or that it had been before, is told so of the
\* one copy of a commit that is pending or completed with the very same effects: never of
\* one that still waits for capacity, and may yet be lost.
AnsweredTruthfully ==
    /\ OneCopy
    /\ \A a \in answers : a.result \in {"accepted", "duplicate"} =>
          a.commit \in Pending \cup Completed

\* A republished commit is delivered twice only when as many other commits as the
\* retention counts were completed or republished since it was.
RedeliveryWindow == [][
    \A c \in UNION {Range(lane'[r]) : r \in Rooms} : c \notin Pending =>
        c.key \in since[c.key] \/ Cardinality(since[c.key]) >= CompletedRetention
    ]_vars

\* The wait queue is fair: when a commit joins a lane, only those wait on that came to wait
\* after it.  A newcomer that finds room therefore finds nobody waiting, and of all rooms'
\* waiters the oldest takes the place that a completion makes (#admitWaiting).  No run
\* checks it, two waiters beside two commits in a lane make too many states; it is proved
\* (NobodyOvertakes).
WaitersInTurn == [][
    \A c \in Pending' \ Pending : \A i \in DOMAIN waiting :
        waiting[i] \in Waiting' => \E j \in 1 .. i - 1 : waiting[j] = c
    ]_vars

\* The effects of a lane from number first of its head on.
EffectsOf(k) == [i \in 1 .. Size[k] |-> <<k, i>>]
Owed(commits, first) ==
    LET all == Flat([i \in DOMAIN commits |-> EffectsOf(commits[i].key)])
    IN  SubSeq(all, first, Len(all))

\* The promise: ordered, complete settlement of what was accepted.
Delivery == INSTANCE CommitDelivery WITH
    discarded <- disposed,
    owed <- [r \in Rooms |-> Owed(lane[r], next[r])]
InOrder == Delivery!Spec

\* What was accepted is settled in the end, unless the outbox is disposed of or two refusing
\* schedulers stranded its lane: a retry that fires inside schedule, a start that finds the
\* lane running and a lane that empties while a commit joins it lose no wakeup.  Who waits for
\* room is told something in the end, unless a stranded lane keeps its places.
AcceptedSettles ==
    \A c \in Commits :
        /\ c \in Pending ~> c \notin Pending \/ stranded[RoomOf[c.key]]
        /\ c \in Waiting ~> c \notin Waiting \/ \E r \in Rooms : stranded[r]

=============================================================================
