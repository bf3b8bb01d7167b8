--------------------------- MODULE RuntimeProofs ---------------------------
(***************************************************************************)
(* A room publishes its commits one by one, acts on a request or a         *)
(* deadline once, keeps every deadline armed and tells nobody of a commit  *)
(* that is not published: proved for any number of deadlines, requests,    *)
(* places in the queue and remembered answers.                             *)
(***************************************************************************)
EXTENDS RoomRuntime, ArrayLemmas

\* The types the argument needs; the rest of TypeOK is proved from it below.  The head of
\* the queue stays there until its dispatch is finished.
Typed ==
    /\ revision \in Nat \ {0} /\ closed \in BOOLEAN /\ disposed \in BOOLEAN
    /\ deadline \in [Timers -> Nat] /\ tasks \in [Timers -> Nat]
    /\ clock \in [Timers -> {"running", "passed", "spent"}]
    /\ queue \in Seq(Dispatches) /\ log \in Seq(Dispatches)
    /\ stage \in {"idle", "applied", "publishing", "waiting", "stopped"}
    /\ published \in Nat
    /\ stage # "idle" => queue # <<>>

\* How far the publication is behind the log, at each stage of the head's dispatch.
InPublication ==
    /\ ~disposed /\ stage = "idle" => published = Len(log)
    /\ ~disposed /\ stage = "applied" => published = Len(log) - (IF ToPublish THEN 1 ELSE 0)
    /\ stage \in {"publishing", "waiting", "stopped"} => published = Len(log) - 1

\* What is in the log cannot be committed again: the revision has moved on, and a deadline
\* is spent, gone, or set anew by a later commit.
Past ==
    /\ \A k \in Timers : deadline[k] <= Len(log)
    /\ \A i \in DOMAIN log : log[i].by = "user" => log[i].expects < revision
    /\ \A i \in DOMAIN log : log[i].by = "timer" =>
          /\ log[i].of <= Len(log)
          /\ deadline[log[i].key] = log[i].of => clock[log[i].key] = "spent"

IInv == Typed /\ InPublication /\ Past /\ CommitsOnce

-----------------------------------------------------------------------------
LEMMA DispatchKinds ==
    ASSUME NEW d \in Dispatches
    PROVE  /\ d.by \in {"user", "event", "timer"}
           /\ d.by = "user" => d.expects \in Nat
           /\ d.by = "event" => d = Event
           /\ d.by = "timer" => d.key \in Timers /\ d.of \in Nat \ {0}
           /\ d.by = "timer" => d = Timer(d.key, d.of)
BY DEF Dispatches, Event, Timer

LEMMA InitIInv == Init => IInv
<1> SUFFICES ASSUME Init PROVE IInv
  OBVIOUS
<1>1. Typed
  <2>1. /\ revision = 1 /\ closed = FALSE /\ disposed = FALSE /\ stage = "idle"
        /\ published = 0 /\ queue = <<>> /\ log = <<>>
        /\ deadline = [k \in Timers |-> 0] /\ tasks = [k \in Timers |-> 0]
        /\ clock = [k \in Timers |-> "running"]
    BY DEF Init
  <2>2. <<>> \in Seq(Dispatches)
    OBVIOUS
  <2>3. /\ deadline \in [Timers -> Nat] /\ tasks \in [Timers -> Nat]
        /\ clock \in [Timers -> {"running", "passed", "spent"}]
    BY <2>1
  <2>4. revision \in Nat \ {0} /\ published \in Nat
    BY <2>1
  <2>5. queue \in Seq(Dispatches) /\ log \in Seq(Dispatches)
    BY <2>1, <2>2, Zenon
  <2> QED
    BY <2>1, <2>3, <2>4, <2>5 DEF Typed
<1>2. log = <<>> /\ DOMAIN log = {} /\ Len(log) = 0
  BY DEF Init
<1>3. InPublication
  BY <1>2 DEF Init, InPublication
<1>4. Past /\ CommitsOnce
  BY <1>2 DEF Init, Past, CommitsOnce
<1> QED
  BY <1>1, <1>3, <1>4 DEF IInv

\* A commit by a dispatch that is not in the log already.
LEMMA CommitStep ==
    ASSUME Typed, Past, CommitsOnce, NEW d \in Dispatches, NEW control \in BOOLEAN,
           Commit(d, control),
           \/ d.by = "user" /\ control = TRUE /\ Current(d)
           \/ d.by = "event"
           \/ d.by = "timer" /\ Timely(d)
    PROVE  /\ log' \in Seq(Dispatches) /\ Len(log') = Len(log) + 1
           /\ revision' \in Nat \ {0} /\ closed' \in BOOLEAN
           /\ deadline' \in [Timers -> Nat]
           /\ clock' \in [Timers -> {"running", "passed", "spent"}]
           /\ Past' /\ CommitsOnce'
<1> DEFINE number == Len(log) + 1
<1>1. /\ log' = Append(log, d) /\ log' \in Seq(Dispatches) /\ Len(log') = number
      /\ log'[number] = d /\ \A i \in DOMAIN log : log'[i] = log[i]
      /\ DOMAIN log' = DOMAIN log \cup {number} /\ DOMAIN log = 1..Len(log)
  BY DEF Commit, Typed
<1>2. revision' = revision + (IF control THEN 1 ELSE 0) /\ revision' \in Nat \ {0}
  BY DEF Commit, Typed
<1>3. /\ closed' \in BOOLEAN /\ deadline' \in [Timers -> Nat]
      /\ clock' \in [Timers -> {"running", "passed", "spent"}]
      /\ \A k \in Timers : deadline'[k] \in {0, number, deadline[k]}
      /\ \A k \in Timers : deadline'[k] = deadline[k] /\ deadline[k] \notin {0, number} =>
             clock'[k] = IF d = Timer(k, deadline[k]) THEN "spent" ELSE clock[k]
  <2>0. number \in Nat
    BY DEF Typed
  <2>1. CASE /\ closed' = TRUE
             /\ deadline' = [k \in Timers |-> 0] /\ clock' = [k \in Timers |-> "running"]
    BY <2>1
  <2>2. CASE /\ closed' = FALSE
             /\ \E set, dropped \in SUBSET Timers :
                   /\ deadline' = [k \in Timers |-> IF k \in set THEN number
                                                    ELSE IF k \in dropped THEN 0
                                                    ELSE deadline[k]]
                   /\ clock' = [k \in Timers |->
                           IF k \in set \cup dropped THEN "running"
                           ELSE IF d = Timer(k, deadline[k]) THEN "spent" ELSE clock[k]]
    <3>0. deadline \in [Timers -> Nat] /\ clock \in [Timers -> {"running", "passed", "spent"}]
      BY DEF Typed
    <3>1. PICK set \in SUBSET Timers, dropped \in SUBSET Timers :
                   /\ deadline' = [k \in Timers |-> IF k \in set THEN number
                                                    ELSE IF k \in dropped THEN 0
                                                    ELSE deadline[k]]
                   /\ clock' = [k \in Timers |->
                           IF k \in set \cup dropped THEN "running"
                           ELSE IF d = Timer(k, deadline[k]) THEN "spent" ELSE clock[k]]
      BY <2>2
    <3> HIDE DEF number
    <3>2. deadline' \in [Timers -> Nat]
      BY <2>0, <3>0, <3>1
    <3>3. clock' \in [Timers -> {"running", "passed", "spent"}]
      BY <3>0, <3>1
    <3>4. \A k \in Timers : deadline'[k] \in {0, number, deadline[k]}
      BY <3>1
    <3>5. ASSUME NEW k \in Timers, deadline'[k] = deadline[k], deadline[k] \notin {0, number}
          PROVE  clock'[k] = IF d = Timer(k, deadline[k]) THEN "spent" ELSE clock[k]
      <4>1. k \notin set /\ k \notin dropped
        BY <3>1, <3>5
      <4> QED
        BY <3>1, <4>1
    <3> QED
      BY <2>2, <3>2, <3>3, <3>4, <3>5
  <2> QED
    BY <2>1, <2>2 DEF Commit
<1>4. \A i \in DOMAIN log : log[i] \in Dispatches
  BY <1>1 DEF Typed
<1>5. ASSUME NEW i \in DOMAIN log, log[i] = d
      PROVE  d = Event \/ (d.by = "user" /\ d.expects = NoRequest)
  <2>1. CASE d.by = "user"
    BY <1>5, <2>1 DEF Past, Current, Typed
  <2>2. CASE d.by = "event"
    BY <2>2, DispatchKinds
  <2>3. CASE d.by = "timer"
    <3>1. deadline[d.key] = d.of /\ clock[d.key] = "passed"
      BY <2>3 DEF Timely
    <3> QED
      BY <1>5, <2>3, <3>1 DEF Past
  <2> QED
    BY <2>1, <2>2, <2>3, DispatchKinds
<1>6. CommitsOnce'
  <2>1. ASSUME NEW i \in DOMAIN log', NEW j \in DOMAIN log', log'[i] = log'[j], i # j
        PROVE  \/ log'[i] = Event
               \/ log'[i].by = "user" /\ log'[i].expects = NoRequest
    <3>1. CASE i \in DOMAIN log /\ j \in DOMAIN log
      BY <1>1, <2>1, <3>1 DEF CommitsOnce
    <3>2. CASE i = number
      <4>1. j \in DOMAIN log /\ log[j] = d
        BY <1>1, <2>1, <3>2
      <4> QED
        BY <1>1, <1>5, <3>2, <4>1
    <3>3. CASE j = number
      <4>1. i \in DOMAIN log /\ log[i] = d
        BY <1>1, <2>1, <3>3
      <4> QED
        BY <1>1, <1>5, <4>1
    <3> QED
      BY <1>1, <3>1, <3>2, <3>3
  <2> QED
    BY <2>1 DEF CommitsOnce
<1>7. \A k \in Timers : deadline'[k] <= Len(log')
  <2>1. Len(log) \in Nat /\ \A k \in Timers : deadline[k] \in Nat /\ deadline[k] <= Len(log)
    BY DEF Past, Typed
  <2> QED
    BY <1>1, <1>3, <2>1
<1>8. ASSUME NEW i \in DOMAIN log', log'[i].by = "user"
      PROVE  log'[i].expects < revision'
  <2>1. CASE i \in DOMAIN log
    <3>1. log'[i] = log[i] /\ log[i].expects \in Nat /\ log[i].expects < revision
      BY <1>1, <1>4, <1>8, <2>1, DispatchKinds DEF Past
    <3> QED
      BY <1>2, <3>1 DEF Typed
  <2>2. CASE i = number
    <3>1. d.by = "user" /\ control = TRUE /\ d.expects \in {0, revision}
      BY <1>1, <1>8, <2>2 DEF Current, NoRequest
    <3> QED
      BY <1>1, <1>2, <2>2, <3>1 DEF Typed
  <2> QED
    BY <1>1, <2>1, <2>2
<1>9. ASSUME NEW i \in DOMAIN log', log'[i].by = "timer"
      PROVE  /\ log'[i].of <= Len(log')
             /\ deadline'[log'[i].key] = log'[i].of => clock'[log'[i].key] = "spent"
  <2>0. Len(log) \in Nat
    BY DEF Typed
  <2>1. CASE i \in DOMAIN log
    <3>1. /\ log'[i] = log[i] /\ log[i].key \in Timers /\ log[i].of \in Nat \ {0}
          /\ log[i].of <= Len(log)
          /\ deadline[log[i].key] = log[i].of => clock[log[i].key] = "spent"
      BY <1>1, <1>4, <1>9, <2>1, DispatchKinds DEF Past
    <3>2. ASSUME deadline'[log[i].key] = log[i].of PROVE clock'[log[i].key] = "spent"
      <4>1. deadline[log[i].key] = log[i].of /\ log[i].of \notin {0, number}
        BY <1>3, <2>0, <3>1, <3>2
      <4> QED
        BY <1>3, <3>1, <3>2, <4>1
    <3> QED
      BY <1>1, <2>0, <3>1, <3>2
  <2>2. CASE i = number
    <3>1. /\ d.key \in Timers /\ d.of \in Nat \ {0} /\ d = Timer(d.key, d.of)
          /\ deadline[d.key] = d.of
      BY <1>1, <1>9, <2>2, DispatchKinds DEF Timely
    <3>2. d.of <= Len(log)
      BY <3>1 DEF Past
    <3>3. deadline'[d.key] = d.of => clock'[d.key] = "spent"
      BY <1>3, <2>0, <3>1, <3>2
    <3> QED
      BY <1>1, <2>0, <2>2, <3>1, <3>2, <3>3
  <2> QED
    BY <1>1, <2>1, <2>2
<1> QED
  BY <1>1, <1>2, <1>3, <1>6, <1>7, <1>8, <1>9 DEF Past

\* A step that commits nothing and lets no deadline pass.
LEMMA Unmoved ==
    ASSUME Past, CommitsOnce, UNCHANGED <<revision, deadline, clock, log>>
    PROVE  Past' /\ CommitsOnce'
BY DEF Past, CommitsOnce

LEMMA ReconcileTyped ==
    ASSUME Reconcile, deadline' \in [Timers -> Nat]
    PROVE  tasks' \in [Timers -> Nat]
BY DEF Reconcile

LEMMA EnqueueStep ==
    ASSUME IInv, NEW d \in Dispatches, Enqueue(d)
    PROVE  IInv'
<1>1. /\ UNCHANGED <<actor, clock, stage, result, arming, disposed, published>>
      /\ queue' \in {queue, Append(queue, d)}
  BY DEF Enqueue
<1>11. queue # <<>> => queue' # <<>>
  <2>1. queue \in Seq(Dispatches)
    BY DEF IInv, Typed
  <2>2. Append(queue, d) # <<>>
    <3>1. Len(Append(queue, d)) = Len(queue) + 1 /\ Len(queue) \in Nat
      BY <2>1
    <3>2. Len(<<>>) = 0
      OBVIOUS
    <3> QED BY <3>1, <3>2
  <2> QED
    BY <1>1, <2>2
<1>2. queue' \in Seq(Dispatches)
  <2>1. queue \in Seq(Dispatches)
    BY DEF IInv, Typed
  <2>2. Append(queue, d) \in Seq(Dispatches)
    BY <2>1
  <2> QED
    BY <1>1, <2>1, <2>2, Zenon
<1>3. Typed' /\ InPublication'
  BY <1>1, <1>11, <1>2 DEF IInv, Typed, InPublication, ToPublish, actor, arming
<1> QED
  BY <1>1, <1>3, Unmoved DEF IInv, actor

LEMMA ApplyStep == ASSUME IInv, Apply PROVE IInv'
<1> DEFINE d == Head1
<1>1. /\ stage = "idle" /\ queue # <<>> /\ ~disposed /\ stage' = "applied"
      /\ UNCHANGED <<queue, arming, disposed, sends, published>>
  BY DEF Apply
<1>2. d \in Dispatches
  BY <1>1 DEF IInv, Typed, Head1
<1>3. \/ d.by = "user" /\ ApplyUser(d)
      \/ d.by = "event" /\ ApplyEvent(d)
      \/ d.by = "timer" /\ ApplyTimer(d)
  BY <1>2, DispatchKinds DEF Apply
<1> HIDE DEF d
<1>4. \/ /\ NoCommit /\ ~ToPublish'
      \/ /\ \E control \in BOOLEAN :
               /\ Commit(d, control)
               /\ \/ d.by = "user" /\ control = TRUE /\ Current(d)
                  \/ d.by = "event"
                  \/ d.by = "timer" /\ Timely(d)
         /\ ToPublish'
  <2>1. CASE d.by = "user" /\ ApplyUser(d)
    <3>1. \/ NoCommit /\ result' = Ignored
          \/ NoCommit /\ result' = Result(Receipt("rejected", revision), FALSE)
          \/ NoCommit /\ \E receipt : result' = Result(receipt, TRUE)
          \/ /\ Current(d) /\ Commit(d, TRUE)
             /\ result' = Result(Receipt("committed", revision'), FALSE)
      BY <2>1, Zenon DEF ApplyUser
    <3>2. CASE /\ Current(d) /\ Commit(d, TRUE)
               /\ result' = Result(Receipt("committed", revision'), FALSE)
      BY <2>1, <3>2 DEF ToPublish, Result, Receipt
    <3>3. CASE NoCommit /\ result' = Ignored
      BY <3>3 DEF ToPublish, Result, Receipt, Ignored
    <3>4. CASE NoCommit /\ result' = Result(Receipt("rejected", revision), FALSE)
      BY <3>4 DEF ToPublish, Result, Receipt
    <3>5. CASE NoCommit /\ \E receipt : result' = Result(receipt, TRUE)
      BY <3>5 DEF ToPublish, Result
    <3> QED
      BY <3>1, <3>2, <3>3, <3>4, <3>5
  <2>2. CASE d.by = "event" /\ ApplyEvent(d)
    BY <2>2 DEF ApplyEvent, ToPublish, Result, Receipt, Ignored
  <2>3. CASE d.by = "timer" /\ ApplyTimer(d)
    <3>1. \/ NoCommit /\ result' = Ignored
          \/ /\ Timely(d) /\ Commit(d, TRUE)
             /\ result' = Result(Receipt("committed", revision'), FALSE)
      BY <2>3 DEF ApplyTimer
    <3>2. CASE /\ Timely(d) /\ Commit(d, TRUE)
               /\ result' = Result(Receipt("committed", revision'), FALSE)
      BY <2>3, <3>2 DEF ToPublish, Result, Receipt
    <3>3. CASE NoCommit /\ result' = Ignored
      BY <3>3 DEF ToPublish, Result, Receipt, Ignored
    <3> QED
      BY <3>1, <3>2, <3>3
  <2> QED
    BY <1>3, <2>1, <2>2, <2>3
<1>5. published = Len(log)
  BY <1>1 DEF IInv, InPublication
<1>6. CASE NoCommit /\ ~ToPublish'
  <2>1. UNCHANGED <<revision, closed, deadline, clock, log>>
    BY <1>6 DEF NoCommit
  <2>2. Typed' /\ InPublication'
    BY <1>1, <1>5, <1>6, <2>1 DEF IInv, Typed, InPublication, arming
  <2> QED
    BY <2>1, <2>2, Unmoved DEF IInv
<1>7. CASE ~(NoCommit /\ ~ToPublish')
  <2>1. ToPublish'
    BY <1>4, <1>7
  <2>2. PICK control \in BOOLEAN :
               /\ Commit(d, control)
               /\ \/ d.by = "user" /\ control = TRUE /\ Current(d)
                  \/ d.by = "event"
                  \/ d.by = "timer" /\ Timely(d)
    BY <1>4, <1>7
  <2>3. /\ log' \in Seq(Dispatches) /\ Len(log') = Len(log) + 1
        /\ revision' \in Nat \ {0} /\ closed' \in BOOLEAN
        /\ deadline' \in [Timers -> Nat]
        /\ clock' \in [Timers -> {"running", "passed", "spent"}]
        /\ Past' /\ CommitsOnce'
    BY <1>2, <2>2, CommitStep DEF IInv
  <2>4. Typed'
    BY <1>1, <2>3 DEF IInv, Typed, arming
  <2>5. InPublication'
    BY <1>1, <1>5, <2>1, <2>3 DEF IInv, Typed, InPublication
  <2> QED
    BY <2>3, <2>4, <2>5 DEF IInv
<1> QED
  BY <1>6, <1>7

\* The steps that leave the actor and the clocks alone.
LEMMA OtherStep ==
    ASSUME IInv, UNCHANGED actor, UNCHANGED clock, disposed' \in BOOLEAN,
           queue' \in {queue, Tail(queue)}, queue # <<>> \/ queue' = queue,
           stage' # "idle" => stage # "idle" /\ queue' = queue,
           tasks' \in [Timers -> Nat],
           stage' \in {"idle", "applied", "publishing", "waiting", "stopped"},
           published' \in Nat, InPublication'
    PROVE  IInv'
<1>1. queue' \in Seq(Dispatches)
  <2>1. queue \in Seq(Dispatches)
    BY DEF IInv, Typed
  <2>2. queue # <<>> => Tail(queue) \in Seq(Dispatches)
    BY <2>1
  <2> QED
    BY <2>1, <2>2, Zenon
<1>2. Typed'
  BY <1>1 DEF IInv, Typed, actor
<1> QED
  BY <1>2, Unmoved DEF IInv, actor

LEMMA StepIInv == IInv /\ [Next]_vars => IInv'
<1> SUFFICES ASSUME IInv, [Next]_vars PROVE IInv'
  OBVIOUS
<1>0. Typed /\ InPublication
  BY DEF IInv
<1>00. stage # "idle" => queue # <<>>
  BY DEF IInv, Typed
<1>1. CASE DispatchUser
  <2>1. PICK id \in RequestIds, expects \in {NoRequest} \cup 1..revision :
            Enqueue(User(id, expects))
    BY <1>1 DEF DispatchUser
  <2>2. User(id, expects) \in Dispatches
    BY <1>0 DEF User, Dispatches, NoRequest, Typed
  <2> QED
    BY <2>1, <2>2, EnqueueStep
<1>2. CASE DispatchSystem
  <2>1. Event \in Dispatches
    BY DEF Dispatches
  <2> QED
    BY <1>2, <2>1, EnqueueStep DEF DispatchSystem
<1>3. CASE \E k \in Timers : TimePasses(k)
  <2>1. PICK k \in Timers : TimePasses(k)
    BY <1>3
  <2>2. /\ clock' = [clock EXCEPT ![k] = "passed"] /\ clock[k] = "running"
        /\ UNCHANGED <<actor, queue, stage, result, arming, disposed, published>>
    BY <2>1 DEF TimePasses
  <2>3. Typed' /\ InPublication'
    BY <1>0, <2>2 DEF Typed, InPublication, ToPublish, actor, arming
  <2>4. Past'
    BY <1>0, <2>2 DEF IInv, Past, Typed, actor
  <2>5. CommitsOnce'
    BY <2>2 DEF IInv, CommitsOnce, actor
  <2> QED
    BY <2>3, <2>4, <2>5 DEF IInv
<1>4. CASE \E k \in Timers : FireTimer(k)
  <2>1. PICK k \in Timers : FireTimer(k)
    BY <1>4
  <2>2. UNCHANGED <<actor, clock, stage, result, disposed, published>>
    BY <2>1 DEF FireTimer
  <2>3. InPublication'
    BY <1>0, <2>2 DEF InPublication, ToPublish, actor
  <2>4. CASE queue' = queue /\ Reconcile
    <3>1. tasks' \in [Timers -> Nat]
      BY <1>0, <2>2, <2>4, ReconcileTyped DEF Typed, actor
    <3> QED
      BY <1>0, <2>2, <2>3, <2>4, <3>1, OtherStep DEF Typed
  <2>5. CASE /\ queue' = Append(queue, Timer(k, tasks[k])) /\ tasks[k] # 0
             /\ tasks' = [tasks EXCEPT ![k] = 0]
    <3>1. Timer(k, tasks[k]) \in Dispatches
      BY <1>0, <2>5 DEF Timer, Dispatches, Typed
    <3>2. queue' \in Seq(Dispatches) /\ queue' # <<>>
      BY <1>0, <2>5, <3>1 DEF Typed
    <3>3. Typed'
      BY <1>0, <2>2, <2>5, <3>2 DEF Typed, actor
    <3> QED
      BY <2>2, <2>3, <3>3, Unmoved DEF IInv, actor
  <2> QED
    BY <2>1, <2>4, <2>5 DEF FireTimer, DelayTimer
<1>5. CASE Apply
  BY <1>5, ApplyStep
<1>6. CASE ActorFails
  <2>1. /\ UNCHANGED actor /\ UNCHANGED <<clock, stage, result, disposed, published>>
        /\ queue # <<>> /\ queue' = Tail(queue) /\ stage = "idle"
        /\ Reconcile \/ UNCHANGED arming
    BY <1>6 DEF ActorFails, DelayTimer
  <2>2. tasks' \in [Timers -> Nat]
    BY <1>0, <2>1, ReconcileTyped DEF Typed, actor, arming
  <2>3. InPublication'
    BY <1>0, <2>1 DEF InPublication, ToPublish, actor
  <2> QED
    BY <1>0, <2>1, <2>2, <2>3, OtherStep DEF Typed
<1>7. CASE Settle
  <2>1. /\ UNCHANGED actor /\ UNCHANGED <<clock, disposed, published>>
        /\ stage = "applied" /\ ~disposed /\ Reconcile
        /\ \/ /\ ToPublish /\ stage' = "publishing" /\ UNCHANGED queue
           \/ /\ ~ToPublish /\ stage' = "idle" /\ queue' = Tail(queue)
    BY <1>7 DEF Settle, Finish
  <2>2. tasks' \in [Timers -> Nat]
    BY <1>0, <2>1, ReconcileTyped DEF Typed, actor
  <2>3. InPublication'
    BY <1>0, <2>1 DEF InPublication, Typed, actor
  <2> QED
    BY <1>0, <1>00, <2>1, <2>2, <2>3, OtherStep DEF Typed
<1>8. CASE CommitAccepted
  <2>1. /\ UNCHANGED actor /\ UNCHANGED <<clock, arming, disposed>>
        /\ stage = "publishing" /\ stage' = "idle" /\ queue' = Tail(queue)
        /\ published' = published + 1
    BY <1>8 DEF CommitAccepted, Finish
  <2>2. InPublication' /\ published' \in Nat
    BY <1>0, <2>1 DEF InPublication, Typed, actor
  <2> QED
    BY <1>0, <1>00, <2>1, <2>2, OtherStep DEF Typed, arming
<1>9. CASE CommitRefused
  <2>1. /\ UNCHANGED actor /\ UNCHANGED <<clock, queue, tasks, disposed, published>>
        /\ stage = "publishing" /\ stage' \in {"waiting", "stopped"}
    BY <1>9 DEF CommitRefused
  <2>2. InPublication'
    BY <1>0, <2>1 DEF InPublication, actor
  <2> QED
    BY <1>0, <2>1, <2>2, OtherStep DEF Typed
<1>10. CASE PublishRetry
  <2>1. /\ UNCHANGED actor /\ UNCHANGED <<clock, queue, tasks, disposed, published>>
        /\ stage = "waiting" /\ stage' = "publishing"
    BY <1>10 DEF PublishRetry
  <2>2. InPublication'
    BY <1>0, <2>1 DEF InPublication, actor
  <2> QED
    BY <1>0, <2>1, <2>2, OtherStep DEF Typed
<1>11. CASE Dispose
  <2>1. /\ UNCHANGED actor /\ UNCHANGED <<clock, queue, stage, published>>
        /\ disposed' = TRUE /\ tasks' = [k \in Timers |-> 0]
    BY <1>11 DEF Dispose
  <2>2. InPublication' /\ tasks' \in [Timers -> Nat]
    BY <1>0, <2>1 DEF InPublication, actor
  <2> QED
    BY <1>0, <2>1, <2>2, OtherStep DEF Typed
<1>12. CASE RejectDisposed
  <2>1. /\ UNCHANGED actor /\ UNCHANGED <<clock, arming, disposed, published>>
        /\ disposed /\ queue # <<>> /\ queue' = Tail(queue) /\ stage' = "idle"
    BY <1>12 DEF RejectDisposed
  <2>2. InPublication'
    BY <1>0, <2>1 DEF InPublication, actor
  <2> QED
    BY <1>0, <2>1, <2>2, OtherStep DEF Typed, arming
<1>13. CASE UNCHANGED vars
  BY <1>0, <1>13, Unmoved DEF IInv, vars, actor, arming, Typed, InPublication, ToPublish
<1> QED
  BY <1>1, <1>2, <1>3, <1>4, <1>5, <1>6, <1>7, <1>8, <1>9, <1>10, <1>11, <1>12, <1>13
     DEF Next

LEMMA Inductive == Spec => []IInv
BY InitIInv, StepIInv, PTL DEF Spec

\* The next command runs only when every commit before it has been published.
THEOREM PublicationKeepsUp == Spec => []NothingUnpublished
<1>1. IInv => NothingUnpublished
  BY DEF IInv, InPublication, NothingUnpublished
<1> QED
  BY <1>1, Inductive, PTL

\* A request that names a revision commits once, and a deadline is acted on once.
THEOREM CommitsAreUnique == Spec => []CommitsOnce
<1>1. IInv => CommitsOnce
  BY DEF IInv
<1> QED
  BY <1>1, Inductive, PTL

-----------------------------------------------------------------------------
(* The types of the two memories and of the answers *)

Entries == [id : RequestIds, print : Nat, receipt : Receipts]

Answers == [dispatch : Dispatches, receipt : Receipts]

\* What is left of TypeOK when Typed is known.
Rest ==
    /\ Len(queue) <= Capacity
    /\ cache \in Seq(Entries) /\ Len(cache) <= MaxEntries
    /\ retry \in BOOLEAN /\ sends \in 0 .. MaxSends
    /\ result \in [receipt : Receipts, replayed : BOOLEAN]
    /\ published <= Len(log)
    /\ answers \in SUBSET Answers

LEMMA RestIsEnough == IInv /\ Rest => TypeOK
BY DEF IInv, Typed, Rest, TypeOK, Entries, Answers

LEMMA ReceiptTyped ==
    ASSUME NEW kind \in {"committed", "rejected", "ignored", "busy", "failed", "disposed"},
           NEW at \in Nat
    PROVE  Receipt(kind, at) \in Receipts
BY DEF Receipt, Receipts

LEMMA ResultTyped ==
    ASSUME NEW receipt \in Receipts, NEW replayed \in BOOLEAN
    PROVE  Result(receipt, replayed) \in [receipt : Receipts, replayed : BOOLEAN]
BY DEF Result

LEMMA IgnoredTyped == Ignored \in [receipt : Receipts, replayed : BOOLEAN]
<1>1. Receipt("ignored", 0) \in Receipts
  BY ReceiptTyped
<1> QED
  BY <1>1, ResultTyped DEF Ignored

LEMMA AnswerTyped ==
    ASSUME NEW d \in Dispatches, NEW r \in Receipts
    PROVE  {Answer(d, r)} \in SUBSET Answers
BY DEF Answer, Answers

\* The head and the tail of the queue, and what an arrival does to both.
LEMMA QueueEnds ==
    ASSUME Typed, queue # <<>>
    PROVE  /\ Head1 \in Dispatches /\ Tail(queue) \in Seq(Dispatches)
           /\ Len(Tail(queue)) = Len(queue) - 1 /\ Len(queue) \in Nat
           /\ Range(queue) = {Head1} \cup Range(Tail(queue))
<1>1. queue \in Seq(Dispatches) /\ Len(queue) \in Nat /\ Len(queue) > 0
  BY DEF Typed
<1>2. /\ Tail(queue) \in Seq(Dispatches) /\ Len(Tail(queue)) = Len(queue) - 1
      /\ DOMAIN Tail(queue) = 1 .. Len(queue) - 1 /\ DOMAIN queue = 1 .. Len(queue)
      /\ \A i \in 1 .. Len(queue) - 1 : Tail(queue)[i] = queue[i + 1]
      /\ Head1 \in Dispatches
  BY <1>1 DEF Head1
<1>3. ASSUME NEW d \in Range(queue) PROVE d = Head1 \/ d \in Range(Tail(queue))
  <2>1. PICK i \in 1 .. Len(queue) : d = queue[i]
    BY <1>2 DEF Range
  <2>2. CASE i = 1
    BY <2>1, <2>2 DEF Head1
  <2>3. CASE i # 1
    <3>1. i - 1 \in 1 .. Len(queue) - 1 /\ (i - 1) + 1 = i
      BY <1>1, <2>3
    <3>2. d = Tail(queue)[i - 1]
      BY <1>2, <2>1, <3>1
    <3> QED
      BY <1>2, <3>1, <3>2 DEF Range
  <2> QED
    BY <2>2, <2>3
<1>4. ASSUME NEW d \in Range(Tail(queue)) PROVE d \in Range(queue)
  <2>1. PICK i \in 1 .. Len(queue) - 1 : d = Tail(queue)[i]
    BY <1>2 DEF Range
  <2>2. i + 1 \in 1 .. Len(queue) /\ d = queue[i + 1]
    BY <1>1, <1>2, <2>1
  <2> QED
    BY <1>2, <2>2 DEF Range
<1>5. Head1 \in Range(queue)
  <2>1. 1 \in 1 .. Len(queue)
    BY <1>1
  <2> QED
    BY <1>2, <2>1 DEF Range, Head1
<1>6. Range(queue) = {Head1} \cup Range(Tail(queue))
  BY <1>3, <1>4, <1>5
<1> QED
  BY <1>1, <1>2, <1>6

\* The actor's memory keeps its type and its bound: what it forgets makes room, a replayed
\* entry moves to the end, and a new one drives out the oldest.
LEMMA BoundedTyped ==
    ASSUME NEW kept \in Seq(Entries), Len(kept) <= MaxEntries, NEW e \in Entries
    PROVE  /\ Bounded(Append(kept, e)) \in Seq(Entries)
           /\ Len(Bounded(Append(kept, e))) <= MaxEntries
           /\ Range(Bounded(Append(kept, e))) \subseteq Range(kept) \cup {e}
<1> DEFINE more == Append(kept, e)
<1>0. MaxEntries \in Nat
  BY LimitAssumption
<1>1. /\ more \in Seq(Entries) /\ Len(more) = Len(kept) + 1 /\ Len(kept) \in Nat
      /\ Range(more) = Range(kept) \cup {e}
  BY RangeOfAppend
<1> HIDE DEF more
<1>2. CASE Len(more) > MaxEntries
  <2>1. Bounded(more) = Tail(more)
    BY <1>2 DEF Bounded
  <2>2. /\ Tail(more) \in Seq(Entries) /\ Len(Tail(more)) = Len(more) - 1
        /\ \A i \in DOMAIN Tail(more) : i + 1 \in DOMAIN more /\ Tail(more)[i] = more[i + 1]
    BY <1>1
  <2>3. Range(Tail(more)) \subseteq Range(more)
    BY <2>2 DEF Range
  <2>4. Len(Tail(more)) <= MaxEntries
    BY <1>0, <1>1, <2>2
  <2> QED
    BY <1>1, <2>1, <2>2, <2>3, <2>4 DEF more
<1>3. CASE ~(Len(more) > MaxEntries)
  <2>1. Bounded(more) = more
    BY <1>3 DEF Bounded
  <2> QED
    BY <1>0, <1>1, <1>3, <2>1 DEF more
<1> QED
  BY <1>2, <1>3

\* What a user command does to the memory: its entries are old ones or the answer just given,
\* and "committed" is answered from an entry of the same command or for a commit made now.
MemoryStep(d) ==
    /\ cache' \in Seq(Entries) /\ Len(cache') <= MaxEntries
    /\ result' \in [receipt : Receipts, replayed : BOOLEAN]
    /\ NoCommit \/ Commit(d, TRUE)
    /\ \A e \in Range(cache') :
          \/ e \in Range(cache)
          \/ e.id = d.id /\ e.print = d.expects /\ e.receipt = result'.receipt
    /\ result'.receipt.kind = "committed" =>
          \/ Commit(d, TRUE)
          \/ \E e \in Range(cache) : /\ e.id = d.id /\ e.print = d.expects
                                     /\ e.receipt.kind = "committed"

LEMMA CacheStep ==
    ASSUME IInv, Rest, NEW d \in Dispatches, d.by = "user", ApplyUser(d),
           revision' \in Nat \ {0}
    PROVE  MemoryStep(d)
<1> DEFINE Way(live) ==
         LET kept == Keep(cache, live)
             known == {e \in Range(kept) : e.id = d.id}
         IN  \/ /\ \E e \in known : ~SameCommand(e, d)
                /\ result' = Result(Receipt("rejected", revision), FALSE)
                /\ cache' = kept /\ NoCommit
             \/ \E e \in known :
                /\ SameCommand(e, d)
                /\ result' = Result(e.receipt, TRUE)
                /\ cache' = Append(Keep(kept, Range(kept) \ {e}), e) /\ NoCommit
             \/ /\ known = {}
                /\ result' = Result(Receipt("rejected", revision), FALSE)
                /\ Remember(kept, d) /\ NoCommit
             \/ /\ known = {} /\ Current(d)
                /\ Commit(d, TRUE)
                /\ result' = Result(Receipt("committed", revision'), FALSE)
                /\ Remember(kept, d)
<1>0. /\ cache \in Seq(Entries) /\ Len(cache) <= MaxEntries /\ revision \in Nat
      /\ d.id \in RequestIds /\ d.expects \in Nat /\ MaxEntries \in Nat
  <2>1. d.id \in RequestIds /\ d.expects \in Nat
    BY DEF Dispatches, Event
  <2> QED
    BY <2>1, LimitAssumption DEF IInv, Typed, Rest
<1>1. CASE result' = Ignored /\ NoCommit /\ UNCHANGED cache
  <2>1. result' \in [receipt : Receipts, replayed : BOOLEAN]
    BY <1>1, IgnoredTyped
  <2>2. result'.receipt.kind # "committed"
    BY <1>1 DEF Ignored, Result, Receipt
  <2>3. cache' = cache /\ NoCommit
    BY <1>1
  <2>4. cache' \in Seq(Entries) /\ Len(cache') <= MaxEntries
    BY <1>0, <2>3
  <2>5. \A e \in Range(cache') : e \in Range(cache)
    BY <2>3
  <2>6. \A e \in Range(cache') :
            \/ e \in Range(cache)
            \/ e.id = d.id /\ e.print = d.expects /\ e.receipt = result'.receipt
    BY <2>5
  <2>7. result'.receipt.kind = "committed" =>
            \/ Commit(d, TRUE)
            \/ \E e \in Range(cache) : /\ e.id = d.id /\ e.print = d.expects
                                       /\ e.receipt.kind = "committed"
    BY <2>2
  <2>8. NoCommit \/ Commit(d, TRUE)
    BY <2>3
  <2> QED
    BY <2>1, <2>4, <2>6, <2>7, <2>8 DEF MemoryStep
<1>2. ASSUME NEW live \in SUBSET Range(cache), Way(live)
      PROVE  MemoryStep(d)
  <2> DEFINE kept == Keep(cache, live)
             known == {e \in Range(kept) : e.id = d.id}
             New == [id |-> d.id, print |-> d.expects, receipt |-> result'.receipt]
  <2>1. /\ kept \in Seq(Entries) /\ Len(kept) <= Len(cache) /\ Len(kept) \in Nat
        /\ Range(kept) \subseteq Range(cache)
    BY <1>0, KeepType, KeepShortens, KeepRange
  <2>2. Len(kept) <= MaxEntries
    <3>1. Len(cache) \in Nat
      BY <1>0
    <3> QED BY <1>0, <2>1, <3>1
  <2>3. \A e \in Range(kept) : e \in Entries
    <3>1. \A i \in DOMAIN kept : kept[i] \in Entries
      BY <2>1
    <3> QED BY <3>1 DEF Range
  <2> HIDE DEF kept
  <2>4. ASSUME result' \in [receipt : Receipts, replayed : BOOLEAN], Remember(kept, d)
        PROVE  /\ cache' \in Seq(Entries) /\ Len(cache') <= MaxEntries
               /\ \A e \in Range(cache') :
                     \/ e \in Range(cache)
                     \/ e.id = d.id /\ e.print = d.expects /\ e.receipt = result'.receipt
    <3>1. cache' = Bounded(Append(kept, New))
      BY <2>4 DEF Remember
    <3>2. New \in Entries
      BY <1>0, <2>4 DEF Entries
    <3>3. New.id = d.id /\ New.print = d.expects /\ New.receipt = result'.receipt
      OBVIOUS
    <3> HIDE DEF New
    <3> QED
      BY <2>1, <2>2, <3>1, <3>2, <3>3, BoundedTyped
  <2>5. CASE /\ result' = Result(Receipt("rejected", revision), FALSE)
             /\ cache' = kept /\ NoCommit
    <3>1. result' \in [receipt : Receipts, replayed : BOOLEAN]
      BY <1>0, <2>5, ReceiptTyped, ResultTyped
    <3>2. result'.receipt.kind # "committed"
      BY <2>5 DEF Result, Receipt
    <3> QED
      BY <2>1, <2>2, <2>5, <3>1, <3>2 DEF MemoryStep
  <2>6. CASE \E e \in known :
                /\ SameCommand(e, d)
                /\ result' = Result(e.receipt, TRUE)
                /\ cache' = Append(Keep(kept, Range(kept) \ {e}), e) /\ NoCommit
    <3>1. PICK e \in known :
                /\ SameCommand(e, d)
                /\ result' = Result(e.receipt, TRUE)
                /\ cache' = Append(Keep(kept, Range(kept) \ {e}), e) /\ NoCommit
      BY <2>6
    <3>2. e \in Range(kept) /\ e.id = d.id /\ e.print = d.expects /\ e \in Entries
      BY <2>3, <3>1 DEF SameCommand
    <3>3. result' \in [receipt : Receipts, replayed : BOOLEAN] /\ result'.receipt = e.receipt
      <4>1. e.receipt \in Receipts
        BY <3>2 DEF Entries
      <4> QED
        BY <3>1, <4>1 DEF Result
    <3> DEFINE others == Keep(kept, Range(kept) \ {e})
    <3>4. /\ others \in Seq(Entries) /\ Len(others) < Len(kept) /\ Len(others) \in Nat
          /\ Range(others) \subseteq Range(kept)
      <4>1. ~(Range(kept) \subseteq Range(kept) \ {e})
        BY <3>2
      <4> QED
        BY <2>1, <4>1, KeepType, KeepShortens, KeepRange
    <3> HIDE DEF others
    <3>5. cache' = Append(others, e)
      BY <3>1 DEF others
    <3>6. /\ cache' \in Seq(Entries) /\ Len(cache') = Len(others) + 1
          /\ Range(cache') = Range(others) \cup {e}
      BY <3>2, <3>4, <3>5, RangeOfAppend
    <3>7. Len(cache') <= MaxEntries
      BY <1>0, <2>1, <2>2, <3>4, <3>6
    <3>8. Range(cache') \subseteq Range(cache)
      BY <2>1, <3>2, <3>4, <3>6
    <3>9. e \in Range(cache)
      BY <2>1, <3>2
    <3> QED
      BY <3>1, <3>2, <3>3, <3>6, <3>7, <3>8, <3>9 DEF MemoryStep
  <2>7. CASE /\ result' = Result(Receipt("rejected", revision), FALSE)
             /\ Remember(kept, d) /\ NoCommit
    <3>1. result' \in [receipt : Receipts, replayed : BOOLEAN]
      BY <1>0, <2>7, ReceiptTyped, ResultTyped
    <3>2. result'.receipt.kind # "committed"
      BY <2>7 DEF Result, Receipt
    <3> QED
      BY <2>4, <2>7, <3>1, <3>2 DEF MemoryStep
  <2>8. CASE /\ Commit(d, TRUE)
             /\ result' = Result(Receipt("committed", revision'), FALSE)
             /\ Remember(kept, d)
    <3>1. result' \in [receipt : Receipts, replayed : BOOLEAN]
      <4>1. Receipt("committed", revision') \in Receipts
        BY ReceiptTyped
      <4> QED
        BY <2>8, <4>1, ResultTyped
    <3> QED
      BY <2>4, <2>8, <3>1 DEF MemoryStep
  <2> QED
    BY <1>2, <2>5, <2>6, <2>7, <2>8 DEF kept
<1>3. \/ result' = Ignored /\ NoCommit /\ UNCHANGED cache
      \/ \E live \in SUBSET Range(cache) : Way(live)
  BY Zenon DEF ApplyUser
<1> HIDE DEF Way
<1> QED
  BY <1>1, <1>2, <1>3

\* The head's turn, for every kind of dispatch.
LEMMA ApplyKinds ==
    ASSUME IInv, Rest, Apply, revision' \in Nat \ {0}
    PROVE  /\ cache' \in Seq(Entries) /\ Len(cache') <= MaxEntries
           /\ result' \in [receipt : Receipts, replayed : BOOLEAN]
           /\ NoCommit \/ \E control \in BOOLEAN : Commit(Head1, control)
           /\ \A e \in Range(cache') :
                 \/ e \in Range(cache)
                 \/ User(e.id, e.print) = Head1 /\ e.receipt = result'.receipt
           /\ result'.receipt.kind = "committed" =>
                 \/ \E control \in BOOLEAN : Commit(Head1, control)
                 \/ \E e \in Range(cache) : /\ User(e.id, e.print) = Head1
                                            /\ e.receipt.kind = "committed"
<1>1. Head1 \in Dispatches
  BY QueueEnds DEF IInv, Apply
<1>2. CASE Head1.by = "user"
  <2>1. ApplyUser(Head1)
    BY <1>2 DEF Apply
  <2>2. Head1 = User(Head1.id, Head1.expects)
    BY <1>1, <1>2 DEF Dispatches, Event, User
  <2> QED
    BY <1>1, <1>2, <2>1, <2>2, CacheStep DEF MemoryStep
<1>3. CASE Head1.by # "user"
  <2>1. /\ UNCHANGED cache
        /\ \/ result' = Ignored /\ NoCommit
           \/ /\ \E control \in BOOLEAN : Commit(Head1, control)
              /\ result' = Result(Receipt("committed", revision'), FALSE)
    <3>1. CASE Head1.by = "event"
      <4>1. ApplyEvent(Head1)
        BY <3>1 DEF Apply
      <4> QED
        BY <4>1 DEF ApplyEvent
    <3>2. CASE Head1.by = "timer"
      <4>1. ApplyTimer(Head1)
        BY <3>2 DEF Apply
      <4> QED
        BY <4>1 DEF ApplyTimer
    <3> QED
      BY <1>1, <1>3, <3>1, <3>2, DispatchKinds
  <2>2. result' \in [receipt : Receipts, replayed : BOOLEAN]
    <3>1. Receipt("committed", revision') \in Receipts
      BY ReceiptTyped
    <3> QED
      BY <2>1, <3>1, ResultTyped, IgnoredTyped
  <2>3. result' = Ignored => result'.receipt.kind # "committed"
    BY DEF Ignored, Result, Receipt
  <2> QED
    BY <2>1, <2>2, <2>3 DEF Rest
<1> QED
  BY <1>2, <1>3

LEMMA CommitLengthens ==
    ASSUME Typed, NEW d \in Dispatches, NEW control, Commit(d, control)
    PROVE  /\ log' = Append(log, d) /\ Len(log') = Len(log) + 1 /\ Len(log) \in Nat
           /\ \A i \in 1 .. Len(log) : log'[i] = log[i]
           /\ log'[Len(log) + 1] = d
<1>1. log \in Seq(Dispatches) /\ log' = Append(log, d)
  BY DEF Typed, Commit
<1> QED
  BY <1>1

LEMMA RestStep ==
    ASSUME IInv, IInv', Rest, [Next]_vars
    PROVE  Rest'
<1>0. /\ Typed /\ Typed' /\ Len(log) \in Nat /\ published \in Nat /\ Len(queue) \in Nat
      /\ Capacity \in Nat \ {0} /\ MaxSends \in Nat /\ sends \in Nat
  BY LimitAssumption, BoundAssumption DEF IInv, Typed, Rest
<1>00. /\ \A r \in {"busy", "failed", "disposed"} : Receipt(r, 0) \in Receipts
       /\ result.receipt \in Receipts
       /\ NoResult \in [receipt : Receipts, replayed : BOOLEAN]
  BY ReceiptTyped, IgnoredTyped DEF Rest, NoResult
<1>1. ASSUME NEW d \in Dispatches, Enqueue(d) PROVE Rest'
  <2>1. /\ UNCHANGED <<actor, clock, stage, result, arming, disposed, published>>
        /\ sends < MaxSends /\ sends' = sends + 1
        /\ \/ queue' = queue /\ \E r \in {"busy", "disposed"} : answers' = {Answer(d, Receipt(r, 0))}
           \/ ~Full /\ queue' = Append(queue, d) /\ answers' = {}
    BY <1>1 DEF Enqueue
  <2>2. Len(queue') <= Capacity
    <3>1. CASE queue' = queue
      BY <3>1 DEF Rest
    <3>2. CASE ~Full /\ queue' = Append(queue, d)
      <4>1. Len(queue') = Len(queue) + 1
        BY <1>0, <3>2 DEF Typed
      <4> QED
        BY <1>0, <3>2, <4>1 DEF Full
    <3> QED
      BY <2>1, <3>1, <3>2
  <2>3. answers' \in SUBSET Answers
    BY <1>00, <2>1, AnswerTyped
  <2>4. sends' \in 0 .. MaxSends
    BY <1>0, <2>1
  <2> QED
    BY <2>1, <2>2, <2>3, <2>4 DEF Rest, actor, arming
<1>2. CASE DispatchUser
  <2>1. PICK id \in RequestIds, expects \in {NoRequest} \cup 1..revision :
            Enqueue(User(id, expects))
    BY <1>2 DEF DispatchUser
  <2>2. User(id, expects) \in Dispatches
    BY <1>0 DEF User, Dispatches, NoRequest, Typed
  <2> QED
    BY <1>1, <2>1, <2>2
<1>3. CASE DispatchSystem
  <2>1. Event \in Dispatches
    BY DEF Dispatches
  <2> QED
    BY <1>1, <1>3, <2>1 DEF DispatchSystem
<1>4. CASE \E k \in Timers : TimePasses(k)
  <2>1. answers' = {} /\ UNCHANGED <<actor, queue, result, arming, sends, published>>
    BY <1>4 DEF TimePasses
  <2> QED
    BY <2>1 DEF Rest, actor, arming
<1>5. CASE \E k \in Timers : FireTimer(k)
  <2>1. PICK k \in Timers : FireTimer(k)
    BY <1>5
  <2>2. answers' = {} /\ UNCHANGED <<actor, result, sends, published>>
    BY <2>1 DEF FireTimer
  <2>3. retry' \in BOOLEAN
    BY <2>1 DEF FireTimer, DelayTimer, Reconcile, Rest
  <2>4. Len(queue') <= Capacity
    <3>1. CASE queue' = queue
      BY <3>1 DEF Rest
    <3>2. CASE ~Full /\ queue' = Append(queue, Timer(k, tasks[k])) /\ tasks[k] # 0
      <4>1. Timer(k, tasks[k]) \in Dispatches
        BY <1>0, <3>2 DEF Timer, Dispatches, Typed
      <4>2. Len(queue') = Len(queue) + 1
        BY <1>0, <3>2, <4>1 DEF Typed
      <4> QED
        BY <1>0, <3>2, <4>2 DEF Full
    <3> QED
      BY <2>1, <3>1, <3>2 DEF FireTimer
  <2> QED
    BY <2>2, <2>3, <2>4 DEF Rest, actor
<1>6. CASE Apply
  <2>1. answers' = {} /\ UNCHANGED <<queue, arming, sends, published>>
    BY <1>6 DEF Apply
  <2>2. revision' \in Nat \ {0} /\ Head1 \in Dispatches
    BY <1>0, <1>6, QueueEnds DEF Typed, Apply
  <2>3. /\ cache' \in Seq(Entries) /\ Len(cache') <= MaxEntries
        /\ result' \in [receipt : Receipts, replayed : BOOLEAN]
        /\ NoCommit \/ \E control \in BOOLEAN : Commit(Head1, control)
    BY <1>6, <2>2, ApplyKinds
  <2>4. published' <= Len(log')
    <3>1. CASE NoCommit
      BY <2>1, <3>1 DEF NoCommit, Rest
    <3>2. CASE \E control \in BOOLEAN : Commit(Head1, control)
      <4>1. Len(log') = Len(log) + 1
        BY <1>0, <2>2, <3>2, CommitLengthens
      <4> QED
        BY <1>0, <2>1, <4>1 DEF Rest
    <3> QED
      BY <2>3, <3>1, <3>2
  <2> QED
    BY <2>1, <2>3, <2>4 DEF Rest, arming
\* The steps that end the head's dispatch.
<1>7. ASSUME queue # <<>>, queue' = Tail(queue), UNCHANGED <<actor, sends>>,
             result' \in {result, NoResult}, retry' \in BOOLEAN, published' <= Len(log),
             NEW r \in Receipts, answers' = {Answer(Head1, r)}
      PROVE  Rest'
  <2>1. /\ Head1 \in Dispatches /\ Len(queue') = Len(queue) - 1
    BY <1>0, <1>7, QueueEnds
  <2>2. answers' \in SUBSET Answers
    BY <1>7, <2>1, AnswerTyped
  <2>3. Len(queue') <= Capacity
    BY <1>0, <2>1 DEF Rest
  <2>4. result' \in [receipt : Receipts, replayed : BOOLEAN]
    BY <1>00, <1>7 DEF Rest
  <2> QED
    BY <1>7, <2>2, <2>3, <2>4 DEF Rest, actor
<1>8. CASE ActorFails
  <2>1. /\ queue # <<>> /\ queue' = Tail(queue)
        /\ UNCHANGED <<actor, sends, result, published>>
        /\ answers' = {Answer(Head1, Receipt("failed", 0))}
    BY <1>8 DEF ActorFails
  <2>2. retry' \in BOOLEAN
    BY <1>8 DEF ActorFails, DelayTimer, Reconcile, Rest, arming
  <2>3. published' <= Len(log)
    BY <2>1 DEF Rest
  <2> QED
    BY <1>00, <1>7, <2>1, <2>2, <2>3
<1>9. CASE Settle
  <2>1. UNCHANGED <<actor, sends, published>> /\ queue # <<>>
    BY <1>0, <1>9 DEF Settle, Typed
  <2>2. retry' \in BOOLEAN /\ published' <= Len(log)
    BY <1>9, <2>1 DEF Settle, Reconcile, Rest
  <2>3. CASE ToPublish
    <3>1. answers' = {} /\ UNCHANGED <<queue, result>>
      BY <1>9, <2>3 DEF Settle
    <3> QED
      BY <2>1, <2>2, <3>1 DEF Rest, actor
  <2>4. CASE ~ToPublish
    <3>1. Finish
      BY <1>9, <2>4 DEF Settle
    <3> QED
      BY <1>00, <1>7, <2>1, <2>2, <3>1 DEF Finish
  <2> QED
    BY <2>3, <2>4
<1>10. CASE CommitAccepted
  <2>1. /\ stage = "publishing" /\ Finish /\ published' = published + 1
        /\ UNCHANGED <<actor, arming, sends>>
    BY <1>10 DEF CommitAccepted
  <2>2. queue # <<>> /\ published' <= Len(log) /\ retry' \in BOOLEAN
    BY <1>0, <2>1 DEF Typed, IInv, InPublication, Rest, arming
  <2> QED
    BY <1>00, <1>7, <2>1, <2>2 DEF Finish
<1>11. CASE CommitRefused \/ PublishRetry
  <2>1. /\ UNCHANGED <<actor, queue, result, sends, published>> /\ answers' = {}
        /\ retry' \in BOOLEAN
    BY <1>11 DEF CommitRefused, PublishRetry, Rest
  <2> QED
    BY <2>1 DEF Rest, actor
<1>12. CASE Dispose
  <2>1. /\ UNCHANGED <<actor, queue, result, sends, published>> /\ answers' = {}
        /\ retry' = FALSE
    BY <1>12 DEF Dispose
  <2> QED
    BY <2>1 DEF Rest, actor
<1>13. CASE RejectDisposed
  <2>1. /\ queue # <<>> /\ queue' = Tail(queue) /\ result' = NoResult
        /\ answers' = {Answer(Head1, Receipt("disposed", 0))}
        /\ UNCHANGED <<actor, arming, sends, published>>
    BY <1>13 DEF RejectDisposed
  <2>2. retry' \in BOOLEAN /\ published' <= Len(log)
    BY <2>1 DEF Rest, arming
  <2> QED
    BY <1>00, <1>7, <2>1, <2>2
<1>14. CASE UNCHANGED vars
  BY <1>14 DEF vars, Rest, actor, arming
<1> QED
  BY <1>2, <1>3, <1>4, <1>5, <1>6, <1>8, <1>9, <1>10, <1>11, <1>12, <1>13, <1>14 DEF Next

LEMMA InitRest == Init => Rest
<1> SUFFICES ASSUME Init PROVE Rest
  OBVIOUS
<1>1. /\ Len(<<>>) = 0 /\ <<>> \in Seq(Entries) /\ result \in [receipt : Receipts, replayed : BOOLEAN]
      /\ Capacity \in Nat /\ MaxEntries \in Nat /\ MaxSends \in Nat
  BY IgnoredTyped, LimitAssumption, BoundAssumption DEF Init, NoResult
<1>2. cache = <<>> /\ queue = <<>> /\ log = <<>> /\ published = 0 /\ sends = 0
  BY DEF Init
<1>3. cache \in Seq(Entries)
  BY <1>1, <1>2, Zenon
<1>4. Len(queue) <= Capacity /\ Len(cache) <= MaxEntries /\ published <= Len(log)
  <2>1. Len(queue) = 0 /\ Len(cache) = 0 /\ Len(log) = 0
    BY <1>1, <1>2, Zenon
  <2> QED
    BY <1>1, <1>2, <2>1
<1>5. sends \in 0 .. MaxSends /\ retry \in BOOLEAN /\ answers \in SUBSET Answers
  <2>1. sends = 0 /\ retry = FALSE /\ answers = {}
    BY DEF Init
  <2>2. sends \in 0 .. MaxSends
    BY <2>1, BoundAssumption
  <2>3. answers \in SUBSET Answers
    BY <2>1
  <2> QED
    BY <2>1, <2>2, <2>3
<1> QED
  BY <1>1, <1>3, <1>4, <1>5 DEF Rest

\* Every variable has its type; the queue and the actor's memory keep their bounds.
THEOREM TypeCorrect == Spec => []TypeOK
<1>1. Init => Rest
  BY InitRest
<1>2. IInv /\ IInv' /\ Rest /\ [Next]_vars => Rest'
  BY RestStep
<1>3. IInv /\ Rest => TypeOK
  BY RestIsEnough
<1> QED
  BY <1>1, <1>2, <1>3, Inductive, PTL DEF Spec

-----------------------------------------------------------------------------
(* Deadlines stay armed *)

\* What is queued behind the running dispatch.
Waiting == IF stage = "idle" THEN queue ELSE Tail(queue)

\* TimersArmed, and more: the timer that is to act on a deadline is still to come.  The one
\* that runs does not count, for what it found has been settled when it is finished.
Armed ==
    /\ ~disposed /\ ~closed /\ stage # "applied" => \A k \in Timers :
        /\ deadline[k] # 0 => \/ tasks[k] = deadline[k]
                              \/ Timer(k, deadline[k]) \in Range(Waiting)
        /\ tasks[k] \in {0, deadline[k]}
    /\ disposed \/ (closed /\ stage # "applied") => \A k \in Timers : tasks[k] = 0

LEMMA ArmedIsEnough == IInv /\ Armed => TimersArmed
<1> SUFFICES ASSUME IInv, Armed PROVE TimersArmed
  OBVIOUS
<1>1. Range(Waiting) \subseteq Range(queue)
  <2>1. CASE stage = "idle"
    BY <2>1 DEF Waiting
  <2>2. CASE stage # "idle"
    <3>1. Range(queue) = {Head1} \cup Range(Tail(queue))
      BY <2>2, QueueEnds DEF IInv, Typed
    <3> QED
      BY <2>2, <3>1 DEF Waiting
  <2> QED
    BY <2>1, <2>2
<1> QED
  BY <1>1 DEF Armed, TimersArmed

\* After a reconciliation what is armed is what the room asks for.
LEMMA ReconcileArms ==
    ASSUME Typed', Reconcile, ~disposed'
    PROVE  Armed'
<1>1. \A k \in Timers : /\ closed' => tasks'[k] = 0
                        /\ ~closed' => tasks'[k] = deadline'[k]
  BY DEF Reconcile
<1> QED
  BY <1>1 DEF Armed

\* An arrival that is accepted waits behind the others.
LEMMA ArrivalWaits ==
    ASSUME Typed, NEW d \in Dispatches, queue' = Append(queue, d), UNCHANGED stage
    PROVE  Range(Waiting)' = Range(Waiting) \cup {d}
<1>1. CASE stage = "idle"
  <2>1. Range(Append(queue, d)) = Range(queue) \cup {d}
    BY RangeOfAppend DEF Typed
  <2>2. Range(Waiting)' = Range(Append(queue, d))
    BY <1>1 DEF Waiting
  <2> QED
    BY <1>1, <2>1, <2>2 DEF Waiting
<1>2. CASE stage # "idle"
  <2>1. queue \in Seq(Dispatches) /\ queue # <<>>
    BY <1>2 DEF Typed
  <2>2. Tail(queue) \in Seq(Dispatches) /\ Tail(Append(queue, d)) = Append(Tail(queue), d)
    BY <2>1
  <2>3. \A rest \in Seq(Dispatches) : Range(Append(rest, d)) = Range(rest) \cup {d}
    BY RangeOfAppend
  <2>5. Range(Append(Tail(queue), d)) = Range(Tail(queue)) \cup {d}
    BY <2>2, <2>3
  <2>4. Range(Waiting)' = Range(Tail(Append(queue, d)))
    BY <1>2 DEF Waiting
  <2> QED
    BY <1>2, <2>2, <2>4, <2>5 DEF Waiting
<1> QED
  BY <1>1, <1>2

\* A step that arms and disarms nothing and lets no timer go.
LEMMA StillArmed ==
    ASSUME Armed, UNCHANGED <<deadline, closed, tasks, disposed>>,
           stage' = "applied" <=> stage = "applied",
           Range(Waiting) \subseteq Range(Waiting)'
    PROVE  Armed'
BY DEF Armed

LEMMA ArmedStep ==
    ASSUME IInv, IInv', Armed, [Next]_vars
    PROVE  Armed'
<1>0. Typed /\ Typed'
  BY DEF IInv
<1>1. ASSUME NEW d \in Dispatches, Enqueue(d) PROVE Armed'
  <2>1. /\ UNCHANGED <<deadline, closed, tasks, disposed>> /\ UNCHANGED stage
        /\ queue' = queue \/ queue' = Append(queue, d)
    BY <1>1 DEF Enqueue, actor, arming
  <2>2. Range(Waiting) \subseteq Range(Waiting)'
    <3>1. CASE queue' = queue
      BY <2>1, <3>1 DEF Waiting
    <3>2. CASE queue' = Append(queue, d)
      BY <1>0, <2>1, <3>2, ArrivalWaits
    <3> QED
      BY <2>1, <3>1, <3>2
  <2> QED
    BY <2>1, <2>2, StillArmed
<1>2. CASE DispatchUser
  <2>1. PICK id \in RequestIds, expects \in {NoRequest} \cup 1..revision :
            Enqueue(User(id, expects))
    BY <1>2 DEF DispatchUser
  <2>2. User(id, expects) \in Dispatches
    BY <1>0 DEF User, Dispatches, NoRequest, Typed
  <2> QED
    BY <1>1, <2>1, <2>2
<1>3. CASE DispatchSystem
  <2>1. Event \in Dispatches
    BY DEF Dispatches
  <2> QED
    BY <1>1, <1>3, <2>1 DEF DispatchSystem
<1>4. CASE \/ \E k \in Timers : TimePasses(k)
           \/ CommitRefused \/ PublishRetry
           \/ UNCHANGED vars
  <2>1. /\ UNCHANGED <<deadline, closed, tasks, disposed>> /\ UNCHANGED queue
        /\ \/ UNCHANGED stage
           \/ stage \in {"publishing", "waiting"} /\ stage' \in {"publishing", "waiting", "stopped"}
    BY <1>4 DEF TimePasses, CommitRefused, PublishRetry, vars, actor, arming
  <2>2. Range(Waiting) \subseteq Range(Waiting)'
    BY <2>1 DEF Waiting
  <2> QED
    BY <2>1, <2>2, StillArmed
<1>5. CASE \E k \in Timers : FireTimer(k)
  <2>1. PICK k \in Timers : FireTimer(k)
    BY <1>5
  <2>2. /\ UNCHANGED <<deadline, closed, stage, disposed>> /\ ~disposed /\ tasks[k] # 0
    BY <2>1 DEF FireTimer, actor
  <2>3. CASE Reconcile
    BY <1>0, <2>2, <2>3, ReconcileArms
  <2>4. CASE /\ queue' = Append(queue, Timer(k, tasks[k]))
             /\ tasks' = [tasks EXCEPT ![k] = 0]
    <3>1. Timer(k, tasks[k]) \in Dispatches
      BY <1>0, <2>2 DEF Timer, Dispatches, Typed
    <3>2. Range(Waiting)' = Range(Waiting) \cup {Timer(k, tasks[k])}
      BY <1>0, <2>2, <2>4, <3>1, ArrivalWaits
    <3>3. tasks'[k] = 0 /\ \A l \in Timers : l # k => tasks'[l] = tasks[l]
      BY <1>0, <2>4 DEF Typed
    <3>4. CASE stage = "applied"
      BY <2>2, <3>4 DEF Armed
    <3>5. CASE stage # "applied"
      <4>1. ~closed /\ tasks[k] = deadline[k]
        BY <2>2, <3>5 DEF Armed
      <4>2. ASSUME NEW l \in Timers
            PROVE  /\ deadline[l] # 0 => \/ tasks'[l] = deadline[l]
                                         \/ Timer(l, deadline[l]) \in Range(Waiting)'
                   /\ tasks'[l] \in {0, deadline[l]}
        <5>1. CASE l = k
          BY <3>2, <3>3, <4>1, <5>1
        <5>2. CASE l # k
          BY <2>2, <3>2, <3>3, <3>5, <4>1, <5>2 DEF Armed
        <5> QED
          BY <5>1, <5>2
      <4> QED
        BY <2>2, <4>1, <4>2 DEF Armed
    <3> QED
      BY <3>4, <3>5
  <2> QED
    BY <2>1, <2>3, <2>4 DEF FireTimer, DelayTimer
<1>6. CASE Apply
  BY <1>6 DEF Apply, Armed
<1>7. CASE ActorFails
  <2>1. /\ stage = "idle" /\ queue # <<>> /\ ~disposed /\ queue' = Tail(queue)
        /\ UNCHANGED <<deadline, closed, disposed>> /\ UNCHANGED stage
        /\ IF Head1.by = "timer" THEN Reconcile ELSE UNCHANGED arming
    BY <1>7 DEF ActorFails, DelayTimer, actor
  <2>2. CASE Head1.by = "timer"
    BY <1>0, <2>1, <2>2, ReconcileArms
  <2>3. CASE Head1.by # "timer"
    <3>1. Range(queue) = {Head1} \cup Range(Tail(queue))
      BY <1>0, <2>1, QueueEnds
    <3>2. \A k \in Timers : Timer(k, deadline[k]) # Head1
      BY <2>3 DEF Timer
    <3>3. Range(Waiting) = Range(queue) /\ Range(Waiting)' = Range(Tail(queue))
      BY <2>1 DEF Waiting
    <3>4. UNCHANGED tasks
      BY <2>1, <2>3 DEF arming
    <3> QED
      BY <2>1, <3>1, <3>2, <3>3, <3>4 DEF Armed
  <2> QED
    BY <2>2, <2>3
<1>8. CASE Settle
  BY <1>0, <1>8, ReconcileArms DEF Settle
<1>9. CASE CommitAccepted
  <2>1. /\ stage = "publishing" /\ stage' = "idle" /\ queue' = Tail(queue)
        /\ UNCHANGED <<deadline, closed, tasks, disposed>>
    BY <1>9 DEF CommitAccepted, Finish, actor, arming
  <2>2. Range(Waiting) = Range(Tail(queue)) /\ Range(Waiting)' = Range(Tail(queue))
    BY <2>1 DEF Waiting
  <2> QED
    BY <2>1, <2>2, StillArmed
<1>10. CASE Dispose
  <2>1. disposed' /\ \A k \in Timers : tasks'[k] = 0
    BY <1>10 DEF Dispose
  <2> QED
    BY <2>1 DEF Armed
<1>11. CASE RejectDisposed
  <2>1. disposed /\ UNCHANGED <<tasks, disposed>>
    BY <1>11 DEF RejectDisposed, arming
  <2> QED
    BY <2>1 DEF Armed
<1> QED
  BY <1>2, <1>3, <1>4, <1>5, <1>6, <1>7, <1>8, <1>9, <1>10, <1>11 DEF Next

\* A deadline of an open room is never forgotten: its task is armed or its timer is queued,
\* through early, refused and failed timers; a closed or disposed room has no task left.
THEOREM DeadlinesStayArmed == Spec => []TimersArmed
<1>1. Init => Armed
  BY DEF Init, Armed
<1>2. IInv /\ IInv' /\ Armed /\ [Next]_vars => Armed'
  BY ArmedStep
<1>3. IInv /\ Armed => TimersArmed
  BY ArmedIsEnough
<1> QED
  BY <1>1, <1>2, <1>3, Inductive, PTL DEF Spec

-----------------------------------------------------------------------------
(* "Committed" is answered only for what is published *)

\* The actor's memory and the answer under way speak of commits that were made.  That they
\* are published when the caller hears of them is InPublication's.
Truthful ==
    /\ \A e \in Range(cache) : e.receipt.kind = "committed" =>
          \E i \in DOMAIN log : log[i] = User(e.id, e.print)
    /\ stage # "idle" /\ result.receipt.kind = "committed" =>
          \E i \in DOMAIN log : log[i] = Head1

LEMMA TruthfulStep ==
    ASSUME IInv, IInv', Rest, Truthful, [Next]_vars
    PROVE  Truthful'
<1>0. Typed /\ Typed'
  BY DEF IInv
<1>1. ASSUME UNCHANGED <<cache, log>>,
             \/ stage' = "idle"
             \/ stage # "idle" /\ UNCHANGED result /\ Head1' = Head1
      PROVE  Truthful'
  BY <1>1 DEF Truthful
<1>2. ASSUME NEW d \in Dispatches, queue' = Append(queue, d), stage # "idle"
      PROVE  Head1' = Head1
  <2>1. queue \in Seq(Dispatches) /\ queue # <<>>
    BY <1>0, <1>2 DEF Typed
  <2>2. Append(queue, d)[1] = queue[1]
    BY <2>1
  <2> QED
    BY <1>2, <2>2 DEF Head1
<1>3. ASSUME NEW d \in Dispatches, Enqueue(d) PROVE Truthful'
  <2>1. /\ UNCHANGED <<cache, log>> /\ UNCHANGED stage /\ UNCHANGED result
        /\ queue' = queue \/ queue' = Append(queue, d)
    BY <1>3 DEF Enqueue, actor
  <2>2. queue' = queue => Head1' = Head1
    BY DEF Head1
  <2> QED
    BY <1>1, <1>2, <2>1, <2>2
<1>4. CASE DispatchUser
  <2>1. PICK id \in RequestIds, expects \in {NoRequest} \cup 1..revision :
            Enqueue(User(id, expects))
    BY <1>4 DEF DispatchUser
  <2>2. User(id, expects) \in Dispatches
    BY <1>0 DEF User, Dispatches, NoRequest, Typed
  <2> QED
    BY <1>3, <2>1, <2>2
<1>5. CASE DispatchSystem
  <2>1. Event \in Dispatches
    BY DEF Dispatches
  <2> QED
    BY <1>3, <1>5, <2>1 DEF DispatchSystem
<1>6. CASE \/ \E k \in Timers : TimePasses(k)
           \/ CommitRefused \/ PublishRetry \/ Dispose
           \/ UNCHANGED vars
  <2>1. /\ UNCHANGED <<cache, log>> /\ UNCHANGED result /\ UNCHANGED queue
        /\ UNCHANGED stage \/ stage \in {"publishing", "waiting"}
    BY <1>6 DEF TimePasses, CommitRefused, PublishRetry, Dispose, vars, actor
  <2>2. Head1' = Head1
    BY <2>1 DEF Head1
  <2> QED
    BY <1>1, <2>1, <2>2
<1>7. CASE \E k \in Timers : FireTimer(k)
  <2>1. PICK k \in Timers : FireTimer(k)
    BY <1>7
  <2>2. /\ UNCHANGED <<cache, log>> /\ UNCHANGED stage /\ UNCHANGED result /\ tasks[k] # 0
        /\ queue' = queue \/ queue' = Append(queue, Timer(k, tasks[k]))
    BY <2>1 DEF FireTimer, actor
  <2>3. Timer(k, tasks[k]) \in Dispatches
    BY <1>0, <2>2 DEF Timer, Dispatches, Typed
  <2>4. queue' = queue => Head1' = Head1
    BY DEF Head1
  <2> QED
    BY <1>1, <1>2, <2>2, <2>3, <2>4
<1>8. CASE Apply
  <2>1. UNCHANGED queue /\ stage' = "applied" /\ Head1' = Head1
    BY <1>8 DEF Apply, Head1
  <2>2. revision' \in Nat \ {0} /\ Head1 \in Dispatches /\ log \in Seq(Dispatches)
    BY <1>0, <1>8, QueueEnds DEF Typed, Apply
  <2>3. /\ NoCommit \/ \E control \in BOOLEAN : Commit(Head1, control)
        /\ \A e \in Range(cache') :
              \/ e \in Range(cache)
              \/ User(e.id, e.print) = Head1 /\ e.receipt = result'.receipt
        /\ result'.receipt.kind = "committed" =>
              \/ \E control \in BOOLEAN : Commit(Head1, control)
              \/ \E e \in Range(cache) : /\ User(e.id, e.print) = Head1
                                         /\ e.receipt.kind = "committed"
    BY <1>8, <2>2, ApplyKinds
  <2>4. CASE NoCommit /\ ~\E control \in BOOLEAN : Commit(Head1, control)
    <3>1. log' = log
      BY <2>4 DEF NoCommit
    <3>2. result'.receipt.kind = "committed" => \E i \in DOMAIN log : log[i] = Head1
      BY <2>3, <2>4 DEF Truthful
    <3> QED
      BY <2>1, <2>3, <3>1, <3>2 DEF Truthful
  <2>5. CASE \E control \in BOOLEAN : Commit(Head1, control)
    <3>1. /\ log' = Append(log, Head1) /\ Len(log') = Len(log) + 1 /\ Len(log) \in Nat
          /\ \A i \in 1 .. Len(log) : log'[i] = log[i]
          /\ log'[Len(log) + 1] = Head1
      BY <1>0, <2>2, <2>5, CommitLengthens
    <3>2. DOMAIN log = 1 .. Len(log) /\ DOMAIN log' = 1 .. Len(log) + 1
      BY <2>2, <3>1
    <3>3. \E i \in DOMAIN log' : log'[i] = Head1
      <4>1. Len(log) + 1 \in 1 .. Len(log) + 1
        BY <3>1
      <4> QED
        BY <3>1, <3>2, <4>1
    <3>4. \A i \in DOMAIN log : i \in DOMAIN log' /\ log'[i] = log[i]
      BY <3>1, <3>2
    <3>5. ASSUME NEW e \in Range(cache'), e.receipt.kind = "committed"
          PROVE  \E i \in DOMAIN log' : log'[i] = User(e.id, e.print)
      BY <2>3, <3>3, <3>4, <3>5 DEF Truthful
    <3> QED
      BY <2>1, <3>3, <3>5 DEF Truthful
  <2> QED
    BY <2>3, <2>4, <2>5
<1>9. CASE ActorFails \/ CommitAccepted \/ RejectDisposed
  <2>1. UNCHANGED <<cache, log>> /\ stage' = "idle"
    BY <1>9 DEF ActorFails, CommitAccepted, RejectDisposed, Finish, actor
  <2> QED
    BY <1>1, <2>1
<1>10. CASE Settle
  <2>1. UNCHANGED <<cache, log>> /\ stage = "applied"
    BY <1>10 DEF Settle, actor
  <2>2. stage' = "idle" \/ (UNCHANGED result /\ Head1' = Head1)
    BY <1>10 DEF Settle, Finish, Head1
  <2> QED
    BY <1>1, <2>1, <2>2
<1> QED
  BY <1>4, <1>5, <1>6, <1>7, <1>8, <1>9, <1>10 DEF Next

\* The answers of a step: none is "committed" but the one Finish gives.
LEMMA AnswersStep ==
    ASSUME IInv, IInv', Truthful, CommittedIsPublished, [Next]_vars
    PROVE  CommittedIsPublished'
<1>0. Typed /\ log \in Seq(Dispatches) /\ DOMAIN log = 1 .. Len(log) /\ Len(log) \in Nat
  BY DEF IInv, Typed
<1>1. ASSUME \A a \in answers' : a.receipt.kind # "committed"
      PROVE  CommittedIsPublished'
  BY <1>1 DEF CommittedIsPublished
<1>2. ASSUME Finish, stage # "idle", log' = log, published' = Len(log)
      PROVE  CommittedIsPublished'
  <2>1. answers' = {Answer(Head1, result.receipt)}
    BY <1>2 DEF Finish
  <2>2. result.receipt.kind = "committed" => \E i \in 1 .. Len(log) : log[i] = Head1
    BY <1>0, <1>2 DEF Truthful
  <2>3. \A a \in answers' : a.dispatch = Head1 /\ a.receipt = result.receipt
    BY <2>1 DEF Answer
  <2> QED
    BY <1>2, <2>2, <2>3 DEF CommittedIsPublished
<1>3. CASE Settle
  <2>1. stage = "applied" /\ ~disposed /\ log' = log /\ UNCHANGED published
    BY <1>3 DEF Settle, actor
  <2>2. CASE ToPublish
    <3>1. answers' = {}
      BY <1>3, <2>2 DEF Settle
    <3> QED
      BY <1>1, <3>1
  <2>3. CASE ~ToPublish
    <3>1. Finish
      BY <1>3, <2>3 DEF Settle
    <3>2. published' = Len(log)
      BY <1>0, <2>1, <2>3 DEF IInv, InPublication
    <3> QED
      BY <1>2, <2>1, <3>1, <3>2
  <2> QED
    BY <2>2, <2>3
<1>4. CASE CommitAccepted
  <2>1. /\ stage = "publishing" /\ Finish /\ log' = log /\ published' = published + 1
    BY <1>4 DEF CommitAccepted, actor
  <2>2. published' = Len(log)
    BY <1>0, <2>1 DEF IInv, InPublication, Typed
  <2> QED
    BY <1>2, <2>1, <2>2
<1>5. CASE \/ \E k \in Timers : TimePasses(k) \/ FireTimer(k)
           \/ Apply \/ CommitRefused \/ PublishRetry \/ Dispose
  <2>1. answers' = {}
    BY <1>5 DEF TimePasses, FireTimer, Apply, CommitRefused, PublishRetry, Dispose
  <2> QED
    BY <1>1, <2>1
<1>6. ASSUME NEW d, Enqueue(d) PROVE CommittedIsPublished'
  <2>1. \A a \in answers' : a.receipt.kind # "committed"
    BY <1>6 DEF Enqueue, Answer, Receipt
  <2> QED
    BY <1>1, <2>1
<1>7. CASE DispatchUser \/ DispatchSystem
  BY <1>6, <1>7 DEF DispatchUser, DispatchSystem
<1>8. CASE ActorFails \/ RejectDisposed
  <2>1. \A a \in answers' : a.receipt.kind # "committed"
    BY <1>8 DEF ActorFails, RejectDisposed, Answer, Receipt
  <2> QED
    BY <1>1, <2>1
<1>9. CASE UNCHANGED vars
  <2>1. UNCHANGED <<answers, published, log>>
    BY <1>9 DEF vars, actor
  <2> QED
    BY <2>1 DEF CommittedIsPublished
<1> QED
  BY <1>3, <1>4, <1>5, <1>7, <1>8, <1>9 DEF Next

\* Who is told that his command is committed, also by a remembered answer, finds its commit
\* among those the outbox has.
THEOREM CommittedAnswersAreTrue == Spec => []CommittedIsPublished
<1>1. Init => Rest /\ Truthful /\ CommittedIsPublished
  <2>1. Init => Truthful /\ CommittedIsPublished
    BY DEF Init, Truthful, CommittedIsPublished, Range
  <2> QED
    BY <2>1, InitRest
<1>2. IInv /\ IInv' /\ Rest /\ [Next]_vars => Rest'
  BY RestStep
<1>3. IInv /\ IInv' /\ Rest /\ Truthful /\ [Next]_vars => Truthful'
  BY TruthfulStep
<1>4. IInv /\ IInv' /\ Truthful /\ CommittedIsPublished /\ [Next]_vars =>
          CommittedIsPublished'
  BY AnswersStep
<1> QED
  BY <1>1, <1>2, <1>3, <1>4, Inductive, PTL DEF Spec

=============================================================================
