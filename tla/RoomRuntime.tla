---------------------------- MODULE RoomRuntime ----------------------------
(***************************************************************************)
(* RoomRuntime and its RoomActor: the dispatch queue of one room, the      *)
(* answers it remembers, the deadlines it keeps armed, and the publication *)
(* of each commit to the outbox before the next command runs.              *)
(*                                                                         *)
(* The room itself is reduced to what the runtime reads: the control       *)
(* revision, whether it is closed, and the identity of each deadline       *)
(* (countdownId, connection epoch, expiry), which is the number of the     *)
(* commit that set it; 0 is no deadline.  What a command does to the room  *)
(* is a choice here and is modelled in module Room.                        *)
(*                                                                         *)
(* A step runs from one await to the next.  A rejection or a result that   *)
(* is not a commit re-arms a timer in the step that delivers it: runTimer  *)
(* continues before the next dispatch starts.                              *)
(*                                                                         *)
(* A definition named X_Mutation is X with a plausible bug: nothing uses   *)
(* it, it documents which property notices that bug.                       *)
(***************************************************************************)
EXTENDS Naturals, Sequences, Functions, Arrays

CONSTANTS
    Timers,             \* the task keys: room-expiry, countdown, reconnect:<player>
    Reconnects,         \* those of the players' reconnect deadlines
    RequestIds,         \* of one session
    Capacity,           \* dispatchQueueCapacity
    MaxEntries,         \* maxIdempotencyEntriesPerActor
    SchedulerFails,     \* whether the scheduler may refuse the publication's retry
    MaxCommits,         \* bound of the model: the last of so many commits closes the room,
                        \* and the one before sets no deadline
    MaxSends            \* bound of the model: commands and events that arrive

ASSUME LimitAssumption ==
    /\ Capacity \in Nat \ {0} /\ MaxEntries \in Nat \ {0} /\ SchedulerFails \in BOOLEAN
ASSUME TimerAssumption == Reconnects \subseteq Timers
ASSUME BoundAssumption == MaxCommits \in Nat \ {0} /\ MaxSends \in Nat

VARIABLES
    revision, closed, deadline,     \* actor.snapshot
    clock,                          \* whether the deadline has passed, or is spent
    cache,                          \* the actor's entries, least recently used first
    queue,                          \* the dispatches accepted, the head is the running one
    stage,                          \* how far the head is
    result,                         \* and what the actor returned for it
    tasks,                          \* the deadlines armed in the scheduler
    retry,                          \* the commit-publish task is armed
    disposed,
    sends,                          \* counts what arrived
    log,                            \* history: the commits, by the dispatch of each
    published,                      \* history: how many of them onCommit accepted
    answers                         \* what the step just taken told its caller

actor == <<revision, closed, deadline, cache, log>>
arming == <<tasks, retry>>
vars == <<actor, clock, queue, stage, result, arming, disposed, sends, published, answers>>

NoRequest == 0
User(id, expects) == [by |-> "user", id |-> id, expects |-> expects]
Event == [by |-> "event"]
Timer(k, of) == [by |-> "timer", key |-> k, of |-> of]

Receipt(kind, at) == [kind |-> kind, revision |-> at]
Result(receipt, replayed) == [receipt |-> receipt, replayed |-> replayed]
Ignored == Result(Receipt("ignored", 0), FALSE)
NoResult == Ignored

Answer(d, r) == [dispatch |-> d, receipt |-> r]

Init ==
    /\ revision = 1 /\ closed = FALSE
    /\ deadline = [k \in Timers |-> 0] /\ clock = [k \in Timers |-> "running"]
    /\ cache = <<>> /\ queue = <<>> /\ stage = "idle" /\ result = NoResult
    /\ tasks = [k \in Timers |-> 0] /\ retry = FALSE
    /\ disposed = FALSE /\ sends = 0
    /\ log = <<>> /\ published = 0 /\ answers = {}

Head1 == queue[1]
Full == Len(queue) >= Capacity

\* #reconcile arms what the room's deadlines ask for; a closed room keeps no task, not
\* even commit-publish.
Reconcile ==
    /\ tasks' = IF closed' THEN [k \in Timers |-> 0] ELSE deadline'
    /\ retry' = (retry /\ ~closed')

-----------------------------------------------------------------------------
(* Arrivals: #enqueue *)

Enqueue(d) ==
    /\ sends < MaxSends /\ sends' = sends + 1
    /\ IF disposed THEN answers' = {Answer(d, Receipt("disposed", 0))} /\ UNCHANGED queue
       ELSE IF Full THEN answers' = {Answer(d, Receipt("busy", 0))} /\ UNCHANGED queue
       ELSE queue' = Append(queue, d) /\ answers' = {}
    /\ UNCHANGED <<actor, clock, stage, result, arming, disposed, published>>

\* A client knows some past revision, and repeats a request with the same id.  A
\* member.join expects none.
DispatchUser ==
    \E id \in RequestIds, expects \in {NoRequest} \cup 1..revision : Enqueue(User(id, expects))

\* connection.lost, .resumed, .replace, match.finished, admin.close
DispatchSystem == Enqueue(Event)

\* A runtime that is disposed of reads no clock.
TimePasses(k) ==
    /\ deadline[k] # 0 /\ clock[k] = "running" /\ ~disposed
    /\ clock' = [clock EXCEPT ![k] = "passed"] /\ answers' = {}
    /\ UNCHANGED <<actor, queue, stage, result, arming, disposed, sends, published>>

\* #runTimer.  The scheduler may be early.  A full queue delays the timer: it is armed
\* again from the actor's snapshot.
DelayTimer_Dropped(k) == tasks' = [tasks EXCEPT ![k] = 0] /\ UNCHANGED retry
DelayTimer(k) == Reconcile

FireTimer(k) ==
    /\ tasks[k] # 0 /\ ~disposed
    /\ UNCHANGED actor
    /\ IF Full THEN UNCHANGED queue /\ DelayTimer(k)
       ELSE /\ queue' = Append(queue, Timer(k, tasks[k]))
            /\ tasks' = [tasks EXCEPT ![k] = 0] /\ UNCHANGED retry
    /\ answers' = {}
    /\ UNCHANGED <<clock, stage, result, disposed, sends, published>>

-----------------------------------------------------------------------------
(* The actor *)

\* transitionRoom commits: the room may close, and each deadline may be kept, dropped
\* or set afresh.  Only a control change advances the revision.  A deadline that stays
\* after its own timer is spent: the forfeit of a live match is requested once, and the
\* member stays disconnected.
Commit(d, control) ==
    LET number == Len(log) + 1
    IN  /\ ~closed
        /\ log' = Append(log, d)
        /\ revision' = revision + (IF control THEN 1 ELSE 0)
        /\ \/ /\ closed' = TRUE
              /\ deadline' = [k \in Timers |-> 0]
              /\ clock' = [k \in Timers |-> "running"]
           \/ /\ closed' = FALSE /\ number < MaxCommits
              /\ \E set, dropped \in SUBSET Timers :
                    /\ set \cap dropped = {} /\ \A k \in dropped : deadline[k] # 0
                    /\ set = {} \/ number < MaxCommits - 1
                    /\ deadline' = [k \in Timers |-> IF k \in set THEN number
                                                     ELSE IF k \in dropped THEN 0
                                                     ELSE deadline[k]]
                    /\ clock' = [k \in Timers |->
                            IF k \in set \cup dropped THEN "running"
                            ELSE IF d = Timer(k, deadline[k]) THEN "spent" ELSE clock[k]]

NoCommit == UNCHANGED <<revision, closed, deadline, clock, log>>

\* The revision a request names is the present one.
Current_NotFuture(d) == d.expects = NoRequest \/ d.expects <= revision
Current(d) == d.expects = NoRequest \/ d.expects = revision

\* #cache forgets the least recently used entries above the bound.
Bounded(entries) ==
    IF Len(entries) > MaxEntries THEN Tail(entries) ELSE entries

Remember(kept, d) ==
    cache' = Bounded(Append(kept, [id |-> d.id, print |-> d.expects, receipt |-> result'.receipt]))

\* A request id stands for one command: the fingerprint is compared.
SameCommand_ById(e, d) == TRUE
SameCommand(e, d) == e.print = d.expects

\* #applyUser.  Which entries have not outlived their time is a choice.
ApplyUser(d) ==
    \* the principal's connection has been superseded
    \/ result' = Ignored /\ NoCommit /\ UNCHANGED cache
    \/ \E live \in SUBSET Range(cache) :
        LET kept == Keep(cache, live)
            known == {e \in Range(kept) : e.id = d.id}
        IN  \/ /\ \E e \in known : ~SameCommand(e, d)
               /\ result' = Result(Receipt("rejected", revision), FALSE)
               /\ cache' = kept /\ NoCommit
            \/ \E e \in known :
               /\ SameCommand(e, d)
               /\ result' = Result(e.receipt, TRUE)
               /\ cache' = Append(Keep(kept, Range(kept) \ {e}), e) /\ NoCommit
            \/ /\ known = {}
               /\ result' = Result(Receipt("rejected", revision), FALSE)
               /\ Remember(kept, d) /\ NoCommit
            \/ /\ known = {} /\ Current(d)
               /\ Commit(d, TRUE)
               /\ result' = Result(Receipt("committed", revision'), FALSE)
               /\ Remember(kept, d)

ApplyEvent(d) ==
    /\ UNCHANGED cache
    /\ \/ result' = Ignored /\ NoCommit
       \/ /\ \E control \in BOOLEAN : Commit(d, control)
          /\ result' = Result(Receipt("committed", revision'), FALSE)

\* The room ignores a timer of a deadline that is not the present one, not
\* passed, or spent.
Timely(d) == deadline[d.key] = d.of /\ clock[d.key] = "passed"

\* activeMatch.resolutionRequested: the forfeit of a live match has been requested.  The
\* deadline of its other player is ignored until the match is over, a spectator's is not.
Resolving == \E k \in Reconnects : clock[k] = "spent"
AwaitsMatch(k) == k \in Reconnects /\ Resolving

ApplyTimer(d) ==
    /\ UNCHANGED cache
    /\ \/ /\ Timely(d) /\ ~closed
          /\ Commit(d, TRUE)
          /\ deadline'[d.key] = d.of => d.key \in Reconnects /\ ~Resolving
          /\ result' = Result(Receipt("committed", revision'), FALSE)
       \/ /\ Timely(d) /\ ~closed => AwaitsMatch(d.key)
          /\ result' = Ignored /\ NoCommit

\* The head's turn.
Apply ==
    /\ stage = "idle" /\ queue # <<>> /\ ~disposed
    /\ CASE Head1.by = "user" -> ApplyUser(Head1)
         [] Head1.by = "event" -> ApplyEvent(Head1)
         [] Head1.by = "timer" -> ApplyTimer(Head1)
    /\ stage' = "applied" /\ answers' = {}
    /\ UNCHANGED <<queue, arming, disposed, sends, published>>

\* The clock is invalid: the dispatch rejects, and a timer is delayed.
ActorFails ==
    /\ stage = "idle" /\ queue # <<>> /\ ~disposed
    /\ UNCHANGED actor
    /\ IF Head1.by = "timer" THEN DelayTimer(Head1.key) ELSE UNCHANGED arming
    /\ queue' = Tail(queue)
    /\ answers' = {Answer(Head1, Receipt("failed", 0))}
    /\ UNCHANGED <<clock, stage, result, disposed, sends, published>>

-----------------------------------------------------------------------------
(* After the actor: #afterDispatch *)

Finish ==
    /\ queue' = Tail(queue) /\ stage' = "idle" /\ result' = NoResult
    /\ answers' = {Answer(Head1, result.receipt)}

ToPublish == result.receipt.kind = "committed" /\ ~result.replayed

Settle ==
    /\ stage = "applied" /\ ~disposed
    /\ UNCHANGED actor /\ Reconcile
    /\ IF ToPublish
       THEN stage' = "publishing" /\ answers' = {} /\ UNCHANGED <<queue, result>>
       ELSE Finish
    /\ UNCHANGED <<clock, disposed, sends, published>>

\* onCommit resolves: the outbox has the commit.
CommitAccepted ==
    /\ stage = "publishing" /\ ~disposed
    /\ Finish
    /\ published' = published + 1
    /\ UNCHANGED <<actor, clock, arming, disposed, sends>>

\* onCommit rejects: retry later.  When the scheduler refuses, the dispatch stays
\* where it is until disposal.
CommitRefused_GivesUp ==
    /\ stage = "publishing" /\ ~disposed
    /\ Finish
    /\ UNCHANGED <<actor, clock, arming, disposed, sends, published>>
CommitRefused ==
    /\ stage = "publishing" /\ ~disposed
    /\ \/ retry' = TRUE /\ stage' = "waiting"
       \/ SchedulerFails /\ stage' = "stopped" /\ UNCHANGED retry
    /\ answers' = {}
    /\ UNCHANGED <<actor, clock, queue, result, tasks, disposed, sends, published>>

PublishRetry ==
    /\ retry /\ stage = "waiting" /\ ~disposed
    /\ retry' = FALSE /\ stage' = "publishing" /\ answers' = {}
    /\ UNCHANGED <<actor, clock, queue, result, tasks, disposed, sends, published>>

-----------------------------------------------------------------------------
(* Disposal *)

Dispose ==
    /\ ~disposed /\ disposed' = TRUE
    /\ tasks' = [k \in Timers |-> 0] /\ retry' = FALSE
    /\ answers' = {}
    /\ UNCHANGED <<actor, clock, queue, stage, result, sends, published>>

\* The dispose gate, the resumed retry wait and assertActive reject the running
\* dispatch, and each of those queued when its turn comes.
RejectDisposed_NotWaiting ==
    /\ disposed /\ queue # <<>> /\ stage # "waiting"
    /\ queue' = Tail(queue) /\ stage' = "idle" /\ result' = NoResult
    /\ answers' = {Answer(Head1, Receipt("disposed", 0))}
    /\ UNCHANGED <<actor, clock, arming, disposed, sends, published>>
RejectDisposed ==
    /\ disposed /\ queue # <<>>
    /\ queue' = Tail(queue) /\ stage' = "idle" /\ result' = NoResult
    /\ answers' = {Answer(Head1, Receipt("disposed", 0))}
    /\ UNCHANGED <<actor, clock, arming, disposed, sends, published>>

-----------------------------------------------------------------------------
Next ==
    \/ DispatchUser \/ DispatchSystem
    \/ \E k \in Timers : TimePasses(k) \/ FireTimer(k)
    \/ Apply \/ ActorFails \/ Settle
    \/ CommitAccepted \/ CommitRefused \/ PublishRetry
    \/ Dispose \/ RejectDisposed

Spec == Init /\ [][Next]_vars

\* Microtasks and armed timers run, deadlines pass, the queue is not full whenever one
\* timer fires, the clock is not invalid for ever, and the outbox does not refuse for ever.
Fairness ==
    /\ WF_vars(Apply) /\ WF_vars(Settle) /\ WF_vars(RejectDisposed)
    /\ WF_vars(CommitAccepted) /\ WF_vars(PublishRetry)
    /\ <>[][~ActorFails /\ ~CommitRefused]_vars
    /\ \A k \in Timers : WF_vars(TimePasses(k)) /\ SF_vars(FireTimer(k) /\ ~Full)

FairSpec == Spec /\ Fairness

-----------------------------------------------------------------------------
(* Properties *)

Dispatches ==
    [by : {"user"}, id : RequestIds, expects : Nat] \cup {Event}
    \cup [by : {"timer"}, key : Timers, of : Nat \ {0}]
Receipts ==
    [kind : {"committed", "rejected", "ignored", "busy", "failed", "disposed"}, revision : Nat]

\* The type of every variable, and the bound of the two memories.
TypeOK ==
    /\ revision \in Nat \ {0} /\ closed \in BOOLEAN /\ disposed \in BOOLEAN
    /\ deadline \in [Timers -> Nat] /\ tasks \in [Timers -> Nat]
    /\ clock \in [Timers -> {"running", "passed", "spent"}]
    /\ queue \in Seq(Dispatches) /\ Len(queue) <= Capacity
    /\ cache \in Seq([id : RequestIds, print : Nat, receipt : Receipts])
    /\ Len(cache) <= MaxEntries
    /\ stage \in {"idle", "applied", "publishing", "waiting", "stopped"} /\ retry \in BOOLEAN
    /\ result \in [receipt : Receipts, replayed : BOOLEAN]
    /\ sends \in 0..MaxSends /\ log \in Seq(Dispatches) /\ published \in 0..Len(log)
    /\ answers \in SUBSET [dispatch : Dispatches, receipt : Receipts]

\* Every deadline of an open room has its task, or its timer is in the queue: early,
\* stale, failed and refused timers are armed again.  No task of a deadline that is gone
\* stays armed, and none at all once the room is closed or the runtime disposed of.
TimersArmed ==
    /\ ~disposed /\ ~closed /\ stage # "applied" => \A k \in Timers :
        /\ deadline[k] # 0 => tasks[k] = deadline[k] \/ Timer(k, deadline[k]) \in Range(queue)
        /\ tasks[k] \in {0, deadline[k]}
    /\ disposed \/ (closed /\ stage # "applied") => \A k \in Timers : tasks[k] = 0

\* The next command runs only when every commit before it has been published: no commit
\* is skipped and none is published twice over.
NothingUnpublished ==
    /\ ~disposed /\ stage = "idle" => published = Len(log)
    /\ stage \in {"publishing", "waiting", "stopped"} => published = Len(log) - 1

\* A request that names a revision commits once, even when its answer has long been
\* forgotten, and a deadline is acted on once, although its timer may be queued twice.
CommitsOnce ==
    \A i, j \in DOMAIN log :
        /\ log[i] = log[j] /\ i # j =>
            \/ log[i] = Event
            \/ log[i].by = "user" /\ log[i].expects = NoRequest

\* A caller who is told that his command is committed, by an answer remembered for him too,
\* finds its commit among those the outbox has: neither a refused publication nor disposal
\* lets an answer run ahead of it.
CommittedIsPublished ==
    \A a \in answers : a.receipt.kind = "committed" =>
        \E i \in 1 .. published : log[i] = a.dispatch

\* Every deadline is acted on, or dropped or moved by another command, in a runtime
\* that is not disposed of or stopped by a scheduler that refused its publication's retry.
\* Only the reconnect deadline of a match whose resolution was requested may be left until
\* the match is over, and is acted on then if it has not been moved (presenceCommands.ts).
DeadlineMet ==
    \A k \in Timers :
        ~(/\ <>[][deadline'[k] = deadline[k]]_vars
          /\ <>[](/\ deadline[k] # 0 /\ clock[k] # "spent" /\ ~AwaitsMatch(k)
                  /\ ~disposed /\ stage # "stopped"))

\* Every dispatch is answered, those of a disposed runtime included; only a runtime
\* whose retry the scheduler refused keeps its callers waiting, until it is disposed of.
Answered ==
    \A id \in RequestIds :
        ~<>[](/\ \E d \in Range(queue) : d.by = "user" /\ d.id = id
              /\ disposed \/ stage # "stopped")

=============================================================================
