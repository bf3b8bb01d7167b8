----------------------------- MODULE MatchInput -----------------------------
(***************************************************************************)
(* A participant's inputs from the browser to the simulation: InputOutbox  *)
(* numbers them and sends without waiting, the gateway and MatchInputQueue *)
(* take or refuse them, the match applies them frame by frame, and input   *)
(* acknowledgements and snapshots tell the browser which of its predicted  *)
(* inputs the authoritative state already contains.                        *)
(*                                                                         *)
(* The queue keeps the two participants apart, so the model follows one of *)
(* them through its connections.  An input is the number of the key press  *)
(* that made it.  Full snapshots and deltas are one kind of message here.  *)
(*                                                                         *)
(* A definition named X_Mutation is X with a plausible bug: nothing uses   *)
(* it, it documents which property notices that bug.                       *)
(***************************************************************************)
EXTENDS Naturals, Sequences, Functions, Arrays

CONSTANTS
    HistorySize,        \* dispositions the queue remembers
    FrameLag,           \* frames a client frame may lie behind the server's
    ResumeMeetsStart,   \* whether the match may start while a resume is under way
    MaxActs, MaxFrame, MaxGeneration    \* bounds of the model

ASSUME ConstantAssumption ==
    /\ HistorySize \in Nat \ {0} /\ FrameLag \in Nat
    /\ ResumeMeetsStart \in BOOLEAN
    /\ MaxActs \in Nat /\ MaxFrame \in Nat /\ MaxGeneration \in Nat

VARIABLES
    generation,         \* session.connectionGeneration
    active,             \* session.activeConnectionId is set
    restoring,          \* the connection's resume has not been answered
    toServer, toClient, \* the messages of the current connection, in order
    inputGeneration,    \* #inputGenerations of the match, 0 before it starts
    frame,              \* #serverFrame
    queue,              \* the participant's PlayerInputState and scheduled inputs
    applied,            \* the inputs the simulation has applied
    refused,            \* observes whether an input of this epoch was refused or dropped
    acts,               \* key presses so far
    outbox,             \* the browser's InputOutbox, off when there is none
    scheduledInputs,    \* #scheduledInputs of the browser: sequence and frame
    shown               \* how many applied inputs the displayed state contains

connection == <<generation, active, restoring>>
server == <<inputGeneration, frame, queue, applied, refused>>
client == <<acts, outbox, scheduledInputs, shown>>
vars == <<connection, toServer, toClient, server, client>>

NoOutbox == [on |-> FALSE, epoch |-> 0, next |-> 0, frame |-> 0, pending |-> <<>>]
FreshQueue(epoch) == [epoch |-> epoch, next |-> 0, history |-> <<>>, scheduled |-> <<>>]

Init ==
    /\ generation = 1 /\ active = TRUE /\ restoring = FALSE
    /\ toServer = <<>> /\ toClient = <<>>
    /\ inputGeneration = 0 /\ frame = 0 /\ queue = FreshQueue(0) /\ applied = <<>>
    /\ refused = FALSE
    /\ acts = 0 /\ outbox = NoOutbox /\ scheduledInputs = {} /\ shown = 0

Started == inputGeneration # 0

-----------------------------------------------------------------------------
(* The server *)

StartMessage(epoch) == [type |-> "start", epoch |-> epoch, frame |-> frame]
Snapshot == [type |-> "snapshot", frame |-> frame, applied |-> Len(applied)]
Sent(messages) == toClient' = IF active THEN toClient \o messages ELSE toClient

\* startMatch: the match begins, and those who are connected are told.
Start ==
    /\ ~Started /\ (restoring => ResumeMeetsStart)
    /\ inputGeneration' = generation
    /\ Sent(<<StartMessage(queue.epoch)>>)
    /\ UNCHANGED <<connection, toServer, frame, queue, applied, refused, client>>

\* resumePlayer: the inputs of an older connection are forgotten under a new epoch.
Reset_SameEpoch == FreshQueue(queue.epoch)
Reset == FreshQueue(queue.epoch + 1)

ResetOnResume_Never == queue
ResetOnResume == IF inputGeneration = generation THEN queue ELSE Reset

\* afterAuthenticated, once the room has taken the connection: a match that runs is
\* started over for the player.
Restored ==
    /\ restoring
    /\ restoring' = FALSE
    /\ IF Started
       THEN /\ queue' = ResetOnResume
            /\ inputGeneration' = generation
            /\ refused' = (refused /\ queue'.epoch = queue.epoch)
            /\ Sent(<<StartMessage(queue'.epoch), Snapshot>>)
       ELSE UNCHANGED <<queue, inputGeneration, refused, toClient>>
    /\ UNCHANGED <<generation, active, toServer, frame, applied, client>>

\* #remember, for one entry or one after the other for all that are drained: an entry
\* goes to the end, and the oldest ones are forgotten.
Remember(history, entries) ==
    LET numbers == {entries[i].sequence : i \in DOMAIN entries}
        all == Keep(history, {e \in Range(history) : e.sequence \notin numbers}) \o entries
    IN  IF Len(all) > HistorySize THEN SubSeq(all, Len(all) - HistorySize + 1, Len(all)) ELSE all

Disposition(sequence, status, serverFrame) ==
    [type |-> "ack", sequence |-> sequence, status |-> status, frame |-> serverFrame]
Rejected(sequence) == Disposition(sequence, "rejected", 0)

\* The answer to an input that is not scheduled: a number that was used has its
\* disposition recalled, if that is still remembered.
Answer(input) ==
    LET known == Keep(queue.history, {e \in Range(queue.history) : e.sequence = input.sequence})
    IN  IF input.epoch = queue.epoch /\ known # <<>> THEN known[1] ELSE Rejected(input.sequence)

\* MatchInputQueue.enqueue, whose answer enqueueInput acknowledges.
Taken(input) ==
    /\ input.epoch = queue.epoch /\ input.sequence = queue.next
    /\ input.clientFrame + FrameLag >= frame

Schedule(input) ==
    LET disposition == Disposition(input.sequence, "scheduled", frame + 1)
    IN  /\ queue' = [queue EXCEPT
            !.next = @ + 1,
            !.scheduled = Append(@, [sequence |-> input.sequence, epoch |-> input.epoch,
                                     frame |-> frame + 1, act |-> input.act]),
            !.history = Remember(@, <<disposition>>)]
        /\ Sent(<<disposition>>)

Enqueue(input) ==
    \/ Taken(input) /\ Schedule(input) /\ UNCHANGED refused
    \/ /\ ~Taken(input)
       /\ Sent(<<Answer(input)>>)
       /\ refused' = TRUE /\ UNCHANGED queue

\* The rate limiter answers with an error instead.
Drop == refused' = TRUE /\ UNCHANGED <<queue, toClient>>

\* The gateway handles the messages of a connection one after the other, from the
\* resume on.
ReceiveInput ==
    /\ active /\ ~restoring /\ toServer # <<>>
    /\ toServer' = Tail(toServer)
    /\ Started
    /\ Enqueue(Head(toServer)) \/ Drop
    /\ UNCHANGED <<connection, inputGeneration, frame, applied, client>>

\* advanceOneFrame: the inputs that are due are drained, in the order of their numbers,
\* in which they were scheduled, and applied; every so often a snapshot is sent.
Due == {input \in Range(queue.scheduled) : input.frame <= frame'}

Advance ==
    /\ Started /\ frame < MaxFrame
    /\ frame' = frame + 1
    /\ LET due == Keep(queue.scheduled, {input \in Due : input.epoch = queue.epoch})
           settled == [i \in DOMAIN due |-> Disposition(due[i].sequence, "applied", due[i].frame)]
       IN  /\ applied' = applied \o due
           /\ queue' = [queue EXCEPT
                !.scheduled = Keep(@, Range(@) \ Due),
                !.history = Remember(@, settled)]
    /\ Sent(<<Snapshot'>>) \/ UNCHANGED toClient
    /\ UNCHANGED <<connection, toServer, inputGeneration, refused, client>>

\* RealtimeService.disconnect
ServerLoses ==
    /\ active
    /\ active' = FALSE /\ restoring' = FALSE
    /\ toServer' = <<>>
    /\ UNCHANGED <<generation, toClient, server, client>>

-----------------------------------------------------------------------------
(* The browser *)

\* An outbox is dropped with its connection, and made again by match.start.
ClientLoses ==
    /\ outbox.on
    /\ outbox' = NoOutbox
    /\ toClient' = <<>>
    /\ UNCHANGED <<connection, toServer, server, acts, scheduledInputs, shown>>

\* A new connection resumes the session: after a loss, or beside the old one in a page
\* that was loaded anew.
Resume ==
    /\ generation < MaxGeneration
    /\ generation' = generation + 1 /\ active' = TRUE /\ restoring' = TRUE
    /\ toServer' = <<>> /\ toClient' = <<>>
    /\ outbox' = NoOutbox
    /\ UNCHANGED <<server, acts, scheduledInputs, shown>>

\* InputOutbox.enqueue: predict, number, keep and send, whatever is not acknowledged yet.
Press ==
    /\ outbox.on /\ acts < MaxActs
    /\ acts' = acts + 1
    /\ outbox' = [outbox EXCEPT
        !.next = @ + 1,
        !.pending = Append(@, [sequence |-> outbox.next, act |-> acts'])]
    /\ toServer' = IF active
                   THEN Append(toServer, [epoch |-> outbox.epoch, sequence |-> outbox.next,
                                          clientFrame |-> outbox.frame, act |-> acts'])
                   ELSE toServer
    /\ UNCHANGED <<connection, toClient, server, scheduledInputs, shown>>

\* InputOutbox.acknowledge
Acknowledge(pending, sequence) == Keep(pending, {p \in Range(pending) : p.sequence > sequence})

\* #startMatch
ReceiveStart(message) ==
    /\ outbox' = [NoOutbox EXCEPT !.on = TRUE, !.epoch = message.epoch, !.frame = message.frame]
    /\ scheduledInputs' = {} /\ shown' = 0

\* #acceptAcknowledgement
ReceiveAck_Forgets(message) ==
    /\ UNCHANGED <<scheduledInputs, shown>>
    /\ outbox' = [outbox EXCEPT !.pending = Acknowledge(@, message.sequence)]
ReceiveAck(message) ==
    /\ UNCHANGED shown
    /\ IF message.status = "scheduled"
       THEN /\ scheduledInputs' =
                {s \in scheduledInputs : s[1] # message.sequence}
                    \cup {<<message.sequence, message.frame>>}
            /\ UNCHANGED outbox
       ELSE /\ outbox' = [outbox EXCEPT !.pending = Acknowledge(@, message.sequence)]
            /\ UNCHANGED scheduledInputs

\* #acceptSnapshot: what the snapshot contains is no longer predicted.
ReceiveSnapshot(message) ==
    LET settled == {s \in scheduledInputs : s[2] <= message.frame}
    IN  /\ outbox' = [outbox EXCEPT
            !.frame = IF @ < message.frame THEN message.frame ELSE @,
            !.pending = Keep(@, {p \in Range(@) : \A s \in settled : p.sequence > s[1]})]
        /\ scheduledInputs' = scheduledInputs \ settled
        /\ shown' = message.applied

Receive ==
    /\ toClient # <<>>
    /\ toClient' = Tail(toClient)
    /\ LET message == Head(toClient)
       IN  \/ message.type = "start" /\ ReceiveStart(message)
           \/ message.type = "ack" /\ ReceiveAck(message)
           \/ message.type = "snapshot" /\ ReceiveSnapshot(message)
    /\ UNCHANGED <<connection, toServer, server, acts>>

-----------------------------------------------------------------------------
Next ==
    \/ Start \/ Restored \/ ReceiveInput \/ Advance \/ ServerLoses
    \/ ClientLoses \/ Resume \/ Press \/ Receive

Spec == Init /\ [][Next]_vars

-----------------------------------------------------------------------------
(* Properties *)

Shown == {applied[i].act : i \in 1..shown}
Predicted == {outbox.pending[i].act : i \in DOMAIN outbox.pending}

\* The simulation applies a player's inputs in the order of the key presses and leaves
\* no number of an epoch out: an input that was scheduled before a resume is not applied
\* among, or after, those that follow it.
AppliedInOrder ==
    \A i, j \in DOMAIN applied : i < j =>
        /\ applied[i].act < applied[j].act
        /\ applied[i].epoch <= applied[j].epoch
        /\ applied[i].epoch = applied[j].epoch =>
               applied[j].sequence = applied[i].sequence + (j - i)

\* What the browser displays contains every key press of this connection exactly once:
\* in the authoritative state, or predicted on top of it.  The prediction neither repeats
\* what a snapshot contains nor, unless an input was refused, drops what it does not
\* contain yet.
PressShownOnce ==
    outbox.on =>
        /\ Shown \cap Predicted = {}
        /\ ~refused => (acts - outbox.next + 1)..acts \subseteq Shown \cup Predicted

\* Pipelining never runs out of step by itself: until one input is refused, those under
\* way are numbered on from the one the queue expects, so that none of them is refused as
\* a gap or taken for a duplicate.
InStep ==
    active /\ outbox.on /\ ~refused =>
        \A i \in DOMAIN toServer :
            /\ toServer[i].epoch = queue.epoch
            /\ toServer[i].sequence = queue.next + i - 1

\* Epoch and sequence name an input: no two inputs that have reached the queue, or are on
\* their way to it, share both.
SequenceNamesInput ==
    \A i \in DOMAIN toServer :
        LET m == toServer[i]
            Same(s) == \E j \in DOMAIN s : /\ s[j].epoch = m.epoch /\ s[j].sequence = m.sequence
                                           /\ s[j].act # m.act
        IN  ~Same(applied) /\ ~Same(queue.scheduled) /\ ~Same(toServer)

=============================================================================
