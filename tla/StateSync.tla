------------------------------ MODULE StateSync ------------------------------
(***************************************************************************)
(* How the authoritative state of a match reaches one viewer: the registry *)
(* sends a full snapshot or a delta against the baseline it keeps for the  *)
(* viewer's connection, the connection hub takes or refuses each send, and *)
(* the browser's MatchDeltaReceiver applies what fits and asks once for a  *)
(* full snapshot when a delta does not.                                    *)
(*                                                                         *)
(* Baselines are kept per viewer, so one viewer is modelled.  A public     *)
(* state is the number of changes it has seen and stands for its own hash; *)
(* a patch is the changes between two states.  Messages the receiver does  *)
(* not look at are only modelled where the hub refuses them.  The server   *)
(* leaves the hub at its default, to disconnect under backpressure; that a *)
(* connection is kept is the other answer onBackpressure may give.         *)
(*                                                                         *)
(* A definition named X_Mutation is X with a plausible bug: nothing uses   *)
(* it, it documents which property notices that bug.                       *)
(***************************************************************************)
EXTENDS Integers, Sequences

CONSTANTS
    RetainedEvents,             \* events the coordinator keeps
    MaxFrame, MaxGeneration     \* bounds of the model

ASSUME ConstantAssumption ==
    /\ RetainedEvents \in Nat \ {0}
    /\ MaxFrame \in Nat /\ MaxGeneration \in Nat

VARIABLES
    frame,      \* #serverFrame
    match,      \* what the coordinator projects: sequence, event, board
    had,        \* observes every state the match has had
    started,    \* the registry holds the match
    generation, \* session.connectionGeneration
    link,       \* the connection: session.activeConnectionId, the hub's entry, the resume
    baseline,   \* #delivery of the viewer
    open,       \* the browser has not lost the connection
    receiver,   \* MatchDeltaReceiver
    requests    \* resync requests under way

server == <<frame, match, had, started>>
client == <<open, receiver>>
vars == <<server, generation, link, baseline, client, requests>>

None == [generation |-> 0]
Fresh == [on |-> FALSE, snapshot |-> <<>>, asked |-> FALSE]

\* refused observes whether the hub has refused a send and yet kept the connection.
NewLink == [active |-> TRUE, bound |-> TRUE, restoring |-> FALSE, queue |-> <<>>,
            refused |-> FALSE]

Init ==
    /\ frame = 0 /\ match = [sequence |-> 0, event |-> 0, board |-> 0] /\ had = {match}
    /\ started = FALSE
    /\ generation = 1 /\ link = NewLink /\ baseline = None
    /\ open = TRUE /\ receiver = Fresh /\ requests = 0

-----------------------------------------------------------------------------
(* Messages of a state m *)

StartMessage == [type |-> "start"]
Full(m) == [type |-> "snapshot", state |-> m]

\* createPlayerPatches and applyPlayerPatches
Patch(from, to) == to - from
Patched(board, patch) == board + patch

\* eventsAfter: the retained events, of which a delta carries those the baseline lacks.
Retained(m) == {e \in 1..m.event : e + RetainedEvents > m.event}
EventsKept(base, m) == base.event + 1..m.event \subseteq Retained(m)

Delta(base, m) ==
    [type |-> "delta", base |-> base, sequence |-> m.sequence, event |-> m.event,
     patch |-> Patch(base.board, m.board),
     events |-> {e \in Retained(m) : e > base.event}]

\* projectMatchUpdate: a delta where one is possible, unless it is not smaller.
Updates(base, m) ==
    {Full(m)} \cup
    {d \in {Delta(base, m)} : base.sequence < m.sequence /\ EventsKept(base, m)}

-----------------------------------------------------------------------------
(* The server *)

\* ConnectionHub.send: a message is accepted, or refused, and then the connection is
\* kept (backpressure_rejected) or given up (backpressure_disconnected, send_failed).
\* What is accepted for a browser that is gone is lost.
Sends(l, message) ==
    IF l.active /\ l.bound
    THEN {[link |-> [l EXCEPT !.queue = IF open THEN Append(@, message) ELSE @], accepted |-> TRUE],
          [link |-> [l EXCEPT !.refused = TRUE], accepted |-> FALSE],
          [link |-> [l EXCEPT !.bound = FALSE], accepted |-> FALSE]}
    ELSE {[link |-> l, accepted |-> FALSE]}

\* MatchDeliveryBaselines.accept or reject, after a send of the state m.
Remembered(accepted, m) ==
    IF accepted THEN [generation |-> generation, state |-> m] ELSE None

\* startMatch
Start ==
    /\ ~started
    /\ started' = TRUE
    /\ \E s \in Sends(link, StartMessage) : link' = s.link
    /\ UNCHANGED <<frame, match, had, generation, baseline, client, requests>>

\* What a frame may do: nothing to be seen, a change, a change with a garbage event.
Frames ==
    {[match EXCEPT !.board = @ + step[1], !.event = @ + step[2]] :
        step \in {<<0, 0>>, <<1, 0>>, <<1, 1>>}}

Simulates(m) ==
    /\ started /\ frame < MaxFrame
    /\ frame' = frame + 1 /\ match' = m /\ had' = had \cup {m}
    /\ UNCHANGED <<started, generation, client, requests>>

\* advanceOneFrame between two broadcasts.
AdvanceFrame == \E m \in Frames : Simulates(m) /\ UNCHANGED <<link, baseline>>

\* What MatchDeliveryBaselines.get finds: nothing that belongs to another connection.
HasBaseline == baseline.generation = generation

\* advanceOneFrame when a snapshot is due: #broadcastSnapshot.
Broadcast ==
    \E m \in {[n EXCEPT !.sequence = @ + 1] : n \in Frames} :
        /\ Simulates(m)
        /\ \E update \in (IF HasBaseline THEN Updates(baseline.state, m) ELSE {Full(m)}) :
           \E s \in Sends(link, update) :
                link' = s.link /\ baseline' = Remembered(s.accepted, m)

\* Any other send may be refused; when it is an input acknowledgement, sendInputAck
\* drops the baseline.
OtherRefused ==
    /\ started
    /\ \E s \in Sends(link, StartMessage) : ~s.accepted /\ link' = s.link
    /\ baseline' \in {baseline, None}
    /\ UNCHANGED <<server, generation, client, requests>>

\* sendSnapshot, on the link as earlier sends have left it.
SendSnapshot(l) ==
    \E s \in Sends(l, Full(match)) :
        link' = s.link /\ baseline' = Remembered(s.accepted, match)

\* afterAuthenticated, once the room has taken the connection: resumePlayer.
Restored ==
    /\ link.restoring
    /\ LET l == [link EXCEPT !.restoring = FALSE]
       IN  IF started
           THEN \E s \in Sends(l, StartMessage) : SendSnapshot(s.link)
           ELSE link' = l /\ UNCHANGED baseline
    /\ UNCHANGED <<server, generation, client, requests>>

\* The gateway handles requests in order, from the resume on: #handleResync.  A request the
\* message limiter drops is not one of them: ResyncAnswered speaks of those it lets through.
HandleResync_Silent ==
    /\ requests > 0 /\ link.active /\ ~link.restoring
    /\ requests' = requests - 1
    /\ \E s \in Sends(link, Full(match)) :
        /\ link' = s.link
        /\ baseline' = IF s.accepted THEN Remembered(TRUE, match) ELSE baseline
    /\ UNCHANGED <<server, generation, client>>
HandleResync ==
    /\ requests > 0 /\ link.active /\ ~link.restoring
    /\ requests' = requests - 1
    /\ SendSnapshot(link)
    /\ UNCHANGED <<server, generation, client>>

\* RealtimeService.disconnect
ServerLoses ==
    /\ link.active
    /\ link' = [link EXCEPT !.active = FALSE, !.bound = FALSE, !.restoring = FALSE]
    /\ requests' = 0
    /\ UNCHANGED <<server, generation, baseline, client>>

-----------------------------------------------------------------------------
(* The browser *)

ClientLoses ==
    /\ open
    /\ open' = FALSE
    /\ link' = [link EXCEPT !.queue = <<>>]
    /\ UNCHANGED <<server, generation, baseline, receiver, requests>>

\* resumeGuest: the page goes on with what it has, or is loaded anew.
Resume ==
    /\ generation < MaxGeneration
    /\ generation' = generation + 1
    /\ link' = [NewLink EXCEPT !.restoring = TRUE]
    /\ open' = TRUE /\ receiver' \in {receiver, Fresh} /\ requests' = 0
    /\ UNCHANGED <<server, baseline>>

\* acceptSnapshot
Snapshotted(r, m) ==
    IF r.on /\ \/ r.snapshot = <<>>
               \/ m.sequence > r.snapshot[1].sequence
               \/ m.sequence = r.snapshot[1].sequence /\ r.asked
    THEN [r EXCEPT !.snapshot = <<m>>, !.asked = FALSE] ELSE r

\* reduceMatchDelta
Stale(r, d) == r.snapshot # <<>> /\ d.sequence <= r.snapshot[1].sequence
Fits_BySequence(r, d) ==
    /\ r.snapshot # <<>>
    /\ d.base.sequence = r.snapshot[1].sequence
    /\ d.events = r.snapshot[1].event + 1..d.event
Fits(r, d) ==
    /\ r.snapshot # <<>>
    /\ d.base.sequence = r.snapshot[1].sequence /\ d.base.board = r.snapshot[1].board
    /\ d.events = r.snapshot[1].event + 1..d.event

\* acceptDelta
Reduced(r, d) ==
    IF ~r.on \/ Stale(r, d) THEN r
    ELSE IF Fits(r, d)
    THEN [r EXCEPT !.asked = FALSE, !.snapshot =
            <<[sequence |-> d.sequence, event |-> d.event,
               board |-> Patched(r.snapshot[1].board, d.patch)]>>]
    ELSE [r EXCEPT !.asked = TRUE]

Received(r, message) ==
    CASE message.type = "start" -> [Fresh EXCEPT !.on = TRUE]
      [] message.type = "snapshot" -> Snapshotted(r, message.state)
      [] message.type = "delta" -> Reduced(r, message)

\* #handleMessage: a resync is requested when the receiver begins to wait for one.
Receive ==
    /\ open /\ link.queue # <<>>
    /\ link' = [link EXCEPT !.queue = Tail(@)]
    /\ receiver' = Received(receiver, Head(link.queue))
    /\ requests' = IF receiver'.asked /\ ~receiver.asked /\ link.active
                   THEN requests + 1 ELSE requests
    /\ UNCHANGED <<server, generation, baseline, open>>

-----------------------------------------------------------------------------
Next ==
    \/ Start \/ AdvanceFrame \/ Broadcast \/ OtherRefused \/ Restored \/ HandleResync
    \/ ServerLoses \/ ClientLoses \/ Resume \/ Receive

Spec == Init /\ [][Next]_vars

-----------------------------------------------------------------------------
(* Properties *)

\* What the browser shows is a state the match has had: no delta is applied to another
\* state than the one it was computed from, not even to one of the same sequence.
ShownIsReal == \A i \in DOMAIN receiver.snapshot : receiver.snapshot[i] \in had

Connected == open /\ link.active /\ link.bound /\ ~link.restoring

\* What becomes of a receiver: after each of the messages of a queue.
Becomes(r, queue) ==
    LET after[n \in 0 .. Len(queue)] == IF n = 0 THEN r ELSE Received(after[n - 1], queue[n])
    IN  after

\* A receiver that waits for a full snapshot is never left waiting: its request, or what
\* ends the wait, is under way, or the next broadcast will be full.
ResyncAnswered ==
    Connected /\ receiver.asked =>
        \/ requests > 0
        \/ ~HasBaseline
        \/ \E n \in 0 .. Len(link.queue) : ~Becomes(receiver, link.queue)[n].asked

=============================================================================
