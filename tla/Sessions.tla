----------------------------- MODULE Sessions ------------------------------
(***************************************************************************)
(* One guest, his session, the connections that succeed each other under   *)
(* it, and the rooms he enters: the gateway that admits a socket, the      *)
(* session store, the connection hub, the room messages and the loops that *)
(* tell a room who has gone and who is back.                               *)
(*                                                                         *)
(* A room is reduced to this guest's membership of it (module Room has the *)
(* rest) and to the two queues in front of it: the commands its runtime    *)
(* has not applied (module RoomRuntime) and the removals its outbox has    *)
(* not delivered (module CommitOutbox).  Other players appear as what they *)
(* do to this guest: kick him, close the room, fill its queue.             *)
(*                                                                         *)
(* Every await is a program counter.  The serial lane of a connection runs *)
(* one message at a time, and the connection's close runs beside it: two   *)
(* processes for each connection.                                          *)
(*                                                                         *)
(* A definition named X_Mutation is X with a plausible bug: nothing uses   *)
(* it, it documents which property notices that bug.                       *)
(***************************************************************************)
EXTENDS Naturals, Sequences, FiniteSets

CONSTANTS
    Conns,              \* connection ids, numbered in the order they are attached
    Rooms,              \* rooms that may exist
    None,
    Outdated,           \* a resume token from before the server's last start
    MaxConnections,     \* WebSocketGateway: connections and upgrades at a time
    QueueCapacity,      \* RoomRuntime: commands in its queue
    MaxAsks,            \* bound of the model: room messages the guest sends
    Careful             \* whether a new request waits for what went before

ASSUME SessionsAssumption ==
    /\ Conns \subseteq Nat \ {0}
    /\ None \notin Conns \cup Rooms \cup Nat /\ Outdated \notin Nat \cup {None}
    /\ \A c \in Conns, r \in Rooms \cup {None} : None # [conn |-> c, room |-> r]
    /\ {MaxConnections, QueueCapacity, MaxAsks} \subseteq Nat \ {0}
    /\ Careful \in BOOLEAN

Procs == Conns \X {"lane", "close"}

VARIABLES
    sock,               \* the life of each connection
    leaving,            \* connections whose socket the hub has asked to close
    pendingUpgrades,
    addressCount,       \* connections and upgrades counted for the one address
    gen,                \* connectionGeneration of an authenticated connection
    session,            \* the stored session; .gen also names the valid resume token
    token,              \* the resume token in the browser's storage
    hub,                \* the hub's ActiveConnection
    phase,              \* of each room: unborn, open, closed, gone
    member,             \* this guest's RoomMember in each room
    queue,              \* commands each runtime has accepted and not applied
    outbox,             \* removals each room has committed and not delivered
    proc,               \* where each process awaits
    asked,              \* room messages the guest has sent
    cut,                \* history: connections that closed before a room had answered their
                        \* return
    lapsed              \* history: rooms whose expiry was found by his join

gateway == <<sock, leaving, pendingUpgrades, addressCount, asked, cut>>
identity == <<gen, session, token, hub>>
rooms == <<phase, member, queue, outbox, lapsed>>
vars == <<gateway, identity, rooms, proc>>

NoMember == [is |-> "absent", conn |-> None, epoch |-> 0]
Up(c, e) == [is |-> "up", conn |-> c, epoch |-> e]
Idle == [at |-> "idle", room |-> None, reserved |-> FALSE, for |-> None, result |-> "none"]

Init ==
    /\ sock = [c \in Conns |-> "absent"]
    /\ leaving = {}
    /\ pendingUpgrades = 0 /\ addressCount = 0
    /\ gen = [c \in Conns |-> None]
    /\ session = [live |-> FALSE, room |-> None, active |-> None, gen |-> 0]
    /\ token \in {None, Outdated}
    /\ hub = None
    /\ phase \in [Rooms -> {"unborn", "open"}]        \* open: by another player
    /\ member = [r \in Rooms |-> NoMember]
    /\ queue = [r \in Rooms |-> <<>>]
    /\ outbox = [r \in Rooms |-> <<>>]
    /\ proc = [p \in Procs |-> Idle]
    /\ asked = 0
    /\ cut = {} /\ lapsed = {}

-----------------------------------------------------------------------------
(* sessionStore.ts and connectionHub.ts *)

\* isCurrentConnection: the session's connection, at its generation.
Current(c) == session.live /\ session.active = c /\ session.gen = gen[c]

\* sameIdentity, for the connection that was authenticated as c.
HubHolds(c) == hub # None /\ hub.conn = c
SetRoom(h, c, r) == IF h # None /\ h.conn = c THEN [h EXCEPT !.room = r] ELSE h

\* bindRoom refuses a session that is bound to another room.
BindsTo(r) == session.live /\ session.room \in {None, r}

Has(r) == member[r].is # "absent"
Registered(r) == phase[r] \in {"open", "closed"}

-----------------------------------------------------------------------------
(* roomManager.ts: what a room is asked *)

Accepts(r) == Len(queue[r]) < QueueCapacity

\* A command is queued with the process that awaits its receipt.
Dispatch(r, p, cmd) == queue' = [queue EXCEPT ![r] = Append(@, [cmd |-> cmd, by |-> p])]

\* The await of p is over, or p goes on to another.
Await(p, at) == proc' = [proc EXCEPT ![p].at = at]
Finish(p) == proc' = [proc EXCEPT ![p] = Idle]

ShouldRestore(c, r) == Current(c) /\ session.room = r /\ Has(r)

\* connection.replace for a member who is up, connection.resumed for one who is not,
\* composed on the snapshot the manager reads now.
Restoration(c, r) == [type |-> IF member[r].is = "up" THEN "replace" ELSE "resumed",
                      conn |-> c, old |-> member[r].conn, epoch |-> member[r].epoch]

-----------------------------------------------------------------------------
(* webSocketGateway.ts: admission *)

Upgrade(c) ==
    /\ sock[c] = "absent" /\ \A d \in Conns : d < c => sock[d] # "absent"
    /\ addressCount < MaxConnections
    /\ sock' = [sock EXCEPT ![c] = "upgrading"]
    /\ pendingUpgrades' = pendingUpgrades + 1 /\ addressCount' = addressCount + 1
    /\ UNCHANGED <<leaving, asked, cut, identity, rooms, proc>>

\* The TCP socket closes before the handshake is over.
UpgradeAborted(c) ==
    /\ sock[c] = "upgrading"
    /\ sock' = [sock EXCEPT ![c] = "closed"]
    /\ pendingUpgrades' = pendingUpgrades - 1 /\ addressCount' = addressCount - 1
    /\ UNCHANGED <<leaving, asked, cut, identity, rooms, proc>>

Attach(c) ==
    /\ sock[c] = "upgrading"
    /\ sock' = [sock EXCEPT ![c] = "fresh"]
    /\ pendingUpgrades' = pendingUpgrades - 1
    /\ UNCHANGED <<leaving, addressCount, asked, cut, identity, rooms, proc>>

-----------------------------------------------------------------------------
(* gatewayConnection.ts and realtimeService.ts: who a connection is *)

\* auth.ok may not arrive: the browser then still holds the token it had.
Authenticated(c, s, arrives) ==
    /\ sock' = [sock EXCEPT ![c] = "open"]
    /\ gen' = [gen EXCEPT ![c] = s.gen]
    /\ session' = s
    /\ hub' = [conn |-> c, room |-> s.room]
    /\ token' = IF arrives THEN s.gen ELSE token

\* hello without a token; the first guest authentication creates the session.
HelloAsGuest(c) ==
    /\ sock[c] = "fresh" /\ token = None
    /\ sock' = [sock EXCEPT ![c] = "nameless"]
    /\ UNCHANGED <<leaving, pendingUpgrades, addressCount, asked, cut, identity, rooms, proc>>

CreateGuest(c, arrives) ==
    /\ sock[c] = "nameless" /\ ~session.live
    /\ Authenticated(c, [live |-> TRUE, room |-> None, active |-> c, gen |-> 0], arrives)
    /\ UNCHANGED <<leaving, pendingUpgrades, addressCount, asked, cut, rooms, proc>>

\* hello with the current token: the token is rotated, the hub closes the connection it
\* replaces, and the first attempt to tell the room, if there is one, is made at once: it
\* meets a full queue (of other players' commands too) or is queued.
Resumed(c) == [session EXCEPT !.active = c, !.gen = @ + 1]

ResumeGuest(c, arrives) ==
    LET r == session.room
        p == <<c, "lane">>
        waits == [Idle EXCEPT !.room = r, !.for = c]
        bound == IF r = None \/ Registered(r) THEN Resumed(c)
                 ELSE [Resumed(c) EXCEPT !.room = None]
    IN
    /\ sock[c] = "fresh" /\ token # None /\ session.live /\ token = session.gen
    /\ Authenticated(c, bound, arrives)
    /\ leaving' = IF hub = None THEN leaving ELSE leaving \cup {hub.conn}
    /\ IF bound.room # None /\ Has(bound.room)
       THEN \/ /\ Accepts(r) /\ Dispatch(r, p, Restoration(c, r))
               /\ proc' = [proc EXCEPT ![p] = [waits EXCEPT !.at = "resuming"]]
            \/ /\ proc' = [proc EXCEPT ![p] = [waits EXCEPT !.at = "resume"]]
               /\ UNCHANGED queue
       ELSE UNCHANGED <<queue, proc>>
    /\ UNCHANGED <<pendingUpgrades, addressCount, asked, cut, phase, member, outbox, lapsed>>

\* The store does not know the token: the browser discards what it had saved.
ResumeRefused(c) ==
    /\ sock[c] = "fresh" /\ token # None /\ (session.live => token # session.gen)
    /\ sock' = [sock EXCEPT ![c] = "nameless"]
    /\ token' = None
    /\ UNCHANGED <<leaving, pendingUpgrades, addressCount, asked, cut, gen, session, hub, rooms,
                   proc>>

\* beginClose and beginTerminate: a timeout, an invalid or surplus message, no pong.
GatewayCloses(c) ==
    /\ sock[c] \in {"fresh", "nameless", "open"}
    /\ sock' = [sock EXCEPT ![c] = "terminal"]
    /\ UNCHANGED <<leaving, pendingUpgrades, addressCount, asked, cut, identity, rooms, proc>>

\* A send meets backpressure or fails: the hub lets the connection go and closes it.
HubDetaches(c) ==
    /\ HubHolds(c) /\ sock[c] \in {"open", "terminal"}
    /\ hub' = None
    /\ leaving' = leaving \cup {c}
    /\ UNCHANGED <<sock, pendingUpgrades, addressCount, asked, cut, gen, session, token, rooms,
                   proc>>

\* releaseConnection: only the session's own connection, at its generation, is released.
Released_AnyGeneration(c) == session.live /\ session.active # None
Released(c) == Current(c)

\* #dispose, then disconnect up to its first await.
SocketCloses(c) ==
    /\ sock[c] \in {"fresh", "nameless", "open", "terminal"}
    /\ sock' = [sock EXCEPT ![c] = "closed"]
    /\ cut' = IF proc[<<c, "lane">>].at \in {"resume", "resuming"} THEN cut \cup {c} ELSE cut
    /\ leaving' = leaving \ {c}
    /\ addressCount' = addressCount - 1
    /\ IF gen[c] # None /\ Released(c)
       THEN /\ session' = [session EXCEPT !.active = None]
            /\ hub' = IF HubHolds(c) THEN None ELSE hub
            /\ proc' = [proc EXCEPT ![<<c, "close">>] =
                            IF session.room = None THEN Idle
                            ELSE [Idle EXCEPT !.at = "lose", !.room = session.room]]
       ELSE UNCHANGED <<session, hub, proc>>
    /\ UNCHANGED <<pendingUpgrades, asked, gen, token, rooms>>

-----------------------------------------------------------------------------
(* roomConnectionDispatchRetrier.ts and roomManager.ts: telling the room *)

ShouldMarkLost(c, r) ==
    /\ session.live /\ session.room = r /\ session.gen = gen[c]
    /\ session.active \in {None, c}
    /\ member[r].is = "up" /\ member[r].conn = c

Loss(c, r) == [type |-> "lost", conn |-> c, old |-> member[r].conn, epoch |-> member[r].epoch]

\* releaseJoinReservation: unbind the session from r, and the hub's connection with it.
Release(r) ==
    IF session.live /\ session.room = r
    THEN /\ session' = [session EXCEPT !.room = None]
         /\ hub' = SetRoom(hub, session.active, None)
    ELSE UNCHANGED <<session, hub>>

\* One turn of connectionLost's loop; a queue that is full, of other players' commands too,
\* is asked again after a wait.
TryLose_GivesUp(p) ==
    LET c == p[1] r == proc[p].room IN
    /\ proc[p].at = "lose"
    /\ \/ ShouldMarkLost(c, r) /\ Accepts(r) /\ Dispatch(r, p, Loss(c, r)) /\ Await(p, "losing")
       \/ Finish(p) /\ UNCHANGED queue
    /\ UNCHANGED <<gateway, identity, phase, member, outbox, lapsed>>
TryLose(p) ==
    LET c == p[1] r == proc[p].room IN
    /\ proc[p].at = "lose"
    /\ IF ShouldMarkLost(c, r)
       THEN Accepts(r) /\ Dispatch(r, p, Loss(c, r)) /\ Await(p, "losing")
       ELSE Finish(p) /\ UNCHANGED queue
    /\ UNCHANGED <<gateway, identity, phase, member, outbox, lapsed>>

LoseAnswered(p) ==
    /\ proc[p].at = "losing" /\ proc[p].result # "none"
    /\ Finish(p)
    /\ UNCHANGED <<gateway, identity, rooms>>

Awaiting(after) == IF after = "resume" THEN "resuming" ELSE "rejoining"

\* One turn of restoreConnection's loop, for afterAuthenticated ("resume") or for a join
\* that found another connection in its place ("rejoin").
TryRestore(p, after) ==
    LET c == proc[p].for r == proc[p].room IN
    /\ proc[p].at = after
    /\ UNCHANGED <<gateway, gen, token, phase, member, outbox, lapsed>>
    /\ UNCHANGED <<session, hub>>
    /\ IF ShouldRestore(c, r) /\ member[r] # Up(c, member[r].epoch)
       THEN Accepts(r) /\ Dispatch(r, p, Restoration(c, r)) /\ Await(p, Awaiting(after))
       ELSE Finish(p) /\ UNCHANGED queue

\* "ignored" means the snapshot was overtaken: compose the command again.
Retries_Never(result) == FALSE
Retries(result) == result = "ignored"

RestoreAnswered(p, after) ==
    LET c == proc[p].for r == proc[p].room result == proc[p].result IN
    /\ proc[p].at = Awaiting(after) /\ result # "none"
    /\ UNCHANGED <<gateway, gen, token, rooms>>
    /\ IF Retries(result)
       THEN /\ proc' = [proc EXCEPT ![p].at = after, ![p].result = "none"]
            /\ UNCHANGED <<session, hub>>
       ELSE IF result = "rejected" /\ after = "resume" /\ Current(c)
       THEN Release(r) /\ Finish(p)
       ELSE /\ IF result = "rejected" /\ after = "rejoin"
               THEN proc' = [proc EXCEPT ![p] = [Idle EXCEPT !.at = "lose", !.room = r]]
               ELSE Finish(p)
            /\ UNCHANGED <<session, hub>>

-----------------------------------------------------------------------------
(* roomMessageService.ts and roomMutationHandler.ts: one message of a lane *)

Pending == \E p \in Procs : proc[p].at # "idle"
Unremoved == \E r \in Rooms : outbox[r] # <<>>

\* The connection's lane takes its next message; a message of a connection that is no
\* longer the session's is dropped, which changes nothing.
Asks(c) ==
    /\ sock[c] = "open" /\ proc[<<c, "lane">>] = Idle /\ Current(c)
    /\ asked < MaxAsks
    /\ Careful => ~Pending /\ ~Unremoved
    /\ asked' = asked + 1

\* The session is bound before the room is asked; only a binding made here is undone.
Reserves(r) == session.room = None

\* A full queue refuses at once, and the handler hears of it as of any failure.
Send(c, r, cmd, at, reserved) ==
    LET p == <<c, "lane">>
        waits == [Idle EXCEPT !.at = at, !.room = r, !.reserved = reserved]
    IN  \/ /\ Accepts(r)
           /\ Dispatch(r, p, cmd)
           /\ proc' = [proc EXCEPT ![p] = waits]
        \/ /\ proc' = [proc EXCEPT ![p] = [waits EXCEPT !.result = "failed"]]
           /\ UNCHANGED queue

Join(c, r) ==
    /\ Asks(c)
    /\ Registered(r) /\ BindsTo(r)
    /\ Careful => session.room = None /\ ~Has(r)
    /\ session' = [session EXCEPT !.room = r]
    /\ Send(c, r, [type |-> "join", conn |-> c, old |-> None, epoch |-> 0], "joining",
            Reserves(r))
    /\ UNCHANGED <<sock, leaving, pendingUpgrades, addressCount, cut, gen, token, hub, phase,
                   member, outbox, lapsed>>

\* bindCommittedJoin: bind the connection that asked, or else the one that replaced it
\* meanwhile; if there is none the room is told that the joiner has gone.
BindJoin(p, r) ==
    LET c == p[1] IN
    IF HubHolds(c)
    THEN hub' = SetRoom(hub, c, r) /\ Finish(p)
    ELSE IF session.live /\ session.room = r /\ session.active # None /\ HubHolds(session.active)
    THEN /\ hub' = SetRoom(hub, session.active, r)
         /\ proc' = [proc EXCEPT ![p] =
                        [Idle EXCEPT !.at = "rejoin", !.room = r, !.for = session.active]]
    ELSE /\ UNCHANGED hub
         /\ proc' = [proc EXCEPT ![p] = [Idle EXCEPT !.at = "lose", !.room = r]]

JoinAnswered(p) ==
    LET r == proc[p].room IN
    /\ proc[p].at = "joining" /\ proc[p].result # "none"
    /\ IF proc[p].result = "committed"
       THEN BindJoin(p, r) /\ UNCHANGED session
       ELSE /\ Finish(p)
            /\ IF proc[p].reserved THEN Release(r) ELSE UNCHANGED <<session, hub>>
    /\ UNCHANGED <<gateway, gen, token, rooms>>

Leave(c, r) ==
    /\ Asks(c)
    /\ session.room \in {None, r} /\ phase[r] # "unborn"
    /\ IF Registered(r)
       THEN /\ Send(c, r, [type |-> "leave", conn |-> c, old |-> None, epoch |-> 0],
                    "leaving", FALSE)
            /\ UNCHANGED <<session, hub>>
       ELSE Release(r) /\ UNCHANGED <<queue, proc>>
    /\ UNCHANGED <<sock, leaving, pendingUpgrades, addressCount, cut, gen, token, phase,
                   member, outbox, lapsed>>

\* A failure other than a full queue escapes the handler: the gateway closes.
LeaveAnswered(p) ==
    LET r == proc[p].room IN
    /\ proc[p].at = "leaving" /\ proc[p].result # "none"
    /\ Finish(p)
    /\ IF proc[p].result = "committed" THEN Release(r) ELSE UNCHANGED <<session, hub>>
    /\ sock' = IF proc[p].result = "failed" /\ ~Registered(r) /\ sock[p[1]] # "closed"
               THEN [sock EXCEPT ![p[1]] = "terminal"] ELSE sock
    /\ UNCHANGED <<leaving, pendingUpgrades, addressCount, asked, cut, gen, token, rooms>>

\* A room is created in one go; when the hub has let the connection go, it is rolled
\* back and the client is told to try again.
Create(c, r) ==
    /\ Asks(c)
    /\ phase[r] = "unborn" /\ session.room = None
    /\ HubHolds(c)
    /\ phase' = [phase EXCEPT ![r] = "open"]
    /\ member' = [member EXCEPT ![r] = Up(c, 0)]
    /\ session' = [session EXCEPT !.room = r]
    /\ hub' = SetRoom(hub, c, r)
    /\ UNCHANGED <<sock, leaving, pendingUpgrades, addressCount, cut, gen, token, queue,
                   outbox, lapsed, proc>>

-----------------------------------------------------------------------------
(* The rooms: roomRegistry.ts, roomActor.ts and the effects that unbind *)

\* What the room answers and what becomes of the membership.  An actor ignores a command
\* whose principal is no longer current, a handler one composed on an old snapshot; other
\* rules of the room may refuse a join, a leave or a return.
Effect(r, cmd) ==
    LET m == member[r]
        same == m.epoch = cmd.epoch
        principal == cmd.type \in {"join", "leave"} IN
    IF principal /\ ~Current(cmd.conn) THEN {<<"ignored", m>>}
    ELSE CASE cmd.type = "join" ->
                {<<"rejected", m>>} \cup
                (IF phase[r] = "open" /\ m = NoMember THEN {<<"committed", Up(cmd.conn, 0)>>}
                                                       ELSE {})
           [] cmd.type = "leave" ->
                {<<"rejected", m>>} \cup
                (IF m # NoMember THEN {<<"committed", NoMember>>} ELSE {})
           [] cmd.type = "lost" ->
                IF m = Up(cmd.conn, cmd.epoch) THEN {<<"committed", [m EXCEPT !.is = "down"]>>}
                                               ELSE {<<"ignored", m>>}
           [] cmd.type = "replace" ->
                IF m = Up(cmd.old, cmd.epoch) THEN {<<"committed", Up(cmd.conn, m.epoch + 1)>>}
                                              ELSE {<<"ignored", m>>}
           [] cmd.type = "resumed" ->
                IF m.is = "down" /\ same THEN {<<"committed", Up(cmd.conn, m.epoch + 1)>>}
                ELSE IF m.is = "overdue" /\ same THEN {<<"rejected", m>>}
                ELSE {<<"ignored", m>>}

Apply(r) ==
    /\ queue[r] # <<>>
    /\ \E e \in Effect(r, Head(queue[r]).cmd) :
            /\ member' = [member EXCEPT ![r] = e[2]]
            /\ proc' = [proc EXCEPT ![Head(queue[r]).by].result = e[1]]
    /\ queue' = [queue EXCEPT ![r] = Tail(@)]
    /\ UNCHANGED <<gateway, identity, phase, outbox, lapsed>>

\* transitionRoom: the first command after the room's expiry closes it, and is committed: a
\* join too, whose guest is bound to a room that he never entered.
ApplyExpired(r) ==
    /\ queue[r] # <<>> /\ phase[r] = "open"
    /\ lapsed' = IF Head(queue[r]).cmd.type = "join" THEN lapsed \cup {r} ELSE lapsed
    /\ phase' = [phase EXCEPT ![r] = "closed"]
    /\ outbox' = [outbox EXCEPT ![r] = Append(@, [type |-> "closed", clears |-> Has(r)])]
    /\ member' = [member EXCEPT ![r] = NoMember]
    /\ proc' = [proc EXCEPT ![Head(queue[r]).by].result = "committed"]
    /\ queue' = [queue EXCEPT ![r] = Tail(@)]
    /\ UNCHANGED <<gateway, identity>>

\* The host kicks the guest, or his reconnect timer fires.
RemoveMember(r) ==
    /\ phase[r] = "open" /\ Has(r)
    /\ member' = [member EXCEPT ![r] = NoMember]
    /\ outbox' = [outbox EXCEPT ![r] = Append(@, [type |-> "removed", clears |-> TRUE])]
    /\ UNCHANGED <<gateway, identity, phase, queue, lapsed, proc>>

\* His reconnect deadline passes; the timer has not fired yet.
DeadlinePasses(r) ==
    /\ member[r].is = "down"
    /\ member' = [member EXCEPT ![r].is = "overdue"]
    /\ UNCHANGED <<gateway, identity, phase, queue, outbox, lapsed, proc>>

CloseRoom(r) ==
    /\ phase[r] = "open"
    /\ phase' = [phase EXCEPT ![r] = "closed"]
    /\ member' = [member EXCEPT ![r] = NoMember]
    /\ outbox' = [outbox EXCEPT ![r] = Append(@, [type |-> "closed", clears |-> Has(r)])]
    /\ UNCHANGED <<gateway, identity, queue, lapsed, proc>>

\* clearMemberOnce unbinds the session if it is bound to r, and the hub's connection
\* whatever it is bound to.
ClearMember_KeepsSession(r) == UNCHANGED session /\ hub' = SetRoom(hub, session.active, None)
ClearMember(r) ==
    IF ~session.live THEN UNCHANGED <<session, hub>>
    ELSE /\ session' = IF session.room = r THEN [session EXCEPT !.room = None] ELSE session
         /\ hub' = SetRoom(hub, session.active, None)

\* closeRoom removes the room last: its runtime is disposed of, and what is still in its
\* queue fails.
Deliver(r) ==
    /\ outbox[r] # <<>>
    /\ LET effect == Head(outbox[r]) IN
       /\ IF effect.clears THEN ClearMember(r) ELSE UNCHANGED <<session, hub>>
       /\ IF effect.type = "closed"
          THEN /\ phase' = [phase EXCEPT ![r] = "gone"]
               /\ queue' = [queue EXCEPT ![r] = <<>>]
               /\ proc' = [p \in Procs |->
                    IF \E i \in DOMAIN queue[r] : queue[r][i].by = p
                    THEN [proc[p] EXCEPT !.result = "failed"] ELSE proc[p]]
          ELSE UNCHANGED <<phase, queue, proc>>
    /\ outbox' = [outbox EXCEPT ![r] = Tail(@)]
    /\ UNCHANGED <<gateway, gen, token, member, lapsed>>

-----------------------------------------------------------------------------
Gateway(c) ==
    \/ Upgrade(c) \/ UpgradeAborted(c) \/ Attach(c) \/ HelloAsGuest(c)
    \/ \E arrives \in BOOLEAN : CreateGuest(c, arrives) \/ ResumeGuest(c, arrives)
    \/ ResumeRefused(c) \/ GatewayCloses(c) \/ HubDetaches(c) \/ SocketCloses(c)

Message(c) == \E r \in Rooms : Join(c, r) \/ Leave(c, r) \/ Create(c, r)

Goes(p) ==
    \/ TryLose(p) \/ LoseAnswered(p)
    \/ \E after \in {"resume", "rejoin"} : TryRestore(p, after) \/ RestoreAnswered(p, after)
    \/ JoinAnswered(p) \/ LeaveAnswered(p)

RoomActs(r) ==
    \/ Apply(r) \/ ApplyExpired(r) \/ RemoveMember(r) \/ DeadlinePasses(r) \/ CloseRoom(r)
    \/ Deliver(r)

Next ==
    \/ \E c \in Conns : Gateway(c) \/ Message(c)
    \/ \E p \in Procs : Goes(p)
    \/ \E r \in Rooms : RoomActs(r)

Spec == Init /\ [][Next]_vars

\* Awaited continuations run, the loops' waits end, a room applies its queue and delivers
\* its effects, and a socket that was asked to close does.
FairSpec ==
    /\ Spec
    /\ \A p \in Procs : WF_vars(Goes(p))
    /\ \A r \in Rooms : WF_vars(Apply(r)) /\ WF_vars(Deliver(r))
    /\ \A c \in Conns : WF_vars(SocketCloses(c) /\ (c \in leaving \/ sock[c] = "terminal"))

-----------------------------------------------------------------------------
TypeOK ==
    /\ sock \in [Conns -> {"absent", "upgrading", "fresh", "nameless", "open", "terminal",
                           "closed"}]
    /\ leaving \subseteq Conns
    /\ session.room \in Rooms \cup {None} /\ session.active \in Conns \cup {None}
    /\ \A p \in Procs : proc[p].result # "none" => proc[p].at # "idle"
    /\ pendingUpgrades = Cardinality({c \in Conns : sock[c] = "upgrading"})
    /\ addressCount = Cardinality({c \in Conns : sock[c] \notin {"absent", "closed"}})

Settled ==
    /\ ~Pending /\ ~Unremoved /\ leaving = {}
    /\ \A r \in Rooms : queue[r] = <<>>

\* When nothing is under way, a session bound to a room has a membership there: no request
\* that failed, and no removal, leaves a binding that would bar every other room
\* (roomMessageService.ts handleJoin, roomEffectActions.ts clearMemberOnce).  A join that
\* found the room's expiry does, until the guest leaves or returns: handleJoin takes the
\* commit that closed the room for his own.
BindingIsMembership ==
    Settled => (session.room # None => Has(session.room) \/ session.room \in lapsed)

\* docs/room-mode.md:73: a closed room clears the bindings of sessions to it (not true: the
\* binding made by a join that found the room's expiry is left); not run.
ClosedRoomIsUnbound ==
    Settled => (session.room # None => phase[session.room] # "gone")

\* A connection that was superseded never takes its successor's place away: the session's
\* connection ceases to be that only by its own close or a later resume, the hub lets it go
\* only to close it, and until then no step counts its member lost (sessionStore.ts
\* releaseConnection, connectionHub.ts, roomManager.ts connectionLost).
SuccessorKept ==
    [][\A c \in Conns : Current(c) =>
        /\ Current(c)' \/ sock'[c] = "closed" \/ \E d \in Conns \ {c} : Current(d)'
        /\ HubHolds(c) /\ Current(c)' => HubHolds(c)' \/ c \in leaving'
        /\ \A r \in Rooms :
                HubHolds(c) /\ Current(c)' /\ member[r].is = "up" /\ member[r].conn = c
                    => member[r]'.is \notin {"down", "overdue"}]_vars

\* The session's last connection closed before the room had answered its return.
Cut == \E c \in cut : gen[c] = session.gen

\* A connection that goes, without another taking its place, is counted gone by the room in
\* the end, whatever queue was full and whatever raced, unless it was cut
\* (roomConnectionDispatchRetrier.ts).
LossIsHeard ==
    \A r \in Rooms :
        (session.live /\ session.active = None /\ ~Cut /\ member[r].is = "up")
            ~> ~(session.active = None /\ member[r].is = "up")

\* docs/room-mode.md:112 keeps the place of a guest who has gone for 15 or 60 seconds: also
\* when his connection was cut, his member would have to be counted gone (not true: both
\* loops of roomConnectionDispatchRetrier.ts give up, and no deadline is ever set); not run.
LossAlwaysHeard ==
    \A r \in Rooms :
        (session.live /\ session.active = None /\ member[r].is = "up")
            ~> ~(session.active = None /\ member[r].is = "up")

\* A guest who is back, and whom the room has not given up, is connected to it in the end:
\* through this connection or a later one (realtimeService.ts afterAuthenticated).
ReturnIsHeard ==
    \A r \in Rooms, c \in Conns :
        (Current(c) /\ HubHolds(c) /\ session.room = r /\ member[r].is = "down")
            ~> ~(Current(c) /\ HubHolds(c) /\ session.room = r /\ member[r].is = "down")
=============================================================================
