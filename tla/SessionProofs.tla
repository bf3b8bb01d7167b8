---------------------------- MODULE SessionProofs ----------------------------
(***************************************************************************)
(* What module Sessions promises, for any number of connections and rooms  *)
(* and for any limits: a connection that was superseded never takes its    *)
(* successor's place away, and, when the guest waits for what he asked, a  *)
(* session that is bound to a room ends up with a membership there.        *)
(***************************************************************************)
EXTENDS Sessions, SequenceTheorems, FiniteSetTheorems, TLAPS

-----------------------------------------------------------------------------
(* Types *)

SockStates == {"absent", "upgrading", "fresh", "nameless", "open", "terminal", "closed"}
Places == {"idle", "joining", "leaving", "lose", "losing", "resume", "resuming", "rejoin",
           "rejoining"}
Restoring == {"resume", "resuming", "rejoin", "rejoining"}
Results == {"none", "committed", "rejected", "ignored", "failed"}

SomeConn == Conns \cup {None}
SomeRoom == Rooms \cup {None}
Connections == [conn : Conns, room : SomeRoom]
Stored == [live : BOOLEAN, room : SomeRoom, active : SomeConn, gen : Nat]
Members == [is : {"absent", "up", "down", "overdue"}, conn : SomeConn, epoch : Nat]
Commands == [type : {"join", "leave", "lost", "replace", "resumed"}, conn : Conns,
             old : SomeConn, epoch : Nat]
Entries == [cmd : Commands, by : Procs]
Removals == [type : {"closed", "removed"}, clears : BOOLEAN]
Waits == [at : Places, room : SomeRoom, reserved : BOOLEAN, for : SomeConn, result : Results]

\* A process that is under way knows the room, one that restores the connection too.
Directed(w) == /\ w.at # "idle" => w.room \in Rooms
               /\ w.at \in Restoring => w.for \in Conns

Identified ==
    /\ sock \in [Conns -> SockStates]
    /\ leaving \subseteq Conns
    /\ gen \in [Conns -> Nat \cup {None}]
    /\ session \in Stored
    /\ hub \in Connections \cup {None}

RoomsTyped ==
    /\ member \in [Rooms -> Members]
    /\ queue \in [Rooms -> Seq(Entries)]
    /\ outbox \in [Rooms -> Seq(Removals)]

Typed ==
    /\ Identified
    /\ RoomsTyped
    /\ proc \in [Procs -> Waits]
    /\ \A p \in Procs : Directed(proc[p])

USE SessionsAssumption

LEMMA ProcsLane == ASSUME NEW c \in Conns PROVE <<c, "lane">> \in Procs /\ <<c, "close">> \in Procs
  BY DEF Procs

LEMMA ProcsConn == ASSUME NEW p \in Procs PROVE p[1] \in Conns
  BY DEF Procs

\* A process that goes on to w leaves the others as they are.
LEMMA GoesOn ==
    ASSUME Typed, NEW p \in Procs, NEW w \in Waits, Directed(w),
           proc' = [proc EXCEPT ![p] = w]
    PROVE  /\ proc' \in [Procs -> Waits]
           /\ \A q \in Procs : Directed(proc[q])'
           /\ proc'[p] = w
           /\ \A q \in Procs \ {p} : proc'[q] = proc[q]
<1>1. proc \in [Procs -> Waits] /\ \A q \in Procs : Directed(proc[q])
  BY DEF Typed
<1>2. proc' \in [Procs -> Waits] /\ proc'[p] = w /\ \A q \in Procs \ {p} : proc'[q] = proc[q]
  BY <1>1
<1>3. \A q \in Procs : Directed(proc[q])'
  BY <1>1, <1>2 DEF Directed
<1> QED
  BY <1>2, <1>3

LEMMA IdleWaits == Idle \in Waits /\ Directed(Idle) /\ Idle.at = "idle" /\ Idle.result = "none"
  BY DEF Idle, Waits, Directed, Places, Restoring, Results, SomeRoom, SomeConn

\* What Await and Finish do to one process.
LEMMA AwaitStep ==
    ASSUME Typed, NEW p \in Procs, NEW at \in Places, Await(p, at), proc[p].at # "idle",
           at \in Restoring => proc[p].at \in Restoring
    PROVE  /\ proc' \in [Procs -> Waits]
           /\ \A q \in Procs : Directed(proc[q])'
           /\ proc'[p] = [proc[p] EXCEPT !.at = at]
           /\ \A q \in Procs \ {p} : proc'[q] = proc[q]
<1> DEFINE w == [proc[p] EXCEPT !.at = at]
<1>1. proc[p] \in Waits /\ Directed(proc[p])
  BY DEF Typed
<1>2. w \in Waits /\ w.at = at /\ w.room = proc[p].room /\ w.for = proc[p].for
  BY <1>1 DEF Waits
<1>3. Directed(w)
  BY <1>1, <1>2 DEF Directed
<1>4. proc' = [proc EXCEPT ![p] = w]
  BY DEF Await
<1> HIDE DEF w
<1>5. /\ proc' \in [Procs -> Waits] /\ \A q \in Procs : Directed(proc[q])'
      /\ proc'[p] = w /\ \A q \in Procs \ {p} : proc'[q] = proc[q]
  BY <1>2, <1>3, <1>4, GoesOn
<1> QED
  BY <1>5 DEF w

LEMMA FinishStep ==
    ASSUME Typed, NEW p \in Procs, Finish(p)
    PROVE  /\ proc' \in [Procs -> Waits]
           /\ \A q \in Procs : Directed(proc[q])'
           /\ proc'[p] = Idle
           /\ \A q \in Procs \ {p} : proc'[q] = proc[q]
  BY IdleWaits, GoesOn DEF Finish

\* A command that is queued comes last.
LEMMA DispatchStep ==
    ASSUME RoomsTyped, NEW r \in Rooms, NEW p \in Procs, NEW cmd \in Commands, Dispatch(r, p, cmd)
    PROVE  /\ queue' \in [Rooms -> Seq(Entries)]
           /\ \A s \in Rooms \ {r} : queue'[s] = queue[s]
           /\ Len(queue'[r]) = Len(queue[r]) + 1
           /\ \A i \in 1 .. Len(queue[r]) : queue'[r][i] = queue[r][i]
           /\ queue'[r][Len(queue[r]) + 1] = [cmd |-> cmd, by |-> p]
<1> DEFINE e == [cmd |-> cmd, by |-> p]
<1>1. e \in Entries
  BY DEF Entries
<1>2. queue \in [Rooms -> Seq(Entries)] /\ queue[r] \in Seq(Entries)
  BY DEF RoomsTyped
<1>3. queue' = [queue EXCEPT ![r] = Append(queue[r], e)]
  BY DEF Dispatch
<1> HIDE DEF e
<1>4. /\ Append(queue[r], e) \in Seq(Entries)
      /\ Len(Append(queue[r], e)) = Len(queue[r]) + 1
      /\ \A i \in 1 .. Len(queue[r]) : Append(queue[r], e)[i] = queue[r][i]
      /\ Append(queue[r], e)[Len(queue[r]) + 1] = e
  BY <1>1, <1>2, AppendProperties
<1>5. queue'[r] = Append(queue[r], e) /\ \A s \in Rooms \ {r} : queue'[s] = queue[s]
  BY <1>2, <1>3
<1>6. queue' \in [Rooms -> Seq(Entries)]
  BY <1>2, <1>3, <1>4
<1> QED
  BY <1>4, <1>5, <1>6 DEF e

-----------------------------------------------------------------------------
(* Who a connection is *)

\* No connection becomes, or ceases to be, the session's or the hub's.
SameIdentity ==
    /\ gen' = gen
    /\ session'.live = session.live /\ session'.active = session.active
    /\ session'.gen = session.gen
    /\ \A c \in Conns : HubHolds(c)' <=> HubHolds(c)

\* setRoom changes no more than the room.
LEMMA SetRoomKeepsHolder ==
    ASSUME NEW h \in Connections \cup {None}, NEW c, NEW r \in SomeRoom
    PROVE  /\ SetRoom(h, c, r) \in Connections \cup {None}
           /\ \A d \in Conns : (SetRoom(h, c, r) # None /\ SetRoom(h, c, r).conn = d)
                                    <=> (h # None /\ h.conn = d)
<1>1. CASE h = None \/ h.conn # c
  BY <1>1 DEF SetRoom
<1>2. CASE h # None /\ h.conn = c
  <2>1. h \in Connections
    BY <1>2
  <2> DEFINE k == [conn |-> h.conn, room |-> r]
  <2>2. SetRoom(h, c, r) = k
    BY <1>2, <2>1 DEF SetRoom, Connections
  <2>3. k # None
    BY <2>1 DEF Connections, SomeRoom
  <2>4. k \in Connections /\ k.conn = h.conn
    BY <2>1 DEF Connections
  <2> QED
    BY <1>2, <2>2, <2>3, <2>4
<1> QED
  BY <1>1, <1>2

LEMMA RoomOfSession ==
    ASSUME Identified, NEW r \in SomeRoom, session' = [session EXCEPT !.room = r]
    PROVE  /\ session' \in Stored /\ session'.room = r
           /\ session'.live = session.live /\ session'.active = session.active
           /\ session'.gen = session.gen
  BY DEF Identified, Stored

\* A binding that changes leaves everybody's identity alone.
LEMMA BindingStep ==
    ASSUME Identified, NEW c, NEW r \in SomeRoom, NEW s \in SomeRoom,
           session' = [session EXCEPT !.room = r] \/ UNCHANGED session,
           hub' = SetRoom(hub, c, s) \/ UNCHANGED hub,
           UNCHANGED gen
    PROVE  /\ SameIdentity
           /\ session' \in Stored /\ hub' \in Connections \cup {None}
           /\ session'.room \in {session.room, r}
<1>1. /\ session' \in Stored /\ session'.room \in {session.room, r}
      /\ session'.live = session.live /\ session'.active = session.active
      /\ session'.gen = session.gen
  BY RoomOfSession DEF Identified
<1>2. /\ hub' \in Connections \cup {None}
      /\ \A d \in Conns : (hub' # None /\ hub'.conn = d) <=> (hub # None /\ hub.conn = d)
  BY SetRoomKeepsHolder DEF Identified
<1>3. \A d \in Conns : HubHolds(d)' <=> HubHolds(d)
  BY <1>2 DEF HubHolds
<1> QED
  BY <1>1, <1>2, <1>3 DEF SameIdentity

LEMMA ReleaseStep ==
    ASSUME Identified, NEW r \in Rooms, Release(r), UNCHANGED gen
    PROVE  /\ SameIdentity
           /\ session' \in Stored /\ hub' \in Connections \cup {None}
           /\ session'.room \in {session.room, None}
           /\ session.live /\ session.room = r => session'.room = None
<1> None \in SomeRoom
  BY DEF SomeRoom
<1>1. /\ SameIdentity
      /\ session' \in Stored /\ hub' \in Connections \cup {None}
      /\ session'.room \in {session.room, None}
  BY BindingStep DEF Release
<1>2. session.live /\ session.room = r => session'.room = None
  BY RoomOfSession DEF Release
<1> QED
  BY <1>1, <1>2

LEMMA ClearMemberStep ==
    ASSUME Identified, NEW r \in Rooms, ClearMember(r), UNCHANGED gen
    PROVE  /\ SameIdentity
           /\ session' \in Stored /\ hub' \in Connections \cup {None}
           /\ session'.room \in {session.room, None}
           /\ session.live /\ session.room = r => session'.room = None
<1> None \in SomeRoom
  BY DEF SomeRoom
<1>1. /\ SameIdentity
      /\ session' \in Stored /\ hub' \in Connections \cup {None}
      /\ session'.room \in {session.room, None}
  BY BindingStep DEF ClearMember
<1>2. session.live /\ session.room = r => session'.room = None
  BY RoomOfSession DEF ClearMember
<1> QED
  BY <1>1, <1>2

\* The connection that is authenticated becomes the session's and the hub's.
LEMMA AuthenticatedStep ==
    ASSUME Identified, NEW c \in Conns, NEW s \in Stored, NEW arrives,
           Authenticated(c, s, arrives), s.live = TRUE, s.active = c
    PROVE  /\ Identified' <=> (leaving' \subseteq Conns)
           /\ Current(c)' /\ HubHolds(c)'
           /\ \A d \in Conns \ {c} : ~Current(d)' /\ ~HubHolds(d)' /\ gen'[d] = gen[d]
           /\ gen'[c] # None /\ session'.room = s.room
<1>1. sock' \in [Conns -> SockStates] /\ gen' = [gen EXCEPT ![c] = s.gen] /\ session' = s
  BY DEF Authenticated, Identified, SockStates
<1>2. hub' = [conn |-> c, room |-> s.room] /\ s.room \in SomeRoom /\ s.gen \in Nat
  BY DEF Authenticated, Stored
<1>3. hub' \in Connections /\ hub' # None /\ hub'.conn = c
  BY <1>2 DEF Connections, SomeRoom
<1>4. /\ gen' \in [Conns -> Nat \cup {None}] /\ gen'[c] = s.gen
      /\ \A d \in Conns \ {c} : gen'[d] = gen[d]
  BY <1>1, <1>2 DEF Identified
<1>5. gen'[c] # None
  BY <1>2, <1>4
<1> QED
  BY <1>1, <1>2, <1>3, <1>4, <1>5 DEF Identified, Current, HubHolds

-----------------------------------------------------------------------------
(* What a room does with a command *)

Answers == {"committed", "rejected", "ignored"}

\* A member who was up is counted lost only by a loss of his connection, and is removed
\* only by his leave.
LEMMA EffectOfCommand ==
    ASSUME RoomsTyped, NEW r \in Rooms, NEW cmd \in Commands, NEW e \in Effect(r, cmd)
    PROVE  /\ e[1] \in Answers /\ e[2] \in Members
           /\ member[r].is = "up" /\ e[2].is \in {"down", "overdue"}
                => cmd.type = "lost" /\ member[r].conn = cmd.conn
           /\ member[r].is # "absent" /\ e[2].is = "absent"
                => cmd.type = "leave" /\ e[1] = "committed"
           /\ cmd.type = "join" /\ e[1] = "committed" => e[2].is # "absent"
<1> DEFINE m == member[r]
<1>1. m \in Members /\ cmd.conn \in Conns /\ cmd.epoch \in Nat
  BY DEF RoomsTyped, Commands
<1>2. m.is \in {"absent", "up", "down", "overdue"} /\ m.conn \in SomeConn /\ m.epoch \in Nat
  BY <1>1 DEF Members
<1>3. NoMember \in Members /\ NoMember.is = "absent"
  BY DEF NoMember, Members, SomeConn
<1>4. \A n \in Nat : Up(cmd.conn, n) \in Members /\ Up(cmd.conn, n).is = "up"
  BY <1>1 DEF Up, Members, SomeConn
<1>5. [m EXCEPT !.is = "down"] \in Members /\ [m EXCEPT !.is = "down"].is = "down"
  BY <1>1 DEF Members
<1>6. cmd.type \in {"join", "leave", "lost", "replace", "resumed"}
  BY DEF Commands
<1>7. \A c : Up(c, cmd.epoch).conn = c
  BY DEF Up
<1>8. 0 \in Nat /\ m.epoch + 1 \in Nat
  BY <1>2
<1> HIDE DEF m
<1>9. e \in IF cmd.type \in {"join", "leave"} /\ ~Current(cmd.conn) THEN {<<"ignored", m>>}
            ELSE CASE cmd.type = "join" ->
                {<<"rejected", m>>} \cup
                (IF phase[r] = "open" /\ m = NoMember THEN {<<"committed", Up(cmd.conn, 0)>>}
                                                       ELSE {})
              [] cmd.type = "leave" ->
                {<<"rejected", m>>} \cup
                (IF m # NoMember THEN {<<"committed", NoMember>>} ELSE {})
              [] cmd.type = "lost" ->
                IF m = Up(cmd.conn, cmd.epoch) THEN {<<"committed", [m EXCEPT !.is = "down"]>>}
                                               ELSE {<<"ignored", m>>}
              [] cmd.type = "replace" ->
                IF m = Up(cmd.old, cmd.epoch) THEN {<<"committed", Up(cmd.conn, m.epoch + 1)>>}
                                              ELSE {<<"ignored", m>>}
              [] cmd.type = "resumed" ->
                IF m.is = "down" /\ m.epoch = cmd.epoch
                THEN {<<"committed", Up(cmd.conn, m.epoch + 1)>>}
                ELSE IF m.is = "overdue" /\ m.epoch = cmd.epoch THEN {<<"rejected", m>>}
                ELSE {<<"ignored", m>>}
  BY DEF Effect, m
<1>10. CASE e \in {<<"ignored", m>>, <<"rejected", m>>}
  <2>1. e[1] \in {"ignored", "rejected"} /\ e[2] = m
    BY <1>10
  <2> QED
    BY <1>1, <1>2, <2>1 DEF Answers, m
<1>11. CASE e \notin {<<"ignored", m>>, <<"rejected", m>>}
  <2>1. CASE cmd.type = "join"
    <3>1. e = <<"committed", Up(cmd.conn, 0)>>
      BY <1>9, <1>11, <2>1
    <3> QED
      BY <1>4, <1>8, <3>1 DEF Answers
  <2>2. CASE cmd.type = "leave"
    <3>1. e = <<"committed", NoMember>>
      BY <1>9, <1>11, <2>2
    <3> QED
      BY <1>3, <2>2, <3>1 DEF Answers
  <2>3. CASE cmd.type = "lost"
    <3>1. e = <<"committed", [m EXCEPT !.is = "down"]>> /\ m = Up(cmd.conn, cmd.epoch)
      BY <1>9, <1>11, <2>3
    <3>2. m.conn = cmd.conn
      BY <1>7, <3>1
    <3> QED
      BY <1>5, <2>3, <3>1, <3>2 DEF Answers, m
  <2>4. CASE cmd.type \in {"replace", "resumed"}
    <3>1. e = <<"committed", Up(cmd.conn, m.epoch + 1)>>
      BY <1>9, <1>11, <2>4
    <3> QED
      BY <1>4, <1>8, <2>4, <3>1 DEF Answers
  <2> QED
    BY <1>6, <2>1, <2>2, <2>3, <2>4
<1> QED
  BY <1>10, <1>11

\* The command at the head of a queue is taken off.
LEMMA HeadOfQueue ==
    ASSUME RoomsTyped, NEW r \in Rooms, queue[r] # <<>>, queue' = [queue EXCEPT ![r] = Tail(@)]
    PROVE  /\ Head(queue[r]) \in Entries /\ Head(queue[r]) = queue[r][1]
           /\ 1 \in DOMAIN queue[r]
           /\ queue' \in [Rooms -> Seq(Entries)]
           /\ \A s \in Rooms \ {r} : queue'[s] = queue[s]
           /\ \A i \in DOMAIN queue'[r] : i + 1 \in DOMAIN queue[r] /\ queue'[r][i] = queue[r][i + 1]
<1>1. queue \in [Rooms -> Seq(Entries)] /\ queue[r] \in Seq(Entries)
  BY DEF RoomsTyped
<1>2. /\ Head(queue[r]) \in Entries /\ Tail(queue[r]) \in Seq(Entries)
      /\ Len(Tail(queue[r])) = Len(queue[r]) - 1
      /\ \A i \in 1 .. Len(Tail(queue[r])) : Tail(queue[r])[i] = queue[r][i + 1]
      /\ Len(queue[r]) \in Nat \ {0}
  BY <1>1, HeadTailProperties, EmptySeq, LenProperties
<1>3. queue'[r] = Tail(queue[r]) /\ queue' \in [Rooms -> Seq(Entries)]
      /\ \A s \in Rooms \ {r} : queue'[s] = queue[s]
  BY <1>1, <1>2
<1>4. DOMAIN queue[r] = 1 .. Len(queue[r]) /\ DOMAIN Tail(queue[r]) = 1 .. Len(Tail(queue[r]))
  BY <1>1, <1>2, LenProperties
<1>5. Head(queue[r]) = queue[r][1]
  OBVIOUS
<1>6. \A i \in DOMAIN queue'[r] : i + 1 \in DOMAIN queue[r] /\ queue'[r][i] = queue[r][i + 1]
  BY <1>2, <1>3, <1>4
<1>7. 1 \in DOMAIN queue[r]
  BY <1>2, <1>4
<1> QED
  BY <1>2, <1>3, <1>5, <1>6, <1>7

\* The receipt of a command reaches the process that awaits it.
LEMMA AnswerStep ==
    ASSUME Typed, NEW p \in Procs, NEW a \in Results, proc' = [proc EXCEPT ![p].result = a]
    PROVE  /\ proc' \in [Procs -> Waits]
           /\ \A q \in Procs : Directed(proc[q])'
           /\ proc'[p] = [proc[p] EXCEPT !.result = a]
           /\ \A q \in Procs \ {p} : proc'[q] = proc[q]
<1> DEFINE w == [proc[p] EXCEPT !.result = a]
<1>1. proc[p] \in Waits /\ Directed(proc[p])
  BY DEF Typed
<1>2. w \in Waits /\ w.at = proc[p].at /\ w.room = proc[p].room /\ w.for = proc[p].for
  BY <1>1 DEF Waits
<1>3. Directed(w)
  BY <1>1, <1>2 DEF Directed
<1>4. proc' = [proc EXCEPT ![p] = w]
  OBVIOUS
<1> HIDE DEF w
<1>5. /\ proc' \in [Procs -> Waits] /\ \A q \in Procs : Directed(proc[q])'
      /\ proc'[p] = w /\ \A q \in Procs \ {p} : proc'[q] = proc[q]
  BY <1>2, <1>3, <1>4, GoesOn
<1> QED
  BY <1>5 DEF w

-----------------------------------------------------------------------------
(* The invariant *)

Unnamed == {"absent", "upgrading", "fresh", "nameless"}
Waiting == {"joining", "leaving", "losing", "resuming", "rejoining"}
Losing == {"lose", "losing", "rejoin", "rejoining"}

\* A connection that was authenticated and is no longer both the session's and the hub's;
\* it will not be again.
Gone(c) == gen[c] # None /\ ~(HubHolds(c) /\ Current(c))

\* A connection gets its generation when it is authenticated, once, and only a session
\* that exists is bound.
Named ==
    /\ \A c \in Conns : sock[c] \in Unnamed => gen[c] = None
    /\ session.room # None => session.live = TRUE

\* Processes run for connections that were authenticated, the close only after the socket's;
\* what may end in telling a room that a connection is lost runs for one that has gone.
Placed(p) ==
    /\ proc[p].at # "idle" => gen[p[1]] # None
    /\ proc[p].at # "idle" /\ p[2] = "close" => sock[p[1]] = "closed"
    /\ proc[p].at \in Losing => Gone(p[1])
    /\ proc[p].at \notin Waiting => proc[p].result = "none"

\* A command in a queue is the one that its process awaits, in that room.
Answering == {<<"join", "joining">>, <<"leave", "leaving">>, <<"lost", "losing">>,
              <<"replace", "resuming">>, <<"replace", "rejoining">>,
              <<"resumed", "resuming">>, <<"resumed", "rejoining">>}
Awaited(e, r) ==
    /\ proc[e.by].result = "none" /\ proc[e.by].room = r
    /\ <<e.cmd.type, proc[e.by].at>> \in Answering
    /\ e.cmd.type = "lost" => e.cmd.conn = e.by[1]

Processes ==
    /\ \A p \in Procs : Placed(p)
    /\ \A r \in Rooms : \A i \in DOMAIN queue[r] : Awaited(queue[r][i], r)
    /\ \A r \in Rooms : \A i, j \in DOMAIN queue[r] :
            queue[r][i].by = queue[r][j].by => i = j

SessionInv == Typed /\ Named /\ Processes

\* A step that ends no authentication and brings none that has gone back, and reopens no
\* socket.
Kept ==
    /\ \A c \in Conns : gen[c] # None => gen'[c] # None
    /\ \A c \in Conns : Gone(c) => Gone(c)'
    /\ \A c \in Conns : sock[c] = "closed" => sock'[c] = "closed"

LEMMA EntryOfQueue ==
    ASSUME RoomsTyped, NEW r \in Rooms, NEW i \in DOMAIN queue[r]
    PROVE  queue[r][i] \in Entries /\ queue[r][i].by \in Procs /\ queue[r][i].cmd \in Commands
<1>1. queue[r] \in Seq(Entries)
  BY DEF RoomsTyped
<1>2. queue[r][i] \in Entries
  BY <1>1, LenProperties, ElementOfSeq
<1> QED
  BY <1>2 DEF Entries

\* Who awaits the receipt of a command in a queue.
LEMMA WhoAwaits ==
    ASSUME Processes, NEW r \in Rooms, NEW i \in DOMAIN queue[r]
    PROVE  /\ proc[queue[r][i].by].at \in Waiting
           /\ proc[queue[r][i].by].result = "none"
           /\ proc[queue[r][i].by].room = r
  BY DEF Processes, Awaited, Answering, Waiting

\* One process goes on, from where it awaits nothing, and perhaps sends a command.
GoesOnTo(p, w) ==
    /\ w \in Waits /\ Directed(w)
    /\ proc' = [proc EXCEPT ![p] = w]
    /\ proc[p].at \notin Waiting \/ proc[p].result # "none"
    /\ w.at # "idle" => gen'[p[1]] # None
    /\ w.at # "idle" /\ p[2] = "close" => sock'[p[1]] = "closed"
    /\ w.at \in Losing => Gone(p[1])'
    /\ w.at \notin Waiting => w.result = "none"

Sends(r, p, w, cmd) ==
    /\ Dispatch(r, p, cmd)
    /\ w.result = "none" /\ w.room = r
    /\ <<cmd.type, w.at>> \in Answering
    /\ cmd.type = "lost" => cmd.conn = p[1]

LEMMA PlacedStays ==
    ASSUME Kept, NEW p \in Procs, Placed(p), proc'[p] = proc[p]
    PROVE  Placed(p)'
<1>1. p[1] \in Conns
  BY ProcsConn
<1> QED
  BY <1>1 DEF Placed, Kept

LEMMA ProcessesStay ==
    ASSUME Processes, Kept, UNCHANGED <<proc, queue>>
    PROVE  Processes'
<1>1. \A p \in Procs : Placed(p)'
  BY PlacedStays DEF Processes
<1>2. ASSUME NEW r \in Rooms, NEW i \in DOMAIN queue'[r] PROVE Awaited(queue[r][i], r)'
  BY DEF Processes, Awaited
<1>3. \A r \in Rooms : \A i, j \in DOMAIN queue'[r] :
            queue'[r][i].by = queue'[r][j].by => i = j
  BY DEF Processes
<1> QED
  BY <1>1, <1>2, <1>3 DEF Processes

LEMMA ProcessGoesOn ==
    ASSUME Typed, Processes, Kept, NEW p \in Procs, NEW w, GoesOnTo(p, w),
           \/ UNCHANGED queue
           \/ \E r \in Rooms, cmd \in Commands : Sends(r, p, w, cmd)
    PROVE  /\ proc' \in [Procs -> Waits]
           /\ \A q \in Procs : Directed(proc[q])'
           /\ queue' \in [Rooms -> Seq(Entries)]
           /\ Processes'
<1>1. /\ proc' \in [Procs -> Waits]
      /\ \A q \in Procs : Directed(proc[q])'
      /\ proc'[p] = w
      /\ \A q \in Procs \ {p} : proc'[q] = proc[q]
  BY GoesOn DEF GoesOnTo
<1>2. ASSUME NEW q \in Procs PROVE Placed(q)'
  <2>1. CASE q = p
    BY <1>1, <2>1 DEF Placed, GoesOnTo
  <2>2. CASE q # p
    BY <1>1, <2>2, PlacedStays DEF Processes
  <2> QED
    BY <2>1, <2>2
<1>3. ASSUME NEW r \in Rooms, NEW i \in DOMAIN queue[r]
      PROVE  /\ queue[r][i].by \in Procs \ {p}
             /\ \A e : e = queue[r][i] => Awaited(e, r)'
  <2>1. queue[r][i].by \in Procs
    BY EntryOfQueue DEF Typed
  <2>2. queue[r][i].by # p
    BY WhoAwaits DEF GoesOnTo
  <2>3. Awaited(queue[r][i], r)
    BY DEF Processes
  <2>4. proc'[queue[r][i].by] = proc[queue[r][i].by]
    BY <1>1, <2>1, <2>2
  <2>5. ASSUME NEW e, e = queue[r][i] PROVE Awaited(e, r)'
    BY <2>3, <2>4, <2>5 DEF Awaited
  <2> QED
    BY <2>1, <2>2, <2>5
<1>4. CASE UNCHANGED queue
  <2>1. \A r \in Rooms : \A i \in DOMAIN queue'[r] : Awaited(queue[r][i], r)'
    BY <1>3, <1>4
  <2> QED
    BY <1>1, <1>2, <1>4, <2>1 DEF Processes, Typed, RoomsTyped
<1>5. ASSUME NEW r \in Rooms, NEW cmd \in Commands, Sends(r, p, w, cmd)
      PROVE  queue' \in [Rooms -> Seq(Entries)] /\ Processes'
  <2>1. /\ queue' \in [Rooms -> Seq(Entries)]
        /\ \A s \in Rooms \ {r} : queue'[s] = queue[s]
        /\ Len(queue'[r]) = Len(queue[r]) + 1
        /\ \A i \in 1 .. Len(queue[r]) : queue'[r][i] = queue[r][i]
        /\ queue'[r][Len(queue[r]) + 1] = [cmd |-> cmd, by |-> p]
    BY <1>5, DispatchStep DEF Sends, Typed
  <2>2. /\ DOMAIN queue[r] = 1 .. Len(queue[r]) /\ Len(queue[r]) \in Nat
        /\ DOMAIN queue'[r] = 1 .. Len(queue'[r])
    BY <2>1, LenProperties DEF Typed, RoomsTyped
  <2>3. \A i \in DOMAIN queue'[r] : i \in DOMAIN queue[r] \/ i = Len(queue[r]) + 1
    BY <2>1, <2>2
  <2>4. ASSUME NEW s \in Rooms, NEW i \in DOMAIN queue'[s]
        PROVE  \/ i \in DOMAIN queue[s] /\ queue'[s][i] = queue[s][i]
               \/ s = r /\ i = Len(queue[r]) + 1
    BY <2>1, <2>2, <2>3
  <2>5. ASSUME NEW s \in Rooms, NEW i \in DOMAIN queue'[s]
        PROVE  Awaited(queue[s][i], s)'
    <3>1. CASE i \in DOMAIN queue[s] /\ queue'[s][i] = queue[s][i]
      BY <1>3, <3>1
    <3>2. CASE s = r /\ i = Len(queue[r]) + 1
      <4>1. queue'[s][i].cmd = cmd /\ queue'[s][i].by = p
        BY <2>1, <3>2
      <4> QED
        BY <1>1, <1>5, <3>2, <4>1 DEF Awaited, Sends
    <3> QED
      BY <2>4, <3>1, <3>2
  <2>6. queue'[r][Len(queue[r]) + 1].by = p
    BY <2>1
  <2>7. ASSUME NEW s \in Rooms, NEW i \in DOMAIN queue'[s], NEW j \in DOMAIN queue'[s],
               queue'[s][i].by = queue'[s][j].by
        PROVE  i = j
    BY <1>3, <2>4, <2>6, <2>7 DEF Processes
  <2> QED
    BY <1>2, <2>1, <2>5, <2>7 DEF Processes
<1> QED
  BY <1>1, <1>4, <1>5

-----------------------------------------------------------------------------
(* The gateway keeps the invariant *)

\* Sockets move on: none is reopened, none forgets that it was named.
SocketsMoveOn ==
    /\ \A c \in Conns : sock'[c] \in Unnamed => sock[c] \in Unnamed
    /\ \A c \in Conns : sock[c] = "closed" => sock'[c] = "closed"

LEMMA IdentityStays ==
    ASSUME SessionInv, SameIdentity, SocketsMoveOn,
           session'.room # None => session.live = TRUE
    PROVE  /\ Kept /\ Named'
           /\ \A c \in Conns : (Current(c)' <=> Current(c)) /\ (Gone(c)' <=> Gone(c))
<1>1. \A c \in Conns : Current(c)' <=> Current(c)
  BY DEF SameIdentity, Current
<1>2. \A c \in Conns : Gone(c)' <=> Gone(c)
  BY <1>1 DEF SameIdentity, Gone
<1>3. Kept
  BY <1>2 DEF Kept, SameIdentity, SocketsMoveOn
<1>4. Named'
  BY DEF Named, SessionInv, SameIdentity, SocketsMoveOn
<1> QED
  BY <1>1, <1>2, <1>3, <1>4

LEMMA NothingChanges ==
    ASSUME UNCHANGED identity
    PROVE  SameIdentity
  BY DEF identity, SameIdentity, HubHolds

\* A step of one socket.
LEMMA SocketStep ==
    ASSUME SessionInv, NEW c \in Conns, NEW s \in SockStates,
           sock' = [sock EXCEPT ![c] = s],
           sock[c] # "closed", s \in Unnamed => sock[c] \in Unnamed
    PROVE  sock' \in [Conns -> SockStates] /\ SocketsMoveOn
  BY DEF SessionInv, Typed, Identified, SocketsMoveOn

LEMMA SocketOnly ==
    ASSUME SessionInv, NEW c \in Conns, NEW s \in SockStates,
           sock' = [sock EXCEPT ![c] = s],
           sock[c] # "closed", s \in Unnamed => sock[c] \in Unnamed,
           UNCHANGED <<leaving, gen, session, hub, rooms, proc>>
    PROVE  SessionInv' /\ SameIdentity
<1>1. SameIdentity
  BY DEF SameIdentity, HubHolds
<1>2. sock' \in [Conns -> SockStates] /\ SocketsMoveOn
  BY SocketStep
<1>3. Kept /\ Named'
  BY <1>1, <1>2, IdentityStays DEF SessionInv, Named
<1>4. Typed'
  BY <1>2 DEF SessionInv, Typed, Identified, RoomsTyped, Directed, rooms
<1>5. Processes'
  BY <1>3, ProcessesStay DEF SessionInv, rooms
<1> QED
  BY <1>1, <1>3, <1>4, <1>5 DEF SessionInv

LEMMA PlainSocketSteps ==
    ASSUME SessionInv, NEW c \in Conns,
           \/ Upgrade(c) \/ UpgradeAborted(c) \/ Attach(c) \/ HelloAsGuest(c)
           \/ ResumeRefused(c) \/ GatewayCloses(c)
    PROVE  SessionInv' /\ SameIdentity
<1>1. CASE Upgrade(c)
  BY <1>1, SocketOnly DEF Upgrade, identity, SockStates, Unnamed
<1>2. CASE UpgradeAborted(c)
  BY <1>2, SocketOnly DEF UpgradeAborted, identity, SockStates, Unnamed
<1>3. CASE Attach(c)
  BY <1>3, SocketOnly DEF Attach, identity, SockStates, Unnamed
<1>4. CASE HelloAsGuest(c)
  BY <1>4, SocketOnly DEF HelloAsGuest, identity, SockStates, Unnamed
<1>5. CASE ResumeRefused(c)
  BY <1>5, SocketOnly DEF ResumeRefused, SockStates, Unnamed
<1>6. CASE GatewayCloses(c)
  BY <1>6, SocketOnly DEF GatewayCloses, identity, SockStates, Unnamed
<1> QED
  BY <1>1, <1>2, <1>3, <1>4, <1>5, <1>6

\* The connection that is authenticated had no generation before.
LEMMA Authenticates ==
    ASSUME SessionInv, NEW c \in Conns, NEW s \in Stored, NEW arrives,
           Authenticated(c, s, arrives), s.live = TRUE, s.active = c,
           sock[c] \in {"fresh", "nameless"}, leaving' \subseteq Conns
    PROVE  /\ Identified' /\ Named' /\ Kept
           /\ Current(c)' /\ HubHolds(c)' /\ \A d \in Conns \ {c} : ~Current(d)'
           /\ gen[c] = None /\ gen'[c] # None
           /\ proc[<<c, "lane">>].at = "idle"
<1>1. /\ Identified'
      /\ Current(c)' /\ HubHolds(c)'
      /\ \A d \in Conns \ {c} : ~Current(d)' /\ ~HubHolds(d)' /\ gen'[d] = gen[d]
      /\ gen'[c] # None
  BY AuthenticatedStep DEF SessionInv, Typed
<1>2. gen[c] = None
  BY DEF SessionInv, Named, Unnamed
<1>3. sock' = [sock EXCEPT ![c] = "open"] /\ session' = s
  BY DEF Authenticated
<1>4. sock' \in [Conns -> SockStates] /\ SocketsMoveOn
  BY <1>3, SocketStep DEF SockStates, Unnamed
<1>5. Named'
  <2>1. \A d \in Conns : sock'[d] \in Unnamed => sock[d] \in Unnamed /\ d # c
    BY <1>3, <1>4 DEF SocketsMoveOn, Unnamed, SessionInv, Typed, Identified
  <2> QED
    BY <1>1, <1>3, <2>1 DEF Named, SessionInv
<1>6. \A d \in Conns : Gone(d) => Gone(d)'
  BY <1>1, <1>2 DEF Gone
<1>7. Kept
  BY <1>1, <1>4, <1>6 DEF Kept, SocketsMoveOn
<1>8. proc[<<c, "lane">>].at = "idle"
  BY <1>2, ProcsLane DEF SessionInv, Processes, Placed
<1> QED
  BY <1>1, <1>2, <1>5, <1>7, <1>8

LEMMA CreateGuestStep ==
    ASSUME SessionInv, NEW c \in Conns, NEW arrives, CreateGuest(c, arrives)
    PROVE  SessionInv' /\ \A d \in Conns : ~Current(d)
<1> DEFINE s == [live |-> TRUE, room |-> None, active |-> c, gen |-> 0]
<1>1. s \in Stored /\ s.live = TRUE /\ s.active = c
  BY DEF Stored, SomeRoom, SomeConn
<1>2. Authenticated(c, s, arrives) /\ sock[c] \in {"fresh", "nameless"} /\ leaving' \subseteq Conns
  BY DEF CreateGuest, SessionInv, Typed, Identified
<1> HIDE DEF s
<1>3. Identified' /\ Named' /\ Kept
  BY <1>1, <1>2, Authenticates
<1>4. Processes'
  BY <1>3, ProcessesStay DEF SessionInv, rooms, CreateGuest
<1>5. Typed'
  BY <1>3 DEF SessionInv, Typed, RoomsTyped, Directed, rooms, CreateGuest
<1>6. \A d \in Conns : ~Current(d)
  BY DEF Current, CreateGuest
<1> QED
  BY <1>3, <1>4, <1>5, <1>6 DEF SessionInv

LEMMA HubDetachesStep ==
    ASSUME SessionInv, NEW c \in Conns, HubDetaches(c)
    PROVE  SessionInv'
<1>1. Identified' /\ hub' = None
  BY DEF HubDetaches, SessionInv, Typed, Identified
<1>2. Kept
  BY <1>1 DEF Kept, Gone, HubHolds, HubDetaches
<1>3. Processes'
  BY <1>2, ProcessesStay DEF SessionInv, rooms, HubDetaches
<1>4. Typed'
  BY <1>1 DEF SessionInv, Typed, RoomsTyped, Directed, rooms, HubDetaches
<1>5. Named'
  BY DEF SessionInv, Named, HubDetaches
<1> QED
  BY <1>3, <1>4, <1>5 DEF SessionInv

LEMMA CommandsToARoom ==
    ASSUME RoomsTyped, NEW c \in Conns, NEW r \in Rooms
    PROVE  /\ Restoration(c, r) \in Commands /\ Restoration(c, r).type \in {"replace", "resumed"}
           /\ Loss(c, r) \in Commands /\ Loss(c, r).type = "lost" /\ Loss(c, r).conn = c
<1>1. member[r].conn \in SomeConn /\ member[r].epoch \in Nat
  BY DEF RoomsTyped, Members
<1> QED
  BY <1>1 DEF Restoration, Loss, Commands

LEMMA ResumeGuestStep ==
    ASSUME SessionInv, NEW c \in Conns, NEW arrives, ResumeGuest(c, arrives)
    PROVE  /\ SessionInv'
           /\ Current(c)' /\ \A d \in Conns \ {c} : ~Current(d)'
           /\ gen[c] = None
           /\ proc[<<c, "lane">>].at = "idle"
           /\ \A q \in Procs \ {<<c, "lane">>} : proc'[q] = proc[q]
           /\ session'.room \in {session.room, None}
<1> DEFINE r == session.room
           p == <<c, "lane">>
           bound == IF r = None \/ Registered(r) THEN Resumed(c)
                    ELSE [Resumed(c) EXCEPT !.room = None]
           w(at) == [[Idle EXCEPT !.room = r, !.for = c] EXCEPT !.at = at]
<1>1. session \in Stored /\ hub \in Connections \cup {None} /\ leaving \subseteq Conns
  BY DEF SessionInv, Typed, Identified
<1>2. session.live = TRUE /\ sock[c] \in {"fresh", "nameless"}
  BY <1>1 DEF ResumeGuest, Stored
<1>3. /\ Resumed(c) \in Stored /\ Resumed(c).live = TRUE /\ Resumed(c).active = c
      /\ Resumed(c).room = r
  <2> DEFINE n == session.gen + 1
  <2>1. n \in Nat
    BY <1>1 DEF Stored
  <2>2. Resumed(c) = [session EXCEPT !.active = c, !.gen = n]
    BY <1>1 DEF Resumed, Stored
  <2> HIDE DEF n
  <2> QED
    BY <1>1, <1>2, <2>1, <2>2 DEF Stored, SomeConn
<1>4. /\ bound \in Stored /\ bound.live = TRUE /\ bound.active = c
      /\ bound.room \in {r, None}
  BY <1>3 DEF Stored, SomeRoom
<1>5. /\ Authenticated(c, bound, arrives)
      /\ leaving' = IF hub = None THEN leaving ELSE leaving \cup {hub.conn}
      /\ UNCHANGED <<phase, member, outbox>>
      /\ IF bound.room # None /\ Has(bound.room)
         THEN \/ /\ Accepts(r) /\ Dispatch(r, p, Restoration(c, r))
                 /\ proc' = [proc EXCEPT ![p] = w("resuming")]
              \/ /\ proc' = [proc EXCEPT ![p] = w("resume")]
                 /\ UNCHANGED queue
         ELSE UNCHANGED <<queue, proc>>
  BY DEF ResumeGuest
<1>6. leaving' \subseteq Conns
  BY <1>1, <1>5 DEF Connections
<1>7. p \in Procs /\ p[1] = c /\ p[2] = "lane"
  BY ProcsLane
<1> HIDE DEF bound, p
<1>8. /\ Identified' /\ Named' /\ Kept
      /\ Current(c)' /\ HubHolds(c)' /\ \A d \in Conns \ {c} : ~Current(d)'
      /\ gen[c] = None /\ gen'[c] # None
      /\ proc[p].at = "idle"
  BY <1>2, <1>4, <1>5, <1>6, Authenticates DEF p
<1>9. session'.room \in {session.room, None}
  BY <1>4, <1>5 DEF Authenticated
<1>10. CASE UNCHANGED <<queue, proc>>
  <2>1. Processes'
    BY <1>8, <1>10, ProcessesStay DEF SessionInv
  <2>2. Typed'
    BY <1>5, <1>8, <1>10 DEF SessionInv, Typed, RoomsTyped, Directed
  <2> QED
    BY <1>8, <1>9, <1>10, <2>1, <2>2 DEF SessionInv, p
<1>11. CASE ~UNCHANGED <<queue, proc>>
  <2>1. bound.room = r /\ r \in Rooms
    BY <1>1, <1>4, <1>5, <1>11 DEF Stored, SomeRoom
  <2>2. \A at \in {"resume", "resuming"} :
            /\ w(at) \in Waits /\ w(at).at = at /\ w(at).room = r /\ w(at).for = c
            /\ w(at).result = "none"
    BY <2>1 DEF Waits, Idle, Places, Results, SomeRoom, SomeConn
  <2> HIDE DEF w
  <2>3. \A at \in {"resume", "resuming"} : Directed(w(at))
    BY <2>1, <2>2 DEF Directed
  <2>4. PICK at \in {"resume", "resuming"} : proc' = [proc EXCEPT ![p] = w(at)]
    BY <1>5, <1>11
  <2>5. GoesOnTo(p, w(at))
    BY <1>7, <1>8, <2>2, <2>3, <2>4 DEF GoesOnTo, Waiting, Losing
  <2>6. \/ UNCHANGED queue
        \/ \E s \in Rooms, cmd \in Commands : Sends(s, p, w(at), cmd)
    <3>1. CASE UNCHANGED queue
      BY <3>1
    <3>2. CASE Dispatch(r, p, Restoration(c, r)) /\ proc' = [proc EXCEPT ![p] = w("resuming")]
      <4>1. at = "resuming"
        <5>1. proc'[p] = w(at) /\ proc'[p] = w("resuming")
          BY <1>7, <2>4, <3>2 DEF SessionInv, Typed
        <5> QED
          BY <2>2, <5>1
      <4>2. /\ Restoration(c, r) \in Commands
            /\ Restoration(c, r).type \in {"replace", "resumed"}
        BY <2>1, CommandsToARoom DEF SessionInv, Typed
      <4>3. Sends(r, p, w(at), Restoration(c, r))
        BY <2>2, <3>2, <4>1, <4>2 DEF Sends, Answering
      <4> QED
        BY <2>1, <4>2, <4>3
    <3> QED
      BY <1>5, <1>11, <3>1, <3>2
  <2>7. /\ proc' \in [Procs -> Waits]
        /\ \A q \in Procs : Directed(proc[q])'
        /\ queue' \in [Rooms -> Seq(Entries)]
        /\ Processes'
    BY <1>7, <1>8, <2>5, <2>6, ProcessGoesOn DEF SessionInv
  <2>8. Typed'
    BY <1>5, <1>8, <2>7 DEF SessionInv, Typed, RoomsTyped
  <2>9. \A q \in Procs \ {p} : proc'[q] = proc[q]
    BY <2>4 DEF SessionInv, Typed
  <2> QED
    BY <1>8, <1>9, <2>7, <2>8, <2>9 DEF SessionInv, p
<1> QED
  BY <1>10, <1>11

LEMMA SocketClosesStep ==
    ASSUME SessionInv, NEW c \in Conns, SocketCloses(c)
    PROVE  /\ SessionInv'
           /\ \/ SameIdentity
              \/ Current(c) /\ \A d \in Conns : ~Current(d)'
           /\ sock'[c] = "closed"
           /\ session'.room = session.room
           /\ proc[<<c, "close">>].at = "idle"
           /\ \A q \in Procs \ {<<c, "close">>} : proc'[q] = proc[q]
           /\ UNCHANGED <<member, outbox>>
<1> DEFINE p == <<c, "close">>
           w == IF session.room = None THEN Idle
                ELSE [Idle EXCEPT !.at = "lose", !.room = session.room]
<1>1. p \in Procs /\ p[1] = c
  BY ProcsLane
<1>2. /\ sock' = [sock EXCEPT ![c] = "closed"] /\ sock[c] # "closed" /\ leaving' = leaving \ {c}
      /\ IF gen[c] # None /\ Released(c)
         THEN /\ session' = [session EXCEPT !.active = None]
              /\ hub' = IF HubHolds(c) THEN None ELSE hub
              /\ proc' = [proc EXCEPT ![p] = w]
         ELSE UNCHANGED <<session, hub, proc>>
      /\ UNCHANGED <<gen, phase, member, queue, outbox>>
  BY DEF SocketCloses, rooms
<1> HIDE DEF w, p
<1>3. sock' \in [Conns -> SockStates] /\ SocketsMoveOn /\ sock'[c] = "closed"
  BY <1>2, SocketStep DEF SockStates, Unnamed, SessionInv, Typed, Identified
<1>4. proc[p].at = "idle"
  BY <1>1, <1>2 DEF SessionInv, Processes, Placed, p
<1>5. CASE gen[c] # None /\ Released(c)
  <2>1. session' = [session EXCEPT !.active = None] /\ hub' \in {hub, None}
        /\ proc' = [proc EXCEPT ![p] = w]
    BY <1>2, <1>5
  <2>2. session \in Stored
    BY DEF SessionInv, Typed, Identified
  <2>3. /\ session' \in Stored /\ session'.active = None /\ session'.room = session.room
        /\ session'.live = session.live
    BY <2>1, <2>2 DEF Stored, SomeConn
  <2>4. Current(c) /\ \A d \in Conns : ~Current(d)'
    BY <1>5, <2>3 DEF Current, Released
  <2>5. Kept
    BY <1>2, <1>3, <2>4 DEF Kept, Gone, SocketsMoveOn
  <2>6. Named'
    BY <1>2, <1>3, <2>3 DEF SessionInv, Named, SocketsMoveOn
  <2>7. Identified'
    BY <1>2, <1>3, <2>1, <2>3 DEF SessionInv, Typed, Identified
  <2>8. /\ w \in Waits /\ Directed(w) /\ w.at \in {"idle", "lose"} /\ w.result = "none"
    <3>1. CASE session.room = None
      BY <3>1, IdleWaits DEF w
    <3>2. CASE session.room # None
      <4>1. session.room \in Rooms
        BY <2>2, <3>2 DEF Stored, SomeRoom
      <4> QED
        BY <3>2, <4>1 DEF w, Idle, Waits, Directed, Restoring, Places, Results, SomeRoom, SomeConn
    <3> QED
      BY <3>1, <3>2
  <2>9. Gone(c)'
    BY <1>2, <1>5, <2>4 DEF Gone
  <2>10. GoesOnTo(p, w)
    BY <1>1, <1>2, <1>3, <1>4, <1>5, <2>1, <2>8, <2>9 DEF GoesOnTo, Waiting, Losing
  <2>11. /\ proc' \in [Procs -> Waits]
         /\ \A q \in Procs : Directed(proc[q])'
         /\ Processes'
    BY <1>1, <1>2, <2>5, <2>10, ProcessGoesOn DEF SessionInv
  <2>12. Typed'
    BY <1>2, <2>7, <2>11 DEF SessionInv, Typed, RoomsTyped
  <2>13. \A q \in Procs \ {p} : proc'[q] = proc[q]
    BY <2>1 DEF SessionInv, Typed
  <2> QED
    BY <1>2, <1>3, <1>4, <2>3, <2>4, <2>6, <2>11, <2>12, <2>13 DEF SessionInv, p
<1>6. CASE ~(gen[c] # None /\ Released(c))
  <2>1. UNCHANGED <<session, hub, proc, gen, queue>>
    BY <1>2, <1>6
  <2>2. SameIdentity
    BY <2>1 DEF SameIdentity, HubHolds
  <2>3. Kept /\ Named'
    BY <1>3, <2>1, <2>2, IdentityStays DEF SessionInv, Named
  <2>4. Processes'
    BY <2>1, <2>3, ProcessesStay DEF SessionInv
  <2>5. Typed'
    BY <1>2, <1>3, <2>1 DEF SessionInv, Typed, Identified, RoomsTyped, Directed
  <2> QED
    BY <1>2, <1>3, <1>4, <2>1, <2>2, <2>3, <2>4, <2>5 DEF SessionInv, p
<1> QED
  BY <1>5, <1>6

-----------------------------------------------------------------------------
(* The loops and the messages keep the invariant *)

\* A process goes on while everybody's identity stays what it is.
Proceeds(p, w) ==
    /\ w \in Waits /\ Directed(w)
    /\ proc' = [proc EXCEPT ![p] = w]
    /\ proc[p].at \notin Waiting \/ proc[p].result # "none"
    /\ proc[p].at # "idle" \/ w.at = "idle" \/ (gen[p[1]] # None /\ p[2] = "lane")
    /\ w.at \in Losing => Gone(p[1])
    /\ w.at \notin Waiting => w.result = "none"

LEMMA ProcessStep ==
    ASSUME SessionInv, SameIdentity, SocketsMoveOn, sock' \in [Conns -> SockStates],
           session' \in Stored, hub' \in Connections \cup {None},
           session'.room # None => session.live = TRUE,
           UNCHANGED <<leaving, member, outbox>>,
           NEW p \in Procs, NEW w, Proceeds(p, w),
           \/ UNCHANGED queue
           \/ \E r \in Rooms, cmd \in Commands : Sends(r, p, w, cmd)
    PROVE  SessionInv' /\ \A q \in Procs \ {p} : proc'[q] = proc[q]
<1>1. /\ Kept /\ Named'
      /\ \A c \in Conns : Gone(c)' <=> Gone(c)
  BY IdentityStays
<1>2. p[1] \in Conns /\ gen' = gen
  BY ProcsConn DEF SameIdentity
<1>3. Placed(p)
  BY DEF SessionInv, Processes
<1>4. GoesOnTo(p, w)
  BY <1>1, <1>2, <1>3 DEF GoesOnTo, Proceeds, Placed, SocketsMoveOn
<1>5. /\ proc' \in [Procs -> Waits]
      /\ \A q \in Procs : Directed(proc[q])'
      /\ queue' \in [Rooms -> Seq(Entries)]
      /\ Processes'
  BY <1>1, <1>4, ProcessGoesOn DEF SessionInv
<1>6. Typed'
  BY <1>2, <1>5 DEF SessionInv, Typed, Identified, RoomsTyped
<1>7. \A q \in Procs \ {p} : proc'[q] = proc[q]
  BY DEF SessionInv, Typed, Proceeds
<1> QED
  BY <1>1, <1>5, <1>6, <1>7 DEF SessionInv

\* The same, when neither session, hub nor sockets change.
LEMMA QuietProcessStep ==
    ASSUME SessionInv, UNCHANGED <<sock, leaving, identity, member, outbox>>,
           NEW p \in Procs, NEW w, Proceeds(p, w),
           \/ UNCHANGED queue
           \/ \E r \in Rooms, cmd \in Commands : Sends(r, p, w, cmd)
    PROVE  SessionInv' /\ SameIdentity /\ \A q \in Procs \ {p} : proc'[q] = proc[q]
<1>1. SameIdentity
  BY NothingChanges
<1>2. /\ SocketsMoveOn /\ sock' \in [Conns -> SockStates]
      /\ session' \in Stored /\ hub' \in Connections \cup {None}
      /\ session'.room # None => session.live = TRUE
  BY DEF SocketsMoveOn, identity, SessionInv, Typed, Identified, Named
<1>3. UNCHANGED <<leaving, member, outbox>>
  OBVIOUS
<1> QED
  BY <1>1, <1>2, <1>3, ProcessStep

LEMMA FinishProceeds ==
    ASSUME SessionInv, NEW p \in Procs, Finish(p),
           proc[p].at \notin Waiting \/ proc[p].result # "none"
    PROVE  Proceeds(p, Idle)
  BY IdleWaits DEF Finish, Proceeds, Losing

\* What Await(p, at) leaves p with.
Going(p, at) == [proc[p] EXCEPT !.at = at]

LEMMA GoingOn ==
    ASSUME SessionInv, NEW p \in Procs, NEW at \in Places, proc[p].at # "idle",
           at \in Restoring => proc[p].at \in Restoring
    PROVE  /\ Going(p, at) \in Waits /\ Directed(Going(p, at))
           /\ Going(p, at).at = at /\ Going(p, at).room = proc[p].room
           /\ Going(p, at).result = proc[p].result
           /\ proc[p].room \in Rooms
<1>1. proc[p] \in Waits /\ Directed(proc[p])
  BY DEF SessionInv, Typed
<1>2. Going(p, at) \in Waits /\ Going(p, at).at = at /\ Going(p, at).room = proc[p].room
      /\ Going(p, at).for = proc[p].for /\ Going(p, at).result = proc[p].result
  BY <1>1 DEF Waits, Going
<1>3. Directed(Going(p, at)) /\ proc[p].room \in Rooms
  BY <1>1, <1>2 DEF Directed
<1> QED
  BY <1>2, <1>3

LEMMA TryLoseStep ==
    ASSUME SessionInv, NEW p \in Procs, TryLose(p)
    PROVE  /\ SessionInv' /\ SameIdentity
           /\ \A q \in Procs \ {p} : proc'[q] = proc[q]
           /\ session' = session
<1> DEFINE r == proc[p].room
           c == p[1]
<1>1. /\ UNCHANGED <<sock, leaving, identity, member, outbox>>
      /\ proc[p].at = "lose"
  BY DEF TryLose, gateway
<1>2. session' = session
  BY <1>1 DEF identity
<1>3. CASE Finish(p) /\ UNCHANGED queue
  <2>1. Proceeds(p, Idle)
    BY <1>1, <1>3, FinishProceeds DEF Waiting
  <2> QED
    BY <1>1, <1>2, <1>3, <2>1, QuietProcessStep
<1>4. CASE Dispatch(r, p, Loss(c, r)) /\ Await(p, "losing")
  <2> DEFINE w == Going(p, "losing")
  <2>1. Placed(p)
    BY DEF SessionInv, Processes
  <2>2. /\ w \in Waits /\ Directed(w) /\ w.at = "losing" /\ w.room = r
        /\ w.result = "none" /\ r \in Rooms
    BY <1>1, <2>1, GoingOn DEF Places, Restoring, Placed, Waiting
  <2>3. proc' = [proc EXCEPT ![p] = w]
    BY <1>4 DEF Await, Going
  <2> HIDE DEF w
  <2>4. Proceeds(p, w)
    BY <1>1, <2>1, <2>2, <2>3 DEF Proceeds, Placed, Waiting, Losing
  <2>5. Loss(c, r) \in Commands /\ Loss(c, r).type = "lost" /\ Loss(c, r).conn = c
    <3>1. c \in Conns /\ RoomsTyped
      BY ProcsConn DEF SessionInv, Typed
    <3> QED
      BY <2>2, <3>1, CommandsToARoom
  <2>6. Sends(r, p, w, Loss(c, r))
    BY <1>4, <2>2, <2>5 DEF Sends, Answering
  <2> QED
    BY <1>1, <1>2, <2>2, <2>4, <2>5, <2>6, QuietProcessStep
<1> QED
  BY <1>3, <1>4 DEF TryLose

LEMMA LoseAnsweredStep ==
    ASSUME SessionInv, NEW p \in Procs, LoseAnswered(p)
    PROVE  /\ SessionInv' /\ SameIdentity
           /\ \A q \in Procs \ {p} : proc'[q] = proc[q]
           /\ session' = session
<1>1. Proceeds(p, Idle)
  BY FinishProceeds DEF LoseAnswered
<1> QED
  BY <1>1, QuietProcessStep DEF LoseAnswered, gateway, identity, rooms

LEMMA TryRestoreStep ==
    ASSUME SessionInv, NEW p \in Procs, NEW after \in {"resume", "rejoin"}, TryRestore(p, after)
    PROVE  /\ SessionInv' /\ SameIdentity
           /\ \A q \in Procs \ {p} : proc'[q] = proc[q]
           /\ session' = session
<1> DEFINE r == proc[p].room
           c == proc[p].for
<1>1. /\ UNCHANGED <<sock, leaving, identity, member, outbox>>
      /\ proc[p].at = after /\ session' = session
  BY DEF TryRestore, gateway, identity
<1>2. CASE Finish(p) /\ UNCHANGED queue
  <2>1. Proceeds(p, Idle)
    BY <1>1, <1>2, FinishProceeds DEF Waiting
  <2> QED
    BY <1>1, <1>2, <2>1, QuietProcessStep
<1>3. CASE Dispatch(r, p, Restoration(c, r)) /\ Await(p, Awaiting(after))
  <2> DEFINE at == Awaiting(after)
             w == Going(p, at)
  <2>1. Placed(p) /\ Directed(proc[p])
    BY DEF SessionInv, Processes, Typed
  <2>2. at \in Places /\ at \in Restoring /\ proc[p].at \in Restoring
        /\ (at = "resuming" \/ (at = "rejoining" /\ proc[p].at = "rejoin"))
    BY <1>1 DEF Awaiting, Places, Restoring
  <2> HIDE DEF at
  <2>3. proc[p].at # "idle" /\ proc[p].result = "none" /\ proc[p].at \notin Waiting
    BY <1>1, <2>1 DEF Placed, Waiting
  <2>4. /\ w \in Waits /\ Directed(w) /\ w.at = at /\ w.room = r
        /\ w.result = "none" /\ r \in Rooms
    BY <2>2, <2>3, GoingOn
  <2>5. proc' = [proc EXCEPT ![p] = w]
    BY <1>3 DEF Await, Going, at
  <2> HIDE DEF w
  <2>6. Proceeds(p, w)
    BY <2>1, <2>2, <2>3, <2>4, <2>5 DEF Proceeds, Placed, Waiting, Losing
  <2>7. c \in Conns
    BY <2>1, <2>2 DEF Directed
  <2>8. Restoration(c, r) \in Commands /\ Restoration(c, r).type \in {"replace", "resumed"}
    BY <2>4, <2>7, CommandsToARoom DEF SessionInv, Typed
  <2>9. Sends(r, p, w, Restoration(c, r))
    BY <1>3, <2>2, <2>4, <2>8 DEF Sends, Answering
  <2> QED
    BY <1>1, <2>4, <2>6, <2>8, <2>9, QuietProcessStep
<1> QED
  BY <1>2, <1>3 DEF TryRestore

LEMMA StandingSockets ==
    ASSUME SessionInv, UNCHANGED sock
    PROVE  SocketsMoveOn /\ sock' \in [Conns -> SockStates]
  BY DEF SocketsMoveOn, SessionInv, Typed, Identified

LEMMA RestoreAnsweredStep ==
    ASSUME SessionInv, NEW p \in Procs, NEW after \in {"resume", "rejoin"},
           RestoreAnswered(p, after)
    PROVE  /\ SessionInv' /\ SameIdentity
           /\ \A q \in Procs \ {p} : proc'[q] = proc[q]
           /\ session'.room \in {session.room, None}
<1> DEFINE r == proc[p].room
           c == proc[p].for
           lose == [Idle EXCEPT !.at = "lose", !.room = r]
           again == [Going(p, after) EXCEPT !.result = "none"]
<1>1. /\ UNCHANGED <<sock, leaving, gen, member, queue, outbox>>
      /\ proc[p].at = Awaiting(after) /\ proc[p].result # "none"
  BY DEF RestoreAnswered, gateway, rooms
<1>2. Placed(p) /\ Directed(proc[p]) /\ proc[p] \in Waits
  BY DEF SessionInv, Processes, Typed
<1>3. /\ proc[p].at \in Waiting /\ proc[p].at \in Restoring /\ proc[p].at # "idle"
      /\ after \in Restoring /\ after \in Places
      /\ (after = "rejoin" => proc[p].at = "rejoining")
  BY <1>1 DEF Awaiting, Waiting, Restoring, Places
<1>4. r \in Rooms
  BY <1>2, <1>3 DEF Directed
<1>5. CASE proc' = [proc EXCEPT ![p].at = after, ![p].result = "none"]
           /\ UNCHANGED <<session, hub>>
  <2>1. proc' = [proc EXCEPT ![p] = again]
    BY <1>5 DEF Going
  <2>2. /\ Going(p, after) \in Waits /\ Directed(Going(p, after))
        /\ Going(p, after).at = after
    BY <1>3, GoingOn
  <2>3. /\ again \in Waits /\ again.at = after /\ again.result = "none"
        /\ again.room = Going(p, after).room /\ again.for = Going(p, after).for
    BY <2>2 DEF Waits, Results
  <2> HIDE DEF again
  <2>4. Directed(again)
    BY <2>2, <2>3 DEF Directed
  <2>5. Proceeds(p, again)
    BY <1>1, <1>2, <1>3, <2>1, <2>3, <2>4 DEF Proceeds, Placed, Waiting, Losing
  <2> QED
    BY <1>1, <1>5, <2>5, QuietProcessStep DEF identity, RestoreAnswered
<1>6. CASE Release(r) /\ Finish(p)
  <2>1. Proceeds(p, Idle)
    BY <1>1, <1>6, FinishProceeds
  <2>2. /\ SameIdentity
        /\ session' \in Stored /\ hub' \in Connections \cup {None}
        /\ session'.room \in {session.room, None}
    BY <1>1, <1>4, <1>6, ReleaseStep DEF SessionInv, Typed
  <2>3. session'.room # None => session.live = TRUE
    BY <2>2 DEF SessionInv, Named
  <2>4. SocketsMoveOn /\ sock' \in [Conns -> SockStates]
    BY <1>1, StandingSockets
  <2> QED
    BY <1>1, <2>1, <2>2, <2>3, <2>4, ProcessStep
<1>7. CASE Finish(p) /\ UNCHANGED <<session, hub>>
  <2>1. Proceeds(p, Idle)
    BY <1>1, <1>7, FinishProceeds
  <2> QED
    BY <1>1, <1>7, <2>1, QuietProcessStep DEF identity, RestoreAnswered
<1>8. CASE after = "rejoin" /\ proc' = [proc EXCEPT ![p] = lose] /\ UNCHANGED <<session, hub>>
  <2>1. /\ lose \in Waits /\ Directed(lose) /\ lose.at = "lose" /\ lose.result = "none"
    BY <1>4 DEF Idle, Waits, Directed, Restoring, Places, Results, SomeRoom, SomeConn
  <2>2. Gone(p[1])
    BY <1>2, <1>3, <1>8 DEF Placed, Losing
  <2> HIDE DEF lose
  <2>3. Proceeds(p, lose)
    BY <1>1, <1>3, <1>8, <2>1, <2>2 DEF Proceeds, Waiting
  <2> QED
    BY <1>1, <1>8, <2>3, QuietProcessStep DEF identity, RestoreAnswered
<1> QED
  BY <1>5, <1>6, <1>7, <1>8 DEF RestoreAnswered

\* A connection that asks is the session's, and its lane was free.
LEMMA AsksFacts ==
    ASSUME SessionInv, NEW c \in Conns, Asks(c)
    PROVE  /\ <<c, "lane">> \in Procs /\ proc[<<c, "lane">>].at = "idle"
           /\ gen[c] # None /\ session.live = TRUE
  BY ProcsLane, IdleWaits DEF Asks, Current, SessionInv, Typed, Identified, Stored

LEMMA SendStep ==
    ASSUME SessionInv, NEW c \in Conns, Asks(c), NEW r \in Rooms, NEW cmd \in Commands,
           NEW at, NEW reserved \in BOOLEAN,
           <<cmd.type, at>> \in {<<"join", "joining">>, <<"leave", "leaving">>},
           Send(c, r, cmd, at, reserved)
    PROVE  \E w : /\ Proceeds(<<c, "lane">>, w)
                  /\ w.at = at /\ w.room = r /\ w.reserved = reserved
                  /\ w.result \in {"none", "failed"}
                  /\ \/ UNCHANGED queue
                     \/ \E s \in Rooms, d \in Commands : Sends(s, <<c, "lane">>, w, d)
<1> DEFINE p == <<c, "lane">>
           w == [Idle EXCEPT !.at = at, !.room = r, !.reserved = reserved]
           f == [w EXCEPT !.result = "failed"]
<1>1. p \in Procs /\ proc[p].at = "idle" /\ gen[c] # None /\ p[1] = c /\ p[2] = "lane"
  BY AsksFacts
<1>2. at \in {"joining", "leaving"} /\ cmd.type # "lost" /\ <<cmd.type, at>> \in Answering
  BY DEF Answering
<1>3. /\ w \in Waits /\ w.at = at /\ w.room = r /\ w.reserved = reserved /\ w.result = "none"
  BY <1>2 DEF Idle, Waits, Places, Results, SomeRoom, SomeConn
<1>4. /\ f \in Waits /\ f.at = at /\ f.room = r /\ f.reserved = reserved /\ f.result = "failed"
  BY <1>3 DEF Waits, Results
<1>5. \/ Dispatch(r, p, cmd) /\ proc' = [proc EXCEPT ![p] = w]
      \/ UNCHANGED queue /\ proc' = [proc EXCEPT ![p] = f]
  BY DEF Send
<1> HIDE DEF p, w, f
<1>6. Directed(w) /\ Directed(f)
  BY <1>2, <1>3, <1>4 DEF Directed, Restoring
<1>7. CASE Dispatch(r, p, cmd) /\ proc' = [proc EXCEPT ![p] = w]
  <2>1. Proceeds(p, w)
    BY <1>1, <1>2, <1>3, <1>6, <1>7 DEF Proceeds, Waiting, Losing
  <2>2. Sends(r, p, w, cmd)
    BY <1>2, <1>3, <1>7 DEF Sends
  <2> QED
    BY <1>3, <2>1, <2>2 DEF p
<1>8. CASE UNCHANGED queue /\ proc' = [proc EXCEPT ![p] = f]
  <2>1. Proceeds(p, f)
    BY <1>1, <1>2, <1>4, <1>6, <1>8 DEF Proceeds, Waiting, Losing
  <2> QED
    BY <1>4, <1>8, <2>1 DEF p
<1> QED
  BY <1>5, <1>7, <1>8

LEMMA JoinStep ==
    ASSUME SessionInv, NEW c \in Conns, NEW r \in Rooms, Join(c, r)
    PROVE  /\ SessionInv' /\ SameIdentity
           /\ \A q \in Procs \ {<<c, "lane">>} : proc'[q] = proc[q]
           /\ proc[<<c, "lane">>].at = "idle"
           /\ session'.room = r
           /\ proc'[<<c, "lane">>].at = "joining" /\ proc'[<<c, "lane">>].room = r
           /\ proc'[<<c, "lane">>].reserved = Reserves(r)
           /\ proc'[<<c, "lane">>].result \in {"none", "failed"}
<1> DEFINE p == <<c, "lane">>
           cmd == [type |-> "join", conn |-> c, old |-> None, epoch |-> 0]
<1>1. /\ Asks(c) /\ session' = [session EXCEPT !.room = r]
      /\ Send(c, r, cmd, "joining", Reserves(r))
      /\ UNCHANGED <<sock, leaving, gen, hub, member, outbox>>
  BY DEF Join
<1>2. p \in Procs /\ proc[p].at = "idle" /\ session.live = TRUE
  BY <1>1, AsksFacts
<1>3. cmd \in Commands /\ cmd.type = "join"
  BY DEF Commands, SomeConn
<1>4. Reserves(r) \in BOOLEAN
  BY DEF Reserves
<1> HIDE DEF cmd
<1>5. PICK w : /\ Proceeds(p, w)
               /\ w.at = "joining" /\ w.room = r /\ w.reserved = Reserves(r)
               /\ w.result \in {"none", "failed"}
               /\ \/ UNCHANGED queue
                  \/ \E s \in Rooms, d \in Commands : Sends(s, p, w, d)
  BY <1>1, <1>3, <1>4, SendStep
<1>6. /\ session' \in Stored /\ session'.room = r
      /\ session'.live = session.live /\ session'.active = session.active
      /\ session'.gen = session.gen
  BY <1>1, RoomOfSession DEF SomeRoom, SessionInv, Typed
<1>7. SameIdentity
  BY <1>1, <1>6 DEF SameIdentity, HubHolds
<1>8. hub' \in Connections \cup {None}
  BY <1>1 DEF SessionInv, Typed, Identified
<1>9. SocketsMoveOn /\ sock' \in [Conns -> SockStates]
  BY <1>1, StandingSockets
<1>10. SessionInv' /\ \A q \in Procs \ {p} : proc'[q] = proc[q]
  BY <1>1, <1>2, <1>5, <1>6, <1>7, <1>8, <1>9, ProcessStep
<1>11. proc'[p] = w
  BY <1>2, <1>5 DEF Proceeds, SessionInv, Typed
<1> QED
  BY <1>2, <1>5, <1>6, <1>7, <1>10, <1>11

LEMMA LeaveStep ==
    ASSUME SessionInv, NEW c \in Conns, NEW r \in Rooms, Leave(c, r)
    PROVE  /\ SessionInv' /\ SameIdentity
           /\ \A q \in Procs \ {<<c, "lane">>} : proc'[q] = proc[q]
           /\ proc[<<c, "lane">>].at = "idle"
           /\ session'.room \in {session.room, None}
<1> DEFINE p == <<c, "lane">>
           cmd == [type |-> "leave", conn |-> c, old |-> None, epoch |-> 0]
<1>1. /\ Asks(c) /\ UNCHANGED <<sock, leaving, gen, member, outbox>>
  BY DEF Leave
<1>2. p \in Procs /\ proc[p].at = "idle" /\ session.live = TRUE
  BY <1>1, AsksFacts
<1>3. cmd \in Commands /\ cmd.type = "leave"
  BY DEF Commands, SomeConn
<1>4. SocketsMoveOn /\ sock' \in [Conns -> SockStates]
  BY <1>1, StandingSockets
<1> HIDE DEF cmd
<1>5. CASE Send(c, r, cmd, "leaving", FALSE) /\ UNCHANGED <<session, hub>>
  <2>1. PICK w : /\ Proceeds(p, w)
                 /\ \/ UNCHANGED queue
                    \/ \E s \in Rooms, d \in Commands : Sends(s, p, w, d)
    BY <1>1, <1>3, <1>5, SendStep
  <2> QED
    BY <1>1, <1>2, <1>5, <2>1, QuietProcessStep DEF identity, Leave
<1>6. CASE Release(r) /\ UNCHANGED <<queue, proc>>
  <2>1. /\ SameIdentity
        /\ session' \in Stored /\ hub' \in Connections \cup {None}
        /\ session'.room \in {session.room, None}
    BY <1>1, <1>6, ReleaseStep DEF SessionInv, Typed
  <2>2. Kept /\ Named'
    BY <1>2, <1>4, <2>1, IdentityStays
  <2>3. Processes'
    BY <1>6, <2>2, ProcessesStay DEF SessionInv
  <2>4. Typed'
    BY <1>1, <1>4, <1>6, <2>1 DEF SessionInv, Typed, Identified, RoomsTyped, Directed
  <2> QED
    BY <1>2, <1>6, <2>1, <2>2, <2>3, <2>4 DEF SessionInv
<1> QED
  BY <1>5, <1>6 DEF Leave, cmd

LEMMA JoinAnsweredStep ==
    ASSUME SessionInv, NEW p \in Procs, JoinAnswered(p)
    PROVE  /\ SessionInv' /\ SameIdentity
           /\ \A q \in Procs \ {p} : proc'[q] = proc[q]
           /\ session'.room \in {session.room, None}
           /\ (proc[p].result # "committed" /\ proc[p].reserved = TRUE
                    /\ session.room = proc[p].room) => session'.room = None
<1> DEFINE r == proc[p].room
           c == p[1]
           rejoin == [Idle EXCEPT !.at = "rejoin", !.room = r, !.for = session.active]
           lose == [Idle EXCEPT !.at = "lose", !.room = r]
<1>1. /\ UNCHANGED <<sock, leaving, gen, member, queue, outbox>>
      /\ proc[p].at = "joining" /\ proc[p].result # "none"
  BY DEF JoinAnswered, gateway, rooms
<1>2. c \in Conns /\ Placed(p) /\ Directed(proc[p]) /\ proc[p] \in Waits
  BY ProcsConn DEF SessionInv, Processes, Typed
<1>3. r \in Rooms /\ r \in SomeRoom /\ proc[p].at \in Waiting /\ gen[c] # None
      /\ proc[p].reserved \in BOOLEAN
  BY <1>1, <1>2 DEF Directed, SomeRoom, Waiting, Placed, Waits
<1>4. SocketsMoveOn /\ sock' \in [Conns -> SockStates]
  BY <1>1, StandingSockets
<1>5. session \in Stored /\ hub \in Connections \cup {None} /\ Identified
  BY DEF SessionInv, Typed, Identified
<1>6. CASE /\ UNCHANGED session
           /\ UNCHANGED hub \/ \E d : hub' = SetRoom(hub, d, r)
           /\ Finish(p) \/ (proc' = [proc EXCEPT ![p] = lose] /\ ~HubHolds(c))
                \/ (proc' = [proc EXCEPT ![p] = rejoin] /\ ~HubHolds(c) /\ session.active # None)
           /\ proc[p].result = "committed"
  <2>1. /\ SameIdentity
        /\ session' \in Stored /\ hub' \in Connections \cup {None}
    BY <1>1, <1>3, <1>5, <1>6, BindingStep
  <2>2. session'.room # None => session.live = TRUE
    BY <1>6 DEF SessionInv, Named
  <2>3. /\ lose \in Waits /\ Directed(lose) /\ lose.at = "lose" /\ lose.result = "none"
    BY <1>3 DEF Idle, Waits, Directed, Restoring, Places, Results, SomeRoom, SomeConn
  <2>4. session.active # None =>
            rejoin \in Waits /\ Directed(rejoin) /\ rejoin.at = "rejoin" /\ rejoin.result = "none"
    BY <1>3, <1>5 DEF Idle, Waits, Directed, Restoring, Places, Results, SomeRoom, SomeConn,
                      Stored
  <2> HIDE DEF lose, rejoin
  <2>5. ~HubHolds(c) => Gone(c)
    BY <1>3 DEF Gone
  <2>6. \E w : Proceeds(p, w)
    <3>1. CASE Finish(p)
      BY <1>1, <3>1, FinishProceeds
    <3>2. CASE proc' = [proc EXCEPT ![p] = lose] /\ ~HubHolds(c)
      BY <1>1, <2>3, <2>5, <3>2 DEF Proceeds, Waiting, Losing
    <3>3. CASE proc' = [proc EXCEPT ![p] = rejoin] /\ ~HubHolds(c) /\ session.active # None
      BY <1>1, <2>4, <2>5, <3>3 DEF Proceeds, Waiting, Losing
    <3> QED
      BY <1>6, <3>1, <3>2, <3>3
  <2> QED
    BY <1>1, <1>4, <1>6, <2>1, <2>2, <2>6, ProcessStep
<1>7. CASE /\ Finish(p) /\ proc[p].result # "committed"
           /\ IF proc[p].reserved THEN Release(r) ELSE UNCHANGED <<session, hub>>
  <2>1. Proceeds(p, Idle)
    BY <1>1, <1>7, FinishProceeds
  <2>2. CASE proc[p].reserved = TRUE /\ Release(r)
    <3>1. /\ SameIdentity
          /\ session' \in Stored /\ hub' \in Connections \cup {None}
          /\ session'.room \in {session.room, None}
          /\ session.live /\ session.room = r => session'.room = None
      BY <1>1, <1>3, <2>2, ReleaseStep DEF SessionInv, Typed
    <3>2. session'.room # None => session.live = TRUE
      BY <3>1 DEF SessionInv, Named
    <3>3. session.room = r => session'.room = None
      BY <1>3, <3>1 DEF SessionInv, Named
    <3> QED
      BY <1>1, <1>4, <2>1, <3>1, <3>2, <3>3, ProcessStep
  <2>3. CASE proc[p].reserved = FALSE /\ UNCHANGED <<session, hub>>
    BY <1>1, <2>1, <2>3, QuietProcessStep DEF identity, JoinAnswered
  <2> QED
    BY <1>3, <1>7, <2>2, <2>3
<1>8. CASE proc[p].result = "committed"
  <2>1. UNCHANGED session /\ BindJoin(p, r)
    BY <1>8 DEF JoinAnswered
  <2>2. IF HubHolds(c)
        THEN hub' = SetRoom(hub, c, r) /\ Finish(p)
        ELSE IF session.live /\ session.room = r /\ session.active # None
                    /\ HubHolds(session.active)
        THEN hub' = SetRoom(hub, session.active, r) /\ proc' = [proc EXCEPT ![p] = rejoin]
        ELSE UNCHANGED hub /\ proc' = [proc EXCEPT ![p] = lose]
    BY <2>1 DEF BindJoin
  <2> HIDE DEF lose, rejoin
  <2>3. /\ UNCHANGED hub \/ \E d : hub' = SetRoom(hub, d, r)
        /\ Finish(p) \/ (proc' = [proc EXCEPT ![p] = lose] /\ ~HubHolds(c))
             \/ (proc' = [proc EXCEPT ![p] = rejoin] /\ ~HubHolds(c) /\ session.active # None)
    <3>1. CASE HubHolds(c)
      BY <2>2, <3>1
    <3>2. CASE ~HubHolds(c)
      BY <2>2, <3>2
    <3> QED
      BY <3>1, <3>2
  <2> QED
    BY <1>6, <1>8, <2>1, <2>3 DEF lose, rejoin
<1>9. CASE proc[p].result # "committed"
  BY <1>7, <1>9 DEF JoinAnswered
<1> QED
  BY <1>8, <1>9

LEMMA LeaveAnsweredStep ==
    ASSUME SessionInv, NEW p \in Procs, LeaveAnswered(p)
    PROVE  /\ SessionInv' /\ SameIdentity
           /\ \A q \in Procs \ {p} : proc'[q] = proc[q]
           /\ session'.room \in {session.room, None}
           /\ (proc[p].result = "committed" /\ session.room = proc[p].room)
                    => session'.room = None
<1> DEFINE r == proc[p].room
           c == p[1]
<1>1. /\ UNCHANGED <<leaving, gen, member, queue, outbox>>
      /\ proc[p].at = "leaving" /\ proc[p].result # "none" /\ Finish(p)
      /\ IF proc[p].result = "committed" THEN Release(r) ELSE UNCHANGED <<session, hub>>
      /\ sock' = IF proc[p].result = "failed" /\ ~Registered(r) /\ sock[c] # "closed"
                 THEN [sock EXCEPT ![c] = "terminal"] ELSE sock
  BY DEF LeaveAnswered, rooms
<1>2. c \in Conns /\ Placed(p) /\ Directed(proc[p]) /\ proc[p] \in Waits
  BY ProcsConn DEF SessionInv, Processes, Typed
<1>3. r \in Rooms
  BY <1>1, <1>2 DEF Directed
<1>4. SocketsMoveOn /\ sock' \in [Conns -> SockStates]
  <2>1. CASE sock' = sock
    BY <2>1, StandingSockets
  <2>2. CASE sock' # sock
    BY <1>1, <1>2, <2>2, SocketStep DEF SockStates, Unnamed
  <2> QED
    BY <2>1, <2>2
<1>5. Proceeds(p, Idle)
  BY <1>1, FinishProceeds
<1>6. CASE proc[p].result = "committed" /\ Release(r)
  <2>1. /\ SameIdentity
        /\ session' \in Stored /\ hub' \in Connections \cup {None}
        /\ session'.room \in {session.room, None}
        /\ session.live /\ session.room = r => session'.room = None
    BY <1>1, <1>3, <1>6, ReleaseStep DEF SessionInv, Typed
  <2>2. session'.room # None => session.live = TRUE
    BY <2>1 DEF SessionInv, Named
  <2>3. session.room = r => session'.room = None
    BY <1>3, <2>1 DEF SessionInv, Named
  <2> QED
    BY <1>1, <1>4, <1>5, <2>1, <2>2, <2>3, ProcessStep
<1>7. CASE proc[p].result # "committed" /\ UNCHANGED <<session, hub>>
  <2>1. SameIdentity
    BY <1>1, <1>7 DEF SameIdentity, HubHolds
  <2>2. /\ session' \in Stored /\ hub' \in Connections \cup {None}
        /\ session'.room # None => session.live = TRUE
    BY <1>7 DEF SessionInv, Typed, Identified, Named
  <2> QED
    BY <1>1, <1>4, <1>5, <1>7, <2>1, <2>2, ProcessStep
<1> QED
  BY <1>1, <1>6, <1>7

LEMMA CreateStep ==
    ASSUME SessionInv, NEW c \in Conns, NEW r \in Rooms, Create(c, r)
    PROVE  /\ SessionInv' /\ SameIdentity
           /\ session'.room = r /\ member'[r].is = "up"
           /\ \A s \in Rooms \ {r} : member'[s] = member[s]
<1>1. /\ Asks(c) /\ session' = [session EXCEPT !.room = r] /\ hub' = SetRoom(hub, c, r)
      /\ member' = [member EXCEPT ![r] = Up(c, 0)]
      /\ UNCHANGED <<sock, leaving, gen, queue, outbox, proc>>
  BY DEF Create
<1>2. session.live = TRUE /\ r \in SomeRoom
  BY <1>1, AsksFacts DEF SomeRoom
<1>3. /\ SameIdentity
      /\ session' \in Stored /\ hub' \in Connections \cup {None}
  BY <1>1, <1>2, BindingStep DEF SessionInv, Typed
<1>4. session'.room = r
  BY <1>1, <1>2, RoomOfSession DEF SessionInv, Typed
<1>5. Up(c, 0) \in Members /\ Up(c, 0).is = "up"
  BY DEF Up, Members, SomeConn
<1>6. SocketsMoveOn /\ sock' \in [Conns -> SockStates]
  BY <1>1, StandingSockets
<1>7. Kept /\ Named'
  BY <1>2, <1>3, <1>6, IdentityStays
<1>8. Processes'
  BY <1>1, <1>7, ProcessesStay DEF SessionInv
<1>9. /\ member' \in [Rooms -> Members] /\ member'[r].is = "up"
      /\ \A s \in Rooms \ {r} : member'[s] = member[s]
  BY <1>1, <1>5 DEF SessionInv, Typed, RoomsTyped
<1>10. Typed'
  BY <1>1, <1>3, <1>6, <1>9 DEF SessionInv, Typed, Identified, RoomsTyped, Directed
<1> QED
  BY <1>3, <1>4, <1>7, <1>8, <1>9, <1>10 DEF SessionInv

-----------------------------------------------------------------------------
(* The rooms keep the invariant *)

\* The process at the head of a queue gets its receipt; the others go on waiting.
LEMMA HeadIsAnswered ==
    ASSUME SessionInv, Kept, NEW r \in Rooms, queue[r] # <<>>,
           queue' = [queue EXCEPT ![r] = Tail(@)], NEW a \in Answers,
           proc' = [proc EXCEPT ![Head(queue[r]).by].result = a]
    PROVE  /\ queue' \in [Rooms -> Seq(Entries)]
           /\ proc' \in [Procs -> Waits] /\ \A q \in Procs : Directed(proc[q])'
           /\ Processes'
           /\ Head(queue[r]).by \in Procs /\ Head(queue[r]).cmd \in Commands
           /\ Awaited(Head(queue[r]), r)
           /\ proc'[Head(queue[r]).by] = [proc[Head(queue[r]).by] EXCEPT !.result = a]
           /\ \A q \in Procs \ {Head(queue[r]).by} : proc'[q] = proc[q]
<1> DEFINE h == Head(queue[r])
           p == h.by
<1>1. /\ h \in Entries /\ h = queue[r][1]
      /\ 1 \in DOMAIN queue[r]
      /\ queue' \in [Rooms -> Seq(Entries)]
      /\ \A s \in Rooms \ {r} : queue'[s] = queue[s]
      /\ \A i \in DOMAIN queue'[r] : i + 1 \in DOMAIN queue[r] /\ queue'[r][i] = queue[r][i + 1]
  BY HeadOfQueue DEF SessionInv, Typed
<1>2. p \in Procs /\ h.cmd \in Commands
  BY <1>1 DEF Entries
<1>3. /\ proc' \in [Procs -> Waits]
      /\ \A q \in Procs : Directed(proc[q])'
      /\ proc'[p] = [proc[p] EXCEPT !.result = a]
      /\ \A q \in Procs \ {p} : proc'[q] = proc[q]
  BY <1>2, AnswerStep DEF SessionInv, Answers, Results
<1>4. Awaited(h, r)
  BY <1>1 DEF SessionInv, Processes
<1>5. proc[p].room = r /\ proc[p].at \in Waiting /\ proc[p] \in Waits
  BY <1>2, <1>4 DEF Awaited, Answering, Waiting, SessionInv, Typed
<1>6. proc'[p].at = proc[p].at /\ proc'[p].room = r
  <2>1. \A w \in Waits : /\ [w EXCEPT !.result = a].at = w.at
                        /\ [w EXCEPT !.result = a].room = w.room
    BY DEF Waits
  <2> QED
    BY <1>3, <1>5, <2>1
<1>7. ASSUME NEW q \in Procs PROVE Placed(q)'
  <2>1. Placed(q)
    BY DEF SessionInv, Processes
  <2>2. CASE q = p
    BY <1>5, <1>6, <2>1, <2>2, ProcsConn DEF Placed, Kept
  <2>3. CASE q # p
    BY <1>3, <2>1, <2>3, PlacedStays
  <2> QED
    BY <2>2, <2>3
<1>8. ASSUME NEW s \in Rooms, NEW i \in DOMAIN queue'[s]
      PROVE  \E j \in DOMAIN queue[s] : /\ queue'[s][i] = queue[s][j]
                                        /\ queue[s][j].by # p
                                        /\ j = IF s = r THEN i + 1 ELSE i
  <2>1. CASE s = r
    <3>1. i + 1 \in DOMAIN queue[r] /\ queue'[r][i] = queue[r][i + 1]
      BY <1>1, <2>1
    <3>2. i + 1 # 1
      <4>1. queue'[r] \in Seq(Entries)
        BY <1>1
      <4>2. i \in 1 .. Len(queue'[r]) /\ Len(queue'[r]) \in Nat
        BY <2>1, <4>1, LenProperties
      <4> QED
        BY <4>2
    <3>3. queue[r][i + 1].by # queue[r][1].by
      BY <1>1, <3>1, <3>2 DEF SessionInv, Processes
    <3> QED
      BY <1>1, <2>1, <3>1, <3>3
  <2>2. CASE s # r
    <3>1. i \in DOMAIN queue[s] /\ queue'[s][i] = queue[s][i]
      BY <1>1, <2>2
    <3>2. proc[queue[s][i].by].room = s
      BY <3>1, WhoAwaits DEF SessionInv
    <3> QED
      BY <1>5, <2>2, <3>1, <3>2
  <2> QED
    BY <2>1, <2>2
<1>9. ASSUME NEW s \in Rooms, NEW i \in DOMAIN queue'[s] PROVE Awaited(queue[s][i], s)'
  <2>1. PICK j \in DOMAIN queue[s] : queue'[s][i] = queue[s][j] /\ queue[s][j].by # p
    BY <1>8
  <2>2. Awaited(queue[s][j], s) /\ queue[s][j].by \in Procs
    BY EntryOfQueue DEF SessionInv, Processes, Typed
  <2>3. proc'[queue[s][j].by] = proc[queue[s][j].by]
    BY <1>3, <2>1, <2>2
  <2> QED
    BY <2>1, <2>2, <2>3 DEF Awaited
<1>10. ASSUME NEW s \in Rooms, NEW i \in DOMAIN queue'[s], NEW j \in DOMAIN queue'[s],
              queue'[s][i].by = queue'[s][j].by
       PROVE  i = j
  <2> DEFINE next(k) == IF s = r THEN k + 1 ELSE k
  <2>1. /\ next(i) \in DOMAIN queue[s] /\ queue'[s][i] = queue[s][next(i)]
        /\ next(j) \in DOMAIN queue[s] /\ queue'[s][j] = queue[s][next(j)]
    BY <1>8
  <2>2. next(i) = next(j)
    BY <1>10, <2>1 DEF SessionInv, Processes
  <2>3. queue'[s] \in Seq(Entries)
    BY <1>1
  <2>4. DOMAIN queue'[s] = 1 .. Len(queue'[s]) /\ Len(queue'[s]) \in Nat
    BY <2>3, LenProperties
  <2>5. i \in Int /\ j \in Int
    BY <2>4
  <2> QED
    BY <2>2, <2>5
<1>11. Processes'
  BY <1>7, <1>9, <1>10 DEF Processes
<1> QED
  BY <1>1, <1>2, <1>3, <1>4, <1>11

\* What a room answers to one process, and what becomes of the memberships.
LEMMA ApplyStep ==
    ASSUME SessionInv, NEW r \in Rooms, Apply(r)
    PROVE  /\ SessionInv' /\ SameIdentity /\ session' = session /\ outbox' = outbox
           /\ \A s \in Rooms : member[s].is = "up" /\ member'[s].is \in {"down", "overdue"}
                => Gone(member[s].conn)
           /\ \E p \in Procs, a \in Answers :
                /\ proc'[p] = [proc[p] EXCEPT !.result = a]
                /\ \A q \in Procs \ {p} : proc'[q] = proc[q]
                /\ proc[p].room = r /\ proc[p].result = "none"
                /\ \A s \in Rooms : Has(s) /\ ~Has(s)' =>
                        s = r /\ proc[p].at = "leaving" /\ a = "committed"
                /\ proc[p].at = "joining" /\ a = "committed" => Has(r)'
<1> DEFINE h == Head(queue[r])
<1>1. /\ queue[r] # <<>> /\ queue' = [queue EXCEPT ![r] = Tail(@)]
      /\ UNCHANGED <<sock, leaving, gen, session, hub, outbox>> /\ UNCHANGED identity
  BY DEF Apply, gateway, identity
<1>2. PICK e \in Effect(r, h.cmd) :
            /\ member' = [member EXCEPT ![r] = e[2]]
            /\ proc' = [proc EXCEPT ![h.by].result = e[1]]
  BY DEF Apply
<1>3. SameIdentity
  BY <1>1, NothingChanges
<1>4. Kept /\ Named'
  BY <1>1, <1>3, IdentityStays, StandingSockets DEF SessionInv, Named
<1>5. h.cmd \in Commands
  BY <1>1, HeadOfQueue DEF SessionInv, Typed, Entries
<1>6. /\ e[1] \in Answers /\ e[2] \in Members
      /\ member[r].is = "up" /\ e[2].is \in {"down", "overdue"}
           => h.cmd.type = "lost" /\ member[r].conn = h.cmd.conn
      /\ member[r].is # "absent" /\ e[2].is = "absent"
           => h.cmd.type = "leave" /\ e[1] = "committed"
      /\ h.cmd.type = "join" /\ e[1] = "committed" => e[2].is # "absent"
  BY <1>5, EffectOfCommand DEF SessionInv, Typed
<1>7. /\ queue' \in [Rooms -> Seq(Entries)]
      /\ proc' \in [Procs -> Waits] /\ \A q \in Procs : Directed(proc[q])'
      /\ Processes'
      /\ h.by \in Procs
      /\ Awaited(h, r)
      /\ proc'[h.by] = [proc[h.by] EXCEPT !.result = e[1]]
      /\ \A q \in Procs \ {h.by} : proc'[q] = proc[q]
  BY <1>1, <1>2, <1>4, <1>6, HeadIsAnswered
<1>8. /\ member' \in [Rooms -> Members] /\ member'[r] = e[2]
      /\ \A s \in Rooms \ {r} : member'[s] = member[s]
  BY <1>2, <1>6 DEF SessionInv, Typed, RoomsTyped
<1>9. Typed'
  BY <1>1, <1>7, <1>8 DEF SessionInv, Typed, Identified, RoomsTyped
<1>10. SessionInv'
  BY <1>4, <1>7, <1>9 DEF SessionInv
<1>11. ASSUME NEW s \in Rooms, member[s].is = "up", member'[s].is \in {"down", "overdue"}
       PROVE  Gone(member[s].conn)
  <2>1. s = r /\ h.cmd.type = "lost" /\ member[r].conn = h.cmd.conn
    BY <1>6, <1>8, <1>11
  <2>2. proc[h.by].at = "losing" /\ h.cmd.conn = h.by[1]
    BY <1>7, <2>1 DEF Awaited, Answering
  <2>3. Placed(h.by)
    BY <1>7 DEF SessionInv, Processes
  <2> QED
    BY <2>1, <2>2, <2>3 DEF Placed, Losing
<1>12. \A s \in Rooms : Has(s) /\ ~Has(s)' =>
            s = r /\ proc[h.by].at = "leaving" /\ e[1] = "committed"
  <2>1. h.cmd.type = "leave" => proc[h.by].at = "leaving"
    BY <1>7 DEF Awaited, Answering
  <2> QED
    BY <1>6, <1>8, <2>1 DEF Has
<1>13. proc[h.by].at = "joining" /\ e[1] = "committed" => Has(r)'
  <2>1. proc[h.by].at = "joining" => h.cmd.type = "join"
    BY <1>7 DEF Awaited, Answering
  <2> QED
    BY <1>6, <1>8, <2>1 DEF Has
<1>14. proc[h.by].room = r /\ proc[h.by].result = "none"
  BY <1>7 DEF Awaited
<1>15. \E p \in Procs, a \in Answers :
        /\ proc'[p] = [proc[p] EXCEPT !.result = a]
        /\ \A q \in Procs \ {p} : proc'[q] = proc[q]
        /\ proc[p].room = r /\ proc[p].result = "none"
        /\ \A s \in Rooms : Has(s) /\ ~Has(s)' =>
                s = r /\ proc[p].at = "leaving" /\ a = "committed"
        /\ proc[p].at = "joining" /\ a = "committed" => Has(r)'
  <2> DEFINE p == h.by
             a == e[1]
  <2>1. p \in Procs /\ a \in Answers
    BY <1>6, <1>7
  <2>2. /\ proc'[p] = [proc[p] EXCEPT !.result = a]
        /\ \A q \in Procs \ {p} : proc'[q] = proc[q]
    BY <1>7
  <2>3. proc[p].room = r /\ proc[p].result = "none"
    BY <1>14
  <2>4. /\ \A s \in Rooms : Has(s) /\ ~Has(s)' =>
                s = r /\ proc[p].at = "leaving" /\ a = "committed"
        /\ proc[p].at = "joining" /\ a = "committed" => Has(r)'
    BY <1>12, <1>13
  <2> HIDE DEF p, a
  <2> QED
    BY <2>1, <2>2, <2>3, <2>4
<1>16. session' = session /\ outbox' = outbox
  BY <1>1
<1> QED
  BY <1>3, <1>10, <1>11, <1>15, <1>16

\* Some removal on its way clears the member's binding.
Clears(box) == \E i \in DOMAIN box : box[i].clears = TRUE

LEMMA OutboxGrows ==
    ASSUME RoomsTyped, NEW r \in Rooms, NEW t \in {"closed", "removed"}, NEW b \in BOOLEAN,
           outbox' = [outbox EXCEPT ![r] = Append(@, [type |-> t, clears |-> b])]
    PROVE  /\ outbox' \in [Rooms -> Seq(Removals)]
           /\ b = TRUE => Clears(outbox'[r])
           /\ \A s \in Rooms : Clears(outbox[s]) => Clears(outbox'[s])
<1> DEFINE e == [type |-> t, clears |-> b]
<1>1. e \in Removals /\ e.clears = b
  BY DEF Removals
<1>2. outbox \in [Rooms -> Seq(Removals)] /\ outbox[r] \in Seq(Removals)
  BY DEF RoomsTyped
<1> HIDE DEF e
<1>3. /\ Append(outbox[r], e) \in Seq(Removals)
      /\ Len(Append(outbox[r], e)) = Len(outbox[r]) + 1
      /\ \A i \in 1 .. Len(outbox[r]) : Append(outbox[r], e)[i] = outbox[r][i]
      /\ Append(outbox[r], e)[Len(outbox[r]) + 1] = e
  BY <1>1, <1>2, AppendProperties
<1>4. outbox' = [outbox EXCEPT ![r] = Append(outbox[r], e)]
  BY DEF e
<1>5. outbox'[r] = Append(outbox[r], e) /\ \A s \in Rooms \ {r} : outbox'[s] = outbox[s]
  BY <1>2, <1>4
<1>6. outbox' \in [Rooms -> Seq(Removals)]
  BY <1>2, <1>3, <1>4
<1>7. /\ DOMAIN outbox[r] = 1 .. Len(outbox[r]) /\ Len(outbox[r]) \in Nat
      /\ DOMAIN Append(outbox[r], e) = 1 .. Len(Append(outbox[r], e))
  BY <1>2, <1>3, LenProperties
<1>8. Len(outbox[r]) + 1 \in DOMAIN Append(outbox[r], e)
  BY <1>3, <1>7
<1>9. b = TRUE => Clears(outbox'[r])
  BY <1>1, <1>3, <1>5, <1>8 DEF Clears
<1>10. \A i \in DOMAIN outbox[r] : i \in DOMAIN Append(outbox[r], e)
  BY <1>3, <1>7
<1>11. Clears(outbox[r]) => Clears(outbox'[r])
  BY <1>3, <1>5, <1>7, <1>10 DEF Clears
<1> QED
  BY <1>5, <1>6, <1>9, <1>11

LEMMA NobodyIsThere ==
    ASSUME RoomsTyped, NEW r \in Rooms, member' = [member EXCEPT ![r] = NoMember]
    PROVE  /\ member' \in [Rooms -> Members] /\ ~Has(r)'
           /\ \A s \in Rooms \ {r} : member'[s] = member[s]
<1>1. NoMember \in Members /\ NoMember.is = "absent"
  BY DEF NoMember, Members, SomeConn
<1>2. member' \in [Rooms -> Members] /\ member'[r] = NoMember
      /\ \A s \in Rooms \ {r} : member'[s] = member[s]
  BY <1>1 DEF RoomsTyped
<1> QED
  BY <1>1, <1>2 DEF Has

\* A step of a room that leaves gateway, identity and processes alone.
LEMMA RoomStep ==
    ASSUME SessionInv, UNCHANGED <<sock, leaving, identity, queue, proc>>,
           member' \in [Rooms -> Members], outbox' \in [Rooms -> Seq(Removals)]
    PROVE  SessionInv' /\ SameIdentity
<1>1. SameIdentity
  BY NothingChanges
<1>2. Kept /\ Named'
  BY <1>1, IdentityStays, StandingSockets DEF SessionInv, Named, identity
<1>3. Processes'
  BY <1>2, ProcessesStay DEF SessionInv
<1>4. Typed'
  BY DEF SessionInv, Typed, Identified, RoomsTyped, Directed, identity
<1> QED
  BY <1>1, <1>2, <1>3, <1>4 DEF SessionInv

\* Whoever a room removes, without a command that asks it, leaves a removal to deliver.
LEMMA RemovalStep ==
    ASSUME SessionInv, NEW r \in Rooms, RemoveMember(r) \/ CloseRoom(r)
    PROVE  /\ SessionInv' /\ SameIdentity /\ UNCHANGED <<session, proc>>
           /\ ~Has(r)' /\ Has(r) => Clears(outbox'[r])
           /\ \A s \in Rooms : Clears(outbox[s]) => Clears(outbox'[s])
           /\ \A s \in Rooms \ {r} : member'[s] = member[s]
           /\ member'[r].is = "absent"
<1>1. /\ UNCHANGED <<sock, leaving, identity, queue, proc>> /\ UNCHANGED session
      /\ member' = [member EXCEPT ![r] = NoMember]
  BY DEF RemoveMember, CloseRoom, gateway, identity
<1>2. PICK t \in {"closed", "removed"}, b \in BOOLEAN :
        /\ outbox' = [outbox EXCEPT ![r] = Append(@, [type |-> t, clears |-> b])]
        /\ Has(r) => b = TRUE
  <2>1. CASE RemoveMember(r)
    BY <2>1 DEF RemoveMember
  <2>2. CASE CloseRoom(r)
    <3>1. Has(r) \in BOOLEAN
      BY DEF Has
    <3> QED
      BY <2>2, <3>1 DEF CloseRoom
  <2> QED
    BY <2>1, <2>2
<1>3. /\ outbox' \in [Rooms -> Seq(Removals)]
      /\ b = TRUE => Clears(outbox'[r])
      /\ \A s \in Rooms : Clears(outbox[s]) => Clears(outbox'[s])
  BY <1>2, OutboxGrows DEF SessionInv, Typed
<1>4. /\ member' \in [Rooms -> Members] /\ ~Has(r)'
      /\ \A s \in Rooms \ {r} : member'[s] = member[s]
  BY <1>1, NobodyIsThere DEF SessionInv, Typed
<1>5. SessionInv' /\ SameIdentity
  BY <1>1, <1>3, <1>4, RoomStep
<1> QED
  BY <1>1, <1>2, <1>3, <1>4, <1>5 DEF Has

LEMMA DeadlinePassesStep ==
    ASSUME SessionInv, NEW r \in Rooms, DeadlinePasses(r)
    PROVE  /\ SessionInv' /\ SameIdentity /\ UNCHANGED <<session, proc, outbox>>
           /\ \A s \in Rooms : Has(s)' <=> Has(s)
           /\ \A s \in Rooms : member[s].is = "up" => member'[s].is = "up"
<1>1. /\ UNCHANGED <<sock, leaving, identity, queue, proc>> /\ UNCHANGED <<session, outbox>>
      /\ member[r].is = "down"
      /\ member' = [member EXCEPT ![r].is = "overdue"]
  BY DEF DeadlinePasses, gateway, identity
<1>2. member[r] \in Members
  BY DEF SessionInv, Typed, RoomsTyped
<1>3. [member[r] EXCEPT !.is = "overdue"] \in Members
      /\ [member[r] EXCEPT !.is = "overdue"].is = "overdue"
  BY <1>2 DEF Members
<1>4. /\ member' \in [Rooms -> Members] /\ member'[r].is = "overdue"
      /\ \A s \in Rooms \ {r} : member'[s] = member[s]
  BY <1>1, <1>3 DEF SessionInv, Typed, RoomsTyped
<1>5. SessionInv' /\ SameIdentity
  BY <1>1, <1>4, RoomStep DEF SessionInv, Typed, RoomsTyped
<1>6. \A s \in Rooms : Has(s)' <=> Has(s)
  BY <1>1, <1>4 DEF Has
<1>7. \A s \in Rooms : member[s].is = "up" => member'[s].is = "up"
  BY <1>1, <1>4
<1> QED
  BY <1>1, <1>5, <1>6, <1>7

LEMMA ApplyExpiredStep ==
    ASSUME SessionInv, NEW r \in Rooms, ApplyExpired(r)
    PROVE  /\ SessionInv' /\ SameIdentity /\ session' = session
           /\ ~Has(r)' /\ Has(r) => Clears(outbox'[r])
           /\ \A s \in Rooms : Clears(outbox[s]) => Clears(outbox'[s])
           /\ \A s \in Rooms \ {r} : member'[s] = member[s]
           /\ member'[r].is = "absent"
           /\ \E p \in Procs :
                /\ proc'[p] = [proc[p] EXCEPT !.result = "committed"]
                /\ \A q \in Procs \ {p} : proc'[q] = proc[q]
                /\ proc[p].result = "none" /\ proc[p].room = r
                /\ proc[p].at = "joining" => r \in lapsed'
<1> DEFINE h == Head(queue[r])
           b == Has(r)
<1>1. /\ queue[r] # <<>> /\ queue' = [queue EXCEPT ![r] = Tail(@)]
      /\ UNCHANGED <<sock, leaving, gen, session, hub>> /\ UNCHANGED identity
      /\ member' = [member EXCEPT ![r] = NoMember]
      /\ proc' = [proc EXCEPT ![h.by].result = "committed"]
      /\ outbox' = [outbox EXCEPT ![r] = Append(@, [type |-> "closed", clears |-> b])]
      /\ h.cmd.type = "join" => r \in lapsed'
  BY DEF ApplyExpired, gateway, identity
<1>2. SameIdentity
  BY <1>1, NothingChanges
<1>3. Kept /\ Named'
  BY <1>1, <1>2, IdentityStays, StandingSockets DEF SessionInv, Named
<1>4. /\ queue' \in [Rooms -> Seq(Entries)]
      /\ proc' \in [Procs -> Waits] /\ \A q \in Procs : Directed(proc[q])'
      /\ Processes'
      /\ h.by \in Procs
      /\ Awaited(h, r)
      /\ proc'[h.by] = [proc[h.by] EXCEPT !.result = "committed"]
      /\ \A q \in Procs \ {h.by} : proc'[q] = proc[q]
  BY <1>1, <1>3, HeadIsAnswered DEF Answers
<1>5. b \in BOOLEAN
  BY DEF Has
<1> HIDE DEF b
<1>6. /\ outbox' \in [Rooms -> Seq(Removals)]
      /\ b = TRUE => Clears(outbox'[r])
      /\ \A s \in Rooms : Clears(outbox[s]) => Clears(outbox'[s])
  BY <1>1, <1>5, OutboxGrows DEF SessionInv, Typed
<1>7. /\ member' \in [Rooms -> Members] /\ ~Has(r)'
      /\ \A s \in Rooms \ {r} : member'[s] = member[s]
  BY <1>1, NobodyIsThere DEF SessionInv, Typed
<1>8. Typed'
  BY <1>1, <1>4, <1>6, <1>7 DEF SessionInv, Typed, Identified, RoomsTyped
<1>9. /\ proc[h.by].result = "none" /\ proc[h.by].room = r
      /\ proc[h.by].at = "joining" => r \in lapsed'
  BY <1>1, <1>4 DEF Awaited, Answering
<1>10. Has(r) => Clears(outbox'[r])
  BY <1>6 DEF b
<1> QED
  BY <1>1, <1>2, <1>3, <1>4, <1>6, <1>7, <1>8, <1>9, <1>10 DEF SessionInv, Has

\* A closed room's processes hear that their commands failed.
LEMMA QueueFails ==
    ASSUME SessionInv, Kept, NEW r \in Rooms,
           queue' = [queue EXCEPT ![r] = <<>>],
           proc' = [p \in Procs |-> IF \E i \in DOMAIN queue[r] : queue[r][i].by = p
                                    THEN [proc[p] EXCEPT !.result = "failed"] ELSE proc[p]]
    PROVE  /\ queue' \in [Rooms -> Seq(Entries)]
           /\ proc' \in [Procs -> Waits] /\ \A q \in Procs : Directed(proc[q])'
           /\ Processes'
           /\ \A q \in Procs : proc'[q] = proc[q] \/ (/\ proc[q].result = "none"
                                                      /\ proc'[q] = [proc[q] EXCEPT !.result = "failed"])
<1> DEFINE Fails(q) == \E i \in DOMAIN queue[r] : queue[r][i].by = q
<1>1. /\ queue \in [Rooms -> Seq(Entries)] /\ proc \in [Procs -> Waits]
      /\ \A q \in Procs : Directed(proc[q])
  BY DEF SessionInv, Typed, RoomsTyped
<1>2. <<>> \in Seq(Entries)
  OBVIOUS
<1>3. /\ queue' \in [Rooms -> Seq(Entries)] /\ queue'[r] = <<>>
      /\ \A s \in Rooms \ {r} : queue'[s] = queue[s]
  BY <1>1, <1>2
<1>4. \A q \in Procs : proc'[q] = IF Fails(q) THEN [proc[q] EXCEPT !.result = "failed"] ELSE proc[q]
  OBVIOUS
<1>5. \A q \in Procs : Fails(q) => /\ proc[q].at \in Waiting /\ proc[q].result = "none"
                                   /\ proc[q].room = r
  BY WhoAwaits DEF SessionInv
<1> HIDE DEF Fails
<1>6. ASSUME NEW q \in Procs
      PROVE  /\ proc'[q] \in Waits /\ Directed(proc[q])' /\ Placed(q)'
             /\ proc'[q].at = proc[q].at /\ proc'[q].room = proc[q].room
  <2>1. Placed(q) /\ Directed(proc[q]) /\ proc[q] \in Waits
    BY <1>1 DEF SessionInv, Processes
  <2>2. CASE ~Fails(q)
    <3>1. proc'[q] = proc[q]
      BY <1>4, <2>2
    <3> QED
      BY <2>1, <3>1, PlacedStays DEF Directed
  <2>3. CASE Fails(q)
    <3>1. proc'[q] = [proc[q] EXCEPT !.result = "failed"] /\ proc[q].at \in Waiting
      BY <1>4, <1>5, <2>3
    <3>2. /\ proc'[q] \in Waits /\ proc'[q].at = proc[q].at /\ proc'[q].room = proc[q].room
          /\ proc'[q].for = proc[q].for
      BY <2>1, <3>1 DEF Waits, Results
    <3>3. Directed(proc[q])'
      BY <2>1, <3>2 DEF Directed
    <3>4. Placed(q)'
      BY <2>1, <3>1, <3>2, ProcsConn DEF Placed, Kept
    <3> QED
      BY <3>2, <3>3, <3>4
  <2> QED
    BY <2>2, <2>3
<1>7. proc' \in [Procs -> Waits]
  BY <1>6
<1>8. ASSUME NEW s \in Rooms, NEW i \in DOMAIN queue'[s] PROVE Awaited(queue[s][i], s)'
  <2>1. s # r
    BY <1>3, <1>8
  <2>2. queue'[s] = queue[s]
    BY <1>3, <2>1
  <2>3. Awaited(queue[s][i], s) /\ queue[s][i].by \in Procs
    BY <2>2, EntryOfQueue DEF SessionInv, Processes, Typed
  <2>4. ~Fails(queue[s][i].by)
    BY <1>5, <2>1, <2>3 DEF Awaited
  <2>5. proc'[queue[s][i].by] = proc[queue[s][i].by]
    BY <1>4, <2>3, <2>4
  <2> QED
    BY <2>2, <2>3, <2>5 DEF Awaited
<1>9. \A s \in Rooms : \A i, j \in DOMAIN queue'[s] :
            queue'[s][i].by = queue'[s][j].by => i = j
  BY <1>3 DEF SessionInv, Processes
<1>10. Processes'
  BY <1>6, <1>8, <1>9 DEF Processes
<1>11. \A q \in Procs : proc'[q] = proc[q] \/ (/\ proc[q].result = "none"
                                               /\ proc'[q] = [proc[q] EXCEPT !.result = "failed"])
  BY <1>4, <1>5
<1> QED
  BY <1>3, <1>6, <1>7, <1>10, <1>11

\* The removal at the head of an outbox is delivered; the others go on waiting.
LEMMA OutboxShrinks ==
    ASSUME RoomsTyped, NEW r \in Rooms, outbox[r] # <<>>,
           outbox' = [outbox EXCEPT ![r] = Tail(@)]
    PROVE  /\ outbox' \in [Rooms -> Seq(Removals)] /\ Head(outbox[r]) \in Removals
           /\ Clears(outbox[r]) => Head(outbox[r]).clears = TRUE \/ Clears(outbox'[r])
           /\ \A s \in Rooms \ {r} : outbox'[s] = outbox[s]
<1>1. outbox \in [Rooms -> Seq(Removals)] /\ outbox[r] \in Seq(Removals)
  BY DEF RoomsTyped
<1>2. /\ Head(outbox[r]) \in Removals /\ Tail(outbox[r]) \in Seq(Removals)
      /\ Len(Tail(outbox[r])) = Len(outbox[r]) - 1
      /\ \A i \in 1 .. Len(Tail(outbox[r])) : Tail(outbox[r])[i] = outbox[r][i + 1]
      /\ Len(outbox[r]) \in Nat \ {0}
  BY <1>1, HeadTailProperties, EmptySeq, LenProperties
<1>3. /\ outbox'[r] = Tail(outbox[r]) /\ outbox' \in [Rooms -> Seq(Removals)]
      /\ \A s \in Rooms \ {r} : outbox'[s] = outbox[s]
  BY <1>1, <1>2
<1>4. /\ DOMAIN outbox[r] = 1 .. Len(outbox[r])
      /\ DOMAIN Tail(outbox[r]) = 1 .. Len(Tail(outbox[r]))
  BY <1>1, <1>2, LenProperties
<1>5. Head(outbox[r]) = outbox[r][1]
  OBVIOUS
<1>6. ASSUME NEW i \in DOMAIN outbox[r], outbox[r][i].clears = TRUE, i # 1
      PROVE  Clears(outbox'[r])
  <2>1. i - 1 \in 1 .. Len(Tail(outbox[r])) /\ (i - 1) + 1 = i
    BY <1>2, <1>4, <1>6
  <2>2. Tail(outbox[r])[i - 1] = outbox[r][i]
    BY <1>2, <2>1
  <2>3. i - 1 \in DOMAIN outbox'[r] /\ outbox'[r][i - 1].clears = TRUE
    BY <1>3, <1>4, <1>6, <2>1, <2>2
  <2> QED
    BY <2>3 DEF Clears
<1>7. Clears(outbox[r]) => Head(outbox[r]).clears = TRUE \/ Clears(outbox'[r])
  BY <1>5, <1>6 DEF Clears
<1> QED
  BY <1>2, <1>3, <1>7

LEMMA DeliverStep ==
    ASSUME SessionInv, NEW r \in Rooms, Deliver(r)
    PROVE  /\ SessionInv' /\ SameIdentity /\ member' = member
           /\ session'.room \in {session.room, None}
           /\ session.room = r /\ Clears(outbox[r])
                => session'.room = None \/ Clears(outbox'[r])
           /\ \A s \in Rooms \ {r} : outbox'[s] = outbox[s]
           /\ \A q \in Procs : proc'[q] = proc[q] \/ (/\ proc[q].result = "none"
                                                      /\ proc'[q] = [proc[q] EXCEPT !.result = "failed"])
<1> DEFINE effect == Head(outbox[r])
<1>1. /\ outbox[r] # <<>> /\ outbox' = [outbox EXCEPT ![r] = Tail(@)]
      /\ UNCHANGED <<sock, leaving, gen, member>>
      /\ IF effect.clears THEN ClearMember(r) ELSE UNCHANGED <<session, hub>>
  BY DEF Deliver, gateway
<1>2. /\ outbox' \in [Rooms -> Seq(Removals)] /\ effect \in Removals
      /\ Clears(outbox[r]) => effect.clears = TRUE \/ Clears(outbox'[r])
      /\ \A s \in Rooms \ {r} : outbox'[s] = outbox[s]
  BY <1>1, OutboxShrinks DEF SessionInv, Typed
<1>3. effect.clears \in BOOLEAN
  BY <1>2 DEF Removals
<1>4. \/ UNCHANGED <<queue, proc>>
      \/ /\ queue' = [queue EXCEPT ![r] = <<>>]
         /\ proc' = [p \in Procs |-> IF \E i \in DOMAIN queue[r] : queue[r][i].by = p
                                     THEN [proc[p] EXCEPT !.result = "failed"] ELSE proc[p]]
  BY DEF Deliver
<1> HIDE DEF effect
<1>5. /\ SameIdentity
      /\ session' \in Stored /\ hub' \in Connections \cup {None}
      /\ session'.room \in {session.room, None}
      /\ effect.clears = TRUE /\ session.room = r => session'.room = None
  <2>1. CASE effect.clears = TRUE
    <3>1. /\ SameIdentity
          /\ session' \in Stored /\ hub' \in Connections \cup {None}
          /\ session'.room \in {session.room, None}
          /\ session.live /\ session.room = r => session'.room = None
      BY <1>1, <2>1, ClearMemberStep DEF SessionInv, Typed
    <3>2. session.room = r => session.live = TRUE
      BY DEF SessionInv, Named
    <3> QED
      BY <3>1, <3>2
  <2>2. CASE effect.clears = FALSE
    <3>1. UNCHANGED <<gen, session, hub>>
      BY <1>1, <2>2
    <3> QED
      BY <2>2, <3>1 DEF SameIdentity, HubHolds, SessionInv, Typed, Identified
  <2> QED
    BY <1>3, <2>1, <2>2
<1>6. session'.room # None => session.live = TRUE
  BY <1>5 DEF SessionInv, Named
<1>7. SocketsMoveOn /\ sock' \in [Conns -> SockStates]
  BY <1>1, StandingSockets
<1>8. Kept /\ Named'
  BY <1>5, <1>6, <1>7, IdentityStays
<1>9. /\ queue' \in [Rooms -> Seq(Entries)]
      /\ proc' \in [Procs -> Waits] /\ \A q \in Procs : Directed(proc[q])'
      /\ Processes'
      /\ \A q \in Procs : proc'[q] = proc[q] \/ (/\ proc[q].result = "none"
                                                 /\ proc'[q] = [proc[q] EXCEPT !.result = "failed"])
  <2>1. CASE UNCHANGED <<queue, proc>>
    <3>1. Processes'
      BY <1>8, <2>1, ProcessesStay DEF SessionInv
    <3> QED
      BY <2>1, <3>1 DEF SessionInv, Typed, RoomsTyped, Directed
  <2>2. CASE /\ queue' = [queue EXCEPT ![r] = <<>>]
             /\ proc' = [p \in Procs |-> IF \E i \in DOMAIN queue[r] : queue[r][i].by = p
                                         THEN [proc[p] EXCEPT !.result = "failed"] ELSE proc[p]]
    BY <1>8, <2>2, QueueFails
  <2> QED
    BY <1>4, <2>1, <2>2
<1>10. Typed'
  BY <1>1, <1>2, <1>5, <1>7, <1>9 DEF SessionInv, Typed, Identified, RoomsTyped
<1> QED
  BY <1>1, <1>2, <1>5, <1>8, <1>9, <1>10 DEF SessionInv

-----------------------------------------------------------------------------
(* The invariant holds, and superseded connections never harm their successor *)

LEMMA SessionInvHoldsAtFirst == Init => SessionInv
<1> SUFFICES ASSUME Init PROVE SessionInv
  OBVIOUS
<1>1. Identified
  BY DEF Init, Identified, SockStates, Stored, SomeRoom, SomeConn
<1>2. NoMember \in Members /\ <<>> \in Seq(Entries) /\ <<>> \in Seq(Removals)
  BY DEF NoMember, Members, SomeConn
<1>3. RoomsTyped
  BY <1>2 DEF Init, RoomsTyped
<1>4. proc \in [Procs -> Waits] /\ \A p \in Procs : proc[p] = Idle
  BY IdleWaits DEF Init
<1>5. Typed
  BY <1>1, <1>3, <1>4, IdleWaits DEF Typed
<1>6. Named
  BY DEF Init, Named
<1>7. \A p \in Procs : Placed(p)
  BY <1>4, IdleWaits DEF Placed, Losing
<1>8. Processes
  BY <1>7 DEF Init, Processes
<1> QED
  BY <1>5, <1>6, <1>8 DEF SessionInv

\* What SuccessorKept says of a step.
KeepsSuccessor ==
    \A c \in Conns : Current(c) =>
        /\ Current(c)' \/ sock'[c] = "closed" \/ \E d \in Conns \ {c} : Current(d)'
        /\ HubHolds(c) /\ Current(c)' => HubHolds(c)' \/ c \in leaving'
        /\ \A r \in Rooms :
                HubHolds(c) /\ Current(c)' /\ member[r].is = "up" /\ member[r].conn = c
                    => member[r]'.is \notin {"down", "overdue"}

\* A step that changes nobody's identity keeps the successor, if whomever it counts lost
\* has gone.
LEMMA SameIdentityKeeps ==
    ASSUME SessionInv, SameIdentity,
           \A s \in Rooms : member[s].is = "up" /\ member'[s].is \in {"down", "overdue"}
                => Gone(member[s].conn)
    PROVE  KeepsSuccessor
<1>1. \A c \in Conns : (Current(c)' <=> Current(c)) /\ (HubHolds(c)' <=> HubHolds(c))
  BY DEF SameIdentity, Current
<1>2. \A c \in Conns : Current(c) /\ HubHolds(c) => ~Gone(c)
  BY DEF Gone
<1> QED
  BY <1>1, <1>2 DEF KeepsSuccessor

\* The same when no membership changes.
LEMMA SameMembersKeep ==
    ASSUME SessionInv, SameIdentity, UNCHANGED member
    PROVE  KeepsSuccessor
  BY SameIdentityKeeps

LEMMA GatewayKeeps ==
    ASSUME SessionInv, NEW c \in Conns, Gateway(c)
    PROVE  SessionInv' /\ KeepsSuccessor
<1>1. CASE \/ Upgrade(c) \/ UpgradeAborted(c) \/ Attach(c) \/ HelloAsGuest(c)
           \/ ResumeRefused(c) \/ GatewayCloses(c)
  <2>1. SessionInv' /\ SameIdentity
    BY <1>1, PlainSocketSteps
  <2>2. UNCHANGED member
    BY <1>1 DEF Upgrade, UpgradeAborted, Attach, HelloAsGuest, ResumeRefused, GatewayCloses,
                rooms
  <2> QED
    BY <2>1, <2>2, SameMembersKeep
<1>2. ASSUME NEW arrives \in BOOLEAN, CreateGuest(c, arrives)
      PROVE  SessionInv' /\ KeepsSuccessor
  BY <1>2, CreateGuestStep DEF KeepsSuccessor
<1>3. ASSUME NEW arrives \in BOOLEAN, ResumeGuest(c, arrives)
      PROVE  SessionInv' /\ KeepsSuccessor
  <2>1. /\ SessionInv' /\ gen[c] = None
        /\ Current(c)' /\ \A d \in Conns \ {c} : ~Current(d)'
    BY <1>3, ResumeGuestStep
  <2>2. ~Current(c)
    BY <2>1 DEF Current, SessionInv, Typed, Identified, Stored
  <2> QED
    BY <2>1, <2>2 DEF KeepsSuccessor
<1>4. CASE HubDetaches(c)
  <2>1. SessionInv'
    BY <1>4, HubDetachesStep
  <2>2. /\ hub' = None /\ leaving' = leaving \cup {c} /\ HubHolds(c)
        /\ UNCHANGED <<gen, session, member>>
    BY <1>4 DEF HubDetaches, rooms
  <2>3. \A d \in Conns : Current(d)' <=> Current(d)
    BY <2>2 DEF Current
  <2>4. \A d \in Conns : HubHolds(d) => d = c
    BY <2>2 DEF HubHolds
  <2> QED
    BY <2>1, <2>2, <2>3, <2>4 DEF KeepsSuccessor
<1>5. CASE SocketCloses(c)
  <2>1. /\ SessionInv'
        /\ \/ SameIdentity
           \/ Current(c) /\ \A d \in Conns : ~Current(d)'
        /\ sock'[c] = "closed" /\ UNCHANGED member
    BY <1>5, SocketClosesStep
  <2>2. CASE SameIdentity
    BY <2>1, <2>2, SameMembersKeep
  <2>3. CASE Current(c) /\ \A d \in Conns : ~Current(d)'
    <3>1. \A d \in Conns : Current(d) => d = c
      BY <2>3 DEF Current
    <3> QED
      BY <2>1, <2>3, <3>1 DEF KeepsSuccessor
  <2> QED
    BY <2>1, <2>2, <2>3
<1> QED
  BY <1>1, <1>2, <1>3, <1>4, <1>5 DEF Gateway

LEMMA MessageKeeps ==
    ASSUME SessionInv, NEW c \in Conns, Message(c)
    PROVE  SessionInv' /\ KeepsSuccessor
<1>1. PICK r \in Rooms : Join(c, r) \/ Leave(c, r) \/ Create(c, r)
  BY DEF Message
<1>2. CASE Join(c, r) \/ Leave(c, r)
  <2>1. SessionInv' /\ SameIdentity /\ UNCHANGED member
    BY <1>2, JoinStep, LeaveStep DEF Join, Leave
  <2> QED
    BY <2>1, SameMembersKeep
<1>3. CASE Create(c, r)
  <2>1. /\ SessionInv' /\ SameIdentity /\ member'[r].is = "up"
        /\ \A s \in Rooms \ {r} : member'[s] = member[s]
    BY <1>3, CreateStep
  <2>2. \A s \in Rooms : member[s].is = "up" => member'[s].is = "up"
    BY <2>1
  <2> QED
    BY <2>1, <2>2, SameIdentityKeeps
<1> QED
  BY <1>1, <1>2, <1>3

LEMMA ProcessKeeps ==
    ASSUME SessionInv, NEW p \in Procs, Goes(p)
    PROVE  SessionInv' /\ KeepsSuccessor
<1>1. SessionInv' /\ SameIdentity
  BY TryLoseStep, LoseAnsweredStep, TryRestoreStep, RestoreAnsweredStep, JoinAnsweredStep,
     LeaveAnsweredStep DEF Goes
<1>2. UNCHANGED member
  BY DEF Goes, TryLose, LoseAnswered, TryRestore, RestoreAnswered, JoinAnswered, LeaveAnswered,
         rooms
<1> QED
  BY <1>1, <1>2, SameMembersKeep

LEMMA RoomKeeps ==
    ASSUME SessionInv, NEW r \in Rooms, RoomActs(r)
    PROVE  SessionInv' /\ KeepsSuccessor
<1>1. CASE Apply(r)
  BY <1>1, ApplyStep, SameIdentityKeeps
<1>2. CASE ApplyExpired(r)
  <2>1. /\ SessionInv' /\ SameIdentity /\ member'[r].is = "absent"
        /\ \A s \in Rooms \ {r} : member'[s] = member[s]
    BY <1>2, ApplyExpiredStep
  <2>2. \A s \in Rooms : member[s].is = "up" => member'[s].is \in {"up", "absent"}
    BY <2>1
  <2> QED
    BY <2>1, <2>2, SameIdentityKeeps
<1>3. CASE RemoveMember(r) \/ CloseRoom(r)
  <2>1. /\ SessionInv' /\ SameIdentity /\ member'[r].is = "absent"
        /\ \A s \in Rooms \ {r} : member'[s] = member[s]
    BY <1>3, RemovalStep
  <2>2. \A s \in Rooms : member[s].is = "up" => member'[s].is \in {"up", "absent"}
    BY <2>1
  <2> QED
    BY <2>1, <2>2, SameIdentityKeeps
<1>4. CASE DeadlinePasses(r)
  <2>1. /\ SessionInv' /\ SameIdentity
        /\ \A s \in Rooms : member[s].is = "up" => member'[s].is = "up"
    BY <1>4, DeadlinePassesStep
  <2> QED
    BY <2>1, SameIdentityKeeps
<1>5. CASE Deliver(r)
  BY <1>5, DeliverStep, SameMembersKeep
<1> QED
  BY <1>1, <1>2, <1>3, <1>4, <1>5 DEF RoomActs

LEMMA StepKeeps ==
    ASSUME SessionInv, Next
    PROVE  SessionInv' /\ KeepsSuccessor
  BY GatewayKeeps, MessageKeeps, ProcessKeeps, RoomKeeps DEF Next

LEMMA SessionInvStays == SessionInv /\ [Next]_vars => SessionInv'
<1> SUFFICES ASSUME SessionInv, [Next]_vars PROVE SessionInv'
  OBVIOUS
<1>1. CASE Next
  BY <1>1, StepKeeps
<1>2. CASE UNCHANGED vars
  <2>1. UNCHANGED <<sock, leaving, identity, queue, proc, member, outbox>>
    BY <1>2 DEF vars, gateway, rooms
  <2> QED
    BY <2>1, RoomStep DEF SessionInv, Typed, RoomsTyped
<1> QED
  BY <1>1, <1>2

LEMMA SessionInvHolds == Spec => []SessionInv
  BY SessionInvHoldsAtFirst, SessionInvStays, PTL DEF Spec

\* A connection that was superseded never takes its successor's place away: the session's
\* connection ceases to be that only by its own close or a later resume, the hub lets it go
\* only to close it, and until then no step counts its member lost, however many
\* connections and rooms there are (sessionStore.ts releaseConnection, connectionHub.ts,
\* roomManager.ts connectionLost).
THEOREM SuccessorsAreKept == Spec => SuccessorKept
<1>1. SessionInv /\ [Next]_vars => [KeepsSuccessor]_vars
  BY StepKeeps
<1>2. [KeepsSuccessor]_vars =>
        [\A c \in Conns : Current(c) =>
            /\ Current(c)' \/ sock'[c] = "closed" \/ \E d \in Conns \ {c} : Current(d)'
            /\ HubHolds(c) /\ Current(c)' => HubHolds(c)' \/ c \in leaving'
            /\ \A r \in Rooms :
                    HubHolds(c) /\ Current(c)' /\ member[r].is = "up" /\ member[r].conn = c
                        => member[r]'.is \notin {"down", "overdue"}]_vars
  BY DEF KeepsSuccessor
<1> QED
  BY <1>1, <1>2, SessionInvHolds, PTL DEF Spec, SuccessorKept

-----------------------------------------------------------------------------
(* A session that is bound to a room is a member there, once all is settled *)

\* A request under way will undo the binding, or has just ended the membership.
Undoes(w, r) ==
    /\ w.room = r
    /\ \/ w.at = "joining" /\ w.reserved = TRUE /\ w.result # "committed"
       \/ w.at = "leaving" /\ w.result = "committed"

\* A session bound to a room where the guest has no place will be unbound: by a removal that
\* is on its way, or by the request that made the binding or ended the membership, unless the
\* room's expiry was found by his join.
Bound ==
    \A r \in Rooms \ lapsed : session.room = r /\ ~Has(r) =>
        Clears(outbox[r]) \/ \E p \in Procs : Undoes(proc[p], r)

\* How a step that binds nobody anew keeps Bound.
LEMMA BoundStays ==
    ASSUME SessionInv, Bound,
           session'.room \in {session.room, None}, lapsed \subseteq lapsed',
           \A r \in Rooms : session.room = r /\ session'.room = r /\ Has(r) =>
                Has(r)' \/ Clears(outbox'[r]) \/ \E p \in Procs : Undoes(proc'[p], r),
           \A r \in Rooms : session.room = r /\ session'.room = r /\ Clears(outbox[r]) =>
                Has(r)' \/ Clears(outbox'[r]),
           \A r \in Rooms \ lapsed', p \in Procs :
                session.room = r /\ session'.room = r /\ Undoes(proc[p], r) =>
                    Has(r)' \/ Undoes(proc'[p], r)
    PROVE  Bound'
<1> SUFFICES ASSUME NEW r \in Rooms \ lapsed', session'.room = r, ~Has(r)'
             PROVE  Clears(outbox'[r]) \/ \E p \in Procs : Undoes(proc'[p], r)
  BY DEF Bound
<1>1. session.room = r /\ r \in Rooms \ lapsed
  OBVIOUS
<1>2. CASE Has(r)
  BY <1>1, <1>2
<1>3. CASE Clears(outbox[r])
  BY <1>1, <1>3
<1>4. CASE \E p \in Procs : Undoes(proc[p], r)
  BY <1>1, <1>4
<1> QED
  BY <1>1, <1>2, <1>3, <1>4 DEF Bound

\* How a step of one process, which undoes nothing in the session's room or unbinds it, does.
LEMMA BoundPast ==
    ASSUME SessionInv, Bound, UNCHANGED <<member, outbox>>, lapsed \subseteq lapsed',
           session'.room \in {session.room, None}, NEW p \in Procs,
           \A q \in Procs \ {p} : proc'[q] = proc[q],
           Undoes(proc[p], session.room) => session'.room = None
    PROVE  Bound'
<1>1. \A r \in Rooms : Has(r)' <=> Has(r)
  BY DEF Has
<1> QED
  BY <1>1, BoundStays

LEMMA GatewayBinds ==
    ASSUME SessionInv, Bound, lapsed \subseteq lapsed', NEW c \in Conns, Gateway(c)
    PROVE  Bound'
<1>1. CASE /\ Upgrade(c) \/ UpgradeAborted(c) \/ Attach(c) \/ HelloAsGuest(c)
              \/ ResumeRefused(c) \/ GatewayCloses(c) \/ HubDetaches(c)
  <2>1. UNCHANGED <<session, member, outbox, proc>>
    BY <1>1 DEF Upgrade, UpgradeAborted, Attach, HelloAsGuest, ResumeRefused, GatewayCloses,
                HubDetaches, identity, rooms
  <2> QED
    BY <2>1 DEF Bound, Has
<1>2. ASSUME NEW arrives \in BOOLEAN, CreateGuest(c, arrives) PROVE Bound'
  <2>1. session'.room = None
    BY <1>2 DEF CreateGuest, Authenticated
  <2> QED
    BY <2>1 DEF Bound
<1>3. ASSUME NEW arrives \in BOOLEAN, ResumeGuest(c, arrives) PROVE Bound'
  <2>1. /\ proc[<<c, "lane">>].at = "idle"
        /\ \A q \in Procs \ {<<c, "lane">>} : proc'[q] = proc[q]
        /\ session'.room \in {session.room, None}
        /\ UNCHANGED <<member, outbox>>
    BY <1>3, ResumeGuestStep DEF ResumeGuest
  <2>2. ~Undoes(proc[<<c, "lane">>], session.room)
    BY <2>1 DEF Undoes
  <2> QED
    BY <2>1, <2>2, BoundPast, ProcsLane
<1>4. CASE SocketCloses(c)
  <2>1. /\ session'.room = session.room
        /\ proc[<<c, "close">>].at = "idle"
        /\ \A q \in Procs \ {<<c, "close">>} : proc'[q] = proc[q]
        /\ UNCHANGED <<member, outbox>>
    BY <1>4, SocketClosesStep
  <2>2. ~Undoes(proc[<<c, "close">>], session.room)
    BY <2>1 DEF Undoes
  <2> QED
    BY <2>1, <2>2, BoundPast, ProcsLane
<1> QED
  BY <1>1, <1>2, <1>3, <1>4 DEF Gateway

LEMMA MessageBinds ==
    ASSUME Careful = TRUE, SessionInv, Bound, lapsed \subseteq lapsed', NEW c \in Conns,
           Message(c)
    PROVE  Bound'
<1>1. PICK r \in Rooms : Join(c, r) \/ Leave(c, r) \/ Create(c, r)
  BY DEF Message
<1>2. CASE Join(c, r)
  <2>1. /\ session'.room = r
        /\ proc'[<<c, "lane">>].at = "joining" /\ proc'[<<c, "lane">>].room = r
        /\ proc'[<<c, "lane">>].reserved = Reserves(r)
        /\ proc'[<<c, "lane">>].result \in {"none", "failed"}
    BY <1>2, JoinStep
  <2>2. Reserves(r) = TRUE
    BY <1>2 DEF Join, Reserves
  <2>3. Undoes(proc'[<<c, "lane">>], r)
    BY <2>1, <2>2 DEF Undoes
  <2> QED
    BY <2>1, <2>3, ProcsLane DEF Bound
<1>3. CASE Leave(c, r)
  <2>1. /\ proc[<<c, "lane">>].at = "idle"
        /\ \A q \in Procs \ {<<c, "lane">>} : proc'[q] = proc[q]
        /\ session'.room \in {session.room, None}
        /\ UNCHANGED <<member, outbox>>
    BY <1>3, LeaveStep DEF Leave
  <2>2. ~Undoes(proc[<<c, "lane">>], session.room)
    BY <2>1 DEF Undoes
  <2> QED
    BY <2>1, <2>2, BoundPast, ProcsLane
<1>4. CASE Create(c, r)
  <2>1. session'.room = r /\ member'[r].is = "up"
    BY <1>4, CreateStep
  <2> QED
    BY <2>1 DEF Bound, Has
<1> QED
  BY <1>1, <1>2, <1>3, <1>4

LEMMA ProcessBinds ==
    ASSUME SessionInv, Bound, lapsed \subseteq lapsed', NEW p \in Procs, Goes(p)
    PROVE  Bound'
<1>1. UNCHANGED <<member, outbox>>
  BY DEF Goes, TryLose, LoseAnswered, TryRestore, RestoreAnswered, JoinAnswered, LeaveAnswered,
         rooms
<1>2. CASE \/ TryLose(p) \/ LoseAnswered(p)
           \/ \E after \in {"resume", "rejoin"} : TryRestore(p, after) \/ RestoreAnswered(p, after)
  <2>1. /\ \A q \in Procs \ {p} : proc'[q] = proc[q]
        /\ session'.room \in {session.room, None}
    BY <1>2, TryLoseStep, LoseAnsweredStep, TryRestoreStep, RestoreAnsweredStep
  <2>2. proc[p].at \notin {"joining", "leaving"}
    BY <1>2 DEF TryLose, LoseAnswered, TryRestore, RestoreAnswered, Awaiting
  <2>3. ~Undoes(proc[p], session.room)
    BY <2>2 DEF Undoes
  <2> QED
    BY <1>1, <2>1, <2>3, BoundPast
<1>3. CASE JoinAnswered(p)
  <2>1. /\ \A q \in Procs \ {p} : proc'[q] = proc[q]
        /\ session'.room \in {session.room, None}
        /\ (proc[p].result # "committed" /\ proc[p].reserved = TRUE
                /\ session.room = proc[p].room) => session'.room = None
    BY <1>3, JoinAnsweredStep
  <2>2. proc[p].at = "joining"
    BY <1>3 DEF JoinAnswered
  <2>3. Undoes(proc[p], session.room) => session'.room = None
    BY <2>1, <2>2 DEF Undoes
  <2> QED
    BY <1>1, <2>1, <2>3, BoundPast
<1>4. CASE LeaveAnswered(p)
  <2>1. /\ \A q \in Procs \ {p} : proc'[q] = proc[q]
        /\ session'.room \in {session.room, None}
        /\ (proc[p].result = "committed" /\ session.room = proc[p].room)
                => session'.room = None
    BY <1>4, LeaveAnsweredStep
  <2>2. proc[p].at = "leaving"
    BY <1>4 DEF LeaveAnswered
  <2>3. Undoes(proc[p], session.room) => session'.room = None
    BY <2>1, <2>2 DEF Undoes
  <2> QED
    BY <1>1, <2>1, <2>3, BoundPast
<1> QED
  BY <1>2, <1>3, <1>4 DEF Goes

\* A receipt of a process that had none: what it undoes afterwards.
LEMMA AfterReceipt ==
    ASSUME NEW w \in Waits, NEW a \in Results, w.result = "none", NEW r
    PROVE  /\ ~(w.at = "joining" /\ a = "committed") /\ Undoes(w, r)
                => Undoes([w EXCEPT !.result = a], r)
           /\ w.at = "leaving" /\ w.room = r /\ a = "committed" => Undoes([w EXCEPT !.result = a], r)
<1>1. /\ [w EXCEPT !.result = a].at = w.at /\ [w EXCEPT !.result = a].room = w.room
      /\ [w EXCEPT !.result = a].reserved = w.reserved /\ [w EXCEPT !.result = a].result = a
  BY DEF Waits
<1> QED
  BY <1>1 DEF Undoes

LEMMA RoomBinds ==
    ASSUME SessionInv, Bound, lapsed \subseteq lapsed', NEW r \in Rooms, RoomActs(r)
    PROVE  Bound'
<1>1. CASE Apply(r)
  <2>1. PICK p \in Procs, a \in Answers :
            /\ proc'[p] = [proc[p] EXCEPT !.result = a]
            /\ \A q \in Procs \ {p} : proc'[q] = proc[q]
            /\ proc[p].room = r /\ proc[p].result = "none"
            /\ \A s \in Rooms : Has(s) /\ ~Has(s)' =>
                    s = r /\ proc[p].at = "leaving" /\ a = "committed"
            /\ proc[p].at = "joining" /\ a = "committed" => Has(r)'
    BY <1>1, ApplyStep
  <2>2. session' = session /\ outbox' = outbox
    BY <1>1, ApplyStep
  <2>3. proc[p] \in Waits /\ a \in Results
    BY DEF SessionInv, Typed, Answers, Results
  <2>4. \A s \in Rooms : Has(s) /\ ~Has(s)' => Undoes(proc'[p], s)
    BY <2>1, <2>3, AfterReceipt
  <2>5. \A s \in Rooms : Undoes(proc[p], s) => Has(s)' \/ Undoes(proc'[p], s)
    <3> SUFFICES ASSUME NEW s \in Rooms, Undoes(proc[p], s), ~Has(s)' PROVE Undoes(proc'[p], s)
      OBVIOUS
    <3>1. s = r
      BY <2>1 DEF Undoes
    <3> QED
      BY <2>1, <2>3, <3>1, AfterReceipt
  <2>6. \A s \in Rooms, q \in Procs : Undoes(proc[q], s) => Has(s)' \/ Undoes(proc'[q], s)
    BY <2>1, <2>5
  <2> QED
    BY <2>2, <2>4, <2>6, BoundStays
<1>2. CASE ApplyExpired(r)
  <2>1. /\ session' = session
        /\ ~Has(r)' /\ Has(r) => Clears(outbox'[r])
        /\ \A s \in Rooms : Clears(outbox[s]) => Clears(outbox'[s])
        /\ \A s \in Rooms \ {r} : member'[s] = member[s]
    BY <1>2, ApplyExpiredStep
  <2>2. PICK p \in Procs :
            /\ proc'[p] = [proc[p] EXCEPT !.result = "committed"]
            /\ \A q \in Procs \ {p} : proc'[q] = proc[q]
            /\ proc[p].result = "none" /\ proc[p].room = r
            /\ proc[p].at = "joining" => r \in lapsed'
    BY <1>2, ApplyExpiredStep
  <2>3. proc[p] \in Waits /\ "committed" \in Results
    BY DEF SessionInv, Typed, Results
  <2>4. ASSUME NEW s \in Rooms \ lapsed', NEW q \in Procs, Undoes(proc[q], s)
        PROVE  Undoes(proc'[q], s)
    <3>1. CASE q = p
      <4>1. s = r /\ proc[p].at # "joining"
        BY <2>2, <2>4, <3>1 DEF Undoes
      <4> QED
        BY <2>2, <2>3, <2>4, <3>1, <4>1, AfterReceipt DEF Undoes
    <3> QED
      BY <2>2, <2>4, <3>1
  <2>5. \A s \in Rooms : Has(s) => Has(s)' \/ Clears(outbox'[s])
    BY <2>1 DEF Has
  <2> QED
    BY <2>1, <2>4, <2>5, BoundStays
<1>3. CASE RemoveMember(r) \/ CloseRoom(r)
  <2>1. /\ UNCHANGED <<session, proc>>
        /\ ~Has(r)' /\ Has(r) => Clears(outbox'[r])
        /\ \A s \in Rooms : Clears(outbox[s]) => Clears(outbox'[s])
        /\ \A s \in Rooms \ {r} : member'[s] = member[s]
    BY <1>3, RemovalStep
  <2>2. \A s \in Rooms : Has(s) => Has(s)' \/ Clears(outbox'[s])
    BY <2>1 DEF Has
  <2> QED
    BY <2>1, <2>2, BoundStays
<1>4. CASE DeadlinePasses(r)
  <2>1. /\ UNCHANGED <<session, proc, outbox>>
        /\ \A s \in Rooms : Has(s)' <=> Has(s)
    BY <1>4, DeadlinePassesStep
  <2> QED
    BY <2>1, BoundStays
<1>5. CASE Deliver(r)
  <2>1. /\ member' = member
        /\ session'.room \in {session.room, None}
        /\ session.room = r /\ Clears(outbox[r])
             => session'.room = None \/ Clears(outbox'[r])
        /\ \A s \in Rooms \ {r} : outbox'[s] = outbox[s]
        /\ \A q \in Procs : proc'[q] = proc[q] \/ (/\ proc[q].result = "none"
                                                   /\ proc'[q] = [proc[q] EXCEPT !.result = "failed"])
    BY <1>5, DeliverStep
  <2>2. "failed" \in Results /\ \A q \in Procs : proc[q] \in Waits
    BY DEF SessionInv, Typed, Results
  <2>3. ASSUME NEW s \in Rooms, NEW q \in Procs, Undoes(proc[q], s) PROVE Undoes(proc'[q], s)
    <3>1. CASE proc'[q] = proc[q]
      BY <2>3, <3>1
    <3>2. CASE proc[q].result = "none" /\ proc'[q] = [proc[q] EXCEPT !.result = "failed"]
      <4>1. Undoes([proc[q] EXCEPT !.result = "failed"], s)
        BY <2>2, <2>3, <3>2, AfterReceipt
      <4> QED
        BY <3>2, <4>1
    <3> QED
      BY <2>1, <3>1, <3>2
  <2>4. \A s \in Rooms : Has(s) => Has(s)'
    BY <2>1 DEF Has
  <2>5. \A s \in Rooms : session.room = s /\ session'.room = s /\ Clears(outbox[s]) =>
            Clears(outbox'[s])
    <3> SUFFICES ASSUME NEW s \in Rooms, session.room = s, session'.room = s, Clears(outbox[s])
                 PROVE  Clears(outbox'[s])
      OBVIOUS
    <3>1. CASE s = r
      BY <2>1, <3>1
    <3>2. CASE s # r
      BY <2>1, <3>2
    <3> QED
      BY <3>1, <3>2
  <2> QED
    BY <2>1, <2>3, <2>4, <2>5, BoundStays
<1> QED
  BY <1>1, <1>2, <1>3, <1>4, <1>5 DEF RoomActs

LEMMA LapsedStays == ASSUME Next PROVE lapsed \subseteq lapsed'
<1>1. ASSUME NEW c \in Conns, Gateway(c) PROVE lapsed' = lapsed
  BY <1>1 DEF Gateway, Upgrade, UpgradeAborted, Attach, HelloAsGuest, CreateGuest, ResumeGuest,
              ResumeRefused, GatewayCloses, HubDetaches, SocketCloses, rooms
<1>2. ASSUME NEW c \in Conns, Message(c) PROVE lapsed' = lapsed
  BY <1>2 DEF Message, Join, Leave, Create
<1>3. ASSUME NEW p \in Procs, Goes(p) PROVE lapsed' = lapsed
  BY <1>3 DEF Goes, TryLose, LoseAnswered, TryRestore, RestoreAnswered, JoinAnswered,
              LeaveAnswered, rooms
<1>4. ASSUME NEW r \in Rooms, RoomActs(r) PROVE lapsed \subseteq lapsed'
  BY <1>4 DEF RoomActs, Apply, ApplyExpired, RemoveMember, DeadlinePasses, CloseRoom, Deliver
<1> QED
  BY <1>1, <1>2, <1>3, <1>4 DEF Next

LEMMA BoundStaysInv ==
    ASSUME Careful = TRUE
    PROVE  SessionInv /\ Bound /\ [Next]_vars => Bound'
<1> SUFFICES ASSUME SessionInv, Bound, [Next]_vars PROVE Bound'
  OBVIOUS
<1>1. CASE Next
  BY <1>1, LapsedStays, GatewayBinds, MessageBinds, ProcessBinds, RoomBinds DEF Next
<1>2. CASE UNCHANGED vars
  BY <1>2 DEF vars, identity, rooms, Bound, Has
<1> QED
  BY <1>1, <1>2

\* When nothing is under way, a session bound to a room has a membership there, however many
\* connections and rooms there are and however long their queues, if the guest waits for
\* what he asked before he asks again, and unless the room's expiry was found by his join:
\* no request that failed, and no removal, leaves a binding that would bar every other room
\* (roomMessageService.ts handleJoin, roomEffectActions.ts clearMemberOnce).
THEOREM BindingsAreMemberships ==
    ASSUME Careful = TRUE
    PROVE  Spec => []BindingIsMembership
<1>1. Init => Bound
  BY DEF Init, Bound
<1>2. SessionInv /\ Bound => BindingIsMembership
  <2> SUFFICES ASSUME SessionInv, Bound, Settled, session.room # None,
                      session.room \notin lapsed
               PROVE  Has(session.room)
    BY DEF BindingIsMembership
  <2>1. session.room \in Rooms
    BY DEF SessionInv, Typed, Identified, Stored, SomeRoom
  <2>2. \A p \in Procs : proc[p].at = "idle"
    BY DEF Settled, Pending
  <2>3. \A r \in Rooms : outbox[r] = <<>>
    BY DEF Settled, Unremoved
  <2>4. ~Clears(outbox[session.room])
    BY <2>1, <2>3 DEF Clears
  <2>5. \A p \in Procs : ~Undoes(proc[p], session.room)
    BY <2>2 DEF Undoes
  <2> QED
    BY <2>1, <2>4, <2>5 DEF Bound
<1> QED
  BY <1>1, <1>2, SessionInvHolds, BoundStaysInv, PTL DEF Spec

-----------------------------------------------------------------------------
(* The gateway's counts *)

UpgradingNow == {c \in Conns : sock[c] = "upgrading"}
CountedNow == {c \in Conns : sock[c] \notin {"absent", "closed"}}

\* What the gateway counts is finite: it begins with nothing, and connections come one by one.
Counted ==
    /\ IsFiniteSet(UpgradingNow) /\ pendingUpgrades = Cardinality(UpgradingNow)
    /\ IsFiniteSet(CountedNow) /\ addressCount = Cardinality(CountedNow)

\* The sets after a step of one socket.
LEMMA SetsAfter ==
    ASSUME SessionInv, NEW c \in Conns, NEW s, sock' = [sock EXCEPT ![c] = s]
    PROVE  /\ UpgradingNow' = IF s = "upgrading" THEN UpgradingNow \cup {c}
                                                 ELSE UpgradingNow \ {c}
           /\ CountedNow' = IF s \notin {"absent", "closed"} THEN CountedNow \cup {c}
                                                             ELSE CountedNow \ {c}
<1>1. sock'[c] = s /\ \A d \in Conns \ {c} : sock'[d] = sock[d]
  BY DEF SessionInv, Typed, Identified
<1> QED
  BY <1>1 DEF UpgradingNow, CountedNow

LEMMA OneMore ==
    ASSUME NEW S, IsFiniteSet(S), NEW x, x \notin S
    PROVE  IsFiniteSet(S \cup {x}) /\ Cardinality(S \cup {x}) = Cardinality(S) + 1
  BY FS_AddElement

LEMMA OneLess ==
    ASSUME NEW S, IsFiniteSet(S), NEW x \in S
    PROVE  IsFiniteSet(S \ {x}) /\ Cardinality(S \ {x}) = Cardinality(S) - 1
  BY FS_RemoveElement

\* An attached socket that stays attached.
Attached == {"fresh", "nameless", "open", "terminal"}

LEMMA SameCounts ==
    ASSUME SessionInv, Counted, UNCHANGED <<pendingUpgrades, addressCount>>,
           NEW c \in Conns, NEW s \in Attached, sock[c] \in Attached,
           sock' = [sock EXCEPT ![c] = s]
    PROVE  Counted'
<1>1. c \notin UpgradingNow /\ c \in CountedNow
  BY DEF UpgradingNow, CountedNow, Attached
<1>2. s # "upgrading" /\ s \notin {"absent", "closed"}
  BY DEF Attached
<1>3. UpgradingNow' = UpgradingNow \ {c} /\ CountedNow' = CountedNow \cup {c}
  BY <1>2, SetsAfter
<1>4. UpgradingNow' = UpgradingNow /\ CountedNow' = CountedNow
  BY <1>1, <1>3
<1> QED
  BY <1>4 DEF Counted

LEMMA GatewayCounts ==
    ASSUME SessionInv, Counted, NEW c \in Conns, Gateway(c)
    PROVE  Counted'
<1>1. CASE Upgrade(c)
  <2>1. UpgradingNow' = UpgradingNow \cup {c} /\ CountedNow' = CountedNow \cup {c}
    BY <1>1, SetsAfter DEF Upgrade
  <2>2. c \notin UpgradingNow /\ c \notin CountedNow
    BY <1>1 DEF Upgrade, UpgradingNow, CountedNow
  <2> QED
    BY <1>1, <2>1, <2>2, OneMore DEF Upgrade, Counted
<1>2. CASE UpgradeAborted(c)
  <2>1. UpgradingNow' = UpgradingNow \ {c} /\ CountedNow' = CountedNow \ {c}
    BY <1>2, SetsAfter DEF UpgradeAborted
  <2>2. c \in UpgradingNow /\ c \in CountedNow
    BY <1>2 DEF UpgradeAborted, UpgradingNow, CountedNow
  <2> QED
    BY <1>2, <2>1, <2>2, OneLess DEF UpgradeAborted, Counted
<1>3. CASE Attach(c)
  <2>1. UpgradingNow' = UpgradingNow \ {c} /\ CountedNow' = CountedNow \cup {c}
    <3>1. sock' = [sock EXCEPT ![c] = "fresh"]
      BY <1>3 DEF Attach
    <3>2. "fresh" # "upgrading" /\ "fresh" \notin {"absent", "closed"}
      OBVIOUS
    <3> QED
      BY <3>1, <3>2, SetsAfter
  <2>2. c \in UpgradingNow /\ c \in CountedNow
    BY <1>3 DEF Attach, UpgradingNow, CountedNow
  <2>3. CountedNow' = CountedNow
    BY <2>1, <2>2
  <2> QED
    BY <1>3, <2>1, <2>2, <2>3, OneLess DEF Attach, Counted
<1>4. CASE HelloAsGuest(c)
  BY <1>4, SameCounts DEF HelloAsGuest, Attached
<1>5. ASSUME NEW arrives \in BOOLEAN, CreateGuest(c, arrives) PROVE Counted'
  BY <1>5, SameCounts DEF CreateGuest, Authenticated, Attached
<1>6. ASSUME NEW arrives \in BOOLEAN, ResumeGuest(c, arrives) PROVE Counted'
  <2>1. /\ sock' = [sock EXCEPT ![c] = "open"] /\ sock[c] = "fresh"
        /\ UNCHANGED <<pendingUpgrades, addressCount>>
    BY <1>6 DEF ResumeGuest, Authenticated
  <2> QED
    BY <2>1, SameCounts DEF Attached
<1>7. CASE ResumeRefused(c)
  BY <1>7, SameCounts DEF ResumeRefused, Attached
<1>8. CASE GatewayCloses(c)
  BY <1>8, SameCounts DEF GatewayCloses, Attached
<1>9. CASE HubDetaches(c)
  BY <1>9 DEF HubDetaches, Counted, UpgradingNow, CountedNow
<1>10. CASE SocketCloses(c)
  <2>1. /\ sock[c] \in {"fresh", "nameless", "open", "terminal"}
        /\ sock' = [sock EXCEPT ![c] = "closed"]
        /\ addressCount' = addressCount - 1 /\ pendingUpgrades' = pendingUpgrades
    BY <1>10 DEF SocketCloses
  <2>2. UpgradingNow' = UpgradingNow \ {c} /\ CountedNow' = CountedNow \ {c}
    BY <2>1, SetsAfter
  <2>3. c \notin UpgradingNow /\ c \in CountedNow
    BY <2>1 DEF UpgradingNow, CountedNow
  <2>4. UpgradingNow' = UpgradingNow
    BY <2>2, <2>3
  <2> QED
    BY <2>1, <2>2, <2>3, <2>4, OneLess DEF Counted
<1> QED
  BY <1>1, <1>2, <1>3, <1>4, <1>5, <1>6, <1>7, <1>8, <1>9, <1>10 DEF Gateway

LEMMA LeaveAnsweredCounts ==
    ASSUME SessionInv, Counted, NEW p \in Procs, LeaveAnswered(p)
    PROVE  Counted'
<1>1. /\ proc[p].at = "leaving" /\ UNCHANGED <<pendingUpgrades, addressCount>>
      /\ \/ UNCHANGED sock
         \/ sock' = [sock EXCEPT ![p[1]] = "terminal"] /\ sock[p[1]] # "closed"
  BY DEF LeaveAnswered
<1>2. CASE UNCHANGED sock
  BY <1>1, <1>2 DEF Counted, UpgradingNow, CountedNow
<1>3. CASE sock' = [sock EXCEPT ![p[1]] = "terminal"] /\ sock[p[1]] # "closed"
  <2>1. p[1] \in Conns /\ gen[p[1]] # None
    BY <1>1, ProcsConn DEF SessionInv, Processes, Placed
  <2>2. sock[p[1]] \in Attached
    BY <1>3, <2>1 DEF SessionInv, Typed, Identified, SockStates, Named, Unnamed, Attached
  <2>3. "terminal" \in Attached
    BY DEF Attached
  <2> QED
    BY <1>1, <1>3, <2>1, <2>2, <2>3, SameCounts
<1> QED
  BY <1>1, <1>2, <1>3

LEMMA CountedStays == SessionInv /\ Counted /\ [Next]_vars => Counted'
<1> SUFFICES ASSUME SessionInv, Counted, [Next]_vars PROVE Counted'
  OBVIOUS
<1>1. ASSUME NEW c \in Conns, Gateway(c) PROVE Counted'
  BY <1>1, GatewayCounts
<1>2. ASSUME NEW p \in Procs, LeaveAnswered(p) PROVE Counted'
  BY <1>2, LeaveAnsweredCounts
<1>3. ASSUME UNCHANGED <<sock, pendingUpgrades, addressCount>> PROVE Counted'
  BY <1>3 DEF Counted, UpgradingNow, CountedNow
<1>4. ASSUME NEW c \in Conns, Message(c) PROVE UNCHANGED <<sock, pendingUpgrades, addressCount>>
  BY <1>4 DEF Message, Join, Leave, Create
<1>5. ASSUME NEW p \in Procs, Goes(p), ~LeaveAnswered(p)
      PROVE  UNCHANGED <<sock, pendingUpgrades, addressCount>>
  BY <1>5 DEF Goes, TryLose, LoseAnswered, TryRestore, RestoreAnswered, JoinAnswered, gateway
<1>6. ASSUME NEW r \in Rooms, RoomActs(r) PROVE UNCHANGED <<sock, pendingUpgrades, addressCount>>
  BY <1>6 DEF RoomActs, Apply, ApplyExpired, RemoveMember, DeadlinePasses, CloseRoom, Deliver,
              gateway
<1>7. CASE UNCHANGED vars
  BY <1>3, <1>7 DEF vars, gateway
<1> QED
  BY <1>1, <1>2, <1>3, <1>4, <1>5, <1>6, <1>7 DEF Next

\* Every variable keeps its type, only a process under way has a receipt, and the gateway's
\* counts are those of its sockets, whatever closes, fails or is replaced
\* (webSocketGateway.ts, sessionStore.ts, connectionHub.ts).
THEOREM TypeCorrect == Spec => []TypeOK
<1>1. Init => Counted
  <2> SUFFICES ASSUME Init PROVE Counted
    OBVIOUS
  <2>1. UpgradingNow = {} /\ CountedNow = {}
    BY DEF Init, UpgradingNow, CountedNow
  <2> QED
    BY <2>1, FS_EmptySet DEF Init, Counted
<1>2. SessionInv /\ Counted => TypeOK
  <2> SUFFICES ASSUME SessionInv, Counted PROVE TypeOK
    OBVIOUS
  <2>1. /\ sock \in [Conns -> {"absent", "upgrading", "fresh", "nameless", "open", "terminal",
                               "closed"}]
        /\ leaving \subseteq Conns
    BY DEF SessionInv, Typed, Identified, SockStates
  <2>2. session.room \in Rooms \cup {None} /\ session.active \in Conns \cup {None}
    BY DEF SessionInv, Typed, Identified, Stored, SomeRoom, SomeConn
  <2>3. \A p \in Procs : proc[p].result # "none" => proc[p].at # "idle"
    BY DEF SessionInv, Processes, Placed, Waiting
  <2> QED
    BY <2>1, <2>2, <2>3 DEF TypeOK, Counted, UpgradingNow, CountedNow
<1> QED
  BY <1>1, <1>2, SessionInvHolds, CountedStays, PTL DEF Spec

=============================================================================
