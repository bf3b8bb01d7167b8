------------------------------- MODULE Room -------------------------------
(***************************************************************************)
(* The room state machine of packages/room-core: transitionRoom, the three *)
(* command handlers, and the state operations they share.                  *)
(*                                                                         *)
(* One action stands for the committed outcome of one room command.  A     *)
(* command that the code rejects or ignores changes nothing, so it is a    *)
(* stuttering step here: what the code tests before committing is the      *)
(* guard.  In particular a request whose expectedRevision is stale, a      *)
(* connection event whose connection id or epoch is stale, and a timer for *)
(* a countdown or match that is gone are all stuttering steps.             *)
(*                                                                         *)
(* Time is abstracted to whether each deadline has passed.  A deadline is  *)
(* always set to "now + a positive policy value", hence it starts not      *)
(* passed, and the clock actions let the deadlines pass in every order:    *)
(* the module covers every valid RoomPolicy at once.                       *)
(*                                                                         *)
(* A definition named X_Mutation is X with a plausible bug: nothing uses   *)
(* it, it documents which property notices that bug.                       *)
(***************************************************************************)
EXTENDS Integers, Sequences, FiniteSets

CONSTANTS
    Players,            \* player identities
    None,               \* null
    MaxSpectators,      \* policy.maxSpectators
    MaxDenied,          \* MAX_DENIED_PLAYER_IDS
    TargetWinsOptions,  \* TARGET_WINS_OPTIONS
    MaxJoins,           \* bound of the model: joins in the life of a room
    MaxGames            \* bound of the model: games of one series

Seats == {0, 1}
NoFlags == [s \in Seats |-> FALSE]
AllFlags == [s \in Seats |-> TRUE]

Countdown == [origin : {"lobby", "between_games", "series_complete"},
              gameNumber : Nat, due : BOOLEAN]
Series == [roster : [Seats -> Players], targetWins : TargetWinsOptions,
           wins : [Seats -> Nat], gamesPlayed : Nat, completed : BOOLEAN,
           winner : Players \cup {None}]
Match == [participants : [Seats -> Players], gameNumber : Nat,
          resolutionRequested : BOOLEAN]

ASSUME PlayersAssumption == IsFiniteSet(Players)
ASSUME NoneAssumption ==
    /\ None \notin Players /\ None \notin Seats /\ None \notin Countdown
    /\ None \notin Series /\ None \notin Match
    /\ None \notin {"expired", "host_closed", "server_shutdown"}
ASSUME PolicyAssumption ==
    /\ MaxSpectators \in Nat
    /\ MaxDenied \in Nat \ {0}
    /\ TargetWinsOptions \subseteq Nat \ {0}
ASSUME BoundAssumption == MaxJoins \in Nat /\ MaxGames \in Nat

VARIABLES
    conn,               \* members[p].connection.kind; "absent": not a member
    joined,             \* members[p].joinedOrdinal, 0 for no member
    nextJoined,         \* nextJoinedOrdinal
    overdue,            \* members[p].connection.reconnectDeadlineMs has passed
    forfeitRequested,   \* members[p].connection.forfeitRequested
    seats, host, denied,
    targetWins, allowSpectators,
    phase, rulesStatus, ready, votes, countdown, series, activeMatch,
    idleOver,           \* expiresAtMs has passed for its idle TTL ...
    lifetimeOver,       \* ... or because absoluteExpiresAtMs has passed
    closedReason,
    effects,            \* what the step just taken emitted beside room.state_changed, unordered
    revised,            \* whether that step advanced the control revision
    consent             \* history: who raised the flag of a seat, and for which rules

membership == <<conn, joined, nextJoined, overdue, forfeitRequested>>
settings == <<targetWins, allowSpectators>>
competition == <<phase, rulesStatus, ready, votes, countdown, series, activeMatch>>
vars == <<membership, seats, host, denied, settings, competition, idleOver,
          lifetimeOver, closedReason, effects, revised, consent>>

-----------------------------------------------------------------------------
(* validation.ts *)

Members == {p \in Players : conn[p] # "absent"}
Online == {p \in Players : conn[p] = "connected"}
Seated(p) == \E s \in Seats : seats[s] = p
Spectators == {p \in Members : ~Seated(p)}
Denied == {denied[i] : i \in DOMAIN denied}

\* chooseHost: connected members only, the seated before the spectators, each in
\* the order they joined.
ChooseHost(candidates) ==
    LET players == {p \in candidates : Seated(p)}
        pool == IF players # {} THEN players ELSE candidates
    IN  IF pool = {} THEN None
        ELSE CHOOSE p \in pool : \A q \in pool : joined[p] <= joined[q]

\* expiresAtMs: the idle deadline capped by the absolute one.
Expired == idleOver \/ lifetimeOver

\* What one more spectator needs.
CanSpectate == allowSpectators /\ Cardinality(Spectators) < MaxSpectators

\* expiryFor: a live match somebody is connected to has the absolute deadline only.
LifetimeOnly == phase = "playing" /\ Online # {}

\* A request that transitionRoom hands to the handlers: the room is neither closed
\* nor past its expiry (a live match is exempt from the expiry test), and
\* actorError finds the actor connected.
Open == phase # "closed" /\ (phase = "playing" \/ ~Expired)
Request(p) == Open /\ p \in Online
HostRequest(p) == Request(p) /\ host = p

-----------------------------------------------------------------------------
(* operations.ts *)

Effect(type, player) == [type |-> type, player |-> player]

CancelEffect == IF countdown = None THEN {}
                ELSE {Effect("countdown.cancel", None)}

\* commit: expiryFor computes a fresh deadline, a closed room's being the present.
Commit(emitted, control) ==
    /\ effects' = emitted
    /\ revised' = control
    /\ idleOver' = (phase' = "closed")
    /\ UNCHANGED lifetimeOver
    /\ consent' = [s \in Seats |->
            IF ~ready'[s] /\ ~votes'[s] THEN None
            ELSE IF ready[s] \/ votes[s] THEN consent[s]
            ELSE <<seats[s], targetWins>>]

ResetCompetition_KeepsReady ==
    /\ phase' = "lobby" /\ rulesStatus' = "draft"
    /\ votes' = NoFlags /\ UNCHANGED ready
    /\ countdown' = None /\ series' = None /\ activeMatch' = None
ResetCompetition ==
    /\ phase' = "lobby" /\ rulesStatus' = "draft"
    /\ ready' = NoFlags /\ votes' = NoFlags
    /\ countdown' = None /\ series' = None /\ activeMatch' = None

CancelCountdown_KeepsReady ==
    /\ phase' = "lobby" /\ rulesStatus' = "draft"
    /\ votes' = NoFlags /\ UNCHANGED ready
    /\ countdown' = None /\ series' = None /\ activeMatch' = None
CancelCountdown ==
    LET back == countdown.origin = "between_games" /\ series # None
                /\ ~series.completed
    IN  /\ phase' = (IF back THEN "between_games" ELSE "lobby")
        /\ rulesStatus' = (IF back THEN "locked" ELSE "draft")
        /\ series' = (IF back THEN series ELSE None)
        /\ ready' = NoFlags /\ votes' = NoFlags
        /\ countdown' = None /\ activeMatch' = None

CreateSeries ==
    [roster |-> seats, targetWins |-> targetWins, wins |-> [s \in Seats |-> 0],
     gamesPlayed |-> 0, completed |-> FALSE, winner |-> None]

\* MaxGames bounds the draws of a series, which the code does not bound.
BeginCountdown(origin) ==
    LET started == IF origin = "between_games" /\ series # None THEN series
                   ELSE CreateSeries
    IN  /\ started.gamesPlayed < MaxGames
        /\ phase' = "countdown" /\ rulesStatus' = "locked"
        /\ ready' = AllFlags /\ votes' = NoFlags
        /\ countdown' = [origin |-> origin, due |-> FALSE,
                         gameNumber |-> started.gamesPlayed + 1]
        /\ series' = started
        /\ activeMatch' = None

Deny(p) ==
    LET longer == Append(denied, p)
    IN  IF p \in Denied THEN denied
        ELSE IF Len(longer) > MaxDenied THEN Tail(longer) ELSE longer

RemoveMember(p) ==
    /\ conn' = [conn EXCEPT ![p] = "absent"]
    /\ joined' = [joined EXCEPT ![p] = 0]
    /\ overdue' = [overdue EXCEPT ![p] = FALSE]
    /\ forfeitRequested' = [forfeitRequested EXCEPT ![p] = FALSE]
    /\ seats' = [s \in Seats |-> IF seats[s] = p THEN None ELSE seats[s]]
    /\ host' = IF host = p THEN ChooseHost(Online \ {p}) ELSE host
    /\ IF Seated(p) THEN ResetCompetition ELSE UNCHANGED competition
    /\ UNCHANGED <<nextJoined, settings, closedReason>>

RemovalEffects(p) == IF Seated(p) THEN CancelEffect ELSE {}

CloseRoom(reason) ==
    /\ phase' = "closed" /\ rulesStatus' = "draft" /\ closedReason' = reason
    /\ conn' = [p \in Players |-> "absent"]
    /\ joined' = [p \in Players |-> 0]
    /\ overdue' = [p \in Players |-> FALSE]
    /\ forfeitRequested' = [p \in Players |-> FALSE]
    /\ seats' = [s \in Seats |-> None] /\ host' = None
    /\ ready' = NoFlags /\ votes' = NoFlags
    /\ countdown' = None /\ series' = None /\ activeMatch' = None
    /\ UNCHANGED <<nextJoined, denied, settings>>
    /\ Commit({Effect("room.closed", None)}, TRUE)

-----------------------------------------------------------------------------
(* createRoom *)

Init ==
    \E creator \in Players :
      /\ conn = [p \in Players |-> IF p = creator THEN "connected" ELSE "absent"]
      /\ joined = [p \in Players |-> IF p = creator THEN 1 ELSE 0]
      /\ nextJoined = 2
      /\ overdue = [p \in Players |-> FALSE]
      /\ forfeitRequested = [p \in Players |-> FALSE]
      /\ seats = [s \in Seats |-> IF s = 0 THEN creator ELSE None]
      /\ host = creator /\ denied = <<>>
      /\ targetWins \in TargetWinsOptions /\ allowSpectators \in BOOLEAN
      /\ phase = "lobby" /\ rulesStatus = "draft"
      /\ ready = NoFlags /\ votes = NoFlags
      /\ countdown = None /\ series = None /\ activeMatch = None
      /\ idleOver = FALSE /\ lifetimeOver = FALSE /\ closedReason = None
      /\ effects = {} /\ revised = TRUE
      /\ consent = [s \in Seats |-> None]

-----------------------------------------------------------------------------
(* roomCommands.ts *)

AddMember(p) ==
    /\ conn' = [conn EXCEPT ![p] = "connected"]
    /\ joined' = [joined EXCEPT ![p] = nextJoined]
    /\ nextJoined' = nextJoined + 1
    /\ host' = IF host = None THEN p ELSE host
    /\ UNCHANGED <<overdue, forfeitRequested, denied, settings, closedReason>>

CanJoin(p) ==
    Open /\ p \notin Members /\ p \notin Denied /\ nextJoined <= MaxJoins

JoinAsSpectator(p) ==
    /\ CanJoin(p)
    /\ CanSpectate
    /\ AddMember(p)
    /\ UNCHANGED <<seats, competition>>
    /\ Commit({}, TRUE)

\* Taking the first free seat and naming a preferred one have the same outcomes.
JoinAsPlayer(p, s) ==
    /\ CanJoin(p)
    /\ phase \in {"lobby", "series_complete"} /\ seats[s] = None
    /\ AddMember(p)
    /\ seats' = [seats EXCEPT ![s] = p]
    /\ ResetCompetition
    /\ Commit(CancelEffect, TRUE)

Leave(p) ==
    /\ Request(p)
    /\ ~(Seated(p) /\ phase = "playing")
    /\ RemoveMember(p)
    /\ UNCHANGED denied
    /\ Commit(RemovalEffects(p), TRUE)

SeatSet(p, target) ==
    /\ Request(p)
    /\ phase \in {"lobby", "series_complete"}
    /\ IF target = None
       THEN Seated(p) /\ CanSpectate
       ELSE seats[target] = None
    /\ seats' = [s \in Seats |-> IF s = target THEN p
                                 ELSE IF seats[s] = p THEN None ELSE seats[s]]
    /\ ResetCompetition
    /\ UNCHANGED <<membership, host, denied, settings, closedReason>>
    /\ Commit(CancelEffect, TRUE)

ReadySet(p, s) ==
    /\ Request(p)
    /\ seats[s] = p
    /\ phase \in {"lobby", "between_games"}
    /\ LET flags == [ready EXCEPT ![s] = ~ready[s]]
       IN  IF flags = AllFlags /\ \A t \in Seats : seats[t] \in Online
           THEN /\ BeginCountdown(phase)
                /\ Commit({Effect("countdown.schedule", None)}, TRUE)
           ELSE /\ ready' = flags
                /\ UNCHANGED <<phase, rulesStatus, votes, countdown, series, activeMatch>>
                /\ Commit({}, TRUE)
    /\ UNCHANGED <<membership, seats, host, denied, settings, closedReason>>

Unready(p) ==
    /\ Request(p)
    /\ Seated(p) /\ phase = "countdown"
    /\ CancelCountdown
    /\ UNCHANGED <<membership, seats, host, denied, settings, closedReason>>
    /\ Commit(CancelEffect, TRUE)

SettingsUpdate(p, wins, spectators) ==
    /\ HostRequest(p)
    /\ phase \in {"lobby", "series_complete"}
    /\ spectators \/ Spectators = {}
    /\ <<wins, spectators>> # <<targetWins, allowSpectators>>
    /\ targetWins' = wins /\ allowSpectators' = spectators
    /\ ResetCompetition
    /\ UNCHANGED <<membership, seats, host, denied, closedReason>>
    /\ Commit({}, TRUE)

HostTransfer(p, target) ==
    /\ HostRequest(p)
    /\ phase \in {"lobby", "series_complete"}
    /\ target \in Online \ {host}
    /\ host' = target
    /\ UNCHANGED <<membership, seats, denied, settings, competition, closedReason>>
    /\ Commit({}, TRUE)

Kick(p, target) ==
    /\ HostRequest(p)
    /\ target \in Members \ {p}
    /\ Seated(target) => rulesStatus # "locked"
                         /\ phase \notin {"countdown", "playing", "between_games"}
    /\ RemoveMember(target)
    /\ denied' = Deny(target)
    /\ Commit(RemovalEffects(target) \cup {Effect("member.kicked", target)}, TRUE)

Rematch(p, s) ==
    /\ Request(p)
    /\ seats[s] = p
    /\ phase = "series_complete" /\ series # None /\ series.completed
    /\ LET flags == [votes EXCEPT ![s] = ~votes[s]]
       IN  IF flags = AllFlags /\ \A t \in Seats : seats[t] \in Online
           THEN /\ BeginCountdown("series_complete")
                /\ Commit({Effect("countdown.schedule", None)}, TRUE)
           ELSE /\ votes' = flags
                /\ UNCHANGED <<phase, rulesStatus, ready, countdown, series, activeMatch>>
                /\ Commit({}, TRUE)
    /\ UNCHANGED <<membership, seats, host, denied, settings, closedReason>>

CloseByHost(p) ==
    /\ HostRequest(p)
    /\ phase \in {"lobby", "series_complete"}
    /\ CloseRoom("host_closed")

-----------------------------------------------------------------------------
(* presenceCommands.ts *)

InterruptsCountdown(p) == phase = "countdown" /\ Seated(p)

ConnectionLost(p) ==
    /\ Open /\ p \in Online
    /\ conn' = [conn EXCEPT ![p] = "disconnected"]
    /\ overdue' = [overdue EXCEPT ![p] = FALSE]
    /\ forfeitRequested' = [forfeitRequested EXCEPT ![p] = FALSE]
    /\ LET deadline == Effect("member.reconnect_deadline", p)
       IN  IF InterruptsCountdown(p)
           THEN /\ CancelCountdown
                /\ Commit({deadline} \cup CancelEffect, TRUE)
           ELSE /\ ready' = [s \in Seats |-> ready[s] /\ seats[s] # p]
                /\ votes' = [s \in Seats |->
                        votes[s] /\ ~(phase = "series_complete" /\ seats[s] = p)]
                /\ UNCHANGED <<phase, rulesStatus, countdown, series, activeMatch>>
                /\ Commit(IF phase = "playing" /\ Seated(p)
                          THEN {deadline, Effect("match.clear_input", p)}
                          ELSE {deadline}, Seated(p))
    /\ UNCHANGED <<joined, nextJoined, seats, host, denied, settings, closedReason>>

ResumeControls_SeatOnly(p) == Seated(p)
ResumeControls(p) == Seated(p) \/ host' # host

ConnectionResumed(p) ==
    /\ Open /\ conn[p] = "disconnected"
    /\ ~overdue[p] /\ ~forfeitRequested[p]
    /\ conn' = [conn EXCEPT ![p] = "connected"]
    /\ host' = IF host = None THEN p ELSE host
    /\ UNCHANGED <<joined, nextJoined, overdue, forfeitRequested, seats, denied,
                   settings, competition, closedReason>>
    /\ Commit({}, ResumeControls(p))

\* The new connection's id and epoch are the only change to the state.
ConnectionReplace(p) ==
    /\ Open /\ p \in Online
    /\ UNCHANGED <<membership, seats, host, denied, settings, competition, closedReason>>
    /\ Commit(IF phase = "playing" /\ Seated(p)
              THEN {Effect("match.clear_input", p)} ELSE {}, FALSE)

ReconnectTimer_SeatedOnly(p) ==
    Open /\ conn[p] = "disconnected" /\ overdue[p] /\ Seated(p)
ReconnectTimer(p) ==
    Open /\ conn[p] = "disconnected" /\ overdue[p]

InLiveMatch(p) == Seated(p) /\ phase = "playing" /\ activeMatch # None

NotYetRequested_OwnFlag(p) == ~forfeitRequested[p]
NotYetRequested(p) == ~forfeitRequested[p] /\ ~activeMatch.resolutionRequested

RequestForfeit(p) ==
    /\ ReconnectTimer(p)
    /\ InLiveMatch(p) /\ NotYetRequested(p)
    /\ forfeitRequested' = [forfeitRequested EXCEPT ![p] = TRUE]
    /\ activeMatch' = [activeMatch EXCEPT !.resolutionRequested = TRUE]
    /\ UNCHANGED <<conn, joined, nextJoined, overdue, seats, host, denied, settings,
                   phase, rulesStatus, ready, votes, countdown, series, closedReason>>
    /\ Commit({Effect("match.disconnect_forfeit", p)}, TRUE)

ExpireMember(p) ==
    /\ ReconnectTimer(p)
    /\ ~InLiveMatch(p)
    /\ RemoveMember(p)
    /\ UNCHANGED denied
    /\ Commit(RemovalEffects(p) \cup {Effect("member.reconnect_expired", p)}, TRUE)

\* The one timer a live match obeys.
TimerRoomExpired_Occupied ==
    phase # "closed" /\ Members # {} /\ Expired /\ CloseRoom("expired")
TimerRoomExpired == phase # "closed" /\ Expired /\ CloseRoom("expired")

\* transitionRoom: any other command that arrives past the expiry closes the room.
CommandAfterExpiry ==
    phase \notin {"closed", "playing"} /\ Expired /\ CloseRoom("expired")

AdminClose == phase # "closed" /\ CloseRoom("server_shutdown")

-----------------------------------------------------------------------------
(* matchCommands.ts *)

CountdownElapsed ==
    /\ Open
    /\ phase = "countdown" /\ countdown # None /\ countdown.due
    /\ IF ready = AllFlags /\ series # None /\ \A s \in Seats : seats[s] \in Online
       THEN /\ phase' = "playing" /\ ready' = NoFlags /\ countdown' = None
            /\ activeMatch' = [participants |-> seats, resolutionRequested |-> FALSE,
                               gameNumber |-> countdown.gameNumber]
            /\ UNCHANGED <<rulesStatus, votes, series>>
            /\ Commit({Effect("match.start", None)}, TRUE)
       ELSE CancelCountdown /\ Commit(CancelEffect, TRUE)
    /\ UNCHANGED <<membership, seats, host, denied, settings, closedReason>>

Scored(winner) ==
    LET wins == [s \in Seats |-> IF winner # None /\ series.roster[s] = winner
                                 THEN series.wins[s] + 1 ELSE series.wins[s]]
        reached == {s \in Seats : wins[s] >= series.targetWins}
    IN  [roster |-> series.roster, targetWins |-> series.targetWins, wins |-> wins,
         gamesPlayed |-> series.gamesPlayed + 1, completed |-> reached # {},
         winner |-> IF reached = {} THEN None
                    ELSE series.roster[IF 0 \in reached THEN 0 ELSE 1]]

\* The participants away at the end of the match: each gets the lobby's grace anew.
Away == {p \in Players : conn[p] = "disconnected"
                          /\ \E s \in Seats : activeMatch.participants[s] = p}

MatchFinished(winner) ==
    /\ phase = "playing" /\ activeMatch # None /\ series # None
    /\ winner = None \/ \E s \in Seats : activeMatch.participants[s] = winner
    /\ series' = Scored(winner)
    /\ phase' = (IF series'.completed THEN "series_complete" ELSE "between_games")
    /\ rulesStatus' = (IF series'.completed THEN "draft" ELSE "locked")
    /\ ready' = NoFlags /\ votes' = NoFlags
    /\ countdown' = None /\ activeMatch' = None
    /\ overdue' = [p \in Players |-> overdue[p] /\ p \notin Away]
    /\ forfeitRequested' = [p \in Players |-> forfeitRequested[p] /\ p \notin Away]
    /\ UNCHANGED <<conn, joined, nextJoined, seats, host, denied, settings, closedReason>>
    /\ Commit({Effect("member.reconnect_deadline", p) : p \in Away}, TRUE)

-----------------------------------------------------------------------------
(* The clock: a pending deadline passes. *)

Tick == /\ UNCHANGED <<conn, joined, nextJoined, forfeitRequested, seats, host, denied,
                       settings, phase, rulesStatus, ready, votes, series, activeMatch,
                       closedReason, consent>>
        /\ effects' = {} /\ revised' = FALSE

ReconnectDeadlinePasses(p) ==
    /\ conn[p] = "disconnected" /\ ~overdue[p]
    /\ overdue' = [overdue EXCEPT ![p] = TRUE]
    /\ UNCHANGED <<countdown, idleOver, lifetimeOver>> /\ Tick

CountdownRunsOut ==
    /\ countdown # None /\ ~countdown.due
    /\ countdown' = [countdown EXCEPT !.due = TRUE]
    /\ UNCHANGED <<overdue, idleOver, lifetimeOver>> /\ Tick

IdleDeadlinePasses ==
    /\ ~idleOver /\ ~LifetimeOnly
    /\ idleOver' = TRUE
    /\ UNCHANGED <<countdown, overdue, lifetimeOver>> /\ Tick

LifetimePasses ==
    /\ ~lifetimeOver /\ phase # "closed"
    /\ lifetimeOver' = TRUE
    /\ UNCHANGED <<countdown, overdue, idleOver>> /\ Tick

-----------------------------------------------------------------------------
PlayerRequest(p) ==
    \/ JoinAsSpectator(p)
    \/ \E s \in Seats : JoinAsPlayer(p, s) \/ ReadySet(p, s) \/ Rematch(p, s)
    \/ Leave(p)
    \/ \E target \in Seats \cup {None} : SeatSet(p, target)
    \/ Unready(p)
    \/ \E wins \in TargetWinsOptions, spectators \in BOOLEAN :
           SettingsUpdate(p, wins, spectators)
    \/ \E target \in Players : HostTransfer(p, target) \/ Kick(p, target)
    \/ CloseByHost(p)

Presence(p) ==
    \/ ConnectionLost(p) \/ ConnectionResumed(p) \/ ConnectionReplace(p)
    \/ RequestForfeit(p) \/ ExpireMember(p)

Server ==
    \/ TimerRoomExpired \/ CommandAfterExpiry \/ AdminClose
    \/ CountdownElapsed
    \/ \E winner \in Players \cup {None} : MatchFinished(winner)

Clock ==
    \/ \E p \in Players : ReconnectDeadlinePasses(p)
    \/ CountdownRunsOut \/ IdleDeadlinePasses \/ LifetimePasses

Next == (\E p \in Players : PlayerRequest(p) \/ Presence(p)) \/ Server \/ Clock

Spec == Init /\ [][Next]_vars

\* The scheduler arms a timer for every deadline, and the server ends a match whose
\* resolution was requested.  The idle deadline is fair only when nobody is left to
\* refresh it; nothing obliges players to act, matches to end or the lifetime to pass.
ForcedFinish ==
    /\ activeMatch # None /\ activeMatch.resolutionRequested
    /\ \E winner \in Players \cup {None} : MatchFinished(winner)
AbandonedIdle == Online = {} /\ IdleDeadlinePasses

Fairness ==
    /\ \A p \in Players :
          /\ WF_vars(ReconnectDeadlinePasses(p))
          /\ WF_vars(RequestForfeit(p)) /\ WF_vars(ExpireMember(p))
    /\ WF_vars(AbandonedIdle) /\ WF_vars(TimerRoomExpired)
    /\ WF_vars(ForcedFinish)

FairSpec == Spec /\ Fairness

-----------------------------------------------------------------------------
(* Properties *)

Effects == [type : {"countdown.schedule", "countdown.cancel", "match.start",
                    "match.clear_input", "match.disconnect_forfeit",
                    "member.reconnect_deadline", "member.reconnect_expired",
                    "member.kicked", "room.closed"},
            player : Players \cup {None}]

MembershipType ==
    /\ conn \in [Players -> {"absent", "connected", "disconnected"}]
    /\ joined \in [Players -> Nat] /\ nextJoined \in Nat
    /\ overdue \in [Players -> BOOLEAN] /\ forfeitRequested \in [Players -> BOOLEAN]
PlacesType ==
    /\ seats \in [Seats -> Players \cup {None}]
    /\ host \in Players \cup {None} /\ denied \in Seq(Players)
    /\ targetWins \in TargetWinsOptions /\ allowSpectators \in BOOLEAN
    /\ closedReason \in {None, "expired", "host_closed", "server_shutdown"}
CompetitionType ==
    /\ phase \in {"lobby", "countdown", "playing", "between_games",
                  "series_complete", "closed"}
    /\ rulesStatus \in {"draft", "locked"}
    /\ ready \in [Seats -> BOOLEAN] /\ votes \in [Seats -> BOOLEAN]
    /\ countdown \in Countdown \cup {None}
    /\ series \in Series \cup {None}
    /\ activeMatch \in Match \cup {None}
OutputType ==
    /\ idleOver \in BOOLEAN /\ lifetimeOver \in BOOLEAN
    /\ effects \in SUBSET Effects /\ revised \in BOOLEAN
    /\ consent \in [Seats -> ((Players \cup {None}) \X TargetWinsOptions) \cup {None}]

\* The type of every variable.
TypeOK == MembershipType /\ PlacesType /\ CompetitionType /\ OutputType

\* The parts of assertRoomInvariants that relate one piece of the state to another.
SeatMembership ==
    /\ \A s \in Seats : seats[s] # None => seats[s] \in Members
    /\ seats[0] = seats[1] => seats[0] = None
HostMembership ==
    /\ host # None => host \in Members
    /\ Online # {} => host # None
JoinOrdinals ==
    /\ nextJoined >= 1
    /\ \A p \in Members : joined[p] >= 1 /\ joined[p] < nextJoined
    /\ \A p, q \in Members : joined[p] = joined[q] => p = q
ReadyConnected == \A s \in Seats : ready[s] => seats[s] \in Online
DenyList ==
    /\ Len(denied) <= MaxDenied
    /\ \A i, j \in DOMAIN denied : denied[i] = denied[j] => i = j
    /\ Denied \cap Members = {}
SeriesCounters == series # None =>
    LET reached == \E s \in Seats : series.wins[s] >= series.targetWins
    IN  /\ series.roster[0] # series.roster[1]
        /\ series.gamesPlayed >= series.wins[0] + series.wins[1]
        /\ series.completed <=> reached
        /\ series.completed <=> series.winner # None
        /\ series.winner # None => \E s \in Seats : series.roster[s] = series.winner
PhaseShape ==
    /\ phase = "lobby" => rulesStatus = "draft" /\ countdown = None
                          /\ series = None /\ activeMatch = None
    /\ phase = "countdown" => rulesStatus = "locked" /\ countdown # None
                              /\ series # None /\ activeMatch = None
                              /\ ready = AllFlags /\ seats = series.roster
    /\ phase = "playing" => rulesStatus = "locked" /\ countdown = None
                            /\ series # None /\ activeMatch # None /\ ready = NoFlags
                            /\ activeMatch.participants = series.roster
    /\ phase = "between_games" => rulesStatus = "locked" /\ countdown = None
                                  /\ series # None /\ ~series.completed
                                  /\ activeMatch = None
    /\ phase = "series_complete" => rulesStatus = "draft" /\ countdown = None
                                    /\ series # None /\ series.completed
                                    /\ activeMatch = None /\ ready = NoFlags
    /\ phase = "closed" => Members = {} /\ countdown = None /\ series = None
                           /\ activeMatch = None /\ closedReason # None

\* No reachable commit makes assertRoomInvariants throw: were one to, the command
\* would fail with an exception in the middle of a room's queue.
CommitInvariant ==
    /\ SeatMembership /\ HostMembership /\ JoinOrdinals /\ ReadyConnected
    /\ DenyList /\ SeriesCounters /\ PhaseShape

\* A series belongs to the two players now seated and to the rules now in force, and
\* stays undecided until it is complete: assertRoomInvariants leaves the seats of
\* every phase but the countdown, the target and the game numbers unchecked.
SeriesBound ==
    /\ series # None =>
          /\ seats = series.roster /\ series.targetWins = targetWins
          /\ \A s \in Seats : series.wins[s] <= series.targetWins
          /\ ~(\A s \in Seats : series.wins[s] = series.targetWins)
          /\ series.completed <=> phase = "series_complete"
    /\ countdown # None => countdown.gameNumber = series.gamesPlayed + 1
    /\ activeMatch # None => activeMatch.gameNumber = series.gamesPlayed + 1

\* A ready flag or a rematch vote was raised by the player who holds the seat now,
\* under the number of wins in force now: neither a new occupant nor new rules can
\* inherit consent.
ConsentBound ==
    \A s \in Seats : ready[s] \/ votes[s] => consent[s] = <<seats[s], targetWins>>

\* The countdown never runs with a player away: its elapsed branch that cancels for a
\* changed roster is not reachable.
CountdownAttended ==
    phase = "countdown" => \A s \in Seats : seats[s] \in Online

\* forfeitRequested marks exactly the one disconnected player of a live match whose
\* grace ran out first; the mark never outlives the match, or that member could not
\* resume again.
ForfeitMark ==
    LET marked == {p \in Players : forfeitRequested[p]}
    IN  /\ marked # {} => phase = "playing" /\ activeMatch.resolutionRequested
        /\ \A p \in marked : Seated(p) /\ conn[p] = "disconnected"
        /\ \A p, q \in marked : p = q
        /\ activeMatch # None => (activeMatch.resolutionRequested => marked # {})

Emits(type) == \E e \in effects' : e.type = type

\* docs/room-mode.md: a match sends at most one disconnect-forfeit request, however
\* many players time out and in whatever order.
OneForfeitPerMatch == [][
    /\ Emits("match.disconnect_forfeit") =>
          activeMatch # None /\ ~activeMatch.resolutionRequested
    /\ activeMatch # None /\ activeMatch' # None =>
          /\ activeMatch'.gameNumber = activeMatch.gameNumber
          /\ activeMatch.resolutionRequested => activeMatch'.resolutionRequested
    ]_vars

\* A countdown that begins is announced, and one that ends in anything but a match or
\* the room's closing is announced as cancelled.
CountdownAnnounced == [][
    /\ Emits("countdown.schedule") <=> countdown = None /\ countdown' # None
    /\ Emits("countdown.cancel") <=>
          countdown # None /\ countdown' = None /\ phase' \notin {"playing", "closed"}
    ]_vars

\* A command checked against the control revision acts on the state its sender saw:
\* no step changes what commands are judged by and keeps the revision.
RevisionFence == [][
    ~revised' =>
        UNCHANGED <<seats, host, denied, settings, phase, rulesStatus, ready, votes, series>>
    ]_vars

\* A match somebody is still connected to is ended by the room's lifetime or the
\* server's shutdown only, never by an idle timer.
LiveMatchKept == [][
    phase = "playing" /\ Online # {} /\ phase' = "closed" =>
        lifetimeOver \/ closedReason' = "server_shutdown"
    ]_vars

\* A member who loses the connection is back, removed, or the room is closed, in the
\* end: neither the forfeit's mark nor the deadline's extension after a match can
\* hold the seat for ever.
LostMemberResolved ==
    \A p \in Players : conn[p] = "disconnected" ~> conn[p] # "disconnected"

\* A room nobody is connected to any more closes.
AbandonedRoomCloses == <>[](Online = {}) => <>(phase = "closed")

=============================================================================
