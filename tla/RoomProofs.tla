---------------------------- MODULE RoomProofs ----------------------------
EXTENDS Room, TLAPS, WellFoundedInduction

\* A nonempty pool with natural ordinals has a member of the least ordinal.
LEMMA LeastOrdinal ==
    ASSUME NEW pool \in SUBSET Players, pool # {}, joined \in [Players -> Nat]
    PROVE  \E p \in pool : \A q \in pool : joined[p] <= joined[q]
<1> DEFINE ordinals == {joined[p] : p \in pool}
<1>1. ordinals \in SUBSET Nat
  OBVIOUS
<1>2. PICK n \in ordinals : TRUE
  OBVIOUS
<1> DEFINE Below == {mn \in Nat \X Nat : mn[1] < mn[2]}
<1>3. PICK m \in ordinals : \A k \in ordinals : m <= k
  <2>1. IsWellFoundedOn(Below, Nat)
    BY NatLessThanWellFounded, Zenon DEF OpToRel
  <2> HIDE DEF ordinals
  <2>2. PICK m \in ordinals : \A k \in ordinals : <<k, m>> \notin Below
    BY <1>1, <1>2, <2>1, WFMin
  <2>3. ASSUME NEW k \in ordinals PROVE m <= k
    <3>1. m \in Nat /\ k \in Nat
      BY <1>1
    <3>2. ~(k < m)
      <4>1. <<k, m>> \in Nat \X Nat
        BY <3>1
      <4> QED
        BY <2>2, <4>1
    <3> QED
      BY <3>1, <3>2
  <2> QED
    BY <2>3
<1> QED
  BY <1>3

\* chooseHost picks a connected candidate whenever there is one.
LEMMA ChosenHost ==
    ASSUME NEW candidates \in SUBSET Players, joined \in [Players -> Nat]
    PROVE  /\ candidates = {} => ChooseHost(candidates) = None
           /\ candidates # {} => ChooseHost(candidates) \in candidates
<1> DEFINE players == {p \in candidates : Seated(p)}
           pool == IF players # {} THEN players ELSE candidates
<1>1. ChooseHost(candidates) =
        IF pool = {} THEN None
        ELSE CHOOSE p \in pool : \A q \in pool : joined[p] <= joined[q]
  BY Zenon DEF ChooseHost
<1>2. pool \in SUBSET candidates /\ (candidates # {} => pool # {})
  OBVIOUS
<1> HIDE DEF pool
<1>3. CASE pool = {}
  BY <1>1, <1>2, <1>3
<1>4. CASE pool # {}
  <2>1. pool \in SUBSET Players
    BY <1>2
  <2>2. \E p \in pool : \A q \in pool : joined[p] <= joined[q]
    BY <2>1, <1>4, LeastOrdinal
  <2>3. ChooseHost(candidates) \in pool
    BY <1>1, <1>4, <2>2
  <2> QED
    BY <2>3, <1>2
<1> QED
  BY <1>3, <1>4


-----------------------------------------------------------------------------
(* Type correctness, one lemma for each shared operation, one step per action. *)

LEMMA CommitTyped ==
    ASSUME TypeOK, NEW emitted \in SUBSET Effects, NEW control \in BOOLEAN,
           CompetitionType', Commit(emitted, control)
    PROVE  OutputType'
BY DEF TypeOK, CompetitionType, PlacesType, OutputType, Commit

LEMMA ResetTyped == ASSUME ResetCompetition PROVE CompetitionType'
BY DEF ResetCompetition, NoFlags, CompetitionType

LEMMA CancelTyped == ASSUME TypeOK, CancelCountdown PROVE CompetitionType'
BY DEF TypeOK, CancelCountdown, NoFlags, CompetitionType

LEMMA BeginTyped ==
    ASSUME TypeOK, NEW origin \in {"lobby", "between_games", "series_complete"},
           seats \in [Seats -> Players], BeginCountdown(origin)
    PROVE  CompetitionType'
<1> DEFINE started == IF origin = "between_games" /\ series # None THEN series
                      ELSE CreateSeries
<1>1. started \in Series
  BY DEF TypeOK, CompetitionType, PlacesType, CreateSeries, Series
<1> HIDE DEF started
<1>2. /\ phase' = "countdown" /\ rulesStatus' = "locked"
      /\ ready' = AllFlags /\ votes' = NoFlags
      /\ countdown' = [origin |-> origin, due |-> FALSE,
                       gameNumber |-> started.gamesPlayed + 1]
      /\ series' = started /\ activeMatch' = None
  BY DEF BeginCountdown, started
<1>3. countdown' \in Countdown
  BY <1>1, <1>2 DEF Countdown, Series
<1> QED
  BY <1>1, <1>2, <1>3 DEF CompetitionType, AllFlags, NoFlags

LEMMA RemoveTyped ==
    ASSUME TypeOK, NEW p \in Players, RemoveMember(p), denied' \in Seq(Players)
    PROVE  MembershipType' /\ PlacesType' /\ CompetitionType'
<1>1. MembershipType'
  BY DEF RemoveMember, TypeOK, MembershipType
<1>2. ChooseHost(Online \ {p}) \in Players \cup {None}
  <2>1. Online \ {p} \in SUBSET Players /\ joined \in [Players -> Nat]
    BY DEF Online, TypeOK, MembershipType
  <2> QED
    BY <2>1, ChosenHost
<1>3. PlacesType'
  BY <1>2 DEF RemoveMember, TypeOK, PlacesType, settings
<1>4. CompetitionType'
  <2>1. CASE ResetCompetition
    BY <2>1, ResetTyped
  <2>2. CASE UNCHANGED competition
    BY <2>2 DEF competition, TypeOK, CompetitionType
  <2> QED
    BY <2>1, <2>2 DEF RemoveMember
<1> QED
  BY <1>1, <1>3, <1>4

LEMMA CloseTyped ==
    ASSUME TypeOK, NEW reason \in {"expired", "host_closed", "server_shutdown"},
           CloseRoom(reason)
    PROVE  TypeOK'
<1>1. MembershipType' /\ PlacesType' /\ CompetitionType'
  BY DEF CloseRoom, TypeOK, MembershipType, PlacesType, CompetitionType, NoFlags, settings
<1>2. {Effect("room.closed", None)} \in SUBSET Effects
  BY DEF Effect, Effects
<1>3. OutputType'
  BY <1>1, <1>2, CommitTyped DEF CloseRoom
<1> QED
  BY <1>1, <1>3 DEF TypeOK

LEMMA ScoredTyped ==
    ASSUME TypeOK, series # None, NEW winner PROVE Scored(winner) \in Series
<1> DEFINE wins == [s \in Seats |-> IF winner # None /\ series.roster[s] = winner
                                    THEN series.wins[s] + 1 ELSE series.wins[s]]
<1> DEFINE reached == {s \in Seats : wins[s] >= series.targetWins}
<1>1. series \in Series
  BY DEF TypeOK, CompetitionType
<1>2. wins \in [Seats -> Nat]
  BY <1>1 DEF Series
<1>3. series.roster[IF 0 \in reached THEN 0 ELSE 1] \in Players
  BY <1>1 DEF Series, Seats
<1> HIDE DEF wins, reached
<1>4. Scored(winner) =
        [roster |-> series.roster, targetWins |-> series.targetWins, wins |-> wins,
         gamesPlayed |-> series.gamesPlayed + 1, completed |-> reached # {},
         winner |-> IF reached = {} THEN None
                    ELSE series.roster[IF 0 \in reached THEN 0 ELSE 1]]
  BY Zenon DEF Scored, wins, reached
<1>5. (IF reached = {} THEN None ELSE series.roster[IF 0 \in reached THEN 0 ELSE 1])
        \in Players \cup {None}
  BY <1>3
<1> QED
  BY <1>1, <1>2, <1>4, <1>5 DEF Series

(* A player's request *)

LEMMA RequestTyped ==
    ASSUME TypeOK, NEW p \in Players, PlayerRequest(p)
    PROVE  TypeOK'
<1> USE DEF TypeOK
<1>0. {} \in SUBSET Effects /\ CancelEffect \in SUBSET Effects
      /\ {Effect("countdown.schedule", None)} \in SUBSET Effects
  BY DEF CancelEffect, Effect, Effects
<1>00. \A q \in Players : RemovalEffects(q) \in SUBSET Effects
  BY <1>0 DEF RemovalEffects
<1>1. CASE JoinAsSpectator(p)
  <2>1. MembershipType' /\ PlacesType' /\ CompetitionType'
    BY <1>1 DEF JoinAsSpectator, AddMember, MembershipType, PlacesType, CompetitionType,
                settings, competition
  <2> QED
    BY <2>1, <1>0, <1>1, CommitTyped DEF JoinAsSpectator
<1>2. CASE \E s \in Seats : JoinAsPlayer(p, s)
  <2>1. PICK s \in Seats : JoinAsPlayer(p, s)
    BY <1>2
  <2>2. MembershipType' /\ PlacesType' /\ CompetitionType'
    BY <2>1, ResetTyped DEF JoinAsPlayer, AddMember, MembershipType, PlacesType, settings
  <2> QED
    BY <2>1, <2>2, <1>0, CommitTyped DEF JoinAsPlayer
<1>3. CASE \E s \in Seats : ReadySet(p, s)
  <2>1. PICK s \in Seats : ReadySet(p, s)
    BY <1>3
  <2>2. MembershipType' /\ PlacesType'
    BY <2>1 DEF ReadySet, membership, settings, MembershipType, PlacesType
  <2>3. CASE BeginCountdown(phase) /\ Commit({Effect("countdown.schedule", None)}, TRUE)
             /\ \A t \in Seats : seats[t] \in Online
    <3>1. seats \in [Seats -> Players]
      BY <2>3 DEF PlacesType, Online
    <3>2. CompetitionType'
      BY <2>1, <2>3, <3>1, BeginTyped DEF ReadySet
    <3> QED
      BY <2>2, <2>3, <3>2, <1>0, CommitTyped
  <2>4. CASE /\ ready' = [ready EXCEPT ![s] = ~ready[s]]
             /\ UNCHANGED <<phase, rulesStatus, votes, countdown, series, activeMatch>>
             /\ Commit({}, TRUE)
    <3>1. CompetitionType'
      BY <2>4 DEF CompetitionType
    <3> QED
      BY <2>2, <2>4, <3>1, <1>0, CommitTyped
  <2> QED
    BY <2>1, <2>3, <2>4 DEF ReadySet
<1>4. CASE \E s \in Seats : Rematch(p, s)
  <2>1. PICK s \in Seats : Rematch(p, s)
    BY <1>4
  <2>2. MembershipType' /\ PlacesType'
    BY <2>1 DEF Rematch, membership, settings, MembershipType, PlacesType
  <2>3. CASE BeginCountdown("series_complete")
             /\ Commit({Effect("countdown.schedule", None)}, TRUE)
             /\ \A t \in Seats : seats[t] \in Online
    <3>1. seats \in [Seats -> Players]
      BY <2>3 DEF PlacesType, Online
    <3>2. CompetitionType'
      BY <2>1, <2>3, <3>1, BeginTyped DEF Rematch
    <3> QED
      BY <2>2, <2>3, <3>2, <1>0, CommitTyped
  <2>4. CASE /\ votes' = [votes EXCEPT ![s] = ~votes[s]]
             /\ UNCHANGED <<phase, rulesStatus, ready, countdown, series, activeMatch>>
             /\ Commit({}, TRUE)
    <3>1. CompetitionType'
      BY <2>4 DEF CompetitionType
    <3> QED
      BY <2>2, <2>4, <3>1, <1>0, CommitTyped
  <2> QED
    BY <2>1, <2>3, <2>4 DEF Rematch
<1>5. CASE Leave(p)
  <2>1. MembershipType' /\ PlacesType' /\ CompetitionType'
    BY <1>5, RemoveTyped DEF Leave, PlacesType
  <2> QED
    BY <2>1, <1>5, <1>00, CommitTyped DEF Leave
<1>6. CASE \E target \in Seats \cup {None} : SeatSet(p, target)
  <2>1. PICK target \in Seats \cup {None} : SeatSet(p, target)
    BY <1>6
  <2>2. MembershipType' /\ PlacesType' /\ CompetitionType'
    BY <2>1, ResetTyped DEF SeatSet, membership, settings, MembershipType, PlacesType
  <2> QED
    BY <2>1, <2>2, <1>0, CommitTyped DEF SeatSet
<1>7. CASE Unready(p)
  <2>1. MembershipType' /\ PlacesType' /\ CompetitionType'
    BY <1>7, CancelTyped DEF Unready, membership, settings, MembershipType, PlacesType
  <2> QED
    BY <1>7, <2>1, <1>0, CommitTyped DEF Unready
<1>8. CASE \E wins \in TargetWinsOptions, spectators \in BOOLEAN :
              SettingsUpdate(p, wins, spectators)
  <2>1. PICK wins \in TargetWinsOptions, spectators \in BOOLEAN :
              SettingsUpdate(p, wins, spectators)
    BY <1>8
  <2>2. MembershipType' /\ PlacesType' /\ CompetitionType'
    BY <2>1, ResetTyped DEF SettingsUpdate, membership, MembershipType, PlacesType
  <2> QED
    BY <2>1, <2>2, <1>0, CommitTyped DEF SettingsUpdate
<1>9. CASE \E target \in Players : HostTransfer(p, target)
  <2>1. PICK target \in Players : HostTransfer(p, target)
    BY <1>9
  <2>2. MembershipType' /\ PlacesType' /\ CompetitionType'
    BY <2>1 DEF HostTransfer, membership, settings, competition, MembershipType,
                PlacesType, CompetitionType
  <2> QED
    BY <2>1, <2>2, <1>0, CommitTyped DEF HostTransfer
<1>10. CASE \E target \in Players : Kick(p, target)
  <2>1. PICK target \in Players : Kick(p, target)
    BY <1>10
  <2>2. Deny(target) \in Seq(Players)
    BY DEF Deny, PlacesType
  <2>3. MembershipType' /\ PlacesType' /\ CompetitionType'
    BY <2>1, <2>2, RemoveTyped DEF Kick
  <2>4. RemovalEffects(target) \cup {Effect("member.kicked", target)} \in SUBSET Effects
    BY <1>00 DEF Effect, Effects
  <2> QED
    BY <2>1, <2>3, <2>4, CommitTyped DEF Kick
<1>11. CASE CloseByHost(p)
  BY <1>11, CloseTyped DEF CloseByHost
<1> QED
  BY <1>1, <1>2, <1>3, <1>4, <1>5, <1>6, <1>7, <1>8, <1>9, <1>10, <1>11 DEF PlayerRequest

(* Presence, the server's commands and the clock *)

LEMMA PresenceTyped ==
    ASSUME TypeOK, NEW p \in Players, Presence(p)
    PROVE  TypeOK'
<1> USE DEF TypeOK
<1>0. {} \in SUBSET Effects /\ CancelEffect \in SUBSET Effects
      /\ RemovalEffects(p) \in SUBSET Effects
      /\ \A type \in {"member.reconnect_deadline", "match.clear_input",
                      "match.disconnect_forfeit", "member.reconnect_expired"} :
            Effect(type, p) \in Effects
  BY DEF RemovalEffects, CancelEffect, Effect, Effects
<1>1. CASE ConnectionLost(p)
  <2>1. MembershipType' /\ PlacesType'
    BY <1>1 DEF ConnectionLost, settings, MembershipType, PlacesType
  <2>2. CASE InterruptsCountdown(p)
    <3>1. CancelCountdown
          /\ Commit({Effect("member.reconnect_deadline", p)} \cup CancelEffect, TRUE)
      BY <1>1, <2>2 DEF ConnectionLost
    <3> QED
      BY <2>1, <3>1, <1>0, CancelTyped, CommitTyped
  <2>3. CASE ~InterruptsCountdown(p)
    <3> DEFINE emitted == IF phase = "playing" /\ Seated(p)
                          THEN {Effect("member.reconnect_deadline", p),
                                Effect("match.clear_input", p)}
                          ELSE {Effect("member.reconnect_deadline", p)}
    <3>1. CompetitionType'
      BY <1>1, <2>3 DEF ConnectionLost, CompetitionType
    <3>2. Commit(emitted, Seated(p))
      BY <1>1, <2>3 DEF ConnectionLost
    <3>3. emitted \in SUBSET Effects /\ Seated(p) \in BOOLEAN
      BY <1>0 DEF Seated
    <3> QED
      BY <2>1, <3>1, <3>2, <3>3, CommitTyped
  <2> QED
    BY <2>2, <2>3
<1>2. CASE ConnectionResumed(p)
  <2>1. MembershipType' /\ PlacesType' /\ CompetitionType'
    BY <1>2 DEF ConnectionResumed, settings, competition, MembershipType, PlacesType,
                CompetitionType
  <2>2. ResumeControls(p) \in BOOLEAN
    BY DEF ResumeControls, Seated
  <2> QED
    BY <1>2, <2>1, <2>2, <1>0, CommitTyped DEF ConnectionResumed
<1>3. CASE ConnectionReplace(p)
  <2>1. MembershipType' /\ PlacesType' /\ CompetitionType'
    BY <1>3 DEF ConnectionReplace, membership, settings, competition, MembershipType,
                PlacesType, CompetitionType
  <2> QED
    BY <1>3, <2>1, <1>0, CommitTyped DEF ConnectionReplace
<1>4. CASE RequestForfeit(p)
  <2>1. MembershipType' /\ PlacesType'
    BY <1>4 DEF RequestForfeit, settings, MembershipType, PlacesType
  <2>2. activeMatch' \in Match
    BY <1>4 DEF RequestForfeit, InLiveMatch, CompetitionType, Match
  <2>3. CompetitionType'
    BY <1>4, <2>2 DEF RequestForfeit, CompetitionType
  <2> QED
    BY <1>4, <2>1, <2>3, <1>0, CommitTyped DEF RequestForfeit
<1>5. CASE ExpireMember(p)
  <2>1. MembershipType' /\ PlacesType' /\ CompetitionType'
    BY <1>5, RemoveTyped DEF ExpireMember, PlacesType
  <2> QED
    BY <2>1, <1>5, <1>0, CommitTyped DEF ExpireMember
<1> QED
  BY <1>1, <1>2, <1>3, <1>4, <1>5 DEF Presence

LEMMA ServerTyped == ASSUME TypeOK, Server PROVE TypeOK'
<1> USE DEF TypeOK
<1>0. CancelEffect \in SUBSET Effects /\ {Effect("match.start", None)} \in SUBSET Effects
      /\ {Effect("member.reconnect_deadline", p) : p \in Away} \in SUBSET Effects
  BY DEF CancelEffect, Effect, Effects, Away
<1>1. CASE TimerRoomExpired \/ CommandAfterExpiry \/ AdminClose
  BY <1>1, CloseTyped DEF TimerRoomExpired, CommandAfterExpiry, AdminClose
<1>2. CASE CountdownElapsed
  <2>1. MembershipType' /\ PlacesType'
    BY <1>2 DEF CountdownElapsed, membership, settings, MembershipType, PlacesType
  <2>2. CASE CancelCountdown /\ Commit(CancelEffect, TRUE)
    BY <2>1, <2>2, <1>0, CancelTyped, CommitTyped
  <2>3. CASE /\ phase' = "playing" /\ ready' = NoFlags /\ countdown' = None
             /\ activeMatch' = [participants |-> seats, resolutionRequested |-> FALSE,
                                gameNumber |-> countdown.gameNumber]
             /\ UNCHANGED <<rulesStatus, votes, series>>
             /\ Commit({Effect("match.start", None)}, TRUE)
             /\ \A s \in Seats : seats[s] \in Online
    <3>1. seats \in [Seats -> Players] /\ countdown.gameNumber \in Nat
      BY <1>2, <2>3 DEF CountdownElapsed, PlacesType, CompetitionType, Countdown, Online
    <3>2. activeMatch' \in Match
      BY <2>3, <3>1 DEF Match
    <3>3. CompetitionType'
      BY <2>3, <3>2 DEF CompetitionType, NoFlags
    <3> QED
      BY <2>1, <2>3, <3>3, <1>0, CommitTyped
  <2> QED
    BY <1>2, <2>2, <2>3 DEF CountdownElapsed
<1>3. CASE \E winner \in Players \cup {None} : MatchFinished(winner)
  <2>1. PICK winner \in Players \cup {None} : MatchFinished(winner)
    BY <1>3
  <2>2. MembershipType' /\ PlacesType'
    BY <2>1 DEF MatchFinished, settings, MembershipType, PlacesType
  <2>3. series' \in Series
    BY <2>1, ScoredTyped DEF MatchFinished
  <2>4. CompetitionType'
    BY <2>1, <2>3 DEF MatchFinished, CompetitionType, NoFlags
  <2> QED
    BY <2>1, <2>2, <2>4, <1>0, CommitTyped DEF MatchFinished
<1> QED
  BY <1>1, <1>2, <1>3 DEF Server

LEMMA ClockTyped == ASSUME TypeOK, Clock PROVE TypeOK'
<1> USE DEF TypeOK, MembershipType, PlacesType, CompetitionType, OutputType, Tick, settings
<1>1. CASE \E p \in Players : ReconnectDeadlinePasses(p)
  <2>1. PICK p \in Players : ReconnectDeadlinePasses(p)
    BY <1>1
  <2>2. MembershipType'
    BY <2>1 DEF ReconnectDeadlinePasses
  <2>3. PlacesType' /\ OutputType'
    BY <2>1 DEF ReconnectDeadlinePasses
  <2>4. CompetitionType'
    BY <2>1 DEF ReconnectDeadlinePasses
  <2> QED
    BY <2>2, <2>3, <2>4
<1>2. CASE CountdownRunsOut
  <2>1. countdown \in Countdown
    BY <1>2 DEF CountdownRunsOut
  <2>2. [countdown EXCEPT !.due = TRUE] \in Countdown
    BY <2>1 DEF Countdown
  <2>3. countdown' \in Countdown
    BY <1>2, <2>2 DEF CountdownRunsOut
  <2>4. CompetitionType'
    BY <1>2, <2>3 DEF CountdownRunsOut
  <2>5. MembershipType' /\ PlacesType' /\ OutputType'
    BY <1>2 DEF CountdownRunsOut
  <2> QED
    BY <2>4, <2>5
<1>3. CASE IdleDeadlinePasses \/ LifetimePasses
  <2>1. MembershipType' /\ PlacesType' /\ OutputType'
    BY <1>3 DEF IdleDeadlinePasses, LifetimePasses
  <2>2. CompetitionType'
    BY <1>3 DEF IdleDeadlinePasses, LifetimePasses
  <2> QED
    BY <2>1, <2>2
<1> QED
  BY <1>1, <1>2, <1>3 DEF Clock

LEMMA TypeInit == Init => TypeOK
<1> SUFFICES ASSUME Init PROVE TypeOK
  OBVIOUS
<1>1. MembershipType
  BY DEF Init, MembershipType
<1>2. PlacesType
  BY DEF Init, PlacesType, Seats
<1>3. CompetitionType
  BY DEF Init, CompetitionType, NoFlags
<1>4. OutputType
  BY DEF Init, OutputType
<1> QED
  BY <1>1, <1>2, <1>3, <1>4 DEF TypeOK

LEMMA TypeStep == TypeOK /\ [Next]_vars => TypeOK'
<1> SUFFICES ASSUME TypeOK, [Next]_vars PROVE TypeOK'
  OBVIOUS
<1>1. CASE Next
  BY <1>1, RequestTyped, PresenceTyped, ServerTyped, ClockTyped DEF Next
<1>2. CASE UNCHANGED vars
  BY <1>2 DEF vars, membership, settings, competition, TypeOK, MembershipType, PlacesType,
              CompetitionType, OutputType
<1> QED
  BY <1>1, <1>2

\* Every variable keeps its type: in particular no handler leaves a seat, a host or a
\* series winner that is no player, for any number of players and any policy.
THEOREM TypeCorrect == Spec => []TypeOK
<1> QED
  BY TypeInit, TypeStep, PTL DEF Spec

-----------------------------------------------------------------------------
(* Members, seats, host, ordinals, ready flags and the deny list. *)

Places == SeatMembership /\ HostMembership /\ JoinOrdinals /\ ReadyConnected /\ DenyList

LEMMA DistinctAppend ==
    ASSUME NEW S, NEW s \in Seq(S), NEW e \in S,
           \A i, j \in DOMAIN s : s[i] = s[j] => i = j, \A i \in DOMAIN s : s[i] # e
    PROVE  \A i, j \in DOMAIN Append(s, e) : Append(s, e)[i] = Append(s, e)[j] => i = j
OBVIOUS

LEMMA DistinctTail ==
    ASSUME NEW S, NEW s \in Seq(S), NEW e \in S,
           \A i, j \in DOMAIN s : s[i] = s[j] => i = j, \A i \in DOMAIN s : s[i] # e
    PROVE  LET t == Tail(Append(s, e))
           IN  \A i, j \in DOMAIN t : t[i] = t[j] => i = j
<1> DEFINE longer == Append(s, e)
<1>1. \A i, j \in DOMAIN longer : longer[i] = longer[j] => i = j
  BY DistinctAppend
<1>2. longer \in Seq(S) /\ Len(longer) >= 1
  OBVIOUS
<1> HIDE DEF longer
<1>3. /\ DOMAIN Tail(longer) = 1 .. Len(longer) - 1
      /\ \A i \in 1 .. Len(longer) - 1 : Tail(longer)[i] = longer[i + 1]
  BY <1>2
<1>4. \A i, j \in 1 .. Len(longer) - 1 : longer[i + 1] = longer[j + 1] => i = j
  <2>1. ASSUME NEW i \in 1 .. Len(longer) - 1, NEW j \in 1 .. Len(longer) - 1,
               longer[i + 1] = longer[j + 1]
        PROVE  i = j
    <3>1. i + 1 \in DOMAIN longer /\ j + 1 \in DOMAIN longer
      BY <1>2
    <3>2. i + 1 = j + 1
      BY <1>1, <2>1, <3>1
    <3> QED
      BY <3>2
  <2> QED
    BY <2>1
<1> QED
  BY <1>3, <1>4 DEF longer

LEMMA AddPlaces ==
    ASSUME TypeOK, Places, NEW p \in Players, CanJoin(p), AddMember(p),
           \/ UNCHANGED <<seats, ready>>
           \/ \E s \in Seats : seats[s] = None /\ seats' = [seats EXCEPT ![s] = p]
                               /\ ready' = NoFlags
    PROVE  Places'
<1> USE DEF TypeOK, MembershipType, PlacesType, CompetitionType, AddMember, CanJoin, Places
<1>1. SeatMembership'
  BY NoneAssumption DEF SeatMembership, Members, Seats
<1>2. HostMembership'
  <2>1. Members' = Members \cup {p} /\ Online' = Online \cup {p}
    BY DEF Members, Online
  <2> QED
    BY <2>1, NoneAssumption DEF HostMembership
<1>3. JoinOrdinals'
  BY DEF JoinOrdinals, Members
<1>4. ReadyConnected'
  BY DEF ReadyConnected, Online, Members, NoFlags
<1>5. DenyList'
  BY DEF DenyList, Denied, Members
<1> QED
  BY <1>1, <1>2, <1>3, <1>4, <1>5

LEMMA RemovePlaces ==
    ASSUME TypeOK, Places, NEW p \in Players, RemoveMember(p),
           \/ denied' = denied
           \/ p \in Members /\ denied' = Deny(p)
    PROVE  Places'
<1> USE DEF TypeOK, MembershipType, PlacesType, CompetitionType, RemoveMember, Places
<1>1. SeatMembership'
  BY NoneAssumption DEF SeatMembership, Members, Seats
<1>2. HostMembership'
  <2>1. /\ Online \ {p} = {} => ChooseHost(Online \ {p}) = None
        /\ Online \ {p} # {} => ChooseHost(Online \ {p}) \in Online \ {p}
    BY ChosenHost DEF Online
  <2>2. Online' = Online \ {p} /\ Members' = Members \ {p} /\ Online \subseteq Members
    BY DEF Online, Members
  <2> QED
    BY <2>1, <2>2, NoneAssumption DEF HostMembership, Online
<1>3. JoinOrdinals'
  BY DEF JoinOrdinals, Members
<1>4. ReadyConnected'
  BY DEF ReadyConnected, Online, Seated, ResetCompetition, NoFlags, competition
<1>5. DenyList'
  <2>1. CASE denied' = denied
    BY <2>1 DEF DenyList, Denied, Members
  <2>2. CASE p \in Members /\ denied' = Deny(p)
    <3>1. Members' = Members \ {p}
      BY DEF Members
    <3>2. Denied' \subseteq Denied \cup {p}
      BY <2>2 DEF Deny, Denied
    <3>3. Len(denied') <= MaxDenied
      BY <2>2, PolicyAssumption DEF Deny, DenyList
    <3>4. \A i, j \in DOMAIN denied' : denied'[i] = denied'[j] => i = j
      <4>1. CASE p \in Denied
        BY <2>2, <4>1 DEF Deny, DenyList
      <4>2. CASE p \notin Denied
        <5>1. \A i, j \in DOMAIN denied : denied[i] = denied[j] => i = j
          BY DEF DenyList
        <5>2. \A i \in DOMAIN denied : denied[i] # p
          BY <4>2 DEF Denied
        <5>3. denied \in Seq(Players) /\ p \in Players
          OBVIOUS
        <5>4. \A i, j \in DOMAIN Append(denied, p) :
                Append(denied, p)[i] = Append(denied, p)[j] => i = j
          BY ONLY <5>1, <5>2, <5>3, DistinctAppend
        <5>5. \A i, j \in DOMAIN Tail(Append(denied, p)) :
                Tail(Append(denied, p))[i] = Tail(Append(denied, p))[j] => i = j
          BY ONLY <5>1, <5>2, <5>3, DistinctTail
        <5>6. denied' = Append(denied, p) \/ denied' = Tail(Append(denied, p))
          BY ONLY <2>2, <4>2 DEF Deny
        <5> QED
          BY ONLY <5>4, <5>5, <5>6
      <4> QED
        BY <4>1, <4>2
    <3> QED
      BY <3>1, <3>2, <3>3, <3>4 DEF DenyList
  <2> QED
    BY <2>1, <2>2
<1> QED
  BY <1>1, <1>2, <1>3, <1>4, <1>5

LEMMA ClosePlaces ==
    ASSUME TypeOK, Places, NEW reason, CloseRoom(reason) PROVE Places'
<1>1. /\ Members' = {} /\ Online' = {} /\ host' = None /\ denied' = denied
      /\ seats' = [s \in Seats |-> None] /\ ready' = NoFlags
      /\ nextJoined' = nextJoined /\ nextJoined >= 1
  BY DEF CloseRoom, Members, Online, Places, JoinOrdinals
<1>2. SeatMembership' /\ HostMembership' /\ JoinOrdinals' /\ ReadyConnected'
  BY <1>1 DEF SeatMembership, HostMembership, JoinOrdinals, ReadyConnected, NoFlags, Seats
<1>3. DenyList'
  BY <1>1 DEF DenyList, Denied, Places
<1> QED
  BY <1>2, <1>3 DEF Places

\* Steps that neither seat nor remove anybody.
LEMMA SamePlaces ==
    ASSUME TypeOK, Places, UNCHANGED <<conn, joined, nextJoined, seats, denied>>,
           host' = host \/ host' \in Online,
           \A s \in Seats : ready'[s] => ready[s] \/ seats[s] \in Online
    PROVE  Places'
BY NoneAssumption DEF Places, SeatMembership, HostMembership, JoinOrdinals,
    ReadyConnected, DenyList, Denied, Members, Online, TypeOK, MembershipType

-----------------------------------------------------------------------------
(* Series, countdown and match. *)

Rules == SeriesCounters /\ PhaseShape /\ SeriesBound

LEMMA ResetRules == ASSUME ResetCompetition PROVE Rules'
BY DEF ResetCompetition, Rules, SeriesCounters, PhaseShape, SeriesBound

LEMMA CloseRules ==
    ASSUME NEW reason \in {"expired", "host_closed", "server_shutdown"}, CloseRoom(reason)
    PROVE  Rules'
BY NoneAssumption DEF CloseRoom, Rules, SeriesCounters, PhaseShape, SeriesBound, Members

LEMMA CancelRules ==
    ASSUME Rules, phase = "countdown", CancelCountdown, UNCHANGED <<seats, targetWins>>
    PROVE  Rules'
BY DEF CancelCountdown, Rules, SeriesCounters, PhaseShape, SeriesBound

LEMMA BeginRules ==
    ASSUME TypeOK, Places, Rules,
           NEW origin \in {"lobby", "between_games", "series_complete"},
           BeginCountdown(origin), origin = "between_games" => phase = "between_games",
           \A s \in Seats : seats[s] \in Online, UNCHANGED <<seats, targetWins>>
    PROVE  Rules'
<1>1. seats \in [Seats -> Players] /\ seats[0] # seats[1]
  BY NoneAssumption DEF TypeOK, PlacesType, Online, Places, SeatMembership, Seats
<1>2. targetWins \in Nat \ {0}
  BY PolicyAssumption DEF TypeOK, PlacesType
<1>3. CASE origin = "between_games"
  <2>1. /\ series # None /\ ~series.completed /\ series' = series
        /\ phase' = "countdown" /\ rulesStatus' = "locked" /\ ready' = AllFlags
        /\ activeMatch' = None /\ countdown'.gameNumber = series.gamesPlayed + 1
        /\ countdown' # None
    <3>1. series # None /\ ~series.completed
      BY <1>3 DEF Rules, PhaseShape
    <3>2. countdown' \in Countdown
      BY <1>3, <3>1 DEF BeginCountdown, Countdown, TypeOK, CompetitionType, Series
    <3> QED
      BY <1>3, <3>1, <3>2, NoneAssumption DEF BeginCountdown
  <2> QED
    BY <2>1 DEF Rules, SeriesCounters, PhaseShape, SeriesBound
<1>4. CASE origin # "between_games"
  <2>1. /\ series' = CreateSeries /\ countdown'.gameNumber = 1
        /\ phase' = "countdown" /\ rulesStatus' = "locked" /\ ready' = AllFlags
        /\ activeMatch' = None /\ countdown' # None
    <3>1. series' = CreateSeries /\ CreateSeries.gamesPlayed = 0
      BY <1>4 DEF BeginCountdown, CreateSeries
    <3>2. countdown' = [origin |-> origin, due |-> FALSE,
                        gameNumber |-> CreateSeries.gamesPlayed + 1]
      BY <1>4, Zenon DEF BeginCountdown
    <3>3. countdown' \in Countdown /\ countdown'.gameNumber = 1
      BY <3>1, <3>2 DEF Countdown
    <3>4. countdown' # None
      BY <3>3, NoneAssumption
    <3> QED
      BY <1>4, <3>1, <3>3, <3>4 DEF BeginCountdown
  <2>2. SeriesCounters'
    BY <1>1, <1>2, <2>1 DEF SeriesCounters, CreateSeries, Seats
  <2>3. series' # None
    <3>1. CreateSeries \in Series
      BY <1>1 DEF CreateSeries, Series, TypeOK, PlacesType
    <3> QED
      BY <2>1, <3>1, NoneAssumption
  <2>4. PhaseShape'
    BY <2>1, <2>3 DEF PhaseShape, CreateSeries
  <2>5. SeriesBound'
    BY <1>2, <2>1, <2>3 DEF SeriesBound, CreateSeries, Seats
  <2> QED
    BY <2>2, <2>4, <2>5 DEF Rules
<1> QED
  BY <1>3, <1>4

LEMMA StartRules ==
    ASSUME TypeOK, Rules, phase = "countdown", phase' = "playing", ready' = NoFlags,
           countdown' = None,
           activeMatch' = [participants |-> seats, resolutionRequested |-> FALSE,
                           gameNumber |-> countdown.gameNumber],
           \A s \in Seats : seats[s] \in Online,
           UNCHANGED <<rulesStatus, series, seats, targetWins>>
    PROVE  Rules'
<1>1. activeMatch' # None
  <2>1. activeMatch' \in Match
    BY DEF Match, TypeOK, CompetitionType, PlacesType, Online, Countdown, Rules, PhaseShape
  <2> QED
    BY <2>1, NoneAssumption
<1>2. activeMatch'.participants = seats /\ activeMatch'.gameNumber = countdown.gameNumber
  OBVIOUS
<1> QED
  BY <1>1, <1>2 DEF Rules, SeriesCounters, PhaseShape, SeriesBound

LEMMA FinishRules ==
    ASSUME TypeOK, Places, Rules, NEW winner, MatchFinished(winner)
    PROVE  Rules'
<1>1. /\ series # None /\ series \in Series /\ ~series.completed
      /\ seats = series.roster /\ series.targetWins = targetWins
      /\ series.roster[0] # series.roster[1]
      /\ series.gamesPlayed >= series.wins[0] + series.wins[1]
      /\ series.wins[0] < series.targetWins /\ series.wins[1] < series.targetWins
  <2>1. phase = "playing" /\ series # None /\ series \in Series
    BY DEF MatchFinished, TypeOK, CompetitionType
  <2>2. ~series.completed /\ seats = series.roster /\ series.targetWins = targetWins
    BY <2>1 DEF Rules, SeriesBound
  <2>3. /\ series.roster[0] # series.roster[1]
        /\ series.gamesPlayed >= series.wins[0] + series.wins[1]
        /\ ~(\E s \in Seats : series.wins[s] >= series.targetWins)
    BY <2>1, <2>2 DEF Rules, SeriesCounters
  <2>4. /\ series.wins[0] \in Nat /\ series.wins[1] \in Nat
        /\ series.targetWins \in Nat
    BY <2>1, PolicyAssumption DEF Series, Seats
  <2> QED
    BY <2>1, <2>2, <2>3, <2>4 DEF Seats
<1> DEFINE wins == [s \in Seats |-> IF winner # None /\ series.roster[s] = winner
                                    THEN series.wins[s] + 1 ELSE series.wins[s]]
<1> DEFINE reached == {s \in Seats : wins[s] >= series.targetWins}
<1>2. Scored(winner) =
        [roster |-> series.roster, targetWins |-> series.targetWins, wins |-> wins,
         gamesPlayed |-> series.gamesPlayed + 1, completed |-> reached # {},
         winner |-> IF reached = {} THEN None
                    ELSE series.roster[IF 0 \in reached THEN 0 ELSE 1]]
  BY Zenon DEF Scored
<1>3. /\ wins \in [Seats -> Nat]
      /\ wins[0] <= series.targetWins /\ wins[1] <= series.targetWins
      /\ ~(wins[0] = series.targetWins /\ wins[1] = series.targetWins)
      /\ series.gamesPlayed + 1 >= wins[0] + wins[1]
  <2>1. /\ series.wins \in [Seats -> Nat] /\ series.gamesPlayed \in Nat
        /\ series.targetWins \in Nat
    BY <1>1, PolicyAssumption DEF Series
  <2>2. wins \in [Seats -> Nat]
    BY <2>1
  <2>3. /\ wins[0] = series.wins[0] \/ wins[0] = series.wins[0] + 1
        /\ wins[1] = series.wins[1] \/ wins[1] = series.wins[1] + 1
        /\ wins[0] = series.wins[0] \/ wins[1] = series.wins[1]
    BY <1>1 DEF Seats
  <2>4. /\ series.wins[0] \in Nat /\ series.wins[1] \in Nat
    BY <2>1 DEF Seats
  <2> HIDE DEF wins
  <2> QED
    BY <1>1, <2>1, <2>2, <2>3, <2>4
<1>4. reached # {} <=> \E s \in Seats : wins[s] >= series.targetWins
  OBVIOUS
<1> HIDE DEF wins, reached
<1>5. /\ series'.roster = series.roster /\ series'.targetWins = series.targetWins
      /\ series'.wins = wins /\ series'.gamesPlayed = series.gamesPlayed + 1
      /\ series'.completed = (reached # {})
      /\ series'.winner = IF reached = {} THEN None
                          ELSE series.roster[IF 0 \in reached THEN 0 ELSE 1]
      /\ series' # None
  <2>1. series' = Scored(winner)
    BY DEF MatchFinished
  <2>2. series' # None
    BY <1>1, <2>1, ScoredTyped, NoneAssumption
  <2> QED
    BY <1>2, <2>1, <2>2
<1>6. /\ phase' = (IF series'.completed THEN "series_complete" ELSE "between_games")
      /\ rulesStatus' = (IF series'.completed THEN "draft" ELSE "locked")
      /\ ready' = NoFlags /\ countdown' = None /\ activeMatch' = None
      /\ seats' = seats /\ targetWins' = targetWins
  BY DEF MatchFinished, settings
<1>7. SeriesCounters'
  <2>1. series.roster[0] \in Players /\ series.roster[1] \in Players
    BY <1>1 DEF Series, Seats
  <2> QED
    BY <1>1, <1>3, <1>4, <1>5, <2>1, NoneAssumption DEF SeriesCounters, Seats
<1>8. PhaseShape'
  BY <1>5, <1>6 DEF PhaseShape
<1>9. SeriesBound'
  BY <1>1, <1>3, <1>5, <1>6 DEF SeriesBound, Seats
<1> QED
  BY <1>7, <1>8, <1>9 DEF Rules

\* Steps that leave the competition alone but for ready flags and votes.
LEMMA SameRules ==
    ASSUME Rules, UNCHANGED <<phase, rulesStatus, countdown, series, activeMatch, seats,
                              targetWins, closedReason>>,
           phase \in {"countdown", "playing", "series_complete"} => ready' = ready,
           phase = "closed" => UNCHANGED conn
    PROVE  Rules'
BY DEF Rules, SeriesCounters, PhaseShape, SeriesBound, Members

LEMMA RemoveRules ==
    ASSUME TypeOK, Rules, NEW p \in Members, RemoveMember(p)
    PROVE  Rules'
<1>1. CASE Seated(p)
  BY <1>1, ResetRules DEF RemoveMember
<1>2. CASE ~Seated(p)
  <2>1. seats' = seats
    BY <1>2 DEF RemoveMember, Seated, TypeOK, PlacesType
  <2>2. phase # "closed"
    BY DEF Rules, PhaseShape
  <2> QED
    BY <1>2, <2>1, <2>2, SameRules DEF RemoveMember, competition, settings
<1> QED
  BY <1>1, <1>2


-----------------------------------------------------------------------------
(* The forfeit's mark and the consent behind a flag. *)

\* Steps that leave the match alone and no marked player's connection changed.
LEMMA SameMark ==
    ASSUME ForfeitMark, UNCHANGED <<phase, activeMatch, forfeitRequested, seats>>,
           \A p \in Players : forfeitRequested[p] => conn'[p] = conn[p]
    PROVE  ForfeitMark'
BY DEF ForfeitMark, Seated

\* Outside a match nobody is marked, and a step that begins none keeps it so.
LEMMA NoMark ==
    ASSUME ForfeitMark, phase # "playing",
           \A p \in Players : forfeitRequested'[p] => forfeitRequested[p],
           activeMatch' # None => ~activeMatch'.resolutionRequested
    PROVE  ForfeitMark'
BY DEF ForfeitMark

LEMMA CloseMark == ASSUME NEW reason, CloseRoom(reason) PROVE ForfeitMark'
BY DEF CloseRoom, ForfeitMark

LEMMA RemoveMark ==
    ASSUME TypeOK, ForfeitMark, NEW p \in Players, RemoveMember(p),
           Seated(p) => phase # "playing"
    PROVE  ForfeitMark'
<1>1. \A q \in Players : forfeitRequested'[q] => forfeitRequested[q]
  BY DEF RemoveMember, TypeOK, MembershipType
<1>2. CASE Seated(p)
  <2>1. activeMatch' = None
    BY <1>2 DEF RemoveMember, ResetCompetition
  <2> QED
    BY <1>1, <1>2, <2>1, NoMark
<1>3. CASE ~Seated(p)
  <2>1. ~forfeitRequested[p]
    BY <1>3 DEF ForfeitMark
  <2>2. forfeitRequested' = forfeitRequested
    BY <2>1 DEF RemoveMember, TypeOK, MembershipType
  <2>3. \A q \in Players : forfeitRequested[q] => conn'[q] = conn[q]
    BY <2>1 DEF RemoveMember, TypeOK, MembershipType
  <2>4. seats' = seats
    BY <1>3 DEF RemoveMember, Seated, TypeOK, PlacesType
  <2>5. UNCHANGED <<phase, activeMatch>>
    BY <1>3 DEF RemoveMember, competition
  <2> QED
    BY <2>2, <2>3, <2>4, <2>5, SameMark
<1> QED
  BY <1>2, <1>3

\* A flag that survives a commit keeps its seat and its rules.
LEMMA ConsentKept ==
    ASSUME ConsentBound, NEW emitted, NEW control, Commit(emitted, control),
           \A s \in Seats : ready'[s] \/ votes'[s] =>
                targetWins' = targetWins /\ seats'[s] = seats[s]
    PROVE  ConsentBound'
BY DEF ConsentBound, Commit

LEMMA ConsentCleared == ASSUME ready' = NoFlags, votes' = NoFlags PROVE ConsentBound'
BY DEF ConsentBound, NoFlags

LEMMA RemoveConsent ==
    ASSUME TypeOK, ConsentBound, NEW p \in Players, RemoveMember(p), NEW emitted,
           NEW control, Commit(emitted, control)
    PROVE  ConsentBound'
<1>1. CASE Seated(p)
  BY <1>1, ConsentCleared DEF RemoveMember, ResetCompetition
<1>2. CASE ~Seated(p)
  <2>1. seats' = seats /\ targetWins' = targetWins
    BY <1>2 DEF RemoveMember, Seated, settings, TypeOK, PlacesType
  <2> QED
    BY <2>1, ConsentKept
<1> QED
  BY <1>1, <1>2


-----------------------------------------------------------------------------
(* The inductive invariant.  The parts need each other: a mark is cleared   *)
(* because only a live match has one, a countdown keeps its roster because  *)
(* its flags are all up and a raised flag's seat is connected.              *)

IInv == TypeOK /\ Places /\ Rules /\ ForfeitMark /\ ConsentBound

LEMMA InitIInv == Init => IInv
<1> SUFFICES ASSUME Init PROVE IInv
  OBVIOUS
<1>1. TypeOK
  BY TypeInit
<1>2. PICK creator \in Players :
        /\ conn = [p \in Players |-> IF p = creator THEN "connected" ELSE "absent"]
        /\ joined = [p \in Players |-> IF p = creator THEN 1 ELSE 0]
        /\ seats = [s \in Seats |-> IF s = 0 THEN creator ELSE None]
        /\ host = creator
  BY DEF Init
<1>3. Members = {creator} /\ Online = {creator}
  BY <1>2 DEF Members, Online
<1>4. SeatMembership /\ HostMembership /\ JoinOrdinals
  BY <1>2, <1>3, NoneAssumption
     DEF SeatMembership, HostMembership, JoinOrdinals, Init, Seats
<1>5. ReadyConnected /\ DenyList
  BY PolicyAssumption DEF ReadyConnected, DenyList, Denied, Init, NoFlags
<1>6. Rules /\ ForfeitMark /\ ConsentBound
  BY DEF Init, Rules, SeriesCounters, PhaseShape, SeriesBound, ForfeitMark, ConsentBound,
         NoFlags
<1> QED
  BY <1>1, <1>4, <1>5, <1>6 DEF IInv, Places

\* Only a live match has an activeMatch.
LEMMA MatchIsLive == ASSUME TypeOK, Rules, activeMatch # None PROVE phase = "playing"
BY DEF TypeOK, CompetitionType, Rules, PhaseShape

LEMMA RequestStep ==
    ASSUME IInv, TypeOK', NEW p \in Players, PlayerRequest(p)
    PROVE  IInv'
<1>0. TypeOK /\ Places /\ Rules /\ ForfeitMark /\ ConsentBound
  BY DEF IInv
<1>00. /\ conn \in [Players -> {"absent", "connected", "disconnected"}]
       /\ seats \in [Seats -> Players \cup {None}]
       /\ forfeitRequested \in [Players -> BOOLEAN]
       /\ ready \in [Seats -> BOOLEAN] /\ votes \in [Seats -> BOOLEAN]
  BY <1>0 DEF TypeOK, MembershipType, PlacesType, CompetitionType
<1>1. CASE JoinAsSpectator(p)
  <2>1. /\ CanJoin(p) /\ AddMember(p) /\ UNCHANGED <<seats, ready, votes, targetWins>>
        /\ UNCHANGED <<phase, rulesStatus, countdown, series, activeMatch, closedReason>>
        /\ forfeitRequested' = forfeitRequested /\ Commit({}, TRUE)
    BY <1>1 DEF JoinAsSpectator, AddMember, competition, settings
  <2>2. Places'
    BY <1>0, <2>1, AddPlaces
  <2>3. Rules'
    BY <1>0, <2>1, SameRules DEF CanJoin, Open
  <2>4. ForfeitMark'
    <3>1. ~forfeitRequested[p]
      BY <1>0, <2>1 DEF ForfeitMark, CanJoin, Members
    <3> QED
      BY <1>0, <1>00, <2>1, <3>1, SameMark DEF AddMember
  <2>5. ConsentBound'
    BY <1>0, <2>1, ConsentKept
  <2> QED
    BY <2>2, <2>3, <2>4, <2>5 DEF IInv
<1>2. CASE \E s \in Seats : JoinAsPlayer(p, s)
  <2>1. PICK s \in Seats : JoinAsPlayer(p, s)
    BY <1>2
  <2>2. /\ CanJoin(p) /\ AddMember(p) /\ ResetCompetition
        /\ phase # "playing" /\ forfeitRequested' = forfeitRequested
        /\ seats[s] = None /\ seats' = [seats EXCEPT ![s] = p]
        /\ ready' = NoFlags /\ votes' = NoFlags /\ activeMatch' = None
    BY <2>1 DEF JoinAsPlayer, AddMember, ResetCompetition
  <2>3. Places'
    BY <1>0, <2>2, AddPlaces
  <2> QED
    BY <1>0, <2>2, <2>3, ResetRules, NoMark, ConsentCleared DEF IInv
<1>3. CASE Leave(p)
  <2>1. /\ RemoveMember(p) /\ denied' = denied /\ p \in Members
        /\ Seated(p) => phase # "playing"
    BY <1>3 DEF Leave, Request, Online, Members
  <2>2. Places' /\ Rules' /\ ForfeitMark'
    BY <1>0, <2>1, RemovePlaces, RemoveRules, RemoveMark
  <2>3. ConsentBound'
    BY <1>0, <2>1, <1>3, RemoveConsent DEF Leave
  <2> QED
    BY <2>2, <2>3 DEF IInv
<1>4. CASE \E target \in Players : Kick(p, target)
  <2>1. PICK target \in Players : Kick(p, target)
    BY <1>4
  <2>2. /\ RemoveMember(target) /\ denied' = Deny(target) /\ target \in Members
        /\ Seated(target) => phase # "playing"
    BY <2>1 DEF Kick
  <2>3. Places' /\ Rules' /\ ForfeitMark'
    BY <1>0, <2>2, RemovePlaces, RemoveRules, RemoveMark
  <2>4. ConsentBound'
    BY <1>0, <2>1, <2>2, RemoveConsent DEF Kick
  <2> QED
    BY <2>3, <2>4 DEF IInv
<1>5. CASE \E target \in Seats \cup {None} : SeatSet(p, target)
  <2>1. PICK target \in Seats \cup {None} : SeatSet(p, target)
    BY <1>5
  <2>2. /\ ResetCompetition /\ p \in Online /\ phase # "playing"
        /\ target \in Seats => seats[target] = None
        /\ seats' = [s \in Seats |-> IF s = target THEN p
                                     ELSE IF seats[s] = p THEN None ELSE seats[s]]
        /\ UNCHANGED <<conn, joined, nextJoined, forfeitRequested, host, denied>>
        /\ ready' = NoFlags /\ votes' = NoFlags /\ activeMatch' = None
    <3>1. target \in Seats => target # None
      BY NoneAssumption
    <3> QED
      BY <2>1, <3>1 DEF SeatSet, Request, ResetCompetition, membership
  <2>3. Places'
    <3>1. SeatMembership'
      BY <1>0, <1>00, <2>2, NoneAssumption
         DEF Places, SeatMembership, Members, Online, Seats
    <3>2. HostMembership' /\ JoinOrdinals' /\ ReadyConnected' /\ DenyList'
      BY <1>0, <2>2 DEF Places, HostMembership, JoinOrdinals, ReadyConnected, DenyList,
                        Members, Online, Denied, NoFlags
    <3> QED
      BY <3>1, <3>2 DEF Places
  <2> QED
    BY <1>0, <2>2, <2>3, ResetRules, NoMark, ConsentCleared DEF IInv
<1>6. CASE Unready(p)
  <2>1. /\ phase = "countdown" /\ CancelCountdown
        /\ UNCHANGED <<conn, joined, nextJoined, forfeitRequested, host, denied, seats,
                       targetWins>>
        /\ ready' = NoFlags /\ votes' = NoFlags /\ activeMatch' = None
    BY <1>6 DEF Unready, CancelCountdown, membership, settings
  <2>2. Places'
    BY <1>0, <2>1, SamePlaces DEF NoFlags
  <2> QED
    BY <1>0, <2>1, <2>2, CancelRules, NoMark, ConsentCleared DEF IInv
<1>7. CASE \E wins \in TargetWinsOptions, spectators \in BOOLEAN :
              SettingsUpdate(p, wins, spectators)
  <2>1. /\ phase # "playing" /\ ResetCompetition
        /\ UNCHANGED <<conn, joined, nextJoined, forfeitRequested, host, denied, seats>>
        /\ ready' = NoFlags /\ votes' = NoFlags /\ activeMatch' = None
    BY <1>7 DEF SettingsUpdate, ResetCompetition, membership
  <2>2. Places'
    BY <1>0, <2>1, SamePlaces DEF NoFlags
  <2> QED
    BY <1>0, <2>1, <2>2, ResetRules, NoMark, ConsentCleared DEF IInv
<1>8. CASE \E target \in Players : HostTransfer(p, target)
  <2>1. /\ host' \in Online /\ Commit({}, TRUE) /\ phase # "closed"
        /\ UNCHANGED <<conn, joined, nextJoined, forfeitRequested, denied, seats,
                       targetWins, ready, votes, closedReason>>
        /\ UNCHANGED <<phase, rulesStatus, countdown, series, activeMatch>>
    BY <1>8 DEF HostTransfer, membership, competition, settings
  <2>2. Places'
    BY <1>0, <2>1, SamePlaces
  <2>3. Rules'
    BY <1>0, <2>1, SameRules
  <2>4. ForfeitMark'
    BY <1>0, <2>1, SameMark
  <2>5. ConsentBound'
    BY <1>0, <2>1, ConsentKept
  <2> QED
    BY <2>2, <2>3, <2>4, <2>5 DEF IInv
<1>9. CASE \E s \in Seats : ReadySet(p, s) \/ Rematch(p, s)
  <2>1. PICK s \in Seats : ReadySet(p, s) \/ Rematch(p, s)
    BY <1>9
  <2>2. /\ p \in Online /\ seats[s] = p
        /\ UNCHANGED <<conn, joined, nextJoined, forfeitRequested, host, denied, seats,
                       targetWins, closedReason>>
        /\ phase \in {"lobby", "between_games", "series_complete"}
    BY <2>1 DEF ReadySet, Rematch, Request, membership, settings
  <2>3. CASE \E origin \in {"lobby", "between_games", "series_complete"} :
              /\ BeginCountdown(origin)
              /\ origin = "between_games" => phase = "between_games"
              /\ Commit({Effect("countdown.schedule", None)}, TRUE)
              /\ \A t \in Seats : seats[t] \in Online
    <3>1. ready' = AllFlags /\ votes' = NoFlags /\ activeMatch' = None
      BY <2>3 DEF BeginCountdown
    <3>2. Places'
      BY <1>0, <2>2, <2>3, SamePlaces
    <3>3. Rules'
      BY <1>0, <2>2, <2>3, BeginRules
    <3>4. ForfeitMark'
      BY <1>0, <2>2, <3>1, NoMark
    <3>5. ConsentBound'
      BY <1>0, <2>2, <2>3, ConsentKept
    <3> QED
      BY <3>2, <3>3, <3>4, <3>5 DEF IInv
  <2>4. CASE /\ \/ /\ ready' = [ready EXCEPT ![s] = ~ready[s]] /\ votes' = votes
                   /\ phase \in {"lobby", "between_games"}
                \/ votes' = [votes EXCEPT ![s] = ~votes[s]] /\ ready' = ready
             /\ UNCHANGED <<phase, rulesStatus, countdown, series, activeMatch>>
             /\ Commit({}, TRUE)
    <3>1. \A t \in Seats : ready'[t] => ready[t] \/ seats[t] \in Online
      BY <1>00, <2>2, <2>4
    <3>2. Places'
      BY <1>0, <2>2, <3>1, SamePlaces
    <3>3. Rules'
      BY <1>0, <2>2, <2>4, SameRules
    <3>4. ForfeitMark'
      BY <1>0, <2>2, <2>4, SameMark
    <3>5. ConsentBound'
      BY <1>0, <2>2, <2>4, ConsentKept
    <3> QED
      BY <3>2, <3>3, <3>4, <3>5 DEF IInv
  <2>5. CASE ReadySet(p, s)
    BY <2>3, <2>4, <2>5 DEF ReadySet
  <2>6. CASE Rematch(p, s)
    BY <2>3, <2>4, <2>6 DEF Rematch
  <2> QED
    BY <2>1, <2>5, <2>6
<1>10. CASE CloseByHost(p)
  BY <1>0, <1>10, ClosePlaces, CloseRules, CloseMark, ConsentCleared
     DEF CloseByHost, CloseRoom, IInv
<1> QED
  BY <1>1, <1>2, <1>3, <1>4, <1>5, <1>6, <1>7, <1>8, <1>9, <1>10 DEF PlayerRequest

LEMMA PresenceStep ==
    ASSUME IInv, TypeOK', NEW p \in Players, Presence(p)
    PROVE  IInv'
<1>0. TypeOK /\ Places /\ Rules /\ ForfeitMark /\ ConsentBound
  BY DEF IInv
<1>00. /\ conn \in [Players -> {"absent", "connected", "disconnected"}]
       /\ seats \in [Seats -> Players \cup {None}]
       /\ forfeitRequested \in [Players -> BOOLEAN]
       /\ ready \in [Seats -> BOOLEAN] /\ votes \in [Seats -> BOOLEAN]
  BY <1>0 DEF TypeOK, MembershipType, PlacesType, CompetitionType
<1>1. CASE ConnectionLost(p)
  <2>1. /\ p \in Online /\ conn' = [conn EXCEPT ![p] = "disconnected"]
        /\ forfeitRequested' = [forfeitRequested EXCEPT ![p] = FALSE]
        /\ UNCHANGED <<joined, nextJoined, seats, host, denied, targetWins, closedReason>>
        /\ phase # "closed" /\ ~forfeitRequested[p]
    BY <1>1, <1>0 DEF ConnectionLost, settings, Open, ForfeitMark, Online
  <2>2. Members' = Members /\ Online' = Online \ {p}
    BY <1>00, <2>1 DEF Members, Online
  <2>3. ForfeitMark' \/ InterruptsCountdown(p)
    <3>1. CASE ~InterruptsCountdown(p)
      <4>1. forfeitRequested' = forfeitRequested
        BY <1>00, <2>1
      <4>2. \A q \in Players : forfeitRequested[q] => conn'[q] = conn[q]
        BY <1>00, <2>1
      <4> QED
        BY <1>0, <1>1, <2>1, <3>1, <4>1, <4>2, SameMark DEF ConnectionLost
    <3> QED
      BY <3>1
  <2>4. \A s \in Seats : ready'[s] => ready[s] /\ seats[s] # p
    BY <1>1 DEF ConnectionLost, CancelCountdown, NoFlags
  <2>5. Places'
    <3>1. SeatMembership' /\ JoinOrdinals' /\ DenyList'
      BY <1>0, <2>1, <2>2 DEF Places, SeatMembership, JoinOrdinals, DenyList, Denied
    <3>2. HostMembership' /\ ReadyConnected'
      BY <1>0, <2>1, <2>2, <2>4 DEF Places, HostMembership, ReadyConnected
    <3> QED
      BY <3>1, <3>2 DEF Places
  <2>6. CASE InterruptsCountdown(p)
    <3>1. /\ phase = "countdown" /\ CancelCountdown
          /\ ready' = NoFlags /\ votes' = NoFlags /\ activeMatch' = None
      BY <1>1, <2>6 DEF ConnectionLost, InterruptsCountdown, CancelCountdown
    <3>2. \A q \in Players : forfeitRequested'[q] => forfeitRequested[q]
      BY <1>00, <2>1
    <3>3. Rules' /\ ForfeitMark' /\ ConsentBound'
      BY <1>0, <2>1, <3>1, <3>2, CancelRules, NoMark, ConsentCleared
    <3> QED
      BY <2>5, <3>3 DEF IInv
  <2>7. CASE ~InterruptsCountdown(p)
    <3> DEFINE emitted == IF phase = "playing" /\ Seated(p)
                          THEN {Effect("member.reconnect_deadline", p),
                                Effect("match.clear_input", p)}
                          ELSE {Effect("member.reconnect_deadline", p)}
    <3>1. /\ UNCHANGED <<phase, rulesStatus, countdown, series, activeMatch>>
          /\ ready' = [s \in Seats |-> ready[s] /\ seats[s] # p]
          /\ votes' = [s \in Seats |->
                          votes[s] /\ ~(phase = "series_complete" /\ seats[s] = p)]
          /\ Commit(emitted, Seated(p))
      BY <1>1, <2>7 DEF ConnectionLost
    <3> HIDE DEF emitted
    <3>2. phase \in {"countdown", "playing", "series_complete"} => ready' = ready
      <4>1. CASE phase = "countdown"
        BY <1>00, <2>7, <3>1, <4>1 DEF InterruptsCountdown, Seated
      <4>2. CASE phase \in {"playing", "series_complete"}
        <5>1. ready = NoFlags
          BY <1>0, <4>2 DEF Rules, PhaseShape
        <5> QED
          BY <3>1, <5>1 DEF NoFlags
      <4> QED
        BY <4>1, <4>2
    <3>3. Rules'
      BY <1>0, <2>1, <3>1, <3>2, SameRules
    <3>4. ConsentBound'
      BY <1>0, <2>1, <3>1, ConsentKept
    <3> QED
      BY <2>3, <2>5, <2>7, <3>3, <3>4 DEF IInv
  <2> QED
    BY <2>6, <2>7
<1>2. CASE ConnectionResumed(p)
  <2>1. /\ conn[p] = "disconnected" /\ conn' = [conn EXCEPT ![p] = "connected"]
        /\ host' = (IF host = None THEN p ELSE host) /\ ~forfeitRequested[p]
        /\ UNCHANGED <<joined, nextJoined, forfeitRequested, seats, denied, targetWins,
                       closedReason, ready, votes>>
        /\ UNCHANGED <<phase, rulesStatus, countdown, series, activeMatch>>
        /\ phase # "closed" /\ Commit({}, ResumeControls(p))
    BY <1>2 DEF ConnectionResumed, settings, competition, Open
  <2>2. Members' = Members /\ Online' = Online \cup {p} /\ p \in Members
    BY <1>00, <2>1 DEF Members, Online
  <2>3. Places'
    <3>1. SeatMembership' /\ JoinOrdinals' /\ DenyList'
      BY <1>0, <2>1, <2>2 DEF Places, SeatMembership, JoinOrdinals, DenyList, Denied
    <3>2. HostMembership' /\ ReadyConnected'
      BY <1>0, <2>1, <2>2, NoneAssumption DEF Places, HostMembership, ReadyConnected
    <3> QED
      BY <3>1, <3>2 DEF Places
  <2>4. ForfeitMark'
    BY <1>0, <1>00, <2>1, SameMark
  <2>5. Rules' /\ ConsentBound'
    BY <1>0, <2>1, SameRules, ConsentKept
  <2> QED
    BY <2>3, <2>4, <2>5 DEF IInv
<1>3. CASE ConnectionReplace(p)
  <2>1. /\ UNCHANGED <<conn, joined, nextJoined, forfeitRequested, seats, host, denied,
                       targetWins, closedReason, ready, votes>>
        /\ UNCHANGED <<phase, rulesStatus, countdown, series, activeMatch>>
    BY <1>3 DEF ConnectionReplace, membership, settings, competition
  <2>2. Places' /\ Rules' /\ ForfeitMark'
    BY <1>0, <2>1, SamePlaces, SameRules, SameMark
  <2>3. ConsentBound'
    BY <1>0, <1>3, <2>1, ConsentKept DEF ConnectionReplace
  <2> QED
    BY <2>2, <2>3 DEF IInv
<1>4. CASE RequestForfeit(p)
  <2>1. /\ UNCHANGED <<conn, joined, nextJoined, seats, host, denied, targetWins,
                       closedReason, ready, votes, phase, rulesStatus, countdown, series>>
        /\ forfeitRequested' = [forfeitRequested EXCEPT ![p] = TRUE]
        /\ activeMatch' = [activeMatch EXCEPT !.resolutionRequested = TRUE]
        /\ phase = "playing" /\ activeMatch # None /\ ~activeMatch.resolutionRequested
        /\ Seated(p) /\ conn[p] = "disconnected"
    BY <1>4 DEF RequestForfeit, InLiveMatch, NotYetRequested, ReconnectTimer, settings
  <2>2. activeMatch \in Match
    BY <1>0, <2>1 DEF TypeOK, CompetitionType
  <2>3. /\ activeMatch' \in Match /\ activeMatch'.resolutionRequested
        /\ activeMatch'.participants = activeMatch.participants
        /\ activeMatch'.gameNumber = activeMatch.gameNumber
    BY <2>1, <2>2 DEF Match
  <2>4. activeMatch' # None
    BY <2>3, NoneAssumption
  <2>5. Places'
    BY <1>0, <2>1, SamePlaces
  <2>6. Rules'
    BY <1>0, <2>1, <2>3, <2>4 DEF Rules, SeriesCounters, PhaseShape, SeriesBound
  <2>7. ForfeitMark'
    <3>1. \A q \in Players : ~forfeitRequested[q]
      BY <1>0, <2>1 DEF ForfeitMark
    <3>2. {q \in Players : forfeitRequested'[q]} = {p}
      BY <1>00, <2>1, <3>1
    <3> QED
      BY <2>1, <2>3, <3>2 DEF ForfeitMark, Seated
  <2>8. ConsentBound'
    BY <1>0, <1>4, <2>1, ConsentKept DEF RequestForfeit
  <2> QED
    BY <2>5, <2>6, <2>7, <2>8 DEF IInv
<1>5. CASE ExpireMember(p)
  <2>1. /\ RemoveMember(p) /\ denied' = denied /\ p \in Members
        /\ ~(Seated(p) /\ phase = "playing" /\ activeMatch # None)
    BY <1>5 DEF ExpireMember, ReconnectTimer, InLiveMatch, Members
  <2>2. Seated(p) => phase # "playing"
    BY <1>0, <2>1 DEF Rules, PhaseShape
  <2>3. Places' /\ Rules' /\ ForfeitMark'
    BY <1>0, <2>1, <2>2, RemovePlaces, RemoveRules, RemoveMark
  <2>4. ConsentBound'
    BY <1>0, <1>5, <2>1, RemoveConsent DEF ExpireMember
  <2> QED
    BY <2>3, <2>4 DEF IInv
<1> QED
  BY <1>1, <1>2, <1>3, <1>4, <1>5 DEF Presence

LEMMA ServerStep == ASSUME IInv, TypeOK', Server PROVE IInv'
<1>0. TypeOK /\ Places /\ Rules /\ ForfeitMark /\ ConsentBound
  BY DEF IInv
<1>1. CASE TimerRoomExpired \/ CommandAfterExpiry \/ AdminClose
  <2>1. \E reason \in {"expired", "host_closed", "server_shutdown"} : CloseRoom(reason)
    BY <1>1 DEF TimerRoomExpired, CommandAfterExpiry, AdminClose
  <2> QED
    BY <1>0, <2>1, ClosePlaces, CloseRules, CloseMark, ConsentCleared DEF CloseRoom, IInv
<1>2. CASE CountdownElapsed
  <2>1. /\ phase = "countdown"
        /\ UNCHANGED <<conn, joined, nextJoined, forfeitRequested, seats, host, denied,
                       targetWins>>
        /\ ready' = NoFlags
    BY <1>2 DEF CountdownElapsed, CancelCountdown, membership, settings
  <2>2. Places'
    BY <1>0, <2>1, SamePlaces DEF NoFlags
  <2>3. CASE ready = AllFlags /\ series # None /\ \A s \in Seats : seats[s] \in Online
    <3>1. /\ phase' = "playing" /\ countdown' = None
          /\ activeMatch' = [participants |-> seats, resolutionRequested |-> FALSE,
                             gameNumber |-> countdown.gameNumber]
          /\ UNCHANGED <<rulesStatus, votes, series>>
          /\ Commit({Effect("match.start", None)}, TRUE)
      BY <1>2, <2>3 DEF CountdownElapsed
    <3>2. Rules'
      BY <1>0, <2>1, <2>3, <3>1, StartRules
    <3>3. ForfeitMark'
      BY <1>0, <2>1, <3>1, NoMark
    <3>4. ConsentBound'
      BY <1>0, <2>1, <3>1, ConsentKept
    <3> QED
      BY <2>2, <3>2, <3>3, <3>4 DEF IInv
  <2>4. CASE ~(ready = AllFlags /\ series # None /\ \A s \in Seats : seats[s] \in Online)
    <3>1. CancelCountdown /\ votes' = NoFlags /\ activeMatch' = None
      BY <1>2, <2>4 DEF CountdownElapsed, CancelCountdown
    <3> QED
      BY <1>0, <2>1, <2>2, <3>1, CancelRules, NoMark, ConsentCleared DEF IInv
  <2> QED
    BY <2>3, <2>4
<1>3. CASE \E winner \in Players \cup {None} : MatchFinished(winner)
  <2>1. PICK winner \in Players \cup {None} : MatchFinished(winner)
    BY <1>3
  <2>2. /\ UNCHANGED <<conn, joined, nextJoined, seats, host, denied>>
        /\ ready' = NoFlags /\ votes' = NoFlags /\ activeMatch' = None
        /\ forfeitRequested' = [p \in Players |-> forfeitRequested[p] /\ p \notin Away]
        /\ activeMatch # None
        /\ phase' \in {"series_complete", "between_games"}
    BY <2>1 DEF MatchFinished
  <2>3. Places'
    BY <1>0, <2>2, SamePlaces DEF NoFlags
  <2>4. Rules'
    BY <1>0, <2>1, FinishRules
  <2>5. ForfeitMark'
    <3>1. ASSUME NEW p \in Players, forfeitRequested[p] PROVE p \in Away
      <4>1. conn[p] = "disconnected" /\ \E s \in Seats : seats[s] = p
        BY <1>0, <3>1 DEF ForfeitMark, Seated
      <4>2. activeMatch.participants = seats
        BY <1>0, <2>1 DEF MatchFinished, Rules, PhaseShape, SeriesBound
      <4> QED
        BY <4>1, <4>2 DEF Away
    <3>2. \A p \in Players : ~forfeitRequested'[p]
      BY <2>2, <3>1
    <3> QED
      BY <2>2, <3>2 DEF ForfeitMark
  <2> QED
    BY <2>2, <2>3, <2>4, <2>5, ConsentCleared DEF IInv
<1> QED
  BY <1>1, <1>2, <1>3 DEF Server

LEMMA ClockStep == ASSUME IInv, TypeOK', Clock PROVE IInv'
<1>0. TypeOK /\ Places /\ Rules /\ ForfeitMark /\ ConsentBound
  BY DEF IInv
<1>1. /\ UNCHANGED <<conn, joined, nextJoined, forfeitRequested, seats, host, denied,
                     targetWins, phase, rulesStatus, ready, votes, series, activeMatch,
                     closedReason, consent>>
      /\ countdown' # None <=> countdown # None
      /\ countdown # None => countdown'.gameNumber = countdown.gameNumber
  <2>1. CASE CountdownRunsOut
    <3>1. countdown \in Countdown /\ countdown' = [countdown EXCEPT !.due = TRUE]
      BY <1>0, <2>1 DEF CountdownRunsOut, TypeOK, CompetitionType
    <3>2. countdown' \in Countdown /\ countdown'.gameNumber = countdown.gameNumber
      BY <3>1 DEF Countdown
    <3> QED
      BY <2>1, <3>1, <3>2, NoneAssumption DEF CountdownRunsOut, Tick, settings
  <2>2. CASE ~CountdownRunsOut
    BY <2>2 DEF Clock, ReconnectDeadlinePasses, IdleDeadlinePasses, LifetimePasses, Tick,
                settings
  <2> QED
    BY <2>1, <2>2
<1>2. Places'
  BY <1>0, <1>1, SamePlaces
<1>3. Rules'
  BY <1>0, <1>1 DEF Rules, SeriesCounters, PhaseShape, SeriesBound, Members
<1>4. ForfeitMark'
  BY <1>0, <1>1, SameMark
<1>5. ConsentBound'
  BY <1>0, <1>1 DEF ConsentBound
<1> QED
  BY <1>2, <1>3, <1>4, <1>5 DEF IInv

LEMMA StepIInv == IInv /\ [Next]_vars => IInv'
<1> SUFFICES ASSUME IInv, [Next]_vars PROVE IInv'
  OBVIOUS
<1>1. TypeOK'
  BY TypeStep DEF IInv
<1>2. CASE Next
  BY <1>1, <1>2, RequestStep, PresenceStep, ServerStep, ClockStep DEF Next
<1>3. CASE UNCHANGED vars
  BY <1>1, <1>3 DEF vars, membership, settings, competition, IInv, Places, SeatMembership,
     HostMembership, JoinOrdinals, ReadyConnected, DenyList, Denied, Members, Online, Rules,
     SeriesCounters, PhaseShape, SeriesBound, ForfeitMark, Seated, ConsentBound
<1> QED
  BY <1>2, <1>3

LEMMA Inductive == Spec => []IInv
<1> QED
  BY InitIInv, StepIInv, PTL DEF Spec

-----------------------------------------------------------------------------
\* assertRoomInvariants never throws, whatever the policy, the players and the order of
\* their commands: every commit leaves a room it accepts.
THEOREM CommitsAreValid == Spec => []CommitInvariant
<1>1. IInv => CommitInvariant
  BY DEF IInv, Places, Rules, CommitInvariant
<1> QED
  BY <1>1, Inductive, PTL

\* A series is always the one of the two seated players under the rules in force.
THEOREM SeriesStaysBound == Spec => []SeriesBound
<1>1. IInv => SeriesBound
  BY DEF IInv, Rules
<1> QED
  BY <1>1, Inductive, PTL

\* A ready flag or a vote is always its occupant's own, given under the rules in force.
THEOREM ConsentIsGiven == Spec => []ConsentBound
<1>1. IInv => ConsentBound
  BY DEF IInv
<1> QED
  BY <1>1, Inductive, PTL

\* At most one player is marked for forfeit, and only while the match lasts.
THEOREM ForfeitIsUnique == Spec => []ForfeitMark
<1>1. IInv => ForfeitMark
  BY DEF IInv
<1> QED
  BY <1>1, Inductive, PTL

\* A countdown runs with both players connected.
THEOREM CountdownIsAttended == Spec => []CountdownAttended
<1>1. IInv => CountdownAttended
  BY DEF IInv, Places, ReadyConnected, Rules, PhaseShape, AllFlags, CountdownAttended
<1> QED
  BY <1>1, Inductive, PTL

-----------------------------------------------------------------------------
(* What a step of the room may never do, from the inductive invariant *)


\* expiryFor leaves a live match that somebody is connected to without an idle deadline.
IdleSpared == LifetimeOnly => ~idleOver

LEMMA Committed ==
    ASSUME NEW emitted, NEW control, Commit(emitted, control)
    PROVE  /\ effects' = emitted /\ revised' = control
           /\ idleOver' = (phase' = "closed") /\ IdleSpared'
BY DEF Commit, IdleSpared, LifetimeOnly

\* Effects that announce the end of a countdown when one is on, and nothing else of it.
Harmless == {"member.kicked", "member.reconnect_expired", "member.reconnect_deadline",
             "match.clear_input"}
Cancelling(emitted) ==
    /\ \A e \in emitted : e.type \in {"countdown.cancel"} \cup Harmless
    /\ countdown # None <=> \E e \in emitted : e.type = "countdown.cancel"

LEMMA CancelsAlone == Cancelling(CancelEffect)
<1>1. CASE countdown = None
  BY <1>1 DEF Cancelling, CancelEffect
<1>2. CASE countdown # None
  <2>1. CancelEffect = {Effect("countdown.cancel", None)}
    BY <1>2 DEF CancelEffect
  <2>2. Effect("countdown.cancel", None).type = "countdown.cancel"
    BY DEF Effect
  <2> QED
    BY <1>2, <2>1, <2>2 DEF Cancelling
<1> QED
  BY <1>1, <1>2

LEMMA Cancels ==
    ASSUME NEW others, \A e \in others : e.type \in Harmless
    PROVE  Cancelling(CancelEffect \cup others)
BY CancelsAlone DEF Cancelling, Harmless

-----------------------------------------------------------------------------
(* The facts about one step that the four properties rest on. *)

Fenced ==
    ~revised' =>
        UNCHANGED <<seats, host, denied, settings, phase, rulesStatus, ready, votes, series>>
OnceForfeited ==
    /\ Emits("match.disconnect_forfeit") =>
          activeMatch # None /\ ~activeMatch.resolutionRequested
    /\ activeMatch # None /\ activeMatch' # None =>
          /\ activeMatch'.gameNumber = activeMatch.gameNumber
          /\ activeMatch.resolutionRequested => activeMatch'.resolutionRequested
Announced ==
    /\ Emits("countdown.schedule") <=> countdown = None /\ countdown' # None
    /\ Emits("countdown.cancel") <=>
          countdown # None /\ countdown' = None /\ phase' \notin {"playing", "closed"}
Kept ==
    phase = "playing" /\ Online # {} /\ phase' = "closed" =>
        lifetimeOver \/ closedReason' = "server_shutdown"
Facts == Fenced /\ OnceForfeited /\ Announced /\ Kept /\ IdleSpared'

LEMMA ResetStep ==
    ASSUME NEW emitted, Cancelling(emitted), ResetCompetition, Commit(emitted, TRUE)
    PROVE  Facts
<1>1. /\ effects' = emitted /\ revised' = TRUE /\ IdleSpared'
      /\ phase' = "lobby" /\ countdown' = None /\ activeMatch' = None
  BY Committed DEF ResetCompetition
<1>2. /\ ~Emits("countdown.schedule") /\ ~Emits("match.disconnect_forfeit")
      /\ Emits("countdown.cancel") <=> countdown # None
  BY <1>1 DEF Emits, Cancelling, Harmless
<1> QED
  BY <1>1, <1>2 DEF Facts, Fenced, OnceForfeited, Announced, Kept

LEMMA SameStep ==
    ASSUME NEW emitted, \A e \in emitted : e.type \in Harmless,
           UNCHANGED <<phase, countdown, activeMatch>>, Commit(emitted, TRUE)
    PROVE  Facts
<1>1. effects' = emitted /\ revised' = TRUE /\ IdleSpared'
  BY Committed
<1>2. /\ ~Emits("countdown.schedule") /\ ~Emits("match.disconnect_forfeit")
      /\ ~Emits("countdown.cancel")
  BY <1>1 DEF Emits, Harmless
<1> QED
  BY <1>1, <1>2 DEF Facts, Fenced, OnceForfeited, Announced, Kept

LEMMA RemoveStep ==
    ASSUME NEW p, NEW others, \A e \in others : e.type \in Harmless,
           RemoveMember(p), NEW emitted, emitted = RemovalEffects(p) \cup others,
           Commit(emitted, TRUE)
    PROVE  Facts
<1>1. CASE Seated(p)
  <2>1. emitted = CancelEffect \cup others /\ ResetCompetition
    BY <1>1 DEF RemoveMember, RemovalEffects
  <2>2. Cancelling(emitted)
    BY <2>1, Cancels
  <2> QED
    BY <2>1, <2>2, ResetStep
<1>2. CASE ~Seated(p)
  <2>1. emitted = others /\ UNCHANGED <<phase, countdown, activeMatch>>
    BY <1>2 DEF RemoveMember, RemovalEffects, competition
  <2> QED
    BY <2>1, SameStep
<1> QED
  BY <1>1, <1>2

LEMMA BeginStep ==
    ASSUME countdown = None, PhaseShape', NEW origin, BeginCountdown(origin),
           Commit({Effect("countdown.schedule", None)}, TRUE)
    PROVE  Facts
<1>1. /\ effects' = {Effect("countdown.schedule", None)} /\ revised' = TRUE /\ IdleSpared'
      /\ phase' = "countdown" /\ activeMatch' = None
  BY Committed DEF BeginCountdown
<1>2. countdown' # None
  BY <1>1 DEF PhaseShape
<1>3. /\ Emits("countdown.schedule") /\ ~Emits("match.disconnect_forfeit")
      /\ ~Emits("countdown.cancel")
  BY <1>1 DEF Emits, Effect
<1> QED
  BY <1>1, <1>2, <1>3 DEF Facts, Fenced, OnceForfeited, Announced, Kept

\* A countdown that is cut short by one of its players, or that finds its room changed.
LEMMA CancelStep ==
    ASSUME phase = "countdown", PhaseShape, CancelCountdown,
           NEW emitted, Cancelling(emitted), Commit(emitted, TRUE)
    PROVE  Facts
<1>1. /\ effects' = emitted /\ revised' = TRUE /\ IdleSpared'
      /\ phase' \in {"lobby", "between_games"} /\ countdown' = None /\ activeMatch' = None
  BY Committed DEF CancelCountdown
<1>2. countdown # None
  BY DEF PhaseShape
<1>3. /\ ~Emits("countdown.schedule") /\ ~Emits("match.disconnect_forfeit")
      /\ Emits("countdown.cancel")
  BY <1>1, <1>2 DEF Emits, Cancelling, Harmless
<1> QED
  BY <1>1, <1>2, <1>3 DEF Facts, Fenced, OnceForfeited, Announced, Kept

LEMMA CloseStep ==
    ASSUME NEW reason, CloseRoom(reason),
           phase = "playing" /\ Online # {} => lifetimeOver \/ reason = "server_shutdown"
    PROVE  Facts
<1>1. /\ effects' = {Effect("room.closed", None)} /\ revised' = TRUE /\ IdleSpared'
      /\ phase' = "closed" /\ activeMatch' = None /\ countdown' = None /\ closedReason' = reason
  BY Committed DEF CloseRoom
<1>2. /\ ~Emits("countdown.schedule") /\ ~Emits("match.disconnect_forfeit")
      /\ ~Emits("countdown.cancel")
  BY <1>1 DEF Emits, Effect
<1> QED
  BY <1>1, <1>2 DEF Facts, Fenced, OnceForfeited, Announced, Kept

-----------------------------------------------------------------------------
(* One step of each action *)

LEMMA RequestFacts ==
    ASSUME IInv, IInv', NEW p \in Players, PlayerRequest(p)
    PROVE  Facts
<1>0. PhaseShape /\ PhaseShape'
  BY DEF IInv, Rules
<1>00. Cancelling(CancelEffect)
  BY CancelsAlone
<1>1. CASE JoinAsSpectator(p)
  BY <1>1, SameStep DEF JoinAsSpectator, competition
<1>2. CASE \E s \in Seats : JoinAsPlayer(p, s)
  <2>1. ResetCompetition /\ Commit(CancelEffect, TRUE)
    BY <1>2 DEF JoinAsPlayer
  <2> QED
    BY <1>00, <2>1, ResetStep
<1>3. CASE \E s \in Seats : ReadySet(p, s)
  <2>1. phase \in {"lobby", "between_games"} /\ countdown = None
    BY <1>0, <1>3 DEF ReadySet, PhaseShape
  <2>2. CASE BeginCountdown(phase) /\ Commit({Effect("countdown.schedule", None)}, TRUE)
    BY <1>0, <2>1, <2>2, BeginStep
  <2>3. CASE UNCHANGED <<phase, countdown, activeMatch>> /\ Commit({}, TRUE)
    BY <2>3, SameStep
  <2> QED
    BY <1>3, <2>2, <2>3 DEF ReadySet
<1>4. CASE \E s \in Seats : Rematch(p, s)
  <2>1. phase = "series_complete" /\ countdown = None
    BY <1>0, <1>4 DEF Rematch, PhaseShape
  <2>2. CASE /\ BeginCountdown("series_complete")
             /\ Commit({Effect("countdown.schedule", None)}, TRUE)
    BY <1>0, <2>1, <2>2, BeginStep
  <2>3. CASE UNCHANGED <<phase, countdown, activeMatch>> /\ Commit({}, TRUE)
    BY <2>3, SameStep
  <2> QED
    BY <1>4, <2>2, <2>3 DEF Rematch
<1>5. CASE Leave(p)
  <2>1. RemoveMember(p) /\ Commit(RemovalEffects(p), TRUE)
    BY <1>5 DEF Leave
  <2>2. RemovalEffects(p) = RemovalEffects(p) \cup {}
    OBVIOUS
  <2>3. \A e \in {} : e.type \in Harmless
    OBVIOUS
  <2> QED
    BY <2>1, <2>2, <2>3, RemoveStep
<1>6. CASE \E target \in Seats \cup {None} : SeatSet(p, target)
  <2>1. ResetCompetition /\ Commit(CancelEffect, TRUE)
    BY <1>6 DEF SeatSet
  <2> QED
    BY <1>00, <2>1, ResetStep
<1>7. CASE Unready(p)
  <2>1. phase = "countdown" /\ CancelCountdown /\ Commit(CancelEffect, TRUE)
    BY <1>7 DEF Unready
  <2> QED
    BY <1>0, <1>00, <2>1, CancelStep
<1>8. CASE \E wins \in TargetWinsOptions, spectators \in BOOLEAN :
             SettingsUpdate(p, wins, spectators)
  <2>1. /\ phase \in {"lobby", "series_complete"} /\ ResetCompetition
        /\ Commit({}, TRUE)
    BY <1>8 DEF SettingsUpdate
  <2>2. CancelEffect = {}
    BY <1>0, <2>1 DEF PhaseShape, CancelEffect
  <2> QED
    BY <1>00, <2>1, <2>2, ResetStep
<1>9. CASE \E target \in Players : HostTransfer(p, target)
  BY <1>9, SameStep DEF HostTransfer, competition
<1>10. CASE \E target \in Players : Kick(p, target)
  <2>1. PICK target \in Players : Kick(p, target)
    BY <1>10
  <2>2. \A e \in {Effect("member.kicked", target)} : e.type \in Harmless
    BY DEF Effect, Harmless
  <2> QED
    BY <2>1, <2>2, RemoveStep DEF Kick
<1>11. CASE CloseByHost(p)
  BY <1>11, CloseStep DEF CloseByHost
<1> QED
  BY <1>1, <1>2, <1>3, <1>4, <1>5, <1>6, <1>7, <1>8, <1>9, <1>10, <1>11 DEF PlayerRequest

LEMMA PresenceFacts ==
    ASSUME IInv, IInv', NEW p \in Players, Presence(p)
    PROVE  Facts
<1>0. /\ PhaseShape /\ SeriesBound
      /\ ready \in [Seats -> BOOLEAN] /\ votes \in [Seats -> BOOLEAN]
      /\ activeMatch \in Match \cup {None}
  BY DEF IInv, Rules, TypeOK, CompetitionType
<1>1. CASE ConnectionLost(p)
  <2>1. CASE InterruptsCountdown(p)
    <3>1. /\ phase = "countdown" /\ CancelCountdown
          /\ Commit({Effect("member.reconnect_deadline", p)} \cup CancelEffect, TRUE)
      BY <1>1, <2>1 DEF ConnectionLost, InterruptsCountdown
    <3>2. \A e \in {Effect("member.reconnect_deadline", p)} : e.type \in Harmless
      BY DEF Effect, Harmless
    <3>3. Cancelling(CancelEffect \cup {Effect("member.reconnect_deadline", p)})
      BY <3>2, Cancels
    <3>4. Cancelling({Effect("member.reconnect_deadline", p)} \cup CancelEffect)
      BY <3>3 DEF Cancelling
    <3> QED
      BY <1>0, <3>1, <3>4, CancelStep
  <2>2. CASE ~InterruptsCountdown(p)
    <3>1. /\ ready' = [s \in Seats |-> ready[s] /\ seats[s] # p]
          /\ votes' = [s \in Seats |->
                         votes[s] /\ ~(phase = "series_complete" /\ seats[s] = p)]
          /\ UNCHANGED <<seats, host, denied, settings, phase, rulesStatus, countdown,
                         series, activeMatch>>
      BY <1>1, <2>2 DEF ConnectionLost
    <3>2. PICK emitted :
            /\ \A e \in emitted : e.type \in {"member.reconnect_deadline", "match.clear_input"}
            /\ Commit(emitted, Seated(p))
      BY <1>1, <2>2 DEF ConnectionLost, Effect
    <3>3. /\ IdleSpared' /\ (revised' <=> Seated(p))
          /\ ~Emits("countdown.schedule") /\ ~Emits("countdown.cancel")
          /\ ~Emits("match.disconnect_forfeit")
      BY <3>2, Committed DEF Emits
    <3>4. ~Seated(p) => UNCHANGED <<ready, votes>>
      BY <1>0, <3>1 DEF Seated
    <3> QED
      BY <3>1, <3>3, <3>4 DEF Facts, Fenced, OnceForfeited, Announced, Kept
  <2> QED
    BY <2>1, <2>2
<1>2. CASE ConnectionResumed(p)
  <2>1. /\ UNCHANGED <<seats, denied, settings, competition>>
        /\ Commit({}, ResumeControls(p))
    BY <1>2 DEF ConnectionResumed
  <2>2. effects' = {} /\ IdleSpared' /\ (~revised' => host' = host)
    BY <2>1 DEF Commit, ResumeControls, IdleSpared, LifetimeOnly
  <2> QED
    BY <2>1, <2>2 DEF Facts, Fenced, OnceForfeited, Announced, Kept, Emits, competition
<1>3. CASE ConnectionReplace(p)
  <2>1. /\ UNCHANGED <<seats, host, denied, settings, competition>>
        /\ \/ effects' = {Effect("match.clear_input", p)}
           \/ effects' = {}
        /\ IdleSpared'
    BY <1>3, Committed DEF ConnectionReplace
  <2>2. /\ ~Emits("countdown.schedule") /\ ~Emits("countdown.cancel")
        /\ ~Emits("match.disconnect_forfeit")
    BY <2>1 DEF Emits, Effect
  <2> QED
    BY <2>1, <2>2 DEF Facts, Fenced, OnceForfeited, Announced, Kept, competition
<1>4. CASE RequestForfeit(p)
  <2>1. /\ activeMatch # None /\ ~activeMatch.resolutionRequested
        /\ activeMatch' = [activeMatch EXCEPT !.resolutionRequested = TRUE]
        /\ UNCHANGED <<phase, countdown>>
        /\ Commit({Effect("match.disconnect_forfeit", p)}, TRUE)
    BY <1>4 DEF RequestForfeit, InLiveMatch, NotYetRequested
  <2>2. activeMatch'.gameNumber = activeMatch.gameNumber
    BY <1>0, <2>1 DEF Match
  <2>3. /\ effects' = {Effect("match.disconnect_forfeit", p)}
        /\ revised' = TRUE /\ IdleSpared'
    BY <2>1, Committed
  <2>4. ~Emits("countdown.schedule") /\ ~Emits("countdown.cancel")
    BY <2>3 DEF Emits, Effect
  <2>5. activeMatch.resolutionRequested => activeMatch'.resolutionRequested
    BY <2>1
  <2> QED
    BY <2>1, <2>2, <2>3, <2>4, <2>5 DEF Facts, Fenced, OnceForfeited, Announced, Kept
<1>5. CASE ExpireMember(p)
  <2>1. \A e \in {Effect("member.reconnect_expired", p)} : e.type \in Harmless
    BY DEF Effect, Harmless
  <2> QED
    BY <1>5, <2>1, RemoveStep DEF ExpireMember
<1> QED
  BY <1>1, <1>2, <1>3, <1>4, <1>5 DEF Presence

LEMMA ServerFacts ==
    ASSUME IInv, IInv', IdleSpared, Server
    PROVE  Facts
<1>0. PhaseShape /\ PhaseShape'
  BY DEF IInv, Rules
<1>1. CASE TimerRoomExpired \/ CommandAfterExpiry \/ AdminClose
  <2>1. phase = "playing" /\ Online # {} => ~idleOver
    BY DEF IdleSpared, LifetimeOnly
  <2> QED
    BY <1>1, <2>1, CloseStep DEF TimerRoomExpired, CommandAfterExpiry, AdminClose, Expired
<1>2. CASE CountdownElapsed
  <2>1. phase = "countdown" /\ countdown # None /\ activeMatch = None
    BY <1>0, <1>2 DEF CountdownElapsed, PhaseShape
  <2>2. CASE /\ phase' = "playing" /\ countdown' = None
             /\ Commit({Effect("match.start", None)}, TRUE)
    <3>1. /\ effects' = {Effect("match.start", None)} /\ revised' = TRUE /\ IdleSpared'
      BY <2>2, Committed
    <3>2. /\ ~Emits("countdown.schedule") /\ ~Emits("countdown.cancel")
          /\ ~Emits("match.disconnect_forfeit")
      BY <3>1 DEF Emits, Effect
    <3> QED
      BY <2>1, <2>2, <3>1, <3>2 DEF Facts, Fenced, OnceForfeited, Announced, Kept
  <2>3. CASE CancelCountdown /\ Commit(CancelEffect, TRUE)
    BY <1>0, <2>1, <2>3, CancelsAlone, CancelStep
  <2> QED
    BY <1>2, <2>2, <2>3 DEF CountdownElapsed
<1>3. CASE \E winner \in Players \cup {None} : MatchFinished(winner)
  <2>1. /\ phase = "playing" /\ phase' \in {"series_complete", "between_games"}
        /\ countdown' = None /\ activeMatch' = None
        /\ Commit({Effect("member.reconnect_deadline", p) : p \in Away}, TRUE)
    BY <1>3 DEF MatchFinished
  <2>2. /\ effects' = {Effect("member.reconnect_deadline", p) : p \in Away}
        /\ revised' = TRUE /\ IdleSpared'
    BY <2>1, Committed
  <2>3. \A e \in effects' : e.type = "member.reconnect_deadline"
    BY <2>2 DEF Effect
  <2>4. countdown = None
    BY <1>0, <2>1 DEF PhaseShape
  <2>5. /\ ~Emits("countdown.schedule") /\ ~Emits("countdown.cancel")
        /\ ~Emits("match.disconnect_forfeit")
    BY <2>3 DEF Emits
  <2> QED
    BY <2>1, <2>2, <2>4, <2>5 DEF Facts, Fenced, OnceForfeited, Announced, Kept
<1> QED
  BY <1>1, <1>2, <1>3 DEF Server

LEMMA ClockFacts ==
    ASSUME IInv, IdleSpared, Clock
    PROVE  Facts
<1>1. /\ UNCHANGED <<conn, seats, host, denied, settings, phase, rulesStatus, ready, votes,
                     series, activeMatch>>
      /\ effects' = {}
  BY DEF Clock, ReconnectDeadlinePasses, CountdownRunsOut, IdleDeadlinePasses,
         LifetimePasses, Tick
<1>2. countdown' # None <=> countdown # None
  <2>1. CASE CountdownRunsOut
    <3>1. countdown \in Countdown /\ countdown' = [countdown EXCEPT !.due = TRUE]
      BY <2>1 DEF CountdownRunsOut, IInv, TypeOK, CompetitionType
    <3>2. countdown' \in Countdown
      BY <3>1 DEF Countdown
    <3> QED
      BY <3>1, <3>2, NoneAssumption
  <2>2. CASE ~CountdownRunsOut
    BY <2>2 DEF Clock, ReconnectDeadlinePasses, IdleDeadlinePasses, LifetimePasses
  <2> QED
    BY <2>1, <2>2
<1>3. LifetimeOnly' = LifetimeOnly
  BY <1>1 DEF LifetimeOnly, Online
<1>4. idleOver' # idleOver => ~LifetimeOnly
  BY DEF Clock, ReconnectDeadlinePasses, CountdownRunsOut, IdleDeadlinePasses, LifetimePasses
<1>5. IdleSpared'
  BY <1>3, <1>4 DEF IdleSpared
<1> QED
  BY <1>1, <1>2, <1>5 DEF Facts, Fenced, OnceForfeited, Announced, Kept, Emits

LEMMA StepFacts == IInv /\ IInv' /\ IdleSpared /\ Next => Facts
BY RequestFacts, PresenceFacts, ServerFacts, ClockFacts DEF Next

-----------------------------------------------------------------------------
LEMMA IdleIsSpared == Spec => []IdleSpared
<1>1. Init => IdleSpared
  BY DEF Init, IdleSpared, LifetimeOnly
<1>2. IInv /\ IInv' /\ IdleSpared /\ [Next]_vars => IdleSpared'
  <2>1. IdleSpared /\ UNCHANGED vars => IdleSpared'
    BY DEF vars, membership, competition, IdleSpared, LifetimeOnly, Online
  <2> QED
    BY <2>1, StepFacts DEF Facts
<1> QED
  BY <1>1, <1>2, Inductive, PTL DEF Spec

LEMMA StepsAreFactual == Spec => [][Facts]_vars
<1>1. IInv /\ IInv' /\ IdleSpared /\ [Next]_vars => [Facts]_vars
  BY StepFacts
<1> QED
  BY <1>1, Inductive, IdleIsSpared, PTL DEF Spec

\* A command that names the present revision acts on the state its sender saw.
THEOREM RevisionIsAFence == Spec => RevisionFence
<1>1. [Facts]_vars => [Fenced]_vars
  BY DEF Facts
<1> QED
  BY <1>1, StepsAreFactual, PTL DEF RevisionFence, Fenced

\* A match asks for one forfeit at most, whoever is away and in whatever order the grace of
\* the players runs out.
THEOREM ForfeitsOnce == Spec => OneForfeitPerMatch
<1>1. [Facts]_vars => [OnceForfeited]_vars
  BY DEF Facts
<1> QED
  BY <1>1, StepsAreFactual, PTL DEF OneForfeitPerMatch, OnceForfeited

\* Every countdown that begins is announced, and so is each that does not lead to a match.
THEOREM CountdownsAreAnnounced == Spec => CountdownAnnounced
<1>1. [Facts]_vars => [Announced]_vars
  BY DEF Facts
<1> QED
  BY <1>1, StepsAreFactual, PTL DEF CountdownAnnounced, Announced

\* No idle timer ends a match that somebody is still connected to.
THEOREM LiveMatchIsKept == Spec => LiveMatchKept
<1>1. [Facts]_vars => [Kept]_vars
  BY DEF Facts
<1> QED
  BY <1>1, StepsAreFactual, PTL DEF LiveMatchKept, Kept

=============================================================================
