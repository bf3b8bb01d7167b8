----------------------------- MODULE MatchProofs -----------------------------
(***************************************************************************)
(* Theorems about a match and about its replay.  Of MatchLifecycle, for    *)
(* any set of rooms, any number of matches, and any rates, delays and      *)
(* batches of the loop.  Of ReplayPersistence, whose definitions say       *)
(* "Replay" where the lifecycle's do not, for any action lists, any number *)
(* of inputs, controls and frames, and any length of the chain.            *)
(***************************************************************************)
EXTENDS MatchLifecycle, ReplayPersistence, ArrayLemmas

-----------------------------------------------------------------------------
(* The loop *)

\* The next callback is not later than the next frame asks for.
InTime(l) ==
    /\ l.wake # Unset
    /\ l.wake < Grain + (IF l.late < Period THEN Period - l.late ELSE 0)

\* What the loop l has simulated when it owes o: `late` tells it while the loop runs, and
\* tells it but for the present pause while it is paused.
Sound(l, o) ==
    /\ l \in LoopType /\ o \in Nat
    /\ l.state = "idle" => o = 0
    /\ l.state = "running" => l.late = o /\ InTime(l)
    /\ l.state = "paused" => l.late = o + l.away

\* Whole division: what it yields is the largest multiple that fits.
LEMMA Division ==
    ASSUME NEW x \in Nat, NEW d \in Nat \ {0}
    PROVE  x \div d \in Nat /\ d * (x \div d) <= x /\ x < d * (x \div d) + d
<1>1. x = d * (x \div d) + (x % d) /\ (x % d) \in 0..(d - 1) /\ x \div d \in Int
  BY SMT
<1>2. x \div d \in Nat
  BY SMT
<1> QED BY <1>1, <1>2, SMT

\* A delay is rounded up by less than a grain.
LEMMA Rounding ==
    ASSUME NEW t \in Nat
    PROVE  RoundedUp(t) \in Nat /\ RoundedUp(t) < t + Grain
<1>1. Grain \in Nat \ {0}
  BY LoopAssumption
<1>2. t + Grain - 1 \in Nat
  BY <1>1
<1> DEFINE q == (t + Grain - 1) \div Grain
<1>3. q \in Nat /\ Grain * q <= t + Grain - 1
  BY <1>1, <1>2, Division
<1>4. RoundedUp(t) = q * Grain /\ q * Grain = Grain * q
  BY <1>1, <1>3 DEF RoundedUp
<1> HIDE DEF q
<1> QED BY <1>1, <1>3, <1>4

LEMMA BehindBounds ==
    ASSUME NEW l \in LoopType
    PROVE  /\ Behind(l) \in Nat /\ Period * Behind(l) <= l.late
           /\ Behind(l) = 0 => l.late < Period
           /\ l.late < Period => Behind(l) = 0
<1>1. l.late \in Nat /\ Period \in Nat \ {0}
  BY LoopAssumption DEF LoopType
<1> DEFINE q == l.late \div Period
<1>2. q \in Nat /\ Period * q <= l.late /\ l.late < Period * q + Period
  BY <1>1, Division
<1>3. Behind(l) = q
  BY DEF Behind
<1> HIDE DEF q
<1>4. q # 0 => Period <= Period * q
  BY <1>1, <1>2
<1> QED BY <1>1, <1>2, <1>3, <1>4

\* A callback is scheduled in time, whatever is due.
LEMMA ScheduledInTime ==
    ASSUME NEW l \in LoopType
    PROVE  /\ ScheduledNext(l) \in LoopType /\ InTime(ScheduledNext(l))
           /\ ScheduledNext(l).state = l.state /\ ScheduledNext(l).late = l.late
           /\ ScheduledNext(l).away = l.away
<1> DEFINE w == IF Behind(l) > 0 THEN 0 ELSE RoundedUp(Period - l.late)
<1>1. l.late \in Nat /\ Period \in Nat \ {0} /\ Grain \in Nat \ {0}
  BY LoopAssumption DEF LoopType
<1>2. w \in Nat /\ w < Grain + (IF l.late < Period THEN Period - l.late ELSE 0)
  <2>1. CASE Behind(l) > 0
    BY <1>1, <2>1
  <2>2. CASE ~(Behind(l) > 0)
    <3>1. l.late < Period
      BY <2>2, BehindBounds
    <3>2. Period - l.late \in Nat
      BY <1>1, <3>1
    <3>3. w = RoundedUp(Period - l.late)
      BY <2>2
    <3> QED BY <1>1, <3>1, <3>2, <3>3, Rounding
  <2> QED BY <2>1, <2>2
<1>3. ScheduledNext(l) = [l EXCEPT !.wake = w]
  BY DEF ScheduledNext
<1> HIDE DEF w
<1>4. /\ [l EXCEPT !.wake = w] \in LoopType
      /\ [l EXCEPT !.wake = w].wake = w /\ [l EXCEPT !.wake = w].late = l.late
      /\ [l EXCEPT !.wake = w].state = l.state /\ [l EXCEPT !.wake = w].away = l.away
  BY <1>2 DEF LoopType
<1>5. w # Unset
  BY <1>2 DEF Unset
<1> QED BY <1>2, <1>3, <1>4, <1>5 DEF InTime

LEMMA StartSound ==
    ASSUME NEW l, NEW o, Sound(l, o), l.state = "idle"
    PROVE  Sound(LoopStart(l), o)
<1> DEFINE k == [l EXCEPT !.state = "running", !.late = 0]
<1>1. k \in LoopType /\ k.state = "running" /\ k.late = 0
  BY DEF Sound, LoopType
<1>2. LoopStart(l) = ScheduledNext(k)
  BY DEF LoopStart
<1> HIDE DEF k
<1> QED BY <1>1, <1>2, ScheduledInTime DEF Sound

LEMMA PauseSound ==
    ASSUME NEW l, NEW o, Sound(l, o), l.state = "running"
    PROVE  Sound(LoopPause(l), o)
<1>1. /\ LoopPause(l) \in LoopType /\ LoopPause(l).state = "paused"
      /\ LoopPause(l).late = l.late /\ LoopPause(l).away = 0
  BY DEF Sound, LoopType, LoopPause
<1> QED BY <1>1 DEF Sound

LEMMA ResumeSound ==
    ASSUME NEW l, NEW o, Sound(l, o), l.state = "paused"
    PROVE  Sound(LoopResume(l), o)
<1> DEFINE k == [l EXCEPT !.state = "running", !.late = @ - l.away, !.away = 0]
<1>1. l.late - l.away = o /\ o \in Nat
  BY DEF Sound, LoopType
<1>2. k \in LoopType /\ k.state = "running" /\ k.late = o
  BY <1>1 DEF Sound, LoopType
<1>3. LoopResume(l) = ScheduledNext(k)
  BY DEF LoopResume
<1> HIDE DEF k
<1> QED BY <1>1, <1>2, <1>3, ScheduledInTime DEF Sound

LEMMA EndSound ==
    ASSUME NEW state \in {"stopped", "closed"}
    PROVE  Sound(LoopEnd(state), 0)
BY DEF Sound, LoopEnd, NewLoop, LoopType, Unset

\* Time passes by one: it is owed while the loop runs, and not while it is paused.
LEMMA ElapsedSound ==
    ASSUME NEW l, NEW o, Sound(l, o), l.state \in {"running", "paused"}
    PROVE  Sound(LoopElapsed(l, 1), IF l.state = "running" THEN o + 1 ELSE o)
<1> DEFINE e == LoopElapsed(l, 1)
<1>1. /\ l.late \in Nat /\ l.away \in Nat /\ l.wake \in {Unset} \cup Nat /\ o \in Nat
      /\ l \in LoopType /\ Period \in Nat /\ Grain \in Nat \ {0}
  BY LoopAssumption DEF Sound, LoopType
<1>2. /\ e.state = l.state /\ e.late = l.late + 1
      /\ e.away = IF l.state = "paused" THEN l.away + 1 ELSE l.away
      /\ e.wake = IF l.wake > 1 THEN l.wake - 1 ELSE IF l.wake = Unset THEN l.wake ELSE 0
  BY <1>1 DEF LoopElapsed, LoopType
<1>3. e.away \in Nat /\ e.late \in Nat /\ e.wake \in {Unset} \cup Nat
  BY <1>1, <1>2 DEF Unset
<1>4. e \in LoopType
  BY <1>1, <1>3 DEF LoopElapsed, LoopType
<1>5. l.state = "running" => InTime(e)
  BY <1>1, <1>2 DEF InTime, Unset, Sound
<1> HIDE DEF e
<1>6. l.state = "running" => Sound(e, o + 1)
  BY <1>1, <1>2, <1>4, <1>5 DEF Sound
<1>7. l.state = "paused" => Sound(e, o)
  BY <1>1, <1>2, <1>4 DEF Sound
<1> QED BY <1>6, <1>7 DEF e

LEMMA OverloadedKeeps ==
    ASSUME NEW l \in LoopType
    PROVE  /\ Overloaded(l) \in LoopType /\ Overloaded(l).state = l.state
           /\ Overloaded(l).late = l.late /\ Overloaded(l).away = l.away
<1> DEFINE b == IF l.overloaded THEN Behind(l) # 0 ELSE Behind(l) > MaxCatchUpSteps
<1>1. b \in BOOLEAN
  <2>1. CASE l.overloaded
    <3>1. b = (Behind(l) # 0)
      BY <2>1, Zenon
    <3> QED BY <3>1
  <2>2. CASE ~l.overloaded
    <3>1. Behind(l) \in Nat /\ MaxCatchUpSteps \in Nat
      BY BehindBounds, LoopAssumption
    <3>2. (Behind(l) > MaxCatchUpSteps) \in BOOLEAN
      BY <3>1
    <3> QED BY <2>2, <3>2, Zenon
  <2> QED BY <2>1, <2>2
<1>2. Overloaded(l) = [l EXCEPT !.overloaded = b]
  BY DEF Overloaded
<1> HIDE DEF b
<1> QED BY <1>1, <1>2 DEF LoopType

\* A callback pays what its frames are worth, and owes the time they took.
LEMMA PumpSound ==
    ASSUME NEW l, NEW o, Sound(l, o), l.state = "running", NEW spent \in Nat
    PROVE  Sound(LoopPump(l, spent), o - Batch(l) * Period + spent)
<1> DEFINE left == l.late - Batch(l) * Period + spent
           caught == [Overloaded(l) EXCEPT !.late = @ - Batch(l) * Period + spent,
                                           !.wake = Unset]
<1>1. l \in LoopType /\ l.late \in Nat /\ l.late = o /\ Period \in Nat
      /\ MaxCatchUpSteps \in Nat
  BY LoopAssumption DEF Sound, LoopType
<1>2. Batch(l) \in Nat /\ Batch(l) <= Behind(l) /\ Behind(l) \in Nat
  BY <1>1, BehindBounds DEF Batch
<1>3. Batch(l) * Period <= Behind(l) * Period /\ Behind(l) * Period = Period * Behind(l)
  BY <1>1, <1>2
<1>4. Batch(l) * Period \in Nat /\ Period * Behind(l) <= l.late
  BY <1>1, <1>2, BehindBounds
<1>5. left \in Nat
  BY <1>1, <1>2, <1>3, <1>4
<1>6. caught \in LoopType /\ caught.state = "running" /\ caught.late = left
  BY <1>1, <1>5, OverloadedKeeps DEF LoopType
<1>7. LoopPump(l, spent) = ScheduledNext(Overloaded(caught))
  BY DEF LoopPump
<1> HIDE DEF left, caught
<1>8. /\ LoopPump(l, spent) \in LoopType /\ InTime(LoopPump(l, spent))
      /\ LoopPump(l, spent).state = "running" /\ LoopPump(l, spent).late = left
  BY <1>6, <1>7, OverloadedKeeps, ScheduledInTime
<1>9. left = o - Batch(l) * Period + spent
  BY <1>1 DEF left
<1> QED BY <1>5, <1>8, <1>9 DEF Sound

-----------------------------------------------------------------------------
(* The invariant *)

Names == {"start", "forfeit", "closed"}
CommitType == [set : BOOLEAN, of : [match : Numbers, effects : Seq(Names)]]

\* The types but for the loop's.
Typed ==
    /\ begun \in Seq(Rooms) /\ active \in [Rooms -> Numbers]
    /\ requested \in [Rooms -> BOOLEAN]
    /\ closed \in [Rooms -> BOOLEAN] /\ removed \in [Rooms -> BOOLEAN]
    /\ commit \in [Rooms -> CommitType]
    /\ lane \in [Rooms -> Seq(Effects)]
    /\ sim \in [Matches -> {"absent", "running", "finished"}]
    /\ ending \in [Matches -> {"no", "replay", "dispatched", "recorded", "answered",
                               "retired"}]

\* A room holds a match it began itself; the commit being published names the match the
\* room holds since, which lets none but that commit's prune be owed; and only what was
\* begun is simulated.
Owners == \A r \in Rooms : active[r] # 0 => active[r] \in DOMAIN begun /\ begun[active[r]] = r
CommitsName == \A r \in Rooms : commit[r].set => commit[r].of.match = active[r]
SimulatedBegun == \A m \in Matches : sim[m] = "running" => m \in DOMAIN begun

Bound == Owners /\ CommitsName /\ SimulatedBegun /\ SimulatedIsHeld
IInv == Typed /\ Sound(loop, owed) /\ Bound

-----------------------------------------------------------------------------
(* The loop's part *)

\* Pausing the loop of a registry without matches.
LEMMA PausedSound ==
    ASSUME NEW matches, Sound(loop, owed)
    PROVE  Sound(Paused(matches), owed)
<1>1. CASE loop.state = "running" /\ Registered(matches) = {}
  BY <1>1, PauseSound DEF Paused
<1>2. CASE ~(loop.state = "running" /\ Registered(matches) = {})
  BY <1>2 DEF Paused
<1> QED BY <1>1, <1>2

LEMMA StartedSound ==
    ASSUME Sound(loop, owed)
    PROVE  Sound(Started, owed)
<1>1. CASE loop.state = "idle"
  BY <1>1, StartSound DEF Started
<1>2. CASE loop.state = "paused"
  BY <1>2, ResumeSound DEF Started
<1>3. CASE loop.state \notin {"idle", "paused"}
  BY <1>3 DEF Started
<1> QED BY <1>1, <1>2, <1>3

LEMMA LoopStep ==
    ASSUME Sound(loop, owed), [Next]_vars
    PROVE  Sound(loop, owed)'
<1>1. CASE UNCHANGED <<loop, owed>>
  BY <1>1 DEF Sound, InTime, LoopType
<1>2. ASSUME NEW r \in Rooms,
             BeginMatch(r) \/ RequestForfeit(r) \/ CloseRoom(r) \/ DeliverForfeit(r)
      PROVE  UNCHANGED <<loop, owed>>
  BY <1>2 DEF BeginMatch, RequestForfeit, CloseRoom, DeliverForfeit
<1>3. ASSUME NEW r \in Rooms, Publish(r) \/ DeliverClosed(r)
      PROVE  Sound(loop', owed')
  BY <1>3, PausedSound DEF Publish, DeliverClosed, Prune
<1>4. ASSUME NEW r \in Rooms, DeliverStart(r)
      PROVE  Sound(loop', owed')
  BY <1>4, StartedSound DEF DeliverStart
<1>5. ASSUME NEW m \in Matches,
             Forfeit(m) \/ ReplayFinalized(m) \/ MatchFinished(m) \/ DispatchDisposed(m)
      PROVE  UNCHANGED <<loop, owed>>
  BY <1>5 DEF Forfeit, ReplayFinalized, MatchFinished, DispatchDisposed
<1>6. ASSUME NEW m \in Matches, Retire(m)
      PROVE  Sound(loop', owed')
  BY <1>6, PausedSound DEF Retire
<1>7. ASSUME NEW ended, Pump(ended)
      PROVE  Sound(loop', owed')
  <2>1. PICK spent \in 0..MaxSpent :
            loop' = LoopPump(loop, spent) /\ owed' = owed - Batch(loop) * Period + spent
    BY <1>7 DEF Pump
  <2>2. spent \in Nat /\ loop.state = "running"
    BY <1>7, <2>1, ConstantAssumption DEF Pump
  <2> QED BY <2>1, <2>2, PumpSound
<1>8. ASSUME Tick
      PROVE  Sound(loop', owed')
  <2>1. loop' = LoopElapsed(loop, 1)
    BY <1>8 DEF Tick
  <2>2. \/ loop.state = "running" /\ owed' = owed + 1
        \/ loop.state = "paused" /\ owed' = owed
    BY <1>8 DEF Tick
  <2> QED BY <2>1, <2>2, ElapsedSound
<1>9. ASSUME LoopFails \/ Shutdown
      PROVE  Sound(loop', owed')
  BY <1>9, EndSound DEF LoopFails, Shutdown
<1>10. CASE UNCHANGED vars
  BY <1>1, <1>10 DEF vars
<1>11. ASSUME Sound(loop', owed')
       PROVE  Sound(loop, owed)'
  BY <1>11
<1> QED
  BY <1>1, <1>2, <1>3, <1>4, <1>5, <1>6, <1>7, <1>8, <1>9, <1>10, <1>11 DEF Next

-----------------------------------------------------------------------------
(* Simulations and their rooms *)

\* A room holds a match exactly when it is the one that began it.
LEMMA HeldByOwner ==
    ASSUME Owners, NEW m \in Matches, m \in DOMAIN begun
    PROVE  Held(m) <=> \E r \in Rooms : r = begun[m] /\ active[r] = m
BY DEF Owners, Held, Matches

\* Steps that let go of simulations and leave the rooms alone.
LEMMA Subside ==
    ASSUME Bound, UNCHANGED <<begun, active, commit>>,
           \A m \in Matches : sim'[m] = "running" => sim[m] = "running"
    PROVE  Bound'
<1>1. Owners' /\ CommitsName' /\ SimulatedBegun'
  BY DEF Bound, Owners, CommitsName, SimulatedBegun
<1>2. SimulatedIsHeld'
  BY DEF Bound, SimulatedIsHeld, Held
<1> QED BY <1>1, <1>2 DEF Bound

\* A commit of a room that leaves the simulations alone: the room holds another match or
\* none from now on, and the commit says so.
LEMMA CommitStep ==
    ASSUME Typed, Bound, NEW r \in Rooms, NEW n \in Numbers, NEW effects,
           active' = [active EXCEPT ![r] = n],
           commit' = [commit EXCEPT ![r] = ToPublish(n, effects)],
           UNCHANGED sim,
           \/ UNCHANGED begun /\ n \in {0, active[r]}
           \/ begun' = Append(begun, r) /\ n = Len(begun')
    PROVE  Bound'
<1>1. /\ active \in [Rooms -> Numbers] /\ begun \in Seq(Rooms)
      /\ Len(begun) \in Nat /\ DOMAIN begun = 1..Len(begun)
      /\ commit \in [Rooms -> CommitType]
  BY DEF Typed
<1>2. \A m \in DOMAIN begun : m \in DOMAIN begun' /\ begun'[m] = begun[m]
  <2>1. CASE UNCHANGED begun
    BY <2>1
  <2>2. CASE begun' = Append(begun, r)
    <3>1. DOMAIN Append(begun, r) = 1..(Len(begun) + 1)
      BY <1>1
    <3>2. \A m \in 1..Len(begun) : Append(begun, r)[m] = begun[m]
      BY <1>1
    <3>3. DOMAIN begun' = 1..(Len(begun) + 1)
      BY <2>2, <3>1, Zenon
    <3>4. \A m \in 1..Len(begun) : begun'[m] = begun[m]
      BY <2>2, <3>2, Zenon
    <3>5. \A m \in 1..Len(begun) : m \in 1..(Len(begun) + 1)
      BY <1>1
    <3>6. DOMAIN begun = 1..Len(begun)
      BY <1>1
    <3> QED BY <3>3, <3>4, <3>5, <3>6, Zenon
  <2> QED BY <2>1, <2>2
<1>3. Owners'
  <2>1. active'[r] # 0 => active'[r] \in DOMAIN begun' /\ begun'[active'[r]] = r
    <3>1. CASE UNCHANGED begun /\ n \in {0, active[r]}
      BY <1>1, <3>1 DEF Bound, Owners
    <3>2. CASE begun' = Append(begun, r) /\ n = Len(begun')
      <4>1. n = Len(begun) + 1 /\ n \in DOMAIN begun' /\ begun'[n] = r
        BY <1>1, <3>2
      <4> QED BY <1>1, <4>1
    <3> QED BY <3>1, <3>2
  <2>2. \A t \in Rooms \ {r} : active'[t] = active[t]
    BY <1>1
  <2> QED BY <1>2, <2>1, <2>2 DEF Bound, Owners
<1>4. /\ commit'[r].set /\ commit'[r].of.match = n /\ active'[r] = n
      /\ \A t \in Rooms \ {r} : commit'[t] = commit[t] /\ active'[t] = active[t]
  BY <1>1 DEF ToPublish
<1>5. CommitsName'
  BY <1>4 DEF Bound, CommitsName
<1>6. SimulatedBegun'
  BY <1>2 DEF Bound, SimulatedBegun
<1>7. SimulatedIsHeld'
  <2> SUFFICES ASSUME NEW m \in Matches, sim[m] = "running"
               PROVE  Held(m)' \/ (commit'[begun'[m]].set /\ commit'[begun'[m]].of.match # m)
    BY DEF SimulatedIsHeld
  <2>1. m \in DOMAIN begun /\ begun'[m] = begun[m] /\ begun[m] \in Rooms
    BY <1>1, <1>2 DEF Bound, SimulatedBegun
  <2>2. Held(m) \/ (commit[begun[m]].set /\ commit[begun[m]].of.match # m)
    BY DEF Bound, SimulatedIsHeld
  <2>3. CASE begun[m] = r
    BY <1>4, <2>1, <2>3 DEF Held
  <2>4. CASE begun[m] # r
    <3>1. CASE commit[begun[m]].set /\ commit[begun[m]].of.match # m
      BY <1>4, <2>1, <2>4, <3>1
    <3>2. CASE Held(m)
      <4>1. active[begun[m]] = m
        BY <2>1, <3>2, HeldByOwner DEF Bound
      <4> QED BY <1>4, <2>1, <2>4, <4>1 DEF Held
    <3> QED BY <2>2, <3>1, <3>2
  <2> QED BY <2>3, <2>4
<1> QED BY <1>3, <1>5, <1>6, <1>7 DEF Bound

\* What the prune of a publication leaves of a room is the match the room holds.
LEMMA PublishStep ==
    ASSUME Typed, Bound, NEW r \in Rooms, Publish(r)
    PROVE  Bound'
<1>1. /\ commit[r].set /\ UNCHANGED <<begun, active>>
      /\ sim' = Pruned(r, commit[r].of.match)
      /\ commit' = [commit EXCEPT ![r] = NoneToPublish]
  BY DEF Publish, Prune, room
<1>2. commit[r].of.match = active[r]
  BY <1>1 DEF Bound, CommitsName
<1>3. /\ ~commit'[r].set /\ \A t \in Rooms \ {r} : commit'[t] = commit[t]
      /\ DOMAIN begun \subseteq Nat /\ \A m \in DOMAIN begun : begun[m] \in Rooms
  BY <1>1 DEF Typed, NoneToPublish
<1>4. \A m \in Matches : sim'[m] = "running" =>
          /\ sim[m] = "running"
          /\ m \in DOMAIN begun /\ begun[m] = r => m = active[r]
  BY <1>1, <1>2 DEF Pruned
<1>5. Owners' /\ CommitsName' /\ SimulatedBegun'
  BY <1>1, <1>3, <1>4 DEF Bound, Owners, CommitsName, SimulatedBegun
<1>6. SimulatedIsHeld'
  <2> SUFFICES ASSUME NEW m \in Matches, sim'[m] = "running"
               PROVE  Held(m) \/ (commit'[begun[m]].set /\ commit'[begun[m]].of.match # m)
    BY <1>1 DEF SimulatedIsHeld, Held
  <2>1. m \in DOMAIN begun /\ begun[m] \in Rooms /\ sim[m] = "running"
    BY <1>3, <1>4 DEF Bound, SimulatedBegun
  <2>2. CASE begun[m] = r
    BY <1>4, <2>1, <2>2 DEF Held
  <2>3. CASE begun[m] # r
    BY <1>3, <2>1, <2>3 DEF Bound, SimulatedIsHeld
  <2> QED BY <2>2, <2>3
<1> QED BY <1>5, <1>6 DEF Bound

\* A match that starts late starts only if its room holds it.
LEMMA StartStep ==
    ASSUME Typed, Bound, NEW r \in Rooms, DeliverStart(r)
    PROVE  Bound'
<1>1. UNCHANGED <<begun, active, commit>>
  BY DEF DeliverStart, room
<1> DEFINE n == lane[r][1].match
<1>2. CASE ~(StillActive(r, n) /\ loop.state # "stopped")
  BY <1>1, <1>2, Subside DEF DeliverStart
<1>3. CASE StillActive(r, n) /\ loop.state # "stopped"
  <2>1. active[r] = n /\ sim' = [sim EXCEPT ![n] = "running"]
    BY <1>3 DEF DeliverStart, StillActive
  <2> HIDE DEF n
  <2>2. \A m \in Matches : sim'[m] = "running" => sim[m] = "running" \/ m = n
    BY <2>1 DEF Typed
  <2>3. \A m \in Matches : m = n => Held(m) /\ m \in DOMAIN begun
    BY <2>1 DEF Bound, Owners, Held, Matches
  <2>4. Owners' /\ CommitsName' /\ SimulatedBegun'
    BY <1>1, <2>2, <2>3 DEF Bound, Owners, CommitsName, SimulatedBegun
  <2>5. SimulatedIsHeld'
    BY <1>1, <2>2, <2>3 DEF Bound, SimulatedIsHeld, Held
  <2> QED BY <2>4, <2>5 DEF Bound
<1> QED BY <1>2, <1>3

LEMMA BoundStep ==
    ASSUME Typed, Bound, [Next]_vars
    PROVE  Bound'
<1>1. ASSUME NEW r \in Rooms, BeginMatch(r)
      PROVE  Bound'
  <2>1. Len(begun) \in Nat /\ Len(begun) < MaxMatches /\ begun' = Append(begun, r)
    BY <1>1 DEF BeginMatch, Typed
  <2>2. Len(begun') = Len(begun) + 1
    BY <2>1 DEF Typed
  <2>3. Len(begun') \in Numbers
    BY <2>1, <2>2, ConstantAssumption DEF Numbers
  <2> QED BY <1>1, <2>1, <2>3, CommitStep DEF BeginMatch
<1>2. ASSUME NEW r \in Rooms, RequestForfeit(r)
      PROVE  Bound'
  <2>1. active[r] \in Numbers /\ active = [active EXCEPT ![r] = active[r]]
    BY DEF Typed
  <2> QED BY <1>2, <2>1, CommitStep DEF RequestForfeit
<1>3. ASSUME NEW r \in Rooms, CloseRoom(r)
      PROVE  Bound'
  <2>1. 0 \in Numbers
    BY ConstantAssumption DEF Numbers
  <2> QED BY <1>3, <2>1, CommitStep DEF CloseRoom
<1>4. ASSUME NEW r \in Rooms, DeliverForfeit(r)
      PROVE  Bound'
  BY <1>4, Subside DEF DeliverForfeit, Finish, Typed, room
<1>5. ASSUME NEW r \in Rooms, DeliverClosed(r)
      PROVE  Bound'
  BY <1>5, Subside DEF DeliverClosed, Prune, Pruned, Typed, room
<1>6. ASSUME NEW m \in Matches, Forfeit(m)
      PROVE  Bound'
  BY <1>6, Subside DEF Forfeit, Finish, Typed, room
<1>7. ASSUME NEW m \in Matches, ReplayFinalized(m) \/ DispatchDisposed(m)
      PROVE  Bound'
  BY <1>7, Subside DEF ReplayFinalized, DispatchDisposed, room
<1>8. ASSUME NEW m \in Matches, MatchFinished(m)
      PROVE  Bound'
  <2>1. CASE UNCHANGED <<begun, active, commit, sim>>
    BY <2>1, Subside
  <2>2. CASE ~UNCHANGED <<begun, active, commit, sim>>
    <3>1. /\ active[begun[m]] = m /\ UNCHANGED <<begun, sim>>
          /\ active' = [active EXCEPT ![begun[m]] = 0]
          /\ commit' = [commit EXCEPT ![begun[m]] = ToPublish(0, <<>>)]
      BY <1>8, <2>2 DEF MatchFinished
    <3>2. begun[m] \in Rooms \/ (active' = active /\ commit' = commit)
      BY <3>1 DEF Typed
    <3>3. 0 \in Numbers
      BY ConstantAssumption DEF Numbers
    <3> QED BY <2>2, <3>1, <3>2, <3>3, CommitStep
  <2> QED BY <2>1, <2>2
<1>9. ASSUME NEW m \in Matches, Retire(m)
      PROVE  Bound'
  BY <1>9, Subside DEF Retire, Typed, room
<1>10. ASSUME NEW ended, Pump(ended)
       PROVE  Bound'
  BY <1>10, Subside DEF Pump, Finish, Typed, room
<1>11. ASSUME Tick \/ LoopFails
       PROVE  Bound'
  BY <1>11, Subside DEF Tick, LoopFails, room
<1>12. ASSUME Shutdown
       PROVE  Bound'
  BY <1>12 DEF Shutdown, NoneToPublish, Bound, Owners, CommitsName, SimulatedBegun,
               SimulatedIsHeld, room
<1>13. CASE UNCHANGED vars
  BY <1>13, Subside DEF vars, room
<1> QED
  BY <1>1, <1>2, <1>3, <1>4, <1>5, <1>6, <1>7, <1>8, <1>9, <1>10, <1>11, <1>12, <1>13,
     PublishStep, StartStep DEF Next

-----------------------------------------------------------------------------
(* Types *)

LEMMA ToPublishType ==
    ASSUME NEW n \in Numbers, NEW effects \in Seq(Names)
    PROVE  ToPublish(n, effects) \in CommitType
BY DEF ToPublish, CommitType

LEMMA NoneToPublishType == NoneToPublish \in CommitType
<1>1. 0 \in Numbers
  BY ConstantAssumption DEF Numbers
<1>2. <<>> \in Seq(Names)
  OBVIOUS
<1> QED BY <1>1, <1>2 DEF NoneToPublish, NoCommit, CommitType

LEMMA FinishType ==
    ASSUME Typed, NEW ended, Finish(ended)
    PROVE  /\ sim' \in [Matches -> {"absent", "running", "finished"}]
           /\ ending' \in [Matches -> {"no", "replay", "dispatched", "recorded", "answered",
                                       "retired"}]
BY DEF Typed, Finish

LEMMA TypeStep ==
    ASSUME Typed, [Next]_vars
    PROVE  Typed'
<1> DEFINE Ends == {"no", "replay", "dispatched", "recorded", "answered", "retired"}
<1>1. 0 \in Numbers /\ <<>> \in Seq(Names) /\ <<"start">> \in Seq(Names)
      /\ <<"forfeit">> \in Seq(Names) /\ <<"closed">> \in Seq(Names)
  BY ConstantAssumption DEF Numbers, Names
<1>2. ASSUME NEW r \in Rooms, BeginMatch(r)
      PROVE  Typed'
  <2>1. begun' = Append(begun, r) /\ Len(begun) < MaxMatches /\ begun \in Seq(Rooms)
    BY <1>2 DEF BeginMatch, Typed
  <2>2. begun' \in Seq(Rooms) /\ Len(begun') \in Numbers
    BY <2>1, ConstantAssumption DEF Numbers
  <2>3. ToPublish(Len(begun'), <<"start">>) \in CommitType
    BY <1>1, <2>2, ToPublishType
  <2> QED BY <1>2, <2>2, <2>3 DEF BeginMatch, Typed
<1>3. ASSUME NEW r \in Rooms, RequestForfeit(r)
      PROVE  Typed'
  <2>1. ToPublish(active[r], <<"forfeit">>) \in CommitType
    BY <1>1, ToPublishType DEF Typed
  <2> QED BY <1>3, <2>1 DEF RequestForfeit, Typed
<1>4. ASSUME NEW r \in Rooms, CloseRoom(r)
      PROVE  Typed'
  <2>1. ToPublish(0, <<"closed">>) \in CommitType
    BY <1>1, ToPublishType
  <2> QED BY <1>1, <1>4, <2>1 DEF CloseRoom, Typed
<1>5. ASSUME NEW r \in Rooms, Publish(r)
      PROVE  Typed'
  <2>1. sim' \in [Matches -> {"absent", "running", "finished"}]
    BY <1>5 DEF Publish, Prune, Pruned, Typed
  <2>2. commit' \in [Rooms -> CommitType]
    BY <1>5, NoneToPublishType DEF Publish, Typed
  <2>3. lane' \in [Rooms -> Seq(Effects)]
    <3> DEFINE effects == commit[r].of.effects
               owes == [i \in DOMAIN effects |->
                           [type |-> effects[i], match |-> commit[r].of.match]]
    <3>1. effects \in Seq(Names) /\ commit[r].of.match \in Numbers
      BY DEF Typed, CommitType
    <3>2. \A i \in DOMAIN effects :
             [type |-> effects[i], match |-> commit[r].of.match] \in Effects
      BY <3>1 DEF Effects, Names
    <3>3. owes \in Seq(Effects)
      <4>1. Len(effects) \in Nat /\ DOMAIN effects = 1..Len(effects)
        BY <3>1
      <4>2. owes \in [1..Len(effects) -> Effects]
        BY <3>2, <4>1
      <4> HIDE DEF owes
      <4> QED BY <4>1, <4>2
    <3>4. lane' = [lane EXCEPT ![r] = @ \o owes]
      BY <1>5 DEF Publish
    <3> HIDE DEF owes
    <3>5. lane[r] \o owes \in Seq(Effects)
      BY <3>3 DEF Typed
    <3> QED BY <3>4, <3>5 DEF Typed
  <2> QED BY <1>5, <2>1, <2>2, <2>3 DEF Publish, Typed, room
<1>6. ASSUME NEW r \in Rooms, lane[r] # <<>>, Delivered(r)
      PROVE  lane' \in [Rooms -> Seq(Effects)]
  <2>1. Tail(lane[r]) \in Seq(Effects)
    BY <1>6 DEF Typed
  <2> QED BY <1>6, <2>1 DEF Delivered, Typed
<1>7. ASSUME NEW r \in Rooms, DeliverStart(r)
      PROVE  Typed'
  <2>1. lane' \in [Rooms -> Seq(Effects)]
    BY <1>6, <1>7 DEF DeliverStart, Due
  <2>2. sim' \in [Matches -> {"absent", "running", "finished"}]
    BY <1>7 DEF DeliverStart, Typed
  <2> QED BY <1>7, <2>1, <2>2 DEF DeliverStart, Typed, room
<1>8. ASSUME NEW r \in Rooms, DeliverForfeit(r)
      PROVE  Typed'
  <2>1. lane' \in [Rooms -> Seq(Effects)]
    BY <1>6, <1>8 DEF DeliverForfeit, Due
  <2>2. sim' \in [Matches -> {"absent", "running", "finished"}] /\ ending' \in [Matches -> Ends]
    BY <1>8, FinishType DEF DeliverForfeit, Typed
  <2> QED BY <1>8, <2>1, <2>2 DEF DeliverForfeit, Typed, room
<1>9. ASSUME NEW r \in Rooms, DeliverClosed(r)
      PROVE  Typed'
  <2>1. lane' \in [Rooms -> Seq(Effects)]
    BY <1>6, <1>9 DEF DeliverClosed, Due
  <2>2. sim' \in [Matches -> {"absent", "running", "finished"}]
    BY <1>9 DEF DeliverClosed, Prune, Pruned, Typed
  <2> QED BY <1>9, <2>1, <2>2 DEF DeliverClosed, Typed, room
<1>10. ASSUME NEW m \in Matches, Forfeit(m)
       PROVE  Typed'
  BY <1>10, FinishType DEF Forfeit, Typed, room
<1>11. ASSUME NEW m \in Matches, ReplayFinalized(m) \/ DispatchDisposed(m)
       PROVE  Typed'
  BY <1>11 DEF ReplayFinalized, DispatchDisposed, Typed, room
<1>12. ASSUME NEW m \in Matches, MatchFinished(m)
       PROVE  Typed'
  <2>1. ToPublish(0, <<>>) \in CommitType
    BY <1>1, ToPublishType
  <2> QED BY <1>1, <1>12, <2>1 DEF MatchFinished, Typed, room
<1>13. ASSUME NEW m \in Matches, Retire(m)
       PROVE  Typed'
  BY <1>13 DEF Retire, Typed, room
<1>14. ASSUME NEW ended, Pump(ended)
       PROVE  Typed'
  BY <1>14, FinishType DEF Pump, Typed, room
<1>15. ASSUME Tick \/ LoopFails
       PROVE  Typed'
  BY <1>15 DEF Tick, LoopFails, Typed, room
<1>16. ASSUME Shutdown
       PROVE  Typed'
  <2>1. <<>> \in Seq(Effects)
    OBVIOUS
  <2> QED BY <1>16, <2>1, NoneToPublishType DEF Shutdown, Typed, room
<1>17. CASE UNCHANGED vars
  BY <1>17 DEF vars, room, Typed
<1> QED
  BY <1>2, <1>3, <1>4, <1>5, <1>7, <1>8, <1>9, <1>10, <1>11, <1>12, <1>13, <1>14, <1>15,
     <1>16, <1>17 DEF Next

-----------------------------------------------------------------------------
(* Theorems *)

LEMMA InitIInv == Init => IInv
<1> SUFFICES ASSUME Init PROVE IInv
  OBVIOUS
<1>1. 0 \in Numbers /\ <<>> \in Seq(Rooms) /\ <<>> \in Seq(Effects)
  BY ConstantAssumption DEF Numbers
<1>2. Typed
  BY <1>1, NoneToPublishType DEF Init, Typed
<1>3. Sound(loop, owed)
  BY DEF Init, Sound, NewLoop, LoopType, Unset
<1>4. Bound
  BY DEF Init, Bound, Owners, CommitsName, SimulatedBegun, SimulatedIsHeld, NoneToPublish
<1> QED BY <1>2, <1>3, <1>4 DEF IInv

LEMMA IInvAlways == Spec => []IInv
<1>1. IInv /\ [Next]_vars => IInv'
  BY TypeStep, LoopStep, BoundStep DEF IInv
<1> QED BY InitIInv, <1>1, PTL DEF Spec

\* Every variable of the lifecycle has its type: no effect, commit or match is anything else
\* than what the rooms, the outbox and the registry make of it.
THEOREM TypeCorrect == Spec => []TypeOK
<1>1. IInv => TypeOK
  BY DEF IInv, Typed, Sound, TypeOK, CommitType, Names
<1> QED BY IInvAlways, <1>1, PTL

\* A match is simulated only while its room holds it, or while the commit by which the room
\* let it go is being published (roomEffectActions.ts startMatch, matchRegistry.ts pruneRoom).
THEOREM SimulationsAreHeld == Spec => []SimulatedIsHeld
<1>1. IInv => SimulatedIsHeld
  BY DEF IInv, Bound
<1> QED BY IInvAlways, <1>1, PTL

\* The loop simulates the time it runs once and the time of its pauses not at all, and its
\* callback comes when the next frame asks for it (fixedStepLoop.ts).
THEOREM LoopTimeIsKept == Spec => []LoopKeepsTime
<1>1. IInv => LoopKeepsTime
  BY DEF IInv, Sound, InTime, LoopKeepsTime
<1> QED BY IInvAlways, <1>1, PTL

-----------------------------------------------------------------------------
(* The reader *)

\* One more line is verified.
VerifiedStep(state, lines, n) ==
    IF n = 0 THEN Unread ELSE Verify(state[n - 1], lines[n])

\* The recursion has a solution for every prefix.
LEMMA VerifiedExists ==
    ASSUME NEW lines, NEW N \in Nat
    PROVE  \E state : state = [n \in 0..N |-> VerifiedStep(state, lines, n)]
<1> DEFINE P == {m \in Nat : \E state : state = [n \in 0..m |-> VerifiedStep(state, lines, n)]}
<1>1. 0 \in P
  <2> DEFINE g == [n \in 0..0 |-> Unread]
  <2>1. g = [n \in 0..0 |-> VerifiedStep(g, lines, n)]
    BY DEF VerifiedStep
  <2> QED BY <2>1
<1>2. ASSUME NEW m \in Nat, m \in P PROVE m + 1 \in P
  <2>1. PICK g : g = [n \in 0..m |-> VerifiedStep(g, lines, n)]
    BY <1>2
  <2> DEFINE h == [n \in 0..(m + 1) |-> IF n = m + 1 THEN VerifiedStep(g, lines, n) ELSE g[n]]
  <2>2. ASSUME NEW n \in 0..(m + 1) PROVE h[n] = VerifiedStep(h, lines, n)
    <3>1. CASE n = m + 1
      <4>1. n # 0 /\ n - 1 \in 0..(m + 1) /\ n - 1 # m + 1 /\ h[n - 1] = g[n - 1]
            /\ h[n] = VerifiedStep(g, lines, n)
        BY <3>1
      <4> QED BY <4>1 DEF VerifiedStep
    <3>2. CASE n # m + 1
      <4>1. n \in 0..m /\ g[n] = VerifiedStep(g, lines, n) /\ h[n] = g[n]
        BY <2>1, <3>2
      <4>2. n # 0 => h[n - 1] = g[n - 1]
        BY <4>1
      <4> QED BY <4>1, <4>2 DEF VerifiedStep
    <3> QED BY <3>1, <3>2
  <2> HIDE DEF h
  <2>3. h = [n \in 0..(m + 1) |-> h[n]]
    BY DEF h
  <2>4. h = [n \in 0..(m + 1) |-> VerifiedStep(h, lines, n)]
    BY <2>2, <2>3
  <2> QED BY <2>4
<1> HIDE DEF P
<1>3. \A m \in Nat : m \in P
  BY <1>1, <1>2, SetInduction
<1>4. N \in P
  BY <1>3
<1> QED BY <1>4 DEF P

\* The reader verifies one line after the other.
LEMMA VerifiedUnfolds ==
    ASSUME NEW lines, Len(lines) \in Nat
    PROVE  \E state : /\ VerifiedLines(lines) = state[Len(lines)]
                  /\ state[0] = Unread
                  /\ \A n \in Nat : n + 1 <= Len(lines) =>
                         state[n + 1] = Verify(state[n], lines[n + 1])
<1> DEFINE Solves(state) == state = [n \in 0..Len(lines) |-> VerifiedStep(state, lines, n)]
           f == CHOOSE state : Solves(state)
<1>1. \E state : Solves(state)
  BY VerifiedExists
<1>2. Solves(f)
  BY <1>1
<1>3. VerifiedLines(lines) = f[Len(lines)]
  BY DEF VerifiedLines, VerifiedStep
<1> HIDE DEF f
<1>4. \A n \in 0..Len(lines) : f[n] = VerifiedStep(f, lines, n)
  BY <1>2
<1>5. f[0] = Unread
  <2>1. 0 \in 0..Len(lines)
    OBVIOUS
  <2> QED BY <2>1, <1>4 DEF VerifiedStep
<1>6. ASSUME NEW n \in Nat, n + 1 <= Len(lines)
      PROVE  f[n + 1] = Verify(f[n], lines[n + 1])
  <2>1. n + 1 \in 0..Len(lines) /\ n + 1 # 0 /\ (n + 1) - 1 = n
    BY <1>6
  <2> QED BY <2>1, <1>4 DEF VerifiedStep
<1> QED BY <1>3, <1>5, <1>6

\* An empty file leaves the reader where it starts.
LEMMA NothingVerified == VerifiedLines(<<>>) = Unread
<1>1. Len(<<>>) = 0
  OBVIOUS
<1> QED BY <1>1, VerifiedUnfolds

\* A line at the end is verified last.
LEMMA OneMoreVerified ==
    ASSUME NEW lines, IsArray(lines), NEW x
    PROVE  VerifiedLines(Append(lines, x)) = Verify(VerifiedLines(lines), x)
<1> DEFINE more == Append(lines, x)
<1>1. /\ Len(lines) \in Nat /\ Len(more) = Len(lines) + 1 /\ more[Len(lines) + 1] = x
      /\ \A i \in 1..Len(lines) : more[i] = lines[i]
  BY ArrayGrows
<1> HIDE DEF more
<1>2. PICK f : /\ VerifiedLines(lines) = f[Len(lines)]
               /\ f[0] = Unread
               /\ \A n \in Nat : n + 1 <= Len(lines) => f[n + 1] = Verify(f[n], lines[n + 1])
  BY <1>1, VerifiedUnfolds
<1>3. PICK g : /\ VerifiedLines(more) = g[Len(more)]
               /\ g[0] = Unread
               /\ \A n \in Nat : n + 1 <= Len(more) => g[n + 1] = Verify(g[n], more[n + 1])
  BY <1>1, VerifiedUnfolds
<1> DEFINE P == {n \in Nat : n <= Len(lines) => f[n] = g[n]}
<1>4. 0 \in P
  BY <1>2, <1>3
<1>5. ASSUME NEW n \in Nat, n \in P PROVE n + 1 \in P
  <2> SUFFICES ASSUME n + 1 <= Len(lines) PROVE f[n + 1] = g[n + 1]
    OBVIOUS
  <2>1. f[n] = g[n] /\ more[n + 1] = lines[n + 1] /\ n + 1 <= Len(more)
    BY <1>1, <1>5
  <2> QED BY <1>2, <1>3, <2>1
<1> HIDE DEF P
<1>6. \A n \in Nat : n \in P
  BY <1>4, <1>5, SetInduction
<1>7. f[Len(lines)] = g[Len(lines)]
  <2>1. Len(lines) \in Nat /\ Len(lines) \in P
    BY <1>1, <1>6
  <2> QED BY <2>1 DEF P
<1>8. g[Len(lines) + 1] = Verify(g[Len(lines)], x)
  <2>1. g[Len(lines) + 1] = Verify(g[Len(lines)], more[Len(lines) + 1])
    BY <1>1, <1>3
  <2> QED BY <1>1, <2>1
<1> QED BY <1>1, <1>2, <1>3, <1>7, <1>8 DEF more

-----------------------------------------------------------------------------
(* The match *)

Action == UNION {Range(actions) : actions \in ActionLists}

InputType == [player : Players, epoch : Nat, sequence : Nat, actions : ActionLists]

QueueType == [epoch : Nat, next : Nat, scheduled : Seq(InputType)]

Reasons == {"none", "topout", "simultaneous_topout", "draw", "forfeit", "closed"}

EndType == [reason : Reasons, winner : Int]

EventType == [kind : {"frame", "thrown", "clear"}, player : Int, actions : {<<>>} \cup [Players -> Seq(Action)]]

MatchType ==
    [frame : Nat, end : EndType, history : Seq(EventType), ok : BOOLEAN,
     queue : [Players -> QueueType]]

\* The lists of actions are sequences.
LEMMA ActionListType == ActionLists \subseteq Seq(Action)
<1> SUFFICES ASSUME NEW actions \in ActionLists PROVE actions \in Seq(Action)
  OBVIOUS
<1>1. actions \in Seq({actions[i] : i \in DOMAIN actions})
  BY ReplayAssumption
<1>2. {actions[i] : i \in DOMAIN actions} \subseteq Action
  BY DEF Action, Range
<1> QED BY <1>1, <1>2

\* The actions of inputs, one list after the other.
LEMMA ActionsOfType ==
    ASSUME NEW given \in Seq(InputType)
    PROVE  /\ [i \in DOMAIN given |-> given[i].actions] \in Seq(Seq(Action))
           /\ ActionsOf(given) \in Seq(Action)
<1> DEFINE parts == [i \in DOMAIN given |-> given[i].actions]
<1>1. DOMAIN given = 1..Len(given) /\ Len(given) \in Nat
  OBVIOUS
<1>2. \A i \in 1..Len(given) : given[i].actions \in Seq(Action)
  <2>1. \A i \in 1..Len(given) : given[i] \in InputType
    OBVIOUS
  <2> QED BY <2>1, ActionListType DEF InputType
<1>3. parts \in Seq(Seq(Action))
  BY <1>1, <1>2
<1> HIDE DEF parts
<1>4. Flat(parts) \in Seq(Action)
  BY <1>3, FlatElements
<1> QED BY <1>3, <1>4 DEF ActionsOf, parts

\* A new match is a match.
LEMMA NewMatchType == NewMatch \in MatchType /\ NewMatch.end = NoEnd
<1>1. FreshQueue(0) \in QueueType
  BY DEF FreshQueue, QueueType
<1>2. NoEnd \in EndType
  BY DEF NoEnd, EndType, Reasons
<1>3. [p \in Players |-> FreshQueue(0)] \in [Players -> QueueType]
  BY <1>1
<1>4. <<>> \in Seq(EventType)
  OBVIOUS
<1> QED BY <1>2, <1>3, <1>4 DEF NewMatch, MatchType

\* What the simulations were given changes the history alone.
LEMMA SawType ==
    ASSUME NEW m \in MatchType, NEW kind \in {"frame", "thrown", "clear"}, NEW player \in Int,
           NEW actions \in {<<>>} \cup [Players -> Seq(Action)]
    PROVE  /\ Saw(m, kind, player, actions) \in MatchType
           /\ Saw(m, kind, player, actions).frame = m.frame
           /\ Saw(m, kind, player, actions).end = m.end
           /\ Saw(m, kind, player, actions).ok = m.ok
           /\ Saw(m, kind, player, actions).queue = m.queue
<1> DEFINE event == [kind |-> kind, player |-> player, actions |-> actions]
<1>1. event \in EventType
  BY DEF EventType
<1> HIDE DEF event
<1>2. Append(m.history, event) \in Seq(EventType)
  BY <1>1 DEF MatchType
<1>3. Saw(m, kind, player, actions) = [m EXCEPT !.history = Append(m.history, event)]
  BY DEF Saw, event
<1> DEFINE more == Append(m.history, event)
<1> HIDE DEF more
<1>4. Saw(m, kind, player, actions) = [m EXCEPT !.history = more] /\ more \in Seq(EventType)
  BY <1>2, <1>3 DEF more
<1> QED BY <1>4 DEF MatchType

\* What the players do in a frame, and how the match ends by it.
FrameActions(m) == [p \in Players |-> ActionsOf(m.queue[p].scheduled)]

FrameEnd(actions) ==
    LET ToppedOut(p) == \E i \in DOMAIN actions[p] : actions[p][i] = Fatal
    IN  CASE ToppedOut(1) /\ ToppedOut(2) -> [reason |-> "simultaneous_topout", winner |-> 0]
          [] ToppedOut(1) /\ ~ToppedOut(2) -> [reason |-> "topout", winner |-> 2]
          [] ToppedOut(2) /\ ~ToppedOut(1) -> [reason |-> "topout", winner |-> 1]
          [] OTHER -> NoEnd

\* The actions of a frame are two sequences.
LEMMA FrameActionsType ==
    ASSUME NEW m \in MatchType PROVE FrameActions(m) \in [Players -> Seq(Action)]
<1>1. \A p \in Players : m.queue[p].scheduled \in Seq(InputType)
  BY DEF MatchType, QueueType
<1> QED BY <1>1, ActionsOfType DEF FrameActions

\* A frame ends the match in one of the ways there are, or not at all, and never in a draw
\* that is forced.
LEMMA FrameEndType ==
    ASSUME NEW actions
    PROVE  FrameEnd(actions) \in EndType /\ FrameEnd(actions).reason # "draw"
<1> DEFINE A == \E i \in DOMAIN actions[1] : actions[1][i] = Fatal
           B == \E i \in DOMAIN actions[2] : actions[2][i] = Fatal
<1>1. FrameEnd(actions) =
         CASE A /\ B -> [reason |-> "simultaneous_topout", winner |-> 0]
           [] A /\ ~B -> [reason |-> "topout", winner |-> 2]
           [] B /\ ~A -> [reason |-> "topout", winner |-> 1]
           [] OTHER -> NoEnd
  BY DEF FrameEnd
<1> HIDE DEF A, B
<1>2. CASE A /\ B
  BY <1>1, <1>2 DEF EndType, Reasons
<1>3. CASE A /\ ~B
  BY <1>1, <1>3 DEF EndType, Reasons
<1>4. CASE B /\ ~A
  BY <1>1, <1>4 DEF EndType, Reasons
<1>5. CASE ~A /\ ~B
  BY <1>1, <1>5 DEF EndType, NoEnd, Reasons
<1> QED BY <1>2, <1>3, <1>4, <1>5

Emptied(queue) == [p \in Players |-> [queue[p] EXCEPT !.scheduled = <<>>]]

\* One more frame, field by field.
LEMMA AdvancedFields ==
    ASSUME NEW m \in MatchType, m.end = NoEnd
    PROVE  /\ Advanced(m) \in MatchType
           /\ Advanced(m) =
                [frame |-> m.frame + 1, end |-> FrameEnd(FrameActions(m)), ok |-> m.ok,
                 history |-> Saw(m, "frame", 0, FrameActions(m)).history,
                 queue |-> Emptied(m.queue)]
<1> DEFINE acts == FrameActions(m)
           played == Saw(m, "frame", 0, acts)
           end == FrameEnd(acts)
           queue == Emptied(m.queue)
<1>1. acts \in [Players -> Seq(Action)]
  BY FrameActionsType
<1>2. /\ played \in MatchType /\ played.frame = m.frame /\ played.end = m.end
      /\ played.ok = m.ok /\ played.queue = m.queue
  <2>1. "frame" \in {"frame", "thrown", "clear"} /\ 0 \in Int /\ acts \in {<<>>} \cup [Players -> Seq(Action)]
    BY <1>1
  <2> HIDE DEF acts
  <2> QED BY <2>1, SawType
<1>3. end \in EndType
  BY FrameEndType
<1>4. queue \in [Players -> QueueType]
  <2>1. \A p \in Players : m.queue[p] \in QueueType
    BY DEF MatchType
  <2>2. <<>> \in Seq(InputType)
    OBVIOUS
  <2> QED BY <2>1, <2>2 DEF Emptied, QueueType
<1>5. Advanced(m) = [played EXCEPT !.frame = played.frame + 1, !.queue = Emptied(played.queue),
                                   !.end = end]
  BY Zenon DEF Advanced, FrameActions, FrameEnd, Emptied
<1> HIDE DEF acts, played, end, queue
<1>6. Advanced(m) = [played EXCEPT !.frame = m.frame + 1, !.queue = queue, !.end = end]
  BY <1>2, <1>5 DEF queue
<1>7. m.frame + 1 \in Nat
  BY DEF MatchType
<1>8. Advanced(m) \in MatchType
  BY <1>2, <1>3, <1>4, <1>6, <1>7 DEF MatchType
<1>9. Advanced(m) = [frame |-> m.frame + 1, end |-> end, ok |-> m.ok,
                     history |-> played.history, queue |-> queue]
  BY <1>2, <1>6 DEF MatchType
<1> QED BY <1>8, <1>9 DEF acts, played, end, queue

\* A frame that throws, field by field.
LEMMA BrokenFields ==
    ASSUME NEW m \in MatchType
    PROVE  /\ Broken(m) \in MatchType
           /\ Broken(m).frame = m.frame + 1 /\ Broken(m).end = m.end /\ Broken(m).ok = m.ok
           /\ Broken(m).queue = Emptied(m.queue)
<1> DEFINE acts == FrameActions(m)
           seen == Saw(m, "thrown", 0, acts)
           queue == Emptied(m.queue)
<1>1. acts \in [Players -> Seq(Action)]
  BY FrameActionsType
<1>2. /\ seen \in MatchType /\ seen.frame = m.frame /\ seen.end = m.end
      /\ seen.ok = m.ok /\ seen.queue = m.queue
  <2>1. "thrown" \in {"frame", "thrown", "clear"} /\ 0 \in Int
        /\ acts \in {<<>>} \cup [Players -> Seq(Action)]
    BY <1>1
  <2> HIDE DEF acts
  <2> QED BY <2>1, SawType
<1>3. queue \in [Players -> QueueType]
  <2>1. \A p \in Players : m.queue[p] \in QueueType
    BY DEF MatchType
  <2>2. <<>> \in Seq(InputType)
    OBVIOUS
  <2> QED BY <2>1, <2>2 DEF Emptied, QueueType
<1>4. Broken(m) = [seen EXCEPT !.frame = seen.frame + 1, !.queue = Emptied(seen.queue)]
  BY Zenon DEF Broken, FrameActions, Emptied
<1> HIDE DEF acts, seen, queue
<1>5. Broken(m) = [seen EXCEPT !.frame = m.frame + 1, !.queue = queue]
  BY <1>2, <1>4 DEF queue
<1>6. m.frame + 1 \in Nat
  BY DEF MatchType
<1>7. /\ Broken(m) \in MatchType
      /\ Broken(m).frame = m.frame + 1 /\ Broken(m).end = seen.end /\ Broken(m).ok = seen.ok
      /\ Broken(m).queue = queue
  BY <1>2, <1>3, <1>5, <1>6 DEF MatchType
<1> QED BY <1>2, <1>7 DEF queue

\* clearHeldInput, field by field.
LEMMA ClearedFields ==
    ASSUME NEW m \in MatchType, NEW p \in Players
    PROVE  /\ Cleared(m, p) \in MatchType
           /\ Cleared(m, p).end = m.end /\ Cleared(m, p).frame = m.frame
           /\ Cleared(m, p) =
                [m EXCEPT !.history =
                    Append(m.history, [kind |-> "clear", player |-> p, actions |-> <<>>])]
<1>1. p \in Int /\ "clear" \in {"frame", "thrown", "clear"} /\ <<>> \in {<<>>} \cup [Players -> Seq(Action)]
  BY DEF Players
<1>2. Cleared(m, p) = Saw(m, "clear", p, <<>>)
  BY DEF Cleared
<1>3. /\ Saw(m, "clear", p, <<>>) \in MatchType
      /\ Saw(m, "clear", p, <<>>).frame = m.frame /\ Saw(m, "clear", p, <<>>).end = m.end
  BY <1>1, SawType
<1> QED BY <1>2, <1>3 DEF Saw

\* resetInput, field by field.
LEMMA WasResetFields ==
    ASSUME NEW m \in MatchType, NEW p \in Players
    PROVE  /\ WasReset(m, p) \in MatchType
           /\ WasReset(m, p).end = m.end /\ WasReset(m, p).frame = m.frame
           /\ WasReset(m, p) =
                [Cleared(m, p) EXCEPT !.queue[p] = FreshQueue(m.queue[p].epoch + 1)]
<1>1. /\ Cleared(m, p) \in MatchType
      /\ Cleared(m, p).end = m.end /\ Cleared(m, p).frame = m.frame
  BY ClearedFields
<1>2. FreshQueue(m.queue[p].epoch + 1) \in QueueType
  BY DEF FreshQueue, MatchType, QueueType
<1>3. WasReset(m, p) = [Cleared(m, p) EXCEPT !.queue[p] = FreshQueue(m.queue[p].epoch + 1)]
  BY DEF WasReset
<1> DEFINE cleared == Cleared(m, p)
           fresh == FreshQueue(m.queue[p].epoch + 1)
<1> HIDE DEF cleared, fresh
<1>4. cleared \in MatchType /\ cleared.end = m.end /\ cleared.frame = m.frame
      /\ fresh \in QueueType /\ WasReset(m, p) = [cleared EXCEPT !.queue[p] = fresh]
  BY <1>1, <1>2, <1>3 DEF cleared, fresh
<1>5. [cleared EXCEPT !.queue[p] = fresh] \in MatchType
  BY <1>4 DEF MatchType
<1> QED BY <1>3, <1>4, <1>5 DEF MatchType

\* forceFinish ends the match.
LEMMA ForcedType ==
    ASSUME NEW m \in MatchType, NEW loser \in Players
    PROVE  /\ Forced(m, loser, "forfeit") \in MatchType
           /\ Forced(m, loser, "forfeit").end # NoEnd
<1>1. 3 - loser \in Int /\ "forfeit" \in Reasons
  BY DEF Players, Reasons
<1>2. [reason |-> "forfeit", winner |-> 3 - loser] \in EndType
  BY <1>1 DEF EndType
<1>3. Forced(m, loser, "forfeit").end = [reason |-> "forfeit", winner |-> 3 - loser]
  BY DEF Forced, MatchType
<1> QED BY <1>2, <1>3 DEF Forced, MatchType, NoEnd

\* So does forceDraw.
LEMMA DrawnType ==
    ASSUME NEW m \in MatchType
    PROVE  /\ Drawn(m) \in MatchType
           /\ Drawn(m).end # NoEnd /\ Drawn(m).end.reason = "draw"
           /\ Drawn(m).frame = m.frame /\ Drawn(m).ok = m.ok /\ Drawn(m).queue = m.queue
<1>1. [reason |-> "draw", winner |-> 0] \in EndType
  BY DEF EndType, Reasons
<1> QED BY <1>1 DEF Drawn, MatchType, NoEnd

\* enqueue, field by field.
LEMMA EnqueuedFields ==
    ASSUME NEW m \in MatchType, NEW input \in InputType
    PROVE  /\ Enqueued(m, input) \in MatchType
           /\ Enqueued(m, input).end = m.end /\ Enqueued(m, input).frame = m.frame
           /\ Enqueued(m, input).ok = m.ok /\ Enqueued(m, input).history = m.history
           /\ \A q \in Players :
                  Enqueued(m, input).queue[q] =
                      IF q = input.player
                      THEN [epoch |-> m.queue[q].epoch, next |-> m.queue[q].next + 1,
                            scheduled |-> Append(m.queue[q].scheduled, input)]
                      ELSE m.queue[q]
<1> DEFINE p == input.player
           one == [m.queue[p] EXCEPT !.next = m.queue[p].next + 1,
                                     !.scheduled = Append(m.queue[p].scheduled, input)]
<1>1. p \in Players
  BY DEF InputType
<1>2. m.queue[p] \in QueueType
  BY <1>1 DEF MatchType
<1>3. m.queue[p].next + 1 \in Nat /\ Append(m.queue[p].scheduled, input) \in Seq(InputType)
  BY <1>2 DEF QueueType
<1>4. one \in QueueType
  BY <1>2, <1>3 DEF QueueType
<1>5. Enqueued(m, input) = [m EXCEPT !.queue[p] = one]
  BY DEF Enqueued
<1>6. one = [epoch |-> m.queue[p].epoch, next |-> m.queue[p].next + 1,
             scheduled |-> Append(m.queue[p].scheduled, input)]
  <2> DEFINE queued == m.queue[p]
             more == Append(queued.scheduled, input)
             next == queued.next + 1
  <2> HIDE DEF queued, more, next
  <2>1. queued \in QueueType /\ one = [queued EXCEPT !.next = next, !.scheduled = more]
    BY <1>2 DEF queued, more, next
  <2> HIDE DEF one
  <2>2. one = [epoch |-> queued.epoch, next |-> next, scheduled |-> more]
    BY <2>1 DEF QueueType
  <2> QED BY <2>2 DEF queued, more, next
<1> HIDE DEF one
<1>7. m.queue \in [Players -> QueueType]
  BY DEF MatchType
<1>8. Enqueued(m, input) = [m EXCEPT !.queue = [m.queue EXCEPT ![p] = one]]
  BY <1>5 DEF MatchType
<1> DEFINE queue == [m.queue EXCEPT ![p] = one]
<1>9. queue \in [Players -> QueueType]
      /\ \A q \in Players : queue[q] = IF q = p THEN one ELSE m.queue[q]
  BY <1>4, <1>7
<1> HIDE DEF queue, p
<1>10. Enqueued(m, input) = [m EXCEPT !.queue = queue]
  BY <1>8 DEF queue, p
<1>11. /\ Enqueued(m, input) \in MatchType
       /\ Enqueued(m, input).end = m.end /\ Enqueued(m, input).frame = m.frame
       /\ Enqueued(m, input).ok = m.ok /\ Enqueued(m, input).history = m.history
       /\ Enqueued(m, input).queue = queue
  BY <1>9, <1>10 DEF MatchType
<1> QED BY <1>6, <1>9, <1>11 DEF p

\* The variable match is always a match.
MatchTyped == match \in MatchType

\* Every step leaves a match a match.
LEMMA MatchStep == ASSUME MatchTyped, [ReplayNext]_replayVars PROVE MatchTyped'
<1> USE DEF MatchTyped
<1>1. CASE Advance
  <2>1. /\ match' = Drawn(Broken(match)) \/ match' = Advanced(match)
        /\ match.end = NoEnd
    BY <1>1 DEF Advance, Playing
  <2>2. match \in MatchType
    OBVIOUS
  <2>3. match.end = NoEnd => Advanced(match) \in MatchType
    BY <2>2, AdvancedFields
  <2>4. Drawn(Broken(match)) \in MatchType
    BY <2>2, BrokenFields, DrawnType
  <2> QED BY <2>1, <2>3, <2>4
<1>2. CASE ForceEnd
  <2>1. \E loser \in Players : match' = Forced(match, loser, "forfeit")
    BY <1>2 DEF ForceEnd
  <2>2. match \in MatchType
    OBVIOUS
  <2>3. \A loser \in Players : Forced(match, loser, "forfeit") \in MatchType
    BY <2>2, ForcedType
  <2> QED BY <2>1, <2>3
<1>3. CASE Abandon
  <2>1. match' = [match EXCEPT !.end.reason = "closed"] \/ match' = match
    BY <1>3 DEF Abandon
  <2> QED BY <2>1 DEF MatchType, EndType, Reasons
<1>4. CASE DiskStep
  BY <1>4 DEF DiskStep, Create, AppendRecord, Finalize, ClosePartial, Skip, Written, WriteFails,
              Synced, Closed, Renamed, LaterFails, game
<1>5. CASE Crash
  BY <1>5 DEF Crash, game
<1>6. ASSUME NEW p \in Players, EnqueueInput(p) PROVE match' \in MatchType
  <2>1. PICK actions \in ActionLists :
           match' = Enqueued(match, [player |-> p, epoch |-> match.queue[p].epoch,
                                     sequence |-> match.queue[p].next, actions |-> actions])
    BY <1>6 DEF EnqueueInput
  <2>2. match.queue[p].epoch \in Nat /\ match.queue[p].next \in Nat
    BY DEF MatchType, QueueType
  <2> DEFINE input == [player |-> p, epoch |-> match.queue[p].epoch,
                       sequence |-> match.queue[p].next, actions |-> actions]
  <2>3. input \in InputType /\ input.player = p
    BY <2>2 DEF InputType
  <2> HIDE DEF input
  <2>4. match' = Enqueued(match, input)
    BY <2>1 DEF input
  <2> QED BY <2>3, <2>4, EnqueuedFields
<1>7. ASSUME NEW p \in Players, Control(p) PROVE match' \in MatchType
  <2>1. match' = Cleared(match, p) \/ match' = WasReset(match, p)
    BY <1>7 DEF Control
  <2>2. match \in MatchType
    OBVIOUS
  <2>3. Cleared(match, p) \in MatchType
    BY <2>2, ClearedFields
  <2>4. WasReset(match, p) \in MatchType
    BY <2>2, WasResetFields
  <2> QED BY <2>1, <2>3, <2>4
<1>8. CASE UNCHANGED replayVars
  BY <1>8 DEF replayVars, game
<1> QED BY <1>1, <1>2, <1>3, <1>4, <1>5, <1>6, <1>7, <1>8 DEF ReplayNext

-----------------------------------------------------------------------------
(* The file and the chain of operations, as long as the replay is kept *)

\* x is a record with these fields, whatever they hold.
IsRecord(x, fields) == DOMAIN x = fields /\ x = [f \in fields |-> x[f]]

SessionFields == {"open", "ending", "pending", "recorder", "chain"}

ReaderFields == {"header", "frames", "end", "hasEnd", "ordinal", "previous", "stop"}

WriterFields ==
    {"failed", "handle", "ordinal", "previous", "writing", "applied", "recorded"}

DiskFields == {"name", "lines", "synced"}

Ends == {"finalize", "closePartial"}

SessionOK(s) ==
    /\ IsRecord(s, SessionFields)
    /\ s.open \in BOOLEAN /\ s.ending \in BOOLEAN
    /\ s.recorder \in {"creating", "ready", "none"}
    /\ IsArray(s.chain)
    /\ \A i \in 1..Len(s.chain) :
           /\ s.chain[i].kind \in {"create", "append"} \cup Ends
           /\ s.chain[i].kind \in Ends => i = Len(s.chain) /\ s.ending = TRUE
           /\ (s.chain[i].kind = "create") <=> (i = 1 /\ s.recorder = "creating")
    /\ s.recorder = "creating" => s.chain # <<>>
    /\ s.open = FALSE => s.ending = TRUE /\ s.chain = <<>>

\* The replay has not been given up.
Kept(s) ==
    /\ s.recorder # "none"
    /\ s.ending = TRUE => s.chain # <<>> /\ s.chain[Len(s.chain)].kind = "finalize"

\* What the operation at the head can wait for.
StageOK(s, at) ==
    /\ at \in {"idle", "writing", "syncing", "closing", "renaming"}
    /\ at # "idle" => s.chain # <<>> /\ s.recorder # "none"
    /\ at \in {"syncing", "closing", "renaming"} => s.recorder = "ready"
    /\ at = "writing" => s.chain[1].kind # "closePartial"
    /\ at = "renaming" => s.chain[1].kind = "finalize"

LogOK(l) == IsArray(l) /\ \A i \in 1..Len(l) : l[i].kind = "frame"

Base(s) == IF s.recorder = "creating" THEN 1 ELSE 0

Closing(s) == IF s.ending = TRUE THEN 1 ELSE 0

\* The frames in the file and those the chain still has to write are the log.
Follows(frames, s, l) ==
    /\ IsArray(frames) /\ Len(frames) <= Len(l)
    /\ \A i \in 1..Len(frames) : frames[i] = l[i]
    /\ \A i \in Base(s) + 1..Len(s.chain) :
           s.chain[i].kind = "append" =>
               /\ Len(frames) + i - Base(s) <= Len(l)
               /\ s.chain[i].payload = l[Len(frames) + i - Base(s)]
    /\ Len(l) = Len(frames) + (Len(s.chain) - Base(s)) - Closing(s)

\* The end is the last thing to be written, and that of the result.
EndKept(s, r, m) ==
    s.ending = TRUE => /\ r.end # NoEnd /\ m.end # NoEnd
                       /\ s.chain[Len(s.chain)].payload = EndOf(r)

\* The writer goes on where a reader would stand after the lines of the file.
Payload(s) == IF s.recorder = "creating" THEN Header ELSE s.chain[1].payload

WriterFits(S, s, at, w) ==
    IF at = "writing"
    THEN /\ w.writing = RecordOf(S.ordinal, S.previous, Payload(s))
         /\ w.ordinal = S.ordinal + 1 /\ w.previous = HashOf(S.previous, Payload(s))
    ELSE w.ordinal = S.ordinal /\ w.previous = S.previous

EndWritten(s, at) ==
    at \in {"syncing", "closing", "renaming"} /\ s.chain[1].kind = "finalize"

ReaderFits(S, s, at, r) ==
    /\ IsRecord(S, ReaderFields) /\ S.stop = "none" /\ S.ordinal \in Nat
    /\ S.header = (s.recorder # "creating")
    /\ S.ordinal = 0 <=> s.recorder = "creating"
    /\ S.hasEnd = EndWritten(s, at)
    /\ EndWritten(s, at) => S.end = EndOf(r)

InFile(s, at, l, r, m, w, d) ==
    LET S == VerifiedLines(d.lines)
    IN  /\ IsArray(d.lines)
        /\ Follows(S.frames, s, l) /\ EndKept(s, r, m)
        /\ WriterFits(S, s, at, w) /\ ReaderFits(S, s, at, r)
        /\ EndWritten(s, at) /\ at # "syncing" => d.synced = Len(d.lines)

Going(s, at, l, r, m, w, d) ==
    /\ SessionOK(s) /\ StageOK(s, at) /\ LogOK(l) 
    /\ IsRecord(w, WriterFields) /\ IsRecord(d, DiskFields)
    /\ m.end # NoEnd => s.ending = TRUE
    /\ Kept(s) => InFile(s, at, l, r, m, w, d)

\* A final file is whole, and nothing changes it any more.
Whole(l, r, d) ==
    LET read == Read(d.lines, "final")
    IN  read.stop = "complete" /\ read.frames = l /\ read.end = EndOf(r)

Published(s, at, r, m, d) ==
    /\ r.end # NoEnd /\ m.end # NoEnd
    /\ s.chain = <<>> /\ s.ending = TRUE /\ at = "idle"
    /\ IsArray(d.lines) /\ d.synced = Len(d.lines)

FileInv ==
    /\ up \in BOOLEAN
    /\ up = TRUE => Going(session, stage, log, result, match, writer, disk)
    /\ Final => /\ Whole(log, result, disk) /\ result.end # NoEnd
                /\ up = TRUE => Published(session, stage, result, match, disk)

\* What the reader knows after the record that continues the chain.
Taken(S, payload, V) ==
    /\ IsRecord(V, ReaderFields) /\ V.stop = "none"
    /\ V.ordinal = S.ordinal + 1 /\ V.previous = HashOf(S.previous, payload)
    /\ payload.kind = "header" =>
           V.header = TRUE /\ V.frames = S.frames /\ V.hasEnd = FALSE
    /\ payload.kind = "frame" =>
           V.header = S.header /\ V.frames = Append(S.frames, payload) /\ V.hasEnd = FALSE
    /\ payload.kind = "end" =>
           /\ V.header = S.header /\ V.frames = S.frames /\ V.hasEnd = TRUE
           /\ V.end = payload

\* The reader stands before a record that it accepts.
Expected(S, payload) ==
    /\ IsRecord(S, ReaderFields) /\ S.stop = "none" /\ S.hasEnd = FALSE /\ S.ordinal \in Nat
    /\ payload.kind \in {"header", "frame", "end"}
    /\ S.ordinal = 0 <=> payload.kind = "header"

\* Verify of the record that continues the chain.
LEMMA VerifyNext ==
    ASSUME NEW S, NEW payload, Expected(S, payload)
    PROVE  Taken(S, payload, Verify(S, RecordOf(S.ordinal, S.previous, payload)))
<1> DEFINE V == Verify(S, RecordOf(S.ordinal, S.previous, payload))
           line == RecordOf(S.ordinal, S.previous, payload)
           hash == HashOf(S.previous, payload)
           taken == [S EXCEPT !.ordinal = S.ordinal + 1, !.previous = hash]
<1>1. line.ordinal = S.ordinal /\ line.previous = S.previous /\ line.payload = payload
      /\ line.hash = hash
  BY DEF RecordOf
<1> HIDE DEF line, hash
<1>2. Failure(S, line) = "none"
  BY <1>1 DEF Expected, Failure, hash
<1>3. /\ IsRecord(taken, ReaderFields) /\ taken.stop = "none" /\ taken.hasEnd = FALSE
      /\ taken.ordinal = S.ordinal + 1 /\ taken.previous = hash
      /\ taken.header = S.header /\ taken.frames = S.frames
  BY DEF Expected, IsRecord, ReaderFields
<1>4. V = CASE payload.kind = "header" -> [taken EXCEPT !.header = TRUE]
            [] payload.kind = "frame" -> [taken EXCEPT !.frames = Append(@, payload)]
            [] OTHER -> [taken EXCEPT !.end = payload, !.hasEnd = TRUE]
  BY <1>1, <1>2 DEF Expected, Verify, line
<1> SUFFICES Taken(S, payload, V)
  OBVIOUS
<1> HIDE DEF taken, V
<1>5. CASE payload.kind = "header"
  <2>1. V = [taken EXCEPT !.header = TRUE]
    BY <1>4, <1>5
  <2> QED BY <1>3, <1>5, <2>1 DEF Taken, IsRecord, ReaderFields, hash
<1>6. CASE payload.kind = "frame"
  <2>1. V = [taken EXCEPT !.frames = Append(taken.frames, payload)]
    BY <1>4, <1>6
  <2> QED BY <1>3, <1>6, <2>1 DEF Taken, IsRecord, ReaderFields, hash
<1>7. CASE payload.kind = "end"
  <2>1. V = [taken EXCEPT !.end = payload, !.hasEnd = TRUE]
    BY <1>4, <1>7
  <2> QED BY <1>3, <1>7, <2>1 DEF Taken, IsRecord, ReaderFields, hash
<1> QED BY <1>5, <1>6, <1>7 DEF Expected

-----------------------------------------------------------------------------
(* The calls of the match *)

\* The chain of s is one operation longer in t.
Grown(s, t, x) == t.recorder = s.recorder /\ t.chain = Append(s.chain, x)

\* Completing a session that is ending changes nothing.
LEMMA CompletedBefore ==
    ASSUME NEW s, s.ending = TRUE, NEW kind, NEW payload
    PROVE  Completing(s, kind, payload) = s
  BY DEF Completing

\* Otherwise the operation becomes the last one of the chain.
LEMMA CompletingFields ==
    ASSUME NEW s, SessionOK(s), s.ending = FALSE, NEW kind \in Ends, NEW payload,
           NEW t, t = Completing(s, kind, payload)
    PROVE  SessionOK(t) /\ t.ending = TRUE /\ Grown(s, t, Operation(kind, payload))
<1> DEFINE op == Operation(kind, payload)
           longer == Append(s.chain, op)
<1>1. s.open = TRUE
  BY DEF SessionOK
<1>2. t = [s EXCEPT !.ending = TRUE, !.chain = longer]
  BY <1>1 DEF Completing
<1>3. /\ IsArray(longer) /\ longer # <<>> /\ Len(longer) = Len(s.chain) + 1
      /\ Len(s.chain) \in Nat
      /\ \A i \in 1..Len(s.chain) : longer[i] = s.chain[i]
      /\ longer[Len(s.chain) + 1] = op
  <2>1. IsArray(s.chain)
    BY DEF SessionOK
  <2> QED BY <2>1, ArrayGrows
<1>4. op.kind = kind
  BY DEF Operation
<1> HIDE DEF longer, op
<1>5. /\ t.ending = TRUE /\ t.recorder = s.recorder /\ t.chain = longer /\ t.open = TRUE
      /\ IsRecord(t, SessionFields)
  BY <1>1, <1>2 DEF SessionOK, IsRecord, SessionFields
<1>6. ASSUME NEW i \in 1..Len(longer)
      PROVE  /\ longer[i].kind \in {"create", "append"} \cup Ends
             /\ longer[i].kind \in Ends => i = Len(longer)
             /\ (longer[i].kind = "create") <=> (i = 1 /\ s.recorder = "creating")
  <2>1. CASE i \in 1..Len(s.chain)
    <3>1. longer[i] = s.chain[i]
      BY <1>3, <2>1
    <3>2. /\ s.chain[i].kind \in {"create", "append"} \cup Ends
          /\ s.chain[i].kind \notin Ends
          /\ (s.chain[i].kind = "create") <=> (i = 1 /\ s.recorder = "creating")
      BY <2>1 DEF SessionOK
    <3> QED BY <3>1, <3>2
  <2>2. CASE i \notin 1..Len(s.chain)
    <3>1. i = Len(s.chain) + 1
      BY <1>3, <2>2
    <3>2. longer[i] = op /\ kind # "create"
      BY <1>3, <3>1 DEF Ends
    <3>3. i = 1 => s.recorder # "creating"
      <4>1. i = 1 => Len(s.chain) = 0
        BY <1>3, <3>1
      <4>2. Len(s.chain) = 0 => s.chain = <<>>
        BY ArrayLength DEF SessionOK
      <4> QED BY <4>1, <4>2 DEF SessionOK
    <3> QED BY <1>3, <1>4, <3>1, <3>2, <3>3
  <2> QED BY <2>1, <2>2
<1>7. s.recorder \in {"creating", "ready", "none"}
  BY DEF SessionOK
<1>8. SessionOK(t)
  BY <1>3, <1>5, <1>6, <1>7 DEF SessionOK
<1> QED BY <1>5, <1>8 DEF Grown, longer, op

\* What waits at the head stays there while the chain grows.
LEMMA GrownStage ==
    ASSUME NEW s, NEW t, NEW at, StageOK(s, at), SessionOK(s), NEW x, Grown(s, t, x)
    PROVE  /\ StageOK(t, at)
           /\ at # "idle" => (t.chain[1] = s.chain[1] /\ Len(s.chain) >= 1)
           /\ EndWritten(t, at) = EndWritten(s, at)
           /\ s.chain # <<>> => Payload(t) = Payload(s)
<1>1. IsArray(s.chain)
  BY DEF SessionOK
<1>2. /\ t.chain # <<>> /\ Len(s.chain) \in Nat
      /\ \A i \in 1..Len(s.chain) : t.chain[i] = s.chain[i]
  BY <1>1, ArrayGrows DEF Grown
<1>3. s.chain # <<>> => Len(s.chain) >= 1 /\ t.chain[1] = s.chain[1]
  <2>1. s.chain # <<>> => Len(s.chain) # 0
    BY <1>1, ArrayLength
  <2> QED BY <1>2, <2>1
<1> QED BY <1>2, <1>3 DEF Grown, StageOK, EndWritten, Payload

\* The end of the match, if nothing was given up, goes to the end of the chain.
LEMMA CompletingKeeps ==
    ASSUME NEW s, NEW at, NEW l, NEW r, NEW m, NEW w, NEW d, Going(s, at, l, r, m, w, d),
           NEW r2, NEW m2, m.end = NoEnd, r2.end # NoEnd, m2.end # NoEnd,
           NEW t, t = Completing(s, "finalize", EndOf(r2))
    PROVE  Going(t, at, l, r2, m2, w, d)
<1> DEFINE op == Operation("finalize", EndOf(r2))
<1>1. SessionOK(s) /\ "finalize" \in Ends
  BY DEF Going, Ends
<1>2. ASSUME s.ending = FALSE
      PROVE  SessionOK(t) /\ t.ending = TRUE /\ Grown(s, t, op)
  BY <1>1, <1>2, CompletingFields
<1>3. op.kind = "finalize" /\ op.payload = EndOf(r2)
  BY DEF Operation
<1> HIDE DEF op
<1>4. CASE s.ending = TRUE
  <2>1. ~Kept(s)
    <3> SUFFICES ASSUME Kept(s) PROVE FALSE
      OBVIOUS
    <3>1. EndKept(s, r, m)
      BY DEF Going, InFile
    <3> QED BY <1>4, <3>1 DEF EndKept
  <2>2. t = s
    BY <1>4, CompletedBefore
  <2> QED BY <1>4, <2>1, <2>2 DEF Going
<1>5. CASE s.ending = FALSE
  <2>1. StageOK(s, at) /\ LogOK(l) /\ IsRecord(w, WriterFields) /\ IsRecord(d, DiskFields)
    BY DEF Going
  <2>2. /\ t.chain = Append(s.chain, op) /\ IsArray(s.chain)
        /\ t.recorder = s.recorder /\ Grown(s, t, op) /\ SessionOK(t) /\ t.ending = TRUE
    BY <1>1, <1>2, <1>5 DEF SessionOK, Grown
  <2>3. /\ StageOK(t, at)
        /\ at # "idle" => (t.chain[1] = s.chain[1] /\ Len(s.chain) >= 1)
        /\ EndWritten(t, at) = EndWritten(s, at)
        /\ s.chain # <<>> => Payload(t) = Payload(s)
    BY <1>1, <2>1, <2>2, GrownStage
  <2>4. /\ Len(t.chain) = Len(s.chain) + 1 /\ Len(s.chain) \in Nat /\ t.chain # <<>>
        /\ \A i \in 1..Len(s.chain) : t.chain[i] = s.chain[i]
        /\ t.chain[Len(s.chain) + 1] = op
    BY <2>2, ArrayGrows
  <2>5. ~EndWritten(s, at)
    <3> SUFFICES ASSUME EndWritten(s, at) PROVE FALSE
      OBVIOUS
    <3>1. s.chain[1].kind \in Ends /\ 1 \in 1..Len(s.chain)
      BY <2>3, <2>4 DEF EndWritten, Ends
    <3> QED BY <1>1, <1>5, <3>1 DEF SessionOK
  <2>6. ASSUME Kept(t) PROVE InFile(t, at, l, r2, m2, w, d)
    <3>1. Kept(s)
      BY <1>5, <2>2, <2>6 DEF Kept
    <3> DEFINE S == VerifiedLines(d.lines)
    <3>2. /\ IsArray(d.lines) /\ Follows(S.frames, s, l) /\ EndKept(s, r, m)
          /\ WriterFits(S, s, at, w) /\ ReaderFits(S, s, at, r)
      BY <3>1 DEF Going, InFile
    <3> HIDE DEF S
    <3>3. Base(t) = Base(s) /\ Base(s) \in {0, 1} /\ Closing(s) = 0 /\ Closing(t) = 1
      BY <1>5, <2>2 DEF Base, Closing
    <3>4. Follows(S.frames, t, l)
      <4>1. ASSUME NEW i \in Base(t) + 1..Len(t.chain), t.chain[i].kind = "append"
            PROVE  /\ Len(S.frames) + i - Base(t) <= Len(l)
                   /\ t.chain[i].payload = l[Len(S.frames) + i - Base(t)]
        <5>1. i \in Base(s) + 1..Len(s.chain)
          <6>1. i # Len(s.chain) + 1
            BY <1>3, <2>4, <4>1
          <6> QED BY <2>4, <3>3, <6>1
        <5>2. t.chain[i] = s.chain[i]
          BY <2>4, <3>3, <5>1
        <5> QED BY <3>2, <3>3, <4>1, <5>1, <5>2 DEF Follows
      <4>2. Len(l) = Len(S.frames) + (Len(t.chain) - Base(t)) - Closing(t)
        <5>1. Len(l) = Len(S.frames) + (Len(s.chain) - Base(s)) - Closing(s)
          BY <3>2 DEF Follows
        <5>2. Len(S.frames) \in Nat
          BY <3>2, ArrayLength DEF Follows
        <5> QED BY <2>4, <3>3, <5>1, <5>2
      <4> QED BY <3>2, <4>1, <4>2 DEF Follows
    <3>5. EndKept(t, r2, m2)
      BY <1>3, <2>4 DEF EndKept
    <3>6. WriterFits(S, t, at, w)
      <4>1. at = "writing" => s.chain # <<>>
        BY <2>1 DEF StageOK
      <4> QED BY <2>3, <3>2, <4>1 DEF WriterFits
    <3>7. ReaderFits(S, t, at, r2)
      <4>1. EndWritten(t, at) = FALSE /\ EndWritten(s, at) = FALSE
        BY <2>3, <2>5 DEF EndWritten
      <4> QED BY <2>2, <3>2, <4>1 DEF ReaderFits
    <3>8. ~EndWritten(t, at)
      BY <2>3, <2>5
    <3> QED BY <3>2, <3>4, <3>5, <3>6, <3>7, <3>8 DEF InFile, S
  <2> QED BY <2>1, <2>2, <2>3, <2>6 DEF Going
<1>6. s.ending \in BOOLEAN
  BY <1>1 DEF SessionOK
<1> QED BY <1>4, <1>5, <1>6

\* Closing the partial file gives the replay up, unless the end of the match came first.
LEMMA CompletingGivesUp ==
    ASSUME NEW s, NEW at, NEW l, NEW r, NEW m, NEW w, NEW d, Going(s, at, l, r, m, w, d),
           NEW m2, m.end # NoEnd => m2 = m,
           NEW t, t = Completing(s, "closePartial", Header)
    PROVE  /\ Going(t, at, l, r, m2, w, d)
           /\ s.ending = FALSE => ~Kept(t)
<1> DEFINE op == Operation("closePartial", Header)
<1>1. SessionOK(s) /\ "closePartial" \in Ends
  BY DEF Going, Ends
<1>2. ASSUME s.ending = FALSE
      PROVE  SessionOK(t) /\ t.ending = TRUE /\ Grown(s, t, op)
  BY <1>1, <1>2, CompletingFields
<1>3. op.kind = "closePartial"
  BY DEF Operation
<1> HIDE DEF op
<1>4. CASE s.ending = TRUE
  <2>1. Kept(s) => m2 = m
    <3> SUFFICES ASSUME Kept(s) PROVE m2 = m
      OBVIOUS
    <3>1. EndKept(s, r, m)
      BY DEF Going, InFile
    <3> QED BY <1>4, <3>1 DEF EndKept
  <2>2. t = s
    BY <1>4, CompletedBefore
  <2> QED BY <1>4, <2>1, <2>2 DEF Going
<1>5. CASE s.ending = FALSE
  <2>1. StageOK(s, at)
    BY DEF Going
  <2>2. /\ t.chain = Append(s.chain, op) /\ IsArray(s.chain)
        /\ t.recorder = s.recorder /\ Grown(s, t, op) /\ SessionOK(t) /\ t.ending = TRUE
    BY <1>1, <1>2, <1>5 DEF SessionOK, Grown
  <2>3. StageOK(t, at)
    BY <1>1, <2>1, <2>2, GrownStage
  <2>4. Len(t.chain) = Len(s.chain) + 1 /\ t.chain[Len(s.chain) + 1] = op
    BY <2>2, ArrayGrows
  <2>5. ~Kept(t)
    BY <1>3, <2>2, <2>4 DEF Kept
  <2> QED BY <2>2, <2>3, <2>5 DEF Going
<1>6. s.ending \in BOOLEAN
  BY <1>1 DEF SessionOK
<1> QED BY <1>4, <1>5, <1>6

\* A record that is not one too many becomes the last operation of the chain.
LEMMA AppendingFields ==
    ASSUME NEW s, SessionOK(s), s.ending = FALSE, ~Overfull(s), NEW payload,
           NEW t, t = Appending(s, payload)
    PROVE  SessionOK(t) /\ t.ending = FALSE /\ Grown(s, t, Operation("append", payload))
<1> DEFINE op == Operation("append", payload)
           longer == Append(s.chain, op)
           more == s.pending + 1
<1>1. s.open = TRUE
  BY DEF SessionOK
<1>2. t = [s EXCEPT !.pending = more, !.chain = longer]
  BY <1>1 DEF Appending
<1>3. /\ IsArray(longer) /\ longer # <<>> /\ Len(longer) = Len(s.chain) + 1
      /\ Len(s.chain) \in Nat
      /\ \A i \in 1..Len(s.chain) : longer[i] = s.chain[i]
      /\ longer[Len(s.chain) + 1] = op
  <2>1. IsArray(s.chain)
    BY DEF SessionOK
  <2> QED BY <2>1, ArrayGrows
<1>4. op.kind = "append"
  BY DEF Operation
<1> HIDE DEF longer, op, more
<1>5. /\ t.ending = FALSE /\ t.recorder = s.recorder /\ t.chain = longer /\ t.open = TRUE
      /\ IsRecord(t, SessionFields)
  BY <1>1, <1>2 DEF SessionOK, IsRecord, SessionFields
<1>6. ASSUME NEW i \in 1..Len(longer)
      PROVE  /\ longer[i].kind \in {"create", "append"} \cup Ends
             /\ longer[i].kind \notin Ends
             /\ (longer[i].kind = "create") <=> (i = 1 /\ s.recorder = "creating")
  <2>1. CASE i \in 1..Len(s.chain)
    <3>1. longer[i] = s.chain[i]
      BY <1>3, <2>1
    <3>2. /\ s.chain[i].kind \in {"create", "append"} \cup Ends
          /\ s.chain[i].kind \notin Ends
          /\ (s.chain[i].kind = "create") <=> (i = 1 /\ s.recorder = "creating")
      BY <2>1 DEF SessionOK
    <3> QED BY <3>1, <3>2
  <2>2. CASE i \notin 1..Len(s.chain)
    <3>1. i = Len(s.chain) + 1
      BY <1>3, <2>2
    <3>2. longer[i] = op
      BY <1>3, <3>1
    <3>3. i = 1 => s.recorder # "creating"
      <4>1. i = 1 => Len(s.chain) = 0
        BY <1>3, <3>1
      <4>2. Len(s.chain) = 0 => s.chain = <<>>
        BY ArrayLength DEF SessionOK
      <4> QED BY <4>1, <4>2 DEF SessionOK
    <3> QED BY <1>4, <3>2, <3>3 DEF Ends
  <2> QED BY <2>1, <2>2
<1>7. s.recorder \in {"creating", "ready", "none"}
  BY DEF SessionOK
<1>8. SessionOK(t)
  BY <1>3, <1>5, <1>6, <1>7 DEF SessionOK
<1> QED BY <1>5, <1>8 DEF Grown, longer, op, more

\* The record goes to the end of the chain, and to the end of the log.
LEMMA AppendingKeeps ==
    ASSUME NEW s, NEW at, NEW l, NEW r, NEW m, NEW w, NEW d, Going(s, at, l, r, m, w, d),
           m.end = NoEnd, NEW payload, payload.kind = "frame",
           NEW t, t = Appending(s, payload), NEW l2, l2 = Append(l, payload)
    PROVE  Going(t, at, l2, r, m, w, d)
<1> DEFINE op == Operation("append", payload)
<1>1. SessionOK(s) /\ StageOK(s, at) /\ LogOK(l)
  BY DEF Going
<1>2. /\ IsArray(l2) /\ Len(l2) = Len(l) + 1 /\ Len(l) \in Nat
      /\ \A i \in 1..Len(l) : l2[i] = l[i]
      /\ l2[Len(l) + 1] = payload
  <2>1. IsArray(l)
    BY <1>1 DEF LogOK
  <2> QED BY <2>1, ArrayGrows
<1>3. LogOK(l2)
  <2>1. ASSUME NEW i \in 1..Len(l2) PROVE l2[i].kind = "frame"
    <3>1. CASE i \in 1..Len(l)
      BY <1>1, <1>2, <3>1 DEF LogOK
    <3>2. CASE i \notin 1..Len(l)
      <4>1. i = Len(l) + 1
        BY <1>2, <3>2
      <4> QED BY <1>2, <4>1
    <3> QED BY <3>1, <3>2
  <2> QED BY <1>2, <2>1 DEF LogOK
<1>4. op.kind = "append" /\ op.payload = payload
  BY DEF Operation
<1> HIDE DEF op
<1>5. CASE s.ending = TRUE
  <2>1. ~Kept(s)
    <3> SUFFICES ASSUME Kept(s) PROVE FALSE
      OBVIOUS
    <3>1. EndKept(s, r, m)
      BY DEF Going, InFile
    <3> QED BY <1>5, <3>1 DEF EndKept
  <2>2. t = s
    BY <1>5 DEF Appending
  <2> QED BY <1>3, <2>1, <2>2 DEF Going
<1>6. CASE s.ending = FALSE /\ Overfull(s)
  <2>1. t = Completing(s, "closePartial", Header)
    BY <1>6 DEF Appending, Overfull
  <2>2. Going(t, at, l, r, m, w, d) /\ ~Kept(t)
    BY <1>6, <2>1, CompletingGivesUp
  <2> QED BY <1>3, <2>2 DEF Going
<1>7. CASE s.ending = FALSE /\ ~Overfull(s)
  <2>1. SessionOK(t) /\ t.ending = FALSE /\ Grown(s, t, op)
    BY <1>1, <1>7, AppendingFields DEF op
  <2>2. /\ t.chain = Append(s.chain, op) /\ IsArray(s.chain) /\ t.recorder = s.recorder
    BY <1>1, <2>1 DEF SessionOK, Grown
  <2>3. /\ StageOK(t, at)
        /\ at # "idle" => (t.chain[1] = s.chain[1] /\ Len(s.chain) >= 1)
        /\ EndWritten(t, at) = EndWritten(s, at)
        /\ s.chain # <<>> => Payload(t) = Payload(s)
    BY <1>1, <2>1, GrownStage
  <2>4. /\ Len(t.chain) = Len(s.chain) + 1 /\ Len(s.chain) \in Nat /\ t.chain # <<>>
        /\ \A i \in 1..Len(s.chain) : t.chain[i] = s.chain[i]
        /\ t.chain[Len(s.chain) + 1] = op
    BY <2>2, ArrayGrows
  <2>5. ASSUME Kept(t) PROVE InFile(t, at, l2, r, m, w, d)
    <3>1. Kept(s)
      BY <1>7, <2>2, <2>5 DEF Kept
    <3> DEFINE S == VerifiedLines(d.lines)
    <3>2. /\ IsArray(d.lines) /\ Follows(S.frames, s, l) /\ EndKept(s, r, m)
          /\ WriterFits(S, s, at, w) /\ ReaderFits(S, s, at, r)
          /\ EndWritten(s, at) /\ at # "syncing" => d.synced = Len(d.lines)
      BY <3>1 DEF Going, InFile
    <3> HIDE DEF S
    <3>3. Base(t) = Base(s) /\ Base(s) \in {0, 1} /\ Closing(s) = 0 /\ Closing(t) = 0
      BY <1>7, <2>1, <2>2 DEF Base, Closing
    <3>4. Follows(S.frames, t, l2)
      <4>1. /\ Len(S.frames) \in Nat /\ IsArray(S.frames) /\ Len(S.frames) <= Len(l)
            /\ \A i \in 1..Len(S.frames) : S.frames[i] = l[i]
        BY <3>2, ArrayLength DEF Follows
      <4>2. Len(l) = Len(S.frames) + (Len(s.chain) - Base(s))
        BY <2>4, <3>2, <3>3, <4>1 DEF Follows
      <4>3. ASSUME NEW i \in Base(t) + 1..Len(t.chain), t.chain[i].kind = "append"
            PROVE  /\ Len(S.frames) + i - Base(t) <= Len(l2)
                   /\ t.chain[i].payload = l2[Len(S.frames) + i - Base(t)]
        <5>1. CASE i = Len(s.chain) + 1
          <6> DEFINE n == Len(S.frames)
                     c == Len(s.chain)
                     b == Base(s)
          <6> HIDE DEF n, c, b
          <6>2. /\ n \in Nat /\ c \in Nat /\ b \in Nat /\ Len(l) = n + (c - b)
                /\ Base(t) = b /\ i = c + 1
            BY <2>4, <3>3, <4>1, <4>2, <5>1 DEF n, c, b
          <6>3. n + (c + 1) - b = Len(l) + 1
            BY <6>2
          <6>1. Len(S.frames) + i - Base(t) = Len(l) + 1
            BY <6>2, <6>3 DEF n
          <6> QED BY <1>2, <1>4, <2>4, <5>1, <6>1
        <5>2. CASE i # Len(s.chain) + 1
          <6>1. i \in Base(s) + 1..Len(s.chain) /\ i \in 1..Len(s.chain)
            BY <2>4, <3>3, <5>2
          <6>2. t.chain[i] = s.chain[i]
            BY <2>4, <6>1
          <6>3. /\ Len(S.frames) + i - Base(s) <= Len(l)
                /\ s.chain[i].payload = l[Len(S.frames) + i - Base(s)]
            BY <3>2, <4>3, <6>1, <6>2 DEF Follows
          <6>4. Len(S.frames) + i - Base(s) \in 1..Len(l)
            BY <1>2, <3>3, <4>1, <6>1, <6>3
          <6> QED BY <1>2, <3>3, <6>2, <6>3, <6>4
        <5> QED BY <5>1, <5>2
      <4>4. Len(l2) = Len(S.frames) + (Len(t.chain) - Base(t)) - Closing(t)
        <5> DEFINE n == Len(S.frames)
                   c == Len(s.chain)
                   b == Base(s)
        <5> HIDE DEF n, c, b
        <5>1. /\ n \in Nat /\ c \in Nat /\ b \in Nat /\ Len(l) = n + (c - b)
              /\ Len(l2) = Len(l) + 1 /\ Base(t) = b /\ Len(t.chain) = c + 1
              /\ Closing(t) = 0
          BY <1>2, <2>4, <3>3, <4>1, <4>2 DEF n, c, b
        <5>2. Len(l2) = n + ((c + 1) - b) - 0
          BY <5>1
        <5> QED BY <5>1, <5>2 DEF n
      <4>5. /\ Len(S.frames) <= Len(l2)
            /\ \A i \in 1..Len(S.frames) : S.frames[i] = l2[i]
        <5>1. \A i \in 1..Len(S.frames) : i \in 1..Len(l)
          BY <1>2, <4>1
        <5> QED BY <1>2, <4>1, <5>1
      <4> QED BY <4>1, <4>3, <4>4, <4>5 DEF Follows
    <3>5. EndKept(t, r, m)
      BY <2>1 DEF EndKept
    <3>6. WriterFits(S, t, at, w)
      <4>1. at = "writing" => s.chain # <<>>
        BY <1>1 DEF StageOK
      <4> QED BY <2>3, <3>2, <4>1 DEF WriterFits
    <3>7. ReaderFits(S, t, at, r)
      BY <2>2, <2>3, <3>2 DEF ReaderFits
    <3>8. EndWritten(t, at) /\ at # "syncing" => d.synced = Len(d.lines)
      BY <2>3, <3>2
    <3> QED BY <3>2, <3>4, <3>5, <3>6, <3>7, <3>8 DEF InFile, S
  <2>6. m.end # NoEnd => t.ending = TRUE
    OBVIOUS
  <2> QED BY <1>3, <2>1, <2>3, <2>5, <2>6 DEF Going
<1>8. s.ending \in BOOLEAN
  BY <1>1 DEF SessionOK
<1> QED BY <1>5, <1>6, <1>7, <1>8

\* Of the match only whether it has ended counts.
LEMMA SameEnd ==
    ASSUME NEW s, NEW at, NEW l, NEW r, NEW m, NEW w, NEW d, Going(s, at, l, r, m, w, d),
           NEW m2, m2.end = NoEnd <=> m.end = NoEnd
    PROVE  Going(s, at, l, r, m2, w, d)
  BY DEF Going, InFile, EndKept

-----------------------------------------------------------------------------
(* The operations of the disk *)

\* What the invariant says while the process runs.
GoingOn == Going(session, stage, log, result, match, writer, disk)

GoingOn1 == Going(session', stage', log', result', match', writer', disk')

\* The first operation leaves the chain.
LEMMA DoneFields ==
    ASSUME SessionOK(session), session.chain # <<>>, NEW rec \in {"ready", "none"}, Done(rec)
    PROVE  /\ SessionOK(session') /\ session'.ending = session.ending
           /\ session'.recorder = rec /\ session'.chain = Tail(session.chain)
           /\ stage' = "idle" /\ StageOK(session', stage')
<1> DEFINE shorter == Tail(session.chain)
           opens == session.chain[1].kind \in {"create", "append"}
           left == IF opens THEN session.pending - 1 ELSE session.pending
<1>1. /\ IsArray(shorter) /\ Len(shorter) = Len(session.chain) - 1
      /\ Len(session.chain) \in Nat /\ Len(session.chain) >= 1
      /\ \A i \in 1..Len(session.chain) - 1 : shorter[i] = session.chain[i + 1]
      /\ Head(session.chain) = session.chain[1]
  <2>1. IsArray(session.chain)
    BY DEF SessionOK
  <2> QED BY <2>1, ArrayTail
<1>2. session' = [session EXCEPT !.chain = shorter, !.recorder = rec, !.pending = left,
                                 !.open = opens]
  BY <1>1 DEF Done, Head1
<1>3. opens \in BOOLEAN
  OBVIOUS
<1>4. opens = FALSE => session.ending = TRUE /\ Len(session.chain) = 1
  <2>1. 1 \in 1..Len(session.chain)
    BY <1>1
  <2>2. opens = FALSE => session.chain[1].kind \in Ends
    BY <2>1 DEF SessionOK
  <2> QED BY <2>1, <2>2 DEF SessionOK
<1>5. Len(session.chain) = 1 => shorter = <<>>
  <2>1. Len(session.chain) = 1 => Len(shorter) = 0
    BY <1>1
  <2>2. Len(shorter) = 0 => shorter = <<>>
    BY <1>1, ArrayLength
  <2> QED BY <2>1, <2>2
<1> HIDE DEF shorter, opens, left
<1>6. /\ IsRecord(session', SessionFields) /\ session'.ending = session.ending
      /\ session'.recorder = rec /\ session'.chain = shorter /\ session'.open = opens
  BY <1>2 DEF SessionOK, IsRecord, SessionFields
<1>7. ASSUME NEW i \in 1..Len(shorter)
      PROVE  /\ shorter[i].kind \in {"create", "append"} \cup Ends
             /\ shorter[i].kind \in Ends => i = Len(shorter) /\ session.ending = TRUE
             /\ shorter[i].kind # "create"
  <2>1. i + 1 \in 1..Len(session.chain) /\ shorter[i] = session.chain[i + 1] /\ i + 1 # 1
        /\ (i + 1 = Len(session.chain) => i = Len(shorter))
    BY <1>1
  <2>2. /\ session.chain[i + 1].kind \in {"create", "append"} \cup Ends
        /\ session.chain[i + 1].kind \in Ends =>
               i + 1 = Len(session.chain) /\ session.ending = TRUE
        /\ session.chain[i + 1].kind # "create"
    BY <2>1 DEF SessionOK
  <2> QED BY <2>1, <2>2
<1>8. SessionOK(session')
  <2>1. session.ending \in BOOLEAN
    BY DEF SessionOK
  <2> QED BY <1>1, <1>3, <1>4, <1>5, <1>6, <1>7, <2>1 DEF SessionOK
<1>9. stage' = "idle"
  BY DEF Done
<1> QED BY <1>6, <1>8, <1>9 DEF StageOK, shorter

\* Without a recorder nothing is promised of the file.
LEMMA GivenUp ==
    ASSUME GoingOn, session.chain # <<>>, Done("none"), UNCHANGED game,
           IsRecord(writer', WriterFields), IsRecord(disk', DiskFields)
    PROVE  GoingOn1
<1>1. SessionOK(session) /\ LogOK(log) /\ (match.end # NoEnd => session.ending = TRUE)
  BY DEF GoingOn, Going
<1>2. /\ SessionOK(session') /\ session'.ending = session.ending
      /\ session'.recorder = "none" /\ StageOK(session', stage')
  BY <1>1, DoneFields
<1>3. ~Kept(session')
  BY <1>2 DEF Kept
<1> QED BY <1>1, <1>2, <1>3 DEF GoingOn1, Going, game

\* The head of the chain and what it says of the rest.
LEMMA HeadOf ==
    ASSUME NEW s, SessionOK(s), s.chain # <<>>
    PROVE  /\ Head(s.chain) = s.chain[1] /\ IsArray(s.chain)
           /\ Len(s.chain) \in Nat /\ Len(s.chain) >= 1
           /\ s.chain[1].kind \in {"create", "append"} \cup Ends
           /\ (s.chain[1].kind = "create") <=> (s.recorder = "creating")
           /\ s.chain[1].kind \in Ends => Len(s.chain) = 1 /\ s.ending = TRUE
<1>1. IsArray(s.chain)
  BY DEF SessionOK
<1>2. /\ Head(s.chain) = s.chain[1] /\ Len(s.chain) \in Nat /\ Len(s.chain) >= 1
  BY <1>1, ArrayTail
<1>3. 1 \in 1..Len(s.chain)
  BY <1>2
<1>4. /\ s.chain[1].kind \in {"create", "append"} \cup Ends
      /\ (s.chain[1].kind = "create") <=> (s.recorder = "creating")
      /\ s.chain[1].kind \in Ends => Len(s.chain) = 1 /\ s.ending = TRUE
  BY <1>3 DEF SessionOK
<1> QED BY <1>1, <1>2, <1>4

\* The writer takes the next record up.
LEMMA Enqueues ==
    ASSUME NEW w, IsRecord(w, WriterFields), NEW payload, NEW v, v = Enqueue(w, payload)
    PROVE  /\ IsRecord(v, WriterFields)
           /\ v.writing = RecordOf(w.ordinal, w.previous, payload)
           /\ v.ordinal = w.ordinal + 1 /\ v.previous = HashOf(w.previous, payload)
  BY DEF Enqueue, IsRecord, WriterFields

\* A record that is taken up continues the file.
LEMMA TakenUp ==
    ASSUME GoingOn, stage = "idle", session.chain # <<>>, session.recorder # "none",
           session.chain[1].kind # "closePartial", stage' = "writing",
           UNCHANGED <<session, game>>, disk'.lines = disk.lines,
           IsRecord(disk', DiskFields), IsRecord(writer', WriterFields),
           writer'.writing = RecordOf(writer.ordinal, writer.previous, Payload(session)),
           writer'.ordinal = writer.ordinal + 1,
           writer'.previous = HashOf(writer.previous, Payload(session))
    PROVE  GoingOn1
<1>1. StageOK(session, stage')
  BY DEF GoingOn, Going, StageOK
<1>2. ASSUME Kept(session)
      PROVE  InFile(session, stage', log, result, match, writer', disk')
  <2> DEFINE S == VerifiedLines(disk.lines)
  <2>1. /\ IsArray(disk.lines) /\ Follows(S.frames, session, log) /\ EndKept(session, result, match)
        /\ WriterFits(S, session, stage, writer) /\ ReaderFits(S, session, stage, result)
    BY <1>2 DEF GoingOn, Going, InFile
  <2>2. VerifiedLines(disk'.lines) = S
    OBVIOUS
  <2> HIDE DEF S
  <2>3. EndWritten(session, stage) = FALSE /\ EndWritten(session, stage') = FALSE
    BY DEF EndWritten
  <2>4. WriterFits(S, session, stage', writer')
    BY <2>1 DEF WriterFits
  <2>5. ReaderFits(S, session, stage', result)
    BY <2>1, <2>3 DEF ReaderFits
  <2> QED BY <2>1, <2>2, <2>3, <2>4, <2>5 DEF InFile
<1> QED BY <1>1, <1>2 DEF GoingOn, GoingOn1, Going, game

\* Where the operation at the head waits, before and after the last line is in the file.
LEMMA GoesOn ==
    ASSUME GoingOn, UNCHANGED <<session, game>>, StageOK(session, stage'),
           stage # "writing", stage' # "writing",
           Kept(session) => EndWritten(session, stage') = EndWritten(session, stage),
           IsRecord(disk', DiskFields), IsRecord(writer', WriterFields),
           disk'.lines = disk.lines,
           \/ stage # "syncing" /\ disk'.synced = disk.synced
           \/ disk'.synced = Len(disk.lines)
           \/ ~Kept(session) \/ ~EndWritten(session, stage'),
           writer'.ordinal = writer.ordinal, writer'.previous = writer.previous
    PROVE  GoingOn1
<1>1. ASSUME Kept(session)
      PROVE  InFile(session, stage', log, result, match, writer', disk')
  <2> DEFINE S == VerifiedLines(disk.lines)
  <2>1. /\ IsArray(disk.lines) /\ Follows(S.frames, session, log) /\ EndKept(session, result, match)
        /\ WriterFits(S, session, stage, writer) /\ ReaderFits(S, session, stage, result)
        /\ EndWritten(session, stage) /\ stage # "syncing" => disk.synced = Len(disk.lines)
    BY <1>1 DEF GoingOn, Going, InFile
  <2>2. VerifiedLines(disk'.lines) = S
    OBVIOUS
  <2> HIDE DEF S
  <2>3. EndWritten(session, stage') = EndWritten(session, stage)
    BY <1>1
  <2>4. WriterFits(S, session, stage', writer')
    BY <2>1 DEF WriterFits
  <2>5. ReaderFits(S, session, stage', result)
    BY <2>1, <2>3 DEF ReaderFits
  <2>6. EndWritten(session, stage') /\ stage' # "syncing" => disk'.synced = Len(disk'.lines)
    BY <1>1, <2>1, <2>3
  <2> QED BY <2>1, <2>2, <2>4, <2>5, <2>6 DEF InFile
<1> QED BY <1>1 DEF GoingOn, GoingOn1, Going, game

\* The chain that is one operation shorter follows a file that has one more frame, or the
\* header.
LEMMA FollowsOn ==
    ASSUME NEW s, SessionOK(s), s.chain # <<>>, s.recorder # "none",
           s.chain[1].kind \notin Ends, NEW l, NEW frames, Follows(frames, s, l),
           NEW t, SessionOK(t), t.recorder = "ready", t.ending = s.ending,
           t.chain = Tail(s.chain), NEW more, IsArray(more),
           s.recorder = "creating" => more = frames,
           s.recorder # "creating" => more = Append(frames, s.chain[1].payload)
    PROVE  Follows(more, t, l)
<1>1. /\ IsArray(s.chain) /\ Len(s.chain) \in Nat /\ Len(s.chain) >= 1
      /\ (s.chain[1].kind = "create") <=> (s.recorder = "creating")
      /\ s.chain[1].kind \in {"create", "append"}
  BY HeadOf
<1>2. /\ IsArray(t.chain) /\ Len(t.chain) = Len(s.chain) - 1
      /\ \A i \in 1..Len(s.chain) - 1 : t.chain[i] = s.chain[i + 1]
  BY <1>1, ArrayTail
<1>3. /\ IsArray(frames) /\ Len(frames) <= Len(l) /\ Len(frames) \in Nat
      /\ \A i \in 1..Len(frames) : frames[i] = l[i]
      /\ Len(l) = Len(frames) + (Len(s.chain) - Base(s)) - Closing(s)
      /\ \A i \in Base(s) + 1..Len(s.chain) :
             s.chain[i].kind = "append" =>
                 /\ Len(frames) + i - Base(s) <= Len(l)
                 /\ s.chain[i].payload = l[Len(frames) + i - Base(s)]
  BY ArrayLength DEF Follows
<1>4. Base(t) = 0 /\ Closing(t) = Closing(s) /\ Closing(s) \in Nat
  BY DEF Base, Closing
<1>5. CASE s.recorder = "creating"
  <2>1. Base(s) = 1 /\ more = frames
    BY <1>5 DEF Base
  <2>2. ASSUME NEW i \in 1..Len(t.chain), t.chain[i].kind = "append"
        PROVE  /\ Len(more) + i - 0 <= Len(l)
               /\ t.chain[i].payload = l[Len(more) + i - 0]
    <3>1. i + 1 \in 2..Len(s.chain) /\ t.chain[i] = s.chain[i + 1]
      BY <1>1, <1>2
    <3>2. /\ Len(frames) + (i + 1) - 1 <= Len(l)
          /\ s.chain[i + 1].payload = l[Len(frames) + (i + 1) - 1]
      BY <1>3, <2>1, <2>2, <3>1
    <3>3. Len(frames) + (i + 1) - 1 = Len(frames) + i - 0
      BY <1>3
    <3> QED BY <2>1, <3>1, <3>2, <3>3
  <2>3. Len(l) = Len(more) + (Len(t.chain) - 0) - Closing(t)
    <3>1. Len(l) = Len(frames) + (Len(s.chain) - 1) - Closing(s)
      BY <1>3, <2>1
    <3>2. Len(l) = Len(frames) + ((Len(s.chain) - 1) - 0) - Closing(s)
      BY <1>1, <3>1
    <3> QED BY <1>2, <1>4, <2>1, <3>2
  <2> QED BY <1>3, <1>4, <2>1, <2>2, <2>3 DEF Follows
<1>6. CASE s.recorder # "creating"
  <2>1. /\ Base(s) = 0 /\ more = Append(frames, s.chain[1].payload)
        /\ s.chain[1].kind = "append"
    BY <1>1, <1>6 DEF Base
  <2>2. /\ Len(more) = Len(frames) + 1 /\ more[Len(frames) + 1] = s.chain[1].payload
        /\ \A i \in 1..Len(frames) : more[i] = frames[i]
    BY <1>3, <2>1, ArrayGrows
  <2>3. /\ Len(frames) + 1 - 0 <= Len(l)
        /\ s.chain[1].payload = l[Len(frames) + 1 - 0]
    <3>1. 1 \in 0 + 1..Len(s.chain)
      BY <1>1
    <3> QED BY <1>3, <2>1, <3>1
  <2>4. /\ Len(more) <= Len(l)
        /\ \A i \in 1..Len(more) : more[i] = l[i]
    <3>1. Len(frames) + 1 - 0 = Len(frames) + 1
      BY <1>3
    <3>2. ASSUME NEW i \in 1..Len(more) PROVE more[i] = l[i]
      <4>1. CASE i = Len(frames) + 1
        BY <2>2, <2>3, <3>1, <4>1
      <4>2. CASE i # Len(frames) + 1
        <5>1. i \in 1..Len(frames)
          BY <1>3, <2>2, <4>2
        <5> QED BY <1>3, <2>2, <5>1
      <4> QED BY <4>1, <4>2
    <3> QED BY <2>2, <2>3, <3>1, <3>2
  <2>5. ASSUME NEW i \in 1..Len(t.chain), t.chain[i].kind = "append"
        PROVE  /\ Len(more) + i - 0 <= Len(l)
               /\ t.chain[i].payload = l[Len(more) + i - 0]
    <3>1. i + 1 \in 0 + 1..Len(s.chain) /\ t.chain[i] = s.chain[i + 1]
      BY <1>1, <1>2
    <3>2. /\ Len(frames) + (i + 1) - 0 <= Len(l)
          /\ s.chain[i + 1].payload = l[Len(frames) + (i + 1) - 0]
      BY <1>3, <2>1, <2>5, <3>1
    <3>3. Len(frames) + (i + 1) - 0 = Len(more) + i - 0
      BY <1>3, <2>2
    <3> QED BY <3>1, <3>2, <3>3
  <2>6. Len(l) = Len(more) + (Len(t.chain) - 0) - Closing(t)
    <3>1. Len(l) = Len(frames) + (Len(s.chain) - 0) - Closing(s)
      BY <1>3, <2>1
    <3>2. Len(l) = (Len(frames) + 1) + ((Len(s.chain) - 1) - 0) - Closing(s)
      BY <1>1, <1>3, <1>4, <3>1
    <3> QED BY <1>2, <1>4, <2>2, <3>2
  <2> QED BY <1>4, <2>4, <2>5, <2>6 DEF Follows
<1> QED BY <1>5, <1>6

\* A record is in the file: a reader goes on to the next one.
LEMMA WrittenKeeps ==
    ASSUME GoingOn, Written, up \in BOOLEAN
    PROVE  GoingOn1 /\ disk'.name = disk.name
<1> DEFINE S == VerifiedLines(disk.lines)
           V == VerifiedLines(disk'.lines)
           payload == Payload(session)
           longer == Append(disk.lines, writer.writing)
<1>1. /\ SessionOK(session) /\ StageOK(session, stage) /\ LogOK(log)
      /\ IsRecord(writer, WriterFields) /\ IsRecord(disk, DiskFields)
      /\ (match.end # NoEnd => session.ending = TRUE)
  BY DEF GoingOn, Going
<1>2. /\ stage = "writing" /\ disk' = [disk EXCEPT !.lines = longer]
      /\ UNCHANGED game /\ UNCHANGED writer
      /\ IF Head1.kind = "finalize" THEN stage' = "syncing" /\ UNCHANGED session
         ELSE Done("ready")
  BY DEF Written, At
<1>3. /\ session.chain # <<>> /\ session.recorder # "none"
      /\ session.chain[1].kind # "closePartial"
  BY <1>1, <1>2 DEF StageOK
<1>4. /\ Head1 = session.chain[1] /\ IsArray(session.chain)
      /\ Len(session.chain) \in Nat /\ Len(session.chain) >= 1
      /\ session.chain[1].kind \in {"create", "append", "finalize"}
      /\ (session.chain[1].kind = "create") <=> (session.recorder = "creating")
      /\ session.chain[1].kind \in Ends => Len(session.chain) = 1 /\ session.ending = TRUE
  BY <1>1, <1>3, HeadOf DEF Head1, Ends
<1> HIDE DEF longer
<1>5. /\ IsRecord(disk', DiskFields) /\ disk'.lines = longer /\ disk'.name = disk.name
  BY <1>1, <1>2 DEF IsRecord, DiskFields
<1>6. ASSUME Kept(session)
      PROVE  /\ IsArray(disk.lines) /\ IsArray(longer) /\ Follows(S.frames, session, log)
             /\ EndKept(session, result, match)
             /\ IsRecord(S, ReaderFields) /\ S.stop = "none" /\ S.ordinal \in Nat
             /\ S.header = (session.recorder # "creating")
             /\ S.ordinal = 0 <=> session.recorder = "creating"
             /\ S.hasEnd = FALSE
             /\ V = Verify(S, RecordOf(S.ordinal, S.previous, payload))
             /\ writer.ordinal = S.ordinal + 1 /\ writer.previous = HashOf(S.previous, payload)
  <2>1. InFile(session, stage, log, result, match, writer, disk)
    BY <1>6 DEF GoingOn, Going
  <2>2. /\ IsArray(disk.lines) /\ Follows(S.frames, session, log)
        /\ EndKept(session, result, match)
        /\ WriterFits(S, session, stage, writer) /\ ReaderFits(S, session, stage, result)
    BY <2>1 DEF InFile
  <2>3. EndWritten(session, stage) = FALSE
    BY <1>2 DEF EndWritten
  <2>4. /\ writer.writing = RecordOf(S.ordinal, S.previous, payload)
        /\ writer.ordinal = S.ordinal + 1 /\ writer.previous = HashOf(S.previous, payload)
    BY <1>2, <2>2 DEF WriterFits
  <2>5. /\ IsRecord(S, ReaderFields) /\ S.stop = "none" /\ S.ordinal \in Nat
        /\ S.header = (session.recorder # "creating")
        /\ S.ordinal = 0 <=> session.recorder = "creating"
        /\ S.hasEnd = FALSE
    BY <2>2, <2>3 DEF ReaderFits
  <2>6. V = Verify(S, writer.writing) /\ IsArray(longer)
    BY <1>5, <2>2, OneMoreVerified, ArrayGrows DEF longer
  <2> QED BY <2>2, <2>4, <2>5, <2>6
<1> HIDE DEF S, V, payload
<1>7. ASSUME Kept(session), payload.kind \in {"header", "frame", "end"},
             payload.kind = "header" <=> session.recorder = "creating"
      PROVE  /\ IsRecord(V, ReaderFields) /\ V.stop = "none"
             /\ V.ordinal = writer.ordinal /\ V.previous = writer.previous
             /\ V.ordinal \in Nat /\ V.ordinal # 0
             /\ payload.kind = "header" =>
                    V.header = TRUE /\ V.frames = S.frames /\ V.hasEnd = FALSE
             /\ payload.kind = "frame" =>
                    /\ V.header = S.header /\ V.hasEnd = FALSE
                    /\ V.frames = Append(S.frames, payload)
             /\ payload.kind = "end" =>
                    V.header = S.header /\ V.frames = S.frames /\ V.hasEnd = TRUE
                    /\ V.end = payload
  <2>1. Taken(S, payload, V)
    <3>1. /\ IsRecord(S, ReaderFields) /\ S.stop = "none" /\ S.ordinal \in Nat
          /\ S.hasEnd = FALSE /\ V = Verify(S, RecordOf(S.ordinal, S.previous, payload))
      BY <1>6, <1>7
    <3>2. S.ordinal = 0 <=> payload.kind = "header"
      BY <1>6, <1>7
    <3>3. Expected(S, payload)
      BY <1>7, <3>1, <3>2 DEF Expected
    <3> QED BY <3>1, <3>3, VerifyNext
  <2> QED BY <1>6, <1>7, <2>1 DEF Taken
<1>8. CASE session.chain[1].kind = "finalize"
  <2>1. stage' = "syncing" /\ UNCHANGED session /\ session.recorder = "ready"
        /\ StageOK(session, stage')
    <3>1. session.recorder \in {"creating", "ready", "none"}
      BY <1>1 DEF SessionOK
    <3> QED BY <1>2, <1>3, <1>4, <1>8, <3>1 DEF StageOK
  <2>2. ASSUME Kept(session)
        PROVE  InFile(session, stage', log, result, match, writer, disk')
    <3>1. Len(session.chain) = 1 /\ session.ending = TRUE
      BY <1>4, <1>8 DEF Ends
    <3>2. payload = EndOf(result) /\ payload.kind = "end"
      <4>1. session.chain[1].payload = EndOf(result)
        BY <1>6, <2>2, <3>1 DEF EndKept
      <4>2. payload = session.chain[1].payload
        BY <2>1 DEF payload, Payload
      <4>3. EndOf(result).kind = "end"
        BY DEF EndOf
      <4> QED BY <4>1, <4>2, <4>3
    <3>3. /\ IsRecord(V, ReaderFields) /\ V.stop = "none"
          /\ V.ordinal = writer.ordinal /\ V.previous = writer.previous
          /\ V.ordinal \in Nat /\ V.ordinal # 0
          /\ V.header = S.header /\ V.frames = S.frames /\ V.hasEnd = TRUE
          /\ V.end = EndOf(result)
      BY <1>7, <2>1, <2>2, <3>2
    <3>4. EndWritten(session, stage') = TRUE
      BY <1>8, <2>1 DEF EndWritten
    <3>5. Follows(V.frames, session, log) /\ EndKept(session, result, match)
      BY <1>6, <2>2, <3>3
    <3>6. WriterFits(V, session, stage', writer)
      BY <2>1, <3>3 DEF WriterFits
    <3>7. ReaderFits(V, session, stage', result)
      <4>1. S.header = TRUE
        BY <1>6, <2>1, <2>2
      <4> QED BY <2>1, <3>3, <3>4, <4>1 DEF ReaderFits
    <3>8. IsArray(disk'.lines)
      BY <1>5, <1>6, <2>2
    <3> QED BY <2>1, <3>5, <3>6, <3>7, <3>8 DEF InFile, V
  <2> QED BY <1>1, <1>2, <1>5, <2>1, <2>2 DEF GoingOn1, Going, game
<1>9. CASE session.chain[1].kind # "finalize"
  <2>1. Done("ready") /\ session.chain[1].kind \notin Ends
    BY <1>2, <1>3, <1>4, <1>9 DEF Ends
  <2>2. /\ SessionOK(session') /\ session'.ending = session.ending
        /\ session'.recorder = "ready" /\ session'.chain = Tail(session.chain)
        /\ stage' = "idle" /\ StageOK(session', stage')
    BY <1>1, <1>3, <2>1, DoneFields
  <2>3. /\ IsArray(session'.chain) /\ Len(session'.chain) = Len(session.chain) - 1
        /\ \A i \in 1..Len(session.chain) - 1 : session'.chain[i] = session.chain[i + 1]
    BY <1>3, <1>4, <2>2, ArrayTail
  <2>4. ASSUME session'.chain # <<>>
        PROVE  session'.chain[Len(session'.chain)] = session.chain[Len(session.chain)]
    <3>1. Len(session'.chain) # 0 /\ Len(session'.chain) \in Nat
      BY <2>3, <2>4, ArrayLength
    <3>2. /\ Len(session'.chain) \in 1..Len(session.chain) - 1
          /\ Len(session'.chain) + 1 = Len(session.chain)
      <4> DEFINE n == Len(session.chain)
                 k == Len(session'.chain)
      <4> HIDE DEF n, k
      <4>1. n \in Nat /\ k \in Nat /\ k # 0 /\ k = n - 1
        BY <1>4, <2>3, <3>1 DEF n, k
      <4>2. k \in 1..n - 1 /\ k + 1 = n
        BY <4>1
      <4> QED BY <4>2 DEF n, k
    <3> QED BY <2>3, <3>2
  <2>5. ASSUME Kept(session')
        PROVE  InFile(session', stage', log, result, match, writer, disk')
    <3>1. Kept(session)
      BY <1>3, <2>2, <2>4, <2>5 DEF Kept
    <3>2. /\ payload.kind \in {"header", "frame", "end"}
          /\ payload.kind = "header" <=> session.recorder = "creating"
          /\ session.recorder # "creating" => /\ payload.kind = "frame"
                                              /\ payload = session.chain[1].payload
      <4>1. CASE session.recorder = "creating"
        BY <4>1 DEF payload, Payload, Header
      <4>2. CASE session.recorder # "creating"
        <5>1. session.chain[1].kind = "append" /\ Base(session) = 0
          BY <1>4, <1>9, <4>2 DEF Base
        <5>2. payload = session.chain[1].payload
          BY <4>2 DEF payload, Payload
        <5>3. IsArray(S.frames) /\ Len(S.frames) \in Nat
          BY <1>6, <3>1, ArrayLength DEF Follows
        <5>4. /\ Len(S.frames) + 1 - 0 <= Len(log)
              /\ session.chain[1].payload = log[Len(S.frames) + 1 - 0]
          <6>1. 1 \in 0 + 1..Len(session.chain)
            BY <1>4
          <6> QED BY <1>6, <3>1, <5>1, <6>1 DEF Follows
        <5>5. Len(S.frames) + 1 - 0 \in 1..Len(log)
          <6>1. Len(log) \in Nat
            BY <1>1, ArrayLength DEF LogOK
          <6> QED BY <5>3, <5>4, <6>1
        <5>6. payload.kind = "frame"
          BY <1>1, <5>2, <5>4, <5>5 DEF LogOK
        <5> QED BY <4>2, <5>2, <5>6
      <4> QED BY <4>1, <4>2
    <3>3. /\ IsRecord(V, ReaderFields) /\ V.stop = "none"
          /\ V.ordinal = writer.ordinal /\ V.previous = writer.previous
          /\ V.ordinal \in Nat /\ V.ordinal # 0
          /\ payload.kind = "header" =>
                 V.header = TRUE /\ V.frames = S.frames /\ V.hasEnd = FALSE
          /\ payload.kind = "frame" =>
                 /\ V.header = S.header /\ V.hasEnd = FALSE
                 /\ V.frames = Append(S.frames, payload)
      BY <1>7, <3>1, <3>2
    <3>4. /\ session.recorder = "creating" => V.frames = S.frames
          /\ session.recorder # "creating" =>
                 V.frames = Append(S.frames, session.chain[1].payload)
      BY <3>2, <3>3
    <3>5. Follows(S.frames, session, log) /\ IsArray(S.frames)
      BY <1>6, <3>1 DEF Follows
    <3>6. IsArray(V.frames)
      <4>1. IsArray(Append(S.frames, session.chain[1].payload))
        BY <3>5, ArrayGrows
      <4> QED BY <3>4, <3>5, <4>1
    <3>7. Follows(V.frames, session', log)
      BY <1>1, <1>3, <2>1, <2>2, <3>4, <3>5, <3>6, FollowsOn
    <3>8. EndKept(session', result, match)
      <4>1. EndKept(session, result, match)
        BY <1>6, <3>1
      <4>2. session'.ending = TRUE => session'.chain # <<>>
        BY <2>5 DEF Kept
      <4> QED BY <2>2, <2>4, <4>1, <4>2 DEF EndKept
    <3>9. WriterFits(V, session', stage', writer)
      BY <2>2, <3>3 DEF WriterFits
    <3>10. ReaderFits(V, session', stage', result)
      <4>1. EndWritten(session', stage') = FALSE
        BY <2>2 DEF EndWritten
      <4>2. V.hasEnd = FALSE
        BY <3>2, <3>3
      <4>3. V.header = TRUE
        BY <1>6, <3>1, <3>2, <3>3
      <4> QED BY <2>2, <3>3, <4>1, <4>2, <4>3 DEF ReaderFits
    <3>11. IsArray(disk'.lines) /\ EndWritten(session', stage') = FALSE
      BY <1>5, <1>6, <2>2, <3>1 DEF EndWritten
    <3> QED BY <3>7, <3>8, <3>9, <3>10, <3>11 DEF InFile, V
  <2> QED BY <1>1, <1>2, <1>5, <2>2, <2>5 DEF GoingOn1, Going, game
<1> QED BY <1>5, <1>8, <1>9

\* What every operation of the disk keeps: the file, unless it is renamed, keeps its name.
LEMMA CreateKeeps ==
    ASSUME GoingOn, disk.name # "final", Create
    PROVE  GoingOn1 /\ disk'.name # "final"
<1>1. /\ SessionOK(session) /\ IsRecord(writer, WriterFields) /\ IsRecord(disk, DiskFields)
  BY DEF GoingOn, Going
<1>2. /\ session.chain # <<>> /\ Head1.kind = "create" /\ stage = "idle" /\ UNCHANGED game
  BY DEF Create, Busy
<1>3. session.chain[1].kind = "create" /\ session.recorder = "creating"
  BY <1>1, <1>2, HeadOf DEF Head1
<1>4. CASE /\ stage' = "writing" /\ disk' = [disk EXCEPT !.name = "partial"]
           /\ writer' = Enqueue([writer EXCEPT !.handle = "open"], Header)
           /\ UNCHANGED session
  <2> DEFINE w == [writer EXCEPT !.handle = "open"]
  <2>1. /\ IsRecord(w, WriterFields) /\ w.ordinal = writer.ordinal
        /\ w.previous = writer.previous
    BY <1>1 DEF IsRecord, WriterFields
  <2>2. writer' = Enqueue(w, Header)
    BY <1>4
  <2> HIDE DEF w
  <2>3. /\ IsRecord(writer', WriterFields)
        /\ writer'.writing = RecordOf(w.ordinal, w.previous, Header)
        /\ writer'.ordinal = w.ordinal + 1
        /\ writer'.previous = HashOf(w.previous, Header)
    BY <2>1, <2>2, Enqueues
  <2>4. IsRecord(disk', DiskFields) /\ disk'.lines = disk.lines /\ disk'.name = "partial"
    BY <1>1, <1>4 DEF IsRecord, DiskFields
  <2>5. Payload(session) = Header
    BY <1>3 DEF Payload
  <2>6. /\ writer'.writing = RecordOf(writer.ordinal, writer.previous, Payload(session))
        /\ writer'.ordinal = writer.ordinal + 1
        /\ writer'.previous = HashOf(writer.previous, Payload(session))
    BY <2>1, <2>3, <2>5
  <2>7. UNCHANGED <<session, game>>
    BY <1>2, <1>4
  <2>8. session.recorder # "none" /\ session.chain[1].kind # "closePartial"
    BY <1>3
  <2> QED BY <1>2, <1>4, <2>3, <2>4, <2>6, <2>7, <2>8, TakenUp
<1>5. CASE Done("none") /\ UNCHANGED <<writer, disk>>
  BY <1>1, <1>2, <1>5, GivenUp
<1> QED BY <1>4, <1>5 DEF Create

\* A record is handed to the writer.
LEMMA AppendRecordKeeps ==
    ASSUME GoingOn, disk.name # "final", AppendRecord
    PROVE  GoingOn1 /\ disk'.name # "final"
<1>1. /\ SessionOK(session) /\ IsRecord(writer, WriterFields) /\ IsRecord(disk, DiskFields)
      /\ StageOK(session, stage)
  BY DEF GoingOn, Going
<1>2. /\ session.chain # <<>> /\ Head1.kind = "append" /\ stage = "idle"
      /\ session.recorder = "ready" /\ UNCHANGED <<game, session, disk>>
  BY DEF AppendRecord, Busy
<1>3. /\ session.chain[1].kind = "append" /\ Head1 = session.chain[1]
      /\ UNCHANGED <<session, game>>
  BY <1>1, <1>2, HeadOf DEF Head1
<1>4. CASE /\ stage' = "writing"
           /\ writer' = [Enqueue(writer, Head1.payload) EXCEPT
                  !.recorded = Head1.payload.frame,
                  !.applied = IF Head1.payload.type = "appliedInputs"
                              THEN Head1.payload.frame ELSE @]
  <2> DEFINE v == Enqueue(writer, Head1.payload)
  <2>1. /\ IsRecord(v, WriterFields)
        /\ v.writing = RecordOf(writer.ordinal, writer.previous, Head1.payload)
        /\ v.ordinal = writer.ordinal + 1
        /\ v.previous = HashOf(writer.previous, Head1.payload)
    BY <1>1, Enqueues
  <2> DEFINE f == Head1.payload.frame
             a == IF Head1.payload.type = "appliedInputs" THEN f ELSE v.applied
  <2>2. writer' = [v EXCEPT !.recorded = f, !.applied = a]
    BY <1>4
  <2> HIDE DEF v, f, a
  <2>3. /\ IsRecord(writer', WriterFields) /\ writer'.writing = v.writing
        /\ writer'.ordinal = v.ordinal /\ writer'.previous = v.previous
    BY <2>1, <2>2 DEF IsRecord, WriterFields
  <2>4. Payload(session) = Head1.payload
    BY <1>2, <1>3 DEF Payload
  <2>5. session.recorder # "none" /\ session.chain[1].kind # "closePartial"
    BY <1>2, <1>3
  <2>6. /\ writer'.writing = RecordOf(writer.ordinal, writer.previous, Payload(session))
        /\ writer'.ordinal = writer.ordinal + 1
        /\ writer'.previous = HashOf(writer.previous, Payload(session))
    BY <2>1, <2>3, <2>4
  <2>7. IsRecord(disk', DiskFields) /\ disk'.lines = disk.lines
    BY <1>1, <1>2
  <2> QED BY <1>2, <1>3, <1>4, <2>3, <2>5, <2>6, <2>7, TakenUp
<1>5. CASE stage' = "syncing" /\ UNCHANGED writer
  <2>1. StageOK(session, stage') /\ stage # "writing" /\ stage' # "writing"
    BY <1>1, <1>2, <1>5 DEF StageOK
  <2>2. EndWritten(session, stage') = FALSE /\ EndWritten(session, stage) = FALSE
    BY <1>3 DEF EndWritten
  <2>3. /\ IsRecord(disk', DiskFields) /\ IsRecord(writer', WriterFields)
        /\ disk'.lines = disk.lines /\ disk'.synced = disk.synced
        /\ writer'.ordinal = writer.ordinal /\ writer'.previous = writer.previous
        /\ stage # "syncing"
    BY <1>1, <1>2, <1>5
  <2> QED BY <1>2, <1>3, <2>1, <2>2, <2>3, GoesOn
<1> QED BY <1>2, <1>4, <1>5 DEF AppendRecord

\* The end is handed to the writer.
LEMMA FinalizeKeeps ==
    ASSUME GoingOn, disk.name # "final", Finalize
    PROVE  GoingOn1 /\ disk'.name # "final"
<1>1. /\ SessionOK(session) /\ IsRecord(writer, WriterFields) /\ IsRecord(disk, DiskFields)
      /\ StageOK(session, stage) /\ LogOK(log) /\ (match.end # NoEnd => session.ending = TRUE)
  BY DEF GoingOn, Going
<1>2. /\ session.chain # <<>> /\ Head1.kind = "finalize" /\ stage = "idle"
      /\ session.recorder = "ready" /\ UNCHANGED <<game, disk>>
  BY DEF Finalize, Busy
<1>3. /\ session.chain[1].kind = "finalize" /\ Head1 = session.chain[1]
      /\ Len(session.chain) = 1 /\ session.ending = TRUE /\ IsArray(session.chain)
  BY <1>1, <1>2, HeadOf DEF Head1, Ends
<1>4. CASE /\ stage' = "writing" /\ writer' = Enqueue(writer, Head1.payload)
           /\ UNCHANGED session
  <2>1. /\ IsRecord(writer', WriterFields)
        /\ writer'.writing = RecordOf(writer.ordinal, writer.previous, Head1.payload)
        /\ writer'.ordinal = writer.ordinal + 1
        /\ writer'.previous = HashOf(writer.previous, Head1.payload)
    BY <1>1, <1>4, Enqueues
  <2>2. Payload(session) = Head1.payload
    BY <1>2, <1>3 DEF Payload
  <2>3. session.recorder # "none" /\ session.chain[1].kind # "closePartial"
    BY <1>2, <1>3
  <2>4. /\ writer'.writing = RecordOf(writer.ordinal, writer.previous, Payload(session))
        /\ writer'.ordinal = writer.ordinal + 1
        /\ writer'.previous = HashOf(writer.previous, Payload(session))
    BY <2>1, <2>2
  <2>5. IsRecord(disk', DiskFields) /\ disk'.lines = disk.lines
    BY <1>1, <1>2
  <2>6. UNCHANGED <<session, game>>
    BY <1>2, <1>4
  <2> QED BY <1>2, <1>4, <2>1, <2>3, <2>4, <2>5, <2>6, TakenUp
<1>5. CASE Done("ready") /\ UNCHANGED writer
  <2>1. /\ SessionOK(session') /\ session'.ending = session.ending
        /\ session'.recorder = "ready" /\ session'.chain = Tail(session.chain)
        /\ StageOK(session', stage')
    BY <1>1, <1>2, <1>5, DoneFields
  <2>2. Len(session'.chain) = 0 /\ IsArray(session'.chain)
    BY <1>2, <1>3, <2>1, ArrayTail
  <2>3. ~Kept(session')
    BY <1>3, <2>1, <2>2, ArrayLength DEF Kept
  <2> QED BY <1>1, <1>2, <1>5, <2>1, <2>3 DEF GoingOn1, Going, game
<1> QED BY <1>2, <1>4, <1>5 DEF Finalize

\* A replay that was given up is closed.
LEMMA ClosePartialKeeps ==
    ASSUME GoingOn, disk.name # "final", ClosePartial
    PROVE  GoingOn1 /\ disk'.name # "final"
<1>1. /\ SessionOK(session) /\ IsRecord(writer, WriterFields) /\ IsRecord(disk, DiskFields)
      /\ StageOK(session, stage)
  BY DEF GoingOn, Going
<1>2. /\ session.chain # <<>> /\ Head1.kind = "closePartial" /\ stage = "idle"
      /\ session.recorder = "ready" /\ stage' = "syncing"
      /\ UNCHANGED game /\ UNCHANGED session /\ UNCHANGED writer /\ UNCHANGED disk
  BY DEF ClosePartial, Busy
<1>3. session.chain[1].kind = "closePartial"
  BY <1>1, <1>2, HeadOf DEF Head1
<1>4. StageOK(session, stage') /\ stage # "writing" /\ stage' # "writing"
  BY <1>1, <1>2 DEF StageOK
<1>5. EndWritten(session, stage') = FALSE /\ EndWritten(session, stage) = FALSE
  BY <1>3 DEF EndWritten
<1>6. /\ IsRecord(disk', DiskFields) /\ IsRecord(writer', WriterFields)
      /\ disk'.lines = disk.lines /\ disk'.synced = disk.synced
      /\ writer'.ordinal = writer.ordinal /\ writer'.previous = writer.previous
      /\ stage # "syncing" /\ UNCHANGED <<session, game>>
  BY <1>1, <1>2
<1> QED BY <1>2, <1>4, <1>5, <1>6, GoesOn

\* An operation without a recorder does nothing.
LEMMA SkipKeeps ==
    ASSUME GoingOn, disk.name # "final", Skip
    PROVE  GoingOn1 /\ disk'.name # "final"
<1>1. IsRecord(writer, WriterFields) /\ IsRecord(disk, DiskFields)
  BY DEF GoingOn, Going
<1>2. /\ session.chain # <<>> /\ Done("none") /\ UNCHANGED game /\ UNCHANGED writer
      /\ UNCHANGED disk
  BY DEF Skip
<1> QED BY <1>1, <1>2, GivenUp

\* A write that fails gives the replay up.
LEMMA WriteFailsKeeps ==
    ASSUME GoingOn, disk.name # "final", WriteFails
    PROVE  GoingOn1 /\ disk'.name # "final"
<1>1. IsRecord(writer, WriterFields) /\ IsRecord(disk, DiskFields) /\ StageOK(session, stage)
  BY DEF GoingOn, Going
<1>2. stage = "writing" /\ Done("none") /\ UNCHANGED game
  BY DEF WriteFails, At
<1>3. session.chain # <<>>
  BY <1>1, <1>2 DEF StageOK
<1>4. PICK left : disk' = [disk EXCEPT !.lines = disk.lines \o left]
  BY DEF WriteFails
<1> DEFINE lines == disk.lines \o left
           handle == IF Head1.kind = "append" THEN writer.handle ELSE "closed"
<1>5. disk' = [disk EXCEPT !.lines = lines]
  BY <1>4
<1>6. writer' = [writer EXCEPT !.failed = TRUE, !.handle = handle]
  BY DEF WriteFails
<1> HIDE DEF lines, handle
<1>7. /\ IsRecord(disk', DiskFields) /\ IsRecord(writer', WriterFields)
      /\ disk'.name = disk.name
  BY <1>1, <1>5, <1>6 DEF IsRecord, DiskFields, WriterFields
<1> QED BY <1>2, <1>3, <1>7, GivenUp

\* A sync covers every line of the file.
LEMMA SyncedKeeps ==
    ASSUME GoingOn, disk.name # "final", Synced
    PROVE  GoingOn1 /\ disk'.name # "final"
<1>1. /\ IsRecord(writer, WriterFields) /\ IsRecord(disk, DiskFields)
      /\ StageOK(session, stage)
  BY DEF GoingOn, Going
<1>2. /\ stage = "syncing" /\ stage' = "closing"
      /\ disk' = [disk EXCEPT !.synced = Len(disk.lines)]
      /\ UNCHANGED game /\ UNCHANGED session /\ UNCHANGED writer
  BY DEF Synced, At
<1> DEFINE n == Len(disk.lines)
<1>3. disk' = [disk EXCEPT !.synced = n]
  BY <1>2
<1> HIDE DEF n
<1>4. /\ IsRecord(disk', DiskFields) /\ disk'.lines = disk.lines /\ disk'.name = disk.name
      /\ disk'.synced = n
  BY <1>1, <1>3 DEF IsRecord, DiskFields
<1>5. StageOK(session, stage') /\ stage # "writing" /\ stage' # "writing"
  BY <1>1, <1>2 DEF StageOK
<1>6. EndWritten(session, stage') = EndWritten(session, stage)
  BY <1>2 DEF EndWritten
<1>7. /\ disk'.synced = Len(disk.lines)
      /\ IsRecord(writer', WriterFields)
      /\ writer'.ordinal = writer.ordinal /\ writer'.previous = writer.previous
      /\ UNCHANGED <<session, game>>
  BY <1>1, <1>2, <1>4 DEF n
<1> QED BY <1>4, <1>5, <1>6, <1>7, GoesOn

\* The file is closed.
LEMMA ClosedKeeps ==
    ASSUME GoingOn, disk.name # "final", Closed
    PROVE  GoingOn1 /\ disk'.name # "final"
<1>1. /\ SessionOK(session) /\ IsRecord(writer, WriterFields) /\ IsRecord(disk, DiskFields)
      /\ StageOK(session, stage)
  BY DEF GoingOn, Going
<1>2. /\ stage = "closing" /\ writer' = [writer EXCEPT !.handle = "closed"]
      /\ UNCHANGED game /\ UNCHANGED disk
      /\ IF Head1.kind = "finalize" THEN stage' = "renaming" /\ UNCHANGED session
         ELSE Done("none")
  BY DEF Closed, At
<1>3. /\ session.chain # <<>> /\ session.recorder = "ready"
  BY <1>1, <1>2 DEF StageOK
<1>4. Head1 = session.chain[1]
  BY <1>1, <1>3, HeadOf DEF Head1
<1>5. /\ IsRecord(writer', WriterFields) /\ writer'.ordinal = writer.ordinal
      /\ writer'.previous = writer.previous
  BY <1>1, <1>2 DEF IsRecord, WriterFields
<1>6. CASE stage' = "renaming" /\ UNCHANGED session /\ Head1.kind = "finalize"
  <2>1. StageOK(session, stage') /\ stage # "writing" /\ stage' # "writing"
    BY <1>1, <1>2, <1>3, <1>4, <1>6 DEF StageOK
  <2>2. EndWritten(session, stage') = EndWritten(session, stage)
    BY <1>2, <1>4, <1>6 DEF EndWritten
  <2>3. /\ IsRecord(disk', DiskFields) /\ disk'.lines = disk.lines
        /\ disk'.synced = disk.synced /\ stage # "syncing" /\ UNCHANGED <<session, game>>
    BY <1>1, <1>2, <1>6
  <2> QED BY <1>2, <1>5, <2>1, <2>2, <2>3, GoesOn
<1>7. CASE Done("none")
  <2>1. IsRecord(disk', DiskFields)
    BY <1>1, <1>2
  <2> QED BY <1>2, <1>3, <1>5, <1>7, <2>1, GivenUp
<1> QED BY <1>2, <1>6, <1>7

\* So does a sync, a close or a rename that fails.
LEMMA LaterFailsKeeps ==
    ASSUME GoingOn, disk.name # "final", LaterFails
    PROVE  GoingOn1 /\ disk'.name # "final"
<1>1. /\ IsRecord(writer, WriterFields) /\ IsRecord(disk, DiskFields)
      /\ StageOK(session, stage)
  BY DEF GoingOn, Going
<1>2. /\ stage \in {"syncing", "closing", "renaming"} /\ Done("none")
      /\ writer' = [writer EXCEPT !.handle = "closed"] /\ UNCHANGED game /\ UNCHANGED disk
  BY DEF LaterFails
<1>3. session.chain # <<>>
  BY <1>1, <1>2 DEF StageOK
<1>4. IsRecord(writer', WriterFields)
  BY <1>1, <1>2 DEF IsRecord, WriterFields
<1>5. IsRecord(disk', DiskFields)
  BY <1>1, <1>2
<1> QED BY <1>2, <1>3, <1>4, <1>5, GivenUp

\* What a reader returns for a file that ends with the end.
LEMMA ReadOf ==
    ASSUME NEW lines, NEW S, S = VerifiedLines(lines), IsRecord(S, ReaderFields),
           S.stop = "none", S.header = TRUE, S.hasEnd = TRUE
    PROVE  /\ Read(lines, "final").stop = "complete"
           /\ Read(lines, "final").frames = S.frames
           /\ Read(lines, "final").end = S.end
<1>1. Read(lines, "final") = [S EXCEPT !.stop = "complete"]
  BY DEF Read
<1> QED BY <1>1 DEF IsRecord, ReaderFields

\* The rename publishes the whole log and the end.
LEMMA RenamedKeeps ==
    ASSUME GoingOn, Renamed
    PROVE  /\ GoingOn1 /\ Whole(log', result', disk')
           /\ Published(session', stage', result', match', disk')
<1> DEFINE S == VerifiedLines(disk.lines)
<1>1. /\ SessionOK(session) /\ IsRecord(writer, WriterFields) /\ IsRecord(disk, DiskFields)
      /\ StageOK(session, stage) /\ LogOK(log)
  BY DEF GoingOn, Going
<1>2. /\ stage = "renaming" /\ disk' = [disk EXCEPT !.name = "final"] /\ Done("none")
      /\ UNCHANGED game /\ UNCHANGED writer
  BY DEF Renamed, At
<1>3. /\ session.chain # <<>> /\ session.recorder = "ready"
      /\ session.chain[1].kind = "finalize"
  BY <1>1, <1>2 DEF StageOK
<1>4. Len(session.chain) = 1 /\ session.ending = TRUE /\ IsArray(session.chain)
  BY <1>1, <1>3, HeadOf DEF Ends
<1>5. Kept(session)
  BY <1>3, <1>4 DEF Kept
<1>6. EndWritten(session, stage)
  BY <1>2, <1>3 DEF EndWritten
<1>7. /\ IsArray(disk.lines) /\ Follows(S.frames, session, log) /\ EndKept(session, result, match)
      /\ ReaderFits(S, session, stage, result) /\ disk.synced = Len(disk.lines)
  BY <1>2, <1>5, <1>6 DEF GoingOn, Going, InFile
<1> HIDE DEF S
<1>8. /\ IsRecord(disk', DiskFields) /\ disk'.lines = disk.lines /\ disk'.synced = disk.synced
  BY <1>1, <1>2 DEF IsRecord, DiskFields
<1>9. GoingOn1
  <2>1. IsRecord(writer', WriterFields)
    BY <1>1, <1>2
  <2> QED BY <1>2, <1>3, <1>8, <2>1, GivenUp
<1>10. /\ IsRecord(S, ReaderFields) /\ S.stop = "none" /\ S.header = TRUE /\ S.hasEnd = TRUE
       /\ S.end = EndOf(result)
  BY <1>3, <1>6, <1>7 DEF ReaderFits
<1>11. S.frames = log
  <2>1. Base(session) = 0 /\ Closing(session) = 1
    BY <1>3, <1>4 DEF Base, Closing
  <2>2. IsArray(S.frames) /\ Len(S.frames) \in Nat /\ DOMAIN S.frames = 1..Len(S.frames)
    BY <1>7, ArrayLength DEF Follows
  <2>3. Len(log) = Len(S.frames) + (1 - 0) - 1
    BY <1>4, <1>7, <2>1 DEF Follows
  <2>4. Len(log) = Len(S.frames)
    BY <2>2, <2>3
  <2>5. IsArray(log) /\ DOMAIN log = 1..Len(S.frames)
    BY <1>1, <2>4, ArrayLength DEF LogOK
  <2>6. \A i \in 1..Len(S.frames) : S.frames[i] = log[i]
    BY <1>7 DEF Follows
  <2>7. S.frames = [i \in DOMAIN S.frames |-> S.frames[i]] /\ log = [i \in DOMAIN log |-> log[i]]
    BY <2>2, <2>5 DEF IsArray
  <2> QED BY <2>2, <2>5, <2>6, <2>7
<1>12. Whole(log', result', disk')
  <2>1. S = VerifiedLines(disk'.lines)
    BY <1>8 DEF S
  <2>2. /\ Read(disk'.lines, "final").stop = "complete"
        /\ Read(disk'.lines, "final").frames = S.frames
        /\ Read(disk'.lines, "final").end = S.end
    BY <1>10, <2>1, ReadOf
  <2>3. log' = log /\ result' = result
    BY <1>2 DEF game
  <2> QED BY <1>10, <1>11, <2>2, <2>3 DEF Whole
<1>13. Published(session', stage', result', match', disk')
  <2>1. /\ session'.chain = Tail(session.chain) /\ session'.ending = session.ending
        /\ stage' = "idle"
    BY <1>1, <1>2, <1>3, DoneFields
  <2>2. Len(session'.chain) = 0 /\ IsArray(session'.chain)
    BY <1>3, <1>4, <2>1, ArrayTail
  <2>3. session'.chain = <<>>
    BY <2>2, ArrayLength
  <2>4. result.end # NoEnd /\ match.end # NoEnd
    BY <1>4, <1>7 DEF EndKept
  <2> QED BY <1>2, <1>4, <1>7, <1>8, <2>1, <2>3, <2>4 DEF Published, game
<1> QED BY <1>9, <1>12, <1>13

\* A crash leaves a file that was published as it is.
LEMMA CrashKeeps ==
    ASSUME disk.name = "final" => Published(session, stage, result, match, disk), Crash,
           disk.name = "final" => Whole(log, result, disk)
    PROVE  disk'.name = "final" =>
               Whole(log', result', disk') /\ result'.end # NoEnd
<1> DEFINE all == disk.lines \o IF stage = "writing" THEN <<writer.writing>> ELSE <<>>
<1>1. PICK n \in disk.synced..Len(all), torn \in {<<>>, <<Torn>>} :
          disk' = [disk EXCEPT
              !.lines = SubSeq(all, 1, n) \o IF n < Len(all) THEN torn ELSE <<>>]
  BY DEF Crash
<1>2. SUFFICES ASSUME disk'.name = "final"
      PROVE  Whole(log', result', disk') /\ result'.end # NoEnd
  OBVIOUS
<1> DEFINE rest == SubSeq(all, 1, n) \o IF n < Len(all) THEN torn ELSE <<>>
<1>3. disk' = [disk EXCEPT !.lines = rest] /\ disk.name \in {disk.name}
  BY <1>1
<1> HIDE DEF rest
<1>4. disk.name = "final"
  <2> QED BY <1>2, <1>3
<1>5. /\ stage = "idle" /\ IsArray(disk.lines) /\ disk.synced = Len(disk.lines)
      /\ result.end # NoEnd
  BY <1>4 DEF Published
<1>6. rest = disk.lines
  <2>1. disk.lines \in Seq(Range(disk.lines))
    BY <1>5 DEF IsArray
  <2>2. all = disk.lines
    BY <1>5, <2>1
  <2> HIDE DEF all
  <2>3. n = Len(disk.lines) /\ Len(disk.lines) \in Nat
    BY <1>1, <1>5, <2>1, <2>2
  <2> DEFINE cut == IF n < Len(all) THEN torn ELSE <<>>
  <2>4. cut = <<>>
    <3>1. ~(n < Len(all))
      BY <2>2, <2>3
    <3> QED BY <3>1
  <2>5. rest = SubSeq(all, 1, n) \o cut
    BY DEF rest
  <2> HIDE DEF cut
  <2>6. rest = SubSeq(disk.lines, 1, Len(disk.lines)) \o <<>>
    BY <2>2, <2>3, <2>4, <2>5
  <2> QED BY <2>1, <2>6
<1>7. disk'.lines = disk.lines
  BY <1>3, <1>6
<1>8. log' = log /\ result' = result
  BY DEF Crash, game
<1> QED BY <1>4, <1>5, <1>7, <1>8 DEF Whole

\* A hook of the match hands on a record or none, and the end of the match.
LEMMA HookedKeeps ==
    ASSUME GoingOn, NEW records, Hooked(records), UNCHANGED file,
           records = <<>> \/ \E payload : payload.kind = "frame" /\ records = <<payload>>,
           match.end # NoEnd => match'.end # NoEnd
    PROVE  /\ GoingOn1
           /\ match.end # NoEnd => session' = session /\ result' = result /\ log' = log
<1> DEFINE appended == IF records = <<>> THEN session ELSE Appending(session, Head(records))
           longer == log \o records
<1>1. /\ session' = IF match.end = NoEnd /\ match'.end # NoEnd
                    THEN Completing(appended, "finalize", EndOf(match')) ELSE appended
      /\ result' = IF match.end = NoEnd /\ match'.end # NoEnd THEN match' ELSE result
      /\ log' = IF match.end = NoEnd THEN longer ELSE log
  BY DEF Hooked
<1>2. stage' = stage /\ writer' = writer /\ disk' = disk
  BY DEF file
<1>3. LogOK(log) /\ (match.end # NoEnd => session.ending = TRUE) /\ SessionOK(session)
  BY DEF GoingOn, Going
<1>4. CASE match.end # NoEnd
  <2>1. appended = session
    BY <1>3, <1>4 DEF Appending
  <2>2. session' = session /\ result' = result /\ log' = log
    BY <1>1, <1>4, <2>1
  <2>3. match.end = NoEnd <=> match'.end = NoEnd
    BY <1>4
  <2>4. Going(session, stage, log, result, match', writer, disk)
    BY <2>3, SameEnd DEF GoingOn
  <2>5. Going(session', stage', log', result', match', writer', disk')
    BY <1>2, <2>2, <2>4
  <2> QED BY <2>2, <2>5 DEF GoingOn1
<1>5. CASE match.end = NoEnd
  <2>1. Going(appended, stage, longer, result, match, writer, disk)
    <3>1. CASE records = <<>>
      <4>1. longer = log
        <5>1. log \in Seq(Range(log))
          BY <1>3 DEF LogOK, IsArray
        <5> QED BY <3>1, <5>1
      <4> QED BY <3>1, <4>1 DEF GoingOn
    <3>2. CASE records # <<>>
      <4>1. PICK payload : payload.kind = "frame" /\ records = <<payload>>
        BY <3>2
      <4>2. appended = Appending(session, payload)
        BY <3>2, <4>1
      <4>3. longer = Append(log, payload)
        <5>1. log \in Seq(Range(log))
          BY <1>3 DEF LogOK, IsArray
        <5> QED BY <4>1, <5>1
      <4> HIDE DEF appended, longer
      <4> QED BY <1>5, <4>1, <4>2, <4>3, AppendingKeeps DEF GoingOn
    <3> QED BY <3>1, <3>2
  <2> HIDE DEF appended, longer
  <2>2. CASE match'.end # NoEnd
    <3>1. /\ session' = Completing(appended, "finalize", EndOf(match'))
          /\ result' = match' /\ log' = longer
      BY <1>1, <1>5, <2>2
    <3>2. result'.end # NoEnd
      BY <2>2, <3>1
    <3>3. session' = Completing(appended, "finalize", EndOf(result'))
      BY <3>1
    <3>4. Going(session', stage, longer, result', match', writer, disk)
      BY <1>5, <2>1, <2>2, <3>2, <3>3, CompletingKeeps
    <3> QED BY <1>2, <1>5, <3>1, <3>4 DEF GoingOn1
  <2>3. CASE match'.end = NoEnd
    <3>1. session' = appended /\ result' = result /\ log' = longer
      BY <1>1, <1>5, <2>3
    <3>2. Going(appended, stage, longer, result, match', writer, disk)
      BY <1>5, <2>1, <2>3, SameEnd
    <3> QED BY <1>2, <1>5, <3>1, <3>2 DEF GoingOn1
  <2> QED BY <2>2, <2>3
<1> QED BY <1>4, <1>5

\* What the match does leaves a file that was published alone.
LEMMA GameKeeps ==
    ASSUME FileInv, up = TRUE, up' = up, UNCHANGED file, GoingOn1,
           match.end # NoEnd =>
               /\ match'.end # NoEnd /\ session' = session /\ result' = result /\ log' = log
    PROVE  FileInv'
<1>1. stage' = stage /\ disk' = disk
  BY DEF file
<1>2. Final' = Final
  BY <1>1 DEF Final
<1>3. ASSUME Final
      PROVE  /\ Whole(log', result', disk') /\ result'.end # NoEnd
             /\ Published(session', stage', result', match', disk')
  <2>1. /\ Whole(log, result, disk) /\ result.end # NoEnd
        /\ Published(session, stage, result, match, disk)
    BY <1>3 DEF FileInv
  <2>2. /\ match'.end # NoEnd /\ session' = session /\ result' = result /\ log' = log
    BY <2>1 DEF Published
  <2>3. /\ Whole(log', result', disk') /\ result'.end # NoEnd
    BY <1>1, <2>1, <2>2
  <2>4. Published(session', stage', result', match', disk')
    BY <1>1, <2>1, <2>2 DEF Published
  <2> QED BY <2>3, <2>4
<1>4. up' = TRUE
  OBVIOUS
<1> QED BY <1>2, <1>3, <1>4 DEF FileInv, GoingOn1

\* So does what the disk does, before it renames the file.
LEMMA DiskKeeps ==
    ASSUME FileInv, up = TRUE, DiskStep PROVE FileInv'
<1>1. GoingOn
  BY DEF FileInv, GoingOn
<1>2. up' = up /\ up \in BOOLEAN
  BY DEF FileInv, DiskStep, Create, AppendRecord, Finalize, ClosePartial, Skip, Written,
         WriteFails, Synced, Closed, Renamed, LaterFails
<1>3. disk.name # "final"
  <2> SUFFICES ASSUME disk.name = "final" PROVE FALSE
    OBVIOUS
  <2>1. session.chain = <<>> /\ stage = "idle"
    BY DEF FileInv, Final, Published
  <2> QED BY <2>1 DEF DiskStep, Create, AppendRecord, Finalize, ClosePartial, Skip, Written,
                     WriteFails, Synced, Closed, Renamed, LaterFails, Busy, At
<1>4. CASE Renamed
  <2>1. /\ GoingOn1 /\ Whole(log', result', disk')
        /\ Published(session', stage', result', match', disk')
    BY <1>1, <1>4, RenamedKeeps
  <2>2. result'.end # NoEnd
    BY <2>1 DEF Published
  <2> QED BY <1>2, <2>1, <2>2 DEF FileInv, GoingOn1
<1>5. CASE ~Renamed
  <2>1. GoingOn1 /\ disk'.name # "final"
    <3>1. CASE Create
      BY <1>1, <1>3, <3>1, CreateKeeps
    <3>2. CASE AppendRecord
      BY <1>1, <1>3, <3>2, AppendRecordKeeps
    <3>3. CASE Finalize
      BY <1>1, <1>3, <3>3, FinalizeKeeps
    <3>4. CASE ClosePartial
      BY <1>1, <1>3, <3>4, ClosePartialKeeps
    <3>5. CASE Skip
      BY <1>1, <1>3, <3>5, SkipKeeps
    <3>6. CASE Written
      BY <1>1, <1>2, <1>3, <3>6, WrittenKeeps
    <3>7. CASE WriteFails
      BY <1>1, <1>3, <3>7, WriteFailsKeeps
    <3>8. CASE Synced
      BY <1>1, <1>3, <3>8, SyncedKeeps
    <3>9. CASE Closed
      BY <1>1, <1>3, <3>9, ClosedKeeps
    <3>10. CASE LaterFails
      BY <1>1, <1>3, <3>10, LaterFailsKeeps
    <3> QED BY <1>5, <3>1, <3>2, <3>3, <3>4, <3>5, <3>6, <3>7, <3>8, <3>9, <3>10 DEF DiskStep
  <2> QED BY <1>2, <2>1 DEF FileInv, GoingOn1, Final
<1> QED BY <1>4, <1>5

\* Every step keeps the invariant of the file.
LEMMA FileStep ==
    ASSUME FileInv, MatchTyped, [ReplayNext]_replayVars PROVE FileInv'
<1>1. CASE Advance
  <2>1. /\ up = TRUE /\ match.end = NoEnd /\ UNCHANGED up /\ UNCHANGED file
        /\ Hooked(IF Drained(match) = <<>> THEN <<>>
                  ELSE <<AppliedFrame(match'.frame, Drained(match))>>)
    BY <1>1 DEF Advance, Playing, FileInv
  <2> DEFINE records == IF Drained(match) = <<>> THEN <<>>
                        ELSE <<AppliedFrame(match'.frame, Drained(match))>>
  <2>2. records = <<>> \/ \E payload : payload.kind = "frame" /\ records = <<payload>>
    <3>1. AppliedFrame(match'.frame, Drained(match)).kind = "frame"
      BY DEF AppliedFrame
    <3> QED BY <3>1
  <2>3. Hooked(records)
    BY <2>1
  <2> HIDE DEF records
  <2>4. GoingOn1
    BY <2>1, <2>2, <2>3, HookedKeeps DEF FileInv, GoingOn
  <2> QED BY <2>1, <2>4, GameKeeps
<1>2. CASE ForceEnd
  <2>1. /\ up = TRUE /\ match.end = NoEnd /\ UNCHANGED up /\ UNCHANGED file /\ Hooked(<<>>)
    BY <1>2 DEF ForceEnd, Playing, FileInv
  <2>2. GoingOn1
    BY <2>1, HookedKeeps DEF FileInv, GoingOn
  <2> QED BY <2>1, <2>2, GameKeeps
<1>3. CASE Abandon
  <2>1. /\ up = TRUE /\ UNCHANGED up /\ UNCHANGED file /\ result' = result /\ log' = log
        /\ match.end # NoEnd => match' = match
        /\ session' = Completing(session, "closePartial", Header)
    BY <1>3 DEF Abandon, FileInv
  <2>2. Going(session', stage, log, result, match', writer, disk)
    BY <2>1, CompletingGivesUp DEF FileInv
  <2>3. GoingOn1
    BY <2>1, <2>2 DEF GoingOn1, file
  <2>4. match.end # NoEnd => session' = session /\ match'.end # NoEnd
    <3>1. match.end # NoEnd => session.ending = TRUE
      BY <2>1 DEF FileInv, Going
    <3> QED BY <2>1, <3>1, CompletedBefore
  <2> QED BY <2>1, <2>3, <2>4, GameKeeps
<1>4. CASE DiskStep
  <2>1. up = TRUE
    BY <1>4 DEF FileInv, DiskStep, Create, AppendRecord, Finalize, ClosePartial, Skip, Written,
                WriteFails, Synced, Closed, Renamed, LaterFails, Busy, At
  <2> QED BY <1>4, <2>1, DiskKeeps
<1>5. CASE Crash
  <2>1. up = TRUE /\ up' = FALSE
    BY <1>5 DEF Crash, FileInv
  <2>2. disk'.name = "final" => Whole(log', result', disk') /\ result'.end # NoEnd
    BY <1>5, <2>1, CrashKeeps DEF FileInv, Final
  <2> QED BY <2>1, <2>2 DEF FileInv, Final
<1>6. ASSUME NEW p \in Players, EnqueueInput(p) PROVE FileInv'
  <2>1. /\ up = TRUE /\ match.end = NoEnd /\ UNCHANGED up /\ UNCHANGED file /\ result' = result
        /\ log' = log /\ session' = session
    BY <1>6 DEF EnqueueInput, Playing, FileInv
  <2>2. match'.end = match.end
    BY <1>6 DEF EnqueueInput, Enqueued, MatchTyped, MatchType
  <2>3. Going(session, stage, log, result, match', writer, disk)
    BY <2>1, <2>2, SameEnd DEF FileInv
  <2>4. GoingOn1
    BY <2>1, <2>3 DEF GoingOn1, file
  <2> QED BY <2>1, <2>4, GameKeeps
<1>7. ASSUME NEW p \in Players, Control(p) PROVE FileInv'
  <2>1. /\ up = TRUE /\ UNCHANGED up /\ UNCHANGED file
    BY <1>7 DEF Control, FileInv
  <2>2. match'.end = match.end
    <3>1. match' = Cleared(match, p) \/ match' = WasReset(match, p)
      BY <1>7 DEF Control
    <3>2. match \in MatchType
      BY DEF MatchTyped
    <3>3. Cleared(match, p).end = match.end
      BY <3>2, ClearedFields
    <3>4. WasReset(match, p).end = match.end
      BY <3>2, WasResetFields
    <3> QED BY <3>1, <3>3, <3>4
  <2>3. PICK payload : payload.kind = "frame" /\ Hooked(<<payload>>)
    BY <1>7 DEF Control, ControlFrame
  <2>4. <<payload>> = <<>> \/ \E other : other.kind = "frame" /\ <<payload>> = <<other>>
    BY <2>3
  <2>5. GoingOn
    BY <2>1 DEF FileInv, GoingOn
  <2>6. match.end # NoEnd => match'.end # NoEnd
    BY <2>2
  <2>7. /\ GoingOn1
        /\ match.end # NoEnd => session' = session /\ result' = result /\ log' = log
    BY <2>1, <2>3, <2>4, <2>5, <2>6, HookedKeeps
  <2> QED BY <2>1, <2>6, <2>7, GameKeeps
<1>8. CASE UNCHANGED replayVars
  <2>1. /\ up' = up /\ match' = match /\ result' = result /\ log' = log /\ session' = session
        /\ stage' = stage /\ writer' = writer /\ disk' = disk
    BY <1>8 DEF replayVars, game, file
  <2> QED BY <2>1 DEF FileInv, Final, Whole, Published
<1> QED BY <1>1, <1>2, <1>3, <1>4, <1>5, <1>6, <1>7, <1>8 DEF ReplayNext

\* The invariant of the file holds when the match begins.
LEMMA FileInit == ASSUME ReplayInit PROVE FileInv /\ MatchTyped
<1> USE DEF ReplayInit
<1>1. MatchTyped /\ match.end = NoEnd
  BY NewMatchType DEF MatchTyped
<1> DEFINE op == Operation("create", Header)
<1>2. op.kind = "create"
  BY DEF Operation
<1> HIDE DEF op
<1>3. session = [open |-> TRUE, ending |-> FALSE, pending |-> 1, recorder |-> "creating",
                 chain |-> <<op>>]
  BY DEF op
<1>4. <<op>> \in Seq({op}) /\ Len(<<op>>) = 1 /\ <<op>>[1] = op /\ <<op>> # <<>>
  OBVIOUS
<1>5. IsArray(<<op>>)
  BY <1>4, ArrayType
<1>6. IsRecord(session, SessionFields)
  BY <1>3 DEF IsRecord, SessionFields
<1>7. SessionOK(session)
  <2>1. session.chain = <<op>> /\ session.open = TRUE /\ session.ending = FALSE
        /\ session.recorder = "creating"
    BY <1>3
  <2>2. \A i \in 1..Len(session.chain) : i = 1 /\ session.chain[i] = op
    BY <1>4, <2>1
  <2> QED BY <1>2, <1>4, <1>5, <1>6, <2>1, <2>2 DEF SessionOK, Ends
<1>8. StageOK(session, stage) /\ IsRecord(writer, WriterFields) /\ IsRecord(disk, DiskFields)
  BY DEF StageOK, IsRecord, WriterFields, DiskFields, NoLines
<1>9. IsArray(<<>>) /\ Len(<<>>) = 0
  <2>1. <<>> \in Seq({})
    OBVIOUS
  <2>2. IsArray(<<>>)
    BY <2>1, ArrayType
  <2> QED BY <2>2
<1>10. LogOK(log)
  BY <1>9 DEF LogOK
<1>11. disk.lines = <<>> /\ disk.name = "none"
  BY DEF NoLines
<1>12. VerifiedLines(disk.lines) = Unread
  BY <1>11, NothingVerified
<1>13. InFile(session, stage, log, result, match, writer, disk)
  <2>1. session.chain = <<op>> /\ session.ending = FALSE /\ session.recorder = "creating"
    BY <1>3
  <2>2. Base(session) = 1 /\ Closing(session) = 0
    BY <2>1 DEF Base, Closing
  <2>3. Follows(<<>>, session, log)
    <3>1. \A i \in Base(session) + 1..Len(session.chain) : FALSE
      BY <1>4, <2>1, <2>2
    <3>2. Len(log) = Len(<<>>) + (Len(session.chain) - Base(session)) - Closing(session)
      BY <1>4, <1>9, <2>1, <2>2
    <3>3. log = <<>> /\ \A i \in 1..Len(<<>>) : <<>>[i] = log[i]
      BY <1>9
    <3>4. Len(<<>>) <= Len(log)
      BY <1>9, <3>3
    <3> QED BY <1>9, <3>1, <3>2, <3>3, <3>4 DEF Follows
  <2>4. EndKept(session, result, match) /\ EndWritten(session, stage) = FALSE
    BY <2>1 DEF EndKept, EndWritten
  <2>5. WriterFits(Unread, session, stage, writer)
    BY DEF WriterFits, Unread
  <2>6. ReaderFits(Unread, session, stage, result)
    BY <2>1, <2>4 DEF ReaderFits, Unread, IsRecord, ReaderFields
  <2>7. Unread.frames = <<>>
    BY DEF Unread
  <2> QED BY <1>9, <1>11, <1>12, <2>3, <2>4, <2>5, <2>6, <2>7 DEF InFile
<1>14. Going(session, stage, log, result, match, writer, disk)
  BY <1>1, <1>7, <1>8, <1>10, <1>13 DEF Going
<1> QED BY <1>1, <1>11, <1>14 DEF FileInv, Final

\* Hence, whatever the number of players' inputs, frames and controls: a file under the
\* final name is the whole replay of a match that ended.
THEOREM FinalReplaysAreWhole == ReplaySpec => []FinalIsWhole
<1>1. ReplayInit => FileInv /\ MatchTyped
  BY FileInit
<1>2. FileInv /\ MatchTyped /\ [ReplayNext]_replayVars => (FileInv /\ MatchTyped)'
  BY FileStep, MatchStep
<1>3. FileInv => FinalIsWhole
  BY DEF FileInv, FinalIsWhole, Whole
<1> QED BY <1>1, <1>2, <1>3, PTL DEF ReplaySpec

-----------------------------------------------------------------------------
(* The reconstruction *)

\* advanceTo takes frames one by one, as long as the match has not ended.
OneFrame(n) == IF n.end # NoEnd THEN Wrong(n) ELSE Played(n)

\* The frames that advanceTo has taken.
AdvancedToStep(after, m, frame, n) ==
    IF n = 0 THEN m ELSE OneFrame(after[n - 1])

AdvancedToSolved(after, m, frame, N) ==
    after = [n \in 0..N |-> AdvancedToStep(after, m, frame, n)]

\* The recursion has a solution for every prefix.
LEMMA AdvancedToExists ==
    ASSUME NEW m, NEW frame, NEW N \in Nat
    PROVE  \E after : AdvancedToSolved(after, m, frame, N)
<1> DEFINE P == {c \in Nat : \E after : after = [n \in 0..c |-> AdvancedToStep(after, m, frame, n)]}
<1>1. 0 \in P
  <2> DEFINE g == [n \in 0..0 |-> m]
  <2>1. g = [n \in 0..0 |-> AdvancedToStep(g, m, frame, n)]
    BY DEF AdvancedToStep
  <2> QED BY <2>1
<1>2. ASSUME NEW c \in Nat, c \in P PROVE c + 1 \in P
  <2>1. PICK g : g = [n \in 0..c |-> AdvancedToStep(g, m, frame, n)]
    BY <1>2
  <2> DEFINE h == [n \in 0..(c + 1) |-> IF n = c + 1 THEN AdvancedToStep(g, m, frame, n) ELSE g[n]]
  <2>2. ASSUME NEW n \in 0..(c + 1) PROVE h[n] = AdvancedToStep(h, m, frame, n)
    <3>1. CASE n = c + 1
      <4>1. n # 0 /\ n - 1 \in 0..(c + 1) /\ n - 1 # c + 1 /\ h[n - 1] = g[n - 1]
            /\ h[n] = AdvancedToStep(g, m, frame, n)
        BY <3>1
      <4> QED BY <4>1 DEF AdvancedToStep
    <3>2. CASE n # c + 1
      <4>1. n \in 0..c /\ g[n] = AdvancedToStep(g, m, frame, n) /\ h[n] = g[n]
        BY <2>1, <3>2
      <4>2. n # 0 => h[n - 1] = g[n - 1]
        BY <4>1
      <4> QED BY <4>1, <4>2 DEF AdvancedToStep
    <3> QED BY <3>1, <3>2
  <2> HIDE DEF h
  <2>3. h = [n \in 0..(c + 1) |-> h[n]]
    BY DEF h
  <2>4. h = [n \in 0..(c + 1) |-> AdvancedToStep(h, m, frame, n)]
    BY <2>2, <2>3
  <2> QED BY <2>4
<1> HIDE DEF P
<1>3. \A c \in Nat : c \in P
  BY <1>1, <1>2, SetInduction
<1>4. N \in P
  BY <1>3
<1> QED BY <1>4 DEF P, AdvancedToSolved

\* advanceTo takes one frame after the other.
LEMMA AdvancedToUnfolds ==
    ASSUME NEW m, NEW frame, (frame - m.frame) \in Nat
    PROVE  \E after : /\ AdvancedTo(m, frame) = IF m.frame > frame THEN Wrong(m) ELSE after[(frame - m.frame)]
                  /\ after[0] = m
                  /\ \A n \in Nat : n + 1 <= (frame - m.frame) =>
                         after[n + 1] = OneFrame(after[n])
<1> DEFINE Solves(after) == after = [n \in 0..(frame - m.frame) |-> AdvancedToStep(after, m, frame, n)]
           f == CHOOSE after : Solves(after)
<1>1. \E after : Solves(after)
  <2>1. \E after : AdvancedToSolved(after, m, frame, frame - m.frame)
    BY AdvancedToExists
  <2> QED BY <2>1 DEF AdvancedToSolved
<1>2. Solves(f)
  BY <1>1
<1>3. AdvancedTo(m, frame) = IF m.frame > frame THEN Wrong(m) ELSE f[(frame - m.frame)]
  BY DEF AdvancedTo, OneFrame, AdvancedToStep
<1> HIDE DEF f
<1>4. \A n \in 0..(frame - m.frame) : f[n] = AdvancedToStep(f, m, frame, n)
  BY <1>2
<1>5. f[0] = m
  <2>1. 0 \in 0..(frame - m.frame)
    OBVIOUS
  <2> QED BY <2>1, <1>4 DEF AdvancedToStep
<1>6. ASSUME NEW n \in Nat, n + 1 <= (frame - m.frame)
      PROVE  f[n + 1] = OneFrame(f[n])
  <2>1. n + 1 \in 0..(frame - m.frame) /\ n + 1 # 0 /\ (n + 1) - 1 = n
    BY <1>6
  <2> QED BY <2>1, <1>4 DEF AdvancedToStep
<1> QED BY <1>3, <1>5, <1>6

\* One source of a group goes back into the queue.
OneSource(before, group, i) ==
    [match |-> Requeued(before.match,
                        [player |-> group.player, epoch |-> group.sources[i].epoch,
                         sequence |-> group.sources[i].sequence,
                         actions |-> SubSeq(group.actions, before.offset + 1,
                                            before.offset + group.sources[i].count)]),
     offset |-> before.offset + group.sources[i].count]

\* The sources of a group that are in the queue again.
RequeuedGroupStep(back, m, group, n) ==
    IF n = 0 THEN [match |-> m, offset |-> 0] ELSE OneSource(back[n - 1], group, n)

\* The recursion has a solution for every prefix.
LEMMA RequeuedGroupExists ==
    ASSUME NEW m, NEW group, NEW N \in Nat
    PROVE  \E back : back = [n \in 0..N |-> RequeuedGroupStep(back, m, group, n)]
<1> DEFINE P == {c \in Nat : \E back : back = [n \in 0..c |-> RequeuedGroupStep(back, m, group, n)]}
<1>1. 0 \in P
  <2> DEFINE g == [n \in 0..0 |-> [match |-> m, offset |-> 0]]
  <2>1. g = [n \in 0..0 |-> RequeuedGroupStep(g, m, group, n)]
    BY DEF RequeuedGroupStep
  <2> QED BY <2>1
<1>2. ASSUME NEW c \in Nat, c \in P PROVE c + 1 \in P
  <2>1. PICK g : g = [n \in 0..c |-> RequeuedGroupStep(g, m, group, n)]
    BY <1>2
  <2> DEFINE h == [n \in 0..(c + 1) |-> IF n = c + 1 THEN RequeuedGroupStep(g, m, group, n) ELSE g[n]]
  <2>2. ASSUME NEW n \in 0..(c + 1) PROVE h[n] = RequeuedGroupStep(h, m, group, n)
    <3>1. CASE n = c + 1
      <4>1. n # 0 /\ n - 1 \in 0..(c + 1) /\ n - 1 # c + 1 /\ h[n - 1] = g[n - 1]
            /\ h[n] = RequeuedGroupStep(g, m, group, n)
        BY <3>1
      <4> QED BY <4>1 DEF RequeuedGroupStep
    <3>2. CASE n # c + 1
      <4>1. n \in 0..c /\ g[n] = RequeuedGroupStep(g, m, group, n) /\ h[n] = g[n]
        BY <2>1, <3>2
      <4>2. n # 0 => h[n - 1] = g[n - 1]
        BY <4>1
      <4> QED BY <4>1, <4>2 DEF RequeuedGroupStep
    <3> QED BY <3>1, <3>2
  <2> HIDE DEF h
  <2>3. h = [n \in 0..(c + 1) |-> h[n]]
    BY DEF h
  <2>4. h = [n \in 0..(c + 1) |-> RequeuedGroupStep(h, m, group, n)]
    BY <2>2, <2>3
  <2> QED BY <2>4
<1> HIDE DEF P
<1>3. \A c \in Nat : c \in P
  BY <1>1, <1>2, SetInduction
<1>4. N \in P
  BY <1>3
<1> QED BY <1>4 DEF P

\* A group puts one source back after the other.
LEMMA RequeuedGroupUnfolds ==
    ASSUME NEW m, NEW group, Len(group.sources) \in Nat
    PROVE  \E back : /\ RequeuedGroup(m, group) = IF back[Len(group.sources)].offset = Len(group.actions) THEN back[Len(group.sources)].match ELSE Wrong(back[Len(group.sources)].match)
                  /\ back[0] = [match |-> m, offset |-> 0]
                  /\ \A n \in Nat : n + 1 <= Len(group.sources) =>
                         back[n + 1] = OneSource(back[n], group, n + 1)
<1> DEFINE Solves(back) == back = [n \in 0..Len(group.sources) |-> RequeuedGroupStep(back, m, group, n)]
           f == CHOOSE back : Solves(back)
<1>1. \E back : Solves(back)
  BY RequeuedGroupExists
<1>2. Solves(f)
  BY <1>1
<1>3. RequeuedGroup(m, group) = IF f[Len(group.sources)].offset = Len(group.actions) THEN f[Len(group.sources)].match ELSE Wrong(f[Len(group.sources)].match)
  BY DEF RequeuedGroup, OneSource, RequeuedGroupStep
<1> HIDE DEF f
<1>4. \A n \in 0..Len(group.sources) : f[n] = RequeuedGroupStep(f, m, group, n)
  BY <1>2
<1>5. f[0] = [match |-> m, offset |-> 0]
  <2>1. 0 \in 0..Len(group.sources)
    OBVIOUS
  <2> QED BY <2>1, <1>4 DEF RequeuedGroupStep
<1>6. ASSUME NEW n \in Nat, n + 1 <= Len(group.sources)
      PROVE  f[n + 1] = OneSource(f[n], group, n + 1)
  <2>1. n + 1 \in 0..Len(group.sources) /\ n + 1 # 0 /\ (n + 1) - 1 = n
    BY <1>6
  <2> QED BY <2>1, <1>4 DEF RequeuedGroupStep
<1> QED BY <1>3, <1>5, <1>6

\* The groups whose sources are in the queues again.
RequeuedGroupsStep(done, m, groups, n) ==
    IF n = 0 THEN m ELSE RequeuedGroup(done[n - 1], groups[n])

\* The recursion has a solution for every prefix.
LEMMA RequeuedGroupsExists ==
    ASSUME NEW m, NEW groups, NEW N \in Nat
    PROVE  \E done : done = [n \in 0..N |-> RequeuedGroupsStep(done, m, groups, n)]
<1> DEFINE P == {c \in Nat : \E done : done = [n \in 0..c |-> RequeuedGroupsStep(done, m, groups, n)]}
<1>1. 0 \in P
  <2> DEFINE g == [n \in 0..0 |-> m]
  <2>1. g = [n \in 0..0 |-> RequeuedGroupsStep(g, m, groups, n)]
    BY DEF RequeuedGroupsStep
  <2> QED BY <2>1
<1>2. ASSUME NEW c \in Nat, c \in P PROVE c + 1 \in P
  <2>1. PICK g : g = [n \in 0..c |-> RequeuedGroupsStep(g, m, groups, n)]
    BY <1>2
  <2> DEFINE h == [n \in 0..(c + 1) |-> IF n = c + 1 THEN RequeuedGroupsStep(g, m, groups, n) ELSE g[n]]
  <2>2. ASSUME NEW n \in 0..(c + 1) PROVE h[n] = RequeuedGroupsStep(h, m, groups, n)
    <3>1. CASE n = c + 1
      <4>1. n # 0 /\ n - 1 \in 0..(c + 1) /\ n - 1 # c + 1 /\ h[n - 1] = g[n - 1]
            /\ h[n] = RequeuedGroupsStep(g, m, groups, n)
        BY <3>1
      <4> QED BY <4>1 DEF RequeuedGroupsStep
    <3>2. CASE n # c + 1
      <4>1. n \in 0..c /\ g[n] = RequeuedGroupsStep(g, m, groups, n) /\ h[n] = g[n]
        BY <2>1, <3>2
      <4>2. n # 0 => h[n - 1] = g[n - 1]
        BY <4>1
      <4> QED BY <4>1, <4>2 DEF RequeuedGroupsStep
    <3> QED BY <3>1, <3>2
  <2> HIDE DEF h
  <2>3. h = [n \in 0..(c + 1) |-> h[n]]
    BY DEF h
  <2>4. h = [n \in 0..(c + 1) |-> RequeuedGroupsStep(h, m, groups, n)]
    BY <2>2, <2>3
  <2> QED BY <2>4
<1> HIDE DEF P
<1>3. \A c \in Nat : c \in P
  BY <1>1, <1>2, SetInduction
<1>4. N \in P
  BY <1>3
<1> QED BY <1>4 DEF P

\* A record puts one group back after the other.
LEMMA RequeuedGroupsUnfolds ==
    ASSUME NEW m, NEW groups, Len(groups) \in Nat
    PROVE  \E done : /\ RequeuedGroups(m, groups) = done[Len(groups)]
                  /\ done[0] = m
                  /\ \A n \in Nat : n + 1 <= Len(groups) =>
                         done[n + 1] = RequeuedGroup(done[n], groups[n + 1])
<1> DEFINE Solves(done) == done = [n \in 0..Len(groups) |-> RequeuedGroupsStep(done, m, groups, n)]
           f == CHOOSE done : Solves(done)
<1>1. \E done : Solves(done)
  BY RequeuedGroupsExists
<1>2. Solves(f)
  BY <1>1
<1>3. RequeuedGroups(m, groups) = f[Len(groups)]
  BY DEF RequeuedGroups, RequeuedGroupsStep
<1> HIDE DEF f
<1>4. \A n \in 0..Len(groups) : f[n] = RequeuedGroupsStep(f, m, groups, n)
  BY <1>2
<1>5. f[0] = m
  <2>1. 0 \in 0..Len(groups)
    OBVIOUS
  <2> QED BY <2>1, <1>4 DEF RequeuedGroupsStep
<1>6. ASSUME NEW n \in Nat, n + 1 <= Len(groups)
      PROVE  f[n + 1] = RequeuedGroup(f[n], groups[n + 1])
  <2>1. n + 1 \in 0..Len(groups) /\ n + 1 # 0 /\ (n + 1) - 1 = n
    BY <1>6
  <2> QED BY <2>1, <1>4 DEF RequeuedGroupsStep
<1> QED BY <1>3, <1>5, <1>6

\* The records that have been played.
ReplayedAllStep(played, frames, n) ==
    IF n = 0 THEN NewMatch ELSE Replayed(played[n - 1], frames[n])

\* The recursion has a solution for every prefix.
LEMMA ReplayedAllExists ==
    ASSUME NEW frames, NEW N \in Nat
    PROVE  \E played : played = [n \in 0..N |-> ReplayedAllStep(played, frames, n)]
<1> DEFINE P == {c \in Nat : \E played : played = [n \in 0..c |-> ReplayedAllStep(played, frames, n)]}
<1>1. 0 \in P
  <2> DEFINE g == [n \in 0..0 |-> NewMatch]
  <2>1. g = [n \in 0..0 |-> ReplayedAllStep(g, frames, n)]
    BY DEF ReplayedAllStep
  <2> QED BY <2>1
<1>2. ASSUME NEW c \in Nat, c \in P PROVE c + 1 \in P
  <2>1. PICK g : g = [n \in 0..c |-> ReplayedAllStep(g, frames, n)]
    BY <1>2
  <2> DEFINE h == [n \in 0..(c + 1) |-> IF n = c + 1 THEN ReplayedAllStep(g, frames, n) ELSE g[n]]
  <2>2. ASSUME NEW n \in 0..(c + 1) PROVE h[n] = ReplayedAllStep(h, frames, n)
    <3>1. CASE n = c + 1
      <4>1. n # 0 /\ n - 1 \in 0..(c + 1) /\ n - 1 # c + 1 /\ h[n - 1] = g[n - 1]
            /\ h[n] = ReplayedAllStep(g, frames, n)
        BY <3>1
      <4> QED BY <4>1 DEF ReplayedAllStep
    <3>2. CASE n # c + 1
      <4>1. n \in 0..c /\ g[n] = ReplayedAllStep(g, frames, n) /\ h[n] = g[n]
        BY <2>1, <3>2
      <4>2. n # 0 => h[n - 1] = g[n - 1]
        BY <4>1
      <4> QED BY <4>1, <4>2 DEF ReplayedAllStep
    <3> QED BY <3>1, <3>2
  <2> HIDE DEF h
  <2>3. h = [n \in 0..(c + 1) |-> h[n]]
    BY DEF h
  <2>4. h = [n \in 0..(c + 1) |-> ReplayedAllStep(h, frames, n)]
    BY <2>2, <2>3
  <2> QED BY <2>4
<1> HIDE DEF P
<1>3. \A c \in Nat : c \in P
  BY <1>1, <1>2, SetInduction
<1>4. N \in P
  BY <1>3
<1> QED BY <1>4 DEF P

\* The reconstruction plays one record after the other.
LEMMA ReplayedAllUnfolds ==
    ASSUME NEW frames, Len(frames) \in Nat
    PROVE  \E played : /\ ReplayedAll(frames) = played[Len(frames)]
                  /\ played[0] = NewMatch
                  /\ \A n \in Nat : n + 1 <= Len(frames) =>
                         played[n + 1] = Replayed(played[n], frames[n + 1])
<1> DEFINE Solves(played) == played = [n \in 0..Len(frames) |-> ReplayedAllStep(played, frames, n)]
           f == CHOOSE played : Solves(played)
<1>1. \E played : Solves(played)
  BY ReplayedAllExists
<1>2. Solves(f)
  BY <1>1
<1>3. ReplayedAll(frames) = f[Len(frames)]
  BY DEF ReplayedAll, ReplayedAllStep
<1> HIDE DEF f
<1>4. \A n \in 0..Len(frames) : f[n] = ReplayedAllStep(f, frames, n)
  BY <1>2
<1>5. f[0] = NewMatch
  <2>1. 0 \in 0..Len(frames)
    OBVIOUS
  <2> QED BY <2>1, <1>4 DEF ReplayedAllStep
<1>6. ASSUME NEW n \in Nat, n + 1 <= Len(frames)
      PROVE  f[n + 1] = Replayed(f[n], frames[n + 1])
  <2>1. n + 1 \in 0..Len(frames) /\ n + 1 # 0 /\ (n + 1) - 1 = n
    BY <1>6
  <2> QED BY <2>1, <1>4 DEF ReplayedAllStep
<1> QED BY <1>3, <1>5, <1>6

\* A match that has played a frame is where advanceTo would take it.
LEMMA AlreadyThere ==
    ASSUME NEW m, m.frame \in Nat
    PROVE  AdvancedTo(m, m.frame) = m
<1>1. m.frame - m.frame = 0
  OBVIOUS
<1>2. PICK after : /\ AdvancedTo(m, m.frame) = IF m.frame > m.frame THEN Wrong(m)
                                               ELSE after[m.frame - m.frame]
                   /\ after[0] = m
  BY <1>1, AdvancedToUnfolds
<1> QED BY <1>1, <1>2

\* One more frame is the next frame of where advanceTo leads.
LEMMA OneFrameMore ==
    ASSUME NEW m, m.frame \in Nat, NEW f \in Nat, m.frame <= f
    PROVE  AdvancedTo(m, f + 1) = OneFrame(AdvancedTo(m, f))
<1> DEFINE k == f - m.frame
<1>1. k \in Nat /\ (f + 1) - m.frame = k + 1
  OBVIOUS
<1>2. PICK a : /\ AdvancedTo(m, f) = IF m.frame > f THEN Wrong(m) ELSE a[k]
               /\ a[0] = m
               /\ \A n \in Nat : n + 1 <= k => a[n + 1] = OneFrame(a[n])
  BY <1>1, AdvancedToUnfolds
<1>3. PICK b : /\ AdvancedTo(m, f + 1) = IF m.frame > f + 1 THEN Wrong(m)
                                         ELSE b[(f + 1) - m.frame]
               /\ b[0] = m
               /\ \A n \in Nat : n + 1 <= (f + 1) - m.frame => b[n + 1] = OneFrame(b[n])
  <2>1. f + 1 \in Nat /\ (f + 1) - m.frame \in Nat
    BY <1>1
  <2> QED BY <2>1, AdvancedToUnfolds
<1> HIDE DEF k
<1> DEFINE P == {n \in Nat : n <= k => a[n] = b[n]}
<1>4. 0 \in P
  BY <1>2, <1>3
<1>5. ASSUME NEW n \in Nat, n \in P PROVE n + 1 \in P
  <2> SUFFICES ASSUME n + 1 <= k PROVE a[n + 1] = b[n + 1]
    OBVIOUS
  <2>1. a[n] = b[n] /\ n + 1 <= (f + 1) - m.frame
    BY <1>1, <1>5
  <2> QED BY <1>2, <1>3, <2>1
<1> HIDE DEF P
<1>6. \A n \in Nat : n \in P
  BY <1>4, <1>5, SetInduction
<1>7. a[k] = b[k]
  <2>1. k \in Nat /\ k \in P
    BY <1>1, <1>6
  <2> QED BY <2>1 DEF P
<1>8. b[k + 1] = OneFrame(b[k])
  BY <1>1, <1>3
<1>9. AdvancedTo(m, f) = a[k]
  BY <1>2
<1>10. AdvancedTo(m, f + 1) = b[k + 1]
  BY <1>1, <1>3
<1> QED BY <1>7, <1>8, <1>9, <1>10

\* Nothing is played of an empty log.
LEMMA NothingReplayed == ReplayedAll(<<>>) = NewMatch
<1>1. Len(<<>>) = 0
  OBVIOUS
<1> QED BY <1>1, ReplayedAllUnfolds

\* One more record is played after all the others.
LEMMA OneMoreReplayed ==
    ASSUME NEW frames, IsArray(frames), NEW x
    PROVE  ReplayedAll(Append(frames, x)) = Replayed(ReplayedAll(frames), x)
<1> DEFINE more == Append(frames, x)
<1>1. /\ Len(frames) \in Nat /\ Len(more) = Len(frames) + 1 /\ more[Len(frames) + 1] = x
      /\ \A i \in 1..Len(frames) : more[i] = frames[i]
  BY ArrayGrows
<1> HIDE DEF more
<1>2. PICK f : /\ ReplayedAll(frames) = f[Len(frames)]
               /\ f[0] = NewMatch
               /\ \A n \in Nat : n + 1 <= Len(frames) => f[n + 1] = Replayed(f[n], frames[n + 1])
  BY <1>1, ReplayedAllUnfolds
<1>3. PICK g : /\ ReplayedAll(more) = g[Len(more)]
               /\ g[0] = NewMatch
               /\ \A n \in Nat : n + 1 <= Len(more) => g[n + 1] = Replayed(g[n], more[n + 1])
  BY <1>1, ReplayedAllUnfolds
<1> DEFINE P == {n \in Nat : n <= Len(frames) => f[n] = g[n]}
<1>4. 0 \in P
  BY <1>2, <1>3
<1>5. ASSUME NEW n \in Nat, n \in P PROVE n + 1 \in P
  <2> SUFFICES ASSUME n + 1 <= Len(frames) PROVE f[n + 1] = g[n + 1]
    OBVIOUS
  <2>1. f[n] = g[n] /\ more[n + 1] = frames[n + 1] /\ n + 1 <= Len(more)
    BY <1>1, <1>5
  <2> QED BY <1>2, <1>3, <2>1
<1> HIDE DEF P
<1>6. \A n \in Nat : n \in P
  BY <1>4, <1>5, SetInduction
<1>7. f[Len(frames)] = g[Len(frames)]
  <2>1. Len(frames) \in Nat /\ Len(frames) \in P
    BY <1>1, <1>6
  <2> QED BY <2>1 DEF P
<1>8. g[Len(frames) + 1] = Replayed(g[Len(frames)], x)
  <2>1. g[Len(frames) + 1] = Replayed(g[Len(frames)], more[Len(frames) + 1])
    BY <1>1, <1>3
  <2> QED BY <1>1, <2>1
<1> QED BY <1>1, <1>2, <1>3, <1>7, <1>8 DEF more

-----------------------------------------------------------------------------
(* A recorded frame puts the inputs back that its queues held *)

\* The queue before its inputs came, and with the first n of them.
BeforeInputs(q) == [epoch |-> q.epoch, next |-> q.next - Len(q.scheduled), scheduled |-> <<>>]

Partial(q, n) ==
    [epoch |-> q.epoch, next |-> (q.next - Len(q.scheduled)) + n,
     scheduled |-> SubSeq(q.scheduled, 1, n)]

With(u, p, q) == [u EXCEPT !.queue = [u.queue EXCEPT ![p] = q]]

\* The inputs of a queue are those of its player and its epoch, without a gap.
QueueInTurn(p, q) ==
    \A i \in 1..Len(q.scheduled) :
        /\ q.scheduled[i].player = p /\ q.scheduled[i].epoch = q.epoch
        /\ q.scheduled[i].sequence = (q.next - Len(q.scheduled)) + (i - 1)

\* Two matches are the same when their fields and queues are.
LEMMA SameMatch ==
    ASSUME NEW a \in MatchType, NEW b \in MatchType, a.frame = b.frame, a.end = b.end,
           a.ok = b.ok, a.history = b.history, \A p \in Players : a.queue[p] = b.queue[p]
    PROVE  a = b
<1>1. a.queue = b.queue
  BY DEF MatchType
<1> QED BY <1>1 DEF MatchType

\* Another queue changes nothing but the queue.
LEMMA WithFields ==
    ASSUME NEW u \in MatchType, NEW p \in Players, NEW q \in QueueType
    PROVE  /\ With(u, p, q) \in MatchType
           /\ With(u, p, q).frame = u.frame /\ With(u, p, q).end = u.end
           /\ With(u, p, q).ok = u.ok /\ With(u, p, q).history = u.history
           /\ \A r \in Players : With(u, p, q).queue[r] = IF r = p THEN q ELSE u.queue[r]
<1> DEFINE queue == [u.queue EXCEPT ![p] = q]
<1>1. queue \in [Players -> QueueType] /\ \A r \in Players : queue[r] = IF r = p THEN q ELSE u.queue[r]
  BY DEF MatchType
<1>2. With(u, p, q) = [u EXCEPT !.queue = queue]
  BY DEF With
<1> HIDE DEF queue
<1> QED BY <1>1, <1>2 DEF MatchType

\* The inputs of a queue come one by one, and the last of them completes it.
LEMMA PartialFields ==
    ASSUME NEW p \in Players, NEW q \in QueueType, QueueInTurn(p, q)
    PROVE  /\ q.next - Len(q.scheduled) \in Nat
           /\ \A n \in 0..Len(q.scheduled) : Partial(q, n) \in QueueType
           /\ Partial(q, 0) = BeforeInputs(q) /\ Partial(q, Len(q.scheduled)) = q
           /\ \A n \in Nat : n + 1 <= Len(q.scheduled) =>
                  /\ Partial(q, n + 1).scheduled =
                         Append(Partial(q, n).scheduled, q.scheduled[n + 1])
                  /\ Partial(q, n + 1).next = Partial(q, n).next + 1
<1> DEFINE s == q.scheduled
           n0 == q.next - Len(s)
<1>1. s \in Seq(InputType) /\ Len(s) \in Nat /\ q.next \in Nat /\ q.epoch \in Nat
  BY DEF QueueType
<1>2. n0 \in Nat
  <2>1. CASE Len(s) = 0
    BY <1>1, <2>1
  <2>2. CASE Len(s) # 0
    <3>1. 1 \in 1..Len(s)
      BY <1>1, <2>2
    <3>2. s[1] \in InputType
      BY <1>1, <3>1
    <3>3. s[1].sequence = n0 + (1 - 1)
      BY <3>1 DEF QueueInTurn
    <3>4. s[1].sequence \in Nat
      BY <3>2 DEF InputType
    <3>5. n0 \in Int
      BY <1>1
    <3>6. n0 = s[1].sequence
      BY <3>3, <3>5
    <3> QED BY <3>4, <3>6
  <2> QED BY <2>1, <2>2
<1>3. q = [epoch |-> q.epoch, next |-> q.next, scheduled |-> s]
  BY DEF QueueType
<1>4. \A n : Partial(q, n) = [epoch |-> q.epoch, next |-> n0 + n, scheduled |-> SubSeq(s, 1, n)]
  BY DEF Partial
<1>5. BeforeInputs(q) = [epoch |-> q.epoch, next |-> n0, scheduled |-> <<>>]
  BY DEF BeforeInputs
<1>6. n0 + Len(s) = q.next
  BY <1>1
<1> HIDE DEF s, n0
<1>7. SubSeq(s, 1, 0) = <<>> /\ SubSeq(s, 1, Len(s)) = s /\ n0 + 0 = n0
  BY <1>1, <1>2
<1>8. ASSUME NEW n \in Nat, n + 1 <= Len(s)
      PROVE  SubSeq(s, 1, n + 1) = Append(SubSeq(s, 1, n), s[n + 1])
  <2> DEFINE a == SubSeq(s, 1, n + 1)
             b == SubSeq(s, 1, n)
             c == Append(b, s[n + 1])
  <2>1. /\ b \in Seq(InputType) /\ Len(b) = n /\ \A i \in 1..n : b[i] = s[i]
        /\ s[n + 1] \in InputType
    BY <1>1, <1>8
  <2>2. a \in Seq(InputType) /\ Len(a) = n + 1 /\ \A i \in 1..(n + 1) : a[i] = s[i]
    BY <1>1, <1>8
  <2> HIDE DEF a, b
  <2>3. /\ c \in Seq(InputType) /\ Len(c) = n + 1 /\ c[n + 1] = s[n + 1]
        /\ \A i \in 1..n : c[i] = b[i]
    BY <2>1
  <2> HIDE DEF c
  <2>4. ASSUME NEW i \in 1..(n + 1) PROVE a[i] = c[i]
    <3>1. CASE i = n + 1
      <4>1. a[i] = s[i]
        BY <2>2
      <4> QED BY <2>3, <3>1, <4>1
    <3>2. CASE i # n + 1
      <4>1. i \in 1..n
        BY <3>2
      <4>2. a[i] = s[i] /\ b[i] = s[i] /\ c[i] = b[i]
        BY <2>1, <2>2, <2>3, <4>1
      <4> QED BY <4>2
    <3> QED BY <3>1, <3>2
  <2>5. a = c
    BY <2>2, <2>3, <2>4
  <2> QED BY <2>5 DEF a, b, c
<1>9. ASSUME NEW n \in 0..Len(s) PROVE Partial(q, n) \in QueueType
  <2>1. SubSeq(s, 1, n) \in Seq(InputType) /\ n0 + n \in Nat
    BY <1>1, <1>2
  <2>2. Partial(q, n) = [epoch |-> q.epoch, next |-> n0 + n, scheduled |-> SubSeq(s, 1, n)]
    BY <1>4
  <2> QED BY <1>1, <2>1, <2>2 DEF QueueType
<1>10. Partial(q, 0) = BeforeInputs(q) /\ Partial(q, Len(s)) = q
  BY <1>3, <1>4, <1>5, <1>6, <1>7
<1>11. ASSUME NEW n \in Nat, n + 1 <= Len(s)
       PROVE  /\ Partial(q, n + 1).scheduled = Append(Partial(q, n).scheduled, s[n + 1])
              /\ Partial(q, n + 1).next = Partial(q, n).next + 1
  <2>1. n0 + (n + 1) = (n0 + n) + 1
    BY <1>2
  <2>2. /\ Partial(q, n + 1).scheduled = SubSeq(s, 1, n + 1)
        /\ Partial(q, n).scheduled = SubSeq(s, 1, n)
        /\ Partial(q, n + 1).next = n0 + (n + 1) /\ Partial(q, n).next = n0 + n
    BY <1>4
  <2> QED BY <1>8, <1>11, <2>1, <2>2
<1> QED BY <1>2, <1>9, <1>10, <1>11 DEF s, n0

\* One more input goes back into the queue.
LEMMA OneMoreBack ==
    ASSUME NEW u \in MatchType, NEW p \in Players, NEW q \in QueueType, QueueInTurn(p, q),
           NEW n \in Nat, n + 1 <= Len(q.scheduled)
    PROVE  Requeued(With(u, p, Partial(q, n)), q.scheduled[n + 1]) = With(u, p, Partial(q, n + 1))
<1> DEFINE a == With(u, p, Partial(q, n))
           b == With(u, p, Partial(q, n + 1))
           x == q.scheduled[n + 1]
<1>1. q.scheduled \in Seq(InputType) /\ Len(q.scheduled) \in Nat
  BY DEF QueueType
<1>2. n \in 0..Len(q.scheduled) /\ n + 1 \in 0..Len(q.scheduled) /\ n + 1 \in 1..Len(q.scheduled)
  BY <1>1
<1>3. Partial(q, n) \in QueueType /\ Partial(q, n + 1) \in QueueType
  BY <1>2, PartialFields
<1>4. /\ a \in MatchType /\ a.frame = u.frame /\ a.end = u.end /\ a.ok = u.ok
      /\ a.history = u.history
      /\ \A r \in Players : a.queue[r] = IF r = p THEN Partial(q, n) ELSE u.queue[r]
  BY <1>3, WithFields
<1>5. /\ b \in MatchType /\ b.frame = u.frame /\ b.end = u.end /\ b.ok = u.ok
      /\ b.history = u.history
      /\ \A r \in Players : b.queue[r] = IF r = p THEN Partial(q, n + 1) ELSE u.queue[r]
  BY <1>3, WithFields
<1>6. /\ x \in InputType /\ x.player = p /\ x.epoch = q.epoch
      /\ x.sequence = (q.next - Len(q.scheduled)) + ((n + 1) - 1)
  BY <1>1, <1>2 DEF QueueInTurn
<1>7. Partial(q, n).epoch = q.epoch /\ Partial(q, n + 1).epoch = q.epoch
      /\ Partial(q, n).next = (q.next - Len(q.scheduled)) + n
  BY DEF Partial
<1>8. /\ Partial(q, n + 1).scheduled = Append(Partial(q, n).scheduled, x)
      /\ Partial(q, n + 1).next = Partial(q, n).next + 1
  BY PartialFields
<1> HIDE DEF a, b, x
<1>9. Scheduled(a, x)
  <2>1. (n + 1) - 1 = n
    OBVIOUS
  <2> QED BY <1>4, <1>6, <1>7, <2>1 DEF Scheduled
<1>10. Requeued(a, x) = Enqueued(a, x)
  BY <1>9 DEF Requeued
<1>11. /\ Enqueued(a, x) \in MatchType
       /\ Enqueued(a, x).end = a.end /\ Enqueued(a, x).frame = a.frame
       /\ Enqueued(a, x).ok = a.ok /\ Enqueued(a, x).history = a.history
       /\ \A r \in Players :
              Enqueued(a, x).queue[r] =
                  IF r = p THEN [epoch |-> a.queue[r].epoch, next |-> a.queue[r].next + 1,
                                 scheduled |-> Append(a.queue[r].scheduled, x)]
                  ELSE a.queue[r]
  BY <1>4, <1>6, EnqueuedFields
<1>12. \A r \in Players : Enqueued(a, x).queue[r] = b.queue[r]
  <2>1. Partial(q, n + 1) = [epoch |-> q.epoch, next |-> Partial(q, n).next + 1,
                             scheduled |-> Append(Partial(q, n).scheduled, x)]
    <3>1. Partial(q, n + 1) = [epoch |-> Partial(q, n + 1).epoch, next |-> Partial(q, n + 1).next,
                               scheduled |-> Partial(q, n + 1).scheduled]
      BY DEF Partial
    <3> QED BY <1>7, <1>8, <3>1
  <2> TAKE r \in Players
  <2>2. CASE r = p
    <3>1. a.queue[r] = Partial(q, n) /\ b.queue[r] = Partial(q, n + 1)
      BY <1>4, <1>5, <2>2
    <3>2. Enqueued(a, x).queue[r] =
              [epoch |-> a.queue[r].epoch, next |-> a.queue[r].next + 1,
               scheduled |-> Append(a.queue[r].scheduled, x)]
      BY <1>11, <2>2
    <3> QED BY <1>7, <2>1, <3>1, <3>2
  <2>3. CASE r # p
    BY <1>4, <1>5, <1>11, <2>3
  <2> QED BY <2>2, <2>3
<1>13. Enqueued(a, x) = b
  BY <1>4, <1>5, <1>11, <1>12, SameMatch
<1> QED BY <1>10, <1>13 DEF a, b, x

\* What #groupInputs says of the inputs of one player.
SourceOf(x) == [epoch |-> x.epoch, sequence |-> x.sequence, count |-> Len(x.actions)]

GroupOf(p, s) ==
    [player |-> p, actions |-> ActionsOf(s), sources |-> [i \in DOMAIN s |-> SourceOf(s[i])]]

\* A queue that is put back in its place changes nothing.
LEMMA WithItself ==
    ASSUME NEW u \in MatchType, NEW p \in Players
    PROVE  With(u, p, u.queue[p]) = u
<1>1. u.queue[p] \in QueueType
  BY DEF MatchType
<1>2. /\ With(u, p, u.queue[p]) \in MatchType
      /\ With(u, p, u.queue[p]).frame = u.frame /\ With(u, p, u.queue[p]).end = u.end
      /\ With(u, p, u.queue[p]).ok = u.ok /\ With(u, p, u.queue[p]).history = u.history
      /\ \A r \in Players : With(u, p, u.queue[p]).queue[r] = u.queue[r]
  BY <1>1, WithFields
<1> QED BY <1>2, SameMatch

\* The share of the actions that a source counts is the input's own.
LEMMA ShareOfActions ==
    ASSUME NEW s \in Seq(InputType)
    PROVE  \E flat :
               /\ Len(flat[0]) = 0 /\ Len(flat[Len(s)]) = Len(ActionsOf(s))
               /\ \A n \in Nat : n + 1 <= Len(s) =>
                      /\ Len(flat[n + 1]) = Len(flat[n]) + Len(s[n + 1].actions)
                      /\ SubSeq(ActionsOf(s), Len(flat[n]) + 1,
                                Len(flat[n]) + Len(s[n + 1].actions)) = s[n + 1].actions
<1> DEFINE parts == [i \in DOMAIN s |-> s[i].actions]
<1>1. parts \in Seq(Seq(Action)) /\ ActionsOf(s) = Flat(parts)
  BY ActionsOfType DEF ActionsOf
<1>2. Len(parts) = Len(s) /\ \A n \in Nat : n + 1 <= Len(s) => parts[n + 1] = s[n + 1].actions
  OBVIOUS
<1> HIDE DEF parts
<1>3. PICK flat :
          /\ flat[0] = <<>> /\ Flat(parts) = flat[Len(parts)]
          /\ \A n \in Nat : n + 1 <= Len(parts) =>
                 /\ Len(flat[n + 1]) = Len(flat[n]) + Len(parts[n + 1])
                 /\ SubSeq(Flat(parts), Len(flat[n]) + 1, Len(flat[n]) + Len(parts[n + 1]))
                        = parts[n + 1]
  BY <1>1, FlatParts
<1>4. Len(flat[0]) = 0 /\ Len(flat[Len(s)]) = Len(ActionsOf(s))
  BY <1>1, <1>2, <1>3
<1>5. ASSUME NEW n \in Nat, n + 1 <= Len(s)
      PROVE  /\ Len(flat[n + 1]) = Len(flat[n]) + Len(s[n + 1].actions)
             /\ SubSeq(ActionsOf(s), Len(flat[n]) + 1,
                       Len(flat[n]) + Len(s[n + 1].actions)) = s[n + 1].actions
  <2>1. /\ Len(flat[n + 1]) = Len(flat[n]) + Len(parts[n + 1])
        /\ SubSeq(Flat(parts), Len(flat[n]) + 1, Len(flat[n]) + Len(parts[n + 1]))
               = parts[n + 1]
    BY <1>2, <1>3, <1>5
  <2>2. parts[n + 1] = s[n + 1].actions
    BY <1>2, <1>5
  <2> QED BY <1>1, <2>1, <2>2
<1> QED BY <1>4, <1>5

\* RequeuedGroup by its recursion.
GroupSolved(back, m, group) ==
    /\ RequeuedGroup(m, group) =
           IF back[Len(group.sources)].offset = Len(group.actions)
           THEN back[Len(group.sources)].match ELSE Wrong(back[Len(group.sources)].match)
    /\ back[0] = [match |-> m, offset |-> 0]
    /\ \A n \in Nat : n + 1 <= Len(group.sources) =>
           back[n + 1] = OneSource(back[n], group, n + 1)

\* RequeuedGroup follows its recursion.
LEMMA GroupRecursion ==
    ASSUME NEW m, NEW group, Len(group.sources) \in Nat
    PROVE  \E back : GroupSolved(back, m, group)
  BY RequeuedGroupUnfolds DEF GroupSolved

\* A recorded group puts the inputs of its player back.
LEMMA GroupBack ==
    ASSUME NEW u \in MatchType, NEW p \in Players, NEW q \in QueueType, QueueInTurn(p, q),
           u.queue[p] = BeforeInputs(q)
    PROVE  RequeuedGroup(u, GroupOf(p, q.scheduled)) = With(u, p, q)
<1> DEFINE s == q.scheduled
           group == GroupOf(p, s)
<1>1. s \in Seq(InputType) /\ Len(s) \in Nat /\ DOMAIN s = 1..Len(s)
  BY DEF QueueType
<1>2. /\ group.player = p /\ group.actions = ActionsOf(s) /\ Len(group.sources) = Len(s)
      /\ \A n \in Nat : n + 1 <= Len(s) => group.sources[n + 1] = SourceOf(s[n + 1])
  BY <1>1 DEF GroupOf
<1>3. PICK flat :
          /\ Len(flat[0]) = 0 /\ Len(flat[Len(s)]) = Len(ActionsOf(s))
          /\ \A n \in Nat : n + 1 <= Len(s) =>
                 /\ Len(flat[n + 1]) = Len(flat[n]) + Len(s[n + 1].actions)
                 /\ SubSeq(ActionsOf(s), Len(flat[n]) + 1,
                           Len(flat[n]) + Len(s[n + 1].actions)) = s[n + 1].actions
  BY <1>1, ShareOfActions
<1> HIDE DEF group, s
<1>4. PICK back :
          /\ RequeuedGroup(u, group) =
                 IF back[Len(group.sources)].offset = Len(group.actions)
                 THEN back[Len(group.sources)].match ELSE Wrong(back[Len(group.sources)].match)
          /\ back[0] = [match |-> u, offset |-> 0]
          /\ \A n \in Nat : n + 1 <= Len(group.sources) =>
                 back[n + 1] = OneSource(back[n], group, n + 1)
  <2>1. Len(group.sources) \in Nat
    BY <1>1, <1>2
  <2>2. \E back : GroupSolved(back, u, group)
    BY <2>1, GroupRecursion
  <2> QED BY <2>2 DEF GroupSolved
<1> DEFINE Back(n) == /\ back[n].match = With(u, p, Partial(q, n))
                      /\ back[n].offset = Len(flat[n])
           P == {n \in Nat : n <= Len(s) => Back(n)}
<1>5. 0 \in P
  <2>1. With(u, p, Partial(q, 0)) = u
    <3>1. Partial(q, 0) = u.queue[p]
      BY PartialFields
    <3> QED BY <3>1, WithItself
  <2>2. back[0].match = u /\ back[0].offset = 0
    BY <1>4
  <2> QED BY <1>3, <2>1, <2>2
<1>6. ASSUME NEW n \in Nat, n \in P PROVE n + 1 \in P
  <2> SUFFICES ASSUME n + 1 <= Len(s) PROVE Back(n + 1)
    OBVIOUS
  <2> DEFINE x == s[n + 1]
             a == With(u, p, Partial(q, n))
             k == Len(flat[n])
  <2>1. Back(n)
    <3>1. n <= Len(s)
      BY <1>1
    <3> QED BY <1>6, <3>1
  <2>2. back[n + 1] = OneSource(back[n], group, n + 1)
    BY <1>2, <1>4
  <2>3. group.sources[n + 1] = SourceOf(x)
    BY <1>2
  <2>4. Len(flat[n + 1]) = k + Len(x.actions) /\ SubSeq(ActionsOf(s), k + 1, k + Len(x.actions)) = x.actions
    BY <1>3
  <2>5. x \in InputType /\ x.player = p
    <3>1. n + 1 \in 1..Len(s)
      BY <1>1
    <3> QED BY <1>1, <3>1 DEF QueueInTurn, s
  <2>6. x = [player |-> p, epoch |-> x.epoch, sequence |-> x.sequence, actions |-> x.actions]
    BY <2>5 DEF InputType
  <2>7. Requeued(a, x) = With(u, p, Partial(q, n + 1))
    BY OneMoreBack DEF s
  <2> HIDE DEF x, a, k
  <2>8. SourceOf(x).epoch = x.epoch /\ SourceOf(x).sequence = x.sequence
        /\ SourceOf(x).count = Len(x.actions)
    BY DEF SourceOf
  <2>9. back[n].match = a /\ back[n].offset = k
    BY <2>1 DEF a, k
  <2>10. /\ back[n + 1].match =
                Requeued(a, [player |-> p, epoch |-> x.epoch, sequence |-> x.sequence,
                             actions |-> SubSeq(ActionsOf(s), k + 1, k + Len(x.actions))])
         /\ back[n + 1].offset = k + Len(x.actions)
    BY <1>2, <2>2, <2>3, <2>8, <2>9 DEF OneSource
  <2>11. back[n + 1].match = Requeued(a, x)
    <3>1. [player |-> p, epoch |-> x.epoch, sequence |-> x.sequence,
           actions |-> SubSeq(ActionsOf(s), k + 1, k + Len(x.actions))] = x
      BY <2>4, <2>6
    <3> QED BY <2>10, <3>1
  <2> QED BY <2>4, <2>7, <2>10, <2>11
<1> HIDE DEF P
<1>7. \A n \in Nat : n \in P
  BY <1>5, <1>6, SetInduction
<1>8. Back(Len(s))
  <2>1. Len(s) \in Nat /\ Len(s) \in P
    BY <1>1, <1>7
  <2> QED BY <2>1 DEF P
<1>9. Partial(q, Len(s)) = q
  BY PartialFields DEF s
<1>10. RequeuedGroup(u, group) = back[Len(s)].match
  BY <1>2, <1>3, <1>4, <1>8
<1> QED BY <1>8, <1>9, <1>10 DEF group, s

\* What is recorded of one player: nothing, or a group.
GroupsOf(p, s) == IF s = <<>> THEN <<>> ELSE <<GroupOf(p, s)>>

\* The inputs of a player among all that were drained.
InputsOf(given, p) == Keep(given, {input \in {given[i] : i \in DOMAIN given} : input.player = p})

\* #groupInputs groups the inputs of each player.
LEMMA GroupedInputs ==
    ASSUME NEW given
    PROVE  Grouped(given) = GroupsOf(1, InputsOf(given, 1)) \o GroupsOf(2, InputsOf(given, 2))
  BY DEF Grouped, GroupsOf, GroupOf, SourceOf, InputsOf

\* All inputs of a sequence are of one player.
AllOf(s, p) == s \in Seq(InputType) /\ \A i \in 1..Len(s) : s[i].player = p

\* Of two players' inputs, one after the other, each gets its own back.
LEMMA InputsOfEach ==
    ASSUME NEW s, NEW t, AllOf(s, 1), AllOf(t, 2)
    PROVE  InputsOf(s \o t, 1) = s /\ InputsOf(s \o t, 2) = t
<1> DEFINE both == s \o t
           All == {both[i] : i \in DOMAIN both}
           Own(p) == {input \in All : input.player = p}
<1>1. s \in Seq(InputType) /\ t \in Seq(InputType) /\ both \in Seq(InputType)
  BY DEF AllOf
<1>2. Range(s) \subseteq All /\ Range(t) \subseteq All
  <2>1. Range(s) = {s[i] : i \in 1..Len(s)} /\ Range(t) = {t[i] : i \in 1..Len(t)}
    BY <1>1 DEF Range
  <2>2. \A i \in 1..Len(s) : i \in DOMAIN both /\ both[i] = s[i]
    BY <1>1
  <2>3. \A i \in 1..Len(t) : Len(s) + i \in DOMAIN both /\ both[Len(s) + i] = t[i]
    BY <1>1
  <2>4. \A i \in 1..Len(s) : s[i] \in All
    BY <2>2
  <2>5. \A i \in 1..Len(t) : t[i] \in All
    BY <2>3
  <2> QED BY <2>1, <2>4, <2>5
<1>3. ASSUME NEW p PROVE Keep(both, Own(p)) = Keep(s, Own(p)) \o Keep(t, Own(p))
  <2> DEFINE S == Own(p)
  <2> HIDE DEF S
  <2>1. Keep(s \o t, S) = Keep(s, S) \o Keep(t, S)
    BY <1>1, KeepConcat
  <2> QED BY <2>1 DEF S
<1>4. \A x \in Range(s) : x.player = 1
  BY <1>1 DEF AllOf, Range
<1>5. \A x \in Range(t) : x.player = 2
  BY <1>1 DEF AllOf, Range
<1>6. Range(s) \subseteq Own(1) /\ Range(t) \subseteq Own(2)
  BY <1>2, <1>4, <1>5
<1>7. Range(t) \cap Own(1) = {} /\ Range(s) \cap Own(2) = {}
  BY <1>4, <1>5
<1> HIDE DEF All
<1>8. Keep(s, Own(1)) = s /\ Keep(t, Own(2)) = t
  BY <1>1, <1>6, KeepAll
<1>9. Keep(t, Own(1)) = <<>> /\ Keep(s, Own(2)) = <<>>
  BY <1>1, <1>7, KeepNone
<1>10. InputsOf(both, 1) = Keep(both, Own(1)) /\ InputsOf(both, 2) = Keep(both, Own(2))
  BY DEF InputsOf, All
<1>11. s \o <<>> = s /\ <<>> \o t = t
  BY <1>1
<1> HIDE DEF Own
<1>12. InputsOf(both, 1) = s \o <<>> /\ InputsOf(both, 2) = <<>> \o t
  BY <1>3, <1>8, <1>9, <1>10
<1> QED BY <1>11, <1>12

\* Every queue of a match holds its own player's inputs in turn.
QueuesInTurn(m) == \A p \in Players : QueueInTurn(p, m.queue[p])

\* The drained inputs are grouped as the queues held them.
LEMMA GroupedDrained ==
    ASSUME NEW m \in MatchType, QueuesInTurn(m)
    PROVE  Grouped(Drained(m)) = GroupsOf(1, m.queue[1].scheduled) \o GroupsOf(2, m.queue[2].scheduled)
<1> DEFINE s == m.queue[1].scheduled
           t == m.queue[2].scheduled
<1>1. 1 \in Players /\ 2 \in Players
  BY DEF Players
<1>2. AllOf(s, 1) /\ AllOf(t, 2)
  BY <1>1 DEF MatchType, QueueType, QueuesInTurn, QueueInTurn, AllOf
<1>3. Drained(m) = s \o t
  BY DEF Drained
<1> HIDE DEF s, t
<1>4. InputsOf(s \o t, 1) = s /\ InputsOf(s \o t, 2) = t
  BY <1>2, InputsOfEach
<1> QED BY <1>3, <1>4, GroupedInputs DEF s, t

\* The groups of a record go back one after the other.
LEMMA SomeGroups ==
    ASSUME NEW m, NEW g, NEW h
    PROVE  /\ RequeuedGroups(m, <<>>) = m
           /\ RequeuedGroups(m, <<g>>) = RequeuedGroup(m, g)
           /\ RequeuedGroups(m, <<g, h>>) = RequeuedGroup(RequeuedGroup(m, g), h)
<1>1. RequeuedGroups(m, <<>>) = m
  <2>1. Len(<<>>) = 0
    OBVIOUS
  <2> QED BY <2>1, RequeuedGroupsUnfolds
<1>2. RequeuedGroups(m, <<g>>) = RequeuedGroup(m, g)
  <2>1. Len(<<g>>) = 1 /\ <<g>>[1] = g
    OBVIOUS
  <2>2. PICK done : /\ RequeuedGroups(m, <<g>>) = done[Len(<<g>>)] /\ done[0] = m
                    /\ \A n \in Nat : n + 1 <= Len(<<g>>) =>
                           done[n + 1] = RequeuedGroup(done[n], <<g>>[n + 1])
    BY <2>1, RequeuedGroupsUnfolds
  <2>3. done[0 + 1] = RequeuedGroup(done[0], <<g>>[0 + 1])
    BY <2>1, <2>2
  <2> QED BY <2>1, <2>2, <2>3
<1>3. RequeuedGroups(m, <<g, h>>) = RequeuedGroup(RequeuedGroup(m, g), h)
  <2>1. Len(<<g, h>>) = 2 /\ <<g, h>>[1] = g /\ <<g, h>>[2] = h
    OBVIOUS
  <2>2. PICK done : /\ RequeuedGroups(m, <<g, h>>) = done[Len(<<g, h>>)] /\ done[0] = m
                    /\ \A n \in Nat : n + 1 <= Len(<<g, h>>) =>
                           done[n + 1] = RequeuedGroup(done[n], <<g, h>>[n + 1])
    BY <2>1, RequeuedGroupsUnfolds
  <2>3. done[0 + 1] = RequeuedGroup(done[0], <<g, h>>[0 + 1])
    BY <2>1, <2>2
  <2>4. done[1 + 1] = RequeuedGroup(done[1], <<g, h>>[1 + 1])
    BY <2>1, <2>2
  <2> QED BY <2>1, <2>2, <2>3, <2>4
<1> QED BY <1>1, <1>2, <1>3

\* The match as it was when its queues were drained last.
Undrained(m) == [m EXCEPT !.queue = [p \in Players |-> BeforeInputs(m.queue[p])]]

\* A match without its inputs, field by field.
LEMMA UndrainedFields ==
    ASSUME NEW m \in MatchType, QueuesInTurn(m)
    PROVE  /\ Undrained(m) \in MatchType
           /\ Undrained(m).frame = m.frame /\ Undrained(m).end = m.end
           /\ Undrained(m).ok = m.ok /\ Undrained(m).history = m.history
           /\ \A p \in Players : Undrained(m).queue[p] = BeforeInputs(m.queue[p])
<1> DEFINE queue == [p \in Players |-> BeforeInputs(m.queue[p])]
<1>1. ASSUME NEW p \in Players PROVE BeforeInputs(m.queue[p]) \in QueueType
  <2>1. m.queue[p] \in QueueType /\ QueueInTurn(p, m.queue[p])
    BY DEF MatchType, QueuesInTurn
  <2>2. m.queue[p].next - Len(m.queue[p].scheduled) \in Nat
    BY <2>1, PartialFields
  <2>3. m.queue[p].epoch \in Nat /\ <<>> \in Seq(InputType)
    BY <2>1 DEF QueueType
  <2> QED BY <2>2, <2>3 DEF BeforeInputs, QueueType
<1>2. queue \in [Players -> QueueType] /\ \A p \in Players : queue[p] = BeforeInputs(m.queue[p])
  BY <1>1
<1>3. Undrained(m) = [m EXCEPT !.queue = queue]
  BY DEF Undrained
<1> HIDE DEF queue
<1> QED BY <1>2, <1>3 DEF MatchType

\* A player's group, if there is one, puts its queue back.
LEMMA GroupsOfBack ==
    ASSUME NEW u \in MatchType, NEW p \in Players, NEW q \in QueueType, QueueInTurn(p, q),
           u.queue[p] = BeforeInputs(q)
    PROVE  RequeuedGroups(u, GroupsOf(p, q.scheduled)) = With(u, p, q)
<1>1. CASE q.scheduled = <<>>
  <2>1. RequeuedGroups(u, GroupsOf(p, q.scheduled)) = u
    BY <1>1, SomeGroups DEF GroupsOf
  <2>2. Len(q.scheduled) = 0
    BY <1>1
  <2>3. BeforeInputs(q) = q
    BY PartialFields, <2>2
  <2> QED BY <2>1, <2>3, WithItself
<1>2. CASE q.scheduled # <<>>
  <2>1. RequeuedGroups(u, GroupsOf(p, q.scheduled)) = RequeuedGroup(u, GroupOf(p, q.scheduled))
    BY <1>2, SomeGroups DEF GroupsOf
  <2> QED BY <2>1, GroupBack
<1> QED BY <1>1, <1>2

\* The groups of a record go back one after the other.
LEMMA TwoGroups ==
    ASSUME NEW m, NEW two, Len(two) = 2
    PROVE  RequeuedGroups(m, two) = RequeuedGroup(RequeuedGroup(m, two[1]), two[2])
<1>1. PICK done : /\ RequeuedGroups(m, two) = done[Len(two)] /\ done[0] = m
                  /\ \A n \in Nat : n + 1 <= Len(two) =>
                         done[n + 1] = RequeuedGroup(done[n], two[n + 1])
  BY RequeuedGroupsUnfolds
<1>2. done[0 + 1] = RequeuedGroup(done[0], two[0 + 1])
  BY <1>1
<1>3. done[1 + 1] = RequeuedGroup(done[1], two[1 + 1])
  BY <1>1
<1> QED BY <1>1, <1>2, <1>3

\* At most one group, and then at most one more.
LEMMA GroupsThenGroups ==
    ASSUME NEW m, NEW T, NEW a \in Seq(T), NEW b \in Seq(T),
           a = <<>> \/ Len(a) = 1, b = <<>> \/ Len(b) = 1
    PROVE  RequeuedGroups(m, a \o b) = RequeuedGroups(RequeuedGroups(m, a), b)
<1>1. CASE a = <<>>
  <2>1. a \o b = b
    BY <1>1
  <2> QED BY <1>1, <2>1, SomeGroups
<1>2. CASE b = <<>>
  <2>1. a \o b = a
    BY <1>2
  <2> QED BY <1>2, <2>1, SomeGroups
<1>3. CASE Len(a) = 1 /\ Len(b) = 1
  <2>1. Len(a \o b) = 2 /\ (a \o b)[1] = a[1] /\ (a \o b)[2] = b[1]
    BY <1>3, OneThenOne
  <2>2. RequeuedGroups(m, a \o b) = RequeuedGroup(RequeuedGroup(m, a[1]), b[1])
    BY <2>1, TwoGroups
  <2>3. \A k : RequeuedGroups(k, a) = RequeuedGroup(k, a[1])
    <3>1. a = <<a[1]>>
      BY <1>3
    <3> QED BY <3>1, SomeGroups
  <2>4. \A k : RequeuedGroups(k, b) = RequeuedGroup(k, b[1])
    <3>1. b = <<b[1]>>
      BY <1>3
    <3> QED BY <3>1, SomeGroups
  <2> QED BY <2>2, <2>3, <2>4
<1> QED BY <1>1, <1>2, <1>3

\* The first player's group goes back before the second player's.
LEMMA GroupsAfterGroups ==
    ASSUME NEW m, NEW s, NEW t
    PROVE  RequeuedGroups(m, GroupsOf(1, s) \o GroupsOf(2, t)) =
               RequeuedGroups(RequeuedGroups(m, GroupsOf(1, s)), GroupsOf(2, t))
<1> DEFINE g == GroupOf(1, s)
           h == GroupOf(2, t)
           T == {g, h}
           a == GroupsOf(1, s)
           b == GroupsOf(2, t)
<1>1. a = (IF s = <<>> THEN <<>> ELSE <<g>>) /\ b = (IF t = <<>> THEN <<>> ELSE <<h>>)
  BY DEF GroupsOf
<1> HIDE DEF g, h, a, b
<1>2. <<>> \in Seq(T) /\ <<g>> \in Seq(T) /\ <<h>> \in Seq(T) /\ Len(<<g>>) = 1 /\ Len(<<h>>) = 1
  OBVIOUS
<1> HIDE DEF T
<1>3. a \in Seq(T) /\ b \in Seq(T) /\ (a = <<>> \/ Len(a) = 1) /\ (b = <<>> \/ Len(b) = 1)
  BY <1>1, <1>2
<1> QED BY <1>3, GroupsThenGroups DEF a, b

\* What is recorded of the drained inputs puts all of them back.
LEMMA AllBack ==
    ASSUME NEW m \in MatchType, QueuesInTurn(m)
    PROVE  RequeuedGroups(Undrained(m), Grouped(Drained(m))) = m
<1> DEFINE u == Undrained(m)
           q1 == m.queue[1]
           q2 == m.queue[2]
           a == With(u, 1, q1)
           b == With(a, 2, q2)
<1>1. /\ u \in MatchType /\ u.frame = m.frame /\ u.end = m.end /\ u.ok = m.ok
      /\ u.history = m.history /\ \A p \in Players : u.queue[p] = BeforeInputs(m.queue[p])
  BY UndrainedFields
<1>2. /\ 1 \in Players /\ 2 \in Players /\ 1 # 2
      /\ \A p \in Players : p = 1 \/ p = 2
  BY DEF Players
<1>3. q1 \in QueueType /\ q2 \in QueueType /\ QueueInTurn(1, q1) /\ QueueInTurn(2, q2)
  BY <1>2 DEF MatchType, QueuesInTurn
<1>4. Grouped(Drained(m)) = GroupsOf(1, q1.scheduled) \o GroupsOf(2, q2.scheduled)
  BY GroupedDrained
<1>5. u.queue[1] = BeforeInputs(q1) /\ u.queue[2] = BeforeInputs(q2)
  BY <1>1, <1>2
<1>6. \A p \in Players : m.queue[p] = IF p = 1 THEN q1 ELSE q2
  BY <1>2
<1> HIDE DEF u, q1, q2, a, b
<1>7. RequeuedGroups(u, GroupsOf(1, q1.scheduled)) = a
  BY <1>1, <1>2, <1>3, <1>5, GroupsOfBack DEF a
<1>8. /\ a \in MatchType /\ a.frame = u.frame /\ a.end = u.end /\ a.ok = u.ok
      /\ a.history = u.history
      /\ \A r \in Players : a.queue[r] = IF r = 1 THEN q1 ELSE u.queue[r]
  BY <1>1, <1>2, <1>3, WithFields DEF a
<1>9. a.queue[2] = BeforeInputs(q2)
  BY <1>2, <1>5, <1>8
<1>10. RequeuedGroups(a, GroupsOf(2, q2.scheduled)) = b
  BY <1>2, <1>3, <1>8, <1>9, GroupsOfBack DEF b
<1>11. /\ b \in MatchType /\ b.frame = a.frame /\ b.end = a.end /\ b.ok = a.ok
       /\ b.history = a.history
       /\ \A r \in Players : b.queue[r] = IF r = 2 THEN q2 ELSE a.queue[r]
  BY <1>2, <1>3, <1>8, WithFields DEF b
<1>12. \A r \in Players : b.queue[r] = m.queue[r]
  BY <1>2, <1>6, <1>8, <1>11
<1>13. b = m
  BY <1>1, <1>8, <1>11, <1>12, SameMatch
<1> QED BY <1>4, <1>7, <1>10, <1>13, GroupsAfterGroups DEF u

-----------------------------------------------------------------------------
(* What a step does to the queues and to the match without its inputs *)

\* Two matches differ at most in their queues.
SameButQueues(a, b) == a.frame = b.frame /\ a.end = b.end /\ a.ok = b.ok /\ a.history = b.history

\* An input in turn leaves its queue in turn, and what it was before its inputs.
LEMMA EnqueuedInTurn ==
    ASSUME NEW p \in Players, NEW q \in QueueType, QueueInTurn(p, q), NEW x \in InputType,
           x.player = p, x.epoch = q.epoch, x.sequence = q.next
    PROVE  LET longer == [epoch |-> q.epoch, next |-> q.next + 1, scheduled |-> Append(q.scheduled, x)]
           IN  QueueInTurn(p, longer) /\ BeforeInputs(longer) = BeforeInputs(q)
<1> DEFINE s == q.scheduled
           t == Append(s, x)
           longer == [epoch |-> q.epoch, next |-> q.next + 1, scheduled |-> t]
<1>1. s \in Seq(InputType) /\ Len(s) \in Nat /\ q.next \in Nat
  BY DEF QueueType
<1>2. /\ Len(t) = Len(s) + 1 /\ t[Len(s) + 1] = x
      /\ \A i \in 1..Len(s) : t[i] = s[i]
  BY <1>1
<1>3. /\ longer.epoch = q.epoch /\ longer.next = q.next + 1 /\ longer.scheduled = t
  OBVIOUS
<1>4. longer.next - Len(longer.scheduled) = q.next - Len(s)
  BY <1>1, <1>2, <1>3
<1>5. \A i \in 1..Len(s) : /\ s[i].player = p /\ s[i].epoch = q.epoch
                           /\ s[i].sequence = (q.next - Len(s)) + (i - 1)
  BY DEF QueueInTurn
<1>6. BeforeInputs(longer) = BeforeInputs(q)
  <2> HIDE DEF longer, s
  <2> QED BY <1>3, <1>4 DEF BeforeInputs, s
<1> HIDE DEF longer, t, s
<1>7. ASSUME NEW i \in 1..Len(t)
      PROVE  /\ t[i].player = p /\ t[i].epoch = q.epoch
             /\ t[i].sequence = (q.next - Len(s)) + (i - 1)
  <2>1. CASE i = Len(s) + 1
    <3>1. (q.next - Len(s)) + (i - 1) = q.next
      BY <1>1, <2>1
    <3>2. t[i] = x
      BY <1>2, <2>1
    <3> QED BY <3>1, <3>2
  <2>2. CASE i # Len(s) + 1
    <3>1. i \in 1..Len(s)
      BY <1>1, <1>2, <2>2
    <3>2. t[i] = s[i]
      BY <1>2, <3>1
    <3> QED BY <1>5, <3>1, <3>2
  <2> QED BY <2>1, <2>2
<1>8. QueueInTurn(p, longer)
  BY <1>3, <1>4, <1>7 DEF QueueInTurn
<1> QED BY <1>6, <1>8 DEF longer, t, s

\* An input in turn leaves the match what it is without its inputs.
LEMMA EnqueuedAgrees ==
    ASSUME NEW m \in MatchType, QueuesInTurn(m), NEW x \in InputType,
           x.epoch = m.queue[x.player].epoch, x.sequence = m.queue[x.player].next
    PROVE  /\ QueuesInTurn(Enqueued(m, x)) /\ Undrained(Enqueued(m, x)) = Undrained(m)
           /\ SameButQueues(Enqueued(m, x), m)
<1> DEFINE a == Enqueued(m, x)
<1>1. /\ a \in MatchType /\ SameButQueues(a, m)
      /\ \A r \in Players :
             a.queue[r] = IF r = x.player
                          THEN [epoch |-> m.queue[r].epoch, next |-> m.queue[r].next + 1,
                                scheduled |-> Append(m.queue[r].scheduled, x)]
                          ELSE m.queue[r]
  BY EnqueuedFields DEF SameButQueues
<1> HIDE DEF a
<1>2. ASSUME NEW r \in Players
      PROVE  QueueInTurn(r, a.queue[r]) /\ BeforeInputs(a.queue[r]) = BeforeInputs(m.queue[r])
  <2>1. m.queue[r] \in QueueType /\ QueueInTurn(r, m.queue[r])
    BY DEF MatchType, QueuesInTurn
  <2>2. CASE r = x.player
    <3> DEFINE q == m.queue[r]
    <3>1. a.queue[r] = [epoch |-> q.epoch, next |-> q.next + 1, scheduled |-> Append(q.scheduled, x)]
      BY <1>1, <2>2
    <3>2. q \in QueueType /\ QueueInTurn(r, q) /\ x.player = r /\ x.epoch = q.epoch /\ x.sequence = q.next
      BY <2>1, <2>2
    <3> HIDE DEF q
    <3>3. /\ QueueInTurn(r, [epoch |-> q.epoch, next |-> q.next + 1, scheduled |-> Append(q.scheduled, x)])
          /\ BeforeInputs([epoch |-> q.epoch, next |-> q.next + 1, scheduled |-> Append(q.scheduled, x)])
                 = BeforeInputs(q)
      BY <3>2, EnqueuedInTurn
    <3> QED BY <3>1, <3>3 DEF q
  <2>3. CASE r # x.player
    BY <1>1, <2>1, <2>3
  <2> QED BY <2>2, <2>3
<1>3. QueuesInTurn(a)
  BY <1>2 DEF QueuesInTurn
<1>4. Undrained(a) = Undrained(m)
  <2> DEFINE b == Undrained(a)
             c == Undrained(m)
  <2>1. /\ b \in MatchType /\ b.frame = a.frame /\ b.end = a.end /\ b.ok = a.ok
        /\ b.history = a.history
        /\ \A r \in Players : b.queue[r] = BeforeInputs(a.queue[r])
    BY <1>1, <1>3, UndrainedFields
  <2>2. /\ c \in MatchType /\ c.frame = m.frame /\ c.end = m.end /\ c.ok = m.ok
        /\ c.history = m.history
        /\ \A r \in Players : c.queue[r] = BeforeInputs(m.queue[r])
    BY UndrainedFields
  <2> HIDE DEF b, c
  <2>3. \A r \in Players : b.queue[r] = c.queue[r]
    BY <1>2, <2>1, <2>2
  <2>4. b = c
    BY <1>1, <2>1, <2>2, <2>3, SameMatch DEF SameButQueues
  <2> QED BY <2>4 DEF b, c
<1> QED BY <1>1, <1>3, <1>4 DEF a

-----------------------------------------------------------------------------
(* The log says what the match was given *)

\* Playing the log leads to the match as it was before the inputs of its queues came.
Recorded(l, m) ==
    /\ IsArray(l) /\ ReplayedAll(l) \in MatchType /\ ReplayedAll(l).frame <= m.frame
    /\ AdvancedTo(ReplayedAll(l), m.frame) = Undrained(m)

\* Playing the log up to the end leads to the match as it was when it ended.
PlayedBack(l, end) ==
    LET played == AdvancedTo(ReplayedAll(l), end.frame)
    IN  IF played.end = NoEnd THEN ForcedAsRecorded(played, end) ELSE played

Told(l, r) ==
    IF r.end.reason = "draw"
    THEN TooMany(BeforeLast(l)) /\ Drawn(Broken(BeforeLast(l))) = r
    ELSE /\ Verified(PlayedBack(l, EndOf(r)), EndOf(r))
         /\ PlayedBack(l, EndOf(r)).history = r.history

\* Nothing is left in the queues of a match that has just taken a frame.
NothingQueued(m) == \A p \in Players : m.queue[p].scheduled = <<>>

\* Without inputs a match is what it is without its inputs.
LEMMA EmptyQueues ==
    ASSUME NEW m \in MatchType, NothingQueued(m)
    PROVE  QueuesInTurn(m) /\ Undrained(m) = m
<1>1. ASSUME NEW p \in Players
      PROVE  QueueInTurn(p, m.queue[p]) /\ BeforeInputs(m.queue[p]) = m.queue[p]
  <2> DEFINE q == m.queue[p]
  <2>1. q \in QueueType /\ q.scheduled = <<>>
    BY DEF MatchType, NothingQueued
  <2> HIDE DEF q
  <2>2. Len(q.scheduled) = 0 /\ q.next - 0 = q.next
    BY <2>1 DEF QueueType
  <2>3. QueueInTurn(p, q)
    BY <2>2 DEF QueueInTurn
  <2>4. q = [epoch |-> q.epoch, next |-> q.next, scheduled |-> <<>>]
    BY <2>1 DEF QueueType
  <2>5. BeforeInputs(q) = q
    BY <2>1, <2>2, <2>4 DEF BeforeInputs
  <2> QED BY <2>3, <2>5 DEF q
<1>2. QueuesInTurn(m)
  BY <1>1 DEF QueuesInTurn
<1>3. /\ Undrained(m) \in MatchType
      /\ Undrained(m).frame = m.frame /\ Undrained(m).end = m.end
      /\ Undrained(m).ok = m.ok /\ Undrained(m).history = m.history
      /\ \A p \in Players : Undrained(m).queue[p] = BeforeInputs(m.queue[p])
  BY <1>2, UndrainedFields
<1>4. \A p \in Players : Undrained(m).queue[p] = m.queue[p]
  BY <1>1, <1>3
<1> QED BY <1>2, <1>3, <1>4, SameMatch

\* A frame leaves nothing in the queues.
LEMMA AdvancedQueues ==
    ASSUME NEW m \in MatchType, m.end = NoEnd
    PROVE  /\ Advanced(m) \in MatchType /\ NothingQueued(Advanced(m))
           /\ Advanced(m).frame = m.frame + 1 /\ Advanced(m).ok = m.ok
           /\ Advanced(m).end.reason # "draw"
<1>1. /\ Advanced(m) \in MatchType
      /\ Advanced(m).frame = m.frame + 1 /\ Advanced(m).ok = m.ok
      /\ Advanced(m).queue = Emptied(m.queue)
      /\ Advanced(m).end = FrameEnd(FrameActions(m))
  BY AdvancedFields
<1>2. \A p \in Players : m.queue[p] \in QueueType
  BY DEF MatchType
<1>3. \A p \in Players : Emptied(m.queue)[p].scheduled = <<>>
  BY <1>2 DEF Emptied, QueueType
<1>4. FrameEnd(FrameActions(m)).reason # "draw"
  BY FrameEndType
<1> QED BY <1>1, <1>3, <1>4 DEF NothingQueued

\* Nor does one that throws.
LEMMA ThrownQueues ==
    ASSUME NEW m \in MatchType
    PROVE  /\ Drawn(Broken(m)) \in MatchType /\ NothingQueued(Drawn(Broken(m)))
           /\ Drawn(Broken(m)).frame = m.frame + 1 /\ Drawn(Broken(m)).ok = m.ok
           /\ Drawn(Broken(m)).end # NoEnd /\ Drawn(Broken(m)).end.reason = "draw"
<1>1. /\ Broken(m) \in MatchType /\ Broken(m).frame = m.frame + 1 /\ Broken(m).ok = m.ok
      /\ Broken(m).queue = Emptied(m.queue)
  BY BrokenFields
<1>2. \A p \in Players : m.queue[p] \in QueueType
  BY DEF MatchType
<1>3. \A p \in Players : Emptied(m.queue)[p].scheduled = <<>>
  BY <1>2 DEF Emptied, QueueType
<1> QED BY <1>1, <1>3, DrawnType DEF NothingQueued

\* Without inputs a frame does not throw.
LEMMA NothingThrown ==
    ASSUME NEW m \in MatchType, NothingQueued(m) PROVE ~TooMany(m)
<1>1. Flat(<<>>) = <<>>
  <2>1. <<>> \in Seq(Seq(Action)) /\ Len(<<>>) = 0
    OBVIOUS
  <2> QED BY <2>1, FlatParts
<1>2. [i \in DOMAIN <<>> |-> <<>>[i].actions] = <<>>
  OBVIOUS
<1>3. Len(ActionsOf(<<>>)) = 0
  BY <1>1, <1>2 DEF ActionsOf
<1>4. MaxActions \in Nat
  BY ReplayAssumption
<1> QED BY <1>3, <1>4 DEF TooMany, NothingQueued

\* Nothing is drained of queues that are empty, and of no others.
LEMMA NothingDrained ==
    ASSUME NEW m \in MatchType, Drained(m) = <<>> PROVE NothingQueued(m)
<1> DEFINE s == m.queue[1].scheduled
           t == m.queue[2].scheduled
<1>1. s \in Seq(InputType) /\ t \in Seq(InputType)
  BY DEF MatchType, QueueType, Players
<1>2. s \o t = <<>>
  BY DEF Drained
<1> HIDE DEF s, t
<1>3. Len(s) + Len(t) = 0
  <2>1. Concatenates(s \o t, s, t)
    BY <1>1, ConcatJoins
  <2>2. Len(s \o t) = 0
    BY <1>2
  <2> QED BY <2>1, <2>2 DEF Concatenates
<1>4. s = <<>> /\ t = <<>>
  BY <1>1, <1>3
<1>5. \A p \in Players : p = 1 \/ p = 2
  BY DEF Players
<1> QED BY <1>4, <1>5 DEF NothingQueued, s, t

\* A match that the log leads to is recorded by it.
LEMMA CaughtUp ==
    ASSUME NEW l, IsArray(l), NEW m \in MatchType, ReplayedAll(l) = m, Undrained(m) = m
    PROVE  Recorded(l, m)
<1>1. m.frame \in Nat
  BY DEF MatchType
<1>2. AdvancedTo(m, m.frame) = m
  BY <1>1, AlreadyThere
<1> QED BY <1>1, <1>2 DEF Recorded

\* The log tells of an end that the inputs bring about.
LEMMA PlayedToTheEnd ==
    ASSUME NEW l, NEW m, m.ok = TRUE, m.end # NoEnd, m.end.reason # "draw",
           AdvancedTo(ReplayedAll(l), m.frame) = m
    PROVE  Told(l, m)
<1>1. EndOf(m).frame = m.frame
  BY DEF EndOf
<1>2. PlayedBack(l, EndOf(m)) = m
  BY <1>1 DEF PlayedBack
<1>3. Verified(m, EndOf(m))
  BY DEF Verified
<1> QED BY <1>2, <1>3 DEF Told

\* And of one that the match is forced to.
LEMMA ForcedToTheEnd ==
    ASSUME NEW l, NEW m \in MatchType, m.ok = TRUE, m.end = NoEnd, QueuesInTurn(m),
           Recorded(l, m), NEW loser \in Players, NEW r, r = Forced(m, loser, "forfeit")
    PROVE  Told(l, r)
<1> DEFINE u == Undrained(m)
           end == EndOf(r)
<1>1. /\ u \in MatchType /\ u.frame = m.frame /\ u.end = NoEnd /\ u.ok = TRUE
      /\ u.history = m.history
  BY UndrainedFields
<1>2. AdvancedTo(ReplayedAll(l), m.frame) = u
  BY DEF Recorded
<1>3. end = [kind |-> "end", frame |-> r.frame, winner |-> r.end.winner, reason |-> r.end.reason,
             hash |-> r.history]
  BY DEF EndOf
<1> HIDE DEF u, end
<1>4. /\ r.frame = m.frame /\ r.history = m.history
      /\ r.end = [reason |-> "forfeit", winner |-> 3 - loser]
  BY DEF Forced, MatchType
<1>5. PlayedBack(l, end) = ForcedAsRecorded(u, end)
  BY <1>1, <1>2, <1>3, <1>4 DEF PlayedBack
<1>6. /\ ForcedAsRecorded(u, end).frame = m.frame /\ ForcedAsRecorded(u, end).ok = TRUE
      /\ ForcedAsRecorded(u, end).history = m.history
      /\ ForcedAsRecorded(u, end).end = r.end
  <2>1. end.reason = "forfeit" /\ end.winner = 3 - loser
    BY <1>3, <1>4
  <2>2. ForcedAsRecorded(u, end) = Forced(u, 3 - end.winner, "forfeit")
    BY <2>1 DEF ForcedAsRecorded
  <2>3. 3 - (3 - end.winner) = end.winner
    <3>1. loser \in Int
      BY DEF Players
    <3>2. 3 - (3 - (3 - loser)) = 3 - loser
      BY <3>1
    <3> QED BY <2>1, <3>2
  <2>4. Forced(u, 3 - end.winner, "forfeit") = [u EXCEPT !.end = [reason |-> "forfeit", winner |-> 3 - loser]]
    BY <2>1, <2>3 DEF Forced
  <2> QED BY <1>1, <1>4, <2>2, <2>4 DEF MatchType
<1>7. EndOf(ForcedAsRecorded(u, end)) = end
  BY <1>3, <1>4, <1>6 DEF EndOf
<1> QED BY <1>4, <1>5, <1>6, <1>7 DEF Told, Verified, end

\* The frame that takes the inputs is played like it was.
LEMMA FrameReplayed ==
    ASSUME NEW l, NEW m \in MatchType, m.end = NoEnd, ~TooMany(m), QueuesInTurn(m),
           Recorded(l, m)
    PROVE  ReplayedAll(Append(l, AppliedFrame(m.frame + 1, Drained(m)))) = Advanced(m)
<1> DEFINE x == AppliedFrame(m.frame + 1, Drained(m))
<1>1. x.type = "appliedInputs" /\ x.frame = m.frame + 1 /\ x.players = Grouped(Drained(m))
  BY DEF AppliedFrame
<1>2. m.frame \in Nat /\ (m.frame + 1) - 1 = m.frame
  BY DEF MatchType
<1>3. IsArray(l) /\ AdvancedTo(ReplayedAll(l), m.frame) = Undrained(m)
  BY DEF Recorded
<1> HIDE DEF x
<1>4. ReplayedAll(Append(l, x)) = Replayed(ReplayedAll(l), x)
  BY <1>3, OneMoreReplayed
<1>5. x.frame - 1 = m.frame
  BY <1>1, <1>2
<1>6. Replayed(ReplayedAll(l), x) = Played(RequeuedGroups(Undrained(m), Grouped(Drained(m))))
  BY <1>1, <1>3, <1>5 DEF Replayed
<1>7. RequeuedGroups(Undrained(m), Grouped(Drained(m))) = m
  BY AllBack
<1>8. Played(m) = Advanced(m)
  BY DEF Played
<1> QED BY <1>4, <1>6, <1>7, <1>8 DEF x

\* A frame that takes no inputs needs no record.
LEMMA FrameAdvanced ==
    ASSUME NEW l, NEW m \in MatchType, m.end = NoEnd, Recorded(l, m), Drained(m) = <<>>
    PROVE  AdvancedTo(ReplayedAll(l), m.frame + 1) = Advanced(m)
<1>1. NothingQueued(m) /\ ~TooMany(m)
  BY NothingDrained, NothingThrown
<1>2. Undrained(m) = m
  BY <1>1, EmptyQueues
<1>3. /\ ReplayedAll(l) \in MatchType /\ ReplayedAll(l).frame <= m.frame
      /\ AdvancedTo(ReplayedAll(l), m.frame) = m
  BY <1>2 DEF Recorded
<1>4. ReplayedAll(l).frame \in Nat /\ m.frame \in Nat
  BY <1>3 DEF MatchType
<1>5. AdvancedTo(ReplayedAll(l), m.frame + 1) = OneFrame(AdvancedTo(ReplayedAll(l), m.frame))
  BY <1>3, <1>4, OneFrameMore
<1> QED BY <1>1, <1>3, <1>5 DEF OneFrame, Played

\* One more frame, with its record or without one.
LEMMA FrameTold ==
    ASSUME NEW l, NEW m \in MatchType, m.end = NoEnd, m.ok = TRUE, ~TooMany(m),
           QueuesInTurn(m), Recorded(l, m), NEW longer,
           longer = IF Drained(m) = <<>> THEN l
                    ELSE Append(l, AppliedFrame(m.frame + 1, Drained(m)))
    PROVE  /\ Advanced(m).end = NoEnd => Recorded(longer, Advanced(m))
           /\ Advanced(m).end # NoEnd => Told(longer, Advanced(m))
<1> DEFINE a == Advanced(m)
<1>1. /\ a \in MatchType /\ NothingQueued(a) /\ a.frame = m.frame + 1 /\ a.ok = TRUE
      /\ a.end.reason # "draw"
  BY AdvancedQueues
<1>2. Undrained(a) = a
  BY <1>1, EmptyQueues
<1>3. a.frame \in Nat /\ m.frame \in Nat
  BY <1>1 DEF MatchType
<1>4. IsArray(longer) /\ AdvancedTo(ReplayedAll(longer), a.frame) = a
      /\ ReplayedAll(longer) \in MatchType /\ ReplayedAll(longer).frame <= a.frame
  <2>1. CASE Drained(m) = <<>>
    <3>1. AdvancedTo(ReplayedAll(l), m.frame + 1) = a
      BY <2>1, FrameAdvanced
    <3>2. IsArray(l) /\ ReplayedAll(l) \in MatchType /\ ReplayedAll(l).frame <= m.frame
      BY DEF Recorded
    <3>3. ReplayedAll(l).frame <= m.frame + 1
      BY <1>3, <3>2 DEF MatchType
    <3> QED BY <1>1, <2>1, <3>1, <3>2, <3>3
  <2>2. CASE Drained(m) # <<>>
    <3> DEFINE x == AppliedFrame(m.frame + 1, Drained(m))
    <3>1. ReplayedAll(Append(l, x)) = a
      BY FrameReplayed
    <3> HIDE DEF x
    <3>2. IsArray(Append(l, x))
      BY ArrayGrows DEF Recorded
    <3>3. longer = Append(l, x)
      BY <2>2 DEF x
    <3>4. AdvancedTo(a, a.frame) = a
      BY <1>3, AlreadyThere
    <3> QED BY <1>1, <1>3, <3>1, <3>2, <3>3, <3>4
  <2> QED BY <2>1, <2>2
<1> HIDE DEF a
<1>5. a.end = NoEnd => Recorded(longer, a)
  BY <1>2, <1>4 DEF Recorded
<1>6. a.end # NoEnd => Told(longer, a)
  BY <1>1, <1>4, PlayedToTheEnd
<1> QED BY <1>5, <1>6 DEF a

\* A frame that throws has inputs, and its record leads to the match that threw.
LEMMA ThrownTold ==
    ASSUME NEW l, NEW m \in MatchType, TooMany(m), QueuesInTurn(m), Recorded(l, m)
    PROVE  /\ Drained(m) # <<>>
           /\ Told(Append(l, AppliedFrame(m.frame + 1, Drained(m))), Drawn(Broken(m)))
<1> DEFINE x == AppliedFrame(m.frame + 1, Drained(m))
           longer == Append(l, x)
<1>1. Drained(m) # <<>>
  BY NothingDrained, NothingThrown
<1>2. x.frame = m.frame + 1 /\ x.players = Grouped(Drained(m))
  BY DEF AppliedFrame
<1>3. m.frame \in Nat /\ (m.frame + 1) - 1 = m.frame
  BY DEF MatchType
<1>4. IsArray(l) /\ AdvancedTo(ReplayedAll(l), m.frame) = Undrained(m)
  BY DEF Recorded
<1> HIDE DEF x
<1>5. /\ Len(longer) = Len(l) + 1 /\ Len(l) \in Nat /\ longer[Len(longer)] = x
      /\ SubSeq(longer, 1, Len(longer) - 1) = l
  <2>1. l \in Seq(Range(l) \cup {x})
    <3>1. l \in Seq(Range(l))
      BY <1>4 DEF IsArray
    <3> QED BY <3>1
  <2> QED BY <2>1
<1> HIDE DEF longer
<1>6. BeforeLast(longer) = RequeuedGroups(Undrained(m), Grouped(Drained(m)))
  BY <1>2, <1>3, <1>4, <1>5 DEF BeforeLast
<1>7. BeforeLast(longer) = m
  BY <1>6, AllBack
<1>8. Drawn(Broken(m)).end.reason = "draw"
  BY ThrownQueues
<1>9. Told(longer, Drawn(Broken(m)))
  BY <1>7, <1>8 DEF Told
<1> QED BY <1>1, <1>9 DEF x, longer

\* A held input is cleared, and an input is reset, in the queues and without them alike.
LEMMA ControlledMatch ==
    ASSUME NEW m \in MatchType, QueuesInTurn(m), NEW p \in Players
    PROVE  /\ QueuesInTurn(Cleared(m, p)) /\ QueuesInTurn(WasReset(m, p))
           /\ Cleared(m, p) \in MatchType /\ WasReset(m, p) \in MatchType
           /\ Cleared(m, p).frame = m.frame /\ WasReset(m, p).frame = m.frame
           /\ Cleared(m, p).end = m.end /\ WasReset(m, p).end = m.end
           /\ Cleared(m, p).ok = m.ok /\ WasReset(m, p).ok = m.ok
           /\ Cleared(m, p).history = WasReset(m, p).history
           /\ Cleared(m, p).history =
                  Append(m.history, [kind |-> "clear", player |-> p, actions |-> <<>>])
           /\ Cleared(m, p).queue = m.queue
           /\ \A r \in Players : WasReset(m, p).queue[r] =
                  IF r = p THEN FreshQueue(m.queue[p].epoch + 1) ELSE m.queue[r]
<1> DEFINE event == [kind |-> "clear", player |-> p, actions |-> <<>>]
           a == Cleared(m, p)
           b == WasReset(m, p)
           fresh == FreshQueue(m.queue[p].epoch + 1)
           queue == [m.queue EXCEPT ![p] = fresh]
<1>1. a \in MatchType /\ a.end = m.end /\ a.frame = m.frame
      /\ a = [m EXCEPT !.history = Append(m.history, event)]
  BY ClearedFields
<1>2. a.ok = m.ok /\ a.queue = m.queue /\ a.history = Append(m.history, event)
  BY <1>1 DEF MatchType
<1>3. b \in MatchType /\ b.end = m.end /\ b.frame = m.frame
      /\ b = [a EXCEPT !.queue[p] = fresh]
  BY WasResetFields
<1>4. fresh \in QueueType /\ QueueInTurn(p, fresh)
  <2>1. m.queue[p].epoch + 1 \in Nat
    BY DEF MatchType, QueueType
  <2>2. <<>> \in Seq(InputType) /\ Len(<<>>) = 0
    OBVIOUS
  <2> QED BY <2>1, <2>2 DEF FreshQueue, QueueType, QueueInTurn
<1> HIDE DEF event, a, b, fresh
<1>5. /\ queue \in [Players -> QueueType]
      /\ \A r \in Players : queue[r] = IF r = p THEN fresh ELSE m.queue[r]
  BY <1>4 DEF MatchType
<1>6. b = [a EXCEPT !.queue = queue]
  BY <1>1, <1>2, <1>3 DEF MatchType
<1> HIDE DEF queue
<1>7. b.ok = m.ok /\ b.history = a.history /\ b.queue = queue
  BY <1>1, <1>2, <1>5, <1>6 DEF MatchType
<1>8. QueuesInTurn(a)
  BY <1>2 DEF QueuesInTurn
<1>9. QueuesInTurn(b)
  BY <1>4, <1>5, <1>7 DEF QueuesInTurn
<1> QED BY <1>1, <1>2, <1>3, <1>5, <1>7, <1>8, <1>9 DEF a, b, fresh, event

\* What a queue was before its inputs came.
LEMMA BeforeFields ==
    ASSUME NEW q
    PROVE  BeforeInputs(q).scheduled = <<>> /\ BeforeInputs(q).epoch = q.epoch
  BY DEF BeforeInputs

\* A control does to a match without its inputs what it does to the match.
LEMMA ControlledUndrained ==
    ASSUME NEW m \in MatchType, QueuesInTurn(m), NEW p \in Players
    PROVE  /\ Cleared(Undrained(m), p) = Undrained(Cleared(m, p))
           /\ WasReset(Undrained(m), p) = Undrained(WasReset(m, p))
           /\ WasReset(Undrained(m), p).queue[p].epoch = WasReset(m, p).queue[p].epoch
<1> DEFINE u == Undrained(m)
           event == [kind |-> "clear", player |-> p, actions |-> <<>>]
<1>1. /\ u \in MatchType /\ u.frame = m.frame /\ u.end = m.end /\ u.ok = m.ok
      /\ u.history = m.history
      /\ \A r \in Players : u.queue[r] = BeforeInputs(m.queue[r])
  BY UndrainedFields
<1> HIDE DEF u
<1>2. NothingQueued(u)
  BY <1>1, BeforeFields DEF NothingQueued
<1>3. QueuesInTurn(u)
  BY <1>1, <1>2, EmptyQueues
<1> HIDE DEF event
<1>4. /\ Cleared(u, p) \in MatchType /\ WasReset(u, p) \in MatchType
      /\ SameButQueues(Cleared(u, p), Cleared(m, p))
      /\ SameButQueues(WasReset(u, p), WasReset(m, p))
      /\ Cleared(u, p).queue = u.queue
      /\ \A r \in Players : WasReset(u, p).queue[r] =
             IF r = p THEN FreshQueue(u.queue[p].epoch + 1) ELSE u.queue[r]
  <2>1. /\ Cleared(u, p) \in MatchType /\ WasReset(u, p) \in MatchType
        /\ Cleared(u, p).frame = u.frame /\ WasReset(u, p).frame = u.frame
        /\ Cleared(u, p).end = u.end /\ WasReset(u, p).end = u.end
        /\ Cleared(u, p).ok = u.ok /\ WasReset(u, p).ok = u.ok
        /\ Cleared(u, p).history = WasReset(u, p).history
        /\ Cleared(u, p).history =
               Append(u.history, [kind |-> "clear", player |-> p, actions |-> <<>>])
        /\ Cleared(u, p).queue = u.queue
        /\ \A r \in Players : WasReset(u, p).queue[r] =
               IF r = p THEN FreshQueue(u.queue[p].epoch + 1) ELSE u.queue[r]
    BY <1>1, <1>3, ControlledMatch
  <2>2. /\ Cleared(m, p).frame = m.frame /\ WasReset(m, p).frame = m.frame
        /\ Cleared(m, p).end = m.end /\ WasReset(m, p).end = m.end
        /\ Cleared(m, p).ok = m.ok /\ WasReset(m, p).ok = m.ok
        /\ Cleared(m, p).history = WasReset(m, p).history
        /\ Cleared(m, p).history =
               Append(m.history, [kind |-> "clear", player |-> p, actions |-> <<>>])
    BY ControlledMatch
  <2>3. SameButQueues(Cleared(u, p), Cleared(m, p)) /\ SameButQueues(WasReset(u, p), WasReset(m, p))
    BY <1>1, <2>1, <2>2 DEF SameButQueues
  <2> QED BY <2>1, <2>3
<1>5. /\ Cleared(m, p) \in MatchType /\ WasReset(m, p) \in MatchType
      /\ QueuesInTurn(Cleared(m, p)) /\ QueuesInTurn(WasReset(m, p))
      /\ Cleared(m, p).queue = m.queue
      /\ \A r \in Players : WasReset(m, p).queue[r] =
             IF r = p THEN FreshQueue(m.queue[p].epoch + 1) ELSE m.queue[r]
  BY ControlledMatch
<1>6. /\ Undrained(Cleared(m, p)) \in MatchType
      /\ SameButQueues(Undrained(Cleared(m, p)), Cleared(m, p))
      /\ \A r \in Players : Undrained(Cleared(m, p)).queue[r] = BeforeInputs(Cleared(m, p).queue[r])
  BY <1>5, UndrainedFields DEF SameButQueues
<1>7. /\ Undrained(WasReset(m, p)) \in MatchType
      /\ SameButQueues(Undrained(WasReset(m, p)), WasReset(m, p))
      /\ \A r \in Players : Undrained(WasReset(m, p)).queue[r] = BeforeInputs(WasReset(m, p).queue[r])
  BY <1>5, UndrainedFields DEF SameButQueues
<1>8. u.queue[p].epoch = m.queue[p].epoch
  BY <1>1, BeforeFields
<1>9. \A r \in Players : Cleared(u, p).queue[r] = Undrained(Cleared(m, p)).queue[r]
  BY <1>1, <1>4, <1>5, <1>6
<1>10. \A r \in Players : WasReset(u, p).queue[r] = Undrained(WasReset(m, p)).queue[r]
  <2> DEFINE fresh == FreshQueue(m.queue[p].epoch + 1)
  <2>1. BeforeInputs(fresh) = fresh
    <3>1. Len(<<>>) = 0
      OBVIOUS
    <3> QED BY <3>1 DEF BeforeInputs, FreshQueue
  <2> HIDE DEF fresh
  <2>2. \A r \in Players : WasReset(u, p).queue[r] =
            IF r = p THEN fresh ELSE BeforeInputs(m.queue[r])
    BY <1>1, <1>4, <1>8 DEF fresh
  <2>3. \A r \in Players : Undrained(WasReset(m, p)).queue[r] =
            IF r = p THEN BeforeInputs(fresh) ELSE BeforeInputs(m.queue[r])
    BY <1>5, <1>7 DEF fresh
  <2> QED BY <2>1, <2>2, <2>3
<1>11. Cleared(u, p) = Undrained(Cleared(m, p))
  BY <1>4, <1>6, <1>9, SameMatch DEF SameButQueues
<1>12. WasReset(u, p) = Undrained(WasReset(m, p))
  BY <1>4, <1>7, <1>10, SameMatch DEF SameButQueues
<1>13. WasReset(u, p).queue[p].epoch = WasReset(m, p).queue[p].epoch
  BY <1>4, <1>5, <1>8
<1> QED BY <1>11, <1>12, <1>13 DEF u

\* A log that leads to where the match is, up to the inputs in its queues.
LEMMA LedTo ==
    ASSUME NEW l, IsArray(l), NEW m \in MatchType, QueuesInTurn(m), ReplayedAll(l) = Undrained(m)
    PROVE  Recorded(l, m)
<1> DEFINE u == Undrained(m)
<1>1. u \in MatchType /\ u.frame = m.frame
  BY UndrainedFields
<1> HIDE DEF u
<1>2. u.frame \in Nat
  BY <1>1 DEF MatchType
<1>3. AdvancedTo(u, u.frame) = u
  BY <1>2, AlreadyThere
<1>4. ReplayedAll(l) = u
  BY DEF u
<1>5. ReplayedAll(l) \in MatchType /\ ReplayedAll(l).frame <= m.frame
      /\ AdvancedTo(ReplayedAll(l), m.frame) = u
  BY <1>1, <1>2, <1>3, <1>4
<1> QED BY <1>5 DEF Recorded, u

\* A control is played like it was.
LEMMA ControlTold ==
    ASSUME NEW l, NEW m \in MatchType, QueuesInTurn(m), Recorded(l, m), NEW p \in Players
    PROVE  /\ Recorded(Append(l, ControlFrame(m.frame, "clearHeld", p, 0)), Cleared(m, p))
           /\ Recorded(Append(l, ControlFrame(m.frame, "resetInput", p,
                                              WasReset(m, p).queue[p].epoch)), WasReset(m, p))
<1>1. IsArray(l) /\ AdvancedTo(ReplayedAll(l), m.frame) = Undrained(m)
  BY DEF Recorded
<1>2. /\ Cleared(m, p) \in MatchType /\ WasReset(m, p) \in MatchType
      /\ QueuesInTurn(Cleared(m, p)) /\ QueuesInTurn(WasReset(m, p))
  BY ControlledMatch
<1>3. /\ Cleared(Undrained(m), p) = Undrained(Cleared(m, p))
      /\ WasReset(Undrained(m), p) = Undrained(WasReset(m, p))
      /\ WasReset(Undrained(m), p).queue[p].epoch = WasReset(m, p).queue[p].epoch
  BY ControlledUndrained
<1>4. ASSUME NEW x, x = ControlFrame(m.frame, "clearHeld", p, 0)
      PROVE  Recorded(Append(l, x), Cleared(m, p))
  <2>1. x.type = "clearHeld" /\ x.frame = m.frame /\ x.player = p
    BY <1>4 DEF ControlFrame
  <2>2. ReplayedAll(Append(l, x)) = Replayed(ReplayedAll(l), x) /\ IsArray(Append(l, x))
    BY <1>1, OneMoreReplayed, ArrayGrows
  <2>3. Replayed(ReplayedAll(l), x) = Cleared(Undrained(m), p)
    BY <1>1, <2>1 DEF Replayed
  <2> QED BY <1>2, <1>3, <2>2, <2>3, LedTo
<1>5. ASSUME NEW x, x = ControlFrame(m.frame, "resetInput", p, WasReset(m, p).queue[p].epoch)
      PROVE  Recorded(Append(l, x), WasReset(m, p))
  <2>1. /\ x.type = "resetInput" /\ x.frame = m.frame /\ x.player = p
        /\ x.epoch = WasReset(m, p).queue[p].epoch
    BY <1>5 DEF ControlFrame
  <2>2. ReplayedAll(Append(l, x)) = Replayed(ReplayedAll(l), x) /\ IsArray(Append(l, x))
    BY <1>1, OneMoreReplayed, ArrayGrows
  <2>3. Replayed(ReplayedAll(l), x) = WasReset(Undrained(m), p)
    BY <1>1, <1>3, <2>1 DEF Replayed
  <2> QED BY <1>2, <1>3, <2>2, <2>3, LedTo
<1> QED BY <1>4, <1>5

\* The inductive invariant: until the match ends, its log leads to where it is; from then
\* on the log, which does not grow any more, tells of the end.
AgreesFor(l, m, r) ==
    /\ IsArray(l) /\ m \in MatchType /\ m.ok = TRUE /\ QueuesInTurn(m)
    /\ m.end = NoEnd => r.end = NoEnd /\ Recorded(l, m)
    /\ r.end # NoEnd => Told(l, r)

Agrees == AgreesFor(log, match, result)

Agrees1 == AgreesFor(log', match', result')

\* The invariant of the log holds when the match begins.
LEMMA AgreesInit == ASSUME ReplayInit PROVE Agrees
<1>1. NewMatch \in MatchType /\ NewMatch.end = NoEnd /\ NewMatch.ok = TRUE
  BY NewMatchType DEF NewMatch
<1>2. NothingQueued(NewMatch)
  BY DEF NothingQueued, NewMatch, FreshQueue
<1>3. QueuesInTurn(NewMatch) /\ Undrained(NewMatch) = NewMatch
  BY <1>1, <1>2, EmptyQueues
<1>4. IsArray(<<>>)
  <2>1. <<>> \in Seq({})
    OBVIOUS
  <2> QED BY <2>1, ArrayType
<1>5. Recorded(<<>>, NewMatch)
  BY <1>1, <1>3, <1>4, NothingReplayed, CaughtUp
<1>6. match = NewMatch /\ result = NewMatch /\ log = <<>>
  BY DEF ReplayInit
<1> QED BY <1>1, <1>3, <1>4, <1>5, <1>6 DEF Agrees, AgreesFor

\* The log with what a hook hands on, if it hands on anything.
Longer(l, records) == IF records = <<>> THEN l ELSE Append(l, records[1])

\* A hook of a match that had not ended.
LEMMA HookTells ==
    ASSUME NEW records, Hooked(records), records = <<>> \/ \E x : records = <<x>>,
           match.end = NoEnd, IsArray(log), result.end = NoEnd,
           match' \in MatchType, match'.ok = TRUE, QueuesInTurn(match'),
           match'.end = NoEnd => Recorded(Longer(log, records), match'),
           match'.end # NoEnd => Told(Longer(log, records), match')
    PROVE  Agrees1
<1>1. /\ log' = log \o records
      /\ result' = IF match'.end # NoEnd THEN match' ELSE result
  BY DEF Hooked
<1>2. log \o records = Longer(log, records) /\ IsArray(Longer(log, records))
  <2>1. log \in Seq(Range(log))
    BY DEF IsArray
  <2>2. CASE records = <<>>
    BY <2>1, <2>2 DEF Longer
  <2>3. CASE records # <<>>
    <3>1. PICK x : records = <<x>>
      BY <2>3
    <3>2. log \o <<x>> = Append(log, x)
      BY <2>1
    <3>3. IsArray(Append(log, x))
      BY ArrayGrows
    <3> QED BY <2>3, <3>1, <3>2, <3>3 DEF Longer
  <2> QED BY <2>2, <2>3
<1> QED BY <1>1, <1>2 DEF Agrees1, AgreesFor

\* Every step keeps the invariant of the log.
LEMMA AgreesStep == ASSUME Agrees, [ReplayNext]_replayVars PROVE Agrees1
<1>1. /\ IsArray(log) /\ match \in MatchType /\ match.ok = TRUE /\ QueuesInTurn(match)
      /\ match.end = NoEnd => result.end = NoEnd /\ Recorded(log, match)
      /\ result.end # NoEnd => Told(log, result)
  BY DEF Agrees, AgreesFor
<1>2. CASE Advance
  <2> DEFINE records == IF Drained(match) = <<>> THEN <<>>
                        ELSE <<AppliedFrame(match'.frame, Drained(match))>>
             longer == IF Drained(match) = <<>> THEN log
                       ELSE Append(log, AppliedFrame(match.frame + 1, Drained(match)))
  <2>1. /\ match.end = NoEnd /\ Hooked(records)
        /\ match' = IF TooMany(match) THEN Drawn(Broken(match)) ELSE Advanced(match)
    BY <1>2 DEF Advance, Playing
  <2>2. /\ match' \in MatchType /\ NothingQueued(match')
        /\ match'.frame = match.frame + 1 /\ match'.ok = TRUE
    BY <1>1, <2>1, AdvancedQueues, ThrownQueues
  <2>3. QueuesInTurn(match')
    BY <2>2, EmptyQueues
  <2>4. Longer(log, records) = longer
    BY <2>2 DEF Longer
  <2>5. records = <<>> \/ \E x : records = <<x>>
    OBVIOUS
  <2>6. /\ match'.end = NoEnd => Recorded(longer, match')
        /\ match'.end # NoEnd => Told(longer, match')
    <3>1. CASE TooMany(match)
      <4>1. /\ Drained(match) # <<>>
            /\ Told(Append(log, AppliedFrame(match.frame + 1, Drained(match))),
                    Drawn(Broken(match)))
        BY <1>1, <2>1, <3>1, ThrownTold
      <4>2. match' = Drawn(Broken(match)) /\ match'.end # NoEnd
        BY <1>1, <2>1, <3>1, ThrownQueues
      <4> QED BY <4>1, <4>2
    <3>2. CASE ~TooMany(match)
      BY <1>1, <2>1, <3>2, FrameTold
    <3> QED BY <3>1, <3>2
  <2> HIDE DEF records, longer
  <2> QED BY <1>1, <2>1, <2>2, <2>3, <2>4, <2>5, <2>6, HookTells
<1>3. CASE ForceEnd
  <2>1. PICK loser \in Players :
           match.end = NoEnd /\ Hooked(<<>>) /\ match' = Forced(match, loser, "forfeit")
    BY <1>3 DEF ForceEnd, Playing
  <2>2. match' \in MatchType /\ match'.end # NoEnd
    BY <1>1, <2>1, ForcedType
  <2>3. match'.ok = TRUE /\ match'.queue = match.queue
    BY <1>1, <2>1 DEF Forced, MatchType
  <2>4. QueuesInTurn(match')
    BY <1>1, <2>3 DEF QueuesInTurn
  <2>5. Told(log, match')
    BY <1>1, <2>1, ForcedToTheEnd
  <2>6. Longer(log, <<>>) = log
    BY DEF Longer
  <2> QED BY <1>1, <2>1, <2>2, <2>3, <2>4, <2>5, <2>6, HookTells
<1>4. CASE Abandon
  <2>1. /\ result' = result /\ log' = log
        /\ match' = IF match.end = NoEnd THEN [match EXCEPT !.end.reason = "closed"] ELSE match
    BY <1>4 DEF Abandon
  <2>2. CASE match.end = NoEnd
    <3>1. match' \in MatchType /\ match'.ok = TRUE /\ match'.queue = match.queue
      BY <1>1, <2>1, <2>2 DEF MatchType, EndType, Reasons
    <3>2. match'.end # NoEnd
      <4>1. match'.end.reason = "closed"
        BY <1>1, <2>1, <2>2 DEF MatchType, EndType
      <4> QED BY <4>1 DEF NoEnd
    <3>3. QueuesInTurn(match')
      BY <1>1, <3>1 DEF QueuesInTurn
    <3> QED BY <1>1, <2>1, <3>1, <3>2, <3>3 DEF Agrees1, AgreesFor
  <2>3. CASE match.end # NoEnd
    BY <1>1, <2>1, <2>3 DEF Agrees1, AgreesFor
  <2> QED BY <2>2, <2>3
<1>5. CASE match' = match /\ log' = log /\ result' = result
  BY <1>1, <1>5 DEF Agrees1, AgreesFor
<1>6. CASE DiskStep
  <2>1. match' = match /\ log' = log /\ result' = result
    BY <1>6 DEF DiskStep, Create, AppendRecord, Finalize, ClosePartial, Skip, Written, WriteFails,
                Synced, Closed, Renamed, LaterFails, game
  <2> QED BY <1>5, <2>1
<1>7. CASE Crash
  <2>1. match' = match /\ log' = log /\ result' = result
    BY <1>7 DEF Crash, game
  <2> QED BY <1>5, <2>1
<1>8. CASE UNCHANGED replayVars
  <2>1. match' = match /\ log' = log /\ result' = result
    BY <1>8 DEF replayVars, game
  <2> QED BY <1>5, <2>1
<1>9. ASSUME NEW p \in Players, EnqueueInput(p) PROVE Agrees1
  <2>1. PICK actions \in ActionLists :
           match' = Enqueued(match, [player |-> p, epoch |-> match.queue[p].epoch,
                                     sequence |-> match.queue[p].next, actions |-> actions])
    BY <1>9 DEF EnqueueInput
  <2>2. result' = result /\ log' = log
    BY <1>9 DEF EnqueueInput
  <2>3. match.queue[p].epoch \in Nat /\ match.queue[p].next \in Nat
    BY <1>1 DEF MatchType, QueueType
  <2> DEFINE x == [player |-> p, epoch |-> match.queue[p].epoch,
                   sequence |-> match.queue[p].next, actions |-> actions]
  <2>4. x \in InputType /\ x.player = p /\ x.epoch = match.queue[p].epoch
        /\ x.sequence = match.queue[p].next
    BY <2>3 DEF InputType
  <2> HIDE DEF x
  <2>5. match' = Enqueued(match, x)
    BY <2>1 DEF x
  <2>6. match' \in MatchType
    BY <1>1, <2>4, <2>5, EnqueuedFields
  <2>7. QueuesInTurn(match') /\ Undrained(match') = Undrained(match) /\ SameButQueues(match', match)
    <3>1. x.epoch = match.queue[x.player].epoch /\ x.sequence = match.queue[x.player].next
      BY <2>4
    <3> QED BY <1>1, <2>4, <2>5, <3>1, EnqueuedAgrees
  <2>8. match'.end = match.end /\ match'.ok = TRUE /\ match'.frame = match.frame
    BY <1>1, <2>7 DEF SameButQueues
  <2>9. match.end = NoEnd => Recorded(log, match')
    BY <1>1, <2>7, <2>8 DEF Recorded
  <2> QED BY <1>1, <2>2, <2>6, <2>7, <2>8, <2>9 DEF Agrees1, AgreesFor
<1>10. ASSUME NEW p \in Players, Control(p) PROVE Agrees1
  <2> DEFINE one == ControlFrame(match.frame, "clearHeld", p, 0)
             two == ControlFrame(match.frame, "resetInput", p, WasReset(match, p).queue[p].epoch)
  <2>1. \/ match' = Cleared(match, p) /\ Hooked(<<one>>)
        \/ match' = WasReset(match, p) /\ Hooked(<<two>>)
    BY <1>10 DEF Control
  <2>2. PICK x : /\ Hooked(<<x>>)
                 /\ \/ x = one /\ match' = Cleared(match, p)
                    \/ x = two /\ match' = WasReset(match, p)
    BY <2>1
  <2>3. /\ match' \in MatchType /\ QueuesInTurn(match') /\ match'.ok = TRUE
        /\ match'.end = match.end
    <3>1. /\ QueuesInTurn(Cleared(match, p)) /\ QueuesInTurn(WasReset(match, p))
          /\ Cleared(match, p) \in MatchType /\ WasReset(match, p) \in MatchType
          /\ Cleared(match, p).end = match.end /\ WasReset(match, p).end = match.end
          /\ Cleared(match, p).ok = match.ok /\ WasReset(match, p).ok = match.ok
      BY <1>1, ControlledMatch
    <3> QED BY <1>1, <2>2, <3>1
  <2>4. CASE match.end = NoEnd
    <3>1. Recorded(Append(log, one), Cleared(match, p)) /\ Recorded(Append(log, two), WasReset(match, p))
      BY <1>1, <2>4, ControlTold
    <3> HIDE DEF one, two
    <3>2. Recorded(Append(log, x), match')
      BY <2>2, <3>1
    <3>3. Longer(log, <<x>>) = Append(log, x)
      BY DEF Longer
    <3>4. <<x>> = <<>> \/ \E y : <<x>> = <<y>>
      OBVIOUS
    <3> QED BY <1>1, <2>2, <2>3, <2>4, <3>2, <3>3, <3>4, HookTells
  <2>5. CASE match.end # NoEnd
    <3>1. log' = log /\ result' = result
      BY <2>2, <2>5 DEF Hooked
    <3> QED BY <1>1, <2>3, <2>5, <3>1 DEF Agrees1, AgreesFor
  <2> QED BY <2>4, <2>5
<1> QED BY <1>2, <1>3, <1>4, <1>6, <1>7, <1>8, <1>9, <1>10 DEF ReplayNext

\* Playing a final replay on a new match leads to where the original one went.
THEOREM ReconstructionsAgree == ReplaySpec => []ReconstructionAgrees
<1>1. ReplayInit => FileInv /\ MatchTyped /\ Agrees
  BY FileInit, AgreesInit
<1>2. FileInv /\ MatchTyped /\ Agrees /\ [ReplayNext]_replayVars => (FileInv /\ MatchTyped /\ Agrees)'
  <2>1. Agrees1 <=> Agrees'
    BY DEF Agrees, Agrees1
  <2> QED BY <2>1, FileStep, MatchStep, AgreesStep
<1>3. FileInv /\ Agrees => ReconstructionAgrees
  <2> DEFINE read == Read(disk.lines, "final")
  <2> SUFFICES ASSUME FileInv, Agrees, Final
               PROVE  IF read.end.reason = "draw"
                      THEN /\ TooMany(BeforeLast(read.frames))
                           /\ Drawn(Broken(BeforeLast(read.frames))) = result
                      ELSE /\ Verified(Reconstructed(read), read.end)
                           /\ Reconstructed(read).history = result.history
    BY DEF ReconstructionAgrees
  <2>1. read.frames = log /\ read.end = EndOf(result) /\ result.end # NoEnd
    BY DEF FileInv, Whole
  <2>2. Told(log, result)
    BY <2>1 DEF Agrees, AgreesFor
  <2> HIDE DEF read
  <2>3. Reconstructed(read) = PlayedBack(log, EndOf(result))
    BY <2>1 DEF Reconstructed, PlayedBack
  <2>4. read.end.reason = result.end.reason
    BY <2>1 DEF EndOf
  <2> QED BY <2>1, <2>2, <2>3, <2>4 DEF Told
<1> QED BY <1>1, <1>2, <1>3, PTL DEF ReplaySpec

==============================================================================
