-------------------------------- MODULE DgLab --------------------------------
(***************************************************************************)
(* The stimulation device a player can attach to the browser: the          *)
(* DgLabController, which turns penalties of the game into strengths that  *)
(* run out by themselves, the DgLabBluetoothTransport, which repeats the   *)
(* waveform by timers and queues its writes, and the device that they      *)
(* reach.  Any write can fail, the link can drop, and the page loses the   *)
(* focus at any time.                                                      *)
(*                                                                         *)
(* A frame is what it makes the device put out on each channel: the        *)
(* strength, or nothing where no waveform is loaded.  The cooldown only    *)
(* drops events and is left out; so is #pump, which nothing calls.         *)
(*                                                                         *)
(* A definition named X_Mutation is X with a plausible bug: nothing uses   *)
(* it, it documents which property notices that bug.                       *)
(***************************************************************************)
EXTENDS Naturals, Sequences, Arrays

CONSTANTS
    Configs,        \* the configurations: enabled, channels, maxStrength
    BaseStrength,   \* the strength before the first point
    MaxQueue,       \* maxQueueSeconds, in the units of the clock
    DefeatTime,     \* how long a defeat lasts
    MaxTime, MaxConnects, MaxArms, MaxEvents, MaxChanges, MaxWrites  \* bounds of the model

Channels == {"A", "B"}

ASSUME DeviceAssumption ==
    /\ Configs \subseteq [enabled : BOOLEAN, channels : (SUBSET Channels) \ {{}},
                           maxStrength : Nat]
    /\ {BaseStrength, MaxTime, MaxConnects, MaxArms} \subseteq Nat
    /\ {MaxEvents, MaxChanges, MaxWrites} \subseteq Nat
    /\ {MaxQueue, DefeatTime} \subseteq Nat \ {0}

VARIABLES
    now,        \* the clock of the page
    config,     \* #config
    control,    \* the rest of the controller
    transport,  \* its transport, absent when there is none
    device,     \* the device, as the last connection left it
    failed,     \* observes whether a write of this connection has failed
    used        \* how many connects, arms, events and changes there were
deviceVars == <<now, config, control, transport, device, failed, used>>

Silent == [ch \in Channels |-> 0]
NoWave == [loaded |-> FALSE, stopAt |-> 0]
Absent ==
    [present |-> FALSE, status |-> "offline", stage |-> "none", limit |-> 0, writing |-> 0,
     strength |-> Silent, wave |-> [ch \in Channels |-> NoWave], writes |-> <<>>]

DeviceInit ==
    /\ now = 0 /\ config \in Configs
    /\ control = [connection |-> "offline", armed |-> FALSE, queue |-> <<>>, decayAt |-> 0,
                  sent |-> Silent]
    /\ transport = Absent
    /\ device = [linked |-> FALSE, limit |-> 0, output |-> Silent]
    /\ failed = FALSE
    /\ used = [connects |-> 0, arms |-> 0, events |-> 0, changes |-> 0]

\* The controller and its transport, which call each other within one step.
State == [c |-> control, t |-> transport]
Assign(s) == control' = s.c /\ transport' = s.t

-----------------------------------------------------------------------------
(* The transport *)

\* #queueFrame
Frame(t) ==
    [kind |-> "frame", value |-> 0,
     output |-> [ch \in Channels |-> IF t.wave[ch].loaded THEN t.strength[ch] ELSE 0]]
SoftLimit(value) == [kind |-> "limit", value |-> value, output |-> Silent]
QueueWrite(t, write) == [t EXCEPT !.writes = Append(@, write)]
QueueFrame(t) == QueueWrite(t, Frame(t))

\* The messages of send, which are refused unless the transport is paired.
SetStrength(t, ch, strength) ==
    LET set == [t EXCEPT !.strength[ch] = strength]
    IN  IF \E any \in Channels : set.wave[any].loaded THEN QueueFrame(set) ELSE set
LoadWaveform(t, ch, duration) ==
    QueueFrame([t EXCEPT !.wave[ch] = [loaded |-> TRUE, stopAt |-> now + duration]])
Clear(t, ch) == QueueFrame([t EXCEPT !.wave[ch] = NoWave, !.strength[ch] = 0])

\* #sendStrength, #sendWaveform, #sendClear: a message to each of outputChannels.
SendStrength(t, channels, strength) ==
    LET first == IF "A" \in channels THEN SetStrength(t, "A", strength) ELSE t
    IN  IF "B" \in channels THEN SetStrength(first, "B", strength) ELSE first
SendWaveform(t, channels, duration) ==
    LET first == IF "A" \in channels THEN LoadWaveform(t, "A", duration) ELSE t
    IN  IF "B" \in channels THEN LoadWaveform(first, "B", duration) ELSE first
SendClear(t, channels) ==
    LET first == IF "A" \in channels THEN Clear(t, "A") ELSE t
        second == IF "B" \in channels THEN Clear(first, "B") ELSE first
    IN  SendStrength(second, channels, 0)

\* setSafetyLimit
SafetyLimit_NextConnection(s, limit) == [s EXCEPT !.t.limit = limit]
SafetyLimit(s, limit) ==
    LET set == [s EXCEPT !.t.limit = limit]
    IN  IF s.t.status = "paired" THEN [set EXCEPT !.t = QueueWrite(@, SoftLimit(limit))] ELSE set

-----------------------------------------------------------------------------
(* The controller *)

\* #stopOutput: the device is told if the transport still takes messages.
StopOutput_OneWay(s, channels) ==
    [s EXCEPT !.c.queue = <<>>, !.c.decayAt = 0, !.c.sent = Silent]
StopOutput(s, channels) ==
    LET told == s.t.present /\ s.t.status = "paired"
    IN  [s EXCEPT !.c.queue = <<>>, !.c.decayAt = 0, !.c.sent = Silent,
                  !.t = IF told THEN SendClear(@, channels) ELSE @]

\* The status callback of connect, which every #setStatus of the transport calls.
SetStatus(s, status) ==
    LET set == [s EXCEPT !.t.status = status, !.c.connection = status,
                         !.c.armed = @ /\ status = "paired"]
    IN  IF status \in {"offline", "error"} THEN StopOutput(set, config.channels) ELSE set

\* disarm
Disarmed(s, channels) == StopOutput([s EXCEPT !.c.armed = FALSE], channels)

\* #disposeTransport: whatever the old transport has not written is lost with it.
Disposed(s) ==
    IF s.t.present
    THEN [SetStatus([s EXCEPT !.t.wave = Absent.wave], "offline") EXCEPT !.t = Absent]
    ELSE s

\* #refreshOutput: the contributions that have not run out make the strength, and the
\* next of them to run out sets the timer.
Target(queue) ==
    LET points == Total([i \in DOMAIN queue |-> queue[i].points])
        wanted == BaseStrength + points
    IN  IF \E i \in DOMAIN queue : queue[i].forceMax THEN config.maxStrength
        ELSE IF points = 0 THEN 0
        ELSE IF wanted < config.maxStrength THEN wanted ELSE config.maxStrength
Longest(queue) ==
    LET longest[n \in 0 .. Len(queue)] ==
          IF n = 0 THEN MaxQueue
          ELSE IF queue[n].duration > longest[n - 1] THEN queue[n].duration ELSE longest[n - 1]
    IN  longest[Len(queue)]
NextExpiry(queue) ==
    LET soonest[n \in 0 .. Len(queue)] ==
          IF n = 0 THEN 0
          ELSE IF soonest[n - 1] = 0 \/ queue[n].expiresAt < soonest[n - 1]
          THEN queue[n].expiresAt ELSE soonest[n - 1]
    IN  soonest[Len(queue)]

\* The contributions that have not run out.
Contributions == [points : Nat, duration : Nat, expiresAt : Nat, forceMax : BOOLEAN]
Lasting(queue) == Keep(queue, {item \in Contributions : item.expiresAt > now})

Refreshed(s) ==
    LET queue == Lasting(s.c.queue)
        strength == Target(queue)
        active == \E ch \in config.channels : s.c.sent[ch] > 0
        waved == IF active THEN s.t ELSE SendWaveform(s.t, config.channels, Longest(queue))
    IN  [c |-> [s.c EXCEPT
                   !.queue = queue,
                   !.sent = [ch \in Channels |->
                                IF ch \in config.channels THEN strength ELSE @[ch]],
                   !.decayAt = NextExpiry(queue)],
         t |-> IF strength > 0 THEN SendStrength(waved, config.channels, strength)
               ELSE IF active THEN SendClear(s.t, config.channels) ELSE s.t]

Contribution(points, duration, forceMax) ==
    [points |-> points, duration |-> duration, expiresAt |-> now + duration, forceMax |-> forceMax]

\* #cancelQueued: points are taken from the newest contributions first; what is left of
\* the last one lasts its share of the time, counted from now.
CancelOne(state, item) ==
    IF state.left = 0 THEN [state EXCEPT !.queue = <<item>> \o @]
    ELSE IF item.points <= state.left THEN [state EXCEPT !.left = @ - item.points]
    ELSE LET points == item.points - state.left
             share == (item.duration * points) \div item.points
             kept == Contribution(points, IF share = 0 THEN 1 ELSE share, item.forceMax)
         IN  [left |-> 0, queue |-> <<kept>> \o state.queue]
Cancelled(queue, points) ==
    LET state[n \in 0 .. Len(queue)] ==
          IF n = 0 THEN [left |-> points, queue |-> <<>>]
          ELSE CancelOne(state[n - 1], queue[Len(queue) + 1 - n])
    IN  state[Len(queue)].queue

-----------------------------------------------------------------------------
(* What the player and the game do *)

\* The clock of the model goes on until every output could have ended.
TimeLeft == now + (IF DefeatTime > MaxQueue THEN DefeatTime ELSE MaxQueue) <= MaxTime
Count(what, bound) == used[what] < bound /\ used' = [used EXCEPT ![what] = @ + 1]

Connect ==
    /\ Count("connects", MaxConnects)
    /\ LET fresh == [Absent EXCEPT !.present = TRUE, !.stage = "linking",
                                   !.limit = config.maxStrength]
       IN  Assign(SetStatus([Disposed(State) EXCEPT !.t = fresh], "connecting"))
    /\ device' = [device EXCEPT !.linked = FALSE]
    /\ failed' = FALSE
    /\ UNCHANGED <<now, config>>

Disconnect ==
    /\ transport.present
    /\ Assign([Disposed(Disarmed(State, config.channels)) EXCEPT !.c.connection = "offline"])
    /\ device' = [device EXCEPT !.linked = FALSE]
    /\ UNCHANGED <<now, config, failed, used>>

\* arm: otherwise it fails, which counts as an error of the connection.
Arm ==
    /\ ~control.armed /\ Count("arms", MaxArms)
    /\ IF config.enabled /\ control.connection = "paired"
       THEN control' = [control EXCEPT !.armed = TRUE]
       ELSE control' = [control EXCEPT !.connection = "error", !.queue = <<>>, !.decayAt = 0,
                                       !.sent = Silent]
    /\ UNCHANGED <<now, config, transport, device, failed>>

\* The emergency stop, a page that is hidden or loses the focus, the end of a match.
Disarm ==
    /\ control.armed
    /\ Assign(Disarmed(State, config.channels))
    /\ UNCHANGED <<now, config, device, failed, used>>

\* updateConfig: an output is stopped on the channels it was on, before they change.
UpdateConfig ==
    /\ Count("changes", MaxChanges)
    /\ config' \in Configs \ {config}
    /\ LET stopped == IF control.armed /\ config'.channels # config.channels
                      THEN StopOutput(State, config.channels) ELSE State
           limited == IF transport.present THEN SafetyLimit(stopped, config'.maxStrength)
                      ELSE stopped
       IN  Assign(IF config'.enabled THEN limited ELSE Disarmed(limited, config'.channels))
    /\ UNCHANGED <<now, device, failed>>

\* test
Test ==
    /\ control.armed /\ transport.present
    /\ Count("events", MaxEvents) /\ TimeLeft
    /\ LET strength == IF BaseStrength > 1 THEN BaseStrength ELSE 1
           bounded == IF strength < config.maxStrength THEN strength ELSE config.maxStrength
       IN  transport' = SendStrength(SendWaveform(transport, config.channels, 1), config.channels,
                                     bounded)
    /\ UNCHANGED <<now, config, control, device, failed>>

\* handleEvent
Penalty(points) ==
    LET queued == Total([i \in DOMAIN control.queue |-> control.queue[i].duration])
        duration == IF points < MaxQueue - queued THEN points ELSE MaxQueue - queued
    IN  /\ queued < MaxQueue
        /\ Assign(Refreshed([State EXCEPT
               !.c.queue = Append(@, Contribution(points, duration, FALSE))]))
Cancellation(points) == Assign(Refreshed([State EXCEPT !.c.queue = Cancelled(@, points)]))
Defeat == Assign(Refreshed([State EXCEPT !.c.queue = <<Contribution(0, DefeatTime, TRUE)>>]))

HandleEvent ==
    /\ control.armed /\ transport.present
    /\ Count("events", MaxEvents) /\ TimeLeft
    /\ \/ \E points \in 1..2 : Penalty(points) \/ Cancellation(points)
       \/ Defeat
    /\ UNCHANGED <<now, config, device, failed>>

-----------------------------------------------------------------------------
(* Timers and the Bluetooth link *)

Tick ==
    /\ now < MaxTime
    /\ now' = now + 1
    /\ UNCHANGED <<config, control, transport, device, failed, used>>

\* The decay timer.
Decay ==
    /\ control.decayAt \in 1..now
    /\ IF control.armed /\ transport.present
       THEN Assign(Refreshed(State))
       ELSE /\ control' = [control EXCEPT !.decayAt = 0, !.queue = Lasting(@)]
            /\ UNCHANGED transport
    /\ UNCHANGED <<now, config, device, failed, used>>

\* The interval repeats a waveform every 100 ms, the other timer ends it.
Repeat(ch) ==
    /\ transport.wave[ch].loaded /\ Len(transport.writes) < MaxWrites
    /\ transport' = QueueFrame(transport)
    /\ UNCHANGED <<now, config, control, device, failed, used>>

WaveformEnds_PayloadKept(ch) ==
    /\ transport.wave[ch].loaded /\ transport.wave[ch].stopAt <= now
    /\ transport' = QueueFrame([transport EXCEPT !.wave[ch].stopAt = MaxTime + 1])
    /\ UNCHANGED <<now, config, control, device, failed, used>>
WaveformEnds(ch) ==
    /\ transport.wave[ch].loaded /\ transport.wave[ch].stopAt <= now
    /\ transport' = QueueFrame([transport EXCEPT !.wave[ch] = NoWave])
    /\ UNCHANGED <<now, config, control, device, failed, used>>

\* #connect, in the steps between its awaits: device and service, then the soft limit,
\* whose value is read before it is written.
Link ==
    /\ transport.stage = "linking"
    /\ transport' = [transport EXCEPT !.stage = "limiting", !.writing = transport.limit]
    /\ device' = [device EXCEPT !.linked = TRUE, !.output = Silent]
    /\ UNCHANGED <<now, config, control, failed, used>>

Pair ==
    /\ transport.stage = "limiting" /\ device.linked
    /\ Assign(SetStatus([State EXCEPT !.t.stage = "done"], "paired"))
    /\ device' = [device EXCEPT !.limit = transport.writing]
    /\ UNCHANGED <<now, config, failed, used>>

ConnectFails ==
    /\ transport.stage \in {"linking", "limiting"}
    /\ Assign(SetStatus([State EXCEPT !.t.stage = "failed"], "error"))
    /\ device' = [device EXCEPT !.linked = FALSE]
    /\ UNCHANGED <<now, config, failed, used>>

\* #handleDisconnected: the writes that wait find no characteristic and are dropped.
LinkLost ==
    /\ transport.stage \in {"limiting", "done"} /\ device.linked
    /\ Assign(SetStatus([State EXCEPT !.t.wave = Absent.wave, !.t.writes = <<>>], "offline"))
    /\ device' = [device EXCEPT !.linked = FALSE]
    /\ UNCHANGED <<now, config, failed, used>>

\* #queueWrite: one write after the other, whatever became of the one before.
Write ==
    /\ transport.writes # <<>> /\ device.linked
    /\ transport' = [transport EXCEPT !.writes = Tail(@)]
    /\ LET write == Head(transport.writes)
       IN  device' = IF write.kind = "limit" THEN [device EXCEPT !.limit = write.value]
                     ELSE [device EXCEPT !.output = write.output]
    /\ UNCHANGED <<now, config, control, failed, used>>

WriteFails ==
    /\ transport.writes # <<>> /\ device.linked
    /\ failed' = TRUE
    /\ Assign(SetStatus([State EXCEPT !.t.writes = Tail(@)], "error"))
    /\ UNCHANGED <<now, config, device, used>>

-----------------------------------------------------------------------------
Timers == Decay \/ \E ch \in Channels : WaveformEnds(ch)

DeviceNext ==
    \/ Connect \/ Disconnect \/ Arm \/ Disarm \/ UpdateConfig \/ Test \/ HandleEvent
    \/ Tick \/ Timers \/ \E ch \in Channels : Repeat(ch)
    \/ Link \/ Pair \/ ConnectFails \/ LinkLost \/ Write \/ WriteFails

\* Time passes, timers that are due fire, and a write that is under way comes back.
DeviceSpec ==
    /\ DeviceInit /\ [][DeviceNext]_deviceVars
    /\ WF_deviceVars(Tick) /\ WF_deviceVars(Decay)
    /\ \A ch \in Channels : WF_deviceVars(WaveformEnds(ch))
    /\ WF_deviceVars(Write \/ WriteFails)

-----------------------------------------------------------------------------
(* Properties *)

\* What the device will put out once the writes that wait have arrived.
Coming ==
    LET frames == {i \in DOMAIN transport.writes : transport.writes[i].kind = "frame"}
        last == CHOOSE i \in frames : \A j \in frames : j <= i
    IN  IF frames = {} THEN device.output ELSE transport.writes[last].output

Linked == device.linked /\ transport.status = "paired"

\* Whatever stops the output - the emergency stop, a hidden page, a lost link, a change of
\* the settings - stops it for good: no timer of the transport goes on repeating a
\* waveform, and the last frame under way to the device silences it.
StopSilences ==
    ~control.armed /\ ~failed =>
        /\ \A ch \in Channels : ~transport.wave[ch].loaded
        /\ Linked => Coming = Silent

\* The same without the assumption that no write fails.  Not true of the code, where a
\* failed write leaves the timer that repeats it (dglabBluetooth.ts:315); not run.
DisarmedIsSilent ==
    ~control.armed => \A ch \in Channels : ~transport.wave[ch].loaded

\* The device never puts out more than the player's limit: a limit that is lowered
\* reaches the device, also while an output is going on or a connection is being made.
Felt(ch) == IF device.output[ch] < device.limit THEN device.output[ch] ELSE device.limit
WithinLimit ==
    Linked /\ ~failed /\ (\A i \in DOMAIN transport.writes : transport.writes[i].kind = "frame") =>
        \A ch \in Channels : Felt(ch) <= config.maxStrength

\* Every output ends by itself: contributions run out, and no timer is missing that would
\* take the strength back.
OutputEnds == (Linked /\ Coming # Silent) ~> (~Linked \/ failed \/ Coming = Silent)

=============================================================================
