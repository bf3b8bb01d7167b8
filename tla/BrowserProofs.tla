---------------------------- MODULE BrowserProofs ----------------------------
(***************************************************************************)
(* What reaches a player and what he presses, proved: the states of the    *)
(* match, which is StateSync, the stimulation, which is DgLab, and the     *)
(* keyboard, which is Handling.                                            *)
(*                                                                         *)
(* A viewer is shown no state the match has not had, and one who waits for *)
(* a full snapshot is never left waiting: for any number of frames,        *)
(* connections and retained events.                                        *)
(*                                                                         *)
(* A stopped device is silent and a running one within its limit: for any  *)
(* configurations, times, events and faults.  Serves says what makes both  *)
(* true of the writes that wait: the last frame among them is what the     *)
(* transport would send now, and the last limit among them is the one of   *)
(* the configuration; without one, the device has that limit already or    *)
(* nothing put out or under way exceeds it.  DeviceInv adds that waveforms *)
(* are loaded only on the channels that stopping clears, and that what is  *)
(* not paired has nothing to put out.                                      *)
(*                                                                         *)
(* The keyboard follows the newest direction held, goes on shifting, and   *)
(* does the same at any frame rate: for any bindings, settings and limit   *)
(* of emissions.  HandlingInv says of the engine that its list of          *)
(* directions is that of the keys (Matched), and that it shifts in the     *)
(* last of them.  Two runs of advance are compared round by round: what an *)
(* early one does is the beginning of what a late one does (EarlyIsPrefix),*)
(* and the rest is what comes of the engine it leaves (RestIsSuffix).      *)
(***************************************************************************)
EXTENDS StateSync, DgLab, Handling, ArrayLemmas

(******************************* the states ********************************)

\* What is under way was made of states the match had when it was sent.
States == [sequence : Nat, event : Nat, board : Nat]
Messages(h) ==
    {StartMessage} \cup {Full(m) : m \in h} \cup {Delta(b[1], b[2]) : b \in h \X h}

LinkType(h) ==
    [active : BOOLEAN, bound : BOOLEAN, restoring : BOOLEAN, refused : BOOLEAN,
     queue : Seq(Messages(h))]
BaselineType(h) == {None} \cup [generation : Nat \ {0}, state : h]
ReceiverType(h) == [on : BOOLEAN, snapshot : Seq(h), asked : BOOLEAN]

Real(h) ==
    /\ h \subseteq States
    /\ link \in LinkType(h) /\ baseline \in BaselineType(h) /\ receiver \in ReceiverType(h)

IInv == Real(had) /\ match \in had /\ generation \in Nat \ {0}

-----------------------------------------------------------------------------
\* A state that was had before is one that was had afterwards.
LEMMA StillHad ==
    ASSUME NEW h, NEW k, h \subseteq k
    PROVE  /\ Messages(h) \subseteq Messages(k) /\ LinkType(h) \subseteq LinkType(k)
           /\ BaselineType(h) \subseteq BaselineType(k)
           /\ ReceiverType(h) \subseteq ReceiverType(k)
<1>1. Messages(h) \subseteq Messages(k)
  BY DEF Messages
<1>2. Seq(Messages(h)) \subseteq Seq(Messages(k)) /\ Seq(h) \subseteq Seq(k)
  BY <1>1
<1> QED BY <1>1, <1>2 DEF LinkType, BaselineType, ReceiverType

\* A send leaves a link with what it had and the message.
LEMMA SendsReal ==
    ASSUME NEW h, NEW l \in LinkType(h), NEW message \in Messages(h), NEW s \in Sends(l, message)
    PROVE  s.link \in LinkType(h)
<1>1. Append(l.queue, message) \in Seq(Messages(h))
  BY DEF LinkType
<1> DEFINE kept == [l EXCEPT !.queue = IF open THEN Append(@, message) ELSE @]
           refusing == [l EXCEPT !.refused = TRUE]
           unbound == [l EXCEPT !.bound = FALSE]
<1>2. kept \in LinkType(h)
  BY <1>1 DEF LinkType
<1>3. refusing \in LinkType(h) /\ unbound \in LinkType(h)
  BY DEF LinkType
<1>4. s \in {[link |-> kept, accepted |-> TRUE], [link |-> refusing, accepted |-> FALSE],
            [link |-> unbound, accepted |-> FALSE], [link |-> l, accepted |-> FALSE]}
  <2>1. CASE l.active /\ l.bound
    BY <2>1, Zenon DEF Sends
  <2>2. CASE ~(l.active /\ l.bound)
    BY <2>2, Zenon DEF Sends
  <2> QED BY <2>1, <2>2
<1> HIDE DEF kept, refusing, unbound
<1>5. s.link \in {kept, refusing, unbound, l}
  BY <1>4
<1> QED BY <1>2, <1>3, <1>5

\* A receiver that takes a state for its snapshot.
LEMMA Shows ==
    ASSUME NEW h, NEW r \in ReceiverType(h), NEW m \in h
    PROVE  /\ [r EXCEPT !.snapshot = <<m>>, !.asked = FALSE] \in ReceiverType(h)
           /\ [r EXCEPT !.asked = FALSE, !.snapshot = <<m>>] \in ReceiverType(h)
<1> DEFINE one == <<m>>
<1>1. one \in Seq(h)
  OBVIOUS
<1> HIDE DEF one
<1>2. [r EXCEPT !.snapshot = one, !.asked = FALSE] \in ReceiverType(h)
  BY <1>1 DEF ReceiverType
<1>3. [r EXCEPT !.asked = FALSE, !.snapshot = one] \in ReceiverType(h)
  BY <1>1 DEF ReceiverType
<1> QED BY <1>2, <1>3 DEF one

\* What reduceMatchDelta accepts is the state the delta was computed for.
LEMMA DeltaReal ==
    ASSUME NEW h \in SUBSET States, NEW r \in ReceiverType(h), NEW b \in h, NEW m \in h
    PROVE  Reduced(r, Delta(b, m)) \in ReceiverType(h)
<1> DEFINE d == Delta(b, m)
           shown == [sequence |-> d.sequence, event |-> d.event,
                     board |-> Patched(r.snapshot[1].board, d.patch)]
<1>1. CASE ~r.on \/ Stale(r, d)
  BY <1>1 DEF Reduced
<1>2. CASE ~(~r.on \/ Stale(r, d)) /\ Fits(r, d)
  <2>1. r.snapshot[1].board = b.board
    BY <1>2 DEF Fits, Delta
  <2>2. shown = m
    BY <2>1 DEF Delta, Patched, Patch, States
  <2>3. Reduced(r, d) = [r EXCEPT !.asked = FALSE, !.snapshot = <<shown>>]
    BY <1>2, Zenon DEF Reduced
  <2>4. [r EXCEPT !.asked = FALSE, !.snapshot = <<m>>] \in ReceiverType(h)
    BY Shows
  <2>5. Reduced(r, d) = [r EXCEPT !.asked = FALSE, !.snapshot = <<m>>]
    BY <2>2, <2>3, Zenon
  <2> QED BY <2>4, <2>5
<1>3. CASE ~(~r.on \/ Stale(r, d)) /\ ~Fits(r, d)
  BY <1>3 DEF Reduced, ReceiverType
<1> QED BY <1>1, <1>2, <1>3

LEMMA ReceivedReal ==
    ASSUME NEW h \in SUBSET States, NEW r \in ReceiverType(h), NEW message \in Messages(h)
    PROVE  Received(r, message) \in ReceiverType(h)
<1>1. CASE message = StartMessage
  <2>1. Received(r, message) = [Fresh EXCEPT !.on = TRUE]
    BY <1>1 DEF Received, StartMessage
  <2>2. Fresh \in ReceiverType(h)
    BY DEF Fresh, ReceiverType
  <2> QED BY <2>1, <2>2 DEF ReceiverType
<1>2. ASSUME NEW m \in h, message = Full(m)
      PROVE  Received(r, message) \in ReceiverType(h)
  <2>1. Snapshotted(r, m) \in {r, [r EXCEPT !.snapshot = <<m>>, !.asked = FALSE]}
    BY Zenon DEF Snapshotted
  <2>2. [r EXCEPT !.snapshot = <<m>>, !.asked = FALSE] \in ReceiverType(h)
    BY Shows
  <2> QED BY <1>2, <2>1, <2>2 DEF Received, Full
<1>3. ASSUME NEW b \in h, NEW m \in h, message = Delta(b, m)
      PROVE  Received(r, message) \in ReceiverType(h)
  <2>1. Received(r, message) = Reduced(r, Delta(b, m))
    BY <1>3 DEF Received, Delta
  <2> QED BY <2>1, DeltaReal
<1> QED BY <1>1, <1>2, <1>3 DEF Messages

LEMMA RememberedReal ==
    ASSUME IInv, NEW h, NEW m \in h, NEW accepted
    PROVE  Remembered(accepted, m) \in BaselineType(h)
BY DEF IInv, Remembered, BaselineType

-----------------------------------------------------------------------------
(* Every step *)

\* The messages the server may send belong to states the match has had.
LEMMA MessagesReal ==
    ASSUME NEW h, NEW m \in h
    PROVE  /\ StartMessage \in Messages(h) /\ Full(m) \in Messages(h)
           /\ \A b \in h : Delta(b, m) \in Messages(h)
<1>1. ASSUME NEW b \in h PROVE Delta(b, m) \in Messages(h)
  <2>1. <<b, m>> \in h \X h /\ <<b, m>>[1] = b /\ <<b, m>>[2] = m
    OBVIOUS
  <2>2. Delta(b, m) = Delta(<<b, m>>[1], <<b, m>>[2])
    BY <2>1
  <2> QED BY <2>1, <2>2, Zenon DEF Messages
<1> QED BY <1>1 DEF Messages

LEMMA SendSnapshotReal ==
    ASSUME IInv, NEW l \in LinkType(had), SendSnapshot(l)
    PROVE  link' \in LinkType(had) /\ baseline' \in BaselineType(had)
<1>1. Full(match) \in Messages(had) /\ match \in had
  BY MessagesReal DEF IInv
<1>2. PICK s \in Sends(l, Full(match)) :
          link' = s.link /\ baseline' = Remembered(s.accepted, match)
  BY DEF SendSnapshot
<1> QED BY <1>1, <1>2, SendsReal, RememberedReal

LEMMA FramesReal ==
    ASSUME IInv, NEW n \in Frames
    PROVE  n \in States /\ [n EXCEPT !.sequence = @ + 1] \in States
<1>1. match \in States
  BY DEF IInv, Real
<1>2. PICK step \in {<<0, 0>>, <<1, 0>>, <<1, 1>>} :
          n = [match EXCEPT !.board = @ + step[1], !.event = @ + step[2]]
  BY DEF Frames
<1>3. step[1] \in Nat /\ step[2] \in Nat
  BY <1>2
<1>4. n \in States
  <2>1. match.board + step[1] \in Nat /\ match.event + step[2] \in Nat
    BY <1>1, <1>3 DEF States
  <2>2. n = [match EXCEPT !.board = match.board + step[1], !.event = match.event + step[2]]
    BY <1>1, <1>2 DEF States
  <2> QED BY <1>1, <2>1, <2>2 DEF States
<1> QED BY <1>4 DEF States

\* A frame of the match, after which the state is another one it has had.
LEMMA SimulatesReal ==
    ASSUME IInv, NEW m \in States, Simulates(m),
           link' \in LinkType(had'), baseline' \in BaselineType(had')
    PROVE  IInv'
<1>1. had' = had \cup {m} /\ match' = m /\ UNCHANGED <<generation, receiver>>
  BY DEF Simulates, client
<1>2. had' \subseteq States /\ had \subseteq had' /\ match' \in had'
  BY <1>1 DEF IInv, Real
<1>3. receiver' \in ReceiverType(had')
  BY <1>1, <1>2, StillHad DEF IInv, Real
<1> QED BY <1>1, <1>2, <1>3 DEF IInv, Real, LinkType, BaselineType, ReceiverType

LEMMA InitIInv == Init => IInv
<1> SUFFICES ASSUME Init PROVE IInv
  OBVIOUS
<1>1. match \in States /\ had = {match} /\ generation \in Nat \ {0}
  BY DEF Init, States
<1>2. link \in LinkType(had)
  <2>1. <<>> \in Seq(Messages(had))
    OBVIOUS
  <2> QED BY <2>1 DEF Init, NewLink, LinkType
<1>3. receiver \in ReceiverType(had)
  <2>1. <<>> \in Seq(had)
    OBVIOUS
  <2> QED BY <2>1 DEF Init, Fresh, ReceiverType
<1> QED BY <1>1, <1>2, <1>3 DEF Init, IInv, Real, BaselineType

LEMMA NextIInv ==
    ASSUME IInv, [Next]_vars
    PROVE  IInv'
<1> USE DEF server, client
<1>1. /\ had \subseteq States /\ match \in had /\ link \in LinkType(had)
      /\ baseline \in BaselineType(had) /\ receiver \in ReceiverType(had)
      /\ generation \in Nat \ {0}
  BY DEF IInv, Real
<1>2. ASSUME UNCHANGED <<had, match>>, generation' \in Nat \ {0},
             link' \in LinkType(had), baseline' \in BaselineType(had),
             receiver' \in ReceiverType(had)
      PROVE  IInv'
  BY <1>1, <1>2 DEF IInv, Real, LinkType, BaselineType, ReceiverType, Messages, Full, Delta,
     Retained, Patch, StartMessage, None
<1>3. CASE Start
  <2>1. PICK s \in Sends(link, StartMessage) : link' = s.link
    BY <1>3 DEF Start
  <2>2. link' \in LinkType(had)
    BY <1>1, <2>1, SendsReal, MessagesReal
  <2> QED BY <1>1, <1>2, <1>3, <2>2 DEF Start
<1>4. CASE AdvanceFrame
  <2>1. PICK m \in Frames : Simulates(m) /\ UNCHANGED <<link, baseline>>
    BY <1>4 DEF AdvanceFrame
  <2>2. had \subseteq had'
    BY <2>1 DEF Simulates
  <2>3. link' \in LinkType(had') /\ baseline' \in BaselineType(had')
    BY <1>1, <2>1, <2>2, StillHad
  <2> QED BY <2>1, <2>3, FramesReal, SimulatesReal
<1>5. CASE Broadcast
  <2>1. PICK m \in {[n EXCEPT !.sequence = @ + 1] : n \in Frames} :
        /\ Simulates(m)
        /\ \E update \in (IF HasBaseline THEN Updates(baseline.state, m) ELSE {Full(m)}) :
           \E s \in Sends(link, update) :
                link' = s.link /\ baseline' = Remembered(s.accepted, m)
    BY <1>5 DEF Broadcast
  <2>2. m \in States
    BY <2>1, FramesReal
  <2>3. PICK update \in (IF HasBaseline THEN Updates(baseline.state, m) ELSE {Full(m)}) :
           \E s \in Sends(link, update) :
                link' = s.link /\ baseline' = Remembered(s.accepted, m)
    BY <2>1
  <2>4. had \subseteq had' /\ m \in had'
    BY <2>1 DEF Simulates
  <2>5. update \in Messages(had')
    <3>1. CASE update = Full(m)
      BY <2>4, <3>1, MessagesReal
    <3>2. CASE HasBaseline /\ update = Delta(baseline.state, m)
      <4>1. baseline.state \in had
        BY <1>1, <3>2 DEF HasBaseline, BaselineType, None
      <4> QED BY <2>4, <3>2, <4>1, MessagesReal
    <3> QED BY <2>3, <3>1, <3>2 DEF Updates
  <2>6. link \in LinkType(had')
    BY <1>1, <2>4, StillHad
  <2>7. link' \in LinkType(had')
    BY <2>3, <2>5, <2>6, SendsReal
  <2>8. baseline' \in BaselineType(had')
    BY <2>3, <2>4, RememberedReal
  <2> QED BY <2>1, <2>2, <2>7, <2>8, SimulatesReal
<1>6. CASE OtherRefused
  <2>1. PICK s \in Sends(link, StartMessage) : link' = s.link
    BY <1>6 DEF OtherRefused
  <2>2. link' \in LinkType(had)
    BY <1>1, <2>1, SendsReal, MessagesReal
  <2>3. baseline' \in BaselineType(had)
    BY <1>1, <1>6 DEF OtherRefused, BaselineType
  <2> QED BY <1>1, <1>2, <1>6, <2>2, <2>3 DEF OtherRefused
<1>7. CASE Restored
  <2> DEFINE l == [link EXCEPT !.restoring = FALSE]
  <2>1. l \in LinkType(had)
    BY <1>1 DEF LinkType
  <2>2. CASE started
    <3>1. PICK s \in Sends(l, StartMessage) : SendSnapshot(s.link)
      BY <1>7, <2>2 DEF Restored
    <3>2. s.link \in LinkType(had)
      BY <1>1, <2>1, <3>1, SendsReal, MessagesReal
    <3>3. link' \in LinkType(had) /\ baseline' \in BaselineType(had)
      BY <3>1, <3>2, SendSnapshotReal
    <3> QED BY <1>1, <1>2, <1>7, <3>3 DEF Restored
  <2>3. CASE ~started
    BY <1>1, <1>2, <1>7, <2>1, <2>3 DEF Restored
  <2> QED BY <2>2, <2>3
<1>8. CASE HandleResync
  <2>1. link' \in LinkType(had) /\ baseline' \in BaselineType(had)
    BY <1>1, <1>8, SendSnapshotReal DEF HandleResync
  <2> QED BY <1>1, <1>2, <1>8, <2>1 DEF HandleResync
<1>9. CASE ServerLoses
  <2>1. link' \in LinkType(had)
    BY <1>1, <1>9 DEF ServerLoses, LinkType
  <2> QED BY <1>1, <1>2, <1>9, <2>1 DEF ServerLoses
<1>10. CASE ClientLoses
  <2>1. <<>> \in Seq(Messages(had))
    OBVIOUS
  <2>2. link' \in LinkType(had)
    BY <1>1, <1>10, <2>1 DEF ClientLoses, LinkType
  <2> QED BY <1>1, <1>2, <1>10, <2>2 DEF ClientLoses
<1>11. CASE Resume
  <2>1. <<>> \in Seq(Messages(had)) /\ <<>> \in Seq(had)
    OBVIOUS
  <2>2. link' \in LinkType(had)
    BY <1>11, <2>1 DEF Resume, NewLink, LinkType
  <2>3. receiver' \in ReceiverType(had)
    <3>1. Fresh \in ReceiverType(had)
      BY <2>1 DEF Fresh, ReceiverType
    <3> QED BY <1>1, <1>11, <3>1 DEF Resume
  <2>4. generation' \in Nat \ {0}
    BY <1>1, <1>11 DEF Resume
  <2> QED BY <1>1, <1>2, <1>11, <2>2, <2>3, <2>4 DEF Resume
<1>12. CASE Receive
  <2>1. /\ link.queue \in Seq(Messages(had)) /\ link.queue # <<>>
        /\ link' = [link EXCEPT !.queue = Tail(@)]
        /\ receiver' = Received(receiver, Head(link.queue))
    BY <1>1, <1>12 DEF Receive, LinkType
  <2>2. Head(link.queue) \in Messages(had) /\ Tail(link.queue) \in Seq(Messages(had))
    BY <2>1
  <2>3. link' \in LinkType(had)
    BY <1>1, <2>1, <2>2 DEF LinkType
  <2>4. receiver' \in ReceiverType(had)
    BY <1>1, <2>1, <2>2, ReceivedReal
  <2> QED BY <1>1, <1>2, <1>12, <2>3, <2>4 DEF Receive
<1>13. CASE UNCHANGED vars
  BY <1>1, <1>2, <1>13 DEF vars
<1> QED
  BY <1>3, <1>4, <1>5, <1>6, <1>7, <1>8, <1>9, <1>10, <1>11, <1>12, <1>13 DEF Next

\* What the browser shows is a state the match has had, whatever the hub refuses and however
\* often connections are replaced (matchDeltaReducer.ts, matchDeliveryBaselines.ts).
THEOREM ShowsOnlyReal == Spec => []ShownIsReal
<1>1. IInv => ShownIsReal
  BY DEF IInv, Real, ReceiverType, ShownIsReal
<1> QED BY InitIInv, NextIInv, <1>1, PTL DEF Spec

-----------------------------------------------------------------------------
(* What becomes of a receiver *)

Stepped(after, r, queue, n) == IF n = 0 THEN r ELSE Received(after[n - 1], queue[n])

\* Becomes by its recursion.
LEMMA BecomesUnfolds ==
    ASSUME NEW r, NEW T, NEW queue \in Seq(T)
    PROVE  /\ Becomes(r, queue)[0] = r
           /\ \A n \in Nat : n + 1 <= Len(queue) =>
                  Becomes(r, queue)[n + 1] = Received(Becomes(r, queue)[n], queue[n + 1])
<1> DEFINE Solves(after) == after = [n \in 0 .. Len(queue) |-> Stepped(after, r, queue, n)]
           f == CHOOSE after : Solves(after)
<1>1. \E after : Solves(after)
  <2> DEFINE P == {m \in Nat : \E after : after = [n \in 0 .. m |-> Stepped(after, r, queue, n)]}
  <2>1. 0 \in P
    <3> DEFINE g == [n \in 0 .. 0 |-> r]
    <3>1. g = [n \in 0 .. 0 |-> Stepped(g, r, queue, n)]
      BY DEF Stepped
    <3> QED BY <3>1
  <2>2. ASSUME NEW m \in Nat, m \in P PROVE m + 1 \in P
    <3>1. PICK g : g = [n \in 0 .. m |-> Stepped(g, r, queue, n)]
      BY <2>2
    <3> DEFINE h == [n \in 0 .. (m + 1) |-> IF n = m + 1 THEN Stepped(g, r, queue, n) ELSE g[n]]
    <3>2. ASSUME NEW n \in 0 .. (m + 1) PROVE h[n] = Stepped(h, r, queue, n)
      <4>1. CASE n = m + 1
        BY <4>1 DEF Stepped
      <4>2. CASE n # m + 1
        <5>1. n \in 0 .. m /\ g[n] = Stepped(g, r, queue, n) /\ h[n] = g[n]
          BY <3>1, <4>2
        <5>2. n # 0 => h[n - 1] = g[n - 1]
          BY <5>1
        <5> QED BY <5>1, <5>2 DEF Stepped
      <4> QED BY <4>1, <4>2
    <3> HIDE DEF h
    <3>3. h = [n \in 0 .. (m + 1) |-> h[n]]
      BY DEF h
    <3>4. h = [n \in 0 .. (m + 1) |-> Stepped(h, r, queue, n)]
      BY <3>2, <3>3
    <3> QED BY <3>4
  <2> HIDE DEF P
  <2>3. \A m \in Nat : m \in P
    BY <2>1, <2>2, SetInduction
  <2>4. Len(queue) \in P
    BY <2>3
  <2> QED BY <2>4 DEF P
<1>2. Solves(f)
  BY <1>1
<1>3. Becomes(r, queue) = f
  BY DEF Becomes, Stepped
<1> HIDE DEF f
<1>4. \A n \in 0 .. Len(queue) : f[n] = Stepped(f, r, queue, n)
  BY <1>2
<1>5. f[0] = r
  <2>1. 0 \in 0 .. Len(queue)
    OBVIOUS
  <2> QED BY <2>1, <1>4 DEF Stepped
<1>6. ASSUME NEW n \in Nat, n + 1 <= Len(queue) PROVE f[n + 1] = Received(f[n], queue[n + 1])
  <2>1. n + 1 \in 0 .. Len(queue) /\ n + 1 # 0 /\ (n + 1) - 1 = n
    BY <1>6
  <2> QED BY <2>1, <1>4 DEF Stepped
<1> QED BY <1>3, <1>5, <1>6

\* One more message changes nothing of what becomes of the receiver before it.
LEMMA BecomesAppend ==
    ASSUME NEW r, NEW T, NEW queue \in Seq(T), NEW x \in T
    PROVE  /\ \A n \in 0 .. Len(queue) : Becomes(r, Append(queue, x))[n] = Becomes(r, queue)[n]
           /\ Becomes(r, Append(queue, x))[Len(queue) + 1]
                  = Received(Becomes(r, queue)[Len(queue)], x)
<1> DEFINE longer == Append(queue, x)
           a == Becomes(r, queue)
           b == Becomes(r, longer)
           P == {n \in Nat : n <= Len(queue) => b[n] = a[n]}
<1>1. /\ longer \in Seq(T) /\ Len(longer) = Len(queue) + 1 /\ Len(queue) \in Nat
      /\ longer[Len(queue) + 1] = x
      /\ \A i \in 1 .. Len(queue) : longer[i] = queue[i]
  OBVIOUS
<1> HIDE DEF longer
<1>2. a[0] = r /\ \A n \in Nat : n + 1 <= Len(queue) => a[n + 1] = Received(a[n], queue[n + 1])
  BY BecomesUnfolds
<1>3. b[0] = r /\ \A n \in Nat : n + 1 <= Len(longer) => b[n + 1] = Received(b[n], longer[n + 1])
  BY <1>1, BecomesUnfolds
<1> HIDE DEF a, b
<1>4. 0 \in P
  BY <1>2, <1>3
<1>5. ASSUME NEW n \in Nat, n \in P PROVE n + 1 \in P
  <2> SUFFICES ASSUME n + 1 <= Len(queue) PROVE b[n + 1] = a[n + 1]
    OBVIOUS
  <2>1. b[n] = a[n] /\ n + 1 <= Len(longer) /\ longer[n + 1] = queue[n + 1]
    BY <1>1, <1>5
  <2> QED BY <1>2, <1>3, <2>1
<1> HIDE DEF P
<1>6. \A n \in Nat : n \in P
  BY <1>4, <1>5, SetInduction
<1>7. \A n \in 0 .. Len(queue) : b[n] = a[n]
  BY <1>6 DEF P
<1>8. b[Len(queue) + 1] = Received(a[Len(queue)], x)
  BY <1>1, <1>3, <1>7
<1> QED BY <1>7, <1>8 DEF a, b, longer

\* After the first message the others go on from what it made of the receiver.
LEMMA BecomesTail ==
    ASSUME NEW r, NEW T, NEW queue \in Seq(T), queue # <<>>
    PROVE  \A n \in 0 .. Len(queue) - 1 :
               Becomes(Received(r, Head(queue)), Tail(queue))[n] = Becomes(r, queue)[n + 1]
<1> DEFINE rest == Tail(queue)
           a == Becomes(r, queue)
           b == Becomes(Received(r, Head(queue)), rest)
           P == {n \in Nat : n <= Len(queue) - 1 => b[n] = a[n + 1]}
<1>1. /\ rest \in Seq(T) /\ Len(rest) = Len(queue) - 1 /\ Len(queue) \in Nat /\ Len(queue) >= 1
      /\ Head(queue) = queue[1]
      /\ \A i \in 1 .. Len(queue) - 1 : rest[i] = queue[i + 1]
  OBVIOUS
<1> HIDE DEF rest
<1>2. a[0] = r /\ \A n \in Nat : n + 1 <= Len(queue) => a[n + 1] = Received(a[n], queue[n + 1])
  BY BecomesUnfolds
<1>3. /\ b[0] = Received(r, Head(queue))
      /\ \A n \in Nat : n + 1 <= Len(rest) => b[n + 1] = Received(b[n], rest[n + 1])
  BY <1>1, BecomesUnfolds
<1> HIDE DEF a, b
<1>4. 0 \in P
  <2>1. a[0 + 1] = Received(a[0], queue[0 + 1])
    BY <1>1, <1>2
  <2> QED BY <1>1, <1>2, <1>3, <2>1
<1>5. ASSUME NEW n \in Nat, n \in P PROVE n + 1 \in P
  <2> SUFFICES ASSUME n + 1 <= Len(queue) - 1 PROVE b[n + 1] = a[(n + 1) + 1]
    OBVIOUS
  <2>1. b[n] = a[n + 1] /\ n + 1 <= Len(rest) /\ rest[n + 1] = queue[(n + 1) + 1]
    BY <1>1, <1>5
  <2>2. a[(n + 1) + 1] = Received(a[n + 1], queue[(n + 1) + 1])
    BY <1>1, <1>2
  <2> QED BY <1>3, <2>1, <2>2
<1> HIDE DEF P
<1>6. \A n \in Nat : n \in P
  BY <1>4, <1>5, SetInduction
<1>7. \A n \in 0 .. Len(queue) - 1 : b[n] = a[n + 1]
  BY <1>1, <1>6 DEF P
<1> QED BY <1>7 DEF a, b, rest

LEMMA ReceivedOn ==
    ASSUME NEW h, NEW r \in ReceiverType(h), NEW message \in Messages(h), r.on = TRUE
    PROVE  Received(r, message).on = TRUE
<1>1. CASE message = StartMessage
  BY <1>1 DEF Received, StartMessage, Fresh
<1>2. ASSUME NEW m \in h, message = Full(m) PROVE Received(r, message).on = TRUE
  <2>1. Received(r, message) = Snapshotted(r, m)
    BY <1>2 DEF Received, Full
  <2> QED BY <2>1 DEF Snapshotted, ReceiverType
<1>3. ASSUME NEW b \in h, NEW m \in h, message = Delta(b, m) PROVE Received(r, message).on = TRUE
  <2>1. Received(r, message) = Reduced(r, message)
    BY <1>3 DEF Received, Delta
  <2> QED BY <2>1 DEF Reduced, ReceiverType
<1> QED BY <1>1, <1>2, <1>3 DEF Messages

\* Messages turn no receiver off, and a receiver that waits for a full snapshot is on.
LEMMA BecomesReal ==
    ASSUME NEW h \in SUBSET States, NEW r \in ReceiverType(h), NEW queue \in Seq(Messages(h))
    PROVE  \A n \in 0 .. Len(queue) :
               /\ Becomes(r, queue)[n] \in ReceiverType(h)
               /\ r.on = TRUE => Becomes(r, queue)[n].on = TRUE
<1> DEFINE a == Becomes(r, queue)
           Fine(x) == x \in ReceiverType(h) /\ (r.on = TRUE => x.on = TRUE)
           P == {n \in Nat : n <= Len(queue) => Fine(a[n])}
<1>1. a[0] = r /\ \A n \in Nat : n + 1 <= Len(queue) => a[n + 1] = Received(a[n], queue[n + 1])
  BY BecomesUnfolds
<1> HIDE DEF a
<1>2. 0 \in P
  BY <1>1
<1>3. ASSUME NEW n \in Nat, n \in P PROVE n + 1 \in P
  <2> SUFFICES ASSUME n + 1 <= Len(queue) PROVE Fine(a[n + 1])
    <3> HIDE DEF Fine
    <3> QED OBVIOUS
  <2>1. Fine(a[n]) /\ queue[n + 1] \in Messages(h) /\ a[n + 1] = Received(a[n], queue[n + 1])
    BY <1>1, <1>3
  <2>2. a[n + 1] \in ReceiverType(h)
    BY <2>1, ReceivedReal
  <2>3. a[n].on = TRUE => a[n + 1].on = TRUE
    BY <2>1, ReceivedOn
  <2> QED BY <2>1, <2>2, <2>3
<1> HIDE DEF P
<1>4. \A n \in Nat : n \in P
  BY <1>2, <1>3, SetInduction
<1>5. \A n \in 0 .. Len(queue) : Fine(a[n])
  BY <1>4 DEF P
<1> QED BY <1>5 DEF a

-----------------------------------------------------------------------------
(* The resync *)

\* Some message of the queue ends the receiver's waiting.
Ends(r, queue) == \E n \in 0 .. Len(queue) : ~Becomes(r, queue)[n].asked

LEMMA EndsLater ==
    ASSUME NEW r, NEW T, NEW queue \in Seq(T), NEW x \in T, Ends(r, queue)
    PROVE  Ends(r, Append(queue, x))
<1>1. PICK n \in 0 .. Len(queue) : ~Becomes(r, queue)[n].asked
  BY DEF Ends
<1>2. ~Becomes(r, Append(queue, x))[n].asked
  BY <1>1, BecomesAppend
<1>3. n \in 0 .. Len(Append(queue, x))
  OBVIOUS
<1> QED BY <1>2, <1>3 DEF Ends

\* A full snapshot of the present state ends it.
LEMMA FullEnds ==
    ASSUME NEW h \in SUBSET States, NEW r \in ReceiverType(h), r.on = TRUE,
           NEW queue \in Seq(Messages(h)), NEW m \in h, \A k \in h : k.sequence <= m.sequence
    PROVE  Ends(r, Append(queue, Full(m)))
<1> DEFINE longer == Append(queue, Full(m))
           last == Becomes(r, queue)[Len(queue)]
<1>1. Full(m) \in Messages(h)
  BY MessagesReal
<1>2. Len(queue) \in 0 .. Len(queue) /\ Len(queue) + 1 \in 0 .. Len(longer)
      /\ Len(queue) \in 0 .. Len(longer)
  OBVIOUS
<1>3. /\ Becomes(r, longer)[Len(queue)] = last
      /\ Becomes(r, longer)[Len(queue) + 1] = Received(last, Full(m))
  BY <1>1, <1>2, BecomesAppend
<1>4. last \in ReceiverType(h) /\ last.on = TRUE
  BY <1>2, BecomesReal
<1> HIDE DEF last, longer
<1>5. CASE last.asked = TRUE
  <2>1. last.snapshot = <<>> \/ m.sequence > last.snapshot[1].sequence
        \/ m.sequence = last.snapshot[1].sequence
    <3>1. CASE last.snapshot # <<>>
      <4>1. last.snapshot[1] \in h
        BY <1>4, <3>1 DEF ReceiverType
      <4>2. last.snapshot[1].sequence \in Nat /\ m.sequence \in Nat
            /\ last.snapshot[1].sequence <= m.sequence
        BY <4>1 DEF States
      <4> QED BY <4>2
    <3> QED BY <3>1
  <2>2. Snapshotted(last, m) = [last EXCEPT !.snapshot = <<m>>, !.asked = FALSE]
    BY <1>4, <1>5, <2>1 DEF Snapshotted
  <2>3. Received(last, Full(m)) = Snapshotted(last, m)
    BY DEF Received, Full
  <2>4. Snapshotted(last, m).asked = FALSE
    BY <1>4, <2>2 DEF ReceiverType
  <2> QED BY <1>2, <1>3, <2>3, <2>4 DEF Ends, longer
<1>6. CASE last.asked = FALSE
  BY <1>2, <1>3, <1>6 DEF Ends, longer
<1> QED BY <1>4, <1>5, <1>6 DEF ReceiverType

\* A send over a connection that stays as it is.
LEMMA SendsOn ==
    ASSUME NEW h, NEW l \in LinkType(h), NEW message \in Messages(h), NEW s \in Sends(l, message),
           open = TRUE, s.link.active = TRUE, s.link.bound = TRUE
    PROVE  /\ l.active = TRUE /\ l.bound = TRUE /\ s.link.restoring = l.restoring
           /\ \/ s.accepted = TRUE /\ s.link.queue = Append(l.queue, message)
              \/ s.accepted = FALSE /\ s.link.queue = l.queue
<1> DEFINE kept == [l EXCEPT !.queue = IF open THEN Append(@, message) ELSE @]
           refusing == [l EXCEPT !.refused = TRUE]
           unbound == [l EXCEPT !.bound = FALSE]
<1>1. /\ kept.queue = Append(l.queue, message) /\ kept.active = l.active /\ kept.bound = l.bound
      /\ kept.restoring = l.restoring
  BY DEF LinkType
<1>2. /\ refusing.queue = l.queue /\ refusing.active = l.active /\ refusing.bound = l.bound
      /\ refusing.restoring = l.restoring
  BY DEF LinkType
<1>3. unbound.bound = FALSE
  BY DEF LinkType
<1>4. l.active \in BOOLEAN /\ l.bound \in BOOLEAN
  BY DEF LinkType
<1>5. s \in {[link |-> kept, accepted |-> TRUE], [link |-> refusing, accepted |-> FALSE],
            [link |-> unbound, accepted |-> FALSE]}
      \/ (~(l.active /\ l.bound) /\ s = [link |-> l, accepted |-> FALSE])
  <2>1. CASE l.active /\ l.bound
    BY <2>1, Zenon DEF Sends
  <2>2. CASE ~(l.active /\ l.bound)
    BY <2>2, Zenon DEF Sends
  <2> QED BY <2>1, <2>2
<1> HIDE DEF kept, refusing, unbound
<1>6. CASE s = [link |-> kept, accepted |-> TRUE]
  BY <1>1, <1>6
<1>7. CASE s = [link |-> refusing, accepted |-> FALSE]
  BY <1>2, <1>7
<1>8. CASE s = [link |-> unbound, accepted |-> FALSE]
  BY <1>3, <1>8
<1>9. CASE ~(l.active /\ l.bound) /\ s = [link |-> l, accepted |-> FALSE]
  BY <1>4, <1>9
<1> QED BY <1>5, <1>6, <1>7, <1>8, <1>9

-----------------------------------------------------------------------------
(* Every step, again *)

\* No state the match has had has a later sequence than the present one, only a receiver
\* that is on waits for a full snapshot, and before the start nothing was sent.
Waiting ==
    /\ IInv /\ requests \in Nat
    /\ \A k \in had : k.sequence <= match.sequence
    /\ receiver.asked = TRUE => receiver.on = TRUE
    /\ ~started => receiver.on = FALSE /\ link.queue = <<>> /\ requests = 0

LEMMA InitWaiting == Init => Waiting /\ ResyncAnswered
<1> SUFFICES ASSUME Init PROVE Waiting /\ ResyncAnswered
  OBVIOUS
<1>1. receiver.on = FALSE /\ receiver.asked = FALSE /\ link.queue = <<>> /\ requests = 0
  BY DEF Init, Fresh, NewLink
<1>2. \A k \in had : k.sequence <= match.sequence
  BY DEF Init
<1> QED BY <1>1, <1>2, InitIInv DEF Waiting, ResyncAnswered

LEMMA ReceivedWaits ==
    ASSUME NEW h \in SUBSET States, NEW r \in ReceiverType(h), NEW message \in Messages(h),
           r.asked = TRUE => r.on = TRUE
    PROVE  Received(r, message).asked = TRUE => Received(r, message).on = TRUE
<1>1. r.on \in BOOLEAN /\ r.asked \in BOOLEAN
  BY DEF ReceiverType
<1>2. CASE r.on = TRUE
  BY <1>2, ReceivedOn
<1>3. CASE r.on = FALSE
  <2>1. CASE message = StartMessage
    BY <2>1 DEF Received, StartMessage, Fresh
  <2>2. ASSUME NEW m \in h, message = Full(m) PROVE Received(r, message) = r
    BY <1>3, <2>2 DEF Received, Full, Snapshotted
  <2>3. ASSUME NEW b \in h, NEW m \in h, message = Delta(b, m) PROVE Received(r, message) = r
    BY <1>3, <2>3 DEF Received, Delta, Reduced
  <2> QED BY <2>1, <2>2, <2>3 DEF Messages
<1> QED BY <1>1, <1>2, <1>3

LEMMA NextWaiting == ASSUME Waiting, [Next]_vars PROVE Waiting'
<1> USE DEF server, client
<1>1. IInv /\ IInv'
  BY NextIInv DEF Waiting
<1>2. match \in States /\ had \subseteq States /\ link \in LinkType(had)
      /\ receiver \in ReceiverType(had) /\ requests \in Nat
  BY DEF Waiting, IInv, Real
<1>3. CASE Start
  BY <1>1, <1>3 DEF Start, Waiting
<1>4. ASSUME NEW m \in States, Simulates(m), match.sequence <= m.sequence PROVE Waiting'
  <2>1. \A k \in had : k.sequence <= m.sequence
    <3> SUFFICES ASSUME NEW k \in had PROVE k.sequence <= m.sequence
      OBVIOUS
    <3>1. k.sequence \in Nat /\ match.sequence \in Nat /\ m.sequence \in Nat
      BY <1>2 DEF States
    <3> QED BY <1>4, <3>1 DEF Waiting
  <2>2. m.sequence \in Nat
    BY DEF States
  <2>3. \A k \in had' : k.sequence <= match'.sequence
    BY <1>4, <2>1, <2>2 DEF Simulates
  <2> QED BY <1>1, <1>4, <2>3 DEF Simulates, Waiting
<1>5. CASE AdvanceFrame
  <2>1. PICK m \in Frames : Simulates(m)
    BY <1>5 DEF AdvanceFrame
  <2>2. m \in States /\ m.sequence = match.sequence /\ match.sequence \in Nat
    BY <1>1, <1>2, <2>1, FramesReal DEF Frames, States
  <2>3. match.sequence <= m.sequence
    BY <2>2
  <2> QED BY <1>4, <2>1, <2>2, <2>3
<1>6. CASE Broadcast
  <2>1. PICK n \in Frames : Simulates([n EXCEPT !.sequence = @ + 1])
    BY <1>6 DEF Broadcast
  <2>2. n \in States /\ n.sequence = match.sequence /\ match.sequence \in Nat
        /\ [n EXCEPT !.sequence = @ + 1] \in States
    BY <1>1, <1>2, <2>1, FramesReal DEF Frames, States
  <2> DEFINE m == [n EXCEPT !.sequence = @ + 1]
  <2>3. m \in States /\ m.sequence = match.sequence + 1 /\ Simulates(m)
    BY <2>1, <2>2 DEF States
  <2> HIDE DEF m
  <2>4. match.sequence <= m.sequence
    BY <2>2, <2>3
  <2> QED BY <1>4, <2>3, <2>4
<1>7. CASE OtherRefused
  BY <1>1, <1>7 DEF OtherRefused, Waiting
<1>8. CASE Restored
  <2>1. ~started => link'.queue = link.queue
    BY <1>2, <1>8 DEF Restored, LinkType
  <2> QED BY <1>1, <1>8, <2>1 DEF Restored, Waiting
<1>9. CASE HandleResync
  <2>1. started
    BY <1>9 DEF HandleResync, Waiting
  <2> QED BY <1>1, <1>2, <1>9, <2>1 DEF HandleResync, Waiting
<1>10. CASE ServerLoses
  <2>1. link'.queue = link.queue
    BY <1>2, <1>10 DEF ServerLoses, LinkType
  <2> QED BY <1>1, <1>10, <2>1 DEF ServerLoses, Waiting
<1>11. CASE ClientLoses
  <2>1. link'.queue = <<>>
    BY <1>2, <1>11 DEF ClientLoses, LinkType
  <2> QED BY <1>1, <1>11, <2>1 DEF ClientLoses, Waiting
<1>12. CASE Resume
  <2>1. link'.queue = <<>> /\ requests' = 0
    BY <1>12 DEF Resume, NewLink
  <2>2. /\ receiver'.asked = TRUE => receiver'.on = TRUE
        /\ ~started => receiver'.on = FALSE
    BY <1>12 DEF Resume, Fresh, Waiting
  <2> QED BY <1>1, <1>12, <2>1, <2>2 DEF Resume, Waiting
<1>13. CASE Receive
  <2>1. started
    BY <1>13 DEF Receive, Waiting
  <2>2. /\ link.queue \in Seq(Messages(had)) /\ link.queue # <<>>
        /\ receiver' = Received(receiver, Head(link.queue))
    BY <1>2, <1>13 DEF Receive, LinkType
  <2>3. Head(link.queue) \in Messages(had)
    BY <2>2
  <2>4. receiver'.asked = TRUE => receiver'.on = TRUE
    BY <1>2, <2>2, <2>3, ReceivedWaits DEF Waiting
  <2>5. requests' \in Nat
    BY <1>2, <1>13 DEF Receive
  <2> QED BY <1>1, <1>13, <2>1, <2>4, <2>5 DEF Receive, Waiting
<1>14. CASE UNCHANGED vars
  BY <1>1, <1>14 DEF vars, Waiting
<1> QED
  BY <1>3, <1>5, <1>6, <1>7, <1>8, <1>9, <1>10, <1>11, <1>12, <1>13, <1>14 DEF Next

\* Nobody is left waiting after a full snapshot of the present state was sent.
LEMMA SnapshotAnswers ==
    ASSUME Waiting, NEW l \in LinkType(had), SendSnapshot(l),
           UNCHANGED <<open, generation, receiver>>, Connected', receiver.asked
    PROVE  ~HasBaseline' \/ Ends(receiver, link'.queue)
<1>1. PICK s \in Sends(l, Full(match)) :
          link' = s.link /\ baseline' = Remembered(s.accepted, match)
  BY DEF SendSnapshot
<1>2. Full(match) \in Messages(had) /\ l.queue \in Seq(Messages(had))
  BY MessagesReal DEF Waiting, IInv, LinkType
<1>3. receiver.on = TRUE
  BY DEF Waiting, IInv, Real, ReceiverType
<1>4. open = TRUE /\ s.link.active = TRUE /\ s.link.bound = TRUE
  <2>1. link' \in LinkType(had)
    BY SendSnapshotReal DEF Waiting
  <2> QED BY <1>1, <2>1 DEF Connected, LinkType
<1>5. \/ s.accepted = TRUE /\ s.link.queue = Append(l.queue, Full(match))
      \/ s.accepted = FALSE /\ s.link.queue = l.queue
  BY <1>1, <1>2, <1>4, SendsOn
<1>6. CASE s.accepted = TRUE /\ s.link.queue = Append(l.queue, Full(match))
  BY <1>1, <1>2, <1>3, <1>6, FullEnds DEF Waiting, IInv, Real
<1>7. CASE s.accepted = FALSE
  BY <1>1, <1>7 DEF Remembered, None, HasBaseline, Waiting, IInv
<1> QED BY <1>5, <1>6, <1>7

LEMMA NextHad == ASSUME [Next]_vars PROVE had \subseteq had'
BY DEF Next, Start, AdvanceFrame, Broadcast, OtherRefused, Restored, HandleResync, ServerLoses,
       ClientLoses, Resume, Receive, Simulates, server, vars

LEMMA NextAnswered == ASSUME Waiting, ResyncAnswered, [Next]_vars PROVE ResyncAnswered'
<1> USE DEF server, client
<1>1. /\ link \in LinkType(had) /\ receiver \in ReceiverType(had) /\ had \in SUBSET States
      /\ baseline \in BaselineType(had) /\ generation \in Nat \ {0} /\ requests \in Nat
      /\ match \in had
  BY DEF Waiting, IInv, Real
<1>2. /\ link' \in LinkType(had') /\ receiver' \in ReceiverType(had') /\ had' \in SUBSET States
      /\ generation' \in Nat \ {0} /\ requests' \in Nat /\ match' \in had'
      /\ \A k \in had' : k.sequence <= match'.sequence
  BY NextWaiting DEF Waiting, IInv, Real
<1>3. SUFFICES ASSUME Connected', receiver'.asked
               PROVE  requests' > 0 \/ ~HasBaseline' \/ Ends(receiver', link'.queue)
  BY DEF ResyncAnswered, Ends
<1>4. open' = TRUE /\ link'.active = TRUE /\ link'.bound = TRUE /\ link'.restoring = FALSE
  BY <1>2, <1>3 DEF Connected, LinkType
<1>5. link.queue \in Seq(Messages(had)) /\ link.active \in BOOLEAN /\ link.bound \in BOOLEAN
      /\ link.restoring \in BOOLEAN
  BY <1>1 DEF LinkType
<1>6. Connected /\ receiver.asked =>
          requests > 0 \/ ~HasBaseline \/ Ends(receiver, link.queue)
  BY DEF ResyncAnswered, Ends
<1>7. ASSUME UNCHANGED <<open, receiver, generation, requests>>,
             link'.active = link.active, link'.bound = link.bound,
             link'.restoring = link.restoring, link'.queue = link.queue,
             baseline' \in {baseline, None}
      PROVE  requests' > 0 \/ ~HasBaseline' \/ Ends(receiver', link'.queue)
  <2>1. Connected
    BY <1>4, <1>7 DEF Connected
  <2>2. ~HasBaseline => ~HasBaseline'
    BY <1>1, <1>7 DEF HasBaseline, None
  <2> QED BY <1>3, <1>6, <1>7, <2>1, <2>2
\* A send over the link itself: what was on its way still is.
<1>8. ASSUME UNCHANGED <<open, receiver, generation, requests>>, NEW message \in Messages(had'),
             NEW s \in Sends(link, message), link' = s.link
      PROVE  /\ Connected
             /\ \/ s.accepted = TRUE /\ link'.queue = Append(link.queue, message)
                \/ s.accepted = FALSE /\ link'.queue = link.queue
             /\ Ends(receiver, link.queue) => Ends(receiver', link'.queue)
  <2>1. had \subseteq had'
    BY NextHad
  <2>2. link \in LinkType(had') /\ Messages(had) \subseteq Messages(had')
    BY <1>1, <2>1, StillHad
  <2>3. open = TRUE /\ s.link.active = TRUE /\ s.link.bound = TRUE
    BY <1>4, <1>8
  <2>4. /\ link.active = TRUE /\ link.bound = TRUE /\ s.link.restoring = link.restoring
        /\ \/ s.accepted = TRUE /\ s.link.queue = Append(link.queue, message)
           \/ s.accepted = FALSE /\ s.link.queue = link.queue
    BY <1>8, <2>2, <2>3, SendsOn
  <2>5. Connected
    BY <1>4, <1>8, <2>3, <2>4 DEF Connected
  <2>6. link.queue \in Seq(Messages(had'))
    BY <2>2 DEF LinkType
  <2>7. Ends(receiver, link.queue) => Ends(receiver, Append(link.queue, message))
    BY <2>6, EndsLater
  <2> QED BY <1>8, <2>4, <2>5, <2>7
<1>9. CASE Start
  <2>1. PICK s \in Sends(link, StartMessage) : link' = s.link
    BY <1>9 DEF Start
  <2>2. StartMessage \in Messages(had')
    BY DEF Messages
  <2>3. Connected /\ (Ends(receiver, link.queue) => Ends(receiver', link'.queue))
    BY <1>8, <1>9, <2>1, <2>2 DEF Start
  <2> QED BY <1>3, <1>6, <1>9, <2>3 DEF Start, HasBaseline
<1>10. CASE AdvanceFrame
  BY <1>7, <1>10 DEF AdvanceFrame, Simulates
<1>11. CASE Broadcast
  <2>1. PICK n \in Frames :
          /\ Simulates([n EXCEPT !.sequence = @ + 1])
          /\ \E update \in (IF HasBaseline THEN Updates(baseline.state, [n EXCEPT !.sequence = @ + 1])
                            ELSE {Full([n EXCEPT !.sequence = @ + 1])}) :
             \E s \in Sends(link, update) :
                link' = s.link /\ baseline' = Remembered(s.accepted, [n EXCEPT !.sequence = @ + 1])
    BY <1>11 DEF Broadcast
  <2> DEFINE m == [n EXCEPT !.sequence = @ + 1]
  <2> HIDE DEF m
  <2>2. PICK update \in (IF HasBaseline THEN Updates(baseline.state, m) ELSE {Full(m)}) :
           \E s \in Sends(link, update) : link' = s.link /\ baseline' = Remembered(s.accepted, m)
    BY <2>1 DEF m
  <2>3. PICK s \in Sends(link, update) : link' = s.link /\ baseline' = Remembered(s.accepted, m)
    BY <2>2
  <2>4. Simulates(m)
    BY <2>1 DEF m
  <2>5. match' = m /\ had \subseteq had' /\ UNCHANGED <<open, receiver, generation, requests>>
    BY <2>4 DEF Simulates
  <2>6. m \in had' /\ baseline' \in {[generation |-> generation, state |-> m], None}
    BY <1>2, <2>3, <2>5 DEF Remembered
  <2>7. update = Full(m) \/ (HasBaseline /\ update = Delta(baseline.state, m))
    BY <2>2 DEF Updates
  <2>8. HasBaseline => baseline.state \in had'
    BY <1>1, <2>5 DEF HasBaseline, BaselineType, None
  <2>9. update \in Messages(had')
    BY <2>6, <2>7, <2>8, MessagesReal
  <2>10. /\ Connected
         /\ \/ s.accepted = TRUE /\ link'.queue = Append(link.queue, update)
            \/ s.accepted = FALSE /\ link'.queue = link.queue
         /\ Ends(receiver, link.queue) => Ends(receiver', link'.queue)
    BY <1>8, <2>3, <2>5, <2>9
  <2>11. CASE s.accepted = FALSE
    BY <1>1, <2>3, <2>5, <2>11 DEF Remembered, HasBaseline, None
  <2>12. CASE s.accepted = TRUE /\ link'.queue = Append(link.queue, Full(m))
    <3>1. receiver.on = TRUE /\ receiver \in ReceiverType(had') /\ link.queue \in Seq(Messages(had'))
      <4>1. Messages(had) \subseteq Messages(had') /\ ReceiverType(had) \subseteq ReceiverType(had')
        BY <2>5, StillHad
      <4> QED BY <1>1, <1>3, <1>5, <2>5, <4>1 DEF Waiting, ReceiverType
    <3>2. Ends(receiver, Append(link.queue, Full(m)))
      BY <1>2, <2>5, <2>6, <3>1, FullEnds
    <3> QED BY <2>5, <2>12, <3>2
  <2>13. CASE HasBaseline
    BY <1>3, <1>6, <2>5, <2>10, <2>13
  <2> QED BY <2>7, <2>10, <2>11, <2>12, <2>13
<1>12. CASE OtherRefused
  <2>1. PICK s \in Sends(link, StartMessage) : ~s.accepted /\ link' = s.link
    BY <1>12 DEF OtherRefused
  <2>2. StartMessage \in Messages(had') /\ UNCHANGED <<open, receiver, generation, requests>>
    BY <1>12 DEF OtherRefused, Messages
  <2>3. /\ Connected
        /\ Ends(receiver, link.queue) => Ends(receiver', link'.queue)
    BY <1>8, <2>1, <2>2
  <2>4. ~HasBaseline => ~HasBaseline'
    BY <1>1, <1>12, <2>2 DEF OtherRefused, HasBaseline, None
  <2> QED BY <1>3, <1>6, <2>2, <2>3, <2>4
<1>13. CASE Restored
  <2> DEFINE l == [link EXCEPT !.restoring = FALSE]
  <2>1. l \in LinkType(had)
    BY <1>1 DEF LinkType
  <2>2. UNCHANGED <<open, receiver, generation, requests>> /\ UNCHANGED had
    BY <1>13 DEF Restored
  <2>3. started
    BY <1>3, <1>13, <2>2 DEF Restored, Waiting, ReceiverType
  <2>4. PICK s \in Sends(l, StartMessage) : SendSnapshot(s.link)
    BY <1>13, <2>3 DEF Restored
  <2>5. StartMessage \in Messages(had)
    BY DEF Messages
  <2>6. s.link \in LinkType(had)
    BY <2>1, <2>4, <2>5, SendsReal
  <2>7. ~HasBaseline' \/ Ends(receiver, link'.queue)
    BY <1>3, <2>2, <2>4, <2>6, SnapshotAnswers
  <2> QED BY <2>2, <2>7
<1>14. CASE HandleResync
  <2>1. UNCHANGED <<open, receiver, generation>> /\ SendSnapshot(link)
    BY <1>14 DEF HandleResync
  <2>2. ~HasBaseline' \/ Ends(receiver, link'.queue)
    BY <1>1, <1>3, <2>1, SnapshotAnswers
  <2> QED BY <2>1, <2>2
<1>15. CASE ServerLoses
  <2>1. link'.active = FALSE
    BY <1>1, <1>15 DEF ServerLoses, LinkType
  <2> QED BY <1>4, <2>1
<1>16. CASE ClientLoses
  BY <1>4, <1>16 DEF ClientLoses
<1>17. CASE Resume
  <2>1. link'.restoring = TRUE
    BY <1>17 DEF Resume, NewLink
  <2> QED BY <1>4, <2>1
<1>18. CASE Receive
  <2>1. /\ link.queue # <<>> /\ link' = [link EXCEPT !.queue = Tail(@)]
        /\ receiver' = Received(receiver, Head(link.queue))
        /\ requests' = IF receiver'.asked /\ ~receiver.asked /\ link.active
                       THEN requests + 1 ELSE requests
        /\ UNCHANGED <<open, baseline, generation>>
    BY <1>18 DEF Receive
  <2>2. /\ link'.queue = Tail(link.queue) /\ link.active = link'.active
        /\ link.bound = link'.bound /\ link.restoring = link'.restoring
    BY <1>1, <2>1 DEF LinkType
  <2>3. Connected
    BY <1>4, <2>1, <2>2 DEF Connected
  <2>4. CASE ~receiver.asked
    <3>1. requests' = requests + 1
      BY <1>3, <1>4, <2>1, <2>2, <2>4
    <3> QED BY <1>1, <3>1
  <2>5. CASE receiver.asked /\ Ends(receiver, link.queue)
    <3>1. PICK n \in 0 .. Len(link.queue) : ~Becomes(receiver, link.queue)[n].asked
      BY <2>5 DEF Ends
    <3>2. Becomes(receiver, link.queue)[0] = receiver
      BY <1>5, BecomesUnfolds
    <3>3. n # 0
      BY <2>5, <3>1, <3>2
    <3>4. n - 1 \in 0 .. Len(link.queue) - 1 /\ (n - 1) + 1 = n
          /\ Len(Tail(link.queue)) = Len(link.queue) - 1
      BY <1>5, <2>1, <3>3
    <3>5. Becomes(receiver', Tail(link.queue))[n - 1] = Becomes(receiver, link.queue)[n]
      BY <1>5, <2>1, <3>4, BecomesTail
    <3>6. Ends(receiver', Tail(link.queue))
      BY <3>1, <3>4, <3>5 DEF Ends
    <3> QED BY <2>2, <3>6
  <2>6. CASE receiver.asked /\ (requests > 0 \/ ~HasBaseline)
    <3>1. requests' = requests
      BY <2>1, <2>6
    <3> QED BY <2>1, <2>6, <3>1 DEF HasBaseline
  <2> QED BY <1>6, <2>3, <2>4, <2>5, <2>6
<1>19. CASE UNCHANGED vars
  BY <1>7, <1>19 DEF vars
<1> QED
  BY <1>9, <1>10, <1>11, <1>12, <1>13, <1>14, <1>15, <1>16, <1>17, <1>18, <1>19 DEF Next

\* A receiver that waits for a full snapshot is never left waiting: the server, by taking the
\* request, by broadcasting, or by dropping the baseline of a refused send, and the browser,
\* by asking once per wait, never both believe that it is the other's turn
\* (matchMessageService.ts, matchRegistry.ts, MatchDeltaReceiver.ts).
THEOREM ResyncsAreAnswered == Spec => []ResyncAnswered
<1>1. Waiting /\ ResyncAnswered /\ [Next]_vars => Waiting' /\ ResyncAnswered'
  BY NextWaiting, NextAnswered
<1> QED BY InitWaiting, <1>1, PTL DEF Spec

-----------------------------------------------------------------------------
(******************************* the device ********************************)

\* What the variables of the device hold.
Status == {"offline", "connecting", "paired", "error"}
Stage == {"none", "linking", "limiting", "done", "failed"}
Outputs == [Channels -> Nat]
Waves == [Channels -> [loaded : BOOLEAN, stopAt : Nat]]
Writes == [kind : {"frame", "limit"}, value : Nat, output : Outputs]
ControlType ==
    [connection : Status, armed : BOOLEAN, queue : Seq(Contributions), decayAt : Nat,
     sent : Outputs]
TransportType ==
    [present : BOOLEAN, status : Status, stage : Stage, limit : Nat, writing : Nat,
     strength : Outputs, wave : Waves, writes : Seq(Writes)]
DeviceType == [linked : BOOLEAN, limit : Nat, output : Outputs]
StateType == [c : ControlType, t : TransportType]

\* What a frame of the transport makes the device put out.
Made(t) == [ch \in Channels |-> IF t.wave[ch].loaded THEN t.strength[ch] ELSE 0]

LastOf(kind, writes, i) ==
    /\ i \in 1 .. Len(writes) /\ writes[i].kind = kind
    /\ \A j \in 1 .. Len(writes) : i < j => writes[j].kind # kind

\* Once what waits is written the device puts out what the transport would make it put out.
Follows(t, output) ==
    /\ (\A i \in 1 .. Len(t.writes) : t.writes[i].kind # "frame") => output = Made(t)
    /\ \A i : LastOf("frame", t.writes, i) => t.writes[i].output = Made(t)

\* Nothing put out or under way exceeds a limit.
Within(t, output, limit) ==
    /\ \A ch \in Channels : t.strength[ch] <= limit /\ output[ch] <= limit
    /\ \A i \in 1 .. Len(t.writes) : \A ch \in Channels : t.writes[i].output[ch] <= limit

\* The limit is on its way, has arrived, or was not needed yet.
Limits(t, d, limit) ==
    /\ \A i : LastOf("limit", t.writes, i) => t.writes[i].value = limit
    /\ (\A i \in 1 .. Len(t.writes) : t.writes[i].kind # "limit") =>
         d.limit = limit \/ Within(t, d.output, limit)

Serves(t, d, limit) == Follows(t, d.output) /\ Limits(t, d, limit)

\* Messages change waveforms, strengths and what waits to be written.
Rest(t, u) ==
    /\ u \in TransportType /\ u.present = t.present /\ u.status = t.status
    /\ u.stage = t.stage /\ u.limit = t.limit /\ u.writing = t.writing

LEMMA MadeType == ASSUME NEW t \in TransportType PROVE Made(t) \in Outputs
<1>1. t.wave \in Waves /\ t.strength \in Outputs
  BY DEF TransportType
<1> QED BY <1>1 DEF Made, Waves, Outputs

LEMMA FrameIs ==
    ASSUME NEW t \in TransportType
    PROVE  /\ Frame(t) \in Writes /\ Frame(t).kind = "frame" /\ Frame(t).output = Made(t)
<1>1. Frame(t) = [kind |-> "frame", value |-> 0, output |-> Made(t)]
  BY DEF Frame, Made
<1>2. Made(t) \in Outputs
  BY MadeType
<1> HIDE DEF Frame
<1> QED BY <1>1, <1>2 DEF Writes

LEMMA QueueWriteRest ==
    ASSUME NEW t \in TransportType, NEW w \in Writes
    PROVE  /\ Rest(t, QueueWrite(t, w)) /\ QueueWrite(t, w).writes = Append(t.writes, w)
           /\ QueueWrite(t, w).wave = t.wave /\ QueueWrite(t, w).strength = t.strength
<1>1. t.writes \in Seq(Writes)
  BY DEF TransportType
<1>2. Append(t.writes, w) \in Seq(Writes)
  BY <1>1
<1> DEFINE x == Append(t.writes, w)
<1> HIDE DEF x
<1>3. QueueWrite(t, w) = [t EXCEPT !.writes = x]
  BY DEF QueueWrite, x
<1>4. x \in Seq(Writes)
  BY <1>2 DEF x
<1> QED BY <1>3, <1>4 DEF TransportType, Rest, x

\* One more write.
LEMMA WriteAppended ==
    ASSUME NEW s \in Seq(Writes), NEW w \in Writes
    PROVE  /\ Append(s, w) \in Seq(Writes) /\ Len(Append(s, w)) = Len(s) + 1
           /\ Append(s, w)[Len(s) + 1] = w /\ Len(s) \in Nat
           /\ \A i \in 1 .. Len(s) : Append(s, w)[i] = s[i] /\ s[i] \in Writes
           /\ \A kind, i : LastOf(kind, Append(s, w), i) =>
                 IF w.kind = kind THEN i = Len(s) + 1 ELSE LastOf(kind, s, i)
<1>1. /\ Append(s, w) \in Seq(Writes) /\ Len(Append(s, w)) = Len(s) + 1
      /\ Append(s, w)[Len(s) + 1] = w /\ Len(s) \in Nat
      /\ \A i \in 1 .. Len(s) : Append(s, w)[i] = s[i] /\ s[i] \in Writes
  OBVIOUS
<1> DEFINE x == Append(s, w)
           N == Len(s)
<1> HIDE DEF x, N
<1>2. ASSUME NEW kind, NEW i, LastOf(kind, x, i)
      PROVE  IF w.kind = kind THEN i = N + 1 ELSE LastOf(kind, s, i)
  <2>1. /\ i \in 1 .. (N + 1) /\ x[i].kind = kind
        /\ \A j \in 1 .. (N + 1) : i < j => x[j].kind # kind
    BY <1>1, <1>2 DEF LastOf, x, N
  <2>2. /\ N \in Nat /\ x[N + 1] = w /\ \A j \in 1 .. N : x[j] = s[j]
    BY <1>1 DEF x, N
  <2>3. CASE i = N + 1
    BY <2>1, <2>2, <2>3
  <2>4. CASE i # N + 1
    <3>1. i \in 1 .. N /\ i < N + 1 /\ N + 1 \in 1 .. (N + 1)
      BY <2>1, <2>2, <2>4
    <3>2. w.kind # kind
      BY <2>1, <2>2, <3>1
    <3>3. \A j \in 1 .. N : i < j => s[j].kind # kind
      BY <2>1, <2>2
    <3>4. s[i].kind = kind
      BY <2>1, <2>2, <3>1
    <3> QED BY <3>1, <3>2, <3>3, <3>4 DEF LastOf, N
  <2> QED BY <2>3, <2>4
<1> QED BY <1>1, <1>2 DEF x, N

\* A frame that is queued keeps the device to the transport and its limit.
LEMMA QueueFrameServes ==
    ASSUME NEW t \in TransportType, NEW d \in DeviceType, NEW limit \in Nat, Limits(t, d, limit)
    PROVE  /\ Rest(t, QueueFrame(t)) /\ Serves(QueueFrame(t), d, limit)
           /\ QueueFrame(t).wave = t.wave
<1> DEFINE w == Frame(t)
           u == QueueFrame(t)
<1>1. w \in Writes /\ w.kind = "frame" /\ w.output = Made(t)
  BY FrameIs
<1>2. /\ Rest(t, u) /\ u.writes = Append(t.writes, w) /\ u.wave = t.wave
      /\ u.strength = t.strength
  BY <1>1, QueueWriteRest DEF QueueFrame
<1>3. t.writes \in Seq(Writes)
  BY DEF TransportType
<1> DEFINE s == t.writes
           x == Append(s, w)
<1> HIDE DEF w, u
<1>4. /\ Len(x) = Len(s) + 1 /\ x[Len(s) + 1] = w /\ Len(s) \in Nat
      /\ \A i \in 1 .. Len(s) : x[i] = s[i] /\ s[i] \in Writes
      /\ \A kind, i : LastOf(kind, x, i) =>
            IF w.kind = kind THEN i = Len(s) + 1 ELSE LastOf(kind, s, i)
  BY <1>1, <1>3, WriteAppended
<1> HIDE DEF x, s
<1>5. Made(u) = Made(t)
  BY <1>2 DEF Made
<1>6. u.writes = x
  BY <1>2 DEF x, s
<1>7. Len(s) + 1 \in 1 .. Len(x)
  BY <1>4
<1>8. Follows(u, d.output)
  <2>1. ~(\A i \in 1 .. Len(x) : x[i].kind # "frame")
    BY <1>1, <1>4, <1>7
  <2>2. ASSUME NEW i, LastOf("frame", x, i) PROVE x[i].output = Made(u)
    BY <1>1, <1>4, <1>5, <2>2
  <2> QED BY <1>6, <2>1, <2>2 DEF Follows
<1>9. ASSUME NEW i, LastOf("limit", x, i) PROVE x[i].value = limit
  <2>1. LastOf("limit", s, i)
    BY <1>1, <1>4, <1>9
  <2>2. s[i].value = limit /\ i \in 1 .. Len(s)
    BY <2>1 DEF Limits, LastOf, s
  <2> QED BY <1>4, <2>2
<1>10. ASSUME \A i \in 1 .. Len(x) : x[i].kind # "limit"
       PROVE  d.limit = limit \/ Within(u, d.output, limit)
  <2>1. \A i \in 1 .. Len(s) : s[i].kind # "limit" /\ i \in 1 .. Len(x)
    BY <1>4, <1>10
  <2>2. d.limit = limit \/ Within(t, d.output, limit)
    BY <2>1 DEF Limits, s
  <2>3. ASSUME Within(t, d.output, limit) PROVE Within(u, d.output, limit)
    <3>1. \A ch \in Channels : t.strength[ch] <= limit /\ d.output[ch] <= limit
      BY <2>3 DEF Within
    <3>2. \A ch \in Channels : w.output[ch] <= limit
      BY <1>1, <3>1 DEF Made
    <3>3. ASSUME NEW i \in 1 .. Len(x), NEW ch \in Channels PROVE x[i].output[ch] <= limit
      <4>1. CASE i = Len(s) + 1
        BY <1>4, <3>2, <4>1
      <4>2. CASE i # Len(s) + 1
        <5>1. i \in 1 .. Len(s)
          BY <1>4, <4>2
        <5> QED BY <1>4, <2>3, <5>1 DEF Within, s
      <4> QED BY <4>1, <4>2
    <3> QED BY <1>2, <1>6, <3>1, <3>3 DEF Within
  <2> QED BY <2>2, <2>3
<1>11. Limits(u, d, limit)
  BY <1>6, <1>9, <1>10 DEF Limits
<1> QED BY <1>2, <1>8, <1>11 DEF Serves, u

\* Another strength within the limit, or another waveform.
LEMMA StrengthLimits ==
    ASSUME NEW t \in TransportType, NEW d \in DeviceType, NEW limit \in Nat, Limits(t, d, limit),
           NEW ch \in Channels, NEW strength \in Nat, strength <= limit
    PROVE  LET u == [t EXCEPT !.strength[ch] = strength]
           IN  Rest(t, u) /\ u.wave = t.wave /\ u.writes = t.writes /\ Limits(u, d, limit)
<1> DEFINE u == [t EXCEPT !.strength[ch] = strength]
           x == [t.strength EXCEPT ![ch] = strength]
<1>1. x \in Outputs
  BY DEF TransportType, Outputs
<1>2. \A other \in Channels : x[other] = IF other = ch THEN strength ELSE t.strength[other]
  BY DEF TransportType, Outputs
<1>3. u = [t EXCEPT !.strength = x]
  OBVIOUS
<1> HIDE DEF x
<1>4. Rest(t, u) /\ u.wave = t.wave /\ u.writes = t.writes /\ u.strength = x
  BY <1>1, <1>3 DEF TransportType, Rest
<1> HIDE DEF u
<1>5. Within(t, d.output, limit) => Within(u, d.output, limit)
  BY <1>2, <1>4 DEF Within
<1>6. Limits(u, d, limit)
  BY <1>4, <1>5 DEF Limits
<1> QED BY <1>4, <1>6 DEF u

LEMMA WaveLimits ==
    ASSUME NEW t \in TransportType, NEW d, NEW limit, NEW ch \in Channels,
           NEW wave \in [loaded : BOOLEAN, stopAt : Nat]
    PROVE  LET u == [t EXCEPT !.wave[ch] = wave]
           IN  /\ Rest(t, u) /\ u.writes = t.writes /\ u.wave[ch] = wave
               /\ \A other \in Channels \ {ch} : u.wave[other] = t.wave[other]
               /\ Limits(t, d, limit) => Limits(u, d, limit)
<1> DEFINE u == [t EXCEPT !.wave[ch] = wave]
           x == [t.wave EXCEPT ![ch] = wave]
<1>1. x \in Waves /\ x[ch] = wave /\ \A other \in Channels \ {ch} : x[other] = t.wave[other]
  BY DEF TransportType, Waves
<1>2. u = [t EXCEPT !.wave = x]
  OBVIOUS
<1> HIDE DEF x
<1>3. Rest(t, u) /\ u.wave = x /\ u.writes = t.writes /\ u.strength = t.strength
  BY <1>1, <1>2 DEF TransportType, Rest
<1> HIDE DEF u
<1>4. Within(t, d.output, limit) => Within(u, d.output, limit)
  BY <1>3 DEF Within
<1>5. Limits(t, d, limit) => Limits(u, d, limit)
  BY <1>3, <1>4 DEF Limits
<1> QED BY <1>1, <1>3, <1>5 DEF u

LEMMA RestFurther ==
    ASSUME NEW t, NEW u, NEW v, Rest(t, u), Rest(u, v)
    PROVE  Rest(t, v)
BY DEF Rest

\* send, by message.
LEMMA SetStrengthServes ==
    ASSUME NEW t \in TransportType, NEW d \in DeviceType, NEW limit \in Nat,
           NEW ch \in Channels, NEW strength \in Nat, strength <= limit
    PROVE  LET u == SetStrength(t, ch, strength)
           IN  /\ Rest(t, u) /\ u.wave = t.wave
               /\ Serves(t, d, limit) => Serves(u, d, limit)
<1> DEFINE u == SetStrength(t, ch, strength)
           set == [t EXCEPT !.strength[ch] = strength]
<1>1. /\ Rest(t, set) /\ set.wave = t.wave /\ set.writes = t.writes
      /\ Limits(t, d, limit) => Limits(set, d, limit)
  <2>1. Limits(t, d, limit) \/ ~Limits(t, d, limit)
    OBVIOUS
  <2>2. Rest(t, set) /\ set.wave = t.wave /\ set.writes = t.writes
    <3>1. [t.strength EXCEPT ![ch] = strength] \in Outputs
      BY DEF TransportType, Outputs
    <3> QED BY <3>1 DEF TransportType, Rest
  <2> QED BY <2>2, StrengthLimits
<1>2. u = IF \E any \in Channels : set.wave[any].loaded THEN QueueFrame(set) ELSE set
  BY DEF SetStrength
<1> HIDE DEF set, u
<1>3. set \in TransportType
  BY <1>1 DEF Rest
<1>4. CASE \E any \in Channels : set.wave[any].loaded
  <2>1. u = QueueFrame(set)
    BY <1>2, <1>4
  <2>2. Rest(set, u) /\ u.wave = set.wave
    <3>1. Rest(set, QueueFrame(set)) /\ QueueFrame(set).wave = set.wave
      BY <1>3, FrameIs, QueueWriteRest DEF QueueFrame
    <3> QED BY <2>1, <3>1
  <2>3. Limits(set, d, limit) => Serves(u, d, limit)
    BY <1>3, <2>1, QueueFrameServes
  <2>4. Rest(t, u)
    BY <1>1, <2>2, RestFurther
  <2> QED BY <1>1, <2>2, <2>3, <2>4 DEF Serves, u
<1>5. CASE ~\E any \in Channels : set.wave[any].loaded
  <2>1. u = set
    BY <1>2, <1>5
  <2>2. Made(set) = Made(t)
    BY <1>1, <1>5 DEF Made
  <2>3. Follows(t, d.output) => Follows(set, d.output)
    BY <1>1, <2>2 DEF Follows
  <2> QED BY <1>1, <2>1, <2>3 DEF Serves, u
<1> QED BY <1>4, <1>5

LEMMA LoadWaveformServes ==
    ASSUME NEW t \in TransportType, NEW d \in DeviceType, NEW limit \in Nat,
           NEW ch \in Channels, NEW duration \in Nat, now \in Nat
    PROVE  LET u == LoadWaveform(t, ch, duration)
           IN  /\ Rest(t, u) /\ \A other \in Channels \ {ch} : u.wave[other] = t.wave[other]
               /\ Serves(t, d, limit) => Serves(u, d, limit)
<1> DEFINE wave == [loaded |-> TRUE, stopAt |-> now + duration]
           set == [t EXCEPT !.wave[ch] = wave]
           u == LoadWaveform(t, ch, duration)
<1>1. wave \in [loaded : BOOLEAN, stopAt : Nat]
  OBVIOUS
<1>2. u = QueueFrame(set)
  BY DEF LoadWaveform
<1> HIDE DEF wave
<1>3. /\ Rest(t, set) /\ \A other \in Channels \ {ch} : set.wave[other] = t.wave[other]
      /\ Limits(t, d, limit) => Limits(set, d, limit)
  BY <1>1, WaveLimits
<1> HIDE DEF set, u
<1>4. set \in TransportType
  BY <1>3 DEF Rest
<1>5. Rest(set, u) /\ u.wave = set.wave
  BY <1>2, <1>4, FrameIs, QueueWriteRest DEF QueueFrame
<1>6. Limits(set, d, limit) => Serves(u, d, limit)
  BY <1>2, <1>4, QueueFrameServes
<1>7. Rest(t, u)
  BY <1>3, <1>5, RestFurther
<1> QED BY <1>3, <1>5, <1>6, <1>7 DEF Serves, u

LEMMA ClearServes ==
    ASSUME NEW t \in TransportType, NEW d \in DeviceType, NEW limit \in Nat, NEW ch \in Channels
    PROVE  LET u == Clear(t, ch)
           IN  /\ Rest(t, u) /\ ~u.wave[ch].loaded
               /\ \A other \in Channels \ {ch} : u.wave[other] = t.wave[other]
               /\ Serves(t, d, limit) => Serves(u, d, limit)
<1> DEFINE loose == [t EXCEPT !.wave[ch] = NoWave]
           set == [loose EXCEPT !.strength[ch] = 0]
           u == Clear(t, ch)
<1>1. NoWave \in [loaded : BOOLEAN, stopAt : Nat] /\ ~NoWave.loaded
  BY DEF NoWave
<1>2. u = QueueFrame(set)
  BY DEF Clear
<1>3. /\ Rest(t, loose) /\ loose.wave[ch] = NoWave
      /\ \A other \in Channels \ {ch} : loose.wave[other] = t.wave[other]
      /\ Limits(t, d, limit) => Limits(loose, d, limit)
  BY <1>1, WaveLimits
<1> HIDE DEF loose
<1>4. loose \in TransportType
  BY <1>3 DEF Rest
<1>5. /\ Rest(loose, set) /\ set.wave = loose.wave
      /\ Limits(loose, d, limit) => Limits(set, d, limit)
  <2>1. [loose.strength EXCEPT ![ch] = 0] \in Outputs
    BY <1>4 DEF TransportType, Outputs
  <2>2. Rest(loose, set) /\ set.wave = loose.wave
    BY <1>4, <2>1 DEF TransportType, Rest
  <2>3. 0 \in Nat /\ 0 <= limit
    OBVIOUS
  <2> QED BY <1>4, <2>2, <2>3, StrengthLimits
<1> HIDE DEF set, u
<1>6. set \in TransportType
  BY <1>5 DEF Rest
<1>7. Rest(set, u) /\ u.wave = set.wave
  BY <1>2, <1>6, FrameIs, QueueWriteRest DEF QueueFrame
<1>8. Limits(set, d, limit) => Serves(u, d, limit)
  BY <1>2, <1>6, QueueFrameServes
<1>9. Rest(t, u)
  BY <1>3, <1>5, <1>7, RestFurther
<1> QED BY <1>1, <1>3, <1>5, <1>7, <1>8, <1>9 DEF Serves, u

\* The messages of the controller.
LEMMA SendStrengthServes ==
    ASSUME NEW t \in TransportType, NEW d \in DeviceType, NEW limit \in Nat,
           NEW channels \in SUBSET Channels, NEW strength \in Nat, strength <= limit
    PROVE  LET u == SendStrength(t, channels, strength)
           IN  /\ Rest(t, u) /\ u.wave = t.wave
               /\ Serves(t, d, limit) => Serves(u, d, limit)
<1> DEFINE first == IF "A" \in channels THEN SetStrength(t, "A", strength) ELSE t
           u == SendStrength(t, channels, strength)
<1>1. u = IF "B" \in channels THEN SetStrength(first, "B", strength) ELSE first
  BY DEF SendStrength
<1>2. "A" \in Channels /\ "B" \in Channels
  BY DEF Channels
<1>3. /\ Rest(t, first) /\ first.wave = t.wave
      /\ Serves(t, d, limit) => Serves(first, d, limit)
  <2>1. CASE "A" \in channels
    <3>1. first = SetStrength(t, "A", strength)
      BY <2>1
    <3> HIDE DEF first
    <3> QED BY <1>2, <3>1, SetStrengthServes
  <2>2. CASE "A" \notin channels
    BY <2>2 DEF Rest
  <2> QED BY <2>1, <2>2
<1> HIDE DEF first, u
<1>4. first \in TransportType
  BY <1>3 DEF Rest
<1>5. CASE "B" \in channels
  <2>1. u = SetStrength(first, "B", strength)
    BY <1>1, <1>5
  <2>2. /\ Rest(first, u) /\ u.wave = first.wave
        /\ Serves(first, d, limit) => Serves(u, d, limit)
    BY <1>2, <1>4, <2>1, SetStrengthServes
  <2> QED BY <1>3, <2>2, RestFurther DEF u
<1>6. CASE "B" \notin channels
  BY <1>1, <1>3, <1>6 DEF u
<1> QED BY <1>5, <1>6

LEMMA SendWaveformServes ==
    ASSUME NEW t \in TransportType, NEW d \in DeviceType, NEW limit \in Nat,
           NEW channels \in SUBSET Channels, NEW duration \in Nat, now \in Nat
    PROVE  LET u == SendWaveform(t, channels, duration)
           IN  /\ Rest(t, u) /\ \A other \in Channels \ channels : u.wave[other] = t.wave[other]
               /\ Serves(t, d, limit) => Serves(u, d, limit)
<1> DEFINE first == IF "A" \in channels THEN LoadWaveform(t, "A", duration) ELSE t
           u == SendWaveform(t, channels, duration)
<1>1. u = IF "B" \in channels THEN LoadWaveform(first, "B", duration) ELSE first
  BY DEF SendWaveform
<1>2. "A" \in Channels /\ "B" \in Channels
  BY DEF Channels
<1>3. /\ Rest(t, first) /\ \A other \in Channels \ channels : first.wave[other] = t.wave[other]
      /\ Serves(t, d, limit) => Serves(first, d, limit)
  <2>1. CASE "A" \in channels
    <3>1. first = LoadWaveform(t, "A", duration)
      BY <2>1
    <3> HIDE DEF first
    <3>2. /\ Rest(t, first) /\ \A other \in Channels \ {"A"} : first.wave[other] = t.wave[other]
          /\ Serves(t, d, limit) => Serves(first, d, limit)
      BY <1>2, <3>1, LoadWaveformServes
    <3> QED BY <2>1, <3>2
  <2>2. CASE "A" \notin channels
    BY <2>2 DEF Rest
  <2> QED BY <2>1, <2>2
<1> HIDE DEF first, u
<1>4. first \in TransportType
  BY <1>3 DEF Rest
<1>5. CASE "B" \in channels
  <2>1. u = LoadWaveform(first, "B", duration)
    BY <1>1, <1>5
  <2>2. /\ Rest(first, u) /\ \A other \in Channels \ {"B"} : u.wave[other] = first.wave[other]
        /\ Serves(first, d, limit) => Serves(u, d, limit)
    BY <1>2, <1>4, <2>1, LoadWaveformServes
  <2>3. Rest(t, u)
    BY <1>3, <2>2, RestFurther
  <2>4. \A other \in Channels \ channels : u.wave[other] = t.wave[other]
    BY <1>3, <1>5, <2>2
  <2> QED BY <1>3, <2>2, <2>3, <2>4 DEF u
<1>6. CASE "B" \notin channels
  BY <1>1, <1>3, <1>6 DEF u
<1> QED BY <1>5, <1>6

LEMMA SendClearServes ==
    ASSUME NEW t \in TransportType, NEW d \in DeviceType, NEW limit \in Nat,
           NEW channels \in SUBSET Channels
    PROVE  LET u == SendClear(t, channels)
           IN  /\ Rest(t, u) /\ \A ch \in channels : ~u.wave[ch].loaded
               /\ \A other \in Channels \ channels : u.wave[other] = t.wave[other]
               /\ Serves(t, d, limit) => Serves(u, d, limit)
<1> DEFINE first == IF "A" \in channels THEN Clear(t, "A") ELSE t
           second == IF "B" \in channels THEN Clear(first, "B") ELSE first
           u == SendClear(t, channels)
<1>1. u = SendStrength(second, channels, 0)
  BY DEF SendClear
<1>2. Channels = {"A", "B"}
  BY DEF Channels
<1>3. /\ Rest(t, first)
      /\ "A" \in channels => ~first.wave["A"].loaded
      /\ \A other \in Channels \ channels : first.wave[other] = t.wave[other]
      /\ Serves(t, d, limit) => Serves(first, d, limit)
  <2>1. CASE "A" \in channels
    <3>1. first = Clear(t, "A")
      BY <2>1
    <3> HIDE DEF first
    <3>2. /\ Rest(t, first) /\ ~first.wave["A"].loaded
          /\ \A other \in Channels \ {"A"} : first.wave[other] = t.wave[other]
          /\ Serves(t, d, limit) => Serves(first, d, limit)
      BY <1>2, <3>1, ClearServes
    <3> QED BY <2>1, <3>2
  <2>2. CASE "A" \notin channels
    BY <2>2 DEF Rest
  <2> QED BY <2>1, <2>2
<1>4. first \in TransportType
  BY <1>3 DEF Rest
<1> HIDE DEF first
<1>5. /\ Rest(t, second) /\ \A ch \in channels : ~second.wave[ch].loaded
      /\ \A other \in Channels \ channels : second.wave[other] = t.wave[other]
      /\ Serves(t, d, limit) => Serves(second, d, limit)
  <2>1. CASE "B" \in channels
    <3>1. second = Clear(first, "B")
      BY <2>1
    <3> HIDE DEF second
    <3>2. /\ Rest(first, second) /\ ~second.wave["B"].loaded
          /\ \A other \in Channels \ {"B"} : second.wave[other] = first.wave[other]
          /\ Serves(first, d, limit) => Serves(second, d, limit)
      BY <1>2, <1>4, <3>1, ClearServes
    <3>3. Rest(t, second)
      BY <1>3, <3>2, RestFurther
    <3>4. \A ch \in channels : ~second.wave[ch].loaded
      BY <1>2, <1>3, <3>2
    <3>5. \A other \in Channels \ channels : second.wave[other] = t.wave[other]
      BY <1>3, <2>1, <3>2
    <3> QED BY <1>3, <3>2, <3>3, <3>4, <3>5
  <2>2. CASE "B" \notin channels
    <3>1. \A ch \in channels : ch = "A"
      BY <1>2, <2>2
    <3> QED BY <1>3, <2>2, <3>1
  <2> QED BY <2>1, <2>2
<1> HIDE DEF second
<1>6. second \in TransportType
  BY <1>5 DEF Rest
<1>7. Rest(second, u) /\ u.wave = second.wave /\ (Serves(second, d, limit) => Serves(u, d, limit))
  <2>1. 0 \in Nat /\ 0 <= limit
    OBVIOUS
  <2> HIDE DEF u
  <2> QED BY <1>1, <1>6, <2>1, SendStrengthServes
<1> HIDE DEF u
<1>8. Rest(t, u)
  BY <1>5, <1>7, RestFurther
<1> QED BY <1>5, <1>7, <1>8 DEF u

\* The queue of the controller.
LEMMA ContributionType ==
    ASSUME now \in Nat, NEW points \in Nat, NEW duration \in Nat, NEW forceMax \in BOOLEAN
    PROVE  Contribution(points, duration, forceMax) \in Contributions
BY DEF Contribution, Contributions

LEMMA LastingType ==
    ASSUME NEW queue \in Seq(Contributions)
    PROVE  Lasting(queue) \in Seq(Contributions)
BY KeepType DEF Lasting

LEMMA QueueItems ==
    ASSUME NEW queue \in Seq(Contributions)
    PROVE  /\ Len(queue) \in Nat /\ DOMAIN queue = 1 .. Len(queue)
           /\ \A i \in 1 .. Len(queue) :
                /\ queue[i] \in Contributions /\ queue[i].points \in Nat
                /\ queue[i].duration \in Nat /\ queue[i].expiresAt \in Nat
<1>1. /\ Len(queue) \in Nat /\ DOMAIN queue = 1 .. Len(queue)
      /\ \A i \in 1 .. Len(queue) : queue[i] \in Contributions
  OBVIOUS
<1>2. \A item \in Contributions :
        item.points \in Nat /\ item.duration \in Nat /\ item.expiresAt \in Nat
  BY DEF Contributions
<1> QED BY <1>1, <1>2

\* The strength is within the limit of the configuration.
LEMMA TargetWithin ==
    ASSUME NEW queue \in Seq(Contributions), config \in Configs
    PROVE  /\ Target(queue) \in Nat /\ Target(queue) <= config.maxStrength
           /\ config.maxStrength \in Nat
<1> DEFINE numbers == [i \in DOMAIN queue |-> queue[i].points]
           points == Total(numbers)
<1>1. numbers \in Seq(Nat)
  <2>1. Len(queue) \in Nat /\ DOMAIN queue = 1 .. Len(queue)
        /\ \A i \in 1 .. Len(queue) : queue[i].points \in Nat
    BY QueueItems
  <2> QED BY <2>1
<1>2. points \in Nat
  BY <1>1, TotalNat
<1>3. config.maxStrength \in Nat /\ BaseStrength \in Nat
  BY DeviceAssumption
<1> HIDE DEF points
<1> QED BY <1>2, <1>3 DEF Target, points

LEMMA LongestType ==
    ASSUME NEW queue \in Seq(Contributions)
    PROVE  Longest(queue) \in Nat
<1> DEFINE N == Len(queue)
           Longer(x, n) == IF queue[n].duration > x THEN queue[n].duration ELSE x
           Solves(f) == f = [n \in 0 .. Len(queue) |->
                               IF n = 0 THEN MaxQueue
                               ELSE IF queue[n].duration > f[n - 1] THEN queue[n].duration
                               ELSE f[n - 1]]
           F == CHOOSE f : Solves(f)
           g == [n \in 1 .. N |-> [x \in Nat |-> Longer(x, n)]]
<1>1. N \in Nat /\ MaxQueue \in Nat /\ \A n \in 1 .. N : queue[n].duration \in Nat
  <2>1. MaxQueue \in Nat
    BY DeviceAssumption
  <2> QED BY <2>1, QueueItems
<1>2. g \in [1 .. N -> [Nat -> Nat]] /\ \A n \in 1 .. N : \A x \in Nat : g[n][x] = Longer(x, n)
  BY <1>1
<1> HIDE DEF g
<1>3. PICK f \in [0 .. N -> Nat] : f[0] = MaxQueue /\ \A n \in 1 .. N : f[n] = g[n][f[n - 1]]
  <2>1. HasRun(Nat, MaxQueue, N, g)
    BY <1>1, <1>2, Iteration
  <2> QED BY <2>1 DEF HasRun
<1>4. ASSUME NEW n \in 0 .. N PROVE f[n] = IF n = 0 THEN MaxQueue ELSE Longer(f[n - 1], n)
  <2>1. CASE n = 0
    BY <2>1, <1>3
  <2>2. CASE n # 0
    <3>1. n \in 1 .. N /\ n - 1 \in 0 .. N
      BY <2>2, <1>1
    <3>2. f[n] = g[n][f[n - 1]] /\ f[n - 1] \in Nat
      BY <3>1, <1>3
    <3>3. g[n][f[n - 1]] = Longer(f[n - 1], n)
      BY <3>1, <3>2, <1>2
    <3> HIDE DEF Longer
    <3> QED BY <2>2, <3>2, <3>3
  <2> QED BY <2>1, <2>2
<1>5. Solves(f)
  BY <1>4
<1>6. Solves(F)
  BY <1>5
<1>7. Longest(queue) = F[N]
  BY DEF Longest
<1> HIDE DEF F
<1>8. F[0] \in Nat
  BY <1>1, <1>6
<1>9. \A n \in 1 .. N : F[n - 1] \in Nat => F[n] \in Nat
  <2> SUFFICES ASSUME NEW n \in 1 .. N, F[n - 1] \in Nat PROVE F[n] \in Nat
    OBVIOUS
  <2>1. n \in 0 .. N /\ n # 0
    BY <1>1
  <2>2. F[n] = Longer(F[n - 1], n)
    BY <1>6, <2>1
  <2> QED BY <1>1, <2>2
<1>10. F[N] \in Nat
  BY <1>1, <1>8, <1>9, StaysWithin
<1> QED BY <1>7, <1>10

LEMMA NextExpiryType ==
    ASSUME NEW queue \in Seq(Contributions)
    PROVE  NextExpiry(queue) \in Nat
<1> DEFINE N == Len(queue)
           Sooner(x, n) == IF x = 0 \/ queue[n].expiresAt < x THEN queue[n].expiresAt ELSE x
           Solves(f) == f = [n \in 0 .. Len(queue) |->
                               IF n = 0 THEN 0
                               ELSE IF f[n - 1] = 0 \/ queue[n].expiresAt < f[n - 1]
                               THEN queue[n].expiresAt ELSE f[n - 1]]
           F == CHOOSE f : Solves(f)
           g == [n \in 1 .. N |-> [x \in Nat |-> Sooner(x, n)]]
<1>1. N \in Nat /\ 0 \in Nat /\ \A n \in 1 .. N : queue[n].expiresAt \in Nat
  BY QueueItems
<1>2. g \in [1 .. N -> [Nat -> Nat]] /\ \A n \in 1 .. N : \A x \in Nat : g[n][x] = Sooner(x, n)
  BY <1>1
<1> HIDE DEF g
<1>3. PICK f \in [0 .. N -> Nat] : f[0] = 0 /\ \A n \in 1 .. N : f[n] = g[n][f[n - 1]]
  <2>1. HasRun(Nat, 0, N, g)
    BY <1>1, <1>2, Iteration
  <2> QED BY <2>1 DEF HasRun
<1>4. ASSUME NEW n \in 0 .. N PROVE f[n] = IF n = 0 THEN 0 ELSE Sooner(f[n - 1], n)
  <2>1. CASE n = 0
    BY <2>1, <1>3
  <2>2. CASE n # 0
    <3>1. n \in 1 .. N /\ n - 1 \in 0 .. N
      BY <2>2, <1>1
    <3>2. f[n] = g[n][f[n - 1]] /\ f[n - 1] \in Nat
      BY <3>1, <1>3
    <3>3. g[n][f[n - 1]] = Sooner(f[n - 1], n)
      BY <3>1, <3>2, <1>2
    <3> HIDE DEF Sooner
    <3> QED BY <2>2, <3>2, <3>3
  <2> QED BY <2>1, <2>2
<1>5. Solves(f)
  BY <1>4
<1>6. Solves(F)
  BY <1>5
<1>7. NextExpiry(queue) = F[N]
  BY DEF NextExpiry
<1> HIDE DEF F
<1>8. F[0] \in Nat
  BY <1>1, <1>6
<1>9. \A n \in 1 .. N : F[n - 1] \in Nat => F[n] \in Nat
  <2> SUFFICES ASSUME NEW n \in 1 .. N, F[n - 1] \in Nat PROVE F[n] \in Nat
    OBVIOUS
  <2>1. n \in 0 .. N /\ n # 0
    BY <1>1
  <2>2. F[n] = Sooner(F[n - 1], n)
    BY <1>6, <2>1
  <2> QED BY <1>1, <2>2
<1>10. F[N] \in Nat
  BY <1>1, <1>8, <1>9, StaysWithin
<1> QED BY <1>7, <1>10

\* What is left of a contribution is one.
CancelStates == [left : Nat, queue : Seq(Contributions)]
LEMMA CancelOneType ==
    ASSUME now \in Nat, NEW state \in CancelStates, NEW item \in Contributions
    PROVE  CancelOne(state, item) \in CancelStates
<1> DEFINE left == state.left
           points == item.points - left
           share == (item.duration * points) \div item.points
           kept == Contribution(points, IF share = 0 THEN 1 ELSE share, item.forceMax)
<1>1. left \in Nat /\ state.queue \in Seq(Contributions) /\ item.points \in Nat
      /\ item.duration \in Nat /\ item.forceMax \in BOOLEAN
  BY DEF CancelStates, Contributions
<1>2. CASE left = 0
  <2>1. <<item>> \in Seq(Contributions)
    OBVIOUS
  <2>2. <<item>> \o state.queue \in Seq(Contributions)
    BY <1>1, <2>1
  <2>3. CancelOne(state, item) = [state EXCEPT !.queue = <<item>> \o state.queue]
    BY <1>2 DEF CancelOne
  <2> DEFINE x == <<item>> \o state.queue
  <2> HIDE DEF x
  <2>4. x \in Seq(Contributions)
    BY <2>2 DEF x
  <2>5. [state EXCEPT !.queue = x] \in CancelStates
    BY <2>4 DEF CancelStates
  <2> QED BY <2>3, <2>5 DEF x
<1>3. CASE left # 0 /\ item.points <= left
  <2>1. left - item.points \in Nat
    BY <1>1, <1>3
  <2>2. CancelOne(state, item) = [state EXCEPT !.left = left - item.points]
    BY <1>3 DEF CancelOne
  <2> DEFINE x == left - item.points
  <2> HIDE DEF x
  <2>3. x \in Nat
    BY <2>1 DEF x
  <2>4. [state EXCEPT !.left = x] \in CancelStates
    BY <2>3 DEF CancelStates
  <2> QED BY <2>2, <2>4 DEF x
<1>4. CASE left # 0 /\ ~(item.points <= left)
  <2>1. points \in Nat /\ item.points \in Nat \ {0}
    BY <1>1, <1>4
  <2>2. share \in Nat
    <3> DEFINE a == item.duration
               b == points
               c == item.points
    <3>1. a \in Nat /\ b \in Nat /\ c \in Nat \ {0}
      BY <1>1, <2>1
    <3> HIDE DEF a, b, c
    <3>2. a * b \in Nat
      BY <3>1
    <3> DEFINE p == a * b
    <3> HIDE DEF p
    <3>3. p \div c \in Nat
      BY <3>1, <3>2 DEF p
    <3> QED BY <3>3 DEF a, b, c, p
  <2>3. CancelOne(state, item) = [left |-> 0, queue |-> <<kept>> \o state.queue]
    BY <1>4 DEF CancelOne
  <2> HIDE DEF points, share
  <2>4. kept \in Contributions
    <3>1. (IF share = 0 THEN 1 ELSE share) \in Nat
      BY <2>2
    <3> QED BY <1>1, <2>1, <3>1, ContributionType
  <2> HIDE DEF kept
  <2>5. <<kept>> \o state.queue \in Seq(Contributions)
    <3>1. <<kept>> \in Seq(Contributions)
      BY <2>4
    <3> QED BY <1>1, <3>1
  <2> DEFINE x == <<kept>> \o state.queue
  <2> HIDE DEF x
  <2>6. x \in Seq(Contributions)
    BY <2>5 DEF x
  <2>7. [left |-> 0, queue |-> x] \in CancelStates
    BY <2>6 DEF CancelStates
  <2> QED BY <2>3, <2>7 DEF x
<1> QED BY <1>2, <1>3, <1>4

LEMMA CancelledType ==
    ASSUME now \in Nat, NEW queue \in Seq(Contributions), NEW points \in Nat
    PROVE  Cancelled(queue, points) \in Seq(Contributions)
<1> DEFINE N == Len(queue)
           start == [left |-> points, queue |-> <<>>]
           item(n) == queue[Len(queue) + 1 - n]
           Solves(f) == f = [n \in 0 .. Len(queue) |->
                               IF n = 0 THEN [left |-> points, queue |-> <<>>]
                               ELSE CancelOne(f[n - 1], queue[Len(queue) + 1 - n])]
           F == CHOOSE f : Solves(f)
           g == [n \in 1 .. N |-> [x \in CancelStates |-> CancelOne(x, item(n))]]
<1>1. N \in Nat
  OBVIOUS
<1>2. \A n \in 1 .. N : item(n) \in Contributions
  <2> SUFFICES ASSUME NEW n \in 1 .. N PROVE item(n) \in Contributions
    OBVIOUS
  <2>1. N + 1 - n \in 1 .. N
    BY <1>1
  <2> QED BY <2>1
<1>3. start \in CancelStates
  <2>1. <<>> \in Seq(Contributions)
    OBVIOUS
  <2> QED BY <2>1 DEF CancelStates
<1> HIDE DEF item, start
<1>4. \A n \in 1 .. N : \A x \in CancelStates : CancelOne(x, item(n)) \in CancelStates
  BY <1>2, CancelOneType
<1>5. g \in [1 .. N -> [CancelStates -> CancelStates]]
  BY <1>4
<1>6. \A n \in 1 .. N : \A x \in CancelStates : g[n][x] = CancelOne(x, item(n))
  OBVIOUS
<1> HIDE DEF g
<1>7. PICK f \in [0 .. N -> CancelStates] : f[0] = start /\ \A n \in 1 .. N : f[n] = g[n][f[n - 1]]
  <2>1. HasRun(CancelStates, start, N, g)
    BY <1>1, <1>3, <1>5, Iteration
  <2> QED BY <2>1 DEF HasRun
<1>8. ASSUME NEW n \in 0 .. N PROVE f[n] = IF n = 0 THEN start ELSE CancelOne(f[n - 1], item(n))
  <2>1. CASE n = 0
    BY <2>1, <1>7
  <2>2. CASE n # 0
    <3>1. n \in 1 .. N /\ n - 1 \in 0 .. N
      BY <2>2, <1>1
    <3>2. f[n] = g[n][f[n - 1]] /\ f[n - 1] \in CancelStates
      BY <3>1, <1>7
    <3> QED BY <2>2, <3>1, <3>2, <1>6
  <2> QED BY <2>1, <2>2
<1>9. Solves(f)
  BY <1>8 DEF start, item
<1>10. Solves(F)
  BY <1>9
<1>11. Cancelled(queue, points) = F[N].queue
  BY DEF Cancelled
<1> HIDE DEF F
<1>12. \A n \in 0 .. N : F[n] = IF n = 0 THEN start ELSE CancelOne(F[n - 1], item(n))
  BY <1>10 DEF start, item
<1>13. F[0] \in CancelStates
  BY <1>1, <1>3, <1>12
<1>14. \A n \in 1 .. N : F[n - 1] \in CancelStates => F[n] \in CancelStates
  <2> SUFFICES ASSUME NEW n \in 1 .. N, F[n - 1] \in CancelStates PROVE F[n] \in CancelStates
    OBVIOUS
  <2>1. n \in 0 .. N /\ n # 0
    BY <1>1
  <2> QED BY <1>4, <1>12, <2>1
<1> HIDE DEF N
<1>15. F[N] \in CancelStates
  BY <1>1, <1>13, <1>14, StaysWithin
<1> QED BY <1>11, <1>15 DEF CancelStates

\* #stopOutput.
Emptied(c) == [c EXCEPT !.queue = <<>>, !.decayAt = 0, !.sent = Silent]
LEMMA EmptiedType ==
    ASSUME NEW c \in ControlType
    PROVE  /\ Emptied(c) \in ControlType /\ Emptied(c).armed = c.armed
           /\ Emptied(c).connection = c.connection
<1>1. <<>> \in Seq(Contributions) /\ 0 \in Nat /\ Silent \in Outputs
  BY DEF Silent, Outputs
<1> DEFINE x == <<>>
<1> HIDE DEF x
<1>2. x \in Seq(Contributions)
  BY <1>1 DEF x
<1>3. Emptied(c) = [c EXCEPT !.queue = x, !.decayAt = 0, !.sent = Silent]
  BY DEF Emptied, x
<1> QED BY <1>1, <1>2, <1>3 DEF ControlType

LEMMA StopOutputIs ==
    ASSUME NEW s \in StateType, NEW channels \in SUBSET Channels, NEW d \in DeviceType,
           NEW limit \in Nat
    PROVE  LET q == StopOutput(s, channels)
           IN  /\ q \in StateType /\ q.c = Emptied(s.c) /\ Rest(s.t, q.t)
               /\ Serves(s.t, d, limit) => Serves(q.t, d, limit)
               /\ IF s.t.present /\ s.t.status = "paired"
                  THEN \A ch \in Channels :
                         IF ch \in channels THEN ~q.t.wave[ch].loaded ELSE q.t.wave[ch] = s.t.wave[ch]
                  ELSE q.t = s.t
<1> DEFINE told == s.t.present /\ s.t.status = "paired"
           t1 == IF told THEN SendClear(s.t, channels) ELSE s.t
           c1 == Emptied(s.c)
           q == StopOutput(s, channels)
<1>1. s.t \in TransportType /\ s.c \in ControlType /\ s = [c |-> s.c, t |-> s.t]
  BY DEF StateType
<1>2. q = [c |-> c1, t |-> t1]
  <2> DEFINE x == <<>>
  <2>1. q = [s EXCEPT !.c.queue = x, !.c.decayAt = 0, !.c.sent = Silent, !.t = t1]
    BY DEF StopOutput
  <2>2. c1 = [s.c EXCEPT !.queue = x, !.decayAt = 0, !.sent = Silent]
    BY DEF Emptied
  <2> HIDE DEF x, t1, c1, q
  <2> QED BY <1>1, <2>1, <2>2
<1>3. c1 \in ControlType
  BY <1>1, EmptiedType
<1>4. /\ Rest(s.t, t1)
      /\ Serves(s.t, d, limit) => Serves(t1, d, limit)
      /\ told => \A ch \in Channels :
                   IF ch \in channels THEN ~t1.wave[ch].loaded ELSE t1.wave[ch] = s.t.wave[ch]
      /\ ~told => t1 = s.t
  <2>1. CASE told
    <3>1. t1 = SendClear(s.t, channels)
      BY <2>1
    <3> HIDE DEF t1
    <3>2. /\ Rest(s.t, t1)
          /\ \A ch \in channels : ~t1.wave[ch].loaded
          /\ \A other \in Channels \ channels : t1.wave[other] = s.t.wave[other]
          /\ Serves(s.t, d, limit) => Serves(t1, d, limit)
      BY <1>1, <3>1, SendClearServes
    <3> QED BY <2>1, <3>2
  <2>2. CASE ~told
    BY <1>1, <2>2 DEF Rest
  <2> QED BY <2>1, <2>2
<1> HIDE DEF t1, c1, q
<1>5. t1 \in TransportType
  BY <1>4 DEF Rest
<1>6. q \in StateType /\ q.c = c1 /\ q.t = t1
  BY <1>2, <1>3, <1>5 DEF StateType
<1> QED BY <1>4, <1>6 DEF q, c1

\* disarm, without a transport that is paired: nothing is sent.
LEMMA DisarmedIs ==
    ASSUME NEW s \in StateType, NEW channels \in SUBSET Channels, NEW d \in DeviceType,
           NEW limit \in Nat
    PROVE  LET q == Disarmed(s, channels)
           IN  /\ q \in StateType /\ ~q.c.armed /\ Rest(s.t, q.t)
               /\ q.c.connection = s.c.connection
               /\ Serves(s.t, d, limit) => Serves(q.t, d, limit)
               /\ IF s.t.present /\ s.t.status = "paired"
                  THEN \A ch \in Channels :
                         IF ch \in channels THEN ~q.t.wave[ch].loaded ELSE q.t.wave[ch] = s.t.wave[ch]
                  ELSE q.t = s.t
<1> DEFINE c1 == [s.c EXCEPT !.armed = FALSE]
           s1 == [s EXCEPT !.c.armed = FALSE]
           q == Disarmed(s, channels)
<1>1. s.t \in TransportType /\ s.c \in ControlType /\ s = [c |-> s.c, t |-> s.t]
  BY DEF StateType
<1>2. c1 \in ControlType /\ ~c1.armed /\ c1.connection = s.c.connection
  BY <1>1 DEF ControlType
<1>3. s1 = [c |-> c1, t |-> s.t]
  <2>1. s1 = [s EXCEPT !.c = c1]
    OBVIOUS
  <2> HIDE DEF c1, s1
  <2> QED BY <1>1, <2>1
<1> HIDE DEF c1
<1>4. s1 \in StateType /\ s1.c = c1 /\ s1.t = s.t
  BY <1>1, <1>2, <1>3 DEF StateType
<1>5. q = StopOutput(s1, channels)
  BY DEF Disarmed
<1> HIDE DEF s1, q
<1>6. /\ q \in StateType /\ q.c = Emptied(s1.c) /\ Rest(s1.t, q.t)
      /\ Serves(s1.t, d, limit) => Serves(q.t, d, limit)
      /\ IF s1.t.present /\ s1.t.status = "paired"
         THEN \A ch \in Channels :
                IF ch \in channels THEN ~q.t.wave[ch].loaded ELSE q.t.wave[ch] = s1.t.wave[ch]
         ELSE q.t = s1.t
  BY <1>4, <1>5, StopOutputIs
<1>7. ~q.c.armed /\ q.c.connection = s.c.connection
  BY <1>2, <1>4, <1>6, EmptiedType
<1> QED BY <1>4, <1>6, <1>7 DEF q

\* The status callback: what is not paired is disarmed, and nothing is sent.
LEMMA SetStatusIs ==
    ASSUME NEW s \in StateType, NEW status \in Status, config \in Configs
    PROVE  LET q == SetStatus(s, status)
           IN  /\ q \in StateType /\ q.t = [s.t EXCEPT !.status = status]
               /\ q.c.armed <=> s.c.armed /\ status = "paired"
               /\ q.c.connection = status
<1> DEFINE c1 == [s.c EXCEPT !.connection = status, !.armed = @ /\ status = "paired"]
           t1 == [s.t EXCEPT !.status = status]
           set == [s EXCEPT !.t.status = status, !.c.connection = status,
                            !.c.armed = @ /\ status = "paired"]
           q == SetStatus(s, status)
<1>1. s.t \in TransportType /\ s.c \in ControlType /\ s = [c |-> s.c, t |-> s.t]
  BY DEF StateType
<1>2. /\ c1 \in ControlType /\ (c1.armed <=> s.c.armed /\ status = "paired")
      /\ c1.connection = status
  <2> DEFINE b == s.c.armed /\ status = "paired"
  <2>1. c1 = [s.c EXCEPT !.connection = status, !.armed = b]
    BY <1>1 DEF ControlType
  <2>2. b \in BOOLEAN /\ (b <=> s.c.armed /\ status = "paired")
    BY <1>1 DEF ControlType
  <2> HIDE DEF b
  <2> QED BY <1>1, <2>1, <2>2 DEF ControlType
<1>3. t1 \in TransportType /\ t1.status = status
  BY <1>1 DEF TransportType
<1>4. set = [c |-> c1, t |-> t1]
  <2>1. set = [s EXCEPT !.t = t1, !.c = c1]
    OBVIOUS
  <2> HIDE DEF c1, t1, set
  <2> QED BY <1>1, <2>1
<1> HIDE DEF c1
<1>5. q = IF status \in {"offline", "error"} THEN StopOutput(set, config.channels) ELSE set
  <2> HIDE DEF set
  <2> QED BY DEF SetStatus, set
<1> HIDE DEF t1, q
<1>6. set \in StateType /\ set.c = c1 /\ set.t = t1
  BY <1>2, <1>3, <1>4 DEF StateType
<1> HIDE DEF set
<1>7. CASE status \in {"offline", "error"}
  <2>1. config.channels \in SUBSET Channels
    BY DeviceAssumption
  <2>2. q = StopOutput(set, config.channels)
    BY <1>5, <1>7
  <2>3. \E d \in DeviceType : TRUE
    <3>1. [linked |-> FALSE, limit |-> 0, output |-> Silent] \in DeviceType
      BY DEF DeviceType, Outputs, Silent
    <3> QED BY <3>1
  <2>4. q \in StateType /\ q.c = Emptied(set.c) /\ (set.t.status # "paired" => q.t = set.t)
    BY <1>6, <2>1, <2>2, <2>3, StopOutputIs
  <2>5. q.t = t1
    BY <1>3, <1>6, <1>7, <2>4
  <2>6. q.c.armed = c1.armed /\ q.c.connection = c1.connection
    BY <1>2, <1>6, <2>4, EmptiedType
  <2> QED BY <1>2, <2>4, <2>5, <2>6 DEF q, t1
<1>8. CASE status \notin {"offline", "error"}
  BY <1>2, <1>5, <1>6, <1>8 DEF q, t1
<1> QED BY <1>7, <1>8

LEMMA AbsentType ==
    /\ Absent \in TransportType /\ ~Absent.present /\ Absent.status = "offline"
    /\ Absent.stage = "none" /\ Absent.writes = <<>> /\ Absent.strength = Silent
    /\ \A ch \in Channels : ~Absent.wave[ch].loaded
    /\ Absent.wave \in Waves
<1>1. Silent \in Outputs
  BY DEF Silent, Outputs
<1>2. [ch \in Channels |-> NoWave] \in Waves
  BY DEF NoWave, Waves
<1>3. \A ch \in Channels : ~[other \in Channels |-> NoWave][ch].loaded
  BY DEF NoWave
<1> DEFINE w == [ch \in Channels |-> NoWave]
           x == <<>>
<1>4. x \in Seq(Writes)
  OBVIOUS
<1>5. Absent = [present |-> FALSE, status |-> "offline", stage |-> "none", limit |-> 0, writing |-> 0,
                strength |-> Silent, wave |-> w, writes |-> x]
  BY DEF Absent
<1> HIDE DEF w, x
<1>6. w \in Waves /\ \A ch \in Channels : ~w[ch].loaded
  BY <1>2, <1>3 DEF w
<1>7. Absent \in TransportType
  BY <1>1, <1>4, <1>5, <1>6 DEF TransportType, Status, Stage
<1> QED BY <1>5, <1>6, <1>7 DEF x

\* #disposeTransport.
LEMMA DisposedIs ==
    ASSUME NEW s \in StateType, config \in Configs
    PROVE  LET q == Disposed(s)
           IN  /\ q \in StateType
               /\ s.t.present => ~q.c.armed /\ q.t = Absent /\ q.c.connection = "offline"
               /\ ~s.t.present => q = s
<1> DEFINE t1 == [s.t EXCEPT !.wave = Absent.wave]
           s1 == [s EXCEPT !.t.wave = Absent.wave]
           r == SetStatus(s1, "offline")
           q == Disposed(s)
<1>1. s.t \in TransportType /\ s.c \in ControlType /\ s = [c |-> s.c, t |-> s.t]
  BY DEF StateType
<1>2. CASE s.t.present
  <2>1. t1 \in TransportType
    BY <1>1, AbsentType DEF TransportType
  <2>2. s1 = [c |-> s.c, t |-> t1]
    BY <1>1
  <2> HIDE DEF t1
  <2>3. s1 \in StateType
    BY <1>1, <2>1, <2>2 DEF StateType
  <2>4. q = [r EXCEPT !.t = Absent]
    BY <1>2 DEF Disposed
  <2> HIDE DEF s1
  <2>5. /\ r \in StateType /\ (r.c.armed <=> s1.c.armed /\ "offline" = "paired")
        /\ r.c.connection = "offline"
    BY <2>3, SetStatusIs DEF Status
  <2> HIDE DEF r, q
  <2>6. ~r.c.armed
    BY <2>5
  <2>7. q \in StateType /\ q.c = r.c /\ q.t = Absent
    BY <2>4, <2>5, AbsentType DEF StateType
  <2> QED BY <1>2, <2>5, <2>6, <2>7 DEF q
<1>3. CASE ~s.t.present
  BY <1>3 DEF Disposed
<1> QED BY <1>2, <1>3

\* setSafetyLimit: the new limit is the last one on its way.
LEMMA SafetyLimitIs ==
    ASSUME NEW s \in StateType, NEW d \in DeviceType, NEW limit \in Nat
    PROVE  LET q == SafetyLimit(s, limit)
           IN  /\ q \in StateType /\ q.c = s.c
               /\ q.t.present = s.t.present /\ q.t.status = s.t.status /\ q.t.stage = s.t.stage
               /\ q.t.wave = s.t.wave /\ q.t.strength = s.t.strength
               /\ s.t.status # "paired" => q.t.writes = s.t.writes
               /\ s.t.status = "paired" /\ Follows(s.t, d.output) => Serves(q.t, d, limit)
<1> DEFINE t1 == [s.t EXCEPT !.limit = limit]
           set == [s EXCEPT !.t.limit = limit]
           w == SoftLimit(limit)
           q == SafetyLimit(s, limit)
<1>1. s.t \in TransportType /\ s.c \in ControlType /\ s = [c |-> s.c, t |-> s.t]
  BY DEF StateType
<1>2. /\ t1 \in TransportType /\ t1.present = s.t.present /\ t1.status = s.t.status
      /\ t1.stage = s.t.stage /\ t1.wave = s.t.wave /\ t1.strength = s.t.strength
      /\ t1.writes = s.t.writes
  BY <1>1 DEF TransportType
<1>3. set = [c |-> s.c, t |-> t1]
  <2>1. set = [s EXCEPT !.t = t1]
    OBVIOUS
  <2> HIDE DEF t1, set
  <2> QED BY <1>1, <2>1
<1>4. w \in Writes /\ w.kind = "limit" /\ w.value = limit
  <2>1. Silent \in Outputs
    BY DEF Silent, Outputs
  <2> QED BY <2>1 DEF SoftLimit, Writes
<1>5. q = IF s.t.status = "paired" THEN [set EXCEPT !.t = QueueWrite(set.t, w)] ELSE set
  <2> HIDE DEF set, w
  <2> QED BY DEF SafetyLimit, set, w
<1> HIDE DEF t1, set, w, q
<1>6. set \in StateType /\ set.c = s.c /\ set.t = t1
  BY <1>1, <1>2, <1>3 DEF StateType
<1>7. CASE s.t.status = "paired"
  <2> DEFINE u == QueueWrite(t1, w)
  <2>1. /\ Rest(t1, u) /\ u.writes = Append(t1.writes, w) /\ u.wave = t1.wave
        /\ u.strength = t1.strength
    BY <1>2, <1>4, QueueWriteRest
  <2>2. q = [set EXCEPT !.t = u]
    BY <1>5, <1>6, <1>7
  <2> HIDE DEF u
  <2>3. u \in TransportType
    BY <2>1 DEF Rest
  <2>4. q \in StateType /\ q.c = s.c /\ q.t = u
    BY <1>1, <1>6, <2>2, <2>3 DEF StateType
  <2>5. ASSUME Follows(s.t, d.output) PROVE Serves(u, d, limit)
    <3> DEFINE y == s.t.writes
               x == Append(y, w)
    <3>1. y \in Seq(Writes)
      BY <1>1 DEF TransportType
    <3> HIDE DEF y
    <3>2. /\ Len(x) = Len(y) + 1 /\ x[Len(y) + 1] = w /\ Len(y) \in Nat
          /\ \A i \in 1 .. Len(y) : x[i] = y[i] /\ y[i] \in Writes
          /\ \A kind, i : LastOf(kind, x, i) =>
                IF w.kind = kind THEN i = Len(y) + 1 ELSE LastOf(kind, y, i)
      BY <1>4, <3>1, WriteAppended
    <3> HIDE DEF x
    <3>3. u.writes = x
      BY <1>2, <2>1 DEF x, y
    <3>4. Made(u) = Made(s.t)
      BY <1>2, <2>1 DEF Made
    <3>5. Len(y) + 1 \in 1 .. Len(x) /\ \A i \in 1 .. Len(y) : i \in 1 .. Len(x)
      BY <3>2
    <3>6. ASSUME \A i \in 1 .. Len(x) : x[i].kind # "frame" PROVE d.output = Made(u)
      <4>1. \A i \in 1 .. Len(y) : y[i].kind # "frame"
        BY <3>2, <3>5, <3>6
      <4> QED BY <2>5, <3>4, <4>1 DEF Follows, y
    <3>7. ASSUME NEW i, LastOf("frame", x, i) PROVE x[i].output = Made(u)
      <4>1. LastOf("frame", y, i)
        BY <1>4, <3>2, <3>7
      <4>2. y[i].output = Made(u) /\ i \in 1 .. Len(y)
        BY <2>5, <3>4, <4>1 DEF Follows, LastOf, y
      <4> QED BY <3>2, <4>2
    <3>8. ASSUME NEW i, LastOf("limit", x, i) PROVE x[i].value = limit
      BY <1>4, <3>2, <3>8
    <3>9. ~\A i \in 1 .. Len(x) : x[i].kind # "limit"
      BY <1>4, <3>2, <3>5
    <3> QED BY <3>3, <3>6, <3>7, <3>8, <3>9 DEF Serves, Follows, Limits
  <2>6. u.present = s.t.present /\ u.status = s.t.status /\ u.stage = s.t.stage
    BY <1>2, <2>1 DEF Rest
  <2>7. u.wave = s.t.wave /\ u.strength = s.t.strength
    BY <1>2, <2>1
  <2> QED BY <1>7, <2>4, <2>5, <2>6, <2>7 DEF q
<1>8. CASE s.t.status # "paired"
  <2>1. q = set
    BY <1>5, <1>8
  <2> QED BY <1>2, <1>6, <1>8, <2>1 DEF q
<1> QED BY <1>7, <1>8

\* #refreshOutput: what is put out belongs to the channels of the configuration and stays
\* within its limit.
LEMMA RefreshedIs ==
    ASSUME NEW s \in StateType, NEW d \in DeviceType, config \in Configs, now \in Nat
    PROVE  LET q == Refreshed(s)
           IN  /\ q \in StateType /\ q.c.armed = s.c.armed /\ q.c.connection = s.c.connection
               /\ Rest(s.t, q.t)
               /\ \A ch \in Channels \ config.channels :
                     q.t.wave[ch].loaded => s.t.wave[ch].loaded
               /\ Serves(s.t, d, config.maxStrength) => Serves(q.t, d, config.maxStrength)
<1> DEFINE queue == Lasting(s.c.queue)
           strength == Target(queue)
           active == \E ch \in config.channels : s.c.sent[ch] > 0
           waved == IF active THEN s.t ELSE SendWaveform(s.t, config.channels, Longest(queue))
           sent == [ch \in Channels |-> IF ch \in config.channels THEN strength ELSE s.c.sent[ch]]
           decayAt == NextExpiry(queue)
           c1 == [s.c EXCEPT !.queue = queue, !.sent = sent, !.decayAt = decayAt]
           t1 == IF strength > 0 THEN SendStrength(waved, config.channels, strength)
                 ELSE IF active THEN SendClear(s.t, config.channels) ELSE s.t
           limit == config.maxStrength
           q == Refreshed(s)
<1>1. q = [c |-> c1, t |-> t1]
  BY DEF Refreshed
<1>2. s.t \in TransportType /\ s.c \in ControlType
  BY DEF StateType
<1>3. queue \in Seq(Contributions)
  <2>1. s.c.queue \in Seq(Contributions)
    BY <1>2 DEF ControlType
  <2> QED BY <2>1, LastingType
<1> HIDE DEF queue
<1>4. strength \in Nat /\ strength <= limit /\ limit \in Nat
  BY <1>3, TargetWithin
<1>5. config.channels \in SUBSET Channels
  BY DeviceAssumption
<1> HIDE DEF strength, limit
<1>6. sent \in Outputs /\ decayAt \in Nat
  <2>1. s.c.sent \in Outputs
    BY <1>2 DEF ControlType
  <2>2. sent \in Outputs
    BY <1>4, <2>1 DEF Outputs
  <2>3. decayAt \in Nat
    BY <1>3, NextExpiryType
  <2> QED BY <2>2, <2>3
<1> HIDE DEF sent, decayAt, active
<1>7. c1 \in ControlType /\ c1.armed = s.c.armed /\ c1.connection = s.c.connection
  BY <1>2, <1>3, <1>6 DEF ControlType
<1> HIDE DEF c1
<1>8. /\ Rest(s.t, waved)
      /\ \A ch \in Channels \ config.channels : waved.wave[ch] = s.t.wave[ch]
      /\ Serves(s.t, d, limit) => Serves(waved, d, limit)
  <2>1. CASE active
    BY <1>2, <2>1 DEF Rest
  <2>2. CASE ~active
    <3>1. waved = SendWaveform(s.t, config.channels, Longest(queue))
      BY <2>2
    <3>2. Longest(queue) \in Nat
      BY <1>3, LongestType
    <3> HIDE DEF waved
    <3> QED BY <1>2, <1>4, <1>5, <3>1, <3>2, SendWaveformServes
  <2> QED BY <2>1, <2>2
<1>9. waved \in TransportType
  BY <1>8 DEF Rest
<1> HIDE DEF waved
<1>10. /\ Rest(s.t, t1)
       /\ \A ch \in Channels \ config.channels : t1.wave[ch] = s.t.wave[ch]
       /\ Serves(s.t, d, limit) => Serves(t1, d, limit)
  <2>1. CASE strength > 0
    <3>1. t1 = SendStrength(waved, config.channels, strength)
      BY <2>1
    <3> HIDE DEF t1
    <3>2. /\ Rest(waved, t1) /\ t1.wave = waved.wave
          /\ Serves(waved, d, limit) => Serves(t1, d, limit)
      BY <1>4, <1>5, <1>9, <3>1, SendStrengthServes
    <3>3. Rest(s.t, t1)
      BY <1>8, <3>2, RestFurther
    <3> QED BY <1>8, <3>2, <3>3
  <2>2. CASE ~(strength > 0) /\ active
    <3>1. t1 = SendClear(s.t, config.channels)
      BY <2>2
    <3> HIDE DEF t1
    <3> QED BY <1>2, <1>4, <1>5, <3>1, SendClearServes
  <2>3. CASE ~(strength > 0) /\ ~active
    BY <1>2, <2>3 DEF Rest
  <2> QED BY <2>1, <2>2, <2>3
<1> HIDE DEF t1, q
<1>11. t1 \in TransportType
  BY <1>10 DEF Rest
<1>12. q \in StateType /\ q.c = c1 /\ q.t = t1
  BY <1>1, <1>7, <1>11 DEF StateType
<1> QED BY <1>7, <1>10, <1>12 DEF q, limit

\* What holds of the controller, its transport and the device, whose writes may have failed.
Coupled(c, t) ==
    /\ c.armed => t.status = "paired"
    /\ c.connection = "paired" => t.status = "paired"
    /\ t.status = "paired" => t.stage = "done"
    /\ t.stage # "none" => t.present

\* A connection that is being made has nothing to put out.
Starting(t, d) ==
    t.stage \in {"linking", "limiting"} =>
        /\ t.writes = <<>> /\ t.strength = Silent
        /\ \A ch \in Channels : ~t.wave[ch].loaded
        /\ t.stage = "limiting" /\ d.linked => d.output = Silent

\* Waveforms are those of an armed controller on the channels it stops, and the device follows.
Sound(c, t, d, f, cfg) ==
    ~f => /\ \A ch \in Channels : t.wave[ch].loaded => c.armed /\ ch \in cfg.channels
          /\ d.linked /\ t.status = "paired" => Serves(t, d, cfg.maxStrength)

Sane(c, t, d, f, cfg) ==
    /\ c \in ControlType /\ t \in TransportType /\ d \in DeviceType /\ f \in BOOLEAN
    /\ cfg \in Configs
    /\ Coupled(c, t) /\ Starting(t, d) /\ Sound(c, t, d, f, cfg)

DeviceInv == now \in Nat /\ Sane(control, transport, device, failed, config)

LEMMA SaneParts ==
    ASSUME DeviceInv
    PROVE  /\ now \in Nat /\ config \in Configs /\ failed \in BOOLEAN
           /\ control \in ControlType /\ transport \in TransportType /\ device \in DeviceType
           /\ Coupled(control, transport) /\ Starting(transport, device)
           /\ Sound(control, transport, device, failed, config)
           /\ State \in StateType /\ State.c = control /\ State.t = transport
           /\ State = [c |-> control, t |-> transport]
           /\ config.channels \in SUBSET Channels /\ config.maxStrength \in Nat
<1>1. /\ now \in Nat /\ config \in Configs /\ failed \in BOOLEAN
      /\ control \in ControlType /\ transport \in TransportType /\ device \in DeviceType
      /\ Coupled(control, transport) /\ Starting(transport, device)
      /\ Sound(control, transport, device, failed, config)
  BY DEF DeviceInv, Sane
<1>2. /\ State \in StateType /\ State.c = control /\ State.t = transport
      /\ State = [c |-> control, t |-> transport]
  BY <1>1 DEF State, StateType
<1>3. config.channels \in SUBSET Channels /\ config.maxStrength \in Nat
  BY <1>1, DeviceAssumption
<1> QED BY <1>1, <1>2, <1>3

\* The transport under another status.
LEMMA StatusIs ==
    ASSUME NEW t \in TransportType, NEW status \in Status
    PROVE  LET u == [t EXCEPT !.status = status]
           IN  /\ u \in TransportType /\ u.status = status /\ u.present = t.present
               /\ u.stage = t.stage /\ u.wave = t.wave /\ u.strength = t.strength
               /\ u.writes = t.writes
BY DEF TransportType

\* The steps of the connection.
LEMMA ConnectStep ==
    ASSUME DeviceInv, Connect
    PROVE  DeviceInv'
<1> DEFINE fresh == [Absent EXCEPT !.present = TRUE, !.stage = "linking",
                                   !.limit = config.maxStrength]
           r == Disposed(State)
           s1 == [r EXCEPT !.t = fresh]
           q == SetStatus(s1, "connecting")
           u == [fresh EXCEPT !.status = "connecting"]
<1>1. /\ now \in Nat /\ config \in Configs /\ State \in StateType /\ device \in DeviceType
      /\ config.maxStrength \in Nat /\ State.t = transport /\ State.c = control
      /\ Coupled(control, transport)
  BY SaneParts
<1>2. /\ Assign(q) /\ device' = [device EXCEPT !.linked = FALSE] /\ failed' = FALSE
      /\ now' = now /\ config' = config
  BY DEF Connect
<1>3. /\ fresh \in TransportType /\ fresh.present /\ fresh.stage = "linking"
      /\ fresh.writes = <<>> /\ fresh.strength = Silent
      /\ \A ch \in Channels : ~fresh.wave[ch].loaded
  BY <1>1, AbsentType DEF TransportType, Stage
<1> HIDE DEF fresh
<1>4. r \in StateType
  BY <1>1, DisposedIs
<1> HIDE DEF r
<1>5. s1 \in StateType /\ s1.t = fresh
  BY <1>3, <1>4 DEF StateType
<1> HIDE DEF s1
<1>6. q \in StateType /\ q.t = u /\ ~q.c.armed /\ q.c.connection = "connecting"
  <2>1. "connecting" \in Status /\ "connecting" # "paired"
    BY DEF Status
  <2>2. q.c.armed <=> s1.c.armed /\ "connecting" = "paired"
    BY <1>1, <1>5, <2>1, SetStatusIs
  <2> QED BY <1>1, <1>5, <2>1, <2>2, SetStatusIs
<1>7. /\ u \in TransportType /\ u.present /\ u.stage = "linking" /\ u.status = "connecting"
      /\ u.writes = <<>> /\ u.strength = Silent
      /\ \A ch \in Channels : ~u.wave[ch].loaded
  <2>1. "connecting" \in Status
    BY DEF Status
  <2>2. /\ u \in TransportType /\ u.status = "connecting" /\ u.present = fresh.present
        /\ u.stage = fresh.stage /\ u.wave = fresh.wave /\ u.strength = fresh.strength
        /\ u.writes = fresh.writes
    BY <1>3, <2>1, StatusIs
  <2> HIDE DEF u
  <2> QED BY <1>3, <2>2
<1> HIDE DEF u, q
<1>8. control' = q.c /\ transport' = u /\ q.c \in ControlType
  BY <1>2, <1>6 DEF Assign, StateType
<1>9. device' \in DeviceType /\ ~device'.linked
  BY <1>1, <1>2 DEF DeviceType
<1>10. Coupled(control', transport')
  BY <1>6, <1>7, <1>8 DEF Coupled
<1>11. Starting(transport', device')
  BY <1>7, <1>8 DEF Starting
<1>12. Sound(control', transport', device', failed', config')
  BY <1>7, <1>8, <1>9 DEF Sound
<1> QED BY <1>1, <1>2, <1>7, <1>8, <1>9, <1>10, <1>11, <1>12 DEF DeviceInv, Sane

LEMMA DisconnectStep ==
    ASSUME DeviceInv, Disconnect
    PROVE  DeviceInv'
<1> DEFINE r == Disarmed(State, config.channels)
           v == Disposed(r)
           q == [v EXCEPT !.c.connection = "offline"]
           c1 == [v.c EXCEPT !.connection = "offline"]
<1>1. /\ now \in Nat /\ config \in Configs /\ State \in StateType /\ device \in DeviceType
      /\ failed \in BOOLEAN /\ config.channels \in SUBSET Channels /\ config.maxStrength \in Nat
      /\ State.t = transport
  BY SaneParts
<1>2. /\ Assign(q) /\ device' = [device EXCEPT !.linked = FALSE] /\ failed' = failed
      /\ now' = now /\ config' = config /\ transport.present
  BY DEF Disconnect
<1>3. r \in StateType /\ r.t.present
  <2>1. r \in StateType /\ Rest(State.t, r.t)
    BY <1>1, DisarmedIs
  <2> HIDE DEF r
  <2> QED BY <1>1, <1>2, <2>1 DEF Rest
<1> HIDE DEF r
<1>4. v \in StateType /\ ~v.c.armed /\ v.t = Absent
  BY <1>1, <1>3, DisposedIs
<1> HIDE DEF v
<1>5. v = [c |-> v.c, t |-> v.t] /\ v.c \in ControlType
  BY <1>4 DEF StateType
<1>6. c1 \in ControlType /\ ~c1.armed /\ c1.connection = "offline"
  BY <1>4, <1>5 DEF ControlType, Status
<1>7. q = [c |-> c1, t |-> Absent]
  <2>1. q = [v EXCEPT !.c = c1]
    OBVIOUS
  <2> HIDE DEF c1, q
  <2> QED BY <1>4, <1>5, <2>1
<1> HIDE DEF c1, q
<1>8. control' = c1 /\ transport' = Absent
  BY <1>2, <1>7 DEF Assign
<1>9. device' \in DeviceType /\ ~device'.linked
  BY <1>1, <1>2 DEF DeviceType
<1>10. Coupled(control', transport')
  BY <1>6, <1>8, AbsentType DEF Coupled
<1>11. Starting(transport', device')
  BY <1>8, AbsentType DEF Starting
<1>12. Sound(control', transport', device', failed', config')
  BY <1>8, <1>9, AbsentType DEF Sound
<1> QED BY <1>1, <1>2, <1>6, <1>8, <1>9, <1>10, <1>11, <1>12, AbsentType DEF DeviceInv, Sane

LEMMA LinkStep ==
    ASSUME DeviceInv, Link
    PROVE  DeviceInv'
<1> DEFINE u == [transport EXCEPT !.stage = "limiting", !.writing = transport.limit]
           d == [device EXCEPT !.linked = TRUE, !.output = Silent]
<1>1. /\ now \in Nat /\ config \in Configs /\ device \in DeviceType /\ failed \in BOOLEAN
      /\ transport \in TransportType /\ control \in ControlType
      /\ Coupled(control, transport) /\ Starting(transport, device)
  BY SaneParts
<1>2. /\ transport' = u /\ device' = d /\ control' = control /\ failed' = failed
      /\ now' = now /\ config' = config /\ transport.stage = "linking"
  BY DEF Link
<1>3. /\ u \in TransportType /\ u.stage = "limiting" /\ u.status = transport.status
      /\ u.present = transport.present /\ u.wave = transport.wave
      /\ u.strength = transport.strength /\ u.writes = transport.writes
  BY <1>1 DEF TransportType, Stage
<1>4. d \in DeviceType /\ d.output = Silent
  <2>1. Silent \in Outputs
    BY DEF Silent, Outputs
  <2> QED BY <1>1, <2>1 DEF DeviceType
<1> HIDE DEF u, d
<1>5. transport.status # "paired" /\ Coupled(control, u)
  BY <1>1, <1>2, <1>3 DEF Coupled
<1>6. Starting(u, d) /\ \A ch \in Channels : ~u.wave[ch].loaded
  BY <1>1, <1>2, <1>3, <1>4 DEF Starting
<1>7. Sound(control, u, d, failed, config)
  BY <1>3, <1>5, <1>6 DEF Sound
<1> QED BY <1>1, <1>2, <1>3, <1>4, <1>5, <1>6, <1>7 DEF DeviceInv, Sane

LEMMA PairStep ==
    ASSUME DeviceInv, Pair
    PROVE  DeviceInv'
<1> DEFINE t1 == [transport EXCEPT !.stage = "done"]
           s1 == [State EXCEPT !.t.stage = "done"]
           q == SetStatus(s1, "paired")
           u == [t1 EXCEPT !.status = "paired"]
           d == [device EXCEPT !.limit = transport.writing]
           limit == config.maxStrength
<1>1. /\ now \in Nat /\ config \in Configs /\ device \in DeviceType /\ failed \in BOOLEAN
      /\ transport \in TransportType /\ control \in ControlType /\ limit \in Nat
      /\ Coupled(control, transport) /\ Starting(transport, device)
      /\ State = [c |-> control, t |-> transport]
  BY SaneParts
<1>2. /\ Assign(q) /\ device' = d /\ failed' = failed
      /\ now' = now /\ config' = config /\ transport.stage = "limiting" /\ device.linked
  BY DEF Pair
<1>3. /\ t1 \in TransportType /\ t1.stage = "done" /\ t1.present = transport.present
      /\ t1.wave = transport.wave /\ t1.strength = transport.strength
      /\ t1.writes = transport.writes
  BY <1>1 DEF TransportType, Stage
<1>4. s1 = [c |-> control, t |-> t1]
  <2>1. s1 = [State EXCEPT !.t = [State.t EXCEPT !.stage = "done"]]
    OBVIOUS
  <2>2. State.t = transport
    BY <1>1
  <2>3. s1 = [State EXCEPT !.t = t1]
    BY <2>1, <2>2
  <2> HIDE DEF t1, s1
  <2> QED BY <1>1, <2>3
<1> HIDE DEF t1, s1
<1>5. s1 \in StateType /\ s1.t = t1 /\ s1.c = control
  BY <1>1, <1>3, <1>4 DEF StateType
<1>6. /\ q \in StateType /\ q.t = u /\ (q.c.armed <=> control.armed /\ "paired" = "paired")
      /\ q.c.connection = "paired"
  BY <1>1, <1>5, SetStatusIs DEF Status
<1>7. /\ u \in TransportType /\ u.status = "paired" /\ u.stage = "done"
      /\ u.present = transport.present /\ u.wave = transport.wave
      /\ u.strength = transport.strength /\ u.writes = transport.writes
  BY <1>3, StatusIs DEF Status
<1>8. d \in DeviceType /\ d.output = device.output /\ d.linked
  BY <1>1, <1>2 DEF DeviceType, TransportType
<1> HIDE DEF u, q, d, limit
<1>9. control' = q.c /\ transport' = u /\ q.c \in ControlType
  BY <1>2, <1>6 DEF Assign, StateType
<1>10. transport.present /\ ~control.armed
  BY <1>1, <1>2 DEF Coupled
<1>11. /\ u.writes = <<>> /\ u.strength = Silent /\ d.output = Silent
       /\ \A ch \in Channels : ~u.wave[ch].loaded
  BY <1>1, <1>2, <1>7, <1>8 DEF Starting
<1>12. Serves(u, d, limit)
  <2>1. Made(u) = Silent /\ \A ch \in Channels : Silent[ch] = 0
    BY <1>11 DEF Made, Silent
  <2>2. Len(u.writes) = 0
    BY <1>11
  <2>3. Follows(u, d.output)
    BY <1>11, <2>1, <2>2 DEF Follows, LastOf
  <2>4. \A ch \in Channels : u.strength[ch] <= limit /\ d.output[ch] <= limit
    BY <1>1, <1>11, <2>1 DEF limit
  <2>5. Within(u, d.output, limit)
    BY <2>2, <2>4 DEF Within
  <2>6. Limits(u, d, limit)
    BY <2>2, <2>5 DEF Limits, LastOf
  <2> QED BY <2>3, <2>6 DEF Serves
<1>13. Coupled(control', transport') /\ Starting(transport', device')
  BY <1>7, <1>9, <1>10 DEF Coupled, Starting
<1>14. Sound(control', transport', device', failed', config')
  BY <1>2, <1>9, <1>11, <1>12 DEF Sound, limit
<1> QED BY <1>1, <1>2, <1>7, <1>8, <1>9, <1>13, <1>14 DEF DeviceInv, Sane

LEMMA ConnectFailsStep ==
    ASSUME DeviceInv, ConnectFails
    PROVE  DeviceInv'
<1> DEFINE t1 == [transport EXCEPT !.stage = "failed"]
           s1 == [State EXCEPT !.t.stage = "failed"]
           q == SetStatus(s1, "error")
           u == [t1 EXCEPT !.status = "error"]
           d == [device EXCEPT !.linked = FALSE]
<1>1. /\ now \in Nat /\ config \in Configs /\ device \in DeviceType /\ failed \in BOOLEAN
      /\ transport \in TransportType /\ control \in ControlType
      /\ Coupled(control, transport) /\ Starting(transport, device)
      /\ State = [c |-> control, t |-> transport]
  BY SaneParts
<1>2. /\ Assign(q) /\ device' = d /\ failed' = failed
      /\ now' = now /\ config' = config /\ transport.stage \in {"linking", "limiting"}
  BY DEF ConnectFails
<1>3. /\ t1 \in TransportType /\ t1.stage = "failed" /\ t1.present = transport.present
      /\ t1.wave = transport.wave
  BY <1>1 DEF TransportType, Stage
<1>4. s1 = [c |-> control, t |-> t1]
  <2>1. s1 = [State EXCEPT !.t = [State.t EXCEPT !.stage = "failed"]]
    OBVIOUS
  <2>2. State.t = transport
    BY <1>1
  <2>3. s1 = [State EXCEPT !.t = t1]
    BY <2>1, <2>2
  <2> HIDE DEF t1, s1
  <2> QED BY <1>1, <2>3
<1> HIDE DEF t1, s1
<1>5. s1 \in StateType /\ s1.t = t1 /\ s1.c = control
  BY <1>1, <1>3, <1>4 DEF StateType
<1>6. /\ q \in StateType /\ q.t = u /\ (q.c.armed <=> control.armed /\ "error" = "paired")
      /\ q.c.connection = "error"
  BY <1>1, <1>5, SetStatusIs DEF Status
<1>7. /\ u \in TransportType /\ u.status = "error" /\ u.stage = "failed"
      /\ u.present = transport.present /\ u.wave = transport.wave
  BY <1>3, StatusIs DEF Status
<1>8. d \in DeviceType /\ ~d.linked
  BY <1>1 DEF DeviceType
<1> HIDE DEF u, q, d
<1>9. control' = q.c /\ transport' = u /\ q.c \in ControlType /\ ~q.c.armed
  BY <1>2, <1>6 DEF Assign, StateType
<1>10. transport.present
  BY <1>1, <1>2 DEF Coupled
<1>11. \A ch \in Channels : ~u.wave[ch].loaded
  BY <1>1, <1>2, <1>7 DEF Starting
<1>12. Coupled(control', transport') /\ Starting(transport', device')
  BY <1>6, <1>7, <1>9, <1>10 DEF Coupled, Starting
<1>13. Sound(control', transport', device', failed', config')
  BY <1>2, <1>8, <1>9, <1>11 DEF Sound
<1> QED BY <1>1, <1>2, <1>7, <1>8, <1>9, <1>12, <1>13 DEF DeviceInv, Sane

LEMMA LinkLostStep ==
    ASSUME DeviceInv, LinkLost
    PROVE  DeviceInv'
<1> DEFINE none == <<>>
           t1 == [transport EXCEPT !.wave = Absent.wave, !.writes = none]
           s1 == [State EXCEPT !.t.wave = Absent.wave, !.t.writes = none]
           q == SetStatus(s1, "offline")
           u == [t1 EXCEPT !.status = "offline"]
           d == [device EXCEPT !.linked = FALSE]
<1>1. /\ now \in Nat /\ config \in Configs /\ device \in DeviceType /\ failed \in BOOLEAN
      /\ transport \in TransportType /\ control \in ControlType
      /\ Coupled(control, transport) /\ Starting(transport, device)
      /\ State = [c |-> control, t |-> transport]
  BY SaneParts
<1>2. /\ Assign(q) /\ device' = d /\ failed' = failed
      /\ now' = now /\ config' = config /\ transport.stage \in {"limiting", "done"}
  BY DEF LinkLost
<1>3. none \in Seq(Writes) /\ none = <<>>
  OBVIOUS
<1> HIDE DEF none
<1>4. /\ t1 \in TransportType /\ t1.stage = transport.stage /\ t1.present = transport.present
      /\ t1.wave = Absent.wave /\ t1.writes = none /\ t1.strength = transport.strength
  BY <1>1, <1>3, AbsentType DEF TransportType
<1>5. s1 = [c |-> control, t |-> t1]
  <2>1. s1 = [State EXCEPT !.t = [State.t EXCEPT !.wave = Absent.wave, !.writes = none]]
    OBVIOUS
  <2>2. State.t = transport
    BY <1>1
  <2>3. s1 = [State EXCEPT !.t = t1]
    BY <2>1, <2>2
  <2> HIDE DEF t1, s1
  <2> QED BY <1>1, <2>3
<1> HIDE DEF t1, s1
<1>6. s1 \in StateType /\ s1.t = t1 /\ s1.c = control
  BY <1>1, <1>4, <1>5 DEF StateType
<1>7. /\ q \in StateType /\ q.t = u /\ ~q.c.armed /\ q.c.connection = "offline"
  <2>1. "offline" \in Status /\ "offline" # "paired"
    BY DEF Status
  <2> DEFINE off == "offline"
  <2>2. off \in Status /\ off # "paired" /\ off = "offline"
    BY <2>1
  <2> HIDE DEF off
  <2>3. LET p == SetStatus(s1, off)
        IN  /\ p \in StateType /\ p.t = [s1.t EXCEPT !.status = off]
            /\ p.c.armed <=> s1.c.armed /\ off = "paired"
            /\ p.c.connection = off
    BY <1>1, <1>6, <2>2, SetStatusIs
  <2> QED BY <1>6, <2>2, <2>3
<1>8. /\ u \in TransportType /\ u.status = "offline" /\ u.stage = transport.stage
      /\ u.present = transport.present /\ u.wave = Absent.wave
      /\ u.writes = <<>> /\ u.strength = transport.strength
  BY <1>3, <1>4, StatusIs DEF Status
<1>9. d \in DeviceType /\ ~d.linked
  BY <1>1 DEF DeviceType
<1> HIDE DEF u, q, d
<1>10. control' = q.c /\ transport' = u /\ q.c \in ControlType /\ ~q.c.armed
  BY <1>2, <1>7 DEF Assign, StateType
<1>11. \A ch \in Channels : ~u.wave[ch].loaded
  BY <1>8, AbsentType
<1>12. Coupled(control', transport')
  BY <1>1, <1>2, <1>7, <1>8, <1>10 DEF Coupled
<1>13. Starting(transport', device')
  BY <1>1, <1>2, <1>8, <1>9, <1>10, <1>11 DEF Starting
<1>14. Sound(control', transport', device', failed', config')
  BY <1>2, <1>9, <1>10, <1>11 DEF Sound
<1> QED BY <1>1, <1>2, <1>8, <1>9, <1>10, <1>12, <1>13, <1>14 DEF DeviceInv, Sane

\* The steps of the link.
LEMMA WriteStep ==
    ASSUME DeviceInv, Write
    PROVE  DeviceInv'
<1> DEFINE s == transport.writes
           x == Tail(s)
           w == Head(s)
           u == [transport EXCEPT !.writes = x]
           d == device'
           limit == config.maxStrength
<1>1. /\ now \in Nat /\ config \in Configs /\ device \in DeviceType /\ failed \in BOOLEAN
      /\ transport \in TransportType /\ control \in ControlType /\ limit \in Nat
      /\ Coupled(control, transport) /\ Starting(transport, device)
      /\ Sound(control, transport, device, failed, config)
  BY SaneParts
<1>2. /\ transport' = u /\ control' = control /\ failed' = failed
      /\ now' = now /\ config' = config /\ s # <<>> /\ device.linked
      /\ d = IF w.kind = "limit" THEN [device EXCEPT !.limit = w.value]
             ELSE [device EXCEPT !.output = w.output]
  BY DEF Write
<1>3. s \in Seq(Writes)
  BY <1>1 DEF TransportType
<1>4. /\ Len(s) \in Nat \ {0} /\ x \in Seq(Writes) /\ Len(x) = Len(s) - 1 /\ w = s[1]
      /\ \A i \in 1 .. Len(x) : x[i] = s[i + 1] /\ i + 1 \in 1 .. Len(s)
      /\ \A i \in 1 .. Len(s) : s[i] \in Writes
  <2> HIDE DEF s
  <2> QED BY <1>2, <1>3
<1> DEFINE N == Len(s)
<1> HIDE DEF x, w
<1>5. /\ u \in TransportType /\ u.writes = x /\ u.present = transport.present
      /\ u.status = transport.status /\ u.stage = transport.stage
      /\ u.wave = transport.wave /\ u.strength = transport.strength
  BY <1>1, <1>4 DEF TransportType
<1>6. w \in Writes /\ w.kind \in {"frame", "limit"} /\ w.value \in Nat /\ w.output \in Outputs
  <2>1. 1 \in 1 .. N
    BY <1>4
  <2>2. w \in Writes
    BY <1>4, <2>1
  <2> QED BY <2>2 DEF Writes
<1>7. /\ d \in DeviceType
      /\ w.kind = "limit" => d.limit = w.value /\ d.output = device.output
      /\ w.kind = "frame" => d.limit = device.limit /\ d.output = w.output
  BY <1>1, <1>2, <1>6 DEF DeviceType
<1> HIDE DEF u, d, s, limit
<1>8. \A kind, i : LastOf(kind, x, i) => i + 1 \in 1 .. N /\ x[i] = s[i + 1] /\ LastOf(kind, s, i + 1)
  <2> SUFFICES ASSUME NEW kind, NEW i, LastOf(kind, x, i)
               PROVE  i + 1 \in 1 .. N /\ x[i] = s[i + 1] /\ LastOf(kind, s, i + 1)
    OBVIOUS
  <2>1. i \in 1 .. Len(x) /\ x[i].kind = kind
        /\ \A j \in 1 .. Len(x) : i < j => x[j].kind # kind
    BY DEF LastOf
  <2>2. i + 1 \in 1 .. N /\ x[i] = s[i + 1]
    BY <1>4, <2>1
  <2>3. ASSUME NEW j \in 1 .. N, i + 1 < j PROVE s[j].kind # kind
    <3>1. j - 1 \in 1 .. Len(x) /\ i < j - 1 /\ (j - 1) + 1 = j
      BY <1>4, <2>1, <2>3
    <3>2. x[j - 1] = s[(j - 1) + 1]
      BY <1>4, <3>1
    <3> QED BY <2>1, <3>1, <3>2
  <2> QED BY <2>1, <2>2, <2>3 DEF LastOf
<1>9. ASSUME NEW kind, \A i \in 1 .. Len(x) : x[i].kind # kind
      PROVE  \A j \in 1 .. N : j # 1 => s[j].kind # kind
  <2> SUFFICES ASSUME NEW j \in 1 .. N, j # 1 PROVE s[j].kind # kind
    OBVIOUS
  <2>1. j - 1 \in 1 .. Len(x) /\ (j - 1) + 1 = j
    BY <1>4
  <2>2. x[j - 1] = s[(j - 1) + 1]
    BY <1>4, <2>1
  <2> QED BY <1>9, <2>1, <2>2
<1>10. ASSUME NEW kind, \A i \in 1 .. Len(x) : x[i].kind # kind, w.kind = kind
       PROVE  LastOf(kind, s, 1)
  <2>1. 1 \in 1 .. N /\ \A j \in 1 .. N : 1 < j => j # 1
    BY <1>4
  <2> QED BY <1>4, <1>9, <1>10, <2>1 DEF LastOf
<1>11. ASSUME NEW kind, \A i \in 1 .. Len(x) : x[i].kind # kind, w.kind # kind
       PROVE  \A i \in 1 .. N : s[i].kind # kind
  BY <1>4, <1>9, <1>11
<1>12. ASSUME Serves(transport, device, limit) PROVE Serves(u, d, limit)
  <2>1. Made(u) = Made(transport)
    BY <1>5 DEF Made
  <2>2. /\ (\A i \in 1 .. N : s[i].kind # "frame") => device.output = Made(transport)
        /\ \A i : LastOf("frame", s, i) => s[i].output = Made(transport)
        /\ \A i : LastOf("limit", s, i) => s[i].value = limit
        /\ (\A i \in 1 .. N : s[i].kind # "limit") =>
             device.limit = limit \/ Within(transport, device.output, limit)
    BY <1>12 DEF Serves, Follows, Limits, s
  <2>3. ASSUME \A i \in 1 .. Len(x) : x[i].kind # "frame" PROVE d.output = Made(u)
    <3>1. CASE w.kind = "frame"
      <4>1. LastOf("frame", s, 1)
        BY <1>10, <2>3, <3>1
      <4> QED BY <1>4, <1>7, <2>1, <2>2, <3>1, <4>1
    <3>2. CASE w.kind = "limit"
      <4>1. \A i \in 1 .. N : s[i].kind # "frame"
        BY <1>11, <2>3, <3>2
      <4> QED BY <1>7, <2>1, <2>2, <3>2, <4>1
    <3> QED BY <1>6, <3>1, <3>2
  <2>4. ASSUME NEW i, LastOf("frame", x, i) PROVE x[i].output = Made(u)
    BY <1>8, <2>1, <2>2, <2>4
  <2>5. ASSUME NEW i, LastOf("limit", x, i) PROVE x[i].value = limit
    BY <1>8, <2>2, <2>5
  <2>6. ASSUME \A i \in 1 .. Len(x) : x[i].kind # "limit"
        PROVE  d.limit = limit \/ Within(u, d.output, limit)
    <3>1. CASE w.kind = "limit"
      <4>1. LastOf("limit", s, 1)
        BY <1>10, <2>6, <3>1
      <4> QED BY <1>4, <1>7, <2>2, <3>1, <4>1
    <3>2. CASE w.kind = "frame"
      <4>1. \A i \in 1 .. N : s[i].kind # "limit"
        BY <1>11, <2>6, <3>2
      <4>2. device.limit = limit \/ Within(transport, device.output, limit)
        BY <2>2, <4>1
      <4>3. ASSUME Within(transport, device.output, limit) PROVE Within(u, d.output, limit)
        <5>1. /\ \A ch \in Channels : transport.strength[ch] <= limit
              /\ \A i \in 1 .. N : \A ch \in Channels : s[i].output[ch] <= limit
          BY <4>3 DEF Within, s
        <5>2. 1 \in 1 .. N
          BY <1>4
        <5>3. \A ch \in Channels : d.output[ch] <= limit
          BY <1>4, <1>7, <3>2, <5>1, <5>2
        <5>4. \A i \in 1 .. Len(x) : \A ch \in Channels : x[i].output[ch] <= limit
          BY <1>4, <5>1
        <5> QED BY <1>5, <5>1, <5>3, <5>4 DEF Within
      <4> QED BY <1>7, <3>2, <4>2, <4>3
    <3> QED BY <1>6, <3>1, <3>2
  <2> QED BY <1>5, <2>3, <2>4, <2>5, <2>6 DEF Serves, Follows, Limits
<1>13. Coupled(control, u)
  BY <1>1, <1>5 DEF Coupled
<1>14. Starting(u, d)
  <2>1. transport.stage \notin {"linking", "limiting"}
    BY <1>1, <1>2 DEF Starting, s
  <2> QED BY <1>5, <2>1 DEF Starting
<1>15. Sound(control, u, d, failed, config)
  BY <1>1, <1>2, <1>5, <1>12 DEF Sound, limit
<1> QED BY <1>1, <1>2, <1>5, <1>7, <1>13, <1>14, <1>15 DEF DeviceInv, Sane, d

LEMMA WriteFailsStep ==
    ASSUME DeviceInv, WriteFails
    PROVE  DeviceInv'
<1> DEFINE x == Tail(transport.writes)
           t1 == [transport EXCEPT !.writes = x]
           s1 == [State EXCEPT !.t.writes = Tail(@)]
           q == SetStatus(s1, "error")
           u == [t1 EXCEPT !.status = "error"]
<1>1. /\ now \in Nat /\ config \in Configs /\ device \in DeviceType
      /\ transport \in TransportType /\ control \in ControlType
      /\ Coupled(control, transport) /\ Starting(transport, device)
      /\ State = [c |-> control, t |-> transport]
  BY SaneParts
<1>2. /\ Assign(q) /\ device' = device /\ failed' = TRUE
      /\ now' = now /\ config' = config /\ transport.writes # <<>>
  BY DEF WriteFails
<1>3. x \in Seq(Writes)
  <2>1. transport.writes \in Seq(Writes)
    BY <1>1 DEF TransportType
  <2> QED BY <1>2, <2>1
<1>4. s1 = [c |-> control, t |-> t1]
  <2>1. s1 = [State EXCEPT !.t = [State.t EXCEPT !.writes = Tail(State.t.writes)]]
    OBVIOUS
  <2>2. State.t = transport
    BY <1>1
  <2>3. s1 = [State EXCEPT !.t = t1]
    BY <2>1, <2>2
  <2> HIDE DEF t1, s1
  <2> QED BY <1>1, <2>3
<1> HIDE DEF x
<1>5. /\ t1 \in TransportType /\ t1.stage = transport.stage /\ t1.present = transport.present
  BY <1>1, <1>3 DEF TransportType
<1> HIDE DEF t1, s1
<1>6. s1 \in StateType /\ s1.t = t1 /\ s1.c = control
  BY <1>1, <1>4, <1>5 DEF StateType
<1>7. /\ q \in StateType /\ q.t = u /\ (q.c.armed <=> control.armed /\ "error" = "paired")
      /\ q.c.connection = "error"
  BY <1>1, <1>6, SetStatusIs DEF Status
<1>8. /\ u \in TransportType /\ u.status = "error" /\ u.stage = transport.stage
      /\ u.present = transport.present
  BY <1>5, StatusIs DEF Status
<1> HIDE DEF u, q
<1>9. control' = q.c /\ transport' = u /\ q.c \in ControlType /\ ~q.c.armed
  BY <1>2, <1>7 DEF Assign, StateType
<1>10. Coupled(control', transport')
  BY <1>1, <1>7, <1>8, <1>9 DEF Coupled
<1>11. Starting(transport', device')
  BY <1>1, <1>2, <1>8, <1>9 DEF Starting
<1>12. Sound(control', transport', device', failed', config')
  BY <1>2 DEF Sound
<1> QED BY <1>1, <1>2, <1>8, <1>9, <1>10, <1>11, <1>12 DEF DeviceInv, Sane

\* Frames that timers queue.
LEMMA QueueFrameRest ==
    ASSUME NEW t \in TransportType
    PROVE  Rest(t, QueueFrame(t)) /\ QueueFrame(t).wave = t.wave
BY FrameIs, QueueWriteRest DEF QueueFrame

LEMMA RepeatStep ==
    ASSUME DeviceInv, NEW ch \in Channels, Repeat(ch)
    PROVE  DeviceInv'
<1> DEFINE u == QueueFrame(transport)
           limit == config.maxStrength
<1>1. /\ now \in Nat /\ config \in Configs /\ device \in DeviceType /\ failed \in BOOLEAN
      /\ transport \in TransportType /\ control \in ControlType /\ limit \in Nat
      /\ Coupled(control, transport) /\ Starting(transport, device)
      /\ Sound(control, transport, device, failed, config)
  BY SaneParts
<1>2. /\ transport' = u /\ control' = control /\ failed' = failed /\ device' = device
      /\ now' = now /\ config' = config /\ transport.wave[ch].loaded
  BY DEF Repeat
<1>3. Rest(transport, u) /\ u.wave = transport.wave
  BY <1>1, QueueFrameRest
<1>4. Limits(transport, device, limit) => Serves(u, device, limit)
  BY <1>1, QueueFrameServes
<1> HIDE DEF u, limit
<1>5. Coupled(control, u)
  BY <1>1, <1>3 DEF Coupled, Rest
<1>6. Starting(u, device)
  BY <1>1, <1>2, <1>3 DEF Starting, Rest
<1>7. Sound(control, u, device, failed, config)
  BY <1>1, <1>3, <1>4 DEF Sound, Rest, Serves, limit
<1> QED BY <1>1, <1>2, <1>3, <1>5, <1>6, <1>7 DEF DeviceInv, Sane, Rest

LEMMA WaveformEndsStep ==
    ASSUME DeviceInv, NEW ch \in Channels, WaveformEnds(ch)
    PROVE  DeviceInv'
<1> DEFINE set == [transport EXCEPT !.wave[ch] = NoWave]
           u == QueueFrame(set)
           limit == config.maxStrength
<1>1. /\ now \in Nat /\ config \in Configs /\ device \in DeviceType /\ failed \in BOOLEAN
      /\ transport \in TransportType /\ control \in ControlType /\ limit \in Nat
      /\ Coupled(control, transport) /\ Starting(transport, device)
      /\ Sound(control, transport, device, failed, config)
  BY SaneParts
<1>2. /\ transport' = u /\ control' = control /\ failed' = failed /\ device' = device
      /\ now' = now /\ config' = config /\ transport.wave[ch].loaded
  BY DEF WaveformEnds
<1>3. NoWave \in [loaded : BOOLEAN, stopAt : Nat] /\ ~NoWave.loaded
  BY DEF NoWave
<1> HIDE DEF limit
<1>4. /\ Rest(transport, set) /\ set.wave[ch] = NoWave
      /\ \A other \in Channels \ {ch} : set.wave[other] = transport.wave[other]
      /\ Limits(transport, device, limit) => Limits(set, device, limit)
  BY <1>1, <1>3, WaveLimits
<1> HIDE DEF set
<1>5. set \in TransportType
  BY <1>4 DEF Rest
<1>6. Rest(set, u) /\ u.wave = set.wave
  BY <1>5, QueueFrameRest
<1>7. Limits(set, device, limit) => Serves(u, device, limit)
  BY <1>1, <1>5, QueueFrameServes
<1> HIDE DEF u
<1>8. Rest(transport, u)
  BY <1>4, <1>6, RestFurther
<1>9. \A other \in Channels : u.wave[other].loaded => transport.wave[other].loaded
  BY <1>3, <1>4, <1>6
<1>10. Coupled(control, u)
  BY <1>1, <1>8 DEF Coupled, Rest
<1>11. Starting(u, device)
  BY <1>1, <1>2, <1>8 DEF Starting, Rest
<1>12. Sound(control, u, device, failed, config)
  BY <1>1, <1>4, <1>7, <1>8, <1>9 DEF Sound, Rest, Serves, limit
<1> QED BY <1>1, <1>2, <1>8, <1>10, <1>11, <1>12 DEF DeviceInv, Sane, Rest

\* The steps of the controller.
LEMMA ArmStep ==
    ASSUME DeviceInv, Arm
    PROVE  DeviceInv'
<1>1. /\ now \in Nat /\ config \in Configs /\ device \in DeviceType /\ failed \in BOOLEAN
      /\ transport \in TransportType /\ control \in ControlType
      /\ Coupled(control, transport) /\ Starting(transport, device)
      /\ Sound(control, transport, device, failed, config)
  BY SaneParts
<1>2. /\ transport' = transport /\ failed' = failed /\ device' = device
      /\ now' = now /\ config' = config /\ ~control.armed
      /\ control' = IF config.enabled /\ control.connection = "paired"
                    THEN [control EXCEPT !.armed = TRUE]
                    ELSE [control EXCEPT !.connection = "error", !.queue = <<>>, !.decayAt = 0,
                                         !.sent = Silent]
  BY DEF Arm
<1>3. control' \in ControlType
  <2>1. Silent \in Outputs
    BY DEF Silent, Outputs
  <2> DEFINE none == <<>>
  <2>2. none \in Seq(Contributions)
    OBVIOUS
  <2>3. control' = IF config.enabled /\ control.connection = "paired"
                   THEN [control EXCEPT !.armed = TRUE]
                   ELSE [control EXCEPT !.connection = "error", !.queue = none, !.decayAt = 0,
                                        !.sent = Silent]
    BY <1>2
  <2> HIDE DEF none
  <2> QED BY <1>1, <2>1, <2>2, <2>3 DEF ControlType, Status
<1>4. /\ control'.armed => control.connection = "paired"
      /\ control'.connection = "paired" => control.connection = "paired"
  BY <1>1, <1>2 DEF ControlType
<1>5. Coupled(control', transport)
  BY <1>1, <1>4 DEF Coupled
<1>6. Sound(control', transport, device, failed, config)
  BY <1>1, <1>2 DEF Sound
<1> QED BY <1>1, <1>2, <1>3, <1>5, <1>6 DEF DeviceInv, Sane

LEMMA DisarmStep ==
    ASSUME DeviceInv, Disarm
    PROVE  DeviceInv'
<1> DEFINE q == Disarmed(State, config.channels)
           limit == config.maxStrength
<1>1. /\ now \in Nat /\ config \in Configs /\ device \in DeviceType /\ failed \in BOOLEAN
      /\ transport \in TransportType /\ control \in ControlType /\ limit \in Nat
      /\ Coupled(control, transport) /\ Starting(transport, device)
      /\ Sound(control, transport, device, failed, config)
      /\ State \in StateType /\ State.c = control /\ State.t = transport
      /\ config.channels \in SUBSET Channels
  BY SaneParts
<1>2. /\ Assign(q) /\ failed' = failed /\ device' = device
      /\ now' = now /\ config' = config /\ control.armed
  BY DEF Disarm
<1>3. transport.status = "paired" /\ transport.present /\ transport.stage = "done"
  BY <1>1, <1>2 DEF Coupled
<1> HIDE DEF limit
<1>4. /\ q \in StateType /\ ~q.c.armed /\ Rest(transport, q.t)
      /\ q.c.connection = control.connection
      /\ Serves(transport, device, limit) => Serves(q.t, device, limit)
      /\ \A ch \in Channels :
           IF ch \in config.channels THEN ~q.t.wave[ch].loaded
           ELSE q.t.wave[ch] = transport.wave[ch]
  BY <1>1, <1>3, DisarmedIs
<1> HIDE DEF q
<1>5. control' = q.c /\ transport' = q.t /\ q.c \in ControlType
  BY <1>2, <1>4 DEF Assign, StateType
<1>6. Coupled(q.c, q.t)
  BY <1>1, <1>4 DEF Coupled, Rest
<1>7. Starting(q.t, device)
  BY <1>3, <1>4 DEF Starting, Rest
<1>8. ~failed => \A ch \in Channels : ~q.t.wave[ch].loaded
  BY <1>1, <1>4 DEF Sound
<1>9. Sound(q.c, q.t, device, failed, config)
  BY <1>1, <1>4, <1>8 DEF Sound, Rest, limit
<1> QED BY <1>1, <1>2, <1>4, <1>5, <1>6, <1>7, <1>9 DEF DeviceInv, Sane, Rest

LEMMA UpdateConfigStep ==
    ASSUME DeviceInv, UpdateConfig
    PROVE  DeviceInv'
<1> DEFINE stopping == control.armed /\ config'.channels # config.channels
           stopped == IF stopping THEN StopOutput(State, config.channels) ELSE State
           next == config'.maxStrength
           limited == IF transport.present THEN SafetyLimit(stopped, next) ELSE stopped
           q == IF config'.enabled THEN limited ELSE Disarmed(limited, config'.channels)
           limit == config.maxStrength
<1>1. /\ now \in Nat /\ config \in Configs /\ device \in DeviceType /\ failed \in BOOLEAN
      /\ transport \in TransportType /\ control \in ControlType /\ limit \in Nat
      /\ Coupled(control, transport) /\ Starting(transport, device)
      /\ Sound(control, transport, device, failed, config)
      /\ State \in StateType /\ State.c = control /\ State.t = transport
      /\ config.channels \in SUBSET Channels
  BY SaneParts
<1>2. /\ Assign(q) /\ failed' = failed /\ device' = device
      /\ now' = now /\ config' \in Configs
  BY DEF UpdateConfig
<1>3. config'.channels \in SUBSET Channels /\ next \in Nat
  BY <1>2, DeviceAssumption
<1>4. transport.status = "paired" => transport.present /\ transport.stage = "done"
  BY <1>1 DEF Coupled
<1>5. control.armed => transport.status = "paired"
  BY <1>1 DEF Coupled
<1> HIDE DEF next, limit
\* The output is stopped on the channels that it leaves.
<1>6. /\ stopped \in StateType /\ Rest(transport, stopped.t)
      /\ stopped.c.armed = control.armed /\ stopped.c.connection = control.connection
      /\ Serves(transport, device, limit) => Serves(stopped.t, device, limit)
      /\ transport.status # "paired" => stopped.t = transport
      /\ ~failed => \A ch \in Channels : stopped.t.wave[ch].loaded =>
                       control.armed /\ ch \in config'.channels
  <2>1. CASE stopping
    <3>1. stopped = StopOutput(State, config.channels)
      BY <2>1
    <3>2. transport.present /\ transport.status = "paired"
      BY <1>4, <1>5, <2>1
    <3> HIDE DEF stopped
    <3>3. /\ stopped \in StateType /\ stopped.c = Emptied(control) /\ Rest(transport, stopped.t)
          /\ Serves(transport, device, limit) => Serves(stopped.t, device, limit)
          /\ \A ch \in Channels :
               IF ch \in config.channels THEN ~stopped.t.wave[ch].loaded
               ELSE stopped.t.wave[ch] = transport.wave[ch]
      BY <1>1, <3>1, <3>2, StopOutputIs
    <3>4. stopped.c.armed = control.armed /\ stopped.c.connection = control.connection
      BY <1>1, <3>3, EmptiedType
    <3>5. ~failed => \A ch \in Channels : ~stopped.t.wave[ch].loaded
      BY <1>1, <3>3 DEF Sound
    <3> QED BY <3>2, <3>3, <3>4, <3>5
  <2>2. CASE ~stopping
    <3>1. stopped = State
      BY <2>2
    <3>2. ~failed => \A ch \in Channels : transport.wave[ch].loaded =>
                        control.armed /\ ch \in config'.channels
      BY <1>1, <2>2 DEF Sound
    <3>3. Rest(transport, transport)
      BY <1>1 DEF Rest
    <3> QED BY <1>1, <3>1, <3>2, <3>3
  <2> QED BY <2>1, <2>2
<1> HIDE DEF stopped
\* The limit is the new one.
<1>7. /\ limited \in StateType /\ limited.c = stopped.c
      /\ limited.t.present = transport.present /\ limited.t.status = transport.status
      /\ limited.t.stage = transport.stage /\ limited.t.wave = stopped.t.wave
      /\ transport.status # "paired" =>
           limited.t.writes = transport.writes /\ limited.t.strength = transport.strength
      /\ transport.status = "paired" /\ Serves(transport, device, limit) =>
           Serves(limited.t, device, next)
  <2>1. /\ stopped.t.present = transport.present /\ stopped.t.status = transport.status
        /\ stopped.t.stage = transport.stage
    BY <1>6 DEF Rest
  <2>2. CASE transport.present
    <3>1. limited = SafetyLimit(stopped, next)
      BY <2>2
    <3> HIDE DEF limited
    <3>2. /\ limited \in StateType /\ limited.c = stopped.c
          /\ limited.t.present = stopped.t.present /\ limited.t.status = stopped.t.status
          /\ limited.t.stage = stopped.t.stage
          /\ limited.t.wave = stopped.t.wave /\ limited.t.strength = stopped.t.strength
          /\ stopped.t.status # "paired" => limited.t.writes = stopped.t.writes
          /\ stopped.t.status = "paired" /\ Follows(stopped.t, device.output) =>
                Serves(limited.t, device, next)
      BY <1>1, <1>3, <1>6, <3>1, SafetyLimitIs
    <3>3. Serves(transport, device, limit) => Follows(stopped.t, device.output)
      BY <1>6 DEF Serves
    <3> QED BY <1>6, <2>1, <3>2, <3>3
  <2>3. CASE ~transport.present
    BY <1>4, <1>6, <2>1, <2>3
  <2> QED BY <2>2, <2>3
<1> HIDE DEF limited
\* A configuration that is not enabled disarms.
<1>8. /\ q \in StateType /\ (q.c.armed => control.armed) /\ q.c.connection = control.connection
      /\ q.t.present = transport.present /\ q.t.status = transport.status
      /\ q.t.stage = transport.stage
      /\ transport.status # "paired" =>
           /\ q.t.writes = transport.writes /\ q.t.strength = transport.strength
           /\ q.t.wave = transport.wave
      /\ transport.status = "paired" /\ Serves(transport, device, limit) =>
           Serves(q.t, device, next)
      /\ ~failed => \A ch \in Channels : q.t.wave[ch].loaded =>
                       q.c.armed /\ ch \in config'.channels
  <2>1. transport.status # "paired" => limited.t.wave = transport.wave
    BY <1>6, <1>7
  <2>2. CASE config'.enabled
    <3>1. q = limited
      BY <2>2
    <3> HIDE DEF q
    <3> QED BY <1>6, <1>7, <2>1, <3>1
  <2>3. CASE ~config'.enabled
    <3>1. q = Disarmed(limited, config'.channels)
      BY <2>3
    <3> HIDE DEF q
    <3>2. /\ q \in StateType /\ ~q.c.armed /\ Rest(limited.t, q.t)
          /\ q.c.connection = limited.c.connection
          /\ Serves(limited.t, device, next) => Serves(q.t, device, next)
          /\ IF limited.t.present /\ limited.t.status = "paired"
             THEN \A ch \in Channels :
                    IF ch \in config'.channels THEN ~q.t.wave[ch].loaded
                    ELSE q.t.wave[ch] = limited.t.wave[ch]
             ELSE q.t = limited.t
      BY <1>1, <1>3, <1>7, <3>1, DisarmedIs
    <3>3. /\ q.t.present = limited.t.present /\ q.t.status = limited.t.status
          /\ q.t.stage = limited.t.stage
      BY <3>2 DEF Rest
    <3>4. transport.status # "paired" => q.t = limited.t
      BY <1>7, <3>2
    <3>5. ASSUME ~failed, NEW ch \in Channels PROVE ~q.t.wave[ch].loaded
      <4>1. limited.t.wave[ch].loaded => control.armed /\ ch \in config'.channels
        BY <1>6, <1>7, <3>5
      <4>2. CASE transport.status = "paired"
        BY <1>4, <1>7, <3>2, <4>1, <4>2
      <4>3. CASE transport.status # "paired"
        BY <1>5, <3>4, <4>1, <4>3
      <4> QED BY <4>2, <4>3
    <3> QED BY <1>6, <1>7, <2>1, <3>2, <3>3, <3>4, <3>5
  <2> QED BY <2>2, <2>3
<1> HIDE DEF q
<1>9. control' = q.c /\ transport' = q.t /\ q.c \in ControlType /\ q.t \in TransportType
  BY <1>2, <1>8 DEF Assign, StateType
<1>10. Coupled(q.c, q.t)
  BY <1>1, <1>8 DEF Coupled
<1>11. Starting(q.t, device)
  <2>1. q.t.stage \in {"linking", "limiting"} => transport.status # "paired"
    BY <1>4, <1>8
  <2> QED BY <1>1, <1>8, <2>1 DEF Starting
<1>12. Sound(q.c, q.t, device, failed, config')
  BY <1>1, <1>8 DEF Sound, limit, next
<1> QED BY <1>1, <1>2, <1>9, <1>10, <1>11, <1>12 DEF DeviceInv, Sane

LEMMA TestStep ==
    ASSUME DeviceInv, Test
    PROVE  DeviceInv'
<1> DEFINE strength == IF BaseStrength > 1 THEN BaseStrength ELSE 1
           limit == config.maxStrength
           bounded == IF strength < limit THEN strength ELSE limit
           waved == SendWaveform(transport, config.channels, 1)
           u == SendStrength(waved, config.channels, bounded)
<1>1. /\ now \in Nat /\ config \in Configs /\ device \in DeviceType /\ failed \in BOOLEAN
      /\ transport \in TransportType /\ control \in ControlType /\ limit \in Nat
      /\ Coupled(control, transport) /\ Starting(transport, device)
      /\ Sound(control, transport, device, failed, config)
      /\ config.channels \in SUBSET Channels
  BY SaneParts
<1>2. /\ transport' = u /\ control' = control /\ failed' = failed /\ device' = device
      /\ now' = now /\ config' = config /\ control.armed
  BY DEF Test
<1>3. bounded \in Nat /\ bounded <= limit
  <2>1. BaseStrength \in Nat
    BY DeviceAssumption
  <2> HIDE DEF limit
  <2> QED BY <1>1, <2>1
<1> HIDE DEF bounded, limit
<1>4. /\ Rest(transport, waved)
      /\ \A ch \in Channels \ config.channels : waved.wave[ch] = transport.wave[ch]
      /\ Serves(transport, device, limit) => Serves(waved, device, limit)
  BY <1>1, SendWaveformServes
<1> HIDE DEF waved
<1>5. waved \in TransportType
  BY <1>4 DEF Rest
<1>6. /\ Rest(waved, u) /\ u.wave = waved.wave
      /\ Serves(waved, device, limit) => Serves(u, device, limit)
  BY <1>1, <1>3, <1>5, SendStrengthServes
<1> HIDE DEF u
<1>7. Rest(transport, u)
  BY <1>4, <1>6, RestFurther
<1>8. transport.status = "paired" /\ transport.stage = "done"
  BY <1>1, <1>2 DEF Coupled
<1>9. Coupled(control, u) /\ Starting(u, device)
  BY <1>1, <1>7, <1>8 DEF Coupled, Starting, Rest
<1>10. ~failed => \A ch \in Channels : u.wave[ch].loaded => control.armed /\ ch \in config.channels
  BY <1>1, <1>2, <1>4, <1>6 DEF Sound
<1>11. Sound(control, u, device, failed, config)
  BY <1>1, <1>4, <1>6, <1>7, <1>10 DEF Sound, Rest, limit
<1> QED BY <1>1, <1>2, <1>7, <1>9, <1>11 DEF DeviceInv, Sane, Rest

\* What the strength is made from may be any queue.
LEMMA RefreshStep ==
    ASSUME DeviceInv, NEW queue \in Seq(Contributions), control.armed,
           Assign(Refreshed([State EXCEPT !.c.queue = queue])),
           UNCHANGED <<now, config, device, failed>>
    PROVE  DeviceInv'
<1> DEFINE c1 == [control EXCEPT !.queue = queue]
           s1 == [State EXCEPT !.c.queue = queue]
           q == Refreshed(s1)
           limit == config.maxStrength
<1>1. /\ now \in Nat /\ config \in Configs /\ device \in DeviceType /\ failed \in BOOLEAN
      /\ transport \in TransportType /\ control \in ControlType
      /\ Coupled(control, transport) /\ Starting(transport, device)
      /\ Sound(control, transport, device, failed, config)
      /\ State = [c |-> control, t |-> transport]
  BY SaneParts
<1>2. /\ c1 \in ControlType /\ c1.armed = control.armed /\ c1.connection = control.connection
  BY <1>1 DEF ControlType
<1>3. s1 = [c |-> c1, t |-> transport]
  <2>1. s1 = [State EXCEPT !.c = [State.c EXCEPT !.queue = queue]]
    OBVIOUS
  <2>2. State.c = control
    BY <1>1
  <2>3. s1 = [State EXCEPT !.c = c1]
    BY <2>1, <2>2
  <2> HIDE DEF c1, s1
  <2> QED BY <1>1, <2>3
<1> HIDE DEF c1
<1>4. s1 \in StateType /\ s1.c = c1 /\ s1.t = transport
  <2> HIDE DEF s1
  <2> QED BY <1>1, <1>2, <1>3 DEF StateType
<1>5. control' = q.c /\ transport' = q.t
  BY DEF Assign
<1> HIDE DEF s1, limit
<1>6. /\ q \in StateType /\ q.c.armed = s1.c.armed /\ q.c.connection = s1.c.connection
      /\ Rest(s1.t, q.t)
      /\ \A ch \in Channels \ config.channels : q.t.wave[ch].loaded => s1.t.wave[ch].loaded
      /\ Serves(s1.t, device, limit) => Serves(q.t, device, limit)
  BY <1>1, <1>4, RefreshedIs DEF limit
<1> HIDE DEF q
<1>7. /\ q.c.armed /\ q.c.connection = control.connection /\ Rest(transport, q.t)
      /\ \A ch \in Channels \ config.channels : q.t.wave[ch].loaded => transport.wave[ch].loaded
      /\ Serves(transport, device, limit) => Serves(q.t, device, limit)
  BY <1>2, <1>4, <1>6
<1>8. transport.status = "paired" /\ transport.stage = "done"
  BY <1>1 DEF Coupled
<1>9. Coupled(q.c, q.t) /\ Starting(q.t, device)
  BY <1>1, <1>7, <1>8 DEF Coupled, Starting, Rest
<1>10. Sound(q.c, q.t, device, failed, config)
  BY <1>1, <1>7 DEF Sound, Rest, limit
<1>11. q.c \in ControlType /\ q.t \in TransportType
  BY <1>6 DEF StateType
<1> QED BY <1>1, <1>5, <1>9, <1>10, <1>11 DEF DeviceInv, Sane

LEMMA HandleEventStep ==
    ASSUME DeviceInv, HandleEvent
    PROVE  DeviceInv'
<1>1. now \in Nat /\ control \in ControlType /\ State.c = control
  BY SaneParts
<1>2. /\ UNCHANGED <<now, config, device, failed>> /\ control.armed
      /\ \/ \E points \in 1..2 : Penalty(points) \/ Cancellation(points)
         \/ Defeat
  BY DEF HandleEvent
<1>3. control.queue \in Seq(Contributions)
  BY <1>1 DEF ControlType
<1>4. ASSUME NEW points \in 1..2, Penalty(points) PROVE DeviceInv'
  <2> DEFINE queued == Total([i \in DOMAIN control.queue |-> control.queue[i].duration])
             duration == IF points < MaxQueue - queued THEN points ELSE MaxQueue - queued
             item == Contribution(points, duration, FALSE)
             queue == Append(control.queue, item)
  <2>1. queued < MaxQueue /\ Assign(Refreshed([State EXCEPT !.c.queue = Append(@, item)]))
    BY <1>4 DEF Penalty
  <2>2. queued \in Nat
    <3> DEFINE numbers == [i \in DOMAIN control.queue |-> control.queue[i].duration]
    <3>1. Len(control.queue) \in Nat /\ DOMAIN control.queue = 1 .. Len(control.queue)
          /\ \A i \in 1 .. Len(control.queue) : control.queue[i].duration \in Nat
      BY <1>3, QueueItems
    <3>2. numbers \in Seq(Nat)
      BY <3>1
    <3> QED BY <3>2, TotalNat
  <2> HIDE DEF queued
  <2>3. duration \in Nat /\ points \in Nat
    <3>1. MaxQueue \in Nat
      BY DeviceAssumption
    <3> QED BY <2>1, <2>2, <3>1
  <2> HIDE DEF duration
  <2>4. item \in Contributions
    BY <1>1, <2>3, ContributionType
  <2> HIDE DEF item
  <2>5. queue \in Seq(Contributions)
    <3> DEFINE old == control.queue
    <3>1. old \in Seq(Contributions)
      BY <1>3
    <3> HIDE DEF old
    <3>2. Append(old, item) \in Seq(Contributions)
      BY <2>4, <3>1
    <3> QED BY <3>2 DEF old
  <2>6. [State EXCEPT !.c.queue = Append(@, item)] = [State EXCEPT !.c.queue = queue]
    BY <1>1
  <2> HIDE DEF queue
  <2> QED BY <1>2, <2>1, <2>5, <2>6, RefreshStep
<1>5. ASSUME NEW points \in 1..2, Cancellation(points) PROVE DeviceInv'
  <2> DEFINE queue == Cancelled(control.queue, points)
  <2>1. queue \in Seq(Contributions)
    <3>1. points \in Nat
      OBVIOUS
    <3> QED BY <1>1, <1>3, <3>1, CancelledType
  <2>2. Assign(Refreshed([State EXCEPT !.c.queue = Cancelled(@, points)]))
    BY <1>5 DEF Cancellation
  <2>3. [State EXCEPT !.c.queue = Cancelled(@, points)] = [State EXCEPT !.c.queue = queue]
    BY <1>1
  <2> HIDE DEF queue
  <2> QED BY <1>2, <2>1, <2>2, <2>3, RefreshStep
<1>6. ASSUME Defeat PROVE DeviceInv'
  <2> DEFINE item == Contribution(0, DefeatTime, TRUE)
             queue == <<item>>
  <2>1. item \in Contributions
    BY <1>1, ContributionType, DeviceAssumption
  <2> HIDE DEF item
  <2>2. queue \in Seq(Contributions)
    BY <2>1
  <2>3. Assign(Refreshed([State EXCEPT !.c.queue = queue]))
    BY <1>6 DEF Defeat, item
  <2> HIDE DEF queue
  <2> QED BY <1>2, <2>2, <2>3, RefreshStep
<1> QED BY <1>2, <1>4, <1>5, <1>6

LEMMA DecayStep ==
    ASSUME DeviceInv, Decay
    PROVE  DeviceInv'
<1>1. /\ now \in Nat /\ config \in Configs /\ device \in DeviceType /\ failed \in BOOLEAN
      /\ transport \in TransportType /\ control \in ControlType
      /\ Coupled(control, transport) /\ Starting(transport, device)
      /\ Sound(control, transport, device, failed, config)
      /\ State = [c |-> control, t |-> transport]
  BY SaneParts
<1>2. control.queue \in Seq(Contributions)
  BY <1>1 DEF ControlType
<1>3. /\ UNCHANGED <<now, config, device, failed>>
      /\ IF control.armed /\ transport.present
         THEN Assign(Refreshed(State))
         ELSE /\ control' = [control EXCEPT !.decayAt = 0, !.queue = Lasting(@)]
              /\ transport' = transport
  BY DEF Decay
<1>4. CASE control.armed /\ transport.present
  <2>1. [control EXCEPT !.queue = control.queue] = control
    BY <1>1 DEF ControlType
  <2>2. State.c = control
    BY <1>1
  <2>3. [State EXCEPT !.c.queue = control.queue]
        = [State EXCEPT !.c = [State.c EXCEPT !.queue = control.queue]]
    OBVIOUS
  <2>4. [State EXCEPT !.c.queue = control.queue] = [State EXCEPT !.c = control]
    BY <2>1, <2>2, <2>3
  <2>5. [State EXCEPT !.c = control] = State
    BY <1>1
  <2>6. [State EXCEPT !.c.queue = control.queue] = State
    BY <2>4, <2>5
  <2>7. Assign(Refreshed([State EXCEPT !.c.queue = control.queue]))
    BY <1>3, <1>4, <2>6
  <2> QED BY <1>2, <1>3, <1>4, <2>7, RefreshStep
<1>5. CASE ~(control.armed /\ transport.present)
  <2> DEFINE queue == Lasting(control.queue)
  <2>1. queue \in Seq(Contributions)
    BY <1>2, LastingType
  <2>2. control' = [control EXCEPT !.decayAt = 0, !.queue = queue] /\ transport' = transport
    BY <1>3, <1>5
  <2> HIDE DEF queue
  <2>3. control' \in ControlType /\ control'.armed = control.armed
        /\ control'.connection = control.connection
    BY <1>1, <2>1, <2>2 DEF ControlType
  <2>4. Coupled(control', transport') /\ Sound(control', transport', device, failed, config)
    BY <1>1, <2>2, <2>3 DEF Coupled, Sound
  <2> QED BY <1>1, <1>3, <2>2, <2>3, <2>4 DEF DeviceInv, Sane
<1> QED BY <1>4, <1>5

LEMMA DeviceNextKeeps ==
    ASSUME DeviceInv, [DeviceNext]_deviceVars
    PROVE  DeviceInv'
<1>1. CASE UNCHANGED deviceVars
  BY <1>1 DEF deviceVars, DeviceInv
<1>2. CASE Tick
  BY <1>2 DEF Tick, DeviceInv
<1>3. CASE Timers
  BY <1>3, DecayStep, WaveformEndsStep DEF Timers
<1>4. CASE \E ch \in Channels : Repeat(ch)
  BY <1>4, RepeatStep
<1>5. CASE Connect \/ Disconnect \/ Arm \/ Disarm \/ UpdateConfig \/ Test \/ HandleEvent
  BY <1>5, ConnectStep, DisconnectStep, ArmStep, DisarmStep, UpdateConfigStep, TestStep,
     HandleEventStep
<1>6. CASE Link \/ Pair \/ ConnectFails \/ LinkLost \/ Write \/ WriteFails
  BY <1>6, LinkStep, PairStep, ConnectFailsStep, LinkLostStep, WriteStep, WriteFailsStep
<1> QED BY <1>1, <1>2, <1>3, <1>4, <1>5, <1>6 DEF DeviceNext

LEMMA DeviceInitHolds ==
    ASSUME DeviceInit
    PROVE  DeviceInv
<1>1. /\ now = 0 /\ config \in Configs /\ transport = Absent /\ failed = FALSE
      /\ control = [connection |-> "offline", armed |-> FALSE, queue |-> <<>>, decayAt |-> 0,
                    sent |-> Silent]
      /\ device = [linked |-> FALSE, limit |-> 0, output |-> Silent]
  BY DEF DeviceInit
<1>2. Silent \in Outputs
  BY DEF Silent, Outputs
<1>3. control \in ControlType /\ ~control.armed /\ control.connection = "offline"
  <2> DEFINE none == <<>>
  <2>1. none \in Seq(Contributions)
    OBVIOUS
  <2>2. control = [connection |-> "offline", armed |-> FALSE, queue |-> none, decayAt |-> 0,
                   sent |-> Silent]
    BY <1>1
  <2> HIDE DEF none
  <2> QED BY <1>2, <2>1, <2>2 DEF ControlType, Status
<1>4. device \in DeviceType /\ ~device.linked
  BY <1>1, <1>2 DEF DeviceType
<1>5. Coupled(control, transport) /\ Starting(transport, device)
  BY <1>1, <1>3, AbsentType DEF Coupled, Starting
<1>6. Sound(control, transport, device, failed, config)
  BY <1>1, <1>4, AbsentType DEF Sound
<1> QED BY <1>1, <1>3, <1>4, <1>5, <1>6, AbsentType DEF DeviceInv, Sane

LEMMA DeviceInvHolds == DeviceSpec => []DeviceInv
BY DeviceInitHolds, DeviceNextKeeps, PTL DEF DeviceSpec

\* A range of positions has a greatest one of its kind.
LEMMA Greatest ==
    ASSUME NEW n \in Nat, NEW S \in SUBSET (1 .. n), S # {}
    PROVE  \E i \in S : \A j \in S : j <= i
<1> DEFINE HasGreatest(T) == \E i \in T : \A j \in T : j <= i
           P == {k \in Nat : \A T \in SUBSET (1 .. k) : T # {} => HasGreatest(T)}
<1>1. 0 \in P
  <2>1. \A T \in SUBSET (1 .. 0) : T = {}
    <3>1. 1 .. 0 = {}
      OBVIOUS
    <3> QED BY <3>1
  <2> HIDE DEF HasGreatest
  <2> QED BY <2>1
<1>2. ASSUME NEW k \in Nat, k \in P PROVE k + 1 \in P
  <2> SUFFICES ASSUME NEW T \in SUBSET (1 .. (k + 1)), T # {} PROVE HasGreatest(T)
    OBVIOUS
  <2>1. CASE k + 1 \in T
    <3>1. \A j \in T : j <= k + 1
      OBVIOUS
    <3> QED BY <2>1, <3>1
  <2>2. CASE k + 1 \notin T
    <3>1. \A j \in T : j \in 1 .. k
      BY <2>2
    <3>2. T \in SUBSET (1 .. k)
      BY <3>1
    <3> QED BY <1>2, <3>2
  <2> QED BY <2>1, <2>2
<1> HIDE DEF P
<1>3. \A k \in Nat : k \in P
  BY <1>1, <1>2, SetInduction
<1> QED BY <1>3 DEF P

\* Coming is the output of the last frame that waits, as far as there is one.
LEMMA ComingIs ==
    ASSUME DeviceInv, Follows(transport, device.output)
    PROVE  Coming = Made(transport)
<1> DEFINE s == transport.writes
           frames == {i \in DOMAIN s : s[i].kind = "frame"}
           Latest(i) == \A j \in frames : j <= i
           last == CHOOSE i \in frames : Latest(i)
<1>1. Coming = IF frames = {} THEN device.output ELSE s[last].output
  BY DEF Coming
<1>2. DOMAIN s = 1 .. Len(s) /\ Len(s) \in Nat
  <2>1. s \in Seq(Writes)
    BY SaneParts DEF TransportType
  <2> QED BY <2>1
<1> HIDE DEF s
<1>3. CASE frames = {}
  <2>1. \A i \in 1 .. Len(s) : s[i].kind # "frame"
    BY <1>2, <1>3
  <2> QED BY <1>1, <1>3, <2>1 DEF Follows, s
<1>4. CASE frames # {}
  <2>1. \E i \in frames : Latest(i)
    <3>1. frames \in SUBSET (1 .. Len(s))
      BY <1>2
    <3> HIDE DEF frames
    <3> QED BY <1>2, <1>4, <3>1, Greatest
  <2>2. last \in frames /\ Latest(last)
    BY <2>1
  <2> HIDE DEF last
  <2>3. LastOf("frame", s, last)
    <3>1. last \in 1 .. Len(s) /\ s[last].kind = "frame"
      BY <1>2, <2>2
    <3>2. ASSUME NEW j \in 1 .. Len(s), last < j PROVE s[j].kind # "frame"
      <4>1. j \in frames => j <= last
        BY <2>2
      <4>2. ~(j <= last)
        BY <1>2, <3>1, <3>2
      <4> QED BY <1>2, <4>1, <4>2
    <3> QED BY <3>1, <3>2 DEF LastOf
  <2> QED BY <1>1, <1>4, <2>3 DEF Follows, s
<1> QED BY <1>3, <1>4

\* Whatever stops the output stops it for good, as long as no write fails: no waveform is
\* repeated, and the device is silent once what waits is written (DgLabController.#stopOutput
\* and the transport's clear).
THEOREM StoppedIsSilent == DeviceSpec => []StopSilences
<1>1. ASSUME DeviceInv PROVE StopSilences
  <2> SUFFICES ASSUME ~control.armed, ~failed
               PROVE  /\ \A ch \in Channels : ~transport.wave[ch].loaded
                      /\ Linked => Coming = Silent
    BY DEF StopSilences
  <2>1. Sound(control, transport, device, failed, config)
    BY <1>1, SaneParts
  <2>2. \A ch \in Channels : ~transport.wave[ch].loaded
    BY <2>1 DEF Sound
  <2>3. ASSUME Linked PROVE Coming = Silent
    <3>1. Follows(transport, device.output)
      BY <2>1, <2>3 DEF Linked, Sound, Serves
    <3>2. Coming = Made(transport)
      BY <1>1, <3>1, ComingIs
    <3> QED BY <2>2, <3>2 DEF Made, Silent
  <2> QED BY <2>2, <2>3
<1> QED BY <1>1, DeviceInvHolds, PTL

\* The device never puts out more than the player's limit, whenever that is lowered, once the
\* limits on their way have arrived (setSafetyLimit).
THEOREM LimitIsKept == DeviceSpec => []WithinLimit
<1>1. ASSUME DeviceInv PROVE WithinLimit
  <2> DEFINE s == transport.writes
             limit == config.maxStrength
  <2> SUFFICES ASSUME Linked, ~failed, \A i \in DOMAIN s : s[i].kind = "frame",
                      NEW ch \in Channels
               PROVE  Felt(ch) <= limit
    BY DEF WithinLimit
  <2>1. Sound(control, transport, device, failed, config) /\ limit \in Nat
        /\ device \in DeviceType /\ s \in Seq(Writes)
    BY <1>1, SaneParts DEF TransportType
  <2>2. Limits(transport, device, limit)
    BY <2>1 DEF Linked, Sound, Serves
  <2>3. DOMAIN s = 1 .. Len(s)
    BY <2>1
  <2>4. \A i \in 1 .. Len(s) : s[i].kind # "limit"
    BY <2>3
  <2>5. device.limit = limit \/ Within(transport, device.output, limit)
    BY <2>2, <2>4 DEF Limits
  <2> HIDE DEF limit
  <2>6. device.limit = limit \/ device.output[ch] <= limit
    BY <2>5 DEF Within
  <2>7. device.limit \in Nat /\ device.output[ch] \in Nat
    BY <2>1 DEF DeviceType, Outputs
  <2> QED BY <2>1, <2>6, <2>7 DEF Felt
<1> QED BY <1>1, DeviceInvHolds, PTL

-----------------------------------------------------------------------------
(****************************** the keyboard *******************************)

\* What the lists of presses and of keys keep: every element once, in the order they came.
Before(s, x, y) == \E i, j \in DOMAIN s : i < j /\ s[i] = x /\ s[j] = y
Distinct(s) == \A i, j \in DOMAIN s : s[i] = s[j] => i = j
Has(s, x) == \E i \in DOMAIN s : s[i] = x

\* RemoveAt leaves the others where they are or one place down.
LEMMA RemoveAtIs ==
    ASSUME NEW T, NEW s \in Seq(T), NEW m \in 1 .. Len(s)
    PROVE  /\ RemoveAt(s, m) \in Seq(T) /\ Len(RemoveAt(s, m)) = Len(s) - 1
           /\ \A i \in 1 .. Len(s) - 1 : RemoveAt(s, m)[i] = s[IF i < m THEN i ELSE i + 1]
<1> DEFINE a == SubSeq(s, 1, m - 1)
           b == SubSeq(s, m + 1, Len(s))
<1>1. Len(s) \in Nat /\ m \in Nat /\ 1 <= m /\ m <= Len(s)
  OBVIOUS
<1>2. a \in Seq(T) /\ Len(a) = m - 1 /\ \A i \in 1 .. m - 1 : a[i] = s[i]
  <2>1. 1 \in 1 .. Len(s) + 1 /\ m - 1 \in 0 .. Len(s)
    BY <1>1
  <2>2. \A i \in 1 .. m - 1 : s[i] \in T
    BY <1>1
  <2> QED BY <1>1, <2>1, <2>2
<1>3. b \in Seq(T) /\ Len(b) = Len(s) - m /\ \A i \in 1 .. Len(s) - m : b[i] = s[m + i]
  <2>1. \A i \in (m + 1) .. Len(s) : s[i] \in T
    BY <1>1
  <2>2. m + 1 <= Len(s) + 1
    BY <1>1
  <2> QED BY <1>1, <2>1, <2>2
<1>4. RemoveAt(s, m) = a \o b
  BY DEF RemoveAt
<1> HIDE DEF a, b
<1> DEFINE q == a \o b
<1>5. q \in Seq(T) /\ Len(q) = Len(a) + Len(b)
      /\ \A i \in 1 .. Len(a) + Len(b) : q[i] = IF i <= Len(a) THEN a[i] ELSE b[i - Len(a)]
  <2>1. a \in Seq(T) /\ b \in Seq(T)
    BY <1>2, <1>3
  <2> QED BY <2>1
<1> HIDE DEF q
<1>6. Len(q) = Len(s) - 1
  BY <1>1, <1>2, <1>3, <1>5
<1>7. ASSUME NEW i \in 1 .. Len(s) - 1 PROVE q[i] = s[IF i < m THEN i ELSE i + 1]
  <2>1. q[i] = IF i <= m - 1 THEN a[i] ELSE b[i - (m - 1)]
    BY <1>1, <1>2, <1>3, <1>5
  <2>2. CASE i < m
    <3>1. i \in 1 .. m - 1
      BY <1>1, <2>2
    <3> QED BY <1>2, <2>1, <2>2, <3>1
  <2>3. CASE ~(i < m)
    <3>1. i - (m - 1) \in 1 .. Len(s) - m /\ m + (i - (m - 1)) = i + 1 /\ ~(i <= m - 1)
      BY <1>1, <2>3
    <3>2. b[i - (m - 1)] = s[m + (i - (m - 1))]
      BY <1>3, <3>1
    <3> QED BY <2>1, <2>3, <3>1, <3>2
  <2> QED BY <2>2, <2>3
<1> QED BY <1>4, <1>5, <1>6, <1>7 DEF q

\* RemoveLast takes one element away, if it is there.
LEMMA RemoveLastIs ==
    ASSUME NEW T, NEW s \in Seq(T), NEW x
    PROVE  /\ RemoveLast(s, x) \in Seq(T)
           /\ ~Has(s, x) => RemoveLast(s, x) = s
           /\ Has(s, x) =>
                \E m \in 1 .. Len(s) :
                   /\ s[m] = x /\ Len(RemoveLast(s, x)) = Len(s) - 1
                   /\ \A i \in 1 .. Len(s) - 1 :
                         RemoveLast(s, x)[i] = s[IF i < m THEN i ELSE i + 1]
<1> DEFINE I == {i \in 1 .. Len(s) : s[i] = x}
           At(i) == s[i] = x /\ \A j \in DOMAIN s : j > i => s[j] # x
           at == CHOOSE i \in DOMAIN s : At(i)
<1>1. DOMAIN s = 1 .. Len(s) /\ Len(s) \in Nat
  OBVIOUS
<1>2. CASE ~Has(s, x)
  BY <1>2 DEF Has, RemoveLast
<1>3. CASE Has(s, x)
  <2>1. I # {} /\ I \in SUBSET (1 .. Len(s))
    BY <1>1, <1>3 DEF Has
  <2>2. PICK m \in I : \A j \in I : j <= m
    <3> HIDE DEF I
    <3> QED BY <1>1, <2>1, Greatest
  <2>3. m \in DOMAIN s /\ At(m)
    <3>1. ASSUME NEW j \in DOMAIN s, j > m PROVE s[j] # x
      <4>1. j \in I => j <= m
        BY <2>2
      <4> QED BY <1>1, <2>1, <3>1, <4>1
    <3> QED BY <1>1, <3>1
  <2>4. at \in DOMAIN s /\ At(at)
    BY <2>3
  <2>5. RemoveLast(s, x) = RemoveAt(s, at)
    BY <1>3 DEF RemoveLast, Has
  <2>6. at \in 1 .. Len(s) /\ s[at] = x
    BY <1>1, <2>4
  <2> HIDE DEF at
  <2> QED BY <1>3, <2>5, <2>6, RemoveAtIs
<1> QED BY <1>2, <1>3

\* From a list without repetitions, the element is gone and the others keep their order.
LEMMA RemovedKeepsOrder ==
    ASSUME NEW T, NEW s \in Seq(T), Distinct(s), NEW x
    PROVE  LET q == RemoveLast(s, x)
           IN  /\ q \in Seq(T) /\ Distinct(q)
               /\ \A y : Has(q, y) <=> Has(s, y) /\ y # x
               /\ \A y, z : Before(q, y, z) <=> Before(s, y, z) /\ y # x /\ z # x
<1> DEFINE q == RemoveLast(s, x)
<1>1. DOMAIN s = 1 .. Len(s) /\ Len(s) \in Nat /\ q \in Seq(T)
  BY RemoveLastIs
<1>2. CASE ~Has(s, x)
  <2>1. q = s
    BY <1>2, RemoveLastIs
  <2>2. \A y, z : Before(s, y, z) => Has(s, y) /\ Has(s, z)
    BY DEF Before, Has
  <2> HIDE DEF q
  <2> QED BY <1>1, <1>2, <2>1, <2>2 DEF q
<1>3. CASE Has(s, x)
  <2>1. PICK m \in 1 .. Len(s) :
             /\ s[m] = x /\ Len(q) = Len(s) - 1
             /\ \A i \in 1 .. Len(s) - 1 : q[i] = s[IF i < m THEN i ELSE i + 1]
    BY <1>3, RemoveLastIs
  <2>2. DOMAIN q = 1 .. Len(s) - 1
    BY <1>1, <2>1
  <2> HIDE DEF q
  <2> DEFINE Up(i) == IF i < m THEN i ELSE i + 1
             Down(k) == IF k < m THEN k ELSE k - 1
  <2>3. \A i \in DOMAIN q : Up(i) \in DOMAIN s /\ Up(i) # m /\ q[i] = s[Up(i)]
    BY <1>1, <2>1, <2>2
  <2>4. \A i, j \in DOMAIN q : (i < j <=> Up(i) < Up(j)) /\ (Up(i) = Up(j) => i = j)
    BY <1>1, <2>1, <2>2
  <2>5. \A k \in DOMAIN s : k # m => Down(k) \in DOMAIN q /\ Up(Down(k)) = k
    BY <1>1, <2>1, <2>2
  <2>6. \A k \in DOMAIN s : s[k] = x <=> k = m
    BY <1>1, <2>1 DEF Distinct
  <2> HIDE DEF Up, Down
  <2>7. Distinct(q)
    BY <2>3, <2>4 DEF Distinct
  <2>8. \A y : Has(q, y) <=> Has(s, y) /\ y # x
    <3>1. ASSUME NEW y, Has(q, y) PROVE Has(s, y) /\ y # x
      BY <2>3, <2>6, <3>1 DEF Has
    <3>2. ASSUME NEW y, Has(s, y), y # x PROVE Has(q, y)
      <4>1. PICK k \in DOMAIN s : s[k] = y
        BY <3>2 DEF Has
      <4>2. k # m
        BY <2>6, <3>2, <4>1
      <4>3. Down(k) \in DOMAIN q /\ q[Down(k)] = y
        BY <2>3, <2>5, <4>1, <4>2
      <4> QED BY <4>3 DEF Has
    <3> QED BY <3>1, <3>2
  <2>9. \A y, z : Before(q, y, z) <=> Before(s, y, z) /\ y # x /\ z # x
    <3>1. ASSUME NEW y, NEW z, Before(q, y, z) PROVE Before(s, y, z) /\ y # x /\ z # x
      <4>1. PICK i \in DOMAIN q, j \in DOMAIN q : i < j /\ q[i] = y /\ q[j] = z
        BY <3>1 DEF Before
      <4>2. Up(i) \in DOMAIN s /\ Up(j) \in DOMAIN s /\ Up(i) < Up(j)
            /\ s[Up(i)] = y /\ s[Up(j)] = z /\ Up(i) # m /\ Up(j) # m
        BY <2>3, <2>4, <4>1
      <4> QED BY <2>6, <4>2 DEF Before
    <3>2. ASSUME NEW y, NEW z, Before(s, y, z), y # x, z # x PROVE Before(q, y, z)
      <4>1. PICK k \in DOMAIN s, l \in DOMAIN s : k < l /\ s[k] = y /\ s[l] = z
        BY <3>2 DEF Before
      <4>2. k # m /\ l # m
        BY <2>6, <3>2, <4>1
      <4>3. /\ Down(k) \in DOMAIN q /\ Up(Down(k)) = k
            /\ Down(l) \in DOMAIN q /\ Up(Down(l)) = l
        BY <2>5, <4>2
      <4>4. Down(k) < Down(l) /\ q[Down(k)] = y /\ q[Down(l)] = z
        BY <2>3, <2>4, <4>1, <4>3
      <4> QED BY <4>3, <4>4 DEF Before
    <3> QED BY <3>1, <3>2
  <2> QED BY <1>1, <2>7, <2>8, <2>9 DEF q
<1> QED BY <1>2, <1>3

\* A new element comes after the others.
LEMMA AppendedKeepsOrder ==
    ASSUME NEW T, NEW s \in Seq(T), Distinct(s), NEW x \in T, ~Has(s, x)
    PROVE  LET q == Append(s, x)
           IN  /\ q \in Seq(T) /\ Distinct(q) /\ q # <<>> /\ q[Len(q)] = x
               /\ \A y : Has(q, y) <=> Has(s, y) \/ y = x
               /\ \A y, z : Before(q, y, z) <=> Before(s, y, z) \/ (Has(s, y) /\ z = x)
<1> DEFINE q == Append(s, x)
           n == Len(s) + 1
<1>1. DOMAIN s = 1 .. Len(s) /\ Len(s) \in Nat /\ q \in Seq(T) /\ q # <<>> /\ Len(q) = n
      /\ DOMAIN q = 1 .. n /\ q[n] = x /\ \A i \in 1 .. Len(s) : q[i] = s[i]
  OBVIOUS
<1> HIDE DEF q
<1>2. /\ n \in DOMAIN q /\ DOMAIN s \subseteq DOMAIN q
      /\ \A i \in DOMAIN q : i # n => i \in DOMAIN s /\ i < n
  BY <1>1
<1>3. \A i \in DOMAIN s : i < n /\ i # n /\ s[i] # x /\ q[i] = s[i]
  BY <1>1 DEF Has
<1>4. Distinct(q)
  BY <1>1, <1>2, <1>3 DEF Distinct
<1>5. \A y : Has(q, y) <=> Has(s, y) \/ y = x
  BY <1>1, <1>2, <1>3 DEF Has
<1>6. \A y, z : Before(q, y, z) <=> Before(s, y, z) \/ (Has(s, y) /\ z = x)
  <2>1. ASSUME NEW y, NEW z, Before(q, y, z) PROVE Before(s, y, z) \/ (Has(s, y) /\ z = x)
    <3>1. PICK i \in DOMAIN q, j \in DOMAIN q : i < j /\ q[i] = y /\ q[j] = z
      BY <2>1 DEF Before
    <3>2. i # n
      BY <1>1, <3>1
    <3>3. i \in DOMAIN s /\ s[i] = y
      BY <1>2, <1>3, <3>1, <3>2
    <3>4. CASE j = n
      BY <1>1, <3>1, <3>3, <3>4 DEF Has
    <3>5. CASE j # n
      <4>1. j \in DOMAIN s /\ s[j] = z
        BY <1>2, <1>3, <3>1, <3>5
      <4> QED BY <3>1, <3>3, <4>1 DEF Before
    <3> QED BY <3>4, <3>5
  <2>2. ASSUME NEW y, NEW z, Before(s, y, z) PROVE Before(q, y, z)
    BY <1>2, <1>3, <2>2 DEF Before
  <2>3. ASSUME NEW y, Has(s, y) PROVE Before(q, y, x)
    BY <1>1, <1>2, <1>3, <2>3 DEF Before, Has
  <2> QED BY <2>1, <2>2, <2>3
<1> QED BY <1>1, <1>4, <1>5, <1>6 DEF q

Presses == [code : Codes, way : Directions \cup Rotations]
Times == {Never} \cup Nat
Ways == Directions \cup Rotations \cup {"none"}
Commands == [do : {"step", "wall", "rotate", "soft", "floor", "hardDrop", "hold"}, way : Ways,
             by : {"key", "buffer"}]
EngineType ==
    [now : Nat, pressed : SUBSET Codes, held : [Actions -> Nat], order : Seq(Presses),
     active : Directions \cup {"none"}, charged : BOOLEAN, nextShift : Times, nextDrop : Times,
     blocked : Nat, skipped : BOOLEAN, rotations : Seq(Presses), tapHold : BOOLEAN,
     tapRotation : Rotations \cup {"none"}, prepared : Seq({"hardDrop", "hold"})]
ResultType == [e : EngineType, out : Seq(Commands)]

\* What makes the shifting go on: something is due unless the piece is at the wall, and
\* without a direction nothing is.
Shifting(e) ==
    /\ e.active = "none" => e.nextShift = Never
    /\ e.active # "none" /\ ~e.skipped => e.nextShift # Never \/ (e.charged /\ handling.arr = 0)

\* The keys are the same.
SameKeys(e, q) ==
    q.pressed = e.pressed /\ q.held = e.held /\ q.order = e.order /\ q.active = e.active

LEMMA ResultParts ==
    ASSUME NEW r \in ResultType
    PROVE  /\ r.e \in EngineType /\ r.out \in Seq(Commands) /\ Len(r.out) \in Nat
           /\ r = [e |-> r.e, out |-> r.out]
BY DEF ResultType

LEMMA SettingParts ==
    ASSUME handling \in Settings
    PROVE  /\ handling.das \in Nat \ {0} /\ handling.arr \in Nat /\ handling.dcd \in Nat
           /\ handling.sdf \in Nat
           /\ handling.cancel \in BOOLEAN /\ handling.preferDrop \in BOOLEAN
           /\ handling.safe \in BOOLEAN
           /\ MaxEmissions \in Nat \ {0} /\ SafeLockTime \in Nat
BY HandlingAssumption

LEMMA CommandTypes ==
    /\ \A way \in Directions : Step(way) \in Commands /\ Wall(way) \in Commands
    /\ \A way \in Rotations : Rotate(way, "key") \in Commands /\ Rotate(way, "buffer") \in Commands
    /\ Do("soft") \in Commands /\ Do("floor") \in Commands
    /\ Do("hardDrop") \in Commands /\ Do("hold") \in Commands
BY DEF Commands, Step, Wall, Rotate, Do, Command, Ways, Directions, Rotations

\* #emitHorizontal and #emitSoftDrop: the engine they leave, and what they put out.
Shifted(e) ==
    IF e.active = "none" THEN [e EXCEPT !.nextShift = Never]
    ELSE [e EXCEPT !.charged = TRUE,
                   !.nextShift = IF handling.arr = 0 THEN Never ELSE e.nextShift + handling.arr]
ShiftOut(e) ==
    IF e.active = "none" THEN <<>>
    ELSE <<IF handling.arr = 0 THEN Wall(e.active) ELSE Step(e.active)>>
Dropped(e) == [e EXCEPT !.nextDrop = e.nextDrop + handling.sdf]

LEMMA AppendIsConcat ==
    ASSUME NEW T, NEW s \in Seq(T), NEW c \in T
    PROVE  Append(s, c) = s \o <<c>>
OBVIOUS

LEMMA EmitShiftIs ==
    ASSUME handling \in Settings, NEW e \in EngineType, NEW s \in Seq(Commands)
    PROVE  EmitShift([e |-> e, out |-> s]) = [e |-> Shifted(e), out |-> s \o ShiftOut(e)]
<1> DEFINE r == [e |-> e, out |-> s]
<1>1. r.e = e /\ r.out = s
  OBVIOUS
<1>2. CASE e.active = "none"
  <2>1. EmitShift(r) = [r EXCEPT !.e.nextShift = Never]
    BY <1>1, <1>2 DEF EmitShift
  <2> DEFINE e1 == [e EXCEPT !.nextShift = Never]
  <2>2. [r EXCEPT !.e.nextShift = Never] = [r EXCEPT !.e = e1]
    BY <1>1
  <2> HIDE DEF e1
  <2>3. [r EXCEPT !.e = e1] = [e |-> e1, out |-> s]
    OBVIOUS
  <2>4. s \o <<>> = s
    OBVIOUS
  <2> QED BY <1>2, <2>1, <2>2, <2>3, <2>4 DEF e1, Shifted, ShiftOut
<1>3. CASE e.active # "none" /\ handling.arr = 0
  <2> DEFINE e1 == [e EXCEPT !.charged = TRUE, !.nextShift = Never]
             r1 == [r EXCEPT !.e.charged = TRUE, !.e.nextShift = Never]
  <2>1. EmitShift(r) = Emit(r1, Wall(e.active))
    BY <1>1, <1>3 DEF EmitShift
  <2>2. r1 = [r EXCEPT !.e = e1]
    BY <1>1
  <2> HIDE DEF e1
  <2>3. r1 = [e |-> e1, out |-> s]
    BY <2>2
  <2> HIDE DEF r1
  <2>4. EmitShift(r) = [e |-> e1, out |-> Append(s, Wall(e.active))]
    BY <2>1, <2>3 DEF Emit
  <2>5. e1 = Shifted(e) /\ ShiftOut(e) = <<Wall(e.active)>>
    BY <1>3 DEF e1, Shifted, ShiftOut
  <2>6. Wall(e.active) \in Commands
    BY <1>3, CommandTypes DEF EngineType
  <2> QED BY <2>4, <2>5, <2>6, AppendIsConcat
<1>4. CASE e.active # "none" /\ handling.arr # 0
  <2> DEFINE e1 == [e EXCEPT !.charged = TRUE, !.nextShift = e.nextShift + handling.arr]
             r1 == [r EXCEPT !.e.charged = TRUE, !.e.nextShift = @ + handling.arr]
  <2>1. EmitShift(r) = Emit(r1, Step(e.active))
    BY <1>1, <1>4 DEF EmitShift
  <2>5. e1 = [e EXCEPT !.charged = TRUE, !.nextShift = @ + handling.arr]
    BY DEF EngineType
  <2>2. r1 = [r EXCEPT !.e = e1]
    BY <1>1, <2>5 DEF EngineType
  <2> HIDE DEF e1
  <2>3. r1 = [e |-> e1, out |-> s]
    BY <2>2
  <2> HIDE DEF r1
  <2>4. EmitShift(r) = [e |-> e1, out |-> Append(s, Step(e.active))]
    BY <2>1, <2>3 DEF Emit
  <2>6. e1 = Shifted(e) /\ ShiftOut(e) = <<Step(e.active)>>
    BY <1>4 DEF e1, Shifted, ShiftOut
  <2>7. Step(e.active) \in Commands
    BY <1>4, CommandTypes DEF EngineType
  <2> QED BY <2>4, <2>6, <2>7, AppendIsConcat
<1> QED BY <1>2, <1>3, <1>4

LEMMA EmitDropIs ==
    ASSUME NEW e \in EngineType, NEW s \in Seq(Commands)
    PROVE  EmitDrop([e |-> e, out |-> s]) = [e |-> Dropped(e), out |-> s \o <<Do("soft")>>]
<1> DEFINE r == [e |-> e, out |-> s]
           e1 == Dropped(e)
           r1 == [r EXCEPT !.e.nextDrop = @ + handling.sdf]
<1>1. r.e = e /\ r.out = s
  OBVIOUS
<1>2. e1 = [e EXCEPT !.nextDrop = @ + handling.sdf]
  BY DEF EngineType, Dropped
<1>3. r1 = [r EXCEPT !.e = e1]
  BY <1>1, <1>2 DEF EngineType
<1> HIDE DEF e1
<1>4. r1 = [e |-> e1, out |-> s]
  BY <1>3
<1>5. EmitDrop(r) = Emit(r1, Do("soft"))
  BY DEF EmitDrop
<1> HIDE DEF r1
<1>6. Emit(r1, Do("soft")) = [e |-> e1, out |-> Append(s, Do("soft"))]
  BY <1>4 DEF Emit
<1> QED BY <1>5, <1>6, AppendIsConcat, CommandTypes DEF e1

\* What they keep.
LEMMA ShiftedIs ==
    ASSUME handling \in Settings, NEW e \in EngineType
    PROVE  /\ e.nextShift # Never => Shifted(e) \in EngineType
           /\ SameKeys(e, Shifted(e)) /\ Shifted(e).now = e.now
           /\ Shifted(e).nextDrop = e.nextDrop
           /\ e.nextShift # Never => Shifting(Shifted(e))
           /\ ShiftOut(e) \in Seq(Commands)
           /\ e.active # "none" => Len(ShiftOut(e)) = 1
<1>1. CASE e.active = "none"
  <2>1. ShiftOut(e) = <<>> /\ ShiftOut(e) \in Seq(Commands)
    BY <1>1 DEF ShiftOut
  <2> QED BY <1>1, <2>1 DEF Shifted, EngineType, Times, SameKeys, Shifting
<1>2. CASE e.active # "none"
  <2> DEFINE next == IF handling.arr = 0 THEN Never ELSE e.nextShift + handling.arr
             c == IF handling.arr = 0 THEN Wall(e.active) ELSE Step(e.active)
  <2>1. e.nextShift # Never =>
            next \in Times /\ (next # Never \/ handling.arr = 0)
    BY SettingParts DEF EngineType, Times, Never
  <2>2. Shifted(e) = [e EXCEPT !.charged = TRUE, !.nextShift = next] /\ ShiftOut(e) = <<c>>
    BY <1>2 DEF Shifted, ShiftOut
  <2>3. c \in Commands
    BY <1>2, CommandTypes DEF EngineType
  <2> HIDE DEF next, c
  <2>4. ShiftOut(e) \in Seq(Commands) /\ Len(ShiftOut(e)) = 1
    BY <2>2, <2>3
  <2> QED BY <1>2, <2>1, <2>2, <2>4 DEF EngineType, SameKeys, Shifting
<1> QED BY <1>1, <1>2

LEMMA DroppedIs ==
    ASSUME handling \in Settings, NEW e \in EngineType
    PROVE  /\ e.nextDrop # Never => Dropped(e) \in EngineType
           /\ SameKeys(e, Dropped(e)) /\ Dropped(e).now = e.now
           /\ Dropped(e).nextShift = e.nextShift
           /\ Shifting(e) => Shifting(Dropped(e))
<1>1. e.nextDrop # Never => e.nextDrop + handling.sdf \in Nat
  BY SettingParts DEF EngineType, Times
<1> QED BY <1>1 DEF Dropped, EngineType, Times, SameKeys, Shifting

\* advance, once round its loop: the engine it leaves, and what it puts out.
At(e) == [e EXCEPT !.now = NextDue(e)]
ShiftDue(e) == e.nextShift = NextDue(e)
DropDue(e) == e.nextDrop = NextDue(e)
Gone(e) ==
    LET a == IF ShiftDue(e) THEN Shifted(At(e)) ELSE At(e)
    IN  IF DropDue(e) THEN Dropped(a) ELSE a
GoneOut(e) ==
    IF ShiftDue(e) /\ DropDue(e)
    THEN IF handling.preferDrop THEN <<Do("soft")>> \o ShiftOut(e) ELSE ShiftOut(e) \o <<Do("soft")>>
    ELSE IF ShiftDue(e) THEN ShiftOut(e) ELSE <<Do("soft")>>

LEMMA NextDueIs ==
    ASSUME NEW e \in EngineType
    PROVE  NextDue(e) \in Times /\ (ShiftDue(e) \/ DropDue(e))
BY DEF NextDue, ShiftDue, DropDue, EngineType

LEMMA AtIs ==
    ASSUME NEW e \in EngineType, NextDue(e) # Never
    PROVE  /\ At(e) \in EngineType /\ SameKeys(e, At(e)) /\ At(e).now = NextDue(e)
           /\ At(e).nextShift = e.nextShift /\ At(e).nextDrop = e.nextDrop
           /\ (Shifting(e) => Shifting(At(e))) /\ ShiftOut(At(e)) = ShiftOut(e)
<1>1. NextDue(e) \in Nat
  BY NextDueIs DEF Times
<1> QED BY <1>1 DEF At, EngineType, SameKeys, Shifting, ShiftOut

LEMMA DropShiftCommute ==
    ASSUME handling \in Settings, NEW e \in EngineType
    PROVE  Shifted(Dropped(e)) = Dropped(Shifted(e)) /\ ShiftOut(Dropped(e)) = ShiftOut(e)
BY DEF Shifted, Dropped, ShiftOut, EngineType

LEMMA ConcatTwice ==
    ASSUME NEW T, NEW s \in Seq(T), NEW a \in Seq(T), NEW b \in Seq(T)
    PROVE  (s \o a) \o b = s \o (a \o b)
OBVIOUS

LEMMA ConcatType ==
    ASSUME NEW T, NEW a \in Seq(T), NEW b \in Seq(T)
    PROVE  a \o b \in Seq(T) /\ Len(a \o b) = Len(a) + Len(b) /\ {Len(a), Len(b)} \subseteq Nat
OBVIOUS

LEMMA SoftOut == <<Do("soft")>> \in Seq(Commands) /\ Len(<<Do("soft")>>) = 1
BY CommandTypes

LEMMA GoneIs ==
    ASSUME handling \in Settings, NEW e \in EngineType, NextDue(e) # Never
    PROVE  /\ Gone(e) \in EngineType /\ SameKeys(e, Gone(e))
           /\ GoneOut(e) \in Seq(Commands)
           /\ Shifting(e) => Shifting(Gone(e)) /\ Len(GoneOut(e)) >= 1
<1> DEFINE a == IF ShiftDue(e) THEN Shifted(At(e)) ELSE At(e)
<1>1. /\ a \in EngineType /\ SameKeys(e, a) /\ a.nextDrop = e.nextDrop
      /\ Shifting(e) => Shifting(a)
  BY AtIs, ShiftedIs DEF ShiftDue, SameKeys
<1> HIDE DEF a
<1>2. Gone(e) = IF DropDue(e) THEN Dropped(a) ELSE a
  BY DEF Gone, a
<1>3. Gone(e) \in EngineType /\ SameKeys(e, Gone(e)) /\ (Shifting(e) => Shifting(Gone(e)))
  BY <1>1, <1>2, DroppedIs DEF DropDue, SameKeys
<1>4. GoneOut(e) \in Seq(Commands) /\ (Shifting(e) => Len(GoneOut(e)) >= 1)
  <2>1. ShiftOut(e) \in Seq(Commands)
        /\ (Shifting(e) /\ ShiftDue(e) => Len(ShiftOut(e)) = 1)
    BY ShiftedIs DEF Shifting, ShiftDue
  <2> DEFINE o == ShiftOut(e)
             d == <<Do("soft")>>
  <2>2. d \in Seq(Commands) /\ Len(d) = 1
    BY SoftOut
  <2>3. o \in Seq(Commands) /\ Len(o) \in Nat
    BY <2>1
  <2> HIDE DEF o, d
  <2>4. /\ d \o o \in Seq(Commands) /\ o \o d \in Seq(Commands)
        /\ Len(d \o o) = Len(d) + Len(o) /\ Len(o \o d) = Len(o) + Len(d)
    BY <2>2, <2>3, ConcatType, Zenon
  <2>5. /\ d \o o \in Seq(Commands) /\ o \o d \in Seq(Commands)
        /\ Len(d \o o) >= 1 /\ Len(o \o d) >= 1
    BY <2>2, <2>3, <2>4
  <2>6. GoneOut(e) = IF ShiftDue(e) /\ DropDue(e) THEN IF handling.preferDrop THEN d \o o ELSE o \o d
                     ELSE IF ShiftDue(e) THEN o ELSE d
    BY DEF GoneOut, o, d
  <2>7. Shifting(e) /\ ShiftDue(e) => Len(o) = 1
    BY <2>1 DEF o
  <2> DEFINE x == d \o o
             y == o \o d
  <2>8. x \in Seq(Commands) /\ y \in Seq(Commands) /\ Len(x) >= 1 /\ Len(y) >= 1
    BY <2>5
  <2>9. GoneOut(e) = IF ShiftDue(e) /\ DropDue(e) THEN IF handling.preferDrop THEN x ELSE y
                     ELSE IF ShiftDue(e) THEN o ELSE d
    BY <2>6
  <2> HIDE DEF x, y
  <2>10. \/ GoneOut(e) = x \/ GoneOut(e) = y \/ GoneOut(e) = d
         \/ ShiftDue(e) /\ GoneOut(e) = o
    BY <2>9
  <2>11. Len(d) >= 1 /\ (Shifting(e) /\ ShiftDue(e) => Len(o) >= 1)
    <3>1. \A n : n = 1 => n >= 1
      OBVIOUS
    <3>2. Len(d) >= 1
      BY <2>2, <3>1
    <3>3. Len(o) = 1 => Len(o) >= 1
      BY <3>1
    <3> QED BY <2>7, <3>2, <3>3, Zenon
  <2> QED BY <2>2, <2>3, <2>8, <2>10, <2>11, Zenon
<1> QED BY <1>3, <1>4

\* Only the times and the charge change.
AtTime(e, t) == [e EXCEPT !.now = t]
LEMMA GoneForgetsNow ==
    ASSUME handling \in Settings, NEW e \in EngineType, NEW f \in EngineType,
           f = AtTime(e, f.now)
    PROVE  Gone(f) = Gone(e) /\ GoneOut(f) = GoneOut(e) /\ NextDue(f) = NextDue(e)
<1>1. /\ f.nextShift = e.nextShift /\ f.nextDrop = e.nextDrop /\ f.active = e.active
      /\ NextDue(f) = NextDue(e)
  BY DEF EngineType, NextDue, AtTime
<1>2. At(f) = At(e)
  <2> DEFINE n == f.now
             d == NextDue(e)
  <2>1. f = [e EXCEPT !.now = n] /\ At(f) = [f EXCEPT !.now = d] /\ At(e) = [e EXCEPT !.now = d]
    BY <1>1 DEF At, AtTime
  <2> HIDE DEF n, d
  <2> QED BY <2>1 DEF EngineType
<1>3. (ShiftDue(f) <=> ShiftDue(e)) /\ (DropDue(f) <=> DropDue(e)) /\ ShiftOut(f) = ShiftOut(e)
  BY <1>1 DEF ShiftDue, DropDue, ShiftOut
<1> QED BY <1>1, <1>2, <1>3 DEF Gone, GoneOut

\* advance by its loop.
LEMMA AdvanceOnceIs ==
    ASSUME handling \in Settings, NEW r \in ResultType, NEW t
    PROVE  IF Stopped(r, t) THEN AdvanceOnce(r, t) = r
           ELSE NextDue(r.e) # Never =>
                AdvanceOnce(r, t) = [e |-> Gone(r.e), out |-> r.out \o GoneOut(r.e)]
<1> DEFINE e == r.e
           s == r.out
           a == At(e)
           d == <<Do("soft")>>
           o == ShiftOut(e)
           at == [r EXCEPT !.e.now = NextDue(r.e)]
<1>1. e \in EngineType /\ s \in Seq(Commands) /\ r = [e |-> e, out |-> s]
  BY ResultParts
<1>2. at = [e |-> a, out |-> s]
  <2>1. at = [r EXCEPT !.e = a]
    BY DEF At
  <2> HIDE DEF a
  <2> QED BY <1>1, <2>1
<1>3. AdvanceOnce(r, t) =
          IF Stopped(r, t) THEN r
          ELSE IF ShiftDue(e) /\ DropDue(e)
          THEN IF handling.preferDrop THEN EmitShift(EmitDrop(at)) ELSE EmitDrop(EmitShift(at))
          ELSE IF ShiftDue(e) THEN EmitShift(at) ELSE EmitDrop(at)
  BY DEF AdvanceOnce, ShiftDue, DropDue
<1> HIDE DEF at
<1>4. ASSUME NextDue(e) # Never, ~Stopped(r, t)
      PROVE  AdvanceOnce(r, t) = [e |-> Gone(e), out |-> s \o GoneOut(e)]
  <2>1. /\ a \in EngineType /\ a.nextShift = e.nextShift /\ a.nextDrop = e.nextDrop
        /\ ShiftOut(a) = o
    BY <1>1, <1>4, AtIs
  <2>2. o \in Seq(Commands) /\ d \in Seq(Commands)
    BY <1>1, ShiftedIs, SoftOut
  <2> HIDE DEF a, o, d
  <2>3. /\ s \o o \in Seq(Commands) /\ s \o d \in Seq(Commands)
        /\ (s \o o) \o d = s \o (o \o d) /\ (s \o d) \o o = s \o (d \o o)
    <3> HIDE DEF s
    <3>0. s \in Seq(Commands) /\ o \in Seq(Commands) /\ d \in Seq(Commands)
      BY <1>1, <2>2
    <3>1. s \o o \in Seq(Commands) /\ s \o d \in Seq(Commands)
      BY <3>0, ConcatType
    <3>2. (s \o o) \o d = s \o (o \o d)
      BY <3>0, ConcatTwice
    <3>3. (s \o d) \o o = s \o (d \o o)
      BY <3>0, ConcatTwice
    <3> QED BY <3>1, <3>2, <3>3
  <2>4. /\ EmitShift(at) = [e |-> Shifted(a), out |-> s \o o]
        /\ EmitDrop(at) = [e |-> Dropped(a), out |-> s \o d]
    BY <1>1, <1>2, <2>1, EmitShiftIs, EmitDropIs DEF d
  <2>5. CASE ShiftDue(e) /\ DropDue(e) /\ handling.preferDrop
    <3>1. Dropped(a) \in EngineType
      BY <1>4, <2>1, <2>5, DroppedIs DEF DropDue
    <3>2. EmitShift(EmitDrop(at)) = [e |-> Shifted(Dropped(a)), out |-> (s \o d) \o ShiftOut(Dropped(a))]
      BY <2>3, <2>4, <3>1, EmitShiftIs
    <3>3. Shifted(Dropped(a)) = Gone(e) /\ ShiftOut(Dropped(a)) = o
      BY <2>1, <2>5, DropShiftCommute DEF Gone, a
    <3>4. GoneOut(e) = d \o o
      BY <2>5 DEF GoneOut, d, o
    <3> QED BY <1>3, <1>4, <2>3, <2>5, <3>2, <3>3, <3>4
  <2>6. CASE ShiftDue(e) /\ DropDue(e) /\ ~handling.preferDrop
    <3>1. Shifted(a) \in EngineType
      BY <1>4, <2>1, <2>6, ShiftedIs DEF ShiftDue
    <3>2. EmitDrop(EmitShift(at)) = [e |-> Dropped(Shifted(a)), out |-> (s \o o) \o d]
      BY <2>3, <2>4, <3>1, EmitDropIs DEF d
    <3>3. Dropped(Shifted(a)) = Gone(e)
      BY <2>6 DEF Gone, a
    <3>4. GoneOut(e) = o \o d
      BY <2>6 DEF GoneOut, d, o
    <3> QED BY <1>3, <1>4, <2>3, <2>6, <3>2, <3>3, <3>4
  <2>7. CASE ShiftDue(e) /\ ~DropDue(e)
    <3>1. Gone(e) = Shifted(a) /\ GoneOut(e) = o
      BY <2>7 DEF Gone, GoneOut, a, o
    <3> QED BY <1>3, <1>4, <2>4, <2>7, <3>1
  <2>8. CASE ~ShiftDue(e)
    <3>1. DropDue(e)
      BY <1>1, <2>8, NextDueIs
    <3>2. Gone(e) = Dropped(a) /\ GoneOut(e) = d
      BY <2>8, <3>1 DEF Gone, GoneOut, a, d
    <3> QED BY <1>3, <1>4, <2>4, <2>8, <3>2
  <2> QED BY <2>5, <2>6, <2>7, <2>8
<1>5. Stopped(r, t) => AdvanceOnce(r, t) = r
  BY <1>3
<1> QED BY <1>4, <1>5

\* The results the engine comes to from e by time alone.
Reach(e) == {r \in ResultType : Shifting(r.e) /\ SameKeys(e, r.e)}

\* One round of the loop: it stops, or puts something out.
LEMMA RoundIs ==
    ASSUME handling \in Settings, NEW e \in EngineType, NEW r \in Reach(e), NEW t \in Nat
    PROVE  /\ AdvanceOnce(r, t) \in Reach(e)
           /\ Stopped(r, t) => AdvanceOnce(r, t) = r
           /\ ~Stopped(r, t) =>
                /\ AdvanceOnce(r, t) = [e |-> Gone(r.e), out |-> r.out \o GoneOut(r.e)]
                /\ Len(AdvanceOnce(r, t).out) >= Len(r.out) + 1
<1>1. r \in ResultType /\ Shifting(r.e) /\ SameKeys(e, r.e)
  BY DEF Reach
<1>2. r.e \in EngineType /\ r.out \in Seq(Commands) /\ Len(r.out) \in Nat
  BY <1>1, ResultParts
<1>3. CASE Stopped(r, t)
  BY <1>1, <1>3, AdvanceOnceIs
<1>4. CASE ~Stopped(r, t)
  <2>1. NextDue(r.e) # Never
    BY <1>4 DEF Stopped, Never
  <2>2. AdvanceOnce(r, t) = [e |-> Gone(r.e), out |-> r.out \o GoneOut(r.e)]
    BY <1>1, <1>4, <2>1, AdvanceOnceIs
  <2> DEFINE g == Gone(r.e)
             o == GoneOut(r.e)
             s == r.out
             p == s \o o
  <2>3. /\ g \in EngineType /\ SameKeys(r.e, g) /\ o \in Seq(Commands) /\ Shifting(g)
        /\ Len(o) >= 1
    BY <1>1, <1>2, <2>1, GoneIs
  <2>4. s \in Seq(Commands) /\ Len(s) \in Nat
    BY <1>2
  <2> HIDE DEF g, o, s
  <2>5. p \in Seq(Commands) /\ Len(p) = Len(s) + Len(o) /\ Len(o) \in Nat
    BY <2>3, <2>4, ConcatType
  <2> HIDE DEF p
  <2>6. AdvanceOnce(r, t) = [e |-> g, out |-> p]
    BY <2>2 DEF g, o, s, p
  <2>7. Len(p) >= Len(s) + 1
    BY <2>3, <2>4, <2>5
  <2>8. [e |-> g, out |-> p] \in ResultType
    BY <2>3, <2>5 DEF ResultType
  <2>9. SameKeys(e, g)
    BY <1>1, <2>3 DEF SameKeys
  <2>10. AdvanceOnce(r, t) \in Reach(e)
    BY <2>3, <2>6, <2>8, <2>9 DEF Reach
  <2>11. Len(AdvanceOnce(r, t).out) >= Len(r.out) + 1
    BY <2>6, <2>7 DEF s
  <2> QED BY <1>4, <2>2, <2>10, <2>11
<1> QED BY <1>3, <1>4

\* advance after its loop.
Kept(r, t) == IF Len(r.out) = MaxEmissions THEN SkipBacklog(r.e, t) ELSE r.e
AdvanceEnds(r, t) == [r EXCEPT !.e = [Kept(r, t) EXCEPT !.now = t]]
IsRun(f, e, t) ==
    /\ f[0] = Result(e)
    /\ \A n \in 1 .. MaxEmissions : f[n] = AdvanceOnce(f[n - 1], t)

LEMMA AdvanceRuns ==
    ASSUME handling \in Settings, NEW e \in EngineType, Shifting(e), NEW t \in Nat
    PROVE  \E f \in [0 .. MaxEmissions -> Reach(e)] :
              IsRun(f, e, t) /\ Advanced(e, t) = AdvanceEnds(f[MaxEmissions], t)
<1> DEFINE N == MaxEmissions
           start == Result(e)
           S == Reach(e)
           Solves(f) == f = [n \in 0 .. MaxEmissions |->
                                IF n = 0 THEN Result(e) ELSE AdvanceOnce(f[n - 1], t)]
           F == CHOOSE f : Solves(f)
           g == [n \in 1 .. N |-> [x \in S |-> AdvanceOnce(x, t)]]
<1>1. N \in Nat /\ N # 0
  BY SettingParts
<1>2. start \in S
  <2> DEFINE none == <<>>
  <2>1. none \in Seq(Commands)
    OBVIOUS
  <2>2. start = [e |-> e, out |-> none]
    BY DEF Result
  <2> HIDE DEF none
  <2> QED BY <2>1, <2>2 DEF Reach, ResultType, SameKeys
<1>3. \A x \in S : AdvanceOnce(x, t) \in S
  BY RoundIs
<1> HIDE DEF S, start
<1>4. g \in [1 .. N -> [S -> S]]
  BY <1>3
<1>5. \A n \in 1 .. N : \A x \in S : g[n][x] = AdvanceOnce(x, t)
  OBVIOUS
<1> HIDE DEF g
<1>6. PICK f \in [0 .. N -> S] : f[0] = start /\ \A n \in 1 .. N : f[n] = g[n][f[n - 1]]
  <2>1. HasRun(S, start, N, g)
    BY <1>1, <1>2, <1>4, Iteration
  <2> QED BY <2>1 DEF HasRun
<1>7. ASSUME NEW n \in 0 .. N
      PROVE  f[n] = IF n = 0 THEN start ELSE AdvanceOnce(f[n - 1], t)
  <2>1. CASE n = 0
    BY <2>1, <1>6
  <2>2. CASE n # 0
    <3>1. n \in 1 .. N /\ n - 1 \in 0 .. N
      BY <2>2, <1>1
    <3>2. f[n] = g[n][f[n - 1]] /\ f[n - 1] \in S
      BY <3>1, <1>6
    <3> QED BY <2>2, <3>1, <3>2, <1>5
  <2> QED BY <2>1, <2>2
<1>8. Solves(f)
  BY <1>7 DEF start
<1>9. Solves(F)
  BY <1>8
<1>10. Advanced(e, t) = AdvanceEnds(F[N], t)
  BY DEF Advanced, AtTarget, Looped, AdvanceEnds, Kept
<1> HIDE DEF F
<1>11. \A n \in 0 .. N : F[n] = IF n = 0 THEN start ELSE AdvanceOnce(F[n - 1], t)
  BY <1>9 DEF start
<1>12. F[0] \in S
  BY <1>1, <1>2, <1>11
<1>13. \A n \in 0 .. N : F[n] \in S
  <2> DEFINE P == {n \in Nat : n <= N => F[n] \in S}
  <2>1. 0 \in P
    BY <1>12
  <2>2. ASSUME NEW n \in Nat, n \in P PROVE n + 1 \in P
    <3> SUFFICES ASSUME n + 1 <= N PROVE F[n + 1] \in S
      OBVIOUS
    <3>1. n + 1 \in 0 .. N /\ n + 1 # 0 /\ (n + 1) - 1 = n /\ F[n] \in S
      BY <1>1, <2>2
    <3>2. F[n + 1] = AdvanceOnce(F[n], t)
      BY <1>11, <3>1
    <3> QED BY <1>3, <3>1, <3>2
  <2> HIDE DEF P
  <2>3. \A n \in Nat : n \in P
    BY <2>1, <2>2, SetInduction
  <2> QED BY <2>3 DEF P
<1>14. F \in [0 .. N -> S]
  <2>1. F = [n \in 0 .. N |-> F[n]]
    BY <1>9
  <2> QED BY <1>13, <2>1
<1>15. IsRun(F, e, t)
  <2>1. F[0] = start
    BY <1>1, <1>11
  <2>2. ASSUME NEW n \in 1 .. N PROVE F[n] = AdvanceOnce(F[n - 1], t)
    <3>1. n \in 0 .. N /\ n # 0
      BY <1>1
    <3> QED BY <1>11, <3>1
  <2> QED BY <2>1, <2>2 DEF IsRun, start
<1> QED BY <1>10, <1>14, <1>15 DEF S

\* What the end of advance keeps.
LEMMA AdvanceEndsIs ==
    ASSUME handling \in Settings, NEW e \in EngineType, NEW r \in Reach(e), NEW t \in Nat
    PROVE  /\ AdvanceEnds(r, t) \in Reach(e) /\ AdvanceEnds(r, t).out = r.out
           /\ AdvanceEnds(r, t).e.now = t
           /\ Len(r.out) # MaxEmissions => AdvanceEnds(r, t).e = AtTime(r.e, t)
<1> DEFINE k == Kept(r, t)
           q == [k EXCEPT !.now = t]
           s == r.out
<1>1. /\ r \in ResultType /\ Shifting(r.e) /\ SameKeys(e, r.e) /\ r.e \in EngineType
      /\ r.out \in Seq(Commands) /\ r = [e |-> r.e, out |-> r.out]
  BY ResultParts DEF Reach
<1>2. k \in EngineType /\ SameKeys(e, k) /\ Shifting(k)
  <2>1. CASE Len(r.out) = MaxEmissions
    <3> DEFINE a == IF r.e.nextShift = Never \/ handling.arr = 0 THEN Never ELSE t + handling.arr
               b == IF r.e.nextDrop = Never THEN Never ELSE t + handling.sdf
    <3>1. k = [r.e EXCEPT !.nextShift = a, !.nextDrop = b, !.skipped = TRUE]
      BY <1>1, <2>1 DEF Kept, SkipBacklog, EngineType
    <3>2. a \in Times /\ b \in Times /\ (r.e.nextShift = Never => a = Never)
      BY SettingParts DEF Times
    <3> HIDE DEF k, a, b
    <3> QED BY <1>1, <3>1, <3>2 DEF EngineType, SameKeys, Shifting
  <2>2. CASE Len(r.out) # MaxEmissions
    BY <1>1, <2>2 DEF Kept
  <2> QED BY <2>1, <2>2
<1>3. AdvanceEnds(r, t) = [e |-> q, out |-> s]
  <2>1. AdvanceEnds(r, t) = [r EXCEPT !.e = q]
    BY DEF AdvanceEnds
  <2> HIDE DEF q
  <2> QED BY <1>1, <2>1
<1>4. Len(r.out) # MaxEmissions => q = AtTime(r.e, t)
  BY DEF Kept, AtTime
<1> HIDE DEF k
<1>5. q \in EngineType /\ SameKeys(e, q) /\ Shifting(q) /\ q.now = t
  BY <1>2 DEF EngineType, SameKeys, Shifting
<1> HIDE DEF q
<1>6. [e |-> q, out |-> s] \in Reach(e)
  BY <1>1, <1>5 DEF Reach, ResultType
<1> QED BY <1>3, <1>4, <1>5, <1>6

\* advance keeps the keys and the shifting.
LEMMA AdvancedIs ==
    ASSUME handling \in Settings, NEW e \in EngineType, Shifting(e), NEW t \in Nat
    PROVE  Advanced(e, t) \in Reach(e) /\ Advanced(e, t).e.now = t
<1>1. PICK f \in [0 .. MaxEmissions -> Reach(e)] :
           IsRun(f, e, t) /\ Advanced(e, t) = AdvanceEnds(f[MaxEmissions], t)
  BY AdvanceRuns
<1>2. \A x \in Reach(e) : AdvanceEnds(x, t) \in Reach(e) /\ AdvanceEnds(x, t).e.now = t
  BY AdvanceEndsIs
<1>3. f[MaxEmissions] \in Reach(e)
  BY SettingParts
<1> QED BY <1>1, <1>2, <1>3

\* The rounds of a run in numbers.
OneRound(r) == [e |-> Gone(r.e), out |-> r.out \o GoneOut(r.e)]
Rounds(f, t) ==
    /\ MaxEmissions \in Nat \ {0}
    /\ \A n \in 0 .. MaxEmissions :
          /\ f[n].e \in EngineType /\ f[n].out \in Seq(Commands) /\ Len(f[n].out) \in Nat
          /\ f[n] = [e |-> f[n].e, out |-> f[n].out]
    /\ \A n \in Nat : n + 1 <= MaxEmissions =>
          /\ Stopped(f[n], t) => f[n + 1] = f[n]
          /\ ~Stopped(f[n], t) => f[n + 1] = OneRound(f[n])
          /\ ~Stopped(f[n], t) => Len(f[n + 1].out) >= Len(f[n].out) + 1

LEMMA OneRoundIs ==
    \A r : OneRound(r).e = Gone(r.e) /\ OneRound(r).out = r.out \o GoneOut(r.e)
BY DEF OneRound

LEMMA RunRounds ==
    ASSUME handling \in Settings, NEW e \in EngineType, NEW t \in Nat,
           NEW f \in [0 .. MaxEmissions -> Reach(e)], IsRun(f, e, t)
    PROVE  Rounds(f, t)
<1>1. MaxEmissions \in Nat \ {0}
  BY SettingParts
<1>2. ASSUME NEW n \in 0 .. MaxEmissions
      PROVE  f[n] \in Reach(e) /\ f[n].e \in EngineType /\ f[n].out \in Seq(Commands)
             /\ Len(f[n].out) \in Nat /\ f[n] = [e |-> f[n].e, out |-> f[n].out]
  <2>1. f[n] \in Reach(e)
    OBVIOUS
  <2>2. f[n] \in ResultType
    BY <2>1 DEF Reach
  <2> QED BY <2>1, <2>2, ResultParts
<1>3. ASSUME NEW n \in Nat, n + 1 <= MaxEmissions
      PROVE  /\ Stopped(f[n], t) => f[n + 1] = f[n]
             /\ ~Stopped(f[n], t) =>
                   f[n + 1] = OneRound(f[n])
             /\ ~Stopped(f[n], t) => Len(f[n + 1].out) >= Len(f[n].out) + 1
  <2>1. n \in 0 .. MaxEmissions /\ n + 1 \in 1 .. MaxEmissions /\ (n + 1) - 1 = n
    BY <1>1, <1>3
  <2> DEFINE r == f[n]
  <2>2. f[n + 1] = AdvanceOnce(r, t) /\ r \in Reach(e)
    BY <1>2, <2>1 DEF IsRun
  <2> HIDE DEF r
  <2>3. /\ Stopped(r, t) => AdvanceOnce(r, t) = r
        /\ ~Stopped(r, t) =>
             /\ AdvanceOnce(r, t) = [e |-> Gone(r.e), out |-> r.out \o GoneOut(r.e)]
             /\ Len(AdvanceOnce(r, t).out) >= Len(r.out) + 1
    BY <2>2, RoundIs
  <2> QED BY <2>2, <2>3 DEF r, OneRound
<1> QED BY <1>1, <1>2, <1>3 DEF Rounds

\* A run that reaches no limit has come to where nothing is due, and never met the limit.
LEMMA RunFinishes ==
    ASSUME NEW t \in Nat, NEW f, Rounds(f, t), Len(f[MaxEmissions].out) < MaxEmissions
    PROVE  /\ NextDue(f[MaxEmissions].e) \notin 0 .. t
           /\ \A n \in 0 .. MaxEmissions : Len(f[n].out) < MaxEmissions
<1> DEFINE N == MaxEmissions
           L(n) == Len(f[n].out)
           Due(n) == NextDue(f[n].e) \in 0 .. t
           P == {n \in Nat : n <= N => ~Due(n) \/ L(n) >= n}
           Q == {j \in Nat : j <= N => L(N - j) < N}
<1>1. N \in Nat \ {0} /\ \A n \in 0 .. N : L(n) \in Nat
  BY DEF Rounds
<1>2. \A n \in Nat : n + 1 <= N =>
          /\ Stopped(f[n], t) => f[n + 1] = f[n]
          /\ ~Stopped(f[n], t) => L(n + 1) >= L(n) + 1
  BY DEF Rounds
<1>3. \A n \in 0 .. N : Stopped(f[n], t) <=> ~Due(n) \/ L(n) >= N
  BY DEF Stopped
<1>4. L(N) < N
  OBVIOUS
<1>5. \A n \in Nat : n \in P
  <2>1. 0 \in P
    BY <1>1
  <2>2. ASSUME NEW n \in Nat, n \in P PROVE n + 1 \in P
    <3> SUFFICES ASSUME n + 1 <= N PROVE ~Due(n + 1) \/ L(n + 1) >= n + 1
      OBVIOUS
    <3>1. n \in 0 .. N /\ n + 1 \in 0 .. N /\ (~Due(n) \/ L(n) >= n)
      BY <1>1, <2>2
    <3>2. CASE Stopped(f[n], t)
      <4>1. f[n + 1] = f[n]
        BY <1>2, <3>2
      <4>2. (Due(n + 1) <=> Due(n)) /\ L(n + 1) = L(n)
        BY <4>1
      <4>3. ~Due(n) \/ L(n) >= N
        BY <1>3, <3>1, <3>2
      <4> HIDE DEF Due, L
      <4> QED BY <1>1, <3>1, <4>2, <4>3
    <3>3. CASE ~Stopped(f[n], t)
      <4>1. L(n + 1) >= L(n) + 1 /\ Due(n)
        BY <1>2, <1>3, <3>1, <3>3
      <4> HIDE DEF Due, L
      <4> QED BY <1>1, <3>1, <4>1
    <3> QED BY <3>2, <3>3
  <2> HIDE DEF P
  <2> QED BY <2>1, <2>2, SetInduction
<1>6. \A j \in Nat : j \in Q
  <2>1. 0 \in Q
    <3>1. N - 0 = N
      BY <1>1
    <3> QED BY <1>4, <3>1
  <2>2. ASSUME NEW j \in Nat, j \in Q PROVE j + 1 \in Q
    <3> SUFFICES ASSUME j + 1 <= N PROVE L(N - (j + 1)) < N
      OBVIOUS
    <3> DEFINE n == N - (j + 1)
    <3>1. n \in Nat /\ n + 1 = N - j /\ n \in 0 .. N /\ n + 1 <= N /\ L(n + 1) < N
      <4>1. n \in Nat /\ n + 1 = N - j /\ n \in 0 .. N /\ n + 1 <= N /\ j <= N
        BY <1>1
      <4>2. L(N - j) < N
        BY <2>2, <4>1
      <4> QED BY <4>1, <4>2
    <3> HIDE DEF n
    <3>2. L(n) >= N => f[n + 1] = f[n]
      BY <1>2, <1>3, <3>1
    <3>3. L(n) >= N => L(n + 1) >= N
      BY <3>2
    <3>4. L(n) \in Nat /\ L(n + 1) \in Nat
      BY <1>1, <3>1
    <3> HIDE DEF L
    <3>5. L(n) < N
      BY <1>1, <3>1, <3>3, <3>4
    <3> QED BY <3>5 DEF n
  <2> HIDE DEF Q
  <2> QED BY <2>1, <2>2, SetInduction
<1>7. ~Due(N)
  <2>1. N \in P
    BY <1>1, <1>5
  <2>2. ~Due(N) \/ L(N) >= N
    BY <1>1, <2>1
  <2>3. L(N) \in Nat /\ L(N) < N
    BY <1>1, <1>4
  <2> HIDE DEF L, Due
  <2> QED BY <1>1, <2>2, <2>3
<1>8. ASSUME NEW n \in 0 .. N PROVE L(n) < N
  <2>1. N - n \in Nat /\ N - n <= N /\ N - (N - n) = n
    BY <1>1
  <2>2. N - n \in Q
    BY <1>6, <2>1
  <2>3. L(N - (N - n)) < N
    BY <2>1, <2>2
  <2> QED BY <2>1, <2>3
<1> QED BY <1>7, <1>8

LEMMA AtTimeType ==
    ASSUME NEW e \in EngineType, NEW t \in Nat
    PROVE  /\ AtTime(e, t) \in EngineType /\ AtTime(e, t).now = t /\ SameKeys(e, AtTime(e, t))
           /\ Shifting(e) => Shifting(AtTime(e, t))
           /\ \A u : AtTime(AtTime(e, t), u) = AtTime(e, u)
BY DEF AtTime, EngineType, SameKeys, Shifting

\* Two engines that differ in nothing but the time they have reached.
Alike(e, f) == f = AtTime(e, f.now)

\* A run to an earlier time is a beginning of the one to the later.
LEMMA EarlyIsPrefix ==
    ASSUME NEW t \in Nat, NEW u \in Nat, t <= u,
           NEW f, Rounds(f, t), NEW g, Rounds(g, u), f[0] = g[0],
           \A n \in 0 .. MaxEmissions : Len(g[n].out) < MaxEmissions
    PROVE  \E k \in 0 .. MaxEmissions : f[MaxEmissions] = g[k]
<1> DEFINE N == MaxEmissions
           J(n) == f[n] = g[n] \/ (Stopped(f[n], t) /\ \E k \in 0 .. N : f[n] = g[k])
           P == {n \in Nat : n <= N => J(n)}
<1>1. N \in Nat \ {0}
  BY DEF Rounds
<1>2. 0 \in P
  OBVIOUS
<1>3. ASSUME NEW n \in Nat, n \in P PROVE n + 1 \in P
  <2> SUFFICES ASSUME n + 1 <= N PROVE J(n + 1)
    OBVIOUS
  <2>1. n \in 0 .. N /\ n + 1 \in 0 .. N /\ J(n)
    BY <1>1, <1>3
  <2>2. /\ Stopped(f[n], t) => f[n + 1] = f[n]
        /\ ~Stopped(f[n], t) =>
              f[n + 1] = OneRound(f[n])
    BY DEF Rounds
  <2>3. ~Stopped(g[n], u) =>
              g[n + 1] = OneRound(g[n])
    BY DEF Rounds
  <2>4. CASE Stopped(f[n], t)
    BY <2>1, <2>2, <2>4
  <2>5. CASE ~Stopped(f[n], t)
    <3>1. f[n] = g[n]
      BY <2>1, <2>5
    <3>2. NextDue(g[n].e) \in 0 .. u
      BY <2>5, <3>1 DEF Stopped
    <3>3. ~(Len(g[n].out) >= MaxEmissions)
      <4>1. Len(g[n].out) < MaxEmissions /\ Len(g[n].out) \in Nat
        BY <2>1 DEF Rounds
      <4> QED BY <1>1, <4>1
    <3>4. ~Stopped(g[n], u)
      BY <3>2, <3>3 DEF Stopped
    <3> QED BY <2>2, <2>3, <2>5, <3>1, <3>4
  <2> QED BY <2>4, <2>5
<1>4. J(N)
  <2> HIDE DEF P
  <2>1. \A n \in Nat : n \in P
    BY <1>2, <1>3, SetInduction
  <2>2. N \in P
    BY <1>1, <2>1
  <2> QED BY <1>1, <2>2 DEF P
<1>5. N \in 0 .. N
  BY <1>1
<1> QED BY <1>4, <1>5

Joined(a, b, c) == c = a \o b

\* A run that goes on from the k-th round of another comes to where that one does.
LEMMA RestIsSuffix ==
    ASSUME handling \in Settings, NEW u \in Nat, NEW g, Rounds(g, u), NEW h, Rounds(h, u),
           Len(g[MaxEmissions].out) < MaxEmissions,
           NEW k \in 0 .. MaxEmissions, NEW a, Alike(g[k].e, a), h[0] = Result(a)
    PROVE  /\ Alike(g[MaxEmissions].e, h[MaxEmissions].e)
           /\ Joined(g[k].out, h[MaxEmissions].out, g[MaxEmissions].out)
<1> DEFINE N == MaxEmissions
           Idx(n) == IF k + n <= N THEN k + n ELSE N
           K(n) == Alike(g[Idx(n)].e, h[n].e) /\ g[Idx(n)].out = g[k].out \o h[n].out
           P == {n \in Nat : n <= N => K(n)}
<1>1. N \in Nat \ {0} /\ k \in Nat /\ k <= N
  BY DEF Rounds
<1>2. NextDue(g[N].e) \notin 0 .. u /\ \A n \in 0 .. N : Len(g[n].out) < N
  BY RunFinishes
<1>3. K(0)
  <2>1. Idx(0) = k
    BY <1>1
  <2> DEFINE none == <<>>
             x == g[k].out
  <2>2. h[0].e = a /\ h[0].out = none
    BY DEF Result
  <2>3. x \o none = x
    <3>1. x \in Seq(Commands)
      BY DEF Rounds
    <3> HIDE DEF x
    <3> QED BY <3>1
  <2> HIDE DEF Idx, none
  <2> QED BY <2>1, <2>2, <2>3
<1>4. ASSUME NEW n \in Nat, n + 1 <= N, K(n) PROVE K(n + 1)
  <2> DEFINE i == Idx(n)
             si == g[i].out
             sk == g[k].out
             sh == h[n].out
             o == GoneOut(g[i].e)
  <2>1. /\ n \in 0 .. N /\ n + 1 \in 0 .. N /\ i \in 0 .. N /\ i \in Nat
        /\ Idx(n + 1) = IF i + 1 <= N THEN i + 1 ELSE N
    BY <1>1, <1>4
  <2>2. Alike(g[i].e, h[n].e) /\ si = sk \o sh
    BY <1>4
  <2> HIDE DEF i, Idx
  <2>3. /\ g[i].e \in EngineType /\ h[n].e \in EngineType
        /\ sk \in Seq(Commands) /\ sh \in Seq(Commands) /\ Len(si) \in Nat
    BY <2>1 DEF Rounds
  <2>4. /\ Gone(h[n].e) = Gone(g[i].e) /\ GoneOut(h[n].e) = o
        /\ NextDue(h[n].e) = NextDue(g[i].e)
    <3>1. h[n].e = AtTime(g[i].e, h[n].e.now)
      BY <2>2 DEF Alike
    <3> QED BY <2>3, <3>1, GoneForgetsNow
  <2>5. /\ Stopped(h[n], u) => h[n + 1] = h[n]
        /\ ~Stopped(h[n], u) => h[n + 1] = OneRound(h[n])
    BY <1>4 DEF Rounds
  <2>6. CASE NextDue(g[i].e) \notin 0 .. u
    <3>1. h[n + 1] = h[n]
      BY <2>4, <2>5, <2>6 DEF Stopped
    <3>2. g[Idx(n + 1)] = g[i]
      <4>1. CASE i + 1 <= N
        <5>1. Stopped(g[i], u)
          BY <2>6 DEF Stopped
        <5>2. g[i + 1] = g[i]
          BY <2>1, <4>1, <5>1 DEF Rounds
        <5> QED BY <2>1, <4>1, <5>2
      <4>2. CASE ~(i + 1 <= N)
        <5>1. i = N
          BY <1>1, <2>1, <4>2
        <5> QED BY <2>1, <4>2, <5>1
      <4> QED BY <4>1, <4>2
    <3> QED BY <2>2, <3>1, <3>2
  <2>7. CASE NextDue(g[i].e) \in 0 .. u
    <3>1. i + 1 <= N /\ Idx(n + 1) = i + 1
      <4>1. i # N
        BY <1>2, <2>7
      <4> QED BY <1>1, <2>1, <4>1
    <3>2. Len(si) < N /\ Len(sh) < N /\ Len(sh) \in Nat
      <4>1. Len(si) < N
        BY <1>2, <2>1
      <4> HIDE DEF si, sk, sh
      <4>2. Len(si) = Len(sk) + Len(sh) /\ {Len(sk), Len(sh)} \subseteq Nat
        BY <2>2, <2>3, ConcatType
      <4> QED BY <1>1, <4>1, <4>2
    <3>3. ~Stopped(g[i], u) /\ ~Stopped(h[n], u)
      <4>2. ~(Len(si) >= N) /\ ~(Len(sh) >= N)
        BY <1>1, <2>3, <3>2
      <4> QED BY <2>4, <2>7, <4>2 DEF Stopped
    <3>4. g[i + 1] = OneRound(g[i])
      BY <2>1, <3>1, <3>3 DEF Rounds
    <3>5. g[i + 1].e = Gone(g[i].e) /\ g[i + 1].out = si \o o
      BY <3>4, OneRoundIs
    <3>6. h[n + 1].e = Gone(g[i].e) /\ h[n + 1].out = sh \o o
      <4>1. h[n + 1] = OneRound(h[n])
        BY <2>5, <3>3
      <4> QED BY <2>4, <4>1, OneRoundIs
    <3>7. Gone(g[i].e) \in EngineType /\ o \in Seq(Commands)
      <4>1. NextDue(g[i].e) # Never
        BY <2>7 DEF Never
      <4> QED BY <2>3, <4>1, GoneIs
    <3>8. Alike(Gone(g[i].e), Gone(g[i].e))
      <4> DEFINE x == Gone(g[i].e)
      <4>1. x \in EngineType
        BY <3>7
      <4> HIDE DEF x
      <4>2. Alike(x, x)
        BY <4>1 DEF Alike, AtTime, EngineType
      <4> QED BY <4>2 DEF x
    <3> HIDE DEF si, sk, sh, o
    <3>9. si \o o = sk \o (sh \o o)
      <4>1. (sk \o sh) \o o = sk \o (sh \o o)
        <5>1. sk \in Seq(Commands) /\ sh \in Seq(Commands) /\ o \in Seq(Commands)
          BY <2>3, <3>7
        <5> QED BY <5>1, ConcatTwice
      <4> QED BY <2>2, <4>1
    <3> QED BY <3>1, <3>5, <3>6, <3>8, <3>9 DEF sk
  <2> QED BY <2>6, <2>7
<1> HIDE DEF K
<1>5. K(N)
  <2>1. 0 \in P
    BY <1>3
  <2>2. ASSUME NEW n \in Nat, n \in P PROVE n + 1 \in P
    BY <1>1, <1>4, <2>2
  <2> HIDE DEF P
  <2>3. \A n \in Nat : n \in P
    BY <2>1, <2>2, SetInduction
  <2>4. N \in P
    BY <1>1, <2>3
  <2> QED BY <1>1, <2>4 DEF P
<1>6. Idx(N) = N
  BY <1>1
<1> HIDE DEF Idx
<1> QED BY <1>5, <1>6 DEF K, Joined

\* An engine that is advanced in between comes to where one does that is not.
LEMMA SplitIsWhole ==
    ASSUME handling \in Settings, NEW e \in EngineType, Shifting(e),
           NEW t \in Nat, NEW u \in Nat, t <= u
    PROVE  LET early == Advanced(e, t)
               split == Advanced(early.e, u)
               whole == Advanced(e, u)
           IN  \/ Len(whole.out) >= MaxEmissions
               \/ split.e = whole.e /\ early.out \o split.out = whole.out
<1> DEFINE N == MaxEmissions
           early == Advanced(e, t)
           b == early.e
           split == Advanced(b, u)
           whole == Advanced(e, u)
<1>1. N \in Nat \ {0} /\ N \in 0 .. N
  BY SettingParts
<1>2. PICK f \in [0 .. N -> Reach(e)] : IsRun(f, e, t) /\ early = AdvanceEnds(f[N], t)
  BY AdvanceRuns
<1>3. PICK g \in [0 .. N -> Reach(e)] : IsRun(g, e, u) /\ whole = AdvanceEnds(g[N], u)
  BY AdvanceRuns
<1>4. b \in EngineType /\ Shifting(b)
  BY AdvancedIs DEF Reach, ResultType
<1>5. PICK h \in [0 .. N -> Reach(b)] : IsRun(h, b, u) /\ split = AdvanceEnds(h[N], u)
  <2> HIDE DEF b
  <2> QED BY <1>4, AdvanceRuns
<1>6. Rounds(f, t) /\ Rounds(g, u) /\ Rounds(h, u)
  <2>1. Rounds(f, t) /\ Rounds(g, u)
    BY <1>2, <1>3, RunRounds
  <2>2. Rounds(h, u)
    <3> HIDE DEF b
    <3> QED BY <1>4, <1>5, RunRounds
  <2> QED BY <2>1, <2>2
<1>7. f[0] = g[0] /\ h[0] = Result(b)
  BY <1>2, <1>3, <1>5 DEF IsRun
<1>8. f[N] \in Reach(e) /\ g[N] \in Reach(e) /\ h[N] \in Reach(b)
  BY <1>1
<1> HIDE DEF early, b, split, whole
<1>9. whole.out = g[N].out /\ early.out = f[N].out /\ split.out = h[N].out
  <2>1. \A a \in EngineType : \A x \in Reach(a) : \A w \in Nat : AdvanceEnds(x, w).out = x.out
    BY AdvanceEndsIs
  <2> QED BY <1>2, <1>3, <1>4, <1>5, <1>8, <2>1
<1>10. CASE Len(g[N].out) < N
  <2>1. \A n \in 0 .. N : Len(g[n].out) < N
    BY <1>6, <1>10, RunFinishes
  <2>2. PICK k \in 0 .. N : f[N] = g[k]
    <3>1. \A v, w : Rounds(v, t) /\ Rounds(w, u) /\ v[0] = w[0]
                     /\ (\A n \in 0 .. N : Len(w[n].out) < N)
                       => \E k \in 0 .. N : v[N] = w[k]
      BY EarlyIsPrefix
    <3> QED BY <1>6, <1>7, <2>1, <3>1, Zenon
  <2>3. \A a \in EngineType : \A x \in Reach(a) : \A w \in Nat :
            Len(x.out) # N => AdvanceEnds(x, w).e = AtTime(x.e, w)
    BY AdvanceEndsIs
  <2>4. g[k].e \in EngineType /\ g[N].e \in EngineType /\ g[k].out \in Seq(Commands)
        /\ h[N].out \in Seq(Commands) /\ h[N].e \in EngineType
        /\ Len(g[k].out) \in Nat /\ Len(h[N].out) \in Nat /\ Len(g[N].out) \in Nat
    BY <1>1, <1>6 DEF Rounds
  <2>5. b = AtTime(g[k].e, t)
    <3>1. Len(f[N].out) # N
      BY <1>1, <2>1, <2>2, <2>4
    <3>2. early.e = AtTime(f[N].e, t)
      BY <1>2, <1>8, <2>3, <3>1
    <3> QED BY <2>2, <3>2 DEF b
  <2>6. Alike(g[k].e, b)
    <3>1. b.now = t
      BY <2>4, <2>5, AtTimeType
    <3> QED BY <2>5, <3>1 DEF Alike
  <2>7. Alike(g[N].e, h[N].e) /\ g[N].out = g[k].out \o h[N].out
    <3>1. \A w, a, v : \A j \in 0 .. N :
              Rounds(w, u) /\ Rounds(v, u) /\ v[0] = Result(a) /\ Len(w[N].out) < N
              /\ Alike(w[j].e, a)
                => Alike(w[N].e, v[N].e) /\ Joined(w[j].out, v[N].out, w[N].out)
      BY RestIsSuffix
    <3>2. Alike(g[N].e, h[N].e) /\ Joined(g[k].out, h[N].out, g[N].out)
      BY <1>6, <1>7, <1>10, <2>6, <3>1, Zenon
    <3> QED BY <3>2 DEF Joined
  <2>8. Len(h[N].out) # N /\ Len(g[N].out) # N
    <3> DEFINE x == Len(g[N].out)
               y == Len(g[k].out)
               z == Len(h[N].out)
    <3>1. x = y + z
      BY <2>4, <2>7, ConcatType
    <3>2. x \in Nat /\ y \in Nat /\ z \in Nat /\ x < N
      BY <1>10, <2>4
    <3> HIDE DEF x, y, z
    <3>3. z # N /\ x # N
      BY <1>1, <3>1, <3>2
    <3> QED BY <3>3 DEF x, z
  <2>9. whole.e = AtTime(g[N].e, u) /\ split.e = AtTime(h[N].e, u)
    BY <1>3, <1>4, <1>5, <1>8, <2>3, <2>8
  <2>10. split.e = whole.e
    <3>1. h[N].e = AtTime(g[N].e, h[N].e.now) /\ h[N].e.now \in Nat
      BY <2>4, <2>7 DEF Alike, EngineType
    <3>2. AtTime(h[N].e, u) = AtTime(g[N].e, u)
      BY <2>4, <3>1, AtTimeType
    <3> QED BY <2>9, <3>2
  <2>11. early.out \o split.out = whole.out
    BY <1>9, <2>2, <2>7
  <2> QED BY <2>10, <2>11 DEF early, split, whole, b
<1>11. CASE ~(Len(g[N].out) < N)
  <2>1. Len(g[N].out) \in Nat
    BY <1>1, <1>6 DEF Rounds
  <2>2. Len(whole.out) >= N
    BY <1>1, <1>9, <1>11, <2>1
  <2> QED BY <2>2 DEF whole
<1> QED BY <1>10, <1>11

SamePresses(e, q) == q.pressed = e.pressed /\ q.held = e.held /\ q.order = e.order

LEMMA ReachParts ==
    ASSUME NEW e, NEW r \in Reach(e)
    PROVE  /\ r \in ResultType /\ r.e \in EngineType /\ r.out \in Seq(Commands)
           /\ r = [e |-> r.e, out |-> r.out] /\ Shifting(r.e) /\ SameKeys(e, r.e)
BY ResultParts DEF Reach

LEMMA ReachIs ==
    ASSUME NEW e, NEW q \in EngineType, NEW s \in Seq(Commands), Shifting(q), SameKeys(e, q)
    PROVE  [e |-> q, out |-> s] \in Reach(e)
BY DEF Reach, ResultType

LEMMA EmitReach ==
    ASSUME NEW e, NEW r \in Reach(e), NEW c \in Commands
    PROVE  Emit(r, c) \in Reach(e)
<1> DEFINE q == r.e
           s == r.out
           o == Append(s, c)
<1>1. /\ q \in EngineType /\ s \in Seq(Commands) /\ r = [e |-> q, out |-> s]
      /\ Shifting(q) /\ SameKeys(e, q)
  BY ReachParts
<1> HIDE DEF q, s
<1>2. o \in Seq(Commands)
  BY <1>1
<1>3. Emit(r, c) = [e |-> q, out |-> o]
  BY <1>1 DEF Emit
<1> HIDE DEF o
<1> QED BY <1>1, <1>2, <1>3, ReachIs

\* #cutDasAt, #drainCurrent, #cutDasForManipulation
LEMMA CutDasIs ==
    ASSUME handling \in Settings, NEW e \in EngineType, Shifting(e), NEW t \in Nat
    PROVE  CutDas(e, t) \in EngineType /\ Shifting(CutDas(e, t)) /\ SameKeys(e, CutDas(e, t))
<1>1. CASE e.active = "none"
  BY <1>1 DEF CutDas, SameKeys
<1>2. CASE e.active # "none"
  <2> DEFINE cut(x) == [e EXCEPT !.nextShift = x]
             later == (IF e.nextShift < t THEN t ELSE e.nextShift) + handling.dcd
  <2>1. ASSUME NEW x \in Nat
        PROVE  cut(x) \in EngineType /\ Shifting(cut(x)) /\ SameKeys(e, cut(x))
    <3>1. x \in Times /\ x # Never
      BY DEF Times, Never
    <3> QED BY <1>2, <3>1 DEF EngineType, Shifting, SameKeys
  <2>2. CASE e.charged /\ handling.arr = 0
    <3>1. t + handling.dcd \in Nat
      BY SettingParts
    <3>2. CutDas(e, t) = cut(t + handling.dcd)
      BY <1>2, <2>2 DEF CutDas
    <3> HIDE DEF cut
    <3> QED BY <2>1, <3>1, <3>2
  <2>3. CASE ~(e.charged /\ handling.arr = 0) /\ e.nextShift = Never
    BY <1>2, <2>3 DEF CutDas, SameKeys
  <2>4. CASE ~(e.charged /\ handling.arr = 0) /\ e.nextShift # Never
    <3>1. later \in Nat
      BY <2>4, SettingParts DEF EngineType, Times
    <3>2. CutDas(e, t) = cut(later)
      BY <1>2, <2>4 DEF CutDas, EngineType
    <3> HIDE DEF cut, later
    <3> QED BY <2>1, <3>1, <3>2
  <2> QED BY <2>2, <2>3, <2>4
<1> QED BY <1>1, <1>2

LEMMA DrainIs ==
    ASSUME handling \in Settings, NEW e, NEW r \in Reach(e)
    PROVE  DrainCurrent(r) \in Reach(e)
<1> DEFINE q == r.e
           s == r.out
           q1 == Shifted(q)
           o == ShiftOut(q)
           p == s \o o
<1>1. /\ q \in EngineType /\ s \in Seq(Commands) /\ r = [e |-> q, out |-> s]
      /\ Shifting(q) /\ SameKeys(e, q)
  BY ReachParts
<1>2. CASE q.nextShift \in 0 .. q.now
  <2>1. q.nextShift # Never
    BY <1>2 DEF Never
  <2> HIDE DEF q, s
  <2>2. EmitShift(r) = [e |-> q1, out |-> p]
    BY <1>1, EmitShiftIs
  <2>3. q1 \in EngineType /\ SameKeys(q, q1) /\ Shifting(q1) /\ o \in Seq(Commands)
    BY <1>1, <2>1, ShiftedIs
  <2> HIDE DEF q1, o
  <2>4. p \in Seq(Commands)
    BY <1>1, <2>3, ConcatType
  <2> HIDE DEF p
  <2>5. SameKeys(e, q1)
    BY <1>1, <2>3 DEF SameKeys
  <2>6. DrainCurrent(r) = [e |-> q1, out |-> p]
    BY <1>2, <2>2 DEF DrainCurrent, q
  <2> QED BY <2>3, <2>4, <2>5, <2>6, ReachIs
<1>3. CASE q.nextShift \notin 0 .. q.now
  BY <1>3 DEF DrainCurrent
<1> QED BY <1>2, <1>3

LEMMA CutForManipulationIs ==
    ASSUME handling \in Settings, NEW e, NEW r \in Reach(e)
    PROVE  CutForManipulation(r) \in Reach(e)
<1> DEFINE q == r.e
           s == r.out
           c == CutDas(q, q.now)
           r1 == [e |-> c, out |-> s]
<1>1. /\ q \in EngineType /\ s \in Seq(Commands) /\ r = [e |-> q, out |-> s]
      /\ Shifting(q) /\ SameKeys(e, q)
  BY ReachParts
<1>2. CutForManipulation(r) = DrainCurrent([r EXCEPT !.e = c])
  BY DEF CutForManipulation
<1>3. q.now \in Nat
  BY <1>1 DEF EngineType
<1> HIDE DEF q, s
<1>4. c \in EngineType /\ Shifting(c) /\ SameKeys(q, c)
  BY <1>1, <1>3, CutDasIs
<1> HIDE DEF c
<1>5. [r EXCEPT !.e = c] = r1
  BY <1>1
<1>6. SameKeys(e, c)
  BY <1>1, <1>4 DEF SameKeys
<1>7. r1 \in Reach(e)
  BY <1>1, <1>4, <1>6, ReachIs
<1> HIDE DEF r1
<1> QED BY <1>2, <1>5, <1>7, DrainIs

\* #selectDirection
LEMMA SelectDirectionIs ==
    ASSUME handling \in Settings, NEW r \in ResultType, Shifting(r.e),
           NEW way \in Directions \cup {"none"}
    PROVE  LET q == SelectDirection(r, way)
           IN  /\ q \in ResultType /\ Shifting(q.e) /\ q.e.active = way
               /\ SamePresses(r.e, q.e)
<1> DEFINE e == r.e
           s == r.out
           q == SelectDirection(r, way)
<1>1. e \in EngineType /\ s \in Seq(Commands) /\ r = [e |-> e, out |-> s]
  BY ResultParts
<1>2. CASE way = e.active
  BY <1>2 DEF SelectDirection, SamePresses
<1>3. CASE way # e.active /\ way = "none"
  <2> DEFINE e1 == [e EXCEPT !.active = way, !.charged = FALSE, !.nextShift = Never]
  <2>1. q = [r EXCEPT !.e.active = way, !.e.charged = FALSE, !.e.nextShift = Never]
    BY <1>3 DEF SelectDirection
  <2>2. q = [r EXCEPT !.e = e1]
    BY <2>1
  <2>3. /\ e1 \in EngineType /\ e1.active = way /\ Shifting(e1) /\ SamePresses(e, e1)
    BY <1>1, <1>3 DEF EngineType, Times, Shifting, SamePresses
  <2> HIDE DEF e1, q
  <2>4. q = [e |-> e1, out |-> s]
    BY <1>1, <2>2
  <2> HIDE DEF s
  <2> QED BY <1>1, <2>3, <2>4 DEF ResultType, q
<1>4. CASE way # e.active /\ way # "none"
  <2> DEFINE c == Step(way)
             o == Append(s, c)
             preserved == e.active # "none" /\ ~handling.cancel
             selected == Emit([r EXCEPT !.e.active = way], Step(way))
             ready == IF ~preserved
                      THEN [selected EXCEPT !.e.charged = FALSE, !.e.nextShift = e.now + handling.das]
                      ELSE IF e.charged /\ handling.arr = 0
                      THEN [selected EXCEPT !.e.nextShift = e.now]
                      ELSE selected
             a == [e EXCEPT !.active = way]
             b == IF ~preserved
                  THEN [a EXCEPT !.charged = FALSE, !.nextShift = e.now + handling.das]
                  ELSE IF e.charged /\ handling.arr = 0 THEN [a EXCEPT !.nextShift = e.now]
                  ELSE a
  <2>1. q = DrainCurrent(ready)
    BY <1>4 DEF SelectDirection
  <2>2. c \in Commands
    BY <1>4, CommandTypes
  <2>3. o \in Seq(Commands)
    <3> HIDE DEF c, s
    <3> QED BY <1>1, <2>2
  <2>4. selected = [e |-> a, out |-> o]
    <3>1. [r EXCEPT !.e.active = way] = [r EXCEPT !.e = a]
      OBVIOUS
    <3> HIDE DEF a
    <3>2. [r EXCEPT !.e.active = way] = [e |-> a, out |-> s]
      BY <1>1, <3>1
    <3>3. Emit([e |-> a, out |-> s], c) = [e |-> a, out |-> o]
      <4> HIDE DEF c, s
      <4> QED BY DEF Emit
    <3> QED BY <3>2, <3>3
  <2>5. ready = [e |-> b, out |-> o]
    <3> HIDE DEF selected, o, a, preserved
    <3>1. CASE ~preserved
      <4>1. ready = [selected EXCEPT !.e = [selected.e EXCEPT !.charged = FALSE,
                                                             !.nextShift = e.now + handling.das]]
        BY <3>1
      <4>2. selected.e = a
        BY <2>4
      <4>3. ready = [selected EXCEPT !.e = b]
        BY <3>1, <4>1, <4>2
      <4> HIDE DEF b, ready
      <4> QED BY <2>4, <4>3
    <3>2. CASE preserved /\ e.charged /\ handling.arr = 0
      <4>1. ready = [selected EXCEPT !.e = [selected.e EXCEPT !.nextShift = e.now]]
        BY <3>2
      <4>2. selected.e = a
        BY <2>4
      <4>3. ready = [selected EXCEPT !.e = b]
        BY <3>2, <4>1, <4>2
      <4> HIDE DEF b, ready
      <4> QED BY <2>4, <4>3
    <3>3. CASE preserved /\ ~(e.charged /\ handling.arr = 0)
      BY <2>4, <3>3
    <3> QED BY <3>1, <3>2, <3>3
  <2> HIDE DEF ready, selected, o
  <2>6. b \in EngineType /\ b.active = way /\ SamePresses(e, b) /\ Shifting(b)
    <3>1. a \in EngineType /\ a.active = way /\ SamePresses(e, a) /\ a.charged = e.charged
          /\ a.nextShift = e.nextShift /\ a.skipped = e.skipped
      BY <1>1 DEF EngineType, SamePresses
    <3>2. e.now \in Nat /\ e.now + handling.das \in Nat
      BY <1>1, SettingParts DEF EngineType
    <3> HIDE DEF a
    <3>3. CASE ~preserved
      <4> DEFINE x == e.now + handling.das
      <4>1. x \in Times /\ x # Never
        BY <3>2 DEF Times, Never
      <4>2. b = [a EXCEPT !.charged = FALSE, !.nextShift = x]
        BY <3>3
      <4> HIDE DEF x, b
      <4> QED BY <1>4, <3>1, <4>1, <4>2 DEF EngineType, Shifting, SamePresses
    <3>4. CASE preserved /\ e.charged /\ handling.arr = 0
      <4>1. e.now \in Times /\ e.now # Never
        BY <3>2 DEF Times, Never
      <4>2. b = [a EXCEPT !.nextShift = e.now]
        BY <3>4
      <4> HIDE DEF b
      <4> QED BY <1>4, <3>1, <4>1, <4>2 DEF EngineType, Shifting, SamePresses
    <3>5. CASE preserved /\ ~(e.charged /\ handling.arr = 0)
      <4>1. b = a
        BY <3>5
      <4> QED BY <1>4, <3>1, <3>5, <4>1 DEF Shifting
    <3> QED BY <3>3, <3>4, <3>5
  <2> HIDE DEF b
  <2>7. ready \in Reach(b)
    <3>1. SameKeys(b, b)
      BY DEF SameKeys
    <3> QED BY <2>3, <2>5, <2>6, <3>1, ReachIs
  <2>8. q \in Reach(b)
    BY <2>1, <2>7, DrainIs
  <2> QED BY <2>6, <2>8, ReachParts DEF SameKeys, SamePresses
<1> QED BY <1>2, <1>3, <1>4

\* #restartHeldSoftDrop
LEMMA RestartSoftDropIs ==
    ASSUME handling \in Settings, NEW e, NEW r \in Reach(e)
    PROVE  RestartSoftDrop(r) \in Reach(e)
<1> DEFINE q == r.e
           s == r.out
           cut(x) == [q EXCEPT !.nextDrop = x]
           r1(x) == [r EXCEPT !.e.nextDrop = x]
<1>1. /\ q \in EngineType /\ s \in Seq(Commands) /\ r = [e |-> q, out |-> s]
      /\ Shifting(q) /\ SameKeys(e, q)
  BY ReachParts
<1>2. ASSUME NEW x \in Times PROVE r1(x) \in Reach(e)
  <2> DEFINE q1 == cut(x)
  <2>1. r1(x) = [r EXCEPT !.e = q1]
    OBVIOUS
  <2>2. q1 \in EngineType /\ Shifting(q1) /\ SameKeys(e, q1)
    BY <1>1 DEF EngineType, Shifting, SameKeys
  <2> HIDE DEF q1
  <2>3. r1(x) = [e |-> q1, out |-> s]
    BY <1>1, <2>1
  <2> HIDE DEF s, r1
  <2> QED BY <1>1, <2>2, <2>3, ReachIs
<1>3. CASE q.held["softDrop"] = 0
  BY <1>3 DEF RestartSoftDrop
<1>4. CASE q.held["softDrop"] # 0 /\ handling.sdf = Sonic
  <2>1. RestartSoftDrop(r) = Emit(r1(Never), Do("floor"))
    BY <1>4 DEF RestartSoftDrop
  <2>2. r1(Never) \in Reach(e)
    BY <1>2 DEF Times
  <2> HIDE DEF r1
  <2> QED BY <2>1, <2>2, EmitReach, CommandTypes
<1>5. CASE q.held["softDrop"] # 0 /\ handling.sdf # Sonic
  <2>1. q.now + handling.sdf \in Times
    BY <1>1, SettingParts DEF EngineType, Times
  <2>2. RestartSoftDrop(r) = r1(q.now + handling.sdf)
    BY <1>5 DEF RestartSoftDrop
  <2> HIDE DEF r1
  <2> QED BY <1>2, <2>1, <2>2
<1> QED BY <1>3, <1>4, <1>5

\* #pressAction
LEMMA PressActionIs ==
    ASSUME handling \in Settings, NEW e, NEW r \in Reach(e), NEW a \in Actions \ Directions
    PROVE  PressAction(r, a) \in Reach(e)
<1>1. CASE a = "softDrop"
  BY <1>1, RestartSoftDropIs DEF PressAction
<1>2. CASE a = "hardDrop"
  <2>1. Emit(r, Do("hardDrop")) \in Reach(e)
    BY EmitReach, CommandTypes
  <2> QED BY <1>2, <2>1 DEF PressAction
<1>3. CASE a = "hold"
  <2>1. Emit(r, Do("hold")) \in Reach(e)
    BY EmitReach, CommandTypes
  <2> QED BY <1>3, <2>1 DEF PressAction
<1>4. CASE a \in Rotations
  <2> DEFINE q == Emit(r, Rotate(a, "key"))
  <2>1. q \in Reach(e)
    BY <1>4, EmitReach, CommandTypes
  <2>2. PressAction(r, a) = CutForManipulation(q)
    BY <1>4 DEF PressAction, Rotations
  <2> HIDE DEF q
  <2> QED BY <2>1, <2>2, CutForManipulationIs
<1> QED BY <1>1, <1>2, <1>3, <1>4 DEF Actions

\* Where the keys stand, whatever is due.
Stands(q, pressed, order, way) ==
    /\ q \in ResultType /\ Shifting(q.e)
    /\ q.e.pressed = pressed /\ q.e.order = order /\ q.e.active = way

LEMMA PressType ==
    ASSUME NEW code \in Codes, NEW way \in Directions \cup Rotations
    PROVE  Press(code, way) \in Presses
BY DEF Press, Presses

\* keyDown for one action: a direction becomes the newest, and the one that is shifted to.
Ordered(order, code, a) ==
    IF a \in Bindings[code] /\ a \in Directions THEN Append(order, Press(code, a)) ELSE order
Leading(way, code, a) == IF a \in Bindings[code] /\ a \in Directions THEN a ELSE way

LEMMA PressedIs ==
    ASSUME handling \in Settings, NEW code \in Codes, NEW a \in Actions, a \in Bindings[code],
           NEW pressed, NEW order, NEW way, NEW r, Stands(r, pressed, order, way)
    PROVE  Stands(Pressed(r, code, a), pressed, Ordered(order, code, a), Leading(way, code, a))
<1> DEFINE e == r.e
           s == r.out
           count == e.held[a]
           counted == [r EXCEPT !.e.held[a] = count + 1]
           press == Press(code, a)
           ordered == [counted EXCEPT !.e.order = Append(@, press)]
           held1 == [e.held EXCEPT ![a] = count + 1]
           e1 == [e EXCEPT !.held = held1]
<1>1. /\ r \in ResultType /\ e \in EngineType /\ s \in Seq(Commands) /\ r = [e |-> e, out |-> s]
      /\ Shifting(e) /\ e.pressed = pressed /\ e.order = order /\ e.active = way
  BY ResultParts DEF Stands
<1>2. held1 \in [Actions -> Nat]
  BY <1>1 DEF EngineType
<1>3. counted = [e |-> e1, out |-> s]
  <2>1. counted = [r EXCEPT !.e = [e EXCEPT !.held[a] = count + 1]]
    OBVIOUS
  <2>2. [e EXCEPT !.held[a] = count + 1] = e1
    BY <1>1 DEF EngineType
  <2> HIDE DEF e1, counted
  <2> QED BY <1>1, <2>1, <2>2
<1> HIDE DEF held1
<1>4. e1 \in EngineType /\ Shifting(e1) /\ e1.pressed = pressed /\ e1.order = order
      /\ e1.active = way
  BY <1>1, <1>2 DEF EngineType, Shifting
<1>5. CASE a \notin Directions
  <2>1. Pressed(r, code, a) = IF count = 0 THEN PressAction(counted, a) ELSE counted
    BY <1>5 DEF Pressed
  <2>2. SameKeys(e1, e1)
    BY DEF SameKeys
  <2> HIDE DEF e1, s, counted
  <2>3. counted \in Reach(e1)
    BY <1>1, <1>3, <1>4, <2>2, ReachIs
  <2>4. PressAction(counted, a) \in Reach(e1)
    BY <1>5, <2>3, PressActionIs
  <2>5. Pressed(r, code, a) \in Reach(e1)
    BY <2>1, <2>3, <2>4
  <2>6. Ordered(order, code, a) = order /\ Leading(way, code, a) = way
    BY <1>5 DEF Ordered, Leading
  <2> QED BY <1>4, <2>5, <2>6, ReachParts DEF Stands, SameKeys
<1>6. CASE a \in Directions
  <2> DEFINE o == Append(order, press)
             e2 == [e1 EXCEPT !.order = o]
  <2>1. o \in Seq(Presses)
    <3>1. press \in Presses
      BY <1>6, PressType
    <3>2. order \in Seq(Presses)
      BY <1>1 DEF EngineType
    <3> HIDE DEF press
    <3> QED BY <3>1, <3>2
  <2>2. ordered = [e |-> e2, out |-> s]
    <3> HIDE DEF e1, s, press, counted
    <3>1. counted.e = e1
      BY <1>3
    <3>2. e2 = [e1 EXCEPT !.order = Append(@, press)]
      BY <1>4
    <3>3. ordered = [counted EXCEPT !.e = [counted.e EXCEPT !.order = Append(@, press)]]
      OBVIOUS
    <3>4. ordered = [counted EXCEPT !.e = e2]
      BY <3>1, <3>2, <3>3
    <3> HIDE DEF e2, ordered
    <3> QED BY <1>3, <3>4
  <2>3. Ordered(order, code, a) = o /\ Leading(way, code, a) = a
    BY <1>6 DEF Ordered, Leading
  <2>4. Pressed(r, code, a) =
            IF count = 0 \/ e.active # a THEN SelectDirection(ordered, a) ELSE ordered
    BY <1>6 DEF Pressed
  <2> HIDE DEF e1, o
  <2>5. e2 \in EngineType /\ Shifting(e2) /\ e2.pressed = pressed /\ e2.order = o
        /\ e2.active = way
    BY <1>4, <2>1 DEF EngineType, Shifting
  <2> HIDE DEF e2, ordered, s
  <2>6. ordered \in ResultType /\ ordered.e = e2
    BY <1>1, <2>2, <2>5 DEF ResultType
  <2>7. Stands(SelectDirection(ordered, a), pressed, o, a)
    <3>1. LET q == SelectDirection(ordered, a)
          IN  q \in ResultType /\ Shifting(q.e) /\ q.e.active = a /\ SamePresses(ordered.e, q.e)
      BY <1>6, <2>5, <2>6, SelectDirectionIs
    <3> QED BY <2>5, <2>6, <3>1 DEF Stands, SamePresses
  <2>8. way = a => Stands(ordered, pressed, o, a)
    BY <2>5, <2>6 DEF Stands
  <2> QED BY <1>1, <2>3, <2>4, <2>7, <2>8
<1> QED BY <1>5, <1>6

LEMMA PressedOrNot ==
    ASSUME handling \in Settings, NEW code \in Codes, NEW a \in Actions,
           NEW pressed, NEW order, NEW way, NEW r, Stands(r, pressed, order, way)
    PROVE  Stands(IF a \in Bindings[code] THEN Pressed(r, code, a) ELSE r,
                  pressed, Ordered(order, code, a), Leading(way, code, a))
<1>1. CASE a \in Bindings[code]
  BY <1>1, PressedIs
<1>2. CASE a \notin Bindings[code]
  BY <1>2 DEF Ordered, Leading
<1> QED BY <1>1, <1>2

\* keyDown of the engine: the directions of the key are the newest, right after left.
NewOrder(order, code) == Ordered(Ordered(order, code, "left"), code, "right")
NewWay(way, code) == Leading(Leading(way, code, "left"), code, "right")

LEMMA PressedStands ==
    ASSUME handling \in Settings, NEW r \in ResultType, Shifting(r.e), NEW code \in Codes
    PROVE  LET pressed == r.e.pressed \cup {code}
               q == [r EXCEPT !.e.pressed = @ \cup {code}]
           IN  Stands(q, pressed, r.e.order, r.e.active)
<1> DEFINE e == r.e
           s == r.out
           p == e.pressed \cup {code}
           e1 == [e EXCEPT !.pressed = p]
           q == [r EXCEPT !.e.pressed = @ \cup {code}]
<1>1. e \in EngineType /\ s \in Seq(Commands) /\ r = [e |-> e, out |-> s]
  BY ResultParts
<1>2. e1 \in EngineType /\ Shifting(e1) /\ e1.pressed = p /\ e1.order = e.order
      /\ e1.active = e.active
  BY <1>1 DEF EngineType, Shifting
<1>3. q = [r EXCEPT !.e = e1]
  BY <1>1 DEF EngineType
<1> HIDE DEF e1, q
<1>4. q = [e |-> e1, out |-> s]
  BY <1>1, <1>3
<1> HIDE DEF s
<1>5. q \in ResultType /\ q.e = e1
  BY <1>1, <1>2, <1>4 DEF ResultType
<1> QED BY <1>2, <1>5 DEF Stands, q

LEMMA EngineDownIs ==
    ASSUME handling \in Settings, clock \in Nat, NEW e \in EngineType, Shifting(e),
           NEW code \in Codes, code \notin e.pressed
    PROVE  Stands(EngineDown(e, code), e.pressed \cup {code}, NewOrder(e.order, code),
                  NewWay(e.active, code))
<1> DEFINE r == Advanced(e, clock)
           N == Len(PlayerActions)
           start == [r EXCEPT !.e.pressed = @ \cup {code}]
           Once(x, n) == IF PlayerActions[n] \in Bindings[code]
                         THEN Pressed(x, code, PlayerActions[n]) ELSE x
           Solves(f) == f = [n \in 0 .. Len(PlayerActions) |->
                                IF n = 0 THEN [r EXCEPT !.e.pressed = @ \cup {code}]
                                ELSE Once(f[n - 1], n)]
           F == CHOOSE f : Solves(f)
           p == e.pressed \cup {code}
           S == {x \in ResultType : Shifting(x.e)}
           g == [n \in 1 .. N |-> [x \in S |-> Once(x, n)]]
<1>1. r \in Reach(e)
  BY AdvancedIs
<1>2. EngineDown(e, code) = F[N]
  BY DEF EngineDown, Looped
<1> HIDE DEF r
<1>3. r \in ResultType /\ Shifting(r.e) /\ SameKeys(e, r.e)
  BY <1>1, ReachParts
<1>4. Stands(start, p, e.order, e.active)
  BY <1>3, PressedStands DEF SameKeys
<1>5. N = 7 /\ N \in Nat /\ \A n \in 1 .. N : PlayerActions[n] \in Actions
  BY DEF PlayerActions, Actions, Directions, Rotations
<1>6. ASSUME NEW n \in 1 .. N, NEW x, NEW q, NEW o, NEW w, Stands(x, q, o, w)
      PROVE  Stands(Once(x, n), q, Ordered(o, code, PlayerActions[n]),
                    Leading(w, code, PlayerActions[n]))
  BY <1>5, <1>6, PressedOrNot
<1>7. start \in S
  BY <1>4 DEF Stands
<1> HIDE DEF start
<1>8. \A n \in 1 .. N : \A x \in S : Once(x, n) \in S
  <2> TAKE n \in 1 .. N
  <2> TAKE x \in S
  <2>1. Stands(x, x.e.pressed, x.e.order, x.e.active)
    BY DEF Stands
  <2>2. Stands(Once(x, n), x.e.pressed, Ordered(x.e.order, code, PlayerActions[n]),
               Leading(x.e.active, code, PlayerActions[n]))
    <3> HIDE DEF Once, N
    <3> QED BY <1>6, <2>1
  <2> HIDE DEF Once
  <2> QED BY <2>2 DEF Stands
<1> HIDE DEF S
<1>9. g \in [1 .. N -> [S -> S]]
  <2> HIDE DEF Once
  <2> QED BY <1>8
<1>10. \A n \in 1 .. N : \A x \in S : g[n][x] = Once(x, n)
  OBVIOUS
<1> HIDE DEF g
<1>11. PICK f \in [0 .. N -> S] : f[0] = start /\ \A n \in 1 .. N : f[n] = g[n][f[n - 1]]
  <2>1. HasRun(S, start, N, g)
    BY <1>5, <1>7, <1>9, Iteration
  <2> QED BY <2>1 DEF HasRun
<1>12. Solves(f)
  <2>1. ASSUME NEW n \in 0 .. N PROVE f[n] = IF n = 0 THEN start ELSE Once(f[n - 1], n)
    <3>1. CASE n = 0
      BY <3>1, <1>11
    <3>2. CASE n # 0
      <4>1. n \in 1 .. N /\ n - 1 \in 0 .. N
        BY <3>2, <1>5
      <4>2. f[n] = g[n][f[n - 1]] /\ f[n - 1] \in S
        BY <4>1, <1>11
      <4>3. f[n] = Once(f[n - 1], n)
        <5> HIDE DEF Once
        <5> QED BY <4>1, <4>2, <1>10
      <4> QED BY <3>2, <4>3
    <3> QED BY <3>1, <3>2
  <2>2. f = [n \in 0 .. N |-> IF n = 0 THEN start ELSE Once(f[n - 1], n)]
    <3> HIDE DEF Once, N
    <3> QED BY <1>11, <2>1
  <2> QED BY <2>2 DEF start
<1>13. Solves(F)
  BY <1>12
<1> HIDE DEF F
<1>14. \A n \in 0 .. N : F[n] = IF n = 0 THEN start ELSE Once(F[n - 1], n)
  BY <1>13 DEF start
<1> DEFINE A(n) == PlayerActions[n]
<1>15. F[0] = start /\ \A n \in 0 .. 6 : F[n + 1] = Once(F[n], n + 1)
  <2>1. F[0] = start
    BY <1>5, <1>14
  <2>2. ASSUME NEW n \in 0 .. 6 PROVE F[n + 1] = Once(F[n], n + 1)
    <3>1. n + 1 \in 0 .. N /\ n + 1 # 0 /\ (n + 1) - 1 = n
      BY <1>5
    <3> HIDE DEF Once, N
    <3> QED BY <1>14, <3>1
  <2> QED BY <2>1, <2>2
<1> HIDE DEF Once
<1>16. \A n \in 0 .. 6 : \A o, w : Stands(F[n], p, o, w) =>
           Stands(F[n + 1], p, Ordered(o, code, A(n + 1)), Leading(w, code, A(n + 1)))
  <2> TAKE n \in 0 .. 6
  <2> TAKE o, w
  <2>1. n + 1 \in 1 .. N
    BY <1>5
  <2> HIDE DEF N, p
  <2> QED BY <1>6, <1>15, <2>1
<1>17. A(1) = "left" /\ A(2) = "right" /\ \A n \in 3 .. 7 : A(n) \notin Directions
  BY DEF PlayerActions, Directions
<1>18. \A n \in 3 .. 7 : \A o, w : Ordered(o, code, A(n)) = o /\ Leading(w, code, A(n)) = w
  <2> HIDE DEF A
  <2> QED BY <1>17 DEF Ordered, Leading
<1> DEFINE o2 == NewOrder(e.order, code)
           w2 == NewWay(e.active, code)
<1> HIDE DEF A, p
<1>19. Stands(F[2], p, o2, w2)
  <2>1. Stands(F[1], p, Ordered(e.order, code, A(1)), Leading(e.active, code, A(1)))
    <3>1. 0 \in 0 .. 6 /\ 0 + 1 = 1
      OBVIOUS
    <3> QED BY <1>4, <1>15, <1>16, <3>1
  <2>2. Stands(F[2], p, Ordered(Ordered(e.order, code, A(1)), code, A(2)),
               Leading(Leading(e.active, code, A(1)), code, A(2)))
    <3>1. 1 \in 0 .. 6 /\ 1 + 1 = 2
      OBVIOUS
    <3> QED BY <1>16, <2>1, <3>1
  <2> QED BY <1>17, <2>2 DEF NewOrder, NewWay
<1> HIDE DEF o2, w2
<1>20. \A n \in 2 .. 6 : Stands(F[n], p, o2, w2) => Stands(F[n + 1], p, o2, w2)
  <2> TAKE n \in 2 .. 6
  <2>1. n \in 0 .. 6 /\ n + 1 \in 3 .. 7
    OBVIOUS
  <2> QED BY <1>16, <1>18, <2>1
<1>21. Stands(F[7], p, o2, w2)
  <2>1. Stands(F[3], p, o2, w2)
    BY <1>19, <1>20
  <2>2. Stands(F[4], p, o2, w2)
    BY <2>1, <1>20
  <2>3. Stands(F[5], p, o2, w2)
    BY <2>2, <1>20
  <2>4. Stands(F[6], p, o2, w2)
    BY <2>3, <1>20
  <2> QED BY <2>4, <1>20
<1> QED BY <1>2, <1>5, <1>21 DEF p, o2, w2

\* keyUp of the engine: the keys without the released one, and the newest direction left.
LastWay(order) == IF order = <<>> THEN "none" ELSE order[Len(order)].way
Without(order, code) == RemoveLast(RemoveLast(order, Press(code, "left")), Press(code, "right"))

LEMMA ReleasedIs ==
    ASSUME NEW e \in EngineType, Shifting(e), NEW code
    PROVE  LET q == Released(e, code)
           IN  /\ q \in EngineType /\ Shifting(q) /\ q.pressed = e.pressed \ {code}
               /\ q.order = Without(e.order, code)
<1> DEFINE held == [a \in Actions |-> IF a \in Bindings[code] /\ e.held[a] > 0
                                      THEN e.held[a] - 1 ELSE e.held[a]]
           o == Without(e.order, code)
           p == e.pressed \ {code}
           d == IF "softDrop" \in Bindings[code] /\ held["softDrop"] = 0 THEN Never
                ELSE e.nextDrop
           q == [e EXCEPT !.pressed = p, !.held = held, !.order = o, !.nextDrop = d]
<1>1. held \in [Actions -> Nat]
  BY DEF EngineType
<1>2. o \in Seq(Presses)
  <2>1. RemoveLast(e.order, Press(code, "left")) \in Seq(Presses)
    BY RemoveLastIs DEF EngineType
  <2> QED BY <2>1, RemoveLastIs DEF Without
<1>3. d \in Times
  BY DEF EngineType, Times
<1>4. Released(e, code) = q
  BY DEF Released, Without, EngineType
<1> HIDE DEF held, o, d
<1>5. q \in EngineType /\ Shifting(q) /\ q.pressed = p /\ q.order = o
  BY <1>1, <1>2, <1>3 DEF EngineType, Shifting
<1> HIDE DEF q
<1> QED BY <1>4, <1>5 DEF o

LEMMA EngineUpIs ==
    ASSUME handling \in Settings, clock \in Nat, NEW e \in EngineType, Shifting(e),
           NEW code, code \in e.pressed,
           LastWay(Without(e.order, code)) \in Directions \cup {"none"}
    PROVE  Stands(EngineUp(e, code), e.pressed \ {code}, Without(e.order, code),
                  LastWay(Without(e.order, code)))
<1> DEFINE r == Advanced(e, clock)
           s == r.out
           up == Released(r.e, code)
           o == Without(e.order, code)
           q == [r EXCEPT !.e = up]
           next == IF up.order = <<>> THEN "none" ELSE Last(up.order).way
<1>1. EngineUp(e, code) = SelectDirection(q, next)
  BY DEF EngineUp, SelectHeld
<1>2. /\ r.e \in EngineType /\ s \in Seq(Commands) /\ r = [e |-> r.e, out |-> s]
      /\ Shifting(r.e) /\ SameKeys(e, r.e)
  BY AdvancedIs, ReachParts
<1> HIDE DEF r
<1>3. /\ up \in EngineType /\ Shifting(up) /\ up.pressed = e.pressed \ {code} /\ up.order = o
  BY <1>2, ReleasedIs DEF SameKeys
<1> HIDE DEF up, s
<1>4. q = [e |-> up, out |-> s]
  BY <1>2 DEF s
<1>5. q \in ResultType /\ q.e = up
  BY <1>2, <1>3, <1>4 DEF ResultType
<1> HIDE DEF q
<1>6. next = LastWay(o)
  BY <1>3 DEF LastWay, Last
<1> HIDE DEF next, o
<1>7. LET d == SelectDirection(q, next)
      IN  d \in ResultType /\ Shifting(d.e) /\ d.e.active = next /\ SamePresses(q.e, d.e)
  <2>1. next \in Directions \cup {"none"}
    BY <1>6 DEF o
  <2> QED BY <1>3, <1>5, <2>1, SelectDirectionIs
<1> QED BY <1>1, <1>3, <1>5, <1>6, <1>7 DEF Stands, SamePresses, o

\* The engines that differ from e in what is due and in what is buffered only.
Continues(e) == {q \in EngineType : Shifting(q) /\ SameKeys(e, q)}

LEMMA ContinuesReach ==
    ASSUME NEW e
    PROVE  /\ \A r \in Reach(e) : r.e \in Continues(e)
           /\ \A q \in Continues(e), s \in Seq(Commands) : [e |-> q, out |-> s] \in Reach(e)
<1>1. \A r \in Reach(e) : r.e \in Continues(e)
  BY ReachParts DEF Continues
<1>2. ASSUME NEW q \in Continues(e), NEW s \in Seq(Commands) PROVE [e |-> q, out |-> s] \in Reach(e)
  BY ReachIs DEF Continues
<1> QED BY <1>1, <1>2

\* notifyPieceSpawned of the engine
LEMMA EngineSpawnedIs ==
    ASSUME handling \in Settings, clock \in Nat, NEW e, NEW q \in Continues(e), NEW cause
    PROVE  EngineSpawned(q, cause) \in Reach(e)
<1> DEFINE c == CutDas(q, clock)
           r == Advanced(c, clock)
           b == IF cause = "automatic" /\ handling.safe THEN clock + SafeLockTime ELSE 0
           e1 == [r.e EXCEPT !.blocked = b]
           r1 == [r EXCEPT !.e.blocked = b]
           s == r.out
<1>1. c \in EngineType /\ Shifting(c) /\ SameKeys(q, c)
  BY CutDasIs DEF Continues
<1> HIDE DEF c
<1>2. r \in Reach(c)
  BY <1>1, AdvancedIs
<1>3. EngineSpawned(q, cause) = RestartSoftDrop(r1)
  BY DEF EngineSpawned, c
<1>4. b \in Nat
  BY SettingParts
<1> HIDE DEF r, b
<1>5. /\ r.e \in EngineType /\ s \in Seq(Commands) /\ r = [e |-> r.e, out |-> s]
      /\ Shifting(r.e) /\ SameKeys(c, r.e)
  BY <1>2, ReachParts
<1>6. e1 \in EngineType /\ Shifting(e1) /\ SameKeys(r.e, e1)
  BY <1>4, <1>5 DEF EngineType, Shifting, SameKeys
<1>7. r1 = [r EXCEPT !.e = e1]
  OBVIOUS
<1> HIDE DEF e1, r1
<1>8. r1 = [e |-> e1, out |-> s]
  BY <1>5, <1>7
<1>9. SameKeys(e, e1)
  BY <1>1, <1>5, <1>6 DEF Continues, SameKeys
<1> HIDE DEF s
<1>10. r1 \in Reach(e)
  BY <1>5, <1>6, <1>8, <1>9, ReachIs
<1> QED BY <1>3, <1>10, RestartSoftDropIs

-----------------------------------------------------------------------------
(* the buffer *)

LEMMA BufferDownIs ==
    ASSUME handling \in Settings, NEW e \in EngineType, Shifting(e), NEW code \in Codes
    PROVE  BufferDown(e, code) \in Continues(e)
<1> DEFINE turns == Bindings[code] \cap Rotations
           Turn(way) == IF way \in turns THEN <<Press(code, way)>> ELSE <<>>
           x == e.rotations \o Turn("cw")
           y == x \o Turn("ccw")
           h == e.tapHold \/ "hold" \in Bindings[code]
           w == IF turns = {} THEN e.tapRotation ELSE IF "ccw" \in turns THEN "ccw" ELSE "cw"
           q == [e EXCEPT !.tapHold = h, !.rotations = y, !.tapRotation = w]
<1>1. Turn("cw") \in Seq(Presses) /\ Turn("ccw") \in Seq(Presses)
  <2>1. Press(code, "cw") \in Presses /\ Press(code, "ccw") \in Presses
    BY PressType DEF Rotations
  <2> DEFINE c == Press(code, "cw")
             d == Press(code, "ccw")
  <2> HIDE DEF c, d, turns
  <2>2. <<c>> \in Seq(Presses) /\ <<d>> \in Seq(Presses) /\ <<>> \in Seq(Presses)
    BY <2>1 DEF c, d
  <2> QED BY <2>2 DEF c, d
<1>2. y \in Seq(Presses)
  <2>1. e.rotations \in Seq(Presses)
    BY DEF EngineType
  <2> DEFINE c == Turn("cw")
             d == Turn("ccw")
  <2> HIDE DEF Turn
  <2>2. x \in Seq(Presses)
    BY <1>1, <2>1, ConcatType
  <2> HIDE DEF x
  <2> QED BY <1>1, <2>2, ConcatType
<1>3. w \in Rotations \cup {"none"} /\ h \in BOOLEAN
  BY DEF EngineType, Rotations
<1>4. code \notin e.pressed => BufferDown(e, code) = q
  BY DEF BufferDown, EngineType
<1> HIDE DEF y, w, h
<1>5. q \in Continues(e)
  BY <1>2, <1>3 DEF EngineType, Continues, Shifting, SameKeys
<1>6. code \in e.pressed => BufferDown(e, code) = e
  BY DEF BufferDown
<1>7. e \in Continues(e)
  BY DEF Continues, SameKeys
<1> QED BY <1>4, <1>5, <1>6, <1>7

LEMMA BufferUpIs ==
    ASSUME handling \in Settings, NEW e \in EngineType, Shifting(e), NEW code
    PROVE  BufferUp(e, code) \in Continues(e)
<1> DEFINE y == RemoveLast(RemoveLast(e.rotations, Press(code, "cw")), Press(code, "ccw"))
           q == [e EXCEPT !.rotations = y]
<1>1. y \in Seq(Presses)
  <2>1. RemoveLast(e.rotations, Press(code, "cw")) \in Seq(Presses)
    BY RemoveLastIs DEF EngineType
  <2> QED BY <2>1, RemoveLastIs
<1>2. BufferUp(e, code) = IF code \notin e.pressed THEN e ELSE q
  BY DEF BufferUp, EngineType
<1> HIDE DEF y
<1>3. q \in Continues(e) /\ e \in Continues(e)
  BY <1>1 DEF EngineType, Continues, Shifting, SameKeys
<1> HIDE DEF q
<1> QED BY <1>2, <1>3

Causes == {"hardDrop", "hold"}

\* #consume
LEMMA ConsumeIs ==
    ASSUME NEW e, NEW q \in Continues(e), NEW cause, NEW existing
    PROVE  Consume(q, cause, existing) \in Reach(e)
<1> DEFINE hold == IF handling.ihs = "hold" THEN q.held["hold"] > 0
                   ELSE handling.ihs = "tap" /\ q.tapHold
           way == IF handling.irs = "tap" THEN q.tapRotation
                  ELSE IF handling.irs = "hold" /\ q.rotations # <<>> THEN Last(q.rotations).way
                  ELSE "none"
           a == IF cause # "hold" /\ hold /\ ~Some(existing, "hold") THEN <<Do("hold")>> ELSE <<>>
           b == IF way # "none" /\ ~Some(existing, "rotate") THEN <<Rotate(way, "buffer")>>
                ELSE <<>>
           q1 == [q EXCEPT !.tapHold = FALSE, !.tapRotation = "none"]
           o == a \o b
<1>1. Consume(q, cause, existing) = [e |-> q1, out |-> o]
  BY DEF Consume
<1>2. q1 \in Continues(e)
  BY DEF Continues, EngineType, Shifting, SameKeys
<1>3. way \in Ways
  <2>1. q.tapRotation \in Ways
    BY DEF Continues, EngineType, Ways
  <2>2. q.rotations # <<>> => Last(q.rotations).way \in Ways
    <3>1. q.rotations \in Seq(Presses)
      BY DEF Continues, EngineType
    <3>2. q.rotations # <<>> => q.rotations[Len(q.rotations)] \in Presses
      BY <3>1
    <3> QED BY <3>2 DEF Last, Presses, Ways
  <2> QED BY <2>1, <2>2 DEF Ways
<1>4. a \in Seq(Commands)
  <2>1. Do("hold") \in Commands
    BY CommandTypes
  <2> DEFINE c == Do("hold")
  <2> HIDE DEF hold, c
  <2>2. <<c>> \in Seq(Commands) /\ <<>> \in Seq(Commands)
    BY <2>1 DEF c
  <2> QED BY <2>2 DEF c
<1>5. b \in Seq(Commands)
  <2> DEFINE c == Rotate(way, "buffer")
  <2>1. c \in Commands
    <3> HIDE DEF way
    <3> QED BY <1>3 DEF Commands, Rotate, Command
  <2> HIDE DEF way, c
  <2>2. <<c>> \in Seq(Commands) /\ <<>> \in Seq(Commands)
    BY <2>1
  <2> QED BY <2>2 DEF c
<1> HIDE DEF a, b, q1
<1>6. o \in Seq(Commands)
  BY <1>4, <1>5, ConcatType
<1> HIDE DEF o
<1> QED BY <1>1, <1>2, <1>6, ContinuesReach

\* A range of positions has a least one of its kind.
LEMMA SmallestIs ==
    ASSUME NEW n \in Nat, NEW S \in SUBSET (1 .. n), S # {}
    PROVE  Min(S) \in S
<1> DEFINE T == {n + 1 - i : i \in S}
<1>1. T \in SUBSET (1 .. n) /\ T # {}
  <2>1. \A i \in S : i \in 1 .. n /\ n + 1 - i \in 1 .. n
    OBVIOUS
  <2> QED BY <2>1
<1>2. PICK k \in T : \A j \in T : j <= k
  <2> HIDE DEF T
  <2> QED BY <1>1, Greatest
<1>3. PICK i \in S : k = n + 1 - i
  OBVIOUS
<1>4. \A j \in S : i <= j
  <2> TAKE j \in S
  <2>1. n + 1 - j <= n + 1 - i
    BY <1>2, <1>3
  <2>2. i \in 1 .. n /\ j \in 1 .. n
    OBVIOUS
  <2> QED BY <2>1, <2>2
<1>5. Min(S) \in S
  BY <1>4 DEF Min
<1> QED BY <1>5

LEMMA FirstIs ==
    ASSUME NEW T, NEW s \in Seq(T)
    PROVE  /\ SelectInSeq(s, Brings) \in 0 .. Len(s)
           /\ LET first == SelectInSeq(s, Brings) IN first # 0 => Brings(s[first])
<1> DEFINE I == {i \in 1 .. Len(s) : Brings(s[i])}
<1>1. SelectInSeq(s, Brings) = IF I # {} THEN Min(I) ELSE 0
  BY DEF SelectInSeq
<1>2. I # {} => Min(I) \in I
  <2>1. I \in SUBSET (1 .. Len(s)) /\ Len(s) \in Nat
    OBVIOUS
  <2> HIDE DEF I
  <2> QED BY <2>1, SmallestIs
<1> QED BY <1>1, <1>2

LEMMA SubSeqType ==
    ASSUME NEW T, NEW s \in Seq(T), NEW m \in Nat, NEW n \in Nat, m >= 1, n <= Len(s)
    PROVE  SubSeq(s, m, n) \in Seq(T)
<1>1. \A i \in m .. n : s[i] \in T
  OBVIOUS
<1> QED BY <1>1

\* expand
LEMMA ExpandedIs ==
    ASSUME NEW e, NEW r \in Reach(e)
    PROVE  Expanded(r) \in Reach(e)
<1> DEFINE q == r.e
           s == r.out
           first == SelectInSeq(s, Brings)
           before == IF first = 0 THEN s ELSE SubSeq(s, 1, first - 1)
           taken == \E i \in DOMAIN before :
                        before[i].do = "rotate" /\ before[i].way = q.tapRotation
           w == IF taken THEN "none" ELSE q.tapRotation
           known == [q EXCEPT !.tapRotation = IF taken THEN "none" ELSE @]
           after == SubSeq(s, first + 1, Len(s))
           consumed == Consume(known, s[first].do, after)
           p == Append(consumed.e.prepared, s[first].do)
           e1 == [consumed.e EXCEPT !.prepared = Append(@, s[first].do)]
           o == before \o <<s[first]>> \o consumed.out \o after
<1>1. /\ q \in EngineType /\ s \in Seq(Commands) /\ r = [e |-> q, out |-> s]
      /\ Shifting(q) /\ SameKeys(e, q)
  BY ReachParts
<1>2. Expanded(r) = IF first = 0 THEN [r EXCEPT !.e = known] ELSE [e |-> e1, out |-> o]
  BY DEF Expanded
<1>3. known = [q EXCEPT !.tapRotation = w] /\ w \in Rotations \cup {"none"}
  BY <1>1 DEF EngineType
<1> HIDE DEF w
<1>4. known \in Continues(e)
  <2> HIDE DEF known, taken, q
  <2> QED BY <1>1, <1>3 DEF Continues, EngineType, Shifting, SameKeys
<1>5. first \in 0 .. Len(s) /\ (first # 0 => Brings(s[first]))
  BY <1>1, FirstIs
<1> HIDE DEF known, first, q, s
<1>6. CASE first = 0
  <2>1. [r EXCEPT !.e = known] = [e |-> known, out |-> s]
    BY <1>1
  <2> QED BY <1>1, <1>2, <1>4, <1>6, <2>1, ContinuesReach
<1>7. CASE first # 0
  <2>1. consumed \in Reach(e)
    BY <1>4, ConsumeIs
  <2> DEFINE c == consumed.e
             m == consumed.out
             x == s[first]
             b1 == before \o <<x>>
             b2 == b1 \o m
             b3 == b2 \o after
  <2> HIDE DEF consumed
  <2>2. c \in Continues(e) /\ m \in Seq(Commands)
    BY <2>1, ContinuesReach, ReachParts
  <2>3. Len(s) \in Nat /\ first \in 1 .. Len(s) /\ first \in Nat /\ x \in Commands
    BY <1>1, <1>5, <1>7
  <2>4. before \in Seq(Commands) /\ after \in Seq(Commands) /\ <<x>> \in Seq(Commands)
    <3>1. first - 1 \in Nat /\ first - 1 <= Len(s) /\ first + 1 \in Nat /\ first + 1 >= 1
      BY <2>3
    <3>2. SubSeq(s, 1, first - 1) \in Seq(Commands)
      BY <1>1, <3>1, SubSeqType
    <3>3. after \in Seq(Commands)
      BY <1>1, <2>3, <3>1, SubSeqType
    <3> QED BY <1>7, <2>3, <3>2, <3>3
  <2>5. x.do \in Causes
    BY <1>5, <1>7 DEF Brings, Causes
  <2>6. p \in Seq(Causes)
    <3>1. c.prepared \in Seq(Causes)
      BY <2>2 DEF Continues, EngineType, Causes
    <3> QED BY <2>5, <3>1
  <2> HIDE DEF x, before, after
  <2>7. e1 \in Continues(e)
    <3>1. e1 = [c EXCEPT !.prepared = p]
      BY <2>2 DEF Continues, EngineType
    <3> HIDE DEF e1, p, c
    <3> QED BY <2>2, <2>6, <3>1 DEF Continues, EngineType, Shifting, SameKeys, Causes
  <2>8. o = b3
    BY DEF x
  <2> HIDE DEF m, c
  <2>9. b1 \in Seq(Commands)
    BY <2>4, ConcatType
  <2> HIDE DEF b1
  <2>10. b2 \in Seq(Commands)
    BY <2>2, <2>9, ConcatType
  <2> HIDE DEF b2
  <2>11. b3 \in Seq(Commands)
    BY <2>4, <2>10, ConcatType
  <2> HIDE DEF b3, o, e1
  <2> QED BY <1>2, <1>7, <2>7, <2>8, <2>11, ContinuesReach
<1> QED BY <1>6, <1>7

\* spawned of the buffer
LEMMA SpawnedIs ==
    ASSUME NEW e, NEW q \in Continues(e), NEW cause
    PROVE  Spawned(q, cause) \in Reach(e)
<1> DEFINE s == q.prepared
           at == SelectInSeq(s, LAMBDA prepared : prepared = cause)
           I == {i \in 1 .. Len(s) : s[i] = cause}
           rest == SubSeq(s, at + 1, Len(s))
           q1 == [q EXCEPT !.prepared = SubSeq(@, at + 1, Len(@))]
           q2 == [q EXCEPT !.prepared = <<>>]
           none == <<>>
<1>1. s \in Seq(Causes) /\ q \in EngineType
  BY DEF Continues, EngineType, Causes
<1>2. at = IF I # {} THEN Min(I) ELSE 0
  BY DEF SelectInSeq
<1>3. at \in 0 .. Len(s)
  <2>1. I # {} => Min(I) \in I
    <3>1. I \in SUBSET (1 .. Len(s)) /\ Len(s) \in Nat
      BY <1>1
    <3> HIDE DEF I
    <3> QED BY <3>1, SmallestIs
  <2> QED BY <1>1, <1>2, <2>1
<1>4. Spawned(q, cause) = IF at > 0 THEN Result(q1) ELSE Consume(q2, cause, <<>>)
  BY DEF Spawned
<1> HIDE DEF at, I
<1>5. rest \in Seq(Causes)
  BY <1>1, <1>3, SubSeqType
<1>6. q1 = [q EXCEPT !.prepared = rest]
  BY <1>1 DEF EngineType
<1> HIDE DEF rest
<1>7. q1 \in Continues(e)
  <2> HIDE DEF q1
  <2> QED BY <1>5, <1>6 DEF Continues, EngineType, Shifting, SameKeys, Causes
<1>8. q2 \in Continues(e)
  <2>1. none \in Seq(Causes) /\ q2 = [q EXCEPT !.prepared = none]
    OBVIOUS
  <2> HIDE DEF q2, none
  <2> QED BY <2>1 DEF Continues, EngineType, Shifting, SameKeys, Causes
<1> HIDE DEF q1, q2
<1>9. Consume(q2, cause, <<>>) \in Reach(e)
  BY <1>8, ConsumeIs
<1>10. Result(q1) \in Reach(e)
  <2>1. none \in Seq(Commands) /\ Result(q1) = [e |-> q1, out |-> none]
    BY DEF Result
  <2> HIDE DEF none
  <2> QED BY <1>7, <2>1, ContinuesReach
<1> QED BY <1>4, <1>9, <1>10

LEMMA NotifySpawnedIs ==
    ASSUME handling \in Settings, clock \in Nat, NEW e, NEW q \in Continues(e), NEW cause
    PROVE  NotifySpawned(q, cause) \in Reach(e)
<1> DEFINE g == Spawned(q, cause)
           r == EngineSpawned(g.e, cause)
           a == g.out
           b == r.out
           o == a \o b
<1>1. g \in Reach(e)
  BY SpawnedIs
<1> HIDE DEF g
<1>2. g.e \in Continues(e) /\ a \in Seq(Commands)
  BY <1>1, ContinuesReach, ReachParts
<1>3. r \in Reach(e)
  BY <1>2, EngineSpawnedIs
<1> HIDE DEF a
<1>4. NotifySpawned(q, cause) = [r EXCEPT !.out = o]
  BY DEF NotifySpawned, g, a
<1> HIDE DEF r
<1>5. r.e \in Continues(e) /\ b \in Seq(Commands) /\ r = [e |-> r.e, out |-> b]
  BY <1>3, ContinuesReach, ReachParts
<1> HIDE DEF b
<1>6. o \in Seq(Commands)
  BY <1>2, <1>5, ConcatType
<1> HIDE DEF o
<1>7. [r EXCEPT !.out = o] = [e |-> r.e, out |-> o]
  BY <1>5
<1> QED BY <1>4, <1>5, <1>6, <1>7, ContinuesReach

PlayerType == [shown : BOOLEAN, canHold : BOOLEAN, given : Nat]
GenerationType == [open : BOOLEAN, hold : BOOLEAN, turns : Nat]
SeenType == [p : PlayerType, causes : Seq(Causes), new : GenerationType]

LEMMA SeenIs ==
    ASSUME NEW p \in PlayerType, NEW c \in Seq(Causes), NEW n \in GenerationType
    PROVE  [p |-> p, causes |-> c, new |-> n] \in SeenType
BY DEF SeenType

LEMMA SeenParts ==
    ASSUME NEW s \in SeenType
    PROVE  /\ s.p \in PlayerType /\ s.causes \in Seq(Causes) /\ s.new \in GenerationType
           /\ s = [p |-> s.p, causes |-> s.causes, new |-> s.new]
BY DEF SeenType

LEMMA TurnedIs ==
    ASSUME NEW p \in PlayerType, NEW n \in Nat
    PROVE  Turned(p, n) \in PlayerType /\ PredictHold(p) \in PlayerType
<1> DEFINE g == Least(p.given + n, 2)
<1>1. g \in Nat
  BY DEF PlayerType, Least
<1>2. Turned(p, n) = [p EXCEPT !.given = g]
  BY DEF Turned, PlayerType
<1> HIDE DEF g
<1> QED BY <1>1, <1>2 DEF PlayerType, PredictHold

LEMMA FinishedIs ==
    ASSUME NEW s \in SeenType
    PROVE  Finished(s) \in SeenType
<1> DEFINE a == IF s.new.hold THEN PredictHold(s.p) ELSE s.p
           p == Turned(a, s.new.turns)
           c == s.causes
<1>1. s.p \in PlayerType /\ c \in Seq(Causes) /\ s.new \in GenerationType /\ s.new.turns \in Nat
  BY SeenParts DEF GenerationType
<1>2. a \in PlayerType
  BY <1>1, TurnedIs
<1> HIDE DEF a
<1>3. p \in PlayerType
  BY <1>1, <1>2, TurnedIs
<1>4. Finished(s) = [p |-> p, causes |-> c, new |-> NoGeneration]
  <2>1. Finished(s) = [s EXCEPT !.p = p, !.new = NoGeneration]
    BY SeenParts DEF Finished, a
  <2> HIDE DEF p
  <2> QED BY <2>1, SeenParts
<1>5. NoGeneration \in GenerationType
  BY DEF NoGeneration, GenerationType
<1> HIDE DEF p, c
<1> QED BY <1>1, <1>3, <1>4, <1>5, SeenIs

LEMMA PredictActionIs ==
    ASSUME NEW s \in SeenType, NEW action
    PROVE  PredictAction(s, action) \in SeenType
<1> DEFINE t == Finished(s)
           brought == action.do = "hardDrop" \/ (action.do = "hold" /\ t.p.canHold)
           turns == Turns(action)
           n1 == [s.new EXCEPT !.hold = TRUE]
           n2 == [s.new EXCEPT !.turns = turns]
           p3 == Turned(t.p, turns)
           p4 == [t.p EXCEPT !.canHold = action.do = "hardDrop", !.given = 0]
           c4 == Append(t.causes, action.do)
           n4 == [t.new EXCEPT !.open = TRUE]
<1>1. turns \in Nat
  BY DEF Turns
<1>2. t \in SeenType
  BY FinishedIs
<1>3. /\ PredictAction(s, action) =
            IF s.new.open /\ action.do = "hold" THEN [s EXCEPT !.new.hold = TRUE]
            ELSE IF s.new.open /\ action.do = "rotate" THEN [s EXCEPT !.new.turns = turns]
            ELSE IF action.do = "rotate" THEN [t EXCEPT !.p = Turned(@, turns)]
            ELSE IF brought
            THEN [t EXCEPT !.p = [@ EXCEPT !.canHold = action.do = "hardDrop", !.given = 0],
                           !.causes = Append(@, action.do), !.new.open = TRUE]
            ELSE t
  BY DEF PredictAction
<1> HIDE DEF t, turns
<1>4. [s EXCEPT !.new.hold = TRUE] \in SeenType
  <2>1. [s EXCEPT !.new.hold = TRUE] = [s EXCEPT !.new = n1]
    OBVIOUS
  <2>2. n1 \in GenerationType
    BY SeenParts DEF GenerationType
  <2> HIDE DEF n1
  <2> QED BY <2>1, <2>2 DEF SeenType
<1>5. [s EXCEPT !.new.turns = turns] \in SeenType
  <2>1. [s EXCEPT !.new.turns = turns] = [s EXCEPT !.new = n2]
    OBVIOUS
  <2>2. n2 \in GenerationType
    BY <1>1, SeenParts DEF GenerationType
  <2> HIDE DEF n2
  <2> QED BY <2>1, <2>2 DEF SeenType
<1>6. [t EXCEPT !.p = Turned(@, turns)] \in SeenType
  <2>1. [t EXCEPT !.p = Turned(@, turns)] = [t EXCEPT !.p = p3]
    BY <1>2 DEF SeenType
  <2>2. p3 \in PlayerType
    BY <1>1, <1>2, SeenParts, TurnedIs
  <2> HIDE DEF p3
  <2> QED BY <1>2, <2>1, <2>2 DEF SeenType
<1>7. ASSUME brought
      PROVE  [t EXCEPT !.p = [@ EXCEPT !.canHold = action.do = "hardDrop", !.given = 0],
                       !.causes = Append(@, action.do), !.new.open = TRUE] \in SeenType
  <2>1. /\ t.p \in PlayerType /\ t.causes \in Seq(Causes) /\ t.new \in GenerationType
        /\ t = [p |-> t.p, causes |-> t.causes, new |-> t.new]
    BY <1>2, SeenParts
  <2>2. p4 \in PlayerType
    BY <2>1 DEF PlayerType
  <2>3. c4 \in Seq(Causes)
    <3>1. action.do \in Causes
      BY <1>7 DEF Causes
    <3> QED BY <2>1, <3>1
  <2>4. n4 \in GenerationType
    BY <2>1 DEF GenerationType
  <2>5. [t EXCEPT !.p = [@ EXCEPT !.canHold = action.do = "hardDrop", !.given = 0],
                  !.causes = Append(@, action.do), !.new.open = TRUE]
          = [t EXCEPT !.p = p4, !.causes = c4, !.new = n4]
    BY <2>1
  <2> HIDE DEF p4, c4, n4
  <2> QED BY <1>2, <2>2, <2>3, <2>4, <2>5 DEF SeenType
<1> HIDE DEF brought
<1> QED BY <1>2, <1>3, <1>4, <1>5, <1>6, <1>7

\* predictPlayerActions
LEMMA PredictedIs ==
    ASSUME NEW p \in PlayerType, NEW actions, Len(actions) \in Nat
    PROVE  Predicted(p, actions) \in SeenType
<1> DEFINE start == [p |-> p, causes |-> <<>>, new |-> NoGeneration]
           N == Len(actions)
           S == SeenType
           Solves(f) == f = [n \in 0 .. N |-> IF n = 0 THEN start
                                              ELSE PredictAction(f[n - 1], actions[n])]
           F == CHOOSE f : Solves(f)
           g == [n \in 1 .. N |-> [x \in S |-> PredictAction(x, actions[n])]]
<1>1. Predicted(p, actions) = IF ~p.shown THEN start ELSE Finished(F[N])
  BY DEF Predicted, Looped
<1>2. start \in S
  <2> DEFINE none == <<>>
  <2>1. none \in Seq(Causes)
    OBVIOUS
  <2>2. start = [p |-> p, causes |-> none, new |-> NoGeneration]
    OBVIOUS
  <2>3. NoGeneration \in GenerationType
    BY DEF NoGeneration, GenerationType
  <2> HIDE DEF none, start
  <2> QED BY <2>1, <2>2, <2>3, SeenIs
<1> HIDE DEF start
<1>3. \A x \in S, n \in 1 .. N : PredictAction(x, actions[n]) \in S
  BY PredictActionIs
<1> HIDE DEF S
<1>4. g \in [1 .. N -> [S -> S]]
  BY <1>3
<1>5. \A n \in 1 .. N : \A x \in S : g[n][x] = PredictAction(x, actions[n])
  OBVIOUS
<1> HIDE DEF g
<1>6. PICK f \in [0 .. N -> S] : f[0] = start /\ \A n \in 1 .. N : f[n] = g[n][f[n - 1]]
  <2>1. HasRun(S, start, N, g)
    BY <1>2, <1>4, Iteration
  <2> QED BY <2>1 DEF HasRun
<1>7. Solves(f)
  <2>1. ASSUME NEW n \in 0 .. N
        PROVE  f[n] = IF n = 0 THEN start ELSE PredictAction(f[n - 1], actions[n])
    <3>1. CASE n = 0
      BY <3>1, <1>6
    <3>2. CASE n # 0
      <4>1. n \in 1 .. N /\ n - 1 \in 0 .. N
        BY <3>2
      <4>2. f[n] = g[n][f[n - 1]] /\ f[n - 1] \in S
        BY <4>1, <1>6
      <4> QED BY <3>2, <4>1, <4>2, <1>5
    <3> QED BY <3>1, <3>2
  <2> QED BY <1>6, <2>1
<1>8. Solves(F)
  BY <1>7
<1> HIDE DEF F
<1>9. \A n \in 0 .. N : F[n] = IF n = 0 THEN start ELSE PredictAction(F[n - 1], actions[n])
  BY <1>8
<1>10. F[N] \in S
  <2> DEFINE P == {n \in Nat : n <= N => F[n] \in S}
  <2>1. 0 \in P
    BY <1>2, <1>9
  <2>2. ASSUME NEW n \in Nat, n \in P PROVE n + 1 \in P
    <3> SUFFICES ASSUME n + 1 <= N PROVE F[n + 1] \in S
      OBVIOUS
    <3>1. n + 1 \in 1 .. N /\ n + 1 \in 0 .. N /\ n + 1 # 0 /\ (n + 1) - 1 = n /\ F[n] \in S
      BY <2>2
    <3>2. F[n + 1] = PredictAction(F[n], actions[n + 1])
      BY <1>9, <3>1
    <3> QED BY <1>3, <3>1, <3>2
  <2> HIDE DEF P
  <2>3. \A n \in Nat : n \in P
    BY <2>1, <2>2, SetInduction
  <2> QED BY <2>3 DEF P
<1>11. Finished(F[N]) \in S
  BY <1>10, FinishedIs DEF S
<1> QED BY <1>1, <1>2, <1>11 DEF S

\* #send
Told(e) == [e : Continues(e), p : PlayerType]
LEMMA BroughtIs ==
    ASSUME handling \in Settings, clock \in Nat, NEW e, NEW s \in Told(e), NEW cause
    PROVE  Brought(s, cause) \in Told(e)
<1> DEFINE r == NotifySpawned(s.e, cause)
           predicted == Predicted(s.p, r.out)
           held == NotifySpawned(r.e, "hold")
           last == Predicted(predicted.p, held.out)
<1>1. s.e \in Continues(e) /\ s.p \in PlayerType
  BY DEF Told
<1>2. r \in Reach(e)
  BY <1>1, NotifySpawnedIs
<1>3. Brought(s, cause) = IF predicted.causes = <<>> THEN [e |-> r.e, p |-> predicted.p]
                          ELSE [e |-> held.e, p |-> last.p]
  BY DEF Brought, HeldToo
<1> HIDE DEF r
<1>4. r.e \in Continues(e) /\ Len(r.out) \in Nat
  BY <1>2, ContinuesReach, ReachParts
<1>5. predicted \in SeenType
  BY <1>1, <1>4, PredictedIs
<1>6. held \in Reach(e)
  BY <1>4, NotifySpawnedIs
<1> HIDE DEF predicted, held
<1>7. held.e \in Continues(e) /\ Len(held.out) \in Nat /\ predicted.p \in PlayerType
  BY <1>5, <1>6, ContinuesReach, ReachParts, SeenParts
<1>8. last \in SeenType
  BY <1>7, PredictedIs
<1> HIDE DEF last
<1>9. last.p \in PlayerType
  BY <1>8, SeenParts
<1> QED BY <1>3, <1>4, <1>7, <1>9 DEF Told

LEMMA SentIs ==
    ASSUME handling \in Settings, clock \in Nat, NEW e, NEW r \in Reach(e),
           NEW p \in PlayerType
    PROVE  Sent(r, p).e \in Continues(e) /\ Sent(r, p).p \in PlayerType
<1> DEFINE predicted == Predicted(p, r.out)
           causes == predicted.causes
           start == [e |-> r.e, p |-> predicted.p]
           N == Len(causes)
           S == Told(e)
           Solves(f) == f = [n \in 0 .. N |-> IF n = 0 THEN start
                                              ELSE Brought(f[n - 1], causes[n])]
           F == CHOOSE f : Solves(f)
           g == [n \in 1 .. N |-> [x \in S |-> Brought(x, causes[n])]]
<1>1. Sent(r, p) = F[N]
  BY DEF Sent, Looped
<1>2. predicted \in SeenType
  BY ReachParts, PredictedIs
<1> HIDE DEF predicted
<1>3. N \in Nat /\ start \in S
  BY <1>2, SeenParts, ContinuesReach DEF Told
<1> HIDE DEF start, causes
<1>4. \A x \in S, n \in 1 .. N : Brought(x, causes[n]) \in S
  BY BroughtIs
<1> HIDE DEF S
<1>5. g \in [1 .. N -> [S -> S]]
  BY <1>4
<1>6. \A n \in 1 .. N : \A x \in S : g[n][x] = Brought(x, causes[n])
  OBVIOUS
<1> HIDE DEF g
<1>7. PICK f \in [0 .. N -> S] : f[0] = start /\ \A n \in 1 .. N : f[n] = g[n][f[n - 1]]
  <2>1. HasRun(S, start, N, g)
    BY <1>3, <1>5, Iteration
  <2> QED BY <2>1 DEF HasRun
<1>8. Solves(f)
  <2>1. ASSUME NEW n \in 0 .. N
        PROVE  f[n] = IF n = 0 THEN start ELSE Brought(f[n - 1], causes[n])
    <3>1. CASE n = 0
      BY <3>1, <1>7
    <3>2. CASE n # 0
      <4>1. n \in 1 .. N /\ n - 1 \in 0 .. N
        BY <1>3, <3>2
      <4>2. f[n] = g[n][f[n - 1]] /\ f[n - 1] \in S
        BY <4>1, <1>7
      <4> QED BY <3>2, <4>1, <4>2, <1>6
    <3> QED BY <3>1, <3>2
  <2> QED BY <1>7, <2>1
<1>9. Solves(F)
  BY <1>8
<1> HIDE DEF F
<1>10. \A n \in 0 .. N : F[n] = IF n = 0 THEN start ELSE Brought(F[n - 1], causes[n])
  BY <1>9
<1>11. F[N] \in S
  <2> DEFINE P == {n \in Nat : n <= N => F[n] \in S}
  <2>1. 0 \in P
    BY <1>3, <1>10
  <2>2. ASSUME NEW n \in Nat, n \in P PROVE n + 1 \in P
    <3> SUFFICES ASSUME n + 1 <= N PROVE F[n + 1] \in S
      OBVIOUS
    <3>1. n + 1 \in 1 .. N /\ n + 1 \in 0 .. N /\ n + 1 # 0 /\ (n + 1) - 1 = n /\ F[n] \in S
      BY <1>3, <2>2
    <3>2. F[n + 1] = Brought(F[n], causes[n + 1])
      BY <1>10, <3>1
    <3> QED BY <1>4, <3>1, <3>2
  <2> HIDE DEF P
  <2>3. \A n \in Nat : n \in P
    BY <2>1, <2>2, SetInduction
  <2> QED BY <1>3, <2>3 DEF P
<1> QED BY <1>1, <1>11 DEF S, Told

\* The list of the directions is that of the keys: it has every direction of every key,
\* once, in the order of the keys, and left before right for a key that has both.
Pointed(s, p) == Has(s, p.code) /\ p.way \in Bindings[p.code] \cap Directions
InOrder(s, p, q) ==
    Before(s, p.code, q.code) \/ (p.code = q.code /\ p.way = "left" /\ q.way = "right")
Matched(order, s) ==
    /\ Distinct(order) /\ Distinct(s)
    /\ \A p \in Presses : Has(order, p) <=> Pointed(s, p)
    /\ \A p, q \in Presses : Before(order, p, q) => InOrder(s, p, q)

LEMMA BeforeHas ==
    ASSUME NEW s, NEW x, NEW y, Before(s, x, y)
    PROVE  Has(s, x) /\ Has(s, y)
BY DEF Before, Has

LEMMA OrderedIs ==
    ASSUME NEW o \in Seq(Presses), Distinct(o), NEW code \in Codes, NEW a \in Directions,
           ~Has(o, Press(code, a))
    PROVE  LET q == Ordered(o, code, a)
               x == Press(code, a)
               new == a \in Bindings[code]
           IN  /\ q \in Seq(Presses) /\ Distinct(q)
               /\ \A y : Has(q, y) <=> Has(o, y) \/ (new /\ y = x)
               /\ \A y, z : Before(q, y, z) <=> Before(o, y, z) \/ (new /\ Has(o, y) /\ z = x)
               /\ \A way : way = LastWay(o) => Leading(way, code, a) = LastWay(q)
<1> DEFINE q == Ordered(o, code, a)
           x == Press(code, a)
           new == a \in Bindings[code]
<1>1. CASE new
  <2>1. x \in Presses /\ x.way = a
    BY PressType DEF Press
  <2>2. q = Append(o, x)
    BY <1>1 DEF Ordered
  <2> HIDE DEF x, q
  <2>3. /\ q \in Seq(Presses) /\ Distinct(q) /\ q # <<>> /\ q[Len(q)] = x
        /\ \A y : Has(q, y) <=> Has(o, y) \/ y = x
        /\ \A y, z : Before(q, y, z) <=> Before(o, y, z) \/ (Has(o, y) /\ z = x)
    <3>1. ~Has(o, x)
      BY DEF x
    <3> QED BY <2>1, <2>2, <3>1, AppendedKeepsOrder
  <2>4. LastWay(q) = a /\ \A way : Leading(way, code, a) = a
    BY <1>1, <2>1, <2>3 DEF LastWay, Leading
  <2> QED BY <1>1, <2>3, <2>4 DEF x, q
<1>2. CASE ~new
  BY <1>2 DEF Ordered, Leading
<1> QED BY <1>1, <1>2

\* A key comes down.
LEMMA MatchedDown ==
    ASSUME NEW order \in Seq(Presses), NEW s \in Seq(Codes), Matched(order, s),
           NEW code \in Codes, ~Has(s, code)
    PROVE  LET o == NewOrder(order, code)
               k == Append(s, code)
           IN  /\ o \in Seq(Presses) /\ k \in Seq(Codes) /\ Matched(o, k)
               /\ NewWay(LastWay(order), code) = LastWay(o)
               /\ \A c : Has(k, c) <=> Has(s, c) \/ c = code
<1> DEFINE l == Press(code, "left")
           r == Press(code, "right")
           o1 == Ordered(order, code, "left")
           o == NewOrder(order, code)
           k == Append(s, code)
           B == Bindings[code]
<1>1. o = Ordered(o1, code, "right")
  BY DEF NewOrder
<1>2. l \in Presses /\ r \in Presses /\ l # r /\ "left" \in Directions /\ "right" \in Directions
      /\ l.code = code /\ r.code = code /\ l.way = "left" /\ r.way = "right"
  BY PressType DEF Directions, Press
<1>3. \A p \in Presses : Has(order, p) => Has(s, p.code)
  BY DEF Matched, Pointed
<1>4. ~Has(order, l) /\ ~Has(order, r)
  BY <1>2, <1>3
<1>5. /\ o1 \in Seq(Presses) /\ Distinct(o1)
      /\ \A y : Has(o1, y) <=> Has(order, y) \/ ("left" \in B /\ y = l)
      /\ \A y, z : Before(o1, y, z) <=>
            Before(order, y, z) \/ ("left" \in B /\ Has(order, y) /\ z = l)
      /\ Leading(LastWay(order), code, "left") = LastWay(o1)
  BY <1>2, <1>4, OrderedIs DEF Matched
<1> HIDE DEF o1
<1>6. ~Has(o1, r)
  BY <1>2, <1>4, <1>5
<1>7. /\ o \in Seq(Presses) /\ Distinct(o)
      /\ \A y : Has(o, y) <=> Has(o1, y) \/ ("right" \in B /\ y = r)
      /\ \A y, z : Before(o, y, z) <=>
            Before(o1, y, z) \/ ("right" \in B /\ Has(o1, y) /\ z = r)
      /\ Leading(LastWay(o1), code, "right") = LastWay(o)
  <2> HIDE DEF o
  <2> QED BY <1>1, <1>2, <1>5, <1>6, OrderedIs
<1>8. NewWay(LastWay(order), code) = LastWay(o)
  BY <1>5, <1>7 DEF NewWay
<1>9. /\ k \in Seq(Codes) /\ Distinct(k)
      /\ \A c : Has(k, c) <=> Has(s, c) \/ c = code
      /\ \A c, d : Before(k, c, d) <=> Before(s, c, d) \/ (Has(s, c) /\ d = code)
  BY AppendedKeepsOrder DEF Matched
<1> HIDE DEF o, k, l, r
<1>10. ASSUME NEW p \in Presses PROVE Has(o, p) <=> Pointed(k, p)
  <2>1. p = l <=> p.code = code /\ p.way = "left"
    BY DEF l, Press, Presses
  <2>2. p = r <=> p.code = code /\ p.way = "right"
    BY DEF r, Press, Presses
  <2>3. Has(o, p) <=> Has(order, p) \/ ("left" \in B /\ p = l) \/ ("right" \in B /\ p = r)
    BY <1>5, <1>7
  <2>4. Has(order, p) <=> Pointed(s, p)
    BY DEF Matched
  <2>5. CASE p.code = code
    <3>1. ~Has(s, p.code) /\ Has(k, p.code)
      BY <1>9, <2>5
    <3>2. Pointed(k, p) <=> p.way \in B /\ (p.way = "left" \/ p.way = "right")
      BY <2>5, <3>1 DEF Pointed, Directions
    <3>3. ~Has(order, p)
      BY <2>4, <3>1 DEF Pointed
    <3> QED BY <2>1, <2>2, <2>3, <2>5, <3>2, <3>3
  <2>6. CASE p.code # code
    <3>1. Has(k, p.code) <=> Has(s, p.code)
      BY <1>9, <2>6
    <3> QED BY <2>1, <2>2, <2>3, <2>4, <2>6, <3>1 DEF Pointed
  <2> QED BY <2>5, <2>6
<1>11. ASSUME NEW p \in Presses, NEW q \in Presses, Before(o, p, q) PROVE InOrder(k, p, q)
  <2>1. \/ Before(order, p, q)
        \/ Has(order, p) /\ (q = l \/ q = r)
        \/ p = l /\ q = r
    BY <1>5, <1>7, <1>11
  <2>2. CASE Before(order, p, q)
    <3>1. InOrder(s, p, q)
      BY <2>2 DEF Matched
    <3> QED BY <1>9, <3>1 DEF InOrder
  <2>3. CASE Has(order, p) /\ (q = l \/ q = r)
    <3>1. Has(s, p.code) /\ q.code = code
      BY <1>2, <1>3, <2>3
    <3> QED BY <1>9, <3>1 DEF InOrder
  <2>4. CASE p = l /\ q = r
    BY <1>2, <2>4 DEF InOrder
  <2> QED BY <2>1, <2>2, <2>3, <2>4
<1>12. Matched(o, k)
  BY <1>7, <1>9, <1>10, <1>11 DEF Matched
<1> QED BY <1>7, <1>8, <1>9, <1>12 DEF o, k

\* A key comes up.
LEMMA MatchedUp ==
    ASSUME NEW order \in Seq(Presses), NEW s \in Seq(Codes), Matched(order, s), NEW code \in Codes
    PROVE  LET o == Without(order, code)
               k == RemoveLast(s, code)
           IN  /\ o \in Seq(Presses) /\ k \in Seq(Codes) /\ Matched(o, k)
               /\ \A c : Has(k, c) <=> Has(s, c) /\ c # code
<1> DEFINE l == Press(code, "left")
           r == Press(code, "right")
           o1 == RemoveLast(order, l)
           o == Without(order, code)
           k == RemoveLast(s, code)
<1>1. o = RemoveLast(o1, r)
  BY DEF Without
<1>2. /\ o1 \in Seq(Presses) /\ Distinct(o1)
      /\ \A y : Has(o1, y) <=> Has(order, y) /\ y # l
      /\ \A y, z : Before(o1, y, z) <=> Before(order, y, z) /\ y # l /\ z # l
  BY RemovedKeepsOrder DEF Matched
<1> HIDE DEF o1, o
<1>3. /\ o \in Seq(Presses) /\ Distinct(o)
      /\ \A y : Has(o, y) <=> Has(o1, y) /\ y # r
      /\ \A y, z : Before(o, y, z) <=> Before(o1, y, z) /\ y # r /\ z # r
  BY <1>1, <1>2, RemovedKeepsOrder
<1>4. /\ k \in Seq(Codes) /\ Distinct(k)
      /\ \A c : Has(k, c) <=> Has(s, c) /\ c # code
      /\ \A c, d : Before(k, c, d) <=> Before(s, c, d) /\ c # code /\ d # code
  BY RemovedKeepsOrder DEF Matched
<1> HIDE DEF k, l, r
<1>5. ASSUME NEW p \in Presses, Has(order, p)
      PROVE  (p # l /\ p # r) <=> p.code # code
  <2>1. p = l <=> p.code = code /\ p.way = "left"
    BY DEF l, Press, Presses
  <2>2. p = r <=> p.code = code /\ p.way = "right"
    BY DEF r, Press, Presses
  <2>3. p.way = "left" \/ p.way = "right"
    BY <1>5 DEF Matched, Pointed, Directions
  <2> QED BY <2>1, <2>2, <2>3
<1>6. ASSUME NEW p \in Presses PROVE Has(o, p) <=> Pointed(k, p)
  <2>1. Has(order, p) <=> Pointed(s, p)
    BY DEF Matched
  <2> QED BY <1>2, <1>3, <1>4, <1>5, <2>1 DEF Pointed
<1>7. ASSUME NEW p \in Presses, NEW q \in Presses, Before(o, p, q) PROVE InOrder(k, p, q)
  <2>1. Before(order, p, q) /\ p # l /\ q # l /\ p # r /\ q # r
    BY <1>2, <1>3, <1>7
  <2>2. Has(order, p) /\ Has(order, q)
    BY <2>1, BeforeHas
  <2>3. p.code # code /\ q.code # code
    BY <1>5, <2>1, <2>2
  <2>4. InOrder(s, p, q)
    BY <2>1 DEF Matched
  <2> QED BY <1>4, <2>3, <2>4 DEF InOrder
<1>8. Matched(o, k)
  BY <1>3, <1>4, <1>6, <1>7 DEF Matched
<1> QED BY <1>3, <1>4, <1>8 DEF o, k

\* The newest direction left is a direction, or there is none.
LEMMA LastWayIs ==
    ASSUME NEW order \in Seq(Presses), NEW s, Matched(order, s)
    PROVE  LastWay(order) \in Directions \cup {"none"}
<1>1. CASE order = <<>>
  BY <1>1 DEF LastWay
<1>2. CASE order # <<>>
  <2> DEFINE p == order[Len(order)]
  <2>1. Len(order) \in DOMAIN order /\ p \in Presses
    BY <1>2
  <2>2. Has(order, p)
    BY <2>1 DEF Has
  <2>3. p.way \in Directions
    <3> HIDE DEF p
    <3> QED BY <2>1, <2>2 DEF Matched, Pointed
  <2> QED BY <1>2, <2>3 DEF LastWay
<1> QED BY <1>1, <1>2

\* The newest direction of the engine is that of the newest key with one.
LEMMA NewestIs ==
    ASSUME keys \in Seq(Codes), engine.order \in Seq(Presses), Matched(engine.order, keys),
           engine.active = LastWay(engine.order)
    PROVE  NewestDirection
<1> DEFINE order == engine.order
           n == Len(order)
           p == order[n]
           c == p.code
<1>1. \A i \in DOMAIN keys : keys[i] \in Codes
  OBVIOUS
<1>2. ASSUME NEW d \in Codes, NEW a \in Bindings[d] \cap Directions, Has(keys, d)
      PROVE  Has(order, Press(d, a))
  <2>1. Press(d, a) \in Presses
    BY PressType
  <2>2. Pointed(keys, Press(d, a))
    BY <1>2 DEF Pointed, Press
  <2> QED BY <2>1, <2>2 DEF Matched
<1>3. ASSUME NEW d \in Codes
      PROVE  Way(d) # "none" => Way(d) \in Bindings[d] \cap Directions
  BY DEF Way, Directions
<1>4. ASSUME NEW i \in Pointing
      PROVE  /\ i \in DOMAIN keys /\ keys[i] \in Codes
             /\ Way(keys[i]) \in Bindings[keys[i]] \cap Directions
             /\ Has(order, Press(keys[i], Way(keys[i])))
  <2>1. i \in DOMAIN keys /\ Way(keys[i]) # "none" /\ keys[i] \in Codes
    BY <1>1 DEF Pointing
  <2>2. Has(keys, keys[i])
    BY <2>1 DEF Has
  <2> QED BY <1>2, <1>3, <2>1, <2>2
<1>5. CASE order = <<>>
  <2>1. engine.active = "none"
    BY <1>5 DEF LastWay
  <2>2. \A x : ~Has(order, x)
    BY <1>5 DEF Has
  <2>3. Pointing = {}
    BY <1>4, <2>2
  <2> QED BY <2>1, <2>3 DEF NewestDirection
<1>6. CASE order # <<>>
  <2>1. n \in Nat /\ n \in DOMAIN order /\ p \in Presses /\ \A k \in DOMAIN order : k <= n
    BY <1>6
  <2>2. Has(order, p) /\ engine.active = p.way
    BY <1>6, <2>1 DEF Has, LastWay
  <2> HIDE DEF order, n, p
  <2>3. \A q \in Presses : Has(order, q) /\ q # p => Before(order, q, p)
    <3> TAKE q \in Presses
    <3> HAVE Has(order, q) /\ q # p
    <3>1. PICK k \in DOMAIN order : order[k] = q
      BY DEF Has
    <3>2. k # n /\ k <= n /\ k \in Nat
      BY <2>1, <3>1 DEF p, order
    <3>3. k < n
      BY <2>1, <3>2
    <3> QED BY <2>1, <3>1, <3>3 DEF Before, p
  <2>4. Pointed(keys, p)
    BY <2>1, <2>2 DEF Matched, order
  <2>5. PICK i \in DOMAIN keys : keys[i] = c
    BY <2>4 DEF Pointed, Has
  <2>6. c \in Codes /\ p.way \in Bindings[c] \cap Directions
    BY <1>1, <2>4, <2>5 DEF Pointed
  <2>7. \A q \in Presses : Before(order, q, p) => InOrder(keys, q, p)
    BY <2>1 DEF Matched, order
  <2>8. ~Before(keys, c, c)
    <3>1. Distinct(keys)
      BY DEF Matched
    <3> QED BY <3>1 DEF Before, Distinct
  <2>9. Way(c) = p.way
    <3>1. CASE p.way = "right"
      BY <2>6, <3>1 DEF Way
    <3>2. CASE p.way = "left"
      <4> DEFINE q == Press(c, "right")
      <4>1. ASSUME "right" \in Bindings[c] PROVE FALSE
        <5>1. q \in Presses /\ q # p /\ q.code = c /\ q.way = "right"
          BY <2>6, <3>2, PressType DEF Press, Directions
        <5>2. Has(keys, c)
          BY <2>4 DEF Pointed
        <5>3. Has(order, q)
          BY <1>2, <2>6, <4>1, <5>2 DEF Directions
        <5> HIDE DEF q
        <5>4. InOrder(keys, q, p)
          BY <2>3, <2>7, <5>1, <5>3
        <5> QED BY <2>8, <3>2, <5>1, <5>4 DEF InOrder
      <4> QED BY <2>6, <3>2, <4>1 DEF Way
    <3> QED BY <2>6, <3>1, <3>2 DEF Directions
  <2>10. i \in Pointing
    BY <2>5, <2>6, <2>9 DEF Pointing, Directions
  <2>11. ASSUME NEW j \in Pointing PROVE j <= i
    <3> DEFINE d == keys[j]
               q == Press(d, Way(d))
    <3>1. /\ j \in DOMAIN keys /\ d \in Codes /\ Way(d) \in Bindings[d] \cap Directions
          /\ Has(order, q)
      BY <1>4
    <3>2. i \in Nat /\ j \in Nat
      BY <3>1, <2>5
    <3>3. CASE d = c
      <4>1. i = j
        BY <2>5, <3>1, <3>3 DEF Matched, Distinct
      <4> QED BY <3>2, <4>1
    <3>4. CASE d # c
      <4>1. q \in Presses /\ q.code = d
        BY <3>1, PressType DEF Press
      <4> HIDE DEF q
      <4>2. Before(order, q, p)
        BY <2>3, <3>1, <3>4, <4>1
      <4>3. Before(keys, d, c)
        BY <2>7, <3>4, <4>1, <4>2 DEF InOrder
      <4>4. PICK x \in DOMAIN keys, y \in DOMAIN keys : x < y /\ keys[x] = d /\ keys[y] = c
        BY <4>3 DEF Before
      <4>5. x = j /\ y = i
        BY <2>5, <3>1, <4>4 DEF Matched, Distinct
      <4> QED BY <3>2, <4>4, <4>5
    <3> QED BY <3>3, <3>4
  <2> QED BY <2>2, <2>5, <2>9, <2>10, <2>11 DEF NewestDirection
<1> QED BY <1>5, <1>6

\* The directions of the engine are those of the keys, it shifts in the newest of them, and
\* what it shifts goes on.
HandlingInv ==
    /\ clock \in Nat /\ handling \in Settings
    /\ engine \in EngineType /\ player \in PlayerType /\ keys \in Seq(Codes)
    /\ Shifting(engine) /\ engine.active = LastWay(engine.order)
    /\ Matched(engine.order, keys)
    /\ \A c : c \in engine.pressed <=> Has(keys, c)
    /\ engine.pressed \subseteq down

\* An engine that has the keys s.
Leads(e, s) ==
    /\ e \in EngineType /\ Shifting(e) /\ e.active = LastWay(e.order)
    /\ Matched(e.order, s) /\ \A c : c \in e.pressed <=> Has(s, c)

LEMMA ContinuesLeads ==
    ASSUME NEW e, NEW s, Leads(e, s), NEW q \in Continues(e)
    PROVE  Leads(q, s) /\ q.pressed = e.pressed
BY DEF Leads, Continues, SameKeys

\* What is sent leaves the keys as they are.
LEMMA DispatchLeads ==
    ASSUME handling \in Settings, clock \in Nat, player \in PlayerType, NEW p \in PlayerType,
           NEW s, NEW e, Leads(e, s), NEW r \in Reach(e), Dispatch(r, p)
    PROVE  Leads(engine', s) /\ engine'.pressed = e.pressed /\ player' \in PlayerType
<1> DEFINE x == Sent(r, p)
<1>1. engine' = x.e /\ player' = x.p
  BY DEF Dispatch
<1>2. x.e \in Continues(e) /\ x.p \in PlayerType
  BY SentIs
<1> HIDE DEF x
<1> QED BY <1>1, <1>2, ContinuesLeads

LEMMA StandsReach ==
    ASSUME NEW r, NEW pressed, NEW order, NEW way, Stands(r, pressed, order, way)
    PROVE  r \in Reach(r.e)
BY DEF Stands, Reach, SameKeys

\* A key that comes down, in the engine and its buffer.
LEMMA DownLeads ==
    ASSUME handling \in Settings, clock \in Nat, NEW e, NEW s \in Seq(Codes), Leads(e, s),
           NEW code \in Codes, code \notin e.pressed
    PROVE  LET r == EngineDown(BufferDown(e, code), code)
           IN  r \in Reach(r.e) /\ Leads(r.e, Append(s, code))
               /\ r.e.pressed = e.pressed \cup {code} /\ Append(s, code) \in Seq(Codes)
<1> DEFINE b == BufferDown(e, code)
           r == EngineDown(b, code)
           order == e.order
           o == NewOrder(order, code)
           w == NewWay(e.active, code)
           k == Append(s, code)
           p == e.pressed \cup {code}
<1>1. b \in Continues(e) /\ e \in EngineType /\ order \in Seq(Presses)
  BY BufferDownIs DEF Leads, EngineType
<1> HIDE DEF b
<1>2. b \in EngineType /\ Shifting(b) /\ b.pressed = e.pressed /\ b.order = order
      /\ b.active = e.active
  BY <1>1 DEF Continues, SameKeys
<1>3. Stands(r, p, o, w)
  BY <1>2, EngineDownIs
<1> HIDE DEF r
<1>4. /\ k \in Seq(Codes) /\ Matched(o, k) /\ NewWay(LastWay(order), code) = LastWay(o)
      /\ \A c : Has(k, c) <=> Has(s, c) \/ c = code
  <2>1. Matched(order, s) /\ ~Has(s, code)
    BY DEF Leads
  <2> HIDE DEF order
  <2> QED BY <1>1, <2>1, MatchedDown
<1>5. w = LastWay(o)
  BY <1>4 DEF Leads
<1> HIDE DEF o, w, k
<1>6. Leads(r.e, k)
  <2>1. \A c : c \in r.e.pressed <=> Has(k, c)
    BY <1>3, <1>4 DEF Leads, Stands
  <2>2. r.e \in EngineType
    BY <1>3, ResultParts DEF Stands
  <2> QED BY <1>3, <1>4, <1>5, <2>1, <2>2 DEF Leads, Stands
<1>7. r \in Reach(r.e) /\ r.e.pressed = p
  BY <1>3, StandsReach DEF Stands
<1> QED BY <1>4, <1>6, <1>7 DEF r, b, k

\* A key that comes up; one the engine does not know changes nothing of the keys.
LEMMA UpLeads ==
    ASSUME handling \in Settings, clock \in Nat, NEW e, NEW s \in Seq(Codes), Leads(e, s),
           NEW code \in Codes
    PROVE  LET r == EngineUp(BufferUp(e, code), code)
           IN  r \in Reach(r.e) /\ Leads(r.e, RemoveLast(s, code))
               /\ r.e.pressed = e.pressed \ {code} /\ RemoveLast(s, code) \in Seq(Codes)
<1> DEFINE b == BufferUp(e, code)
           r == EngineUp(b, code)
           order == e.order
           o == Without(order, code)
           w == LastWay(o)
           k == RemoveLast(s, code)
           p == e.pressed \ {code}
<1>1. b \in Continues(e) /\ e \in EngineType /\ order \in Seq(Presses)
  BY BufferUpIs DEF Leads, EngineType
<1> HIDE DEF b
<1>2. b \in EngineType /\ Shifting(b) /\ b.pressed = e.pressed /\ b.order = order
      /\ b.active = e.active
  BY <1>1 DEF Continues, SameKeys
<1>3. /\ o \in Seq(Presses) /\ k \in Seq(Codes) /\ Matched(o, k)
      /\ \A c : Has(k, c) <=> Has(s, c) /\ c # code
  <2>1. Matched(order, s)
    BY DEF Leads
  <2> HIDE DEF order
  <2> QED BY <1>1, <2>1, MatchedUp
<1>4. CASE code \in e.pressed
  <2>1. w \in Directions \cup {"none"}
    <3> HIDE DEF o
    <3> QED BY <1>3, LastWayIs
  <2>2. Stands(r, p, o, w)
    BY <1>2, <1>4, <2>1, EngineUpIs
  <2> HIDE DEF r, o, k
  <2>3. \A c : c \in r.e.pressed <=> Has(k, c)
    BY <1>3, <2>2 DEF Leads, Stands
  <2>4. r.e \in EngineType
    BY <2>2, ResultParts DEF Stands
  <2>5. Leads(r.e, k)
    BY <1>3, <2>2, <2>3, <2>4 DEF Leads, Stands
  <2>6. r \in Reach(r.e) /\ r.e.pressed = p
    BY <2>2, StandsReach DEF Stands
  <2> QED BY <1>3, <2>5, <2>6 DEF r, b, k
<1>5. CASE code \notin e.pressed
  <2>1. r = Advanced(b, clock)
    BY <1>2, <1>5 DEF EngineUp
  <2>2. r \in Reach(b)
    BY <1>2, <2>1, AdvancedIs
  <2>3. ~Has(s, code)
    BY <1>5 DEF Leads
  <2>4. k = s
    BY <2>3, RemoveLastIs
  <2> HIDE DEF r, k
  <2>5. r.e \in Continues(b) /\ r \in Reach(r.e)
    BY <2>2, ContinuesReach DEF Reach, SameKeys
  <2>6. Leads(b, s)
    BY <1>1, ContinuesLeads
  <2>7. Leads(r.e, s) /\ r.e.pressed = b.pressed
    BY <2>5, <2>6, ContinuesLeads
  <2>8. r.e.pressed = p
    BY <1>2, <1>5, <2>7
  <2> QED BY <2>4, <2>5, <2>7, <2>8 DEF r, b, k
<1> QED BY <1>4, <1>5

LEMMA HandlingInvParts ==
    HandlingInv <=> /\ clock \in Nat /\ handling \in Settings /\ player \in PlayerType
                    /\ keys \in Seq(Codes) /\ Leads(engine, keys) /\ engine.pressed \subseteq down
BY DEF HandlingInv, Leads

\* An engine without keys.
LEMMA EmptyLeads ==
    ASSUME NEW e \in EngineType, Shifting(e), e.pressed = {}, e.order = <<>>, e.active = "none"
    PROVE  Leads(e, <<>>)
<1> DEFINE none == <<>>
<1>1. /\ \A x : ~Has(none, x)
      /\ \A x, y : ~Before(none, x, y)
      /\ Distinct(none)
  BY DEF Has, Before, Distinct
<1>2. LastWay(none) = "none"
  BY DEF LastWay
<1>3. e.order = none
  OBVIOUS
<1> HIDE DEF none
<1>4. Matched(none, none)
  BY <1>1 DEF Matched, Pointed
<1>5. Leads(e, none)
  BY <1>1, <1>2, <1>3, <1>4 DEF Leads
<1> QED BY <1>5 DEF none

LEMMA HandlingInitially == HandlingInit => HandlingInv
<1> SUFFICES ASSUME HandlingInit PROVE HandlingInv
  OBVIOUS
<1> DEFINE none == <<>>
           zero == [a \in Actions |-> 0]
<1>1. none \in Seq(Presses) /\ none \in Seq(Causes) /\ none \in Seq(Codes)
      /\ zero \in [Actions -> Nat]
  OBVIOUS
<1>2. engine = [now |-> 0, pressed |-> {}, held |-> zero, order |-> none,
                active |-> "none", charged |-> FALSE, nextShift |-> Never, nextDrop |-> Never,
                blocked |-> 0, skipped |-> FALSE,
                rotations |-> none, tapHold |-> FALSE, tapRotation |-> "none", prepared |-> none]
  BY DEF HandlingInit
<1> HIDE DEF none, zero
<1>3. engine \in EngineType
  BY <1>1, <1>2 DEF EngineType, Times, Causes
<1>4. engine.active = "none" /\ engine.nextShift = Never /\ engine.pressed = {}
      /\ engine.order = none
  BY <1>2
<1>5. Leads(engine, none)
  BY <1>3, <1>4, EmptyLeads DEF Shifting, none
<1>6. player \in PlayerType
  BY DEF HandlingInit, PlayerType
<1>7. clock \in Nat /\ handling \in Settings /\ keys = none
  BY DEF HandlingInit, none
<1> QED BY <1>1, <1>4, <1>5, <1>6, <1>7, HandlingInvParts

\* The settings stay: what the next state has to show.
LEMMA NextLeads ==
    ASSUME clock' \in Nat, handling \in Settings, handling' = handling, player' \in PlayerType,
           keys' \in Seq(Codes), Leads(engine', keys'), engine'.pressed \subseteq down'
    PROVE  HandlingInv'
BY DEF HandlingInv, Leads, Shifting

\* Every action keeps the invariant.
LEMMA HandlingSteps ==
    ASSUME HandlingInv, [HandlingNext]_handlingVars
    PROVE  HandlingInv'
<1>1. /\ clock \in Nat /\ handling \in Settings /\ player \in PlayerType
      /\ keys \in Seq(Codes) /\ Leads(engine, keys) /\ engine.pressed \subseteq down
      /\ engine \in EngineType /\ Shifting(engine)
  BY HandlingInvParts DEF Leads
<1>2. ASSUME NEW code \in Codes, KeyDown(code) PROVE HandlingInv'
  <2> DEFINE r == EngineDown(BufferDown(engine, code), code)
             x == Expanded(r)
             k == Append(keys, code)
             e == r.e
  <2>1. /\ code \notin down /\ down' = down \cup {code} /\ keys' = k /\ Dispatch(x, player)
        /\ clock' = clock /\ handling' = handling
    BY <1>2 DEF KeyDown
  <2>2. /\ r \in Reach(e) /\ Leads(e, k) /\ e.pressed = engine.pressed \cup {code}
        /\ k \in Seq(Codes)
    BY <1>1, <2>1, DownLeads
  <2> HIDE DEF r, k, e
  <2>3. x \in Reach(e)
    BY <2>2, ExpandedIs
  <2> HIDE DEF x
  <2>4. Leads(engine', k) /\ engine'.pressed = e.pressed /\ player' \in PlayerType
    BY <1>1, <2>1, <2>2, <2>3, DispatchLeads
  <2> QED BY <1>1, <2>1, <2>2, <2>4, NextLeads
<1>3. ASSUME NEW code \in Codes, KeyUp(code) PROVE HandlingInv'
  <2> DEFINE r == EngineUp(BufferUp(engine, code), code)
             x == Expanded(r)
             k == RemoveLast(keys, code)
             e == r.e
  <2>1. /\ down' = down \ {code} /\ keys' = k /\ Dispatch(x, player)
        /\ clock' = clock /\ handling' = handling
    BY <1>3 DEF KeyUp
  <2>2. /\ r \in Reach(e) /\ Leads(e, k) /\ e.pressed = engine.pressed \ {code}
        /\ k \in Seq(Codes)
    BY <1>1, UpLeads
  <2> HIDE DEF r, k, e
  <2>3. x \in Reach(e)
    BY <2>2, ExpandedIs
  <2> HIDE DEF x
  <2>4. Leads(engine', k) /\ engine'.pressed = e.pressed /\ player' \in PlayerType
    BY <1>1, <2>1, <2>2, <2>3, DispatchLeads
  <2> QED BY <1>1, <2>1, <2>2, <2>4, NextLeads
<1>4. ASSUME NEW code \in Codes, ReleasedElsewhere(code) PROVE HandlingInv'
  <2>1. /\ ~Has(keys, code) /\ down' = down \ {code} /\ keys' = keys /\ engine' = engine
        /\ clock' = clock /\ handling' = handling /\ player' = player
    BY <1>4 DEF ReleasedElsewhere, Has
  <2>2. code \notin engine.pressed
    BY <1>1, <2>1 DEF Leads
  <2> QED BY <1>1, <2>1, <2>2, NextLeads
<1>5. CASE Blur
  <2> DEFINE none == <<>>
             zero == [a \in Actions |-> 0]
             nobody == {}
             e == [engine EXCEPT !.now = clock, !.pressed = nobody, !.held = zero,
                     !.order = none, !.active = "none", !.charged = FALSE,
                     !.nextShift = Never, !.nextDrop = Never,
                     !.rotations = none, !.tapHold = FALSE, !.tapRotation = "none",
                     !.prepared = none]
  <2>1. engine' = e /\ keys' = none /\ clock' = clock /\ handling' = handling
        /\ player' = player /\ down' = down
    BY <1>5 DEF Blur
  <2>2. /\ none \in Seq(Presses) /\ none \in Seq(Causes) /\ none \in Seq(Codes)
        /\ zero \in [Actions -> Nat] /\ nobody \in SUBSET Codes
    OBVIOUS
  <2> HIDE DEF none, zero, nobody
  <2>3. /\ e \in EngineType /\ e.pressed = nobody /\ e.order = none /\ e.active = "none"
        /\ e.nextShift = Never
    BY <1>1, <2>2 DEF EngineType, Times, Causes
  <2> HIDE DEF e
  <2>4. Leads(e, none) /\ e.pressed \subseteq down
    BY <2>3, EmptyLeads DEF Shifting, none, nobody
  <2> QED BY <1>1, <2>1, <2>2, <2>4, NextLeads
<1>6. CASE AnimationFrame
  <2> DEFINE r == Advanced(engine, clock)
             x == Expanded(r)
  <2>1. /\ down' = down /\ keys' = keys /\ Dispatch(x, player)
        /\ clock' = clock /\ handling' = handling
    BY <1>6 DEF AnimationFrame
  <2>2. r \in Reach(engine)
    BY <1>1, AdvancedIs
  <2> HIDE DEF r
  <2>3. x \in Reach(engine)
    BY <2>2, ExpandedIs
  <2> HIDE DEF x
  <2>4. Leads(engine', keys) /\ engine'.pressed = engine.pressed /\ player' \in PlayerType
    BY <1>1, <2>1, <2>3, DispatchLeads
  <2> QED BY <1>1, <2>1, <2>4, NextLeads
<1>7. CASE Snapshot
  <2>1. /\ down' = down /\ keys' = keys /\ engine' = engine
        /\ clock' = clock /\ handling' = handling
        /\ player' = [player EXCEPT !.shown = TRUE]
    BY <1>7 DEF Snapshot
  <2>2. player' \in PlayerType
    BY <1>1, <2>1 DEF PlayerType
  <2> QED BY <1>1, <2>1, <2>2, NextLeads
<1>8. CASE AutomaticSpawn
  <2> DEFINE x == NotifySpawned(engine, "automatic")
             p == [player EXCEPT !.canHold = TRUE, !.given = 0]
  <2>1. /\ down' = down /\ keys' = keys /\ Dispatch(x, p)
        /\ clock' = clock /\ handling' = handling
    BY <1>8 DEF AutomaticSpawn
  <2>2. engine \in Continues(engine)
    BY <1>1 DEF Continues, SameKeys
  <2>3. x \in Reach(engine)
    BY <1>1, <2>2, NotifySpawnedIs
  <2>4. p \in PlayerType
    BY <1>1 DEF PlayerType
  <2> HIDE DEF x, p
  <2>5. Leads(engine', keys) /\ engine'.pressed = engine.pressed /\ player' \in PlayerType
    BY <1>1, <2>1, <2>3, <2>4, DispatchLeads
  <2> QED BY <1>1, <2>1, <2>5, NextLeads
<1>9. CASE Pass
  <2>1. /\ clock' = clock + 1 /\ handling' = handling /\ engine' = engine
        /\ player' = player /\ down' = down /\ keys' = keys
    BY <1>9 DEF Pass
  <2>2. clock' \in Nat
    BY <1>1, <2>1
  <2> QED BY <1>1, <2>1, <2>2, NextLeads
<1>10. CASE UNCHANGED handlingVars
  <2>1. /\ clock' = clock /\ handling' = handling /\ engine' = engine
        /\ player' = player /\ down' = down /\ keys' = keys
    BY <1>10 DEF handlingVars
  <2> QED BY <1>1, <2>1, NextLeads
<1> QED BY <1>2, <1>3, <1>4, <1>5, <1>6, <1>7, <1>8, <1>9, <1>10 DEF HandlingNext

LEMMA HandlingInvHolds == HandlingSpec => []HandlingInv
BY HandlingInitially, HandlingSteps, PTL DEF HandlingSpec

\* Whatever keys are pressed and released, together or over a loss of the focus, and
\* whatever they are bound to: the piece is shifted in the direction of the newest
\* direction key that is held, and stands still without one.
THEOREM NewestKeyLeads == HandlingSpec => []NewestDirection
<1>1. HandlingInv => NewestDirection
  BY NewestIs DEF HandlingInv, EngineType
<1> QED BY <1>1, HandlingInvHolds, PTL

\* A held direction goes on shifting, whatever happens between its shifts.
THEOREM ShiftIsNeverLost == HandlingSpec => []ShiftGoesOn
<1>1. HandlingInv => ShiftGoesOn
  BY DEF HandlingInv, Shifting, ShiftGoesOn
<1> QED BY <1>1, HandlingInvHolds, PTL

\* Frames in between change nothing of what the keys come to, for any settings and limit.
THEOREM FramesDoNotMatter == HandlingSpec => []FrameRateIndependent
<1>1. ASSUME HandlingInv PROVE FrameRateIndependent
  <2>1. ASSUME NEW t \in engine.now .. clock PROVE t \in Nat /\ t <= clock
    BY <1>1 DEF HandlingInv, EngineType
  <2> QED BY <1>1, <2>1, SplitIsWhole DEF HandlingInv, FrameRateIndependent
<1> QED BY <1>1, HandlingInvHolds, PTL

==============================================================================
