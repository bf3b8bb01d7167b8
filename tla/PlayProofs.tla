----------------------------- MODULE PlayProofs -----------------------------
(***************************************************************************)
(* What a match is made of, proved: the inputs on their way to it, which   *)
(* is MatchInput, and what the simulations make of them, MatchDuel.        *)
(*                                                                         *)
(* MatchInput for any history, frame lag and number of presses, frames and *)
(* connections: its types, the order in which inputs are applied, the      *)
(* numbers of the inputs on their way, and what the browser displays.      *)
(* LineInv puts the applied inputs, the scheduled ones and those on their  *)
(* way on one line: the applied ones of older epochs, then the numbers     *)
(* 0 .. queue.next - 1 of the present one.  StepInv says what a connection *)
(* of each phase may hold, and so that every input on its way is one the   *)
(* queue has not met.  The snapshots on their way are true of the match    *)
(* (SnapshotsInv, ShownInv), the numbers of a connection are those of its  *)
(* key presses (NumberedInv), and the acknowledgement of an input is read  *)
(* before the snapshot that contains it, so that exactly the predictions   *)
(* the snapshot contains are dropped (ToldInv).                            *)
(*                                                                         *)
(* MatchDuel for boards of any size, any sequence, timing, garbage cap and *)
(* number of presses and frames.  Sound says what a player is between two  *)
(* calls: topped out, with a piece that fits, or with one that is due.     *)
(* Three balances of a player, of his cells, his garbage and his pieces,   *)
(* are the same after every input and every end of a frame (Advances), and *)
(* the exchange of a frame only moves what its locks did into the record.  *)
(* DuelInv says that they agree with the record.                           *)
(***************************************************************************)
EXTENDS MatchInput, MatchDuel, ArrayLemmas, FiniteSetTheorems

(******************************** the types ********************************)

Input == [sequence : Nat, epoch : Nat, frame : Nat, act : Nat]
Sending == [epoch : Nat, sequence : Nat, clientFrame : Nat, act : Nat]
Prediction == [sequence : Nat, act : Nat]

StartMessages == [type : {"start"}, epoch : Nat, frame : Nat]
Acknowledgements ==
    [type : {"ack"}, sequence : Nat, status : {"scheduled", "applied", "rejected"}, frame : Nat]
Snapshots == [type : {"snapshot"}, frame : Nat, applied : Nat]
Messages == StartMessages \cup Acknowledgements \cup Snapshots

QueueType == [epoch : Nat, next : Nat, history : Seq(Acknowledgements), scheduled : Seq(Input)]
OutboxType == [on : BOOLEAN, epoch : Nat, next : Nat, frame : Nat, pending : Seq(Prediction)]

TypeOK ==
    /\ generation \in Nat /\ active \in BOOLEAN /\ restoring \in BOOLEAN
    /\ toServer \in Seq(Sending) /\ toClient \in Seq(Messages)
    /\ inputGeneration \in Nat /\ frame \in Nat
    /\ queue \in QueueType /\ applied \in Seq(Input) /\ refused \in BOOLEAN
    /\ acts \in Nat /\ outbox \in OutboxType
    /\ scheduledInputs \in SUBSET (Nat \X Nat) /\ shown \in Nat

LEMMA FreshTypes ==
    /\ \A epoch \in Nat : FreshQueue(epoch) \in QueueType
    /\ NoOutbox \in OutboxType
<1>1. <<>> \in Seq(Acknowledgements) /\ <<>> \in Seq(Input) /\ <<>> \in Seq(Prediction)
  OBVIOUS
<1> QED BY <1>1 DEF FreshQueue, NoOutbox, QueueType, OutboxType

LEMMA MessageTypes ==
    ASSUME TypeOK
    PROVE  /\ \A epoch \in Nat : StartMessage(epoch) \in StartMessages
           /\ Snapshot \in Snapshots
           /\ \A sequence \in Nat, status \in {"scheduled", "applied", "rejected"}, f \in Nat :
                Disposition(sequence, status, f) \in Acknowledgements
           /\ \A sequence \in Nat : Rejected(sequence) \in Acknowledgements
BY DEF TypeOK, StartMessage, StartMessages, Snapshot, Snapshots, Disposition, Acknowledgements,
       Rejected

\* What #remember leaves is what it was given.
LEMMA RememberType ==
    ASSUME NEW history \in Seq(Acknowledgements), NEW entries \in Seq(Acknowledgements),
           ConstantAssumption
    PROVE  /\ Remember(history, entries) \in Seq(Acknowledgements)
           /\ \A i \in DOMAIN Remember(history, entries) :
                Remember(history, entries)[i] \in Range(history) \cup Range(entries)
<1> DEFINE numbers == {entries[i].sequence : i \in DOMAIN entries}
           others == Keep(history, {e \in Range(history) : e.sequence \notin numbers})
           all == others \o entries
           first == Len(all) - HistorySize + 1
<1>1. others \in Seq(Acknowledgements) /\ Range(others) \subseteq Range(history)
  BY KeepType, KeepRange
<1>2. Remember(history, entries) = IF Len(all) > HistorySize THEN SubSeq(all, first, Len(all)) ELSE all
  BY DEF Remember
<1> HIDE DEF others
<1>3. all \in Seq(Acknowledgements)
  BY <1>1
<1>4. ASSUME NEW i \in DOMAIN all PROVE all[i] \in Range(history) \cup Range(entries)
  <2>1. i \in 1 .. (Len(others) + Len(entries))
    BY <1>1
  <2>2. CASE i <= Len(others)
    <3>1. i \in DOMAIN others /\ all[i] = others[i]
      BY <1>1, <2>1, <2>2
    <3> QED BY <1>1, <3>1 DEF Range
  <2>3. CASE ~(i <= Len(others))
    <3>1. i - Len(others) \in DOMAIN entries /\ all[i] = entries[i - Len(others)]
      BY <1>1, <2>1, <2>3
    <3> QED BY <3>1 DEF Range
  <2> QED BY <2>2, <2>3
<1> HIDE DEF all
<1>5. CASE Len(all) > HistorySize
  <2>1. first \in 1 .. Len(all) /\ HistorySize \in Nat
    BY <1>3, <1>5 DEF ConstantAssumption
  <2>2. SubSeq(all, first, Len(all)) \in Seq(Acknowledgements)
    BY <1>3, <2>1
  <2>3. ASSUME NEW i \in DOMAIN SubSeq(all, first, Len(all))
        PROVE  SubSeq(all, first, Len(all))[i] \in Range(history) \cup Range(entries)
    <3>1. first + i - 1 \in DOMAIN all /\ SubSeq(all, first, Len(all))[i] = all[first + i - 1]
      BY <1>3, <2>1, SMTT(20)
    <3> QED BY <1>4, <3>1
  <2> QED BY <1>2, <1>5, <2>2, <2>3
<1>6. CASE ~(Len(all) > HistorySize)
  BY <1>2, <1>3, <1>4, <1>6
<1> QED BY <1>5, <1>6

LEMMA SentType ==
    ASSUME TypeOK, NEW messages \in Seq(Messages), Sent(messages)
    PROVE  toClient' \in Seq(Messages)
BY DEF TypeOK, Sent

LEMMA TypeInit == Init => TypeOK
<1>1. <<>> \in Seq(Sending) /\ <<>> \in Seq(Messages) /\ <<>> \in Seq(Input)
  OBVIOUS
<1> SUFFICES ASSUME Init PROVE TypeOK
  OBVIOUS
<1>2. queue \in QueueType /\ outbox \in OutboxType
  BY FreshTypes DEF Init
<1>3. toServer \in Seq(Sending) /\ toClient \in Seq(Messages) /\ applied \in Seq(Input)
  BY <1>1 DEF Init
<1> QED BY <1>2, <1>3 DEF Init, TypeOK

\* The answer to an input that is not taken.
LEMMA AnswerType ==
    ASSUME TypeOK, NEW input \in Sending
    PROVE  Answer(input) \in Acknowledgements
<1> DEFINE chosen == {e \in Range(queue.history) : e.sequence = input.sequence}
           known == Keep(queue.history, chosen)
<1>1. queue.history \in Seq(Acknowledgements)
  BY DEF TypeOK, QueueType
<1>2. known \in Seq(Acknowledgements)
  BY <1>1, KeepType
<1>3. Rejected(input.sequence) \in Acknowledgements
  BY MessageTypes DEF Sending
<1>4. Answer(input) = IF input.epoch = queue.epoch /\ known # <<>> THEN known[1]
                      ELSE Rejected(input.sequence)
  BY DEF Answer
<1> HIDE DEF known
<1>5. known # <<>> => known[1] \in Acknowledgements
  BY <1>2
<1> QED BY <1>3, <1>4, <1>5

(***************************** what the steps do ***************************)

\* A message goes to the end of the channel.
LEMMA SentOne ==
    ASSUME TypeOK, NEW m \in Messages, Sent(<<m>>)
    PROVE  /\ toClient' \in Seq(Messages)
           /\ \A k \in DOMAIN toClient' :
                \/ k \in DOMAIN toClient /\ toClient'[k] = toClient[k]
                \/ k = Len(toClient) + 1 /\ toClient'[k] = m
           /\ \A k \in DOMAIN toClient : k \in DOMAIN toClient' /\ toClient'[k] = toClient[k]
           /\ active => Len(toClient') = Len(toClient) + 1
BY DEF TypeOK, Sent

\* An input that is taken is the next one, and is due in the next frame.
LEMMA Scheduled ==
    ASSUME TypeOK, ConstantAssumption, NEW input \in Sending, Taken(input), Schedule(input)
    PROVE  LET one == [sequence |-> input.sequence, epoch |-> input.epoch,
                       frame |-> frame + 1, act |-> input.act]
           IN  /\ one \in Input
               /\ queue' \in QueueType
               /\ queue'.epoch = queue.epoch /\ queue'.next = queue.next + 1
               /\ queue'.scheduled = Append(queue.scheduled, one)
               /\ input.epoch = queue.epoch /\ input.sequence = queue.next
               /\ \A i \in DOMAIN queue'.history :
                    \/ queue'.history[i] \in Range(queue.history)
                    \/ queue'.history[i].sequence = queue.next
               /\ Disposition(queue.next, "scheduled", frame + 1) \in Acknowledgements
               /\ Sent(<<Disposition(queue.next, "scheduled", frame + 1)>>)
<1> DEFINE one == [sequence |-> input.sequence, epoch |-> input.epoch,
                   frame |-> frame + 1, act |-> input.act]
           d == Disposition(queue.next, "scheduled", frame + 1)
           h == Remember(queue.history, <<d>>)
<1>1. input.epoch = queue.epoch /\ input.sequence = queue.next
  BY DEF Taken
<1>2. d \in Acknowledgements /\ d.sequence = queue.next
  BY MessageTypes DEF TypeOK, QueueType, Disposition
<1>3. one \in Input
  BY DEF TypeOK, Input, Sending
<1>4. queue' = [queue EXCEPT !.next = @ + 1, !.scheduled = Append(@, one), !.history = h]
      /\ Sent(<<d>>)
  BY <1>1 DEF Schedule
<1> HIDE DEF one, d
<1>5. <<d>> \in Seq(Acknowledgements) /\ Range(<<d>>) = {d}
  BY <1>2 DEF Range
<1>6. queue.history \in Seq(Acknowledgements) /\ queue.scheduled \in Seq(Input) /\ queue.next \in Nat
      /\ queue \in QueueType
  BY DEF TypeOK, QueueType
<1>7. h \in Seq(Acknowledgements) /\ \A i \in DOMAIN h : h[i] \in Range(queue.history) \cup {d}
  BY <1>5, <1>6, RememberType
<1> HIDE DEF h
<1>8. Append(queue.scheduled, one) \in Seq(Input)
  BY <1>3, <1>6
<1>9. queue' \in QueueType /\ queue'.history = h /\ queue'.epoch = queue.epoch
      /\ queue'.next = queue.next + 1 /\ queue'.scheduled = Append(queue.scheduled, one)
  <2> DEFINE longer == Append(queue.scheduled, one)
  <2>1. queue' = [queue EXCEPT !.next = queue.next + 1, !.scheduled = longer, !.history = h]
    BY <1>4
  <2>2. longer \in Seq(Input)
    BY <1>8
  <2>3. queue.next + 1 \in Nat
    BY <1>6
  <2> HIDE DEF longer
  <2>4. queue' \in QueueType /\ queue'.history = h /\ queue'.epoch = queue.epoch
        /\ queue'.next = queue.next + 1 /\ queue'.scheduled = longer
    BY <1>6, <1>7, <2>1, <2>2, <2>3 DEF QueueType
  <2> QED BY <2>4 DEF longer
<1>10. one \in Input /\ queue'.scheduled = Append(queue.scheduled, one)
  BY <1>3, <1>9
<1>11. \A i \in DOMAIN queue'.history :
           queue'.history[i] \in Range(queue.history) \/ queue'.history[i].sequence = queue.next
  BY <1>2, <1>7, <1>9
<1> QED BY <1>1, <1>2, <1>4, <1>9, <1>10, <1>11 DEF one, d

\* The inputs wait for the next frame, all under the epoch of the queue.
WaitsForFrame ==
    \A j \in DOMAIN queue.scheduled :
        queue.scheduled[j].frame = frame + 1 /\ queue.scheduled[j].epoch = queue.epoch

\* A frame drains all of them.
LEMMA Drained ==
    ASSUME TypeOK, ConstantAssumption, WaitsForFrame, Advance
    PROVE  /\ applied' = applied \o queue.scheduled
           /\ queue' \in QueueType
           /\ queue'.epoch = queue.epoch /\ queue'.next = queue.next /\ queue'.scheduled = <<>>
           /\ \A i \in DOMAIN queue'.history :
                \/ queue'.history[i] \in Range(queue.history)
                \/ \E j \in DOMAIN queue.scheduled :
                     queue'.history[i].sequence = queue.scheduled[j].sequence
<1> DEFINE s == queue.scheduled
           due == Keep(s, {input \in Due : input.epoch = queue.epoch})
           settled == [i \in DOMAIN due |-> Disposition(due[i].sequence, "applied", due[i].frame)]
           rest == Keep(s, Range(s) \ Due)
           h == Remember(queue.history, settled)
<1>1. s \in Seq(Input) /\ queue.history \in Seq(Acknowledgements) /\ queue \in QueueType
      /\ frame \in Nat /\ frame' = frame + 1
  BY DEF TypeOK, QueueType, Advance
<1>2. \A x \in Range(s) : x \in Due /\ x.epoch = queue.epoch
  <2> SUFFICES ASSUME NEW j \in DOMAIN s
               PROVE  s[j] \in Due /\ s[j].epoch = queue.epoch
    BY DEF Range
  <2>1. s[j].frame = frame + 1 /\ s[j].epoch = queue.epoch /\ s[j] \in Range(s)
    BY DEF WaitsForFrame, Range
  <2>2. s[j].frame <= frame'
    BY <1>1, <2>1
  <2> QED BY <2>1, <2>2 DEF Due
<1>3. due = s
  <2>1. Range(s) \subseteq {input \in Due : input.epoch = queue.epoch}
    BY <1>2
  <2> QED BY <1>1, <2>1, KeepAll
<1>4. rest = <<>>
  <2>1. Range(s) \cap (Range(s) \ Due) = {}
    BY <1>2
  <2> QED BY <1>1, <2>1, KeepNone
<1>5. applied' = applied \o due
      /\ queue' = [queue EXCEPT !.scheduled = rest, !.history = h]
  BY DEF Advance
<1>6. settled \in Seq(Acknowledgements) /\ DOMAIN settled = DOMAIN s
      /\ \A i \in DOMAIN s : settled[i].sequence = s[i].sequence
  <2>1. ASSUME NEW i \in DOMAIN s
        PROVE  Disposition(s[i].sequence, "applied", s[i].frame) \in Acknowledgements
    <3>1. s[i] \in Input
      BY <1>1
    <3>2. s[i].sequence \in Nat /\ s[i].frame \in Nat
      BY <3>1 DEF Input
    <3> QED BY <3>2 DEF Disposition, Acknowledgements
  <2>2. DOMAIN s = 1 .. Len(s) /\ Len(s) \in Nat
    BY <1>1
  <2>3. settled = [i \in 1 .. Len(s) |-> Disposition(s[i].sequence, "applied", s[i].frame)]
    BY <1>3, <2>2
  <2>4. settled \in [1 .. Len(s) -> Acknowledgements]
    BY <2>1, <2>2, <2>3
  <2>5. settled \in Seq(Acknowledgements)
    <3> HIDE DEF settled
    <3> QED BY <2>2, <2>4
  <2>6. \A i \in DOMAIN s : settled[i].sequence = s[i].sequence
    BY <2>2, <2>3 DEF Disposition
  <2> QED BY <2>2, <2>4, <2>5, <2>6
<1> HIDE DEF due, settled, rest
<1>7. h \in Seq(Acknowledgements) /\ \A i \in DOMAIN h : h[i] \in Range(queue.history) \cup Range(settled)
  BY <1>1, <1>6, RememberType
<1> HIDE DEF h
<1>8. queue' \in QueueType /\ queue'.epoch = queue.epoch /\ queue'.next = queue.next
      /\ queue'.scheduled = <<>> /\ queue'.history = h
  <2>1. <<>> \in Seq(Input)
    OBVIOUS
  <2> QED BY <1>1, <1>4, <1>5, <1>7, <2>1 DEF QueueType
<1>9. ASSUME NEW i \in DOMAIN queue'.history
      PROVE  \/ queue'.history[i] \in Range(queue.history)
             \/ \E j \in DOMAIN s : queue'.history[i].sequence = s[j].sequence
  BY <1>6, <1>7, <1>8 DEF Range
<1> QED BY <1>3, <1>5, <1>8, <1>9

\* What the browser does with a message.
LEMMA ReceiveType ==
    ASSUME TypeOK, Receive
    PROVE  /\ outbox' \in OutboxType /\ scheduledInputs' \in SUBSET (Nat \X Nat) /\ shown' \in Nat
           /\ toClient # <<>> /\ Head(toClient) \in Messages
           /\ toClient' = Tail(toClient) /\ toClient' \in Seq(Messages)
<1> DEFINE message == Head(toClient)
<1>1. toClient # <<>> /\ toClient' = Tail(toClient) /\ toClient \in Seq(Messages)
      /\ toClient' \in Seq(Messages) /\ message \in Messages
  BY DEF TypeOK, Receive
<1>2. outbox \in OutboxType /\ outbox.pending \in Seq(Prediction) /\ outbox.frame \in Nat
      /\ scheduledInputs \in SUBSET (Nat \X Nat) /\ shown \in Nat
  BY DEF TypeOK, OutboxType
<1>3. \/ message.type = "start" /\ ReceiveStart(message)
      \/ message.type = "ack" /\ ReceiveAck(message)
      \/ message.type = "snapshot" /\ ReceiveSnapshot(message)
  BY DEF Receive
<1> HIDE DEF message
<1>4. CASE message.type = "start" /\ ReceiveStart(message)
  <2>1. message \in StartMessages
    BY <1>1, <1>4 DEF Messages, StartMessages, Acknowledgements, Snapshots
  <2>2. message.epoch \in Nat /\ message.frame \in Nat
    BY <2>1 DEF StartMessages
  <2>3. NoOutbox \in OutboxType
    BY FreshTypes
  <2>4. outbox' \in OutboxType /\ scheduledInputs' = {} /\ shown' = 0
    BY <1>4, <2>2, <2>3 DEF ReceiveStart, OutboxType
  <2> QED BY <1>1, <2>4 DEF message
<1>5. CASE message.type = "ack" /\ ReceiveAck(message)
  <2>1. message \in Acknowledgements
    BY <1>1, <1>5 DEF Messages, StartMessages, Acknowledgements, Snapshots
  <2>2. message.sequence \in Nat /\ message.frame \in Nat
    BY <2>1 DEF Acknowledgements
  <2> DEFINE acknowledged == Acknowledge(outbox.pending, message.sequence)
  <2>3. acknowledged \in Seq(Prediction)
    BY <1>2, KeepType DEF Acknowledge
  <2>4. shown' = shown
        /\ IF message.status = "scheduled"
           THEN /\ scheduledInputs' = {s \in scheduledInputs : s[1] # message.sequence}
                                        \cup {<<message.sequence, message.frame>>}
                /\ outbox' = outbox
           ELSE /\ outbox' = [outbox EXCEPT !.pending = acknowledged]
                /\ scheduledInputs' = scheduledInputs
    BY <1>5 DEF ReceiveAck
  <2> HIDE DEF acknowledged
  <2>5. outbox' \in OutboxType
    BY <1>2, <2>3, <2>4 DEF OutboxType
  <2>6. scheduledInputs' \in SUBSET (Nat \X Nat)
    BY <1>2, <2>2, <2>4
  <2> QED BY <1>1, <1>2, <2>4, <2>5, <2>6 DEF message
<1>6. CASE message.type = "snapshot" /\ ReceiveSnapshot(message)
  <2>1. message \in Snapshots
    BY <1>1, <1>6 DEF Messages, StartMessages, Acknowledgements, Snapshots
  <2>2. message.applied \in Nat /\ message.frame \in Nat
    BY <2>1 DEF Snapshots
  <2> DEFINE settled == {s \in scheduledInputs : s[2] <= message.frame}
             left == Keep(outbox.pending, {p \in Range(outbox.pending) :
                                              \A s \in settled : p.sequence > s[1]})
             at == IF outbox.frame < message.frame THEN message.frame ELSE outbox.frame
  <2>3. left \in Seq(Prediction) /\ at \in Nat
    BY <1>2, <2>2, KeepType
  <2>4. outbox' = [outbox EXCEPT !.frame = at, !.pending = left]
        /\ scheduledInputs' = scheduledInputs \ settled /\ shown' = message.applied
    BY <1>6 DEF ReceiveSnapshot
  <2> HIDE DEF left, at
  <2>5. outbox' \in OutboxType
    BY <1>2, <2>3, <2>4 DEF OutboxType
  <2> QED BY <1>1, <1>2, <2>2, <2>4, <2>5 DEF message
<1> QED BY <1>3, <1>4, <1>5, <1>6

LEMMA TypeNext == ASSUME TypeOK, ConstantAssumption, WaitsForFrame, [Next]_vars PROVE TypeOK'
<1>1. ASSUME Start PROVE TypeOK'
  <2>1. StartMessage(queue.epoch) \in Messages
    BY MessageTypes DEF TypeOK, QueueType, Messages
  <2>2. toClient' \in Seq(Messages)
    BY <1>1, <2>1, SentOne DEF Start
  <2> QED BY <1>1, <2>2 DEF Start, TypeOK, connection, client
<1>2. ASSUME Restored PROVE TypeOK'
  <2>1. CASE Started
    <3>1. queue'.epoch \in Nat /\ queue' \in QueueType
      <4>1. queue.epoch \in Nat /\ queue.epoch + 1 \in Nat /\ queue \in QueueType
        BY DEF TypeOK, QueueType
      <4>2. queue' = queue \/ queue' = FreshQueue(queue.epoch + 1)
        BY <1>2, <2>1 DEF Restored, ResetOnResume, Reset
      <4>3. FreshQueue(queue.epoch + 1) \in QueueType
        BY <4>1, FreshTypes
      <4>4. queue' \in QueueType
        BY <4>1, <4>2, <4>3
      <4> QED BY <4>4 DEF QueueType
    <3>2. <<StartMessage(queue'.epoch), Snapshot>> \in Seq(Messages)
      <4>1. StartMessage(queue'.epoch) \in Messages /\ Snapshot \in Messages
        BY <3>1, MessageTypes DEF Messages
      <4> HIDE DEF Messages
      <4> QED BY <4>1
    <3>3. toClient' \in Seq(Messages)
      BY <1>2, <2>1, <3>2, SentType DEF Restored
    <3>4. refused' \in BOOLEAN
      BY <1>2, <2>1 DEF Restored, TypeOK
    <3> QED BY <1>2, <2>1, <3>1, <3>3, <3>4 DEF Restored, TypeOK, client
  <2>2. CASE ~Started
    BY <1>2, <2>2 DEF Restored, TypeOK, client
  <2> QED BY <2>1, <2>2
<1>3. ASSUME ReceiveInput PROVE TypeOK'
  <2> DEFINE input == Head(toServer)
  <2>1. input \in Sending /\ toServer' \in Seq(Sending)
    BY <1>3 DEF ReceiveInput, TypeOK
  <2>2. queue' \in QueueType /\ toClient' \in Seq(Messages) /\ refused' \in BOOLEAN
    <3>1. CASE Taken(input) /\ Schedule(input) /\ UNCHANGED refused
      <4>1. queue' \in QueueType
            /\ Disposition(queue.next, "scheduled", frame + 1) \in Messages
            /\ Sent(<<Disposition(queue.next, "scheduled", frame + 1)>>)
        BY <2>1, <3>1, Scheduled DEF Messages
      <4> QED BY <4>1, <3>1, SentOne DEF TypeOK
    <3>2. CASE Sent(<<Answer(input)>>) /\ refused' = TRUE /\ UNCHANGED queue
      <4>1. Answer(input) \in Messages
        BY <2>1, AnswerType DEF Messages
      <4> QED BY <4>1, <3>2, SentOne DEF TypeOK
    <3>3. CASE Drop
      BY <3>3 DEF Drop, TypeOK
    <3> QED BY <1>3, <3>1, <3>2, <3>3 DEF ReceiveInput, Enqueue
  <2> QED BY <1>3, <2>1, <2>2 DEF ReceiveInput, TypeOK, connection, client
<1>4. ASSUME Advance PROVE TypeOK'
  <2>1. queue' \in QueueType /\ applied' = applied \o queue.scheduled
    BY <1>4, Drained
  <2>2. applied' \in Seq(Input)
    BY <2>1 DEF TypeOK, QueueType
  <2>3. frame' \in Nat
    <3>1. frame \in Nat /\ frame' = frame + 1
      BY <1>4 DEF Advance, TypeOK
    <3> QED BY <3>1
  <2>4. Snapshot' \in Messages
    BY <2>2, <2>3 DEF Snapshot, Messages, Snapshots
  <2>5. toClient' \in Seq(Messages)
    BY <1>4, <2>4, SentOne DEF Advance, TypeOK
  <2> QED BY <1>4, <2>1, <2>2, <2>3, <2>5 DEF Advance, TypeOK, connection, client
<1>5. ASSUME ServerLoses PROVE TypeOK'
  <2>1. <<>> \in Seq(Sending)
    OBVIOUS
  <2> QED BY <1>5, <2>1 DEF ServerLoses, TypeOK, server, client
<1>6. ASSUME ClientLoses PROVE TypeOK'
  <2>1. <<>> \in Seq(Messages) /\ NoOutbox \in OutboxType
    BY FreshTypes
  <2> QED BY <1>6, <2>1 DEF ClientLoses, TypeOK, server, connection
<1>7. ASSUME Resume PROVE TypeOK'
  <2>1. <<>> \in Seq(Messages) /\ <<>> \in Seq(Sending) /\ NoOutbox \in OutboxType
    BY FreshTypes
  <2> QED BY <1>7, <2>1 DEF Resume, TypeOK, server
<1>8. ASSUME Press PROVE TypeOK'
  <2>1. outbox.next \in Nat /\ outbox.epoch \in Nat /\ outbox.frame \in Nat
        /\ outbox \in OutboxType /\ outbox.pending \in Seq(Prediction)
    BY DEF TypeOK, OutboxType
  <2>6. acts' \in Nat /\ outbox.next + 1 \in Nat
    <3>1. acts' = acts + 1 /\ acts \in Nat
      BY <1>8 DEF Press, TypeOK
    <3> QED BY <3>1, <2>1
  <2> DEFINE pending == Append(outbox.pending, [sequence |-> outbox.next, act |-> acts'])
             m == [epoch |-> outbox.epoch, sequence |-> outbox.next,
                   clientFrame |-> outbox.frame, act |-> acts']
  <2>2. pending \in Seq(Prediction) /\ m \in Sending
    BY <2>1, <2>6 DEF Prediction, Sending
  <2>3. outbox' = [outbox EXCEPT !.next = outbox.next + 1, !.pending = pending]
        /\ toServer' = IF active THEN Append(toServer, m) ELSE toServer
    BY <1>8 DEF Press
  <2> HIDE DEF pending, m
  <2>4. outbox' \in OutboxType
    BY <2>1, <2>2, <2>3, <2>6 DEF OutboxType
  <2>5. toServer' \in Seq(Sending)
    BY <2>2, <2>3 DEF TypeOK
  <2> QED BY <1>8, <2>4, <2>5, <2>6 DEF Press, TypeOK, connection, server
<1>9. ASSUME Receive PROVE TypeOK'
  BY <1>9, ReceiveType DEF Receive, TypeOK, connection, server
<1>10. ASSUME UNCHANGED vars PROVE TypeOK'
  BY <1>10 DEF vars, connection, server, client, TypeOK
<1> QED BY <1>1, <1>2, <1>3, <1>4, <1>5, <1>6, <1>7, <1>8, <1>9, <1>10 DEF Next

(************************** the line of the inputs *************************)

\* The inputs that were applied before the queue's epoch began.
Older == Len(applied) + Len(queue.scheduled) - queue.next

\* Those of the epoch follow them, numbered from 0 on, the scheduled ones last.
Placed ==
    /\ 0 <= Older /\ Older <= Len(applied)
    /\ \A i \in 1 .. Len(applied) :
         /\ applied[i].frame <= frame
         /\ i <= Older => applied[i].epoch < queue.epoch
         /\ i > Older => applied[i].epoch = queue.epoch /\ applied[i].sequence = i - Older - 1
    /\ \A j \in 1 .. Len(queue.scheduled) :
         /\ queue.scheduled[j].frame = frame + 1
         /\ queue.scheduled[j].epoch = queue.epoch
         /\ queue.scheduled[j].sequence = Len(applied) - Older + j - 1

\* What was applied before stays as it was applied.
EpochsRise == \A i, j \in 1 .. Len(applied) : i < j =>
                /\ applied[i].epoch <= applied[j].epoch
                /\ applied[i].epoch = applied[j].epoch =>
                       applied[j].sequence = applied[i].sequence + (j - i)

Rising(s) == \A i, j \in 1 .. Len(s) : i < j => s[i].act < s[j].act
Precede(s, t) == \A i \in 1 .. Len(s), j \in 1 .. Len(t) : s[i].act < t[j].act
Made(s) == \A i \in 1 .. Len(s) : s[i].act <= acts

\* From the first that was applied to the last on its way, the inputs are in the order of
\* the key presses.
ActsRise ==
    /\ Rising(applied) /\ Rising(queue.scheduled) /\ Rising(toServer)
    /\ Precede(applied, queue.scheduled) /\ Precede(applied, toServer)
    /\ Precede(queue.scheduled, toServer)
    /\ Made(applied) /\ Made(queue.scheduled) /\ Made(toServer)

\* The queue remembers no number it has not given out.
HistoryIsPast == \A i \in DOMAIN queue.history : queue.history[i].sequence < queue.next

LineInv == Placed /\ EpochsRise /\ ActsRise /\ HistoryIsPast

LEMMA LineTypes ==
    ASSUME TypeOK
    PROVE  /\ queue.epoch \in Nat /\ queue.next \in Nat /\ acts \in Nat /\ frame \in Nat
           /\ queue.scheduled \in Seq(Input) /\ queue.history \in Seq(Acknowledgements)
           /\ applied \in Seq(Input) /\ toServer \in Seq(Sending)
           /\ Len(applied) \in Nat /\ Len(queue.scheduled) \in Nat /\ Len(toServer) \in Nat
           /\ Older \in Int
           /\ \A i \in 1 .. Len(applied) :
                /\ applied[i].act \in Nat /\ applied[i].epoch \in Nat
                /\ applied[i].sequence \in Nat /\ applied[i].frame \in Nat
           /\ \A i \in 1 .. Len(queue.scheduled) :
                /\ queue.scheduled[i].act \in Nat /\ queue.scheduled[i].epoch \in Nat
                /\ queue.scheduled[i].sequence \in Nat /\ queue.scheduled[i].frame \in Nat
           /\ \A i \in 1 .. Len(toServer) :
                /\ toServer[i].act \in Nat /\ toServer[i].epoch \in Nat
                /\ toServer[i].sequence \in Nat
<1>1. /\ queue.epoch \in Nat /\ queue.next \in Nat /\ acts \in Nat /\ frame \in Nat
      /\ queue.scheduled \in Seq(Input) /\ queue.history \in Seq(Acknowledgements)
      /\ applied \in Seq(Input) /\ toServer \in Seq(Sending)
  BY DEF TypeOK, QueueType
<1>2. /\ Len(applied) \in Nat /\ Len(queue.scheduled) \in Nat /\ Len(toServer) \in Nat
      /\ \A i \in 1 .. Len(applied) : applied[i] \in Input
      /\ \A i \in 1 .. Len(queue.scheduled) : queue.scheduled[i] \in Input
      /\ \A i \in 1 .. Len(toServer) : toServer[i] \in Sending
  BY <1>1
<1>3. Older \in Int
  BY <1>1, <1>2 DEF Older
<1> QED BY <1>1, <1>2, <1>3 DEF Input, Sending

LEMMA LineWaits == LineInv => WaitsForFrame
BY SMTT(20) DEF LineInv, Placed, WaitsForFrame

LEMMA LineInit == Init => LineInv
BY DEF Init, FreshQueue, LineInv, Placed, Older, EpochsRise, ActsRise, Rising, Precede, Made,
       HistoryIsPast

\* A step that leaves the queue and what was applied alone.
LEMMA LineStays ==
    ASSUME TypeOK, LineInv, UNCHANGED <<queue, applied, frame>>,
           toServer' \in {<<>>, toServer}, acts' = acts
    PROVE  LineInv'
<1>1. Rising(toServer)' /\ Precede(applied, toServer)' /\ Precede(queue.scheduled, toServer)'
      /\ Made(toServer)'
  BY SMTT(20) DEF LineInv, ActsRise, Rising, Precede, Made
<1> QED BY <1>1 DEF LineInv, Placed, Older, EpochsRise, ActsRise, Rising, Precede, Made, HistoryIsPast

LEMMA LineReset ==
    ASSUME TypeOK, LineInv, queue' = FreshQueue(queue.epoch + 1),
           UNCHANGED <<applied, frame, toServer, acts>>
    PROVE  LineInv'
<1>1. queue'.epoch = queue.epoch + 1 /\ queue'.next = 0 /\ queue'.scheduled = <<>>
      /\ queue'.history = <<>> /\ queue.epoch \in Nat
  BY LineTypes DEF FreshQueue
<1>2. Older' = Len(applied)
  BY <1>1, LineTypes DEF Older
<1>3. ASSUME NEW i \in 1 .. Len(applied) PROVE applied[i].epoch < queue'.epoch
  <2>1. applied[i].epoch \in Nat /\ Older \in Int /\ i \in Int
    BY LineTypes
  <2>2. (i <= Older => applied[i].epoch < queue.epoch) /\ (i > Older => applied[i].epoch = queue.epoch)
    BY DEF LineInv, Placed
  <2> QED BY <1>1, <2>1, <2>2
<1>4. Placed'
  <2>1. /\ Len(applied) \in Nat /\ applied' = applied /\ frame' = frame
        /\ Older' = Len(applied) /\ Len(queue'.scheduled) = 0
    BY <1>1, <1>2, LineTypes
  <2>2. 0 <= Older' /\ Older' <= Len(applied')
    BY <2>1
  <2>3. ASSUME NEW i \in 1 .. Len(applied')
        PROVE  /\ applied'[i].frame <= frame'
               /\ i <= Older' => applied'[i].epoch < queue'.epoch
               /\ i > Older' => applied'[i].epoch = queue'.epoch
                                /\ applied'[i].sequence = i - Older' - 1
    <3>1. i \in 1 .. Len(applied) /\ applied[i].epoch < queue'.epoch /\ i <= Older'
      BY <1>3, <2>1
    <3>2. applied[i].frame <= frame
      BY <3>1 DEF LineInv, Placed
    <3>3. ~(i > Older')
      BY <2>1, <3>1
    <3> QED BY <2>1, <3>1, <3>2, <3>3
  <2>4. 1 .. Len(queue'.scheduled) = {}
    BY <2>1
  <2> QED BY <2>2, <2>3, <2>4 DEF Placed
<1>5. ActsRise'
  BY <1>1 DEF LineInv, ActsRise, Rising, Precede, Made
<1> QED BY <1>1, <1>4, <1>5 DEF LineInv, EpochsRise, HistoryIsPast

LEMMA LinePress == ASSUME TypeOK, LineInv, Press PROVE LineInv'
<1> DEFINE m == [epoch |-> outbox.epoch, sequence |-> outbox.next,
                 clientFrame |-> outbox.frame, act |-> acts']
<1>1. UNCHANGED <<queue, applied, frame>> /\ acts' = acts + 1
      /\ toServer' = IF active THEN Append(toServer, m) ELSE toServer
  BY DEF Press, server
<1>2. m.act = acts + 1 /\ toServer' \in {toServer, Append(toServer, m)}
  BY <1>1
<1> HIDE DEF m
<1>3. Made(applied)' /\ Made(queue.scheduled)'
  <2>1. acts \in Nat /\ \A i \in 1 .. Len(applied) : applied[i].act \in Nat
    BY LineTypes
  <2>2. \A i \in 1 .. Len(queue.scheduled) : queue.scheduled[i].act \in Nat
    BY LineTypes
  <2>3. Made(applied)'
    BY <1>1, <2>1 DEF LineInv, ActsRise, Made
  <2>4. Made(queue.scheduled)'
    BY <1>1, <2>1, <2>2 DEF LineInv, ActsRise, Made
  <2> QED BY <2>3, <2>4
<1>4. ASSUME toServer' = toServer PROVE ActsRise'
  BY <1>1, <1>3, <1>4, LineTypes, SMTT(20) DEF LineInv, ActsRise, Rising, Precede, Made
<1>5. ASSUME toServer' = Append(toServer, m) PROVE ActsRise'
  <2>1. Len(toServer') = Len(toServer) + 1 /\ toServer'[Len(toServer) + 1].act = acts + 1
        /\ \A i \in 1 .. Len(toServer) : toServer'[i] = toServer[i]
    BY <1>2, <1>5, LineTypes
  <2>2. \A i \in 1 .. Len(toServer') : i \in 1 .. Len(toServer) \/ i = Len(toServer) + 1
    <3>1. Len(toServer) \in Nat
      BY LineTypes
    <3> QED BY <2>1, <3>1
  <2>6. acts \in Nat /\ \A i \in 1 .. Len(toServer) : toServer[i].act \in Nat
    BY LineTypes
  <2>7. Made(toServer)'
    BY <1>1, <2>1, <2>2, <2>6 DEF LineInv, ActsRise, Made
  <2>3. Rising(toServer)'
    BY <1>1, <2>1, <2>2, <2>6 DEF LineInv, ActsRise, Rising, Made
  <2>4. Precede(applied, toServer)'
    BY <1>1, <2>1, <2>2, LineTypes DEF LineInv, ActsRise, Precede, Made
  <2>5. Precede(queue.scheduled, toServer)'
    BY <1>1, <2>1, <2>2, LineTypes, SMTT(20) DEF LineInv, ActsRise, Precede, Made
  <2> QED BY <1>1, <1>3, <2>3, <2>4, <2>5, <2>7 DEF LineInv, ActsRise, Rising, Precede
<1>6. ActsRise'
  BY <1>1, <1>2, <1>3, <1>4, <1>5 DEF LineInv, ActsRise, Rising, Precede
<1> QED BY <1>1, <1>6 DEF LineInv, Placed, Older, EpochsRise, HistoryIsPast

\* The first input of the channel is read.
LEMMA Read ==
    ASSUME TypeOK, toServer # <<>>, toServer' = Tail(toServer)
    PROVE  /\ Head(toServer) = toServer[1] /\ 1 \in 1 .. Len(toServer) /\ toServer[1] \in Sending
           /\ Len(toServer') = Len(toServer) - 1
           /\ \A i \in 1 .. Len(toServer') : i + 1 \in 1 .. Len(toServer) /\ 1 < i + 1
                                             /\ toServer'[i] = toServer[i + 1]
BY DEF TypeOK

LEMMA LineRead ==
    ASSUME TypeOK, LineInv, toServer # <<>>, toServer' = Tail(toServer),
           UNCHANGED <<queue, applied, frame, acts>>
    PROVE  LineInv'
<1>1. \A i \in 1 .. Len(toServer') : i + 1 \in 1 .. Len(toServer) /\ toServer'[i] = toServer[i + 1]
  BY Read
<1>2. Rising(toServer)'
  <2> SUFFICES ASSUME NEW i \in 1 .. Len(toServer'), NEW j \in 1 .. Len(toServer'), i < j
               PROVE  toServer'[i].act < toServer'[j].act
    BY DEF Rising
  <2>1. i + 1 < j + 1
    OBVIOUS
  <2> QED BY <1>1, <2>1 DEF LineInv, ActsRise, Rising
<1>3. Precede(applied, toServer)' /\ Precede(queue.scheduled, toServer)' /\ Made(toServer)'
  BY <1>1 DEF LineInv, ActsRise, Precede, Made
<1> QED BY <1>2, <1>3 DEF LineInv, Placed, Older, EpochsRise, ActsRise, Rising, Precede, Made, HistoryIsPast

LEMMA LineScheduled ==
    ASSUME TypeOK, ConstantAssumption, LineInv, toServer # <<>>, toServer' = Tail(toServer),
           Taken(Head(toServer)), Schedule(Head(toServer)), UNCHANGED <<applied, frame, acts>>
    PROVE  LineInv'
<1> DEFINE input == toServer[1]
           one == [sequence |-> input.sequence, epoch |-> input.epoch,
                   frame |-> frame + 1, act |-> input.act]
           s == queue.scheduled
           n == Len(s)
<1>1. Head(toServer) = input /\ input \in Sending /\ 1 \in 1 .. Len(toServer)
      /\ \A i \in 1 .. Len(toServer') : i + 1 \in 1 .. Len(toServer) /\ 1 < i + 1
                                        /\ toServer'[i] = toServer[i + 1]
  BY Read
<1>2. /\ one \in Input /\ queue'.epoch = queue.epoch /\ queue'.next = queue.next + 1
      /\ queue'.scheduled = Append(s, one)
      /\ input.epoch = queue.epoch /\ input.sequence = queue.next
      /\ \A i \in DOMAIN queue'.history :
           \/ queue'.history[i] \in Range(queue.history)
           \/ queue'.history[i].sequence = queue.next
  BY <1>1, Scheduled
<1>3. one.sequence = queue.next /\ one.epoch = queue.epoch /\ one.frame = frame + 1
      /\ one.act = input.act
  BY <1>2
<1> HIDE DEF one, input
<1>4. s \in Seq(Input) /\ n \in Nat /\ Len(applied) \in Nat /\ queue.next \in Nat
  BY LineTypes
<1>5. Len(queue'.scheduled) = n + 1 /\ queue'.scheduled[n + 1] = one
      /\ \A j \in 1 .. n : queue'.scheduled[j] = s[j]
  BY <1>2, <1>4
<1>6. \A j \in 1 .. Len(queue'.scheduled) : j \in 1 .. n \/ j = n + 1
  BY <1>4, <1>5
<1>7. Older' = Older /\ Older = Len(applied) + n - queue.next
  <2>1. Older' = Len(applied) + (n + 1) - (queue.next + 1)
    BY <1>2, <1>5 DEF Older
  <2>2. Older = Len(applied) + n - queue.next
    BY DEF Older
  <2> QED BY <1>4, <2>1, <2>2, SMTT(20)
<1>8. Placed'
  <2>1. \A i \in 1 .. Len(applied') :
           /\ applied'[i].frame <= frame'
           /\ i <= Older' => applied'[i].epoch < queue'.epoch
           /\ i > Older' => applied'[i].epoch = queue'.epoch /\ applied'[i].sequence = i - Older' - 1
    BY <1>2, <1>7 DEF LineInv, Placed
  <2>2. ASSUME NEW j \in 1 .. Len(queue'.scheduled)
        PROVE  /\ queue'.scheduled[j].frame = frame' + 1
               /\ queue'.scheduled[j].epoch = queue'.epoch
               /\ queue'.scheduled[j].sequence = Len(applied') - Older' + j - 1
    <3>1. CASE j \in 1 .. n
      BY <1>2, <1>5, <1>7, <3>1 DEF LineInv, Placed
    <3>2. CASE j = n + 1
      <4>1. queue.next = Len(applied) - Older + (n + 1) - 1
        <5>1. \A q, l, o, m \in Int : q = l - o + m => q = l - o + (m + 1) - 1
          OBVIOUS
        <5> QED BY <1>4, <1>7, <5>1
      <4> QED BY <1>2, <1>3, <1>5, <1>7, <3>2, <4>1
    <3> QED BY <1>6, <3>1, <3>2
  <2> QED BY <1>7, <2>1, <2>2 DEF LineInv, Placed
<1>9. ActsRise'
  <2>1. Rising(applied)' /\ Made(applied)'
    BY DEF LineInv, ActsRise, Rising, Made
  <2>2. Rising(queue.scheduled)'
    <3> SUFFICES ASSUME NEW i \in 1 .. Len(queue'.scheduled),
                        NEW j \in 1 .. Len(queue'.scheduled), i < j
                 PROVE  queue'.scheduled[i].act < queue'.scheduled[j].act
      BY DEF Rising
    <3>1. i \in 1 .. n
      BY <1>4, <1>6
    <3>2. CASE j \in 1 .. n
      BY <1>5, <3>1, <3>2 DEF LineInv, ActsRise, Rising
    <3>3. CASE j = n + 1
      BY <1>1, <1>3, <1>5, <3>1, <3>3 DEF LineInv, ActsRise, Precede, input
    <3> QED BY <1>6, <3>2, <3>3
  <2>3. Rising(toServer)'
    <3> SUFFICES ASSUME NEW i \in 1 .. Len(toServer'), NEW j \in 1 .. Len(toServer'), i < j
                 PROVE  toServer'[i].act < toServer'[j].act
      BY DEF Rising
    <3>1. i + 1 < j + 1
      OBVIOUS
    <3> QED BY <1>1, <3>1 DEF LineInv, ActsRise, Rising
  <2>4. Precede(applied, queue.scheduled)'
    BY <1>1, <1>3, <1>5, <1>6 DEF LineInv, ActsRise, Precede, input
  <2>5. Precede(applied, toServer)' /\ Made(toServer)'
    BY <1>1 DEF LineInv, ActsRise, Precede, Made
  <2>6. Precede(queue.scheduled, toServer)'
    <3> SUFFICES ASSUME NEW i \in 1 .. Len(queue'.scheduled), NEW j \in 1 .. Len(toServer')
                 PROVE  queue'.scheduled[i].act < toServer'[j].act
      BY DEF Precede
    <3>1. CASE i \in 1 .. n
      BY <1>1, <1>5, <3>1 DEF LineInv, ActsRise, Precede
    <3>2. CASE i = n + 1
      BY <1>1, <1>3, <1>5, <3>2 DEF LineInv, ActsRise, Rising, input
    <3> QED BY <1>6, <3>1, <3>2
  <2>7. Made(queue.scheduled)'
    BY <1>1, <1>3, <1>5, <1>6 DEF LineInv, ActsRise, Made, input
  <2> QED BY <2>1, <2>2, <2>3, <2>4, <2>5, <2>6, <2>7 DEF ActsRise
<1>10. EpochsRise'
  BY DEF LineInv, EpochsRise
<1>11. HistoryIsPast'
  <2> SUFFICES ASSUME NEW i \in DOMAIN queue'.history
               PROVE  queue'.history[i].sequence < queue.next + 1
    BY <1>2 DEF HistoryIsPast
  <2>1. CASE queue'.history[i] \in Range(queue.history)
    <3>1. PICK k \in DOMAIN queue.history : queue'.history[i] = queue.history[k]
      BY <2>1 DEF Range
    <3>2. queue.history[k].sequence \in Nat
      <4>1. queue.history \in Seq(Acknowledgements)
        BY LineTypes
      <4>2. queue.history[k] \in Acknowledgements
        BY <4>1
      <4> QED BY <4>2 DEF Acknowledgements
    <3> QED BY <1>4, <3>1, <3>2 DEF LineInv, HistoryIsPast
  <2>2. CASE queue'.history[i].sequence = queue.next
    BY <1>4, <2>2
  <2> QED BY <1>2, <2>1, <2>2
<1> QED BY <1>8, <1>9, <1>10, <1>11 DEF LineInv

LEMMA LineAdvance ==
    ASSUME TypeOK, ConstantAssumption, LineInv, Advance
    PROVE  LineInv'
<1> DEFINE s == queue.scheduled
           n == Len(s)
           a == Len(applied)
<1>1. /\ applied' = applied \o s /\ queue'.epoch = queue.epoch /\ queue'.next = queue.next
      /\ queue'.scheduled = <<>> /\ frame' = frame + 1 /\ toServer' = toServer /\ acts' = acts
      /\ \A i \in DOMAIN queue'.history :
           \/ queue'.history[i] \in Range(queue.history)
           \/ \E j \in DOMAIN s : queue'.history[i].sequence = s[j].sequence
  BY LineWaits, Drained DEF Advance, client
<1>2. s \in Seq(Input) /\ applied \in Seq(Input) /\ n \in Nat /\ a \in Nat /\ queue.next \in Nat
      /\ frame \in Nat /\ Older \in Int /\ toServer \in Seq(Sending)
  BY LineTypes
<1>3. /\ Len(applied') = a + n
      /\ \A i \in 1 .. a : applied'[i] = applied[i]
      /\ \A j \in 1 .. n : applied'[a + j] = s[j]
  BY <1>1, <1>2, SMTT(20)
<1>4. \A i \in 1 .. Len(applied') : i \in 1 .. a \/ \E j \in 1 .. n : i = a + j
  <2> SUFFICES ASSUME NEW i \in 1 .. (a + n), i \notin 1 .. a PROVE \E j \in 1 .. n : i = a + j
    BY <1>3
  <2>1. i - a \in 1 .. n /\ i = a + (i - a)
    BY <1>2
  <2> QED BY <2>1
<1>5. Older' = Older /\ Older = a + n - queue.next
  <2>1. Len(queue'.scheduled) = 0 /\ Older = a + n - queue.next
    BY <1>1 DEF Older
  <2>2. Older' = (a + n) + 0 - queue.next
    BY <1>1, <1>3, <2>1 DEF Older
  <2> QED BY <1>2, <2>1, <2>2
<1>6. 0 <= Older /\ Older <= a
  BY DEF LineInv, Placed
<1>7. Placed'
  <2>1. ASSUME NEW i \in 1 .. Len(applied')
        PROVE  /\ applied'[i].frame <= frame'
               /\ i <= Older' => applied'[i].epoch < queue'.epoch
               /\ i > Older' => applied'[i].epoch = queue'.epoch /\ applied'[i].sequence = i - Older' - 1
    <3>1. CASE i \in 1 .. a
      <4>1. applied[i].frame <= frame /\ applied[i].frame \in Nat
        BY <3>1, LineTypes DEF LineInv, Placed
      <4>2. applied[i].frame <= frame + 1
        BY <1>2, <4>1
      <4> QED BY <1>1, <1>3, <1>5, <3>1, <4>2 DEF LineInv, Placed
    <3>2. ASSUME NEW j \in 1 .. n, i = a + j
          PROVE  /\ applied'[i].frame <= frame'
                 /\ i > Older
                 /\ applied'[i].epoch = queue'.epoch /\ applied'[i].sequence = i - Older' - 1
      <4>1. s[j].frame = frame + 1 /\ s[j].epoch = queue.epoch /\ s[j].sequence = a - Older + j - 1
        BY DEF LineInv, Placed
      <4>4. applied'[a + j] = s[j]
        BY <1>3
      <4>2. applied'[i] = s[j]
        BY <3>2, <4>4
      <4>3. i > Older /\ a - Older + j - 1 = i - Older - 1
        BY <1>2, <1>6, <3>2
      <4> QED BY <1>1, <1>2, <1>5, <4>1, <4>2, <4>3
    <3>3. CASE \E j \in 1 .. n : i = a + j
      BY <1>2, <1>5, <3>2, <3>3
    <3> QED BY <1>4, <3>1, <3>3
  <2>2. 0 <= Older' /\ Older' <= Len(applied')
    BY <1>2, <1>3, <1>5, <1>6
  <2>3. Len(queue'.scheduled) = 0
    BY <1>1
  <2> QED BY <2>1, <2>2, <2>3 DEF Placed
<1>8. ASSUME NEW i \in 1 .. Len(applied'), NEW j \in 1 .. Len(applied'), i < j
      PROVE  applied'[i].act < applied'[j].act
  <2>1. CASE i \in 1 .. a /\ j \in 1 .. a
    BY <1>3, <1>8, <2>1 DEF LineInv, ActsRise, Rising
  <2>2. ASSUME NEW k \in 1 .. n, j = a + k PROVE applied'[i].act < applied'[j].act
    <3>1. CASE i \in 1 .. a
      BY <1>3, <2>2, <3>1 DEF LineInv, ActsRise, Precede
    <3>2. ASSUME NEW l \in 1 .. n, i = a + l PROVE applied'[i].act < applied'[j].act
      <4>1. l < k
        BY <1>2, <1>8, <2>2, <3>2
      <4>2. applied'[a + l] = s[l] /\ applied'[a + k] = s[k]
        BY <1>3
      <4>3. s[l].act < s[k].act
        BY <4>1 DEF LineInv, ActsRise, Rising
      <4> QED BY <2>2, <3>2, <4>2, <4>3
    <3> QED BY <1>4, <3>1, <3>2
  <2>3. CASE i \notin 1 .. a /\ j \in 1 .. a
    BY <1>2, <1>3, <1>8, <2>3
  <2> QED BY <1>4, <2>1, <2>2, <2>3
<1>9. ActsRise'
  <2>1. Rising(applied)'
    BY <1>8 DEF Rising
  <2>2. Precede(applied, toServer)' /\ Made(applied)'
    <3>1. ASSUME NEW i \in 1 .. a PROVE /\ applied'[i].act <= acts'
                                       /\ \A k \in 1 .. Len(toServer') : applied'[i].act < toServer'[k].act
      BY <1>1, <1>3 DEF LineInv, ActsRise, Precede, Made
    <3>2. ASSUME NEW i \in 1 .. n
          PROVE  /\ applied'[a + i].act <= acts'
                 /\ \A k \in 1 .. Len(toServer') : applied'[a + i].act < toServer'[k].act
      BY <1>1, <1>3 DEF LineInv, ActsRise, Precede, Made
    <3> QED BY <1>4, <3>1, <3>2 DEF Precede, Made
  <2>5. Rising(toServer)' /\ Made(toServer)'
    BY <1>1 DEF LineInv, ActsRise, Made, Rising
  <2>3. Len(queue'.scheduled) = 0
    BY <1>1
  <2>4. Rising(queue.scheduled)' /\ Made(queue.scheduled)' /\ Precede(applied, queue.scheduled)'
        /\ Precede(queue.scheduled, toServer)'
    BY <2>3 DEF Rising, Made, Precede
  <2> QED BY <2>1, <2>2, <2>4, <2>5 DEF ActsRise
<1>10. EpochsRise'
  <2> SUFFICES ASSUME NEW i \in 1 .. Len(applied'), NEW j \in 1 .. Len(applied'), i < j
               PROVE  /\ applied'[i].epoch <= applied'[j].epoch
                      /\ applied'[i].epoch = applied'[j].epoch =>
                             applied'[j].sequence = applied'[i].sequence + (j - i)
    BY DEF EpochsRise
  <2>1. CASE i \in 1 .. a /\ j \in 1 .. a
    BY <1>3, <2>1 DEF LineInv, EpochsRise
  <2>2. CASE j \notin 1 .. a
    <3>1. j > Older'
      BY <1>2, <1>3, <1>5, <1>6, <2>2
    <3>2. applied'[j].epoch = queue.epoch /\ applied'[j].sequence = j - Older - 1
      BY <1>1, <1>5, <1>7, <3>1 DEF Placed
    <3>3. CASE i > Older
      <4>1. applied'[i].epoch = queue.epoch /\ applied'[i].sequence = i - Older - 1
        BY <1>1, <1>5, <1>7, <3>3 DEF Placed
      <4>2. queue.epoch \in Nat /\ j - Older - 1 = (i - Older - 1) + (j - i)
        BY <1>2, LineTypes
      <4> QED BY <3>2, <4>1, <4>2
    <3>4. CASE ~(i > Older)
      <4>1. i <= Older /\ i \in 1 .. a
        BY <1>2, <1>3, <1>6, <3>4
      <4>2. applied'[i].epoch < queue.epoch /\ applied'[i].epoch \in Nat /\ queue.epoch \in Nat
        BY <1>3, <4>1, LineTypes DEF LineInv, Placed
      <4> QED BY <3>2, <4>2
    <3> QED BY <3>3, <3>4
  <2>3. CASE i \notin 1 .. a /\ j \in 1 .. a
    BY <1>2, <1>3, <2>3
  <2> QED BY <2>1, <2>2, <2>3
<1>11. HistoryIsPast'
  <2> SUFFICES ASSUME NEW i \in DOMAIN queue'.history
               PROVE  queue'.history[i].sequence < queue.next
    BY <1>1 DEF HistoryIsPast
  <2>1. CASE queue'.history[i] \in Range(queue.history)
    BY <2>1 DEF LineInv, HistoryIsPast, Range
  <2>2. ASSUME NEW j \in DOMAIN s, queue'.history[i].sequence = s[j].sequence
        PROVE  queue'.history[i].sequence < queue.next
    <3>1. j \in 1 .. n
      BY <1>2
    <3>2. s[j].sequence = a - Older + j - 1
      BY <3>1 DEF LineInv, Placed
    <3>3. a - Older + j - 1 < queue.next
      <4>1. a - Older = queue.next - n
        BY <1>2, <1>5, SMTT(20)
      <4>2. j <= n /\ j \in Nat
        BY <1>2, <3>1
      <4> QED BY <1>2, <4>1, <4>2
    <3> QED BY <2>2, <3>2, <3>3
  <2> QED BY <1>1, <2>1, <2>2
<1> QED BY <1>7, <1>9, <1>10, <1>11 DEF LineInv

LEMMA LineNext == ASSUME TypeOK, ConstantAssumption, LineInv, [Next]_vars PROVE LineInv'
<1>1. CASE Start \/ ServerLoses \/ ClientLoses \/ Resume \/ Receive \/ UNCHANGED vars
  BY <1>1, LineStays DEF Start, ServerLoses, ClientLoses, Resume, Receive, vars, connection, server,
                         client
<1>2. CASE Restored
  <2>1. UNCHANGED <<applied, frame, toServer, acts>>
    BY <1>2 DEF Restored, client
  <2>2. queue' = queue \/ queue' = FreshQueue(queue.epoch + 1)
    BY <1>2 DEF Restored, ResetOnResume, Reset
  <2> QED BY <2>1, <2>2, LineStays, LineReset
<1>3. CASE ReceiveInput
  <2>1. toServer # <<>> /\ toServer' = Tail(toServer) /\ UNCHANGED <<applied, frame, acts>>
    BY <1>3 DEF ReceiveInput, client
  <2>2. (Taken(Head(toServer)) /\ Schedule(Head(toServer))) \/ UNCHANGED queue
    BY <1>3 DEF ReceiveInput, Enqueue, Drop
  <2> QED BY <2>1, <2>2, LineRead, LineScheduled
<1>4. CASE Advance
  BY <1>4, LineAdvance
<1>5. CASE Press
  BY <1>5, LinePress
<1> QED BY <1>1, <1>2, <1>3, <1>4, <1>5 DEF Next

\* Every variable has its type: no answer, snapshot or drained input is anything else than
\* what the outbox and MatchInputQueue make of the key presses.
THEOREM TypeCorrect == Spec => []TypeOK
<1> DEFINE Inv == TypeOK /\ LineInv
<1>1. Init => Inv
  BY TypeInit, LineInit
<1>2. Inv /\ [Next]_vars => Inv'
  BY TypeNext, LineNext, LineWaits, ConstantAssumption
<1> QED BY <1>1, <1>2, PTL DEF Spec

\* The simulation applies the inputs in the order of the key presses and leaves no number of
\* an epoch out, whenever the match starts and connections are lost and resumed
\* (matchInputQueue.ts enqueue, drainForFrame, resetPlayer).
THEOREM InputsApplyInOrder == Spec => []AppliedInOrder
<1> DEFINE Inv == TypeOK /\ LineInv
<1>1. Init => Inv
  BY TypeInit, LineInit
<1>2. Inv /\ [Next]_vars => Inv'
  BY TypeNext, LineNext, LineWaits, ConstantAssumption
<1>3. Inv => AppliedInOrder
  <2> SUFFICES ASSUME Inv PROVE AppliedInOrder
    OBVIOUS
  <2>1. DOMAIN applied = 1 .. Len(applied)
    BY LineTypes
  <2> QED BY <2>1 DEF LineInv, ActsRise, Rising, EpochsRise, AppliedInOrder
<1> QED BY <1>1, <1>2, <1>3, PTL DEF Spec

(************************ the numbers on the connection ********************)

\* What follows is about matches that do not start in the middle of a resume: otherwise the
\* numbers of one epoch are given out twice, see ResumeMeetsStart.

AllSnapshots(k) == \A l \in DOMAIN toClient : l # k => toClient[l].type = "snapshot"

\* A match.start on its way finds an epoch in which nothing has happened yet.
StartFindsFresh ==
    \A k \in DOMAIN toClient : toClient[k].type = "start" =>
        /\ toClient[k].epoch = queue.epoch /\ AllSnapshots(k)
        /\ restoring = FALSE /\ outbox.on = FALSE /\ refused = FALSE
        /\ toServer = <<>> /\ queue.next = 0

ConnectionInv ==
    /\ inputGeneration <= generation /\ 1 <= generation
    /\ ~Started => /\ toClient = <<>> /\ toServer = <<>> /\ outbox.on = FALSE /\ refused = FALSE
                   /\ queue.next = 0
    /\ active = FALSE => toServer = <<>> /\ restoring = FALSE
    /\ restoring = TRUE => /\ inputGeneration # generation
                           /\ outbox.on = FALSE /\ toServer = <<>> /\ AllSnapshots(0)
    /\ StartFindsFresh
    /\ outbox.on = TRUE => /\ outbox.epoch = queue.epoch
                           /\ \A k \in DOMAIN toClient : toClient[k].type # "start"

\* The inputs on their way are numbered on, from what the queue expects unless one of them
\* was refused, up to what the outbox has given out.
SendingInv ==
    /\ \A i \in 1 .. Len(toServer) :
         toServer[i].epoch = queue.epoch /\ queue.next <= toServer[i].sequence
    /\ \A i, j \in 1 .. Len(toServer) : toServer[j].sequence = toServer[i].sequence + (j - i)
    /\ outbox.on = TRUE =>
         /\ \A i \in 1 .. Len(toServer) : toServer[i].sequence = outbox.next - Len(toServer) + i - 1
         /\ queue.next <= outbox.next - Len(toServer)
         /\ active = TRUE /\ refused = FALSE => queue.next = outbox.next - Len(toServer)

StepInv == ConnectionInv /\ SendingInv

LEMMA StepTypes ==
    ASSUME TypeOK
    PROVE  /\ generation \in Nat /\ inputGeneration \in Nat
           /\ active \in BOOLEAN /\ restoring \in BOOLEAN /\ refused \in BOOLEAN
           /\ outbox.on \in BOOLEAN /\ outbox.next \in Nat /\ outbox.epoch \in Nat
           /\ outbox.pending \in Seq(Prediction) /\ outbox \in OutboxType
           /\ toClient \in Seq(Messages) /\ DOMAIN toClient = 1 .. Len(toClient)
           /\ Len(toClient) \in Nat
<1>1. outbox \in OutboxType /\ toClient \in Seq(Messages)
  BY DEF TypeOK
<1>2. outbox.on \in BOOLEAN /\ outbox.next \in Nat /\ outbox.epoch \in Nat
      /\ outbox.pending \in Seq(Prediction)
  BY <1>1 DEF OutboxType
<1> QED BY <1>1, <1>2 DEF TypeOK

LEMMA StepInit == Init => StepInv
<1> SUFFICES ASSUME Init PROVE StepInv
  OBVIOUS
<1>1. outbox.on = FALSE /\ toClient = <<>> /\ toServer = <<>> /\ queue.next = 0
  BY DEF Init, NoOutbox, FreshQueue
<1>2. ConnectionInv
  BY <1>1 DEF Init, ConnectionInv, StartFindsFresh, AllSnapshots
<1> QED BY <1>1, <1>2 DEF StepInv, SendingInv

LEMMA StepStart ==
    ASSUME TypeOK, StepInv, ResumeMeetsStart = FALSE, Start
    PROVE  StepInv'
<1>1. restoring = FALSE /\ ~Started /\ inputGeneration' = generation
      /\ Sent(<<StartMessage(queue.epoch)>>)
      /\ UNCHANGED <<generation, active, restoring, toServer, queue, refused, outbox>>
  BY StepTypes DEF Start, connection, client
<1>2. toClient = <<>> /\ toServer = <<>> /\ outbox.on = FALSE /\ refused = FALSE /\ queue.next = 0
  BY <1>1 DEF StepInv, ConnectionInv
<1>3. toClient' = <<>> \/ toClient' = <<StartMessage(queue.epoch)>>
  BY <1>1, <1>2 DEF Sent
<1>4. \A k \in DOMAIN toClient' : k = 1 /\ toClient'[k] = StartMessage(queue.epoch)
  BY <1>3
<1>5. StartMessage(queue.epoch).type = "start" /\ StartMessage(queue.epoch).epoch = queue.epoch
  BY DEF StartMessage
<1>6. StartFindsFresh'
  BY <1>1, <1>2, <1>4, <1>5 DEF StartFindsFresh, AllSnapshots
<1>7. ConnectionInv'
  <2>1. inputGeneration' <= generation' /\ 1 <= generation'
    BY <1>1, StepTypes DEF StepInv, ConnectionInv
  <2>2. Started'
    BY <1>1, <2>1 DEF Started
  <2> QED BY <1>1, <1>2, <1>6, <2>1, <2>2 DEF ConnectionInv
<1>8. SendingInv'
  BY <1>1, <1>2 DEF StepInv, SendingInv
<1> QED BY <1>7, <1>8 DEF StepInv

LEMMA StepRestored ==
    ASSUME TypeOK, StepInv, Restored
    PROVE  StepInv'
<1>1. /\ restoring = TRUE /\ restoring' = FALSE /\ active = TRUE /\ outbox.on = FALSE
      /\ toServer = <<>> /\ inputGeneration # generation /\ AllSnapshots(0)
      /\ UNCHANGED <<generation, active, toServer, outbox>>
  BY StepTypes DEF Restored, client, StepInv, ConnectionInv
<1>2. SendingInv'
  BY <1>1 DEF SendingInv
<1>3. CASE Started
  <2> DEFINE start == StartMessage(queue.epoch + 1)
  <2>1. queue' = FreshQueue(queue.epoch + 1) /\ queue.epoch \in Nat
    BY <1>1, <1>3, LineTypes DEF Restored, ResetOnResume, Reset
  <2>2. queue'.epoch = queue.epoch + 1 /\ queue'.next = 0
    BY <2>1 DEF FreshQueue
  <2>3. refused' = FALSE /\ inputGeneration' = generation /\ Sent(<<start, Snapshot>>)
    <3>1. queue'.epoch # queue.epoch
      BY <2>1, <2>2
    <3>2. refused' = (refused /\ queue'.epoch = queue.epoch) /\ inputGeneration' = generation
      BY <1>3 DEF Restored
    <3>3. Sent(<<StartMessage(queue'.epoch), Snapshot>>)
      BY <1>3 DEF Restored
    <3>4. refused' = FALSE
      BY <3>1, <3>2
    <3> QED BY <2>2, <3>2, <3>3, <3>4
  <2>4. start.type = "start" /\ start.epoch = queue'.epoch /\ Snapshot.type = "snapshot"
    BY <2>2 DEF StartMessage, Snapshot
  <2> HIDE DEF start
  <2>5. toClient' = toClient \o <<start, Snapshot>> /\ toClient \in Seq(Messages)
    BY <1>1, <2>3, StepTypes DEF Sent
  <2>6. \A k \in DOMAIN toClient' : \/ k \in DOMAIN toClient /\ toClient'[k] = toClient[k]
                                    \/ k = Len(toClient) + 1 /\ toClient'[k] = start
                                    \/ k = Len(toClient) + 2 /\ toClient'[k] = Snapshot
    BY <2>5
  <2>7. \A k \in DOMAIN toClient : toClient[k].type = "snapshot"
    <3>1. 0 \notin DOMAIN toClient
      BY StepTypes
    <3> QED BY <1>1, <3>1 DEF AllSnapshots
  <2>8. \A k \in DOMAIN toClient' : \/ toClient'[k].type = "snapshot"
                                    \/ k = Len(toClient) + 1 /\ toClient'[k] = start
    BY <2>4, <2>6, <2>7
  <2>9. StartFindsFresh'
    <3> SUFFICES ASSUME NEW k \in DOMAIN toClient', toClient'[k].type = "start"
                 PROVE  toClient'[k].epoch = queue'.epoch /\ AllSnapshots(k)'
      BY <1>1, <2>2, <2>3 DEF StartFindsFresh
    <3>1. k = Len(toClient) + 1 /\ toClient'[k] = start
      BY <2>8
    <3> QED BY <2>4, <2>8, <3>1 DEF AllSnapshots
  <2>10. inputGeneration' <= generation' /\ 1 <= generation' /\ Started'
    BY <1>1, <2>3, StepTypes DEF StepInv, ConnectionInv, Started
  <2> QED BY <1>1, <1>2, <2>9, <2>10 DEF StepInv, ConnectionInv
<1>4. CASE ~Started
  <2>1. UNCHANGED <<queue, inputGeneration, refused, toClient>>
    BY <1>4 DEF Restored
  <2>2. toClient = <<>>
    BY <1>4 DEF StepInv, ConnectionInv
  <2> QED BY <1>1, <1>2, <2>1, <2>2 DEF StepInv, ConnectionInv, StartFindsFresh, AllSnapshots, Started
<1> QED BY <1>3, <1>4

\* A message that is no match.start is sent while none is on its way.
LEMMA ConnectionAck ==
    ASSUME TypeOK, ConnectionInv, Started, toServer # <<>>,
           NEW m \in Acknowledgements, Sent(<<m>>),
           UNCHANGED <<generation, active, restoring, inputGeneration, outbox>>,
           queue'.epoch = queue.epoch
    PROVE  ConnectionInv'
<1>1. active = TRUE /\ restoring = FALSE
  BY StepTypes DEF ConnectionInv
<1>2. \A k \in DOMAIN toClient : toClient[k].type # "start"
  BY DEF ConnectionInv, StartFindsFresh
<1>3. m.type # "start" /\ m \in Messages
  BY DEF Acknowledgements, Messages
<1>4. \A k \in DOMAIN toClient' : toClient'[k].type # "start"
  BY <1>2, <1>3, SentOne
<1>5. Started'
  BY DEF Started
<1> QED BY <1>1, <1>4, <1>5 DEF ConnectionInv, StartFindsFresh

LEMMA StepReceiveInput ==
    ASSUME TypeOK, ConstantAssumption, StepInv, ReceiveInput
    PROVE  StepInv'
<1> DEFINE input == Head(toServer)
           n == Len(toServer)
<1>1. /\ toServer # <<>> /\ toServer' = Tail(toServer) /\ Started /\ active = TRUE
      /\ restoring = FALSE
      /\ UNCHANGED <<generation, active, restoring, inputGeneration, outbox>>
  BY StepTypes DEF ReceiveInput, connection, client
<1>2. /\ input = toServer[1] /\ 1 \in 1 .. n /\ input \in Sending /\ Len(toServer') = n - 1
      /\ \A i \in 1 .. Len(toServer') : i + 1 \in 1 .. n /\ 1 < i + 1
                                        /\ toServer'[i] = toServer[i + 1]
  BY <1>1, Read
<1>3. n \in Nat /\ queue.next \in Nat /\ outbox.next \in Nat /\ n >= 1
  BY <1>2, LineTypes, StepTypes
<1>4. \A i \in 1 .. n : toServer[i].sequence \in Nat
  BY LineTypes
<1>5. \A i, j \in 1 .. Len(toServer') : toServer'[j].sequence = toServer'[i].sequence + (j - i)
  <2> SUFFICES ASSUME NEW i \in 1 .. Len(toServer'), NEW j \in 1 .. Len(toServer')
               PROVE  toServer'[j].sequence = toServer'[i].sequence + (j - i)
    OBVIOUS
  <2>1. toServer[j + 1].sequence = toServer[i + 1].sequence + ((j + 1) - (i + 1))
    BY <1>2 DEF StepInv, SendingInv
  <2> QED BY <1>2, <2>1
<1>6. outbox.on = TRUE => \A i \in 1 .. Len(toServer') :
          toServer'[i].sequence = outbox.next - Len(toServer') + i - 1
  <2> SUFFICES ASSUME outbox.on = TRUE, NEW i \in 1 .. Len(toServer')
               PROVE  toServer'[i].sequence = outbox.next - Len(toServer') + i - 1
    OBVIOUS
  <2>1. toServer[i + 1].sequence = outbox.next - n + (i + 1) - 1
    BY <1>2 DEF StepInv, SendingInv
  <2> QED BY <1>2, <1>3, <2>1
<1>7. CASE Taken(input) /\ Schedule(input) /\ UNCHANGED refused
  <2>1. /\ queue'.epoch = queue.epoch /\ queue'.next = queue.next + 1 /\ input.sequence = queue.next
        /\ Disposition(queue.next, "scheduled", frame + 1) \in Acknowledgements
        /\ Sent(<<Disposition(queue.next, "scheduled", frame + 1)>>)
    BY <1>2, <1>7, Scheduled
  <2>2. ConnectionInv'
    BY <1>1, <2>1, ConnectionAck DEF StepInv
  <2>3. ASSUME NEW i \in 1 .. Len(toServer')
        PROVE  toServer'[i].epoch = queue'.epoch /\ queue'.next <= toServer'[i].sequence
    <3>1. toServer[i + 1].sequence = toServer[1].sequence + ((i + 1) - 1)
      BY <1>2 DEF StepInv, SendingInv
    <3>2. toServer'[i].sequence = queue.next + i
      BY <1>2, <1>3, <2>1, <3>1
    <3>3. toServer'[i].epoch = queue.epoch
      BY <1>2 DEF StepInv, SendingInv
    <3> QED BY <1>3, <2>1, <3>2, <3>3
  <2>4. outbox.on = TRUE => queue'.next = outbox.next - Len(toServer')
    <3> SUFFICES ASSUME outbox.on = TRUE PROVE queue'.next = outbox.next - Len(toServer')
      OBVIOUS
    <3>1. toServer[1].sequence = outbox.next - n + 1 - 1
      BY <1>2 DEF StepInv, SendingInv
    <3> QED BY <1>2, <1>3, <2>1, <3>1
  <2>5. outbox.on = TRUE => queue'.next <= outbox.next - Len(toServer')
    <3> SUFFICES ASSUME outbox.on = TRUE PROVE queue'.next <= outbox.next - Len(toServer')
      OBVIOUS
    <3>1. queue'.next = outbox.next - Len(toServer')
      BY <2>4
    <3>2. queue'.next \in Nat
      BY <1>3, <2>1
    <3> QED BY <3>1, <3>2
  <2>6. SendingInv'
    BY <1>1, <1>5, <1>6, <2>3, <2>4, <2>5 DEF SendingInv
  <2> QED BY <2>2, <2>6 DEF StepInv
<1>8. CASE refused' = TRUE /\ UNCHANGED queue
           /\ (UNCHANGED toClient \/ Sent(<<Answer(input)>>))
  <2>1. ConnectionInv'
    <3>1. CASE UNCHANGED toClient
      <4>1. \A k \in DOMAIN toClient : toClient[k].type # "start"
        BY <1>1 DEF StepInv, ConnectionInv, StartFindsFresh
      <4>2. StartFindsFresh'
        BY <3>1, <4>1 DEF StartFindsFresh
      <4> QED BY <1>1, <1>8, <3>1, <4>1, <4>2 DEF StepInv, ConnectionInv, Started
    <3>2. CASE Sent(<<Answer(input)>>)
      BY <1>1, <1>2, <1>8, <3>2, AnswerType, ConnectionAck DEF StepInv
    <3> QED BY <1>8, <3>1, <3>2
  <2>2. ASSUME NEW i \in 1 .. Len(toServer')
        PROVE  toServer'[i].epoch = queue'.epoch /\ queue'.next <= toServer'[i].sequence
    BY <1>2, <1>8 DEF StepInv, SendingInv
  <2>3. outbox.on = TRUE => queue'.next <= outbox.next - Len(toServer')
    <3>1. outbox.on = TRUE => queue.next <= outbox.next - n
      BY DEF StepInv, SendingInv
    <3> QED BY <1>2, <1>3, <1>8, <3>1
  <2>4. SendingInv'
    BY <1>1, <1>5, <1>6, <1>8, <2>2, <2>3 DEF SendingInv
  <2> QED BY <2>1, <2>4 DEF StepInv
<1> QED BY <1>7, <1>8 DEF ReceiveInput, Enqueue, Drop

LEMMA StepAdvance ==
    ASSUME TypeOK, ConstantAssumption, LineInv, StepInv, Advance
    PROVE  StepInv'
<1>1. /\ queue'.epoch = queue.epoch /\ queue'.next = queue.next /\ Started
      /\ UNCHANGED <<generation, active, restoring, toServer, inputGeneration, refused, outbox>>
  BY LineWaits, Drained DEF Advance, connection, client
<1>2. Snapshot' \in Messages /\ Snapshot'.type = "snapshot"
  <2>1. frame' \in Nat /\ applied' \in Seq(Input)
    <3>1. applied' = applied \o queue.scheduled /\ frame' = frame + 1
      BY LineWaits, Drained DEF Advance
    <3> QED BY <3>1, LineTypes
  <2> QED BY <2>1 DEF Snapshot, Messages, Snapshots
<1>3. \A k \in DOMAIN toClient' : \/ k \in DOMAIN toClient /\ toClient'[k] = toClient[k]
                                  \/ k = Len(toClient) + 1 /\ toClient'[k].type = "snapshot"
  <2>1. CASE Sent(<<Snapshot'>>)
    BY <1>2, <2>1, SentOne
  <2>2. CASE UNCHANGED toClient
    BY <2>2
  <2> QED BY <2>1, <2>2 DEF Advance
<1>4. StartFindsFresh'
  <2> SUFFICES ASSUME NEW k \in DOMAIN toClient', toClient'[k].type = "start"
               PROVE  /\ toClient'[k].epoch = queue.epoch /\ AllSnapshots(k)'
                      /\ restoring = FALSE /\ outbox.on = FALSE /\ refused = FALSE
                      /\ toServer = <<>> /\ queue.next = 0
    BY <1>1 DEF StartFindsFresh
  <2>1. k \in DOMAIN toClient /\ toClient'[k] = toClient[k]
    BY <1>3
  <2>2. AllSnapshots(k)
    BY <2>1 DEF StepInv, ConnectionInv, StartFindsFresh
  <2>3. AllSnapshots(k)'
    BY <1>3, <2>2 DEF AllSnapshots
  <2> QED BY <2>1, <2>3 DEF StepInv, ConnectionInv, StartFindsFresh
<1>5. AllSnapshots(0) => AllSnapshots(0)'
  BY <1>3 DEF AllSnapshots
<1>6. outbox.on = TRUE => \A k \in DOMAIN toClient' : toClient'[k].type # "start"
  BY <1>3 DEF StepInv, ConnectionInv
<1>7. ConnectionInv'
  BY <1>1, <1>4, <1>5, <1>6 DEF StepInv, ConnectionInv, Started
<1>8. SendingInv'
  BY <1>1 DEF StepInv, SendingInv
<1> QED BY <1>7, <1>8 DEF StepInv

LEMMA StepServerLoses == ASSUME TypeOK, StepInv, ServerLoses PROVE StepInv'
<1>1. /\ active' = FALSE /\ restoring' = FALSE /\ toServer' = <<>> /\ Len(toServer') = 0
      /\ UNCHANGED <<generation, toClient, inputGeneration, queue, refused, outbox>>
  BY DEF ServerLoses, server, client
<1>2. ConnectionInv'
  BY <1>1 DEF StepInv, ConnectionInv, StartFindsFresh, AllSnapshots, Started
<1>3. outbox.on = TRUE => queue.next <= outbox.next - Len(toServer')
  <2> SUFFICES ASSUME outbox.on = TRUE PROVE queue.next <= outbox.next - Len(toServer')
    OBVIOUS
  <2>1. queue.next <= outbox.next - Len(toServer)
    BY DEF StepInv, SendingInv
  <2>2. queue.next \in Nat /\ outbox.next \in Nat /\ Len(toServer) \in Nat
    BY LineTypes, StepTypes
  <2> QED BY <1>1, <2>1, <2>2
<1>4. SendingInv'
  BY <1>1, <1>3 DEF StepInv, SendingInv
<1> QED BY <1>2, <1>4 DEF StepInv

LEMMA StepClientLoses == ASSUME TypeOK, StepInv, ClientLoses PROVE StepInv'
<1>1. /\ outbox'.on = FALSE /\ toClient' = <<>>
      /\ UNCHANGED <<generation, active, restoring, toServer, inputGeneration, queue, refused>>
  BY DEF ClientLoses, NoOutbox, connection, server
<1>2. ConnectionInv'
  BY <1>1 DEF StepInv, ConnectionInv, StartFindsFresh, AllSnapshots, Started
<1>3. SendingInv'
  BY <1>1 DEF StepInv, SendingInv
<1> QED BY <1>2, <1>3 DEF StepInv

LEMMA StepResume == ASSUME TypeOK, StepInv, Resume PROVE StepInv'
<1>1. /\ outbox'.on = FALSE /\ toClient' = <<>> /\ toServer' = <<>> /\ active' = TRUE
      /\ generation' = generation + 1 /\ Len(toServer') = 0
      /\ UNCHANGED <<inputGeneration, queue, refused>>
  BY DEF Resume, NoOutbox, server
<1>2. inputGeneration' <= generation' /\ 1 <= generation' /\ inputGeneration' # generation'
  BY <1>1, StepTypes DEF StepInv, ConnectionInv
<1>3. ConnectionInv'
  BY <1>1, <1>2 DEF StepInv, ConnectionInv, StartFindsFresh, AllSnapshots, Started
<1>4. SendingInv'
  BY <1>1 DEF SendingInv
<1> QED BY <1>3, <1>4 DEF StepInv

LEMMA StepPress == ASSUME TypeOK, StepInv, Press PROVE StepInv'
<1> DEFINE m == [epoch |-> outbox.epoch, sequence |-> outbox.next,
                 clientFrame |-> outbox.frame, act |-> acts']
           n == Len(toServer)
<1>1. /\ outbox.on = TRUE /\ outbox'.on = TRUE /\ outbox'.next = outbox.next + 1
      /\ outbox'.epoch = outbox.epoch
      /\ toServer' = IF active THEN Append(toServer, m) ELSE toServer
      /\ UNCHANGED <<generation, active, restoring, toClient, inputGeneration, queue, refused>>
  BY StepTypes DEF Press, connection, server, OutboxType
<1>2. m.epoch = outbox.epoch /\ m.sequence = outbox.next
  OBVIOUS
<1>3. n \in Nat /\ queue.next \in Nat /\ outbox.next \in Nat /\ toServer \in Seq(Sending)
  BY LineTypes, StepTypes
<1> HIDE DEF m
<1>4. ConnectionInv'
  <2>1. Started /\ restoring = FALSE
    BY <1>1, StepTypes DEF StepInv, ConnectionInv
  <2>2. active = FALSE => toServer' = <<>>
    BY <1>1 DEF StepInv, ConnectionInv
  <2>3. \A k \in DOMAIN toClient : toClient[k].type # "start"
    BY <1>1 DEF StepInv, ConnectionInv
  <2> QED BY <1>1, <2>1, <2>2, <2>3 DEF StepInv, ConnectionInv, StartFindsFresh, Started
<1>5. CASE active = FALSE
  <2>1. toServer' = <<>> /\ toServer = <<>> /\ Len(toServer') = 0 /\ n = 0
    BY <1>1, <1>5 DEF StepInv, ConnectionInv
  <2>2. queue.next <= outbox.next
    BY <1>1, <1>3, <2>1 DEF StepInv, SendingInv
  <2>3. SendingInv'
    BY <1>1, <1>3, <1>5, <2>1, <2>2 DEF SendingInv
  <2> QED BY <1>4, <2>3 DEF StepInv
<1>6. CASE active = TRUE
  <2>1. /\ Len(toServer') = n + 1 /\ toServer'[n + 1] = m
        /\ \A i \in 1 .. n : toServer'[i] = toServer[i]
    BY <1>1, <1>3, <1>6
  <2>2. \A i \in 1 .. Len(toServer') : i \in 1 .. n \/ i = n + 1
    BY <1>3, <2>1
  <2>3. queue.next <= outbox.next - n /\ outbox.epoch = queue.epoch
    BY <1>1 DEF StepInv, SendingInv, ConnectionInv
  <2>4. \A i \in 1 .. Len(toServer') : toServer'[i].sequence = outbox'.next - Len(toServer') + i - 1
    <3> SUFFICES ASSUME NEW i \in 1 .. Len(toServer')
                 PROVE  toServer'[i].sequence = outbox'.next - Len(toServer') + i - 1
      OBVIOUS
    <3>1. CASE i \in 1 .. n
      <4>1. toServer[i].sequence = outbox.next - n + i - 1
        BY <1>1, <3>1 DEF StepInv, SendingInv
      <4> QED BY <1>1, <1>3, <2>1, <3>1, <4>1
    <3>2. CASE i = n + 1
      BY <1>1, <1>2, <1>3, <2>1, <3>2
    <3> QED BY <2>2, <3>1, <3>2
  <2>5. ASSUME NEW i \in 1 .. Len(toServer')
        PROVE  toServer'[i].epoch = queue.epoch /\ queue.next <= toServer'[i].sequence
    <3>1. CASE i \in 1 .. n
      BY <2>1, <3>1 DEF StepInv, SendingInv
    <3>2. CASE i = n + 1
      BY <1>2, <1>3, <2>1, <2>3, <3>2
    <3> QED BY <2>2, <3>1, <3>2
  <2>6. \A i, j \in 1 .. Len(toServer') : toServer'[j].sequence = toServer'[i].sequence + (j - i)
    <3> SUFFICES ASSUME NEW i \in 1 .. Len(toServer'), NEW j \in 1 .. Len(toServer')
                 PROVE  toServer'[j].sequence = toServer'[i].sequence + (j - i)
      OBVIOUS
    <3>1. /\ toServer'[i].sequence = outbox'.next - Len(toServer') + i - 1
          /\ toServer'[j].sequence = outbox'.next - Len(toServer') + j - 1
      BY <2>4
    <3>2. outbox'.next \in Nat /\ Len(toServer') \in Nat
      BY <1>1, <1>3, <2>1
    <3> QED BY <3>1, <3>2
  <2>7. queue.next <= outbox'.next - Len(toServer')
        /\ (refused = FALSE => queue.next = outbox'.next - Len(toServer'))
    <3>1. refused = FALSE => queue.next = outbox.next - n
      BY <1>1, <1>6 DEF StepInv, SendingInv
    <3> QED BY <1>1, <1>3, <2>1, <2>3, <3>1
  <2>8. SendingInv'
    BY <1>1, <2>4, <2>5, <2>6, <2>7 DEF SendingInv
  <2> QED BY <1>4, <2>8 DEF StepInv
<1> QED BY <1>5, <1>6, StepTypes

\* The first message of the channel is read.
LEMMA ReadMessage ==
    ASSUME TypeOK, toClient # <<>>, toClient' = Tail(toClient)
    PROVE  /\ Head(toClient) = toClient[1] /\ 1 \in DOMAIN toClient
           /\ Len(toClient') = Len(toClient) - 1 /\ DOMAIN toClient' = 1 .. (Len(toClient) - 1)
           /\ \A k \in DOMAIN toClient' : k + 1 \in DOMAIN toClient /\ k + 1 # 1
                                          /\ toClient'[k] = toClient[k + 1]
<1>1. toClient \in Seq(Messages)
  BY StepTypes
<1> QED BY <1>1

\* What is left of the outbox when it is told something.
LEMMA OutboxKept ==
    ASSUME TypeOK, Receive, Head(toClient).type # "start"
    PROVE  /\ outbox'.on = outbox.on /\ outbox'.epoch = outbox.epoch /\ outbox'.next = outbox.next
           /\ \A p \in Range(outbox'.pending) : p \in Range(outbox.pending)
<1> DEFINE message == Head(toClient)
<1>1. outbox \in OutboxType /\ outbox.pending \in Seq(Prediction)
  BY StepTypes
<1>2. (message.type = "ack" /\ ReceiveAck(message)) \/ (message.type = "snapshot" /\ ReceiveSnapshot(message))
  BY DEF Receive
<1> HIDE DEF message
<1>3. CASE ReceiveAck(message)
  <2> DEFINE acknowledged == Acknowledge(outbox.pending, message.sequence)
  <2>1. Range(acknowledged) \subseteq Range(outbox.pending)
    BY <1>1, KeepRange DEF Acknowledge
  <2>2. outbox' = outbox \/ outbox' = [outbox EXCEPT !.pending = acknowledged]
    BY <1>3 DEF ReceiveAck
  <2> HIDE DEF acknowledged
  <2> QED BY <1>1, <2>1, <2>2 DEF OutboxType
<1>4. CASE ReceiveSnapshot(message)
  <2> DEFINE settled == {s \in scheduledInputs : s[2] <= message.frame}
             left == Keep(outbox.pending, {p \in Range(outbox.pending) :
                                              \A s \in settled : p.sequence > s[1]})
             at == IF outbox.frame < message.frame THEN message.frame ELSE outbox.frame
  <2>1. Range(left) \subseteq Range(outbox.pending)
    BY <1>1, KeepRange
  <2>2. outbox' = [outbox EXCEPT !.frame = at, !.pending = left]
    BY <1>4 DEF ReceiveSnapshot
  <2> HIDE DEF left, at
  <2> QED BY <1>1, <2>1, <2>2 DEF OutboxType
<1> QED BY <1>2, <1>3, <1>4

LEMMA StepReceive == ASSUME TypeOK, StepInv, Receive PROVE StepInv'
<1> DEFINE message == Head(toClient)
<1>1. /\ toClient # <<>> /\ toClient' = Tail(toClient)
      /\ UNCHANGED <<generation, active, restoring, toServer, inputGeneration, queue, refused>>
  BY DEF Receive, connection, server
<1>2. /\ message = toClient[1] /\ 1 \in DOMAIN toClient
      /\ \A k \in DOMAIN toClient' : k + 1 \in DOMAIN toClient /\ k + 1 # 1
                                     /\ toClient'[k] = toClient[k + 1]
      /\ DOMAIN toClient' \subseteq Nat
  BY <1>1, ReadMessage, StepTypes
<1> HIDE DEF message
<1>3. Started
  BY <1>1 DEF StepInv, ConnectionInv
<1>4. AllSnapshots(0) => AllSnapshots(0)'
  <2> SUFFICES ASSUME AllSnapshots(0), NEW l \in DOMAIN toClient' PROVE toClient'[l].type = "snapshot"
    BY DEF AllSnapshots
  <2>1. l + 1 \in DOMAIN toClient /\ l + 1 # 0 /\ toClient'[l] = toClient[l + 1]
    BY <1>2, StepTypes
  <2> QED BY <2>1 DEF AllSnapshots
<1>5. CASE message.type = "start"
  <2>1. /\ message.epoch = queue.epoch /\ AllSnapshots(1)
        /\ restoring = FALSE /\ refused = FALSE /\ toServer = <<>> /\ queue.next = 0
    BY <1>2, <1>5 DEF StepInv, ConnectionInv, StartFindsFresh
  <2>2. outbox'.on = TRUE /\ outbox'.epoch = message.epoch /\ outbox'.next = 0
    <3>1. ReceiveStart(message)
      BY <1>5 DEF Receive, message
    <3> QED BY <3>1 DEF ReceiveStart, NoOutbox
  <2>3. \A k \in DOMAIN toClient' : toClient'[k].type = "snapshot"
    BY <1>2, <2>1 DEF AllSnapshots
  <2>4. ConnectionInv'
    BY <1>1, <1>3, <2>1, <2>2, <2>3 DEF StepInv, ConnectionInv, StartFindsFresh, Started
  <2>5. Len(toServer') = 0
    BY <1>1, <2>1
  <2>6. SendingInv'
    <3>1. queue'.next = outbox'.next - Len(toServer') /\ queue'.next <= outbox'.next - Len(toServer')
      <4>1. queue'.next = 0 /\ outbox'.next = 0 /\ Len(toServer') = 0
        BY <1>1, <2>1, <2>2, <2>5
      <4> QED BY <4>1
    <3>2. 1 .. Len(toServer') = {}
      BY <2>5
    <3> QED BY <3>1, <3>2 DEF SendingInv
  <2> QED BY <2>4, <2>6 DEF StepInv
<1>6. CASE message.type # "start"
  <2>1. outbox'.on = outbox.on /\ outbox'.epoch = outbox.epoch /\ outbox'.next = outbox.next
    BY <1>6, OutboxKept DEF message
  <2>2. StartFindsFresh'
    <3> SUFFICES ASSUME NEW k \in DOMAIN toClient', toClient'[k].type = "start"
                 PROVE  /\ toClient'[k].epoch = queue.epoch /\ AllSnapshots(k)'
                        /\ restoring = FALSE /\ outbox.on = FALSE /\ refused = FALSE
                        /\ toServer = <<>> /\ queue.next = 0
      BY <1>1, <2>1 DEF StartFindsFresh
    <3>1. k + 1 \in DOMAIN toClient /\ toClient[k + 1].type = "start" /\ toClient'[k] = toClient[k + 1]
      BY <1>2
    <3>2. /\ toClient[k + 1].epoch = queue.epoch /\ AllSnapshots(k + 1)
          /\ restoring = FALSE /\ outbox.on = FALSE /\ refused = FALSE
          /\ toServer = <<>> /\ queue.next = 0
      BY <3>1 DEF StepInv, ConnectionInv, StartFindsFresh
    <3>3. AllSnapshots(k)'
      <4> SUFFICES ASSUME NEW l \in DOMAIN toClient', l # k PROVE toClient'[l].type = "snapshot"
        BY DEF AllSnapshots
      <4>1. l + 1 \in DOMAIN toClient /\ l + 1 # k + 1 /\ toClient'[l] = toClient[l + 1]
        BY <1>2
      <4> QED BY <3>2, <4>1 DEF AllSnapshots
    <3> QED BY <3>1, <3>2, <3>3
  <2>3. outbox.on = TRUE => \A k \in DOMAIN toClient' : toClient'[k].type # "start"
    BY <1>2 DEF StepInv, ConnectionInv
  <2>4. ConnectionInv'
    BY <1>1, <1>3, <1>4, <2>1, <2>2, <2>3 DEF StepInv, ConnectionInv, Started
  <2>5. SendingInv'
    BY <1>1, <2>1 DEF StepInv, SendingInv
  <2> QED BY <2>4, <2>5 DEF StepInv
<1> QED BY <1>5, <1>6

LEMMA StepNext ==
    ASSUME TypeOK, ConstantAssumption, ResumeMeetsStart = FALSE, LineInv, StepInv, [Next]_vars
    PROVE  StepInv'
<1>1. CASE UNCHANGED vars
  BY <1>1 DEF vars, connection, server, client, StepInv, ConnectionInv, SendingInv, StartFindsFresh,
              AllSnapshots, Started
<1> QED BY <1>1, StepStart, StepRestored, StepReceiveInput, StepAdvance, StepServerLoses,
           StepClientLoses, StepResume, StepPress, StepReceive DEF Next

(************************** what the browser is told ***********************)

\* A snapshot tells a frame, and how many inputs were applied up to it.
Truthful(m) ==
    /\ m.frame <= frame /\ m.applied <= Len(applied)
    /\ \A i \in 1 .. Len(applied) : applied[i].frame <= m.frame <=> i <= m.applied

\* The snapshots on their way are truthful, and none is older than one before it.
SnapshotsInv ==
    \A k \in DOMAIN toClient : toClient[k].type = "snapshot" =>
        /\ Truthful(toClient[k])
        /\ \A l \in DOMAIN toClient : l < k /\ toClient[l].type = "snapshot" =>
               toClient[l].applied <= toClient[k].applied

\* The displayed state is none from the future.
ShownInv ==
    outbox.on = TRUE =>
        /\ shown <= Len(applied)
        /\ \A k \in DOMAIN toClient : toClient[k].type = "snapshot" => shown <= toClient[k].applied

\* The present state is a truthful snapshot that no earlier one exceeds.
LEMMA NowTruthful ==
    ASSUME TypeOK, LineInv
    PROVE  Snapshot \in Snapshots /\ Truthful(Snapshot) /\ Snapshot.applied = Len(applied)
<1>1. Snapshot.frame = frame /\ Snapshot.applied = Len(applied) /\ Snapshot.type = "snapshot"
  BY DEF Snapshot
<1>2. Snapshot \in Snapshots
  BY MessageTypes
<1>3. \A i \in 1 .. Len(applied) : applied[i].frame <= frame /\ i <= Len(applied)
  BY LineTypes DEF LineInv, Placed
<1>4. frame <= frame /\ Len(applied) <= Len(applied)
  BY LineTypes
<1> QED BY <1>1, <1>2, <1>3, <1>4 DEF Truthful

\* A message that joins a channel whose inputs stay as they are.
LEMMA SnapshotsJoined ==
    ASSUME TypeOK, SnapshotsInv, UNCHANGED <<applied, frame>>,
           NEW m, m.type # "snapshot",
           \A k \in DOMAIN toClient' : \/ k \in DOMAIN toClient /\ toClient'[k] = toClient[k]
                                       \/ toClient'[k] = m
    PROVE  SnapshotsInv'
BY DEF SnapshotsInv, Truthful

LEMMA SnapshotsInit == Init => SnapshotsInv /\ ShownInv
BY DEF Init, NoOutbox, SnapshotsInv, ShownInv

LEMMA SnapshotsRestored == ASSUME TypeOK, LineInv, SnapshotsInv, Restored PROVE SnapshotsInv'
<1>1. UNCHANGED <<applied, frame>>
  BY DEF Restored
<1>2. CASE UNCHANGED toClient
  BY <1>1, <1>2 DEF SnapshotsInv, Truthful
<1>3. ASSUME Started PROVE SnapshotsInv'
  <2> DEFINE start == StartMessage(queue'.epoch)
             n == Len(toClient)
  <2>1. toClient' = IF active THEN toClient \o <<start, Snapshot>> ELSE toClient
    BY <1>3 DEF Restored, Sent
  <2>2. start.type = "start" /\ Snapshot.type = "snapshot"
    BY DEF StartMessage, Snapshot
  <2>3. toClient \in Seq(Messages) /\ DOMAIN toClient = 1 .. n /\ n \in Nat
    BY StepTypes
  <2> HIDE DEF start
  <2>4. \A k \in DOMAIN toClient' :
           \/ k \in DOMAIN toClient /\ toClient'[k] = toClient[k]
           \/ k = n + 1 /\ toClient'[k] = start
           \/ k = n + 2 /\ toClient'[k] = Snapshot
    BY <2>1, <2>3
  <2>5. Truthful(Snapshot) /\ Snapshot.applied = Len(applied)
    BY NowTruthful
  <2>6. \A m : Truthful(m)' <=> Truthful(m)
    BY <1>1 DEF Truthful
  <2> SUFFICES ASSUME NEW k \in DOMAIN toClient', toClient'[k].type = "snapshot"
               PROVE  /\ Truthful(toClient'[k])
                      /\ \A l \in DOMAIN toClient' : l < k /\ toClient'[l].type = "snapshot" =>
                             toClient'[l].applied <= toClient'[k].applied
    BY <2>6 DEF SnapshotsInv
  <2>7. CASE k \in DOMAIN toClient /\ toClient'[k] = toClient[k]
    <3>1. \A l \in DOMAIN toClient' : l < k => l \in DOMAIN toClient /\ toClient'[l] = toClient[l]
      BY <2>3, <2>4, <2>7
    <3> QED BY <2>7, <3>1 DEF SnapshotsInv
  <2>8. CASE k = n + 2 /\ toClient'[k] = Snapshot
    <3>1. \A l \in DOMAIN toClient' : l < k /\ toClient'[l].type = "snapshot" =>
             l \in DOMAIN toClient /\ toClient'[l] = toClient[l]
      BY <2>2, <2>3, <2>4, <2>8
    <3>2. \A l \in DOMAIN toClient : toClient[l].type = "snapshot" =>
             toClient[l].applied <= Len(applied)
      BY DEF SnapshotsInv, Truthful
    <3> QED BY <2>5, <2>8, <3>1, <3>2
  <2> QED BY <2>2, <2>4, <2>7, <2>8
<1> QED BY <1>2, <1>3 DEF Restored

LEMMA SnapshotsAdvance ==
    ASSUME TypeOK, ConstantAssumption, LineInv, SnapshotsInv, Advance
    PROVE  SnapshotsInv'
<1> DEFINE a == Len(applied)
           n == Len(toClient)
<1>1. TypeOK' /\ LineInv'
  BY TypeNext, LineNext, LineWaits DEF Next
<1>2. applied' = applied \o queue.scheduled /\ frame' = frame + 1
  BY LineWaits, Drained DEF Advance
<1>3. a \in Nat /\ frame \in Nat /\ applied \in Seq(Input) /\ queue.scheduled \in Seq(Input)
      /\ Len(queue.scheduled) \in Nat
  BY LineTypes
<1>4. Len(applied') = a + Len(queue.scheduled) /\ \A i \in 1 .. a : applied'[i] = applied[i]
  BY <1>2, <1>3
<1>5. \A i \in 1 .. Len(applied') : i \in 1 .. a \/ (i > a /\ applied'[i].frame = frame + 1)
  <2> SUFFICES ASSUME NEW i \in 1 .. Len(applied'), i \notin 1 .. a
               PROVE  i > a /\ applied'[i].frame = frame + 1
    OBVIOUS
  <2>1. i - a \in 1 .. Len(queue.scheduled) /\ applied'[i] = queue.scheduled[i - a] /\ i > a
    BY <1>2, <1>3, <1>4
  <2> QED BY <2>1 DEF LineInv, Placed
<1>6. ASSUME NEW m \in Snapshots, Truthful(m) PROVE Truthful(m)'
  <2>1. m.frame \in Nat /\ m.applied \in Nat /\ m.frame <= frame /\ m.applied <= a
    BY <1>6 DEF Snapshots, Truthful
  <2>2. ASSUME NEW i \in 1 .. Len(applied') PROVE applied'[i].frame <= m.frame <=> i <= m.applied
    <3>1. CASE i \in 1 .. a
      BY <1>4, <1>6, <3>1 DEF Truthful
    <3>2. CASE i > a /\ applied'[i].frame = frame + 1
      BY <1>3, <2>1, <3>2
    <3> QED BY <1>5, <3>1, <3>2
  <2>3. m.frame <= frame' /\ m.applied <= Len(applied')
    BY <1>2, <1>3, <1>4, <2>1
  <2> QED BY <2>2, <2>3 DEF Truthful
<1>7. \A k \in DOMAIN toClient : toClient[k].type = "snapshot" => toClient[k] \in Snapshots
  BY StepTypes DEF Messages, StartMessages, Acknowledgements
<1>8. Snapshot' \in Snapshots /\ Truthful(Snapshot)' /\ Snapshot'.applied = Len(applied')
  <2>1. Snapshot' = [type |-> "snapshot", frame |-> frame', applied |-> Len(applied')]
    BY DEF Snapshot
  <2>2. Len(applied') \in Nat /\ frame' \in Nat
    BY <1>2, <1>3, <1>4
  <2>3. \A i \in 1 .. Len(applied') : applied'[i].frame <= frame' /\ i <= Len(applied')
    BY <1>1 DEF LineInv, Placed
  <2>4. frame' <= frame' /\ Len(applied') <= Len(applied')
    BY <2>2
  <2>5. Snapshot'.frame = frame' /\ Snapshot'.applied = Len(applied')
    BY <2>1
  <2> QED BY <2>1, <2>2, <2>3, <2>4, <2>5 DEF Snapshots, Truthful
<1>9. \A k \in DOMAIN toClient' : \/ k \in DOMAIN toClient /\ toClient'[k] = toClient[k]
                                  \/ k = n + 1 /\ toClient'[k] = Snapshot'
  <2>1. Snapshot' \in Messages
    BY <1>8 DEF Messages
  <2> QED BY <2>1, SentOne DEF Advance
<1>10. DOMAIN toClient = 1 .. n /\ n \in Nat
  BY StepTypes
<1> SUFFICES ASSUME NEW k \in DOMAIN toClient', toClient'[k].type = "snapshot"
             PROVE  /\ Truthful(toClient[k])'
                    /\ \A l \in DOMAIN toClient' : l < k /\ toClient'[l].type = "snapshot" =>
                           toClient'[l].applied <= toClient'[k].applied
  BY DEF SnapshotsInv
<1>11. CASE k \in DOMAIN toClient /\ toClient'[k] = toClient[k]
  <2>1. \A l \in DOMAIN toClient' : l < k => l \in DOMAIN toClient /\ toClient'[l] = toClient[l]
    BY <1>9, <1>10, <1>11
  <2>2. toClient[k] \in Snapshots /\ Truthful(toClient[k])
    BY <1>7, <1>11 DEF SnapshotsInv
  <2>3. Truthful(toClient[k])'
    <3>1. PICK m \in Snapshots : m = toClient[k] /\ Truthful(m)
      BY <2>2
    <3>2. Truthful(m)'
      BY <1>6, <3>1
    <3> QED BY <1>11, <3>1, <3>2 DEF Truthful
  <2> QED BY <1>11, <2>1, <2>3 DEF SnapshotsInv
<1>12. CASE k = n + 1 /\ toClient'[k] = Snapshot'
  <2>1. \A l \in DOMAIN toClient' : l < k => l \in DOMAIN toClient /\ toClient'[l] = toClient[l]
    BY <1>9, <1>10, <1>12
  <2>2. ASSUME NEW l \in DOMAIN toClient, toClient[l].type = "snapshot"
        PROVE  toClient[l].applied <= Len(applied')
    <3>1. toClient[l].applied <= a /\ toClient[l].applied \in Nat
      BY <1>7, <2>2 DEF SnapshotsInv, Truthful, Snapshots
    <3> QED BY <1>3, <1>4, <3>1
  <2>3. Truthful(toClient[k])'
    BY <1>8, <1>12 DEF Truthful
  <2> QED BY <1>8, <1>12, <2>1, <2>2, <2>3
<1> QED BY <1>9, <1>11, <1>12

LEMMA SnapshotsEmptied ==
    ASSUME toClient' = <<>>
    PROVE  SnapshotsInv'
BY DEF SnapshotsInv

\* The message that was read is gone.
LEMMA SnapshotsReceive == ASSUME TypeOK, SnapshotsInv, Receive PROVE SnapshotsInv'
<1>1. toClient # <<>> /\ toClient' = Tail(toClient) /\ UNCHANGED <<applied, frame>>
  BY DEF Receive, server
<1>2. /\ \A k \in DOMAIN toClient' : k + 1 \in DOMAIN toClient /\ toClient'[k] = toClient[k + 1]
      /\ DOMAIN toClient' \subseteq Nat
  BY <1>1, ReadMessage, StepTypes
<1>3. \A m : Truthful(m)' <=> Truthful(m)
  BY <1>1 DEF Truthful
<1> SUFFICES ASSUME NEW k \in DOMAIN toClient', toClient'[k].type = "snapshot"
             PROVE  /\ Truthful(toClient'[k])
                    /\ \A l \in DOMAIN toClient' : l < k /\ toClient'[l].type = "snapshot" =>
                           toClient'[l].applied <= toClient'[k].applied
  BY <1>3 DEF SnapshotsInv
<1>4. Truthful(toClient[k + 1])
  BY <1>2 DEF SnapshotsInv
<1>5. ASSUME NEW l \in DOMAIN toClient', l < k, toClient'[l].type = "snapshot"
      PROVE  toClient'[l].applied <= toClient'[k].applied
  <2>1. l + 1 < k + 1
    BY <1>2, <1>5
  <2> QED BY <1>2, <1>5, <2>1 DEF SnapshotsInv
<1> QED BY <1>2, <1>4, <1>5

\* A message joins the channel.
LEMMA Joined ==
    ASSUME TypeOK, NEW m \in Messages, Sent(<<m>>)
    PROVE  \A k \in DOMAIN toClient' : \/ k \in DOMAIN toClient /\ toClient'[k] = toClient[k]
                                       \/ toClient'[k] = m
BY SentOne

\* The gateway answers an input with one acknowledgement, or not at all.
LEMMA Acknowledged ==
    ASSUME TypeOK, ConstantAssumption, ReceiveInput
    PROVE  \/ UNCHANGED toClient
           \/ \E m \in Acknowledgements : Sent(<<m>>)
<1> DEFINE input == Head(toServer)
<1>1. input \in Sending
  BY DEF TypeOK, ReceiveInput
<1> HIDE DEF input
<1>2. Enqueue(input) \/ Drop
  BY DEF ReceiveInput, input
<1>3. Answer(input) \in Acknowledgements
  BY <1>1, AnswerType
<1>4. Disposition(input.sequence, "scheduled", frame + 1) \in Acknowledgements
  BY <1>1, MessageTypes DEF Sending, TypeOK
<1>5. CASE Drop
  BY <1>5 DEF Drop
<1>6. CASE Enqueue(input)
  BY <1>3, <1>4, <1>6 DEF Enqueue, Schedule
<1> QED BY <1>2, <1>5, <1>6

LEMMA SnapshotsNext ==
    ASSUME TypeOK, ConstantAssumption, LineInv, SnapshotsInv, [Next]_vars
    PROVE  SnapshotsInv'
<1>1. CASE Start
  <2>1. UNCHANGED <<applied, frame>> /\ Sent(<<StartMessage(queue.epoch)>>)
    BY <1>1 DEF Start
  <2>2. StartMessage(queue.epoch) \in Messages /\ StartMessage(queue.epoch).type # "snapshot"
    BY MessageTypes, LineTypes DEF Messages, StartMessage
  <2> QED BY <2>1, <2>2, Joined, SnapshotsJoined
<1>2. CASE ReceiveInput
  <2>1. UNCHANGED <<applied, frame>>
    BY <1>2 DEF ReceiveInput
  <2>2. CASE UNCHANGED toClient
    BY <2>1, <2>2 DEF SnapshotsInv, Truthful
  <2>3. ASSUME NEW m \in Acknowledgements, Sent(<<m>>) PROVE SnapshotsInv'
    <3>1. m \in Messages /\ m.type # "snapshot"
      BY DEF Messages, Acknowledgements
    <3> QED BY <2>1, <2>3, <3>1, Joined, SnapshotsJoined
  <2> QED BY <1>2, <2>2, <2>3, Acknowledged
<1>3. CASE ServerLoses \/ Press \/ UNCHANGED vars
  <2>1. UNCHANGED <<toClient, applied, frame>>
    BY <1>3 DEF ServerLoses, Press, vars, server
  <2> QED BY <2>1 DEF SnapshotsInv, Truthful
<1>4. CASE ClientLoses \/ Resume
  BY <1>4, SnapshotsEmptied DEF ClientLoses, Resume
<1> QED BY <1>1, <1>2, <1>3, <1>4, SnapshotsRestored, SnapshotsAdvance, SnapshotsReceive DEF Next

\* A connection whose browser keeps displaying what it did, while more may be told.
LEMMA ShownStays ==
    ASSUME TypeOK, ShownInv, UNCHANGED <<outbox, shown>>, Len(applied') \in Nat,
           Len(applied) <= Len(applied'),
           NEW m, m.type = "snapshot" => m.applied = Len(applied'),
           \A k \in DOMAIN toClient' : \/ k \in DOMAIN toClient /\ toClient'[k] = toClient[k]
                                       \/ toClient'[k] = m
    PROVE  ShownInv'
<1> SUFFICES ASSUME outbox.on = TRUE
             PROVE  /\ shown <= Len(applied')
                    /\ \A k \in DOMAIN toClient' : toClient'[k].type = "snapshot" =>
                           shown <= toClient'[k].applied
  BY DEF ShownInv
<1>1. shown <= Len(applied')
  BY LineTypes DEF ShownInv, TypeOK
<1> QED BY <1>1 DEF ShownInv

LEMMA ShownReceive == ASSUME TypeOK, SnapshotsInv, ShownInv, Receive PROVE ShownInv'
<1> DEFINE message == Head(toClient)
<1>1. toClient # <<>> /\ toClient' = Tail(toClient) /\ UNCHANGED applied
  BY DEF Receive, server
<1>2. /\ message = toClient[1] /\ 1 \in DOMAIN toClient
      /\ \A k \in DOMAIN toClient' : k + 1 \in DOMAIN toClient /\ 1 < k + 1
                                     /\ toClient'[k] = toClient[k + 1]
  BY <1>1, ReadMessage, StepTypes
<1>3. \A k \in DOMAIN toClient : toClient[k].type = "snapshot" =>
         toClient[k].applied \in Nat /\ toClient[k].applied <= Len(applied)
  <2>1. \A k \in DOMAIN toClient : toClient[k].type = "snapshot" => toClient[k] \in Snapshots
    BY StepTypes DEF Messages, StartMessages, Acknowledgements
  <2> QED BY <2>1 DEF SnapshotsInv, Truthful, Snapshots
<1> HIDE DEF message
<1>4. CASE message.type = "start" /\ ReceiveStart(message)
  <2>1. shown' = 0 /\ Len(applied) \in Nat
    BY <1>4, LineTypes DEF ReceiveStart
  <2> QED BY <1>1, <1>2, <1>3, <2>1 DEF ShownInv
<1>5. CASE message.type = "ack" /\ ReceiveAck(message)
  <2>1. shown' = shown /\ outbox'.on = outbox.on
    BY <1>1, <1>5, OutboxKept DEF ReceiveAck, message
  <2> QED BY <1>1, <1>2, <2>1 DEF ShownInv
<1>6. CASE message.type = "snapshot" /\ ReceiveSnapshot(message)
  <2>1. shown' = message.applied
    BY <1>6 DEF ReceiveSnapshot
  <2>2. \A k \in DOMAIN toClient' : toClient'[k].type = "snapshot" =>
           message.applied <= toClient'[k].applied
    BY <1>2, <1>6 DEF SnapshotsInv
  <2>3. message.applied <= Len(applied)
    BY <1>2, <1>3, <1>6
  <2> QED BY <1>1, <2>1, <2>2, <2>3 DEF ShownInv
<1> QED BY <1>4, <1>5, <1>6 DEF Receive, message

LEMMA ShownNext ==
    ASSUME TypeOK, ConstantAssumption, LineInv, ConnectionInv, SnapshotsInv, ShownInv, [Next]_vars
    PROVE  ShownInv'
<1>1. CASE Start
  <2>1. UNCHANGED <<applied, outbox, shown>> /\ Sent(<<StartMessage(queue.epoch)>>)
    BY <1>1 DEF Start, client
  <2>2. StartMessage(queue.epoch) \in Messages /\ StartMessage(queue.epoch).type # "snapshot"
    BY MessageTypes, LineTypes DEF Messages, StartMessage
  <2>3. Len(applied') \in Nat /\ Len(applied) <= Len(applied')
    BY <2>1, LineTypes
  <2> QED BY <2>1, <2>2, <2>3, Joined, ShownStays
<1>2. CASE Restored \/ ClientLoses \/ Resume
  <2>1. outbox'.on = FALSE
    BY <1>2 DEF Restored, ConnectionInv, client, ClientLoses, Resume, NoOutbox, TypeOK
  <2> QED BY <2>1 DEF ShownInv
<1>3. CASE ReceiveInput
  <2>1. UNCHANGED <<applied, outbox, shown>>
    BY <1>3 DEF ReceiveInput, client
  <2>2. CASE UNCHANGED toClient
    BY <2>1, <2>2 DEF ShownInv
  <2>3. ASSUME NEW m \in Acknowledgements, Sent(<<m>>) PROVE ShownInv'
    <3>1. m \in Messages /\ m.type # "snapshot"
      BY DEF Messages, Acknowledgements
    <3>2. Len(applied') \in Nat /\ Len(applied) <= Len(applied')
      BY <2>1, LineTypes
    <3> QED BY <2>1, <2>3, <3>1, <3>2, Joined, ShownStays
  <2> QED BY <1>3, <2>2, <2>3, Acknowledged
<1>4. CASE Advance
  <2>1. applied' = applied \o queue.scheduled /\ UNCHANGED <<outbox, shown>>
    BY <1>4, LineWaits, Drained DEF Advance, client
  <2>2. Len(applied') \in Nat /\ Len(applied) <= Len(applied')
    BY <2>1, LineTypes
  <2>3. CASE UNCHANGED toClient
    <3> DEFINE m == [type |-> "start"]
    <3>1. m.type # "snapshot"
      OBVIOUS
    <3> QED BY <2>1, <2>2, <2>3, <3>1, ShownStays
  <2>4. CASE Sent(<<Snapshot'>>)
    <3>1. Snapshot' = [type |-> "snapshot", frame |-> frame', applied |-> Len(applied')]
      BY DEF Snapshot
    <3>2. frame' \in Nat
      BY <1>4 DEF Advance, TypeOK
    <3>3. Snapshot' \in Messages /\ Snapshot'.applied = Len(applied')
      BY <3>1, <3>2, <2>2 DEF Messages, Snapshots
    <3> QED BY <2>1, <2>2, <2>4, <3>3, Joined, ShownStays
  <2> QED BY <1>4, <2>3, <2>4 DEF Advance
<1>5. CASE ServerLoses \/ Press \/ UNCHANGED vars
  <2>1. UNCHANGED <<toClient, applied, shown>> /\ outbox'.on = outbox.on
    BY <1>5 DEF ServerLoses, Press, vars, server, client, TypeOK, OutboxType
  <2> QED BY <2>1 DEF ShownInv
<1> QED BY <1>1, <1>2, <1>3, <1>4, <1>5, ShownReceive DEF Next

(************************* the presses and the numbers *********************)

\* The key presses before this connection: number n is the press Base + 1 + n.
Base == acts - outbox.next

\* Whatever of this connection has been applied, is scheduled, on its way or predicted is
\* numbered in the order of the presses.
NumberedInv ==
    outbox.on = TRUE =>
      /\ 0 <= Base
      /\ \A i \in 1 .. Len(applied) :
           /\ i <= Older => applied[i].act <= Base
           /\ i > Older => applied[i].act = Base + i - Older
      /\ \A j \in 1 .. Len(queue.scheduled) :
           queue.scheduled[j].act = Base + Len(applied) - Older + j
      /\ \A j \in 1 .. Len(toServer) : toServer[j].act = Base + 1 + toServer[j].sequence
      /\ \A p \in Range(outbox.pending) :
           p \in Prediction /\ p.sequence < outbox.next /\ p.act = Base + 1 + p.sequence

LEMMA NumberedTypes == ASSUME TypeOK PROVE Base \in Int
BY LineTypes, StepTypes DEF Base

LEMMA NumberedOff == ASSUME outbox'.on = FALSE PROVE NumberedInv'
BY DEF NumberedInv

LEMMA NumberedScheduled ==
    ASSUME TypeOK, ConstantAssumption, LineInv, StepInv, NumberedInv, ReceiveInput, outbox.on = TRUE
    PROVE  NumberedInv'
<1> DEFINE input == toServer[1]
           s == queue.scheduled
           n == Len(s)
<1>1. /\ toServer # <<>> /\ toServer' = Tail(toServer)
      /\ UNCHANGED <<frame, applied, acts, outbox>>
  BY DEF ReceiveInput, client
<1>2. Head(toServer) = input /\ input \in Sending /\ 1 \in 1 .. Len(toServer)
      /\ \A i \in 1 .. Len(toServer') : i + 1 \in 1 .. Len(toServer) /\ toServer'[i] = toServer[i + 1]
  BY <1>1, Read
<1>3. \A j \in 1 .. Len(toServer') : toServer'[j].act = Base + 1 + toServer'[j].sequence
  BY <1>2 DEF NumberedInv
<1>4. Base' = Base
  BY <1>1 DEF Base
<1>5. s \in Seq(Input) /\ n \in Nat /\ Len(applied) \in Nat /\ queue.next \in Nat /\ Older \in Int
      /\ Base \in Int
  BY LineTypes, NumberedTypes
<1>6. CASE UNCHANGED queue
  <2>1. Older' = Older
    BY <1>1, <1>6 DEF Older
  <2> QED BY <1>1, <1>3, <1>4, <1>6, <2>1 DEF NumberedInv
<1>7. CASE Taken(input) /\ Schedule(input)
  <2> DEFINE one == [sequence |-> input.sequence, epoch |-> input.epoch,
                     frame |-> frame + 1, act |-> input.act]
  <2>1. /\ one \in Input /\ queue'.next = queue.next + 1 /\ queue'.scheduled = Append(s, one)
        /\ input.sequence = queue.next
    BY <1>2, <1>7, Scheduled
  <2>2. one.act = Base + 1 + queue.next
    BY <1>2, <2>1 DEF NumberedInv
  <2> HIDE DEF one
  <2>3. Len(queue'.scheduled) = n + 1 /\ queue'.scheduled[n + 1] = one
        /\ \A j \in 1 .. n : queue'.scheduled[j] = s[j]
    BY <1>5, <2>1
  <2>4. Older' = Older /\ Older = Len(applied) + n - queue.next
    <3>1. Older' = Len(applied) + (n + 1) - (queue.next + 1)
      BY <1>1, <2>1, <2>3 DEF Older
    <3>2. Older = Len(applied) + n - queue.next
      BY DEF Older
    <3> QED BY <1>5, <3>1, <3>2, SMTT(20)
  <2>5. ASSUME NEW j \in 1 .. Len(queue'.scheduled)
        PROVE  queue'.scheduled[j].act = Base + Len(applied) - Older + j
    <3>1. CASE j \in 1 .. n
      BY <2>3, <3>1 DEF NumberedInv
    <3>2. CASE j = n + 1
      <4>1. queue'.scheduled[j].act = Base + 1 + queue.next
        BY <2>2, <2>3, <3>2
      <4>2. Base + 1 + queue.next = Base + Len(applied) - Older + (n + 1)
        <5>1. Len(applied) - Older = queue.next - n
          BY <1>5, <2>4
        <5>2. Base + 1 + queue.next = Base + (queue.next - n) + (n + 1)
          <6>1. \A b, q, m \in Int : b + 1 + q = b + (q - m) + (m + 1)
            OBVIOUS
          <6>2. Base \in Int /\ queue.next \in Int /\ n \in Int
            BY <1>5
          <6> HIDE DEF n
          <6> QED BY <6>1, <6>2
        <5>3. Base + Len(applied) - Older + (n + 1) = Base + (Len(applied) - Older) + (n + 1)
          OBVIOUS
        <5> QED BY <5>1, <5>2, <5>3
      <4> QED BY <3>2, <4>1, <4>2
    <3> QED BY <1>5, <2>3, <3>1, <3>2
  <2> QED BY <1>1, <1>3, <1>4, <2>4, <2>5 DEF NumberedInv
<1> QED BY <1>2, <1>6, <1>7 DEF ReceiveInput, Enqueue, Drop

LEMMA NumberedAdvance ==
    ASSUME TypeOK, ConstantAssumption, LineInv, NumberedInv, Advance, outbox.on = TRUE
    PROVE  NumberedInv'
<1> DEFINE a == Len(applied)
           s == queue.scheduled
<1>1. applied' = applied \o s /\ queue'.scheduled = <<>> /\ queue'.next = queue.next
  BY LineWaits, Drained
<1>2. UNCHANGED <<toServer, acts, outbox>>
  BY DEF Advance, client
<1>3. applied \in Seq(Input) /\ s \in Seq(Input) /\ a \in Nat /\ Len(s) \in Nat
      /\ queue.next \in Nat /\ Older \in Int /\ Base \in Int /\ Older <= a
  BY LineTypes, NumberedTypes DEF LineInv, Placed
<1>4. Len(applied') = a + Len(s) /\ Len(queue'.scheduled) = 0
  BY <1>1, <1>3
<1>5. Older' = Older
  BY <1>1, <1>3, <1>4 DEF Older
<1>6. Base' = Base
  BY <1>2 DEF Base
<1>7. ASSUME NEW i \in 1 .. Len(applied')
      PROVE  /\ i <= Older => applied'[i].act <= Base
             /\ i > Older => applied'[i].act = Base + i - Older
  <2>1. CASE i \in 1 .. a
    <3>1. applied'[i] = applied[i]
      BY <1>1, <1>3, <2>1
    <3> QED BY <2>1, <3>1 DEF NumberedInv
  <2>2. CASE i \notin 1 .. a
    <3>1. i - a \in 1 .. Len(s) /\ applied'[i] = s[i - a] /\ i > Older
      BY <1>1, <1>3, <1>4, <2>2
    <3>2. s[i - a].act = Base + a - Older + (i - a)
      BY <3>1 DEF NumberedInv
    <3>3. Base + a - Older + (i - a) = Base + i - Older
      BY <1>3
    <3> QED BY <1>3, <3>1, <3>2, <3>3
  <2> QED BY <2>1, <2>2
<1>8. 1 .. Len(queue'.scheduled) = {}
  BY <1>4
<1> QED BY <1>2, <1>5, <1>6, <1>7, <1>8 DEF NumberedInv

LEMMA NumberedPress == ASSUME TypeOK, NumberedInv, Press PROVE NumberedInv'
<1> DEFINE m == [epoch |-> outbox.epoch, sequence |-> outbox.next,
                 clientFrame |-> outbox.frame, act |-> acts']
           p == [sequence |-> outbox.next, act |-> acts']
<1>1. /\ outbox.on = TRUE /\ outbox'.next = outbox.next + 1 /\ acts' = acts + 1
      /\ outbox'.pending = Append(outbox.pending, p)
      /\ toServer' = IF active THEN Append(toServer, m) ELSE toServer
      /\ UNCHANGED <<queue, applied>>
  BY StepTypes DEF Press, server, OutboxType
<1>2. outbox.next \in Nat /\ acts \in Nat /\ toServer \in Seq(Sending) /\ Base \in Int
      /\ outbox.pending \in Seq(Prediction)
  BY LineTypes, StepTypes, NumberedTypes
<1>3. Base' = Base /\ Older' = Older /\ acts + 1 = Base + 1 + outbox.next
  BY <1>1, <1>2, SMTT(20) DEF Base, Older
<1>4. /\ p \in Prediction /\ p.sequence = outbox.next /\ p.act = Base + 1 + outbox.next
      /\ m.sequence = outbox.next /\ m.act = Base + 1 + outbox.next
  BY <1>1, <1>2, <1>3 DEF Prediction
<1> HIDE DEF m, p
<1>5. ASSUME NEW j \in 1 .. Len(toServer')
      PROVE  toServer'[j].act = Base + 1 + toServer'[j].sequence
  <2>1. \/ j \in 1 .. Len(toServer) /\ toServer'[j] = toServer[j]
        \/ toServer'[j] = m
    BY <1>1, <1>2
  <2> QED BY <1>1, <1>4, <2>1 DEF NumberedInv
<1>6. ASSUME NEW q \in Range(outbox'.pending)
      PROVE  q \in Prediction /\ q.sequence < outbox'.next /\ q.act = Base + 1 + q.sequence
  <2>1. q \in Range(outbox.pending) \/ q = p
    BY <1>1, <1>2, <1>4, RangeOfAppend
  <2>2. CASE q \in Range(outbox.pending)
    <3>1. q \in Prediction /\ q.sequence < outbox.next /\ q.act = Base + 1 + q.sequence
      BY <1>1, <2>2 DEF NumberedInv
    <3> QED BY <1>1, <1>2, <3>1 DEF Prediction
  <2>3. CASE q = p
    BY <1>1, <1>2, <1>4, <2>3
  <2> QED BY <2>1, <2>2, <2>3
<1> QED BY <1>1, <1>3, <1>5, <1>6 DEF NumberedInv

LEMMA NumberedReceive == ASSUME TypeOK, LineInv, StepInv, NumberedInv, Receive PROVE NumberedInv'
<1> DEFINE message == Head(toClient)
<1>1. toClient # <<>> /\ toClient' = Tail(toClient)
      /\ UNCHANGED <<toServer, queue, applied, acts>>
  BY DEF Receive, server
<1>2. Older' = Older
  BY <1>1 DEF Older
<1>3. CASE message.type # "start"
  <2>1. outbox'.on = outbox.on /\ outbox'.next = outbox.next
        /\ \A p \in Range(outbox'.pending) : p \in Range(outbox.pending)
    BY <1>3, OutboxKept
  <2>2. Base' = Base
    BY <1>1, <2>1 DEF Base
  <2> QED BY <1>1, <1>2, <2>1, <2>2 DEF NumberedInv
<1>4. CASE message.type = "start"
  <2>1. outbox'.next = 0 /\ outbox'.pending = <<>>
    <3>1. ReceiveStart(message)
      BY <1>4 DEF Receive
    <3> QED BY <3>1 DEF ReceiveStart, NoOutbox
  <2>2. toServer = <<>> /\ queue.next = 0
    <3>1. message = toClient[1] /\ 1 \in DOMAIN toClient
      BY <1>1, ReadMessage
    <3> QED BY <1>4, <3>1 DEF StepInv, ConnectionInv, StartFindsFresh
  <2>3. acts \in Nat /\ Base' = acts
    BY <1>1, <2>1, LineTypes DEF Base
  <2>4. Len(queue.scheduled) = 0 /\ Older = Len(applied)
    <3>1. Older = Len(applied) + Len(queue.scheduled) - queue.next /\ Older <= Len(applied)
      BY DEF Older, LineInv, Placed
    <3>2. Len(applied) \in Nat /\ Len(queue.scheduled) \in Nat /\ Older \in Int
      BY LineTypes
    <3> QED BY <2>2, <3>1, <3>2
  <2>5. \A i \in 1 .. Len(applied) : i <= Older /\ applied[i].act <= acts
    BY <2>4, LineTypes DEF LineInv, ActsRise, Made
  <2>6. 1 .. Len(queue.scheduled) = {} /\ 1 .. Len(toServer) = {} /\ Range(<<>>) = {}
    BY <2>2, <2>4 DEF Range
  <2>7. \A i \in 1 .. Len(applied) : ~(i > Older)
    BY <2>5, LineTypes
  <2> QED BY <1>1, <1>2, <2>1, <2>3, <2>5, <2>6, <2>7 DEF NumberedInv
<1> QED BY <1>3, <1>4

LEMMA NumberedNext ==
    ASSUME TypeOK, ConstantAssumption, LineInv, StepInv, NumberedInv, [Next]_vars
    PROVE  NumberedInv'
<1>1. CASE Restored \/ ClientLoses \/ Resume
  <2>1. outbox'.on = FALSE
    BY <1>1 DEF Restored, StepInv, ConnectionInv, client, ClientLoses, Resume, NoOutbox, TypeOK
  <2> QED BY <2>1, NumberedOff
<1>2. CASE Start \/ UNCHANGED vars
  BY <1>2 DEF Start, vars, connection, client, server, NumberedInv, Base, Older
<1>3. CASE ServerLoses
  <2>1. toServer' = <<>> /\ UNCHANGED <<queue, applied, acts, outbox>>
    BY <1>3 DEF ServerLoses, server, client
  <2>2. 1 .. Len(toServer') = {}
    BY <2>1
  <2> QED BY <2>1, <2>2 DEF NumberedInv, Base, Older
<1>4. CASE ReceiveInput \/ Advance
  <2>1. outbox' = outbox /\ outbox.on \in BOOLEAN
    BY <1>4, StepTypes DEF ReceiveInput, Advance, client
  <2> QED BY <1>4, <2>1, NumberedScheduled, NumberedAdvance, NumberedOff
<1> QED BY <1>1, <1>2, <1>3, <1>4, NumberedPress, NumberedReceive DEF Next

(************************ what the browser knows of them *******************)

\* The frame number s of the epoch was or will be applied in.
FrameOf(s) == IF Older + 1 + s <= Len(applied) THEN applied[Older + 1 + s].frame ELSE frame + 1

\* No prediction is left of number s, nor of one before it.
Contained(s) == \A p \in Range(outbox.pending) : p.sequence > s

\* The browser has been told the frame of number s, or is before it reads message k.
Acked(s, k) ==
    \/ <<s, FrameOf(s)>> \in scheduledInputs
    \/ Contained(s)
    \/ \E l \in 1 .. (k - 1) : toClient[l] = Disposition(s, "scheduled", FrameOf(s))

AcksAreTrue ==
    /\ \A k \in DOMAIN toClient : toClient[k].type = "ack" =>
         /\ toClient[k].status = "scheduled" => \E s \in 0 .. (queue.next - 1) :
                toClient[k].sequence = s /\ toClient[k].frame = FrameOf(s)
         /\ toClient[k].status # "scheduled" => refused = TRUE
    /\ \A x \in scheduledInputs : \E s \in 0 .. (queue.next - 1) : x = <<s, FrameOf(s)>>

\* Every input that was scheduled is acknowledged, and before a snapshot contains it.
AcksCome ==
    /\ \A k \in Nat, s \in 0 .. (queue.next - 1) : k = Len(toClient) + 1 => Acked(s, k)
    /\ \A k \in DOMAIN toClient, s \in 0 .. (queue.next - 1) :
         toClient[k].type = "snapshot" /\ Older + 1 + s <= toClient[k].applied => Acked(s, k)

\* What is displayed is not predicted; what is not displayed is, unless it was refused.
DisplayIsWhole ==
    /\ \A s \in 0 .. (queue.next - 1) : Older + 1 + s <= shown => Contained(s)
    /\ refused = FALSE => \A s \in 0 .. (outbox.next - 1) :
         Older + 1 + s <= shown \/ \E p \in Range(outbox.pending) : p.sequence = s

ToldInv == outbox.on = TRUE => AcksAreTrue /\ AcksCome /\ DisplayIsWhole

LEMMA ToldOff == ASSUME outbox'.on = FALSE PROVE ToldInv'
BY DEF ToldInv

LEMMA ToldTypes ==
    ASSUME TypeOK, LineInv
    PROVE  /\ Older \in Int /\ Len(applied) \in Nat /\ Len(toClient) \in Nat /\ queue.next \in Nat
           /\ outbox.next \in Nat /\ frame \in Nat /\ shown \in Nat
           /\ 0 <= Older /\ Older <= Len(applied)
           /\ Older + queue.next = Len(applied) + Len(queue.scheduled)
           /\ Len(queue.scheduled) \in Nat
           /\ \A s \in scheduledInputs : s[1] \in Nat /\ s[2] \in Nat
<1>1. /\ Older \in Int /\ Len(applied) \in Nat /\ Len(toClient) \in Nat /\ queue.next \in Nat
      /\ outbox.next \in Nat /\ frame \in Nat /\ shown \in Nat
      /\ 0 <= Older /\ Older <= Len(applied) /\ Len(queue.scheduled) \in Nat
  BY LineTypes, StepTypes DEF LineInv, Placed, TypeOK
<1>2. Older = Len(applied) + Len(queue.scheduled) - queue.next
  BY DEF Older
<1>3. Older + queue.next = Len(applied) + Len(queue.scheduled)
  BY <1>1, <1>2
<1> QED BY <1>1, <1>3 DEF TypeOK

\* A message joins the channel, and the frames that were told stay true.
LEMMA AckedStays ==
    ASSUME TypeOK, UNCHANGED <<outbox, scheduledInputs>>,
           NEW s, FrameOf(s)' = FrameOf(s),
           \A l \in DOMAIN toClient : l \in DOMAIN toClient' /\ toClient'[l] = toClient[l],
           NEW k \in Nat, k <= Len(toClient) + 1, NEW h \in Nat, k <= h, Acked(s, k)
    PROVE  Acked(s, h)'
<1>1. CASE <<s, FrameOf(s)>> \in scheduledInputs
  BY <1>1 DEF Acked
<1>2. CASE Contained(s)
  BY <1>2 DEF Acked, Contained
<1>3. ASSUME NEW l \in 1 .. (k - 1), toClient[l] = Disposition(s, "scheduled", FrameOf(s))
      PROVE  Acked(s, h)'
  <2>1. l \in DOMAIN toClient /\ l \in 1 .. (h - 1)
    BY StepTypes
  <2>2. toClient'[l] = Disposition(s, "scheduled", FrameOf(s)')
    BY <1>3, <2>1
  <2>3. \E j \in 1 .. (h - 1) : toClient'[j] = Disposition(s, "scheduled", FrameOf(s)')
    BY <2>1, <2>2
  <2> QED BY <2>3 DEF Acked, Disposition
<1> QED BY <1>1, <1>2, <1>3 DEF Acked

LEMMA ToldPress == ASSUME TypeOK, LineInv, StepInv, ToldInv, Press PROVE ToldInv'
<1> DEFINE p == [sequence |-> outbox.next, act |-> acts']
<1>1. /\ outbox.on = TRUE /\ outbox'.next = outbox.next + 1
      /\ outbox'.pending = Append(outbox.pending, p)
      /\ UNCHANGED <<toClient, queue, applied, frame, refused, scheduledInputs, shown>>
  BY StepTypes DEF Press, server, OutboxType
<1>2. p \in Prediction /\ p.sequence = outbox.next
  BY StepTypes DEF Prediction, Press, TypeOK
<1> HIDE DEF p
<1>3. Range(outbox'.pending) = Range(outbox.pending) \cup {p}
  BY <1>1, <1>2, StepTypes, RangeOfAppend
<1>4. \A s : FrameOf(s)' = FrameOf(s) /\ Older' = Older
  BY <1>1 DEF FrameOf, Older
<1>5. queue.next <= outbox.next
  <2>1. queue.next <= outbox.next - Len(toServer) /\ Len(toServer) \in Nat
    BY <1>1, LineTypes DEF StepInv, SendingInv
  <2> QED BY <2>1, StepTypes, LineTypes, SMTT(20)
<1>6. ASSUME NEW s \in 0 .. (queue.next - 1), Contained(s) PROVE Contained(s)'
  <2>1. outbox.next > s
    BY <1>5, StepTypes, LineTypes, SMTT(20)
  <2> QED BY <1>2, <1>3, <1>6, <2>1 DEF Contained
<1>7. \A s \in 0 .. (queue.next - 1) : \A k : Acked(s, k) => Acked(s, k)'
  BY <1>1, <1>4, <1>6 DEF Acked, Disposition
<1>8. AcksAreTrue /\ AcksCome /\ DisplayIsWhole
  BY <1>1 DEF ToldInv
<1>9. AcksAreTrue'
  BY <1>1, <1>4, <1>8 DEF AcksAreTrue
<1>10. AcksCome'
  BY <1>1, <1>4, <1>7, <1>8 DEF AcksCome
<1>11. DisplayIsWhole'
  <2>1. \A s \in 0 .. (queue.next - 1) : Older + 1 + s <= shown => Contained(s)'
    BY <1>6, <1>8 DEF DisplayIsWhole
  <2>2. ASSUME refused = FALSE, NEW s \in 0 .. (outbox'.next - 1)
        PROVE  Older + 1 + s <= shown \/ \E q \in Range(outbox'.pending) : q.sequence = s
    <3>1. CASE s \in 0 .. (outbox.next - 1)
      BY <1>3, <1>8, <2>2, <3>1 DEF DisplayIsWhole
    <3>2. CASE s = outbox.next
      BY <1>2, <1>3, <3>2
    <3> QED BY <1>1, <3>1, <3>2, StepTypes
  <2> QED BY <1>1, <1>4, <2>1, <2>2 DEF DisplayIsWhole
<1> QED BY <1>9, <1>10, <1>11 DEF ToldInv

\* The acknowledgement follows the numbers it concerns.
LEMMA ToldScheduled ==
    ASSUME TypeOK, ConstantAssumption, LineInv, SnapshotsInv, ShownInv, ToldInv, outbox.on = TRUE,
           active = TRUE, NEW input \in Sending, Taken(input), Schedule(input),
           UNCHANGED <<frame, applied, refused, outbox, scheduledInputs, shown>>
    PROVE  ToldInv'
<1> DEFINE n == Len(toClient)
           d == Disposition(queue.next, "scheduled", frame + 1)
<1>1. /\ queue'.next = queue.next + 1 /\ d \in Acknowledgements /\ Sent(<<d>>)
      /\ Len(queue'.scheduled) = Len(queue.scheduled) + 1
  <2> DEFINE one == [sequence |-> input.sequence, epoch |-> input.epoch,
                     frame |-> frame + 1, act |-> input.act]
  <2>1. /\ queue'.next = queue.next + 1 /\ d \in Acknowledgements /\ Sent(<<d>>)
        /\ one \in Input /\ queue'.scheduled = Append(queue.scheduled, one)
    BY Scheduled
  <2>2. queue.scheduled \in Seq(Input)
    BY LineTypes
  <2> HIDE DEF one, d
  <2> QED BY <2>1, <2>2
<1>2. d \in Messages /\ d.type = "ack" /\ d.status = "scheduled" /\ d.sequence = queue.next
      /\ d.frame = frame + 1
  BY <1>1 DEF Messages, Disposition
<1>3. /\ \A k \in DOMAIN toClient' : \/ k \in DOMAIN toClient /\ toClient'[k] = toClient[k]
                                     \/ k = n + 1 /\ toClient'[k] = d
      /\ \A k \in DOMAIN toClient : k \in DOMAIN toClient' /\ toClient'[k] = toClient[k]
      /\ Len(toClient') = n + 1 /\ DOMAIN toClient' = 1 .. (n + 1) /\ DOMAIN toClient = 1 .. n
  <2>1. toClient' \in Seq(Messages)
    BY <1>1, <1>2, SentOne
  <2> QED BY <1>1, <1>2, <2>1, SentOne, StepTypes
<1>4. /\ Older \in Int /\ Len(applied) \in Nat /\ n \in Nat /\ queue.next \in Nat /\ shown \in Nat
      /\ Older + queue.next = Len(applied) + Len(queue.scheduled) /\ Len(queue.scheduled) \in Nat
  BY ToldTypes
<1>5. Older' = Older
  <2>1. Older' = Len(applied) + (Len(queue.scheduled) + 1) - (queue.next + 1)
    BY <1>1 DEF Older
  <2>2. Older = Len(applied) + Len(queue.scheduled) - queue.next
    BY DEF Older
  <2>3. \A l, m, q \in Int : l + (m + 1) - (q + 1) = l + m - q
    OBVIOUS
  <2>4. Len(applied) \in Int /\ Len(queue.scheduled) \in Int /\ queue.next \in Int
    BY <1>4
  <2> QED BY <2>1, <2>2, <2>3, <2>4
<1>6. \A s : FrameOf(s)' = FrameOf(s)
  BY <1>5 DEF FrameOf
<1>7. Older + 1 + queue.next > Len(applied) /\ FrameOf(queue.next) = frame + 1
  <2>1. Older + 1 + queue.next > Len(applied)
    BY <1>4
  <2>2. ~(Older + 1 + queue.next <= Len(applied))
    BY <1>4, <2>1
  <2> QED BY <2>1, <2>2 DEF FrameOf
<1>8. AcksAreTrue /\ AcksCome /\ DisplayIsWhole
  BY DEF ToldInv
<1> HIDE DEF d
<1>9. \A s \in 0 .. (queue'.next - 1) : s \in 0 .. (queue.next - 1) \/ s = queue.next
  BY <1>1, <1>4
<1>10. AcksAreTrue'
  <2>1. 0 .. (queue.next - 1) \subseteq 0 .. (queue'.next - 1) /\ queue.next \in 0 .. (queue'.next - 1)
    BY <1>1, <1>4
  <2>2. ASSUME NEW k \in DOMAIN toClient', toClient'[k].type = "ack"
        PROVE  /\ toClient'[k].status = "scheduled" => \E s \in 0 .. (queue'.next - 1) :
                      toClient'[k].sequence = s /\ toClient'[k].frame = FrameOf(s)
               /\ toClient'[k].status # "scheduled" => refused = TRUE
    <3>1. CASE k \in DOMAIN toClient /\ toClient'[k] = toClient[k]
      BY <1>8, <2>1, <2>2, <3>1 DEF AcksAreTrue
    <3>2. CASE toClient'[k] = d
      BY <1>2, <1>7, <2>1, <3>2
    <3> QED BY <1>3, <3>1, <3>2
  <2>3. \A x \in scheduledInputs : \E s \in 0 .. (queue'.next - 1) : x = <<s, FrameOf(s)>>
    BY <1>8, <2>1 DEF AcksAreTrue
  <2> QED BY <1>6, <2>2, <2>3 DEF AcksAreTrue
<1>11. AcksCome'
  <2>1. ASSUME NEW h \in Nat, h = Len(toClient') + 1, NEW s \in 0 .. (queue'.next - 1)
        PROVE  Acked(s, h)'
    <3>1. CASE s \in 0 .. (queue.next - 1)
      <4>1. PICK k \in Nat : k = Len(toClient) + 1
        BY <1>4
      <4>2. Acked(s, k)
        BY <1>8, <3>1, <4>1 DEF AcksCome
      <4>3. k <= h
        BY <1>3, <1>4, <2>1, <4>1
      <4>4. FrameOf(s)' = FrameOf(s)
        BY <1>6
      <4> QED BY <1>3, <4>1, <4>2, <4>3, <4>4, AckedStays
    <3>2. CASE s = queue.next
      <4>1. toClient'[n + 1] = Disposition(s, "scheduled", FrameOf(s)')
        <5>1. n + 1 \in DOMAIN toClient' /\ n + 1 \notin DOMAIN toClient
          BY <1>3, <1>4
        <5>2. FrameOf(s)' = frame + 1
          BY <1>6, <1>7, <3>2
        <5> QED BY <1>3, <3>2, <5>1, <5>2 DEF d
      <4>2. n + 1 \in 1 .. (h - 1)
        BY <1>3, <1>4, <2>1
      <4>3. \E l \in 1 .. (h - 1) : toClient'[l] = Disposition(s, "scheduled", FrameOf(s)')
        BY <4>1, <4>2
      <4> QED BY <4>3 DEF Acked, Disposition
    <3> QED BY <1>9, <3>1, <3>2
  <2>2. ASSUME NEW k \in DOMAIN toClient', NEW s \in 0 .. (queue'.next - 1),
               toClient'[k].type = "snapshot", Older + 1 + s <= toClient'[k].applied
        PROVE  Acked(s, k)'
    <3>1. k \in DOMAIN toClient /\ toClient'[k] = toClient[k] /\ k \in Nat /\ k <= Len(toClient) + 1
      BY <1>2, <1>3, <1>4, <2>2
    <3>2. s # queue.next
      <4>1. toClient[k].applied <= Len(applied) /\ toClient[k].applied \in Nat
        BY <2>2, <3>1, StepTypes
        DEF SnapshotsInv, Truthful, Messages, StartMessages, Snapshots, Acknowledgements
      <4> QED BY <1>4, <1>7, <2>2, <3>1, <4>1
    <3>3. Acked(s, k)
      BY <1>8, <1>9, <2>2, <3>1, <3>2 DEF AcksCome
    <3>4. FrameOf(s)' = FrameOf(s)
      BY <1>6
    <3> QED BY <1>3, <3>1, <3>3, <3>4, AckedStays
  <2> QED BY <1>3, <1>5, <2>1, <2>2 DEF AcksCome
<1>12. DisplayIsWhole'
  <2>1. ASSUME NEW s \in 0 .. (queue'.next - 1), Older + 1 + s <= shown PROVE Contained(s)
    <3>1. s # queue.next
      BY <1>4, <1>7, <2>1 DEF ShownInv
    <3> QED BY <1>8, <1>9, <2>1, <3>1 DEF DisplayIsWhole
  <2>2. \A s : Contained(s)' <=> Contained(s)
    BY DEF Contained
  <2> QED BY <1>5, <1>8, <2>1, <2>2 DEF DisplayIsWhole
<1> QED BY <1>10, <1>11, <1>12 DEF ToldInv

\* An input that is not taken is not one of the numbers that were: it is rejected.
LEMMA NotRecalled ==
    ASSUME TypeOK, LineInv, StepInv, toServer # <<>>
    PROVE  Answer(toServer[1]) = Rejected(toServer[1].sequence)
<1> DEFINE input == toServer[1]
           chosen == {e \in Range(queue.history) : e.sequence = input.sequence}
           known == Keep(queue.history, chosen)
<1>1. queue.history \in Seq(Acknowledgements) /\ queue.next \in Nat
      /\ DOMAIN queue.history = 1 .. Len(queue.history)
  BY LineTypes
<1>2. 1 \in 1 .. Len(toServer) /\ input.sequence \in Nat
  BY LineTypes
<1>3. queue.next <= input.sequence
  BY <1>2 DEF StepInv, SendingInv
<1>4. \A e \in Range(queue.history) : e.sequence \in Nat /\ e.sequence < queue.next
  <2>1. \A i \in DOMAIN queue.history : queue.history[i] \in Acknowledgements
    BY <1>1
  <2> QED BY <1>1, <2>1 DEF LineInv, HistoryIsPast, Range, Acknowledgements
<1>5. chosen = {}
  BY <1>1, <1>2, <1>3, <1>4
<1>6. known = <<>>
  BY <1>1, <1>5, KeepNone
<1> QED BY <1>6 DEF Answer

\* A refusal, or an input that is dropped.
LEMMA ToldRefused ==
    ASSUME TypeOK, LineInv, ToldInv, outbox.on = TRUE, refused' = TRUE,
           UNCHANGED <<queue, frame, applied, outbox, scheduledInputs, shown>>,
           NEW m \in Messages, m.type = "ack" /\ m.status # "scheduled",
           UNCHANGED toClient \/ (active = TRUE /\ Sent(<<m>>))
    PROVE  ToldInv'
<1> DEFINE n == Len(toClient)
<1>1. /\ \A k \in DOMAIN toClient' : \/ k \in DOMAIN toClient /\ toClient'[k] = toClient[k]
                                     \/ toClient'[k] = m
      /\ \A k \in DOMAIN toClient : k \in DOMAIN toClient' /\ toClient'[k] = toClient[k]
      /\ Len(toClient') \in Nat /\ n <= Len(toClient')
  <2>1. CASE UNCHANGED toClient
    BY <2>1, StepTypes
  <2>2. CASE active = TRUE /\ Sent(<<m>>)
    BY <2>2, SentOne, StepTypes
  <2> QED BY <2>1, <2>2
<1>2. n \in Nat /\ DOMAIN toClient = 1 .. n
  BY StepTypes
<1>3. Older' = Older /\ \A s : FrameOf(s)' = FrameOf(s)
  BY DEF Older, FrameOf
<1>4. AcksAreTrue /\ AcksCome /\ DisplayIsWhole
  BY DEF ToldInv
<1>5. AcksAreTrue'
  BY <1>1, <1>3, <1>4 DEF AcksAreTrue
<1>6. AcksCome'
  <2>1. ASSUME NEW h \in Nat, h = Len(toClient') + 1, NEW s \in 0 .. (queue.next - 1)
        PROVE  Acked(s, h)'
    <3>1. PICK k \in Nat : k = Len(toClient) + 1
      BY <1>2
    <3>2. Acked(s, k)
      BY <1>4, <3>1 DEF AcksCome
    <3>3. k <= h
      BY <1>1, <1>2, <2>1, <3>1
    <3>4. FrameOf(s)' = FrameOf(s)
      BY <1>3
    <3> QED BY <1>1, <3>1, <3>2, <3>3, <3>4, AckedStays
  <2>2. ASSUME NEW k \in DOMAIN toClient', NEW s \in 0 .. (queue.next - 1),
               toClient'[k].type = "snapshot", Older + 1 + s <= toClient'[k].applied
        PROVE  Acked(s, k)'
    <3>1. k \in DOMAIN toClient /\ toClient'[k] = toClient[k] /\ k \in Nat /\ k <= Len(toClient) + 1
      BY <1>1, <1>2, <2>2
    <3>2. Acked(s, k)
      BY <1>4, <2>2, <3>1 DEF AcksCome
    <3>3. FrameOf(s)' = FrameOf(s)
      BY <1>3
    <3> QED BY <1>1, <3>1, <3>2, <3>3, AckedStays
  <2> QED BY <1>3, <2>1, <2>2 DEF AcksCome
<1>7. DisplayIsWhole'
  BY <1>3, <1>4 DEF DisplayIsWhole, Contained
<1> QED BY <1>5, <1>6, <1>7 DEF ToldInv

LEMMA ToldReceiveInput ==
    ASSUME TypeOK, ConstantAssumption, LineInv, StepInv, SnapshotsInv, ShownInv, ToldInv,
           outbox.on = TRUE, ReceiveInput
    PROVE  ToldInv'
<1> DEFINE input == toServer[1]
<1>1. /\ active = TRUE /\ toServer # <<>>
      /\ UNCHANGED <<frame, applied, outbox, scheduledInputs, shown>>
  BY StepTypes DEF ReceiveInput, client
<1>2. input = Head(toServer) /\ input \in Sending /\ input.sequence \in Nat
  <2>1. toServer \in Seq(Sending)
    BY DEF TypeOK
  <2>2. toServer[1] \in Sending /\ Head(toServer) = toServer[1]
    BY <1>1, <2>1
  <2> QED BY <2>2 DEF Sending
<1>3. Rejected(input.sequence) \in Messages /\ Rejected(input.sequence).type = "ack"
      /\ Rejected(input.sequence).status # "scheduled"
  BY <1>2, MessageTypes DEF Messages, Rejected, Disposition
<1>4. Answer(input) = Rejected(input.sequence)
  BY <1>1, NotRecalled
<1> HIDE DEF input
<1>5. CASE Taken(input) /\ Schedule(input) /\ UNCHANGED refused
  BY <1>1, <1>2, <1>5, ToldScheduled
<1>6. CASE refused' = TRUE /\ UNCHANGED queue
           /\ (UNCHANGED toClient \/ Sent(<<Rejected(input.sequence)>>))
  BY <1>1, <1>3, <1>6, ToldRefused
<1> QED BY <1>2, <1>4, <1>5, <1>6 DEF ReceiveInput, Enqueue, Drop

\* A frame leaves every frame that was told true.
LEMMA ToldAdvance ==
    ASSUME TypeOK, ConstantAssumption, LineInv, ShownInv, ToldInv, outbox.on = TRUE, Advance
    PROVE  ToldInv'
<1> DEFINE a == Len(applied)
           n == Len(toClient)
<1>1. /\ applied' = applied \o queue.scheduled /\ queue'.scheduled = <<>> /\ queue'.next = queue.next
      /\ frame' = frame + 1 /\ UNCHANGED <<refused, outbox, scheduledInputs, shown>>
  BY LineWaits, Drained DEF Advance, client
<1>2. /\ Older \in Int /\ a \in Nat /\ n \in Nat /\ queue.next \in Nat /\ Len(queue.scheduled) \in Nat
      /\ 0 <= Older /\ Older <= a /\ Older + queue.next = a + Len(queue.scheduled)
      /\ frame \in Nat /\ shown \in Nat /\ DOMAIN toClient = 1 .. n
  BY ToldTypes, StepTypes
<1>3. Len(applied') = a + Len(queue.scheduled) /\ Len(queue'.scheduled) = 0
      /\ \A i \in 1 .. a : applied'[i] = applied[i]
  BY <1>1, LineTypes
<1>4. Older' = Older
  <2>1. Older' = a + Len(queue.scheduled) + 0 - queue.next
    BY <1>1, <1>3 DEF Older
  <2> QED BY <1>2, <2>1 DEF Older
<1>5. ASSUME NEW s \in 0 .. (queue.next - 1) PROVE FrameOf(s)' = FrameOf(s)
  <2>1. FrameOf(s)' = applied'[Older + 1 + s].frame
    <3>1. Older + 1 + s <= Len(applied')
      BY <1>2, <1>3
    <3> QED BY <1>4, <3>1 DEF FrameOf
  <2>2. CASE Older + 1 + s <= a
    <3>1. Older + 1 + s \in 1 .. a
      BY <1>2, <2>2
    <3> QED BY <1>3, <2>1, <2>2, <3>1 DEF FrameOf
  <2>3. CASE ~(Older + 1 + s <= a)
    <3> DEFINE j == Older + 1 + s - a
    <3>1. j \in 1 .. Len(queue.scheduled) /\ Older + 1 + s = a + j
      BY <1>2, <2>3
    <3>2. applied'[a + j] = queue.scheduled[j]
      <4>1. applied \in Seq(Input) /\ queue.scheduled \in Seq(Input)
        BY LineTypes
      <4> HIDE DEF j
      <4> QED BY <1>1, <3>1, <4>1
    <3>3. queue.scheduled[j].frame = frame + 1
      BY <3>1 DEF LineInv, Placed
    <3> QED BY <2>1, <2>3, <3>1, <3>2, <3>3 DEF FrameOf
  <2> QED BY <2>2, <2>3
<1>6. Snapshot' \in Messages /\ Snapshot'.type = "snapshot"
  <2>1. Snapshot' = [type |-> "snapshot", frame |-> frame', applied |-> Len(applied')]
    BY DEF Snapshot
  <2>2. frame' \in Nat /\ Len(applied') \in Nat
    BY <1>1, <1>2, <1>3
  <2> QED BY <2>1, <2>2 DEF Messages, Snapshots
<1>7. /\ \A k \in DOMAIN toClient' : \/ k \in DOMAIN toClient /\ toClient'[k] = toClient[k]
                                     \/ k = n + 1 /\ toClient'[k] = Snapshot'
      /\ \A k \in DOMAIN toClient : k \in DOMAIN toClient' /\ toClient'[k] = toClient[k]
      /\ Len(toClient') \in Nat /\ n <= Len(toClient')
  <2>1. CASE UNCHANGED toClient
    BY <2>1, StepTypes
  <2>2. CASE Sent(<<Snapshot'>>)
    <3>1. toClient' \in Seq(Messages)
      BY <2>2, <1>6, SentOne
    <3>2. \A k \in DOMAIN toClient : k \in DOMAIN toClient'
      BY <2>2, <1>6, SentOne
    <3>3. n <= Len(toClient')
      <4>1. DOMAIN toClient' = 1 .. Len(toClient') /\ Len(toClient') \in Nat
        BY <3>1
      <4>2. n = 0 \/ n \in DOMAIN toClient
        BY <1>2
      <4> QED BY <1>2, <3>2, <4>1, <4>2
    <3> QED BY <2>2, <3>1, <3>3, <1>6, SentOne
  <2> QED BY <2>1, <2>2 DEF Advance
<1>8. AcksAreTrue /\ AcksCome /\ DisplayIsWhole
  BY DEF ToldInv
<1>9. AcksAreTrue'
  <2>1. \A k \in DOMAIN toClient' : toClient'[k].type = "ack" =>
           k \in DOMAIN toClient /\ toClient'[k] = toClient[k]
    BY <1>6, <1>7
  <2> QED BY <1>1, <1>5, <1>8, <2>1 DEF AcksAreTrue
<1>10. AcksCome'
  <2>1. ASSUME NEW h \in Nat, h = Len(toClient') + 1, NEW s \in 0 .. (queue.next - 1)
        PROVE  Acked(s, h)'
    <3>1. PICK k \in Nat : k = Len(toClient) + 1
      BY <1>2
    <3>2. Acked(s, k)
      BY <1>8, <3>1 DEF AcksCome
    <3>3. k <= h
      BY <1>2, <1>7, <2>1, <3>1
    <3>4. FrameOf(s)' = FrameOf(s)
      BY <1>5
    <3> QED BY <1>1, <1>7, <3>1, <3>2, <3>3, <3>4, AckedStays
  <2>2. ASSUME NEW h \in DOMAIN toClient', NEW s \in 0 .. (queue.next - 1),
               toClient'[h].type = "snapshot", Older + 1 + s <= toClient'[h].applied
        PROVE  Acked(s, h)'
    <3>1. PICK k \in Nat : k = h
      BY <1>2, <1>7
    <3>2. k <= Len(toClient) + 1
      BY <1>2, <1>7, <3>1
    <3>3. Acked(s, k)
      BY <1>2, <1>7, <1>8, <2>2, <3>1 DEF AcksCome
    <3>4. FrameOf(s)' = FrameOf(s)
      BY <1>5
    <3> QED BY <1>1, <1>7, <3>1, <3>2, <3>3, <3>4, AckedStays
  <2> QED BY <1>1, <1>4, <2>1, <2>2 DEF AcksCome
<1>11. DisplayIsWhole'
  BY <1>1, <1>4, <1>8 DEF DisplayIsWhole, Contained
<1> QED BY <1>9, <1>10, <1>11 DEF ToldInv

\* What was told stays known as the channel is read: an acknowledgement enters the
\* scheduled inputs.
LEMMA AckedRead ==
    ASSUME TypeOK, toClient # <<>>, toClient' = Tail(toClient),
           NEW s, FrameOf(s)' = FrameOf(s),
           <<s, FrameOf(s)>> \in scheduledInputs =>
               <<s, FrameOf(s)>> \in scheduledInputs' \/ Contained(s)',
           Contained(s) => Contained(s)',
           toClient[1] = Disposition(s, "scheduled", FrameOf(s)) =>
               <<s, FrameOf(s)>> \in scheduledInputs',
           NEW k \in Nat, k <= Len(toClient), Acked(s, k + 1)
    PROVE  Acked(s, k)'
<1>1. CASE <<s, FrameOf(s)>> \in scheduledInputs \/ Contained(s)
  BY <1>1 DEF Acked
<1>2. ASSUME NEW l \in 1 .. k, toClient[l] = Disposition(s, "scheduled", FrameOf(s))
      PROVE  Acked(s, k)'
  <2>1. CASE l = 1
    BY <1>2, <2>1 DEF Acked
  <2>2. CASE l # 1
    <3>1. l - 1 \in 1 .. (k - 1) /\ l - 1 \in DOMAIN toClient' /\ l - 1 + 1 = l
      BY <2>2, StepTypes, ReadMessage
    <3>2. toClient'[l - 1] = Disposition(s, "scheduled", FrameOf(s)')
      BY <1>2, <3>1, ReadMessage
    <3>3. \E j \in 1 .. (k - 1) : toClient'[j] = Disposition(s, "scheduled", FrameOf(s)')
      BY <3>1, <3>2
    <3> QED BY <3>3 DEF Acked, Disposition
  <2> QED BY <2>1, <2>2
<1>3. k + 1 - 1 = k
  OBVIOUS
<1> QED BY <1>1, <1>2, <1>3 DEF Acked

\* So the numbers that are acknowledged in the channel stay ahead of the snapshots.
LEMMA ComesRead ==
    ASSUME TypeOK, toClient # <<>>, toClient' = Tail(toClient), UNCHANGED <<queue, applied, frame>>,
           AcksCome,
           \A s \in 0 .. (queue.next - 1) :
             /\ <<s, FrameOf(s)>> \in scheduledInputs =>
                    <<s, FrameOf(s)>> \in scheduledInputs' \/ Contained(s)'
             /\ Contained(s) => Contained(s)'
             /\ toClient[1] = Disposition(s, "scheduled", FrameOf(s)) =>
                    <<s, FrameOf(s)>> \in scheduledInputs'
    PROVE  AcksCome'
<1>1. Older' = Older /\ \A s : FrameOf(s)' = FrameOf(s)
  BY DEF Older, FrameOf
<1>2. Len(toClient) \in Nat /\ Len(toClient') = Len(toClient) - 1
      /\ DOMAIN toClient = 1 .. Len(toClient) /\ DOMAIN toClient' = 1 .. (Len(toClient) - 1)
  BY StepTypes, ReadMessage
<1>3. ASSUME NEW s \in 0 .. (queue.next - 1), NEW k \in Nat, k <= Len(toClient), Acked(s, k + 1)
      PROVE  Acked(s, k)'
  <2>1. FrameOf(s)' = FrameOf(s)
    BY <1>1
  <2> QED BY <1>3, <2>1, AckedRead
<1>4. ASSUME NEW h \in Nat, h = Len(toClient') + 1, NEW s \in 0 .. (queue.next - 1)
      PROVE  Acked(s, h)'
  <2>1. h <= Len(toClient) /\ h + 1 \in Nat /\ h + 1 = Len(toClient) + 1
    BY <1>2, <1>4
  <2>2. Acked(s, h + 1)
    BY <2>1 DEF AcksCome
  <2> QED BY <1>3, <2>1, <2>2
<1>5. ASSUME NEW h \in DOMAIN toClient', NEW s \in 0 .. (queue.next - 1),
             toClient'[h].type = "snapshot", Older + 1 + s <= toClient'[h].applied
      PROVE  Acked(s, h)'
  <2>1. h \in Nat /\ h <= Len(toClient) /\ h + 1 \in DOMAIN toClient /\ toClient'[h] = toClient[h + 1]
    BY <1>2, ReadMessage
  <2>2. Acked(s, h + 1)
    BY <1>5, <2>1 DEF AcksCome
  <2> QED BY <1>3, <2>1, <2>2
<1> QED BY <1>1, <1>4, <1>5 DEF AcksCome

LEMMA ToldStart ==
    ASSUME TypeOK, StepInv, Receive, Head(toClient).type = "start"
    PROVE  ToldInv'
<1> DEFINE message == Head(toClient)
<1>1. /\ toClient # <<>> /\ toClient' = Tail(toClient) /\ ReceiveStart(message)
      /\ UNCHANGED <<queue, refused>>
  BY DEF Receive, server
<1>2. message = toClient[1] /\ 1 \in DOMAIN toClient
      /\ \A k \in DOMAIN toClient' : k + 1 \in DOMAIN toClient /\ k + 1 # 1
                                     /\ toClient'[k] = toClient[k + 1]
  BY <1>1, ReadMessage
<1>3. queue.next = 0 /\ AllSnapshots(1)
  BY <1>2 DEF StepInv, ConnectionInv, StartFindsFresh
<1>4. \A k \in DOMAIN toClient' : toClient'[k].type = "snapshot"
  BY <1>2, <1>3 DEF AllSnapshots
<1>5. scheduledInputs' = {} /\ outbox'.next = 0
  BY <1>1 DEF ReceiveStart, NoOutbox
<1>6. 0 .. (queue'.next - 1) = {} /\ 0 .. (outbox'.next - 1) = {}
  BY <1>1, <1>3, <1>5
<1>7. AcksAreTrue'
  BY <1>4, <1>5 DEF AcksAreTrue
<1>8. AcksCome' /\ DisplayIsWhole'
  BY <1>6 DEF AcksCome, DisplayIsWhole
<1> QED BY <1>7, <1>8 DEF ToldInv

\* What a message that is read leaves true.
LEMMA TrueRead ==
    ASSUME TypeOK, AcksAreTrue, toClient # <<>>, toClient' = Tail(toClient),
           UNCHANGED <<queue, applied, frame, refused>>,
           \A x \in scheduledInputs' :
               x \in scheduledInputs \/ \E s \in 0 .. (queue.next - 1) : x = <<s, FrameOf(s)>>
    PROVE  AcksAreTrue'
<1>1. \A k \in DOMAIN toClient' : k + 1 \in DOMAIN toClient /\ toClient'[k] = toClient[k + 1]
  BY ReadMessage
<1>2. \A s : FrameOf(s)' = FrameOf(s)
  BY DEF Older, FrameOf
<1> QED BY <1>1, <1>2 DEF AcksAreTrue

LEMMA ToldAck ==
    ASSUME TypeOK, LineInv, ToldInv, outbox.on = TRUE, Receive, Head(toClient).type = "ack"
    PROVE  ToldInv'
<1> DEFINE message == toClient[1]
<1>1. /\ toClient # <<>> /\ toClient' = Tail(toClient)
      /\ UNCHANGED <<queue, applied, frame, refused>>
  BY DEF Receive, server
<1>2. message = Head(toClient) /\ 1 \in DOMAIN toClient /\ message.type = "ack"
  BY <1>1, ReadMessage
<1>3. ReceiveAck(message)
  BY <1>2 DEF Receive
<1>4. AcksAreTrue /\ AcksCome /\ DisplayIsWhole
  BY DEF ToldInv
<1>5. Older' = Older /\ shown' = shown /\ outbox'.next = outbox.next
      /\ \A p \in Range(outbox'.pending) : p \in Range(outbox.pending)
  BY <1>1, <1>2, <1>3, OutboxKept DEF Older, ReceiveAck
<1>6. \A s : Contained(s) => Contained(s)'
  BY <1>5 DEF Contained
<1>7. CASE message.status = "scheduled"
  <2>1. PICK q \in 0 .. (queue.next - 1) : message.sequence = q /\ message.frame = FrameOf(q)
    BY <1>2, <1>4, <1>7 DEF AcksAreTrue
  <2>2. scheduledInputs' = {x \in scheduledInputs : x[1] # q} \cup {<<q, FrameOf(q)>>}
        /\ outbox' = outbox
    BY <1>3, <1>7, <2>1 DEF ReceiveAck
  <2>3. AcksAreTrue'
    BY <1>1, <1>4, <2>2, TrueRead
  <2>4. AcksCome'
    <3>1. ASSUME NEW s \in 0 .. (queue.next - 1)
          PROVE  /\ <<s, FrameOf(s)>> \in scheduledInputs => <<s, FrameOf(s)>> \in scheduledInputs'
                 /\ message = Disposition(s, "scheduled", FrameOf(s)) =>
                        <<s, FrameOf(s)>> \in scheduledInputs'
      <4>1. message = Disposition(s, "scheduled", FrameOf(s)) => s = q
        BY <2>1 DEF Disposition
      <4> QED BY <2>2, <4>1
    <3> QED BY <1>1, <1>4, <1>6, <3>1, ComesRead
  <2>5. DisplayIsWhole'
    BY <1>1, <1>4, <1>5, <2>2 DEF DisplayIsWhole, Contained
  <2> QED BY <2>3, <2>4, <2>5 DEF ToldInv
<1>8. CASE message.status # "scheduled"
  <2>1. refused = TRUE
    BY <1>2, <1>4, <1>8 DEF AcksAreTrue
  <2>2. scheduledInputs' = scheduledInputs
    BY <1>3, <1>8 DEF ReceiveAck
  <2>3. AcksAreTrue'
    BY <1>1, <1>4, <2>2, TrueRead
  <2>4. AcksCome'
    <3>1. \A s : message # Disposition(s, "scheduled", FrameOf(s))
      BY <1>8 DEF Disposition
    <3> QED BY <1>1, <1>4, <1>6, <2>2, <3>1, ComesRead
  <2>5. DisplayIsWhole'
    BY <1>1, <1>4, <1>5, <1>6, <2>1 DEF DisplayIsWhole
  <2> QED BY <2>3, <2>4, <2>5 DEF ToldInv
<1> QED BY <1>7, <1>8

\* A snapshot drops the predictions it contains, and no other.
LEMMA ToldSnapshot ==
    ASSUME TypeOK, LineInv, SnapshotsInv, ShownInv, ToldInv, outbox.on = TRUE, Receive,
           Head(toClient).type = "snapshot"
    PROVE  ToldInv'
<1> DEFINE message == toClient[1]
           settled == {x \in scheduledInputs : x[2] <= message.frame}
           left == {p \in Range(outbox.pending) : \A x \in settled : p.sequence > x[1]}
<1>1. /\ toClient # <<>> /\ toClient' = Tail(toClient)
      /\ UNCHANGED <<queue, applied, frame, refused>>
  BY DEF Receive, server
<1>2. message = Head(toClient) /\ 1 \in DOMAIN toClient /\ message.type = "snapshot"
  BY <1>1, ReadMessage
<1>3. ReceiveSnapshot(message)
  BY <1>2 DEF Receive
<1>4. AcksAreTrue /\ AcksCome /\ DisplayIsWhole
  BY DEF ToldInv
<1>5. scheduledInputs' = scheduledInputs \ settled /\ shown' = message.applied
  BY <1>3 DEF ReceiveSnapshot
<1>6. Range(outbox'.pending) = left /\ outbox'.next = outbox.next
  <2>1. outbox'.pending = Keep(outbox.pending, left) /\ outbox'.next = outbox.next
    BY <1>3, StepTypes DEF ReceiveSnapshot, OutboxType
  <2>2. Range(Keep(outbox.pending, left)) = Range(outbox.pending) \cap left
    BY StepTypes, KeepRange
  <2> QED BY <2>1, <2>2
<1>7. /\ message.frame <= frame /\ message.applied <= Len(applied) /\ shown <= message.applied
      /\ \A i \in 1 .. Len(applied) : applied[i].frame <= message.frame <=> i <= message.applied
      /\ message.frame \in Nat /\ message.applied \in Nat
  <2>1. message \in Snapshots
    BY <1>2, StepTypes DEF Messages, StartMessages, Acknowledgements
  <2> QED BY <1>2, <2>1 DEF SnapshotsInv, Truthful, ShownInv, Snapshots
<1>8. /\ Older \in Int /\ 0 <= Older /\ Len(applied) \in Nat /\ frame \in Nat /\ shown \in Nat
      /\ queue.next \in Nat /\ outbox.next \in Nat
  BY ToldTypes
<1>9. Older' = Older
  BY <1>1 DEF Older
<1>10. \A s : Contained(s) => Contained(s)'
  BY <1>6 DEF Contained
<1>11. ASSUME NEW s \in Nat, <<s, FrameOf(s)>> \in settled PROVE Contained(s)'
  <2>1. \A p \in left : p.sequence > s
    BY <1>11
  <2> HIDE DEF left
  <2> QED BY <1>6, <2>1 DEF Contained
<1>12. AcksAreTrue'
  <2>1. \A x \in scheduledInputs' : x \in scheduledInputs
    BY <1>5
  <2> QED BY <1>1, <1>4, <2>1, TrueRead
<1>13. AcksCome'
  <2>1. \A s \in 0 .. (queue.next - 1) :
           <<s, FrameOf(s)>> \in scheduledInputs =>
               <<s, FrameOf(s)>> \in scheduledInputs' \/ Contained(s)'
    BY <1>5, <1>11
  <2>2. \A s : message # Disposition(s, "scheduled", FrameOf(s))
    BY <1>2 DEF Disposition
  <2> QED BY <1>1, <1>4, <1>10, <2>1, <2>2, ComesRead
<1>14. ASSUME NEW s \in 0 .. (queue.next - 1), Older + 1 + s <= message.applied
       PROVE  Contained(s)'
  <2>1. PICK k \in DOMAIN toClient : k = 1
    BY <1>2
  <2>2. Acked(s, k)
    BY <1>2, <1>4, <1>14, <2>1 DEF AcksCome
  <2>3. 1 .. (k - 1) = {}
    BY <2>1
  <2>4. CASE <<s, FrameOf(s)>> \in scheduledInputs
    <3>1. Older + 1 + s \in 1 .. Len(applied)
      BY <1>7, <1>8, <1>14
    <3>2. FrameOf(s) = applied[Older + 1 + s].frame
      BY <3>1 DEF FrameOf
    <3>3. FrameOf(s) <= message.frame
      BY <1>7, <1>14, <3>1, <3>2
    <3> QED BY <1>11, <2>4, <3>3
  <2> QED BY <1>10, <2>2, <2>3, <2>4 DEF Acked
<1>15. ASSUME refused = FALSE, NEW s \in 0 .. (outbox.next - 1), ~(Older + 1 + s <= message.applied)
       PROVE  \E p \in left : p.sequence = s
  <2>1. ~(Older + 1 + s <= shown)
    BY <1>7, <1>8, <1>15
  <2>2. PICK p \in Range(outbox.pending) : p.sequence = s
    BY <1>4, <1>15, <2>1 DEF DisplayIsWhole
  <2>3. ASSUME NEW x \in settled PROVE p.sequence > x[1]
    <3>1. PICK t \in 0 .. (queue.next - 1) : x = <<t, FrameOf(t)>>
      BY <1>4, <2>3 DEF AcksAreTrue
    <3>2. x[1] = t /\ FrameOf(t) <= message.frame
      BY <2>3, <3>1
    <3>3. Older + 1 + t <= Len(applied)
      <4>1. ~(Older + 1 + t <= Len(applied)) => FrameOf(t) = frame + 1
        BY DEF FrameOf
      <4> QED BY <1>7, <1>8, <3>2, <4>1
    <3>4. Older + 1 + t \in 1 .. Len(applied) /\ FrameOf(t) = applied[Older + 1 + t].frame
      BY <1>8, <3>3 DEF FrameOf
    <3>5. Older + 1 + t <= message.applied
      BY <1>7, <3>2, <3>4
    <3> QED BY <1>7, <1>8, <1>15, <2>2, <3>2, <3>5
  <2> QED BY <2>2, <2>3
<1>16. DisplayIsWhole'
  BY <1>1, <1>5, <1>6, <1>9, <1>14, <1>15 DEF DisplayIsWhole
<1> QED BY <1>12, <1>13, <1>16 DEF ToldInv

LEMMA ToldNext ==
    ASSUME TypeOK, ConstantAssumption, LineInv, StepInv, SnapshotsInv, ShownInv, ToldInv, [Next]_vars
    PROVE  ToldInv'
<1>1. CASE Start \/ Restored \/ ClientLoses \/ Resume
  <2>1. outbox'.on = FALSE
    BY <1>1 DEF Start, Restored, StepInv, ConnectionInv, client, ClientLoses, Resume, NoOutbox, TypeOK
  <2> QED BY <2>1, ToldOff
<1>2. CASE ServerLoses \/ UNCHANGED vars
  <2>1. UNCHANGED <<toClient, queue, applied, frame, refused, outbox, scheduledInputs, shown>>
    BY <1>2 DEF ServerLoses, vars, server, client
  <2> QED BY <2>1 DEF ToldInv, AcksAreTrue, AcksCome, DisplayIsWhole, Acked, Contained, FrameOf,
                      Older, Disposition
<1>3. CASE ReceiveInput \/ Advance
  <2>1. outbox' = outbox /\ outbox.on \in BOOLEAN
    BY <1>3, StepTypes DEF ReceiveInput, Advance, client
  <2> QED BY <1>3, <2>1, ToldReceiveInput, ToldAdvance, ToldOff
<1>4. CASE Press
  BY <1>4, ToldPress
<1>5. CASE Receive
  <2>1. CASE Head(toClient).type = "start"
    BY <1>5, <2>1, ToldStart
  <2>2. CASE Head(toClient).type # "start"
    <3>1. outbox'.on = outbox.on /\ outbox.on \in BOOLEAN
      BY <1>5, <2>2, OutboxKept, StepTypes
    <3>2. Head(toClient).type = "ack" \/ Head(toClient).type = "snapshot"
      BY <1>5, <2>2 DEF Receive
    <3> QED BY <1>5, <3>1, <3>2, ToldAck, ToldSnapshot, ToldOff
  <2> QED BY <2>1, <2>2
<1> QED BY <1>1, <1>2, <1>3, <1>4, <1>5 DEF Next

(*********************** the theorems of the inputs ************************)

InputInv ==
    /\ TypeOK /\ LineInv /\ StepInv /\ SnapshotsInv /\ ShownInv /\ NumberedInv /\ ToldInv

LEMMA InputInvInit == Init => InputInv
<1> SUFFICES ASSUME Init PROVE InputInv
  OBVIOUS
<1>1. outbox.on = FALSE
  BY DEF Init, NoOutbox
<1> QED BY <1>1, TypeInit, LineInit, StepInit, SnapshotsInit DEF InputInv, NumberedInv, ToldInv

LEMMA InputInvNext == ASSUME ResumeMeetsStart = FALSE, InputInv, [Next]_vars PROVE InputInv'
BY ConstantAssumption, LineWaits, TypeNext, LineNext, StepNext, SnapshotsNext, ShownNext,
   NumberedNext, ToldNext DEF InputInv, StepInv

\* Until one of them is refused, the inputs on their way are the ones the queue expects
\* next: pipelining alone never makes a gap or a duplicate (inputOutbox.ts, resumePlayer).
THEOREM InputsStayInStep == ResumeMeetsStart = FALSE => (Spec => []InStep)
<1> SUFFICES ASSUME ResumeMeetsStart = FALSE PROVE Spec => []InStep
  OBVIOUS
<1>1. Init => InputInv
  BY InputInvInit
<1>2. InputInv /\ [Next]_vars => InputInv'
  BY InputInvNext
<1>3. InputInv => InStep
  <2> SUFFICES ASSUME InputInv, active, outbox.on, ~refused, NEW i \in DOMAIN toServer
               PROVE  toServer[i].epoch = queue.epoch /\ toServer[i].sequence = queue.next + i - 1
    BY DEF InStep
  <2>1. active = TRUE /\ outbox.on = TRUE /\ refused = FALSE
    BY StepTypes DEF InputInv
  <2>2. i \in 1 .. Len(toServer)
    BY LineTypes DEF InputInv
  <2>3. /\ toServer[i].epoch = queue.epoch
        /\ toServer[i].sequence = outbox.next - Len(toServer) + i - 1
        /\ queue.next = outbox.next - Len(toServer)
    BY <2>1, <2>2 DEF InputInv, StepInv, SendingInv
  <2> QED BY <2>3
<1> QED BY <1>1, <1>2, <1>3, PTL DEF Spec

\* Epoch and sequence name one input: the start of a match that races a resume is the only
\* way to give the same number out twice.
THEOREM SequencesNameInputs == ResumeMeetsStart = FALSE => (Spec => []SequenceNamesInput)
<1> SUFFICES ASSUME ResumeMeetsStart = FALSE PROVE Spec => []SequenceNamesInput
  OBVIOUS
<1>1. Init => InputInv
  BY InputInvInit
<1>2. InputInv /\ [Next]_vars => InputInv'
  BY InputInvNext
<1>3. InputInv => SequenceNamesInput
  <2> SUFFICES ASSUME InputInv PROVE SequenceNamesInput
    OBVIOUS
  <2>1. /\ DOMAIN toServer = 1 .. Len(toServer) /\ DOMAIN applied = 1 .. Len(applied)
        /\ DOMAIN queue.scheduled = 1 .. Len(queue.scheduled)
    BY LineTypes DEF InputInv
  <2>2. /\ Older \in Int /\ Len(applied) \in Nat /\ Len(queue.scheduled) \in Nat /\ queue.next \in Nat
        /\ Older + queue.next = Len(applied) + Len(queue.scheduled)
    BY ToldTypes DEF InputInv
  <2>3. ASSUME NEW i \in 1 .. Len(toServer)
        PROVE  /\ queue.next <= toServer[i].sequence /\ toServer[i].sequence \in Nat
               /\ toServer[i].epoch = queue.epoch
    BY LineTypes DEF InputInv, StepInv, SendingInv
  <2>4. ASSUME NEW j \in 1 .. Len(applied), applied[j].epoch = queue.epoch
        PROVE  applied[j].sequence < queue.next
    <3>1. j > Older
      <4>1. ~(applied[j].epoch < queue.epoch)
        BY <2>4, LineTypes DEF InputInv
      <4> QED BY <2>2, <4>1 DEF InputInv, LineInv, Placed
    <3>2. applied[j].sequence = j - Older - 1
      BY <3>1 DEF InputInv, LineInv, Placed
    <3> QED BY <2>2, <3>2
  <2>5. ASSUME NEW j \in 1 .. Len(queue.scheduled) PROVE queue.scheduled[j].sequence < queue.next
    <3>1. queue.scheduled[j].sequence = Len(applied) - Older + j - 1
      BY DEF InputInv, LineInv, Placed
    <3> QED BY <2>2, <3>1
  <2>6. ASSUME NEW i \in 1 .. Len(toServer), NEW j \in 1 .. Len(toServer),
               toServer[i].sequence = toServer[j].sequence
        PROVE  i = j
    <3>1. toServer[j].sequence = toServer[i].sequence + (j - i)
      BY DEF InputInv, StepInv, SendingInv
    <3> QED BY <2>3, <2>6, <3>1
  <2>7. ASSUME NEW i \in 1 .. Len(toServer), NEW j \in 1 .. Len(applied),
               applied[j].epoch = toServer[i].epoch
        PROVE  applied[j].sequence # toServer[i].sequence
    BY <2>2, <2>3, <2>4, <2>7
  <2>8. ASSUME NEW i \in 1 .. Len(toServer), NEW j \in 1 .. Len(queue.scheduled)
        PROVE  queue.scheduled[j].sequence # toServer[i].sequence
    BY <2>2, <2>3, <2>5
  <2> QED BY <2>1, <2>6, <2>7, <2>8 DEF SequenceNamesInput
<1> QED BY <1>1, <1>2, <1>3, PTL DEF Spec

\* The browser displays every key press of its connection exactly once, predicted or in the
\* snapshot, however acknowledgements, snapshots and losses interleave
\* (#acceptAcknowledgement, #acceptSnapshot).
THEOREM PressesAreShownOnce == ResumeMeetsStart = FALSE => (Spec => []PressShownOnce)
<1> SUFFICES ASSUME ResumeMeetsStart = FALSE PROVE Spec => []PressShownOnce
  OBVIOUS
<1>1. Init => InputInv
  BY InputInvInit
<1>2. InputInv /\ [Next]_vars => InputInv'
  BY InputInvNext
<1>3. InputInv => PressShownOnce
  <2> SUFFICES ASSUME InputInv, outbox.on
               PROVE  /\ Shown \cap Predicted = {}
                      /\ ~refused => (acts - outbox.next + 1) .. acts \subseteq Shown \cup Predicted
    BY DEF PressShownOnce
  <2>1. outbox.on = TRUE /\ refused \in BOOLEAN
    BY StepTypes DEF InputInv
  <2>2. /\ Older \in Int /\ 0 <= Older /\ Older <= Len(applied) /\ Len(applied) \in Nat
        /\ Len(queue.scheduled) \in Nat /\ queue.next \in Nat /\ shown \in Nat
        /\ Older + queue.next = Len(applied) + Len(queue.scheduled)
        /\ outbox.next \in Nat /\ Base \in Int /\ shown <= Len(applied) /\ acts \in Nat
    BY <2>1, ToldTypes, NumberedTypes, LineTypes DEF InputInv, ShownInv
  <2>3. NumberedInv /\ DisplayIsWhole
    BY <2>1 DEF InputInv, ToldInv
  <2>4. Predicted = {p.act : p \in Range(outbox.pending)}
    BY DEF Predicted, Range
  <2>5. ASSUME NEW i \in 1 .. shown, NEW p \in Range(outbox.pending) PROVE applied[i].act # p.act
    <3>1. p.act = Base + 1 + p.sequence /\ p.sequence \in Nat
      BY <2>1, <2>3 DEF NumberedInv, Prediction
    <3>2. i \in 1 .. Len(applied) /\ applied[i].act \in Nat
      BY <2>2, LineTypes DEF InputInv
    <3>3. CASE i <= Older
      <4>1. applied[i].act <= Base
        BY <2>1, <2>3, <3>2, <3>3 DEF NumberedInv
      <4> QED BY <2>2, <3>1, <3>2, <4>1
    <3>4. CASE i > Older
      <4>1. applied[i].act = Base + i - Older
        BY <2>1, <2>3, <3>2, <3>4 DEF NumberedInv
      <4>2. PICK s \in 0 .. (queue.next - 1) : s = i - Older - 1 /\ Older + 1 + s = i
        <5> DEFINE t == i - Older - 1
        <5>1. i \in Nat /\ i <= Len(applied)
          BY <2>2, <3>2
        <5>2. t \in Int /\ 0 <= t /\ Older + 1 + t = i
          BY <2>2, <3>4, <5>1
        <5>3. i <= Older + queue.next
          BY <2>2, <5>1
        <5>4. t <= queue.next - 1
          BY <2>2, <5>1, <5>3
        <5>5. t \in 0 .. (queue.next - 1) /\ t = i - Older - 1
          BY <2>2, <5>2, <5>4
        <5> HIDE DEF t
        <5> QED BY <5>2, <5>5
      <4>3. p.sequence > s
        BY <2>3, <4>2 DEF DisplayIsWhole, Contained
      <4>4. applied[i].act = Base + 1 + s
        BY <2>2, <4>1, <4>2
      <4> QED BY <2>2, <3>1, <4>3, <4>4
    <3> QED BY <2>2, <3>3, <3>4
  <2>6. Shown \cap Predicted = {}
    BY <2>4, <2>5 DEF Shown
  <2>7. ASSUME ~refused, NEW x \in (acts - outbox.next + 1) .. acts PROVE x \in Shown \cup Predicted
    <3>1. PICK s \in 0 .. (outbox.next - 1) : x = Base + 1 + s
      <4> DEFINE t == x - (acts - outbox.next) - 1
      <4>1. x \in Int /\ acts - outbox.next + 1 <= x /\ x <= acts
        BY <2>2, <2>7
      <4>2. t \in 0 .. (outbox.next - 1)
        BY <2>2, <4>1, SMTT(20)
      <4>3. x = (acts - outbox.next) + 1 + t
        BY <2>2, <4>1
      <4> HIDE DEF t
      <4> QED BY <4>2, <4>3 DEF Base
    <3>2. Older + 1 + s <= shown \/ \E p \in Range(outbox.pending) : p.sequence = s
      BY <2>1, <2>3, <2>7 DEF DisplayIsWhole
    <3>3. CASE Older + 1 + s <= shown
      <4>1. Older + 1 + s \in 1 .. shown /\ Older + 1 + s \in 1 .. Len(applied) /\ Older + 1 + s > Older
        BY <2>2, <3>3
      <4>2. applied[Older + 1 + s].act = Base + (Older + 1 + s) - Older
        BY <2>1, <2>3, <4>1 DEF NumberedInv
      <4>3. applied[Older + 1 + s].act = x
        BY <2>2, <3>1, <4>2
      <4> QED BY <4>1, <4>3 DEF Shown
    <3>4. ASSUME NEW p \in Range(outbox.pending), p.sequence = s PROVE x \in Predicted
      <4>1. p.act = Base + 1 + s
        BY <2>1, <2>3, <3>4 DEF NumberedInv
      <4> QED BY <2>4, <3>1, <4>1
    <3> QED BY <3>2, <3>3, <3>4
  <2> QED BY <2>6, <2>7
<1> QED BY <1>1, <1>2, <1>3, PTL DEF Spec

(************************* the players of a match **************************)
Board == [1 .. Height -> OpenRows]
KindOrNone == Kinds \cup {None}
Pending == [kind : Kinds, byHold : BOOLEAN, lift : BOOLEAN]
Piece == [kind : Kinds, rotation : Rotations, x : Int, y : Int]
LastTurn == [turn : Turns \cup {"none"}, kick : Int]
Garbage == [amount : Nat \ {0}, at : Nat, hole : Columns]
Lock ==
    [piece : Kinds, lines : Nat, spin : {"none", "mini", "full"}, cancelled : Nat,
     outgoing : Seq(Nat \ {0}), risen : Nat]

\* A player.
Simulation ==
    [board : Board, active : Piece \cup {None}, hold : KindOrNone, canHold : BOOLEAN,
     combo : Int, streak : Nat, placed : Nat, sent : Nat, garbage : Seq(Garbage),
     held : SUBSET (Sides \cup {"down"}), side : Sides \cup {None}, sideFrames : Nat,
     fallen : Nat, lockFrames : Nat, lockResets : Nat, last : LastTurn, topped : BOOLEAN,
     lift : BOOLEAN, pending : Pending \cup {None}, ihs : BOOLEAN, irs : Turns \cup {None},
     cursor : Nat, locks : Seq(Lock)]

\* A player with a piece on the board.
Playing(p) ==
    /\ p \in Simulation /\ ~p.topped /\ p.pending = None /\ ~p.ihs
    /\ p.active \in Piece /\ Fits(p.board, p.active)

\* A step that moves the piece, its counters or the keys, and nothing else.
Moved(p, q) ==
    /\ Playing(q)
    /\ q.board = p.board /\ q.active.kind = p.active.kind
    /\ q.hold = p.hold /\ q.canHold = p.canHold /\ q.placed = p.placed
    /\ q.garbage = p.garbage /\ q.cursor = p.cursor /\ q.locks = p.locks

(********************************** moves **********************************)

\* null is no kind, side, turn, piece, nor a piece that is due.
LEMMA NoneIsNothing ==
    None \notin Kinds /\ None \notin Sides /\ None \notin Turns /\ None \notin Pending
      /\ None \notin Piece
<1>1. Kinds \subseteq AllKinds
  BY DuelAssumption
<1>2. Pending \subseteq PendingGeneration /\ Piece \subseteq ActivePiece
  BY <1>1 DEF Pending, PendingGeneration, Piece, ActivePiece
<1> QED BY <1>1, <1>2, SimulationAssumption

\* A player whose piece, last turn and lock counters change is a player.
LEMMA MovedType ==
    ASSUME NEW p \in Simulation, NEW c \in Piece, NEW l \in LastTurn, NEW a \in Nat, NEW b \in Nat
    PROVE  [p EXCEPT !.active = c, !.last = l, !.lockFrames = a, !.lockResets = b] \in Simulation
BY DEF Simulation

\* A move or turn that is accepted, or refused, leaves a piece that fits.
LEMMA ManipulatedMoves ==
    ASSUME NEW p, Playing(p), NEW c \in Piece, c.kind = p.active.kind, NEW l \in LastTurn
    PROVE  Moved(p, Manipulated(p, c, l))
<1> DEFINE resets == Grounded(p) /\ p.lockResets < LockResetLimit
           a == IF resets THEN 0 ELSE p.lockFrames
           b == IF resets THEN p.lockResets + 1 ELSE p.lockResets
           q == [p EXCEPT !.active = c, !.last = l, !.lockFrames = a, !.lockResets = b]
<1>1. CASE ~Fits(p.board, c)
  BY <1>1 DEF Manipulated, Moved
<1>2. CASE Fits(p.board, c)
  <2>1. Manipulated(p, c, l) = q
    BY <1>2 DEF Manipulated
  <2>0. p \in Simulation
    BY DEF Playing
  <2>3. a \in Nat /\ b \in Nat
    BY <2>0 DEF Simulation
  <2> HIDE DEF a, b
  <2>2. q \in Simulation
    BY <2>0, <2>3, MovedType
  <2> QED BY <1>2, <2>0, <2>1, <2>2 DEF Playing, Moved, Simulation
<1> QED BY <1>1, <1>2

\* Moves follow one another.
LEMMA MovedFurther ==
    ASSUME NEW p, NEW q, NEW r, Moved(p, q), Moved(q, r)
    PROVE  Moved(p, r)
BY DEF Moved

\* Not to move is a move.
LEMMA PlayingMoved ==
    ASSUME NEW p, Playing(p)
    PROVE  Moved(p, p)
BY DEF Moved

\* One column to a side: the piece goes on fitting.
LEMMA ShiftedMoves ==
    ASSUME NEW p, Playing(p), NEW side \in Sides
    PROVE  Moved(p, Shifted(p, side))
<1> DEFINE d == IF side = "left" THEN -1 ELSE 1
           c == [p.active EXCEPT !.x = @ + d]
<1>1. d \in Int
  OBVIOUS
<1> HIDE DEF d
<1>2. c \in Piece /\ c.kind = p.active.kind
  BY <1>1 DEF Playing, Piece
<1>3. NoTurn \in LastTurn
  BY DEF NoTurn, LastTurn
<1>4. Shifted(p, side) = Manipulated(p, c, NoTurn)
  BY DEF Shifted, d
<1> HIDE DEF c
<1> QED BY <1>2, <1>3, <1>4, ManipulatedMoves

\* As many columns as it goes: Width steps of Shifted.
LEMMA ShiftedToWallMoves ==
    ASSUME NEW p, Playing(p), NEW side \in Sides
    PROVE  Moved(p, ShiftedToWall(p, side))
<1> DEFINE S == {q \in Simulation : Moved(p, q)}
           Solves(f) == f = [n \in 0 .. Width |-> IF n = 0 THEN p ELSE Shifted(f[n - 1], side)]
           F == CHOOSE f : Solves(f)
           step == [q \in S |-> Shifted(q, side)]
           g == [n \in 1 .. Width |-> step]
<1>1. Width \in Nat /\ p \in S
  BY SizeAssumption, PlayingMoved DEF Playing
<1>2. ASSUME NEW q \in S PROVE Shifted(q, side) \in S
  <2>1. Moved(q, Shifted(q, side))
    BY ShiftedMoves DEF Moved
  <2>2. Moved(p, Shifted(q, side))
    BY <2>1, MovedFurther
  <2> QED BY <2>2 DEF Moved, Playing
<1>3. step \in [S -> S]
  BY <1>2
<1>4. \A q \in S : step[q] = Shifted(q, side)
  OBVIOUS
<1> HIDE DEF S, step
<1>5. g \in [1 .. Width -> [S -> S]] /\ \A n \in 1 .. Width : g[n] = step
  BY <1>3
<1> HIDE DEF g
<1>6. PICK f \in [0 .. Width -> S] : f[0] = p /\ \A n \in 1 .. Width : f[n] = g[n][f[n - 1]]
  <2>1. HasRun(S, p, Width, g)
    BY <1>1, <1>5, Iteration
  <2> QED BY <2>1 DEF HasRun
<1>7. ASSUME NEW n \in 0 .. Width PROVE f[n] = IF n = 0 THEN p ELSE Shifted(f[n - 1], side)
  <2>1. CASE n = 0
    BY <2>1, <1>6
  <2>2. CASE n # 0
    <3>1. n \in 1 .. Width /\ n - 1 \in 0 .. Width
      BY <2>2, <1>1
    <3>2. f[n] = step[f[n - 1]] /\ f[n - 1] \in S
      BY <3>1, <1>5, <1>6
    <3> QED BY <2>2, <3>2, <1>4
  <2> QED BY <2>1, <2>2
<1>8. Solves(f)
  BY <1>7
<1>9. Solves(F)
  BY <1>8
<1>10. ShiftedToWall(p, side) = F[Width]
  BY DEF ShiftedToWall
<1> HIDE DEF F
<1>11. F[0] = p /\ \A n \in 1 .. Width : F[n] = Shifted(F[n - 1], side)
  BY <1>1, <1>9
<1>12. \A n \in 1 .. Width : F[n - 1] \in S => F[n] \in S
  BY <1>2, <1>11
<1>13. F[Width] \in S
  BY <1>1, <1>11, <1>12, StaysWithin
<1> QED BY <1>10, <1>13 DEF S

\* One row down, unless the piece lies on something.
LEMMA LoweredMoves ==
    ASSUME NEW p, Playing(p)
    PROVE  Moved(p, Lowered(p))
<1> DEFINE c == [p.active EXCEPT !.y = @ - 1]
           q == [p EXCEPT !.active = c]
<1>1. CASE Grounded(p)
  BY <1>1, PlayingMoved DEF Lowered
<1>2. CASE ~Grounded(p)
  <2>1. Lowered(p) = q /\ Fits(p.board, c)
    BY <1>2 DEF Lowered, Grounded, Below
  <2>2. c \in Piece /\ c.kind = p.active.kind
    BY DEF Playing, Piece
  <2> HIDE DEF c
  <2>3. p \in Simulation
    BY DEF Playing
  <2>4. q \in Simulation
    BY <2>2, <2>3 DEF Simulation
  <2>5. q.active = c /\ q.board = p.board
    BY <2>3 DEF Simulation
  <2>6. Fits(q.board, q.active)
    BY <2>1, <2>5
  <2>7. Playing(q)
    BY <2>2, <2>3, <2>4, <2>5, <2>6 DEF Playing, Simulation
  <2>8. q.active.kind = p.active.kind
    BY <2>2, <2>5
  <2> QED BY <2>1, <2>3, <2>7, <2>8 DEF Moved, Simulation
<1> QED BY <1>1, <1>2

(******************************** rotation *********************************)

\* A set of numbers that is not empty has a least one.
LEMMA LowestIsIn ==
    ASSUME NEW S, S \subseteq Nat, S # {}
    PROVE  Lowest(S) \in S /\ \A m \in S : Lowest(S) <= m
<1> DEFINE Less == {mn \in Nat \X Nat : mn[1] < mn[2]}
<1>1. IsWellFoundedOn(Less, Nat)
  BY NatLessThanWellFounded, Zenon DEF OpToRel
<1>2. PICK n \in S : \A m \in S : <<m, n>> \notin Less
  <2> HIDE DEF Less
  <2> QED BY <1>1, WFMin
<1>3. ASSUME NEW m \in S PROVE n <= m
  <2>1. m \in Nat /\ n \in Nat /\ <<m, n>> \notin Less
    BY <1>2
  <2>2. ~(m < n)
    BY <2>1
  <2> QED BY <2>1, <2>2
<1> QED BY <1>3 DEF Lowest

Kicks == Seq(Int \X Int)

\* An offset of a kick table is a pair of numbers.
LEMMA KickPair ==
    ASSUME NEW a \in Int, NEW b \in Int
    PROVE  <<a, b>> \in Int \X Int
OBVIOUS

\* Five of them are a table.
LEMMA FiveKicks ==
    ASSUME NEW a \in Int \X Int, NEW b \in Int \X Int, NEW c \in Int \X Int,
           NEW d \in Int \X Int, NEW e \in Int \X Int
    PROVE  <<a, b, c, d, e>> \in Kicks
BY DEF Kicks

\* And so are six.
LEMMA SixKicks ==
    ASSUME NEW a \in Int \X Int, NEW b \in Int \X Int, NEW c \in Int \X Int,
           NEW d \in Int \X Int, NEW e \in Int \X Int, NEW f \in Int \X Int
    PROVE  <<a, b, c, d, e, f>> \in Kicks
BY DEF Kicks

\* A turn leads to one of the four rotations, a quarter turn to a neighbouring one.
LEMMA TargetType ==
    ASSUME NEW from \in Rotations, NEW t \in Turns
    PROVE  /\ TargetRotation(from, t) \in Rotations
           /\ t # "180" => \/ from = 0 /\ TargetRotation(from, t) \in {1, 3}
                           \/ from = 1 /\ TargetRotation(from, t) \in {0, 2}
                           \/ from = 2 /\ TargetRotation(from, t) \in {1, 3}
                           \/ from = 3 /\ TargetRotation(from, t) \in {0, 2}
<1>1. from \in {0, 1, 2, 3} /\ Rotations = {0, 1, 2, 3}
  BY DEF Rotations
<1>2. CASE t = "cw"
  <2>1. TargetRotation(from, t) = (from + 1) % 4
    BY <1>2 DEF TargetRotation
  <2> QED BY <1>1, <1>2, <2>1
<1>3. CASE t = "ccw"
  <2>1. TargetRotation(from, t) = (from + 3) % 4
    BY <1>3 DEF TargetRotation
  <2> QED BY <1>1, <1>3, <2>1
<1>4. CASE t = "180"
  <2>1. TargetRotation(from, t) = (from + 2) % 4
    BY <1>4 DEF TargetRotation
  <2> QED BY <1>1, <1>4, <2>1
<1> QED BY <1>2, <1>3, <1>4 DEF Turns

\* The 90 degree table of the pieces other than I has a row for every quarter turn.
LEMMA JLSTZ90Type ==
    ASSUME NEW from \in Rotations, NEW to \in Rotations,
           to = 1 \/ from = 1 \/ to = 3 \/ from = 3
    PROVE  JLSTZ90Kicks(from, to) \in Kicks
<1>1. JLSTZ90Kicks(from, to) \in
         {<< <<0, 0>>, <<-1, 0>>, <<-1, 1>>, <<0, -2>>, <<-1, -2>> >>,
          << <<0, 0>>, <<1, 0>>, <<1, -1>>, <<0, 2>>, <<1, 2>> >>,
          << <<0, 0>>, <<1, 0>>, <<1, 1>>, <<0, -2>>, <<1, -2>> >>,
          << <<0, 0>>, <<-1, 0>>, <<-1, -1>>, <<0, 2>>, <<-1, 2>> >>}
  BY Zenon DEF JLSTZ90Kicks
<1>2. << <<0, 0>>, <<-1, 0>>, <<-1, 1>>, <<0, -2>>, <<-1, -2>> >> \in Kicks
  BY FiveKicks
<1>3. << <<0, 0>>, <<1, 0>>, <<1, -1>>, <<0, 2>>, <<1, 2>> >> \in Kicks
  BY FiveKicks
<1>4. << <<0, 0>>, <<1, 0>>, <<1, 1>>, <<0, -2>>, <<1, -2>> >> \in Kicks
  BY FiveKicks
<1>5. << <<0, 0>>, <<-1, 0>>, <<-1, -1>>, <<0, 2>>, <<-1, 2>> >> \in Kicks
  BY FiveKicks
<1> QED BY <1>1, <1>2, <1>3, <1>4, <1>5, Zenon

\* So has that of the I.
LEMMA I90Type ==
    ASSUME NEW from \in Rotations, NEW to \in Rotations,
           <<from, to>> \in {<<0, 1>>, <<1, 0>>, <<1, 2>>, <<2, 1>>, <<2, 3>>, <<3, 2>>, <<3, 0>>,
                             <<0, 3>>}
    PROVE  I90Kicks(from, to) \in Kicks
<1>1. I90Kicks(from, to) \in
         {<< <<0, 0>>, <<1, 0>>, <<-2, 0>>, <<-2, -1>>, <<1, 2>> >>,
          << <<0, 0>>, <<-1, 0>>, <<2, 0>>, <<-1, -2>>, <<2, 1>> >>,
          << <<0, 0>>, <<-1, 0>>, <<2, 0>>, <<-1, 2>>, <<2, -1>> >>,
          << <<0, 0>>, <<-2, 0>>, <<1, 0>>, <<-2, 1>>, <<1, -2>> >>,
          << <<0, 0>>, <<2, 0>>, <<-1, 0>>, <<2, 1>>, <<-1, -2>> >>,
          << <<0, 0>>, <<1, 0>>, <<-2, 0>>, <<1, 2>>, <<-2, -1>> >>,
          << <<0, 0>>, <<1, 0>>, <<-2, 0>>, <<1, -2>>, <<-2, 1>> >>,
          << <<0, 0>>, <<-1, 0>>, <<2, 0>>, <<2, -1>>, <<-1, 2>> >>}
  BY Zenon DEF I90Kicks
<1>2. << <<0, 0>>, <<1, 0>>, <<-2, 0>>, <<-2, -1>>, <<1, 2>> >> \in Kicks
  BY FiveKicks
<1>3. << <<0, 0>>, <<-1, 0>>, <<2, 0>>, <<-1, -2>>, <<2, 1>> >> \in Kicks
  BY FiveKicks
<1>4. << <<0, 0>>, <<-1, 0>>, <<2, 0>>, <<-1, 2>>, <<2, -1>> >> \in Kicks
  BY FiveKicks
<1>5. << <<0, 0>>, <<-2, 0>>, <<1, 0>>, <<-2, 1>>, <<1, -2>> >> \in Kicks
  BY FiveKicks
<1>6. << <<0, 0>>, <<2, 0>>, <<-1, 0>>, <<2, 1>>, <<-1, -2>> >> \in Kicks
  BY FiveKicks
<1>7. << <<0, 0>>, <<1, 0>>, <<-2, 0>>, <<1, 2>>, <<-2, -1>> >> \in Kicks
  BY FiveKicks
<1>8. << <<0, 0>>, <<1, 0>>, <<-2, 0>>, <<1, -2>>, <<-2, 1>> >> \in Kicks
  BY FiveKicks
<1>9. << <<0, 0>>, <<-1, 0>>, <<2, 0>>, <<2, -1>>, <<-1, 2>> >> \in Kicks
  BY FiveKicks
<1> QED BY <1>1, <1>2, <1>3, <1>4, <1>5, <1>6, <1>7, <1>8, <1>9, Zenon

\* The 180 degree table of the pieces other than I has a row for every rotation.
LEMMA JLSTZ180Type ==
    ASSUME NEW from \in Rotations
    PROVE  JLSTZ180Kicks(from) \in Kicks
<1>1. from \in {0, 1, 2, 3}
  BY DEF Rotations
<1>2. JLSTZ180Kicks(from) \in
         {<< <<0, 0>>, <<0, 1>>, <<1, 1>>, <<-1, 1>>, <<1, 0>>, <<-1, 0>> >>,
          << <<0, 0>>, <<1, 0>>, <<1, 2>>, <<1, 1>>, <<0, 2>>, <<0, 1>> >>,
          << <<0, 0>>, <<0, -1>>, <<-1, -1>>, <<1, -1>>, <<-1, 0>>, <<1, 0>> >>,
          << <<0, 0>>, <<-1, 0>>, <<-1, 2>>, <<-1, 1>>, <<0, 2>>, <<0, 1>> >>}
  BY <1>1, Zenon DEF JLSTZ180Kicks
<1>3. << <<0, 0>>, <<0, 1>>, <<1, 1>>, <<-1, 1>>, <<1, 0>>, <<-1, 0>> >> \in Kicks
  BY SixKicks
<1>4. << <<0, 0>>, <<1, 0>>, <<1, 2>>, <<1, 1>>, <<0, 2>>, <<0, 1>> >> \in Kicks
  BY SixKicks
<1>5. << <<0, 0>>, <<0, -1>>, <<-1, -1>>, <<1, -1>>, <<-1, 0>>, <<1, 0>> >> \in Kicks
  BY SixKicks
<1>6. << <<0, 0>>, <<-1, 0>>, <<-1, 2>>, <<-1, 1>>, <<0, 2>>, <<0, 1>> >> \in Kicks
  BY SixKicks
<1> QED BY <1>2, <1>3, <1>4, <1>5, <1>6, Zenon

\* So has that of the I.
LEMMA I180Type ==
    ASSUME NEW from \in Rotations
    PROVE  I180Kicks(from) \in Kicks
<1>1. from \in {0, 1, 2, 3}
  BY DEF Rotations
<1> DEFINE kick == CASE from = 0 -> <<0, 1>> [] from = 1 -> <<1, 0>>
                     [] from = 2 -> <<0, -1>> [] from = 3 -> <<-1, 0>>
<1>2. kick \in {<<0, 1>>, <<1, 0>>, <<0, -1>>, <<-1, 0>>}
  BY <1>1, Zenon
<1>4. I180Kicks(from) = << <<0, 0>>, kick >>
  BY DEF I180Kicks
<1> HIDE DEF kick
<1>3. kick \in Int \X Int
  BY <1>2
<1> QED BY <1>3, <1>4 DEF Kicks

\* Every turn of every kind has its tests.
LEMMA KickTestsType ==
    ASSUME NEW kind \in AllKinds, NEW from \in Rotations, NEW t \in Turns
    PROVE  KickTests(kind, from, t) \in Kicks
<1> DEFINE to == TargetRotation(from, t)
<1>1. to \in Rotations
  BY TargetType
<1>2. I180Kicks(from) \in Kicks /\ JLSTZ180Kicks(from) \in Kicks
  BY I180Type, JLSTZ180Type
<1>3. t # "180" => JLSTZ90Kicks(from, to) \in Kicks
  <2> SUFFICES ASSUME t # "180" PROVE JLSTZ90Kicks(from, to) \in Kicks
    OBVIOUS
  <2>1. to = 1 \/ from = 1 \/ to = 3 \/ from = 3
    BY TargetType
  <2> QED BY <1>1, <2>1, JLSTZ90Type
<1>4. t # "180" => I90Kicks(from, to) \in Kicks
  <2> SUFFICES ASSUME t # "180" PROVE I90Kicks(from, to) \in Kicks
    OBVIOUS
  <2>1. <<from, to>> \in {<<0, 1>>, <<1, 0>>, <<1, 2>>, <<2, 1>>, <<2, 3>>, <<3, 2>>, <<3, 0>>,
                          <<0, 3>>}
    BY TargetType
  <2> QED BY <1>1, <2>1, I90Type
<1>5. << <<0, 0>> >> \in Kicks
  BY DEF Kicks
<1> HIDE DEF to
<1>6. KickTests(kind, from, t) =
         CASE kind = "O" -> << <<0, 0>> >>
          [] kind = "I" /\ t = "180" -> I180Kicks(from)
          [] kind = "I" /\ t # "180" -> I90Kicks(from, to)
          [] kind \notin {"O", "I"} /\ t = "180" -> JLSTZ180Kicks(from)
          [] kind \notin {"O", "I"} /\ t # "180" -> JLSTZ90Kicks(from, to)
  BY DEF KickTests, to
<1>7. kind = "O" \/ kind = "I" \/ kind \notin {"O", "I"}
  OBVIOUS
<1> QED BY <1>2, <1>3, <1>4, <1>5, <1>6, <1>7

\* A test that passes puts the piece, of the same kind, where it fits.
LEMMA PassingType ==
    ASSUME NEW board, NEW piece \in Piece, NEW t \in Turns
    PROVE  /\ Passing(board, piece, t) \subseteq Nat
           /\ \A k \in Passing(board, piece, t) :
                 /\ Kicked(piece, t, k) \in Piece /\ Kicked(piece, t, k).kind = piece.kind
                 /\ Fits(board, Kicked(piece, t, k))
<1> DEFINE tests == KickTests(piece.kind, piece.rotation, t)
<1>1. piece.kind \in AllKinds /\ piece.rotation \in Rotations
  BY DuelAssumption DEF Piece
<1>2. tests \in Kicks
  BY <1>1, KickTestsType
<1>3. DOMAIN tests \subseteq Nat /\ \A k \in DOMAIN tests : tests[k] \in Int \X Int
  BY <1>2 DEF Kicks
<1>4. Passing(board, piece, t) = {k \in DOMAIN tests : Fits(board, Kicked(piece, t, k))}
  BY DEF Passing
<1>5. ASSUME NEW k \in DOMAIN tests
      PROVE  Kicked(piece, t, k) \in Piece /\ Kicked(piece, t, k).kind = piece.kind
  <2> DEFINE a == tests[k][1]
             b == tests[k][2]
             to == TargetRotation(piece.rotation, t)
  <2>1. a \in Int /\ b \in Int
    BY <1>3
  <2>2. to \in Rotations
    BY <1>1, TargetType
  <2>3. Kicked(piece, t, k) = [piece EXCEPT !.rotation = to, !.x = @ + a, !.y = @ + b]
    BY DEF Kicked
  <2> HIDE DEF a, b, to
  <2>4. piece.x + a \in Int /\ piece.y + b \in Int
    BY <2>1 DEF Piece
  <2>5. [piece EXCEPT !.rotation = to, !.x = @ + a, !.y = @ + b] \in Piece
    BY <2>2, <2>4 DEF Piece
  <2>6. [piece EXCEPT !.rotation = to, !.x = @ + a, !.y = @ + b].kind = piece.kind
    BY DEF Piece
  <2> QED BY <2>3, <2>5, <2>6
<1> HIDE DEF tests
<1> QED BY <1>3, <1>4, <1>5

\* A piece that can turn fits after its turn.
LEMMA RotatedFits ==
    ASSUME NEW board, NEW piece \in Piece, NEW t \in Turns, CanRotate(board, piece, t)
    PROVE  /\ Rotated(board, piece, t) \in Piece
           /\ Rotated(board, piece, t).kind = piece.kind
           /\ Fits(board, Rotated(board, piece, t))
           /\ KickIndex(board, piece, t) \in Int
<1> DEFINE k == Lowest(Passing(board, piece, t))
<1>1. k \in Passing(board, piece, t)
  BY PassingType, LowestIsIn DEF CanRotate
<1>2. Rotated(board, piece, t) = Kicked(piece, t, k) /\ KickIndex(board, piece, t) = k - 1
  BY DEF Rotated, KickIndex
<1> HIDE DEF k
<1>3. k \in Nat
  BY <1>1, PassingType
<1> QED BY <1>1, <1>2, <1>3, PassingType

\* A turn, done or refused, leaves a piece that fits.
LEMMA TurnedMoves ==
    ASSUME NEW p, Playing(p), NEW t \in Turns
    PROVE  Moved(p, Turned(p, t))
<1>1. CASE ~CanRotate(p.board, p.active, t)
  BY <1>1, PlayingMoved DEF Turned
<1>2. CASE CanRotate(p.board, p.active, t)
  <2> DEFINE c == Rotated(p.board, p.active, t)
             k == KickIndex(p.board, p.active, t)
             l == [turn |-> t, kick |-> k]
  <2>1. p.active \in Piece
    BY DEF Playing
  <2>2. c \in Piece /\ c.kind = p.active.kind /\ k \in Int
    BY <1>2, <2>1, RotatedFits
  <2>3. Turned(p, t) = Manipulated(p, c, l)
    BY <1>2 DEF Turned
  <2> HIDE DEF c, k
  <2>4. l \in LastTurn
    BY <2>2 DEF LastTurn
  <2> HIDE DEF l
  <2> QED BY <2>2, <2>3, <2>4, ManipulatedMoves
<1> QED BY <1>1, <1>2

\* So many rows down, or as far as the piece goes: that many steps of Lowered.
LEMMA LoweredByMoves ==
    ASSUME NEW p, Playing(p), NEW cells \in Nat
    PROVE  Moved(p, LoweredBy(p, cells))
<1> DEFINE S == {q \in Simulation : Moved(p, q)}
           Solves(f) == f = [n \in 0 .. cells |-> IF n = 0 THEN p ELSE Lowered(f[n - 1])]
           F == CHOOSE f : Solves(f)
           step == [q \in S |-> Lowered(q)]
           g == [n \in 1 .. cells |-> step]
<1>1. p \in S
  BY PlayingMoved DEF Playing
<1>2. ASSUME NEW q \in S PROVE Lowered(q) \in S
  <2>1. Moved(q, Lowered(q))
    BY LoweredMoves DEF Moved
  <2>2. Moved(p, Lowered(q))
    BY <2>1, MovedFurther
  <2> QED BY <2>2 DEF Moved, Playing
<1>3. step \in [S -> S]
  BY <1>2
<1>4. \A q \in S : step[q] = Lowered(q)
  OBVIOUS
<1> HIDE DEF S, step
<1>5. g \in [1 .. cells -> [S -> S]] /\ \A n \in 1 .. cells : g[n] = step
  BY <1>3
<1> HIDE DEF g
<1>6. PICK f \in [0 .. cells -> S] : f[0] = p /\ \A n \in 1 .. cells : f[n] = g[n][f[n - 1]]
  <2>1. HasRun(S, p, cells, g)
    BY <1>1, <1>5, Iteration
  <2> QED BY <2>1 DEF HasRun
<1>7. ASSUME NEW n \in 0 .. cells PROVE f[n] = IF n = 0 THEN p ELSE Lowered(f[n - 1])
  <2>1. CASE n = 0
    BY <2>1, <1>6
  <2>2. CASE n # 0
    <3>1. n \in 1 .. cells /\ n - 1 \in 0 .. cells
      BY <2>2
    <3>2. f[n] = step[f[n - 1]] /\ f[n - 1] \in S
      BY <3>1, <1>5, <1>6
    <3> QED BY <2>2, <3>2, <1>4
  <2> QED BY <2>1, <2>2
<1>8. Solves(f)
  BY <1>7
<1>9. Solves(F)
  BY <1>8
<1>10. LoweredBy(p, cells) = F[cells]
  BY DEF LoweredBy
<1> HIDE DEF F
<1>11. F[0] = p /\ \A n \in 1 .. cells : F[n] = Lowered(F[n - 1])
  BY <1>1, <1>9
<1>12. \A n \in 1 .. cells : F[n - 1] \in S => F[n] \in S
  BY <1>2, <1>11
<1>13. F[cells] \in S
  BY <1>1, <1>11, <1>12, StaysWithin
<1> QED BY <1>10, <1>13 DEF S

\* All the way down.
LEMMA DroppedMoves ==
    ASSUME NEW p, Playing(p)
    PROVE  Moved(p, Dropped(p))
BY LoweredByMoves, SizeAssumption DEF Dropped

KeySet == SUBSET (Sides \cup {"down"})

\* A key that is pressed or let go moves nothing by itself.
LEMMA KeysMove ==
    ASSUME NEW p, Playing(p), NEW keys \in KeySet
    PROVE  Moved(p, [p EXCEPT !.held = keys])
<1> DEFINE q == [p EXCEPT !.held = keys]
<1>1. p \in Simulation
  BY DEF Playing
<1>2. q \in Simulation
  BY <1>1 DEF Simulation, KeySet
<1>3. q.board = p.board /\ q.active = p.active
  BY <1>1 DEF Simulation
<1>4. Playing(q)
  BY <1>1, <1>2, <1>3 DEF Playing, Simulation
<1> QED BY <1>1, <1>3, <1>4 DEF Moved, Simulation

\* Nor does the side that leads, or its frames.
LEMMA SideMoves ==
    ASSUME NEW p, Playing(p), NEW s \in Sides \cup {None}, NEW n \in Nat
    PROVE  Moved(p, [p EXCEPT !.side = s, !.sideFrames = n])
<1> DEFINE q == [p EXCEPT !.side = s, !.sideFrames = n]
<1>1. p \in Simulation
  BY DEF Playing
<1>2. q \in Simulation
  BY <1>1 DEF Simulation
<1>3. q.board = p.board /\ q.active = p.active
  BY <1>1 DEF Simulation
<1>4. Playing(q)
  BY <1>1, <1>2, <1>3 DEF Playing, Simulation
<1> QED BY <1>1, <1>3, <1>4 DEF Moved, Simulation

\* Nor do the counters of the fall, the auto-shift and the lock delay.
LEMMA CounterMoves ==
    ASSUME NEW p, Playing(p), NEW n \in Nat
    PROVE  /\ Moved(p, [p EXCEPT !.sideFrames = n]) /\ Moved(p, [p EXCEPT !.fallen = n])
           /\ Moved(p, [p EXCEPT !.lockFrames = n])
<1>1. p \in Simulation
  BY DEF Playing
<1>2. Moved(p, [p EXCEPT !.sideFrames = n])
  <2> DEFINE q == [p EXCEPT !.sideFrames = n]
  <2>1. q \in Simulation
    BY <1>1 DEF Simulation
  <2>2. q.board = p.board /\ q.active = p.active
    BY <1>1 DEF Simulation
  <2>3. Playing(q)
    BY <1>1, <2>1, <2>2 DEF Playing, Simulation
  <2> QED BY <1>1, <2>2, <2>3 DEF Moved, Simulation
<1>3. Moved(p, [p EXCEPT !.fallen = n])
  <2> DEFINE q == [p EXCEPT !.fallen = n]
  <2>1. q \in Simulation
    BY <1>1 DEF Simulation
  <2>2. q.board = p.board /\ q.active = p.active
    BY <1>1 DEF Simulation
  <2>3. Playing(q)
    BY <1>1, <2>1, <2>2 DEF Playing, Simulation
  <2> QED BY <1>1, <2>2, <2>3 DEF Moved, Simulation
<1>4. Moved(p, [p EXCEPT !.lockFrames = n])
  <2> DEFINE q == [p EXCEPT !.lockFrames = n]
  <2>1. q \in Simulation
    BY <1>1 DEF Simulation
  <2>2. q.board = p.board /\ q.active = p.active
    BY <1>1 DEF Simulation
  <2>3. Playing(q)
    BY <1>1, <2>1, <2>2 DEF Playing, Simulation
  <2> QED BY <1>1, <2>2, <2>3 DEF Moved, Simulation
<1> QED BY <1>2, <1>3, <1>4

\* A press of a side: it leads, and the piece shifts once.
LEMMA SidePressedMoves ==
    ASSUME NEW p, Playing(p), NEW side \in Sides
    PROVE  Moved(p, SidePressed(p, side))
<1> DEFINE keys == p.held \cup {side}
           q == [p EXCEPT !.held = keys]
           r == [q EXCEPT !.side = side, !.sideFrames = 0]
<1>1. keys \in KeySet
  BY DEF Playing, Simulation, KeySet
<1>2. SidePressed(p, side) = IF side \in p.held THEN q ELSE Shifted(r, side)
  BY DEF SidePressed
<1> HIDE DEF keys
<1>3. Moved(p, q)
  BY <1>1, KeysMove
<1> HIDE DEF q
<1>4. Moved(q, r)
  <2>1. Playing(q) /\ side \in Sides \cup {None} /\ 0 \in Nat
    BY <1>3 DEF Moved
  <2> QED BY <2>1, SideMoves
<1> HIDE DEF r
<1>5. Moved(r, Shifted(r, side))
  BY <1>4, ShiftedMoves DEF Moved
<1> QED BY <1>2, <1>3, <1>4, <1>5, MovedFurther

\* A release: the other side, if held, takes over.
LEMMA SideReleasedMoves ==
    ASSUME NEW p, Playing(p), NEW side \in Sides
    PROVE  Moved(p, SideReleased(p, side))
<1> DEFINE keys == p.held \ {side}
           q == [p EXCEPT !.held = keys]
           other == Opposite(side)
           r == [q EXCEPT !.side = other, !.sideFrames = 0]
           s == [q EXCEPT !.side = None, !.sideFrames = 0]
<1>1. keys \in KeySet /\ other \in Sides
  BY DEF Playing, Simulation, KeySet, Opposite, Sides
<1>2. SideReleased(p, side) = IF p.side # side THEN q
                              ELSE IF other \in p.held THEN Shifted(r, other) ELSE s
  BY DEF SideReleased
<1> HIDE DEF keys
<1>3. Moved(p, q)
  BY <1>1, KeysMove
<1> HIDE DEF q, other
<1>4. Moved(q, r) /\ Moved(q, s)
  <2>1. Playing(q) /\ {other, None} \subseteq Sides \cup {None} /\ 0 \in Nat
    BY <1>1, <1>3 DEF Moved
  <2>2. Moved(q, r)
    BY <2>1, SideMoves
  <2>3. Moved(q, s)
    BY <2>1, SideMoves
  <2> QED BY <2>2, <2>3
<1> HIDE DEF r, s
<1>5. Moved(r, Shifted(r, other))
  BY <1>1, <1>4, ShiftedMoves DEF Moved
<1> QED BY <1>2, <1>3, <1>4, <1>5, MovedFurther

\* The auto-shift at the end of a frame.
LEMMA RepeatsMoves ==
    ASSUME NEW p, Playing(p)
    PROVE  Moved(p, Repeats(p))
<1> DEFINE n == p.sideFrames + 1
           q == [p EXCEPT !.sideFrames = n]
<1>1. n \in Nat /\ p.side \in Sides \cup {None} /\ p \in Simulation
  BY DEF Playing, Simulation
<1>2. q.side = p.side /\ q.sideFrames \in Nat
  BY <1>1 DEF Simulation
<1>3. Repeats(p) = CASE p.side = None -> p
                     [] p.side # None /\ q.sideFrames < DasFrames -> q
                     [] p.side # None /\ q.sideFrames >= DasFrames /\ ArrFrames = 0 ->
                          ShiftedToWall(q, q.side)
                     [] p.side # None /\ q.sideFrames >= DasFrames /\ ArrFrames > 0 ->
                          IF (q.sideFrames - DasFrames) % ArrFrames = 0 THEN Shifted(q, q.side)
                          ELSE q
  BY DEF Repeats
<1> HIDE DEF n
<1>4. Moved(p, q)
  BY <1>1, CounterMoves
<1> HIDE DEF q
<1>5. p.side # None => Moved(q, ShiftedToWall(q, q.side)) /\ Moved(q, Shifted(q, q.side))
  BY <1>1, <1>2, <1>4, ShiftedToWallMoves, ShiftedMoves DEF Moved
<1>6. p.side # None => Moved(p, ShiftedToWall(q, q.side)) /\ Moved(p, Shifted(q, q.side))
  BY <1>4, <1>5, MovedFurther
<1>7. Moved(p, p)
  BY PlayingMoved
<1>8. DasFrames \in Nat /\ ArrFrames \in Nat
  BY SimulationAssumption
<1>9. \/ q.sideFrames < DasFrames
      \/ q.sideFrames >= DasFrames /\ (ArrFrames = 0 \/ ArrFrames > 0)
  BY <1>2, <1>8
<1> QED BY <1>3, <1>4, <1>6, <1>7, <1>9

\* Whole division yields a number.
LEMMA Cells ==
    ASSUME NEW x \in Nat, NEW d \in Nat \ {0}
    PROVE  x \div d \in Nat /\ x % d \in Nat
BY SMT

\* Gravity at the end of a frame.
LEMMA FallsMoves ==
    ASSUME NEW p, Playing(p)
    PROVE  Moved(p, Falls(p))
<1> DEFINE rate == IF "down" \in p.held THEN Most(Gravity, SoftDrop) ELSE Gravity
           fallen == p.fallen + rate
           rest == fallen % CellParts
           cells == Least(fallen \div CellParts, 40)
           q == [p EXCEPT !.fallen = rest]
<1>1. p.fallen \in Nat /\ Gravity \in Nat /\ SoftDrop \in Nat /\ CellParts \in Nat \ {0}
  BY SimulationAssumption DEF Playing, Simulation
<1>2. rate \in Nat
  BY <1>1 DEF Most
<1> HIDE DEF rate
<1>3. fallen \in Nat
  BY <1>1, <1>2
<1>4. Falls(p) = LoweredBy(q, cells)
  BY DEF Falls, rate
<1> HIDE DEF fallen
<1>5. rest \in Nat /\ fallen \div CellParts \in Nat
  BY <1>1, <1>3, Cells
<1>6. cells \in Nat
  BY <1>5 DEF Least
<1> HIDE DEF rest, cells
<1>7. Moved(p, q)
  BY <1>5, CounterMoves
<1> HIDE DEF q
<1>8. Moved(q, LoweredBy(q, cells))
  BY <1>6, <1>7, LoweredByMoves DEF Moved
<1> QED BY <1>4, <1>7, <1>8, MovedFurther

(******************************* generation ********************************)

\* The sequence holds kinds; n more pieces can be drawn by p.
Sequence == \A i \in DOMAIN pieces : pieces[i] \in Kinds
CanDraw(p, n) == Sequence /\ \A i \in 1 .. n : p.cursor + i \in DOMAIN pieces

\* A player who waits for a piece.
Awaits(p) == p \in Simulation /\ ~p.topped /\ p.pending \in Pending

\* What is on the board, in the queue and among the locks of q is what p has.
SameStack(p, q) ==
    /\ q.board = p.board /\ q.garbage = p.garbage /\ q.placed = p.placed /\ q.locks = p.locks

\* Whether a buffered hold takes the piece that is due.
UsesHold(p) == p.ihs /\ ~p.pending.byHold

\* What bringing out a piece does.
Generates(p, q) ==
    /\ q \in Simulation /\ q.pending = None /\ ~q.ihs
    /\ ~q.topped => Playing(q)
    /\ SameStack(p, q)
    /\ ~UsesHold(p) => /\ q.hold = p.hold /\ q.cursor = p.cursor /\ q.canHold = ~p.pending.byHold
                       /\ ~q.topped => q.active.kind = p.pending.kind
    /\ UsesHold(p) =>
         /\ q.hold = p.pending.kind /\ ~q.canHold
         /\ p.hold # None => /\ q.cursor = p.cursor
                             /\ ~q.topped => q.active.kind = p.hold
         /\ p.hold = None => /\ q.cursor = p.cursor + 1
                             /\ ~q.topped => q.active.kind = pieces[p.cursor + 1]

\* A piece that appears is a piece of its kind.
LEMMA UprightType ==
    ASSUME NEW kind \in Kinds, NEW y \in Int
    PROVE  Upright(kind, y) \in Piece /\ Upright(kind, y).kind = kind
BY SimulationAssumption DEF Upright, Piece, Rotations

\* The row a piece appears in takes it.
LEMMA SpawnsWhereItFits ==
    ASSUME NEW p \in Simulation, p.pending \in Pending, NEW kind \in Kinds,
           SpawnRows(p, kind) # {}
    PROVE  LET piece == Upright(kind, Lowest(SpawnRows(p, kind)))
           IN  /\ piece \in Piece /\ piece.kind = kind
               /\ SpawnsTurned(p, kind, piece.y) =>
                    /\ p.irs \in Turns
                    /\ CanRotate(p.board, piece, p.irs)
               /\ ~SpawnsTurned(p, kind, piece.y) => Fits(p.board, piece)
<1> DEFINE rows == SpawnRows(p, kind)
           y == Lowest(rows)
           piece == Upright(kind, y)
<1>1. SpawnY \in Nat /\ Height \in Nat
  BY SimulationAssumption, SizeAssumption
<1>2. rows \subseteq Nat
  BY <1>1 DEF SpawnRows
<1>3. y \in rows
  BY <1>2, LowestIsIn
<1>4. SpawnsTurned(p, kind, y) \/ Fits(p.board, piece)
  BY <1>3 DEF SpawnRows
<1>5. y \in Nat
  BY <1>2, <1>3
<1> HIDE DEF rows, y
<1>6. piece \in Piece /\ piece.kind = kind /\ piece.y = y
  BY <1>5, UprightType DEF Upright
<1>7. SpawnsTurned(p, kind, y) => p.irs \in Turns /\ CanRotate(p.board, piece, p.irs)
  BY DEF SpawnsTurned, Simulation
<1> HIDE DEF piece
<1> QED BY <1>4, <1>6, <1>7 DEF piece, y, rows

\* The player p once a piece is out.
GeneratedWith(p, a, h, c, n, t, l) ==
    [p EXCEPT !.active = a, !.hold = h, !.canHold = c, !.cursor = n, !.topped = t,
              !.fallen = 0, !.lockFrames = 0, !.lockResets = 0, !.last = l,
              !.pending = None, !.ihs = FALSE, !.irs = None]

\* The player a piece has been brought out for is a player.
LEMMA GeneratedType ==
    ASSUME NEW p \in Simulation, NEW a \in Piece \cup {None}, NEW h \in KindOrNone,
           NEW c \in BOOLEAN, NEW n \in Nat, NEW t \in BOOLEAN, NEW l \in LastTurn
    PROVE  GeneratedWith(p, a, h, c, n, t, l) \in Simulation
BY DEF Simulation, GeneratedWith

\* finishGeneration: the piece that appears fits or the player tops out, and a buffered hold
\* exchanges the kinds without losing one.
LEMMA GeneratedGenerates ==
    ASSUME NEW p, Awaits(p), Sequence, UsesHold(p) => CanDraw(p, 1)
    PROVE  Generates(p, Generated(p))
<1> DEFINE usesHold == p.ihs /\ ~p.pending.byHold
           fresh == usesHold /\ p.hold = None
           kind == IF ~usesHold THEN p.pending.kind ELSE IF fresh THEN NextKind(p) ELSE p.hold
           rows == SpawnRows(p, kind)
           piece == Upright(kind, Lowest(rows))
           turned == rows # {} /\ SpawnsTurned(p, kind, piece.y)
           a == IF rows = {} THEN None
                ELSE IF turned THEN Rotated(p.board, piece, p.irs) ELSE piece
           h == HoldAfter(p, usesHold)
           c == CanHoldAfter(p, usesHold)
           n == IF fresh THEN p.cursor + 1 ELSE p.cursor
           t == rows = {}
           l == IF turned THEN [turn |-> p.irs, kick |-> KickIndex(p.board, piece, p.irs)]
                ELSE NoTurn
           q == GeneratedWith(p, a, h, c, n, t, l)
<1>1. Generated(p) = q
  BY DEF Generated, GeneratedWith
<1>2. /\ p \in Simulation /\ p.pending \in Pending /\ p.hold \in KindOrNone /\ p.ihs \in BOOLEAN
      /\ p.cursor \in Nat
  BY DEF Awaits, Simulation
<1>3. p.pending.kind \in Kinds /\ p.pending.byHold \in BOOLEAN
  BY <1>2 DEF Pending
<1>4. NextKind(p) = pieces[p.cursor + 1] /\ (usesHold => NextKind(p) \in Kinds)
  BY DEF CanDraw, Sequence, NextKind, UsesHold
<1>5. kind \in Kinds
  BY <1>2, <1>3, <1>4 DEF KindOrNone
<1>6. h = (IF usesHold THEN p.pending.kind ELSE p.hold) /\ c = (~usesHold /\ ~p.pending.byHold)
  BY DEF HoldAfter, CanHoldAfter
<1>7. h \in KindOrNone /\ c \in BOOLEAN /\ n \in Nat /\ t \in BOOLEAN
  <2>1. n \in Nat
    BY <1>2
  <2> HIDE DEF h, c, n
  <2>2. h \in KindOrNone
    BY <1>2, <1>3, <1>6 DEF KindOrNone
  <2>3. c \in BOOLEAN
    BY <1>6, Zenon
  <2> QED BY <2>1, <2>2, <2>3
<1>8. kind = IF ~usesHold THEN p.pending.kind
             ELSE IF p.hold = None THEN pieces[p.cursor + 1] ELSE p.hold
  BY <1>4
<1>9. n = IF usesHold /\ p.hold = None THEN p.cursor + 1 ELSE p.cursor
  OBVIOUS
<1> HIDE DEF kind, h, c, n
<1>10. /\ t => a = None /\ l = NoTurn
       /\ ~t => /\ a \in Piece /\ a.kind = kind /\ Fits(p.board, a)
                /\ l \in LastTurn
  <2>1. CASE t
    BY <2>1
  <2>2. CASE ~t
    <3>1. /\ piece \in Piece /\ piece.kind = kind
          /\ SpawnsTurned(p, kind, piece.y) => p.irs \in Turns /\ CanRotate(p.board, piece, p.irs)
          /\ ~SpawnsTurned(p, kind, piece.y) => Fits(p.board, piece)
      BY <1>2, <1>5, <2>2, SpawnsWhereItFits
    <3>2. turned <=> SpawnsTurned(p, kind, piece.y)
      BY <2>2
    <3>3. /\ a = IF turned THEN Rotated(p.board, piece, p.irs) ELSE piece
          /\ l = IF turned THEN [turn |-> p.irs, kick |-> KickIndex(p.board, piece, p.irs)]
                 ELSE NoTurn
      BY <2>2
    <3>4. NoTurn \in LastTurn
      BY DEF NoTurn, LastTurn
    <3> HIDE DEF a, l, turned, piece
    <3>5. CASE turned
      <4>1. /\ Rotated(p.board, piece, p.irs) \in Piece
            /\ Rotated(p.board, piece, p.irs).kind = piece.kind
            /\ Fits(p.board, Rotated(p.board, piece, p.irs))
            /\ KickIndex(p.board, piece, p.irs) \in Int
        BY <3>1, <3>2, <3>5, RotatedFits
      <4>2. [turn |-> p.irs, kick |-> KickIndex(p.board, piece, p.irs)] \in LastTurn
        BY <3>1, <3>2, <3>5, <4>1 DEF LastTurn
      <4> QED BY <2>2, <3>1, <3>3, <3>5, <4>1, <4>2
    <3>6. CASE ~turned
      BY <2>2, <3>1, <3>2, <3>3, <3>4, <3>6
    <3> QED BY <3>5, <3>6
  <2> QED BY <2>1, <2>2
<1>11. NoTurn \in LastTurn
  BY DEF NoTurn, LastTurn
<1>12. a \in Piece \cup {None} /\ l \in LastTurn
  BY <1>10, <1>11
<1> HIDE DEF a, t, l
<1>13. q \in Simulation
  BY <1>2, <1>7, <1>12, GeneratedType
<1>14. /\ q.pending = None /\ ~q.ihs /\ q.topped = t /\ q.active = a /\ q.hold = h
       /\ q.canHold = c /\ q.cursor = n /\ q.board = p.board
  BY <1>2 DEF Simulation, GeneratedWith
<1>15. SameStack(p, q)
  BY <1>2 DEF Simulation, SameStack, GeneratedWith
<1> HIDE DEF q
<1>16. ~q.topped => Playing(q) /\ q.active.kind = kind
  BY <1>10, <1>13, <1>14 DEF Playing
<1>17. UsesHold(p) <=> usesHold
  BY DEF UsesHold
<1> HIDE DEF usesHold
<1> QED BY <1>1, <1>3, <1>6, <1>8, <1>9, <1>13, <1>14, <1>15, <1>16, <1>17 DEF Generates

(********************************** sums ***********************************)

\* One more number.
LEMMA TotalAppend ==
    ASSUME NEW s \in Seq(Int), NEW x \in Int
    PROVE  Total(Append(s, x)) = Total(s) + x
<1>1. PICK f \in [0 .. Len(s) -> Int] : SumsTo(f, s) /\ Total(s) = f[Len(s)]
  BY TotalSums
<1> DEFINE N == Len(s)
           t == Append(s, x)
           h == [n \in 0 .. (N + 1) |-> IF n = N + 1 THEN f[N] + x ELSE f[n]]
<1>2. /\ N \in Nat /\ t \in Seq(Int) /\ Len(t) = N + 1 /\ t[N + 1] = x
      /\ \A n \in 1 .. N : t[n] = s[n]
  OBVIOUS
<1>3. \A n \in 0 .. N : h[n] = f[n]
  BY <1>2
<1>4. h[N + 1] = f[N] + x
  BY <1>2
<1> HIDE DEF h, t
<1>5. ASSUME NEW n \in 1 .. (N + 1) PROVE h[n] = h[n - 1] + t[n]
  <2>1. CASE n = N + 1
    BY <1>2, <1>3, <1>4, <2>1
  <2>2. CASE n # N + 1
    <3>1. n \in 1 .. N /\ n - 1 \in 0 .. N /\ n \in 0 .. N
      BY <1>2, <2>2
    <3>2. f[n] = f[n - 1] + s[n]
      BY <1>1, <3>1 DEF SumsTo
    <3> QED BY <1>2, <1>3, <3>1, <3>2
  <2> QED BY <2>1, <2>2
<1>6. h[0] = 0
  BY <1>1, <1>2, <1>3 DEF SumsTo
<1>7. SumsTo(h, t)
  BY <1>2, <1>5, <1>6 DEF SumsTo
<1>8. Total(t) = h[N + 1]
  BY <1>2, <1>7, TotalIs
<1> QED BY <1>1, <1>4, <1>8 DEF t

\* The sum of the first m numbers.
LEMMA TotalPrefix ==
    ASSUME NEW s \in Seq(Int), NEW f, SumsTo(f, s), NEW m \in 0 .. Len(s)
    PROVE  Total(SubSeq(s, 1, m)) = f[m]
<1> DEFINE t == SubSeq(s, 1, m)
<1>1. t \in Seq(Int) /\ Len(t) = m /\ \A i \in 1 .. m : t[i] = s[i]
  OBVIOUS
<1>2. m \in Nat /\ \A n \in 1 .. m : n \in 1 .. Len(s)
  OBVIOUS
<1> HIDE DEF t
<1>3. SumsTo(f, t)
  BY <1>1, <1>2 DEF SumsTo
<1>4. Total(t) = f[Len(t)]
  BY <1>1, <1>3, TotalIs
<1> QED BY <1>1, <1>4 DEF t

\* What n leaves of some amounts is what they exceed n by.
LEMMA SparedLeaves ==
    ASSUME NEW a \in Seq(Nat), NEW n \in Nat
    PROVE  /\ Spared(a, n) \in Seq(Nat) /\ Len(Spared(a, n)) = Len(a)
           /\ Total(Spared(a, n)) = Most(0, Total(a) - n)
<1> DEFINE r == Spared(a, n)
           N == Len(a)
<1>1. a \in Seq(Int) /\ N \in Nat /\ DOMAIN a = 1 .. N /\ \A i \in 1 .. N : a[i] \in Nat
  OBVIOUS
<1>2. PICK f \in [0 .. N -> Int] : SumsTo(f, a) /\ Total(a) = f[N]
  BY <1>1, TotalSums
<1>3. ASSUME NEW i \in 1 .. N PROVE r[i] = a[i] - Least(a[i], Most(0, n - f[i - 1]))
  <2>1. i - 1 \in 0 .. N
    BY <1>1
  <2>2. Total(SubSeq(a, 1, i - 1)) = f[i - 1]
    BY <1>1, <1>2, <2>1, TotalPrefix
  <2> QED BY <1>1, <2>2 DEF Spared
<1>4. ASSUME NEW i \in 1 .. N PROVE r[i] \in Nat
  <2>1. f[i - 1] \in Int /\ a[i] \in Nat
    BY <1>1, <1>2
  <2> QED BY <1>3, <2>1 DEF Least, Most
<1>5. r \in Seq(Nat) /\ Len(r) = N
  <2>1. r = [i \in 1 .. N |-> r[i]]
    BY <1>1 DEF Spared
  <2> HIDE DEF r
  <2> QED BY <1>1, <1>4, <2>1
<1> DEFINE h == [i \in 0 .. N |-> Most(0, f[i] - n)]
<1>6. \A i \in 0 .. N : f[i] \in Int /\ h[i] = Most(0, f[i] - n)
  BY <1>2
<1> HIDE DEF h, r
<1>7. ASSUME NEW i \in 1 .. N PROVE h[i] = h[i - 1] + r[i]
  <2>1. i \in 0 .. N /\ i - 1 \in 0 .. N
    BY <1>1
  <2>2. f[i] = f[i - 1] + a[i]
    BY <1>2 DEF SumsTo
  <2> DEFINE u == f[i - 1]
             v == a[i]
  <2>3. u \in Int /\ v \in Nat /\ f[i] = u + v
    BY <1>1, <1>6, <2>1, <2>2
  <2>4. h[i] = Most(0, (u + v) - n) /\ h[i - 1] = Most(0, u - n)
    BY <1>6, <2>1, <2>3
  <2>5. r[i] = v - Least(v, Most(0, n - u))
    BY <1>3
  <2> HIDE DEF u, v
  <2> QED BY <2>3, <2>4, <2>5 DEF Least, Most
<1>8. h[0] = 0
  BY <1>1, <1>2, <1>6 DEF SumsTo, Most
<1>9. SumsTo(h, r)
  BY <1>5, <1>7, <1>8 DEF SumsTo
<1>10. Total(r) = h[N]
  BY <1>5, <1>9, TotalIs
<1> QED BY <1>1, <1>2, <1>5, <1>6, <1>10 DEF r

\* What is not positive adds nothing.
LEMMA KeepTotal ==
    ASSUME NEW s \in Seq(Nat)
    PROVE  Total(Keep(s, Nat \ {0})) = Total(s) /\ Keep(s, Nat \ {0}) \in Seq(Nat \ {0})
<1> DEFINE S == Nat \ {0}
           N == Len(s)
<1>1. N \in Nat /\ s \in Seq(Int) /\ \A n \in 1 .. N : s[n] \in Nat
  OBVIOUS
<1>2. PICK k : KeptBy(k, s, S)
  BY KeepRecursion
<1>3. /\ Keep(s, S) = k[N] /\ k[0] = <<>>
      /\ \A n \in Nat : n + 1 <= N => k[n + 1] = IF s[n + 1] \in S THEN Append(k[n], s[n + 1])
                                                 ELSE k[n]
  BY <1>2 DEF KeptBy
<1>4. PICK f \in [0 .. N -> Int] : SumsTo(f, s) /\ Total(s) = f[N]
  BY <1>1, TotalSums
<1> DEFINE P == {n \in Nat : n <= N => k[n] \in Seq(Nat \ {0}) /\ Total(k[n]) = f[n]}
<1>5. 0 \in P
  <2>1. k[0] = <<>> /\ f[0] = 0
    BY <1>3, <1>4 DEF SumsTo
  <2>2. k[0] \in Seq(Nat \ {0}) /\ Total(k[0]) = f[0]
    BY <2>1, TotalEmpty
  <2> QED BY <2>2
<1>6. ASSUME NEW n \in Nat, n \in P PROVE n + 1 \in P
  <2> SUFFICES ASSUME n + 1 <= N
               PROVE  k[n + 1] \in Seq(Nat \ {0}) /\ Total(k[n + 1]) = f[n + 1]
    OBVIOUS
  <2>1. n + 1 \in 1 .. N /\ (n + 1) - 1 = n /\ n \in 0 .. N
    BY <1>1
  <2>2. k[n] \in Seq(Nat \ {0}) /\ Total(k[n]) = f[n] /\ f[n] \in Int /\ s[n + 1] \in Nat
    BY <1>1, <1>4, <1>6, <2>1
  <2>3. f[n + 1] = f[n] + s[n + 1]
    BY <1>4, <2>1 DEF SumsTo
  <2>4. k[n + 1] = IF s[n + 1] \in S THEN Append(k[n], s[n + 1]) ELSE k[n]
    BY <1>3
  <2> DEFINE x == s[n + 1]
             t == k[n]
  <2> HIDE DEF x, t
  <2>5. CASE x = 0
    BY <2>2, <2>3, <2>4, <2>5 DEF x, t
  <2>6. CASE x # 0
    <3>1. t \in Seq(Nat \ {0}) /\ x \in Nat \ {0} /\ t \in Seq(Int)
      BY <2>2, <2>6 DEF x, t
    <3>2. Append(t, x) \in Seq(Nat \ {0}) /\ Total(Append(t, x)) = Total(t) + x
      BY <3>1, TotalAppend
    <3>3. k[n + 1] = Append(t, x)
      BY <2>4, <3>1 DEF x, t
    <3> QED BY <2>2, <2>3, <3>2, <3>3 DEF x, t
  <2> QED BY <2>5, <2>6
<1> HIDE DEF P
<1>7. \A n \in Nat : n \in P
  BY <1>5, <1>6, SetInduction
<1>8. N \in P
  BY <1>1, <1>7
<1> QED BY <1>3, <1>4, <1>8 DEF P

(**************************** the garbage queue ****************************)

\* A packet from which all of its rows may have been taken.
Loose == [amount : Nat, at : Nat, hole : Columns]

\* What waits in a queue is a packet whose rows are not all taken.
LEMMA GarbageIs ==
    Garbage \subseteq Packet /\ Garbage \subseteq Loose /\ Loose \cap Packet = Garbage
<1>1. Columns \subseteq Nat
  BY SizeAssumption DEF Columns
<1> QED BY <1>1 DEF Garbage, Packet, Loose

\* The amounts of packets, and what waits in all of them.
LEMMA AmountsType ==
    ASSUME NEW w \in Seq(Loose)
    PROVE  /\ Amounts(w) \in Seq(Nat) /\ Len(Amounts(w)) = Len(w)
           /\ \A i \in 1 .. Len(w) : Amounts(w)[i] = w[i].amount
           /\ Waiting(w) \in Nat
<1>1. DOMAIN w = 1 .. Len(w) /\ Len(w) \in Nat /\ \A i \in 1 .. Len(w) : w[i] \in Loose
  OBVIOUS
<1>2. \A i \in 1 .. Len(w) : w[i].amount \in Nat
  BY <1>1 DEF Loose
<1>3. Amounts(w) \in Seq(Nat) /\ Len(Amounts(w)) = Len(w)
  BY <1>1, <1>2 DEF Amounts
<1>4. \A i \in 1 .. Len(w) : Amounts(w)[i] = w[i].amount
  BY <1>1 DEF Amounts
<1>5. Waiting(w) \in Nat
  BY <1>3, TotalNat DEF Waiting
<1> QED BY <1>3, <1>4, <1>5

\* Nothing waits in an empty queue.
LEMMA WaitingEmpty == Waiting(<<>>) = 0
<1>1. Amounts(<<>>) = <<>>
  BY DEF Amounts
<1> QED BY <1>1, TotalEmpty DEF Waiting

\* A packet more lets its amount more wait.
LEMMA WaitingAppend ==
    ASSUME NEW w \in Seq(Loose), NEW x \in Loose
    PROVE  Waiting(Append(w, x)) = Waiting(w) + x.amount
<1> DEFINE u == Append(w, x)
           a == Append(Amounts(w), x.amount)
<1>1. u \in Seq(Loose) /\ Len(u) = Len(w) + 1 /\ Len(w) \in Nat
  OBVIOUS
<1>2. x.amount \in Nat
  BY DEF Loose
<1>3. Amounts(w) \in Seq(Nat) /\ Len(Amounts(w)) = Len(w)
  BY AmountsType
<1>4. a \in Seq(Nat) /\ Len(a) = Len(w) + 1
  BY <1>2, <1>3
<1>5. Amounts(u) \in Seq(Nat) /\ Len(Amounts(u)) = Len(w) + 1
  BY <1>1, AmountsType
<1>6. ASSUME NEW i \in 1 .. (Len(w) + 1) PROVE Amounts(u)[i] = a[i]
  <2>1. Amounts(u)[i] = u[i].amount
    BY <1>1, AmountsType
  <2>2. CASE i \in 1 .. Len(w)
    <3>1. u[i] = w[i] /\ a[i] = Amounts(w)[i]
      BY <1>2, <1>3, <2>2
    <3>2. Amounts(w)[i] = w[i].amount
      BY <2>2, AmountsType
    <3> QED BY <2>1, <3>1, <3>2
  <2>3. CASE i \notin 1 .. Len(w)
    <3>1. i = Len(w) + 1
      BY <1>1, <2>3
    <3>2. u[i] = x /\ a[i] = x.amount
      BY <1>2, <1>3, <3>1
    <3> QED BY <2>1, <3>2
  <2> QED BY <2>2, <2>3
<1> HIDE DEF a, u
<1>7. Amounts(u) = a
  BY <1>4, <1>5, <1>6
<1>8. Total(a) = Total(Amounts(w)) + x.amount
  <2>1. Amounts(w) \in Seq(Int) /\ x.amount \in Int
    BY <1>2, <1>3
  <2> QED BY <2>1, TotalAppend DEF a
<1> QED BY <1>7, <1>8 DEF Waiting, u

\* Packets that are spent are no loss.
LEMMA KeepWaiting ==
    ASSUME NEW w \in Seq(Loose)
    PROVE  Keep(w, Packet) \in Seq(Garbage) /\ Waiting(Keep(w, Packet)) = Waiting(w)
<1> DEFINE N == Len(w)
           a == Amounts(w)
<1>1. N \in Nat /\ \A n \in 1 .. N : w[n] \in Loose
  OBVIOUS
<1>2. /\ a \in Seq(Int) /\ Len(a) = N /\ Waiting(w) = Total(a)
      /\ \A n \in 1 .. N : a[n] = w[n].amount
  BY AmountsType DEF Waiting
<1>3. PICK k : KeptBy(k, w, Packet)
  BY KeepRecursion
<1>4. /\ Keep(w, Packet) = k[N] /\ k[0] = <<>>
      /\ \A n \in Nat : n + 1 <= N => k[n + 1] = IF w[n + 1] \in Packet THEN Append(k[n], w[n + 1])
                                                 ELSE k[n]
  BY <1>3 DEF KeptBy
<1> HIDE DEF a
<1>5. PICK f \in [0 .. N -> Int] : SumsTo(f, a) /\ Total(a) = f[N]
  BY <1>2, TotalSums
<1> DEFINE P == {n \in Nat : n <= N => k[n] \in Seq(Garbage) /\ Waiting(k[n]) = f[n]}
<1>6. 0 \in P
  <2>1. k[0] = <<>> /\ f[0] = 0
    BY <1>4, <1>5 DEF SumsTo
  <2>2. k[0] \in Seq(Garbage) /\ Waiting(k[0]) = f[0]
    BY <2>1, WaitingEmpty
  <2> QED BY <2>2
<1>7. ASSUME NEW n \in Nat, n \in P PROVE n + 1 \in P
  <2> SUFFICES ASSUME n + 1 <= N
               PROVE  k[n + 1] \in Seq(Garbage) /\ Waiting(k[n + 1]) = f[n + 1]
    OBVIOUS
  <2>1. n + 1 \in 1 .. N /\ (n + 1) - 1 = n /\ n \in 0 .. N
    BY <1>1
  <2> DEFINE x == w[n + 1]
             t == k[n]
  <2>2. t \in Seq(Garbage) /\ Waiting(t) = f[n] /\ f[n] \in Int /\ x \in Loose
    BY <1>1, <1>5, <1>7, <2>1
  <2>3. f[n + 1] = f[n] + x.amount
    BY <1>2, <1>5, <2>1 DEF SumsTo
  <2>4. k[n + 1] = IF x \in Packet THEN Append(t, x) ELSE t
    BY <1>4
  <2> HIDE DEF x, t
  <2>5. CASE x \in Packet
    <3>1. x \in Garbage /\ t \in Seq(Loose)
      BY <2>2, <2>5, GarbageIs
    <3>2. Append(t, x) \in Seq(Garbage) /\ Waiting(Append(t, x)) = Waiting(t) + x.amount
      BY <2>2, <3>1, WaitingAppend
    <3> QED BY <2>2, <2>3, <2>4, <2>5, <3>2
  <2>6. CASE x \notin Packet
    <3>1. x.amount = 0
      <4>1. Columns \subseteq Nat
        BY SizeAssumption DEF Columns
      <4> QED BY <2>2, <2>6, <4>1 DEF Loose, Packet
    <3> QED BY <2>2, <2>3, <2>4, <2>6, <3>1
  <2> QED BY <2>5, <2>6
<1> HIDE DEF P
<1>8. \A n \in Nat : n \in P
  BY <1>6, <1>7, SetInduction
<1>9. N \in P
  BY <1>1, <1>8
<1> QED BY <1>2, <1>4, <1>5, <1>9 DEF P

\* Taking n rows from a queue leaves what exceeds n.
LEMMA WithoutLeaves ==
    ASSUME NEW g \in Seq(Garbage), NEW n \in Nat
    PROVE  Without(g, n) \in Seq(Garbage) /\ Waiting(Without(g, n)) = Most(0, Waiting(g) - n)
<1> DEFINE a == Amounts(g)
           left == Spared(a, n)
           w == [i \in DOMAIN g |-> [g[i] EXCEPT !.amount = left[i]]]
           N == Len(g)
<1>1. N \in Nat /\ DOMAIN g = 1 .. N /\ g \in Seq(Loose) /\ \A i \in 1 .. N : g[i] \in Loose
  BY GarbageIs
<1>2. a \in Seq(Nat) /\ Len(a) = N /\ Waiting(g) = Total(a)
  BY <1>1, AmountsType DEF Waiting
<1> HIDE DEF a
<1>3. left \in Seq(Nat) /\ Len(left) = N /\ Total(left) = Most(0, Total(a) - n)
  BY <1>2, SparedLeaves
<1>4. Without(g, n) = Keep(w, Packet)
  BY DEF Without, a
<1> HIDE DEF left
<1>5. \A i \in 1 .. N : left[i] \in Nat
  BY <1>3
<1>6. \A i \in 1 .. N : [g[i] EXCEPT !.amount = left[i]] \in Loose
  BY <1>1, <1>5 DEF Loose
<1>7. w \in Seq(Loose) /\ Len(w) = N
  BY <1>1, <1>6
<1>8. \A i \in 1 .. N : w[i].amount = left[i]
  BY <1>1 DEF Loose
<1> HIDE DEF w
<1>9. Amounts(w) = left
  <2>1. Amounts(w) \in Seq(Nat) /\ Len(Amounts(w)) = N /\ \A i \in 1 .. N : Amounts(w)[i] = left[i]
    BY <1>7, <1>8, AmountsType
  <2> QED BY <1>3, <2>1
<1>10. Keep(w, Packet) \in Seq(Garbage) /\ Waiting(Keep(w, Packet)) = Waiting(w)
  BY <1>7, KeepWaiting
<1> QED BY <1>2, <1>3, <1>4, <1>9, <1>10 DEF Waiting

\* What an attack cancels is what the queue loses.
LEMMA CancelTakes ==
    ASSUME NEW g \in Seq(Garbage), NEW attack \in Nat, NEW m \in {1, 2}
    PROVE  LET done == Cancel(g, attack, m)
           IN  /\ done.packets \in Seq(Garbage) /\ done.cancelled \in Nat /\ done.outgoing \in Nat
               /\ Waiting(done.packets) + done.cancelled = Waiting(g)
<1> DEFINE c == Least(Waiting(g), attack * m)
           spent == Least(attack, (c + m - 1) \div m)
           done == Cancel(g, attack, m)
<1>1. Waiting(g) \in Nat
  <2>1. g \in Seq(Loose)
    BY GarbageIs
  <2> QED BY <2>1, AmountsType
<1>2. attack * m \in Nat
  BY SMT
<1>3. c \in Nat /\ c <= Waiting(g)
  BY <1>1, <1>2 DEF Least
<1>4. done.packets = Without(g, c) /\ done.cancelled = c /\ done.outgoing = attack - spent
  BY DEF Cancel
<1> HIDE DEF c
<1>5. (c + m - 1) \div m \in Nat
  <2>1. c + m - 1 \in Nat /\ m \in Nat \ {0}
    BY <1>3
  <2> QED BY <2>1, Cells
<1>6. attack - spent \in Nat
  BY <1>5 DEF Least
<1>7. Without(g, c) \in Seq(Garbage) /\ Waiting(Without(g, c)) = Most(0, Waiting(g) - c)
  BY <1>3, WithoutLeaves
<1>8. Waiting(Without(g, c)) + c = Waiting(g)
  BY <1>1, <1>3, <1>7 DEF Most
<1> HIDE DEF spent, done
<1> QED BY <1>3, <1>4, <1>6, <1>7, <1>8 DEF done

\* An attack that meets the queue: what it takes from the queue is what it cancels.
MetStates(total) ==
    {s \in [packets : Seq(Garbage), cancelled : Nat, outgoing : Seq(Nat \ {0})] :
        Waiting(s.packets) + s.cancelled = total}

\* The same of one attack of several.
LEMMA MetBalances ==
    ASSUME NEW total, NEW s \in MetStates(total), NEW attack \in Nat \ {0}, NEW m \in {1, 2}
    PROVE  Met(s, attack, m) \in MetStates(total)
<1> DEFINE done == Cancel(s.packets, attack, m)
           r == Met(s, attack, m)
           out == IF done.outgoing > 0 THEN Append(s.outgoing, done.outgoing) ELSE s.outgoing
<1>1. /\ s.packets \in Seq(Garbage) /\ s.cancelled \in Nat /\ s.outgoing \in Seq(Nat \ {0})
      /\ Waiting(s.packets) + s.cancelled = total
  BY DEF MetStates
<1>2. /\ done.packets \in Seq(Garbage) /\ done.cancelled \in Nat /\ done.outgoing \in Nat
      /\ Waiting(done.packets) + done.cancelled = Waiting(s.packets)
  BY <1>1, CancelTakes
<1>3. r = [packets |-> done.packets, cancelled |-> s.cancelled + done.cancelled, outgoing |-> out]
  BY DEF Met
<1> HIDE DEF done, r
<1>4. out \in Seq(Nat \ {0})
  BY <1>1, <1>2
<1>5. Waiting(done.packets) \in Nat
  <2>1. done.packets \in Seq(Loose)
    BY <1>2, GarbageIs
  <2> QED BY <2>1, AmountsType
<1>6. Waiting(done.packets) + (s.cancelled + done.cancelled) = total
  BY <1>1, <1>2, <1>5
<1>7. s.cancelled + done.cancelled \in Nat
  BY <1>1, <1>2
<1> HIDE DEF out
<1> QED BY <1>2, <1>3, <1>4, <1>6, <1>7 DEF MetStates, r

\* And of all of them: what a clear cancels is what its player's queue loses.
LEMMA CancelAllBalances ==
    ASSUME NEW g \in Seq(Garbage), NEW attacks \in Seq(Nat \ {0}), NEW m \in {1, 2}
    PROVE  CancelAll(g, attacks, m) \in MetStates(Waiting(g))
<1> DEFINE S == MetStates(Waiting(g))
           N == Len(attacks)
           s0 == [packets |-> g, cancelled |-> 0, outgoing |-> <<>>]
           Solves(f) == f = [n \in 0 .. Len(attacks) |->
                               IF n = 0 THEN [packets |-> g, cancelled |-> 0, outgoing |-> <<>>]
                               ELSE Met(f[n - 1], attacks[n], m)]
           F == CHOOSE f : Solves(f)
           step == [n \in 1 .. N |-> [s \in S |-> Met(s, attacks[n], m)]]
<1>1. N \in Nat /\ \A n \in 1 .. N : attacks[n] \in Nat \ {0}
  OBVIOUS
<1>2. s0 \in S
  <2>1. Waiting(g) \in Nat
    <3>1. g \in Seq(Loose)
      BY GarbageIs
    <3> QED BY <3>1, AmountsType
  <2>2. Waiting(g) + 0 = Waiting(g)
    BY <2>1
  <2> QED BY <2>2 DEF MetStates
<1>3. \A n \in 1 .. N : \A s \in S : Met(s, attacks[n], m) \in S
  BY <1>1, MetBalances
<1> HIDE DEF S
<1>4. step \in [1 .. N -> [S -> S]]
  BY <1>3
<1>5. \A n \in 1 .. N : \A s \in S : step[n][s] = Met(s, attacks[n], m)
  OBVIOUS
<1> HIDE DEF step
<1>6. PICK f \in [0 .. N -> S] : f[0] = s0 /\ \A n \in 1 .. N : f[n] = step[n][f[n - 1]]
  <2>1. HasRun(S, s0, N, step)
    <3> HIDE DEF s0
    <3> QED BY <1>1, <1>2, <1>4, Iteration
  <2> QED BY <2>1 DEF HasRun
<1>7. ASSUME NEW n \in 0 .. N PROVE f[n] = IF n = 0 THEN s0 ELSE Met(f[n - 1], attacks[n], m)
  <2>1. CASE n = 0
    BY <2>1, <1>6
  <2>2. CASE n # 0
    <3>1. n \in 1 .. N /\ n - 1 \in 0 .. N
      BY <2>2, <1>1
    <3>2. f[n] = step[n][f[n - 1]] /\ f[n - 1] \in S
      BY <3>1, <1>6
    <3> QED BY <2>2, <3>1, <3>2, <1>5
  <2> QED BY <2>1, <2>2
<1>8. Solves(f)
  BY <1>7
<1>9. Solves(F)
  BY <1>8
<1>10. CancelAll(g, attacks, m) = F[N]
  BY DEF CancelAll
<1> HIDE DEF F
<1>11. F[0] = s0 /\ \A n \in 1 .. N : F[n] = Met(F[n - 1], attacks[n], m)
  BY <1>1, <1>9
<1>12. \A n \in 1 .. N : F[n - 1] \in S => F[n] \in S
  BY <1>3, <1>11
<1>13. F[N] \in S
  BY <1>1, <1>2, <1>11, <1>12, StaysWithin
<1> QED BY <1>10, <1>13 DEF S

\* The partial sums of numbers that are not negative grow.
LEMMA PrefixBelow ==
    ASSUME NEW s \in Seq(Nat), NEW f, SumsTo(f, s), NEW m \in 0 .. Len(s)
    PROVE  f[m] \in Nat /\ f[m] <= Total(s)
<1> DEFINE N == Len(s)
           P == {d \in Nat : d <= N - m => f[m + d] \in Nat /\ f[m] <= f[m + d]}
           S == {n \in Nat : n <= m => f[n] \in Nat}
<1>1. N \in Nat /\ m \in Nat /\ m <= N /\ s \in Seq(Int) /\ \A n \in 1 .. N : s[n] \in Nat
  OBVIOUS
<1>2. f[0] = 0 /\ \A n \in 1 .. N : f[n] = f[n - 1] + s[n]
  BY DEF SumsTo
<1>3. f[m] \in Nat
  <2>1. ASSUME NEW n \in 1 .. m, f[n - 1] \in Nat PROVE f[n] \in Nat
    <3>1. n \in 1 .. N
      BY <1>1
    <3> QED BY <1>1, <1>2, <2>1, <3>1
  <2>2. f[0] \in Nat
    BY <1>2
  <2> QED BY <1>1, <2>1, <2>2, StaysWithin
<1>4. 0 \in P
  BY <1>1, <1>3
<1>5. ASSUME NEW d \in Nat, d \in P PROVE d + 1 \in P
  <2> SUFFICES ASSUME d + 1 <= N - m PROVE f[m + (d + 1)] \in Nat /\ f[m] <= f[m + (d + 1)]
    OBVIOUS
  <2>1. f[m + d] \in Nat /\ f[m] <= f[m + d]
    BY <1>1, <1>5
  <2>2. (m + d) + 1 \in 1 .. N /\ ((m + d) + 1) - 1 = m + d /\ m + (d + 1) = (m + d) + 1
    BY <1>1
  <2>3. f[(m + d) + 1] = f[m + d] + s[(m + d) + 1] /\ s[(m + d) + 1] \in Nat
    BY <1>1, <1>2, <2>2
  <2> QED BY <1>3, <2>1, <2>2, <2>3
<1> HIDE DEF P
<1>6. \A d \in Nat : d \in P
  BY <1>4, <1>5, SetInduction
<1>7. N - m \in P /\ m + (N - m) = N
  BY <1>1, <1>6
<1>8. f[m] <= f[N]
  BY <1>1, <1>7 DEF P
<1>9. Total(s) = f[N]
  BY <1>1, TotalIs
<1> QED BY <1>3, <1>8, <1>9

\* The sum of two sequences, one after the other.
LEMMA TotalConcat ==
    ASSUME NEW s \in Seq(Int), NEW t \in Seq(Int)
    PROVE  Total(s \o t) = Total(s) + Total(t)
<1> DEFINE u == s \o t
           N == Len(s)
           M == Len(t)
<1>1. N \in Nat /\ M \in Nat /\ u \in Seq(Int) /\ Len(u) = N + M
  OBVIOUS
<1>2. (\A i \in 1 .. N : u[i] = s[i]) /\ (\A i \in 1 .. M : u[N + i] = t[i])
  OBVIOUS
<1>3. PICK f \in [0 .. N -> Int] : SumsTo(f, s) /\ Total(s) = f[N]
  BY TotalSums
<1>4. PICK g \in [0 .. M -> Int] : SumsTo(g, t) /\ Total(t) = g[M]
  BY TotalSums
<1>5. /\ f[0] = 0 /\ g[0] = 0
      /\ \A n \in 1 .. N : f[n] = f[n - 1] + s[n]
      /\ \A n \in 1 .. M : g[n] = g[n - 1] + t[n]
  BY <1>3, <1>4 DEF SumsTo
<1> DEFINE h == [n \in 0 .. (N + M) |-> IF n <= N THEN f[n] ELSE f[N] + g[n - N]]
<1>6. /\ \A n \in 0 .. (N + M) : h[n] = IF n <= N THEN f[n] ELSE f[N] + g[n - N]
      /\ \A n \in 0 .. N : f[n] \in Int
      /\ \A n \in 0 .. M : g[n] \in Int
  OBVIOUS
<1> HIDE DEF h, u
<1>7. h[N + M] = f[N] + g[M]
  <2>1. N + M \in 0 .. (N + M) /\ (N + M) - N = M
    BY <1>1
  <2>2. CASE M = 0
    BY <1>1, <1>5, <1>6, <2>1, <2>2
  <2>3. CASE M # 0
    <3>1. ~(N + M <= N)
      BY <1>1, <2>3
    <3> QED BY <1>6, <2>1, <3>1
  <2> QED BY <2>2, <2>3
<1>8. h[0] = 0
  BY <1>1, <1>5, <1>6
<1>9. ASSUME NEW n \in 1 .. (N + M) PROVE h[n] = h[n - 1] + u[n]
  <2>0. n \in 0 .. (N + M) /\ n - 1 \in 0 .. (N + M)
    BY <1>1
  <2>1. CASE n <= N
    <3>1. n \in 1 .. N /\ n - 1 <= N
      BY <2>1, <1>1
    <3>2. h[n] = f[n] /\ h[n - 1] = f[n - 1]
      BY <1>6, <2>0, <2>1, <3>1
    <3> QED BY <1>2, <1>5, <3>1, <3>2
  <2>2. CASE n = N + 1
    <3>1. 1 \in 1 .. M /\ n - N = 1 /\ n - 1 = N /\ ~(n <= N) /\ N + 1 = n
      BY <2>2, <1>1
    <3>6. h[n] = f[N] + g[n - N]
      BY <1>6, <2>0, <3>1
    <3>7. n - 1 <= N
      BY <1>1, <3>1
    <3>5. h[n] = f[N] + g[n - N] /\ h[n - 1] = f[n - 1]
      BY <1>6, <2>0, <3>6, <3>7
    <3>2. h[n] = f[N] + g[1] /\ h[n - 1] = f[N]
      BY <3>1, <3>5
    <3>3. g[1] = g[0] + t[1] /\ u[N + 1] = t[1] /\ t[1] \in Int
      BY <1>2, <1>5, <3>1
    <3>4. g[1] = t[1] /\ u[n] = t[1]
      BY <1>5, <3>1, <3>3
    <3> QED BY <3>2, <3>4
  <2>3. CASE n > N + 1
    <3> DEFINE i == n - N
    <3>1. i \in 1 .. M /\ ~(n <= N) /\ ~(n - 1 <= N) /\ (n - 1) - N = i - 1 /\ N + i = n
          /\ i - 1 \in 0 .. M
      BY <1>1, <2>3
    <3>2. h[n] = f[N] + g[i] /\ h[n - 1] = f[N] + g[i - 1]
      BY <1>6, <2>0, <3>1
    <3>3. g[i] = g[i - 1] + t[i] /\ u[N + i] = t[i] /\ t[i] \in Int
      BY <1>2, <1>5, <3>1
    <3>4. g[i - 1] \in Int /\ f[N] \in Int
      BY <1>6, <1>1, <3>1
    <3> HIDE DEF i
    <3> QED BY <3>1, <3>2, <3>3, <3>4
  <2> QED BY <1>1, <2>1, <2>2, <2>3
<1>10. SumsTo(h, u)
  BY <1>1, <1>8, <1>9 DEF SumsTo
<1>11. Total(u) = h[N + M]
  BY <1>1, <1>10, TotalIs
<1> QED BY <1>3, <1>4, <1>7, <1>11 DEF u

\* The packets of a queue may lose rows, and what waits is a number.
LEMMA GarbageWaits ==
    ASSUME NEW g \in Seq(Garbage)
    PROVE  g \in Seq(Loose) /\ Waiting(g) \in Nat
<1>1. g \in Seq(Loose)
  BY GarbageIs
<1> QED BY <1>1, AmountsType

\* The packets whose time has come are the first ones.
LEMMA ReadyIsPrefix ==
    ASSUME NEW g \in Seq(Garbage), NEW now \in Nat
    PROVE  \E r \in 0 .. Len(g) : DOMAIN Ready(g, now) = 1 .. r
<1> DEFINE early == {i \in DOMAIN g : g[i].at > now}
<1>1. Len(g) \in Nat /\ DOMAIN g = 1 .. Len(g)
  OBVIOUS
<1>2. Ready(g, now) = IF early = {} THEN g ELSE SubSeq(g, 1, Lowest(early) - 1)
  BY DEF Ready, Lowest
<1>3. CASE early = {}
  BY <1>1, <1>2, <1>3
<1>4. CASE early # {}
  <2>1. early \subseteq Nat
    BY <1>1
  <2>2. Lowest(early) \in early
    BY <1>4, <2>1, LowestIsIn
  <2> DEFINE m == Lowest(early)
  <2>3. m \in 1 .. Len(g) /\ Ready(g, now) = SubSeq(g, 1, m - 1)
    BY <1>1, <1>2, <1>4, <2>2
  <2> HIDE DEF m, early
  <2>4. DOMAIN Ready(g, now) = 1 .. (m - 1) /\ m - 1 \in 0 .. Len(g)
    BY <1>1, <2>3
  <2> QED BY <2>4
<1> QED BY <1>3, <1>4

\* No more rows rise than wait, and than the cap lets through.
LEMMA RisingHolesType ==
    ASSUME NEW g \in Seq(Garbage), NEW now \in Nat
    PROVE  LET holes == RisingHoles(g, now)
           IN  holes \in Seq(Columns) /\ Len(holes) <= Waiting(g) /\ Len(holes) <= GarbageCap
<1>1. PICK r \in 0 .. Len(g) : DOMAIN Ready(g, now) = 1 .. r
  BY ReadyIsPrefix
<1> DEFINE parts == [i \in 1 .. r |-> [n \in 1 .. g[i].amount |-> g[i].hole]]
           rows == Flat(parts)
           a == Amounts(g)
<1>2. RisingHoles(g, now) = SubSeq(rows, 1, Least(GarbageCap, Len(rows)))
  BY <1>1 DEF RisingHoles
<1>3. r \in Nat /\ r <= Len(g) /\ Len(g) \in Nat /\ \A i \in 1 .. r : i \in 1 .. Len(g)
  OBVIOUS
<1>4. \A i \in 1 .. r : g[i] \in Garbage
  BY <1>3
<1>5. \A i \in 1 .. r : g[i].amount \in Nat /\ g[i].hole \in Columns
  BY <1>4 DEF Garbage
<1>6. parts \in Seq(Seq(Columns)) /\ Len(parts) = r /\ \A i \in 1 .. r : Len(parts[i]) = g[i].amount
  <2>1. \A i \in 1 .. r : [n \in 1 .. g[i].amount |-> g[i].hole] \in Seq(Columns)
    BY <1>5
  <2>2. \A i \in 1 .. r : parts[i] = [n \in 1 .. g[i].amount |-> g[i].hole]
    OBVIOUS
  <2>3. \A i \in 1 .. r : Len(parts[i]) = g[i].amount
    BY <1>5, <2>2
  <2>4. parts \in Seq(Seq(Columns)) /\ Len(parts) = r
    BY <1>3, <2>1
  <2> QED BY <2>3, <2>4
<1> HIDE DEF parts
<1>7. PICK flat : /\ flat[0] = <<>> /\ Flat(parts) = flat[Len(parts)]
                  /\ \A n \in Nat : n <= Len(parts) => flat[n] \in Seq(Columns)
                  /\ \A n \in Nat : n + 1 <= Len(parts) =>
                         Len(flat[n + 1]) = Len(flat[n]) + Len(parts[n + 1])
  <2>1. parts \in Seq(Seq(Columns))
    BY <1>6
  <2>2. PICK flat : /\ flat[0] = <<>> /\ Flat(parts) = flat[Len(parts)]
                    /\ \A n \in Nat : n <= Len(parts) => flat[n] \in Seq(Columns)
                    /\ \A n \in Nat : n + 1 <= Len(parts) =>
                           /\ Len(flat[n + 1]) = Len(flat[n]) + Len(parts[n + 1])
                           /\ SubSeq(Flat(parts), Len(flat[n]) + 1,
                                     Len(flat[n]) + Len(parts[n + 1])) = parts[n + 1]
    BY <2>1, FlatParts
  <2> QED BY <2>2
<1>8. g \in Seq(Loose)
  BY GarbageIs
<1>9. a \in Seq(Nat) /\ Len(a) = Len(g) /\ \A i \in 1 .. Len(g) : a[i] = g[i].amount
  BY <1>8, AmountsType
<1> HIDE DEF a
<1>10. a \in Seq(Int)
  BY <1>9
<1>11. PICK f \in [0 .. Len(g) -> Int] : SumsTo(f, a) /\ Total(a) = f[Len(g)]
  BY <1>9, <1>10, TotalSums
<1> DEFINE P == {n \in Nat : n <= r => Len(flat[n]) = f[n]}
<1>12. 0 \in P
  BY <1>7, <1>11 DEF SumsTo
<1>13. ASSUME NEW n \in Nat, n \in P PROVE n + 1 \in P
  <2> SUFFICES ASSUME n + 1 <= r PROVE Len(flat[n + 1]) = f[n + 1]
    OBVIOUS
  <2>1. n + 1 \in 1 .. r /\ n + 1 \in 1 .. Len(g) /\ (n + 1) - 1 = n
    BY <1>3
  <2>2. Len(flat[n]) = f[n]
    BY <1>13, <1>3
  <2>3. Len(flat[n + 1]) = Len(flat[n]) + Len(parts[n + 1])
    BY <1>6, <1>7
  <2>4. f[n + 1] = f[n] + a[n + 1]
    BY <1>9, <1>11, <2>1 DEF SumsTo
  <2> QED BY <1>6, <1>9, <2>1, <2>2, <2>3, <2>4
<1> HIDE DEF P
<1>14. \A n \in Nat : n \in P
  BY <1>12, <1>13, SetInduction
<1>15. r \in P
  BY <1>14
<1>16. Len(rows) = f[r] /\ rows \in Seq(Columns)
  BY <1>3, <1>6, <1>7, <1>15 DEF P
<1>17. f[r] <= Total(a)
  BY <1>9, <1>11, PrefixBelow
<1>18. Total(a) = Waiting(g)
  BY DEF Waiting, a
<1> HIDE DEF rows
<1> DEFINE m == Least(GarbageCap, Len(rows))
<1>19. Len(rows) \in Nat /\ GarbageCap \in Nat
  BY <1>16, AttackAssumption
<1>20. m \in Nat /\ m <= Len(rows) /\ m <= GarbageCap
  BY <1>19 DEF Least
<1> HIDE DEF m
<1>21. SubSeq(rows, 1, m) \in Seq(Columns) /\ Len(SubSeq(rows, 1, m)) = m
  BY <1>16, <1>20
<1>22. Waiting(g) \in Nat
  BY GarbageWaits
<1> QED BY <1>2, <1>16, <1>17, <1>18, <1>19, <1>20, <1>21, <1>22 DEF m

\* Netting takes the same from both.
LEMMA NettedTotal ==
    ASSUME NEW a \in Seq(Nat \ {0}), NEW b \in Seq(Nat \ {0})
    PROVE  /\ Netted(a, b) \in Seq(Nat \ {0})
           /\ Total(Netted(a, b)) = Total(a) - Least(Total(a), Total(b))
           /\ Len(Netted(a, b)) <= Len(a)
           /\ Total(a) \in Nat /\ Total(b) \in Nat
<1> DEFINE n == Least(Total(a), Total(b))
           r == Spared(a, n)
<1>1. a \in Seq(Nat) /\ b \in Seq(Nat)
  OBVIOUS
<1>2. Total(a) \in Nat /\ Total(b) \in Nat
  BY <1>1, TotalNat
<1>3. n \in Nat /\ n <= Total(a)
  BY <1>2 DEF Least
<1>4. Netted(a, b) = Keep(r, Nat \ {0})
  BY DEF Netted
<1> HIDE DEF n
<1>5. r \in Seq(Nat) /\ Len(r) = Len(a) /\ Total(r) = Most(0, Total(a) - n)
  BY <1>1, <1>3, SparedLeaves
<1> HIDE DEF r
<1>6. Total(Keep(r, Nat \ {0})) = Total(r) /\ Keep(r, Nat \ {0}) \in Seq(Nat \ {0})
  BY <1>5, KeepTotal
<1>7. Len(Keep(r, Nat \ {0})) <= Len(r)
  BY <1>5, KeepShortens
<1>8. Most(0, Total(a) - n) = Total(a) - n
  BY <1>2, <1>3 DEF Most
<1> QED BY <1>2, <1>4, <1>5, <1>6, <1>7, <1>8 DEF n

\* A table of n entries is a sequence of n.
LEMMA TableIsSequence ==
    ASSUME NEW U, NEW n \in Nat, NEW s \in [1 .. n -> U]
    PROVE  s \in Seq(U) /\ Len(s) = n
OBVIOUS

(********************************* attacks *********************************)

\* What a clear sends are attacks of at least one row.
LEMMA AttacksType ==
    ASSUME NEW clear, NEW streak, NEW up
    PROVE  Attacks(clear, streak, up) \in Seq(Nat \ {0})
<1> DEFINE difficult == IsDifficult(clear)
           base == BaseAttack(clear.lines, clear.spin)
                     + (IF difficult /\ streak > 0 THEN 1 ELSE 0)
           rounded == ScaledFloor(base, clear.combo)
                        + (IF up /\ ScaledFraction(base, clear.combo) THEN 1 ELSE 0)
           bonus == (IF clear.allClear THEN 5 ELSE 0)
                      + (IF clear.clearedGarbage /\ (clear.lines = 4 \/ clear.spin # "none")
                         THEN 1 ELSE 0)
           x == rounded + bonus
           surge == IF difficult THEN <<>> ELSE SplitSurge(SurgeCharge(streak))
           T == {x} \cup {surge[i] : i \in DOMAIN surge}
           s == <<x>> \o surge
           S == Nat \ {0}
<1>1. Attacks(clear, streak, up) = Keep(s, S)
  BY DEF Attacks
<1>2. surge \in Seq({surge[i] : i \in DOMAIN surge})
  <2>1. surge = <<>> \/ \E g : surge = [i \in 1 .. 3 |-> g[i]]
    <3>1. CASE difficult \/ SurgeCharge(streak) = 0
      BY <3>1 DEF SplitSurge
    <3>2. CASE ~(difficult \/ SurgeCharge(streak) = 0)
      <4> DEFINE c == SurgeCharge(streak)
                 g == [i \in 1 .. 3 |-> (c \div 3) + (IF i - 1 < c % 3 THEN 1 ELSE 0)]
      <4>1. surge = g
        BY <3>2 DEF SplitSurge
      <4>2. g = [i \in 1 .. 3 |-> g[i]]
        OBVIOUS
      <4> HIDE DEF g, surge
      <4> QED BY <4>1, <4>2
    <3> QED BY <3>1, <3>2
  <2> HIDE DEF surge
  <2>2. CASE surge = <<>>
    BY <2>2
  <2>3. CASE \E g : surge = [i \in 1 .. 3 |-> g[i]]
    <3>1. PICK g : surge = [i \in 1 .. 3 |-> g[i]]
      BY <2>3
    <3>2. DOMAIN surge = 1 .. 3 /\ surge = [i \in 1 .. 3 |-> surge[i]]
      BY <3>1
    <3>3. \A i \in 1 .. 3 : surge[i] \in {surge[j] : j \in DOMAIN surge}
      BY <3>2
    <3> DEFINE U == {surge[j] : j \in DOMAIN surge}
    <3> HIDE DEF U
    <3>4. surge \in [1 .. 3 -> U]
      BY <3>2, <3>3 DEF U
    <3>6. surge \in [1 .. 3 -> U] /\ 3 \in Nat
      BY <3>4
    <3> HIDE DEF surge
    <3>5. surge \in Seq(U)
      BY <3>6, TableIsSequence
    <3> QED BY <3>5 DEF U
  <2> QED BY <2>1, <2>2, <2>3
<1> DEFINE U == {surge[i] : i \in DOMAIN surge}
<1> HIDE DEF x, surge, U
<1>3. <<x>> \in Seq({x} \cup U) /\ surge \in Seq({x} \cup U)
  BY <1>2 DEF U
<1>4. s \in Seq({x} \cup U)
  BY <1>3
<1> HIDE DEF s
<1>5. Keep(s, S) \in Seq({x} \cup U)
  BY <1>4, KeepType
<1>6. Range(Keep(s, S)) \subseteq S
  BY <1>4, KeepRange
<1> HIDE DEF S
<1>7. \A i \in 1 .. Len(Keep(s, S)) : Keep(s, S)[i] \in S
  BY <1>5, <1>6 DEF Range
<1> DEFINE k == Keep(s, S)
<1> HIDE DEF k
<1>8. k \in Seq({x} \cup U) /\ \A i \in 1 .. Len(k) : k[i] \in S
  BY <1>5, <1>7 DEF k
<1>9. k \in Seq(S)
  BY <1>8
<1> QED BY <1>1, <1>9 DEF k, S

\* A lock is no spin, a mini or a full one.
LEMMA SpinType ==
    ASSUME NEW board, NEW piece, NEW last
    PROVE  SpinOf(board, piece, last) \in {"none", "mini", "full"}
<1> DEFINE taken(offsets) ==
             Cardinality({d \in offsets :
                            Occupied(board, piece.x + 1 + d[1], piece.y + 1 + d[2])})
           cornered == piece.kind = "T" /\ taken({-1, 1} \X {-1, 1}) >= 3
           facing == \/ taken(FrontOffsets(piece.rotation)) = 2
                     \/ last.turn # "180" /\ last.kick = 4
<1>1. SpinOf(board, piece, last) =
        CASE last = NoTurn -> "none"
          [] last # NoTurn /\ cornered /\ facing -> "full"
          [] last # NoTurn /\ cornered /\ ~facing -> "mini"
          [] last # NoTurn /\ ~cornered -> IF Immobile(board, piece) THEN "mini" ELSE "none"
  BY DEF SpinOf
<1> HIDE DEF cornered, facing
<1> QED BY <1>1, Zenon

\* The opener counts an attack once or twice.
LEMMA MultiplierType ==
    ASSUME NEW placed, NEW waiting, NEW sent
    PROVE  OpenerMultiplier(placed, waiting, sent) \in {1, 2}
BY DEF OpenerMultiplier

\* A streak is a number.
LEMMA StreakType ==
    ASSUME NEW clear, NEW streak \in Nat
    PROVE  NextStreak(clear, streak) \in Nat
BY DEF NextStreak

(***************************** rows and boards *****************************)

\* Any row, a full one included.
Row == [cells : SUBSET Columns, garbage : BOOLEAN]
Sizes(s) == [i \in DOMAIN s |-> Cardinality(s[i].cells)]

\* There are Width columns, at least one, and at least one row.
LEMMA ColumnsType ==
    /\ IsFiniteSet(Columns) /\ Cardinality(Columns) = Width /\ Columns # {} /\ Columns \subseteq Nat
    /\ Width \in Nat /\ Height \in Nat /\ Width > 0 /\ Height > 0
<1>1. Width \in Nat \ {0} /\ Height \in Nat \ {0}
  BY SizeAssumption
<1>2. IsFiniteSet(0 .. (Width - 1)) /\ Cardinality(0 .. (Width - 1)) =
        IF 0 > Width - 1 THEN 0 ELSE (Width - 1) - 0 + 1
  BY <1>1, FS_Interval
<1>3. 0 \in Columns
  BY <1>1 DEF Columns
<1>4. ~(0 > Width - 1) /\ (Width - 1) - 0 + 1 = Width /\ Width > 0 /\ Height > 0
  BY <1>1
<1>5. IsFiniteSet(Columns) /\ Cardinality(Columns) = Width
  BY <1>2, <1>4 DEF Columns
<1>6. Columns \subseteq Nat
  BY DEF Columns
<1> QED BY <1>1, <1>3, <1>4, <1>5, <1>6

\* The cells of a row are finitely many, and a row is open unless it has them all.
LEMMA RowType ==
    ASSUME NEW row \in Row
    PROVE  /\ IsFiniteSet(row.cells) /\ Cardinality(row.cells) \in Nat
           /\ row \in OpenRows <=> row.cells # Columns
<1>1. row.cells \in SUBSET Columns /\ row.garbage \in BOOLEAN
  BY DEF Row
<1>2. IsFiniteSet(row.cells)
  BY <1>1, ColumnsType, FS_Subset
<1>3. Cardinality(row.cells) \in Nat
  BY <1>2, FS_CardinalityType
<1>4. row \in OpenRows <=> row.cells # Columns
  BY <1>1 DEF OpenRows, Row
<1> QED BY <1>2, <1>3, <1>4

\* An open row is a row, and the empty one is open.
LEMMA OpenIsRow == OpenRows \subseteq Row /\ EmptyRow \in OpenRows
<1>1. {} # Columns
  BY ColumnsType
<1> QED BY <1>1 DEF OpenRows, Row, EmptyRow

\* The sizes of rows.
LEMMA SizesType ==
    ASSUME NEW s \in Seq(Row)
    PROVE  /\ Sizes(s) \in Seq(Nat) /\ Sizes(s) \in Seq(Int) /\ Len(Sizes(s)) = Len(s)
           /\ \A i \in 1 .. Len(s) : Sizes(s)[i] = Cardinality(s[i].cells)
<1>1. Len(s) \in Nat /\ DOMAIN s = 1 .. Len(s) /\ \A i \in 1 .. Len(s) : s[i] \in Row
  OBVIOUS
<1>2. \A i \in 1 .. Len(s) : Cardinality(s[i].cells) \in Nat
  BY <1>1, RowType
<1>3. Sizes(s) \in [1 .. Len(s) -> Nat]
  BY <1>1, <1>2 DEF Sizes
<1>4. Sizes(s) \in Seq(Nat) /\ Len(Sizes(s)) = Len(s)
  BY <1>1, <1>3, TableIsSequence
<1>5. \A i \in 1 .. Len(s) : Sizes(s)[i] = Cardinality(s[i].cells)
  BY <1>1 DEF Sizes
<1>6. Sizes(s) \in Seq(Int)
  BY <1>4
<1> QED BY <1>4, <1>5, <1>6

\* A board is a sequence of rows, and its cells are theirs.
LEMMA BoardIsSequence ==
    ASSUME NEW b \in [1 .. Height -> Row]
    PROVE  b \in Seq(Row) /\ Len(b) = Height /\ CellCount(b) = Total(Sizes(b))
<1>1. b \in Seq(Row) /\ Len(b) = Height
  BY ColumnsType, TableIsSequence
<1>2. DOMAIN b = 1 .. Height
  OBVIOUS
<1> QED BY <1>1, <1>2 DEF CellCount, Sizes

\* A board the game is played on has so many cells.
LEMMA BoardType ==
    ASSUME NEW b \in Board
    PROVE  b \in [1 .. Height -> Row] /\ CellCount(b) \in Nat
<1>1. b \in [1 .. Height -> Row]
  BY OpenIsRow DEF Board
<1>2. CellCount(b) = Total(Sizes(b)) /\ Sizes(b) \in Seq(Nat)
  BY <1>1, BoardIsSequence, SizesType
<1> QED BY <1>1, <1>2, TotalNat

\* One sequence after another.
LEMMA ConcatType ==
    ASSUME NEW T, NEW s \in Seq(T), NEW t \in Seq(T)
    PROVE  s \o t \in Seq(T) /\ Len(s \o t) = Len(s) + Len(t)
OBVIOUS

\* The cells of rows put after rows.
LEMMA SizesConcat ==
    ASSUME NEW s \in Seq(Row), NEW t \in Seq(Row)
    PROVE  Total(Sizes(s \o t)) = Total(Sizes(s)) + Total(Sizes(t))
<1> DEFINE u == s \o t
<1>1. /\ u \in Seq(Row) /\ Len(u) = Len(s) + Len(t) /\ Len(s) \in Nat /\ Len(t) \in Nat
      /\ \A i \in 1 .. Len(s) : u[i] = s[i]
      /\ \A i \in 1 .. Len(t) : u[Len(s) + i] = t[i]
  OBVIOUS
<1> HIDE DEF u
<1>2. /\ Sizes(u) \in Seq(Nat) /\ Len(Sizes(u)) = Len(s) + Len(t)
      /\ \A i \in 1 .. (Len(s) + Len(t)) : Sizes(u)[i] = Cardinality(u[i].cells)
  BY <1>1, SizesType
<1>3. /\ Sizes(s) \in Seq(Int) /\ Len(Sizes(s)) = Len(s)
      /\ \A i \in 1 .. Len(s) : Sizes(s)[i] = Cardinality(s[i].cells)
  BY SizesType
<1>4. /\ Sizes(t) \in Seq(Int) /\ Len(Sizes(t)) = Len(t)
      /\ \A i \in 1 .. Len(t) : Sizes(t)[i] = Cardinality(t[i].cells)
  BY SizesType
<1> DEFINE a == Sizes(s)
           b == Sizes(t)
           c == Sizes(u)
<1> HIDE DEF a, b, c
<1>5. ASSUME NEW i \in 1 .. (Len(s) + Len(t)) PROVE c[i] = (a \o b)[i]
  <2>1. CASE i \in 1 .. Len(s)
    BY <1>1, <1>2, <1>3, <1>4, <2>1 DEF a, b, c
  <2>2. CASE i \notin 1 .. Len(s)
    <3> DEFINE j == i - Len(s)
    <3>1. j \in 1 .. Len(t) /\ Len(s) + j = i
      BY <1>1, <2>2
    <3>2. c[i] = Cardinality(u[i].cells)
      BY <1>2 DEF c
    <3>3. u[Len(s) + j] = t[j] /\ b[j] = Cardinality(t[j].cells)
      BY <1>1, <1>4, <3>1 DEF b
    <3>4. (a \o b)[i] = b[j]
      <4>1. a \in Seq(Int) /\ b \in Seq(Int) /\ Len(a) = Len(s) /\ Len(b) = Len(t)
        BY <1>3, <1>4 DEF a, b
      <4> QED BY <3>1, <4>1
    <3> QED BY <3>1, <3>2, <3>3, <3>4
  <2> QED BY <2>1, <2>2
<1>6. c = a \o b
  <2>1. /\ a \in Seq(Int) /\ b \in Seq(Int) /\ c \in Seq(Int)
        /\ Len(a) = Len(s) /\ Len(b) = Len(t) /\ Len(c) = Len(s) + Len(t)
    BY <1>2, <1>3, <1>4 DEF a, b, c
  <2>2. a \o b \in Seq(Int) /\ Len(a \o b) = Len(s) + Len(t)
    <3>1. a \o b \in Seq(Int) /\ Len(a \o b) = Len(a) + Len(b)
      BY <2>1, ConcatType
    <3> QED BY <2>1, <3>1
  <2> DEFINE d == a \o b
  <2> HIDE DEF d
  <2>3. d \in Seq(Int) /\ Len(d) = Len(c) /\ \A i \in 1 .. Len(c) : c[i] = d[i]
    BY <1>5, <2>1, <2>2 DEF d
  <2>4. c = d
    BY <2>1, <2>3
  <2> QED BY <2>4 DEF d
<1>7. Total(a \o b) = Total(a) + Total(b)
  BY <1>3, <1>4, TotalConcat DEF a, b
<1> QED BY <1>6, <1>7 DEF a, b, c, u

\* Empty rows have no cells.
LEMMA RowsType ==
    ASSUME NEW n \in Nat
    PROVE  /\ Rows(n) \in Seq(OpenRows) /\ Rows(n) \in Seq(Row) /\ Len(Rows(n)) = n
           /\ Total(Sizes(Rows(n))) = 0
<1>1. Rows(n) \in [1 .. n -> OpenRows] /\ Rows(n) \in [1 .. n -> Row]
  BY OpenIsRow DEF Rows
<1>2. Rows(n) \in Seq(OpenRows) /\ Rows(n) \in Seq(Row) /\ Len(Rows(n)) = n
  BY <1>1, TableIsSequence
<1>3. \A i \in 1 .. n : Rows(n)[i].cells = {}
  BY DEF Rows, EmptyRow
<1>4. Cardinality({}) = 0
  BY FS_EmptySet
<1>5. /\ Sizes(Rows(n)) \in Seq(Int) /\ Len(Sizes(Rows(n))) = n
      /\ \A i \in 1 .. n : Sizes(Rows(n))[i] = 0
  BY <1>2, <1>3, <1>4, SizesType
<1> DEFINE f == [i \in 0 .. n |-> 0]
           z == Sizes(Rows(n))
<1> HIDE DEF z
<1>6. f[0] = 0 /\ \A i \in 1 .. n : f[i] = f[i - 1] + 0
  OBVIOUS
<1>7. f[n] = 0
  OBVIOUS
<1> HIDE DEF f
<1>8. SumsTo(f, z)
  BY <1>5, <1>6 DEF SumsTo, z
<1>9. Total(z) = f[n]
  BY <1>5, <1>8, TotalIs DEF z
<1> QED BY <1>2, <1>7, <1>9 DEF z

\* Lines that go take a row's cells each.
FullAmong(s, n) == {i \in 1 .. n : s[i].cells = Columns}

\* Keeping the open rows loses Width cells for each full one.
LEMMA KeptCells ==
    ASSUME NEW s \in Seq(Row)
    PROVE  /\ Keep(s, OpenRows) \in Seq(OpenRows) /\ Len(Keep(s, OpenRows)) <= Len(s)
           /\ Cardinality(FullAmong(s, Len(s))) \in Nat
           /\ Total(Sizes(Keep(s, OpenRows))) =
                Total(Sizes(s)) - Width * Cardinality(FullAmong(s, Len(s)))
<1> DEFINE N == Len(s)
           z == Sizes(s)
           full(n) == FullAmong(s, n)
<1>1. N \in Nat /\ \A n \in 1 .. N : s[n] \in Row
  OBVIOUS
<1>2. z \in Seq(Int) /\ Len(z) = N /\ \A i \in 1 .. N : z[i] = Cardinality(s[i].cells)
  BY SizesType
<1> HIDE DEF z
<1>3. PICK f \in [0 .. N -> Int] : SumsTo(f, z) /\ Total(z) = f[N]
  BY <1>2, TotalSums
<1>4. f[0] = 0 /\ \A n \in 1 .. N : f[n] = f[n - 1] + z[n]
  BY <1>2, <1>3 DEF SumsTo
<1>5. PICK k : KeptBy(k, s, OpenRows)
  BY KeepRecursion
<1>6. /\ Keep(s, OpenRows) = k[N] /\ k[0] = <<>>
      /\ \A n \in Nat : n + 1 <= N => k[n + 1] = IF s[n + 1] \in OpenRows
                                                 THEN Append(k[n], s[n + 1]) ELSE k[n]
  BY <1>5 DEF KeptBy
<1>7. Width \in Nat /\ Cardinality(Columns) = Width
  BY ColumnsType
<1> DEFINE P == {n \in Nat : n <= N =>
                    /\ k[n] \in Seq(OpenRows) /\ Len(k[n]) <= n
                    /\ IsFiniteSet(full(n)) /\ Cardinality(full(n)) \in Nat
                    /\ Total(Sizes(k[n])) = f[n] - Width * Cardinality(full(n))}
<1>8. 0 \in P
  <2>1. k[0] = <<>> /\ f[0] = 0 /\ full(0) = {}
    BY <1>4, <1>6 DEF FullAmong
  <2>2. Sizes(<<>>) = <<>> /\ <<>> \in Seq(OpenRows) /\ Len(<<>>) = 0
    BY DEF Sizes
  <2>3. Total(Sizes(k[0])) = 0 /\ Cardinality({}) = 0 /\ IsFiniteSet({})
    BY <2>1, <2>2, TotalEmpty, FS_EmptySet
  <2>4. 0 = 0 - Width * 0
    BY <1>7
  <2> QED BY <2>1, <2>2, <2>3, <2>4
<1>9. ASSUME NEW n \in Nat, n \in P PROVE n + 1 \in P
  <2> SUFFICES ASSUME n + 1 <= N
               PROVE  /\ k[n + 1] \in Seq(OpenRows) /\ Len(k[n + 1]) <= n + 1
                      /\ IsFiniteSet(full(n + 1)) /\ Cardinality(full(n + 1)) \in Nat
                      /\ Total(Sizes(k[n + 1])) = f[n + 1] - Width * Cardinality(full(n + 1))
    OBVIOUS
  <2> DEFINE x == s[n + 1]
             t == k[n]
             c == Cardinality(full(n))
  <2>1. n + 1 \in 1 .. N /\ (n + 1) - 1 = n /\ n \in 0 .. N /\ n <= N
    BY <1>1
  <2>2. /\ t \in Seq(OpenRows) /\ Len(t) <= n /\ IsFiniteSet(full(n)) /\ c \in Nat
        /\ Total(Sizes(t)) = f[n] - Width * c
    BY <1>9, <2>1
  <2>3. f[n + 1] = f[n] + Cardinality(x.cells) /\ f[n] \in Int
    BY <1>2, <1>3, <1>4, <2>1
  <2>4. k[n + 1] = IF x \in OpenRows THEN Append(t, x) ELSE t
    BY <1>6
  <2>5. x \in Row /\ Cardinality(x.cells) \in Nat /\ (x \in OpenRows <=> x.cells # Columns)
    BY <1>1, <2>1, RowType
  <2>6. full(n + 1) = IF x.cells = Columns THEN full(n) \cup {n + 1} ELSE full(n)
    <3>1. \A i \in 1 .. (n + 1) : i \in 1 .. n \/ i = n + 1
      OBVIOUS
    <3>2. \A i \in 1 .. n : i \in 1 .. (n + 1)
      OBVIOUS
    <3>3. n + 1 \in 1 .. (n + 1)
      OBVIOUS
    <3> QED BY <3>1, <3>2, <3>3 DEF FullAmong
  <2>7. n + 1 \notin full(n)
    BY DEF FullAmong
  <2> HIDE DEF x, t
  <2>8. CASE x \in OpenRows
    <3>1. full(n + 1) = full(n) /\ k[n + 1] = Append(t, x)
      BY <2>4, <2>5, <2>6, <2>8
    <3>2. Append(t, x) \in Seq(OpenRows) /\ Len(Append(t, x)) = Len(t) + 1 /\ Len(t) \in Nat
      BY <2>2, <2>8
    <3>3. Total(Sizes(Append(t, x))) = Total(Sizes(t)) + Cardinality(x.cells)
      <4>1. t \in Seq(Row) /\ <<x>> \in Seq(Row) /\ Append(t, x) = t \o <<x>>
        BY <2>2, <2>5, OpenIsRow
      <4>2. Total(Sizes(t \o <<x>>)) = Total(Sizes(t)) + Total(Sizes(<<x>>))
        BY <4>1, SizesConcat
      <4>3. Sizes(<<x>>) = Append(<<>>, Cardinality(x.cells))
        BY DEF Sizes
      <4>4. Total(Append(<<>>, Cardinality(x.cells))) = Total(<<>>) + Cardinality(x.cells)
        <5>1. <<>> \in Seq(Int) /\ Cardinality(x.cells) \in Int
          BY <2>5
        <5> QED BY <5>1, TotalAppend
      <4>5. Total(Sizes(<<x>>)) = Cardinality(x.cells)
        BY <2>5, <4>3, <4>4, TotalEmpty
      <4> QED BY <4>1, <4>2, <4>5
    <3>4. Total(Sizes(k[n + 1])) = f[n + 1] - Width * c
      <4> DEFINE w == Width * c
      <4>1. w \in Int
        BY <1>7, <2>2
      <4> HIDE DEF w
      <4> QED BY <2>2, <2>3, <2>5, <3>1, <3>3, <4>1 DEF w
    <3> QED BY <2>2, <3>1, <3>2, <3>4
  <2>9. CASE x \notin OpenRows
    <3>1. full(n + 1) = full(n) \cup {n + 1} /\ k[n + 1] = t /\ Cardinality(x.cells) = Width
      BY <1>7, <2>4, <2>5, <2>6, <2>9
    <3>2. IsFiniteSet(full(n + 1)) /\ Cardinality(full(n + 1)) = c + 1
      BY <2>2, <2>7, <3>1, FS_AddElement
    <3>3. Width * (c + 1) = Width * c + Width
      BY <1>7, <2>2
    <3>4. Total(Sizes(k[n + 1])) = f[n + 1] - Width * (c + 1)
      <4> DEFINE w == Width * c
      <4>1. w \in Int
        BY <1>7, <2>2
      <4> HIDE DEF w
      <4> QED BY <1>7, <2>2, <2>3, <3>1, <3>3, <4>1 DEF w
    <3>5. Len(t) <= n + 1
      BY <2>2
    <3> QED BY <2>2, <3>1, <3>2, <3>4, <3>5
  <2> QED BY <2>8, <2>9
<1> HIDE DEF P
<1>10. \A n \in Nat : n \in P
  BY <1>8, <1>9, SetInduction
<1>11. N \in P
  BY <1>1, <1>10
<1> QED BY <1>1, <1>3, <1>6, <1>11 DEF P, z

\* Clearing leaves no full row, and takes a row's cells for every line.
LEMMA ClearedCells ==
    ASSUME NEW b \in [1 .. Height -> Row]
    PROVE  /\ Cleared(b) \in Board
           /\ Cardinality(FullAmong(b, Height)) \in Nat
           /\ CellCount(Cleared(b)) = CellCount(b) - Width * Cardinality(FullAmong(b, Height))
<1> DEFINE kept == Keep(b, OpenRows)
           n == Height - Len(kept)
           r == kept \o Rows(n)
<1>1. b \in Seq(Row) /\ Len(b) = Height /\ CellCount(b) = Total(Sizes(b))
  BY BoardIsSequence
<1>2. /\ kept \in Seq(OpenRows) /\ Len(kept) <= Height
      /\ Cardinality(FullAmong(b, Height)) \in Nat
      /\ Total(Sizes(kept)) = Total(Sizes(b)) - Width * Cardinality(FullAmong(b, Height))
  BY <1>1, KeptCells
<1>3. Cleared(b) = r
  BY DEF Cleared
<1> HIDE DEF kept
<1>4. n \in Nat /\ Len(kept) \in Nat /\ Len(kept) + n = Height
  BY <1>2, ColumnsType
<1> HIDE DEF n
<1>5. /\ Rows(n) \in Seq(OpenRows) /\ Rows(n) \in Seq(Row) /\ Len(Rows(n)) = n
      /\ Total(Sizes(Rows(n))) = 0
  BY <1>4, RowsType
<1>6. kept \in Seq(Row)
  BY <1>2, OpenIsRow
<1>7. Total(Sizes(r)) = Total(Sizes(kept)) + 0
  BY <1>5, <1>6, SizesConcat
<1>8. r \in Seq(OpenRows) /\ Len(r) = Height
  BY <1>2, <1>4, <1>5
<1> HIDE DEF r
<1>9. r \in [1 .. Height -> OpenRows]
  BY <1>8
<1>10. r \in [1 .. Height -> Row]
  BY <1>9, OpenIsRow
<1>11. CellCount(r) = Total(Sizes(r))
  BY <1>10, BoardIsSequence
<1>12. Total(Sizes(kept)) \in Int
  <2>1. Sizes(kept) \in Seq(Int)
    BY <1>6, SizesType
  <2> QED BY <2>1, TotalType
<1> QED BY <1>1, <1>2, <1>3, <1>7, <1>9, <1>11, <1>12 DEF Board

(********************************* pieces **********************************)

\* A set has as many elements as another that maps to it one by one.
LEMMA OneByOne ==
    ASSUME NEW S, IsFiniteSet(S), NEW T, NEW f \in [S -> T],
           \A a, b \in S : f[a] = f[b] => a = b, \A t \in T : \E s \in S : f[s] = t
    PROVE  IsFiniteSet(T) /\ Cardinality(T) = Cardinality(S)
<1>1. f \in Bijection(S, T)
  BY DEF Bijection, Injection, Surjection, IsInjective
<1>2. ExistsBijection(S, T)
  BY <1>1 DEF ExistsBijection
<1> QED BY <1>2, FS_Bijection

\* What a piece covers: four cells.
Shape == {C \in SUBSET (Int \X Int) : IsFiniteSet(C) /\ Cardinality(C) = 4}

\* A set with one element more.
LEMMA OneMore ==
    ASSUME NEW S, IsFiniteSet(S), NEW n \in Nat, Cardinality(S) = n, NEW x, x \notin S
    PROVE  IsFiniteSet(S \cup {x}) /\ Cardinality(S \cup {x}) = n + 1
<1>1. /\ IsFiniteSet(S \cup {x})
      /\ Cardinality(S \cup {x}) = IF x \in S THEN Cardinality(S) ELSE Cardinality(S) + 1
  BY FS_AddElement
<1> QED BY <1>1

\* Four different cells are a shape.
LEMMA FourCells ==
    ASSUME NEW a \in Int \X Int, NEW b \in Int \X Int, NEW c \in Int \X Int, NEW d \in Int \X Int,
           a # b, a # c, a # d, b # c, b # d, c # d
    PROVE  {a, b, c, d} \in Shape
<1> DEFINE One   == {a}
           Two   == One \cup {b}
           Three == Two \cup {c}
           Four  == Three \cup {d}
<1>1. IsFiniteSet(One) /\ Cardinality(One) = 1
  BY FS_Singleton
<1>2. b \notin One /\ c \notin Two /\ d \notin Three
  OBVIOUS
<1>3. Four = {a, b, c, d}
  OBVIOUS
<1> HIDE DEF One
<1>4. IsFiniteSet(Two) /\ Cardinality(Two) = 1 + 1
  BY <1>1, <1>2, OneMore
<1>5. Cardinality(Two) = 2
  BY <1>4
<1> HIDE DEF Two
<1>6. IsFiniteSet(Three) /\ Cardinality(Three) = 2 + 1
  BY <1>2, <1>4, <1>5, OneMore
<1>7. Cardinality(Three) = 3
  BY <1>6
<1> HIDE DEF Three
<1>8. IsFiniteSet(Four) /\ Cardinality(Four) = 3 + 1
  BY <1>2, <1>6, <1>7, OneMore
<1>9. Cardinality(Four) = 4
  BY <1>8
<1> HIDE DEF Four
<1>10. {a, b, c, d} \in SUBSET (Int \X Int)
  OBVIOUS
<1> QED BY <1>3, <1>8, <1>9, <1>10 DEF Shape

\* A piece that appears has four cells.
LEMMA SpawnShape ==
    ASSUME NEW kind \in AllKinds
    PROVE  SpawnCells(kind) \in Shape
<1>1. {<<0, 2>>, <<1, 2>>, <<2, 2>>, <<3, 2>>} \in Shape
  <2>1. /\ <<0, 2>> \in Int \X Int /\ <<1, 2>> \in Int \X Int
        /\ <<2, 2>> \in Int \X Int /\ <<3, 2>> \in Int \X Int
    OBVIOUS
  <2>2. /\ <<0, 2>> # <<1, 2>> /\ <<0, 2>> # <<2, 2>> /\ <<0, 2>> # <<3, 2>>
        /\ <<1, 2>> # <<2, 2>> /\ <<1, 2>> # <<3, 2>> /\ <<2, 2>> # <<3, 2>>
    OBVIOUS
  <2> QED BY <2>1, <2>2, FourCells
<1>2. {<<0, 2>>, <<0, 1>>, <<1, 1>>, <<2, 1>>} \in Shape
  <2>1. /\ <<0, 2>> \in Int \X Int /\ <<0, 1>> \in Int \X Int
        /\ <<1, 1>> \in Int \X Int /\ <<2, 1>> \in Int \X Int
    OBVIOUS
  <2>2. /\ <<0, 2>> # <<0, 1>> /\ <<0, 2>> # <<1, 1>> /\ <<0, 2>> # <<2, 1>>
        /\ <<0, 1>> # <<1, 1>> /\ <<0, 1>> # <<2, 1>> /\ <<1, 1>> # <<2, 1>>
    OBVIOUS
  <2> QED BY <2>1, <2>2, FourCells
<1>3. {<<2, 2>>, <<0, 1>>, <<1, 1>>, <<2, 1>>} \in Shape
  <2>1. /\ <<2, 2>> \in Int \X Int /\ <<0, 1>> \in Int \X Int
        /\ <<1, 1>> \in Int \X Int /\ <<2, 1>> \in Int \X Int
    OBVIOUS
  <2>2. /\ <<2, 2>> # <<0, 1>> /\ <<2, 2>> # <<1, 1>> /\ <<2, 2>> # <<2, 1>>
        /\ <<0, 1>> # <<1, 1>> /\ <<0, 1>> # <<2, 1>> /\ <<1, 1>> # <<2, 1>>
    OBVIOUS
  <2> QED BY <2>1, <2>2, FourCells
<1>4. {<<1, 2>>, <<2, 2>>, <<1, 1>>, <<2, 1>>} \in Shape
  <2>1. /\ <<1, 2>> \in Int \X Int /\ <<2, 2>> \in Int \X Int
        /\ <<1, 1>> \in Int \X Int /\ <<2, 1>> \in Int \X Int
    OBVIOUS
  <2>2. /\ <<1, 2>> # <<2, 2>> /\ <<1, 2>> # <<1, 1>> /\ <<1, 2>> # <<2, 1>>
        /\ <<2, 2>> # <<1, 1>> /\ <<2, 2>> # <<2, 1>> /\ <<1, 1>> # <<2, 1>>
    OBVIOUS
  <2> QED BY <2>1, <2>2, FourCells
<1>5. {<<1, 2>>, <<2, 2>>, <<0, 1>>, <<1, 1>>} \in Shape
  <2>1. /\ <<1, 2>> \in Int \X Int /\ <<2, 2>> \in Int \X Int
        /\ <<0, 1>> \in Int \X Int /\ <<1, 1>> \in Int \X Int
    OBVIOUS
  <2>2. /\ <<1, 2>> # <<2, 2>> /\ <<1, 2>> # <<0, 1>> /\ <<1, 2>> # <<1, 1>>
        /\ <<2, 2>> # <<0, 1>> /\ <<2, 2>> # <<1, 1>> /\ <<0, 1>> # <<1, 1>>
    OBVIOUS
  <2> QED BY <2>1, <2>2, FourCells
<1>6. {<<1, 2>>, <<0, 1>>, <<1, 1>>, <<2, 1>>} \in Shape
  <2>1. /\ <<1, 2>> \in Int \X Int /\ <<0, 1>> \in Int \X Int
        /\ <<1, 1>> \in Int \X Int /\ <<2, 1>> \in Int \X Int
    OBVIOUS
  <2>2. /\ <<1, 2>> # <<0, 1>> /\ <<1, 2>> # <<1, 1>> /\ <<1, 2>> # <<2, 1>>
        /\ <<0, 1>> # <<1, 1>> /\ <<0, 1>> # <<2, 1>> /\ <<1, 1>> # <<2, 1>>
    OBVIOUS
  <2> QED BY <2>1, <2>2, FourCells
<1>7. {<<0, 2>>, <<1, 2>>, <<1, 1>>, <<2, 1>>} \in Shape
  <2>1. /\ <<0, 2>> \in Int \X Int /\ <<1, 2>> \in Int \X Int
        /\ <<1, 1>> \in Int \X Int /\ <<2, 1>> \in Int \X Int
    OBVIOUS
  <2>2. /\ <<0, 2>> # <<1, 2>> /\ <<0, 2>> # <<1, 1>> /\ <<0, 2>> # <<2, 1>>
        /\ <<1, 2>> # <<1, 1>> /\ <<1, 2>> # <<2, 1>> /\ <<1, 1>> # <<2, 1>>
    OBVIOUS
  <2> QED BY <2>1, <2>2, FourCells
<1>8. SpawnCells(kind) \in {{<<0, 2>>, <<1, 2>>, <<2, 2>>, <<3, 2>>},
                            {<<0, 2>>, <<0, 1>>, <<1, 1>>, <<2, 1>>},
                            {<<2, 2>>, <<0, 1>>, <<1, 1>>, <<2, 1>>},
                            {<<1, 2>>, <<2, 2>>, <<1, 1>>, <<2, 1>>},
                            {<<1, 2>>, <<2, 2>>, <<0, 1>>, <<1, 1>>},
                            {<<1, 2>>, <<0, 1>>, <<1, 1>>, <<2, 1>>},
                            {<<0, 2>>, <<1, 2>>, <<1, 1>>, <<2, 1>>}}
  BY Zenon DEF SpawnCells, AllKinds
<1> QED BY <1>1, <1>2, <1>3, <1>4, <1>5, <1>6, <1>7, <1>8, Zenon

\* Turning a shape leaves four cells.
LEMMA TurnedShape ==
    ASSUME NEW C \in Shape, NEW kind
    PROVE  {RotateCellClockwise(cell, kind) : cell \in C} \in Shape
<1> DEFINE k == BoxSide(kind) - 1
           T == {RotateCellClockwise(cell, kind) : cell \in C}
           f == [cell \in C |-> RotateCellClockwise(cell, kind)]
<1>1. C \subseteq Int \X Int /\ IsFiniteSet(C) /\ Cardinality(C) = 4
  BY DEF Shape
<1>2. k \in Int
  BY DEF BoxSide
<1>3. \A cell \in C : RotateCellClockwise(cell, kind) = <<cell[2], k - cell[1]>>
  BY DEF RotateCellClockwise
<1> HIDE DEF k
<1>4. T \in SUBSET (Int \X Int)
  BY <1>1, <1>2, <1>3
<1>5. f \in [C -> T] /\ \A t \in T : \E c \in C : f[c] = t
  OBVIOUS
<1>6. ASSUME NEW a \in C, NEW b \in C, f[a] = f[b] PROVE a = b
  <2>1. f[a] = <<a[2], k - a[1]>> /\ f[b] = <<b[2], k - b[1]>>
    BY <1>3
  <2>2. a \in Int \X Int /\ b \in Int \X Int
    BY <1>1
  <2>3. a[2] = b[2] /\ k - a[1] = k - b[1]
    BY <1>6, <2>1
  <2> QED BY <1>2, <2>2, <2>3
<1> HIDE DEF f, T
<1>7. IsFiniteSet(T) /\ Cardinality(T) = Cardinality(C)
  BY <1>1, <1>5, <1>6, OneByOne
<1> QED BY <1>1, <1>4, <1>7 DEF Shape, T

\* So a piece has four cells in every rotation.
LEMMA LocalShape ==
    ASSUME NEW kind \in AllKinds, NEW r \in Rotations
    PROVE  LocalCells[kind][r] \in Shape
<1> DEFINE S == Shape
           N == 3
           spawn == SpawnCells(kind)
           Solves(f) == f = [n \in Rotations |->
                               IF n = 0 THEN SpawnCells(kind)
                               ELSE {RotateCellClockwise(cell, kind) : cell \in f[n - 1]}]
           F == CHOOSE f : Solves(f)
           step == [C \in S |-> {RotateCellClockwise(cell, kind) : cell \in C}]
           g == [n \in 1 .. N |-> step]
<1>1. spawn \in S
  BY SpawnShape
<1>2. \A C \in S : {RotateCellClockwise(cell, kind) : cell \in C} \in S
  BY TurnedShape
<1> HIDE DEF S, spawn
<1>3. step \in [S -> S] /\ \A C \in S : step[C] = {RotateCellClockwise(cell, kind) : cell \in C}
  BY <1>2
<1> HIDE DEF step
<1>4. g \in [1 .. N -> [S -> S]] /\ \A n \in 1 .. N : g[n] = step
  BY <1>3
<1> HIDE DEF g
<1>5. PICK f \in [0 .. N -> S] : f[0] = spawn /\ \A n \in 1 .. N : f[n] = g[n][f[n - 1]]
  <2>1. N \in Nat
    OBVIOUS
  <2> HIDE DEF N
  <2>2. HasRun(S, spawn, N, g)
    BY <1>1, <1>4, <2>1, Iteration
  <2> QED BY <2>2 DEF HasRun
<1>6. Rotations = 0 .. N
  BY DEF Rotations
<1>7. ASSUME NEW n \in 0 .. N
      PROVE  f[n] = IF n = 0 THEN spawn
                    ELSE {RotateCellClockwise(cell, kind) : cell \in f[n - 1]}
  <2>1. CASE n = 0
    BY <2>1, <1>5
  <2>2. CASE n # 0
    <3>1. n \in 1 .. N /\ n - 1 \in 0 .. N
      BY <2>2
    <3>2. f[n] = step[f[n - 1]] /\ f[n - 1] \in S
      BY <3>1, <1>4, <1>5
    <3> QED BY <2>2, <3>2, <1>3
  <2> QED BY <2>1, <2>2
<1>8. Solves(f)
  BY <1>6, <1>7 DEF spawn
<1>9. Solves(F)
  BY <1>8
<1>10. LocalCells[kind] = F
  BY DEF LocalCells
<1> HIDE DEF F
<1>11. /\ F[0] = spawn
       /\ \A n \in 1 .. N : F[n] = {RotateCellClockwise(cell, kind) : cell \in F[n - 1]}
  BY <1>6, <1>9 DEF spawn
<1>12. \A n \in 1 .. N : F[n - 1] \in S => F[n] \in S
  BY <1>2, <1>11
<1>13. F[0] \in S
  BY <1>1, <1>11
<1>14. \A n \in 1 .. r : F[n - 1] \in S => F[n] \in S
  BY <1>6, <1>12
<1>15. r \in Nat
  BY <1>6
<1>16. F[r] \in S
  BY <1>13, <1>14, <1>15, StaysWithin
<1> QED BY <1>10, <1>16 DEF S

\* And wherever it is.
LEMMA WorldShape ==
    ASSUME NEW piece \in Piece
    PROVE  WorldCells(piece) \in Shape
<1> DEFINE C == LocalCells[piece.kind][piece.rotation]
           x == piece.x
           y == piece.y
           T == WorldCells(piece)
           f == [c \in C |-> <<x + c[1], y + c[2]>>]
<1>1. piece.kind \in AllKinds /\ piece.rotation \in Rotations /\ x \in Int /\ y \in Int
  BY DuelAssumption DEF Piece
<1>2. C \in Shape
  BY <1>1, LocalShape
<1>3. C \subseteq Int \X Int /\ IsFiniteSet(C) /\ Cardinality(C) = 4
  BY <1>2 DEF Shape
<1>4. T = {<<x + c[1], y + c[2]>> : c \in C}
  BY DEF WorldCells
<1> HIDE DEF C, x, y, T
<1>5. T \in SUBSET (Int \X Int)
  BY <1>1, <1>3, <1>4
<1>6. f \in [C -> T] /\ \A t \in T : \E c \in C : f[c] = t
  BY <1>4
<1>7. ASSUME NEW a \in C, NEW b \in C, f[a] = f[b] PROVE a = b
  <2>1. f[a] = <<x + a[1], y + a[2]>> /\ f[b] = <<x + b[1], y + b[2]>>
    OBVIOUS
  <2>2. a \in Int \X Int /\ b \in Int \X Int
    BY <1>3
  <2>3. x + a[1] = x + b[1] /\ y + a[2] = y + b[2]
    BY <1>7, <2>1
  <2> DEFINE a1 == a[1]
             a2 == a[2]
             b1 == b[1]
             b2 == b[2]
  <2>4. a1 \in Int /\ a2 \in Int /\ b1 \in Int /\ b2 \in Int /\ a = <<a1, a2>> /\ b = <<b1, b2>>
    BY <2>2
  <2> HIDE DEF a1, a2, b1, b2
  <2>5. x + a1 = x + b1 /\ y + a2 = y + b2
    BY <2>3 DEF a1, a2, b1, b2
  <2>6. a1 = b1 /\ a2 = b2
    BY <1>1, <2>4, <2>5
  <2> QED BY <2>4, <2>6
<1> HIDE DEF f
<1>8. IsFiniteSet(T) /\ Cardinality(T) = Cardinality(C)
  BY <1>3, <1>6, <1>7, OneByOne
<1> QED BY <1>3, <1>5, <1>8 DEF Shape, T

\* The columns a piece covers in a row.
Covered(piece, i) == {cell[1] : cell \in {c \in WorldCells(piece) : c[2] = i - 1}}

\* A piece that fits adds its cells, row by row, to columns that are free.
LEMMA CoveredRow ==
    ASSUME NEW b \in Board, NEW piece \in Piece, Fits(b, piece), NEW i \in 1 .. Height
    PROVE  /\ Covered(piece, i) \subseteq Columns /\ IsFiniteSet(Covered(piece, i))
           /\ Cardinality(Covered(piece, i)) =
                Cardinality({c \in WorldCells(piece) : c[2] = i - 1})
           /\ Covered(piece, i) \cap b[i].cells = {}
<1> DEFINE W == WorldCells(piece)
           R == {c \in W : c[2] = i - 1}
           T == Covered(piece, i)
           f == [c \in R |-> c[1]]
<1>1. W \subseteq Int \X Int /\ IsFiniteSet(W)
  BY WorldShape DEF Shape
<1>2. \A c \in W : c[1] \in Columns /\ c[2] \in 0 .. (Height - 1) /\ c[1] \notin b[c[2] + 1].cells
  BY DEF Fits
<1>3. T = {c[1] : c \in R}
  BY DEF Covered
<1> HIDE DEF W, T
<1>4. IsFiniteSet(R)
  BY <1>1, FS_Subset
<1>5. f \in [R -> T] /\ \A t \in T : \E c \in R : f[c] = t
  BY <1>3
<1>6. \A c, d \in R : f[c] = f[d] => c = d
  BY <1>1
<1>7. T \subseteq Columns
  BY <1>2, <1>3
<1>8. T \cap b[i].cells = {}
  <2>1. ASSUME NEW c \in R PROVE c[1] \notin b[i].cells
    <3>1. (i - 1) + 1 = i
      BY ColumnsType
    <3> QED BY <1>2, <3>1
  <2> QED BY <1>3, <2>1
<1> HIDE DEF f, R
<1>9. IsFiniteSet(T) /\ Cardinality(T) = Cardinality(R)
  BY <1>4, <1>5, <1>6, OneByOne
<1> QED BY <1>7, <1>8, <1>9 DEF T, R, W

\* Locking adds the four cells of the piece.
LEMMA FilledCells ==
    ASSUME NEW b \in Board, NEW piece \in Piece, Fits(b, piece)
    PROVE  /\ Filled(b, piece) \in [1 .. Height -> Row]
           /\ CellCount(Filled(b, piece)) = CellCount(b) + 4
<1> DEFINE W == WorldCells(piece)
           d == Filled(b, piece)
           u == Sizes(b)
           v == Sizes(d)
           below(n) == {c \in W : c[2] < n}
           level(n) == {c \in W : c[2] = n}
<1>1. b \in [1 .. Height -> Row] /\ Height \in Nat
  BY BoardType, ColumnsType
<1>2. ASSUME NEW i \in 1 .. Height
      PROVE  /\ b[i] \in Row
             /\ d[i] = [b[i] EXCEPT !.cells = b[i].cells \cup Covered(piece, i)]
             /\ d[i] \in Row /\ d[i].cells = b[i].cells \cup Covered(piece, i)
             /\ Cardinality(d[i].cells) = Cardinality(b[i].cells) + Cardinality(level(i - 1))
             /\ Cardinality(b[i].cells) \in Nat
  <2>1. b[i] \in Row
    BY <1>1
  <2>2. d[i] = [b[i] EXCEPT !.cells = b[i].cells \cup Covered(piece, i)]
    BY DEF Filled, Covered
  <2> DEFINE c == Covered(piece, i)
             e == b[i].cells
  <2>3. /\ c \subseteq Columns /\ IsFiniteSet(c) /\ Cardinality(c) = Cardinality(level(i - 1))
        /\ c \cap e = {}
    BY CoveredRow
  <2>4. IsFiniteSet(e) /\ Cardinality(e) \in Nat /\ e \subseteq Columns
    BY <2>1, RowType DEF Row
  <2> HIDE DEF c
  <2>5. d[i].cells = e \cup c /\ d[i] \in Row
    BY <2>1, <2>2, <2>3 DEF Row, c
  <2>6. Cardinality(e \cup c) = Cardinality(e) + Cardinality(c) - Cardinality(e \cap c)
    BY <2>3, <2>4, FS_Union
  <2>7. e \cap c = {} /\ Cardinality({}) = 0
    BY <2>3, FS_EmptySet
  <2>8. Cardinality(c) \in Nat
    BY <2>3, FS_CardinalityType
  <2>9. Cardinality(e \cup c) = Cardinality(e) + Cardinality(c)
    <3>1. Cardinality(e \cap c) = 0
      BY <2>7
    <3> HIDE DEF e
    <3> QED BY <2>4, <2>6, <2>8, <3>1
  <2> QED BY <2>1, <2>2, <2>3, <2>4, <2>5, <2>9 DEF c
<1>3. d \in [1 .. Height -> Row]
  <2>1. d = [i \in 1 .. Height |-> d[i]]
    BY DEF Filled
  <2> HIDE DEF d
  <2> QED BY <1>2, <2>1
<1> HIDE DEF d
<1>4. b \in Seq(Row) /\ Len(b) = Height /\ CellCount(b) = Total(u)
  BY <1>1, BoardIsSequence
<1>5. d \in Seq(Row) /\ Len(d) = Height /\ CellCount(d) = Total(v)
  BY <1>3, BoardIsSequence
<1>6. u \in Seq(Int) /\ Len(u) = Height /\ \A i \in 1 .. Height : u[i] = Cardinality(b[i].cells)
  BY <1>4, SizesType
<1>7. v \in Seq(Int) /\ Len(v) = Height /\ \A i \in 1 .. Height : v[i] = Cardinality(d[i].cells)
  BY <1>5, SizesType
<1> HIDE DEF u, v
<1>8. PICK f \in [0 .. Height -> Int] : SumsTo(f, u) /\ Total(u) = f[Height]
  BY <1>6, TotalSums
<1>9. f[0] = 0 /\ \A i \in 1 .. Height : f[i] = f[i - 1] + u[i]
  BY <1>6, <1>8 DEF SumsTo
<1>10. W \subseteq Int \X Int /\ IsFiniteSet(W) /\ Cardinality(W) = 4
  BY WorldShape DEF Shape
<1>11. \A c \in W : c[2] \in 0 .. (Height - 1)
  BY DEF Fits
<1> HIDE DEF W
<1> DEFINE h == [n \in 0 .. Height |-> f[n] + Cardinality(below(n))]
<1>12. \A n \in 0 .. Height : f[n] \in Int /\ h[n] = f[n] + Cardinality(below(n))
  OBVIOUS
<1>13. below(0) = {} /\ below(Height) = W
  BY <1>1, <1>10, <1>11
<1>14. ASSUME NEW i \in 1 .. Height
       PROVE  /\ Cardinality(below(i)) = Cardinality(below(i - 1)) + Cardinality(level(i - 1))
              /\ Cardinality(below(i - 1)) \in Nat /\ Cardinality(level(i - 1)) \in Nat
  <2>1. below(i) = below(i - 1) \cup level(i - 1) /\ below(i - 1) \cap level(i - 1) = {}
    <3>1. \A c \in W : c[2] \in Int
      BY <1>10
    <3>2. \A n \in Int : n < i <=> n < i - 1 \/ n = i - 1
      BY <1>1
    <3>3. \A n \in Int : ~(n < i - 1 /\ n = i - 1)
      BY <1>1
    <3> QED BY <3>1, <3>2, <3>3
  <2>2. IsFiniteSet(below(i - 1)) /\ IsFiniteSet(level(i - 1))
    BY <1>10, FS_Subset
  <2> DEFINE s == below(i - 1)
             t == level(i - 1)
  <2> HIDE DEF s, t
  <2>3. Cardinality(s \cup t) = Cardinality(s) + Cardinality(t) - Cardinality(s \cap t)
    BY <2>2, FS_Union DEF s, t
  <2>4. Cardinality(s) \in Nat /\ Cardinality(t) \in Nat /\ Cardinality({}) = 0
    BY <2>2, FS_CardinalityType, FS_EmptySet DEF s, t
  <2>5. Cardinality(s \cap t) = 0
    BY <2>1, <2>4 DEF s, t
  <2>6. Cardinality(s \cup t) = Cardinality(s) + Cardinality(t)
    BY <2>3, <2>4, <2>5
  <2>7. below(i) = s \cup t
    BY <2>1 DEF s, t
  <2> QED BY <2>4, <2>6, <2>7 DEF s, t
<1> HIDE DEF h
<1>15. ASSUME NEW i \in 1 .. Height PROVE h[i] = h[i - 1] + v[i]
  <2>1. i \in 0 .. Height /\ i - 1 \in 0 .. Height
    BY <1>1
  <2> DEFINE p == Cardinality(below(i - 1))
             l == Cardinality(level(i - 1))
             e == Cardinality(b[i].cells)
  <2>2. h[i] = f[i] + Cardinality(below(i)) /\ h[i - 1] = f[i - 1] + p /\ f[i - 1] \in Int
    BY <1>12, <2>1
  <2>3. Cardinality(below(i)) = p + l /\ p \in Nat /\ l \in Nat
    BY <1>14
  <2>4. f[i] = f[i - 1] + e /\ v[i] = e + l /\ e \in Nat
    BY <1>2, <1>6, <1>7, <1>9
  <2> HIDE DEF p, l, e
  <2> QED BY <2>2, <2>3, <2>4
<1>16. h[0] = 0
  <2>1. 0 \in 0 .. Height /\ Cardinality({}) = 0
    BY <1>1, FS_EmptySet
  <2>2. h[0] = f[0] + Cardinality(below(0))
    BY <1>12, <2>1
  <2>3. Cardinality(below(0)) = 0
    BY <1>13, <2>1
  <2> QED BY <1>9, <2>2, <2>3
<1>17. SumsTo(h, v)
  BY <1>7, <1>15, <1>16 DEF SumsTo
<1>18. Total(v) = h[Height]
  BY <1>7, <1>17, TotalIs
<1>19. h[Height] = f[Height] + 4
  <2>1. Height \in 0 .. Height
    BY <1>1
  <2> QED BY <1>10, <1>12, <1>13, <2>1
<1> QED BY <1>3, <1>4, <1>5, <1>8, <1>18, <1>19 DEF d

\* lockPiece: four cells more, a row's less for every line, and no full row left.
LEMMA LockPieceCells ==
    ASSUME NEW b \in Board, NEW piece \in Piece, Fits(b, piece)
    PROVE  LET locked == LockPiece(b, piece)
           IN  /\ locked.board \in Board /\ locked.lines \in Nat
               /\ CellCount(locked.board) = CellCount(b) + 4 - Width * locked.lines
<1> DEFINE d == Filled(b, piece)
           locked == LockPiece(b, piece)
<1>1. d \in [1 .. Height -> Row] /\ CellCount(d) = CellCount(b) + 4
  BY FilledCells
<1>2. locked.board = Cleared(d) /\ locked.lines = Cardinality(FullAmong(d, Height))
  BY DEF LockPiece, FullAmong
<1> HIDE DEF d, locked
<1>3. /\ Cleared(d) \in Board /\ Cardinality(FullAmong(d, Height)) \in Nat
      /\ CellCount(Cleared(d)) = CellCount(d) - Width * Cardinality(FullAmong(d, Height))
  BY <1>1, ClearedCells
<1>4. CellCount(b) \in Nat /\ Width \in Nat
  BY BoardType, ColumnsType
<1>5. CellCount(locked.board) = CellCount(b) + 4 - Width * locked.lines
  <2>1. CellCount(locked.board) = CellCount(d) - Width * locked.lines
    BY <1>2, <1>3
  <2>2. CellCount(d) = CellCount(b) + 4
    BY <1>1
  <2> DEFINE w == Width * locked.lines
  <2>3. w \in Int
    BY <1>2, <1>3, <1>4
  <2> HIDE DEF w
  <2> QED BY <1>4, <2>1, <2>2, <2>3 DEF w
<1> QED BY <1>2, <1>3, <1>5 DEF locked

(*************************** garbage that rises ****************************)

\* A row of garbage is open at its hole and has all its other cells.
LEMMA GarbageRow ==
    ASSUME NEW hole \in Columns
    PROVE  LET row == [cells |-> Columns \ {hole}, garbage |-> TRUE]
           IN  row \in OpenRows /\ Cardinality(row.cells) = Width - 1
<1>1. Columns \ {hole} \in (SUBSET Columns) \ {Columns}
  OBVIOUS
<1>2. Cardinality(Columns \ {hole}) = Width - 1
  BY ColumnsType, FS_RemoveElement
<1> QED BY <1>1, <1>2 DEF OpenRows

\* Garbage brings its rows' cells, and loses none unless it lifts some over the top.
LEMMA InsertedCells ==
    ASSUME NEW b \in Board, NEW holes \in Seq(Columns), Len(holes) <= Height
    PROVE  LET inserted == InsertGarbage(b, holes)
           IN  /\ inserted.board \in Board /\ inserted.overflowed \in BOOLEAN
               /\ ~inserted.overflowed =>
                     CellCount(inserted.board) = CellCount(b) + (Width - 1) * Len(holes)
<1> DEFINE n == Len(holes)
           rows == [i \in 1 .. Len(holes) |->
                       [cells |-> Columns \ {holes[i]}, garbage |-> TRUE]]
           d == SubSeq(rows \o b, 1, Height)
           over == \E i \in (Height - Len(holes) + 1) .. Height : b[i].cells # {}
           w == Width - 1
<1>1. InsertGarbage(b, holes) = [board |-> d, overflowed |-> over]
  BY DEF InsertGarbage
<1>2. n \in Nat /\ Height \in Nat /\ w \in Nat /\ n <= Height
  BY ColumnsType
<1>3. \A i \in 1 .. n : /\ rows[i] \in OpenRows /\ Cardinality(rows[i].cells) = w
  <2>1. \A i \in 1 .. n : holes[i] \in Columns
    OBVIOUS
  <2> QED BY <2>1, GarbageRow
<1>4. rows \in Seq(OpenRows) /\ Len(rows) = n
  <2>1. rows = [i \in 1 .. n |-> rows[i]]
    OBVIOUS
  <2> HIDE DEF rows
  <2>2. rows \in [1 .. n -> OpenRows]
    BY <1>3, <2>1
  <2> HIDE DEF n
  <2> QED BY <1>2, <2>2, TableIsSequence
<1> HIDE DEF rows, w
<1>5. b \in Seq(OpenRows) /\ Len(b) = Height
  BY <1>2, TableIsSequence DEF Board
<1> DEFINE u == rows \o b
<1>6. /\ u \in Seq(OpenRows) /\ Len(u) = n + Height
      /\ \A i \in 1 .. n : u[i] = rows[i]
      /\ \A i \in 1 .. Height : u[n + i] = b[i]
  <2>1. Concatenates(u, rows, b)
    BY <1>4, <1>5, ConcatJoins
  <2>2. u \in Seq(OpenRows)
    BY <1>4, <1>5, ConcatType
  <2> HIDE DEF u, n
  <2> QED BY <1>4, <1>5, <2>1, <2>2 DEF Concatenates
<1> HIDE DEF u, n
<1>7. /\ d \in Seq(OpenRows) /\ Len(d) = Height
      /\ \A i \in 1 .. Height : d[i] = u[i]
  BY <1>2, <1>6 DEF u
<1> HIDE DEF d
<1>8. d \in Board
  <2>1. d \in [1 .. Height -> OpenRows]
    BY <1>7
  <2> QED BY <2>1 DEF Board
<1>9. \A i \in 1 .. n : Cardinality(d[i].cells) = w
  <2>1. \A i \in 1 .. n : i \in 1 .. Height
    BY <1>2
  <2> QED BY <1>3, <1>6, <1>7, <2>1
<1>10. ASSUME NEW i \in 1 .. Height, i > n PROVE d[i] = b[i - n]
  <2>1. i - n \in 1 .. Height /\ n + (i - n) = i
    BY <1>2, <1>10
  <2> QED BY <1>6, <1>7, <2>1
<1>11. over \in BOOLEAN
  OBVIOUS
<1>12. ASSUME ~over PROVE CellCount(d) = CellCount(b) + w * n
  <2>1. \A i \in (Height - n + 1) .. Height : b[i].cells = {}
    BY <1>12 DEF n
  <2> HIDE DEF over
  <2>2. b \in [1 .. Height -> Row] /\ d \in [1 .. Height -> Row]
    BY <1>8, BoardType
  <2> DEFINE s == Sizes(b)
             t == Sizes(d)
  <2>3. b \in Seq(Row) /\ d \in Seq(Row) /\ Len(d) = Height /\ Len(b) = Height
        /\ CellCount(b) = Total(s) /\ CellCount(d) = Total(t)
    BY <2>2, BoardIsSequence
  <2>4. s \in Seq(Int) /\ Len(s) = Height /\ \A i \in 1 .. Height : s[i] = Cardinality(b[i].cells)
    BY <2>3, SizesType
  <2>5. t \in Seq(Int) /\ Len(t) = Height /\ \A i \in 1 .. Height : t[i] = Cardinality(d[i].cells)
    BY <2>3, SizesType
  <2> HIDE DEF s, t
  <2>6. PICK f \in [0 .. Height -> Int] : SumsTo(f, s) /\ Total(s) = f[Height]
    BY <2>4, TotalSums
  <2>7. f[0] = 0 /\ \A i \in 1 .. Height : f[i] = f[i - 1] + s[i]
    BY <2>4, <2>6 DEF SumsTo
  <2>8. \A i \in (Height - n + 1) .. Height : s[i] = 0
    <3>1. Cardinality({}) = 0
      BY FS_EmptySet
    <3>2. \A i \in (Height - n + 1) .. Height : i \in 1 .. Height
      BY <1>2
    <3> QED BY <2>1, <2>4, <3>1, <3>2
  <2>9. f[Height] = f[Height - n]
    <3> DEFINE P == {k \in Nat : k <= n => f[(Height - n) + k] = f[Height - n]}
    <3>1. 0 \in P
      BY <1>2
    <3>2. ASSUME NEW k \in Nat, k \in P PROVE k + 1 \in P
      <4> SUFFICES ASSUME k + 1 <= n PROVE f[(Height - n) + (k + 1)] = f[Height - n]
        OBVIOUS
      <4> DEFINE i == (Height - n) + (k + 1)
      <4>1. i \in (Height - n + 1) .. Height /\ i \in 1 .. Height /\ i - 1 = (Height - n) + k
            /\ i - 1 \in 0 .. Height
        BY <1>2
      <4>2. f[i] = f[i - 1] + s[i] /\ s[i] = 0 /\ f[i - 1] \in Int
        BY <2>7, <2>8, <4>1
      <4>3. f[(Height - n) + k] = f[Height - n]
        BY <1>2, <3>2
      <4> HIDE DEF i
      <4>4. f[i] = f[Height - n]
        BY <4>1, <4>2, <4>3
      <4> QED BY <4>4 DEF i
    <3> HIDE DEF P
    <3>3. \A k \in Nat : k \in P
      BY <3>1, <3>2, SetInduction
    <3>4. n \in P /\ (Height - n) + n = Height
      BY <1>2, <3>3
    <3> QED BY <1>2, <3>4 DEF P
  <2> DEFINE h == [i \in 0 .. Height |-> IF i <= n THEN w * i ELSE w * n + f[i - n]]
  <2>10. \A i \in 0 .. Height : h[i] = IF i <= n THEN w * i ELSE w * n + f[i - n]
    OBVIOUS
  <2> HIDE DEF h
  <2>11. \A i \in 0 .. Height : f[i] \in Int
    OBVIOUS
  <2>12. ASSUME NEW i \in 1 .. Height PROVE h[i] = h[i - 1] + t[i]
    <3>1. i \in 0 .. Height /\ i - 1 \in 0 .. Height
      BY <1>2
    <3>2. CASE i <= n
      <4>1. i \in 1 .. n /\ i - 1 <= n
        BY <1>2, <3>2
      <4>2. h[i] = w * i /\ h[i - 1] = w * (i - 1) /\ t[i] = w
        BY <1>9, <2>5, <2>10, <3>1, <3>2, <4>1
      <4>3. w * i = w * (i - 1) + w
        BY <1>2, <4>1
      <4> QED BY <4>2, <4>3
    <3>3. CASE i > n
      <4> DEFINE j == i - n
      <4>1. j \in 1 .. Height /\ j - 1 \in 0 .. Height /\ ~(i <= n)
        BY <1>2, <3>3
      <4>2. h[i] = w * n + f[j]
        BY <2>10, <3>1, <4>1
      <4>3. h[i - 1] = w * n + f[j - 1]
        <5>1. CASE i = n + 1
          <6>1. i - 1 = n /\ j - 1 = 0 /\ n <= n
            BY <1>2, <5>1
          <6>2. h[i - 1] = w * n /\ f[j - 1] = 0 /\ w * n \in Int
            BY <1>2, <2>7, <2>10, <3>1, <6>1
          <6> QED BY <6>2
        <5>2. CASE i # n + 1
          <6>1. ~(i - 1 <= n) /\ (i - 1) - n = j - 1
            BY <1>2, <3>3, <5>2
          <6> QED BY <2>10, <3>1, <6>1
        <5> QED BY <5>1, <5>2
      <4>4. f[j] = f[j - 1] + s[j] /\ s[j] = Cardinality(b[j].cells)
        BY <2>4, <2>7, <4>1
      <4>5. t[i] = s[j]
        BY <1>10, <2>5, <3>3, <4>4
      <4>6. w * n \in Int /\ f[j - 1] \in Int /\ s[j] \in Int
        BY <1>2, <2>4, <2>11, <4>1
      <4> DEFINE z == w * n
      <4> HIDE DEF z, j
      <4> QED BY <4>2, <4>3, <4>4, <4>5, <4>6 DEF z
    <3> QED BY <1>2, <3>2, <3>3
  <2>13. h[0] = 0
    <3>1. 0 \in 0 .. Height /\ 0 <= n /\ w * 0 = 0
      BY <1>2
    <3> QED BY <2>10, <3>1
  <2>14. SumsTo(h, t)
    BY <2>5, <2>12, <2>13 DEF SumsTo
  <2>15. Total(t) = h[Height]
    BY <2>5, <2>14, TotalIs
  <2>16. h[Height] = w * n + f[Height - n]
    <3>1. Height \in 0 .. Height
      BY <1>2
    <3>2. CASE Height <= n
      <4>1. Height = n /\ Height - n = 0 /\ w * n \in Int
        BY <1>2, <3>2
      <4> QED BY <2>7, <2>10, <3>1, <3>2, <4>1
    <3>3. CASE ~(Height <= n)
      BY <2>10, <3>1, <3>3
    <3> QED BY <3>2, <3>3
  <2>17. w * n \in Int /\ f[Height] \in Int
    <3>1. Height \in 0 .. Height
      BY <1>2
    <3> QED BY <1>2, <2>11, <3>1
  <2> QED BY <2>3, <2>6, <2>9, <2>15, <2>16, <2>17
<1> HIDE DEF over
<1> QED BY <1>1, <1>8, <1>11, <1>12 DEF w, n

(************************** the locks of a frame ***************************)

\* What the locks of a frame amount to, added up.
Mapped(s, v) == [i \in DOMAIN s |-> v[s[i]]]

\* A number of every lock, added up.
LEMMA MappedSum ==
    ASSUME NEW s \in Seq(Lock), NEW v \in [Lock -> Nat]
    PROVE  Total(Mapped(s, v)) \in Nat /\ Mapped(s, v) \in Seq(Nat) /\ Len(Mapped(s, v)) = Len(s)
<1>1. Len(s) \in Nat /\ DOMAIN s = 1 .. Len(s) /\ \A i \in 1 .. Len(s) : v[s[i]] \in Nat
  OBVIOUS
<1>2. Mapped(s, v) \in [1 .. Len(s) -> Nat]
  BY <1>1 DEF Mapped
<1>3. Mapped(s, v) \in Seq(Nat) /\ Len(Mapped(s, v)) = Len(s)
  BY <1>1, <1>2, TableIsSequence
<1> QED BY <1>3, TotalNat

\* A lock more adds its number.
LEMMA MappedAppend ==
    ASSUME NEW s \in Seq(Lock), NEW v \in [Lock -> Nat], NEW l \in Lock
    PROVE  Total(Mapped(Append(s, l), v)) = Total(Mapped(s, v)) + v[l]
<1> DEFINE t == Append(s, l)
           N == Len(s)
           a == Mapped(s, v)
           c == Mapped(t, v)
           x == v[l]
<1>1. /\ N \in Nat /\ t \in Seq(Lock) /\ Len(t) = N + 1 /\ t[N + 1] = l
      /\ \A i \in 1 .. N : t[i] = s[i]
  OBVIOUS
<1>2. x \in Nat
  OBVIOUS
<1>3. a \in Seq(Nat) /\ Len(a) = N /\ \A i \in 1 .. N : a[i] = v[s[i]]
  BY MappedSum DEF Mapped
<1>4. c \in Seq(Nat) /\ Len(c) = N + 1 /\ \A i \in 1 .. (N + 1) : c[i] = v[t[i]]
  <2>1. c \in Seq(Nat) /\ Len(c) = Len(t)
    BY <1>1, MappedSum
  <2>2. DOMAIN t = 1 .. (N + 1)
    BY <1>1
  <2>3. \A i \in 1 .. (N + 1) : c[i] = v[t[i]]
    BY <2>2 DEF Mapped
  <2> QED BY <1>1, <2>1, <2>3
<1> HIDE DEF a, c, t, x
<1>5. c = Append(a, x)
  <2> DEFINE e == Append(a, x)
  <2>1. e \in Seq(Nat) /\ Len(e) = N + 1 /\ e[N + 1] = x /\ \A i \in 1 .. N : e[i] = a[i]
    BY <1>2, <1>3
  <2> HIDE DEF e
  <2>2. \A i \in 1 .. (N + 1) : c[i] = e[i]
    <3>1. \A i \in 1 .. N : c[i] = e[i]
      BY <1>1, <1>3, <1>4, <2>1
    <3>2. c[N + 1] = e[N + 1]
      <4>1. N + 1 \in 1 .. (N + 1)
        BY <1>1
      <4>2. c[N + 1] = v[t[N + 1]]
        BY <1>4, <4>1
      <4> QED BY <1>1, <2>1, <4>2 DEF x
    <3>3. \A i \in 1 .. (N + 1) : i \in 1 .. N \/ i = N + 1
      BY <1>1
    <3> QED BY <3>1, <3>2, <3>3
  <2>3. c = e
    BY <1>4, <2>1, <2>2
  <2> QED BY <2>3 DEF e
<1>6. a \in Seq(Int) /\ x \in Int
  BY <1>2, <1>3
<1>7. Total(Append(a, x)) = Total(a) + x
  BY <1>6, TotalAppend
<1> QED BY <1>5, <1>7 DEF a, c, t, x

\* Sums over the locks: lines, rows risen, rows cancelled, pieces of a kind.
One(k, kind) == IF kind = k THEN 1 ELSE 0
LinesOf(locks) == Total([i \in DOMAIN locks |-> locks[i].lines])
RisenOf(locks) == Total([i \in DOMAIN locks |-> locks[i].risen])
CancelledOf(locks) == Total([i \in DOMAIN locks |-> locks[i].cancelled])
KindOf(locks, k) == Total([i \in DOMAIN locks |-> IF locks[i].piece = k THEN 1 ELSE 0])

\* The lines, the rows risen and cancelled, and the pieces of a kind, with one lock more.
LEMMA LocksSum ==
    ASSUME NEW s \in Seq(Lock)
    PROVE  /\ LinesOf(s) \in Nat /\ RisenOf(s) \in Nat /\ CancelledOf(s) \in Nat
           /\ \A k \in Kinds : KindOf(s, k) \in Nat
           /\ \A l \in Lock :
                 /\ LinesOf(Append(s, l)) = LinesOf(s) + l.lines
                 /\ RisenOf(Append(s, l)) = RisenOf(s) + l.risen
                 /\ CancelledOf(Append(s, l)) = CancelledOf(s) + l.cancelled
                 /\ \A k \in Kinds : KindOf(Append(s, l), k) = KindOf(s, k) + One(k, l.piece)
<1> DEFINE lines == [l \in Lock |-> l.lines]
           risen == [l \in Lock |-> l.risen]
           cancelled == [l \in Lock |-> l.cancelled]
           kind(k) == [l \in Lock |-> IF l.piece = k THEN 1 ELSE 0]
<1>1. /\ lines \in [Lock -> Nat] /\ risen \in [Lock -> Nat] /\ cancelled \in [Lock -> Nat]
      /\ \A k \in Kinds : kind(k) \in [Lock -> Nat]
  BY DEF Lock
<1>2. ASSUME NEW t \in Seq(Lock)
      PROVE  /\ LinesOf(t) = Total(Mapped(t, lines)) /\ RisenOf(t) = Total(Mapped(t, risen))
             /\ CancelledOf(t) = Total(Mapped(t, cancelled))
             /\ \A k \in Kinds : KindOf(t, k) = Total(Mapped(t, kind(k)))
  <2>1. \A i \in DOMAIN t : t[i] \in Lock
    OBVIOUS
  <2>2. Mapped(t, lines) = [i \in DOMAIN t |-> t[i].lines]
    BY <2>1 DEF Mapped
  <2>3. Mapped(t, risen) = [i \in DOMAIN t |-> t[i].risen]
    BY <2>1 DEF Mapped
  <2>4. Mapped(t, cancelled) = [i \in DOMAIN t |-> t[i].cancelled]
    BY <2>1 DEF Mapped
  <2>5. ASSUME NEW k \in Kinds
        PROVE  Mapped(t, kind(k)) = [i \in DOMAIN t |-> IF t[i].piece = k THEN 1 ELSE 0]
    BY <2>1 DEF Mapped
  <2> QED BY <2>2, <2>3, <2>4, <2>5 DEF LinesOf, RisenOf, CancelledOf, KindOf
<1>3. \A l \in Lock : /\ lines[l] = l.lines /\ risen[l] = l.risen /\ cancelled[l] = l.cancelled
                      /\ \A k \in Kinds : kind(k)[l] = One(k, l.piece)
  BY DEF One
<1> HIDE DEF lines, risen, cancelled, kind
<1>4. /\ LinesOf(s) \in Nat /\ RisenOf(s) \in Nat /\ CancelledOf(s) \in Nat
      /\ \A k \in Kinds : KindOf(s, k) \in Nat
  BY <1>1, <1>2, MappedSum
<1>5. ASSUME NEW l \in Lock
      PROVE  /\ LinesOf(Append(s, l)) = LinesOf(s) + l.lines
             /\ RisenOf(Append(s, l)) = RisenOf(s) + l.risen
             /\ CancelledOf(Append(s, l)) = CancelledOf(s) + l.cancelled
             /\ \A k \in Kinds : KindOf(Append(s, l), k) = KindOf(s, k) + One(k, l.piece)
  <2>1. Append(s, l) \in Seq(Lock)
    OBVIOUS
  <2> DEFINE t == Append(s, l)
  <2>2. /\ Total(Mapped(t, lines)) = Total(Mapped(s, lines)) + lines[l]
        /\ Total(Mapped(t, risen)) = Total(Mapped(s, risen)) + risen[l]
        /\ Total(Mapped(t, cancelled)) = Total(Mapped(s, cancelled)) + cancelled[l]
        /\ \A k \in Kinds : Total(Mapped(t, kind(k))) = Total(Mapped(s, kind(k))) + kind(k)[l]
    BY <1>1, MappedAppend
  <2>3. t \in Seq(Lock)
    BY <2>1
  <2> HIDE DEF t
  <2>4. LinesOf(t) = LinesOf(s) + l.lines
    BY <1>2, <1>3, <2>2, <2>3
  <2>5. RisenOf(t) = RisenOf(s) + l.risen
    BY <1>2, <1>3, <2>2, <2>3
  <2>6. CancelledOf(t) = CancelledOf(s) + l.cancelled
    BY <1>2, <1>3, <2>2, <2>3
  <2>7. \A k \in Kinds : KindOf(t, k) = KindOf(s, k) + One(k, l.piece)
    BY <1>2, <1>3, <2>2, <2>3
  <2> QED BY <2>4, <2>5, <2>6, <2>7 DEF t
<1> QED BY <1>4, <1>5

\* No lock, none of them.
LEMMA LocksEmpty ==
    /\ LinesOf(<<>>) = 0 /\ RisenOf(<<>>) = 0 /\ CancelledOf(<<>>) = 0
    /\ \A k \in Kinds : KindOf(<<>>, k) = 0
<1>1. [i \in DOMAIN <<>> |-> <<>>[i].lines] = <<>>
  OBVIOUS
<1>2. [i \in DOMAIN <<>> |-> <<>>[i].risen] = <<>>
  OBVIOUS
<1>3. [i \in DOMAIN <<>> |-> <<>>[i].cancelled] = <<>>
  OBVIOUS
<1>4. \A k \in Kinds : [i \in DOMAIN <<>> |-> IF <<>>[i].piece = k THEN 1 ELSE 0] = <<>>
  OBVIOUS
<1> QED BY <1>1, <1>2, <1>3, <1>4, TotalEmpty DEF LinesOf, RisenOf, CancelledOf, KindOf

(**************** what a step of a player leaves as it was *****************)

\* The pieces of a kind drawn so far, the kind in play or due, and the balances of a player:
\* what they come to changes with the record only, not with what he does.
DrawnOf(n, k) == Cardinality({i \in 1 .. n : pieces[i] = k})
InHand(p) == IF p.pending # None THEN p.pending.kind ELSE p.active.kind

CellBalance(p) ==
    CellCount(p.board) - (4 * p.placed) + (Width * LinesOf(p.locks))
      - ((Width - 1) * RisenOf(p.locks))
RowBalance(p) == RisenOf(p.locks) + CancelledOf(p.locks) + Waiting(p.garbage)
KindBalance(p, k) == DrawnOf(p.cursor, k) - KindOf(p.locks, k) - One(k, p.hold) - One(k, InHand(p))

\* The balances of q are those of p, unless q tops out.
Same(p, q) ==
    ~q.topped =>
      /\ ~p.topped /\ CellBalance(q) = CellBalance(p) /\ RowBalance(q) = RowBalance(p)
      /\ \A k \in Kinds : KindBalance(q, k) = KindBalance(p, k)

\* The hold of the piece in play has been used.
Spent(p) == p.pending = None /\ (p.topped \/ ~p.canHold)
\* The hold changes once, and then is spent until the next lock.
OneHold(p, q) ==
    /\ q.placed >= p.placed
    /\ q.placed = p.placed => /\ Spent(p) => Spent(q) /\ q.hold = p.hold
                              /\ q.hold # p.hold => Spent(q)

\* A player between two calls: topped out, with a piece that fits, or with one that is due.
Sound(p) ==
    /\ p \in Simulation
    /\ \/ p.topped /\ p.pending = None
       \/ Playing(p)
       \/ Awaits(p) /\ ~p.pending.byHold

\* A step of a player.
Advances(p, q) == Sound(q) /\ Same(p, q) /\ OneHold(p, q)

\* Steps follow one another.
LEMMA AdvancesFurther ==
    ASSUME NEW p, NEW q, NEW r, Sound(p), Advances(p, q), Advances(q, r)
    PROVE  Advances(p, r)
<1>1. Same(p, r)
  <2> SUFFICES ASSUME ~r.topped
               PROVE  /\ ~p.topped /\ CellBalance(r) = CellBalance(p)
                      /\ RowBalance(r) = RowBalance(p)
                      /\ \A k \in Kinds : KindBalance(r, k) = KindBalance(p, k)
    BY DEF Same
  <2>1. /\ ~q.topped /\ CellBalance(r) = CellBalance(q) /\ RowBalance(r) = RowBalance(q)
        /\ \A k \in Kinds : KindBalance(r, k) = KindBalance(q, k)
    BY DEF Advances, Same
  <2>2. /\ ~p.topped /\ CellBalance(q) = CellBalance(p) /\ RowBalance(q) = RowBalance(p)
        /\ \A k \in Kinds : KindBalance(q, k) = KindBalance(p, k)
    BY <2>1 DEF Advances, Same
  <2> QED BY <2>1, <2>2
<1>2. p.placed \in Nat /\ q.placed \in Nat /\ r.placed \in Nat
  BY DEF Advances, Sound, Simulation
<1>3. OneHold(p, q) /\ OneHold(q, r)
  BY DEF Advances
<1>4. OneHold(p, r)
  <2>1. r.placed >= p.placed
    BY <1>2, <1>3 DEF OneHold
  <2>2. r.placed = p.placed => q.placed = p.placed /\ r.placed = q.placed
    BY <1>2, <1>3 DEF OneHold
  <2> QED BY <1>3, <2>1, <2>2 DEF OneHold
<1> QED BY <1>1, <1>4 DEF Advances

\* A player to whom nothing happens keeps his balances.
LEMMA StayingAdvances ==
    ASSUME NEW p, Sound(p)
    PROVE  Advances(p, p)
<1>1. p.placed \in Nat
  BY DEF Sound, Simulation
<1>2. OneHold(p, p)
  BY <1>1 DEF OneHold
<1> QED BY <1>2 DEF Advances, Same

\* So does one whose piece moves.
LEMMA MovedAdvances ==
    ASSUME NEW p, NEW q, Playing(p), Moved(p, q)
    PROVE  Advances(p, q) /\ Sound(p)
<1>1. /\ q.board = p.board /\ q.active.kind = p.active.kind /\ q.hold = p.hold
      /\ q.canHold = p.canHold /\ q.placed = p.placed /\ q.garbage = p.garbage
      /\ q.cursor = p.cursor /\ q.locks = p.locks /\ Playing(q)
  BY DEF Moved
<1>2. p.pending = None /\ q.pending = None /\ ~p.topped /\ ~q.topped /\ p.placed \in Nat
  BY <1>1 DEF Playing, Simulation
<1>3. InHand(p) = InHand(q)
  BY <1>1, <1>2 DEF InHand
<1>4. Same(p, q)
  BY <1>1, <1>2, <1>3 DEF Same, CellBalance, RowBalance, KindBalance
<1>5. OneHold(p, q)
  BY <1>1, <1>2 DEF OneHold, Spent
<1>6. Sound(p) /\ Sound(q)
  BY <1>1 DEF Sound, Playing
<1> QED BY <1>4, <1>5, <1>6 DEF Advances

\* One piece more is drawn.
LEMMA DrawnOne ==
    ASSUME NEW n \in Nat, NEW k \in Kinds
    PROVE  DrawnOf(n + 1, k) = DrawnOf(n, k) + One(k, pieces[n + 1]) /\ DrawnOf(n, k) \in Nat
<1> DEFINE S == {i \in 1 .. n : pieces[i] = k}
           T == {i \in 1 .. (n + 1) : pieces[i] = k}
<1>1. IsFiniteSet(1 .. n)
  BY FS_Interval
<1>2. IsFiniteSet(S) /\ Cardinality(S) \in Nat
  BY <1>1, FS_Subset, FS_CardinalityType
<1>3. T = (IF pieces[n + 1] = k THEN S \cup {n + 1} ELSE S) /\ n + 1 \notin S
  <2>1. \A i \in 1 .. (n + 1) : i \in 1 .. n \/ i = n + 1
    OBVIOUS
  <2>2. (\A i \in 1 .. n : i \in 1 .. (n + 1)) /\ n + 1 \in 1 .. (n + 1) /\ n + 1 \notin 1 .. n
    OBVIOUS
  <2> QED BY <2>1, <2>2
<1> HIDE DEF S, T
<1>4. Cardinality(S \cup {n + 1}) = Cardinality(S) + 1
  BY <1>2, <1>3, FS_AddElement
<1>5. Cardinality(T) = Cardinality(S) + One(k, pieces[n + 1])
  BY <1>2, <1>3, <1>4 DEF One
<1> QED BY <1>2, <1>5 DEF DrawnOf, S, T

\* One of a kind counts one or none.
LEMMA OneType ==
    ASSUME NEW k, NEW kind
    PROVE  One(k, kind) \in Nat
BY DEF One

\* Nothing is of no kind.
LEMMA OneNone ==
    ASSUME NEW k \in Kinds
    PROVE  One(k, None) = 0
BY NoneIsNothing DEF One

\* The piece that appears is the one that was due, or the one held for it.
LEMMA GeneratesSame ==
    ASSUME NEW p, NEW q, Awaits(p), Generates(p, q)
    PROVE  Same(p, q)
<1> SUFFICES ASSUME ~q.topped
             PROVE  /\ ~p.topped /\ CellBalance(q) = CellBalance(p)
                    /\ RowBalance(q) = RowBalance(p)
                    /\ \A k \in Kinds : KindBalance(q, k) = KindBalance(p, k)
  BY DEF Same
<1>1. p.cursor \in Nat /\ p \in Simulation /\ ~p.topped /\ p.pending \in Pending
  BY DEF Awaits, Simulation
<1>2. SameStack(p, q) /\ q.pending = None
  BY DEF Generates
<1>3. CellBalance(q) = CellBalance(p) /\ RowBalance(q) = RowBalance(p)
  BY <1>2 DEF SameStack, CellBalance, RowBalance
<1>4. InHand(p) = p.pending.kind /\ InHand(q) = q.active.kind
  BY <1>1, <1>2, NoneIsNothing DEF InHand
<1>5. ASSUME NEW k \in Kinds PROVE KindBalance(q, k) = KindBalance(p, k)
  <2>1. p.locks \in Seq(Lock) /\ q.locks = p.locks
    BY <1>1, <1>2 DEF Simulation, SameStack
  <2> DEFINE d == DrawnOf(p.cursor, k)
             e == KindOf(p.locks, k)
             a == One(k, p.pending.kind)
             h == One(k, p.hold)
  <2>2. d \in Nat /\ e \in Nat /\ a \in Nat /\ h \in Nat
    BY <1>1, <2>1, DrawnOne, LocksSum, OneType
  <2>3. KindBalance(p, k) = d - e - h - a
    BY <1>4 DEF KindBalance
  <2>4. KindBalance(q, k) = DrawnOf(q.cursor, k) - e - One(k, q.hold) - One(k, q.active.kind)
    BY <1>4, <2>1 DEF KindBalance
  <2>5. CASE ~UsesHold(p)
    <3>1. q.hold = p.hold /\ q.cursor = p.cursor /\ q.active.kind = p.pending.kind
      BY <2>5 DEF Generates
    <3> QED BY <2>3, <2>4, <3>1
  <2>6. CASE UsesHold(p) /\ p.hold # None
    <3>1. q.hold = p.pending.kind /\ q.cursor = p.cursor /\ q.active.kind = p.hold
      BY <2>6 DEF Generates
    <3>2. KindBalance(q, k) = d - e - a - h
      BY <2>4, <3>1
    <3> HIDE DEF d, e, a, h
    <3> QED BY <2>2, <2>3, <3>2
  <2>7. CASE UsesHold(p) /\ p.hold = None
    <3>1. /\ q.hold = p.pending.kind /\ q.cursor = p.cursor + 1
          /\ q.active.kind = pieces[p.cursor + 1]
      BY <2>7 DEF Generates
    <3> DEFINE x == One(k, pieces[p.cursor + 1])
    <3>2. DrawnOf(p.cursor + 1, k) = d + x /\ x \in Nat
      BY <1>1, DrawnOne, OneType
    <3>3. h = 0
      BY <2>7, OneNone
    <3>4. KindBalance(q, k) = (d + x) - e - a - x
      BY <2>4, <3>1, <3>2
    <3> HIDE DEF d, e, a, h, x
    <3> QED BY <2>2, <2>3, <3>2, <3>3, <3>4
  <2> QED BY <2>5, <2>6, <2>7
<1> QED BY <1>1, <1>3, <1>5

\* So bringing a piece out keeps the balances, and a buffered hold is the piece's one hold.
LEMMA GeneratesAdvances ==
    ASSUME NEW p, NEW q, Awaits(p), ~p.pending.byHold, Generates(p, q)
    PROVE  Advances(p, q)
<1>1. Same(p, q)
  BY GeneratesSame
<1>2. p.pending # None
  BY NoneIsNothing DEF Awaits
<1>3. q.placed = p.placed /\ p.placed \in Nat
  BY DEF Generates, SameStack, Awaits, Simulation
<1>4. q.hold # p.hold => Spent(q)
  BY DEF Generates, Spent
<1>5. OneHold(p, q)
  BY <1>2, <1>3, <1>4 DEF OneHold, Spent
<1>6. Sound(q)
  BY DEF Generates, Sound
<1> QED BY <1>1, <1>5, <1>6 DEF Advances

(********************************** locks **********************************)

\* A player after his piece is locked and before the next one is asked for.
LockedTo(p, q, l) ==
    /\ q \in Simulation /\ l \in Lock
    /\ q.placed = p.placed + 1 /\ q.hold = p.hold /\ q.cursor = p.cursor
    /\ q.pending = None /\ ~q.ihs
    /\ q.locks = Append(p.locks, l) /\ l.piece = p.active.kind
    /\ Waiting(q.garbage) + l.risen + l.cancelled = Waiting(p.garbage)
    /\ ~q.topped => CellCount(q.board) = CellCount(p.board) + 4 - (Width * l.lines)
                                           + ((Width - 1) * l.risen)

\* The player p after a clear, after a lock without one, and what both change.
AttackedWith(p, b, c, s, n, g, ls, pl, li) ==
    [p EXCEPT !.board = b, !.combo = c, !.streak = s, !.sent = n, !.garbage = g, !.locks = ls,
              !.placed = pl, !.lift = li]
RisenWith(p, b, c, g, t, ls, pl, li) ==
    [p EXCEPT !.board = b, !.combo = c, !.garbage = g, !.topped = t, !.locks = ls,
              !.placed = pl, !.lift = li]

Stacks(p, q, b, g, t, ls, pl) ==
    /\ q \in Simulation
    /\ q.board = b /\ q.garbage = g /\ q.locks = ls /\ q.placed = pl /\ q.topped = t
    /\ q.hold = p.hold /\ q.cursor = p.cursor /\ q.pending = p.pending /\ q.ihs = p.ihs

\* The player after a clear is a player.
LEMMA AttackedWithType ==
    ASSUME NEW p \in Simulation, NEW b \in Board, NEW c \in Int, NEW s \in Nat, NEW n \in Nat,
           NEW g \in Seq(Garbage), NEW ls \in Seq(Lock), NEW pl \in Nat, NEW li \in BOOLEAN
    PROVE  Stacks(p, AttackedWith(p, b, c, s, n, g, ls, pl, li), b, g, p.topped, ls, pl)
BY DEF Simulation, AttackedWith, Stacks

\* So is one whose garbage rises.
LEMMA RisenWithType ==
    ASSUME NEW p \in Simulation, NEW b \in Board, NEW c \in Int, NEW t \in BOOLEAN,
           NEW g \in Seq(Garbage), NEW ls \in Seq(Lock), NEW pl \in Nat, NEW li \in BOOLEAN
    PROVE  Stacks(p, RisenWith(p, b, c, g, t, ls, pl, li), b, g, t, ls, pl)
BY DEF Simulation, RisenWith, Stacks

\* A clear attacks.
LEMMA AttackedLocks ==
    ASSUME NEW p, Playing(p), NEW up \in BOOLEAN
    PROVE  LET locked == LockPiece(p.board, p.active)
               spin == SpinOf(p.board, p.active, p.last)
               q == [Attacked(p, locked, spin, up) EXCEPT !.placed = @ + 1,
                                                          !.lift = locked.lines > 0]
           IN  \E l : LockedTo(p, q, l)
<1> DEFINE locked == LockPiece(p.board, p.active)
           spin == SpinOf(p.board, p.active, p.last)
           clear == [lines |-> locked.lines, spin |-> spin, combo |-> p.combo + 1,
                     allClear |-> locked.perfectClear,
                     clearedGarbage |-> locked.clearedGarbage]
           attacks == Attacks(clear, p.streak, up)
           m == OpenerMultiplier(p.placed, Waiting(p.garbage), p.sent)
           done == CancelAll(p.garbage, attacks, m)
           l == [piece |-> p.active.kind, lines |-> locked.lines, spin |-> spin,
                 cancelled |-> done.cancelled, outgoing |-> done.outgoing, risen |-> 0]
           b == locked.board
           c == p.combo + 1
           s == NextStreak(clear, p.streak)
           n == p.sent + Total(done.outgoing)
           g == done.packets
           ls == Append(p.locks, l)
           pl == p.placed + 1
           li == locked.lines > 0
           q == [Attacked(p, locked, spin, up) EXCEPT !.placed = @ + 1,
                                                      !.lift = locked.lines > 0]
<1>1. /\ p \in Simulation /\ p.board \in Board /\ p.active \in Piece /\ Fits(p.board, p.active)
      /\ p.garbage \in Seq(Garbage) /\ p.combo \in Int /\ p.streak \in Nat /\ p.sent \in Nat
      /\ p.placed \in Nat /\ p.locks \in Seq(Lock) /\ p.pending = None /\ ~p.ihs
  BY DEF Playing, Simulation
<1>2. q = AttackedWith(p, b, c, s, n, g, ls, pl, li)
  BY <1>1 DEF Attacked, AttackedWith, Simulation
<1>3. /\ locked.board \in Board /\ locked.lines \in Nat
      /\ CellCount(locked.board) = CellCount(p.board) + 4 - Width * locked.lines
  BY <1>1, LockPieceCells
<1>4. spin \in {"none", "mini", "full"}
  BY SpinType
<1> HIDE DEF locked, spin
<1>5. attacks \in Seq(Nat \ {0}) /\ m \in {1, 2} /\ s \in Nat
  BY <1>1, AttacksType, MultiplierType, StreakType
<1> HIDE DEF attacks, m, s
<1>6. done \in MetStates(Waiting(p.garbage))
  BY <1>1, <1>5, CancelAllBalances
<1> HIDE DEF done
<1>7. /\ done.packets \in Seq(Garbage) /\ done.cancelled \in Nat
      /\ done.outgoing \in Seq(Nat \ {0})
      /\ Waiting(done.packets) + done.cancelled = Waiting(p.garbage)
  BY <1>6 DEF MetStates
<1>8. n \in Nat
  <2>1. done.outgoing \in Seq(Nat)
    BY <1>7
  <2> QED BY <1>1, <2>1, TotalNat
<1>9. p.active.kind \in Kinds
  BY <1>1 DEF Piece
<1>10. l \in Lock
  BY <1>3, <1>4, <1>7, <1>9 DEF Lock
<1>11. /\ l.piece = p.active.kind /\ l.risen = 0 /\ l.cancelled = done.cancelled
       /\ l.lines = locked.lines
  OBVIOUS
<1> HIDE DEF l
<1>12. ls \in Seq(Lock) /\ pl \in Nat /\ li \in BOOLEAN /\ b \in Board /\ c \in Int
       /\ g \in Seq(Garbage)
  BY <1>1, <1>3, <1>7, <1>10
<1>13. pl = p.placed + 1 /\ ls = Append(p.locks, l) /\ b = locked.board /\ g = done.packets
  OBVIOUS
<1> HIDE DEF b, c, n, g, ls, pl, li, q
<1>14. /\ q \in Simulation
       /\ q.board = b /\ q.garbage = g /\ q.locks = ls /\ q.placed = pl
       /\ q.hold = p.hold /\ q.cursor = p.cursor /\ q.pending = p.pending
       /\ q.ihs = p.ihs /\ q.topped = p.topped
  <2> DEFINE v == AttackedWith(p, b, c, s, n, g, ls, pl, li)
  <2>1. Stacks(p, v, b, g, p.topped, ls, pl)
    BY <1>1, <1>5, <1>8, <1>12, AttackedWithType
  <2> HIDE DEF v
  <2>2. q = v
    BY <1>2 DEF v
  <2> QED BY <2>1, <2>2 DEF Stacks
<1>15. Waiting(q.garbage) + l.risen + l.cancelled = Waiting(p.garbage)
  <2>1. Waiting(g) \in Nat
    BY <1>12, GarbageWaits
  <2> QED BY <1>7, <1>11, <1>13, <1>14, <2>1
<1>16. CellCount(q.board) = CellCount(p.board) + 4 - (Width * l.lines) + ((Width - 1) * l.risen)
  <2>1. CellCount(p.board) \in Nat /\ Width \in Nat
    BY <1>1, BoardType, ColumnsType
  <2>2. (Width - 1) * l.risen = 0
    BY <1>11, <2>1
  <2> DEFINE w == Width * l.lines
  <2>3. w \in Int /\ CellCount(q.board) = CellCount(p.board) + 4 - w
    BY <1>3, <1>11, <1>13, <1>14, <2>1
  <2> HIDE DEF w
  <2> QED BY <2>1, <2>2, <2>3 DEF w
<1>17. LockedTo(p, q, l)
  BY <1>1, <1>10, <1>11, <1>13, <1>14, <1>15, <1>16 DEF LockedTo
<1> QED BY <1>17 DEF q, locked, spin

\* Anything else lets the garbage rise.
LEMMA RisenLocks ==
    ASSUME NEW p, Playing(p), NEW now \in Nat
    PROVE  LET locked == LockPiece(p.board, p.active)
               spin == SpinOf(p.board, p.active, p.last)
               q == [Risen(p, locked, spin, now) EXCEPT !.placed = @ + 1,
                                                          !.lift = locked.lines > 0]
           IN  locked.lines = 0 => \E l : LockedTo(p, q, l)
<1> DEFINE locked == LockPiece(p.board, p.active)
           spin == SpinOf(p.board, p.active, p.last)
           holes == RisingHoles(p.garbage, now)
           k == Len(holes)
           inserted == InsertGarbage(locked.board, holes)
           l == [piece |-> p.active.kind, lines |-> 0, spin |-> spin,
                 cancelled |-> 0, outgoing |-> <<>>, risen |-> k]
           b == inserted.board
           g == Without(p.garbage, k)
           t == inserted.overflowed
           ls == Append(p.locks, l)
           pl == p.placed + 1
           li == locked.lines > 0
           q == [Risen(p, locked, spin, now) EXCEPT !.placed = @ + 1,
                                                      !.lift = locked.lines > 0]
<1> SUFFICES ASSUME locked.lines = 0 PROVE \E x : LockedTo(p, q, x)
  OBVIOUS
<1>1. /\ p \in Simulation /\ p.board \in Board /\ p.active \in Piece /\ Fits(p.board, p.active)
      /\ p.garbage \in Seq(Garbage) /\ p.placed \in Nat /\ p.locks \in Seq(Lock)
      /\ p.pending = None /\ ~p.ihs
  BY DEF Playing, Simulation
<1>2. q = RisenWith(p, b, -1, g, t, ls, pl, li)
  BY <1>1 DEF Risen, RisenWith, Simulation
<1>3. /\ locked.board \in Board /\ locked.lines \in Nat
      /\ CellCount(locked.board) = CellCount(p.board) + 4 - Width * locked.lines
  BY <1>1, LockPieceCells
<1>4. spin \in {"none", "mini", "full"}
  BY SpinType
<1>20. locked.lines = 0
  OBVIOUS
<1> HIDE DEF locked, spin
<1>5. holes \in Seq(Columns) /\ k <= Waiting(p.garbage) /\ k <= GarbageCap
  BY <1>1, RisingHolesType
<1> HIDE DEF holes
<1>6. k \in Nat /\ k <= Height
  BY <1>5, SimulationAssumption, AttackAssumption, SizeAssumption
<1>7. /\ inserted.board \in Board /\ inserted.overflowed \in BOOLEAN
      /\ ~inserted.overflowed =>
            CellCount(inserted.board) = CellCount(locked.board) + (Width - 1) * k
  BY <1>3, <1>5, <1>6, InsertedCells
<1> HIDE DEF inserted
<1>8. g \in Seq(Garbage) /\ Waiting(g) = Most(0, Waiting(p.garbage) - k)
  BY <1>1, <1>6, WithoutLeaves
<1> HIDE DEF k
<1>9. p.active.kind \in Kinds
  BY <1>1 DEF Piece
<1>10. l \in Lock
  <2>1. <<>> \in Seq(Nat \ {0})
    OBVIOUS
  <2> QED BY <1>4, <1>6, <1>9, <2>1 DEF Lock
<1>11. l.piece = p.active.kind /\ l.risen = k /\ l.cancelled = 0 /\ l.lines = 0
  OBVIOUS
<1> HIDE DEF l
<1>12. ls \in Seq(Lock) /\ pl \in Nat /\ li \in BOOLEAN /\ b \in Board /\ t \in BOOLEAN
       /\ -1 \in Int
  BY <1>1, <1>3, <1>7, <1>10
<1>13. pl = p.placed + 1 /\ ls = Append(p.locks, l) /\ b = inserted.board /\ t = inserted.overflowed
  OBVIOUS
<1> HIDE DEF b, g, t, ls, pl, li, q
<1>14. /\ q \in Simulation
       /\ q.board = b /\ q.garbage = g /\ q.locks = ls /\ q.placed = pl
       /\ q.hold = p.hold /\ q.cursor = p.cursor /\ q.pending = p.pending
       /\ q.ihs = p.ihs /\ q.topped = t
  <2> DEFINE z == -1
             v == RisenWith(p, b, z, g, t, ls, pl, li)
  <2>0. z \in Int
    OBVIOUS
  <2>2. q = v
    BY <1>2
  <2> HIDE DEF z
  <2>1. Stacks(p, v, b, g, t, ls, pl)
    BY <1>1, <1>8, <1>12, <2>0, RisenWithType
  <2> HIDE DEF v
  <2> QED BY <2>1, <2>2 DEF Stacks
<1>15. Waiting(q.garbage) + l.risen + l.cancelled = Waiting(p.garbage)
  <2>1. Waiting(p.garbage) \in Nat
    BY <1>1, GarbageWaits
  <2> QED BY <1>5, <1>6, <1>8, <1>11, <1>14, <2>1 DEF Most
<1>16. ~q.topped =>
         CellCount(q.board) = CellCount(p.board) + 4 - (Width * l.lines) + ((Width - 1) * l.risen)
  <2> SUFFICES ASSUME ~q.topped
               PROVE  CellCount(q.board) = CellCount(p.board) + 4 - (Width * l.lines)
                                             + ((Width - 1) * l.risen)
    OBVIOUS
  <2>1. CellCount(p.board) \in Nat /\ CellCount(locked.board) \in Nat /\ Width \in Nat
    BY <1>1, <1>3, BoardType, ColumnsType
  <2>2. Width * l.lines = 0 /\ Width * locked.lines = 0
    BY <1>11, <1>20, <2>1
  <2>3. CellCount(locked.board) = CellCount(p.board) + 4
    BY <1>3, <2>1, <2>2
  <2> DEFINE w == (Width - 1) * l.risen
  <2>4. CellCount(q.board) = CellCount(locked.board) + w /\ w \in Int
    BY <1>6, <1>7, <1>11, <1>13, <1>14, <2>1
  <2> HIDE DEF w
  <2> QED BY <2>1, <2>2, <2>3, <2>4 DEF w
<1>17. LockedTo(p, q, l)
  BY <1>1, <1>10, <1>11, <1>13, <1>14, <1>15, <1>16 DEF LockedTo
<1> QED BY <1>17

\* The player who asks for a piece, having drawn to n and changed his hold.
Asks(q, r, n, hold, pending) ==
    /\ r \in Simulation /\ r.pending = pending /\ r.hold = hold /\ r.cursor = n
    /\ r.topped = q.topped /\ r.ihs = q.ihs
    /\ SameStack(q, r)

\* So is one who asks for a piece.
LEMMA AskingType ==
    ASSUME NEW q \in Simulation, NEW n \in Nat, NEW pending \in Pending, NEW hold \in KindOrNone,
           NEW c \in BOOLEAN
    PROVE  Asks(q, [q EXCEPT !.cursor = n, !.hold = hold, !.canHold = c, !.pending = pending],
                n, hold, pending)
BY DEF Simulation, SameStack, Asks

\* A lock: the piece turns into cells, a line or risen garbage into a row's, and the next
\* piece is drawn unless the player tops out.
LEMMA LockedAdvances ==
    ASSUME NEW p, Playing(p), CanDraw(p, 1), NEW now \in Nat, NEW up \in BOOLEAN
    PROVE  Advances(p, Locked(p, now, up)) /\ ~Locked(p, now, up).ihs
<1> DEFINE locked == LockPiece(p.board, p.active)
           spin == SpinOf(p.board, p.active, p.last)
           a == [Attacked(p, locked, spin, up) EXCEPT !.placed = @ + 1,
                                                      !.lift = locked.lines > 0]
           b == [Risen(p, locked, spin, now) EXCEPT !.placed = @ + 1,
                                                      !.lift = locked.lines > 0]
           q == IF locked.lines > 0 THEN a ELSE b
           r == Locked(p, now, up)
           next == pieces[p.cursor + 1]
<1>1. r = IF q.topped THEN q ELSE Requested(Drawn(q), NextKind(q), FALSE, q.lift)
  <2> DEFINE Q == [(IF locked.lines > 0 THEN Attacked(p, locked, spin, up)
                    ELSE Risen(p, locked, spin, now))
                   EXCEPT !.placed = @ + 1, !.lift = locked.lines > 0]
  <2>2. r = IF Q.topped THEN Q ELSE Requested(Drawn(Q), NextKind(Q), FALSE, Q.lift)
    BY Zenon DEF Locked
  <2>1. q = Q
    <3>1. CASE locked.lines > 0
      BY <3>1
    <3>2. CASE ~(locked.lines > 0)
      BY <3>2
    <3> QED BY <3>1, <3>2
  <2> HIDE DEF q, Q, r
  <2> QED BY <2>1, <2>2
<1>2. \E l : LockedTo(p, q, l)
  <2>1. CASE locked.lines > 0
    <3>1. \E l : LockedTo(p, a, l)
      BY AttackedLocks
    <3> QED BY <2>1, <3>1
  <2>2. CASE ~(locked.lines > 0)
    <3>1. locked.lines \in Nat
      BY LockPieceCells DEF Playing, Simulation
    <3>2. locked.lines = 0
      BY <2>2, <3>1
    <3>3. \E l : LockedTo(p, b, l)
      BY <3>2, RisenLocks
    <3> QED BY <2>2, <3>3
  <2> QED BY <2>1, <2>2
<1> HIDE DEF q, r
<1>3. PICK l : LockedTo(p, q, l)
  BY <1>2
<1>4. p \in Simulation /\ p.placed \in Nat /\ p.locks \in Seq(Lock) /\ p.cursor \in Nat
      /\ p.pending = None /\ ~p.topped /\ p.active.kind \in Kinds /\ p.hold \in KindOrNone
      /\ p.board \in Board /\ p.garbage \in Seq(Garbage)
  BY DEF Playing, Simulation, Piece
<1>5. q \in Simulation /\ q.topped \in BOOLEAN /\ q.lift \in BOOLEAN /\ q.canHold \in BOOLEAN
      /\ q.hold \in KindOrNone /\ q.cursor = p.cursor /\ q.hold = p.hold /\ ~q.ihs
      /\ q.pending = None /\ q.placed = p.placed + 1
  BY <1>3 DEF LockedTo, Simulation
<1>6. CASE q.topped
  <2>1. r = q
    BY <1>1, <1>6
  <2>2. Sound(q) /\ Same(p, q) /\ OneHold(p, q)
    BY <1>4, <1>5, <1>6 DEF Sound, Same, OneHold
  <2> QED BY <1>5, <2>1, <2>2 DEF Advances, r
<1>7. CASE ~q.topped
  <2> DEFINE n == p.cursor + 1
             pending == [kind |-> next, byHold |-> FALSE, lift |-> q.lift]
  <2>1. next \in Kinds /\ n \in Nat
    BY <1>4 DEF CanDraw, Sequence
  <2>2. r = [q EXCEPT !.cursor = n, !.hold = q.hold, !.canHold = q.canHold, !.pending = pending]
    BY <1>1, <1>5, <1>7 DEF Requested, Drawn, NextKind, Simulation
  <2> HIDE DEF next, n
  <2>3. /\ r \in Simulation /\ r.pending \in Pending
        /\ r.pending.kind = next /\ ~r.pending.byHold
        /\ r.hold = q.hold /\ r.cursor = n /\ r.topped = q.topped /\ r.ihs = q.ihs
        /\ SameStack(q, r)
    <3>1. pending \in Pending /\ pending.kind = next /\ ~pending.byHold
      BY <1>5, <2>1 DEF Pending
    <3> HIDE DEF pending
    <3>2. Asks(q, r, n, q.hold, pending)
      BY <1>5, <2>1, <2>2, <3>1, AskingType
    <3> QED BY <3>1, <3>2 DEF Asks
  <2>4. Sound(r)
    BY <1>7, <2>3 DEF Sound, Awaits
  <2>5. OneHold(p, r)
    BY <1>4, <1>5, <2>3 DEF OneHold, SameStack
  <2>6. r.locks = Append(p.locks, l) /\ l \in Lock /\ l.piece = p.active.kind
        /\ r.garbage = q.garbage /\ r.board = q.board /\ r.placed = p.placed + 1
    BY <1>3, <1>5, <2>3 DEF LockedTo, SameStack
  <2>7. CellBalance(r) = CellBalance(p)
    <3> DEFINE L == LinesOf(p.locks)
               R == RisenOf(p.locks)
               C == CellCount(p.board)
               V == Width - 1
    <3>1. LinesOf(r.locks) = L + l.lines /\ RisenOf(r.locks) = R + l.risen
          /\ L \in Nat /\ R \in Nat
      BY <1>4, <2>6, LocksSum
    <3>2. CellCount(r.board) = C + 4 - (Width * l.lines) + (V * l.risen)
      BY <1>3, <1>7, <2>6 DEF LockedTo
    <3>3. l.lines \in Nat /\ l.risen \in Nat /\ C \in Nat /\ Width \in Nat /\ V \in Int
      BY <1>4, <2>6, BoardType, ColumnsType DEF Lock
    <3>4. CellBalance(p) = C - (4 * p.placed) + (Width * L) - (V * R)
      BY DEF CellBalance
    <3>5. CellBalance(r) = CellCount(r.board) - (4 * (p.placed + 1)) + (Width * (L + l.lines))
                             - (V * (R + l.risen))
      BY <2>6, <3>1 DEF CellBalance
    <3> HIDE DEF L, R, C, V
    <3>6. Width * (L + l.lines) = (Width * L) + (Width * l.lines)
          /\ V * (R + l.risen) = (V * R) + (V * l.risen)
      BY <3>1, <3>3
    <3> DEFINE wl == Width * L
               wm == Width * l.lines
               vr == V * R
               vm == V * l.risen
    <3>7. wl \in Int /\ wm \in Int /\ vr \in Int /\ vm \in Int
      BY <3>1, <3>3
    <3>8. CellBalance(r) = (C + 4 - wm + vm) - (4 * (p.placed + 1)) + (wl + wm) - (vr + vm)
      BY <3>2, <3>5, <3>6
    <3>9. CellBalance(p) = C - (4 * p.placed) + wl - vr
      BY <3>4
    <3> HIDE DEF wl, wm, vr, vm
    <3> QED BY <1>4, <3>3, <3>7, <3>8, <3>9
  <2>8. RowBalance(r) = RowBalance(p)
    <3>1. RisenOf(r.locks) = RisenOf(p.locks) + l.risen
          /\ CancelledOf(r.locks) = CancelledOf(p.locks) + l.cancelled
          /\ RisenOf(p.locks) \in Nat /\ CancelledOf(p.locks) \in Nat
      BY <1>4, <2>6, LocksSum
    <3>2. Waiting(r.garbage) + l.risen + l.cancelled = Waiting(p.garbage)
      BY <1>3, <2>6 DEF LockedTo
    <3>3. l.risen \in Nat /\ l.cancelled \in Nat /\ Waiting(r.garbage) \in Nat
      <4>1. r.garbage \in Seq(Garbage)
        BY <2>3 DEF Simulation
      <4> QED BY <2>6, <4>1, GarbageWaits DEF Lock
    <3> QED BY <3>1, <3>2, <3>3 DEF RowBalance
  <2>9. ASSUME NEW k \in Kinds PROVE KindBalance(r, k) = KindBalance(p, k)
    <3> DEFINE d == DrawnOf(p.cursor, k)
               e == KindOf(p.locks, k)
               h == One(k, p.hold)
               x == One(k, p.active.kind)
               y == One(k, next)
    <3>1. d \in Nat /\ e \in Nat /\ h \in Nat /\ x \in Nat /\ y \in Nat
      BY <1>4, DrawnOne, LocksSum, OneType
    <3>2. DrawnOf(r.cursor, k) = d + y
      BY <1>4, <2>3, DrawnOne DEF n, next
    <3>3. KindOf(r.locks, k) = e + x
      BY <1>4, <2>6, LocksSum
    <3>4. InHand(p) = p.active.kind /\ InHand(r) = next
      BY <1>4, <2>3, NoneIsNothing DEF InHand
    <3>5. KindBalance(p, k) = d - e - h - x
      BY <3>4 DEF KindBalance
    <3>6. KindBalance(r, k) = (d + y) - (e + x) - h - y
      BY <1>5, <2>3, <3>2, <3>3, <3>4 DEF KindBalance
    <3> HIDE DEF d, e, h, x, y
    <3> QED BY <3>1, <3>5, <3>6
  <2>10. Same(p, r)
    BY <1>4, <2>7, <2>8, <2>9 DEF Same
  <2> QED BY <1>5, <2>3, <2>4, <2>5, <2>10 DEF Advances, r
<1> QED BY <1>6, <1>7

(**************************** inputs and frames ****************************)

\* Bringing out the piece that is due; only a buffered hold may draw one more for it.
LEMMA FinishedAdvances ==
    ASSUME NEW p, Sound(p), Sequence, UsesHold(p) => CanDraw(p, 1)
    PROVE  LET q == Finished(p)
           IN  /\ Advances(p, q) /\ q.cursor \in {p.cursor, p.cursor + 1}
               /\ q.topped \/ Playing(q)
               /\ p.pending = None => q = p
<1>1. CASE p.pending = None
  <2>1. Finished(p) = p
    BY <1>1 DEF Finished
  <2>2. p.topped \/ Playing(p)
    BY <1>1, NoneIsNothing DEF Sound, Awaits
  <2> QED BY <2>1, <2>2, StayingAdvances
<1>2. CASE p.pending # None
  <2>1. Finished(p) = Generated(p)
    BY <1>2 DEF Finished
  <2>2. Awaits(p) /\ ~p.pending.byHold
    BY <1>2 DEF Sound, Playing
  <2> DEFINE q == Generated(p)
  <2>3. Generates(p, q)
    BY <2>2, GeneratedGenerates
  <2> HIDE DEF q
  <2>4. Advances(p, q)
    BY <2>2, <2>3, GeneratesAdvances
  <2>5. q.cursor \in {p.cursor, p.cursor + 1} /\ (q.topped \/ Playing(q))
    BY <2>3 DEF Generates
  <2> QED BY <1>2, <2>1, <2>4, <2>5 DEF q
<1> QED BY <1>1, <1>2

\* A hold exchanges the piece in play for the one held, or for the next one.
LEMMA HeldAdvances ==
    ASSUME NEW p, Playing(p), CanDraw(p, 1)
    PROVE  Advances(p, Held(p))
<1>1. /\ p \in Simulation /\ p.cursor \in Nat /\ p.pending = None /\ ~p.topped /\ ~p.ihs
      /\ p.hold \in KindOrNone /\ p.active.kind \in Kinds /\ p.lift \in BOOLEAN
      /\ p.locks \in Seq(Lock) /\ p.placed \in Nat /\ p.canHold \in BOOLEAN
  BY DEF Playing, Simulation, Piece
<1>2. CASE ~p.canHold
  <2>1. Held(p) = p /\ Sound(p)
    BY <1>1, <1>2 DEF Held, Sound
  <2> QED BY <2>1, StayingAdvances
<1>3. CASE p.canHold
  <2> DEFINE n == IF p.hold = None THEN p.cursor + 1 ELSE p.cursor
             replacement == IF p.hold = None THEN NextKind(p) ELSE p.hold
             hold == p.active.kind
             pending == [kind |-> replacement, byHold |-> TRUE, lift |-> p.lift]
             m == [p EXCEPT !.cursor = n, !.hold = hold, !.canHold = FALSE, !.pending = pending]
             q == IF p.hold = None THEN Drawn(p) ELSE p
             r == Requested([q EXCEPT !.hold = p.active.kind, !.canHold = FALSE],
                            replacement, TRUE, p.lift)
  <2>1. Held(p) = Finished(r)
    BY <1>3 DEF Held
  <2>2. r = m
    <3>1. CASE p.hold = None
      BY <1>1, <3>1 DEF Requested, Drawn, Simulation
    <3>2. CASE p.hold # None
      BY <1>1, <3>2 DEF Requested, Simulation
    <3> QED BY <3>1, <3>2
  <2>3. NextKind(p) = pieces[p.cursor + 1] /\ pieces[p.cursor + 1] \in Kinds
    BY DEF CanDraw, Sequence, NextKind
  <2>4. replacement \in Kinds /\ n \in Nat /\ hold \in Kinds
    BY <1>1, <2>3 DEF KindOrNone
  <2>5. pending \in Pending /\ pending.kind = replacement /\ pending.byHold
    BY <1>1, <2>4 DEF Pending
  <2>6. /\ p.hold = None => n = p.cursor + 1 /\ replacement = pieces[p.cursor + 1]
        /\ p.hold # None => n = p.cursor /\ replacement = p.hold
    BY <2>3
  <2>7. hold = p.active.kind /\ FALSE \in BOOLEAN
    OBVIOUS
  <2> HIDE DEF r, n, replacement, hold, pending
  <2>8. Asks(p, m, n, hold, pending) /\ ~m.canHold
    <3>1. hold \in KindOrNone
      BY <2>4 DEF KindOrNone
    <3>2. Asks(p, m, n, hold, pending)
      BY <1>1, <2>4, <2>5, <2>7, <3>1, AskingType
    <3>3. ~m.canHold
      BY <1>1 DEF Simulation
    <3> QED BY <3>2, <3>3
  <2> HIDE DEF m
  <2>9. /\ m \in Simulation /\ m.pending = pending /\ m.hold = hold /\ m.cursor = n
        /\ ~m.topped /\ ~m.ihs /\ SameStack(p, m)
    BY <1>1, <2>8 DEF Asks
  <2>10. Awaits(m) /\ ~UsesHold(m) /\ Sequence /\ m.pending # None
    BY <2>5, <2>9, NoneIsNothing DEF Awaits, UsesHold, CanDraw
  <2> DEFINE g == Generated(m)
  <2>11. Generates(m, g)
    BY <2>10, GeneratedGenerates
  <2>12. Held(p) = g
    BY <2>1, <2>2, <2>10 DEF Finished
  <2> HIDE DEF g
  <2>13. Same(m, g)
    BY <2>10, <2>11, GeneratesSame
  <2>14. ASSUME NEW k \in Kinds PROVE KindBalance(m, k) = KindBalance(p, k)
    <3> DEFINE d == DrawnOf(p.cursor, k)
               e == KindOf(p.locks, k)
               h == One(k, p.hold)
               x == One(k, p.active.kind)
               y == One(k, replacement)
    <3>1. d \in Nat /\ e \in Nat /\ h \in Nat /\ x \in Nat /\ y \in Nat
      BY <1>1, DrawnOne, LocksSum, OneType
    <3>2. InHand(p) = p.active.kind /\ InHand(m) = replacement
      BY <1>1, <2>5, <2>9, <2>10 DEF InHand
    <3>3. m.locks = p.locks
      BY <2>9 DEF SameStack
    <3>4. KindBalance(p, k) = d - e - h - x
      BY <3>2 DEF KindBalance
    <3>5. KindBalance(m, k) = DrawnOf(n, k) - e - x - y
      BY <2>7, <2>9, <3>2, <3>3 DEF KindBalance
    <3>6. CASE p.hold = None
      <4>1. DrawnOf(n, k) = d + y /\ h = 0
        BY <1>1, <2>6, <3>6, DrawnOne, OneNone
      <4> HIDE DEF d, e, h, x, y
      <4> QED BY <3>1, <3>4, <3>5, <4>1
    <3>7. CASE p.hold # None
      <4>1. DrawnOf(n, k) = d /\ y = h
        BY <2>6, <3>7
      <4> HIDE DEF d, e, h, x, y
      <4> QED BY <3>1, <3>4, <3>5, <4>1
    <3> QED BY <3>6, <3>7
  <2>15. CellBalance(m) = CellBalance(p) /\ RowBalance(m) = RowBalance(p)
    BY <2>9 DEF SameStack, CellBalance, RowBalance
  <2>16. Same(p, g)
    <3> SUFFICES ASSUME ~g.topped
                 PROVE  /\ ~p.topped /\ CellBalance(g) = CellBalance(p)
                        /\ RowBalance(g) = RowBalance(p)
                        /\ \A k \in Kinds : KindBalance(g, k) = KindBalance(p, k)
      BY DEF Same
    <3>1. /\ CellBalance(g) = CellBalance(m) /\ RowBalance(g) = RowBalance(m)
          /\ \A k \in Kinds : KindBalance(g, k) = KindBalance(m, k)
      BY <2>13 DEF Same
    <3> QED BY <1>1, <2>14, <2>15, <3>1
  <2>17. g.pending = None /\ ~g.canHold /\ g.placed = p.placed
    BY <2>5, <2>9, <2>10, <2>11 DEF Generates, SameStack
  <2>18. OneHold(p, g)
    BY <1>1, <1>3, <2>17 DEF OneHold, Spent
  <2>19. Sound(g)
    BY <2>11 DEF Generates, Sound
  <2> QED BY <2>12, <2>16, <2>18, <2>19 DEF Advances
<1> QED BY <1>2, <1>3

\* Keys that are let go move nothing.
LEMMA HeldClearedMoves ==
    ASSUME NEW p, Playing(p)
    PROVE  Moved(p, HeldCleared(p))
<1> DEFINE keys == {}
           q == [p EXCEPT !.held = keys]
<1>1. keys \in KeySet
  BY DEF KeySet
<1>2. HeldCleared(p) = [q EXCEPT !.side = None, !.sideFrames = 0]
  BY DEF HeldCleared
<1> HIDE DEF keys
<1>3. Moved(p, q)
  BY <1>1, KeysMove
<1> HIDE DEF q
<1>4. Playing(q) /\ None \in Sides \cup {None} /\ 0 \in Nat
  BY <1>3 DEF Moved
<1>5. Moved(q, [q EXCEPT !.side = None, !.sideFrames = 0])
  BY <1>4, SideMoves
<1> QED BY <1>2, <1>3, <1>5, MovedFurther

\* Keys that are let go change nothing else, also of a player who is not playing.
LEMMA HeldClearedAdvances ==
    ASSUME NEW p, Sound(p)
    PROVE  /\ Advances(p, HeldCleared(p)) /\ HeldCleared(p).locks = p.locks
           /\ HeldCleared(p).hold = p.hold /\ HeldCleared(p).placed = p.placed
<1> DEFINE q == HeldCleared(p)
<1>1. p \in Simulation /\ p.placed \in Nat
  BY DEF Sound, Simulation
<1>2. q \in Simulation
  BY <1>1 DEF HeldCleared, Simulation
<1>3. /\ q.board = p.board /\ q.garbage = p.garbage /\ q.placed = p.placed /\ q.locks = p.locks
      /\ q.hold = p.hold /\ q.cursor = p.cursor /\ q.pending = p.pending /\ q.topped = p.topped
      /\ q.active = p.active /\ q.canHold = p.canHold /\ q.ihs = p.ihs
  BY <1>1 DEF HeldCleared, Simulation
<1> HIDE DEF q
<1>4. Same(p, q)
  <2>1. InHand(q) = InHand(p)
    BY <1>3 DEF InHand
  <2> QED BY <1>3, <2>1 DEF Same, CellBalance, RowBalance, KindBalance
<1>5. OneHold(p, q)
  BY <1>1, <1>3 DEF OneHold, Spent
<1>6. Sound(q)
  BY <1>2, <1>3 DEF Sound, Playing, Awaits
<1> QED BY <1>3, <1>4, <1>5, <1>6 DEF Advances, q

\* What a buffered hold or turn changes is only seen when the piece appears.
LEMMA BufferedAdvances ==
    ASSUME NEW p, Sound(p), p.pending # None
    PROVE  /\ Advances(p, [p EXCEPT !.ihs = TRUE])
           /\ \A t \in Turns : Advances(p, [p EXCEPT !.irs = t])
<1>1. Awaits(p) /\ ~p.pending.byHold /\ p \in Simulation /\ p.placed \in Nat
  BY DEF Sound, Playing, Simulation
<1>2. ASSUME NEW q \in Simulation,
             q.board = p.board /\ q.garbage = p.garbage /\ q.placed = p.placed
             /\ q.locks = p.locks /\ q.hold = p.hold /\ q.cursor = p.cursor
             /\ q.pending = p.pending /\ q.topped = p.topped /\ q.active = p.active
             /\ q.canHold = p.canHold
      PROVE  Advances(p, q)
  <2>1. InHand(q) = InHand(p)
    BY <1>2 DEF InHand
  <2>2. Same(p, q)
    BY <1>2, <2>1 DEF Same, CellBalance, RowBalance, KindBalance
  <2>3. OneHold(p, q)
    BY <1>1, <1>2 DEF OneHold, Spent
  <2>4. Sound(q)
    BY <1>1, <1>2 DEF Sound, Awaits
  <2> QED BY <2>2, <2>3, <2>4 DEF Advances
<1>3. Advances(p, [p EXCEPT !.ihs = TRUE])
  <2> DEFINE q == [p EXCEPT !.ihs = TRUE]
  <2>1. q \in Simulation
    BY <1>1 DEF Simulation
  <2>2. /\ q.board = p.board /\ q.garbage = p.garbage /\ q.placed = p.placed
        /\ q.locks = p.locks /\ q.hold = p.hold /\ q.cursor = p.cursor
        /\ q.pending = p.pending /\ q.topped = p.topped /\ q.active = p.active
        /\ q.canHold = p.canHold
    BY <1>1 DEF Simulation
  <2> HIDE DEF q
  <2>3. Advances(p, q)
    BY <1>2, <2>1, <2>2
  <2> QED BY <2>3 DEF q
<1>4. ASSUME NEW t \in Turns PROVE Advances(p, [p EXCEPT !.irs = t])
  <2> DEFINE q == [p EXCEPT !.irs = t]
  <2>1. q \in Simulation
    BY <1>1 DEF Simulation
  <2>2. /\ q.board = p.board /\ q.garbage = p.garbage /\ q.placed = p.placed
        /\ q.locks = p.locks /\ q.hold = p.hold /\ q.cursor = p.cursor
        /\ q.pending = p.pending /\ q.topped = p.topped /\ q.active = p.active
        /\ q.canHold = p.canHold
    BY <1>1 DEF Simulation
  <2> HIDE DEF q
  <2>3. Advances(p, q)
    BY <1>2, <2>1, <2>2
  <2> QED BY <2>3 DEF q
<1> QED BY <1>3, <1>4

\* Nor does the key of the soft drop.
LEMMA SoftDropMoves ==
    ASSUME NEW p, Playing(p)
    PROVE  /\ Moved(p, [p EXCEPT !.held = @ \cup {"down"}])
           /\ Moved(p, [p EXCEPT !.held = @ \ {"down"}])
<1>1. p.held \cup {"down"} \in KeySet /\ p.held \ {"down"} \in KeySet
  BY DEF Playing, Simulation, KeySet
<1> DEFINE a == p.held \cup {"down"}
           b == p.held \ {"down"}
<1>2. a \in KeySet /\ b \in KeySet
  BY <1>1
<1> HIDE DEF a, b
<1>3. Moved(p, [p EXCEPT !.held = a]) /\ Moved(p, [p EXCEPT !.held = b])
  BY <1>2, KeysMove
<1> QED BY <1>3 DEF a, b

\* Every input of a player whose piece is on the board.
LEMMA AppliedAdvances ==
    ASSUME NEW p, Playing(p), CanDraw(p, 1), NEW action \in SimulationInputAction,
           NEW now \in Nat, NEW up \in BOOLEAN
    PROVE  Advances(p, Applied(p, action, now, up))
<1> DEFINE r == Applied(p, action, now, up)
<1>1. CASE action \in [kind : {"move"}, side : Sides, pressed : BOOLEAN]
  <2>1. action.kind = "move" /\ action.side \in Sides /\ action.pressed \in BOOLEAN
    BY <1>1
  <2>2. Moved(p, SidePressed(p, action.side)) /\ Moved(p, SideReleased(p, action.side))
    BY <2>1, SidePressedMoves, SideReleasedMoves
  <2>3. r = IF action.pressed THEN SidePressed(p, action.side) ELSE SideReleased(p, action.side)
    BY <2>1 DEF Applied
  <2>4. Moved(p, r)
    BY <2>2, <2>3
  <2> QED BY <2>4, MovedAdvances
<1>2. CASE action \in [kind : {"moveStep", "moveToWall"}, side : Sides]
  <2>1. action.kind \in {"moveStep", "moveToWall"} /\ action.side \in Sides
    BY <1>2
  <2>2. Moved(p, Shifted(p, action.side)) /\ Moved(p, ShiftedToWall(p, action.side))
    BY <2>1, ShiftedMoves, ShiftedToWallMoves
  <2>3. r \in {Shifted(p, action.side), ShiftedToWall(p, action.side)}
    BY <2>1 DEF Applied
  <2>4. Moved(p, r)
    BY <2>2, <2>3
  <2> QED BY <2>4, MovedAdvances
<1>3. CASE action \in [kind : {"softDrop"}, pressed : BOOLEAN]
  <2>1. action.kind = "softDrop" /\ action.pressed \in BOOLEAN
    BY <1>3
  <2>2. r = [p EXCEPT !.held = IF action.pressed THEN @ \cup {"down"} ELSE @ \ {"down"}]
    BY <2>1 DEF Applied
  <2>3. Moved(p, r)
    <3>1. CASE action.pressed
      BY <2>2, <3>1, SoftDropMoves
    <3>2. CASE ~action.pressed
      BY <2>2, <3>2, SoftDropMoves
    <3> QED BY <3>1, <3>2
  <2> QED BY <2>3, MovedAdvances
<1>4. CASE action \in [kind : {"softDropStep"}, cells : Nat]
  <2>1. action.kind = "softDropStep" /\ action.cells \in Nat
    BY <1>4
  <2>2. r = LoweredBy(p, action.cells)
    BY <2>1 DEF Applied
  <2>3. Moved(p, r)
    BY <2>1, <2>2, LoweredByMoves
  <2> QED BY <2>3, MovedAdvances
<1>5. CASE action \in [kind : {"rotate"}, turn : Turns]
  <2>1. action.kind = "rotate" /\ action.turn \in Turns
    BY <1>5
  <2>2. r = Turned(p, action.turn)
    BY <2>1 DEF Applied
  <2>3. Moved(p, r)
    BY <2>1, <2>2, TurnedMoves
  <2> QED BY <2>3, MovedAdvances
<1>6. CASE action \in [kind : {"sonicDrop", "clearHeld", "hardDrop", "hold"}]
  <2>1. action.kind \in {"sonicDrop", "clearHeld", "hardDrop", "hold"}
    BY <1>6
  <2>2. CASE action.kind = "sonicDrop"
    <3>1. r = Dropped(p)
      BY <2>2 DEF Applied
    <3> QED BY <3>1, DroppedMoves, MovedAdvances
  <2>3. CASE action.kind = "clearHeld"
    <3>1. r = HeldCleared(p)
      BY <2>3 DEF Applied
    <3> QED BY <3>1, HeldClearedMoves, MovedAdvances
  <2>4. CASE action.kind = "hold"
    <3>1. r = Held(p)
      BY <2>4 DEF Applied
    <3> QED BY <3>1, HeldAdvances
  <2>5. CASE action.kind = "hardDrop"
    <3> DEFINE d == Dropped(p)
    <3>1. r = Locked(d, now, up)
      BY <2>5 DEF Applied
    <3>2. Moved(p, d)
      BY DroppedMoves
    <3> HIDE DEF d
    <3>3. Playing(d) /\ CanDraw(d, 1)
      BY <3>2 DEF Moved, CanDraw
    <3>4. Advances(d, Locked(d, now, up)) /\ Advances(p, d) /\ Sound(p)
      BY <3>2, <3>3, LockedAdvances, MovedAdvances
    <3>5. Advances(p, Locked(d, now, up))
      BY <3>4, AdvancesFurther
    <3> QED BY <3>1, <3>5
  <2> QED BY <2>1, <2>2, <2>3, <2>4, <2>5
<1> QED BY <1>1, <1>2, <1>3, <1>4, <1>5, <1>6 DEF SimulationInputAction

\* Every input of a frame.
LEMMA ActedAdvances ==
    ASSUME NEW p, Sound(p), CanDraw(p, 2), NEW action \in SimulationInputAction,
           NEW now \in Nat, NEW up \in BOOLEAN
    PROVE  Advances(p, Acted(p, action, now, up))
<1> DEFINE q == Finished(p)
           r == Acted(p, action, now, up)
<1>1. p.cursor \in Nat /\ Sequence /\ CanDraw(p, 1)
  BY DEF Sound, Simulation, CanDraw
<1>2. /\ Advances(p, q) /\ q.cursor \in {p.cursor, p.cursor + 1}
      /\ q.topped \/ Playing(q)
  BY <1>1, FinishedAdvances
<1>3. r = CASE p.pending # None /\ action.kind = "hold" -> [p EXCEPT !.ihs = TRUE]
            [] p.pending # None /\ action.kind = "rotate" -> [p EXCEPT !.irs = action.turn]
            [] p.pending = None \/ action.kind \notin {"hold", "rotate"} ->
                 IF q.topped /\ action.kind # "clearHeld" THEN q
                 ELSE Applied(q, action, now, up)
  BY DEF Acted
<1> HIDE DEF q, r
<1>4. CASE p.pending # None /\ action.kind = "hold"
  <2>1. r = [p EXCEPT !.ihs = TRUE]
    BY <1>3, <1>4
  <2> QED BY <1>4, <2>1, BufferedAdvances DEF r
<1>5. CASE p.pending # None /\ action.kind = "rotate"
  <2>1. r = [p EXCEPT !.irs = action.turn]
    BY <1>3, <1>5
  <2>2. action.turn \in Turns
    BY <1>5 DEF SimulationInputAction
  <2> QED BY <1>5, <2>1, <2>2, BufferedAdvances DEF r
<1>6. CASE p.pending = None \/ action.kind \notin {"hold", "rotate"}
  <2>1. r = IF q.topped /\ action.kind # "clearHeld" THEN q ELSE Applied(q, action, now, up)
    BY <1>3, <1>6
  <2>2. CASE q.topped /\ action.kind # "clearHeld"
    BY <1>2, <2>1, <2>2 DEF r
  <2>3. CASE q.topped /\ action.kind = "clearHeld"
    <3>1. r = HeldCleared(q)
      BY <2>1, <2>3 DEF Applied
    <3>2. Advances(q, HeldCleared(q))
      BY <1>2, HeldClearedAdvances DEF Advances
    <3>3. Advances(p, HeldCleared(q))
      BY <1>2, <3>2, AdvancesFurther
    <3> QED BY <3>1, <3>3 DEF r
  <2>4. CASE ~q.topped
    <3>1. Playing(q)
      BY <1>2, <2>4
    <3>2. CanDraw(q, 1)
      <4>1. q.cursor + 1 \in {p.cursor + 1, p.cursor + 2}
        BY <1>1, <1>2
      <4> QED BY <4>1 DEF CanDraw
    <3>3. Advances(q, Applied(q, action, now, up))
      BY <3>1, <3>2, AppliedAdvances
    <3>4. Advances(p, Applied(q, action, now, up))
      BY <1>2, <3>3, AdvancesFurther
    <3> QED BY <2>1, <2>4, <3>4 DEF r
  <2> QED BY <2>2, <2>3, <2>4
<1> QED BY <1>4, <1>5, <1>6

\* The lock delay: a piece that has lain long enough locks.
LEMMA SettlesAdvances ==
    ASSUME NEW p, Playing(p), CanDraw(p, 1), NEW now \in Nat, NEW up \in BOOLEAN
    PROVE  Advances(p, Settles(p, now, up)) /\ ~Settles(p, now, up).ihs
<1> DEFINE n == p.lockFrames + 1
           a == [p EXCEPT !.lockFrames = 0]
           c == [p EXCEPT !.lockFrames = n]
           r == Settles(p, now, up)
<1>1. n \in Nat /\ LockDelay \in Nat
  BY SimulationAssumption DEF Playing, Simulation
<1>2. r = CASE ~Grounded(p) -> a
            [] Grounded(p) /\ n < LockDelay -> c
            [] Grounded(p) /\ n >= LockDelay -> Locked(c, now, up)
  BY DEF Settles
<1> HIDE DEF n
<1>3. Moved(p, a) /\ Moved(p, c)
  <2>1. 0 \in Nat
    OBVIOUS
  <2> QED BY <1>1, <2>1, CounterMoves
<1> HIDE DEF a, c, r
<1>4. Playing(a) /\ Playing(c) /\ CanDraw(c, 1)
  BY <1>3 DEF Moved, CanDraw
<1>5. Advances(p, a) /\ Advances(p, c) /\ Sound(p) /\ ~a.ihs /\ ~c.ihs
  BY <1>3, <1>4, MovedAdvances DEF Playing
<1>6. Advances(c, Locked(c, now, up)) /\ ~Locked(c, now, up).ihs
  BY <1>4, LockedAdvances
<1>7. Advances(p, Locked(c, now, up))
  BY <1>5, <1>6, AdvancesFurther
<1>8. n < LockDelay \/ n >= LockDelay
  BY <1>1
<1>9. CASE ~Grounded(p)
  <2>1. r = a
    BY <1>2, <1>9
  <2> QED BY <1>5, <2>1 DEF r
<1>10. CASE Grounded(p) /\ n < LockDelay
  <2>1. r = c
    BY <1>1, <1>2, <1>10
  <2> QED BY <1>5, <2>1 DEF r
<1>11. CASE Grounded(p) /\ n >= LockDelay
  <2>1. r = Locked(c, now, up)
    BY <1>1, <1>2, <1>11
  <2> QED BY <1>6, <1>7, <2>1 DEF r
<1> QED BY <1>8, <1>9, <1>10, <1>11

\* The end of a frame.
LEMMA FrameEndedAdvances ==
    ASSUME NEW p, Sound(p), CanDraw(p, 2), NEW now \in Nat, NEW up \in BOOLEAN
    PROVE  Advances(p, FrameEnded(p, now, up))
<1> DEFINE q == Finished(p)
           m == Falls(Repeats(q))
           s == Settles(m, now, up)
<1>1. p.cursor \in Nat /\ Sequence /\ CanDraw(p, 1)
  BY DEF Sound, Simulation, CanDraw
<1>2. /\ Advances(p, q) /\ q.cursor \in {p.cursor, p.cursor + 1}
      /\ q.topped \/ Playing(q)
  BY <1>1, FinishedAdvances
<1>3. FrameEnded(p, now, up) = IF p.topped \/ q.topped THEN q ELSE Finished(s)
  BY DEF FrameEnded
<1> HIDE DEF q
<1>4. CASE p.topped \/ q.topped
  BY <1>2, <1>3, <1>4
<1>5. CASE ~(p.topped \/ q.topped)
  <2>1. Playing(q)
    BY <1>2, <1>5
  <2>2. Moved(q, Repeats(q))
    BY <2>1, RepeatsMoves
  <2>3. Moved(Repeats(q), m)
    BY <2>2, FallsMoves DEF Moved
  <2>4. Moved(q, m)
    BY <2>2, <2>3, MovedFurther
  <2> HIDE DEF m
  <2>5. Advances(q, m) /\ Sound(q)
    BY <2>1, <2>4, MovedAdvances
  <2>6. Playing(m) /\ CanDraw(m, 1)
    <3>1. q.cursor + 1 \in {p.cursor + 1, p.cursor + 2} /\ m.cursor = q.cursor
      BY <1>1, <1>2, <2>4 DEF Moved
    <3> QED BY <2>4, <3>1 DEF CanDraw, Moved
  <2>7. Advances(m, s) /\ ~s.ihs
    BY <2>6, SettlesAdvances
  <2> HIDE DEF s
  <2>8. Sound(s) /\ ~UsesHold(s)
    BY <2>7 DEF Advances, UsesHold
  <2>9. Advances(s, Finished(s))
    BY <1>1, <2>8, FinishedAdvances
  <2>10. Advances(p, m)
    BY <1>2, <2>5, AdvancesFurther
  <2>11. Advances(p, s)
    BY <2>7, <2>10, AdvancesFurther
  <2>12. Advances(p, Finished(s))
    BY <2>9, <2>11, AdvancesFurther
  <2> QED BY <1>3, <1>5, <2>12
<1> QED BY <1>4, <1>5

(************************** the record of a match **************************)

\* What is recorded of a player, and that it agrees with what he has.
Tally ==
    [start : Nat, lines : Nat, risen : Nat, cancelled : Nat, queued : Nat, made : Nat,
     kinds : [Kinds -> Nat]]

Balanced(p, t) ==
    ~p.topped =>
      /\ CellBalance(p) = t.start - (Width * t.lines) + ((Width - 1) * t.risen)
      /\ RowBalance(p) = t.queued - t.risen - t.cancelled
      /\ \A k \in Kinds : KindBalance(p, k) = t.kinds[k]

\* A step that leaves the balances alone leaves them in agreement.
LEMMA AdvancesBalanced ==
    ASSUME NEW p, NEW q, NEW t, Balanced(p, t), Advances(p, q)
    PROVE  Balanced(q, t)
<1> SUFFICES ASSUME ~q.topped
             PROVE  /\ CellBalance(q) = t.start - (Width * t.lines) + ((Width - 1) * t.risen)
                    /\ RowBalance(q) = t.queued - t.risen - t.cancelled
                    /\ \A k \in Kinds : KindBalance(q, k) = t.kinds[k]
  BY DEF Balanced
<1>1. /\ ~p.topped /\ CellBalance(q) = CellBalance(p) /\ RowBalance(q) = RowBalance(p)
      /\ \A k \in Kinds : KindBalance(q, k) = KindBalance(p, k)
  BY DEF Advances, Same
<1> QED BY <1>1 DEF Balanced

\* The record a player starts with.
Opening(board) ==
    [start |-> CellCount(board), lines |-> 0, risen |-> 0, cancelled |-> 0, queued |-> 0,
     made |-> 0, kinds |-> [k \in Kinds |-> 0]]

\* The player of the constructor, before and after his first piece is asked for.
Blank(board) ==
    [board |-> board, active |-> None, hold |-> None, canHold |-> TRUE, combo |-> -1,
     streak |-> 0, placed |-> 0, sent |-> 0, garbage |-> <<>>, held |-> {},
     side |-> None, sideFrames |-> 0, fallen |-> 0, lockFrames |-> 0,
     lockResets |-> 0, last |-> NoTurn, topped |-> FALSE, lift |-> FALSE,
     pending |-> None, ihs |-> FALSE, irs |-> None, cursor |-> 0, locks |-> <<>>]
First(board) == Requested(Drawn(Blank(board)), NextKind(Blank(board)), FALSE, FALSE)

\* The player of the constructor is a player.
LEMMA BlankType ==
    ASSUME NEW board \in Board
    PROVE  Blank(board) \in Simulation
<1>1. NoTurn \in LastTurn
  BY DEF NoTurn, LastTurn
<1>2. <<>> \in Seq(Garbage) /\ <<>> \in Seq(Lock)
  OBVIOUS
<1> QED BY <1>1, <1>2 DEF Simulation, KindOrNone, Blank

\* So is he once he has drawn and a piece is due.
LEMMA AskedType ==
    ASSUME NEW b \in Simulation, NEW n \in Nat, NEW d \in Pending
    PROVE  Asks(b, [[b EXCEPT !.cursor = n] EXCEPT !.pending = d], n, b.hold, d)
<1> DEFINE c == [b EXCEPT !.cursor = n]
<1>1. /\ c \in Simulation /\ c.hold = b.hold /\ c.cursor = n /\ c.topped = b.topped
      /\ c.ihs = b.ihs /\ SameStack(b, c)
  BY DEF Simulation, SameStack
<1> HIDE DEF c
<1> DEFINE e == [c EXCEPT !.pending = d]
<1>2. /\ e \in Simulation /\ e.pending = d /\ e.hold = c.hold /\ e.cursor = c.cursor
      /\ e.topped = c.topped /\ e.ihs = c.ihs /\ SameStack(c, e)
  BY <1>1 DEF Simulation, SameStack
<1> QED BY <1>1, <1>2 DEF Asks, SameStack, c

\* His first piece is the first of the sequence.
LEMMA FirstType ==
    ASSUME NEW board \in Board, pieces[1] \in Kinds
    PROVE  Asks(Blank(board), First(board), 1, None,
                [kind |-> pieces[1], byHold |-> FALSE, lift |-> FALSE])
<1> DEFINE b == Blank(board)
           d == [kind |-> pieces[1], byHold |-> FALSE, lift |-> FALSE]
<1>1. d \in Pending
  BY DEF Pending
<1>2. b \in Simulation
  BY BlankType
<1>3. b.cursor = 0 /\ b.hold = None
  BY DEF Blank
<1> HIDE DEF b, d
<1>4. NextKind(b) = pieces[1]
  BY <1>3 DEF NextKind
<1>5. Drawn(b) = [b EXCEPT !.cursor = 1]
  BY <1>3 DEF Drawn
<1>6. First(board) = [[b EXCEPT !.cursor = 1] EXCEPT !.pending = d]
  BY <1>4, <1>5, Zenon DEF First, Requested, b, d
<1>7. Asks(b, First(board), 1, b.hold, d)
  <2>1. 1 \in Nat
    OBVIOUS
  <2>2. Asks(b, [[b EXCEPT !.cursor = 1] EXCEPT !.pending = d], 1, b.hold, d)
    BY <1>1, <1>2, <2>1, AskedType
  <2> QED BY <1>6, <2>2
<1> QED BY <1>3, <1>7 DEF b, d

\* Before the first piece a player has his board, and a piece is due to him.
LEMMA FirstBalances ==
    ASSUME NEW board \in Board, 1 \in DOMAIN pieces, Sequence
    PROVE  /\ Awaits(First(board)) /\ ~First(board).pending.byHold /\ ~UsesHold(First(board))
           /\ Balanced(First(board), Opening(board)) /\ First(board).locks = <<>>
           /\ Opening(board) \in Tally
<1> DEFINE p == First(board)
<1>1. pieces[1] \in Kinds
  BY DEF Sequence
<1>2. /\ p \in Simulation /\ p.board = board /\ p.placed = 0 /\ p.locks = <<>>
      /\ p.garbage = <<>> /\ p.cursor = 1 /\ p.hold = None /\ ~p.topped /\ ~p.ihs
      /\ p.pending = [kind |-> pieces[1], byHold |-> FALSE, lift |-> FALSE]
  <2> DEFINE b == Blank(board)
  <2>1. /\ b.board = board /\ b.placed = 0 /\ b.locks = <<>> /\ b.garbage = <<>>
        /\ ~b.topped /\ ~b.ihs
    BY DEF Blank
  <2> HIDE DEF b
  <2>2. Asks(b, p, 1, None, [kind |-> pieces[1], byHold |-> FALSE, lift |-> FALSE])
    BY <1>1, FirstType DEF b
  <2> QED BY <2>1, <2>2 DEF Asks, SameStack
<1>4. p.pending \in Pending /\ p.pending.kind = pieces[1] /\ ~p.pending.byHold
  BY <1>1, <1>2 DEF Pending
<1> HIDE DEF p
<1>5. CellCount(board) \in Nat /\ Width \in Nat
  BY BoardType, ColumnsType
<1>6. CellBalance(p) = CellCount(board)
  <2>1. LinesOf(p.locks) = 0 /\ RisenOf(p.locks) = 0
    BY <1>2, LocksEmpty
  <2>2. Width * 0 = 0 /\ (Width - 1) * 0 = 0
    BY <1>5
  <2> QED BY <1>2, <1>5, <2>1, <2>2 DEF CellBalance
<1>7. RowBalance(p) = 0
  BY <1>2, LocksEmpty, WaitingEmpty DEF RowBalance
<1>8. ASSUME NEW k \in Kinds PROVE KindBalance(p, k) = 0
  <2> DEFINE x == One(k, pieces[1])
  <2>1. x \in Nat
    BY OneType
  <2>2. DrawnOf(0, k) = 0
    <3>1. {i \in 1 .. 0 : pieces[i] = k} = {}
      OBVIOUS
    <3> QED BY <3>1, FS_EmptySet DEF DrawnOf
  <2>3. DrawnOf(0 + 1, k) = DrawnOf(0, k) + One(k, pieces[0 + 1])
    <3>1. 0 \in Nat
      OBVIOUS
    <3> QED BY <3>1, DrawnOne
  <2>4. DrawnOf(1, k) = x
    <3>1. 0 + 1 = 1
      OBVIOUS
    <3> HIDE DEF x
    <3>2. DrawnOf(1, k) = 0 + x
      BY <2>2, <2>3, <3>1 DEF x
    <3> QED BY <2>1, <3>2
  <2>5. InHand(p) = pieces[1]
    BY <1>4, NoneIsNothing DEF InHand
  <2>6. One(k, None) = 0 /\ KindOf(<<>>, k) = 0
    BY OneNone, LocksEmpty
  <2>7. KindBalance(p, k) = x - 0 - 0 - x
    BY <1>2, <2>4, <2>5, <2>6 DEF KindBalance
  <2> HIDE DEF x
  <2> QED BY <2>1, <2>7
<1> DEFINE t == Opening(board)
<1>9. /\ t.start = CellCount(board) /\ t.lines = 0 /\ t.risen = 0 /\ t.cancelled = 0
      /\ t.queued = 0 /\ \A k \in Kinds : t.kinds[k] = 0
  BY DEF Opening
<1>10. t \in Tally
  BY <1>5 DEF Opening, Tally
<1> HIDE DEF t
<1>11. Balanced(p, t)
  <2>1. t.start - (Width * t.lines) + ((Width - 1) * t.risen) = CellCount(board)
    BY <1>5, <1>9
  <2>2. t.queued - t.risen - t.cancelled = 0
    BY <1>9
  <2> QED BY <1>6, <1>7, <1>8, <1>9, <2>1, <2>2 DEF Balanced
<1> QED BY <1>2, <1>2, <1>4, <1>10, <1>11 DEF Awaits, UsesHold, p, t

\* A player who is created has his first piece, or no room for it, and agrees with his record.
LEMMA CreatedBalanced ==
    ASSUME NEW board \in Board, 1 \in DOMAIN pieces, Sequence
    PROVE  /\ Sound(Created(board)) /\ Balanced(Created(board), Opening(board))
           /\ Created(board).locks = <<>> /\ Opening(board) \in Tally
<1> DEFINE p == First(board)
           q == Generated(p)
<1>1. /\ Awaits(p) /\ ~p.pending.byHold /\ ~UsesHold(p) /\ Balanced(p, Opening(board))
      /\ p.locks = <<>> /\ Opening(board) \in Tally
  BY FirstBalances
<1>2. Created(board) = Finished(p)
  BY DEF Created, First, Blank
<1>3. p.pending # None
  BY <1>1, NoneIsNothing DEF Awaits
<1> HIDE DEF p
<1>4. Created(board) = q
  BY <1>2, <1>3 DEF Finished
<1>5. Generates(p, q)
  BY <1>1, GeneratedGenerates
<1> HIDE DEF q
<1>6. Advances(p, q)
  BY <1>1, <1>5, GeneratesAdvances
<1>7. q.locks = <<>>
  BY <1>1, <1>5 DEF Generates, SameStack
<1> QED BY <1>1, <1>4, <1>6, <1>7, AdvancesBalanced DEF Advances

(****************************** the exchange *******************************)

\* A player who differs in the garbage under way to him, at most.
Keeps(p, q) ==
    /\ q \in Simulation
    /\ q.board = p.board /\ q.active = p.active /\ q.hold = p.hold /\ q.canHold = p.canHold
    /\ q.placed = p.placed /\ q.cursor = p.cursor /\ q.locks = p.locks
    /\ q.pending = p.pending /\ q.topped = p.topped /\ q.ihs = p.ihs

\* A packet joins the queue of a player who plays on.
LEMMA GarbageQueuedKeeps ==
    ASSUME NEW q \in Simulation, NEW packet \in Garbage
    PROVE  /\ Keeps(q, GarbageQueued(q, packet))
           /\ ~q.topped => Waiting(GarbageQueued(q, packet).garbage)
                             = Waiting(q.garbage) + packet.amount
<1>1. CASE q.topped
  BY <1>1 DEF GarbageQueued, Keeps
<1>2. CASE ~q.topped
  <2> DEFINE g == Append(q.garbage, packet)
             r == [q EXCEPT !.garbage = g]
  <2>1. GarbageQueued(q, packet) = r
    BY <1>2 DEF GarbageQueued
  <2>2. q.garbage \in Seq(Garbage)
    BY DEF Simulation
  <2>3. g \in Seq(Garbage)
    BY <2>2
  <2>4. Waiting(g) = Waiting(q.garbage) + packet.amount
    <3>1. q.garbage \in Seq(Loose) /\ packet \in Loose
      BY <2>2, GarbageIs
    <3> QED BY <3>1, WaitingAppend
  <2> HIDE DEF g
  <2>5. Keeps(q, r) /\ r.garbage = g
    BY <2>3 DEF Simulation, Keeps
  <2> QED BY <2>1, <2>4, <2>5
<1> QED BY <1>1, <1>2

\* What is kept twice is kept.
LEMMA KeepsFurther ==
    ASSUME NEW p, NEW q, NEW r, Keeps(p, q), Keeps(q, r)
    PROVE  Keeps(p, r)
BY DEF Keeps

\* A player keeps what he has.
LEMMA KeepsItself ==
    ASSUME NEW p \in Simulation
    PROVE  Keeps(p, p)
BY DEF Keeps

\* The packets of an exchange join the queue one by one.
LEMMA QueuedKeeps ==
    ASSUME NEW p \in Simulation, NEW attacks \in Seq(Nat \ {0}), NEW holes,
           \A i \in 1 .. Len(attacks) : holes[i] \in Columns, serverFrame \in Nat
    PROVE  /\ Keeps(p, Queued(p, attacks, holes))
           /\ ~p.topped => Waiting(Queued(p, attacks, holes).garbage)
                             = Waiting(p.garbage) + Total(attacks)
<1> DEFINE N == Len(attacks)
           S == {q \in Simulation : Keeps(p, q)}
           packet(i) == [amount |-> attacks[i], at |-> serverFrame + TravelFrames,
                         hole |-> holes[i]]
           Solves(f) == f = [n \in 0 .. Len(attacks) |->
                               IF n = 0 THEN p
                               ELSE GarbageQueued(f[n - 1],
                                      [amount |-> attacks[n], at |-> serverFrame + TravelFrames,
                                       hole |-> holes[n]])]
           F == CHOOSE f : Solves(f)
           step == [n \in 1 .. N |-> [q \in S |-> GarbageQueued(q, packet(n))]]
<1>1. N \in Nat /\ \A n \in 1 .. N : attacks[n] \in Nat \ {0}
  OBVIOUS
<1>2. \A n \in 1 .. N : packet(n) \in Garbage /\ packet(n).amount = attacks[n]
  <2>1. serverFrame + TravelFrames \in Nat
    BY DuelAssumption
  <2> DEFINE at == serverFrame + TravelFrames
  <2> HIDE DEF at
  <2>2. \A n \in 1 .. N : [amount |-> attacks[n], at |-> at, hole |-> holes[n]] \in Garbage
    BY <1>1, <2>1 DEF Garbage, at
  <2> QED BY <2>2 DEF at
<1>3. p \in S
  BY KeepsItself
<1>4. \A n \in 1 .. N : \A q \in S : GarbageQueued(q, packet(n)) \in S
  <2> SUFFICES ASSUME NEW n \in 1 .. N, NEW q \in S PROVE GarbageQueued(q, packet(n)) \in S
    OBVIOUS
  <2>1. packet(n) \in Garbage /\ q \in Simulation /\ Keeps(p, q)
    BY <1>2
  <2> HIDE DEF packet
  <2>2. Keeps(q, GarbageQueued(q, packet(n)))
    BY <2>1, GarbageQueuedKeeps
  <2>3. Keeps(p, GarbageQueued(q, packet(n)))
    BY <2>1, <2>2, KeepsFurther
  <2> QED BY <2>3 DEF Keeps
<1>5. \A q \in S : q \in Simulation /\ q.topped = p.topped
  BY DEF Keeps
<1>6. \A q \in S : Keeps(p, q)
  OBVIOUS
<1> HIDE DEF S
<1> HIDE DEF packet
<1>7. step \in [1 .. N -> [S -> S]]
  BY <1>4
<1>8. \A n \in 1 .. N : \A q \in S : step[n][q] = GarbageQueued(q, packet(n))
  OBVIOUS
<1> HIDE DEF step
<1>9. PICK f \in [0 .. N -> S] : f[0] = p /\ \A n \in 1 .. N : f[n] = step[n][f[n - 1]]
  <2>1. HasRun(S, p, N, step)
    BY <1>1, <1>3, <1>7, Iteration
  <2> QED BY <2>1 DEF HasRun
<1>10. ASSUME NEW n \in 0 .. N
       PROVE  f[n] = IF n = 0 THEN p ELSE GarbageQueued(f[n - 1], packet(n))
  <2>1. CASE n = 0
    BY <2>1, <1>9
  <2>2. CASE n # 0
    <3>1. n \in 1 .. N /\ n - 1 \in 0 .. N
      BY <2>2, <1>1
    <3>2. f[n] = step[n][f[n - 1]] /\ f[n - 1] \in S
      BY <3>1, <1>9
    <3> QED BY <2>2, <3>1, <3>2, <1>8
  <2> QED BY <2>1, <2>2
<1>11. Solves(f)
  BY <1>10 DEF packet
<1>12. Solves(F)
  BY <1>11
<1>13. Queued(p, attacks, holes) = F[N]
  BY DEF Queued
<1> HIDE DEF F
<1>14. F[0] = p /\ \A n \in 1 .. N : F[n] = GarbageQueued(F[n - 1], packet(n))
  <2>1. \A n \in 0 .. N : F[n] = IF n = 0 THEN p ELSE GarbageQueued(F[n - 1], packet(n))
    BY <1>12 DEF packet
  <2>2. 0 \in 0 .. N /\ \A n \in 1 .. N : n \in 0 .. N /\ n # 0
    BY <1>1
  <2> QED BY <2>1, <2>2
<1>15. \A n \in 1 .. N : F[n - 1] \in S => F[n] \in S
  BY <1>4, <1>14
<1>16. F[N] \in S
  BY <1>1, <1>3, <1>14, <1>15, StaysWithin
<1>17. ASSUME ~p.topped PROVE Waiting(F[N].garbage) = Waiting(p.garbage) + Total(attacks)
  <2>1. attacks \in Seq(Int) /\ Waiting(p.garbage) \in Nat
    <3>1. p.garbage \in Seq(Garbage)
      BY DEF Simulation
    <3>2. p.garbage \in Seq(Loose)
      BY <3>1, GarbageIs
    <3> QED BY <3>2, AmountsType
  <2>2. PICK h \in [0 .. N -> Int] : SumsTo(h, attacks) /\ Total(attacks) = h[N]
    BY <2>1, TotalSums
  <2> DEFINE w == Waiting(p.garbage)
             P == {n \in Nat : n <= N => F[n] \in S /\ Waiting(F[n].garbage) = w + h[n]}
  <2>3. 0 \in P
    BY <1>3, <1>14, <2>1, <2>2 DEF SumsTo
  <2>4. ASSUME NEW n \in Nat, n \in P PROVE n + 1 \in P
    <3> SUFFICES ASSUME n + 1 <= N
                 PROVE  F[n + 1] \in S /\ Waiting(F[n + 1].garbage) = w + h[n + 1]
      OBVIOUS
    <3>1. n + 1 \in 1 .. N /\ (n + 1) - 1 = n /\ n \in 0 .. N
      BY <1>1
    <3> DEFINE m == n + 1
    <3>2. F[n] \in S /\ Waiting(F[n].garbage) = w + h[n] /\ h[n] \in Int
      BY <2>2, <2>4, <3>1
    <3>3. h[m] = h[n] + attacks[m]
      BY <2>2, <3>1 DEF SumsTo
    <3>4. F[m] = GarbageQueued(F[n], packet(m))
      BY <1>14, <3>1
    <3>5. packet(m) \in Garbage /\ packet(m).amount = attacks[m] /\ attacks[m] \in Nat
      BY <1>1, <1>2, <3>1
    <3>6. F[n] \in Simulation /\ ~F[n].topped
      BY <1>5, <1>17, <3>2
    <3>7. Waiting(F[m].garbage) = Waiting(F[n].garbage) + attacks[m]
      BY <3>4, <3>5, <3>6, GarbageQueuedKeeps
    <3>8. F[m] \in S
      BY <1>4, <3>1, <3>2, <3>4
    <3> HIDE DEF w
    <3>9. w \in Nat
      BY <2>1 DEF w
    <3>10. Waiting(F[m].garbage) = w + h[m]
      BY <3>2, <3>3, <3>5, <3>7, <3>9
    <3> QED BY <3>8, <3>10
  <2> HIDE DEF P
  <2>5. \A n \in Nat : n \in P
    BY <2>3, <2>4, SetInduction
  <2>6. N \in P
    BY <1>1, <2>5
  <2> QED BY <1>1, <2>2, <2>6 DEF P
<1> QED BY <1>6, <1>13, <1>16, <1>17

\* What the locks of p send.
SentBy(p) == Flat([i \in DOMAIN p.locks |-> p.locks[i].outgoing])

\* What the locks of a frame send are attacks, and the kinds of pieces they count are kinds.
LEMMA SentByType ==
    ASSUME NEW p \in Simulation
    PROVE  SentBy(p) \in Seq(Nat \ {0}) /\ Len(SentBy(p)) \in Nat /\ Total(SentBy(p)) \in Nat
<1> DEFINE parts == [i \in DOMAIN p.locks |-> p.locks[i].outgoing]
<1>1. p.locks \in Seq(Lock)
  BY DEF Simulation
<1>2. /\ Len(p.locks) \in Nat /\ DOMAIN p.locks = 1 .. Len(p.locks)
      /\ \A i \in 1 .. Len(p.locks) : p.locks[i] \in Lock
  BY <1>1
<1>3. \A i \in 1 .. Len(p.locks) : p.locks[i].outgoing \in Seq(Nat \ {0})
  BY <1>2 DEF Lock
<1>4. parts \in [1 .. Len(p.locks) -> Seq(Nat \ {0})]
  BY <1>2, <1>3
<1>5. parts \in Seq(Seq(Nat \ {0}))
  BY <1>2, <1>4, TableIsSequence
<1> HIDE DEF parts
<1>6. Flat(parts) \in Seq(Nat \ {0})
  BY <1>5, FlatElements
<1>7. SentBy(p) \in Seq(Nat \ {0})
  BY <1>6 DEF SentBy, parts
<1>8. SentBy(p) \in Seq(Nat)
  BY <1>7
<1> QED BY <1>7, <1>8, TotalNat

\* The record t once the locks of p are counted in.
Recorded(p, t, u) ==
    /\ u \in Tally /\ u.start = t.start /\ u.queued = t.queued
    /\ u.lines = t.lines + LinesOf(p.locks) /\ u.risen = t.risen + RisenOf(p.locks)
    /\ u.cancelled = t.cancelled + CancelledOf(p.locks)
    /\ u.made = t.made + Total(SentBy(p))
    /\ \A k \in Kinds : u.kinds[k] = t.kinds[k] + KindOf(p.locks, k)

\* The record t with other sums.
TallyWith(t, l, r, c, m, ks) ==
    [t EXCEPT !.lines = l, !.risen = r, !.cancelled = c, !.made = m, !.kinds = ks]

\* The record u is t with those sums.
TalliesTo(t, u, l, r, c, m, ks) ==
    /\ u \in Tally /\ u.start = t.start /\ u.queued = t.queued /\ u.lines = l
    /\ u.risen = r /\ u.cancelled = c /\ u.made = m /\ u.kinds = ks

\* A record whose sums change is a record.
LEMMA TallyType ==
    ASSUME NEW t \in Tally, NEW l \in Nat, NEW r \in Nat, NEW c \in Nat, NEW m \in Nat,
           NEW ks \in [Kinds -> Nat]
    PROVE  TalliesTo(t, TallyWith(t, l, r, c, m, ks), l, r, c, m, ks)
BY DEF Tally, TallyWith, TalliesTo

\* Counted is that record.
LEMMA CountedRecords ==
    ASSUME NEW q, players[q] \in Simulation, tally[q] \in Tally
    PROVE  Recorded(players[q], tally[q], Counted(q))
<1> DEFINE p == players[q]
           t == tally[q]
           l == t.lines + LinesOf(p.locks)
           r == t.risen + RisenOf(p.locks)
           c == t.cancelled + CancelledOf(p.locks)
           m == t.made + Total(SentBy(p))
           ks == [k \in Kinds |-> t.kinds[k] + KindOf(p.locks, k)]
<1>1. Outgoing(q) = SentBy(p)
  BY DEF Outgoing, SentBy
<1>2. Counted(q) = TallyWith(t, l, r, c, m, ks)
  BY <1>1, Zenon DEF Counted, TallyWith, Sum, LinesOf, RisenOf, CancelledOf, KindOf
<1>3. p \in Simulation /\ t \in Tally
  OBVIOUS
<1> HIDE DEF p, t
<1>4. p.locks \in Seq(Lock)
  BY <1>3 DEF Simulation
<1>5. /\ LinesOf(p.locks) \in Nat /\ RisenOf(p.locks) \in Nat /\ CancelledOf(p.locks) \in Nat
      /\ \A k \in Kinds : KindOf(p.locks, k) \in Nat
  BY <1>4, LocksSum
<1>6. Total(SentBy(p)) \in Nat
  BY <1>3, SentByType
<1>7. /\ t.lines \in Nat /\ t.risen \in Nat /\ t.cancelled \in Nat /\ t.made \in Nat
      /\ \A k \in Kinds : t.kinds[k] \in Nat
  BY <1>3 DEF Tally
<1>8. l \in Nat /\ r \in Nat /\ c \in Nat /\ m \in Nat /\ ks \in [Kinds -> Nat]
  BY <1>5, <1>6, <1>7
<1>9. \A k \in Kinds : ks[k] = t.kinds[k] + KindOf(p.locks, k)
  OBVIOUS
<1> DEFINE u == TallyWith(t, l, r, c, m, ks)
<1> HIDE DEF l, r, c, m, ks
<1>10. TalliesTo(t, u, l, r, c, m, ks)
  BY <1>3, <1>8, TallyType
<1> HIDE DEF u
<1>11. Recorded(p, t, u)
  BY <1>9, <1>10 DEF Recorded, TalliesTo, l, r, c, m
<1> QED BY <1>2, <1>11 DEF u, p, t

\* The next frame begins with no locks: they are in the record now.
LEMMA LocksTurnToRecord ==
    ASSUME NEW p, NEW s, NEW t \in Tally, NEW u, NEW n \in Nat, Sound(p), Balanced(p, t),
           Keeps(p, s), ~p.topped => Waiting(s.garbage) = Waiting(p.garbage) + n,
           Recorded(p, t, u)
    PROVE  LET r == [s EXCEPT !.locks = <<>>]
               v == [u EXCEPT !.queued = t.queued + n]
           IN  /\ Sound(r) /\ Balanced(r, v) /\ r.locks = <<>> /\ v \in Tally
               /\ v.queued = t.queued + n /\ v.made = u.made
               /\ Spent(p) => Spent(r)
<1> DEFINE r == [s EXCEPT !.locks = <<>>]
           m == t.queued + n
           v == [u EXCEPT !.queued = m]
<1>1. p \in Simulation /\ s \in Simulation
  BY DEF Sound, Keeps
<1>2. r \in Simulation
  <2>1. <<>> \in Seq(Lock)
    OBVIOUS
  <2> QED BY <1>1, <2>1 DEF Simulation
<1>3. /\ r.board = p.board /\ r.active = p.active /\ r.hold = p.hold /\ r.canHold = p.canHold
      /\ r.placed = p.placed /\ r.cursor = p.cursor /\ r.locks = <<>>
      /\ r.pending = p.pending /\ r.topped = p.topped /\ r.ihs = p.ihs
      /\ r.garbage = s.garbage
  BY <1>1 DEF Keeps, Simulation
<1> HIDE DEF r
<1>4. Sound(r)
  BY <1>2, <1>3 DEF Sound, Playing, Awaits
<1>5. Spent(p) => Spent(r)
  BY <1>3 DEF Spent
<1>6. /\ t.queued \in Nat /\ t.lines \in Nat /\ t.risen \in Nat /\ t.cancelled \in Nat
      /\ t.start \in Nat /\ t.made \in Nat /\ \A k \in Kinds : t.kinds[k] \in Nat
  BY DEF Tally
<1>7. m \in Nat
  BY <1>6
<1>8. u \in Tally
  BY DEF Recorded
<1> HIDE DEF m
<1>9. /\ v \in Tally /\ v.queued = m /\ v.made = u.made /\ v.start = u.start
      /\ v.lines = u.lines /\ v.risen = u.risen /\ v.cancelled = u.cancelled
      /\ v.kinds = u.kinds
  BY <1>7, <1>8 DEF Tally
<1> HIDE DEF v
<1> DEFINE lines == LinesOf(p.locks)
           risen == RisenOf(p.locks)
           cancelled == CancelledOf(p.locks)
<1>10. /\ v.start = t.start /\ v.lines = t.lines + lines /\ v.risen = t.risen + risen
       /\ v.cancelled = t.cancelled + cancelled
       /\ \A k \in Kinds : v.kinds[k] = t.kinds[k] + KindOf(p.locks, k)
  BY <1>9 DEF Recorded
<1>11. p.locks \in Seq(Lock) /\ p.garbage \in Seq(Garbage) /\ p.board \in Board /\ p.placed \in Nat
       /\ p.cursor \in Nat
  BY <1>1 DEF Simulation
<1>12. lines \in Nat /\ risen \in Nat /\ cancelled \in Nat
  BY <1>11, LocksSum
<1>13. Balanced(r, v)
  <2> SUFFICES ASSUME ~p.topped
               PROVE  /\ CellBalance(r) = v.start - (Width * v.lines) + ((Width - 1) * v.risen)
                      /\ RowBalance(r) = v.queued - v.risen - v.cancelled
                      /\ \A k \in Kinds : KindBalance(r, k) = v.kinds[k]
    BY <1>3 DEF Balanced
  <2>1. LinesOf(r.locks) = 0 /\ RisenOf(r.locks) = 0 /\ CancelledOf(r.locks) = 0
    BY <1>3, LocksEmpty
  <2>2. /\ CellBalance(p) = t.start - (Width * t.lines) + ((Width - 1) * t.risen)
        /\ RowBalance(p) = t.queued - t.risen - t.cancelled
        /\ \A k \in Kinds : KindBalance(p, k) = t.kinds[k]
    BY DEF Balanced
  <2>3. CellBalance(r) = v.start - (Width * v.lines) + ((Width - 1) * v.risen)
    <3> DEFINE c == CellCount(p.board)
               W == Width
               V == Width - 1
    <3>1. c \in Nat /\ W \in Nat /\ V \in Int
      BY <1>11, BoardType, ColumnsType
    <3>2. CellBalance(p) = c - (4 * p.placed) + (W * lines) - (V * risen)
      BY DEF CellBalance
    <3>3. CellBalance(r) = c - (4 * p.placed) + (W * 0) - (V * 0)
      BY <1>3, <2>1 DEF CellBalance
    <3>4. v.start - (Width * v.lines) + ((Width - 1) * v.risen)
            = t.start - (W * (t.lines + lines)) + (V * (t.risen + risen))
      BY <1>10
    <3> DEFINE a1 == W * t.lines
               a2 == W * lines
               b1 == V * t.risen
               b2 == V * risen
    <3> HIDE DEF c, W, V, lines, risen
    <3>5. W * (t.lines + lines) = a1 + a2 /\ V * (t.risen + risen) = b1 + b2
      BY <1>6, <1>12, <3>1
    <3>6. W * 0 = 0 /\ V * 0 = 0
      BY <3>1
    <3>7. a1 \in Int /\ a2 \in Int /\ b1 \in Int /\ b2 \in Int
      BY <1>6, <1>12, <3>1
    <3>8. CellBalance(p) = t.start - a1 + b1
      BY <2>2 DEF W, V
    <3> HIDE DEF a1, a2, b1, b2
    <3>9. c - (4 * p.placed) + a2 - b2 = t.start - a1 + b1
      BY <3>2, <3>8 DEF a2, b2
    <3> DEFINE d == 4 * p.placed
    <3>11. d \in Int /\ t.start \in Int /\ c \in Int
      BY <1>6, <1>11, <3>1
    <3>12. c - d + a2 - b2 = t.start - a1 + b1
      BY <3>9
    <3> HIDE DEF d
    <3>10. c - d + 0 - 0 = t.start - (a1 + a2) + (b1 + b2)
      BY <3>7, <3>11, <3>12
    <3> QED BY <3>3, <3>4, <3>5, <3>6, <3>10 DEF d
  <2>4. RowBalance(r) = v.queued - v.risen - v.cancelled
    <3> DEFINE w == Waiting(p.garbage)
    <3>1. w \in Nat
      <4>1. p.garbage \in Seq(Loose)
        BY <1>11, GarbageIs
      <4> QED BY <4>1, AmountsType
    <3>2. RowBalance(p) = risen + cancelled + w
      BY DEF RowBalance
    <3> HIDE DEF w, risen, cancelled
    <3>3. RowBalance(r) = w + n
      <4>1. Waiting(r.garbage) = w + n
        BY <1>3 DEF w
      <4>2. RowBalance(r) = 0 + 0 + (w + n)
        BY <2>1, <4>1 DEF RowBalance
      <4> QED BY <3>1, <4>2
    <3>4. risen + cancelled + w = t.queued - t.risen - t.cancelled
      BY <2>2, <3>2
    <3>5. v.queued = t.queued + n
      BY <1>9 DEF m
    <3> QED BY <1>6, <1>10, <1>12, <3>1, <3>3, <3>4, <3>5
  <2>5. ASSUME NEW k \in Kinds PROVE KindBalance(r, k) = v.kinds[k]
    <3> DEFINE d == DrawnOf(p.cursor, k)
               e == KindOf(p.locks, k)
               h == One(k, p.hold)
               a == One(k, InHand(p))
    <3>1. d \in Nat /\ e \in Nat /\ h \in Nat /\ a \in Nat
      BY <1>11, DrawnOne, LocksSum, OneType
    <3>2. KindBalance(p, k) = d - e - h - a
      BY DEF KindBalance
    <3>3. InHand(r) = InHand(p) /\ KindOf(r.locks, k) = 0
      BY <1>3, LocksEmpty DEF InHand
    <3>4. KindBalance(r, k) = d - 0 - h - a
      BY <1>3, <3>3 DEF KindBalance
    <3>5. v.kinds[k] = t.kinds[k] + e /\ d - e - h - a = t.kinds[k]
      BY <1>10, <2>2, <3>2
    <3> HIDE DEF d, e, h, a
    <3> QED BY <1>6, <3>1, <3>4, <3>5
  <2> QED BY <2>3, <2>4, <2>5
<1> QED BY <1>3, <1>4, <1>5, <1>9, <1>13 DEF r, m, v

(****************************** the invariant ******************************)

\* Every bag holds the kinds.
SequenceInv == pieces \in [1 .. (Bags * Cardinality(Kinds)) -> Kinds]

\* Both players are as a step of theirs leaves them, and between frames no lock is uncounted.
PlayersInv ==
    /\ serverFrame \in Nat /\ turn \in 0 .. 3
    /\ players = [q \in Players |-> players[q]]
    /\ \A q \in Players : Sound(players[q])
    /\ turn = Between => \A q \in Players : players[q].locks = <<>>

\* The record agrees with the players, and what they queue with what they made.
TallyInv ==
    /\ tally \in [Players -> Tally]
    /\ \A q \in Players : Balanced(players[q], tally[q])
    /\ tally[2].queued - tally[1].queued = tally[1].made - tally[2].made

\* A player has changed his hold once since the last lock, at most, and then may not again.
HoldsInv ==
    /\ swaps \in [Players -> {0, 1}]
    /\ \A q \in Players : swaps[q] = 1 => Spent(players[q])

\* The inductive invariant.
DuelInv == SequenceInv /\ PlayersInv /\ TallyInv /\ HoldsInv

\* The match has at least one piece.
LEMMA BagsHoldPieces == Bags * Cardinality(Kinds) \in Nat \ {0}
<1>1. IsFiniteSet(Kinds)
  <2>1. IsFiniteSet(AllKinds)
    <3> DEFINE A == {"I"} \cup {"J"} \cup {"L"} \cup {"O"} \cup {"S"} \cup {"T"} \cup {"Z"}
    <3>1. IsFiniteSet({"I"}) /\ IsFiniteSet({"J"}) /\ IsFiniteSet({"L"}) /\ IsFiniteSet({"O"})
            /\ IsFiniteSet({"S"}) /\ IsFiniteSet({"T"}) /\ IsFiniteSet({"Z"})
      BY FS_Singleton
    <3>2. IsFiniteSet(A)
      BY <3>1, FS_Union
    <3>3. A = AllKinds
      BY DEF AllKinds
    <3> QED BY <3>2, <3>3
  <2> QED BY <2>1, FS_Subset, DuelAssumption
<1>2. Cardinality(Kinds) \in Nat /\ Cardinality(Kinds) # 0
  BY <1>1, FS_CardinalityType, FS_EmptySet, DuelAssumption
<1> DEFINE c == Cardinality(Kinds)
<1>3. c \in Nat \ {0} /\ Bags \in Nat \ {0}
  BY <1>2, DuelAssumption
<1> HIDE DEF c
<1>4. Bags * c \in Nat /\ Bags * c # 0
  BY <1>3
<1> QED BY <1>4 DEF c

\* So the first can be drawn, and all are kinds.
LEMMA SequenceKinds ==
    ASSUME SequenceInv
    PROVE  Sequence /\ 1 \in DOMAIN pieces
BY BagsHoldPieces DEF SequenceInv, Sequence

\* A step in a supplied match can draw two pieces.
LEMMA SuppliedDraws ==
    ASSUME SequenceInv, NEW q \in Players, Supplied(q), Sound(players[q])
    PROVE  CanDraw(players[q], 2)
<1> DEFINE n == Bags * Cardinality(Kinds)
           c == players[q].cursor
<1>1. n \in Nat /\ DOMAIN pieces = 1 .. n
  BY BagsHoldPieces DEF SequenceInv
<1>2. c \in Nat /\ c + 2 \in DOMAIN pieces
  BY DEF Sound, Simulation, Supplied
<1> HIDE DEF n
<1>3. c + 1 \in DOMAIN pieces
  BY <1>1, <1>2
<1>4. \A i \in 1 .. 2 : i = 1 \/ i = 2
  OBVIOUS
<1> QED BY <1>2, <1>3, <1>4, SequenceKinds DEF CanDraw

\* The invariant holds when a match starts.
LEMMA DuelStarts ==
    ASSUME DuelInit
    PROVE  DuelInv
<1>1. SequenceInv
  BY DEF DuelInit, BagSequences, SequenceInv
<1>2. Sequence /\ 1 \in DOMAIN pieces
  BY <1>1, SequenceKinds
<1>3. PICK board \in [Players -> Boards[1] \cup Boards[2]] :
         /\ \A q \in Players : board[q] \in Boards[q]
         /\ players = [q \in Players |-> Created(board[q])]
         /\ tally = [q \in Players |-> Opening(board[q])]
  BY DEF DuelInit, Opening
<1>4. ASSUME NEW q \in Players
      PROVE  /\ Sound(players[q]) /\ Balanced(players[q], tally[q]) /\ players[q].locks = <<>>
             /\ tally[q] \in Tally
  <2>1. board[q] \in Board
    BY <1>3, DuelAssumption DEF Board
  <2>2. players[q] = Created(board[q]) /\ tally[q] = Opening(board[q])
    BY <1>3
  <2> QED BY <1>2, <2>1, <2>2, CreatedBalanced
<1>5. PlayersInv
  <2>1. serverFrame = 0 /\ turn = Between
    BY DEF DuelInit
  <2>2. players = [q \in Players |-> players[q]]
    BY <1>3
  <2> QED BY <1>4, <2>1, <2>2 DEF PlayersInv, Between
<1>6. TallyInv
  <2>1. tally \in [Players -> Tally]
    <3>1. tally = [q \in Players |-> tally[q]]
      BY <1>3
    <3> QED BY <1>4, <3>1
  <2>2. \A q \in Players : tally[q].queued = 0 /\ tally[q].made = 0
    <3> SUFFICES ASSUME NEW q \in Players PROVE tally[q].queued = 0 /\ tally[q].made = 0
      OBVIOUS
    <3>1. tally[q] = Opening(board[q])
      BY <1>3
    <3> QED BY <3>1 DEF Opening
  <2>3. tally[2].queued - tally[1].queued = tally[1].made - tally[2].made
    BY <2>2 DEF Players
  <2> QED BY <1>4, <2>1, <2>3 DEF TallyInv
<1>7. HoldsInv
  BY DEF DuelInit, HoldsInv
<1> QED BY <1>1, <1>5, <1>6, <1>7 DEF DuelInv

\* A step of one player that advances him and keeps his record.
LEMMA BecomesAdvances ==
    ASSUME DuelInv, NEW q \in Players, NEW p, Advances(players[q], p), Become(q, p),
           pieces' = pieces, tally' = tally, serverFrame' \in Nat, turn' \in 1 .. 3
    PROVE  DuelInv'
<1>1. players' = [players EXCEPT ![q] = p] /\ players = [r \in Players |-> players[r]]
  BY DEF Become, DuelInv, PlayersInv
<1>2. players'[q] = p /\ \A r \in Players : r # q => players'[r] = players[r]
  BY <1>1
<1>3. players' = [r \in Players |-> players'[r]]
  BY <1>1
<1>4. SequenceInv'
  BY DEF DuelInv, SequenceInv
<1>5. \A r \in Players : Sound(players'[r])
  BY <1>2 DEF Advances, DuelInv, PlayersInv
<1>6. PlayersInv'
  BY <1>3, <1>5 DEF PlayersInv, Between
<1>7. \A r \in Players : Balanced(players'[r], tally'[r])
  BY <1>2, AdvancesBalanced DEF DuelInv, TallyInv
<1>8. (\A r \in Players : Balanced(players[r], tally[r]))'
  BY <1>7 DEF Balanced, KindBalance, DrawnOf
<1>9. TallyInv'
  BY <1>8 DEF DuelInv, TallyInv
<1>10. HoldsInv'
  <2>1. swaps' = [swaps EXCEPT ![q] = IF p.placed > players[q].placed THEN 0
                                     ELSE IF p.hold # players[q].hold THEN @ + 1 ELSE @]
    BY DEF Become
  <2>2. /\ swaps \in [Players -> {0, 1}] /\ swaps[q] \in {0, 1}
        /\ swaps[q] = 1 => Spent(players[q])
    BY DEF DuelInv, HoldsInv
  <2>3. OneHold(players[q], p) /\ p.placed \in Nat /\ players[q].placed \in Nat
    BY DEF Advances, Sound, Simulation, DuelInv, PlayersInv
  <2> DEFINE v == IF p.placed > players[q].placed THEN 0
                  ELSE IF p.hold # players[q].hold THEN swaps[q] + 1 ELSE swaps[q]
  <2>4. v \in {0, 1} /\ (v = 1 => Spent(p))
    <3>1. CASE p.placed > players[q].placed
      BY <3>1
    <3>2. CASE ~(p.placed > players[q].placed) /\ p.hold # players[q].hold
      <4>1. p.placed = players[q].placed
        BY <2>3, <3>2 DEF OneHold
      <4>2. Spent(p) /\ ~Spent(players[q])
        BY <2>3, <3>2, <4>1 DEF OneHold
      <4>3. swaps[q] = 0
        BY <2>2, <4>2
      <4>4. v = 1
        BY <3>2, <4>3
      <4> QED BY <4>2, <4>4
    <3>3. CASE ~(p.placed > players[q].placed) /\ p.hold = players[q].hold
      <4>1. p.placed = players[q].placed
        BY <2>3, <3>3 DEF OneHold
      <4>2. Spent(players[q]) => Spent(p)
        BY <2>3, <4>1 DEF OneHold
      <4>3. v = swaps[q]
        BY <3>3
      <4> QED BY <2>2, <4>2, <4>3
    <3> QED BY <3>1, <3>2, <3>3
  <2>5. swaps' = [swaps EXCEPT ![q] = v]
    BY <2>1
  <2> HIDE DEF v
  <2>6. swaps' \in [Players -> {0, 1}]
    BY <2>2, <2>4, <2>5
  <2>7. \A r \in Players : swaps'[r] = 1 => Spent(players'[r])
    <3> SUFFICES ASSUME NEW r \in Players, swaps'[r] = 1 PROVE Spent(players'[r])
      OBVIOUS
    <3>1. CASE r = q
      BY <1>2, <2>2, <2>4, <2>5, <3>1
    <3>2. CASE r # q
      <4>1. swaps'[r] = swaps[r] /\ players'[r] = players[r]
        BY <1>2, <2>2, <2>5, <3>2
      <4> QED BY <4>1 DEF DuelInv, HoldsInv
    <3> QED BY <3>1, <3>2
  <2> QED BY <2>6, <2>7 DEF HoldsInv, Spent
<1> QED BY <1>4, <1>6, <1>9, <1>10 DEF DuelInv

\* An input keeps it.
LEMMA PlayKeepsDuelInv ==
    ASSUME DuelInv, NEW q \in Players, NEW action \in Actions[q], NEW up \in BOOLEAN,
           Play(q, action, up)
    PROVE  DuelInv'
<1> DEFINE p == Acted(players[q], action, serverFrame, up)
<1>1. Sound(players[q]) /\ CanDraw(players[q], 2) /\ serverFrame \in Nat
  BY SuppliedDraws DEF Play, DuelInv, PlayersInv
<1>2. action \in SimulationInputAction
  BY DuelAssumption
<1>3. Advances(players[q], p)
  BY <1>1, <1>2, ActedAdvances
<1>4. /\ Become(q, p) /\ pieces' = pieces /\ tally' = tally /\ serverFrame' \in Nat
      /\ turn' \in 1 .. 3
  BY <1>1 DEF Play, Players
<1> HIDE DEF p
<1> QED BY <1>3, <1>4, BecomesAdvances

\* The end of a player's frame keeps it.
LEMMA EndAdvanceKeepsDuelInv ==
    ASSUME DuelInv, NEW q \in Players, NEW up \in BOOLEAN, EndAdvance(q, up)
    PROVE  DuelInv'
<1> DEFINE p == FrameEnded(players[q], serverFrame, up)
<1>1. Sound(players[q]) /\ CanDraw(players[q], 2) /\ serverFrame \in Nat
  BY SuppliedDraws DEF EndAdvance, DuelInv, PlayersInv
<1>2. Advances(players[q], p)
  BY <1>1, FrameEndedAdvances
<1>3. /\ Become(q, p) /\ pieces' = pieces /\ tally' = tally /\ serverFrame' \in Nat
      /\ turn' \in 1 .. 3
  BY <1>1 DEF EndAdvance, Exchanging
<1> HIDE DEF p
<1> QED BY <1>2, <1>3, BecomesAdvances

\* What does not touch the players keeps the invariant if between frames it still is so.
LEMMA IdleKeepsDuelInv ==
    ASSUME DuelInv, UNCHANGED <<pieces, players, tally, swaps>>, serverFrame' \in Nat,
           turn' \in 0 .. 3, turn' = Between => turn = Between
    PROVE  DuelInv'
<1>1. SequenceInv'
  BY DEF DuelInv, SequenceInv
<1>2. PlayersInv'
  BY DEF DuelInv, PlayersInv, Between
<1>3. TallyInv'
  BY DEF DuelInv, TallyInv, Balanced, KindBalance, DrawnOf
<1>4. HoldsInv'
  BY DEF DuelInv, HoldsInv
<1> QED BY <1>1, <1>2, <1>3, <1>4 DEF DuelInv

\* A frame that begins keeps it: the locks it forgets are counted, there are none.
LEMMA BeginFrameKeepsDuelInv ==
    ASSUME DuelInv, BeginFrame
    PROVE  DuelInv'
<1>1. players' = players
  <2>1. ASSUME NEW q \in Players PROVE [players[q] EXCEPT !.locks = <<>>] = players[q]
    <3>1. players[q] \in Simulation /\ players[q].locks = <<>>
      BY DEF BeginFrame, DuelInv, PlayersInv, Sound
    <3> DEFINE p == players[q]
    <3> HIDE DEF p
    <3>2. p \in Simulation /\ p.locks = <<>>
      BY <3>1 DEF p
    <3>3. [p EXCEPT !.locks = <<>>] = p
      BY <3>2 DEF Simulation
    <3> QED BY <3>3 DEF p
  <2>2. players' = [q \in Players |-> [players[q] EXCEPT !.locks = <<>>]]
    BY DEF BeginFrame
  <2>3. players = [q \in Players |-> players[q]]
    BY DEF DuelInv, PlayersInv
  <2> QED BY <2>1, <2>2, <2>3
<1>2. /\ UNCHANGED <<pieces, tally, swaps>> /\ serverFrame' \in Nat /\ turn' = 1
  BY DEF BeginFrame, DuelInv, PlayersInv
<1> QED BY <1>1, <1>2, IdleKeepsDuelInv DEF Between

\* A match that is ended from outside keeps it.
LEMMA ForceFinishKeepsDuelInv ==
    ASSUME DuelInv, ForceFinish
    PROVE  DuelInv'
<1>1. UNCHANGED <<pieces, players, tally, swaps, serverFrame, turn>>
  BY DEF ForceFinish
<1>2. serverFrame \in Nat /\ turn \in 0 .. 3
  BY DEF DuelInv, PlayersInv
<1> QED BY <1>1, <1>2, IdleKeepsDuelInv

\* Keys let go between frames keep it.
LEMMA ClearHeldInputKeepsDuelInv ==
    ASSUME DuelInv, NEW q \in Players, ClearHeldInput(q)
    PROVE  DuelInv'
<1> DEFINE p == HeldCleared(players[q])
<1>1. /\ Sound(players[q]) /\ players[q].locks = <<>> /\ turn = Between
      /\ players = [r \in Players |-> players[r]]
  BY DEF DuelInv, PlayersInv, ClearHeldInput
<1>2. /\ Advances(players[q], p) /\ p.locks = <<>> /\ p.hold = players[q].hold
      /\ p.placed = players[q].placed
  BY <1>1, HeldClearedAdvances
<1>3. /\ players' = [players EXCEPT ![q] = p] /\ swaps' = swaps /\ pieces' = pieces
      /\ tally' = tally /\ serverFrame' = serverFrame /\ turn' = turn
  BY DEF ClearHeldInput
<1> HIDE DEF p
<1>4. players'[q] = p /\ \A r \in Players : r # q => players'[r] = players[r]
  BY <1>1, <1>3
<1>5. players' = [r \in Players |-> players'[r]]
  BY <1>1, <1>3
<1>6. Sound(p) /\ OneHold(players[q], p)
  BY <1>2 DEF Advances
<1>7. SequenceInv'
  BY <1>3 DEF DuelInv, SequenceInv
<1>8. \A r \in Players : Sound(players'[r]) /\ players'[r].locks = <<>>
  BY <1>1, <1>2, <1>4, <1>6 DEF DuelInv, PlayersInv
<1>9. PlayersInv'
  BY <1>3, <1>5, <1>8 DEF DuelInv, PlayersInv
<1>10. \A r \in Players : Balanced(players'[r], tally'[r])
  BY <1>2, <1>3, <1>4, AdvancesBalanced DEF DuelInv, TallyInv
<1>11. (\A r \in Players : Balanced(players[r], tally[r]))'
  BY <1>3, <1>10 DEF Balanced, KindBalance, DrawnOf
<1>12. TallyInv'
  BY <1>3, <1>11 DEF DuelInv, TallyInv
<1>13. \A r \in Players : swaps'[r] = 1 => Spent(players'[r])
  <2>1. Spent(players[q]) => Spent(p)
    <3>1. p.placed = players[q].placed
      BY <1>2
    <3> QED BY <1>6, <3>1 DEF OneHold
  <2> QED BY <1>3, <1>4, <2>1 DEF DuelInv, HoldsInv
<1>14. HoldsInv'
  BY <1>3, <1>13 DEF DuelInv, HoldsInv
<1> QED BY <1>7, <1>9, <1>12, <1>14 DEF DuelInv

\* What is left of a player's attacks once the other's are netted off.
LEMMA RemainingType ==
    ASSUME NEW q \in Players, \A r \in Players : players[r] \in Simulation
    PROVE  /\ Other(q) \in Players /\ Other(Other(q)) = q
           /\ Remaining(Other(q)) \in Seq(Nat \ {0}) /\ Total(Remaining(Other(q))) \in Nat
           /\ Len(Remaining(Other(q))) <= Len(Outgoing(1)) + Len(Outgoing(2))
           /\ Len(Outgoing(1)) + Len(Outgoing(2)) \in Nat
           /\ Total(Remaining(Other(q))) =
                Total(SentBy(players[Other(q)]))
                  - Least(Total(SentBy(players[Other(q)])), Total(SentBy(players[q])))
<1> DEFINE o == Other(q)
           a == SentBy(players[o])
           b == SentBy(players[q])
<1>1. o \in Players /\ Other(o) = q
  BY DEF Players, Other
<1>2. \A r \in Players : Outgoing(r) = SentBy(players[r])
  BY DEF Outgoing, SentBy
<1>3. \A r \in Players : /\ SentBy(players[r]) \in Seq(Nat \ {0})
                         /\ Len(SentBy(players[r])) \in Nat
  BY SentByType
<1>4. Remaining(o) = Netted(a, b)
  BY <1>1, <1>2 DEF Remaining
<1>5. a \in Seq(Nat \ {0}) /\ b \in Seq(Nat \ {0}) /\ Len(a) \in Nat
  BY <1>1, <1>3
<1>6. Len(a) <= Len(Outgoing(1)) + Len(Outgoing(2)) /\ Len(Outgoing(1)) + Len(Outgoing(2)) \in Nat
  <2> DEFINE m == Len(Outgoing(1))
             n == Len(Outgoing(2))
  <2>1. m \in Nat /\ n \in Nat
    BY <1>2, <1>3 DEF Players
  <2>2. Len(a) = m \/ Len(a) = n
    BY <1>1, <1>2 DEF Players
  <2> HIDE DEF m, n, a
  <2>3. Len(a) <= m + n /\ m + n \in Nat
    BY <2>1, <2>2
  <2> QED BY <2>3 DEF m, n
<1> HIDE DEF a, b, o
<1> DEFINE r == Netted(a, b)
<1>7. /\ r \in Seq(Nat \ {0}) /\ Total(r) = Total(a) - Least(Total(a), Total(b))
      /\ Len(r) <= Len(a)
  BY <1>5, NettedTotal
<1> HIDE DEF r
<1>8. Len(r) \in Nat /\ Total(r) \in Nat
  <2>1. r \in Seq(Nat) /\ Len(r) \in Nat
    BY <1>7
  <2> QED BY <2>1, TotalNat
<1>9. Len(r) <= Len(Outgoing(1)) + Len(Outgoing(2))
  BY <1>5, <1>6, <1>7, <1>8
<1> QED BY <1>1, <1>4, <1>6, <1>7, <1>8, <1>9 DEF a, b, o, r

\* The exchange keeps it: what is queued is recorded, and netting takes the same from both.
LEMMA ExchangeKeepsDuelInv ==
    ASSUME DuelInv, Exchange
    PROVE  DuelInv'
<1> DEFINE left(q) == Remaining(Other(q))
           m == Len(Outgoing(1)) + Len(Outgoing(2))
<1>1. /\ \A q \in Players : /\ players[q] \in Simulation /\ Sound(players[q])
                            /\ tally[q] \in Tally /\ Balanced(players[q], tally[q])
      /\ serverFrame \in Nat
  BY DEF DuelInv, PlayersInv, TallyInv, Sound
<1>2. PICK holes \in [Players -> [1 .. m -> Holes]] :
         players' = [q \in Players |->
                       [Queued(players[q], left(q), holes[q]) EXCEPT !.locks = <<>>]]
  BY DEF Exchange
<1>3. tally' = [q \in Players |-> [Counted(q) EXCEPT !.queued = @ + Total(left(q))]]
  BY DEF Exchange
<1>4. \A q \in Players : /\ left(q) \in Seq(Nat \ {0}) /\ Total(left(q)) \in Nat
                         /\ Len(left(q)) <= m /\ m \in Nat /\ Other(q) \in Players
                         /\ Total(left(q)) =
                              Total(SentBy(players[Other(q)]))
                                - Least(Total(SentBy(players[Other(q)])),
                                        Total(SentBy(players[q])))
  BY <1>1, RemainingType
<1>5. ASSUME NEW q \in Players
      PROVE  /\ Sound(players'[q]) /\ Balanced(players'[q], tally'[q])
             /\ players'[q].locks = <<>> /\ tally'[q] \in Tally
             /\ tally'[q].queued = tally[q].queued + Total(left(q))
             /\ tally'[q].made = tally[q].made + Total(SentBy(players[q]))
             /\ Spent(players[q]) => Spent(players'[q])
  <2> DEFINE p == players[q]
             t == tally[q]
             u == Counted(q)
             n == Total(left(q))
             s == Queued(p, left(q), holes[q])
             r == [s EXCEPT !.locks = <<>>]
             v == [u EXCEPT !.queued = t.queued + n]
  <2>1. Recorded(p, t, u)
    BY <1>1, CountedRecords
  <2>2. u.queued = t.queued /\ u.made = t.made + Total(SentBy(p))
    BY <2>1 DEF Recorded
  <2>3. \A i \in 1 .. Len(left(q)) : holes[q][i] \in Columns
    <3>1. Len(left(q)) <= m /\ m \in Nat /\ left(q) \in Seq(Nat \ {0})
      BY <1>4
    <3>2. Len(left(q)) \in Nat
      BY <3>1
    <3>3. \A i \in 1 .. Len(left(q)) : i \in 1 .. m
      <4> HIDE DEF left, m
      <4> QED BY <3>1, <3>2
    <3>4. holes[q] \in [1 .. m -> Holes] /\ Holes \subseteq Columns
      BY DuelAssumption
    <3> HIDE DEF left, m
    <3> QED BY <3>3, <3>4
  <2>4. p \in Simulation /\ left(q) \in Seq(Nat \ {0}) /\ n \in Nat
    BY <1>1, <1>4
  <2>5. Keeps(p, s) /\ (~p.topped => Waiting(s.garbage) = Waiting(p.garbage) + n)
    <3> DEFINE attacks == left(q)
               h == holes[q]
    <3>1. attacks \in Seq(Nat \ {0}) /\ \A i \in 1 .. Len(attacks) : h[i] \in Columns
      BY <2>3, <2>4
    <3> HIDE DEF attacks, h
    <3>2. /\ Keeps(p, Queued(p, attacks, h))
          /\ ~p.topped => Waiting(Queued(p, attacks, h).garbage)
                            = Waiting(p.garbage) + Total(attacks)
      BY <1>1, <2>4, <3>1, QueuedKeeps
    <3> QED BY <3>2 DEF attacks, h
  <2>6. players'[q] = r
    BY <1>2
  <2>7. tally'[q] = v
    BY <1>3, <2>2
  <2>8. Sound(p) /\ t \in Tally /\ Balanced(p, t)
    BY <1>1
  <2> HIDE DEF p, t, u, n, s
  <2>9. /\ Sound(r) /\ Balanced(r, v) /\ r.locks = <<>> /\ v \in Tally
        /\ v.queued = t.queued + n /\ v.made = u.made
        /\ Spent(p) => Spent(r)
    BY <2>1, <2>4, <2>5, <2>8, LocksTurnToRecord
  <2> HIDE DEF r, v
  <2> QED BY <2>2, <2>6, <2>7, <2>9 DEF p, t, n
<1>6. serverFrame' = serverFrame /\ turn' = Between /\ pieces' = pieces /\ swaps' = swaps
  BY DEF Exchange
<1>7. players' = [q \in Players |-> players'[q]] /\ tally' = [q \in Players |-> tally'[q]]
  BY <1>2, <1>3
<1>8. SequenceInv'
  BY <1>6 DEF DuelInv, SequenceInv
<1>9. PlayersInv'
  BY <1>1, <1>5, <1>6, <1>7 DEF PlayersInv, Between
<1>10. TallyInv'
  <2>1. \A q \in Players : Balanced(players'[q], tally'[q])
    BY <1>5
  <2>2. (\A q \in Players : Balanced(players[q], tally[q]))'
    BY <1>6, <2>1 DEF Balanced, KindBalance, DrawnOf
  <2>3. tally' \in [Players -> Tally]
    BY <1>5, <1>7
  <2>4. tally'[2].queued - tally'[1].queued = tally'[1].made - tally'[2].made
    <3> DEFINE a == Total(SentBy(players[1]))
               b == Total(SentBy(players[2]))
    <3>1. 1 \in Players /\ 2 \in Players /\ Other(1) = 2 /\ Other(2) = 1
      BY DEF Players, Other
    <3>2. a \in Nat /\ b \in Nat
      BY <1>1, <3>1, SentByType
    <3>3. Total(left(1)) = b - Least(b, a) /\ Total(left(2)) = a - Least(a, b)
      BY <1>4, <3>1
    <3>4. /\ tally'[1].queued = tally[1].queued + Total(left(1))
          /\ tally'[2].queued = tally[2].queued + Total(left(2))
          /\ tally'[1].made = tally[1].made + a /\ tally'[2].made = tally[2].made + b
      BY <1>5, <3>1
    <3>5. /\ tally[1].queued \in Nat /\ tally[2].queued \in Nat
          /\ tally[1].made \in Nat /\ tally[2].made \in Nat
      BY <1>1, <3>1 DEF Tally
    <3>6. tally[2].queued - tally[1].queued = tally[1].made - tally[2].made
      BY DEF DuelInv, TallyInv
    <3> DEFINE c == Least(a, b)
               x1 == tally[1].queued
               x2 == tally[2].queued
               y1 == tally[1].made
               y2 == tally[2].made
    <3> HIDE DEF a, b, left
    <3>7. Least(b, a) = c /\ c \in Nat
      BY <3>2 DEF Least
    <3>8. /\ tally'[1].queued = x1 + (b - c) /\ tally'[2].queued = x2 + (a - c)
          /\ tally'[1].made = y1 + a /\ tally'[2].made = y2 + b
      BY <3>3, <3>4, <3>7
    <3>9. x1 \in Nat /\ x2 \in Nat /\ y1 \in Nat /\ y2 \in Nat /\ x2 - x1 = y1 - y2
      BY <3>5, <3>6
    <3> HIDE DEF c, x1, x2, y1, y2
    <3>10. (x2 + (a - c)) - (x1 + (b - c)) = (y1 + a) - (y2 + b)
      BY <3>2, <3>7, <3>9
    <3> QED BY <3>8, <3>10
  <2> QED BY <2>2, <2>3, <2>4 DEF TallyInv
<1>11. HoldsInv'
  <2>1. \A q \in Players : swaps'[q] = 1 => Spent(players'[q])
    BY <1>5, <1>6 DEF DuelInv, HoldsInv
  <2> QED BY <1>6, <2>1 DEF DuelInv, HoldsInv
<1> QED BY <1>8, <1>9, <1>10, <1>11 DEF DuelInv

(************************* the theorems of a match *************************)

\* It holds in every state of a match.
LEMMA DuelInvHolds == DuelSpec => []DuelInv
<1>1. DuelInit => DuelInv
  BY DuelStarts
<1>2. DuelInv /\ [DuelNext]_duelVars => DuelInv'
  <2> SUFFICES ASSUME DuelInv, [DuelNext]_duelVars PROVE DuelInv'
    OBVIOUS
  <2>1. CASE BeginFrame
    BY <2>1, BeginFrameKeepsDuelInv
  <2>2. ASSUME NEW q \in Players, NEW up \in BOOLEAN, EndAdvance(q, up) PROVE DuelInv'
    BY <2>2, EndAdvanceKeepsDuelInv
  <2>3. ASSUME NEW q \in Players, NEW up \in BOOLEAN, NEW action \in Actions[q],
               Play(q, action, up)
        PROVE  DuelInv'
    BY <2>3, PlayKeepsDuelInv
  <2>4. CASE Exchange
    BY <2>4, ExchangeKeepsDuelInv
  <2>5. ASSUME NEW q \in Players, ClearHeldInput(q) PROVE DuelInv'
    BY <2>5, ClearHeldInputKeepsDuelInv
  <2>6. CASE ForceFinish
    BY <2>6, ForceFinishKeepsDuelInv
  <2>7. CASE UNCHANGED duelVars
    <3>1. /\ UNCHANGED <<pieces, players, tally, swaps, serverFrame, turn>>
          /\ serverFrame \in Nat /\ turn \in 0 .. 3
      BY <2>7 DEF duelVars, DuelInv, PlayersInv
    <3> QED BY <3>1, IdleKeepsDuelInv
  <2> QED BY <2>1, <2>2, <2>3, <2>4, <2>5, <2>6, <2>7 DEF DuelNext
<1> QED BY <1>1, <1>2, PTL DEF DuelSpec

\* What it says of a player whose game goes on.
LEMMA StandingBalanced ==
    ASSUME DuelInv, NEW q \in Standing
    PROVE  /\ q \in Players /\ ~players[q].topped /\ players[q] \in Simulation
           /\ CellBalance(players[q]) = tally[q].start - (Width * tally[q].lines)
                                          + ((Width - 1) * tally[q].risen)
           /\ RowBalance(players[q]) = tally[q].queued - tally[q].risen - tally[q].cancelled
           /\ \A k \in Kinds : KindBalance(players[q], k) = tally[q].kinds[k]
           /\ tally[q] \in Tally /\ Recorded(players[q], tally[q], Counted(q))
<1>1. q \in Players /\ ~players[q].topped
  BY DEF Standing
<1>2. Sound(players[q]) /\ Balanced(players[q], tally[q]) /\ tally[q] \in Tally
  BY <1>1 DEF DuelInv, PlayersInv, TallyInv
<1>3. players[q] \in Simulation
  BY <1>2 DEF Sound
<1>4. Recorded(players[q], tally[q], Counted(q))
  BY <1>2, <1>3, CountedRecords
<1> QED BY <1>1, <1>2, <1>3, <1>4 DEF Balanced

\* The piece a player moves never overlaps the stack, a wall or the floor, whatever order inputs,
\* gravity, kicks, lifted spawns and rising garbage come in: lockPiece never throws.
THEOREM PiecesFit == DuelSpec => []ActiveFits
<1>1. DuelInv => ActiveFits
  <2> SUFFICES ASSUME DuelInv, NEW q \in Standing, players[q].pending = None
               PROVE  Fits(players[q].board, players[q].active)
    BY DEF ActiveFits
  <2>1. Sound(players[q]) /\ ~players[q].topped
    BY DEF Standing, DuelInv, PlayersInv
  <2>2. Playing(players[q])
    BY <2>1, NoneIsNothing DEF Sound, Awaits
  <2> QED BY <2>2 DEF Playing
<1> QED BY <1>1, DuelInvHolds, PTL

\* No cell of a board appears or is lost: a lock adds four, a line takes a row's and garbage brings
\* a row less its hole; and no full row stays on a board.
THEOREM CellsAreAccounted == DuelSpec => []CellsAccounted
<1>1. DuelInv => CellsAccounted
  <2> SUFFICES ASSUME DuelInv, NEW q \in Standing
               PROVE  /\ CellCount(players[q].board) =
                           tally[q].start + 4 * players[q].placed - Width * Counted(q).lines
                             + (Width - 1) * Counted(q).risen
                      /\ \A i \in 1 .. Height : players[q].board[i].cells # Columns
    BY DEF CellsAccounted
  <2> DEFINE p == players[q]
             t == tally[q]
             u == Counted(q)
             c == CellCount(p.board)
             W == Width
             V == Width - 1
             s == LinesOf(p.locks)
             g == RisenOf(p.locks)
             d == 4 * p.placed
  <2>1. p \in Simulation /\ t \in Tally /\ Recorded(p, t, u)
    BY StandingBalanced
  <2>2. CellBalance(p) = t.start - (W * t.lines) + (V * t.risen)
    BY StandingBalanced
  <2> HIDE DEF p, t, u
  <2>3. p.board \in Board /\ p.locks \in Seq(Lock) /\ p.placed \in Nat
    BY <2>1 DEF Simulation
  <2>4. u.lines = t.lines + s /\ u.risen = t.risen + g
    BY <2>1 DEF Recorded
  <2>5. t.start \in Nat /\ t.lines \in Nat /\ t.risen \in Nat
    BY <2>1 DEF Tally
  <2>6. c \in Nat /\ W \in Nat /\ V \in Int /\ s \in Nat /\ g \in Nat /\ d \in Nat
    BY <2>3, BoardType, ColumnsType, LocksSum
  <2>7. c - d + (W * s) - (V * g) = t.start - (W * t.lines) + (V * t.risen)
    BY <2>2 DEF CellBalance
  <2>8. c = t.start + d - (W * u.lines) + (V * u.risen)
    <3> DEFINE a1 == W * t.lines
               a2 == W * s
               b1 == V * t.risen
               b2 == V * g
    <3> HIDE DEF c, W, V, s, g, d
    <3>1. W * u.lines = a1 + a2 /\ V * u.risen = b1 + b2
      BY <2>4, <2>5, <2>6
    <3>2. a1 \in Int /\ a2 \in Int /\ b1 \in Int /\ b2 \in Int
      BY <2>5, <2>6
    <3>3. c - d + a2 - b2 = t.start - a1 + b1
      BY <2>7
    <3> HIDE DEF a1, a2, b1, b2
    <3>4. c = t.start + d - (a1 + a2) + (b1 + b2)
      BY <2>5, <2>6, <3>2, <3>3
    <3> QED BY <3>1, <3>4
  <2>9. \A i \in 1 .. Height : p.board[i].cells # Columns
    BY <2>3 DEF Board, OpenRows
  <2> QED BY <2>8, <2>9 DEF p, t, u
<1> QED BY <1>1, DuelInvHolds, PTL

\* Every piece a player has drawn lies in his stack, in his hold, or is in play: a hold, buffered or
\* not, neither loses nor repeats one, and between two locks he holds once.
THEOREM PiecesAreAccounted == DuelSpec => []PiecesAccounted
<1>1. DuelInv => PiecesAccounted
  <2> SUFFICES ASSUME DuelInv PROVE PiecesAccounted
    OBVIOUS
  <2>1. ASSUME NEW q \in Standing, NEW k \in Kinds
        PROVE  DrawnOf(players[q].cursor, k) =
                 Counted(q).kinds[k] + One(k, players[q].hold) + One(k, InHand(players[q]))
    <3> DEFINE p == players[q]
               t == tally[q]
               u == Counted(q)
               d == DrawnOf(p.cursor, k)
               e == KindOf(p.locks, k)
               h == One(k, p.hold)
               a == One(k, InHand(p))
    <3>1. p \in Simulation /\ t \in Tally /\ Recorded(p, t, u) /\ KindBalance(p, k) = t.kinds[k]
      BY StandingBalanced
    <3> HIDE DEF p, t, u
    <3>2. p.locks \in Seq(Lock) /\ p.cursor \in Nat
      BY <3>1 DEF Simulation
    <3>3. d \in Nat /\ e \in Nat /\ h \in Nat /\ a \in Nat
      BY <3>2, DrawnOne, LocksSum, OneType
    <3>4. d - e - h - a = t.kinds[k] /\ t.kinds[k] \in Nat
      BY <3>1 DEF KindBalance, Tally
    <3>5. u.kinds[k] = t.kinds[k] + e
      BY <3>1 DEF Recorded
    <3> HIDE DEF d, e, h, a
    <3>6. d = u.kinds[k] + h + a
      BY <3>3, <3>4, <3>5
    <3> QED BY <3>6 DEF d, h, a, p, u
  <2>2. \A q \in Players : swaps[q] <= 1
    BY DEF DuelInv, HoldsInv
  <2> QED BY <2>1, <2>2 DEF PiecesAccounted, DrawnOf, One, InHand
<1> QED BY <1>1, DuelInvHolds, PTL

\* Garbage queued for a player has risen, was cancelled or still waits, and what the players queue
\* for each other differs by exactly what their attacks differ.
THEOREM GarbageIsConserved == DuelSpec => []GarbageConserved
<1>1. DuelInv => GarbageConserved
  <2> SUFFICES ASSUME DuelInv PROVE GarbageConserved
    OBVIOUS
  <2>1. ASSUME NEW q \in Standing
        PROVE  tally[q].queued =
                 Counted(q).risen + Counted(q).cancelled + Waiting(players[q].garbage)
    <3> DEFINE p == players[q]
               t == tally[q]
               u == Counted(q)
               s == RisenOf(p.locks)
               c == CancelledOf(p.locks)
               w == Waiting(p.garbage)
    <3>1. /\ p \in Simulation /\ t \in Tally /\ Recorded(p, t, u)
          /\ RowBalance(p) = t.queued - t.risen - t.cancelled
      BY StandingBalanced
    <3> HIDE DEF p, t, u
    <3>2. p.locks \in Seq(Lock) /\ p.garbage \in Seq(Loose)
      <4>1. p.locks \in Seq(Lock) /\ p.garbage \in Seq(Garbage)
        BY <3>1 DEF Simulation
      <4> QED BY <4>1, GarbageIs
    <3>3. s \in Nat /\ c \in Nat /\ w \in Nat
      BY <3>2, LocksSum, AmountsType
    <3>4. s + c + w = t.queued - t.risen - t.cancelled
      BY <3>1 DEF RowBalance
    <3>5. u.risen = t.risen + s /\ u.cancelled = t.cancelled + c
      BY <3>1 DEF Recorded
    <3>6. t.queued \in Nat /\ t.risen \in Nat /\ t.cancelled \in Nat
      BY <3>1 DEF Tally
    <3> DEFINE x == t.queued
               y == t.risen
               z == t.cancelled
    <3>7. x \in Nat /\ y \in Nat /\ z \in Nat /\ s + c + w = x - y - z
      BY <3>4, <3>6
    <3> HIDE DEF s, c, w, x, y, z
    <3>8. x = (y + s) + (z + c) + w
      BY <3>3, <3>7
    <3>9. t.queued = u.risen + u.cancelled + w
      BY <3>5, <3>8 DEF s, c, x, y, z
    <3> QED BY <3>9 DEF p, t, u, w
  <2>2. tally[2].queued - tally[1].queued = tally[1].made - tally[2].made
    BY DEF DuelInv, TallyInv
  <2> QED BY <2>1, <2>2 DEF GarbageConserved
<1> QED BY <1>1, DuelInvHolds, PTL

=============================================================================
