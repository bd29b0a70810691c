-------------------------- MODULE TermStreamProofs --------------------------
(***************************************************************************)
(* No byte painted twice, no hole a view rests on, the exit told last and  *)
(* the refinement of OutputView, for any sizes of chunk, tail and queue.   *)
(* Everything is stated of the pipe: what the socket holds, then what is   *)
(* queued behind it.                                                       *)
(***************************************************************************)
EXTENDS TermStream, FiniteSetTheorems, SequenceTheorems, TLAPS

(* Everything on its way to the view, next first. *)
Pipe == wire \o rx

Shown(m) == m.kind \in {"Output", "Snapshot"}
Upto(m) == m.off + m.len
Closes(m) == m.kind = "Exited" \/ (m.kind = "Snapshot" /\ m.exited = TRUE)
Opens(m) == m.kind = "Snapshot" /\ m.exited = FALSE

TypeOK ==
    /\ start \in Nat /\ end \in 0 .. MaxBytes /\ start <= end /\ end <= start + Capacity
    /\ exited \in BOOLEAN /\ attached \in BOOLEAN /\ resync \in BOOLEAN
    /\ connected \in BOOLEAN /\ pending \in BOOLEAN
    /\ wire \in Seq(Message) /\ rx \in Seq(Message)
    /\ phase \in {"wait", "wrote", "check", "take", "tell"}
    /\ asks \in Nat /\ exitEnd \in 0 .. end
    /\ status \in {"Connecting", "Running", "Exited"}
    /\ from \in Nat /\ seen \in 0 .. end /\ from <= seen
    /\ painted \in [Bytes -> Nat]

-----------------------------------------------------------------------------
(* Messages and the pipe. *)

LEMMA MessageShape ==
    ASSUME NEW m \in Message
    PROVE  /\ m.kind \in {"Output", "Snapshot", "Exited", "Resync", "Other"}
           /\ m.off \in Nat /\ m.len \in Nat
           /\ m.kind = "Output" => m.len > 0
           /\ m.kind = "Snapshot" => m.exited \in BOOLEAN
BY StreamAssumption DEF Message, Output, Snapshot, Bare

LEMMA Messages ==
    /\ \A o \in 0 .. MaxBytes, n \in 1 .. Chunk : Output(o, n) \in Message
    /\ \A s, e \in Nat, x \in BOOLEAN :
          s <= e /\ e <= MaxBytes /\ e <= s + Capacity => Snapshot(s, e, x) \in Message
    /\ \A k \in {"Exited", "Resync", "Other"} : Bare(k) \in Message
<1>1. ASSUME NEW s \in Nat, NEW e \in Nat, NEW x \in BOOLEAN,
             s <= e, e <= MaxBytes, e <= s + Capacity
      PROVE  Snapshot(s, e, x) \in Message
  <2>1. s \in 0 .. MaxBytes /\ e - s \in 0 .. Capacity /\ e = s + (e - s)
    BY <1>1, StreamAssumption
  <2> QED BY <2>1 DEF Message
<1> QED BY <1>1 DEF Message

LEMMA PipeIsSeq ==
    ASSUME wire \in Seq(Message), rx \in Seq(Message)
    PROVE  Pipe \in Seq(Message)
BY DEF Pipe

(* A queued message goes to the end of the pipe. *)
LEMMA QueuedLast ==
    ASSUME wire \in Seq(Message), rx \in Seq(Message), NEW m \in Message,
           rx' = Append(rx, m), wire' = wire
    PROVE  Pipe' = Append(Pipe, m) /\ rx' \in Seq(Message)
<1>1. Pipe' \in Seq(Message) /\ Append(Pipe, m) \in Seq(Message)
  BY PipeIsSeq DEF Pipe
<1>2. Len(Pipe') = Len(Append(Pipe, m))
  BY DEF Pipe
<1>3. \A i \in 1 .. Len(Pipe') : Pipe'[i] = Append(Pipe, m)[i]
  BY DEF Pipe
<1> QED BY <1>1, <1>2, <1>3, SeqEqual

(* The writer moves the next message without changing the pipe. *)
LEMMA MovedAlong ==
    ASSUME wire \in Seq(Message), rx \in Seq(Message), rx # <<>>,
           wire' = Append(wire, Head(rx)), rx' = Tail(rx)
    PROVE  Pipe' = Pipe /\ wire' \in Seq(Message) /\ rx' \in Seq(Message)
<1>0. wire' \in Seq(Message) /\ rx' \in Seq(Message)
  OBVIOUS
<1>1. Pipe' \in Seq(Message) /\ Pipe \in Seq(Message)
  BY <1>0, PipeIsSeq DEF Pipe
<1>2. Len(Pipe') = Len(Pipe)
  BY DEF Pipe
<1>3. \A i \in 1 .. Len(Pipe') : Pipe'[i] = Pipe[i]
  BY DEF Pipe
<1> QED BY <1>0, <1>1, <1>2, <1>3, SeqEqual

(* The view takes the next message of the pipe. *)
LEMMA TakenFirst ==
    ASSUME wire \in Seq(Message), rx \in Seq(Message), wire # <<>>,
           wire' = Tail(wire), rx' = rx
    PROVE  Pipe # <<>> /\ Head(wire) = Head(Pipe) /\ Pipe' = Tail(Pipe) /\ wire' \in Seq(Message)
<1>0. Pipe # <<>> /\ Head(wire) = Head(Pipe) /\ wire' \in Seq(Message)
  BY DEF Pipe
<1>1. Pipe' \in Seq(Message) /\ Tail(Pipe) \in Seq(Message)
  BY <1>0, PipeIsSeq DEF Pipe
<1>2. Len(Pipe') = Len(Tail(Pipe))
  BY DEF Pipe
<1>3. \A i \in 1 .. Len(Pipe') : Pipe'[i] = Tail(Pipe)[i]
  BY DEF Pipe
<1> QED BY <1>0, <1>1, <1>2, <1>3, SeqEqual

(* A resync overtakes what is queued. *)
LEMMA ResyncOvertakes ==
    ASSUME wire \in Seq(Message), rx \in Seq(Message), NEW m \in Message,
           wire' = Append(wire, m), rx' = rx
    PROVE  /\ wire' \in Seq(Message)
           /\ Len(Pipe') = Len(Pipe) + 1 /\ Len(wire) <= Len(Pipe)
           /\ \A i \in 1 .. Len(Pipe') :
                 Pipe'[i] = IF i <= Len(wire) THEN Pipe[i]
                            ELSE IF i = Len(wire) + 1 THEN m ELSE Pipe[i - 1]
BY DEF Pipe

(* What the pipe then holds, place by place. *)
LEMMA QueuedPlaces ==
    ASSUME NEW q \in Seq(Message), NEW m
    PROVE  /\ Len(q) \in Nat /\ DOMAIN q = 1 .. Len(q) /\ DOMAIN Append(q, m) = 1 .. Len(q) + 1
           /\ \A i \in DOMAIN q : i \in DOMAIN Append(q, m) /\ Append(q,
               m)[i] = q[i] /\ i < Len(q) + 1
           /\ Len(q) + 1 \in DOMAIN Append(q, m) /\ Append(q, m)[Len(q) + 1] = m
           /\ \A i \in DOMAIN Append(q, m) : i \in DOMAIN q \/ i = Len(q) + 1
OBVIOUS

LEMMA TakenPlaces ==
    ASSUME NEW q \in Seq(Message), q # <<>>
    PROVE  /\ 1 \in DOMAIN q /\ q[1] = Head(q)
           /\ DOMAIN q \subseteq Nat /\ DOMAIN Tail(q) \subseteq Nat
           /\ \A i \in DOMAIN Tail(q) : i + 1 \in DOMAIN q /\ Tail(q)[i] = q[i + 1] /\ 1 < i + 1
           /\ \A i \in DOMAIN q : i # 1 => i - 1 \in DOMAIN Tail(q) /\ Tail(q)[i - 1] = q[i]
           /\ \A i, j \in DOMAIN Tail(q) : i < j <=> i + 1 < j + 1
OBVIOUS

LEMMA OvertakenPlaces ==
    ASSUME wire \in Seq(Message), rx \in Seq(Message), NEW m \in Message,
           wire' = Append(wire, m), rx' = rx
    PROVE  \E p \in DOMAIN Pipe', now \in [DOMAIN Pipe -> DOMAIN Pipe'] :
              /\ Pipe'[p] = m
              /\ \A i \in DOMAIN Pipe : now[i] # p /\ Pipe'[now[i]] = Pipe[i]
              /\ \A i, j \in DOMAIN Pipe : i < j <=> now[i] < now[j]
              /\ \A k \in DOMAIN Pipe' : k = p \/ \E i \in DOMAIN Pipe : now[i] = k
<1> DEFINE p == Len(wire) + 1
           now == [i \in DOMAIN Pipe |-> IF i < p THEN i ELSE i + 1]
<1>1. /\ Pipe \in Seq(Message) /\ Pipe' \in Seq(Message) /\ Len(wire) \in Nat /\ Len(Pipe) \in Nat
      /\ Len(Pipe') = Len(Pipe) + 1 /\ Len(wire) <= Len(Pipe)
      /\ \A i \in 1 .. Len(Pipe') :
            Pipe'[i] = IF i <= Len(wire) THEN Pipe[i]
                       ELSE IF i = Len(wire) + 1 THEN m ELSE Pipe[i - 1]
  BY ResyncOvertakes, PipeIsSeq DEF Pipe
<1>2. DOMAIN Pipe = 1 .. Len(Pipe) /\ DOMAIN Pipe' = 1 .. Len(Pipe) + 1
  BY <1>1
<1>3. p \in DOMAIN Pipe' /\ Pipe'[p] = m
  <2>1. p \in 1 .. Len(Pipe') /\ ~(p <= Len(wire))
    BY <1>1
  <2> QED BY <1>1, <1>2, <2>1
<1>4. now \in [DOMAIN Pipe -> DOMAIN Pipe']
  BY <1>1, <1>2
<1>5. \A i \in DOMAIN Pipe : now[i] # p /\ Pipe'[now[i]] = Pipe[i]
  BY <1>1, <1>2
<1>6. \A i, j \in DOMAIN Pipe : i < j <=> now[i] < now[j]
  BY <1>1, <1>2
<1>7. ASSUME NEW k \in DOMAIN Pipe', k # p PROVE \E i \in DOMAIN Pipe : now[i] = k
  <2>1. CASE k < p
    BY <1>1, <1>2, <2>1
  <2>2. CASE k > p
    <3>1. k - 1 \in DOMAIN Pipe /\ now[k - 1] = k
      BY <1>1, <1>2, <2>2
    <3> QED BY <3>1
  <2> QED BY <1>1, <1>2, <1>7, <2>1, <2>2
<1> HIDE DEF p, now
<1> QED BY <1>3, <1>4, <1>5, <1>6, <1>7

LEMMA MaxOfTwo ==
    ASSUME NEW a \in Int, NEW b \in Int
    PROVE  Max({a, b}) = IF a >= b THEN a ELSE b
<1>1. PICK x \in {a, b} : \A y \in {a, b} : x >= y
  OBVIOUS
<1>2. Max({a, b}) \in {a, b} /\ \A y \in {a, b} : Max({a, b}) >= y
  BY <1>1 DEF Max
<1> QED BY <1>2

LEMMA MinOfTwo ==
    ASSUME NEW a \in Int, NEW b \in Int
    PROVE  Min({a, b}) = IF a <= b THEN a ELSE b
<1>1. PICK x \in {a, b} : \A y \in {a, b} : x <= y
  OBVIOUS
<1>2. Min({a, b}) \in {a, b} /\ \A y \in {a, b} : Min({a, b}) <= y
  BY <1>1 DEF Min
<1> QED BY <1>2

-----------------------------------------------------------------------------
(* The order of the pipe, and what a view paints of it. *)

(* A view shows only what it has seen, each byte once. *)
Painted == \A b \in Bytes : painted[b] <= 1 /\ (painted[b] # 0 => b < seen)

(* What is on its way was queued in the order the program wrote it. *)
Ordered ==
    /\ \A i \in DOMAIN Pipe : Shown(Pipe[i]) => seen <= Upto(Pipe[i]) /\ Upto(Pipe[i]) <= end
    /\ \A i \in DOMAIN Pipe : Pipe[i].kind = "Output" => seen <= Pipe[i].off
    /\ \A i, j \in DOMAIN Pipe : i < j /\ Shown(Pipe[i]) /\ Shown(Pipe[j]) =>
          /\ Upto(Pipe[i]) <= Upto(Pipe[j])
          /\ Pipe[j].kind = "Output" => Upto(Pipe[i]) <= Pipe[j].off

(* A resync is never queued behind a message: the writer sends it of itself. *)
Unqueued == \A i \in DOMAIN rx : rx[i].kind # "Resync"

PipeInv == TypeOK /\ Painted /\ Ordered /\ Unqueued

LEMMA InitPipe == Init => PipeInv
<1> SUFFICES ASSUME Init PROVE PipeInv OBVIOUS
<1>1. TypeOK
  <2>1. wire \in Seq(Message) /\ rx \in Seq(Message)
    BY DEF Init
  <2>2. painted \in [Bytes -> Nat]
    BY DEF Init, Blank
  <2>3. /\ exited \in BOOLEAN /\ attached \in BOOLEAN /\ resync \in BOOLEAN
        /\ connected \in BOOLEAN /\ pending \in BOOLEAN
    BY Zenon DEF Init
  <2> QED BY <2>1, <2>2, <2>3, StreamAssumption DEF Init, TypeOK
<1>2. Painted
  BY DEF Init, Painted, Blank
<1>3. Pipe = <<>> /\ rx = <<>>
  BY DEF Init, Pipe
<1> QED BY <1>1, <1>2, <1>3 DEF PipeInv, Ordered, Unqueued

(* What an action that queues one message m leaves of the pipe's order. *)
LEMMA QueuedInOrder ==
    ASSUME PipeInv, NEW m \in Message, m.kind # "Resync",
           rx' = Append(rx, m), wire' = wire, seen' = seen, end' \in Nat, end <= end',
           Shown(m) => Upto(m) = end', m.kind = "Output" => m.off = end
    PROVE  Ordered' /\ Unqueued'
<1> USE DEF PipeInv, TypeOK
<1>1. Pipe \in Seq(Message) /\ Pipe' = Append(Pipe, m) /\ rx' \in Seq(Message)
  BY PipeIsSeq, QueuedLast
<1>2. \A i \in DOMAIN Pipe : Pipe[i] \in Message
  BY <1>1
<1>3. Ordered'
  <2>1. /\ DOMAIN Pipe' = 1 .. Len(Pipe) + 1 /\ DOMAIN Pipe = 1 .. Len(Pipe)
        /\ \A i \in DOMAIN Pipe : Pipe'[i] = Pipe[i]
        /\ Pipe'[Len(Pipe) + 1] = m
    BY <1>1
  <2>2. \A i \in DOMAIN Pipe : Upto(Pipe[i]) \in Nat /\ Pipe[i].off \in Nat
    BY <1>2, MessageShape DEF Upto
  <2>3. end \in Nat /\ seen \in Nat /\ seen <= end /\ Len(Pipe) \in Nat
    BY <1>1
  <2> HIDE DEF TypeOK
  <2>4. \A i \in DOMAIN Pipe' : Shown(Pipe'[i]) => seen' <= Upto(Pipe'[i]) /\ Upto(Pipe'[i]) <= end'
    BY <2>1, <2>2, <2>3 DEF Ordered
  <2>5. \A i \in DOMAIN Pipe' : Pipe'[i].kind = "Output" => seen' <= Pipe'[i].off
    BY <2>1, <2>2, <2>3 DEF Ordered
  <2>6. ASSUME NEW i \in DOMAIN Pipe', NEW j \in DOMAIN Pipe', i < j, Shown(Pipe'[i]),
      Shown(Pipe'[j])
        PROVE  /\ Upto(Pipe'[i]) <= Upto(Pipe'[j])
               /\ Pipe'[j].kind = "Output" => Upto(Pipe'[i]) <= Pipe'[j].off
    <3>1. i \in DOMAIN Pipe
      BY <2>1, <2>3, <2>6
    <3>2. CASE j \in DOMAIN Pipe
      BY <2>1, <2>6, <3>1, <3>2 DEF Ordered
    <3>3. CASE j = Len(Pipe) + 1
      BY <2>1, <2>2, <2>3, <2>6, <3>1, <3>3 DEF Ordered
    <3> QED BY <2>1, <2>3, <3>2, <3>3
  <2> QED BY <2>4, <2>5, <2>6 DEF Ordered
<1>4. Unqueued'
  BY <1>1 DEF Unqueued
<1> QED BY <1>3, <1>4

LEMMA PumpPipe == ASSUME PipeInv, NEW n \in 1 .. Chunk, Pump(n) PROVE PipeInv'
<1> USE DEF PipeInv
<1>1. /\ end \in Nat /\ start \in Nat /\ n \in Nat /\ n > 0
      /\ end' = end + n /\ end' \in Nat /\ end' \in 0 .. MaxBytes
  BY StreamAssumption DEF TypeOK, Pump
<1>2. start' \in Nat /\ start' <= end' /\ end' <= start' + Capacity
  <2> DEFINE excess == end + n - start - Capacity
  <2>1. excess \in Int /\ Window \in Nat /\ Capacity \in Nat /\ start <= end /\ end <= start + Capacity
    BY <1>1, StreamAssumption DEF TypeOK
  <2>2. CASE excess <= 0
    BY <1>1, <2>1, <2>2 DEF Pump, TailStarts
  <2>3. CASE excess > 0
    <3>1. start' \in start + excess .. Min({end + n, start + excess + Window})
      BY <2>1, <2>3 DEF Pump, TailStarts
    <3>2. PICK m \in Int : m = Min({end + n, start + excess + Window}) /\ m <= end + n
      BY <1>1, <2>1, MinOfTwo
    <3>3. start' \in Int /\ start + excess <= start' /\ start' <= m
      BY <1>1, <2>1, <3>1, <3>2
    <3>4. \A z \in Int : start + excess <= z => z \in Nat /\ end + n <= z + Capacity
      BY <1>1, <2>1, <2>3
    <3>5. start' \in Nat /\ end + n <= start' + Capacity
      BY <3>3, <3>4
    <3> QED BY <1>1, <3>2, <3>3, <3>5
  <2> QED BY <2>1, <2>2, <2>3
<1>3. CASE rx' = rx
  <2>1. resync' \in BOOLEAN
    BY Zenon DEF Pump, SendOutput, TypeOK
  <2>2. TypeOK'
    BY <1>1, <1>2, <1>3, <2>1 DEF TypeOK, Pump, link, view
  <2>3. Pipe' = Pipe /\ \A i \in DOMAIN Pipe : Pipe[i] \in Message
    BY <1>3, PipeIsSeq DEF TypeOK, Pump, link, Pipe
  <2>4. Painted' /\ Ordered' /\ Unqueued'
    BY <1>1, <1>3, <2>3, MessageShape DEF TypeOK, Pump, link, view, Painted, Ordered, Unqueued,
                                          Upto
  <2> QED BY <2>2, <2>4
<1>4. CASE rx' = Append(rx, Output(end, n))
  <2>1. /\ Output(end, n) \in Message /\ Output(end, n).kind = "Output"
        /\ Output(end, n).off = end /\ Upto(Output(end, n)) = end'
    BY <1>1, Messages DEF TypeOK, Output, Upto
  <2>2. Ordered' /\ Unqueued'
    BY <1>1, <1>4, <2>1, QueuedInOrder DEF Pump, link, view, TypeOK
  <2>3. rx' \in Seq(Message) /\ resync' \in BOOLEAN
    BY <1>4, <2>1 DEF Pump, SendOutput, Enqueue, TypeOK
  <2>4. TypeOK'
    BY <1>1, <1>2, <2>3 DEF TypeOK, Pump, link, view
  <2>5. Painted'
    BY DEF Painted, Pump, view
  <2> QED BY <2>2, <2>4, <2>5
<1> QED BY <1>3, <1>4 DEF Pump, SendOutput, Enqueue

(* The exit, an attach and another terminal's message join the queue. *)
LEMMA QueuePipe == ASSUME PipeInv, Finish \/ Attach \/ OtherTraffic PROVE PipeInv'
<1> USE DEF PipeInv, link, view, queue, session
<1>1. CASE Finish /\ ~attached
  <2>1. TypeOK'
    <3>1. exited' \in BOOLEAN /\ attached' \in BOOLEAN
      BY <1>1, Zenon DEF Finish
    <3> QED BY <1>1, <3>1 DEF Finish, TypeOK
  <2>2. Pipe' = Pipe
    BY <1>1 DEF Finish, Pipe
  <2> QED BY <1>1, <2>1, <2>2 DEF Finish, Painted, Ordered, Unqueued
<1>2. CASE Finish /\ attached
  <2>1. Bare("Exited") \in Message /\ Bare("Exited").kind = "Exited"
    BY Messages DEF Bare
  <2>2. Ordered' /\ Unqueued' /\ rx' \in Seq(Message)
    BY <1>2, <2>1, QueuedInOrder, QueuedLast DEF Finish, Enqueue, TypeOK, Shown
  <2>3. TypeOK'
    <3>1. exited' \in BOOLEAN /\ attached' \in BOOLEAN
      BY <1>2, Zenon DEF Finish
    <3> QED BY <1>2, <2>2, <3>1 DEF Finish, TypeOK
  <2> QED BY <1>2, <2>2, <2>3 DEF Finish, Painted
<1>3. CASE Attach
  <2> DEFINE m == Snapshot(start, end, exited)
  <2>1. m \in Message /\ m.kind = "Snapshot" /\ Upto(m) = end
    BY Messages DEF Snapshot, Upto, TypeOK
  <2> HIDE DEF m
  <2>2. Ordered' /\ Unqueued' /\ rx' \in Seq(Message)
    BY <1>3, <2>1, QueuedInOrder, QueuedLast DEF Attach, Enqueue, TypeOK, m
  <2>3. attached' \in BOOLEAN
    BY <1>3 DEF Attach, TypeOK
  <2>4. TypeOK'
    BY <1>3, <2>2, <2>3 DEF Attach, TypeOK
  <2> QED BY <1>3, <2>2, <2>4 DEF Attach, Painted
<1>4. CASE OtherTraffic
  <2>1. Bare("Other") \in Message /\ Bare("Other").kind = "Other"
    BY Messages DEF Bare
  <2>2. Ordered' /\ Unqueued' /\ rx' \in Seq(Message)
    BY <1>4, <2>1, QueuedInOrder, QueuedLast DEF OtherTraffic, Enqueue, TypeOK, Shown
  <2>3. TypeOK'
    BY <1>4, <2>2 DEF OtherTraffic, TypeOK
  <2> QED BY <1>4, <2>2, <2>3 DEF OtherTraffic, Painted
<1> QED BY <1>1, <1>2, <1>3, <1>4

LEMMA WriterPipe == ASSUME PipeInv, Writer PROVE PipeInv'
<1> USE DEF PipeInv, link, view, queue, session
<1>1. CASE WriterTakesMessage
  <2>1. Pipe' = Pipe /\ wire' \in Seq(Message) /\ rx' \in Seq(Message)
    BY <1>1, MovedAlong DEF WriterTakesMessage, TypeOK
  <2>2. TypeOK'
    BY <1>1, <2>1 DEF WriterTakesMessage, TypeOK
  <2>3. Unqueued'
    BY <1>1, <2>1 DEF WriterTakesMessage, Unqueued, TypeOK
  <2> QED BY <1>1, <2>1, <2>2, <2>3 DEF WriterTakesMessage, Painted, Ordered
<1>2. CASE WriterCounts \/ WriterChecks \/ WriterTimesOut \/ WriterTakesResync
  <2>1. Pipe' = Pipe
    BY <1>2 DEF WriterCounts, WriterChecks, WriterTimesOut, WriterTakesResync, Pipe
  <2>2. TypeOK'
    BY <1>2 DEF WriterCounts, WriterChecks, WriterTimesOut, WriterTakesResync, TypeOK
  <2> QED BY <1>2, <2>1, <2>2 DEF WriterCounts, WriterChecks, WriterTimesOut, WriterTakesResync,
                                  Painted, Ordered, Unqueued
<1>3. CASE WriterTellsResync
  <2> DEFINE m == Bare("Resync")
  <2>1. m \in Message /\ m.kind = "Resync"
    BY Messages DEF Bare
  <2> HIDE DEF m
  <2>2. /\ wire' \in Seq(Message) /\ Len(Pipe') = Len(Pipe) + 1 /\ Len(wire) <= Len(Pipe)
        /\ \A i \in 1 .. Len(Pipe') :
              Pipe'[i] = IF i <= Len(wire) THEN Pipe[i]
                         ELSE IF i = Len(wire) + 1 THEN m ELSE Pipe[i - 1]
    BY <1>3, <2>1, ResyncOvertakes DEF WriterTellsResync, TypeOK, m
  <2>3. TypeOK'
    BY <1>3, <2>2 DEF WriterTellsResync, TypeOK
  <2>4. Pipe \in Seq(Message) /\ Pipe' \in Seq(Message)
    BY <1>3, <2>2, PipeIsSeq DEF WriterTellsResync, TypeOK, Pipe
  <2>5. Ordered'
    <3> DEFINE was(i) == IF i <= Len(wire) THEN i ELSE i - 1
    <3>1. \A i \in DOMAIN Pipe' : Shown(Pipe'[i]) =>
             was(i) \in DOMAIN Pipe /\ Pipe'[i] = Pipe[was(i)] /\ i # Len(wire) + 1
      BY <2>1, <2>2, <2>4 DEF Shown, TypeOK
    <3>2. \A i, j \in DOMAIN Pipe' :
             i < j /\ i # Len(wire) + 1 /\ j # Len(wire) + 1 => was(i) < was(j)
      BY <2>4 DEF TypeOK
    <3>3. \A i \in DOMAIN Pipe' : Pipe'[i].kind = "Output" => Shown(Pipe'[i])
      BY DEF Shown
    <3> HIDE DEF was
    <3> QED BY <1>3, <3>1, <3>2, <3>3 DEF WriterTellsResync, Ordered
  <2> QED BY <1>3, <2>3, <2>5 DEF WriterTellsResync, Painted, Unqueued
<1> QED BY <1>1, <1>2, <1>3 DEF Writer

(* The view takes the first message m of the pipe, having seen all of it. *)
LEMMA TakenInOrder ==
    ASSUME PipeInv, Pipe # <<>>, NEW m, m = Head(Pipe), Pipe' = Tail(Pipe), end' = end,
           seen' = IF Shown(m) THEN Upto(m) ELSE seen
    PROVE  Ordered' /\ m \in Message /\ (Shown(m) => seen <= Upto(m) /\ Upto(m) <= end)
<1> USE DEF PipeInv
<1>1. Pipe \in Seq(Message)
  BY PipeIsSeq DEF TypeOK
<1>2. /\ m \in Message /\ m = Pipe[1] /\ 1 \in DOMAIN Pipe /\ DOMAIN Pipe = 1 .. Len(Pipe)
      /\ \A i \in DOMAIN Pipe' : Pipe'[i] = Pipe[i + 1] /\ i + 1 \in DOMAIN Pipe /\ 1 < i + 1
      /\ \A i, j \in DOMAIN Pipe' : i < j => i + 1 < j + 1
  BY <1>1
<1>3. Shown(m) => seen <= Upto(m) /\ Upto(m) <= end
  BY <1>2 DEF Ordered
<1>4. \A i \in DOMAIN Pipe' : Shown(Pipe'[i]) => seen' <= Upto(Pipe'[i]) /\ Upto(Pipe'[i]) <= end'
  BY <1>2 DEF Ordered
<1>5. \A i \in DOMAIN Pipe' : Pipe'[i].kind = "Output" => seen' <= Pipe'[i].off
  BY <1>2 DEF Ordered, Shown
<1>6. ASSUME NEW i \in DOMAIN Pipe', NEW j \in DOMAIN Pipe', i < j, Shown(Pipe'[i]),
    Shown(Pipe'[j])
      PROVE  /\ Upto(Pipe'[i]) <= Upto(Pipe'[j])
             /\ Pipe'[j].kind = "Output" => Upto(Pipe'[i]) <= Pipe'[j].off
  BY <1>2, <1>6 DEF Ordered
<1> QED BY <1>2, <1>3, <1>4, <1>5, <1>6 DEF Ordered

(* A view has never seen any of the output it is handed. *)
LEMMA NothingSeenTwice ==
    ASSUME PipeInv, Pipe # <<>>, NEW m, m = Head(Pipe), m.kind = "Output"
    PROVE  /\ Unseen(m.off, m.len, seen) = m.off .. Upto(m) - 1 /\ seen <= m.off
           /\ Max({seen, m.off + m.len}) = Upto(m) /\ seen < Upto(m)
<1>1. Pipe \in Seq(Message) /\ 1 \in DOMAIN Pipe /\ m = Pipe[1] /\ m \in Message
  BY PipeIsSeq DEF PipeInv, TypeOK
<1>2. m.off \in Nat /\ m.len \in Nat /\ m.len > 0 /\ seen \in Nat
  BY <1>1, MessageShape DEF PipeInv, TypeOK
<1>3. seen <= m.off
  BY <1>1 DEF PipeInv, Ordered
<1> QED BY <1>2, <1>3, MaxOfTwo DEF Unseen, Upto

LEMMA ReceivePipe == ASSUME PipeInv, Receive PROVE PipeInv'
<1> USE DEF PipeInv, view, queue, session
<1> DEFINE m == Head(wire)
<1>1. /\ Pipe # <<>> /\ m = Head(Pipe) /\ Pipe' = Tail(Pipe) /\ wire' \in Seq(Message)
      /\ rx' = rx /\ end' = end
  BY TakenFirst DEF Receive, TypeOK
<1>2. m \in Message
  BY DEF Receive, TypeOK
<1>3. m.kind = "Output" \/ m.kind = "Snapshot" \/ m.kind \in {"Exited", "Resync", "Other"}
  BY <1>2, MessageShape
<1>4. CASE m.kind = "Output"
  <2>1. Feed(m)
    BY <1>4 DEF Receive
  <2>2. /\ seen' = Upto(m) /\ seen < Upto(m)
        /\ painted' = [b \in Bytes |-> painted[b] + IF b \in m.off .. Upto(m) - 1 THEN 1 ELSE 0]
        /\ seen <= m.off
    BY <1>1, <1>4, <2>1, NothingSeenTwice DEF Feed, Paint
  <2>3. Ordered' /\ seen' <= end
    BY <1>1, <1>4, <2>2, TakenInOrder DEF Shown
  <2>4. m.off \in Nat /\ m.len \in Nat /\ Upto(m) \in Nat
    BY <1>2, MessageShape DEF Upto
  <2>5. TypeOK'
    <3>1. UNCHANGED <<status, pending, from, asks, connected, session, rx, resync, phase, exitEnd>>
      BY <2>1 DEF Receive, Feed
    <3>2. painted' \in [Bytes -> Nat]
      BY <2>2 DEF TypeOK
    <3>3. seen' \in 0 .. end' /\ from' <= seen'
      BY <1>1, <2>2, <2>3, <2>4, <3>1 DEF TypeOK
    <3> QED BY <1>1, <3>1, <3>2, <3>3 DEF TypeOK
  <2>6. Painted'
    <3>1. ASSUME NEW b \in Bytes PROVE painted'[b] <= 1 /\ (painted'[b] # 0 => b < seen')
      <4>1. painted[b] \in Nat /\ b \in Nat /\ painted[b] <= 1 /\ (painted[b] # 0 => b < seen)
        BY DEF Painted, TypeOK, Bytes
      <4>2. painted'[b] = painted[b] + IF b \in m.off .. Upto(m) - 1 THEN 1 ELSE 0
        BY <2>2
      <4>3. CASE b \in m.off .. Upto(m) - 1
        <5>1. painted[b] = 0
          BY <2>2, <2>4, <4>1, <4>3 DEF TypeOK
        <5> QED BY <2>2, <2>4, <4>2, <4>3, <5>1
      <4>4. CASE b \notin m.off .. Upto(m) - 1
        BY <2>2, <2>4, <4>1, <4>2, <4>4 DEF TypeOK
      <4> QED BY <4>3, <4>4
    <3> QED BY <3>1 DEF Painted
  <2> QED BY <1>1, <2>3, <2>5, <2>6 DEF Unqueued
<1>5. CASE m.kind = "Snapshot"
  <2>1. ApplySnapshot(m) /\ seen' = Upto(m)
    BY <1>5 DEF Receive, ApplySnapshot, Upto
  <2>2. Ordered' /\ seen' <= end
    BY <1>1, <1>5, <2>1, TakenInOrder DEF Shown
  <2>3. m.off \in Nat /\ m.len \in Nat /\ Upto(m) \in Nat /\ m.off <= Upto(m)
    BY <1>2, MessageShape DEF Upto
  <2>4. painted' = [b \in Bytes |-> IF b \in m.off .. m.off + m.len - 1 THEN 1 ELSE 0]
    BY <2>1, Zenon DEF ApplySnapshot
  <2>7. pending' \in BOOLEAN
    BY <2>1, Zenon DEF ApplySnapshot
  <2>5. TypeOK'
    BY <1>1, <2>1, <2>2, <2>3, <2>4, <2>7 DEF Receive, ApplySnapshot, TypeOK
  <2>6. Painted'
    BY <2>1, <2>3, <2>4 DEF Painted, Bytes, Upto
  <2> QED BY <1>1, <2>2, <2>5, <2>6 DEF Unqueued
<1>6. CASE m.kind \in {"Exited", "Resync", "Other"}
  <2>1. seen' = seen /\ painted' = painted
    BY <1>6 DEF Receive
  <2>2. Ordered'
    BY <1>1, <1>6, <2>1, TakenInOrder DEF Shown
  <2>3. pending' \in BOOLEAN
    BY <1>6 DEF Receive, TypeOK
  <2>4. TypeOK'
    BY <1>1, <1>6, <2>1, <2>3 DEF Receive, TypeOK
  <2> QED BY <1>1, <2>1, <2>2, <2>4 DEF Unqueued, Painted
<1> QED BY <1>3, <1>4, <1>5, <1>6

LEMMA LinkPipe == ASSUME PipeInv, AskAttach \/ Lose \/ Reconnect PROVE PipeInv'
<1> USE DEF PipeInv, view, queue, session
<1>1. CASE AskAttach \/ Reconnect
  <2>1. Pipe' = Pipe
    BY <1>1 DEF AskAttach, Reconnect, Pipe
  <2>2. pending' \in BOOLEAN /\ connected' \in BOOLEAN
    BY <1>1, Zenon DEF AskAttach, Reconnect, TypeOK
  <2>3. TypeOK'
    BY <1>1, <2>2 DEF AskAttach, Reconnect, TypeOK
  <2> QED BY <1>1, <2>1, <2>3 DEF AskAttach, Reconnect, Painted, Ordered, Unqueued
<1>2. CASE Lose
  <2>1. Pipe' = <<>> /\ rx' = <<>>
    BY <1>2 DEF Lose, Pipe
  <2>2. pending' \in BOOLEAN /\ connected' \in BOOLEAN /\ attached' \in BOOLEAN /\ resync' \in BOOLEAN
    BY <1>2, Zenon DEF Lose
  <2>3. TypeOK'
    BY <1>2, <2>2 DEF Lose, TypeOK
  <2>4. Painted'
    BY <1>2 DEF Lose, Painted
  <2> QED BY <2>1, <2>3, <2>4 DEF Ordered, Unqueued
<1> QED BY <1>1, <1>2

LEMMA NextPipe == PipeInv /\ [Next]_vars => PipeInv'
<1> SUFFICES ASSUME PipeInv, [Next]_vars PROVE PipeInv' OBVIOUS
<1>1. CASE UNCHANGED vars
  <2>1. TypeOK'
    BY <1>1 DEF vars, session, queue, link, view, PipeInv, TypeOK
  <2>2. UNCHANGED <<Pipe, rx, painted, seen, end>>
    BY <1>1 DEF vars, session, queue, link, view, Pipe
  <2>3. Painted' /\ Ordered' /\ Unqueued'
    BY <2>2 DEF PipeInv, Painted, Ordered, Unqueued
  <2> QED BY <2>1, <2>3 DEF PipeInv
<1> QED BY <1>1, PumpPipe, QueuePipe, WriterPipe, ReceivePipe, LinkPipe DEF Next

LEMMA AlwaysPipe == Spec => []PipeInv
BY InitPipe, NextPipe, PTL DEF Spec

(* No byte is painted twice: all that is on its way to the view lies past what
   it has seen. *)
THEOREM NoBytePaintedTwice == Spec => []PaintedOnce
<1>1. PipeInv => PaintedOnce
  BY DEF PipeInv, Painted, PaintedOnce
<1> QED BY <1>1, AlwaysPipe, PTL

-----------------------------------------------------------------------------
(* The order of a session's messages: its snapshot first, its exit last. *)

(* Nothing is on its way over a connection that is lost. *)
Cut == ~connected => Pipe = <<>> /\ asks = 0 /\ ~attached /\ ~resync /\ phase # "tell"

(* A view that attaches has its snapshot before anything else of the session. *)
SnapshotFirst == status = "Connecting" =>
    /\ \A j \in DOMAIN Pipe : Pipe[j].kind \in {"Output", "Exited"} =>
          \E i \in DOMAIN Pipe : i < j /\ Pipe[i].kind = "Snapshot"
    /\ attached => \E i \in DOMAIN Pipe : Pipe[i].kind = "Snapshot"

(* What tells of the exit comes after the exit, and last. *)
Final ==
    /\ exited => ~attached
    /\ ~exited => exitEnd = 0
    /\ status = "Exited" => exited /\ \A j \in DOMAIN Pipe : Pipe[j].kind # "Output" /\ ~Opens(Pipe[j])
    /\ \A i \in DOMAIN Pipe : Closes(Pipe[i]) =>
          /\ exited
          /\ Pipe[i].kind = "Snapshot" => Upto(Pipe[i]) >= exitEnd
          /\ \A j \in DOMAIN Pipe : i < j => Pipe[j].kind # "Output" /\ ~Opens(Pipe[j])

(* A view that runs, or will, is attached or about to hear of the exit. *)
Heard ==
    /\ connected /\ status = "Running" =>
          attached \/ \E j \in DOMAIN Pipe : Pipe[j].kind = "Exited"
    /\ \A i \in DOMAIN Pipe : Opens(Pipe[i]) =>
          attached \/ \E j \in DOMAIN Pipe : i < j /\ Pipe[j].kind = "Exited"

OrderInv == Cut /\ SnapshotFirst /\ Final /\ Heard

LEMMA InitOrder == Init => OrderInv
<1> SUFFICES ASSUME Init PROVE OrderInv OBVIOUS
<1>1. Pipe = <<>>
  BY DEF Init, Pipe
<1> QED BY <1>1 DEF Init, OrderInv, Cut, SnapshotFirst, Final, Heard

(* A message that joins the pipe comes after what was in it. *)
LEMMA QueuedAfterSnapshot ==
    ASSUME Pipe \in Seq(Message), NEW m \in Message, Pipe' = Append(Pipe, m), status' = status,
           SnapshotFirst, m.kind \in {"Output", "Exited"} => attached,
           attached' => attached \/ m.kind = "Snapshot"
    PROVE  SnapshotFirst'
<1> SUFFICES ASSUME status = "Connecting" PROVE SnapshotFirst'
  BY DEF SnapshotFirst
<1> DEFINE n == Len(Pipe) + 1
<1>1. /\ Len(Pipe) \in Nat /\ DOMAIN Pipe = 1 .. Len(Pipe) /\ DOMAIN Pipe' = 1 .. n
      /\ \A i \in DOMAIN Pipe : i \in DOMAIN Pipe' /\ Pipe'[i] = Pipe[i] /\ i < n
      /\ n \in DOMAIN Pipe' /\ Pipe'[n] = m
      /\ \A i \in DOMAIN Pipe' : i \in DOMAIN Pipe \/ i = n
  BY QueuedPlaces
<1> HIDE DEF n
<1>2. ASSUME attached' PROVE \E i \in DOMAIN Pipe' : Pipe'[i].kind = "Snapshot"
  BY <1>1, <1>2 DEF SnapshotFirst
<1>3. ASSUME NEW j \in DOMAIN Pipe', Pipe'[j].kind \in {"Output", "Exited"}
      PROVE  \E i \in DOMAIN Pipe' : i < j /\ Pipe'[i].kind = "Snapshot"
  <2>1. CASE j \in DOMAIN Pipe
    BY <1>1, <1>3, <2>1 DEF SnapshotFirst
  <2>2. CASE j = n
    BY <1>1, <1>3, <2>2 DEF SnapshotFirst
  <2> QED BY <1>1, <2>1, <2>2
<1> QED BY <1>2, <1>3 DEF SnapshotFirst

LEMMA QueuedHeard ==
    ASSUME Pipe \in Seq(Message), NEW m \in Message, Pipe' = Append(Pipe, m),
           status' = status, connected' = connected, Heard,
           Opens(m) => attached', attached => attached' \/ m.kind = "Exited"
    PROVE  Heard'
<1> DEFINE n == Len(Pipe) + 1
<1>1. /\ Len(Pipe) \in Nat /\ DOMAIN Pipe = 1 .. Len(Pipe) /\ DOMAIN Pipe' = 1 .. n
      /\ \A i \in DOMAIN Pipe : i \in DOMAIN Pipe' /\ Pipe'[i] = Pipe[i] /\ i < n
      /\ n \in DOMAIN Pipe' /\ Pipe'[n] = m
      /\ \A i \in DOMAIN Pipe' : i \in DOMAIN Pipe \/ i = n
  BY QueuedPlaces
<1> HIDE DEF n
<1>2. ASSUME connected', status' = "Running"
      PROVE  attached' \/ \E j \in DOMAIN Pipe' : Pipe'[j].kind = "Exited"
  BY <1>1, <1>2 DEF Heard
<1>3. ASSUME NEW i \in DOMAIN Pipe', Opens(Pipe'[i]), ~attached'
      PROVE  \E j \in DOMAIN Pipe' : i < j /\ Pipe'[j].kind = "Exited"
  <2>1. i \in DOMAIN Pipe /\ Opens(Pipe[i])
    BY <1>1, <1>3
  <2>2. CASE attached
    BY <1>1, <1>3, <2>1, <2>2
  <2>3. CASE ~attached
    BY <1>1, <2>1, <2>3 DEF Heard
  <2> QED BY <2>2, <2>3
<1> QED BY <1>2, <1>3 DEF Heard

(* Messages join the pipe. *)
LEMMA QueueOrder ==
    ASSUME PipeInv, OrderInv, (\E n \in 1 .. Chunk : Pump(n)) \/ Finish \/ Attach
        \/ OtherTraffic
    PROVE  OrderInv'
<1> USE DEF OrderInv, link, view, queue, session
<1>1. /\ Pipe \in Seq(Message) /\ wire \in Seq(Message) /\ rx \in Seq(Message)
      /\ end \in Nat /\ exitEnd \in Nat /\ exitEnd <= end
      /\ exited \in BOOLEAN /\ attached \in BOOLEAN
  BY PipeIsSeq DEF PipeInv, TypeOK
<1>2. CASE rx' = rx
  <2>1. Pipe' = Pipe
    BY <1>2 DEF Pump, Finish, Attach, Enqueue, OtherTraffic, Pipe
  <2>2. CASE \E n \in 1 .. Chunk : Pump(n)
    BY <1>1, <2>1, <2>2 DEF Pump, Cut, SnapshotFirst, Final, Heard
  <2>3. CASE Finish
    BY <1>1, <1>2, <2>1, <2>3 DEF Finish, Enqueue, Cut, SnapshotFirst, Final, Heard, Closes
  <2>4. rx # Append(rx, Bare("Other")) /\ rx # Append(rx, Snapshot(start, end, exited))
    BY <1>1
  <2> QED BY <1>2, <2>2, <2>3, <2>4 DEF Attach, OtherTraffic, Enqueue
<1>3. CASE \E n \in 1 .. Chunk : Pump(n) /\ attached /\ rx' = Append(rx, Output(end, n))
  <2>1. PICK n \in 1 .. Chunk : Pump(n) /\ attached /\ rx' = Append(rx, Output(end, n))
    BY <1>3
  <2> DEFINE m == Output(end, n)
  <2>2. m \in Message /\ m.kind = "Output"
    BY <1>1, <2>1, Messages DEF Pump, Output, PipeInv, TypeOK
  <2>3. Pipe' = Append(Pipe, m)
    BY <1>1, <2>1, <2>2, QueuedLast DEF Pump
  <2> HIDE DEF m
  <2>4. Cut'
    BY <1>1, <2>1, <2>2, <2>3, QueuedPlaces DEF Pump, Cut
  <2>5. SnapshotFirst'
    BY <1>1, <2>1, <2>2, <2>3, QueuedAfterSnapshot DEF Pump
  <2>6. Final'
    BY <1>1, <2>1, <2>2, <2>3, QueuedPlaces DEF Pump, Final, Closes, Opens
  <2>7. Heard'
    BY <1>1, <2>1, <2>2, <2>3, QueuedHeard DEF Pump, Opens
  <2> QED BY <2>4, <2>5, <2>6, <2>7
<1>4. CASE Finish /\ attached
  <2> DEFINE m == Bare("Exited")
  <2>2. m \in Message /\ m.kind = "Exited"
    BY Messages DEF Bare
  <2>3. Pipe' = Append(Pipe, m)
    BY <1>1, <1>4, <2>2, QueuedLast DEF Finish, Enqueue
  <2> HIDE DEF m
  <2>4. Cut'
    BY <1>1, <1>4, <2>2, <2>3, QueuedPlaces DEF Finish, Cut
  <2>5. SnapshotFirst'
    BY <1>1, <1>4, <2>2, <2>3, QueuedAfterSnapshot DEF Finish
  <2>6. Final'
    BY <1>1, <1>4, <2>2, <2>3, QueuedPlaces DEF Finish, Final, Closes, Opens
  <2>7. Heard'
    BY <1>1, <1>4, <2>2, <2>3, QueuedHeard DEF Finish, Opens
  <2> QED BY <2>4, <2>5, <2>6, <2>7
<1>5. CASE Attach
  <2> DEFINE m == Snapshot(start, end, exited)
  <2>2. m \in Message /\ m.kind = "Snapshot" /\ Upto(m) = end /\ m.exited = exited
    BY <1>1, Messages DEF Snapshot, Upto, PipeInv, TypeOK
  <2>3. Pipe' = Append(Pipe, m)
    BY <1>1, <1>5, <2>2, QueuedLast DEF Attach, Enqueue
  <2> HIDE DEF m
  <2>4. Cut'
    BY <1>1, <1>5, <2>2, <2>3, QueuedPlaces DEF Attach, Cut
  <2>5. SnapshotFirst'
    BY <1>1, <1>5, <2>2, <2>3, QueuedAfterSnapshot DEF Attach
  <2>6. Final'
    BY <1>1, <1>5, <2>2, <2>3, QueuedPlaces DEF Attach, Final, Closes, Opens
  <2>7. Heard'
    BY <1>1, <1>5, <2>2, <2>3, QueuedHeard DEF Attach, Opens
  <2> QED BY <2>4, <2>5, <2>6, <2>7
<1>6. CASE OtherTraffic
  <2> DEFINE m == Bare("Other")
  <2>2. m \in Message /\ m.kind = "Other"
    BY Messages DEF Bare
  <2>3. Pipe' = Append(Pipe, m)
    BY <1>1, <1>6, <2>2, QueuedLast DEF OtherTraffic, Enqueue
  <2> HIDE DEF m
  <2>4. Cut'
    BY <1>1, <1>6, <2>2, <2>3, QueuedPlaces DEF OtherTraffic, Cut
  <2>5. SnapshotFirst'
    BY <1>1, <1>6, <2>2, <2>3, QueuedAfterSnapshot DEF OtherTraffic
  <2>6. Final'
    BY <1>1, <1>6, <2>2, <2>3, QueuedPlaces DEF OtherTraffic, Final, Closes, Opens
  <2>7. Heard'
    BY <1>1, <1>6, <2>2, <2>3, QueuedHeard DEF OtherTraffic, Opens
  <2> QED BY <2>4, <2>5, <2>6, <2>7
<1> QED BY <1>2, <1>3, <1>4, <1>5, <1>6 DEF Pump, SendOutput, Enqueue, Finish

LEMMA WriterOrder == ASSUME PipeInv, OrderInv, Writer PROVE OrderInv'
<1> USE DEF OrderInv, link, view, queue, session
<1>1. CASE WriterTakesMessage
  <2>1. Pipe' = Pipe /\ Pipe # <<>>
    BY <1>1, MovedAlong DEF WriterTakesMessage, PipeInv, TypeOK, Pipe
  <2> QED BY <1>1, <2>1 DEF WriterTakesMessage, Cut, SnapshotFirst, Final, Heard
<1>2. CASE WriterCounts \/ WriterChecks \/ WriterTimesOut \/ WriterTakesResync
  <2>1. Pipe' = Pipe
    BY <1>2 DEF WriterCounts, WriterChecks, WriterTimesOut, WriterTakesResync, Pipe
  <2> QED BY <1>2, <2>1 DEF WriterCounts, WriterChecks, WriterTimesOut, WriterTakesResync,
                            Cut, SnapshotFirst, Final, Heard
<1>3. CASE WriterTellsResync
  <2> DEFINE m == Bare("Resync")
  <2>1. m \in Message /\ m.kind = "Resync"
    BY Messages DEF Bare
  <2>2. PICK p \in DOMAIN Pipe', now \in [DOMAIN Pipe -> DOMAIN Pipe'] :
                /\ Pipe'[p] = m
                /\ \A i \in DOMAIN Pipe : now[i] # p /\ Pipe'[now[i]] = Pipe[i]
                /\ \A i, j \in DOMAIN Pipe : i < j <=> now[i] < now[j]
                /\ \A k \in DOMAIN Pipe' : k = p \/ \E i \in DOMAIN Pipe : now[i] = k
    BY <1>3, <2>1, OvertakenPlaces DEF WriterTellsResync, PipeInv, TypeOK
  <2> HIDE DEF m
  <2>4. Cut'
    BY <1>3 DEF WriterTellsResync, Cut
  <2>5. SnapshotFirst'
    BY <1>3, <2>1, <2>2 DEF WriterTellsResync, SnapshotFirst
  <2>6. Final'
    BY <1>3, <2>1, <2>2 DEF WriterTellsResync, Final, Closes, Opens
  <2>7. Heard'
    BY <1>3, <2>1, <2>2 DEF WriterTellsResync, Heard, Opens
  <2> QED BY <2>4, <2>5, <2>6, <2>7
<1> QED BY <1>1, <1>2, <1>3 DEF Writer

LEMMA ReceiveOrder == ASSUME PipeInv, OrderInv, Receive PROVE OrderInv'
<1> USE DEF OrderInv, view, queue, session
<1> DEFINE m == Head(wire)
<1>1. /\ Pipe # <<>> /\ m = Head(Pipe) /\ Pipe' = Tail(Pipe) /\ Pipe \in Seq(Message)
      /\ m \in Message
  BY TakenFirst, PipeIsSeq DEF Receive, PipeInv, TypeOK
<1>2. /\ 1 \in DOMAIN Pipe /\ Pipe[1] = m
      /\ DOMAIN Pipe \subseteq Nat /\ DOMAIN Pipe' \subseteq Nat
      /\ \A i \in DOMAIN Pipe' : i + 1 \in DOMAIN Pipe /\ Pipe'[i] = Pipe[i + 1] /\ 1 < i + 1
      /\ \A i \in DOMAIN Pipe : i # 1 => i - 1 \in DOMAIN Pipe' /\ Pipe'[i - 1] = Pipe[i]
      /\ \A i, j \in DOMAIN Pipe' : i < j <=> i + 1 < j + 1
  BY <1>1, TakenPlaces
<1>3. /\ m.kind \in {"Output", "Snapshot", "Exited", "Resync", "Other"}
      /\ m.kind = "Snapshot" => m.exited \in BOOLEAN
  BY <1>1, MessageShape
<1>4. /\ m.kind \in {"Output", "Resync", "Other"} => status' = status
      /\ m.kind = "Exited" => status' = "Exited"
      /\ m.kind = "Snapshot" => status' = IF m.exited THEN "Exited" ELSE "Running"
  BY DEF Receive, Feed, ApplySnapshot
<1>5. UNCHANGED <<exited, attached, exitEnd, end, resync, phase, connected>> /\ connected
  BY <1>1 DEF Receive, Cut
<1> HIDE DEF m
<1>6. Cut'
  BY <1>5 DEF Cut
<1>7. SnapshotFirst'
  <2> SUFFICES ASSUME status' = "Connecting" PROVE SnapshotFirst'
    BY DEF SnapshotFirst
  <2>1. status = "Connecting" /\ m.kind # "Snapshot"
    BY <1>3, <1>4
  <2>2. ASSUME NEW j \in DOMAIN Pipe', Pipe'[j].kind \in {"Output", "Exited"}
        PROVE  \E i \in DOMAIN Pipe' : i < j /\ Pipe'[i].kind = "Snapshot"
    <3>1. PICK i \in DOMAIN Pipe : i < j + 1 /\ Pipe[i].kind = "Snapshot"
      BY <1>2, <2>1, <2>2 DEF SnapshotFirst
    <3>2. i # 1 /\ i - 1 < j
      BY <1>2, <2>1, <3>1
    <3> QED BY <1>2, <3>1, <3>2
  <2>3. ASSUME attached' PROVE \E i \in DOMAIN Pipe' : Pipe'[i].kind = "Snapshot"
    BY <1>2, <1>5, <2>1, <2>3 DEF SnapshotFirst
  <2> QED BY <2>2, <2>3 DEF SnapshotFirst
<1>8. Final'
  BY <1>2, <1>3, <1>4, <1>5 DEF Final, Closes, Opens
<1>9. Heard'
  <2>1. ASSUME connected', status' = "Running"
        PROVE  attached' \/ \E j \in DOMAIN Pipe' : Pipe'[j].kind = "Exited"
    <3>1. CASE m.kind = "Snapshot"
      BY <1>2, <1>3, <1>4, <1>5, <2>1, <3>1 DEF Heard, Opens
    <3>2. CASE m.kind # "Snapshot"
      BY <1>2, <1>3, <1>4, <1>5, <2>1, <3>2 DEF Heard
    <3> QED BY <3>1, <3>2
  <2>2. ASSUME NEW i \in DOMAIN Pipe', Opens(Pipe'[i]), ~attached'
        PROVE  \E j \in DOMAIN Pipe' : i < j /\ Pipe'[j].kind = "Exited"
    <3>1. PICK j \in DOMAIN Pipe : i + 1 < j /\ Pipe[j].kind = "Exited"
      BY <1>2, <1>5, <2>2 DEF Heard
    <3>2. j # 1 /\ i < j - 1
      BY <1>2, <3>1
    <3> QED BY <1>2, <3>1, <3>2
  <2> QED BY <2>1, <2>2 DEF Heard
<1> QED BY <1>6, <1>7, <1>8, <1>9

LEMMA LinkOrder == ASSUME PipeInv, OrderInv, AskAttach \/ Lose \/ Reconnect PROVE OrderInv'
<1> USE DEF OrderInv, view, queue, session
<1>1. CASE AskAttach
  <2>1. Pipe' = Pipe
    BY <1>1 DEF AskAttach, Pipe
  <2> QED BY <1>1, <2>1 DEF AskAttach, Cut, SnapshotFirst, Final, Heard
<1>2. CASE Lose
  <2>1. Pipe' = <<>>
    BY <1>2 DEF Lose, Pipe
  <2> QED BY <1>2, <2>1 DEF Lose, Cut, SnapshotFirst, Final, Heard
<1>3. CASE Reconnect
  <2>1. Pipe' = Pipe /\ Pipe = <<>>
    BY <1>3 DEF Reconnect, Cut, Pipe
  <2> QED BY <1>3, <2>1 DEF Reconnect, Cut, SnapshotFirst, Final, Heard
<1> QED BY <1>1, <1>2, <1>3

LEMMA NextOrder == PipeInv /\ OrderInv /\ [Next]_vars => OrderInv'
<1> SUFFICES ASSUME PipeInv, OrderInv, [Next]_vars PROVE OrderInv' OBVIOUS
<1>1. CASE UNCHANGED vars
  <2>1. Pipe' = Pipe
    BY <1>1 DEF vars, link, queue, Pipe
  <2> QED BY <1>1, <2>1 DEF vars, session, queue, link, view, OrderInv, Cut, SnapshotFirst,
                            Final,
                            Heard
<1> QED BY <1>1, QueueOrder, WriterOrder, ReceiveOrder, LinkOrder DEF Next

LEMMA AlwaysOrder == Spec => [](PipeInv /\ OrderInv)
BY InitPipe, NextPipe, InitOrder, NextOrder, PTL DEF Spec

-----------------------------------------------------------------------------
(* The output is unbroken, or a rebuild is due. *)

(* No resync is due or told that no snapshot has answered. *)
Steady ==
    asks = 0 /\ ~resync /\ phase # "tell" /\ \A i \in DOMAIN Pipe : Pipe[i].kind # "Resync"

(* After the last snapshot each output begins where what is shown before it ends. *)
Whole ==
    \A j \in DOMAIN Pipe :
       /\ Pipe[j].kind = "Output"
       /\ \A k \in DOMAIN Pipe : j < k => Pipe[k].kind # "Snapshot"
       => \/ Pipe[j].off = seen
          \/ \E i \in DOMAIN Pipe : i < j /\ Shown(Pipe[i]) /\ Upto(Pipe[i]) = Pipe[j].off

(* An attached view is handed everything there is ... *)
ToTheEnd == attached => end = seen \/ \E i \in DOMAIN Pipe : Shown(Pipe[i]) /\ Upto(Pipe[i]) = end

(* ... and one that hears of the exit, everything up to it. *)
ToTheExit == status = "Exited" \/ (\E i \in DOMAIN Pipe : Closes(Pipe[i])) =>
    seen >= exitEnd \/ \E i \in DOMAIN Pipe : Shown(Pipe[i]) /\ Upto(Pipe[i]) >= exitEnd

Unbroken == Steady => Whole /\ ToTheEnd /\ ToTheExit

(* Something that will rebuild the view is on its way, seen in the pipe. *)
RebuildDue == ~Steady \/ \E i \in DOMAIN Pipe : Pipe[i].kind = "Snapshot"

LEMMA OnItsWay == PipeInv => (ResyncOnItsWay <=> RebuildDue)
<1> SUFFICES ASSUME PipeInv PROVE ResyncOnItsWay <=> RebuildDue OBVIOUS
<1>1. /\ \A i \in DOMAIN wire : i \in DOMAIN Pipe /\ Pipe[i] = wire[i]
      /\ \A i \in DOMAIN rx : i + Len(wire) \in DOMAIN Pipe /\ Pipe[i + Len(wire)] = rx[i]
      /\ \A i \in DOMAIN Pipe : i \in DOMAIN wire \/ i - Len(wire) \in DOMAIN rx
  BY DEF PipeInv, TypeOK, Pipe
<1>2. \A i \in DOMAIN Pipe :
         \/ i \in DOMAIN wire /\ Pipe[i] = wire[i]
         \/ \E k \in DOMAIN rx : Pipe[i] = rx[k]
  BY DEF PipeInv, TypeOK, Pipe
<1>3. asks > 0 <=> asks # 0
  BY DEF PipeInv, TypeOK
<1> HIDE DEF Pipe
<1> QED BY <1>1, <1>2, <1>3 DEF ResyncOnItsWay, RebuildDue, Steady, PipeInv, Unqueued

LEMMA InitUnbroken == Init => Unbroken
<1> SUFFICES ASSUME Init PROVE Unbroken OBVIOUS
<1>1. Pipe = <<>>
  BY DEF Init, Pipe
<1> QED BY <1>1 DEF Init, Unbroken, Whole, ToTheEnd, ToTheExit

(* A message that joins a steady pipe. *)
LEMMA QueuedUnbroken ==
    ASSUME PipeInv, Whole, ToTheExit, NEW m \in Message, Pipe' = Append(Pipe, m),
           UNCHANGED <<seen, status, exitEnd>>, ~Closes(m),
           m.kind = "Output" => m.off = end /\ attached /\ ToTheEnd
    PROVE  Whole' /\ ToTheExit'
<1> DEFINE n == Len(Pipe) + 1
<1>1. /\ Len(Pipe) \in Nat /\ DOMAIN Pipe = 1 .. Len(Pipe) /\ DOMAIN Pipe' = 1 .. n
      /\ \A i \in DOMAIN Pipe : i \in DOMAIN Pipe' /\ Pipe'[i] = Pipe[i] /\ i < n
      /\ n \in DOMAIN Pipe' /\ Pipe'[n] = m
      /\ \A i \in DOMAIN Pipe' : i \in DOMAIN Pipe \/ i = n
  BY QueuedPlaces, PipeIsSeq DEF PipeInv, TypeOK
<1> HIDE DEF n
<1>2. ASSUME NEW j \in DOMAIN Pipe', Pipe'[j].kind = "Output",
             \A k \in DOMAIN Pipe' : j < k => Pipe'[k].kind # "Snapshot"
      PROVE  \/ Pipe'[j].off = seen'
             \/ \E i \in DOMAIN Pipe' : i < j /\ Shown(Pipe'[i]) /\ Upto(Pipe'[i]) = Pipe'[j].off
  <2>1. CASE j \in DOMAIN Pipe
    <3>1. /\ Pipe[j].kind = "Output"
          /\ \A k \in DOMAIN Pipe : j < k => Pipe[k].kind # "Snapshot"
      BY <1>1, <1>2, <2>1
    <3> QED BY <1>1, <2>1, <3>1 DEF Whole
  <2>2. CASE j = n
    BY <1>1, <1>2, <2>2 DEF ToTheEnd
  <2> QED BY <1>1, <2>1, <2>2
<1>3. Whole'
  BY <1>2 DEF Whole
<1>4. ToTheExit'
  BY <1>1 DEF ToTheExit
<1> QED BY <1>3, <1>4

LEMMA QueueUnbroken ==
    ASSUME PipeInv, OrderInv, Unbroken,
           (\E n \in 1 .. Chunk : Pump(n)) \/ Finish \/ Attach \/ OtherTraffic
    PROVE  Unbroken'
<1> USE DEF link, view, queue, session
<1> SUFFICES ASSUME Steady' PROVE Whole' /\ ToTheEnd' /\ ToTheExit'
  BY DEF Unbroken
<1>1. /\ Pipe \in Seq(Message) /\ wire \in Seq(Message) /\ rx \in Seq(Message)
      /\ end \in Nat /\ exitEnd \in Nat /\ exitEnd <= end
  BY PipeIsSeq DEF PipeInv, TypeOK
<1>2. ASSUME NEW m \in Message, Pipe' = Append(Pipe, m)
      PROVE  /\ Len(Pipe) + 1 \in DOMAIN Pipe' /\ Pipe'[Len(Pipe) + 1] = m
             /\ \A i \in DOMAIN Pipe : i \in DOMAIN Pipe' /\ Pipe'[i] = Pipe[i] /\ i < Len(Pipe) + 1
             /\ \A i \in DOMAIN Pipe' : i \in DOMAIN Pipe \/ i = Len(Pipe) + 1
  BY <1>1, <1>2, QueuedPlaces
<1>3. CASE \E n \in 1 .. Chunk : Pump(n)
  <2>1. PICK n \in 1 .. Chunk : Pump(n)
    BY <1>3
  <2>2. CASE rx' = rx
    <3>1. Pipe' = Pipe
      BY <2>1, <2>2 DEF Pump, Pipe
    <3>2. ~attached
      <4>1. rx # Append(rx, Output(end, n))
        BY <1>1
      <4> QED BY <2>1, <2>2, <4>1 DEF Pump, SendOutput, Enqueue, Steady
    <3>3. Steady
      BY <2>1, <3>1, <3>2 DEF Pump, Steady
    <3> QED BY <2>1, <3>1, <3>2, <3>3 DEF Pump, Unbroken, Whole, ToTheEnd, ToTheExit
  <2>3. CASE rx' # rx
    <3> DEFINE m == Output(end, n)
    <3>1. attached /\ rx' = Append(rx, m) /\ resync' = resync
      BY <2>1, <2>3 DEF Pump, SendOutput, Enqueue
    <3>2. m \in Message /\ m.kind = "Output" /\ m.off = end /\ Upto(m) = end'
      BY <1>1, <2>1, Messages DEF Pump, Output, Upto, PipeInv, TypeOK
    <3>3. Pipe' = Append(Pipe, m)
      BY <1>1, <2>1, <3>1, <3>2, QueuedLast DEF Pump
    <3> HIDE DEF m
    <3>4. Steady
      BY <1>2, <2>1, <3>1, <3>2, <3>3 DEF Pump, Steady
    <3>5. Whole' /\ ToTheExit'
      BY <2>1, <3>1, <3>2, <3>3, <3>4, QueuedUnbroken DEF Pump, Unbroken, Closes
    <3>6. ToTheEnd'
      BY <1>2, <3>2, <3>3 DEF ToTheEnd, Shown
    <3> QED BY <3>5, <3>6
  <2> QED BY <2>2, <2>3
<1>4. CASE Finish
  <2>1. CASE ~attached
    <3>1. Pipe' = Pipe
      BY <1>4, <2>1 DEF Finish, Pipe
    <3>2. Steady
      BY <1>4, <3>1 DEF Finish, Steady
    <3>3. status # "Exited" /\ \A i \in DOMAIN Pipe : ~Closes(Pipe[i])
      BY <1>4 DEF Finish, OrderInv, Final
    <3> QED BY <1>4, <3>1, <3>2, <3>3 DEF Finish, Unbroken, Whole, ToTheEnd, ToTheExit
  <2>2. CASE attached
    <3> DEFINE m == Bare("Exited")
    <3>1. m \in Message /\ m.kind = "Exited" /\ ~Shown(m)
      BY Messages DEF Bare, Shown
    <3>2. Pipe' = Append(Pipe, m)
      BY <1>1, <1>4, <2>2, <3>1, QueuedLast DEF Finish, Enqueue
    <3> HIDE DEF m
    <3>3. Steady
      BY <1>2, <1>4, <3>1, <3>2 DEF Finish, Steady
    <3>4. Whole'
      BY <1>2, <1>4, <3>1, <3>2, <3>3 DEF Finish, Unbroken, Whole
    <3>5. ToTheEnd'
      BY <1>4 DEF Finish, ToTheEnd
    <3>6. ToTheExit'
      <4>1. end = seen \/ \E i \in DOMAIN Pipe' : Shown(Pipe'[i]) /\ Upto(Pipe'[i]) = end
        BY <1>2, <2>2, <3>1, <3>2, <3>3 DEF Unbroken, ToTheEnd
      <4>2. seen' = seen /\ exitEnd' = end /\ end \in Nat
        BY <1>4 DEF Finish, PipeInv, TypeOK
      <4>3. end = seen => seen' >= exitEnd'
        BY <4>2
      <4>4. \A i \in DOMAIN Pipe' : Upto(Pipe'[i]) = end => Upto(Pipe'[i]) >= exitEnd'
        BY <4>2
      <4> QED BY <4>1, <4>3, <4>4 DEF ToTheExit
    <3> QED BY <3>4, <3>5, <3>6
  <2> QED BY <2>1, <2>2
<1>5. CASE Attach
  <2> DEFINE m == Snapshot(start, end, exited)
  <2>1. m \in Message /\ m.kind = "Snapshot" /\ Upto(m) = end /\ Shown(m)
    BY <1>1, Messages DEF Snapshot, Upto, Shown, PipeInv, TypeOK
  <2>2. Pipe' = Append(Pipe, m)
    BY <1>1, <1>5, <2>1, QueuedLast DEF Attach, Enqueue
  <2> HIDE DEF m
  <2>3. Whole'
    BY <1>2, <2>1, <2>2 DEF Whole
  <2>4. ToTheEnd' /\ ToTheExit'
    BY <1>1, <1>2, <1>5, <2>1, <2>2 DEF Attach, ToTheEnd, ToTheExit
  <2> QED BY <2>3, <2>4
<1>6. CASE OtherTraffic
  <2> DEFINE m == Bare("Other")
  <2>1. m \in Message /\ m.kind = "Other"
    BY Messages DEF Bare
  <2>2. Pipe' = Append(Pipe, m)
    BY <1>1, <1>6, <2>1, QueuedLast DEF OtherTraffic, Enqueue
  <2> HIDE DEF m
  <2>3. Steady
    BY <1>2, <1>6, <2>1, <2>2 DEF OtherTraffic, Steady
  <2>4. Whole' /\ ToTheExit'
    BY <1>6, <2>1, <2>2, <2>3, QueuedUnbroken DEF OtherTraffic, Unbroken, Closes
  <2>5. ToTheEnd'
    BY <1>2, <1>6, <2>1, <2>2, <2>3 DEF OtherTraffic, Unbroken, ToTheEnd
  <2> QED BY <2>4, <2>5
<1> QED BY <1>3, <1>4, <1>5, <1>6

LEMMA WriterUnbroken == ASSUME PipeInv, OrderInv, Unbroken, Writer PROVE Unbroken'
<1> USE DEF link, view, queue, session
<1>1. CASE WriterTellsResync
  <2>1. Bare("Resync") \in Message /\ Bare("Resync").kind = "Resync"
    BY Messages DEF Bare
  <2>2. \E p \in DOMAIN Pipe' : Pipe'[p] = Bare("Resync")
    BY <1>1, <2>1, OvertakenPlaces DEF WriterTellsResync, PipeInv, TypeOK
  <2> QED BY <2>1, <2>2 DEF Unbroken, Steady
<1>2. CASE WriterTakesMessage
  <2>1. Pipe' = Pipe
    BY <1>2, MovedAlong DEF WriterTakesMessage, PipeInv, TypeOK
  <2> QED BY <1>2, <2>1 DEF WriterTakesMessage, Unbroken, Steady, Whole, ToTheEnd, ToTheExit
<1>3. CASE WriterCounts \/ WriterChecks \/ WriterTimesOut \/ WriterTakesResync
  <2>1. Pipe' = Pipe
    BY <1>3 DEF WriterCounts, WriterChecks, WriterTimesOut, WriterTakesResync, Pipe
  <2>2. Steady' => Steady
    BY <1>3, <2>1 DEF WriterCounts, WriterChecks, WriterTimesOut, WriterTakesResync, Steady
  <2>3. UNCHANGED <<seen, attached, end, status, exitEnd>>
    BY <1>3 DEF WriterCounts, WriterChecks, WriterTimesOut, WriterTakesResync
  <2> QED BY <2>1, <2>2, <2>3 DEF Unbroken, Whole, ToTheEnd, ToTheExit
<1> QED BY <1>1, <1>2, <1>3 DEF Writer

(* What a receipt does, whatever is received. *)
LEMMA Received ==
    ASSUME PipeInv, OrderInv, Receive, NEW m, m = Head(wire)
    PROVE  /\ m \in Message /\ Pipe # <<>> /\ m = Head(Pipe) /\ Pipe' = Tail(Pipe)
           /\ seen' = IF Shown(m) THEN Upto(m) ELSE seen
           /\ Shown(m) => seen <= Upto(m) /\ Upto(m) <= end
           /\ m.kind \in {"Output", "Resync", "Other"} => status' = status
           /\ m.kind = "Exited" => status' = "Exited"
           /\ m.kind = "Snapshot" => status' = IF m.exited THEN "Exited" ELSE "Running"
           /\ asks' = IF m.kind = "Resync" THEN asks + 1 ELSE asks
           /\ UNCHANGED <<end, exited, attached, exitEnd, resync, phase,
               connected>> /\ connected
<1> USE DEF view, queue, session
<1>1. /\ Pipe # <<>> /\ m = Head(Pipe) /\ Pipe' = Tail(Pipe) /\ m \in Message
  BY TakenFirst DEF Receive, PipeInv, TypeOK
<1>2. m.kind \in {"Output", "Snapshot", "Exited", "Resync", "Other"}
  BY <1>1, MessageShape
<1>3. seen' = IF Shown(m) THEN Upto(m) ELSE seen
  BY <1>1, <1>2, NothingSeenTwice DEF Receive, Feed, ApplySnapshot, Shown, Upto
<1>4. Shown(m) => seen <= Upto(m) /\ Upto(m) <= end
  BY <1>1, <1>3, TakenInOrder DEF Receive
<1>5. /\ m.kind \in {"Output", "Resync", "Other"} => status' = status
      /\ m.kind = "Exited" => status' = "Exited"
      /\ m.kind = "Snapshot" => status' = IF m.exited THEN "Exited" ELSE "Running"
      /\ asks' = IF m.kind = "Resync" THEN asks + 1 ELSE asks
  BY <1>2 DEF Receive, Feed, ApplySnapshot
<1>6. UNCHANGED <<end, exited, attached, exitEnd, resync, phase, connected>> /\ connected
  BY <1>1 DEF Receive, OrderInv, Cut
<1> QED BY <1>1, <1>3, <1>4, <1>5, <1>6

LEMMA ReceiveUnbroken == ASSUME PipeInv, OrderInv, Unbroken, Receive PROVE Unbroken'
<1> SUFFICES ASSUME Steady' PROVE Whole' /\ ToTheEnd' /\ ToTheExit'
  BY DEF Unbroken
<1> DEFINE m == Head(wire)
<1>1. /\ m \in Message /\ Pipe # <<>> /\ m = Head(Pipe) /\ Pipe' = Tail(Pipe)
      /\ seen' = IF Shown(m) THEN Upto(m) ELSE seen
      /\ Shown(m) => seen <= Upto(m) /\ Upto(m) <= end
      /\ m.kind \in {"Output", "Resync", "Other"} => status' = status
      /\ m.kind = "Snapshot" => status' = IF m.exited THEN "Exited" ELSE "Running"
      /\ asks' = IF m.kind = "Resync" THEN asks + 1 ELSE asks
      /\ UNCHANGED <<end, exited, attached, exitEnd, resync, phase>>
  BY Received
<1> HIDE DEF m
<1>2. /\ Pipe \in Seq(Message) /\ asks \in Nat /\ end \in Nat /\ seen \in Nat /\ exitEnd \in Nat
  BY PipeIsSeq DEF PipeInv, TypeOK
<1>3. /\ 1 \in DOMAIN Pipe /\ Pipe[1] = m
      /\ DOMAIN Pipe \subseteq Nat /\ DOMAIN Pipe' \subseteq Nat
      /\ \A i \in DOMAIN Pipe' : i + 1 \in DOMAIN Pipe /\ Pipe'[i] = Pipe[i + 1] /\ 1 < i + 1
      /\ \A i \in DOMAIN Pipe : i # 1 => i - 1 \in DOMAIN Pipe' /\ Pipe'[i - 1] = Pipe[i]
      /\ \A i, j \in DOMAIN Pipe' : i < j <=> i + 1 < j + 1
  BY <1>1, <1>2, TakenPlaces
<1>4. /\ m.kind \in {"Output", "Snapshot", "Exited", "Resync", "Other"}
      /\ m.kind = "Snapshot" => m.exited \in BOOLEAN
      /\ Upto(m) \in Nat
      /\ \A i \in DOMAIN Pipe : Upto(Pipe[i]) \in Nat /\ Pipe[i].off \in Nat
  BY <1>1, <1>2, MessageShape DEF Upto
<1>5. Steady /\ m.kind # "Resync"
  <2>1. m.kind # "Resync" /\ asks = 0 /\ ~resync /\ phase # "tell"
    BY <1>1, <1>2 DEF Steady
  <2>2. \A i \in DOMAIN Pipe : i # 1 => Pipe[i].kind # "Resync"
    BY <1>3 DEF Steady
  <2> QED BY <1>3, <2>1, <2>2 DEF Steady
<1>6. Whole /\ ToTheEnd /\ ToTheExit
  BY <1>5 DEF Unbroken
<1>7. Whole'
  <2> SUFFICES ASSUME NEW j \in DOMAIN Pipe', Pipe'[j].kind = "Output",
                      \A k \in DOMAIN Pipe' : j < k => Pipe'[k].kind # "Snapshot"
               PROVE  \/ Pipe'[j].off = seen'
                      \/ \E i \in DOMAIN Pipe' :
                            i < j /\ Shown(Pipe'[i]) /\ Upto(Pipe'[i]) = Pipe'[j].off
    BY DEF Whole
  <2>1. Pipe[j + 1].kind = "Output" /\ j + 1 \in DOMAIN Pipe /\ Pipe'[j] = Pipe[j + 1]
    BY <1>3
  <2>2. \A k \in DOMAIN Pipe : j + 1 < k => Pipe[k].kind # "Snapshot"
    <3> SUFFICES ASSUME NEW k \in DOMAIN Pipe, j + 1 < k PROVE Pipe[k].kind # "Snapshot"
      OBVIOUS
    <3>1. k # 1 /\ j < k - 1
      BY <1>3
    <3> QED BY <1>3, <3>1
  <2>3. CASE Pipe[j + 1].off = seen
    <3>1. Shown(m) => Upto(m) <= Pipe[j + 1].off
      BY <1>3, <2>1 DEF PipeInv, Ordered, Shown
    <3> QED BY <1>1, <1>2, <1>4, <2>1, <2>3, <3>1
  <2>4. CASE \E i \in DOMAIN Pipe : i < j + 1 /\ Shown(Pipe[i]) /\ Upto(Pipe[i]) = Pipe[j + 1].off
    <3>1. PICK i \in DOMAIN Pipe : i < j + 1 /\ Shown(Pipe[i]) /\ Upto(Pipe[i]) = Pipe[j + 1].off
      BY <2>4
    <3>2. CASE i = 1
      BY <1>1, <1>3, <2>1, <3>1, <3>2
    <3>3. CASE i # 1
      <4>1. i - 1 < j
        BY <1>3, <3>1
      <4> QED BY <1>3, <2>1, <3>1, <3>3, <4>1
    <3> QED BY <3>2, <3>3
  <2> QED BY <1>6, <2>1, <2>2, <2>3, <2>4 DEF Whole
<1>8. ToTheEnd'
  <2> SUFFICES ASSUME attached
               PROVE  end = seen' \/ \E i \in DOMAIN Pipe' : Shown(Pipe'[i]) /\ Upto(Pipe'[i]) = end
    BY <1>1 DEF ToTheEnd
  <2>1. CASE end = seen
    BY <1>1, <1>2, <1>4, <2>1
  <2>2. CASE \E i \in DOMAIN Pipe : Shown(Pipe[i]) /\ Upto(Pipe[i]) = end
    BY <1>1, <1>3, <2>2
  <2> QED BY <1>6, <2>1, <2>2 DEF ToTheEnd
<1>9. ToTheExit'
  <2> SUFFICES ASSUME status' = "Exited" \/ \E i \in DOMAIN Pipe' : Closes(Pipe'[i])
               PROVE  \/ seen' >= exitEnd
                      \/ \E i \in DOMAIN Pipe' : Shown(Pipe'[i]) /\ Upto(Pipe'[i]) >= exitEnd
    BY <1>1 DEF ToTheExit
  <2>1. status = "Exited" \/ \E i \in DOMAIN Pipe : Closes(Pipe[i])
    BY <1>1, <1>3, <1>4 DEF Closes
  <2>2. CASE seen >= exitEnd
    BY <1>1, <1>2, <1>4, <2>2
  <2>3. CASE \E i \in DOMAIN Pipe : Shown(Pipe[i]) /\ Upto(Pipe[i]) >= exitEnd
    BY <1>1, <1>3, <2>3
  <2> QED BY <1>6, <2>1, <2>2, <2>3 DEF ToTheExit
<1> QED BY <1>7, <1>8, <1>9

LEMMA LinkUnbroken ==
    ASSUME LossSparesExited, PipeInv, OrderInv, Unbroken, AskAttach \/ Lose \/ Reconnect
    PROVE  Unbroken'
<1> USE DEF view, queue, session
<1>1. CASE AskAttach
  BY <1>1 DEF AskAttach, Unbroken, Steady, PipeInv, TypeOK
<1>2. CASE Lose
  <2>1. Pipe' = <<>>
    BY <1>2 DEF Lose, Pipe
  <2>2. ASSUME status = "Exited" PROVE seen >= exitEnd
    <3>1. Steady /\ \A i \in DOMAIN Pipe : Pipe[i].kind # "Snapshot"
      BY <1>2, <2>2, OnItsWay DEF Lose, RebuildDue
    <3>2. \A i \in DOMAIN Pipe : ~Shown(Pipe[i])
      BY <2>2, <3>1 DEF OrderInv, Final, Shown
    <3> QED BY <2>2, <3>1, <3>2 DEF Unbroken, ToTheExit
  <2> QED BY <1>2, <2>1, <2>2 DEF Lose, Unbroken, Whole, ToTheEnd, ToTheExit
<1>3. CASE Reconnect
  <2>1. Pipe' = Pipe
    BY <1>3 DEF Reconnect, Pipe
  <2> QED BY <1>3, <2>1 DEF Reconnect, Unbroken, Steady, Whole, ToTheEnd, ToTheExit
<1> QED BY <1>1, <1>2, <1>3

LEMMA NextUnbroken ==
    ASSUME LossSparesExited, PipeInv, OrderInv, Unbroken, [Next]_vars
    PROVE  Unbroken'
<1>1. CASE UNCHANGED vars
  <2>1. Pipe' = Pipe
    BY <1>1 DEF vars, link, queue, Pipe
  <2> QED BY <1>1, <2>1 DEF vars, session, queue, link, view, Unbroken, Steady, Whole, ToTheEnd,
                            ToTheExit
<1> QED BY <1>1, QueueUnbroken, WriterUnbroken, ReceiveUnbroken, LinkUnbroken DEF Next

-----------------------------------------------------------------------------
(* Every step is one that OutputView allows. *)

StreamInv == PipeInv /\ OrderInv /\ Unbroken /\ NoSilentLoss

(* What leaves the view and the pipe's snapshots and resyncs alone. *)
LEMMA SameRebuilds ==
    ASSUME PipeInv, PipeInv', Steady' <=> Steady,
           (\E i \in DOMAIN Pipe : Pipe[i].kind = "Snapshot")
              <=> \E i \in DOMAIN Pipe' : Pipe'[i].kind = "Snapshot"
    PROVE  ResyncOnItsWay' <=> ResyncOnItsWay
<1>1. ResyncOnItsWay <=> RebuildDue
  BY OnItsWay
<1>2. ResyncOnItsWay' <=> RebuildDue'
  BY OnItsWay, PTL
<1> QED BY <1>1, <1>2 DEF RebuildDue

LEMMA SameOwed ==
    ASSUME PipeInv, PipeInv', UNCHANGED <<status, connected>>, Steady' <=> Steady,
           (\E i \in DOMAIN Pipe : Pipe[i].kind = "Snapshot")
              <=> \E i \in DOMAIN Pipe' : Pipe'[i].kind = "Snapshot"
    PROVE  Owed' <=> Owed
BY SameRebuilds DEF Owed

LEMMA SnapshotQueued ==
    ASSUME NEW q \in Seq(Message), NEW m
    PROVE  (\E i \in DOMAIN Append(q, m) : Append(q, m)[i].kind = "Snapshot")
              <=> m.kind = "Snapshot" \/ \E i \in DOMAIN q : q[i].kind = "Snapshot"
<1> DEFINE a == Append(q, m)
           n == Len(q) + 1
<1>1. /\ \A i \in DOMAIN q : i \in DOMAIN a /\ a[i] = q[i]
      /\ n \in DOMAIN a /\ a[n] = m
      /\ \A i \in DOMAIN a : i \in DOMAIN q \/ i = n
  BY QueuedPlaces
<1> HIDE DEF a, n
<1> SUFFICES (\E i \in DOMAIN a : a[i].kind = "Snapshot")
                <=> m.kind = "Snapshot" \/ \E i \in DOMAIN q : q[i].kind = "Snapshot"
  BY DEF a
<1> QED BY <1>1

LEMMA QueueView ==
    ASSUME StreamInv, PipeInv',
           (\E n \in 1 .. Chunk : Pump(n)) \/ Finish \/ Attach \/ OtherTraffic
    PROVE  View!Write \/ UNCHANGED View!vars
<1> USE DEF StreamInv, link, view, queue, session
<1>1. /\ Pipe \in Seq(Message) /\ wire \in Seq(Message) /\ rx \in Seq(Message)
  BY PipeIsSeq DEF PipeInv, TypeOK
<1>2. UNCHANGED <<from, seen, painted, status, connected>>
  BY DEF Pump, Finish, Attach, OtherTraffic
<1>3. Missing' = Missing
  BY <1>2 DEF Missing
<1>4. CASE Attach
  <2>1. ResyncOnItsWay
    BY <1>4 DEF Attach, ResyncOnItsWay
  <2>2. PICK m : rx' = Append(rx, m) /\ m.kind = "Snapshot"
    BY <1>4 DEF Attach, Enqueue, Snapshot
  <2>3. rx' # <<>> /\ Len(rx') \in DOMAIN rx' /\ rx'[Len(rx')].kind = "Snapshot"
    BY <1>1, <2>2, SMTT(30)
  <2>4. ResyncOnItsWay'
    BY <2>3 DEF ResyncOnItsWay
  <2>5. Owed' = Owed
    BY <2>1, <2>4 DEF Owed
  <2> QED BY <1>2, <1>3, <1>4, <2>5 DEF Attach, View!vars
<1>5. ASSUME Finish \/ OtherTraffic PROVE Owed' = Owed
  <2>1. rx' = rx \/ \E m \in {Bare("Exited"), Bare("Other")} : rx' = Append(rx, m)
    BY <1>5 DEF Finish, OtherTraffic, Enqueue
  <2>2. \A m \in {Bare("Exited"), Bare("Other")} : m.kind # "Snapshot"
    BY DEF Bare
  <2>3. (\E i \in DOMAIN rx' : rx'[i].kind = "Snapshot") <=> \E i \in DOMAIN rx : rx[i].kind = "Snapshot"
    <3>1. CASE rx' = rx
      BY <3>1
    <3>2. ASSUME NEW m \in {Bare("Exited"), Bare("Other")}, rx' = Append(rx, m)
          PROVE  (\E i \in DOMAIN rx' : rx'[i].kind = "Snapshot")
                    <=> \E i \in DOMAIN rx : rx[i].kind = "Snapshot"
      <4>1. m.kind # "Snapshot"
        BY <2>2
      <4>2. (\E i \in DOMAIN Append(rx, m) : Append(rx, m)[i].kind = "Snapshot")
              <=> m.kind = "Snapshot" \/ \E i \in DOMAIN rx : rx[i].kind = "Snapshot"
        BY <1>1, SnapshotQueued
      <4> QED BY <3>2, <4>1, <4>2, Zenon
    <3> QED BY <2>1, <3>1, <3>2
  <2>4. UNCHANGED <<wire, resync, phase, asks>>
    BY <1>5 DEF Finish, OtherTraffic
  <2> QED BY <1>2, <2>3, <2>4 DEF ResyncOnItsWay, Owed
<1>6. ASSUME NEW n \in 1 .. Chunk, Pump(n) PROVE View!Write
  <2>1. rx' = rx \/ rx' = Append(rx, Output(end, n))
    BY <1>6 DEF Pump, SendOutput, Enqueue
  <2>2. (\E i \in DOMAIN rx : rx[i].kind = "Snapshot") => \E i \in DOMAIN rx' : rx'[i].kind = "Snapshot"
    <3>1. CASE rx' = rx
      BY <3>1
    <3>2. CASE rx' = Append(rx, Output(end, n))
      <4>1. (\E i \in DOMAIN Append(rx, Output(end, n)) : Append(rx, Output(end,
          n))[i].kind = "Snapshot")
              <=> \/ Output(end, n).kind = "Snapshot"
                  \/ \E i \in DOMAIN rx : rx[i].kind = "Snapshot"
        BY <1>1, SnapshotQueued
      <4> QED BY <3>2, <4>1, Zenon
    <3> QED BY <2>1, <3>1, <3>2
  <2>3. UNCHANGED <<wire, phase, asks>> /\ (resync => resync')
    BY <1>6 DEF Pump, SendOutput
  <2>4. Owed => Owed'
    BY <1>2, <2>2, <2>3 DEF ResyncOnItsWay, Owed
  <2>5. end' \in end + 1 .. MaxBytes
    BY <1>6, StreamAssumption DEF Pump, PipeInv, TypeOK
  <2>6. Owed' \in BOOLEAN
    BY DEF Owed
  <2> QED BY <1>2, <1>3, <2>4, <2>5, <2>6 DEF View!Write
<1>7. CASE Finish \/ OtherTraffic
  BY <1>2, <1>3, <1>5, <1>7 DEF Finish, OtherTraffic, View!vars
<1> QED BY <1>4, <1>6, <1>7

LEMMA WriterView == ASSUME StreamInv, PipeInv', Writer PROVE UNCHANGED View!vars
<1> USE DEF StreamInv, link, view, queue, session
<1>1. UNCHANGED <<end, from, seen, painted, status, connected>>
  BY DEF Writer, WriterTakesMessage, WriterCounts, WriterChecks, WriterTimesOut,
         WriterTakesResync,
         WriterTellsResync
<1>2. Missing' = Missing
  BY <1>1 DEF Missing
<1>3. CASE WriterTellsResync
  <2>1. ResyncOnItsWay
    BY <1>3 DEF WriterTellsResync, ResyncOnItsWay
  <2>2. Len(wire') \in DOMAIN wire' /\ wire'[Len(wire')].kind = "Resync"
    BY <1>3 DEF WriterTellsResync, Bare, PipeInv, TypeOK
  <2>3. ResyncOnItsWay'
    BY <2>2 DEF ResyncOnItsWay
  <2> QED BY <1>1, <1>2, <2>1, <2>3 DEF Owed, View!vars
<1>4. CASE WriterTakesMessage
  <2>1. Pipe' = Pipe
    BY <1>4, MovedAlong DEF WriterTakesMessage, PipeInv, TypeOK
  <2>2. Steady' <=> Steady
    BY <1>4, <2>1 DEF WriterTakesMessage, Steady
  <2>3. Owed' <=> Owed
    BY <1>1, <2>1, <2>2, SameOwed
  <2> QED BY <1>1, <1>2, <2>3 DEF Owed, View!vars
<1>5. CASE WriterCounts \/ WriterChecks \/ WriterTimesOut \/ WriterTakesResync
  <2>1. /\ UNCHANGED <<wire, rx, asks>>
        /\ (resync' \/ phase' = "tell") <=> (resync \/ phase = "tell")
    BY <1>5 DEF WriterCounts, WriterChecks, WriterTimesOut, WriterTakesResync
  <2>2. ResyncOnItsWay' <=> ResyncOnItsWay
    BY <2>1 DEF ResyncOnItsWay
  <2> QED BY <1>1, <1>2, <2>2 DEF Owed, View!vars
<1> QED BY <1>3, <1>4, <1>5 DEF Writer

LEMMA LinkView ==
    ASSUME LossSparesExited, StreamInv, AskAttach \/ Lose \/ Reconnect
    PROVE  View!Owe \/ UNCHANGED View!vars
<1> USE DEF StreamInv, view, queue, session
<1>1. UNCHANGED <<end, from, seen, painted>>
  BY DEF AskAttach, Lose, Reconnect
<1>2. Missing' = Missing
  BY <1>1 DEF Missing
<1>3. Owed' = TRUE \/ Owed' = Owed
  <2>1. CASE AskAttach
    BY <2>1 DEF AskAttach, Owed
  <2>2. CASE Lose /\ status = "Exited"
    <3>1. ~ResyncOnItsWay /\ ~ResyncOnItsWay'
      BY <2>2 DEF Lose, ResyncOnItsWay
    <3> QED BY <2>2, <3>1 DEF Lose, Owed
  <2>3. CASE Lose /\ status # "Exited"
    BY <2>3 DEF Lose, Owed, PipeInv, TypeOK
  <2>4. CASE Reconnect
    <3>1. ResyncOnItsWay' <=> ResyncOnItsWay
      BY <2>4 DEF Reconnect, ResyncOnItsWay
    <3> QED BY <2>4, <3>1 DEF Reconnect, Owed
  <2> QED BY <2>1, <2>2, <2>3, <2>4
<1> QED BY <1>1, <1>2, <1>3 DEF View!Owe, View!vars

LEMMA ReceiveView ==
    ASSUME StreamInv, PipeInv', Receive
    PROVE  View!Paint \/ View!Rebuild \/ UNCHANGED View!vars
<1> USE DEF StreamInv
<1> DEFINE m == Head(wire)
<1>1. /\ m \in Message /\ Pipe # <<>> /\ m = Head(Pipe) /\ Pipe' = Tail(Pipe)
      /\ seen' = IF Shown(m) THEN Upto(m) ELSE seen
      /\ Shown(m) => seen <= Upto(m) /\ Upto(m) <= end
      /\ m.kind \in {"Output", "Resync", "Other"} => status' = status
      /\ m.kind = "Exited" => status' = "Exited"
      /\ asks' = IF m.kind = "Resync" THEN asks + 1 ELSE asks
      /\ UNCHANGED <<end, resync, phase, connected>> /\ connected
  BY Received
<1>2. /\ Pipe \in Seq(Message) /\ asks \in Nat /\ end \in 0 .. MaxBytes /\ seen \in Nat /\ from \in Nat
      /\ painted \in [Bytes -> Nat] /\ status \in {"Connecting", "Running", "Exited"}
      /\ MaxBytes \in Nat
  BY PipeIsSeq, StreamAssumption DEF PipeInv, TypeOK
<1>3. /\ 1 \in DOMAIN Pipe /\ Pipe[1] = m
      /\ DOMAIN Pipe \subseteq Nat /\ DOMAIN Pipe' \subseteq Nat
      /\ \A i \in DOMAIN Pipe' : i + 1 \in DOMAIN Pipe /\ Pipe'[i] = Pipe[i + 1] /\ 1 < i + 1
      /\ \A i \in DOMAIN Pipe : i # 1 => i - 1 \in DOMAIN Pipe' /\ Pipe'[i - 1] = Pipe[i]
  BY <1>1, <1>2, TakenPlaces
<1>4. /\ m.kind \in {"Output", "Snapshot", "Exited", "Resync", "Other"}
      /\ m.off \in Nat /\ m.len \in Nat /\ Upto(m) \in Nat /\ m.off <= Upto(m)
  BY <1>1, MessageShape DEF Upto
<1>5. ASSUME m.kind \in {"Output", "Other", "Exited"}
      PROVE  /\ Steady' <=> Steady
             /\ (\E i \in DOMAIN Pipe : Pipe[i].kind = "Snapshot")
                   <=> \E i \in DOMAIN Pipe' : Pipe'[i].kind = "Snapshot"
  <2>1. \A k \in {"Resync", "Snapshot"} :
           (\E i \in DOMAIN Pipe : Pipe[i].kind = k) <=> \E i \in DOMAIN Pipe' : Pipe'[i].kind = k
    BY <1>3, <1>5
  <2> QED BY <1>1, <1>5, <2>1 DEF Steady
<1>6. CASE m.kind = "Output"
  <2>1. /\ seen' = Upto(m) /\ seen < Upto(m) /\ seen <= m.off /\ from' = from
        /\ painted' = [b \in Bytes |-> painted[b] + IF b \in m.off .. Upto(m) - 1 THEN 1 ELSE 0]
    BY <1>1, <1>6, NothingSeenTwice DEF Receive, Feed, Paint, Shown
  <2>2. Owed' <=> Owed
    BY <1>1, <1>5, <1>6, SameOwed
  <2>3. \A b \in from .. seen - 1 : b \in Bytes /\ painted'[b] = painted[b] /\ b \in from .. Upto(m) - 1
    BY <1>1, <1>2, <1>4, <1>6, <2>1 DEF Bytes, Shown
  <2>4. Missing => Missing'
    BY <2>1, <2>3 DEF Missing
  <2>5. Missing' => Owed
    <3> SUFFICES ASSUME Missing', ~Owed PROVE FALSE
      OBVIOUS
    <3>1. Steady /\ \A i \in DOMAIN Pipe : Pipe[i].kind # "Snapshot"
      BY OnItsWay DEF Owed, RebuildDue
    <3>2. m.off = seen
      BY <1>3, <1>6, <3>1 DEF Unbroken, Whole
    <3>3. PICK b \in from .. Upto(m) - 1 : painted'[b] = 0
      BY <2>1 DEF Missing
    <3>4. CASE b < seen
      <4>1. b \in from .. seen - 1
        BY <1>2, <1>4, <3>4
      <4>2. painted[b] = 0
        BY <2>3, <3>3, <4>1
      <4> QED BY <4>1, <4>2 DEF Missing, NoSilentLoss
    <3>5. CASE b >= seen
      <4>1. b \in m.off .. Upto(m) - 1 /\ b \in Bytes
        BY <1>1, <1>2, <1>4, <1>6, <3>2, <3>5 DEF Bytes, Shown
      <4> QED BY <1>2, <2>1, <3>3, <4>1
    <3> QED BY <1>2, <1>4, <3>4, <3>5
  <2>6. seen' \in seen + 1 .. end
    BY <1>1, <1>2, <1>4, <1>6, <2>1 DEF Shown
  <2> QED BY <1>1, <2>1, <2>2, <2>4, <2>5, <2>6 DEF View!Paint, Missing, Owed
<1>7. CASE m.kind = "Snapshot"
  <2>1. /\ seen' = Upto(m) /\ from' = m.off
        /\ painted' = [b \in Bytes |-> IF b \in m.off .. m.off + m.len - 1 THEN 1 ELSE 0]
    <3>1. ApplySnapshot(m)
      BY <1>7 DEF Receive
    <3>2. painted' = [b \in Bytes |-> IF b \in m.off .. m.off + m.len - 1 THEN 1 ELSE 0]
      BY <3>1, Zenon DEF ApplySnapshot
    <3> QED BY <1>1, <1>7, <3>1, <3>2 DEF ApplySnapshot, Shown
  <2>2. Upto(m) <= end
    BY <1>1, <1>7 DEF Shown
  <2>3. \A b \in m.off .. Upto(m) - 1 : painted'[b] = 1
    BY <1>2, <1>4, <2>1, <2>2 DEF Bytes, Upto
  <2>4. Missing' = FALSE
    BY <2>1, <2>3 DEF Missing
  <2> QED BY <1>1, <1>2, <1>4, <2>1, <2>2, <2>4 DEF View!Rebuild, Owed
<1>8. CASE m.kind \in {"Exited", "Resync", "Other"}
  <2>1. UNCHANGED <<end, from, seen, painted>>
    BY <1>1, <1>8 DEF Receive, view
  <2>2. Missing' = Missing
    BY <2>1 DEF Missing
  <2>3. Owed' = Owed
    <3>1. CASE m.kind = "Other"
      BY <1>1, <1>5, <3>1, SameOwed DEF Owed
    <3>2. CASE m.kind = "Resync"
      <4>1. ResyncOnItsWay
        BY <1>3, <3>2, OnItsWay DEF Steady, RebuildDue
      <4>2. ResyncOnItsWay'
        BY <1>1, <1>2, <3>2 DEF ResyncOnItsWay
      <4> QED BY <4>1, <4>2 DEF Owed
    <3>3. CASE m.kind = "Exited"
      <4>1. status # "Connecting"
        BY <1>3, <3>3 DEF OrderInv, SnapshotFirst
      <4>2. ResyncOnItsWay' <=> ResyncOnItsWay
        BY <1>5, <3>3, SameRebuilds
      <4> QED BY <1>1, <1>2, <3>3, <4>1, <4>2 DEF Owed
    <3> QED BY <1>8, <3>1, <3>2, <3>3
  <2> QED BY <2>1, <2>2, <2>3 DEF View!vars
<1> QED BY <1>4, <1>6, <1>7, <1>8

LEMMA NextView ==
    ASSUME LossSparesExited, StreamInv, PipeInv', [Next]_vars
    PROVE  [View!Next]_View!vars
<1>1. CASE UNCHANGED vars
  BY <1>1 DEF vars, session, queue, link, view, View!vars, Missing, Owed, ResyncOnItsWay
<1> QED BY <1>1, QueueView, WriterView, ReceiveView, LinkView DEF Next, View!Next

(* No step OutputView allows leaves a hole with nothing owed for it. *)
LEMMA HolesOwed == ASSUME NoSilentLoss, [View!Next]_View!vars PROVE NoSilentLoss'
<1>1. CASE UNCHANGED View!vars
  BY <1>1 DEF View!vars, NoSilentLoss
<1>2. CASE View!Write
  BY <1>2 DEF View!Write, NoSilentLoss
<1>3. CASE View!Paint
  BY <1>3 DEF View!Paint, NoSilentLoss
<1>4. CASE View!Rebuild
  BY <1>4 DEF View!Rebuild, NoSilentLoss
<1>5. CASE View!Owe
  BY <1>5 DEF View!Owe, NoSilentLoss
<1> QED BY <1>1, <1>2, <1>3, <1>4, <1>5 DEF View!Next

LEMMA InitStream == Init => StreamInv
<1> SUFFICES ASSUME Init PROVE NoSilentLoss
  BY InitPipe, InitOrder, InitUnbroken DEF StreamInv
<1> QED BY DEF Init, NoSilentLoss, Owed

LEMMA NextStream == LossSparesExited /\ StreamInv /\ [Next]_vars => StreamInv'
<1> SUFFICES ASSUME LossSparesExited, StreamInv, [Next]_vars PROVE StreamInv' OBVIOUS
<1>1. PipeInv' /\ OrderInv' /\ Unbroken'
  BY NextPipe, NextOrder, NextUnbroken DEF StreamInv
<1>2. [View!Next]_View!vars
  BY <1>1, NextView
<1>3. NoSilentLoss'
  BY <1>2, HolesOwed DEF StreamInv
<1> QED BY <1>1, <1>3 DEF StreamInv

LEMMA AlwaysStream == ASSUME LossSparesExited PROVE Spec => []StreamInv
<1>1. StreamInv /\ [Next]_vars => StreamInv'
  BY NextStream
<1> QED BY <1>1, InitStream, PTL DEF Spec

(* Output dropped for a client that fell behind leaves its mark until the view
   is rebuilt: the registry's resync, its message, the attach it asks for and
   the snapshot that answers hand it on without a gap. *)
THEOREM NoHoleUnowed == ASSUME LossSparesExited PROVE Spec => []NoSilentLoss
<1>1. StreamInv => NoSilentLoss
  BY DEF StreamInv
<1> QED BY <1>1, AlwaysStream, PTL

(* A view nothing is on its way to has shown all the session wrote: an open one
   is still registered with it, and an ended one heard of the exit only behind
   the last of the output. *)
THEOREM QuietViewsAreWhole == ASSUME LossSparesExited PROVE Spec => []NothingLeftBehind
<1>1. ASSUME StreamInv PROVE NothingLeftBehind
  <2> SUFFICES ASSUME rx = <<>>, wire = <<>>, ~Owed
               PROVE  /\ status = "Running" => attached /\ seen = end
                      /\ status = "Exited" => seen >= exitEnd
    BY DEF NothingLeftBehind
  <2> USE <1>1 DEF StreamInv
  <2>1. Pipe = <<>>
    BY DEF Pipe
  <2>2. Steady
    BY OnItsWay DEF RebuildDue, Owed
  <2>3. ToTheEnd /\ ToTheExit
    BY <2>2 DEF Unbroken
  <2>4. status = "Running" => attached
    BY <2>1 DEF OrderInv, Heard, Owed
  <2> QED BY <2>1, <2>3, <2>4 DEF ToTheEnd, ToTheExit
<1>2. StreamInv => NothingLeftBehind
  BY <1>1
<1> QED BY <1>2, AlwaysStream, PTL

(* The exit is queued behind the output under the session's lock, so the view
   hears of it last, or has a rebuild coming that covers what it lacks. *)
THEOREM ExitToldLast == ASSUME LossSparesExited PROVE Spec => ExitComesLast
<1> DEFINE A == status' = "Exited" /\ status # "Exited" => Owed' \/ seen' >= exitEnd
<1>1. ASSUME StreamInv, StreamInv', [Next]_vars PROVE [A]_vars
  <2> SUFFICES ASSUME Next, status' = "Exited", status # "Exited", ~Owed'
               PROVE  seen' >= exitEnd
    BY <1>1
  <2> USE <1>1 DEF StreamInv
  <2>1. Receive
    BY DEF Next, Pump, Finish, Attach, OtherTraffic, Writer, WriterTakesMessage, WriterCounts,
           WriterChecks, WriterTimesOut, WriterTakesResync, WriterTellsResync, AskAttach, Lose,
           Reconnect, view
  <2> DEFINE m == Head(wire)
  <2>2. /\ m \in Message /\ Pipe # <<>> /\ m = Head(Pipe) /\ Pipe' = Tail(Pipe)
        /\ seen' = IF Shown(m) THEN Upto(m) ELSE seen
        /\ m.kind \in {"Output", "Resync", "Other"} => status' = status
        /\ m.kind = "Snapshot" => status' = IF m.exited THEN "Exited" ELSE "Running"
        /\ asks' = IF m.kind = "Resync" THEN asks + 1 ELSE asks
        /\ UNCHANGED <<resync, phase>>
    BY <2>1, Received
  <2> HIDE DEF m
  <2>3. Pipe \in Seq(Message)
    BY PipeIsSeq DEF PipeInv, TypeOK
  <2>4. /\ 1 \in DOMAIN Pipe /\ Pipe[1] = m
        /\ \A i \in DOMAIN Pipe : i # 1 => i - 1 \in DOMAIN Pipe' /\ Pipe'[i - 1] = Pipe[i] /\ 1 < i
    BY <2>2, <2>3, TakenPlaces
  <2>5. /\ m.kind \in {"Exited", "Snapshot"}
        /\ m.kind = "Snapshot" => m.exited = TRUE
    BY <2>2, MessageShape
  <2>6. Closes(Pipe[1])
    BY <2>4, <2>5 DEF Closes
  <2>7. CASE m.kind = "Snapshot"
    BY <2>2, <2>4, <2>6, <2>7 DEF OrderInv, Final, Shown
  <2>8. CASE m.kind = "Exited"
    <3>1. ~RebuildDue'
      <4>1. ~ResyncOnItsWay'
        BY DEF Owed
      <4> QED BY <4>1, OnItsWay, PTL
    <3>2. Steady /\ \A i \in DOMAIN Pipe : Pipe[i].kind # "Snapshot"
      BY <2>2, <2>4, <2>8, <3>1 DEF RebuildDue, Steady
    <3>3. \A i \in DOMAIN Pipe : ~Shown(Pipe[i])
      BY <2>4, <2>6, <2>8, <3>2 DEF OrderInv, Final, Shown
    <3>4. seen >= exitEnd
      BY <2>4, <2>6, <3>2, <3>3 DEF Unbroken, ToTheExit
    <3> QED BY <2>2, <2>8, <3>4 DEF Shown
  <2> QED BY <2>5, <2>7, <2>8
<1>2. StreamInv /\ StreamInv' /\ [Next]_vars => [A]_vars
  BY <1>1
<1>3. Spec => [][A]_vars
  BY <1>2, AlwaysStream, PTL DEF Spec
<1> QED BY <1>3 DEF ExitComesLast

(* The tail, the queue that drops, the resync, the socket and the rebuilt
   emulator together are no more than OutputView: the view paints a growing
   stretch of the output or is owed a rebuild. *)
THEOREM StreamShowsOutput == ASSUME LossSparesExited PROVE Spec => ShowsOutput
<1>1. Init => View!Init
  <2> SUFFICES ASSUME Init PROVE View!Init OBVIOUS
  <2>1. ~Missing
    BY DEF Init, Missing
  <2>2. Owed = TRUE
    BY DEF Init, Owed
  <2>3. Missing \in BOOLEAN
    BY DEF Missing
  <2> QED BY <2>1, <2>2, <2>3 DEF Init, View!Init
<1>2. StreamInv /\ StreamInv' /\ [Next]_vars => [View!Next]_View!vars
  BY NextView DEF StreamInv
<1> QED BY <1>1, <1>2, AlwaysStream, PTL DEF Spec, ShowsOutput, View!Spec

-----------------------------------------------------------------------------
(* The counter the drop decision reads *)

(* The least of some numbers up to n: without the library's induction, as the
   predecessor would map those that are left into themselves. *)
LEMMA Least ==
    ASSUME NEW n \in Nat, NEW N \in SUBSET (0 .. n), N # {}
    PROVE  \E i \in N : \A j \in N : i <= j
<1> SUFFICES ASSUME \A i \in N : \E j \in N : j < i PROVE FALSE
  OBVIOUS
<1> DEFINE High == {d \in 0 .. n : \E t \in N : t <= d}
           p == [d \in High |-> d - 1]
<1>1. n \in High
  <2>1. PICK t \in N : TRUE
    OBVIOUS
  <2> QED BY <2>1
<1>2. ASSUME NEW d \in High PROVE d - 1 \in High
  <2>1. PICK t \in N : t <= d
    OBVIOUS
  <2>2. PICK u \in N : u < t
    OBVIOUS
  <2> QED BY <2>1, <2>2
<1>3. p \in Injection(High, High)
  BY <1>2 DEF Injection, IsInjective
<1>4. IsFiniteSet(High)
  <2>1. High \in SUBSET Nat /\ \A d \in High : d <= n
    OBVIOUS
  <2> QED BY <2>1, FS_BoundedSetOfNaturals
<1>5. p \in Surjection(High, High)
  BY <1>3, <1>4, FS_Injection
<1>6. \E d \in High : p[d] = n
  BY <1>1, <1>5 DEF Surjection
<1> QED BY <1>6

(* What holds of 0, and with a number of the next, holds of all up to n. *)
LEMMA UpTo ==
    ASSUME NEW n \in Nat, NEW S \in SUBSET (0 .. n), 0 \in S,
           \A m \in 0 .. n - 1 : m \in S => m + 1 \in S
    PROVE  \A m \in 0 .. n : m \in S
<1> SUFFICES ASSUME (0 .. n) \ S # {} PROVE FALSE
  OBVIOUS
<1>1. PICK i \in (0 .. n) \ S : \A j \in (0 .. n) \ S : i <= j
  BY Least
<1>2. i # 0 /\ i - 1 \in 0 .. n - 1 /\ i - 1 \in 0 .. n /\ ~(i <= i - 1) /\ i - 1 + 1 = i
  BY <1>1
<1> QED BY <1>1, <1>2

(* Running sums: f[k] is that of the first k of the numbers. *)
Sums(f, w, m) ==
    /\ f \in [0 .. m -> Nat] /\ f[0] = 0
    /\ \A k \in 1 .. m : f[k] = f[k - 1] + w[k]

(* Any numbers have running sums. *)
LEMMA SumsExist ==
    ASSUME NEW n \in Nat, NEW w \in [1 .. n -> Nat]
    PROVE  \E f : Sums(f, w, n)
<1> DEFINE S == {m \in 0 .. n : \E f : Sums(f, w, m)}
<1>1. 0 \in S
  <2>1. Sums([k \in 0 .. 0 |-> 0], w, 0)
    BY DEF Sums
  <2> QED BY <2>1
<1>2. ASSUME NEW m \in 0 .. n - 1, m \in S PROVE m + 1 \in S
  <2>1. PICK f : Sums(f, w, m)
    BY <1>2
  <2> DEFINE g == [k \in 0 .. m + 1 |-> IF k = m + 1 THEN f[m] + w[m + 1] ELSE f[k]]
  <2>2. g \in [0 .. m + 1 -> Nat]
    <3>1. f \in [0 .. m -> Nat] /\ f[m] \in Nat /\ w[m + 1] \in Nat
      BY <2>1 DEF Sums
    <3>2. f[m] + w[m + 1] \in Nat
      BY <3>1
    <3>3. ASSUME NEW k \in 0 .. m + 1, k # m + 1 PROVE f[k] \in Nat
      <4>1. k \in 0 .. m
        BY <3>3
      <4> QED BY <3>1, <4>1
    <3> QED BY <3>2, <3>3
  <2>3. g[0] = 0
    BY <2>1 DEF Sums
  <2>4. ASSUME NEW k \in 1 .. m + 1 PROVE g[k] = g[k - 1] + w[k]
    <3>1. CASE k = m + 1
      BY <3>1
    <3>2. CASE k \in 1 .. m
      BY <2>1, <3>2 DEF Sums
    <3> QED BY <3>1, <3>2
  <2>5. Sums(g, w, m + 1)
    BY <2>2, <2>3, <2>4 DEF Sums
  <2> QED BY <2>5
<1>3. n \in S
  <2> HIDE DEF S
  <2>1. S \in SUBSET (0 .. n) /\ n \in 0 .. n
    BY DEF S
  <2>2. \A m \in 0 .. n : m \in S
    BY <1>1, <1>2, <2>1, UpTo
  <2> QED BY <2>1, <2>2
<1> QED BY <1>3

(* Sums of the same numbers are the same. *)
LEMMA SumsAgree ==
    ASSUME NEW n \in Nat, NEW w, NEW v, NEW f, NEW g, Sums(f, w, n), Sums(g, v, n),
           \A k \in 1 .. n : w[k] = v[k]
    PROVE  f[n] = g[n]
<1> DEFINE S == {m \in 0 .. n : f[m] = g[m]}
<1>1. 0 \in S
  BY DEF Sums
<1>2. ASSUME NEW m \in 0 .. n - 1, m \in S PROVE m + 1 \in S
  <2>1. m + 1 \in 1 .. n /\ m + 1 - 1 = m
    OBVIOUS
  <2>2. f[m + 1] = f[m] + w[m + 1] /\ g[m + 1] = g[m] + v[m + 1]
    BY <2>1 DEF Sums
  <2> QED BY <1>2, <2>1, <2>2
<1>3. n \in S
  <2> HIDE DEF S
  <2>1. S \in SUBSET (0 .. n) /\ n \in 0 .. n
    BY DEF S
  <2>2. \A m \in 0 .. n : m \in S
    BY <1>1, <1>2, <2>1, UpTo
  <2> QED BY <2>1, <2>2
<1> QED BY <1>3

(* What a message adds to the size of those of some kinds. *)
Weight(m, kinds) == IF m.kind \in kinds THEN m.len ELSE 0
Weights(ms, kinds) == [k \in 1 .. Len(ms) |-> Weight(ms[k], kinds)]

(* The size of a queue is the last of its running sums. *)
LEMMA SizeIs ==
    ASSUME NEW ms \in Seq(Message), NEW kinds
    PROVE  \E f : Sums(f, Weights(ms, kinds), Len(ms)) /\ Size(ms, kinds) = f[Len(ms)]
<1>1. PICK n \in Nat : n = Len(ms)
  OBVIOUS
<1>2. \A k \in 1 .. n : Weight(ms[k], kinds) \in Nat
  BY <1>1, MessageShape DEF Weight
<1>3. PICK w : w = Weights(ms, kinds)
  OBVIOUS
<1>4. w \in [1 .. n -> Nat]
  BY <1>1, <1>2, <1>3 DEF Weights
<1> DEFINE Rec(f) == f = [k \in 0 .. Len(ms) |->
                IF k = 0 THEN 0 ELSE f[k - 1] + IF ms[k].kind \in kinds THEN ms[k].len ELSE 0]
<1>5. PICK f : Sums(f, w, n)
  BY <1>4, SumsExist
<1>6. Rec(f)
  <2>1. ASSUME NEW k \in 0 .. n
        PROVE  f[k] = IF k = 0 THEN 0 ELSE f[k - 1] + IF ms[k].kind \in kinds THEN ms[k].len ELSE 0
    <3>1. CASE k = 0
      BY <1>5, <3>1 DEF Sums
    <3>2. CASE k \in 1 .. n
      BY <1>1, <1>3, <1>5, <3>2 DEF Sums, Weights, Weight
    <3> QED BY <3>1, <3>2
  <2>2. f = [k \in 0 .. n |-> f[k]]
    BY <1>5 DEF Sums
  <2> QED BY <1>1, <2>1, <2>2
<1>7. PICK g : Rec(g) /\ Size(ms, kinds) = g[n]
  <2>1. Rec(CHOOSE g : Rec(g))
    BY <1>6
  <2>2. Size(ms, kinds) = (CHOOSE g : Rec(g))[n]
    BY <1>1 DEF Size
  <2> QED BY <2>1, <2>2
<1>8. Sums(g, w, n)
  <2> DEFINE S == {m \in 0 .. n : g[m] \in Nat}
  <2>1. \A k \in 0 .. n : g[k] = IF k = 0 THEN 0 ELSE g[k - 1] + w[k]
    BY <1>1, <1>3, <1>7 DEF Weights, Weight
  <2>2. 0 \in S
    BY <2>1
  <2>3. ASSUME NEW m \in 0 .. n - 1, m \in S PROVE m + 1 \in S
    <3>1. m + 1 \in 1 .. n /\ m + 1 \in 0 .. n /\ m + 1 # 0 /\ (m + 1) - 1 = m
      OBVIOUS
    <3>2. g[m] \in Nat /\ w[m + 1] \in Nat
      BY <1>4, <2>3, <3>1
    <3>3. g[m + 1] = g[m] + w[m + 1]
      BY <2>1, <3>1
    <3>4. g[m] + w[m + 1] \in Nat
      BY <3>2
    <3> QED BY <3>1, <3>3, <3>4
  <2>4. \A m \in 0 .. n : m \in S
    <3> HIDE DEF S
    <3>1. S \in SUBSET (0 .. n)
      BY DEF S
    <3> QED BY <2>2, <2>3, <3>1, UpTo
  <2>5. DOMAIN g = 0 .. n /\ g = [k \in DOMAIN g |-> g[k]]
    BY <1>1, <1>7
  <2> QED BY <2>1, <2>4, <2>5 DEF Sums
<1> QED BY <1>1, <1>3, <1>7, <1>8

(* An empty queue holds no bytes. *)
LEMMA NoneSize == ASSUME NEW kinds PROVE Size(<<>>, kinds) = 0
<1>1. <<>> \in Seq(Message) /\ Len(<<>>) = 0
  OBVIOUS
<1>2. PICK f : Sums(f, Weights(<<>>, kinds), Len(<<>>)) /\ Size(<<>>, kinds) = f[Len(<<>>)]
  BY <1>1, SizeIs
<1> QED BY <1>1, <1>2 DEF Sums

(* A message queued adds its own. *)
LEMMA QueuedSize ==
    ASSUME NEW ms \in Seq(Message), NEW m \in Message, NEW kinds
    PROVE  Size(ms, kinds) \in Nat /\ Size(Append(ms, m), kinds) = Size(ms, kinds) + Weight(m, kinds)
<1>1. PICK n \in Nat : n = Len(ms) /\ Len(Append(ms, m)) = n + 1 /\ Append(ms, m) \in Seq(Message)
  OBVIOUS
<1>2. PICK w, v : w = Weights(ms, kinds) /\ v = Weights(Append(ms, m), kinds)
  OBVIOUS
<1>3. PICK f : Sums(f, w, n) /\ Size(ms, kinds) = f[n]
  BY <1>1, <1>2, SizeIs
<1>4. PICK g : Sums(g, v, n + 1) /\ Size(Append(ms, m), kinds) = g[n + 1]
  BY <1>1, <1>2, SizeIs
<1>5. (\A k \in 1 .. n : w[k] = v[k]) /\ v[n + 1] = Weight(m, kinds)
  BY <1>1, <1>2 DEF Weights
<1> DEFINE h == [k \in 0 .. n |-> g[k]]
<1>6. Sums(h, v, n)
  <2>1. \A k \in 1 .. n : k - 1 \in 0 .. n /\ k \in 1 .. n + 1 /\ k \in 0 .. n
    OBVIOUS
  <2> QED BY <1>4, <2>1 DEF Sums
<1>7. f[n] = h[n]
  BY <1>3, <1>5, <1>6, SumsAgree
<1>8. g[n + 1] = g[n] + v[n + 1] /\ h[n] = g[n]
  <2>1. n + 1 \in 1 .. n + 1 /\ n + 1 - 1 = n /\ n \in 0 .. n
    OBVIOUS
  <2> QED BY <1>4, <2>1 DEF Sums
<1>9. f[n] \in Nat
  BY <1>3 DEF Sums
<1> QED BY <1>3, <1>4, <1>5, <1>7, <1>8, <1>9

(* The message taken from the front takes its own away. *)
LEMMA TakenSize ==
    ASSUME NEW ms \in Seq(Message), ms # <<>>, NEW kinds
    PROVE  Size(Tail(ms), kinds) \in Nat /\ Size(ms, kinds) = Weight(Head(ms), kinds) + Size(Tail(ms), kinds)
<1>1. PICK n \in Nat : n = Len(Tail(ms)) /\ Len(ms) = n + 1
  BY LenProperties, HeadTailProperties
<1>2. PICK w, v : w = Weights(Tail(ms), kinds) /\ v = Weights(ms, kinds)
  OBVIOUS
<1>3. PICK f : Sums(f, w, n) /\ Size(Tail(ms), kinds) = f[n]
  <2>1. Tail(ms) \in Seq(Message)
    BY HeadTailProperties
  <2> QED BY <1>1, <1>2, <2>1, SizeIs
<1>4. PICK g : Sums(g, v, n + 1) /\ Size(ms, kinds) = g[n + 1]
  BY <1>1, <1>2, SizeIs
<1>5. v[1] = Weight(Head(ms), kinds) /\ \A k \in 1 .. n : w[k] = v[k + 1]
  <2>1. Head(ms) = ms[1] /\ \A k \in 1 .. n : Tail(ms)[k] = ms[k + 1] /\ k + 1 \in 1 .. n + 1
    BY <1>1
  <2> QED BY <1>1, <1>2, <2>1 DEF Weights
<1>6. v[1] \in Nat
  BY <1>5, MessageShape DEF Weight
<1>7. PICK h : h = [k \in 0 .. n + 1 |-> IF k = 0 THEN 0 ELSE v[1] + f[k - 1]]
  OBVIOUS
<1>8. Sums(h, v, n + 1)
  <2>1. h \in [0 .. n + 1 -> Nat]
    BY <1>3, <1>6, <1>7 DEF Sums
  <2>2. ASSUME NEW k \in 1 .. n + 1 PROVE h[k] = h[k - 1] + v[k]
    <3>1. CASE k = 1
      BY <1>3, <1>6, <1>7, <3>1 DEF Sums
    <3>2. CASE k # 1
      <4>1. k - 1 \in 1 .. n /\ k - 1 - 1 \in 0 .. n /\ k - 1 \in 0 .. n /\ k - 1 + 1 = k
        BY <3>2
      <4>2. f[k - 1] = f[k - 1 - 1] + v[k] /\ f[k - 1] \in Nat /\ f[k - 1 - 1] \in Nat
        BY <1>3, <1>5, <4>1 DEF Sums
      <4>3. h[k] = v[1] + f[k - 1] /\ h[k - 1] = v[1] + f[k - 1 - 1]
        BY <1>7, <3>2, <4>1
      <4>4. v[k] \in Nat
        BY <1>1, <1>2, MessageShape DEF Weights, Weight
      <4> QED BY <1>6, <4>2, <4>3, <4>4
    <3> QED BY <3>1, <3>2
  <2>3. h[0] = 0
    BY <1>7
  <2> QED BY <2>1, <2>2, <2>3 DEF Sums
<1>9. g[n + 1] = h[n + 1]
  BY <1>4, <1>8, SumsAgree
<1>10. f[n] \in Nat /\ h[n + 1] = v[1] + f[n]
  BY <1>3, <1>7 DEF Sums
<1> QED BY <1>3, <1>4, <1>5, <1>6, <1>9, <1>10

(* The output among the messages is no more than all of them. *)
LEMMA OutputWithin ==
    ASSUME NEW ms \in Seq(Message)
    PROVE  Size(ms, {"Output"}) <= Size(ms, Kinds)
<1>1. PICK n \in Nat : n = Len(ms)
  OBVIOUS
<1>2. PICK w, v : w = Weights(ms, {"Output"}) /\ v = Weights(ms, Kinds)
  OBVIOUS
<1>3. PICK f : Sums(f, w, n) /\ Size(ms, {"Output"}) = f[n]
  BY <1>1, <1>2, SizeIs
<1>4. PICK g : Sums(g, v, n) /\ Size(ms, Kinds) = g[n]
  BY <1>1, <1>2, SizeIs
<1>5. \A k \in 1 .. n : w[k] \in Nat /\ v[k] \in Nat /\ w[k] <= v[k]
  BY <1>1, <1>2, MessageShape DEF Weights, Weight, Kinds
<1> DEFINE S == {m \in 0 .. n : f[m] <= g[m]}
<1>6. 0 \in S
  BY <1>3, <1>4 DEF Sums
<1>7. ASSUME NEW m \in 0 .. n - 1, m \in S PROVE m + 1 \in S
  <2>1. m + 1 \in 1 .. n /\ m + 1 - 1 = m /\ m \in 0 .. n /\ m + 1 \in 0 .. n
    OBVIOUS
  <2>2. f[m + 1] = f[m] + w[m + 1] /\ g[m + 1] = g[m] + v[m + 1]
    BY <1>3, <1>4, <2>1 DEF Sums
  <2>3. f[m] \in Nat /\ g[m] \in Nat
    BY <1>3, <1>4, <2>1 DEF Sums
  <2> QED BY <1>5, <1>7, <2>1, <2>2, <2>3
<1>8. n \in S
  <2> HIDE DEF S
  <2>1. S \in SUBSET (0 .. n) /\ n \in 0 .. n
    BY DEF S
  <2>2. \A m \in 0 .. n : m \in S
    BY <1>6, <1>7, <2>1, UpTo
  <2> QED BY <2>1, <2>2
<1> QED BY <1>3, <1>4, <1>8

(* What the counter counts; a message in hand is one written and not counted. *)
Counted ==
    /\ queued = Size(rx, Kinds) + hand /\ hand \in Nat
    /\ Size(rx, {"Output"}) <= MaxQueued
    /\ phase # "wrote" => hand = 0

(* A connection lost, or made anew, holds nothing. *)
LEMMA NothingQueued ==
    ASSUME rx' = <<>>, queued' = 0, hand' = 0 PROVE Counted'
<1>1. Size(rx', Kinds) = 0 /\ Size(rx', {"Output"}) = 0
  BY NoneSize
<1> QED BY <1>1, StreamAssumption DEF Counted

(* Queueing counts the message; output is queued only while it fits. *)
LEMMA MoreQueued ==
    ASSUME rx \in Seq(Message), Counted, NEW m \in Message, Enqueue(m), UNCHANGED <<phase, hand>>,
           m.kind = "Output" => queued + m.len <= MaxQueued
    PROVE  Counted'
<1>1. Size(rx, Kinds) \in Nat /\ Size(rx', Kinds) = Size(rx, Kinds) + m.len /\ m.len \in Nat
  BY QueuedSize, MessageShape DEF Enqueue, Weight, Kinds
<1>2. Size(rx, {"Output"}) \in Nat
      /\ Size(rx', {"Output"}) = Size(rx, {"Output"}) + IF m.kind = "Output" THEN m.len ELSE 0
  BY QueuedSize DEF Enqueue, Weight
<1>3. Size(rx, {"Output"}) <= Size(rx, Kinds)
  BY OutputWithin
<1>4. Size(rx', {"Output"}) <= MaxQueued
  BY <1>1, <1>2, <1>3, StreamAssumption DEF Counted
<1> QED BY <1>1, <1>4 DEF Counted, Enqueue

(* The queue and the counter left alone. *)
LEMMA SameQueued ==
    ASSUME Counted, UNCHANGED <<rx, queued, hand>>, phase' # "wrote" => phase # "wrote" PROVE Counted'
BY DEF Counted

(* The reader thread queues its chunk or drops it. *)
LEMMA PumpCounted == ASSUME PipeInv, Counted, NEW n \in 1 .. Chunk, Pump(n) PROVE Counted'
<1>1. CASE UNCHANGED <<rx, queued>>
  BY <1>1, SameQueued DEF Pump
<1>2. CASE Enqueue(Output(end, n)) /\ ~(queued + n > MaxQueued)
  <2>1. Output(end, n) \in Message /\ Output(end, n).len = n /\ rx \in Seq(Message)
    BY Messages DEF PipeInv, TypeOK, Output
  <2>2. queued \in Int
    <3>1. Size(rx, Kinds) \in Nat
      BY <2>1, QueuedSize
    <3> QED BY <3>1 DEF Counted
  <2>3. queued + n <= MaxQueued
    BY <1>2, <2>2, StreamAssumption
  <2> QED BY <1>2, <2>1, <2>3, MoreQueued DEF Pump
<1> QED BY <1>1, <1>2 DEF Pump, SendOutput

(* The exit, a snapshot and other traffic are queued whatever their size. *)
LEMMA QueueCounted == ASSUME PipeInv, Counted, Finish \/ Attach \/ OtherTraffic PROVE Counted'
<1>1. CASE UNCHANGED <<rx, queued>>
  BY <1>1, SameQueued DEF Finish, Attach, OtherTraffic
<1>2. ASSUME NEW m \in Message, m.kind # "Output", Enqueue(m) PROVE Counted'
  BY <1>2, MoreQueued DEF Finish, Attach, OtherTraffic, PipeInv, TypeOK
<1>3. /\ Bare("Exited") \in Message /\ Bare("Other") \in Message
      /\ Snapshot(start, end, exited) \in Message
      /\ \A k : Bare(k).kind = k
      /\ Snapshot(start, end, exited).kind = "Snapshot"
  <2>1. start \in Nat /\ end \in Nat /\ exited \in BOOLEAN /\ start <= end /\ end <= MaxBytes /\ end <= start + Capacity
    BY StreamAssumption DEF PipeInv, TypeOK
  <2> QED BY <2>1, Messages DEF Bare, Snapshot
<1> QED BY <1>1, <1>2, <1>3 DEF Finish, Attach, OtherTraffic

(* The writer takes a message, writes it, and only then takes it off the counter. *)
LEMMA WriterCounted == ASSUME PipeInv, Counted, Writer PROVE Counted'
<1>0. rx \in Seq(Message)
  BY DEF PipeInv, TypeOK
<1>1. CASE WriterTakesMessage
  <2>1. /\ Size(Tail(rx), Kinds) \in Nat /\ Size(rx, Kinds) = Head(rx).len + Size(Tail(rx), Kinds)
        /\ Head(rx).len \in Nat
    <3>1. Head(rx) \in Message
      BY <1>0, <1>1 DEF WriterTakesMessage
    <3> QED BY <1>0, <1>1, <3>1, TakenSize, MessageShape DEF WriterTakesMessage, Weight, Kinds
  <2>2. /\ Size(Tail(rx), {"Output"}) \in Nat /\ Weight(Head(rx), {"Output"}) \in Nat
        /\ Size(rx, {"Output"}) = Weight(Head(rx), {"Output"}) + Size(Tail(rx), {"Output"})
    BY <1>0, <1>1, <2>1, TakenSize DEF WriterTakesMessage, Weight
  <2>3. hand = 0 /\ rx' = Tail(rx) /\ queued' = queued /\ hand' = Head(rx).len /\ phase' = "wrote"
    BY <1>1 DEF WriterTakesMessage, Counted
  <2>4. Size(rx', {"Output"}) <= MaxQueued
    BY <2>2, <2>3, StreamAssumption DEF Counted
  <2> QED BY <2>1, <2>3, <2>4 DEF Counted
<1>2. CASE WriterCounts
  <2>1. Size(rx, Kinds) \in Nat
    BY <1>0, QueuedSize, Messages
  <2> QED BY <1>2, <2>1 DEF WriterCounts, Counted
<1>3. CASE WriterChecks \/ WriterTimesOut \/ WriterTakesResync \/ WriterTellsResync
  BY <1>3, SameQueued DEF WriterChecks, WriterTimesOut, WriterTakesResync, WriterTellsResync
<1> QED BY <1>1, <1>2, <1>3 DEF Writer

(* Every step keeps the count. *)
LEMMA NextCounted == PipeInv /\ Counted /\ [Next]_vars => Counted'
<1> SUFFICES ASSUME PipeInv, Counted, [Next]_vars PROVE Counted'
  OBVIOUS
<1>1. CASE UNCHANGED vars
  BY <1>1, SameQueued DEF vars, queue
<1>2. CASE Lose
  BY <1>2, NothingQueued DEF Lose
<1>3. CASE Receive \/ AskAttach \/ Reconnect
  BY <1>3, SameQueued DEF Receive, AskAttach, Reconnect, queue
<1> QED BY <1>1, <1>2, <1>3, PumpCounted, QueueCounted, WriterCounted DEF Next

(* The counter of a client's queue is what the queue holds and the message its
   writer has written and not yet counted off; by that the reader thread, which
   reads it without the writer's leave (registry.rs), never queues more output
   than the limit; and the tail keeps its own (session.rs). *)
THEOREM LimitsAreKept == Spec => []LimitsKept
<1>1. Init => Counted
  <2>1. Size(<<>>, Kinds) = 0 /\ Size(<<>>, {"Output"}) = 0
    BY NoneSize
  <2> QED BY <2>1, StreamAssumption DEF Init, Counted
<1>2. PipeInv /\ Counted => LimitsKept
  BY StreamAssumption DEF PipeInv, TypeOK, Counted, LimitsKept
<1> QED BY <1>1, <1>2, NextCounted, AlwaysPipe, PTL DEF Spec
=============================================================================
