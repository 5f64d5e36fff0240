------------------------- MODULE SessionStreamProofs -------------------------
(***************************************************************************)
(* Proofs about SessionStream, for every number of observers and terminals *)
(* and every length of a queue.                                            *)
(*                                                                         *)
(* What a subscriber has in its queue is a suffix of what was published,   *)
(* and it is cut short only when it is full.  So an end of the session     *)
(* that is in no queue was either taken, by a subscriber that is one no    *)
(* longer, or pushed out by as many later events as a queue holds.         *)
(***************************************************************************)
EXTENDS SessionStream, SequenceTheorems, TLAPS

(* Every kill that has still to publish was counted, and has room. *)
Published ==
  /\ status \in {"live", "killed", "reaped"} /\ turn \in BOOLEAN
  /\ kills \in 0..MaxCloses /\ closes \in 0..MaxCloses /\ kills <= closes
  /\ said \in BOOLEAN
  /\ events \in Seq(Kind) /\ Len(events) + kills <= MaxEvents

(* Only subscribers have a queue. *)
OnlySubscribers == \A w \in Watcher : watch[w] # "on" => queue[w] = <<>>

Reading ==
  /\ queue \in [Watcher -> Seq(1..Len(events))]
  /\ got \in [Watcher -> 0..Len(events)]
  /\ watch \in [Watcher -> {"away", "start", "on", "told"}]
  /\ OnlySubscribers /\ NewestKept

(* Only a bridge is watched. *)
Bridges ==
  /\ tile \in [Tile -> TileType]
  /\ \A a \in Tile : tile[a].pc # "bridged" => watch[a] = "away"

IInv == Published /\ Reading /\ NoDeafWatcher /\ Bridges

-----------------------------------------------------------------------------
(* Queues *)

Newest(q, n) == \A i \in 1..Len(q) : q[i] = n - Len(q) + i

LEMMA AppendKeeps ==
  ASSUME NEW n \in Nat, NEW q \in Seq(1..n), Newest(q, n)
  PROVE  /\ Append(q, n + 1) \in Seq(1..(n + 1)) /\ Len(Append(q, n + 1)) = Len(q) + 1
         /\ Newest(Append(q, n + 1), n + 1)
<1>1. q \in Seq(1..(n + 1)) /\ Len(q) \in Nat
  OBVIOUS
<1> DEFINE p == Append(q, n + 1)
<1>2. /\ p \in Seq(1..(n + 1)) /\ Len(p) = Len(q) + 1
      /\ \A i \in 1..Len(q) : p[i] = q[i]
      /\ p[Len(q) + 1] = n + 1
  BY <1>1, AppendProperties
<1> HIDE DEF p
<1>3. Newest(p, n + 1)
  <2> SUFFICES ASSUME NEW i \in 1..(Len(q) + 1) PROVE p[i] = n + 1 - (Len(q) + 1) + i
    BY <1>2 DEF Newest
  <2>1. CASE i = Len(q) + 1
    BY <1>1, <1>2, <2>1
  <2>2. CASE i \in 1..Len(q)
    BY <1>1, <1>2, <2>2 DEF Newest
  <2>3. QED
    BY <1>1, <2>1, <2>2
<1>4. QED
  BY <1>2, <1>3 DEF p

LEMMA TailKeeps ==
  ASSUME NEW n \in Nat, NEW q \in Seq(1..n), q # <<>>, Newest(q, n)
  PROVE  /\ Tail(q) \in Seq(1..n) /\ Len(Tail(q)) = Len(q) - 1 /\ Newest(Tail(q), n)
         /\ Head(q) = n - Len(Tail(q)) /\ Head(q) \in 1..n
<1> DEFINE p == Tail(q)
<1>1. Len(q) \in Nat \ {0} /\ Head(q) = q[1]
  OBVIOUS
<1>2. p \in Seq(1..n) /\ Len(p) = Len(q) - 1 /\ \A i \in 1..Len(p) : p[i] = q[i + 1]
  BY HeadTailProperties
<1> HIDE DEF p
<1>3. Newest(p, n) /\ Head(q) = n - Len(p) /\ Head(q) \in 1..n
  BY <1>1, <1>2, HeadTailProperties, SMTT(30) DEF Newest
<1>4. QED
  BY <1>2, <1>3 DEF p

LEMMA PutKeeps ==
  ASSUME NEW n \in Nat, NEW q \in Seq(1..n), Len(q) <= QueueMax, Newest(q, n)
  PROVE  LET p == Put(q, n + 1)
         IN /\ p \in Seq(1..(n + 1)) /\ Newest(p, n + 1)
            /\ Len(p) = IF Len(q) < QueueMax THEN Len(q) + 1 ELSE QueueMax
<1>1. CASE Len(q) < QueueMax
  BY <1>1, AppendKeeps DEF Put
<1>2. CASE ~ Len(q) < QueueMax
  <2>1. Len(q) = QueueMax /\ q # <<>> /\ QueueMax \in Nat
    BY <1>2, StreamAssumption
  <2>2. /\ Tail(q) \in Seq(1..n) /\ Len(Tail(q)) = Len(q) - 1 /\ Newest(Tail(q), n)
    BY <2>1, TailKeeps
  <2>3. Put(q, n + 1) = Append(Tail(q), n + 1)
    BY <1>2 DEF Put
  <2>4. /\ Append(Tail(q), n + 1) \in Seq(1..(n + 1))
        /\ Len(Append(Tail(q), n + 1)) = Len(Tail(q)) + 1
        /\ Newest(Append(Tail(q), n + 1), n + 1)
    BY <2>2, AppendKeeps
  <2>5. Len(Tail(q)) + 1 = QueueMax
    BY <2>1, <2>2
  <2>6. QED
    BY <1>2, <2>3, <2>4, <2>5
<1>3. QED
  BY <1>1, <1>2

-----------------------------------------------------------------------------
(* What a subscriber knows *)

(* NewestKept and NoDeafWatcher of one subscriber, by the numbers of the   *)
(* events.                                                                 *)
Kept(w) ==
  /\ Len(queue[w]) <= QueueMax
  /\ Newest(queue[w], Len(events))
  /\ Len(queue[w]) < QueueMax => got[w] = Len(events) - Len(queue[w])

Hears(w) ==
  \E e \in 1..Len(events) : e > Len(events) - Len(queue[w]) /\ events[e] = "session_closed"

LEMMA Covers ==
  ASSUME NEW n \in Nat, NEW q \in Seq(1..n), Newest(q, n), NEW e \in 1..n
  PROVE  e > n - Len(q) <=> \E i \in 1..Len(q) : q[i] = e
<1>1. Len(q) \in Nat
  OBVIOUS
<1>2. ASSUME e > n - Len(q) PROVE \E i \in 1..Len(q) : q[i] = e
  <2>1. e - (n - Len(q)) \in 1..Len(q)
    BY <1>1, <1>2
  <2>2. q[e - (n - Len(q))] = n - Len(q) + (e - (n - Len(q)))
    BY <2>1 DEF Newest
  <2>3. q[e - (n - Len(q))] = e
    BY <1>1, <2>2
  <2>4. QED
    BY <2>1, <2>3
<1>3. ASSUME NEW i \in 1..Len(q), q[i] = e PROVE e > n - Len(q)
  <2>1. e = n - Len(q) + i
    BY <1>3 DEF Newest
  <2>2. QED
    BY <1>1, <2>1
<1>4. QED
  BY <1>2, <1>3

LEMMA HearsIs ==
  ASSUME events \in Seq(Kind), NEW w, queue[w] \in Seq(1..Len(events)), Kept(w)
  PROVE  Hears(w) <=> \E i \in DOMAIN queue[w] : events[queue[w][i]] = "session_closed"
<1>1. Len(events) \in Nat
  OBVIOUS
<1>2. DOMAIN queue[w] = 1..Len(queue[w]) /\ \A i \in DOMAIN queue[w] : queue[w][i] \in 1..Len(events)
  OBVIOUS
<1>3. \A e \in 1..Len(events) :
        e > Len(events) - Len(queue[w]) <=> \E i \in 1..Len(queue[w]) : queue[w][i] = e
  BY <1>1, Covers DEF Kept
<1>4. QED
  BY <1>2, <1>3 DEF Hears

(* What an action leaves of the two, for each subscriber. *)
Knows(w) ==
  watch[w] = "on" =>
    Kept(w) /\ (status = "killed" /\ said => Hears(w) \/ Overrun)

LEMMA KnowsIs ==
  ASSUME events \in Seq(Kind), queue \in [Watcher -> Seq(1..Len(events))]
  PROVE  NewestKept /\ NoDeafWatcher <=> \A w \in Watcher : Knows(w)
<1>1. NewestKept <=> \A w \in Watcher : watch[w] = "on" => Kept(w)
  <2>1. \A w \in Watcher :
          Newest(queue[w], Len(events)) <=>
            \A i \in DOMAIN queue[w] : queue[w][i] = Len(events) - Len(queue[w]) + i
    <3> SUFFICES ASSUME NEW w \in Watcher
                 PROVE  Newest(queue[w], Len(events)) <=>
                          \A i \in DOMAIN queue[w] :
                            queue[w][i] = Len(events) - Len(queue[w]) + i
      OBVIOUS
    <3>1. DOMAIN queue[w] = 1..Len(queue[w])
      OBVIOUS
    <3>2. QED
      BY <3>1, Zenon DEF Newest
  <2>2. QED
    BY <2>1, Zenon DEF NewestKept, Kept
<1>2. \A w \in Watcher : Kept(w) =>
        (Hears(w) <=> \E i \in DOMAIN queue[w] : events[queue[w][i]] = "session_closed")
  BY HearsIs
<1>3. QED
  BY <1>1, <1>2 DEF NoDeafWatcher, Knows

-----------------------------------------------------------------------------
(* The steps of the readers *)

LEMMA IInvKnows == ASSUME IInv, NEW w \in Watcher PROVE Knows(w)
BY KnowsIs DEF IInv, Published, Reading

LEMMA ReadersAre ==
  ASSUME Published', (\A w \in Watcher : Knows(w))', OnlySubscribers',
         queue' \in [Watcher -> Seq(1..Len(events'))],
         got' \in [Watcher -> 0..Len(events')],
         watch' \in [Watcher -> {"away", "start", "on", "told"}]
  PROVE  Reading' /\ NoDeafWatcher'
<1>1. (events \in Seq(Kind))' /\ (queue \in [Watcher -> Seq(1..Len(events))])'
  BY DEF Published
<1>2. (NewestKept /\ NoDeafWatcher)'
  BY <1>1, KnowsIs, PTL
<1>3. QED
  BY <1>2 DEF Reading

(* Nothing is published or taken, and the kill of a session closed by this *)
(* step has still to be published.                                         *)
LEMMA QuietStep ==
  ASSUME IInv, Published', UNCHANGED <<events, readers>>,
         status' # "killed" \/ ~ said' \/ UNCHANGED <<status, said>>
  PROVE  Reading' /\ NoDeafWatcher'
<1>1. ASSUME NEW w \in Watcher PROVE Knows(w)'
  BY IInvKnows DEF readers, Knows, Kept, Hears, Overrun
<1>2. QED
  BY <1>1, ReadersAre DEF IInv, Reading, OnlySubscribers, readers

LEMMA PublishStep ==
  ASSUME IInv, Published', NEW kind \in Kind, Publish(kind), UNCHANGED status,
         kind = "session_closed" \/ UNCHANGED said
  PROVE  Reading' /\ NoDeafWatcher'
<1> USE DEF IInv
<1>1. /\ events' \in Seq(Kind) /\ Len(events) \in Nat /\ Len(events') = Len(events) + 1
      /\ events'[Len(events) + 1] = kind
      /\ \A e \in 1..Len(events) : events'[e] = events[e]
  <2>1. events \in Seq(Kind)
    BY DEF Published
  <2>2. QED
    BY <2>1, AppendProperties DEF Publish
<1> DEFINE n == Len(events)
<1>2. ASSUME NEW w \in Watcher, watch[w] = "on"
      PROVE  /\ queue'[w] \in Seq(1..(n + 1)) /\ Newest(queue'[w], n + 1)
             /\ Len(queue'[w]) = IF Len(queue[w]) < QueueMax THEN Len(queue[w]) + 1 ELSE QueueMax
  <2>1. Kept(w) /\ queue[w] \in Seq(1..n)
    BY <1>2, IInvKnows DEF Knows, Reading
  <2>2. queue'[w] = Put(queue[w], n + 1)
    BY <1>2 DEF Publish
  <2>3. QED
    BY <1>1, <2>1, <2>2, PutKeeps DEF Kept
<1>3. ASSUME NEW w \in Watcher PROVE Knows(w)'
  <2> SUFFICES ASSUME watch[w] = "on"
               PROVE  Kept(w)' /\ (status' = "killed" /\ said' => Hears(w)' \/ Overrun')
    BY DEF Knows, Publish
  <2>1. Kept(w) /\ (status = "killed" /\ said => Hears(w) \/ Overrun)
    BY IInvKnows DEF Knows
  <2>2. PICK k \in Nat, l \in Nat, m \in Nat :
          /\ k = Len(events) /\ l = Len(queue[w]) /\ m = Len(queue'[w])
          /\ l < QueueMax => m = l + 1
          /\ ~ l < QueueMax => l = QueueMax /\ m = QueueMax
    <3>1. Len(events) \in Nat /\ Len(queue[w]) \in Nat /\ Len(queue'[w]) \in Nat
      BY <1>1, <1>2 DEF Reading
    <3>2. Len(queue[w]) < QueueMax => Len(queue'[w]) = Len(queue[w]) + 1
      BY <1>2
    <3>3. ~ Len(queue[w]) < QueueMax => Len(queue'[w]) = QueueMax
      BY <1>2
    <3>4. ~ Len(queue[w]) < QueueMax => Len(queue[w]) = QueueMax
      BY <2>1, <3>1, StreamAssumption DEF Kept
    <3>5. QED
      BY <3>1, <3>2, <3>3, <3>4
  <2>3. /\ QueueMax \in Nat /\ QueueMax > 0
        /\ l < QueueMax => m = l + 1
        /\ ~ l < QueueMax => l = QueueMax /\ m = QueueMax
    BY <2>2, StreamAssumption
  <2>4. Len(events') = k + 1 /\ got' = got
    BY <1>1, <2>2 DEF Publish
  <2>5. /\ Hears(w) <=> \E e \in 1..k : e > k - l /\ events[e] = "session_closed"
        /\ Hears(w)' <=> \E e \in 1..(k + 1) : e > k + 1 - m /\ events'[e] = "session_closed"
    BY <2>2, <2>4 DEF Hears
  <2>6. /\ Overrun <=> \A i \in 1..k : events[i] = "session_closed" => k >= i + QueueMax
        /\ Overrun' <=> \A i \in 1..(k + 1) :
                         events'[i] = "session_closed" => k + 1 >= i + QueueMax
    <3>1. DOMAIN events = 1..k /\ DOMAIN events' = 1..(k + 1)
      BY <1>1, <2>2, <2>4 DEF Published
    <3>2. QED
      BY <2>2, <2>4, <3>1 DEF Overrun
  <2>7. Kept(w)'
    <3>1. l < QueueMax => got[w] = k - l
      BY <2>1, <2>2 DEF Kept
    <3>2. m <= QueueMax /\ (m < QueueMax => got[w] = k + 1 - m)
      BY <2>3, <3>1
    <3>3. Newest(queue'[w], Len(events'))
      BY <1>1, <1>2
    <3>4. Len(queue'[w]) <= QueueMax
      BY <2>2, <3>2
    <3>5. ASSUME Len(queue'[w]) < QueueMax
          PROVE  got'[w] = Len(events') - Len(queue'[w])
      <4>1. m < QueueMax /\ m = Len(queue'[w])
        BY <2>2, <3>5
      <4>2. got'[w] = k + 1 - m
        BY <2>4, <3>2, <4>1
      <4>3. QED
        BY <2>4, <4>1, <4>2
    <3>6. QED
      BY <3>3, <3>4, <3>5 DEF Kept
  <2>8. ASSUME status' = "killed", said' PROVE Hears(w)' \/ Overrun'
    <3>1. events'[k + 1] = kind /\ \A e \in 1..k : events'[e] = events[e]
      BY <1>1, <2>2
    <3>2. CASE kind = "session_closed"
      BY <2>3, <2>5, <3>1, <3>2
    <3>3. CASE kind # "session_closed" /\ l < QueueMax
      <4>1. Hears(w) \/ Overrun
        BY <2>1, <2>8, <3>3
      <4>2. QED
        BY <2>3, <2>5, <2>6, <2>8, <3>1, <3>3, <4>1
    <3>4. CASE kind # "session_closed" /\ ~ l < QueueMax
      BY <2>3, <2>5, <2>6, <2>8, <3>1, <3>4
    <3>5. QED
      BY <3>2, <3>3, <3>4
  <2>9. QED
    BY <2>7, <2>8
<1>4. queue' \in [Watcher -> Seq(1..Len(events'))]
  <2> SUFFICES ASSUME NEW w \in Watcher PROVE queue'[w] \in Seq(1..(n + 1))
    BY <1>1 DEF Publish
  <2>1. CASE watch[w] # "on"
    BY <1>1, <2>1 DEF Reading, Publish, OnlySubscribers
  <2>2. QED
    BY <1>2, <2>1
<1>5. QED
  BY <1>1, <1>3, <1>4, ReadersAre DEF Reading, OnlySubscribers, Publish

(* A step of one reader. *)
LEMMA ReaderStep ==
  ASSUME IInv, UNCHANGED stream, NEW w \in Watcher,
         NEW q \in Seq(1..Len(events)), NEW g \in 0..Len(events),
         NEW pc \in {"away", "start", "on", "told"},
         queue' = [queue EXCEPT ![w] = q], got' = [got EXCEPT ![w] = g],
         watch' = [watch EXCEPT ![w] = pc],
         IF pc = "on" THEN Knows(w)' ELSE q = <<>>
  PROVE  Published' /\ Reading' /\ NoDeafWatcher'
<1>1. Published'
  BY DEF IInv, Published, stream
<1>2. ASSUME NEW x \in Watcher PROVE Knows(x)'
  <2>1. CASE x = w
    BY <2>1 DEF Knows, IInv, Reading
  <2>2. CASE x # w
    BY <2>2, IInvKnows DEF Knows, Kept, Hears, Overrun, stream, IInv, Reading
  <2>3. QED
    BY <2>1, <2>2
<1>3. QED
  BY <1>1, <1>2, ReadersAre DEF IInv, Reading, OnlySubscribers, stream

LEMMA UnsubscribeStep ==
  ASSUME IInv, UNCHANGED stream, NEW w \in Watcher, NEW pc \in {"away", "told"},
         Unsubscribe(w, pc)
  PROVE  Published' /\ Reading' /\ NoDeafWatcher'
<1>1. <<>> \in Seq(1..Len(events)) /\ 0 \in 0..Len(events)
  BY DEF IInv, Published
<1>2. QED
  BY <1>1, ReaderStep DEF Unsubscribe

LEMMA SubscribeStep ==
  ASSUME IInv, UNCHANGED stream, NEW w \in Watcher, watch[w] # "on", Subscribe(w)
  PROVE  Published' /\ Reading' /\ NoDeafWatcher'
<1>1. CASE Closed
  BY <1>1, UnsubscribeStep DEF Subscribe
<1>2. CASE ~ Closed
  <2>1. queue[w] = <<>> /\ Len(events) \in Nat
    BY DEF IInv, Reading, OnlySubscribers, Published
  <2>2. /\ watch' = [watch EXCEPT ![w] = "on"] /\ got' = [got EXCEPT ![w] = Len(events)]
        /\ queue' = [queue EXCEPT ![w] = queue[w]] /\ UNCHANGED queue
    BY <1>2 DEF Subscribe, IInv, Reading
  <2>3. Knows(w)'
    BY <1>2, <2>1, <2>2, StreamAssumption
    DEF Knows, Kept, Newest, Closed, stream, IInv, Reading
  <2>4. queue[w] \in Seq(1..Len(events)) /\ Len(events) \in 0..Len(events)
    BY <2>1 DEF IInv, Reading
  <2>5. QED
    BY <2>2, <2>3, <2>4, ReaderStep
<1>3. QED
  BY <1>1, <1>2

LEMMA TakeStep ==
  ASSUME IInv, NEW w \in Watcher, Take(w)
  PROVE  Published' /\ Reading' /\ NoDeafWatcher'
<1>1. CASE events[Head(queue[w])] = "session_closed"
  BY <1>1, UnsubscribeStep DEF Take
<1>2. CASE events[Head(queue[w])] # "session_closed"
  <2> DEFINE n == Len(events)
             q == Tail(queue[w])
  <2>1. /\ Kept(w) /\ n \in Nat /\ queue[w] \in Seq(1..n) /\ queue[w] # <<>>
        /\ status = "killed" /\ said => Hears(w) \/ Overrun
    BY IInvKnows DEF Knows, Take, IInv, Published, Reading
  <2>2. /\ q \in Seq(1..n) /\ Len(q) = Len(queue[w]) - 1 /\ Newest(q, n)
        /\ Head(queue[w]) = n - Len(q) /\ Head(queue[w]) \in 1..n
    BY <2>1, TailKeeps DEF Kept
  <2>3. /\ queue' = [queue EXCEPT ![w] = q] /\ got' = [got EXCEPT ![w] = Head(queue[w])]
        /\ watch' = watch /\ watch[w] = "on" /\ UNCHANGED stream
    BY <1>2 DEF Take
  <2>4. queue'[w] = q /\ got'[w] = Head(queue[w])
    BY <2>3 DEF IInv, Reading
  <2>5. PICK k \in Nat, l \in Nat :
          /\ k = n /\ l = Len(q) /\ Len(queue[w]) = l + 1 /\ Head(queue[w]) = k - l
          /\ l + 1 <= QueueMax
    <3>1. Len(q) \in Nat /\ Len(queue[w]) \in Nat /\ Len(queue[w]) = Len(q) + 1
      BY <2>1, <2>2
    <3>2. QED
      BY <2>1, <2>2, <3>1 DEF Kept
  <2>6. Kept(w)' /\ (Hears(w) => Hears(w)')
    <3>1. QueueMax \in Nat /\ l <= QueueMax
      BY <2>5, StreamAssumption
    <3>2. Kept(w)'
      BY <2>2, <2>3, <2>4, <2>5, <3>1 DEF Kept, stream
    <3>3. /\ Hears(w) <=> \E e \in 1..k : e > k - (l + 1) /\ events[e] = "session_closed"
          /\ Hears(w)' <=> \E e \in 1..k : e > k - l /\ events[e] = "session_closed"
      BY <2>3, <2>4, <2>5 DEF Hears, stream
    <3>4. events[k - l] # "session_closed"
      BY <1>2, <2>5
    <3>5. QED
      BY <3>2, <3>3, <3>4
  <2>7. Knows(w)'
    BY <2>1, <2>3, <2>6 DEF Knows, Overrun, stream
  <2>8. watch' = [watch EXCEPT ![w] = "on"] /\ Head(queue[w]) \in 0..n
    BY <2>1, <2>2, <2>3 DEF IInv, Reading
  <2>9. QED
    BY <2>2, <2>3, <2>7, <2>8, ReaderStep
<1>3. QED
  BY <1>1, <1>2

-----------------------------------------------------------------------------
(* The actions *)

LEMMA Counts ==
  ASSUME IInv
  PROVE  /\ Len(events) \in Nat /\ kills \in Nat /\ closes \in Nat
         /\ MaxCloses \in Nat /\ MaxEvents \in Nat
BY StreamAssumption DEF IInv, Published

LEMMA PublishedIs ==
  ASSUME IInv, NEW kind \in Kind, Publish(kind), Len(events) + kills' < MaxEvents,
         kills' \in Nat, kills' <= kills, UNCHANGED <<status, closes>>, turn' \in BOOLEAN,
         said' \in BOOLEAN
  PROVE  Published'
<1>1. events' \in Seq(Kind) /\ Len(events') = Len(events) + 1
  BY AppendProperties DEF Publish, IInv, Published
<1>2. Len(events') + kills' <= MaxEvents
  BY <1>1, Counts
<1>3. kills' \in 0..MaxCloses /\ kills' <= closes
  BY Counts DEF IInv, Published
<1>4. QED
  BY <1>1, <1>2, <1>3 DEF IInv, Published

LEMMA TurnSteps ==
  ASSUME IInv, TurnStart \/ TurnEvent \/ TurnEnd PROVE IInv'
<1>1. CASE TurnStart \/ TurnEvent
  <2>1. PICK kind \in {"user", "turn"} :
          /\ Publish(kind) /\ Len(events) + kills < MaxEvents /\ turn' \in BOOLEAN
          /\ UNCHANGED <<status, kills, said, closes>>
    BY <1>1 DEF TurnStart, TurnEvent, IInv, Published
  <2>2. kind \in Kind /\ kills' \in Nat /\ kills' <= kills /\ said' \in BOOLEAN
    BY <2>1, Counts DEF Kind, IInv, Published
  <2>3. Published'
    BY <2>1, <2>2, PublishedIs
  <2>4. QED
    BY <2>1, <2>2, <2>3, PublishStep DEF IInv, Bridges, Publish
<1>2. CASE TurnEnd
  <2>1. Published'
    BY <1>2 DEF TurnEnd, IInv, Published
  <2>2. QED
    BY <1>2, <2>1, QuietStep DEF TurnEnd, IInv, Bridges, readers
<1>3. QED
  BY <1>1, <1>2

LEMMA KillSteps ==
  ASSUME IInv, KillWrite \/ KillPublish \/ KillCancelled \/ Reap \/ Revive PROVE IInv'
<1>1. CASE KillWrite
  <2>1. /\ status' = "killed" /\ kills' = kills + 1 /\ closes' = closes + 1
        /\ said' = (said /\ status = "killed")
        /\ closes < MaxCloses /\ Len(events) + kills < MaxEvents
        /\ UNCHANGED <<turn, events, readers, tile>>
    BY <1>1 DEF KillWrite
  <2>2. Published'
    <3>1. /\ kills' \in 0..MaxCloses /\ closes' \in 0..MaxCloses /\ kills' <= closes'
          /\ Len(events) + kills' <= MaxEvents /\ said' \in BOOLEAN
      BY <2>1, Counts DEF IInv, Published
    <3>2. QED
      BY <2>1, <3>1 DEF IInv, Published
  <2>3. ~ said' \/ UNCHANGED <<status, said>>
    BY <2>1 DEF IInv, Published
  <2>4. QED
    BY <2>1, <2>2, <2>3, QuietStep DEF IInv, Bridges, readers
<1>2. CASE KillPublish
  <2>1. /\ Publish("session_closed") /\ "session_closed" \in Kind
        /\ kills > 0 /\ kills' = kills - 1 /\ said' \in BOOLEAN
        /\ UNCHANGED <<status, turn, closes>>
    BY <1>2 DEF KillPublish, Kind
  <2>2. kills' \in Nat /\ kills' <= kills /\ Len(events) + kills' < MaxEvents
    BY <2>1, Counts DEF IInv, Published
  <2>3. Published'
    BY <2>1, <2>2, PublishedIs DEF IInv, Published
  <2>4. QED
    BY <2>1, <2>3, PublishStep DEF IInv, Bridges, Publish
<1>3. CASE KillCancelled
  <2>1. /\ kills > 0 /\ kills' = kills - 1
        /\ UNCHANGED <<status, turn, said, closes, events, readers, tile>>
    BY <1>3 DEF KillCancelled
  <2>2. kills' \in 0..MaxCloses /\ kills' <= closes /\ Len(events) + kills' <= MaxEvents
    BY <2>1, Counts DEF IInv, Published
  <2>3. Published'
    BY <2>1, <2>2 DEF IInv, Published
  <2>4. QED
    BY <2>1, <2>3, QuietStep DEF IInv, Bridges, readers
<1>4. CASE Reap \/ Revive
  <2>1. /\ status' \in {"live", "reaped"} /\ UNCHANGED <<turn, kills, said, events, readers, tile>>
        /\ closes' \in 0..MaxCloses /\ kills <= closes'
    BY <1>4, Counts DEF Reap, Revive, IInv, Published
  <2>2. Published'
    BY <2>1 DEF IInv, Published
  <2>3. QED
    BY <2>1, <2>2, QuietStep DEF IInv, Bridges, readers
<1>5. QED
  BY <1>1, <1>2, <1>3, <1>4

LEMMA ReaderSteps ==
  ASSUME IInv,
         \/ \E w \in Watcher : Take(w)
         \/ \E o \in Observer : ObserverOpens(o) \/ ObserverLeaves(o)
         \/ \E a \in Tile : WatcherOpens(a)
  PROVE  IInv'
<1>1. UNCHANGED tile
  BY DEF Take, ObserverOpens, ObserverLeaves, WatcherOpens
<1>2. Published' /\ Reading' /\ NoDeafWatcher'
  BY TakeStep, SubscribeStep, UnsubscribeStep
  DEF ObserverOpens, ObserverLeaves, WatcherOpens, Watcher
<1>3. \A a \in Tile : watch'[a] = watch[a] \/ watch[a] # "away"
  BY StreamAssumption
  DEF Take, ObserverOpens, ObserverLeaves, WatcherOpens, Subscribe, Unsubscribe, IInv, Reading,
      Watcher
<1>4. QED
  BY <1>1, <1>2, <1>3 DEF IInv, Bridges

TileCode == {"4404", "4410", "4415", "1000", "1006", "1011", "1012", "dropped"}

(* The records a step makes of a terminal. *)
LEMMA TileFrames ==
  ASSUME NEW r \in TileType, NEW f \in {0, 1}
  PROVE  \E x \in TileType : x = [r EXCEPT !.frames = f] /\ x.pc = r.pc
<1>1. [r EXCEPT !.frames = f] \in TileType /\ [r EXCEPT !.frames = f].pc = r.pc
  BY DEF TileType
<1>2. QED
  BY <1>1, Zenon

LEMMA TileMind ==
  ASSUME NEW r \in TileType, NEW code \in {"1000", "1006", "1012"}
  PROVE  \E x \in TileType : x = [r EXCEPT !.mind = code] /\ x.pc = r.pc
<1>1. [r EXCEPT !.mind = code] \in TileType /\ [r EXCEPT !.mind = code].pc = r.pc
  BY DEF TileType
<1>2. QED
  BY <1>1, Zenon

LEMMA TileHere ==
  ASSUME NEW r \in TileType
  PROVE  \E x \in TileType : x = [r EXCEPT !.here = FALSE] /\ x.pc = r.pc
<1>1. [r EXCEPT !.here = FALSE] \in TileType /\ [r EXCEPT !.here = FALSE].pc = r.pc
  BY DEF TileType
<1>2. QED
  BY <1>1, Zenon

LEMMA TileBridged ==
  ASSUME NEW r \in TileType
  PROVE  \E x \in TileType : x = [r EXCEPT !.pc = "bridged", !.mind = "open"]
<1>1. [r EXCEPT !.pc = "bridged", !.mind = "open"] \in TileType
  BY DEF TileType
<1>2. QED
  BY <1>1, Zenon

LEMMA TileConnecting ==
  ASSUME NEW r \in TileType, NEW live \in BOOLEAN
  PROVE  \E x \in TileType :
           x = [r EXCEPT !.pc = "connecting", !.live = live] /\ x.pc = "connecting"
<1>1. /\ [r EXCEPT !.pc = "connecting", !.live = live] \in TileType
      /\ [r EXCEPT !.pc = "connecting", !.live = live].pc = "connecting"
  BY DEF TileType
<1>2. QED
  BY <1>1, Zenon

LEMMA NewTile == NoBridge \in TileType /\ NoBridge.pc = "away"
BY DEF NoBridge, TileType

LEMMA TileClosed ==
  ASSUME NEW code \in TileCode
  PROVE  \E x \in TileType :
           /\ x = [NoBridge EXCEPT !.pc = "closed", !.code = code]
           /\ x.pc = "closed" /\ x.code = code
<1>1. ASSUME NEW r \in TileType
      PROVE  /\ [r EXCEPT !.pc = "closed", !.code = code] \in TileType
             /\ [r EXCEPT !.pc = "closed", !.code = code].pc = "closed"
             /\ [r EXCEPT !.pc = "closed", !.code = code].code = code
  BY DEF TileType, TileCode
<1>2. QED
  BY <1>1, NewTile, Zenon

LEMMA BridgeEnded ==
  ASSUME tile \in [Tile -> TileType], NEW a \in Tile, NEW code \in TileCode, BridgeEnds(a, code)
  PROVE  /\ tile' \in [Tile -> TileType] /\ tile'[a].code = code
         /\ \A b \in Tile \ {a} : tile'[b] = tile[b]
<1>1. PICK x \in TileType : x = [NoBridge EXCEPT !.pc = "closed", !.code = code] /\ x.code = code
  BY TileClosed
<1>2. tile' = [tile EXCEPT ![a] = x]
  BY <1>1 DEF BridgeEnds
<1>3. QED
  BY <1>1, <1>2

(* A terminal that is not bridged yet has nobody who could miss anything.  *)
LEMMA ConnectStep == ASSUME IInv, NEW a \in Tile, AttachConnect(a) PROVE IInv'
<1>1. Bridges'
  <2>1. tile'[a].pc = "bridged" /\ \A b \in Tile \ {a} : tile'[b] = tile[b] /\ watch'[b] = watch[b]
    BY DEF AttachConnect, IInv, Bridges, TileType, Reading, Watcher
  <2>2. tile' \in [Tile -> TileType]
    <3>1. tile' = [tile EXCEPT ![a] = [tile[a] EXCEPT !.pc = "bridged", !.mind = "open"]]
      BY DEF AttachConnect
    <3>2. PICK x \in TileType : x = [tile[a] EXCEPT !.pc = "bridged", !.mind = "open"]
      BY TileBridged DEF IInv, Bridges
    <3>3. QED
      BY <3>1, <3>2 DEF IInv, Bridges
  <2>3. QED
    BY <2>1, <2>2 DEF IInv, Bridges
<1>2. PICK pc \in {"start", "away"} : watch' = [watch EXCEPT ![a] = pc]
  BY DEF AttachConnect
<1>3. a \in Watcher /\ watch[a] = "away"
  BY DEF IInv, Bridges, AttachConnect, Watcher
<1>4. queue[a] = <<>> /\ queue' = [queue EXCEPT ![a] = queue[a]] /\ got' = [got EXCEPT ![a] = got[a]]
  BY <1>3 DEF IInv, Reading, OnlySubscribers, AttachConnect
<1>5. queue[a] \in Seq(1..Len(events)) /\ got[a] \in 0..Len(events)
  BY <1>3 DEF IInv, Reading
<1>6. Published' /\ Reading' /\ NoDeafWatcher'
  <2>1. UNCHANGED stream /\ pc \in {"away", "start", "on", "told"} /\ pc # "on"
    BY DEF AttachConnect
  <2>2. QED
    BY <1>2, <1>3, <1>4, <1>5, <2>1, ReaderStep
<1>7. QED
  BY <1>1, <1>6 DEF IInv

LEMMA BridgeEndsStep ==
  ASSUME IInv, NEW a \in Tile,
         \/ WatcherEnds(a) \/ PumpMindEnds(a) \/ PumpBrowserEnds(a)
  PROVE  IInv'
<1>1. PICK code \in {"4410", "1000", "1006", "1012", "dropped"} : BridgeEnds(a, code)
  BY DEF WatcherEnds, PumpMindEnds, PumpBrowserEnds, PassedOn, MindGone, IInv, Bridges, TileType
<1>2. Published' /\ Reading' /\ NoDeafWatcher'
  BY <1>1, UnsubscribeStep DEF BridgeEnds, Watcher
<1>3. Bridges'
  <2>1. code \in TileCode
    BY DEF TileCode
  <2>2. tile' \in [Tile -> TileType] /\ \A b \in Tile \ {a} : tile'[b] = tile[b]
    BY <1>1, <2>1, BridgeEnded DEF IInv, Bridges
  <2>3. watch'[a] = "away" /\ \A b \in Tile \ {a} : watch'[b] = watch[b]
    BY <1>1 DEF BridgeEnds, Unsubscribe, IInv, Reading, Watcher
  <2>4. QED
    BY <2>2, <2>3 DEF IInv, Bridges
<1>4. QED
  BY <1>2, <1>3 DEF IInv

(* The other steps of a terminal leave it bridged or unbridged. *)
LEMMA TileSteps ==
  ASSUME IInv, NEW a \in Tile,
         \/ AttachRead(a) \/ AttachFails(a) \/ Reconnect(a)
         \/ MindOutput(a) \/ MindCloses(a) \/ BrowserTakes(a) \/ BrowserLeaves(a)
  PROVE  IInv'
<1>1. PICK x \in TileType : /\ tile' = [tile EXCEPT ![a] = x]
                            /\ x.pc = "bridged" <=> tile[a].pc = "bridged"
  <2>1. tile[a] \in TileType
    BY DEF IInv, Bridges
  <2>2. CASE AttachRead(a)
    <3>1. tile' = [tile EXCEPT ![a] = [NoBridge EXCEPT !.pc = "connecting", !.live = ~ Closed]]
      BY <2>2 DEF AttachRead
    <3>2. PICK live \in BOOLEAN : tile' = [tile EXCEPT ![a] =
                                    [NoBridge EXCEPT !.pc = "connecting", !.live = live]]
      BY <3>1
    <3>3. PICK x \in TileType :
            /\ x = [NoBridge EXCEPT !.pc = "connecting", !.live = live]
            /\ x.pc = "connecting"
      BY NewTile, TileConnecting
    <3>4. QED
      BY <2>2, <3>2, <3>3 DEF AttachRead
  <2>3. CASE AttachFails(a)
    <3>1. PICK code \in {"4404", "4415", "1011"} :
            tile' = [tile EXCEPT ![a] = [NoBridge EXCEPT !.pc = "closed", !.code = code]]
      BY <2>3 DEF AttachFails
    <3>2. PICK x \in TileType :
            x = [NoBridge EXCEPT !.pc = "closed", !.code = code] /\ x.pc = "closed"
      <4>1. code \in TileCode
        BY DEF TileCode
      <4>2. QED
        BY <4>1, TileClosed
    <3>3. QED
      BY <2>3, <3>1, <3>2 DEF AttachFails
  <2>4. CASE Reconnect(a)
    BY <2>4, NewTile DEF Reconnect
  <2>5. CASE MindCloses(a)
    <3>1. PICK code \in {"1000", "1006", "1012"} :
            tile' = [tile EXCEPT ![a] = [tile[a] EXCEPT !.mind = code]]
      BY <2>5 DEF MindCloses
    <3>2. PICK x \in TileType : x = [tile[a] EXCEPT !.mind = code] /\ x.pc = tile[a].pc
      BY <2>1, TileMind
    <3>3. QED
      BY <3>1, <3>2
  <2>6. CASE MindOutput(a) \/ BrowserTakes(a)
    <3>1. PICK f \in {0, 1} : tile' = [tile EXCEPT ![a] = [tile[a] EXCEPT !.frames = f]]
      BY <2>6 DEF MindOutput, BrowserTakes
    <3>2. PICK x \in TileType : x = [tile[a] EXCEPT !.frames = f] /\ x.pc = tile[a].pc
      BY <2>1, TileFrames
    <3>3. QED
      BY <3>1, <3>2
  <2>7. CASE BrowserLeaves(a)
    <3>1. tile' = [tile EXCEPT ![a] = [tile[a] EXCEPT !.here = FALSE]]
      BY <2>7 DEF BrowserLeaves
    <3>2. PICK x \in TileType : x = [tile[a] EXCEPT !.here = FALSE] /\ x.pc = tile[a].pc
      BY <2>1, TileHere
    <3>3. QED
      BY <3>1, <3>2
  <2>8. QED
    BY <2>2, <2>3, <2>4, <2>5, <2>6, <2>7
<1>2. UNCHANGED <<stream, readers>>
  BY DEF AttachRead, AttachFails, Reconnect, MindOutput, MindCloses, BrowserTakes, BrowserLeaves
<1>3. Bridges'
  BY <1>1, <1>2 DEF IInv, Bridges, readers
<1>4. Published' /\ UNCHANGED <<status, said, events>>
  BY <1>2 DEF stream, IInv, Published
<1>5. QED
  BY <1>2, <1>3, <1>4, QuietStep DEF IInv

LEMMA IInvInit == Init => IInv
<1> SUFFICES ASSUME Init PROVE IInv
  OBVIOUS
<1>1. Published
  <2>1. events \in Seq(Kind) /\ Len(events) = 0 /\ kills = 0
    BY EmptySeq DEF Init
  <2>2. 0 \in 0..MaxCloses /\ Len(events) + kills <= MaxEvents
    BY <2>1, StreamAssumption
  <2>3. status = "live" /\ turn = FALSE /\ kills = 0 /\ said = FALSE /\ closes = 0 /\ kills <= closes
    BY DEF Init
  <2>4. QED
    BY <2>1, <2>2, <2>3 DEF Published
<1>2. Reading
  <2>1. events = <<>> /\ Len(events) = 0 /\ \A w \in Watcher : queue[w] = <<>> /\ watch[w] = "away"
    BY DEF Init
  <2>2. QED
    BY <2>1 DEF Init, Reading, OnlySubscribers, NewestKept
<1>3. Bridges
  BY DEF Init, Bridges, NoBridge, TileType, Watcher
<1>4. QED
  BY <1>1, <1>2, <1>3 DEF Init, IInv, NoDeafWatcher

LEMMA IInvStep == IInv /\ [Next]_vars => IInv'
<1> SUFFICES ASSUME IInv, [Next]_vars PROVE IInv'
  OBVIOUS
<1>1. CASE UNCHANGED vars
  <2>1. Published' /\ UNCHANGED <<status, said, events, readers, tile>>
    BY <1>1 DEF vars, stream, IInv, Published
  <2>2. QED
    BY <2>1, QuietStep DEF IInv, Bridges, readers
<1>2. QED
  BY <1>1, TurnSteps, KillSteps, ReaderSteps, ConnectStep, BridgeEndsStep, TileSteps DEF Next

LEMMA IInvAlways == Spec => []IInv
BY IInvInit, IInvStep, PTL DEF Spec

-----------------------------------------------------------------------------
(* The theorems *)

(* Every variable keeps its type, so no bridge is closed with a code the   *)
(* browser does not know and no more events are queued than there are.     *)
THEOREM StreamTypes == Spec => []TypeOK
<1>1. IInv => TypeOK
  <2> SUFFICES ASSUME IInv PROVE TypeOK
    OBVIOUS
  <2>1. Len(events) <= MaxEvents
    BY Counts DEF IInv, Published
  <2>2. QED
    BY <2>1 DEF IInv, Published, Reading, Bridges, TypeOK
<1>2. QED
  BY <1>1, IInvAlways, PTL

(* A subscriber that falls behind misses the oldest events and nothing     *)
(* else (_publish_session_event).                                          *)
THEOREM OldestDropped == Spec => []NewestKept
BY IInvAlways, PTL DEF IInv, Reading

(* Whatever is published, taken, killed and revived in between, who still  *)
(* subscribes to a session whose kill was published has its end before     *)
(* him, or so many later events that a queue could not hold it             *)
(* (kill_session, ws_attach).                                              *)
THEOREM EndReaches == Spec => []NoDeafWatcher
BY IInvAlways, PTL DEF IInv

(* An evicted terminal is never closed with a code that makes its browser  *)
(* come back (ws_attach).                                                  *)
THEOREM EvictionTold == Spec => EvictedStandsDown
<1> DEFINE Told ==
      \A a \in Tile :
        (/\ tile[a].pc = "bridged" /\ tile'[a].pc = "closed"
         /\ tile[a].mind = "1012" /\ tile[a].here /\ tile[a].frames = 0)
          => tile'[a].code \in {"1012", "4410"}
<1>1. ASSUME IInv, Next, NEW a \in Tile,
             tile[a].pc = "bridged", tile'[a].pc = "closed",
             tile[a].mind = "1012", tile[a].here, tile[a].frames = 0
      PROVE  tile'[a].code \in {"1012", "4410"}
  <2>1. tile'[a] # tile[a]
    BY <1>1
  <2>2. CASE WatcherEnds(a) \/ PumpMindEnds(a) \/ PumpBrowserEnds(a)
    <3>1. ~ PumpBrowserEnds(a)
      BY <1>1 DEF PumpBrowserEnds
    <3>2. PICK code \in {"1012", "4410"} : BridgeEnds(a, code)
      BY <1>1, <2>2, <3>1 DEF WatcherEnds, PumpMindEnds, PassedOn
    <3>3. QED
      BY <1>1, <3>2, BridgeEnded DEF IInv, Bridges, TileCode
  <2>3. CASE \/ AttachRead(a) \/ AttachFails(a) \/ AttachConnect(a) \/ Reconnect(a)
             \/ MindOutput(a) \/ MindCloses(a) \/ BrowserTakes(a) \/ BrowserLeaves(a)
    BY <1>1, <2>3
    DEF AttachRead, AttachFails, AttachConnect, Reconnect, MindOutput, MindCloses, BrowserTakes,
        BrowserLeaves, IInv, Bridges, TileType
  <2>4. CASE UNCHANGED tile
    BY <2>1, <2>4
  <2>5. ASSUME NEW b \in Tile \ {a},
               \/ AttachRead(b) \/ AttachFails(b) \/ AttachConnect(b) \/ Reconnect(b)
               \/ MindOutput(b) \/ MindCloses(b) \/ BrowserTakes(b) \/ BrowserLeaves(b)
               \/ WatcherEnds(b) \/ PumpMindEnds(b) \/ PumpBrowserEnds(b)
        PROVE  FALSE
    <3>1. \E x : tile' = [tile EXCEPT ![b] = x]
      BY <2>5
      DEF AttachRead, AttachFails, AttachConnect, Reconnect, MindOutput, MindCloses,
          BrowserTakes, BrowserLeaves, WatcherEnds, PumpMindEnds, PumpBrowserEnds, BridgeEnds
    <3>2. QED
      BY <2>1, <3>1 DEF IInv, Bridges
  <2>6. CASE \/ TurnStart \/ TurnEvent \/ TurnEnd
             \/ KillWrite \/ KillPublish \/ KillCancelled \/ Reap \/ Revive
             \/ \E w \in Watcher : Take(w)
             \/ \E o \in Observer : ObserverOpens(o) \/ ObserverLeaves(o)
             \/ \E b \in Tile : WatcherOpens(b)
    BY <2>4, <2>6
    DEF TurnStart, TurnEvent, TurnEnd, KillWrite, KillPublish, KillCancelled, Reap, Revive, Publish, Take,
        ObserverOpens, ObserverLeaves, WatcherOpens
  <2>7. QED
    BY <1>1, <2>2, <2>3, <2>5, <2>6 DEF Next
<1>2. IInv /\ [Next]_vars => [Told]_vars
  BY <1>1
<1>3. QED
  BY <1>2, IInvAlways, PTL DEF Spec, EvictedStandsDown
=============================================================================
