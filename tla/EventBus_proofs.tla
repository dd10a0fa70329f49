---------------------------- MODULE EventBus_proofs ----------------------------
(***************************************************************************)
(* Proofs about module EventBus, for any calls, readers and sizes: the     *)
(* types, that closing is final, and that no reader misses, repeats or     *)
(* swaps an event as long as the turn has no more events than a queue and  *)
(* the history hold.                                                       *)
(***************************************************************************)
EXTENDS EventBus, SequenceTheorems, FiniteSetTheorems, TLAPS

Holds(c) == callState[c] \in {"persisting", "persisted"}

\* The lock is held by the emit that persists, whose event is the last one
\* numbered; nobody persists on a closed bus.
LockIsHeld ==
    /\ \A c \in Calls : Holds(c) <=> lock = c
    /\ \A c \in Calls : Holds(c) => event[c] = sequence /\ sequence # 0
    /\ callState[Closer] \in {"idle", "putting", "done"}
    /\ closed <=> callState[Closer] # "idle"
    /\ closed => lock = Nobody
    /\ event[Closer] = Sentinel

\* The rows of the event table are in the order of their numbers, and as many
\* as were there when the final status was written stay there.
RowsInOrder ==
    /\ \A i \in 1..Len(persisted) : persisted[i] \in 1..sequence
    /\ \A i, j \in 1..Len(persisted) : i < j => persisted[i] < persisted[j]
    /\ Len(persisted) <= sequence
    /\ \A c \in Calls : callState[c] = "persisting" =>
          /\ Len(persisted) < sequence
          /\ \A i \in 1..Len(persisted) : persisted[i] < sequence
    /\ stored # Unset => stored <= Len(persisted)
    /\ \A s \in Subscribers : sawOver[s] => stored # Unset

BusInv == TypeOK /\ LockIsHeld /\ RowsInOrder

\* The turn has no more events than fit in a queue and in the history.
Small == sequence <= QueueSize /\ sequence <= HistorySize

\* The history is the table, but for the event that is about to be published.
HistoryIsTable ==
    /\ \A i \in 1..Len(history) : i <= Len(persisted) /\ history[i] = persisted[i]
    /\ \A c \in Calls : callState[c] = "persisted" =>
          /\ Len(persisted) = Len(history) + 1
          /\ persisted[Len(persisted)] = event[c]
    /\ (\A c \in Calls : callState[c] # "persisted") => Len(persisted) = Len(history)

\* What a reader has, what is replayed to it and what waits for it are the
\* history, without a gap; the sentinel comes after all of it.
Carries(s) ==
    LET r == Len(received[s])
        p == Len(replay[s])
        q == Len(queue[s])
        h == Len(history)
    IN  /\ r + p <= h
        /\ \A i \in 1..p : replay[s][i] = history[r + i]
        /\ \A i \in 1..q : queue[s][i] = IF r + p + i <= h THEN history[r + p + i]
                                         ELSE Sentinel
        /\ \/ r + p + q = h
           \/ r + p + q = h + 1 /\ closed /\ s \notin todo[Closer]

Following(s) == s \in subscribers /\ readState[s] \in {"live", "leaving"}

StreamOf(s) ==
    /\ Len(received[s]) <= Len(persisted)
    /\ \A i \in 1..Len(received[s]) : received[s][i] = persisted[i]
    /\ readState[s] = "live" => s \in subscribers
    /\ s \in subscribers => readState[s] \in {"live", "leaving", "finishing"}
    /\ Following(s) => Carries(s)
    /\ readState[s] \in {"idle", "opening", "reading"} /\ ~closed => queue[s] = <<>>
    /\ readState[s] = "drain" =>
          /\ closed
          /\ Len(received[s]) + Len(replay[s]) = Len(history)
          /\ \A i \in 1..Len(replay[s]) :
                replay[s][i] = history[Len(received[s]) + i]
    /\ readState[s] \in {"finishing", "ended"} =>
          closed /\ Len(received[s]) = Len(history)
    /\ readState[s] \in {"reading", "told"} /\ sawOver[s] => Len(received[s]) >= stored
    /\ readState[s] = "told" => sawOver[s]

\* No gap, duplicate or swap anywhere between the table and a reader.
Streams ==
    /\ HistoryIsTable
    /\ \A c \in Emits : callState[c] # "putting"
    /\ \A s \in Subscribers : StreamOf(s)

SmallInv == Small => Streams
-----------------------------------------------------------------------------
\* Those in given get the item, and the call is through with its targets or
\* held up by a full queue.
Serves(c, item, targets, given) ==
    /\ \A s \in given : Len(queue[s]) < QueueSize
    /\ queue' \in [Subscribers -> Seq(Nat)]
    /\ \A s \in Subscribers : Len(queue'[s]) <= QueueSize
    /\ \A s \in given : queue'[s] = Append(queue[s], item)
    /\ \A s \in Subscribers \ given : queue'[s] = queue[s]
    /\ waitsOn' \in [Calls -> Subscribers \cup {Nobody}]
    /\ todo' \in [Calls -> SUBSET Subscribers]
    /\ todo'[c] \subseteq targets \ given
    /\ callState' \in [Calls ->
          {"idle", "persisting", "persisted", "putting", "done", "raised"}]
    /\ \A d \in Calls \ {c} : callState'[d] = callState[d]
    /\ \/ callState'[c] = "done" /\ given = targets
       \/ callState'[c] = "putting"
          /\ \E s \in targets \ given : Len(queue[s]) >= QueueSize

\* What the loop of puts does: some of the queues with room get the item, and
\* all of the targets do unless a full one holds the call up.
LEMMA PutProperties ==
    ASSUME TypeOK, NEW c \in Calls, NEW item \in Nat, NEW targets \in SUBSET Subscribers,
           PutUntilFull(c, item, targets)
    PROVE  \E given \in SUBSET targets : Serves(c, item, targets, given)
<1>1. PICK given \in SUBSET {s \in targets : ~Full(s)} :
         /\ queue' = [s \in Subscribers |->
                         IF s \in given THEN Append(queue[s], item) ELSE queue[s]]
         /\ \/ /\ given = targets
               /\ waitsOn' = [waitsOn EXCEPT ![c] = Nobody]
               /\ todo' = [todo EXCEPT ![c] = {}]
               /\ callState' = [callState EXCEPT ![c] = "done"]
            \/ \E s \in targets \ given :
               /\ Full(s)
               /\ waitsOn' = [waitsOn EXCEPT ![c] = s]
               /\ todo' = [todo EXCEPT ![c] = targets \ given]
               /\ callState' = [callState EXCEPT ![c] = "putting"]
  BY DEF PutUntilFull
<1>2. QueueSize \in Nat
  BY EventBusAssumption
<1>3. /\ queue \in [Subscribers -> Seq(Nat)]
      /\ \A s \in Subscribers : Len(queue[s]) <= QueueSize /\ Len(queue[s]) \in Nat
  BY LenProperties DEF TypeOK
<1>4. \A s \in given : Len(queue[s]) < QueueSize
  BY <1>2, <1>3 DEF Full
<1>5. \A s \in Subscribers : /\ Append(queue[s], item) \in Seq(Nat)
                             /\ Len(Append(queue[s], item)) = Len(queue[s]) + 1
  BY <1>3, AppendProperties
<1>6. /\ queue' \in [Subscribers -> Seq(Nat)]
      /\ \A s \in given : queue'[s] = Append(queue[s], item)
      /\ \A s \in Subscribers \ given : queue'[s] = queue[s]
  BY <1>1, <1>3, <1>5
<1>7. \A s \in Subscribers : Len(queue'[s]) <= QueueSize
  <2> SUFFICES ASSUME NEW s \in Subscribers PROVE Len(queue'[s]) <= QueueSize
    OBVIOUS
  <2>1. CASE s \in given
    <3>1. Len(queue'[s]) = Len(queue[s]) + 1
      BY <1>5, <1>6, <2>1
    <3> QED BY <1>2, <1>3, <1>4, <2>1, <3>1
  <2>2. CASE s \notin given
    BY <1>3, <1>6, <2>2
  <2> QED BY <2>1, <2>2
<1>8. /\ waitsOn \in [Calls -> Subscribers \cup {Nobody}]
      /\ todo \in [Calls -> SUBSET Subscribers]
      /\ callState \in [Calls ->
            {"idle", "persisting", "persisted", "putting", "done", "raised"}]
  BY DEF TypeOK
<1>9. CASE /\ given = targets
           /\ waitsOn' = [waitsOn EXCEPT ![c] = Nobody]
           /\ todo' = [todo EXCEPT ![c] = {}]
           /\ callState' = [callState EXCEPT ![c] = "done"]
  BY <1>4, <1>6, <1>7, <1>8, <1>9 DEF Serves
<1>10. ASSUME NEW s \in targets \ given,
              /\ Full(s)
              /\ waitsOn' = [waitsOn EXCEPT ![c] = s]
              /\ todo' = [todo EXCEPT ![c] = targets \ given]
              /\ callState' = [callState EXCEPT ![c] = "putting"]
       PROVE  /\ waitsOn' \in [Calls -> Subscribers \cup {Nobody}]
              /\ todo' \in [Calls -> SUBSET Subscribers]
              /\ todo'[c] \subseteq targets \ given
              /\ callState' \in [Calls ->
                    {"idle", "persisting", "persisted", "putting", "done", "raised"}]
              /\ \A d \in Calls \ {c} : callState'[d] = callState[d]
              /\ callState'[c] = "putting"
              /\ \E t \in targets \ given : Len(queue[t]) >= QueueSize
  BY <1>8, <1>10 DEF Full
<1> QED BY <1>1, <1>4, <1>6, <1>7, <1>9, <1>10 DEF Serves

\* What is cut off the front of a sequence of numbers leaves one.
LEMMA CutProperties ==
    ASSUME NEW events \in Seq(Nat), NEW n \in 0..Len(events)
    PROVE  /\ SubSeq(events, n + 1, Len(events)) \in Seq(Nat)
           /\ Len(SubSeq(events, n + 1, Len(events))) = Len(events) - n
           /\ \A i \in 1..(Len(events) - n) :
                 SubSeq(events, n + 1, Len(events))[i] = events[n + i]
<1>1. Len(events) \in Nat /\ n \in Nat /\ n <= Len(events)
  BY LenProperties
<1>2. \A i \in (n + 1)..Len(events) : events[i] \in Nat
  BY <1>1, ElementOfSeq
<1>3. /\ SubSeq(events, n + 1, Len(events)) \in Seq(Nat)
      /\ Len(SubSeq(events, n + 1, Len(events))) =
            IF n + 1 <= Len(events) THEN Len(events) - (n + 1) + 1 ELSE 0
      /\ \A i \in 1..(Len(events) - (n + 1) + 1) :
            SubSeq(events, n + 1, Len(events))[i] = events[n + 1 + i - 1]
  BY SMTT(30), <1>1, <1>2, SubSeqProperties
<1> QED BY <1>1, <1>3

\* The events a reader has not seen, whatever it has.
LEMMA NewerType ==
    ASSUME TypeOK, NEW s \in Subscribers, NEW events \in Seq(Nat)
    PROVE  Newer(s, events) \in Seq(Nat)
<1> DEFINE seen == {i \in DOMAIN events : events[i] <= After(s)}
<1>1. Len(events) \in Nat /\ DOMAIN events = 1..Len(events)
  BY LenProperties
<1>2. /\ IsFiniteSet(1..Len(events)) /\ Cardinality(1..Len(events)) = Len(events)
  BY SMTT(30), <1>1, FS_Interval
<1>3. seen \subseteq 1..Len(events)
  BY <1>1
<1>4. Cardinality(seen) \in 0..Len(events)
  BY <1>2, <1>3, FS_Subset, FS_CardinalityType
<1> QED BY <1>4, CutProperties DEF Newer

\* When what a reader has is the beginning of events, the rest is newer.
LEMMA NewerIsTheRest ==
    ASSUME TypeOK, NEW s \in Subscribers, NEW events \in Seq(Nat),
           \A i, j \in 1..Len(events) : i < j => events[i] < events[j],
           \A i \in 1..Len(events) : events[i] > 0,
           Len(received[s]) <= Len(events),
           \A i \in 1..Len(received[s]) : received[s][i] = events[i]
    PROVE  /\ Newer(s, events) \in Seq(Nat)
           /\ Len(Newer(s, events)) = Len(events) - Len(received[s])
           /\ \A i \in 1..(Len(events) - Len(received[s])) :
                 Newer(s, events)[i] = events[Len(received[s]) + i]
<1> DEFINE r == Len(received[s])
           seen == {i \in DOMAIN events : events[i] <= After(s)}
<1>1. /\ Len(events) \in Nat /\ DOMAIN events = 1..Len(events) /\ r \in Nat
      /\ received[s] \in Seq(Nat)
      /\ \A i \in 1..Len(events) : events[i] \in Nat
  BY LenProperties, ElementOfSeq DEF TypeOK
<1>2. seen = 1..r
  <2>1. CASE r = 0
    <3>1. After(s) = 0
      BY <1>1, <2>1, EmptySeq DEF After
    <3> QED BY <1>1, <2>1, <3>1
  <2>2. CASE r # 0
    <3>0. r \in 1..Len(events) /\ r \in 1..r /\ received[s] # <<>>
      BY <1>1, <2>2
    <3>1. After(s) = events[r] /\ r \in 1..Len(events)
      BY <3>0 DEF After
    <3> SUFFICES ASSUME NEW i \in 1..Len(events)
                 PROVE  events[i] <= events[r] <=> i <= r
      BY <1>1, <3>1
    <3>2. events[i] \in Nat /\ events[r] \in Nat
      BY <1>1, <3>1
    <3>3. (i < r => events[i] < events[r]) /\ (r < i => events[r] < events[i])
      BY <3>1
    <3> QED BY <1>1, <3>1, <3>2, <3>3
  <2> QED BY <2>1, <2>2
<1>3. Cardinality(seen) = r
  <2>1. ASSUME NEW k \in Nat PROVE Cardinality(1..k) = k
    BY FS_Interval
  <2> QED BY <1>1, <1>2, <2>1
<1>4. Newer(s, events) = SubSeq(events, r + 1, Len(events))
  BY <1>3 DEF Newer
<1>5. r \in 0..Len(events)
  BY <1>1
<1> QED BY <1>4, <1>5, CutProperties

-----------------------------------------------------------------------------
ReaderStep ==
    \E s \in Subscribers : ReadStep(s) \/ Disconnect(s) \/ Reconnect(s)

\* What the readers do leaves the emits, the rows and the end of the bus alone.
LEMMA ReadersOnlyRead ==
    ASSUME TypeOK, ReaderStep
    PROVE  /\ lock' = lock /\ closed' = closed /\ sequence' = sequence
           /\ history' = history /\ rows' = rows /\ callState' = callState
           /\ event' = event /\ worker' = worker
BY DEF ReaderStep, ReadStep, ReadStatus, ReadEventTable, TellClosed, Subscribe,
       YieldReplay, EndOfReplay, YieldLive, Discard, Disconnect, Reconnect, bus, calls

\* Every step keeps every variable in its type.
LEMMA NextBusTypeOK == TypeOK /\ LockIsHeld /\ [Next]_vars => TypeOK'
<1> SUFFICES ASSUME TypeOK, LockIsHeld, [Next]_vars PROVE TypeOK'
  OBVIOUS
<1> USE EventBusAssumption
<1>e. Emits \subseteq Calls /\ Closer \in Calls /\ WorkerCalls \subseteq Emits
      /\ RequestCalls \subseteq Emits
  BY DEF Emits, Calls
<1>s. Sentinel \in Nat /\ Unset = -1
  BY DEF Sentinel, Unset
<1>1. ASSUME NEW c \in Emits, Begin(c), worker' \in WorkerCalls \cup {Nobody}
      PROVE  TypeOK'
  <2>1. c \in Calls
    BY <1>e
  <2>2. CASE closed
    BY <1>1, <2>1, <2>2 DEF Begin, TypeOK, rows, readers
  <2>3. CASE ~closed
    <3>1. /\ sequence' = sequence + 1 /\ event' = [event EXCEPT ![c] = sequence + 1]
          /\ lock' = c /\ callState' = [callState EXCEPT ![c] = "persisting"]
      BY <1>1, <2>3 DEF Begin
    <3>2. sequence + 1 \in Nat
      BY DEF TypeOK
    <3>3. sequence' \in Nat /\ event' \in [Calls -> Nat]
      BY <2>1, <3>1, <3>2 DEF TypeOK
    <3> QED BY <1>1, <2>1, <3>1, <3>3 DEF Begin, TypeOK, rows, readers
  <2> QED BY <2>2, <2>3
<1>2. ASSUME NEW c \in Calls, Persist(c) PROVE TypeOK'
  <2>1. event[c] \in Nat /\ persisted \in Seq(Nat)
    BY DEF TypeOK
  <2>2. Append(persisted, event[c]) \in Seq(Nat)
    BY <2>1, AppendProperties
  <2> QED BY <1>2, <2>2 DEF Persist, TypeOK, bus, readers
<1>3. ASSUME NEW c \in Calls, PersistFails(c) PROVE TypeOK'
  BY <1>3 DEF PersistFails, TypeOK, bus, rows, readers
<1>4. ASSUME NEW c \in Calls, Publish(c) PROVE TypeOK'
  <2>1. event[c] \in Nat /\ history \in Seq(Nat) /\ subscribers \in SUBSET Subscribers
    BY DEF TypeOK
  <2>2. /\ Append(history, event[c]) \in Seq(Nat)
        /\ Append(history, event[c]) # <<>>
    BY <2>1, AppendProperties
  <2>3. Tail(Append(history, event[c])) \in Seq(Nat)
    BY <2>2, HeadTailProperties
  <2>4. history' \in Seq(Nat)
    BY <1>4, <2>2, <2>3 DEF Publish
  <2>5. PutUntilFull(c, event[c], subscribers)
    BY <1>4 DEF Publish
  <2>6. /\ queue' \in [Subscribers -> Seq(Nat)]
        /\ \A s \in Subscribers : Len(queue'[s]) <= QueueSize
        /\ waitsOn' \in [Calls -> Subscribers \cup {Nobody}]
        /\ todo' \in [Calls -> SUBSET Subscribers]
        /\ callState' \in [Calls ->
              {"idle", "persisting", "persisted", "putting", "done", "raised"}]
    BY <2>1, <2>5, PutProperties DEF Serves
  <2> QED BY <1>4, <2>4, <2>6 DEF Publish, TypeOK, rows, readers
<1>5. ASSUME NEW c \in Calls, ResumePut(c) PROVE TypeOK'
  <2>1. event[c] \in Nat /\ todo[c] \in SUBSET Subscribers
    BY DEF TypeOK
  <2>2. PutUntilFull(c, event[c], todo[c])
    BY <1>5 DEF ResumePut
  <2>3. /\ queue' \in [Subscribers -> Seq(Nat)]
        /\ \A s \in Subscribers : Len(queue'[s]) <= QueueSize
        /\ waitsOn' \in [Calls -> Subscribers \cup {Nobody}]
        /\ todo' \in [Calls -> SUBSET Subscribers]
        /\ callState' \in [Calls ->
              {"idle", "persisting", "persisted", "putting", "done", "raised"}]
    BY <2>1, <2>2, PutProperties DEF Serves
  <2> QED BY <1>5, <2>3 DEF ResumePut, TypeOK, bus, rows, readers
<1>6. CASE WorkerResumes
  BY <1>6 DEF WorkerResumes, TypeOK, bus, rows, readers
<1>7. CASE CommitStatus
  <2>1. Len(persisted) \in Nat
    BY LenProperties DEF TypeOK
  <2> QED BY <1>7, <2>1 DEF CommitStatus, TypeOK, bus, calls, readers
<1>8. CASE Close
  <2>1. subscribers \in SUBSET Subscribers
    BY DEF TypeOK
  <2>2. PutUntilFull(Closer, Sentinel, subscribers)
    BY <1>8 DEF Close
  <2>3. /\ queue' \in [Subscribers -> Seq(Nat)]
        /\ \A s \in Subscribers : Len(queue'[s]) <= QueueSize
        /\ waitsOn' \in [Calls -> Subscribers \cup {Nobody}]
        /\ todo' \in [Calls -> SUBSET Subscribers]
        /\ callState' \in [Calls ->
              {"idle", "persisting", "persisted", "putting", "done", "raised"}]
    BY <1>e, <1>s, <2>1, <2>2, PutProperties DEF Serves
  <2> QED BY <1>8, <2>3 DEF Close, TypeOK, rows, readers
<1>9. ASSUME NEW s \in Subscribers, ReadStep(s) \/ Disconnect(s) \/ Reconnect(s)
      PROVE  TypeOK'
  <2>1. /\ received[s] \in Seq(Nat) /\ replay[s] \in Seq(Nat) /\ queue[s] \in Seq(Nat)
        /\ persisted \in Seq(Nat) /\ history \in Seq(Nat)
    BY DEF TypeOK
  <2>2. CASE ReadStatus(s)
    BY <2>2 DEF ReadStatus, TypeOK, bus, rows, calls
  <2>3. CASE ReadEventTable(s)
    <3>1. received[s] \o Newer(s, persisted) \in Seq(Nat)
      BY <2>1, NewerType, ConcatProperties
    <3> QED BY <2>3, <3>1 DEF ReadEventTable, TypeOK, bus, rows, calls
  <2>4. CASE TellClosed(s)
    BY <2>4 DEF TellClosed, TypeOK, bus, rows, calls
  <2>5. CASE Subscribe(s)
    <3>1. Newer(s, history) \in Seq(Nat)
      BY <2>1, NewerType
    <3>2. replay' \in [Subscribers -> Seq(Nat)]
      BY <2>5, <3>1 DEF Subscribe, TypeOK
    <3>3. /\ subscribers' \subseteq Subscribers
          /\ readState' \in [Subscribers ->
                 {"idle", "opening", "reading", "live", "drain", "finishing",
                  "leaving", "ended", "told", "gone"}]
      <4>1. \/ /\ readState' = [readState EXCEPT ![s] = "drain"]
               /\ subscribers' = subscribers
            \/ /\ readState' = [readState EXCEPT ![s] = "live"]
               /\ subscribers' = subscribers \cup {s}
        BY <2>5 DEF Subscribe
      <4>2. /\ subscribers \subseteq Subscribers
            /\ readState \in [Subscribers ->
                 {"idle", "opening", "reading", "live", "drain", "finishing",
                  "leaving", "ended", "told", "gone"}]
        BY DEF TypeOK
      <4> QED BY <4>1, <4>2
    <3> QED BY <2>5, <3>2, <3>3 DEF Subscribe, TypeOK, rows, calls
  <2>6. CASE YieldReplay(s)
    <3>1. Head(replay[s]) \in Nat /\ Tail(replay[s]) \in Seq(Nat)
      BY <2>1, <2>6, HeadTailProperties DEF YieldReplay
    <3>2. Append(received[s], Head(replay[s])) \in Seq(Nat)
      BY <2>1, <3>1, AppendProperties
    <3> QED BY <2>6, <3>1, <3>2 DEF YieldReplay, TypeOK, bus, rows, calls
  <2>7. CASE EndOfReplay(s)
    BY <2>7 DEF EndOfReplay, TypeOK, bus, rows, calls
  <2>8. CASE YieldLive(s)
    <3>1. /\ Head(queue[s]) \in Nat /\ Tail(queue[s]) \in Seq(Nat)
          /\ Len(Tail(queue[s])) = Len(queue[s]) - 1
      BY <2>1, <2>8, HeadTailProperties DEF YieldLive
    <3>2. Append(received[s], Head(queue[s])) \in Seq(Nat)
      BY <2>1, <3>1, AppendProperties
    <3>3. /\ queue' = [queue EXCEPT ![s] = Tail(@)]
          /\ queue \in [Subscribers -> Seq(Nat)]
          /\ \A t \in Subscribers : Len(queue[t]) <= QueueSize /\ Len(queue[t]) \in Nat
      BY <2>8, LenProperties DEF YieldLive, TypeOK
    <3>4. /\ queue' \in [Subscribers -> Seq(Nat)]
          /\ \A t \in Subscribers : Len(queue'[t]) <= QueueSize
      BY <3>1, <3>3
    <3>5. /\ received' \in [Subscribers -> Seq(Nat)]
          /\ readState' \in [Subscribers ->
                 {"idle", "opening", "reading", "live", "drain", "finishing",
                  "leaving", "ended", "told", "gone"}]
      <4>1. \/ /\ received' = [received EXCEPT ![s] = Append(received[s], Head(queue[s]))]
               /\ readState' = readState
            \/ /\ readState' = [readState EXCEPT ![s] = "finishing"]
               /\ received' = received
        BY <2>8 DEF YieldLive
      <4>2. /\ received \in [Subscribers -> Seq(Nat)]
            /\ readState \in [Subscribers ->
                 {"idle", "opening", "reading", "live", "drain", "finishing",
                  "leaving", "ended", "told", "gone"}]
        BY DEF TypeOK
      <4>3. CASE /\ received' = [received EXCEPT ![s] = Append(received[s], Head(queue[s]))]
                 /\ readState' = readState
        BY <3>2, <4>2, <4>3
      <4>4. CASE /\ readState' = [readState EXCEPT ![s] = "finishing"]
                 /\ received' = received
        BY <4>2, <4>4
      <4> QED BY <4>1, <4>3, <4>4
    <3> QED BY <2>8, <3>4, <3>5 DEF YieldLive, TypeOK, bus, rows, calls
  <2>9. CASE Discard(s)
    BY ZenonT(60), <2>9 DEF Discard, TypeOK, rows, calls
  <2>10. CASE Disconnect(s)
    BY <2>10 DEF Disconnect, TypeOK, bus, rows, calls
  <2>11. CASE Reconnect(s)
    <3>1. <<>> \in Seq(Nat) /\ Len(<<>>) = 0
      BY EmptySeq
    <3>2. /\ queue' \in [Subscribers -> Seq(Nat)]
          /\ \A t \in Subscribers : Len(queue'[t]) <= QueueSize
      BY <2>11, <3>1 DEF Reconnect, TypeOK
    <3>3. /\ waitsOn' \in [Calls -> Subscribers \cup {Nobody}]
          /\ todo' \in [Calls -> SUBSET Subscribers]
      BY <2>11 DEF Reconnect, TypeOK
    <3> QED BY <2>11, <3>1, <3>2, <3>3 DEF Reconnect, TypeOK, bus, rows
  <2> QED BY <1>9, <2>2, <2>3, <2>4, <2>5, <2>6, <2>7, <2>8, <2>9, <2>10, <2>11
          DEF ReadStep
<1>10. CASE UNCHANGED vars
  BY <1>10 DEF vars, TypeOK, bus, rows, calls, readers
<1> QED
  <2>1. ASSUME NEW c \in WorkerCalls, EmitFromWorker(c) PROVE TypeOK'
    BY <1>1, <1>e, <2>1 DEF EmitFromWorker
  <2>2. ASSUME NEW c \in RequestCalls, EmitFromRequest(c) PROVE TypeOK'
    <3>1. worker' \in WorkerCalls \cup {Nobody}
      BY <2>2 DEF EmitFromRequest, TypeOK
    <3> QED BY <1>1, <1>e, <2>2, <3>1 DEF EmitFromRequest
  <2> QED BY <1>2, <1>3, <1>4, <1>5, <1>6, <1>7, <1>8, <1>9, <1>10, <2>1, <2>2
          DEF Next, Base, EmitStep

\* The lock has one holder, the emit that persists the last number; close
\* waits for it, and after it nobody takes the lock to persist.
LEMMA NextLockIsHeld == TypeOK /\ LockIsHeld /\ [Next]_vars => LockIsHeld'
<1> SUFFICES ASSUME TypeOK, LockIsHeld, [Next]_vars PROVE LockIsHeld'
  OBVIOUS
<1> USE EventBusAssumption
<1>e. /\ Emits \subseteq Calls /\ Closer \in Calls /\ Closer \notin Emits
      /\ WorkerCalls \subseteq Emits /\ RequestCalls \subseteq Emits
      /\ Nobody \notin Calls
  BY DEF Emits, Calls
<1>t. /\ callState \in [Calls ->
            {"idle", "persisting", "persisted", "putting", "done", "raised"}]
      /\ event \in [Calls -> Nat] /\ sequence \in Nat
  BY DEF TypeOK
<1>k. \A c \in Calls : Holds(c) => lock = c /\ ~closed /\ c # Closer
  BY <1>e DEF LockIsHeld, Holds
<1>1. ASSUME NEW c \in Emits, Begin(c) PROVE LockIsHeld'
  <2>1. c \in Calls /\ c # Closer /\ lock = Nobody /\ closed' = closed
        /\ \A d \in Calls : ~Holds(d)
    BY <1>1, <1>e DEF Begin, LockIsHeld
  <2>2. CASE closed
    <3>1. /\ lock' = lock /\ event' = event /\ sequence' = sequence
          /\ callState' = [callState EXCEPT ![c] = "raised"]
      BY <1>1, <2>2 DEF Begin
    <3>2. \A d \in Calls : Holds(d)' <=> Holds(d)
      BY <1>t, <2>1, <3>1 DEF Holds
    <3> QED BY <1>e, <1>t, <2>1, <3>1, <3>2 DEF LockIsHeld
  <2>3. CASE ~closed
    <3>1. /\ lock' = c /\ sequence' = sequence + 1
          /\ event' = [event EXCEPT ![c] = sequence + 1]
          /\ callState' = [callState EXCEPT ![c] = "persisting"]
      BY <1>1, <2>3 DEF Begin
    <3>2. \A d \in Calls : Holds(d)' <=> d = c
      BY <1>t, <2>1, <3>1 DEF Holds
    <3> QED BY <1>e, <1>t, <2>1, <2>3, <3>1, <3>2 DEF LockIsHeld
  <2> QED BY <2>2, <2>3
<1>2. ASSUME NEW c \in Calls, Persist(c) PROVE LockIsHeld'
  <2>1. /\ Holds(c) /\ lock' = lock /\ closed' = closed /\ sequence' = sequence
        /\ event' = event /\ callState' = [callState EXCEPT ![c] = "persisted"]
    BY <1>2 DEF Persist, bus, Holds
  <2>2. \A d \in Calls : Holds(d)' <=> Holds(d)
    BY <1>t, <2>1 DEF Holds
  <2> QED BY <1>e, <1>k, <1>t, <2>1, <2>2 DEF LockIsHeld
<1>3. ASSUME NEW c \in Calls, PersistFails(c) \/ Publish(c) PROVE LockIsHeld'
  <2>1. /\ Holds(c) /\ lock' = Nobody /\ closed' = closed /\ sequence' = sequence
        /\ event' = event
    BY <1>3 DEF PersistFails, Publish, bus, Holds
  <2>2. /\ callState'[c] \in {"raised", "done", "putting"}
        /\ \A d \in Calls \ {c} : callState'[d] = callState[d]
    <3>1. CASE PersistFails(c)
      BY <1>t, <3>1 DEF PersistFails
    <3>2. CASE Publish(c)
      <4>1. PutUntilFull(c, event[c], subscribers)
        BY <3>2 DEF Publish
      <4>2. event[c] \in Nat /\ subscribers \in SUBSET Subscribers
        BY DEF TypeOK
      <4> QED BY <4>1, <4>2, PutProperties DEF Serves
    <3> QED BY <1>3, <3>1, <3>2
  <2>3. \A d \in Calls : ~Holds(d)'
    BY <1>k, <2>1, <2>2 DEF Holds
  <2> QED BY <1>e, <1>k, <2>1, <2>2, <2>3 DEF LockIsHeld
<1>4. ASSUME NEW c \in Calls, ResumePut(c) PROVE LockIsHeld'
  <2>1. /\ callState[c] = "putting" /\ lock' = lock /\ closed' = closed
        /\ sequence' = sequence /\ event' = event
    BY <1>4 DEF ResumePut, bus
  <2>2. /\ callState'[c] \in {"done", "putting"}
        /\ \A d \in Calls \ {c} : callState'[d] = callState[d]
    <3>1. event[c] \in Nat /\ todo[c] \in SUBSET Subscribers
      BY DEF TypeOK
    <3>2. PutUntilFull(c, event[c], todo[c])
      BY <1>4 DEF ResumePut
    <3> QED BY <3>1, <3>2, PutProperties DEF Serves
  <2>3. \A d \in Calls : Holds(d)' <=> Holds(d)
    BY <2>1, <2>2 DEF Holds
  <2> QED BY <1>e, <2>1, <2>2, <2>3 DEF LockIsHeld
<1>5. CASE Close
  <2>1. /\ callState[Closer] = "idle" /\ lock = Nobody /\ closed' = TRUE
        /\ lock' = lock /\ sequence' = sequence /\ event' = event
    BY <1>5 DEF Close
  <2>2. /\ callState'[Closer] \in {"done", "putting"}
        /\ \A d \in Calls \ {Closer} : callState'[d] = callState[d]
    <3>1. Sentinel \in Nat /\ subscribers \in SUBSET Subscribers
      BY DEF TypeOK, Sentinel
    <3>2. PutUntilFull(Closer, Sentinel, subscribers)
      BY <1>5 DEF Close
    <3> QED BY <1>e, <3>1, <3>2, PutProperties DEF Serves
  <2>3. \A d \in Calls : Holds(d)' <=> Holds(d)
    BY <2>1, <2>2 DEF Holds
  <2> QED BY <1>e, <2>1, <2>2, <2>3 DEF LockIsHeld
<1>6. CASE WorkerResumes \/ CommitStatus \/ ReaderStep \/ UNCHANGED vars
  <2>1. /\ lock' = lock /\ closed' = closed /\ sequence' = sequence
        /\ callState' = callState /\ event' = event
    BY <1>6, ReadersOnlyRead DEF WorkerResumes, CommitStatus, vars, bus, calls
  <2> QED BY <2>1 DEF LockIsHeld, Holds
<1> QED BY <1>1, <1>2, <1>3, <1>4, <1>5, <1>6, <1>e
        DEF Next, Base, EmitStep, EmitFromWorker, EmitFromRequest, ReaderStep

\* Numbers are given out in order, under the lock, and written in that order.
LEMMA NextRowsInOrder ==
    BusInv /\ [Next]_vars => RowsInOrder'
<1> SUFFICES ASSUME TypeOK, LockIsHeld, RowsInOrder, [Next]_vars PROVE RowsInOrder'
  BY DEF BusInv
<1> USE EventBusAssumption
<1>e. /\ Emits \subseteq Calls /\ WorkerCalls \subseteq Emits
      /\ RequestCalls \subseteq Emits /\ Closer \in Calls
  BY DEF Emits, Calls
<1>t. /\ callState \in [Calls ->
            {"idle", "persisting", "persisted", "putting", "done", "raised"}]
      /\ event \in [Calls -> Nat] /\ sequence \in Nat /\ persisted \in Seq(Nat)
      /\ Len(persisted) \in Nat /\ stored \in Nat \cup {Unset}
      /\ \A i \in 1..Len(persisted) : persisted[i] \in Nat
  BY LenProperties, ElementOfSeq DEF TypeOK
<1>1. ASSUME NEW c \in Emits, Begin(c) PROVE RowsInOrder'
  <2>0. c \in Calls /\ persisted' = persisted /\ stored' = stored /\ sawOver' = sawOver
    BY <1>1, <1>e DEF Begin, rows, readers
  <2>1. CASE closed
    <3>1. sequence' = sequence /\ callState' = [callState EXCEPT ![c] = "raised"]
      BY <1>1, <2>1 DEF Begin
    <3>2. \A d \in Calls : callState'[d] = "persisting" => callState[d] = "persisting"
      BY <1>t, <2>0, <3>1
    <3> QED BY <2>0, <3>1, <3>2 DEF RowsInOrder
  <2>2. CASE ~closed
    <3>1. /\ sequence' = sequence + 1
          /\ callState' = [callState EXCEPT ![c] = "persisting"]
      BY <1>1, <2>2 DEF Begin
    <3>2. /\ Len(persisted) < sequence'
          /\ \A i \in 1..Len(persisted) : persisted[i] \in 1..sequence'
                                          /\ persisted[i] < sequence'
      BY <1>t, <3>1 DEF RowsInOrder
    <3> QED BY <1>t, <2>0, <3>1, <3>2 DEF RowsInOrder
  <2> QED BY <2>1, <2>2
<1>2. ASSUME NEW c \in Calls, Persist(c) PROVE RowsInOrder'
  <2>1. /\ callState[c] = "persisting" /\ event[c] = sequence /\ sequence # 0
        /\ callState' = [callState EXCEPT ![c] = "persisted"]
        /\ persisted' = Append(persisted, event[c])
        /\ sequence' = sequence /\ stored' = stored /\ sawOver' = sawOver
    BY <1>2 DEF Persist, bus, readers, LockIsHeld, Holds
  <2> DEFINE n == Len(persisted)
  <2>2. /\ Len(persisted') = n + 1 /\ persisted'[n + 1] = sequence
        /\ \A i \in 1..n : persisted'[i] = persisted[i]
    BY <1>t, <2>1, AppendProperties
  <2>3. n < sequence /\ \A i \in 1..n : persisted[i] < sequence
    BY <2>1 DEF RowsInOrder
  <2>4. \A d \in Calls : callState'[d] # "persisting"
    <3>1. \A d \in Calls : callState[d] = "persisting" => d = c
      BY <2>1 DEF LockIsHeld, Holds
    <3> QED BY <1>t, <2>1, <3>1
  <2>5. n \in Nat /\ \A i \in 1..(n + 1) : i \in 1..n \/ i = n + 1
    BY <1>t
  <2> HIDE DEF n
  <2>6. \A i \in 1..(n + 1) : persisted'[i] \in 1..sequence
    BY <1>t, <2>1, <2>2, <2>5 DEF RowsInOrder, n
  <2>7. \A i, j \in 1..(n + 1) : i < j => persisted'[i] < persisted'[j]
    <3> SUFFICES ASSUME NEW i \in 1..(n + 1), NEW j \in 1..(n + 1), i < j
                 PROVE  persisted'[i] < persisted'[j]
      OBVIOUS
    <3>1. i \in 1..n
      BY <2>5
    <3>2. CASE j = n + 1
      BY <2>2, <2>3, <3>1, <3>2
    <3>3. CASE j \in 1..n
      BY <2>2, <3>1, <3>3 DEF RowsInOrder, n
    <3> QED BY <2>5, <3>2, <3>3
  <2>8. n + 1 <= sequence /\ (stored # Unset => stored <= n + 1)
    BY <1>t, <2>3, <2>5 DEF RowsInOrder, n
  <2> QED BY <2>1, <2>2, <2>4, <2>6, <2>7, <2>8 DEF RowsInOrder
<1>3. ASSUME NEW c \in Calls, PersistFails(c) \/ Publish(c) \/ ResumePut(c)
      PROVE  RowsInOrder'
  <2>1. /\ persisted' = persisted /\ stored' = stored /\ sawOver' = sawOver
        /\ sequence' = sequence
    BY <1>3 DEF PersistFails, Publish, ResumePut, bus, rows, readers
  <2>2. \A d \in Calls : callState'[d] = "persisting" => callState[d] = "persisting"
    <3>1. CASE PersistFails(c)
      BY <1>t, <3>1 DEF PersistFails
    <3>2. CASE Publish(c) \/ ResumePut(c)
      <4>1. \/ PutUntilFull(c, event[c], subscribers)
            \/ PutUntilFull(c, event[c], todo[c])
        BY <3>2 DEF Publish, ResumePut
      <4>2. /\ event[c] \in Nat /\ subscribers \in SUBSET Subscribers
            /\ todo[c] \in SUBSET Subscribers
        BY DEF TypeOK
      <4>3. /\ callState'[c] \in {"done", "putting"}
            /\ \A d \in Calls \ {c} : callState'[d] = callState[d]
        BY <4>1, <4>2, PutProperties DEF Serves
      <4> QED BY <4>3
    <3> QED BY <1>3, <3>1, <3>2
  <2> QED BY <2>1, <2>2 DEF RowsInOrder
<1>4. CASE CommitStatus
  <2>1. /\ persisted' = persisted /\ stored' = Len(persisted) /\ sawOver' = sawOver
        /\ sequence' = sequence /\ callState' = callState /\ stored' # Unset
    BY <1>4, <1>t DEF CommitStatus, bus, calls, readers, Unset
  <2> QED BY <1>t, <2>1 DEF RowsInOrder
<1>5. CASE Close
  <2>1. /\ persisted' = persisted /\ stored' = stored /\ sawOver' = sawOver
        /\ sequence' = sequence
    BY <1>5 DEF Close, rows, readers
  <2>2. PutUntilFull(Closer, Sentinel, subscribers)
    BY <1>5 DEF Close
  <2>3. Sentinel \in Nat /\ subscribers \in SUBSET Subscribers
    BY DEF TypeOK, Sentinel
  <2>4. \A d \in Calls : callState'[d] = "persisting" => callState[d] = "persisting"
    <3>1. /\ callState'[Closer] \in {"done", "putting"}
          /\ \A d \in Calls \ {Closer} : callState'[d] = callState[d]
      BY <1>e, <2>2, <2>3, PutProperties DEF Serves
    <3> QED BY <3>1
  <2> QED BY <2>1, <2>4 DEF RowsInOrder
<1>6. CASE ReaderStep
  <2>1. persisted' = persisted /\ stored' = stored /\ sequence' = sequence
        /\ callState' = callState
    BY <1>6, ReadersOnlyRead DEF rows
  <2>2. \A s \in Subscribers : sawOver'[s] => sawOver[s] \/ stored # Unset
    <3>1. sawOver \in [Subscribers -> BOOLEAN]
      BY DEF TypeOK
    <3>2. PICK t \in Subscribers : ReadStep(t) \/ Disconnect(t) \/ Reconnect(t)
      BY <1>6 DEF ReaderStep
    <3>3. \/ sawOver' = sawOver
          \/ sawOver' = [sawOver EXCEPT ![t] = stored # Unset]
      BY <3>2 DEF ReadStep, ReadStatus, ReadEventTable, TellClosed, Subscribe,
         YieldReplay, EndOfReplay, YieldLive, Discard, Disconnect, Reconnect
    <3> QED BY <3>1, <3>3
  <2> QED BY <2>1, <2>2 DEF RowsInOrder
<1>7. CASE WorkerResumes \/ UNCHANGED vars
  <2>1. persisted' = persisted /\ stored' = stored /\ sequence' = sequence
        /\ callState' = callState /\ sawOver' = sawOver
    BY <1>7 DEF WorkerResumes, vars, bus, rows, calls, readers
  <2> QED BY <2>1 DEF RowsInOrder
<1> QED BY <1>1, <1>2, <1>3, <1>4, <1>5, <1>6, <1>7, <1>e
        DEF Next, Base, EmitStep, EmitFromWorker, EmitFromRequest, ReaderStep

\* Every variable of the bus keeps its type, the lock one holder and the rows
\* their order.
THEOREM BusInvariant == Spec => []BusInv
<1>1. Init => BusInv
  <2> SUFFICES ASSUME Init PROVE BusInv
    OBVIOUS
  <2> USE EventBusAssumption
  <2>1. <<>> \in Seq(Nat) /\ Len(<<>>) = 0
    BY EmptySeq
  <2>2. TypeOK
    <3>1. 0 \in 0..MaxFaults /\ 0 <= QueueSize /\ Sentinel \in Nat
      BY DEF Sentinel
    <3>2. /\ queue \in [Subscribers -> Seq(Nat)]
          /\ \A s \in Subscribers : Len(queue[s]) <= QueueSize
          /\ replay \in [Subscribers -> Seq(Nat)] /\ received \in [Subscribers -> Seq(Nat)]
          /\ history \in Seq(Nat) /\ persisted \in Seq(Nat)
      BY <2>1, <3>1 DEF Init
    <3>3. /\ callState \in [Calls ->
                {"idle", "persisting", "persisted", "putting", "done", "raised"}]
          /\ todo \in [Calls -> SUBSET Subscribers]
          /\ waitsOn \in [Calls -> Subscribers \cup {Nobody}]
          /\ event \in [Calls -> Nat]
      BY <3>1 DEF Init
    <3>4. /\ readState \in [Subscribers ->
                 {"idle", "opening", "reading", "live", "drain", "finishing",
                  "leaving", "ended", "told", "gone"}]
          /\ sawOver \in [Subscribers -> BOOLEAN]
      BY DEF Init
    <3> QED BY <3>1, <3>2, <3>3, <3>4 DEF Init, TypeOK
  <2>3. LockIsHeld
    BY DEF Init, LockIsHeld, Holds, Calls, Emits
  <2>4. RowsInOrder
    BY <2>1 DEF Init, RowsInOrder
  <2> QED BY <2>2, <2>3, <2>4 DEF BusInv
<1>2. BusInv /\ [Next]_vars => BusInv'
  BY NextBusTypeOK, NextLockIsHeld, NextRowsInOrder DEF BusInv
<1> QED BY <1>1, <1>2, PTL DEF Spec

\* Type correctness: in particular no queue ever holds more than its size.
THEOREM BusTypeCorrect == Spec => []TypeOK
<1>1. BusInv => TypeOK
  BY DEF BusInv
<1> QED BY <1>1, BusInvariant, PTL

\* Once close has the lock the turn's record is final: the emit that held it
\* before is done, and those that come later raise.
THEOREM ClosingIsFinal == Spec => ClosedIsFinal
<1>1. BusInv /\ [Next]_vars => [closed => UNCHANGED <<closed, sequence, history, persisted>>]_vars
  <2> SUFFICES ASSUME BusInv, Next, closed
               PROVE  UNCHANGED <<closed, sequence, history, persisted>>
    OBVIOUS
  <2>1. \A c \in Calls : ~Holds(c)
    BY EventBusAssumption DEF BusInv, LockIsHeld, Calls, Emits
  <2>2. \A c \in Calls : ~Persist(c) /\ ~Publish(c)
    BY <2>1 DEF Persist, Publish, Holds
  <2>3. ASSUME NEW c \in Emits, Begin(c)
        PROVE  UNCHANGED <<closed, sequence, history, persisted>>
    BY <2>3 DEF Begin, rows
  <2>4. ASSUME NEW c \in Calls, PersistFails(c) \/ ResumePut(c)
        PROVE  UNCHANGED <<closed, sequence, history, persisted>>
    BY <2>4 DEF PersistFails, ResumePut, bus, rows
  <2>5. CASE WorkerResumes \/ CommitStatus \/ Close
    BY <2>5 DEF WorkerResumes, CommitStatus, Close, bus, rows
  <2>6. CASE ReaderStep
    BY <2>6, ReadersOnlyRead DEF BusInv, rows
  <2> QED BY <2>2, <2>3, <2>4, <2>5, <2>6
          DEF Next, Base, EmitStep, EmitFromWorker, EmitFromRequest, ReaderStep, Emits
<1> QED BY <1>1, BusInvariant, PTL DEF Spec, ClosedIsFinal

-----------------------------------------------------------------------------
\* What a step leaves alone.
LEMMA SameStream ==
    ASSUME NEW s \in Subscribers, StreamOf(s),
           received'[s] = received[s], replay'[s] = replay[s], queue'[s] = queue[s],
           readState'[s] = readState[s], sawOver'[s] = sawOver[s],
           s \in subscribers' <=> s \in subscribers,
           history' = history, persisted' = persisted, stored' = stored,
           closed' = closed, s \in todo'[Closer] => s \in todo[Closer]
    PROVE  StreamOf(s)'
<1>1. Carries(s) => Carries(s)'
  BY DEF Carries
<1>2. Following(s)' <=> Following(s)
  BY DEF Following
<1> QED BY <1>1, <1>2 DEF StreamOf

\* What the history says of the table depends on nothing but the two and on the
\* events that are about to be published.
LEMMA SameHistory ==
    ASSUME HistoryIsTable, history' = history, persisted' = persisted, event' = event,
           \A c \in Calls : callState'[c] = "persisted" <=> callState[c] = "persisted"
    PROVE  HistoryIsTable'
BY DEF HistoryIsTable

\* The lengths and the numbers that the steps reckon with.
LEMMA Lengths ==
    ASSUME TypeOK, NEW s \in Subscribers
    PROVE  /\ Len(received[s]) \in Nat /\ Len(replay[s]) \in Nat /\ Len(queue[s]) \in Nat
           /\ Len(history) \in Nat /\ Len(persisted) \in Nat
           /\ received[s] \in Seq(Nat) /\ replay[s] \in Seq(Nat) /\ queue[s] \in Seq(Nat)
           /\ history \in Seq(Nat) /\ persisted \in Seq(Nat)
           /\ sequence \in Nat /\ QueueSize \in Nat /\ HistorySize \in Nat
BY LenProperties, EventBusAssumption DEF TypeOK

\* An event that is published fits in the history and in every queue, and is
\* the next one for all who follow.
LEMMA PublishKeepsStreams ==
    ASSUME BusInv, Small, Streams, NEW c \in Calls, Publish(c)
    PROVE  Streams'
<1>0. /\ HistoryIsTable /\ \A s \in Subscribers : StreamOf(s)
      /\ \A d \in Emits : callState[d] # "putting"
  BY DEF Streams
<1>1. /\ callState[c] = "persisted" /\ lock = c /\ ~closed /\ event[c] = sequence
      /\ \A d \in Calls : callState[d] = "persisted" => d = c
      /\ sequence \in Nat /\ sequence # 0 /\ Emits \subseteq Calls
  BY EventBusAssumption DEF Publish, BusInv, LockIsHeld, Holds, TypeOK, Calls, Emits
<1> DEFINE h == Len(history)
<1>2. /\ h \in Nat /\ Len(persisted) = h + 1 /\ persisted[h + 1] = sequence
      /\ history \in Seq(Nat) /\ persisted \in Seq(Nat)
  BY <1>0, <1>1, LenProperties DEF HistoryIsTable, BusInv, TypeOK
<1>3. h + 1 <= sequence /\ sequence <= QueueSize /\ sequence <= HistorySize
      /\ QueueSize \in Nat /\ HistorySize \in Nat
  BY <1>2, EventBusAssumption DEF BusInv, RowsInOrder, Small
<1>4. /\ history' = Append(history, sequence) /\ Len(history') = h + 1
      /\ history'[h + 1] = sequence /\ \A i \in 1..h : history'[i] = history[i]
  <2>1. /\ Len(Append(history, sequence)) = h + 1
        /\ Append(history, sequence)[h + 1] = sequence
        /\ \A i \in 1..h : Append(history, sequence)[i] = history[i]
    BY <1>1, <1>2, AppendProperties
  <2>2. ~(h + 1 > HistorySize)
    BY <1>2, <1>3
  <2>3. history' = Append(history, sequence)
    BY <1>1, <2>1, <2>2 DEF Publish
  <2> QED BY <2>1, <2>3
<1>5. /\ persisted' = persisted /\ stored' = stored /\ closed' = closed
      /\ subscribers' = subscribers /\ received' = received /\ replay' = replay
      /\ readState' = readState /\ sawOver' = sawOver /\ event' = event
  BY DEF Publish, rows, readers
<1>6. \A s \in subscribers :
         /\ s \in Subscribers /\ Following(s) /\ Carries(s)
         /\ Len(received[s]) + Len(replay[s]) + Len(queue[s]) = h
  <2> SUFFICES ASSUME NEW s \in subscribers
               PROVE  /\ s \in Subscribers /\ Following(s) /\ Carries(s)
                      /\ Len(received[s]) + Len(replay[s]) + Len(queue[s]) = h
    OBVIOUS
  <2>1. s \in Subscribers
    BY DEF BusInv, TypeOK
  <2>2. readState[s] \in {"live", "leaving", "finishing"}
    BY <1>0, <2>1 DEF StreamOf
  <2>3. readState[s] # "finishing"
    BY <1>0, <1>1, <2>1 DEF StreamOf
  <2>4. Following(s) /\ Carries(s)
    BY <1>0, <2>1, <2>2, <2>3 DEF StreamOf, Following
  <2> QED BY <1>1, <2>1, <2>4 DEF Carries
<1>7. \A s \in subscribers : Len(queue[s]) < QueueSize
  <2> SUFFICES ASSUME NEW s \in subscribers PROVE Len(queue[s]) < QueueSize
    OBVIOUS
  <2>1. Len(received[s]) \in Nat /\ Len(replay[s]) \in Nat /\ Len(queue[s]) \in Nat
    BY <1>6, Lengths DEF BusInv
  <2>2. Len(received[s]) + Len(replay[s]) + Len(queue[s]) = h
    BY <1>6
  <2> HIDE DEF h
  <2>3. h \in Nat /\ h < QueueSize /\ QueueSize \in Nat
    BY <1>1, <1>2, <1>3
  <2>4. ASSUME NEW x \in Nat, NEW y \in Nat, NEW z \in Nat, x + y + z < QueueSize
        PROVE  z < QueueSize
    BY <2>3, <2>4
  <2> QED BY <2>1, <2>2, <2>3, <2>4
<1>8. /\ \A s \in subscribers : queue'[s] = Append(queue[s], sequence)
      /\ \A s \in Subscribers \ subscribers : queue'[s] = queue[s]
      /\ callState'[c] = "done" /\ \A d \in Calls \ {c} : callState'[d] = callState[d]
      /\ todo'[c] = {}
  <2>1. PutUntilFull(c, sequence, subscribers)
    BY <1>1 DEF Publish
  <2>2. TypeOK /\ subscribers \in SUBSET Subscribers
    BY DEF BusInv, TypeOK
  <2>3. PICK given \in SUBSET subscribers : Serves(c, sequence, subscribers, given)
    <3>1. sequence \in Nat
      BY <1>1
    <3> QED BY <2>1, <2>2, <3>1, PutProperties
  <2>4. \A s \in subscribers : ~(Len(queue[s]) >= QueueSize)
    <3> SUFFICES ASSUME NEW s \in subscribers PROVE ~(Len(queue[s]) >= QueueSize)
      OBVIOUS
    <3>1. Len(queue[s]) \in Nat
      BY <1>6, Lengths DEF BusInv
    <3> QED BY <1>3, <1>7, <3>1
  <2>5. given = subscribers /\ callState'[c] = "done"
    BY <2>3, <2>4 DEF Serves
  <2> QED BY <2>3, <2>5 DEF Serves
<1>9. HistoryIsTable'
  <2>1. \A i \in 1..(h + 1) : i \in 1..h \/ i = h + 1
    BY <1>2
  <2>2. \A i \in 1..(h + 1) : i <= h + 1 /\ history'[i] = persisted[i]
    BY <1>0, <1>2, <1>4, <2>1 DEF HistoryIsTable
  <2>3. \A d \in Calls : callState'[d] # "persisted"
    BY <1>1, <1>8
  <2> QED BY <1>2, <1>4, <1>5, <2>2, <2>3 DEF HistoryIsTable
<1>10. ASSUME NEW s \in Subscribers PROVE StreamOf(s)'
  <2>1. StreamOf(s)
    BY <1>0
  <2>2. CASE s \notin subscribers
    <3>1. ~Following(s)' /\ queue'[s] = queue[s]
      BY <1>5, <1>8, <2>2 DEF Following
    <3> QED BY <1>1, <1>5, <2>1, <2>2, <3>1 DEF StreamOf
  <2>3. CASE s \in subscribers
    <3> DEFINE r == Len(received[s])  p == Len(replay[s])  q == Len(queue[s])
    <3>1. /\ r \in Nat /\ p \in Nat /\ q \in Nat /\ queue[s] \in Seq(Nat)
      BY Lengths DEF BusInv
    <3>2. /\ Len(queue'[s]) = q + 1 /\ queue'[s][q + 1] = sequence
          /\ \A i \in 1..q : queue'[s][i] = queue[s][i]
      BY <1>1, <1>8, <2>3, <3>1, AppendProperties
    <3>3. r + p + q = h /\ r + p <= h /\ Carries(s) /\ Following(s)
      BY <1>6, <2>3 DEF Carries
    <3>4. /\ \A i \in 1..p : replay[s][i] = history[r + i]
          /\ \A i \in 1..q : queue[s][i] = history[r + p + i]
      <4> HIDE DEF h, r, p, q
      <4>1. \A i \in 1..q : r + p + i <= h
        BY <1>2, <3>1, <3>3
      <4> USE DEF h, r, p, q
      <4> QED BY <3>3, <4>1 DEF Carries
    <3> HIDE DEF h, r, p, q
    <3>5. \A i \in 1..p : replay[s][i] = history'[r + i]
      BY <1>2, <1>4, <3>1, <3>3, <3>4
    <3>6. \A i \in 1..(q + 1) : r + p + i <= h + 1 /\ queue'[s][i] = history'[r + p + i]
      <4> SUFFICES ASSUME NEW i \in 1..(q + 1)
                   PROVE  r + p + i <= h + 1 /\ queue'[s][i] = history'[r + p + i]
        OBVIOUS
      <4>1. CASE i \in 1..q
        BY SMTT(30), <1>2, <1>4, <3>1, <3>2, <3>3, <3>4, <4>1
      <4>2. CASE i = q + 1
        <5>1. r + p + i = h + 1
          BY <1>2, <3>1, <3>3, <4>2
        <5> QED BY <1>2, <1>4, <3>2, <4>2, <5>1
      <4> QED BY <3>1, <4>1, <4>2
    <3>7. r + p <= h + 1 /\ r + p + (q + 1) = h + 1
      BY <1>2, <3>1, <3>3
    <3>8. Carries(s)'
      BY <1>4, <1>5, <3>2, <3>5, <3>6, <3>7 DEF Carries, r, p, q
    <3>9. readState[s] \in {"live", "leaving"}
      BY <3>3 DEF Following
    <3> QED BY <1>5, <2>1, <3>8, <3>9 DEF StreamOf
  <2> QED BY <2>2, <2>3
<1>11. \A d \in Emits : callState'[d] # "putting"
  BY <1>0, <1>1, <1>8
<1> QED BY <1>9, <1>10, <1>11 DEF Streams

\* A reader's own step: what it has stays the beginning of the table, what it
\* will get the rest of the history.
LEMMA OwnStream ==
    ASSUME BusInv, BusInv', Streams, NEW s \in Subscribers,
           ReadStep(s) \/ Disconnect(s) \/ Reconnect(s)
    PROVE  StreamOf(s)'
<1> DEFINE r == Len(received[s])
           p == Len(replay[s])
           q == Len(queue[s])
           h == Len(history)
           n == Len(persisted)
<1>1. /\ r \in Nat /\ p \in Nat /\ q \in Nat /\ h \in Nat /\ n \in Nat
      /\ received[s] \in Seq(Nat) /\ replay[s] \in Seq(Nat) /\ queue[s] \in Seq(Nat)
      /\ history \in Seq(Nat) /\ persisted \in Seq(Nat)
  BY Lengths DEF BusInv
<1>2. StreamOf(s)
  BY DEF Streams
<1>3. /\ h <= n /\ \A i \in 1..h : history[i] = persisted[i]
  <2>1. \A i \in 1..h : i <= n /\ history[i] = persisted[i]
    BY DEF Streams, HistoryIsTable
  <2>2. h = 0 \/ h \in 1..h
    BY <1>1
  <2> QED BY <1>1, <2>1, <2>2
<1>4. /\ r <= n /\ \A i \in 1..r : received[s][i] = persisted[i]
  BY <1>2 DEF StreamOf
<1>5. /\ \A i \in 1..n : persisted[i] > 0
      /\ \A i, j \in 1..n : i < j => persisted[i] < persisted[j]
  <2>1. /\ \A i \in 1..n : persisted[i] \in 1..sequence
        /\ \A i, j \in 1..n : i < j => persisted[i] < persisted[j]
    BY DEF BusInv, RowsInOrder
  <2> QED BY <2>1
<1>6. /\ persisted' = persisted /\ history' = history /\ stored' = stored
      /\ closed' = closed
  <2>1. ReaderStep /\ TypeOK
    BY DEF ReaderStep, BusInv
  <2> QED BY <2>1, ReadersOnlyRead DEF rows
<1>7. /\ readState \in [Subscribers ->
              {"idle", "opening", "reading", "live", "drain", "finishing",
               "leaving", "ended", "told", "gone"}]
      /\ received \in [Subscribers -> Seq(Nat)] /\ replay \in [Subscribers -> Seq(Nat)]
      /\ queue \in [Subscribers -> Seq(Nat)] /\ sawOver \in [Subscribers -> BOOLEAN]
      /\ subscribers \subseteq Subscribers
  BY DEF BusInv, TypeOK
<1>8. readState[s] = "live" => Following(s) /\ Carries(s)
  BY <1>2 DEF StreamOf, Following
<1>10. CASE ReadStatus(s)
  <2>1. /\ readState[s] = "idle" /\ readState'[s] = "opening"
        /\ received' = received /\ replay' = replay /\ queue' = queue
        /\ subscribers' = subscribers
    BY <1>7, <1>10 DEF ReadStatus, bus
  <2>2. s \notin subscribers /\ (~closed => queue[s] = <<>>)
    BY <1>2, <2>1 DEF StreamOf
  <2> QED BY <1>4, <1>6, <2>1, <2>2 DEF StreamOf, Following
<1>11. CASE ReadEventTable(s)
  <2>1. /\ readState[s] = "opening" /\ readState'[s] = "reading"
        /\ received'[s] = received[s] \o Newer(s, persisted)
        /\ replay' = replay /\ queue' = queue /\ sawOver' = sawOver
        /\ subscribers' = subscribers
    BY <1>7, <1>11 DEF ReadEventTable, bus
  <2>2. s \notin subscribers /\ (~closed => queue[s] = <<>>)
    BY <1>2, <2>1 DEF StreamOf
  <2> DEFINE rest == Newer(s, persisted)
  <2>3. /\ rest \in Seq(Nat) /\ Len(rest) = n - r
        /\ \A i \in 1..(n - r) : rest[i] = persisted[r + i]
    BY <1>1, <1>4, <1>5, NewerIsTheRest DEF BusInv
  <2>4. /\ Len(received'[s]) = r + Len(rest)
        /\ \A i \in 1..(r + Len(rest)) :
              received'[s][i] = IF i <= r THEN received[s][i] ELSE rest[i - r]
    <3>1. /\ Len(received[s] \o rest) = Len(received[s]) + Len(rest)
          /\ \A i \in 1..(Len(received[s]) + Len(rest)) :
                (received[s] \o rest)[i] = IF i <= Len(received[s]) THEN received[s][i]
                                           ELSE rest[i - Len(received[s])]
      <4> HIDE DEF rest
      <4> QED BY <1>1, <2>3, ConcatProperties
    <3> QED BY <2>1, <3>1
  <2> HIDE DEF rest, r, n
  <2>5. Len(received'[s]) = n
    BY <1>1, <2>3, <2>4
  <2>6. \A i \in 1..n : received'[s][i] = persisted[i]
    <3> SUFFICES ASSUME NEW i \in 1..n PROVE received'[s][i] = persisted[i]
      OBVIOUS
    <3>1. CASE i <= r
      BY <1>1, <1>4, <2>3, <2>4, <3>1
    <3>2. CASE ~(i <= r)
      <4>1. i - r \in 1..(n - r) /\ r + (i - r) = i
        BY <1>1, <3>2
      <4> QED BY <1>1, <1>4, <2>3, <2>4, <3>2, <4>1
    <3> QED BY <3>1, <3>2
  <2>7. sawOver[s] => stored <= n
    BY DEF BusInv, RowsInOrder, n
  <2>8. (sawOver[s] => n >= stored) /\ n <= n
    <3>1. stored \in Nat \/ stored = -1
      BY DEF BusInv, TypeOK, Unset
    <3> QED BY <1>1, <2>7, <3>1
  <2> QED BY <1>6, <2>1, <2>2, <2>5, <2>6, <2>8 DEF StreamOf, Following, n
<1>12. CASE TellClosed(s)
  <2>1. /\ readState[s] = "reading" /\ readState'[s] = "told" /\ sawOver[s]
        /\ received' = received /\ replay' = replay /\ queue' = queue
        /\ subscribers' = subscribers /\ sawOver' = sawOver
    BY <1>7, <1>12 DEF TellClosed, bus
  <2>2. s \notin subscribers /\ Len(received[s]) >= stored
    BY <1>2, <2>1 DEF StreamOf
  <2> QED BY <1>4, <1>6, <2>1, <2>2 DEF StreamOf, Following
<1>13. CASE Subscribe(s)
  <2>1. /\ readState[s] \in {"idle", "reading"} /\ lock = Nobody
        /\ received' = received /\ queue' = queue /\ sawOver' = sawOver
        /\ replay'[s] = Newer(s, history)
        /\ \/ closed /\ readState'[s] = "drain" /\ subscribers' = subscribers
           \/ ~closed /\ readState'[s] = "live" /\ s \in subscribers'
    BY <1>7, <1>13 DEF Subscribe
  <2>2. s \notin subscribers /\ (~closed => queue[s] = <<>>)
    BY <1>2, <2>1 DEF StreamOf
  <2>3. n = h
    <3>1. \A c \in Calls : ~Holds(c)
      BY <2>1, EventBusAssumption DEF BusInv, LockIsHeld, Calls, Emits
    <3> QED BY <3>1 DEF Streams, HistoryIsTable, Holds
  <2>4. /\ Len(replay'[s]) = h - r
        /\ \A i \in 1..(h - r) : replay'[s][i] = history[r + i]
    <3>1. /\ \A i \in 1..h : history[i] > 0
          /\ \A i, j \in 1..h : i < j => history[i] < history[j]
          /\ r <= h /\ \A i \in 1..r : received[s][i] = history[i]
      <4>1. \A i \in 1..r : i \in 1..h
        BY <1>1, <1>4, <2>3
      <4> QED BY <1>3, <1>4, <1>5, <2>3, <4>1
    <3>2. TypeOK
      BY DEF BusInv
    <3>3. /\ Len(Newer(s, history)) = Len(history) - Len(received[s])
          /\ \A i \in 1..(Len(history) - Len(received[s])) :
                Newer(s, history)[i] = history[Len(received[s]) + i]
      BY <1>1, <3>1, <3>2, NewerIsTheRest
    <3> QED BY <2>1, <3>3
  <2>5. r + Len(replay'[s]) = h
    <3> HIDE DEF h, r
    <3> QED BY <1>1, <2>4
  <2>6. CASE closed /\ readState'[s] = "drain" /\ subscribers' = subscribers
    BY <1>4, <1>6, <2>1, <2>2, <2>4, <2>5, <2>6 DEF StreamOf, Following
  <2>7. CASE ~closed /\ readState'[s] = "live" /\ s \in subscribers'
    <3>1. queue'[s] = <<>> /\ Len(queue'[s]) = 0
      BY <2>1, <2>2, <2>7, EmptySeq
    <3>2. Carries(s)'
      <4>1. \A i \in 1..Len(queue'[s]) : FALSE
        BY <3>1
      <4>2. r + Len(replay'[s]) + Len(queue'[s]) = h /\ r + Len(replay'[s]) <= h
        <5> HIDE DEF h, r
        <5> QED BY <1>1, <2>4, <2>5, <3>1
      <4> QED BY <1>6, <2>1, <2>4, <4>1, <4>2 DEF Carries
    <3> QED BY <1>4, <1>6, <2>1, <2>7, <3>2 DEF StreamOf
  <2> QED BY <2>1, <2>6, <2>7
<1>14. CASE YieldReplay(s)
  <2>1. /\ readState[s] \in {"live", "drain"} /\ replay[s] # <<>>
        /\ received'[s] = Append(received[s], Head(replay[s]))
        /\ replay'[s] = Tail(replay[s]) /\ queue' = queue /\ sawOver' = sawOver
        /\ readState' = readState /\ subscribers' = subscribers
        /\ todo' = todo
    BY <1>7, <1>14 DEF YieldReplay, bus, calls
  <2>2. /\ p > 0 /\ Head(replay[s]) = replay[s][1] /\ replay[s][1] \in Nat
        /\ Len(replay'[s]) = p - 1
        /\ \A i \in 1..(p - 1) : replay'[s][i] = replay[s][i + 1]
    <3>1. /\ Head(replay[s]) \in Nat /\ Len(Tail(replay[s])) = p - 1
          /\ \A i \in 1..(p - 1) : Tail(replay[s])[i] = replay[s][i + 1]
      BY <1>1, <2>1, HeadTailProperties
    <3>2. p # 0 /\ Head(replay[s]) = replay[s][1]
      BY <1>1, <2>1, EmptySeq
    <3> QED BY <1>1, <2>1, <3>1, <3>2
  <2>3. r + p <= h /\ \A i \in 1..p : replay[s][i] = history[r + i]
    <3>1. CASE readState[s] = "live"
      BY <1>8, <3>1 DEF Carries
    <3>2. CASE readState[s] = "drain"
      <4>1. r + p = h /\ \A i \in 1..p : replay[s][i] = history[r + i]
        BY <1>2, <3>2 DEF StreamOf
      <4> HIDE DEF r, p, h
      <4> QED BY SMTT(30), <1>1, <4>1
    <3> QED BY <2>1, <3>1, <3>2
  <2>4. /\ Len(received'[s]) = r + 1 /\ received'[s][r + 1] = replay[s][1]
        /\ \A i \in 1..r : received'[s][i] = received[s][i]
    BY <1>1, <2>1, <2>2, AppendProperties
  <2> DEFINE r1 == Len(received'[s])  p1 == Len(replay'[s])
  <2>5. /\ r1 + p1 <= h /\ r1 <= n /\ r1 + p1 = r + p /\ p1 \in Nat
        /\ \A i \in 1..r1 : received'[s][i] = persisted[i]
        /\ \A i \in 1..p1 : replay'[s][i] = history[r1 + i]
    <3> HIDE DEF r, p, h, n
    <3>1. r1 + p1 <= h /\ r1 <= n /\ r1 + p1 = r + p /\ r + 1 <= h /\ p1 \in Nat
      BY <1>1, <1>3, <2>2, <2>3, <2>4
    <3>2. replay[s][1] = history[r + 1] /\ history[r + 1] = persisted[r + 1]
      BY <1>1, <1>3, <2>2, <2>3, <3>1
    <3>3. \A i \in 1..(r + 1) : i \in 1..r \/ i = r + 1
      BY <1>1
    <3>4. \A i \in 1..r1 : received'[s][i] = persisted[i]
      BY <1>4, <2>4, <3>2, <3>3 DEF r, n
    <3>5. \A i \in 1..(p - 1) : i + 1 \in 1..p /\ r + (i + 1) = (r + 1) + i
      BY <1>1
    <3>6. \A i \in 1..p1 : replay'[s][i] = history[r1 + i]
      BY <2>2, <2>3, <2>4, <3>5
    <3> QED BY <3>1, <3>4, <3>6
  <2>6. CASE readState[s] = "live"
    <3>1. /\ \A i \in 1..q : queue[s][i] = IF r + p + i <= h THEN history[r + p + i]
                                           ELSE Sentinel
          /\ \/ r + p + q = h
             \/ r + p + q = h + 1 /\ closed /\ s \notin todo[Closer]
      BY <1>8, <2>6 DEF Carries
    <3>2. Carries(s)'
      BY <1>6, <2>1, <2>5, <3>1 DEF Carries
    <3> QED BY <1>2, <1>6, <2>1, <2>5, <2>6, <3>2 DEF StreamOf
  <2>7. CASE readState[s] = "drain"
    <3>1. s \notin subscribers /\ closed /\ r + p = h
      BY <1>2, <2>7 DEF StreamOf
    <3>2. r1 + p1 = h
      BY <2>5, <3>1
    <3> QED BY <1>6, <2>1, <2>5, <2>7, <3>1, <3>2 DEF StreamOf, Following
  <2> QED BY <2>1, <2>6, <2>7
<1>15. CASE EndOfReplay(s)
  <2>1. /\ readState[s] = "drain" /\ replay[s] = <<>> /\ readState'[s] = "ended"
        /\ received' = received /\ subscribers' = subscribers
    BY <1>7, <1>15 DEF EndOfReplay, bus
  <2>2. s \notin subscribers /\ closed /\ r + p = h /\ p = 0
    BY <1>2, <2>1, EmptySeq DEF StreamOf
  <2>3. r = h
    <3> HIDE DEF r, p, h
    <3> QED BY <1>1, <2>2
  <2> QED BY <1>4, <1>6, <2>1, <2>2, <2>3 DEF StreamOf, Following
<1>17. CASE Disconnect(s)
  <2>1. /\ readState[s] \in {"live", "drain"} /\ readState'[s] = "leaving"
        /\ received' = received /\ replay' = replay /\ queue' = queue
        /\ subscribers' = subscribers /\ todo' = todo
    BY <1>7, <1>17 DEF Disconnect, bus, calls
  <2>2. readState[s] = "drain" => s \notin subscribers
    BY <1>2 DEF StreamOf
  <2>3. s \in subscribers => Carries(s)
    BY <1>8, <2>1, <2>2
  <2>4. s \in subscribers => Carries(s)'
    BY <1>6, <2>1, <2>3 DEF Carries
  <2> QED BY <1>4, <1>6, <2>1, <2>4 DEF StreamOf, Following
<1>18. CASE Discard(s)
  <2>1. /\ \/ readState[s] = "finishing" /\ readState'[s] = "ended"
           \/ readState[s] = "leaving" /\ readState'[s] = "gone"
        /\ received' = received /\ s \notin subscribers'
    BY <1>7, <1>18 DEF Discard
  <2>2. readState[s] = "finishing" => closed /\ Len(received[s]) = Len(history)
    BY <1>2 DEF StreamOf
  <2> QED BY <1>4, <1>6, <2>1, <2>2 DEF StreamOf, Following
<1>19. CASE Reconnect(s)
  <2>1. /\ readState[s] = "gone" /\ readState'[s] = "idle"
        /\ received' = received /\ queue'[s] = <<>> /\ subscribers' = subscribers
    BY <1>7, <1>19 DEF Reconnect, bus
  <2>2. s \notin subscribers
    BY <1>2, <2>1 DEF StreamOf
  <2> QED BY <1>4, <1>6, <2>1, <2>2 DEF StreamOf, Following
<1>16. CASE YieldLive(s)
  <2>1. /\ readState[s] = "live" /\ replay[s] = <<>> /\ queue[s] # <<>>
        /\ queue'[s] = Tail(queue[s]) /\ replay' = replay /\ sawOver' = sawOver
        /\ subscribers' = subscribers /\ todo' = todo
        /\ \/ /\ Head(queue[s]) # Sentinel /\ readState' = readState
              /\ received'[s] = Append(received[s], Head(queue[s]))
           \/ /\ Head(queue[s]) = Sentinel /\ readState'[s] = "finishing"
              /\ received' = received
    BY <1>7, <1>16 DEF YieldLive, bus, calls
  <2>2. /\ p = 0 /\ q # 0 /\ Head(queue[s]) = queue[s][1] /\ queue[s][1] \in Nat
        /\ Len(queue'[s]) = q - 1
        /\ \A i \in 1..(q - 1) : queue'[s][i] = queue[s][i + 1]
    <3>1. /\ Head(queue[s]) \in Nat /\ Len(Tail(queue[s])) = q - 1
          /\ \A i \in 1..(q - 1) : Tail(queue[s])[i] = queue[s][i + 1]
      BY <1>1, <2>1, HeadTailProperties
    <3>2. p = 0 /\ q # 0 /\ Head(queue[s]) = queue[s][1]
      BY <1>1, <2>1, EmptySeq
    <3> QED BY <1>1, <2>1, <3>1, <3>2
  <2>3. /\ r + p <= h
        /\ \A i \in 1..q : queue[s][i] = IF r + p + i <= h THEN history[r + p + i]
                                         ELSE Sentinel
        /\ \/ r + p + q = h
           \/ r + p + q = h + 1 /\ closed /\ s \notin todo[Closer]
    BY <1>8, <2>1 DEF Carries
  <2>4. s \in subscribers
    BY <1>2, <2>1 DEF StreamOf
  <2>5. queue[s][1] = IF r + 1 <= h THEN history[r + 1] ELSE Sentinel
    <3> HIDE DEF r, p, q, h
    <3>1. 1 \in 1..q /\ r + p + 1 = r + 1
      BY <1>1, <2>2
    <3> QED BY <2>3, <3>1
  <2>6. CASE /\ Head(queue[s]) # Sentinel /\ readState' = readState
             /\ received'[s] = Append(received[s], Head(queue[s]))
    <3>1. r + 1 <= h /\ queue[s][1] = history[r + 1]
      BY <2>2, <2>5, <2>6
    <3>2. /\ Len(received'[s]) = r + 1 /\ received'[s][r + 1] = queue[s][1]
          /\ \A i \in 1..r : received'[s][i] = received[s][i]
      <4> DEFINE next == Head(queue[s])
      <4>1. next \in Nat /\ next = queue[s][1] /\ received'[s] = Append(received[s], next)
        BY <2>2, <2>6
      <4> HIDE DEF next
      <4> QED BY <1>1, <4>1, AppendProperties
    <3>3. /\ r + 1 <= n /\ \A i \in 1..(r + 1) : received'[s][i] = persisted[i]
      <4> HIDE DEF h, n
      <4>1. r + 1 <= n /\ history[r + 1] = persisted[r + 1]
        <5> HIDE DEF r
        <5> QED BY <1>1, <1>3, <3>1
      <4>2. \A i \in 1..(r + 1) : i \in 1..r \/ i = r + 1
        BY <1>1
      <4> QED BY <1>4, <3>1, <3>2, <4>1, <4>2 DEF n
    <3>4. Carries(s)'
      <4> HIDE DEF r, p, q, h
      <4>1. /\ (r + 1) + p <= h
            /\ \/ (r + 1) + p + (q - 1) = h
               \/ (r + 1) + p + (q - 1) = h + 1 /\ closed /\ s \notin todo[Closer]
        BY <1>1, <2>2, <2>3, <3>1
      <4>2. \A i \in 1..(q - 1) :
               queue'[s][i] = IF (r + 1) + p + i <= h THEN history[(r + 1) + p + i]
                              ELSE Sentinel
        <5> SUFFICES ASSUME NEW i \in 1..(q - 1)
                     PROVE  queue'[s][i] = IF (r + 1) + p + i <= h
                                           THEN history[(r + 1) + p + i] ELSE Sentinel
          OBVIOUS
        <5>1. i + 1 \in 1..q /\ r + p + (i + 1) = (r + 1) + p + i
          BY <1>1, <2>2
        <5> QED BY <2>2, <2>3, <5>1
      <4>3. \A i \in 1..p : FALSE
        BY <2>2
      <4>4. Len(replay'[s]) = p /\ Len(queue'[s]) = q - 1 /\ Len(received'[s]) = r + 1
        BY <2>1, <2>2, <3>2 DEF p
      <4>5. Len(history') = h
        BY <1>6 DEF h
      <4> QED BY <1>6, <2>1, <4>1, <4>2, <4>3, <4>4, <4>5 DEF Carries
    <3> QED BY <1>6, <2>1, <2>4, <2>6, <3>2, <3>3, <3>4 DEF StreamOf
  <2>7. CASE /\ Head(queue[s]) = Sentinel /\ readState'[s] = "finishing"
             /\ received' = received
    <3>1. ~(r + 1 <= h)
      <4> SUFFICES ASSUME r + 1 <= h PROVE FALSE
        OBVIOUS
      <4>1. history[r + 1] = 0
        BY <2>2, <2>5, <2>7 DEF Sentinel
      <4>2. r + 1 \in 1..h /\ r + 1 \in 1..n
        <5> HIDE DEF r, h, n
        <5> QED BY <1>1, <1>3
      <4>3. persisted[r + 1] > 0 /\ history[r + 1] = persisted[r + 1]
        BY <1>3, <1>5, <4>2
      <4> QED BY <4>1, <4>3
    <3>2. r = h /\ closed
      <4> HIDE DEF r, p, q, h
      <4> QED BY <1>1, <2>2, <2>3, <3>1
    <3> QED BY <1>4, <1>6, <2>1, <2>4, <2>7, <3>2 DEF StreamOf, Following
  <2> QED BY <2>1, <2>6, <2>7
<1> QED BY <1>10, <1>11, <1>12, <1>13, <1>14, <1>15, <1>16, <1>17, <1>18, <1>19
        DEF ReadStep

\* A reader's step is nothing to the others.
LEMMA OtherStream ==
    ASSUME BusInv, Streams, NEW s \in Subscribers, NEW t \in Subscribers, t # s,
           ReadStep(s) \/ Disconnect(s) \/ Reconnect(s)
    PROVE  StreamOf(t)'
<1>1. TypeOK /\ StreamOf(t) /\ Closer \in Calls
  BY DEF BusInv, Streams, Calls
<1>2. history' = history /\ persisted' = persisted /\ stored' = stored /\ closed' = closed
  BY <1>1, ReadersOnlyRead DEF ReaderStep, rows
<1>3. /\ received'[t] = received[t] /\ replay'[t] = replay[t] /\ queue'[t] = queue[t]
      /\ readState'[t] = readState[t] /\ sawOver'[t] = sawOver[t]
  BY <1>1 DEF TypeOK, ReadStep, ReadStatus, ReadEventTable, TellClosed, Subscribe,
     YieldReplay, EndOfReplay, YieldLive, Discard, Disconnect, Reconnect, calls
<1>4. t \in subscribers' <=> t \in subscribers
  BY <1>1 DEF ReadStep, ReadStatus, ReadEventTable, TellClosed, Subscribe,
     YieldReplay, EndOfReplay, YieldLive, Discard, Disconnect, Reconnect, bus
<1>5. t \in todo'[Closer] => t \in todo[Closer]
  BY <1>1 DEF TypeOK, ReadStep, ReadStatus, ReadEventTable, TellClosed, Subscribe,
     YieldReplay, EndOfReplay, YieldLive, Discard, Disconnect, Reconnect, calls
<1> QED BY <1>1, <1>2, <1>3, <1>4, <1>5, SameStream

\* What an emit does before it publishes changes the table at its end only.
LEMMA EmitKeepsStreams ==
    ASSUME BusInv, Streams, NEW c \in Emits, Begin(c) \/ Persist(c) \/ PersistFails(c)
    PROVE  Streams'
<1>1. /\ received' = received /\ replay' = replay /\ queue' = queue
      /\ readState' = readState /\ sawOver' = sawOver /\ subscribers' = subscribers
      /\ history' = history /\ stored' = stored /\ closed' = closed /\ todo' = todo
  BY DEF Begin, Persist, PersistFails, bus, rows, readers
<1>2. /\ c \in Calls /\ callState \in [Calls ->
            {"idle", "persisting", "persisted", "putting", "done", "raised"}]
      /\ event \in [Calls -> Nat]
  BY DEF BusInv, TypeOK, Calls
<1>3. CASE Begin(c) \/ PersistFails(c)
  <2>1. /\ persisted' = persisted
        /\ \A d \in Calls : callState'[d] = "persisted" <=> callState[d] = "persisted"
        /\ \A d \in Calls : callState[d] = "persisted" => event'[d] = event[d]
        /\ \A d \in Calls : callState'[d] = "putting" => callState[d] = "putting"
    BY <1>2, <1>3 DEF Begin, PersistFails, rows
  <2>2. HistoryIsTable'
    BY <1>1, <2>1 DEF Streams, HistoryIsTable
  <2>3. \A s \in Subscribers : StreamOf(s)'
    BY <1>1, <2>1, SameStream DEF Streams
  <2> QED BY <2>1, <2>2, <2>3 DEF Streams, Emits, Calls
<1>4. CASE Persist(c)
  <2>1. /\ callState[c] = "persisting" /\ callState' = [callState EXCEPT ![c] = "persisted"]
        /\ persisted' = Append(persisted, event[c]) /\ event' = event
    BY <1>4 DEF Persist
  <2> DEFINE n == Len(persisted)
  <2>2. /\ n \in Nat /\ Len(persisted') = n + 1 /\ persisted'[n + 1] = event[c]
        /\ \A i \in 1..n : persisted'[i] = persisted[i]
    <3>1. persisted \in Seq(Nat) /\ event[c] \in Nat
      BY <1>2 DEF BusInv, TypeOK
    <3> QED BY <2>1, <3>1, LenProperties, AppendProperties
  <2>3. \A d \in Calls : callState[d] # "persisted"
    <3>1. Holds(c) /\ \A d \in Calls : Holds(d) <=> lock = d
      BY <1>2, <2>1 DEF BusInv, LockIsHeld, Holds
    <3>2. \A d \in Calls : Holds(d) => d = c
      BY <1>2, <3>1
    <3> QED BY <2>1, <3>2 DEF Holds
  <2>4. n = Len(history) /\ \A i \in 1..Len(history) : i <= n /\ history[i] = persisted[i]
    BY <2>3 DEF Streams, HistoryIsTable
  <2>5. \A d \in Calls : callState'[d] = "persisted" <=> d = c
    BY <1>2, <2>1, <2>3
  <2>6. HistoryIsTable'
    <3> HIDE DEF n
    <3>1. \A i \in 1..Len(history) : i <= n + 1 /\ history[i] = persisted'[i]
      BY <2>2, <2>4
    <3> QED BY <1>1, <1>2, <2>1, <2>2, <2>4, <2>5, <3>1 DEF HistoryIsTable
  <2>7. ASSUME NEW s \in Subscribers PROVE StreamOf(s)'
    <3>1. StreamOf(s) /\ Len(received[s]) \in Nat
      BY Lengths DEF Streams, BusInv
    <3>2. /\ Len(received[s]) <= n + 1
          /\ \A i \in 1..Len(received[s]) : received[s][i] = persisted'[i]
      BY <2>2, <3>1 DEF StreamOf
    <3>3. (Following(s)' <=> Following(s)) /\ (Carries(s) => Carries(s)')
      BY <1>1 DEF Following, Carries
    <3> QED BY <1>1, <2>2, <3>1, <3>2, <3>3 DEF StreamOf
  <2>8. \A d \in Emits : callState'[d] # "putting"
    BY <1>2, <2>1 DEF Streams, Emits, Calls
  <2> QED BY <2>6, <2>7, <2>8 DEF Streams
<1> QED BY <1>3, <1>4

\* Only close waits for a full queue: the sentinel goes behind the last event,
\* once for each queue.
LEMMA CloseKeepsStreams ==
    ASSUME BusInv, Streams, NEW c \in Calls, ResumePut(c) \/ (c = Closer /\ Close)
    PROVE  Streams'
<1>1. c = Closer /\ Closer \notin Emits /\ event[Closer] = Sentinel /\ Closer \in Calls
  BY EventBusAssumption DEF ResumePut, Streams, Calls, Emits, BusInv, LockIsHeld
<1>2. PICK targets \in SUBSET Subscribers :
         /\ PutUntilFull(Closer, Sentinel, targets)
         /\ \/ ResumePut(Closer) /\ closed /\ targets = todo[Closer]
            \/ Close /\ ~closed /\ targets = subscribers
  <2>1. todo[Closer] \in SUBSET Subscribers /\ subscribers \in SUBSET Subscribers
    BY <1>1 DEF BusInv, TypeOK
  <2>2. closed <=> callState[Closer] # "idle"
    BY DEF BusInv, LockIsHeld
  <2> QED BY <1>1, <2>1, <2>2 DEF ResumePut, Close
<1>3. PICK given \in SUBSET targets : Serves(Closer, Sentinel, targets, given)
  <2>1. TypeOK /\ Sentinel \in Nat
    BY DEF BusInv, Sentinel
  <2> QED BY <1>1, <1>2, <2>1, PutProperties
<1>4. /\ closed' /\ received' = received /\ replay' = replay /\ readState' = readState
      /\ sawOver' = sawOver /\ subscribers' = subscribers /\ history' = history
      /\ persisted' = persisted /\ stored' = stored /\ event' = event
  BY <1>2 DEF ResumePut, Close, bus, rows, readers
<1>5. /\ callState'[Closer] \in {"done", "putting"}
      /\ \A d \in Calls \ {Closer} : callState'[d] = callState[d]
      /\ callState[Closer] # "persisted"
      /\ todo'[Closer] \subseteq targets \ given
      /\ \A s \in given : queue'[s] = Append(queue[s], Sentinel)
      /\ \A s \in Subscribers \ given : queue'[s] = queue[s]
  BY <1>3 DEF Serves, BusInv, LockIsHeld
<1>6. HistoryIsTable'
  BY <1>4, <1>5, SameHistory DEF Streams
<1>7. \A d \in Emits : callState'[d] # "putting"
  BY <1>1, <1>5 DEF Streams, Emits, Calls
<1>8. ASSUME NEW s \in Subscribers PROVE StreamOf(s)'
  <2>1. StreamOf(s)
    BY DEF Streams
  <2>2. Following(s)' <=> Following(s)
    BY <1>4 DEF Following
  <2>3. ASSUME Following(s) PROVE Carries(s)'
    <3> DEFINE r == Len(received[s])
               p == Len(replay[s])
               q == Len(queue[s])
               h == Len(history)
    <3>1. /\ r \in Nat /\ p \in Nat /\ q \in Nat /\ h \in Nat /\ queue[s] \in Seq(Nat)
      BY Lengths DEF BusInv
    <3>2. /\ r + p <= h
          /\ \A i \in 1..p : replay[s][i] = history[r + i]
          /\ \A i \in 1..q : queue[s][i] = IF r + p + i <= h THEN history[r + p + i]
                                           ELSE Sentinel
          /\ \/ r + p + q = h
             \/ r + p + q = h + 1 /\ closed /\ s \notin todo[Closer]
      BY <2>1, <2>3 DEF StreamOf, Carries
    <3>3. CASE s \notin given
      <4>1. queue'[s] = queue[s]
        BY <1>5, <3>3
      <4>2. \/ r + p + q = h
            \/ r + p + q = h + 1 /\ s \notin todo'[Closer]
        <5>1. closed => targets = todo[Closer]
          BY <1>2
        <5> QED BY <1>5, <3>2, <5>1
      <4> QED BY <1>4, <3>2, <4>1, <4>2 DEF Carries
    <3>4. CASE s \in given
      <4>1. queue'[s] = Append(queue[s], Sentinel) /\ s \notin todo'[Closer]
        BY <1>5, <3>4
      <4>2. /\ Len(queue'[s]) = q + 1 /\ queue'[s][q + 1] = Sentinel
            /\ \A i \in 1..q : queue'[s][i] = queue[s][i]
        <5>1. Sentinel \in Nat
          BY DEF Sentinel
        <5> QED BY <3>1, <4>1, <5>1, AppendProperties
      <4>3. r + p + q = h
        BY <1>2, <3>2, <3>4
      <4> HIDE DEF r, p, q, h
      <4>4. r + p + (q + 1) = h + 1 /\ ~(r + p + (q + 1) <= h)
        BY <3>1, <4>3
      <4>5. \A i \in 1..(q + 1) :
               queue'[s][i] = IF r + p + i <= h THEN history[r + p + i] ELSE Sentinel
        <5>1. \A i \in 1..(q + 1) : i \in 1..q \/ i = q + 1
          BY <3>1
        <5> QED BY <3>2, <4>2, <4>4, <5>1
      <4>6. Len(received'[s]) = r /\ Len(replay'[s]) = p /\ Len(history') = h
        BY <1>4 DEF r, p, h
      <4> QED BY <1>4, <3>2, <4>1, <4>2, <4>4, <4>5, <4>6 DEF Carries
    <3> QED BY <3>3, <3>4
  <2> QED BY <1>4, <2>1, <2>2, <2>3 DEF StreamOf
<1> QED BY <1>6, <1>7, <1>8 DEF Streams

\* The final status is written once, before anybody has read it.
LEMMA CommitKeepsStreams ==
    ASSUME BusInv, Streams, CommitStatus \/ WorkerResumes \/ UNCHANGED vars
    PROVE  Streams'
<1>1. /\ received' = received /\ replay' = replay /\ queue' = queue
      /\ readState' = readState /\ sawOver' = sawOver /\ subscribers' = subscribers
      /\ history' = history /\ closed' = closed /\ todo' = todo
      /\ persisted' = persisted /\ callState' = callState /\ event' = event
  BY DEF CommitStatus, WorkerResumes, vars, bus, rows, calls, readers
<1>2. HistoryIsTable'
  BY <1>1, SameHistory DEF Streams
<1>3. ASSUME NEW s \in Subscribers PROVE StreamOf(s)'
  <2>1. StreamOf(s)
    BY DEF Streams
  <2>2. sawOver[s] => stored' = stored
    BY DEF BusInv, RowsInOrder, CommitStatus, WorkerResumes, vars, rows
  <2>3. (Following(s)' <=> Following(s)) /\ (Carries(s) => Carries(s)')
    BY <1>1 DEF Following, Carries
  <2> QED BY <1>1, <2>1, <2>2, <2>3 DEF StreamOf
<1> QED BY <1>1, <1>2, <1>3 DEF Streams

\* The numbers only grow: a turn that is small was small before.
LEMMA NextSmallInv == BusInv /\ BusInv' /\ SmallInv /\ [Next]_vars => SmallInv'
<1> SUFFICES ASSUME BusInv, BusInv', SmallInv, [Next]_vars, Small'
             PROVE  Streams'
  BY DEF SmallInv
<1>1. Small
  <2>1. sequence' = sequence \/ sequence' = sequence + 1
    <3>1. ReaderStep => sequence' = sequence
      BY ReadersOnlyRead DEF BusInv
    <3> QED BY <3>1 DEF Next, Base, EmitStep, EmitFromWorker, EmitFromRequest, ReaderStep,
            Begin, Persist, PersistFails, Publish, ResumePut, WorkerResumes,
            CommitStatus, Close, vars, bus
  <2>2. sequence \in Nat /\ QueueSize \in Nat /\ HistorySize \in Nat
    BY EventBusAssumption DEF BusInv, TypeOK
  <2> QED BY <2>1, <2>2 DEF Small
<1>2. Streams
  BY <1>1 DEF SmallInv
<1>3. ASSUME NEW c \in Emits, Begin(c) PROVE Streams'
  BY <1>2, <1>3, EmitKeepsStreams
<1>4. ASSUME NEW c \in Calls, Persist(c) \/ PersistFails(c) PROVE Streams'
  <2>1. c \in Emits
    BY <1>4 DEF BusInv, LockIsHeld, Calls, Persist, PersistFails
  <2> QED BY <1>2, <1>4, <2>1, EmitKeepsStreams
<1>5. ASSUME NEW c \in Calls, Publish(c) PROVE Streams'
  BY <1>1, <1>2, <1>5, PublishKeepsStreams
<1>6. ASSUME NEW c \in Calls, ResumePut(c) PROVE Streams'
  BY <1>2, <1>6, CloseKeepsStreams
<1>7. CASE Close
  <2>1. Closer \in Calls
    BY DEF Calls
  <2> QED BY <1>2, <1>7, <2>1, CloseKeepsStreams
<1>8. CASE WorkerResumes \/ CommitStatus \/ UNCHANGED vars
  BY <1>2, <1>8, CommitKeepsStreams
<1>9. ASSUME NEW s \in Subscribers, ReadStep(s) \/ Disconnect(s) \/ Reconnect(s)
      PROVE  Streams'
  <2>1. HistoryIsTable'
    <3>1. TypeOK /\ ReaderStep
      BY <1>9 DEF BusInv, ReaderStep
    <3> QED BY <1>2, <3>1, ReadersOnlyRead, SameHistory DEF Streams, rows
  <2>2. \A d \in Emits : callState'[d] # "putting"
    <3>1. TypeOK /\ ReaderStep
      BY <1>9 DEF BusInv, ReaderStep
    <3> QED BY <1>2, <3>1, ReadersOnlyRead DEF Streams
  <2>3. ASSUME NEW t \in Subscribers PROVE StreamOf(t)'
    <3>1. CASE t = s
      BY <1>2, <1>9, <3>1, OwnStream
    <3>2. CASE t # s
      BY <1>2, <1>9, <3>2, OtherStream
    <3> QED BY <3>1, <3>2
  <2> QED BY <2>1, <2>2, <2>3 DEF Streams
<1>e. WorkerCalls \subseteq Emits /\ RequestCalls \subseteq Emits
  BY DEF Emits
<1> QED BY <1>3, <1>4, <1>5, <1>6, <1>7, <1>8, <1>9, <1>e
        DEF Next, Base, EmitStep, EmitFromWorker, EmitFromRequest

\* What every reader's stream is like is kept.
THEOREM StreamsInvariant == Spec => []SmallInv
<1>1. Init => SmallInv
  <2> SUFFICES ASSUME Init PROVE Streams
    BY DEF SmallInv
  <2>1. Len(<<>>) = 0
    BY EmptySeq
  <2>2. HistoryIsTable
    BY <2>1 DEF Init, HistoryIsTable
  <2>3. \A s \in Subscribers : StreamOf(s)
    BY <2>1 DEF Init, StreamOf, Following
  <2> QED BY <2>2, <2>3 DEF Init, Streams, Emits, Calls
<1> QED BY <1>1, NextSmallInv, BusInvariant, PTL DEF Spec

\* A turn of any number of emits and readers whose events fit in a queue and in
\* the history: whatever the order of publishing, subscribing, reading, leaving
\* and coming back, what a reader has is a beginning of the table: no event is
\* missing, repeated or out of its place.
THEOREM ReadersMissNothing == Spec => [](Small => ReadersSeePrefix)
<1>1. BusInv /\ SmallInv => (Small => ReadersSeePrefix)
  <2> SUFFICES ASSUME BusInv, Small, Streams, NEW s \in Subscribers
               PROVE  IsPrefixOf(received[s], persisted)
    BY DEF SmallInv, ReadersSeePrefix
  <2>1. /\ StreamOf(s) /\ received[s] \in Seq(Nat) /\ persisted \in Seq(Nat)
    BY Lengths DEF Streams, BusInv
  <2> QED BY <2>1, LenProperties DEF StreamOf, IsPrefixOf
<1> QED BY <1>1, StreamsInvariant, BusInvariant, PTL

\* In such a turn a stream that has ended has sent the whole table, and one that
\* was told that the turn is over all that was in it at its final status.
THEOREM EndedReadersHaveAll == Spec => [](Small => EndedIsComplete)
<1>1. BusInv /\ SmallInv => (Small => EndedIsComplete)
  <2> SUFFICES ASSUME BusInv, Small, Streams, NEW s \in Subscribers
               PROVE  /\ readState[s] = "ended" => received[s] = persisted
                      /\ readState[s] = "told" => Len(received[s]) >= stored
    BY DEF SmallInv, EndedIsComplete
  <2>1. /\ StreamOf(s) /\ received[s] \in Seq(Nat) /\ persisted \in Seq(Nat)
    BY Lengths DEF Streams, BusInv
  <2>2. ASSUME readState[s] = "ended" PROVE received[s] = persisted
    <3>1. closed /\ Len(received[s]) = Len(history)
      BY <2>1, <2>2 DEF StreamOf
    <3>2. \A c \in Calls : callState[c] # "persisted"
      BY <3>1, EventBusAssumption DEF BusInv, LockIsHeld, Holds, Calls, Emits
    <3>3. Len(received[s]) = Len(persisted)
      BY <3>1, <3>2 DEF Streams, HistoryIsTable
    <3>4. \A i \in 1..Len(received[s]) : received[s][i] = persisted[i]
      BY <2>1 DEF StreamOf
    <3> QED BY <2>1, <3>3, <3>4, SeqEqual
  <2>3. readState[s] = "told" => Len(received[s]) >= stored
    BY <2>1 DEF StreamOf
  <2> QED BY <2>2, <2>3
<1> QED BY <1>1, StreamsInvariant, BusInvariant, PTL
=============================================================================
