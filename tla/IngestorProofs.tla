---------------------------- MODULE IngestorProofs ----------------------------
(***************************************************************************)
(* Proofs about Ingestor, for every chain, capacity, batch size and number *)
(* of faults.  The inductive invariant IInv is proved in three layers, each*)
(* of which may use the ones before it: the shape of the state, the room   *)
(* in the buffer, and what is known of the messages.                       *)
(***************************************************************************)
EXTENDS Ingestor, SequenceTheorems, TLAPS

-----------------------------------------------------------------------------
(* Sequences.                                                              *)

\* An empty sequence has no elements.
LEMMA EmptyFacts == ASSUME NEW S PROVE <<>> \in Seq(S) /\ Range(<<>>) = {}
  BY DEF Range

\* What Append adds to a sequence.
LEMMA AppendFacts ==
  ASSUME NEW S, NEW s \in Seq(S), NEW x \in S
  PROVE  /\ Append(s, x) \in Seq(S)
         /\ Range(Append(s, x)) = Range(s) \union {x}
         /\ Len(Append(s, x)) = Len(s) + 1
         /\ Append(s, x) # <<>>
<1>1. /\ Append(s, x) \in Seq(S)
      /\ Len(Append(s, x)) = Len(s) + 1
      /\ Append(s, x) # <<>>
  BY SMTT(30)
<1>2. Range(Append(s, x)) \subseteq Range(s) \union {x}
  BY DEF Range
<1>3. ASSUME NEW y \in Range(s) \union {x}
      PROVE  y \in Range(Append(s, x))
  <2>1. CASE y = x
    <3>1. Append(s, x)[Len(s) + 1] = x /\ Len(s) + 1 \in DOMAIN Append(s, x)
      OBVIOUS
    <3> QED BY <3>1, <2>1 DEF Range
  <2>2. CASE y \in Range(s)
    <3>1. PICK i \in DOMAIN s : y = s[i]
      BY <2>2 DEF Range
    <3>2. Append(s, x)[i] = y /\ i \in DOMAIN Append(s, x)
      BY <3>1
    <3> QED BY <3>2 DEF Range
  <2> QED BY <1>3, <2>1, <2>2
<1> QED BY <1>1, <1>2, <1>3

\* What taking the head off a sequence leaves.
LEMMA TailFacts ==
  ASSUME NEW S, NEW s \in Seq(S), s # <<>>
  PROVE  /\ Head(s) \in S
         /\ Tail(s) \in Seq(S)
         /\ Len(Tail(s)) = Len(s) - 1
         /\ Len(s) \in Nat \ {0}
         /\ Len(s) = 1 <=> Tail(s) = <<>>
         /\ Range(s) = Range(Tail(s)) \union {Head(s)}
<1>1. /\ Head(s) \in S
      /\ Tail(s) \in Seq(S)
      /\ Len(Tail(s)) = Len(s) - 1
      /\ Len(s) \in Nat \ {0}
  BY EmptySeq
<1>4. Len(s) = 1 <=> Tail(s) = <<>>
  <2>1. Tail(s) = <<>> <=> Len(Tail(s)) = 0
    BY <1>1, EmptySeq
  <2> QED BY <1>1, <2>1
<1>2. ASSUME NEW y \in Range(s)
      PROVE  y \in Range(Tail(s)) \union {Head(s)}
  <2>1. PICK i \in 1 .. Len(s) : y = s[i]
    BY <1>2 DEF Range
  <2>2. CASE i = 1
    BY <2>1, <2>2
  <2>3. CASE i > 1
    <3>1. Tail(s)[i - 1] = y /\ i - 1 \in DOMAIN Tail(s)
      BY <2>1, <2>3
    <3> QED BY <3>1 DEF Range
  <2> QED BY <2>2, <2>3
<1>3. ASSUME NEW y \in Range(Tail(s)) \union {Head(s)}
      PROVE  y \in Range(s)
  <2>1. CASE y = Head(s)
    <3>1. y = s[1] /\ 1 \in DOMAIN s
      BY <1>1, <2>1
    <3> QED BY <3>1 DEF Range
  <2>2. CASE y \in Range(Tail(s))
    <3>1. PICK i \in 1 .. Len(Tail(s)) : y = Tail(s)[i]
      BY <1>1, <2>2 DEF Range
    <3>2. y = s[i + 1] /\ i + 1 \in DOMAIN s
      BY <1>1, <3>1
    <3> QED BY <3>2 DEF Range
  <2> QED BY <1>3, <2>1, <2>2
<1> QED BY <1>1, <1>2, <1>3, <1>4

-----------------------------------------------------------------------------
(* The buffer and the server.                                              *)

\* The capacity of the buffer is a number.
LEMMA CapacityNat == Capacity \in Nat
  BY BufferAssumption DEF Capacity, MAX_CAPACITY

\* What push does when there is room: it keeps the message.
LEMMA PushFacts ==
  ASSUME NEW S, NEW buf \in Seq(S), NEW m \in S, ~IsFull(buf)
  PROVE  /\ Push(buf, m) \in Seq(S)
         /\ Range(Push(buf, m)) = Range(buf) \union {m}
         /\ Len(Push(buf, m)) = Len(buf) + 1
         /\ Len(Push(buf, m)) <= Capacity
         /\ Push(buf, m) # <<>>
<1>1. Len(buf) < Capacity
  BY CapacityNat DEF IsFull
<1> QED BY <1>1, AppendFacts, CapacityNat DEF Push

\* A message the server has received is on the stream, whatever the server
\* took it for.
LEMMA AcceptFacts ==
  ASSUME NEW m \in Msgs, stream \in Seq(Msgs),
         window \subseteq {compute_checksum(n) : n \in Msgs},
         WindowSafe, Accept(m)
  PROVE  /\ stream' \in Seq(Msgs)
         /\ window' \subseteq {compute_checksum(n) : n \in Msgs}
         /\ Stored' = Stored \union {m}
         /\ WindowSafe'
<1>1. CASE compute_checksum(m) \in window
  <2>1. m \in Stored
    BY <1>1 DEF WindowSafe
  <2>2. UNCHANGED <<stream, window>>
    BY <1>1 DEF Accept
  <2> QED BY <2>1, <2>2 DEF WindowSafe, Stored
<1>2. CASE compute_checksum(m) \notin window
  <2>1. stream' = Append(stream, m) /\ window' = window \union {compute_checksum(m)}
    BY <1>2 DEF Accept
  <2>2. stream' \in Seq(Msgs) /\ Stored' = Stored \union {m}
    BY <2>1, AppendFacts DEF Stored
  <2>3. ASSUME NEW n \in Msgs, compute_checksum(n) \in window'
        PROVE  n \in Stored'
    <3>1. CASE compute_checksum(n) \in window
      BY <3>1, <2>2 DEF WindowSafe
    <3>2. CASE compute_checksum(n) = compute_checksum(m)
      BY <3>2, <2>2 DEF compute_checksum
    <3> QED BY <2>1, <2>3, <3>1, <3>2
  <2>4. WindowSafe'
    BY <2>3 DEF WindowSafe, compute_checksum
  <2> QED BY <2>1, <2>2, <2>4
<1> QED BY <1>1, <1>2

-----------------------------------------------------------------------------
(* First layer: the shape of the state.                                    *)

Shape == TypeOK /\ FlushShape

\* A deployment that has not started yet is well-formed.
LEMMA InitShape == Init => Shape
<1> SUFFICES ASSUME Init PROVE Shape
  OBVIOUS
<1>1. changed \in BOOLEAN /\ shutdown \in BOOLEAN /\ paused \in BOOLEAN
  BY Zenon DEF Init
<1>2. <<>> \in Seq(Msgs)
  BY EmptyFacts
<1> QED BY IngestorAssumption, <1>1, <1>2
        DEF Init, Shape, TypeOK, FlushShape, Pcs, AtAwait, Flushing, NoFile

\* The cursor that has caught up is a block number.
LEMMA CaughtUpNat == TypeOK => CaughtUp \in Nat
  BY DEF TypeOK, CaughtUp, update

\* The end of the process, graceful or not, leaves a well-formed state.
LEMMA ExitShape ==
  ASSUME Shape, Exit, disk' \in Nat \union {NoFile}, faults' \in 0 .. MaxFaults
  PROVE  Shape'
<1>1. changed' \in BOOLEAN /\ shutdown' \in BOOLEAN /\ paused' \in BOOLEAN
  BY Zenon DEF Exit
<1>2. <<>> \in Seq(Msgs)
  BY EmptyFacts
<1>3. wire' \subseteq Msgs
  BY TailFacts DEF Exit, Shape, TypeOK
<1> QED BY IngestorAssumption, <1>1, <1>2, <1>3
        DEF Exit, DropReader, Shape, TypeOK, FlushShape, Pcs, Flushing

\* Every step leaves a well-formed state.
LEMMA NextShape ==
  ASSUME Shape, WindowSafe, [Next]_vars
  PROVE  Shape'
<1> USE IngestorAssumption
    DEF Shape, TypeOK, FlushShape, Pcs, AtAwait, Flushing, NoFault, Fault,
        Step, DropReader, vars, jsVars, envVars, readerVars, pubVars, curVars
<1>1. CASE StartResume
  BY <1>1 DEF StartResume, Started, ResumeAt, NoFile
<1>2. CASE StartFresh
  BY <1>2 DEF StartFresh, Started
<1>3. CASE GetLatest
  BY <1>3 DEF GetLatest
<1>4. CASE ReadBatch
  <2>1. end_block(nextBlock, latest) \in 0 .. latest
    BY DEF end_block
  <2> QED BY <1>4, <2>1 DEF ReadBatch
<1>5. CASE WaitWhileFull
  BY <1>5 DEF WaitWhileFull
<1>6. ASSUME NEW m \in Msgs, PublishDisconnected(m)
      PROVE  Shape'
  BY <1>6, PushFacts DEF PublishDisconnected
<1>7. ASSUME NEW m \in Msgs, PublishConnected(m)
      PROVE  Shape'
  BY <1>7 DEF PublishConnected
<1>8. ASSUME NEW m \in Msgs, PublishOk(m)
      PROVE  Shape'
  BY <1>8, AcceptFacts DEF PublishOk
<1>9. ASSUME NEW m \in Msgs, PublishErr(m)
      PROVE  Shape'
  BY <1>9, AppendFacts DEF PublishErr, Push
<1>10. CASE EndBatch
  BY <1>10 DEF EndBatch, update
<1>11. CASE Delay
  BY <1>11 DEF Delay
<1>12. CASE ChangeSignalled
  <2>1. changed' \in BOOLEAN
    BY <1>12, Zenon DEF ChangeSignalled
  <2> QED BY <1>12, <2>1 DEF ChangeSignalled
<1>13. CASE ChangeToConnected
  <2>1. paused' \in BOOLEAN
    BY <1>13, Zenon DEF ChangeToConnected
  <2>2. CASE is_buffer_empty
    <3>1. /\ pc' = "select" /\ pc = "change"
          /\ lastSynced' \in Nat
          /\ UNCHANGED <<jsVars, envVars, faults, shutdown, elapsed, readerVars,
                         buffer, flushing, nextBlock, disk>>
      BY <1>13, <2>2, CaughtUpNat DEF ChangeToConnected
    <3> QED BY <3>1, <2>1
  <2>3. CASE ~is_buffer_empty
    BY <1>13, <2>1, <2>3, EmptyFacts DEF ChangeToConnected, is_buffer_empty
  <2> QED BY <2>2, <2>3
<1>14. CASE ChangeToDisconnected
  BY <1>14 DEF ChangeToDisconnected, CaughtUp, update
<1>15. CASE Tick
  BY <1>15 DEF Tick
<1>16. CASE TryResume
  BY <1>16, EmptyFacts DEF TryResume, is_buffer_empty
<1>17. CASE FlushOk
  <2>1. Head(flushing) \in Msgs /\ Tail(flushing) \in Seq(Msgs)
        /\ (Len(flushing) = 1 <=> Tail(flushing) = <<>>)
    BY <1>17, TailFacts DEF FlushOk
  <2>2. stream' \in Seq(Msgs)
        /\ window' \subseteq {compute_checksum(n) : n \in Msgs}
    BY <1>17, <2>1, AcceptFacts DEF FlushOk
  <2>3. paused' \in BOOLEAN
    BY <1>17, Zenon DEF FlushOk, PausedAfterFlush
  <2>4. lastSynced' \in Nat
    BY <1>17, CaughtUpNat DEF FlushOk
  <2>5. /\ pc \in Flushing
        /\ flushing' = Tail(flushing)
        /\ pc' = IF Len(flushing) = 1 THEN "select" ELSE pc
        /\ UNCHANGED <<wire, envVars, faults, shutdown, elapsed, readerVars,
                       buffer, nextBlock, disk>>
    BY <1>17 DEF FlushOk
  <2> QED BY <2>1, <2>2, <2>3, <2>4, <2>5
<1>18. CASE FlushErr
  <2>1. Head(flushing) \in Msgs
    BY <1>18, TailFacts DEF FlushErr
  <2>2. ExtendFront(buffer, flushing) \in Seq(Msgs)
    BY ConcatProperties DEF ExtendFront
  <2>3. paused' \in BOOLEAN
    BY <1>18, Zenon DEF FlushErr, PausedAfterFlush
  <2>4. lastSynced' \in Nat
    BY <1>18, CaughtUpNat DEF FlushErr
  <2>5. /\ pc \in Flushing /\ pc' = "select"
        /\ faults' \in 0 .. MaxFaults
        /\ wire' = wire \union {Head(flushing)}
        /\ buffer' = ExtendFront(buffer, flushing) /\ flushing' = <<>>
        /\ UNCHANGED <<stream, window, envVars, shutdown, elapsed, readerVars,
                       nextBlock, disk>>
    BY <1>18 DEF FlushErr
  <2> QED BY <2>1, <2>2, <2>3, <2>4, <2>5, EmptyFacts
<1>19. CASE Signal
  BY <1>19 DEF Signal
<1>20. CASE Break
  BY <1>20 DEF Break
<1>21. CASE FinalPersist
  <2>1. Exit /\ disk' \in Nat \union {NoFile} /\ faults' \in 0 .. MaxFaults
    BY <1>21 DEF FinalPersist
  <2> QED BY <2>1, ExitShape
<1>22. CASE Crash
  <2>1. Exit /\ disk' \in Nat \union {NoFile} /\ faults' \in 0 .. MaxFaults
    BY <1>22 DEF Crash
  <2> QED BY <2>1, ExitShape
<1>23. CASE Connect
  BY <1>23 DEF Connect
<1>24. CASE Disconnect
  BY <1>24 DEF Disconnect
<1>25. CASE NewBlock
  BY <1>25 DEF NewBlock
<1>26. ASSUME NEW m \in Msgs, DeliverLate(m)
       PROVE  Shape'
  BY <1>26, AcceptFacts DEF DeliverLate
<1>27. ASSUME NEW m \in Msgs, Lose(m)
       PROVE  Shape'
  BY <1>27 DEF Lose
<1>28. ASSUME NEW id \in window, WindowPasses(id)
       PROVE  Shape'
  BY <1>28, SMTT(30) DEF WindowPasses, Forget
<1>29. CASE UNCHANGED vars
  BY <1>29
<1> QED
  BY <1>1, <1>2, <1>3, <1>4, <1>5, <1>6, <1>7, <1>8, <1>9, <1>10, <1>11,
     <1>12, <1>13, <1>14, <1>15, <1>16, <1>17, <1>18, <1>19, <1>20, <1>21,
     <1>22, <1>23, <1>24, <1>25, <1>26, <1>28, <1>29, <1>27
  DEF Next, Reader, Handlers, Environment

-----------------------------------------------------------------------------
(* Second layer: the room in the buffer.                                   *)

Room == RoomForUnacked /\ BufferBound

\* At the start the buffer is empty, and so within its bound.
LEMMA InitRoom == Init => Room
  BY CapacityNat DEF Init, Room, RoomForUnacked, BufferBound

\* Every step keeps the buffer within its bound.
LEMMA NextRoom ==
  ASSUME Shape, Room, [Next]_vars
  PROVE  Room'
<1> USE CapacityNat DEF Room, RoomForUnacked, BufferBound, IsFull
<1>a. /\ buffer \in Seq(Msgs) /\ flushing \in Seq(Msgs)
      /\ Len(buffer) \in Nat /\ Len(flushing) \in Nat
      /\ pc \notin Flushing => flushing = <<>> /\ Len(flushing) = 0
  BY DEF Shape, TypeOK, FlushShape
<1>1. ASSUME UNCHANGED <<buffer, flushing>>, pc' = "ack" => pc = "ack"
      PROVE  Room'
  BY <1>1
<1>2. CASE \/ StartResume \/ StartFresh \/ GetLatest \/ ReadBatch
           \/ WaitWhileFull \/ EndBatch \/ Delay \/ ChangeSignalled
           \/ ChangeToDisconnected \/ Tick \/ Signal \/ Break
  <2>1. UNCHANGED <<buffer, flushing>> /\ (pc' = "ack" => pc = "ack")
    BY <1>2 DEF StartResume, StartFresh, Started, GetLatest, ReadBatch,
       WaitWhileFull, EndBatch, Delay, ChangeSignalled, ChangeToDisconnected,
       Tick, Signal, Break, pubVars
  <2> QED BY <1>1, <2>1
<1>3. CASE Environment \/ UNCHANGED vars
  <2>1. UNCHANGED <<buffer, flushing, pc>>
    BY <1>3 DEF Environment, Connect, Disconnect, NewBlock, DeliverLate,
       Lose, WindowPasses, vars, pubVars
  <2> QED BY <1>1, <2>1
<1>4. ASSUME NEW m \in Msgs, PublishDisconnected(m)
      PROVE  Room'
  <2>1. pc = "publish" /\ pc' = pc /\ flushing' = flushing /\ ~IsFull(buffer)
        /\ buffer' = Push(buffer, m)
    BY <1>4 DEF PublishDisconnected
  <2> QED BY <1>a, <2>1, PushFacts DEF Flushing
<1>5. ASSUME NEW m \in Msgs, PublishConnected(m)
      PROVE  Room'
  BY <1>5 DEF PublishConnected, pubVars
<1>6. ASSUME NEW m \in Msgs, PublishOk(m)
      PROVE  Room'
  BY <1>1, <1>6 DEF PublishOk, pubVars
<1>7. ASSUME NEW m \in Msgs, PublishErr(m)
      PROVE  Room'
  <2>1. pc = "ack" /\ pc' = "publish" /\ flushing' = flushing /\ ~IsFull(buffer)
        /\ buffer' = Push(buffer, m)
    BY <1>7 DEF PublishErr
  <2> QED BY <1>a, <2>1, PushFacts DEF Flushing
<1>8. CASE ChangeToConnected \/ TryResume
  <2>1. /\ pc' # "ack" /\ pc \notin Flushing
        /\ \/ UNCHANGED <<buffer, flushing>>
           \/ buffer' = <<>> /\ flushing' = buffer
    BY <1>8 DEF ChangeToConnected, TryResume, Flushing
  <2> QED BY <1>a, <2>1
<1>9. CASE FlushOk
  <2>1. pc \in Flushing /\ pc' # "ack" /\ buffer' = buffer
        /\ flushing' = Tail(flushing)
    BY <1>9 DEF FlushOk, Flushing
  <2>2. flushing # <<>>
    BY <2>1 DEF Shape, FlushShape
  <2> QED BY <1>a, <2>1, <2>2, TailFacts
<1>10. CASE FlushErr
  <2>1. pc \in Flushing /\ pc' = "select"
        /\ buffer' = ExtendFront(buffer, flushing) /\ flushing' = <<>>
    BY <1>10 DEF FlushErr
  <2> QED BY <1>a, <2>1, ConcatProperties DEF ExtendFront
<1>11. CASE FinalPersist \/ Crash
  BY <1>11 DEF FinalPersist, Crash, Exit
<1> QED
  BY <1>2, <1>3, <1>4, <1>5, <1>6, <1>7, <1>8, <1>9, <1>10, <1>11
  DEF Next, Reader, Handlers

-----------------------------------------------------------------------------
(* Third layer: what is known of the messages.                             *)

Publishing == {"publish", "full", "ack"}

Tracked == BatchKept /\ NothingLost /\ CursorSafe

Messages == WindowSafe /\ KnownBlocks /\ Tracked

\* At the start no message is anywhere and none is due behind the cursor.
LEMMA InitMessages == Init => Messages
<1> SUFFICES ASSUME Init PROVE Messages
  OBVIOUS
<1>1. Held = {} /\ Stored = {} /\ batch = {} /\ wire = {} /\ window = {}
  BY EmptyFacts DEF Init, Held, Stored
<1>2. WindowSafe /\ KnownBlocks /\ BatchKept
  BY <1>1 DEF Init, WindowSafe, KnownBlocks, BatchKept
<1>3. \A m \in Msgs : BlockOf[m] \in Nat
  BY IngestorAssumption DEF Msgs
<1>4. NothingLost
  BY <1>3 DEF Init, NothingLost
<1>5. ASSUME NEW m \in Msgs, Due(m), BlockOf[m] <= disk \/ BlockOf[m] <= lastSynced
      PROVE  FALSE
  BY <1>3, <1>5, IngestorAssumption DEF Init, Due, FirstBlock, NoFile
<1> QED BY <1>2, <1>4, <1>5 DEF Messages, Tracked, CursorSafe

\* Most steps keep every message where it is or move it closer to the stream.
LEMMA KeepTracked ==
  ASSUME Shape, Tracked,
         Stored \subseteq Stored', Held \subseteq Held',
         nextBlock' = nextBlock, disk' \in {disk, lastSynced},
         \/ lastSynced' = lastSynced
         \/ lastSynced' = CaughtUp /\ Held \subseteq Stored',
         pc' \in Publishing => /\ pc \in Publishing /\ batchEnd' = batchEnd
                               /\ batch \subseteq batch' \union Held'
  PROVE  Tracked'
<1>1. \A m \in Msgs : BlockOf[m] \in Nat
  BY IngestorAssumption DEF Msgs
<1>2. BatchKept'
  BY DEF Tracked, BatchKept, Publishing
<1>3. NothingLost'
  BY DEF Tracked, NothingLost, Due
<1>4. ASSUME NEW m \in Msgs, Due(m), BlockOf[m] <= lastSynced'
      PROVE  m \in Stored'
  <2>1. CASE BlockOf[m] <= lastSynced
    BY <1>4, <2>1 DEF Tracked, CursorSafe
  <2>2. CASE ~(BlockOf[m] <= lastSynced)
    <3>1. lastSynced' = CaughtUp /\ Held \subseteq Stored'
      BY <1>4, <2>2
    <3>2. BlockOf[m] < nextBlock
      BY <1>1, <1>4, <2>2, <3>1 DEF CaughtUp, update, Shape, TypeOK
    <3> QED BY <1>4, <3>1, <3>2 DEF Tracked, NothingLost
  <2> QED BY <2>1, <2>2
<1>5. ASSUME NEW m \in Msgs, Due(m), BlockOf[m] <= disk'
      PROVE  m \in Stored'
  BY <1>5 DEF Tracked, CursorSafe
<1> QED BY <1>2, <1>3, <1>4, <1>5 DEF Tracked, CursorSafe, Due

\* A step that takes up no new message keeps the messages within the chain.
LEMMA KeepKnown ==
  ASSUME Shape, KnownBlocks, head' \in Nat, head <= head',
         batch' \union wire' \union Held' \subseteq batch \union wire \union Held,
         batch \union wire \union Held \subseteq Msgs
  PROVE  KnownBlocks'
<1>1. \A m \in Msgs : BlockOf[m] \in Nat
  BY IngestorAssumption DEF Msgs
<1> QED BY <1>1 DEF KnownBlocks, Shape, TypeOK

\* What is held are messages.
LEMMA HeldMsgs == Shape => Held \subseteq Msgs
  BY DEF Shape, TypeOK, Held, Stored, Range

\* A step that stores nothing and remembers no new id keeps the window safe.
LEMMA KeepWindow ==
  ASSUME WindowSafe, stream' = stream, window' \subseteq window
  PROVE  WindowSafe'
  BY DEF WindowSafe, Stored, compute_checksum

\* Steps that leave the publisher, the stream and the cursor alone.
LEMMA QuietSteps ==
  ASSUME Shape, Shape', Messages,
         \/ GetLatest \/ WaitWhileFull \/ Delay \/ ChangeSignalled \/ Tick
         \/ Signal \/ Break \/ Connect \/ Disconnect \/ NewBlock
         \/ UNCHANGED vars
         \/ \E id \in window : WindowPasses(id)
         \/ \E m \in Msgs : PublishConnected(m) \/ Lose(m)
  PROVE  Messages'
<1>1. /\ UNCHANGED <<stream, buffer, flushing, nextBlock, lastSynced>>
      /\ window' \subseteq window /\ wire' \subseteq wire \union batch
      /\ head <= head' /\ disk' \in {disk, lastSynced} /\ batch' \subseteq batch
      /\ pc' \in Publishing => /\ pc \in Publishing
                               /\ batchEnd' = batchEnd /\ batch' = batch
  <2> USE DEF jsVars, envVars, readerVars, pubVars, curVars, Publishing, AtAwait,
              DropReader
  <2>1. CASE GetLatest \/ WaitWhileFull \/ Delay \/ ChangeSignalled \/ Tick
    BY <2>1, SMTT(30) DEF GetLatest, WaitWhileFull, Delay, ChangeSignalled, Tick,
       Shape, TypeOK
  <2>2. CASE Signal \/ Break \/ Connect \/ Disconnect \/ NewBlock
    BY <2>2, SMTT(30) DEF Signal, Break, Connect, Disconnect, NewBlock, Shape, TypeOK
  <2>3. CASE UNCHANGED vars
    BY <2>3 DEF vars, Shape, TypeOK
  <2>4. CASE \E id \in window : WindowPasses(id)
    BY <2>4 DEF WindowPasses, Forget, Shape, TypeOK
  <2>5. CASE \E m \in Msgs : PublishConnected(m) \/ Lose(m)
    BY <2>5 DEF PublishConnected, Lose, IsNext, Shape, TypeOK
  <2> QED BY <2>1, <2>2, <2>3, <2>4, <2>5
<1>2. Stored' = Stored /\ Held' = Held
  BY <1>1 DEF Stored, Held
<1>3. Tracked'
  BY <1>1, <1>2, KeepTracked DEF Messages
<1>4. KnownBlocks'
  BY <1>1, <1>2, KeepKnown, HeldMsgs DEF Messages, Shape, TypeOK
<1>5. WindowSafe'
  BY <1>1, KeepWindow DEF Messages
<1> QED BY <1>3, <1>4, <1>5 DEF Messages

\* Steps that begin or end a life of the process.
LEMMA LifeSteps ==
  ASSUME Shape, Shape', Messages,
         StartResume \/ StartFresh \/ FinalPersist \/ Crash
  PROVE  Messages'
<1>1. \A m \in Msgs : BlockOf[m] \in Nat
  BY IngestorAssumption DEF Msgs
<1>2. CASE StartResume
  <2>1. /\ UNCHANGED <<jsVars, envVars, batch, buffer, flushing, disk>>
        /\ disk \in Nat /\ pc' = "select"
        /\ lastSynced' = disk /\ nextBlock' = disk + 1
    BY <1>2 DEF StartResume, Started, ResumeAt, readerVars, pubVars, Shape,
       TypeOK, NoFile
  <2>2. Stored' = Stored /\ Held' = Held
    BY <2>1 DEF Stored, Held, jsVars
  <2>3. NothingLost' /\ CursorSafe'
    BY <1>1, <2>1, <2>2
    DEF Messages, Tracked, NothingLost, CursorSafe, Due, Held
  <2>4. BatchKept'
    BY <2>1 DEF BatchKept
  <2>5. KnownBlocks' /\ WindowSafe'
    BY <2>1, <2>2, KeepWindow DEF Messages, KnownBlocks, jsVars, envVars
  <2> QED BY <2>3, <2>4, <2>5 DEF Messages, Tracked
<1>3. CASE StartFresh
  <2>1. /\ UNCHANGED <<jsVars, envVars, batch, buffer, flushing, disk>>
        /\ pc' = "select"
        /\ lastSynced' = InitialBlock /\ nextBlock' = InitialBlock
    BY <1>3 DEF StartFresh, Started, readerVars, pubVars
  <2>2. Stored' = Stored /\ Held' = Held
    BY <2>1 DEF Stored, Held, jsVars
  <2>3. ASSUME NEW m \in Msgs, Due(m)
        PROVE  BlockOf[m] > InitialBlock
    BY <1>1, <2>3, IngestorAssumption DEF Due, FirstBlock, NoFile
  <2>4. NothingLost' /\ CursorSafe'
    BY <1>1, <2>1, <2>2, <2>3, IngestorAssumption
    DEF Messages, Tracked, NothingLost, CursorSafe, Due
  <2>5. BatchKept'
    BY <2>1 DEF BatchKept
  <2>6. KnownBlocks' /\ WindowSafe'
    BY <2>1, <2>2, KeepWindow DEF Messages, KnownBlocks, jsVars, envVars
  <2> QED BY <2>4, <2>5, <2>6 DEF Messages, Tracked
<1>4. CASE FinalPersist \/ Crash
  <2>1. Exit /\ disk' \in {disk, lastSynced}
    BY <1>4 DEF FinalPersist, Crash
  <2>2. /\ UNCHANGED <<stream, window, head>> /\ batch' = {}
        /\ nextBlock' = 0 /\ lastSynced' = 0 /\ pc' = "down"
        /\ buffer' = <<>> /\ flushing' = <<>>
    BY <2>1 DEF Exit, DropReader
  <2>3. Stored' = Stored /\ Held' = Stored
    BY <2>2, EmptyFacts DEF Stored, Held
  <2>4. wire' \subseteq wire \union Held
    <3>1. CASE flushing = <<>>
      BY <2>1, <3>1 DEF Exit
    <3>2. CASE flushing # <<>>
      BY <2>1, <3>2, TailFacts DEF Exit, Held, Shape, TypeOK
    <3> QED BY <3>1, <3>2
  <2>5. NothingLost'
    BY <1>1, <2>2 DEF NothingLost
  <2>6. ASSUME NEW m \in Msgs, Due(m), BlockOf[m] <= 0
        PROVE  FALSE
    BY <1>1, <2>6, IngestorAssumption DEF Due, FirstBlock, NoFile
  <2>7. CursorSafe'
    BY <2>1, <2>2, <2>3, <2>6 DEF CursorSafe, Messages, Tracked, Due
  <2>8. BatchKept'
    BY <2>2 DEF BatchKept
  <2>9. KnownBlocks'
    BY <2>2, <2>3, <2>4 DEF KnownBlocks, Messages, Held
  <2>10. WindowSafe'
    BY <2>2, KeepWindow DEF Messages
  <2> QED BY <2>5, <2>7, <2>8, <2>9, <2>10 DEF Messages, Tracked
<1> QED BY <1>2, <1>3, <1>4

\* Reading a batch, publishing it, and the end of it.
LEMMA ReaderSteps ==
  ASSUME Shape, Shape', Room, Messages,
         \/ ReadBatch \/ EndBatch
         \/ \E m \in Msgs : \/ PublishDisconnected(m) \/ PublishOk(m)
                            \/ PublishErr(m)
  PROVE  Messages'
<1>1. \A m \in Msgs : BlockOf[m] \in Nat
  BY IngestorAssumption DEF Msgs
<1>2. CASE ReadBatch
  <2>1. /\ UNCHANGED <<stream, window, wire, head, buffer, flushing, nextBlock,
                       lastSynced, disk>>
        /\ batchEnd' \in 0 .. head
        /\ batch' = {m \in Msgs : BlockOf[m] \in nextBlock .. batchEnd'}
    BY <1>2 DEF ReadBatch, jsVars, envVars, pubVars, curVars, Shape, TypeOK
  <2>2. Stored' = Stored /\ Held' = Held
    BY <2>1 DEF Stored, Held
  <2>3. BatchKept'
    BY <2>1 DEF BatchKept
  <2>4. NothingLost' /\ CursorSafe'
    BY <2>1, <2>2 DEF Messages, Tracked, NothingLost, CursorSafe, Due
  <2>5. KnownBlocks'
    BY <1>1, <2>1, <2>2 DEF Messages, KnownBlocks, Shape, TypeOK
  <2>6. WindowSafe'
    BY <2>1, KeepWindow DEF Messages
  <2> QED BY <2>3, <2>4, <2>5, <2>6 DEF Messages, Tracked
<1>3. CASE EndBatch
  <2>1. /\ UNCHANGED <<stream, window, wire, head, buffer, flushing, disk>>
        /\ pc = "publish" /\ pc' \in {"delay", "select"}
        /\ batch = {} /\ batch' = {}
        /\ nextBlock' = batchEnd + 1
        /\ lastSynced' = IF buffer = <<>> THEN update(lastSynced, batchEnd)
                                          ELSE lastSynced
    BY <1>3 DEF EndBatch, jsVars, envVars, pubVars, DropReader, is_buffer_empty
  <2>2. Stored' = Stored /\ Held' = Held
    BY <2>1 DEF Stored, Held
  <2>3. ASSUME NEW m \in Msgs, Due(m), BlockOf[m] <= batchEnd
        PROVE  m \in Held
    <3>1. CASE BlockOf[m] < nextBlock
      BY <2>3, <3>1 DEF Messages, Tracked, NothingLost
    <3>2. CASE BlockOf[m] \in nextBlock .. batchEnd
      BY <2>1, <3>2 DEF Messages, Tracked, BatchKept
    <3> QED BY <1>1, <2>3, <3>1, <3>2, SMTT(30) DEF Shape, TypeOK
  <2>4. NothingLost'
    BY <1>1, <2>1, <2>2, <2>3 DEF NothingLost, Due, Shape, TypeOK
  <2>5. buffer = <<>> => Held = Stored
    BY <2>1, EmptyFacts DEF Held, Shape, FlushShape, Flushing
  <2>6. CursorSafe'
    BY <1>1, <2>1, <2>2, <2>3, <2>5
    DEF Messages, Tracked, CursorSafe, Due, update, Shape, TypeOK
  <2>7. BatchKept'
    BY <2>1 DEF BatchKept
  <2>8. KnownBlocks' /\ WindowSafe'
    BY <2>1, <2>2, KeepWindow DEF Messages, KnownBlocks
  <2> QED BY <2>4, <2>6, <2>7, <2>8 DEF Messages, Tracked
<1>4. ASSUME NEW m \in Msgs, PublishDisconnected(m) \/ PublishErr(m)
      PROVE  Messages'
  <2>1. /\ UNCHANGED <<stream, window, wire, head, flushing, nextBlock,
                       lastSynced, disk, batchEnd>>
        /\ pc \in Publishing /\ m \in batch /\ batch' = batch \ {m}
        /\ ~IsFull(buffer) /\ buffer' = Push(buffer, m)
    BY <1>4 DEF PublishDisconnected, PublishErr, IsNext, jsVars, envVars,
       curVars, Publishing, Room, RoomForUnacked
  <2>2. Range(buffer') = Range(buffer) \union {m}
    BY <2>1, PushFacts DEF Shape, TypeOK
  <2>3. Stored' = Stored /\ Held' = Held \union {m}
    BY <2>1, <2>2 DEF Stored, Held
  <2>4. Tracked'
    BY <2>1, <2>3, KeepTracked DEF Messages
  <2>5. KnownBlocks'
    BY <2>1, <2>3, KeepKnown, HeldMsgs DEF Messages, Shape, TypeOK
  <2>6. WindowSafe'
    BY <2>1, KeepWindow DEF Messages
  <2> QED BY <2>4, <2>5, <2>6 DEF Messages
<1>5. ASSUME NEW m \in Msgs, PublishOk(m)
      PROVE  Messages'
  <2>1. /\ UNCHANGED <<head, buffer, flushing, nextBlock, lastSynced, disk,
                       batchEnd>>
        /\ pc \in Publishing /\ m \in batch /\ batch' = batch \ {m}
        /\ wire' = wire \ {m} /\ Accept(m)
    BY <1>5 DEF PublishOk, IsNext, envVars, pubVars, curVars, Publishing
  <2>2. Stored' = Stored \union {m} /\ WindowSafe'
    BY <2>1, AcceptFacts DEF Messages, Shape, TypeOK
  <2>3. Held' = Held \union {m}
    BY <2>1, <2>2 DEF Held
  <2>4. Tracked'
    BY <2>1, <2>2, <2>3, KeepTracked DEF Messages
  <2>5. KnownBlocks'
    BY <2>1, <2>3, KeepKnown, HeldMsgs DEF Messages, Shape, TypeOK
  <2> QED BY <2>2, <2>4, <2>5 DEF Messages
<1> QED BY <1>2, <1>3, <1>4, <1>5

\* The handlers, and what arrives without the publisher waiting for it.
LEMMA HandlerSteps ==
  ASSUME Shape, Shape', Messages,
         Handlers \/ \E m \in Msgs : DeliverLate(m)
  PROVE  Messages'
<1>1. CASE ChangeToConnected \/ ChangeToDisconnected \/ TryResume
  <2>1. /\ UNCHANGED <<stream, window, wire, head, batch, batchEnd, nextBlock, disk>>
        /\ pc \notin Flushing /\ pc' \notin Publishing
        /\ \/ UNCHANGED <<buffer, flushing>>
           \/ buffer' = <<>> /\ flushing' = buffer
        /\ \/ lastSynced' = lastSynced
           \/ lastSynced' = CaughtUp /\ buffer = <<>>
    BY <1>1 DEF ChangeToConnected, ChangeToDisconnected, TryResume, jsVars,
       envVars, readerVars, curVars, Flushing, Publishing, is_buffer_empty
  <2>2. flushing = <<>>
    BY <2>1 DEF Shape, FlushShape
  <2>3. Stored' = Stored /\ Held' = Held
    BY <2>1, <2>2, EmptyFacts DEF Stored, Held
  <2>4. buffer = <<>> => Held \subseteq Stored'
    BY <2>2, <2>3, EmptyFacts DEF Held
  <2>5. Tracked'
    BY <2>1, <2>3, <2>4, KeepTracked DEF Messages
  <2>6. KnownBlocks' /\ WindowSafe'
    BY <2>1, <2>3, KeepWindow DEF Messages, KnownBlocks
  <2> QED BY <2>5, <2>6 DEF Messages
<1>2. CASE FlushOk
  <2>1. /\ UNCHANGED <<wire, head, batch, batchEnd, buffer, nextBlock, disk>>
        /\ pc \in Flushing /\ pc' \notin Publishing
        /\ flushing' = Tail(flushing) /\ Accept(Head(flushing))
        /\ \/ lastSynced' = lastSynced
           \/ lastSynced' = CaughtUp /\ Len(flushing) = 1
    BY <1>2 DEF FlushOk, envVars, readerVars, Flushing, Publishing
  <2>2. flushing # <<>> /\ buffer = <<>> /\ flushing \in Seq(Msgs)
    BY <2>1 DEF Shape, FlushShape, TypeOK
  <2>3. /\ Head(flushing) \in Msgs
        /\ Range(flushing) = Range(flushing') \union {Head(flushing)}
        /\ Len(flushing) = 1 => flushing' = <<>>
    BY <2>1, <2>2, TailFacts
  <2>4. Stored' = Stored \union {Head(flushing)} /\ WindowSafe'
    BY <2>1, <2>3, AcceptFacts DEF Messages, Shape, TypeOK
  <2>5. Held' = Held
    BY <2>1, <2>3, <2>4 DEF Held
  <2>6. Len(flushing) = 1 => Held \subseteq Stored'
    BY <2>2, <2>3, <2>4, EmptyFacts DEF Held
  <2>7. Tracked'
    BY <2>1, <2>4, <2>5, <2>6, KeepTracked DEF Messages
  <2>8. KnownBlocks'
    BY <2>1, <2>5 DEF Messages, KnownBlocks
  <2> QED BY <2>4, <2>7, <2>8 DEF Messages
<1>3. CASE FlushErr
  <2>1. /\ UNCHANGED <<stream, window, head, batch, batchEnd, nextBlock, disk>>
        /\ wire' = wire \union {Head(flushing)}
        /\ pc \in Flushing /\ pc' \notin Publishing
        /\ buffer' = ExtendFront(buffer, flushing) /\ flushing' = <<>>
        /\ lastSynced' = lastSynced \/ buffer' = <<>>
    BY <1>3 DEF FlushErr, envVars, readerVars, Publishing
  <2>2. flushing # <<>> /\ buffer = <<>> /\ flushing \in Seq(Msgs)
    BY <2>1 DEF Shape, FlushShape, TypeOK
  <2>3. buffer' = flushing
    BY <2>1, <2>2, ConcatEmptySeq DEF ExtendFront
  <2>4. Stored' = Stored /\ Held' = Held
    BY <2>1, <2>2, <2>3, EmptyFacts DEF Stored, Held
  <2>5. Head(flushing) \in Held
    BY <2>2, TailFacts DEF Held
  <2>6. Tracked'
    BY <2>1, <2>2, <2>3, <2>4, KeepTracked DEF Messages
  <2>7. KnownBlocks' /\ WindowSafe'
    BY <2>1, <2>4, <2>5, KeepWindow DEF Messages, KnownBlocks
  <2> QED BY <2>6, <2>7 DEF Messages
<1>4. ASSUME NEW m \in Msgs, DeliverLate(m)
      PROVE  Messages'
  <2>1. /\ UNCHANGED <<head, pc, batch, batchEnd, buffer, flushing, nextBlock,
                       lastSynced, disk>>
        /\ m \in wire /\ wire' = wire \ {m} /\ Accept(m)
    BY <1>4 DEF DeliverLate, Unawaited, envVars, readerVars, pubVars, curVars
  <2>2. Stored' = Stored \union {m} /\ WindowSafe'
    BY <2>1, AcceptFacts DEF Messages, Shape, TypeOK
  <2>3. Held' = Held \union {m}
    BY <2>1, <2>2 DEF Held
  <2>4. Tracked'
    BY <2>1, <2>2, <2>3, KeepTracked DEF Messages
  <2>5. KnownBlocks'
    BY <2>1, <2>3, KeepKnown, HeldMsgs DEF Messages, Shape, TypeOK
  <2> QED BY <2>2, <2>4, <2>5 DEF Messages
<1> QED BY <1>1, <1>2, <1>3, <1>4 DEF Handlers

\* Every step keeps every message accounted for.
LEMMA NextMessages ==
  ASSUME Shape, Shape', Room, Messages, [Next]_vars
  PROVE  Messages'
  BY QuietSteps, LifeSteps, ReaderSteps, HandlerSteps
  DEF Next, Reader, Handlers, Environment

-----------------------------------------------------------------------------
(* The pause signal.                                                       *)

\* Every step leaves a paused reader something that will wake it.
LEMMA NextPause ==
  ASSUME Shape, Shape', Room, NoStuckPause, [Next]_vars
  PROVE  NoStuckPause'
<1> USE DEF jsVars, envVars, readerVars, pubVars, curVars
<1>1. CASE \/ GetLatest \/ ReadBatch \/ WaitWhileFull \/ EndBatch \/ Delay
           \/ StartResume \/ StartFresh \/ Tick \/ Signal \/ Break
           \/ (\E m \in Msgs : PublishConnected(m) \/ PublishOk(m))
           \/ (\E m \in Msgs : DeliverLate(m) \/ Lose(m)) \/ NewBlock \/ UNCHANGED vars
           \/ (\E id \in window : WindowPasses(id))
  <2>1. UNCHANGED <<paused, buffer, flushing, conn, changed>>
        /\ (pc = "change" => pc' = "change")
    BY <1>1 DEF GetLatest, ReadBatch, WaitWhileFull, EndBatch, Delay,
       StartResume, StartFresh, Started, Tick, Signal, Break, PublishConnected,
       PublishOk, DeliverLate, Lose, NewBlock, WindowPasses, vars, AtAwait
  <2> QED BY <2>1 DEF NoStuckPause
<1>2. ASSUME NEW m \in Msgs, PublishDisconnected(m) \/ PublishErr(m)
      PROVE  NoStuckPause'
  <2>1. buffer' = Push(buffer, m) /\ ~IsFull(buffer)
    BY <1>2 DEF PublishDisconnected, PublishErr, Room, RoomForUnacked
  <2>2. buffer' # <<>>
    BY <2>1, PushFacts DEF Shape, TypeOK
  <2> QED BY <2>2 DEF NoStuckPause
<1>3. CASE ChangeSignalled \/ Connect \/ Disconnect
  <2>1. pc' = "change" \/ changed' = TRUE
    BY <1>3 DEF ChangeSignalled, Connect, Disconnect
  <2> QED BY <2>1 DEF NoStuckPause
<1>4. CASE ChangeToConnected
  BY <1>4 DEF ChangeToConnected, NoStuckPause, is_buffer_empty
<1>5. CASE ChangeToDisconnected
  BY <1>5 DEF ChangeToDisconnected, NoStuckPause
<1>6. CASE TryResume
  BY <1>6 DEF TryResume, NoStuckPause, is_buffer_empty
<1>7. CASE FlushOk
  <2>1. CASE Len(flushing) = 1
    BY <1>7, <2>1 DEF FlushOk, PausedAfterFlush, NoStuckPause
  <2>2. CASE Len(flushing) # 1
    <3>1. flushing # <<>> /\ flushing' = Tail(flushing)
      BY <1>7 DEF FlushOk, Shape, FlushShape
    <3>2. flushing' # <<>>
      BY <2>2, <3>1, TailFacts DEF Shape, TypeOK
    <3> QED BY <3>2 DEF NoStuckPause
  <2> QED BY <2>1, <2>2
<1>8. CASE FlushErr
  <2>1. flushing # <<>> /\ buffer = <<>> /\ buffer' = flushing \o <<>>
    BY <1>8 DEF FlushErr, ExtendFront, Shape, FlushShape
  <2>2. buffer' # <<>>
    BY <2>1, ConcatEmptySeq DEF Shape, TypeOK
  <2> QED BY <2>2 DEF NoStuckPause
<1>9. CASE FinalPersist \/ Crash
  BY <1>9 DEF FinalPersist, Crash, Exit, NoStuckPause
<1> QED
  BY <1>1, <1>2, <1>3, <1>4, <1>5, <1>6, <1>7, <1>8, <1>9
  DEF Next, Reader, Handlers, Environment

-----------------------------------------------------------------------------
(* The theorems.                                                           *)

\* Every step preserves the inductive invariant.
LEMMA NextInv ==
  ASSUME IInv, [Next]_vars
  PROVE  IInv'
<1>1. Shape /\ Room /\ Messages /\ WindowSafe /\ NoStuckPause
  BY DEF IInv, Shape, Room, Messages, Tracked
<1>2. Shape'
  BY <1>1, NextShape
<1>3. Room' /\ Messages' /\ NoStuckPause'
  BY <1>1, <1>2, NextRoom, NextMessages, NextPause
<1> QED BY <1>2, <1>3 DEF IInv, Shape, Room, Messages, Tracked

\* IInv holds at the start and every step preserves it, so it always holds.
THEOREM Invariant == Spec => []IInv
<1>1. Init => IInv
  BY InitShape, InitRoom, InitMessages
  DEF IInv, Shape, Room, Messages, Tracked, NoStuckPause, Init
<1>2. IInv /\ [Next]_vars => IInv'
  BY NextInv
<1> QED BY <1>1, <1>2, PTL DEF Spec

\* Every variable keeps its type; in particular no batch reads beyond the
\* latest block the reader was told of (BlockReader::read_batch).
THEOREM TypeCorrect == Spec => []TypeOK
<1>1. IInv => TypeOK
  BY DEF IInv
<1> QED BY <1>1, Invariant, PTL

\* No transaction the ingestor has passed is lost, whatever was dropped,
\* failed or restarted (application.rs, publisher.rs).
THEOREM NoLoss == Spec => []NothingLost
<1>1. IInv => NothingLost
  BY DEF IInv
<1> QED BY <1>1, Invariant, PTL

\* The cursor, in memory and in the state file, never covers a transaction
\* that is not on the stream (application.rs, state.rs).
THEOREM CursorIsSafe == Spec => []CursorSafe
<1>1. IInv => CursorSafe
  BY DEF IInv
<1> QED BY <1>1, Invariant, PTL

\* The buffer and what a flush holds stay within the capacity together,
\* although extend_front does not check it (buffer.rs).
THEOREM BufferIsBounded == Spec => []BufferBound
<1>1. IInv => BufferBound
  BY DEF IInv
<1> QED BY <1>1, Invariant, PTL

\* A paused reader always has something that will resume it (publisher.rs).
THEOREM PauseHasAReason == Spec => []NoStuckPause
<1>1. IInv => NoStuckPause
  BY DEF IInv
<1> QED BY <1>1, Invariant, PTL

-----------------------------------------------------------------------------
(* The order of the queued messages.                                       *)

\* Nothing is out of order in an empty queue.
LEMMA EmptyInOrder == ASSUME NEW done PROVE InOrder(<<>>, done)
  BY DEF InOrder

\* A message goes behind those before it: all of them are in the buffer or on
\* the stream when it is pushed.
LEMMA PushInOrder ==
  ASSUME Shape, OrderInv, NEW m \in Msgs, BlockOf[m] >= nextBlock,
         flushing = <<>>, ~IsFull(buffer)
  PROVE  InOrder(Push(buffer, m), Stored)
<1> DEFINE q == Push(buffer, m)
<1>1. buffer \in Seq(Msgs)
  BY DEF Shape, TypeOK
<1>2. /\ q = Append(buffer, m)
      /\ DOMAIN q = 1 .. Len(buffer) + 1
      /\ \A i \in 1 .. Len(buffer) : q[i] = buffer[i]
      /\ q[Len(buffer) + 1] = m
      /\ Len(buffer) \in Nat /\ DOMAIN buffer = 1 .. Len(buffer)
  BY <1>1 DEF Push
<1> SUFFICES ASSUME NEW i \in DOMAIN q, NEW k \in DOMAIN q, q[k] < q[i],
                    q[k] \notin Stored, q[i] \notin Stored
             PROVE  \E j \in DOMAIN q : j < i /\ q[j] = q[k]
  BY DEF InOrder
<1> HIDE DEF q
<1>3. CASE i = Len(buffer) + 1
  <2>1. k # i
    <3> SUFFICES ASSUME k = i PROVE FALSE
      OBVIOUS
    <3>1. q[i] \in Nat
      BY <1>2, <1>3, IngestorAssumption DEF Msgs
    <3> QED BY <3>1
  <2>2. k < i
    BY <1>2, <1>3, <2>1
  <2> QED BY <2>2
<1>4. CASE i \in 1 .. Len(buffer) /\ k \in 1 .. Len(buffer)
  <2>1. PICK j \in DOMAIN buffer : j < i /\ buffer[j] = buffer[k]
    BY <1>2, <1>4 DEF OrderInv, BufferInOrder, InOrder
  <2> QED BY <1>2, <1>4, <2>1
<1>5. CASE i \in 1 .. Len(buffer) /\ k = Len(buffer) + 1
  <2>1. buffer[i] \in Range(buffer) /\ m < buffer[i] /\ m \notin Stored
    BY <1>2, <1>5 DEF Range
  <2>2. m \in Range(buffer)
    BY <2>1, EmptyFacts DEF OrderInv, NothingBehind, Held
  <2>3. PICK l \in 1 .. Len(buffer) : buffer[l] = m
    BY <1>2, <2>2 DEF Range
  <2>4. PICK j \in DOMAIN buffer : j < i /\ buffer[j] = buffer[l]
    BY <1>2, <1>5, <2>1, <2>3 DEF OrderInv, BufferInOrder, InOrder
  <2> QED BY <1>2, <1>5, <2>3, <2>4
<1> QED BY <1>2, <1>3, <1>4, <1>5

\* What is left of a flush when its first message is on the stream.
LEMMA TailInOrder ==
  ASSUME NEW q \in Seq(Msgs), q # <<>>, NEW done, InOrder(q, done)
  PROVE  InOrder(Tail(q), done \union {Head(q)})
<1> DEFINE t == Tail(q)
<1>1. /\ Len(q) \in Nat \ {0} /\ DOMAIN q = 1 .. Len(q)
      /\ DOMAIN t = 1 .. Len(q) - 1
      /\ \A i \in DOMAIN t : t[i] = q[i + 1]
      /\ Head(q) = q[1]
  BY EmptySeq
<1> SUFFICES ASSUME NEW i \in DOMAIN t, NEW k \in DOMAIN t, t[k] < t[i],
                    t[k] \notin done \union {Head(q)},
                    t[i] \notin done \union {Head(q)}
             PROVE  \E j \in DOMAIN t : j < i /\ t[j] = t[k]
  BY DEF InOrder
<1> HIDE DEF t
<1>2. PICK j \in DOMAIN q : j < i + 1 /\ q[j] = q[k + 1]
  BY <1>1 DEF InOrder
<1>3. j # 1
  BY <1>1, <1>2
<1>4. j - 1 \in DOMAIN t /\ j - 1 < i /\ t[j - 1] = t[k]
  BY <1>1, <1>2, <1>3
<1> QED BY <1>4

\* A step that queues nothing new and takes care of no less.
LEMMA KeepOrder ==
  ASSUME Shape, Shape', OrderInv, Held \subseteq Held', BufferInOrder',
         Range(buffer') \union Range(flushing')
           \subseteq Range(buffer) \union Range(flushing),
         nextBlock' >= nextBlock,
         pc' = "down" => buffer' = <<>>,
         pc' = "read" => nextBlock' <= latest',
         pc' \in Publishing => /\ pc \in Publishing
                               /\ UNCHANGED <<nextBlock, batchEnd>>
                               /\ batch' \subseteq batch
  PROVE  OrderInv'
<1>1. BatchRange'
  BY DEF OrderInv, BatchRange, Publishing
<1>2. NothingBehind'
  <2> SUFFICES ASSUME NEW x \in Range(buffer') \union Range(flushing'),
                      NEW m \in Msgs, m < x, BlockOf[m] >= nextBlock'
               PROVE  m \in Held'
    BY DEF NothingBehind
  <2>1. BlockOf[m] >= nextBlock
    BY IngestorAssumption, SMTT(30) DEF Msgs, Shape, TypeOK
  <2> QED BY <2>1 DEF OrderInv, NothingBehind
<1> QED BY <1>1, <1>2 DEF OrderInv, StartsEmpty

\* The queues as they are stay in order when the stream only grows.
LEMMA SameQueues ==
  ASSUME OrderInv, Stored \subseteq Stored', UNCHANGED <<buffer, flushing>>
  PROVE  BufferInOrder' /\ Held \subseteq Held'
<1>1. InOrder(buffer, Stored') /\ InOrder(flushing, Stored')
  BY DEF OrderInv, BufferInOrder, InOrder
<1> QED BY <1>1 DEF BufferInOrder, Held

\* Steps that leave the queues alone.
LEMMA QueueLeftAlone ==
  ASSUME Shape, Shape', Messages, OrderInv, Stored \subseteq Stored',
         UNCHANGED <<buffer, flushing>>, pc' # "down" \/ pc = "down",
         \/ UNCHANGED <<pc, readerVars, nextBlock>>
         \/ pc' \notin Publishing \union {"read", "down"} /\ nextBlock' = nextBlock
         \/ GetLatest \/ WaitWhileFull \/ EndBatch
         \/ \E m \in Msgs : PublishConnected(m) \/ PublishOk(m)
  PROVE  OrderInv'
<1> USE DEF readerVars, pubVars, curVars
<1>1. nextBlock' >= nextBlock
  BY DEF EndBatch, GetLatest, WaitWhileFull, PublishConnected, PublishOk,
     OrderInv, BatchRange, Shape, TypeOK
<1>2. pc' = "read" => nextBlock' <= latest'
  <2>1. CASE GetLatest
    BY <2>1 DEF GetLatest, Shape, TypeOK
  <2>2. CASE UNCHANGED <<pc, readerVars, nextBlock>>
    BY <2>2 DEF OrderInv, BatchRange
  <2>3. CASE WaitWhileFull \/ EndBatch \/ \E m \in Msgs : PublishConnected(m) \/ PublishOk(m)
    BY <2>3 DEF WaitWhileFull, EndBatch, PublishConnected, PublishOk
  <2> QED BY <2>1, <2>2, <2>3
<1>3. pc' \in Publishing => /\ pc \in Publishing
                            /\ UNCHANGED <<nextBlock, batchEnd>>
                            /\ batch' \subseteq batch
  BY DEF EndBatch, GetLatest, WaitWhileFull, PublishConnected, PublishOk,
     Publishing
<1>4. pc' = "down" => buffer' = <<>>
  BY DEF OrderInv, StartsEmpty
<1> QED BY <1>1, <1>2, <1>3, <1>4, SameQueues, KeepOrder

\* Every step keeps the queued messages in order.
LEMMA NextOrder ==
  ASSUME Shape, Shape', Room, Messages, OrderInv, [Next]_vars
  PROVE  OrderInv'
<1> USE DEF jsVars, envVars, readerVars, pubVars, curVars
<1>0. /\ buffer \in Seq(Msgs) /\ flushing \in Seq(Msgs)
      /\ nextBlock \in Nat /\ nextBlock' \in Nat
      /\ pc \notin Flushing => flushing = <<>>
      /\ flushing # <<>> => buffer = <<>>
      /\ InOrder(buffer, Stored) /\ InOrder(flushing, Stored)
      /\ batchEnd \in Nat
  BY DEF Shape, TypeOK, FlushShape, OrderInv, BufferInOrder
<1>1. CASE \/ Delay \/ ChangeSignalled \/ ChangeToDisconnected \/ Tick
           \/ Signal \/ Break \/ Connect \/ Disconnect \/ NewBlock
           \/ (\E id \in window : WindowPasses(id)) \/ UNCHANGED vars
           \/ (\E m \in Msgs : Lose(m))
  <2>1. /\ UNCHANGED <<stream, buffer, flushing>>
        /\ pc' # "down" \/ pc = "down"
        /\ \/ UNCHANGED <<pc, readerVars, nextBlock>>
           \/ pc' \notin Publishing \union {"read", "down"} /\ nextBlock' = nextBlock
    BY <1>1 DEF Delay, ChangeSignalled, ChangeToDisconnected, Tick, Signal,
       Break, Connect, Disconnect, NewBlock, WindowPasses, Forget, Lose, vars,
       Publishing
  <2> QED BY <2>1, QueueLeftAlone DEF Stored
<1>2. CASE \/ GetLatest \/ WaitWhileFull \/ EndBatch
           \/ \E m \in Msgs : PublishConnected(m)
  <2>1. UNCHANGED <<stream, buffer, flushing>> /\ pc' # "down"
    BY <1>2 DEF GetLatest, WaitWhileFull, EndBatch, PublishConnected
  <2> QED BY <1>2, <2>1, QueueLeftAlone DEF Stored
<1>3. ASSUME NEW m \in Msgs, PublishOk(m) \/ DeliverLate(m)
      PROVE  OrderInv'
  <2>1. /\ Accept(m) /\ UNCHANGED <<buffer, flushing>>
        /\ pc' # "down" \/ pc = "down"
        /\ PublishOk(m) \/ UNCHANGED <<pc, readerVars, nextBlock>>
    BY <1>3 DEF PublishOk, DeliverLate
  <2>2. Stored \subseteq Stored'
    BY <2>1, AcceptFacts DEF Messages, Shape, TypeOK
  <2> QED BY <2>1, <2>2, QueueLeftAlone
<1>4. CASE StartResume \/ StartFresh \/ FinalPersist \/ Crash
  <2>1. buffer' = <<>> /\ flushing' = <<>> /\ pc' \in {"down", "select"}
    BY <1>0, <1>4 DEF StartResume, StartFresh, Started, FinalPersist, Crash,
       Exit, OrderInv, StartsEmpty, Flushing
  <2>2. BufferInOrder'
    BY <2>1, EmptyInOrder DEF BufferInOrder, InOrder
  <2> QED BY <2>1, <2>2, EmptyFacts
          DEF OrderInv, BatchRange, NothingBehind, StartsEmpty
<1>5. CASE ReadBatch
  <2>1. /\ UNCHANGED <<stream, buffer, flushing, nextBlock>>
        /\ pc = "read" /\ pc' = "publish"
        /\ batchEnd' = end_block(nextBlock, latest)
        /\ batch' = {m \in Msgs : BlockOf[m] \in nextBlock .. batchEnd'}
    BY <1>5 DEF ReadBatch
  <2>2. nextBlock <= batchEnd'
    BY <2>1, IngestorAssumption
    DEF end_block, OrderInv, BatchRange, Shape, TypeOK
  <2>3. BufferInOrder' /\ Held' = Held
    BY <2>1, SameQueues DEF Stored, Held
  <2>4. NothingBehind'
    BY <2>1, <2>3 DEF OrderInv, NothingBehind
  <2> QED BY <2>1, <2>2, <2>3, <2>4 DEF OrderInv, BatchRange, StartsEmpty
<1>6. ASSUME NEW m \in Msgs, PublishDisconnected(m) \/ PublishErr(m)
      PROVE  OrderInv'
  <2>1. /\ UNCHANGED <<stream, flushing, nextBlock, batchEnd>>
        /\ pc \in Publishing /\ pc' = "publish" /\ IsNext(m)
        /\ batch' = batch \ {m} /\ flushing = <<>>
        /\ ~IsFull(buffer) /\ buffer' = Push(buffer, m)
    BY <1>0, <1>6 DEF PublishDisconnected, PublishErr, Publishing, Room,
       RoomForUnacked, Flushing
  <2>2. /\ BlockOf[m] \in nextBlock .. batchEnd /\ nextBlock <= batchEnd
        /\ BlockOf[m] \in Nat
    BY <2>1, IngestorAssumption
    DEF OrderInv, BatchRange, IsNext, Publishing, Msgs
  <2>3. Range(buffer') = Range(buffer) \union {m} /\ Range(flushing') = {}
    BY <1>0, <2>1, PushFacts, EmptyFacts
  <2>4. Stored' = Stored /\ Held' = Held \union {m}
    BY <2>1, <2>3 DEF Stored, Held
  <2>5. InOrder(buffer', Stored') /\ InOrder(flushing', Stored')
    BY <1>0, <2>1, <2>2, <2>4, PushInOrder
  <2>6. ASSUME NEW n \in Msgs, n < m, BlockOf[n] >= nextBlock
        PROVE  n \in Held
    <3>1. BlockOf[n] <= BlockOf[m] /\ BlockOf[n] \in Nat
      BY <2>6, IngestorAssumption DEF Msgs
    <3>2. BlockOf[n] \in nextBlock .. batchEnd
      BY <1>0, <2>2, <2>6, <3>1
    <3>3. n \notin batch
      BY <2>1, <2>6, IngestorAssumption DEF IsNext, Msgs
    <3> QED BY <2>1, <3>2, <3>3 DEF Messages, Tracked, BatchKept, Publishing
  <2>7. NothingBehind'
    BY <2>1, <2>3, <2>4, <2>6 DEF OrderInv, NothingBehind
  <2>8. BatchRange'
    BY <2>1 DEF OrderInv, BatchRange, Publishing
  <2> QED BY <2>1, <2>5, <2>7, <2>8
          DEF OrderInv, BufferInOrder, StartsEmpty
<1>7. CASE ChangeToConnected \/ TryResume
  <2>1. /\ UNCHANGED <<stream, nextBlock>> /\ flushing = <<>>
        /\ pc' \notin Publishing \union {"read", "down"}
        /\ \/ UNCHANGED <<buffer, flushing>>
           \/ buffer' = <<>> /\ flushing' = buffer
    BY <1>0, <1>7 DEF ChangeToConnected, TryResume, Flushing, Publishing
  <2>2. Stored' = Stored /\ Held' = Held
    BY <2>1, EmptyFacts DEF Stored, Held
  <2>3. BufferInOrder'
    BY <1>0, <2>1, <2>2, EmptyInOrder DEF BufferInOrder, InOrder
  <2> QED BY <1>0, <2>1, <2>2, <2>3, EmptyFacts, KeepOrder
<1>8. CASE FlushOk
  <2>1. /\ UNCHANGED <<buffer, nextBlock>>
        /\ pc \in Flushing /\ pc' \notin Publishing \union {"read", "down"}
        /\ flushing' = Tail(flushing) /\ Accept(Head(flushing))
    BY <1>8 DEF FlushOk, Flushing, Publishing
  <2>2. flushing # <<>> /\ buffer = <<>>
    BY <2>1 DEF Shape, FlushShape
  <2>3. /\ Head(flushing) \in Msgs
        /\ Range(flushing) = Range(flushing') \union {Head(flushing)}
    BY <1>0, <2>1, <2>2, TailFacts
  <2>4. Stored' = Stored \union {Head(flushing)}
    BY <2>1, <2>3, AcceptFacts DEF Messages, Shape, TypeOK
  <2>5. Held' = Held
    BY <2>1, <2>3, <2>4 DEF Held
  <2>6. InOrder(flushing', Stored')
    BY <1>0, <2>1, <2>2, <2>4, TailInOrder
  <2>7. BufferInOrder'
    BY <2>1, <2>2, <2>6, EmptyInOrder DEF BufferInOrder, InOrder
  <2> QED BY <1>0, <2>1, <2>3, <2>5, <2>7, KeepOrder
<1>9. CASE FlushErr
  <2>1. /\ UNCHANGED <<stream, nextBlock>>
        /\ pc \in Flushing /\ pc' = "select"
        /\ buffer' = ExtendFront(buffer, flushing) /\ flushing' = <<>>
    BY <1>9 DEF FlushErr
  <2>2. flushing # <<>> /\ buffer = <<>>
    BY <2>1 DEF Shape, FlushShape
  <2>3. buffer' = flushing
    BY <1>0, <2>1, <2>2, ConcatEmptySeq DEF ExtendFront
  <2>4. Stored' = Stored /\ Held' = Held
    BY <2>1, <2>2, <2>3, EmptyFacts DEF Stored, Held
  <2>5. BufferInOrder'
    BY <1>0, <2>1, <2>3, <2>4, EmptyInOrder DEF BufferInOrder, InOrder
  <2> QED BY <1>0, <2>1, <2>2, <2>3, <2>4, <2>5, EmptyFacts, KeepOrder
          DEF Publishing
<1> QED
  BY <1>1, <1>2, <1>3, <1>4, <1>5, <1>6, <1>7, <1>8, <1>9
  DEF Next, Reader, Handlers, Environment

\* OrderInv holds at the start and every step preserves it.
THEOREM OrderInvariant == Spec => []OrderInv
<1>1. Init => OrderInv
  BY EmptyFacts, EmptyInOrder
  DEF Init, OrderInv, BatchRange, NothingBehind, StartsEmpty, BufferInOrder
<1>2. IInv /\ IInv' /\ OrderInv /\ [Next]_vars => OrderInv'
  BY NextOrder DEF IInv, Shape, Room, Messages, Tracked
<1> QED BY <1>1, <1>2, Invariant, PTL DEF Spec

\* Whatever fails, is dropped or is read again, what a flush sends goes out in
\* the order of the chain (publisher.rs, buffer.rs).
THEOREM QueueStaysInOrder == Spec => []BufferInOrder
<1>1. OrderInv => BufferInOrder
  BY DEF OrderInv
<1> QED BY <1>1, OrderInvariant, PTL

-----------------------------------------------------------------------------
(* The persisted cursor.                                                   *)

Ahead == pc # "down" => lastSynced >= disk

\* While the process runs, its cursor is not behind the one in the file.
LEMMA NextAhead ==
  ASSUME ~UnreadableStarts, TypeOK, Ahead, [Next]_vars
  PROVE  Ahead' /\ disk' >= disk
<1> USE DEF jsVars, envVars, readerVars, pubVars, curVars, Ahead, TypeOK
<1>1. CASE StartResume
  BY <1>1 DEF StartResume, Started, NoFile
<1>2. CASE StartFresh
  BY <1>2, IngestorAssumption DEF StartFresh, Started, NoFile
<1>3. CASE \/ GetLatest \/ ReadBatch \/ WaitWhileFull \/ Delay \/ ChangeSignalled
           \/ Break \/ (\E m \in Msgs : \/ PublishDisconnected(m) \/ PublishOk(m)
                                        \/ PublishConnected(m) \/ PublishErr(m))
           \/ TryResume
  <2>1. UNCHANGED <<lastSynced, disk>> /\ pc # "down"
    BY <1>3 DEF GetLatest, ReadBatch, WaitWhileFull, Delay, ChangeSignalled,
       Break, PublishDisconnected, PublishConnected, PublishOk, PublishErr,
       TryResume, AtAwait
  <2> QED BY <2>1, SMT DEF NoFile
<1>4. CASE Signal \/ Environment \/ UNCHANGED vars
  <2>1. UNCHANGED <<lastSynced, disk, pc>>
    BY <1>4 DEF Signal, Environment, Connect, Disconnect, NewBlock, DeliverLate,
       Lose, WindowPasses, vars
  <2> QED BY <2>1, SMT DEF NoFile
<1>5. CASE EndBatch \/ ChangeToConnected \/ ChangeToDisconnected \/ FlushOk \/ FlushErr
  <2>1. /\ pc # "down" /\ disk' = disk
        /\ lastSynced' \in {lastSynced, CaughtUp, update(lastSynced, batchEnd)}
    BY <1>5 DEF EndBatch, ChangeToConnected, ChangeToDisconnected, FlushOk,
       FlushErr, Flushing
  <2>2. lastSynced' >= lastSynced
    BY <2>1 DEF CaughtUp, update
  <2>3. lastSynced' \in Nat
    BY <2>1 DEF CaughtUp, update
  <2> QED BY <2>1, <2>2, <2>3, SMT DEF NoFile
<1>6. CASE Tick
  BY <1>6, SMT DEF Tick, AtAwait, NoFile
<1>7. CASE FinalPersist
  BY <1>7, SMT DEF FinalPersist, Exit, NoFile
<1>8. CASE Crash
  BY <1>8, SMT DEF Crash, Exit, NoFile
<1> QED
  BY <1>1, <1>2, <1>3, <1>4, <1>5, <1>6, <1>7, <1>8
  DEF Next, Reader, Handlers

\* When the state file can always be read, no step takes the persisted cursor
\* back (StateStore::update, StateStore::persist).
THEOREM CursorNeverGoesBack ==
  ASSUME ~UnreadableStarts
  PROVE  Spec => DiskMonotone
<1>1. Init => Ahead
  BY DEF Init, Ahead
<1>2. TypeOK /\ Ahead /\ [Next]_vars => Ahead' /\ [disk' >= disk]_vars
  BY NextAhead
<1> QED BY <1>1, <1>2, TypeCorrect, PTL DEF Spec, DiskMonotone

-----------------------------------------------------------------------------
(* What the documentation says, and when it is so.                         *)

\* The ingestor has done with m: every start resumes behind its block, the task
\* is behind it, and nothing that would still publish m is under way.
Settled(m) ==
  /\ BlockOf[m] <= disk
  /\ pc # "down" => BlockOf[m] < nextBlock
  /\ m \notin batch \union wire \union Range(buffer) \union Range(flushing)

\* Nothing is stored twice, and what could be published again would be taken
\* for a duplicate.
StoredOnce ==
  NoDuplicates /\ \A m \in Stored : compute_checksum(m) \in window \/ Settled(m)

\* A message that is settled stays so: a drop, a failed flush or a restart leads
\* back behind the cursor in the file at most.
LEMMA SettledStays ==
  ASSUME ~UnreadableStarts, IInv, OrderInv, Ahead, [Next]_vars,
         NEW m \in Msgs, Settled(m)
  PROVE  Settled(m)'
<1> USE DEF jsVars, envVars, readerVars, pubVars, curVars, DropReader
<1>1. /\ BlockOf[m] \in Nat /\ disk \in Nat /\ BlockOf[m] <= disk
      /\ nextBlock \in Nat /\ lastSynced \in Nat
      /\ buffer \in Seq(Msgs) /\ flushing \in Seq(Msgs)
      /\ pc # "down" => BlockOf[m] < nextBlock /\ disk <= lastSynced
      /\ m \notin batch /\ m \notin wire /\ m \notin Range(buffer) /\ m \notin Range(flushing)
  BY IngestorAssumption, SMTT(30) DEF Settled, IInv, TypeOK, Ahead, Msgs, NoFile
<1> USE <1>1
<1>2. CASE StartResume
  BY <1>2 DEF StartResume, Started, ResumeAt, Settled
<1>3. CASE StartFresh
  BY <1>3 DEF StartFresh, NoFile
<1>4. CASE ReadBatch
  <2>1. m \notin batch'
    BY <1>4 DEF ReadBatch
  <2> QED BY <1>4, <2>1 DEF ReadBatch, Settled
<1>5. ASSUME NEW n \in Msgs,
             PublishDisconnected(n) \/ PublishConnected(n) \/ PublishOk(n) \/ PublishErr(n)
      PROVE  Settled(m)'
  <2>1. n # m /\ n \in batch
    BY <1>5 DEF PublishDisconnected, PublishConnected, PublishOk, PublishErr, IsNext
  <2>2. Range(Push(buffer, n)) \subseteq Range(buffer) \union {n}
    BY AppendFacts DEF Push
  <2>3. /\ buffer' \in {buffer, Push(buffer, n)} /\ batch' \subseteq batch
        /\ wire' \subseteq wire \union {n}
        /\ pc # "down" /\ UNCHANGED <<flushing, disk, nextBlock>>
    BY <1>5 DEF PublishDisconnected, PublishConnected, PublishOk, PublishErr
  <2> QED BY <2>1, <2>2, <2>3 DEF Settled
<1>6. CASE EndBatch
  <2>1. nextBlock <= batchEnd /\ batchEnd \in Nat
    BY <1>6 DEF EndBatch, OrderInv, BatchRange, IInv, TypeOK
  <2> QED BY <1>6, <2>1, EmptyFacts DEF EndBatch, Settled
<1>7. CASE ChangeToConnected \/ TryResume
  <2>1. /\ Range(buffer') \union Range(flushing') \subseteq Range(buffer) \union Range(flushing)
        /\ pc # "down" /\ UNCHANGED <<wire, batch, disk, nextBlock>>
    BY <1>7, EmptyFacts DEF ChangeToConnected, TryResume
  <2> QED BY <2>1 DEF Settled
<1>8. CASE FlushOk
  <2>1. flushing # <<>>
    BY <1>8 DEF FlushOk, IInv, FlushShape
  <2>2. Range(flushing') \subseteq Range(flushing)
    BY <1>8, <2>1, TailFacts DEF FlushOk
  <2>3. pc # "down" /\ UNCHANGED <<wire, batch, buffer, disk, nextBlock>>
    BY <1>8 DEF FlushOk, Flushing
  <2> QED BY <2>2, <2>3 DEF Settled
<1>9. CASE FlushErr
  <2>1. flushing # <<>> /\ Head(flushing) \in Range(flushing)
    BY <1>9, TailFacts DEF FlushErr, IInv, FlushShape
  <2>2. Range(buffer') = Range(flushing)
    <3>1. buffer = <<>>
      BY <1>9 DEF FlushErr, IInv, FlushShape
    <3> QED BY <1>9, <3>1, ConcatEmptySeq DEF FlushErr, ExtendFront
  <2>3. /\ wire' = wire \union {Head(flushing)} /\ Range(flushing') = {}
        /\ pc # "down" /\ UNCHANGED <<batch, disk, nextBlock>>
    BY <1>9, EmptyFacts DEF FlushErr, Flushing
  <2> QED BY <2>1, <2>2, <2>3 DEF Settled
<1>10. CASE FinalPersist \/ Crash
  <2>1. wire' = IF flushing = <<>> THEN wire ELSE wire \union {Head(flushing)}
    BY <1>10 DEF FinalPersist, Crash, Exit
  <2>2. flushing # <<>> => Head(flushing) \in Range(flushing)
    BY TailFacts
  <2>3. m \notin wire'
    BY <2>1, <2>2
  <2>4. /\ pc # "down" /\ disk' \in {disk, lastSynced} /\ pc' = "down" /\ batch' = {}
        /\ Range(buffer') = {} /\ Range(flushing') = {}
    BY <1>10, EmptyFacts DEF FinalPersist, Crash, Exit
  <2> QED BY <2>3, <2>4 DEF Settled
<1>11. CASE Tick
  BY <1>11 DEF Tick, AtAwait, Settled
<1>12. CASE \/ GetLatest \/ WaitWhileFull \/ Delay \/ ChangeSignalled
            \/ ChangeToDisconnected \/ Break
  <2>1. /\ UNCHANGED <<wire, buffer, flushing, disk, nextBlock>>
        /\ pc # "down" /\ batch' \subseteq batch
    BY <1>12 DEF GetLatest, WaitWhileFull, Delay, ChangeSignalled,
       ChangeToDisconnected, Break, AtAwait
  <2> QED BY <2>1 DEF Settled
<1>13. CASE Signal \/ Environment \/ UNCHANGED vars
  <2>1. /\ UNCHANGED <<pc, batch, buffer, flushing, disk, nextBlock>>
        /\ wire' \subseteq wire
    BY <1>13 DEF Signal, Environment, Connect, Disconnect, NewBlock, DeliverLate,
       Lose, WindowPasses, Forget, vars
  <2> QED BY <2>1 DEF Settled
<1> QED
  BY <1>2, <1>3, <1>4, <1>5, <1>6, <1>7, <1>8, <1>9, <1>10, <1>11, <1>12, <1>13
  DEF Next, Reader, Handlers

\* The server stores a message that was not settled only if it is new.
LEMMA AcceptOnce ==
  ASSUME NEW m \in Msgs, stream \in Seq(Msgs), StoredOnce, ~Settled(m), Accept(m)
  PROVE  /\ NoDuplicates'
         /\ Stored' \subseteq Stored \union {m}
         /\ compute_checksum(m) \in window'
         /\ window \subseteq window'
<1>1. CASE compute_checksum(m) \in window
  <2>1. UNCHANGED <<stream, window>>
    BY <1>1 DEF Accept
  <2> QED BY <1>1, <2>1 DEF StoredOnce, NoDuplicates, Stored
<1>2. CASE compute_checksum(m) \notin window
  <2>1. stream' = Append(stream, m) /\ window' = window \union {compute_checksum(m)}
    BY <1>2 DEF Accept
  <2>2. \A i \in DOMAIN stream : stream[i] # m
    BY <1>2 DEF StoredOnce, Stored, Range
  <2>3. \A i, j \in DOMAIN stream : stream[i] = stream[j] => i = j
    BY DEF StoredOnce, NoDuplicates
  <2>4. NoDuplicates'
    BY <2>1, <2>2, <2>3 DEF NoDuplicates
  <2>5. Stored' = Stored \union {m}
    BY <2>1, AppendFacts DEF Stored
  <2> QED BY <2>1, <2>4, <2>5
<1> QED BY <1>1, <1>2

\* README: deduplication ensures that neither a restart nor a batch that is
\* published again leaves duplicates on the stream.  So it is, if the server
\* remembers a message until the cursor in the file has passed it and neither
\* the task nor the network holds a copy: from then on no drop, failed flush,
\* crash or restart makes the ingestor publish it once more.  How long that
\* takes is how long duplicate_window must be.
THEOREM OnlyTheUnsettledIsRepublished ==
  ASSUME ~UnreadableStarts
  PROVE  Spec /\ [][\A m \in Msgs : compute_checksum(m) \in window \ window'
                                    => Settled(m)]_vars
           => []NoDuplicates
<1> DEFINE Forgets == \A m \in Msgs : compute_checksum(m) \in window \ window' => Settled(m)
<1>1. Init => StoredOnce
  BY EmptyFacts DEF Init, StoredOnce, NoDuplicates, Stored
<1>2. ASSUME IInv, OrderInv, Ahead, StoredOnce, [Next]_vars, [Forgets]_vars
      PROVE  StoredOnce'
  <2> USE DEF jsVars
  <2>1. \A m \in Msgs : Settled(m) => Settled(m)'
    BY <1>2, SettledStays
  <2>2. stream \in Seq(Msgs) /\ Stored \subseteq Msgs
    BY <1>2, SMTT(30) DEF IInv, TypeOK, Stored, Range
  <2>3. ASSUME stream' = stream PROVE StoredOnce'
    <3>1. NoDuplicates' /\ Stored' = Stored
      BY <1>2, <2>3 DEF StoredOnce, NoDuplicates, Stored
    <3>2. ASSUME NEW m \in Stored, compute_checksum(m) \notin window' PROVE Settled(m)'
      <4>1. CASE compute_checksum(m) \notin window
        BY <1>2, <2>1, <2>2, <3>2, <4>1 DEF StoredOnce
      <4>2. CASE compute_checksum(m) \in window
        <5>1. Forgets
          BY <1>2, <3>2, <4>2 DEF vars
        <5> QED BY <2>1, <2>2, <3>2, <4>2, <5>1
      <4> QED BY <4>1, <4>2
    <3> QED BY <3>1, <3>2 DEF StoredOnce, compute_checksum
  <2>4. ASSUME NEW m \in Msgs, ~Settled(m), Accept(m) PROVE StoredOnce'
    <3>1. /\ NoDuplicates' /\ Stored' \subseteq Stored \union {m}
          /\ compute_checksum(m) \in window' /\ window \subseteq window'
      BY <1>2, <2>2, <2>4, AcceptOnce
    <3>2. \A n \in Stored' : compute_checksum(n) \in window' \/ Settled(n)'
      BY <1>2, <2>1, <2>2, <3>1 DEF StoredOnce
    <3> QED BY <3>1, <3>2 DEF StoredOnce, compute_checksum
  <2>5. ASSUME NEW m \in Msgs, PublishOk(m) \/ DeliverLate(m) PROVE StoredOnce'
    <3>1. Accept(m) /\ m \in batch \union wire
      BY <2>5 DEF PublishOk, DeliverLate, IsNext, Unawaited
    <3> QED BY <2>4, <3>1 DEF Settled
  <2>6. CASE FlushOk
    <3>1. Accept(Head(flushing)) /\ flushing # <<>> /\ flushing \in Seq(Msgs)
      BY <1>2, <2>6 DEF FlushOk, IInv, TypeOK, FlushShape
    <3>2. Head(flushing) \in Msgs /\ Head(flushing) \in Range(flushing)
      BY <3>1, TailFacts
    <3> QED BY <2>4, <3>1, <3>2 DEF Settled
  <2>7. CASE \/ StartResume \/ StartFresh \/ ChangeSignalled \/ Tick \/ Signal \/ Break
             \/ FinalPersist \/ Crash \/ UNCHANGED vars
             \/ Connect \/ Disconnect \/ NewBlock \/ \E m \in Msgs : Lose(m)
             \/ \E id \in window : WindowPasses(id)
    <3>1. stream' = stream
      BY <2>7 DEF StartResume, StartFresh, Started, ChangeSignalled, Tick,
         Signal, Break, FinalPersist, Crash, Exit, Connect, Disconnect, NewBlock,
         Lose, WindowPasses, Forget, vars
    <3> QED BY <2>3, <3>1
  <2>8. CASE \/ ChangeToConnected \/ ChangeToDisconnected \/ TryResume \/ FlushErr
             \/ GetLatest \/ ReadBatch \/ WaitWhileFull \/ EndBatch \/ Delay
             \/ \E m \in Msgs : \/ PublishDisconnected(m) \/ PublishConnected(m)
                                \/ PublishErr(m)
    <3>1. stream' = stream
      BY <2>8 DEF ChangeToConnected, ChangeToDisconnected, TryResume,
         FlushErr, GetLatest, ReadBatch, WaitWhileFull, EndBatch, Delay,
         PublishDisconnected, PublishConnected, PublishErr
    <3> QED BY <2>3, <3>1
  <2> QED BY <1>2, <2>5, <2>6, <2>7, <2>8
          DEF Next, Reader, Handlers, Environment
<1>3. StoredOnce => NoDuplicates
  BY DEF StoredOnce
<1>4. Init => Ahead
  BY DEF Init, Ahead
<1>5. TypeOK /\ Ahead /\ [Next]_vars => Ahead'
  BY NextAhead
<1> QED BY <1>1, <1>2, <1>3, <1>4, <1>5, Invariant, TypeCorrect, OrderInvariant, PTL DEF Spec

\* README: each batch is published before the cursor advances. The one block
\* the cursor may pass unread is the initial block of a fresh start; where it
\* has no message, no cursor in the state file covers a message that is not on
\* the stream (application.rs, state.rs).
THEOREM OnlyInitialBlockIsSkipped ==
  ASSUME \A m \in Msgs : BlockOf[m] # InitialBlock
  PROVE  Spec => []NothingSkipped
<1>1. CursorSafe => NothingSkipped
  BY DEF CursorSafe, NothingSkipped, Due
<1> QED BY <1>1, CursorIsSafe, PTL

-----------------------------------------------------------------------------
(* Refinement.                                                             *)

\* The ingestor implements AtLeastOnce: each step lets the chain grow, puts
\* one message of the chain on the stream, moves the durable cursor to a block
\* up to which everything due is on the stream, or changes nothing of these.
THEOREM Refinement == Spec => AtLeastOnceSpec
<1>1. Init => Abstract!Init
  BY EmptyFacts, IngestorAssumption DEF Init, Abstract!Init, Stored
<1>2. IInv /\ IInv' /\ [Next]_vars => [Abstract!Next]_(Abstract!avars)
  <2> SUFFICES ASSUME IInv, IInv', [Next]_vars
               PROVE  Abstract!Next \/ UNCHANGED Abstract!avars
    OBVIOUS
  <2> USE DEF jsVars, envVars, readerVars, pubVars, curVars, Abstract!avars
  <2>1. ASSUME UNCHANGED <<head, stream, disk>>
        PROVE  UNCHANGED Abstract!avars
    BY <2>1 DEF Stored
  <2>2. ASSUME NEW m \in Msgs, BlockOf[m] <= head, Accept(m), UNCHANGED <<head, disk>>
        PROVE  Abstract!Next \/ UNCHANGED Abstract!avars
    <3>1. Stored' = Stored \union {m}
      BY <2>2, AcceptFacts DEF IInv, TypeOK
    <3>2. Abstract!Deliver(m)
      BY <2>2, <3>1 DEF Abstract!Deliver
    <3> QED BY <3>2 DEF Abstract!Next, Abstract!Msgs, Msgs
  <2>3. ASSUME disk' \in {disk, lastSynced}, UNCHANGED <<head, stream>>
        PROVE  Abstract!Next \/ UNCHANGED Abstract!avars
    <3>1. CASE disk' = disk
      BY <2>1, <2>3, <3>1
    <3>2. CASE disk' = lastSynced
      <4>1. disk' \in Nat /\ Stored' = Stored
        BY <2>3, <3>2 DEF IInv, TypeOK, Stored
      <4>2. Abstract!Covered(disk')
        BY <3>2
        DEF IInv, CursorSafe, Due, Msgs, Abstract!Covered, Abstract!Due, Abstract!Msgs
      <4>3. Abstract!MoveCursor
        BY <2>3, <4>1, <4>2 DEF Abstract!MoveCursor
      <4> QED BY <4>3 DEF Abstract!Next
    <3> QED BY <2>3, <3>1, <3>2
  <2>4. ASSUME NEW m \in batch \union wire \union Held
        PROVE  m \in Msgs /\ BlockOf[m] <= head
    BY HeldMsgs DEF IInv, TypeOK, KnownBlocks, Shape
  <2>5. CASE NewBlock
    <3>1. head' > head /\ Stored' = Stored /\ disk' = disk
      BY <2>5 DEF NewBlock, IInv, TypeOK, Stored
    <3> QED BY <3>1 DEF Abstract!Next, Abstract!Grow
  <2>6. ASSUME NEW m \in Msgs, PublishOk(m) \/ DeliverLate(m)
        PROVE  Abstract!Next \/ UNCHANGED Abstract!avars
    <3>1. m \in batch \union wire /\ Accept(m) /\ UNCHANGED <<head, disk>>
      BY <2>6 DEF PublishOk, DeliverLate, Unawaited, IsNext
    <3> QED BY <2>2, <2>4, <3>1
  <2>7. CASE FlushOk
    <3>1. Accept(Head(flushing)) /\ UNCHANGED <<head, disk>> /\ pc \in Flushing
      BY <2>7 DEF FlushOk
    <3>2. Head(flushing) \in Held
      BY <3>1, TailFacts DEF IInv, TypeOK, FlushShape, Held
    <3> QED BY <2>2, <2>4, <3>1, <3>2
  <2>8. CASE Tick \/ FinalPersist \/ Crash
    <3>1. disk' \in {disk, lastSynced} /\ UNCHANGED <<head, stream>>
      BY <2>8 DEF Tick, FinalPersist, Crash, Exit
    <3> QED BY <2>3, <3>1
  <2>9. CASE \/ StartResume \/ StartFresh \/ ChangeSignalled \/ Signal \/ Break
             \/ ChangeToConnected \/ ChangeToDisconnected \/ TryResume \/ FlushErr
    <3>1. UNCHANGED <<head, stream, disk>>
      BY <2>9 DEF StartResume, StartFresh, Started, ChangeSignalled, Signal,
         Break, ChangeToConnected, ChangeToDisconnected, TryResume, FlushErr
    <3> QED BY <2>1, <3>1
  <2>10. CASE \/ GetLatest \/ ReadBatch \/ WaitWhileFull \/ EndBatch \/ Delay
              \/ \E m \in Msgs : \/ PublishDisconnected(m) \/ PublishConnected(m)
                                 \/ PublishErr(m)
    <3>1. UNCHANGED <<head, stream, disk>>
      BY <2>10 DEF GetLatest, ReadBatch, WaitWhileFull, EndBatch, Delay,
         PublishDisconnected, PublishConnected, PublishErr
    <3> QED BY <2>1, <3>1
  <2>11. CASE \/ Connect \/ Disconnect \/ UNCHANGED vars
              \/ (\E id \in window : WindowPasses(id)) \/ \E m \in Msgs : Lose(m)
    <3>1. UNCHANGED <<head, stream, disk>>
      BY <2>11 DEF Connect, Disconnect, Lose, WindowPasses, Forget, vars
    <3> QED BY <2>1, <3>1
  <2> QED
    BY <2>5, <2>6, <2>7, <2>8, <2>9, <2>10, <2>11
    DEF Next, Reader, Handlers, Environment
<1> QED BY <1>1, <1>2, Invariant, PTL DEF Spec, AtLeastOnceSpec, Abstract!Spec

-----------------------------------------------------------------------------
\* The main loop goes through the chain batch by batch, as BatchReads says:
\* state changes, ticks and shutdowns that drop a batch, and failed publishes,
\* leave next_block where it was, and only a batch that is published or
\* buffered as a whole moves it (Application::run).
THEOREM OneBatchAtATime == Spec => BatchReadsSpec
<1>1. Init => Reads!Init
  BY DEF Init, Reads!Init, Reads!None
<1>2. IInv /\ IInv' /\ OrderInv /\ OrderInv' /\ [Next]_vars
        => [Reads!Next]_(Reads!rvars)
  <2> SUFFICES ASSUME TypeOK, TypeOK', BatchRange, BatchRange', [Next]_vars
               PROVE  Reads!Next \/ UNCHANGED Reads!rvars
    BY DEF IInv, OrderInv
  <2> USE DEF jsVars, envVars, readerVars, pubVars, curVars
  <2>0. nextBlock \in Nat /\ nextBlock' \in Nat /\ batchEnd \in 0 .. latest
        /\ batchEnd' \in 0 .. latest' /\ latest' \in 0 .. head' /\ head' \in Nat
        /\ head \in Nat /\ latest \in 0 .. head
    BY DEF TypeOK
  <2>1. ASSUME UNCHANGED <<head, nextBlock>>, pc # "down", pc' # "down",
               \/ pc \notin Publishing /\ pc' \notin Publishing
               \/ pc \in Publishing /\ pc' \in Publishing /\ batchEnd' = batchEnd
        PROVE  UNCHANGED Reads!rvars
    BY <2>1 DEF Reads!rvars, Publishing
  <2>2. ASSUME UNCHANGED <<pc, head, nextBlock, batchEnd>>
        PROVE  UNCHANGED Reads!rvars
    BY <2>2 DEF Reads!rvars
  <2>3. CASE StartResume \/ StartFresh
    <3>1. pc = "down" /\ pc' = "select" /\ head' = head
      BY <2>3 DEF StartResume, StartFresh, Started
    <3>2. Reads!Start
      BY <2>0, <3>1 DEF Reads!Start, Reads!None
    <3> QED BY <3>2 DEF Reads!Next
  <2>4. CASE GetLatest \/ Delay
    BY <2>1, <2>4 DEF GetLatest, Delay, Publishing
  <2>5. CASE ReadBatch
    <3>1. /\ pc = "read" /\ pc' = "publish" /\ UNCHANGED <<head, nextBlock>>
      BY <2>5 DEF ReadBatch
    <3>2. nextBlock <= batchEnd' /\ batchEnd' \in 0 .. head
      BY <2>0, <3>1 DEF BatchRange
    <3>3. Reads!Read
      BY <2>0, <3>1, <3>2 DEF Reads!Read, Reads!None
    <3> QED BY <3>3 DEF Reads!Next
  <2>6. ASSUME NEW m \in Msgs, \/ PublishDisconnected(m) \/ PublishConnected(m)
                               \/ PublishOk(m) \/ PublishErr(m)
        PROVE  UNCHANGED Reads!rvars
    <3>1. pc \in Publishing /\ pc' \in Publishing /\ UNCHANGED <<head, nextBlock, batchEnd>>
      BY <2>6 DEF PublishDisconnected, PublishConnected, PublishOk, PublishErr,
         Publishing
    <3>2. pc # "down" /\ pc' # "down"
      BY <3>1 DEF Publishing
    <3> QED BY <2>1, <3>1, <3>2
  <2>7. CASE WaitWhileFull
    <3>1. pc = "publish" /\ pc' = "full" /\ UNCHANGED <<head, nextBlock, batchEnd>>
      BY <2>7 DEF WaitWhileFull
    <3> QED BY <2>1, <3>1 DEF Publishing
  <2>8. CASE EndBatch
    <3>1. /\ pc = "publish" /\ pc' \in {"delay", "select"} /\ head' = head
          /\ nextBlock' = batchEnd + 1
      BY <2>8 DEF EndBatch
    <3>2. nextBlock <= batchEnd
      BY <3>1 DEF BatchRange
    <3>3. batchEnd \in nextBlock .. batchEnd /\ \A b \in nextBlock .. batchEnd : b <= batchEnd
      BY <2>0, <3>2
    <3>4. Reads!Take
      BY <3>1, <3>3 DEF Reads!Take
    <3> QED BY <3>4 DEF Reads!Next
  <2>9. CASE ChangeSignalled \/ Tick \/ Break
    <3>1. /\ pc # "down" /\ pc' \in {"change", "tick", "final"}
          /\ UNCHANGED <<head, nextBlock>>
      BY <2>9 DEF ChangeSignalled, Tick, Break, AtAwait
    <3>2. Reads!Drop
      BY <3>1 DEF Reads!Drop
    <3> QED BY <3>2 DEF Reads!Next
  <2>10. CASE Handlers
    <3>1. /\ pc \in Flushing \union {"change", "tick"}
          /\ pc' \in Flushing \union {"select"} /\ UNCHANGED <<head, nextBlock>>
      BY <2>10 DEF Handlers, ChangeToConnected, ChangeToDisconnected, TryResume,
         FlushOk, FlushErr, Flushing
    <3> QED BY <2>1, <3>1 DEF Publishing, Flushing
  <2>11. CASE NewBlock
    <3>1. head' = head + 1 /\ UNCHANGED <<pc, nextBlock, batchEnd>>
      BY <2>11 DEF NewBlock
    <3>2. 0 .. head' \subseteq Nat /\ 0 .. head \subseteq 0 .. head'
      BY <2>0, <3>1
    <3>3. Reads!Grow
      BY <3>1, <3>2 DEF Reads!Grow
    <3> QED BY <3>3 DEF Reads!Next
  <2>12. CASE \/ Signal \/ Connect \/ Disconnect \/ UNCHANGED vars
              \/ (\E m \in Msgs : DeliverLate(m) \/ Lose(m))
              \/ \E id \in window : WindowPasses(id)
    <3>1. UNCHANGED <<pc, head, nextBlock, batchEnd>>
      BY <2>12 DEF Signal, Connect, Disconnect, DeliverLate, Lose, WindowPasses, vars
    <3> QED BY <2>2, <3>1
  <2>13. CASE FinalPersist \/ Crash
    <3>1. pc' = "down" /\ head' = head
      BY <2>13 DEF FinalPersist, Crash, Exit
    <3>2. Reads!Stop
      BY <3>1 DEF Reads!Stop, Reads!None
    <3> QED BY <3>2 DEF Reads!Next
  <2> QED
    BY <2>3, <2>4, <2>5, <2>6, <2>7, <2>8, <2>9, <2>10, <2>11, <2>12, <2>13
    DEF Next, Reader, Environment
<1> QED BY <1>1, <1>2, Invariant, OrderInvariant, PTL
        DEF Spec, BatchReadsSpec, Reads!Spec

-----------------------------------------------------------------------------
\* A cursor is not a missing file.
LEMMA CellFacts == ASSUME NEW b PROVE <<ChainId, b>> # <<>>
<1>1. Len(<<ChainId, b>>) = 2 /\ Len(<<>>) = 0
  OBVIOUS
<1> QED BY <1>1

\* Application::run uses its state file as one that takes the cursor in one
\* step, which is what StateFile shows load and persist to make of it.
THEOREM FileIsUsedAsACell == Spec => CursorFileSpec
<1>1. Init => Cell!Init
  <2> SUFFICES ASSUME Init PROVE Cell!Init
    OBVIOUS
  <2>1. /\ pc = "down" /\ disk \in Nat \union {NoFile}
        /\ UnreadableStarts \in BOOLEAN
    BY IngestorAssumption DEF Init
  <2> QED BY <2>1 DEF Cell!Init, Cell!None, Cell!Cursors
<1>2. TypeOK /\ TypeOK' /\ [Next]_vars => [Cell!Next]_(Cell!cvars)
  <2> SUFFICES ASSUME TypeOK, TypeOK', [Next]_vars
               PROVE  Cell!Next \/ UNCHANGED Cell!cvars
    OBVIOUS
  <2> USE DEF jsVars, envVars, readerVars, pubVars, curVars, Cell!cvars, Cell!None
  <2>a. \A b : <<ChainId, b>> # <<>>
    BY CellFacts
  <2>b. disk \in Nat \union {NoFile} /\ lastSynced \in Nat /\ lastSynced' \in Nat
    BY DEF TypeOK
  <2>1. CASE StartResume
    <3>1. /\ pc = "down" /\ pc' # "down" /\ disk # NoFile
          /\ lastSynced' = disk /\ disk' = disk
      BY <2>1 DEF StartResume, Started
    <3>2. Cell!Load
      BY <3>1, <2>a DEF Cell!Load
    <3> QED BY <3>2 DEF Cell!Next
  <2>2. CASE StartFresh
    <3>1. /\ pc = "down" /\ pc' # "down" /\ (disk = NoFile \/ UnreadableStarts = TRUE)
          /\ lastSynced' = InitialBlock /\ disk' = disk
      BY <2>2, IngestorAssumption DEF StartFresh, Started
    <3>2. Cell!Fresh(ChainId)
      <4>1. CASE disk = NoFile
        BY <3>1, <4>1 DEF Cell!Fresh
      <4>2. CASE UnreadableStarts = TRUE
        BY <3>1, <4>2 DEF Cell!Fresh
      <4> QED BY <3>1, <4>1, <4>2
    <3> QED BY <3>2 DEF Cell!Next
  <2>3. ASSUME UNCHANGED <<lastSynced, disk>>, pc = "down" <=> pc' = "down"
        PROVE  UNCHANGED Cell!cvars
    BY <2>3
  <2>4. CASE \/ GetLatest \/ ReadBatch \/ WaitWhileFull \/ Delay \/ ChangeSignalled
             \/ Break \/ (\E m \in Msgs : \/ PublishDisconnected(m) \/ PublishOk(m)
                                          \/ PublishConnected(m) \/ PublishErr(m))
             \/ TryResume
    <3>1. UNCHANGED <<lastSynced, disk>> /\ pc # "down" /\ pc' # "down"
      BY <2>4 DEF GetLatest, ReadBatch, WaitWhileFull, Delay, ChangeSignalled,
         Break, PublishDisconnected, PublishConnected, PublishOk, PublishErr,
         TryResume, AtAwait
    <3> QED BY <3>1, <2>3
  <2>5. CASE Signal \/ Environment \/ UNCHANGED vars
    <3>1. UNCHANGED <<lastSynced, disk, pc>>
      BY <2>5 DEF Signal, Environment, Connect, Disconnect, NewBlock, DeliverLate,
         Lose, WindowPasses, vars
    <3> QED BY <3>1, <2>3
  <2>6. CASE EndBatch \/ ChangeToConnected \/ ChangeToDisconnected \/ FlushOk \/ FlushErr
    <3>1. /\ pc # "down" /\ pc' # "down" /\ disk' = disk
          /\ lastSynced' \in {lastSynced, CaughtUp, update(lastSynced, batchEnd)}
      BY <2>6 DEF EndBatch, ChangeToConnected, ChangeToDisconnected, FlushOk,
         FlushErr, Flushing
    <3>2. lastSynced' >= lastSynced
      BY <3>1, <2>b DEF CaughtUp, update, TypeOK
    <3>3. CASE lastSynced' = lastSynced
      BY <3>1, <3>3, <2>3
    <3>4. CASE lastSynced' > lastSynced
      <4>1. Cell!Advance
        BY <3>1, <3>4, <2>a, <2>b DEF Cell!Advance, Cell!Cursors
      <4> QED BY <4>1 DEF Cell!Next
    <3> QED BY <3>2, <3>3, <3>4, <2>b
  <2>7. CASE Tick
    <3>1. /\ pc # "down" /\ pc' # "down" /\ lastSynced' = lastSynced
          /\ disk' \in {disk, lastSynced}
      BY <2>7 DEF Tick, AtAwait
    <3>2. CASE disk' = disk
      BY <3>1, <3>2, <2>3
    <3>3. CASE disk' = lastSynced
      <4>1. disk' # NoFile
        BY <3>3, <2>b DEF NoFile
      <4>2. Cell!Save
        BY <3>1, <3>3, <4>1, <2>a DEF Cell!Save
      <4> QED BY <4>2 DEF Cell!Next
    <3> QED BY <3>1, <3>2, <3>3
  <2>8. CASE FinalPersist \/ Crash
    <3>1. pc # "down" /\ pc' = "down" /\ disk' \in {disk, lastSynced}
      BY <2>8 DEF FinalPersist, Crash, Exit
    <3>2. lastSynced # NoFile
      BY <2>b DEF NoFile
    <3>3. Cell!Stop
      BY <3>1, <3>2, <2>a DEF Cell!Stop
    <3> QED BY <3>3 DEF Cell!Next
  <2> HIDE DEF jsVars, envVars, readerVars, pubVars, curVars, Cell!cvars, Cell!None
  <2> QED BY <2>1, <2>2, <2>4, <2>5, <2>6, <2>7, <2>8 DEF Next, Reader, Handlers
<1> QED BY <1>1, <1>2, TypeCorrect, PTL DEF Spec, CursorFileSpec, Cell!Spec
=============================================================================
