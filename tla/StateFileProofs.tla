--------------------------- MODULE StateFileProofs ---------------------------
(***************************************************************************)
(* Proofs about StateFile, for every set of chains, every cursor and any   *)
(* number of errors, kills and power losses.                               *)
(***************************************************************************)
EXTENDS StateFile, Sequences, TLAPS

\* The content of a state file that parses.
Cursors == ChainIds \X Nat

\* A cursor is neither torn nor missing.
LEMMA CursorFacts ==
  ASSUME NEW c \in Cursors
  PROVE  c # NoFile /\ c # Torn /\ c[1] \in ChainIds /\ c[2] \in Nat
<1>1. c[1] \in ChainIds /\ c[2] \in Nat
  BY DEF Cursors
<1>2. c # NoFile /\ c # Torn
  <2>1. PICK id \in ChainIds, block \in Nat : c = <<id, block>>
    BY DEF Cursors
  <2>2. 2 \in DOMAIN <<id, block>> /\ 2 \notin DOMAIN NoFile /\ 2 \notin DOMAIN Torn
    BY DEF NoFile, Torn
  <2> QED BY <2>1, <2>2
<1> QED BY <1>1, <1>2

\* A torn file is not a missing one.
LEMMA TornFacts == Torn # NoFile /\ Torn \notin Cursors
<1>1. Len(NoFile) = 0 /\ Len(Torn) = 1
  BY DEF NoFile, Torn
<1> QED BY <1>1, CursorFacts

-----------------------------------------------------------------------------
(* The invariant.                                                          *)

Shape ==
  /\ pc \in Steps \union {"run", "down"}
  /\ chain_id \in ChainIds /\ last_synced \in Nat /\ confirmed \in Nat
  /\ misreads \in Nat
  /\ file \in Cursors \union {NoFile}
  /\ onDisk \subseteq Cursors \union {NoFile}
  /\ file \in onDisk

\* What persist has in hand is the store, and from its write on the temporary
\* file holds it; it is renamed only when synced.
InHand ==
  /\ pc \in Steps => state = store
  /\ pc \in {"sync", "rename"} => tmp = state
  /\ pc = "rename" => synced
  /\ pc = "syncDir" => file = state

\* Whatever a power loss may leave is of the chain of the file and not ahead of
\* it, and the running process is of that chain too, as long as every start
\* read the file.
OneChain == misreads = 0 =>
  /\ \A f \in onDisk :
       f # NoFile => file # NoFile /\ f[1] = file[1] /\ f[2] <= file[2]
  /\ pc # "down" /\ file # NoFile => file[1] = chain_id

FileInv == Shape /\ InHand /\ OneChain /\ ConfirmedKept /\ MemoryAhead

-----------------------------------------------------------------------------
\* The invariant holds at the start.
LEMMA FileInvInit == Init => FileInv
  BY FileAssumption DEF Init, FileInv, Shape, InHand, OneChain, ConfirmedKept,
     MemoryAhead, Steps, Readable

\* Every step keeps the invariant and the chain of the file.
LEMMA FileInvNext ==
  ASSUME FileInv, [Next]_vars
  PROVE  FileInv' /\ (misreads = 0 /\ Readable /\ Readable' => file'[1] = file[1])
<1> USE DEF FileInv, Shape, InHand, OneChain, ConfirmedKept, MemoryAhead,
        Readable, Steps, store
<1>a. store \in Cursors /\ store[1] = chain_id /\ store[2] = last_synced
  BY DEF Cursors
<1>b. \A c \in Cursors : c # NoFile /\ c # Torn /\ c[1] \in ChainIds /\ c[2] \in Nat
  BY CursorFacts
<1>1. CASE UNCHANGED vars
  BY <1>1 DEF vars
<1>2. ASSUME NEW id \in ChainIds, LoadFile(id)
      PROVE  FileInv' /\ (misreads = 0 /\ Readable /\ Readable' => file'[1] = file[1])
  BY <1>2, <1>b DEF LoadFile, SameChain
<1>3. ASSUME NEW id \in ChainIds, LoadFresh(id)
      PROVE  FileInv' /\ (misreads = 0 /\ Readable /\ Readable' => file'[1] = file[1])
  BY <1>3, <1>b, FileAssumption DEF LoadFresh
<1>15. ASSUME NEW id \in ChainIds, LoadUnreadable(id)
      PROVE  FileInv' /\ (misreads = 0 /\ Readable /\ Readable' => file'[1] = file[1])
  BY <1>15, <1>b, FileAssumption DEF LoadUnreadable
<1>4. ASSUME NEW block \in Blocks, update(block)
      PROVE  FileInv' /\ (misreads = 0 /\ Readable /\ Readable' => file'[1] = file[1])
  BY <1>4, <1>b, FileAssumption DEF update, Blocks
<1>5. CASE Persist
  BY <1>5, <1>a, <1>b DEF Persist
<1>6. CASE Create
  BY <1>6, <1>b DEF Create
<1>7. CASE Write
  BY <1>7, <1>b DEF Write
<1>8. CASE Sync
  BY <1>8, <1>b DEF Sync
<1>9. CASE Rename
  BY <1>9, <1>a, <1>b DEF Rename
<1>10. CASE SyncDir
  BY <1>10, <1>a, <1>b DEF SyncDir
<1>11. CASE SyncDirFails
  BY <1>11, <1>b DEF SyncDirFails
<1>12. CASE Fails
  BY <1>12, <1>b DEF Fails
<1>13. CASE Kill
  BY <1>13, <1>b DEF Kill
<1>14. CASE PowerLoss
  BY <1>14, <1>b DEF PowerLoss
<1> QED BY <1>1, <1>2, <1>3, <1>4, <1>5, <1>6, <1>7, <1>8, <1>9, <1>10, <1>11,
           <1>12, <1>13, <1>14, <1>15 DEF Next

-----------------------------------------------------------------------------
\* FileInv holds in every reachable state.
THEOREM FileInvariant == Spec => []FileInv
<1>1. FileInv /\ [Next]_vars => FileInv'
  BY FileInvNext
<1> QED BY <1>1, FileInvInit, PTL DEF Spec

\* persist never leaves a file that does not parse, not even one a power loss
\* brings out: no crash sends a deployment back to INITIAL_BLOCK.
THEOREM FileNeverTorn == Spec => []NeverTorn
<1>1. FileInv => NeverTorn
  BY TornFacts DEF FileInv, Shape, NeverTorn
<1> QED BY <1>1, FileInvariant, PTL

\* A cursor whose directory sync worked is kept through every crash, as long
\* as every start can read the file.
THEOREM ConfirmedIsKept == Spec => []ConfirmedKept
<1>1. FileInv => ConfirmedKept
  BY DEF FileInv
<1> QED BY <1>1, FileInvariant, PTL

\* The cursor in memory is never behind the file that persist replaces, as
\* long as every start can read it.
THEOREM MemoryIsAhead == Spec => []MemoryAhead
<1>1. FileInv => MemoryAhead
  BY DEF FileInv
<1> QED BY <1>1, FileInvariant, PTL

\* load's check of the chain id keeps the file with its chain.
THEOREM ChainIsKept == Spec => ChainKept
<1>1. FileInv /\ [Next]_vars => 
        [misreads = 0 /\ Readable /\ Readable' => file'[1] = file[1]]_vars
  BY FileInvNext
<1> QED BY <1>1, FileInvariant, PTL DEF Spec, ChainKept

-----------------------------------------------------------------------------
\* load and persist, for all their steps, make a file that takes the cursor in
\* one step: what Ingestor has for them, with power losses beside.
THEOREM FileIsACell == Spec => CursorFileSpec
<1>1. Init => Cell!Init
  BY DEF Init, Cell!Init, Cell!None, NoFile
<1>2. FileInv /\ FileInv' /\ [Next]_vars => [Cell!Next]_(Cell!cvars)
  <2> SUFFICES ASSUME FileInv, FileInv', [Next]_vars
               PROVE  Cell!Next \/ UNCHANGED Cell!cvars
    OBVIOUS
  <2> USE DEF FileInv, Shape, Cell!cvars, Cell!None, store
  <2>a. \A c \in Cursors : c # NoFile /\ c # Torn /\ c[1] \in ChainIds /\ c[2] \in Nat
    BY CursorFacts
  <2>b. store \in Cursors /\ store[1] = chain_id /\ store[2] = last_synced
    BY DEF Cursors
  <2>c. Cell!Cursors = Cursors /\ NoFile = <<>> /\ store # NoFile
    BY <2>a, <2>b DEF Cell!Cursors, Cursors, NoFile
  <2>1. ASSUME NEW id \in ChainIds, LoadFile(id)
        PROVE  Cell!Next
    <3>1. /\ file \in Cursors /\ pc = "down" /\ pc' = "run"
          /\ UNCHANGED <<file, confirmed, misreads>>
      BY <2>1 DEF LoadFile, Readable
    <3>2. store' = file
      BY <2>1, <3>1 DEF LoadFile, SameChain, Cursors
    <3>3. Cell!Load
      BY <3>1, <3>2, <2>a, <2>c DEF Cell!Load
    <3> QED BY <3>3 DEF Cell!Next
  <2>2. ASSUME NEW id \in ChainIds, LoadFresh(id)
        PROVE  Cell!Next
    <3>1. file = NoFile
      BY <2>2, <2>a DEF LoadFresh, Readable
    <3>2. Cell!Fresh(id)
      BY <2>2, <3>1, <2>c DEF LoadFresh, Cell!Fresh
    <3> QED BY <3>2 DEF Cell!Next
  <2>3. ASSUME NEW block \in Blocks, update(block)
        PROVE  Cell!Next
    <3>1. store' \in Cursors /\ store'[1] = chain_id /\ store'[2] = block
      BY <2>3, FileAssumption DEF update, Cursors, Blocks
    <3>2. Cell!Advance
      BY <2>3, <3>1, <2>b, <2>c DEF update, Cell!Advance
    <3> QED BY <3>2 DEF Cell!Next
  <2>4. CASE Rename
    <3>1. file' = store
      BY <2>4 DEF Rename, InHand, Steps
    <3>2. Cell!Save
      BY <2>4, <3>1, <2>c DEF Rename, Cell!Save
    <3> QED BY <3>2 DEF Cell!Next
  <2>5. CASE SyncDir
    <3>1. file = store /\ confirmed' = file[2]
      BY <2>5 DEF SyncDir, InHand, Steps
    <3>2. Cell!Confirm
      BY <2>5, <3>1, <2>c DEF SyncDir, Cell!Confirm
    <3> QED BY <3>2 DEF Cell!Next
  <2>6. CASE Kill
    <3>1. Cell!Stop
      BY <2>6, <2>c DEF Kill, Cell!Stop
    <3> QED BY <3>1 DEF Cell!Next
  <2>7. CASE PowerLoss
    <3>1. pc' = "down" /\ file' \in onDisk /\ UNCHANGED <<confirmed, misreads>>
      BY <2>7 DEF PowerLoss
    <3>2. CASE misreads > 0
      <4>1. file' \in Cursors \union {NoFile}
        OBVIOUS
      <4>2. Cell!Rewind
        BY <3>1, <3>2, <4>1, <2>c DEF Cell!Rewind
      <4> QED BY <4>2 DEF Cell!Next
    <3>3. CASE misreads = 0 /\ file' = NoFile
      <4>1. confirmed = 0
        BY <3>1, <3>3 DEF ConfirmedKept
      <4>2. Cell!Rewind
        BY <3>1, <3>3, <4>1, <2>c DEF Cell!Rewind
      <4> QED BY <4>2 DEF Cell!Next
    <3>4. CASE misreads = 0 /\ file' # NoFile
      <4>1. /\ file' \in Cursors /\ file \in Cursors
            /\ file'[1] = file[1] /\ file'[2] <= file[2]
        BY <3>1, <3>4 DEF OneChain
      <4>2. confirmed <= file'[2]
        BY <3>1, <3>4, <4>1, <2>a DEF ConfirmedKept
      <4>3. Cell!Rewind
        BY <3>1, <3>4, <4>1, <4>2, <2>a, <2>c DEF Cell!Rewind
      <4> QED BY <4>3 DEF Cell!Next
    <3> QED BY <3>2, <3>3, <3>4
  <2>8. CASE \/ Persist \/ Create \/ Write \/ Sync \/ SyncDirFails \/ Fails
             \/ UNCHANGED vars
    <3>1. /\ UNCHANGED <<file, store, confirmed, misreads>>
          /\ pc = "down" <=> pc' = "down"
      BY <2>8 DEF Persist, Create, Write, Sync, SyncDirFails, Fails, Steps, vars
    <3> QED BY <3>1 DEF vars
  <2>9. ASSUME NEW id \in ChainIds, LoadUnreadable(id)
        PROVE  Cell!Next
    <3>1. /\ pc = "down" /\ pc' = "run" /\ misreads' > 0
          /\ store' = <<id, InitialBlock>> /\ UNCHANGED <<file, confirmed>>
      BY <2>9 DEF LoadUnreadable
    <3>2. (misreads' > 0) = TRUE
      BY <3>1
    <3>3. Cell!Fresh(id)
      BY <3>1, <3>2, <2>c DEF Cell!Fresh
    <3> QED BY <3>3 DEF Cell!Next
  <2> HIDE DEF FileInv, Shape, Cell!cvars, Cell!None, store
  <2> QED BY <2>1, <2>2, <2>3, <2>4, <2>5, <2>6, <2>7, <2>8, <2>9
          DEF Next
<1> QED BY <1>1, <1>2, FileInvariant, PTL DEF Spec, CursorFileSpec, Cell!Spec
=============================================================================
