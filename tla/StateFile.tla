------------------------------ MODULE StateFile ------------------------------
(***************************************************************************)
(* The state file: StateStore::load and StateStore::persist, step by step, *)
(* on a file system that may lose what is not synced.  Ingestor has a      *)
(* persist as one step; here is what it takes, and what a crash between    *)
(* two of its steps leaves.                                                *)
(*                                                                         *)
(* The content of a file is <<chain_id, last_block>>, or Torn for one that *)
(* does not parse.  A killed process leaves the file system as programs    *)
(* see it; a power loss leaves one of the things the disk may hold.        *)
(***************************************************************************)
EXTENDS Integers

CONSTANTS
  ChainIds,      \* values config chain.chain_id takes, one per start
  InitialBlock,  \* config chain.initial_block
  MaxBlock,      \* bound on the cursor
  ParentOpens,   \* has the state path a parent that can be opened?
  MaxFaults,     \* bound on kills, power losses and errors of persist
  MaxMisreads    \* bound on starts that cannot read the file

NoFile == <<>>
Torn == <<"torn">>

ASSUME FileAssumption ==
  /\ InitialBlock \in 0 .. MaxBlock /\ ParentOpens \in BOOLEAN
  /\ MaxBlock \in Nat /\ MaxFaults \in Nat /\ MaxMisreads \in Nat

VARIABLES
  file,        \* what programs find under the path of the state file
  onDisk,      \* what a power loss may leave there
  tmp,         \* the temporary file, NoFile if there is none
  synced,      \* has the temporary file been synced?
  pc,          \* the step persist is at, "run" between two, "down"
  chain_id,
  last_synced,
  state,       \* what persist serialized
  confirmed,   \* last block of the last persist whose directory sync worked
  faults,
  misreads     \* starts so far that could not read the file

vars == <<file, onDisk, tmp, synced, pc, chain_id, last_synced, state,
          confirmed, faults, misreads>>

store == <<chain_id, last_synced>>

Steps == {"create", "write", "sync", "rename", "syncDir"}

Blocks == 0 .. MaxBlock

-----------------------------------------------------------------------------
(* Faulty variants: the bugs the checked properties are meant to catch.    *)

SyncForgotten ==
  /\ pc = "sync" /\ pc' = "rename"
  /\ UNCHANGED <<file, onDisk, tmp, synced, store, state, confirmed, faults, misreads>>

SyncDirForgotten ==
  /\ pc = "syncDir" /\ pc' = "run"
  /\ confirmed' = state[2]
  /\ UNCHANGED <<file, onDisk, tmp, synced, store, state, faults, misreads>>

AnyChain(id) == TRUE

LoadIgnoresCursor(id) ==
  /\ pc = "down" /\ file # NoFile /\ file # Torn /\ file[1] = id
  /\ pc' = "run"
  /\ chain_id' = id /\ last_synced' = InitialBlock
  /\ UNCHANGED <<file, onDisk, tmp, synced, state, confirmed, faults, misreads>>

-----------------------------------------------------------------------------
Fault == faults < MaxFaults /\ faults' = faults + 1

\* The file is there and parses.
Readable == file # NoFile /\ file # Torn

Init ==
  /\ file = NoFile /\ onDisk = {NoFile} /\ tmp = NoFile /\ synced = FALSE
  /\ pc = "down" /\ chain_id \in ChainIds /\ last_synced = 0
  /\ state = NoFile /\ confirmed = 0 /\ faults = 0 /\ misreads = 0

-----------------------------------------------------------------------------
(* StateStore::load.                                                       *)

\* A file of another chain stops the start.
SameChain(id) == file[1] = id

LoadFile(id) ==
  /\ pc = "down" /\ Readable
  /\ SameChain(id)
  /\ pc' = "run"
  /\ chain_id' = id /\ last_synced' = file[2]
  /\ UNCHANGED <<file, onDisk, tmp, synced, state, confirmed, faults, misreads>>

\* No file, or one that does not parse.
LoadFresh(id) ==
  /\ pc = "down" /\ ~Readable
  /\ InitialBlock > 0
  /\ pc' = "run"
  /\ chain_id' = id /\ last_synced' = InitialBlock
  /\ UNCHANGED <<file, onDisk, tmp, synced, state, confirmed, faults, misreads>>

\* The file cannot be read, for another reason than that there is none: a
\* start like the one without a file, and without the check of the chain.
LoadUnreadable(id) ==
  /\ pc = "down"
  /\ misreads < MaxMisreads /\ misreads' = misreads + 1
  /\ InitialBlock > 0
  /\ pc' = "run"
  /\ chain_id' = id /\ last_synced' = InitialBlock
  /\ UNCHANGED <<file, onDisk, tmp, synced, state, confirmed, faults>>

\* StateStore::update: a fetch_max.
update(block) ==
  /\ pc = "run" /\ block > last_synced
  /\ last_synced' = block
  /\ UNCHANGED <<file, onDisk, tmp, synced, pc, chain_id, state, confirmed,
                 faults, misreads>>

-----------------------------------------------------------------------------
(* StateStore::persist.                                                    *)

Persist ==
  /\ pc = "run"
  /\ pc' = "create"
  /\ state' = store
  /\ UNCHANGED <<file, onDisk, tmp, synced, store, confirmed, faults, misreads>>

\* File::create truncates what an earlier persist may have left.
Create ==
  /\ pc = "create"
  /\ pc' = "write"
  /\ tmp' = Torn /\ synced' = FALSE
  /\ UNCHANGED <<file, onDisk, store, state, confirmed, faults, misreads>>

Write ==
  /\ pc = "write"
  /\ pc' = "sync"
  /\ tmp' = state
  /\ UNCHANGED <<file, onDisk, synced, store, state, confirmed, faults, misreads>>

Sync ==
  /\ pc = "sync"
  /\ pc' = "rename"
  /\ synced' = TRUE
  /\ UNCHANGED <<file, onDisk, tmp, store, state, confirmed, faults, misreads>>

\* Programs see the new file at once; the disk may hold the directory entry
\* before or after it, and of a file that is not synced any part.
Rename ==
  /\ pc = "rename"
  /\ pc' = "syncDir"
  /\ file' = tmp
  /\ onDisk' = onDisk \union {tmp} \union (IF synced THEN {} ELSE {Torn})
  /\ tmp' = NoFile
  /\ UNCHANGED <<synced, store, state, confirmed, faults, misreads>>

SyncDir ==
  /\ pc = "syncDir" /\ ParentOpens
  /\ pc' = "run"
  /\ onDisk' = {file}
  /\ confirmed' = state[2]
  /\ UNCHANGED <<file, tmp, synced, store, state, faults, misreads>>

\* The directory cannot be opened or synced: persist succeeds all the same.  The
\* parent of a path that is a file name only is "", which is never opened.
SyncDirFails ==
  /\ pc = "syncDir"
  /\ IF ParentOpens THEN Fault ELSE UNCHANGED faults
  /\ pc' = "run"
  /\ UNCHANGED <<file, onDisk, tmp, synced, store, state, confirmed, misreads>>

\* Any other step fails: the temporary file is removed, if it can be, and the
\* next persist tries again.
Fails ==
  /\ pc \in Steps \ {"syncDir"}
  /\ Fault
  /\ pc' = "run"
  /\ tmp' \in {tmp, NoFile}
  /\ UNCHANGED <<file, onDisk, synced, store, state, confirmed, misreads>>

-----------------------------------------------------------------------------
(* The end of the process: at any step, since the timeout of the final     *)
(* persist drops it at any step, as a kill does.                           *)

Kill ==
  /\ pc # "down"
  /\ Fault
  /\ pc' = "down" /\ last_synced' = 0
  /\ UNCHANGED <<file, onDisk, tmp, synced, chain_id, state, confirmed, misreads>>

PowerLoss ==
  /\ Fault
  /\ pc' = "down" /\ last_synced' = 0
  /\ file' \in onDisk /\ onDisk' = {file'}
  /\ tmp' = NoFile /\ synced' = FALSE
  /\ UNCHANGED <<chain_id, state, confirmed, misreads>>

Next ==
  \/ \E id \in ChainIds : LoadFile(id) \/ LoadFresh(id) \/ LoadUnreadable(id)
  \/ \E block \in Blocks : update(block)
  \/ Persist \/ Create \/ Write \/ Sync \/ Rename \/ SyncDir
  \/ SyncDirFails \/ Fails \/ Kill \/ PowerLoss

Spec == Init /\ [][Next]_vars

-----------------------------------------------------------------------------
(* Properties.                                                             *)

\* No crash leaves a file that does not parse, which the next start would
\* take for no file at all and begin again at INITIAL_BLOCK.
NeverTorn == file # Torn /\ Torn \notin onDisk

\* A cursor whose directory sync worked survives everything: from then on the
\* file, and what a power loss makes of it, is at least as new, as long as the
\* file can be read.
ConfirmedKept ==
  misreads = 0 /\ confirmed > 0 =>
    \A f \in onDisk \union {file} : f # NoFile /\ f[2] >= confirmed

\* The cursor in memory is never behind the file that the next persist will
\* replace, however the last one ended, as long as the file can be read.
MemoryAhead == misreads = 0 /\ pc # "down" /\ Readable => last_synced >= file[2]

\* A file of one chain never becomes the file of another, on whatever chain
\* the process is started, unless a power loss took the file away before, or
\* it could not be read.
ChainKept ==
  [][misreads = 0 /\ Readable /\ Readable' => file'[1] = file[1]]_vars

\* All in all it is a file that takes the cursor in one step, as Ingestor has
\* it, and that no crash takes back further than it may.
Cell == INSTANCE CursorFile
          WITH memory <- IF pc = "down" THEN NoFile ELSE store,
               safe <- confirmed, doubt <- misreads > 0
CursorFileSpec == Cell!Spec
=============================================================================
