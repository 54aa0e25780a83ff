------------------------------ MODULE CursorFile ------------------------------
(***************************************************************************)
(* What the main loop relies on when it persists its cursor: a file that a *)
(* process reads when it starts and that takes the cursor in memory in one *)
(* step.  The file is cached: a power loss may bring an earlier cursor     *)
(* back, of the same chain, but not one behind what was confirmed.  Once a *)
(* start has failed to read the file, all of this is in doubt.             *)
(* StateFile is how the code makes such a file; Ingestor uses it.          *)
(***************************************************************************)
EXTENDS Integers

CONSTANTS ChainIds, InitialBlock

VARIABLES
  file,     \* <<chain, block>>, None if there is no file
  memory,   \* the same for the running process, None without one
  safe,     \* a block the file will never be behind, 0 if there is none
  doubt     \* has a start failed to read the file, or may it have?

None == <<>>
Cursors == ChainIds \X Nat

Init ==
  /\ file \in Cursors \union {None}
  /\ memory = None
  /\ safe = 0
  /\ doubt \in BOOLEAN

\* A process resumes where the file is, if it is the file of its chain.
Load ==
  /\ memory = None /\ file # None
  /\ memory' = file
  /\ UNCHANGED <<file, safe, doubt>>

\* There is no file, or it cannot be read.
Fresh(id) ==
  /\ memory = None
  /\ \/ file = None /\ UNCHANGED doubt
     \/ doubt' = TRUE
  /\ memory' = <<id, InitialBlock>>
  /\ UNCHANGED <<file, safe>>

Advance ==
  /\ memory # None
  /\ memory' \in Cursors /\ memory'[1] = memory[1] /\ memory'[2] > memory[2]
  /\ UNCHANGED <<file, safe, doubt>>

Save ==
  /\ memory # None
  /\ file' = memory
  /\ UNCHANGED <<memory, safe, doubt>>

Confirm ==
  /\ memory # None /\ file # None
  /\ safe' = file[2]
  /\ UNCHANGED <<file, memory, doubt>>

\* The process ends, with or without a last save.
Stop ==
  /\ memory # None
  /\ file' \in {file, memory}
  /\ memory' = None
  /\ UNCHANGED <<safe, doubt>>

\* A power loss.
Rewind ==
  /\ \/ file' = None /\ safe = 0
     \/ /\ file # None /\ file' \in Cursors
        /\ file'[1] = file[1] /\ safe <= file'[2] /\ file'[2] <= file[2]
     \/ doubt /\ file' \in Cursors \union {None}
  /\ memory' = None
  /\ UNCHANGED <<safe, doubt>>

Next ==
  \/ Load \/ (\E id \in ChainIds : Fresh(id))
  \/ Advance \/ Save \/ Confirm \/ Stop \/ Rewind

cvars == <<file, memory, safe, doubt>>

Spec == Init /\ [][Next]_cvars
=============================================================================
