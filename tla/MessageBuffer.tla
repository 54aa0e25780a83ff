---------------------------- MODULE MessageBuffer ----------------------------
(***************************************************************************)
(* The bounded FIFO buffer of src/nats/buffer.rs: a VecDeque of            *)
(* transaction messages and a capacity.  A buffer is a sequence here; its  *)
(* operations are operators on sequences, so that the publisher's actions  *)
(* can apply them to the variable they own.  pop and push_front have no    *)
(* caller in the program and are left out.                                 *)
(***************************************************************************)
EXTENDS Integers, Sequences

CONSTANT BufferCapacity   \* config nats.buffer_capacity

ASSUME BufferAssumption == BufferCapacity \in Nat

MAX_CAPACITY == 1000

\* MessageBuffer::new clamps the configured capacity.
Capacity == IF BufferCapacity < MAX_CAPACITY THEN BufferCapacity
                                             ELSE MAX_CAPACITY

-----------------------------------------------------------------------------
(* Faulty variants: the bugs the checked properties are meant to catch.    *)

IsFullOffByOne(buf) == Len(buf) > Capacity

ExtendFrontSkipsFailed(buf, msgs) == SubSeq(msgs, 2, Len(msgs)) \o buf

ExtendFrontReversed(buf, msgs) ==
  [i \in DOMAIN msgs |-> msgs[Len(msgs) + 1 - i]] \o buf

-----------------------------------------------------------------------------
IsFull(buf) == Len(buf) >= Capacity

\* push answers BufferFull and leaves a full buffer alone; its caller then
\* only logs, so the message is gone.
Push(buf, m) == IF IsFull(buf) THEN buf ELSE Append(buf, m)

\* Re-buffers what a flush could not publish, ahead of everything else and
\* without a capacity check.
ExtendFront(buf, msgs) == msgs \o buf
=============================================================================
