------------------------------ MODULE JetStream ------------------------------
(***************************************************************************)
(* The NATS JetStream server as the ingestor uses it: a stream that stores *)
(* one copy of every message whose Nats-Msg-Id it does not remember.  The  *)
(* server is not part of the repository: what it does is taken from how    *)
(* Publisher::do_publish uses it (header Nats-Msg-Id, one awaited ack per  *)
(* message) and from the duplicate_window NatsClient::setup_stream asks    *)
(* for.                                                                    *)
(*                                                                         *)
(* A message is a natural number: its transaction's position in the chain. *)
(***************************************************************************)
EXTENDS Integers, Sequences, Functions

CONSTANT ChainId          \* config chain.chain_id

VARIABLES
  stream,   \* every message stored since the stream exists, in stored order
  window,   \* the Msg-Ids the server still remembers
  wire      \* published messages whose fate the publisher does not know

jsVars == <<stream, window, wire>>

Stored == Range(stream)

-----------------------------------------------------------------------------
(* Faulty variant: an id that does not tell the transactions apart.        *)

checksumOfChainOnly(m) == <<ChainId, 0>>

-----------------------------------------------------------------------------
\* TransactionMessage::compute_checksum: keccak256 of "chain_id:tx_hash",
\* which tells transactions apart and nothing else.
compute_checksum(m) == <<ChainId, m>>

\* The server receives m: it stores m, or recognises a duplicate and stores
\* nothing.  It acknowledges either way.
Accept(m) ==
  IF compute_checksum(m) \in window
  THEN UNCHANGED <<stream, window>>
  ELSE /\ stream' = Append(stream, m)
       /\ window' = window \union {compute_checksum(m)}

\* duplicate_window has passed since the message was stored.
Forget(id) ==
  /\ id \in window
  /\ window' = window \ {id}
  /\ UNCHANGED <<stream, wire>>
=============================================================================
