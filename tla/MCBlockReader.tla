---------------------------- MODULE MCBlockReader ----------------------------
(***************************************************************************)
(* Instances of BlockReader for TLC: three logs in block 1, of two         *)
(* transactions at most (the first is called 10), one log each in blocks 2 *)
(* and 3.  The last one has any of the Types, the others are published or  *)
(* fail somewhere.                                                         *)
(***************************************************************************)
EXTENDS BlockReader

\* All that is known, the one of the README's table that is not, and an event
\* of some other contract.
Types == NoxEvent \union {"PlaintextToEncrypted", "Approval"}

Kinds == {k \in [event : {"Add"}, decodes : BOOLEAN, placed : BOOLEAN] :
            k.decodes \/ k.placed}

LastKinds == [event : Types, decodes : {TRUE}, placed : {TRUE}]

Positions == {<<1, 0>>, <<1, 1>>, <<1, 2>>, <<2, 0>>, <<3, 0>>}

SmallChains ==
  {{[block |-> p[1], idx |-> p[2], tx |-> IF p[1] = 1 THEN tx[p[2]] ELSE p[1] + 10] @@
      (IF p = <<3, 0>> THEN last ELSE kind[p]) : p \in Positions} :
     kind \in [Positions \ {<<3, 0>>} -> Kinds], last \in LastKinds,
     tx \in {t \in [0 .. 2 -> {10, 11}] : t[0] = 10}}
=============================================================================
