-------------------------- MODULE InstructionLists --------------------------
(***************************************************************************)
(* common.util.ts: the lists of instructions and signers that every        *)
(* service puts together.  An instructionsAndSigners object is a record of *)
(* two sequences; a signer is compared by identity (indexOf).              *)
(***************************************************************************)
EXTENDS Naturals, SequencesExt

NoInstructions == [instructions |-> <<>>, signers |-> <<>>]

(* mergeInstructionsAndSigners: instructions may repeat, a signer of y     *)
(* joins only if it is not there yet.                                      *)
Merge(x, y) ==
  [instructions |-> x.instructions \o y.instructions,
   signers |-> FoldLeft(LAMBDA s, k : IF Contains(s, k) THEN s ELSE Append(s, k),
                        x.signers, y.signers)]

(* splitInstructionsAndSigners hands each instruction to the Builder as a  *)
(* brick of its own, with no signers.  The Builder (external) returns      *)
(* consecutive instructions packed into transactions of the size the chain *)
(* accepts, here `cap' instructions.                                       *)
Chunks(s, cap) ==
  [k \in 1..((Len(s) + cap - 1) \div cap) |->
     SubSeq(s, (k - 1) * cap + 1, Min({k * cap, Len(s)}))]

Split(x, cap) ==
  [k \in DOMAIN Chunks(x.instructions, cap) |->
     [instructions |-> Chunks(x.instructions, cap)[k], signers |-> <<>>]]
=============================================================================
