---------------------------- MODULE MCBlockStore ----------------------------
(* Calls, old blocks and listeners are interchangeable.                    *)
EXTENDS BlockStore, TLC

Symmetry == Permutations(Calls) \cup Permutations(OldBlocks) \cup Permutations(Listeners)
=============================================================================
