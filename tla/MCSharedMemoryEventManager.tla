---------------------- MODULE MCSharedMemoryEventManager ----------------------
(* Instances of SharedMemoryEventManager, with its refinement, for TLC. *)
EXTENDS EventStoreRefinement, TLC

\* Buffers are interchangeable; threads are not, FirstThread is special.
BufSymmetry == Permutations(Buf)
=============================================================================
