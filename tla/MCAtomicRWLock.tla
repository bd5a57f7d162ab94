--------------------------- MODULE MCAtomicRWLock ---------------------------
(* Three threads: the fewest for which a reader can overtake a waiting     *)
(* writer while another reader holds the lock.                             *)
EXTENDS AtomicRWLock
=============================================================================
