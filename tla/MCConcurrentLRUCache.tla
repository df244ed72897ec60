------------------------ MODULE MCConcurrentLRUCache ------------------------
(***************************************************************************)
(* ConcurrentLRUCache on small instances.  Threads and keys are            *)
(* interchangeable, and so are the addresses of list nodes: `new' is made  *)
(* to return the lowest free one.                                          *)
(***************************************************************************)
EXTENDS ConcurrentLRUCache, TLC

Symmetry == Permutations(Thread) \cup Permutations(Key)

LowestFree == \A n \in Node :
    m_key[n] = NoKey /\ m_key'[n] # NoKey => \A m \in 1 .. n - 1 : m_key[m] # NoKey
=============================================================================
