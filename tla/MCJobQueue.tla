----------------------------- MODULE MCJobQueue -----------------------------
(* Instances of JobQueue for TLC.                                          *)
EXTENDS JobQueue, TLC

\* Pool threads are interchangeable, and so are request threads.
Symmetry == Permutations(Worker) \union Permutations(Client)
=============================================================================
