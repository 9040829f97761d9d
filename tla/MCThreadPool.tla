---------------------------- MODULE MCThreadPool ----------------------------
(* The instance of ThreadPool for TLC. *)
EXTENDS ThreadPool

MCApps == {-1, -2}

\* A range that ends before it begins, one smaller than its grain, and one that
\* two threads cannot share evenly.
MCRanges == {[begin |-> 2, end |-> 1, grain |-> 1], [begin |-> 0, end |-> 1, grain |-> 2],
             [begin |-> 1, end |-> 4, grain |-> 1]}
=============================================================================
