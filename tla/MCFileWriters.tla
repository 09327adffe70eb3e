----------------------------- MODULE MCFileWriters -----------------------------
(* FileWriters for TLC: each file starts with two entries; the threads of the pool
   are interchangeable.                                                       *)
EXTENDS FileWriters, TLC

MCFiles == Whole \cup {"visuals"}
MCFirst == [f \in MCFiles |-> {1, 2}]
Symmetry == Permutations(Threads)
================================================================================
