---------------------------- MODULE MCActionThreads -----------------------------
(***************************************************************************)
(* Small instances of ActionThreads.                                       *)
(***************************************************************************)
EXTENDS ActionThreads, TLC

\* All actions compete for the store of one name.
SameName == [a \in Action |-> CHOOSE n \in Name : TRUE]

\* Actions are only compared for equality, and all have the same name.
Symmetric == Permutations(Action)
=================================================================================
