------------------------------ MODULE MC_Boot ------------------------------
(***************************************************************************)
(* Bundles for model checking Boot: a release A of two files, a release B  *)
(* that replaces one of them, a truncated T and an unreadable G.           *)
(***************************************************************************)
EXTENDS Boot

NewEntry(path, data) == [path |-> path, data |-> data]

MCEntries ==
  [b \in Bundles |->
     CASE b = "A" -> <<NewEntry("server", "a1"), NewEntry("page", "a2")>>
       [] b = "B" -> <<NewEntry("server", "b1")>>
       [] b = "T" -> <<NewEntry("server", "t1")>>
       [] OTHER -> <<>>]

\* The processes are told apart by nothing but what they have done.
Symmetry == Permutations(Procs)

ASSUME ToldApartAssumption == ToldApart

=============================================================================
