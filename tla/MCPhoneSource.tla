--------------------------- MODULE MCPhoneSource ---------------------------
(***************************************************************************)
(* Small instances of the threads of a source.  The number of thread ids   *)
(* bounds the threads at a time only: an id is used again after a join.    *)
(***************************************************************************)
EXTENDS PhoneSource, TLC

\* 9000 may be one of the ports that a phone advertises.
OnePort == {9000}
TwoPorts == {9000, 9002}

\* Ids of one pool are alike.
Symmetry ==
    {n @@ r @@ s : n \in Permutations(Nets), r \in Permutations(Recs),
                   s \in Permutations(Shakes)}
=============================================================================
