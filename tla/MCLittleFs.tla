---------------------------- MODULE MCLittleFs ----------------------------
(***************************************************************************)
(* LittleFs on a flash of a few blocks.                                    *)
(***************************************************************************)
EXTENDS LittleFs, TLC

\* Neither names nor contents are compared but for equality.
NameSymmetry == Permutations(Names) \cup Permutations(Units)
=============================================================================
