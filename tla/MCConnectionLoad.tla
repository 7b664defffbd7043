--------------------------- MODULE MCConnectionLoad ---------------------------
(***************************************************************************)
(* Two loads of the foreground engine and one of the headless one.          *)
(***************************************************************************)
EXTENDS ConnectionLoad, TLC

CONSTANTS fg, bg, f1, f2, b1, a1, a2

InstanceLoads == {f1, f2, b1}
InstanceRepositoryOf == [l \in Loads |-> IF l = b1 THEN bg ELSE fg]
InstanceMaxLoads == [i \in Repositories |-> IF i = fg THEN 2 ELSE 1]

\* Accounts are interchangeable, and so are the loads of one engine.
InstanceSymmetry == Permutations({f1, f2}) \cup Permutations(Accounts)
=============================================================================
