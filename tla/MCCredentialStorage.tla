------------------------ MODULE MCCredentialStorage -------------------------
(***************************************************************************)
(* Instances of CredentialStorage for TLC: the app's own Flutter engine     *)
(* (phone) with the user's operations, and the one WorkManager starts       *)
(* (background) with a sync; or both operations in the app's own engine.    *)
(***************************************************************************)
EXTENDS CredentialStorage, TLC

CONSTANTS ui, worker, phone, background, anna, bert

TwoEngines == (ui :> phone) @@ (worker :> background)
OneEngine == (ui :> phone) @@ (worker :> phone)

\* No definition tells one account from another, and no run with this symmetry
\* checks a liveness property.
AccountSymmetry == Permutations({anna, bert})
=============================================================================
