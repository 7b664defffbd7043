--------------------------- MODULE WatchFacePromise ---------------------------
(***************************************************************************)
(* What the watch app promises about taking over the watch face: only after *)
(* an explicit Use, with at most one permission request and one activation  *)
(* attempt, and none once the request was refused.                          *)
(***************************************************************************)
EXTENDS Naturals

VARIABLES
    used,       \* whether the user has asked to use the face
    asked,      \* permission requests made
    attempted,  \* activations attempted
    refused     \* whether a permission request was refused

vars == <<used, asked, attempted, refused>>

Init == used = FALSE /\ asked = 0 /\ attempted = 0 /\ refused = FALSE

Use == used' = TRUE /\ UNCHANGED <<asked, attempted, refused>>

Request ==
    /\ used /\ asked = 0 /\ attempted = 0
    /\ asked' = 1
    /\ UNCHANGED <<used, attempted, refused>>

Refuse ==
    /\ used /\ asked = 1
    /\ refused' = TRUE
    /\ UNCHANGED <<used, asked, attempted>>

Attempt ==
    /\ used /\ attempted = 0 /\ ~refused
    /\ attempted' = 1
    /\ UNCHANGED <<used, asked, refused>>

Next == Use \/ Request \/ Refuse \/ Attempt

Spec == Init /\ [][Next]_vars
=============================================================================
