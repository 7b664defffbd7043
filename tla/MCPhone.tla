-------------------------------- MODULE MCPhone --------------------------------
(***************************************************************************)
(* What meets in one run of the phone: edits and loads; edits, a load and a    *)
(* fault; a raise with loads, an edit or a delivery; polls with a load, a fault *)
(* or a raise, and a plan whose window runs out and comes back.               *)
(***************************************************************************)
EXTENDS Phone, TLC

CONSTANTS e1, e2, w1

Budget(l, r, s, f, e, p) ==
    [loads |-> l, raises |-> r, resyncs |-> s, faults |-> f, editable |-> e, plans |-> p]

InstanceBudgets == {
    Budget(2, 0, 0, 0, {e1, e2}, {}),
    Budget(1, 0, 0, 1, {e1, e2}, {}),
    Budget(2, 0, 0, 1, {e1}, {}),
    Budget(1, 1, 0, 0, {e1}, {}),
    Budget(1, 1, 1, 0, {}, {}),
    Budget(2, 1, 0, 0, {}, {}),
    Budget(1, 1, 0, 1, {}, {}),
    Budget(0, 0, 0, 1, {}, {w1}),
    Budget(1, 0, 1, 0, {}, {w1}),
    Budget(0, 1, 0, 0, {}, {w1})}
=============================================================================
