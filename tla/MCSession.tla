----------------------------- MODULE MCSession -----------------------------
(***************************************************************************)
(* Finite instance of Session: two agreements; three policies, one that    *)
(* disables reconnects, one that runs past the width of the multiplier     *)
(* before its cap, and one that is capped first.                           *)
(***************************************************************************)
EXTENDS Session

CONSTANTS A1, A2

MCAgreement == {A1, A2}
MCPolicy ==
    {[max_attempts |-> 0, initial_delay |-> 1, max_delay |-> 1],
     [max_attempts |-> 4, initial_delay |-> 1, max_delay |-> 9],
     [max_attempts |-> 3, initial_delay |-> 2, max_delay |-> 3]}
=============================================================================
