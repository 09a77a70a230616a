--------------------------- MODULE MCHostRuntime ---------------------------
(***************************************************************************)
(* Finite instance of HostRuntime: two session workers, so that one can    *)
(* wind down while the next starts.                                        *)
(***************************************************************************)
EXTENDS HostRuntime

CONSTANTS W1, W2

MCWorker == {W1, W2}
=============================================================================
