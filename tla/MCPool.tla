------------------------------- MODULE MCPool -------------------------------
(***************************************************************************)
(* An instance of ConnectionPool for TLC.  Liveness is checked, so the     *)
(* requests are not declared symmetric.                                    *)
(***************************************************************************)
EXTENDS ConnectionPool, TLC

ASSUME PoolIsSized == PoolAssumption
=============================================================================
