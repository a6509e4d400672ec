---------------------------- MODULE MCCxlMemory ----------------------------
(***************************************************************************)
(* An instance of CxlMemory for model checking.  The BAR is larger than    *)
(* what a lower register can hold, so that its size fixes bits of the      *)
(* upper one too, and the guest moves it between two places.               *)
(***************************************************************************)
EXTENDS CxlMemory

Op(op, val, cond) == [op |-> op, val |-> val, cond |-> cond]

\* One operation that stores and answers nothing, one that may store and one
\* that always does, both answered with data.  The atomic one adds 1, modulo 2.
MCOperations == {Op("write", 1, 0), Op("condswap", 1, 0), Op("atomic", 1, 1)}
=============================================================================
