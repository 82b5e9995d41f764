------------------------------- MODULE MCMimir -------------------------------
(***************************************************************************)
(* The bar with one core, two interfaces and a disk.                       *)
(***************************************************************************)
EXTENDS Mimir

CONSTANTS lan, wifi

MCOrder == <<"cpu", "net", "disk">>
MCWarn == [b \in {"cpu", "disk"} |-> 50]
MCCritical == [b \in {"cpu", "disk"} |-> 90]
=============================================================================
