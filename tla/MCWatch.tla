-------------------------------- MODULE MCWatch --------------------------------
(* Instances of Watch, with the transaction of a tick, for TLC.            *)
EXTENDS WatchTrace

(* A negative phase time, and two readings that can be told apart.         *)
MCReadings == {-1, 1, 2}
===============================================================================
