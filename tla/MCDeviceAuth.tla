---------------------------- MODULE MCDeviceAuth ----------------------------
(* Small instances of DeviceAuth for TLC. *)
EXTENDS DeviceAuth, TLC

CONSTANTS p1, p2, t1, t2

\* Both goroutines in one process, or one in each.
MCHomes == {[t \in Threads |-> p1], [t \in Threads |-> IF t = t1 THEN p1 ELSE p2]}
=============================================================================
