------------------------------ MODULE MCNumaMon ------------------------------
(* NumaMon for TLC: two processes, and the threads of each.                *)
EXTENDS NumaMon, TLC

CONSTANTS p1, p2, t1, t2

MCProcOf == [t \in Tids |-> IF t = t1 THEN p1 ELSE p2]

\* Threads and memory share no state but the list of processes: a behaviour
\* has one of them at work.
OneHalf == used = {} \/ \A p \in Procs, n \in Nodes : pages[p][n] = 0
============================================================================
