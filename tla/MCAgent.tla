------------------------------ MODULE MCAgent ------------------------------
(* One goal, with the retry limits of the code, a tool that is registered and *)
(* one that is not; two of three commands agree in their first 64 bytes.      *)
EXTENDS Agent

CONSTANTS backup, backupToo, report

MCJobName == [c \in Commands |-> IF c = report THEN 2 ELSE 1]
=============================================================================
