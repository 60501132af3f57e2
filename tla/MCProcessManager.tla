--------------------------- MODULE MCProcessManager ---------------------------
(* A small instance of ProcessManager: a process of the first configuration, which *)
(* takes time to load, and one of both, which is restarted when it dies and takes   *)
(* none: a restart that is never initialized would excuse every start.              *)
EXTENDS ProcessManager

MCConfig == [a \in Apps |-> IF a = 0 THEN {0} ELSE {0, 1}]
MCLoad == [a \in Apps |-> IF a = 0 THEN 1 ELSE 0]
MCTerminate == [a \in Apps |-> a]
MCRestart == [a \in Apps |-> a = 1]
================================================================================
