------------------------------ MODULE MCPipeline ------------------------------
(* Pipeline with the same methods for every alarm.                         *)
EXTENDS Pipeline

MCActions == [a \in Alarms |-> Methods]
=============================================================================
