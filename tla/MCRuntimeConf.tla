---------------------------- MODULE MCRuntimeConf ----------------------------
(* Instances of RuntimeConf: the CPU load profiler, whose only check is the wait, and *)
(* the memory profiler, with two checked stages, built with and without threading.   *)
EXTENDS RuntimeConf

Both        == {"cpu_load_profiler", "memory_profiler"}
BothBuilds  == {Both, {"cpu_load_profiler"}}
CpuThreaded == {{"cpu_load_profiler"}}
MemRechecks == {"memory_profiler"}
StageCounts == [p \in Profilers |-> IF p \in Rechecks THEN 2 ELSE 1]
CpuOnly     == {"cpu_load_profiler"}
Nothing     == {}
=============================================================================
