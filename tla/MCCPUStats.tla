----------------------------- MODULE MCCPUStats -----------------------------
(***************************************************************************)
(* Machines for the runs of CPUStats: two CPUs of which only the idle time *)
(* is looked at, and one CPU with another counter beside it.               *)
(***************************************************************************)
EXTENDS CPUStats, TLC

TwoCPUs == [cpus |-> {0, 1}, modes |-> {"idle"}, max |-> 2]
TwoModes == [cpus |-> {0}, modes |-> {"idle", "user"}, max |-> 3]

AllMachines == {TwoCPUs, TwoModes}
OneMachine == {TwoModes}

ScrapesAreAlike == Permutations(Scrapes)
=============================================================================
