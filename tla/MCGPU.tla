------------------------------- MODULE MCGPU -------------------------------
(***************************************************************************)
(* Hosts for the runs of GPU: two GPUs of one type, or of two.             *)
(***************************************************************************)
EXTENDS GPU

Card(u, t) == [l \in Labels |-> IF l = "UUID" THEN u ELSE t]

MCHosts == {<<Card("u1", "A"), Card("u2", t)>> : t \in {"A", "B"}}
=============================================================================
