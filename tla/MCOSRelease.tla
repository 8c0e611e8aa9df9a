---------------------------- MODULE MCOSRelease ----------------------------
(***************************************************************************)
(* Contents of os-release files for the runs of OSRelease.                 *)
(***************************************************************************)
EXTENDS OSRelease

File(n, v) == [release |-> [name |-> n, number |-> v], fails |-> "no"]
Fails(call) == [release |-> Blank, fails |-> call]

All == {File("A", 1), File("B", 0), File("C", 4), Fails("parse"), Fails("open")}
Broken == {File("A", 1), Fails("parse")}
=============================================================================
