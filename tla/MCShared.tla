------------------------------- MODULE MCShared --------------------------------
(***************************************************************************)
(* Two scrapes, two names; a leap second at the end of the second of four  *)
(* days.                                                                   *)
(***************************************************************************)
EXTENDS Shared
=============================================================================
