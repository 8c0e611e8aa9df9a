------------------------------- MODULE Scraping --------------------------------
(***************************************************************************)
(* One scrape of one collector: env is the outcome of every read it makes, *)
(* any of them; out is what it has put in the channel so far, and what it  *)
(* has returned, "none" before it has.                                     *)
(***************************************************************************)
EXTENDS Collection

VARIABLES env, out

Unscraped == [sent |-> {}, ret |-> "none"]

(* The samples join those in the channel.                                  *)
SendMore(samples) == out' = [out EXCEPT !.sent = @ \cup samples]
=============================================================================
