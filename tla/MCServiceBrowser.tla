--------------------------- MODULE MCServiceBrowser ---------------------------
(***************************************************************************)
(* Instances of ServiceBrowser for TLC; the configurations give every       *)
(* constant its value.                                                      *)
(***************************************************************************)
EXTENDS ServiceBrowser, TLC
===============================================================================
