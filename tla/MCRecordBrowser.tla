--------------------------- MODULE MCRecordBrowser ----------------------------
(***************************************************************************)
(* Instances of RecordBrowser, with its client, for TLC.                    *)
(***************************************************************************)
EXTENDS RecordBrowser, TLC

CONSTANTS i, j, m, n   \* two interfaces and two names

\* Two questions that differ in the interface and in the name.
TwoQuestions == {[interface |-> i, name |-> n], [interface |-> j, name |-> m]}
===============================================================================
