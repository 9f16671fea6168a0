----------------------------- MODULE MCAlertLog -----------------------------
(* AlertLog for TLC: two databases that share a log file.                  *)
EXTENDS AlertLog

CONSTANTS db1, db2

TwoDatabases == {db1, db2}
=============================================================================
