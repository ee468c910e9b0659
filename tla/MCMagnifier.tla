----------------------------- MODULE MCMagnifier -----------------------------
(* Small instances of Magnifier for TLC.                                  *)
EXTENDS Magnifier
====
