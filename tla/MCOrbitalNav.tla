---------------------------- MODULE MCOrbitalNav ----------------------------
(* Small instances of OrbitalNav for TLC.                                  *)
EXTENDS OrbitalNav

MCChildIdx == {0, 1}
MCOneChild == {0}
====
