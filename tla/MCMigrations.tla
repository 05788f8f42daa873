---------------------------- MODULE MCMigrations ------------------------------
(***************************************************************************)
(* Instance of Migrations for TLC: a roll-out from an image with two files *)
(* to one with three.                                                      *)
(***************************************************************************)
EXTENDS Migrations

CONSTANT Old  \* the replica that still has the old image

RollOut(r) == IF r = Old THEN 2 ELSE 3
==============================================================================
