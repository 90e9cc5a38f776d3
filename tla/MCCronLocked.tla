---------------------------- MODULE MCCronLocked ----------------------------
(* Two states on one store and one on another.                             *)
EXTENDS CronLocked

CONSTANTS a, b, c, shared, other

MCStates == {a, b, c}
MCStores == {shared, other}
MCStorePath == [s \in MCStates |-> IF s = c THEN other ELSE shared]
=============================================================================
