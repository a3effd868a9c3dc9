-------------------------- MODULE MCCronScheduler --------------------------
(* CronScheduler with two gateways and two rows, one of them broken. *)
EXTENDS CronScheduler

CONSTANTS g1, g2, t1, t2
=============================================================================
