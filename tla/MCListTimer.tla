---------------------------- MODULE MCListTimer ----------------------------
(* ListTimer with three descriptors and a clock of two units to the        *)
(* millisecond, so that a deadline may be missed by less than one.         *)
EXTENDS ListTimer
=============================================================================
