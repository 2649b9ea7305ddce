---------------------------- MODULE MCDocPipeline ----------------------------
(* Instances of DocPipeline for TLC.                                         *)
EXTENDS DocPipeline

CONSTANTS q1, q2, w1, w2
=============================================================================
