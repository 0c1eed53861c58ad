---------------------------- MODULE MCLifecycle ----------------------------
(* Instances of Lifecycle for TLC.                                         *)
EXTENDS Lifecycle

CONSTANTS e1, e2

MCPartChoices == {{"response_bodies"}}
=============================================================================
