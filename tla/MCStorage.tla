----------------------------- MODULE MCStorage -----------------------------
(* Instances of Storage for TLC, with the reports over its tables.         *)
EXTENDS Reports

CONSTANTS e1, e2

\* The rows FindCachedResponse and the usage reports join.
MCPartChoices == {{}, {"response_bodies", "usage_logs"}}

\* An answer of a provider and its replay, whose model is not known.
MCRow == [e \in Exchanges |->
            IF e = e1
            THEN [model |-> "m", provider |-> "p", fromCache |-> FALSE, tokens |-> 3]
            ELSE [model |-> "", provider |-> "p", fromCache |-> TRUE, tokens |-> 5]]
=============================================================================
