----------------------------- MODULE Selection ------------------------------
(***************************************************************************)
(* The loop by which internal/proxy.go picks providers out of              *)
(* Gateway.activeProviders: it goes through a sequence and appends what it *)
(* likes.  (SelectSeq says the same; the provers know nothing about it.)   *)
(***************************************************************************)
EXTENDS Integers, Sequences

\* What is selected after each number of iterations.
SelectedUpto(s, S) ==
    LET upto[i \in 0 .. Len(s)] ==
            IF i = 0 THEN <<>>
            ELSE IF s[i] \in S THEN Append(upto[i - 1], s[i]) ELSE upto[i - 1]
    IN  upto

\* The members of s that are in S, in the order of s.
Selected(s, S) == SelectedUpto(s, S)[Len(s)]
=============================================================================
