----------------------------- MODULE MCEchoSession -----------------------------
(***************************************************************************)
(* Correlations for EchoSession: one below one, and one above it and the   *)
(* threshold of the log, beside a NaN.                                     *)
(***************************************************************************)
EXTENDS EchoSession

MCMeasured == {[d \in Delays |-> IF d = 1 THEN 7 ELSE 0],
               [d \in Delays |-> IF d = 0 THEN NaN ELSE IF d = 2 THEN 30 ELSE 12]}
===============================================================================
