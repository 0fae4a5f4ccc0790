--------------------------- MODULE MCCorrelationScan ---------------------------
(* CorrelationScan with correlations of both signs.                         *)
EXTENDS CorrelationScan

MCCorrelations == {-1, 0, 1, 2}
===============================================================================
