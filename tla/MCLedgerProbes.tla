--------------------------- MODULE MCLedgerProbes ---------------------------
(* Every study, its lists of up to four shuffled in every way.               *)
EXTENDS LedgerProbes
=============================================================================
