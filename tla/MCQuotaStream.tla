--------------------------- MODULE MCQuotaStream ----------------------------
(* QuotaStream has only numeric bounds; the cfg files give them.           *)
EXTENDS QuotaStream
=============================================================================
