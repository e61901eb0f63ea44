----------------------------- MODULE MCQuotaService -----------------------------
(* Small instances of QuotaService for TLC.                                *)
EXTENDS QuotaService, TLC

CONSTANTS h1, h2

MCHandlers == {h1, h2}
MCAmounts  == {1, 2}
MCLimits   == {1, 2}

HandlerSymmetry == Permutations(MCHandlers)

=============================================================================
