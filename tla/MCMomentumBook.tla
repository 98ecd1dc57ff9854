-------------------------- MODULE MCMomentumBook --------------------------
EXTENDS MomentumBook
MCPrices == {-6, 4, 10}
=============================================================================
