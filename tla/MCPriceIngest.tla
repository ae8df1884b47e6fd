---------------------------- MODULE MCPriceIngest ----------------------------
\* The instance of PriceIngest that TLC checks; its values are in the cfg.
EXTENDS PriceIngest
=============================================================================
