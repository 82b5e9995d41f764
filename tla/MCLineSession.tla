---------------------------- MODULE MCLineSession ----------------------------
EXTENDS LineSession, TLC

CONSTANTS x, e_acute, wide_blank

\* U+3000, the ideographic space, has three bytes.
MCWidth == x :> 1 @@ e_acute :> 2 @@ wide_blank :> 3
=============================================================================
