------------------------------ MODULE MCPiSeat ------------------------------
\* Two prompts, of which a late cancel may meet the second.
EXTENDS PiSeat
=============================================================================
