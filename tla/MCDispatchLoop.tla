--------------------------- MODULE MCDispatchLoop ---------------------------
\* An interactive and a background job compete for one permit.
EXTENDS DispatchLoop, TLC

CONSTANTS interactive, background, ffmpeg

MCResource == [j \in Jobs |-> ffmpeg]
MCPermits == [r \in Resources |-> 1]
MCRank == [j \in Jobs |-> IF j = interactive THEN 0 ELSE 2]
=============================================================================
