--------------------------- MODULE MCAssessGraph ---------------------------
EXTENDS AssessGraph, TLC

MCReqs == 1 .. 2
MCReqOne == 1 .. 1
=============================================================================
