------------------------------ MODULE MCRestore ------------------------------
EXTENDS Restore

MCCounts == {5, 6}
MCFaults == {"lost", "write", "index"}
=============================================================================
