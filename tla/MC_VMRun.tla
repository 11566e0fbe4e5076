----------------------------- MODULE MC_VMRun -------------------------------
EXTENDS VMRun
=============================================================================
