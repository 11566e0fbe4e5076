---------------------------- MODULE MC_PagePool ----------------------------
EXTENDS PagePoolClient
=============================================================================
