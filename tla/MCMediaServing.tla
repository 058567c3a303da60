--------------------------- MODULE MCMediaServing ---------------------------
EXTENDS MediaServing, MCMediaReconciliation
=============================================================================
