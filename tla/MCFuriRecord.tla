---------------------------- MODULE MCFuriRecord ----------------------------
\* Model-checking instance of FuriRecord.
EXTENDS FuriRecord
=============================================================================
