---------------------------- MODULE MCFuriThread ----------------------------
\* Model-checking instances of FuriThread.
EXTENDS FuriThread
=============================================================================
