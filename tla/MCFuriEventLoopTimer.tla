------------------------ MODULE MCFuriEventLoopTimer -------------------------
\* Model-checking instances of FuriEventLoopTimer.
EXTENDS FuriEventLoopTimer
=============================================================================
