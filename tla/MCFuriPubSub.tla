---------------------------- MODULE MCFuriPubSub ----------------------------
\* Model-checking instance of FuriPubSub.
EXTENDS FuriPubSub
=============================================================================
