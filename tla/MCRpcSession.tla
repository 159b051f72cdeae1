---------------------------- MODULE MCRpcSession ----------------------------
\* Two sessions for three transports, each with room for one GuiRpcWorker; see
\* MCRpcSession.cfg.
EXTENDS RpcSession

CONSTANTS s1, s2, g1, g2

MCStreamer == s1 :> g1 @@ s2 :> g2
=============================================================================
