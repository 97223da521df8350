----------------------- MODULE MCEventLoopCoroutine -------------------------
EXTENDS EventLoopCoroutine

MCDelays == {-1, 0, 2}
=============================================================================
