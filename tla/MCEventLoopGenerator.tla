----------------------- MODULE MCEventLoopGenerator -------------------------
EXTENDS EventLoopGenerator
=============================================================================
