---------------------------- MODULE MCWorkspace -----------------------------
EXTENDS Workspace
=============================================================================
