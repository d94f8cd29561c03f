-------------------------- MODULE MCRemoteCommand --------------------------
EXTENDS RemoteCommand

CONSTANTS lead, helper
=============================================================================
