---------------------------- MODULE MCSshBackend ----------------------------
EXTENDS SshBackend
=============================================================================
