------------------------------ MODULE MCDocker ------------------------------
EXTENDS Docker
=============================================================================
