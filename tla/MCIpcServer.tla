---------------------------- MODULE MCIpcServer ----------------------------
EXTENDS IpcServer
=============================================================================
