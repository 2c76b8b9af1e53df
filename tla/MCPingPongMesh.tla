---------------------------- MODULE MCPingPongMesh ----------------------------
EXTENDS PingPongMesh
================================================================================
