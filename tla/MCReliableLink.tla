---------------------------- MODULE MCReliableLink ----------------------------
EXTENDS ReliableLink
================================================================================
