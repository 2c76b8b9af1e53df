----------------------------- MODULE MCPacketWalk -----------------------------
(* Captures that end in each of the headers or hold a few short submessages,  *)
(* and length fields at, just below and just above what fits.                *)
EXTENDS PacketWalk

MCCapLens == {3, 13, 17, 33, 41, 61, 62, 86, 90, 110}
MCIhls    == {4, 5, 6}
MCLengths == {0, 4, 7, 16, 20, 65535}
================================================================================
