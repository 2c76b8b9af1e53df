------------------------------- MODULE MCWaitSet -------------------------------
(* pong.cpp: two readers in one waitset, two delivering threads.             *)
EXTENDS WaitSet

CONSTANTS ping_reader, baz_reader

MCReaders == {ping_reader, baz_reader}
MCOrder   == <<ping_reader, baz_reader>>
================================================================================
