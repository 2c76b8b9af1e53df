----------------------------- MODULE MCReaderCache -----------------------------
(* Three writers, as when a writer dies and is restarted while another lives. *)
EXTENDS ReaderCache, TLC

CONSTANTS w1, w2, w3, v1, v2

MCWriters == {w1, w2, w3}
MCValues  == {v1, v2}
================================================================================
