------------------------------ MODULE MCInspector ------------------------------
(* baz with the writer pong reads, and pong with its writer for another topic.  *)
EXTENDS Inspector, TLC

CONSTANTS pong, baz, baz_writer, pong_writer, pong_in, lo0, en0

MCParts     == {pong, baz}
MCEndpoints == {baz_writer, pong_writer, pong_in}
MCOwner     == [e \in MCEndpoints |-> IF e = baz_writer THEN baz ELSE pong]
MCTopic     == [e \in MCEndpoints |->
                  IF e \in {baz_writer, pong_in} THEN "BazPongTopic" ELSE "PongBazTopic"]
MCIsPub     == [e \in MCEndpoints |-> e \in {baz_writer, pong_writer}]
MCIfaces    == {lo0, en0}

(* Nothing tells the interfaces apart. *)
MCSymmetry  == Permutations(MCIfaces)
================================================================================
