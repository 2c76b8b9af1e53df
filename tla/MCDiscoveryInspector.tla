-------------------------- MODULE MCDiscoveryInspector --------------------------
(* Two remote writers of different topics and the inspector's own reader of   *)
(* one of them: the fewest entities with a take that leaves something behind. *)
EXTENDS DiscoveryInspector

CONSTANTS ping_writer, pong_writer, inspector_reader

MCEntities == {ping_writer, pong_writer, inspector_reader}
MCOwn      == {inspector_reader}
MCKind     == [e \in Entities |-> IF e = inspector_reader THEN "sub" ELSE "pub"]
MCTopic    == [e \in Entities |-> IF e = ping_writer THEN "PingPongTopic" ELSE "PongBazTopic"]

MCOnce  == [e \in Entities |-> 1]
MCTwice == [e \in Entities |-> IF e = pong_writer THEN 2 ELSE 1]
================================================================================
