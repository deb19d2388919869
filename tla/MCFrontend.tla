------------------------------ MODULE MCFrontend ------------------------------
(* An instance of Frontend for TLC: the two connectors of NewNetParser and a
   second TCPConnector that the program adds; three connections fill the
   channel of the first. *)
EXTENDS Frontend

MCConnectors == <<"tcp", "ws", "tcp2">>
MCNameOf == [tcp |-> "tcp_connector", ws |-> "websocket_connector", tcp2 |-> "tcp_connector"]
MCTCP == {"tcp", "tcp2"}
MCVia == <<"tcp", "tcp", "tcp", "ws">>
(* The second component of the batch has no name, so that the last is lost. *)
MCBatches == {<<"other", Nil, "lost">>}
MCRemovable == {"agents"}
MCPanicky == {"other", "discovery"}
===============================================================================
