------------------------------- MODULE MCGuiWire -------------------------------
(***************************************************************************)
(* Two connections: pings around an options request, and a malformed       *)
(* request before a ping.  A peek sees one and a half pings.               *)
(***************************************************************************)
EXTENDS GuiWire

Ping == [kind |-> "ping", size |-> 2]
Options == [kind |-> "options", size |-> 4]
Malformed == [kind |-> "malformed", size |-> 1]

MCRequests == {<<Ping, Options, Ping>>, <<Ping, Malformed, Ping>>}
MCOutputs == <<"message", "array", "message">>
===============================================================================
