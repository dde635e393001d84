----------------------------- MODULE MCGuiServer -----------------------------
(***************************************************************************)
(* One client that connects at any moment of a symbol's two order events   *)
(* and two bars, or of a bar, ticks and the infos made at them; and the    *)
(* end of the program with a client and busy workers.  Other instances     *)
(* have two clients that are destroyed next to each other.                 *)
(***************************************************************************)
EXTENDS GuiServer
==============================================================================
