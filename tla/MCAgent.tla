------------------------------- MODULE MCAgent -------------------------------
(* Two chats that share the breaker.  One retry is enough for a stream     *)
(* that breaks, restarts and meets a circuit the other chat has opened.    *)
EXTENDS Agent
=============================================================================
