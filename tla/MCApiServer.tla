----------------------------- MODULE MCApiServer -----------------------------
(* Small instances of the parts of ApiServer. *)
EXTENDS ApiServer, TLC

CONSTANTS alice, chat, s1, s2

(* one actor with two sockets, and one bucket of two tokens *)
TabsActor == s1 :> alice @@ s2 :> alice
TabsCapacity == chat :> 2
TabsRefill == chat :> 2

MCCasts == {{"page", "tabs", "call"}, {"visitor", "call"}, {"bot"}}
=============================================================================
