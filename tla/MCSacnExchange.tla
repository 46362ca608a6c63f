--------------------------- MODULE MCSacnExchange ---------------------------
EXTENDS SacnExchange, TLC

CONSTANTS ha, peer

MCNameOf == ha :> "HA sACN Controller" @@ peer :> "stage"

(* A common universe; one whose port address is another's universe. *)
MCSetups == {ha :> <<5>> @@ peer :> <<5>>, ha :> <<517>> @@ peer :> <<5>>}
=============================================================================
