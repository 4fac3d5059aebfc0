---------------------------- MODULE MC_OauthFlow ----------------------------
(* Two connections of which the server takes at most two, and two requests *)
(* of any kind between them.                                               *)
EXTENDS OauthFlow

CONSTANTS c1, c2

MCConns == {c1, c2}

=============================================================================
