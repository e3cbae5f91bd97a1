--------------------------- MODULE MCConversations ---------------------------
(* An instance of Conversations for TLC: an admin, and the member who      *)
(* sends the message.                                                      *)
EXTENDS Conversations

CONSTANTS a, b, m1, r1, h1, h2

MCPeople   == {a, b}
MCMessages == {m1}
MCRosters  == {{b}, {a, b}}
MCAuthor   == [m \in {m1} |-> b]
=============================================================================
