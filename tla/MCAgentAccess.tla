--------------------------- MODULE MCAgentAccess ---------------------------
(* Two servers of one agent and a terminal; a confirming and an open grant. *)
EXTENDS AgentAccess, TLC

CONSTANTS S, T, U, Agent1, J, K

MCServer == {S, T}
MCTerminal == {U}
MCKey == {J, K}
MCAgentOf == [s \in MCServer |-> Agent1]
MCOffer == {[agent |-> Agent1, keys |-> {J, K}, actions |-> {"resolve", "store"}, confirm |-> TRUE],
            [agent |-> Agent1, keys |-> {J}, actions |-> {"resolve"}, confirm |-> FALSE]}
MCServers == Permutations(MCServer)
=============================================================================
