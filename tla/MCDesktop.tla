----------------------------- MODULE MCDesktop ------------------------------
(* Two reads that share a hash, a write, and a local tool. *)
EXTENDS Desktop

CONSTANTS readA, readB, write, status

MCTool == readA :> "get_node" @@ readB :> "list_nodes" @@ write :> "set_text"
          @@ status :> "figmog_status"
MCCacheKey == readA :> "h" @@ readB :> "h" @@ write :> "w" @@ status :> "s"
MCLocal == <<"figmog_status">>
MCPrefixed == {"figmog_status", "figmog_other"}
MCCapable == {"get_node", "list_nodes"}
\* A list with a name twice and a reserved one, and one that lacks a tool.
MCToolLists == {<<"get_node", "set_text", "list_nodes", "get_node", "figmog_other">>,
                <<"get_node">>}
=============================================================================
