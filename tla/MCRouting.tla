----------------------------- MODULE MCRouting ------------------------------
(* Two files and one client with every kind of invocation. *)
EXTENDS Routing

CONSTANTS a, b, c1

Cmd(kind, tool, file, url, direct) ==
    [kind |-> kind, tool |-> tool, file |-> file, url |-> url, direct |-> direct]

MCCommands ==
    {Cmd("read", "figmog_status", None, None, FALSE),
     Cmd("read", "figmog_node", None, b, FALSE),
     Cmd("read", "figmog_node", None, None, TRUE),
     Cmd("images", "figmog_images", None, None, FALSE),
     Cmd("call", "figmog_sync", None, None, FALSE),
     Cmd("call", "figmog_open", b, None, FALSE),
     Cmd("call", "figmog_open", None, None, FALSE),
     Cmd("call", "figmog_files", None, None, FALSE),
     Cmd("call", "figmog_status", b, None, FALSE),
     Cmd("call", "get_code", None, None, FALSE)}

MCStarts ==
    {[db |-> None, files |-> <<>>, watch |-> TRUE],
     [db |-> None, files |-> <<a>>, watch |-> TRUE],
     [db |-> None, files |-> <<b, a>>, watch |-> TRUE],
     [db |-> a, files |-> <<a>>, watch |-> FALSE]}

\* figmog serve --db .figmog/a/db --no-watch
MCStartsDb == {[db |-> a, files |-> <<>>, watch |-> FALSE]}
=============================================================================
