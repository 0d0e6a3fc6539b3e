--------------------------- MODULE MCMcpDiscovery ---------------------------
(* A configuration of three servers for TLC.                                 *)
EXTENDS McpDiscovery

CONSTANTS revision, search, open, other, bad

\* The first speaks both lifecycles, the second only the old one, the third anything.
MCSpeaks == <<Era, {"legacy"}, Era>>
MCVersions == <<revision, None, revision>>

ToolOf(name, body) == [name |-> name, body |-> body]

\* As many tools as there may be pages; as many as there may be tools, which is too many
\* when each has a page of its own; neither in the order of the names.
MCCatalog ==
    << <<ToolOf(2, search), ToolOf(1, open), ToolOf(3, search)>>,
       <<ToolOf(4, open), ToolOf(2, open), ToolOf(3, open), ToolOf(1, open)>>,
       <<>> >>

\* Whole catalogs, cursors that come back, a name declared twice, no tools at all, too
\* many, and a declaration that is refused.
MCRoguePages ==
    {[tools |-> <<ToolOf(1, open)>>, next |-> None],
     [tools |-> <<ToolOf(1, other)>>, next |-> 1],
     [tools |-> <<ToolOf(2, open), ToolOf(3, open)>>, next |-> 2],
     [tools |-> <<>>, next |-> 3],
     [tools |-> <<ToolOf(4, open), ToolOf(5, open)>>, next |-> None],
     [tools |-> <<ToolOf(6, bad)>>, next |-> None]}

MCRejected == {ToolOf(6, bad)}
=============================================================================
