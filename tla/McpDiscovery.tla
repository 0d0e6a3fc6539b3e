---------------------------- MODULE McpDiscovery ----------------------------
(***************************************************************************)
(* The discovery of the configured MCP servers                             *)
(* (src/src/discovery/mcp/mod.rs, client.rs): one server after the other,  *)
(* connect, ask, page through the tools, close.                            *)
(*                                                                         *)
(* A server is an external input: it may be slow, fail, speak an older     *)
(* revision, declare nonsense, or page for ever.  Of its declarations, a   *)
(* tool is its name and whatever else it says.  What the SDK does inside a *)
(* handshake is external.                                                  *)
(***************************************************************************)
EXTENDS Naturals, FiniteSets, SequencesExt

CONSTANTS
    NumServers,  \* the configured servers, in the order of their aliases
    Speaks,      \* Speaks[s]: the lifecycles s implements
    Versions,    \* Versions[s]: the revisions s reports, or None
    Catalog,     \* Catalog[s]: the tools of s, in the order it serves them
    Rogue,       \* servers that may declare anything
    RoguePages,  \* the pages they answer with
    Rejected,    \* tools whose declaration is rejected
    MaxPages,    \* limits::MAX_TOOL_PAGES
    MaxTools,    \* limits::MAX_TOOLS_PER_SERVER
    None         \* Option::None

Server == 1..NumServers

Era == {"stateless", "legacy"}

ASSUME DiscoveryAssumption ==
    /\ NumServers \in Nat
    /\ Speaks \in [Server -> SUBSET Era]
    /\ DOMAIN Versions = Server /\ DOMAIN Catalog = Server
    /\ \A tools \in Range(Catalog) \union {page.tools : page \in RoguePages} :
        /\ tools \in Seq(Range(tools))
        /\ \A i \in DOMAIN tools : tools[i].name \in Nat
    /\ \A s \in Server : IsInjective([i \in DOMAIN Catalog[s] |-> Catalog[s][i].name])
    /\ Rogue \subseteq Server
    /\ MaxPages \in Nat \ {0} /\ MaxTools \in Nat
    /\ None \notin Nat

VARIABLES
    server,   \* the server whose turn it is
    stage,    \* where its discovery stands
    draft,    \* the DiscoveredServer it builds
    cursor,   \* list_tools: the cursor of the next page
    cursors,  \* list_tools: the cursors there were
    pages,    \* list_tools: the pages asked for
    result,   \* of introspect: "ok", "error", or None as long as it runs
    live,     \* the servers with a session that has not been closed
    late,     \* history: those whose closing failed or took too long
    fault,    \* history: a request failed or timed out, or a budget was used up
    found     \* what has been discovered

listing == <<cursor, cursors, pages>>
sessions == <<live, late>>
vars == <<server, stage, draft, listing, result, sessions, fault, found>>

------------------------------------------------------------------------------

NoDraft == [era |-> None, versions |-> None, tools |-> <<>>, warnings |-> {}]

Names(tools) == {tools[i].name : i \in DOMAIN tools}

Ended == stage \in {"done", "failed"}

Introspecting == stage \in {"versions", "identity", "page"}

Init ==
    /\ server = 1
    /\ stage = IF NumServers = 0 THEN "done" ELSE "open"
    /\ draft = NoDraft
    /\ cursor = None
    /\ cursors = {}
    /\ pages = 0
    /\ result = None
    /\ live = {}
    /\ late = {}
    /\ fault = FALSE
    /\ found = <<>>

------------------------------------------------------------------------------
(* connect                                                                   *)

Establish(era) ==
    /\ era \in Speaks[server]
    /\ live' = live \union {server}
    /\ draft' = [draft EXCEPT !.era = era]
    /\ stage' = "versions"
    /\ UNCHANGED <<server, listing, result, late, fault, found>>

\* The stateless handshake; only METHOD_NOT_FOUND leads to the other one.
Connect ==
    /\ stage = "open"
    /\ \/ Establish("stateless")
       \/ /\ "stateless" \notin Speaks[server]
          /\ stage' = "legacy"
          /\ UNCHANGED <<server, draft, listing, result, sessions, fault, found>>

\* A second transport, the session handshake.
ConnectLegacy ==
    /\ stage = "legacy"
    /\ Establish("legacy")

\* Fault: a peer that does not answer in time is taken for a legacy one.
ConnectFailsOver ==
    /\ stage \in {"open", "legacy"}
    /\ stage' = IF stage = "open" THEN "legacy" ELSE "failed"
    /\ fault' = TRUE
    /\ UNCHANGED <<server, draft, listing, result, sessions, found>>

\* Fault: a failed fallback starts over.
ConnectStartsOver ==
    /\ stage \in {"open", "legacy"}
    /\ stage' = IF stage = "open" THEN "failed" ELSE "open"
    /\ fault' = TRUE
    /\ UNCHANGED <<server, draft, listing, result, sessions, found>>

\* CONNECT_TIMEOUT, the transport cannot be opened, or any other error.
ConnectFails ==
    /\ stage \in {"open", "legacy"}
    /\ stage' = "failed"
    /\ fault' = TRUE
    /\ UNCHANGED <<server, draft, listing, result, sessions, found>>

------------------------------------------------------------------------------
(* introspect                                                                *)

\* A warning is all it takes when the server does not say which revisions it supports.
SupportedVersions ==
    /\ stage = "versions"
    /\ \/ /\ Versions[server] # None
          /\ draft' = [draft EXCEPT !.versions = Versions[server]]
          /\ UNCHANGED fault
       \/ /\ Versions[server] = None
          /\ draft' = [draft EXCEPT !.warnings = @ \union {"unreported"}]
          /\ UNCHANGED fault
       \/ /\ \E why \in {"unreported", "late"} :
                draft' = [draft EXCEPT !.warnings = @ \union {why}]
          /\ fault' = TRUE
    /\ stage' = "identity"
    /\ UNCHANGED <<server, listing, result, sessions, found>>

\* Fault: an error leaves by the question mark, before the session is closed.
FailUnclosed ==
    /\ result' = "error"
    /\ stage' = "failed"

\* introspect returns an error; the session is closed first.
FailIntrospection ==
    /\ result' = "error"
    /\ stage' = "close"

\* Instructions and identity are normalized.
ReadIdentity ==
    /\ stage = "identity"
    /\ \/ stage' = "page" /\ UNCHANGED result
       \/ server \in Rogue /\ FailIntrospection
    /\ UNCHANGED <<server, draft, listing, sessions, fault, found>>

\* What the server answers to tools/list: any part of its catalog from the cursor on.
Answers ==
    IF server \in Rogue
    THEN RoguePages
    ELSE LET from == IF cursor = None THEN 0 ELSE cursor
             size == Len(Catalog[server])
         IN  {[tools |-> SubSeq(Catalog[server], from + 1, to),
               next |-> IF to = size THEN None ELSE to] :
                 to \in {n \in 0..size : n > from \/ n = size}}

\* Fault: the page that reaches a bound is refused.
AcceptableBelow(page) ==
    /\ \A i \in DOMAIN page.tools : page.tools[i] \notin Rejected
    /\ Cardinality(Names(draft.tools \o page.tools)) = Len(draft.tools) + Len(page.tools)
    /\ Len(draft.tools) + Len(page.tools) < MaxTools

\* Every declaration is well formed and new, and they are not too many.
Acceptable(page) ==
    /\ \A i \in DOMAIN page.tools : page.tools[i] \notin Rejected
    /\ Cardinality(Names(draft.tools \o page.tools)) = Len(draft.tools) + Len(page.tools)
    /\ Len(draft.tools) + Len(page.tools) <= MaxTools

\* tools.sort_by name.  (No two of them have one.)
Sorted(tools) ==
    LET order == CHOOSE p \in Bijection(DOMAIN tools, DOMAIN tools) :
                    \A i, j \in DOMAIN tools : i < j => tools[p[i]].name < tools[p[j]].name
    IN  [i \in DOMAIN tools |-> tools[order[i]]]

\* Fault: a catalog of too many pages is cut off.
TooManyCut ==
    /\ result' = "ok"
    /\ stage' = "close"

\* The loop of list_tools goes around more than MAX_TOOL_PAGES times: an error.
TooMany == FailIntrospection

\* One turn of the loop of list_tools, if the page arrives.
ListTools ==
    /\ stage = "page"
    /\ pages' = pages + 1
    /\ \/ /\ pages' > MaxPages
          /\ TooMany
          /\ UNCHANGED <<draft, cursor, cursors>>
       \/ /\ pages' <= MaxPages
          /\ \E page \in Answers :
              LET tools == draft.tools \o page.tools
              IN  \/ /\ ~Acceptable(page) \/ page.next \in cursors
                     /\ FailIntrospection
                     /\ UNCHANGED <<draft, cursor, cursors>>
                  \/ /\ Acceptable(page) /\ page.next = None
                     /\ draft' = [draft EXCEPT !.tools = Sorted(tools)]
                     /\ result' = "ok" /\ stage' = "close"
                     /\ UNCHANGED <<cursor, cursors>>
                  \/ /\ Acceptable(page) /\ page.next \notin cursors \union {None}
                     /\ draft' = [draft EXCEPT !.tools = tools]
                     /\ cursor' = page.next
                     /\ cursors' = cursors \union {page.next}
                     /\ UNCHANGED <<result, stage>>
    /\ UNCHANGED <<server, sessions, fault, found>>

\* PAGE_TIMEOUT, or an error instead of the page.
PageFails ==
    /\ stage = "page"
    /\ pages < MaxPages
    /\ pages' = pages + 1
    /\ fault' = TRUE
    /\ FailIntrospection
    /\ UNCHANGED <<server, draft, cursor, cursors, sessions, found>>

\* SERVER_BUDGET is used up, or the peer has no protocol information.
Abandon ==
    /\ Introspecting
    /\ fault' = TRUE
    /\ FailIntrospection
    /\ UNCHANGED <<server, draft, listing, sessions, found>>

------------------------------------------------------------------------------
(* discover_over, discover                                                   *)

\* The session is closed, whatever the result, and trouble is only a warning.
Close ==
    /\ stage = "close"
    /\ \E clean \in BOOLEAN :
        /\ live' = IF clean THEN live \ {server} ELSE live
        /\ late' = IF clean THEN late ELSE late \union {server}
        /\ draft' = [draft EXCEPT !.warnings = IF clean THEN @ ELSE @ \union {"unclean"}]
    /\ stage' = "closed"
    /\ UNCHANGED <<server, listing, result, fault, found>>

\* The first server that cannot be discovered ends it; else the next one has its turn.
Continue ==
    /\ stage = "closed"
    /\ \/ /\ result = "error"
          /\ stage' = "failed"
          /\ UNCHANGED <<server, draft, listing, result, found>>
       \/ /\ result = "ok"
          /\ found' = Append(found, draft)
          /\ server' = server + 1
          /\ stage' = IF server = NumServers THEN "done" ELSE "open"
          /\ draft' = NoDraft
          /\ cursor' = None /\ cursors' = {} /\ pages' = 0
          /\ result' = None
    /\ UNCHANGED <<sessions, fault>>

Next ==
    \/ Connect
    \/ ConnectLegacy
    \/ ConnectFails
    \/ SupportedVersions
    \/ ReadIdentity
    \/ ListTools
    \/ PageFails
    \/ Abandon
    \/ Close
    \/ Continue

\* Every wait is bounded by a timeout, so something always happens.
Spec == Init /\ [][Next]_vars /\ WF_vars(Next)

------------------------------------------------------------------------------

Tool == UNION ({Range(Catalog[s]) : s \in Server} \union {Range(page.tools) : page \in RoguePages})

Draft ==
    [era : Era \union {None}, versions : Range(Versions) \union {None}, tools : Seq(Tool),
     warnings : SUBSET {"unreported", "late", "unclean"}]

\* The shapes of what is read, within the bounds of limits.rs.
TypeOK ==
    /\ server \in 1..NumServers + 1
    /\ stage \in {"open", "legacy", "versions", "identity", "page", "close", "closed", "done", "failed"}
    /\ draft \in Draft /\ Len(draft.tools) <= MaxTools
    /\ found \in Seq(Draft) /\ \A s \in DOMAIN found : Len(found[s].tools) <= MaxTools
    /\ cursor = None \/ cursor \in cursors
    /\ pages \in 0..MaxPages + 1
    /\ result \in {None, "ok", "error"}
    /\ live \subseteq Server /\ late \subseteq Server
    /\ fault \in BOOLEAN

\* What is recorded of a server is all it declares, however it pages, and no name
\* stands for two declarations; the revisions it supports are left out, which moves its
\* fingerprint, only with a warning; and what is returned is all the servers.
Whole ==
    /\ \A s \in DOMAIN found :
        /\ s \notin Rogue => found[s].tools = Sorted(Catalog[s])
        /\ Cardinality(Names(found[s].tools)) = Len(found[s].tools)
        /\ found[s].era = "stateless" =>
            found[s].versions = Versions[s] \/ found[s].warnings \intersect {"unreported", "late"} # {}
    /\ stage = "done" => Len(found) = NumServers

\* A server is never recorded in another era than the newest it speaks, however slow
\* or troubled the connection was (client.rs: only the peer can trigger the fallback).
EraIsSpoken ==
    \A s \in DOMAIN found :
        found[s].era = IF "stateless" \in Speaks[s] THEN "stateless" ELSE "legacy"

\* One session at a time, and none is left when discovery returns, unless the server
\* would not close it.
SessionsClosed ==
    live \subseteq late \union (IF Ended \/ stage \in {"open", "legacy"} THEN {} ELSE {server})

\* A sound server is never refused: if nothing failed or was slow, the server was rogue,
\* declared a tool that is rejected, or is too large to describe, which one of exactly
\* MaxTools tools in exactly MaxPages pages is not.
RefusedForAReason ==
    stage = "failed" =>
        \/ fault
        \/ server \in Rogue
        \/ Len(Catalog[server]) > MaxTools
        \/ pages > MaxPages /\ Len(Catalog[server]) > MaxPages
        \/ Range(Catalog[server]) \intersect Rejected # {}

\* Discovery ends, whatever the servers do.
Settles == <>[]Ended

==============================================================================
