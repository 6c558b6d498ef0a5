----------------------------- MODULE McpRefresh -----------------------------
(***************************************************************************)
(* One MCP server: its list of tools, which it may change at any time, the *)
(* client's copy in the tool registry (tools/mcp-client.ts), and what the  *)
(* model is told of it (tools/mcp-client-manager.ts). Both refreshes       *)
(* coalesce the requests that come while they run.                         *)
(***************************************************************************)
EXTENDS Integers

CONSTANTS
    MaxVersion,    \* bound: changes of the server's list
    MaxRequests,   \* bound: context refreshes that others ask for
    ChangesEarly,  \* may the list change while it is discovered?
    Faulty         \* may a refresh fail?

ASSUME RefreshConstants ==
    {MaxVersion, MaxRequests} \subseteq Nat /\ {ChangesEarly, Faulty} \subseteq BOOLEAN

VARIABLES
    version, notices,   \* of the server: its list, and notifications under way
    discoverPc, discovered,
    refreshPc,          \* isRefreshingTools and where the loop is
    pendingTool, listed,
    registry,           \* versions of the list whose tools are registered
    contextPc,          \* isRefreshingMcpContext
    pendingContext,
    context,            \* what the model was told
    asked,              \* context refreshes asked for by others
    lost                \* history: a refresh failed

toolListVars == <<version, notices, discoverPc, discovered, refreshPc, pendingTool, listed,
                  registry, contextPc, pendingContext, context, asked, lost>>
contextVars == <<contextPc, pendingContext>>

McpInit ==
    /\ version = 0 /\ notices = 0
    /\ discoverPc = "listing" /\ discovered = 0
    /\ refreshPc = "off" /\ pendingTool = FALSE /\ listed = 0
    /\ registry = {} /\ contextPc = "off" /\ pendingContext = FALSE /\ context = {}
    /\ asked = 0 /\ lost = FALSE

\* scheduleMcpContextRefresh: a refresh that runs has another one follow it.
ScheduleContext ==
    IF contextPc = "off" THEN contextPc' = "reading" /\ pendingContext' = FALSE
    ELSE pendingContext' = TRUE /\ UNCHANGED contextPc

-----------------------------------------------------------------------------
ServerChanges ==
    /\ version < MaxVersion /\ (discoverPc = "done" \/ ChangesEarly)
    /\ version' = version + 1 /\ notices' = notices + 1
    /\ UNCHANGED <<discoverPc, discovered, refreshPc, pendingTool, listed, registry,
                   contextVars, context, asked, lost>>

\* The notification arrives: refreshTools starts, or notes that it must go on.
Notify ==
    /\ notices > 0 /\ notices' = notices - 1
    /\ IF refreshPc = "off" THEN refreshPc' = "listing" /\ pendingTool' = FALSE
       ELSE pendingTool' = TRUE /\ UNCHANGED refreshPc
    /\ UNCHANGED <<version, discoverPc, discovered, listed, registry, contextVars, context, asked, lost>>

\* discoverInto: the list is read, its tools are registered after another pause.
DiscoverList ==
    /\ discoverPc = "listing" /\ discovered' = version /\ discoverPc' = "listed"
    /\ UNCHANGED <<version, notices, refreshPc, pendingTool, listed, registry, contextVars,
                   context, asked, lost>>

DiscoverRegister ==
    /\ discoverPc = "listed" /\ discoverPc' = "done"
    /\ registry' = registry \cup {discovered}
    /\ ScheduleContext
    /\ UNCHANGED <<version, notices, discovered, refreshPc, pendingTool, listed, context, asked, lost>>

\* The server answers tools/list.
List ==
    /\ refreshPc \in {"listing", "relisting"} /\ listed' = version
    /\ refreshPc' = IF refreshPc = "listing" THEN "listed" ELSE "relisted"
    /\ UNCHANGED <<version, notices, discoverPc, discovered, pendingTool, registry, contextVars,
                   context, asked, lost>>

Verifies == registry = {listed} /\ ~pendingTool

\* Nothing changed: the list is asked for once more.
VerifyList ==
    /\ refreshPc = "listed" /\ Verifies
    /\ refreshPc' = "relisting"
    /\ UNCHANGED <<version, notices, discoverPc, discovered, pendingTool, listed, registry,
                   contextVars, context, asked, lost>>

\* The tools are replaced; the loop waits until the model has been told.
Replace ==
    /\ refreshPc = "relisted" \/ (refreshPc = "listed" /\ ~Verifies)
    /\ registry' = {listed} /\ refreshPc' = "telling"
    /\ ScheduleContext
    /\ UNCHANGED <<version, notices, discoverPc, discovered, pendingTool, listed, context, asked, lost>>

NextListing(more) == IF more THEN "listing" ELSE "off"

Told ==
    /\ refreshPc = "told" /\ refreshPc' = NextListing(pendingTool) /\ pendingTool' = FALSE
    /\ UNCHANGED <<version, notices, discoverPc, discovered, listed, registry, contextVars,
                   context, asked, lost>>

\* An error or a timeout of the list: the loop ends.
ListFails ==
    /\ Faulty /\ refreshPc \in {"listing", "relisting"} /\ refreshPc' = "off" /\ lost' = TRUE
    /\ UNCHANGED <<version, notices, discoverPc, discovered, pendingTool, listed, registry,
                   contextVars, context, asked>>

-----------------------------------------------------------------------------
\* Others ask too: memory, extensions, a server that was disconnected.
AskContext ==
    /\ asked < MaxRequests /\ asked' = asked + 1 /\ ScheduleContext
    /\ UNCHANGED <<version, notices, discoverPc, discovered, refreshPc, pendingTool, listed,
                   registry, context, lost>>

\* wrong: who waits for the refresh is not woken
ContextEndsAlone == contextPc' = "off" /\ UNCHANGED refreshPc

\* The end of pendingRefreshPromise, which the tool loop awaits
ContextEnds ==
    /\ contextPc' = "off" /\ refreshPc' = IF refreshPc = "telling" THEN "told" ELSE refreshPc

\* wrong: no refresh follows the one that runs
TrailingNever == FALSE

\* A request came while the refresh ran.
Trailing == pendingContext

\* refreshMcpContext reads the registry; a request that came meanwhile is
\* served after a pause.
ReadContext ==
    /\ contextPc = "reading" /\ context' = registry /\ contextPc' = "read"
    /\ UNCHANGED <<version, notices, discoverPc, discovered, refreshPc, pendingTool, listed,
                   registry, pendingContext, asked, lost>>

ContextDone ==
    /\ contextPc = "read"
    /\ IF Trailing THEN contextPc' = "pausing" /\ UNCHANGED refreshPc ELSE ContextEnds
    /\ UNCHANGED <<version, notices, discoverPc, discovered, pendingTool, listed, registry,
                   pendingContext, context, asked, lost>>

ContextAgain ==
    /\ contextPc = "pausing" /\ contextPc' = "reading" /\ pendingContext' = FALSE
    /\ UNCHANGED <<version, notices, discoverPc, discovered, refreshPc, pendingTool, listed,
                   registry, context, asked, lost>>

ContextFails ==
    /\ Faulty /\ contextPc \in {"reading", "read"} /\ ContextEnds /\ lost' = TRUE
    /\ UNCHANGED <<version, notices, discoverPc, discovered, pendingTool, listed, registry,
                   pendingContext, context, asked>>

McpStep ==
    \/ Notify \/ DiscoverList \/ DiscoverRegister \/ List \/ VerifyList \/ Replace \/ Told
    \/ ListFails \/ ReadContext \/ ContextDone \/ ContextAgain \/ ContextFails

McpNext == ServerChanges \/ AskContext \/ McpStep

McpSpec == McpInit /\ [][McpNext]_toolListVars

-----------------------------------------------------------------------------
\* Every variable keeps its type.
McpTypeOK ==
    /\ version \in Nat /\ notices \in Nat /\ discovered \in Nat /\ listed \in Nat /\ asked \in Nat
    /\ discoverPc \in {"listing", "listed", "done"}
    /\ refreshPc \in {"off", "listing", "listed", "relisting", "relisted", "telling", "told"}
    /\ contextPc \in {"off", "reading", "read", "pausing"}
    /\ pendingTool \in BOOLEAN /\ pendingContext \in BOOLEAN /\ lost \in BOOLEAN
    /\ registry \in SUBSET Nat /\ context \in SUBSET Nat

Quiet ==
    /\ notices = 0 /\ discoverPc = "done" /\ refreshPc = "off" /\ contextPc = "off"

\* mcp-client.ts: no notification of a burst is lost to the coalescing. When
\* all is quiet the model knows the server's last list, and no other.
ToldOfLast == Quiet /\ ~lost => context = {version}

\* Every refresh that was asked for is over some time.
RefreshEnds == notices > 0 \/ refreshPc # "off" \/ pendingContext ~> refreshPc = "off" /\ contextPc = "off"
=============================================================================
