--------------------------- MODULE CompositeRoutes ---------------------------
(***************************************************************************)
(* The composite backend (src/backend/composite.ts) under the requests of  *)
(* the MCP server (createMcpProtocolServer in src/server.ts): a tools/list *)
(* clears the one table of routes and fills it backend by backend, with an *)
(* await at each, while other requests look tools up in it.                *)
(*                                                                         *)
(* Arguments, results and records are left out; backends list at once or   *)
(* fail, and the tool of a call may be known to none.                      *)
(***************************************************************************)
EXTENDS Naturals, Sequences, FiniteSets

CONSTANTS
    Caller,         \* requests: lists and calls
    Tool, NoTool,   \* NoTool: the request is a list
    Offered         \* what each backend lists, in order

ASSUME RoutesAssumption ==
    /\ NoTool \notin Tool
    /\ Offered \in Seq(SUBSET Tool)
    /\ \A i, j \in DOMAIN Offered : i # j => Offered[i] \cap Offered[j] = {}

VARIABLES
    routes,     \* #routes: the backend of a tool, 0 if there is none
    asker,      \* where each request is
    \* History.
    overlapped, \* requests that were pending while another one listed
    broken      \* a list has broken off since one last began alone

routesVars == <<routes, asker, overlapped, broken>>

Backend == DOMAIN Offered
\* "listing" awaits listTools of backend next.
Asker == [at : {"off", "ready", "listing", "looking", "called", "listed", "unavailable",
                "duplicate", "failed"},
          tool : Tool \cup {NoTool}, next : 1..(Len(Offered) + 1), backend : 0..Len(Offered)]
NoAsker == [at |-> "off", tool |-> NoTool, next |-> 1, backend |-> 0]

RoutesTypeOK ==
    /\ routes \in [Tool -> 0..Len(Offered)]
    /\ asker \in [Caller -> Asker]
    /\ overlapped \subseteq Caller /\ broken \in BOOLEAN

RoutesInit ==
    /\ routes = [t \in Tool |-> 0]
    /\ asker = [c \in Caller |-> NoAsker]
    /\ overlapped = {} /\ broken = FALSE

-----------------------------------------------------------------------------
\* For mutation runs.
FaultMustList(c) == asker[c].tool = NoTool

-----------------------------------------------------------------------------
Listing == {c \in Caller : asker[c].at = "listing"}
Pending == {c \in Caller : asker[c].at \in {"ready", "listing", "looking"}}
\* A request that starts to list overlaps with all that are under way.
Overlaps(c) == IF Pending \ {c} = {} THEN overlapped ELSE overlapped \cup Pending

\* The server has taken a request.
Take(c, t) ==
    /\ asker[c].at = "off"
    /\ asker' = [asker EXCEPT ![c].at = "ready", ![c].tool = t]
    /\ overlapped' = IF Listing = {} THEN overlapped ELSE overlapped \cup {c}
    /\ UNCHANGED <<routes, broken>>

\* tools/list, and a call that finds the table empty.
MustList(c) == asker[c].tool = NoTool \/ \A t \in Tool : routes[t] = 0
Emptied == [t \in Tool |-> 0]

BeginList(c) ==
    /\ asker[c].at = "ready" /\ MustList(c)
    /\ routes' = Emptied
    /\ asker' = [asker EXCEPT ![c].at = "listing"]
    /\ overlapped' = Overlaps(c)
    /\ broken' = (broken /\ Listing # {})

Filled(i) == [t \in Tool |-> IF t \in Offered[i] THEN i ELSE routes[t]]

\* listTools of a backend returns: its tools are entered up to one that is there.
ListNext(c) ==
    LET i == asker[c].next IN
    /\ asker[c].at = "listing" /\ i \in Backend
    /\ IF \E t \in Offered[i] : routes[t] # 0
       THEN /\ asker' = [asker EXCEPT ![c].at = "duplicate"]
            /\ \E some \in SUBSET {t \in Offered[i] : routes[t] = 0} :
                  routes' = [t \in Tool |-> IF t \in some THEN i ELSE routes[t]]
            /\ broken' = TRUE
       ELSE /\ asker' = [asker EXCEPT ![c].next = i + 1]
            /\ routes' = Filled(i)
            /\ UNCHANGED broken
    /\ UNCHANGED overlapped

ListFails(c) ==
    /\ asker[c].at = "listing" /\ asker[c].next \in Backend
    /\ asker' = [asker EXCEPT ![c].at = "failed"]
    /\ broken' = TRUE
    /\ UNCHANGED <<routes, overlapped>>

EndList(c) ==
    /\ asker[c].at = "listing" /\ asker[c].next \notin Backend
    /\ asker' = [asker EXCEPT ![c].at = IF asker[c].tool = NoTool THEN "listed" ELSE "looking"]
    /\ UNCHANGED <<routes, overlapped, broken>>

\* callTool looks the tool up.
Lookup(c) ==
    LET b == routes[asker[c].tool] IN
    /\ asker[c].at = "looking" \/ (asker[c].at = "ready" /\ ~MustList(c))
    /\ asker' = [asker EXCEPT ![c].at = IF b = 0 THEN "unavailable" ELSE "called",
                              ![c].backend = b]
    /\ UNCHANGED <<routes, overlapped, broken>>

\* The answer goes out; the next request may come.
Finished(c) ==
    /\ asker[c].at \in {"called", "listed", "unavailable", "duplicate", "failed"}
    /\ asker' = [asker EXCEPT ![c] = NoAsker]
    /\ overlapped' = overlapped \ {c}
    /\ UNCHANGED <<routes, broken>>

RoutesNext ==
    \E c \in Caller :
        \/ BeginList(c) \/ ListNext(c) \/ ListFails(c) \/ EndList(c) \/ Lookup(c) \/ Finished(c)
        \/ \E t \in Tool \cup {NoTool} : Take(c, t)

RoutesSpec == RoutesInit /\ [][RoutesNext]_routesVars

-----------------------------------------------------------------------------
(* Whatever lists overlap or break off halfway, a call reaches only the      *)
(* backend that has its tool.                                                *)
RightBackend ==
    \A c \in Caller : asker[c].at = "called" => asker[c].tool \in Offered[asker[c].backend]

(* Two lists that overlap may take each other's entries for duplicates, but  *)
(* a request that no other one's list overlaps with never does.              *)
DuplicateNeedsOverlap ==
    \A c \in Caller : asker[c].at = "duplicate" => c \in overlapped

(* A tool that some backend has is reported as not available only to a call  *)
(* that another request's list ran beside, or after a list that broke off:   *)
(* the first call lists, and a finished list leaves every tool in the table. *)
UnavailableNeedsOverlap ==
    [][\A c \in Caller :
          /\ asker[c].at # "unavailable" /\ asker'[c].at = "unavailable"
          /\ \E i \in Backend : asker[c].tool \in Offered[i]
          => c \in overlapped \/ broken]_routesVars
=============================================================================
