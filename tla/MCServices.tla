---------------------------- MODULE MCServices ----------------------------
(* One instance of each of the components that stand beside the coordinator. *)
(* They share no state, so that a behaviour is one of a single component:    *)
(* "part" says which, and the others stay as they are at first.              *)
EXTENDS ExecRuntime, ExecSocket, AccessGateway, TraceRetention, RouteIndicator,
        RouteEvidence, CompositeRoutes, CallbackNetwork, HttpService, RequestLedger, TLC

CONSTANTS ask, askElse, askTwo, bad, other, new, m1, m2, slug, slugAlias, slugTwo,
          toolOne, toolTwo

\* Requests: two payloads under one id, and a good and a bad one under another.
RequestIds == (ask :> 1 @@ askElse :> 1 @@ askTwo :> 2 @@ bad :> 2)
\* A message of each of two Chats.
MessageChats == (m1 :> other @@ m2 :> new)
\* Model names, one of them an alias, and messages in order.
ModelNames == (slug :> slug @@ slugAlias :> slug @@ slugTwo :> slugTwo)
Times == (m1 :> 1 @@ m2 :> 2 @@ None :> 0)
\* Two backends with a tool each.
OwnTools == <<{toolOne}, {toolTwo}>>

VARIABLE part

vars == <<part, execVars, socketVars, gatewayVars, traceVars, routeVars, evidenceVars,
          routesVars, networkVars, serviceVars, ledgerVars>>

ServicesInit ==
    /\ part \in {"exec", "socket", "gateway", "trace", "route", "evidence", "routes",
                "network", "http", "ledger"}
    /\ ExecInit /\ SocketInit /\ GatewayInit /\ TraceInit /\ RouteInit /\ EvidenceInit
    /\ RoutesInit /\ NetworkInit /\ HttpInit /\ LedgerInit
    /\ part # "socket" => path = NoFile
    /\ part # "http" => endpoint = Absent
    /\ part # "route" => url = Home /\ chats = Conversation

\* Steps of one part.
Only(p) ==
    /\ part = p /\ UNCHANGED part
    /\ p # "exec" => UNCHANGED execVars
    /\ p # "socket" => UNCHANGED socketVars
    /\ p # "gateway" => UNCHANGED gatewayVars
    /\ p # "trace" => UNCHANGED traceVars
    /\ p # "route" => UNCHANGED routeVars
    /\ p # "evidence" => UNCHANGED evidenceVars
    /\ p # "routes" => UNCHANGED routesVars
    /\ p # "network" => UNCHANGED networkVars
    /\ p # "http" => UNCHANGED serviceVars
    /\ p # "ledger" => UNCHANGED ledgerVars

ServicesNext ==
    \/ Only("exec") /\ ExecNext
    \/ Only("socket") /\ SocketNext
    \/ Only("gateway") /\ GatewayNext
    \/ Only("trace") /\ TraceNext
    \/ Only("route") /\ RouteNext
    \/ Only("evidence") /\ EvidenceNext
    \/ Only("routes") /\ RoutesNext
    \/ Only("network") /\ NetworkNext
    \/ Only("http") /\ HttpNext
    \/ Only("ledger") /\ LedgerNext

ServicesSpec == ServicesInit /\ [][ServicesNext]_vars

-----------------------------------------------------------------------------
(* What else holds in every state of the components: their variables have     *)
(* the types they should, a runtime's caller gets its own result and no       *)
(* request runs twice at a time, a lone runtime starts, the userscript takes  *)
(* responses in time, a call of a tool reaches its backend, a duplicate tool  *)
(* means an overlap, a callback is sent to once, in public and without a      *)
(* socket left open, and a service that stops has no job left, nor loses its  *)
(* path to anybody while it runs alone.                                       *)
ServicesSafe ==
    /\ ExecTypeOK /\ OneRunning /\ OwnResult
    /\ SocketTypeOK /\ LoneStartSucceeds
    /\ GatewayTypeOK /\ TraceTypeOK
    /\ RouteTypeOK /\ TakenInTime /\ EvidenceTypeOK
    /\ RoutesTypeOK /\ RightBackend /\ DuplicateNeedsOverlap
    /\ NetworkTypeOK /\ SentOnce /\ OnlyPublic /\ SocketsClosed
    /\ HttpTypeOK /\ JobsAreOver /\ ReachableAlone
    /\ LedgerTypeOK

(* What is recorded stays, in traces and ledgers, but for what retention may  *)
(* take; and a callback whose time is up is left alone.                       *)
ServicesKeep ==
    /\ TracePromise
    /\ TodaysRowsKept /\ ShrinkIsEnough
    /\ SilentOnceExpired
=============================================================================
