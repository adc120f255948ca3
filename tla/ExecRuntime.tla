---------------------------- MODULE ExecRuntime ----------------------------
(***************************************************************************)
(* The exec runtime (src/exec-runtime-server.ts) and the client that calls *)
(* it (callExecRuntimeSocket): one request per connection, a memo of calls *)
(* by request id with a life time and a size, callers that give up while   *)
(* their command goes on, and a runtime that dies.                         *)
(*                                                                         *)
(* Calls of the backend are numbered as they are started, which is also    *)
(* the insertion order of the memo: a set of call numbers is enough.  A    *)
(* caller that gives up while its command runs is forgotten: the response  *)
(* is then only logged as dropped.                                         *)
(***************************************************************************)
EXTENDS Naturals, FiniteSets

CONSTANTS
    Connection,
    Request, NoRequest,     \* what the fingerprint tells apart
    IdOf,           \* the request id of each
    Malformed,      \* those in a frame that is too long, no JSON or no request
    MaxEntries,     \* IDEMPOTENCY_MAX_ENTRIES
    MaxCalls        \* bound: calls of the backend by one instance

ASSUME ExecAssumption ==
    /\ NoRequest \notin Request
    /\ Malformed \subseteq Request
    /\ MaxEntries \in Nat \ {0}
    /\ MaxCalls \in Nat

VARIABLES
    calls,      \* calls of the backend by this instance, by number
    memo,       \* the numbers that its memo holds
    conn        \* both ends of each connection

execVars == <<calls, memo, conn>>

Number == 1..MaxCalls
\* A result or an error is fresh at first, and old after IDEMPOTENCY_TTL_MS.
Completed == {"fresh", "old"}
CallRecord == [state : {"unused", "running"} \cup Completed,
               request : Request \cup {NoRequest}]
\* What the server has made of the request; open until the caller hangs up.
ConnRecord == [at : {"idle", "unread", "executing", "answered", "refused"}, open : BOOLEAN,
               request : Request \cup {NoRequest}, call : 0..MaxCalls]

NoCall == [state |-> "unused", request |-> NoRequest]
NoConn == [at |-> "idle", open |-> FALSE, request |-> NoRequest, call |-> 0]

ExecTypeOK ==
    /\ calls \in [Number -> CallRecord]
    /\ memo \subseteq Number
    /\ conn \in [Connection -> ConnRecord]

ExecInit ==
    /\ calls = [k \in Number |-> NoCall]
    /\ memo = {}
    /\ conn = [c \in Connection |-> NoConn]

-----------------------------------------------------------------------------
\* For mutation runs.
FaultExcess(live) == Cardinality(live) + 1 - MaxEntries

-----------------------------------------------------------------------------
\* Entries the size limit may push out, and how many it has to.
Expendable(live) == {k \in live : calls[k].state \in Completed}
Excess(live) == Cardinality(live) - MaxEntries

\* pruneMemo: what is over its life time goes, then the oldest completed ones.
Pruned ==
    LET live == {k \in memo : calls[k].state # "old"}
        rank(k) == Cardinality({j \in Expendable(live) : j <= k})
    IN  {k \in live : k \in Expendable(live) => rank(k) > Excess(live)}

\* parseExecRuntimeRequest takes the frame.
Accepted(c) == conn[c].request \notin Malformed

SameId(c, k) == IdOf[calls[k].request] = IdOf[conn[c].request]
SameRequest(c, k) == calls[k].request = conn[c].request

\* The next number for a call of the backend.
NextNumber(k) ==
    /\ calls[k].state = "unused"
    /\ \A j \in Number : j < k => calls[j].state # "unused"

\* The frame of a call is written to a connection of its own.
Send(c, request) ==
    /\ conn[c].at = "idle"
    /\ conn' = [conn EXCEPT ![c] = [at |-> "unread", open |-> TRUE, request |-> request,
                                    call |-> 0]]
    /\ UNCHANGED <<calls, memo>>

\* A response is written unless the caller has destroyed the socket.
Written(c, kind) ==
    [conn EXCEPT ![c] = IF conn[c].open THEN [conn[c] EXCEPT !.at = kind] ELSE NoConn]

\* fail(): a protocol error.
Refuse(c) ==
    /\ conn[c].at = "unread"
    /\ ~Accepted(c)
    /\ conn' = Written(c, "refused")
    /\ UNCHANGED <<calls, memo>>

\* executeOnce finds the id in its memo.
Reuse(c, k) ==
    /\ conn[c].at = "unread"
    /\ Accepted(c)
    /\ k \in Pruned
    /\ SameId(c, k)
    /\ memo' = Pruned
    /\ conn' = IF SameRequest(c, k)
               THEN [conn EXCEPT ![c].at = "executing", ![c].call = k]
               ELSE Written(c, "refused")
    /\ UNCHANGED calls

\* executeOnce calls the backend.
StartCall(c, k) ==
    /\ conn[c].at = "unread"
    /\ Accepted(c)
    /\ \A j \in Pruned : ~SameId(c, j)
    /\ NextNumber(k)
    /\ calls' = [calls EXCEPT ![k] = [state |-> "running", request |-> conn[c].request]]
    /\ memo' = Pruned \cup {k}
    /\ conn' = [conn EXCEPT ![c].at = "executing", ![c].call = k]

\* The backend answers or fails: either is remembered.
CallEnds(k) ==
    /\ calls[k].state = "running"
    /\ calls' = [calls EXCEPT ![k].state = "fresh"]
    /\ UNCHANGED <<memo, conn>>

GrowOld(k) ==
    /\ calls[k].state = "fresh"
    /\ calls' = [calls EXCEPT ![k].state = "old"]
    /\ UNCHANGED <<memo, conn>>

Emit(c) ==
    /\ conn[c].at = "executing"
    /\ calls[conn[c].call].state \in Completed
    /\ conn' = Written(c, "answered")
    /\ UNCHANGED <<calls, memo>>

\* The caller settles with the response: a result, or an error of any kind.
Receive(c) ==
    /\ conn[c].open
    /\ conn[c].at \in {"answered", "refused"}
    /\ conn' = [conn EXCEPT ![c] = NoConn]
    /\ UNCHANGED <<calls, memo>>

\* Timeout, socket error or close: the caller destroys the socket and settles.
\* A request that was written is handled all the same, a command goes on.
GiveUp(c) ==
    /\ conn[c].open
    /\ conn' = [conn EXCEPT ![c] = IF conn[c].at = "unread"
                                  THEN [conn[c] EXCEPT !.open = FALSE] ELSE NoConn]
    /\ UNCHANGED <<calls, memo>>

\* The runtime dies and is started again with an empty memo; callers see
\* their connections close.
Restart ==
    /\ calls' = [k \in Number |-> NoCall]
    /\ memo' = {}
    /\ conn' = [c \in Connection |-> NoConn]

ServeStep(c) ==
    \/ Refuse(c) \/ Emit(c)
    \/ \E k \in Number : Reuse(c, k) \/ StartCall(c, k)

\* callTool of the client: one request for a call, and one way or another to an end;
\* repeating a call is up to those above it.
CallerStep(c) == Receive(c) \/ GiveUp(c) \/ \E request \in Request : Send(c, request)

ExecNext ==
    \/ Restart
    \/ \E c \in Connection : ServeStep(c) \/ CallerStep(c)
    \/ \E k \in Number : CallEnds(k) \/ GrowOld(k)

ExecSpec == ExecInit /\ [][ExecNext]_execVars

-----------------------------------------------------------------------------
(* One instance never runs two commands for one request id at a time, however *)
(* often callers give up and repeat it (executeOnce, pruneMemo).              *)
OneRunning ==
    \A j, k \in Number :
        /\ calls[j].state = "running" /\ calls[k].state = "running"
        /\ IdOf[calls[j].request] = IdOf[calls[k].request]
        => j = k

(* Whoever is given a response for a call asked for exactly that call: two   *)
(* payloads under one id never share a result (the fingerprint).             *)
OwnResult ==
    \A c \in Connection :
        conn[c].at \in {"executing", "answered"} =>
            calls[conn[c].call].request = conn[c].request

(* An instance executes a request id again only when the earlier result has  *)
(* grown too old or has been pushed out by MaxEntries other calls (the memo  *)
(* of executeOnce and the two loops of pruneMemo).                           *)
RepeatsAreForgotten ==
    [][\A j, k \in Number :
          /\ calls[k].state = "unused" /\ calls'[k].state = "running"
          /\ calls[j].state # "unused" /\ IdOf[calls[j].request] = IdOf[calls'[k].request]
          => /\ calls[j].state # "running"
             /\ \/ calls[j].state = "old"
                \/ MaxEntries <= Cardinality({i \in Number \ {j} :
                                                calls[i].state # "unused"})]_execVars
=============================================================================
