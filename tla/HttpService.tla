---------------------------- MODULE HttpService ----------------------------
(***************************************************************************)
(* The HTTP service: main and close of src/http-cli.ts and the timers and  *)
(* the close() of createHttpMcpServer (src/http-server.ts).  Processes of  *)
(* it start, are told to stop or die, and share one Unix socket path; each *)
(* has two timers, one for process observations (ProcessWaitDriver.tick)   *)
(* and one for the outbox (flush, then synchronizeDeliveryOutcomes).       *)
(*                                                                         *)
(* The kernel and libuv are external: binding to a path that exists fails, *)
(* closing a listening server unlinks the path it was bound to by name.    *)
(* Left out: listening on a TCP port, where there is no file; requests,    *)
(* which end when they end; a signal to a process that failed to listen,   *)
(* whose close() is rejected and ends it.                                  *)
(***************************************************************************)
EXTENDS Naturals

CONSTANTS
    Service,    \* processes of http-cli
    Absent,     \* nothing at the socket path
    Foreign     \* something else at it

ASSUME ServiceAssumption == {Absent, Foreign} \cap Service = {} /\ Absent # Foreign

VARIABLES
    endpoint,   \* the process that bound the file at the path, if any
    service,    \* each process
    \* History.
    apart       \* processes that have met no other since they started

serviceVars == <<endpoint, service, apart>>

\* How far a process is in main, or in close().
Starting == {"lstat", "unlink", "bind"}
HandlerClosed == {"draining", "backend", "removing", "closed"}
ServiceRecord ==
    [at : {"off", "listening", "failed", "settling", "handler"} \cup Starting \cup HandlerClosed,
     armed : BOOLEAN,               \* the two timers
     watching : BOOLEAN,            \* a tick is under way
     flushing : {"no", "flush", "sync"}]

HttpTypeOK ==
    /\ endpoint \in Service \cup {Absent, Foreign}
    /\ service \in [Service -> ServiceRecord]
    /\ apart \subseteq Service

Off == [at |-> "off", armed |-> FALSE, watching |-> FALSE, flushing |-> "no"]

HttpInit ==
    /\ endpoint \in {Absent, Foreign}
    /\ service = [s \in Service |-> Off]
    /\ apart = {}

-----------------------------------------------------------------------------
\* For mutation runs: close() that waits for the tick alone.
FaultSettled(s) == ~service[s].watching

-----------------------------------------------------------------------------
Goes(s, to) == service' = [service EXCEPT ![s].at = to]

Launch(s) ==
    /\ service[s].at = "off"
    /\ Goes(s, "lstat")
    /\ apart' = {s} \cap {t \in Service : \A u \in Service \ {t} : service[u].at = "off"}
    /\ UNCHANGED endpoint

\* main looks at the path, and removes a socket that is there without asking whose.
LookAt(s) ==
    /\ service[s].at = "lstat"
    /\ Goes(s, CASE endpoint = Absent -> "bind" [] endpoint = Foreign -> "failed"
                 [] OTHER -> "unlink")
    /\ UNCHANGED <<endpoint, apart>>

Unlink(s) ==
    /\ service[s].at = "unlink"
    /\ Goes(s, "bind")
    /\ endpoint' = Absent
    /\ UNCHANGED apart

\* The timers start when the server is made; then it listens, or fails.
Listen(s) ==
    /\ service[s].at = "bind"
    /\ service' = [service EXCEPT ![s].armed = TRUE,
                                  ![s].at = IF endpoint = Absent THEN "listening" ELSE "failed"]
    /\ endpoint' = IF endpoint = Absent THEN s ELSE endpoint
    /\ UNCHANGED apart

\* A timer starts nothing while its last job is under way.
TickStarts(s) ==
    /\ service[s].armed /\ ~service[s].watching
    /\ service' = [service EXCEPT ![s].watching = TRUE]
    /\ UNCHANGED <<endpoint, apart>>

TickEnds(s) ==
    /\ service[s].watching
    /\ service' = [service EXCEPT ![s].watching = FALSE]
    /\ UNCHANGED <<endpoint, apart>>

FlushStarts(s) ==
    /\ service[s].armed /\ service[s].flushing = "no"
    /\ service' = [service EXCEPT ![s].flushing = "flush"]
    /\ UNCHANGED <<endpoint, apart>>

\* The flush is over, or has failed; so has what follows it.
FlushGoesOn(s, fails) ==
    /\ service[s].flushing # "no"
    /\ service' = [service EXCEPT ![s].flushing = IF @ = "flush" /\ ~fails THEN "sync" ELSE "no"]
    /\ UNCHANGED <<endpoint, apart>>

\* The first SIGINT or SIGTERM: close() clears the timers,
Stop(s) ==
    /\ service[s].at = "listening"
    /\ service' = [service EXCEPT ![s].at = "settling", ![s].armed = FALSE]
    /\ UNCHANGED <<endpoint, apart>>

\* waits for what they have started,
Settled(s) == ~service[s].watching /\ service[s].flushing = "no"

JobsEnd(s) ==
    /\ service[s].at = "settling" /\ Settled(s)
    /\ Goes(s, "handler")
    /\ UNCHANGED <<endpoint, apart>>

\* closes the handler and the server, which unlinks the path by name,
ServerCloses(s) ==
    /\ service[s].at = "handler"
    /\ Goes(s, "draining")
    /\ endpoint' = Absent
    /\ UNCHANGED apart

\* and when the last connection has ended, the backend.
LastRequestEnds(s) ==
    /\ service[s].at = "draining"
    /\ Goes(s, "backend")
    /\ UNCHANGED <<endpoint, apart>>

BackendCloses(s) ==
    /\ service[s].at = "backend"
    /\ Goes(s, "removing")
    /\ UNCHANGED <<endpoint, apart>>

\* It removes the path, whoever's it is by then.
RemoveEndpoint(s) ==
    /\ service[s].at = "removing"
    /\ Goes(s, "closed")
    /\ endpoint' = Absent
    /\ UNCHANGED apart

\* The process ends because nothing is left to do, or is killed.
Quit(s, killed) ==
    /\ service[s].at # "off" /\ (killed \/ service[s].at \in {"failed", "closed"})
    /\ service' = [service EXCEPT ![s] = Off]
    /\ apart' = apart \ {s}
    /\ UNCHANGED endpoint

HttpNext ==
    \E s \in Service :
        \/ Launch(s) \/ LookAt(s) \/ Unlink(s) \/ Listen(s)
        \/ TickStarts(s) \/ TickEnds(s) \/ FlushStarts(s)
        \/ Stop(s) \/ JobsEnd(s) \/ ServerCloses(s) \/ LastRequestEnds(s)
        \/ BackendCloses(s) \/ RemoveEndpoint(s)
        \/ \E fails \in BOOLEAN : FlushGoesOn(s, fails)
        \/ \E killed \in BOOLEAN : Quit(s, killed)

HttpSpec == HttpInit /\ [][HttpNext]_serviceVars

-----------------------------------------------------------------------------
(* Once the handler is being closed no tick and no flush is under way, and   *)
(* none starts: neither uses a backend that is closed (Promise.all of        *)
(* close(), after clearInterval).                                            *)
JobsAreOver ==
    \A s \in Service :
        service[s].at \in {"handler"} \cup HandlerClosed =>
            /\ ~service[s].armed
            /\ ~service[s].watching /\ service[s].flushing = "no"

(* A service that has met no other while it ran is reachable at the path for *)
(* as long as it listens, whatever socket was left behind before; and it     *)
(* fails only for something else that is there.  With two at once neither    *)
(* holds: one that starts removes the other's file, and so does one that     *)
(* stops.                                                                    *)
ReachableAlone ==
    \A s \in apart :
        /\ service[s].at = "listening" => endpoint = s
        /\ service[s].at = "failed" => endpoint = Foreign
=============================================================================
