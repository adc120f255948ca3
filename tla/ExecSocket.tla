----------------------------- MODULE ExecSocket -----------------------------
(***************************************************************************)
(* The socket file of the exec runtime (listen, removeStaleSocket and      *)
(* close of src/exec-runtime-server.ts, main of src/exec-runtime-cli.ts):  *)
(* several instances start, die, are told to stop, and share one path.     *)
(*                                                                         *)
(* The kernel and libuv are external: connecting to a file nobody listens  *)
(* on is refused, binding to a path that exists fails, closing a listening *)
(* server unlinks the path it was bound to by name.                        *)
(***************************************************************************)
EXTENDS Naturals

CONSTANTS
    Instance,       \* processes of exec-runtime-cli
    NoFile,         \* nothing at the path
    NotASocket      \* something else at the path

ASSUME SocketAssumption == {NoFile, NotASocket} \cap Instance = {} /\ NoFile # NotASocket

VARIABLES
    path,       \* the instance that bound the file at the path, if any
    run,        \* what each instance is doing in listen()
    stop,       \* what it is doing in close()
    hung,       \* instances that are suspended and accept nothing
    \* History.
    seen,       \* who was listening when an instance looked, and is ever since
    alone       \* instances that have met no other since they started

socketVars == <<path, run, stop, hung, seen, alone>>

RunState == {"off", "lstat", "probing", "removing", "binding", "listening", "closed",
             "failed"}
StopState == {"no", "draining", "removing", "done"}

SocketTypeOK ==
    /\ path \in Instance \cup {NoFile, NotASocket}
    /\ run \in [Instance -> RunState]
    /\ stop \in [Instance -> StopState]
    /\ hung \cup alone \subseteq Instance
    /\ seen \in [Instance -> SUBSET Instance]

SocketInit ==
    /\ path \in {NoFile, NotASocket}
    /\ run = [i \in Instance |-> "off"]
    /\ stop = [i \in Instance |-> "no"]
    /\ hung = {}
    /\ seen = [i \in Instance |-> {}]
    /\ alone = {}

-----------------------------------------------------------------------------
Listeners == {i \in Instance : run[i] = "listening"}
IsSocket == path \in Instance

\* For mutation runs.
FaultVerdict == IF path \in Listeners \ hung THEN "live" ELSE "stale"

-----------------------------------------------------------------------------
\* What connecting to the path tells: it is accepted, gets no answer in 500 ms, or
\* is refused because nobody listens there or the file is gone.
Verdict ==
    IF path \in Listeners \ hung THEN "live"
    ELSE IF path \in Listeners THEN "unknown" ELSE "stale"

Start(i) ==
    /\ run[i] = "off"
    /\ run' = [run EXCEPT ![i] = "lstat"]
    /\ alone' = {i} \cap {j \in Instance : \A k \in Instance \ {j} : run[k] = "off"}
    /\ UNCHANGED <<path, stop, hung, seen>>

\* removeStaleSocket looks at what is there,
Lstat(i) ==
    /\ run[i] = "lstat"
    /\ run' = [run EXCEPT ![i] = IF path = NoFile THEN "binding"
                                 ELSE IF IsSocket THEN "probing" ELSE "failed"]
    /\ UNCHANGED <<path, stop, hung, seen, alone>>

\* connects to it,
Probe(i) ==
    /\ run[i] = "probing"
    /\ run' = [run EXCEPT ![i] = IF Verdict = "stale" THEN "removing" ELSE "failed"]
    /\ seen' = [seen EXCEPT ![i] = Listeners]
    /\ UNCHANGED <<path, stop, hung, alone>>

\* and removes it.
RemoveFile(i) ==
    /\ run[i] = "removing"
    /\ path' = NoFile
    /\ run' = [run EXCEPT ![i] = "binding"]
    /\ UNCHANGED <<stop, hung, seen, alone>>

\* bind and listen, or EADDRINUSE.
Bind(i) ==
    /\ run[i] = "binding"
    /\ IF path = NoFile
       THEN /\ path' = i
            /\ run' = [run EXCEPT ![i] = "listening"]
            /\ seen' = [j \in Instance |-> seen[j] \ {i}]
       ELSE run' = [run EXCEPT ![i] = "failed"] /\ UNCHANGED <<path, seen>>
    /\ UNCHANGED <<stop, hung, alone>>

\* The first SIGINT or SIGTERM.  Before the server listens, close() only runs
\* beside what is left of listen().
Signal(i) ==
    /\ run[i] # "off" /\ stop[i] = "no" /\ i \notin hung
    /\ IF run[i] = "listening"
       THEN /\ run' = [run EXCEPT ![i] = "closed"]
            /\ stop' = [stop EXCEPT ![i] = "draining"]
            /\ path' = NoFile           \* unlinked by name
       ELSE stop' = [stop EXCEPT ![i] = "removing"] /\ UNCHANGED <<path, run>>
    /\ UNCHANGED <<hung, seen, alone>>

\* The last connection has ended.
Drained(i) ==
    /\ stop[i] = "draining"
    /\ stop' = [stop EXCEPT ![i] = "removing"]
    /\ UNCHANGED <<path, run, hung, seen, alone>>

\* close() removes the path, whoever's it is.
CloseRemove(i) ==
    /\ stop[i] = "removing" /\ i \notin hung
    /\ path' = NoFile
    /\ stop' = [stop EXCEPT ![i] = "done"]
    /\ UNCHANGED <<run, hung, seen, alone>>

\* The process ends because nothing is left to do, or is killed.
Exit(i, killed) ==
    /\ run[i] # "off"
    /\ killed \/ (run[i] \in {"closed", "failed"} /\ stop[i] \in {"no", "done"})
    /\ run' = [run EXCEPT ![i] = "off"]
    /\ stop' = [stop EXCEPT ![i] = "no"]
    /\ hung' = hung \ {i}
    /\ alone' = alone \ {i}
    /\ UNCHANGED <<path, seen>>

Suspend(i) ==
    /\ run[i] = "listening"
    /\ hung' = IF i \in hung THEN hung \ {i} ELSE hung \cup {i}
    /\ UNCHANGED <<path, run, stop, seen, alone>>

SocketNext ==
    \E i \in Instance :
        \/ Start(i) \/ Lstat(i) \/ Probe(i) \/ RemoveFile(i) \/ Bind(i)
        \/ Signal(i) \/ Drained(i) \/ CloseRemove(i) \/ Suspend(i)
        \/ \E killed \in BOOLEAN : Exit(i, killed)

SocketSpec == SocketInit /\ [][SocketNext]_socketVars

-----------------------------------------------------------------------------
(* A runtime that listens loses its socket file only to a start that had     *)
(* looked before it was listening, or to somebody's close(): what is probed  *)
(* later is never taken for stale, also when its owner hangs                 *)
(* (removeStaleSocket; the test "refuses to replace a live runtime socket"). *)
LiveSocketKept ==
    [][path' # path /\ path \in Listeners' =>
          \/ \E i \in Instance : stop'[i] # stop[i]
          \/ \E i \in Instance :
                path \notin seen[i] /\ run[i] = "removing" /\ run'[i] = "binding"]_socketVars

(* After a crash or a stop the next runtime starts, whatever file was left   *)
(* behind, when no other runs at the time (removeStaleSocket).               *)
LoneStartSucceeds ==
    \A i \in alone : run[i] = "failed" /\ stop[i] = "no" => path = NotASocket
=============================================================================
