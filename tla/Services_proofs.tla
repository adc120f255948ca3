--------------------------- MODULE Services_proofs ---------------------------
(* Proofs about the exec runtime and its socket, the composite backend, the  *)
(* access gateway with its bridge, the retention of traces and ledgers, the  *)
(* POST of a callback and the HTTP service, for any numbers of instances,    *)
(* connections, requests, pairings, clients, processes, addresses and days;  *)
(* and of what they and the userscript promise side by side.                 *)
EXTENDS MCServices, Userscript_proofs

-----------------------------------------------------------------------------
(* The socket of the exec runtime.                                           *)

\* Who takes the file for stale does so of nobody it saw listening.
StaleJudged == \A i \in Instance : run[i] = "removing" => path \notin seen[i]

\* A process that is not there does nothing; a lone one is alone, finds nothing at
\* the path before it binds, and fails only for what is not a socket.
Lone(i) ==
    /\ \A j \in Instance \ {i} : run[j] = "off"
    /\ run[i] = "binding" /\ stop[i] = "no" => path = NoFile
    /\ run[i] = "failed" /\ stop[i] = "no" => path = NotASocket

SocketInv ==
    /\ SocketTypeOK
    /\ \A i \in Instance : run[i] = "off" => stop[i] = "no" /\ i \notin hung
    /\ StaleJudged
    /\ \A i \in alone : Lone(i)

LEMMA SocketStartStep == ASSUME SocketInv, NEW i \in Instance, Start(i) PROVE SocketInv'
BY SocketAssumption DEF Start, SocketInv, SocketTypeOK, RunState, StopState, StaleJudged, Lone

LEMMA SocketListenStep ==
    ASSUME SocketInv, NEW i \in Instance, Lstat(i) \/ Probe(i) \/ RemoveFile(i)
    PROVE  SocketInv'
<1>1. CASE Lstat(i)
  BY <1>1, SocketAssumption DEF Lstat, IsSocket, SocketInv, SocketTypeOK, RunState, StopState,
     StaleJudged, Lone
<1>2. CASE Probe(i)
  BY <1>2, SocketAssumption DEF Probe, Verdict, Listeners, SocketInv, SocketTypeOK, RunState,
     StopState, StaleJudged, Lone
<1>3. CASE RemoveFile(i)
  BY <1>3, SocketAssumption DEF RemoveFile, SocketInv, SocketTypeOK, RunState, StopState,
     StaleJudged, Lone
<1> QED  BY <1>1, <1>2, <1>3

LEMMA SocketBindStep == ASSUME SocketInv, NEW i \in Instance, Bind(i) PROVE SocketInv'
BY SocketAssumption DEF Bind, SocketInv, SocketTypeOK, RunState, StopState, StaleJudged, Lone

LEMMA SocketStopStep ==
    ASSUME SocketInv, NEW i \in Instance, NEW killed \in BOOLEAN,
           Signal(i) \/ Drained(i) \/ CloseRemove(i) \/ Suspend(i) \/ Exit(i, killed)
    PROVE  SocketInv'
<1>1. CASE Signal(i)
  BY <1>1, SocketAssumption DEF Signal, SocketInv, SocketTypeOK, RunState, StopState,
     StaleJudged, Lone
<1>2. CASE Drained(i) \/ Suspend(i)
  BY <1>2, SocketAssumption DEF Drained, Suspend, SocketInv, SocketTypeOK, RunState,
     StopState, StaleJudged, Lone
<1>3. CASE CloseRemove(i)
  BY <1>3, SocketAssumption DEF CloseRemove, SocketInv, SocketTypeOK, RunState, StopState,
     StaleJudged, Lone
<1>4. CASE Exit(i, killed)
  BY <1>4, SocketAssumption DEF Exit, SocketInv, SocketTypeOK, RunState, StopState,
     StaleJudged, Lone
<1> QED  BY <1>1, <1>2, <1>3, <1>4

LEMMA SocketStep == ASSUME SocketInv, [SocketNext]_socketVars PROVE SocketInv'
<1>1. CASE UNCHANGED socketVars
  BY <1>1 DEF socketVars, SocketInv, SocketTypeOK, StaleJudged, Lone
<1> QED
  BY <1>1, SocketStartStep, SocketListenStep, SocketBindStep, SocketStopStep DEF SocketNext

LEMMA SocketStarts == ASSUME SocketInit PROVE SocketInv
BY SocketAssumption DEF SocketInit, SocketInv, SocketTypeOK, RunState, StopState, StaleJudged, Lone

LEMMA SocketInvariant == SocketSpec => []SocketInv
<1> QED  BY SocketStarts, SocketStep, PTL DEF SocketSpec

(* A runtime that starts alone fails only when there is something else than a *)
(* socket at its path.                                                        *)
THEOREM LoneRuntimeStarts == SocketSpec => []LoneStartSucceeds
<1>1. SocketInv => LoneStartSucceeds
  BY DEF SocketInv, LoneStartSucceeds, Lone
<1> QED  BY <1>1, SocketInvariant, PTL

(* The file of a runtime that listens is removed only by a start that looked *)
(* before it listened, or by a close().                                      *)
THEOREM LiveSocketStays == SocketSpec => LiveSocketKept
<1>1. ASSUME SocketInv, [SocketNext]_socketVars, path' # path, path \in Listeners'
      PROVE  \/ \E i \in Instance : stop'[i] # stop[i]
             \/ \E i \in Instance :
                   path \notin seen[i] /\ run[i] = "removing" /\ run'[i] = "binding"
  <2>1. PICK i \in Instance : RemoveFile(i) \/ Bind(i) \/ Signal(i) \/ CloseRemove(i)
    BY <1>1 DEF SocketNext, socketVars, Start, Lstat, Probe, Drained, Suspend, Exit
  <2>2. CASE RemoveFile(i)
    BY <1>1, <2>2 DEF RemoveFile, SocketInv, SocketTypeOK, StaleJudged
  <2>3. ~Bind(i)
    BY <1>1, SocketAssumption DEF Bind, Listeners
  <2>4. CASE Signal(i)
    BY <1>1, <2>4 DEF Signal, SocketInv, SocketTypeOK
  <2>5. CASE CloseRemove(i)
    BY <1>1, <2>5 DEF CloseRemove, SocketInv, SocketTypeOK
  <2> QED  BY <2>1, <2>2, <2>3, <2>4, <2>5
<1>2. SocketInv /\ [SocketNext]_socketVars =>
          (path' # path /\ path \in Listeners' =>
             \/ \E i \in Instance : stop'[i] # stop[i]
             \/ \E i \in Instance :
                   path \notin seen[i] /\ run[i] = "removing" /\ run'[i] = "binding")
  BY <1>1
<1> QED  BY <1>2, SocketInvariant, PTL DEF SocketSpec, LiveSocketKept

-----------------------------------------------------------------------------
(* The composite backend.                                                    *)

\* What a sequence of sets is, without sequences.
LEMMA OfferedFacts ==
    /\ Len(Offered) \in Nat
    /\ Backend = 1..Len(Offered)
    /\ \A i \in Backend : Offered[i] \subseteq Tool
    /\ \A i, j \in Backend : i # j => Offered[i] \cap Offered[j] = {}
BY RoutesAssumption DEF Backend

\* Every tool is entered; nothing is.
Full == \A i \in Backend : \A t \in Offered[i] : routes[t] = i
Empty == \A t \in Tool : routes[t] = 0
EnteredBy(c) == \A i \in Backend : i < asker[c].next => \A t \in Offered[i] : routes[t] = i

\* Entries are right.
EntriesRight == \A t \in Tool : routes[t] # 0 => t \in Offered[routes[t]]

\* Before it lists a request is at the first backend; only calls look tools up.
Progressing(c) ==
    /\ asker[c].at \in {"off", "ready"} => asker[c].next = 1
    /\ asker[c].at = "looking" => asker[c].tool \in Tool

\* Requests that are pending beside a list are marked; one that is not finds
\* nothing entered ahead of it.
Marked == \A c \in Listing : \A d \in Pending \ {c} : d \in overlapped
NothingAhead ==
    \A c \in Listing \ overlapped :
        \A i \in Backend : i >= asker[c].next => \A t \in Offered[i] : routes[t] = 0

\* Unless a list has broken off the table is full, or on the way to be.
TableGood ==
    broken \/ Full \/ (Empty /\ Listing = {}) \/ \E c \in Listing : EnteredBy(c)
LookingFull ==
    \A c \in Caller : asker[c].at = "looking" => c \in overlapped \/ broken \/ Full

RoutesInv ==
    /\ RoutesTypeOK
    /\ EntriesRight /\ RightBackend
    /\ \A c \in Caller : Progressing(c)
    /\ Marked /\ NothingAhead
    /\ TableGood /\ LookingFull
    /\ DuplicateNeedsOverlap

\* What is not about the table.
RequestsInv ==
    /\ asker \in [Caller -> Asker] /\ overlapped \subseteq Caller /\ broken \in BOOLEAN
    /\ RightBackend
    /\ \A c \in Caller : Progressing(c)
    /\ Marked

LEMMA SameTable ==
    ASSUME RoutesInv, UNCHANGED routes
    PROVE  routes' \in [Tool -> 0..Len(Offered)] /\ EntriesRight' /\ (Full <=> Full')
           /\ (Empty <=> Empty')
BY DEF RoutesInv, RoutesTypeOK, EntriesRight, Full, Empty

LEMMA TakeRoutes ==
    ASSUME RoutesInv, NEW c \in Caller, NEW t \in Tool \cup {NoTool}, Take(c, t)
    PROVE  RoutesInv'
<1> USE DEF Take
<1>1. asker' \in [Caller -> Asker] /\ overlapped' \subseteq Caller
  <2>1. ASSUME NEW r \in Asker PROVE [r EXCEPT !.at = "ready", !.tool = t] \in Asker
    BY DEF Asker
  <2>2. asker' \in [Caller -> Asker]
    BY <2>1 DEF RoutesInv, RoutesTypeOK
  <2> QED  BY <2>2 DEF RoutesInv, RoutesTypeOK
<1>2. /\ asker'[c].at = "ready" /\ asker'[c].next = 1 /\ asker[c].at = "off"
      /\ \A d \in Caller \ {c} : asker'[d] = asker[d]
  BY DEF RoutesInv, RoutesTypeOK, Asker, Progressing
<1>3. Listing' = Listing /\ Pending' = Pending \cup {c} /\ c \notin Listing
  BY <1>2 DEF Listing, Pending
<1>4. Marked'
  BY <1>2, <1>3 DEF RoutesInv, Marked
<1>5. NothingAhead'
  <2> SUFFICES ASSUME NEW d \in Listing' \ overlapped', NEW i \in Backend, i >= asker'[d].next,
                      NEW u \in Offered[i]
               PROVE  routes[u] = 0
    BY DEF NothingAhead
  <2>1. d \in Listing \ overlapped /\ asker'[d] = asker[d]
    BY <1>2, <1>3 DEF Listing
  <2> QED  BY <2>1 DEF RoutesInv, NothingAhead
<1>6. TableGood' /\ LookingFull'
  BY <1>2, <1>3, SameTable DEF RoutesInv, TableGood, LookingFull, EnteredBy, Listing
<1> QED
  BY <1>1, <1>2, <1>4, <1>5, <1>6, SameTable
     DEF RoutesInv, RoutesTypeOK, RightBackend, Progressing, DuplicateNeedsOverlap

LEMMA BeginRoutes == ASSUME RoutesInv, NEW c \in Caller, BeginList(c) PROVE RoutesInv'
<1> USE DEF BeginList
<1>1. /\ asker' \in [Caller -> Asker] /\ overlapped' \subseteq Caller /\ broken' \in BOOLEAN
      /\ routes' \in [Tool -> 0..Len(Offered)] /\ EntriesRight' /\ Empty'
  <2>1. asker' \in [Caller -> Asker]
    BY DEF RoutesInv, RoutesTypeOK, Asker
  <2>2. overlapped' \subseteq Caller /\ broken' \in BOOLEAN
    BY DEF RoutesInv, RoutesTypeOK, Overlaps, Pending
  <2>3. routes' = [t \in Tool |-> 0] /\ Len(Offered) \in Nat
    BY OfferedFacts DEF Emptied
  <2> QED  BY <2>1, <2>2, <2>3 DEF EntriesRight, Empty
<1>2. /\ asker'[c].at = "listing" /\ asker'[c].next = 1 /\ asker[c].at = "ready"
      /\ \A d \in Caller \ {c} : asker'[d] = asker[d]
  BY DEF RoutesInv, RoutesTypeOK, Asker, Progressing
<1>3. Listing' = Listing \cup {c} /\ Pending' = Pending /\ c \in Pending
  BY <1>2 DEF Listing, Pending
<1>4. Marked'
  BY <1>2, <1>3 DEF RoutesInv, Marked, Overlaps, Listing, Pending
<1>5. NothingAhead'
  BY <1>1, OfferedFacts DEF NothingAhead, Empty
<1>6. TableGood'
  BY <1>2, <1>3, OfferedFacts DEF TableGood, EnteredBy
<1>7. LookingFull'
  BY <1>2, <1>3 DEF LookingFull, Overlaps, Pending
<1>8. DuplicateNeedsOverlap' /\ RightBackend'
  BY <1>2 DEF RoutesInv, DuplicateNeedsOverlap, RightBackend, Overlaps
<1> QED
  BY <1>1, <1>2, <1>4, <1>5, <1>6, <1>7, <1>8 DEF RoutesInv, RoutesTypeOK, Progressing

LEMMA AloneLists ==
    ASSUME RoutesInv, NEW c \in Listing, c \notin overlapped
    PROVE  Listing = {c}
BY DEF RoutesInv, Marked, Listing, Pending

LEMMA DuplicateRoutes ==
    ASSUME RoutesInv, NEW c \in Caller, ListNext(c),
           \E t \in Offered[asker[c].next] : routes[t] # 0
    PROVE  RoutesInv'
<1> DEFINE i == asker[c].next
<1>1. asker[c].at = "listing" /\ i \in Backend
  BY DEF ListNext
<1>2. PICK some \in SUBSET {t \in Offered[i] : routes[t] = 0} :
         routes' = [t \in Tool |-> IF t \in some THEN i ELSE routes[t]]
  BY DEF ListNext
<1>3. /\ asker' = [asker EXCEPT ![c].at = "duplicate"]
      /\ broken' = TRUE /\ UNCHANGED overlapped
  BY DEF ListNext
<1>4. /\ asker' \in [Caller -> Asker]
      /\ routes' \in [Tool -> 0..Len(Offered)] /\ EntriesRight'
  <2>1. asker' \in [Caller -> Asker]
    BY <1>3 DEF RoutesInv, RoutesTypeOK, Asker
  <2>2. i \in 0..Len(Offered)
    BY <1>1, OfferedFacts
  <2>3. routes' \in [Tool -> 0..Len(Offered)]
    BY <1>2, <2>2 DEF RoutesInv, RoutesTypeOK
  <2>4. ASSUME NEW t \in Tool, routes'[t] # 0 PROVE t \in Offered[routes'[t]]
    BY <1>2, <2>4 DEF RoutesInv, EntriesRight
  <2> QED  BY <2>1, <2>3, <2>4 DEF EntriesRight
<1>5. /\ asker'[c].at = "duplicate"
      /\ \A d \in Caller \ {c} : asker'[d] = asker[d]
  BY <1>3 DEF RoutesInv, RoutesTypeOK
<1>6. Listing' = Listing \ {c} /\ Pending' = Pending \ {c}
  BY <1>5 DEF Listing, Pending
<1>7. c \in overlapped
  <2>1. c \in Listing /\ i >= asker[c].next
    BY <1>1, OfferedFacts DEF Listing
  <2> QED  BY <1>1, <2>1 DEF RoutesInv, NothingAhead
<1>8. NothingAhead'
  <2> SUFFICES ASSUME NEW d \in Listing' \ overlapped' PROVE FALSE
    BY DEF NothingAhead
  <2> QED  BY <1>1, <1>3, <1>6, AloneLists DEF Listing
<1>9. Marked' /\ TableGood' /\ LookingFull'
  BY <1>3, <1>6 DEF RoutesInv, Marked, TableGood, LookingFull
<1>10. DuplicateNeedsOverlap' /\ RightBackend' /\ \A d \in Caller : Progressing(d)'
  BY <1>3, <1>5, <1>7 DEF RoutesInv, DuplicateNeedsOverlap, RightBackend, Progressing
<1> QED
  BY <1>3, <1>4, <1>8, <1>9, <1>10 DEF RoutesInv, RoutesTypeOK

LEMMA EnterRoutes ==
    ASSUME RoutesInv, NEW c \in Caller, ListNext(c),
           \A t \in Offered[asker[c].next] : routes[t] = 0
    PROVE  RoutesInv'
<1> DEFINE i == asker[c].next
<1>1. asker[c].at = "listing" /\ i \in Backend /\ i \in Nat
  BY OfferedFacts DEF ListNext
<1>2. /\ routes' = [t \in Tool |-> IF t \in Offered[i] THEN i ELSE routes[t]]
      /\ asker' = [asker EXCEPT ![c].next = i + 1]
      /\ UNCHANGED <<broken, overlapped>>
  BY DEF ListNext, Filled
<1>3. /\ asker' \in [Caller -> Asker]
      /\ routes' \in [Tool -> 0..Len(Offered)] /\ EntriesRight'
  <2>1. i + 1 \in 1..(Len(Offered) + 1) /\ i \in 0..Len(Offered)
    BY <1>1, OfferedFacts
  <2>2. asker' \in [Caller -> Asker]
    BY <1>2, <2>1 DEF RoutesInv, RoutesTypeOK, Asker
  <2>3. routes' \in [Tool -> 0..Len(Offered)]
    BY <1>2, <2>1 DEF RoutesInv, RoutesTypeOK
  <2>4. ASSUME NEW t \in Tool, routes'[t] # 0 PROVE t \in Offered[routes'[t]]
    BY <1>2, <2>4 DEF RoutesInv, EntriesRight
  <2> QED  BY <2>2, <2>3, <2>4 DEF EntriesRight
<1>4. /\ asker'[c].at = "listing" /\ asker'[c].next = i + 1
      /\ asker'[c].tool = asker[c].tool /\ asker'[c].backend = asker[c].backend
      /\ \A d \in Caller \ {c} : asker'[d] = asker[d]
  BY <1>1, <1>2 DEF RoutesInv, RoutesTypeOK, Asker
<1>5. Listing' = Listing /\ Pending' = Pending
  BY <1>1, <1>4 DEF Listing, Pending
<1>6. NothingAhead'
  <2> SUFFICES ASSUME NEW d \in Listing \ overlapped, NEW j \in Backend, j >= asker'[d].next,
                      NEW t \in Offered[j]
               PROVE  routes'[t] = 0
    BY <1>2, <1>5 DEF NothingAhead
  <2>1. d = c
    BY <1>1, AloneLists DEF Listing
  <2>2. j # i /\ j >= i
    BY <1>1, <1>4, <2>1, OfferedFacts
  <2> QED  BY <1>1, <1>2, <2>1, <2>2, OfferedFacts DEF RoutesInv, NothingAhead
<1>7. TableGood'
  <2>1. ASSUME Full PROVE Full'
    BY <1>1, <1>2, <2>1, OfferedFacts DEF Full
  <2>2. ASSUME NEW d \in Listing, EnteredBy(d) PROVE EnteredBy(d)'
    <3> SUFFICES ASSUME NEW j \in Backend, j < asker'[d].next, NEW t \in Offered[j]
                 PROVE  routes'[t] = j
      BY DEF EnteredBy
    <3>1. j < asker[d].next \/ j = i
      BY <1>1, <1>4, OfferedFacts DEF Listing
    <3> QED  BY <1>1, <1>2, <2>2, <3>1, OfferedFacts DEF EnteredBy
  <2> QED  BY <1>1, <1>2, <1>5, <2>1, <2>2 DEF RoutesInv, TableGood, Listing
<1>8. LookingFull'
  <2> SUFFICES ASSUME NEW d \in Caller, asker'[d].at = "looking" PROVE d \in overlapped
    BY <1>2 DEF LookingFull
  <2>1. d \in Pending \ {c} /\ c \in Listing
    BY <1>1, <1>4 DEF Pending, Listing
  <2> QED  BY <2>1 DEF RoutesInv, Marked
<1>9. Marked' /\ DuplicateNeedsOverlap' /\ RightBackend' /\ \A d \in Caller : Progressing(d)'
  BY <1>1, <1>2, <1>4, <1>5 DEF RoutesInv, Marked, DuplicateNeedsOverlap, RightBackend, Progressing
<1> QED
  BY <1>2, <1>3, <1>6, <1>7, <1>8, <1>9 DEF RoutesInv, RoutesTypeOK

LEMMA EndListRoutes ==
    ASSUME RoutesInv, NEW c \in Caller, ListFails(c) \/ EndList(c)
    PROVE  RoutesInv'
<1>1. asker[c].at = "listing"
  BY DEF ListFails, EndList
<1>2. /\ asker' \in [Caller -> Asker]
      /\ asker'[c].at \in {"failed", "listed", "looking"}
      /\ asker'[c].at = "looking" => asker[c].tool \in Tool
      /\ asker'[c].next = asker[c].next
      /\ asker'[c].tool = asker[c].tool /\ asker'[c].backend = asker[c].backend
      /\ \A d \in Caller \ {c} : asker'[d] = asker[d]
  BY DEF ListFails, EndList, RoutesInv, RoutesTypeOK, Asker
<1>3. UNCHANGED <<routes, overlapped>>
  BY DEF ListFails, EndList
<1>4. broken' \in BOOLEAN /\ (broken => broken')
  BY DEF ListFails, EndList, RoutesInv, RoutesTypeOK
<1>5. Listing' = Listing \ {c} /\ Pending' \subseteq Pending
  BY <1>1, <1>2 DEF Listing, Pending
<1>6. Marked' /\ \A d \in Caller : Progressing(d)'
  BY <1>1, <1>2, <1>3, <1>5 DEF RoutesInv, Marked, Progressing
<1>7. NothingAhead'
  <2> SUFFICES ASSUME NEW d \in Listing' \ overlapped' PROVE FALSE
    BY DEF NothingAhead
  <2> QED  BY <1>1, <1>3, <1>5, AloneLists DEF Listing
<1>8. ASSUME ~broken', EnteredBy(c) PROVE Full
  <2>1. EndList(c)
    BY <1>8 DEF ListFails
  <2>2. asker[c].next = Len(Offered) + 1
    BY <2>1, OfferedFacts DEF EndList, RoutesInv, RoutesTypeOK, Asker
  <2> QED  BY <1>8, <2>2, OfferedFacts DEF EnteredBy, Full
<1>9. TableGood'
  <2>1. ASSUME NEW d \in Listing \ {c}, EnteredBy(d) PROVE EnteredBy(d)'
    BY <1>2, <1>3, <2>1 DEF EnteredBy, Listing
  <2> QED  BY <1>1, <1>3, <1>4, <1>5, <1>8, <2>1, SameTable DEF RoutesInv, TableGood, Listing
<1>10. LookingFull'
  <2> SUFFICES ASSUME NEW d \in Caller, asker'[d].at = "looking", d \notin overlapped, ~broken'
               PROVE  Full
    BY <1>3, SameTable DEF LookingFull
  <2>1. CASE d = c
    <3>1. Listing = {c}
      BY <1>1, <2>1, AloneLists DEF Listing
    <3> QED  BY <1>4, <1>8, <3>1 DEF RoutesInv, TableGood
  <2>2. CASE d # c
    BY <1>2, <1>4, <2>2 DEF RoutesInv, LookingFull
  <2> QED  BY <2>1, <2>2
<1>11. DuplicateNeedsOverlap' /\ RightBackend'
  BY <1>2, <1>3 DEF RoutesInv, DuplicateNeedsOverlap, RightBackend
<1> QED
  BY <1>2, <1>3, <1>4, <1>6, <1>7, <1>9, <1>10, <1>11, SameTable DEF RoutesInv, RoutesTypeOK

\* A request leaves those that are pending, or was not among them, and did not list.
LEMMA LeavesPending ==
    ASSUME RoutesInv, NEW c \in Caller, asker[c].at # "listing",
           UNCHANGED <<routes, broken>>,
           asker' \in [Caller -> Asker],
           \A d \in Caller \ {c} : asker'[d] = asker[d],
           asker'[c].at \notin {"ready", "listing", "looking", "duplicate"},
           asker'[c].at = "called" => asker'[c].tool \in Offered[asker'[c].backend],
           asker'[c].at = "off" => asker'[c].next = 1,
           overlapped' \in {overlapped, overlapped \ {c}}
    PROVE  RoutesInv'
<1>1. Listing' = Listing /\ c \notin Listing /\ Pending' = Pending \ {c}
  BY DEF Listing, Pending
<1>2. \A d \in Listing : asker'[d] = asker[d]
  BY <1>1 DEF Listing
<1>3. Marked'
  BY <1>1 DEF RoutesInv, Marked
<1>4. NothingAhead'
  BY <1>1, <1>2 DEF RoutesInv, NothingAhead
<1>5. TableGood'
  BY <1>1, <1>2, SameTable DEF RoutesInv, TableGood, EnteredBy
<1>6. LookingFull'
  BY SameTable DEF RoutesInv, LookingFull
<1>7. DuplicateNeedsOverlap' /\ RightBackend' /\ \A d \in Caller : Progressing(d)'
  BY DEF RoutesInv, DuplicateNeedsOverlap, RightBackend, Progressing
<1> QED
  BY <1>3, <1>4, <1>5, <1>6, <1>7, SameTable DEF RoutesInv, RoutesTypeOK

LEMMA LookupRoutes == ASSUME RoutesInv, NEW c \in Caller, Lookup(c) PROVE RoutesInv'
<1> DEFINE b == routes[asker[c].tool]
<1>1. asker[c].tool \in Tool
  BY DEF Lookup, MustList, RoutesInv, RoutesTypeOK, Asker, Progressing
<1>2. b \in 0..Len(Offered) /\ (b # 0 => asker[c].tool \in Offered[b])
  BY <1>1 DEF RoutesInv, RoutesTypeOK, EntriesRight
<1>3. asker' = [asker EXCEPT ![c].at = IF b = 0 THEN "unavailable" ELSE "called",
                             ![c].backend = b]
  BY DEF Lookup
<1>4. asker' \in [Caller -> Asker]
  <2>1. ASSUME NEW at \in {"unavailable", "called"}
        PROVE  [asker EXCEPT ![c].at = at, ![c].backend = b] \in [Caller -> Asker]
    <3>1. ASSUME NEW r \in Asker PROVE [r EXCEPT !.at = at, !.backend = b] \in Asker
      BY <1>2 DEF Asker
    <3> QED  BY <3>1 DEF RoutesInv, RoutesTypeOK
  <2> QED  BY <1>3, <2>1
<1>5. /\ asker'[c].at \in {"unavailable", "called"}
      /\ asker'[c].at = "called" => asker'[c].tool \in Offered[asker'[c].backend]
      /\ \A d \in Caller \ {c} : asker'[d] = asker[d]
  BY <1>2, <1>3 DEF RoutesInv, RoutesTypeOK, Asker
<1> QED  BY <1>4, <1>5, LeavesPending DEF Lookup

LEMMA FinishedRoutes == ASSUME RoutesInv, NEW c \in Caller, Finished(c) PROVE RoutesInv'
<1>1. asker' \in [Caller -> Asker] /\ asker'[c] = NoAsker
  BY OfferedFacts DEF Finished, RoutesInv, RoutesTypeOK, Asker, NoAsker
<1>2. \A d \in Caller \ {c} : asker'[d] = asker[d]
  BY DEF Finished, RoutesInv, RoutesTypeOK
<1> QED  BY <1>1, <1>2, LeavesPending DEF Finished, NoAsker

LEMMA RoutesStep == ASSUME RoutesInv, [RoutesNext]_routesVars PROVE RoutesInv'
<1>1. CASE UNCHANGED routesVars
  BY <1>1 DEF routesVars, RoutesInv, RoutesTypeOK, EntriesRight, RightBackend, Progressing,
     Marked, NothingAhead, TableGood, Full, Empty, EnteredBy, LookingFull,
     DuplicateNeedsOverlap, Listing, Pending
<1>2. ASSUME NEW c \in Caller, ListNext(c) PROVE RoutesInv'
  BY <1>2, DuplicateRoutes, EnterRoutes DEF ListNext
<1> QED
  BY <1>1, <1>2, TakeRoutes, BeginRoutes, EndListRoutes, LookupRoutes, FinishedRoutes
     DEF RoutesNext

LEMMA RoutesStarts == ASSUME RoutesInit PROVE RoutesInv
<1>1. Listing = {} /\ Pending = {} /\ NoAsker \in Asker
  BY OfferedFacts DEF RoutesInit, Listing, Pending, NoAsker, Asker
<1>2. RoutesTypeOK
  <2>1. 0 \in 0..Len(Offered)
    BY OfferedFacts
  <2> QED  BY <1>1, <2>1 DEF RoutesInit, RoutesTypeOK
<1> QED
  BY <1>1, <1>2 DEF RoutesInit, NoAsker, RoutesInv, EntriesRight, RightBackend,
     Progressing, Marked, NothingAhead, TableGood, Empty, LookingFull, DuplicateNeedsOverlap

LEMMA RoutesInvariant == RoutesSpec => []RoutesInv
<1> QED  BY RoutesStarts, RoutesStep, PTL DEF RoutesSpec

(* A call of a tool reaches only a backend that has it, and only a list that *)
(* another one overlaps with finds a tool twice, whatever the requests do    *)
(* to the one table between their awaits.                                    *)
THEOREM RoutesAreRight == RoutesSpec => [](RightBackend /\ DuplicateNeedsOverlap)
<1>1. RoutesInv => RightBackend /\ DuplicateNeedsOverlap
  BY DEF RoutesInv
<1> QED  BY <1>1, RoutesInvariant, PTL

(* A tool that some backend has is not available only to a call beside which *)
(* another list ran, or after a list that broke off.                         *)
THEOREM ToolsAreAvailable == RoutesSpec => UnavailableNeedsOverlap
<1>1. ASSUME RoutesInv, [RoutesNext]_routesVars, NEW c \in Caller,
             asker[c].at # "unavailable", asker'[c].at = "unavailable",
             NEW i \in Backend, asker[c].tool \in Offered[i]
      PROVE  c \in overlapped \/ broken
  <2>1. Lookup(c)
    <3>1. PICK d \in Caller :
             \/ BeginList(d) \/ ListNext(d) \/ ListFails(d) \/ EndList(d) \/ Lookup(d)
             \/ Finished(d) \/ \E t \in Tool \cup {NoTool} : Take(d, t)
      BY <1>1 DEF RoutesNext, routesVars
    <3> USE DEF RoutesInv, RoutesTypeOK, Asker
    <3>2. ~BeginList(d) /\ ~ListFails(d)
      BY <1>1 DEF BeginList, ListFails
    <3>3. ~ListNext(d)
      BY <1>1 DEF ListNext
    <3>4. ~EndList(d)
      BY <1>1 DEF EndList
    <3>5. ~Finished(d)
      BY <1>1 DEF Finished, NoAsker
    <3>6. ASSUME NEW t \in Tool \cup {NoTool} PROVE ~Take(d, t)
      BY <1>1 DEF Take
    <3>7. Lookup(d)
      BY <3>1, <3>2, <3>3, <3>4, <3>5, <3>6
    <3> QED  BY <1>1, <3>7 DEF Lookup
  <2>2. asker[c].tool \in Tool /\ routes[asker[c].tool] = 0 /\ i # 0
    BY <1>1, <2>1, OfferedFacts DEF Lookup, RoutesInv, RoutesTypeOK, Asker
  <2>3. ~Full
    BY <1>1, <2>2 DEF Full
  <2>4. CASE asker[c].at = "looking"
    BY <1>1, <2>3, <2>4 DEF RoutesInv, LookingFull
  <2>5. CASE asker[c].at = "ready" /\ ~MustList(c)
    <3>1. ~Empty
      BY <2>5 DEF MustList, Empty
    <3>2. CASE broken
      BY <3>2
    <3>3. ASSUME NEW d \in Listing PROVE c \in overlapped
      BY <1>1, <2>5, <3>3 DEF RoutesInv, Marked, Listing, Pending
    <3> QED  BY <1>1, <2>3, <3>1, <3>2, <3>3 DEF RoutesInv, TableGood
  <2> QED  BY <2>1, <2>4, <2>5 DEF Lookup
<1>2. RoutesInv /\ [RoutesNext]_routesVars =>
          \A c \in Caller :
              /\ asker[c].at # "unavailable" /\ asker'[c].at = "unavailable"
              /\ \E i \in Backend : asker[c].tool \in Offered[i]
              => c \in overlapped \/ broken
  BY <1>1
<1> QED  BY <1>2, RoutesInvariant, PTL DEF RoutesSpec, UnavailableNeedsOverlap

-----------------------------------------------------------------------------
(* The access gateway and its bridge.                                        *)

\* A pairing that is pending names no client, no two name the same, and the client
\* that one names exists.
Pairings ==
    /\ \A p \in Pairing : pairing[p].status \in {"none", "pending"} => pairing[p].client = NoClient
    /\ \A p \in Pairing : pairing[p].status = "approved" => pairing[p].client \in Client
    /\ \A p, q \in Pairing :
          pairing[p].client \in Client /\ pairing[p].client = pairing[q].client => p = q
    /\ \A p \in Pairing :
          pairing[p].client \in Client => client[pairing[p].client].state # "unused"

\* What a poll has read of its pairing is still so.
Polls ==
    \A p \in Pairing :
        /\ poll[p].at \in {"granting", "storing", "granted"} =>
              poll[p].client \in Client /\ pairing[p].client = poll[p].client
        /\ poll[p].at = "granted" => client[poll[p].client].grant = p

GrantInv == Pairings /\ Polls /\ OneGrantPerPairing

\* Nothing was executed before the gateway let a message through.
ExecutedInv ==
    /\ message.at \in {"idle", "token", "sent", "unauthorized", "upstream", "rejected"} =>
          message.executed = 0
    /\ message.executed <= 1

\* The second try has a token of its own, so that only a revocation refuses it.
Refused == message.with = NoClient \/ client[message.with].state = "revoked"
RetryInv ==
    /\ message.at = "rejected" => Refused
    /\ message.retried =>
          /\ message.at = "token" => token.client = NoClient
          /\ message.at = "sent" => /\ token.age = "fresh"
                                   /\ message.with \in Client
                                   /\ client[message.with].state # "unused"
          /\ message.at = "unauthorized" => Refused

GatewayInv == GatewayTypeOK /\ GrantInv /\ ExecutedInv /\ RetryInv

\* What happens to the clients that exist.
ClientsKept ==
    \A c \in Client : /\ client[c].state # "unused" => client'[c].state # "unused"
                      /\ client[c].state = "revoked" => client'[c].state = "revoked"

\* The rows that the actions make of a row.
LEMMA RowUpdates ==
    /\ \A r \in PairingRow :
          /\ \A status \in {"pending", "expired"} : [r EXCEPT !.status = status] \in PairingRow
          /\ [r EXCEPT !.over = TRUE] \in PairingRow
          /\ \A c \in Client : [r EXCEPT !.status = "approved", !.client = c] \in PairingRow
    /\ \A r \in ClientRow :
          /\ \A to \in {"live", "revoked"} : [r EXCEPT !.state = to] \in ClientRow
          /\ \A p \in Pairing : [r EXCEPT !.grant = p] \in ClientRow
    /\ \A r \in Poll : \A at \in {"waiting", "storing", "granted"} : [r EXCEPT !.at = at] \in Poll
    /\ [at |-> "off", client |-> NoClient] \in Poll
    /\ \A r \in PairingRow : [at |-> "granting", client |-> r.client] \in Poll
<1>1. \A r \in PairingRow :
          /\ \A status \in {"pending", "expired"} : [r EXCEPT !.status = status] \in PairingRow
          /\ [r EXCEPT !.over = TRUE] \in PairingRow
  BY DEF PairingRow
<1>2. \A r \in PairingRow : \A c \in Client :
          [r EXCEPT !.status = "approved", !.client = c] \in PairingRow
  BY DEF PairingRow
<1>3. \A r \in ClientRow :
          /\ \A to \in {"live", "revoked"} : [r EXCEPT !.state = to] \in ClientRow
          /\ \A p \in Pairing : [r EXCEPT !.grant = p] \in ClientRow
  BY DEF ClientRow
<1>4. \A r \in Poll : \A at \in {"waiting", "storing", "granted"} : [r EXCEPT !.at = at] \in Poll
  BY DEF Poll
<1>5. /\ [at |-> "off", client |-> NoClient] \in Poll
      /\ \A r \in PairingRow : [at |-> "granting", client |-> r.client] \in Poll
  BY DEF Poll, PairingRow
<1> QED  BY <1>1, <1>2, <1>3, <1>4, <1>5

LEMMA PairingTypes == ASSUME GatewayTypeOK, PairingNext PROVE GatewayTypeOK'
<1> USE DEF GatewayTypeOK
<1>1. ASSUME NEW p \in Pairing, StartPairing(p) \/ ExpirePairing(p) PROVE GatewayTypeOK'
  <2>1. CASE StartPairing(p)
    BY <2>1, RowUpdates DEF StartPairing
  <2>2. CASE ExpirePairing(p)
    BY <2>2, RowUpdates DEF ExpirePairing
  <2> QED  BY <1>1, <2>1, <2>2
<1>2. ASSUME NEW p \in Pairing, PollRead(p) PROVE GatewayTypeOK'
  <2> DEFINE expired == [pairing EXCEPT ![p].status = "expired"]
             granting == [poll EXCEPT ![p] = [at |-> "granting", client |-> pairing[p].client]]
  <2>1. /\ [pairing[p] EXCEPT !.status = "expired"] \in PairingRow
        /\ [at |-> "granting", client |-> pairing[p].client] \in Poll
    <3>1. pairing[p] \in PairingRow
      OBVIOUS
    <3> QED  BY <3>1, RowUpdates
  <2>2. expired \in [Pairing -> PairingRow]
    BY <2>1
  <2>3. granting \in [Pairing -> Poll] /\ Stopped(p) \in [Pairing -> Poll]
    BY <2>1, RowUpdates DEF Stopped
  <2>4. /\ pairing' = expired \/ pairing' = pairing
        /\ poll' = Stopped(p) \/ poll' = granting
        /\ UNCHANGED <<client, approver, file, token, message>>
    BY <1>2 DEF PollRead
  <2> QED  BY <2>2, <2>3, <2>4
<1>3. ASSUME NEW p \in Pairing, PollClient(p) PROVE GatewayTypeOK'
  BY <1>3, RowUpdates DEF PollClient, Stopped
<1>4. ASSUME NEW p \in Pairing, PollStore(p) PROVE GatewayTypeOK'
  BY <1>4, RowUpdates DEF PollStore, Granted
<1>5. ASSUME NEW p \in Pairing, NEW received \in BOOLEAN, PollEnd(p, received)
      PROVE  GatewayTypeOK'
  <2>1. poll[p].client \in Client \cup {NoClient}
    BY DEF Poll
  <2> QED  BY <1>5, <2>1, RowUpdates DEF PollEnd, Stopped
<1>6. ASSUME NEW p \in Pairing, NEW a \in Approver, ApproveRead(a, p) PROVE GatewayTypeOK'
  BY <1>6 DEF ApproveRead
<1>7. ASSUME NEW c \in Client, NEW a \in Approver, ApproveWrite(a, c) PROVE GatewayTypeOK'
  BY <1>7, RowUpdates DEF ApproveWrite, StillPending
<1>8. ASSUME NEW c \in Client, Revoke(c) PROVE GatewayTypeOK'
  BY <1>8, RowUpdates DEF Revoke
<1>9. CASE ForgetLocal
  BY <1>9 DEF ForgetLocal
<1> HIDE DEF GatewayTypeOK
<1> QED  BY <1>1, <1>2, <1>3, <1>4, <1>5, <1>6, <1>7, <1>8, <1>9 DEF PairingNext

LEMMA PairingKeepsClients == ASSUME GatewayTypeOK, PairingNext PROVE ClientsKept
<1> USE DEF ClientsKept, GatewayTypeOK, ClientRow
<1>1. CASE UNCHANGED client
  BY <1>1
<1>2. ASSUME NEW p \in Pairing, PollStore(p) PROVE ClientsKept
  BY <1>2 DEF PollStore, Granted
<1>3. ASSUME NEW c \in Client, NEW a \in Approver, ApproveWrite(a, c) PROVE ClientsKept
  BY <1>3 DEF ApproveWrite
<1>4. ASSUME NEW c \in Client, Revoke(c) PROVE ClientsKept
  BY <1>4 DEF Revoke
<1> HIDE DEF ClientsKept, GatewayTypeOK, ClientRow
<1> QED
  BY <1>1, <1>2, <1>3, <1>4 DEF PairingNext, StartPairing, ExpirePairing, PollRead, PollClient,
     PollEnd, ApproveRead, ForgetLocal

LEMMA PairingGrants == ASSUME GatewayTypeOK, GrantInv, PairingNext PROVE GrantInv'
<1> USE GatewayAssumption DEF GatewayTypeOK, PairingRow, ClientRow, Poll, GrantInv, Pairings,
        Polls, OneGrantPerPairing
<1>1. ASSUME NEW p \in Pairing, StartPairing(p) \/ ExpirePairing(p) PROVE GrantInv'
  <2>1. \A q \in Pairing : /\ pairing'[q].client = pairing[q].client
                           /\ pairing'[q].status \in {pairing[q].status, "pending"}
                           /\ pairing'[q].status # pairing[q].status =>
                                 pairing[q].status = "none"
                           /\ poll'[q].client = poll[q].client
                           /\ poll'[q].at \in {poll[q].at, "waiting"}
    <3>1. CASE StartPairing(p)
      BY <3>1 DEF StartPairing
    <3>2. CASE ExpirePairing(p)
      BY <3>2 DEF ExpirePairing
    <3> QED  BY <1>1, <3>1, <3>2
  <2>2. UNCHANGED <<client, file>>
    BY <1>1 DEF StartPairing, ExpirePairing
  <2> QED  BY <2>1, <2>2
<1>2. ASSUME NEW p \in Pairing, PollRead(p) PROVE GrantInv'
  <2>1. UNCHANGED <<client, file>>
    BY <1>2 DEF PollRead
  <2>2. \A q \in Pairing : /\ pairing'[q].client = pairing[q].client
                           /\ pairing'[q].status \in {pairing[q].status, "expired"}
    BY <1>2 DEF PollRead
  <2>3. \A q \in Pairing \ {p} : poll'[q] = poll[q]
    BY <1>2 DEF PollRead, Stopped
  <2>4. \/ poll'[p].at = "off"
        \/ /\ poll'[p].at = "granting" /\ poll'[p].client = pairing[p].client
           /\ pairing[p].status = "approved"
    BY <1>2 DEF PollRead, Stopped
  <2> QED  BY <2>1, <2>2, <2>3, <2>4
<1>3. ASSUME NEW p \in Pairing, PollClient(p) PROVE GrantInv'
  BY <1>3 DEF PollClient, Stopped
<1>4. ASSUME NEW p \in Pairing, PollStore(p) PROVE GrantInv'
  BY <1>4 DEF PollStore, Granted
<1>5. ASSUME NEW p \in Pairing, NEW received \in BOOLEAN, PollEnd(p, received) PROVE GrantInv'
  BY <1>5 DEF PollEnd, Stopped
<1>6. ASSUME NEW p \in Pairing, NEW a \in Approver, ApproveRead(a, p) PROVE GrantInv'
  BY <1>6 DEF ApproveRead
<1>7. ASSUME NEW c \in Client, NEW a \in Approver, ApproveWrite(a, c) PROVE GrantInv'
  BY <1>7 DEF ApproveWrite, StillPending
<1>8. ASSUME NEW c \in Client, Revoke(c) PROVE GrantInv'
  BY <1>8 DEF Revoke
<1>9. CASE ForgetLocal
  BY <1>9 DEF ForgetLocal
<1> HIDE DEF GrantInv, GatewayTypeOK
<1> QED  BY <1>1, <1>2, <1>3, <1>4, <1>5, <1>6, <1>7, <1>8, <1>9 DEF PairingNext

LEMMA PairingStep == ASSUME GatewayInv, PairingNext PROVE GatewayInv' /\ ClientsKept
<1>1. GatewayTypeOK' /\ GrantInv' /\ ClientsKept
  BY PairingTypes, PairingKeepsClients, PairingGrants DEF GatewayInv
<1>2. UNCHANGED <<token, message>>
  BY DEF PairingNext, StartPairing, ExpirePairing, PollRead, PollClient, PollStore, PollEnd,
     ApproveRead, ApproveWrite, Revoke, ForgetLocal
<1>3. ExecutedInv' /\ RetryInv'
  BY <1>1, <1>2 DEF GatewayInv, GatewayTypeOK, MessageRow, ExecutedInv, RetryInv, Refused,
     ClientsKept
<1> QED  BY <1>1, <1>3 DEF GatewayInv

LEMMA ForwardStep == ASSUME GatewayInv, ForwardNext PROVE GatewayInv' /\ ClientsKept
<1>1. UNCHANGED gateVars
  BY DEF ForwardNext, Forward, UseCached, Exchange, Verify, Execute, Finish, Unauthorized, Age,
     gateVars
<1>2. GrantInv' /\ ClientsKept
  BY <1>1 DEF gateVars, GatewayInv, GrantInv, Pairings, Polls, OneGrantPerPairing, ClientsKept
<1>3. file \in Client => client[file].state # "unused"
  BY DEF GatewayInv, GatewayTypeOK, ClientRow, GrantInv, OneGrantPerPairing, Pairings
<1>10. /\ Forward => message' = [at |-> "token", with |-> NoClient, retried |-> FALSE,
                                executed |-> 0]
       /\ UseCached => message' = [at |-> "sent", with |-> token.client, retried |-> FALSE,
                                  executed |-> 0]
       /\ Execute => message' = [at |-> "answering", with |-> message.with,
                                retried |-> message.retried, executed |-> 1]
  <2>1. message.at \in {"token", "upstream"} => message.executed = 0
    BY DEF GatewayInv, ExecutedInv
  <2>2. UseCached => ~message.retried /\ message.retried \in BOOLEAN
    BY DEF UseCached, GatewayInv, GatewayTypeOK, MessageRow, RetryInv
  <2>3. message = [at |-> message.at, with |-> message.with, retried |-> message.retried,
                   executed |-> message.executed]
    BY DEF GatewayInv, GatewayTypeOK, MessageRow
  <2>4. UseCached => message' = [at |-> "sent", with |-> token.client,
                                 retried |-> message.retried, executed |-> message.executed]
    BY <2>3 DEF UseCached
  <2>5. Execute => message' = [at |-> "answering", with |-> message.with,
                               retried |-> message.retried, executed |-> message.executed + 1]
    BY <2>3 DEF Execute
  <2>6. (UseCached => message.at = "token") /\ (Execute => message.at = "upstream")
    BY DEF UseCached, Execute
  <2>7. UseCached => message.retried = FALSE
    BY <2>2
  <2>8. Forward => message' = [at |-> "token", with |-> NoClient, retried |-> FALSE,
                               executed |-> 0]
    BY DEF Forward, NoMessage
  <2> QED  BY <2>1, <2>4, <2>5, <2>6, <2>7, <2>8
<1>11. Forward => message' \in MessageRow
  <2>1. [at |-> "token", with |-> NoClient, retried |-> FALSE, executed |-> 0] \in MessageRow
    BY DEF MessageRow
  <2> QED  BY <1>10, <2>1
<1> USE GatewayAssumption DEF GatewayInv, GatewayTypeOK, ClientRow, Token, MessageRow, gateVars,
        ExecutedInv, RetryInv, Refused, NoToken, NoMessage
<1>4. CASE Forward \/ UseCached
  <2>1. CASE Forward
    <3>1. UNCHANGED token
      BY <2>1 DEF Forward
    <3>2. ExecutedInv' /\ RetryInv'
      BY <1>10, <2>1
    <3> QED  BY <1>1, <1>2, <1>11, <2>1, <3>1, <3>2
  <2>2. CASE UseCached
    BY <1>1, <1>2, <1>10, <2>2 DEF UseCached
  <2> QED  BY <1>4, <2>1, <2>2
<1>5. CASE Exchange
  BY <1>1, <1>2, <1>3, <1>5 DEF Exchange
<1>6. CASE Verify
  BY <1>1, <1>2, <1>6 DEF Verify
<1>7. CASE Execute \/ Finish
  <2>1. CASE Execute
    BY <1>1, <1>2, <1>10, <2>1 DEF Execute
  <2>2. CASE Finish
    <3>1. message' \in MessageRow /\ ExecutedInv' /\ RetryInv'
      BY <2>2 DEF Finish, Lost
    <3> QED  BY <1>1, <1>2, <2>2, <3>1 DEF Finish
  <2> QED  BY <1>7, <2>1, <2>2
<1>8. CASE Unauthorized
  BY <1>1, <1>2, <1>8 DEF Unauthorized, Retriable, After401
<1>9. CASE Age
  BY <1>1, <1>2, <1>9 DEF Age
<1> QED  BY <1>4, <1>5, <1>6, <1>7, <1>8, <1>9 DEF ForwardNext

LEMMA GatewayStep == ASSUME GatewayInv, [GatewayNext]_gatewayVars PROVE GatewayInv' /\ ClientsKept
<1>1. CASE UNCHANGED gatewayVars
  BY <1>1 DEF gatewayVars, GatewayInv, GatewayTypeOK, GrantInv, Pairings, Polls,
     OneGrantPerPairing, ExecutedInv, RetryInv, Refused, ClientsKept
<1> QED  BY <1>1, PairingStep, ForwardStep DEF GatewayNext

LEMMA GatewayStarts == ASSUME GatewayInit PROVE GatewayInv
BY GatewayAssumption DEF GatewayInit, GatewayInv, GatewayTypeOK, PairingRow, ClientRow, Poll,
   Token, MessageRow, NoToken, NoMessage, GrantInv, Pairings, Polls, OneGrantPerPairing,
   ExecutedInv, RetryInv, Refused

LEMMA GatewayInvariant == GatewaySpec => []GatewayInv
<1> QED  BY GatewayStarts, GatewayStep, PTL DEF GatewaySpec

(* The variables of gateway and bridge have the types they should.           *)
THEOREM GatewayTypesHold == GatewaySpec => []GatewayTypeOK
<1>1. GatewayInv => GatewayTypeOK
  BY DEF GatewayInv
<1> QED  BY <1>1, GatewayInvariant, PTL

(* What the tunnel promises, however pairings, approvals, polls, revocations *)
(* and forwarding interleave: one grant for a pairing, one execution of a    *)
(* message, refusal of nobody in good standing, and no way back for a        *)
(* revoked client.                                                           *)
THEOREM GatewayKeepsPromise == GatewaySpec => GatewayPromise
<1>1. GatewayInv => GatewaySafe
  BY DEF GatewayInv, GatewaySafe, GrantInv, ExecutedInv, ExecutedOnce, RetryInv, Refused,
     RejectedMeansRevoked
<1>2. GatewayInv /\ [GatewayNext]_gatewayVars =>
          \A c \in Client : client[c].state = "revoked" => client'[c].state = "revoked"
  BY GatewayStep DEF ClientsKept
<1> QED
  BY <1>1, <1>2, GatewayInvariant, PTL DEF GatewaySpec, GatewayPromise, RevokedStays

-----------------------------------------------------------------------------
(* The exec runtime.                                                         *)

UsedBeside(j) == {i \in Number \ {j} : calls[i].state # "unused"}

\* The memo holds calls that were made, among them all that run; who waits for a
\* result waits for a call of his own request; and a result that is not old is
\* missing only when there were enough other calls to push it out.
ExecInv ==
    /\ ExecTypeOK
    /\ \A k \in memo : calls[k].state # "unused"
    /\ \A k \in Number : calls[k].state = "running" => k \in memo
    /\ \A c \in Connection :
          conn[c].at \in {"executing", "answered"} =>
              /\ conn[c].call \in Number
              /\ calls[conn[c].call].state # "unused"
              /\ calls[conn[c].call].request = conn[c].request
    /\ \A j \in Number :
          calls[j].state = "fresh" /\ j \notin memo => MaxEntries <= Cardinality(UsedBeside(j))
    /\ OneRunning

LEMMA NumbersFinite == ASSUME NEW S \in SUBSET Number PROVE IsFiniteSet(S) /\ Cardinality(S) \in Nat
<1>1. 1 \in Int /\ MaxCalls \in Int
  BY ExecAssumption
<1>2. IsFiniteSet(Number)
  BY <1>1, FS_Interval DEF Number
<1>3. IsFiniteSet(S)
  BY <1>2, FS_Subset
<1> QED  BY <1>3, FS_CardinalityType

\* Pruning keeps what runs, and a result that is not old goes only when the memo
\* holds more than MaxEntries.
LEMMA PrunedFacts ==
    ASSUME ExecInv
    PROVE  /\ Pruned \subseteq memo
           /\ \A k \in Number : calls[k].state = "running" => k \in Pruned
           /\ \A j \in Number :
                 calls[j].state = "fresh" /\ j \notin Pruned =>
                     MaxEntries <= Cardinality(UsedBeside(j))
<1> DEFINE live == {k \in memo : calls[k].state # "old"}
           older(k) == {j \in Expendable(live) : j <= k}
<1>1. Pruned = {k \in live : k \in Expendable(live) => Cardinality(older(k)) > Excess(live)}
  BY DEF Pruned
<1>2. live \subseteq memo /\ memo \subseteq Number
  BY DEF ExecInv, ExecTypeOK
<1>3. \A k \in Number : calls[k].state = "running" => k \in Pruned
  BY <1>1 DEF ExecInv, Expendable, Completed
<1>4. ASSUME NEW j \in Number, calls[j].state = "fresh", j \notin Pruned, j \in memo
      PROVE  MaxEntries <= Cardinality(UsedBeside(j))
  <2>1. j \in live /\ j \in Expendable(live) /\ ~(Cardinality(older(j)) > Excess(live))
    BY <1>1, <1>4 DEF Expendable, Completed
  <2>2. j \in older(j) /\ older(j) \in SUBSET Number
    <3>1. j \in Nat /\ j <= j
      BY ExecAssumption DEF Number
    <3>2. older(j) \subseteq live
      BY DEF Expendable
    <3> HIDE DEF live
    <3> QED  BY <1>2, <2>1, <3>1, <3>2
  <2>3. Cardinality(older(j)) \in Nat /\ Cardinality(older(j)) # 0
    BY <2>2, NumbersFinite, FS_EmptySet
  <2>4. IsFiniteSet(live) /\ Cardinality(live) \in Nat
    BY <1>2, NumbersFinite
  <2>5. Cardinality(live \ {j}) = Cardinality(live) - 1
    BY <2>1, <2>4, FS_RemoveElement
  <2>6. live \ {j} \subseteq UsedBeside(j)
    BY <1>2 DEF UsedBeside, ExecInv
  <2>7. UsedBeside(j) \in SUBSET Number
    BY DEF UsedBeside
  <2>8. Cardinality(live \ {j}) <= Cardinality(UsedBeside(j))
    BY <2>6, <2>7, NumbersFinite, FS_Subset
  <2>9. Cardinality(UsedBeside(j)) \in Nat
    BY <2>7, NumbersFinite
  <2>10. MaxEntries + 1 <= Cardinality(live)
    BY <2>1, <2>3, <2>4, ExecAssumption DEF Excess
  <2> HIDE DEF live
  <2> QED  BY <2>4, <2>5, <2>8, <2>9, <2>10, ExecAssumption
<1>5. \A j \in Number : calls[j].state = "fresh" /\ j \notin Pruned =>
          MaxEntries <= Cardinality(UsedBeside(j))
  BY <1>4 DEF ExecInv
<1>6. Pruned \subseteq memo
  BY <1>1
<1> QED  BY <1>3, <1>5, <1>6

LEMMA UsedGrows ==
    ASSUME NEW j \in Number, \A i \in Number : calls[i].state # "unused" => calls'[i].state # "unused",
           MaxEntries <= Cardinality(UsedBeside(j))
    PROVE  MaxEntries <= Cardinality(UsedBeside(j)')
<1>1. UsedBeside(j) \in SUBSET (UsedBeside(j)') /\ UsedBeside(j)' \in SUBSET Number
  BY DEF UsedBeside
<1>2. /\ Cardinality(UsedBeside(j)) <= Cardinality(UsedBeside(j)')
      /\ Cardinality(UsedBeside(j)) \in Nat /\ Cardinality(UsedBeside(j)') \in Nat
  BY <1>1, NumbersFinite, FS_Subset
<1> QED  BY <1>2, ExecAssumption

\* Steps that leave the memo and the calls alone, or the memo only smaller.
LEMMA ServedExec ==
    ASSUME ExecInv, UNCHANGED calls, memo' \in {memo, Pruned},
           conn' \in [Connection -> ConnRecord],
           \A c \in Connection :
              conn'[c].at \in {"executing", "answered"} =>
                  /\ conn'[c].call \in Number
                  /\ calls[conn'[c].call].state # "unused"
                  /\ calls[conn'[c].call].request = conn'[c].request
    PROVE  ExecInv'
<1>1. ExecTypeOK' /\ \A k \in memo' : calls'[k].state # "unused"
  BY PrunedFacts DEF ExecInv, ExecTypeOK
<1>2. \A k \in Number : calls'[k].state = "running" => k \in memo'
  BY PrunedFacts DEF ExecInv
<1>3. \A j \in Number : calls'[j].state = "fresh" /\ j \notin memo' =>
          MaxEntries <= Cardinality(UsedBeside(j))
  BY PrunedFacts DEF ExecInv
<1>4. \A j \in Number : UsedBeside(j)' = UsedBeside(j)
  BY DEF UsedBeside
<1>5. OneRunning'
  BY DEF ExecInv, OneRunning
<1> QED  BY <1>1, <1>2, <1>3, <1>4, <1>5 DEF ExecInv

\* A connection waits for a call.
LEMMA ConnExecuting ==
    ASSUME NEW r \in ConnRecord, NEW k \in Number
    PROVE  [r EXCEPT !.at = "executing", !.call = k] \in ConnRecord
<1>1. k \in 0..MaxCalls
  BY ExecAssumption DEF Number
<1> QED  BY <1>1 DEF ConnRecord

LEMMA AnsweringExec ==
    ASSUME ExecInv, NEW c \in Connection,
           \/ Refuse(c) \/ Emit(c) \/ CallerStep(c) \/ \E k \in Number : Reuse(c, k)
    PROVE  ExecInv'
<1> USE DEF ExecTypeOK, ConnRecord, NoConn
<1>1. CASE Refuse(c)
  BY <1>1, ServedExec, ExecAssumption DEF Refuse, Written, ExecInv
<1>2. CASE Emit(c)
  BY <1>2, ServedExec, ExecAssumption DEF Emit, Written, ExecInv
<1>3. CASE Receive(c)
  BY <1>3, ServedExec, ExecAssumption DEF Receive, ExecInv
<1>4. CASE GiveUp(c)
  <2>1. [conn[c] EXCEPT !.open = FALSE] \in ConnRecord /\ NoConn \in ConnRecord
    <3>1. conn[c] \in ConnRecord
      BY DEF ExecInv
    <3>2. ASSUME NEW r \in ConnRecord PROVE [r EXCEPT !.open = FALSE] \in ConnRecord
      OBVIOUS
    <3>3. NoConn \in ConnRecord
      BY ExecAssumption
    <3> HIDE DEF ConnRecord, NoConn
    <3> QED  BY <3>1, <3>2, <3>3
  <2>2. conn' \in [Connection -> ConnRecord]
    BY <1>4, <2>1 DEF GiveUp, ExecInv
  <2>3. \A d \in Connection : conn'[d].at \in {"executing", "answered"} => conn'[d] = conn[d]
    BY <1>4 DEF GiveUp, ExecInv
  <2> QED  BY <1>4, <2>2, <2>3, ServedExec DEF GiveUp, ExecInv
<1>5. ASSUME NEW request \in Request, Send(c, request) PROVE ExecInv'
  BY <1>5, ServedExec, ExecAssumption DEF Send, ExecInv
<1>6. ASSUME NEW k \in Number, Reuse(c, k) PROVE ExecInv'
  <2>1. k \in 0..MaxCalls /\ calls[k].state # "unused"
    <3>1. k \in memo
      BY <1>6, PrunedFacts DEF Reuse
    <3>2. k \in 0..MaxCalls
      BY ExecAssumption DEF Number
    <3> QED  BY <3>1, <3>2 DEF ExecInv
  <2>2. CASE SameRequest(c, k)
    <3>1. conn' = [conn EXCEPT ![c].at = "executing", ![c].call = k]
      BY <1>6, <2>2 DEF Reuse
    <3>2. conn' \in [Connection -> ConnRecord]
      <4>1. conn[c] \in ConnRecord
        BY DEF ExecInv
      <4>2. conn \in [Connection -> ConnRecord]
        BY DEF ExecInv
      <4> HIDE DEF ConnRecord, NoConn
      <4> QED  BY <3>1, <4>1, <4>2, ConnExecuting
    <3>3. /\ conn'[c].call = k /\ conn'[c].request = conn[c].request
          /\ \A d \in Connection \ {c} : conn'[d] = conn[d]
      BY <3>1 DEF ExecInv
    <3>4. memo' = Pruned /\ UNCHANGED calls /\ calls[k].request = conn[c].request
      BY <1>6, <2>2 DEF Reuse, SameRequest
    <3> HIDE DEF ExecTypeOK, ConnRecord, NoConn
    <3> QED  BY <2>1, <3>2, <3>3, <3>4, ServedExec DEF ExecInv
  <2>3. CASE ~SameRequest(c, k)
    <3>1. [conn[c] EXCEPT !.at = "refused"] \in ConnRecord /\ NoConn \in ConnRecord
      BY ExecAssumption DEF ExecInv
    <3>2. conn' = Written(c, "refused") /\ memo' = Pruned /\ UNCHANGED calls
      BY <1>6, <2>3 DEF Reuse
    <3>3. conn' \in [Connection -> ConnRecord]
      BY <3>1, <3>2 DEF Written, ExecInv
    <3>4. \A d \in Connection : conn'[d].at \in {"executing", "answered"} => conn'[d] = conn[d]
      BY <3>2 DEF Written, ExecInv
    <3> QED  BY <3>2, <3>3, <3>4, ServedExec DEF ExecInv
  <2> QED  BY <2>2, <2>3
<1> QED  BY <1>1, <1>2, <1>3, <1>4, <1>5, <1>6 DEF CallerStep

LEMMA StartExec == ASSUME ExecInv, NEW c \in Connection, NEW k \in Number, StartCall(c, k)
                   PROVE  ExecInv'
<1>1. /\ calls[k].state = "unused"
      /\ calls' = [calls EXCEPT ![k] = [state |-> "running", request |-> conn[c].request]]
      /\ memo' = Pruned \cup {k}
      /\ conn' = [conn EXCEPT ![c].at = "executing", ![c].call = k]
  BY DEF StartCall, NextNumber
<1>3. ExecTypeOK'
  <2>1. conn[c] \in ConnRecord
    BY DEF ExecInv, ExecTypeOK
  <2>2. calls' \in [Number -> CallRecord]
    <3>1. conn[c].request \in Request \cup {NoRequest}
      BY <2>1 DEF ConnRecord
    <3>2. [state |-> "running", request |-> conn[c].request] \in CallRecord
      BY <3>1 DEF CallRecord
    <3> QED  BY <1>1, <3>2 DEF ExecInv, ExecTypeOK
  <2>3. conn' \in [Connection -> ConnRecord]
    BY <1>1, ConnExecuting DEF ExecInv, ExecTypeOK
  <2> QED  BY <1>1, <2>2, <2>3, PrunedFacts DEF ExecInv, ExecTypeOK
<1>4. /\ calls'[k].state = "running" /\ calls'[k].request = conn[c].request
      /\ \A j \in Number \ {k} : calls'[j] = calls[j]
  BY <1>1 DEF ExecInv, ExecTypeOK
<1>5. \A j \in memo' : calls'[j].state # "unused"
  BY <1>1, <1>4, PrunedFacts DEF ExecInv, ExecTypeOK
<1>6. \A j \in Number : calls'[j].state = "running" => j \in memo'
  BY <1>1, <1>4, PrunedFacts
<1>7. \A d \in Connection :
          conn'[d].at \in {"executing", "answered"} =>
              /\ conn'[d].call \in Number
              /\ calls'[conn'[d].call].state # "unused"
              /\ calls'[conn'[d].call].request = conn'[d].request
  BY <1>1, <1>4 DEF ExecInv, ExecTypeOK, ConnRecord
<1>8. ASSUME NEW j \in Number, calls'[j].state = "fresh", j \notin memo'
      PROVE  MaxEntries <= Cardinality(UsedBeside(j)')
  <2>1. j # k /\ calls[j].state = "fresh" /\ j \notin Pruned
    BY <1>1, <1>4, <1>8
  <2>2. MaxEntries <= Cardinality(UsedBeside(j))
    BY <2>1, PrunedFacts
  <2> QED  BY <1>4, <2>2, UsedGrows
<1>9. OneRunning'
  <2>1. ASSUME NEW j \in Number \ {k}, calls'[j].state = "running",
               IdOf[calls'[j].request] = IdOf[calls'[k].request]
        PROVE  FALSE
    BY <1>4, <2>1, PrunedFacts DEF StartCall, SameId
  <2> QED  BY <1>4, <2>1 DEF ExecInv, OneRunning
<1> QED  BY <1>3, <1>5, <1>6, <1>7, <1>8, <1>9 DEF ExecInv

LEMMA CallExec == ASSUME ExecInv, NEW k \in Number, CallEnds(k) \/ GrowOld(k) PROVE ExecInv'
<1>1. /\ calls[k].state \in {"running", "fresh"}
      /\ calls[k].state = "fresh" => calls'[k].state = "old"
      /\ calls'[k].state \in Completed /\ calls'[k].request = calls[k].request
      /\ \A j \in Number \ {k} : calls'[j] = calls[j]
      /\ UNCHANGED <<memo, conn>> /\ calls' \in [Number -> CallRecord]
  BY DEF CallEnds, GrowOld, ExecInv, ExecTypeOK, CallRecord, Completed
<1>2. ASSUME NEW j \in Number, calls'[j].state = "fresh", j \notin memo
      PROVE  MaxEntries <= Cardinality(UsedBeside(j)')
  <2>1. j # k
    BY <1>1, <1>2 DEF ExecInv
  <2> QED  BY <1>1, <1>2, <2>1, UsedGrows DEF ExecInv, Completed
<1>3. ExecTypeOK'
  BY <1>1 DEF ExecInv, ExecTypeOK
<1>4. OneRunning'
  BY <1>1 DEF ExecInv, OneRunning, Completed
<1>5. \A d \in Connection :
          conn[d].at \in {"executing", "answered"} =>
              /\ calls'[conn[d].call].state # "unused"
              /\ calls'[conn[d].call].request = conn[d].request
  BY <1>1 DEF ExecInv, Completed
<1>6. /\ \A j \in memo : calls'[j].state # "unused"
      /\ \A j \in Number : calls'[j].state = "running" => j \in memo
  BY <1>1 DEF ExecInv, ExecTypeOK, Completed
<1> QED  BY <1>1, <1>2, <1>3, <1>4, <1>5, <1>6 DEF ExecInv

LEMMA EmptyExec ==
    ASSUME calls = [k \in Number |-> NoCall], memo = {}, conn = [c \in Connection |-> NoConn]
    PROVE  ExecInv
<1>1. NoCall \in CallRecord /\ NoConn \in ConnRecord
  BY ExecAssumption DEF NoCall, CallRecord, NoConn, ConnRecord
<1> QED  BY <1>1 DEF ExecInv, ExecTypeOK, NoCall, NoConn, OneRunning

LEMMA ExecStep == ASSUME ExecInv, [ExecNext]_execVars PROVE ExecInv'
<1>1. CASE UNCHANGED execVars
  BY <1>1 DEF execVars, ExecInv, ExecTypeOK, OneRunning, UsedBeside
<1>2. CASE Restart
  <2>1. NoCall \in CallRecord /\ NoConn \in ConnRecord
    BY ExecAssumption DEF NoCall, CallRecord, NoConn, ConnRecord
  <2> QED  BY <1>2, <2>1 DEF Restart, ExecInv, ExecTypeOK, NoCall, NoConn, OneRunning
<1>3. ASSUME NEW c \in Connection, ServeStep(c) \/ CallerStep(c) PROVE ExecInv'
  BY <1>3, AnsweringExec, StartExec DEF ServeStep
<1> QED  BY <1>1, <1>2, <1>3, CallExec DEF ExecNext

LEMMA ExecStarts == ASSUME ExecInit PROVE ExecInv
BY EmptyExec DEF ExecInit

LEMMA ExecInvariant == ExecSpec => []ExecInv
<1> QED  BY ExecStarts, ExecStep, PTL DEF ExecSpec

(* The variables of the runtime have the types they should.                  *)
THEOREM ExecTypesHold == ExecSpec => []ExecTypeOK
<1>1. ExecInv => ExecTypeOK
  BY DEF ExecInv
<1> QED  BY <1>1, ExecInvariant, PTL

(* A runtime never runs two commands for one request id at a time, and gives *)
(* everybody the result of his own request.                                  *)
THEOREM ExecRunsOnce == ExecSpec => [](OneRunning /\ OwnResult)
<1>1. ExecInv => OneRunning /\ OwnResult
  BY DEF ExecInv, OwnResult
<1> QED  BY <1>1, ExecInvariant, PTL

(* It executes a request id again only when the earlier result is too old or *)
(* has been pushed out by as many other calls as the memo holds.             *)
THEOREM ExecForgetsInOrder == ExecSpec => RepeatsAreForgotten
<1>1. ASSUME ExecInv, [ExecNext]_execVars, NEW j \in Number, NEW k \in Number,
             calls[k].state = "unused", calls'[k].state = "running",
             calls[j].state # "unused", IdOf[calls[j].request] = IdOf[calls'[k].request]
      PROVE  /\ calls[j].state # "running"
             /\ \/ calls[j].state = "old"
                \/ MaxEntries <= Cardinality({i \in Number \ {j} : calls[i].state # "unused"})
  <2>1. PICK c \in Connection, l \in Number : StartCall(c, l)
    <3>1. CASE UNCHANGED calls
      BY <1>1, <3>1
    <3>2. ~Restart
      BY <1>1 DEF Restart, NoCall
    <3>3. ASSUME NEW l \in Number, CallEnds(l) \/ GrowOld(l) PROVE FALSE
      BY <1>1, <3>3 DEF CallEnds, GrowOld, ExecInv, ExecTypeOK
    <3> QED
      BY <1>1, <3>1, <3>2, <3>3 DEF ExecNext, execVars, ServeStep, CallerStep, Refuse, Emit,
         Reuse, Receive, GiveUp, Send
  <2>2. l = k /\ calls'[k].request = conn[c].request
    BY <1>1, <2>1 DEF StartCall, NextNumber, ExecInv, ExecTypeOK
  <2>3. j \notin Pruned
    BY <1>1, <2>1, <2>2 DEF StartCall, SameId
  <2>4. calls[j].state \in {"fresh", "old"}
    BY <1>1, <2>3, PrunedFacts DEF ExecInv, ExecTypeOK, CallRecord, Completed
  <2> QED  BY <1>1, <2>3, <2>4, PrunedFacts DEF UsedBeside
<1>2. ExecInv /\ [ExecNext]_execVars =>
          \A j, k \in Number :
              /\ calls[k].state = "unused" /\ calls'[k].state = "running"
              /\ calls[j].state # "unused" /\ IdOf[calls[j].request] = IdOf[calls'[k].request]
              => /\ calls[j].state # "running"
                 /\ \/ calls[j].state = "old"
                    \/ MaxEntries <= Cardinality({i \in Number \ {j} :
                                                    calls[i].state # "unused"})
  BY <1>1
<1> QED  BY <1>2, ExecInvariant, PTL DEF ExecSpec, RepeatsAreForgotten

-----------------------------------------------------------------------------
(* The retention of the traces.                                              *)

Busy == {"reading", "renaming", "dropping"}
FileOf(p) == Min(p.todo)

\* The locals of a process: it never works on the file it takes for the present day's.
Sane(p, present) ==
    /\ p.active <= present /\ p.active \notin p.todo /\ <<p.active, "raw">> \notin p.gone
    /\ p.at \in {"idle", "appending", "listing"} => p.todo = {} /\ p.gone = {}
    /\ p.at \in Busy => p.todo # {}

\* Every line is of one day.
Homes(home, r, z, procs, n) ==
    /\ \A d \in Day : \A l \in r[d] \cup z[d] : l <= n /\ home[l] = d
    /\ \A w \in Writer : procs[w].at = "renaming" =>
          \A l \in procs[w].buffer : l <= n /\ home[l] = FileOf(procs[w])

\* What a process still has to do with a file loses none of the good lines.
Harmless(p, r, z, good) ==
    LET d == FileOf(p) IN
    /\ p.at = "reading" /\ r[d] # {} => good \cap z[d] \subseteq r[d]
    /\ p.at = "renaming" => /\ good \cap (r[d] \cup z[d]) \subseteq p.buffer
                            /\ r[d] # {} => good \cap p.buffer \subseteq r[d]
    /\ p.at = "dropping" => good \cap r[d] \subseteq z[d]

Kept(r, z, procs, good) ==
    /\ \A l \in good : \E d \in Day : l \in r[d] \cup z[d]
    /\ \A d \in Day : z[d] # {} => good \cap r[d] \subseteq z[d]
    /\ \A w \in Writer : Harmless(procs[w], r, z, good)

Good == undisturbed \ retired

TraceInv ==
    /\ TraceTypeOK
    /\ \A w \in Writer : Sane(work[w], day)
    /\ \A l \in undisturbed : l <= written
    /\ \E home \in [Line -> Day] : Homes(home, raw, zst, work, written)
    /\ Kept(raw, zst, work, Good)

LEMMA FileFacts ==
    ASSUME NEW p \in Work, NEW present, Sane(p, present), p.at \in Busy
    PROVE  FileOf(p) \in Day /\ FileOf(p) \in p.todo /\ FileOf(p) # p.active
<1>1. p.todo \in SUBSET Nat /\ p.todo # {} /\ p.todo \subseteq Day
  BY DEF Sane, Work, Day
<1>2. Min(p.todo) \in p.todo
  BY <1>1, LeastIndex
<1> QED  BY <1>1, <1>2 DEF FileOf, Sane

LEMMA RestingFacts == Resting \in Work /\ Resting.at = "idle" /\ Resting.active = 1
                      /\ Resting.todo = {} /\ Resting.gone = {}
BY TraceAssumption DEF Resting, Work, Day

LEMMA TraceStarts == ASSUME TraceInit PROVE TraceInv
<1>1. TraceTypeOK
  BY RestingFacts, TraceAssumption DEF TraceInit, TraceTypeOK, Day
<1>2. \A w \in Writer : Sane(work[w], day)
  BY RestingFacts DEF TraceInit, Sane, Busy
<1>3. Good = {} /\ \A d \in Day : raw[d] = {} /\ zst[d] = {}
  BY DEF TraceInit, Good
<1>4. \A w \in Writer : work[w].at = "idle"
  BY RestingFacts DEF TraceInit
<1>5. \A home \in [Line -> Day] : Homes(home, raw, zst, work, written)
  BY <1>3, <1>4 DEF Homes
<1>6. [l \in Line |-> 1] \in [Line -> Day]
  BY TraceAssumption DEF Day
<1>7. Kept(raw, zst, work, Good)
  BY <1>3, <1>4 DEF Kept, Harmless
<1> QED  BY <1>1, <1>2, <1>5, <1>6, <1>7 DEF TraceInit, TraceInv

\* A step of one process on its locals: it goes on with the file as it is.
LEMMA LocalKeeps ==
    ASSUME TraceInv, NEW w \in Writer, NEW p \in Work, Sane(p, day),
           p.at = "renaming" => \A l \in p.buffer : l \in raw[FileOf(p)],
           Harmless(p, raw, zst, Good),
           work' = [work EXCEPT ![w] = p],
           UNCHANGED <<day, raw, zst, written, undisturbed, retired>>
    PROVE  TraceInv'
<1>1. work \in [Writer -> Work]
  BY DEF TraceInv, TraceTypeOK
<1>2. /\ work' \in [Writer -> Work] /\ work'[w] = p
      /\ \A v \in Writer \ {w} : work'[v] = work[v]
  BY <1>1
<1>3. TraceTypeOK'
  BY <1>2 DEF TraceInv, TraceTypeOK
<1>4. PICK home \in [Line -> Day] : Homes(home, raw, zst, work, written)
  BY DEF TraceInv
<1>5. Homes(home, raw, zst, work', written)
  <2>1. ASSUME p.at = "renaming" PROVE \A l \in p.buffer : l <= written /\ home[l] = FileOf(p)
    <3>1. FileOf(p) \in Day
      BY <2>1, FileFacts DEF Busy
    <3> QED  BY <1>4, <2>1, <3>1 DEF Homes
  <2> QED  BY <1>2, <1>4, <2>1 DEF Homes
<1>6. Kept(raw, zst, work', Good)
  BY <1>2 DEF TraceInv, Kept
<1>7. \A v \in Writer : Sane(work'[v], day)
  BY <1>2 DEF TraceInv
<1> QED  BY <1>3, <1>4, <1>5, <1>6, <1>7 DEF TraceInv, Good

LEMMA LocalTrace ==
    ASSUME TraceInv, NEW w \in Writer,
           \/ Record(w) \/ Construct(w) \/ List(w) \/ NextFile(w) \/ ReadRaw(w)
           \/ MeasureTraces(w) \/ Die(w)
    PROVE  TraceInv'
<1>1. PICK p : p = work[w]
  OBVIOUS
<1>2. p \in Work /\ Sane(p, day) /\ Harmless(p, raw, zst, Good) /\ day \in Day
      /\ work \in [Writer -> Work]
  BY <1>1 DEF TraceInv, TraceTypeOK, Kept
<1>3. /\ p.active \in Day /\ p.todo \in SUBSET Day /\ day <= day /\ p.buffer \in SUBSET Line
      /\ p.gone \in SUBSET TraceFile
  BY <1>2 DEF Work, Day
<1>4. ASSUME NEW q \in Work, Sane(q, day), q.at \notin Busy,
             work' = [work EXCEPT ![w] = q],
             UNCHANGED <<day, raw, zst, written, undisturbed, retired>>
      PROVE  TraceInv'
  <2>1. Harmless(q, raw, zst, Good) /\ q.at # "renaming"
    BY <1>4 DEF Harmless, Busy
  <2> QED  BY <1>4, <2>1, LocalKeeps
<1>5. CASE Record(w) \/ Construct(w)
  <2>1. PICK at \in {"appending", "listing"} :
           work' = [work EXCEPT ![w].at = at, ![w].active = day]
    BY <1>5 DEF Record, Construct
  <2>2. PICK q : q = [p EXCEPT !.at = at, !.active = day]
    OBVIOUS
  <2>3. p.at = "idle" /\ UNCHANGED <<day, raw, zst, written, undisturbed, retired>>
    BY <1>1, <1>5 DEF Record, Construct
  <2>4. q \in Work /\ q.at = at /\ q.active = day /\ q.todo = p.todo /\ q.gone = p.gone
    BY <1>2, <2>2 DEF Work
  <2>5. work' = [work EXCEPT ![w] = q]
    BY <1>1, <1>2, <2>1, <2>2
  <2>6. Sane(q, day) /\ q.at \notin Busy
    BY <1>2, <1>3, <2>3, <2>4 DEF Sane, Busy
  <2> QED  BY <1>4, <2>3, <2>4, <2>5, <2>6
<1>6. CASE List(w)
  <2>1. PICK q : q = [p EXCEPT !.at = "next", !.todo = Inactive(w)]
    OBVIOUS
  <2>2. Inactive(w) \in SUBSET Day /\ p.active \notin Inactive(w)
    BY <1>1 DEF Inactive
  <2>3. /\ q \in Work /\ q.at = "next" /\ q.active = p.active /\ q.todo = Inactive(w)
        /\ q.gone = p.gone
    BY <1>2, <2>1, <2>2 DEF Work
  <2>4. work' = [work EXCEPT ![w] = q] /\ UNCHANGED <<day, raw, zst, written, undisturbed, retired>>
    BY <1>1, <1>2, <1>6, <2>1 DEF List
  <2>5. Sane(q, day) /\ q.at \notin Busy
    BY <1>2, <2>2, <2>3 DEF Sane, Busy
  <2> QED  BY <1>4, <2>3, <2>4, <2>5
<1>7. Sane(Resting, day) /\ Resting.at \notin Busy
  BY <1>2, RestingFacts DEF Sane, Busy, Day
<1>8. CASE Die(w)
  <2>1. /\ work' = [work EXCEPT ![w] = Resting]
        /\ UNCHANGED <<day, raw, zst, written, undisturbed, retired>>
    BY <1>8 DEF Die
  <2> QED  BY <1>4, <1>7, <2>1, RestingFacts
<1>9. CASE MeasureTraces(w)
  <2>1. UNCHANGED <<day, raw, zst, written, undisturbed, retired>>
    BY <1>9 DEF MeasureTraces
  <2>2. PICK es \in SUBSET Removable(w) :
           work' = IF es = {} THEN [work EXCEPT ![w] = Resting]
                   ELSE [work EXCEPT ![w].at = "trimming", ![w].gone = es]
    BY <1>9 DEF MeasureTraces, Surpluses
  <2>3. CASE es = {}
    BY <1>4, <1>7, <2>1, <2>2, <2>3, RestingFacts
  <2>4. CASE es # {}
    <3>1. PICK q : q = [p EXCEPT !.at = "trimming", !.gone = es]
      OBVIOUS
    <3>2. es \in SUBSET TraceFile /\ <<p.active, "raw">> \notin es
      BY <1>1 DEF Removable
    <3>3. /\ q \in Work /\ q.at = "trimming" /\ q.active = p.active /\ q.todo = p.todo
          /\ q.gone = es
      BY <1>2, <3>1, <3>2 DEF Work
    <3>4. work' = [work EXCEPT ![w] = q]
      BY <1>1, <1>2, <2>2, <2>4, <3>1
    <3>5. Sane(q, day) /\ q.at \notin Busy
      BY <1>2, <3>2, <3>3 DEF Sane, Busy
    <3> QED  BY <1>4, <2>1, <3>3, <3>4, <3>5
  <2> QED  BY <2>3, <2>4
<1>10. CASE NextFile(w)
  <2>1. PICK at, gone :
           /\ work' = [work EXCEPT ![w].at = at, ![w].gone = gone]
           /\ at = IF p.todo = {} THEN "aging"
                   ELSE IF zst[FileOf(p)] # {} THEN "dropping" ELSE "reading"
           /\ gone = IF p.todo = {} THEN Expired(w) ELSE p.gone
    <3>1. CASE p.todo = {}
      BY <1>1, <1>10, <3>1 DEF NextFile
    <3>2. CASE p.todo # {}
      <4>1. PICK at : /\ work' = [work EXCEPT ![w].at = at]
                      /\ at = IF zst[FileOf(p)] # {} THEN "dropping" ELSE "reading"
        BY <1>1, <1>10, <3>2 DEF NextFile, Moved, Existing, CurrentFile, FileOf
      <4>2. [work EXCEPT ![w].at = at] = [work EXCEPT ![w].at = at, ![w].gone = p.gone]
        BY <1>1, <1>2 DEF Work
      <4> QED  BY <3>2, <4>1, <4>2
    <3> QED  BY <3>1, <3>2
  <2>2. PICK q : q = [p EXCEPT !.at = at, !.gone = gone]
    OBVIOUS
  <2>9. gone \in SUBSET TraceFile /\ <<p.active, "raw">> \notin gone
    BY <1>1, <1>2, <1>3, <2>1 DEF Expired, Removable, Sane
  <2>3. q \in Work /\ q.at = at /\ q.active = p.active /\ q.todo = p.todo /\ q.gone = gone
    BY <1>2, <2>1, <2>2, <2>9 DEF Work
  <2>4. work' = [work EXCEPT ![w] = q] /\ UNCHANGED <<day, raw, zst, written, undisturbed, retired>>
    BY <1>1, <1>2, <1>10, <2>1, <2>2 DEF NextFile
  <2>5. Sane(q, day)
    BY <1>2, <2>1, <2>3, <2>9 DEF Sane, Busy
  <2>6. CASE p.todo = {}
    <3>1. q.at \notin Busy
      BY <2>1, <2>3, <2>6 DEF Busy
    <3> QED  BY <1>4, <2>3, <2>4, <2>5, <3>1
  <2>7. CASE p.todo # {}
    <3>1. FileOf(q) = FileOf(p) /\ q.at \in {"dropping", "reading"}
      BY <2>1, <2>3, <2>7 DEF FileOf
    <3>2. FileOf(q) \in Day
      BY <2>3, <2>5, <3>1, FileFacts DEF Busy
    <3>3. Harmless(q, raw, zst, Good)
      BY <2>1, <2>3, <2>7, <3>1, <3>2 DEF Harmless, TraceInv, Kept
    <3> QED  BY <2>3, <2>4, <2>5, <3>1, <3>3, LocalKeeps
  <2> QED  BY <2>6, <2>7
<1>11. CASE ReadRaw(w)
  <2>0. /\ UNCHANGED <<day, raw, zst, written, undisturbed, retired>>
        /\ p.at = "reading" /\ CurrentFile(w) = FileOf(p)
    BY <1>1, <1>11 DEF ReadRaw, CurrentFile, FileOf
  <2>00. FileOf(p) \in Day /\ FileOf(p) \in p.todo
    BY <1>2, <2>0, FileFacts DEF Busy
  <2>1. CASE raw[FileOf(p)] = {}
    <3>1. PICK q : q = [p EXCEPT !.at = "next", !.todo = p.todo \ {FileOf(p)}, !.buffer = {}]
      OBVIOUS
    <3>2. /\ q \in Work /\ q.at = "next" /\ q.active = p.active
          /\ q.todo = p.todo \ {FileOf(p)} /\ q.gone = p.gone
      BY <1>2, <3>1 DEF Work
    <3>3. work' = [work EXCEPT ![w] = q]
      BY <1>1, <1>2, <1>11, <2>0, <2>1, <3>1 DEF ReadRaw, Done
    <3>4. Sane(q, day) /\ q.at \notin Busy
      BY <1>2, <3>2 DEF Sane, Busy
    <3> QED  BY <1>4, <2>0, <3>2, <3>3, <3>4
  <2>2. CASE raw[FileOf(p)] # {}
    <3>1. PICK q : q = [p EXCEPT !.at = "renaming", !.buffer = raw[FileOf(p)]]
      OBVIOUS
    <3>2. raw[FileOf(p)] \in SUBSET Line
      BY <2>00 DEF TraceInv, TraceTypeOK
    <3>3. /\ q \in Work /\ q.at = "renaming" /\ q.active = p.active /\ q.todo = p.todo
          /\ q.buffer = raw[FileOf(p)] /\ FileOf(q) = FileOf(p) /\ q.gone = p.gone
      BY <1>2, <3>1, <3>2 DEF Work, FileOf
    <3>4. work' = [work EXCEPT ![w] = q]
      BY <1>1, <1>2, <1>11, <2>0, <2>2, <3>1 DEF ReadRaw
    <3>5. Sane(q, day)
      BY <1>2, <2>0, <3>3 DEF Sane, Busy
    <3>6. Harmless(q, raw, zst, Good)
      BY <1>2, <2>0, <2>2, <3>3 DEF Harmless
    <3>7. \A l \in q.buffer : l \in raw[FileOf(q)]
      BY <3>3
    <3> QED  BY <2>0, <3>3, <3>4, <3>5, <3>6, <3>7, LocalKeeps
  <2> QED  BY <2>1, <2>2
<1> QED  BY <1>5, <1>6, <1>8, <1>9, <1>10, <1>11

\* What is in the buffer of a process and still counts is in the file's day.
LEMMA BufferKept ==
    ASSUME TraceInv, NEW w \in Writer, work[w].at = "renaming",
           NEW l \in Good \cap work[w].buffer
    PROVE  l \in raw[FileOf(work[w])] \cup zst[FileOf(work[w])]
<1>1. PICK home \in [Line -> Day] : Homes(home, raw, zst, work, written)
  BY DEF TraceInv
<1>2. PICK d \in Day : l \in raw[d] \cup zst[d]
  BY DEF TraceInv, Kept
<1>3. home[l] = d /\ home[l] = FileOf(work[w])
  BY <1>1, <1>2 DEF Homes
<1> QED  BY <1>2, <1>3

LEMMA RenameTrace == ASSUME TraceInv, NEW w \in Writer, Rename(w) PROVE TraceInv'
<1>1. PICK p, d : p = work[w] /\ d = FileOf(p)
  OBVIOUS
<1>2. p \in Work /\ Sane(p, day) /\ p.at = "renaming" /\ work \in [Writer -> Work]
      /\ Harmless(p, raw, zst, Good)
  BY <1>1 DEF TraceInv, TraceTypeOK, Kept, Rename
<1>3. d \in Day /\ d \in p.todo
  BY <1>1, <1>2, FileFacts DEF Busy
<1>4. PICK q : q = [p EXCEPT !.at = "dropping"]
  OBVIOUS
<1>5. /\ q \in Work /\ q.at = "dropping" /\ q.active = p.active /\ q.todo = p.todo
      /\ FileOf(q) = d /\ q.gone = p.gone
  BY <1>1, <1>2, <1>4 DEF Work, FileOf
<1>6. /\ work' = [work EXCEPT ![w] = q] /\ zst' = [zst EXCEPT ![d] = p.buffer]
      /\ UNCHANGED <<day, raw, written, undisturbed, retired>>
  BY <1>1, <1>2, <1>4 DEF Rename, Moved, CurrentFile, FileOf
<1>7. /\ raw \in [Day -> SUBSET Line] /\ zst \in [Day -> SUBSET Line]
      /\ p.buffer \in SUBSET Line
  BY <1>2 DEF TraceInv, TraceTypeOK, Work
<1>8. /\ zst' \in [Day -> SUBSET Line] /\ zst'[d] = p.buffer
      /\ \A e \in Day \ {d} : zst'[e] = zst[e]
  BY <1>3, <1>6, <1>7
<1>9. /\ work' \in [Writer -> Work] /\ work'[w] = q
      /\ \A v \in Writer \ {w} : work'[v] = work[v]
  BY <1>2, <1>5, <1>6
<1>10. TraceTypeOK'
  BY <1>6, <1>8, <1>9 DEF TraceInv, TraceTypeOK
<1>11. PICK home \in [Line -> Day] : Homes(home, raw, zst, work, written)
  BY DEF TraceInv
<1>12. Homes(home, raw, zst', work', written)
  <2>1. \A l \in p.buffer : l <= written /\ home[l] = d
    BY <1>1, <1>2, <1>11 DEF Homes
  <2> QED  BY <1>5, <1>8, <1>9, <1>11, <2>1 DEF Homes
<1>13. \A l \in Good \cap p.buffer : l \in raw[d] \cup zst[d]
  BY <1>1, <1>2, BufferKept
<1>14. /\ Good \cap (raw[d] \cup zst[d]) \subseteq p.buffer
       /\ raw[d] # {} => Good \cap p.buffer \subseteq raw[d]
  BY <1>1, <1>2 DEF Harmless
<1>15. \A l \in Good : \E e \in Day : l \in raw[e] \cup zst'[e]
  BY <1>3, <1>8, <1>14 DEF TraceInv, Kept
<1>16. \A e \in Day : zst'[e] # {} => Good \cap raw[e] \subseteq zst'[e]
  BY <1>8, <1>14 DEF TraceInv, Kept
<1>17. ASSUME NEW v \in Writer PROVE Harmless(work'[v], raw, zst', Good)
  <2>1. CASE v = w
    BY <1>5, <1>8, <1>9, <1>14, <2>1 DEF Harmless
  <2>2. CASE v # w /\ (FileOf(work[v]) # d \/ work[v].at \notin Busy)
    <3>1. Harmless(work[v], raw, zst, Good) /\ work[v] \in Work /\ Sane(work[v], day)
      BY DEF TraceInv, TraceTypeOK, Kept
    <3>2. work[v].at \in Busy => FileOf(work[v]) \in Day \ {d}
      BY <2>2, <3>1, FileFacts
    <3> QED  BY <1>8, <1>9, <2>2, <3>1, <3>2 DEF Harmless, Busy
  <2>3. CASE v # w /\ FileOf(work[v]) = d
    <3>1. Harmless(work[v], raw, zst, Good)
      BY DEF TraceInv, Kept
    <3> QED  BY <1>8, <1>9, <1>13, <1>14, <2>3, <3>1 DEF Harmless
  <2> QED  BY <2>1, <2>2, <2>3
<1>18. Kept(raw, zst', work', Good)
  BY <1>15, <1>16, <1>17 DEF Kept
<1>19. \A v \in Writer : Sane(work'[v], day)
  BY <1>2, <1>5, <1>9 DEF TraceInv, Sane, Busy
<1> QED  BY <1>6, <1>10, <1>12, <1>18, <1>19 DEF TraceInv, Good

LEMMA DropTrace == ASSUME TraceInv, NEW w \in Writer, DropRaw(w) PROVE TraceInv'
<1>1. PICK p, d : p = work[w] /\ d = FileOf(p)
  OBVIOUS
<1>2. p \in Work /\ Sane(p, day) /\ p.at = "dropping" /\ work \in [Writer -> Work]
      /\ Harmless(p, raw, zst, Good)
  BY <1>1 DEF TraceInv, TraceTypeOK, Kept, DropRaw
<1>3. d \in Day /\ d \in p.todo
  BY <1>1, <1>2, FileFacts DEF Busy
<1>4. PICK q : q = [p EXCEPT !.at = "next", !.todo = p.todo \ {d}, !.buffer = {}]
  OBVIOUS
<1>5. /\ q \in Work /\ q.at = "next" /\ q.active = p.active /\ q.todo = p.todo \ {d}
      /\ q.gone = p.gone
  BY <1>2, <1>4 DEF Work
<1>6. /\ work' = [work EXCEPT ![w] = q] /\ raw' = [raw EXCEPT ![d] = {}]
      /\ UNCHANGED <<day, zst, written, undisturbed, retired>>
  BY <1>1, <1>2, <1>4 DEF DropRaw, Done, CurrentFile, FileOf
<1>7. raw \in [Day -> SUBSET Line]
  BY DEF TraceInv, TraceTypeOK
<1>8. /\ raw' \in [Day -> SUBSET Line] /\ raw'[d] = {}
      /\ \A e \in Day \ {d} : raw'[e] = raw[e]
  BY <1>3, <1>6, <1>7
<1>9. /\ work' \in [Writer -> Work] /\ work'[w] = q
      /\ \A v \in Writer \ {w} : work'[v] = work[v]
  BY <1>2, <1>5, <1>6
<1>10. TraceTypeOK'
  BY <1>6, <1>8, <1>9 DEF TraceInv, TraceTypeOK
<1>11. PICK home \in [Line -> Day] : Homes(home, raw, zst, work, written)
  BY DEF TraceInv
<1>12. Homes(home, raw', zst, work', written)
  BY <1>5, <1>8, <1>9, <1>11 DEF Homes
<1>13. Good \cap raw[d] \subseteq zst[d]
  BY <1>1, <1>2 DEF Harmless
<1>14. \A l \in Good : \E e \in Day : l \in raw'[e] \cup zst[e]
  BY <1>8, <1>13 DEF TraceInv, Kept
<1>15. \A e \in Day : raw'[e] \subseteq raw[e]
  BY <1>8
<1>16. ASSUME NEW v \in Writer PROVE Harmless(work'[v], raw', zst, Good)
  <2>1. CASE v = w
    BY <1>5, <1>9, <2>1 DEF Harmless
  <2>2. CASE v # w
    <3>1. Harmless(work[v], raw, zst, Good) /\ work[v] \in Work /\ Sane(work[v], day)
      BY DEF TraceInv, TraceTypeOK, Kept
    <3>2. work[v].at \in Busy => FileOf(work[v]) \in Day
      BY <3>1, FileFacts
    <3> QED  BY <1>8, <1>9, <2>2, <3>1, <3>2 DEF Harmless, Busy
  <2> QED  BY <2>1, <2>2
<1>17. Kept(raw', zst, work', Good)
  BY <1>14, <1>15, <1>16 DEF Kept, TraceInv
<1>18. \A v \in Writer : Sane(work'[v], day)
  BY <1>2, <1>5, <1>9 DEF TraceInv, Sane, Busy
<1> QED  BY <1>6, <1>10, <1>12, <1>17, <1>18 DEF TraceInv, Good

LEMMA AppendTrace ==
    ASSUME TraceInv, NEW w \in Writer, NEW maintain \in BOOLEAN, AppendLine(w, maintain)
    PROVE  TraceInv'
<1>1. PICK p, d, n : p = work[w] /\ d = p.active /\ n = written + 1
  OBVIOUS
<1>2. p \in Work /\ Sane(p, day) /\ p.at = "appending" /\ work \in [Writer -> Work]
  BY <1>1 DEF TraceInv, TraceTypeOK, AppendLine
<1>3. d \in Day /\ n \in Line /\ n \in 0..LastLine /\ written < n /\ written \in Nat
  BY <1>1, <1>2, TraceAssumption DEF Work, AppendLine, TraceInv, TraceTypeOK, Line
<1>4. PICK at \in {"listing", "idle"} : work' = [work EXCEPT ![w].at = at]
  BY DEF AppendLine, Moved
<1>5. PICK q : q = [p EXCEPT !.at = at]
  OBVIOUS
<1>6. /\ q \in Work /\ q.at = at /\ q.active = p.active /\ q.todo = p.todo
      /\ q.gone = p.gone
  BY <1>2, <1>5 DEF Work
<1>7. /\ work' \in [Writer -> Work] /\ work'[w] = q
      /\ \A v \in Writer \ {w} : work'[v] = work[v]
  BY <1>1, <1>2, <1>4, <1>5, <1>6
<1>8. raw \in [Day -> SUBSET Line] /\ raw' = [raw EXCEPT ![d] = raw[d] \cup {n}]
      /\ written' = n /\ UNCHANGED <<day, zst, retired>>
  BY <1>1 DEF AppendLine, TraceInv, TraceTypeOK
<1>9. /\ raw' \in [Day -> SUBSET Line] /\ raw'[d] = raw[d] \cup {n}
      /\ \A e \in Day \ {d} : raw'[e] = raw[e]
  BY <1>3, <1>8
<1>10. PICK quiet \in BOOLEAN :
         /\ quiet = (zst[d] = {} /\ \A v \in Writer : ~Disturbs(v, d))
         /\ undisturbed' = IF quiet THEN undisturbed \cup {n}
                           ELSE undisturbed \ (raw[d] \cup zst[d])
  BY <1>1 DEF AppendLine
<1>11. TraceTypeOK'
  BY <1>3, <1>7, <1>8, <1>9, <1>10 DEF TraceInv, TraceTypeOK
<1>12. PICK home \in [Line -> Day] : Homes(home, raw, zst, work, written)
  BY DEF TraceInv
<1>13. PICK after : after = [home EXCEPT ![n] = d]
  OBVIOUS
<1>14. /\ after \in [Line -> Day] /\ after[n] = d
       /\ \A l \in Line : l # n => after[l] = home[l]
  BY <1>3, <1>13
<1>15. /\ zst \in [Day -> SUBSET Line]
       /\ \A v \in Writer : work[v].buffer \in SUBSET Line /\ work[v] \in Work
  BY <1>2 DEF TraceInv, TraceTypeOK, Work
<1>16. ASSUME NEW l \in Line, l <= written PROVE l <= n /\ l # n /\ after[l] = home[l]
  BY <1>3, <1>14, <1>16 DEF Line
<1>17. Homes(after, raw', zst, work', n)
  <2>1. ASSUME NEW e \in Day, NEW l \in raw'[e] \cup zst[e] PROVE l <= n /\ after[l] = e
    <3>1. l \in raw[e] \cup zst[e] \/ (l = n /\ e = d)
      BY <1>3, <1>9
    <3>2. CASE l \in raw[e] \cup zst[e]
      <4>1. l <= written /\ home[l] = e /\ l \in Line
        BY <1>8, <1>12, <1>15, <3>2 DEF Homes
      <4> QED  BY <1>16, <4>1
    <3> QED  BY <1>3, <1>14, <3>1, <3>2
  <2>2. ASSUME NEW v \in Writer, work'[v].at = "renaming", NEW l \in work'[v].buffer
        PROVE  l <= n /\ after[l] = FileOf(work'[v])
    <3>1. work'[v] = work[v]
      BY <1>6, <1>7, <2>2
    <3>2. l <= written /\ home[l] = FileOf(work[v]) /\ l \in Line
      BY <1>12, <1>15, <2>2, <3>1 DEF Homes
    <3> QED  BY <1>16, <3>1, <3>2
  <2> QED  BY <2>1, <2>2 DEF Homes
<1>18. \A v \in Writer : Sane(work'[v], day)
  BY <1>2, <1>6, <1>7 DEF TraceInv, Sane, Busy
<1>19. \A l \in undisturbed : l <= written /\ l <= n /\ l # n /\ l \in Line
  BY <1>16 DEF TraceInv, TraceTypeOK
<1>20. \A l \in undisturbed' : l <= n
  BY <1>3, <1>10, <1>19
<1>21. ASSUME NEW v \in Writer, work'[v].at \in Busy
       PROVE  /\ work'[v] = work[v] /\ v # w
              /\ FileOf(work[v]) \in Day /\ FileOf(work[v]) # work[v].active
              /\ Harmless(work[v], raw, zst, Good)
  <2>1. v # w /\ work'[v] = work[v]
    BY <1>6, <1>7, <1>21 DEF Busy
  <2>2. FileOf(work[v]) \in Day /\ FileOf(work[v]) # work[v].active
    BY <1>15, <1>21, <2>1, FileFacts DEF TraceInv
  <2> QED  BY <2>1, <2>2 DEF TraceInv, Kept
<1>22. Kept(raw', zst, work', Good')
  <2>1. CASE quiet
    <3>1. Good' \subseteq Good \cup {n} /\ zst[d] = {}
      BY <1>8, <1>10, <2>1 DEF Good
    <3>2. ASSUME NEW v \in Writer, work'[v].at \in Busy
          PROVE  FileOf(work[v]) \in Day \ {d}
      <4>1. ~Disturbs(v, d)
        BY <1>10, <2>1
      <4> QED  BY <1>21, <3>2, <4>1 DEF Disturbs, Busy
    <3>3. ASSUME NEW v \in Writer PROVE Harmless(work'[v], raw', zst, Good')
      <4>1. CASE work'[v].at \notin Busy
        BY <4>1 DEF Harmless, Busy
      <4>2. CASE work'[v].at \in Busy
        <5>1. PICK e \in Day \ {d} : e = FileOf(work[v])
          BY <3>2, <4>2
        <5>2. /\ work'[v] = work[v] /\ raw'[e] = raw[e]
              /\ Harmless(work[v], raw, zst, Good)
          BY <1>9, <1>21, <4>2
        <5>3. n \notin raw[e] \cup zst[e]
          BY <1>3, <1>12 DEF Homes, Day
        <5>4. work[v].at = "renaming" => n \notin work[v].buffer
          BY <1>3, <1>12 DEF Homes
        <5> QED  BY <3>1, <5>1, <5>2, <5>3, <5>4 DEF Harmless
      <4> QED  BY <4>1, <4>2
    <3>4. ASSUME NEW l \in Good' PROVE \E e \in Day : l \in raw'[e] \cup zst[e]
      <4>1. CASE l = n
        BY <1>3, <1>9, <4>1
      <4>2. CASE l \in Good
        <5>1. PICK e \in Day : l \in raw[e] \cup zst[e]
          BY <4>2 DEF TraceInv, Kept
        <5> QED  BY <1>9, <5>1
      <4> QED  BY <3>1, <4>1, <4>2
    <3>5. ASSUME NEW e \in Day, zst[e] # {} PROVE Good' \cap raw'[e] \subseteq zst[e]
      <4>1. e # d /\ raw'[e] = raw[e]
        BY <1>9, <3>1, <3>5
      <4>2. n \notin raw[e]
        BY <1>3, <1>12 DEF Homes, Day
      <4> QED  BY <3>1, <3>5, <4>1, <4>2 DEF TraceInv, Kept
    <3> QED  BY <3>3, <3>4, <3>5 DEF Kept
  <2>2. CASE ~quiet
    <3>1. Good' \subseteq Good /\ Good' \cap (raw[d] \cup zst[d]) = {} /\ n \notin Good'
      BY <1>8, <1>10, <1>19, <2>2 DEF Good
    <3>2. Good' \cap raw'[d] = {} /\ Good' \cap zst[d] = {}
      BY <1>9, <3>1
    <3>3. ASSUME NEW v \in Writer PROVE Harmless(work'[v], raw', zst, Good')
      <4>1. CASE work'[v].at \notin Busy
        BY <4>1 DEF Harmless, Busy
      <4>2. CASE work'[v].at \in Busy
        <5>1. PICK e \in Day : e = FileOf(work[v])
          BY <1>21, <4>2
        <5>2. work'[v] = work[v] /\ Harmless(work[v], raw, zst, Good)
          BY <1>21, <4>2
        <5>3. CASE e = d
          <6>1. ASSUME work[v].at = "renaming" PROVE Good' \cap work[v].buffer = {}
            <7>1. \A l \in Good \cap work[v].buffer : l \in raw[d] \cup zst[d]
              BY <5>1, <5>3, <6>1, BufferKept
            <7> QED  BY <3>1, <7>1
          <6> QED  BY <3>2, <5>1, <5>2, <5>3, <6>1 DEF Harmless
        <5>4. CASE e # d
          <6>1. raw'[e] = raw[e]
            BY <1>9, <5>4
          <6> QED  BY <3>1, <5>1, <5>2, <6>1 DEF Harmless
        <5> QED  BY <5>3, <5>4
      <4> QED  BY <4>1, <4>2
    <3>4. ASSUME NEW l \in Good' PROVE \E e \in Day : l \in raw'[e] \cup zst[e]
      <4>1. PICK e \in Day : l \in raw[e] \cup zst[e]
        BY <3>1 DEF TraceInv, Kept
      <4> QED  BY <1>9, <4>1
    <3>5. ASSUME NEW e \in Day, zst[e] # {} PROVE Good' \cap raw'[e] \subseteq zst[e]
      <4>1. CASE e = d
        BY <3>2, <4>1
      <4>2. CASE e # d
        BY <1>9, <3>1, <3>5, <4>2 DEF TraceInv, Kept
      <4> QED  BY <4>1, <4>2
    <3> QED  BY <3>3, <3>4, <3>5 DEF Kept
  <2> QED  BY <2>1, <2>2
<1>23. TraceInv'
  <2>1. \E h \in [Line -> Day] : Homes(h, raw', zst', work', written')
    BY <1>8, <1>14, <1>17
  <2>2. Kept(raw', zst', work', Good')
    BY <1>8, <1>22
  <2> QED  BY <1>8, <1>11, <1>18, <1>20, <2>1, <2>2 DEF TraceInv
<1> QED  BY <1>23

LEMMA RemovalTrace ==
    ASSUME TraceInv, NEW w \in Writer, NEW e \in TraceFile, RemoveTrace(w, e)
    PROVE  TraceInv'
<1>1. PICK p : p = work[w]
  OBVIOUS
<1>2. /\ raw \in [Day -> SUBSET Line] /\ zst \in [Day -> SUBSET Line]
      /\ work \in [Writer -> Work] /\ retired \subseteq Line /\ day \in Day
      /\ p \in Work /\ Sane(p, day) /\ p.at \in {"aging", "trimming"}
  BY <1>1 DEF TraceInv, TraceTypeOK, RemoveTrace
<1>3. /\ e[1] \in Day /\ e[2] \in {"raw", "zst"}
      /\ raw' = IF e[2] = "raw" THEN [raw EXCEPT ![e[1]] = {}] ELSE raw
      /\ zst' = IF e[2] = "zst" THEN [zst EXCEPT ![e[1]] = {}] ELSE zst
      /\ retired' = retired \cup LinesOf(e) /\ UNCHANGED <<day, written, undisturbed>>
  BY DEF RemoveTrace, TraceFile
<1>4. PICK q \in Work : work' = [work EXCEPT ![w] = q] /\ Sane(q, day) /\ q.at \notin Busy
  <2>1. PICK rest : rest = p.gone \ {e}
    OBVIOUS
  <2>2. CASE work' = [work EXCEPT ![w] = Resting]
    <3>1. Sane(Resting, day) /\ Resting.at \notin Busy
      BY <1>2, RestingFacts DEF Sane, Busy, Day
    <3> QED  BY <2>2, <3>1, RestingFacts
  <2>3. CASE work' = [work EXCEPT ![w].gone = rest]
    <3>1. PICK q : q = [p EXCEPT !.gone = rest]
      OBVIOUS
    <3>2. /\ q \in Work /\ q.at = p.at /\ q.active = p.active /\ q.todo = p.todo
          /\ q.gone = rest
      BY <1>2, <2>1, <3>1 DEF Work
    <3>3. work' = [work EXCEPT ![w] = q]
      BY <1>1, <1>2, <2>3, <3>1
    <3>4. Sane(q, day) /\ q.at \notin Busy
      BY <1>2, <2>1, <3>2 DEF Sane, Busy
    <3> QED  BY <3>2, <3>3, <3>4
  <2> QED  BY <1>1, <2>1, <2>2, <2>3 DEF RemoveTrace
<1>5. /\ work' \in [Writer -> Work] /\ work'[w] = q
      /\ \A v \in Writer \ {w} : work'[v] = work[v]
  BY <1>2, <1>4
<1>6. Good' \subseteq Good /\ Good' \cap LinesOf(e) = {}
  BY <1>3 DEF Good
<1>7. /\ raw' \in [Day -> SUBSET Line]
      /\ \A d \in Day : raw'[d] = raw[d] \/ (raw'[d] = {} /\ Good' \cap raw[d] = {})
  <2>1. CASE e[2] = "raw"
    BY <1>2, <1>3, <1>6, <2>1 DEF LinesOf
  <2> QED  BY <1>2, <1>3, <2>1
<1>8. /\ zst' \in [Day -> SUBSET Line]
      /\ \A d \in Day : zst'[d] = zst[d] \/ (zst'[d] = {} /\ Good' \cap zst[d] = {})
  <2>1. CASE e[2] = "zst"
    BY <1>2, <1>3, <1>6, <2>1 DEF LinesOf
  <2> QED  BY <1>2, <1>3, <2>1
<1>9. LinesOf(e) \subseteq Line
  BY <1>2, <1>3 DEF LinesOf
<1>10. TraceTypeOK'
  BY <1>2, <1>3, <1>5, <1>7, <1>8, <1>9 DEF TraceInv, TraceTypeOK
<1>11. \A v \in Writer : Sane(work'[v], day)
  BY <1>4, <1>5 DEF TraceInv
<1>12. PICK home \in [Line -> Day] : Homes(home, raw, zst, work, written)
  BY DEF TraceInv
<1>13. Homes(home, raw', zst', work', written')
  <2>1. \A d \in Day : \A l \in raw'[d] \cup zst'[d] : l \in raw[d] \cup zst[d]
    BY <1>7, <1>8
  <2>2. \A v \in Writer : work'[v].at = "renaming" => work'[v] = work[v]
    BY <1>4, <1>5 DEF Busy
  <2> QED  BY <1>3, <1>12, <2>1, <2>2 DEF Homes
<1>14. ASSUME NEW v \in Writer PROVE Harmless(work'[v], raw', zst', Good')
  <2>1. CASE work'[v].at \in Busy
    <3>1. v # w /\ work'[v] = work[v]
      BY <1>4, <1>5, <2>1
    <3>2. Harmless(work[v], raw, zst, Good) /\ FileOf(work[v]) \in Day
      BY <1>2, <2>1, <3>1, FileFacts DEF TraceInv, Kept
    <3> QED  BY <1>6, <1>7, <1>8, <3>1, <3>2 DEF Harmless
  <2>2. CASE work'[v].at \notin Busy
    BY <2>2 DEF Harmless, Busy
  <2> QED  BY <2>1, <2>2
<1>15. ASSUME NEW l \in Good' PROVE \E d \in Day : l \in raw'[d] \cup zst'[d]
  <2>1. PICK d \in Day : l \in raw[d] \cup zst[d]
    BY <1>6 DEF TraceInv, Kept
  <2> QED  BY <1>7, <1>8, <2>1
<1>16. ASSUME NEW d \in Day, zst'[d] # {} PROVE Good' \cap raw'[d] \subseteq zst'[d]
  <2>1. zst'[d] = zst[d] /\ raw'[d] \subseteq raw[d]
    BY <1>7, <1>8, <1>16
  <2> QED  BY <1>6, <1>16, <2>1 DEF TraceInv, Kept
<1>17. Kept(raw', zst', work', Good')
  BY <1>14, <1>15, <1>16 DEF Kept
<1> QED  BY <1>3, <1>10, <1>11, <1>13, <1>17 DEF TraceInv

LEMMA MidnightTrace == ASSUME TraceInv, Midnight PROVE TraceInv'
<1>1. /\ day' = day + 1 /\ day' \in Day /\ day \in Nat
      /\ UNCHANGED <<raw, zst, work, written, undisturbed, retired>>
  BY TraceAssumption DEF Midnight, TraceInv, TraceTypeOK, Day
<1>2. TraceTypeOK'
  BY <1>1 DEF TraceInv, TraceTypeOK
<1>3. ASSUME NEW w \in Writer PROVE Sane(work[w], day')
  <2>1. Sane(work[w], day) /\ work[w].active \in Nat
    BY DEF TraceInv, TraceTypeOK, Work, Day
  <2>2. work[w].active <= day'
    BY <1>1, <2>1 DEF Sane
  <2> QED  BY <2>1, <2>2 DEF Sane
<1>4. \E home \in [Line -> Day] : Homes(home, raw', zst', work', written')
  BY <1>1 DEF TraceInv
<1>5. Kept(raw', zst', work', Good')
  BY <1>1 DEF TraceInv, Good
<1> QED  BY <1>1, <1>2, <1>3, <1>4, <1>5 DEF TraceInv

LEMMA TraceStep == ASSUME TraceInv, [TraceNext]_traceVars PROVE TraceInv'
<1>1. CASE UNCHANGED traceVars
  <2>1. UNCHANGED <<day, raw, zst, work, written, undisturbed, retired>>
    BY <1>1 DEF traceVars
  <2>2. \E home \in [Line -> Day] : Homes(home, raw', zst', work', written')
    BY <2>1 DEF TraceInv
  <2>3. Kept(raw', zst', work', Good')
    BY <2>1 DEF TraceInv, Good
  <2> QED  BY <2>1, <2>2, <2>3 DEF TraceInv, TraceTypeOK
<1> QED  BY <1>1, LocalTrace, RenameTrace, DropTrace, AppendTrace, RemovalTrace, MidnightTrace
         DEF TraceNext

LEMMA TodayStep ==
    ASSUME TraceInv, [TraceNext]_traceVars,
           zst'[day] \notin {zst[day], {}} \/ ~(raw[day] \subseteq raw'[day])
    PROVE  \E w \in Writer : work[w].active < day /\ Disturbs(w, day)
<1>0. /\ day \in Day /\ work \in [Writer -> Work]
      /\ raw \in [Day -> SUBSET Line] /\ zst \in [Day -> SUBSET Line]
  BY DEF TraceInv, TraceTypeOK
<1>1. ASSUME NEW w \in Writer, work[w].at \notin {"idle", "appending"}, work[w].active # day
      PROVE  work[w].active < day /\ Disturbs(w, day)
  <2>1. work[w].active \in Nat /\ day \in Nat
    BY <1>0 DEF Work, Day
  <2>2. work[w].active <= day
    BY DEF TraceInv, Sane
  <2> QED  BY <1>1, <2>1, <2>2 DEF Disturbs
<1>2. ASSUME NEW w \in Writer, Rename(w) \/ DropRaw(w)
      PROVE  work[w].at \notin {"idle", "appending"} /\ work[w].active # day
  <2>1. work[w].at \in Busy
    BY <1>2 DEF Rename, DropRaw, Busy
  <2>2. FileOf(work[w]) \in Day /\ FileOf(work[w]) # work[w].active
    BY <1>0, <2>1, FileFacts DEF TraceInv
  <2>3. FileOf(work[w]) = day
    <3>1. CASE Rename(w)
      BY <1>0, <3>1, <2>2 DEF Rename, CurrentFile, FileOf
    <3>2. CASE DropRaw(w)
      BY <1>0, <3>2, <2>2 DEF DropRaw, CurrentFile, FileOf
    <3> QED  BY <1>2, <3>1, <3>2
  <2> QED  BY <2>1, <2>2, <2>3 DEF Busy
\* A removal that matters is that of the day's raw file.
<1>3. ASSUME NEW w \in Writer, NEW e \in TraceFile, RemoveTrace(w, e)
      PROVE  work[w].at \notin {"idle", "appending"} /\ work[w].active # day
  <2>1. PICK d \in Day, kind \in {"raw", "zst"} : e = <<d, kind>>
    BY DEF TraceFile
  <2>2. /\ raw' = IF kind = "raw" THEN [raw EXCEPT ![d] = {}] ELSE raw
        /\ zst' = IF kind = "zst" THEN [zst EXCEPT ![d] = {}] ELSE zst
        /\ e \in work[w].gone /\ work[w].at \in {"aging", "trimming"}
    BY <1>3, <2>1 DEF RemoveTrace
  <2>3. zst'[day] \in {zst[day], {}}
    BY <1>0, <2>2
  <2>4. d = day /\ kind = "raw"
    BY <1>0, <2>2, <2>3
  <2>5. <<work[w].active, "raw">> \notin work[w].gone
    BY DEF TraceInv, Sane
  <2> QED  BY <2>1, <2>2, <2>4, <2>5
<1>4. ASSUME NEW w \in Writer, NEW maintain \in BOOLEAN, AppendLine(w, maintain) PROVE FALSE
  BY <1>0, <1>4 DEF AppendLine
<1>5. ~UNCHANGED <<raw, zst>>
  OBVIOUS
<1>6. ~UNCHANGED traceVars
  BY <1>5 DEF traceVars
<1>7. PICK w \in Writer : Rename(w) \/ DropRaw(w) \/ \E e \in TraceFile : RemoveTrace(w, e)
  BY <1>4, <1>5, <1>6 DEF TraceNext, Midnight, Record, Construct, List, NextFile, ReadRaw,
                          MeasureTraces, Die
<1> QED  BY <1>1, <1>2, <1>3, <1>7

LEMMA TraceInvariance == TraceSpec => []TraceInv
<1> QED  BY TraceStarts, TraceStep, PTL DEF TraceSpec

(* Whoever dies at whatever point of compressing, no line is lost that was    *)
(* written to its day's file while nobody else touched it, except by the      *)
(* retention; and the present day's file loses lines, or gets a compressed    *)
(* one beside it, only under a process that still works on an earlier day.    *)
THEOREM TraceKeepsPromise == TraceSpec => TracePromise
<1>1. TraceInv => LinesKept
  BY DEF TraceInv, Kept, Good, LinesKept
<1>2. TraceInv /\ [TraceNext]_traceVars =>
         [(zst'[day] \notin {zst[day], {}} \/ ~(raw[day] \subseteq raw'[day])) =>
            \E w \in Writer : work[w].active < day /\ Disturbs(w, day)]_traceVars
  BY TodayStep
<1> QED  BY <1>1, <1>2, TraceInvariance, PTL DEF TraceSpec, TracePromise, TodayTouchedFromYesterday

-----------------------------------------------------------------------------
(* The network of the callbacks.                                             *)

\* How often the body can have been sent, by where the POST is.
Sends ==
    /\ post.at \in {"off", "resolving", "next", "tunnel", "tls", "secured"} => posted = 0
    /\ post.at = "exchanging" => posted = 1
    /\ post.at # "done" => post.outcome = "none"

NetworkInv ==
    /\ NetworkTypeOK /\ SentOnce /\ OnlyPublic /\ Sends
    /\ post.at \in {"next", "tunnel", "tls", "secured", "exchanging"} => post.left \subseteq Public
    /\ post.at \in {"off", "resolving", "next", "done"} => sockets = {}

LEMMA NetworkStarts == ASSUME NetworkInit PROVE NetworkInv
BY NetworkAssumption DEF NetworkInit, NoPost, NetworkInv, NetworkTypeOK, PostRecord, Connecting,
   Query, SentOnce, OnlyPublic, Sends

\* What a resolved host gives.
LEMMA ResolvedFacts ==
    ASSUME NetworkInv, post.at \in {"off", "resolving"}, NEW found \in SUBSET Address,
           NEW p, p = Resolved(found)
    PROVE  /\ p \in PostRecord /\ p.target = post.target
           /\ \/ p.at = "next" /\ p.left \subseteq Public /\ p.outcome = "none"
              \/ p.at = "done" /\ p.outcome = "refused"
BY DEF NetworkInv, NetworkTypeOK, PostRecord, Query, Connecting, Resolved, Acceptable, Over,
   Sends

LEMMA BeginNetwork ==
    ASSUME NetworkInv,
           \/ \E proxied \in BOOLEAN :
                 BeginNamed(proxied) \/ \E a \in Address : BeginLiteral(proxied, a)
           \/ BeginInvalid
    PROVE  NetworkInv'
<1>1. CASE \E proxied \in BOOLEAN : BeginNamed(proxied)
  <2>1. PICK proxied \in BOOLEAN, q \in SUBSET Query :
           post' = [post EXCEPT !.at = "resolving", !.proxied = proxied, !.asked = q]
    <3>1. {"A", "AAAA"} \in SUBSET Query /\ {"lookup"} \in SUBSET Query
      BY DEF Query
    <3> QED  BY <1>1, <3>1 DEF BeginNamed
  <2>2. post.at = "off" /\ UNCHANGED <<sockets, posted>>
    BY <1>1 DEF BeginNamed
  <2> QED
    BY <2>1, <2>2 DEF NetworkInv, NetworkTypeOK, PostRecord, Connecting, SentOnce, OnlyPublic,
       Sends
<1>2. ASSUME NEW proxied \in BOOLEAN, NEW a \in Address, BeginLiteral(proxied, a)
      PROVE NetworkInv'
  <2>1. PICK p : p = Resolved({a})
    OBVIOUS
  <2>2. /\ p \in PostRecord /\ p.target = post.target
        /\ \/ p.at = "next" /\ p.left \subseteq Public /\ p.outcome = "none"
           \/ p.at = "done" /\ p.outcome = "refused"
    BY <1>2, <2>1, ResolvedFacts DEF BeginLiteral
  <2>3. post' = [p EXCEPT !.proxied = proxied] /\ post.at = "off" /\ UNCHANGED <<sockets, posted>>
    BY <1>2, <2>1 DEF BeginLiteral
  <2> QED
    BY <1>2, <2>2, <2>3 DEF NetworkInv, NetworkTypeOK, PostRecord, Connecting, Query, SentOnce,
       OnlyPublic, Sends
<1>3. CASE BeginInvalid
  BY <1>3 DEF BeginInvalid, Over, NetworkInv, NetworkTypeOK, PostRecord, Connecting, Query,
     SentOnce, OnlyPublic, Sends
<1> QED  BY <1>1, <1>2, <1>3

LEMMA ResolveNetwork ==
    ASSUME NetworkInv,
           QueryFails \/ \E q \in Query, found \in SUBSET Address : DnsAnswers(q, found)
    PROVE  NetworkInv'
<1>1. CASE QueryFails
  BY <1>1 DEF QueryFails, Over, NetworkInv, NetworkTypeOK, PostRecord, Connecting, Query,
     SentOnce, OnlyPublic, Sends
<1>2. ASSUME NEW q \in Query, NEW found \in SUBSET Address, DnsAnswers(q, found)
      PROVE NetworkInv'
  <2>1. CASE post.asked = {q}
    <3>1. post' = Resolved(post.left \cup found) /\ post.left \cup found \in SUBSET Address
      BY <1>2, <2>1 DEF DnsAnswers, NetworkInv, NetworkTypeOK, PostRecord
    <3>2. /\ post' \in PostRecord /\ post'.target = post.target
          /\ \/ post'.at = "next" /\ post'.left \subseteq Public /\ post'.outcome = "none"
             \/ post'.at = "done" /\ post'.outcome = "refused"
      BY <1>2, <3>1, ResolvedFacts DEF DnsAnswers
    <3> QED
      BY <1>2, <3>2 DEF DnsAnswers, NetworkInv, NetworkTypeOK, SentOnce, OnlyPublic, Sends
  <2>2. CASE post.asked # {q}
    BY <1>2, <2>2 DEF DnsAnswers, NetworkInv, NetworkTypeOK, PostRecord, Connecting, Query,
       SentOnce, OnlyPublic, Sends
  <2> QED  BY <2>1, <2>2
<1> QED  BY <1>1, <1>2

LEMMA ConnectNetwork ==
    ASSUME NetworkInv,
           \/ \E a \in Address : Attempt(a)
           \/ Tunnelled \/ Secured
           \/ \E unreachable \in BOOLEAN : ConnectFails(unreachable)
    PROVE  NetworkInv'
<1>1. CASE \E a \in Address : Attempt(a)
  <2>1. PICK a \in Address, to \in Connecting :
           /\ a \in post.left /\ UNCHANGED posted
           /\ post' = [post EXCEPT !.at = to, !.target = a, !.left = @ \ {a}]
           /\ sockets' \subseteq {"raw", "tls"}
    BY <1>1 DEF Attempt, Connecting
  <2>2. post.at = "next"
    BY <1>1 DEF Attempt
  <2> QED
    BY <2>1, <2>2 DEF NetworkInv, NetworkTypeOK, PostRecord, Connecting, SentOnce, OnlyPublic,
       Sends
<1>2. CASE Tunnelled
  BY <1>2 DEF Tunnelled, NetworkInv, NetworkTypeOK, PostRecord, Connecting, Query, SentOnce,
     OnlyPublic, Sends
<1>3. CASE Secured
  BY <1>3 DEF Secured, NetworkInv, NetworkTypeOK, PostRecord, Connecting, Query, SentOnce,
     OnlyPublic, Sends
<1>4. CASE \E unreachable \in BOOLEAN : ConnectFails(unreachable)
  <2>1. PICK why \in {"failed", "unreached"} :
           \/ post' = [post EXCEPT !.at = "done", !.outcome = why]
           \/ post' = [post EXCEPT !.at = "next"]
    BY <1>4 DEF ConnectFails, Over
  <2>2. post.at \in Connecting /\ sockets' = {} /\ UNCHANGED posted
    BY <1>4 DEF ConnectFails
  <2>3. CASE post' = [post EXCEPT !.at = "done", !.outcome = why]
    BY <2>1, <2>2, <2>3 DEF NetworkInv, NetworkTypeOK, PostRecord, Connecting, SentOnce,
       OnlyPublic, Sends
  <2>4. CASE post' = [post EXCEPT !.at = "next"]
    BY <2>2, <2>4 DEF NetworkInv, NetworkTypeOK, PostRecord, Connecting, SentOnce, OnlyPublic,
       Sends
  <2> QED  BY <2>1, <2>3, <2>4
<1> QED  BY <1>1, <1>2, <1>3, <1>4

LEMMA SendNetwork ==
    ASSUME NetworkInv, SendBody \/ Responded \/ ExchangeFails \/ Expire \/ TimesOut
    PROVE  NetworkInv'
<1>1. CASE SendBody
  BY <1>1 DEF SendBody, NetworkInv, NetworkTypeOK, PostRecord, Connecting, Query, SentOnce,
     OnlyPublic, Sends
<1>2. CASE Responded \/ ExchangeFails
  BY <1>2 DEF Responded, ExchangeFails, AfterExchange, Over, NetworkInv, NetworkTypeOK,
     PostRecord, Connecting, Query, SentOnce, OnlyPublic, Sends
<1>3. CASE Expire
  BY <1>3 DEF Expire, NetworkInv, NetworkTypeOK, PostRecord, Connecting, Query, SentOnce,
     OnlyPublic, Sends
<1>4. CASE TimesOut
  BY <1>4 DEF TimesOut, Over, NetworkInv, NetworkTypeOK, PostRecord, Connecting, Query,
     SentOnce, OnlyPublic, Sends
<1> QED  BY <1>1, <1>2, <1>3, <1>4

LEMMA NetworkStep == ASSUME NetworkInv, [NetworkNext]_networkVars PROVE NetworkInv'
<1>1. CASE UNCHANGED networkVars
  BY <1>1 DEF networkVars, NetworkInv, NetworkTypeOK, SentOnce, OnlyPublic, Sends
<1> QED
  BY <1>1, BeginNetwork, ResolveNetwork, ConnectNetwork, SendNetwork DEF NetworkNext

\* Nothing goes out after the timeout.
LEMMA ExpiredStep ==
    ASSUME NetworkInv, [NetworkNext]_networkVars, post.expired
    PROVE  posted' = posted /\ post'.target = post.target
<1>1. CASE \E proxied \in BOOLEAN, a \in Address : BeginLiteral(proxied, a)
  <2>1. PICK proxied \in BOOLEAN, a \in Address : BeginLiteral(proxied, a)
    BY <1>1
  <2>2. PICK p : p = Resolved({a})
    OBVIOUS
  <2>3. p \in PostRecord /\ p.target = post.target
    BY <2>1, <2>2, ResolvedFacts DEF BeginLiteral
  <2>4. post' = [p EXCEPT !.proxied = proxied] /\ posted' = posted
    BY <2>1, <2>2 DEF BeginLiteral
  <2> QED  BY <2>3, <2>4 DEF PostRecord
<1>2. ~(\E q \in Query, found \in SUBSET Address : DnsAnswers(q, found)) /\ ~SendBody
      /\ ~(\E a \in Address : Attempt(a))
  BY DEF DnsAnswers, SendBody, Attempt, Alive
<1> QED
  BY <1>1, <1>2 DEF NetworkInv, NetworkTypeOK, PostRecord, NetworkNext, networkVars, BeginNamed,
     BeginInvalid, QueryFails, Tunnelled, Secured, ConnectFails, Responded, ExchangeFails,
     AfterExchange, Expire, TimesOut, Over

(* However many addresses refuse a connection, a callback is sent to once, in *)
(* public only, and every socket of it is closed in the end.                  *)
THEOREM CallbacksAreSentOnce == NetworkSpec => [](SentOnce /\ OnlyPublic /\ SocketsClosed)
<1>1. NetworkInv => SentOnce /\ OnlyPublic /\ SocketsClosed
  BY DEF NetworkInv, SocketsClosed
<1> QED  BY <1>1, NetworkStarts, NetworkStep, PTL DEF NetworkSpec

-----------------------------------------------------------------------------
(* The HTTP service.                                                         *)

\* No other process is there; nothing is at the path before it listens, then it is,
\* and it fails only for what is no socket.
NoOther(s) ==
    /\ \A t \in Service \ {s} : service[t].at = "off"
    /\ service[s].at = "bind" => endpoint = Absent
    /\ service[s].at = "listening" => endpoint = s
    /\ service[s].at = "failed" => endpoint = Foreign

HttpInv ==
    /\ HttpTypeOK /\ JobsAreOver
    /\ \A s \in Service : service[s].at \in {"settling"} => ~service[s].armed
    /\ \A s \in apart : NoOther(s)

LEMMA HttpStarts == ASSUME HttpInit PROVE HttpInv
BY ServiceAssumption DEF HttpInit, Off, HttpInv, HttpTypeOK, ServiceRecord, Starting,
   HandlerClosed, JobsAreOver, NoOther

\* A process goes on, and what is at the path may change.
LEMMA GoesOn ==
    ASSUME HttpInv, NEW s \in Service, NEW r \in ServiceRecord,
           service' = [service EXCEPT ![s] = r],
           r.at \in {"handler"} \cup HandlerClosed =>
              ~r.armed /\ ~r.watching /\ r.flushing = "no",
           r.at = "settling" => ~r.armed,
           endpoint' \in Service \cup {Absent, Foreign},
           r.at = "off" => endpoint' = endpoint,
           apart' \subseteq apart \/ apart' \subseteq {s},
           service[s].at = "off" /\ r.at # "off" => apart' \subseteq {s},
           s \in apart' => /\ \A t \in Service \ {s} : service[t].at = "off"
                           /\ r.at = "bind" => endpoint' = Absent
                           /\ r.at = "listening" => endpoint' = s
                           /\ r.at = "failed" => endpoint' = Foreign
    PROVE  HttpInv'
<1>1. HttpTypeOK'
  BY DEF HttpInv, HttpTypeOK
<1>2. JobsAreOver' /\ \A t \in Service : service'[t].at \in {"settling"} => ~service'[t].armed
  BY DEF HttpInv, HttpTypeOK, JobsAreOver
<1>3. ASSUME NEW t \in apart' PROVE NoOther(t)'
  <2>1. CASE t = s
    BY <1>3, <2>1 DEF HttpInv, HttpTypeOK, NoOther
  <2>2. CASE t # s
    <3>1. t \in apart /\ service[s].at = "off" /\ r.at = "off"
      BY <1>3, <2>2 DEF HttpInv, HttpTypeOK, NoOther
    <3> QED  BY <1>3, <2>2, <3>1 DEF HttpInv, HttpTypeOK, NoOther
  <2> QED  BY <2>1, <2>2
<1> QED  BY <1>1, <1>2, <1>3 DEF HttpInv

LEMMA StartHttp ==
    ASSUME HttpInv, NEW s \in Service, Launch(s) \/ LookAt(s) \/ Unlink(s) \/ Listen(s)
    PROVE  HttpInv'
<1>1. PICK r : r = service'[s]
  OBVIOUS
<1>2. r \in ServiceRecord /\ service' = [service EXCEPT ![s] = r]
  BY <1>1 DEF Launch, LookAt, Unlink, Listen, Goes, HttpInv, HttpTypeOK, ServiceRecord, Starting,
     HandlerClosed
<1>3. r.at \in Starting \cup {"listening", "failed"}
  <2>1. CASE LookAt(s)
    BY <1>1, <2>1 DEF LookAt, Goes, HttpInv, HttpTypeOK, Starting
  <2>2. CASE Listen(s)
    BY <1>1, <2>2 DEF Listen, HttpInv, HttpTypeOK
  <2>3. CASE Launch(s) \/ Unlink(s)
    BY <1>1, <2>3 DEF Launch, Unlink, Goes, HttpInv, HttpTypeOK, ServiceRecord, Starting,
       HandlerClosed
  <2> QED  BY <2>1, <2>2, <2>3
<1>4. endpoint' \in Service \cup {Absent, Foreign}
  BY DEF Launch, LookAt, Unlink, Listen, HttpInv, HttpTypeOK
<1>5. CASE Launch(s)
  <2>1. r.at = "lstat" /\ apart' \subseteq {s}
    BY <1>1, <1>5 DEF Launch, Goes, HttpInv, HttpTypeOK
  <2>2. s \in apart' => \A t \in Service \ {s} : service[t].at = "off"
    BY <1>5 DEF Launch
  <2> QED  BY <1>2, <1>4, <2>1, <2>2, GoesOn DEF HandlerClosed
<1>6. CASE ~Launch(s)
  <2>1. apart' = apart /\ service[s].at # "off"
    BY <1>6 DEF LookAt, Unlink, Listen
  <2>2. s \in apart' => /\ \A t \in Service \ {s} : service[t].at = "off"
                        /\ r.at = "bind" => endpoint' = Absent
                        /\ r.at = "listening" => endpoint' = s
                        /\ r.at = "failed" => endpoint' = Foreign
    <3>1. CASE LookAt(s)
      BY <1>1, <2>1, <3>1, ServiceAssumption DEF LookAt, Goes, HttpInv, HttpTypeOK, NoOther
    <3>2. CASE Unlink(s)
      BY <1>1, <2>1, <3>2, ServiceAssumption DEF Unlink, Goes, HttpInv, HttpTypeOK, NoOther
    <3>3. CASE Listen(s)
      BY <1>1, <2>1, <3>3, ServiceAssumption DEF Listen, HttpInv, HttpTypeOK, NoOther
    <3> QED  BY <1>6, <3>1, <3>2, <3>3
  <2> QED  BY <1>2, <1>3, <1>4, <2>1, <2>2, GoesOn DEF Starting, HandlerClosed
<1> QED  BY <1>5, <1>6

LEMMA JobsHttp ==
    ASSUME HttpInv, NEW s \in Service,
           \/ TickStarts(s) \/ TickEnds(s) \/ FlushStarts(s)
           \/ \E fails \in BOOLEAN : FlushGoesOn(s, fails)
    PROVE  HttpInv'
<1>1. PICK r : r = service'[s]
  OBVIOUS
<1>2. r \in ServiceRecord /\ service' = [service EXCEPT ![s] = r]
  <2>1. CASE TickStarts(s) \/ TickEnds(s)
    <3>1. PICK b \in BOOLEAN : service' = [service EXCEPT ![s].watching = b]
      BY <2>1 DEF TickStarts, TickEnds
    <3> QED  BY <1>1, <3>1 DEF HttpInv, HttpTypeOK, ServiceRecord
  <2>2. CASE FlushStarts(s)
    <3>1. service' = [service EXCEPT ![s].flushing = "flush"]
      BY <2>2 DEF FlushStarts
    <3> QED  BY <1>1, <3>1 DEF HttpInv, HttpTypeOK, ServiceRecord
  <2>3. ASSUME NEW fails \in BOOLEAN, FlushGoesOn(s, fails)
        PROVE r \in ServiceRecord /\ service' = [service EXCEPT ![s] = r]
    <3>1. PICK to \in {"no", "sync"} : service' = [service EXCEPT ![s].flushing = to]
      BY <2>3 DEF FlushGoesOn, HttpInv, HttpTypeOK
    <3> QED  BY <1>1, <3>1 DEF HttpInv, HttpTypeOK, ServiceRecord
  <2> QED  BY <2>1, <2>2, <2>3
<1>3. r.at = service[s].at /\ r.armed = service[s].armed /\ UNCHANGED <<endpoint, apart>>
  BY <1>1 DEF TickStarts, TickEnds, FlushStarts, FlushGoesOn, HttpInv, HttpTypeOK, ServiceRecord
<1>4. r.at \in {"handler"} \cup HandlerClosed => ~r.armed /\ ~r.watching /\ r.flushing = "no"
  BY <1>1, <1>3 DEF TickStarts, TickEnds, FlushStarts, FlushGoesOn, HttpInv, HttpTypeOK,
     ServiceRecord, JobsAreOver
<1> QED  BY <1>2, <1>3, <1>4, GoesOn DEF HttpInv, HttpTypeOK, NoOther

LEMMA CloseHttp ==
    ASSUME HttpInv, NEW s \in Service,
           \/ Stop(s) \/ JobsEnd(s) \/ ServerCloses(s) \/ LastRequestEnds(s)
           \/ BackendCloses(s) \/ RemoveEndpoint(s)
    PROVE  HttpInv'
<1>1. PICK r : r = service'[s]
  OBVIOUS
<1>2. r \in ServiceRecord /\ service' = [service EXCEPT ![s] = r]
  BY <1>1 DEF Stop, JobsEnd, ServerCloses, LastRequestEnds, BackendCloses, RemoveEndpoint, Goes,
     HttpInv, HttpTypeOK, ServiceRecord, Starting, HandlerClosed
<1>3. /\ r.at \in {"settling", "handler"} \cup HandlerClosed /\ service[s].at # "off"
      /\ apart' = apart /\ endpoint' \in {endpoint, Absent}
  <2>1. CASE Stop(s) \/ JobsEnd(s) \/ LastRequestEnds(s) \/ BackendCloses(s)
    BY <1>1, <2>1 DEF Stop, JobsEnd, LastRequestEnds, BackendCloses, Goes, HttpInv, HttpTypeOK,
       ServiceRecord, HandlerClosed
  <2>2. CASE ServerCloses(s) \/ RemoveEndpoint(s)
    BY <1>1, <2>2 DEF ServerCloses, RemoveEndpoint, Goes, HttpInv, HttpTypeOK, ServiceRecord,
       HandlerClosed
  <2> QED  BY <2>1, <2>2
<1>4. /\ ~r.armed
      /\ r.at \in {"handler"} \cup HandlerClosed => ~r.watching /\ r.flushing = "no"
  <2>1. CASE Stop(s) \/ JobsEnd(s)
    BY <1>1, <2>1 DEF Stop, JobsEnd, Settled, Goes, HttpInv, HttpTypeOK, ServiceRecord,
       HandlerClosed
  <2>2. CASE ServerCloses(s) \/ LastRequestEnds(s) \/ BackendCloses(s) \/ RemoveEndpoint(s)
    BY <1>1, <2>2 DEF ServerCloses, LastRequestEnds, BackendCloses, RemoveEndpoint, Goes,
       HttpInv, HttpTypeOK, ServiceRecord, HandlerClosed, JobsAreOver
  <2> QED  BY <2>1, <2>2
<1>5. s \in apart' => \A t \in Service \ {s} : service[t].at = "off"
  BY <1>3 DEF HttpInv, NoOther
<1> QED
  BY <1>2, <1>3, <1>4, <1>5, GoesOn DEF HttpInv, HttpTypeOK, HandlerClosed

LEMMA QuitHttp ==
    ASSUME HttpInv, NEW s \in Service, NEW killed \in BOOLEAN, Quit(s, killed)
    PROVE  HttpInv'
<1>1. PICK r : r = Off
  OBVIOUS
<1>2. /\ r \in ServiceRecord /\ r.at = "off" /\ ~r.armed
      /\ service' = [service EXCEPT ![s] = r] /\ apart' = apart \ {s} /\ endpoint' = endpoint
  BY <1>1 DEF Off, ServiceRecord, Quit
<1> QED  BY <1>2, GoesOn DEF HttpInv, HttpTypeOK, HandlerClosed

LEMMA HttpStep == ASSUME HttpInv, [HttpNext]_serviceVars PROVE HttpInv'
<1>1. CASE UNCHANGED serviceVars
  BY <1>1 DEF serviceVars, HttpInv, HttpTypeOK, JobsAreOver, NoOther
<1>2. CASE HttpNext
  BY <1>2, StartHttp, JobsHttp, CloseHttp, QuitHttp DEF HttpNext
<1> QED  BY <1>1, <1>2

(* A service that closes its handler has no tick and no flush under way, and *)
(* one that never met another is reachable for as long as it listens.        *)
THEOREM ServicesEndInOrder == HttpSpec => [](JobsAreOver /\ ReachableAlone)
<1>1. HttpInv => JobsAreOver /\ ReachableAlone
  BY DEF HttpInv, ReachableAlone, NoOther
<1> QED  BY <1>1, HttpStarts, HttpStep, PTL DEF HttpSpec

-----------------------------------------------------------------------------
(* The request ledger.                                                       *)

\* A file is at least as young as its name, and nobody is ahead of the clock.
LedgerInv ==
    /\ LedgerTypeOK
    /\ \A d \in Date : ledger[d] # {} => touched[d] >= d
    /\ \A w \in Logger : pruner[w].began <= today /\ pruner[w].spared <= today
    /\ \A w \in Logger : pruner[w].at = "appending" => pruner[w].spared \in Date

LEMMA LedgerStarts == ASSUME LedgerInit PROVE LedgerInv
BY LedgerAssumption DEF LedgerInit, NoRows, Waiting, Nothing, LedgerInv, LedgerTypeOK, Date, Row,
   PrunerRecord

\* A process goes on; files lose rows at most.
LEMMA PrunerGoesOn ==
    ASSUME LedgerInv, NEW w \in Logger, NEW r \in PrunerRecord,
           pruner' = [pruner EXCEPT ![w] = r],
           r.began <= today, r.spared <= today, r.at = "appending" => r.spared \in Date,
           ledger' \in [Date -> SUBSET Row], \A d \in Date : ledger'[d] \subseteq ledger[d],
           UNCHANGED <<today, touched, rows>>
    PROVE  LedgerInv'
BY DEF LedgerInv, LedgerTypeOK

LEMMA RecordLedger ==
    ASSUME LedgerInv, NEW w \in Logger, BeginRecord(w) \/ Open(w) \/ Abort(w) \/ Weigh(w)
    PROVE  LedgerInv'
<1>1. PICK r : r = pruner'[w]
  OBVIOUS
<1>2. CASE BeginRecord(w)
  <2>1. r = [pruner[w] EXCEPT !.at = "appending", !.began = today, !.spared = today]
    BY <1>1, <1>2 DEF BeginRecord, LedgerInv, LedgerTypeOK
  <2>2. r \in PrunerRecord /\ r.began = today /\ r.spared = today
    BY <2>1 DEF LedgerInv, LedgerTypeOK, PrunerRecord
  <2> QED  BY <1>1, <1>2, <2>2, PrunerGoesOn DEF BeginRecord, LedgerInv, LedgerTypeOK, Date
<1>3. CASE Open(w)
  <2>1. r = [pruner[w] EXCEPT !.at = "aging", !.began = today]
    BY <1>1, <1>3 DEF Open, LedgerInv, LedgerTypeOK
  <2>2. r \in PrunerRecord /\ r.began = today /\ r.spared = pruner[w].spared /\ r.at = "aging"
    BY <2>1 DEF LedgerInv, LedgerTypeOK, PrunerRecord
  <2> QED  BY <1>1, <1>3, <2>2, PrunerGoesOn DEF Open, LedgerInv, LedgerTypeOK, Date
<1>4. CASE Abort(w)
  <2>1. /\ Waiting \in PrunerRecord /\ Waiting.at = "idle" /\ Waiting.began <= today
        /\ Waiting.spared <= today
    BY LedgerAssumption DEF Waiting, PrunerRecord, NoRows, Nothing, Date, LedgerInv, LedgerTypeOK
  <2> QED  BY <1>4, <2>1, PrunerGoesOn DEF Abort, LedgerInv, LedgerTypeOK
<1>5. CASE Weigh(w)
  <2> DEFINE found == pruner[w].weighed
             left == [d \in Date |-> IF found[d] = {} THEN {} ELSE ledger[d]]
  <2>1. r = [pruner[w] EXCEPT !.at = "shrinking", !.weighed = left]
    BY <1>1, <1>5 DEF Weigh, LedgerInv, LedgerTypeOK
  <2>2. left \in [Date -> SUBSET Row]
    BY DEF LedgerInv, LedgerTypeOK
  <2> HIDE DEF left
  <2>3. /\ r \in PrunerRecord /\ r.began = pruner[w].began /\ r.spared = pruner[w].spared
        /\ r.at = "shrinking"
    BY <2>1, <2>2 DEF LedgerInv, LedgerTypeOK, PrunerRecord
  <2> QED  BY <1>1, <1>5, <2>3, PrunerGoesOn DEF Weigh, LedgerInv, LedgerTypeOK
<1> QED  BY <1>2, <1>3, <1>4, <1>5

LEMMA AppendLedger ==
    ASSUME LedgerInv, NEW w \in Logger, NEW prune \in BOOLEAN, AppendRow(w, prune)
    PROVE  LedgerInv'
<1>1. PICK d \in Date : d = pruner[w].spared /\ d <= today
  BY DEF AppendRow, LedgerInv
<1>2. /\ rows' \in Row /\ rows' \in 0..LastRow
      /\ ledger' = [ledger EXCEPT ![d] = ledger[d] \cup {rows'}]
      /\ touched' = [touched EXCEPT ![d] = today] /\ today' = today
  BY <1>1, LedgerAssumption DEF AppendRow, LedgerInv, LedgerTypeOK, Row
<1>3. PICK r : r = pruner'[w]
  OBVIOUS
<1>4. /\ r \in PrunerRecord /\ r.at # "appending" /\ r.began <= today /\ r.spared <= today
      /\ pruner' = [pruner EXCEPT ![w] = r]
  <2>1. CASE prune
    <3>1. r = [pruner[w] EXCEPT !.at = "aging"]
      BY <1>3, <2>1 DEF AppendRow, LedgerInv, LedgerTypeOK
    <3>2. /\ r \in PrunerRecord /\ r.began = pruner[w].began /\ r.spared = pruner[w].spared
          /\ r.at = "aging"
      BY <3>1 DEF LedgerInv, LedgerTypeOK, PrunerRecord
    <3> QED  BY <1>3, <2>1, <3>2 DEF AppendRow, LedgerInv, LedgerTypeOK
  <2>2. CASE ~prune
    <3>1. r = Waiting /\ pruner' = [pruner EXCEPT ![w] = r]
      BY <1>3, <2>2 DEF AppendRow, LedgerInv, LedgerTypeOK
    <3>2. /\ Waiting \in PrunerRecord /\ Waiting.at = "idle" /\ Waiting.began <= today
          /\ Waiting.spared <= today
      BY LedgerAssumption DEF Waiting, PrunerRecord, NoRows, Nothing, Date, LedgerInv,
         LedgerTypeOK
    <3> QED  BY <3>1, <3>2
  <2> QED  BY <2>1, <2>2
<1>5. LedgerTypeOK'
  BY <1>2, <1>4 DEF LedgerInv, LedgerTypeOK
<1>6. \A e \in Date : ledger'[e] # {} => touched'[e] >= e
  BY <1>1, <1>2 DEF LedgerInv, LedgerTypeOK, Date
<1> QED  BY <1>2, <1>4, <1>5, <1>6 DEF LedgerInv, LedgerTypeOK

LEMMA PruneLedger ==
    ASSUME LedgerInv, NEW w \in Logger,
           Shrink(w) \/ \E old \in SUBSET Date : RemoveAged(w, old)
    PROVE  LedgerInv'
<1>1. CASE Shrink(w)
  <2>1. PICK gone : ledger' = [d \in Date |-> IF d \in gone THEN {} ELSE ledger[d]]
    BY <1>1 DEF Shrink
  <2>2. ledger' \in [Date -> SUBSET Row] /\ \A d \in Date : ledger'[d] \subseteq ledger[d]
    BY <2>1 DEF LedgerInv, LedgerTypeOK
  <2>3. /\ Waiting \in PrunerRecord /\ Waiting.at = "idle" /\ Waiting.began <= today
        /\ Waiting.spared <= today
    BY LedgerAssumption DEF Waiting, PrunerRecord, NoRows, Nothing, Date, LedgerInv,
       LedgerTypeOK
  <2> QED  BY <1>1, <2>2, <2>3, PrunerGoesOn DEF Shrink
<1>2. ASSUME NEW old \in SUBSET Date, RemoveAged(w, old) PROVE LedgerInv'
  <2>0. PICK r : r = pruner'[w]
    OBVIOUS
  <2>1. r = [pruner[w] EXCEPT !.at = "weighing", !.weighed = ledger]
    BY <1>2, <2>0 DEF RemoveAged, LedgerInv, LedgerTypeOK
  <2>2. /\ r \in PrunerRecord /\ r.began = pruner[w].began /\ r.spared = pruner[w].spared
        /\ r.at = "weighing"
    BY <2>1 DEF LedgerInv, LedgerTypeOK, PrunerRecord
  <2>3. /\ ledger' \in [Date -> SUBSET Row]
        /\ \A d \in Date : ledger'[d] \subseteq ledger[d]
    BY <1>2 DEF RemoveAged, LedgerInv, LedgerTypeOK
  <2>4. pruner' = [pruner EXCEPT ![w] = r] /\ UNCHANGED <<today, touched, rows>>
    BY <1>2, <2>0 DEF RemoveAged, LedgerInv, LedgerTypeOK
  <2> QED  BY <2>2, <2>3, <2>4, PrunerGoesOn DEF LedgerInv
<1> QED  BY <1>1, <1>2

LEMMA LedgerStep == ASSUME LedgerInv, [LedgerNext]_ledgerVars PROVE LedgerInv'
<1>1. CASE UNCHANGED ledgerVars
  BY <1>1 DEF ledgerVars, LedgerInv, LedgerTypeOK
<1>2. CASE DayPasses
  <2>1. today' \in Date /\ today <= today'
    BY <1>2, LedgerAssumption DEF DayPasses, LedgerInv, LedgerTypeOK, Date
  <2>2. \A w \in Logger : pruner[w].began \in Nat /\ pruner[w].spared \in Nat
    BY DEF LedgerInv, LedgerTypeOK, PrunerRecord, Date, Nothing
  <2> QED  BY <1>2, <2>1, <2>2 DEF DayPasses, LedgerInv, LedgerTypeOK, Date
<1> QED
  BY <1>1, <1>2, RecordLedger, AppendLedger, PruneLedger DEF LedgerNext

\* Rows are finite in number.
LEMMA RowsFinite ==
    /\ IsFiniteSet(Row)
    /\ \A R \in SUBSET Row : IsFiniteSet(R) /\ Cardinality(R) \in Nat
<1>1. IsFiniteSet(1..LastRow)
  BY FS_Interval, LedgerAssumption
<1>2. ASSUME NEW R \in SUBSET Row PROVE IsFiniteSet(R) /\ Cardinality(R) \in Nat
  <2>1. IsFiniteSet(R)
    BY <1>1, <1>2, FS_Subset DEF Row
  <2> QED  BY <2>1, FS_CardinalityType
<1> QED  BY <1>1, <1>2 DEF Row

LEMMA FewerRows ==
    ASSUME NEW R \in SUBSET Row, NEW S \in SUBSET R
    PROVE  Cardinality(S) <= Cardinality(R)
BY RowsFinite, FS_Subset

\* The rows that make a file go are all there.
LEMMA BehindThere ==
    ASSUME NEW files \in [Date -> SUBSET Row], NEW spared, NEW d \in Date
    PROVE  /\ Behind(files, spared, d) \subseteq All(files) /\ All(files) \subseteq Row
           /\ Cardinality(Behind(files, spared, d)) <= Cardinality(All(files))
           /\ Cardinality(All(files)) \in Nat /\ Cardinality(Behind(files, spared, d)) \in Nat
<1>1. Behind(files, spared, d) \subseteq All(files) /\ All(files) \subseteq Row
  BY DEF Behind, All
<1> QED  BY <1>1, FewerRows, RowsFinite

LEMMA TodaysRowsStep ==
    ASSUME LedgerInv, [LedgerNext]_ledgerVars, ~(ledger[today] \subseteq ledger'[today])
    PROVE  \E w \in Logger :
              /\ pruner[w].at = "shrinking" /\ pruner[w].spared # today
              /\ Cardinality(All(pruner[w].weighed)) > MaxSize
<1>1. today \in Date /\ ledger[today] # {} /\ touched[today] >= today
  BY DEF LedgerInv, LedgerTypeOK
<1>2. ~UNCHANGED ledger
  OBVIOUS
<1>3. ASSUME NEW w \in Logger, NEW prune \in BOOLEAN, AppendRow(w, prune) PROVE FALSE
  BY <1>1, <1>3 DEF AppendRow, LedgerInv, LedgerTypeOK
<1>4. ASSUME NEW w \in Logger, NEW old \in SUBSET Date, RemoveAged(w, old) PROVE FALSE
  <2>1. today \in old
    BY <1>1, <1>4 DEF RemoveAged
  <2>2. touched[today] + Retention <= pruner[w].began /\ pruner[w].began <= today
    BY <1>4, <2>1 DEF RemoveAged, Aged, LedgerInv
  <2>3. /\ touched[today] \in Nat /\ today \in Nat /\ pruner[w].began \in Nat
        /\ Retention \in Nat \ {0}
    BY <1>1, LedgerAssumption DEF LedgerInv, LedgerTypeOK, PrunerRecord, Date
  <2> QED  BY <1>1, <2>2, <2>3
<1>5. PICK w \in Logger : Shrink(w)
  BY <1>2, <1>3, <1>4 DEF LedgerNext, ledgerVars, BeginRecord, Open, Weigh, Abort, DayPasses
<1>6. today \in Excessive(pruner[w].weighed, pruner[w].spared)
  BY <1>1, <1>5 DEF Shrink
<1>7. /\ today # pruner[w].spared
      /\ Cardinality(Behind(pruner[w].weighed, pruner[w].spared, today)) > MaxSize
  BY <1>6 DEF Excessive
<1>8. pruner[w].weighed \in [Date -> SUBSET Row]
  BY DEF LedgerInv, LedgerTypeOK, PrunerRecord
<1>9. Cardinality(All(pruner[w].weighed)) > MaxSize
  BY <1>1, <1>7, <1>8, BehindThere, LedgerAssumption
<1> QED  BY <1>5, <1>7, <1>9 DEF Shrink

LEMMA ShrinkStep ==
    ASSUME LedgerInv, [LedgerNext]_ledgerVars, NEW w \in Logger,
           pruner[w].at = "shrinking", pruner[w].weighed = ledger,
           ledger' # ledger, pruner'[w].at = "idle"
    PROVE  \/ Cardinality(All(ledger')) <= MaxSize
           \/ \A d \in Date \ {pruner[w].spared} : ledger'[d] = {}
<1> DEFINE spared == pruner[w].spared
           kept == {d \in Date \ {spared} : ledger'[d] # {}}
           over == {n \in Nat : \E d \in kept : \A k \in ledger[d] : k <= n}
<1>1. Shrink(w)
  <2>1. ASSUME NEW v \in Logger, v # w, pruner' = [pruner EXCEPT ![v] = pruner'[v]] PROVE FALSE
    BY <2>1 DEF LedgerInv, LedgerTypeOK
  <2>2. PICK v \in Logger : \/ Shrink(v)
                            \/ \E prune \in BOOLEAN : AppendRow(v, prune)
                            \/ \E old \in SUBSET Date : RemoveAged(v, old)
    BY DEF LedgerNext, ledgerVars, BeginRecord, Open, Weigh, Abort, DayPasses
  <2>3. pruner' = [pruner EXCEPT ![v] = pruner'[v]]
    BY <2>2 DEF Shrink, AppendRow, RemoveAged, LedgerInv, LedgerTypeOK
  <2> QED  BY <2>1, <2>2, <2>3 DEF AppendRow, RemoveAged
<1>2. /\ ledger' = [d \in Date |-> IF d \in Excessive(ledger, spared) THEN {} ELSE ledger[d]]
      /\ ledger \in [Date -> SUBSET Row]
  BY <1>1 DEF Shrink, LedgerInv, LedgerTypeOK
<1>3. \A d \in kept : d \notin Excessive(ledger, spared) /\ ledger'[d] = ledger[d] /\ ledger[d] # {}
  BY <1>2
<1> SUFFICES ASSUME kept # {} PROVE Cardinality(All(ledger')) <= MaxSize
  OBVIOUS
<1>4. PICK d \in kept : \A e \in kept : \A k \in ledger[d] : \E l \in ledger[e] : l >= k
  <2>1. over \in SUBSET Nat /\ over # {}
    <3>1. PICK d \in kept : TRUE
      OBVIOUS
    <3>2. \A k \in ledger[d] : k <= LastRow
      BY <1>2, LedgerAssumption DEF Row
    <3> QED  BY <3>2, LedgerAssumption
  <2>2. PICK n \in over : \A m \in over : n <= m
    BY <2>1, SomeLeast
  <2>3. PICK d \in kept : \A k \in ledger[d] : k <= n
    BY <2>2
  <2>4. ASSUME NEW e \in kept PROVE \E l \in ledger[e] : l >= n
    <3> SUFFICES ASSUME \A l \in ledger[e] : ~(l >= n) PROVE FALSE
      OBVIOUS
    <3>1. \A l \in ledger[e] : l \in Nat \ {0} /\ n \in Nat /\ l <= n - 1
      BY <1>2, LedgerAssumption DEF Row
    <3>2. PICK l \in ledger[e] : TRUE
      BY <1>3
    <3>3. n - 1 \in Nat
      BY <3>1, <3>2
    <3>4. n - 1 \in over
      BY <3>1, <3>3
    <3> QED  BY <2>2, <3>3, <3>4
  <2>5. ASSUME NEW e \in kept, NEW k \in ledger[d] PROVE \E l \in ledger[e] : l >= k
    <3>1. PICK l \in ledger[e] : l >= n
      BY <2>4
    <3>2. k \in Nat /\ l \in Nat /\ n \in Nat /\ k <= n
      BY <1>2, <2>3, LedgerAssumption DEF Row
    <3> QED  BY <3>1, <3>2
  <2> QED  BY <2>5
<1>5. All(ledger') \subseteq Behind(ledger, spared, d)
  BY <1>2, <1>3, <1>4 DEF All, Behind
<1>6. ~(Cardinality(Behind(ledger, spared, d)) > MaxSize)
  BY <1>3 DEF Excessive
<1>7. Cardinality(All(ledger')) <= Cardinality(Behind(ledger, spared, d))
  BY <1>2, <1>5, BehindThere, FewerRows
<1>8. /\ Cardinality(All(ledger')) \in Nat /\ Cardinality(Behind(ledger, spared, d)) \in Nat
      /\ MaxSize \in Nat
  BY <1>2, <1>5, BehindThere, RowsFinite, LedgerAssumption
<1> QED  BY <1>6, <1>7, <1>8

(* Today's records are removed only by a prune that spares another file and  *)
(* had found too much; and a prune that nobody disturbs makes room enough.   *)
THEOREM LedgerKeepsRows == LedgerSpec => TodaysRowsKept /\ ShrinkIsEnough
<1>1. LedgerInv /\ [LedgerNext]_ledgerVars =>
         [~(ledger[today] \subseteq ledger'[today]) =>
            \E w \in Logger :
               /\ pruner[w].at = "shrinking" /\ pruner[w].spared # today
               /\ Cardinality(All(pruner[w].weighed)) > MaxSize]_ledgerVars
  BY TodaysRowsStep
<1>2. LedgerInv /\ [LedgerNext]_ledgerVars =>
         [\A w \in Logger :
            /\ pruner[w].at = "shrinking" /\ pruner[w].weighed = ledger
            /\ ledger' # ledger /\ pruner'[w].at = "idle"
            => \/ Cardinality(All(ledger')) <= MaxSize
               \/ \A d \in Date \ {pruner[w].spared} : ledger'[d] = {}]_ledgerVars
  BY ShrinkStep
<1> QED
  BY <1>1, <1>2, LedgerStarts, LedgerStep, PTL
     DEF LedgerSpec, TodaysRowsKept, ShrinkIsEnough

-----------------------------------------------------------------------------
(* The components side by side.                                              *)

\* A step of one of them, or of none, is a step or a stutter of each.
LEMMA ServicesStep ==
    ASSUME [ServicesNext]_vars
    PROVE  /\ [ExecNext]_execVars /\ [SocketNext]_socketVars /\ [GatewayNext]_gatewayVars
           /\ [TraceNext]_traceVars /\ [RouteNext]_routeVars /\ [EvidenceNext]_evidenceVars
           /\ [RoutesNext]_routesVars /\ [NetworkNext]_networkVars /\ [HttpNext]_serviceVars
           /\ [LedgerNext]_ledgerVars
<1>1. CASE UNCHANGED vars
  BY <1>1 DEF vars
<1>2. CASE Only("exec") /\ ExecNext
  BY <1>2 DEF Only
<1>3. CASE Only("socket") /\ SocketNext
  BY <1>3 DEF Only
<1>4. CASE Only("gateway") /\ GatewayNext
  BY <1>4 DEF Only
<1>5. CASE Only("trace") /\ TraceNext
  BY <1>5 DEF Only
<1>6. CASE Only("route") /\ RouteNext
  BY <1>6 DEF Only
<1>7. CASE Only("evidence") /\ EvidenceNext
  BY <1>7 DEF Only
<1>8. CASE Only("routes") /\ RoutesNext
  BY <1>8 DEF Only
<1>9. CASE Only("network") /\ NetworkNext
  BY <1>9 DEF Only
<1>10. CASE Only("http") /\ HttpNext
  BY <1>10 DEF Only
<1>11. CASE Only("ledger") /\ LedgerNext
  BY <1>11 DEF Only
<1> QED
  BY <1>1, <1>2, <1>3, <1>4, <1>5, <1>6, <1>7, <1>8, <1>9, <1>10, <1>11 DEF ServicesNext

\* The invariants of all of them.
ServicesInv ==
    /\ ExecInv /\ SocketInv /\ GatewayInv /\ TraceInv /\ RouteInv /\ EvidenceInv /\ RoutesInv
    /\ NetworkInv /\ HttpInv /\ LedgerInv

LEMMA ServicesInvariance == ServicesSpec => []ServicesInv
<1>1. ServicesInit => ServicesInv
  BY ExecStarts, SocketStarts, GatewayStarts, TraceStarts, RouteStarts, EvidenceStarts,
     RoutesStarts, NetworkStarts, HttpStarts, LedgerStarts DEF ServicesInit, ServicesInv
<1>2. ServicesInv /\ [ServicesNext]_vars => ServicesInv'
  <2> SUFFICES ASSUME ServicesInv, [ServicesNext]_vars PROVE ServicesInv'
    OBVIOUS
  <2>1. /\ [ExecNext]_execVars /\ [SocketNext]_socketVars /\ [GatewayNext]_gatewayVars
        /\ [TraceNext]_traceVars /\ [RouteNext]_routeVars /\ [EvidenceNext]_evidenceVars
        /\ [RoutesNext]_routesVars /\ [NetworkNext]_networkVars /\ [HttpNext]_serviceVars
        /\ [LedgerNext]_ledgerVars
    BY ServicesStep
  <2>2. ExecInv' /\ SocketInv' /\ GatewayInv' /\ TraceInv'
    BY <2>1, ExecStep, SocketStep, GatewayStep, TraceStep DEF ServicesInv
  <2>3. RouteInv' /\ EvidenceInv' /\ RoutesInv'
    BY <2>1, RouteStep, EvidenceStep, RoutesStep DEF ServicesInv
  <2>4. NetworkInv' /\ HttpInv' /\ LedgerInv'
    BY <2>1, NetworkStep, HttpStep, LedgerStep DEF ServicesInv
  <2> QED  BY <2>2, <2>3, <2>4 DEF ServicesInv
<1> QED  BY <1>1, <1>2, PTL DEF ServicesSpec

(* What holds of each component whichever of them runs: its types, and what  *)
(* the runs check of it besides the properties of their own.                 *)
THEOREM ServicesAreSafe == ServicesSpec => []ServicesSafe
<1>1. ServicesInv => ServicesSafe
  <2> SUFFICES ASSUME ServicesInv PROVE ServicesSafe
    OBVIOUS
  <2>1. ExecTypeOK /\ OneRunning /\ OwnResult
    BY DEF ServicesInv, ExecInv, OwnResult
  <2>2. SocketTypeOK /\ LoneStartSucceeds
    BY DEF ServicesInv, SocketInv, LoneStartSucceeds, Lone
  <2>3. GatewayTypeOK /\ TraceTypeOK /\ EvidenceTypeOK
    BY DEF ServicesInv, GatewayInv, TraceInv, EvidenceInv
  <2>4. RouteTypeOK /\ TakenInTime
    BY RouteFacts DEF ServicesInv
  <2>5. RoutesTypeOK /\ RightBackend /\ DuplicateNeedsOverlap
    BY DEF ServicesInv, RoutesInv
  <2>6. NetworkTypeOK /\ SentOnce /\ OnlyPublic /\ SocketsClosed
    BY DEF ServicesInv, NetworkInv, SocketsClosed
  <2>7. HttpTypeOK /\ JobsAreOver /\ ReachableAlone
    BY DEF ServicesInv, HttpInv, ReachableAlone, NoOther
  <2>8. LedgerTypeOK
    BY DEF ServicesInv, LedgerInv
  <2> QED  BY <2>1, <2>2, <2>3, <2>4, <2>5, <2>6, <2>7, <2>8 DEF ServicesSafe
<1> QED  BY <1>1, ServicesInvariance, PTL

(* Lines and records stay but for what retention may take, whoever dies or   *)
(* maintains beside others, and a callback whose time is up is left alone.   *)
THEOREM ServicesKeepRecords == ServicesSpec => ServicesKeep
<1>1. ServicesInv => LinesKept
  BY DEF ServicesInv, TraceInv, Kept, Good, LinesKept
<1>2. ServicesInv /\ [ServicesNext]_vars =>
         [(zst'[day] \notin {zst[day], {}} \/ ~(raw[day] \subseteq raw'[day])) =>
            \E w \in Writer : work[w].active < day /\ Disturbs(w, day)]_traceVars
  BY TodayStep, ServicesStep DEF ServicesInv
<1>3. ServicesInv /\ [ServicesNext]_vars =>
         [~(ledger[today] \subseteq ledger'[today]) =>
            \E w \in Logger :
               /\ pruner[w].at = "shrinking" /\ pruner[w].spared # today
               /\ Cardinality(All(pruner[w].weighed)) > MaxSize]_ledgerVars
  BY TodaysRowsStep, ServicesStep DEF ServicesInv
<1>4. ServicesInv /\ [ServicesNext]_vars =>
         [\A w \in Logger :
            /\ pruner[w].at = "shrinking" /\ pruner[w].weighed = ledger
            /\ ledger' # ledger /\ pruner'[w].at = "idle"
            => \/ Cardinality(All(ledger')) <= MaxSize
               \/ \A d \in Date \ {pruner[w].spared} : ledger'[d] = {}]_ledgerVars
  BY ShrinkStep, ServicesStep DEF ServicesInv
<1>5. ServicesInv /\ [ServicesNext]_vars =>
         [post.expired => posted' = posted /\ post'.target = post.target]_networkVars
  BY ExpiredStep, ServicesStep DEF ServicesInv
<1> QED
  BY <1>1, <1>2, <1>3, <1>4, <1>5, ServicesInvariance, PTL
     DEF ServicesSpec, ServicesKeep, TracePromise, TodayTouchedFromYesterday, TodaysRowsKept,
         ShrinkIsEnough, SilentOnceExpired
=============================================================================
