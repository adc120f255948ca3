--------------------------- MODULE TraceRetention ---------------------------
(***************************************************************************)
(* The day files of FullTrace (src/full-trace.ts) in a directory that      *)
(* several processes share: record appends to the file of the day it has   *)
(* read from the clock, and now and then compresses other days' files,     *)
(* removes old ones and keeps the total size down.  Processes die, and     *)
(* midnight passes, between any two file operations.                       *)
(*                                                                         *)
(* A file is the set of the lines in it; it does not exist when empty.     *)
(* Sizes count lines, ages days.  The contents of lines, modes, removals   *)
(* that fail and the once-a-minute limit on maintenance are left out.  A   *)
(* temporary file that a dead process leaves behind is never looked at     *)
(* again: not modelled.                                                    *)
(***************************************************************************)
EXTENDS Naturals, FiniteSets, FiniteSetsExt

CONSTANTS
    Writer,     \* processes that record
    KeepDays,   \* retentionDays
    KeepLines,  \* maxBytes
    LastDay,    \* bound: days
    LastLine    \* bound: lines

ASSUME TraceAssumption == LastDay \in Nat \ {0} /\ LastLine \in Nat /\ KeepDays \in Nat

VARIABLES
    day,        \* the local calendar day
    raw, zst,   \* YYYY-MM-DD.jsonl and YYYY-MM-DD.jsonl.zst
    work,       \* the locals of record and #maintain in each process
    \* History.
    written,    \* lines so far
    undisturbed,    \* lines of days to which nobody appended while another process took
                    \* their file for an old one
    retired     \* lines that were in a file removed for its age or for space

traceVars == <<day, raw, zst, work, written, undisturbed, retired>>

Day == 1..LastDay
Line == 1..LastLine
TraceFile == Day \X {"raw", "zst"}
Work == [at : {"idle", "appending", "listing", "next", "reading", "renaming", "dropping",
               "aging", "trimming"},
         active : Day, todo : SUBSET Day, buffer : SUBSET Line, gone : SUBSET TraceFile]

TraceTypeOK ==
    /\ day \in Day
    /\ raw \in [Day -> SUBSET Line] /\ zst \in [Day -> SUBSET Line]
    /\ work \in [Writer -> Work]
    /\ written \in 0..LastLine
    /\ undisturbed \subseteq Line /\ retired \subseteq Line

Resting == [at |-> "idle", active |-> 1, todo |-> {}, buffer |-> {}, gone |-> {}]

TraceInit ==
    /\ day = 1
    /\ raw = [d \in Day |-> {}] /\ zst = [d \in Day |-> {}]
    /\ work = [w \in Writer |-> Resting]
    /\ written = 0
    /\ undisturbed = {} /\ retired = {}

-----------------------------------------------------------------------------
\* For mutation runs.
FaultInactive(w) == {d \in Day : raw[d] # {}}

-----------------------------------------------------------------------------
\* The file to go on with: #compressInactive works through its list in any order.
CurrentFile(w) == Min(work[w].todo)
Moved(w, at) == [work EXCEPT ![w].at = at]
Done(w) == [work EXCEPT ![w].at = "next", ![w].todo = @ \ {CurrentFile(w)}, ![w].buffer = {}]

\* A process whose maintenance may touch the file of day d.
Disturbs(w, d) == work[w].at \notin {"idle", "appending"} /\ work[w].active # d

\* record reads the clock.
Record(w) ==
    /\ work[w].at = "idle" /\ written < LastLine
    /\ work' = [work EXCEPT ![w].at = "appending", ![w].active = day]
    /\ UNCHANGED <<day, raw, zst, written, undisturbed, retired>>

\* appendFileSync; a maintenance follows when the last one is a minute old.
AppendLine(w, maintain) ==
    LET d == work[w].active IN
    /\ work[w].at = "appending" /\ written < LastLine
    /\ written' = written + 1
    /\ raw' = [raw EXCEPT ![d] = @ \cup {written'}]
    /\ undisturbed' = IF zst[d] = {} /\ \A v \in Writer : ~Disturbs(v, d)
                      THEN undisturbed \cup {written'} ELSE undisturbed \ (raw[d] \cup zst[d])
    /\ work' = Moved(w, IF maintain THEN "listing" ELSE "idle")
    /\ UNCHANGED <<day, zst, retired>>

\* The constructor maintains too.
Construct(w) ==
    /\ work[w].at = "idle"
    /\ work' = [work EXCEPT ![w].at = "listing", ![w].active = day]
    /\ UNCHANGED <<day, raw, zst, written, undisturbed, retired>>

Inactive(w) == {d \in Day \ {work[w].active} : raw[d] # {}}

List(w) ==
    /\ work[w].at = "listing"
    /\ work' = [work EXCEPT ![w].at = "next", ![w].todo = Inactive(w)]
    /\ UNCHANGED <<day, raw, zst, written, undisturbed, retired>>

\* The compressed file that is there already.
Existing(d) == zst[d]

\* The files there are that #maintain may remove: all but the one that it was given.
LinesOf(e) == IF e[2] = "raw" THEN raw[e[1]] ELSE zst[e[1]]
Removable(w) == {e \in TraceFile : LinesOf(e) # {}} \ {<<work[w].active, "raw">>}

\* Those over the age, by the clock at the start of the maintenance.
Expired(w) == {e \in Removable(w) : e[1] + KeepDays <= work[w].active}

NextFile(w) ==
    /\ work[w].at = "next"
    /\ work' = IF work[w].todo = {}
               THEN [work EXCEPT ![w].at = "aging", ![w].gone = Expired(w)]
               ELSE Moved(w, IF Existing(CurrentFile(w)) # {} THEN "dropping" ELSE "reading")
    /\ UNCHANGED <<day, raw, zst, written, undisturbed, retired>>

\* readFileSync fails when another process was faster.
ReadRaw(w) ==
    LET d == CurrentFile(w) IN
    /\ work[w].at = "reading"
    /\ work' = IF raw[d] = {} THEN Done(w)
               ELSE [work EXCEPT ![w].at = "renaming", ![w].buffer = raw[d]]
    /\ UNCHANGED <<day, raw, zst, written, undisturbed, retired>>

\* The temporary file becomes the compressed one.
Rename(w) ==
    /\ work[w].at = "renaming"
    /\ zst' = [zst EXCEPT ![CurrentFile(w)] = work[w].buffer]
    /\ work' = Moved(w, "dropping")
    /\ UNCHANGED <<day, raw, written, undisturbed, retired>>

DropRaw(w) ==
    /\ work[w].at = "dropping"
    /\ raw' = [raw EXCEPT ![CurrentFile(w)] = {}]
    /\ work' = Done(w)
    /\ UNCHANGED <<day, zst, written, undisturbed, retired>>

\* What to remove for space, oldest day first and no more than is needed; the two files
\* of one day come in any order (readdir).
Surpluses(w) ==
    LET files == {e \in TraceFile : LinesOf(e) # {}}
        left(es) == FoldSet(LAMBDA e, n : Cardinality(LinesOf(e)) + n, 0, files \ es)
        oldest(es) == \A e \in es, f \in Removable(w) \ es : e[1] <= f[1]
    IN  {es \in SUBSET Removable(w) :
            /\ oldest(es)
            /\ left(es) <= KeepLines \/ es = Removable(w)
            /\ es # {} => \E e \in es : oldest(es \ {e}) /\ left(es \ {e}) > KeepLines}

\* The second look at the directory, when those over the age are gone.
MeasureTraces(w) ==
    /\ work[w].at = "aging" /\ work[w].gone = {}
    /\ \E es \in Surpluses(w) :
          work' = IF es = {} THEN [work EXCEPT ![w] = Resting]
                  ELSE [work EXCEPT ![w].at = "trimming", ![w].gone = es]
    /\ UNCHANGED <<day, raw, zst, written, undisturbed, retired>>

\* rmSync, whatever is in the file by now.
RemoveTrace(w, e) ==
    LET rest == work[w].gone \ {e} IN
    /\ work[w].at \in {"aging", "trimming"} /\ e \in work[w].gone
    /\ work[w].at = "trimming" => \A f \in rest : e[1] <= f[1]
    /\ raw' = IF e[2] = "raw" THEN [raw EXCEPT ![e[1]] = {}] ELSE raw
    /\ zst' = IF e[2] = "zst" THEN [zst EXCEPT ![e[1]] = {}] ELSE zst
    /\ retired' = retired \cup LinesOf(e)
    /\ work' = IF work[w].at = "trimming" /\ rest = {} THEN [work EXCEPT ![w] = Resting]
               ELSE [work EXCEPT ![w].gone = rest]
    /\ UNCHANGED <<day, written, undisturbed>>

Die(w) ==
    /\ work[w].at # "idle"
    /\ work' = [work EXCEPT ![w] = Resting]
    /\ UNCHANGED <<day, raw, zst, written, undisturbed, retired>>

Midnight ==
    /\ day < LastDay
    /\ day' = day + 1
    /\ UNCHANGED <<raw, zst, work, written, undisturbed, retired>>

TraceNext ==
    \/ Midnight
    \/ \E w \in Writer :
          \/ Record(w) \/ Construct(w) \/ List(w) \/ NextFile(w) \/ ReadRaw(w)
          \/ Rename(w) \/ DropRaw(w) \/ MeasureTraces(w) \/ Die(w)
          \/ \E e \in TraceFile : RemoveTrace(w, e)
          \/ \E maintain \in BOOLEAN : AppendLine(w, maintain)

TraceSpec == TraceInit /\ [][TraceNext]_traceVars

-----------------------------------------------------------------------------
(* Whoever dies at whatever point of compressing, and whoever else compresses *)
(* the same file: a line is in one of its day's files until one that it is in *)
(* is removed for age or space (#compressInactive).  Excepted are the days to *)
(* which somebody still appends while another process takes their file for an *)
(* old day's: that line may be lost, and with a third process the whole day,  *)
(* when a compressor that found no compressed file reads only the late line.  *)
LinesKept ==
    \A l \in undisturbed :
        l \in retired \/ \E d \in Day : l \in raw[d] \cup zst[d]

(* "Active-day traces are plain JSONL": the file of the present day loses    *)
(* lines, and a compressed one of that day appears or changes, only while a  *)
(* maintenance goes on that began the day before (activeFile of #maintain).  *)
(* What such a one has compressed, any maintenance may remove for space.     *)
TodayTouchedFromYesterday ==
    [][(zst'[day] \notin {zst[day], {}} \/ ~(raw[day] \subseteq raw'[day])) =>
          \E w \in Writer : work[w].active < day /\ Disturbs(w, day)]_traceVars

(* Both together: what maintenance may cost, whoever it races with.          *)
TracePromise == []LinesKept /\ TodayTouchedFromYesterday
=============================================================================
