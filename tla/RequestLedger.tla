--------------------------- MODULE RequestLedger ---------------------------
(***************************************************************************)
(* The day files of RequestLedger (src/request-ledger.ts) in a directory   *)
(* that several processes share: record appends a line and, once a minute, *)
(* prunes; so does the constructor, which has no active file to spare.     *)
(* Processes die, and midnight passes, between any two file operations.    *)
(*                                                                         *)
(* A file is the set of the lines in it; it does not exist when empty.     *)
(* Lines are numbered as they are written, so that the greatest one of a   *)
(* file stands for its modification time.  Sizes count lines, ages days.   *)
(* Left out: what is in a line, modes, errors of the file system, and when *)
(* a minute is over (each record may prune or not).                        *)
(***************************************************************************)
EXTENDS Naturals, FiniteSets

CONSTANTS
    Logger,     \* processes that record
    Retention,  \* retentionDays
    MaxSize,    \* maxBytes
    LastDate,   \* bound: days
    LastRow     \* bound: lines

ASSUME LedgerAssumption ==
    LastDate \in Nat \ {0} /\ LastRow \in Nat /\ MaxSize \in Nat /\ Retention \in Nat \ {0}

VARIABLES
    today,      \* the local calendar day
    ledger,     \* YYYY-MM-DD.jsonl
    touched,    \* the day each of them was last appended to
    pruner,     \* the locals of record and #prune in each process
    \* History.
    rows        \* lines so far

ledgerVars == <<today, ledger, touched, pruner, rows>>

Date == 1..LastDate
Row == 1..LastRow
Nothing == 0
PrunerRecord == [at : {"idle", "appending", "aging", "weighing", "shrinking"},
                 began : Date,                      \* the day of nowMs
                 spared : Date \cup {Nothing},       \* activeFile
                 weighed : [Date -> SUBSET Row]]    \* the files found, then added up

NoRows == [d \in Date |-> {}]

LedgerTypeOK ==
    /\ today \in Date
    /\ ledger \in [Date -> SUBSET Row] /\ touched \in [Date -> Date]
    /\ pruner \in [Logger -> PrunerRecord]
    /\ rows \in 0..LastRow

Waiting == [at |-> "idle", began |-> 1, spared |-> Nothing, weighed |-> NoRows]

LedgerInit ==
    /\ today = 1 /\ rows = 0
    /\ ledger = NoRows /\ touched = [d \in Date |-> 1]
    /\ pruner = [w \in Logger |-> Waiting]

-----------------------------------------------------------------------------
\* For mutation runs: every file is a candidate for its age.
FaultAged(w) == {d \in Date : touched[d] + Retention <= pruner[w].began + 1}

-----------------------------------------------------------------------------
\* record reads the clock.
BeginRecord(w) ==
    /\ pruner[w].at = "idle" /\ rows < LastRow
    /\ pruner' = [pruner EXCEPT ![w].at = "appending", ![w].began = today, ![w].spared = today]
    /\ UNCHANGED <<today, ledger, touched, rows>>

\* appendFileSync; #prune follows when the last one is a minute old.
AppendRow(w, prune) ==
    LET d == pruner[w].spared IN
    /\ pruner[w].at = "appending" /\ rows < LastRow
    /\ rows' = rows + 1
    /\ ledger' = [ledger EXCEPT ![d] = @ \cup {rows'}]
    /\ touched' = [touched EXCEPT ![d] = today]
    /\ pruner' = [pruner EXCEPT ![w] = IF prune THEN [@ EXCEPT !.at = "aging"] ELSE Waiting]
    /\ UNCHANGED today

\* The constructor prunes too, and spares nothing.
Open(w) ==
    /\ pruner[w].at = "idle"
    /\ pruner' = [pruner EXCEPT ![w].at = "aging", ![w].began = today]
    /\ UNCHANGED <<today, ledger, touched, rows>>

\* Files not appended to for retentionDays times 24 hours: of those of the day that
\* is just as far back it depends on the hour.
Aged(w) == {d \in Date : touched[d] + Retention <= pruner[w].began}
LongAged(w) == {d \in Date : touched[d] + Retention < pruner[w].began}

RemoveAged(w, old) ==
    /\ pruner[w].at = "aging"
    /\ old \in SUBSET (Aged(w) \ {pruner[w].spared})
    /\ LongAged(w) \ {pruner[w].spared} \subseteq old
    /\ ledger' = [d \in Date |-> IF d \in old THEN {} ELSE ledger[d]]
    /\ pruner' = [pruner EXCEPT ![w].at = "weighing", ![w].weighed = ledger]
    /\ UNCHANGED <<today, touched, rows>>

\* The files found at first are looked at again, if they are left.
Weigh(w) ==
    LET found == pruner[w].weighed IN
    /\ pruner[w].at = "weighing"
    /\ pruner' = [pruner EXCEPT ![w].at = "shrinking",
            ![w].weighed = [d \in Date |-> IF found[d] = {} THEN {} ELSE ledger[d]]]
    /\ UNCHANGED <<today, ledger, touched, rows>>

\* What is left when those are gone that are older than day d's, and not spared.
Behind(files, spared, d) ==
    UNION {files[e] : e \in {e \in Date :
              e = spared \/ \A k \in files[d] : \E l \in files[e] : l >= k}}

\* From the oldest on, while there is too much.
Excessive(files, spared) ==
    {d \in Date \ {spared} :
        files[d] # {} /\ Cardinality(Behind(files, spared, d)) > MaxSize}

Shrink(w) ==
    LET gone == Excessive(pruner[w].weighed, pruner[w].spared) IN
    /\ pruner[w].at = "shrinking"
    /\ ledger' = [d \in Date |-> IF d \in gone THEN {} ELSE ledger[d]]
    /\ pruner' = [pruner EXCEPT ![w] = Waiting]
    /\ UNCHANGED <<today, touched, rows>>

Abort(w) ==
    /\ pruner[w].at # "idle"
    /\ pruner' = [pruner EXCEPT ![w] = Waiting]
    /\ UNCHANGED <<today, ledger, touched, rows>>

DayPasses ==
    /\ today < LastDate
    /\ today' = today + 1
    /\ UNCHANGED <<ledger, touched, pruner, rows>>

LedgerNext ==
    \/ DayPasses
    \/ \E w \in Logger :
          \/ BeginRecord(w) \/ Open(w) \/ Weigh(w) \/ Shrink(w) \/ Abort(w)
          \/ \E prune \in BOOLEAN : AppendRow(w, prune)
          \/ \E old \in SUBSET Date : RemoveAged(w, old)

LedgerSpec == LedgerInit /\ [][LedgerNext]_ledgerVars

-----------------------------------------------------------------------------
All(files) == UNION {files[d] : d \in Date}

(* The present day's records are never removed for their age, and for space  *)
(* only by a prune that spares another file than theirs, or none, and had    *)
(* found too much: one of a constructor, or of a record of the day before.   *)
TodaysRowsKept ==
    [][~(ledger[today] \subseteq ledger'[today]) =>
          \E w \in Logger :
              /\ pruner[w].at = "shrinking" /\ pruner[w].spared # today
              /\ Cardinality(All(pruner[w].weighed)) > MaxSize]_ledgerVars

(* A prune that is not disturbed and removes anything for space leaves no    *)
(* more than maxBytes, unless only the file it spares is left: old days are  *)
(* removed one after the other for as long as it takes.                     *)
ShrinkIsEnough ==
    [][\A w \in Logger :
          /\ pruner[w].at = "shrinking" /\ pruner[w].weighed = ledger
          /\ ledger' # ledger /\ pruner'[w].at = "idle"
          => \/ Cardinality(All(ledger')) <= MaxSize
             \/ \A d \in Date \ {pruner[w].spared} : ledger'[d] = {}]_ledgerVars
=============================================================================
