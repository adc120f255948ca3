--------------------------- MODULE Progress_proofs ---------------------------
(* Proofs about the driver of process waits, rescue_exec and the event       *)
(* outbox, for any numbers of waits, commands, events and flushers and any   *)
(* batch and bounds.                                                         *)
EXTENDS MCProgress, TLAPS, FiniteSetTheorems, SequenceTheorems, WellFoundedInduction,
        NaturalsInduction

-----------------------------------------------------------------------------
(* Sequences without repetitions.                                            *)

\* What is left of a sequence without its i-th element.
LEMMA RemoveAtFacts ==
    ASSUME NEW S, NEW s \in Seq(S), NEW i \in 1..Len(s)
    PROVE  /\ RemoveAt(s, i) \in Seq(S)
           /\ Len(RemoveAt(s, i)) = Len(s) - 1
           /\ \A j \in 1..Len(s) - 1 : RemoveAt(s, i)[j] = IF j < i THEN s[j] ELSE s[j + 1]
<1> DEFINE a == SubSeq(s, 1, i - 1)
           b == SubSeq(s, i + 1, Len(s))
<1>1. Len(s) \in Nat /\ i \in Nat /\ i >= 1 /\ i <= Len(s) /\ \A j \in 1..Len(s) : s[j] \in S
      BY ElementOfSeq
<1>2. /\ a \in Seq(S) /\ Len(a) = i - 1
      /\ \A j \in 1..i - 1 : a[j] = s[j]
  <2>1. 1 \in Int /\ i - 1 \in Int /\ \A j \in 1..i - 1 : s[j] \in S
        BY <1>1
  <2> QED
      BY <1>1, <2>1, SubSeqProperties
<1>3. /\ b \in Seq(S) /\ Len(b) = Len(s) - i
      /\ \A j \in 1..Len(s) - i : b[j] = s[i + j]
  <2>1. i + 1 \in Int /\ Len(s) \in Int /\ \A j \in i + 1..Len(s) : s[j] \in S
        BY <1>1
  <2>2. /\ b \in Seq(S) /\ Len(b) = (IF i + 1 <= Len(s) THEN Len(s) - (i + 1) + 1 ELSE 0)
        /\ \A j \in 1..Len(s) - (i + 1) + 1 : b[j] = s[i + 1 + j - 1]
        BY <2>1, SubSeqProperties
  <2> HIDE DEF b
  <2> QED
      BY <1>1, <2>2
<1> HIDE DEF a, b
<1>4. /\ a \o b \in Seq(S) /\ Len(a \o b) = Len(a) + Len(b)
      /\ \A j \in 1..Len(a) + Len(b) : (a \o b)[j] = IF j <= Len(a) THEN a[j] ELSE b[j - Len(a)]
      BY <1>2, <1>3, ConcatProperties
<1>6. /\ a \o b \in Seq(S) /\ Len(a \o b) = Len(s) - 1
      /\ \A j \in 1..Len(s) - 1 : (a \o b)[j] = IF j <= i - 1 THEN a[j] ELSE b[j - (i - 1)]
      BY <1>1, <1>2, <1>3, <1>4
<1>5. ASSUME NEW j \in 1..Len(s) - 1
      PROVE  (a \o b)[j] = IF j < i THEN s[j] ELSE s[j + 1]
  <2>1. CASE j < i
    <3>1. j \in 1..i - 1 /\ j <= i - 1
          BY <1>1, <2>1
    <3> QED
        BY <1>2, <1>6, <2>1, <3>1
  <2>2. CASE ~(j < i)
    <3>1. PICK k \in 1..Len(s) - i : k = j - (i - 1) /\ i + k = j + 1
          BY <1>1, <2>2
    <3>2. ~(j <= i - 1) /\ ~(j < i)
          BY <1>1, <2>2
    <3>3. (a \o b)[j] = b[k]
          BY <1>6, <3>1, <3>2
    <3>4. b[k] = s[j + 1]
          BY <1>3, <3>1
    <3> QED
        BY <3>2, <3>3, <3>4
  <2> QED
      BY <2>1, <2>2
<1> QED
    BY <1>5, <1>6 DEF RemoveAt, a, b

\* A set of numbers has a least one.
LEMMA LeastIndex ==
    ASSUME NEW I \in SUBSET Nat, I # {}
    PROVE  Min(I) \in I
<1> DEFINE R == OpToRel(<, Nat)
<1>1. IsWellFoundedOn(R, Nat)
      BY NatLessThanWellFounded
<1>2. PICK m \in I : \A n \in I : ~(<<n, m>> \in R)
      BY <1>1, WFMin
<1>3. \A n \in I : m <= n
  <2> SUFFICES ASSUME NEW n \in I, ~(m <= n) PROVE FALSE
      OBVIOUS
  <2>2. n \in Nat /\ m \in Nat /\ n < m
      OBVIOUS
  <2>1. <<n, m>> \in Nat \X Nat /\ <<n, m>>[1] < <<n, m>>[2]
      BY <2>2
  <2> QED
      BY <1>2, <2>1 DEF OpToRel
<1> QED
    BY <1>3 DEF Min

LEMMA RemoveFirstFacts ==
    ASSUME NEW S, NEW s \in Seq(S), IsInjective(s), NEW e
    PROVE  /\ RemoveFirst(s, e) \in Seq(S) /\ IsInjective(RemoveFirst(s, e))
           /\ ToSet(RemoveFirst(s, e)) = ToSet(s) \ {e}
<1>1. CASE ~\E i \in 1..Len(s) : s[i] = e
      BY <1>1 DEF RemoveFirst, ToSet
<1>2. CASE \E i \in 1..Len(s) : s[i] = e
  <2> DEFINE I == {i \in 1..Len(s) : s[i] = e}
  <2>1. Min(I) \in I
    <3>1. I \in SUBSET Nat /\ I # {}
          BY <1>2
    <3> QED
        BY <3>1, LeastIndex
  <2>2. PICK i \in 1..Len(s) : s[i] = e /\ RemoveFirst(s, e) = RemoveAt(s, i)
        BY <1>2, <2>1 DEF RemoveFirst, SelectInSeq
  <2>3. PICK q : q = RemoveFirst(s, e)
        OBVIOUS
  <2>4. /\ q \in Seq(S) /\ Len(q) = Len(s) - 1 /\ Len(s) \in Nat
        /\ DOMAIN q = 1..Len(s) - 1 /\ DOMAIN s = 1..Len(s)
        /\ \A j \in 1..Len(s) - 1 : q[j] = IF j < i THEN s[j] ELSE s[j + 1]
    <3>1. Len(s) \in Nat /\ s \in [1..Len(s) -> S] /\ q = RemoveAt(s, i)
          BY <2>2, <2>3, LenProperties
    <3>2. /\ q \in Seq(S) /\ Len(q) = Len(s) - 1
          /\ \A j \in 1..Len(s) - 1 : q[j] = IF j < i THEN s[j] ELSE s[j + 1]
          BY <3>1, RemoveAtFacts
    <3> QED
        BY <3>1, <3>2, LenProperties
  <2>5. \A a, b \in 1..Len(s) : s[a] = s[b] => a = b
        BY <2>4 DEF IsInjective
  <2>6. IsInjective(q)
        BY <2>4, <2>5 DEF IsInjective
  <2>7. ASSUME NEW x \in ToSet(q) PROVE x \in ToSet(s) \ {e}
    <3>1. PICK j \in 1..Len(s) - 1 : x = q[j]
          BY <2>4 DEF ToSet
    <3>2. PICK k \in 1..Len(s) : x = s[k] /\ k # i
          BY <2>4, <3>1
    <3> QED
        BY <2>2, <2>4, <2>5, <3>2 DEF ToSet
  <2>8. ASSUME NEW x \in ToSet(s) \ {e} PROVE x \in ToSet(q)
    <3>1. PICK k \in 1..Len(s) : x = s[k] /\ k # i
          BY <2>2, <2>4 DEF ToSet
    <3>2. \E j \in 1..Len(s) - 1 : x = q[j]
      <4>1. CASE k < i
            BY <2>4, <3>1, <4>1
      <4>2. CASE k > i
        <5>1. k - 1 \in 1..Len(s) - 1 /\ ~(k - 1 < i) /\ k - 1 + 1 = k
              BY <2>4, <4>2
        <5> QED
            BY <2>4, <3>1, <5>1
      <4> QED
          BY <3>1, <4>1, <4>2
    <3> QED
        BY <2>4, <3>2 DEF ToSet
  <2> QED
      BY <2>3, <2>4, <2>6, <2>7, <2>8
<1> QED
    BY <1>1, <1>2

LEMMA AppendFacts ==
    ASSUME NEW S, NEW s \in Seq(S), IsInjective(s), NEW e \in S, e \notin ToSet(s)
    PROVE  /\ Append(s, e) \in Seq(S) /\ IsInjective(Append(s, e))
           /\ ToSet(Append(s, e)) = ToSet(s) \cup {e}
<1>1. PICK q : q = Append(s, e)
      OBVIOUS
<1>2. /\ q \in Seq(S) /\ Len(q) = Len(s) + 1 /\ Len(s) \in Nat
      /\ \A j \in 1..Len(s) : q[j] = s[j]
      /\ q[Len(s) + 1] = e
      /\ DOMAIN s = 1..Len(s) /\ DOMAIN q = 1..Len(s) + 1
      BY <1>1, AppendProperties, LenProperties
<1>3. \A j \in 1..Len(s) : s[j] # e
      BY <1>2 DEF ToSet
<1>4. IsInjective(q)
      BY <1>2, <1>3 DEF IsInjective
<1>5. \A x : x \in ToSet(q) <=> x \in ToSet(s) \cup {e}
  <2>1. \A j \in 1..Len(s) + 1 : j \in 1..Len(s) \/ j = Len(s) + 1
        BY <1>2
  <2>2. \A j \in 1..Len(s) : j \in 1..Len(s) + 1
        BY <1>2
  <2>3. Len(s) + 1 \in 1..Len(s) + 1
        BY <1>2
  <2> QED
      BY <1>2, <2>1, <2>2, <2>3 DEF ToSet
<1> QED
    BY <1>1, <1>2, <1>4, <1>5

-----------------------------------------------------------------------------
(* The driver of process waits.                                              *)

WaitState == {"none", "watching", "terminal", "dispatched", "cancelled"}

\* What inspect has told of the process of a wait that is being registered is true.
Registering == \A w \in Wait : asked[w] = "terminal" => job[w] = "ended"

DInv ==
    /\ waits \in [Wait -> WaitState]
    /\ asked \in [Wait -> Told \cup {"off"}]
    /\ job \in [Wait -> {"running", "ended"}]
    /\ EndsAreReal
    /\ Registering

USE DEF DInv, WaitState, Told, Registering, EndsAreReal

LEMMA AskDriver == ASSUME DInv, NEW w \in Wait, NEW answer \in Answers, Ask(w, answer)
                   PROVE  DInv'
BY DEF Ask, MayAnswer, Classified, Answers

LEMMA RegisterDriver == ASSUME DInv, NEW w \in Wait, Register(w) PROVE DInv'
BY DEF Register

LEMMA ObserveDriver == ASSUME DInv, NEW answer \in Answers, Observe(answer) PROVE DInv'
<1> DEFINE w == Head(tick).of
<1>1. CASE UNCHANGED waits
  BY <1>1 DEF Observe
<1>2. CASE /\ waits' = [waits EXCEPT ![w] = "terminal"]
           /\ Classified(answer) = "terminal" /\ MayAnswer(w, answer)
           /\ waits[w] = "watching"
  <2>1. job[w] = "ended"
    BY <1>2 DEF MayAnswer, Classified, Answers
  <2> QED  BY <1>2, <2>1 DEF Observe
<1> QED  BY <1>1, <1>2 DEF Observe, StillWatching

LEMMA ResumeDriver == ASSUME DInv, NEW accepted \in BOOLEAN, Resume(accepted) PROVE DInv'
<1> DEFINE w == Head(tick).of
<1>1. CASE UNCHANGED waits
  BY <1>1 DEF Resume
<1>2. CASE waits' = [waits EXCEPT ![w] = "dispatched"] /\ waits[w] = "terminal"
  BY <1>2 DEF Resume
<1> QED  BY <1>1, <1>2 DEF Resume

LEMMA DriverStep == ASSUME DInv, [DriverNext]_driverVars PROVE DInv'
<1>1. CASE StartTick
  BY <1>1 DEF StartTick
<1>2. CASE \E w \in Wait : Cancel(w) \/ Elapse(w) \/ JobEnds(w)
  BY <1>2 DEF Cancel, Elapse, JobEnds
<1>3. CASE UNCHANGED driverVars
  BY <1>3 DEF driverVars
<1> QED
  BY <1>1, <1>2, <1>3, AskDriver, RegisterDriver, ObserveDriver, ResumeDriver DEF DriverNext

LEMMA DriverInvariant == DriverSpec => []DInv
<1>1. DriverInit => DInv
  BY DEF DriverInit
<1> QED  BY <1>1, DriverStep, PTL DEF DriverSpec

(* An end is written down, or dispatched, only of a process that has ended.  *)
THEOREM DriverEndsAreReal == DriverSpec => []EndsAreReal
<1>1. DInv => EndsAreReal
  OBVIOUS
<1> QED  BY <1>1, DriverInvariant, PTL

(* Whatever the driver writes after it has awaited the runtime leaves waits  *)
(* alone that were dispatched or cancelled meanwhile.                        *)
THEOREM DriverLeavesClosed == DriverSpec => ClosedWaitsStay
<1>1. ASSUME DInv, [DriverNext]_driverVars, NEW v \in Wait,
             waits[v] \in {"dispatched", "cancelled"}
      PROVE  waits'[v] = waits[v]
  <2>1. CASE StartTick
    BY <2>1 DEF StartTick
  <2>2. CASE \E w \in Wait : Register(w) \/ Cancel(w) \/ Elapse(w) \/ JobEnds(w)
    BY <1>1, <2>2 DEF Register, Cancel, Elapse, JobEnds
  <2>3. CASE \E answer \in Answers : Observe(answer)
    BY <1>1, <2>3 DEF Observe, StillWatching
  <2>4. CASE \E accepted \in BOOLEAN : Resume(accepted)
    BY <1>1, <2>4 DEF Resume
  <2>5. CASE \E answer \in Answers : \E w \in Wait : Ask(w, answer)
    BY <2>5 DEF Ask
  <2>6. CASE UNCHANGED driverVars
    BY <2>6 DEF driverVars
  <2> QED  BY <1>1, <2>1, <2>2, <2>3, <2>4, <2>5, <2>6 DEF DriverNext
<1>2. DInv /\ [DriverNext]_driverVars =>
          \A w \in Wait : waits[w] \in {"dispatched", "cancelled"} => waits'[w] = waits[w]
  BY <1>1
<1> QED  BY <1>2, DriverInvariant, PTL DEF DriverSpec, ClosedWaitsStay

\* The due waits are open ones, each once, and so are those of a tick's batch when
\* it starts.
DueInv ==
    /\ due \in Seq(Wait) /\ IsInjective(due)
    /\ \A w \in ToSet(due) : waits[w] \in {"watching", "terminal"}
    /\ tick \in Seq(Snapshot) /\ Len(tick) <= Batch
    /\ phase \in {"observe", "resume"}

LEMMA LaterFacts ==
    ASSUME DueInv, NEW w \in Wait
    PROVE  /\ Later(w) \in Seq(Wait) /\ IsInjective(Later(w))
           /\ ToSet(Later(w)) = ToSet(due) \ {w}
           /\ Now(w) \in Seq(Wait) /\ IsInjective(Now(w))
           /\ ToSet(Now(w)) = ToSet(due) \cup {w}
<1>1. PICK s \in Seq(Wait) : s = Later(w) /\ IsInjective(s) /\ ToSet(s) = ToSet(due) \ {w}
      BY RemoveFirstFacts DEF DueInv, Later
<1>2. /\ Append(s, w) \in Seq(Wait) /\ IsInjective(Append(s, w))
      /\ ToSet(Append(s, w)) = ToSet(s) \cup {w}
      BY <1>1, AppendFacts
<1> QED
    BY <1>1, <1>2 DEF Now

LEMMA DueStep ==
    ASSUME DInv, DueInv, [DriverNext]_driverVars
    PROVE  DueInv'
<1>1. CASE StartTick
  <2> DEFINE n == IF Len(due) < Batch THEN Len(due) ELSE Batch
  <2>1. /\ Len(due) \in Nat /\ n \in Nat /\ n <= Batch /\ n <= Len(due)
        /\ due \in [1..Len(due) -> Wait] /\ DOMAIN due = 1..Len(due)
        BY LenProperties, DriverAssumption DEF DueInv
  <2>2. \A i \in 1..n : [of |-> due[i], state |-> waits[due[i]]] \in Snapshot
        BY <2>1 DEF DueInv, ToSet, Snapshot
  <2>3. tick' = [i \in 1..n |-> [of |-> due[i], state |-> waits[due[i]]]]
        BY <1>1 DEF StartTick
  <2> HIDE DEF n
  <2>4. tick' \in [1..n -> Snapshot]
        BY <2>2, <2>3
  <2>5. tick' \in Seq(Snapshot)
        BY <2>1, <2>4, SeqDef
  <2>6. Len(tick') = n
        BY <2>1, <2>4, <2>5, LenProperties
  <2> QED
      BY <1>1, <2>1, <2>5, <2>6 DEF StartTick, DueInv
<1>2. ASSUME NEW w \in Wait, JobEnds(w) \/ \E answer \in Answers : Ask(w, answer)
      PROVE  DueInv'
      BY <1>2 DEF Ask, JobEnds, DueInv
<1>3. ASSUME NEW w \in Wait, Register(w) PROVE DueInv'
  <2>1. CASE UNCHANGED <<waits, due>>
        BY <1>3, <2>1 DEF Register, DueInv
  <2>2. CASE /\ waits' \in [Wait -> WaitState] /\ waits'[w] \in {"watching", "terminal"}
             /\ \A v \in Wait \ {w} : waits'[v] = waits[v]
             /\ due' = Now(w)
    <3>1. ToSet(due) \subseteq Wait
          BY LenProperties DEF DueInv, ToSet
    <3> QED
        BY <1>3, <2>2, <3>1, LaterFacts DEF Register, DueInv
  <2> QED
      BY <1>3, <2>1, <2>2 DEF Register
<1>4. ASSUME NEW w \in Wait, Cancel(w) PROVE DueInv'
      BY <1>4, LaterFacts DEF Cancel, DueInv
<1>5. ASSUME NEW w \in Wait, Elapse(w) PROVE DueInv'
      BY <1>5, AppendFacts DEF Elapse, DueInv
<1>6. ASSUME tick # <<>>
      PROVE  Head(tick) \in Snapshot /\ Head(tick).of \in Wait /\ Tail(tick) \in Seq(Snapshot)
             /\ Len(Tail(tick)) <= Batch
  <2>1. Head(tick) \in Snapshot /\ Tail(tick) \in Seq(Snapshot) /\ Len(Tail(tick)) = Len(tick) - 1
        /\ Len(tick) \in Nat
        BY <1>6, HeadTailProperties, LenProperties DEF DueInv
  <2> QED
      BY <2>1, DriverAssumption DEF DueInv, Snapshot
<1>7. ASSUME NEW answer \in Answers, Observe(answer) PROVE DueInv'
  <2>1. PICK w \in Wait : w = Head(tick).of
        BY <1>6, <1>7 DEF Observe
  <2>2. /\ \/ UNCHANGED <<waits, due>>
           \/ waits' = [waits EXCEPT ![w] = "terminal"] /\ due' = Now(w) /\ waits[w] = "watching"
           \/ waits' = waits /\ due' = Later(w)
        /\ phase' = "resume" /\ tick' = tick
    <3>1. CASE Head(tick).state = "watching" /\ StillWatching(w)
          BY <1>7, <2>1, <3>1 DEF Observe, StillWatching
    <3>2. CASE ~(Head(tick).state = "watching" /\ StillWatching(w))
          BY <1>7, <2>1, <3>2 DEF Observe
    <3> QED
        BY <3>1, <3>2
  <2>3. \A v \in Wait : waits[v] \in {"watching", "terminal"} => waits'[v] \in {"watching", "terminal"}
        BY <2>2
  <2>4. ToSet(due) \subseteq Wait
        BY LenProperties DEF DueInv, ToSet
  <2>5. CASE UNCHANGED <<waits, due>>
        BY <2>2, <2>5 DEF DueInv
  <2>6. CASE due' = Later(w)
        BY <2>2, <2>3, <2>4, <2>6, LaterFacts DEF DueInv
  <2>7. CASE due' = Now(w) /\ waits' = [waits EXCEPT ![w] = "terminal"]
        BY <2>2, <2>3, <2>4, <2>7, LaterFacts DEF DueInv
  <2> QED
      BY <2>2, <2>5, <2>6, <2>7
<1>8. ASSUME NEW accepted \in BOOLEAN, Resume(accepted) PROVE DueInv'
  <2>1. PICK w \in Wait : w = Head(tick).of
        BY <1>6, <1>8 DEF Resume
  <2>2. /\ \/ UNCHANGED <<waits, due>>
           \/ waits' = [waits EXCEPT ![w] = "dispatched"] /\ due' = Later(w)
           \/ waits' = waits /\ due' = Later(w)
        /\ phase' = "observe" /\ tick' = Tail(tick)
        BY <1>8, <2>1 DEF Resume
  <2>3. \A v \in Wait \ {w} : waits'[v] = waits[v]
        BY <2>2
  <2>4. ToSet(due) \subseteq Wait
        BY LenProperties DEF DueInv, ToSet
  <2>5. CASE UNCHANGED <<waits, due>>
        BY <1>6, <1>8, <2>2, <2>5 DEF Resume, DueInv
  <2>6. CASE due' = Later(w)
        BY <1>6, <1>8, <2>2, <2>3, <2>4, <2>6, LaterFacts DEF Resume, DueInv
  <2> QED
      BY <2>2, <2>5, <2>6
<1>9. CASE UNCHANGED driverVars
      BY <1>9 DEF driverVars, DueInv
<1> QED
    BY <1>1, <1>2, <1>3, <1>4, <1>5, <1>7, <1>8, <1>9 DEF DriverNext

LEMMA DriverStarts == DriverInit => DInv /\ DueInv
BY DriverAssumption, EmptySeq DEF DriverInit, DueInv, IsInjective, ToSet

LEMMA DriverTypesFollow == DInv /\ DueInv => DriverTypeOK
BY DEF DueInv, DriverTypeOK

LEMMA DueInvariant == DriverSpec => [](DInv /\ DueInv)
<1>2. DInv /\ DueInv /\ [DriverNext]_driverVars => (DInv /\ DueInv)'
      BY DriverStep, DueStep
<1> QED
    BY DriverStarts, <1>2, PTL DEF DriverSpec

(* The variables of the driver have the types they should: in particular the *)
(* due waits are open ones, each of them once, and a tick keeps to its batch *)
(* (dueProcessWaits, and all that writes nextCheckAt).                       *)
THEOREM DriverTypesHold == DriverSpec => []DriverTypeOK
BY DueInvariant, DriverTypesFollow, PTL

-----------------------------------------------------------------------------
(* rescue_exec.                                                              *)

USE DEF Process, Group, PipeHolder, Result, Busy, MayClose, PendingKills, Killed, Outcome

Reasons == {"timeout", "abort"}

\* RescueTypeOK, with what a cardinality of one at most means.
RescueTypes ==
    /\ slot = {} \/ \E c \in Command : slot = {c}
    /\ alive \in [Command -> SUBSET Process]
    /\ timer \in [Command -> SUBSET Reasons]
    /\ kills \in [Command -> 0..2]
    /\ marks \in [Command -> SUBSET Reasons]
    /\ result \in [Command -> Result]

\* Nothing happens for a call that has not come to run, nothing runs when spawn
\* failed, and each of the two reasons sets one SIGKILL timer.
CommandInv(c) ==
    /\ result[c] = "none" => alive[c] = {} /\ timer[c] = {} /\ marks[c] = {}
    /\ result[c] = "error" => alive[c] = {}
    /\ timer[c] \cap marks[c] = {}
    /\ marks[c] = {} => kills[c] = 0
    /\ marks[c] # Reasons => kills[c] <= 1

RInv ==
    /\ RescueTypes
    /\ OneShell
    /\ StrayKillNeedsBoth
    /\ \A c \in Command : CommandInv(c)

LEMMA RunRescue == ASSUME RInv, NEW c \in Command, NEW spawned \in BOOLEAN, Run(c, spawned)
                   PROVE  RInv'
BY DEF Run, RInv, RescueTypes, CommandInv, OneShell, StrayKillNeedsBoth, Reasons

LEMMA ForkRescue == ASSUME RInv, NEW c \in Command, NEW kind \in Process,
                           Fork(c, kind) \/ End(c, kind)
                    PROVE  RInv'
BY DEF Fork, End, RInv, RescueTypes, CommandInv, OneShell, StrayKillNeedsBoth, Reasons

LEMMA TerminateRescue == ASSUME RInv, NEW c \in Command, NEW reason \in Reasons,
                                Terminate(c, reason)
                         PROVE  RInv'
BY DEF Terminate, RInv, RescueTypes, CommandInv, OneShell, StrayKillNeedsBoth, Reasons

LEMMA HardKillRescue == ASSUME RInv, NEW c \in Command, HardKill(c) PROVE RInv'
BY DEF HardKill, RInv, RescueTypes, CommandInv, OneShell, StrayKillNeedsBoth, Reasons

LEMMA CommandEndsRescue == ASSUME RInv, NEW c \in Command, CommandEnds(c) PROVE RInv'
BY DEF CommandEnds, RInv, RescueTypes, CommandInv, OneShell, StrayKillNeedsBoth, Reasons

LEMMA RescueStep == ASSUME RInv, [RescueNext]_rescueVars PROVE RInv'
<1>1. CASE UNCHANGED rescueVars
  BY <1>1 DEF rescueVars, RInv, RescueTypes, CommandInv, OneShell, StrayKillNeedsBoth
<1> QED
  BY <1>1, RunRescue, ForkRescue, TerminateRescue, HardKillRescue, CommandEndsRescue
     DEF RescueNext, Reasons

LEMMA RescueStarts == RescueInit => RInv
BY DEF RescueInit, RInv, RescueTypes, CommandInv, OneShell, StrayKillNeedsBoth, Reasons

LEMMA RescueInvariant == RescueSpec => []RInv
BY RescueStarts, RescueStep, PTL DEF RescueSpec

LEMMA RescueTypesFollow == ASSUME RInv PROVE RescueTypeOK
<1>1. slot \subseteq Command /\ Cardinality(slot) <= 1
  <2>1. CASE slot = {}
    BY <2>1, FS_EmptySet
  <2>2. ASSUME NEW c \in Command, slot = {c} PROVE slot \subseteq Command /\ Cardinality(slot) = 1
    BY <2>2, FS_Singleton
  <2> QED  BY <2>1, <2>2 DEF RInv, RescueTypes
<1> QED  BY <1>1 DEF RInv, RescueTypes, RescueTypeOK, Reasons

(* The variables of rescue_exec have the types they should: in particular    *)
(* one command at a time has the slot, and two SIGKILL timers is the most.   *)
THEOREM RescueTypesHold == RescueSpec => []RescueTypeOK
<1>1. RInv => RescueTypeOK
  BY RescueTypesFollow
<1> QED  BY <1>1, RescueInvariant, PTL

(* Two rescue shells never run at the same time.                             *)
THEOREM RescueOneShell == RescueSpec => []OneShell
<1>1. RInv => OneShell
  BY DEF RInv
<1> QED  BY <1>1, RescueInvariant, PTL

(* What may kill after the end of a command was set by the first of two      *)
(* reasons to end it.                                                        *)
THEOREM RescueStrayKill == RescueSpec => []StrayKillNeedsBoth
<1>1. RInv => StrayKillNeedsBoth
  BY DEF RInv
<1> QED  BY <1>1, RescueInvariant, PTL

-----------------------------------------------------------------------------
(* The outbox.                                                               *)

\* The attempt that holds the claim of a row, and a claimed row nobody may settle
\* or that may be taken over.
HoldsIt(f, d) == flusher[f].on = d /\ flusher[f].claim = outbox[d].attempts
Forsaken(d) == outbox[d].state = "sending" /\ (outbox[d].stale \/ ~Holder(d))

\* A stored row has a subscription, a pending one an attempt left; a claim that is
\* given up has cost a fault.
RowFits(d) ==
    LET r == outbox[d] IN
    /\ r.state = "none" => r.attempts = 0 /\ r.ambiguousAttempts = 0 /\ d \notin posted
    /\ r.state # "none" => r.sub \in Sub
    /\ r.state = "pending" => r.attempts < MaxAttempts
    /\ r.state = "sending" => d \in posted /\ r.ambiguousAttempts < 2 * r.attempts
    /\ r.ambiguousAttempts <= 2 * r.attempts
    /\ r.attempts <= MaxAttempts + faults
    /\ Forsaken(d) => r.attempts < MaxAttempts + faults

\* What a flush call holds in its locals against the row it is about.
FlushFits(f) ==
    LET on == flusher[f].on
        claim == flusher[f].claim
    IN
    /\ on = NoDispatch => flusher[f].answer = "none"
    /\ on # NoDispatch =>
          /\ on \in posted
          /\ 1 <= claim /\ claim <= outbox[on].attempts
          /\ claim < outbox[on].attempts => on \in stray
          /\ claim = outbox[on].attempts => outbox[on].state \in {"sending", "cancelled"}
          /\ flusher[f].answer = "ok" => on \in received

OwnClaims ==
    \A f, g \in Flusher :
        f # g /\ flusher[f].on = flusher[g].on /\ flusher[f].on # NoDispatch =>
            flusher[f].claim # flusher[g].claim

\* The row is claimed or cancelled, and its holder, if there still is one, has one
\* of these answers.
HolderHas(d, S) ==
    /\ outbox[d].state \in {"sending", "cancelled"}
    /\ \A f \in Flusher : HoldsIt(f, d) => flusher[f].answer \in S

\* An event on the wire or received is accounted for.
Accounted(d) ==
    /\ d \in late => d \in posted /\ (d \in stray \/ HolderHas(d, {"unknown"}))
    /\ d \in received => \/ d \in stray
                         \/ outbox[d].state = "accepted"
                         \/ HolderHas(d, {"ok", "unknown"})

OInv ==
    /\ OutboxTypeOK
    /\ OwnClaims
    /\ \A f \in Flusher : FlushFits(f)
    /\ \A d \in Dispatch : RowFits(d) /\ Accounted(d)

USE OutboxAssumption
USE DEF MaxClaims, RowState, Undelivered, Response, Flush, OutboxRow, Idle

LEMMA OutboxInitial == OutboxInit => OInv
BY DEF OutboxInit, OInv, OutboxTypeOK, OwnClaims, FlushFits, RowFits, Accounted, HolderHas, HoldsIt, Forsaken

\* A row is enqueued, cancelled, or keeps its state; if it goes stale under its
\* holder, that is a fault.
RowStep(d) ==
    /\ outbox'[d].attempts = outbox[d].attempts
    /\ outbox'[d].ambiguousAttempts = outbox[d].ambiguousAttempts
    /\ \/ outbox'[d].state = outbox[d].state /\ outbox'[d].sub = outbox[d].sub
       \/ /\ outbox[d].state = "none" /\ outbox'[d].state = "pending"
          /\ outbox'[d].sub \in Sub
       \/ /\ outbox[d].state \in Undelivered /\ outbox'[d].state = "cancelled"
          /\ outbox'[d].sub = outbox[d].sub
    /\ outbox'[d].stale /\ Holder(d) => outbox[d].stale \/ faults' > faults

\* Steps that leave the flush calls, posted, stray, late, received alone.
LEMMA RowMoves ==
    ASSUME OInv, UNCHANGED <<flusher, late, received, posted, stray>>,
           faults' \in 0..MaxFaults, faults' >= faults,
           outbox' \in [Dispatch -> OutboxRow],
           subs' \in [Sub -> {"absent", "active", "idle"}],
           \A d \in Dispatch : RowStep(d)
    PROVE  OInv'
<1> USE DEF RowStep
<1>1. OutboxTypeOK'
      BY DEF OInv, OutboxTypeOK
<1>2. OwnClaims'
      BY DEF OInv, OwnClaims
<1>3. ASSUME NEW f \in Flusher PROVE FlushFits(f)'
      BY DEF OInv, OutboxTypeOK, FlushFits
<1>4. ASSUME NEW d \in Dispatch PROVE RowFits(d)'
  <2>1. RowFits(d) /\ Holder(d)' = Holder(d)
        BY DEF OInv, Holder
  <2>2. Forsaken(d)' => outbox[d].attempts < MaxAttempts + faults'
        BY <2>1 DEF OInv, OutboxTypeOK, RowFits, Forsaken
  <2> QED
      BY <2>1, <2>2 DEF OInv, OutboxTypeOK, RowFits
<1>5. ASSUME NEW d \in Dispatch PROVE Accounted(d)'
  <2>1. d \in posted => outbox[d].state # "none"
        BY DEF OInv, RowFits
  <2> QED
      BY <2>1 DEF OInv, OutboxTypeOK, Accounted, HolderHas, HoldsIt
<1> QED
    BY <1>1, <1>2, <1>3, <1>4, <1>5 DEF OInv

LEMMA RowSteps ==
    ASSUME OInv,
           \/ \E d \in Dispatch : RetryDue(d) \/ ClaimExpires(d) \/ Reconcile(d)
           \/ \E d \in Dispatch, s \in Sub : EnqueueContinue(d, s)
           \/ \E s \in Sub : Subscribe(s) \/ Expire(s) \/ Unsubscribe(s)
    PROVE  OInv'
<1>1. ASSUME NEW d \in Dispatch, RetryDue(d) \/ ClaimExpires(d) PROVE OInv'
  <2>1. /\ UNCHANGED <<subs, flusher, late, received, posted, stray>>
        /\ subs \in [Sub -> {"absent", "active", "idle"}]
        /\ faults' \in 0..MaxFaults /\ faults' >= faults
        BY <1>1 DEF RetryDue, ClaimExpires, OInv, OutboxTypeOK
  <2>4. outbox' \in [Dispatch -> OutboxRow]
    <3>1. ASSUME NEW r \in OutboxRow
          PROVE  [r EXCEPT !.due = TRUE] \in OutboxRow /\ [r EXCEPT !.stale = TRUE] \in OutboxRow
          OBVIOUS
    <3>2. /\ RetryDue(d) => outbox' = [outbox EXCEPT ![d] = [outbox[d] EXCEPT !.due = TRUE]]
          /\ ClaimExpires(d) => outbox' = [outbox EXCEPT ![d] = [outbox[d] EXCEPT !.stale = TRUE]]
          BY DEF RetryDue, ClaimExpires
    <3>3. ASSUME NEW r \in OutboxRow PROVE [outbox EXCEPT ![d] = r] \in [Dispatch -> OutboxRow]
          BY DEF OInv, OutboxTypeOK
    <3>4. outbox[d] \in OutboxRow
          BY DEF OInv, OutboxTypeOK
    <3> HIDE DEF OutboxRow
    <3> QED
        BY <1>1, <3>1, <3>2, <3>3, <3>4
  <2>2. outbox[d].stale' => outbox[d].stale \/ ~Holder(d) \/ faults' > faults
        BY <1>1 DEF RetryDue, ClaimExpires, OInv, OutboxTypeOK
  <2>3. ASSUME NEW e \in Dispatch PROVE RowStep(e)
        BY <1>1, <2>1, <2>2 DEF RetryDue, ClaimExpires, RowStep, OInv, OutboxTypeOK
  <2> QED
      BY <2>1, <2>3, <2>4, RowMoves
<1>2. ASSUME NEW d \in Dispatch, NEW s \in Sub, EnqueueContinue(d, s) PROVE OInv'
  <2>1. /\ outbox[d].state = "none" /\ s \in Sub /\ outbox[d] \in OutboxRow
        /\ outbox'[d] = [outbox[d] EXCEPT !.state = "pending", !.sub = s]
        /\ \A e \in Dispatch \ {d} : outbox'[e] = outbox[e]
        BY <1>2 DEF EnqueueContinue, OInv, OutboxTypeOK
  <2>2. outbox' \in [Dispatch -> OutboxRow]
        BY <1>2, <2>1 DEF EnqueueContinue, OInv, OutboxTypeOK
  <2>4. ASSUME NEW e \in Dispatch PROVE RowStep(e)
    <3>1. CASE e = d
          BY <2>1, <3>1 DEF RowStep
    <3>2. CASE e # d
      <4>1. outbox'[e] = outbox[e]
            BY <2>1, <3>2
      <4> QED
          BY <4>1 DEF RowStep
    <3> QED
        BY <3>1, <3>2
  <2>3. /\ UNCHANGED <<subs, flusher, late, received, faults, posted, stray>>
        /\ faults \in 0..MaxFaults /\ subs \in [Sub -> {"absent", "active", "idle"}]
        BY <1>2 DEF EnqueueContinue, OInv, OutboxTypeOK
  <2> QED
      BY <2>1, <2>2, <2>3, <2>4, RowMoves
<1>3. ASSUME NEW s \in Sub, Subscribe(s) \/ Expire(s) PROVE OInv'
  <2>1. /\ UNCHANGED <<outbox, flusher, late, received, faults, posted, stray>>
        /\ faults \in 0..MaxFaults /\ outbox \in [Dispatch -> OutboxRow]
        /\ subs' \in [Sub -> {"absent", "active", "idle"}]
        BY <1>3 DEF Subscribe, Expire, OInv, OutboxTypeOK
  <2>2. ASSUME NEW e \in Dispatch PROVE RowStep(e)
        BY <2>1 DEF RowStep
  <2> QED
      BY <2>1, <2>2, RowMoves
<1>4. ASSUME \/ \E d \in Dispatch : Reconcile(d)
             \/ \E s \in Sub : Unsubscribe(s)
      PROVE  OInv'
  <2>1. ASSUME NEW D \in SUBSET Dispatch, outbox' = CancelRows(D),
               UNCHANGED <<flusher, late, received, faults, posted, stray>>,
               subs' \in [Sub -> {"absent", "active", "idle"}]
        PROVE  OInv'
    <3>1. ASSUME NEW e \in Dispatch PROVE RowStep(e)
          BY <2>1 DEF CancelRows, RowStep, OInv, OutboxTypeOK
    <3>2. outbox' \in [Dispatch -> OutboxRow]
      <4>1. ASSUME NEW e \in Dispatch PROVE [outbox[e] EXCEPT !.state = "cancelled"] \in OutboxRow
            BY DEF OInv, OutboxTypeOK
      <4> QED
          BY <2>1, <4>1 DEF CancelRows, OInv, OutboxTypeOK
    <3> QED
        BY <2>1, <3>1, <3>2, RowMoves DEF OInv, OutboxTypeOK
  <2> QED
      BY <1>4, <2>1 DEF Reconcile, Unsubscribe, OInv, OutboxTypeOK
<1> QED
    BY <1>1, <1>2, <1>3, <1>4

\* Steps that leave the rows alone.
LEMMA StartStep ==
    ASSUME OInv, NEW f \in Flusher, NEW D \in SUBSET Dispatch, FlushStart(f, D)
    PROVE  OInv'
<1>1. \A g \in Flusher : /\ flusher'[g].on = flusher[g].on
                         /\ flusher'[g].claim = flusher[g].claim
                         /\ flusher'[g].answer = flusher[g].answer
      BY DEF FlushStart, OInv, OutboxTypeOK
<1>2. OutboxTypeOK'
      BY DEF FlushStart, OInv, OutboxTypeOK
<1>3. OwnClaims' /\ \A g \in Flusher : FlushFits(g)'
      BY <1>1 DEF FlushStart, OInv, OwnClaims, FlushFits
<1>4. ASSUME NEW d \in Dispatch PROVE RowFits(d)' /\ Accounted(d)'
      BY <1>1 DEF FlushStart, OInv, RowFits, Accounted, HolderHas, HoldsIt, Forsaken, Holder
<1> QED
    BY <1>2, <1>3, <1>4 DEF OInv

LEMMA ClaimStep ==
    ASSUME OInv, NEW f \in Flusher, NEW d \in Dispatch, Claim(f, d)
    PROVE  OInv'
<1>1. flusher[f].on = NoDispatch /\ flusher[f].answer = "none" /\ d # NoDispatch
      BY DEF Claim, OInv, FlushFits
<1>2. CASE UNCHANGED <<posted, stray>> /\ flusher' = [flusher EXCEPT ![f].todo = @ \ {d}]
  <2>1. \/ UNCHANGED outbox
        \/ /\ outbox[d].state \in Undelivered
           /\ outbox' = [outbox EXCEPT ![d].state = "cancelled"]
        BY <1>2 DEF Claim, StillClaimable, Claimable, OInv, OutboxTypeOK
  <2>2. \A g \in Flusher : /\ flusher'[g].on = flusher[g].on
                           /\ flusher'[g].claim = flusher[g].claim
                           /\ flusher'[g].answer = flusher[g].answer
        BY <1>2 DEF OInv, OutboxTypeOK
  <2>3. OutboxTypeOK'
    <3>1. outbox' \in [Dispatch -> OutboxRow]
          BY <2>1 DEF OInv, OutboxTypeOK
    <3>2. flusher' \in [Flusher -> Flush]
          BY <1>2, SMTT(40) DEF OInv, OutboxTypeOK
    <3> QED
        BY <1>2, <3>1, <3>2 DEF Claim, OInv, OutboxTypeOK
  <2>6. \A e \in Dispatch : /\ outbox'[e].attempts = outbox[e].attempts
                            /\ outbox'[e].state \in {outbox[e].state, "cancelled"}
        BY <2>1 DEF OInv, OutboxTypeOK
  <2>7. OwnClaims'
        BY <2>2 DEF OInv, OwnClaims
  <2>4. ASSUME NEW g \in Flusher PROVE FlushFits(g)'
    <3>1. flusher[g].on \in Dispatch \cup {NoDispatch} /\ FlushFits(g)
          BY DEF OInv, OutboxTypeOK
    <3> QED
        BY <1>2, <2>2, <2>6, <3>1 DEF Claim, FlushFits
  <2>5. ASSUME NEW e \in Dispatch PROVE RowFits(e)' /\ Accounted(e)'
        BY <1>2, <2>1, <2>2
        DEF Claim, OInv, OutboxTypeOK, RowFits, Accounted, HolderHas, HoldsIt, Forsaken, Holder
  <2> QED
      BY <2>3, <2>4, <2>5, <2>7 DEF OInv
<1>3. CASE /\ Claimable(outbox[d]) /\ Active(outbox[d].sub)
           /\ outbox' = [outbox EXCEPT
                ![d].state = "sending",
                ![d].attempts = @ + 1,
                ![d].ambiguousAttempts = IF outbox[d].state = "sending" THEN @ + 1 ELSE @,
                ![d].stale = FALSE]
           /\ flusher' = [flusher EXCEPT ![f].todo = @ \ {d}, ![f].on = d,
                                         ![f].claim = outbox[d].attempts + 1]
           /\ posted' = posted \cup {d}
           /\ stray' = IF outbox[d].state = "sending" THEN stray \cup {d} ELSE stray
           /\ UNCHANGED <<subs, late, received, faults>>
  <2> DEFINE r == outbox[d]
  <2>1. /\ RowFits(d) /\ r \in OutboxRow /\ r.attempts \in Nat
        /\ r.attempts < MaxAttempts + faults
        /\ r.state \in Undelivered
        BY <1>3 DEF Claimable, OInv, OutboxTypeOK, RowFits, Forsaken
  <2>2. outbox'[d] = [r EXCEPT !.state = "sending", !.attempts = r.attempts + 1,
                 !.ambiguousAttempts = IF r.state = "sending" THEN @ + 1 ELSE @,
                 !.stale = FALSE]
        /\ \A e \in Dispatch \ {d} : outbox'[e] = outbox[e]
        BY <1>3, <2>1 DEF OInv, OutboxTypeOK
  <2>3. /\ flusher'[f].on = d /\ flusher'[f].claim = r.attempts + 1
        /\ flusher'[f].answer = "none"
        /\ \A g \in Flusher \ {f} : flusher'[g] = flusher[g]
        BY <1>1, <1>3 DEF OInv, OutboxTypeOK
  <2>4. OutboxTypeOK'
    <3>1. outbox'[d] \in OutboxRow
      <4>1. r.attempts + 1 \in 0..MaxClaims
            BY <2>1 DEF OInv, OutboxTypeOK
      <4>2. /\ r.ambiguousAttempts \in Nat
            /\ r.ambiguousAttempts <= 2 * r.attempts
            /\ r.state = "sending" => r.ambiguousAttempts < 2 * r.attempts
            BY <2>1 DEF RowFits
      <4>3. (IF r.state = "sending" THEN r.ambiguousAttempts + 1 ELSE r.ambiguousAttempts)
                \in 0..2 * MaxClaims
            BY <2>1, <4>1, <4>2
      <4> QED
          BY <2>1, <2>2, <4>1, <4>3
    <3>2. outbox' \in [Dispatch -> OutboxRow]
          BY <1>3, <2>2, <3>1 DEF OInv, OutboxTypeOK
    <3>3. flusher' \in [Flusher -> Flush]
          BY <1>3, <2>1 DEF OInv, OutboxTypeOK
    <3> QED
        BY <1>3, <3>2, <3>3 DEF OInv, OutboxTypeOK
  <2>5. ASSUME NEW g \in Flusher \ {f}, flusher[g].on = d
        PROVE  flusher[g].claim < r.attempts + 1 /\ d \in stray'
        BY <1>3, <2>1, <2>5 DEF OInv, OutboxTypeOK, FlushFits
  <2>6. OwnClaims'
        BY <2>3, <2>5, <2>1 DEF OInv, OutboxTypeOK, OwnClaims
  <2>7. ASSUME NEW g \in Flusher PROVE FlushFits(g)'
    <3>1. CASE g = f
      <4>1. /\ outbox'[d].attempts = r.attempts + 1 /\ outbox'[d].state = "sending"
            /\ d \in posted'
            BY <1>3, <2>1, <2>2, ZenonT(40)
      <4> QED
          BY <1>1, <2>1, <2>3, <3>1, <4>1 DEF FlushFits
    <3>2. CASE g # f /\ flusher[g].on = d
      <4>1. /\ FlushFits(g) /\ flusher'[g] = flusher[g]
            /\ flusher[g].claim < r.attempts + 1 /\ d \in stray'
            /\ flusher[g].claim \in Nat
            BY <2>3, <2>5, <3>2 DEF OInv, OutboxTypeOK
      <4>2. d \in posted' /\ received' = received /\ outbox'[d].attempts = r.attempts + 1
            BY <1>3, <2>1, <2>2
      <4> QED
          BY <1>1, <2>1, <3>2, <4>1, <4>2 DEF FlushFits
    <3>3. CASE g # f /\ flusher[g].on # d
      <4>1. /\ FlushFits(g) /\ flusher[g].on \in Dispatch \cup {NoDispatch}
            /\ flusher'[g] = flusher[g]
            BY <2>3, <3>3 DEF OInv, OutboxTypeOK
      <4>2. flusher[g].on # NoDispatch => outbox'[flusher[g].on] = outbox[flusher[g].on]
            BY <2>2, <3>3, <4>1
      <4>3. posted \subseteq posted' /\ stray \subseteq stray' /\ received' = received
            BY <1>3
      <4> QED
          BY <4>1, <4>2, <4>3 DEF FlushFits
    <3> QED
        BY <3>1, <3>2, <3>3
  <2>8. ASSUME NEW e \in Dispatch \ {d} PROVE RowFits(e)' /\ Accounted(e)'
    <3>1. \A g \in Flusher : HoldsIt(g, e)' <=> HoldsIt(g, e)
          BY <1>1, <2>2, <2>3, <2>8 DEF HoldsIt
    <3>2. \A g \in Flusher : HoldsIt(g, e) => flusher'[g] = flusher[g]
          BY <1>1, <2>3, OutboxAssumption DEF HoldsIt
    <3>3. /\ outbox'[e] = outbox[e] /\ faults' = faults
          /\ e \in posted' <=> e \in posted
          /\ e \in stray' <=> e \in stray
          /\ late' = late /\ received' = received
          BY <1>3, <2>2, <2>8
    <3>4. Holder(e)' = Holder(e)
          BY <3>1 DEF Holder, HoldsIt
    <3>5. RowFits(e)'
          BY <3>3, <3>4 DEF OInv, RowFits, Forsaken
    <3>6. \A S : HolderHas(e, S) => HolderHas(e, S)'
          BY <3>1, <3>2, <3>3 DEF HolderHas
    <3> QED
        BY <3>3, <3>5, <3>6 DEF OInv, Accounted
  <2>9. RowFits(d)'
    <3>1. ~Forsaken(d)'
          BY <2>1, <2>2, <2>3 DEF Forsaken, Holder
    <3> QED
        BY <1>3, <2>1, <2>2, <3>1 DEF RowFits, Active, OInv, OutboxTypeOK
  <2>10. Accounted(d)'
        BY <1>3, <2>1, <2>2 DEF Accounted, HolderHas, OInv
  <2> QED
      BY <2>4, <2>6, <2>7, <2>8, <2>9, <2>10 DEF OInv
<1> QED
    BY <1>2, <1>3 DEF Claim, StillClaimable

\* The flush calls after f has got an answer.
LEMMA AnswerFacts ==
    ASSUME OInv, NEW f \in Flusher, NEW answer, Sending(f),
           flusher' = [flusher EXCEPT ![f].answer = answer], UNCHANGED outbox
    PROVE  /\ flusher[f].on \in Dispatch /\ FlushFits(f)
           /\ flusher'[f].answer = answer
           /\ \A g \in Flusher \ {f} : flusher'[g] = flusher[g]
           /\ \A g \in Flusher : /\ flusher'[g].on = flusher[g].on
                                /\ flusher'[g].claim = flusher[g].claim
           /\ \A d \in Dispatch, g \in Flusher : HoldsIt(g, d)' <=> HoldsIt(g, d)
           /\ \A d \in Dispatch : Holder(d)' <=> Holder(d)
<1>1. /\ flusher'[f].answer = answer
      /\ \A g \in Flusher \ {f} : flusher'[g] = flusher[g]
      /\ \A g \in Flusher : /\ flusher'[g].on = flusher[g].on
                           /\ flusher'[g].claim = flusher[g].claim
      BY DEF OInv, OutboxTypeOK
<1>2. flusher[f].on \in Dispatch /\ FlushFits(f)
      BY DEF Sending, OInv, OutboxTypeOK
<1> QED
    BY <1>1, <1>2 DEF HoldsIt, Holder

\* Of a row, the holder is one, and any other attempt still out is a stray one.
LEMMA HolderUnique ==
    ASSUME OInv, NEW f \in Flusher, flusher[f].on # NoDispatch
    PROVE  LET d == flusher[f].on IN
           /\ d \in Dispatch
           /\ flusher[f].claim \in Nat /\ outbox[d].attempts \in Nat
           /\ ~HoldsIt(f, d) => d \in stray
           /\ HoldsIt(f, d) => /\ outbox[d].state \in {"sending", "cancelled"}
                              /\ \A g \in Flusher \ {f} : ~HoldsIt(g, d)
<1>1. /\ flusher[f].on \in Dispatch /\ FlushFits(f) /\ OwnClaims
      /\ flusher[f].claim \in Nat /\ outbox[flusher[f].on].attempts \in Nat
      BY DEF OInv, OutboxTypeOK
<1> QED
    BY <1>1 DEF FlushFits, HoldsIt, OwnClaims

LEMMA ResolveStep ==
    ASSUME OInv, NEW f \in Flusher, Resolve(f)
    PROVE  OInv'
<1> DEFINE d == flusher[f].on
<1>1. PICK answer \in Response :
          /\ Sending(f) /\ flusher' = [flusher EXCEPT ![f].answer = answer]
          /\ \/ /\ received' = received /\ late' = late /\ answer # "ok"
             \/ /\ received' = received \cup {d} /\ late' = late
                /\ answer \in {"ok", "unknown"}
             \/ /\ received' = received /\ late' = late \cup {d} /\ answer = "unknown"
          /\ UNCHANGED <<outbox, subs, faults, posted, stray>>
      BY DEF Resolve, Answer, GiveUp
<1>2. /\ d \in Dispatch /\ FlushFits(f) /\ d # NoDispatch
      /\ flusher'[f].answer = answer
      /\ \A g \in Flusher \ {f} : flusher'[g] = flusher[g]
      /\ \A g \in Flusher : /\ flusher'[g].on = flusher[g].on
                           /\ flusher'[g].claim = flusher[g].claim
      /\ \A e \in Dispatch, g \in Flusher : HoldsIt(g, e)' <=> HoldsIt(g, e)
      /\ \A e \in Dispatch : Holder(e)' <=> Holder(e)
      BY <1>1, AnswerFacts
<1>3. OutboxTypeOK'
  <2>1. flusher' \in [Flusher -> Flush]
        BY <1>1 DEF OInv, OutboxTypeOK
  <2> QED
      BY <1>1, <1>2, <2>1 DEF OInv, OutboxTypeOK
<1>4. OwnClaims'
      BY <1>2 DEF OInv, OwnClaims
<1>5. ASSUME NEW g \in Flusher PROVE FlushFits(g)'
  <2>1. FlushFits(g) /\ received \subseteq received'
        BY <1>1 DEF OInv
  <2>2. answer = "ok" => d \in received'
        BY <1>1
  <2> QED
      BY <1>1, <1>2, <2>1, <2>2 DEF FlushFits
<1>6. ASSUME NEW e \in Dispatch PROVE RowFits(e)'
      BY <1>1, <1>2 DEF OInv, RowFits, Forsaken
<1>7. ASSUME NEW e \in Dispatch PROVE Accounted(e)'
  <2>1. Accounted(e)
        BY DEF OInv
  <2>2. CASE e # d
    <3>1. \A g \in Flusher : HoldsIt(g, e) => flusher'[g] = flusher[g]
          BY <1>2, <2>2 DEF HoldsIt
    <3>2. \A S : HolderHas(e, S) => HolderHas(e, S)'
          BY <1>1, <1>2, <3>1 DEF HolderHas
    <3>3. (e \in late' <=> e \in late) /\ (e \in received' <=> e \in received)
          BY <1>1, <2>2
    <3> QED
        BY <1>1, <2>1, <3>2, <3>3 DEF Accounted
  <2>3. CASE e = d /\ d \in stray
        BY <1>1, <1>2, <2>3 DEF Accounted, FlushFits
  <2>4. CASE e = d /\ d \notin stray
    <3>1. /\ HoldsIt(f, d) /\ outbox[d].state \in {"sending", "cancelled"}
          /\ \A g \in Flusher \ {f} : ~HoldsIt(g, d)
          BY <1>2, <2>4, HolderUnique
    <3>2. \A S : answer \in S => HolderHas(d, S)'
          BY <1>1, <1>2, <3>1 DEF HolderHas
    <3>3. d \notin late
          BY <1>1, <2>1, <2>4, <3>1 DEF Accounted, HolderHas, Sending
    <3>4. d \notin received
          BY <1>1, <2>1, <2>4, <3>1 DEF Accounted, HolderHas, Sending
    <3> QED
        BY <1>1, <1>2, <2>4, <3>2, <3>3, <3>4 DEF Accounted, FlushFits
  <2> QED
      BY <2>2, <2>3, <2>4
<1> QED
    BY <1>3, <1>4, <1>5, <1>6, <1>7 DEF OInv

LEMMA ArriveStep ==
    ASSUME OInv, NEW d \in Dispatch, ArriveLate(d)
    PROVE  OInv'
<1>1. d \in late /\ d \in posted /\ Accounted(d)
      BY DEF ArriveLate, OInv, Accounted
<1>2. \A e \in Dispatch : HolderHas(e, {"unknown"}) => HolderHas(e, {"ok", "unknown"})
      BY DEF HolderHas
<1>3. OutboxTypeOK' /\ OwnClaims'
      BY DEF ArriveLate, OInv, OutboxTypeOK, OwnClaims
<1>4. ASSUME NEW f \in Flusher PROVE FlushFits(f)'
      BY DEF ArriveLate, OInv, FlushFits
<1>5. ASSUME NEW e \in Dispatch PROVE RowFits(e)' /\ Accounted(e)'
  <2>1. \A S : HolderHas(e, S)' <=> HolderHas(e, S)
        BY DEF ArriveLate, HolderHas, HoldsIt
  <2>2. RowFits(e)'
        BY DEF ArriveLate, OInv, RowFits, Forsaken, Holder
  <2> QED
      BY <1>1, <1>2, <2>1, <2>2 DEF ArriveLate, OInv, Accounted
<1> QED
    BY <1>3, <1>4, <1>5 DEF OInv

\* Once f is idle again, the other calls are what they were, and rows have fewer
\* holders.
LEMMA IdleFacts ==
    ASSUME OInv, NEW f \in Flusher, NEW i \in Flush, i.on = NoDispatch, i.claim = 0,
           i.answer = "none", flusher' = [flusher EXCEPT ![f] = i]
    PROVE  /\ flusher' \in [Flusher -> Flush]
           /\ flusher'[f] = i
           /\ \A g \in Flusher \ {f} : flusher'[g] = flusher[g]
           /\ OwnClaims'
<1>1. /\ flusher' \in [Flusher -> Flush] /\ flusher'[f] = i
      /\ \A g \in Flusher \ {f} : flusher'[g] = flusher[g]
      BY DEF OInv, OutboxTypeOK
<1> QED
    BY <1>1 DEF OInv, OwnClaims

LEMMA CrashStep ==
    ASSUME OInv, NEW f \in Flusher, Crash(f)
    PROVE  OInv'
<1>1. /\ flusher' \in [Flusher -> Flush] /\ flusher'[f] = Idle
      /\ \A g \in Flusher \ {f} : flusher'[g] = flusher[g]
      /\ OwnClaims'
  <2>1. Idle \in Flush
        OBVIOUS
  <2> QED
      BY <2>1, IdleFacts DEF Crash
<1>2. OutboxTypeOK'
      BY <1>1 DEF Crash, Sending, OInv, OutboxTypeOK
<1>3. ASSUME NEW g \in Flusher PROVE FlushFits(g)'
      BY <1>1 DEF Crash, OInv, FlushFits
<1>4. ASSUME NEW d \in Dispatch PROVE RowFits(d)'
  <2>1. RowFits(d) /\ outbox[d].attempts \in Nat /\ faults \in Nat
        BY DEF OInv, OutboxTypeOK
  <2> QED
      BY <2>1 DEF Crash, RowFits
<1>5. ASSUME NEW d \in Dispatch PROVE Accounted(d)'
  <2>1. \A g \in Flusher : HoldsIt(g, d)' => g # f /\ HoldsIt(g, d) /\ flusher'[g] = flusher[g]
        BY <1>1 DEF Crash, HoldsIt
  <2>2. \A S : HolderHas(d, S) => HolderHas(d, S)'
        BY <2>1 DEF Crash, HolderHas
  <2>3. CASE Sending(f) /\ d = flusher[f].on
    <3>1. d \in posted
          BY <2>3 DEF OInv, FlushFits, Sending
    <3>2. CASE HoldsIt(f, d)
      <4>1. /\ outbox[d].state \in {"sending", "cancelled"}
            /\ \A g \in Flusher \ {f} : ~HoldsIt(g, d)
            BY <2>3, <3>2, HolderUnique DEF Sending
      <4>2. HolderHas(d, {"unknown"})' /\ HolderHas(d, {"ok", "unknown"})'
            BY <2>1, <4>1 DEF Crash, HolderHas
      <4> QED
          BY <3>1, <4>2 DEF Crash, Accounted
    <3>3. CASE ~HoldsIt(f, d)
          BY <2>3, <3>1, <3>3, HolderUnique DEF Crash, Sending, Accounted
    <3> QED
        BY <3>2, <3>3
  <2>4. CASE ~(Sending(f) /\ d = flusher[f].on)
        BY <2>2, <2>4 DEF Crash, OInv, Accounted
  <2> QED
      BY <2>3, <2>4
<1> QED
    BY <1>1, <1>2, <1>3, <1>4, <1>5 DEF OInv

LEMMA SettleStep ==
    ASSUME OInv, NEW f \in Flusher, Settle(f)
    PROVE  OInv'
<1>0. PICK d \in Dispatch, answer \in Response : flusher[f].on = d /\ flusher[f].answer = answer
      BY DEF Settle, Answered, OInv, OutboxTypeOK
<1> DEFINE i == [Idle EXCEPT !.todo = flusher[f].todo]
<1>1. /\ d # NoDispatch /\ FlushFits(f) /\ flusher[f].on = d /\ flusher[f].answer = answer
      /\ outbox[d] \in OutboxRow /\ RowFits(d) /\ Accounted(d)
      BY <1>0 DEF Settle, Answered, OInv, OutboxTypeOK
<1>2. /\ flusher' \in [Flusher -> Flush]
      /\ \A g \in Flusher \ {f} : flusher'[g] = flusher[g]
      /\ OwnClaims'
      /\ flusher'[f].on = NoDispatch /\ flusher'[f].answer = "none"
  <2>1. i \in Flush /\ i.on = NoDispatch /\ i.claim = 0 /\ i.answer = "none"
        BY DEF OInv, OutboxTypeOK
  <2> QED
      BY <2>1, IdleFacts DEF Settle
<1>3. \A g \in Flusher, e \in Dispatch :
          /\ flusher'[g].on = e => g # f /\ flusher[g].on = e /\ flusher'[g] = flusher[g]
          /\ g # f => flusher'[g] = flusher[g]
      BY <1>1, <1>2
<1>4. CASE ~HoldsClaim(f)
  <2>1. /\ UNCHANGED <<outbox, subs, posted, stray, late, received, faults>>
        BY <1>4 DEF Settle
  <2>2. ASSUME NEW g \in Flusher PROVE FlushFits(g)'
        BY <1>2, <2>1 DEF OInv, FlushFits
  <2>3. ASSUME NEW e \in Dispatch PROVE RowFits(e)' /\ Accounted(e)'
    <3>1. \A g \in Flusher : HoldsIt(g, e)' => HoldsIt(g, e) /\ flusher'[g] = flusher[g]
          BY <1>3, <2>1 DEF HoldsIt
    <3>2. \A S : HolderHas(e, S) => HolderHas(e, S)'
          BY <2>1, <3>1 DEF HolderHas
    <3>3. outbox[e].state = "sending" => (Holder(e)' <=> Holder(e))
      <4>1. outbox[e].state = "sending" => ~HoldsIt(f, e)
            BY <1>4 DEF HoldsIt, HoldsClaim
      <4> QED
          BY <1>3, <2>1, <4>1 DEF Holder, HoldsIt
    <3>4. RowFits(e) /\ Accounted(e)
          BY DEF OInv
    <3> QED
        BY <2>1, <3>2, <3>3, <3>4 DEF RowFits, Forsaken, Accounted
  <2> QED
      BY <1>2, <2>1, <2>2, <2>3 DEF OInv, OutboxTypeOK
<1>5. CASE HoldsClaim(f)
  <2>1. /\ HoldsIt(f, d) /\ outbox[d].state = "sending" /\ d \in posted
        /\ \A g \in Flusher \ {f} : ~HoldsIt(g, d)
        BY <1>1, <1>5, HolderUnique DEF HoldsClaim, HoldsIt, FlushFits
  <2>2. /\ outbox' = [outbox EXCEPT ![d] = Verdict(outbox[d], answer)]
        /\ subs' \in [Sub -> {"absent", "active", "idle"}]
        /\ stray' = IF answer = "unknown" THEN stray \cup {d} ELSE stray
        /\ posted' = IF d \in stray' THEN posted ELSE posted \ {d}
        /\ UNCHANGED <<late, received, faults>>
        BY <1>0, <1>5 DEF Settle, OInv, OutboxTypeOK
  <2> DEFINE r == outbox[d]
             v == Verdict(r, answer)
  <2>3. /\ v.attempts = r.attempts /\ v.sub = r.sub /\ r.sub \in Sub
        /\ v.state \in {"accepted", "pending", "failed"}
        /\ v.state = "accepted" <=> answer = "ok"
        /\ v.state = "pending" => r.attempts < MaxAttempts
        /\ v.ambiguousAttempts \in Nat /\ r.attempts \in 0..MaxClaims
        /\ v.ambiguousAttempts <= 2 * r.attempts
        BY <1>1, <2>1 DEF Verdict, Retried, Ambiguous, RowFits
  <2>4. v \in OutboxRow
    <3>1. v.ambiguousAttempts \in 0..2 * MaxClaims
          BY <2>3
    <3>2. ASSUME NEW x \in RowState, NEW y \in 0..2 * MaxClaims
          PROVE  [r EXCEPT !.state = x, !.ambiguousAttempts = y, !.due = FALSE] \in OutboxRow
          BY <1>1
    <3>3. \E x, y : v = [r EXCEPT !.state = x, !.ambiguousAttempts = y, !.due = FALSE]
          BY DEF Verdict
    <3>4. PICK x, y : v = [r EXCEPT !.state = x, !.ambiguousAttempts = y, !.due = FALSE]
          BY <3>3
    <3>5. x = v.state /\ y = v.ambiguousAttempts
          BY <1>1, <3>4
    <3> HIDE DEF v, OutboxRow
    <3> QED
        BY <2>3, <3>1, <3>2, <3>4, <3>5
  <2>5. outbox' \in [Dispatch -> OutboxRow] /\ outbox'[d] = v
        /\ \A e \in Dispatch \ {d} : outbox'[e] = outbox[e]
        BY <1>1, <2>2, <2>4 DEF OInv, OutboxTypeOK
  <2>6. /\ stray \subseteq stray' /\ stray' \subseteq posted'
        /\ posted' \subseteq Dispatch
        /\ \A e \in Dispatch \ {d} : /\ e \in posted' <=> e \in posted
                                    /\ e \in stray' <=> e \in stray
        BY <1>1, <2>1, <2>2 DEF OInv, OutboxTypeOK
  <2>7. OutboxTypeOK'
        BY <1>2, <2>2, <2>5, <2>6 DEF OInv, OutboxTypeOK
  <2>8. ASSUME NEW g \in Flusher PROVE FlushFits(g)'
    <3>1. CASE g = f
          BY <1>2, <3>1 DEF FlushFits
    <3>2. CASE g # f /\ flusher[g].on = d
      <4>1. d \in stray /\ ~HoldsIt(g, d)
            BY <1>1, <2>1, <3>2, HolderUnique
      <4>2. FlushFits(g) /\ flusher'[g] = flusher[g]
            BY <1>2, <3>2 DEF OInv
      <4> QED
          BY <1>1, <2>2, <2>3, <2>5, <2>6, <3>2, <4>1, <4>2 DEF FlushFits, HoldsIt
    <3>3. CASE g # f /\ flusher[g].on # d
      <4>1. /\ FlushFits(g) /\ flusher'[g] = flusher[g]
            /\ flusher[g].on \in Dispatch \cup {NoDispatch}
            BY <1>2, <3>3 DEF OInv, OutboxTypeOK
      <4> QED
          BY <2>2, <2>5, <2>6, <3>3, <4>1 DEF FlushFits
    <3> QED
        BY <3>1, <3>2, <3>3
  <2>9. ASSUME NEW e \in Dispatch \ {d} PROVE RowFits(e)' /\ Accounted(e)'
    <3>1. \A g \in Flusher : /\ HoldsIt(g, e)' <=> HoldsIt(g, e)
                             /\ HoldsIt(g, e) => flusher'[g] = flusher[g]
          BY <1>1, <1>3, <2>5 DEF HoldsIt
    <3>2. \A S : HolderHas(e, S) => HolderHas(e, S)'
          BY <2>5, <3>1 DEF HolderHas
    <3>3. Holder(e)' <=> Holder(e)
          BY <3>1 DEF Holder, HoldsIt
    <3>4. RowFits(e) /\ Accounted(e) /\ outbox'[e] = outbox[e]
          BY <2>5 DEF OInv
    <3>5. RowFits(e)'
          BY <2>2, <2>6, <3>3, <3>4 DEF RowFits, Forsaken
    <3>6. Accounted(e)'
          BY <2>2, <2>6, <3>2, <3>4 DEF Accounted
    <3> QED
        BY <3>5, <3>6
  <2>10. RowFits(d)'
    <3>1. ~Forsaken(d)'
          BY <2>3, <2>5 DEF Forsaken
    <3> QED
        BY <1>1, <2>2, <2>3, <2>5, <3>1 DEF RowFits
  <2>11. Accounted(d)'
    <3>1. d \in late => d \in stray'
          BY <1>1, <2>1, <2>2 DEF Accounted, HolderHas
    <3>2. d \in received => d \in stray' \/ answer = "ok"
          BY <1>1, <2>1, <2>2 DEF Accounted, HolderHas
    <3> QED
        BY <2>2, <2>3, <2>5, <2>6, <3>1, <3>2 DEF Accounted
  <2> QED
      BY <1>2, <2>7, <2>8, <2>9, <2>10, <2>11 DEF OInv
<1> QED
    BY <1>4, <1>5

LEMMA OutboxStep == ASSUME OInv, [OutboxNext]_vars PROVE OInv'
<1>1. CASE UNCHANGED vars
      BY <1>1 DEF vars, OInv, OutboxTypeOK, OwnClaims, FlushFits, RowFits, Forsaken, Holder,
                  Accounted, HolderHas, HoldsIt
<1>2. CASE OutboxNext
  <2>1. ASSUME NEW f \in Flusher, Work(f) \/ Crash(f) \/ FlushStart(f, Dispatch) PROVE OInv'
        BY <2>1, ResolveStep, SettleStep, ClaimStep, CrashStep, StartStep DEF Work
  <2>2. ASSUME NEW f \in Flusher, NEW d \in Dispatch, FlushStart(f, {d}) PROVE OInv'
        BY <2>2, StartStep
  <2>3. ASSUME NEW d \in Dispatch, RetryDue(d) \/ ClaimExpires(d) \/ Reconcile(d) PROVE OInv'
        BY <2>3, RowSteps
  <2>4. ASSUME NEW d \in Dispatch, ArriveLate(d) PROVE OInv'
        BY <2>4, ArriveStep
  <2>5. ASSUME NEW d \in Dispatch, NEW s \in Sub, EnqueueContinue(d, s) PROVE OInv'
        BY <2>5, RowSteps
  <2>6. ASSUME NEW s \in Sub, Subscribe(s) \/ Expire(s) \/ Unsubscribe(s) PROVE OInv'
        BY <2>6, RowSteps
  <2> QED
      BY <1>2, <2>1, <2>2, <2>3, <2>4, <2>5, <2>6 DEF OutboxNext
<1> QED
    BY <1>1, <1>2

LEMMA OutboxInvariance == OutboxSpec => []OInv
BY OutboxInitial, OutboxStep, PTL DEF OutboxSpec

(* The variables of the outbox have the types they should: in particular no  *)
(* event is claimed more often than MaxAttempts, and once more for each      *)
(* claim taken over, whatever the flushers do (flush).                       *)
THEOREM OutboxTypesHold == OutboxSpec => []OutboxTypeOK
<1>1. OInv => OutboxTypeOK
      BY DEF OInv
<1> QED
    BY <1>1, OutboxInvariance, PTL

(* No verdict on a row while the attempt that holds its claim is still out.  *)
THEOREM OutboxVerdictWaits == OutboxSpec => []VerdictWaitsForHolder
<1>1. OInv => VerdictWaitsForHolder
      BY DEF OInv, FlushFits, VerdictWaitsForHolder
<1> QED
    BY <1>1, OutboxInvariance, PTL

-----------------------------------------------------------------------------
(* The outbox implements the delivery contract.                              *)

\* What the contract sees of a row, of the rows, of the subscriptions.
Seen(r) == [state |-> r.state, sub |-> r.sub, ambiguous |-> r.ambiguousAttempts > 0]
Rows == [d \in Dispatch |-> [state |-> outbox[d].state, sub |-> outbox[d].sub,
                             ambiguous |-> outbox[d].ambiguousAttempts > 0]]
Actives == {s \in Sub : Active(s)}

\* A record after its state changed and its mark was perhaps set.
LEMMA TwoFields ==
    ASSUME NEW A, NEW B, NEW C, NEW r \in [state : A, sub : B, ambiguous : C],
           NEW x \in A, NEW y \in C, NEW q, q = [r EXCEPT !.state = x, !.ambiguous = y]
    PROVE  q = [state |-> x, sub |-> r.sub, ambiguous |-> y]
<1>1. /\ q \in [state : A, sub : B, ambiguous : C]
      /\ q.state = x /\ q.sub = r.sub /\ q.ambiguous = y
      OBVIOUS
<1> DEFINE p == [state |-> x, sub |-> r.sub, ambiguous |-> y]
<1>2. /\ p \in [state : A, sub : B, ambiguous : C]
      /\ p.state = x /\ p.sub = r.sub /\ p.ambiguous = y
      OBVIOUS
<1> HIDE DEF p
<1>3. q = p
      BY <1>1, <1>2
<1> QED
    BY <1>3 DEF p

LEMMA Marked ==
    ASSUME NEW r \in [state : RowState, sub : Sub \cup {NoSub}, ambiguous : BOOLEAN],
           NEW x \in RowState, NEW b \in BOOLEAN
    PROVE  [r EXCEPT !.state = x, !.ambiguous = @ \/ b]
           = [state |-> x, sub |-> r.sub, ambiguous |-> (r.ambiguous \/ b)]
<1>0. PICK A, B, C : A = RowState /\ B = Sub \cup {NoSub} /\ C = BOOLEAN
      OBVIOUS
<1>1. (r.ambiguous \/ b) \in BOOLEAN
      OBVIOUS
<1>2. PICK y \in BOOLEAN : y = (r.ambiguous \/ b)
      BY <1>1, Zenon
<1>3. PICK q : q = [r EXCEPT !.state = x, !.ambiguous = y]
      BY Zenon
<1>4. q = [state |-> x, sub |-> r.sub, ambiguous |-> y]
  <2>1. r \in [state : A, sub : B, ambiguous : C] /\ x \in A /\ y \in C
        BY <1>0
  <2> QED
      BY <1>3, <2>1, TwoFields
<1> QED
    BY <1>2, <1>3, <1>4, Zenon

LEMMA SeenTyped ==
    ASSUME NEW r \in OutboxRow
    PROVE  /\ Seen(r) \in [state : RowState, sub : Sub \cup {NoSub}, ambiguous : BOOLEAN]
           /\ Seen(r).state = r.state /\ Seen(r).sub = r.sub
           /\ Seen(r).ambiguous = (r.ambiguousAttempts > 0)
BY DEF Seen

\* Steps of which the contract sees nothing.
LEMMA Unseen ==
    ASSUME UNCHANGED <<subs, posted, stray, received>>,
           \A d \in Dispatch : /\ outbox'[d].state = outbox[d].state
                               /\ outbox'[d].sub = outbox[d].sub
                               /\ outbox'[d].ambiguousAttempts = outbox[d].ambiguousAttempts
    PROVE  UNCHANGED Contract!deliveryVars
BY DEF Contract!deliveryVars, Active

\* One row changes.
LEMMA OneRow ==
    ASSUME NEW d \in Dispatch, NEW r, outbox' = [outbox EXCEPT ![d] = r],
           outbox \in [Dispatch -> OutboxRow]
    PROVE  /\ Rows' = [Rows EXCEPT ![d] = Seen(r)]
           /\ Rows[d] = Seen(outbox[d])
BY DEF Rows, Seen

LEMMA ClaimKeeps ==
    ASSUME OInv, NEW f \in Flusher, NEW d \in Dispatch, Claim(f, d)
    PROVE  [Contract!DeliveryNext]_(Contract!deliveryVars)
<1> DEFINE r == outbox[d]
<1>1. r \in OutboxRow /\ outbox \in [Dispatch -> OutboxRow] /\ RowFits(d)
      BY DEF OInv, OutboxTypeOK
<1>2. UNCHANGED <<subs, received>> /\ Actives' = Actives
      BY DEF Claim, Actives, Active
<1>3. CASE ~StillClaimable(r)
      BY <1>3, Unseen DEF Claim
<1>4. CASE StillClaimable(r) /\ ~Active(r.sub)
  <2>1. /\ r.state \in Undelivered /\ r.sub \notin Actives
        /\ outbox' = [outbox EXCEPT ![d] = [r EXCEPT !.state = "cancelled"]]
        /\ UNCHANGED <<posted, stray>>
        BY <1>4 DEF Claim, StillClaimable, Claimable, Actives
  <2>2. /\ Rows' = [Rows EXCEPT ![d] = Seen([r EXCEPT !.state = "cancelled"])]
        /\ Rows[d] = Seen(r)
        BY <1>1, <2>1, OneRow
  <2>3. Rows' = [Rows EXCEPT ![d].state = "cancelled"]
        BY <1>1, <2>2 DEF Seen, Rows
  <2>4. Contract!DropRow(d)
        BY <1>1, <1>2, <2>1, <2>2, <2>3
        DEF Contract!DropRow, Contract!Undelivered, Rows, Actives, Seen
  <2> QED
      BY <2>4 DEF Contract!DeliveryNext, Contract!DeliveryStep
<1>5. CASE StillClaimable(r) /\ Active(r.sub)
  <2> DEFINE q == [r EXCEPT !.state = "sending", !.attempts = @ + 1,
                            !.ambiguousAttempts = IF r.state = "sending" THEN @ + 1 ELSE @,
                            !.stale = FALSE]
  <2>1. /\ r.state \in Undelivered /\ r.sub \in Actives
        /\ outbox' = [outbox EXCEPT ![d] = q]
        /\ posted' = posted \cup {d}
        /\ stray' = IF r.state = "sending" THEN stray \cup {d} ELSE stray
        BY <1>1, <1>5 DEF Claim, StillClaimable, Claimable, Actives, Active
  <2>2. Rows' = [Rows EXCEPT ![d] = Seen(q)] /\ Rows[d] = Seen(r)
        BY <1>1, <2>1, OneRow
  <2>3. Seen(q) = Contract!Claimed(Seen(r))
    <3>1. /\ q.state = "sending" /\ q.sub = r.sub /\ r.ambiguousAttempts \in Nat
          /\ q.ambiguousAttempts = IF r.state = "sending" THEN r.ambiguousAttempts + 1
                                   ELSE r.ambiguousAttempts
          BY <1>1
    <3>2. (q.ambiguousAttempts > 0) = (r.ambiguousAttempts > 0 \/ r.state = "sending")
          BY <3>1
    <3>3. Contract!Claimed(Seen(r))
          = [state |-> "sending", sub |-> r.sub,
             ambiguous |-> (r.ambiguousAttempts > 0 \/ r.state = "sending")]
      <4>1. /\ Seen(r) \in [state : RowState, sub : Sub \cup {NoSub}, ambiguous : BOOLEAN]
            /\ Seen(r).state = r.state /\ Seen(r).sub = r.sub
            /\ Seen(r).ambiguous = (r.ambiguousAttempts > 0)
            BY <1>1, SeenTyped
      <4>2. (Seen(r).state = "sending") \in BOOLEAN
            OBVIOUS
      <4>3. Contract!Claimed(Seen(r))
            = [state |-> "sending", sub |-> Seen(r).sub,
               ambiguous |-> (Seen(r).ambiguous \/ Seen(r).state = "sending")]
        <5>1. PICK b \in BOOLEAN : b = (Seen(r).state = "sending")
              BY <4>2
        <5>2. [Seen(r) EXCEPT !.state = "sending", !.ambiguous = @ \/ b]
              = [state |-> "sending", sub |-> Seen(r).sub, ambiguous |-> (Seen(r).ambiguous \/ b)]
              BY <4>1, Marked
        <5> QED
            BY <5>1, <5>2, Zenon DEF Contract!Claimed
      <4> QED
          BY <4>1, <4>3, Zenon
    <3> HIDE DEF q
    <3> QED
        BY <3>1, <3>2, <3>3 DEF Seen
  <2>4. Contract!ClaimRow(d)
        BY <1>1, <1>2, <2>1, <2>2, <2>3
        DEF Contract!ClaimRow, Contract!Undelivered, Rows, Actives, Seen
  <2> QED
      BY <2>4 DEF Contract!DeliveryNext, Contract!DeliveryStep
<1> QED
    BY <1>3, <1>4, <1>5

LEMMA ArriveKeeps ==
    ASSUME OInv, NEW d \in Dispatch, d \in posted,
           received' = received \cup {d}, UNCHANGED <<outbox, subs, posted, stray>>
    PROVE  [Contract!DeliveryNext]_(Contract!deliveryVars)
<1>1. CASE d \in received
      BY <1>1, Unseen
<1>2. CASE d \notin received
  <2>1. Rows' = Rows /\ Actives' = Actives
        BY DEF Rows, Actives, Active
  <2>2. Contract!Arrive(d)
        BY <1>2, <2>1 DEF Contract!Arrive, Rows, Actives
  <2> QED
      BY <2>2 DEF Contract!DeliveryNext, Contract!DeliveryStep
<1> QED
    BY <1>1, <1>2

LEMMA SettleKeeps ==
    ASSUME OInv, NEW f \in Flusher, Settle(f)
    PROVE  [Contract!DeliveryNext]_(Contract!deliveryVars)
<1>0. PICK d \in Dispatch, answer \in Response : flusher[f].on = d /\ flusher[f].answer = answer
      BY DEF Settle, Answered, OInv, OutboxTypeOK
<1> DEFINE r == outbox[d]
           v == Verdict(r, answer)
<1>1. /\ d # NoDispatch /\ FlushFits(f) /\ RowFits(d) /\ Accounted(d)
      /\ r \in OutboxRow /\ outbox \in [Dispatch -> OutboxRow] /\ subs \in [Sub -> {"absent", "active", "idle"}]
      BY DEF OInv, OutboxTypeOK
<1>2. CASE ~HoldsClaim(f)
      BY <1>2, Unseen DEF Settle
<1>3. CASE HoldsClaim(f)
  <2>1. /\ r.state = "sending" /\ r.sub \in Sub /\ HoldsIt(f, d)
        BY <1>0, <1>1, <1>3 DEF HoldsClaim, HoldsIt, RowFits
  <2>2. /\ outbox' = [outbox EXCEPT ![d] = v]
        /\ subs' = IF answer = "gone" /\ subs[r.sub] # "absent"
                   THEN [subs EXCEPT ![r.sub] = "idle"] ELSE subs
        /\ stray' = IF answer = "unknown" THEN stray \cup {d} ELSE stray
        /\ posted' = IF d \in stray' THEN posted ELSE posted \ {d}
        /\ UNCHANGED received
        BY <1>0, <1>3 DEF Settle
  <2>3. Rows' = [Rows EXCEPT ![d] = Seen(v)] /\ Rows[d] = Seen(r)
        BY <1>1, <2>2, OneRow
  <2>4. Actives' = IF answer = "gone" THEN Actives \ {r.sub} ELSE Actives
        BY <1>1, <2>1, <2>2 DEF Actives, Active
  <2>5. /\ answer = "ok" => d \in received
        /\ answer \in {"gone", "throttled", "refused"} => d \in stray \/ d \notin received
        BY <1>0, <1>1, <2>1 DEF FlushFits, Accounted, HolderHas
  <2>6. /\ v.sub = r.sub
        /\ v.state = IF answer = "ok" THEN "accepted"
                     ELSE IF Retried(r, answer) THEN "pending" ELSE "failed"
        /\ (v.ambiguousAttempts > 0) = (r.ambiguousAttempts > 0 \/ answer = "unknown")
    <3>1. r.ambiguousAttempts \in Nat
          BY <1>1
    <3> QED
        BY <1>1, <3>1 DEF Verdict, Ambiguous
  <2> DEFINE exhausted == ~(r.attempts < MaxAttempts)
  <2>7. /\ Rows' = [Rows EXCEPT
             ![d].state = IF answer = "ok" THEN "accepted"
                          ELSE IF Contract!Transient(answer) /\ ~exhausted THEN "pending"
                          ELSE "failed",
             ![d].ambiguous = @ \/ Contract!Ambiguous(answer)]
        /\ exhausted \in BOOLEAN
    <3>1. Seen(v) = [Seen(r) EXCEPT
             !.state = IF answer = "ok" THEN "accepted"
                       ELSE IF Contract!Transient(answer) /\ ~exhausted THEN "pending"
                       ELSE "failed",
             !.ambiguous = @ \/ Contract!Ambiguous(answer)]
      <4>1. /\ Seen(r) \in [state : RowState, sub : Sub \cup {NoSub}, ambiguous : BOOLEAN]
            /\ Seen(r).sub = r.sub
            /\ Seen(r).ambiguous = (r.ambiguousAttempts > 0)
            BY <1>1, SeenTyped
      <4>2. PICK x \in RowState :
                x = IF answer = "ok" THEN "accepted"
                    ELSE IF Contract!Transient(answer) /\ ~exhausted THEN "pending"
                    ELSE "failed"
            OBVIOUS
      <4>3. x = v.state
            BY <2>6, <4>2
            DEF Retried, Ambiguous, Contract!Transient, Contract!Ambiguous
      <4>4. PICK b \in BOOLEAN : b = Contract!Ambiguous(answer)
            BY DEF Contract!Ambiguous
      <4>5. [Seen(r) EXCEPT !.state = x, !.ambiguous = @ \/ b]
            = [state |-> x, sub |-> Seen(r).sub, ambiguous |-> (Seen(r).ambiguous \/ b)]
            BY <4>1, Marked, ZenonT(40)
      <4>6. (v.ambiguousAttempts > 0) = (Seen(r).ambiguous \/ b)
            BY <2>6, <4>1, <4>4, Zenon DEF Contract!Ambiguous
      <4>7. Seen(v) = [state |-> x, sub |-> Seen(r).sub,
                       ambiguous |-> (Seen(r).ambiguous \/ b)]
            BY <2>6, <4>1, <4>3, <4>6, Zenon DEF Seen
      <4> QED
          BY <4>2, <4>4, <4>5, <4>7, Zenon
    <3> QED
        BY <2>3, <3>1, ZenonT(40) DEF Rows
  <2>8. Contract!SettleRow(d, answer)
        BY <2>1, <2>2, <2>3, <2>4, <2>5, <2>7 DEF Contract!SettleRow, Rows, Actives, Seen
  <2>9. answer \in Contract!Response
        BY DEF Contract!Response
  <2> QED
      BY <2>8, <2>9 DEF Contract!DeliveryNext, Contract!DeliveryStep
<1> QED
    BY <1>2, <1>3

LEMMA EnqueueKeeps ==
    ASSUME OInv, NEW d \in Dispatch, NEW s \in Sub, EnqueueContinue(d, s)
    PROVE  Contract!DeliveryNext
<1> DEFINE q == [outbox[d] EXCEPT !.state = "pending", !.sub = s]
<1>1. /\ outbox[d] \in OutboxRow /\ outbox \in [Dispatch -> OutboxRow]
      /\ outbox[d].state = "none" /\ outbox[d].ambiguousAttempts = 0
      /\ s \in Actives
      /\ UNCHANGED <<subs, received, posted, stray>>
      BY DEF EnqueueContinue, OInv, OutboxTypeOK, RowFits, Active, Actives
<1>2. outbox' = [outbox EXCEPT ![d] = q]
      BY <1>1 DEF EnqueueContinue
<1>3. Rows' = [Rows EXCEPT ![d] = Seen(q)] /\ Rows[d] = Seen(outbox[d])
      BY <1>1, <1>2, OneRow
<1>4. Seen(q) = Contract!FreshRow(s)
  <2>1. q.state = "pending" /\ q.sub = s /\ q.ambiguousAttempts = 0
        BY <1>1
  <2>2. (q.ambiguousAttempts > 0) = FALSE
        BY <2>1
  <2> HIDE DEF q
  <2> QED
      BY <2>1, <2>2 DEF Seen, Contract!FreshRow
<1>5. Actives' = Actives
      BY <1>1 DEF Actives, Active
<1>6. Contract!EnqueueRow(d, s)
      BY <1>1, <1>3, <1>4, <1>5 DEF Contract!EnqueueRow, Rows, Actives, Seen
<1> QED
    BY <1>6 DEF Contract!DeliveryNext

\* Cancelled rows are the same to both.
LEMMA CancelSeen ==
    ASSUME NEW D, outbox' = CancelRows(D), outbox \in [Dispatch -> OutboxRow]
    PROVE  Rows' = [d \in Dispatch |-> IF Rows[d].state \in Undelivered /\ d \in D
                                       THEN [Rows[d] EXCEPT !.state = "cancelled"]
                                       ELSE Rows[d]]
BY DEF CancelRows, Rows

LEMMA OtherKeeps ==
    ASSUME OInv,
           \/ \E d \in Dispatch : Reconcile(d)
           \/ \E s \in Sub : Subscribe(s) \/ Expire(s) \/ Unsubscribe(s)
    PROVE  Contract!DeliveryNext
<1>1. outbox \in [Dispatch -> OutboxRow] /\ subs \in [Sub -> {"absent", "active", "idle"}]
      BY DEF OInv, OutboxTypeOK
<1>2. ASSUME NEW d \in Dispatch, Reconcile(d) PROVE Contract!DeliveryNext
  <2>1. /\ outbox' = CancelRows({d}) /\ Actives' = Actives
        /\ UNCHANGED <<posted, stray, received>>
        BY <1>2 DEF Reconcile, Actives, Active
  <2>2. Contract!CancelRow(d)
        BY <1>1, <2>1, CancelSeen
        DEF Contract!CancelRow, Contract!CancelRows, Contract!Undelivered, Rows, Actives
  <2> QED
      BY <2>2 DEF Contract!DeliveryNext
<1>3. ASSUME NEW s \in Sub, Unsubscribe(s) PROVE Contract!DeliveryNext
  <2>1. /\ outbox' = CancelRows({d \in Dispatch : Rows[d].sub = s})
        /\ Actives' = Actives \ {s}
        /\ UNCHANGED <<posted, stray, received>>
        BY <1>1, <1>3 DEF Unsubscribe, Actives, Active, Rows
  <2>2. Contract!Unsubscribe(s)
        BY <1>1, <2>1, CancelSeen
        DEF Contract!Unsubscribe, Contract!CancelRows, Contract!Undelivered, Rows, Actives
  <2> QED
      BY <1>3, <2>2 DEF Contract!DeliveryNext, Contract!DeliveryStep
<1>4. ASSUME NEW s \in Sub, Subscribe(s) PROVE Contract!DeliveryNext
  <2>1. /\ s \notin Actives /\ Actives' = Actives \cup {s} /\ Rows' = Rows
        /\ UNCHANGED <<posted, stray, received>>
        BY <1>1, <1>4 DEF Subscribe, Actives, Active, Rows
  <2>2. Contract!Subscribe(s)
        BY <2>1 DEF Contract!Subscribe, Rows, Actives
  <2> QED
      BY <1>4, <2>2 DEF Contract!DeliveryNext, Contract!DeliveryStep
<1>5. ASSUME NEW s \in Sub, Expire(s) PROVE Contract!DeliveryNext
  <2>1. /\ s \in Actives /\ Actives' = Actives \ {s} /\ Rows' = Rows
        /\ UNCHANGED <<posted, stray, received>>
        BY <1>1, <1>5 DEF Expire, Actives, Active, Rows
  <2>2. Contract!Expire(s)
        BY <2>1 DEF Contract!Expire, Rows, Actives
  <2> QED
      BY <1>5, <2>2 DEF Contract!DeliveryNext, Contract!DeliveryStep
<1> QED
    BY <1>2, <1>3, <1>4, <1>5

LEMMA ContractStep ==
    ASSUME OInv, [OutboxNext]_vars
    PROVE  [Contract!DeliveryNext]_(Contract!deliveryVars)
<1>1. CASE UNCHANGED vars
      BY <1>1, Unseen DEF vars
<1>2. ASSUME NEW f \in Flusher, Resolve(f)
      PROVE  [Contract!DeliveryNext]_(Contract!deliveryVars)
  <2>1. /\ UNCHANGED <<outbox, subs, posted, stray>>
        /\ flusher[f].on \in Dispatch /\ flusher[f].on \in posted
        /\ received' = received \/ received' = received \cup {flusher[f].on}
        BY <1>2 DEF Resolve, Answer, GiveUp, Sending, OInv, OutboxTypeOK, FlushFits
  <2> QED
      BY <2>1, Unseen, ArriveKeeps
<1>3. ASSUME NEW d \in Dispatch, ArriveLate(d)
      PROVE  [Contract!DeliveryNext]_(Contract!deliveryVars)
      BY <1>3, ArriveKeeps DEF ArriveLate, OInv, Accounted
<1>4. ASSUME NEW f \in Flusher, Crash(f) \/ \E D \in SUBSET Dispatch : FlushStart(f, D)
      PROVE  [Contract!DeliveryNext]_(Contract!deliveryVars)
      BY <1>4, Unseen DEF Crash, FlushStart
<1>5. ASSUME NEW d \in Dispatch, RetryDue(d) \/ ClaimExpires(d)
      PROVE  [Contract!DeliveryNext]_(Contract!deliveryVars)
  <2>1. /\ UNCHANGED <<subs, posted, stray, received>>
        /\ \A e \in Dispatch : /\ outbox'[e].state = outbox[e].state
                               /\ outbox'[e].sub = outbox[e].sub
                               /\ outbox'[e].ambiguousAttempts = outbox[e].ambiguousAttempts
    <3>1. CASE RetryDue(d)
          BY <3>1 DEF RetryDue, OInv, OutboxTypeOK
    <3>2. CASE ClaimExpires(d)
          BY <3>2 DEF ClaimExpires, OInv, OutboxTypeOK
    <3> QED
        BY <1>5, <3>1, <3>2
  <2> QED
      BY <2>1, Unseen
<1> QED
    BY <1>1, <1>2, <1>3, <1>4, <1>5, ClaimKeeps, SettleKeeps, EnqueueKeeps, OtherKeeps
    DEF OutboxNext, Work

(* The outbox keeps the delivery contract the coordinator relies on.         *)
THEOREM OutboxKeepsContract == OutboxSpec => KeepsContract
<1>1. OutboxInit => Contract!DeliveryInit
  <2> SUFFICES ASSUME OutboxInit PROVE Contract!DeliveryInit
      OBVIOUS
  <2>1. Rows = [d \in Dispatch |-> Contract!NoRow]
    <3>1. (0 > 0) = FALSE
          OBVIOUS
    <3> QED
        BY <3>1 DEF Rows, OutboxInit, Contract!NoRow
  <2>2. Actives = {}
        BY DEF Actives, Active, OutboxInit
  <2> QED
      BY <2>1, <2>2 DEF OutboxInit, Contract!DeliveryInit, Rows, Actives
<1>2. OInv /\ [OutboxNext]_vars => [Contract!DeliveryNext]_(Contract!deliveryVars)
      BY ContractStep
<1> QED
    BY <1>1, <1>2, OutboxInvariance, PTL DEF OutboxSpec, KeepsContract, Contract!DeliverySpec

-----------------------------------------------------------------------------
(* The three together.                                                       *)

\* A step of one component, or of none, is a step or a stutter of each.
LEMMA ProgressStep ==
    ASSUME [ProgressNext]_allVars
    PROVE  [RescueNext]_rescueVars /\ [DriverNext]_driverVars /\ [OutboxNext]_vars
<1>1. CASE UNCHANGED allVars
      BY <1>1 DEF allVars
<1>2. CASE Only("outbox") /\ OutboxNext
      BY <1>2 DEF Only
<1>3. CASE Only("rescue") /\ RescueNext
      BY <1>3 DEF Only
<1>4. CASE Only("driver") /\ DriverNext
      BY <1>4 DEF Only
<1> QED
    BY <1>1, <1>2, <1>3, <1>4 DEF ProgressNext

(* What holds meanwhile of rescue_exec and the driver, whichever component   *)
(* runs.                                                                     *)
THEOREM ProgressIsSafe == ProgressSpec => []ProgressSafe
<1>1. ProgressInit => RInv /\ DInv /\ DueInv
      BY RescueStarts, DriverStarts DEF ProgressInit
<1>2. RInv /\ DInv /\ DueInv /\ [ProgressNext]_allVars => (RInv /\ DInv /\ DueInv)'
      BY ProgressStep, RescueStep, DriverStep, DueStep
<1>3. RInv /\ DInv /\ DueInv => ProgressSafe
      BY RescueTypesFollow, DriverTypesFollow DEF RInv, ProgressSafe
<1> QED
    BY <1>1, <1>2, <1>3, PTL DEF ProgressSpec
=============================================================================
