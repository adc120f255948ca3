-------------------------- MODULE Userscript_proofs --------------------------
(* Proofs about the userscript, for any numbers of conversations, requests,  *)
(* messages, turns and models: whose metadata it keeps, what its fallback    *)
(* does, and what the badge of a turn rests on.                              *)
EXTENDS RouteIndicator, RouteEvidence, TLAPS, FiniteSetTheorems, SequenceTheorems,
        WellFoundedInduction, NaturalsInduction

-----------------------------------------------------------------------------
(* The conversation's metadata.                                              *)

\* What is known of the chats begun in each visit is "op".
Concerns(op, m, c) == ChatOf[m] = c \/ \E e \in Epoch : {ChatOf[m], c} \subseteq op[e]

\* What is kept for a conversation is about that conversation.
Entry(op) ==
    {e \in [id : Conversation, routes : SUBSET Meta] : \A m \in e.routes : Concerns(op, m, e.id)}

Script(op) == [path : Path, epoch : Epoch, routes : SUBSET Meta, recent : Seq(Entry(op)),
               provisional : Path, inFlight : Fallback \cup {NoFallback}, disabled : BOOLEAN,
               attempts : 0..Attempts]

\* What is collected, in a conversation and in a visit without one.
Collects(st, sources, op) ==
    /\ st.path # Home => \A m \in st.routes : Concerns(op, m, st.path)
    /\ st.path = Home =>
          /\ \A m \in st.routes : ChatOf[m] \in op[st.epoch]
          /\ st.provisional = Home \/ st.provisional \in op[st.epoch]
          /\ \A f \in Source :
                sources[f].creating /\ sources[f].epoch = st.epoch => sources[f].of \in op[st.epoch]

\* What the script holds for a request, in the visit of it and in those after it.
SourceFits(s, st) ==
    /\ s.at = "off" => s = NoSource
    /\ s.at # "off" => s.of \in Conversation /\ s.request \in {Home, s.of}
    /\ s.made <= s.epoch /\ s.epoch <= s.made + 1 /\ s.epoch <= st.epoch
    /\ s.creating => /\ s.request = Home /\ s.epoch = s.made /\ s.created \in {Home, s.of}
                     /\ s.epoch = st.epoch => st.path = Home
    /\ s.at # "off" /\ ~s.creating /\ s.epoch = st.epoch
       /\ (s.at = "reading" \/ s.request = Home \/ s.epoch # s.made) => st.path = s.of
    /\ s.epoch # s.made /\ s.epoch + 1 = st.epoch => st.path # s.of

RequestFits(l, st) ==
    /\ l.epoch <= st.epoch
    /\ l.at # "off" /\ l.epoch = st.epoch => l.of = st.path /\ l.of # Home
    /\ l.at = "first" => l.unsupported = 0

RouteFits(st, sources, requests, op) ==
    /\ st \in Script(op) /\ Len(st.recent) <= CacheSize
    /\ Collects(st, sources, op)
    /\ \A f \in Source : SourceFits(sources[f], st)
    /\ \A k \in Fallback : RequestFits(requests[k], st)

RouteInv ==
    /\ url \in Path /\ chats \subseteq Conversation
    /\ source \in [Source -> SourceRecord] /\ legacy \in [Fallback -> LegacyRecord]
    /\ opened \in [Epoch -> SUBSET Conversation]
    /\ RouteFits(state, source, legacy, opened)
    /\ state.path # url => state.epoch < MaxEpoch
-----------------------------------------------------------------------------
\* What is left of a sequence without its i-th element.
LEMMA RemoveAtFacts ==
    ASSUME NEW S, NEW s \in Seq(S), NEW i \in 1..Len(s)
    PROVE  /\ RemoveAt(s, i) \in Seq(S)
           /\ Len(RemoveAt(s, i)) = Len(s) - 1
           /\ \A j \in 1..Len(s) - 1 : RemoveAt(s, i)[j] = IF j < i THEN s[j] ELSE s[j + 1]
<1> DEFINE a == SubSeq(s, 1, i - 1)
           b == SubSeq(s, i + 1, Len(s))
<1>1. Len(s) \in Nat /\ i \in Nat /\ i >= 1 /\ i <= Len(s) /\ \A j \in 1..Len(s) : s[j] \in S
      BY ElementOfSeq
<1>2. /\ a \in Seq(S) /\ Len(a) = i - 1
      /\ \A j \in 1..i - 1 : a[j] = s[j]
  <2>1. 1 \in Int /\ i - 1 \in Int /\ \A j \in 1..i - 1 : s[j] \in S
        BY <1>1
  <2> QED
      BY <1>1, <2>1, SubSeqProperties
<1>3. /\ b \in Seq(S) /\ Len(b) = Len(s) - i
      /\ \A j \in 1..Len(s) - i : b[j] = s[i + j]
  <2>1. i + 1 \in Int /\ Len(s) \in Int /\ \A j \in i + 1..Len(s) : s[j] \in S
        BY <1>1
  <2>2. /\ b \in Seq(S) /\ Len(b) = (IF i + 1 <= Len(s) THEN Len(s) - (i + 1) + 1 ELSE 0)
        /\ \A j \in 1..Len(s) - (i + 1) + 1 : b[j] = s[i + 1 + j - 1]
        BY <2>1, SubSeqProperties
  <2> HIDE DEF b
  <2> QED
      BY <1>1, <2>2
<1> HIDE DEF a, b
<1>4. /\ a \o b \in Seq(S) /\ Len(a \o b) = Len(a) + Len(b)
      /\ \A j \in 1..Len(a) + Len(b) : (a \o b)[j] = IF j <= Len(a) THEN a[j] ELSE b[j - Len(a)]
      BY <1>2, <1>3, ConcatProperties
<1>6. /\ a \o b \in Seq(S) /\ Len(a \o b) = Len(s) - 1
      /\ \A j \in 1..Len(s) - 1 : (a \o b)[j] = IF j <= i - 1 THEN a[j] ELSE b[j - (i - 1)]
      BY <1>1, <1>2, <1>3, <1>4
<1>5. ASSUME NEW j \in 1..Len(s) - 1
      PROVE  (a \o b)[j] = IF j < i THEN s[j] ELSE s[j + 1]
  <2>1. CASE j < i
    <3>1. j \in 1..i - 1 /\ j <= i - 1
          BY <1>1, <2>1
    <3> QED
        BY <1>2, <1>6, <2>1, <3>1
  <2>2. CASE ~(j < i)
    <3>1. PICK k \in 1..Len(s) - i : k = j - (i - 1) /\ i + k = j + 1
          BY <1>1, <2>2
    <3>2. ~(j <= i - 1) /\ ~(j < i)
          BY <1>1, <2>2
    <3>3. (a \o b)[j] = b[k]
          BY <1>6, <3>1, <3>2
    <3>4. b[k] = s[j + 1]
          BY <1>3, <3>1
    <3> QED
        BY <3>2, <3>3, <3>4
  <2> QED
      BY <2>1, <2>2
<1> QED
    BY <1>5, <1>6 DEF RemoveAt, a, b

\* A set of numbers has a least one.
LEMMA SomeLeast ==
    ASSUME NEW I \in SUBSET Nat, I # {}
    PROVE  \E m \in I : \A n \in I : m <= n
<1> DEFINE R == OpToRel(<, Nat)
<1>1. IsWellFoundedOn(R, Nat)
      BY NatLessThanWellFounded
<1>2. PICK m \in I : \A n \in I : ~(<<n, m>> \in R)
      BY <1>1, WFMin
<1>3. \A n \in I : m <= n
  <2> SUFFICES ASSUME NEW n \in I, ~(m <= n) PROVE FALSE
      OBVIOUS
  <2>2. n \in Nat /\ m \in Nat /\ n < m
      OBVIOUS
  <2>1. <<n, m>> \in Nat \X Nat /\ <<n, m>>[1] < <<n, m>>[2]
      BY <2>2
  <2> QED
      BY <1>2, <2>1 DEF OpToRel
<1> QED
    BY <1>3

LEMMA LeastIndex ==
    ASSUME NEW I \in SUBSET Nat, I # {}
    PROVE  Min(I) \in I
BY SomeLeast DEF Min

LEMMA WithoutFacts ==
    ASSUME NEW S, NEW s \in Seq(S), NEW c
    PROVE  Without(s, c) \in Seq(S) /\ Len(Without(s, c)) \in Nat /\ Len(Without(s, c)) <= Len(s)
<1>0. Len(s) \in Nat
  BY LenProperties
<1>1. CASE ~\E i \in 1..Len(s) : s[i].id = c
  BY <1>0, <1>1 DEF Without, RemoveFirstMatch
<1>2. CASE \E i \in 1..Len(s) : s[i].id = c
  <2> DEFINE I == {i \in 1..Len(s) : s[i].id = c}
  <2>1. Min(I) \in I
    <3>1. I \in SUBSET Nat /\ I # {}
      BY <1>2
    <3> QED  BY <3>1, LeastIndex
  <2>2. PICK i \in 1..Len(s) : Without(s, c) = RemoveAt(s, i)
    BY <1>2, <2>1 DEF Without, RemoveFirstMatch, SelectInSeq
  <2>3. RemoveAt(s, i) \in Seq(S) /\ Len(RemoveAt(s, i)) = Len(s) - 1
    BY RemoveAtFacts
  <2>4. PICK q : q = RemoveAt(s, i)
    OBVIOUS
  <2>5. q \in Seq(S) /\ Len(q) = Len(s) - 1 /\ Len(q) \in Nat
    <3>1. q \in Seq(S)
      BY <2>3, <2>4
    <3> QED  BY <2>3, <2>4, <3>1, LenProperties
  <2> QED  BY <1>0, <2>2, <2>4, <2>5
<1> QED  BY <1>1, <1>2

LEMMA SavedFacts ==
    ASSUME NEW op, state \in Script(op), Len(state.recent) <= CacheSize, state.path \in Path,
           state.path # Home => \A m \in state.routes : Concerns(op, m, state.path)
    PROVE  Saved \in Seq(Entry(op)) /\ Len(Saved) <= CacheSize
<1> DEFINE one == Without(state.recent, url)
           two == Without(one, state.path)
           entry == [id |-> state.path, routes |-> state.routes]
           longer == Append(two, entry)
<1>1. state.recent \in Seq(Entry(op)) /\ Len(state.recent) \in Nat
  BY LenProperties DEF Script
<1>2. one \in Seq(Entry(op)) /\ Len(one) \in Nat /\ Len(one) <= Len(state.recent)
  BY <1>1, WithoutFacts
<1>3. two \in Seq(Entry(op)) /\ Len(two) \in Nat /\ Len(two) <= Len(one)
  BY <1>2, WithoutFacts
<1>4. Saved = IF state.path = Home \/ state.routes = {} THEN one
              ELSE IF Len(longer) > CacheSize THEN Tail(longer) ELSE longer
  BY DEF Saved
<1>5. CASE state.path = Home \/ state.routes = {}
  BY <1>1, <1>2, <1>4, <1>5, RouteAssumption
<1>6. CASE ~(state.path = Home \/ state.routes = {})
  <2>1. entry \in Entry(op)
    BY <1>6 DEF Entry, Script, Path
  <2> HIDE DEF entry, two
  <2>2. longer \in Seq(Entry(op)) /\ Len(longer) = Len(two) + 1
    BY <1>3, <2>1, AppendProperties
  <2>3. Len(longer) \in Nat /\ Len(longer) <= CacheSize + 1
    BY <1>1, <1>2, <1>3, <2>2, RouteAssumption
  <2> HIDE DEF longer
  <2>4. ASSUME Len(longer) > CacheSize
        PROVE  Tail(longer) \in Seq(Entry(op)) /\ Len(Tail(longer)) <= CacheSize
    <3>1. longer # <<>>
      BY <2>3, <2>4, RouteAssumption, EmptySeq
    <3>2. Tail(longer) \in Seq(Entry(op)) /\ Len(Tail(longer)) = Len(longer) - 1
      BY <2>2, <3>1, HeadTailProperties
    <3> QED  BY <2>3, <3>2, RouteAssumption
  <2> QED  BY <1>4, <1>6, <2>2, <2>3, <2>4, RouteAssumption
<1> QED  BY <1>5, <1>6

LEMMA SyncedFits ==
    ASSUME RouteInv
    PROVE  RouteFits(Synced, source, legacy, opened) /\ Synced.path = url
<1>1. CASE state.path = url
  BY <1>1 DEF RouteInv, Synced
<1>2. CASE state.path # url
  <2>1. PICK kept : kept = IF CreatingThis THEN state.routes ELSE Cached(url)
    OBVIOUS
  <2>2. PICK saved : saved = Saved
    OBVIOUS
  <2>3. PICK n : n = Synced
    OBVIOUS
  <2>4. n = [path |-> url, epoch |-> state.epoch + 1, routes |-> kept, recent |-> saved,
             provisional |-> Home, inFlight |-> NoFallback, disabled |-> FALSE, attempts |-> 0]
    BY <1>2, <2>1, <2>2, <2>3 DEF Synced, Restarted, FreshState
  <2>5. /\ state \in Script(opened) /\ state.path \in Path /\ state.epoch \in 0..MaxEpoch
        /\ state.routes \subseteq Meta /\ state.recent \in Seq(Entry(opened))
        /\ state.epoch < MaxEpoch /\ url \in Path
        /\ state.path # Home => \A m \in state.routes : Concerns(opened, m, state.path)
    BY <1>2 DEF RouteInv, RouteFits, Collects, Script, Epoch
  <2>6. saved \in Seq(Entry(opened)) /\ Len(saved) <= CacheSize
    BY <2>2, <2>5, SavedFacts DEF RouteInv, RouteFits
  <2>7. /\ kept \subseteq Meta /\ (url = Home => kept = {})
        /\ \A m \in kept : Concerns(opened, m, url)
    <3>1. CASE CreatingThis
      <4>1. state.path = Home /\ state.provisional = url /\ url # Home
        BY <3>1 DEF CreatingThis
      <4>2. /\ \A m \in state.routes : ChatOf[m] \in opened[state.epoch]
            /\ url \in opened[state.epoch]
        BY <4>1 DEF RouteInv, RouteFits, Collects
      <4>3. state.epoch \in Epoch
        BY <2>5 DEF Epoch
      <4>4. \A m \in state.routes : Concerns(opened, m, url)
        BY <4>2, <4>3 DEF Concerns
      <4> QED  BY <2>1, <2>5, <3>1, <4>1, <4>4
    <3>2. CASE ~CreatingThis
      <4>1. \A i \in 1..Len(state.recent) : state.recent[i] \in Entry(opened)
        BY <2>5, ElementOfSeq
      <4>2. ASSUME NEW m \in Cached(url) PROVE m \in Meta /\ Concerns(opened, m, url) /\ url # Home
        <5>1. PICK i \in 1..Len(state.recent) :
                 state.recent[i].id = url /\ m \in state.recent[i].routes
          BY DEF Cached
        <5> QED  BY <4>1, <5>1, RouteAssumption DEF Entry
      <4> QED  BY <2>1, <3>2, <4>2
    <3> QED  BY <3>1, <3>2
  <2>8. n \in Script(opened) /\ Len(n.recent) <= CacheSize
    BY <2>4, <2>5, <2>6, <2>7, RouteAssumption DEF Script, Path, Epoch
  <2>9. n.epoch = state.epoch + 1 /\ n.path = url /\ n.routes = kept /\ n.provisional = Home
    BY <2>4
  <2>10. \A f \in Source : SourceFits(source[f], state) /\ source[f] \in SourceRecord
    BY DEF RouteInv, RouteFits
  <2>11. ASSUME NEW f \in Source PROVE SourceFits(source[f], n)
    <3>1. PICK s : s = source[f]
      OBVIOUS
    <3>2. SourceFits(s, state) /\ s.epoch \in Nat /\ s.made \in Nat /\ state.epoch \in Nat
      BY <2>5, <2>10, <3>1 DEF SourceRecord, Epoch
    <3>3. s.epoch # n.epoch /\ s.epoch <= n.epoch
      BY <2>9, <3>2 DEF SourceFits
    <3>4. s.epoch # s.made /\ s.epoch + 1 = n.epoch => n.path # s.of
      BY <1>2, <2>9, <3>2 DEF SourceFits, NoSource
    <3> QED  BY <3>1, <3>2, <3>3, <3>4 DEF SourceFits
  <2>12. Collects(n, source, opened)
    <3>1. \A f \in Source : source[f].epoch # state.epoch + 1
      BY <2>5, <2>10 DEF SourceFits, SourceRecord, Epoch
    <3>2. n.path = Home => n.routes = {}
      BY <2>7, <2>9
    <3>3. n.path # Home => \A m \in n.routes : Concerns(opened, m, n.path)
      BY <2>7, <2>9
    <3> QED  BY <2>9, <3>1, <3>2, <3>3 DEF Collects
  <2>13. ASSUME NEW k \in Fallback PROVE RequestFits(legacy[k], n)
    <3>1. RequestFits(legacy[k], state) /\ legacy[k] \in LegacyRecord
      BY DEF RouteInv, RouteFits
    <3> QED  BY <2>5, <2>9, <3>1 DEF RequestFits, LegacyRecord, Epoch
  <2> QED  BY <2>3, <2>8, <2>9, <2>11, <2>12, <2>13 DEF RouteFits
<1> QED  BY <1>1, <1>2

\* A record of the script changes; if it creates a chat, then one that was begun here.
LEMMA SourceChanges ==
    ASSUME NEW st, NEW sources \in [Source -> SourceRecord], NEW requests, NEW op,
           RouteFits(st, sources, requests, op),
           NEW f \in Source, NEW s \in SourceRecord, SourceFits(s, st),
           s.creating /\ s.epoch = st.epoch =>
               \/ s.of \in op[st.epoch]
               \/ sources[f].creating /\ sources[f].epoch = st.epoch /\ s.of = sources[f].of
    PROVE  /\ RouteFits(st, [sources EXCEPT ![f] = s], requests, op)
           /\ [sources EXCEPT ![f] = s] \in [Source -> SourceRecord]
<1>1. PICK after : after = [sources EXCEPT ![f] = s]
  OBVIOUS
<1>2. after \in [Source -> SourceRecord] /\ after[f] = s
      /\ \A g \in Source \ {f} : after[g] = sources[g]
  BY <1>1
<1>3. \A g \in Source : SourceFits(after[g], st)
  BY <1>2 DEF RouteFits
<1>5. Collects(st, after, op)
  BY <1>2 DEF RouteFits, Collects
<1> QED  BY <1>1, <1>2, <1>3, <1>5 DEF RouteFits

\* What the script does begins with syncNavigation and stays in that visit.
LEMMA InVisit ==
    ASSUME RouteInv, UNCHANGED url, chats' \subseteq Conversation, state'.path = Synced.path,
           source' \in [Source -> SourceRecord], legacy' \in [Fallback -> LegacyRecord],
           opened' \in [Epoch -> SUBSET Conversation], RouteFits(state', source', legacy', opened')
    PROVE  RouteInv'
BY SyncedFits DEF RouteInv

LEMMA NavigateRoutes ==
    ASSUME RouteInv, Sync \/ \E p \in Path : Navigate(p)
    PROVE  RouteInv'
<1>1. CASE Sync
  <2>1. RouteFits(state', source', legacy', opened')
    BY <1>1, SyncedFits DEF Sync
  <2> QED  BY <1>1, <2>1, InVisit DEF Sync, RouteInv
<1>2. CASE \E p \in Path : Navigate(p)
  <2>1. state.epoch < MaxEpoch
    <3>1. Synced.epoch < MaxEpoch
      BY <1>2 DEF Navigate
    <3>2. CASE state.path = url
      BY <3>1, <3>2 DEF Synced
    <3>3. CASE state.path # url
      BY <3>3 DEF RouteInv
    <3> QED  BY <3>2, <3>3
  <2>2. UNCHANGED <<chats, state, source, legacy, opened>> /\ url' \in Path
    BY <1>2 DEF Navigate
  <2>3. RouteFits(state', source', legacy', opened')
    BY <2>2 DEF RouteInv
  <2> QED  BY <2>1, <2>2, <2>3 DEF RouteInv
<1> QED  BY <1>1, <1>2

\* As more chats are begun, what is collected and kept stays about what it was.
LEMMA MoreOpened ==
    ASSUME NEW st, NEW sources, NEW requests, NEW op, NEW op2,
           RouteFits(st, sources, requests, op), \A e \in Epoch : op[e] \subseteq op2[e]
    PROVE  RouteFits(st, sources, requests, op2)
<1>1. ASSUME NEW m, NEW c, Concerns(op, m, c) PROVE Concerns(op2, m, c)
  BY <1>1 DEF Concerns
<1>2. Entry(op) \subseteq Entry(op2)
  BY <1>1 DEF Entry
<1>3. st \in Script(op) /\ st.epoch \in Epoch
  BY DEF RouteFits, Script
<1>4. st.recent \in Seq(Entry(op2))
  <2>1. st.recent \in Seq(Entry(op))
    BY <1>3 DEF Script
  <2>2. Len(st.recent) \in Nat /\ st.recent \in [1..Len(st.recent) -> Entry(op)]
    BY <2>1, LenProperties
  <2>3. st.recent \in [1..Len(st.recent) -> Entry(op2)]
    BY <1>2, <2>2
  <2> QED  BY <2>2, <2>3, SeqDef
<1>5. st \in Script(op2)
  BY <1>3, <1>4 DEF Script
<1>6. Collects(st, sources, op2)
  BY <1>1, <1>3 DEF RouteFits, Collects
<1> QED  BY <1>5, <1>6 DEF RouteFits

LEMMA FetchRoutes ==
    ASSUME RouteInv, NEW f \in Source, NEW c \in Conversation, NEW loads \in BOOLEAN,
           Fetch(f, c, loads)
    PROVE  RouteInv'
<1>1. PICK st : st = Synced
  OBVIOUS
<1>2. RouteFits(st, source, legacy, opened) /\ st.path = url
  BY <1>1, SyncedFits
<1>3. PICK s : s = [at |-> "requested", of |-> c, made |-> st.epoch, epoch |-> st.epoch,
                    origin |-> st.path, request |-> IF loads THEN c ELSE Home,
                    creating |-> ~loads /\ st.path = Home, created |-> Home]
  OBVIOUS
<1>4. /\ state' = st /\ source' = [source EXCEPT ![f] = s] /\ UNCHANGED <<url, chats, legacy>>
      /\ opened' = IF ~loads /\ st.path = Home
                   THEN [opened EXCEPT ![st.epoch] = opened[st.epoch] \cup {c}] ELSE opened
      /\ ~loads /\ st.path # Home => c = st.path
  BY <1>1, <1>3 DEF Fetch
<1>5. st.path \in Path /\ st.epoch \in 0..MaxEpoch /\ source \in [Source -> SourceRecord]
  BY <1>2 DEF RouteFits, Script, Epoch, RouteInv
<1>6. /\ s \in SourceRecord /\ s.creating = (~loads /\ st.path = Home)
      /\ s.of = c /\ s.at = "requested"
      /\ s.made = st.epoch /\ s.epoch = st.epoch /\ s.created = Home
      /\ s.request = IF loads THEN c ELSE Home
  BY <1>3, <1>5 DEF SourceRecord, Path, Epoch
<1>7. SourceFits(s, st)
  <2>1. s.made <= s.epoch /\ s.epoch <= s.made + 1 /\ s.epoch <= st.epoch /\ s.epoch = s.made
    BY <1>5, <1>6
  <2>2. CASE loads
    BY <1>6, <2>1, <2>2, RouteAssumption DEF SourceFits
  <2>3. CASE ~loads
    BY <1>4, <1>6, <2>1, <2>3, RouteAssumption DEF SourceFits
  <2> QED  BY <2>2, <2>3
<1>8. /\ opened' \in [Epoch -> SUBSET Conversation]
      /\ \A e \in Epoch : opened[e] \subseteq opened'[e]
      /\ s.creating => c \in opened'[st.epoch]
  BY <1>4, <1>5, <1>6 DEF RouteInv, Epoch
<1>9. RouteFits(st, source, legacy, opened')
  BY <1>2, <1>8, MoreOpened
<1>10. RouteFits(st, source', legacy, opened') /\ source' \in [Source -> SourceRecord]
  BY <1>4, <1>5, <1>6, <1>7, <1>8, <1>9, SourceChanges
<1>11. RouteFits(state', source', legacy', opened')
  BY <1>4, <1>10
<1> QED  BY <1>1, <1>4, <1>8, <1>10, <1>11, InVisit DEF RouteInv

\* The visit that a source is of, after currentEpoch.
LEMMA AdoptedFits ==
    ASSUME NEW op, NEW s \in SourceRecord, NEW st \in Script(op), SourceFits(s, st), s.at # "off"
    PROVE  LET a == Adopted(s, st) IN
           /\ a \in SourceRecord /\ SourceFits(a, st)
           /\ a.creating /\ a.epoch = st.epoch => s.creating /\ s.epoch = st.epoch
           /\ a.of = s.of /\ a.at = s.at /\ a.request = s.request /\ a.created = s.created
           /\ a.creating => s.creating
           /\ IsCurrent(s, st) => a.epoch = st.epoch
           /\ IsCurrent(s, st) /\ s.epoch # st.epoch => st.path = s.of /\ ~a.creating
<1>1. /\ s.epoch \in Nat /\ s.made \in Nat /\ st.epoch \in Nat /\ s.creating \in BOOLEAN
      /\ st.epoch \in Epoch
  BY DEF SourceRecord, Script, Epoch
<1>2. CASE s.epoch = st.epoch \/ ~IsCurrent(s, st)
  <2>1. Adopted(s, st) = s
    BY <1>2 DEF Adopted
  <2> QED  BY <1>2, <2>1 DEF IsCurrent
<1>3. CASE s.epoch # st.epoch /\ IsCurrent(s, st)
  <2>1. s.epoch + 1 = st.epoch /\ st.path = s.of /\ (Arriving(s, st) => ~s.creating)
    BY <1>3, RouteAssumption DEF IsCurrent, Arriving, Created, SourceFits
  <2>2. s.epoch = s.made
    BY <1>1, <2>1 DEF SourceFits
  <2>3. PICK a : a = Adopted(s, st)
    OBVIOUS
  <2>4. a = [s EXCEPT !.epoch = st.epoch, !.creating = FALSE]
    <3>1. a = [s EXCEPT !.epoch = st.epoch, !.creating = s.creating /\ Arriving(s, st)]
      BY <1>3, <2>3 DEF Adopted
    <3>2. (s.creating /\ Arriving(s, st)) = FALSE
      BY <2>1
    <3> QED  BY <3>1, <3>2
  <2>5. /\ a \in SourceRecord /\ a.epoch = st.epoch /\ a.creating = FALSE /\ a.of = s.of
        /\ a.at = s.at /\ a.request = s.request /\ a.created = s.created /\ a.made = s.made
    BY <1>1, <2>4 DEF SourceRecord
  <2>6. SourceFits(a, st)
    BY <1>1, <2>1, <2>2, <2>5 DEF SourceFits
  <2> QED  BY <1>3, <2>3, <2>1, <2>5, <2>6
<1> QED  BY <1>2, <1>3

LEMMA RespondRoutes == ASSUME RouteInv, NEW f \in Source, Respond(f) PROVE RouteInv'
<1>1. PICK st : st = Synced
  OBVIOUS
<1>2. RouteFits(st, source, legacy, opened) /\ st \in Script(opened)
  BY <1>1, SyncedFits DEF RouteFits
<1>3. PICK s : s = source[f]
  OBVIOUS
<1>4. s \in SourceRecord /\ SourceFits(s, st) /\ s.at = "requested"
  BY <1>2, <1>3 DEF RouteFits, RouteInv, Respond
<1>5. PICK a : a = Adopted(s, st)
  OBVIOUS
<1>6. PICK at \in {"reading", "responded"} :
        /\ source' = [source EXCEPT ![f] = [a EXCEPT !.at = at]]
        /\ at = "reading" => IsCurrent(s, st) \/ Awaiting(s, st)
        /\ at = "reading" => s.request \in {Home, st.path}
  BY <1>1, <1>3, <1>5 DEF Respond
<1>7. /\ a \in SourceRecord /\ SourceFits(a, st) /\ a.at = s.at
      /\ a.creating /\ a.epoch = st.epoch => s.creating /\ s.epoch = st.epoch
      /\ a.of = s.of /\ a.request = s.request
      /\ IsCurrent(s, st) /\ s.epoch # st.epoch => st.path = s.of
  BY <1>2, <1>4, <1>5, AdoptedFits
<1>8. PICK b : b = [a EXCEPT !.at = at]
  OBVIOUS
<1>9. /\ b \in SourceRecord /\ b.at = at /\ b.of = a.of /\ b.request = a.request
      /\ b.creating = a.creating /\ b.epoch = a.epoch /\ b.made = a.made
      /\ b.created = a.created
  BY <1>7, <1>8 DEF SourceRecord
<1>10. SourceFits(b, st)
  <2>1. at = "reading" /\ ~b.creating /\ b.epoch = st.epoch => st.path = b.of
    BY <1>2, <1>4, <1>6, <1>7, <1>9 DEF SourceFits, Awaiting, IsCurrent
  <2> QED  BY <1>4, <1>7, <1>9, <2>1 DEF SourceFits
<1>11. RouteFits(st, source', legacy, opened) /\ source' \in [Source -> SourceRecord]
  BY <1>2, <1>3, <1>6, <1>7, <1>8, <1>9, <1>10, SourceChanges DEF RouteInv
<1>12. /\ state' = st /\ UNCHANGED <<url, legacy, opened>> /\ chats' = chats \cup {s.of}
  BY <1>1, <1>3 DEF Respond
<1>13. RouteFits(state', source', legacy', opened') /\ chats' \subseteq Conversation
  BY <1>4, <1>11, <1>12 DEF SourceFits, RouteInv
<1> QED  BY <1>1, <1>11, <1>12, <1>13, InVisit DEF RouteInv

LEMMA ConsumeRoutes == ASSUME RouteInv, NEW f \in Source, Consume(f) PROVE RouteInv'
<1>1. PICK st : st = Synced
  OBVIOUS
<1>2. RouteFits(st, source, legacy, opened) /\ st \in Script(opened)
  BY <1>1, SyncedFits DEF RouteFits
<1>3. PICK s : s = source[f]
  OBVIOUS
<1>4. /\ s \in SourceRecord /\ SourceFits(s, st) /\ s.at = "responded"
      /\ s.request # Home /\ s.request = st.path
  BY <1>1, <1>2, <1>3 DEF RouteFits, RouteInv, Consume
<1>5. PICK b : b = [s EXCEPT !.at = "reading"]
  OBVIOUS
<1>6. /\ b \in SourceRecord /\ b.at = "reading" /\ b.of = s.of /\ b.request = s.request
      /\ b.creating = s.creating /\ b.epoch = s.epoch /\ b.made = s.made
      /\ b.created = s.created
  BY <1>4, <1>5 DEF SourceRecord
<1>7. SourceFits(b, st)
  BY <1>4, <1>6 DEF SourceFits
<1>8. /\ source' = [source EXCEPT ![f] = b] /\ state' = st
      /\ UNCHANGED <<url, chats, legacy, opened>>
  BY <1>1, <1>3, <1>5 DEF Consume, RouteInv
<1>9. RouteFits(st, source', legacy, opened) /\ source' \in [Source -> SourceRecord]
  BY <1>2, <1>3, <1>6, <1>7, <1>8, SourceChanges DEF RouteInv
<1>10. RouteFits(state', source', legacy', opened')
  BY <1>8, <1>9
<1> QED  BY <1>1, <1>8, <1>9, <1>10, InVisit DEF RouteInv

LEMMA CloseRoutes == ASSUME RouteInv, NEW f \in Source, Close(f) PROVE RouteInv'
<1>1. NoSource \in SourceRecord
  BY RouteAssumption DEF NoSource, SourceRecord, Path, Epoch
<1>2. SourceFits(NoSource, state) /\ ~NoSource.creating
  BY DEF NoSource, SourceFits, RouteInv, RouteFits, Script, Epoch
<1>3. /\ source' = [source EXCEPT ![f] = NoSource]
      /\ UNCHANGED <<url, chats, state, legacy, opened>>
  BY DEF Close
<1>4. RouteFits(state, source', legacy, opened) /\ source' \in [Source -> SourceRecord]
  BY <1>1, <1>2, <1>3, SourceChanges DEF RouteInv
<1>5. RouteFits(state', source', legacy', opened')
  BY <1>3, <1>4
<1> QED  BY <1>3, <1>4, <1>5 DEF RouteInv

\* Within a visit only what is collected matters to what the records say.
LEMMA StateChanges ==
    ASSUME NEW st, NEW sources, NEW requests, NEW op,
           RouteFits(st, sources, requests, op),
           NEW n \in Script(op), n.path = st.path, n.epoch = st.epoch, Len(n.recent) <= CacheSize,
           Collects(n, sources, op)
    PROVE  RouteFits(n, sources, requests, op)
BY DEF RouteFits, SourceFits, RequestFits

\* The response's metadata is taken: in its own Chat, or before the page is in one.
LEMMA TakenFits ==
    ASSUME NEW st, NEW sources \in [Source -> SourceRecord], NEW requests, NEW op,
           RouteFits(st, sources, requests, op),
           NEW f \in Source, sources[f].at = "reading", sources[f].epoch = st.epoch,
           NEW routes1 \in SUBSET Meta,
           \A m \in routes1 : m \in st.routes \/ ChatOf[m] = sources[f].of,
           NEW there, there = st.provisional \/ (st.path = Home /\ there = sources[f].created),
           NEW n, n = [st EXCEPT !.provisional = there, !.routes = routes1]
    PROVE  RouteFits(n, sources, requests, op)
<1>1. PICK s : s = sources[f]
  OBVIOUS
<1>2. SourceFits(s, st) /\ s \in SourceRecord /\ st \in Script(op)
  BY <1>1 DEF RouteFits
<1>3. s.of \in Conversation /\ (IF s.creating THEN st.path = Home ELSE st.path = s.of)
  BY <1>1, <1>2 DEF SourceFits
<1>4. st.path = Home => s.of \in op[st.epoch] /\ s.created \in {Home, s.of}
  <2>1. st.path = Home => s.creating
    BY <1>3, RouteAssumption
  <2> QED  BY <1>1, <1>2, <2>1 DEF SourceFits, RouteFits, Collects
<1>5. there \in Path
  BY <1>1, <1>2, <1>4, <1>3 DEF Script, Path, SourceRecord
<1>6. /\ n \in Script(op) /\ n.path = st.path /\ n.epoch = st.epoch /\ n.recent = st.recent
      /\ n.routes = routes1 /\ n.provisional = there
  BY <1>2, <1>5 DEF Script
<1>7. st.path # Home => \A m \in routes1 : Concerns(op, m, st.path)
  <2>1. st.path # Home => st.path = s.of
    BY <1>3
  <2> QED  BY <1>1, <2>1 DEF RouteFits, Collects, Concerns
<1>8. st.path = Home => /\ \A m \in routes1 : ChatOf[m] \in op[st.epoch]
                        /\ there = Home \/ there \in op[st.epoch]
  BY <1>1, <1>4 DEF RouteFits, Collects
<1>9. Collects(n, sources, op)
  BY <1>6, <1>7, <1>8 DEF RouteFits, Collects
<1>10. Len(n.recent) <= CacheSize
  BY <1>6 DEF RouteFits
<1> QED  BY <1>6, <1>9, <1>10, StateChanges

LEMMA InspectRoutes ==
    ASSUME RouteInv, NEW f \in Source, NEW ms \in SUBSET Meta, NEW bound \in BOOLEAN,
           Inspect(f, ms, bound)
    PROVE  RouteInv'
<1>1. PICK st : st = Synced
  OBVIOUS
<1>2. RouteFits(st, source, legacy, opened) /\ st \in Script(opened)
  BY <1>1, SyncedFits DEF RouteFits
<1>3. PICK s : s = IF bound /\ source[f].creating /\ source[f].created = Home
                   THEN [source[f] EXCEPT !.created = source[f].of] ELSE source[f]
  OBVIOUS
<1>4. /\ source[f] \in SourceRecord /\ SourceFits(source[f], st) /\ source[f].at = "reading"
      /\ source[f].of \in Conversation
  BY <1>2 DEF RouteFits, RouteInv, Inspect, SourceFits
<1>5. /\ s \in SourceRecord /\ SourceFits(s, st) /\ s.at = "reading" /\ s.of = source[f].of
      /\ s.creating = source[f].creating /\ s.epoch = source[f].epoch
  <2>1. CASE bound /\ source[f].creating /\ source[f].created = Home
    <3>1. s = [source[f] EXCEPT !.created = source[f].of]
      BY <1>3, <2>1
    <3>2. /\ s \in SourceRecord /\ s.at = source[f].at /\ s.of = source[f].of
          /\ s.request = source[f].request /\ s.creating = source[f].creating
          /\ s.epoch = source[f].epoch /\ s.made = source[f].made /\ s.created = source[f].of
      BY <1>4, <3>1 DEF SourceRecord, Path
    <3>3. SourceFits(s, st)
      BY <1>4, <2>1, <3>2 DEF SourceFits
    <3> QED  BY <1>4, <3>2, <3>3
  <2>2. CASE ~(bound /\ source[f].creating /\ source[f].created = Home)
    BY <1>3, <1>4, <2>2
  <2> QED  BY <2>1, <2>2
<1>6. PICK a : a = Adopted(s, st)
  OBVIOUS
<1>7. /\ a \in SourceRecord /\ SourceFits(a, st) /\ a.at = "reading" /\ a.of = source[f].of
      /\ a.creating /\ a.epoch = st.epoch => s.creating /\ s.epoch = st.epoch
      /\ a.created = s.created
      /\ IsCurrent(s, st) => a.epoch = st.epoch
      /\ IsCurrent(s, st) /\ s.epoch # st.epoch => st.path = s.of /\ ~a.creating
  BY <1>2, <1>5, <1>6, AdoptedFits
<1>8. /\ source' = [source EXCEPT ![f] = a] /\ UNCHANGED <<url, chats, legacy, opened>>
      /\ ms \subseteq {m \in Meta : ChatOf[m] = source[f].of}
  BY <1>1, <1>3, <1>6 DEF Inspect
<1>9. RouteFits(st, source', legacy, opened) /\ source' \in [Source -> SourceRecord]
  BY <1>2, <1>5, <1>7, <1>8, SourceChanges DEF RouteInv
<1>10. source'[f] = a
  BY <1>8, <1>7 DEF RouteInv
<1>11. CASE ~IsCurrent(s, st)
  <2>1. state' = st
    BY <1>1, <1>3, <1>11 DEF Inspect
  <2>2. RouteFits(state', source', legacy', opened')
    BY <1>8, <1>9, <2>1
  <2> QED  BY <1>1, <1>8, <1>9, <2>1, <2>2, InVisit DEF RouteInv
<1>12. CASE IsCurrent(s, st)
  <2>1. PICK there, routes1 :
           /\ state' = [st EXCEPT !.provisional = there, !.routes = routes1]
           /\ there = IF st.path = Home /\ s.creating /\ s.created # Home
                      THEN s.created ELSE st.provisional
           /\ routes1 = st.routes \cup ms \/ routes1 = st.routes
    <3> DEFINE mine == ~(bound /\ st.path # Home /\ st.path # s.of)
               there == IF st.path = Home /\ s.creating /\ s.created # Home
                        THEN s.created ELSE st.provisional
               routes1 == IF mine THEN st.routes \cup ms ELSE st.routes
    <3>1. state' = [st EXCEPT !.provisional = there, !.routes = routes1]
      BY <1>1, <1>3, <1>12 DEF Inspect
    <3>2. routes1 = st.routes \cup ms \/ routes1 = st.routes
      OBVIOUS
    <3> QED  BY <3>1, <3>2
  <2>2. routes1 \in SUBSET Meta /\ \A m \in routes1 : m \in st.routes \/ ChatOf[m] = a.of
    BY <1>2, <1>7, <1>8, <2>1 DEF Script
  <2>3. there = st.provisional \/ (st.path = Home /\ there = a.created)
    BY <1>7, <2>1
  <2>5. RouteFits(state', source', legacy, opened)
    <3>1. source'[f].at = "reading" /\ source'[f].epoch = st.epoch
      BY <1>7, <1>10, <1>12
    <3>2. /\ \A m \in routes1 : m \in st.routes \/ ChatOf[m] = source'[f].of
          /\ there = st.provisional \/ (st.path = Home /\ there = source'[f].created)
      BY <1>10, <2>2, <2>3
    <3> QED  BY <1>9, <2>1, <2>2, <3>1, <3>2, TakenFits
  <2>6. RouteFits(state', source', legacy', opened') /\ state'.path = st.path
    BY <1>2, <1>8, <2>1, <2>5 DEF Script
  <2> QED  BY <1>1, <1>8, <1>9, <2>6, InVisit DEF RouteInv
<1> QED  BY <1>11, <1>12

\* What a fallback may make of what is collected.
OwnAdded(st, routes1) ==
    \/ routes1 = st.routes
    \/ st.path # Home /\ \A m \in routes1 : m \in st.routes \/ ChatOf[m] = st.path

\* What the script holds for a fallback changes, and what is collected as it allows.
LEMMA FallbackChanges ==
    ASSUME RouteInv, NEW st, st = Synced, NEW k \in Fallback,
           NEW l \in LegacyRecord, RequestFits(l, st),
           NEW n \in Script(opened), n.path = st.path, n.epoch = st.epoch, n.recent = st.recent,
           n.provisional = st.provisional, OwnAdded(st, n.routes),
           state' = n, legacy' = [legacy EXCEPT ![k] = l], UNCHANGED <<url, chats, source, opened>>
    PROVE  RouteInv'
<1>1. RouteFits(st, source, legacy, opened)
  BY SyncedFits
<1>2. legacy' \in [Fallback -> LegacyRecord] /\ legacy'[k] = l
      /\ \A j \in Fallback \ {k} : legacy'[j] = legacy[j]
  BY DEF RouteInv
<1>3. RouteFits(st, source, legacy', opened)
  BY <1>1, <1>2 DEF RouteFits
<1>4. Collects(n, source, opened)
  <2>1. CASE n.routes = st.routes
    BY <1>1, <2>1 DEF RouteFits, Collects
  <2>2. CASE st.path # Home /\ \A m \in n.routes : m \in st.routes \/ ChatOf[m] = st.path
    BY <1>1, <2>2 DEF RouteFits, Collects, Concerns
  <2> QED  BY <2>1, <2>2 DEF OwnAdded
<1>5. Len(n.recent) <= CacheSize
  BY <1>1 DEF RouteFits
<1>6. RouteFits(n, source, legacy', opened)
  BY <1>3, <1>4, <1>5, StateChanges
<1>7. RouteFits(state', source', legacy', opened')
  BY <1>6
<1> QED  BY <1>2, <1>7, InVisit DEF RouteInv

LEMMA BeginRoutesFallback == ASSUME RouteInv, NEW k \in Fallback, Begin(k) PROVE RouteInv'
<1>1. PICK st : st = Synced
  OBVIOUS
<1>2. st \in Script(opened)
  BY <1>1, SyncedFits DEF RouteFits
<1>3. PICK l : l = [at |-> "first", epoch |-> st.epoch, of |-> st.path, unsupported |-> 0]
  OBVIOUS
<1>4. l \in LegacyRecord /\ RequestFits(l, st)
  <2>1. st.path # Home
    BY <1>1 DEF Begin
  <2>2. st.epoch \in Epoch /\ st.path \in Path /\ st.epoch <= st.epoch
    BY <1>2 DEF Script, Epoch
  <2> QED  BY <1>3, <2>1, <2>2 DEF LegacyRecord, RequestFits
<1>5. PICK n : n = [st EXCEPT !.inFlight = k, !.attempts = @ + 1]
  OBVIOUS
<1>6. n \in Script(opened) /\ n.path = st.path /\ n.epoch = st.epoch /\ n.recent = st.recent
      /\ n.provisional = st.provisional /\ n.routes = st.routes
  <2>1. st.attempts + 1 \in 0..Attempts
    BY <1>1, <1>2, RouteAssumption DEF Begin, Script
  <2> QED  BY <1>2, <1>5, <2>1 DEF Script
<1>7. state' = n /\ legacy' = [legacy EXCEPT ![k] = l] /\ UNCHANGED <<url, chats, source, opened>>
  BY <1>1, <1>3, <1>5 DEF Begin
<1>8. OwnAdded(st, n.routes)
  BY <1>6 DEF OwnAdded
<1> QED  BY <1>1, <1>4, <1>6, <1>7, <1>8, FallbackChanges

\* A fallback ends: it may disable, and adds what is about the Chat at hand.
LEMMA EndRoutesFallback ==
    ASSUME RouteInv, NEW st, st = Synced, NEW k \in Fallback,
           NEW off \in BOOLEAN, NEW routes1 \in SUBSET Meta, NEW ended, ended = Ended(st, k),
           OwnAdded(st, routes1),
           state' = [ended EXCEPT !.disabled = off, !.routes = routes1],
           legacy' = [legacy EXCEPT ![k] = NoLegacy], UNCHANGED <<url, chats, source, opened>>
    PROVE  RouteInv'
<1>1. st \in Script(opened)
  BY SyncedFits DEF RouteFits
<1>2. NoLegacy \in LegacyRecord /\ RequestFits(NoLegacy, st)
  BY <1>1, RouteAssumption DEF NoLegacy, LegacyRecord, RequestFits, Script, Epoch, Path
<1>3. PICK n : n = [ended EXCEPT !.disabled = off, !.routes = routes1]
  OBVIOUS
<1>4. PICK e \in Fallback \cup {NoFallback} : ended = [st EXCEPT !.inFlight = e]
  <2>1. st.inFlight \in Fallback \cup {NoFallback}
    BY <1>1 DEF Script
  <2>2. (IF st.inFlight = k THEN NoFallback ELSE st.inFlight) \in Fallback \cup {NoFallback}
    BY <2>1
  <2> QED  BY <2>2 DEF Ended
<1>5. n \in Script(opened) /\ n.path = st.path /\ n.epoch = st.epoch /\ n.recent = st.recent
      /\ n.provisional = st.provisional /\ n.routes = routes1
  BY <1>1, <1>3, <1>4 DEF Script
<1>6. OwnAdded(st, n.routes)
  BY <1>5
<1>7. state' = n
  BY <1>3
<1> QED  BY <1>2, <1>5, <1>6, <1>7, FallbackChanges

LEMMA AnsweredRoutes ==
    ASSUME RouteInv, NEW k \in Fallback, NEW kind \in Kind, Answered(k, kind)
    PROVE  RouteInv'
<1>1. PICK st : st = Synced
  OBVIOUS
<1>2. st \in Script(opened) /\ RequestFits(legacy[k], st) /\ legacy[k] \in LegacyRecord
  BY <1>1, SyncedFits DEF RouteFits, RouteInv
<1>3. PICK misses : misses = legacy[k].unsupported + (IF kind = "unsupported" THEN 1 ELSE 0)
  OBVIOUS
<1> DEFINE stale == legacy[k].epoch # st.epoch
           over == legacy[k].at = "second" \/ stale \/ kind \in {"refused", "lost"}
           disables == ~stale /\ (kind = "refused" \/ (legacy[k].at = "second" /\ misses = 2))
<1>4. /\ legacy[k].at \in {"first", "second"} /\ UNCHANGED <<url, chats, source, opened>>
      /\ \/ legacy' = [legacy EXCEPT ![k].at = "json"] /\ state' = st
         \/ /\ over /\ legacy' = [legacy EXCEPT ![k] = NoLegacy]
            /\ state' = [Ended(st, k) EXCEPT !.disabled = @ \/ disables]
         \/ /\ ~over /\ state' = st
            /\ legacy' = [legacy EXCEPT ![k].at = "second", ![k].unsupported = misses]
  BY <1>1, <1>3 DEF Answered
<1>5. ASSUME NEW l \in LegacyRecord, l.epoch = legacy[k].epoch, l.of = legacy[k].of,
             l.at # "first", legacy' = [legacy EXCEPT ![k] = l], state' = st
      PROVE  RouteInv'
  <2>1. RequestFits(l, st) /\ OwnAdded(st, st.routes)
    BY <1>2, <1>4, <1>5 DEF RequestFits, OwnAdded
  <2> QED  BY <1>1, <1>2, <1>4, <1>5, <2>1, FallbackChanges
<1>6. CASE legacy' = [legacy EXCEPT ![k].at = "json"] /\ state' = st
  <2>1. PICK l : l = [legacy[k] EXCEPT !.at = "json"]
    OBVIOUS
  <2>2. l \in LegacyRecord /\ l.epoch = legacy[k].epoch /\ l.of = legacy[k].of /\ l.at = "json"
    BY <1>2, <2>1 DEF LegacyRecord
  <2>3. legacy' = [legacy EXCEPT ![k] = l]
    BY <1>6, <2>1 DEF RouteInv
  <2> QED  BY <1>5, <1>6, <2>2, <2>3
<1>7. CASE ~over /\ state' = st
           /\ legacy' = [legacy EXCEPT ![k].at = "second", ![k].unsupported = misses]
  <2>1. PICK l : l = [legacy[k] EXCEPT !.at = "second", !.unsupported = misses]
    OBVIOUS
  <2>2. misses \in 0..2
    BY <1>2, <1>3, <1>4, <1>7 DEF RequestFits
  <2>3. l \in LegacyRecord /\ l.epoch = legacy[k].epoch /\ l.of = legacy[k].of /\ l.at = "second"
    BY <1>2, <2>1, <2>2 DEF LegacyRecord
  <2>4. legacy' = [legacy EXCEPT ![k] = l]
    BY <1>7, <2>1 DEF RouteInv
  <2> QED  BY <1>5, <1>7, <2>3, <2>4
<1>8. CASE /\ over /\ legacy' = [legacy EXCEPT ![k] = NoLegacy]
           /\ state' = [Ended(st, k) EXCEPT !.disabled = @ \/ disables]
  <2>0. PICK ended : ended = Ended(st, k)
    OBVIOUS
  <2>1. PICK e : ended = [st EXCEPT !.inFlight = e]
    BY <2>0 DEF Ended
  <2>2. PICK off \in BOOLEAN : off = (st.disabled \/ disables)
    OBVIOUS
  <2> HIDE DEF disables, over
  <2>3. ended.disabled = st.disabled /\ ended.routes = st.routes
    BY <1>2, <2>1 DEF Script
  <2>4. state' = [ended EXCEPT !.disabled = off]
    BY <1>8, <2>0, <2>2, <2>3
  <2>5. state' = [ended EXCEPT !.disabled = off, !.routes = st.routes]
    BY <1>2, <2>1, <2>3, <2>4 DEF Script
  <2>6. st.routes \in SUBSET Meta /\ OwnAdded(st, st.routes)
    BY <1>2 DEF Script, OwnAdded
  <2> QED  BY <1>1, <1>4, <1>8, <2>0, <2>5, <2>6, EndRoutesFallback
<1> QED  BY <1>4, <1>6, <1>7, <1>8

LEMMA BodyRoutes ==
    ASSUME RouteInv, NEW k \in Fallback, NEW ms \in SUBSET Meta, Body(k, ms)
    PROVE  RouteInv'
<1>1. PICK st : st = Synced
  OBVIOUS
<1>2. st \in Script(opened) /\ RequestFits(legacy[k], st)
  BY <1>1, SyncedFits DEF RouteFits
<1>0. PICK ended : ended = Ended(st, k)
  OBVIOUS
<1>3. PICK e : ended = [st EXCEPT !.inFlight = e]
  BY <1>0 DEF Ended
<1>4. ended.routes = st.routes /\ st.routes \in SUBSET Meta
      /\ ended.disabled = st.disabled /\ st.disabled \in BOOLEAN
  BY <1>2, <1>3 DEF Script
<1>5. PICK routes1 : routes1 = IF legacy[k].epoch = st.epoch THEN st.routes \cup ms ELSE st.routes
  OBVIOUS
<1>6. state' = [ended EXCEPT !.routes = routes1]
  BY <1>0, <1>1, <1>4, <1>5 DEF Body
<1>7. state' = [ended EXCEPT !.disabled = st.disabled, !.routes = routes1]
  BY <1>2, <1>3, <1>6 DEF Script
<1>8. OwnAdded(st, routes1)
  BY <1>2, <1>5 DEF RequestFits, Body, OwnAdded
<1>9. /\ legacy' = [legacy EXCEPT ![k] = NoLegacy] /\ UNCHANGED <<url, chats, source, opened>>
      /\ routes1 \in SUBSET Meta
  BY <1>4, <1>5 DEF Body
<1> QED  BY <1>0, <1>1, <1>4, <1>7, <1>8, <1>9, EndRoutesFallback

LEMMA RouteStarts == ASSUME RouteInit PROVE RouteInv
<1>1. state = [FreshState EXCEPT !.path = url] /\ url \in Path /\ chats \subseteq Conversation
  BY RouteAssumption DEF RouteInit, Path
<1>2. Len(<<>>) = 0 /\ <<>> \in Seq(Entry(opened))
  OBVIOUS
<1>3. /\ FreshState \in Script(opened) /\ FreshState.recent = <<>> /\ FreshState.epoch = 0
      /\ FreshState.routes = {} /\ FreshState.provisional = Home
  BY <1>2, RouteAssumption DEF FreshState, Script, Path, Epoch
<1>4. PICK st : st = state
  OBVIOUS
<1>5. /\ st \in Script(opened) /\ st.recent = <<>> /\ st.epoch = 0 /\ st.routes = {} /\ st.path = url
      /\ st.provisional = Home
  BY <1>1, <1>3, <1>4 DEF Script
<1>6. NoSource \in SourceRecord /\ NoLegacy \in LegacyRecord
      /\ SourceFits(NoSource, st) /\ RequestFits(NoLegacy, st) /\ ~NoSource.creating
  BY <1>5, RouteAssumption
  DEF NoSource, NoLegacy, SourceRecord, LegacyRecord, Path, Epoch, SourceFits, RequestFits
<1>7. Collects(st, source, opened)
  BY <1>5, <1>6 DEF RouteInit, Collects
<1>8. Len(st.recent) <= CacheSize
  BY <1>2, <1>5, RouteAssumption
<1>9. RouteFits(st, source, legacy, opened)
  BY <1>6, <1>7, <1>8, <1>5 DEF RouteInit, RouteFits
<1>10. opened \in [Epoch -> SUBSET Conversation]
  BY DEF RouteInit
<1> QED  BY <1>1, <1>4, <1>6, <1>9, <1>5, <1>10 DEF RouteInit, RouteInv

LEMMA RouteStep == ASSUME RouteInv, [RouteNext]_routeVars PROVE RouteInv'
<1>1. CASE UNCHANGED routeVars
  <2>1. UNCHANGED <<url, chats, state, source, legacy, opened>>
    BY <1>1 DEF routeVars
  <2>2. RouteFits(state', source', legacy', opened')
    BY <2>1 DEF RouteInv
  <2> QED  BY <2>1, <2>2 DEF RouteInv
<1>2. CASE RouteNext
  BY <1>2, NavigateRoutes, FetchRoutes, RespondRoutes, ConsumeRoutes, CloseRoutes,
     InspectRoutes, BeginRoutesFallback, AnsweredRoutes, BodyRoutes DEF RouteNext
<1> QED  BY <1>1, <1>2

LEMMA RouteFacts == ASSUME RouteInv PROVE RouteTypeOK /\ OwnMetadata /\ TakenInTime
<1>1. state \in Script(opened) /\ Len(state.recent) <= CacheSize /\ Collects(state, source, opened)
      /\ \A f \in Source : SourceFits(source[f], state) /\ source[f] \in SourceRecord
  BY DEF RouteInv, RouteFits
<1>2. \A i \in 1..Len(state.recent) : state.recent[i] \in Entry(opened)
  BY <1>1, ElementOfSeq DEF Script
<1>3. RouteTypeOK
  <2>1. state.recent \in Seq([id : Conversation, routes : SUBSET Meta])
    <3>1. \A i \in 1..Len(state.recent) :
             state.recent[i] \in [id : Conversation, routes : SUBSET Meta]
      BY <1>2 DEF Entry
    <3>2. state.recent \in Seq(Entry(opened))
      BY <1>1 DEF Script
    <3>3. /\ Len(state.recent) \in Nat /\ state.recent \in [1..Len(state.recent) -> Entry(opened)]
      BY <3>2, LenProperties
    <3>4. state.recent \in [1..Len(state.recent) -> [id : Conversation, routes : SUBSET Meta]]
      BY <3>1, <3>3
    <3> QED  BY <3>3, <3>4, SeqDef
  <2>2. state \in State
    BY <1>1, <2>1 DEF Script, State
  <2> QED  BY <1>1, <2>2 DEF RouteInv, RouteTypeOK
<1>4. OwnMetadata
  <2>1. \A m \in Meta, c \in Conversation :
           Concerns(opened, m, c) <=> ChatOf[m] = c \/ Together(ChatOf[m], c)
    BY DEF Concerns, Together
  <2>2. state.path \in Path /\ state.routes \subseteq Meta
    BY <1>1 DEF Script
  <2>3. state.path # Home => \A m \in state.routes : Concerns(opened, m, state.path)
    BY <1>1 DEF Collects
  <2>4. \A i \in 1..Len(state.recent) :
           /\ state.recent[i].id \in Conversation /\ state.recent[i].routes \subseteq Meta
           /\ \A m \in state.recent[i].routes : Concerns(opened, m, state.recent[i].id)
    BY <1>2 DEF Entry
  <2> QED  BY <2>1, <2>2, <2>3, <2>4 DEF OwnMetadata, Path
<1>5. TakenInTime
  <2> SUFFICES ASSUME NEW f \in Source
               PROVE  /\ source[f].epoch \in {source[f].made, source[f].made + 1}
                      /\ source[f].epoch # source[f].made /\ source[f].epoch = state.epoch
                         => state.path = source[f].of
    BY DEF TakenInTime
  <2>1. source[f].epoch \in Nat /\ source[f].made \in Nat
    BY <1>1 DEF SourceRecord, Epoch
  <2> QED  BY <1>1, <2>1 DEF SourceFits, NoSource
<1> QED  BY <1>3, <1>4, <1>5

LEMMA RouteInvariance == RouteSpec => []RouteInv
<1> QED  BY RouteStarts, RouteStep, PTL DEF RouteSpec

(* Whatever the visits, requests and answers interleave to, the metadata     *)
(* shown, and what is kept for later visits, is about its own conversation,  *)
(* or about one whose creation began in the same visit as its own.           *)
THEOREM MetadataStaysOwn == RouteSpec => []OwnMetadata
<1>1. RouteInv => OwnMetadata
  BY RouteFacts
<1> QED  BY <1>1, RouteInvariance, PTL

-----------------------------------------------------------------------------
(* The userscript's fallback.                                                *)

\* A state of the script, as far as the fallback goes.
StateShape(st) ==
    /\ st = [path |-> st.path, epoch |-> st.epoch, routes |-> st.routes, recent |-> st.recent,
             provisional |-> st.provisional, inFlight |-> st.inFlight,
             disabled |-> st.disabled, attempts |-> st.attempts]
    /\ st.epoch \in Nat /\ st.attempts \in Nat /\ st.disabled \in BOOLEAN
    /\ st.disabled => st.attempts > 0

Requests == [at : {"off", "first", "second", "json"}, epoch : Nat, of : Path, unsupported : Nat]

\* A fallback of the visit at hand is the one that the state names.
Visits(st, requests) ==
    \A k \in Fallback :
        requests[k].at # "off" =>
            /\ requests[k].epoch <= st.epoch
            /\ requests[k].epoch = st.epoch => st.inFlight = k /\ st.attempts > 0

FallbackInv ==
    /\ url \in Path /\ state.path \in Path
    /\ legacy \in [Fallback -> Requests]
    /\ StateShape(state) /\ Visits(state, legacy)

LEMMA SyncedShape ==
    ASSUME FallbackInv
    PROVE  StateShape(Synced) /\ Visits(Synced, legacy) /\ Synced.path \in Path
<1>1. CASE state.path = url
  BY <1>1 DEF FallbackInv, Synced
<1>2. CASE state.path # url
  <2>1. PICK routes1, recent1 :
           Synced = [path |-> url, epoch |-> state.epoch + 1, routes |-> routes1,
                     recent |-> recent1, provisional |-> Home, inFlight |-> NoFallback,
                     disabled |-> FALSE, attempts |-> 0]
    BY <1>2 DEF Synced, Restarted, FreshState
  <2>2. state.epoch \in Nat
    BY DEF FallbackInv, StateShape
  <2>3. StateShape(Synced)
    BY <2>1, <2>2 DEF StateShape
  <2>4. Visits(Synced, legacy)
    <3> SUFFICES ASSUME NEW k \in Fallback, legacy[k].at # "off"
                 PROVE  legacy[k].epoch < Synced.epoch
      BY <2>1, <2>2 DEF Visits, FallbackInv, Requests
    <3>1. legacy[k].epoch \in Nat /\ legacy[k].epoch <= state.epoch
      BY DEF FallbackInv, Visits, Requests
    <3> QED  BY <2>1, <2>2, <3>1
  <2> QED  BY <2>1, <2>3, <2>4 DEF FallbackInv
<1> QED  BY <1>1, <1>2

\* Steps that leave what the fallback looks at as it is after syncNavigation.
LEMMA OtherRoutes ==
    ASSUME FallbackInv, RouteNext,
           ~\E k \in Fallback : \/ Begin(k) \/ \E kind \in Kind : Answered(k, kind)
                               \/ \E ms \in SUBSET Meta : Body(k, ms)
    PROVE  FallbackInv'
<1>1. CASE \E p \in Path : Navigate(p)
  BY <1>1 DEF Navigate, FallbackInv
<1>2. CASE \E f \in Source : Close(f)
  BY <1>2 DEF Close, FallbackInv
<1>3. ASSUME state' = Synced, UNCHANGED <<url, legacy>> PROVE FallbackInv'
  BY <1>3, SyncedShape DEF FallbackInv
<1>4. CASE Sync
  BY <1>3, <1>4 DEF Sync
<1>5. CASE \E f \in Source : Respond(f) \/ Consume(f)
                           \/ \E c \in Conversation, loads \in BOOLEAN : Fetch(f, c, loads)
  BY <1>3, <1>5 DEF Respond, Consume, Fetch
<1>6. CASE \E f \in Source : \E ms \in SUBSET Meta, bound \in BOOLEAN : Inspect(f, ms, bound)
  <2>1. PICK f \in Source, ms \in SUBSET Meta, bound \in BOOLEAN : Inspect(f, ms, bound)
    BY <1>6
  <2>2. UNCHANGED <<url, legacy>>
    BY <2>1 DEF Inspect
  <2>3. CASE state' = Synced
    BY <1>3, <2>2, <2>3
  <2>4. ASSUME NEW there, NEW routes1,
               state' = [Synced EXCEPT !.provisional = there, !.routes = routes1]
        PROVE  FallbackInv'
    BY <2>2, <2>4, SyncedShape DEF FallbackInv, StateShape, Visits
  <2> QED  BY <2>1, <2>3, <2>4 DEF Inspect
<1> QED  BY <1>1, <1>2, <1>4, <1>5, <1>6 DEF RouteNext

LEMMA BeginFallback == ASSUME FallbackInv, NEW k \in Fallback, Begin(k) PROVE FallbackInv'
<1> DEFINE st == Synced
<1>1. StateShape(st) /\ Visits(st, legacy) /\ st.path \in Path
  BY SyncedShape
<1>2. /\ st.inFlight = NoFallback /\ UNCHANGED url
      /\ state' = [st EXCEPT !.inFlight = k, !.attempts = @ + 1]
      /\ legacy' = [legacy EXCEPT ![k] = [at |-> "first", epoch |-> st.epoch, of |-> st.path,
                                          unsupported |-> 0]]
  BY DEF Begin
<1> HIDE DEF st
<1>3. /\ StateShape(state') /\ state'.path = st.path /\ state'.epoch = st.epoch
      /\ state'.inFlight = k /\ state'.attempts > 0
  <2>1. state' = [path |-> st.path, epoch |-> st.epoch, routes |-> st.routes,
                  recent |-> st.recent, provisional |-> st.provisional, inFlight |-> k,
                  disabled |-> st.disabled, attempts |-> st.attempts + 1]
    BY <1>1, <1>2 DEF StateShape
  <2>2. st.epoch \in Nat /\ st.attempts \in Nat /\ st.disabled \in BOOLEAN
    BY <1>1 DEF StateShape
  <2> HIDE DEF StateShape
  <2>3. state'.epoch = st.epoch /\ state'.attempts = st.attempts + 1 /\ state'.inFlight = k
        /\ state'.disabled = st.disabled /\ state'.path = st.path
    BY <2>1
  <2>4. StateShape(state')
    BY <2>1, <2>2, <2>3 DEF StateShape
  <2> QED  BY <2>2, <2>3, <2>4
<1>4. legacy' \in [Fallback -> Requests]
  BY <1>1, <1>2 DEF FallbackInv, Requests, StateShape
<1>5. Visits(state', legacy')
  <2>1. \A j \in Fallback : legacy[j].at # "off" => legacy[j].epoch <= st.epoch
                                                /\ legacy[j].epoch # st.epoch
    BY <1>1, <1>2, RouteAssumption DEF Visits
  <2>2. legacy'[k].epoch = st.epoch /\ st.epoch \in Nat
    BY <1>1, <1>2 DEF FallbackInv, StateShape
  <2> QED  BY <1>2, <1>3, <2>1, <2>2 DEF Visits, FallbackInv
<1> QED  BY <1>1, <1>2, <1>3, <1>4, <1>5 DEF FallbackInv

\* A fallback ends: it may disable, if it is of this visit.
LEMMA EndFallback ==
    ASSUME FallbackInv, NEW k \in Fallback, legacy[k].at # "off", UNCHANGED url,
           NEW disables \in BOOLEAN, disables => legacy[k].epoch = Synced.epoch,
           NEW routes1,
           state' = [Synced EXCEPT !.inFlight = IF Synced.inFlight = k THEN NoFallback
                                                ELSE Synced.inFlight,
                                   !.disabled = Synced.disabled \/ disables,
                                   !.routes = routes1],
           legacy' = [legacy EXCEPT ![k] = NoLegacy]
    PROVE  FallbackInv'
<1> DEFINE st == Synced
<1>1. StateShape(st) /\ Visits(st, legacy) /\ st.path \in Path
  BY SyncedShape
<1>2. disables => st.attempts > 0
  BY <1>1 DEF Visits
<1> HIDE DEF st
<1>3. state' = [st EXCEPT !.inFlight = IF st.inFlight = k THEN NoFallback ELSE st.inFlight,
                          !.disabled = st.disabled \/ disables, !.routes = routes1]
  BY DEF st
<1>4. /\ StateShape(state') /\ state'.path = st.path /\ state'.epoch = st.epoch
      /\ st.inFlight # k => state'.inFlight = st.inFlight
      /\ state'.attempts = st.attempts
  BY <1>1, <1>2, <1>3 DEF StateShape
<1>5. NoLegacy \in Requests /\ NoLegacy.at = "off"
  BY DEF NoLegacy, Requests, Path
<1>6. legacy' \in [Fallback -> Requests]
  BY <1>5 DEF FallbackInv
<1>7. Visits(state', legacy')
  BY <1>1, <1>4, <1>5 DEF Visits, FallbackInv
<1> QED  BY <1>1, <1>4, <1>6, <1>7 DEF FallbackInv

LEMMA AnsweredFallback ==
    ASSUME FallbackInv, NEW k \in Fallback, NEW kind \in Kind, Answered(k, kind)
    PROVE  FallbackInv'
<1>1. legacy[k].at # "off" /\ UNCHANGED url
  BY DEF Answered
<1>2. ASSUME state' = Synced, NEW at \in {"second", "json"}, NEW misses \in Nat,
             legacy' = [legacy EXCEPT ![k].at = at, ![k].unsupported = misses]
      PROVE  FallbackInv'
  <2>1. legacy' \in [Fallback -> Requests]
    BY <1>2 DEF FallbackInv, Requests
  <2>2. \A j \in Fallback : /\ legacy'[j].epoch = legacy[j].epoch
                            /\ legacy'[j].at # "off" => legacy[j].at # "off"
    BY <1>1, <1>2 DEF FallbackInv, Requests
  <2> QED  BY <1>1, <1>2, <2>1, <2>2, SyncedShape DEF FallbackInv, Visits
<1>3. CASE state' = Synced /\ legacy' = [legacy EXCEPT ![k].at = "json"]
  <2>1. legacy' = [legacy EXCEPT ![k].at = "json", ![k].unsupported = legacy[k].unsupported]
    BY <1>3 DEF FallbackInv, Requests
  <2> QED  BY <1>2, <1>3, <2>1 DEF FallbackInv, Requests
<1> DEFINE misses == legacy[k].unsupported + (IF kind = "unsupported" THEN 1 ELSE 0)
           stale == legacy[k].epoch # Synced.epoch
           disables == ~stale /\ (kind = "refused" \/ (legacy[k].at = "second" /\ misses = 2))
<1>4. CASE /\ state' = Synced
           /\ legacy' = [legacy EXCEPT ![k].at = "second", ![k].unsupported = misses]
  <2>1. misses \in Nat
    BY DEF FallbackInv, Requests
  <2> HIDE DEF misses
  <2> QED  BY <1>2, <1>4, <2>1
<1>5. CASE /\ state' = [Ended(Synced, k) EXCEPT !.disabled = @ \/ disables]
           /\ legacy' = [legacy EXCEPT ![k] = NoLegacy]
  <2> HIDE DEF disables
  <2>1. state' = [Synced EXCEPT !.inFlight = IF Synced.inFlight = k THEN NoFallback
                                              ELSE Synced.inFlight,
                                !.disabled = Synced.disabled \/ disables,
                                !.routes = Synced.routes]
    BY <1>5, SyncedShape DEF Ended, StateShape
  <2>2. disables \in BOOLEAN /\ (disables => legacy[k].epoch = Synced.epoch)
    BY DEF disables
  <2>3. CASE disables
    <3>1. state' = [Synced EXCEPT !.inFlight = IF Synced.inFlight = k THEN NoFallback
                                                ELSE Synced.inFlight,
                                  !.disabled = Synced.disabled \/ TRUE,
                                  !.routes = Synced.routes]
      BY <2>1, <2>3
    <3> QED  BY <1>1, <1>5, <2>2, <2>3, <3>1, EndFallback
  <2>4. CASE ~disables
    <3>1. state' = [Synced EXCEPT !.inFlight = IF Synced.inFlight = k THEN NoFallback
                                                ELSE Synced.inFlight,
                                  !.disabled = Synced.disabled \/ FALSE,
                                  !.routes = Synced.routes]
      BY <2>1, <2>4
    <3> QED  BY <1>1, <1>5, <3>1, EndFallback
  <2> QED  BY <2>3, <2>4
<1> QED  BY <1>3, <1>4, <1>5 DEF Answered

LEMMA BodyFallback ==
    ASSUME FallbackInv, NEW k \in Fallback, NEW ms \in SUBSET Meta, Body(k, ms)
    PROVE  FallbackInv'
<1> DEFINE kept == IF legacy[k].epoch = Synced.epoch THEN Synced.routes \cup ms ELSE Synced.routes
<1>1. state' = [Synced EXCEPT !.inFlight = IF Synced.inFlight = k THEN NoFallback
                                           ELSE Synced.inFlight,
                              !.disabled = Synced.disabled \/ FALSE, !.routes = kept]
  BY SyncedShape DEF Body, Ended, StateShape
<1> HIDE DEF kept
<1> QED  BY <1>1, EndFallback DEF Body

LEMMA FallbackInvariant == RouteSpec => []FallbackInv
<1>1. ASSUME RouteInit PROVE FallbackInv
  <2>1. NoLegacy \in Requests /\ NoLegacy.at = "off"
    BY DEF NoLegacy, Requests, Path
  <2>2. state = [FreshState EXCEPT !.path = url] /\ url \in Path
    BY <1>1, RouteAssumption DEF RouteInit, Path
  <2>3. StateShape(state) /\ state.path \in Path
    BY <2>2 DEF StateShape, FreshState
  <2> QED  BY <1>1, <2>1, <2>2, <2>3 DEF RouteInit, FallbackInv, Visits
<1>2. FallbackInv /\ [RouteNext]_routeVars => FallbackInv'
  <2>1. FallbackInv /\ UNCHANGED routeVars => FallbackInv'
    BY DEF routeVars, FallbackInv
  <2> QED  BY <2>1, OtherRoutes, BeginFallback, AnsweredFallback, BodyFallback
<1> QED  BY <1>1, <1>2, PTL DEF RouteSpec

(* A visit has one fallback at a time, and what an earlier visit's request is *)
(* answered neither clears its mark nor disables it.                          *)
THEOREM FallbackStaysHere == RouteSpec => []FallbackHere
<1>1. FallbackInv => FallbackHere
  BY DEF FallbackInv, StateShape, Visits, FallbackHere, OneFallback, DisabledHere
<1> QED  BY <1>1, FallbackInvariant, PTL

-----------------------------------------------------------------------------
(* The evidence shown for a turn.                                            *)

Recorded == {k \in Key : known[k] # NoRoute}

\* The model of a record is what was recorded last; one with only a turn is that turn's;
\* finitely many are known.
EvidenceInv ==
    /\ EvidenceTypeOK
    /\ \A k \in Key : named[k] = known[k].actual
    /\ \A t \in Turn : known[t] # NoRoute => known[t].turn = t
    /\ IsFiniteSet(Recorded)

LEMMA NoRouteFacts == NoRoute \in Route /\ NoRoute.actual = None /\ NoRoute.turn = None
                      /\ NoRoute.role = None
BY DEF NoRoute, Route

LEMMA MergeFacts ==
    ASSUME NEW p \in Route, NEW n \in Route
    PROVE  /\ Merge(p, n) \in Route
           /\ Merge(p, n).actual = Or(n.actual, p.actual)
           /\ n.turn # None => Merge(p, n).turn = n.turn
BY DEF Merge, Or, Route

LEMMA EvidenceStarts == ASSUME EvidenceInit PROVE EvidenceInv
<1>1. Recorded = {}
  BY DEF EvidenceInit, Recorded
<1>2. IsFiniteSet(Recorded)
  BY <1>1, FS_EmptySet
<1> QED  BY <1>2, NoRouteFacts DEF EvidenceInit, EvidenceInv, EvidenceTypeOK, Key

LEMMA RememberKeeps ==
    ASSUME EvidenceInv, NEW r \in Collected, RememberRoute(r)
    PROVE  EvidenceInv'
<1>1. PICK k \in Key : /\ k = RouteKey(r)
                       /\ k \in Turn => r.turn = k
  BY EvidenceAssumption DEF RouteKey, Collected, Route, Key
<1>2. r \in Route /\ known \in [Key -> Route] /\ named \in [Key -> Model \cup {None}]
  BY DEF Collected, EvidenceInv, EvidenceTypeOK
<1>3. PICK m : m = Merge(known[k], r)
  OBVIOUS
<1>4. /\ m \in Route /\ m.actual = Or(r.actual, known[k].actual)
      /\ r.turn # None => m.turn = r.turn
  BY <1>2, <1>3, MergeFacts
<1>5. known' = [known EXCEPT ![k] = m]
  BY <1>1, <1>3 DEF RememberRoute
<1>6. named' = [named EXCEPT ![k] = Or(r.actual, named[k])]
  BY <1>1 DEF RememberRoute, RouteKey, Or
<1>7. Or(r.actual, named[k]) \in Model \cup {None}
  BY <1>2 DEF Or, Route
<1>8. EvidenceTypeOK'
  BY <1>2, <1>4, <1>5, <1>6, <1>7 DEF EvidenceTypeOK
<1>9. \A l \in Key : named'[l] = known'[l].actual
  BY <1>2, <1>4, <1>5, <1>6 DEF EvidenceInv
<1>10. \A t \in Turn : known'[t] # NoRoute => known'[t].turn = t
  BY <1>1, <1>2, <1>4, <1>5, EvidenceAssumption DEF EvidenceInv, Key
<1>11. IsFiniteSet(Recorded')
  <2>1. IsFiniteSet(Recorded \cup {k})
    BY FS_AddElement DEF EvidenceInv
  <2>2. Recorded' \subseteq Recorded \cup {k}
    BY <1>2, <1>5 DEF Recorded
  <2> QED  BY <2>1, <2>2, FS_Subset
<1> QED  BY <1>8, <1>9, <1>10, <1>11 DEF EvidenceInv

LEMMA EvidenceStep == ASSUME EvidenceInv, [EvidenceNext]_evidenceVars PROVE EvidenceInv'
<1>1. CASE UNCHANGED evidenceVars
  BY <1>1 DEF evidenceVars, EvidenceInv, EvidenceTypeOK, Recorded
<1> QED  BY <1>1, RememberKeeps DEF EvidenceNext

\* Models that leave no choice are one.
LEMMA OneModel ==
    ASSUME EvidenceInv, NEW K \in SUBSET Recorded,
           Cardinality({Canonical[known[k].actual] : k \in K}) = 1
    PROVE  \A j, k \in K : Canonical[known[j].actual] = Canonical[known[k].actual]
<1> DEFINE S == {Canonical[known[k].actual] : k \in K}
<1>1. IsFiniteSet(K)
  BY FS_Subset DEF EvidenceInv
<1>2. IsFiniteSet(S)
  <2> DEFINE f == [k \in K |-> Canonical[known[k].actual]]
  <2>1. f \in Surjection(K, S)
    BY DEF Surjection
  <2> QED  BY <1>1, <2>1, FS_Surjection
<1>3. \E x : S = {x}
  BY <1>2, FS_Singleton
<1> QED  BY <1>3

LEMMA KnownFacts ==
    ASSUME EvidenceInv, NEW k \in Key
    PROVE  /\ known[k] \in Route
           /\ named[k] = known[k].actual
           /\ known[k].actual # None \/ known[k].turn # None \/ known[k].role # None
              => known[k] # NoRoute
           /\ known[k].role \in {None, "assistant", "other"}
           /\ known[k].role # "other" <=> known[k].role \in {None, "assistant"}
BY NoRouteFacts, EvidenceAssumption DEF EvidenceInv, EvidenceTypeOK, Route, Role

\* The model of an assistant's message of the turn.
OfPeer(x, turn) == \E r \in Peers(turn) : x = r.actual

\* Who is asked about a turn is known, and an assistant's.
LEMMA PeerFacts ==
    ASSUME EvidenceInv, NEW turn, NEW r \in Peers(turn)
    PROVE  \E k \in Key : /\ r = known[k] /\ named[k] = r.actual /\ r.actual # None
                          /\ known[k].role # "other" /\ known[k].turn = turn
                          /\ known[k] # NoRoute
<1>1. PICK k \in Key : r = known[k] /\ known[k] # NoRoute
  BY DEF Peers, Routes
<1>2. r.role \in {None, "assistant"} /\ r.actual # None /\ r.turn = turn
  BY DEF Peers, IsAssistant
<1> QED  BY <1>1, <1>2, KnownFacts

LEMMA ExactFacts ==
    ASSUME EvidenceInv, NEW message \in Message \cup {None}, NEW turn \in Turn \cup {None},
           NEW e, e = Exact(message, turn), e # NoRoute
    PROVE  \/ message # None /\ e = known[message] /\ message \in Key /\ IsAssistant(e)
           \/ turn # None /\ e = known[turn] /\ turn \in Key /\ IsAssistant(e) /\ e.turn = turn
<1>1. CASE message # None /\ known[message] # NoRoute
  BY <1>1 DEF Exact, Key
<1>2. CASE ~(message # None /\ known[message] # NoRoute)
  <2>1. IsAssistant(e) /\ turn # None /\ e = known[turn]
    BY <1>2 DEF Exact, IsAssistant
  <2> QED  BY <2>1 DEF EvidenceInv, Key
<1> QED  BY <1>1, <1>2

LEMMA ShownFacts ==
    ASSUME EvidenceInv, NEW message \in Message \cup {None}, NEW turn \in Turn \cup {None},
           NEW x \in Shown(message, turn, None), x # None,
           NEW e, e = Exact(message, turn)
    PROVE  \/ e # NoRoute /\ x = e.actual
           \/ e # NoRoute /\ e.turn # None /\ OfPeer(x, e.turn)
           \/ e = NoRoute /\ turn # None /\ Unambiguous(Peers(turn))
              /\ OfPeer(x, turn)
<1>1. \A t : LatestOf(Peers(t)) \subseteq Peers(t)
  BY DEF LatestOf
<1>2. x \in (IF e.actual # None THEN {e.actual}
             ELSE IF e # NoRoute /\ e.turn # None /\ Peers(e.turn) # {}
                  THEN {r.actual : r \in LatestOf(Peers(e.turn))}
             ELSE IF e = NoRoute /\ turn # None /\ Unambiguous(Peers(turn))
                  THEN {r.actual : r \in LatestOf(Peers(turn))}
             ELSE {None})
  <2>1. (IF e = NoRoute THEN NoRoute ELSE e) = e
    OBVIOUS
  <2> QED  BY <2>1 DEF Shown
<1> QED  BY <1>1, <1>2, NoRouteFacts DEF OfPeer

LEMMA ShownHolds == ASSUME EvidenceInv PROVE ShownIsEvidence
<1> SUFFICES ASSUME NEW message \in Message, NEW turn \in Turn \cup {None},
                    NEW x \in Shown(message, turn, None), x # None
             PROVE  \E k \in Key :
                      /\ named[k] = x /\ known[k].role # "other"
                      /\ k \in {message, turn}
                         \/ known[k].turn \in {turn, known[message].turn} \ {None}
  BY DEF ShownIsEvidence
<1>1. PICK e : e = Exact(message, turn)
  OBVIOUS
<1>2. CASE e # NoRoute
  <2>1. PICK k \in Key : k \in {message, turn} /\ e = known[k] /\ IsAssistant(e)
                         /\ e.turn \in {turn, known[message].turn}
    BY <1>1, <1>2, ExactFacts
  <2>2. CASE x = e.actual
    BY <2>1, <2>2, KnownFacts DEF IsAssistant
  <2>3. CASE e.turn # None /\ OfPeer(x, e.turn)
    BY <2>1, <2>3, PeerFacts DEF OfPeer
  <2> QED  BY <1>1, <1>2, <2>2, <2>3, ShownFacts
<1>3. CASE e = NoRoute
  <2>1. message \in Message \cup {None}
    OBVIOUS
  <2>2. turn # None /\ OfPeer(x, turn)
    BY <1>1, <1>3, <2>1, ShownFacts, Zenon
  <2> QED  BY <2>2, PeerFacts DEF OfPeer
<1> QED  BY <1>2, <1>3

LEMMA OwnHolds == ASSUME EvidenceInv PROVE OwnEvidenceWins
<1> SUFFICES ASSUME NEW message \in Message, NEW turn \in Turn \cup {None},
                    NEW slug \in Model \cup {None},
                    named[message] # None, known[message].role # "other"
             PROVE  Shown(message, turn, slug) = {named[message]}
  BY DEF OwnEvidenceWins
<1>1. PICK e : e = known[message]
  OBVIOUS
<1>2. e \in Route /\ e.actual = named[message] /\ e # NoRoute /\ e.role \in {None, "assistant"}
  BY <1>1, KnownFacts DEF Key
<1>3. Exact(message, turn) = e
  BY <1>1, <1>2, EvidenceAssumption DEF Exact, IsAssistant
<1>4. PICK dom : dom = IF slug = None THEN NoRoute
                       ELSE [message |-> message, turn |-> turn, role |-> None, actual |-> slug]
  OBVIOUS
<1>5. dom \in Route
  BY <1>4, NoRouteFacts DEF Route
<1>6. Merge(dom, e).actual = e.actual
  BY <1>2, <1>5, MergeFacts DEF Or
<1>7. PICK own : own = IF dom = NoRoute THEN e ELSE Merge(dom, e)
  OBVIOUS
<1>8. own.actual = named[message] /\ own.actual # None
  BY <1>2, <1>6, <1>7
<1> QED  BY <1>2, <1>3, <1>4, <1>7, <1>8 DEF Shown

LEMMA WrapperHolds == ASSUME EvidenceInv PROVE WrapperUnambiguous
<1> SUFFICES ASSUME NEW turn \in Turn, NEW x \in Shown(None, turn, None), x # None,
                    known[turn] = NoRoute,
                    NEW k \in Key, known[k].turn = turn, known[k].role # "other",
                    named[k] # None
             PROVE  Canonical[named[k]] = Canonical[x]
  BY DEF WrapperUnambiguous
<1>1. PICK e : e = Exact(None, turn)
  OBVIOUS
<1>2. e = NoRoute
  BY <1>1, ExactFacts
<1>3. PICK r \in Peers(turn) : x = r.actual /\ Unambiguous(Peers(turn))
  <2>1. None \in Message \cup {None} /\ turn \in Turn \cup {None}
    OBVIOUS
  <2>2. OfPeer(x, turn) /\ Unambiguous(Peers(turn))
    BY <1>1, <1>2, <2>1, ShownFacts, Zenon
  <2> QED  BY <2>2 DEF OfPeer
<1> DEFINE K == {l \in Key : known[l] \in Peers(turn)}
<1>4. PICK j \in K : r = known[j]
  BY <1>3, PeerFacts
<1>5. k \in K
  BY KnownFacts, EvidenceAssumption DEF Peers, Routes, IsAssistant
<1>6. K \in SUBSET Recorded
  BY PeerFacts, NoRouteFacts DEF Recorded, Peers
<1>7. {Canonical[known[l].actual] : l \in K} = {Canonical[p.actual] : p \in Peers(turn)}
  <2>1. \A p \in Peers(turn) : \E l \in K : p = known[l]
    BY PeerFacts
  <2> QED  BY <2>1
<1>8. Cardinality({Canonical[known[l].actual] : l \in K}) = 1
  BY <1>3, <1>7 DEF Unambiguous
<1>9. Canonical[known[k].actual] = Canonical[known[j].actual]
  BY <1>4, <1>5, <1>6, <1>8, OneModel
<1> QED  BY <1>3, <1>4, <1>9, KnownFacts

LEMMA SetHolds == ASSUME EvidenceInv PROVE SetComplete
<1> SUFFICES ASSUME NEW ids \in SUBSET Message, NEW x, x = ShownForSet(ids), x # None,
                    NEW m \in ids
             PROVE  /\ known[m].role # None
                    /\ known[m].role = "assistant"
                       => named[m] # None /\ Canonical[named[m]] = x
  BY DEF SetComplete
<1> DEFINE K == {n \in ids : known[n].role = "assistant"}
           models == {Canonical[r.actual] : r \in Members(ids)}
<1>1. Complete(ids, Members(ids)) /\ Cardinality(models) = 1 /\ x = CHOOSE y \in models : TRUE
  BY DEF ShownForSet
<1>2. models = {Canonical[known[n].actual] : n \in K}
  BY DEF Members
<1>3. K \in SUBSET Recorded
  BY KnownFacts, EvidenceAssumption DEF Recorded, Key
<1>4. \A j, k \in K : Canonical[known[j].actual] = Canonical[known[k].actual]
  BY <1>1, <1>2, <1>3, OneModel
<1>5. ASSUME known[m].role = "assistant"
      PROVE  named[m] # None /\ Canonical[named[m]] = x
  <2>1. known[m] \in Members(ids) /\ m \in K
    BY <1>5 DEF Members
  <2>2. known[m].actual # None /\ named[m] = known[m].actual
    BY <1>1, <2>1, KnownFacts DEF Complete, Key
  <2>3. Canonical[known[m].actual] \in models
    BY <2>1
  <2>4. x \in models
    BY <1>1, <2>3
  <2>5. PICK n \in K : x = Canonical[known[n].actual]
    BY <1>2, <2>4
  <2> QED  BY <1>4, <2>1, <2>2, <2>5
<1> QED  BY <1>1, <1>5 DEF Complete

LEMMA EvidenceInvariance == EvidenceSpec => []EvidenceInv
<1> QED  BY EvidenceStarts, EvidenceStep, PTL DEF EvidenceSpec

(* What is shown for a turn is what was recorded of its message, of the one  *)
(* message that its turn has, or of all the replies of its request.          *)
THEOREM EvidenceIsSafe == EvidenceSpec => []EvidenceSafe
<1>1. EvidenceInv => EvidenceSafe
  BY ShownHolds, OwnHolds, WrapperHolds, SetHolds DEF EvidenceSafe
<1> QED  BY <1>1, EvidenceInvariance, PTL
=============================================================================
