--------------------------- MODULE RouteIndicator ---------------------------
(***************************************************************************)
(* The browser userscript (userscripts/chatgpt-route-indicator.user.js):   *)
(* it watches the page's own requests while the user moves between Chats   *)
(* and collects model metadata for the Chat at hand, keeps what it had for *)
(* the last Chats left, and asks the server itself now and then when a     *)
(* reply stays without metadata (the fallback).                            *)
(*                                                                         *)
(* The page and the server are external.  A path is a conversation or      *)
(* Home; what is collected is the message that the metadata is about       *)
(* (RouteEvidence has the rest).  The script learns of a new path only     *)
(* when it runs; timers and mutation records run it at any time, and the   *)
(* three seconds between two fallbacks are any time.                       *)
(***************************************************************************)
EXTENDS Naturals, Sequences, FiniteSets, SequencesExt

CONSTANTS
    Conversation, NewChat,      \* NewChat: those that may not exist yet
    Home,                       \* a path without a conversation; also "no id"
    Meta, ChatOf,               \* messages, and the conversation of each
    Source,                     \* requests of the page
    Fallback, NoFallback,       \* the script's own
    CacheSize, Attempts,        \* 3 and 3
    MaxEpoch                    \* bound: visits

ASSUME RouteAssumption ==
    /\ NewChat \subseteq Conversation /\ Home \notin Conversation
    /\ ChatOf \in [Meta -> Conversation]
    /\ NoFallback \notin Fallback
    /\ CacheSize \in Nat /\ Attempts \in Nat /\ MaxEpoch \in Nat

VARIABLES
    url,        \* location.pathname
    chats,      \* the conversations that exist
    state,      \* the object of this name
    source,     \* what the script holds for each request (epoch in routeAwareFetch)
    legacy,     \* the locals of each fetchConversationFallback
    \* History.
    opened      \* the chats that were begun in each visit without a conversation

routeVars == <<url, chats, state, source, legacy, opened>>

Path == Conversation \cup {Home}
Epoch == 0..MaxEpoch
State == [path : Path, epoch : Epoch, routes : SUBSET Meta,
          recent : Seq([id : Conversation, routes : SUBSET Meta]), provisional : Path,
          inFlight : Fallback \cup {NoFallback}, disabled : BOOLEAN, attempts : 0..Attempts]
SourceRecord == [at : {"off", "requested", "responded", "reading"}, of : Path, made : Epoch,
                 epoch : Epoch, origin : Path, request : Path, creating : BOOLEAN, created : Path]
LegacyRecord == [at : {"off", "first", "second", "json"}, epoch : Epoch, of : Path,
                 unsupported : 0..2]

FreshState == [path |-> Home, epoch |-> 0, routes |-> {}, recent |-> <<>>, provisional |-> Home,
          inFlight |-> NoFallback, disabled |-> FALSE, attempts |-> 0]
NoSource == [at |-> "off", of |-> Home, made |-> 0, epoch |-> 0, origin |-> Home,
             request |-> Home, creating |-> FALSE, created |-> Home]
NoLegacy == [at |-> "off", epoch |-> 0, of |-> Home, unsupported |-> 0]

RouteTypeOK ==
    /\ url \in Path /\ chats \subseteq Conversation
    /\ state \in State /\ Len(state.recent) <= CacheSize
    /\ source \in [Source -> SourceRecord]
    /\ legacy \in [Fallback -> LegacyRecord]
    /\ opened \in [Epoch -> SUBSET Conversation]

RouteInit ==
    /\ chats \in {Conversation \ absent : absent \in SUBSET NewChat}
    /\ url \in chats \cup {Home}
    /\ state = [FreshState EXCEPT !.path = url]
    /\ source = [f \in Source |-> NoSource]
    /\ legacy = [k \in Fallback |-> NoLegacy]
    /\ opened = [e \in Epoch |-> {}]

-----------------------------------------------------------------------------
\* For mutation runs.
FaultCreatingThis == state.path = Home
FaultArriving(s, st) == s.request # Home /\ s.request = st.path /\ s.origin # s.request
FaultEnded(st, k) == [st EXCEPT !.inFlight = NoFallback]

-----------------------------------------------------------------------------
(* Navigation.                                                               *)

\* The metadata kept for a conversation, and what is kept when one is left.
Cached(c) == UNION {state.recent[i].routes : i \in {j \in 1..Len(state.recent) :
                                                      state.recent[j].id = c}}
Without(recent, c) == RemoveFirstMatch(recent, LAMBDA entry : entry.id = c)
Saved ==
    LET others == Without(Without(state.recent, url), state.path)
        entry == [id |-> state.path, routes |-> state.routes]
        longer == Append(others, entry)
    IN  IF state.path = Home \/ state.routes = {} THEN Without(state.recent, url)
        ELSE IF Len(longer) > CacheSize THEN Tail(longer) ELSE longer

\* / -> /c/ID while the response that creates the chat is streaming.
CreatingThis == state.path = Home /\ state.provisional # Home /\ state.provisional = url

\* What a change of path resets.
Restarted == [FreshState EXCEPT !.path = url, !.epoch = state.epoch + 1]

\* syncNavigation, with which everything the script does begins.
Synced ==
    IF state.path = url THEN state
    ELSE [Restarted EXCEPT !.routes = IF CreatingThis THEN state.routes ELSE Cached(url),
                           !.recent = Saved]

\* The bound on visits counts a change of path that the script has yet to see.
Navigate(p) ==
    /\ p # url /\ p \in chats \cup {Home}
    /\ Synced.epoch < MaxEpoch
    /\ url' = p
    /\ UNCHANGED <<chats, state, source, legacy, opened>>

Sync ==
    /\ state' = Synced
    /\ UNCHANGED <<url, chats, source, legacy, opened>>

-----------------------------------------------------------------------------
(* The page's requests.                                                      *)

\* currentEpoch for a source: its own visit, or the one that it announced.
Arriving(s, st) ==
    s.request # Home /\ s.request = st.path /\ s.origin # s.request /\ s.epoch + 1 = st.epoch
Created(s, st) ==
    s.creating /\ s.created # Home /\ s.created = st.path /\ s.epoch + 1 = st.epoch
IsCurrent(s, st) == s.epoch = st.epoch \/ Arriving(s, st) \/ Created(s, st)
Awaiting(s, st) ==
    s.creating /\ s.created = Home /\ s.epoch + 1 = st.epoch /\ st.path # Home
Adopted(s, st) ==
    IF s.epoch = st.epoch \/ ~IsCurrent(s, st) THEN s
    ELSE [s EXCEPT !.epoch = st.epoch, !.creating = @ /\ Arriving(s, st)]

\* routeAwareFetch: a conversation is loaded, or a message is sent.  One sent from a
\* path without an id counts as creating a chat: the first message of a new one, the
\* same again after a failure, or a further one of a chat that never gets a path of its
\* own (a temporary one).
Fetch(f, c, loads) ==
    LET st == Synced
        creates == ~loads /\ st.path = Home
    IN
    /\ source[f].at = "off"
    /\ IF loads THEN c \in chats
       ELSE IF creates THEN c \notin chats \/ c \in opened[st.epoch]
       ELSE c = st.path
    /\ state' = st
    /\ opened' = IF creates THEN [opened EXCEPT ![st.epoch] = @ \cup {c}] ELSE opened
    /\ source' = [source EXCEPT ![f] =
            [at |-> "requested", of |-> c, made |-> st.epoch, epoch |-> st.epoch,
             origin |-> st.path, request |-> IF loads THEN c ELSE Home,
             creating |-> creates, created |-> Home]]
    /\ UNCHANGED <<url, chats, legacy>>

\* The response: the wrapper reads a stream or a clone of it, if it is for here.
Respond(f) ==
    LET st == Synced
        s == source[f]
        here == /\ IsCurrent(s, st) \/ Awaiting(s, st)
                /\ s.request \in {Home, st.path}
    IN
    /\ s.at = "requested"
    /\ state' = st
    /\ chats' = chats \cup {s.of}
    /\ source' = [source EXCEPT ![f] =
            [Adopted(s, st) EXCEPT !.at = IF here THEN "reading" ELSE "responded"]]
    /\ UNCHANGED <<url, legacy, opened>>

\* The page itself reads the response of a load (consumptionScope).
Consume(f) ==
    LET st == Synced IN
    /\ source[f].at = "responded"
    /\ source[f].request # Home /\ source[f].request = st.path
    /\ state' = st
    /\ source' = [source EXCEPT ![f].at = "reading"]
    /\ UNCHANGED <<url, chats, legacy, opened>>

\* inspectObject: an event of the stream, or the whole object, with metadata and
\* maybe with the conversation's id.
Inspect(f, ms, named) ==
    LET st == Synced
        s == IF named /\ source[f].creating /\ source[f].created = Home
             THEN [source[f] EXCEPT !.created = source[f].of] ELSE source[f]
        current == IsCurrent(s, st)
        announced == st.path = Home /\ s.creating /\ s.created # Home
        mine == ~(named /\ st.path # Home /\ st.path # s.of)
    IN
    /\ source[f].at = "reading"
    /\ ms \subseteq {m \in Meta : ChatOf[m] = source[f].of}
    /\ source' = [source EXCEPT ![f] = Adopted(s, st)]
    /\ state' = IF ~current THEN st
                ELSE [st EXCEPT !.provisional = IF announced THEN s.created ELSE @,
                                !.routes = IF mine THEN @ \cup ms ELSE @]
    /\ UNCHANGED <<url, chats, legacy, opened>>

\* The response ends, fails, is cancelled or of no interest.
Close(f) ==
    /\ source[f].at # "off"
    /\ source' = [source EXCEPT ![f] = NoSource]
    /\ UNCHANGED <<url, chats, state, legacy, opened>>

-----------------------------------------------------------------------------
(* The fallback.                                                             *)

\* fetchConversationFallback begins; whether metadata is needed is the page's affair.
Begin(k) ==
    LET st == Synced IN
    /\ legacy[k].at = "off"
    /\ st.path # Home /\ ~st.disabled /\ st.inFlight = NoFallback
    /\ st.attempts < Attempts
    /\ state' = [st EXCEPT !.inFlight = k, !.attempts = @ + 1]
    /\ legacy' = [legacy EXCEPT ![k] = [at |-> "first", epoch |-> st.epoch, of |-> st.path,
                                        unsupported |-> 0]]
    /\ UNCHANGED <<url, chats, source, opened>>

\* finally: only its own entry is cleared.
Ended(st, k) == [st EXCEPT !.inFlight = IF @ = k THEN NoFallback ELSE @]

\* An answer of one of the two endpoints: "unsupported" for 404 and 410, "refused" for
\* 401 and 403, "useless" for other errors and types, "lost" for aborts and failures.
Answered(k, kind) ==
    LET st == Synced
        l == legacy[k]
        stale == l.epoch # st.epoch
        misses == l.unsupported + (IF kind = "unsupported" THEN 1 ELSE 0)
        over == l.at = "second" \/ stale \/ kind \in {"refused", "lost"}
        disables == ~stale /\ (kind = "refused" \/ (l.at = "second" /\ misses = 2))
    IN
    /\ l.at \in {"first", "second"}
    /\ \/ /\ kind = "json" /\ ~stale
          /\ legacy' = [legacy EXCEPT ![k].at = "json"]
          /\ state' = st
       \/ /\ kind = "json" => stale
          /\ IF over
             THEN /\ legacy' = [legacy EXCEPT ![k] = NoLegacy]
                  /\ state' = [Ended(st, k) EXCEPT !.disabled = @ \/ disables]
             ELSE /\ legacy' = [legacy EXCEPT ![k].at = "second", ![k].unsupported = misses]
                  /\ state' = st
    /\ UNCHANGED <<url, chats, source, opened>>

\* Its body, or a failure to get it.
Body(k, ms) ==
    LET st == Synced IN
    /\ legacy[k].at = "json"
    /\ ms \subseteq {m \in Meta : ChatOf[m] = legacy[k].of}
    /\ state' = [Ended(st, k) EXCEPT !.routes =
                    IF legacy[k].epoch = st.epoch THEN @ \cup ms ELSE @]
    /\ legacy' = [legacy EXCEPT ![k] = NoLegacy]
    /\ UNCHANGED <<url, chats, source, opened>>

Kind == {"unsupported", "refused", "useless", "lost", "json"}

RouteNext ==
    \/ Sync
    \/ \E p \in Path : Navigate(p)
    \/ \E f \in Source :
          \/ Respond(f) \/ Consume(f) \/ Close(f)
          \/ \E c \in Conversation, loads \in BOOLEAN : Fetch(f, c, loads)
          \/ \E ms \in SUBSET Meta, named \in BOOLEAN : Inspect(f, ms, named)
    \/ \E k \in Fallback :
          \/ Begin(k)
          \/ \E kind \in Kind : Answered(k, kind)
          \/ \E ms \in SUBSET Meta : Body(k, ms)

RouteSpec == RouteInit /\ [][RouteNext]_routeVars

-----------------------------------------------------------------------------
\* Chats that were begun in one visit.
Together(c, d) == \E e \in Epoch : {c, d} \subseteq opened[e]

(* Metadata is shown, and kept, only for the Chat it is about, however       *)
(* navigation, streams that create a Chat, loads that precede the change of  *)
(* path, and the fallback interleave (currentEpoch, syncNavigation).         *)
(* Excepted are Chats whose creating messages were sent in one visit to a    *)
(* path without a conversation, of which the script makes one collection.    *)
OwnMetadata ==
    LET About(m, c) == ChatOf[m] = c \/ Together(ChatOf[m], c) IN
    /\ state.path # Home => \A m \in state.routes : About(m, state.path)
    /\ \A i \in 1..Len(state.recent) :
          \A m \in state.recent[i].routes : About(m, state.recent[i].id)

(* What docs/chatgpt-route-indicator.md:57-59 says of the change of path of  *)
(* a new Chat: it "preserves its own stream only" and "cannot adopt an       *)
(* unrelated conversation".  Not so of that exception.                       *)
NothingAdopted == \A m \in state.routes : state.path \in {ChatOf[m], Home}

(* A response is taken during the visit it was requested in, or in the next  *)
(* one if that is to its conversation: never one "from a previous visit to   *)
(* the same conversation or a different destination" (currentEpoch).         *)
TakenInTime ==
    \A f \in Source : LET s == source[f] IN
        /\ s.epoch \in {s.made, s.made + 1}
        /\ s.epoch # s.made /\ s.epoch = state.epoch => state.path = s.of

(* One fallback at a time for the visit at hand: one that was overtaken by a *)
(* navigation does not clear its successor's mark when it ends.              *)
OneFallback ==
    \A j, k \in Fallback :
        /\ legacy[j].at # "off" /\ legacy[k].at # "off"
        /\ legacy[j].epoch = state.epoch /\ legacy[k].epoch = state.epoch
        => j = k

(* An endpoint that refuses or is missing stops the fallback for this visit  *)
(* only: no answer to an earlier visit's request disables it for a Chat that *)
(* nothing was asked about.                                                  *)
DisabledHere == state.disabled => state.attempts > 0

(* The fallback of one visit never meddles with another's.                   *)
FallbackHere == OneFallback /\ DisabledHere
=============================================================================
