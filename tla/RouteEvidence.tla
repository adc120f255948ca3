---------------------------- MODULE RouteEvidence ----------------------------
(***************************************************************************)
(* What the userscript (userscripts/chatgpt-route-indicator.user.js) says   *)
(* of the model behind a reply: the metadata records ("routes") that it has *)
(* merged by key, and the rules by which a reply on the page, known by its  *)
(* message, by its turn only, or by a list of messages, gets a model from   *)
(* them (routeForIdentity, routeForMessageSet).                             *)
(*                                                                          *)
(* A route keeps its message, turn, role and model; the time of a message   *)
(* is that of the message.  The other fields are merged the same way and    *)
(* are left out, as are labels and the search of the page for replies.      *)
(***************************************************************************)
EXTENDS Naturals, FiniteSets

CONSTANTS
    Message, Turn, Model,
    None,               \* a field that is null
    Canonical,          \* canonicalModel, as a function
    TimeOf              \* create_time of each message, and of a record without one

ASSUME EvidenceAssumption ==
    /\ None \notin Message \cup Turn \cup Model \cup {"assistant", "other"}
    /\ Message \cap Turn = {}
    /\ Canonical \in [Model -> Model]
    /\ TimeOf \in [Message \cup {None} -> Nat]

VARIABLES
    known,      \* state.routes: a route, or nothing, for each key
    named       \* History: the model that was last recorded for each key

evidenceVars == <<known, named>>

Role == {"assistant", "other"}
Key == Message \cup Turn
Route == [message : Message \cup {None}, turn : Turn \cup {None},
          role : Role \cup {None}, actual : Model \cup {None}]
NoRoute == [message |-> None, turn |-> None, role |-> None, actual |-> None]
\* As in collectRoutes: a node by its id or by its turn.
Collected == {r \in Route : r.message # None \/ r.turn # None}

EvidenceTypeOK ==
    /\ known \in [Key -> Route]
    /\ named \in [Key -> Model \cup {None}]

EvidenceInit ==
    /\ known = [k \in Key |-> NoRoute]
    /\ named = [k \in Key |-> None]

-----------------------------------------------------------------------------
\* For mutation runs.
FaultRouteKey(r) == IF r.turn # None THEN r.turn ELSE r.message

-----------------------------------------------------------------------------
Or(next, previous) == IF next # None THEN next ELSE previous

Merge(previous, next) ==
    [message |-> Or(next.message, previous.message), turn |-> Or(next.turn, previous.turn),
     role |-> Or(next.role, previous.role), actual |-> Or(next.actual, previous.actual)]

\* The message first: one turn has reasoning and final nodes with different models.
RouteKey(r) == IF r.message # None THEN r.message ELSE r.turn

\* rememberRoutes.
RememberRoute(r) ==
    /\ known' = [known EXCEPT ![RouteKey(r)] = Merge(@, r)]
    /\ named' = LET k == IF r.message # None THEN r.message ELSE r.turn
                IN  [named EXCEPT ![k] = IF r.actual # None THEN r.actual ELSE @]

Routes == {known[k] : k \in {l \in Key : known[l] # NoRoute}}
IsAssistant(r) == r # NoRoute /\ r.role \in {None, "assistant"}
Peers(turn) == {r \in Routes : IsAssistant(r) /\ r.actual # None /\ r.turn = turn}

\* Whether the models of an exchange leave no choice.
Unambiguous(peers) == Cardinality({Canonical[r.actual] : r \in peers}) = 1

\* The sort by create_time is stable: among equals any may come last.
LatestOf(peers) == {r \in peers : \A s \in peers : TimeOf[s.message] <= TimeOf[r.message]}

\* The record of a reply: its message's, else its turn's.
Exact(message, turn) ==
    LET byMessage == IF message # None THEN known[message] ELSE NoRoute
        byTurn == IF turn # None THEN known[turn] ELSE NoRoute
        first == IF byMessage # NoRoute THEN byMessage ELSE byTurn
    IN  IF IsAssistant(first) THEN first ELSE NoRoute

\* routeForIdentity: the models that may be shown for a reply with these ids and
\* this model in the page (slug), None for "unknown".
Shown(message, turn, slug) ==
    LET exact == Exact(message, turn)
        dom == IF slug = None THEN NoRoute
               ELSE [message |-> message, turn |-> turn, role |-> None, actual |-> slug]
        own == IF exact = NoRoute THEN dom
               ELSE IF dom = NoRoute THEN exact ELSE Merge(dom, exact)
        siblings(t) == {r.actual : r \in LatestOf(Peers(t))}
    IN  IF own.actual # None THEN {own.actual}
        ELSE IF own # NoRoute /\ own.turn # None /\ Peers(own.turn) # {} THEN siblings(own.turn)
        ELSE IF own = NoRoute /\ turn # None /\ Unambiguous(Peers(turn)) THEN siblings(turn)
        ELSE {None}

\* routeForMessageSet: the model shown for a reply that lists several messages.
Members(ids) == {known[m] : m \in {n \in ids : known[n].role = "assistant"}}
Complete(ids, members) ==
    /\ members # {}
    /\ \A r \in members : r.actual # None
    /\ \A m \in ids : known[m].role # None
ShownForSet(ids) ==
    LET models == {Canonical[r.actual] : r \in Members(ids)} IN
    IF Complete(ids, Members(ids)) /\ Cardinality(models) = 1
    THEN CHOOSE x \in models : TRUE ELSE None

EvidenceNext == \E r \in Collected : RememberRoute(r)

EvidenceSpec == EvidenceInit /\ [][EvidenceNext]_evidenceVars

-----------------------------------------------------------------------------
(* A model is shown for a reply only if it was recorded last for its message *)
(* or its turn, or for an assistant's message of that turn: never by         *)
(* position, nor because it is the latest of all, nor from a tool's node.    *)
ShownIsEvidence ==
    \A message \in Message, turn \in Turn \cup {None} :
        \A x \in Shown(message, turn, None) \ {None} :
            \E k \in Key :
                /\ named[k] = x /\ known[k].role # "other"
                /\ k \in {message, turn} \/ known[k].turn \in {turn, known[message].turn} \ {None}

(* What was last recorded of a message is shown for it, whatever the page    *)
(* says, other phases of its turn recorded, or later records leave out       *)
(* (routeKey: "the final visible response cannot be overwritten by another   *)
(* phase").                                                                  *)
OwnEvidenceWins ==
    \A message \in Message, turn \in Turn \cup {None}, slug \in Model \cup {None} :
        named[message] # None /\ known[message].role # "other" =>
            Shown(message, turn, slug) = {named[message]}

(* A wrapper that only names a turn gets a model if all that is known of the *)
(* turn agrees on it: "only when concrete assistant evidence in that exchange *)
(* is unambiguous".                                                          *)
WrapperUnambiguous ==
    \A turn \in Turn :
        \A x \in Shown(None, turn, None) \ {None} :
            known[turn] = NoRoute =>
                \A k \in Key : known[k].turn = turn /\ known[k].role # "other" /\ named[k] # None
                                => Canonical[named[k]] = Canonical[x]

(* One model is shown for a list of messages only when each of them is known *)
(* and each that is an assistant's has that model (routeForMessageSet).      *)
SetComplete ==
    \A ids \in SUBSET Message : LET x == ShownForSet(ids) IN
        x # None =>
            \A m \in ids :
                /\ known[m].role # None
                /\ known[m].role = "assistant" => named[m] # None /\ Canonical[named[m]] = x

(* No reply is labelled with a model that nothing supports, or against what  *)
(* was recorded of it: the four rules together.                              *)
EvidenceSafe == ShownIsEvidence /\ OwnEvidenceWins /\ WrapperUnambiguous /\ SetComplete
=============================================================================
