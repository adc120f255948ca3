--------------------------- MODULE AccessGateway ---------------------------
(***************************************************************************)
(* The agent access tunnel (infra/agent-access-tunnel): pairing, approval  *)
(* and revocation of clients in the gateway's SQLite database, and the     *)
(* bridge on the other side, which pairs once, exchanges its refresh token *)
(* for access tokens, and forwards one MCP message at a time.              *)
(*                                                                         *)
(* Python's sqlite3 opens a transaction at the first write: what is read   *)
(* before is not protected by it, so reads and writes are separate steps.  *)
(* A refresh token is an HMAC of the client id and the device code, so it  *)
(* is the pair of both.  The access token's times are "fresh", "late" (the *)
(* bridge asks for a new one) and "dead".  The bridge keeps forwarding     *)
(* while --pair and --forget-local change its file in other processes.     *)
(* Rate limits, scopes, profiles and HTTP framing are left out.            *)
(***************************************************************************)
EXTENDS Naturals

CONSTANTS
    Pairing,                \* rows of "pairings", by device code
    NoPairing,
    Client, NoClient,       \* rows of "clients"
    Approver                \* runs of the admin command line

ASSUME GatewayAssumption == NoPairing \notin Pairing /\ NoClient \notin Client

VARIABLES
    pairing,    \* status, client_id, whether expires_at has passed
    client,     \* live or revoked, and the pairing that refresh_hash is made from
    approver,   \* the pairing that approve_pairing has read as pending
    poll,       \* what the bridge's pair() waits for with each device code
    file,       \* the client of the credential the bridge has stored
    token,      \* ACCESS: the client and age of the cached access token
    message     \* the message being forwarded

gatewayVars == <<pairing, client, approver, poll, file, token, message>>

PairingRow == [status : {"none", "pending", "approved", "expired"},
               client : Client \cup {NoClient}, over : BOOLEAN]
ClientRow == [state : {"unused", "live", "revoked"}, grant : Pairing \cup {NoPairing}]
Poll == [at : {"off", "waiting", "granting", "storing", "granted"}, client : Client \cup {NoClient}]
Token == [client : Client \cup {NoClient}, age : {"fresh", "late", "dead"}]
\* "upstream" has passed the gateway; "done" covers answers and lost connections.
MessageRow == [at : {"idle", "token", "sent", "unauthorized", "upstream", "answering", "done",
                  "rejected"},
            with : Client \cup {NoClient}, retried : BOOLEAN, executed : 0..2]

NoToken == [client |-> NoClient, age |-> "dead"]
NoMessage == [at |-> "idle", with |-> NoClient, retried |-> FALSE, executed |-> 0]

GatewayTypeOK ==
    /\ pairing \in [Pairing -> PairingRow]
    /\ client \in [Client -> ClientRow]
    /\ approver \in [Approver -> Pairing \cup {NoPairing}]
    /\ poll \in [Pairing -> Poll]
    /\ file \in Client \cup {NoClient}
    /\ token \in Token
    /\ message \in MessageRow

GatewayInit ==
    /\ pairing = [p \in Pairing |-> [status |-> "none", client |-> NoClient, over |-> FALSE]]
    /\ client = [c \in Client |-> [state |-> "unused", grant |-> NoPairing]]
    /\ approver = [a \in Approver |-> NoPairing]
    /\ poll = [p \in Pairing |-> [at |-> "off", client |-> NoClient]]
    /\ file = NoClient
    /\ token = NoToken
    /\ message = NoMessage

-----------------------------------------------------------------------------
\* For mutation runs.
FaultGranted(p, c) == [client[c] EXCEPT !.grant = p, !.state = "live"]

-----------------------------------------------------------------------------
(* Pairing.                                                                  *)
StillPending(p) == pairing[p].status = "pending"

StartPairing(p) ==
    /\ pairing[p].status = "none"
    /\ pairing' = [pairing EXCEPT ![p].status = "pending"]
    /\ poll' = [poll EXCEPT ![p].at = "waiting"]
    /\ UNCHANGED <<client, approver, file, token, message>>

ExpirePairing(p) ==
    /\ pairing[p].status # "none" /\ ~pairing[p].over
    /\ pairing' = [pairing EXCEPT ![p].over = TRUE]
    /\ UNCHANGED <<client, approver, poll, file, token, message>>

\* approve_pairing reads the row.  An expired one changes nothing: the exception
\* rolls its UPDATE back.  An approved one only returns its client.
ApproveRead(a, p) ==
    /\ approver[a] = NoPairing
    /\ StillPending(p) /\ ~pairing[p].over
    /\ approver' = [approver EXCEPT ![a] = p]
    /\ UNCHANGED <<pairing, client, poll, file, token, message>>

\* The transaction: a client is inserted, the pairing is updated if it is pending.
ApproveWrite(a, c) ==
    LET p == approver[a] IN
    /\ p # NoPairing
    /\ client[c].state = "unused"
    /\ client' = [client EXCEPT ![c].state = "live"]
    /\ pairing' = IF StillPending(p)
                  THEN [pairing EXCEPT ![p].status = "approved", ![p].client = c]
                  ELSE pairing
    /\ approver' = [approver EXCEPT ![a] = NoPairing]
    /\ UNCHANGED <<poll, file, token, message>>

Stopped(p) == [poll EXCEPT ![p] = [at |-> "off", client |-> NoClient]]

\* poll_pairing reads the pairing; this UPDATE of an expired one is committed,
\* and the bridge gives up (410).
PollRead(p) ==
    /\ poll[p].at = "waiting"
    /\ \/ /\ pairing[p].over
          /\ pairing' = [pairing EXCEPT ![p].status = "expired"]
          /\ poll' = Stopped(p)
       \/ /\ ~pairing[p].over /\ pairing[p].status = "approved"
          /\ poll' = [poll EXCEPT ![p] = [at |-> "granting", client |-> pairing[p].client]]
          /\ UNCHANGED pairing
    /\ UNCHANGED <<client, approver, file, token, message>>

Granted(p, c) == [client[c] EXCEPT !.grant = p]

\* It reads the client: revoked, without a refresh_hash, or with the right one.
PollClient(p) ==
    LET c == client[poll[p].client] IN
    /\ poll[p].at = "granting"
    /\ c.grant \in {NoPairing, p}
    /\ poll' = IF c.state = "revoked" THEN Stopped(p)
               ELSE [poll EXCEPT ![p].at = IF c.grant = p THEN "granted" ELSE "storing"]
    /\ UNCHANGED <<pairing, client, approver, file, token, message>>

PollStore(p) ==
    LET c == poll[p].client IN
    /\ poll[p].at = "storing"
    /\ poll' = [poll EXCEPT ![p].at = "granted"]
    /\ client' = [client EXCEPT ![c] = Granted(p, c)]
    /\ UNCHANGED <<pairing, approver, file, token, message>>

\* The bridge saves the credential, or never sees the answer.
PollEnd(p, received) ==
    /\ poll[p].at = "granted" \/ (~received /\ poll[p].at # "off")
    /\ file' = IF received THEN poll[p].client ELSE file
    /\ poll' = Stopped(p)
    /\ UNCHANGED <<pairing, client, approver, token, message>>

Revoke(c) ==
    /\ client[c].state = "live"
    /\ client' = [client EXCEPT ![c].state = "revoked"]
    /\ UNCHANGED <<pairing, approver, poll, file, token, message>>

ForgetLocal ==
    /\ file # NoClient
    /\ file' = NoClient
    /\ UNCHANGED <<pairing, client, approver, poll, token, message>>

-----------------------------------------------------------------------------
(* Forwarding.                                                               *)
gateVars == <<pairing, client, approver, poll, file>>

Forward ==
    /\ message.at \in {"idle", "done", "rejected"}
    /\ message' = [NoMessage EXCEPT !.at = "token"]
    /\ UNCHANGED <<gateVars, token>>

\* get_access_token: the cached token, or a new one for the stored credential.
UseCached ==
    /\ message.at = "token" /\ token.client # NoClient /\ token.age = "fresh"
    /\ message' = [message EXCEPT !.at = "sent", !.with = token.client]
    /\ UNCHANGED <<gateVars, token>>

Exchange ==
    LET live == file # NoClient /\ client[file].state = "live" IN
    /\ message.at = "token" /\ (token.client = NoClient \/ token.age # "fresh")
    /\ token' = IF live THEN [client |-> file, age |-> "fresh"] ELSE token
    /\ message' = [message EXCEPT !.at = IF live THEN "sent" ELSE "rejected", !.with = file]
    /\ UNCHANGED gateVars

\* verify_access_token, with the client as it is now.
Verify ==
    LET good == token.age # "dead" /\ client[message.with].state = "live" IN
    /\ message.at = "sent"
    /\ message' = [message EXCEPT !.at = IF good THEN "upstream" ELSE "unauthorized"]
    /\ UNCHANGED <<gateVars, token>>

Execute ==
    /\ message.at = "upstream" /\ message.executed < 2
    /\ message' = [message EXCEPT !.at = "answering", !.executed = @ + 1]
    /\ UNCHANGED <<gateVars, token>>

\* What a lost connection makes of the message: an error, no second try.
Lost == [message EXCEPT !.at = "done"]

\* The answer arrives, or some connection on the way is lost.  While a token is asked
\* for, a limit or a fault of the gateway ends the message too: get_access_token words
\* any answer but 200 like a credential that was rejected.
Finish ==
    /\ \/ message.at = "answering" /\ message' = [message EXCEPT !.at = "done"]
       \/ message.at \in {"token", "sent", "upstream", "answering"} /\ message' = Lost
    /\ UNCHANGED <<gateVars, token>>

After401 == NoToken
Retriable == ~message.retried

\* A 401 drops the cached token and is tried once more.
Unauthorized ==
    /\ message.at = "unauthorized"
    /\ token' = IF Retriable THEN After401 ELSE token
    /\ message' = IF Retriable
                  THEN [message EXCEPT !.at = "token", !.retried = TRUE]
                  ELSE [message EXCEPT !.at = "rejected"]
    /\ UNCHANGED gateVars

\* An access token lives for 900 s: one that was issued for a retry outlives it.
Age ==
    /\ token.age # "dead" /\ ~message.retried
    /\ token' = [token EXCEPT !.age = IF @ = "fresh" THEN "late" ELSE "dead"]
    /\ UNCHANGED <<gateVars, message>>

PairingNext ==
    \/ \E p \in Pairing :
          \/ StartPairing(p) \/ ExpirePairing(p) \/ PollRead(p)
          \/ PollClient(p) \/ PollStore(p)
          \/ \E received \in BOOLEAN : PollEnd(p, received)
          \/ \E a \in Approver : ApproveRead(a, p)
    \/ \E c \in Client : Revoke(c) \/ \E a \in Approver : ApproveWrite(a, c)
    \/ ForgetLocal

ForwardNext ==
    Forward \/ UseCached \/ Exchange \/ Verify \/ Execute \/ Finish \/ Unauthorized \/ Age

GatewayNext == PairingNext \/ ForwardNext

GatewaySpec == GatewayInit /\ [][GatewayNext]_gatewayVars

-----------------------------------------------------------------------------
(* A pairing grants one client, the one it names: when two approvals race,   *)
(* the client that the second one creates never gets a credential (the       *)
(* condition of the UPDATE in approve_pairing).                              *)
OneGrantPerPairing ==
    \A c \in Client :
        /\ client[c].grant # NoPairing => pairing[client[c].grant].client = c
        /\ file = c => client[c].grant # NoPairing

(* However polls and revocations interleave, a revoked client stays revoked  *)
(* (poll_pairing writes to a client that it has read before).                *)
RevokedStays ==
    [][\A c \in Client :
          client[c].state = "revoked" => client'[c].state = "revoked"]_gatewayVars

(* A message is executed once at most, although forward() tries again: only  *)
(* a 401 is retried, and the gateway gives it before anything is forwarded.  *)
ExecutedOnce == message.executed <= 1

(* The gateway refuses a message for its credential only when that is        *)
(* missing or was revoked: an access token that grew old on the way costs a  *)
(* retry, not the message (forward, issue_access_token).  What the bridge    *)
(* tells its user is less exact, see Finish.                                 *)
RejectedMeansRevoked ==
    message.at = "rejected" =>
        message.with = NoClient \/ client[message.with].state = "revoked"

(* What the tunnel promises: one grant for a pairing, one execution of a     *)
(* message, no refusal of a client in good standing, and no way back for a   *)
(* revoked one.                                                              *)
GatewaySafe == OneGrantPerPairing /\ ExecutedOnce /\ RejectedMeansRevoked
GatewayPromise == []GatewaySafe /\ RevokedStays
=============================================================================
