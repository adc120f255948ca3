-------------------------- MODULE CallbackNetwork --------------------------
(***************************************************************************)
(* One signed POST to a callback (pinnedHttpsPost of src/event-network.ts): *)
(* the host is resolved, by the system or by two DNS queries through the   *)
(* operator's proxy; all addresses must be public; they are tried one      *)
(* after the other until TLS is established with one; and only then is     *)
(* anything sent.  One timeout runs over all of it, another one over each  *)
(* attempt to connect.                                                     *)
(*                                                                         *)
(* Left out: URLs, headers, the patterns of NO_PROXY (whether a callback   *)
(* goes through the proxy is chosen freely), certificates (they are good   *)
(* or the handshake fails), the bytes of the answer, and the requests that *)
(* carry the DNS queries: they answer or fail.                             *)
(***************************************************************************)
EXTENDS Naturals

CONSTANTS
    Address,    \* IP addresses
    Public,     \* those isPublicAddress accepts
    NoAddress

ASSUME NetworkAssumption == Public \subseteq Address /\ NoAddress \notin Address

VARIABLES
    post,       \* the locals of pinnedHttpsPost and of what it calls
    sockets,    \* what connectTls and exchange hold open
    \* History.
    posted      \* how often the body was handed to a connection

networkVars == <<post, sockets, posted>>

Query == {"A", "AAAA", "lookup"}
Connecting == {"tunnel", "tls"}
PostRecord ==
    [at : {"off", "resolving", "next", "secured", "exchanging", "done"} \cup Connecting,
     proxied : BOOLEAN,                     \* callbackProxy
     asked : SUBSET Query,                  \* queries without an answer yet
     left : SUBSET Address,                 \* addresses found, or not tried yet
     target : Address \cup {NoAddress},
     expired : BOOLEAN,                     \* the signal over the whole POST
     outcome : {"none", "response", "refused", "unreached", "failed", "timeout"}]

NetworkTypeOK ==
    /\ post \in PostRecord
    /\ sockets \subseteq {"raw", "tls"}
    /\ posted \in Nat

NoPost == [at |-> "off", proxied |-> FALSE, asked |-> {}, left |-> {}, target |-> NoAddress,
           expired |-> FALSE, outcome |-> "none"]

NetworkInit == post = NoPost /\ sockets = {} /\ posted = 0

-----------------------------------------------------------------------------
\* For mutation runs.
FaultAfterExchange == IF post.left = {} THEN [post EXCEPT !.at = "done", !.outcome = "unreached"]
                      ELSE [post EXCEPT !.at = "next"]
FaultAlive == TRUE

-----------------------------------------------------------------------------
Over(why) == [post EXCEPT !.at = "done", !.outcome = why]

\* throwIfAborted, or the listener on abort.
Alive == ~post.expired

\* resolvePublicCallback takes the answer as a whole.
Acceptable(found) == found # {} /\ found \subseteq Public

Resolved(found) ==
    IF Acceptable(found) THEN [post EXCEPT !.at = "next", !.asked = {}, !.left = found]
    ELSE Over("refused")

\* A host name is resolved; an address is not.  URLs and proxies that are not valid
\* are refused at once.
BeginNamed(proxied) ==
    /\ post.at = "off"
    /\ post' = [post EXCEPT !.at = "resolving", !.proxied = proxied,
                            !.asked = IF proxied THEN {"A", "AAAA"} ELSE {"lookup"}]
    /\ UNCHANGED <<sockets, posted>>

BeginLiteral(proxied, a) ==
    /\ post.at = "off"
    /\ post' = [Resolved({a}) EXCEPT !.proxied = proxied]
    /\ UNCHANGED <<sockets, posted>>

BeginInvalid == post.at = "off" /\ post' = Over("refused") /\ UNCHANGED <<sockets, posted>>

\* resolveProxyDns waits for both answers; what comes after the timeout is ignored.
DnsAnswers(q, found) ==
    /\ post.at = "resolving" /\ q \in post.asked /\ Alive
    /\ post' = IF post.asked = {q} THEN Resolved(post.left \cup found)
               ELSE [post EXCEPT !.asked = @ \ {q}, !.left = @ \cup found]
    /\ UNCHANGED <<sockets, posted>>

\* One query that fails fails them all.
QueryFails ==
    /\ post.at = "resolving"
    /\ post' = Over("failed")
    /\ UNCHANGED <<sockets, posted>>

\* tryValidatedAddresses goes on to another address: connectTls opens a tunnel first
\* when there is a proxy.
Attempt(a) ==
    /\ post.at = "next" /\ a \in post.left /\ Alive
    /\ post' = [post EXCEPT !.at = IF post.proxied THEN "tunnel" ELSE "tls",
                            !.target = a, !.left = @ \ {a}]
    /\ sockets' = IF post.proxied THEN {"raw"} ELSE {"tls"}
    /\ UNCHANGED posted

\* The proxy answers CONNECT with 200 and nothing else.
Tunnelled ==
    /\ post.at = "tunnel" /\ Alive
    /\ post' = [post EXCEPT !.at = "tls"]
    /\ sockets' = sockets \cup {"tls"}
    /\ UNCHANGED posted

\* secureConnect, with a certificate for the callback's own name.
Secured ==
    /\ post.at = "tls" /\ Alive
    /\ post' = [post EXCEPT !.at = "secured"]
    /\ UNCHANGED <<sockets, posted>>

\* No connection in time, refused, unreachable, or 502 or 504 from the proxy: the
\* next address.  Anything else that fails, and the timeout, ends the POST.
ConnectFails(unreachable) ==
    /\ post.at \in Connecting
    /\ post' = IF ~unreachable \/ post.expired THEN Over("failed")
               ELSE IF post.left = {} THEN Over("unreached")
               ELSE [post EXCEPT !.at = "next"]
    /\ sockets' = {}
    /\ UNCHANGED posted

\* exchange writes the headers and the body.
SendBody ==
    /\ post.at = "secured" /\ Alive
    /\ post' = [post EXCEPT !.at = "exchanging"]
    /\ posted' = posted + 1
    /\ UNCHANGED sockets

Responded ==
    /\ post.at = "exchanging" /\ Alive
    /\ post' = Over("response")
    /\ sockets' = {}
    /\ UNCHANGED posted

\* An error after the handshake, or an answer that is too large, is final.
AfterExchange == Over("failed")

ExchangeFails ==
    /\ post.at = "exchanging"
    /\ post' = AfterExchange
    /\ sockets' = {}
    /\ UNCHANGED posted

\* The timeout over all of it passes,
Expire ==
    /\ post.at \notin {"off", "done"} /\ ~post.expired
    /\ post' = [post EXCEPT !.expired = TRUE]
    /\ UNCHANGED <<sockets, posted>>

\* and is noticed.
TimesOut ==
    /\ post.at \notin {"off", "done"} /\ post.expired
    /\ post' = Over("timeout")
    /\ sockets' = {}
    /\ UNCHANGED posted

NetworkNext ==
    \/ \E proxied \in BOOLEAN : BeginNamed(proxied) \/ \E a \in Address : BeginLiteral(proxied, a)
    \/ BeginInvalid
    \/ \E q \in Query, found \in SUBSET Address : DnsAnswers(q, found)
    \/ QueryFails
    \/ \E a \in Address : Attempt(a)
    \/ Tunnelled \/ Secured
    \/ \E unreachable \in BOOLEAN : ConnectFails(unreachable)
    \/ SendBody \/ Responded \/ ExchangeFails \/ Expire \/ TimesOut

NetworkSpec == NetworkInit /\ [][NetworkNext]_networkVars

-----------------------------------------------------------------------------
(* However many addresses are tried, the body is sent at most once, and a    *)
(* POST that gives up for want of a connection has sent nothing ("Post-      *)
(* handshake errors are never converted into pre-connection retry errors",   *)
(* exchange): what the outbox repeats is at most one delivery per attempt.   *)
SentOnce ==
    /\ posted <= 1
    /\ post.outcome = "unreached" => posted = 0
    /\ post.outcome = "response" => posted = 1

(* Nobody is connected to but public addresses, also when an answer is mixed *)
(* or comes in two parts (resolvePublicCallback, resolveProxyDns).           *)
OnlyPublic == post.target \in Public \cup {NoAddress}

(* Whichever way a POST ends, no socket of it stays open (the catch of       *)
(* connectTls, the finally of exchange).                                     *)
SocketsClosed == post.at \in {"next", "done"} => sockets = {}

(* When its time is up a POST neither connects to anybody else nor sends.    *)
SilentOnceExpired ==
    [][post.expired => posted' = posted /\ post'.target = post.target]_networkVars
=============================================================================
