--------------------------- MODULE ProxyConnList ---------------------------
(* The proxy channel's list of physical connections, and the connection      *)
(* layer under it, for one peer and the client side.                         *)
(*                                                                           *)
(* g_proxyConnectionList (softbus_proxychannel_transceiver.c) keeps one item *)
(* per peer and side: TransAddConnItem refuses a second one.  conn is that   *)
(* item.  A connecting item is known by the request that asked for it, a     *)
(* connected one by its connection id; ref counts the channels on it.        *)
(*                                                                           *)
(* links is the connection layer as this code sees it, for a connection type *)
(* that counts references: BR (softbus_conn_br_manager.c), and BLE likewise. *)
(* There ConnConnectDevice joins the link that is up or makes one, and takes *)
(* one reference on it; ConnDisconnectDevice gives one back.  held is what   *)
(* the proxy has taken less what it has asked to give back: the manager      *)
(* applies a request to give back in its looper (BrManager), which this code *)
(* does not see.  Other modules hold references of their own on the same     *)
(* link, so held may be zero on a link that is still up, and below zero      *)
(* means that one of theirs was given back.  TCP is not covered: it makes a  *)
(* socket per request and closes it at the first ConnDisconnectDevice.       *)
EXTENDS Integers, Sequences, FiniteSets

CONSTANTS
    Requests,       \* request ids of ConnConnectDevice
    None            \* no request

VARIABLES
    conn,           \* the item: [state, reqId, connId, ref]
    attempts,       \* requests the connection layer has accepted and not answered
    links,          \* connection id -> [up, held]
    downs           \* links that went down, their callback not yet delivered

connVars == <<conn, attempts, links, downs>>

NoConn == [state |-> "none", reqId |-> None, connId |-> 0, ref |-> 0]

ConnIds == 1 .. Len(links)

ConnTypeOK ==
    /\ conn \in [state: {"none", "connecting", "connected"}, reqId: Requests \cup {None},
                 connId: Nat, ref: Nat]
    /\ attempts \subseteq Requests
    /\ links \in Seq([up: BOOLEAN, held: Int])
    /\ downs \subseteq Nat

ConnInit ==
    /\ conn = NoConn
    /\ attempts = {}
    /\ links = <<>>
    /\ downs = {}

-----------------------------------------------------------------------------
(* The list                                                                  *)

\* The item that answers for a connection id.
HasConn(k) == conn.state = "connected" /\ conn.connId = k

\* TransAddConnItem, of a new request.
ConnectingItem(r) == [state |-> "connecting", reqId |-> r, connId |-> 0, ref |-> 0]

\* TransDelConnByReqId: only an item that is still connecting.
WithoutRequests(R) ==
    IF conn.state = "connecting" /\ conn.reqId \in R THEN NoConn ELSE conn

\* TransDelConnByConnId
WithoutConn(k) == IF HasConn(k) THEN NoConn ELSE conn

\* TransAddConnRefByConnId, n times: an item that is not there is an error,
\* reported by the caller's HasConn.
WithRefs(k, n) == IF HasConn(k) THEN [conn EXCEPT !.ref = @ + n] ELSE conn

\* Mutant: the last reference but one is taken for the last.
LastRefEarly(k) == k # 0 /\ (HasConn(k) => conn.ref <= 2)

\* TransDecConnRefByConnId answers SOFTBUS_OK when the last reference went,
\* and also when there is no such item; connection id 0 is refused.
LastRef(k) == k # 0 /\ (HasConn(k) => conn.ref <= 1)

WithoutRef(k) ==
    IF k = 0 \/ ~HasConn(k) THEN conn
    ELSE IF LastRef(k) THEN NoConn
    ELSE [conn EXCEPT !.ref = @ - 1]

-----------------------------------------------------------------------------
(* The connection layer                                                      *)

\* ConnDisconnectDevice, BrDisconnectDevice: one reference back; a link that is
\* down is not found.
Released(ls, k) ==
    IF k # 0 /\ ls[k].up THEN [ls EXCEPT ![k].held = @ - 1] ELSE ls

\* TransProxyCloseConnChannel, and TransProxyCloseConnChannelReset and
\* TransProxyResetAndCloseConn of a client: give the channel's reference
\* back, and the link with the last one.
CloseConn(k) ==
    /\ conn' = WithoutRef(k)
    /\ links' = IF LastRef(k) THEN Released(links, k) ELSE links

\* Connection id and links of a request that succeeds: the link that is up
\* (BrReuseConnection), or a new one, whose count starts at 1.
UpLinks == {k \in ConnIds : links[k].up}

GrantedId == IF UpLinks # {} THEN CHOOSE k \in UpLinks : TRUE ELSE Len(links) + 1

Granted ==
    IF UpLinks # {}
    THEN [links EXCEPT ![GrantedId].held = @ + 1]
    ELSE Append(links, [up |-> TRUE, held |-> 1])

\* A link goes down (ConnectionException): its users are called back later.
LinkDown(k) ==
    /\ links[k].up
    /\ links' = [links EXCEPT ![k].up = FALSE]
    /\ downs' = downs \cup {k}
    /\ UNCHANGED <<conn, attempts>>
=============================================================================
