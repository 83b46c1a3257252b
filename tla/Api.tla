-------------------------------- MODULE Api --------------------------------
(***************************************************************************)
(* internal/server/api.go: the goroutine of one management request, from   *)
(* the authed wrapper to the end of its handler.  Requests that change     *)
(* nothing but LastUsed (whoami and the listings) are the kind "read".     *)
(*                                                                         *)
(* A request is a record [kind, actor, token, sub, tun]: who makes it, and *)
(* the token, label or tunnel it names.                                    *)
(***************************************************************************)
EXTENDS Registry

CONSTANTS
    Requests,        \* request goroutines
    RequestInputs    \* the requests clients make

NoRequest == [kind |-> "none", actor |-> NoToken, token |-> NoToken,
              sub |-> NoSub, tun |-> NoConn]

Kinds == {"read", "create", "revoke", "delete", "reserve", "release", "kill"}

ASSUME ApiAssumption ==
    /\ RequestInputs \subseteq
          [kind : Kinds, actor : Tokens, token : Tokens \cup {NoToken},
           sub : Subs \cup {NoSub}, tun : Conns \cup {NoConn}]
    /\ \A q \in RequestInputs :
          /\ q.kind \in {"revoke", "delete", "reserve"} => q.token \in Tokens
          /\ q.kind \in {"reserve", "release"} => q.sub \in Subs
          /\ q.kind = "kill" => q.tun \in Conns

VARIABLES
    rpc,      \* [Requests -> RequestPC]
    req,      \* the request each goroutine serves
    record,   \* the token record TouchToken has read and will write back
    todo,     \* tunnels dropTunnelsForToken or kill has still to drop
    cur       \* the tunnel it is closing

apiVars == <<rpc, req, record, todo, cur>>

RequestPC == {"idle", "done", "touch", "touchWrite", "handle", "revokeWrite", "list",
              "drop", "close", "closeListener", "closeSession", "reserve", "release"}

ApiTypeOK ==
    /\ rpc \in [Requests -> RequestPC]
    /\ req \in [Requests -> RequestInputs \cup {NoRequest}]
    /\ record \in [Requests -> TokenStatus]
    /\ todo \in [Requests -> SUBSET Conns]
    /\ cur \in [Requests -> Conns \cup {NoConn}]

ApiInit ==
    /\ rpc = [k \in Requests |-> "idle"]
    /\ req = [k \in Requests |-> NoRequest]
    /\ record = [k \in Requests |-> "unborn"]
    /\ todo = [k \in Requests |-> {}]
    /\ cur = [k \in Requests |-> NoConn]

Step(k, from, to) == rpc[k] = from /\ rpc' = [rpc EXCEPT ![k] = to]

\* Request k is in its handler, which is that of the given kind.
Handles(k, kind) == rpc[k] = "handle" /\ req[k].kind = kind

Actor(k) == req[k].actor

\* The routes of newAPIHandler that demand ScopeAdmin.
AdminOnly(kind) == kind \in {"create", "revoke", "delete"}

-----------------------------------------------------------------------------
(* authed: Authenticate, HasScope, TouchToken.                             *)

\* A request that authed turns away changes nothing.
Authed(k) ==
    /\ Step(k, "idle", "touch")
    /\ \E q \in RequestInputs :
          /\ Active(q.actor)
          /\ AdminOnly(q.kind) => HasAdminScope(q.actor)
          /\ req' = [req EXCEPT ![k] = q]
    /\ UNCHANGED <<record, todo, cur, tunnelVars, registryVars, storeVars>>

TouchActorRead(k) ==
    /\ Step(k, "touch", IF Found(Actor(k)) THEN "touchWrite" ELSE "handle")
    /\ record' = [record EXCEPT ![k] = IF Found(Actor(k)) THEN token[Actor(k)] ELSE @]
    /\ UNCHANGED <<req, todo, cur, tunnelVars, registryVars, storeVars>>

TouchActorWrite(k) ==
    /\ Step(k, "touchWrite", "handle")
    /\ PutToken(Actor(k), record[k])
    /\ record' = [record EXCEPT ![k] = "unborn"]
    /\ UNCHANGED <<req, todo, cur, tunnelVars, registryVars>>

-----------------------------------------------------------------------------
(* Tokens.                                                                 *)

HandleRead(k) ==
    /\ Handles(k, "read")
    /\ Step(k, "handle", "done")
    /\ UNCHANGED <<req, record, todo, cur, tunnelVars, registryVars, storeVars>>

\* Tokens bounds how many are ever minted; past it the model stops minting.
HandleCreateToken(k) ==
    /\ Handles(k, "create")
    /\ Step(k, "handle", "done")
    /\ \/ \E t \in Tokens : CreateToken(t)
       \/ ~(\E t \in Tokens : token[t] = "unborn") /\ UNCHANGED storeVars
    /\ UNCHANGED <<req, record, todo, cur, tunnelVars, registryVars>>

\* RevokeToken, the read: nothing to do for a missing token (404), nothing to
\* write for a revoked one, whose tunnels are dropped again all the same.
HandleRevokeToken(k) ==
    LET t == req[k].token
    IN  /\ Handles(k, "revoke")
        /\ Step(k, "handle",
                IF t = Actor(k) \/ ~Found(t) THEN "done"
                ELSE IF Active(t) THEN "revokeWrite" ELSE "list")
        /\ UNCHANGED <<req, record, todo, cur, tunnelVars, registryVars, storeVars>>

\* RevokeToken, the write.
RevokeWrite(k) ==
    /\ Step(k, "revokeWrite", "list")
    /\ PutToken(req[k].token, "revoked")
    /\ UNCHANGED <<req, record, todo, cur, tunnelVars, registryVars>>

HandleDeleteToken(k) ==
    LET t == req[k].token
    IN  /\ Handles(k, "delete")
        /\ IF t = Actor(k) \/ ~Found(t)
           THEN Step(k, "handle", "done") /\ UNCHANGED storeVars
           ELSE Step(k, "handle", "list") /\ DeleteToken(t)
        /\ UNCHANGED <<req, record, todo, cur, tunnelVars, registryVars>>

-----------------------------------------------------------------------------
(* Dropping tunnels: dropTunnelsForToken, and handleCloseTunnel, which     *)
(* drops one.                                                              *)

ListTunnels(k) ==
    /\ Step(k, "list", "drop")
    /\ todo' = [todo EXCEPT ![k] = List(req[k].token)]
    /\ UNCHANGED <<req, record, cur, tunnelVars, registryVars, storeVars>>

\* byID, then the owner-or-admin test.
HandleCloseTunnel(k) ==
    LET c == req[k].tun
    IN  /\ Handles(k, "kill")
        /\ IF ByID(c) /\ (owner[c] = Actor(k) \/ HasAdminScope(Actor(k)))
           THEN Step(k, "handle", "drop") /\ todo' = [todo EXCEPT ![k] = {c}]
           ELSE Step(k, "handle", "done") /\ UNCHANGED todo
        /\ UNCHANGED <<req, record, cur, tunnelVars, registryVars, storeVars>>

\* registry.remove of the next tunnel.
DropTunnel(k) ==
    \E c \in todo[k] :
        /\ Step(k, "drop", "close")
        /\ Remove(c)
        /\ cur' = [cur EXCEPT ![k] = c]
        /\ todo' = [todo EXCEPT ![k] = @ \ {c}]
        /\ UNCHANGED <<req, record, tunnelVars, storeVars>>

\* Tunnel.Close(reason, true) of that tunnel.
CloseDropped(k) ==
    LET c == cur[k]
    IN  /\ \/ Step(k, "close", "closeListener") /\ CloseBegin(c)
           \/ Step(k, "close", "drop") /\ closed[c] /\ UNCHANGED tunnelVars
           \/ Step(k, "closeListener", "closeSession") /\ CloseListener(c)
           \/ Step(k, "closeSession", "drop") /\ CloseSession(c)
        /\ UNCHANGED <<req, record, todo, cur, registryVars, storeVars>>

DropDone(k) ==
    /\ todo[k] = {}
    /\ Step(k, "drop", "done")
    /\ cur' = [cur EXCEPT ![k] = NoConn]
    /\ UNCHANGED <<req, record, todo, tunnelVars, registryVars, storeVars>>

-----------------------------------------------------------------------------
(* Reservations.                                                           *)

\* A label the operator blocked is refused; only an admin reserves for
\* another token, which must exist by now.
HandleReserve(k) ==
    LET t == req[k].token
    IN  /\ Handles(k, "reserve")
        /\ Step(k, "handle",
                IF /\ req[k].sub \notin BlockedSubs
                   /\ t = Actor(k) \/ (HasAdminScope(Actor(k)) /\ Found(t))
                THEN "reserve" ELSE "done")
        /\ UNCHANGED <<req, record, todo, cur, tunnelVars, registryVars, storeVars>>

ReserveWrite(k) ==
    LET s == req[k].sub
        t == req[k].token
    IN  /\ Step(k, "reserve", "done")
        /\ IF MayReserve(s, t) THEN Reserve(s, t) ELSE UNCHANGED storeVars
        /\ UNCHANGED <<req, record, todo, cur, tunnelVars, registryVars>>

\* The owner test reads the reservation in a transaction of its own.
HandleRelease(k) ==
    LET s == req[k].sub
    IN  /\ Handles(k, "release")
        /\ Step(k, "handle",
                IF resv[s] # NoToken /\ (resv[s] = Actor(k) \/ HasAdminScope(Actor(k)))
                THEN "release" ELSE "done")
        /\ UNCHANGED <<req, record, todo, cur, tunnelVars, registryVars, storeVars>>

ReleaseWrite(k) ==
    /\ Step(k, "release", "done")
    /\ Release(req[k].sub)
    /\ UNCHANGED <<req, record, todo, cur, tunnelVars, registryVars>>

-----------------------------------------------------------------------------
\* What request k does once it has been let in.
HandleStep(k) ==
    \/ TouchActorRead(k) \/ TouchActorWrite(k) \/ HandleRead(k)
    \/ HandleCreateToken(k) \/ HandleRevokeToken(k) \/ RevokeWrite(k)
    \/ HandleDeleteToken(k) \/ HandleCloseTunnel(k)
    \/ ListTunnels(k) \/ DropTunnel(k) \/ CloseDropped(k) \/ DropDone(k)
    \/ HandleReserve(k) \/ ReserveWrite(k)
    \/ HandleRelease(k) \/ ReleaseWrite(k)

RequestStep(k) == Authed(k) \/ HandleStep(k)
=============================================================================
