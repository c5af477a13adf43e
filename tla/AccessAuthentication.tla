------------------------ MODULE AccessAuthentication ------------------------
(***************************************************************************)
(* Authentication of a request by its access token                         *)
(* (internal/session/revocation.go): the token's signature and expiry, the *)
(* shared status entry in Redis, then PostgreSQL, then the write-back of   *)
(* the status.  Any number of requests carry tokens of the same session.   *)
(* Sessions are issued and ended as SessionAccess says, which              *)
(* SessionLifecycle implements.                                            *)
(***************************************************************************)
CONSTANTS Session, Request

VARIABLES
    access,   \* SessionAccess: what PostgreSQL says of each session
    lapsed,   \* the sessions ended by reaching expires_at, not by a revocation
    token,    \* per session: access token not signed yet, valid or expired
    cache,    \* per session: the status entry in Redis, or "none"
    req       \* per request: its place in Authenticate

accessVars == <<access, lapsed, token, cache, req>>

Db == INSTANCE SessionAccess

\* late: the session had ended when the request arrived; active: PostgreSQL's
\* answer.
RequestState == [pc : {"idle", "readCache", "check", "writeCache", "granted", "refused"},
                 session : Session, late : BOOLEAN, active : BOOLEAN]

AccessTypeOK ==
    /\ access \in [Session -> {"unissued", "active", "ended"}]
    /\ lapsed \subseteq Session
    /\ token \in [Session -> {"none", "valid", "expired"}]
    /\ cache \in [Session -> {"none", "active", "revoked"}]
    /\ req \in [Request -> RequestState]

AccessInit ==
    /\ Db!Init /\ lapsed = {}
    /\ token = [s \in Session |-> "none"]
    /\ cache = [s \in Session |-> "none"]
    /\ req \in [Request -> {[pc |-> "idle", session |-> s, late |-> FALSE, active |-> FALSE] :
                            s \in Session}]

(***************************************************************************)
(* Authenticate.                                                           *)
(***************************************************************************)
\* A token is signed once the transaction that issues its session has
\* committed, however long afterwards.
SignToken(s) ==
    /\ access[s] # "unissued" /\ token[s] = "none"
    /\ token' = [token EXCEPT ![s] = "valid"]
    /\ UNCHANGED <<access, lapsed, cache, req>>

\* Verify and the comparison of the claims' expiry with the request's now; a
\* token that fails either is answered without touching a store.
VerifyToken(r, s) ==
    /\ req[r].pc = "idle" /\ token[s] = "valid"
    /\ req' = [req EXCEPT ![r] = [pc |-> "readCache", session |-> s,
                                  late |-> access[s] = "ended", active |-> FALSE]]
    /\ UNCHANGED <<access, lapsed, token, cache>>

\* A cached active entry taken as sufficient.
ReadCacheTrusting(r) ==
    /\ req[r].pc = "readCache"
    /\ req' = [req EXCEPT ![r].pc = CASE cache[req[r].session] = "revoked" -> "refused"
                                      [] cache[req[r].session] = "active" -> "granted"
                                      [] OTHER -> "check"]
    /\ UNCHANGED <<access, lapsed, token, cache>>

ReadCache(r) ==
    /\ req[r].pc = "readCache"
    /\ req' = [req EXCEPT ![r].pc =
                 IF cache[req[r].session] = "revoked" THEN "refused" ELSE "check"]
    /\ UNCHANGED <<access, lapsed, token, cache>>

\* AccessActive compares expires_at with the time the request arrived, so a
\* session that has lapsed since then still counts as active.
AccessActive(r) ==
    \/ access[req[r].session] = "active"
    \/ req[r].session \in lapsed /\ ~req[r].late

CheckDatabase(r) ==
    /\ req[r].pc = "check"
    /\ req' = [req EXCEPT ![r].pc = "writeCache", ![r].active = AccessActive(r)]
    /\ UNCHANGED <<access, lapsed, token, cache>>

StatusOf(r) == IF req[r].active THEN "active" ELSE "revoked"

WriteCache(r) ==
    /\ req[r].pc = "writeCache"
    /\ cache' = [cache EXCEPT ![req[r].session] = StatusOf(r)]
    /\ req' = [req EXCEPT ![r].pc = IF req[r].active THEN "granted" ELSE "refused"]
    /\ UNCHANGED <<access, lapsed, token>>

\* An error of Redis or PostgreSQL refuses the request; a write whose reply is
\* lost may have happened.
Unavailable(r) ==
    /\ req[r].pc \in {"readCache", "check", "writeCache"}
    /\ req' = [req EXCEPT ![r].pc = "refused"]
    /\ \/ UNCHANGED cache
       \/ /\ req[r].pc = "writeCache"
          /\ cache' = [cache EXCEPT ![req[r].session] = StatusOf(r)]
    /\ UNCHANGED <<access, lapsed, token>>

\* The handler has answered; the same handler may serve another request.
Answer(r) ==
    /\ req[r].pc \in {"granted", "refused"}
    /\ req' = [req EXCEPT ![r].pc = "idle"]
    /\ UNCHANGED <<access, lapsed, token, cache>>

(***************************************************************************)
(* The surroundings: sessions come and go, tokens and cache entries age.   *)
(***************************************************************************)
SessionStep ==
    /\ Db!Next
    /\ \E S \in SUBSET {s \in Session : access[s] = "active" /\ access'[s] = "ended"} :
         lapsed' = lapsed \cup S
    /\ UNCHANGED <<token, cache, req>>

\* A revocation also reaches a session that has lapsed.
RevokeLapsed(s) ==
    /\ s \in lapsed
    /\ lapsed' = lapsed \ {s}
    /\ UNCHANGED <<access, token, cache, req>>

ExpireToken(s) ==
    /\ token[s] = "valid"
    /\ token' = [token EXCEPT ![s] = "expired"]
    /\ UNCHANGED <<access, lapsed, cache, req>>

\* The entry's time to live, or a restart of Redis.
DropEntry(s) ==
    /\ cache[s] # "none"
    /\ cache' = [cache EXCEPT ![s] = "none"]
    /\ UNCHANGED <<access, lapsed, token, req>>

AccessNext ==
    \/ \E r \in Request :
         \/ \E s \in Session : VerifyToken(r, s)
         \/ ReadCache(r) \/ CheckDatabase(r) \/ WriteCache(r) \/ Unavailable(r) \/ Answer(r)
    \/ SessionStep
    \/ \E s \in Session : SignToken(s) \/ RevokeLapsed(s) \/ ExpireToken(s) \/ DropEntry(s)

AccessSpec == AccessInit /\ [][AccessNext]_accessVars

(***************************************************************************)
(* Properties.                                                             *)
(***************************************************************************)
\* Revocation takes effect immediately: a request that arrives after its
\* session has ended is never granted, whatever older requests have left in
\* Redis and however late they write it (Authenticate asks PostgreSQL although
\* the entry says active).
EndedSessionsAreRefused == \A r \in Request : req[r].pc = "granted" => ~req[r].late

\* The fail-closed view is truthful: Redis says revoked only of a session that
\* has ended, so no outage or race locks a live session out.
CachedRevocationIsReal == \A s \in Session : cache[s] = "revoked" => access[s] = "ended"

\* The view is terminal, as the comment in Authenticate has it: a request never
\* overwrites revoked with active.  The code does not keep this (README.md,
\* "Refuted statements"); access is refused all the same.
RevokedViewIsTerminal ==
    [][\A s \in Session : cache[s] = "revoked" => cache'[s] # "active"]_accessVars
=============================================================================
