------------------------------ MODULE Sessions ------------------------------
(***************************************************************************)
(* Browser logins: the authorization code flow with its one-time state,    *)
(* the session rows behind the signed cookie, logout from either side, and *)
(* the LDAP login with its cache (server/auth, auth_logout, auth_ldap,     *)
(* ldapauth/connector, registry/enterprise_sqlite).                        *)
(*                                                                         *)
(* A session token is its subject and the second it was signed in: two     *)
(* logins of one second give one token. The clock counts such seconds; a   *)
(* request that binds at the directory ends within the second it began.    *)
(* The identity provider and the directory are external.                   *)
(***************************************************************************)
EXTENDS Naturals

CONSTANTS
    LoginStates,   \* random state parameters
    Subs,          \* subjects at the identity provider
    LdapUsers,     \* directory users
    Callbacks,     \* callback requests in flight at once
    SessionTTL, CacheTTL, MaxSecond   \* seconds; MaxSecond bounds the clock

ASSUME SessionsAssumption == SessionTTL \in Nat /\ CacheTTL \in Nat /\ MaxSecond \in Nat

NoCallback == [at |-> "none"]

VARIABLES
    second,     \* the clock
    pkce,       \* pkce_state: none, stored, memory (the fallback nothing reads) or used
    exchanges,  \* history: code exchanges a state led to, and lost commits
    cb,         \* callbacks in flight
    rows,       \* oidc_sessions: set of [tok, sub, revoked]
    cookies,    \* tokens browsers were given
    out,        \* history: tokens logged out and not issued again since
    bound,      \* directory: does the password bind?
    boundOff,   \* history: when it stopped to
    ldapCache,  \* Connector.cache: second an entry expires at, or NoEntry
    ldapReq     \* users whose login missed the cache and is at the directory

sessionVars == <<second, pkce, exchanges, cb, rows, cookies, out, bound, boundOff, ldapCache, ldapReq>>

NoEntry == MaxSecond + CacheTTL + 1

Token(who) == [who |-> who, exp |-> second + SessionTTL]

SessionsInit ==
    /\ second = 0
    /\ pkce = [s \in LoginStates |-> "none"]
    /\ exchanges = [s \in LoginStates |-> [done |-> 0, lost |-> 0]]
    /\ cb = [c \in Callbacks |-> NoCallback]
    /\ rows = {} /\ cookies = {} /\ out = {}
    /\ bound = [u \in LdapUsers |-> TRUE]
    /\ boundOff = [u \in LdapUsers |-> 0]
    /\ ldapCache = [u \in LdapUsers |-> NoEntry]
    /\ ldapReq = {}

flowVars == <<pkce, exchanges, cb>>
ldapVars == <<bound, boundOff, ldapCache, ldapReq>>

(***************************************************************************)
(* The session rows                                                        *)
(***************************************************************************)

\* INSERT OR REPLACE with revoked=0.
CreateOIDCSession(tok, sub) ==
    /\ rows' = {r \in rows : r.tok # tok} \cup {[tok |-> tok, sub |-> sub, revoked |-> FALSE]}
    /\ out' = out \ {tok}

GetOIDCSession(tok) == \E r \in rows : r.tok = tok /\ ~r.revoked

Revoke(revoked) == rows' = (rows \ revoked) \cup {[r EXCEPT !.revoked = TRUE] : r \in revoked}

RevokeOIDCSessionByTokenHash(tok) == Revoke({r \in rows : r.tok = tok})
RevokeOIDCSessionsBySubject(sub) == Revoke({r \in rows : r.sub = sub})

verifySession(tok) == second <= tok.exp

\* Mutant: a cookie without a row is a session of a node that could not store one.
SessionAcceptedUnstored(tok) ==
    verifySession(tok) /\ ~\E r \in rows : r.tok = tok /\ r.revoked

\* oidcMiddleware for a cookie: the signature and expiry, then the row; a row that is
\* not there counts as revoked.
SessionAccepted(tok) == verifySession(tok) /\ GetOIDCSession(tok)

(***************************************************************************)
(* The authorization code flow                                             *)
(***************************************************************************)

\* handleAuthLogin: SetPKCEState, or the in-memory store when that fails.
handleAuthLogin(s) ==
    /\ pkce[s] = "none"
    /\ \E to \in {"stored", "memory"} : pkce' = [pkce EXCEPT ![s] = to]
    /\ UNCHANGED <<second, exchanges, cb, rows, cookies, out>> /\ UNCHANGED ldapVars

\* Mutant: only expired rows are deleted.
ConsumePKCEStateKeeps(s, lost) == pkce[s] = "stored" /\ UNCHANGED pkce

\* ConsumePKCEState: reads and deletes in one transaction, and returns the verifier
\* even when the commit fails and the row stays.
ConsumePKCEState(s, lost) ==
    /\ pkce[s] = "stored"
    /\ pkce' = IF lost THEN pkce ELSE [pkce EXCEPT ![s] = "used"]

\* handleAuthCallback up to the exchange; an unknown state answers 400.
CallbackConsume(c, s, lost) ==
    /\ cb[c] = NoCallback
    /\ exchanges[s].lost = 0 \/ ~lost        \* bound: one failed commit per state
    /\ ConsumePKCEState(s, lost)
    /\ cb' = [cb EXCEPT ![c] = [at |-> "exchange", state |-> s]]
    /\ exchanges' = [exchanges EXCEPT ![s] = [done |-> @.done + 1, lost |-> @.lost + (IF lost THEN 1 ELSE 0)]]
    /\ UNCHANGED <<second, rows, cookies, out>> /\ UNCHANGED ldapVars

\* The provider's answer: an error ends the callback, an ID token is verified and the
\* session token signed.
CallbackExchange(c) ==
    /\ cb[c].at = "exchange"
    /\ \/ cb' = [cb EXCEPT ![c] = NoCallback]
       \/ \E sub \in Subs : cb' = [cb EXCEPT ![c] = [at |-> "persist", sub |-> sub, tok |-> Token(sub)]]
    /\ UNCHANGED <<second, pkce, exchanges, rows, cookies, out>> /\ UNCHANGED ldapVars

\* The row is stored if it can be; the cookie goes out with the answer in any case.
CallbackPersist(c) ==
    /\ cb[c].at = "persist"
    /\ \/ CreateOIDCSession(cb[c].tok, cb[c].sub)
       \/ UNCHANGED <<rows, out>>
    /\ cookies' = cookies \cup {cb[c].tok}
    /\ cb' = [cb EXCEPT ![c] = NoCallback]
    /\ UNCHANGED <<second, pkce, exchanges>> /\ UNCHANGED ldapVars

(***************************************************************************)
(* Logout                                                                  *)
(***************************************************************************)

\* handleAuthLogout, with a revocation that reached the registry. One that did not
\* changes nothing here.
handleAuthLogout(tok) ==
    /\ RevokeOIDCSessionByTokenHash(tok)
    /\ out' = out \cup {tok}
    /\ UNCHANGED <<second, cookies>> /\ UNCHANGED flowVars /\ UNCHANGED ldapVars

\* handleBackchannelLogout revokes the rows of the subject there are.
handleBackchannelLogout(sub) ==
    /\ RevokeOIDCSessionsBySubject(sub)
    /\ out' = out \cup {r.tok : r \in {x \in rows : x.sub = sub}}
    /\ UNCHANGED <<second, cookies>> /\ UNCHANGED flowVars /\ UNCHANGED ldapVars

\* The sweep. A row revoked over a day ago has expired long before.
DeleteExpiredOIDCSessions ==
    /\ rows' = {r \in rows : r.tok.exp >= second}
    /\ rows' # rows
    /\ UNCHANGED <<second, cookies, out>> /\ UNCHANGED flowVars /\ UNCHANGED ldapVars

(***************************************************************************)
(* LDAP                                                                    *)
(***************************************************************************)

fromCache(u) == ldapCache[u] # NoEntry /\ second <= ldapCache[u]
putCache(u) == ldapCache' = [ldapCache EXCEPT ![u] = second + CacheTTL]

\* handleLDAPLogin once Authenticate accepted: the row's subject is the DN, a name the
\* identity provider does not use.
LdapSession(u) ==
    /\ \/ CreateOIDCSession(Token(u), "dn")
       \/ UNCHANGED <<rows, out>>
    /\ cookies' = cookies \cup {Token(u)}

\* Mutant: a hit renews the entry.
LdapHitRenews(u) ==
    /\ u \notin ldapReq /\ fromCache(u)
    /\ putCache(u)
    /\ LdapSession(u)
    /\ UNCHANGED <<second, bound, boundOff, ldapReq>> /\ UNCHANGED flowVars

\* Authenticate answered from the cache.
LdapHit(u) ==
    /\ u \notin ldapReq /\ fromCache(u)
    /\ LdapSession(u)
    /\ UNCHANGED second /\ UNCHANGED ldapVars /\ UNCHANGED flowVars

LdapMiss(u) ==
    /\ u \notin ldapReq /\ ~fromCache(u) /\ bound[u]
    /\ ldapReq' = ldapReq \cup {u}
    /\ UNCHANGED <<second, rows, cookies, out, bound, boundOff, ldapCache>> /\ UNCHANGED flowVars

\* The directory accepted the bind; the group search may still fail or map to no role.
LdapBound(u) ==
    /\ u \in ldapReq
    /\ ldapReq' = ldapReq \ {u}
    /\ \/ putCache(u) /\ LdapSession(u)
       \/ UNCHANGED <<ldapCache, rows, out, cookies>>
    /\ UNCHANGED <<second, bound, boundOff>> /\ UNCHANGED flowVars

\* The directory disables the user or changes the password, or undoes that.
DirectoryChanges(u) ==
    /\ bound' = [bound EXCEPT ![u] = ~@]
    /\ boundOff' = IF bound[u] THEN [boundOff EXCEPT ![u] = second] ELSE boundOff
    /\ UNCHANGED <<second, rows, cookies, out, ldapCache, ldapReq>> /\ UNCHANGED flowVars

(***************************************************************************)
(* The clock                                                               *)
(***************************************************************************)

SecondPasses ==
    /\ second < MaxSecond /\ ldapReq = {}
    /\ second' = second + 1
    /\ UNCHANGED <<rows, cookies, out>> /\ UNCHANGED flowVars /\ UNCHANGED ldapVars

FlowNext ==
    \/ \E s \in LoginStates : handleAuthLogin(s)
    \/ \E c \in Callbacks, s \in LoginStates, lost \in BOOLEAN : CallbackConsume(c, s, lost)
    \/ \E c \in Callbacks : CallbackExchange(c) \/ CallbackPersist(c)

LogoutNext ==
    \/ \E tok \in cookies : handleAuthLogout(tok)
    \/ \E sub \in Subs : handleBackchannelLogout(sub)
    \/ DeleteExpiredOIDCSessions

LdapNext == \E u \in LdapUsers : LdapHit(u) \/ LdapMiss(u) \/ LdapBound(u) \/ DirectoryChanges(u)

SessionsNext == FlowNext \/ LogoutNext \/ LdapNext \/ SecondPasses

SessionsSpec == SessionsInit /\ [][SessionsNext]_sessionVars

(***************************************************************************)
(* Properties                                                              *)
(***************************************************************************)

SessionsTypeOK ==
    /\ second \in 0 .. MaxSecond
    /\ pkce \in [LoginStates -> {"none", "stored", "memory", "used"}]
    /\ \A r \in rows : r.tok \in [who : Subs \cup LdapUsers, exp : 0 .. MaxSecond + SessionTTL] /\ r.revoked \in BOOLEAN
    /\ \A r, x \in rows : r.tok = x.tok => r = x
    /\ {r.tok : r \in rows} \subseteq cookies \cup {cb[c].tok : c \in {d \in Callbacks : cb[d].at = "persist"}}
    /\ ldapReq \subseteq LdapUsers

\* A state leads to one code exchange, however many callbacks present it at once
\* (handleAuthCallback, ConsumePKCEState); each failed commit allows one more.
StateSingleUse == \A s \in LoginStates : exchanges[s].done <= 1 + exchanges[s].lost

\* A cookie logged out by its browser or by the identity provider is refused from then
\* on, through sweeps and rows that were never stored, until the same token is issued
\* again (handleAuthLogout, handleBackchannelLogout, oidcMiddleware).
LoggedOutStaysOut == \A tok \in out : ~SessionAccepted(tok)

\* A user the directory has turned off can log in from the cache for at most CacheTTL
\* more, however often the entry is hit (Authenticate, fromCache, putCache).
DirectoryLag == \A u \in LdapUsers : ~bound[u] /\ fromCache(u) => second <= boundOff[u] + CacheTTL
=============================================================================
