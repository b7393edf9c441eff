---------------------------- MODULE VertexToken ----------------------------
(***************************************************************************)
(* The access-token cache of the Vertex AI client                          *)
(* (registry/importer/vertexai.go), shared by the requests that use one    *)
(* client. The token endpoint is external: it issues at some moment        *)
(* between the call and its answer, and its answer arrives within the HTTP *)
(* client's timeout or not at all. Time is in units of the timeout.        *)
(***************************************************************************)
EXTENDS Integers

CONSTANTS
    Callers,      \* calls of ListModelVersions and GetArtifactURI under way at once
    Lifetime,     \* expires_in of an issued token
    Margin,       \* the 30 s by which get() calls a token expired early
    HTTPTimeout,  \* the HTTP client's 30 s
    EndOfTime     \* bound on the clock

\* The two constants of the code are equal; a token lives an hour, far longer than an
\* answer that is waited for can be late.
ASSUME TokenAssumption ==
    /\ Lifetime \in Nat /\ Margin \in Nat /\ HTTPTimeout \in Nat /\ EndOfTime \in Nat
    /\ HTTPTimeout <= Margin /\ HTTPTimeout < Lifetime

NoToken == [real |-> -1, expiry |-> -1]
CallIdle == [at |-> "idle"]

VARIABLES
    clock,
    cache,   \* tokenState: the token's real end (the endpoint's), and the recorded one
    tokCall,    \* a caller: idle, asking the endpoint, or answered by it
    handed   \* for every caller, the real end of the last token it was given, and when it was

tokVars == <<clock, cache, tokCall, handed>>

TokTypeOK ==
    /\ clock \in 0 .. EndOfTime
    /\ cache.real \in Int /\ cache.expiry \in Int
    /\ \A c \in Callers : tokCall[c].at \in {"idle", "asking", "answered"}

\* Mutant: the cached token is used to its last second.
getUnguarded == cache # NoToken /\ clock < cache.expiry

\* tokenState.get
get == cache # NoToken /\ clock < cache.expiry - Margin

set(real, expiry) == cache' = [real |-> real, expiry |-> expiry]

Hand(c, real) == handed' = [handed EXCEPT ![c] = [real |-> real, at |-> clock]]

\* tokenFromServiceAccount: the key file is read and an assertion signed that ends one
\* lifetime from now, before the endpoint is asked.
tokenFromServiceAccount(c) ==
    tokCall' = [tokCall EXCEPT ![c] = [at |-> "asking", since |-> clock, assertion |-> clock + Lifetime]]

\* getToken: the cached token, or a call to the metadata server or the token endpoint.
getToken(c) ==
    /\ tokCall[c] = CallIdle
    /\ \/ get /\ Hand(c, cache.real) /\ UNCHANGED tokCall
       \/ ~get /\ tokenFromServiceAccount(c) /\ UNCHANGED handed
       \/ ~get /\ tokCall' = [tokCall EXCEPT ![c] = [at |-> "asking", since |-> clock, assertion |-> -1]] /\ UNCHANGED handed
    /\ UNCHANGED <<clock, cache>>

\* The endpoint issues the token.
EndpointIssues(c) ==
    /\ tokCall[c].at = "asking"
    /\ tokCall' = [tokCall EXCEPT ![c] = [at |-> "answered", since |-> @.since, real |-> clock + Lifetime,
                                    assertion |-> @.assertion]]
    /\ UNCHANGED <<clock, cache, handed>>

\* tokenFromMetadataServer: the lifetime counts from the answer's arrival.
tokenFromMetadataServer(c) ==
    /\ tokCall[c].at = "answered" /\ tokCall[c].assertion = -1
    /\ set(tokCall[c].real, clock + Lifetime)
    /\ Hand(c, tokCall[c].real)
    /\ tokCall' = [tokCall EXCEPT ![c] = CallIdle]
    /\ UNCHANGED clock

\* exchangeJWT: as above, or without expires_in the end of the assertion, one lifetime
\* after it was made.
exchangeJWT(c) ==
    /\ tokCall[c].at = "answered" /\ tokCall[c].assertion # -1
    /\ \E expiry \in {clock + Lifetime, tokCall[c].assertion} :
         set(tokCall[c].real, expiry)
    /\ Hand(c, tokCall[c].real)
    /\ tokCall' = [tokCall EXCEPT ![c] = CallIdle]
    /\ UNCHANGED clock

\* The call fails, on the way there or back, or at the timeout.
CallFails(c) ==
    /\ tokCall[c] # CallIdle
    /\ tokCall' = [tokCall EXCEPT ![c] = CallIdle]
    /\ UNCHANGED <<clock, cache, handed>>

\* Time passes while no call outlives its timeout.
TimePasses ==
    /\ clock < EndOfTime
    /\ \A c \in Callers : tokCall[c] # CallIdle => clock < tokCall[c].since + HTTPTimeout
    /\ clock' = clock + 1
    /\ UNCHANGED <<cache, tokCall, handed>>

TokInit ==
    /\ clock = 0
    /\ cache = NoToken
    /\ tokCall = [c \in Callers |-> CallIdle]
    /\ handed = [c \in Callers |-> [real |-> 0, at |-> -1]]

TokNext ==
    \/ \E c \in Callers :
         getToken(c) \/ EndpointIssues(c) \/ tokenFromMetadataServer(c) \/ exchangeJWT(c) \/ CallFails(c)
    \/ TimePasses

TokSpec == TokInit /\ [][TokNext]_tokVars

(***************************************************************************)
(* Property                                                                *)
(***************************************************************************)

\* A token the cache hands out is still accepted by the endpoint at that moment,
\* although its end is computed when the answer arrives, up to a timeout after it was
\* issued, and concurrent fetches overwrite each other's.
HandedOutTokenValid ==
    \A c \in Callers : handed[c].at < handed[c].real
=============================================================================
