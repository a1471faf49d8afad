----------------------------- MODULE SessionDesk -----------------------------
(***************************************************************************)
(* How a device gets in: the challenges and the sign-on of                 *)
(* api/auth/native.py, the sessions of POST /session, the tokens of        *)
(* POST /api/auth/token.  Each handler awaits its body and nothing after.  *)
(*                                                                         *)
(* Whoever has a device's key signs with it what he likes, with any date,  *)
(* before and after the device is revoked; so what is sent is chosen when  *)
(* it arrives.  A nonce is the number of its challenge.  A session is what *)
(* its token stands for: two with the same fields are one.                 *)
(***************************************************************************)
EXTENDS NodeChains

CONSTANTS Visitor,           \* the identity whose devices are followed
          Audiences,         \* origins a challenge may be issued for
          OwnAudience,       \* auth_audience of this node
          Skew,              \* CLOCK_SKEW of core/auth.py
          Lifetimes,         \* lifetimes that callers ask for
          MaxLifetime,       \* MAX_REQUEST_LIFETIME and MAX_ASSERTION_LIFETIME
          SessionLifetime,   \* SESSION_LIFETIME
          JwtExpiry,         \* jwt_expiry
          RequestAge,        \* how old a signed request may be
          MaxPending,        \* max_pending of the ChallengeStore
          MaxChallenges,     \* bound: challenges issued
          MaxOpen,           \* bound: sessions and tokens at one time
          MaxRestarts        \* bound: restarts of the node

ASSUME SessionDeskAssumption ==
    /\ Visitor \in Identities /\ OwnAudience \in Audiences
    /\ Lifetimes \subseteq Nat \ {0} /\ MaxLifetime \in Nat \ {0}
    /\ {Skew, SessionLifetime, JwtExpiry, RequestAge, MaxPending, MaxChallenges,
      MaxOpen, MaxRestarts} \subseteq Nat

VARIABLES challenges,  \* ChallengeStore._requests: [aud, expires_at] per nonce
          sessions,    \* SessionStore._sessions
          tokens,      \* JWTs that are around; `device` is history, a JWT has none
          issued,      \* challenges issued so far
          successes,   \* history: how many answers each nonce bought
          restarts,
          shut         \* history: since when the row has the revocation of a
                       \* device, -1 while it does not

sessionVars == <<challenges, sessions, tokens, issued, successes, restarts, shut>>

Nonces == 1 .. MaxChallenges

SessionDeskInit ==
    /\ challenges = << >> /\ sessions = {} /\ tokens = {}
    /\ issued = 0 /\ successes = [n \in Nonces |-> 0] /\ restarts = 0
    /\ shut = [k \in Keys |-> -1]

AtMost(a, b) == IF a < b THEN a ELSE b

\* is_expired of requests and of sessions: `time.time() > expires_at`.
Over(expires_at) == now > expires_at

-----------------------------------------------------------------------------
(* core/auth.py *)

\* verify_assertion against a copy of length n.
AssertionOk(a, n, aud) ==
    /\ a.aud = aud
    /\ a.iat < a.exp /\ a.exp - a.iat <= MaxLifetime
    /\ a.iat <= now + Skew /\ now <= a.exp + Skew
    /\ a.chain_head <= n
    /\ ~IsMaster(Visitor, n, a.device)
    /\ ActiveDevice(Visitor, n, a.device)
    /\ Grants(Visitor, n, a.device, "authenticate")
    /\ History[Visitor][GrantIndex(Copy(Visitor, n), a.device, now)].timestamp <= a.iat + Skew

-----------------------------------------------------------------------------
(* Challenges *)

Fresh(store) == {n \in DOMAIN store : ~Over(store[n].expires_at)}
Remaining(store, nonces) == [n \in nonces |-> store[n]]

\* ChallengeStore.add: a full store is cleaned up first, and may stay full.
Room ==
    IF Cardinality(DOMAIN challenges) >= MaxPending THEN Remaining(challenges, Fresh(challenges))
    ELSE challenges

Challenge(aud, lifetime) ==
    /\ issued < MaxChallenges
    /\ IF Cardinality(DOMAIN Room) >= MaxPending
       THEN challenges' = Room /\ UNCHANGED issued
       ELSE /\ issued' = issued + 1
            /\ challenges' = [n \in DOMAIN Room \cup {issued'} |->
                  IF n = issued' THEN [aud |-> aud, expires_at |-> now + AtMost(lifetime, MaxLifetime)]
                  ELSE Room[n]]
    /\ UNCHANGED <<sessions, tokens, successes, restarts, shut>>

\* ChallengeStore.peek drops a request that is over.
PeekExpired(nonce) ==
    /\ nonce \in DOMAIN challenges /\ Over(challenges[nonce].expires_at)
    /\ challenges' = Remaining(challenges, DOMAIN challenges \ {nonce})
    /\ UNCHANGED <<sessions, tokens, issued, successes, restarts, shut>>

Consumed_Kept(nonce) == challenges

\* ChallengeStore.consume
Consumed(nonce) == Remaining(challenges, DOMAIN challenges \ {nonce})

\* _process_assertion, when it ends well.  No other end but PeekExpired changes
\* anything.
ProcessAssertion(a, supplied) ==
    LET n == ChooseSigchain(Visitor, supplied)
    IN  /\ a.nonce \in DOMAIN challenges /\ ~Over(challenges[a.nonce].expires_at)
        /\ n # 0
        /\ AssertionOk(a, n, challenges[a.nonce].aud)
        /\ a.exp <= challenges[a.nonce].expires_at + Skew
        /\ challenges' = Consumed(a.nonce)
        /\ successes' = [successes EXCEPT ![a.nonce] = @ + 1]

VerifyHandler(a, supplied) ==
    /\ ProcessAssertion(a, supplied)
    /\ UNCHANGED <<sessions, tokens, issued, restarts, shut>>

-----------------------------------------------------------------------------
(* Sessions and tokens *)

OpenFor(n) == Cardinality(sessions) + Cardinality(tokens) + n <= MaxOpen

\* SessionStore.create
Session(kind, device, lifetime) ==
    [kind |-> kind, device |-> device, created_at |-> now, expires_at |-> now + lifetime]

\* create_token; the node is taken to be in relay mode, others make none.
Token(device) == [device |-> device, created_at |-> now, expires_at |-> now + JwtExpiry]

Login(a, supplied) ==
    /\ a.nonce \in DOMAIN challenges /\ challenges[a.nonce].aud = OwnAudience
    /\ OpenFor(2)
    /\ ProcessAssertion(a, supplied)
    /\ sessions' = sessions \cup {Session("login", a.device, SessionLifetime)}
    /\ tokens' = tokens \cup {Token(a.device)}
    /\ UNCHANGED <<issued, restarts, shut>>

\* The master or any active device of the stored chain: verify_session_request,
\* verify_identity_signature.
SignerOk(device) ==
    LET n == held[Visitor]
    IN  n # 0 /\ (IsMaster(Visitor, n, device) \/ ActiveDevice(Visitor, n, device))

\* A signed request may be sent again while its timestamp is near.
CreateSession(device, timestamp, expires_in) ==
    /\ Away(now, timestamp) <= RequestAge
    /\ SignerOk(device)
    /\ OpenFor(1)
    /\ sessions' = sessions \cup {Session("session", device, expires_in)}
    /\ UNCHANGED <<challenges, tokens, issued, successes, restarts, shut>>

CreateToken(device, timestamp) ==
    /\ Away(now, timestamp) <= RequestAge
    /\ SignerOk(device)
    /\ OpenFor(1)
    /\ tokens' = tokens \cup {Token(device)}
    /\ UNCHANGED <<challenges, sessions, issued, successes, restarts, shut>>

Removed(s) == sessions' = sessions \ {s}

DeleteSession(s) ==
    /\ s \in sessions
    /\ Removed(s)
    /\ UNCHANGED <<challenges, tokens, issued, successes, restarts, shut>>

\* GET /session, or any request with its token, drops a session that is over.
GetSessionOver(s) == Over(s.expires_at) /\ DeleteSession(s)

\* SessionStore.cleanup_expired
LiveSessions == {s \in sessions : ~Over(s.expires_at)}

\* cleanup_task
Cleanup ==
    /\ sessions' = LiveSessions
    /\ challenges' = Remaining(challenges, Fresh(challenges))
    /\ UNCHANGED <<tokens, issued, successes, restarts, shut>>

\* The stores are in memory.  JWTs stay good if the secret is configured.
RestartNode ==
    /\ restarts < MaxRestarts /\ restarts' = restarts + 1
    /\ challenges' = << >> /\ sessions' = {}
    /\ tokens' \in {tokens, {}}
    /\ UNCHANGED <<issued, successes, shut>>

\* A copy of the visitor's chain is stored by somebody else.
RowChanges(n) ==
    /\ ChainStored(Visitor, n)
    /\ shut' = [k \in Keys |-> IF ~IsRevoked(Copy(Visitor, n), k) THEN -1
                              ELSE IF shut[k] = -1 THEN now ELSE shut[k]]
    /\ UNCHANGED <<challenges, sessions, tokens, issued, successes, restarts>>

-----------------------------------------------------------------------------

SessionsTypeOK ==
    /\ DOMAIN challenges \subseteq 1 .. issued /\ issued \in 0 .. MaxChallenges
    /\ \A n \in DOMAIN challenges : challenges[n] \in [aud : Audiences, expires_at : Nat]
    /\ sessions \subseteq
          [kind : {"login", "session"}, device : Keys, created_at : Nat, expires_at : Nat]
    /\ tokens \subseteq [device : Keys, created_at : Nat, expires_at : Nat]
    /\ successes \in [Nonces -> Nat] /\ restarts \in 0 .. MaxRestarts
    /\ shut \in [Keys -> {-1} \cup 0 .. MaxTime]

\* A challenge is answered once, by /verify or by /login, however often the
\* assertion is sent and whatever else happens to the store.
OneUsePerChallenge == \A n \in Nonces : successes[n] <= 1

\* The keys that get in as devices only.
NeverMaster ==
    Keys \ {e.key : e \in {x \in ToSet(History[Visitor]) : x.type \in MasterKeyTypes}}

\* A session and a token outlive the revocation of their device, and nobody
\* ends them; but from the moment the row has the revocation no new one comes
\* by, whatever older copy of the chain is sent along and whatever was signed
\* before, so they are gone after one lifetime.  The lifetime of a session of
\* POST /session is the caller's own choice.
RevokedDeviceFadesOut ==
    \A k \in NeverMaster : shut[k] # -1 =>
        /\ \A s \in sessions : s.device = k =>
              /\ s.created_at <= shut[k]
              /\ s.kind = "login" => s.expires_at <= shut[k] + SessionLifetime
        /\ \A t \in tokens : t.device = k => t.expires_at <= shut[k] + JwtExpiry
=============================================================================
