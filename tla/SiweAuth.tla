------------------------------ MODULE SiweAuth -------------------------------
(***************************************************************************)
(* Sign-in with a signed message: the nonce store of auth/siwe.py in every *)
(* worker process, the checks of verify_siwe(), and the tokens that        *)
(* api/v1/auth.py issues and refreshes.                                    *)
(*                                                                         *)
(* The endpoints do not await, so each is one action; what interleaves is  *)
(* whole requests, at the workers they happen to reach, with the clock and *)
(* with workers that die and come back with an empty store.  A token is    *)
(* signed with a secret all workers share, so it outlives every worker.    *)
(***************************************************************************)
EXTENDS Naturals

CONSTANTS
  Workers,      \* uvicorn --workers
  Nonces,       \* secrets.token_hex(16): never the same twice
  Wallets,
  Chains,
  DefaultChain, \* chain_id of create_access_token()
  NoSigner,     \* a signature nothing can be recovered from
  Never,        \* a nonce that was not generated yet
  Ttl,          \* _NONCE_TTL, in clock ticks
  AccessLife, RefreshLife,  \* lifetimes of the tokens
  MaxTime       \* bound on the clock

ASSUME AuthAssumption ==
  /\ DefaultChain \in Chains
  /\ NoSigner \notin Wallets
  /\ Never \notin Nat
  /\ Ttl \in Nat /\ AccessLife \in Nat /\ RefreshLife \in Nat /\ MaxTime \in Nat

VARIABLES
  now,        \* time.time()
  store,      \* nonce_store._store of each worker: the state of every nonce
  createdAt,  \* created_at of each nonce
  tokens,     \* the tokens issued
  reply,      \* status code of the last answer of /verify
  tried,      \* history: nonces that validate() accepted, see Verify
  accepted,   \* history: how often each nonce signed somebody in
  signers     \* history: wallets whose signature signed somebody in

vars == <<now, store, createdAt, tokens, reply, tried, accepted, signers>>

-----------------------------------------------------------------------------
\* A message and the wallet that signed it.  "lapsed" says whether its own
\* Expiration Time has passed; one without such a line is "current".
Messages == [nonce : Nonces, address : Wallets, chain : Chains,
             expiry : {"current", "lapsed"}, signer : Wallets \cup {NoSigner}]

Tokens == [type : {"access", "refresh"}, wallet : Wallets, chain : Chains, exp : Nat]

Init ==
  /\ now = 0
  /\ store = [w \in Workers |-> [n \in Nonces |-> "absent"]]
  /\ createdAt = [n \in Nonces |-> Never]
  /\ tokens = {}
  /\ reply = 0
  /\ tried = {}
  /\ accepted = [n \in Nonces |-> 0]
  /\ signers = {}

Tick ==
  /\ now < MaxTime
  /\ now' = now + 1
  /\ UNCHANGED <<store, createdAt, tokens, reply, tried, accepted, signers>>

\* A worker dies and its successor starts with an empty store.
Restart(w) ==
  /\ store' = [store EXCEPT ![w] = [n \in Nonces |-> "absent"]]
  /\ UNCHANGED <<now, createdAt, tokens, reply, tried, accepted, signers>>

Expired(n) == now > createdAt[n] + Ttl

\* As Generate, without _cleanup().
GenerateOnly(w, n) ==
  /\ createdAt[n] = Never
  /\ createdAt' = [createdAt EXCEPT ![n] = now]
  /\ store' = [store EXCEPT ![w][n] = "fresh"]
  /\ UNCHANGED <<now, tokens, reply, tried, accepted, signers>>

\* get_nonce() and build_message(): a new nonce, then _cleanup().
Generate(w, n) ==
  /\ createdAt[n] = Never
  /\ createdAt' = [createdAt EXCEPT ![n] = now]
  /\ store' = [store EXCEPT ![w] =
       [m \in Nonces |-> IF m = n THEN "fresh"
                         ELSE IF store[w][m] # "absent" /\ Expired(m) THEN "absent"
                         ELSE store[w][m]]]
  /\ UNCHANGED <<now, tokens, reply, tried, accepted, signers>>

\* create_access_token() and create_refresh_token().
NewTokens(wallet, chain) ==
  {[type |-> "access", wallet |-> wallet, chain |-> chain, exp |-> now + AccessLife],
   [type |-> "refresh", wallet |-> wallet, chain |-> chain, exp |-> now + RefreshLife]}

\* As Authentic, for a verify_siwe() that goes on when nothing is recovered.
AuthenticUnsigned(m) == m.expiry = "current" /\ m.signer \in {m.address, NoSigner}

\* The checks of verify_siwe() once the nonce was accepted.  The only caller
\* leaves expected_domain and expected_chain_id out.
Authentic(m) == m.expiry = "current" /\ m.signer = m.address

\* verify_siwe() returns the wallet, verify_signature() issues tokens for it.
SignedIn(m, wallet) ==
  /\ tokens' = tokens \cup NewTokens(wallet, DefaultChain)
  /\ accepted' = [accepted EXCEPT ![m.nonce] = @ + 1]
  /\ signers' = signers \cup ({m.signer} \cap Wallets)
  /\ reply' = 200

Refused == reply' = 401 /\ UNCHANGED <<tokens, accepted, signers>>

\* As Consumed, for a store that forgets to set `used`.
ConsumedNever(w, n) == tried' = tried \cup {n} /\ UNCHANGED store

\* validate() accepts: the entry is used from now on.
Consumed(w, n) ==
  /\ tried' = tried \cup {n}
  /\ store' = [store EXCEPT ![w][n] = "used"]

\* validate() refuses: an expired entry goes.
Rejected(w, n) ==
  /\ store' = [store EXCEPT ![w][n] =
       IF @ = "fresh" /\ Expired(n) THEN "absent" ELSE @]
  /\ UNCHANGED tried

\* As Verify, for a verify_siwe() that consumes the nonce as its last check.
VerifyNonceLast(w, m) ==
  /\ IF store[w][m.nonce] = "fresh" /\ ~Expired(m.nonce)
     THEN \/ Authentic(m) /\ Consumed(w, m.nonce) /\ SignedIn(m, m.signer)
          \/ ~Authentic(m) /\ tried' = tried \cup {m.nonce} /\ Refused /\ UNCHANGED store
     ELSE Rejected(w, m.nonce) /\ Refused
  /\ UNCHANGED <<now, createdAt>>

\* As Verify, for one that returns the address the message claims.
VerifyClaim(w, m) ==
  /\ IF store[w][m.nonce] = "fresh" /\ ~Expired(m.nonce)
     THEN /\ Consumed(w, m.nonce)
          /\ IF m.expiry = "current" THEN SignedIn(m, m.address) ELSE Refused
     ELSE Rejected(w, m.nonce) /\ Refused
  /\ UNCHANGED <<now, createdAt>>

\* verify_signature(): the nonce is consumed before anything else is checked.
\* A message that cannot be parsed is refused before that and changes nothing.
Verify(w, m) ==
  /\ IF store[w][m.nonce] = "fresh" /\ ~Expired(m.nonce)
     THEN /\ Consumed(w, m.nonce)
          /\ IF Authentic(m) THEN SignedIn(m, m.signer) ELSE Refused
     ELSE Rejected(w, m.nonce) /\ Refused
  /\ UNCHANGED <<now, createdAt>>

\* verify_token(): any worker can tell, from the token and the clock alone.
Valid(t, type) == t.type = type /\ t.exp > now

\* refresh_access_token().  A token that is not valid changes nothing, and the
\* old refresh token stays good.
Refresh(t) ==
  /\ Valid(t, "refresh")
  /\ tokens' = tokens \cup NewTokens(t.wallet, t.chain)
  /\ UNCHANGED <<now, store, createdAt, reply, tried, accepted, signers>>

Next ==
  \/ Tick
  \/ \E w \in Workers : Restart(w)
  \/ \E w \in Workers, n \in Nonces : Generate(w, n)
  \/ \E w \in Workers, m \in Messages : Verify(w, m)
  \/ \E t \in tokens : Refresh(t)

Spec == Init /\ [][Next]_vars

-----------------------------------------------------------------------------
(* Properties *)

\* Every variable has its type.
TypeOK ==
  /\ now \in Nat
  /\ store \in [Workers -> [Nonces -> {"absent", "fresh", "used"}]]
  /\ createdAt \in [Nonces -> Nat \cup {Never}]
  /\ tokens \in SUBSET Tokens
  /\ reply \in {0, 200, 401}
  /\ tried \in SUBSET Nonces
  /\ accepted \in [Nonces -> Nat]
  /\ signers \in SUBSET Wallets

\* A nonce signs in one message at most, over all workers, expiry, clean-up
\* and restarts (tests/test_auth.py presents it twice to one store).
SingleUse == \A n \in Nonces : accepted[n] <= 1

\* The first message that names a nonce at the worker that holds it decides: if
\* it is refused, no later message signs in with that nonce anywhere.
FirstTryDecides ==
  [][\A n \in tried : accepted'[n] = accepted[n]]_vars

\* A token is only ever issued for a wallet whose own signature was accepted,
\* through any chain of refreshes; nobody signs in for another address.
TokensTraceable == \A t \in tokens : t.wallet \in signers

\* A store holds nonces of one lifetime only: those nobody comes back for are
\* removed, for the clean-up is part of making the next one.
StoreBounded ==
  \A w \in Workers : \A m, n \in {k \in Nonces : store[w][k] # "absent"} :
    createdAt[m] <= createdAt[n] + Ttl

\* get_nonce(), "The nonce is single-use and expires after 5 minutes": one that
\* was not used yet and is no older signs in whoever has signed it.
UnusedNonceAccepted ==
  [][\A w \in Workers, m \in Messages :
       /\ createdAt[m.nonce] # Never /\ ~Expired(m.nonce)
       /\ m.nonce \notin tried
       /\ Authentic(m)
       /\ Verify(w, m)
       => reply' = 200]_vars
=============================================================================
