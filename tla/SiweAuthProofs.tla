--------------------------- MODULE SiweAuthProofs ----------------------------
(***************************************************************************)
(* Proofs about SiweAuth for any number of workers, nonces, wallets and    *)
(* chains, any lifetimes and any restarts.                                 *)
(***************************************************************************)
EXTENDS SiweAuth, TLAPS

\* Where a nonce can be: at no worker before it was made, at one at most after
\* that, and never fresh again once it was tried.
NoncePlaces ==
  \A n \in Nonces :
    /\ createdAt[n] = Never => \A w \in Workers : store[w][n] = "absent"
    /\ \A v, w \in Workers : store[v][n] # "absent" /\ store[w][n] # "absent" => v = w
    /\ n \in tried => createdAt[n] # Never /\ \A w \in Workers : store[w][n] # "fresh"

\* Only a nonce that was tried has signed somebody in.
AcceptedTried == \A n \in Nonces : n \notin tried => accepted[n] = 0

\* No nonce was made in the future.
Clocked == \A n \in Nonces : createdAt[n] # Never => createdAt[n] <= now

AInv ==
  /\ TypeOK
  /\ NoncePlaces
  /\ AcceptedTried
  /\ SingleUse
  /\ TokensTraceable
  /\ Clocked
  /\ StoreBounded

LEMMA InitAInv == Init => AInv
<1> SUFFICES ASSUME Init PROVE AInv
  OBVIOUS
<1>1. TypeOK
  BY DEF Init, TypeOK
<1>. QED
  BY <1>1 DEF Init, AInv, NoncePlaces, AcceptedTried, SingleUse, TokensTraceable, Clocked,
    StoreBounded

LEMMA NewTokensType ==
  ASSUME now \in Nat, NEW a \in Wallets, NEW c \in Chains
  PROVE  NewTokens(a, c) \in SUBSET Tokens /\ \A t \in NewTokens(a, c) : t.wallet = a
BY AuthAssumption DEF NewTokens, Tokens

LEMMA TickAInv ==
  ASSUME AInv, Tick
  PROVE  AInv'
<1>1. TypeOK'
  BY DEF AInv, TypeOK, Tick
<1>2. NoncePlaces' /\ AcceptedTried' /\ SingleUse' /\ TokensTraceable' /\ StoreBounded'
  BY DEF AInv, NoncePlaces, AcceptedTried, SingleUse, TokensTraceable, StoreBounded, Tick
<1>3. Clocked'
  <2>1. now \in Nat /\ now' = now + 1 /\ createdAt' = createdAt
    BY DEF AInv, TypeOK, Tick
  <2>2. \A n \in Nonces : createdAt[n] # Never => createdAt[n] \in Nat /\ createdAt[n] <= now
    BY DEF AInv, TypeOK, Clocked
  <2>. QED  BY <2>1, <2>2 DEF Clocked
<1>. QED  BY <1>1, <1>2, <1>3 DEF AInv

LEMMA RestartAInv ==
  ASSUME AInv, NEW w \in Workers, Restart(w)
  PROVE  AInv'
<1>1. /\ store' \in [Workers -> [Nonces -> {"absent", "fresh", "used"}]]
      /\ \A v \in Workers, n \in Nonces : store'[v][n] \in {store[v][n], "absent"}
  BY DEF AInv, TypeOK, Restart
<1>2. UNCHANGED <<now, createdAt, tokens, reply, tried, accepted, signers>>
  BY DEF Restart
<1>3. TypeOK' /\ AcceptedTried' /\ SingleUse' /\ TokensTraceable' /\ Clocked'
  BY <1>1, <1>2 DEF AInv, TypeOK, AcceptedTried, SingleUse, TokensTraceable, Clocked
<1>4. NoncePlaces'
  BY <1>1, <1>2 DEF AInv, NoncePlaces
<1>5. StoreBounded'
  BY <1>1, <1>2 DEF AInv, StoreBounded
<1>. QED  BY <1>3, <1>4, <1>5 DEF AInv

LEMMA GenerateAInv ==
  ASSUME AInv, NEW w \in Workers, NEW n \in Nonces, Generate(w, n)
  PROVE  AInv'
<1>1. /\ createdAt[n] = Never /\ now \in Nat /\ Ttl \in Nat
      /\ createdAt' = [createdAt EXCEPT ![n] = now]
      /\ UNCHANGED <<now, tokens, reply, tried, accepted, signers>>
      /\ createdAt \in [Nonces -> Nat \cup {Never}]
      /\ n \notin tried /\ \A v \in Workers : store[v][n] = "absent"
  BY AuthAssumption DEF AInv, TypeOK, NoncePlaces, Generate
<1>2. /\ store' \in [Workers -> [Nonces -> {"absent", "fresh", "used"}]]
      /\ store'[w][n] = "fresh"
      /\ \A v \in Workers \ {w} : store'[v] = store[v]
      /\ \A m \in Nonces \ {n} :
           /\ store'[w][m] \in {store[w][m], "absent"}
           /\ store'[w][m] # "absent" => ~Expired(m)
  BY DEF AInv, TypeOK, Generate
<1>3. /\ createdAt'[n] = now /\ now # Never
      /\ \A m \in Nonces \ {n} : createdAt'[m] = createdAt[m]
  BY <1>1, AuthAssumption
<1>4. createdAt' \in [Nonces -> Nat \cup {Never}]
  BY <1>1
<1>5. TypeOK' /\ AcceptedTried' /\ SingleUse' /\ TokensTraceable'
  BY <1>1, <1>2, <1>4 DEF AInv, TypeOK, AcceptedTried, SingleUse, TokensTraceable
<1>6. NoncePlaces'
  <2> SUFFICES ASSUME NEW m \in Nonces
               PROVE  /\ createdAt'[m] = Never => \A v \in Workers : store'[v][m] = "absent"
                      /\ \A u, v \in Workers :
                           store'[u][m] # "absent" /\ store'[v][m] # "absent" => u = v
                      /\ m \in tried' =>
                           createdAt'[m] # Never /\ \A v \in Workers : store'[v][m] # "fresh"
    BY DEF NoncePlaces
  <2>1. CASE m = n
    BY <1>1, <1>2, <1>3, <2>1
  <2>2. CASE m # n
    <3>1. \A v \in Workers : store'[v][m] \in {store[v][m], "absent"}
      BY <1>2, <2>2
    <3>. QED  BY <1>1, <1>3, <2>2, <3>1 DEF AInv, NoncePlaces
  <2>. QED  BY <2>1, <2>2
<1>7. Clocked'
  BY <1>1, <1>3 DEF AInv, Clocked
<1>8. StoreBounded'
  <2> SUFFICES ASSUME NEW v \in Workers, NEW k \in Nonces, NEW m \in Nonces,
                      store'[v][k] # "absent", store'[v][m] # "absent"
               PROVE  createdAt'[k] <= createdAt'[m] + Ttl
    BY <1>1 DEF StoreBounded
  <2>1. CASE v # w
    <3>1. store'[v] = store[v] /\ k # n /\ m # n
      BY <1>1, <1>2, <2>1
    <3>. QED  BY <1>3, <3>1 DEF AInv, StoreBounded
  <2>2. CASE v = w
    <3>1. createdAt'[k] \in Nat /\ createdAt'[k] <= now
      BY <1>1, <1>2, <1>3, <1>4, <1>6, <1>7 DEF NoncePlaces, Clocked
    <3>2. createdAt'[m] \in Nat /\ now <= createdAt'[m] + Ttl
      <4>1. createdAt'[m] \in Nat
        BY <1>4, <1>6 DEF NoncePlaces
      <4>2. CASE m = n
        BY <1>1, <1>3, <4>1, <4>2
      <4>3. CASE m # n
        BY <1>1, <1>2, <1>3, <2>2, <4>1, <4>3 DEF Expired
      <4>. QED  BY <4>1, <4>2, <4>3
    <3>. QED  BY <1>1, <3>1, <3>2
  <2>. QED  BY <2>1, <2>2
<1>. QED  BY <1>5, <1>6, <1>7, <1>8 DEF AInv

\* A verification changes the entry of its nonce at one worker, and only if
\* there is one.
LEMMA VerifyStore ==
  ASSUME AInv, NEW w \in Workers, NEW m \in Messages, Verify(w, m)
  PROVE  /\ m.nonce \in Nonces
         /\ store' \in [Workers -> [Nonces -> {"absent", "fresh", "used"}]]
         /\ \A v \in Workers, n \in Nonces : store[v][n] = "absent" => store'[v][n] = "absent"
         /\ \A v \in Workers, n \in Nonces : store'[v][n] = "fresh" => store[v][n] = "fresh"
         /\ UNCHANGED <<now, createdAt>>
<1>1. m.nonce \in Nonces
  BY DEF Messages
<1>2. CASE Consumed(w, m.nonce) /\ store[w][m.nonce] = "fresh"
  BY <1>1, <1>2 DEF Consumed, AInv, TypeOK, Verify
<1>3. CASE Rejected(w, m.nonce)
  BY <1>1, <1>3 DEF Rejected, AInv, TypeOK, Verify
<1>. QED  BY <1>2, <1>3 DEF Verify

\* What is left of the nonce of a message that was consumed.
LEMMA ConsumedNonce ==
  ASSUME AInv, NEW w \in Workers, NEW n \in Nonces,
         store[w][n] = "fresh", Consumed(w, n)
  PROVE  /\ n \notin tried /\ tried' = tried \cup {n} /\ createdAt[n] # Never
         /\ \A v \in Workers : store'[v][n] # "fresh"
<1>1. n \notin tried /\ createdAt[n] # Never
  BY DEF AInv, NoncePlaces
<1>2. \A v \in Workers \ {w} : store[v][n] = "absent" /\ store'[v] = store[v]
  BY DEF AInv, NoncePlaces, TypeOK, Consumed
<1>3. store'[w][n] = "used" /\ tried' = tried \cup {n}
  BY DEF AInv, TypeOK, Consumed
<1>. QED  BY <1>1, <1>2, <1>3

LEMMA SignedInFacts ==
  ASSUME AInv, NEW m \in Messages, Authentic(m), SignedIn(m, m.signer)
  PROVE  /\ tokens' \in SUBSET Tokens /\ signers' \in SUBSET Wallets
         /\ reply' = 200 /\ TokensTraceable'
         /\ accepted' = [accepted EXCEPT ![m.nonce] = @ + 1]
<1>1. m.signer \in Wallets /\ now \in Nat /\ DefaultChain \in Chains
  BY AuthAssumption DEF Authentic, Messages, AInv, TypeOK
<1>2. /\ NewTokens(m.signer, DefaultChain) \in SUBSET Tokens
      /\ \A t \in NewTokens(m.signer, DefaultChain) : t.wallet = m.signer
  BY <1>1, NewTokensType
<1>. QED  BY <1>1, <1>2 DEF SignedIn, AInv, TypeOK, TokensTraceable

LEMMA VerifyAInv ==
  ASSUME AInv, NEW w \in Workers, NEW m \in Messages, Verify(w, m)
  PROVE  AInv' /\ \A n \in tried : accepted'[n] = accepted[n]
<1> DEFINE k == m.nonce
<1>1. /\ k \in Nonces
      /\ store' \in [Workers -> [Nonces -> {"absent", "fresh", "used"}]]
      /\ \A v \in Workers, n \in Nonces : store[v][n] = "absent" => store'[v][n] = "absent"
      /\ \A v \in Workers, n \in Nonces : store'[v][n] = "fresh" => store[v][n] = "fresh"
      /\ UNCHANGED <<now, createdAt>>
  BY VerifyStore
<1>2. Clocked' /\ StoreBounded'
  BY <1>1 DEF AInv, Clocked, StoreBounded
<1>3. ASSUME store[w][k] = "fresh", Consumed(w, k)
      PROVE  NoncePlaces' /\ tried' \in SUBSET Nonces /\ tried' = tried \cup {k} /\ k \notin tried
  <2>1. /\ k \notin tried /\ tried' = tried \cup {k} /\ createdAt[k] # Never
        /\ \A v \in Workers : store'[v][k] # "fresh"
    BY <1>1, <1>3, ConsumedNonce
  <2>2. \A n \in tried' : createdAt'[n] # Never /\ \A v \in Workers : store'[v][n] # "fresh"
    BY <1>1, <2>1 DEF AInv, NoncePlaces, TypeOK
  <2>. QED  BY <1>1, <2>1, <2>2 DEF AInv, NoncePlaces, TypeOK
<1>4. CASE store[w][k] = "fresh" /\ Consumed(w, k) /\ Authentic(m) /\ SignedIn(m, m.signer)
  <2>1. /\ tokens' \in SUBSET Tokens /\ signers' \in SUBSET Wallets
        /\ reply' = 200 /\ TokensTraceable'
        /\ accepted' = [accepted EXCEPT ![k] = @ + 1]
    BY <1>4, SignedInFacts
  <2>2. accepted \in [Nonces -> Nat] /\ accepted[k] = 0
    BY <1>1, <1>3, <1>4 DEF AInv, TypeOK, AcceptedTried
  <2>3. /\ accepted' \in [Nonces -> Nat] /\ accepted'[k] = 1
        /\ \A n \in Nonces \ {k} : accepted'[n] = accepted[n]
    BY <1>1, <2>1, <2>2
  <2>4. AcceptedTried' /\ SingleUse'
    BY <1>3, <1>4, <2>3 DEF AInv, AcceptedTried, SingleUse
  <2>5. \A n \in tried : accepted'[n] = accepted[n]
    BY <1>3, <1>4, <2>3 DEF AInv, TypeOK
  <2>6. TypeOK'
    BY <1>1, <1>3, <1>4, <2>1, <2>3 DEF AInv, TypeOK
  <2>. QED  BY <1>2, <1>3, <1>4, <2>1, <2>4, <2>5, <2>6 DEF AInv
<1>5. CASE store[w][k] = "fresh" /\ Consumed(w, k) /\ Refused
  <2>1. TypeOK'
    BY <1>1, <1>3, <1>5 DEF AInv, TypeOK, Refused
  <2>2. AcceptedTried' /\ SingleUse' /\ TokensTraceable'
    BY <1>3, <1>5 DEF AInv, AcceptedTried, SingleUse, TokensTraceable, Refused
  <2>3. \A n \in tried : accepted'[n] = accepted[n]
    BY <1>5 DEF Refused
  <2>. QED  BY <1>2, <1>3, <1>5, <2>1, <2>2, <2>3 DEF AInv
<1>6. CASE Rejected(w, k) /\ Refused
  <2>1. tried' = tried /\ UNCHANGED <<tokens, accepted, signers>> /\ reply' = 401
    BY <1>6 DEF Rejected, Refused
  <2>2. TypeOK' /\ AcceptedTried' /\ SingleUse' /\ TokensTraceable'
    BY <1>1, <2>1 DEF AInv, TypeOK, AcceptedTried, SingleUse, TokensTraceable
  <2>3. NoncePlaces'
    BY <1>1, <2>1 DEF AInv, NoncePlaces
  <2>. QED  BY <1>2, <2>1, <2>2, <2>3 DEF AInv
<1>. QED  BY <1>4, <1>5, <1>6 DEF Verify

LEMMA RefreshAInv ==
  ASSUME AInv, NEW t \in tokens, Refresh(t)
  PROVE  AInv'
<1>1. t \in Tokens /\ t.wallet \in Wallets /\ t.chain \in Chains /\ t.wallet \in signers /\ now \in Nat
  BY DEF AInv, TypeOK, Tokens, TokensTraceable
<1>2. /\ NewTokens(t.wallet, t.chain) \in SUBSET Tokens
      /\ \A u \in NewTokens(t.wallet, t.chain) : u.wallet = t.wallet
  BY <1>1, NewTokensType
<1>3. TypeOK' /\ TokensTraceable'
  BY <1>1, <1>2 DEF AInv, TypeOK, TokensTraceable, Refresh
<1>4. NoncePlaces' /\ AcceptedTried' /\ SingleUse' /\ Clocked' /\ StoreBounded'
  BY DEF AInv, NoncePlaces, AcceptedTried, SingleUse, Clocked, StoreBounded, Refresh
<1>. QED  BY <1>3, <1>4 DEF AInv

-----------------------------------------------------------------------------
LEMMA StepAInv == AInv /\ [Next]_vars => AInv' /\ (\A n \in tried : accepted'[n] = accepted[n])
<1> SUFFICES ASSUME AInv, [Next]_vars
             PROVE  AInv' /\ \A n \in tried : accepted'[n] = accepted[n]
  OBVIOUS
<1>1. CASE Tick
  BY <1>1, TickAInv DEF Tick
<1>2. ASSUME NEW w \in Workers, Restart(w)
      PROVE  AInv' /\ accepted' = accepted
  BY <1>2, RestartAInv DEF Restart
<1>3. ASSUME NEW w \in Workers, NEW n \in Nonces, Generate(w, n)
      PROVE  AInv' /\ accepted' = accepted
  BY <1>3, GenerateAInv DEF Generate
<1>4. ASSUME NEW w \in Workers, NEW m \in Messages, Verify(w, m)
      PROVE  AInv' /\ \A n \in tried : accepted'[n] = accepted[n]
  BY <1>4, VerifyAInv
<1>5. ASSUME NEW t \in tokens, Refresh(t)
      PROVE  AInv' /\ accepted' = accepted
  BY <1>5, RefreshAInv DEF Refresh
<1>6. CASE UNCHANGED vars
  BY <1>6 DEF vars, AInv, TypeOK, NoncePlaces, AcceptedTried, SingleUse, TokensTraceable,
    Clocked, StoreBounded
<1>. QED  BY <1>1, <1>2, <1>3, <1>4, <1>5, <1>6 DEF Next

LEMMA Invariance == Spec => []AInv
BY InitAInv, StepAInv, PTL DEF Spec

\* Every variable of the sign-in keeps its type: no token is ever made for
\* something that is not a wallet.
THEOREM TypeCorrect == Spec => []TypeOK
<1>1. AInv => TypeOK
  BY DEF AInv
<1>. QED  BY <1>1, Invariance, PTL

\* A nonce signs in once at most, over all workers, restarts and clean-ups.
THEOREM NonceSignsInOnce == Spec => []SingleUse
<1>1. AInv => SingleUse
  BY DEF AInv
<1>. QED  BY <1>1, Invariance, PTL

\* The first message with a nonce that its worker accepts decides about it.
THEOREM NonceBurns == Spec => FirstTryDecides
<1>1. AInv /\ [Next]_vars => [\A n \in tried : accepted'[n] = accepted[n]]_vars
  BY StepAInv
<1>. QED  BY <1>1, Invariance, PTL DEF Spec, FirstTryDecides

\* Every token goes back to an accepted signature of its wallet.
THEOREM TokensComeFromSignatures == Spec => []TokensTraceable
<1>1. AInv => TokensTraceable
  BY DEF AInv
<1>. QED  BY <1>1, Invariance, PTL

\* No store keeps nonces of more than one lifetime.
THEOREM StoresStayBounded == Spec => []StoreBounded
<1>1. AInv => StoreBounded
  BY DEF AInv
<1>. QED  BY <1>1, Invariance, PTL
=============================================================================
