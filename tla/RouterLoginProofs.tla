------------------------- MODULE RouterLoginProofs -------------------------
(* Theorems about RouterLogin, for every set of users and of connections,   *)
(* every limit and every length of the clock.                               *)
EXTENDS RouterLogin, AgedCountsProofs, TLAPS

\* Whoever is connected is somebody, and only a session at the prompt enrolls.
SessionInv ==
    \A s \in Sessions :
        /\ stage[s] # "none" => owner[s] \in Users
        /\ stage[s] # "prompt" => tentative[s] = None
        /\ stage[s] = "open" => secret_used[s] # None

\* An account enrolls or is enrolled; a secret was generated once, for one account.
SecretInv ==
    /\ \A u \in Users : otp_secret[u] # None => shared_secret[u] = None
    /\ \A u \in Users : otp_secret[u] < next_secret /\ shared_secret[u] < next_secret
    /\ \A u, v \in Users : u # v =>
          /\ otp_secret[u] # None => otp_secret[u] # otp_secret[v] /\ otp_secret[u] # shared_secret[v]
          /\ shared_secret[u] # None => shared_secret[u] # shared_secret[v]

\* What a session at the prompt enrolls with: the secret its account is enrolling with, and
\* once another session has confirmed that one, the secret on file.
OfferInv ==
    \A s \in Sessions : tentative[s] # None =>
        tentative[s] = IF otp_secret[owner[s]] = None THEN shared_secret[owner[s]]
                                                      ELSE otp_secret[owner[s]]

\* The codes that were used: none of a secret that is only offered, and of a secret on file
\* only such as the counter has passed.
SpentInv ==
    /\ replayed = {}
    /\ \A c \in spent : c[1] < next_secret
    /\ \A c \in spent : \A u \in Users :
          /\ c[1] # shared_secret[u]
          /\ c[1] = otp_secret[u] => c[2] <= otp_counter[u]

\* The code's counter of failures covers every guess of the last |Block| ticks, and while a
\* block is on record, no guess is young enough to be counted beside one made after it.
BlockInv ==
    \A u \in Users :
        /\ blocked_until[u] = 0 => failures[u] < MaxFailedAttempts
        /\ CountWithin(guesses[u], Ages) <= failures[u]
        /\ blocked_until[u] # 0 =>
              \A a \in Ages : guesses[u][a] # 0 => now + Block <= blocked_until[u] + a

LoginInv ==
    /\ TypeOK
    /\ SessionInv
    /\ OnlyEnabledAccounts
    /\ EarnedByStoredSecret
    /\ SecretInv
    /\ OfferInv
    /\ SpentInv
    /\ BlockInv

----------------------------------------------------------------------------
(* Constants and operators                                                 *)

LEMMA ConstantFacts ==
    /\ MaxClients \in Nat /\ WindowSteps \in Nat
    /\ MaxFailedAttempts \in Nat /\ MaxFailedAttempts >= 1
    /\ Block \in Nat /\ Block >= 1
    /\ MaxTime \in Nat /\ MaxSecrets \in Nat /\ MaxTokens \in Nat
    /\ None \notin Secrets /\ None \notin TokenIds
    /\ NoUser \notin Users
BY BoundsAssumption, NoUserAssumption DEF None, Secrets, TokenIds

\* What stopping sessions leaves of them.
LEMMA SessionsAfterStop ==
    ASSUME TypeOK, NEW gone \in SUBSET Sessions, StopClients(gone)
    PROVE  /\ stage' \in [Sessions -> {"none", "handshake", "prompt", "open"}]
           /\ owner' \in [Sessions -> Users \union {NoUser}]
           /\ tentative' \in [Sessions -> Secrets \union {None}]
           /\ token_rejected' \in [Sessions -> BOOLEAN]
           /\ token_id' \in [Sessions -> TokenIds \union {None}]
           /\ secret_used' \in [Sessions -> Secrets \union {None}]
           /\ \A s \in gone : stage'[s] = "none" /\ tentative'[s] = None
           /\ \A s \in Sessions \ gone :
                /\ stage'[s] = stage[s] /\ owner'[s] = owner[s] /\ tentative'[s] = tentative[s]
                /\ secret_used'[s] = secret_used[s]
BY DEF TypeOK, StopClients

LEMMA NoGuessesFacts ==
    /\ NoGuesses \in [Ages -> Nat]
    /\ CountWithin(NoGuesses, Ages) = 0
<1>1. NoGuesses \in [Ages -> Nat] /\ \A a \in Ages : NoGuesses[a] = 0
  BY DEF NoGuesses
<1> QED
  BY <1>1, ConstantFacts, NothingCounted DEF Ages

\* forgetUser starts a new series of failures.
LEMMA ForgetKeepsBlockInv ==
    ASSUME TypeOK, BlockInv, NEW u \in Users, ForgetUser(u), now' = now
    PROVE  /\ failures' \in [Users -> 0 .. MaxFailedAttempts]
           /\ blocked_until' \in [Users -> 0 .. MaxTime + Block]
           /\ shared_secret' \in [Users -> Secrets \union {None}]
           /\ guesses' \in [Users -> [Ages -> Nat]]
           /\ shared_secret'[u] = None
           /\ \A v \in Users : v # u => shared_secret'[v] = shared_secret[v]
           /\ BlockInv'
<1> USE ConstantFacts
<1>1. /\ failures' \in [Users -> 0 .. MaxFailedAttempts]
      /\ blocked_until' \in [Users -> 0 .. MaxTime + Block]
      /\ shared_secret' \in [Users -> Secrets \union {None}]
      /\ guesses' \in [Users -> [Ages -> Nat]]
  BY NoGuessesFacts DEF TypeOK, ForgetUser
<1>2. /\ shared_secret'[u] = None
      /\ \A v \in Users : v # u => shared_secret'[v] = shared_secret[v]
  BY DEF TypeOK, ForgetUser
<1>3. ASSUME NEW v \in Users
      PROVE  /\ blocked_until'[v] = 0 => failures'[v] < MaxFailedAttempts
             /\ CountWithin(guesses'[v], Ages) <= failures'[v]
             /\ blocked_until'[v] # 0 =>
                   \A a \in Ages : guesses'[v][a] # 0 => now + Block <= blocked_until'[v] + a
  <2>1. CASE v = u
    <3>1. failures'[v] = 0 /\ blocked_until'[v] = 0 /\ guesses'[v] = NoGuesses
      BY <2>1 DEF TypeOK, ForgetUser
    <3> QED
      BY <3>1, NoGuessesFacts
  <2>2. CASE v # u
    <3>1. failures'[v] = failures[v] /\ blocked_until'[v] = blocked_until[v] /\ guesses'[v] = guesses[v]
      BY <2>2 DEF TypeOK, ForgetUser
    <3> QED
      BY <3>1 DEF BlockInv
  <2> QED
    BY <2>1, <2>2
<1> QED
  BY <1>1, <1>2, <1>3 DEF BlockInv

\* Secrets may be forgotten.
LEMMA SecretsForgotten ==
    ASSUME LoginInv, next_secret' = next_secret,
           \A u \in Users : /\ shared_secret'[u] \in {shared_secret[u], None}
                            /\ otp_secret'[u] \in {otp_secret[u], None}
    PROVE  SecretInv'
<1>1. /\ \A u \in Users : otp_secret[u] \in Nat /\ shared_secret[u] \in Nat
      /\ next_secret \in Nat /\ next_secret > None /\ None \in Nat
  BY ConstantFacts DEF LoginInv, TypeOK, Secrets, None
<1> QED
  BY <1>1 DEF LoginInv, SecretInv

LEMMA StepSessionFinished ==
    ASSUME LoginInv, NEW s \in Sessions,
           StopClients({s}),
           UNCHANGED <<userVars, tokens, stateVars, now, next_secret, next_token, codeVars, guesses>>
    PROVE  LoginInv'
<1> USE ConstantFacts
<1>1. TypeOK'
  BY SessionsAfterStop DEF LoginInv, TypeOK, userVars, stateVars, codeVars
<1>2. SessionInv' /\ OnlyEnabledAccounts' /\ EarnedByStoredSecret' /\ OfferInv'
  BY SessionsAfterStop DEF LoginInv, SessionInv, OnlyEnabledAccounts, EarnedByStoredSecret,
                            OfferInv, userVars, stateVars
<1>3. SecretInv' /\ SpentInv' /\ BlockInv'
  BY DEF LoginInv, SecretInv, SpentInv, BlockInv, userVars, stateVars, codeVars
<1> QED
  BY <1>1, <1>2, <1>3 DEF LoginInv

LEMMA StepBeginHandshake ==
    ASSUME LoginInv, NEW s \in Sessions, NEW u \in Users, BeginHandshake(s, u)
    PROVE  LoginInv'
<1> USE ConstantFacts
<1>1. TypeOK'
  BY DEF LoginInv, TypeOK, BeginHandshake, userVars, stateVars, codeVars
<1>2. SessionInv' /\ OnlyEnabledAccounts' /\ EarnedByStoredSecret' /\ OfferInv'
  BY DEF LoginInv, TypeOK, SessionInv, OnlyEnabledAccounts, EarnedByStoredSecret, OfferInv, userVars, stateVars, BeginHandshake
<1>3. SecretInv' /\ SpentInv' /\ BlockInv'
  BY DEF LoginInv, SecretInv, SpentInv, BlockInv, userVars, stateVars, codeVars, BeginHandshake
<1> QED
  BY <1>1, <1>2, <1>3 DEF LoginInv

\* TwoFactorHandler::start: a secret that is offered is new, or the one the account is
\* enrolling with; a block on record is not lifted.
StartTypes ==
    /\ next_secret' \in 1 .. MaxSecrets + 1
    /\ next_secret' >= next_secret
    /\ shared_secret' \in [Users -> Secrets \union {None}]
    /\ tentative' \in [Sessions -> Secrets \union {None}]
    /\ blocked_until' \in [Users -> 0 .. MaxTime + Block]

StartEffect(s, u) ==
    /\ \A r \in Sessions : r # s => tentative'[r] = tentative[r]
    /\ \A v \in Users : v # u => shared_secret'[v] = shared_secret[v]
    /\ \/ /\ otp_secret[u] = None
          /\ tentative'[s] = shared_secret'[u] /\ shared_secret'[u] # None
          /\ \/ shared_secret'[u] = shared_secret[u] /\ next_secret' = next_secret
             \/ /\ shared_secret[u] = None
                /\ shared_secret'[u] = next_secret /\ next_secret' = next_secret + 1
       \/ /\ otp_secret[u] # None /\ next_secret' = next_secret
          /\ tentative'[s] = None /\ shared_secret'[u] = None

BlockKept ==
    \A v \in Users : \/ blocked_until'[v] = blocked_until[v]
                     \/ blocked_until[v] # 0 /\ blocked_until'[v] = now + Block

LEMMA StartFacts ==
    ASSUME LoginInv, NEW s \in Sessions, owner[s] \in Users, Start(s, owner[s])
    PROVE  StartTypes /\ StartEffect(s, owner[s]) /\ BlockKept
<1> USE ConstantFacts
<1> DEFINE u == owner[s]
<1>1. CappedBlock(u) \in 0 .. MaxTime + Block
  BY DEF LoginInv, TypeOK, CappedBlock
<1>2. \/ CappedBlock(u) = blocked_until[u]
      \/ blocked_until[u] # 0 /\ CappedBlock(u) = now + Block
  BY DEF LoginInv, TypeOK, CappedBlock
<1>3. CASE otp_secret[u] = None
  <2> DEFINE fresh == shared_secret[u] = None
             secret == IF fresh THEN next_secret ELSE shared_secret[u]
  <2>1. /\ fresh => next_secret <= MaxSecrets
        /\ next_secret' = IF fresh THEN next_secret + 1 ELSE next_secret
        /\ shared_secret' = [shared_secret EXCEPT ![u] = secret]
        /\ tentative' = [tentative EXCEPT ![s] = secret]
        /\ blocked_until' = blocked_until
    BY <1>3 DEF Start
  <2>2. secret \in Secrets
    BY <2>1 DEF LoginInv, TypeOK, Secrets
  <2>3. next_secret' \in 1 .. MaxSecrets + 1 /\ next_secret' >= next_secret
    BY <2>1 DEF LoginInv, TypeOK
  <2> QED
    BY <1>3, <2>1, <2>2, <2>3 DEF LoginInv, TypeOK, StartTypes, StartEffect, BlockKept
<1>4. CASE otp_secret[u] # None
  <2>1. /\ tentative' = [tentative EXCEPT ![s] = None]
        /\ shared_secret' = [shared_secret EXCEPT ![u] = None]
        /\ blocked_until' = [blocked_until EXCEPT ![u] = CappedBlock(u)]
        /\ next_secret' = next_secret
    BY <1>4 DEF Start
  <2>2. StartTypes
    BY <1>1, <2>1 DEF LoginInv, TypeOK, StartTypes
  <2>3. StartEffect(s, u)
    BY <1>4, <2>1 DEF LoginInv, TypeOK, StartEffect
  <2>4. BlockKept
    BY <1>2, <2>1 DEF LoginInv, TypeOK, BlockKept
  <2> QED
    BY <2>2, <2>3, <2>4
<1> QED
  BY <1>3, <1>4

\* A block that is kept, or cut to its full length, still covers the guesses before it.
LEMMA KeptBlockCovers ==
    ASSUME LoginInv, BlockKept, blocked_until' \in [Users -> 0 .. MaxTime + Block],
           UNCHANGED <<failures, now, guesses>>
    PROVE  BlockInv'
<1> USE ConstantFacts
<1>1. \A u \in Users : blocked_until'[u] = 0 => blocked_until[u] = 0
  BY DEF LoginInv, TypeOK, BlockKept
<1>2. ASSUME NEW u \in Users, blocked_until'[u] # 0, NEW a \in Ages, guesses[u][a] # 0
      PROVE  now + Block <= blocked_until'[u] + a
  <2>1. a \in Nat
    BY DEF Ages, AgesWithin
  <2> QED
    BY <1>2, <2>1 DEF LoginInv, TypeOK, BlockInv, BlockKept
<1> QED
  BY <1>1, <1>2 DEF LoginInv, BlockInv

\* A secret that is offered afresh collides with none in use.
LEMMA StartKeepsSecrets ==
    ASSUME LoginInv, NEW s \in Sessions, owner[s] \in Users, Start(s, owner[s]),
           UNCHANGED <<userVars, failures, owner, now, codeVars, guesses>>
    PROVE  SecretInv' /\ OfferInv' /\ SpentInv' /\ BlockInv'
<1> USE ConstantFacts
<1> DEFINE u == owner[s]
<1>1. StartTypes /\ StartEffect(s, u) /\ BlockKept
  BY StartFacts
<1>2. SecretInv'
  <2>1. /\ \A v \in Users : otp_secret[v] \in Nat /\ shared_secret[v] \in Nat
        /\ next_secret \in Nat /\ None \in Nat
    BY DEF LoginInv, TypeOK, Secrets, None
  <2>2. otp_secret' = otp_secret
    BY DEF userVars
  <2>3. ASSUME NEW v \in Users
        PROVE  /\ otp_secret[v] # None => shared_secret'[v] = None
               /\ otp_secret[v] < next_secret' /\ shared_secret'[v] < next_secret'
    BY <1>1, <2>1 DEF LoginInv, SecretInv, StartEffect
  <2>4. ASSUME NEW v \in Users
        PROVE  \/ shared_secret'[v] = shared_secret[v]
               \/ shared_secret'[v] = None
               \/ v = u /\ shared_secret'[v] = next_secret
    BY <1>1 DEF StartEffect
  <2>5. ASSUME NEW v \in Users, NEW w \in Users, v # w
        PROVE  /\ otp_secret[v] # None => /\ otp_secret[v] # otp_secret[w]
                                          /\ otp_secret[v] # shared_secret'[w]
               /\ shared_secret'[v] # None => shared_secret'[v] # shared_secret'[w]
    BY <2>1, <2>4, <2>5 DEF LoginInv, SecretInv
  <2> QED
    BY <2>2, <2>3, <2>5 DEF SecretInv
<1>3. OfferInv'
  BY <1>1 DEF LoginInv, TypeOK, SessionInv, OfferInv, userVars, StartEffect
<1>4. SpentInv'
  <2>1. \A c \in spent : c[1] \in Nat \ {0}
    BY DEF LoginInv, TypeOK, Secrets
  <2> QED
    BY <1>1, <2>1 DEF LoginInv, TypeOK, SpentInv, userVars, codeVars, None, StartTypes, StartEffect
<1>5. BlockInv'
  BY <1>1, KeptBlockCovers DEF StartTypes
<1> QED
  BY <1>2, <1>3, <1>4, <1>5

LEMMA StepNewConnection ==
    ASSUME LoginInv, NEW s \in Sessions, NewConnection(s)
    PROVE  LoginInv'
<1> USE ConstantFacts
<1>1. owner[s] \in Users /\ Start(s, owner[s])
  BY DEF LoginInv, SessionInv, NewConnection
<1>2. SecretInv' /\ OfferInv' /\ SpentInv' /\ BlockInv'
  BY <1>1, StartKeepsSecrets DEF NewConnection
<1>3. TypeOK'
  BY <1>1, StartFacts DEF StartTypes, LoginInv, TypeOK, NewConnection, userVars, codeVars
<1>4. SessionInv' /\ OnlyEnabledAccounts' /\ EarnedByStoredSecret'
  BY <1>1, StartFacts DEF StartTypes, StartEffect, LoginInv, TypeOK, SessionInv, OnlyEnabledAccounts, EarnedByStoredSecret,
                          NewConnection, userVars
<1> QED
  BY <1>2, <1>3, <1>4 DEF LoginInv

LEMMA StepRejectToken ==
    ASSUME LoginInv, NEW s \in Sessions, NEW expired, RejectToken(s, expired)
    PROVE  LoginInv'
<1> USE ConstantFacts
<1>1. owner[s] \in Users /\ Start(s, owner[s]) /\ stage[s] = "prompt"
  BY DEF LoginInv, SessionInv, RejectToken, MayPresentToken, AtPrompt
<1>2. SecretInv' /\ OfferInv' /\ SpentInv' /\ BlockInv'
  BY <1>1, StartKeepsSecrets DEF RejectToken
<1>3. TypeOK'
  BY <1>1, StartFacts DEF StartTypes, LoginInv, TypeOK, RejectToken, Prune, userVars, codeVars
<1>4. SessionInv' /\ OnlyEnabledAccounts' /\ EarnedByStoredSecret'
  BY <1>1, StartFacts DEF StartTypes, StartEffect, LoginInv, TypeOK, SessionInv, OnlyEnabledAccounts, EarnedByStoredSecret,
                          RejectToken, Prune, userVars
<1> QED
  BY <1>2, <1>3, <1>4 DEF LoginInv

LEMMA StepBlockedAttempt ==
    ASSUME LoginInv, NEW s \in Sessions, BlockedAttempt(s)
    PROVE  LoginInv'
<1> USE ConstantFacts
<1> DEFINE u == owner[s]
<1>1. u \in Users /\ StopClients({s})
  BY DEF LoginInv, SessionInv, BlockedAttempt, AtPrompt
<1>2. blocked_until' \in [Users -> 0 .. MaxTime + Block] /\ BlockKept
  BY <1>1 DEF LoginInv, TypeOK, CappedBlock, BlockedAttempt, BlockKept
<1>3. TypeOK'
  BY <1>1, <1>2, SessionsAfterStop DEF LoginInv, TypeOK, BlockedAttempt, userVars, codeVars
<1>4. SessionInv' /\ OnlyEnabledAccounts' /\ EarnedByStoredSecret' /\ OfferInv'
  BY <1>1, SessionsAfterStop DEF LoginInv, SessionInv, OnlyEnabledAccounts, EarnedByStoredSecret,
                                 OfferInv, BlockedAttempt, userVars
<1>5. SecretInv' /\ SpentInv'
  BY DEF LoginInv, SecretInv, SpentInv, BlockedAttempt, userVars, codeVars
<1>6. BlockInv'
  BY <1>2, KeptBlockCovers DEF BlockedAttempt
<1> QED
  BY <1>3, <1>4, <1>5, <1>6 DEF LoginInv

\* A guess of an enrolled user: the series it belongs to is the one that failures counts.
LEMMA StepWrongCode ==
    ASSUME LoginInv, NEW s \in Sessions, WrongCode(s)
    PROVE  LoginInv'
<1> USE ConstantFacts
<1> DEFINE u == owner[s]
           n == FailuresSoFar(u) + 1
<1>1. u \in Users /\ StopClients({s}) /\ now >= blocked_until[u]
  BY DEF LoginInv, SessionInv, WrongCode, MayVerify, AtPrompt
<1>2. /\ failures' = [failures EXCEPT ![u] = n]
      /\ blocked_until' = [blocked_until EXCEPT ![u] = IF n >= MaxFailedAttempts THEN now + Block ELSE 0]
      /\ guesses' = [guesses EXCEPT ![u] = CountNow(guesses[u])]
  BY <1>1 DEF WrongCode, RegisterFailedAttempt, LoginInv, TypeOK
<1>3. n \in 1 .. MaxFailedAttempts
  BY <1>1 DEF FailuresSoFar, LoginInv, TypeOK, BlockInv
<1>4. 0 \in Ages /\ guesses[u] \in [Ages -> Nat] /\ Ages \in SUBSET AgesWithin(Block)
  BY <1>1 DEF LoginInv, TypeOK, Ages, AgesWithin
<1>5. /\ CountNow(guesses[u]) \in [Ages -> Nat]
      /\ CountWithin(CountNow(guesses[u]), Ages) = CountWithin(guesses[u], Ages) + 1
  BY <1>4, OneMoreCounted DEF Ages
<1>6. CountWithin(guesses[u], Ages) \in Nat
  BY <1>4, CountsAreFinite DEF Ages
\* A block that has run out has outlived the guesses that led to it.
<1>7. CountWithin(guesses[u], Ages) <= FailuresSoFar(u)
  <2>1. CASE blocked_until[u] = 0
    BY <1>1, <2>1 DEF FailuresSoFar, LoginInv, BlockInv
  <2>2. CASE blocked_until[u] # 0
    <3>1. ASSUME NEW a \in Ages, guesses[u][a] # 0 PROVE FALSE
      <4>1. a \in Nat /\ a < Block
        BY DEF Ages, AgesWithin
      <4>2. now + Block <= blocked_until[u] + a
        BY <1>1, <2>2, <3>1 DEF LoginInv, BlockInv
      <4> QED
        BY <1>1, <4>1, <4>2 DEF LoginInv, TypeOK
    <3>2. CountWithin(guesses[u], Ages) = 0
      BY <1>4, <3>1, NothingCounted DEF Ages
    <3> QED
      BY <1>1, <2>2, <3>2 DEF FailuresSoFar
  <2> QED
    BY <2>1, <2>2
<1>8. TypeOK'
  <2>1. /\ failures' \in [Users -> 0 .. MaxFailedAttempts]
        /\ blocked_until' \in [Users -> 0 .. MaxTime + Block]
        /\ guesses' \in [Users -> [Ages -> Nat]]
    BY <1>1, <1>2, <1>3, <1>5 DEF LoginInv, TypeOK
  <2> QED
    BY <1>1, <2>1, SessionsAfterStop DEF LoginInv, TypeOK, WrongCode, userVars, codeVars
<1>9. SessionInv' /\ OnlyEnabledAccounts' /\ EarnedByStoredSecret' /\ OfferInv'
  BY <1>1, SessionsAfterStop DEF LoginInv, SessionInv, OnlyEnabledAccounts, EarnedByStoredSecret,
                                 OfferInv, WrongCode, userVars
<1>10. SecretInv' /\ SpentInv'
  BY DEF LoginInv, SecretInv, SpentInv, WrongCode, userVars, codeVars
<1>11. ASSUME NEW v \in Users
       PROVE  /\ blocked_until'[v] = 0 => failures'[v] < MaxFailedAttempts
              /\ CountWithin(guesses'[v], Ages) <= failures'[v]
              /\ blocked_until'[v] # 0 =>
                    \A a \in Ages : guesses'[v][a] # 0 => now' + Block <= blocked_until'[v] + a
  <2>1. CASE v = u
    <3>1. /\ failures'[v] = n /\ guesses'[v] = CountNow(guesses[u])
          /\ blocked_until'[v] = IF n >= MaxFailedAttempts THEN now + Block ELSE 0
      BY <1>1, <1>2, <2>1 DEF LoginInv, TypeOK
    <3>2. CountWithin(guesses'[v], Ages) <= failures'[v]
      BY <1>1, <1>3, <1>5, <1>6, <1>7, <3>1 DEF FailuresSoFar, LoginInv, TypeOK
    <3>3. \A a \in Ages : a \in Nat
      BY DEF Ages, AgesWithin
    <3>4. now \in Nat /\ now' = now
      BY DEF LoginInv, TypeOK, WrongCode
    <3> QED
      BY <1>3, <3>1, <3>2, <3>3, <3>4
  <2>2. CASE v # u
    <3>1. failures'[v] = failures[v] /\ blocked_until'[v] = blocked_until[v] /\ guesses'[v] = guesses[v]
      BY <1>1, <1>2, <2>2 DEF LoginInv, TypeOK
    <3> QED
      BY <3>1 DEF LoginInv, BlockInv, WrongCode
  <2> QED
    BY <2>1, <2>2
<1> QED
  BY <1>8, <1>9, <1>10, <1>11 DEF LoginInv, BlockInv

----------------------------------------------------------------------------
(* The answers that open a session                                         *)

\* completeTwoFactor opens the one session, or drops it and leaves no trace of the code.
CompleteEffect(s, secret, code) ==
    /\ \A r \in Sessions : r # s =>
          /\ stage'[r] = stage[r] /\ owner'[r] = owner[r] /\ tentative'[r] = tentative[r]
          /\ secret_used'[r] = secret_used[r]
    /\ tentative'[s] = None
    /\ \/ /\ stage'[s] = "open" /\ owner'[s] = owner[s] /\ account[owner[s]] = "enabled"
          /\ secret_used'[s] = secret
          /\ spent' = spent \union code /\ replayed' = replayed \union (spent \intersect code)
       \/ stage'[s] = "none" /\ spent' = spent /\ replayed' = replayed

SessionTypes ==
    /\ stage \in [Sessions -> {"none", "handshake", "prompt", "open"}]
    /\ owner \in [Sessions -> Users \union {NoUser}]
    /\ tentative \in [Sessions -> Secrets \union {None}]
    /\ token_rejected \in [Sessions -> BOOLEAN]
    /\ token_id \in [Sessions -> TokenIds \union {None}]
    /\ secret_used \in [Sessions -> Secrets \union {None}]

LEMMA CompleteFacts ==
    ASSUME TypeOK, NEW s \in Sessions, NEW secret \in Secrets, NEW token \in TokenIds \union {None},
           NEW code \in SUBSET (Secrets \X Steps), Complete(s, secret, token, code)
    PROVE  /\ SessionTypes' /\ CompleteEffect(s, secret, code)
           /\ spent' \subseteq Secrets \X Steps /\ replayed' \subseteq spent'
<1>1. CASE StopClients({s}) /\ UNCHANGED codeVars
  <2>1. SessionTypes'
    BY <1>1, SessionsAfterStop DEF SessionTypes
  <2>2. CompleteEffect(s, secret, code)
    BY <1>1, SessionsAfterStop DEF CompleteEffect, codeVars
  <2> QED
    BY <1>1, <2>1, <2>2 DEF codeVars, TypeOK
<1>2. CASE ~ (StopClients({s}) /\ UNCHANGED codeVars)
  <2>1. /\ MayOpen(owner[s])
        /\ stage' = [stage EXCEPT ![s] = "open"]
        /\ token_id' = [token_id EXCEPT ![s] = token]
        /\ secret_used' = [secret_used EXCEPT ![s] = secret]
        /\ tentative' = [tentative EXCEPT ![s] = None]
        /\ spent' = spent \union code
        /\ replayed' = replayed \union (spent \intersect code)
        /\ UNCHANGED <<owner, token_rejected>>
    BY <1>2 DEF Complete
  <2>2. SessionTypes'
    BY <2>1 DEF TypeOK, SessionTypes
  <2>3. CompleteEffect(s, secret, code)
    BY <2>1 DEF TypeOK, CompleteEffect, MayOpen
  <2> QED
    BY <2>1, <2>2, <2>3 DEF TypeOK
<1> QED
  BY <1>1, <1>2

\* The only new token is one of the secret that was used.
LEMMA IssueTokenFacts ==
    ASSUME TypeOK, NEW u \in Users, NEW secret \in Secrets, NEW issued \in BOOLEAN,
           IssueToken(u, secret, issued)
    PROVE  /\ tokens' \subseteq [id : TokenIds, user : Users, secret : Secrets]
           /\ next_token' \in 1 .. MaxTokens + 1
           /\ (IF issued THEN next_token ELSE None) \in TokenIds \union {None}
           /\ \A t \in tokens' : t \in tokens \/ (t.user = u /\ t.secret = secret)
<1> USE ConstantFacts
<1>1. CASE issued = TRUE
  <2>1. next_token <= MaxTokens /\ next_token' = next_token + 1
    BY <1>1 DEF IssueToken
  <2>2. next_token \in TokenIds
    BY <2>1 DEF TypeOK, TokenIds
  <2>3. PICK kept \in SUBSET {t \in tokens : t.user = u} :
          tokens' = {t \in tokens : t.user # u} \union kept
                      \union {[id |-> next_token, user |-> u, secret |-> secret]}
    BY <1>1 DEF IssueToken
  <2>4. \A t \in tokens' : t \in tokens \/ t = [id |-> next_token, user |-> u, secret |-> secret]
    BY <2>3
  <2> QED
    BY <1>1, <2>1, <2>2, <2>4 DEF TypeOK
<1>2. CASE issued = FALSE
  BY <1>2 DEF IssueToken, TypeOK
<1> QED
  BY <1>1, <1>2

\* A code that is spent on the secret on file is newer than every one spent before it.
LEMMA StepAcceptCode ==
    ASSUME LoginInv, NEW s \in Sessions, NEW step \in Steps, NEW issued \in BOOLEAN,
           AcceptCode(s, step, issued)
    PROVE  LoginInv'
<1> USE ConstantFacts
<1> DEFINE u == owner[s]
           secret == otp_secret[u]
           code == {<<secret, step>>}
           token == IF issued THEN next_token ELSE None
<1>1. /\ u \in Users /\ stage[s] = "prompt" /\ secret # None /\ secret \in Secrets
      /\ tentative[s] = None
  BY DEF LoginInv, TypeOK, SessionInv, AcceptCode, MayVerify, AtPrompt
<1>2. /\ ForgetUser(u) /\ IssueToken(u, secret, issued) /\ Complete(s, secret, token, code)
      /\ step > otp_counter[u] /\ otp_counter' = [otp_counter EXCEPT ![u] = step]
      /\ UNCHANGED <<account, otp_secret, now, next_secret>>
  BY DEF AcceptCode, ConsumeUserOtpCounter, NotReplayed
<1>3. /\ tokens' \subseteq [id : TokenIds, user : Users, secret : Secrets]
      /\ next_token' \in 1 .. MaxTokens + 1
      /\ token \in TokenIds \union {None}
      /\ \A t \in tokens' : t \in tokens \/ (t.user = u /\ t.secret = secret)
  BY <1>1, <1>2, IssueTokenFacts DEF LoginInv
<1>4. code \in SUBSET (Secrets \X Steps)
  BY <1>1
<1>5. /\ SessionTypes' /\ CompleteEffect(s, secret, code)
      /\ spent' \subseteq Secrets \X Steps /\ replayed' \subseteq spent'
  <2> HIDE DEF u, secret, code, token
  <2> QED
    BY <1>1, <1>2, <1>3, <1>4, CompleteFacts DEF LoginInv
<1>6. /\ failures' \in [Users -> 0 .. MaxFailedAttempts]
      /\ blocked_until' \in [Users -> 0 .. MaxTime + Block]
      /\ shared_secret' \in [Users -> Secrets \union {None}]
      /\ guesses' \in [Users -> [Ages -> Nat]]
      /\ shared_secret'[u] = None
      /\ \A v \in Users : v # u => shared_secret'[v] = shared_secret[v]
      /\ BlockInv'
  BY <1>1, <1>2, ForgetKeepsBlockInv DEF LoginInv
<1>7. TypeOK'
  BY <1>1, <1>2, <1>3, <1>5, <1>6 DEF LoginInv, TypeOK, SessionTypes
<1>8. SessionInv' /\ OnlyEnabledAccounts'
  BY <1>1, <1>2, <1>5 DEF LoginInv, SessionInv, OnlyEnabledAccounts, CompleteEffect
<1>9. EarnedByStoredSecret'
  BY <1>1, <1>2, <1>3, <1>5 DEF LoginInv, EarnedByStoredSecret, CompleteEffect
<1>10. OfferInv'
  BY <1>1, <1>2, <1>5, <1>6 DEF LoginInv, SessionInv, OfferInv, CompleteEffect
<1>11. SecretInv'
  BY <1>2, <1>6, SecretsForgotten
<1>12. SpentInv'
  <2>1. <<secret, step>> \notin spent
    BY <1>1, <1>2 DEF LoginInv, TypeOK, SpentInv, Steps
  <2>2. replayed' = {}
    BY <1>5, <2>1 DEF LoginInv, SpentInv, CompleteEffect
  <2>3. \A c \in spent' : c \in spent \/ (c[1] = secret /\ c[2] = step)
    BY <1>5 DEF CompleteEffect
  <2>4. \A c \in spent' : c[1] < next_secret'
    BY <1>1, <1>2, <2>3 DEF LoginInv, SpentInv, SecretInv
  <2>5. ASSUME NEW c \in spent', NEW v \in Users
        PROVE  c[1] # shared_secret'[v] /\ (c[1] = otp_secret'[v] => c[2] <= otp_counter'[v])
    <3>1. c[1] \in Secrets /\ c[2] \in Nat /\ step \in Nat
      BY <1>5 DEF Steps
    <3>2. otp_counter[v] \in Nat /\ otp_counter'[v] = IF v = u THEN step ELSE otp_counter[v]
      BY <1>1, <1>2 DEF LoginInv, TypeOK, Steps
    <3>3. CASE c \in spent
      BY <1>1, <1>2, <1>6, <3>1, <3>2, <3>3 DEF LoginInv, SpentInv
    <3>4. CASE c[1] = secret /\ c[2] = step
      BY <1>1, <1>2, <1>6, <3>1, <3>2, <3>4 DEF LoginInv, SecretInv
    <3> QED
      BY <2>3, <3>3, <3>4
  <2> QED
    BY <2>2, <2>4, <2>5 DEF SpentInv
<1> QED
  BY <1>6, <1>7, <1>8, <1>9, <1>10, <1>11, <1>12 DEF LoginInv

\* The first code of a secret: nothing was spent on it while it was only offered, however
\* many sessions of the account offered it.
LEMMA StepConfirmEnrollment ==
    ASSUME LoginInv, NEW s \in Sessions, NEW step \in Steps, NEW issued \in BOOLEAN,
           ConfirmEnrollment(s, step, issued)
    PROVE  LoginInv'
<1> USE ConstantFacts
<1> DEFINE u == owner[s]
           secret == tentative[s]
           code == {<<secret, step>>}
           token == IF issued THEN next_token ELSE None
<1>1. /\ u \in Users /\ stage[s] = "prompt" /\ secret # None /\ secret \in Secrets
      /\ otp_secret[u] = None /\ secret = shared_secret[u]
  BY DEF LoginInv, TypeOK, SessionInv, OfferInv, ConfirmEnrollment, AtPrompt, MaySetOtp
<1>2. /\ ForgetUser(u) /\ IssueToken(u, secret, issued) /\ Complete(s, secret, token, code)
      /\ otp_secret' = [otp_secret EXCEPT ![u] = secret]
      /\ otp_counter' = [otp_counter EXCEPT ![u] = step]
      /\ UNCHANGED <<account, now, next_secret>>
  BY DEF ConfirmEnrollment
<1>3. /\ tokens' \subseteq [id : TokenIds, user : Users, secret : Secrets]
      /\ next_token' \in 1 .. MaxTokens + 1
      /\ token \in TokenIds \union {None}
      /\ \A t \in tokens' : t \in tokens \/ (t.user = u /\ t.secret = secret)
  BY <1>1, <1>2, IssueTokenFacts DEF LoginInv
<1>4. code \in SUBSET (Secrets \X Steps)
  BY <1>1
<1>5. /\ SessionTypes' /\ CompleteEffect(s, secret, code)
      /\ spent' \subseteq Secrets \X Steps /\ replayed' \subseteq spent'
  <2> HIDE DEF u, secret, code, token
  <2> QED
    BY <1>1, <1>2, <1>3, <1>4, CompleteFacts DEF LoginInv
<1>6. /\ failures' \in [Users -> 0 .. MaxFailedAttempts]
      /\ blocked_until' \in [Users -> 0 .. MaxTime + Block]
      /\ shared_secret' \in [Users -> Secrets \union {None}]
      /\ guesses' \in [Users -> [Ages -> Nat]]
      /\ shared_secret'[u] = None
      /\ \A v \in Users : v # u => shared_secret'[v] = shared_secret[v]
      /\ BlockInv'
  BY <1>1, <1>2, ForgetKeepsBlockInv DEF LoginInv
<1>7. TypeOK'
  BY <1>1, <1>2, <1>3, <1>5, <1>6 DEF LoginInv, TypeOK, SessionTypes
<1>8. /\ otp_secret'[u] = secret
      /\ \A v \in Users : v # u => otp_secret'[v] = otp_secret[v]
  BY <1>1, <1>2 DEF LoginInv, TypeOK
<1>9. SessionInv' /\ OnlyEnabledAccounts'
  BY <1>1, <1>2, <1>5 DEF LoginInv, SessionInv, OnlyEnabledAccounts, CompleteEffect
\* Before the enrollment the account had no open session and no token.
<1>10. EarnedByStoredSecret'
  <2>1. ASSUME NEW r \in Sessions, stage[r] = "open" PROVE owner[r] # u
    BY <1>1, <2>1 DEF LoginInv, SessionInv, EarnedByStoredSecret
  <2>2. \A t \in tokens : t.user \in Users /\ t.user # u
    BY <1>1 DEF LoginInv, TypeOK, EarnedByStoredSecret
  <2>3. \A t \in tokens' : t.secret = otp_secret'[t.user]
    BY <1>3, <1>8, <2>2 DEF LoginInv, EarnedByStoredSecret
  <2>4. ASSUME NEW r \in Sessions, stage'[r] = "open" PROVE secret_used'[r] = otp_secret'[owner'[r]]
    BY <1>1, <1>5, <1>8, <2>1, <2>4 DEF LoginInv, SessionInv, EarnedByStoredSecret, CompleteEffect
  <2> QED
    BY <2>3, <2>4 DEF EarnedByStoredSecret
<1>11. OfferInv'
  BY <1>1, <1>5, <1>6, <1>8 DEF LoginInv, SessionInv, OfferInv, CompleteEffect
<1>12. SecretInv'
  BY <1>1, <1>2, <1>6, <1>8 DEF LoginInv, TypeOK, SecretInv, None, Secrets
<1>13. SpentInv'
  <2>1. \A c \in spent : c[1] # secret
    BY <1>1 DEF LoginInv, SpentInv
  <2>2. replayed' = {}
    BY <1>5, <2>1 DEF LoginInv, SpentInv, CompleteEffect
  <2>3. \A c \in spent' : c \in spent \/ (c[1] = secret /\ c[2] = step)
    BY <1>5 DEF CompleteEffect
  <2>4. \A c \in spent' : c[1] < next_secret'
    BY <1>1, <1>2, <2>3 DEF LoginInv, SpentInv, SecretInv
  <2>5. ASSUME NEW c \in spent', NEW v \in Users
        PROVE  c[1] # shared_secret'[v] /\ (c[1] = otp_secret'[v] => c[2] <= otp_counter'[v])
    <3>1. c[1] \in Secrets /\ c[2] \in Nat /\ step \in Nat
      BY <1>5 DEF Steps
    <3>2. otp_counter[v] \in Nat /\ otp_counter'[v] = IF v = u THEN step ELSE otp_counter[v]
      BY <1>1, <1>2 DEF LoginInv, TypeOK, Steps
    <3>3. CASE c \in spent
      BY <1>1, <1>6, <1>8, <2>1, <3>1, <3>2, <3>3 DEF LoginInv, SpentInv
    <3>4. CASE c[1] = secret /\ c[2] = step
      BY <1>1, <1>6, <1>8, <3>1, <3>2, <3>4 DEF LoginInv, SecretInv
    <3> QED
      BY <2>3, <3>3, <3>4
  <2> QED
    BY <2>2, <2>4, <2>5 DEF SpentInv
<1> QED
  BY <1>6, <1>7, <1>9, <1>10, <1>11, <1>12, <1>13 DEF LoginInv

\* A token opens a session only while the secret that earned it is on file.
LEMMA StepAcceptToken ==
    ASSUME LoginInv, NEW s \in Sessions, NEW t \in tokens, AcceptToken(s, t)
    PROVE  LoginInv'
<1> USE ConstantFacts
<1> DEFINE u == owner[s]
<1>1. /\ u \in Users /\ stage[s] = "prompt" /\ t.user = u
      /\ t.secret \in Secrets /\ t.id \in TokenIds /\ t.secret = otp_secret[u] /\ otp_secret[u] # None
  BY DEF LoginInv, TypeOK, SessionInv, EarnedByStoredSecret, AcceptToken, MayPresentToken, AtPrompt
<1>2. /\ ForgetUser(u) /\ Complete(s, t.secret, t.id, {})
      /\ UNCHANGED <<userVars, tokens, now, next_secret, next_token>>
  BY DEF AcceptToken
<1>3. {} \in SUBSET (Secrets \X Steps) /\ t.id \in TokenIds \union {None}
  BY <1>1
<1>4. /\ SessionTypes' /\ CompleteEffect(s, t.secret, {})
      /\ spent' \subseteq Secrets \X Steps /\ replayed' \subseteq spent'
  BY <1>1, <1>2, <1>3, CompleteFacts DEF LoginInv
<1>5. spent' = spent /\ replayed' = replayed
  BY <1>4 DEF CompleteEffect
<1>6. /\ failures' \in [Users -> 0 .. MaxFailedAttempts]
      /\ blocked_until' \in [Users -> 0 .. MaxTime + Block]
      /\ shared_secret' \in [Users -> Secrets \union {None}]
      /\ guesses' \in [Users -> [Ages -> Nat]]
      /\ shared_secret'[u] = None
      /\ \A v \in Users : v # u => shared_secret'[v] = shared_secret[v]
      /\ BlockInv'
  BY <1>1, <1>2, ForgetKeepsBlockInv DEF LoginInv
<1>7. TypeOK'
  BY <1>2, <1>4, <1>5, <1>6 DEF LoginInv, TypeOK, SessionTypes, userVars
<1>8. SessionInv' /\ OnlyEnabledAccounts' /\ EarnedByStoredSecret'
  BY <1>1, <1>2, <1>4 DEF LoginInv, SessionInv, OnlyEnabledAccounts, EarnedByStoredSecret,
                          CompleteEffect, userVars
<1>9. OfferInv'
  BY <1>1, <1>2, <1>4, <1>6 DEF LoginInv, SessionInv, OfferInv, CompleteEffect, userVars
<1>10. SecretInv'
  BY <1>2, <1>6, SecretsForgotten DEF userVars
<1>11. SpentInv'
  <2>1. \A c \in spent : c[1] # None
    BY DEF LoginInv, TypeOK
  <2>2. \A v \in Users : shared_secret'[v] \in {shared_secret[v], None}
    BY <1>6
  <2> QED
    BY <1>2, <1>5, <2>1, <2>2 DEF LoginInv, SpentInv, userVars
<1> QED
  BY <1>6, <1>7, <1>8, <1>9, <1>10, <1>11 DEF LoginInv

----------------------------------------------------------------------------
(* Requests about a user                                                   *)

\* The sessions of an account end before its record changes under them.
LEMMA AccountStopped ==
    ASSUME LoginInv, NEW u \in Users, NEW gone \in SUBSET Sessions, ClientsOf(u) \subseteq gone,
           StopClients(gone), tokens' \subseteq tokens,
           \A v \in Users : v # u => /\ account'[v] = account[v]
                                     /\ otp_secret'[v] = otp_secret[v]
                                     /\ shared_secret'[v] = shared_secret[v],
           \A t \in tokens' : t.user = u => t.secret = otp_secret'[u]
    PROVE  SessionInv' /\ OnlyEnabledAccounts' /\ EarnedByStoredSecret' /\ OfferInv'
<1>1. ASSUME NEW r \in Sessions, stage'[r] \in {"prompt", "open"}
      PROVE  r \notin gone /\ owner[r] \in Users /\ owner[r] # u /\ owner'[r] = owner[r]
  <2>1. r \notin gone
    BY <1>1, SessionsAfterStop DEF LoginInv
  <2>2. stage'[r] = stage[r] /\ owner'[r] = owner[r]
    BY <2>1, SessionsAfterStop DEF LoginInv
  <2> QED
    BY <1>1, <2>1, <2>2 DEF LoginInv, SessionInv, ClientsOf
<1>2. SessionInv'
  BY SessionsAfterStop DEF LoginInv, SessionInv
<1>3. OnlyEnabledAccounts'
  BY <1>1, SessionsAfterStop DEF LoginInv, OnlyEnabledAccounts
<1>4. EarnedByStoredSecret'
  <2>1. \A t \in tokens : t.user \in Users
    BY DEF LoginInv, TypeOK
  <2> QED
    BY <1>1, <2>1, SessionsAfterStop DEF LoginInv, EarnedByStoredSecret
<1>5. OfferInv'
  <2>1. ASSUME NEW r \in Sessions, tentative'[r] # None PROVE stage'[r] = "prompt"
    BY <1>2, <2>1 DEF SessionInv
  <2> QED
    BY <1>1, <2>1, SessionsAfterStop DEF LoginInv, OfferInv
<1> QED
  BY <1>2, <1>3, <1>4, <1>5

\* Forgetting a secret, on file or offered, spends no code.
LEMMA SpentForgotten ==
    ASSUME LoginInv, spent' = spent, replayed' = replayed, next_secret' = next_secret,
           \A u \in Users : /\ shared_secret'[u] \in {shared_secret[u], None}
                            /\ \/ otp_secret'[u] = None
                               \/ otp_secret'[u] = otp_secret[u] /\ otp_counter'[u] = otp_counter[u]
    PROVE  SpentInv'
<1>1. \A c \in spent : c[1] # None
  BY ConstantFacts DEF LoginInv, TypeOK
<1> QED
  BY <1>1 DEF LoginInv, SpentInv

LEMMA StepAddUser ==
    ASSUME LoginInv, NEW u \in Users, NEW enabled \in BOOLEAN, AddUser(u, enabled)
    PROVE  LoginInv'
<1> USE DEF AddUser, stateVars, sessionVars, codeVars
<1>1. TypeOK'
  BY DEF LoginInv, TypeOK
<1>2. OnlyEnabledAccounts'
  BY DEF LoginInv, TypeOK, SessionInv, OnlyEnabledAccounts
<1>3. SessionInv' /\ EarnedByStoredSecret' /\ OfferInv' /\ SecretInv' /\ SpentInv' /\ BlockInv'
  BY DEF LoginInv, SessionInv, EarnedByStoredSecret, OfferInv, SecretInv, SpentInv, BlockInv
<1> QED
  BY <1>1, <1>2, <1>3 DEF LoginInv

LEMMA TokensWithoutFacts ==
    ASSUME NEW u
    PROVE  TokensWithout(u) \subseteq tokens /\ \A t \in TokensWithout(u) : t.user # u
BY DEF TokensWithout

LEMMA StepModifyUser ==
    ASSUME LoginInv, NEW u \in Users, NEW enabled \in BOOLEAN, NEW retyped \in BOOLEAN,
           NEW rotated \in BOOLEAN, ModifyUser(u, enabled, retyped, rotated)
    PROVE  LoginInv'
<1> USE ConstantFacts
<1> DEFINE gone == IF rotated \/ retyped \/ ~ enabled THEN StoppedWith(u) ELSE {}
<1>1. gone \in SUBSET Sessions /\ StopClients(gone)
  BY DEF ModifyUser, StoppedWith, ClientsOf
<1>2. /\ account' = [account EXCEPT ![u] = IF enabled THEN "enabled" ELSE "disabled"]
      /\ tokens' = IF rotated THEN TokensWithout(u) ELSE tokens
      /\ IF rotated THEN ForgetUser(u) ELSE UNCHANGED <<stateVars, guesses>>
      /\ UNCHANGED <<otp_secret, otp_counter, now, next_secret, next_token, codeVars>>
  BY DEF ModifyUser, UpdateUser
<1>3. tokens' \subseteq tokens
  BY <1>2, TokensWithoutFacts
<1>4. /\ failures' \in [Users -> 0 .. MaxFailedAttempts]
      /\ blocked_until' \in [Users -> 0 .. MaxTime + Block]
      /\ shared_secret' \in [Users -> Secrets \union {None}]
      /\ guesses' \in [Users -> [Ages -> Nat]]
      /\ \A v \in Users : v # u => shared_secret'[v] = shared_secret[v]
      /\ shared_secret'[u] \in {shared_secret[u], None}
      /\ BlockInv'
  <2>1. CASE rotated
    BY <1>2, <2>1, ForgetKeepsBlockInv DEF LoginInv
  <2>2. CASE ~ rotated
    BY <1>2, <2>2 DEF LoginInv, TypeOK, BlockInv, stateVars
  <2> QED
    BY <2>1, <2>2
<1>5. TypeOK'
  BY <1>1, <1>2, <1>3, <1>4, SessionsAfterStop DEF LoginInv, TypeOK, codeVars
<1>6. SessionInv' /\ OnlyEnabledAccounts' /\ EarnedByStoredSecret' /\ OfferInv'
  <2>1. CASE rotated \/ retyped \/ ~ enabled
    <3>1. ClientsOf(u) \subseteq gone
      BY <2>1 DEF StoppedWith
    <3>2. \A v \in Users : v # u => /\ account'[v] = account[v]
                                    /\ otp_secret'[v] = otp_secret[v]
                                    /\ shared_secret'[v] = shared_secret[v]
      BY <1>2, <1>4 DEF LoginInv, TypeOK
    <3>3. \A t \in tokens' : t.user = u => t.secret = otp_secret'[u]
      BY <1>2, <1>3 DEF LoginInv, EarnedByStoredSecret
    <3> HIDE DEF gone
    <3> QED
      BY <1>1, <1>3, <3>1, <3>2, <3>3, AccountStopped
  <2>2. CASE ~ (rotated \/ retyped \/ ~ enabled)
    <3>1. StopClients({}) /\ {} \in SUBSET Sessions /\ ~ rotated /\ enabled
      BY <1>1, <2>2
    <3>2. \A s \in Sessions : /\ stage'[s] = stage[s] /\ owner'[s] = owner[s]
                              /\ tentative'[s] = tentative[s] /\ secret_used'[s] = secret_used[s]
      BY <3>1, SessionsAfterStop DEF LoginInv
    <3>3. shared_secret' = shared_secret /\ otp_secret' = otp_secret /\ tokens' = tokens
      BY <1>2, <3>1 DEF stateVars
    <3>4. \A v \in Users : account[v] = "enabled" => account'[v] = "enabled"
      BY <1>2, <3>1 DEF LoginInv, TypeOK
    <3> QED
      BY <3>2, <3>3, <3>4 DEF LoginInv, SessionInv, OnlyEnabledAccounts, EarnedByStoredSecret, OfferInv
  <2> QED
    BY <2>1, <2>2
<1>7. SecretInv'
  BY <1>2, <1>4, SecretsForgotten
<1>8. SpentInv'
  BY <1>2, <1>4, SpentForgotten DEF codeVars
<1> QED
  BY <1>4, <1>5, <1>6, <1>7, <1>8 DEF LoginInv

LEMMA StepChangePassword ==
    ASSUME LoginInv, NEW s \in Sessions, ChangePassword(s)
    PROVE  LoginInv'
<1> USE ConstantFacts
<1> DEFINE u == owner[s]
<1>1. u \in Users
  BY DEF LoginInv, SessionInv, ChangePassword
<1>2. /\ account' = [account EXCEPT ![u] = account[u]]
      /\ tokens' = TokensWithout(u)
      /\ ForgetUser(u) /\ StopClients(StoppedWith(u))
      /\ UNCHANGED <<otp_secret, otp_counter, now, next_secret, next_token, codeVars>>
  BY DEF ChangePassword, UpdateUser
<1>3. StoppedWith(u) \in SUBSET Sessions /\ ClientsOf(u) \subseteq StoppedWith(u)
  BY DEF StoppedWith, ClientsOf
<1>4. tokens' \subseteq tokens /\ \A t \in tokens' : t.user # u
  BY <1>2, TokensWithoutFacts
<1>5. /\ failures' \in [Users -> 0 .. MaxFailedAttempts]
      /\ blocked_until' \in [Users -> 0 .. MaxTime + Block]
      /\ shared_secret' \in [Users -> Secrets \union {None}]
      /\ guesses' \in [Users -> [Ages -> Nat]]
      /\ shared_secret'[u] = None
      /\ \A v \in Users : v # u => shared_secret'[v] = shared_secret[v]
      /\ BlockInv'
  BY <1>1, <1>2, ForgetKeepsBlockInv DEF LoginInv
<1>6. account' = account
  BY <1>1, <1>2 DEF LoginInv, TypeOK
<1>7. TypeOK'
  BY <1>2, <1>3, <1>4, <1>5, <1>6, SessionsAfterStop DEF LoginInv, TypeOK, codeVars
<1>8. SessionInv' /\ OnlyEnabledAccounts' /\ EarnedByStoredSecret' /\ OfferInv'
  <2> HIDE DEF u
  <2> QED
    BY <1>1, <1>2, <1>3, <1>4, <1>5, <1>6, AccountStopped
<1>9. SecretInv'
  BY <1>2, <1>5, SecretsForgotten
<1>10. SpentInv'
  BY <1>2, <1>5, SpentForgotten DEF codeVars
<1> QED
  BY <1>5, <1>7, <1>8, <1>9, <1>10 DEF LoginInv

\* The removal of a user and the reset of the second factor: the secret goes together with
\* everything it earned.
LEMMA SecretDropped ==
    ASSUME LoginInv, NEW u \in Users,
           otp_secret' = [otp_secret EXCEPT ![u] = None],
           otp_counter' = [otp_counter EXCEPT ![u] = 0],
           tokens' = TokensWithout(u),
           account' \in [Users -> {"absent", "enabled", "disabled", "removed"}],
           \A v \in Users : v # u => account'[v] = account[v],
           ForgetUser(u), StopClients(StoppedWith(u)),
           UNCHANGED <<now, next_secret, next_token, codeVars>>
    PROVE  LoginInv'
<1> USE ConstantFacts
<1>1. StoppedWith(u) \in SUBSET Sessions /\ ClientsOf(u) \subseteq StoppedWith(u)
  BY DEF StoppedWith, ClientsOf
<1>2. tokens' \subseteq tokens /\ \A t \in tokens' : t.user # u
  BY TokensWithoutFacts
<1>3. /\ failures' \in [Users -> 0 .. MaxFailedAttempts]
      /\ blocked_until' \in [Users -> 0 .. MaxTime + Block]
      /\ shared_secret' \in [Users -> Secrets \union {None}]
      /\ guesses' \in [Users -> [Ages -> Nat]]
      /\ shared_secret'[u] = None
      /\ \A v \in Users : v # u => shared_secret'[v] = shared_secret[v]
      /\ BlockInv'
  BY ForgetKeepsBlockInv DEF LoginInv
<1>4. /\ otp_secret' \in [Users -> Secrets \union {None}] /\ otp_counter' \in [Users -> Steps]
      /\ otp_secret'[u] = None
      /\ \A v \in Users : v # u => otp_secret'[v] = otp_secret[v] /\ otp_counter'[v] = otp_counter[v]
  BY DEF LoginInv, TypeOK, Steps
<1>5. TypeOK'
  BY <1>1, <1>2, <1>3, <1>4, SessionsAfterStop DEF LoginInv, TypeOK, codeVars
<1>6. SessionInv' /\ OnlyEnabledAccounts' /\ EarnedByStoredSecret' /\ OfferInv'
  BY <1>1, <1>2, <1>3, <1>4, AccountStopped
<1>7. SecretInv'
  BY <1>3, <1>4, SecretsForgotten
<1>8. SpentInv'
  BY <1>3, <1>4, SpentForgotten DEF codeVars
<1> QED
  BY <1>3, <1>5, <1>6, <1>7, <1>8 DEF LoginInv

LEMMA StepDeleteUser ==
    ASSUME LoginInv, NEW u \in Users, DeleteUser(u)
    PROVE  LoginInv'
<1>1. /\ account' \in [Users -> {"absent", "enabled", "disabled", "removed"}]
      /\ \A v \in Users : v # u => account'[v] = account[v]
  BY DEF LoginInv, TypeOK, DeleteUser, RemoveUser
<1> QED
  BY <1>1, SecretDropped DEF DeleteUser, RemoveUser

LEMMA StepResetOtp ==
    ASSUME LoginInv, NEW u \in Users, ResetOtp(u)
    PROVE  LoginInv'
<1>1. /\ account' \in [Users -> {"absent", "enabled", "disabled", "removed"}]
      /\ \A v \in Users : v # u => account'[v] = account[v]
  BY DEF LoginInv, TypeOK, ResetOtp
<1> QED
  BY <1>1, SecretDropped DEF ResetOtp, ResetUserOtp

\* Tokens are revoked, and some sessions of the user stopped: nothing else changes.
LEMMA TokensRevoked ==
    ASSUME LoginInv, NEW gone \in SUBSET Sessions, StopClients(gone), tokens' \subseteq tokens,
           UNCHANGED <<userVars, stateVars, now, next_secret, next_token, codeVars, guesses>>
    PROVE  LoginInv'
<1> USE ConstantFacts
<1>1. TypeOK'
  BY SessionsAfterStop DEF LoginInv, TypeOK, userVars, stateVars, codeVars
<1>2. SessionInv' /\ OnlyEnabledAccounts' /\ EarnedByStoredSecret' /\ OfferInv'
  BY SessionsAfterStop DEF LoginInv, SessionInv, OnlyEnabledAccounts, EarnedByStoredSecret,
                           OfferInv, userVars, stateVars
<1>3. SecretInv' /\ SpentInv' /\ BlockInv'
  BY DEF LoginInv, SecretInv, SpentInv, BlockInv, userVars, stateVars, codeVars
<1> QED
  BY <1>1, <1>2, <1>3 DEF LoginInv

LEMMA StepRevokeTokens ==
    ASSUME LoginInv, NEW u \in Users, NEW listed \in SUBSET tokens,
           RevokeAllTokens(u) \/ RevokeTokens(u, listed)
    PROVE  LoginInv'
<1>1. CASE RevokeAllTokens(u)
  <2>1. StoppedWith(u) \in SUBSET Sessions /\ TokensWithout(u) \subseteq tokens
    BY TokensWithoutFacts DEF StoppedWith, ClientsOf
  <2> QED
    BY <1>1, <2>1, TokensRevoked DEF RevokeAllTokens
<1>2. CASE RevokeTokens(u, listed)
  <2>1. StoppedByTokens(u, listed) \in SUBSET Sessions /\ tokens \ listed \subseteq tokens
    BY DEF StoppedByTokens, ClientsOf
  <2> QED
    BY <1>2, <2>1, TokensRevoked DEF RevokeTokens
<1> QED
  BY <1>1, <1>2

----------------------------------------------------------------------------
(* The process and the clock                                               *)

LEMMA StepRestart ==
    ASSUME LoginInv, NEW reset \in Users \union {NoUser}, Restart(reset)
    PROVE  LoginInv'
<1> USE ConstantFacts
<1>1. /\ StopClients(Sessions) /\ Sessions \in SUBSET Sessions
      /\ failures' = [u \in Users |-> 0] /\ blocked_until' = [u \in Users |-> 0]
      /\ shared_secret' = [u \in Users |-> None] /\ guesses' = [u \in Users |-> NoGuesses]
      /\ UNCHANGED <<account, now, next_secret, next_token, codeVars>>
  BY DEF Restart
<1>2. \A s \in Sessions : stage'[s] = "none" /\ tentative'[s] = None
  BY <1>1, SessionsAfterStop DEF LoginInv
<1>3. /\ otp_secret' \in [Users -> Secrets \union {None}] /\ otp_counter' \in [Users -> Steps]
      /\ tokens' \subseteq tokens
      /\ \A u \in Users : \/ otp_secret'[u] = None
                          \/ otp_secret'[u] = otp_secret[u] /\ otp_counter'[u] = otp_counter[u]
      /\ \A t \in tokens' : otp_secret'[t.user] = otp_secret[t.user]
  <2>1. CASE reset \in Users /\ Exists(reset)
    <3>1. ResetUserOtp(reset)
      BY <2>1 DEF Restart
    <3>2. \A t \in tokens : t.user \in Users
      BY DEF LoginInv, TypeOK
    <3> QED
      BY <2>1, <3>1, <3>2, TokensWithoutFacts DEF ResetUserOtp, LoginInv, TypeOK, Steps
  <2>2. CASE ~ (reset \in Users /\ Exists(reset))
    BY <2>2 DEF Restart, LoginInv, TypeOK
  <2> QED
    BY <2>1, <2>2
<1>4. TypeOK'
  BY <1>1, <1>3, SessionsAfterStop, NoGuessesFacts DEF LoginInv, TypeOK, codeVars
<1>5. SessionInv' /\ OnlyEnabledAccounts' /\ OfferInv'
  BY <1>2 DEF SessionInv, OnlyEnabledAccounts, OfferInv
<1>6. EarnedByStoredSecret'
  BY <1>2, <1>3 DEF LoginInv, EarnedByStoredSecret
<1>7. \A u \in Users : shared_secret'[u] \in {shared_secret[u], None}
  BY <1>1
<1>8. SecretInv'
  BY <1>1, <1>3, <1>7, SecretsForgotten
<1>9. SpentInv'
  BY <1>1, <1>3, <1>7, SpentForgotten DEF codeVars
<1>10. BlockInv'
  <2>1. \A u \in Users : failures'[u] = 0 /\ blocked_until'[u] = 0 /\ guesses'[u] = NoGuesses
    BY <1>1
  <2> QED
    BY <2>1, NoGuessesFacts DEF BlockInv
<1> QED
  BY <1>4, <1>5, <1>6, <1>8, <1>9, <1>10 DEF LoginInv

\* A tick takes from the time a block has to run as much as it adds to the age of a guess.
LEMMA StepTick ==
    ASSUME LoginInv, Tick
    PROVE  LoginInv'
<1> USE ConstantFacts
<1> USE DEF Tick, userVars, stateVars, sessionVars, codeVars
<1>1. \A u \in Users : guesses[u] \in [Ages -> Nat] /\ guesses'[u] = Aged(guesses[u])
  BY DEF LoginInv, TypeOK
<1>2. ASSUME NEW u \in Users
      PROVE  /\ Aged(guesses[u]) \in [Ages -> Nat]
             /\ CountWithin(Aged(guesses[u]), Ages) <= CountWithin(guesses[u], Ages)
             /\ CountWithin(guesses[u], Ages) \in Nat /\ CountWithin(Aged(guesses[u]), Ages) \in Nat
  <2>1. \A a \in Ages : a # 0 => a - 1 \in Ages
    BY DEF Ages, AgesWithin
  <2>2. /\ Aged(guesses[u]) \in [Ages -> Nat]
        /\ CountWithin(Aged(guesses[u]), Ages) <= CountWithin(guesses[u], Ages)
    BY <1>1, <2>1, EverythingAges DEF Ages
  <2> QED
    BY <1>1, <2>2, CountsAreFinite DEF Ages
<1>3. TypeOK'
  BY <1>2 DEF LoginInv, TypeOK
<1>4. SessionInv' /\ OnlyEnabledAccounts' /\ EarnedByStoredSecret' /\ OfferInv' /\ SecretInv' /\ SpentInv'
  BY DEF LoginInv, SessionInv, OnlyEnabledAccounts, EarnedByStoredSecret, OfferInv, SecretInv, SpentInv
<1>5. ASSUME NEW u \in Users
      PROVE  CountWithin(guesses'[u], Ages) <= failures'[u]
  <2>1. CountWithin(guesses[u], Ages) <= failures[u] /\ failures[u] \in Nat /\ failures' = failures
    BY DEF LoginInv, BlockInv, TypeOK
  <2> QED
    BY <1>1, <1>2, <2>1
<1>6. ASSUME NEW u \in Users, blocked_until'[u] # 0, NEW a \in Ages, guesses'[u][a] # 0
      PROVE  now' + Block <= blocked_until'[u] + a
  <2>1. a # 0 /\ a \in Nat /\ a - 1 \in Ages /\ guesses[u][a - 1] # 0
    BY <1>1, <1>6 DEF Aged, Ages, AgesWithin
  <2>2. now + Block <= blocked_until[u] + (a - 1)
    BY <1>6, <2>1 DEF LoginInv, BlockInv
  <2> QED
    BY <2>1, <2>2 DEF LoginInv, TypeOK
<1>7. BlockInv'
  BY <1>5, <1>6 DEF LoginInv, BlockInv
<1> QED
  BY <1>3, <1>4, <1>7 DEF LoginInv

LEMMA StepSetClockBack ==
    ASSUME LoginInv, NEW t \in 0 .. MaxTime, SetClockBack(t)
    PROVE  LoginInv'
<1> USE ConstantFacts
<1> USE DEF SetClockBack, userVars, stateVars, sessionVars, codeVars
<1>1. TypeOK'
  BY DEF LoginInv, TypeOK
<1>2. SessionInv' /\ OnlyEnabledAccounts' /\ EarnedByStoredSecret' /\ OfferInv' /\ SecretInv' /\ SpentInv'
  BY DEF LoginInv, SessionInv, OnlyEnabledAccounts, EarnedByStoredSecret, OfferInv, SecretInv, SpentInv
<1>3. ASSUME NEW u \in Users, blocked_until'[u] # 0, NEW a \in Ages, guesses'[u][a] # 0
      PROVE  now' + Block <= blocked_until'[u] + a
  <2>1. a \in Nat /\ now + Block <= blocked_until[u] + a
    BY <1>3 DEF LoginInv, BlockInv, Ages, AgesWithin
  <2> QED
    BY <2>1 DEF LoginInv, TypeOK
<1>4. BlockInv'
  BY <1>3 DEF LoginInv, BlockInv
<1> QED
  BY <1>1, <1>2, <1>4 DEF LoginInv

----------------------------------------------------------------------------
(* The theorems                                                            *)

LEMMA LoginInit == Init => LoginInv
<1> SUFFICES ASSUME Init PROVE LoginInv
  OBVIOUS
<1> USE ConstantFacts, NoGuessesFacts DEF Init
<1>1. TypeOK
  BY DEF TypeOK, Steps
<1>2. SessionInv /\ OnlyEnabledAccounts /\ EarnedByStoredSecret /\ OfferInv /\ SpentInv
  BY DEF SessionInv, OnlyEnabledAccounts, EarnedByStoredSecret, OfferInv, SpentInv
<1>3. SecretInv
  BY DEF SecretInv, None
<1>4. BlockInv
  BY DEF BlockInv
<1> QED
  BY <1>1, <1>2, <1>3, <1>4 DEF LoginInv

LEMMA LoginStep ==
    ASSUME LoginInv, [Next]_vars
    PROVE  LoginInv'
<1>1. ASSUME NEW s \in Sessions, NEW u \in Users, BeginHandshake(s, u) PROVE LoginInv'
  BY <1>1, StepBeginHandshake
<1>2. ASSUME NEW s \in Sessions, SessionFinished(s) \/ DropAtPrompt(s) PROVE LoginInv'
  BY <1>2, StepSessionFinished DEF SessionFinished, DropAtPrompt
<1>3. ASSUME NEW s \in Sessions, NewConnection(s) PROVE LoginInv'
  BY <1>3, StepNewConnection
<1>4. ASSUME NEW s \in Sessions, NEW n \in Steps, NEW i \in BOOLEAN,
             AcceptCode(s, n, i) \/ ConfirmEnrollment(s, n, i)
      PROVE  LoginInv'
  BY <1>4, StepAcceptCode, StepConfirmEnrollment
<1>5. ASSUME NEW s \in Sessions, BlockedAttempt(s) \/ WrongCode(s) PROVE LoginInv'
  BY <1>5, StepBlockedAttempt, StepWrongCode
<1>6. ASSUME NEW s \in Sessions, NEW t \in tokens, AcceptToken(s, t) PROVE LoginInv'
  BY <1>6, StepAcceptToken
<1>7. ASSUME NEW s \in Sessions, NEW expired, RejectToken(s, expired) PROVE LoginInv'
  BY <1>7, StepRejectToken
<1>8. ASSUME NEW u \in Users, NEW e \in BOOLEAN, AddUser(u, e) PROVE LoginInv'
  BY <1>8, StepAddUser
<1>9. ASSUME NEW u \in Users, NEW e \in BOOLEAN, NEW y \in BOOLEAN, NEW r \in BOOLEAN,
             ModifyUser(u, e, y, r)
      PROVE  LoginInv'
  BY <1>9, StepModifyUser
<1>10. ASSUME NEW s \in Sessions, ChangePassword(s) PROVE LoginInv'
  BY <1>10, StepChangePassword
<1>11. ASSUME NEW u \in Users, DeleteUser(u) \/ ResetOtp(u) PROVE LoginInv'
  BY <1>11, StepDeleteUser, StepResetOtp
<1>12. ASSUME NEW u \in Users, RevokeAllTokens(u) PROVE LoginInv'
  <2>1. {} \in SUBSET tokens
    OBVIOUS
  <2> QED
    BY <1>12, <2>1, StepRevokeTokens
<1>13. ASSUME NEW u \in Users, NEW listed \in SUBSET tokens, RevokeTokens(u, listed) PROVE LoginInv'
  BY <1>13, StepRevokeTokens
<1>14. ASSUME NEW reset \in Users \union {NoUser}, Restart(reset) PROVE LoginInv'
  BY <1>14, StepRestart
<1>15. ASSUME Tick PROVE LoginInv'
  BY <1>15, StepTick
<1>16. ASSUME NEW t \in 0 .. MaxTime, SetClockBack(t) PROVE LoginInv'
  BY <1>16, StepSetClockBack
<1>17. ASSUME UNCHANGED vars PROVE LoginInv'
  BY <1>17 DEF vars, LoginInv, TypeOK, SessionInv, OnlyEnabledAccounts, EarnedByStoredSecret,
               SecretInv, OfferInv, SpentInv, BlockInv
<1> QED
  BY <1>1, <1>2, <1>3, <1>4, <1>5, <1>6, <1>7, <1>8, <1>9, <1>10, <1>11, <1>12, <1>13, <1>14,
     <1>15, <1>16, <1>17 DEF Next

\* The inductive invariant: the secrets, codes, tokens and sessions of the accounts agree,
\* and the counter of failures covers the guesses.
THEOREM LoginInvariant == Spec => []LoginInv
BY LoginInit, LoginStep, PTL DEF Spec

\* The tables and the sessions keep their types; in particular the counter of failures
\* never passes kMaxFailedAttempts.
THEOREM TypeCorrect == Spec => []TypeOK
<1>1. LoginInv => TypeOK
  BY DEF LoginInv
<1> QED
  BY <1>1, LoginInvariant, PTL

\* A code opens at most one session, whether it enrolls or logs in, across any number of
\* sessions at the prompt, resets, restarts and clock corrections.
THEOREM NoCodeOpensTwice == Spec => []CodeOpensOnce
<1>1. LoginInv => CodeOpensOnce
  BY DEF LoginInv, SpentInv, CodeOpensOnce
<1> QED
  BY <1>1, LoginInvariant, PTL

\* No session is open for an account that is removed or disabled.
THEOREM OpenMeansEnabled == Spec => []OnlyEnabledAccounts
<1>1. LoginInv => OnlyEnabledAccounts
  BY DEF LoginInv
<1> QED
  BY <1>1, LoginInvariant, PTL

\* Sessions and device tokens go back to a code of the secret that is on file.
THEOREM EarnedBySecret == Spec => []EarnedByStoredSecret
<1>1. LoginInv => EarnedByStoredSecret
  BY DEF LoginInv
<1> QED
  BY <1>1, LoginInvariant, PTL

\* A half-done enrollment does not survive the reset, rotation or removal that ended it.
THEOREM OfferIsCurrent == Spec => []OffersCurrentSecret
<1>1. LoginInv => OffersCurrentSecret
  BY DEF LoginInv, OfferInv, OffersCurrentSecret
<1> QED
  BY <1>1, LoginInvariant, PTL

\* No interval as long as a block sees more than kMaxFailedAttempts wrong codes verified.
THEOREM GuessesStayBounded == Spec => []GuessesBounded
<1>1. ASSUME LoginInv PROVE GuessesBounded
  <2>1. ASSUME NEW u \in Users PROVE CountWithin(guesses[u], Ages) <= MaxFailedAttempts
    <3>1. CountWithin(guesses[u], Ages) <= failures[u] /\ failures[u] \in 0 .. MaxFailedAttempts
      BY <1>1 DEF LoginInv, BlockInv, TypeOK
    <3>2. CountWithin(guesses[u], Ages) \in Nat
      BY <1>1, ConstantFacts, CountsAreFinite DEF LoginInv, TypeOK, Ages
    <3> QED
      BY <3>1, <3>2, ConstantFacts
  <2> QED
    BY <2>1 DEF GuessesBounded
<1> QED
  BY <1>1, LoginInvariant, PTL

\* Whoever is refused because of a block has at most its full length to wait, wherever the
\* wall clock was set.
THEOREM BlocksNeverStretch == Spec => BlockNeverStretched
<1>1. ASSUME LoginInv, NEW s \in Sessions, BlockedAttempt(s)
      PROVE  blocked_until'[owner[s]] - now <= Block
  <2>1. owner[s] \in Users
    BY <1>1 DEF LoginInv, SessionInv, BlockedAttempt, AtPrompt
  <2>2. blocked_until'[owner[s]] = CappedBlock(owner[s])
    BY <1>1, <2>1 DEF BlockedAttempt, LoginInv, TypeOK
  <2>3. now \in Nat /\ blocked_until[owner[s]] \in Nat
    BY <1>1, <2>1, ConstantFacts DEF LoginInv, TypeOK
  <2> QED
    BY <2>2, <2>3, ConstantFacts DEF CappedBlock
<1>2. LoginInv => [\A s \in Sessions : BlockedAttempt(s) => blocked_until'[owner[s]] - now <= Block]_vars
  BY <1>1
<1> QED
  BY <1>2, LoginInvariant, PTL DEF BlockNeverStretched
============================================================================
