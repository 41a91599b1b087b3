---------------------------- MODULE RouterLogin ----------------------------
(***************************************************************************)
(* How a user of aspia_router logs in: the handshake that proves the       *)
(* password, the two-factor stage (TwoFactorHandler) of the sessions that  *)
(* ClientWorker owns, and the tables users and client_device_tokens.       *)
(*                                                                         *)
(* ClientWorker is one thread and the only writer of these tables, so a    *)
(* handler is one action.  Between the messages of a handshake, and while  *)
(* a session waits at the prompt, administrators change the account.       *)
(*                                                                         *)
(* A code is a secret and a step of the clock.  One tick is one step.      *)
(***************************************************************************)
EXTENDS Integers, FiniteSets, AgedCounts

CONSTANTS
    Users,             \* ids of user records, never reused
    NoUser,            \* the user of a connection that is not there
    Sessions,          \* identities of client connections
    MaxClients,        \* kMaxClientsPerUser
    MaxFailedAttempts, \* kMaxFailedAttempts
    Block,             \* kFailedAttemptsBlock, in steps
    WindowSteps,       \* kDefaultWindowSteps
    MaxTokensPerUser,  \* kMaxDeviceTokensPerUser
    MaxTime,           \* bound: the clock
    MaxSecrets,        \* bound: calls of generateSecret
    MaxTokens          \* bound: tokens issued

ASSUME BoundsAssumption ==
    /\ MaxClients \in Nat /\ WindowSteps \in Nat
    /\ MaxFailedAttempts \in Nat \ {0} /\ Block \in Nat \ {0} /\ MaxTokensPerUser \in Nat \ {0}
    /\ MaxTime \in Nat /\ MaxSecrets \in Nat /\ MaxTokens \in Nat

ASSUME NoUserAssumption == NoUser \notin Users

None == 0

Secrets  == 1 .. MaxSecrets
TokenIds == 1 .. MaxTokens
Steps    == 0 .. MaxTime + WindowSteps
Ages     == AgesWithin(Block)

VARIABLES
    account,        \* the user's row: absent, enabled, disabled or removed
    otp_secret,     \* users.otp_secret
    otp_counter,    \* users.otp_counter
    tokens,         \* client_device_tokens, each with the secret that earned it
    failures,       \* UserState::failures
    blocked_until,  \* UserState::blocked_until
    shared_secret,  \* UserState::tentative_secret
    stage,          \* what a connection is doing
    owner,          \* its user
    tentative,      \* TwoFactorHandler::tentative_otp_secret_
    token_rejected, \* TwoFactorHandler::token_rejected_
    token_id,       \* ClientOperator::token_id_
    secret_used,    \* the secret whose code, or token, opened the session
    now,            \* the wall clock
    next_secret,    \* secrets generated so far, plus one
    next_token,     \* tokens issued so far, plus one
    spent,          \* codes that have opened a session
    replayed,       \* codes that have opened two
    guesses         \* wrong codes of an enrolled user verified each number of ticks ago

userVars    == <<account, otp_secret, otp_counter>>
codeVars    == <<spent, replayed>>
stateVars   == <<failures, blocked_until, shared_secret>>
sessionVars == <<stage, owner, tentative, token_rejected, token_id, secret_used>>
vars == <<account, otp_secret, otp_counter, tokens, failures, blocked_until,
          shared_secret, stage, owner, tentative, token_rejected, token_id,
          secret_used, now, next_secret, next_token, spent, replayed, guesses>>

NoGuesses == [a \in Ages |-> 0]

TypeOK ==
    /\ account \in [Users -> {"absent", "enabled", "disabled", "removed"}]
    /\ otp_secret \in [Users -> Secrets \union {None}]
    /\ otp_counter \in [Users -> Steps]
    /\ tokens \subseteq [id : TokenIds, user : Users, secret : Secrets]
    /\ failures \in [Users -> 0 .. MaxFailedAttempts]
    /\ blocked_until \in [Users -> 0 .. MaxTime + Block]
    /\ shared_secret \in [Users -> Secrets \union {None}]
    /\ stage \in [Sessions -> {"none", "handshake", "prompt", "open"}]
    /\ owner \in [Sessions -> Users \union {NoUser}]
    /\ tentative \in [Sessions -> Secrets \union {None}]
    /\ token_rejected \in [Sessions -> BOOLEAN]
    /\ token_id \in [Sessions -> TokenIds \union {None}]
    /\ secret_used \in [Sessions -> Secrets \union {None}]
    /\ now \in 0 .. MaxTime
    /\ next_secret \in 1 .. MaxSecrets + 1
    /\ next_token \in 1 .. MaxTokens + 1
    /\ spent \subseteq Secrets \X Steps
    /\ replayed \subseteq spent
    /\ guesses \in [Users -> [Ages -> Nat]]

Init ==
    /\ account = [u \in Users |-> "absent"]
    /\ otp_secret = [u \in Users |-> None]
    /\ otp_counter = [u \in Users |-> 0]
    /\ tokens = {}
    /\ failures = [u \in Users |-> 0]
    /\ blocked_until = [u \in Users |-> 0]
    /\ shared_secret = [u \in Users |-> None]
    /\ stage = [s \in Sessions |-> "none"]
    /\ owner = [s \in Sessions |-> NoUser]
    /\ tentative = [s \in Sessions |-> None]
    /\ token_rejected = [s \in Sessions |-> FALSE]
    /\ token_id = [s \in Sessions |-> None]
    /\ secret_used = [s \in Sessions |-> None]
    /\ now = 0 /\ next_secret = 1 /\ next_token = 1
    /\ spent = {} /\ replayed = {}
    /\ guesses = [u \in Users |-> NoGuesses]

----------------------------------------------------------------------------
(* Sessions                                                                *)

\* stopClient, for every connection in |gone|.
StopClients(gone) ==
    /\ stage' = [s \in Sessions |-> IF s \in gone THEN "none" ELSE stage[s]]
    /\ owner' = [s \in Sessions |-> IF s \in gone THEN NoUser ELSE owner[s]]
    /\ tentative' = [s \in Sessions |-> IF s \in gone THEN None ELSE tentative[s]]
    /\ token_rejected' = [s \in Sessions |-> s \notin gone /\ token_rejected[s]]
    /\ token_id' = [s \in Sessions |-> IF s \in gone THEN None ELSE token_id[s]]
    /\ secret_used' = [s \in Sessions |-> IF s \in gone THEN None ELSE secret_used[s]]

\* clients_, those of one user.
ClientsOf(u) == {s \in Sessions : stage[s] \in {"prompt", "open"} /\ owner[s] = u}

OpenClientsOf(u) == {s \in Sessions : stage[s] = "open" /\ owner[s] = u}

\* onStopClients without token ids: the sessions at the prompt are included.
StoppedWith(u) == ClientsOf(u)

\* forgetUser
ForgetUser(u) ==
    /\ failures' = [failures EXCEPT ![u] = 0]
    /\ blocked_until' = [blocked_until EXCEPT ![u] = 0]
    /\ shared_secret' = [shared_secret EXCEPT ![u] = None]
    /\ guesses' = [guesses EXCEPT ![u] = NoGuesses]

\* ServerAuthenticator::onIdentify reads the record the handshake is about.
BeginHandshake(s, u) ==
    /\ stage[s] = "none"
    /\ account[u] = "enabled"
    /\ stage' = [stage EXCEPT ![s] = "handshake"]
    /\ owner' = [owner EXCEPT ![s] = u]
    /\ UNCHANGED <<userVars, tokens, stateVars, tentative, token_rejected, token_id, secret_used,
                   now, next_secret, next_token, codeVars, guesses>>

\* A connection ends: a network error, an administrator, the limit of clients, or an answer
\* of the two-factor handler that closes the session and leaves nothing behind (no code, a
\* replayed code, a second token, a failed read or write, a wrong code while enrolling).
SessionFinished(s) ==
    /\ stage[s] # "none"
    /\ StopClients({s})
    /\ UNCHANGED <<userVars, tokens, stateVars, now, next_secret, next_token, codeVars, guesses>>

StageExpiredUnrejected(s) == stage[s] = "prompt" /\ ~ token_rejected[s]

StageExpired(s) == stage[s] = "prompt"

\* onTimer: kTwoFactorStageTimeout.
DropAtPrompt(s) ==
    /\ StageExpired(s)
    /\ StopClients({s})
    /\ UNCHANGED <<userVars, tokens, stateVars, now, next_secret, next_token, codeVars, guesses>>

StretchedBlock(u) == blocked_until[u]

\* blockedSecondsLeft caps a block that a clock set back would stretch.
CappedBlock(u) ==
    IF now < blocked_until[u] /\ blocked_until[u] - now > Block THEN now + Block
                                                                ELSE blocked_until[u]

\* TwoFactorHandler::start for the user of |s|.
Start(s, u) ==
    IF otp_secret[u] = None
      THEN LET fresh == shared_secret[u] = None
               secret == IF fresh THEN next_secret ELSE shared_secret[u]
           IN  /\ fresh => next_secret <= MaxSecrets
               /\ next_secret' = IF fresh THEN next_secret + 1 ELSE next_secret
               /\ shared_secret' = [shared_secret EXCEPT ![u] = secret]
               /\ tentative' = [tentative EXCEPT ![s] = secret]
               /\ UNCHANGED blocked_until
      ELSE /\ tentative' = [tentative EXCEPT ![s] = None]
           /\ shared_secret' = [shared_secret EXCEPT ![u] = None]
           /\ blocked_until' = [blocked_until EXCEPT ![u] = CappedBlock(u)]
           /\ UNCHANGED next_secret

\* onNewConnection: the handshake has succeeded.
NewConnection(s) ==
    /\ stage[s] = "handshake"
    /\ Cardinality(ClientsOf(owner[s])) < MaxClients
    /\ account[owner[s]] \in {"enabled", "disabled"}
    /\ stage' = [stage EXCEPT ![s] = "prompt"]
    /\ Start(s, owner[s])
    /\ UNCHANGED <<userVars, tokens, failures, owner, token_rejected, token_id,
                   secret_used, now, next_token, codeVars, guesses>>

----------------------------------------------------------------------------
(* The answer of the client                                                *)

MayOpenIfFound(u) == account[u] \in {"enabled", "disabled"}

\* completeTwoFactor reads the account once more.
MayOpen(u) == account[u] = "enabled"

\* The session opens by |secret| and keeps |token|, or ends: the account is gone or
\* disabled, or could not be read.
Complete(s, secret, token, code) ==
    \/ /\ MayOpen(owner[s])
       /\ stage' = [stage EXCEPT ![s] = "open"]
       /\ token_id' = [token_id EXCEPT ![s] = token]
       /\ secret_used' = [secret_used EXCEPT ![s] = secret]
       /\ tentative' = [tentative EXCEPT ![s] = None]
       /\ spent' = spent \union code
       /\ replayed' = replayed \union (spent \intersect code)
       /\ UNCHANGED <<owner, token_rejected>>
    \/ StopClients({s}) /\ UNCHANGED codeVars

\* issueClientDeviceToken: |kept| is what the pruning and the trimming leave of the
\* user's tokens.  It may fail, which is not fatal.
IssueToken(u, secret, issued) ==
    IF issued
      THEN /\ next_token <= MaxTokens
           /\ \E kept \in SUBSET {t \in tokens : t.user = u} :
                /\ Cardinality(kept) < MaxTokensPerUser
                /\ tokens' = {t \in tokens : t.user # u} \union kept
                               \union {[id |-> next_token, user |-> u, secret |-> secret]}
           /\ next_token' = next_token + 1
      ELSE UNCHANGED <<tokens, next_token>>

\* Totp::verify accepts the codes of these steps.
VerifiedSteps == {n \in Steps : now - WindowSteps <= n /\ n <= now + WindowSteps}

NotReplayedYet(u, step) == step >= otp_counter[u]

\* The replay check of the handler, and the predicate of consumeUserOtpCounter.
NotReplayed(u, step) == step > otp_counter[u]

AtPrompt(s) == stage[s] = "prompt" /\ account[owner[s]] \in {"enabled", "disabled"}

\* Whether a code of the enrolled user is verified at all.
MayVerify(s) ==
    /\ AtPrompt(s)
    /\ tentative[s] = None
    /\ otp_secret[owner[s]] # None
    /\ now >= blocked_until[owner[s]]

\* consumeUserOtpCounter
ConsumeUserOtpCounter(u, step) ==
    /\ NotReplayed(u, step)
    /\ otp_counter' = [otp_counter EXCEPT ![u] = step]

\* A right code of an enrolled user.
AcceptCode(s, step, issued) ==
    LET u == owner[s] IN
    /\ MayVerify(s)
    /\ step \in VerifiedSteps
    /\ ConsumeUserOtpCounter(u, step)
    /\ ForgetUser(u)
    /\ IssueToken(u, otp_secret[u], issued)
    /\ Complete(s, otp_secret[u], IF issued THEN next_token ELSE None, {<<otp_secret[u], step>>})
    /\ UNCHANGED <<account, otp_secret, now, next_secret>>

\* setUserOtp: WHERE otp_secret=X''.
MaySetOtp(u) == otp_secret[u] = None

\* A right code for the secret the session was shown.
ConfirmEnrollment(s, step, issued) ==
    LET u == owner[s] IN
    /\ AtPrompt(s)
    /\ tentative[s] # None
    /\ step \in VerifiedSteps
    /\ MaySetOtp(u)
    /\ otp_secret' = [otp_secret EXCEPT ![u] = tentative[s]]
    /\ otp_counter' = [otp_counter EXCEPT ![u] = step]
    /\ ForgetUser(u)
    /\ IssueToken(u, tentative[s], issued)
    /\ Complete(s, tentative[s], IF issued THEN next_token ELSE None, {<<tentative[s], step>>})
    /\ UNCHANGED <<account, now, next_secret>>

\* A code that arrives while the user is blocked is not verified.
BlockedAttempt(s) ==
    LET u == owner[s] IN
    /\ AtPrompt(s)
    /\ tentative[s] = None
    /\ otp_secret[u] # None
    /\ now < blocked_until[u]
    /\ blocked_until' = [blocked_until EXCEPT ![u] = CappedBlock(u)]
    /\ StopClients({s})
    /\ UNCHANGED <<userVars, tokens, failures, shared_secret, now, next_secret, next_token, codeVars,
                   guesses>>

\* registerFailedAttempt: a block that has run out closes its series.
FailuresSoFar(u) ==
    IF blocked_until[u] # 0 /\ now >= blocked_until[u] THEN 0 ELSE failures[u]

RegisterWithoutBlock(u) ==
    /\ failures' = [failures EXCEPT ![u] = (FailuresSoFar(u) + 1) % (MaxFailedAttempts + 1)]
    /\ UNCHANGED blocked_until

RegisterFailedAttempt(u) ==
    LET count == FailuresSoFar(u) + 1 IN
    /\ failures' = [failures EXCEPT ![u] = count]
    /\ blocked_until' = [blocked_until EXCEPT ![u] =
          IF count >= MaxFailedAttempts THEN now + Block
          ELSE IF now >= @ THEN 0 ELSE @]

\* A wrong code of an enrolled user.
WrongCode(s) ==
    LET u == owner[s] IN
    /\ MayVerify(s)
    /\ RegisterFailedAttempt(u)
    /\ guesses' = [guesses EXCEPT ![u] = CountNow(@)]
    /\ StopClients({s})
    /\ UNCHANGED <<userVars, tokens, shared_secret, now, next_secret, next_token, codeVars>>

MayPresentToken(s) == AtPrompt(s) /\ tentative[s] = None /\ ~ token_rejected[s]

\* A device token of the user.
AcceptToken(s, t) ==
    /\ MayPresentToken(s)
    /\ t \in tokens
    /\ t.user = owner[s]
    /\ ForgetUser(owner[s])
    /\ Complete(s, t.secret, t.id, {})
    /\ UNCHANGED <<userVars, tokens, now, next_secret, next_token>>

\* findClientDeviceToken drops the row of a token that has expired.
Prune(expired) == tokens' = tokens \ expired

\* A token that is unknown, somebody else's, or in |expired|: the stage is opened again.
RejectToken(s, expired) ==
    /\ MayPresentToken(s)
    /\ Prune(expired)
    /\ token_rejected' = [token_rejected EXCEPT ![s] = TRUE]
    /\ Start(s, owner[s])
    /\ UNCHANGED <<userVars, failures, stage, owner, token_id, secret_used, now,
                   next_token, codeVars, guesses>>

----------------------------------------------------------------------------
(* Requests about a user, and the process                                  *)

AddUser(u, enabled) ==
    /\ account[u] = "absent"
    /\ account' = [account EXCEPT ![u] = IF enabled THEN "enabled" ELSE "disabled"]
    /\ UNCHANGED <<otp_secret, otp_counter, tokens, stateVars, sessionVars, now,
                   next_secret, next_token, codeVars, guesses>>

Exists(u) == account[u] \in {"enabled", "disabled"}

\* DELETE FROM client_device_tokens WHERE user_id=?
TokensWithout(u) == {t \in tokens : t.user # u}

\* modifyUser: a rotation of the password revokes the tokens in the same transaction.
UpdateUser(u, status, rotated) ==
    /\ Exists(u)
    /\ account' = [account EXCEPT ![u] = status]
    /\ tokens' = IF rotated THEN TokensWithout(u) ELSE tokens

\* handleModify: the flags, the session types (|retyped|) and the password (|rotated|).
ModifyUser(u, enabled, retyped, rotated) ==
    /\ UpdateUser(u, IF enabled THEN "enabled" ELSE "disabled", rotated)
    /\ IF rotated THEN ForgetUser(u) ELSE UNCHANGED <<stateVars, guesses>>
    /\ StopClients(IF rotated \/ retyped \/ ~ enabled THEN StoppedWith(u) ELSE {})
    /\ UNCHANGED <<otp_secret, otp_counter, now, next_secret, next_token, codeVars>>

\* readChangePasswordRequest, from an open session.
ChangePassword(s) ==
    LET u == owner[s] IN
    /\ stage[s] = "open"
    /\ UpdateUser(u, account[u], TRUE)
    /\ ForgetUser(u)
    /\ StopClients(StoppedWith(u))
    /\ UNCHANGED <<otp_secret, otp_counter, now, next_secret, next_token, codeVars>>

\* removeUser: the tokens go with the row.
RemoveUser(u) ==
    /\ Exists(u)
    /\ account' = [account EXCEPT ![u] = "removed"]
    /\ otp_secret' = [otp_secret EXCEPT ![u] = None]
    /\ otp_counter' = [otp_counter EXCEPT ![u] = 0]
    /\ tokens' = TokensWithout(u)

\* handleDelete
DeleteUser(u) ==
    /\ RemoveUser(u)
    /\ ForgetUser(u)
    /\ StopClients(StoppedWith(u))
    /\ UNCHANGED <<now, next_secret, next_token, codeVars>>

ResetSecretOnly(u) ==
    /\ otp_secret' = [otp_secret EXCEPT ![u] = None]
    /\ otp_counter' = [otp_counter EXCEPT ![u] = 0]
    /\ UNCHANGED tokens

\* resetUserOtp, one transaction.
ResetUserOtp(u) ==
    /\ otp_secret' = [otp_secret EXCEPT ![u] = None]
    /\ otp_counter' = [otp_counter EXCEPT ![u] = 0]
    /\ tokens' = TokensWithout(u)

\* handleResetOtp
ResetOtp(u) ==
    /\ Exists(u)
    /\ ResetUserOtp(u)
    /\ ForgetUser(u)
    /\ StopClients(StoppedWith(u))
    /\ UNCHANGED <<account, now, next_secret, next_token, codeVars>>

\* handleRevokeTokens: all tokens of a user, or the ones listed.
RevokeAllTokens(u) ==
    /\ Exists(u)
    /\ tokens' = TokensWithout(u)
    /\ StopClients(StoppedWith(u))
    /\ UNCHANGED <<userVars, stateVars, now, next_secret, next_token, codeVars, guesses>>

StoppedByTokens(u, listed) == {s \in ClientsOf(u) : token_id[s] \in {t.id : t \in listed}}

RevokeTokens(u, listed) ==
    /\ listed # {} /\ \A t \in listed : t.user = u
    /\ tokens' = tokens \ listed
    /\ StopClients(StoppedByTokens(u, listed))
    /\ UNCHANGED <<userVars, stateVars, now, next_secret, next_token, codeVars, guesses>>

\* The service is restarted, and --reset-otp may have been used on |reset| while it was
\* stopped.
Restart(reset) ==
    /\ StopClients(Sessions)
    /\ failures' = [u \in Users |-> 0]
    /\ blocked_until' = [u \in Users |-> 0]
    /\ shared_secret' = [u \in Users |-> None]
    /\ guesses' = [u \in Users |-> NoGuesses]
    /\ IF reset \in Users /\ Exists(reset)
         THEN ResetUserOtp(reset)
         ELSE UNCHANGED <<otp_secret, otp_counter, tokens>>
    /\ UNCHANGED <<account, now, next_secret, next_token, codeVars>>

Tick ==
    /\ now < MaxTime
    /\ now' = now + 1
    /\ guesses' = [u \in Users |-> Aged(guesses[u])]
    /\ UNCHANGED <<userVars, tokens, stateVars, sessionVars, next_secret, next_token, codeVars>>

\* The wall clock is corrected backwards.
SetClockBack(t) ==
    /\ t < now
    /\ now' = t
    /\ UNCHANGED <<userVars, tokens, stateVars, sessionVars, next_secret, next_token, codeVars,
                   guesses>>

Next ==
    \/ \E s \in Sessions, u \in Users : BeginHandshake(s, u)
    \/ \E s \in Sessions : SessionFinished(s)
    \/ \E s \in Sessions : DropAtPrompt(s)
    \/ \E s \in Sessions : NewConnection(s)
    \/ \E s \in Sessions, n \in Steps, i \in BOOLEAN : AcceptCode(s, n, i)
    \/ \E s \in Sessions, n \in Steps, i \in BOOLEAN : ConfirmEnrollment(s, n, i)
    \/ \E s \in Sessions : BlockedAttempt(s)
    \/ \E s \in Sessions : WrongCode(s)
    \/ \E s \in Sessions, t \in tokens : AcceptToken(s, t)
    \/ \E s \in Sessions : RejectToken(s, {})
    \/ \E s \in Sessions, t \in tokens : RejectToken(s, {t})
    \/ \E u \in Users, e \in BOOLEAN : AddUser(u, e)
    \/ \E u \in Users, e, y, r \in BOOLEAN : ModifyUser(u, e, y, r)
    \/ \E s \in Sessions : ChangePassword(s)
    \/ \E u \in Users : DeleteUser(u)
    \/ \E u \in Users : ResetOtp(u)
    \/ \E u \in Users : RevokeAllTokens(u)
    \/ \E u \in Users, listed \in SUBSET tokens : RevokeTokens(u, listed)
    \/ \E reset \in Users \union {NoUser} : Restart(reset)
    \/ Tick
    \/ \E t \in 0 .. MaxTime : SetClockBack(t)

Fairness == \A s \in Sessions : WF_vars(DropAtPrompt(s))

Spec == Init /\ [][Next]_vars

FairSpec == Spec /\ Fairness

----------------------------------------------------------------------------
(* Properties                                                              *)

\* "Replay protection: refuse any code whose step has already been consumed": a code opens
\* at most one session, whether it confirms an enrollment or logs in, however many sessions
\* of the user wait at the prompt, and across resets, restarts and clock corrections.
CodeOpensOnce == replayed = {}

\* "A user removed or disabled in between must not get in", and one that is removed or
\* disabled later does not stay: a handshake in flight while the account changes included.
OnlyEnabledAccounts ==
    \A s \in Sessions : stage[s] = "open" => account[owner[s]] = "enabled"

\* Every open session, and every device token, goes back to a code of the secret on file:
\* nothing that an earlier enrollment of the user earned outlives its reset.
EarnedByStoredSecret ==
    /\ \A s \in Sessions : stage[s] = "open" => secret_used[s] = otp_secret[owner[s]]
    /\ \A t \in tokens : t.secret = otp_secret[t.user]

\* The secret a session offers for enrollment is the one the account is enrolling with, or
\* was enrolled with by another session meanwhile: "a half-done enrollment secret" does not
\* survive a reset, a rotation of the password or the removal of the user.
OffersCurrentSecret ==
    \A s \in Sessions : tentative[s] # None =>
        tentative[s] \in {shared_secret[owner[s]], otp_secret[owner[s]]}

\* However guessers reconnect, no interval as long as a block sees more than
\* kMaxFailedAttempts wrong codes of a user verified, short of a login, an administrator's
\* intervention or a restart.
GuessesBounded ==
    \A u \in Users : CountWithin(guesses[u], Ages) <= MaxFailedAttempts

\* A clock that is set back does not stretch a block: whoever is refused because of it has
\* at most its full length to wait.
BlockNeverStretched ==
    [][\A s \in Sessions : BlockedAttempt(s) => blocked_until'[owner[s]] - now <= Block]_vars

\* A session does not stay at the two-factor stage (kTwoFactorStageTimeout).
PromptEnds == \A s \in Sessions : stage[s] = "prompt" ~> stage[s] # "prompt"
============================================================================
