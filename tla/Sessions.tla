------------------------------ MODULE Sessions ------------------------------
(***************************************************************************)
(* Authenticated calls: the SDK's middlewares, which hold and renew        *)
(* credentials, against the API's validators, which cache the keys of the  *)
(* identity providers.                                                     *)
(*                                                                         *)
(* A caller is an OAuth client (Azure or Keycloak, by its flow) or a robot *)
(* that signs its requests with a secret.  A token names the key that      *)
(* signed it; a provider publishes keys and signs with the newest.  Keys   *)
(* may be rotated, retired, or replaced under the same key id; tokens and  *)
(* signatures expire at any time; the server's key cache expires.          *)
(***************************************************************************)
EXTENDS Naturals, FiniteSets

CONSTANTS
    Caller,         \* those who call the API
    Flows,          \* the ways they may be configured: [Caller -> flow]
    Claims,         \* [Caller -> the grants its tokens carry]
    Entitlement,    \* entitlements a robot or a grant may carry
    Kid,            \* key id of each key of a provider: a sequence
    MaxSecrets,     \* bound on the secrets of a robot
    MaxFaults       \* bound on failed calls to providers

AzureFlow == {"public", "confidential", "managed"}
KeycloakFlow == {"authcode", "credentials"}
RobotFlow == {"hmac"}
NoFlow == {"none"}     \* a caller that does not exist

\* What a token or a route can ask for: the route's own permission, and the
\* entitlements.
Route == "route"

ASSUME SessionsAssumption ==
    /\ Flows \subseteq [Caller -> AzureFlow \cup KeycloakFlow \cup RobotFlow
                                   \cup NoFlow]
    /\ Claims \in [Caller -> [scp : SUBSET ({Route} \cup Entitlement),
                              roles : SUBSET ({Route} \cup Entitlement)]]
    /\ Route \notin Entitlement
    /\ MaxSecrets \in Nat \ {0}
    /\ MaxFaults \in Nat

VARIABLES
    flow,       \* [caller -> how it is configured], for good
    signing,    \* [issuer -> the key it signs with]
    published,  \* [issuer -> the keys its JWKS endpoint answers with]
    jwks,       \* [issuer -> the API's cache of those keys]
    robot,      \* [robot -> its row]
    asked,      \* [robot -> the entitlements last accepted for it]
    held,       \* [caller -> the token or the secret the caller holds]
    call,       \* [caller -> its call]
    faults      \* failed calls so far

providerVars == <<flow, signing, published>>
vars == <<flow, signing, published, jwks, robot, asked, held, call, faults>>

-----------------------------------------------------------------------------
(* Data *)

Client == {c \in Caller : flow[c] \in AzureFlow \cup KeycloakFlow}
Robot == {c \in Caller : flow[c] \in RobotFlow}
Issuer == {"azure", "keycloak"}
Key == DOMAIN Kid
NoKey == 0

\* MultiIssuerJwtAuth._select_validator: by the token's issuer.
IssuerOf(c) == IF flow[c] \in AzureFlow THEN "azure" ELSE "keycloak"

\* An access token, or a signature made with a secret.
NoToken == [key |-> NoKey, live |-> FALSE]

NewToken(i) == [key |-> signing[i], live |-> TRUE]

\* TTLCache: absent, or what the endpoint answered.  No keys at all stand for
\* a JSON body that is not a key set.
NoJwks == [there |-> FALSE, keys |-> {}]
Jwks(K) == [there |-> TRUE, keys |-> K]

\* SDK RobotIn and the robot table; secret 0 is a robot not registered.
NoRobot == [secret |-> 0, entitlements |-> {}]

NoCall == [at |-> "idle", token |-> NoToken, keys |-> {}, retried |-> FALSE,
           answer |-> "none", entitlements |-> {}]

Fault == faults < MaxFaults /\ faults' = faults + 1

Init ==
    /\ flow \in Flows
    /\ signing = [i \in Issuer |-> 1]
    /\ published = [i \in Issuer |-> {1}]
    /\ jwks = [i \in Issuer |-> NoJwks]
    /\ robot = [r \in Caller |-> NoRobot]
    /\ asked = [r \in Caller |-> {}]
    /\ held = [c \in Caller |-> NoToken]
    /\ call = [c \in Caller |-> NoCall]
    /\ faults = 0

-----------------------------------------------------------------------------
(* Identity providers, and time *)

\* The next key is published and signs from now on.  It replaces a key with
\* the same id.  (A provider nobody uses stays as it is.)
Rotate(i) ==
    LET k == signing[i] + 1
    IN  /\ k \in Key
        /\ \E c \in Client : IssuerOf(c) = i
        /\ signing' = [signing EXCEPT ![i] = k]
        /\ published' = [published EXCEPT
                            ![i] = {j \in @ : Kid[j] # Kid[k]} \cup {k}]
        /\ UNCHANGED <<flow, jwks, robot, asked, held, call, faults>>

\* A key is withdrawn once no token it signed is live.
Retire(i) ==
    /\ \E k \in published[i] \ {signing[i]} :
          /\ \A c \in Client :
                IssuerOf(c) = i => \A t \in {held[c], call[c].token} :
                                      t.key = k => ~t.live
          /\ published' = [published EXCEPT ![i] = @ \ {k}]
    /\ UNCHANGED <<flow, signing, jwks, robot, asked, held, call, faults>>

\* A client's token, or the timestamp of a robot's request, gets too old: not
\* during the call it was renewed for.
Expire(c) ==
    /\ held[c].live \/ call[c].token.live
    /\ ~call[c].retried
    /\ held' = [held EXCEPT ![c].live = @ /\ c \in Robot]
    /\ call' = [call EXCEPT ![c].token.live = FALSE]
    /\ UNCHANGED <<providerVars, jwks, robot, asked, faults>>

\* cache_ttl has passed.
CacheExpires(i) ==
    /\ jwks[i].there
    /\ jwks' = [jwks EXCEPT ![i] = NoJwks]
    /\ UNCHANGED <<providerVars, robot, asked, held, call, faults>>

-----------------------------------------------------------------------------
(* Clients *)

\* The token a client sends.  MSAL keeps live tokens and renews the others
\* itself; Keycloak's middleware keeps whatever it has until it is forced.
MustRenew(c, force) ==
    CASE flow[c] = "public" -> force \/ ~held[c].live
      [] flow[c] \in {"confidential", "managed"} -> ~held[c].live
      [] OTHER -> force \/ held[c] = NoToken

\* Mutant: a forced renewal returns the token that was cached.
GetTokenCached(c, force) ==
    IF held[c] = NoToken THEN NewToken(IssuerOf(c)) ELSE held[c]

GetToken(c, force) ==
    IF MustRenew(c, force) THEN NewToken(IssuerOf(c)) ELSE held[c]

Send(c, t, retried) ==
    call' = [call EXCEPT ![c] = [NoCall EXCEPT !.at = "sent", !.token = t,
                                               !.retried = retried]]

\* auth_flow up to the first request.
Start(c) ==
    /\ call[c].at = "idle"
    /\ held' = [held EXCEPT ![c] = GetToken(c, FALSE)]
    /\ Send(c, GetToken(c, FALSE), FALSE)
    /\ UNCHANGED <<providerVars, jwks, robot, asked, faults>>

\* The provider refuses or cannot be reached: the caller gets an exception.
LoginFails(c) ==
    /\ \/ call[c].at = "idle" /\ MustRenew(c, FALSE)
       \/ /\ call[c].at = "answered"
          /\ call[c].answer = "expired"
          /\ ~call[c].retried
          /\ MustRenew(c, TRUE)
    /\ Fault
    /\ call' = [call EXCEPT ![c] = NoCall]
    /\ UNCHANGED <<providerVars, jwks, robot, asked, held>>

\* auth_flow after a response: retry once, and only if told of an expiry.
RetryExpired(c) ==
    /\ call[c].at = "answered"
    /\ call[c].answer = "expired"
    /\ ~call[c].retried
    /\ held' = [held EXCEPT ![c] = GetToken(c, TRUE)]
    /\ Send(c, GetToken(c, TRUE), TRUE)
    /\ UNCHANGED <<providerVars, jwks, robot, asked, faults>>

Return(c) ==
    /\ call[c].at = "answered"
    /\ c \in Client => call[c].answer # "expired" \/ call[c].retried
    /\ call' = [call EXCEPT ![c] = NoCall]
    /\ UNCHANGED <<providerVars, jwks, robot, asked, held, faults>>

-----------------------------------------------------------------------------
(* The API: AzureJwtAuth, KeycloakJwtAuth *)

\* What verification says of a token, given a key set.  Azure's looks for the
\* key id first and ends the request when it is not there.
Judge(c, keys) ==
    LET t == call[c].token
        azure == IssuerOf(c) = "azure"
    IN  IF azure /\ keys = {} THEN "unreadable"
        ELSE IF azure /\ ~\E k \in keys : Kid[k] = Kid[t.key] THEN "no_key"
        ELSE IF t.key \notin keys THEN "unverified"
        ELSE IF t.live THEN "verified" ELSE "expired"

\* _require_scope_or_role and _require_role.
Permitted(c) ==
    IF IssuerOf(c) = "azure" /\ Claims[c].scp # {}
    THEN Route \in Claims[c].scp
    ELSE Route \in Claims[c].roles

\* derive_entitlements: Keycloak's tokens grant by role alone.
Derived(c) ==
    Entitlement \cap (IF IssuerOf(c) = "azure"
                      THEN Claims[c].scp \cup Claims[c].roles
                      ELSE Claims[c].roles)

Answered(c, a, e) ==
    [call[c] EXCEPT !.at = "answered", !.answer = a, !.entitlements = e]

Concluded(c, verdict) ==
    CASE verdict # "verified" -> Answered(c, verdict, {})
      [] verdict = "verified" /\ Permitted(c) -> Answered(c, "ok", Derived(c))
      [] OTHER -> Answered(c, "forbidden", {})

\* Mutant: a failed verification with cached keys ends the request.
VerifyCachedOnly(c) ==
    LET i == IssuerOf(c)
    IN  /\ call[c].at = "sent"
        /\ jwks[i].there
        /\ call' = [call EXCEPT ![c] = Concluded(c, Judge(c, jwks[i].keys))]
        /\ UNCHANGED <<providerVars, jwks, robot, asked, held, faults>>

\* verify_token with cached keys; a token they do not verify empties the
\* cache and starts over.
VerifyCached(c) ==
    LET i == IssuerOf(c)
        verdict == Judge(c, jwks[i].keys)
    IN  /\ call[c].at = "sent"
        /\ jwks[i].there
        /\ IF verdict = "unverified"
           THEN /\ jwks' = [jwks EXCEPT ![i] = NoJwks]
                /\ call' = [call EXCEPT ![c].at = "fetching"]
           ELSE /\ call' = [call EXCEPT ![c] = Concluded(c, verdict)]
                /\ UNCHANGED jwks
        /\ UNCHANGED <<providerVars, robot, asked, held, faults>>

MissCache(c) ==
    /\ call[c].at = "sent"
    /\ ~jwks[IssuerOf(c)].there
    /\ call' = [call EXCEPT ![c].at = "fetching"]
    /\ UNCHANGED <<providerVars, jwks, robot, asked, held, faults>>

\* The JWKS endpoint answers; the answer has yet to arrive.
FetchKeys(c) ==
    /\ call[c].at = "fetching"
    /\ call' = [call EXCEPT ![c].at = "fetched",
                            ![c].keys = published[IssuerOf(c)]]
    /\ UNCHANGED <<providerVars, jwks, robot, asked, held, faults>>

\* The endpoint cannot be reached, or Keycloak's answers with an error.
FetchFails(c) ==
    /\ call[c].at = "fetching"
    /\ Fault
    /\ call' = [call EXCEPT ![c] = Answered(c, "no_keys", {})]
    /\ UNCHANGED <<providerVars, jwks, robot, asked, held>>

\* Microsoft's endpoint answers with an error in JSON: _get_microsoft_keys
\* does not look at the status.
FetchGarbage(c) ==
    /\ call[c].at = "fetching"
    /\ IssuerOf(c) = "azure"
    /\ Fault
    /\ call' = [call EXCEPT ![c].at = "fetched", ![c].keys = {}]
    /\ UNCHANGED <<providerVars, jwks, robot, asked, held>>

\* The keys are cached before the token is looked at; no further attempt.
VerifyFetched(c) ==
    /\ call[c].at = "fetched"
    /\ jwks' = [jwks EXCEPT ![IssuerOf(c)] = Jwks(call[c].keys)]
    /\ call' = [call EXCEPT ![c] = Concluded(c, Judge(c, call[c].keys))]
    /\ UNCHANGED <<providerVars, robot, asked, held, faults>>

-----------------------------------------------------------------------------
(* Robots: the robots routes, and HMAC-signed calls *)

\* resolve_robot_entitlements: what to store, if the caller may ask for it.
MayAsk(writer, submitted, existing) ==
    writer \/ submitted = {} \/ submitted = existing

Resolve(writer, submitted, existing) ==
    IF writer THEN submitted ELSE existing

\* register_robot answers with the secret, with which the robot is set up.
Register(r, writer, submitted) ==
    LET e == Resolve(writer, submitted, {})
    IN  /\ robot[r] = NoRobot
        /\ MayAsk(writer, submitted, {})
        /\ robot' = [robot EXCEPT ![r] = [secret |-> 1, entitlements |-> e]]
        /\ asked' = [asked EXCEPT ![r] = e]
        /\ held' = [held EXCEPT ![r] = [key |-> 1, live |-> TRUE]]
        /\ UNCHANGED <<providerVars, jwks, call, faults>>

\* update_robot resolves the entitlements like register_robot and hands them
\* to merge, which assigns the name, the description and the owner only: the
\* row keeps the entitlements it had.
Update(r, writer, submitted) ==
    /\ robot[r] # NoRobot
    /\ MayAsk(writer, submitted, robot[r].entitlements)
    /\ asked' = [asked EXCEPT ![r] = Resolve(writer, submitted,
                                             robot[r].entitlements)]
    /\ UNCHANGED <<providerVars, jwks, robot, held, call, faults>>

\* cycle_robot_secret: whoever asked for it sets the robot up with the
\* answer, at once or later.
CycleSecret(r) ==
    /\ robot[r].secret \in 1..(MaxSecrets - 1)
    /\ robot' = [robot EXCEPT ![r].secret = @ + 1]
    /\ \/ held' = [held EXCEPT ![r].key = robot[r].secret + 1]
       \/ UNCHANGED held
    /\ UNCHANGED <<providerVars, jwks, asked, call, faults>>

SetUp(r) ==
    /\ r \in Robot
    /\ held[r].key # robot[r].secret
    /\ held' = [held EXCEPT ![r].key = robot[r].secret]
    /\ UNCHANGED <<providerVars, jwks, robot, asked, call, faults>>

\* HMACSigningAuth signs every request with the current time.
Sign(r) ==
    /\ robot[r] # NoRobot
    /\ call[r].at = "idle"
    /\ Send(r, held[r], FALSE)
    /\ UNCHANGED <<providerVars, jwks, robot, asked, held, faults>>

\* HMACAuthorizationHeaders.from_request looks at the timestamp; the robot's
\* row is read after that.
ReadHeaders(r) ==
    /\ call[r].at = "sent"
    /\ call' = [call EXCEPT ![r] = IF @.token.live
                                   THEN [@ EXCEPT !.at = "fetching"]
                                   ELSE Answered(r, "expired", {})]
    /\ UNCHANGED <<providerVars, jwks, robot, asked, held, faults>>

CompareSignature(r) ==
    /\ call[r].at = "fetching"
    /\ call' = [call EXCEPT ![r] =
                   IF @.token.key = robot[r].secret
                   THEN Answered(r, "ok", robot[r].entitlements)
                   ELSE Answered(r, "bad_signature", {})]
    /\ UNCHANGED <<providerVars, jwks, robot, asked, held, faults>>

-----------------------------------------------------------------------------
ClientStep(c) ==
    \/ Start(c)
    \/ RetryExpired(c)
    \/ VerifyCached(c)
    \/ MissCache(c)
    \/ FetchKeys(c)
    \/ VerifyFetched(c)

RobotStep(r) ==
    \/ Sign(r)
    \/ ReadHeaders(r)
    \/ CompareSignature(r)

CallStep(c) ==
    \/ c \in Client /\ ClientStep(c)
    \/ c \in Robot /\ RobotStep(c)
    \/ Return(c)

Administer(r) ==
    \/ \E writer \in BOOLEAN, e \in SUBSET Entitlement :
          Register(r, writer, e) \/ Update(r, writer, e)
    \/ CycleSecret(r)

ProviderStep ==
    \/ \E i \in Issuer : Rotate(i) \/ Retire(i)
    \/ \E c \in Client : LoginFails(c) \/ FetchFails(c) \/ FetchGarbage(c)

Next ==
    \/ \E c \in Caller : CallStep(c) \/ Expire(c)
    \/ \E r \in Robot : Administer(r) \/ SetUp(r)
    \/ \E i \in Issuer : CacheExpires(i)
    \/ ProviderStep

Spec == Init /\ [][Next]_vars

\* Callers keep calling, calls go on, caches expire and cycled secrets reach
\* their robots.
FairSpec ==
    /\ Spec
    /\ \A c \in Caller : WF_vars(CallStep(c))
    /\ \A i \in Issuer : WF_vars(CacheExpires(i))
    /\ \A r \in Caller : WF_vars(SetUp(r))

-----------------------------------------------------------------------------
(* Properties *)

\* A credential that is good the moment the answer is given.
Good(c) ==
    /\ call[c].token.live
    /\ IF c \in Robot THEN call[c].token.key = robot[c].secret
       ELSE call[c].token.key \in published[IssuerOf(c)] /\ Permitted(c)

\* A caller with a good credential is served, with its entitlements, whatever
\* was rotated, retired or cached before: Keycloak clients unless the keys
\* could not be fetched, robots always.  An Azure client may also be refused
\* because the cached keys lack its key id or are no keys (AzureJwtAuth.
\* verify_token, KeycloakJwtAuth.verify_token, HMACMultiClientAuth.__call__).
ValidIsServed ==
    \A c \in Caller : call[c].at = "answered" /\ Good(c) =>
        \/ /\ call[c].answer = "ok"
           /\ call[c].entitlements = IF c \in Robot THEN robot[c].entitlements
                                     ELSE Derived(c)
        \/ c \in Client /\ call[c].answer = "no_keys"
        \/ /\ c \in Client
           /\ IssuerOf(c) = "azure"
           /\ call[c].answer \in {"no_key", "unreadable"}

Stuck(c) == held[c].key \notin published[IssuerOf(c)]

\* Rotations, poisoned caches and expiries are survived: a client that may
\* call and keeps calling is served again and again, unless the key of the
\* token it holds on to was retired (auth_flow, verify_token).
ServedAgain ==
    \A c \in Caller :
        c \in Client /\ Permitted(c) =>
            []<>(call[c].answer = "ok") \/ <>[]Stuck(c)

\* A robot has the entitlements that were last accepted for it: "Writers may
\* set entitlements freely, including revoking via an empty set"
\* (resolve_robot_entitlements; update_robot, RobotSQLRepository.merge).
UpdateTakes == \A r \in Robot : robot[r].entitlements = asked[r]

=============================================================================
