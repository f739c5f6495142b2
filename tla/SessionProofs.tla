---------------------------- MODULE SessionProofs ----------------------------
(***************************************************************************)
(* A caller with a good credential is served, for any number of callers,   *)
(* keys, secrets, faults and flows.                                        *)
(*                                                                         *)
(* What makes it inductive is that a key never comes back: no token names  *)
(* a key its provider has not signed with, and a provider only ever        *)
(* publishes keys beyond those, so keys fetched while a token was under    *)
(* way still hold its key if the provider does.  Likewise no signature     *)
(* was made with a secret that its robot is yet to get.                    *)
(***************************************************************************)
EXTENDS Sessions, TLAPS

-----------------------------------------------------------------------------
(* The inductive invariant *)

Token == [key : Nat, live : BOOLEAN]

Verdict == {"ok", "forbidden", "unreadable", "no_key", "unverified",
            "expired", "no_keys", "bad_signature"}

CallRecord == [at : {"idle", "sent", "fetching", "fetched", "answered"},
               token : Token, keys : SUBSET Nat, retried : BOOLEAN,
               answer : Verdict \cup {"none"}, entitlements : SUBSET Entitlement]

\* Every variable keeps its type, and a provider publishes only keys up to
\* the one it signs with.
TypeOK ==
    /\ flow \in [Caller -> AzureFlow \cup KeycloakFlow \cup RobotFlow \cup NoFlow]
    /\ signing \in [Issuer -> Nat]
    /\ published \in [Issuer -> SUBSET Nat]
    /\ \A i \in Issuer : \A k \in published[i] : k <= signing[i]
    /\ jwks \in [Issuer -> [there : BOOLEAN, keys : SUBSET Nat]]
    /\ robot \in [Caller -> [secret : Nat, entitlements : SUBSET Entitlement]]
    /\ held \in [Caller -> Token]
    /\ call \in [Caller -> CallRecord]

\* The newest key or secret there is for a caller.
Newest(c) == IF c \in Robot THEN robot[c].secret ELSE signing[IssuerOf(c)]

\* The key or secret a caller holds, or has sent, exists already.
CredentialsExist(c) ==
    /\ held[c].key <= Newest(c)
    /\ call[c].token.key <= Newest(c)

\* Keys that were fetched for a token hold its key if the provider still
\* does, unless Microsoft's endpoint answered with something else.
FetchedHolds(c) ==
    c \in Client /\ call[c].at = "fetched" =>
        \/ call[c].token.key \notin published[IssuerOf(c)]
        \/ call[c].token.key \in call[c].keys
        \/ IssuerOf(c) = "azure" /\ call[c].keys = {}

\* ValidIsServed, of one caller.
Served(c) ==
    call[c].at = "answered" /\ Good(c) =>
        \/ /\ call[c].answer = "ok"
           /\ call[c].entitlements = IF c \in Robot THEN robot[c].entitlements
                                     ELSE Derived(c)
        \/ c \in Client /\ call[c].answer = "no_keys"
        \/ /\ c \in Client
           /\ IssuerOf(c) = "azure"
           /\ call[c].answer \in {"no_key", "unreadable"}

\* A caller is a client or a robot, or makes no calls.
CallerInv(c) ==
    /\ CredentialsExist(c)
    /\ FetchedHolds(c)
    /\ Served(c)
    /\ c \in Client \cup Robot \/ call[c].at = "idle"

SessionInv == TypeOK /\ \A c \in Caller : CallerInv(c)

-----------------------------------------------------------------------------
(* What the pieces of a call are *)

\* A client and a robot are told apart by their flow; a client's issuer is
\* one of the two.
LEMMA Kinds ==
    ASSUME TypeOK
    PROVE  /\ Client \subseteq Caller /\ Robot \subseteq Caller
           /\ Client \cap Robot = {}
           /\ \A c \in Caller : IssuerOf(c) \in Issuer
           /\ \A c \in Caller : Newest(c) \in Nat
  <1>1. /\ Client \subseteq Caller /\ Robot \subseteq Caller
        /\ Client \cap Robot = {}
    BY DEF Client, Robot, AzureFlow, KeycloakFlow, RobotFlow
  <1>2. \A c \in Caller : IssuerOf(c) \in Issuer
    BY DEF IssuerOf, Issuer
  <1>3. \A c \in Caller : Newest(c) \in Nat
    BY <1>2 DEF Newest, TypeOK
  <1> QED BY <1>1, <1>2, <1>3

\* A client sends the token it holds or a new one.
LEMMA GetTokenIs ==
    ASSUME TypeOK, NEW c \in Client, CredentialsExist(c), NEW f \in BOOLEAN
    PROVE  GetToken(c, f) \in Token /\ GetToken(c, f).key <= Newest(c)
  <1>1. c \in Caller /\ c \notin Robot /\ IssuerOf(c) \in Issuer
    BY Kinds
  <1>2. signing[IssuerOf(c)] \in Nat /\ Newest(c) = signing[IssuerOf(c)]
    BY <1>1 DEF TypeOK, Newest
  <1>3. NewToken(IssuerOf(c)) \in Token /\ NewToken(IssuerOf(c)).key <= Newest(c)
    BY <1>2 DEF NewToken, Token
  <1>4. held[c] \in Token /\ held[c].key <= Newest(c)
    BY <1>1 DEF TypeOK, CredentialsExist
  <1> QED BY <1>3, <1>4 DEF GetToken

\* A request that is sent has its token and no answer yet; no call has no token.
LEMMA SentIs ==
    ASSUME NEW t \in Token, NEW b \in BOOLEAN
    PROVE  LET s == [NoCall EXCEPT !.at = "sent", !.token = t, !.retried = b]
           IN  s \in CallRecord /\ s.at = "sent" /\ s.token = t
  BY DEF NoCall, NoToken, NoKey, Token, CallRecord, Verdict

\* A client without a call is idle and shows no key.
LEMMA NoCallIs == NoCall \in CallRecord /\ NoCall.at = "idle" /\ NoCall.token.key = 0
  BY DEF NoCall, NoToken, NoKey, Token, CallRecord, Verdict

\* An answer changes neither the token nor the keys of a call.
LEMMA AnsweredIs ==
    ASSUME TypeOK, NEW c \in Caller, NEW a \in Verdict, NEW e \in SUBSET Entitlement
    PROVE  /\ Answered(c, a, e) \in CallRecord
           /\ Answered(c, a, e).at = "answered"
           /\ Answered(c, a, e).token = call[c].token
           /\ Answered(c, a, e).answer = a
           /\ Answered(c, a, e).entitlements = e
  <1>1. call[c] \in CallRecord
    BY DEF TypeOK
  <1> QED BY <1>1 DEF Answered, CallRecord

\* Only Azure's validator finds no key id; a token is unverified when its key
\* is missing, and expired when it is not live.
LEMMA JudgeIs ==
    ASSUME TypeOK, NEW c \in Client, NEW keys \in SUBSET Nat
    PROVE  \/ IssuerOf(c) = "azure" /\ Judge(c, keys) \in {"no_key", "unreadable"}
           \/ /\ Judge(c, keys) = "unverified"
              /\ call[c].token.key \notin keys
              /\ ~(IssuerOf(c) = "azure" /\ keys = {})
           \/ Judge(c, keys) = "expired" /\ ~call[c].token.live
           \/ Judge(c, keys) = "verified"
  <1> DEFINE t == call[c].token
             azure == IssuerOf(c) = "azure"
             known == \E k \in keys : Kid[k] = Kid[t.key]
  <1>1. CASE azure /\ keys = {}
    BY <1>1 DEF Judge
  <1>2. CASE ~(azure /\ keys = {}) /\ azure /\ ~known
    BY <1>2 DEF Judge
  <1>3. CASE ~(azure /\ keys = {}) /\ ~(azure /\ ~known) /\ t.key \notin keys
    BY <1>3 DEF Judge
  <1>4. CASE ~(azure /\ keys = {}) /\ ~(azure /\ ~known) /\ t.key \in keys /\ ~t.live
    BY <1>4 DEF Judge
  <1>5. CASE ~(azure /\ keys = {}) /\ ~(azure /\ ~known) /\ t.key \in keys /\ t.live
    BY <1>5 DEF Judge
  <1> QED BY <1>1, <1>2, <1>3, <1>4, <1>5

\* Entitlements are some of the known ones.
LEMMA DerivedIs == ASSUME NEW c \in Caller PROVE Derived(c) \subseteq Entitlement
  BY DEF Derived

\* What a verdict makes of a call.
LEMMA ConcludedIs ==
    ASSUME TypeOK, NEW c \in Client,
           NEW v \in {"no_key", "unreadable", "unverified", "expired", "verified"}
    PROVE  /\ Concluded(c, v) \in CallRecord
           /\ Concluded(c, v).at = "answered"
           /\ Concluded(c, v).token = call[c].token
           /\ v # "verified" => Concluded(c, v).answer = v
           /\ v = "verified" /\ Permitted(c) =>
                 /\ Concluded(c, v).answer = "ok"
                 /\ Concluded(c, v).entitlements = Derived(c)
  <1>1. c \in Caller /\ Derived(c) \in SUBSET Entitlement
    BY Kinds, DerivedIs
  <1>2. CASE v # "verified"
    <2>1. Concluded(c, v) = Answered(c, v, {})
      BY <1>2 DEF Concluded
    <2>2. v \in Verdict
      BY <1>2 DEF Verdict
    <2> QED BY <1>1, <1>2, <2>1, <2>2, AnsweredIs
  <1>3. CASE v = "verified" /\ Permitted(c)
    <2>1. Concluded(c, v) = Answered(c, "ok", Derived(c))
      BY <1>3 DEF Concluded
    <2> QED BY <1>1, <1>3, <2>1, AnsweredIs DEF Verdict
  <1>4. CASE v = "verified" /\ ~Permitted(c)
    <2>1. Concluded(c, v) = Answered(c, "forbidden", {})
      BY <1>4 DEF Concluded
    <2> QED BY <1>1, <1>4, <2>1, AnsweredIs DEF Verdict
  <1> QED BY <1>2, <1>3, <1>4

-----------------------------------------------------------------------------
(* Every step keeps the invariant *)

\* A step of one caller leaves the others as they are.
LEMMA OthersKept ==
    ASSUME SessionInv, TypeOK', NEW c \in Caller, UNCHANGED providerVars,
           \A d \in Caller \ {c} : /\ held'[d] = held[d]
                                   /\ call'[d] = call[d]
                                   /\ robot'[d] = robot[d],
           CallerInv(c)'
    PROVE  SessionInv'
  <1>1. SUFFICES ASSUME NEW d \in Caller, d # c PROVE CallerInv(d)'
    BY DEF SessionInv
  <1>2. /\ held'[d] = held[d] /\ call'[d] = call[d] /\ robot'[d] = robot[d]
        /\ flow' = flow /\ signing' = signing /\ published' = published
    BY <1>1 DEF providerVars
  <1>3. /\ (d \in Client)' <=> d \in Client
        /\ (d \in Robot)' <=> d \in Robot
        /\ IssuerOf(d)' = IssuerOf(d)
        /\ Permitted(d)' <=> Permitted(d)
        /\ Derived(d)' = Derived(d)
    BY <1>2 DEF Client, Robot, IssuerOf, Permitted, Derived
  <1>4. CallerInv(d)
    BY DEF SessionInv
  <1>5. CredentialsExist(d)'
    BY <1>2, <1>3, <1>4 DEF CallerInv, CredentialsExist, Newest
  <1>6. FetchedHolds(d)'
    BY <1>2, <1>3, <1>4 DEF CallerInv, FetchedHolds
  <1>7. Served(d)'
    <2>1. Good(d)' <=> Good(d)
      BY <1>2, <1>3 DEF Good
    <2> QED BY <1>2, <1>3, <1>4, <2>1 DEF CallerInv, Served
  <1> QED BY <1>2, <1>3, <1>4, <1>5, <1>6, <1>7 DEF CallerInv

\* A call that is not fetched or answered promises nothing yet.
LEMMA UnderWay ==
    ASSUME TypeOK, NEW c \in Client \cup Robot, UNCHANGED providerVars,
           CredentialsExist(c)', call'[c].at \notin {"fetched", "answered"}
    PROVE  CallerInv(c)'
  <1>1. (c \in Client \cup Robot)'
    BY DEF providerVars, Client, Robot
  <1> QED BY <1>1 DEF CallerInv, FetchedHolds, Served

\* A client's step that leaves its token, the providers and the robots as
\* they are leaves its credentials good or bad as they were.
LEMMA ClientKept ==
    ASSUME SessionInv, NEW c \in Client, UNCHANGED <<providerVars, held>>,
           call'[c].token = call[c].token
    PROVE  /\ c \in Client' /\ c \notin Robot' /\ c \notin Robot /\ c \in Caller
           /\ CredentialsExist(c)'
           /\ Good(c)' <=> Good(c)
           /\ Derived(c)' = Derived(c)
           /\ IssuerOf(c)' = IssuerOf(c)
  <1>1. c \in Client' /\ c \notin Robot' /\ c \notin Robot /\ c \in Caller
    BY Kinds DEF SessionInv, providerVars, Client, Robot
  <1>2. IssuerOf(c)' = IssuerOf(c) /\ Derived(c)' = Derived(c)
        /\ (Permitted(c)' <=> Permitted(c))
    BY DEF providerVars, IssuerOf, Derived, Permitted
  <1>3. CredentialsExist(c)'
    BY <1>1, <1>2 DEF SessionInv, CallerInv, CredentialsExist, Newest, providerVars
  <1>4. Good(c)' <=> Good(c)
    BY <1>1, <1>2 DEF Good, providerVars
  <1> QED BY <1>1, <1>2, <1>3, <1>4

\* A call changes, the rest of its caller's state does not.
LEMMA CallTyped ==
    ASSUME TypeOK, NEW c \in Caller, NEW new \in CallRecord,
           call' = [call EXCEPT ![c] = new],
           UNCHANGED <<providerVars, jwks, robot, held>>
    PROVE  TypeOK' /\ call'[c] = new /\ \A d \in Caller \ {c} : call'[d] = call[d]
  BY DEF TypeOK, providerVars

\* Start and RetryExpired: the token that is sent is held from then on.
LEMMA SendKeeps ==
    ASSUME SessionInv, NEW c \in Client, NEW f \in BOOLEAN, NEW b \in BOOLEAN,
           held' = [held EXCEPT ![c] = GetToken(c, f)],
           Send(c, GetToken(c, f), b),
           UNCHANGED <<providerVars, jwks, robot>>
    PROVE  SessionInv'
  <1> DEFINE t == GetToken(c, f)
             new == [NoCall EXCEPT !.at = "sent", !.token = t, !.retried = b]
  <1>1. c \in Caller /\ TypeOK /\ CredentialsExist(c)
    BY Kinds DEF SessionInv, CallerInv
  <1>2. t \in Token /\ t.key <= Newest(c)
    BY <1>1, GetTokenIs
  <1>3. new \in CallRecord /\ new.at = "sent" /\ new.token = t
    BY <1>2, SentIs
  <1>4. call' = [call EXCEPT ![c] = new]
    BY DEF Send
  <1> HIDE DEF t, new
  <1>5. TypeOK'
    BY <1>1, <1>2, <1>3, <1>4 DEF TypeOK, providerVars, t
  <1>6. /\ held'[c] = t /\ call'[c] = new
        /\ \A d \in Caller \ {c} : held'[d] = held[d] /\ call'[d] = call[d]
    BY <1>1, <1>4 DEF TypeOK, t
  <1>7. Newest(c)' = Newest(c)
    BY DEF Newest, Robot, IssuerOf, providerVars
  <1>8. CredentialsExist(c)'
    BY <1>2, <1>3, <1>6, <1>7 DEF CredentialsExist
  <1>9. CallerInv(c)'
    BY <1>1, <1>3, <1>6, <1>8, UnderWay
  <1> QED BY <1>1, <1>5, <1>6, <1>9, OthersKept

\* The steps in which a client's call changes and its token does not.
LEMMA ClientCallKeeps ==
    ASSUME SessionInv, NEW c \in Client, NEW new \in CallRecord,
           call' = [call EXCEPT ![c] = new], new.token = call[c].token,
           UNCHANGED <<providerVars, robot, held>>,
           jwks' \in [Issuer -> [there : BOOLEAN, keys : SUBSET Nat]],
           new.at = "fetched" =>
               \/ call[c].token.key \notin published[IssuerOf(c)]
               \/ call[c].token.key \in new.keys
               \/ IssuerOf(c) = "azure" /\ new.keys = {},
           new.at = "answered" /\ Good(c) =>
               \/ new.answer = "ok" /\ new.entitlements = Derived(c)
               \/ new.answer = "no_keys"
               \/ IssuerOf(c) = "azure" /\ new.answer \in {"no_key", "unreadable"}
    PROVE  SessionInv'
  <1>1. c \in Caller /\ TypeOK
    BY Kinds DEF SessionInv
  <1>2. TypeOK'
    BY <1>1 DEF TypeOK, providerVars
  <1>3. call'[c] = new /\ \A d \in Caller \ {c} : call'[d] = call[d]
    BY <1>1 DEF TypeOK
  <1>4. /\ c \in Client' /\ c \notin Robot' /\ CredentialsExist(c)'
        /\ Good(c)' <=> Good(c)
        /\ Derived(c)' = Derived(c)
        /\ IssuerOf(c)' = IssuerOf(c)
    BY <1>3, ClientKept
  <1>5. FetchedHolds(c)'
    BY <1>3, <1>4 DEF FetchedHolds, providerVars
  <1>6. Served(c)'
    BY <1>3, <1>4 DEF Served
  <1>7. CallerInv(c)'
    BY <1>4, <1>5, <1>6 DEF CallerInv
  <1> QED BY <1>1, <1>2, <1>3, <1>7, OthersKept

\* No call at all promises nothing.
LEMMA NoCallKeeps ==
    ASSUME SessionInv, NEW c \in Caller, call' = [call EXCEPT ![c] = NoCall],
           UNCHANGED <<providerVars, jwks, robot, held>>
    PROVE  SessionInv'
  <1>1. TypeOK' /\ call'[c] = NoCall /\ \A d \in Caller \ {c} : call'[d] = call[d]
    BY NoCallIs, CallTyped DEF SessionInv
  <1>2. Newest(c)' = Newest(c) /\ Newest(c) \in Nat
    BY Kinds DEF SessionInv, Newest, Robot, IssuerOf, providerVars
  <1>3. CredentialsExist(c)'
    BY <1>1, <1>2, NoCallIs DEF SessionInv, CallerInv, CredentialsExist
  <1>4. CallerInv(c)'
    BY <1>1, <1>3, NoCallIs DEF CallerInv, FetchedHolds, Served
  <1> QED BY <1>1, <1>4, OthersKept

\* Verification with some keys, which answers unless they are stale.
LEMMA VerifyKeeps ==
    ASSUME SessionInv, NEW c \in Client, NEW keys \in SUBSET Nat,
           call' = [call EXCEPT ![c] = Concluded(c, Judge(c, keys))],
           UNCHANGED <<providerVars, robot, held>>,
           jwks' \in [Issuer -> [there : BOOLEAN, keys : SUBSET Nat]],
           Judge(c, keys) = "unverified" =>
               call[c].token.key \notin published[IssuerOf(c)]
    PROVE  SessionInv'
  <1> DEFINE v == Judge(c, keys)
             new == Concluded(c, v)
  <1>1. TypeOK /\ c \notin Robot
    BY Kinds DEF SessionInv
  <1>2. /\ v \in {"no_key", "unreadable", "unverified", "expired", "verified"}
        /\ v \in {"no_key", "unreadable"} => IssuerOf(c) = "azure"
        /\ v = "expired" => ~call[c].token.live
    BY <1>1, JudgeIs
  <1> HIDE DEF v
  <1>3. /\ new \in CallRecord
        /\ new.at = "answered"
        /\ new.token = call[c].token
        /\ v # "verified" => new.answer = v
        /\ v = "verified" /\ Permitted(c) =>
              new.answer = "ok" /\ new.entitlements = Derived(c)
    BY <1>1, <1>2, ConcludedIs
  <1>4. call' = [call EXCEPT ![c] = new]
    BY DEF v
  <1>5. v = "unverified" => call[c].token.key \notin published[IssuerOf(c)]
    BY DEF v
  <1> HIDE DEF new
  <1>6. Good(c) =>
           \/ new.answer = "ok" /\ new.entitlements = Derived(c)
           \/ new.answer = "no_keys"
           \/ IssuerOf(c) = "azure" /\ new.answer \in {"no_key", "unreadable"}
    BY <1>1, <1>2, <1>3, <1>5 DEF Good
  <1> QED BY <1>3, <1>4, <1>6, ClientCallKeeps

\* A client's own steps.
LEMMA ClientStepKeeps ==
    ASSUME SessionInv, NEW c \in Client, ClientStep(c)
    PROVE  SessionInv'
  <1>1. /\ c \in Caller /\ TypeOK /\ IssuerOf(c) \in Issuer
        /\ call[c] \in CallRecord
    BY Kinds DEF SessionInv, TypeOK
  <1>2. /\ jwks \in [Issuer -> [there : BOOLEAN, keys : SUBSET Nat]]
        /\ published[IssuerOf(c)] \in SUBSET Nat
        /\ jwks[IssuerOf(c)].keys \in SUBSET Nat
    BY <1>1 DEF TypeOK
  <1>3. CASE Start(c)
    BY <1>3, SendKeeps DEF Start
  <1>4. CASE RetryExpired(c)
    BY <1>4, SendKeeps DEF RetryExpired
  <1>5. ASSUME call' = [call EXCEPT ![c].at = "fetching"],
               UNCHANGED <<providerVars, robot, held>>,
               jwks' \in [Issuer -> [there : BOOLEAN, keys : SUBSET Nat]]
        PROVE  SessionInv'
    <2> DEFINE new == [call[c] EXCEPT !.at = "fetching"]
    <2>1. new \in CallRecord /\ new.at = "fetching" /\ new.token = call[c].token
      BY <1>1 DEF CallRecord
    <2>2. call' = [call EXCEPT ![c] = new]
      BY <1>5
    <2> HIDE DEF new
    <2> QED BY <1>5, <2>1, <2>2, ClientCallKeeps
  <1>6. CASE VerifyCached(c)
    <2> DEFINE i == IssuerOf(c)
               keys == jwks[i].keys
    <2>1. CASE Judge(c, keys) = "unverified"
      <3>1. /\ call' = [call EXCEPT ![c].at = "fetching"]
            /\ jwks' = [jwks EXCEPT ![i] = NoJwks]
            /\ UNCHANGED <<providerVars, robot, held>>
        BY <1>6, <2>1 DEF VerifyCached
      <3> QED BY <1>2, <1>5, <3>1 DEF NoJwks
    <2>2. CASE Judge(c, keys) # "unverified"
      <3>1. /\ call' = [call EXCEPT ![c] = Concluded(c, Judge(c, keys))]
            /\ UNCHANGED <<providerVars, robot, held, jwks>>
        BY <1>6, <2>2 DEF VerifyCached
      <3> QED BY <1>2, <2>2, <3>1, VerifyKeeps
    <2> QED BY <2>1, <2>2
  <1>7. CASE MissCache(c)
    BY <1>2, <1>5, <1>7 DEF MissCache
  <1>8. CASE FetchKeys(c)
    <2> DEFINE new == [call[c] EXCEPT !.at = "fetched", !.keys = published[IssuerOf(c)]]
    <2>1. /\ new \in CallRecord /\ new.at = "fetched" /\ new.token = call[c].token
          /\ new.keys = published[IssuerOf(c)]
      BY <1>1, <1>2 DEF CallRecord
    <2>2. call' = [call EXCEPT ![c] = new] /\ UNCHANGED <<providerVars, robot, held, jwks>>
      BY <1>8 DEF FetchKeys
    <2> HIDE DEF new
    <2> QED BY <1>2, <2>1, <2>2, ClientCallKeeps
  <1>9. CASE VerifyFetched(c)
    <2> DEFINE keys == call[c].keys
    <2>1. keys \in SUBSET Nat
      BY <1>1 DEF CallRecord
    <2>2. /\ call[c].at = "fetched"
          /\ call' = [call EXCEPT ![c] = Concluded(c, Judge(c, keys))]
          /\ jwks' = [jwks EXCEPT ![IssuerOf(c)] = Jwks(keys)]
          /\ UNCHANGED <<providerVars, robot, held>>
      BY <1>9 DEF VerifyFetched
    <2>3. jwks' \in [Issuer -> [there : BOOLEAN, keys : SUBSET Nat]]
      BY <1>2, <2>1, <2>2 DEF Jwks
    <2>4. FetchedHolds(c)
      BY <1>1 DEF SessionInv, CallerInv
    <2>5. Judge(c, keys) = "unverified" =>
             call[c].token.key \notin published[IssuerOf(c)]
      BY <1>1, <2>1, <2>2, <2>4, JudgeIs DEF FetchedHolds
    <2> HIDE DEF keys
    <2> QED BY <2>1, <2>2, <2>3, <2>5, VerifyKeeps
  <1> QED BY <1>3, <1>4, <1>6, <1>7, <1>8, <1>9 DEF ClientStep

\* A robot's steps, and what is done to it: its signature is good only if it
\* was made with the newest secret.
LEMMA RobotKeeps ==
    ASSUME SessionInv, TypeOK', NEW r \in Robot, UNCHANGED <<providerVars, jwks>>,
           \A d \in Caller \ {r} : /\ held'[d] = held[d]
                                   /\ call'[d] = call[d]
                                   /\ robot'[d] = robot[d],
           held'[r].key <= robot'[r].secret,
           call'[r].token.key <= robot'[r].secret,
           /\ call'[r].at = "answered"
           /\ call'[r].token.live
           /\ call'[r].token.key = robot'[r].secret
           => /\ call'[r].answer = "ok"
              /\ call'[r].entitlements = robot'[r].entitlements
    PROVE  SessionInv'
  <1>1. r \in Caller /\ r \in Robot' /\ r \notin Client'
    BY Kinds DEF SessionInv, providerVars, Client, Robot
  <1>2. CallerInv(r)'
    BY <1>1 DEF CallerInv, CredentialsExist, Newest, FetchedHolds, Served, Good
  <1> QED BY <1>1, <1>2, OthersKept

\* Every step of a robot's call keeps the invariant.
LEMMA RobotStepKeeps ==
    ASSUME SessionInv, NEW r \in Robot, RobotStep(r)
    PROVE  SessionInv'
  <1>1. /\ r \in Caller /\ TypeOK /\ CredentialsExist(r) /\ r \in Robot
        /\ call[r] \in CallRecord /\ held[r] \in Token
        /\ robot[r] \in [secret : Nat, entitlements : SUBSET Entitlement]
    BY Kinds DEF SessionInv, CallerInv, TypeOK
  <1>2. /\ held[r].key <= robot[r].secret
        /\ call[r].token.key <= robot[r].secret
    BY <1>1 DEF CredentialsExist, Newest
  <1>3. ASSUME NEW new \in CallRecord, call' = [call EXCEPT ![r] = new],
               UNCHANGED <<providerVars, jwks, robot, held>>,
               new.token.key <= robot[r].secret,
               /\ new.at = "answered"
               /\ new.token.live
               /\ new.token.key = robot[r].secret
               => new.answer = "ok" /\ new.entitlements = robot[r].entitlements
        PROVE  SessionInv'
    <2>1. TypeOK' /\ call'[r] = new /\ \A d \in Caller \ {r} : call'[d] = call[d]
      BY <1>1, <1>3, CallTyped
    <2> QED BY <1>2, <1>3, <2>1, RobotKeeps
  <1>4. CASE Sign(r)
    <2> DEFINE new == [NoCall EXCEPT !.at = "sent", !.token = held[r], !.retried = FALSE]
    <2>1. new \in CallRecord /\ new.at = "sent" /\ new.token = held[r]
      BY <1>1, SentIs
    <2>2. call' = [call EXCEPT ![r] = new] /\ UNCHANGED <<providerVars, jwks, robot, held>>
      BY <1>4 DEF Sign, Send
    <2> HIDE DEF new
    <2> QED BY <1>2, <1>3, <2>1, <2>2
  <1>5. CASE ReadHeaders(r)
    <2>1. CASE call[r].token.live
      <3> DEFINE new == [call[r] EXCEPT !.at = "fetching"]
      <3>1. new \in CallRecord /\ new.at = "fetching" /\ new.token = call[r].token
        BY <1>1 DEF CallRecord
      <3>2. call' = [call EXCEPT ![r] = new] /\ UNCHANGED <<providerVars, jwks, robot, held>>
        BY <1>5, <2>1 DEF ReadHeaders
      <3> HIDE DEF new
      <3> QED BY <1>2, <1>3, <3>1, <3>2
    <2>2. CASE ~call[r].token.live
      <3> DEFINE new == Answered(r, "expired", {})
      <3>1. new \in CallRecord /\ new.token = call[r].token
        BY <1>1, AnsweredIs DEF Verdict
      <3>2. call' = [call EXCEPT ![r] = new] /\ UNCHANGED <<providerVars, jwks, robot, held>>
        BY <1>5, <2>2 DEF ReadHeaders
      <3> HIDE DEF new
      <3> QED BY <1>2, <1>3, <2>2, <3>1, <3>2
    <2> QED BY <2>1, <2>2
  <1>6. CASE CompareSignature(r)
    <2>1. CASE call[r].token.key = robot[r].secret
      <3> DEFINE new == Answered(r, "ok", robot[r].entitlements)
      <3>1. /\ new \in CallRecord /\ new.token = call[r].token
            /\ new.answer = "ok" /\ new.entitlements = robot[r].entitlements
        BY <1>1, AnsweredIs DEF Verdict
      <3>2. call' = [call EXCEPT ![r] = new] /\ UNCHANGED <<providerVars, jwks, robot, held>>
        BY <1>6, <2>1 DEF CompareSignature
      <3> HIDE DEF new
      <3> QED BY <1>2, <1>3, <3>1, <3>2
    <2>2. CASE call[r].token.key # robot[r].secret
      <3> DEFINE new == Answered(r, "bad_signature", {})
      <3>1. new \in CallRecord /\ new.token = call[r].token
        BY <1>1, AnsweredIs DEF Verdict
      <3>2. call' = [call EXCEPT ![r] = new] /\ UNCHANGED <<providerVars, jwks, robot, held>>
        BY <1>6, <2>2 DEF CompareSignature
      <3> HIDE DEF new
      <3> QED BY <1>2, <1>3, <2>2, <3>1, <3>2
    <2> QED BY <2>1, <2>2
  <1> QED BY <1>4, <1>5, <1>6 DEF RobotStep

\* A new secret is beyond every secret that was signed with: signatures that
\* are under way are no longer good.
LEMMA AdministerKeeps ==
    ASSUME SessionInv, NEW r \in Robot, Administer(r) \/ SetUp(r)
    PROVE  SessionInv'
  <1>1. /\ r \in Caller /\ TypeOK /\ CredentialsExist(r) /\ Served(r) /\ r \notin Client
        /\ call[r] \in CallRecord /\ held[r] \in Token
        /\ robot[r] \in [secret : Nat, entitlements : SUBSET Entitlement]
    BY Kinds DEF SessionInv, CallerInv, TypeOK
  <1>2. /\ held[r].key <= robot[r].secret
        /\ call[r].token.key <= robot[r].secret
        /\ /\ call[r].at = "answered"
           /\ call[r].token.live
           /\ call[r].token.key = robot[r].secret
           => call[r].answer = "ok" /\ call[r].entitlements = robot[r].entitlements
    BY <1>1 DEF CredentialsExist, Newest, Served, Good
  <1>3. /\ call[r].token.key \in Nat /\ held[r].key \in Nat
        /\ robot[r].secret \in Nat
    BY <1>1 DEF CallRecord, Token
  <1>4. ASSUME NEW b \in BOOLEAN, NEW e \in SUBSET Entitlement, Register(r, b, e)
        PROVE  SessionInv'
    <2> DEFINE new == [secret |-> 1, entitlements |-> Resolve(b, e, {})]
               key == [key |-> 1, live |-> TRUE]
    <2>1. /\ robot[r].secret = 0
          /\ robot' = [robot EXCEPT ![r] = new]
          /\ held' = [held EXCEPT ![r] = key]
          /\ UNCHANGED <<providerVars, jwks, call>>
      BY <1>4 DEF Register, NoRobot
    <2>2. new \in [secret : Nat, entitlements : SUBSET Entitlement] /\ new.secret = 1
      BY DEF Resolve
    <2>3. key \in Token /\ key.key = 1
      BY DEF Token
    <2> HIDE DEF new, key
    <2>4. /\ TypeOK'
          /\ robot'[r] = new /\ held'[r] = key
          /\ \A d \in Caller \ {r} : robot'[d] = robot[d] /\ held'[d] = held[d]
      BY <1>1, <2>1, <2>2, <2>3 DEF TypeOK, providerVars
    <2>5. call'[r].token.key <= 0
      BY <1>2, <2>1
    <2> QED BY <1>3, <2>1, <2>2, <2>3, <2>4, <2>5, RobotKeeps
  <1>5. ASSUME NEW b \in BOOLEAN, NEW e \in SUBSET Entitlement, Update(r, b, e)
        PROVE  SessionInv'
    <2>1. UNCHANGED <<providerVars, jwks, robot, held, call>>
      BY <1>5 DEF Update
    <2>2. TypeOK'
      BY <1>1, <2>1 DEF TypeOK, providerVars
    <2> QED BY <1>2, <2>1, <2>2, RobotKeeps
  <1>6. CASE CycleSecret(r)
    <2> DEFINE new == [robot[r] EXCEPT !.secret = robot[r].secret + 1]
    <2>1. /\ new \in [secret : Nat, entitlements : SUBSET Entitlement]
          /\ new.secret = robot[r].secret + 1
      BY <1>1
    <2>2. robot' = [robot EXCEPT ![r] = new] /\ UNCHANGED <<providerVars, jwks, call>>
      BY <1>6 DEF CycleSecret
    <2>3. PICK k \in {held[r].key, robot[r].secret + 1} :
             held' = [held EXCEPT ![r].key = k]
      BY <1>1, <1>6 DEF CycleSecret, TypeOK, Token
    <2> HIDE DEF new
    <2>4. k \in Nat /\ k <= new.secret
      BY <1>2, <1>3, <2>1
    <2>5. /\ held' \in [Caller -> Token] /\ held'[r].key = k
          /\ \A d \in Caller \ {r} : held'[d] = held[d]
      BY <1>1, <2>3, <2>4 DEF TypeOK, Token
    <2>6. /\ TypeOK'
          /\ robot'[r] = new /\ \A d \in Caller \ {r} : robot'[d] = robot[d]
      BY <1>1, <2>1, <2>2, <2>5 DEF TypeOK, providerVars
    <2>7. call'[r].token.key < robot'[r].secret
      BY <1>2, <1>3, <2>1, <2>2, <2>6
    <2> QED BY <1>3, <2>1, <2>2, <2>4, <2>5, <2>6, <2>7, RobotKeeps
  <1>7. CASE SetUp(r)
    <2>1. /\ held' = [held EXCEPT ![r].key = robot[r].secret]
          /\ UNCHANGED <<providerVars, jwks, robot, call>>
      BY <1>7 DEF SetUp
    <2>2. /\ held' \in [Caller -> Token] /\ held'[r].key = robot[r].secret
          /\ \A d \in Caller \ {r} : held'[d] = held[d]
      BY <1>1, <1>3, <2>1 DEF TypeOK, Token
    <2>3. TypeOK'
      BY <1>1, <2>1, <2>2 DEF TypeOK, providerVars
    <2> QED BY <1>2, <1>3, <2>1, <2>2, <2>3, RobotKeeps
  <1> QED BY <1>4, <1>5, <1>6, <1>7 DEF Administer

\* A credential that gets too old is no longer good.
LEMMA ExpireKeeps ==
    ASSUME SessionInv, NEW c \in Caller, Expire(c)
    PROVE  SessionInv'
  <1>1. TypeOK /\ CallerInv(c) /\ call[c] \in CallRecord /\ held[c] \in Token
    BY DEF SessionInv, TypeOK
  <1>2. /\ held' = [held EXCEPT ![c].live = @ /\ c \in Robot]
        /\ call' = [call EXCEPT ![c].token.live = FALSE]
        /\ UNCHANGED <<providerVars, jwks, robot>>
    BY DEF Expire
  <1>3. /\ held' \in [Caller -> Token] /\ held'[c].key = held[c].key
        /\ \A d \in Caller \ {c} : held'[d] = held[d]
    <2> DEFINE b == held[c].live /\ c \in Robot
               new == [held[c] EXCEPT !.live = b]
    <2>1. b \in BOOLEAN
      OBVIOUS
    <2>2. held' = [held EXCEPT ![c] = new]
      BY <1>2
    <2> HIDE DEF b
    <2>3. new \in Token /\ new.key = held[c].key
      BY <1>1, <2>1 DEF Token
    <2> HIDE DEF new
    <2> QED BY <1>1, <2>2, <2>3 DEF TypeOK
  <1>4. /\ call' \in [Caller -> CallRecord]
        /\ call'[c].at = call[c].at /\ call'[c].keys = call[c].keys
        /\ call'[c].token.key = call[c].token.key /\ ~call'[c].token.live
        /\ \A d \in Caller \ {c} : call'[d] = call[d]
    <2> DEFINE t == [call[c].token EXCEPT !.live = FALSE]
               new == [call[c] EXCEPT !.token = t]
    <2>1. t \in Token /\ t.key = call[c].token.key /\ ~t.live
      BY <1>1 DEF CallRecord, Token
    <2>2. call' = [call EXCEPT ![c] = new]
      BY <1>2
    <2> HIDE DEF t
    <2>3. /\ new \in CallRecord /\ new.token = t
          /\ new.at = call[c].at /\ new.keys = call[c].keys
      BY <1>1, <2>1 DEF CallRecord
    <2> HIDE DEF new
    <2> QED BY <1>1, <2>1, <2>2, <2>3 DEF TypeOK
  <1>5. TypeOK'
    BY <1>1, <1>2, <1>3, <1>4 DEF TypeOK, providerVars
  <1>6. /\ IssuerOf(c)' = IssuerOf(c) /\ Newest(c)' = Newest(c)
        /\ c \in Client' <=> c \in Client
        /\ c \in Robot' <=> c \in Robot
    BY <1>2 DEF providerVars, IssuerOf, Newest, Client, Robot
  <1>7. CredentialsExist(c)' /\ FetchedHolds(c)'
    BY <1>1, <1>2, <1>3, <1>4, <1>6
    DEF CallerInv, CredentialsExist, FetchedHolds, providerVars
  <1>8. Served(c)'
    BY <1>4 DEF Served, Good
  <1>9. CallerInv(c)'
    BY <1>1, <1>4, <1>6, <1>7, <1>8 DEF CallerInv
  <1> QED BY <1>2, <1>3, <1>4, <1>5, <1>9, OthersKept

\* A call to a provider fails.
LEMMA ProviderFaultKeeps ==
    ASSUME SessionInv, NEW c \in Client, LoginFails(c) \/ FetchFails(c) \/ FetchGarbage(c)
    PROVE  SessionInv'
  <1>1. c \in Caller /\ TypeOK /\ call[c] \in CallRecord
    BY Kinds DEF SessionInv, TypeOK
  <1>2. jwks \in [Issuer -> [there : BOOLEAN, keys : SUBSET Nat]]
    BY <1>1 DEF TypeOK
  <1>3. CASE LoginFails(c)
    BY <1>1, <1>3, NoCallKeeps DEF LoginFails
  <1>4. CASE FetchFails(c)
    <2> DEFINE new == Answered(c, "no_keys", {})
    <2>1. /\ new \in CallRecord /\ new.token = call[c].token
          /\ new.at = "answered" /\ new.answer = "no_keys"
      BY <1>1, AnsweredIs DEF Verdict
    <2>2. call' = [call EXCEPT ![c] = new] /\ UNCHANGED <<providerVars, robot, held, jwks>>
      BY <1>4 DEF FetchFails
    <2> HIDE DEF new
    <2> QED BY <1>2, <2>1, <2>2, ClientCallKeeps
  <1>5. CASE FetchGarbage(c)
    <2> DEFINE new == [call[c] EXCEPT !.at = "fetched", !.keys = {}]
    <2>1. /\ new \in CallRecord /\ new.token = call[c].token
          /\ new.at = "fetched" /\ new.keys = {}
      BY <1>1 DEF CallRecord
    <2>2. /\ call' = [call EXCEPT ![c] = new] /\ IssuerOf(c) = "azure"
          /\ UNCHANGED <<providerVars, robot, held, jwks>>
      BY <1>5 DEF FetchGarbage
    <2> HIDE DEF new
    <2> QED BY <1>2, <2>1, <2>2, ClientCallKeeps
  <1> QED BY <1>3, <1>4, <1>5

\* Providers publish no key again that they or their clients knew before.
LEMMA ProvidersKeep ==
    ASSUME SessionInv, TypeOK', UNCHANGED <<flow, robot, held, call>>,
           \A i \in Issuer :
               /\ signing[i] <= signing'[i]
               /\ \A k \in published'[i] : k <= signing[i] => k \in published[i]
    PROVE  SessionInv'
  <1>1. SUFFICES ASSUME NEW c \in Caller PROVE CallerInv(c)'
    BY DEF SessionInv
  <1>2. /\ c \in Client' <=> c \in Client
        /\ c \in Robot' <=> c \in Robot
        /\ IssuerOf(c)' = IssuerOf(c) /\ IssuerOf(c) \in Issuer
        /\ Derived(c)' = Derived(c)
        /\ Permitted(c)' <=> Permitted(c)
    BY Kinds DEF SessionInv, Client, Robot, IssuerOf, Derived, Permitted
  <1>3. CallerInv(c) /\ TypeOK
    BY DEF SessionInv
  <1>4. /\ held[c].key \in Nat /\ call[c].token.key \in Nat
        /\ signing[IssuerOf(c)] \in Nat /\ signing'[IssuerOf(c)] \in Nat
    BY <1>2, <1>3 DEF TypeOK, CallRecord, Token
  <1>5. CredentialsExist(c)'
    BY <1>2, <1>3, <1>4 DEF CallerInv, CredentialsExist, Newest
  <1>6. c \notin Robot /\ (call[c].token.key \in published[IssuerOf(c)])' =>
           call[c].token.key \in published[IssuerOf(c)]
    BY <1>2, <1>3, <1>4 DEF CallerInv, CredentialsExist, Newest
  <1>7. FetchedHolds(c)'
    BY <1>2, <1>3, <1>6, Kinds DEF CallerInv, FetchedHolds
  <1>8. Good(c)' => Good(c)
    BY <1>2, <1>6 DEF Good
  <1>9. Served(c)'
    BY <1>2, <1>3, <1>8 DEF CallerInv, Served
  <1> QED BY <1>2, <1>3, <1>5, <1>7, <1>9 DEF CallerInv

\* A provider that signs with a new key keeps the invariant.
LEMMA RotateKeeps ==
    ASSUME SessionInv, NEW i \in Issuer, Rotate(i)
    PROVE  SessionInv'
  <1> DEFINE k == signing[i] + 1
             keys == {j \in published[i] : Kid[j] # Kid[k]} \cup {k}
  <1>1. TypeOK /\ signing[i] \in Nat /\ published[i] \in SUBSET Nat
    BY DEF SessionInv, TypeOK
  <1>2. /\ signing' = [signing EXCEPT ![i] = k]
        /\ published' = [published EXCEPT ![i] = keys]
        /\ UNCHANGED <<flow, jwks, robot, held, call>>
    BY DEF Rotate
  <1>3. k \in Nat /\ keys \in SUBSET Nat /\ signing[i] < k
        /\ \A j \in keys : j = k \/ j \in published[i]
    BY <1>1
  <1> HIDE DEF k, keys
  <1>4. /\ signing' \in [Issuer -> Nat] /\ published' \in [Issuer -> SUBSET Nat]
        /\ signing'[i] = k /\ published'[i] = keys
        /\ \A j \in Issuer \ {i} : signing'[j] = signing[j] /\ published'[j] = published[j]
    BY <1>1, <1>2, <1>3 DEF TypeOK
  <1>5. \A j \in Issuer : \A n \in published'[j] : n <= signing'[j]
    BY <1>1, <1>3, <1>4 DEF TypeOK
  <1>6. TypeOK'
    BY <1>1, <1>2, <1>4, <1>5 DEF TypeOK
  <1>7. ASSUME NEW j \in Issuer
        PROVE  /\ signing[j] <= signing'[j]
               /\ \A n \in published'[j] : n <= signing[j] => n \in published[j]
    BY <1>1, <1>3, <1>4 DEF TypeOK
  <1> QED BY <1>2, <1>6, <1>7, ProvidersKeep

\* A provider that withdraws a key keeps the invariant.
LEMMA RetireKeeps ==
    ASSUME SessionInv, NEW i \in Issuer, Retire(i)
    PROVE  SessionInv'
  <1>1. TypeOK
    BY DEF SessionInv
  <1>2. PICK k : published' = [published EXCEPT ![i] = @ \ {k}]
    BY DEF Retire
  <1>3. UNCHANGED <<flow, signing, jwks, robot, held, call>>
    BY DEF Retire
  <1>4. published' \in [Issuer -> SUBSET Nat] /\ \A j \in Issuer : published'[j] \subseteq published[j]
    BY <1>1, <1>2 DEF TypeOK
  <1>5. TypeOK'
    BY <1>1, <1>3, <1>4 DEF TypeOK
  <1>6. \A j \in Issuer : signing[j] <= signing'[j]
    BY <1>1, <1>3 DEF TypeOK
  <1> QED BY <1>3, <1>4, <1>5, <1>6, ProvidersKeep

\* What is in the cache decides nothing by itself.
LEMMA CacheKeeps ==
    ASSUME SessionInv, UNCHANGED <<flow, signing, published, robot, held, call>>,
           \/ UNCHANGED jwks
           \/ \E i \in Issuer : CacheExpires(i)
    PROVE  SessionInv'
  <1>1. TypeOK
    BY DEF SessionInv
  <1>2. jwks' \in [Issuer -> [there : BOOLEAN, keys : SUBSET Nat]]
    <2>1. NoJwks \in [there : BOOLEAN, keys : SUBSET Nat]
      BY DEF NoJwks
    <2>2. jwks \in [Issuer -> [there : BOOLEAN, keys : SUBSET Nat]]
      BY <1>1 DEF TypeOK
    <2>3. jwks' = jwks \/ \E i \in Issuer : jwks' = [jwks EXCEPT ![i] = NoJwks]
      BY DEF CacheExpires
    <2> QED BY <2>1, <2>2, <2>3
  <1>3. TypeOK'
    BY <1>1, <1>2 DEF TypeOK
  <1>4. \A j \in Issuer : signing[j] <= signing'[j]
    BY <1>1 DEF TypeOK
  <1> QED BY <1>3, <1>4, ProvidersKeep

-----------------------------------------------------------------------------
(* The theorems *)

\* The invariant holds at first.
LEMMA InitHolds == Init => SessionInv
  <1> SUFFICES ASSUME Init PROVE SessionInv
    OBVIOUS
  <1>1. flow \in [Caller -> AzureFlow \cup KeycloakFlow \cup RobotFlow \cup NoFlow]
    BY SessionsAssumption DEF Init
  <1>2. NoToken \in Token /\ NoToken.key = 0
    BY DEF NoToken, NoKey, Token
  <1>3. TypeOK
    <2>1. /\ signing \in [Issuer -> Nat] /\ published \in [Issuer -> SUBSET Nat]
          /\ \A i \in Issuer : \A k \in published[i] : k <= signing[i]
      BY DEF Init
    <2>2. /\ jwks \in [Issuer -> [there : BOOLEAN, keys : SUBSET Nat]]
          /\ robot \in [Caller -> [secret : Nat, entitlements : SUBSET Entitlement]]
      BY DEF Init, NoJwks, NoRobot
    <2>3. held \in [Caller -> Token] /\ call \in [Caller -> CallRecord]
      BY <1>2, NoCallIs DEF Init
    <2> QED BY <1>1, <2>1, <2>2, <2>3 DEF TypeOK
  <1>4. \A c \in Caller : held[c].key = 0 /\ call[c] = NoCall
    BY <1>2 DEF Init
  <1>5. \A c \in Caller : CallerInv(c)
    BY <1>3, <1>4, NoCallIs, Kinds
    DEF CallerInv, CredentialsExist, FetchedHolds, Served
  <1> QED BY <1>3, <1>5 DEF SessionInv

\* Every step keeps the invariant.
LEMMA StepKeeps == SessionInv /\ [Next]_vars => SessionInv'
  <1> SUFFICES ASSUME SessionInv, [Next]_vars PROVE SessionInv'
    OBVIOUS
  <1>1. ASSUME NEW c \in Caller, CallStep(c) PROVE SessionInv'
    <2>1. CASE c \in Client /\ ClientStep(c)
      BY <2>1, ClientStepKeeps
    <2>2. CASE c \in Robot /\ RobotStep(c)
      BY <2>2, RobotStepKeeps
    <2>3. CASE Return(c)
      BY <2>3, NoCallKeeps DEF Return
    <2> QED BY <1>1, <2>1, <2>2, <2>3 DEF CallStep
  <1>2. ASSUME NEW c \in Caller, Expire(c) PROVE SessionInv'
    BY <1>2, ExpireKeeps
  <1>3. ASSUME NEW r \in Robot, Administer(r) \/ SetUp(r) PROVE SessionInv'
    BY <1>3, AdministerKeeps
  <1>4. ASSUME NEW i \in Issuer, CacheExpires(i) PROVE SessionInv'
    BY <1>4, CacheKeeps DEF CacheExpires, providerVars
  <1>5. CASE ProviderStep
    BY <1>5, RotateKeeps, RetireKeeps, ProviderFaultKeeps DEF ProviderStep
  <1>6. CASE UNCHANGED vars
    BY <1>6, CacheKeeps DEF vars
  <1> QED BY <1>1, <1>2, <1>3, <1>4, <1>5, <1>6 DEF Next

\* Keys and secrets are never reused, fetched keys hold what they are
\* fetched for, and every answer is the right one (AzureJwtAuth,
\* KeycloakJwtAuth, HMACMultiClientAuth, the SDK's auth flows).
THEOREM SessionsInvariant == Spec => []SessionInv
  <1>1. Init => SessionInv
    BY InitHolds
  <1>2. SessionInv /\ [Next]_vars => SessionInv'
    BY StepKeeps
  <1> QED BY <1>1, <1>2, PTL DEF Spec

\* A caller with a good credential is served, with its entitlements,
\* whatever was rotated, retired, cached or cycled before (AzureJwtAuth.
\* verify_token, KeycloakJwtAuth.verify_token, HMACMultiClientAuth.__call__).
THEOREM GoodCredentialsServed == Spec => []ValidIsServed
  <1>1. SessionInv => ValidIsServed
    BY DEF SessionInv, CallerInv, Served, ValidIsServed
  <1> QED BY <1>1, SessionsInvariant, PTL

=============================================================================
