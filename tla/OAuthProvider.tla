------------------------------ MODULE OAuthProvider ------------------------------
(***************************************************************************)
(* MockOAuthProvider: authorization codes with PKCE, client credentials    *)
(* and device codes.  A code stored in a map is a pointer to its record:   *)
(* grant and device hold the records, authCodes, deviceCodes and userCodes *)
(* the keys.  A critical section of p.mu is one step; ExchangeAuthCode     *)
(* checks what it took out of the map after it has released the mutex.     *)
(*                                                                         *)
(* Authorization and device codes are 24 and 20 random bytes and are never *)
(* handed out twice; a user code has only 32 bits and may be.              *)
(***************************************************************************)
EXTENDS Integers

CONSTANTS
    Clients, Users, Verifiers, Secrets,
    Codes,        \* authorization codes
    DeviceCodes,
    UserCodes,
    Exchanges,    \* concurrent calls of ExchangeAuthCode
    CodeTTL,      \* life of an authorization code (5 minutes in the code)
    DeviceTTL,    \* life of a device code (10 minutes in the code)
    LastTime,     \* bound: the clock stops here
    None

ASSUME OAuthAssumption ==
    /\ CodeTTL \in Nat /\ DeviceTTL \in Nat /\ LastTime \in Nat
    /\ None \notin Clients \cup Users \cup Verifiers \cup Secrets
                   \cup Codes \cup DeviceCodes \cup UserCodes
    /\ Codes \cap DeviceCodes = {}

VARIABLES
    clientSecret,  \* clientSecret[c]: secret of a client, or None
    grant,         \* grant[code]: what AuthorizePKCE recorded
    authCodes,     \* codes in the map
    exchange,      \* exchange[x]: an ExchangeAuthCode past its mutex
    device,        \* device[d]: what RequestDeviceCode recorded
    deviceCodes,   \* device codes in the map
    userCodes,     \* userCodes[u]: device the user code leads to, or None
    minted,        \* minted[code]: tokens signed for a code
    tokens,        \* the tokens signed
    time

oauthVars == <<clientSecret, grant, authCodes, exchange, device, deviceCodes,
          userCodes, minted, tokens, time>>

\* S256: the challenge made of a verifier.
S256(v) == <<"S256", v>>

\* A client may send any string: S256(None) is one that no verifier matches.
Challenges == {S256(v) : v \in Verifiers \cup {None}}

NoGrant == [client |-> None, user |-> None, challenge |-> None, expiresAt |-> 0]
NoDevice == [client |-> None, userCode |-> None, approved |-> FALSE,
             user |-> None, expiresAt |-> 0]
Idle == [code |-> None, client |-> None, verifier |-> None]

\* time.Now().After(expiresAt)
Expired(rec) == time > rec.expiresAt

\* time.Now().Add(ttl)
ExpiresAt(ttl) == time + ttl

DeviceGrant == "urn:ietf:params:oauth:grant-type:device_code"

\* The claims that tell tokens apart.
Token(gty, sub, client, code) ==
    [gty |-> gty, sub |-> sub, client |-> client, code |-> code]

OAuthInit ==
    /\ clientSecret \in [Clients -> Secrets \cup {None}]
    /\ grant = [c \in Codes |-> NoGrant]
    /\ authCodes = {}
    /\ exchange = [x \in Exchanges |-> Idle]
    /\ device = [d \in DeviceCodes |-> NoDevice]
    /\ deviceCodes = {}
    /\ userCodes = [u \in UserCodes |-> None]
    /\ minted = [c \in Codes \cup DeviceCodes |-> 0]
    /\ tokens = {}
    /\ time = 0

-----------------------------------------------------------------------------
(* Client credentials                                                      *)

RegisterClient(c, s) ==
    /\ clientSecret' = [clientSecret EXCEPT ![c] = s]
    /\ UNCHANGED <<grant, authCodes, exchange, device, deviceCodes, userCodes,
                   minted, tokens, time>>

\* A wrong secret, or no such client, is answered with an error.
IssueClientCredentialsToken(c, s) ==
    /\ clientSecret[c] = s
    /\ tokens' = tokens \cup {Token("client_credentials", c, c, None)}
    /\ UNCHANGED <<clientSecret, grant, authCodes, exchange, device, deviceCodes,
                   userCodes, minted, time>>

-----------------------------------------------------------------------------
(* Authorization code with PKCE                                            *)

\* Any challenge method but S256 is refused before anything changes.
AuthorizePKCE(code, client, user, challenge) ==
    /\ grant[code] = NoGrant
    /\ grant' = [grant EXCEPT ![code] = [client |-> client, user |-> user,
                     challenge |-> challenge, expiresAt |-> ExpiresAt(CodeTTL)]]
    /\ authCodes' = authCodes \cup {code}
    /\ UNCHANGED <<clientSecret, exchange, device, deviceCodes, userCodes,
                   minted, tokens, time>>

\* Mutant: the code is left in the map.
TakeCodeKept(x, client, code, verifier) ==
    /\ exchange[x] = Idle
    /\ code \in authCodes
    /\ exchange' = [exchange EXCEPT ![x] =
           [code |-> code, client |-> client, verifier |-> verifier]]
    /\ UNCHANGED <<clientSecret, grant, authCodes, device, deviceCodes, userCodes,
                   minted, tokens, time>>

\* ExchangeAuthCode under the mutex; an unknown code is an invalid grant.
TakeCode(x, client, code, verifier) ==
    /\ exchange[x] = Idle
    /\ code \in authCodes
    /\ authCodes' = authCodes \ {code}
    /\ exchange' = [exchange EXCEPT ![x] =
           [code |-> code, client |-> client, verifier |-> verifier]]
    /\ UNCHANGED <<clientSecret, grant, device, deviceCodes, userCodes,
                   minted, tokens, time>>

\* The three checks of ExchangeAuthCode.
ExchangeValid(e) ==
    /\ ~Expired(grant[e.code])
    /\ grant[e.code].client = e.client
    /\ S256(e.verifier) = grant[e.code].challenge

\* Mutant: a code whose exchange failed is put back.
CheckCodeRestored(x) ==
    LET e == exchange[x] IN
    /\ e # Idle
    /\ exchange' = [exchange EXCEPT ![x] = Idle]
    /\ IF ExchangeValid(e)
       THEN /\ minted' = [minted EXCEPT ![e.code] = @ + 1]
            /\ UNCHANGED authCodes
       ELSE authCodes' = authCodes \cup {e.code} /\ UNCHANGED minted
    /\ UNCHANGED <<clientSecret, grant, device, deviceCodes, userCodes, tokens,
                   time>>

\* The rest of ExchangeAuthCode: the checks, and the token if they succeed.
CheckCode(x) ==
    LET e == exchange[x] IN
    /\ e # Idle
    /\ exchange' = [exchange EXCEPT ![x] = Idle]
    /\ IF ExchangeValid(e)
       THEN /\ minted' = [minted EXCEPT ![e.code] = @ + 1]
            /\ tokens' = tokens \cup {Token("authorization_code",
                             grant[e.code].user, grant[e.code].client, e.code)}
       ELSE UNCHANGED <<minted, tokens>>
    /\ UNCHANGED <<clientSecret, grant, authCodes, device, deviceCodes, userCodes,
                   time>>

-----------------------------------------------------------------------------
(* Device codes                                                            *)

\* The user code may be one that another device is still waiting with.
RequestDeviceCode(d, u, client) ==
    /\ device[d] = NoDevice
    /\ device' = [device EXCEPT ![d] = [client |-> client, userCode |-> u,
           approved |-> FALSE, user |-> None, expiresAt |-> ExpiresAt(DeviceTTL)]]
    /\ deviceCodes' = deviceCodes \cup {d}
    /\ userCodes' = [userCodes EXCEPT ![u] = d]
    /\ UNCHANGED <<clientSecret, grant, authCodes, exchange, minted, tokens, time>>

ApproveDeviceCode(u, user) ==
    LET d == userCodes[u] IN
    /\ d # None
    /\ ~Expired(device[d])
    /\ device' = [device EXCEPT ![d].approved = TRUE, ![d].user = user]
    /\ UNCHANGED <<clientSecret, grant, authCodes, exchange, deviceCodes,
                   userCodes, minted, tokens, time>>

\* Mutant: the record is looked up through its user code.
PollAnswerByUserCode(d, client) ==
    CASE d \notin deviceCodes \/ userCodes[device[d].userCode] # d -> "invalid_grant"
      [] OTHER -> CASE Expired(device[d]) -> "expired"
                    [] device[d].client # client -> "invalid_grant"
                    [] ~device[d].approved -> "pending"
                    [] OTHER -> "token"

\* PollDeviceToken's answer, in the order of its checks.
PollAnswer(d, client) ==
    CASE d \notin deviceCodes -> "invalid_grant"
      [] OTHER -> CASE Expired(device[d]) -> "expired"
                    [] device[d].client # client -> "invalid_grant"
                    [] ~device[d].approved -> "pending"
                    [] OTHER -> "token"

\* Mutant: the codes are deleted before it is known that the user approved.
PollDeviceTokenEager(d, client) ==
    /\ PollAnswer(d, client) \in {"pending", "token"}
    /\ userCodes' = [userCodes EXCEPT ![device[d].userCode] = None]
    /\ IF device[d].approved
       THEN /\ deviceCodes' = deviceCodes \ {d}
            /\ minted' = [minted EXCEPT ![d] = @ + 1]
            /\ tokens' = tokens \cup {Token(DeviceGrant, device[d].user,
                                            device[d].client, d)}
       ELSE UNCHANGED <<deviceCodes, minted, tokens>>
    /\ UNCHANGED <<clientSecret, grant, authCodes, exchange, device, time>>

\* Mutant: after a grant only the device code is deleted.
PollDeviceTokenUserCodeKept(d, client) ==
    /\ PollAnswer(d, client) = "token"
    /\ deviceCodes' = deviceCodes \ {d}
    /\ minted' = [minted EXCEPT ![d] = @ + 1]
    /\ tokens' = tokens \cup {Token(DeviceGrant, device[d].user,
                                    device[d].client, d)}
    /\ UNCHANGED <<clientSecret, grant, authCodes, exchange, device, userCodes, time>>

\* Mutant: after a grant only the user code is deleted.
PollDeviceTokenRepeatable(d, client) ==
    /\ PollAnswer(d, client) = "token"
    /\ userCodes' = [userCodes EXCEPT ![device[d].userCode] = None]
    /\ minted' = [minted EXCEPT ![d] = @ + 1]
    /\ tokens' = tokens \cup {Token(DeviceGrant, device[d].user,
                                    device[d].client, d)}
    /\ UNCHANGED <<clientSecret, grant, authCodes, exchange, device, deviceCodes, time>>

\* Only an approved code changes the state; both of its keys are deleted, the
\* user code even if it leads to another device by now.
PollDeviceToken(d, client) ==
    /\ PollAnswer(d, client) = "token"
    /\ deviceCodes' = deviceCodes \ {d}
    /\ userCodes' = [userCodes EXCEPT ![device[d].userCode] = None]
    /\ minted' = [minted EXCEPT ![d] = @ + 1]
    /\ tokens' = tokens \cup {Token(DeviceGrant, device[d].user,
                                    device[d].client, d)}
    /\ UNCHANGED <<clientSecret, grant, authCodes, exchange, device, time>>

TimePasses ==
    /\ time < LastTime
    /\ time' = time + 1
    /\ UNCHANGED <<clientSecret, grant, authCodes, exchange, device, deviceCodes,
                   userCodes, minted, tokens>>

OAuthNext ==
    \/ \E c \in Clients, s \in Secrets :
           RegisterClient(c, s) \/ IssueClientCredentialsToken(c, s)
    \/ \E code \in Codes, client \in Clients, user \in Users, ch \in Challenges :
           AuthorizePKCE(code, client, user, ch)
    \/ \E x \in Exchanges, client \in Clients, code \in Codes, v \in Verifiers :
           TakeCode(x, client, code, v)
    \/ \E x \in Exchanges : CheckCode(x)
    \/ \E d \in DeviceCodes, u \in UserCodes, client \in Clients :
           RequestDeviceCode(d, u, client)
    \/ \E u \in UserCodes, user \in Users : ApproveDeviceCode(u, user)
    \/ \E d \in DeviceCodes, client \in Clients : PollDeviceToken(d, client)
    \/ TimePasses

OAuthSpec == OAuthInit /\ [][OAuthNext]_oauthVars

\* A device goes on polling under the client it asked with.
OAuthFairSpec ==
    OAuthSpec /\ \A d \in DeviceCodes :
                WF_oauthVars(\E client \in Clients : PollDeviceToken(d, client))

-----------------------------------------------------------------------------
(* Properties                                                              *)

OAuthTypeOK ==
    /\ clientSecret \in [Clients -> Secrets \cup {None}]
    /\ grant \in [Codes -> {NoGrant} \cup [client : Clients, user : Users,
                    challenge : Challenges, expiresAt : Nat]]
    /\ authCodes \subseteq Codes
    /\ exchange \in [Exchanges -> {Idle} \cup [code : Codes, client : Clients,
                                              verifier : Verifiers]]
    /\ device \in [DeviceCodes -> {NoDevice} \cup [client : Clients,
                     userCode : UserCodes, approved : BOOLEAN,
                     user : Users \cup {None}, expiresAt : Nat]]
    /\ deviceCodes \subseteq DeviceCodes
    /\ userCodes \in [UserCodes -> DeviceCodes \cup {None}]
    /\ minted \in [Codes \cup DeviceCodes -> Nat]
    /\ time \in 0..LastTime

\* However many exchanges and polls of a code run at once, at most one token is
\* signed for it (the delete under the mutex in ExchangeAuthCode, the two deletes
\* in PollDeviceToken).
OneTokenPerCode == \A c \in Codes \cup DeviceCodes : minted[c] <= 1

\* An authorization code that has been presented is used up for good, also when
\* the exchange then fails (ExchangeAuthCode deletes before it checks).
CodeSpentForGood ==
    [][\A c \in Codes : grant[c] # NoGrant /\ c \notin authCodes
                             => c \notin authCodes']_oauthVars

\* The record a device token was signed from keeps naming the user of the token:
\* no later approval, of a reused user code included, reaches it.
DeviceTokenStands ==
    \A t \in tokens : t.gty = DeviceGrant =>
        device[t.code].approved /\ device[t.code].user = t.sub

\* The user code of d was handed to e too, and leads to e, or was deleted with e's grant.
TakenBy(d, e) ==
    /\ device[e].userCode = device[d].userCode
    /\ userCodes[device[d].userCode] = e \/ minted[e] > 0

\* A device that waits can still be approved through the user code it displays, unless
\* another device was handed the same code and still has it or got its token with it: no
\* poll that is pending, refused or too late takes a user code away.
WaitingApprovable ==
    \A d \in deviceCodes :
        \/ device[d].approved
        \/ userCodes[device[d].userCode] = d
        \/ \E e \in DeviceCodes \ {d} : TakenBy(d, e)

\* An approved device that keeps polling gets its token, if its code does not
\* expire first, also when its user code has been handed out again.
ApprovedGetsToken ==
    \A d \in DeviceCodes :
        device[d].approved ~> (minted[d] = 1 \/ Expired(device[d]))

=============================================================================
